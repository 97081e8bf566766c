------------------------------- MODULE RBTree -------------------------------
(***************************************************************************)
(* src/Red_Black_Tree/RBTree.hpp: the red-black tree with a sentinel nil.  *)
(* A tree is a record of its pointers and colors.  The source writes each  *)
(* case twice, for left and for right; the two are mirror images, and the  *)
(* operators below take the side as a parameter.  Used by one thread: a    *)
(* call is one action.                                                     *)
(***************************************************************************)
EXTENDS SearchTrees

Nil == 0                \* the sentinel node nil
Null == -1              \* nullptr, an empty parent

(* A node is its key: every key has at most one. *)
EmptyTree ==
    [root   |-> Nil,
     child  |-> [d \in Side |-> [x \in Key \union {Nil} |-> Null]],
     parent |-> [x \in Key \union {Nil} |-> Null],
     color  |-> [x \in Key \union {Nil} |-> "BLACK"],
     value  |-> [x \in Key |-> "none"]]

VARIABLES
    tree,
    reply       \* the last call; what get returned, "none" when it threw
vars == <<tree, reply>>

Init == tree = EmptyTree /\ reply = NoReply
-----------------------------------------------------------------------------
(* Put y where x hangs: at p's left or right, or at the root. *)
Relink(T, p, x, y) ==
    IF p = Null THEN [T EXCEPT !.root = y]
    ELSE IF x = T.child["left"][p] THEN [T EXCEPT !.child["left"][p] = y]
    ELSE [T EXCEPT !.child["right"][p] = y]

(* leftRotate(x) for d = "left", rightRotate(x) for d = "right" *)
Rotate(T, d, x) ==
    LET y == T.child[Other(d)][x]
        b == T.child[d][y]
        T1 == [T EXCEPT !.child[Other(d)][x] = b,
                        !.parent[b] = IF b # Nil THEN x ELSE @,
                        !.parent[y] = T.parent[x]]
        T2 == Relink(T1, T.parent[x], x, y)
    IN  [T2 EXCEPT !.child[d][y] = x, !.parent[x] = y]

transplant(T, u, v) == [Relink(T, T.parent[u], u, v) EXCEPT !.parent[v] = T.parent[u]]

Blacken(T) == [T EXCEPT !.color[T.root] = "BLACK"]

(* insertFixup, uncle black: z is turned to the outer side, then the       *)
(* grandparent is rotated.  Returns the tree; z ends below its parent.     *)
InsertRepair(T, d, z) ==
    LET p == T.parent[z]
        inner == z = T.child[Other(d)][p]
        T1 == IF inner THEN Rotate(T, d, p) ELSE T
        z1 == IF inner THEN p ELSE z
        p1 == T1.parent[z1]
        g1 == T1.parent[p1]
    IN  Rotate([T1 EXCEPT !.color[p1] = "BLACK", !.color[g1] = "RED"], Other(d), g1)

(* The loop of insertFixup.  After InsertRepair z has a black parent.      *)
RECURSIVE insertFixup(_, _)
insertFixup(T, z) ==
    LET p == T.parent[z]
    IN  IF p = Null \/ T.color[p] # "RED" THEN Blacken(T)
        ELSE LET g == T.parent[p]
                 d == IF p = T.child["left"][g] THEN "left" ELSE "right"
                 y == T.child[Other(d)][g]
                 T1 == [T EXCEPT !.color[p] = "BLACK", !.color[y] = "BLACK", !.color[g] = "RED"]
             IN  IF y # Nil /\ T.color[y] = "RED"
                 THEN IF g = T1.root THEN Blacken(T1) ELSE insertFixup(T1, g)
                 ELSE Blacken(InsertRepair(T, d, z))

RECURSIVE searchFrom(_, _, _)
searchFrom(T, x, k) ==
    IF x = Nil \/ x = k THEN x
    ELSE searchFrom(T, T.child[IF k < x THEN "left" ELSE "right"][x], k)

searchNode(T, k) == IF searchFrom(T, T.root, k) = Nil THEN Null ELSE k

(* The last node on the way to where k belongs: y of insert. *)
RECURSIVE leafFor(_, _, _, _)
leafFor(T, y, x, k) ==
    IF x = Nil THEN y
    ELSE leafFor(T, x, T.child[IF k < x THEN "left" ELSE "right"][x], k)

insert(T, k, v) ==
    LET y == leafFor(T, Null, T.root, k)
        T1 == [T EXCEPT !.child["left"][k] = Nil, !.child["right"][k] = Nil,
                        !.parent[k] = y, !.color[k] = "RED", !.value[k] = v]
        T2 == IF y = Null THEN [T1 EXCEPT !.root = k]
              ELSE [T1 EXCEPT !.child[IF k < y THEN "left" ELSE "right"][y] = k]
    IN  IF y = Null THEN Blacken(T2)
        ELSE IF T2.parent[y] = Null THEN T2      \* no grandparent
        ELSE insertFixup(T2, k)
-----------------------------------------------------------------------------
RECURSIVE minimum(_, _)
minimum(T, x) == IF T.child["left"][x] = Nil THEN x ELSE minimum(T, T.child["left"][x])

(* deleteFixup, sibling w black with a red child: cases 3 and 4. *)
DeleteRepair_noCase3(T, d, p) ==     \* BUG: an inner red nephew is not turned out
    LET w == T.child[Other(d)][p]
    IN  Rotate([T EXCEPT !.color[w] = T.color[p], !.color[p] = "BLACK",
                         !.color[T.child[Other(d)][w]] = "BLACK"], d, p)
DeleteRepair(T, d, p) ==
    LET o == Other(d)
        w == T.child[o][p]
        T1 == IF T.color[T.child[o][w]] = "BLACK"
              THEN Rotate([T EXCEPT !.color[T.child[d][w]] = "BLACK", !.color[w] = "RED"], o, w)
              ELSE T
        w1 == T1.child[o][p]
    IN  Rotate([T1 EXCEPT !.color[w1] = T1.color[p], !.color[p] = "BLACK",
                          !.color[T1.child[o][w1]] = "BLACK"], d, p)

RECURSIVE deleteFixup(_, _)
deleteFixup(T, x) ==
    IF x = T.root \/ T.color[x] # "BLACK" THEN [T EXCEPT !.color[x] = "BLACK"]
    ELSE LET p == T.parent[x]
             d == IF x = T.child["left"][p] THEN "left" ELSE "right"
             w == T.child[Other(d)][p]
             T1 == IF T.color[w] = "RED"                     \* case 1
                   THEN Rotate([T EXCEPT !.color[w] = "BLACK", !.color[p] = "RED"], d, p)
                   ELSE T
             w1 == T1.child[Other(d)][p]
         IN  IF \A e \in Side : T1.color[T1.child[e][w1]] = "BLACK"
             THEN deleteFixup([T1 EXCEPT !.color[w1] = "RED"], p)    \* case 2
             ELSE Blacken(DeleteRepair(T1, d, p))

(* The two-children case of remove: successor y takes the place of z. *)
Splice(T, z, y) ==
    LET x == T.child["right"][y]
        T1 == IF T.parent[y] = z
              THEN [T EXCEPT !.parent[x] = y]
              ELSE LET t == transplant(T, y, x)
                       r == T.child["right"][z]
                   IN  [t EXCEPT !.child["right"][y] = r, !.parent[r] = y]
        T2 == transplant(T1, z, y)
        l == T.child["left"][z]
    IN  [T2 EXCEPT !.child["left"][y] = l, !.parent[l] = y, !.color[y] = T.color[z]]

(* A removed node is destroyed: its fields are those of no node. *)
Destroyed(T, z) ==
    [T EXCEPT !.child["left"][z] = Null, !.child["right"][z] = Null, !.parent[z] = Null,
              !.color[z] = "BLACK", !.value[z] = "none"]

ResetNil(T) == [T EXCEPT !.parent[Nil] = Null]

remove(T, z) ==
    LET l == T.child["left"][z]
        r == T.child["right"][z]
        y == IF l = Nil \/ r = Nil THEN z ELSE minimum(T, r)
        x == IF l = Nil THEN r ELSE IF r = Nil THEN l ELSE T.child["right"][y]
        T1 == IF y = z THEN transplant(T, z, x) ELSE Splice(T, z, y)
        T2 == IF T.color[y] = "BLACK" THEN deleteFixup(T1, x) ELSE T1
    IN  Destroyed(ResetNil(T2), z)
-----------------------------------------------------------------------------
Has(k) == searchNode(tree, k) # Null

Insert(k, v) ==
    /\ tree' = IF Has(k) THEN tree ELSE insert(tree, k, v)
    /\ reply' = Reply(reply, <<"insert", k>>, "none")

Remove(k) ==
    /\ tree' = IF Has(k) THEN remove(tree, k) ELSE tree
    /\ reply' = Reply(reply, <<"remove", k>>, "none")

Modify(k, v) ==
    /\ tree' = IF Has(k) THEN [tree EXCEPT !.value[k] = v] ELSE tree
    /\ reply' = Reply(reply, <<"modify", k>>, "none")

Get(k) ==                   \* a key that is not found raises an exception
    /\ reply' = Reply(reply, <<"get", k>>, IF Has(k) THEN tree.value[k] ELSE "none")
    /\ UNCHANGED tree

CleanTree == tree' = EmptyTree /\ reply' = Reply(reply, <<"clear">>, "none")

Next ==
    \/ \E k \in Key : Remove(k) \/ Get(k) \/ \E v \in Value : Insert(k, v) \/ Modify(k, v)
    \/ CleanTree

Spec == Init /\ [][Next]_vars
-----------------------------------------------------------------------------
RECURSIVE Subtree(_, _)
Subtree(T, x) ==
    IF x = Nil THEN {}
    ELSE {x} \union Subtree(T, T.child["left"][x]) \union Subtree(T, T.child["right"][x])

RECURSIVE BlackCounts(_, _, _)
BlackCounts(T, x, n) ==     \* checkBlackHeight: leafBlackCounts, as a set
    IF x = Nil THEN {n}
    ELSE LET m == IF T.color[x] = "BLACK" THEN n + 1 ELSE n
         IN  BlackCounts(T, T.child["left"][x], m) \union BlackCounts(T, T.child["right"][x], m)

verifyRBProperties(T) ==
    \/ T.root = Nil
    \/ /\ T.color[T.root] = "BLACK"
       /\ \A x \in Subtree(T, T.root) : T.color[x] = "RED" =>
             \A d \in Side : T.color[T.child[d][x]] = "BLACK"
       /\ Cardinality(BlackCounts(T, T.root, 0)) = 1

Nodes == Subtree(tree, tree.root)

(* The pointers describe a binary search tree: keys are ordered across     *)
(* whole subtrees, every child names its parent, only the nodes reached    *)
(* from the root exist, and nil is black with no parent left over from a   *)
(* removal.                                                                *)
SearchTree ==
    /\ \A x \in Nodes :
          /\ \A y \in Subtree(tree, tree.child["left"][x]) : y < x
          /\ \A y \in Subtree(tree, tree.child["right"][x]) : x < y
          /\ \A d \in Side : tree.child[d][x] # Nil => tree.parent[tree.child[d][x]] = x
    /\ tree.root # Nil => tree.parent[tree.root] = Null
    /\ tree.parent[Nil] = Null /\ tree.color[Nil] = "BLACK"
    /\ Nodes = {k \in Key : tree.value[k] # "none"}

(* After every sequence of calls the tree passes its own                   *)
(* verifyRBProperties: the test driver prints it after each operation.     *)
AlwaysRedBlack == verifyRBProperties(tree)
=============================================================================
