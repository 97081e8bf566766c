------------------------------ MODULE KVRBTree ------------------------------
(***************************************************************************)
(* src/KV_Store/RBTree.cpp (the same file as src/B+Tree/temp.cpp): the     *)
(* red-black tree of the key-value store.  It has no sentinel: an absent   *)
(* child is nullptr, and fix_delete is told the parent of the node that    *)
(* may be one.  It counts its elements, and insert replaces the value of a *)
(* key it finds.  Left and right cases are mirror images in the source and *)
(* share an operator here.  Used by one thread: a call is one action.      *)
(***************************************************************************)
EXTENDS SearchTrees

Null == 0               \* nullptr

(* A node is its key: every key has at most one. *)
EmptyTree ==
    [root   |-> Null,
     child  |-> [d \in Side |-> [x \in Key |-> Null]],
     parent |-> [x \in Key |-> Null],
     color  |-> [x \in Key |-> "BLACK"],
     value  |-> [x \in Key |-> "none"]]

VARIABLES
    tree,
    count,      \* the member of that name
    reply       \* the last call, and what insert, remove or find returned

vars == <<tree, count, reply>>

Init == tree = EmptyTree /\ count = 0 /\ reply = NoReply
-----------------------------------------------------------------------------
IsBlack(T, x) == x = Null \/ T.color[x] = "BLACK"
Paint(T, x, c) == IF x = Null THEN T ELSE [T EXCEPT !.color[x] = c]

(* x->is_left_child() *)
SideOf(T, x) == IF T.parent[x] # Null /\ T.child["left"][T.parent[x]] = x THEN "left" ELSE "right"

(* Put y where x hangs: at the parent's left or right, or at the root. *)
Relink(T, x, y) ==
    IF T.parent[x] = Null THEN [T EXCEPT !.root = y]
    ELSE [T EXCEPT !.child[SideOf(T, x)][T.parent[x]] = y]

Adopt(T, x, p) == IF x = Null THEN T ELSE [T EXCEPT !.parent[x] = p]

(* left_rotate(x) for d = "left", right_rotate(x) for d = "right" *)
Rotate(T, d, x) ==
    LET y == T.child[Other(d)][x]
        T1 == Relink(T, x, y)
        T2 == [T1 EXCEPT !.child[Other(d)][x] = T.child[d][y],
                         !.child[d][y] = x,
                         !.parent[y] = T.parent[x],
                         !.parent[x] = y]
    IN  IF y = Null THEN T ELSE Adopt(T2, T.child[d][y], x)

transplant(T, u, v) == Adopt(Relink(T, u, v), v, T.parent[u])

(* fix_insert, uncle not red: cases 2 and 3. *)
InsertRepair(T, d, z) ==
    LET p == T.parent[z]
        inner == SideOf(T, z) # d
        T1 == IF inner THEN Rotate(T, d, p) ELSE T
        z1 == IF inner THEN p ELSE z
        p1 == T1.parent[z1]
        g1 == T1.parent[p1]
    IN  Rotate([T1 EXCEPT !.color[p1] = "BLACK", !.color[g1] = "RED"], Other(d), g1)

RECURSIVE fix_insert(_, _)
fix_insert(T, z) ==
    LET p == T.parent[z]
    IN  IF z = T.root \/ T.color[p] # "RED" \/ T.parent[p] = Null THEN Paint(T, T.root, "BLACK")
        ELSE LET g == T.parent[p]
                 d == SideOf(T, p)
                 uncle == T.child[Other(d)][g]
             IN  IF ~IsBlack(T, uncle)
                 THEN fix_insert([T EXCEPT !.color[p] = "BLACK", !.color[uncle] = "BLACK",
                                           !.color[g] = "RED"], g)
                 ELSE LET T1 == InsertRepair(T, d, z)
                      IN  Paint(T1, T1.root, "BLACK")

(* BUG: the search goes on past the key itself. *)
RECURSIVE findFrom_passes(_, _, _)
findFrom_passes(T, x, k) ==
    IF x = Null THEN x
    ELSE findFrom_passes(T, T.child[IF k < x THEN "left" ELSE "right"][x], k)

RECURSIVE findFrom(_, _, _)
findFrom(T, x, k) ==
    IF x = Null \/ x = k THEN x
    ELSE findFrom(T, T.child[IF k < x THEN "left" ELSE "right"][x], k)

find_node(T, k) == findFrom(T, T.root, k)

(* The parent the search loop of insert ends with. *)
RECURSIVE parentFor(_, _, _)
parentFor(T, x, k) ==
    LET y == T.child[IF k < x THEN "left" ELSE "right"][x]
    IN  IF y = Null THEN x ELSE parentFor(T, y, k)

insert(T, k, v) ==
    LET T1 == [T EXCEPT !.value[k] = v, !.color[k] = "RED"]
        p == parentFor(T, T.root, k)
    IN  IF T.root = Null THEN [T1 EXCEPT !.root = k, !.color[k] = "BLACK"]
        ELSE fix_insert([T1 EXCEPT !.parent[k] = p,
                                   !.child[IF k < p THEN "left" ELSE "right"][p] = k], k)
-----------------------------------------------------------------------------
RECURSIVE minimum(_, _)
minimum(T, x) == IF T.child["left"][x] = Null THEN x ELSE minimum(T, T.child["left"][x])

(* fix_delete, sibling black with a red child: cases 3 and 4. *)
DeleteRepair(T, d, p) ==
    LET o == Other(d)
        s == T.child[o][p]
        T1 == IF IsBlack(T, T.child[o][s])
              THEN Rotate([Paint(T, T.child[d][s], "BLACK") EXCEPT !.color[s] = "RED"], o, s)
              ELSE T
        s1 == T1.child[o][p]
        T2 == [T1 EXCEPT !.color[s1] = T1.color[p], !.color[p] = "BLACK"]
    IN  IF s1 = Null THEN T1 ELSE Rotate(Paint(T2, T2.child[o][s1], "BLACK"), d, p)

RECURSIVE fix_delete(_, _, _)
fix_delete(T, x, p) ==
    IF x = T.root \/ ~IsBlack(T, x) \/ p = Null THEN Paint(T, x, "BLACK")
    ELSE LET d == IF x = T.child["left"][p] THEN "left" ELSE "right"
             o == Other(d)
             s == T.child[o][p]
             T1 == IF IsBlack(T, s) THEN T                   \* case 1
                   ELSE Rotate([T EXCEPT !.color[s] = "BLACK", !.color[p] = "RED"], d, p)
             s1 == T1.child[o][p]
         IN  IF s = Null \/ s1 = Null THEN Paint(T1, x, "BLACK")     \* no sibling
             ELSE IF \A e \in Side : IsBlack(T1, T1.child[e][s1])
             THEN fix_delete([T1 EXCEPT !.color[s1] = "RED"], p, T1.parent[p])   \* case 2
             ELSE LET T2 == DeleteRepair(T1, d, p)
                  IN  Paint(T2, T2.root, "BLACK")

(* The two-children case of remove: successor y takes the place of z. *)
Splice(T, z, y) ==
    LET r == T.child["right"][z]
        l == T.child["left"][z]
        T1 == IF T.parent[y] = z THEN T
              ELSE Adopt([transplant(T, y, T.child["right"][y])
                             EXCEPT !.child["right"][y] = r], r, y)
        T2 == transplant(T1, z, y)
    IN  Adopt([T2 EXCEPT !.child["left"][y] = l, !.color[y] = T.color[z]], l, y)

(* A removed node is destroyed: its fields are those of no node. *)
Destroyed(T, z) ==
    [T EXCEPT !.child["left"][z] = Null, !.child["right"][z] = Null, !.parent[z] = Null,
              !.color[z] = "BLACK", !.value[z] = "none"]

(* The parent fix_delete starts from, when y is unlinked. *)
FixParent_stale(T, z, y) == T.parent[y]     \* BUG: it may be the removed node
FixParent(T, z, y) == IF y # z /\ T.parent[y] = z THEN y ELSE T.parent[y]

remove(T, z) ==
    LET l == T.child["left"][z]
        r == T.child["right"][z]
        y == IF l = Null \/ r = Null THEN z ELSE minimum(T, r)
        x == IF l = Null THEN r ELSE IF r = Null THEN l ELSE T.child["right"][y]
        p == FixParent(T, z, y)
        T1 == IF y = z THEN transplant(T, z, x) ELSE Splice(T, z, y)
        T2 == IF T.color[y] = "RED" THEN T1
              ELSE IF x = T1.root THEN Paint(T1, x, "BLACK")
              ELSE IF p # Null THEN fix_delete(T1, x, p)
              ELSE T1
    IN  Destroyed(T2, z)
-----------------------------------------------------------------------------
Has(k) == find_node(tree, k) # Null

Insert(k, v) ==
    /\ tree' = IF Has(k) THEN [tree EXCEPT !.value[k] = v] ELSE insert(tree, k, v)
    /\ count' = IF Has(k) THEN count ELSE count + 1
    /\ reply' = Reply(reply, <<"insert", k>>, IF Has(k) THEN "exists" ELSE "new")

CountDown(k) == IF Has(k) THEN count - 1 ELSE count

Remove(k) ==
    /\ tree' = IF Has(k) THEN remove(tree, k) ELSE tree
    /\ count' = CountDown(k)
    /\ reply' = Reply(reply, <<"remove", k>>, IF Has(k) THEN "removed" ELSE "absent")

Find(k) ==
    /\ reply' = Reply(reply, <<"get", k>>, IF Has(k) THEN tree.value[k] ELSE "none")
    /\ UNCHANGED <<tree, count>>

(* An assignment through the pointer find returned. *)
Assign(k, v) ==
    /\ Has(k)
    /\ tree' = [tree EXCEPT !.value[k] = v]
    /\ reply' = Reply(reply, <<"modify", k>>, "none")
    /\ UNCHANGED count

Clear ==
    /\ tree' = EmptyTree /\ count' = 0
    /\ reply' = Reply(reply, <<"clear">>, "none")

Next ==
    \/ \E k \in Key : Remove(k) \/ Find(k) \/ \E v \in Value : Insert(k, v) \/ Assign(k, v)
    \/ Clear

Spec == Init /\ [][Next]_vars
-----------------------------------------------------------------------------
RECURSIVE Subtree(_, _)
Subtree(T, x) ==
    IF x = Null THEN {}
    ELSE {x} \union Subtree(T, T.child["left"][x]) \union Subtree(T, T.child["right"][x])

RECURSIVE validate_rb(_, _, _)
validate_rb(T, x, n) ==     \* the black counts of the paths below x
    IF x = Null THEN {n}
    ELSE LET m == IF T.color[x] = "BLACK" THEN n + 1 ELSE n
         IN  validate_rb(T, T.child["left"][x], m) \union validate_rb(T, T.child["right"][x], m)

validate(T) ==
    \/ T.root = Null
    \/ /\ T.color[T.root] = "BLACK"
       /\ \A x \in Subtree(T, T.root) : T.color[x] = "RED" =>
             \A d \in Side : IsBlack(T, T.child[d][x])
       /\ Cardinality(validate_rb(T, T.root, 0)) = 1

Nodes == Subtree(tree, tree.root)

(* The pointers describe a binary search tree with correct parents, in     *)
(* which exactly the stored keys are found, and size() is their number:    *)
(* insert counts only new keys, remove only keys it found.                 *)
SearchTree ==
    /\ \A x \in Nodes :
          /\ \A y \in Subtree(tree, tree.child["left"][x]) : y < x
          /\ \A y \in Subtree(tree, tree.child["right"][x]) : x < y
          /\ \A d \in Side : tree.child[d][x] # Null => tree.parent[tree.child[d][x]] = x
    /\ tree.root # Null => tree.parent[tree.root] = Null
    /\ Nodes = {k \in Key : tree.value[k] # "none"}
    /\ count = Cardinality(Nodes)

(* The tree passes its own validate() after every call, as test 2  *)
(* (lines 610-616) requires after its insertions.                          *)
AlwaysValid == validate(tree)
=============================================================================
