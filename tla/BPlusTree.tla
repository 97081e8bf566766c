------------------------------ MODULE BPlusTree ------------------------------
(***************************************************************************)
(* The B+ tree of KV_Store/BplusTree.cpp (B+Tree/BplusTree.cpp is the same *)
(* file): insertion with top-down splits, removal without merging, lookup, *)
(* range query over the leaf chain, and the tree's own validator.          *)
(*                                                                         *)
(* Nodes live in a heap, because a leaf that removal takes out of its      *)
(* parent stays in the leaf chain, held by its predecessor's next (or by   *)
(* first_leaf).  Every edit of a leaf's keys is paired in the code with    *)
(* the same edit of its values, so values are left out.  Keys are ints, as *)
(* in the file's tests.  Indices are one more than in the code.            *)
(***************************************************************************)
EXTENDS Integers, Sequences, SequencesExt, FiniteSets, FiniteSetsExt

CONSTANTS
    Degree,     \* the tree's degree, at least 2 by the constructor
    Clients     \* kinds of clients: [keys, size, nodes, repeats, removes], the
                \* keys they use, the bounds on keys held and nodes alive at
                \* once, and whether they insert a key again and remove keys

ASSUME BPlusTreeAssumption ==
    /\ Degree \in Nat /\ Degree >= 2
    /\ \A c \in Clients :
          /\ c.keys \subseteq Int /\ IsFiniteSet(c.keys)
          /\ c.size \in Nat /\ c.nodes \in Nat
          /\ c.repeats \in BOOLEAN /\ c.removes \in BOOLEAN

VARIABLES
    client,     \* the client of this behaviour
    tree,       \* [root, first, nodes, ok]; a null pointer is 0
    held        \* history: how often each key was inserted and not removed

vars == <<client, tree, held>>

Key == client.keys

EmptyTree == [root |-> 0, first |-> 0, nodes |-> <<>>, ok |-> TRUE]

Init ==
    /\ client \in Clients
    /\ tree = EmptyTree
    /\ held = [k \in Key |-> 0]

------------------------------------------------------------------------------
(* Nodes.                                                                  *)

Leaf(keys, next) == [leaf |-> TRUE, keys |-> keys, kids |-> <<>>, next |-> next]
Internal(keys, kids) == [leaf |-> FALSE, keys |-> keys, kids |-> kids, next |-> 0]

\* make_shared: a node that is not in use.
Fresh(T) == CHOOSE n \in 1 .. client.nodes + 3 : n \notin DOMAIN T.nodes

Store(T, n, node) ==
    [T EXCEPT !.nodes =
        [m \in DOMAIN T.nodes \cup {n} |-> IF m = n THEN node ELSE T.nodes[m]]]

is_full(node) == Len(node.keys) >= 2 * Degree - 1
is_underflow(node) == Len(node.keys) < Degree - 1

\* The first position whose key is not smaller than key, or one past the
\* end: std::lower_bound in a leaf, find_child_index in an internal node.
lower_bound(keys, key) ==
    LET i == SelectInSeq(keys, LAMBDA x : key <= x)
    IN  IF i = 0 THEN Len(keys) + 1 ELSE i

\* BUG: a key equal to a separator is sent to the right.
find_child_index_right(node, key) ==
    LET i == SelectInSeq(node.keys, LAMBDA x : key < x)
    IN  IF i = 0 THEN Len(node.keys) + 1 ELSE i

find_child_index(node, key) == lower_bound(node.keys, key)

contains(leaf, key) == \E i \in DOMAIN leaf.keys : leaf.keys[i] = key

insert_key(leaf, key) ==
    [leaf EXCEPT !.keys = InsertAt(leaf.keys, lower_bound(leaf.keys, key), key)]

remove_key(leaf, key) ==
    IF contains(leaf, key)
    THEN [leaf EXCEPT !.keys = RemoveAt(leaf.keys, lower_bound(leaf.keys, key))]
    ELSE leaf

\* BUG: the middle key stays in neither half, as in an internal node.
splitLeaf_losesMiddle(T, n, m) ==
    LET node == T.nodes[n]
        mid == Len(node.keys) \div 2
    IN  Store(Store(T, m, Leaf(SubSeq(node.keys, mid + 2, Len(node.keys)), node.next)),
              n, Leaf(SubSeq(node.keys, 1, mid), m))

\* LeafNode::split: the upper half moves to the new leaf m, which is
\* chained right after n.
splitLeaf(T, n, m) ==
    LET node == T.nodes[n]
        mid == Len(node.keys) \div 2
    IN  Store(Store(T, m, Leaf(SubSeq(node.keys, mid + 1, Len(node.keys)), node.next)),
              n, Leaf(SubSeq(node.keys, 1, mid), m))

\* InternalNode::split: the middle key stays in neither half.
splitInternal(T, n, m) ==
    LET node == T.nodes[n]
        mid == Len(node.keys) \div 2
    IN  Store(Store(T, m, Internal(SubSeq(node.keys, mid + 2, Len(node.keys)),
                                   SubSeq(node.kids, mid + 2, Len(node.kids)))),
              n, Internal(SubSeq(node.keys, 1, mid), SubSeq(node.kids, 1, mid + 1)))

insert_child(node, i, key, child) ==
    IF i <= Len(node.keys)
    THEN Internal(InsertAt(node.keys, i, key), InsertAt(node.kids, i + 1, child))
    ELSE Internal(Append(node.keys, key), Append(node.kids, child))

------------------------------------------------------------------------------
(* Insertion.                                                              *)

\* Splits the full child at position i of n.  An internal child's promoted
\* key is read at keys[keys.size()] after keys was shrunk to exclude it: the
\* slot past the end, which shrinking a vector of ints leaves as it was.
SplitChild(T, n, i) ==
    LET c == T.nodes[n].kids[i]
        child == T.nodes[c]
        m == Fresh(T)
        S == IF child.leaf THEN splitLeaf(T, c, m) ELSE splitInternal(T, c, m)
        promote == IF child.leaf THEN S.nodes[m].keys[1]
                   ELSE child.keys[Len(S.nodes[c].keys) + 1]
    IN  Store(S, n, insert_child(T.nodes[n], i, promote, m))

\* BUG: the key goes on into the left half, wherever it belongs.
Beside_left(key, promoted, i) == i

\* Which half of the child that was split at i takes the key.
Beside(key, promoted, i) == IF key > promoted THEN i + 1 ELSE i

RECURSIVE insert_nonfull(_, _, _)
insert_nonfull(T, n, key) ==
    LET node == T.nodes[n]
        i == find_child_index(node, key)
    IN  IF node.leaf THEN Store(T, n, insert_key(node, key))
        ELSE IF i > Len(node.kids) THEN [T EXCEPT !.ok = FALSE]
        ELSE IF ~ is_full(T.nodes[node.kids[i]])
             THEN insert_nonfull(T, node.kids[i], key)
        ELSE LET S == SplitChild(T, n, i)
                 j == Beside(key, S.nodes[n].keys[i], i)
             IN  insert_nonfull(S, S.nodes[n].kids[j], key)

\* A full root gets a parent.  When the root is internal its middle key was
\* dropped by split, and the key promoted, and erased from the left half, is
\* the middle one of what is left there.
GrowRoot(T) ==
    LET r == T.root
        m == Fresh(T)
        S == IF T.nodes[r].leaf THEN splitLeaf(T, r, m) ELSE splitInternal(T, r, m)
        left == S.nodes[r]
        half == Len(left.keys) \div 2 + 1
        promote == IF left.leaf THEN S.nodes[m].keys[1] ELSE left.keys[half]
        U == IF left.leaf THEN S
             ELSE Store(S, r, [left EXCEPT !.keys = RemoveAt(left.keys, half)])
        top == Fresh(U)
    IN  [Store(U, top, Internal(<<promote>>, <<r, m>>)) EXCEPT !.root = top]

insert(T, key) ==
    IF T.root = 0
    THEN LET n == Fresh(T)
         IN  [Store(T, n, Leaf(<<key>>, 0)) EXCEPT !.root = n, !.first = n]
    ELSE LET S == IF is_full(T.nodes[T.root]) THEN GrowRoot(T) ELSE T
         IN  insert_nonfull(S, S.root, key)

------------------------------------------------------------------------------
(* Removal.                                                                *)

\* BUG: the separator of an erased leaf stays behind.
EraseChild_keepsKey(node, i) ==
    [node EXCEPT !.kids = RemoveAt(node.kids, i)]

\* An emptied leaf goes, with the separator on its left, or else the first.
EraseChild(node, i) ==
    [node EXCEPT
        !.kids = RemoveAt(node.kids, i),
        !.keys = IF i > 1 THEN RemoveAt(node.keys, i - 1)
                 ELSE IF node.keys # <<>> THEN Tail(node.keys) ELSE <<>>]

\* remove_recursive: [tree, under], the tree after and whether n underflows.
RECURSIVE remove_recursive(_, _, _)
remove_recursive(T, n, key) ==
    LET node == T.nodes[n]
        i == find_child_index(node, key)
    IN  IF node.leaf
        THEN LET after == remove_key(node, key)
             IN  [tree |-> Store(T, n, after),
                  under |-> contains(node, key) /\ is_underflow(after)]
        ELSE IF i > Len(node.kids)
        THEN [tree |-> [T EXCEPT !.ok = FALSE], under |-> FALSE]
        ELSE LET c == node.kids[i]
                 below == remove_recursive(T, c, key)
                 after == IF /\ below.under
                             /\ below.tree.nodes[c].leaf
                             /\ below.tree.nodes[c].keys = <<>>
                          THEN EraseChild(node, i) ELSE node
             IN  [tree |-> Store(below.tree, n, after), under |-> is_underflow(after)]

\* An empty root leaf leaves the empty tree; a root with one child and no
\* keys is replaced by the child.
ShrinkRoot(T) ==
    LET node == T.nodes[T.root]
    IN  IF node.leaf
        THEN IF node.keys = <<>> THEN EmptyTree ELSE T
        ELSE IF node.keys = <<>> /\ Len(node.kids) = 1
        THEN [T EXCEPT !.root = node.kids[1]] ELSE T

\* A node no pointer reaches any more is freed by its last shared_ptr.
RECURSIVE Reachable(_, _)
Reachable(T, seen) ==
    LET next == seen \cup UNION {Range(T.nodes[n].kids) \cup {T.nodes[n].next} :
                                 n \in seen}
        more == next \ {0}
    IN  IF more = seen THEN seen ELSE Reachable(T, more)

Collect(T) ==
    LET live == Reachable(T, {T.root, T.first} \ {0})
    IN  [T EXCEPT !.nodes = [n \in live |-> T.nodes[n]]]

remove(T, key) ==
    LET S == remove_recursive(T, T.root, key).tree
    IN  IF T.root = 0 THEN T
        ELSE IF ~ S.ok THEN S
        ELSE Collect(ShrinkRoot(S))

------------------------------------------------------------------------------
(* Lookup and the derived operations.                                      *)

\* 0 is the code's null result.
RECURSIVE leafBelow(_, _, _)
leafBelow(T, n, key) ==
    LET node == T.nodes[n]
        i == find_child_index(node, key)
    IN  IF node.leaf THEN n
        ELSE IF i > Len(node.kids) THEN 0
        ELSE leafBelow(T, node.kids[i], key)

find_leaf(T, key) == IF T.root = 0 THEN 0 ELSE leafBelow(T, T.root, key)

Found(T, key) ==
    LET n == find_leaf(T, key)
    IN  n # 0 /\ contains(T.nodes[n], key)

\* The leaves from n on along next.
RECURSIVE Chain(_, _)
Chain(T, n) == IF n = 0 THEN <<>> ELSE <<n>> \o Chain(T, T.nodes[n].next)

\* LeafNode::range_query: keys below lo are passed over, and the first key
\* above hi ends the walk.
range_query(T, lo, hi) ==
    LET n == find_leaf(T, lo)
        all == FlattenSeq([i \in DOMAIN Chain(T, n) |-> T.nodes[Chain(T, n)[i]].keys])
        stop == SelectInSeq(all, LAMBDA x : x > hi)
        seen == IF stop = 0 THEN all ELSE SubSeq(all, 1, stop - 1)
    IN  SelectSeq(seen, LAMBDA x : x >= lo)

size(T) ==
    LET chain == Chain(T, T.first)
    IN  FoldSeq(LAMBDA n, sum : sum + Len(T.nodes[n].keys), 0, chain)

\* Whether validate_node can answer true below n.  An internal node compares
\* its separators with child_min and child_max; they are set by its leaf
\* children only (child_min by the first alone), so above other internal
\* nodes they are uninitialized and the comparisons may go either way.
RECURSIVE validate_node(_, _)
validate_node(T, n) ==
    LET node == T.nodes[n]
        kid(i) == T.nodes[node.kids[i]]
    IN  /\ n # T.root => ~ is_underflow(node)
        /\ node.leaf => /\ node.keys # <<>>
                        /\ \A i \in 2 .. Len(node.keys) : node.keys[i - 1] < node.keys[i]
        /\ ~ node.leaf =>
              /\ node.kids # <<>>
              /\ Len(node.keys) = Len(node.kids) - 1
              /\ \A i \in DOMAIN node.kids : validate_node(T, node.kids[i])
              /\ \A i \in 2 .. Len(node.kids) :
                    kid(i).leaf => Head(kid(i).keys) > Last(kid(i - 1).keys)
              /\ \A i \in DOMAIN node.keys :
                    kid(i).leaf => Last(kid(i).keys) <= node.keys[i]
              /\ \A i \in 2 .. Len(node.kids) :
                    kid(1).leaf => Head(kid(1).keys) > node.keys[i - 1]

------------------------------------------------------------------------------
(* The clients.                                                            *)

ClientInsert(key) ==
    /\ tree.ok
    /\ size(tree) < client.size /\ Cardinality(DOMAIN tree.nodes) < client.nodes
    /\ client.repeats \/ held[key] = 0
    /\ tree' = insert(tree, key)
    /\ held' = IF tree'.ok THEN [held EXCEPT ![key] = @ + 1] ELSE held
    /\ UNCHANGED client

ClientRemove(key) ==
    /\ tree.ok /\ client.removes
    /\ tree' = remove(tree, key)
    /\ held' = IF Found(tree, key) THEN [held EXCEPT ![key] = @ - 1] ELSE held
    /\ UNCHANGED client

Next == \E key \in Key : ClientInsert(key) \/ ClientRemove(key)

Spec == Init /\ [][Next]_vars

------------------------------------------------------------------------------
(* Properties.                                                             *)

AllKeys(T, chain) == FlattenSeq([i \in DOMAIN chain |-> T.nodes[chain[i]].keys])
CountIn(seq, key) == Cardinality({i \in DOMAIN seq : seq[i] = key})

\* The leaves below n from left to right.
RECURSIVE Leaves(_, _)
Leaves(T, n) ==
    IF n = 0 THEN <<>>
    ELSE IF T.nodes[n].leaf THEN <<n>>
    ELSE FlattenSeq([i \in DOMAIN T.nodes[n].kids |-> Leaves(T, T.nodes[n].kids[i])])

\* No internal node has internal children.
TwoLevels(T) ==
    T.root # 0 => \A i \in DOMAIN T.nodes[T.root].kids :
                      T.nodes[T.nodes[T.root].kids[i]].leaf

\* The leaf chain that size(), print_leaves() and range_query() walk from
\* first_leaf visits every leaf of the tree once, in the tree's order as long
\* as no internal root was split, and whatever else is on it (leaves that
\* remove_recursive took out of their parent but no one unchained) is empty.
ChainIsTheLeaves ==
    LET chain == Chain(tree, tree.first)
        leaves == Leaves(tree, tree.root)
        visited == SelectSeq(chain, LAMBDA n : n \in Range(leaves))
    IN  tree.ok =>
        /\ Len(visited) = Len(leaves) /\ Range(visited) = Range(leaves)
        /\ TwoLevels(tree) => visited = leaves
        /\ \A i \in DOMAIN chain :
              chain[i] \notin Range(leaves) => tree.nodes[chain[i]].keys = <<>>

\* No insertion is lost and none counted twice: the leaf chain holds each key
\* as often as it was inserted and not taken out again by a remove() that
\* found it, so size() is right even where find() is not.
NothingLost ==
    tree.ok => \A key \in Key :
        CountIn(AllKeys(tree, Chain(tree, tree.first)), key) = held[key]

\* Every node has more children than keys, unless removal left it with no
\* child at all, so the index that find_child_index returns is a child's in
\* insert_nonfull, remove_recursive and find_leaf; and a split never meets a
\* node too small to split.
MoreChildrenThanKeys ==
    \A n \in DOMAIN tree.nodes :
        LET node == tree.nodes[n]
        IN  /\ Len(node.keys) <= 2 * Degree - 1
            /\ ~ node.leaf => \/ Len(node.keys) < Len(node.kids)
                              \/ node.keys = <<>> /\ node.kids = <<>>

\* Both: what insert, remove and the walks along the chain rely on.
TreeIsWellFormed == ChainIsTheLeaves /\ MoreChildrenThanKeys

\* While the tree has at most two levels (no internal root was ever split),
\* range_query returns every key it holds in the range, repeated ones
\* included, in order: it starts at the leaf find_leaf gives, which is never
\* too far right, and follows the chain.
RangeQueryIsComplete ==
    (tree.ok /\ TwoLevels(tree)) =>
        \A lo, hi \in Key :
            LET got == range_query(tree, lo, hi)
            IN  /\ \A key \in Key :
                      CountIn(got, key) = IF lo <= key /\ key <= hi THEN held[key] ELSE 0
                /\ \A i \in 2 .. Len(got) : got[i - 1] <= got[i]

\* While the tree has at most two levels, a key equal to a separator is all
\* that find() can miss: every other key lies in the leaf that find_leaf leads
\* to, after any insertions, repetitions and removals, those that take a leaf
\* and one of its separators out of the root included.
MissesOnlySeparators ==
    (tree.ok /\ TwoLevels(tree)) =>
        \A key \in Key : held[key] > 0 =>
            Found(tree, key) \/ key \in Range(tree.nodes[tree.root].keys)

\* What test 5 says of a tree that insertions of different keys built: "All 100
\* keys found correctly" (line 691), and of its validate(), "PASSED" (line 700).
FindsEveryKey == \A key \in Key : held[key] > 0 => Found(tree, key)

ValidatorAccepts == tree.root # 0 => validate_node(tree, tree.root)

\* After insertions of different keys at least one of these messages of test 5
\* is true: find() finds each key (line 91), or validate() accepts the tree
\* (line 392).  A tree that violates this is one of which both are false.
BulkInsertChecks == FindsEveryKey \/ ValidatorAccepts
=============================================================================
