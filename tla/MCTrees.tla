------------------------------- MODULE MCTrees -------------------------------
(***************************************************************************)
(* Both red-black trees for TLC: a behaviour is one of either tree, with   *)
(* the same keys and values, and both are held to the same abstract map.   *)
(***************************************************************************)
EXTENDS SearchTrees

VARIABLES
    kind,       \* "sentinel" (RBTree) or "null" (KVRBTree)
    tree, reply,
    count       \* of KVRBTree; 0 for the other tree, which has none

RB == INSTANCE RBTree
KV == INSTANCE KVRBTree

vars == <<kind, tree, reply, count>>

Init ==
    \/ kind = "sentinel" /\ RB!Init /\ count = 0
    \/ kind = "null" /\ KV!Init

Next ==
    /\ UNCHANGED kind
    /\ \/ kind = "sentinel" /\ RB!Next /\ UNCHANGED count
       \/ kind = "null" /\ KV!Next

Spec == Init /\ [][Next]_vars

(* reply is written and never read: two states that differ in it only have *)
(* the same successors but for it.                                         *)
Pointers == <<kind, tree, count>>

(* Neither tree looks at values: one key with another value than the rest  *)
(* is enough to see one mistaken for another.                              *)
OneMarked == Cardinality({k \in Key : tree.value[k] = "b"}) <= 1
-----------------------------------------------------------------------------
Of(rb, kv) == IF kind = "sentinel" THEN rb ELSE kv

(* The pointers of either tree describe a binary search tree with correct  *)
(* parents, nothing left over in the sentinel, and a correct count:        *)
(* RB!SearchTree, KV!SearchTree.                                           *)
SearchTree == Of(RB!SearchTree, KV!SearchTree)

(* Either tree passes its own validator after every call:                  *)
(* verifyRBProperties of RBTree.hpp, validate of RBTree.cpp.               *)
AlwaysRedBlack == Of(RB!AlwaysRedBlack, KV!AlwaysValid)

(* Either tree is a map: what a get or a find answers, which depends on    *)
(* the search finding the key, and what insert and remove answer in        *)
(* KVRBTree, is what a map would answer.  insert overwrites in KVRBTree    *)
(* only; an assignment through the pointer of its find is the map's        *)
(* Modify.                                                                 *)
Abs == INSTANCE OrderedMap WITH map <- tree.value, answers <- (kind = "null")
ImplementsMap == Abs!Spec
=============================================================================
