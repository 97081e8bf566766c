----------------------------- MODULE MCLRUCache -----------------------------
(* Instances of LRUCache for TLC. *)
EXTENDS LRUCache, TLC

Symmetry == Permutations(Key) \union Permutations(Value)
=============================================================================
