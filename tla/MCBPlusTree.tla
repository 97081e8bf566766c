----------------------------- MODULE MCBPlusTree -----------------------------
(* Instances of BPlusTree for TLC. *)
EXTENDS BPlusTree

Small(n, m) ==
    [keys |-> 1 .. 3, size |-> n, nodes |-> m, repeats |-> TRUE, removes |-> TRUE]
Growing(n) ==
    [keys |-> 1 .. n, size |-> n, nodes |-> 2 * n, repeats |-> FALSE, removes |-> FALSE]

(* One client churns three keys; the other fills a tree with ten, of which *)
(* the internal nodes split.                                               *)
MCClients == {Small(7, 8), Growing(10)}

(* Four keys are enough for a separator. *)
OneClient == {Growing(4)}
=============================================================================
