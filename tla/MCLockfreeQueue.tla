-------------------------- MODULE MCLockfreeQueue --------------------------
(* Instances of LockfreeQueue for TLC. *)
EXTENDS LockfreeQueue
============================================================================
