------------------------------- MODULE MCMyFS -------------------------------
(* Instances of MyFS for TLC. *)
EXTENDS MyFS
=============================================================================
