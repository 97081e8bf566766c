------------------------------- MODULE MCSlab -------------------------------
(* Model-checking instances of Slab.                                       *)
EXTENDS Slab

MCData == {-1}
=============================================================================
