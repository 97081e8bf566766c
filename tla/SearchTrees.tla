----------------------------- MODULE SearchTrees -----------------------------
(***************************************************************************)
(* What the two red-black trees of the repository share: their keys and    *)
(* values, how a call and its answer are recorded, and the two sides of a  *)
(* node, over which their cases mirror.                                    *)
(***************************************************************************)
EXTENDS Integers, FiniteSets, FiniteSetsExt

CONSTANTS Key,          \* keys, positive integers
          Value

ASSUME KeyAssumption == Key \subseteq Nat \ {0}
ASSUME ValueAssumption == "none" \notin Value

(* A call and what it answered.  odd tells a call from the one before it,  *)
(* so that a repeated call is seen as a step.                              *)
NoReply == [call |-> <<"none">>, answer |-> "none", odd |-> FALSE]
Reply(before, call, answer) == [call |-> call, answer |-> answer, odd |-> ~before.odd]

Side == {"left", "right"}
Other(d) == IF d = "left" THEN "right" ELSE "left"
=============================================================================
