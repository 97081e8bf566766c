---------------------------- MODULE MCJsonConfig ----------------------------
(* Instances of JsonConfig for TLC. *)
EXTENDS JsonConfig

(* Every configuration of up to two subsystems with up to two entries each. *)
Sub(n) == [valid : {TRUE}, entries : [1 .. n -> Entry]]
Subsystem == Sub(0) \union Sub(1) \union Sub(2) \union [valid : {FALSE}, entries : {<<>>}]
SmallConfigs == {<<>>} \union [1 .. 1 -> Subsystem] \union [1 .. 2 -> Subsystem]
=============================================================================
