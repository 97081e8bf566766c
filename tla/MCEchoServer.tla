---------------------------- MODULE MCEchoServer ----------------------------
(* Instances of EchoServer for TLC. *)
EXTENDS EchoServer

MCTexts == {<<"char", "space", "char">>, <<"space", "char", "nul">>}
=============================================================================
