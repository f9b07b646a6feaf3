----------------------------- MODULE MCEchoLink ------------------------------
(* A small instance of EchoLink for TLC. *)
EXTENDS EchoLink, TLC
=============================================================================
