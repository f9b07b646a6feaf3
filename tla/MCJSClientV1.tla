---------------------------- MODULE MCJSClientV1 -----------------------------
(* A small instance of JSClientV1 for TLC. *)
EXTENDS JSClientV1, TLC
=============================================================================
