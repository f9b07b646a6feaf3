----------------------------- MODULE MCJSClient -----------------------------
(* Small instances of JSClient for TLC. *)
EXTENDS JSClient
=============================================================================
