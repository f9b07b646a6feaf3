------------------------------ MODULE MCWgdConn ------------------------------
(* Small instances of WgdConn for TLC. *)
EXTENDS WgdConn
=============================================================================
