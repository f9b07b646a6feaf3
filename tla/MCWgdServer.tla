----------------------------- MODULE MCWgdServer -----------------------------
(* Small instances of WgdServer for TLC. *)
EXTENDS WgdServer, TLC

\* Connections, handles and threads are interchangeable in the safety runs.
Symmetry ==
  Permutations(Conns) \cup Permutations(Handles) \cup Permutations(Threads)
=============================================================================
