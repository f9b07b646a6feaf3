---------------------------- MODULE MCWgdServerV1 ----------------------------
(* A small instance of WgdServerV1 for TLC; for safety, nothing tells one    *)
(* connection, worker or handle of a connection from another.                *)
EXTENDS WgdServerV1, TLC

Symmetry ==
  Permutations(Conns) \cup Permutations(Threads)
    \cup Permutations(Handles \ {ListenHandle})
=============================================================================
