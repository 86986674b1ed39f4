------------------------------ MODULE MCNxosGrpc ------------------------------
(* Model values for NxosGrpc: two device sessions.                         *)
EXTENDS NxosGrpc, TLC

CONSTANTS s1, s2

MCSessions == {s1, s2}

Symmetry == Permutations(MCSessions)
=============================================================================
