---------------------------- MODULE MCGrpcClient ----------------------------
(* Instantiation of GrpcClient for TLC.  Callers and requests are sets of  *)
(* model values; the callers are interchangeable and so are the requests. *)
EXTENDS GrpcClient, TLC

CONSTANTS c1, c2, r1, r2, m1, m2

MCSinkCallers == {c1, c2}
MCRequests == {r1, r2}
MCModules == {m1}
MCModuleIds == {m1, m2}
OneRequest == {r1}
OneCaller == {c1}
NoCallers == {}
NoRequests == {}

Symmetry == Permutations(MCSinkCallers) \cup Permutations(MCRequests)
=============================================================================
