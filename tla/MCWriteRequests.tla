--------------------------- MODULE MCWriteRequests ---------------------------
(***************************************************************************)
(* Instances of WriteRequests for TLC: three requests of one caller, with  *)
(* or without the one key.                                                 *)
(***************************************************************************)
EXTENDS WriteRequests, TLC

CONSTANTS r1, r2, r3, a, b, n1, n2, ann, k1

Interchangeable == Permutations(Requests) \cup Permutations(Bodies) \cup Permutations(Nonces)
==============================================================================
