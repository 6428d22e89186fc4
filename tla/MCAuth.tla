------------------------------- MODULE MCAuth -------------------------------
(* Instances of Auth for TLC.                                              *)
EXTENDS Auth, TLC

(* Threads and session ids are interchangeable.                            *)
Symmetry == Permutations(Threads) \cup Permutations(SessionIds)
=============================================================================
