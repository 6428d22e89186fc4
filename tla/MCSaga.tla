------------------------------- MODULE MCSaga -------------------------------
(* Instances of Saga for TLC.                                              *)
EXTENDS Saga
=============================================================================
