---------------------------- MODULE MCSocketHub ----------------------------
(***************************************************************************)
(* Instances of SocketHub for TLC.                                         *)
(***************************************************************************)
EXTENDS SocketHub

CONSTANTS alice

(* The first client has a token, the last has none, those between either.  *)
MCLogins ==
  [n \in Ids |-> IF n = 1 THEN {alice} ELSE IF n = MaxConns THEN {Anonymous} ELSE Actors]
=============================================================================
