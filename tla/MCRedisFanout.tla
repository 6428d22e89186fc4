---------------------------- MODULE MCRedisFanout ----------------------------
(***************************************************************************)
(* Instances of RedisFanout for TLC: two clients on one worker, one of     *)
(* which sends twice, and two peer workers.                                *)
(***************************************************************************)
EXTENDS RedisFanout, TLC

CONSTANTS w1, w2, w3, ann, bob

MCHome == [c \in Clients |-> w1]
MCSends == [c \in Clients |-> IF c = ann THEN 2 ELSE 1]

(* The two peers play the same part: nobody is connected to them.          *)
Peers == Permutations({w2, w3})
==============================================================================
