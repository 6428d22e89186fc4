-------------------------------- MODULE Auth --------------------------------
(***************************************************************************)
(* Threads that log in through the SSO broker (core/auth/sso.py), rotate   *)
(* and revoke refresh tokens, and revoke sessions.  A login links the      *)
(* identity, issues a token pair and creates a session, in that order.     *)
(***************************************************************************)
EXTENDS Sessions, RefreshTokens

CONSTANTS
  AutoProvision,   \* SsoBroker.auto_provision
  MaxCalls         \* bound: calls ever begun

ASSUME AuthAssumption == Rotators = Threads /\ AutoProvision \in BOOLEAN /\ MaxCalls \in Nat

VARIABLES
  linked,   \* _links: subjects whose external identity has a link, some from the start
  login,    \* where a thread is in authenticate
  calls     \* calls begun so far

vars == <<sessionVars, tokenVars, linked, login, calls>>
ssoVars == <<linked, login>>

NoLogin == [at |-> "idle", subject |-> NoRow]

Init ==
  /\ SessionInit /\ TokenInit
  /\ linked \in SUBSET Subjects
  /\ login = [t \in Threads |-> NoLogin]
  /\ calls = 0

(* A thread that is in no call begins one.                                 *)
BeginsCall(t) ==
  /\ task[t].at = "idle" /\ rotation[t].at = "idle" /\ login[t].at = "idle"
  /\ calls < MaxCalls
  /\ calls' = calls + 1

(* The provider names the identity and its link is resolved.  Where there  *)
(* is none, the subject is named after the identity, or, without auto      *)
(* provisioning, the login is refused and changes nothing.                 *)
Resolves(t, s) ==
  /\ BeginsCall(t)
  /\ s \in linked \/ AutoProvision
  /\ login' = [login EXCEPT ![t] = [at |-> IF s \in linked THEN "issue" ELSE "link", subject |-> s]]
  /\ UNCHANGED <<sessionVars, tokenVars, linked>>

Links(t) ==
  /\ login[t].at = "link"
  /\ linked' = linked \cup {login[t].subject}
  /\ login' = [login EXCEPT ![t].at = "issue"]
  /\ UNCHANGED <<sessionVars, tokenVars, calls>>

IssuesPair(t) ==
  /\ login[t].at = "issue"
  /\ \E k \in Tokens : Issue(k)
  /\ login' = [login EXCEPT ![t].at = "session"]
  /\ UNCHANGED <<sessionVars, rotation, children, linked, calls>>

CreatesSession(t) ==
  /\ login[t].at = "session"
  /\ \E i \in SessionIds, seconds \in Ttls : PutRow(t, login[t].subject, i, seconds)
  /\ login' = [login EXCEPT ![t] = NoLogin]
  /\ UNCHANGED <<tokenVars, linked, calls>>

Begins(t) ==
  \/ \E s \in Subjects : Resolves(t, s)
  \/ /\ BeginsCall(t)
     /\ \/ \E i \in SessionIds : RevokeSession(t, i)
        \/ \E s \in Subjects : List(t, s)
     /\ UNCHANGED <<tokenVars, ssoVars>>
  \/ /\ BeginsCall(t)
     /\ \E k \in Tokens : RotateBegins(t, k) \/ RevokeToken(k)
     /\ UNCHANGED <<sessionVars, ssoVars>>

Steps(t) ==
  \/ Links(t) \/ IssuesPair(t) \/ CreatesSession(t)
  \/ SessionStep(t) /\ UNCHANGED <<tokenVars, ssoVars, calls>>
  \/ RotationStep(t) /\ UNCHANGED <<sessionVars, ssoVars, calls>>

(* The call ends half way, with its process or because Redis is away: the  *)
(* store keeps what was written.                                           *)
Dies(t) ==
  /\ task' = [task EXCEPT ![t] = Idle]
  /\ rotation' = [rotation EXCEPT ![t] = Free]
  /\ login' = [login EXCEPT ![t] = NoLogin]
  /\ UNCHANGED <<row, index, owner, created, revoked, swept, cut, token, children, linked, calls>>

Tick == SessionTick /\ TokenTick /\ UNCHANGED <<ssoVars, calls>>

Next == Tick \/ \E t \in Threads : Begins(t) \/ Steps(t) \/ Dies(t)

Spec == Init /\ [][Next]_vars

TypeOK ==
  /\ SessionTypeOK /\ TokenTypeOK
  /\ linked \subseteq Subjects
  /\ login \in [Threads -> [at : {"idle", "link", "issue", "session"},
                            subject : Subjects \cup {NoRow}]]
  /\ calls \in 0..MaxCalls
=============================================================================
