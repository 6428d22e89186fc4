--------------------------- MODULE RefreshTokens ---------------------------
(***************************************************************************)
(* Refresh token rotation (JwtTokenManager, core/auth/jwt.py) by threads   *)
(* over one store: the record is read and checked, then revoked, then the  *)
(* new pair is issued.                                                     *)
(***************************************************************************)
EXTENDS Integers, FiniteSets, FiniteSetsExt

CONSTANTS
  Rotators,     \* threads that rotate tokens
  MaxTokens,    \* bound: refresh tokens ever issued
  Lifetime,     \* ticks until a token expires
  NoToken

TokenRecords == [left : 0..Lifetime, revoked : BOOLEAN]

ASSUME TokensAssumption ==
  MaxTokens \in Nat /\ Lifetime \in Nat /\ NoToken \notin TokenRecords \cup Nat

VARIABLES
  token,    \* the store's records; NoToken if not issued
  rotation, \* the rotation a thread is in, between two store calls
  children  \* history: the tokens issued for a rotated one

tokenVars == <<token, rotation, children>>

Tokens == 1..MaxTokens
Free == [at |-> "idle", of |-> NoToken, stale |-> FALSE]

TokenInit ==
  /\ token = [k \in Tokens |-> NoToken]
  /\ rotation = [t \in Rotators |-> Free]
  /\ children = [k \in Tokens |-> {}]

Issued == {k \in Tokens : token[k] # NoToken}

(* issue_token_pair under the next fresh jti: the access token is not kept. *)
Issue(k) ==
  /\ k \in Tokens /\ k = Cardinality(Issued) + 1
  /\ token' = [token EXCEPT ![k] = [left |-> Lifetime, revoked |-> FALSE]]

(* decode_and_validate: the token has not expired.                         *)
Decodes(k) == k \in Issued /\ token[k].left > 0

RevokedToken(k) == [token EXCEPT ![k].revoked = TRUE]

RotateBegins(t, k) ==
  /\ Decodes(k)
  /\ rotation' = [rotation EXCEPT ![t] = [at |-> "check", of |-> k, stale |-> token[k].revoked]]
  /\ UNCHANGED <<token, children>>

(* mutated form: the record's revoked flag is not looked at                *)
ChecksExpiryOnly(t) ==
  LET k == rotation[t].of
  IN /\ rotation[t].at = "check"
     /\ rotation' = [rotation EXCEPT ![t].at = "revoke"]
     /\ UNCHANGED <<token, children>>

(* Replayed, expired meanwhile, or to be rotated.                          *)
Checks(t) ==
  LET k == rotation[t].of
  IN /\ rotation[t].at = "check"
     /\ \/ /\ token[k].revoked
           /\ rotation' = [rotation EXCEPT ![t] = Free]
           /\ UNCHANGED token
        \/ /\ ~token[k].revoked /\ token[k].left = 0
           /\ token' = RevokedToken(k)
           /\ rotation' = [rotation EXCEPT ![t] = Free]
        \/ /\ ~token[k].revoked /\ token[k].left > 0
           /\ rotation' = [rotation EXCEPT ![t].at = "revoke"]
           /\ UNCHANGED token
     /\ UNCHANGED children

RevokesOld(t) ==
  /\ rotation[t].at = "revoke"
  /\ token' = RevokedToken(rotation[t].of)
  /\ rotation' = [rotation EXCEPT ![t].at = "issue"]
  /\ UNCHANGED children

IssuesNew(t) ==
  /\ rotation[t].at = "issue"
  /\ \E k \in Tokens : /\ Issue(k)
                       /\ children' = [children EXCEPT ![rotation[t].of] = @ \cup {k}]
  /\ rotation' = [rotation EXCEPT ![t] = Free]

(* revoke_refresh_token                                                    *)
RevokeToken(k) ==
  /\ Decodes(k)
  /\ token' = RevokedToken(k)
  /\ UNCHANGED <<rotation, children>>

RotationStep(t) == Checks(t) \/ RevokesOld(t) \/ IssuesNew(t)

TokenTick ==
  /\ token' = [k \in Tokens |-> IF k \in Issued THEN [token[k] EXCEPT !.left = Max({0, @ - 1})]
                                ELSE NoToken]
  /\ UNCHANGED <<rotation, children>>

TokenTypeOK ==
  /\ token \in [Tokens -> {NoToken} \cup TokenRecords]
  /\ rotation \in [Rotators -> [at : {"idle", "check", "revoke", "issue"},
                               of : Tokens \cup {NoToken}, stale : BOOLEAN]]
  /\ children \in [Tokens -> SUBSET Tokens]

(* A rotation begun after its token was rotated or revoked never gets a    *)
(* new pair, and a token with descendants is revoked for good: rotations   *)
(* of one token can only both succeed if they overlapped.                  *)
ReplayRefused ==
  /\ \A t \in Rotators : rotation[t].at \in {"revoke", "issue"} => ~rotation[t].stale
  /\ \A k \in Tokens : children[k] # {} => token[k].revoked
=============================================================================
