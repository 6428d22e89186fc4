------------------------------ MODULE Sessions ------------------------------
(***************************************************************************)
(* SessionManager over RedisSessionStore (core/auth/session.py), one Redis *)
(* command per step: threads of several processes share the rows and the   *)
(* subjects' indexes, and Redis removes keys whose time is up.  The clock  *)
(* ticks twice a second, and times are relative: a row holds the ticks     *)
(* left until its expires_at and until its key expires.                    *)
(***************************************************************************)
EXTENDS Integers, FiniteSets, FiniteSetsExt

CONSTANTS
  Threads, Subjects, SessionIds,
  Ttls,       \* the lifetimes sessions are created with, in seconds
  NoRow       \* "no such key"

NoTtl == -1    \* a key that never expires
Longest == 2 * Max(Ttls)
Rows == [full : BOOLEAN, revoked : BOOLEAN, left : 0..Longest, ttl : {NoTtl} \cup 1..Longest]

ASSUME TtlsAssumption == Ttls \subseteq Nat \ {0} /\ \E m \in Ttls : \A x \in Ttls : x <= m
ASSUME NoRowAssumption == NoRow \notin SessionIds \cup Subjects /\ NoRow \notin Rows

VARIABLES
  row,       \* session:<id>
  index,     \* subject:<subject>
  task,      \* the manager call a thread is in, between two commands
  owner,     \* history: the subject a session id was created for
  created,   \* history: sessions whose create_session returned
  revoked,   \* history: sessions revoke_session or revoke_all reported on
  swept,     \* history: sessions a revoke_all that returned had to reach
  cut        \* history: subjects whose index may end before a session of theirs

sessionVars == <<row, index, task, owner, created, revoked, swept, cut>>

Idle == [at |-> "idle", id |-> NoRow, subject |-> NoRow, ttl |-> 0, todo |-> {}, found |-> {},
         target |-> {}]
Absent == [ids |-> {}, ttl |-> NoTtl]

SessionInit ==
  /\ row = [i \in SessionIds |-> NoRow]
  /\ index = [s \in Subjects |-> Absent]
  /\ task = [t \in Threads |-> Idle]
  /\ owner = [i \in SessionIds |-> NoRow]
  /\ created = {} /\ revoked = {} /\ swept = {} /\ cut = {}

Exists(i) == row[i] # NoRow

(* What get and validate_session make of a row; one that holds nothing but *)
(* revoked_at makes get raise KeyError.                                    *)
Readable(i) == Exists(i) /\ row[i].full
Valid(i) == Readable(i) /\ ~row[i].revoked /\ row[i].left > 0

(* ttl_seconds, in ticks: time has passed since expires_at was computed,   *)
(* so whole seconds are rounded down to less than the lifetime.            *)
KeyTtl(left) == 2 * Max({1, (left - 1) \div 2})

Goes(t, at) == task' = [task EXCEPT ![t].at = at]
Rests(t) == task' = [task EXCEPT ![t] = Idle]

------------------------------------------------------------------------------
(* create_session: put's four commands.                                    *)

PutRow(t, s, i, seconds) ==
  /\ owner[i] = NoRow
  /\ owner' = [owner EXCEPT ![i] = s]
  /\ row' = [row EXCEPT ![i] = [full |-> TRUE, revoked |-> FALSE, left |-> 2 * seconds, ttl |-> NoTtl]]
  /\ task' = [task EXCEPT ![t] = [Idle EXCEPT !.at = "sadd", !.id = i, !.subject = s]]
  /\ UNCHANGED <<index, created, revoked, swept, cut>>

PutIndex(t) ==
  /\ task[t].at = "sadd"
  /\ index' = [index EXCEPT ![task[t].subject].ids = @ \cup {task[t].id}]
  /\ task' = [task EXCEPT ![t].at = "expire_row", ![t].ttl = KeyTtl(row[task[t].id].left)]
  /\ UNCHANGED <<row, owner, created, revoked, swept, cut>>

(* mutated form: the record is written again together with its expiry      *)
ExpireRowRewriting(t) ==
  /\ task[t].at = "expire_row"
  /\ row' = [row EXCEPT ![task[t].id].ttl = task[t].ttl, ![task[t].id].revoked = FALSE]
  /\ Goes(t, "expire_index")
  /\ UNCHANGED <<index, owner, created, revoked, swept, cut>>

ExpireRow(t) ==
  /\ task[t].at = "expire_row"
  /\ row' = [row EXCEPT ![task[t].id].ttl = task[t].ttl]
  /\ Goes(t, "expire_index")
  /\ UNCHANGED <<index, owner, created, revoked, swept, cut>>

(* The index gets this session's lifetime, if the key is still there.      *)
ExpireIndex(t) ==
  LET s == task[t].subject
  IN /\ task[t].at = "expire_index"
     /\ index' = IF index[s].ids = {} THEN index ELSE [index EXCEPT ![s].ttl = task[t].ttl]
     /\ cut' = IF task[t].id \notin index[s].ids \/ index[s].ttl > task[t].ttl
               THEN cut \cup {s} ELSE cut
     /\ created' = created \cup {task[t].id}
     /\ Rests(t)
     /\ UNCHANGED <<row, owner, revoked, swept>>

------------------------------------------------------------------------------
(* revoke, as a call of its own and for each record of revoke_all.         *)

Looks(t, i) == task' = [task EXCEPT ![t].at = IF Exists(i) THEN "mark" ELSE task[t].at,
                                    ![t].id = IF Exists(i) THEN i ELSE NoRow,
                                    ![t].todo = @ \ {i}]

(* A row that expired since is written anew, with this field only and no   *)
(* expiry.                                                                 *)
MarkedRow(i) == IF Exists(i) THEN [row[i] EXCEPT !.revoked = TRUE]
                ELSE [full |-> FALSE, revoked |-> TRUE, left |-> 0, ttl |-> NoTtl]

Mark(t) ==
  LET i == task[t].id
  IN /\ task[t].at = "mark"
     /\ row' = [row EXCEPT ![i] = MarkedRow(i)]
     /\ revoked' = revoked \cup {i}
     /\ IF task[t].subject = NoRow THEN Rests(t) ELSE Goes(t, "revoke_each")
     /\ UNCHANGED <<index, owner, created, swept, cut>>

RevokeSession(t, i) ==
  /\ i \in created /\ Exists(i)
  /\ task' = [task EXCEPT ![t] = [Idle EXCEPT !.at = "mark", !.id = i]]
  /\ UNCHANGED <<row, index, owner, created, revoked, swept, cut>>

------------------------------------------------------------------------------
(* revoke_all_sessions: list_by_subject, then revoke of each record found. *)

(* SMEMBERS                                                                *)
List(t, s) ==
  /\ task' = [task EXCEPT ![t] = [Idle EXCEPT !.at = "read", !.subject = s, !.todo = index[s].ids,
                                  !.target = {i \in created : owner[i] = s}]]
  /\ UNCHANGED <<row, index, owner, created, revoked, swept, cut>>

(* mutated form: the first missing row ends the listing                    *)
ReadUpToMissing(t) ==
  /\ task[t].at = "read"
  /\ \E i \in task[t].todo :
       IF Exists(i)
       THEN task' = [task EXCEPT ![t].todo = @ \ {i}, ![t].found = @ \cup {i}]
       ELSE task' = [task EXCEPT ![t].todo = {}]
  /\ UNCHANGED <<row, index, owner, created, revoked, swept, cut>>

(* HGETALL of a member: a missing row is skipped, one that cannot be read  *)
(* ends the call with KeyError.                                            *)
Read(t) ==
  /\ task[t].at = "read"
  /\ \E i \in task[t].todo :
       IF Exists(i) /\ ~Readable(i) THEN Rests(t)
       ELSE task' = [task EXCEPT ![t].todo = @ \ {i},
                                 ![t].found = IF Exists(i) THEN @ \cup {i} ELSE @]
  /\ UNCHANGED <<row, index, owner, created, revoked, swept, cut>>

ReadAll(t) ==
  /\ task[t].at = "read" /\ task[t].todo = {}
  /\ task' = [task EXCEPT ![t].at = "revoke_each", ![t].todo = task[t].found, ![t].found = {}]
  /\ UNCHANGED <<row, index, owner, created, revoked, swept, cut>>

RevokeEach(t) ==
  /\ task[t].at = "revoke_each"
  /\ \E i \in task[t].todo : Looks(t, i)
  /\ UNCHANGED <<row, index, owner, created, revoked, swept, cut>>

RevokeAllReturns(t) ==
  /\ task[t].at = "revoke_each" /\ task[t].todo = {}
  /\ swept' = swept \cup task[t].target
  /\ Rests(t)
  /\ UNCHANGED <<row, index, owner, created, revoked, cut>>

SessionStep(t) == \/ PutIndex(t) \/ ExpireRow(t) \/ ExpireIndex(t) \/ Mark(t)
                  \/ Read(t) \/ ReadAll(t) \/ RevokeEach(t) \/ RevokeAllReturns(t)

Down(x) == IF x <= 0 THEN x ELSE x - 1

SessionTick ==
  /\ row' = [i \in SessionIds |->
       IF ~Exists(i) \/ row[i].ttl = 1 THEN NoRow
       ELSE [row[i] EXCEPT !.left = Down(@), !.ttl = Down(@)]]
  /\ index' = [s \in Subjects |->
       IF index[s].ttl = 1 THEN Absent ELSE [index[s] EXCEPT !.ttl = Down(@)]]
  /\ UNCHANGED <<task, owner, created, revoked, swept, cut>>

Places == {"idle", "sadd", "expire_row", "expire_index", "mark", "read", "revoke_each"}
Tasks == [at : Places, id : SessionIds \cup {NoRow}, subject : Subjects \cup {NoRow},
          ttl : 0..Longest, todo : SUBSET SessionIds, found : SUBSET SessionIds,
          target : SUBSET SessionIds]
Indexes == [ids : SUBSET SessionIds, ttl : {NoTtl} \cup 1..Longest]

SessionTypeOK ==
  /\ row \in [SessionIds -> {NoRow} \cup Rows]
  /\ index \in [Subjects -> Indexes]
  /\ task \in [Threads -> Tasks]
  /\ owner \in [SessionIds -> Subjects \cup {NoRow}]
  /\ created \cup revoked \cup swept \subseteq SessionIds /\ cut \subseteq Subjects

(* A session that a revoke call reported as revoked is never valid again:  *)
(* no interleaved put, expiry or resurrected row brings it back.           *)
RevokedStaysRevoked == \A i \in revoked : ~Valid(i)

(* revoke_all_sessions, once it returned, has reached every session that   *)
(* was created before it began -- unless a put cut the subject's index     *)
(* short: set an earlier end than it had, or found it expired since SADD.  *)
RevokeAllReaches == \A i \in swept : Valid(i) => owner[i] \in cut
=============================================================================
