----------------------------- MODULE AuthProofs -----------------------------
(***************************************************************************)
(* Proofs about Auth, for any threads, subjects, sessions and lifetimes,   *)
(* any number of tokens, and calls that end half way: a revoked session is *)
(* never valid again, revoke_all_sessions reaches what it promises to      *)
(* reach, a token is rotated once, and the types.                          *)
(***************************************************************************)
EXTENDS Auth, FiniteSetTheorems, TLAPS

------------------------------------------------------------------------------
(* Sessions.                                                               *)

(* max(a, b), as FiniteSetsExt picks it: remaining times that stop at      *)
(* zero, lifetimes of at least one second.                                 *)
LEMMA MaxOfTwo ==
  ASSUME NEW a \in Int, NEW b \in Int
  PROVE  Max({a, b}) = IF a >= b THEN a ELSE b
<1> DEFINE most == IF a >= b THEN a ELSE b
<1>1. most \in {a, b} /\ \A y \in {a, b} : most >= y
  OBVIOUS
<1>2. \A x \in {a, b} : (\A y \in {a, b} : x >= y) => x = most
  OBVIOUS
<1> QED
  BY <1>1, <1>2 DEF Max

Putting == {"sadd", "expire_row"}           \* the row is there, without an expiry
Creating == Putting \cup {"expire_index"}

(* What a thread between two commands of a call knows.                     *)
Knows(t) ==
  /\ task[t].at \in Creating \cup {"mark"} =>
       task[t].id \in SessionIds /\ owner[task[t].id] # NoRow
  /\ task[t].at \in Creating =>
       task[t].subject = owner[task[t].id] /\ task[t].id \notin created
  /\ task[t].at \in Putting => Exists(task[t].id) /\ row[task[t].id].ttl = NoTtl
  /\ task[t].at \in {"expire_row", "expire_index"} => task[t].ttl \in 1..Longest

(* No session is created twice.                                            *)
Distinct == \A t, u \in Threads :
  t # u /\ task[t].at \in Creating /\ task[u].at \in Creating => task[t].id # task[u].id

TaskInv == (\A t \in Threads : Knows(t)) /\ Distinct

(* A session has an owner from its first command on.                       *)
OwnerInv == \A i \in SessionIds : Exists(i) \/ i \in created \cup revoked => owner[i] # NoRow

(* A session of an uncut index is in it and ends no later than it.         *)
IndexInv ==
  /\ \A i \in created : Readable(i) /\ owner[i] \notin cut =>
       i \in index[owner[i]].ids /\ row[i].ttl \in 1..index[owner[i]].ttl
  /\ \A t \in Threads : task[t].at = "expire_index" /\ Readable(task[t].id) =>
       row[task[t].id].ttl \in 1..task[t].ttl

(* What a revoke_all in progress still has to reach, it has on its list.   *)
Unreached(i) == Valid(i) /\ owner[i] \notin cut
SweepInv ==
  /\ \A t \in Threads :
       /\ task[t].target \subseteq created
       /\ task[t].at \in {"read", "revoke_each"} => task[t].subject # NoRow
       /\ \A i \in task[t].target : Unreached(i) =>
            /\ task[t].at = "read" => i \in task[t].todo \cup task[t].found
            /\ task[t].at = "revoke_each" => i \in task[t].todo
            /\ task[t].at = "mark" => i \in task[t].todo \cup {task[t].id}
  /\ swept \subseteq created

(* A login in progress is of somebody.                                     *)
LoginInv ==
  /\ login \in [Threads -> [at : {"idle", "link", "issue", "session"},
                            subject : Subjects \cup {NoRow}]]
  /\ \A t \in Threads : login[t].at # "idle" => login[t].subject \in Subjects

SessionInv == /\ SessionTypeOK /\ TaskInv /\ OwnerInv /\ IndexInv /\ SweepInv
              /\ RevokedStaysRevoked /\ RevokeAllReaches

(* The steps of Auth as the session store sees them.                       *)
CallEnds(t) ==
  /\ task' = [task EXCEPT ![t] = Idle]
  /\ UNCHANGED <<row, index, owner, created, revoked, swept, cut>>

SessionNext ==
  \/ SessionTick
  \/ \E t \in Threads :
       \/ \E s \in Subjects, i \in SessionIds, seconds \in Ttls : PutRow(t, s, i, seconds)
       \/ \E i \in SessionIds : RevokeSession(t, i)
       \/ \E s \in Subjects : List(t, s)
       \/ SessionStep(t)
       \/ CallEnds(t)

------------------------------------------------------------------------------
LEMMA LoginStep == LoginInv /\ [Next]_vars => LoginInv'
<1> SUFFICES ASSUME LoginInv, [Next]_vars PROVE LoginInv'
  OBVIOUS
<1>1. ASSUME NEW t \in Threads, NEW s \in Subjects, Resolves(t, s) PROVE LoginInv'
  BY <1>1 DEF Resolves, LoginInv
<1>2. ASSUME NEW t \in Threads, Links(t) \/ IssuesPair(t) PROVE LoginInv'
  BY <1>2 DEF Links, IssuesPair, LoginInv
<1>3. ASSUME NEW t \in Threads, CreatesSession(t) \/ Dies(t) PROVE LoginInv'
  BY <1>3 DEF CreatesSession, Dies, NoLogin, LoginInv
<1>4. login' = login => LoginInv'
  BY DEF LoginInv
<1> QED
  BY <1>1, <1>2, <1>3, <1>4 DEF Next, Begins, Steps, Tick, ssoVars, vars

LEMMA NextIsSessionNext == LoginInv /\ [Next]_vars => [SessionNext]_sessionVars
<1> SUFFICES ASSUME LoginInv, [Next]_vars PROVE [SessionNext]_sessionVars
  OBVIOUS
<1>1. CASE Tick
  BY <1>1 DEF Tick, SessionNext
<1>2. ASSUME NEW t \in Threads, Begins(t) PROVE [SessionNext]_sessionVars
  BY <1>2 DEF Begins, Resolves, SessionNext
<1>3. ASSUME NEW t \in Threads, Steps(t) PROVE [SessionNext]_sessionVars
  <2>1. Links(t) \/ IssuesPair(t) => UNCHANGED sessionVars
    BY DEF Links, IssuesPair
  <2>2. CreatesSession(t) => \E s \in Subjects, i \in SessionIds, seconds \in Ttls :
                               PutRow(t, s, i, seconds)
    BY DEF CreatesSession, LoginInv
  <2>3. CreatesSession(t) \/ SessionStep(t) => SessionNext
    BY <2>2 DEF SessionNext
  <2> QED
    BY <1>3, <2>1, <2>3 DEF Steps
<1>4. ASSUME NEW t \in Threads, Dies(t) PROVE [SessionNext]_sessionVars
  BY <1>4 DEF Dies, CallEnds, SessionNext
<1>5. CASE UNCHANGED vars
  BY <1>5 DEF vars
<1> QED
  BY <1>1, <1>2, <1>3, <1>4, <1>5 DEF Next

(* Lifetimes in ticks are within the longest, and a key lives at least one *)
(* second.                                                                 *)
LEMMA Lifetimes ==
  /\ Longest \in Nat \ {0} /\ \A n \in Ttls : 2 * n \in 0..Longest
  /\ \A left \in 0..Longest : KeyTtl(left) \in 1..Longest
<1>1. PICK m \in Ttls : \A x \in Ttls : m >= x
  BY TtlsAssumption DEF TtlsAssumption
<1>2. \A x \in Ttls : x \in Nat \ {0}
  BY TtlsAssumption DEF TtlsAssumption
<1>3. Max(Ttls) \in Ttls /\ \A x \in Ttls : Max(Ttls) >= x
  BY <1>1 DEF Max
<1>4. PICK top \in Nat \ {0} : top = Max(Ttls) /\ Longest = 2 * top
  BY <1>2, <1>3 DEF Longest
<1>5. \A n \in Ttls : n <= top
  BY <1>2, <1>3, <1>4
<1>6. ASSUME NEW left \in 0..Longest PROVE KeyTtl(left) \in 1..Longest
  <2>1. (left - 1) \div 2 \in Int /\ (left - 1) \div 2 <= top
    BY <1>4, <1>6
  <2>2. Max({1, (left - 1) \div 2}) \in 1..top
    BY <1>4, <2>1, MaxOfTwo
  <2> QED
    BY <1>4, <2>2 DEF KeyTtl
<1> QED
  BY <1>2, <1>4, <1>5, <1>6

LEMMA SessionInitInv == Init => SessionInv
<1> SUFFICES ASSUME Init PROVE SessionInv
  OBVIOUS
<1> USE NoRowAssumption DEF NoRowAssumption, Init, SessionInit, Idle, Absent
<1>1. SessionTypeOK
  BY Lifetimes DEF SessionTypeOK, Tasks, Places, Indexes, NoTtl
<1>2. TaskInv
  BY DEF TaskInv, Knows, Distinct, Creating, Putting
<1>3. OwnerInv
  BY DEF OwnerInv, Exists
<1>4. IndexInv
  BY DEF IndexInv
<1>5. SweepInv
  BY DEF SweepInv
<1> QED
  BY <1>1, <1>2, <1>3, <1>4, <1>5 DEF SessionInv, RevokedStaysRevoked, RevokeAllReaches

(* What the clock does to a row that is there.                             *)
LEMMA TickedRow ==
  ASSUME SessionTypeOK, SessionTick, NEW i \in SessionIds
  PROVE  /\ ~Exists(i) \/ row[i].ttl = 1 => row'[i] = NoRow
         /\ Exists(i) /\ row[i].ttl # 1 =>
              /\ row'[i] \in Rows
              /\ row'[i].full = row[i].full /\ row'[i].revoked = row[i].revoked
              /\ row'[i].left = Down(row[i].left) /\ row'[i].ttl = Down(row[i].ttl)
<1>1. row[i] \in {NoRow} \cup Rows
  BY DEF SessionTypeOK
<1>2. /\ \A x \in 0..Longest : Down(x) \in 0..Longest
      /\ \A x \in {NoTtl} \cup 1..Longest : x # 1 => Down(x) \in {NoTtl} \cup 1..Longest
  BY Lifetimes DEF Down, NoTtl
<1>3. row'[i] = IF ~Exists(i) \/ row[i].ttl = 1 THEN NoRow
                ELSE [row[i] EXCEPT !.left = Down(row[i].left), !.ttl = Down(row[i].ttl)]
  BY DEF SessionTick
<1>4. ASSUME Exists(i), row[i].ttl # 1
      PROVE  Down(row[i].left) \in 0..Longest /\ Down(row[i].ttl) \in {NoTtl} \cup 1..Longest
  BY <1>1, <1>2, <1>4 DEF Exists, Rows
<1>5. ASSUME Exists(i), row[i].ttl # 1
      PROVE  /\ row'[i] \in Rows
             /\ row'[i].full = row[i].full /\ row'[i].revoked = row[i].revoked
             /\ row'[i].left = Down(row[i].left) /\ row'[i].ttl = Down(row[i].ttl)
  <2>1. PICK r \in Rows : r = row[i]
    BY <1>1, <1>5 DEF Exists
  <2>2. PICK left \in 0..Longest, ttl \in {NoTtl} \cup 1..Longest :
          left = Down(row[i].left) /\ ttl = Down(row[i].ttl)
    BY <1>4, <1>5
  <2>3. row'[i] = [r EXCEPT !.left = left, !.ttl = ttl]
    BY <1>3, <1>5, <2>1, <2>2
  <2>4. /\ row'[i] \in Rows /\ row'[i].full = r.full /\ row'[i].revoked = r.revoked
        /\ row'[i].left = left /\ row'[i].ttl = ttl
    BY <2>3 DEF Rows
  <2> QED
    BY <2>1, <2>2, <2>4
<1> QED
  BY <1>3, <1>5

(* What marking makes of a row: it is not valid, and readable only if it   *)
(* was.                                                                    *)
LEMMA MarkedIsInvalid ==
  ASSUME SessionTypeOK, NEW i \in SessionIds
  PROVE  /\ MarkedRow(i) \in Rows /\ MarkedRow(i).revoked = TRUE
         /\ Exists(i) => MarkedRow(i).ttl = row[i].ttl
         /\ MarkedRow(i).full = TRUE => Exists(i) /\ row[i].full
<1>1. ASSUME NEW r \in Rows
      PROVE  LET q == [r EXCEPT !.revoked = TRUE]
             IN q \in Rows /\ q.revoked = TRUE /\ q.ttl = r.ttl /\ q.full = r.full
  BY <1>1 DEF Rows
<1>2. [full |-> FALSE, revoked |-> TRUE, left |-> 0, ttl |-> NoTtl] \in Rows
  BY Lifetimes DEF Rows
<1>3. Exists(i) => row[i] \in Rows
  BY DEF Exists, SessionTypeOK
<1>4. CASE Exists(i)
  BY <1>1, <1>3, <1>4 DEF MarkedRow, Rows
<1>5. CASE ~Exists(i)
  BY <1>2, <1>5 DEF MarkedRow
<1> QED
  BY <1>4, <1>5

(* Types: a row is only updated where it is, and lifetimes only go down.   *)
LEMMA RowTypeStep ==
  ASSUME SessionTypeOK, TaskInv, SessionNext
  PROVE  row' \in [SessionIds -> {NoRow} \cup Rows]
<1> USE DEF SessionTypeOK
<1>1. ASSUME NEW t \in Threads, NEW s \in Subjects, NEW i \in SessionIds, NEW n \in Ttls,
             PutRow(t, s, i, n)
      PROVE  row' \in [SessionIds -> {NoRow} \cup Rows]
  BY <1>1, Lifetimes DEF PutRow, Rows
<1>2. ASSUME NEW t \in Threads, ExpireRow(t) PROVE row' \in [SessionIds -> {NoRow} \cup Rows]
  <2>1. /\ task[t].id \in SessionIds /\ row[task[t].id] \in Rows
        /\ task[t].ttl \in 1..Longest
    BY <1>2 DEF ExpireRow, TaskInv, Knows, Creating, Putting, Exists
  <2>2. [row[task[t].id] EXCEPT !.ttl = task[t].ttl] \in Rows
    BY <2>1 DEF Rows
  <2> QED
    BY <1>2, <2>1, <2>2 DEF ExpireRow
<1>3. ASSUME NEW t \in Threads, Mark(t) PROVE row' \in [SessionIds -> {NoRow} \cup Rows]
  <2>1. task[t].id \in SessionIds
    BY <1>3 DEF Mark, TaskInv, Knows
  <2> QED
    BY <1>3, <2>1, MarkedIsInvalid DEF Mark
<1>4. CASE SessionTick
  <2>1. \A i \in SessionIds : row'[i] \in {NoRow} \cup Rows
    BY <1>4, TickedRow
  <2> QED
    BY <1>4, <2>1 DEF SessionTick
<1>5. row' = row => row' \in [SessionIds -> {NoRow} \cup Rows]
  OBVIOUS
<1> QED
  BY <1>1, <1>2, <1>3, <1>4, <1>5
     DEF SessionNext, SessionStep, PutIndex, ExpireIndex, RevokeSession, List, Read, ReadAll,
         RevokeEach, RevokeAllReturns, CallEnds

LEMMA IndexTypeStep ==
  ASSUME SessionTypeOK, TaskInv, SessionNext
  PROVE  index' \in [Subjects -> Indexes]
<1> USE DEF SessionTypeOK
<1>1. ASSUME NEW t \in Threads, PutIndex(t) PROVE index' \in [Subjects -> Indexes]
  <2>1. task[t].id \in SessionIds
    BY <1>1 DEF PutIndex, TaskInv, Knows, Creating, Putting
  <2>2. \A x \in Indexes : [x EXCEPT !.ids = @ \cup {task[t].id}] \in Indexes
    BY <2>1 DEF Indexes
  <2> QED
    BY <1>1, <2>2 DEF PutIndex
<1>2. ASSUME NEW t \in Threads, ExpireIndex(t) PROVE index' \in [Subjects -> Indexes]
  <2>1. \A x \in Indexes : [x EXCEPT !.ttl = task[t].ttl] \in Indexes
    BY <1>2 DEF ExpireIndex, TaskInv, Knows, Indexes
  <2> QED
    BY <1>2, <2>1 DEF ExpireIndex
<1>3. CASE SessionTick
  <2>1. \A x \in Indexes : x.ttl # 1 => [x EXCEPT !.ttl = Down(@)] \in Indexes
    BY Lifetimes DEF Indexes, Down, NoTtl
  <2>2. Absent \in Indexes
    BY DEF Absent, Indexes
  <2> QED
    BY <1>3, <2>1, <2>2 DEF SessionTick
<1>4. index' = index => index' \in [Subjects -> Indexes]
  OBVIOUS
<1> QED
  BY <1>1, <1>2, <1>3, <1>4
     DEF SessionNext, SessionStep, PutRow, ExpireRow, Mark, RevokeSession, List, Read, ReadAll,
         RevokeEach, RevokeAllReturns, CallEnds

LEMMA HistoryTypeStep ==
  ASSUME SessionTypeOK, TaskInv, SessionNext
  PROVE  /\ owner' \in [SessionIds -> Subjects \cup {NoRow}]
         /\ created' \cup revoked' \cup swept' \subseteq SessionIds /\ cut' \subseteq Subjects
<1> DEFINE Typed == /\ owner' \in [SessionIds -> Subjects \cup {NoRow}]
                    /\ created' \cup revoked' \cup swept' \subseteq SessionIds
                    /\ cut' \subseteq Subjects
<1> USE DEF SessionTypeOK
<1>1. ASSUME NEW t \in Threads, ExpireIndex(t) PROVE Typed
  BY <1>1 DEF ExpireIndex, TaskInv, Knows, Creating
<1>2. ASSUME NEW t \in Threads, Mark(t) PROVE Typed
  BY <1>2 DEF Mark, TaskInv, Knows
<1>3. ASSUME NEW t \in Threads, RevokeAllReturns(t) PROVE Typed
  BY <1>3 DEF RevokeAllReturns, Tasks
<1>4. ASSUME NEW t \in Threads, NEW s \in Subjects, NEW i \in SessionIds, NEW n \in Ttls,
             PutRow(t, s, i, n)
      PROVE  Typed
  BY <1>4 DEF PutRow
<1>5. UNCHANGED <<owner, created, revoked, swept, cut>> => Typed
  OBVIOUS
<1> QED
  BY <1>1, <1>2, <1>3, <1>4, <1>5
     DEF SessionNext, SessionStep, SessionTick, PutIndex, ExpireRow, RevokeSession, List, Read,
         ReadAll, RevokeEach, CallEnds

LEMMA TaskTypeStep ==
  ASSUME SessionTypeOK, TaskInv, SessionNext
  PROVE  task' \in [Threads -> Tasks]
<1> USE DEF SessionTypeOK
<1>1. Idle \in Tasks
  BY Lifetimes DEF Idle, Tasks, Places
<1>2. ASSUME NEW t \in Threads, NEW r \in Tasks, task' = [task EXCEPT ![t] = r]
      PROVE  task' \in [Threads -> Tasks]
  BY <1>2
<1>3. ASSUME NEW t \in Threads PROVE task[t] \in Tasks
  BY <1>3
<1>4. ASSUME NEW t \in Threads, NEW place \in Places, Goes(t, place)
      PROVE  task' \in [Threads -> Tasks]
  BY <1>2, <1>3, <1>4 DEF Goes, Tasks
<1>5. ASSUME NEW t \in Threads, NEW s \in Subjects, NEW i \in SessionIds, NEW n \in Ttls,
             PutRow(t, s, i, n)
      PROVE  task' \in [Threads -> Tasks]
  <2>1. [Idle EXCEPT !.at = "sadd", !.id = i, !.subject = s] \in Tasks
    BY <1>1 DEF Tasks, Places
  <2> QED
    BY <1>2, <1>5, <2>1 DEF PutRow
<1>6. ASSUME NEW t \in Threads, PutIndex(t) PROVE task' \in [Threads -> Tasks]
  <2>1. task[t].id \in SessionIds /\ row[task[t].id] \in Rows
    BY <1>6 DEF PutIndex, TaskInv, Knows, Creating, Putting, Exists
  <2>2. KeyTtl(row[task[t].id].left) \in 0..Longest
    BY <2>1, Lifetimes DEF Rows
  <2>3. [task[t] EXCEPT !.at = "expire_row", !.ttl = KeyTtl(row[task[t].id].left)] \in Tasks
    BY <1>3, <2>2 DEF Tasks, Places
  <2> QED
    BY <1>6, <2>3 DEF PutIndex
<1>7. ASSUME NEW t \in Threads, ExpireRow(t) \/ ExpireIndex(t) \/ Mark(t) \/ RevokeAllReturns(t)
      PROVE  task' \in [Threads -> Tasks]
  <2>1. Goes(t, "expire_index") \/ Goes(t, "revoke_each") \/ Rests(t)
    BY <1>7 DEF ExpireRow, ExpireIndex, Mark, RevokeAllReturns
  <2> QED
    BY <1>1, <1>4, <2>1 DEF Rests, Places
<1>8. ASSUME NEW t \in Threads, NEW i \in SessionIds, RevokeSession(t, i)
      PROVE  task' \in [Threads -> Tasks]
  <2>1. [Idle EXCEPT !.at = "mark", !.id = i] \in Tasks
    BY <1>1 DEF Tasks, Places
  <2> QED
    BY <1>8, <2>1 DEF RevokeSession
<1>9. ASSUME NEW t \in Threads, NEW s \in Subjects, List(t, s) PROVE task' \in [Threads -> Tasks]
  <2>1. [Idle EXCEPT !.at = "read", !.subject = s, !.todo = index[s].ids,
                     !.target = {i \in created : owner[i] = s}] \in Tasks
    BY <1>1 DEF Tasks, Places, Indexes
  <2> QED
    BY <1>9, <2>1 DEF List
<1>10. ASSUME NEW t \in Threads, Read(t) PROVE task' \in [Threads -> Tasks]
  <2>1. \A i \in task[t].todo : [task[t] EXCEPT !.todo = @ \ {i},
          !.found = IF Exists(i) THEN @ \cup {i} ELSE @] \in Tasks
    BY <1>3 DEF Tasks
  <2>2. Rests(t) \/ \E i \in task[t].todo : task' = [task EXCEPT ![t] = [task[t] EXCEPT
          !.todo = @ \ {i}, !.found = IF Exists(i) THEN @ \cup {i} ELSE @]]
    BY <1>10 DEF Read
  <2> QED
    BY <1>1, <1>2, <2>1, <2>2 DEF Rests
<1>11. ASSUME NEW t \in Threads, ReadAll(t) PROVE task' \in [Threads -> Tasks]
  <2>1. [task[t] EXCEPT !.at = "revoke_each", !.todo = task[t].found, !.found = {}] \in Tasks
    BY <1>3 DEF Tasks, Places
  <2> QED
    BY <1>11, <2>1 DEF ReadAll
<1>12. ASSUME NEW t \in Threads, RevokeEach(t) PROVE task' \in [Threads -> Tasks]
  <2>1. PICK i \in task[t].todo : Looks(t, i)
    BY <1>12 DEF RevokeEach
  <2>2. i \in SessionIds
    BY <1>3, <2>1 DEF Tasks
  <2>3. [task[t] EXCEPT !.at = IF Exists(i) THEN "mark" ELSE task[t].at,
                        !.id = IF Exists(i) THEN i ELSE NoRow, !.todo = @ \ {i}] \in Tasks
    BY <1>3, <2>2 DEF Tasks, Places
  <2> QED
    BY <2>1, <2>3 DEF Looks
<1>13. ASSUME NEW t \in Threads, CallEnds(t) PROVE task' \in [Threads -> Tasks]
  BY <1>1, <1>13 DEF CallEnds
<1>14. SessionTick => task' \in [Threads -> Tasks]
  BY DEF SessionTick
<1> QED
  BY <1>5, <1>6, <1>7, <1>8, <1>9, <1>10, <1>11, <1>12, <1>13, <1>14 DEF SessionNext, SessionStep

------------------------------------------------------------------------------
LEMMA OwnerStep ==
  ASSUME SessionTypeOK, TaskInv, OwnerInv, SessionNext
  PROVE  OwnerInv' /\ \A i \in SessionIds : owner[i] # NoRow => owner'[i] = owner[i]
<1> USE NoRowAssumption DEF NoRowAssumption, SessionTypeOK, OwnerInv, Exists
<1>1. ASSUME NEW t \in Threads, NEW s \in Subjects, NEW i \in SessionIds, NEW n \in Ttls,
             PutRow(t, s, i, n)
      PROVE  OwnerInv' /\ \A j \in SessionIds : owner[j] # NoRow => owner'[j] = owner[j]
  BY <1>1 DEF PutRow
<1>2. ASSUME NEW t \in Threads, ExpireRow(t) PROVE OwnerInv' /\ owner' = owner
  BY <1>2 DEF ExpireRow, TaskInv, Knows, Creating, Putting
<1>3. ASSUME NEW t \in Threads, ExpireIndex(t) PROVE OwnerInv' /\ owner' = owner
  BY <1>3 DEF ExpireIndex, TaskInv, Knows, Creating
<1>4. ASSUME NEW t \in Threads, Mark(t) PROVE OwnerInv' /\ owner' = owner
  BY <1>4 DEF Mark, TaskInv, Knows
<1>5. CASE SessionTick
  BY <1>5 DEF SessionTick
<1>6. UNCHANGED <<row, owner, created, revoked>> => OwnerInv' /\ owner' = owner
  OBVIOUS
<1> QED
  BY <1>1, <1>2, <1>3, <1>4, <1>5, <1>6
     DEF SessionNext, SessionStep, PutIndex, RevokeSession, List, Read, ReadAll, RevokeEach,
         RevokeAllReturns, CallEnds

(* The row a thread is writing stays there, without an expiry, until that  *)
(* thread gives it one.                                                    *)
LEMMA RowStays ==
  ASSUME SessionTypeOK, TaskInv, OwnerInv, SessionNext,
         NEW u \in Threads, task'[u] = task[u], task[u].at \in Putting
  PROVE  Exists(task[u].id)' /\ row'[task[u].id].ttl = NoTtl
<1> DEFINE i == task[u].id
<1>1. /\ i \in SessionIds /\ owner[i] # NoRow /\ row[i] # NoRow /\ row[i].ttl = NoTtl
      /\ row[i] \in Rows
  BY DEF TaskInv, Knows, Creating, SessionTypeOK, Exists
<1> HIDE DEF i
<1>2. ASSUME NEW r \in Rows, r.ttl = NoTtl, row'[i] = r
      PROVE  row'[i] # NoRow /\ row'[i].ttl = NoTtl
  BY <1>2, NoRowAssumption DEF NoRowAssumption
<1>3. row'[i] = row[i] => row'[i] # NoRow /\ row'[i].ttl = NoTtl
  BY <1>1
<1>4. ASSUME NEW t \in Threads, NEW s \in Subjects, NEW j \in SessionIds, NEW n \in Ttls,
             PutRow(t, s, j, n)
      PROVE  row'[i] = row[i]
  BY <1>1, <1>4 DEF PutRow, SessionTypeOK
<1>5. ASSUME NEW t \in Threads, ExpireRow(t) PROVE row'[i] = row[i]
  <2>1. t # u
    BY <1>5 DEF ExpireRow, Goes, SessionTypeOK, Tasks
  <2>2. task[t].id # i
    BY <1>5, <2>1 DEF ExpireRow, TaskInv, Distinct, Creating, Putting, i
  <2> QED
    BY <1>5, <2>2 DEF ExpireRow, SessionTypeOK
<1>6. ASSUME NEW t \in Threads, Mark(t) PROVE row'[i] # NoRow /\ row'[i].ttl = NoTtl
  <2>1. CASE task[t].id = i
    BY <1>1, <1>2, <1>6, <2>1, MarkedIsInvalid DEF Mark, Exists, SessionTypeOK
  <2>2. CASE task[t].id # i
    BY <1>3, <1>6, <2>2 DEF Mark, SessionTypeOK
  <2> QED
    BY <2>1, <2>2
<1>7. ASSUME SessionTick PROVE row'[i] # NoRow /\ row'[i].ttl = NoTtl
  <2>1. NoTtl # 1 /\ Down(NoTtl) = NoTtl
    BY DEF NoTtl, Down
  <2> QED
    BY <1>1, <1>2, <1>7, <2>1, TickedRow DEF Exists
<1>8. row'[i] # NoRow /\ row'[i].ttl = NoTtl
  BY <1>3, <1>4, <1>5, <1>6, <1>7
     DEF SessionNext, SessionStep, PutIndex, ExpireIndex, RevokeSession, List, Read, ReadAll,
         RevokeEach, RevokeAllReturns, CallEnds
<1> QED
  BY <1>8 DEF Exists, i

(* The steps of one thread.                                                *)
Moves(t) ==
  \/ \E s \in Subjects, i \in SessionIds, n \in Ttls : PutRow(t, s, i, n)
  \/ \E i \in SessionIds : RevokeSession(t, i)
  \/ \E s \in Subjects : List(t, s)
  \/ SessionStep(t) \/ CallEnds(t)

(* A step is the clock's or one thread's, and leaves the others where they *)
(* are.                                                                    *)
LEMMA OneMoves ==
  ASSUME SessionTypeOK, SessionNext
  PROVE  \/ SessionTick /\ task' = task
         \/ \E t \in Threads : Moves(t) /\ \A u \in Threads \ {t} : task'[u] = task[u]
<1>1. SessionTick => task' = task
  BY DEF SessionTick
<1>2. ASSUME NEW t \in Threads, NEW r, task' = [task EXCEPT ![t] = r]
      PROVE  \A u \in Threads \ {t} : task'[u] = task[u]
  BY <1>2 DEF SessionTypeOK
<1>3. ASSUME NEW t \in Threads, Moves(t) PROVE \A u \in Threads \ {t} : task'[u] = task[u]
  <2>1. ASSUME NEW s \in Subjects, NEW i \in SessionIds, NEW n \in Ttls, PutRow(t, s, i, n)
        PROVE  \A u \in Threads \ {t} : task'[u] = task[u]
    BY <1>2, <2>1 DEF PutRow
  <2>2. ASSUME NEW s \in Subjects, List(t, s) PROVE \A u \in Threads \ {t} : task'[u] = task[u]
    BY <1>2, <2>2 DEF List
  <2>3. ASSUME NEW i \in SessionIds, RevokeSession(t, i)
        PROVE  \A u \in Threads \ {t} : task'[u] = task[u]
    BY <1>2, <2>3 DEF RevokeSession
  <2>4. ASSUME ExpireRow(t) \/ ExpireIndex(t) \/ Mark(t) \/ RevokeAllReturns(t) \/ CallEnds(t)
        PROVE  \A u \in Threads \ {t} : task'[u] = task[u]
    BY <2>4 DEF ExpireRow, ExpireIndex, Mark, RevokeAllReturns, CallEnds, Goes, Rests,
                SessionTypeOK
  <2>5. ASSUME PutIndex(t) \/ Read(t) \/ ReadAll(t) \/ RevokeEach(t)
        PROVE  \A u \in Threads \ {t} : task'[u] = task[u]
    BY <2>5 DEF PutIndex, Read, ReadAll, RevokeEach, Looks, Rests, SessionTypeOK
  <2> QED
    BY <1>3, <2>1, <2>2, <2>3, <2>4, <2>5 DEF Moves, SessionStep
<1> QED
  BY <1>1, <1>3 DEF SessionNext, Moves

(* What a thread knows stays true while the others move.                   *)
LEMMA OthersKnow ==
  ASSUME SessionTypeOK, TaskInv, OwnerInv, SessionNext, NEW u \in Threads, task'[u] = task[u]
  PROVE  Knows(u)'
<1>1. Knows(u)
  BY DEF TaskInv
<1>2. task[u].at \in Creating \cup {"mark"} => owner'[task[u].id] = owner[task[u].id]
  BY <1>1, OwnerStep DEF Knows
<1>3. task[u].at \in Creating => task[u].id \notin created'
  <2> SUFFICES ASSUME task[u].at \in Creating, task[u].id \in created' PROVE FALSE
    OBVIOUS
  <2>1. PICK t \in Threads : ExpireIndex(t) /\ task[t].id = task[u].id
    BY <1>1 DEF Knows, SessionNext, SessionStep, SessionTick, PutRow, PutIndex, ExpireRow,
                ExpireIndex, Mark, RevokeSession, List, Read, ReadAll, RevokeEach,
                RevokeAllReturns, CallEnds
  <2>2. t # u
    BY <2>1 DEF ExpireIndex, Rests, Idle, SessionTypeOK, Creating, Putting
  <2> QED
    BY <2>1, <2>2 DEF TaskInv, Distinct, ExpireIndex, Creating
<1>4. task[u].at \in Putting => Exists(task[u].id)' /\ row'[task[u].id].ttl = NoTtl
  BY RowStays
<1> QED
  BY <1>1, <1>2, <1>3, <1>4 DEF Knows, Creating

(* After these steps a thread writes no session.                           *)
LEMMA WritesNone ==
  ASSUME SessionTypeOK, NEW t \in Threads,
         \/ ExpireIndex(t) \/ Mark(t) \/ RevokeAllReturns(t) \/ CallEnds(t)
         \/ Read(t) \/ ReadAll(t)
  PROVE  task'[t].at \notin Creating \cup {"mark"}
<1> USE DEF SessionTypeOK, Creating, Putting
<1>1. Rests(t) => task'[t].at = "idle"
  BY DEF Rests, Idle
<1>2. CASE ExpireIndex(t) \/ RevokeAllReturns(t)
  BY <1>1, <1>2 DEF ExpireIndex, RevokeAllReturns
<1>3. CASE Mark(t)
  <2>1. Goes(t, "revoke_each") => task'[t].at = "revoke_each"
    BY DEF Goes, Tasks
  <2> QED
    BY <1>1, <1>3, <2>1 DEF Mark
<1>4. CASE CallEnds(t)
  BY <1>4 DEF CallEnds, Idle
<1>5. CASE Read(t)
  BY <1>1, <1>5 DEF Read, Tasks
<1>6. CASE ReadAll(t)
  BY <1>6 DEF ReadAll, Tasks
<1> QED
  BY <1>2, <1>3, <1>4, <1>5, <1>6

(* A thread's own step leaves it knowing what its next one needs.          *)
LEMMA MoverKnows ==
  ASSUME SessionTypeOK, TaskInv, OwnerInv, SessionNext, NEW t \in Threads, Moves(t)
  PROVE  Knows(t)'
<1>1. task'[t].at \notin Creating \cup {"mark"} => Knows(t)'
  BY DEF Knows, Creating, Putting
<1>2. ASSUME NEW s \in Subjects, NEW i \in SessionIds, NEW n \in Ttls, PutRow(t, s, i, n)
      PROVE  Knows(t)'
  <2>1. /\ task'[t].at = "sadd" /\ task'[t].id = i /\ task'[t].subject = s
        /\ owner'[i] = s /\ s # NoRow /\ created' = created
    BY <1>2, NoRowAssumption DEF PutRow, Idle, SessionTypeOK, NoRowAssumption
  <2>2. i \notin created
    BY <1>2 DEF PutRow, OwnerInv
  <2>3. row'[i] = [full |-> TRUE, revoked |-> FALSE, left |-> 2 * n, ttl |-> NoTtl]
    BY <1>2 DEF PutRow, SessionTypeOK
  <2>4. row'[i] \in Rows /\ row'[i].ttl = NoTtl
    BY <2>3, Lifetimes DEF Rows
  <2> QED
    BY <2>1, <2>2, <2>4, NoRowAssumption DEF Knows, Creating, Putting, Exists, NoRowAssumption
<1>3. ASSUME PutIndex(t) PROVE Knows(t)'
  <2>1. /\ task'[t].at = "expire_row" /\ task'[t].id = task[t].id
        /\ task'[t].subject = task[t].subject /\ task'[t].ttl = KeyTtl(row[task[t].id].left)
        /\ UNCHANGED <<row, owner, created>>
    BY <1>3 DEF PutIndex, SessionTypeOK, Tasks
  <2>2. task[t].id \in SessionIds /\ row[task[t].id] \in Rows
    BY <1>3 DEF PutIndex, TaskInv, Knows, Creating, Putting, Exists, SessionTypeOK
  <2>3. KeyTtl(row[task[t].id].left) \in 1..Longest
    BY <2>2, Lifetimes DEF Rows
  <2> QED
    BY <1>3, <2>1, <2>3 DEF PutIndex, TaskInv, Knows, Creating, Putting, Exists
<1>4. ASSUME ExpireRow(t) PROVE Knows(t)'
  <2>1. /\ task'[t].at = "expire_index" /\ task'[t].id = task[t].id
        /\ task'[t].subject = task[t].subject /\ task'[t].ttl = task[t].ttl
        /\ UNCHANGED <<owner, created>>
    BY <1>4 DEF ExpireRow, Goes, SessionTypeOK, Tasks
  <2> QED
    BY <1>4, <2>1 DEF ExpireRow, TaskInv, Knows, Creating, Putting
<1>5. ASSUME ExpireIndex(t) \/ Mark(t) \/ RevokeAllReturns(t) \/ CallEnds(t) \/ Read(t) \/ ReadAll(t)
      PROVE  Knows(t)'
  BY <1>1, <1>5, WritesNone
<1>6. ASSUME NEW i \in SessionIds, RevokeSession(t, i) PROVE Knows(t)'
  BY <1>6 DEF RevokeSession, Idle, SessionTypeOK, OwnerInv, Knows, Creating, Putting
<1>7. ASSUME NEW s \in Subjects, List(t, s) PROVE Knows(t)'
  BY <1>1, <1>7 DEF List, Idle, SessionTypeOK, Creating, Putting
<1>8. ASSUME RevokeEach(t) PROVE Knows(t)'
  <2>1. PICK i \in task[t].todo : Looks(t, i)
    BY <1>8 DEF RevokeEach
  <2>2. i \in SessionIds
    BY <2>1 DEF SessionTypeOK, Tasks
  <2>3. CASE Exists(i)
    <3>1. task'[t].at = "mark" /\ task'[t].id = i /\ owner' = owner
      BY <1>8, <2>1, <2>3 DEF RevokeEach, Looks, SessionTypeOK, Tasks
    <3> QED
      BY <2>2, <2>3, <3>1 DEF Knows, OwnerInv, Creating, Putting
  <2>4. CASE ~Exists(i)
    BY <1>1, <1>8, <2>1, <2>4 DEF RevokeEach, Looks, SessionTypeOK, Tasks, Creating, Putting
  <2> QED
    BY <2>3, <2>4
<1> QED
  BY <1>2, <1>3, <1>4, <1>5, <1>6, <1>7, <1>8 DEF Moves, SessionStep

(* Two threads never write the same session: one that is being written has *)
(* an owner, and only a session without one is begun.                      *)
LEMMA DistinctStep ==
  ASSUME SessionTypeOK, TaskInv, OwnerInv, SessionNext
  PROVE  Distinct'
<1>1. ASSUME NEW v \in Threads, Moves(v), task'[v].at \in Creating
      PROVE  \/ task[v].at \in Creating /\ task'[v].id = task[v].id
             \/ owner[task'[v].id] = NoRow
  <2>1. ASSUME NEW s \in Subjects, NEW i \in SessionIds, NEW n \in Ttls, PutRow(v, s, i, n)
        PROVE  owner[task'[v].id] = NoRow
    BY <2>1 DEF PutRow, Idle, SessionTypeOK
  <2>2. CASE PutIndex(v) \/ ExpireRow(v)
    BY <2>2 DEF PutIndex, ExpireRow, Goes, SessionTypeOK, Tasks, Creating, Putting
  <2>3. CASE \/ ExpireIndex(v) \/ Mark(v) \/ RevokeAllReturns(v) \/ CallEnds(v) \/ Read(v)
             \/ ReadAll(v)
    BY <1>1, <2>3, WritesNone
  <2>4. ASSUME NEW i \in SessionIds, RevokeSession(v, i) PROVE FALSE
    BY <1>1, <2>4 DEF RevokeSession, Idle, SessionTypeOK, Creating, Putting
  <2>5. ASSUME NEW s \in Subjects, List(v, s) PROVE FALSE
    BY <1>1, <2>5 DEF List, Idle, SessionTypeOK, Creating, Putting
  <2>6. ASSUME RevokeEach(v) PROVE FALSE
    BY <1>1, <2>6 DEF RevokeEach, Looks, SessionTypeOK, Tasks, Creating, Putting
  <2> QED
    BY <1>1, <2>1, <2>2, <2>3, <2>4, <2>5, <2>6 DEF Moves, SessionStep
<1>2. \A u \in Threads : task[u].at \in Creating => owner[task[u].id] # NoRow
  BY DEF TaskInv, Knows
<1>3. ASSUME NEW v \in Threads, Moves(v), \A u \in Threads \ {v} : task'[u] = task[u],
             NEW u \in Threads \ {v}, task'[v].at \in Creating, task'[u].at \in Creating
      PROVE  task'[v].id # task'[u].id
  BY <1>1, <1>2, <1>3 DEF TaskInv, Distinct
<1>4. task' = task => Distinct'
  BY DEF TaskInv, Distinct
<1>5. ASSUME NEW v \in Threads, Moves(v), \A u \in Threads \ {v} : task'[u] = task[u]
      PROVE  Distinct'
  BY <1>3, <1>5 DEF TaskInv, Distinct
<1> QED
  BY <1>4, <1>5, OneMoves

LEMMA TaskStep ==
  ASSUME SessionTypeOK, TaskInv, OwnerInv, SessionNext
  PROVE  TaskInv'
<1>1. ASSUME NEW u \in Threads PROVE Knows(u)'
  BY OneMoves, OthersKnow, MoverKnows
<1> QED
  BY <1>1, DistinctStep DEF TaskInv

------------------------------------------------------------------------------
(* No step brings back a session that has begun: it becomes readable or    *)
(* valid by none, and its end moves with the clock or is set by its put.   *)
LEMMA NoRevival ==
  ASSUME SessionTypeOK, TaskInv, OwnerInv, SessionNext,
         NEW i \in SessionIds, owner[i] # NoRow
  PROVE  /\ (Readable(i)' => Readable(i)) /\ (Valid(i)' => Valid(i))
         /\ Readable(i)' => \/ row'[i].ttl = row[i].ttl
                            \/ \E t \in Threads : ExpireRow(t) /\ task[t].id = i
                            \/ /\ SessionTick /\ row[i].ttl # 1
                               /\ row'[i].ttl = Down(row[i].ttl)
<1> USE DEF Readable, Valid, Exists
<1>1. row'[i] = row[i] => (Readable(i)' = Readable(i)) /\ (Valid(i)' = Valid(i))
  OBVIOUS
<1>2. ASSUME NEW t \in Threads, NEW s \in Subjects, NEW j \in SessionIds, NEW n \in Ttls,
             PutRow(t, s, j, n)
      PROVE  row'[i] = row[i]
  BY <1>2 DEF PutRow, SessionTypeOK
<1>3. ASSUME NEW t \in Threads, ExpireRow(t)
      PROVE  \/ row'[i] = row[i]
             \/ task[t].id = i /\ (Readable(i)' => Readable(i)) /\ (Valid(i)' => Valid(i))
  <2>1. CASE task[t].id # i
    BY <1>3, <2>1 DEF ExpireRow, SessionTypeOK
  <2>2. CASE task[t].id = i
    <3>1. Exists(i) /\ row[i] \in Rows
      BY <1>3, <2>2 DEF ExpireRow, TaskInv, Knows, Putting, SessionTypeOK
    <3>2. row'[i] = [row[i] EXCEPT !.ttl = task[t].ttl]
      BY <1>3, <2>2 DEF ExpireRow, SessionTypeOK
    <3>3. /\ row'[i].full = row[i].full /\ row'[i].revoked = row[i].revoked
          /\ row'[i].left = row[i].left
      BY <3>1, <3>2 DEF Rows
    <3> QED
      BY <2>2, <3>1, <3>3
  <2> QED
    BY <2>1, <2>2
<1>4. ASSUME NEW t \in Threads, Mark(t)
      PROVE  \/ row'[i] = row[i]
             \/ ~Valid(i)' /\ (Readable(i)' => Readable(i) /\ row'[i].ttl = row[i].ttl)
  <2>1. CASE task[t].id # i
    BY <1>4, <2>1 DEF Mark, SessionTypeOK
  <2>2. CASE task[t].id = i
    <3>1. row'[i] = MarkedRow(i)
      BY <1>4, <2>2 DEF Mark, SessionTypeOK
    <3> QED
      BY <3>1, MarkedIsInvalid DEF Rows
  <2> QED
    BY <2>1, <2>2
<1>5. ASSUME SessionTick, Readable(i)'
      PROVE  /\ Readable(i) /\ (Valid(i)' => Valid(i)) /\ row[i].ttl # 1
             /\ row'[i].ttl = Down(row[i].ttl)
  <2>1. Exists(i) /\ row[i].ttl # 1 /\ row[i] \in Rows
    BY <1>5, TickedRow DEF SessionTypeOK
  <2>2. Down(row[i].left) > 0 => row[i].left > 0
    BY <2>1 DEF Down, Rows
  <2> QED
    BY <1>5, <2>1, <2>2, TickedRow
<1>6. SessionTick => (Readable(i)' => Readable(i)) /\ (Valid(i)' => Valid(i))
  BY <1>5
<1> HIDE DEF Readable, Valid, Exists
<1>7. \/ row'[i] = row[i]
      \/ \E t \in Threads : ExpireRow(t) \/ Mark(t)
      \/ SessionTick
  BY <1>2 DEF SessionNext, SessionStep, PutIndex, ExpireIndex, RevokeSession, List, Read, ReadAll,
              RevokeEach, RevokeAllReturns, CallEnds
<1> QED
  BY <1>1, <1>3, <1>4, <1>5, <1>6, <1>7

(* History only grows.                                                     *)
LEMMA HistoryGrows ==
  ASSUME SessionTypeOK, SessionNext
  PROVE  created \subseteq created' /\ cut \subseteq cut'
  BY DEF SessionNext, SessionStep, SessionTick, PutRow, PutIndex, ExpireRow, ExpireIndex, Mark,
         RevokeSession, List, Read, ReadAll, RevokeEach, RevokeAllReturns, CallEnds

(* A revoked session is not valid, and stays so.                           *)
LEMMA RevokedStep ==
  ASSUME SessionTypeOK, TaskInv, OwnerInv, RevokedStaysRevoked, SessionNext
  PROVE  RevokedStaysRevoked'
<1>1. \A i \in revoked : ~Valid(i)'
  BY NoRevival DEF OwnerInv, RevokedStaysRevoked, SessionTypeOK
<1>2. ASSUME NEW t \in Threads, Mark(t), NEW i, i = task[t].id PROVE ~Valid(i)'
  <2>1. i \in SessionIds
    BY <1>2 DEF Mark, TaskInv, Knows
  <2>2. row'[i] = MarkedRow(i)
    BY <1>2, <2>1 DEF Mark, SessionTypeOK
  <2> QED
    BY <2>1, <2>2, MarkedIsInvalid DEF Valid
<1>3. revoked' = revoked \/ \E t \in Threads : Mark(t) /\ revoked' = revoked \cup {task[t].id}
  BY DEF SessionNext, SessionStep, SessionTick, PutRow, PutIndex, ExpireRow, ExpireIndex, Mark,
         RevokeSession, List, Read, ReadAll, RevokeEach, RevokeAllReturns, CallEnds
<1> QED
  BY <1>1, <1>2, <1>3 DEF RevokedStaysRevoked

(* The rows of an uncut index end with it or before.                       *)
Indexed(i) == i \in index[owner[i]].ids /\ row[i].ttl \in 1..index[owner[i]].ttl

LEMMA IndexedStep ==
  ASSUME SessionTypeOK, TaskInv, OwnerInv, IndexInv, SessionNext,
         NEW i \in created, Readable(i)', owner'[i] \notin cut'
  PROVE  Indexed(i)'
<1> DEFINE s == owner[i]
<1>1. i \in SessionIds /\ s \in Subjects /\ s # NoRow /\ owner'[i] = s
  BY OwnerStep DEF SessionTypeOK, OwnerInv
<1>2. s \notin cut /\ Readable(i)
  BY <1>1, NoRevival, HistoryGrows
<1>3. Indexed(i) /\ row[i].ttl \in Nat /\ index[s] \in Indexes
  BY <1>1, <1>2 DEF IndexInv, Indexed, SessionTypeOK
<1> HIDE DEF s
<1>4. i \in index[s].ids /\ row[i].ttl \in 1..index[s].ttl /\ index[s].ttl \in Nat
  BY <1>3 DEF Indexed, s, Indexes, NoTtl
<1>5. SUFFICES i \in index'[s].ids /\ row'[i].ttl \in 1..index'[s].ttl
  BY <1>1 DEF Indexed
<1>6. \A t \in Threads : ~(ExpireRow(t) /\ task[t].id = i)
  BY DEF ExpireRow, TaskInv, Knows, Creating, Putting
<1>7. ASSUME SessionTick PROVE i \in index'[s].ids /\ row'[i].ttl \in 1..index'[s].ttl
  <2>1. row[i].ttl # 1 /\ row'[i].ttl = row[i].ttl - 1 /\ index[s].ttl # 1
    BY <1>1, <1>4, <1>6, <1>7, TickedRow DEF Readable, Exists, Down
  <2>2. index'[s].ids = index[s].ids /\ index'[s].ttl = index[s].ttl - 1
    <3>1. index'[s] = [index[s] EXCEPT !.ttl = Down(index[s].ttl)]
      BY <1>1, <1>7, <2>1 DEF SessionTick, s
    <3> QED
      BY <1>3, <1>4, <2>1, <3>1 DEF Indexes, Down, s
  <2> QED
    BY <1>4, <2>1, <2>2
<1>8. ASSUME NEW t \in Threads, PutIndex(t)
      PROVE  index[s].ids \subseteq index'[s].ids /\ index'[s].ttl = index[s].ttl
  BY <1>1, <1>3, <1>8 DEF PutIndex, SessionTypeOK, Indexes, s
<1>9. ASSUME NEW t \in Threads, ExpireIndex(t)
      PROVE  index'[s].ids = index[s].ids /\ index'[s].ttl \in Nat /\ index[s].ttl <= index'[s].ttl
  <2>1. CASE task[t].subject # s
    BY <1>1, <1>4, <1>9, <2>1 DEF ExpireIndex, SessionTypeOK
  <2>2. CASE task[t].subject = s
    <3>1. /\ index'[s].ids = index[s].ids /\ index'[s].ttl = task[t].ttl
          /\ index[s].ttl <= task[t].ttl
      BY <1>1, <1>3, <1>4, <1>9, <2>2 DEF ExpireIndex, SessionTypeOK, Indexes, Tasks, s
    <3> QED
      BY <1>4, <1>9, <3>1, Lifetimes DEF SessionTypeOK, Tasks
  <2> QED
    BY <2>1, <2>2
<1>10. ~SessionTick => row'[i].ttl = row[i].ttl
  BY <1>1, <1>6, NoRevival DEF s, OwnerInv
<1>11. \/ SessionTick \/ index' = index
       \/ \E t \in Threads : PutIndex(t) \/ ExpireIndex(t)
  BY DEF SessionNext, SessionStep, PutRow, ExpireRow, Mark, RevokeSession, List, Read, ReadAll,
         RevokeEach, RevokeAllReturns, CallEnds
<1>12. CASE SessionTick
  BY <1>7, <1>12
<1>13. CASE index' = index /\ ~SessionTick
  BY <1>4, <1>10, <1>13
<1>14. CASE ~SessionTick /\ \E t \in Threads : PutIndex(t) \/ ExpireIndex(t)
  BY <1>4, <1>8, <1>9, <1>10, <1>14
<1> QED
  BY <1>11, <1>12, <1>13, <1>14

(* A session whose put is about to set the index's end is itself to end no *)
(* later than that.                                                        *)
LEMMA EndingStep ==
  ASSUME SessionTypeOK, TaskInv, OwnerInv, IndexInv, SessionNext,
         NEW u \in Threads, task'[u].at = "expire_index", NEW i, i = task'[u].id, Readable(i)'
  PROVE  row'[i].ttl \in 1..task'[u].ttl
<1>1. Knows(u)'
  BY TaskStep DEF TaskInv
<1>2. i \in SessionIds /\ task'[u].ttl \in 1..Longest
  BY <1>1 DEF Knows, Creating
<1>3. CASE task'[u] = task[u]
  <2>1. task[u].at = "expire_index" /\ task[u].id = i /\ owner[i] # NoRow
    BY <1>3 DEF TaskInv, Knows, Creating
  <2>2. Readable(i) /\ row[i].ttl \in 1..task[u].ttl
    BY <1>2, <2>1, NoRevival DEF IndexInv
  <2>3. ASSUME NEW t \in Threads, ExpireRow(t), task[t].id = i PROVE FALSE
    BY <2>1, <2>3 DEF ExpireRow, TaskInv, Distinct, Creating, Putting
  <2>4. row'[i].ttl = row[i].ttl \/ (row[i].ttl # 1 /\ row'[i].ttl = Down(row[i].ttl))
    BY <1>2, <2>1, <2>3, NoRevival
  <2>5. task[u].ttl \in Nat
    BY <1>2, <1>3, Lifetimes
  <2> QED
    BY <1>3, <2>2, <2>4, <2>5 DEF Down
<1>4. CASE Moves(u)
  <2>1. ExpireRow(u)
    <3>1. ASSUME NEW s \in Subjects, NEW j \in SessionIds, NEW n \in Ttls, PutRow(u, s, j, n)
          PROVE  FALSE
      BY <3>1 DEF PutRow, Idle, SessionTypeOK
    <3>2. ~PutIndex(u)
      BY DEF PutIndex, SessionTypeOK, Tasks
    <3>3. ~(\E j \in SessionIds : RevokeSession(u, j)) /\ ~(\E s \in Subjects : List(u, s))
      BY DEF RevokeSession, List, Idle, SessionTypeOK
    <3>4. ASSUME RevokeEach(u) PROVE FALSE
      BY <3>4 DEF RevokeEach, Looks, SessionTypeOK, Tasks
    <3>5. ~(ExpireIndex(u) \/ Mark(u) \/ RevokeAllReturns(u) \/ CallEnds(u) \/ Read(u) \/ ReadAll(u))
      BY WritesNone DEF Creating
    <3> QED
      BY <1>4, <3>1, <3>2, <3>3, <3>4, <3>5 DEF Moves, SessionStep
  <2>2. task[u].id = i /\ task'[u].ttl = task[u].ttl
    BY <2>1 DEF ExpireRow, Goes, SessionTypeOK, Tasks
  <2>3. row[i] \in Rows /\ row' = [row EXCEPT ![i].ttl = task[u].ttl]
    BY <1>2, <2>1, <2>2 DEF ExpireRow, TaskInv, Knows, Putting, Exists, SessionTypeOK
  <2>4. row'[i].ttl = task'[u].ttl
    BY <1>2, <2>2, <2>3 DEF SessionTypeOK, Rows
  <2> QED
    BY <1>2, <2>4, Lifetimes
<1> QED
  BY <1>3, <1>4, OneMoves

LEMMA IndexStep ==
  ASSUME SessionTypeOK, TaskInv, OwnerInv, IndexInv, SessionNext
  PROVE  IndexInv'
<1>1. ASSUME NEW i \in created', Readable(i)', owner'[i] \notin cut'
      PROVE  Indexed(i)'
  <2>1. CASE i \in created
    BY <1>1, <2>1, IndexedStep
  <2>2. CASE i \notin created
    <3>1. PICK t \in Threads : ExpireIndex(t) /\ task[t].id = i
      BY <1>1, <2>2 DEF SessionNext, SessionStep, SessionTick, PutRow, PutIndex, ExpireRow,
           ExpireIndex, Mark, RevokeSession, List, Read, ReadAll, RevokeEach, RevokeAllReturns,
           CallEnds
    <3>2. /\ i \in SessionIds /\ owner[i] = task[t].subject /\ owner[i] \in Subjects
          /\ UNCHANGED <<row, owner>>
      BY <3>1 DEF ExpireIndex, TaskInv, Knows, Creating, SessionTypeOK
    <3>3. Readable(i) /\ row[i].ttl \in 1..task[t].ttl
      BY <1>1, <3>1, <3>2 DEF IndexInv, ExpireIndex, Readable, Exists
    <3>4. i \in index[owner[i]].ids
      BY <1>1, <3>1, <3>2 DEF ExpireIndex
    <3>5. index' = [index EXCEPT ![owner[i]].ttl = task[t].ttl]
      BY <3>1, <3>2, <3>4 DEF ExpireIndex
    <3>6. index'[owner[i]].ids = index[owner[i]].ids /\ index'[owner[i]].ttl = task[t].ttl
      BY <3>2, <3>5 DEF SessionTypeOK, Indexes
    <3> QED
      BY <3>2, <3>3, <3>4, <3>6 DEF Indexed
  <2> QED
    BY <2>1, <2>2
<1>2. ASSUME NEW u \in Threads, task'[u].at = "expire_index", Readable(task[u].id)'
      PROVE  row'[task'[u].id].ttl \in 1..task'[u].ttl
  BY <1>2, EndingStep
<1> QED
  BY <1>1, <1>2 DEF IndexInv, Indexed

------------------------------------------------------------------------------
(* What must not be reached any more never must be again.                  *)
LEMMA StaysReached ==
  ASSUME SessionTypeOK, TaskInv, OwnerInv, SessionNext, NEW i \in created, Unreached(i)'
  PROVE  Unreached(i)
  BY NoRevival, OwnerStep, HistoryGrows DEF Unreached, OwnerInv, SessionTypeOK

(* The list of a revoke_all loses a session only once it is not valid.     *)
Sweeps(t) ==
  /\ task[t].target \subseteq created
  /\ task[t].at \in {"read", "revoke_each"} => task[t].subject # NoRow
  /\ \A i \in task[t].target : Unreached(i) =>
       /\ task[t].at = "read" => i \in task[t].todo \cup task[t].found
       /\ task[t].at = "revoke_each" => i \in task[t].todo
       /\ task[t].at = "mark" => i \in task[t].todo \cup {task[t].id}

LEMMA SweepsStep ==
  ASSUME SessionTypeOK, TaskInv, OwnerInv, IndexInv, SweepInv, SessionNext, NEW t \in Threads
  PROVE  Sweeps(t)'
<1> USE DEF SessionTypeOK
<1>1. Sweeps(t) /\ task[t] \in Tasks
  BY DEF SweepInv, Sweeps
<1>2. ASSUME task'[t].target = {}, task'[t].subject # NoRow \/ task'[t].at \notin {"read", "revoke_each"}
      PROVE  Sweeps(t)'
  BY <1>2 DEF Sweeps
<1>3. \A i \in task[t].target : i \in created /\ (Unreached(i)' => Unreached(i))
  BY <1>1, StaysReached DEF Sweeps
<1>4. created \subseteq created'
  BY HistoryGrows
<1>5. CASE task'[t] = task[t]
  BY <1>1, <1>3, <1>4, <1>5 DEF Sweeps
<1>6. ASSUME Rests(t) \/ CallEnds(t) PROVE Sweeps(t)'
  BY <1>2, <1>6 DEF Rests, CallEnds, Idle
<1>7. ASSUME NEW s \in Subjects, NEW i \in SessionIds, NEW n \in Ttls, PutRow(t, s, i, n)
      PROVE  Sweeps(t)'
  BY <1>2, <1>7 DEF PutRow, Idle
<1>8. ASSUME NEW i \in SessionIds, RevokeSession(t, i) PROVE Sweeps(t)'
  BY <1>2, <1>8 DEF RevokeSession, Idle
<1>9. ASSUME NEW s \in Subjects, List(t, s) PROVE Sweeps(t)'
  <2>1. /\ task'[t].at = "read" /\ task'[t].subject = s /\ task'[t].todo = index[s].ids
        /\ task'[t].target = {i \in created : owner[i] = s} /\ created' = created
    BY <1>9 DEF List, Idle
  <2>2. ASSUME NEW i \in created, owner[i] = s, Unreached(i)' PROVE i \in index[s].ids
    BY <2>2, StaysReached DEF IndexInv, Unreached, Valid
  <2> QED
    BY <2>1, <2>2, NoRowAssumption DEF Sweeps, NoRowAssumption
<1>10. ASSUME Read(t) PROVE Sweeps(t)'
  <2>1. PICK i \in task[t].todo :
          IF Exists(i) /\ ~Readable(i) THEN Rests(t)
          ELSE task' = [task EXCEPT ![t].todo = @ \ {i},
                                    ![t].found = IF Exists(i) THEN @ \cup {i} ELSE @]
    BY <1>10 DEF Read
  <2>2. CASE ~Rests(t)
    <3>1. /\ task'[t].at = "read" /\ task'[t].subject = task[t].subject
          /\ task'[t].target = task[t].target /\ task'[t].todo = task[t].todo \ {i}
          /\ task'[t].found = IF Exists(i) THEN task[t].found \cup {i} ELSE task[t].found
      <4>1. CASE Exists(i)
        <5>1. task' = [task EXCEPT ![t].todo = @ \ {i}, ![t].found = @ \cup {i}]
          BY <2>1, <2>2, <4>1
        <5> QED
          BY <1>1, <1>10, <4>1, <5>1 DEF Read, Tasks
      <4>2. CASE ~Exists(i)
        <5>1. task' = [task EXCEPT ![t].todo = @ \ {i}, ![t].found = @]
          BY <2>1, <2>2, <4>2
        <5> QED
          BY <1>1, <1>10, <4>2, <5>1 DEF Read, Tasks
      <4> QED
        BY <4>1, <4>2
    <3>2. Unreached(i) => Exists(i)
      BY DEF Unreached, Valid, Readable
    <3> QED
      BY <1>1, <1>3, <1>4, <1>10, <3>1, <3>2 DEF Sweeps, Read
  <2> QED
    BY <1>6, <2>2
<1>11. ASSUME ReadAll(t) PROVE Sweeps(t)'
  <2>1. /\ task'[t].at = "revoke_each" /\ task'[t].subject = task[t].subject
        /\ task'[t].target = task[t].target /\ task'[t].todo = task[t].found
    BY <1>1, <1>11 DEF ReadAll, Tasks
  <2> QED
    BY <1>1, <1>3, <1>4, <1>11, <2>1 DEF Sweeps, ReadAll
<1>12. ASSUME RevokeEach(t) PROVE Sweeps(t)'
  <2>1. PICK i \in task[t].todo : Looks(t, i)
    BY <1>12 DEF RevokeEach
  <2>2. /\ task'[t].at = (IF Exists(i) THEN "mark" ELSE "revoke_each")
        /\ Exists(i) => task'[t].id = i
        /\ task'[t].subject = task[t].subject
        /\ task'[t].target = task[t].target /\ task'[t].todo = task[t].todo \ {i}
    BY <1>1, <1>12, <2>1 DEF RevokeEach, Looks, Tasks
  <2>3. Unreached(i) => Exists(i)
    BY DEF Unreached, Valid, Readable
  <2> QED
    BY <1>1, <1>3, <1>4, <1>12, <2>2, <2>3 DEF Sweeps, RevokeEach
<1>13. ASSUME Mark(t), ~Rests(t) PROVE Sweeps(t)'
  <2>1. /\ task'[t].at = "revoke_each" /\ task'[t].subject = task[t].subject
        /\ task'[t].target = task[t].target /\ task'[t].todo = task[t].todo
        /\ task[t].subject # NoRow
    BY <1>1, <1>13 DEF Mark, Goes, Tasks
  <2>2. ASSUME NEW i, i = task[t].id PROVE ~Unreached(i)'
    <3>1. i \in SessionIds /\ row'[i] = MarkedRow(i)
      BY <1>13, <2>2 DEF Mark, TaskInv, Knows
    <3> QED
      BY <3>1, MarkedIsInvalid DEF Unreached, Valid
  <2> QED
    BY <1>1, <1>3, <1>4, <1>13, <2>1, <2>2 DEF Sweeps, Mark
<1>14. ASSUME PutIndex(t) \/ ExpireRow(t) PROVE Sweeps(t)'
  <2>1. /\ task'[t].at \in Creating /\ task'[t].target = task[t].target
    BY <1>1, <1>14 DEF PutIndex, ExpireRow, Goes, Tasks, Creating, Putting
  <2> QED
    BY <1>1, <1>4, <2>1 DEF Sweeps, Creating, Putting
<1>15. Moves(t) => Sweeps(t)'
  BY <1>6, <1>7, <1>8, <1>9, <1>10, <1>11, <1>12, <1>13, <1>14
     DEF Moves, SessionStep, ExpireIndex, RevokeAllReturns
<1> QED
  BY <1>5, <1>15, OneMoves

(* A session is only counted as swept when it was reached.                 *)
LEMMA SweptStep ==
  ASSUME SessionTypeOK, TaskInv, OwnerInv, IndexInv, SweepInv, RevokeAllReaches, SessionNext
  PROVE  SweepInv' /\ RevokeAllReaches'
<1>1. swept' = swept \/ \E t \in Threads : RevokeAllReturns(t)
  BY DEF SessionNext, SessionStep, SessionTick, PutRow, PutIndex, ExpireRow, ExpireIndex, Mark,
         RevokeSession, List, Read, ReadAll, RevokeEach, CallEnds
<1>2. ASSUME NEW t \in Threads, RevokeAllReturns(t), NEW i \in task[t].target
      PROVE  i \in created /\ ~Unreached(i)
  BY <1>2 DEF RevokeAllReturns, SweepInv
<1>3. ASSUME NEW i \in swept' PROVE i \in created /\ ~Unreached(i)
  BY <1>1, <1>2, <1>3 DEF RevokeAllReturns, SweepInv, RevokeAllReaches, Unreached
<1>4. \A i \in swept' : i \in created' /\ ~Unreached(i)'
  BY <1>3, StaysReached, HistoryGrows
<1> QED
  BY <1>4, SweepsStep DEF SweepInv, Sweeps, RevokeAllReaches, Unreached

------------------------------------------------------------------------------
LEMMA SessionInvariance == Spec => []SessionInv
<1>1. Init => SessionInv /\ LoginInv
  BY SessionInitInv DEF Init, LoginInv, NoLogin
<1>2. SessionInv /\ SessionNext => SessionInv'
  <2> SUFFICES ASSUME SessionInv, SessionNext PROVE SessionInv'
    OBVIOUS
  <2>1. SessionTypeOK'
    BY RowTypeStep, IndexTypeStep, TaskTypeStep, HistoryTypeStep DEF SessionInv, SessionTypeOK
  <2> QED
    BY <2>1, TaskStep, OwnerStep, IndexStep, SweptStep, RevokedStep DEF SessionInv
<1>3. SessionInv /\ UNCHANGED sessionVars => SessionInv'
  BY DEF sessionVars, SessionInv, SessionTypeOK, TaskInv, Knows, Distinct, OwnerInv, IndexInv,
         SweepInv, Unreached, RevokedStaysRevoked, RevokeAllReaches, Valid, Readable, Exists
<1>4. SessionInv /\ LoginInv /\ [Next]_vars => (SessionInv /\ LoginInv)'
  BY <1>2, <1>3, LoginStep, NextIsSessionNext
<1> QED
  BY <1>1, <1>4, PTL DEF Spec

(* A session that a revoke call reported as revoked is never valid again,  *)
(* for any threads, sessions and lifetimes and calls that end half way.    *)
THEOREM RevokedForGood == Spec => []RevokedStaysRevoked
<1>1. SessionInv => RevokedStaysRevoked
  BY DEF SessionInv
<1> QED
  BY SessionInvariance, <1>1, PTL

(* revoke_all_sessions, once it returned, has reached every session it had *)
(* to, but for subjects whose index a put cut short.                       *)
THEOREM SweepIsComplete == Spec => []RevokeAllReaches
<1>1. SessionInv => RevokeAllReaches
  BY DEF SessionInv
<1> QED
  BY SessionInvariance, <1>1, PTL

------------------------------------------------------------------------------
(* Refresh tokens.                                                         *)

(* A rotation in progress is of an issued token; one that begun after the  *)
(* token was revoked finds it so, and one that issues has revoked it.      *)
RotationKnows(t) ==
  rotation[t].at # "idle" =>
    /\ rotation[t].of \in Issued
    /\ rotation[t].stale => token[rotation[t].of].revoked
    /\ rotation[t].at = "issue" => token[rotation[t].of].revoked
    /\ rotation[t].at \in {"revoke", "issue"} => ~rotation[t].stale

ParentsRevoked == \A k \in Tokens : children[k] # {} => k \in Issued /\ token[k].revoked

(* Tokens are issued in order, so the next one is fresh.                   *)
InOrder == \E n \in 0..MaxTokens : Issued = 1..n

TokenInv == TokenTypeOK /\ InOrder /\ (\A t \in Rotators : RotationKnows(t)) /\ ParentsRevoked

(* The steps of Auth as the token store sees them.                         *)
RotationEnds(t) == rotation' = [rotation EXCEPT ![t] = Free] /\ UNCHANGED <<token, children>>

TokenNext ==
  \/ TokenTick
  \/ \E t \in Rotators :
       \/ \E k \in Tokens : RotateBegins(t, k) \/ RevokeToken(k)
       \/ RotationStep(t) \/ RotationEnds(t)
  \/ \E k \in Tokens : Issue(k) /\ UNCHANGED <<rotation, children>>

------------------------------------------------------------------------------
LEMMA NextIsTokenNext == [Next]_vars => [TokenNext]_tokenVars
<1> SUFFICES ASSUME [Next]_vars PROVE [TokenNext]_tokenVars
  OBVIOUS
<1> USE AuthAssumption DEF AuthAssumption
<1>1. CASE Tick
  BY <1>1 DEF Tick, TokenNext
<1>2. ASSUME NEW t \in Threads, Begins(t) PROVE [TokenNext]_tokenVars
  BY <1>2 DEF Begins, Resolves, TokenNext
<1>3. ASSUME NEW t \in Threads, Steps(t) PROVE [TokenNext]_tokenVars
  <2>1. Links(t) \/ CreatesSession(t) => UNCHANGED tokenVars
    BY DEF Links, CreatesSession
  <2>2. IssuesPair(t) => TokenNext
    BY DEF IssuesPair, TokenNext
  <2>3. RotationStep(t) => TokenNext
    BY DEF TokenNext
  <2> QED
    BY <1>3, <2>1, <2>2, <2>3 DEF Steps
<1>4. ASSUME NEW t \in Threads, Dies(t) PROVE [TokenNext]_tokenVars
  BY <1>4 DEF Dies, RotationEnds, TokenNext
<1>5. CASE UNCHANGED vars
  BY <1>5 DEF vars
<1> QED
  BY <1>1, <1>2, <1>3, <1>4, <1>5 DEF Next

LEMMA TokenInitInv == Init => TokenInv
<1> SUFFICES ASSUME Init PROVE TokenInv
  OBVIOUS
<1> USE TokensAssumption DEF TokensAssumption, Init, TokenInit
<1>1. TokenTypeOK
  BY DEF TokenTypeOK, Free
<1>2. Issued = 1..0 /\ 0 \in 0..MaxTokens
  BY DEF Issued, Tokens
<1>3. (\A t \in Rotators : RotationKnows(t)) /\ ParentsRevoked
  BY DEF RotationKnows, ParentsRevoked, Free
<1> QED
  BY <1>1, <1>2, <1>3 DEF TokenInv, InOrder

(* A token is issued under an identifier no token had.                     *)
LEMMA IssueIsFresh ==
  ASSUME TokenInv, NEW k \in Tokens, Issue(k)
  PROVE  /\ k \notin Issued /\ Issued' = 1..k /\ token' \in [Tokens -> {NoToken} \cup TokenRecords]
         /\ \A j \in Tokens \ {k} : token'[j] = token[j]
<1> USE TokensAssumption DEF TokensAssumption
<1>1. PICK n \in 0..MaxTokens : Issued = 1..n
  BY DEF TokenInv, InOrder
<1>2. Cardinality(Issued) = n
  BY <1>1, FS_Interval
<1>3. k = n + 1
  BY <1>1, <1>2 DEF Issue
<1>4. token' = [token EXCEPT ![k] = [left |-> Lifetime, revoked |-> FALSE]]
  BY DEF Issue
<1>5. [left |-> Lifetime, revoked |-> FALSE] \in TokenRecords
  BY DEF TokenRecords
<1>6. token' \in [Tokens -> {NoToken} \cup TokenRecords] /\ token'[k] # NoToken
  BY <1>4, <1>5 DEF TokenInv, TokenTypeOK
<1>7. \A j \in Tokens \ {k} : token'[j] = token[j]
  BY <1>4 DEF TokenInv, TokenTypeOK
<1>8. Issued' = Issued \cup {k}
  BY <1>6, <1>7 DEF Issued
<1>9. Issued' = 1..k
  BY <1>1, <1>3, <1>8
<1> QED
  BY <1>1, <1>3, <1>6, <1>7, <1>9

(* Revoking changes nothing else of a token, and no token expires out of   *)
(* the store.                                                              *)
LEMMA RevokedTokenKeeps ==
  ASSUME TokenTypeOK, NEW k \in Issued, token' = RevokedToken(k)
  PROVE  /\ token' \in [Tokens -> {NoToken} \cup TokenRecords] /\ Issued' = Issued
         /\ token'[k].revoked = TRUE
         /\ \A j \in Issued : token[j].revoked => token'[j].revoked
<1> USE TokensAssumption DEF TokensAssumption
<1>1. k \in Tokens /\ token[k] \in TokenRecords
  BY DEF Issued, TokenTypeOK
<1>2. [token[k] EXCEPT !.revoked = TRUE] \in TokenRecords
  BY <1>1 DEF TokenRecords
<1>3. token' = [token EXCEPT ![k] = [token[k] EXCEPT !.revoked = TRUE]]
  BY DEF RevokedToken
<1>4. token' \in [Tokens -> {NoToken} \cup TokenRecords] /\ token'[k] # NoToken
  BY <1>1, <1>2, <1>3 DEF TokenTypeOK
<1>5. token'[k].revoked = TRUE /\ \A j \in Tokens \ {k} : token'[j] = token[j]
  BY <1>1, <1>3 DEF TokenTypeOK, TokenRecords
<1>6. Issued' = Issued
  BY <1>1, <1>4, <1>5 DEF Issued
<1> QED
  BY <1>4, <1>5, <1>6 DEF Issued

LEMMA TickKeeps ==
  ASSUME TokenTypeOK, TokenTick
  PROVE  /\ token' \in [Tokens -> {NoToken} \cup TokenRecords] /\ Issued' = Issued
         /\ \A j \in Issued : token'[j].revoked = token[j].revoked
<1> USE TokensAssumption DEF TokensAssumption
<1>1. ASSUME NEW k \in Issued
      PROVE  token'[k] \in TokenRecords /\ token'[k].revoked = token[k].revoked
  <2>1. k \in Tokens /\ token[k] \in TokenRecords
    BY DEF Issued, TokenTypeOK
  <2>2. PICK left \in 0..Lifetime : left = Max({0, token[k].left - 1})
    BY <2>1, MaxOfTwo DEF TokenRecords
  <2>3. token'[k] = [token[k] EXCEPT !.left = left]
    BY <2>1, <2>2 DEF TokenTick
  <2> QED
    BY <2>1, <2>3 DEF TokenRecords
<1>2. \A k \in Tokens \ Issued : token'[k] = NoToken
  BY DEF TokenTick
<1>3. token' = [k \in Tokens |-> token'[k]]
  BY DEF TokenTick
<1> QED
  BY <1>1, <1>2, <1>3 DEF Issued

------------------------------------------------------------------------------
(* Every step of the token store preserves each part of the invariant: no  *)
(* token is forgotten, and a revoked one stays revoked.                    *)
LEMMA TokenStep == TokenInv /\ TokenNext => TokenInv'
<1> SUFFICES ASSUME TokenInv, TokenNext PROVE TokenInv'
  OBVIOUS
<1> USE TokensAssumption DEF TokensAssumption, TokenInv
<1> DEFINE Kept == /\ token' \in [Tokens -> {NoToken} \cup TokenRecords]
                   /\ InOrder' /\ Issued \subseteq Issued'
                   /\ \A j \in Issued : token[j].revoked => token'[j].revoked
           Rotations == [at : {"idle", "check", "revoke", "issue"}, of : Tokens \cup {NoToken},
                         stale : BOOLEAN]
<1>1. ASSUME NEW k \in Issued, token' = RevokedToken(k)
      PROVE  Kept /\ token'[k].revoked
  BY <1>1, RevokedTokenKeeps DEF InOrder
<1>2. token' = token => Kept
  BY DEF TokenTypeOK, InOrder, Issued
<1>3. ASSUME NEW k \in Tokens, Issue(k) PROVE Kept /\ k \notin Issued
  <2>1. Issued \subseteq Issued'
    BY <1>3, IssueIsFresh DEF Issued
  <2> QED
    BY <1>3, <2>1, IssueIsFresh DEF InOrder, Issued, Tokens
<1>4. ASSUME Kept, NEW u \in Rotators, rotation'[u] = rotation[u] PROVE RotationKnows(u)'
  BY <1>4 DEF RotationKnows
<1>5. ASSUME Kept, children' = children PROVE ParentsRevoked' /\ children' \in [Tokens -> SUBSET Tokens]
  BY <1>5 DEF ParentsRevoked, TokenTypeOK
<1>6. ASSUME Kept, NEW t \in Rotators, NEW r \in Rotations, rotation' = [rotation EXCEPT ![t] = r],
             children' = children, RotationKnows(t)'
      PROVE  TokenInv'
  BY <1>4, <1>5, <1>6 DEF TokenTypeOK
<1>7. Free \in Rotations
  BY DEF Free
<1>8. ASSUME Kept, UNCHANGED <<rotation, children>> PROVE TokenInv'
  BY <1>4, <1>5, <1>8 DEF TokenTypeOK
<1> HIDE DEF Kept, TokenInv
<1>9. ASSUME NEW t \in Rotators, rotation' = [rotation EXCEPT ![t] = Free] PROVE RotationKnows(t)'
  BY <1>9 DEF RotationKnows, Free, TokenTypeOK, TokenInv
<1>10. ASSUME NEW t \in Rotators, NEW k \in Tokens, RotateBegins(t, k) PROVE TokenInv'
  <2>1. /\ k \in Issued /\ token' = token /\ children' = children
        /\ rotation' = [rotation EXCEPT ![t] = [at |-> "check", of |-> k, stale |-> token[k].revoked]]
    BY <1>10 DEF RotateBegins, Decodes
  <2>2. [at |-> "check", of |-> k, stale |-> token[k].revoked] \in Rotations
    BY <2>1 DEF TokenInv, TokenTypeOK, Issued, TokenRecords
  <2>3. rotation'[t] = [at |-> "check", of |-> k, stale |-> token[k].revoked] /\ Issued' = Issued
    BY <2>1 DEF TokenInv, TokenTypeOK, Issued
  <2>4. RotationKnows(t)'
    BY <2>1, <2>3 DEF RotationKnows
  <2>5. Kept
    BY <1>2, <2>1
  <2> QED
    BY <1>6, <2>1, <2>2, <2>4, <2>5
<1>11. ASSUME NEW k \in Tokens, RevokeToken(k) PROVE TokenInv'
  BY <1>1, <1>8, <1>11 DEF RevokeToken, Decodes
<1>12. ASSUME NEW t \in Rotators, Checks(t) PROVE TokenInv'
  <2>1. /\ rotation[t].at = "check" /\ rotation[t].of \in Issued /\ children' = children
        /\ RotationKnows(t) /\ rotation[t] \in Rotations
    BY <1>12 DEF Checks, TokenInv, RotationKnows, TokenTypeOK
  <2>2. CASE rotation' = [rotation EXCEPT ![t] = Free]
    <3>1. Kept
      BY <1>1, <1>2, <1>12, <2>1 DEF Checks
    <3> QED
      BY <1>6, <1>7, <1>9, <2>1, <2>2, <3>1
  <2>3. CASE /\ ~token[rotation[t].of].revoked /\ token' = token
             /\ rotation' = [rotation EXCEPT ![t].at = "revoke"]
    <3>1. [rotation[t] EXCEPT !.at = "revoke"] \in Rotations
      BY <2>1
    <3>2. /\ rotation'[t].at = "revoke" /\ rotation'[t].of = rotation[t].of
          /\ rotation'[t].stale = rotation[t].stale /\ Issued' = Issued
          /\ rotation' = [rotation EXCEPT ![t] = [rotation[t] EXCEPT !.at = "revoke"]]
      BY <2>1, <2>3 DEF TokenInv, TokenTypeOK, Issued
    <3>3. RotationKnows(t)'
      BY <2>1, <2>3, <3>2 DEF RotationKnows
    <3> QED
      BY <1>2, <1>6, <2>1, <2>3, <3>1, <3>2, <3>3
  <2> QED
    BY <1>12, <2>2, <2>3 DEF Checks
<1>13. ASSUME NEW t \in Rotators, RevokesOld(t) PROVE TokenInv'
  <2>1. /\ rotation[t].at = "revoke" /\ rotation[t].of \in Issued /\ children' = children
        /\ ~rotation[t].stale /\ rotation[t] \in Rotations
        /\ token' = RevokedToken(rotation[t].of)
    BY <1>13 DEF RevokesOld, TokenInv, RotationKnows, TokenTypeOK
  <2>2. Kept /\ token'[rotation[t].of].revoked
    BY <1>1, <2>1
  <2>3. [rotation[t] EXCEPT !.at = "issue"] \in Rotations
    BY <2>1
  <2>4. /\ rotation'[t].at = "issue" /\ rotation'[t].of = rotation[t].of
        /\ rotation'[t].stale = rotation[t].stale
        /\ rotation' = [rotation EXCEPT ![t] = [rotation[t] EXCEPT !.at = "issue"]]
    BY <1>13, <2>1 DEF RevokesOld, TokenInv, TokenTypeOK
  <2>5. RotationKnows(t)'
    BY <2>1, <2>2, <2>4 DEF RotationKnows, Kept
  <2> QED
    BY <1>6, <2>1, <2>2, <2>3, <2>4, <2>5
<1>14. ASSUME NEW t \in Rotators, IssuesNew(t) PROVE TokenInv'
  <2>1. PICK k \in Tokens : /\ Issue(k)
                            /\ children' = [children EXCEPT ![rotation[t].of] = @ \cup {k}]
    BY <1>14 DEF IssuesNew
  <2>2. Kept
    BY <1>3, <2>1
  <2>3. rotation[t].of \in Issued /\ token[rotation[t].of].revoked
    BY <1>14 DEF IssuesNew, TokenInv, RotationKnows
  <2>4. ParentsRevoked' /\ children' \in [Tokens -> SUBSET Tokens]
    BY <2>1, <2>2, <2>3 DEF TokenInv, ParentsRevoked, TokenTypeOK, Kept, Issued
  <2>5. rotation' = [rotation EXCEPT ![t] = Free]
    BY <1>14 DEF IssuesNew
  <2>6. \A u \in Rotators : RotationKnows(u)'
    BY <1>4, <1>9, <2>2, <2>5 DEF TokenInv, TokenTypeOK
  <2> QED
    BY <1>7, <2>2, <2>4, <2>5, <2>6 DEF TokenInv, TokenTypeOK, Kept
<1>15. ASSUME NEW t \in Rotators, RotationEnds(t) PROVE TokenInv'
  BY <1>2, <1>6, <1>7, <1>9, <1>15 DEF RotationEnds
<1>16. ASSUME NEW k \in Tokens, Issue(k), UNCHANGED <<rotation, children>> PROVE TokenInv'
  BY <1>3, <1>8, <1>16
<1>17. ASSUME TokenTick PROVE TokenInv'
  <2>1. Kept
    BY <1>17, TickKeeps DEF Kept, TokenInv, InOrder
  <2> QED
    BY <1>8, <1>17, <2>1 DEF TokenTick
<1> QED
  BY <1>10, <1>11, <1>12, <1>13, <1>14, <1>15, <1>16, <1>17 DEF TokenNext, RotationStep

LEMMA TokenInvariance == Spec => []TokenInv
<1>1. TokenInv /\ UNCHANGED tokenVars => TokenInv'
  BY DEF tokenVars, TokenInv, TokenTypeOK, InOrder, RotationKnows, ParentsRevoked, Issued
<1>2. TokenInv /\ [Next]_vars => TokenInv'
  BY <1>1, TokenStep, NextIsTokenNext
<1> QED
  BY TokenInitInv, <1>2, PTL DEF Spec

(* A rotation begun after its token was rotated or revoked never gets a    *)
(* new pair, and a token with descendants is revoked for good, for any     *)
(* threads and tokens.                                                     *)
THEOREM NoReplay == Spec => []ReplayRefused
<1>1. TokenInv => ReplayRefused
  BY DEF TokenInv, RotationKnows, ParentsRevoked, ReplayRefused
<1> QED
  BY TokenInvariance, <1>1, PTL

------------------------------------------------------------------------------
(* The counter of calls stays in its bound, links are of subjects.         *)
Bounded == linked \subseteq Subjects /\ calls \in 0..MaxCalls

LEMMA BoundedStep == LoginInv /\ Bounded /\ [Next]_vars => Bounded'
<1> SUFFICES ASSUME LoginInv, Bounded, [Next]_vars PROVE Bounded'
  OBVIOUS
<1> USE AuthAssumption DEF AuthAssumption, Bounded
<1>1. ASSUME NEW t \in Threads, Begins(t) PROVE Bounded'
  BY <1>1 DEF Begins, BeginsCall, Resolves, ssoVars
<1>2. ASSUME NEW t \in Threads, Steps(t) PROVE Bounded'
  BY <1>2 DEF Steps, Links, IssuesPair, CreatesSession, LoginInv, ssoVars
<1>3. CASE Tick \/ UNCHANGED vars \/ \E t \in Threads : Dies(t)
  BY <1>3 DEF Tick, vars, Dies, ssoVars
<1> QED
  BY <1>1, <1>2, <1>3 DEF Next

(* Every value Auth's variables take is of its type.                       *)
THEOREM TypeCorrect == Spec => []TypeOK
<1>1. Init => LoginInv /\ Bounded
  BY AuthAssumption DEF AuthAssumption, Init, LoginInv, NoLogin, Bounded
<1>2. LoginInv /\ Bounded /\ [Next]_vars => (LoginInv /\ Bounded)'
  BY LoginStep, BoundedStep
<1>3. Spec => [](LoginInv /\ Bounded)
  BY <1>1, <1>2, PTL DEF Spec
<1>4. SessionInv /\ TokenInv /\ LoginInv /\ Bounded => TypeOK
  BY DEF SessionInv, TokenInv, LoginInv, Bounded, TypeOK
<1> QED
  BY SessionInvariance, TokenInvariance, <1>3, <1>4, PTL
=============================================================================
