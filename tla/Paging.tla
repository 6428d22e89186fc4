------------------------------- MODULE Paging -------------------------------
(***************************************************************************)
(* A client that walks a repository's pages, following next_cursor while   *)
(* others insert, change and delete rows: SQLAlchemyRepository (a count    *)
(* and a select that may see different tables) and the memory repository   *)
(* (one atomic step), sorted by one column, ascending.                     *)
(***************************************************************************)
EXTENDS Integers, FiniteSets, FiniteSetsExt, Sequences, SequencesExt

CONSTANTS
  Rows,        \* rows of the tenant: what _base_statement selects
  Matching,    \* those the query's filters select
  Values,      \* values of the sort column
  PageSize,
  Absent,      \* "no such row"
  MaxWrites    \* bound: writes during a walk

Null == -1
Unset == -2    \* no cursor: the first page

ASSUME PagingAssumption ==
  /\ IsFiniteSet(Rows) /\ Matching \subseteq Rows /\ PageSize \in Nat \ {0}
  /\ Values \subseteq Nat /\ \E m \in Values : \A v \in Values : v <= m
  /\ Absent \notin Values \cup {Null} /\ MaxWrites \in Nat

VARIABLES
  table,      \* the sort column of each row that exists; Null is NULL
  walk,       \* the client's walk and the page being computed
  got,        \* history: how often the walk returned a row
  steady,     \* history: rows that exist unchanged since the walk began
  pageEnds,   \* history: the values its pages ended with
  writes      \* writes since the walk began

pagingVars == <<table, walk, got, steady, pageEnds, writes>>

(* The memory repository takes a keyset cursor for none, and never ends    *)
(* such a walk: it is left out.                                            *)
Walks == [store : {"sql"}, mode : {"cursor", "keyset"}, nulls : {"first", "last"}]
           \cup [store : {"memory"}, mode : {"cursor"}, nulls : {"last"}]

Present == {r \in Rows : table[r] # Absent}

PagingInit ==
  /\ table \in [Rows -> Values \cup {Null, Absent}]
  /\ \E w \in Walks : walk = [store |-> w.store, mode |-> w.mode, nulls |-> w.nulls,
                              at |-> "count", cursor |-> Unset, total |-> 0]
  /\ got = [r \in Rows |-> 0]
  /\ steady = Present
  /\ pageEnds = {} /\ writes = 0

Visible == Present \cap Matching

------------------------------------------------------------------------------
(* One page.                                                               *)

(* NULL is the greatest value (PostgreSQL, the memory repository) or the   *)
(* least (SQLite).                                                         *)
Rank(v) == IF v = Null /\ walk.nulls = "last" THEN Max(Values) + 1 ELSE v

(* The rows in every order the sort allows.                                *)
Orders(S) == {q \in SetToSeqs(S) :
                \A a, b \in DOMAIN q : a < b => Rank(table[q[a]]) <= Rank(table[q[b]])}

(* mutated form: the cursor's row is selected again                        *)
BeyondOrAt(r) == walk.cursor = Unset \/ (table[r] # Null /\ table[r] >= walk.cursor)

(* column > cursor: not true of NULL.                                      *)
Beyond(r) == walk.cursor = Unset \/ (table[r] # Null /\ table[r] > walk.cursor)

Offset == IF walk.cursor = Unset THEN 0 ELSE walk.cursor

(* The page's rows, in order.                                              *)
Pages ==
  IF walk.mode = "keyset"
  THEN {SubSeq(q, 1, Min({PageSize, Len(q)})) : q \in Orders({r \in Visible : Beyond(r)})}
  ELSE {SubSeq(q, Offset + 1, Min({Offset + PageSize, Len(q)})) : q \in Orders(Visible)}

(* _resolve_next_cursor; Unset is None.                                    *)
NextCursor(page, total) ==
  IF walk.store = "sql" /\ page = <<>> THEN Unset
  ELSE IF walk.mode = "keyset" THEN LET v == table[Last(page)] IN IF v = Null THEN Unset ELSE v
  ELSE IF Offset + PageSize < total THEN Offset + PageSize ELSE Unset

Returns(page, total) ==
  /\ got' = [r \in Rows |-> IF r \in Range(page) THEN Min({2, got[r] + 1}) ELSE got[r]]
  /\ pageEnds' = IF page = <<>> THEN pageEnds ELSE pageEnds \cup {table[Last(page)]}
  /\ walk' = [walk EXCEPT !.at = IF NextCursor(page, total) = Unset THEN "done" ELSE "count",
                          !.cursor = NextCursor(page, total), !.total = 0]
  /\ UNCHANGED <<table, steady, writes>>

(* The count of the base statement: the query's filters are not in it.     *)
Counts ==
  /\ walk.store = "sql" /\ walk.at = "count"
  /\ walk' = [walk EXCEPT !.at = "select", !.total = Cardinality(Present)]
  /\ UNCHANGED <<table, got, steady, pageEnds, writes>>

Selects ==
  /\ walk.at = "select"
  /\ \E page \in Pages : Returns(page, walk.total)

PageOfMemory ==
  /\ walk.store = "memory" /\ walk.at = "count"
  /\ \E page \in Pages : Returns(page, Cardinality(Visible))

(* Another client inserts, changes or deletes a row.                       *)
Writes ==
  /\ walk.at # "done" /\ writes < MaxWrites
  /\ \E r \in Rows, v \in Values \cup {Null, Absent} :
       /\ table[r] # v
       /\ table' = [table EXCEPT ![r] = v]
       /\ steady' = steady \ {r}
  /\ writes' = writes + 1
  /\ UNCHANGED <<walk, got, pageEnds>>

PagingNext == Counts \/ Selects \/ PageOfMemory \/ Writes

PagingSpec == PagingInit /\ [][PagingNext]_pagingVars

PagingTypeOK ==
  /\ table \in [Rows -> Values \cup {Null, Absent}]
  /\ walk.at \in {"count", "select", "done"}
  /\ walk.cursor \in {Unset} \cup Nat /\ walk.total \in 0..Cardinality(Rows)
  /\ got \in [Rows -> 0..2] /\ steady \subseteq Present
  /\ pageEnds \subseteq Values \cup {Null} /\ writes \in 0..MaxWrites

------------------------------------------------------------------------------
Due == steady \cap Matching
Tied == \E r, s \in Visible : r # s /\ table[r] = table[s]

(* A keyset walk returns each row that is there all along exactly once,    *)
(* whatever is written meanwhile -- but for rows that tie with the last    *)
(* row of a page, NULLs, and what sorts behind a page that ended on NULL.  *)
KeysetExact ==
  walk.mode = "keyset" =>
    /\ \A r \in Due : got[r] <= 1
    /\ walk.at = "done" => \A r \in Due :
         \/ got[r] = 1
         \/ table[r] \in pageEnds \cup {Null}
         \/ walk.nulls = "first" /\ Null \in pageEnds

(* A cursor (offset) walk does so when nothing is written meanwhile and    *)
(* the sort decides the order: a stale or unfiltered count only costs      *)
(* pages, never rows.                                                      *)
OffsetExact ==
  walk.mode = "cursor" /\ writes = 0 /\ ~Tied =>
    \A r \in Due : got[r] <= 1 /\ (walk.at = "done" => got[r] = 1)

WalksExact == KeysetExact /\ OffsetExact
=============================================================================
