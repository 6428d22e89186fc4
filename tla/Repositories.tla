---------------------------- MODULE Repositories ----------------------------
(***************************************************************************)
(* create, get, update and delete of the Redis, SQLAlchemy and memory      *)
(* repositories by concurrent writers of two tenants.  Redis: one command  *)
(* per step, a row next to a set of ids.  SQLAlchemy: a select, then a     *)
(* commit of the columns that were set.  Memory: one step.                 *)
(***************************************************************************)
EXTENDS Integers, FiniteSets, FiniteSetsExt

CONSTANTS
  Writers,     \* threads
  Tenants,     \* tenants of the callers' contexts
  Ids, Fields,
  Shared,      \* no tenant: a context without one, a row without the field
  NoEntity,    \* "no such row"
  MaxUpdates   \* bound: values ever written

VARIABLES
  backend,   \* which repository it is
  stored,    \* the rows
  ids,       \* the set of ids (Redis), which list and paginate read
  writer,    \* the call a writer is in, between two commands
  fresh,     \* values written so far: each is a new one
  latest,    \* history: what the writes that returned made of each row
  raced,     \* history: kinds of writes that overlapped on an id
  died       \* history: ids whose writer ended between its commands

repoVars == <<backend, stored, ids, writer, fresh, latest, raced, died>>

Entity == [tenant : Tenants \cup {Shared}, val : [Fields -> 0..MaxUpdates]]
NoCall == [op |-> "none", at |-> "idle", id |-> NoEntity, tenant |-> Shared, row |-> NoEntity,
           set |-> {}]

ASSUME RepoAssumption == NoEntity \notin Ids \cup Entity /\ MaxUpdates \in Nat

RepoInit ==
  /\ backend \in {"redis", "sql", "memory"}
  /\ stored = [i \in Ids |-> NoEntity] /\ latest = stored
  /\ ids = {} /\ raced = {} /\ died = {}
  /\ writer = [w \in Writers |-> NoCall]
  /\ fresh = 0

Stored(i) == stored[i] # NoEntity
Writing(i) == {w \in Writers : writer[w].id = i}

(* row_in_tenant_scope and _base_statement: SQL never matches a NULL.      *)
InScope(row, tenant) ==
  \/ tenant = Shared
  \/ row.tenant = tenant
  \/ row.tenant = Shared /\ backend # "sql"

(* apply_write_context: the context's tenant is set on update, too.        *)
Patched(row, tenant, f, value) ==
  [tenant |-> IF tenant = Shared THEN row.tenant ELSE tenant, val |-> [row.val EXCEPT ![f] = value]]

(* A call is in progress from its first command on.                        *)
Overlaps(i, op) == raced \cup {<<i, {op, writer[v].op}>> : v \in Writing(i)}

Calls(w, call) ==
  /\ writer[w] = NoCall
  /\ writer' = [writer EXCEPT ![w] = call]
  /\ raced' = Overlaps(call.id, call.op)
Done(w) == writer' = [writer EXCEPT ![w] = NoCall]
NewValue == fresh < MaxUpdates /\ fresh' = fresh + 1

Puts(i, row) == stored' = [stored EXCEPT ![i] = row] /\ latest' = [latest EXCEPT ![i] = row]

------------------------------------------------------------------------------
(* create with a given id, which may be in use: Redis and memory replace   *)
(* the row, a primary key refuses.                                         *)

Created(tenant) == [tenant |-> tenant, val |-> [f \in Fields |-> fresh + 1]]

Create(w, i, tenant) ==
  /\ backend # "redis" /\ writer[w] = NoCall /\ NewValue
  /\ ~(backend = "sql" /\ Stored(i))
  /\ raced' = Overlaps(i, "create")
  /\ Puts(i, Created(tenant))
  /\ UNCHANGED <<backend, ids, writer, died>>

CreateSAdd(w, i, tenant) ==
  /\ backend = "redis" /\ NewValue
  /\ ids' = ids \cup {i}
  /\ Calls(w, [NoCall EXCEPT !.op = "create", !.at = "set", !.id = i, !.row = Created(tenant)])
  /\ UNCHANGED <<backend, stored, latest, died>>

------------------------------------------------------------------------------
(* update: the row is read, merged with the patch and written back.        *)

UpdateReads(w, i, tenant, f) ==
  /\ backend # "memory" /\ NewValue
  /\ Stored(i) /\ InScope(stored[i], tenant)
  /\ Calls(w, [op |-> "update", at |-> "set", id |-> i, tenant |-> tenant, set |-> {f},
               row |-> Patched(stored[i], tenant, f, fresh + 1)])
  /\ UNCHANGED <<backend, stored, ids, latest, died>>

UpdateInMemory(w, i, tenant, f) ==
  /\ backend = "memory" /\ writer[w] = NoCall /\ NewValue
  /\ Stored(i) /\ InScope(stored[i], tenant)
  /\ Puts(i, Patched(stored[i], tenant, f, fresh + 1))
  /\ UNCHANGED <<backend, ids, writer, raced, died>>

(* What is now to be there: the fields this call set over what earlier     *)
(* calls left.                                                             *)
Merged(c) ==
  IF c.op = "create" \/ latest[c.id] = NoEntity THEN c.row
  ELSE [tenant |-> IF c.tenant = Shared \/ backend = "sql" THEN latest[c.id].tenant ELSE c.tenant,
        val |-> [f \in Fields |-> IF f \in c.set THEN c.row.val[f] ELSE latest[c.id].val[f]]]

(* mutated form: only the patch is written back                            *)
SetPatchOnly(w) ==
  LET c == writer[w]
  IN /\ c.at = "set" /\ backend = "redis"
     /\ stored' = [stored EXCEPT ![c.id] =
          [c.row EXCEPT !.val = [f \in Fields |-> IF f \in c.set \/ c.op = "create" THEN @[f] ELSE 0]]]
     /\ latest' = [latest EXCEPT ![c.id] = Merged(c)]
     /\ Done(w)
     /\ UNCHANGED <<backend, ids, fresh, raced, died>>

(* Redis: SET of the whole row.                                            *)
Set(w) ==
  LET c == writer[w]
  IN /\ c.at = "set" /\ backend = "redis"
     /\ stored' = [stored EXCEPT ![c.id] = c.row]
     /\ latest' = [latest EXCEPT ![c.id] = Merged(c)]
     /\ Done(w)
     /\ UNCHANGED <<backend, ids, fresh, raced, died>>

(* SQLAlchemy: an UPDATE by id of the attributes that changed -- never the *)
(* tenant, which the select has matched -- that raises if the row is gone. *)
CommitUpdate(w) ==
  LET c == writer[w]
      row == stored[c.id]
  IN /\ c.at = "set" /\ backend = "sql"
     /\ IF Stored(c.id)
        THEN /\ stored' = [stored EXCEPT ![c.id] =
                  [row EXCEPT !.val = [f \in Fields |-> IF f \in c.set THEN c.row.val[f] ELSE @[f]]]]
             /\ latest' = [latest EXCEPT ![c.id] = Merged(c)]
        ELSE UNCHANGED <<stored, latest>>
     /\ Done(w)
     /\ UNCHANGED <<backend, ids, fresh, raced, died>>

------------------------------------------------------------------------------
(* delete                                                                  *)

DeleteReads(w, i, tenant) ==
  /\ backend # "memory"
  /\ Stored(i) /\ InScope(stored[i], tenant)
  /\ Calls(w, [NoCall EXCEPT !.op = "delete", !.at = IF backend = "redis" THEN "srem" ELSE "del", !.id = i])
  /\ UNCHANGED <<backend, stored, ids, fresh, latest, died>>

DeleteInMemory(w, i, tenant) ==
  /\ backend = "memory" /\ writer[w] = NoCall
  /\ Stored(i) /\ InScope(stored[i], tenant)
  /\ Puts(i, NoEntity)
  /\ UNCHANGED <<backend, ids, writer, fresh, raced, died>>

SRem(w) ==
  /\ writer[w].at = "srem"
  /\ ids' = ids \ {writer[w].id}
  /\ writer' = [writer EXCEPT ![w].at = "del"]
  /\ UNCHANGED <<backend, stored, fresh, latest, raced, died>>

Del(w) ==
  /\ writer[w].at = "del"
  /\ Puts(writer[w].id, NoEntity)
  /\ Done(w)
  /\ UNCHANGED <<backend, ids, fresh, raced, died>>

(* The process ends or Redis goes away; a SQL transaction is rolled back.  *)
WriterDies(w) ==
  /\ writer[w] # NoCall
  /\ died' = IF backend = "sql" THEN died ELSE died \cup {writer[w].id}
  /\ Done(w)
  /\ UNCHANGED <<backend, stored, ids, fresh, latest, raced>>

RepoNext == \E w \in Writers :
  \/ \E i \in Ids, tenant \in Tenants \cup {Shared} :
       \/ Create(w, i, tenant) \/ CreateSAdd(w, i, tenant)
       \/ DeleteReads(w, i, tenant) \/ DeleteInMemory(w, i, tenant)
       \/ \E f \in Fields : UpdateReads(w, i, tenant, f) \/ UpdateInMemory(w, i, tenant, f)
  \/ Set(w) \/ CommitUpdate(w) \/ SRem(w) \/ Del(w) \/ WriterDies(w)

RepoSpec == RepoInit /\ [][RepoNext]_repoVars

RepoTypeOK ==
  /\ stored \in [Ids -> Entity \cup {NoEntity}] /\ latest \in [Ids -> Entity \cup {NoEntity}]
  /\ ids \subseteq Ids /\ died \subseteq Ids /\ fresh \in 0..MaxUpdates
  /\ \A w \in Writers : /\ writer[w].at \in {"idle", "set", "srem", "del"}
                        /\ writer[w].id \in Ids \cup {NoEntity}
                        /\ writer[w].row \in Entity \cup {NoEntity}

------------------------------------------------------------------------------
Quiet(i) == Writing(i) = {} /\ i \notin died

(* Redis lists exactly the rows it holds, once no write is under way: only *)
(* a writer that died, or a delete that overlapped another kind of write,  *)
(* leaves a row that get finds and list does not, or the reverse.          *)
ListedIffStored ==
  backend = "redis" => \A i \in Ids :
    Quiet(i) /\ ~(\E k \in {"create", "update"} : <<i, {k, "delete"}>> \in raced)
      => (i \in ids <=> Stored(i))

(* A field holds the last value that an acknowledged write gave it: always *)
(* in memory and SQL, in Redis unless an update overlapped another write.  *)
WritesKept ==
  \A i \in Ids : Quiet(i) /\ (backend = "redis" => \A p \in raced : p[1] = i => "update" \notin p[2])
    => stored[i] = latest[i]

RowsSound == ListedIffStored /\ WritesKept
=============================================================================
