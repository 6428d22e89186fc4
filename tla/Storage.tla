------------------------------ MODULE Storage ------------------------------
(***************************************************************************)
(* Object storage as build_storage_provider assembles it for tenants: a    *)
(* TenantScopedStorageProvider over a LocalStorageProvider, and on demand  *)
(* a PolicyEnforcedStorageProvider around both.  Threads of one process    *)
(* call it; a put truncates the file and then writes it, a delete looks    *)
(* for it and then unlinks it.  get and exists read one file and change    *)
(* nothing.  Keys are not empty; a path is the sequence of its names, from *)
(* the top, and no file is the directory of another.                       *)
(***************************************************************************)
EXTENDS Integers, Sequences, FiniteSets

CONSTANTS
  Uploaders,    \* threads that put and delete objects
  Caller,       \* whom a thread works for: its tenant, actor and roles
  Nobody,       \* no tenant, no actor
  Spellings,    \* keys as callers write them: [slashed, parts]
  Root,         \* root_path, a directory at the top
  RootLike,     \* it, and what lies beside it with a name that begins like its own
  RolesFor,     \* RoleStorageAccessPolicy.roles_by_action
  MaxChanges    \* bound: puts and deletes that are begun

TenantOf(t) == Caller[t].tenant
Spaces == {TenantOf(t) : t \in Uploaders} \ {Nobody}

ASSUME StorageAssumption ==
  /\ \A key \in Spellings : key.parts \in Seq(STRING) /\ key.parts # <<>>
  /\ Root \in RootLike

VARIABLES
  enforced,     \* whether policies are enforced
  files,        \* what a path holds: the thread that wrote it, Blank, Mixed or Missing
  upload,       \* a thread's call: what comes next, the key, whether its file is still linked
  changes,      \* the calls begun
  kept,         \* history: what an object should hold while nobody changes it
  unsettled,    \* history: objects whose last changes overlapped or broke off
  climbed       \* history: objects whose last content came by a key with ".." in it

storageVars == <<enforced, files, upload, changes, kept, unsettled, climbed>>

Blank == "blank"
Mixed == "mixed"
Missing == "missing"

ASSUME ContentsAssumption == {Blank, Mixed, Missing} \cap Uploaders = {} /\ MaxChanges \in Nat

NoUpload == [at |-> "idle", key |-> <<>>, linked |-> FALSE]

Namespaced(t, key) == [slashed |-> FALSE, parts |-> <<TenantOf(t)>> \o key.parts]

(* mutated form: any tenant's prefix is left as it is                      *)
NamespacedKeyForeign(t, key) ==
  IF TenantOf(t) = Nobody \/ Head(key.parts) \in Spaces THEN key ELSE Namespaced(t, key)

(* startswith of the tenant's id and a slash                               *)
InSpace(t, key) == Head(key.parts) = TenantOf(t) /\ Len(key.parts) > 1

(* _namespaced_key                                                         *)
NamespacedKey(t, key) ==
  IF TenantOf(t) = Nobody \/ InSpace(t, key) THEN key ELSE Namespaced(t, key)

(* Path.resolve: ".." takes back the name before it.                       *)
Normalised(names) ==
  LET walked[n \in 0..Len(names)] ==
        IF n = 0 THEN <<>>
        ELSE IF names[n] # ".." THEN Append(walked[n - 1], names[n])
        ELSE SubSeq(walked[n - 1], 1, Len(walked[n - 1]) - 1)
  IN walked[Len(names)]

Climbs(key) == \E n \in DOMAIN key.parts : key.parts[n] = ".."

(* _resolve_key_path strips blanks and leading slashes; a key without ".." *)
(* names its file as it stands.                                            *)
Path(t, key) ==
  LET names == <<Root>> \o NamespacedKey(t, key).parts
  IN IF Climbs(key) THEN Normalised(names) ELSE names

(* What startswith accepts.  The rest is refused with ValueError.          *)
WithinRoot(p) == p # <<>> /\ Head(p) \in RootLike

(* An object is the file that its key leads to.                            *)
Objects == {p \in {Path(t, key) : t \in Uploaders, key \in Spellings} : WithinRoot(p)}

ASSUME ObjectsAssumption ==
  \A p, q \in Objects : Len(p) < Len(q) => SubSeq(q, 1, Len(p)) # p

(* AuthenticatedActorPolicy, TenantPrefixPolicy, RoleStorageAccessPolicy:  *)
(* they see the key as the caller spelled it.                              *)
Authorized(t, action, key) ==
  enforced => /\ Caller[t].actor # Nobody
              /\ TenantOf(t) # Nobody /\ ~key.slashed /\ InSpace(t, key)
              /\ RolesFor[action] = {} \/ RolesFor[action] \cap Caller[t].roles # {}

Changing(o) ==
  {t \in Uploaders : upload[t].at # "idle" /\ Path(t, upload[t].key) = o}

StorageInit ==
  /\ enforced \in BOOLEAN
  /\ files = [o \in Objects |-> Missing]
  /\ upload = [t \in Uploaders |-> NoUpload]
  /\ changes = 0
  /\ kept = [o \in Objects |-> Missing] /\ unsettled = {} /\ climbed = {}

BeginsChange(t, key, next) ==
  /\ upload[t].at = "idle" /\ changes < MaxChanges
  /\ WithinRoot(Path(t, key))
  /\ changes' = changes + 1
  /\ upload' = [upload EXCEPT ![t] = [at |-> next, key |-> key, linked |-> TRUE]]
  /\ LET o == Path(t, key)
     IN unsettled' = IF Changing(o) = {} THEN unsettled \ {o} ELSE unsettled \cup {o}
  /\ UNCHANGED <<enforced, kept, climbed>>

(* The call is over, and its object holds this if nobody else changes it.  *)
EndsChange(t, content) ==
  /\ kept' = [kept EXCEPT ![Path(t, upload[t].key)] = content]
  /\ UNCHANGED <<enforced, changes, unsettled>>

OpensFile(t, key) ==
  /\ BeginsChange(t, key, "write") /\ Authorized(t, "write", key)
  /\ files' = [files EXCEPT ![Path(t, key)] = Blank]

(* Over a file that another put has written meanwhile, a shorter content   *)
(* leaves the rest of the longer one.  The file may be gone.               *)
WritesFile(t) ==
  /\ upload[t].at = "write"
  /\ upload' = [upload EXCEPT ![t] = NoUpload]
  /\ LET p == Path(t, upload[t].key)
     IN IF upload[t].linked
        THEN /\ \E content \in {t} \cup (IF files[p] = Blank THEN {} ELSE {Mixed}) :
                  files' = [files EXCEPT ![p] = content]
             /\ climbed' = IF Climbs(upload[t].key) THEN climbed \cup {p} ELSE climbed \ {p}
        ELSE UNCHANGED <<files, climbed>>
  /\ EndsChange(t, t)

(* The disk is full, or the thread dies.                                   *)
WriteRaises(t) ==
  /\ upload[t].at = "write"
  /\ upload' = [upload EXCEPT ![t] = NoUpload]
  /\ unsettled' = unsettled \cup {Path(t, upload[t].key)}
  /\ UNCHANGED <<enforced, files, changes, kept, climbed>>

(* Where there is no file, delete returns without a change.                *)
FindsFile(t, key) ==
  /\ BeginsChange(t, key, "unlink") /\ Authorized(t, "delete", key)
  /\ files[Path(t, key)] # Missing
  /\ UNCHANGED files

(* unlink raises if another delete came first.  A put that holds the file  *)
(* open writes on without it.                                              *)
UnlinksFile(t) ==
  /\ upload[t].at = "unlink"
  /\ LET p == Path(t, upload[t].key)
     IN /\ files' = [files EXCEPT ![p] = Missing]
        /\ upload' = [u \in Uploaders |->
             IF u = t THEN NoUpload
             ELSE IF upload[u].at = "write" /\ Path(u, upload[u].key) = p
             THEN [upload[u] EXCEPT !.linked = FALSE] ELSE upload[u]]
  /\ EndsChange(t, Missing) /\ UNCHANGED climbed

StorageNext ==
  \E t \in Uploaders :
    \/ \E key \in Spellings : OpensFile(t, key) \/ FindsFile(t, key)
    \/ WritesFile(t) \/ WriteRaises(t) \/ UnlinksFile(t)

StorageSpec == StorageInit /\ [][StorageNext]_storageVars

StorageTypeOK ==
  /\ enforced \in BOOLEAN /\ changes \in 0..MaxChanges
  /\ files \in [Objects -> Uploaders \cup {Blank, Mixed, Missing}]
  /\ upload \in [Uploaders -> {NoUpload} \cup [at : {"write", "unlink"}, key : Spellings, linked : BOOLEAN]]
  /\ kept \in [Objects -> Uploaders \cup {Missing}] /\ unsettled \subseteq Objects /\ climbed \subseteq Objects

------------------------------------------------------------------------------
(* A file holds what the last change of it left, whatever spellings led    *)
(* there, unless changes overlapped or broke off.  What it holds was       *)
(* written for the tenant in whose space it is, or by a caller without a   *)
(* tenant where no policy forbids it; or by a key with ".." in it, which   *)
(* neither the prefix nor the policies keep in its tenant's space.         *)
ObjectsKept ==
  /\ changes # 0 => \A o \in Objects \ unsettled : Changing(o) = {} => files[o] = kept[o]
  /\ \A o \in Objects \ climbed : files[o] \in Uploaders =>
       TenantOf(files[o]) = o[2] \/ (~enforced /\ TenantOf(files[o]) = Nobody)
=============================================================================
