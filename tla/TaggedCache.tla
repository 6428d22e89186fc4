---------------------------- MODULE TaggedCache ----------------------------
(***************************************************************************)
(* AdvancedCacheProvider (tags, prefixes) over TenantScopedCacheProvider   *)
(* over a provider whose entries expire, used by requests of several       *)
(* tenants on one event loop.  The entries are per tenant, the indexes of  *)
(* keys and tags are not.                                                  *)
(***************************************************************************)
EXTENDS Integers, FiniteSets

CONSTANTS
  Scopes,      \* tenants (or the context without one)
  Keys, Tags,
  Prefixed,    \* keys that start with the prefix somebody invalidates
  Expiring,    \* keys that are sometimes written with a ttl
  Ttl,         \* ticks an entry written with a ttl lives
  NoScope      \* "no invalidation just now"

ASSUME CacheAssumption == Prefixed \cup Expiring \subseteq Keys /\ Ttl \in Nat \ {0}

VARIABLES
  entry,     \* the delegate's entry under a scope's key
  known,     \* _known_keys
  tagged,    \* _tags_to_keys
  tagsOf,    \* _keys_to_tags
  written,   \* history: the tags a scope last wrote its entry with
  strayed,   \* history: entries the indexes may have lost, by what others did
  last       \* history: the invalidation just made, and what was live before

cacheVars == <<entry, known, tagged, tagsOf, written, strayed, last>>

Gone == -1
Lasting == -2    \* an entry without a ttl; 0 is one that expired and is still held
PREFIX == "prefix"

ASSUME TagsAssumption == PREFIX \notin Tags

NoneMade == [by |-> NoScope, of |-> PREFIX, live |-> {}]

CacheInit ==
  /\ entry = [s \in Scopes |-> [k \in Keys |-> Gone]]
  /\ known = {}
  /\ tagged = [g \in Tags |-> {}] /\ tagsOf = [k \in Keys |-> {}]
  /\ written = [s \in Scopes |-> [k \in Keys |-> {}]]
  /\ strayed = {}
  /\ last = NoneMade

Live(s) == {k \in Keys : entry[s][k] \notin {Gone, 0}}
Others(s, K) == {e \in (Scopes \ {s}) \X K : e[2] \in Live(e[1])}

(* mutated form: the tags' sets keep the keys                              *)
DetachedHalf(K) == /\ tagsOf' = [k \in Keys |-> IF k \in K THEN {} ELSE tagsOf[k]]
                   /\ UNCHANGED tagged

(* _detach_key_from_tags, for each key of K.  set_with_tags detaches its   *)
(* key, then gives it the tags G.                                          *)
Detached(K) == /\ tagged' = [g \in Tags |-> tagged[g] \ K]
               /\ tagsOf' = [k \in Keys |-> IF k \in K THEN {} ELSE tagsOf[k]]

(* mutated form: the key keeps its earlier tags                            *)
RetaggedToo(k, G) == /\ tagged' = [g \in Tags |-> IF g \in G THEN tagged[g] \cup {k} ELSE tagged[g]]
                     /\ tagsOf' = [tagsOf EXCEPT ![k] = @ \cup G]

Retagged(k, G) == /\ tagged' = [g \in Tags |-> IF g \in G THEN tagged[g] \cup {k} ELSE tagged[g] \ {k}]
                  /\ tagsOf' = [tagsOf EXCEPT ![k] = G]

SetWithTags(s, k, G, ttl) ==
  /\ known' = known \cup {k}
  /\ Retagged(k, G)
  /\ entry' = [entry EXCEPT ![s][k] = ttl]
  /\ written' = [written EXCEPT ![s][k] = G]
  /\ strayed' = (strayed \ {<<s, k>>}) \cup Others(s, {k})
  /\ last' = NoneMade

(* The delegate raises: the key has been detached, its entry is the old.   *)
SetRaises(s, k) ==
  /\ known' = known \cup {k}
  /\ Detached({k})
  /\ strayed' = strayed \cup Others(s, {k}) \cup {<<s, k>>}
  /\ last' = NoneMade
  /\ UNCHANGED <<entry, written>>

(* delete of each of K; the indexes forget those the delegate still held.  *)
Deletes(s, K) ==
  LET held == {k \in K : entry[s][k] # Gone}
  IN /\ entry' = [entry EXCEPT ![s] = [k \in Keys |-> IF k \in K THEN Gone ELSE @[k]]]
     /\ known' = known \ held
     /\ Detached(held)
     /\ strayed' = strayed \cup Others(s, held)
     /\ UNCHANGED written

Delete(s, k) == Deletes(s, {k}) /\ last' = NoneMade

InvalidateTag(s, g) ==
  /\ Deletes(s, tagged[g])
  /\ last' = [by |-> s, of |-> g, live |-> Live(s)]

InvalidatePrefix(s) ==
  /\ Deletes(s, known \cap Prefixed)
  /\ last' = [by |-> s, of |-> PREFIX, live |-> Live(s)]

(* A memory entry is dropped when get finds it expired, a Redis one at     *)
(* once.                                                                   *)
Drops(s, k) ==
  /\ entry[s][k] = 0
  /\ entry' = [entry EXCEPT ![s][k] = Gone]
  /\ last' = NoneMade
  /\ UNCHANGED <<known, tagged, tagsOf, written, strayed>>

CacheTick ==
  /\ entry' = [s \in Scopes |-> [k \in Keys |-> IF entry[s][k] > 0 THEN entry[s][k] - 1 ELSE entry[s][k]]]
  /\ last' = NoneMade
  /\ UNCHANGED <<known, tagged, tagsOf, written, strayed>>

CacheNext ==
  \/ \E s \in Scopes, k \in Keys :
       \/ \E G \in SUBSET Tags, ttl \in {Lasting} \cup (IF k \in Expiring THEN {Ttl} ELSE {}) :
            SetWithTags(s, k, G, ttl)
       \/ SetRaises(s, k) \/ Delete(s, k) \/ Drops(s, k)
  \/ \E s \in Scopes : InvalidatePrefix(s) \/ \E g \in Tags : InvalidateTag(s, g)
  \/ CacheTick

CacheSpec == CacheInit /\ [][CacheNext]_cacheVars

CacheTypeOK ==
  /\ entry \in [Scopes -> [Keys -> {Gone, Lasting} \cup 0..Ttl]]
  /\ known \subseteq Keys
  /\ \A g \in Tags, k \in Keys : k \in tagged[g] <=> g \in tagsOf[k]
  /\ strayed \subseteq Scopes \X Keys

------------------------------------------------------------------------------
Concerned(s, k) == IF last.of = PREFIX THEN k \in Prefixed ELSE last.of \in written[s][k]

(* An invalidation removes exactly the caller's live entries that carry    *)
(* the tag (the prefix) -- except where, since an entry was written,       *)
(* another tenant wrote or deleted the same key, or an overwrite raised.   *)
InvalidationExact ==
  last # NoneMade =>
    \A k \in last.live : <<last.by, k>> \in strayed \/ (k \in Live(last.by) <=> ~Concerned(last.by, k))
=============================================================================
