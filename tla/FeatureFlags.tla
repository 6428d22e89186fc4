---------------------------- MODULE FeatureFlags ----------------------------
(***************************************************************************)
(* FeatureFlagService (core/feature_flags.py) while definitions are rolled *)
(* out in stages: threads reload them from Redis, which clears all flags   *)
(* and registers the new ones one by one, and others evaluate.             *)
(***************************************************************************)
EXTENDS Integers, FiniteSets, FiniteSetsExt

CONSTANTS
  Flags, Contexts,   \* Contexts: who evaluates, a record of four attributes
  NoValue,           \* an attribute that is None
  Plan,              \* Plan[i][f]: the definition of f in the i-th stage
  Stages,
  Broken,            \* stages with a definition that register refuses, too
  Bucket,            \* _rollout_bucket of a flag and a subject
  Loaders, NoLoader, \* threads that reload
  MaxClock

(* A later stage takes nothing back, except by ends_at.                    *)
Widens(d, e) ==
  /\ d.enabled => e.enabled
  /\ e.starts <= d.starts /\ e.ends = d.ends
  /\ d.rollout <= e.rollout
  /\ d.actors \subseteq e.actors /\ d.tenants \subseteq e.tenants
  /\ e.environments = {} \/ (d.environments # {} /\ d.environments \subseteq e.environments)
  /\ e.cohorts = {} \/ (d.cohorts # {} /\ d.cohorts \subseteq e.cohorts)

ASSUME PlanAssumption ==
  \A i, j \in 1..Stages, f \in Flags : i <= j => Widens(Plan[i][f], Plan[j][f])

ASSUME FlagsAssumption ==
  /\ Stages \in Nat \ {0} /\ MaxClock \in Nat /\ NoLoader \notin Loaders
  /\ \A i \in 1..Stages, f \in Flags : Plan[i][f].starts \in Int /\ Plan[i][f].rollout \in Int

VARIABLES
  stage,     \* the stage of the definitions in Redis
  flags,     \* the stage of a flag's registered definition; 0 if it has none
  loading,   \* what a reload still has to do
  clock,
  alone,     \* history: the loader whose reload overlaps nothing so far
  whole,     \* history: the flags are what one reload left, and no other disturbed
  served     \* history: flags answered on, and to whom, while whole

flagVars == <<stage, flags, loading, clock, alone, whole, served>>

Idle == [at |-> "idle", stage |-> 0, left |-> {}]

FlagsInit ==
  /\ stage = 1 /\ clock = 0
  /\ flags = [f \in Flags |-> 0]
  /\ loading = [t \in Loaders |-> Idle]
  /\ alone = NoLoader /\ whole = TRUE /\ served = {}

(* save_definitions_to_redis_json, by whoever administers the rollout.     *)
PlanAdvances ==
  /\ stage < Stages /\ stage' = stage + 1
  /\ UNCHANGED <<flags, loading, clock, alone, whole, served>>

FlagTick ==
  /\ clock < MaxClock /\ clock' = clock + 1
  /\ UNCHANGED <<stage, flags, loading, alone, whole, served>>

------------------------------------------------------------------------------
(* reload(load_definitions_from_redis_json()), a dict operation a step.    *)

(* A key that is not there, or was lost, reads as an empty list.           *)
Loads(t) ==
  /\ loading[t] = Idle
  /\ \E found \in {stage, 0} :
       loading' = [loading EXCEPT ![t] = [at |-> "loaded", stage |-> found,
                                          left |-> IF found = 0 THEN {} ELSE Flags]]
  /\ alone' = IF \A s \in Loaders : loading[s] = Idle THEN t ELSE NoLoader
  /\ UNCHANGED <<stage, flags, clock, whole, served>>

Clears(t) ==
  /\ loading[t].at = "loaded"
  /\ flags' = [f \in Flags |-> 0]
  /\ loading' = [loading EXCEPT ![t].at = "cleared"]
  /\ whole' = FALSE
  /\ UNCHANGED <<stage, clock, alone, served>>

RegistersNext(t) ==
  /\ loading[t].at = "cleared"
  /\ \E f \in loading[t].left :
       /\ flags' = [flags EXCEPT ![f] = loading[t].stage]
       /\ loading' = [loading EXCEPT ![t].left = @ \ {f}]
  /\ UNCHANGED <<stage, clock, alone, whole, served>>

ReloadEnds(t) ==
  /\ loading[t].at = "cleared" /\ loading[t].left = {} /\ loading[t].stage \notin Broken
  /\ loading' = [loading EXCEPT ![t] = Idle]
  /\ whole' = (alone = t /\ loading[t].stage # 0)
  /\ UNCHANGED <<stage, flags, clock, alone, served>>

(* A blank key raises; what was registered before it stays.                *)
ReloadRaises(t) ==
  /\ loading[t].at = "cleared" /\ loading[t].stage \in Broken
  /\ loading' = [loading EXCEPT ![t] = Idle]
  /\ UNCHANGED <<stage, flags, clock, alone, whole, served>>

(* register, for one flag, with its definition of the present stage.       *)
RegistersOne(f) ==
  /\ flags' = [flags EXCEPT ![f] = stage]
  /\ alone' = NoLoader
  /\ UNCHANGED <<stage, loading, clock, whole, served>>

------------------------------------------------------------------------------
(* evaluate.  It reads the dict once; evaluate_many evaluates flag after   *)
(* flag.                                                                   *)

Subject(c) ==
  IF c.actor # NoValue THEN c.actor ELSE IF c.tenant # NoValue THEN c.tenant ELSE "anonymous"

ASSUME BucketAssumption == \A f \in Flags, c \in Contexts : Bucket[<<f, Subject(c)>>] \in 0..99

(* mutated form: the percentage is hashed into the bucket, too             *)
InRolloutRehashed(d, f, c) ==
  LET rollout == Max({0, Min({100, d.rollout})})
  IN (Bucket[<<f, Subject(c)>>] * rollout) % 100 < rollout

InRollout(d, f, c) == Bucket[<<f, Subject(c)>>] < Max({0, Min({100, d.rollout})})

Admits(allowed, value) == allowed = {} \/ value \in allowed

Running(d) == d.starts <= clock /\ clock < d.ends

On(f, c) ==
  /\ flags[f] # 0
  /\ LET d == Plan[flags[f]][f]
     IN /\ d.enabled /\ Running(d)
        /\ \/ c.actor \in d.actors
           \/ c.tenant \in d.tenants
           \/ /\ Admits(d.environments, c.environment) /\ Admits(d.cohorts, c.cohort)
              /\ InRollout(d, f, c)

Evaluate(f, c) ==
  /\ whole /\ On(f, c)
  /\ served' = served \cup {<<f, c>>}
  /\ UNCHANGED <<stage, flags, loading, clock, alone, whole>>

FlagsNext ==
  \/ PlanAdvances \/ FlagTick
  \/ \E t \in Loaders : \/ Loads(t) \/ Clears(t) \/ RegistersNext(t)
                        \/ ReloadEnds(t) \/ ReloadRaises(t)
  \/ \E f \in Flags : RegistersOne(f) \/ \E c \in Contexts : Evaluate(f, c)

------------------------------------------------------------------------------
FlagsSpec == FlagsInit /\ [][FlagsNext]_flagVars

FlagsTypeOK ==
  /\ stage \in 1..Stages /\ flags \in [Flags -> 0..Stages] /\ clock \in 0..MaxClock
  /\ loading \in [Loaders -> [at: {"idle", "loaded", "cleared"}, stage: 0..Stages,
                              left: SUBSET Flags]]
  /\ alone \in Loaders \cup {NoLoader} /\ whole \in BOOLEAN
  /\ served \subseteq Flags \X Contexts

(* While a rollout only widens, who was once answered that a flag is on is *)
(* answered so ever after, until the flag ends, whichever stage each       *)
(* reload caught.  The exceptions are evaluations while a reload has       *)
(* cleared the flags, or after one that raised, found no definitions in    *)
(* Redis, or overlapped another or a register, up to the end of the next   *)
(* that does none of these.                                                *)
OnceOnStaysOn ==
  \A f \in Flags, c \in Contexts :
    <<f, c>> \in served /\ whole /\ clock < Plan[1][f].ends => On(f, c)
=============================================================================
