---------------------------- MODULE SharedState ----------------------------
(***************************************************************************)
(* Components of the SDK that share nothing with each other, one at a      *)
(* time: a behaviour is a behaviour of one of them.                        *)
(***************************************************************************)
EXTENDS Paging, Repositories, TaggedCache, Presence, FeatureFlags, EventBus, DevRunner, Storage,
        Middlewares, Lifespan, Validation

VARIABLE part    \* the component this behaviour is about

vars == <<pagingVars, repoVars, cacheVars, presenceVars, flagVars, busVars, runnerVars,
          storageVars, stackVars, lifespanVars, validationVars, part>>

Parts == {"paging", "repository", "cache", "presence", "flags", "events", "runner", "storage",
          "layers", "lifespan", "validation"}

(* A component that stays out starts in one of its initial states.         *)
InitOfEach ==
  /\ PagingInit /\ (part # "paging" => Present = {} /\ walk.store = "memory")
  /\ RepoInit /\ (part # "repository" => backend = "memory")
  /\ CacheInit /\ PresenceInit /\ FlagsInit /\ RunnerInit
  /\ BusInit /\ (part # "events" => bus = "memory")
  /\ StorageInit /\ (part # "storage" => enforced)
  /\ StackInit /\ (part # "layers" => layers = Layers)
  /\ LifespanInit /\ ValidationInit

Init == part \in Parts /\ InitOfEach

Next ==
  /\ UNCHANGED part
  /\ \/ /\ part = "paging" /\ PagingNext
        /\ UNCHANGED <<repoVars, cacheVars, presenceVars, flagVars, busVars,
                       runnerVars, storageVars, stackVars, lifespanVars, validationVars>>
     \/ /\ part = "repository" /\ RepoNext
        /\ UNCHANGED <<pagingVars, cacheVars, presenceVars, flagVars, busVars,
                       runnerVars, storageVars, stackVars, lifespanVars, validationVars>>
     \/ /\ part = "cache" /\ CacheNext
        /\ UNCHANGED <<pagingVars, repoVars, presenceVars, flagVars, busVars,
                       runnerVars, storageVars, stackVars, lifespanVars, validationVars>>
     \/ /\ part = "presence" /\ PresenceNext
        /\ UNCHANGED <<pagingVars, repoVars, cacheVars, flagVars, busVars,
                       runnerVars, storageVars, stackVars, lifespanVars, validationVars>>
     \/ /\ part = "flags" /\ FlagsNext
        /\ UNCHANGED <<pagingVars, repoVars, cacheVars, presenceVars, busVars,
                       runnerVars, storageVars, stackVars, lifespanVars, validationVars>>
     \/ /\ part = "events" /\ BusNext
        /\ UNCHANGED <<pagingVars, repoVars, cacheVars, presenceVars, flagVars,
                       runnerVars, storageVars, stackVars, lifespanVars, validationVars>>
     \/ /\ part = "runner" /\ RunnerNext
        /\ UNCHANGED <<pagingVars, repoVars, cacheVars, presenceVars, flagVars,
                       busVars, storageVars, stackVars, lifespanVars, validationVars>>
     \/ /\ part = "storage" /\ StorageNext
        /\ UNCHANGED <<pagingVars, repoVars, cacheVars, presenceVars, flagVars,
                       busVars, runnerVars, stackVars, lifespanVars, validationVars>>
     \/ /\ part = "layers" /\ StackNext
        /\ UNCHANGED <<pagingVars, repoVars, cacheVars, presenceVars, flagVars,
                       busVars, runnerVars, storageVars, lifespanVars, validationVars>>
     \/ /\ part = "lifespan" /\ LifespanNext
        /\ UNCHANGED <<pagingVars, repoVars, cacheVars, presenceVars, flagVars,
                       busVars, runnerVars, storageVars, stackVars, validationVars>>
     \/ /\ part = "validation" /\ ValidationNext
        /\ UNCHANGED <<pagingVars, repoVars, cacheVars, presenceVars, flagVars,
                       busVars, runnerVars, storageVars, stackVars, lifespanVars>>

Spec == Init /\ [][Next]_vars

TypeOK ==
  /\ part = "paging" => PagingTypeOK
  /\ part = "repository" => RepoTypeOK
  /\ part = "cache" => CacheTypeOK
  /\ part = "presence" => PresenceTypeOK
  /\ part = "flags" => FlagsTypeOK
  /\ part = "events" => BusTypeOK
  /\ part = "runner" => RunnerTypeOK
  /\ part = "storage" => StorageTypeOK
  /\ part = "layers" => StackTypeOK
  /\ part = "lifespan" => LifespanTypeOK
  /\ part = "validation" => ValidationTypeOK
=============================================================================
