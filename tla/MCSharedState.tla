--------------------------- MODULE MCSharedState ---------------------------
(***************************************************************************)
(* Instances of SharedState for TLC.  Policies joins it here as one more   *)
(* part: its operators are recursive, and SharedState is proved about.     *)
(***************************************************************************)
EXTENDS SharedState, Policies

MCInit ==
  /\ part \in Parts \cup {"policies"} /\ InitOfEach
  /\ PoliciesInit /\ (part # "policies" => draft = CHOOSE e \in PolicyOperands : TRUE)

MCNext ==
  \/ Next /\ UNCHANGED policyVars
  \/ part = "policies" /\ PoliciesNext /\ UNCHANGED vars

MCSpec == MCInit /\ [][MCNext]_<<vars, policyVars>>

(* A rollout in three stages of a flag for staff first, with a percentage  *)
(* below 0, and of one that is off, begins later and ends; its percentage  *)
(* ends above 100.                                                         *)
MCFlags == {"beta", "dark"}
Flag(enabled, starts, ends, rollout) ==
  [enabled |-> enabled, starts |-> starts, ends |-> ends, rollout |-> rollout,
   actors |-> {}, tenants |-> {}, environments |-> {}, cohorts |-> {}]

MCPlan ==
  <<[beta |-> [Flag(TRUE, 0, 9, -5) EXCEPT !.actors = {"alice"}, !.environments = {"test"},
                                           !.cohorts = {"staff"}],
     dark |-> Flag(FALSE, 1, 2, 50)],
    [beta |-> [Flag(TRUE, 0, 9, 20) EXCEPT !.actors = {"alice"}, !.environments = {"test"},
                                           !.cohorts = {"staff", "friends"}],
     dark |-> Flag(TRUE, 1, 2, 50)],
    [beta |-> [Flag(TRUE, 0, 9, 65) EXCEPT !.actors = {"alice"}, !.tenants = {"acme"}],
     dark |-> Flag(TRUE, 0, 2, 120)]>>

Context(actor, tenant, environment, cohort) ==
  [actor |-> actor, tenant |-> tenant, environment |-> environment, cohort |-> cohort]

MCContexts == {Context("alice", NoValue, NoValue, NoValue),
               Context(NoValue, "globex", "test", "staff")}

MCBucket == [p \in MCFlags \X {"alice", "globex"} |->
               IF p = <<"beta", "globex">> THEN 15 ELSE 60]

(* Two of one tenant, one of another, and an operator without one.         *)
For(tenant, actor, roles) == [tenant |-> tenant, actor |-> actor, roles |-> roles]
MCUploaders == {"editor", "owner", "guest", "operator"}
MCCaller == [editor |-> For("acme", "alice", {"editor"}), owner |-> For("acme", "bob", {"admin"}),
             guest |-> For("globex", "carol", {"admin"}), operator |-> For("nobody", "dave", {"admin"})]
MCSpellings ==
  [slashed : BOOLEAN, parts : {<<"acme", "file">>}]
  \cup [slashed : {FALSE}, parts : {<<"file">>, <<"acme", "..", "globex", "file">>,
                                   <<"..", "globex", "file">>, <<"..", "objects2", "file">>}]
MCRolesFor == [write |-> {}, delete |-> {"admin"}]

(* A reference that may lack a value, a list, a literal, and a root that   *)
(* is unknown.  The numbers of texts: 1 and 2 are roles, 7 and 8 tenants,  *)
(* 9 an actor.                                                             *)
MCPolicyOperands ==
  {Ref(<<"attributes", "level">>), Ref(<<"principal", "roles">>), Literal(Value("text", 1)),
   Ref(<<"other">>)}

PolicyRequest(actor, names, roles, level) ==
  [actor |-> actor, tenant |-> Value("text", 8), names |-> names,
   roles |-> Value("list", roles), level |-> level]

MCPolicyRequests ==
  {PolicyRequest(Value("text", 9), None, 1, None),
   PolicyRequest(Value("text", 9), None, 2, Value("text", 1)),
   PolicyRequest(Value("text", 9), Value("text", 7), 1, Value("num", 1)),
   PolicyRequest(None, None, 0, Value("text", 2))}

(* One who may, and one whom each of the built-in hooks refuses.           *)
MCInputs ==
  {[actor |-> "alice", tenant |-> "acme", owner |-> "acme", permissions |-> {"read", "write"}],
   [actor |-> Nothing, tenant |-> "acme", owner |-> "globex", permissions |-> Nothing]}
=============================================================================
