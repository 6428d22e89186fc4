----------------------------- MODULE Validation -----------------------------
(***************************************************************************)
(* Validation of payloads in application services: ServiceValidationHooks  *)
(* (application/services/validation.py), with one ValidationEngine per     *)
(* stage (core/validation/engine.py).  An engine iterates over its live    *)
(* list of hooks and awaits each: meanwhile hooks may be registered.  The  *)
(* three hooks of core/validation/hooks.py are modelled; all others, and   *)
(* the rules of core/validation/rules.py, are "custom": they find errors   *)
(* and warnings as they like, or raise.  Every hook takes a step, also one *)
(* that never suspends; without that step there are only fewer orders.     *)
(***************************************************************************)
EXTENDS Integers, Sequences

CONSTANTS
  Validators,   \* calls of a validating method
  Inputs,       \* payloads with their ValidationContext
  Required,     \* the permissions PermissionSecurityHook asks for
  Nothing,      \* stands for None
  MaxHooks      \* bound: hooks of a stage

ASSUME ValidationAssumption == Inputs # {} /\ MaxHooks \in Nat

VARIABLES
  hooks,        \* the list of hooks of each stage's engine
  validation    \* each call: where it is and what was found in its stage

validationVars == <<hooks, validation>>

Engines == {"business", "security"}
Asked == {{"business"}, {"security"}, Engines}   \* what each of the three methods does
HookKinds == {"tenant_scope", "actor", "permission", "custom"}

(* Permissions that are neither a text nor a collection grant nothing.     *)
Granted(x) == IF x.permissions = Nothing THEN {} ELSE x.permissions

Accepts(h, x) ==
  /\ h = "tenant_scope" => x.owner = x.tenant \/ Nothing \in {x.owner, x.tenant}
  /\ h = "actor" => x.actor # Nothing
  /\ h = "permission" => Required \subseteq Granted(x)

(* The severities that a hook may find.                                    *)
Findings(h, x) ==
  IF h = "custom" THEN SUBSET {"error", "warning"}
  ELSE {IF Accepts(h, x) THEN {} ELSE {"error"}}

(* mutated form: any issue ends the stage, warnings too                    *)
StopsAtWarnings(c) == c.stop /\ c.errors \cup c.warnings # {}

StopsHere(c) == c.stop /\ c.errors # {}

Exhausted(c) == c.k > Len(hooks[c.stage])

(* What follows a hook's return, or the call, up to the next hook: a valid *)
(* business stage is followed by the security stage, if that was asked for *)
(* too.                                                                    *)
EntersSecurity(c) ==
  LET d == [c EXCEPT !.stage = "security", !.k = 1, !.warnings = {}]
  IN IF Exhausted(d) THEN [d EXCEPT !.at = "passed"] ELSE d

Continued(c) ==
  IF ~Exhausted(c) /\ ~StopsHere(c) THEN c
  ELSE IF c.errors # {} THEN [c EXCEPT !.at = "refused"]
  ELSE IF c.stage = "business" /\ "security" \in c.asked THEN EntersSecurity(c)
  ELSE [c EXCEPT !.at = "passed"]

NoInput == CHOOSE x \in Inputs : TRUE
NoValidation ==
  [at |-> "new", input |-> NoInput, asked |-> {}, stop |-> FALSE, stage |-> "business", k |-> 1,
   errors |-> {}, warnings |-> {}, upto |-> [s \in Engines |-> 0],
   cleared |-> [s \in Engines |-> {}]]

ValidationInit ==
  /\ hooks = [s \in Engines |-> <<>>]
  /\ validation = [v \in Validators |-> NoValidation]

HookRegistered(s, h) ==
  /\ Len(hooks[s]) < MaxHooks
  /\ hooks' = [hooks EXCEPT ![s] = Append(@, h)]
  /\ UNCHANGED validation

(* validate_business, validate_security, or validate_or_raise, which does  *)
(* both.  `upto` and `cleared` are history: how many hooks there were, and *)
(* which were awaited and found no error.                                  *)
Validate(v, x, which, stop) ==
  /\ validation[v].at = "new"
  /\ validation' = [validation EXCEPT ![v] =
       Continued([NoValidation EXCEPT !.at = "running", !.input = x, !.asked = which, !.stop = stop,
                                !.stage = IF "business" \in which THEN "business" ELSE "security",
                                !.upto = [s \in Engines |-> Len(hooks[s])]])]
  /\ UNCHANGED hooks

HookFinds(v, found) ==
  LET c == validation[v] IN
  /\ c.at = "running"
  /\ found \in Findings(hooks[c.stage][c.k], c.input)
  /\ validation' = [validation EXCEPT ![v] = Continued(
       [c EXCEPT !.k = c.k + 1,
                 !.errors = IF "error" \in found THEN c.errors \cup {c.k} ELSE c.errors,
                 !.warnings = IF "warning" \in found THEN c.warnings \cup {c.k} ELSE c.warnings,
                 !.cleared = IF "error" \in found THEN c.cleared
                             ELSE [c.cleared EXCEPT ![c.stage] = @ \cup {c.k}]])]
  /\ UNCHANGED hooks

HookRaises(v) ==
  /\ validation[v].at = "running"
  /\ hooks[validation[v].stage][validation[v].k] = "custom"
  /\ validation' = [validation EXCEPT ![v].at = "raised"]
  /\ UNCHANGED hooks

ValidationNext ==
  \/ \E s \in Engines, h \in HookKinds : HookRegistered(s, h)
  \/ \E v \in Validators :
       \/ \E x \in Inputs, which \in Asked, stop \in BOOLEAN :
            Validate(v, x, which, stop)
       \/ \E found \in SUBSET {"error", "warning"} : HookFinds(v, found)
       \/ HookRaises(v)

ValidationSpec == ValidationInit /\ [][ValidationNext]_validationVars

HookIndexes == 1..MaxHooks

ValidationTypeOK ==
  /\ hooks \in [Engines -> Seq(HookKinds)]
  /\ \A v \in Validators : LET c == validation[v] IN
       /\ c.at \in {"new", "running", "passed", "refused", "raised"}
       /\ c.input \in Inputs /\ c.asked \subseteq Engines /\ c.stop \in BOOLEAN
       /\ c.stage \in Engines /\ c.k \in 1..(MaxHooks + 1)
       /\ c.errors \subseteq HookIndexes /\ c.warnings \subseteq HookIndexes
       /\ \A s \in Engines : c.upto[s] \in 0..MaxHooks /\ c.cleared[s] \subseteq HookIndexes

------------------------------------------------------------------------------
(* A payload that passed was before every hook that its stages had when    *)
(* its validation began, and none of them found an error -- so it is of    *)
(* the caller's tenant, the caller is authenticated, and has the required  *)
(* permissions, if a hook that looks at it was there -- whatever warnings  *)
(* were found on the way and whatever was registered meanwhile.            *)
PassedIsAllowed ==
  \A v \in Validators : LET c == validation[v] IN
    c.at = "passed" =>
      \A s \in c.asked : \A i \in 1..c.upto[s] : i \in c.cleared[s] /\ Accepts(hooks[s][i], c.input)

(* A refusal names an error, of the stage it ended in: with                *)
(* stop_on_first_error just one, after which no hook was asked; without,   *)
(* the errors of all hooks of that stage.  No security hook is asked about *)
(* a payload that a business hook refused.                                 *)
RefusalIsExact ==
  \A v \in Validators : LET c == validation[v] IN
    /\ c.at = "refused" =>
         /\ c.errors # {}
         /\ c.stop => \E i \in c.errors : /\ c.errors = {i}
                                          /\ c.cleared[c.stage] \cup c.warnings \subseteq 1..i
         /\ ~c.stop => 1..c.upto[c.stage] \subseteq c.errors \cup c.cleared[c.stage]
    /\ c.at # "new" /\ "business" \in c.asked /\ (c.cleared["security"] # {} \/ c.stage = "security") =>
         1..c.upto["business"] \subseteq c.cleared["business"]

(* A validation ends with the verdict that its hooks give.                 *)
ValidationExact == PassedIsAllowed /\ RefusalIsExact
=============================================================================
