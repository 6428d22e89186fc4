------------------------------ MODULE Policies ------------------------------
(***************************************************************************)
(* Access policies: the expression language (core/policy_dsl), the engine  *)
(* that decides a request by them (core/abac.py) and the role check        *)
(* (core/security.py).  A text is a sequence of tokens, as _lex leaves it; *)
(* a tree is a tuple that begins with its kind of node.                    *)
(***************************************************************************)
EXTENDS Integers, Sequences, SequencesExt

CONSTANTS
  PolicyOperands,   \* the references and literals that policies are made of
  Comparisons,      \* the comparison operators they use
  PolicyRequests,   \* requests to a route with policies
  RequiredRoles,    \* roles of which the route requires one, if any
  MaxOperators      \* bound: operators in a policy

VARIABLES
  draft,    \* external: the policy as its author means it, a tree
  slip,     \* external: whether a token was lost in writing it down
  words,    \* external: the text of the policy
  policy,   \* the tree registered for the text; Unread; or Refused
  answer    \* history: the last request and what became of it

policyVars == <<draft, slip, words, policy, answer>>

(* Python's values, each by a number: a text is one letter, so that one is *)
(* in another only if they are equal, and a list is empty (0) or holds one *)
(* letter.                                                                 *)
Value(type, of) == [type |-> type, of |-> of]
None == Value("none", 0)
Error == Value("error", 0)
PyBool(b) == Value("bool", IF b THEN 1 ELSE 0)

Unread == <<"unread">>
Refused == <<"refused">>

Literal(value) == <<"literal", value>>
Ref(parts) == <<"ref", parts>>

------------------------------------------------------------------------------
(* _Parser.  An operator reads the tokens from a position on; its value is *)
(* the tree read and the position after it, or Failed.                     *)

Parsed(tree, next) == [tree |-> tree, next |-> next]
Failed == Parsed(Refused, 0)
Peek(ts, i) == IF i <= Len(ts) THEN ts[i][1] ELSE "EOF"
Then(first, Rest(_)) == IF first = Failed THEN Failed ELSE Rest(first)

RECURSIVE ParseOr(_, _), OrsAfter(_, _), AndsAfter(_, _), ParseNot(_, _), DotsAfter(_, _, _)

DotsAfter(ts, parts, i) ==
  IF Peek(ts, i) # "." THEN Parsed(Ref(parts), i)
  ELSE IF Peek(ts, i + 1) # "IDENT" THEN Failed
  ELSE DotsAfter(ts, Append(parts, ts[i + 1][2]), i + 2)

ParsePrimary(ts, i) ==
  CASE Peek(ts, i) = "("       -> Then(ParseOr(ts, i + 1), LAMBDA inner :
                                    IF Peek(ts, inner.next) = ")"
                                    THEN Parsed(inner.tree, inner.next + 1) ELSE Failed)
    [] Peek(ts, i) = "LITERAL" -> Parsed(Literal(ts[i][2]), i + 1)
    [] Peek(ts, i) = "IDENT"   -> DotsAfter(ts, <<ts[i][2]>>, i + 1)
    [] OTHER                   -> Failed

ComparisonTokens == {"==", "!=", "<", ">", "<=", ">=", "in"}

Compared(ts, op, left, i) ==
  Then(ParsePrimary(ts, i), LAMBDA right : Parsed(<<op, left.tree, right.tree>>, right.next))

ParseComparison(ts, i) ==
  Then(ParsePrimary(ts, i), LAMBDA left :
    LET op == Peek(ts, left.next)
    IN CASE op \in ComparisonTokens -> Compared(ts, op, left, left.next + 1)
         [] op = "not" /\ Peek(ts, left.next + 1) = "in"
                                    -> Compared(ts, "not_in", left, left.next + 2)
         [] OTHER                   -> left)

(* mutated form: not applies to the operand, not to the comparison         *)
ParseNotTight(ts, i) ==
  IF Peek(ts, i) = "not"
  THEN Then(ParsePrimary(ts, i + 1), LAMBDA operand :
         Parsed(<<"not", operand.tree>>, operand.next))
  ELSE ParseComparison(ts, i)

ParseNot(ts, i) ==
  IF Peek(ts, i) = "not"
  THEN Then(ParseNot(ts, i + 1), LAMBDA operand : Parsed(<<"not", operand.tree>>, operand.next))
  ELSE ParseComparison(ts, i)

AndsAfter(ts, left) ==
  IF left = Failed \/ Peek(ts, left.next) # "and" THEN left
  ELSE AndsAfter(ts, Then(ParseNot(ts, left.next + 1), LAMBDA right :
                       Parsed(<<"and", left.tree, right.tree>>, right.next)))

ParseAnd(ts, i) == AndsAfter(ts, ParseNot(ts, i))

OrsAfter(ts, left) ==
  IF left = Failed \/ Peek(ts, left.next) # "or" THEN left
  ELSE OrsAfter(ts, Then(ParseAnd(ts, left.next + 1), LAMBDA right :
                      Parsed(<<"or", left.tree, right.tree>>, right.next)))

ParseOr(ts, i) == OrsAfter(ts, ParseAnd(ts, i))

(* parse_expr; anything after the expression is an error.                  *)
Parse(ts) ==
  LET all == ParseOr(ts, 1)
  IN IF all = Failed \/ Peek(ts, all.next) # "EOF" THEN Refused ELSE all.tree

------------------------------------------------------------------------------
(* eval_expr.  Error is an exception: of an unknown root, or Python's own  *)
(* for values it cannot compare.                                           *)

Truthy(v) == v.type = "text" \/ v.of # 0
Numeric(v) == v.type \in {"bool", "num"}
Alike(v, w) == v.type = w.type \/ (Numeric(v) /\ Numeric(w))
Equal(v, w) == Alike(v, w) /\ v.of = w.of

Ordered(v, w, holds) ==
  IF Alike(v, w) /\ v.type # "none" THEN PyBool(holds) ELSE Error

(* left in right                                                           *)
IsIn(v, w) ==
  CASE w.type = "list"                     -> PyBool(v.type = "text" /\ v.of = w.of)
    [] w.type = "text" /\ v.type = "text"  -> PyBool(v.of = w.of)
    [] OTHER                               -> Error

Negated(v) == IF v = Error THEN Error ELSE PyBool(~Truthy(v))

Compare(op, v, w) ==
  IF Error \in {v, w} THEN Error
  ELSE CASE op = "=="     -> PyBool(Equal(v, w))
         [] op = "!="     -> PyBool(~Equal(v, w))
         [] op = "<"      -> Ordered(v, w, v.of < w.of)
         [] op = ">"      -> Ordered(v, w, v.of > w.of)
         [] op = "<="     -> Ordered(v, w, v.of <= w.of)
         [] op = ">="     -> Ordered(v, w, v.of >= w.of)
         [] op = "in"     -> IsIn(v, w)
         [] op = "not_in" -> Negated(IsIn(v, w))

(* attributes_from_request, and the tenant that require_policies adds when *)
(* the request names none.                                                 *)
Attributes(q) ==
  [level |-> q.level, resource_tenant_id |-> IF q.names = None THEN q.tenant ELSE q.names]
Principal(q) == [actor_id |-> q.actor, tenant_id |-> q.tenant, roles |-> q.roles]

Lookup(fields, parts) ==
  IF Len(parts) = 2 /\ parts[2] \in DOMAIN fields THEN fields[parts[2]] ELSE None

Resolve(parts, q) ==
  CASE Head(parts) = "principal"  -> Lookup(Principal(q), parts)
    [] Head(parts) = "attributes" -> Lookup(Attributes(q), parts)
    [] OTHER                      -> Error

RECURSIVE Eval(_, _)
Eval(e, q) ==
  CASE e[1] = "literal" -> e[2]
    [] e[1] = "ref"     -> Resolve(e[2], q)
    [] e[1] = "not"     -> Negated(Eval(e[2], q))
    [] e[1] = "and"     -> LET left == Eval(e[2], q)
                           IN CASE left = Error -> Error
                                [] Truthy(left) -> Eval(e[3], q)
                                [] OTHER        -> PyBool(FALSE)
    [] e[1] = "or"      -> LET left == Eval(e[2], q)
                           IN CASE left = Error -> Error
                                [] Truthy(left) -> PyBool(TRUE)
                                [] OTHER        -> Eval(e[3], q)
    [] OTHER            -> Compare(e[1], Eval(e[2], q), Eval(e[3], q))

------------------------------------------------------------------------------
(* The policies of the route, in the order the engine evaluates them all;  *)
(* an exception of one ends the request.                                   *)
ActorPresent(q) == PyBool(q.actor # None)
TenantMatch(q) == PyBool(q.tenant # None /\ Attributes(q).resource_tenant_id = q.tenant)

Verdicts(e, q) == {ActorPresent(q), TenantMatch(q), Eval(e, q)}

(* assert_roles                                                            *)
HasRole(q) == RequiredRoles = {} \/ q.roles.of \in RequiredRoles

Decision(e, q) ==
  IF ~HasRole(q) THEN "forbidden"
  ELSE IF Error \in Verdicts(e, q) THEN "error"
  ELSE IF \A v \in Verdicts(e, q) : Truthy(v) THEN "handled" ELSE "forbidden"

------------------------------------------------------------------------------
(* The author, who writes a policy down with no more parentheses than it   *)
(* needs and at most one token missing.                                    *)

Level(e) == CASE e[1] = "or" -> 1 [] e[1] = "and" -> 2 [] e[1] = "not" -> 3
              [] e[1] \in {"literal", "ref"} -> 5 [] OTHER -> 4

Dotted(parts) ==
  <<<<"IDENT", parts[1]>>>> \o IF Len(parts) = 1 THEN <<>> ELSE <<<<".">>, <<"IDENT", parts[2]>>>>
OperatorTokens(op) == IF op = "not_in" THEN <<<<"not">>, <<"in">>>> ELSE <<<<op>>>>

(* e where an operand of this level or a higher one is expected.           *)
RECURSIVE Text(_, _)
Text(e, level) ==
  LET text == CASE e[1] = "literal" -> <<<<"LITERAL", e[2]>>>>
                [] e[1] = "ref"     -> Dotted(e[2])
                [] e[1] = "not"     -> <<<<"not">>>> \o Text(e[2], 3)
                [] e[1] = "or"      -> Text(e[2], 1) \o <<<<"or">>>> \o Text(e[3], 2)
                [] e[1] = "and"     -> Text(e[2], 2) \o <<<<"and">>>> \o Text(e[3], 3)
                [] OTHER            -> Text(e[2], 5) \o OperatorTokens(e[1]) \o Text(e[3], 5)
  IN IF Level(e) < level THEN <<<<"(">>>> \o text \o <<<<")">>>> ELSE text

RECURSIVE Size(_)
Size(e) == CASE e[1] \in {"literal", "ref"} -> 0
             [] e[1] = "not"               -> 1 + Size(e[2])
             [] OTHER                      -> 1 + Size(e[2]) + Size(e[3])

PoliciesInit ==
  /\ draft \in PolicyOperands
  /\ words = Text(draft, 1) /\ slip = FALSE
  /\ policy = Unread /\ answer = <<>>

Grows ==
  /\ policy = Unread /\ ~slip /\ Size(draft) < MaxOperators
  /\ \/ draft' = <<"not", draft>>
     \/ \E op \in {"or", "and"} \cup Comparisons, other \in PolicyOperands :
          draft' \in {<<op, draft, other>>, <<op, other, draft>>}
  /\ words' = Text(draft', 1)
  /\ UNCHANGED <<slip, policy, answer>>

Slips ==
  /\ policy = Unread /\ ~slip
  /\ slip' = TRUE
  /\ \E i \in DOMAIN words : words' = RemoveAt(words, i)
  /\ UNCHANGED <<draft, policy, answer>>

(* expression_policy; a PolicySyntaxError leaves nothing registered.       *)
RegistersPolicy ==
  /\ policy = Unread
  /\ policy' = Parse(words)
  /\ UNCHANGED <<draft, slip, words, answer>>

Decides(q) ==
  /\ policy \notin {Unread, Refused}
  /\ answer' = <<q, Decision(policy, q)>>
  /\ UNCHANGED <<draft, slip, words, policy>>

PoliciesNext == Grows \/ Slips \/ RegistersPolicy \/ \E q \in PolicyRequests : Decides(q)

PoliciesSpec == PoliciesInit /\ [][PoliciesNext]_policyVars

------------------------------------------------------------------------------
(* The same policy with not on comparisons alone, by de Morgan's laws;     *)
(* negated if wanted is FALSE.                                             *)
RECURSIVE Spread(_, _)
Spread(e, wanted) ==
  CASE e[1] = "not"           -> Spread(e[2], ~wanted)
    [] e[1] \in {"and", "or"} -> <<IF wanted THEN e[1] ELSE IF e[1] = "and" THEN "or" ELSE "and",
                                  Spread(e[2], wanted), Spread(e[3], wanted)>>
    [] wanted                 -> e
    [] OTHER                  -> <<"not", e>>

Bare(ts) == SelectSeq(ts, LAMBDA t : t \notin {<<"(">>, <<")">>})

(* A policy means what its author wrote.  A faultless text is read as the  *)
(* very tree; a text with a token missing is refused, or every word of it  *)
(* counts, in its order; and the decision is that of the policy with its   *)
(* negations spread, also when a comparison raises: what stands behind a   *)
(* guard is looked at under the same conditions.                           *)
ReadAsMeant ==
  /\ policy # Unread /\ ~slip => policy = draft
  /\ policy \notin {Unread, Refused} => Bare(Text(policy, 1)) = Bare(words)
  /\ answer # <<>> => Decision(Spread(policy, TRUE), answer[1]) = answer[2]
=============================================================================
