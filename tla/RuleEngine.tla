----------------------------- MODULE RuleEngine -----------------------------
(***************************************************************************)
(* The rules engine: how the conditions of a rule are judged against the   *)
(* context of an operation and the issues table, which rules stop the      *)
(* operation, and what the effects of the rules that fired leave in a row. *)
(*                                                                         *)
(* A rule is a record                                                      *)
(*   [trigger, priority, enabled, condition, rejects, notifies, sets]      *)
(* where "sets" maps the columns of its set_field actions to their values  *)
(* (a later action on the same column replaces an earlier one).            *)
(*                                                                         *)
(* A condition is a record with a "type"; and, or and not hold their       *)
(* parts in the sequence "args".  Conditions are judged to a nesting depth *)
(* of two composites (the code recurses without a bound).  The table that  *)
(* its count_query conditions count in is given: all the conditions judged *)
(* by one call count in the same one, although the code sends a SELECT for *)
(* each.                                                                   *)
(***************************************************************************)
EXTENDS Naturals, Sequences, FiniteSets, Transitions

CONSTANT None   \* Python's None, SQL's NULL

Triggers == {"issue.created", "issue.state_changed",
             "issue.assigned", "issue.updated"}

\* A condition yields a verdict; "malformed" is the ValueError that turns
\* into a RuleEvaluationError.
Verdicts == {"true", "false", "malformed"}

Judge(b) == IF b THEN "true" ELSE "false"

----------------------------------------------------------------------------
(* Context look-ups.  The context is a function from field names; a field  *)
(* the context does not carry reads as None.                               *)

ResolveField(ctx, field) == IF field \in DOMAIN ctx THEN ctx[field] ELSE None

\* A value is a literal or a reference to a field of the context.
Literal(v) == [kind |-> "literal", of |-> v]
Current(f) == [kind |-> "current", of |-> f]

ResolveValue(ctx, value) ==
  IF value.kind = "current" THEN ResolveField(ctx, value.of) ELSE value.of

\* Mutant: ">=" compares as ">".
CompareStrictly(op, a, b) ==
  CASE op \in {">=", ">"} -> a > b
    [] op \in {"<=", "<"} -> a < b
    [] op = "==" -> a = b

Compare(op, a, b) ==
  CASE op = ">=" -> a >= b
    [] op = "<=" -> a <= b
    [] op = ">"  -> a > b
    [] op = "<"  -> a < b
    [] op = "==" -> a = b

CompareOps == {">=", "<=", ">", "<", "=="}

\* The rows a where clause selects: a filter that is absent, or whose value
\* resolves to nothing, does not restrict.
Selected(where, ctx, rows) ==
  { k \in DOMAIN rows :
      /\ "state_type" \in DOMAIN where => rows[k].state_type \in where.state_type
      /\ "assignee" \in DOMAIN where =>
           LET who == ResolveValue(ctx, where.assignee)
           IN  who # None => rows[k].assignee = who
      /\ "project" \in DOMAIN where =>
           LET under == ResolveValue(ctx, where.project)
           IN  under # None => rows[k].project = under
      /\ "parent" \in DOMAIN where =>
           LET up == ResolveValue(ctx, where.parent)
           IN  up # None => rows[k].parent = up }

Leaf(c, ctx, rows) ==
  CASE c.type = "field_equals" ->
         Judge(ResolveField(ctx, c.field) = ResolveValue(ctx, c.value))
    [] c.type = "field_in" ->
         Judge(\E v \in c.values : ResolveField(ctx, c.field) = ResolveValue(ctx, v))
    [] c.type = "field_is_null"  -> Judge(ResolveField(ctx, c.field) = None)
    [] c.type = "field_not_null" -> Judge(ResolveField(ctx, c.field) # None)
    [] c.type = "count_query" ->
         IF c.operator \in CompareOps
         THEN Judge(Compare(c.operator, Cardinality(Selected(c.where, ctx, rows)), c.value))
         ELSE "malformed"
    [] OTHER -> "malformed"

----------------------------------------------------------------------------
(* Composites short-circuit from left to right: a malformed part counts    *)
(* only when the parts before it have not settled the answer.              *)

FirstNot(v, verdicts) ==
  LET odd == { k \in DOMAIN verdicts : verdicts[k] # v }
  IN  IF odd = {} THEN v
      ELSE verdicts[CHOOSE k \in odd : \A j \in odd : k <= j]

Compose(type, verdicts) ==
  CASE type = "and" -> FirstNot("true", verdicts)
    [] type = "or"  -> FirstNot("false", verdicts)
    [] type = "not" -> IF verdicts = << >> THEN "malformed"
                       ELSE [true |-> "false", false |-> "true",
                             malformed |-> "malformed"][verdicts[1]]

Composites == {"and", "or", "not"}

Shallow(c, ctx, rows) ==
  IF c.type \in Composites
  THEN Compose(c.type, [k \in DOMAIN c.args |-> Leaf(c.args[k], ctx, rows)])
  ELSE Leaf(c, ctx, rows)

EvaluateCondition(c, ctx, rows) ==
  IF c.type \in Composites
  THEN Compose(c.type, [k \in DOMAIN c.args |-> Shallow(c.args[k], ctx, rows)])
  ELSE Leaf(c, ctx, rows)

----------------------------------------------------------------------------
(* One evaluate_rules call: the enabled rules of a trigger, lowest         *)
(* priority number first, up to the first that is malformed or rejects.    *)

Loaded(rules, trigger) == { r \in rules : r.enabled /\ r.trigger = trigger }

RuleVerdict(r, ctx, rows) ==
  IF r.condition = None THEN "true" ELSE EvaluateCondition(r.condition, ctx, rows)

Stops(r, ctx, rows) ==
  \/ RuleVerdict(r, ctx, rows) = "malformed"
  \/ r.rejects /\ RuleVerdict(r, ctx, rows) = "true"

\* No rule stops the operation.
Allowed(rules, trigger, ctx, rows) ==
  \A r \in Loaded(rules, trigger) : ~Stops(r, ctx, rows)

\* The rules whose effects are collected when none stops the operation.
Fired(rules, trigger, ctx, rows) ==
  { r \in Loaded(rules, trigger) : RuleVerdict(r, ctx, rows) = "true" }

----------------------------------------------------------------------------
(* Applying effects.  Effects are applied trigger by trigger, then by      *)
(* priority, so the last rule that sets a column decides its value.        *)

TriggerRank(t) ==
  CASE t = "issue.created"       -> 0
    [] t = "issue.state_changed" -> 1
    [] t = "issue.assigned"      -> 2
    [] t = "issue.updated"       -> 3

Before(r, q) ==
  \/ TriggerRank(r.trigger) < TriggerRank(q.trigger)
  \/ TriggerRank(r.trigger) = TriggerRank(q.trigger) /\ r.priority < q.priority

\* Rules of equal priority are loaded in no particular order: any of them may
\* come last, and the CHOOSE below stands for the one that does.
LastSetter(r, fired, column) ==
  /\ column \in DOMAIN r.sets
  /\ \A q \in fired : column \in DOMAIN q.sets => ~Before(r, q)

ApplyEffects(row, fired) ==
  [column \in DOMAIN row |->
     IF \E r \in fired : LastSetter(r, fired, column)
     THEN (CHOOSE r \in fired : LastSetter(r, fired, column)).sets[column]
     ELSE row[column]]

Notifies(fired) == \E r \in fired : r.notifies
=============================================================================
