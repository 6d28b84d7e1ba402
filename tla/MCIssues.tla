------------------------------ MODULE MCIssues ------------------------------
(* Instances of Issues for TLC: one family of a parent and two children,   *)
(* and the bodies of requests and rules the configurations choose from.    *)
EXTENDS Issues, TLC

CONSTANTS p1, c1, c2, n1, n2, n3, q1, q2, q3, q4, u1, u2, todo, doing, done, dropped

MCTypeOf == todo :> "unstarted" @@ doing :> "started"
            @@ done :> "completed" @@ dropped :> "canceled"

MCTriageKeys == {Flag, "source"}

Issue(st, up, who) ==
  [state |-> st, parent |-> up, assignee |-> who, project |-> None, triage |-> {}]

\* A parent with two children in progress, assigned to different users.
Family == p1 :> Issue(todo, None, None) @@ c1 :> Issue(doing, p1, u1)
          @@ c2 :> Issue(doing, p1, u2)

\* As Family, with content already in the parent's triage context.
Triaged == [Family EXCEPT ![p1].triage = {"source"}]

\* A parent with one child that is done, and two free ids.
Pair == p1 :> Issue(todo, None, None) @@ c1 :> Issue(done, p1, u1) @@ n1 :> NoRow @@ n2 :> NoRow

\* Two issues, one of them filed under a project, and an id for each request.
Filed == p1 :> [Issue(todo, None, None) EXCEPT !.project = q1] @@ c1 :> Issue(doing, None, u1)
         @@ n1 :> NoRow @@ n2 :> NoRow @@ n3 :> NoRow

\* As Family, with two children of the same user that are not started, and a
\* free id.
Backlog == [Family EXCEPT ![c1].state = todo, ![c2].state = todo, ![c2].assignee = u1]
           @@ n1 :> NoRow

----------------------------------------------------------------------------
(* Requests.                                                               *)

MoveTo(S) == {[state |-> st] : st \in S}

Moves == MoveTo({todo, doing, done, dropped})
Restructure == {[parent |-> None], [parent |-> p1], [parent |-> c1],
                [state |-> done], [state |-> doing, parent |-> p1]}
Refile == {[project |-> None], [project |-> q1], [state |-> doing]}
MovesOrLeaves == Moves \cup {[parent |-> None]}

NewChildren == { <<Issue(todo, p1, None)>>, <<Issue(todo, c1, None)>>,
                 <<Issue(todo, None, u1), Issue(done, c1, None)>> }
NewFiled == { <<[Issue(todo, None, u1) EXCEPT !.project = q1]>> }
NewAny == { <<Issue(todo, p1, None)>>, <<Issue(done, p1, None), Issue(todo, c1, None)>> }
NoItems == {}

NoFilters == {}
ActiveOnly == {{"started", "unstarted"}}

----------------------------------------------------------------------------
(* Rules.                                                                  *)

Rule(trigger, priority, condition, rejects, notifies, sets) ==
  [trigger |-> trigger, priority |-> priority, enabled |-> TRUE,
   condition |-> condition, rejects |-> rejects, notifies |-> notifies, sets |-> sets]

FieldIs(f, v) == [type |-> "field_equals", field |-> f, value |-> Literal(v)]

NoRules == {}

\* A notification for every issue that is completed.
NotifyDone ==
  {Rule("issue.state_changed", 1, FieldIs("to_state_type", "completed"), FALSE, TRUE, << >>)}

\* Work that is taken up is filed under a project, which may be gone, and
\* assigned; of the two rules that assign, the later in priority has its way.
Effects ==
  {Rule("issue.state_changed", 1, FieldIs("to_state_type", "started"), FALSE, FALSE,
        [assignee |-> u1, project |-> q1]),
   Rule("issue.state_changed", 2, FieldIs("to_state_type", "started"), FALSE, FALSE,
        [assignee |-> u2])}

\* The WIP limit of the documentation: at most one started issue per user.
WipRule ==
  {Rule("issue.state_changed", 1,
     [type |-> "and",
      args |-> << FieldIs("to_state_type", "started"),
                  [type |-> "count_query", operator |-> ">=", value |-> 1,
                   where |-> [state_type |-> {"started"},
                              assignee |-> Current("assignee_id")]] >>],
     TRUE, FALSE, << >>)}

\* At most two children per parent: the count includes the new row.
TwoChildrenRule ==
  {Rule("issue.created", 1,
     [type |-> "count_query", operator |-> ">", value |-> 2,
      where |-> [parent |-> Current("parent_id")]],
     TRUE, FALSE, << >>)}

Limits == WipRule \cup TwoChildrenRule

----------------------------------------------------------------------------
(* What the rules above are there to enforce.                              *)

StartedBy(u) == {i \in Issues : Exists(i) /\ db[i].assignee = u
                                /\ TypeOf[db[i].state] = "started"}

\* The WIP limit holds: evaluating it before the move counts the issues that
\* are started already, batches included.
WipRespected == \A u \in Users : Cardinality(StartedBy(u)) <= 1

\* A limit on new issues holds within a batch too: it is evaluated after the
\* flush, so that it counts the new row and the uncommitted ones before it.
TwoChildrenRespected == \A p \in Issues : Cardinality(Children(p)) <= 2
=============================================================================
