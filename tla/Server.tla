------------------------------- MODULE Server --------------------------------
(***************************************************************************)
(* What the requests on fragments, links, working sessions, labels, rules  *)
(* and notifications share: the slots of the API server, each a database   *)
(* session with at most one request, and the table of issues, as far as    *)
(* the other tables refer to it.                                           *)
(*                                                                         *)
(* A SELECT is a step of a request, and so is a statement that waits for   *)
(* or takes a row lock; the statements a commit sends and the commit are   *)
(* one step.  Requests refused at once (404, 403, 422) change nothing and  *)
(* are left out.                                                           *)
(***************************************************************************)
EXTENDS Naturals, FiniteSets

CONSTANTS
  Slots,        \* requests served at the same time
  Issues,       \* ids of issues
  InitIssues,   \* the issues to start from
  None,         \* NULL, and a row that is not there
  Workloads,    \* the sets of operations that clients may mix
  MaxRequests   \* bound on the number of requests

ASSUME IssuesAssumption == InitIssues \subseteq Issues
ASSUME BoundAssumption == MaxRequests \in Nat

VARIABLES
  req,     \* the request of each slot
  served,  \* requests begun so far
  asked,   \* the operations that the clients of this behaviour mix
  used,    \* ids of rows that exist or have existed: none is given twice
  issues   \* the issues there are

Idle == [pc |-> "idle"]

At(s, label) == req[s].pc = label

\* A request begins with its first read.  Its number tells apart the times at
\* which requests read the clock.
Begin(s, op, me) ==
  /\ op \in asked
  /\ At(s, "idle")
  /\ served < MaxRequests
  /\ served' = served + 1
  /\ req' = [req EXCEPT ![s] = me]

\* The id a new row gets: one that was never given; which of them is all one.
NewId(ids) == IF ids \subseteq used THEN {} ELSE {CHOOSE i \in ids : i \notin used}

Become(s, me) == req' = [req EXCEPT ![s] = me]

Goto(s, label) == Become(s, [req[s] EXCEPT !.pc = label])

\* Mutant: the session is never closed.
LeaveOpen(s) == Goto(s, "open")

\* Closing the session rolls back what has not been committed.
End(s) == Become(s, Idle)

ServerInit ==
  /\ req = [s \in Slots |-> Idle]
  /\ served = 0
  /\ asked \in Workloads
  /\ issues = InitIssues
=============================================================================
