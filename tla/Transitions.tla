---------------------------- MODULE Transitions ----------------------------
(***************************************************************************)
(* The workflow state machine of an issue.  A team owns any number of      *)
(* named states; each belongs to one of six fixed categories, and a move   *)
(* between two states is judged by their categories alone.                 *)
(***************************************************************************)

StateTypes ==
  {"triage", "backlog", "unstarted", "started", "completed", "canceled"}

TerminalTypes == {"completed", "canceled"}

\* The categories an issue may move to out of each category.
ValidTransitions ==
  [triage    |-> {"backlog", "unstarted", "canceled"},
   backlog   |-> {"unstarted", "triage", "canceled"},
   unstarted |-> {"started", "backlog", "canceled"},
   started   |-> {"completed", "unstarted", "backlog", "canceled"},
   completed |-> {"unstarted"},
   canceled  |-> {"backlog"}]

IsValidTransition(from, to) ==
  \/ from = to
  \/ to \in ValidTransitions[from]
=============================================================================
