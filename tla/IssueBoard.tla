----------------------------- MODULE IssueBoard -----------------------------
(***************************************************************************)
(* What the issue service promises its clients, with no mention of         *)
(* requests, sessions or transactions: a board of issues that move between *)
(* states along the state machine, whose parents are on the board, and     *)
(* which are flagged when their children are done.  Nobody is promised a   *)
(* tree: an issue is never its own parent, but two may be each other's.    *)
(***************************************************************************)
EXTENDS Naturals, FiniteSets, Transitions

CONSTANTS Issues, States, TypeOf, None, Gone

VARIABLES
  state,      \* the state of each issue, Gone when there is no such issue
  parent,     \* the parent of each issue, or None
  flagged     \* issues marked "all children done"

board == <<state, parent, flagged>>

OnBoard(i) == state[i] # Gone
ChildrenOf(p) == {i \in Issues : OnBoard(i) /\ parent[i] = p}

\* An issue moves, is filed under another parent, or both.
Change(i) ==
  /\ OnBoard(i)
  /\ \E st \in States, up \in Issues \cup {None} :
       /\ IsValidTransition(TypeOf[state[i]], TypeOf[st])
       /\ up # i /\ (up # None => OnBoard(up))
       /\ state' = [state EXCEPT ![i] = st]
       /\ parent' = [parent EXCEPT ![i] = up]
  /\ UNCHANGED flagged

\* New issues appear, under parents that were there before.
Add(new) ==
  /\ new # {} /\ \A i \in new : ~OnBoard(i)
  /\ \E st \in [new -> States], up \in [new -> Issues \cup {None}] :
       /\ \A i \in new : up[i] # None => OnBoard(up[i])
       /\ state' = [i \in Issues |-> IF i \in new THEN st[i] ELSE state[i]]
       /\ parent' = [i \in Issues |-> IF i \in new THEN up[i] ELSE parent[i]]
  /\ UNCHANGED flagged

\* Only an issue without children is removed.
Remove(i) ==
  /\ OnBoard(i)
  /\ ChildrenOf(i) = {}
  /\ state' = [state EXCEPT ![i] = Gone]
  /\ parent' = [parent EXCEPT ![i] = None]
  /\ flagged' = flagged \ {i}

\* The flag is raised only while every one of several children is done.
RollUp(p) ==
  /\ OnBoard(p)
  /\ Cardinality(ChildrenOf(p)) > 1
  /\ \A i \in ChildrenOf(p) : TypeOf[state[i]] \in TerminalTypes
  /\ flagged' = flagged \cup {p}
  /\ UNCHANGED <<state, parent>>

BoardInit ==
  /\ state \in [Issues -> States \cup {Gone}]
  /\ parent \in [Issues -> Issues \cup {None}]
  /\ \A i \in Issues : parent[i] # i /\ (parent[i] # None => OnBoard(parent[i]))
  /\ flagged \in SUBSET Issues

BoardNext ==
  \/ \E i \in Issues : Change(i) \/ Remove(i) \/ RollUp(i)
  \/ \E new \in SUBSET Issues : Add(new)

BoardSpec == BoardInit /\ [][BoardNext]_board
=============================================================================
