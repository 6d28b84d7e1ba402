----------------------------- MODULE LinkGraph -------------------------------
(***************************************************************************)
(* What fragment links promise: a directed graph.  Nodes come and go; an   *)
(* edge starts at a node there is, has no twin, never changes its ends,    *)
(* and goes with the node it starts at.  What an edge points to may be     *)
(* gone.                                                                   *)
(***************************************************************************)
CONSTANTS Nodes, Targets, Edges, None

VARIABLES nodes, edge

Ends == [source : Nodes, target : Targets]

Anchored == \A e \in Edges : edge[e] # None => edge[e].source \in nodes

NoTwins == \A d, e \in Edges : d # e /\ edge[d] # None => edge[d] # edge[e]

Init ==
  /\ nodes \subseteq Nodes
  /\ edge \in [Edges -> Ends \cup {None}]
  /\ Anchored
  /\ NoTwins

AddNode(n) ==
  /\ n \notin nodes
  /\ nodes' = nodes \cup {n}
  /\ UNCHANGED edge

RemoveNode(n) ==
  /\ n \in nodes
  /\ nodes' = nodes \ {n}
  /\ edge' = [e \in Edges |-> IF edge[e] # None /\ edge[e].source = n THEN None ELSE edge[e]]

AddEdge(e, ends) ==
  /\ edge[e] = None
  /\ ends.source \in nodes
  /\ \A d \in Edges : edge[d] # ends
  /\ edge' = [edge EXCEPT ![e] = ends]
  /\ UNCHANGED nodes

RemoveEdge(e) ==
  /\ edge[e] # None
  /\ edge' = [edge EXCEPT ![e] = None]
  /\ UNCHANGED nodes

Next ==
  \/ \E n \in Nodes : AddNode(n) \/ RemoveNode(n)
  \/ \E e \in Edges, ends \in Ends : AddEdge(e, ends)
  \/ \E e \in Edges : RemoveEdge(e)

Spec == Init /\ [][Next]_<<nodes, edge>>
=============================================================================
