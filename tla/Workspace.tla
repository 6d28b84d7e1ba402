----------------------------- MODULE Workspace -------------------------------
(***************************************************************************)
(* Knowledge and Attachments side by side: a server that serves the        *)
(* requests of both, over one table of issues, which links point to.       *)
(***************************************************************************)
EXTENDS Knowledge, Attachments

vars == <<req, served, asked, used, issues, knowledge, attachments>>

Init ==
  /\ ServerInit
  /\ KnowledgeInit
  /\ AttachmentsInit
  /\ used = InitIssues \cup {f \in Fragments : InitFragments[f] # None}
                       \cup {w \in Works : InitWorks[w] # None}
                       \cup {l \in Links : InitLinks[l] # None}
                       \cup {InitLinks[l].target : l \in {k \in Links : InitLinks[k] # None}}
                       \cup {l \in Labels : InitLabels[l] # None}
                       \cup {r \in Rules : InitRules[r] # None}

Proceed(s) ==
  \/ ServeKnowledge(s) /\ UNCHANGED <<asked, issues, attachments>>
  \/ ServeAttachments(s) /\ UNCHANGED <<asked, knowledge>>

Request(s) ==
  \/ AskKnowledge(s) /\ UNCHANGED <<asked, issues, attachments>>
  \/ AskAttachments(s) /\ UNCHANGED <<asked, knowledge>>

Next == \E s \in Slots : Request(s) \/ Proceed(s)

\* Clients may stop asking, but the event loop runs a request it has taken.
Fairness == \A s \in Slots : WF_vars(Proceed(s))

Spec == Init /\ [][Next]_vars /\ Fairness

----------------------------------------------------------------------------
(* Properties.                                                             *)

\* Types of the tables and of what the requests hold.
TypeOK ==
  /\ req \in [Slots -> {Idle} \cup KnowledgeRequests \cup AttachmentRequests]
  /\ served \in 0..MaxRequests
  /\ issues \subseteq Issues
  /\ KnowledgeTypeOK
  /\ AttachmentsTypeOK

\* The links are the edges of a graph on the fragments: whatever the order of
\* requests, a stored link starts at a fragment that is there, has no twin,
\* goes with its source, and is never turned around by a request that reads.
Graph == INSTANCE LinkGraph WITH
  Nodes <- Fragments, Edges <- Links, nodes <- Stored, edge <- links
ServesGraph == Graph!Spec

\* What a GET of links answers, in either direction: no link is missed that
\* was there from the first read of the request to its answer and leads to
\* something that is there, and each link that is listed shows its other end,
\* as "(deleted)" only if that is gone.
AnswersTruthful ==
  \A s \in Slots : At(s, "answer") =>
    /\ \A l \in req[s].there \cap LinksThere :
         TargetFound(OtherEnd(links[l], req[s].fragment)) => l \in Seen(req[s])
    /\ \A l \in Seen(req[s]) :
         LET end == OtherEnd(req[s].seen[l], req[s].fragment)
         IN  Shows(req[s], l) = end /\ (l \in req[s].hydrated \/ ~TargetFound(end))

\* A finished working session has the time it was finished, however PATCHes
\* that were computed from stale rows overtake each other.
FinishedDated ==
  \A w \in Works : works[w] # None /\ works[w].state \in Finished => works[w].completed # None

\* Whoever replays the audit log of a fragment or a rule gets the row: each
\* entry tells of exactly the columns its UPDATE sends, although both are
\* computed from a reading that may be stale.
AuditReplays == history = fragments /\ told = rules

\* Labels on issues, comments and notifications refer to rows that are there,
\* also while they are inserted and not yet committed.
AttachmentsAnchored ==
  /\ \A t \in tags : t[1] \in issues /\ labels[t[2]] # None
  /\ comments \subseteq issues
  /\ \A n \in notes : n.issue \in issues /\ rules[n.rule] # None
  /\ \A r \in Rules : IsHeld(NoteRow(r)) => rules[r] # None
  /\ \A l \in Labels : IsHeld(TagRow(l)) => labels[l] # None

\* An add_label effect never adds a label the issue has, which would fail the
\* request it belongs to: between the look for the label and the commit nobody
\* else attaches it.
TagsNeverCollide ==
  \A s \in Slots, l \in Labels :
    req[s].pc \in {"effects", "find_tag"} /\ TagRow(l) \in req[s].pending =>
      <<req[s].issue, l>> \notin tags /\ TagRow(l) \notin req[s].held

\* Every request ends, also one that waits for rows others hold.
RequestsEnd == \A s \in Slots : ~At(s, "idle") ~> At(s, "idle")
=============================================================================
