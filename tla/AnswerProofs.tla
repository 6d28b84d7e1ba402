---------------------------- MODULE AnswerProofs -----------------------------
(***************************************************************************)
(* What a GET of links answers is true, for any number of requests.        *)
(***************************************************************************)
EXTENDS AnchorProofs

-----------------------------------------------------------------------------
(* An id that was given, and whose row is not being inserted, is settled:  *)
(* its row is there, or is gone for good.                                  *)

Making(t) == \E s \in Slots : OnIssue(s) /\ req[s].new /\ req[s].issue = t
Settled(t) == t \in used /\ ~Making(t)
Fixed(l) == l \in used /\ \A s \in Slots : LinkOnWay(s) => req[s].link # l

\* An issue being inserted keeps its id.
LEMMA NewIssueKept ==
  ASSUME TypeOK, NEW s \in Slots, WritingAction(s), OnIssue(s)', req'[s].new
  PROVE  \/ \E i \in NewId(Issues) : req'[s].issue = i
         \/ OnIssue(s) /\ req[s].new /\ req'[s].issue = req[s].issue
<1>0. NewId(Issues) \subseteq Issues /\ Idle.pc \notin WritingStages
  BY DEF NewId, Idle, WritingStages
<1>1. CASE \E i \in NewId(Issues), ls \in SUBSET Labels : BeginFile(s, i, ls)
  BY <1>0, <1>1, BegunOnIssue
<1>2. CASE \E i \in Issues, changing \in Changing : BeginTouch(s, i, changing)
  BY <1>2, BegunOnIssue
<1>3. CASE InsertIssue(s) \/ LoadRules(s) \/ WriteIssue(s)
  <2>1. SameIssue(s) /\ OnIssue(s)
    BY <1>0, <1>3, WritingStep DEF InsertIssue, LoadRules, WriteIssue, At, OnIssue, WritingStages
  <2> QED
    BY <2>1 DEF SameIssue
<1>4. CASE \/ \E r \in Rules, row \in NewRows : AddRow(s, r, row)
           \/ \E r \in Rules : FindLabel(s, r)
           \/ FindTag(s)
  <2>1. SameIssue(s) /\ OnIssue(s)
    BY <1>0, <1>4, EffectStep DEF AddRow, FindLabel, FindTag, At, OnIssue, WritingStages
  <2> QED
    BY <2>1 DEF SameIssue
<1> QED
  BY <1>1, <1>2, <1>3, <1>4 DEF WritingAction

LEMMA MakingStays ==
  ASSUME TypeOK, NEW s \in Slots, NEW t, Making(t)',
         AskAttachments(s) \/ ServeAttachments(s) \/ AskKnowledge(s) \/ ServeKnowledge(s)
  PROVE  Making(t) \/ t \notin used
<1>1. CASE WritingAction(s)
  <2>1. OthersKept(s)
    BY KnowledgeStage, AttachmentStage
  <2> QED
    BY <1>1, <2>1, NewIssueKept, FreshId DEF Making, OthersKept, OnIssue
<1>2. CASE ~WritingAction(s)
  <2>1. OthersKept(s) /\ req'[s].pc \notin WritingStages
    BY <1>2, AttachmentActions, AdminStage, KnowledgeStage
       DEF AdminAction, KnowledgeStages, LinkStages, WritingStages
  <2> QED
    BY <2>1 DEF Making, OthersKept, OnIssue
<1> QED
  BY <1>1, <1>2

\* Rows appear under ids that were never given, and issues after they were
\* being made.
LEMMA RowsAppear ==
  ASSUME TypeInv, NEW s \in Slots, NEW t \in Targets, TargetFound(t)',
         \/ (AskAttachments(s) \/ ServeAttachments(s)) /\ UNCHANGED knowledge
         \/ (AskKnowledge(s) \/ ServeKnowledge(s)) /\ UNCHANGED issues
  PROVE  TargetFound(t) \/ Making(t) \/ t \notin used
<1> USE DEF TypeInv
<1>1. CASE (AskAttachments(s) \/ ServeAttachments(s)) /\ UNCHANGED knowledge
  <2>1. Stored' = Stored /\ works' = works
    BY <1>1 DEF knowledge, Stored
  <2>2. \A i \in issues' : i \in issues \/ Making(i)
    <3>1. CASE WritingAction(s)
      BY <3>1, WritingOnly
    <3>2. CASE AdminAction(s)
      BY <3>2, AdminEffect DEF Making, At, OnIssue, WritingStages
    <3> QED
      BY <1>1, <3>1, <3>2, AttachmentActions
  <2> QED
    BY <2>1, <2>2 DEF TargetFound
<1>2. CASE (AskKnowledge(s) \/ ServeKnowledge(s)) /\ UNCHANGED issues
  <2>1. \A f \in Stored' : f \in Stored \/ f \notin used
    <3>1. ASSUME CommitLink(s) \/ CommitDropLink(s) PROVE Stored' = Stored
      BY <3>1 DEF CommitLink, CommitDropLink, Stored
    <3>2. ASSUME CommitDropFragment(s) PROVE Stored' \subseteq Stored
      BY <3>2, KnowledgeShapes
         DEF CommitDropFragment, At, Stored, TypeOK, KnowledgeTypeOK, Requests, DropRequests
    <3>3. ASSUME NEW f \in NewId(Fragments), NEW content \in Contents, CreateFragment(s, f, content)
          PROVE  Stored' \subseteq Stored \cup {f} /\ f \notin used
      BY <3>3, FreshId DEF CreateFragment, Stored, TypeOK, KnowledgeTypeOK
    <3> QED
      BY <1>2, <3>1, <3>2, <3>3, GraphLeft
  <2>2. \A w \in Works : works'[w] # None => works[w] # None \/ w \notin used
    <3>1. ASSUME NEW w \in NewId(Works), NEW v \in Values, CreateWork(s, w, v)
          PROVE  /\ \A u \in Works : works'[u] # None => works[u] # None \/ u = w
                 /\ w \notin used
      BY <3>1, FreshId DEF CreateWork, TypeOK, KnowledgeTypeOK
    <3>2. ASSUME CommitWork(s) PROVE \A u \in Works : works'[u] # None => works[u] # None
      BY <3>2 DEF CommitWork, WorksRead, TypeOK, KnowledgeTypeOK
    <3> QED
      BY <1>2, <3>1, <3>2, WorksLeft
  <2> QED
    BY <1>2, <2>1, <2>2 DEF TargetFound
<1> QED
  BY <1>1, <1>2

LEMMA SettledStays ==
  ASSUME TypeInv, [Next]_vars, NEW t \in Targets, Settled(t)
  PROVE  Settled(t)' /\ (TargetFound(t)' => TargetFound(t))
<1>1. ASSUME NEW s \in Slots, Request(s) \/ Proceed(s)
      PROVE  Settled(t)' /\ (TargetFound(t)' => TargetFound(t))
  <2>1. used \subseteq used'
    BY <1>1, UsedGrows, WorksLeftAround DEF Request, Proceed
  <2>2. Making(t)' => FALSE
    BY <1>1, MakingStays DEF Request, Proceed, TypeInv, Settled
  <2>3. TargetFound(t)' => TargetFound(t)
    BY <1>1, RowsAppear DEF Request, Proceed, Settled
  <2> QED
    BY <2>1, <2>2, <2>3 DEF Settled
<1>2. CASE UNCHANGED vars
  BY <1>2 DEF vars, knowledge, Settled, Making, OnIssue, TargetFound, Stored
<1> QED
  BY <1>1, <1>2 DEF Next

\* A link appears with its ends when it is committed.
LEMMA LinksAppear ==
  ASSUME TypeInv, NEW s \in Slots, Request(s) \/ Proceed(s), NEW l \in Links
  PROVE  \/ links'[l] \in {None, links[l]}
         \/ CommitLink(s) /\ l = req[s].link /\ links'[l] = NewLink(s)
<1> USE DEF TypeInv
<1>1. CASE CommitLink(s)
  BY <1>1 DEF CommitLink, TypeOK, KnowledgeTypeOK
<1>2. CASE CommitDropLink(s)
  BY <1>2 DEF CommitDropLink, TypeOK, KnowledgeTypeOK
<1>3. CASE CommitDropFragment(s)
  BY <1>3 DEF CommitDropFragment, TypeOK, KnowledgeTypeOK
<1>4. ASSUME NEW f \in NewId(Fragments), NEW content \in Contents, CreateFragment(s, f, content)
      PROVE  links' = links
  BY <1>4 DEF CreateFragment
<1> QED
  BY <1>1, <1>2, <1>3, <1>4, GraphLeft DEF Request, Proceed, knowledge

\* A link that is not on its way only goes.
LEMMA FixedStays ==
  ASSUME TypeInv, [Next]_vars, NEW l \in Links, Fixed(l)
  PROVE  Fixed(l)' /\ links'[l] \in {None, links[l]}
<1> USE DEF TypeInv
<1>1. ASSUME NEW s \in Slots, Request(s) \/ Proceed(s)
      PROVE  used \subseteq used' /\ OthersKept(s)
  <2>1. used \subseteq used'
    BY <1>1, UsedGrows, WorksLeftAround DEF Request, Proceed
  <2>2. OthersKept(s)
    BY <1>1, KnowledgeStage, AttachmentStage DEF Request, Proceed
  <2> QED
    BY <2>1, <2>2
<1>2. ASSUME NEW s \in Slots, Request(s) \/ Proceed(s), LinkOnWay(s)'
      PROVE  req'[s].link # l
  <2>0. AskKnowledge(s) \/ ServeKnowledge(s)
    BY <1>2, AttachmentStage DEF Request, Proceed, LinkOnWay, KnowledgeStages
  <2>1. CASE req'[s].pc = "target"
    <3>1. PICK f \in Fragments, t \in Targets, k \in NewId(Links) : BeginCreateLink(s, f, t, k)
      BY <2>0, <2>1, KnowledgeStage
    <3> QED
      BY <3>1, BeginStage, FreshId DEF BeginCreateLink, Fixed
  <2>2. CASE req'[s].pc \in {"insert_link", "commit_link"}
    BY <2>0, <2>2, KnowledgeStage, LinkKept DEF Fixed
  <2> QED
    BY <1>2, <2>1, <2>2 DEF LinkOnWay, LinkStages
<1>3. ASSUME NEW s \in Slots, Request(s) \/ Proceed(s)
      PROVE  links'[l] \in {None, links[l]}
  BY <1>3, LinksAppear DEF CommitLink, Inserting, At, Fixed, LinkOnWay, LinkStages
<1>4. CASE UNCHANGED vars
  BY <1>4 DEF vars, knowledge, Fixed, LinkOnWay
<1>5. ASSUME NEW s \in Slots, Request(s) \/ Proceed(s) PROVE Fixed(l)'
  BY <1>1, <1>2, <1>5 DEF Fixed, LinkOnWay, OthersKept
<1> QED
  BY <1>3, <1>4, <1>5 DEF Next

-----------------------------------------------------------------------------
(* What links point at is settled, and what a GET of links holds while it  *)
(* reads.                                                                  *)

ListStages == {"outgoing", "incoming", "turn", "hydrate", "answer"}

EndsSettled ==
  /\ \A l \in LinksThere : Settled(links[l].source) /\ Settled(links[l].target)
  /\ \A s \in Slots : LinkOnWay(s) =>
       Settled(req[s].fragment) /\ (req[s].pc # "target" => Settled(req[s].target))

\* The links that were there at the start: they only go.
Noted(s) ==
  LET me == req[s]
  IN  \A l \in me.there :
        /\ Fixed(l)
        /\ links[l] # None =>
             /\ me.fragment \in {links[l].source, links[l].target}
             /\ me.kind \in {None, KindOf(OtherEnd(links[l], me.fragment))}

\* The links that were read: they stay as they were read, or go.
WasRead(s) ==
  LET me == req[s]
  IN  \A l \in Seen(me) :
        /\ Fixed(l) /\ links[l] \in {None, me.seen[l]}
        /\ Settled(me.seen[l].source) /\ Settled(me.seen[l].target)

\* The links read so far: none, then those away from the fragment, then all.
Sided(s) ==
  LET me == req[s]
  IN  /\ me.pc = "outgoing" => Seen(me) = {} /\ me.incoming = {}
      /\ me.pc = "incoming" =>
           /\ me.incoming = {}
           /\ \A l \in Seen(me) : me.seen[l].source = me.fragment
           /\ \A l \in me.there : links[l] # None /\ links[l].source = me.fragment => l \in Seen(me)
      /\ me.pc \in {"turn", "hydrate", "answer"} =>
           /\ \A l \in me.there : links[l] # None => l \in Seen(me)
           /\ \A l \in Seen(me) : IF l \in me.incoming THEN me.seen[l].target = me.fragment
                                  ELSE me.seen[l].source = me.fragment

\* The links shown with their titles.
Titled(s) ==
  LET me == req[s]
  IN  /\ me.pc = "hydrate" => \A l \in Seen(me) :
           \/ KindOf(Shows(me, l)) \in me.left
           \/ l \in me.hydrated
           \/ ~TargetFound(Shows(me, l))
      /\ me.pc = "answer" => \A l \in Seen(me) : l \in me.hydrated \/ ~TargetFound(Shows(me, l))

Listing(s) == req[s].pc \in ListStages => Noted(s) /\ WasRead(s) /\ Sided(s) /\ Titled(s)

AnswerInv == EndsSettled /\ \A s \in Slots : Listing(s)

\* What is there is settled; a link that is there is not on its way.
LEMMA FoundSettled ==
  ASSUME TypeInv, GraphInv, TagInv, NEW t \in Targets, TargetFound(t)
  PROVE  Settled(t)
<1>1. Making(t) => t \in Issues /\ t \notin issues
  BY AttachmentShapes DEF Making, OnIssue, WritingStages, TypeInv, TypeOK, Requests, IssueRequests,
     TagInv, Marks
<1>2. t \in used
  BY DEF TargetFound, GraphInv, TagInv, TypeInv, WorksKnown
<1> QED
  BY <1>1, <1>2, KnowledgeAssumption DEF Settled, TargetFound, Stored

LEMMA ThereFixed ==
  ASSUME GraphInv, NEW l \in LinksThere
  PROVE  Fixed(l)
BY DEF GraphInv, LinksThere, Fixed

\* Types of the links a request has read.
LEMMA ReadTyped ==
  ASSUME TypeInv, NEW s \in Slots, req[s].pc \in ListStages
  PROVE  /\ req[s] \in ListRequests /\ req[s].there \subseteq Links
         /\ \A l \in Seen(req[s]) : /\ l \in Links /\ req[s].seen[l] \in Ends
                                    /\ req[s].seen[l].source \in Targets
                                    /\ req[s].seen[l].target \in Targets
                                    /\ Shows(req[s], l) \in Targets
<1>1. req[s] \in ListRequests
  BY KnowledgeShapes DEF ListStages, TypeInv, TypeOK, Requests
<1> QED
  BY <1>1 DEF ListRequests, Seen, Shows, Ends, Targets

-----------------------------------------------------------------------------
(* A request that waits is overtaken by the others.                        *)

LEMMA EndsStaySettled ==
  ASSUME TypeInv, GraphInv, TagInv, EndsSettled, [Next]_vars
  PROVE  EndsSettled'
<1> USE DEF TypeInv
<1>1. \A t \in Targets : Settled(t) => Settled(t)'
  BY SettledStays
<1>2. /\ \A l \in LinksThere : links[l].source \in Targets /\ links[l].target \in Targets
      /\ \A s \in Slots : LinkOnWay(s) => req[s].fragment \in Targets /\ req[s].target \in Targets
  BY KnowledgeShapes
     DEF LinksThere, TypeOK, KnowledgeTypeOK, Ends, Targets, LinkOnWay, LinkStages, LinkRequests,
         Requests
<1>3. ASSUME NEW s \in Slots, Request(s) \/ Proceed(s), NEW l \in Links, links'[l] # None
      PROVE  Settled(links[l].source)' /\ Settled(links[l].target)'
  <2>1. CASE links'[l] = links[l]
    BY <1>1, <1>2, <1>3, <2>1 DEF EndsSettled, LinksThere, Settled, Making
  <2>2. CASE CommitLink(s) /\ links'[l] = NewLink(s)
    <3>1. LinkOnWay(s) /\ req[s].pc # "target"
      BY <2>2 DEF CommitLink, Inserting, At, LinkOnWay, LinkStages
    <3>2. Settled(req[s].fragment) /\ Settled(req[s].target)
      BY <3>1 DEF EndsSettled
    <3> QED
      BY <1>1, <1>2, <2>2, <3>1, <3>2 DEF NewLink, Settled, Making
  <2> QED
    BY <1>3, <2>1, <2>2, LinksAppear
<1>4. ASSUME NEW s \in Slots, Request(s) \/ Proceed(s), LinkOnWay(s)'
      PROVE  Settled(req[s].fragment)' /\ (req'[s].pc # "target" => Settled(req[s].target)')
  <2>0. AskKnowledge(s) \/ ServeKnowledge(s)
    BY <1>4, AttachmentStage DEF Request, Proceed, LinkOnWay, KnowledgeStages
  <2>1. CASE req'[s].pc = "target"
    <3>1. PICK f \in Fragments, t \in Targets, k \in NewId(Links) : BeginCreateLink(s, f, t, k)
      BY <2>0, <2>1, KnowledgeStage
    <3>2. req'[s].fragment = f /\ f \in Targets /\ Settled(f)
      BY <3>1, BeginStage, FoundSettled DEF BeginCreateLink, TargetFound, Targets
    <3> QED
      BY <1>1, <2>1, <3>2 DEF Settled, Making
  <2>2. CASE req'[s].pc \in {"insert_link", "commit_link"}
    <3>1. /\ ValidateTarget(s) \/ InsertLink(s)
          /\ LinkOnWay(s) /\ req'[s].fragment = req[s].fragment /\ req'[s].target = req[s].target
      BY <2>0, <2>2, KnowledgeStage, LinkKept
    <3>2. Settled(req[s].target)
      <4>1. CASE ValidateTarget(s)
        BY <1>2, <2>2, <3>1, <4>1, EndStage, FoundSettled DEF ValidateTarget
      <4>2. CASE InsertLink(s)
        BY <3>1, <4>2 DEF InsertLink, At, EndsSettled
      <4> QED
        BY <3>1, <4>1, <4>2
    <3>3. Settled(req[s].fragment)
      BY <3>1 DEF EndsSettled
    <3> QED
      BY <1>1, <1>2, <3>1, <3>2, <3>3 DEF Settled, Making
  <2> QED
    BY <1>4, <2>1, <2>2 DEF LinkOnWay, LinkStages
<1>5. ASSUME NEW s \in Slots, Request(s) \/ Proceed(s), NEW o \in Slots \ {s}, LinkOnWay(o)'
      PROVE  Settled(req[o].fragment)' /\ (req'[o].pc # "target" => Settled(req[o].target)')
  <2>1. req'[o] = req[o] /\ LinkOnWay(o)
    BY <1>5, KnowledgeStage, AttachmentStage DEF Request, Proceed, OthersKept, LinkOnWay
  <2> QED
    BY <1>1, <1>2, <2>1 DEF EndsSettled, Settled, Making
<1>6. CASE UNCHANGED vars
  BY <1>6 DEF vars, knowledge, EndsSettled, LinksThere, LinkOnWay, Settled, Making, OnIssue
<1> QED
  BY <1>3, <1>4, <1>5, <1>6 DEF Next, EndsSettled, LinksThere

\* A GET of links that waits while others go on.
LEMMA WaitingListing ==
  ASSUME TypeInv, [Next]_vars, NEW s \in Slots, Listing(s), req'[s] = req[s]
  PROVE  Listing(s)'
<1> SUFFICES ASSUME req[s].pc \in ListStages
             PROVE  Noted(s)' /\ WasRead(s)' /\ Sided(s)' /\ Titled(s)'
  BY DEF Listing
<1>1. \A t \in Targets : Settled(t) => Settled(t)' /\ (TargetFound(t)' => TargetFound(t))
  BY SettledStays
<1>2. \A l \in Links : Fixed(l) => Fixed(l)' /\ links'[l] \in {None, links[l]}
  BY FixedStays
<1> DEFINE me == req[s]
<1>3. /\ me \in ListRequests /\ me.there \subseteq Links
      /\ \A l \in Seen(me) : /\ l \in Links /\ me.seen[l] \in Ends /\ me.seen[l].source \in Targets
                             /\ me.seen[l].target \in Targets /\ Shows(me, l) \in Targets
  BY ReadTyped
<1>4. /\ Noted(s) /\ WasRead(s) /\ Sided(s) /\ Titled(s)
      /\ Seen(me)' = Seen(me) /\ \A l \in Links : Shows(me, l)' = Shows(me, l)
  BY DEF Listing, Seen, Shows
<1>5. Noted(s)'
  BY <1>2, <1>3, <1>4 DEF Noted, Fixed, LinkOnWay
<1>6. WasRead(s)'
  BY <1>1, <1>2, <1>3, <1>4 DEF WasRead, Fixed, LinkOnWay, Settled, Making, Seen
<1>7. Sided(s)'
  BY <1>2, <1>3, <1>4 DEF Sided, Noted
<1>8. Titled(s)'
  <2>1. \A l \in Seen(me) : Settled(Shows(me, l))
    BY <1>3, <1>4 DEF WasRead, Shows
  <2> QED
    BY <1>1, <1>3, <1>4, <2>1 DEF Titled, Shows, TargetFound, Stored
<1> QED
  BY <1>5, <1>6, <1>7, <1>8

-----------------------------------------------------------------------------
(* The steps of a GET of links.                                            *)

LEMMA BeginListing ==
  ASSUME TypeInv, GraphInv, NEW s \in Slots, NEW f \in Fragments, NEW kind \in Kinds \cup {None},
         BeginGetLinks(s, f, kind),
         \A l \in Links : Fixed(l) => Fixed(l)' /\ links'[l] \in {None, links[l]}
  PROVE  Listing(s)'
<1> DEFINE there == {l \in LinksThere : /\ f \in {links[l].source, links[l].target}
                                        /\ kind \in {None, KindOf(OtherEnd(links[l], f))}}
           me == [pc |-> "outgoing", fragment |-> f, kind |-> kind,
                  seen |-> [k \in Links |-> None], incoming |-> {}, left |-> {}, hydrated |-> {},
                  there |-> there]
<1>1. req'[s] = me /\ links' = links
  BY BeginStage DEF BeginGetLinks, TypeInv, knowledge
<1>2. \A l \in there : /\ Fixed(l)' /\ f \in {links[l].source, links[l].target}
                       /\ kind \in {None, KindOf(OtherEnd(links[l], f))}
  BY ThereFixed DEF LinksThere
<1>3. /\ me.pc = "outgoing" /\ me.incoming = {} /\ Seen(me) = {} /\ me.there = there
      /\ me.fragment = f /\ me.kind = kind
  BY DEF Seen
<1> HIDE DEF there, me
<1>4. Noted(s)'
  BY <1>1, <1>2, <1>3 DEF Noted
<1>5. Seen(req[s])' = {}
  BY <1>1, <1>3 DEF Seen
<1>6. WasRead(s)' /\ Sided(s)' /\ Titled(s)'
  BY <1>1, <1>3, <1>5 DEF WasRead, Sided, Titled
<1> QED
  BY <1>4, <1>6 DEF Listing

LEMMA OutgoingListing ==
  ASSUME TypeInv, GraphInv, EndsSettled, NEW s \in Slots, Listing(s), ReadOutgoing(s),
         \A l \in Links : Fixed(l) => Fixed(l)',
         \A t \in Targets : Settled(t) => Settled(t)'
  PROVE  Listing(s)'
<1> DEFINE me == req[s]
           out == Outgoing(me.fragment, me.kind)
           seen == [l \in Links |-> IF l \in out THEN links[l] ELSE None]
           you == [me EXCEPT !.pc = "incoming", !.seen = seen]
<1>1. me \in ListRequests /\ me.there \subseteq Links /\ me.pc = "outgoing"
  BY ReadTyped DEF ReadOutgoing, At, ListStages
<1>2. Become(s, you) /\ links' = links
  BY DEF ReadOutgoing, knowledge
<1>3. /\ out \subseteq LinksThere /\ \A l \in out : links[l].source = me.fragment
      /\ \A l \in LinksThere : links[l] # None /\ links[l] \in Ends
      /\ None \notin Ends
  BY KnowledgeAssumption DEF Outgoing, LinksThere, TypeInv, TypeOK, KnowledgeTypeOK
<1>4. Noted(s) /\ me.incoming = {}
  BY <1>1 DEF Listing, ListStages, Sided
<1>5. \A l \in me.there : links[l] # None /\ links[l].source = me.fragment => l \in out
  BY <1>1, <1>4 DEF Noted, Outgoing, LinksThere, OtherEnd
<1> HIDE DEF out
<1>6. {l \in Links : seen[l] # None} = out /\ \A l \in out : l \in Links /\ seen[l] = links[l]
  BY <1>3 DEF LinksThere
<1> HIDE DEF seen
<1>7. /\ you.pc = "incoming" /\ you.seen = seen /\ you.there = me.there /\ you.incoming = {}
      /\ you.fragment = me.fragment /\ you.kind = me.kind
  BY <1>1, <1>4 DEF ListRequests
<1> HIDE DEF you
<1>8. req'[s] = you
  BY <1>2, BecomeStage DEF TypeInv
<1>9. Seen(req[s])' = out
  BY <1>6, <1>7, <1>8 DEF Seen
<1>10. Noted(s)'
  BY <1>1, <1>2, <1>4, <1>7, <1>8 DEF Noted
<1>11. WasRead(s)'
  <2>1. \A l \in out : /\ Fixed(l)' /\ links[l].source \in Targets /\ links[l].target \in Targets
                       /\ Settled(links[l].source) /\ Settled(links[l].target)
    BY <1>3, <1>6, ThereFixed DEF EndsSettled, Ends, Targets
  <2>2. \A l \in out : Settled(links[l].source)' /\ Settled(links[l].target)'
    BY <1>2, <2>1 DEF Settled, Making
  <2> QED
    BY <1>2, <1>6, <1>7, <1>8, <1>9, <2>1, <2>2 DEF WasRead, Settled, Making
<1>12. Sided(s)'
  BY <1>2, <1>3, <1>5, <1>6, <1>7, <1>8, <1>9 DEF Sided
<1>13. Titled(s)'
  BY <1>7, <1>8 DEF Titled
<1> QED
  BY <1>10, <1>11, <1>12, <1>13 DEF Listing

LEMMA IncomingListing ==
  ASSUME TypeInv, GraphInv, EndsSettled, NEW s \in Slots, Listing(s), ReadIncoming(s),
         \A l \in Links : Fixed(l) => Fixed(l)',
         \A t \in Targets : Settled(t) => Settled(t)'
  PROVE  Listing(s)'
<1> DEFINE me == req[s]
           in == Incoming(me.fragment, me.kind)
           pc == IF in \cup Seen(me) = {} THEN "answer" ELSE "turn"
           seen == [l \in Links |-> IF l \in in \ Seen(me) THEN links[l] ELSE me.seen[l]]
           you == [me EXCEPT !.pc = pc, !.incoming = in, !.seen = seen]
<1>1. me \in ListRequests /\ me.there \subseteq Links /\ me.pc = "incoming"
  BY ReadTyped DEF ReadIncoming, At, ListStages
<1>2. Become(s, you) /\ links' = links
  BY <1>1 DEF ReadIncoming, knowledge, ListRequests
<1>3. /\ in \subseteq LinksThere /\ \A l \in in : links[l].target = me.fragment
      /\ \A l \in LinksThere : l \in Links /\ links[l] # None /\ links[l] \in Ends
  BY DEF Incoming, LinksThere, TypeInv, TypeOK, KnowledgeTypeOK
<1>4. Noted(s) /\ WasRead(s) /\ Sided(s)
  BY <1>1 DEF Listing, ListStages
<1>5. \A l \in me.there : links[l] # None /\ l \notin Seen(me) => l \in in
  <2> SUFFICES ASSUME NEW l \in me.there, links[l] # None, l \notin Seen(me) PROVE l \in in
    OBVIOUS
  <2>1. /\ l \in LinksThere /\ links[l].source # me.fragment /\ links[l].target = me.fragment
        /\ me.kind \in {None, KindOf(links[l].source)}
    BY <1>1, <1>4 DEF Noted, Sided, LinksThere, OtherEnd
  <2>2. links[l].source \in Fragments
    BY <1>3, <2>1 DEF Ends
  <2> QED
    BY <2>1, <2>2 DEF Incoming, KindOf
<1>6. pc \in {"answer", "turn"} /\ (pc = "answer" => in \cup Seen(me) = {})
  OBVIOUS
<1> HIDE DEF in, pc
<1>7. /\ {l \in Links : seen[l] # None} = in \cup Seen(me)
      /\ \A l \in Seen(me) : l \in Links /\ seen[l] = me.seen[l]
      /\ \A l \in in : seen[l] = links[l]
  <2>1. \A l \in in : l \in Seen(me) => me.seen[l] = links[l]
    BY <1>3, <1>4 DEF WasRead
  <2> QED
    BY <1>3, <2>1 DEF Seen
<1> HIDE DEF seen
<1>8. /\ you.pc = pc /\ you.seen = seen /\ you.there = me.there /\ you.incoming = in
      /\ you.fragment = me.fragment /\ you.kind = me.kind
  BY <1>1 DEF ListRequests
<1> HIDE DEF you
<1>9. req'[s] = you
  BY <1>2, BecomeStage DEF TypeInv
<1>10. Seen(req[s])' = in \cup Seen(me)
  BY <1>7, <1>8, <1>9 DEF Seen
<1>11. Noted(s)'
  BY <1>1, <1>2, <1>4, <1>8, <1>9 DEF Noted
<1>12. WasRead(s)'
  <2>1. \A l \in in : /\ Fixed(l)' /\ links[l].source \in Targets /\ links[l].target \in Targets
                      /\ Settled(links[l].source) /\ Settled(links[l].target)
    BY <1>3, ThereFixed DEF EndsSettled, Ends, Targets
  <2>2. \A l \in in : Settled(links[l].source)' /\ Settled(links[l].target)'
    BY <1>2, <2>1 DEF Settled, Making
  <2>3. \A l \in Seen(me) : /\ Fixed(l)' /\ links[l] \in {None, me.seen[l]}
                            /\ me.seen[l].source \in Targets /\ me.seen[l].target \in Targets
                            /\ Settled(me.seen[l].source) /\ Settled(me.seen[l].target)
    BY <1>1, <1>4, ReadTyped DEF WasRead, ListStages
  <2>4. ASSUME NEW l \in in \cup Seen(me)
        PROVE  /\ Fixed(l)' /\ links'[l] \in {None, seen[l]}
               /\ \A t \in {seen[l].source, seen[l].target} : t \in used' /\ ~Making(t)'
    BY <1>2, <1>7, <2>1, <2>3 DEF Settled, Making
  <2> QED
    BY <1>8, <1>9, <1>10, <2>4 DEF WasRead, Settled, Making
<1>13. Sided(s)'
  <2>1. \A l \in in \cup Seen(me) : IF l \in in THEN seen[l].target = me.fragment
                                    ELSE seen[l].source = me.fragment
    BY <1>1, <1>3, <1>4, <1>7 DEF Sided
  <2> QED
    BY <1>2, <1>5, <1>6, <1>8, <1>9, <1>10, <2>1 DEF Sided
<1>14. Titled(s)'
  BY <1>6, <1>8, <1>9, <1>10 DEF Titled
<1> QED
  BY <1>11, <1>12, <1>13, <1>14 DEF Listing

\* What a request has read stays with it when only its stage, its titles and
\* the kinds that are left change.
LEMMA SameReading ==
  ASSUME NEW s \in Slots, req[s] \in ListRequests, req[s].there \subseteq Links,
         req'[s].there = req[s].there, req'[s].seen = req[s].seen,
         req'[s].incoming = req[s].incoming, req'[s].fragment = req[s].fragment,
         req'[s].kind = req[s].kind, links' = links,
         req[s].pc \in {"turn", "hydrate"}, req'[s].pc \in {"hydrate", "answer"},
         \A l \in Seen(req[s]) : req[s].seen[l].source \in Targets /\ req[s].seen[l].target \in Targets,
         \A l \in Links : Fixed(l) => Fixed(l)',
         \A t \in Targets : Settled(t) => Settled(t)',
         Noted(s), WasRead(s), Sided(s)
  PROVE  /\ Noted(s)' /\ WasRead(s)' /\ Sided(s)'
         /\ Seen(req[s])' = Seen(req[s])
         /\ \A l \in Links : Shows(req[s], l)' = Shows(req[s], l)
<1>1. Seen(req[s])' = Seen(req[s]) /\ \A l \in Links : Shows(req[s], l)' = Shows(req[s], l)
  BY DEF Seen, Shows
<1>2. Noted(s)'
  BY DEF Noted
<1>3. WasRead(s)'
  <2>1. \A l \in Seen(req[s]) : l \in Links
    BY DEF Seen
  <2> QED
    BY <1>1, <2>1 DEF WasRead, Settled, Making
<1>4. Sided(s)'
  BY <1>1 DEF Sided
<1> QED
  BY <1>1, <1>2, <1>3, <1>4

LEMMA TurnListing ==
  ASSUME TypeInv, NEW s \in Slots, Listing(s), TurnLinks(s),
         \A l \in Links : Fixed(l) => Fixed(l)',
         \A t \in Targets : Settled(t) => Settled(t)'
  PROVE  Listing(s)'
<1> DEFINE me == req[s]
           left == KindsShown(me)
           you == [me EXCEPT !.pc = "hydrate", !.left = left]
<1>1. me.pc = "turn"
  BY DEF TurnLinks, At
<1>2. /\ me \in ListRequests /\ me.there \subseteq Links
      /\ \A l \in Seen(me) : me.seen[l].source \in Targets /\ me.seen[l].target \in Targets
  BY <1>1, ReadTyped DEF ListStages
<1>3. CASE End(s)
  BY <1>3, EndStage DEF TypeInv, Listing, ListStages
<1>4. CASE Become(s, you)
  <2>1. \A l \in Seen(me) : KindOf(Shows(me, l)) \in left
    BY DEF KindsShown
  <2> HIDE DEF left
  <2>2. /\ you.pc = "hydrate" /\ you.left = left /\ you.there = me.there /\ you.seen = me.seen
        /\ you.incoming = me.incoming /\ you.fragment = me.fragment /\ you.kind = me.kind
    BY <1>2 DEF ListRequests
  <2> HIDE DEF you
  <2>3. req'[s] = you /\ links' = links
    BY <1>4, BecomeStage DEF TurnLinks, TypeInv, knowledge
  <2>4. Noted(s) /\ WasRead(s) /\ Sided(s)
    BY <1>1 DEF Listing, ListStages
  <2>5. /\ Noted(s)' /\ WasRead(s)' /\ Sided(s)' /\ Seen(me)' = Seen(me)
        /\ \A l \in Links : Shows(me, l)' = Shows(me, l)
    BY <1>1, <1>2, <2>2, <2>3, <2>4, SameReading
  <2>6. Titled(s)'
    BY <2>1, <2>2, <2>3, <2>5 DEF Titled, Seen
  <2> QED
    BY <2>5, <2>6 DEF Listing
<1> QED
  BY <1>3, <1>4 DEF TurnLinks

LEMMA HydrateListing ==
  ASSUME TypeInv, NEW s \in Slots, Listing(s), NEW kind \in Kinds, Hydrate(s, kind),
         \A l \in Links : Fixed(l) => Fixed(l)',
         \A t \in Targets : Settled(t) => Settled(t)' /\ (TargetFound(t)' => TargetFound(t))
  PROVE  Listing(s)'
<1> DEFINE me == req[s]
           hydrated == me.hydrated \cup Hydrated(me, kind)
           left == me.left \ {kind}
           pc == IF me.left = {kind} THEN "answer" ELSE "hydrate"
           you == [me EXCEPT !.hydrated = hydrated, !.left = left, !.pc = pc]
<1>1. me.pc = "hydrate"
  BY DEF Hydrate, At
<1>2. /\ me \in ListRequests /\ me.there \subseteq Links
      /\ \A l \in Seen(me) : /\ l \in Links /\ me.seen[l].source \in Targets
                             /\ me.seen[l].target \in Targets /\ Shows(me, l) \in Targets
  BY <1>1, ReadTyped DEF ListStages
<1>3. Noted(s) /\ WasRead(s) /\ Sided(s) /\ Titled(s)
  BY <1>1 DEF Listing, ListStages
<1>4. \A l \in Seen(me) :
        KindOf(Shows(me, l)) \in left \/ l \in hydrated \/ ~TargetFound(Shows(me, l))
  BY <1>1, <1>3 DEF Titled, Hydrated
<1>5. pc \in {"hydrate", "answer"} /\ (pc = "answer" => left = {})
  OBVIOUS
<1>6. Become(s, you) /\ links' = links
  BY <1>2 DEF Hydrate, knowledge, ListRequests
<1> HIDE DEF hydrated, left, pc
<1>7. /\ you.pc = pc /\ you.left = left /\ you.hydrated = hydrated /\ you.there = me.there
      /\ you.seen = me.seen /\ you.incoming = me.incoming /\ you.fragment = me.fragment
      /\ you.kind = me.kind
  BY <1>2 DEF ListRequests
<1> HIDE DEF you
<1>8. req'[s] = you
  BY <1>6, BecomeStage DEF TypeInv
<1>9. /\ Noted(s)' /\ WasRead(s)' /\ Sided(s)' /\ Seen(me)' = Seen(me)
      /\ \A l \in Links : Shows(me, l)' = Shows(me, l)
  BY <1>1, <1>2, <1>3, <1>5, <1>6, <1>7, <1>8, SameReading
<1>10. \A l \in Seen(me) : Settled(Shows(me, l))
  BY <1>3 DEF WasRead, Shows
<1>11. \A l \in Seen(me) : \A t \in Targets :
         t = Shows(me, l) /\ ~TargetFound(t) => ~TargetFound(t)'
  BY <1>10
<1>12. Titled(s)'
  <2>1. ASSUME NEW l \in Seen(me)
        PROVE  KindOf(Shows(me, l)) \in left \/ l \in hydrated \/ ~TargetFound(Shows(me, l))'
    BY <1>2, <1>4, <1>9, <1>11 DEF TargetFound, Stored
  <2> QED
    BY <1>2, <1>5, <1>7, <1>8, <1>9, <2>1 DEF Titled
<1> QED
  BY <1>9, <1>12 DEF Listing

\* Only these steps lead to a GET of links.
LEMMA ListStage ==
  ASSUME TypeOK, NEW s \in Slots, Request(s) \/ Proceed(s), req'[s].pc \in ListStages
  PROVE  \/ \E f \in Fragments, kind \in Kinds \cup {None} : BeginGetLinks(s, f, kind)
         \/ ReadOutgoing(s) \/ ReadIncoming(s) \/ TurnLinks(s)
         \/ \E kind \in Kinds : Hydrate(s, kind)
<1> USE DEF ListStages
<1>0. Idle.pc = "idle"
  BY DEF Idle
<1>1. AskKnowledge(s) \/ ServeKnowledge(s)
  BY AttachmentStage DEF Request, Proceed, KnowledgeStages
<1>2. ASSUME NEW f \in Fragments, NEW t \in Targets, NEW l, BeginCreateLink(s, f, t, l) PROVE FALSE
  BY <1>2, BeginStage DEF BeginCreateLink
<1>3. ASSUME ValidateTarget(s) PROVE FALSE
  <2>1. req[s].pc # "idle" /\ (Goto(s, "insert_link") \/ End(s))
    BY <1>3 DEF ValidateTarget, At
  <2>2. req'[s].pc \in {"insert_link", "idle"}
    BY <2>1, GotoStage, EndStage
  <2> QED
    BY <2>2
<1>4. ASSUME InsertLink(s) PROVE FALSE
  <2>1. req[s].pc # "idle" /\ (Goto(s, "commit_link") \/ End(s))
    BY <1>4 DEF InsertLink, At
  <2>2. req'[s].pc \in {"commit_link", "idle"}
    BY <2>1, GotoStage, EndStage
  <2> QED
    BY <2>2
<1>5. ASSUME FindLink(s) PROVE FALSE
  <2>1. req[s].pc # "idle" /\ (Goto(s, "drop_link") \/ End(s))
    BY <1>5 DEF FindLink, At
  <2>2. req'[s].pc \in {"drop_link", "idle"}
    BY <2>1, GotoStage, EndStage
  <2> QED
    BY <2>2
<1>6. ~ \/ CommitLink(s) \/ Answer(s) \/ CommitDropLink(s) \/ CommitFragment(s)
        \/ CommitDropFragment(s) \/ CommitWork(s)
  BY EndStage DEF CommitLink, Answer, CommitDropLink, CommitFragment, CommitDropFragment, CommitWork
<1>7. ~ \/ \E f \in NewId(Fragments), content \in Contents : CreateFragment(s, f, content)
        \/ \E w \in NewId(Works), v \in Values : CreateWork(s, w, v)
  BY <1>0, BeginStage DEF CreateFragment, CreateWork
<1>8. ASSUME NEW f \in Fragments, NEW l \in Links, BeginDeleteLink(s, f, l) PROVE FALSE
  BY <1>8, BeginStage DEF BeginDeleteLink
<1>9. ASSUME NEW f \in Fragments, BeginDeleteFragment(s, f) PROVE FALSE
  BY <1>9, BeginStage DEF BeginDeleteFragment
<1>10. ASSUME NEW f \in Fragments, NEW patch \in FragmentPatches, BeginUpdateFragment(s, f, patch)
       PROVE  FALSE
  BY <1>10, BeginStage DEF BeginUpdateFragment
<1>11. ASSUME NEW w \in Works, NEW patch \in WorkPatches, BeginUpdateWork(s, w, patch) PROVE FALSE
  BY <1>11, BeginStage DEF BeginUpdateWork
<1> QED
  BY <1>1, <1>2, <1>3, <1>4, <1>5, <1>6, <1>7, <1>8, <1>9, <1>10, <1>11
     DEF AskKnowledge, ServeKnowledge

LEMMA AnswerStep ==
  TypeInv /\ GraphInv /\ TagInv /\ AnswerInv /\ [Next]_vars => AnswerInv'
<1> SUFFICES ASSUME TypeInv, GraphInv, TagInv, AnswerInv, [Next]_vars PROVE AnswerInv'
  OBVIOUS
<1>1. EndsSettled'
  BY EndsStaySettled DEF AnswerInv
<1>2. /\ \A l \in Links : Fixed(l) => Fixed(l)' /\ links'[l] \in {None, links[l]}
      /\ \A t \in Targets : Settled(t) => Settled(t)' /\ (TargetFound(t)' => TargetFound(t))
  BY FixedStays, SettledStays
<1>3. ASSUME NEW s \in Slots, Request(s) \/ Proceed(s), NEW o \in Slots PROVE Listing(o)'
  <2>1. CASE o # s
    <3>1. req'[o] = req[o]
      BY <1>3, <2>1, KnowledgeStage, AttachmentStage DEF Request, Proceed, OthersKept, TypeInv
    <3> QED
      BY <3>1, WaitingListing DEF AnswerInv
  <2>2. CASE o = s /\ req'[s].pc \in ListStages
    <3>1. \/ \E f \in Fragments, kind \in Kinds \cup {None} : BeginGetLinks(s, f, kind)
          \/ ReadOutgoing(s) \/ ReadIncoming(s) \/ TurnLinks(s)
          \/ \E kind \in Kinds : Hydrate(s, kind)
      BY <1>3, <2>2, ListStage DEF TypeInv
    <3> QED
      BY <1>2, <2>2, <3>1, BeginListing, OutgoingListing, IncomingListing, TurnListing,
         HydrateListing DEF AnswerInv
  <2>3. CASE o = s /\ req'[s].pc \notin ListStages
    BY <2>3 DEF Listing
  <2> QED
    BY <2>1, <2>2, <2>3
<1>4. ASSUME UNCHANGED vars, NEW o \in Slots PROVE Listing(o)'
  BY <1>4, WaitingListing DEF vars, AnswerInv
<1> QED
  BY <1>1, <1>3, <1>4 DEF AnswerInv, Next

LEMMA AnswerInit == Init => AnswerInv
<1> SUFFICES ASSUME Init PROVE AnswerInv
  OBVIOUS
<1>1. /\ links = InitLinks /\ \A s \in Slots : req[s].pc = "idle"
  BY DEF Init, KnowledgeInit, ServerInit, Idle
<1>2. \A s \in Slots : ~LinkOnWay(s) /\ ~OnIssue(s) /\ Listing(s)
  BY <1>1 DEF LinkOnWay, LinkStages, OnIssue, WritingStages, Listing, ListStages
<1>3. ASSUME NEW l \in LinksThere PROVE links[l].source \in used /\ links[l].target \in used
  <2>1. l \in Links /\ InitLinks[l] # None /\ links[l] = InitLinks[l]
    BY <1>1 DEF LinksThere
  <2>2. InitLinks[l].source \in Fragments /\ InitFragments[InitLinks[l].source] # None
    BY <2>1, KnowledgeAssumption, StartAssumption DEF Ends
  <2> QED
    BY <2>1, <2>2 DEF Init
<1> QED
  BY <1>2, <1>3 DEF AnswerInv, EndsSettled, Settled, Making

\* A GET of links tells the truth, however many requests make, delete and
\* list links, fragments and issues meanwhile: no link is missed that was there
\* throughout, each shows its other end, and as "(deleted)" only an end that
\* is gone.
THEOREM AnswersStayTruthful == Spec => []AnswersTruthful
<1>1. TypeInv /\ GraphInv /\ AnchorInv /\ TagInv /\ AnswerInv /\ [Next]_vars =>
        (TypeInv /\ GraphInv /\ AnchorInv /\ TagInv /\ AnswerInv)'
  BY TypeStep, GraphStep, AnchorStep, TagStep, AnswerStep DEF TypeInv
<1>2. TypeInv /\ AnswerInv => AnswersTruthful
  <2> SUFFICES ASSUME TypeInv, AnswerInv, NEW s \in Slots, At(s, "answer")
               PROVE  /\ \A l \in req[s].there \cap LinksThere :
                           TargetFound(OtherEnd(links[l], req[s].fragment)) =>
                             l \in Seen(req[s])
                      /\ \A l \in Seen(req[s]) :
                           LET end == OtherEnd(req[s].seen[l], req[s].fragment)
                           IN  /\ Shows(req[s], l) = end
                               /\ l \in req[s].hydrated \/ ~TargetFound(end)
    BY DEF AnswersTruthful
  <2>1. req[s].pc = "answer" /\ Sided(s) /\ Titled(s)
    BY DEF At, AnswerInv, Listing, ListStages
  <2>2. \A l \in Seen(req[s]) : Shows(req[s], l) = OtherEnd(req[s].seen[l], req[s].fragment)
    BY <2>1 DEF Sided, Shows, OtherEnd
  <2>3. \A l \in Seen(req[s]) : l \in req[s].hydrated \/ ~TargetFound(Shows(req[s], l))
    BY <2>1 DEF Titled
  <2> QED
    BY <2>1, <2>2, <2>3 DEF Sided, LinksThere
<1> QED
  BY <1>1, <1>2, TypeInvInit, GraphInit, AnchorInit, TagInit, AnswerInit, PTL DEF Spec
=============================================================================
