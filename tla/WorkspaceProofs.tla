-------------------------- MODULE WorkspaceProofs ----------------------------
(***************************************************************************)
(* Theorems of Workspace, for any fragments, links, issues, labels, rules  *)
(* and any number of concurrent requests.                                  *)
(***************************************************************************)
EXTENDS Workspace, TLAPS

Requests == {Idle} \cup KnowledgeRequests \cup AttachmentRequests

\* A PATCH of a working session holds a reading of a session that is there,
\* and that has its time if it had one when it was read.
WorksRead ==
  \A s \in Slots : At(s, "write_work") =>
    LET me == req[s]
    IN  /\ works[me.work] # None
        /\ me.read.completed # None => works[me.work].completed # None

\* Types hold because the audit log has an entry for every row there is, and
\* working sessions are never deleted.
WorksKnown == \A w \in Works : works[w] # None => w \in used

TypeInv == TypeOK /\ AuditReplays /\ WorksRead /\ WorksKnown /\ FinishedDated

-----------------------------------------------------------------------------
(* Types.                                                                  *)

\* What a request holds is told by where it is.
LEMMA KnowledgeShapes ==
  ASSUME NEW me \in Requests
  PROVE  /\ me.pc \in {"target", "insert_link", "commit_link"} => me \in LinkRequests
         /\ me.pc \in {"outgoing", "incoming", "turn", "hydrate", "answer"} => me \in ListRequests
         /\ me.pc \in {"find_link", "drop_link"} => me \in UnlinkRequests
         /\ me.pc = "write_fragment" => me \in EditRequests
         /\ me.pc = "drop_fragment" => me \in DropRequests
         /\ me.pc = "write_work" => me \in WorkRequests
BY DEF Requests, KnowledgeRequests, AttachmentRequests, Idle, LinkRequests, ListRequests,
       UnlinkRequests, EditRequests, DropRequests, WorkRequests, IssueRequests,
       OtherIssueRequests, LabelRequests, RuleRequests

LEMMA AttachmentShapes ==
  ASSUME NEW me \in Requests
  PROVE  /\ me.pc \in {"insert_issue", "load", "write_issue", "effects", "find_tag"} =>
              me \in IssueRequests
         /\ me.pc \in {"drop_issue", "comment"} => me \in OtherIssueRequests
         /\ me.pc \in {"commit_label", "rename", "drop_label"} => me \in LabelRequests
         /\ me.pc \in {"write_rule", "drop_rule"} => me \in RuleRequests
BY DEF Requests, KnowledgeRequests, AttachmentRequests, Idle, LinkRequests, ListRequests,
       UnlinkRequests, EditRequests, DropRequests, WorkRequests, IssueRequests,
       OtherIssueRequests, LabelRequests, RuleRequests

LEMMA BecomeTyped ==
  ASSUME TypeOK, NEW s \in Slots, NEW me \in Requests, Become(s, me)
  PROVE  req' \in [Slots -> Requests]
BY DEF TypeOK, Requests, Become

LEMMA EndTyped ==
  ASSUME TypeOK, NEW s \in Slots, End(s)
  PROVE  req' \in [Slots -> Requests]
BY BecomeTyped DEF End, Requests

LEMMA BeginTyped ==
  ASSUME TypeOK, NEW s \in Slots, NEW op, NEW me \in Requests, Begin(s, op, me)
  PROVE  req' \in [Slots -> Requests] /\ served' \in 0..MaxRequests /\ served + 1 \in 0..MaxRequests
BY BoundAssumption DEF TypeOK, Requests, Begin

\* A patched row is a row.
LEMMA AppliedFragment ==
  ASSUME NEW row \in Contents, NEW patch \in FragmentPatches, NEW cols \in SUBSET DOMAIN patch
  PROVE  Applied(row, patch, cols) \in Contents
BY PatchAssumption DEF IsFragmentPatch, Applied, Contents

LEMMA AppliedWork ==
  ASSUME NEW row \in WorkRows, NEW patch \in WorkPatches, NEW cols \in SUBSET DOMAIN patch
  PROVE  /\ Applied(row, patch, cols) \in WorkRows
         /\ Applied(row, patch, cols).completed = row.completed
         /\ Applied(row, patch, cols).state =
              IF "state" \in cols THEN patch["state"] ELSE row.state
<1> DEFINE f == Applied(row, patch, cols)
<1>1. f = [c \in {"state", "payload", "completed"} |-> f[c]]
  BY DEF Applied, WorkRows
<1>2. /\ f["state"] \in WorkStates /\ f["payload"] \in Values
      /\ f["completed"] = row["completed"]
      /\ f["state"] = IF "state" \in cols THEN patch["state"] ELSE row["state"]
  BY PatchAssumption DEF IsWorkPatch, Applied, WorkRows
<1>3. f = [state |-> f["state"], payload |-> f["payload"], completed |-> f["completed"]]
  BY <1>1
<1> QED
  BY <1>2, <1>3 DEF WorkRows

LEMMA TypeInit == Init => TypeOK
<1> SUFFICES ASSUME Init PROVE TypeOK
  OBVIOUS
<1>1. req \in [Slots -> {Idle} \cup KnowledgeRequests \cup AttachmentRequests]
  BY DEF Init, ServerInit
<1>2. served \in 0..MaxRequests /\ issues \subseteq Issues
  BY BoundAssumption, IssuesAssumption DEF Init, ServerInit
<1>3. KnowledgeTypeOK
  BY KnowledgeAssumption DEF Init, KnowledgeInit, KnowledgeTypeOK
<1>4. AttachmentsTypeOK
  BY AttachmentsAssumption DEF Init, AttachmentsInit, AttachmentsTypeOK
<1> QED
  BY <1>1, <1>2, <1>3, <1>4 DEF TypeOK

\* Steps of links, fragments and working sessions keep the types.
LEMMA LinkStepTyped ==
  ASSUME TypeOK, NEW s \in Slots,
         \/ \E f \in Fragments, t \in Targets, l \in NewId(Links) : BeginCreateLink(s, f, t, l)
         \/ ValidateTarget(s) \/ InsertLink(s) \/ CommitLink(s)
         \/ \E f \in Fragments, l \in Links : BeginDeleteLink(s, f, l)
         \/ FindLink(s) \/ CommitDropLink(s)
  PROVE  /\ req' \in [Slots -> Requests]
         /\ served' \in 0..MaxRequests
         /\ KnowledgeTypeOK'
<1> USE DEF Requests, KnowledgeRequests
<1>0. req[s] \in Requests /\ NewId(Links) \subseteq Links
  BY DEF TypeOK, NewId
<1>1. ASSUME NEW f \in Fragments, NEW t \in Targets, NEW l \in Links, BeginCreateLink(s, f, t, l)
      PROVE  req' \in [Slots -> Requests] /\ served' \in 0..MaxRequests /\ KnowledgeTypeOK'
  <2> DEFINE me == [pc |-> "target", link |-> l, fragment |-> f, target |-> t]
  <2>1. me \in Requests
    BY DEF LinkRequests
  <2> QED
    BY <1>1, <2>1, BeginTyped DEF BeginCreateLink, TypeOK, KnowledgeTypeOK, knowledge
<1>2. ASSUME ValidateTarget(s) \/ InsertLink(s)
      PROVE  req' \in [Slots -> Requests] /\ served' \in 0..MaxRequests /\ KnowledgeTypeOK'
  <2>1. req[s] \in LinkRequests
    BY <1>0, <1>2, KnowledgeShapes DEF ValidateTarget, InsertLink, At
  <2>2. [req[s] EXCEPT !.pc = "insert_link"] \in Requests
        /\ [req[s] EXCEPT !.pc = "commit_link"] \in Requests
    BY <2>1 DEF LinkRequests
  <2>3. req' \in [Slots -> Requests]
    BY <1>2, <2>2, BecomeTyped, EndTyped DEF ValidateTarget, InsertLink, Goto
  <2> QED
    BY <1>2, <2>3 DEF ValidateTarget, InsertLink, TypeOK, KnowledgeTypeOK, knowledge
<1>3. ASSUME CommitLink(s)
      PROVE  req' \in [Slots -> Requests] /\ served' \in 0..MaxRequests /\ KnowledgeTypeOK'
  <2>1. req[s] \in LinkRequests
    BY <1>0, <1>3, KnowledgeShapes DEF CommitLink, Inserting, At
  <2>2. NewLink(s) \in Ends
    BY <2>1 DEF LinkRequests, NewLink, Ends
  <2>3. links' \in [Links -> Ends \cup {None}]
    BY <1>3, <2>2 DEF CommitLink, TypeOK, KnowledgeTypeOK
  <2> QED
    BY <1>3, <2>3, EndTyped DEF CommitLink, TypeOK, KnowledgeTypeOK
<1>4. ASSUME NEW f \in Fragments, NEW l \in Links, BeginDeleteLink(s, f, l)
      PROVE  req' \in [Slots -> Requests] /\ served' \in 0..MaxRequests /\ KnowledgeTypeOK'
  <2> DEFINE me == [pc |-> "find_link", fragment |-> f, link |-> l]
  <2>1. me \in Requests
    BY DEF UnlinkRequests
  <2> QED
    BY <1>4, <2>1, BeginTyped DEF BeginDeleteLink, TypeOK, KnowledgeTypeOK, knowledge
<1>5. ASSUME FindLink(s) \/ CommitDropLink(s)
      PROVE  req' \in [Slots -> Requests] /\ served' \in 0..MaxRequests /\ KnowledgeTypeOK'
  <2>1. req[s] \in UnlinkRequests
    BY <1>0, <1>5, KnowledgeShapes DEF FindLink, CommitDropLink, At
  <2>2. [req[s] EXCEPT !.pc = "drop_link"] \in Requests
    BY <2>1 DEF UnlinkRequests
  <2>3. req' \in [Slots -> Requests]
    BY <1>5, <2>2, BecomeTyped, EndTyped DEF FindLink, CommitDropLink, Goto
  <2>4. links' \in [Links -> Ends \cup {None}]
    BY <1>5 DEF FindLink, CommitDropLink, TypeOK, KnowledgeTypeOK, knowledge
  <2> QED
    BY <1>5, <2>3, <2>4 DEF FindLink, CommitDropLink, TypeOK, KnowledgeTypeOK, knowledge
<1> HIDE DEF Requests, KnowledgeRequests
<1> QED
  BY <1>0, <1>1, <1>2, <1>3, <1>4, <1>5

LEMMA ListStepTyped ==
  ASSUME TypeOK, NEW s \in Slots,
         \/ \E f \in Fragments, kind \in Kinds \cup {None} : BeginGetLinks(s, f, kind)
         \/ ReadOutgoing(s) \/ ReadIncoming(s) \/ TurnLinks(s)
         \/ \E kind \in Kinds : Hydrate(s, kind)
         \/ Answer(s)
  PROVE  /\ req' \in [Slots -> Requests]
         /\ served' \in 0..MaxRequests
         /\ KnowledgeTypeOK'
<1> DEFINE Typed == req' \in [Slots -> Requests] /\ served' \in 0..MaxRequests /\ KnowledgeTypeOK'
<1>0. /\ req[s] \in Requests
      /\ ListRequests \subseteq Requests
      /\ links \in [Links -> Ends \cup {None}]
  BY DEF TypeOK, KnowledgeTypeOK, Requests, KnowledgeRequests
<1>1. ASSUME NEW f \in Fragments, NEW kind \in Kinds \cup {None}, BeginGetLinks(s, f, kind)
      PROVE  Typed
  <2>1. PICK there \in SUBSET Links :
          Begin(s, "get_links",
            [pc |-> "outgoing", fragment |-> f, kind |-> kind,
             seen |-> [k \in Links |-> None], incoming |-> {}, left |-> {}, hydrated |-> {},
             there |-> there])
    BY <1>1 DEF BeginGetLinks, LinksThere
  <2>2. [pc |-> "outgoing", fragment |-> f, kind |-> kind,
         seen |-> [k \in Links |-> None], incoming |-> {}, left |-> {}, hydrated |-> {},
         there |-> there] \in Requests
    BY <1>0 DEF ListRequests
  <2> QED
    BY <1>1, <2>1, <2>2, BeginTyped DEF BeginGetLinks, TypeOK, KnowledgeTypeOK, knowledge
<1>2. ASSUME ReadOutgoing(s) PROVE Typed
  <2>1. req[s] \in ListRequests
    BY <1>0, <1>2, KnowledgeShapes DEF ReadOutgoing, At
  <2>2. PICK out : Become(s, [req[s] EXCEPT !.pc = "incoming",
                                !.seen = [l \in Links |-> IF l \in out THEN links[l] ELSE None]])
    BY <1>2 DEF ReadOutgoing
  <2>3. [req[s] EXCEPT !.pc = "incoming",
           !.seen = [l \in Links |-> IF l \in out THEN links[l] ELSE None]] \in Requests
    BY <1>0, <2>1 DEF ListRequests
  <2> QED
    BY <1>2, <2>2, <2>3, BecomeTyped DEF ReadOutgoing, TypeOK, KnowledgeTypeOK, knowledge
<1>3. ASSUME ReadIncoming(s) PROVE Typed
  <2>1. req[s] \in ListRequests
    BY <1>0, <1>3, KnowledgeShapes DEF ReadIncoming, At
  <2> DEFINE in == Incoming(req[s].fragment, req[s].kind)
             pc == IF in \cup Seen(req[s]) = {} THEN "answer" ELSE "turn"
             seen == [l \in Links |-> IF l \in in \ Seen(req[s]) THEN links[l] ELSE req[s].seen[l]]
  <2>2. Become(s, [req[s] EXCEPT !.pc = pc, !.incoming = in, !.seen = seen])
    BY <1>3, <2>1 DEF ReadIncoming, ListRequests
  <2>3. in \subseteq Links /\ pc \in {"answer", "turn"} /\ seen \in [Links -> Ends \cup {None}]
    BY <1>0, <2>1 DEF Incoming, LinksThere, ListRequests
  <2> HIDE DEF in, pc, seen
  <2>4. [req[s] EXCEPT !.pc = pc, !.incoming = in, !.seen = seen] \in Requests
    BY <1>0, <2>1, <2>3 DEF ListRequests
  <2> QED
    BY <1>3, <2>2, <2>4, BecomeTyped DEF ReadIncoming, TypeOK, KnowledgeTypeOK, knowledge
<1>4. ASSUME TurnLinks(s) PROVE Typed
  <2>1. req[s] \in ListRequests
    BY <1>0, <1>4, KnowledgeShapes DEF TurnLinks, At
  <2>2. KindsShown(req[s]) \subseteq Kinds
    BY DEF KindsShown, KindOf, Kinds
  <2>3. [req[s] EXCEPT !.pc = "hydrate", !.left = KindsShown(req[s])] \in Requests
    BY <1>0, <2>1, <2>2 DEF ListRequests
  <2>4. req' \in [Slots -> Requests]
    BY <1>4, <2>3, BecomeTyped, EndTyped DEF TurnLinks
  <2> QED
    BY <1>4, <2>4 DEF TurnLinks, TypeOK, KnowledgeTypeOK, knowledge
<1>5. ASSUME NEW kind \in Kinds, Hydrate(s, kind) PROVE Typed
  <2>1. req[s] \in ListRequests
    BY <1>0, <1>5, KnowledgeShapes DEF Hydrate, At
  <2> DEFINE hydrated == req[s].hydrated \cup Hydrated(req[s], kind)
             left == req[s].left \ {kind}
             pc == IF req[s].left = {kind} THEN "answer" ELSE "hydrate"
  <2>2. Become(s, [req[s] EXCEPT !.hydrated = hydrated, !.left = left, !.pc = pc])
    BY <1>5, <2>1 DEF Hydrate, ListRequests
  <2>3. hydrated \subseteq Links /\ left \subseteq Kinds /\ pc \in {"answer", "hydrate"}
    BY <2>1 DEF Hydrated, Seen, ListRequests
  <2> HIDE DEF hydrated, left, pc
  <2>4. [req[s] EXCEPT !.hydrated = hydrated, !.left = left, !.pc = pc] \in Requests
    BY <1>0, <2>1, <2>3 DEF ListRequests
  <2> QED
    BY <1>5, <2>2, <2>4, BecomeTyped DEF Hydrate, TypeOK, KnowledgeTypeOK, knowledge
<1>6. ASSUME Answer(s) PROVE Typed
  BY <1>6, EndTyped DEF Answer, OnClose, TypeOK, KnowledgeTypeOK
<1> QED
  BY <1>1, <1>2, <1>3, <1>4, <1>5, <1>6

LEMMA RecordStepTyped ==
  ASSUME TypeOK, AuditReplays, WorksRead, NEW s \in Slots,
         \/ \E f \in NewId(Fragments), content \in Contents : CreateFragment(s, f, content)
         \/ \E f \in Fragments, patch \in FragmentPatches : BeginUpdateFragment(s, f, patch)
         \/ \E f \in Fragments : BeginDeleteFragment(s, f)
         \/ \E w \in NewId(Works), v \in Values : CreateWork(s, w, v)
         \/ \E w \in Works, patch \in WorkPatches : BeginUpdateWork(s, w, patch)
         \/ CommitFragment(s) \/ CommitDropFragment(s) \/ CommitWork(s)
  PROVE  /\ req' \in [Slots -> Requests]
         /\ served' \in 0..MaxRequests
         /\ KnowledgeTypeOK'
<1> DEFINE Typed == req' \in [Slots -> Requests] /\ served' \in 0..MaxRequests /\ KnowledgeTypeOK'
<1>0. /\ req[s] \in Requests /\ Idle \in Requests
      /\ EditRequests \cup DropRequests \cup WorkRequests \subseteq Requests
      /\ NewId(Fragments) \subseteq Fragments /\ NewId(Works) \subseteq Works
  BY DEF TypeOK, Requests, KnowledgeRequests, NewId
<1>1. ASSUME NEW f \in Fragments, NEW content \in Contents, CreateFragment(s, f, content)
      PROVE  Typed
  BY <1>0, <1>1, BeginTyped DEF CreateFragment, TypeOK, KnowledgeTypeOK
<1>2. ASSUME NEW f \in Fragments, NEW patch \in FragmentPatches, BeginUpdateFragment(s, f, patch)
      PROVE  Typed
  <2>1. fragments[f] \in Contents
    BY <1>2 DEF BeginUpdateFragment, Stored, TypeOK, KnowledgeTypeOK
  <2>2. [pc |-> "write_fragment", fragment |-> f, patch |-> patch, read |-> fragments[f]]
          \in Requests
    BY <1>0, <2>1 DEF EditRequests
  <2> QED
    BY <1>2, <2>2, BeginTyped DEF BeginUpdateFragment, TypeOK, KnowledgeTypeOK, knowledge
<1>3. ASSUME NEW f \in Fragments, BeginDeleteFragment(s, f) PROVE Typed
  <2>1. [pc |-> "drop_fragment", fragment |-> f] \in Requests
    BY <1>0 DEF DropRequests
  <2> QED
    BY <1>3, <2>1, BeginTyped DEF BeginDeleteFragment, TypeOK, KnowledgeTypeOK, knowledge
<1>4. ASSUME NEW w \in Works, NEW v \in Values, CreateWork(s, w, v) PROVE Typed
  <2>1. [state |-> "active", payload |-> v, completed |-> None] \in WorkRows
    BY DEF WorkRows, WorkStates
  <2>2. works' \in [Works -> WorkRows \cup {None}]
    BY <1>4, <2>1 DEF CreateWork, TypeOK, KnowledgeTypeOK
  <2> QED
    BY <1>0, <1>4, <2>2, BeginTyped DEF CreateWork, TypeOK, KnowledgeTypeOK
<1>5. ASSUME NEW w \in Works, NEW patch \in WorkPatches, BeginUpdateWork(s, w, patch)
      PROVE  Typed
  <2>1. works[w] \in WorkRows /\ served + 1 \in 0..MaxRequests
    BY <1>5, BoundAssumption DEF BeginUpdateWork, Begin, TypeOK, KnowledgeTypeOK
  <2>2. [pc |-> "write_work", work |-> w, patch |-> patch, read |-> works[w], n |-> served + 1]
          \in Requests
    BY <1>0, <2>1 DEF WorkRequests
  <2> QED
    BY <1>5, <2>2, BeginTyped DEF BeginUpdateWork, TypeOK, KnowledgeTypeOK, knowledge
<1>6. ASSUME CommitFragment(s) PROVE Typed
  <2> DEFINE me == req[s]
  <2>1. me \in EditRequests
    BY <1>0, <1>6, KnowledgeShapes DEF CommitFragment, At
  <2>2. /\ me.fragment \in Fragments /\ me.patch \in FragmentPatches
        /\ Changes(me.read, me.patch) \subseteq DOMAIN me.patch
        /\ Told(me) \subseteq DOMAIN me.patch
    BY <2>1 DEF EditRequests, Changes, Told
  <2>3. \A row \in Contents : /\ Applied(row, me.patch, Changes(me.read, me.patch)) \in Contents
                              /\ Applied(row, me.patch, Told(me)) \in Contents
    BY <2>2, AppliedFragment
  <2>4. CASE me.fragment \in Stored
    <3>1. fragments[me.fragment] \in Contents /\ history[me.fragment] \in Contents
      BY <2>2, <2>4 DEF AuditReplays, Stored, TypeOK, KnowledgeTypeOK
    <3> QED
      BY <1>6, <2>2, <2>3, <2>4, <3>1, EndTyped DEF CommitFragment, TypeOK, KnowledgeTypeOK
  <2>5. CASE me.fragment \notin Stored
    BY <1>6, <2>5, EndTyped DEF CommitFragment, TypeOK, KnowledgeTypeOK
  <2> QED
    BY <2>4, <2>5
<1>7. ASSUME CommitDropFragment(s) PROVE Typed
  BY <1>7, EndTyped DEF CommitDropFragment, TypeOK, KnowledgeTypeOK
<1>8. ASSUME CommitWork(s) PROVE Typed
  <2> DEFINE me == req[s]
             row == Applied(works[me.work], me.patch, Changes(me.read, me.patch))
             written == IF Finishes(me) THEN [row EXCEPT !.completed = me.n] ELSE row
  <2>1. me \in WorkRequests
    BY <1>0, <1>8, KnowledgeShapes DEF CommitWork, At
  <2>2. /\ me.work \in Works /\ me.patch \in WorkPatches /\ me.n \in 0..MaxRequests
        /\ Changes(me.read, me.patch) \subseteq DOMAIN me.patch
    BY <2>1 DEF WorkRequests, Changes
  <2>3. works[me.work] \in WorkRows
    BY <1>8, <2>2 DEF CommitWork, WorksRead, TypeOK, KnowledgeTypeOK
  <2>4. row \in WorkRows
    BY <2>2, <2>3, AppliedWork
  <2>5. works' = [works EXCEPT ![me.work] = written]
    BY <1>8 DEF CommitWork
  <2> HIDE DEF row
  <2>6. written \in WorkRows
    BY <2>2, <2>4 DEF WorkRows
  <2> HIDE DEF written
  <2>7. works' \in [Works -> WorkRows \cup {None}]
    BY <2>2, <2>5, <2>6 DEF TypeOK, KnowledgeTypeOK
  <2> QED
    BY <1>8, <2>7, EndTyped DEF CommitWork, TypeOK, KnowledgeTypeOK
<1> QED
  BY <1>0, <1>1, <1>2, <1>3, <1>4, <1>5, <1>6, <1>7, <1>8

LEMMA FlushedTyped ==
  ASSUME NEW me \in IssueRequests
  PROVE  Flushed(me) \in IssueRequests
BY DEF IssueRequests, Flushed

\* Creation and PATCH of an issue.
LEMMA IssueStepTyped ==
  ASSUME TypeOK, NEW s \in Slots,
         \/ \E i \in NewId(Issues), ls \in SUBSET Labels : BeginFile(s, i, ls)
         \/ \E i \in Issues, changing \in Changing : BeginTouch(s, i, changing)
         \/ InsertIssue(s) \/ LoadRules(s) \/ WriteIssue(s)
         \/ \E r \in Rules, row \in NewRows : AddRow(s, r, row)
         \/ \E r \in Rules : FindLabel(s, r)
         \/ FindTag(s) \/ CommitIssue(s)
  PROVE  /\ req' \in [Slots -> Requests]
         /\ served' \in 0..MaxRequests
         /\ issues' \subseteq Issues
         /\ AttachmentsTypeOK'
<1> DEFINE Typed == /\ req' \in [Slots -> Requests] /\ served' \in 0..MaxRequests
                    /\ issues' \subseteq Issues /\ AttachmentsTypeOK'
<1>0. /\ req[s] \in Requests /\ IssueRequests \subseteq Requests
      /\ NewId(Issues) \subseteq Issues
      /\ \A l \in Labels : TagRow(l) \in NewRows
      /\ rules \in [Rules -> RuleRows \cup {None}]
  BY DEF TypeOK, AttachmentsTypeOK, Requests, AttachmentRequests, NewId, NewRows
<1> DEFINE me == req[s]
<1>1. ASSUME NEW i \in Issues, NEW ls \in SUBSET Labels, BeginFile(s, i, ls) PROVE Typed
  <2>1. {TagRow(l) : l \in ls} \subseteq NewRows
    BY <1>0
  <2>2. Writing("insert_issue", i, TRUE, FALSE, {TagRow(l) : l \in ls}) \in Requests
    BY <1>0, <2>1 DEF Writing, IssueRequests
  <2> QED
    BY <1>1, <2>2, BeginTyped DEF BeginFile, TypeOK, AttachmentsTypeOK, attachments
<1>2. ASSUME NEW i \in Issues, NEW changing \in Changing, BeginTouch(s, i, changing) PROVE Typed
  <2>1. changing \in BOOLEAN
    BY AttachmentsAssumption
  <2>2. Writing("load", i, FALSE, changing, {}) \in Requests
    BY <1>0, <2>1 DEF Writing, IssueRequests
  <2> QED
    BY <1>2, <2>2, BeginTyped DEF BeginTouch, TypeOK, AttachmentsTypeOK, attachments
<1>3. ASSUME InsertIssue(s) PROVE Typed
  <2>1. me \in IssueRequests
    BY <1>0, <1>3, AttachmentShapes DEF InsertIssue, At
  <2>2. [Flushed(me) EXCEPT !.pc = "load"] \in Requests
    BY <1>0, <2>1, FlushedTyped DEF IssueRequests
  <2>3. req' \in [Slots -> Requests]
    BY <1>3, <2>2, BecomeTyped, EndTyped DEF InsertIssue
  <2> QED
    BY <1>3, <2>3 DEF InsertIssue, TypeOK, AttachmentsTypeOK, attachments
<1>4. ASSUME LoadRules(s) PROVE Typed
  <2> DEFINE pc == IF me.new THEN "effects" ELSE "write_issue"
             effect == [r \in Rules |-> IF r \in Enabled THEN rules[r].effect ELSE None]
  <2>1. me \in IssueRequests
    BY <1>0, <1>4, AttachmentShapes DEF LoadRules, At
  <2>2. effect \in [Rules -> Effects \cup {None}] /\ Enabled \subseteq Rules
    BY <1>0 DEF Enabled, RuleRows
  <2>3. Become(s, [me EXCEPT !.pc = pc, !.left = Enabled, !.effect = effect])
    BY <1>4 DEF LoadRules
  <2> HIDE DEF effect
  <2>4. [me EXCEPT !.pc = pc, !.left = Enabled, !.effect = effect] \in Requests
    BY <1>0, <2>1, <2>2 DEF IssueRequests
  <2> QED
    BY <1>4, <2>3, <2>4, BecomeTyped DEF LoadRules, TypeOK, AttachmentsTypeOK, attachments
<1>5. ASSUME WriteIssue(s) PROVE Typed
  <2>1. me \in IssueRequests
    BY <1>0, <1>5, AttachmentShapes DEF WriteIssue, At
  <2>2. [me EXCEPT !.pc = "effects"] \in Requests
    BY <1>0, <2>1 DEF IssueRequests
  <2>3. req' \in [Slots -> Requests]
    BY <1>5, <2>2, BecomeTyped, EndTyped DEF WriteIssue, Goto
  <2> QED
    BY <1>5, <2>3 DEF WriteIssue, TypeOK, AttachmentsTypeOK, attachments
<1>6. ASSUME NEW r \in Rules, NEW row \in NewRows, AddRow(s, r, row) PROVE Typed
  <2>1. me \in IssueRequests
    BY <1>0, <1>6, AttachmentShapes DEF AddRow, At
  <2>2. [me EXCEPT !.left = @ \ {r}, !.pending = @ \cup {row}] \in Requests
    BY <1>0, <2>1 DEF IssueRequests
  <2> QED
    BY <1>6, <2>2, BecomeTyped DEF AddRow, TypeOK, AttachmentsTypeOK, attachments
<1>7. ASSUME NEW r \in Rules, FindLabel(s, r) PROVE Typed
  <2> DEFINE after == [Flushed(me) EXCEPT !.left = @ \ {r}]
  <2>0. me \in IssueRequests /\ me.pc = "effects"
    BY <1>0, <1>7, AttachmentShapes DEF FindLabel, At
  <2>1. Flushed(me) \in IssueRequests /\ Flushed(me).pc = "effects"
    BY <2>0, FlushedTyped DEF Flushed, IssueRequests
  <2>2. after \in IssueRequests /\ after.pc = "effects"
    BY <2>1 DEF IssueRequests
  <2>3. \/ End(s) \/ Become(s, after)
        \/ \E l \in Labels : Become(s, [after EXCEPT !.pc = "find_tag", !.label = l])
    BY <1>7 DEF FindLabel
  <2> HIDE DEF after
  <2>4. \A l \in Labels : [after EXCEPT !.pc = "find_tag", !.label = l] \in Requests
    BY <1>0, <2>2 DEF IssueRequests
  <2>5. req' \in [Slots -> Requests]
    BY <1>0, <2>2, <2>3, <2>4, BecomeTyped, EndTyped
  <2> QED
    BY <1>7, <2>5 DEF FindLabel, TypeOK, AttachmentsTypeOK, attachments
<1>8. ASSUME FindTag(s) PROVE Typed
  <2>1. me \in IssueRequests
    BY <1>0, <1>8, AttachmentShapes DEF FindTag, At
  <2> DEFINE rows == IF TagThere(s) THEN me.pending ELSE me.pending \cup {TagRow(me.label)}
  <2>2. Become(s, [me EXCEPT !.pc = "effects", !.pending = rows])
    BY <1>8, <2>1 DEF FindTag, IssueRequests
  <2>3. rows \subseteq NewRows
    BY <1>0, <1>8, <2>1 DEF FindTag, At, IssueRequests
  <2>4. [me EXCEPT !.pc = "effects", !.pending = rows] \in Requests
    BY <1>0, <2>1, <2>3 DEF IssueRequests
  <2> QED
    BY <1>8, <2>2, <2>4, BecomeTyped DEF FindTag, TypeOK, AttachmentsTypeOK, attachments
<1>9. ASSUME CommitIssue(s) PROVE Typed
  <2>1. me \in IssueRequests
    BY <1>0, <1>9, AttachmentShapes DEF CommitIssue, At
  <2>2. me.issue \in Issues
    BY <2>1 DEF IssueRequests
  <2>3. CASE FlushFails(me)
    BY <1>9, <2>3, EndTyped DEF CommitIssue, TypeOK, AttachmentsTypeOK, attachments
  <2>4. CASE ~FlushFails(me)
    <3>1. PICK ls \in SUBSET Labels : tags' = tags \cup {<<me.issue, l>> : l \in ls}
      BY <1>9, <2>4 DEF CommitIssue
    <3>2. PICK rs \in SUBSET Rules :
            notes' = notes \cup {[rule |-> r, issue |-> me.issue, read |-> FALSE] : r \in rs}
      BY <1>9, <2>4 DEF CommitIssue
    <3>3. /\ issues' \subseteq issues \cup {me.issue} /\ comments' \subseteq comments \cup {me.issue}
          /\ UNCHANGED <<labels, rules, told, served>>
      BY <1>9, <2>4 DEF CommitIssue
    <3>4. tags' \subseteq Issues \X Labels
      <4>1. {<<me.issue, l>> : l \in ls} \subseteq Issues \X Labels
        BY <2>2
      <4> QED
        BY <3>1, <4>1 DEF TypeOK, AttachmentsTypeOK
    <3>9. notes' \subseteq [rule : Rules, issue : Issues, read : BOOLEAN]
      <4>1. \A r \in rs : [rule |-> r, issue |-> me.issue, read |-> FALSE]
                           \in [rule : Rules, issue : Issues, read : BOOLEAN]
        BY <2>2
      <4>2. {[rule |-> r, issue |-> me.issue, read |-> FALSE] : r \in rs}
              \subseteq [rule : Rules, issue : Issues, read : BOOLEAN]
        BY <4>1, Zenon
      <4>3. notes \subseteq [rule : Rules, issue : Issues, read : BOOLEAN]
        BY DEF TypeOK, AttachmentsTypeOK
      <4> QED
        BY <3>2, <4>2, <4>3, Zenon
    <3>5. issues' \subseteq Issues /\ comments' \subseteq Issues
      BY <2>2, <3>3 DEF TypeOK, AttachmentsTypeOK
    <3>6. req' \in [Slots -> Requests]
      BY <1>9, EndTyped DEF CommitIssue
    <3>7. /\ served' = served /\ labels' = labels /\ rules' = rules /\ told' = told
      BY <3>3
    <3>8. AttachmentsTypeOK'
      BY <3>4, <3>5, <3>7, <3>9 DEF TypeOK, AttachmentsTypeOK
    <3> QED
      BY <3>5, <3>6, <3>7, <3>8 DEF TypeOK
  <2> QED
    BY <2>3, <2>4
<1> QED
  BY <1>0, <1>1, <1>2, <1>3, <1>4, <1>5, <1>6, <1>7, <1>8, <1>9

\* Deletion of issues, comments, and marks on notifications.
LEMMA AroundStepTyped ==
  ASSUME TypeOK, NEW s \in Slots,
         \/ \E i \in Issues : BeginDropIssue(s, i) \/ BeginComment(s, i)
         \/ \E n \in notes : MarkRead(s, {n})
         \/ MarkRead(s, notes)
         \/ CommitDropIssue(s) \/ CommitComment(s)
  PROVE  /\ req' \in [Slots -> Requests]
         /\ served' \in 0..MaxRequests
         /\ issues' \subseteq Issues
         /\ AttachmentsTypeOK'
<1> DEFINE Typed == /\ req' \in [Slots -> Requests] /\ served' \in 0..MaxRequests
                    /\ issues' \subseteq Issues /\ AttachmentsTypeOK'
<1>0. /\ req[s] \in Requests /\ Idle \in Requests /\ OtherIssueRequests \subseteq Requests
  BY DEF TypeOK, Requests, AttachmentRequests
<1>1. ASSUME NEW i \in Issues, BeginDropIssue(s, i) \/ BeginComment(s, i) PROVE Typed
  <2>1. /\ [pc |-> "drop_issue", issue |-> i] \in Requests
        /\ [pc |-> "comment", issue |-> i] \in Requests
    BY <1>0 DEF OtherIssueRequests
  <2> QED
    BY <1>1, <2>1, BeginTyped DEF BeginDropIssue, BeginComment, TypeOK, AttachmentsTypeOK, attachments
<1>2. ASSUME NEW marked \in SUBSET notes, MarkRead(s, marked) PROVE Typed
  <2>1. req' \in [Slots -> Requests] /\ served' \in 0..MaxRequests
    BY <1>0, <1>2, BeginTyped DEF MarkRead
  <2> DEFINE Notes == [rule : Rules, issue : Issues, read : BOOLEAN]
  <2>2. notes \subseteq Notes
    BY DEF TypeOK, AttachmentsTypeOK
  <2>3. \A n \in Notes : [n EXCEPT !.read = TRUE] \in Notes
    OBVIOUS
  <2> HIDE DEF Notes
  <2>4. {[n EXCEPT !.read = TRUE] : n \in marked} \subseteq Notes
    BY <2>2, <2>3, Zenon
  <2>5. notes' \subseteq Notes
    BY <1>2, <2>2, <2>4 DEF MarkRead
  <2> QED
    BY <1>2, <2>1, <2>5 DEF MarkRead, TypeOK, AttachmentsTypeOK, Notes
<1>3. ASSUME CommitDropIssue(s) \/ CommitComment(s) PROVE Typed
  <2>1. req[s] \in OtherIssueRequests
    BY <1>0, <1>3, AttachmentShapes DEF CommitDropIssue, CommitComment, At
  <2>2. /\ issues' \subseteq Issues /\ comments' \subseteq Issues /\ tags' \subseteq tags
        /\ UNCHANGED <<labels, notes, rules, told, served>>
    BY <1>3, <2>1 DEF CommitDropIssue, CommitComment, OtherIssueRequests, TypeOK, AttachmentsTypeOK
  <2>3. req' \in [Slots -> Requests]
    BY <1>3, EndTyped DEF CommitDropIssue, CommitComment
  <2> QED
    BY <2>2, <2>3 DEF TypeOK, AttachmentsTypeOK
<1> QED
  BY <1>1, <1>2, <1>3

\* Labels and rules.
LEMMA AdminStepTyped ==
  ASSUME TypeOK, AuditReplays, NEW s \in Slots,
         \/ \E l \in NewId(Labels), n \in Names : BeginCreateLabel(s, l, n)
         \/ \E l \in Labels, n \in Names : BeginRename(s, l, n)
         \/ \E l \in Labels : BeginDropLabel(s, l)
         \/ \E r \in NewId(Rules), row \in RuleRows : CreateRule(s, r, row)
         \/ \E r \in Rules, patch \in RulePatches : BeginUpdateRule(s, r, patch)
         \/ \E r \in Rules : BeginDropRule(s, r)
         \/ CommitLabel(s) \/ CommitRename(s) \/ CommitDropLabel(s)
         \/ CommitRule(s) \/ CommitDropRule(s)
  PROVE  /\ req' \in [Slots -> Requests]
         /\ served' \in 0..MaxRequests
         /\ issues' \subseteq Issues
         /\ AttachmentsTypeOK'
<1> DEFINE Typed == /\ req' \in [Slots -> Requests] /\ served' \in 0..MaxRequests
                    /\ issues' \subseteq Issues /\ AttachmentsTypeOK'
<1>0. /\ req[s] \in Requests /\ Idle \in Requests
      /\ LabelRequests \cup RuleRequests \subseteq Requests
      /\ NewId(Labels) \subseteq Labels /\ NewId(Rules) \subseteq Rules
  BY DEF TypeOK, Requests, AttachmentRequests, NewId
<1>1. ASSUME NEW l \in Labels, NEW n \in Names,
             BeginCreateLabel(s, l, n) \/ BeginRename(s, l, n)
      PROVE  Typed
  <2>1. [pc |-> "commit_label", label |-> l, name |-> n] \in Requests
    BY <1>0 DEF LabelRequests
  <2>2. labels[l] # None =>
          [pc |-> "rename", label |-> l, name |-> n, read |-> labels[l]] \in Requests
    BY <1>0 DEF LabelRequests, TypeOK, AttachmentsTypeOK
  <2> QED
    BY <1>1, <2>1, <2>2, BeginTyped
       DEF BeginCreateLabel, BeginRename, TypeOK, AttachmentsTypeOK, attachments
<1>2. ASSUME NEW l \in Labels, BeginDropLabel(s, l) PROVE Typed
  <2>1. [pc |-> "drop_label", label |-> l] \in Requests
    BY <1>0 DEF LabelRequests
  <2> QED
    BY <1>2, <2>1, BeginTyped DEF BeginDropLabel, TypeOK, AttachmentsTypeOK, attachments
<1>3. ASSUME NEW r \in Rules, NEW row \in RuleRows, CreateRule(s, r, row) PROVE Typed
  BY <1>0, <1>3, BeginTyped DEF CreateRule, TypeOK, AttachmentsTypeOK
<1>4. ASSUME NEW r \in Rules, NEW patch \in RulePatches, BeginUpdateRule(s, r, patch) PROVE Typed
  <2>1. rules[r] \in RuleRows
    BY <1>4 DEF BeginUpdateRule, TypeOK, AttachmentsTypeOK
  <2>2. [pc |-> "write_rule", rule |-> r, patch |-> patch, read |-> rules[r]] \in Requests
    BY <1>0, <2>1 DEF RuleRequests
  <2> QED
    BY <1>4, <2>2, BeginTyped DEF BeginUpdateRule, TypeOK, AttachmentsTypeOK, attachments
<1>5. ASSUME NEW r \in Rules, BeginDropRule(s, r) PROVE Typed
  <2>1. [pc |-> "drop_rule", rule |-> r] \in Requests
    BY <1>0 DEF RuleRequests
  <2> QED
    BY <1>5, <2>1, BeginTyped DEF BeginDropRule, TypeOK, AttachmentsTypeOK, attachments
<1>6. ASSUME CommitLabel(s) \/ CommitRename(s) \/ CommitDropLabel(s) PROVE Typed
  <2>1. req[s] \in LabelRequests
    BY <1>0, <1>6, AttachmentShapes DEF CommitLabel, CommitRename, CommitDropLabel, At
  <2>2. At(s, "commit_label") \/ At(s, "rename") => req[s].name \in Names
    BY <2>1 DEF LabelRequests, At
  <2>3. labels' \in [Labels -> Names \cup {None}]
    BY <1>6, <2>2 DEF CommitLabel, CommitRename, CommitDropLabel, TypeOK, AttachmentsTypeOK
  <2>4. req' \in [Slots -> Requests] /\ tags' \subseteq tags
    BY <1>6, EndTyped DEF CommitLabel, CommitRename, CommitDropLabel
  <2> QED
    BY <1>6, <2>3, <2>4 DEF CommitLabel, CommitRename, CommitDropLabel, TypeOK, AttachmentsTypeOK
<1>7. ASSUME CommitRule(s) PROVE Typed
  <2> DEFINE me == req[s]
             row == Rewritten(rules[me.rule], me.patch, Sent(me))
  <2>1. me \in RuleRequests /\ me.pc = "write_rule"
    BY <1>0, <1>7, AttachmentShapes DEF CommitRule, At
  <2>2. me.rule \in Rules /\ me.patch \in RulePatches
    BY <2>1 DEF RuleRequests
  <2>3. CASE rules[me.rule] = None
    BY <1>7, <2>3, EndTyped DEF CommitRule, TypeOK, AttachmentsTypeOK
  <2>4. CASE rules[me.rule] # None
    <3>1. rules[me.rule] \in RuleRows
      BY <2>2, <2>4 DEF TypeOK, AttachmentsTypeOK
    <3>2. row = [enabled |-> row["enabled"], effect |-> row["effect"]]
      BY <3>1 DEF RuleRows, Rewritten
    <3>3. row["enabled"] \in BOOLEAN /\ row["effect"] \in Effects
      BY <2>2, <3>1, AttachmentsAssumption DEF RuleRows, Rewritten, IsRulePatch, Sent, Differing
    <3>4. row \in RuleRows
      BY <3>2, <3>3 DEF RuleRows
    <3>5. /\ rules' = [rules EXCEPT ![me.rule] = row]
          /\ told' = [told EXCEPT ![me.rule] = row]
      BY <1>7, <2>2, <2>4 DEF CommitRule, Sent, AuditReplays, TypeOK, AttachmentsTypeOK
    <3> HIDE DEF row
    <3>6. rules' \in [Rules -> RuleRows \cup {None}] /\ told' \in [Rules -> RuleRows \cup {None}]
      BY <2>2, <3>4, <3>5 DEF TypeOK, AttachmentsTypeOK
    <3> QED
      BY <1>7, <3>6, EndTyped DEF CommitRule, TypeOK, AttachmentsTypeOK
  <2> QED
    BY <2>3, <2>4
<1>8. ASSUME CommitDropRule(s) PROVE Typed
  BY <1>8, EndTyped DEF CommitDropRule, TypeOK, AttachmentsTypeOK
<1> QED
  BY <1>0, <1>1, <1>2, <1>3, <1>4, <1>5, <1>6, <1>7, <1>8


-----------------------------------------------------------------------------
(* Where a step takes its request.  A step of a request leaves the others  *)
(* alone.                                                                  *)

WritingStages == {"insert_issue", "load", "write_issue", "effects", "find_tag"}
LinkStages == {"target", "insert_link", "commit_link"}
KnowledgeStages ==
  LinkStages \cup {"outgoing", "incoming", "turn", "hydrate", "answer", "find_link", "drop_link",
                   "write_fragment", "drop_fragment", "write_work"}

OthersKept(s) == \A o \in Slots \ {s} : req'[o] = req[o]

LEMMA BecomeStage ==
  ASSUME TypeOK, NEW s \in Slots, NEW me, Become(s, me)
  PROVE  req'[s] = me /\ OthersKept(s)
BY DEF TypeOK, Become, OthersKept

LEMMA EndStage ==
  ASSUME TypeOK, NEW s \in Slots, End(s)
  PROVE  req'[s] = Idle /\ req'[s].pc = "idle" /\ OthersKept(s)
BY BecomeStage DEF End, Idle

LEMMA BeginStage ==
  ASSUME TypeOK, NEW s \in Slots, NEW op, NEW me, Begin(s, op, me)
  PROVE  req'[s] = me /\ OthersKept(s)
BY DEF TypeOK, Begin, OthersKept

LEMMA GotoStage ==
  ASSUME TypeOK, NEW s \in Slots, NEW label, req[s].pc # "idle", Goto(s, label)
  PROVE  req'[s] = [req[s] EXCEPT !.pc = label] /\ req'[s].pc = label /\ OthersKept(s)
<1>1. req[s] \in Requests
  BY DEF TypeOK, Requests
<1>2. [req[s] EXCEPT !.pc = label].pc = label
  BY <1>1 DEF Requests, KnowledgeRequests, AttachmentRequests, Idle, LinkRequests, ListRequests,
       UnlinkRequests, EditRequests, DropRequests, WorkRequests, IssueRequests,
       OtherIssueRequests, LabelRequests, RuleRequests
<1> QED
  BY <1>2, BecomeStage DEF Goto

LEMMA KnowledgeStage ==
  ASSUME TypeOK, NEW s \in Slots, AskKnowledge(s) \/ ServeKnowledge(s)
  PROVE  /\ OthersKept(s)
         /\ req'[s].pc \in KnowledgeStages \cup {"idle"}
         /\ req'[s].pc = "target" =>
              \E f \in Fragments, t \in Targets, l \in NewId(Links) : BeginCreateLink(s, f, t, l)
         /\ req'[s].pc = "insert_link" => ValidateTarget(s)
         /\ req'[s].pc = "commit_link" => InsertLink(s)
         /\ req'[s].pc = "write_work" =>
              \E w \in Works, patch \in WorkPatches : BeginUpdateWork(s, w, patch)
<1> DEFINE Stage == req'[s].pc
           Elsewhere == /\ OthersKept(s)
                        /\ Stage \in KnowledgeStages \cup {"idle"}
                        /\ Stage \notin LinkStages \cup {"write_work"}
<1> USE DEF KnowledgeStages, LinkStages
<1>0. req[s] \in Requests
  BY DEF TypeOK, Requests
<1>1. ASSUME NEW f \in Fragments, NEW t \in Targets, NEW l \in NewId(Links),
             BeginCreateLink(s, f, t, l)
      PROVE  OthersKept(s) /\ Stage = "target"
  BY <1>1, BeginStage DEF BeginCreateLink
<1>2. ASSUME ValidateTarget(s) PROVE OthersKept(s) /\ Stage \in {"insert_link", "idle"}
  BY <1>2, GotoStage, EndStage DEF ValidateTarget, At
<1>3. ASSUME InsertLink(s) PROVE OthersKept(s) /\ Stage \in {"commit_link", "idle"}
  BY <1>3, GotoStage, EndStage DEF InsertLink, At
<1>4. ASSUME CommitLink(s) \/ Answer(s) \/ CommitDropLink(s) \/ CommitFragment(s)
               \/ CommitDropFragment(s) \/ CommitWork(s)
      PROVE  Elsewhere
  BY <1>4, EndStage DEF CommitLink, Answer, CommitDropLink, CommitFragment, CommitDropFragment,
       CommitWork
<1>5. ASSUME NEW f \in Fragments, NEW kind \in Kinds \cup {None}, BeginGetLinks(s, f, kind)
      PROVE  Elsewhere
  BY <1>5, BeginStage DEF BeginGetLinks
<1>6. ASSUME ReadOutgoing(s) \/ ReadIncoming(s) \/ TurnLinks(s) \/ (\E kind \in Kinds : Hydrate(s, kind))
      PROVE  Elsewhere
  <2>1. req[s] \in ListRequests
    BY <1>0, <1>6, KnowledgeShapes DEF ReadOutgoing, ReadIncoming, TurnLinks, Hydrate, At
  <2>2. CASE ReadOutgoing(s)
    <3>1. PICK seen : Become(s, [req[s] EXCEPT !.pc = "incoming", !.seen = seen])
      BY <2>2 DEF ReadOutgoing
    <3>2. [req[s] EXCEPT !.pc = "incoming", !.seen = seen].pc = "incoming"
      BY <2>1 DEF ListRequests
    <3> QED
      BY <3>1, <3>2, BecomeStage
  <2>3. CASE ReadIncoming(s)
    <3> DEFINE in == Incoming(req[s].fragment, req[s].kind)
               pc == IF in \cup Seen(req[s]) = {} THEN "answer" ELSE "turn"
               seen == [l \in Links |->
                          IF l \in in \ Seen(req[s]) THEN links[l] ELSE req[s].seen[l]]
    <3>1. Become(s, [req[s] EXCEPT !.pc = pc, !.incoming = in, !.seen = seen])
      BY <2>1, <2>3 DEF ReadIncoming, ListRequests
    <3>3. pc \in {"answer", "turn"}
      OBVIOUS
    <3> HIDE DEF in, pc, seen
    <3>2. [req[s] EXCEPT !.pc = pc, !.incoming = in, !.seen = seen].pc = pc
      BY <2>1 DEF ListRequests
    <3> QED
      BY <3>1, <3>2, <3>3, BecomeStage
  <2>4. CASE TurnLinks(s)
    <3>1. [req[s] EXCEPT !.pc = "hydrate", !.left = KindsShown(req[s])].pc = "hydrate"
      BY <2>1 DEF ListRequests
    <3> QED
      BY <2>4, <3>1, BecomeStage, EndStage DEF TurnLinks
  <2>5. CASE \E kind \in Kinds : Hydrate(s, kind)
    <3>1. PICK hydrated, left, pc :
            /\ pc \in {"answer", "hydrate"}
            /\ Become(s, [req[s] EXCEPT !.hydrated = hydrated, !.left = left, !.pc = pc])
      BY <2>5 DEF Hydrate
    <3>2. [req[s] EXCEPT !.hydrated = hydrated, !.left = left, !.pc = pc].pc = pc
      BY <2>1 DEF ListRequests
    <3> QED
      BY <3>1, <3>2, BecomeStage
  <2> QED
    BY <1>6, <2>2, <2>3, <2>4, <2>5
<1>7. ASSUME NEW f \in Fragments, NEW l \in Links, BeginDeleteLink(s, f, l) PROVE Elsewhere
  BY <1>7, BeginStage DEF BeginDeleteLink
<1>8. ASSUME FindLink(s) PROVE Elsewhere
  <2>1. req[s].pc # "idle" /\ (Goto(s, "drop_link") \/ End(s))
    BY <1>8 DEF FindLink, At
  <2>2. OthersKept(s) /\ Stage \in {"drop_link", "idle"}
    BY <2>1, GotoStage, EndStage
  <2> QED
    BY <2>2
<1>9. ASSUME NEW f \in Fragments, NEW content \in Contents, CreateFragment(s, f, content)
      PROVE  Elsewhere
  <2>1. req'[s] = Idle /\ OthersKept(s)
    BY <1>9, BeginStage DEF CreateFragment
  <2>2. Idle.pc = "idle"
    BY DEF Idle
  <2> QED
    BY <2>1, <2>2
<1>10. ASSUME NEW f \in Fragments, NEW patch \in FragmentPatches, BeginUpdateFragment(s, f, patch)
       PROVE  Elsewhere
  BY <1>10, BeginStage DEF BeginUpdateFragment
<1>16. ASSUME NEW f \in Fragments, BeginDeleteFragment(s, f) PROVE Elsewhere
  BY <1>16, BeginStage DEF BeginDeleteFragment
<1>11. ASSUME NEW w \in Works, NEW v \in Values, CreateWork(s, w, v) PROVE Elsewhere
  <2>1. req'[s] = Idle /\ OthersKept(s)
    BY <1>11, BeginStage DEF CreateWork
  <2>2. Idle.pc = "idle"
    BY DEF Idle
  <2> QED
    BY <2>1, <2>2
<1>12. ASSUME NEW w \in Works, NEW patch \in WorkPatches, BeginUpdateWork(s, w, patch)
       PROVE  OthersKept(s) /\ Stage = "write_work"
  BY <1>12, BeginStage DEF BeginUpdateWork
<1>13. NewId(Fragments) \subseteq Fragments /\ NewId(Works) \subseteq Works
  BY DEF NewId
<1> HIDE DEF Stage, Elsewhere
<1>14. CASE AskKnowledge(s)
  BY <1>14, <1>1, <1>5, <1>7, <1>9, <1>10, <1>11, <1>12, <1>13, <1>16 DEF AskKnowledge, Elsewhere, Stage
<1>15. CASE ServeKnowledge(s)
  BY <1>15, <1>2, <1>3, <1>4, <1>6, <1>8 DEF ServeKnowledge, Elsewhere, Stage
<1> QED
  BY <1>14, <1>15

\* What a step of a creation or PATCH of an issue leaves in its slot.
SameIssue(s) ==
  /\ req'[s] \in IssueRequests
  /\ req'[s].issue = req[s].issue /\ req'[s].new = req[s].new /\ req'[s].locks = req[s].locks

SendsRows(s) ==
  /\ ~FlushFails(req[s])
  /\ req'[s].held = req[s].held \cup req[s].pending /\ req'[s].pending = {}

LEMMA FlushedFields ==
  ASSUME NEW me \in IssueRequests
  PROVE  /\ Flushed(me).issue = me.issue /\ Flushed(me).new = me.new /\ Flushed(me).locks = me.locks
         /\ Flushed(me).held = me.held \cup me.pending /\ Flushed(me).pending = {}
BY DEF IssueRequests, Flushed

LEMMA WritingStep ==
  ASSUME TypeOK, NEW s \in Slots
  PROVE  /\ InsertIssue(s) => /\ OthersKept(s) /\ req[s] \in IssueRequests
                              /\ \/ req'[s] = Idle
                                 \/ SameIssue(s) /\ req'[s].pc = "load" /\ SendsRows(s)
         /\ LoadRules(s) => /\ OthersKept(s) /\ req[s] \in IssueRequests
                            /\ SameIssue(s)
                            /\ req'[s].pc = IF req[s].new THEN "effects" ELSE "write_issue"
                            /\ req'[s].held = req[s].held /\ req'[s].pending = req[s].pending
         /\ WriteIssue(s) => /\ OthersKept(s) /\ req[s] \in IssueRequests
                             /\ \/ req'[s] = Idle
                                \/ /\ SameIssue(s) /\ req'[s].pc = "effects"
                                   /\ req'[s].held = req[s].held /\ req'[s].pending = req[s].pending
<1>0. req[s] \in Requests /\ IssueRequests \subseteq Requests
  BY DEF TypeOK, Requests, AttachmentRequests
<1> DEFINE me == req[s]
<1>1. ASSUME InsertIssue(s)
      PROVE  /\ OthersKept(s) /\ req[s] \in IssueRequests
             /\ \/ req'[s] = Idle
                \/ SameIssue(s) /\ req'[s].pc = "load" /\ SendsRows(s)
  <2>1. me \in IssueRequests
    BY <1>0, <1>1, AttachmentShapes DEF InsertIssue, At
  <2>2. CASE FlushFails(me)
    BY <1>1, <2>1, <2>2, EndStage DEF InsertIssue
  <2>3. CASE ~FlushFails(me)
    <3> DEFINE f == Flushed(me)
    <3>1. f \in IssueRequests
      BY <2>1, FlushedTyped
    <3>2. req'[s] = [f EXCEPT !.pc = "load"] /\ OthersKept(s)
      BY <1>1, <2>3, BecomeStage DEF InsertIssue
    <3>3. /\ f.issue = me.issue /\ f.new = me.new /\ f.locks = me.locks
          /\ f.held = me.held \cup me.pending /\ f.pending = {}
      BY <2>1, FlushedFields
    <3> HIDE DEF f
    <3>4. /\ [f EXCEPT !.pc = "load"] \in IssueRequests
          /\ [f EXCEPT !.pc = "load"].pc = "load"
          /\ [f EXCEPT !.pc = "load"].issue = f.issue /\ [f EXCEPT !.pc = "load"].new = f.new
          /\ [f EXCEPT !.pc = "load"].locks = f.locks
          /\ [f EXCEPT !.pc = "load"].held = f.held
          /\ [f EXCEPT !.pc = "load"].pending = f.pending
      BY <3>1 DEF IssueRequests
    <3> QED
      BY <2>1, <2>3, <3>2, <3>3, <3>4 DEF SameIssue, SendsRows
  <2> QED
    BY <2>2, <2>3
<1>2. ASSUME LoadRules(s)
      PROVE  /\ OthersKept(s) /\ req[s] \in IssueRequests
             /\ SameIssue(s)
             /\ req'[s].pc = IF req[s].new THEN "effects" ELSE "write_issue"
             /\ req'[s].held = req[s].held /\ req'[s].pending = req[s].pending
  <2>1. me \in IssueRequests
    BY <1>0, <1>2, AttachmentShapes DEF LoadRules, At
  <2> DEFINE pc == IF me.new THEN "effects" ELSE "write_issue"
             effect == [r \in Rules |-> IF r \in Enabled THEN rules[r].effect ELSE None]
             you == [me EXCEPT !.pc = pc, !.left = Enabled, !.effect = effect]
  <2>2. effect \in [Rules -> Effects \cup {None}] /\ Enabled \subseteq Rules
    BY DEF Enabled, RuleRows, TypeOK, AttachmentsTypeOK
  <2>3. req'[s] = you /\ OthersKept(s)
    BY <1>2, BecomeStage DEF LoadRules
  <2> HIDE DEF effect
  <2>4. /\ you \in IssueRequests /\ you.pc = pc /\ you.issue = me.issue /\ you.new = me.new
        /\ you.locks = me.locks /\ you.held = me.held /\ you.pending = me.pending
    BY <2>1, <2>2 DEF IssueRequests
  <2> QED
    BY <2>1, <2>3, <2>4 DEF SameIssue
<1>3. ASSUME WriteIssue(s)
      PROVE  /\ OthersKept(s) /\ req[s] \in IssueRequests
             /\ \/ req'[s] = Idle
                \/ /\ SameIssue(s) /\ req'[s].pc = "effects"
                   /\ req'[s].held = req[s].held /\ req'[s].pending = req[s].pending
  <2>1. me \in IssueRequests /\ me.pc # "idle"
    BY <1>0, <1>3, AttachmentShapes DEF WriteIssue, At
  <2> DEFINE you == [me EXCEPT !.pc = "effects"]
  <2>2. OthersKept(s) /\ (req'[s] = Idle \/ req'[s] = you)
    BY <1>3, <2>1, GotoStage, EndStage DEF WriteIssue
  <2>3. /\ you \in IssueRequests /\ you.pc = "effects" /\ you.issue = me.issue /\ you.new = me.new
        /\ you.locks = me.locks /\ you.held = me.held /\ you.pending = me.pending
    BY <2>1 DEF IssueRequests
  <2> QED
    BY <2>1, <2>2, <2>3 DEF SameIssue
<1> QED
  BY <1>1, <1>2, <1>3

LEMMA EffectStep ==
  ASSUME TypeOK, NEW s \in Slots
  PROVE  /\ \A r \in Rules, row \in NewRows : AddRow(s, r, row) =>
              /\ OthersKept(s) /\ req[s] \in IssueRequests /\ req[s].pc = "effects"
              /\ SameIssue(s) /\ req'[s].pc = "effects"
              /\ req'[s].held = req[s].held
              /\ req'[s].pending = req[s].pending \cup {row}
         /\ \A r \in Rules : FindLabel(s, r) =>
              /\ OthersKept(s) /\ req[s] \in IssueRequests /\ req[s].pc = "effects"
              /\ \/ req'[s] = Idle
                 \/ SameIssue(s) /\ req'[s].pc \in {"effects", "find_tag"} /\ SendsRows(s)
         /\ FindTag(s) =>
              /\ OthersKept(s) /\ req[s] \in IssueRequests /\ req[s].pc = "find_tag"
              /\ SameIssue(s) /\ req'[s].pc = "effects"
              /\ req'[s].held = req[s].held
              /\ req'[s].pending = IF TagThere(s) THEN req[s].pending
                                   ELSE req[s].pending \cup {TagRow(req[s].label)}
<1>0. /\ req[s] \in Requests /\ IssueRequests \subseteq Requests
      /\ \A l \in Labels : TagRow(l) \in NewRows
  BY DEF TypeOK, Requests, AttachmentRequests, NewRows
<1> DEFINE me == req[s]
<1>1. ASSUME NEW r \in Rules, NEW row \in NewRows, AddRow(s, r, row)
      PROVE  /\ OthersKept(s) /\ req[s] \in IssueRequests /\ req[s].pc = "effects"
             /\ SameIssue(s) /\ req'[s].pc = "effects"
             /\ req'[s].held = req[s].held
             /\ req'[s].pending = req[s].pending \cup {row}
  <2>1. me \in IssueRequests /\ me.pc = "effects"
    BY <1>0, <1>1, AttachmentShapes DEF AddRow, At
  <2> DEFINE rows == me.pending \cup {row}
             left == me.left \ {r}
             you == [me EXCEPT !.left = left, !.pending = rows]
  <2>2. Become(s, you)
    BY <1>1, <2>1 DEF AddRow, IssueRequests
  <2>3. req'[s] = you /\ OthersKept(s)
    BY <2>2, BecomeStage
  <2>4. left \subseteq Rules /\ rows \subseteq NewRows
    BY <2>1 DEF IssueRequests
  <2> HIDE DEF left, rows
  <2>5. /\ you \in IssueRequests /\ you.pc = me.pc /\ you.issue = me.issue /\ you.new = me.new
        /\ you.locks = me.locks /\ you.held = me.held /\ you.pending = rows
    BY <2>1, <2>4 DEF IssueRequests
  <2> QED
    BY <2>1, <2>3, <2>5 DEF SameIssue, rows
<1>2. ASSUME NEW r \in Rules, FindLabel(s, r)
      PROVE  /\ OthersKept(s) /\ req[s] \in IssueRequests /\ req[s].pc = "effects"
             /\ \/ req'[s] = Idle
                \/ SameIssue(s) /\ req'[s].pc \in {"effects", "find_tag"} /\ SendsRows(s)
  <2>1. me \in IssueRequests /\ me.pc = "effects"
    BY <1>0, <1>2, AttachmentShapes DEF FindLabel, At
  <2>2. CASE FlushFails(me)
    BY <1>2, <2>1, <2>2, EndStage DEF FindLabel
  <2>3. CASE ~FlushFails(me)
    <3> DEFINE f == Flushed(me)
               g == [f EXCEPT !.left = @ \ {r}]
    <3>1. f \in IssueRequests
      BY <2>1, FlushedTyped
    <3>2. /\ f.issue = me.issue /\ f.new = me.new /\ f.locks = me.locks
          /\ f.held = me.held \cup me.pending /\ f.pending = {} /\ f.pc = me.pc
      BY <2>1, FlushedFields DEF Flushed, IssueRequests
    <3>3. \/ Become(s, g)
          \/ \E l \in Labels : Become(s, [g EXCEPT !.pc = "find_tag", !.label = l])
      BY <1>2, <2>3 DEF FindLabel
    <3> HIDE DEF f
    <3>4. /\ g \in IssueRequests /\ g.pc = f.pc /\ g.issue = f.issue /\ g.new = f.new
          /\ g.locks = f.locks /\ g.held = f.held /\ g.pending = f.pending
      BY <3>1 DEF IssueRequests
    <3> HIDE DEF g
    <3>5. \A l \in Labels :
            LET you == [g EXCEPT !.pc = "find_tag", !.label = l]
            IN  /\ you \in IssueRequests /\ you.pc = "find_tag" /\ you.issue = g.issue
                /\ you.new = g.new /\ you.locks = g.locks /\ you.held = g.held
                /\ you.pending = g.pending
      BY <3>4 DEF IssueRequests
    <3>6. PICK you :
            /\ Become(s, you)
            /\ you \in IssueRequests /\ you.pc \in {"effects", "find_tag"} /\ you.issue = g.issue
            /\ you.new = g.new /\ you.locks = g.locks /\ you.held = g.held
            /\ you.pending = g.pending
      BY <2>1, <3>2, <3>3, <3>4, <3>5
    <3>7. req'[s] = you /\ OthersKept(s)
      BY <3>6, BecomeStage
    <3> QED
      BY <2>1, <2>3, <3>2, <3>4, <3>6, <3>7 DEF SameIssue, SendsRows
  <2> QED
    BY <2>2, <2>3
<1>3. ASSUME FindTag(s)
      PROVE  /\ OthersKept(s) /\ req[s] \in IssueRequests /\ req[s].pc = "find_tag"
             /\ SameIssue(s) /\ req'[s].pc = "effects"
             /\ req'[s].held = req[s].held
             /\ req'[s].pending = IF TagThere(s) THEN req[s].pending
                                  ELSE req[s].pending \cup {TagRow(req[s].label)}
  <2>1. me \in IssueRequests /\ me.pc = "find_tag"
    BY <1>0, <1>3, AttachmentShapes DEF FindTag, At
  <2> DEFINE rows == IF TagThere(s) THEN me.pending ELSE me.pending \cup {TagRow(me.label)}
             you == [me EXCEPT !.pc = "effects", !.pending = rows]
  <2>2. Become(s, you)
    BY <1>3, <2>1 DEF FindTag, IssueRequests
  <2>3. req'[s] = you /\ OthersKept(s)
    BY <2>2, BecomeStage
  <2>4. rows \subseteq NewRows
    BY <1>0, <2>1 DEF IssueRequests
  <2> HIDE DEF rows
  <2>5. /\ you \in IssueRequests /\ you.pc = "effects" /\ you.issue = me.issue /\ you.new = me.new
        /\ you.locks = me.locks /\ you.held = me.held /\ you.pending = rows
    BY <2>1, <2>4 DEF IssueRequests
  <2> QED
    BY <2>1, <2>3, <2>5 DEF SameIssue, rows
<1> QED
  BY <1>1, <1>2, <1>3

\* Other steps around issues leave a slot that writes no issue.
LEMMA AdminStage ==
  ASSUME TypeOK, NEW s \in Slots,
         \/ \E i \in Issues : BeginDropIssue(s, i) \/ BeginComment(s, i)
         \/ \E n \in notes : MarkRead(s, {n})
         \/ MarkRead(s, notes)
         \/ \E l \in NewId(Labels), n \in Names : BeginCreateLabel(s, l, n)
         \/ \E l \in Labels, n \in Names : BeginRename(s, l, n)
         \/ \E l \in Labels : BeginDropLabel(s, l)
         \/ \E r \in NewId(Rules), row \in RuleRows : CreateRule(s, r, row)
         \/ \E r \in Rules, patch \in RulePatches : BeginUpdateRule(s, r, patch)
         \/ \E r \in Rules : BeginDropRule(s, r)
         \/ CommitIssue(s) \/ CommitDropIssue(s) \/ CommitComment(s)
         \/ CommitLabel(s) \/ CommitRename(s) \/ CommitDropLabel(s)
         \/ CommitRule(s) \/ CommitDropRule(s)
  PROVE  OthersKept(s) /\ req'[s].pc \notin WritingStages \cup KnowledgeStages
<1> DEFINE Elsewhere == OthersKept(s) /\ req'[s].pc \notin WritingStages \cup KnowledgeStages
<1> USE DEF WritingStages, KnowledgeStages, LinkStages
<1>0. Idle.pc = "idle"
  BY DEF Idle
<1>1. ASSUME NEW i \in Issues, BeginDropIssue(s, i) PROVE Elsewhere
  BY <1>1, BeginStage DEF BeginDropIssue
<1>2. ASSUME NEW i \in Issues, BeginComment(s, i) PROVE Elsewhere
  BY <1>2, BeginStage DEF BeginComment
<1>3. ASSUME NEW marked, MarkRead(s, marked) PROVE Elsewhere
  <2>1. req'[s] = Idle /\ OthersKept(s)
    BY <1>3, BeginStage DEF MarkRead
  <2> QED
    BY <1>0, <2>1
<1>4. ASSUME NEW l, NEW n, BeginCreateLabel(s, l, n) PROVE Elsewhere
  BY <1>4, BeginStage DEF BeginCreateLabel
<1>5. ASSUME NEW l \in Labels, NEW n \in Names, BeginRename(s, l, n) PROVE Elsewhere
  BY <1>5, BeginStage DEF BeginRename
<1>6. ASSUME NEW l \in Labels, BeginDropLabel(s, l) PROVE Elsewhere
  BY <1>6, BeginStage DEF BeginDropLabel
<1>7. ASSUME NEW r, NEW row, CreateRule(s, r, row) PROVE Elsewhere
  <2>1. req'[s] = Idle /\ OthersKept(s)
    BY <1>7, BeginStage DEF CreateRule
  <2> QED
    BY <1>0, <2>1
<1>8. ASSUME NEW r \in Rules, NEW patch \in RulePatches, BeginUpdateRule(s, r, patch)
      PROVE  Elsewhere
  BY <1>8, BeginStage DEF BeginUpdateRule
<1>9. ASSUME NEW r \in Rules, BeginDropRule(s, r) PROVE Elsewhere
  BY <1>9, BeginStage DEF BeginDropRule
<1>10. ASSUME \/ CommitIssue(s) \/ CommitDropIssue(s) \/ CommitComment(s)
              \/ CommitLabel(s) \/ CommitRename(s) \/ CommitDropLabel(s)
              \/ CommitRule(s) \/ CommitDropRule(s)
       PROVE  Elsewhere
  <2>1. End(s)
    BY <1>10 DEF CommitIssue, CommitDropIssue, CommitComment, CommitLabel, CommitRename,
         CommitDropLabel, CommitRule, CommitDropRule
  <2> QED
    BY <2>1, EndStage
<1> HIDE DEF Elsewhere
<1>11. Elsewhere
  BY <1>1, <1>2, <1>3, <1>4, <1>5, <1>6, <1>7, <1>8, <1>9, <1>10
<1> QED
  BY <1>11 DEF Elsewhere

LEMMA AttachmentStage ==
  ASSUME TypeOK, NEW s \in Slots, AskAttachments(s) \/ ServeAttachments(s)
  PROVE  OthersKept(s) /\ req'[s].pc \notin KnowledgeStages
<1> DEFINE Elsewhere == OthersKept(s) /\ req'[s].pc \notin KnowledgeStages
<1> USE DEF KnowledgeStages, LinkStages
<1>0. Idle.pc = "idle"
  BY DEF Idle
<1>1. ASSUME NEW i, NEW ls, BeginFile(s, i, ls) PROVE Elsewhere
  BY <1>1, BeginStage DEF BeginFile, Writing
<1>2. ASSUME NEW i \in Issues, NEW changing \in Changing, BeginTouch(s, i, changing)
      PROVE  Elsewhere
  BY <1>2, BeginStage DEF BeginTouch, Writing
<1>3. ASSUME InsertIssue(s) \/ LoadRules(s) \/ WriteIssue(s) PROVE Elsewhere
  BY <1>0, <1>3, WritingStep
<1>4. ASSUME \/ \E r \in Rules, row \in NewRows : AddRow(s, r, row)
             \/ \E r \in Rules : FindLabel(s, r)
             \/ FindTag(s)
      PROVE  Elsewhere
  BY <1>0, <1>4, EffectStep
<1> HIDE DEF Elsewhere
<1>5. CASE AskAttachments(s)
  BY <1>1, <1>2, <1>5, AdminStage DEF AskAttachments, Elsewhere
<1>6. CASE ServeAttachments(s)
  BY <1>3, <1>4, <1>6, AdminStage DEF ServeAttachments, Elsewhere
<1> QED
  BY <1>5, <1>6 DEF Elsewhere

-----------------------------------------------------------------------------
(* Types, the audit log and working sessions.                              *)

LEMMA FreshId ==
  ASSUME NEW ids, NEW i \in NewId(ids)
  PROVE  i \in ids /\ i \notin used
BY DEF NewId

\* Steps of knowledge, but for those of working sessions, leave these alone.
LEMMA WorksLeft ==
  ASSUME NEW s \in Slots, AskKnowledge(s) \/ ServeKnowledge(s)
  PROVE  \/ used \subseteq used' /\ works' = works
         \/ \E w \in NewId(Works), v \in Values : CreateWork(s, w, v)
         \/ CommitWork(s)
BY DEF AskKnowledge, ServeKnowledge, BeginCreateLink, ValidateTarget, InsertLink, CommitLink,
       BeginGetLinks, ReadOutgoing, ReadIncoming, TurnLinks, Hydrate, Answer, BeginDeleteLink,
       FindLink, CommitDropLink, CreateFragment, BeginUpdateFragment, CommitFragment,
       BeginDeleteFragment, CommitDropFragment, BeginUpdateWork, knowledge

LEMMA WorksLeftAround ==
  ASSUME NEW s \in Slots, AskAttachments(s) \/ ServeAttachments(s)
  PROVE  used \subseteq used'
BY DEF AskAttachments, ServeAttachments, BeginFile, BeginTouch, BeginDropIssue, BeginComment,
       MarkRead, BeginCreateLabel, BeginRename, BeginDropLabel, CreateRule, BeginUpdateRule,
       BeginDropRule, InsertIssue, LoadRules, WriteIssue, AddRow, FindLabel, FindTag, CommitIssue,
       CommitDropIssue, CommitComment, CommitLabel, CommitRename, CommitDropLabel, CommitRule,
       CommitDropRule

LEMMA AuditStep ==
  ASSUME TypeOK, AuditReplays, NEW s \in Slots,
         AskKnowledge(s) \/ ServeKnowledge(s) \/ AskAttachments(s) \/ ServeAttachments(s)
  PROVE  /\ AskKnowledge(s) \/ ServeKnowledge(s) => history' = fragments'
         /\ AskAttachments(s) \/ ServeAttachments(s) => told' = rules'
<1> USE DEF AuditReplays
<1>1. ASSUME AskKnowledge(s) \/ ServeKnowledge(s) PROVE history' = fragments'
  <2>1. \/ UNCHANGED <<history, fragments>>
        \/ \E f \in NewId(Fragments), content \in Contents : CreateFragment(s, f, content)
        \/ CommitFragment(s) \/ CommitDropFragment(s)
    BY <1>1
       DEF AskKnowledge, ServeKnowledge, BeginCreateLink, ValidateTarget, InsertLink, CommitLink,
         BeginGetLinks, ReadOutgoing, ReadIncoming, TurnLinks, Hydrate, Answer, BeginDeleteLink,
         FindLink, CommitDropLink, BeginUpdateFragment, BeginDeleteFragment, CreateWork,
         BeginUpdateWork, CommitWork, knowledge
  <2>2. CASE \E f \in NewId(Fragments), content \in Contents : CreateFragment(s, f, content)
    BY <2>2 DEF CreateFragment
  <2>3. CASE CommitFragment(s)
    BY <2>3 DEF CommitFragment, Told
  <2>4. CASE CommitDropFragment(s)
    BY <2>4 DEF CommitDropFragment
  <2> QED
    BY <2>1, <2>2, <2>3, <2>4
<1>2. ASSUME AskAttachments(s) \/ ServeAttachments(s) PROVE told' = rules'
  <2>1. \/ UNCHANGED <<told, rules>>
        \/ \E r \in NewId(Rules), row \in RuleRows : CreateRule(s, r, row)
        \/ CommitRule(s) \/ CommitDropRule(s)
    BY <1>2
       DEF AskAttachments, ServeAttachments, BeginFile, BeginTouch, BeginDropIssue, BeginComment,
         MarkRead, BeginCreateLabel, BeginRename, BeginDropLabel, BeginUpdateRule, BeginDropRule,
         InsertIssue, LoadRules, WriteIssue, AddRow, FindLabel, FindTag, CommitIssue,
         CommitDropIssue, CommitComment, CommitLabel, CommitRename, CommitDropLabel, attachments
  <2>2. CASE \E r \in NewId(Rules), row \in RuleRows : CreateRule(s, r, row)
    BY <2>2 DEF CreateRule
  <2>3. CASE CommitRule(s)
    BY <2>3 DEF CommitRule, Sent
  <2>4. CASE CommitDropRule(s)
    BY <2>4 DEF CommitDropRule
  <2> QED
    BY <2>1, <2>2, <2>3, <2>4
<1> QED
  BY <1>1, <1>2

\* A working session's row after a PATCH.
LEMMA WorkCommitted ==
  ASSUME TypeOK, WorksRead, NEW s \in Slots, CommitWork(s)
  PROVE  LET me == req[s]
             w == me.work
         IN  /\ me \in WorkRequests /\ works[w] \in WorkRows /\ works' [w] \in WorkRows
             /\ \A v \in Works \ {w} : works'[v] = works[v]
             /\ works[w].completed # None => works'[w].completed # None
             /\ works'[w].state # works[w].state =>
                  "state" \in DOMAIN me.patch /\ works'[w].state = me.patch["state"]
             /\ Finishes(me) => works'[w].completed # None
<1> DEFINE me == req[s]
           w == me.work
           row == Applied(works[w], me.patch, Changes(me.read, me.patch))
           written == IF Finishes(me) THEN [row EXCEPT !.completed = me.n] ELSE row
<1>1. me \in WorkRequests /\ me.pc = "write_work"
  <2>1. req[s] \in Requests
    BY DEF TypeOK, Requests
  <2> QED
    BY <2>1, KnowledgeShapes DEF CommitWork, At
<1>2. /\ w \in Works /\ me.patch \in WorkPatches /\ me.n \in 0..MaxRequests
      /\ Changes(me.read, me.patch) \subseteq DOMAIN me.patch
  BY <1>1 DEF WorkRequests, Changes
<1>3. works[w] \in WorkRows
  BY <1>1, <1>2 DEF WorksRead, At, TypeOK, KnowledgeTypeOK
<1>4. /\ row \in WorkRows
      /\ row.completed = works[w].completed
      /\ row.state = IF "state" \in Changes(me.read, me.patch) THEN me.patch["state"]
                     ELSE works[w].state
  BY <1>2, <1>3, AppliedWork
<1>5. works' = [works EXCEPT ![w] = written]
  BY DEF CommitWork
<1>6. "state" \in Changes(me.read, me.patch) => "state" \in DOMAIN me.patch
  BY <1>2
<1>7. me.n # None
  BY <1>2, KnowledgeAssumption, BoundAssumption
<1> HIDE DEF row
<1>8. /\ written \in WorkRows /\ written.state = row.state
      /\ Finishes(me) => written.completed = me.n
      /\ ~Finishes(me) => written.completed = row.completed
  BY <1>2, <1>4 DEF WorkRows
<1> HIDE DEF written
<1>9. works'[w] = written /\ \A v \in Works \ {w} : works'[v] = works[v]
  BY <1>2, <1>5 DEF TypeOK, KnowledgeTypeOK
<1> QED
  BY <1>1, <1>3, <1>4, <1>6, <1>7, <1>8, <1>9

LEMMA WorksStep ==
  ASSUME TypeInv, NEW s \in Slots, AskKnowledge(s) \/ ServeKnowledge(s)
  PROVE  WorksRead' /\ WorksKnown' /\ FinishedDated'
<1> USE DEF TypeInv
<1>0. /\ \A o \in Slots : At(o, "write_work") => req[o] \in WorkRequests /\ req[o].work \in Works
      /\ works \in [Works -> WorkRows \cup {None}]
  BY KnowledgeShapes DEF At, TypeOK, KnowledgeTypeOK, Requests, WorkRequests
<1>1. OthersKept(s)
  BY KnowledgeStage
<1>2. CASE used \subseteq used' /\ works' = works
  <2>1. WorksKnown' /\ FinishedDated'
    BY <1>2 DEF WorksKnown, FinishedDated
  <2>2. ASSUME NEW o \in Slots, At(o, "write_work")'
        PROVE  /\ works'[req'[o].work] # None
               /\ req'[o].read.completed # None => works'[req'[o].work].completed # None
    <3>1. CASE o # s
      BY <1>1, <1>2, <2>2, <3>1 DEF OthersKept, WorksRead, At
    <3>2. CASE o = s
      <4>1. PICK w \in Works, patch \in WorkPatches : BeginUpdateWork(s, w, patch)
        BY <2>2, <3>2, KnowledgeStage DEF At
      <4>2. req'[s].work = w /\ req'[s].read = works[w] /\ works[w] # None
        BY <4>1, BeginStage DEF BeginUpdateWork
      <4> QED
        BY <1>2, <3>2, <4>2
    <3> QED
      BY <3>1, <3>2
  <2> QED
    BY <2>1, <2>2 DEF WorksRead
<1>3. ASSUME NEW w \in NewId(Works), NEW v \in Values, CreateWork(s, w, v)
      PROVE  WorksRead' /\ WorksKnown' /\ FinishedDated'
  <2>1. w \in Works /\ works[w] = None
    BY FreshId DEF WorksKnown
  <2>2. /\ works' = [works EXCEPT ![w] = [state |-> "active", payload |-> v, completed |-> None]]
        /\ used' = used \cup {w}
    BY <1>3 DEF CreateWork
  <2>3. /\ None \notin WorkRows
        /\ [state |-> "active", payload |-> v, completed |-> None] \in WorkRows
    BY KnowledgeAssumption DEF WorkRows, WorkStates
  <2>4. /\ works'[w] # None /\ works'[w].state = "active"
        /\ \A u \in Works \ {w} : works'[u] = works[u]
    BY <1>0, <2>1, <2>2, <2>3
  <2>5. WorksKnown' /\ FinishedDated'
    BY <2>2, <2>4 DEF WorksKnown, FinishedDated, Finished
  <2>6. req'[s].pc = "idle"
    BY <1>3, BeginStage DEF CreateWork, Idle
  <2> QED
    BY <1>0, <1>1, <2>1, <2>4, <2>5, <2>6 DEF WorksRead, At, OthersKept
<1>4. ASSUME CommitWork(s) PROVE WorksRead' /\ WorksKnown' /\ FinishedDated'
  <2> DEFINE me == req[s]
             w == me.work
  <2>1. /\ me \in WorkRequests /\ works[w] \in WorkRows /\ works'[w] \in WorkRows
        /\ \A v \in Works \ {w} : works'[v] = works[v]
        /\ works[w].completed # None => works'[w].completed # None
        /\ works'[w].state # works[w].state =>
             "state" \in DOMAIN me.patch /\ works'[w].state = me.patch["state"]
        /\ Finishes(me) => works'[w].completed # None
    BY <1>4, WorkCommitted
  <2>2. w \in Works /\ At(s, "write_work") /\ works[w] # None /\ None \notin WorkRows
    BY <1>0, <1>4, KnowledgeAssumption DEF CommitWork, WorksRead
  <2>3. WorksKnown'
    BY <1>4, <2>1, <2>2 DEF WorksKnown, CommitWork
  <2>4. works'[w].state \in Finished => works'[w].completed # None
    <3>1. CASE works'[w].state = works[w].state
      BY <2>1, <2>2, <3>1 DEF FinishedDated
    <3>2. CASE works'[w].state # works[w].state
      BY <2>1, <2>2, <3>2 DEF Finishes, WorksRead
    <3> QED
      BY <3>1, <3>2
  <2>5. FinishedDated'
    BY <2>1, <2>2, <2>4 DEF FinishedDated
  <2>6. req'[s].pc = "idle"
    BY <1>4, EndStage DEF CommitWork
  <2>7. WorksRead'
    BY <1>0, <1>1, <2>1, <2>2, <2>6 DEF WorksRead, At, OthersKept
  <2> QED
    BY <2>3, <2>5, <2>7
<1> QED
  BY <1>2, <1>3, <1>4, WorksLeft

LEMMA TypeStep == TypeInv /\ [Next]_vars => TypeInv'
<1> SUFFICES ASSUME TypeInv, [Next]_vars PROVE TypeInv'
  OBVIOUS
<1>1. ASSUME NEW s \in Slots, AskKnowledge(s) \/ ServeKnowledge(s),
             UNCHANGED <<asked, issues, attachments>>
      PROVE  TypeInv'
  <2>1. req' \in [Slots -> Requests] /\ served' \in 0..MaxRequests /\ KnowledgeTypeOK'
    BY <1>1, LinkStepTyped, ListStepTyped, RecordStepTyped DEF TypeInv, AskKnowledge, ServeKnowledge
  <2>2. TypeOK'
    BY <1>1, <2>1 DEF TypeInv, TypeOK, AttachmentsTypeOK, attachments, Requests
  <2>3. AuditReplays'
    BY <1>1, AuditStep DEF TypeInv, AuditReplays, attachments
  <2> QED
    BY <1>1, <2>2, <2>3, WorksStep DEF TypeInv
<1>2. ASSUME NEW s \in Slots, AskAttachments(s) \/ ServeAttachments(s),
             UNCHANGED <<asked, knowledge>>
      PROVE  TypeInv'
  <2>1. /\ req' \in [Slots -> Requests] /\ served' \in 0..MaxRequests
        /\ issues' \subseteq Issues /\ AttachmentsTypeOK'
    BY <1>2, IssueStepTyped, AroundStepTyped, AdminStepTyped
       DEF TypeInv, AskAttachments, ServeAttachments
  <2>2. TypeOK'
    BY <1>2, <2>1 DEF TypeInv, TypeOK, KnowledgeTypeOK, knowledge, Requests
  <2>3. AuditReplays'
    BY <1>2, AuditStep DEF TypeInv, AuditReplays, knowledge
  <2>4. WorksKnown' /\ FinishedDated'
    BY <1>2, WorksLeftAround DEF TypeInv, WorksKnown, FinishedDated, knowledge
  <2>5. WorksRead'
    BY <1>2, AttachmentStage
       DEF TypeInv, WorksRead, At, OthersKept, KnowledgeStages, knowledge
  <2> QED
    BY <2>2, <2>3, <2>4, <2>5 DEF TypeInv
<1>3. CASE UNCHANGED vars
  BY <1>3 DEF vars, knowledge, attachments, TypeInv, TypeOK, KnowledgeTypeOK, AttachmentsTypeOK,
       AuditReplays, WorksRead, WorksKnown, FinishedDated, At
<1> QED
  BY <1>1, <1>2, <1>3 DEF Next, Request, Proceed

LEMMA TypeInvInit == Init => TypeInv
<1> SUFFICES ASSUME Init PROVE TypeInv
  OBVIOUS
<1>1. AuditReplays
  BY DEF Init, KnowledgeInit, AttachmentsInit, AuditReplays
<1>2. WorksRead
  BY DEF Init, ServerInit, WorksRead, At, Idle
<1>3. WorksKnown /\ FinishedDated
  BY StartAssumption DEF Init, KnowledgeInit, WorksKnown, FinishedDated
<1> QED
  BY <1>1, <1>2, <1>3, TypeInit DEF TypeInv

LEMMA TypeInvAlways == Spec => []TypeInv
BY TypeInvInit, TypeStep, PTL DEF Spec

\* Tables and requests keep their types, for any tables, bodies and rules and
\* any number of concurrent requests.
THEOREM WorkspaceTyped == Spec => []TypeOK
BY TypeInvAlways, PTL DEF TypeInv

\* However PATCHes computed from stale readings overtake each other, a working
\* session that is finished has the time it was finished.
THEOREM FinishedSessionsDated == Spec => []FinishedDated
BY TypeInvAlways, PTL DEF TypeInv

\* Whoever replays the audit entries of a fragment or a rule gets the row.
THEOREM AuditAlwaysReplays == Spec => []AuditReplays
BY TypeInvAlways, PTL DEF TypeInv

-----------------------------------------------------------------------------
(* The graph of links.  A link that a request is about to insert has an id *)
(* of its own; from its INSERT to its commit no other link has its ends,   *)
(* and its source is there.                                                *)

LinkOnWay(s) == req[s].pc \in LinkStages

GraphInv ==
  /\ \A l \in Links : links[l] # None => l \in used /\ links[l].source \in Stored
  /\ \A k, l \in Links : k # l /\ links[k] # None => links[k] # links[l]
  /\ Stored \subseteq used
  /\ \A s \in Slots : LinkOnWay(s) => req[s].link \in used /\ links[req[s].link] = None
  /\ \A s, o \in Slots : s # o /\ LinkOnWay(s) /\ LinkOnWay(o) => req[s].link # req[o].link
  /\ \A s \in Slots : Inserting(s) =>
       req[s].fragment \in Stored /\ \A k \in Links : links[k] # NewLink(s)
  /\ \A s, o \in Slots : s # o /\ Inserting(s) /\ Inserting(o) => NewLink(s) # NewLink(o)

LEMMA GraphInit == Init => GraphInv /\ Graph!Init
<1> SUFFICES ASSUME Init PROVE GraphInv /\ Graph!Init
  OBVIOUS
<1>1. /\ links = InitLinks /\ fragments = InitFragments /\ req = [s \in Slots |-> Idle]
      /\ {f \in Fragments : InitFragments[f] # None} \subseteq used
      /\ {l \in Links : InitLinks[l] # None} \subseteq used
  BY DEF Init, KnowledgeInit, ServerInit
<1>2. \A s \in Slots : req[s].pc = "idle"
  BY <1>1 DEF Idle
<1>3. \A l \in Links : links[l] # None => links[l].source \in Stored
  BY <1>1, StartAssumption, KnowledgeAssumption DEF Stored, Ends
<1>4. \A k, l \in Links : k # l /\ links[k] # None => links[k] # links[l]
  BY <1>1, StartAssumption
<1>5. GraphInv
  BY <1>1, <1>2, <1>3, <1>4 DEF GraphInv, LinkOnWay, LinkStages, Inserting, At, Stored
<1>6. Graph!Init
  BY <1>1, <1>3, <1>4, KnowledgeAssumption
     DEF Graph!Init, Graph!Anchored, Graph!NoTwins, Graph!Ends, Ends, Stored
<1> QED
  BY <1>5, <1>6

\* Steps that change the graph.
LEMMA GraphLeft ==
  ASSUME TypeOK, NEW s \in Slots, AskKnowledge(s) \/ ServeKnowledge(s)
  PROVE  \/ used \subseteq used' /\ links' = links /\ Stored' = Stored
         \/ CommitLink(s) \/ CommitDropLink(s) \/ CommitDropFragment(s)
         \/ \E f \in NewId(Fragments), content \in Contents : CreateFragment(s, f, content)
<1>1. ASSUME CommitFragment(s)
      PROVE  used \subseteq used' /\ links' = links /\ Stored' = Stored
  <2> DEFINE me == req[s]
  <2>1. me \in EditRequests
    BY <1>1, KnowledgeShapes DEF CommitFragment, At, TypeOK, Requests
  <2>2. /\ me.fragment \in Fragments /\ me.patch \in FragmentPatches
        /\ Changes(me.read, me.patch) \subseteq DOMAIN me.patch
    BY <2>1 DEF EditRequests, Changes
  <2>3. CASE me.fragment \in Stored
    <3> DEFINE row == Applied(fragments[me.fragment], me.patch, Changes(me.read, me.patch))
    <3>1. fragments[me.fragment] \in Contents
      BY <2>2, <2>3 DEF Stored, TypeOK, KnowledgeTypeOK
    <3>2. row \in Contents /\ None \notin Contents
      BY <2>2, <3>1, AppliedFragment, KnowledgeAssumption
    <3>3. fragments' = [fragments EXCEPT ![me.fragment] = row]
      BY <1>1, <2>3 DEF CommitFragment
    <3> HIDE DEF row
    <3> QED
      BY <1>1, <2>3, <3>2, <3>3 DEF CommitFragment, Stored, TypeOK, KnowledgeTypeOK
  <2>4. CASE me.fragment \notin Stored
    BY <1>1, <2>4 DEF CommitFragment, Stored
  <2> QED
    BY <2>3, <2>4
<1>2. \/ used \subseteq used' /\ links' = links /\ fragments' = fragments
      \/ CommitLink(s) \/ CommitDropLink(s) \/ CommitDropFragment(s) \/ CommitFragment(s)
      \/ \E f \in NewId(Fragments), content \in Contents : CreateFragment(s, f, content)
  BY DEF AskKnowledge, ServeKnowledge, BeginCreateLink, ValidateTarget, InsertLink,
       BeginGetLinks, ReadOutgoing, ReadIncoming, TurnLinks, Hydrate, Answer, OnClose,
       BeginDeleteLink, FindLink, BeginUpdateFragment, BeginDeleteFragment, CreateWork,
       BeginUpdateWork, CommitWork, knowledge
<1> QED
  BY <1>1, <1>2 DEF Stored

\* A link on its way keeps its id and its ends.
LEMMA LinkKept ==
  ASSUME TypeOK, NEW s \in Slots, ValidateTarget(s) \/ InsertLink(s), req'[s].pc # "idle"
  PROVE  /\ LinkOnWay(s) /\ req'[s].link = req[s].link
         /\ req'[s].fragment = req[s].fragment /\ req'[s].target = req[s].target
<1>1. req[s] \in LinkRequests /\ req[s].pc # "idle"
  BY KnowledgeShapes DEF ValidateTarget, InsertLink, At, TypeOK, Requests
<1>2. \/ req'[s] = [req[s] EXCEPT !.pc = "insert_link"]
      \/ req'[s] = [req[s] EXCEPT !.pc = "commit_link"]
  BY <1>1, GotoStage, EndStage DEF ValidateTarget, InsertLink
<1> QED
  BY <1>1, <1>2 DEF LinkRequests, LinkOnWay, LinkStages

\* Steps that leave links and fragments alone.
LEMMA LinksLeftStep ==
  ASSUME TypeOK, GraphInv, NEW s \in Slots, AskKnowledge(s) \/ ServeKnowledge(s),
         used \subseteq used', links' = links, Stored' = Stored
  PROVE  GraphInv'
<1> USE DEF LinkStages
<1>0. OthersKept(s)
  BY KnowledgeStage
<1>1. req'[s].pc \in LinkStages =>
        /\ req'[s].link \in used' /\ links[req'[s].link] = None
        /\ \A o \in Slots \ {s} : LinkOnWay(o) => req'[s].link # req[o].link
  <2>1. CASE req'[s].pc = "target"
    <3>1. PICK f \in Fragments, t \in Targets, l \in NewId(Links) : BeginCreateLink(s, f, t, l)
      BY <2>1, KnowledgeStage
    <3>2. req'[s].link = l /\ used' = used \cup {l} /\ l \in Links /\ l \notin used
      BY <3>1, BeginStage, FreshId DEF BeginCreateLink
    <3> QED
      BY <3>2 DEF GraphInv
  <2>2. CASE req'[s].pc \in {"insert_link", "commit_link"}
    <3>1. LinkOnWay(s) /\ req'[s].link = req[s].link
      BY <2>2, KnowledgeStage, LinkKept
    <3> QED
      BY <3>1 DEF GraphInv
  <2> QED
    BY <2>1, <2>2
<1>2. req'[s].pc = "commit_link" =>
        /\ req'[s].fragment \in Stored /\ \A k \in Links : links[k] # NewLink(s)'
        /\ \A o \in Slots \ {s} : Inserting(o) => NewLink(s)' # NewLink(o)
  <2> SUFFICES ASSUME req'[s].pc = "commit_link"
               PROVE  /\ req'[s].fragment \in Stored /\ \A k \in Links : links[k] # NewLink(s)'
                      /\ \A o \in Slots \ {s} : Inserting(o) => NewLink(s)' # NewLink(o)
    OBVIOUS
  <2>1. InsertLink(s) /\ req'[s].pc # "idle"
    BY KnowledgeStage
  <2>2. NewLink(s)' = NewLink(s) /\ req'[s].fragment = req[s].fragment
    BY <2>1, LinkKept DEF NewLink
  <2>3. req[s].fragment \in Stored /\ \A k \in Links : links[k] # NewLink(s)
    BY <2>1, EndStage DEF InsertLink
  <2>4. \A o \in Slots \ {s} : Inserting(o) => NewLink(s) # NewLink(o)
    BY <2>1 DEF InsertLink, KeysHeld
  <2> QED
    BY <2>2, <2>3, <2>4
<1>3. \A o \in Slots \ {s} : /\ req'[o] = req[o] /\ NewLink(o)' = NewLink(o)
                             /\ LinkOnWay(o)' = LinkOnWay(o) /\ Inserting(o)' = Inserting(o)
  BY <1>0 DEF OthersKept, NewLink, LinkOnWay, Inserting, At
<1>4. /\ LinkOnWay(s)' <=> req'[s].pc \in LinkStages
      /\ Inserting(s)' <=> req'[s].pc = "commit_link"
  BY DEF LinkOnWay, Inserting, At
<1>5. /\ \A o \in Slots : LinkOnWay(o)' => req'[o].link \in used' /\ links'[req'[o].link] = None
      /\ \A o, q \in Slots : o # q /\ LinkOnWay(o)' /\ LinkOnWay(q)' => req'[o].link # req'[q].link
  BY <1>1, <1>3, <1>4 DEF GraphInv
<1>6. /\ \A o \in Slots : Inserting(o)' =>
           req'[o].fragment \in Stored' /\ \A k \in Links : links'[k] # NewLink(o)'
      /\ \A o, q \in Slots : o # q /\ Inserting(o)' /\ Inserting(q)' => NewLink(o)' # NewLink(q)'
  BY <1>2, <1>3, <1>4 DEF GraphInv
<1>7. /\ \A l \in Links : links'[l] # None => l \in used' /\ links'[l].source \in Stored'
      /\ \A k, l \in Links : k # l /\ links'[k] # None => links'[k] # links'[l]
      /\ Stored' \subseteq used'
  BY DEF GraphInv
<1> QED
  BY <1>5, <1>6, <1>7 DEF GraphInv

\* A request that ends leaves nothing on its way.
LEMMA OthersOnWay ==
  ASSUME NEW s \in Slots, OthersKept(s), req'[s].pc = "idle"
  PROVE  /\ ~LinkOnWay(s)' /\ ~Inserting(s)'
         /\ \A o \in Slots \ {s} : /\ req'[o] = req[o] /\ NewLink(o)' = NewLink(o)
                                   /\ LinkOnWay(o)' = LinkOnWay(o) /\ Inserting(o)' = Inserting(o)
BY DEF OthersKept, LinkOnWay, LinkStages, Inserting, At, NewLink

LEMMA CommitLinkStep ==
  ASSUME TypeOK, GraphInv, NEW s \in Slots, CommitLink(s)
  PROVE  GraphInv' /\ Graph!Next
<1> DEFINE l == req[s].link
<1>1. req[s] \in LinkRequests /\ req[s].pc = "commit_link"
  BY KnowledgeShapes DEF CommitLink, Inserting, At, TypeOK, Requests
<1>2. /\ l \in Links /\ NewLink(s) \in Ends /\ NewLink(s) # None /\ NewLink(s).source = req[s].fragment
      /\ links \in [Links -> Ends \cup {None}]
  BY <1>1, KnowledgeAssumption DEF LinkRequests, NewLink, Ends, TypeOK, KnowledgeTypeOK
<1>3. /\ links' = [links EXCEPT ![l] = NewLink(s)] /\ UNCHANGED <<fragments, used>>
      /\ OthersKept(s) /\ req'[s].pc = "idle"
  BY EndStage DEF CommitLink
<1>4. Inserting(s) /\ LinkOnWay(s)
  BY <1>1 DEF Inserting, LinkOnWay, LinkStages, At
<1>5. /\ links[l] = None /\ l \in used /\ NewLink(s).source \in Stored
      /\ \A k \in Links : links[k] # NewLink(s)
      /\ \A o \in Slots \ {s} : LinkOnWay(o) => req[o].link # l
      /\ \A o \in Slots \ {s} : Inserting(o) => NewLink(o) # NewLink(s)
  BY <1>2, <1>4 DEF GraphInv
<1>6. links'[l] = NewLink(s) /\ \A k \in Links \ {l} : links'[k] = links[k]
  BY <1>2, <1>3
<1>7. Stored' = Stored
  BY <1>3 DEF Stored
<1>8. Graph!Next
  <2>1. Graph!AddEdge(l, NewLink(s))
    BY <1>3, <1>5, <1>7 DEF Graph!AddEdge
  <2> QED
    BY <1>2, <2>1 DEF Graph!Next, Graph!Ends, Ends
<1>9. /\ \A k \in Links : links'[k] # None => k \in used' /\ links'[k].source \in Stored'
      /\ \A k, m \in Links : k # m /\ links'[k] # None => links'[k] # links'[m]
      /\ Stored' \subseteq used'
  BY <1>2, <1>3, <1>5, <1>6, <1>7 DEF GraphInv
<1>10. /\ \A o \in Slots : LinkOnWay(o)' => req'[o].link \in used' /\ links'[req'[o].link] = None
       /\ \A o, q \in Slots : o # q /\ LinkOnWay(o)' /\ LinkOnWay(q)' => req'[o].link # req'[q].link
  <2>1. \A o \in Slots \ {s} : LinkOnWay(o) => req[o].link \in Links
    BY KnowledgeShapes DEF TypeOK, Requests, LinkOnWay, LinkStages, LinkRequests
  <2> QED
    BY <1>3, <1>5, <1>6, <2>1, OthersOnWay DEF GraphInv
<1>11. /\ \A o \in Slots : Inserting(o)' =>
            req'[o].fragment \in Stored' /\ \A k \in Links : links'[k] # NewLink(o)'
       /\ \A o, q \in Slots : o # q /\ Inserting(o)' /\ Inserting(q)' => NewLink(o)' # NewLink(q)'
  BY <1>3, <1>5, <1>6, <1>7, OthersOnWay DEF GraphInv
<1> QED
  BY <1>8, <1>9, <1>10, <1>11 DEF GraphInv

LEMMA CommitDropLinkStep ==
  ASSUME TypeOK, GraphInv, NEW s \in Slots, CommitDropLink(s)
  PROVE  GraphInv' /\ (Graph!Next \/ UNCHANGED <<Stored, links>>)
<1> DEFINE l == req[s].link
<1>1. req[s] \in UnlinkRequests
  BY KnowledgeShapes DEF CommitDropLink, At, TypeOK, Requests
<1>2. l \in Links /\ links \in [Links -> Ends \cup {None}] /\ None \notin Ends
  BY <1>1, KnowledgeAssumption DEF UnlinkRequests, TypeOK, KnowledgeTypeOK
<1>3. /\ links' = [links EXCEPT ![l] = None] /\ UNCHANGED <<fragments, used>>
      /\ OthersKept(s) /\ req'[s].pc = "idle"
  BY EndStage DEF CommitDropLink
<1>4. /\ \A k \in Links : links'[k] = links[k] \/ links'[k] = None
      /\ Stored' = Stored
  BY <1>2, <1>3 DEF Stored
<1>5. Graph!Next \/ UNCHANGED <<Stored, links>>
  <2>1. CASE links[l] = None
    BY <1>2, <1>3, <1>4, <2>1
  <2>2. CASE links[l] # None
    <3>1. Graph!RemoveEdge(l)
      BY <1>3, <1>4, <2>2 DEF Graph!RemoveEdge
    <3> QED
      BY <1>2, <3>1 DEF Graph!Next
  <2> QED
    BY <2>1, <2>2
<1>6. \A o \in Slots \ {s} : /\ LinkOnWay(o) => req[o].link \in Links
                             /\ Inserting(o) => NewLink(o) # None
  BY KnowledgeShapes, KnowledgeAssumption
     DEF TypeOK, Requests, LinkOnWay, LinkStages, LinkRequests, Inserting, At, NewLink, Ends
<1>7. /\ \A k \in Links : links'[k] # None => k \in used' /\ links'[k].source \in Stored'
      /\ \A k, m \in Links : k # m /\ links'[k] # None => links'[k] # links'[m]
      /\ Stored' \subseteq used'
  BY <1>3, <1>4 DEF GraphInv
<1>8. /\ \A o \in Slots : LinkOnWay(o)' => req'[o].link \in used' /\ links'[req'[o].link] = None
      /\ \A o, q \in Slots : o # q /\ LinkOnWay(o)' /\ LinkOnWay(q)' => req'[o].link # req'[q].link
  BY <1>3, <1>4, <1>6, OthersOnWay DEF GraphInv
<1>9. \A o \in Slots : Inserting(o)' =>
        req'[o].fragment \in Stored' /\ \A k \in Links : links'[k] # NewLink(o)'
  <2> SUFFICES ASSUME NEW o \in Slots, Inserting(o)'
               PROVE  req'[o].fragment \in Stored' /\ \A k \in Links : links'[k] # NewLink(o)'
    OBVIOUS
  <2>1. o # s /\ Inserting(o) /\ req'[o] = req[o] /\ NewLink(o)' = NewLink(o)
    BY <1>3, OthersOnWay
  <2>2. /\ req[o].fragment \in Stored /\ NewLink(o) # None
        /\ \A k \in Links : links[k] # NewLink(o)
    BY <1>6, <2>1 DEF GraphInv
  <2>3. \A k \in Links : links'[k] # NewLink(o)
    BY <1>4, <2>2
  <2> QED
    BY <1>4, <2>1, <2>2, <2>3
<1>10. \A o, q \in Slots : o # q /\ Inserting(o)' /\ Inserting(q)' => NewLink(o)' # NewLink(q)'
  BY <1>3, OthersOnWay DEF GraphInv
<1> QED
  BY <1>5, <1>7, <1>8, <1>9, <1>10 DEF GraphInv

LEMMA CreateFragmentStep ==
  ASSUME TypeOK, GraphInv, NEW s \in Slots, NEW f \in NewId(Fragments), NEW content \in Contents,
         CreateFragment(s, f, content)
  PROVE  GraphInv' /\ Graph!Next
<1>1. f \in Fragments /\ f \notin Stored /\ content # None
      /\ fragments \in [Fragments -> Contents \cup {None}]
  BY FreshId, KnowledgeAssumption DEF GraphInv, TypeOK, KnowledgeTypeOK
<1>2. /\ fragments' = [fragments EXCEPT ![f] = content] /\ links' = links
      /\ used' = used \cup {f} /\ OthersKept(s) /\ req'[s].pc = "idle"
  BY BeginStage DEF CreateFragment, Idle
<1>3. Stored' = Stored \cup {f}
  BY <1>1, <1>2 DEF Stored
<1>4. Graph!Next
  <2>1. Graph!AddNode(f)
    BY <1>1, <1>2, <1>3 DEF Graph!AddNode
  <2> QED
    BY <1>1, <2>1 DEF Graph!Next
<1> QED
  BY <1>2, <1>3, <1>4, OthersOnWay DEF GraphInv

LEMMA CommitDropFragmentStep ==
  ASSUME TypeOK, GraphInv, NEW s \in Slots, CommitDropFragment(s)
  PROVE  GraphInv' /\ (Graph!Next \/ UNCHANGED <<Stored, links>>)
<1> DEFINE f == req[s].fragment
<1>1. req[s] \in DropRequests
  BY KnowledgeShapes DEF CommitDropFragment, At, TypeOK, Requests
<1>2. /\ f \in Fragments /\ links \in [Links -> Ends \cup {None}] /\ None \notin Ends
      /\ fragments \in [Fragments -> Contents \cup {None}]
  BY <1>1, KnowledgeAssumption DEF DropRequests, TypeOK, KnowledgeTypeOK
<1>3. /\ fragments' = [fragments EXCEPT ![f] = None] /\ used' = used
      /\ links' = [l \in Links |-> IF l \in LinksThere /\ links[l].source = f THEN None ELSE links[l]]
      /\ OthersKept(s) /\ req'[s].pc = "idle" /\ ~SourceHeld(f, s)
  BY EndStage DEF CommitDropFragment
<1>4. Stored' = Stored \ {f}
  BY <1>2, <1>3 DEF Stored
<1>5. /\ \A k \in Links : links'[k] = links[k] \/ links'[k] = None
      /\ \A k \in Links : links'[k] # None => links[k].source # f
  BY <1>3 DEF LinksThere
<1>6. Graph!Next \/ UNCHANGED <<Stored, links>>
  <2>1. CASE f \in Stored
    <3>1. Graph!RemoveNode(f)
      BY <1>3, <1>4, <2>1 DEF Graph!RemoveNode, LinksThere
    <3> QED
      BY <1>2, <3>1 DEF Graph!Next
  <2>2. CASE f \notin Stored
    <3>1. \A k \in Links : links'[k] = links[k]
      BY <1>3, <2>2 DEF GraphInv, LinksThere
    <3> QED
      BY <1>2, <1>3, <1>4, <2>2, <3>1
  <2> QED
    BY <2>1, <2>2
<1>7. \A o \in Slots \ {s} : /\ LinkOnWay(o) => req[o].link \in Links
                             /\ Inserting(o) => NewLink(o) # None /\ req[o].fragment # f
  BY <1>3, KnowledgeShapes, KnowledgeAssumption
     DEF TypeOK, Requests, LinkOnWay, LinkStages, LinkRequests, Inserting, At, NewLink, Ends, SourceHeld
<1>8. /\ \A k \in Links : links'[k] # None => k \in used' /\ links'[k].source \in Stored'
      /\ \A k, m \in Links : k # m /\ links'[k] # None => links'[k] # links'[m]
      /\ Stored' \subseteq used'
  BY <1>3, <1>4, <1>5 DEF GraphInv
<1>9. /\ \A o \in Slots : LinkOnWay(o)' => req'[o].link \in used' /\ links'[req'[o].link] = None
      /\ \A o, q \in Slots : o # q /\ LinkOnWay(o)' /\ LinkOnWay(q)' => req'[o].link # req'[q].link
  <2>1. \A o \in Slots : LinkOnWay(o)' => o # s /\ LinkOnWay(o) /\ req'[o] = req[o]
    BY <1>3, OthersOnWay
  <2>2. \A o \in Slots \ {s} : LinkOnWay(o) =>
          req[o].link \in Links /\ req[o].link \in used /\ links[req[o].link] = None
    BY <1>7 DEF GraphInv
  <2>3. \A o \in Slots \ {s} : LinkOnWay(o) => links'[req[o].link] = None
    BY <1>5, <2>2
  <2> QED
    BY <1>3, <2>1, <2>2, <2>3 DEF GraphInv
<1>10. \A o \in Slots : Inserting(o)' =>
         req'[o].fragment \in Stored' /\ \A k \in Links : links'[k] # NewLink(o)'
  <2> SUFFICES ASSUME NEW o \in Slots, Inserting(o)'
               PROVE  req'[o].fragment \in Stored' /\ \A k \in Links : links'[k] # NewLink(o)'
    OBVIOUS
  <2>1. o # s /\ Inserting(o) /\ req'[o] = req[o] /\ NewLink(o)' = NewLink(o)
    BY <1>3, OthersOnWay
  <2>2. /\ req[o].fragment \in Stored \ {f} /\ NewLink(o) # None
        /\ \A k \in Links : links[k] # NewLink(o)
    BY <1>7, <2>1 DEF GraphInv
  <2>3. \A k \in Links : links'[k] # NewLink(o)
    BY <1>5, <2>2
  <2> QED
    BY <1>4, <2>1, <2>2, <2>3
<1>11. \A o, q \in Slots : o # q /\ Inserting(o)' /\ Inserting(q)' => NewLink(o)' # NewLink(q)'
  BY <1>3, OthersOnWay DEF GraphInv
<1> QED
  BY <1>6, <1>8, <1>9, <1>10, <1>11 DEF GraphInv

LEMMA GraphStep ==
  TypeInv /\ GraphInv /\ [Next]_vars => GraphInv' /\ [Graph!Next]_<<Stored, links>>
<1> SUFFICES ASSUME TypeInv, GraphInv, [Next]_vars
             PROVE  GraphInv' /\ (Graph!Next \/ UNCHANGED <<Stored, links>>)
  OBVIOUS
<1> USE DEF TypeInv
<1>1. ASSUME NEW s \in Slots, AskKnowledge(s) \/ ServeKnowledge(s)
      PROVE  GraphInv' /\ (Graph!Next \/ UNCHANGED <<Stored, links>>)
  BY <1>1, GraphLeft, LinksLeftStep, CommitLinkStep, CommitDropLinkStep, CreateFragmentStep,
     CommitDropFragmentStep
<1>2. ASSUME NEW s \in Slots, AskAttachments(s) \/ ServeAttachments(s), UNCHANGED knowledge
      PROVE  GraphInv' /\ UNCHANGED <<Stored, links>>
  <2>1. /\ OthersKept(s) /\ req'[s].pc \notin LinkStages /\ used \subseteq used'
        /\ links' = links /\ Stored' = Stored
    BY <1>2, AttachmentStage, WorksLeftAround DEF KnowledgeStages, knowledge, Stored
  <2>2. \A o \in Slots : LinkOnWay(o)' =>
          LinkOnWay(o) /\ req'[o] = req[o] /\ NewLink(o)' = NewLink(o) /\ Inserting(o)' = Inserting(o)
    BY <2>1 DEF OthersKept, LinkOnWay, Inserting, At, NewLink
  <2>3. \A o \in Slots : Inserting(o)' => LinkOnWay(o)'
    BY DEF Inserting, At, LinkOnWay, LinkStages
  <2>4. /\ \A o \in Slots : LinkOnWay(o)' => req'[o].link \in used' /\ links'[req'[o].link] = None
        /\ \A o, q \in Slots : o # q /\ LinkOnWay(o)' /\ LinkOnWay(q)' => req'[o].link # req'[q].link
    BY <2>1, <2>2 DEF GraphInv
  <2>5. /\ \A o \in Slots : Inserting(o)' =>
             req'[o].fragment \in Stored' /\ \A k \in Links : links'[k] # NewLink(o)'
        /\ \A o, q \in Slots : o # q /\ Inserting(o)' /\ Inserting(q)' => NewLink(o)' # NewLink(q)'
    BY <2>1, <2>2, <2>3 DEF GraphInv
  <2> QED
    BY <2>1, <2>4, <2>5 DEF GraphInv
<1>3. CASE UNCHANGED vars
  BY <1>3 DEF vars, knowledge, GraphInv, Stored, LinkOnWay, Inserting, At, NewLink
<1> QED
  BY <1>1, <1>2, <1>3 DEF Next, Request, Proceed

\* Links are a graph on the fragments: for any number of requests in any
\* order, a stored link starts at a fragment that is there, has no twin, goes
\* with its source, and is never changed by a request that only reads.
THEOREM LinksServeGraph == Spec => ServesGraph
<1>1. TypeInv /\ GraphInv /\ [Next]_vars => (TypeInv /\ GraphInv)'
  BY TypeStep, GraphStep
<1> QED
  BY <1>1, TypeInvInit, GraphInit, GraphStep, PTL DEF Spec, ServesGraph, Graph!Spec
=============================================================================
