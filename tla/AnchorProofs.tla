---------------------------- MODULE AnchorProofs -----------------------------
(***************************************************************************)
(* Proofs about what hangs on issues: nothing refers to a row that is      *)
(* gone, and labels that rules add do not collide.                         *)
(***************************************************************************)
EXTENDS WorkspaceProofs

Holding == {"load", "effects", "find_tag"}
OnIssue(s) == req[s].pc \in WritingStages

\* What a request on an issue knows of it: rows it has sent refer to an issue
\* that is there, unless it is its own new one; it sends none before it has
\* evaluated the rules, but for the labels of a new issue.
Holds(s) ==
  OnIssue(s) =>
    /\ req[s].pc = "insert_issue" => req[s].new /\ req[s].held = {}
    /\ req[s].pc = "write_issue" => ~req[s].new
    /\ ~req[s].new /\ req[s].pc \in {"load", "write_issue"} => req[s].held = {}
    /\ ~req[s].new /\ Held(s) # {} => req[s].issue \in issues

AnchorInv == AttachmentsAnchored /\ \A s \in Slots : Holds(s)

\* Rows that may be sent now: what they refer to is there.
RowFound(row) ==
  /\ \A r \in Rules : row = NoteRow(r) => rules[r] # None
  /\ \A l \in Labels : row = TagRow(l) => labels[l] # None

LEMMA NotRefused ==
  ASSUME NEW me, NEW row, ~Refused(me, row)
  PROVE  RowFound(row) /\ (me.new \/ me.issue \in issues)
BY DEF Refused, RowFound, NoteRow, TagRow

\* Steps of a request at work on an issue.
WritingAction(s) ==
  \/ \E i \in NewId(Issues), ls \in SUBSET Labels : BeginFile(s, i, ls)
  \/ \E i \in Issues, changing \in Changing : BeginTouch(s, i, changing)
  \/ InsertIssue(s) \/ LoadRules(s) \/ WriteIssue(s)
  \/ \E r \in Rules, row \in NewRows : AddRow(s, r, row)
  \/ \E r \in Rules : FindLabel(s, r)
  \/ FindTag(s)

AdminAction(s) ==
  \/ \E i \in Issues : BeginDropIssue(s, i) \/ BeginComment(s, i)
  \/ \E n \in notes : MarkRead(s, {n})
  \/ MarkRead(s, notes)
  \/ \E l \in NewId(Labels), n \in Names : BeginCreateLabel(s, l, n)
  \/ \E l \in Labels, n \in Names : BeginRename(s, l, n)
  \/ \E l \in Labels : BeginDropLabel(s, l)
  \/ \E r \in NewId(Rules), row \in RuleRows : CreateRule(s, r, row)
  \/ \E r \in Rules, patch \in RulePatches : BeginUpdateRule(s, r, patch)
  \/ \E r \in Rules : BeginDropRule(s, r)
  \/ CommitIssue(s) \/ CommitDropIssue(s) \/ CommitComment(s)
  \/ CommitLabel(s) \/ CommitRename(s) \/ CommitDropLabel(s)
  \/ CommitRule(s) \/ CommitDropRule(s)

LEMMA AttachmentActions ==
  ASSUME NEW s \in Slots, AskAttachments(s) \/ ServeAttachments(s)
  PROVE  WritingAction(s) \/ AdminAction(s)
BY DEF AskAttachments, ServeAttachments, WritingAction, AdminAction

LEMMA WritingOnly ==
  ASSUME NEW s \in Slots, WritingAction(s)
  PROVE  UNCHANGED <<attachments, issues>>
BY DEF WritingAction, BeginFile, BeginTouch, InsertIssue, LoadRules, WriteIssue, AddRow, FindLabel,
     FindTag

LEMMA BegunOnIssue ==
  ASSUME TypeOK, NEW s \in Slots
  PROVE  /\ \A i \in Issues : \A ls \in SUBSET Labels : BeginFile(s, i, ls) =>
              /\ OthersKept(s) /\ req'[s].pc = "insert_issue" /\ req'[s].issue = i /\ req'[s].new
              /\ req'[s].held = {} /\ req'[s].pending = {TagRow(l) : l \in ls}
         /\ \A i \in Issues : \A changing \in Changing : BeginTouch(s, i, changing) =>
              /\ OthersKept(s) /\ req'[s].pc = "load" /\ req'[s].issue = i /\ ~req'[s].new
              /\ req'[s].locks = changing /\ req'[s].held = {} /\ req'[s].pending = {}
BY BeginStage DEF BeginFile, BeginTouch, Writing

\* Each of them sends only rows whose parents are there.
LEMMA WritingHolds ==
  ASSUME TypeOK, AnchorInv, NEW s \in Slots, WritingAction(s)
  PROVE  /\ OthersKept(s)
         /\ Holds(s)'
         /\ \A row \in Held(s)' : row \in Held(s) \/ RowFound(row)
<1> DEFINE Fine == /\ OthersKept(s) /\ Holds(s)'
                   /\ \A row \in Held(s)' : row \in Held(s) \/ RowFound(row)
<1>0. /\ issues' = issues /\ Holds(s)
      /\ Held(s)' = IF req'[s].pc \in Holding THEN req'[s].held ELSE {}
  BY WritingOnly DEF AnchorInv, Held, Holding
<1> USE DEF WritingStages, Holding
<1>1. ASSUME NEW i \in Issues, NEW ls \in SUBSET Labels, BeginFile(s, i, ls) PROVE Fine
  BY <1>0, <1>1, BegunOnIssue DEF Holds
<1>2. ASSUME NEW i \in Issues, NEW changing \in Changing, BeginTouch(s, i, changing) PROVE Fine
  BY <1>0, <1>2, BegunOnIssue DEF Holds
<1>3. ASSUME SendsRows(s), SameIssue(s), req'[s].pc \in Holding, OthersKept(s),
             req[s].held = Held(s), req[s].pc \in WritingStages,
             ~req[s].new => req'[s].pc # "load"
      PROVE  Fine
  <2>1. \A row \in req[s].pending : RowFound(row) /\ (req[s].new \/ req[s].issue \in issues)
    BY <1>3, NotRefused DEF SendsRows, FlushFails
  <2>2. \A row \in Held(s)' : row \in Held(s) \/ RowFound(row)
    BY <1>0, <1>3, <2>1 DEF SendsRows
  <2>3. ~req'[s].new /\ Held(s)' # {} => req'[s].issue \in issues
    BY <1>0, <1>3, <2>1 DEF SendsRows, SameIssue, Holds, OnIssue
  <2>4. Holds(s)'
    BY <1>0, <1>3, <2>3 DEF Holds, SameIssue
  <2> QED
    BY <1>3, <2>2, <2>4
<1>4. ASSUME req'[s] = Idle, OthersKept(s) PROVE Fine
  BY <1>0, <1>4 DEF Idle, Holds, OnIssue
<1>5. ASSUME InsertIssue(s) PROVE Fine
  <2>1. CASE req'[s] = Idle
    BY <1>4, <1>5, <2>1, WritingStep
  <2>2. CASE req'[s] # Idle
    <3>1. req[s].pc = "insert_issue" /\ req[s].new /\ req[s].held = {} /\ Held(s) = {}
      BY <1>0, <1>5 DEF InsertIssue, At, Holds, OnIssue, Held
    <3> QED
      BY <1>3, <1>5, <2>2, <3>1, WritingStep
  <2> QED
    BY <2>1, <2>2
<1>6. ASSUME LoadRules(s) PROVE Fine
  <2>1. /\ req[s].pc = "load" /\ Held(s) = req[s].held /\ OnIssue(s)
        /\ SameIssue(s) /\ OthersKept(s) /\ req'[s].held = req[s].held
        /\ req'[s].pc = IF req[s].new THEN "effects" ELSE "write_issue"
    BY <1>6, WritingStep DEF LoadRules, At, Held, OnIssue
  <2> QED
    BY <1>0, <2>1 DEF Holds, SameIssue
<1>7. ASSUME WriteIssue(s) PROVE Fine
  <2>1. CASE req'[s] = Idle
    BY <1>4, <1>7, <2>1, WritingStep
  <2>2. CASE req'[s] # Idle
    <3>1. /\ req[s].pc = "write_issue" /\ OnIssue(s) /\ SameIssue(s) /\ OthersKept(s)
          /\ req'[s].pc = "effects" /\ req'[s].held = req[s].held
      BY <1>7, <2>2, WritingStep DEF WriteIssue, At, OnIssue
    <3> QED
      BY <1>0, <3>1 DEF Holds, SameIssue
  <2> QED
    BY <2>1, <2>2
<1>8. ASSUME NEW r \in Rules, NEW row \in NewRows, AddRow(s, r, row) PROVE Fine
  <2>1. /\ req[s].pc = "effects" /\ OnIssue(s) /\ Held(s) = req[s].held
        /\ SameIssue(s) /\ OthersKept(s) /\ req'[s].pc = "effects" /\ req'[s].held = req[s].held
    BY <1>8, EffectStep DEF OnIssue, Held
  <2> QED
    BY <1>0, <2>1 DEF Holds, SameIssue
<1>9. ASSUME NEW r \in Rules, FindLabel(s, r) PROVE Fine
  <2>1. CASE req'[s] = Idle
    BY <1>4, <1>9, <2>1, EffectStep
  <2>2. CASE req'[s] # Idle
    <3>1. /\ req[s].pc = "effects" /\ Held(s) = req[s].held /\ SameIssue(s) /\ OthersKept(s)
          /\ req'[s].pc \in {"effects", "find_tag"} /\ SendsRows(s)
      BY <1>9, <2>2, EffectStep DEF Held
    <3> QED
      BY <1>3, <3>1
  <2> QED
    BY <2>1, <2>2
<1>10. ASSUME FindTag(s) PROVE Fine
  <2>1. /\ req[s].pc = "find_tag" /\ OnIssue(s) /\ Held(s) = req[s].held
        /\ SameIssue(s) /\ OthersKept(s) /\ req'[s].pc = "effects" /\ req'[s].held = req[s].held
    BY <1>10, EffectStep DEF OnIssue, Held
  <2> QED
    BY <1>0, <2>1 DEF Holds, SameIssue
<1> HIDE DEF Fine
<1>11. NewId(Issues) \subseteq Issues
  BY DEF NewId
<1>12. Fine
  BY <1>1, <1>2, <1>5, <1>6, <1>7, <1>8, <1>9, <1>10, <1>11 DEF WritingAction
<1> QED
  BY <1>12 DEF Fine

\* Steps of all the other requests: what they remove, nobody holds a row to.
TablesAnchored ==
  /\ \A t \in tags : t[1] \in issues /\ labels[t[2]] # None
  /\ comments \subseteq issues
  /\ \A n \in notes : n.issue \in issues /\ rules[n.rule] # None

Spares ==
  /\ \A r \in Rules : rules'[r] = None => rules[r] = None \/ ~IsHeld(NoteRow(r))
  /\ \A l \in Labels : labels'[l] = None => labels[l] = None \/ ~IsHeld(TagRow(l))
  /\ \A i \in issues : i \notin issues' => Referrers(i) = {}

LEMMA SparedRows ==
  ASSUME AnchorInv, NEW s \in Slots, OthersKept(s), req'[s].pc \notin WritingStages,
         TablesAnchored', Spares
  PROVE  AnchorInv'
<1>1. /\ Held(s)' = {} /\ Holds(s)'
      /\ \A o \in Slots \ {s} : Held(o)' = Held(o) /\ req'[o] = req[o] /\ OnIssue(o)' = OnIssue(o)
  BY DEF Held, Holds, OnIssue, WritingStages, OthersKept
<1>2. \A row : IsHeld(row)' => IsHeld(row)
  BY <1>1 DEF IsHeld
<1>3. \A r \in Rules : IsHeld(NoteRow(r))' => rules'[r] # None
  BY <1>2 DEF AnchorInv, AttachmentsAnchored, Spares, NoteRow
<1>4. \A l \in Labels : IsHeld(TagRow(l))' => labels'[l] # None
  BY <1>2 DEF AnchorInv, AttachmentsAnchored, Spares, TagRow
<1>5. AttachmentsAnchored'
  BY <1>3, <1>4 DEF AttachmentsAnchored, TablesAnchored
<1>6. ASSUME NEW o \in Slots \ {s} PROVE Holds(o)'
  <2>1. Holds(o) /\ (Held(o) # {} /\ req[o].issue \in issues => req[o].issue \in issues')
    BY DEF AnchorInv, Spares, Referrers
  <2> QED
    BY <1>1, <2>1 DEF Holds
<1> QED
  BY <1>1, <1>5, <1>6 DEF AnchorInv

LEMMA CommitIssueSpares ==
  ASSUME TypeOK, AnchorInv, NEW s \in Slots, CommitIssue(s)
  PROVE  TablesAnchored' /\ Spares
<1> DEFINE me == req[s]
           rows == me.held \cup me.pending
<1>0. /\ TablesAnchored /\ Holds(s) /\ (\A row \in Held(s) : RowFound(row))
  BY DEF AnchorInv, AttachmentsAnchored, TablesAnchored, RowFound, IsHeld, NoteRow, TagRow
<1>1. CASE FlushFails(me)
  BY <1>0, <1>1 DEF CommitIssue, attachments, TablesAnchored, Spares
<1>2. CASE ~FlushFails(me)
  <2>1. /\ me \in IssueRequests /\ me.pc = "effects" /\ OnIssue(s) /\ Held(s) = me.held
    BY AttachmentShapes DEF CommitIssue, At, TypeOK, Requests, OnIssue, WritingStages, Held
  <2>2. \A row \in rows : RowFound(row)
    BY <1>0, <1>2, <2>1, NotRefused DEF FlushFails
  <2>3. /\ issues' = IF me.new THEN issues \cup {me.issue} ELSE issues
        /\ tags' = tags \cup {<<me.issue, l>> : l \in {k \in Labels : TagRow(k) \in rows}}
        /\ comments' = IF CommentRow \in rows THEN comments \cup {me.issue} ELSE comments
        /\ notes' = notes \cup {[rule |-> r, issue |-> me.issue, read |-> FALSE] :
                                  r \in {q \in Rules : NoteRow(q) \in rows}}
        /\ UNCHANGED <<labels, rules>>
    BY <1>2 DEF CommitIssue
  <2>4. rows # {} => me.issue \in issues'
    <3>1. CASE me.new
      BY <2>3, <3>1
    <3>2. CASE ~me.new /\ me.held # {}
      BY <1>0, <2>1, <2>3, <3>2 DEF Holds
    <3>3. CASE ~me.new /\ me.held = {}
      BY <1>2, <2>3, <3>3, NotRefused DEF FlushFails
    <3> QED
      BY <3>1, <3>2, <3>3
  <2> HIDE DEF rows
  <2>5. issues \subseteq issues'
    BY <2>3
  <2>6. \A t \in tags' : t[1] \in issues' /\ labels'[t[2]] # None
    BY <1>0, <2>2, <2>3, <2>4, <2>5 DEF TablesAnchored, RowFound
  <2>7. comments' \subseteq issues'
    BY <1>0, <2>3, <2>4, <2>5 DEF TablesAnchored
  <2>8. \A n \in notes' : n.issue \in issues' /\ rules'[n.rule] # None
    BY <1>0, <2>2, <2>3, <2>4, <2>5 DEF TablesAnchored, RowFound
  <2> QED
    BY <2>3, <2>5, <2>6, <2>7, <2>8 DEF TablesAnchored, Spares
<1> QED
  BY <1>1, <1>2

LEMMA CommitDropSpares ==
  ASSUME TypeOK, AnchorInv, NEW s \in Slots,
         CommitDropIssue(s) \/ CommitComment(s) \/ (\E n \in notes : MarkRead(s, {n}))
           \/ MarkRead(s, notes)
  PROVE  TablesAnchored' /\ Spares
<1>0. TablesAnchored /\ tags \subseteq Issues \X Labels
      /\ notes \subseteq [rule : Rules, issue : Issues, read : BOOLEAN]
  BY DEF AnchorInv, AttachmentsAnchored, TablesAnchored, TypeOK, AttachmentsTypeOK
<1>1. CASE CommitDropIssue(s)
  <2> DEFINE i == req[s].issue
  <2>1. UNCHANGED <<labels, notes, rules>> /\ Referrers(i) = {}
    BY <1>1 DEF CommitDropIssue
  <2>2. CASE UNCHANGED <<issues, tags, comments>>
    BY <1>0, <2>1, <2>2 DEF TablesAnchored, Spares
  <2>3. CASE /\ ~ \E n \in notes : n.issue = i
             /\ issues' = issues \ {i} /\ tags' = {t \in tags : t[1] # i} /\ comments' = comments \ {i}
    BY <1>0, <2>1, <2>3 DEF TablesAnchored, Spares
  <2> QED
    BY <1>1, <2>2, <2>3 DEF CommitDropIssue
<1>2. CASE CommitComment(s)
  BY <1>0, <1>2 DEF CommitComment, TablesAnchored, Spares
<1>3. ASSUME NEW marked \in SUBSET notes, MarkRead(s, marked) PROVE TablesAnchored' /\ Spares
  <2>1. \A n \in marked : /\ [n EXCEPT !.read = TRUE].issue = n.issue
                          /\ [n EXCEPT !.read = TRUE].rule = n.rule
    BY <1>0
  <2>2. UNCHANGED <<labels, tags, comments, rules, issues>>
        /\ notes' = (notes \ marked) \cup {[n EXCEPT !.read = TRUE] : n \in marked}
    BY <1>3 DEF MarkRead
  <2>3. \A n \in notes' : n.issue \in issues /\ rules[n.rule] # None
    BY <1>0, <2>1, <2>2 DEF TablesAnchored
  <2> QED
    BY <1>0, <2>2, <2>3 DEF TablesAnchored, Spares
<1> QED
  BY <1>1, <1>2, <1>3

LEMMA LabelSpares ==
  ASSUME TypeOK, AnchorInv, NEW s \in Slots, CommitLabel(s) \/ CommitRename(s) \/ CommitDropLabel(s)
  PROVE  TablesAnchored' /\ Spares
<1>0. /\ TablesAnchored /\ tags \subseteq Issues \X Labels
      /\ labels \in [Labels -> Names \cup {None}] /\ None \notin Names
      /\ req[s] \in LabelRequests
  BY AttachmentShapes, AttachmentsAssumption
     DEF AnchorInv, AttachmentsAnchored, TablesAnchored, TypeOK, AttachmentsTypeOK, Requests,
         CommitLabel, CommitRename, CommitDropLabel, At
<1>1. CASE CommitLabel(s)
  <2>1. req[s].label \in Labels /\ req[s].name \in Names
    BY <1>0, <1>1 DEF LabelRequests, CommitLabel, At
  <2> QED
    BY <1>0, <1>1, <2>1 DEF CommitLabel, TablesAnchored, Spares
<1>2. CASE CommitRename(s)
  <2>1. req[s].label \in Labels /\ req[s].name \in Names
    BY <1>0, <1>2 DEF LabelRequests, CommitRename, At
  <2>2. labels' = labels \/ labels' = [labels EXCEPT ![req[s].label] = req[s].name]
    BY <1>2 DEF CommitRename
  <2> QED
    BY <1>0, <1>2, <2>1, <2>2 DEF CommitRename, TablesAnchored, Spares
<1>3. CASE CommitDropLabel(s)
  <2>1. /\ labels' = [labels EXCEPT ![req[s].label] = None]
        /\ tags' = {t \in tags : t[2] # req[s].label}
        /\ ~IsHeld(TagRow(req[s].label)) /\ UNCHANGED <<comments, notes, rules, issues>>
    BY <1>3 DEF CommitDropLabel
  <2>2. \A l \in Labels : l # req[s].label => labels'[l] = labels[l]
    BY <1>0, <2>1
  <2>3. \A t \in tags' : t[1] \in issues /\ labels'[t[2]] # None
    BY <1>0, <2>1, <2>2 DEF TablesAnchored
  <2> QED
    BY <1>0, <2>1, <2>2, <2>3 DEF TablesAnchored, Spares
<1> QED
  BY <1>1, <1>2, <1>3

\* A patched rule is a rule.
LEMMA RewrittenRule ==
  ASSUME NEW row \in RuleRows, NEW patch \in RulePatches, NEW me, me.patch = patch
  PROVE  Rewritten(row, patch, Sent(me)) # None
<1> DEFINE new == Rewritten(row, patch, Sent(me))
<1>1. new = [enabled |-> new["enabled"], effect |-> new["effect"]]
  BY DEF RuleRows, Rewritten
<1>2. new["enabled"] \in BOOLEAN /\ new["effect"] \in Effects
  BY AttachmentsAssumption DEF RuleRows, Rewritten, IsRulePatch, Sent, Differing
<1>3. new \in RuleRows
  BY <1>1, <1>2 DEF RuleRows
<1> QED
  BY <1>3, AttachmentsAssumption

LEMMA RuleSpares ==
  ASSUME TypeOK, AnchorInv, NEW s \in Slots,
         \/ \E r \in NewId(Rules), row \in RuleRows : CreateRule(s, r, row)
         \/ CommitRule(s) \/ CommitDropRule(s)
  PROVE  TablesAnchored' /\ Spares
<1>0. /\ TablesAnchored /\ rules \in [Rules -> RuleRows \cup {None}] /\ None \notin RuleRows
      /\ notes \subseteq [rule : Rules, issue : Issues, read : BOOLEAN]
      /\ NewId(Rules) \subseteq Rules
  BY AttachmentsAssumption
     DEF AnchorInv, AttachmentsAnchored, TablesAnchored, TypeOK, AttachmentsTypeOK, NewId
<1>1. ASSUME NEW r \in Rules, NEW row \in RuleRows, CreateRule(s, r, row)
      PROVE  TablesAnchored' /\ Spares
  BY <1>0, <1>1 DEF CreateRule, TablesAnchored, Spares
<1>2. CASE CommitRule(s)
  <2> DEFINE me == req[s]
             row == Rewritten(rules[me.rule], me.patch, Sent(me))
  <2>1. me \in RuleRequests /\ me.pc = "write_rule"
    BY <1>2, AttachmentShapes DEF CommitRule, At, TypeOK, Requests
  <2>2. me.rule \in Rules /\ me.patch \in RulePatches
    BY <2>1 DEF RuleRequests
  <2>3. UNCHANGED <<labels, tags, comments, notes, issues>>
    BY <1>2 DEF CommitRule
  <2>4. CASE rules[me.rule] = None
    BY <1>0, <1>2, <2>3, <2>4 DEF CommitRule, TablesAnchored, Spares
  <2>5. CASE rules[me.rule] # None
    <3>1. row # None
      BY <1>0, <2>2, <2>5, RewrittenRule
    <3>2. rules' = [rules EXCEPT ![me.rule] = row]
      BY <1>2, <2>5 DEF CommitRule
    <3> HIDE DEF row
    <3> QED
      BY <1>0, <2>2, <2>3, <3>1, <3>2 DEF TablesAnchored, Spares
  <2> QED
    BY <2>4, <2>5
<1>3. CASE CommitDropRule(s)
  <2>1. ~IsHeld(NoteRow(req[s].rule)) /\ UNCHANGED <<labels, tags, comments, notes, issues>>
    BY <1>3 DEF CommitDropRule
  <2>2. \/ rules' = rules
        \/ /\ rules' = [rules EXCEPT ![req[s].rule] = None]
           /\ \A n \in notes : n.rule # req[s].rule
    BY <1>3 DEF CommitDropRule
  <2> QED
    BY <1>0, <2>1, <2>2 DEF TablesAnchored, Spares
<1> QED
  BY <1>0, <1>1, <1>2, <1>3

LEMMA AdminSpares ==
  ASSUME TypeOK, AnchorInv, NEW s \in Slots, AdminAction(s)
  PROVE  TablesAnchored' /\ Spares
<1>0. TablesAnchored
  BY DEF AnchorInv, AttachmentsAnchored, TablesAnchored
<1>1. CASE UNCHANGED <<attachments, issues>>
  BY <1>0, <1>1 DEF attachments, TablesAnchored, Spares
<1>2. \/ UNCHANGED <<attachments, issues>>
      \/ \E n \in notes : MarkRead(s, {n})
      \/ MarkRead(s, notes)
      \/ \E r \in NewId(Rules), row \in RuleRows : CreateRule(s, r, row)
      \/ CommitIssue(s) \/ CommitDropIssue(s) \/ CommitComment(s)
      \/ CommitLabel(s) \/ CommitRename(s) \/ CommitDropLabel(s)
      \/ CommitRule(s) \/ CommitDropRule(s)
  BY DEF AdminAction, BeginDropIssue, BeginComment, BeginCreateLabel, BeginRename, BeginDropLabel,
       BeginUpdateRule, BeginDropRule
<1> QED
  BY <1>1, <1>2, CommitIssueSpares, CommitDropSpares, LabelSpares, RuleSpares

LEMMA AnchorStep == TypeOK /\ AnchorInv /\ [Next]_vars => AnchorInv'
<1> SUFFICES ASSUME TypeOK, AnchorInv, [Next]_vars PROVE AnchorInv'
  OBVIOUS
<1>1. ASSUME NEW s \in Slots, AdminAction(s) PROVE AnchorInv'
  <2>1. OthersKept(s) /\ req'[s].pc \notin WritingStages
    BY <1>1, AdminStage DEF AdminAction
  <2> QED
    BY <1>1, <2>1, AdminSpares, SparedRows
<1>2. ASSUME NEW s \in Slots, WritingAction(s) PROVE AnchorInv'
  <2>1. /\ UNCHANGED <<attachments, issues>> /\ OthersKept(s) /\ Holds(s)'
        /\ \A row \in Held(s)' : row \in Held(s) \/ RowFound(row)
    BY <1>2, WritingOnly, WritingHolds
  <2>2. \A o \in Slots \ {s} : Held(o)' = Held(o) /\ Holds(o)' = Holds(o)
    BY <2>1 DEF OthersKept, Held, Holds, OnIssue
  <2>3. \A row : IsHeld(row)' => IsHeld(row) \/ RowFound(row)
    BY <2>1, <2>2 DEF IsHeld
  <2>4. \A r \in Rules : IsHeld(NoteRow(r))' => rules[r] # None
    BY <2>3 DEF AnchorInv, AttachmentsAnchored, RowFound, NoteRow
  <2>5. \A l \in Labels : IsHeld(TagRow(l))' => labels[l] # None
    BY <2>3 DEF AnchorInv, AttachmentsAnchored, RowFound, TagRow
  <2>6. AttachmentsAnchored'
    BY <2>1, <2>4, <2>5 DEF AnchorInv, AttachmentsAnchored, attachments
  <2> QED
    BY <2>1, <2>2, <2>6 DEF AnchorInv
<1>3. ASSUME NEW s \in Slots, AskKnowledge(s) \/ ServeKnowledge(s), UNCHANGED <<issues, attachments>>
      PROVE  AnchorInv'
  <2>1. OthersKept(s) /\ req'[s].pc \notin WritingStages
    BY <1>3, KnowledgeStage DEF KnowledgeStages, LinkStages, WritingStages
  <2>2. TablesAnchored' /\ Spares
    BY <1>3 DEF AnchorInv, AttachmentsAnchored, attachments, TablesAnchored, Spares
  <2> QED
    BY <2>1, <2>2, SparedRows
<1>4. CASE UNCHANGED vars
  BY <1>4 DEF vars, attachments, AnchorInv, AttachmentsAnchored, IsHeld, Held, Holds, OnIssue
<1> QED
  BY <1>1, <1>2, <1>3, <1>4, AttachmentActions DEF Next, Request, Proceed

LEMMA AnchorInit == Init => AnchorInv
<1> SUFFICES ASSUME Init PROVE AnchorInv
  OBVIOUS
<1>1. \A s \in Slots : req[s].pc = "idle"
  BY DEF Init, ServerInit, Idle
<1>2. \A row : ~IsHeld(row)
  BY <1>1 DEF IsHeld, Held
<1>3. AttachmentsAnchored
  BY <1>2 DEF Init, AttachmentsInit, AttachmentsAnchored, NoteRow, TagRow
<1> QED
  BY <1>1, <1>3 DEF AnchorInv, Holds, OnIssue, WritingStages

\* Labels on issues, comments and notifications refer to rows that are there,
\* whatever is deleted between a rule's evaluation and the commit.
THEOREM AttachmentsStayAnchored == Spec => []AttachmentsAnchored
<1>1. TypeInv /\ AnchorInv /\ [Next]_vars => (TypeInv /\ AnchorInv)'
  BY TypeStep, AnchorStep DEF TypeInv
<1>2. AnchorInv => AttachmentsAnchored
  BY DEF AnchorInv
<1> QED
  BY <1>1, <1>2, TypeInvInit, AnchorInit, PTL DEF Spec

-----------------------------------------------------------------------------
(* Labels that rules add.  The row lock that the UPDATE of an issue takes   *)
(* keeps two requests from looking for labels on the same issue, and a new *)
(* issue is nobody else's.                                                 *)

Marking == {"effects", "find_tag"}

\* Every PATCH changes its issue.
Exclusive == FALSE \notin Changing

\* What a request on an issue knows; its own new issue is nobody else's.
Marks(s) ==
  OnIssue(s) =>
    /\ req[s].new => req[s].issue \in used \ issues
    /\ Exclusive /\ ~req[s].new => req[s].locks
    /\ req[s].pc \in {"load", "write_issue"} => req[s].pending = {}
    /\ Exclusive /\ ~req[s].new /\ req[s].pc \in Marking => req[s].issue \in issues

Apart(s, o) ==
  /\ OnIssue(s) /\ OnIssue(o) /\ req[s].new /\ req[o].new => req[s].issue # req[o].issue
  /\ Exclusive /\ req[s].pc \in Marking /\ req[o].pc \in Marking => req[s].issue # req[o].issue

NoTwinTag(s) ==
  \A l \in Labels :
    Exclusive /\ req[s].pc \in Marking /\ TagRow(l) \in req[s].pending =>
      <<req[s].issue, l>> \notin tags /\ TagRow(l) \notin req[s].held

TagInv ==
  /\ issues \subseteq used
  /\ \A s \in Slots : Marks(s) /\ NoTwinTag(s)
  /\ \A s, o \in Slots : s # o => Apart(s, o)

\* A request that goes on with its issue.
LEMMA MarksOn ==
  ASSUME TagInv, NEW s \in Slots, OthersKept(s), UNCHANGED <<issues, tags>>, used \subseteq used',
         Marks(s)', NoTwinTag(s)', \A o \in Slots \ {s} : Apart(s, o)'
  PROVE  TagInv'
<1>1. \A o \in Slots \ {s} : /\ req'[o] = req[o] /\ Marks(o)'
                             /\ NoTwinTag(o)' = NoTwinTag(o)
  BY DEF OthersKept, Marks, NoTwinTag, OnIssue, TagInv
<1>2. \A o, q \in Slots \ {s} : o # q => Apart(o, q)'
  BY <1>1 DEF Apart, OnIssue, TagInv
<1>3. \A o \in Slots \ {s} : Apart(o, s)'
  BY DEF Apart
<1> QED
  BY <1>1, <1>2, <1>3 DEF TagInv

LEMMA WritingMarks ==
  ASSUME TypeOK, AnchorInv, TagInv, NEW s \in Slots, WritingAction(s)
  PROVE  TagInv'
<1>0. /\ UNCHANGED <<issues, tags>> /\ OthersKept(s) /\ used \subseteq used'
      /\ Marks(s) /\ NoTwinTag(s) /\ Holds(s)
      /\ \A o \in Slots \ {s} : req'[o] = req[o] /\ Marks(o) /\ Apart(s, o)
  <2>1. UNCHANGED <<issues, tags>> /\ OthersKept(s)
    BY WritingOnly, WritingHolds DEF attachments
  <2>2. used \subseteq used'
    BY DEF WritingAction, BeginFile, BeginTouch, InsertIssue, LoadRules, WriteIssue, AddRow,
         FindLabel, FindTag
  <2> QED
    BY <2>1, <2>2 DEF TagInv, AnchorInv, OthersKept
<1> DEFINE Fine == Marks(s)' /\ NoTwinTag(s)' /\ \A o \in Slots \ {s} : Apart(s, o)'
<1> USE DEF WritingStages, Marking
<1>1. ASSUME NEW i \in NewId(Issues), NEW ls \in SUBSET Labels, BeginFile(s, i, ls) PROVE Fine
  <2>1. i \in Issues /\ i \notin used
    BY FreshId
  <2>2. /\ req'[s].pc = "insert_issue" /\ req'[s].issue = i /\ req'[s].new
        /\ used' = used \cup {i} /\ i \notin issues
    BY <1>1, <2>1, BegunOnIssue DEF BeginFile, TagInv
  <2>3. Marks(s)' /\ NoTwinTag(s)'
    BY <1>0, <2>2 DEF Marks, NoTwinTag
  <2>4. ASSUME NEW o \in Slots \ {s} PROVE Apart(s, o)'
    BY <1>0, <2>1, <2>2 DEF Apart, Marks, OnIssue
  <2> QED
    BY <2>3, <2>4
<1>2. ASSUME NEW i \in Issues, NEW changing \in Changing, BeginTouch(s, i, changing) PROVE Fine
  <2>1. /\ req'[s].pc = "load" /\ req'[s].issue = i /\ ~req'[s].new /\ req'[s].pending = {}
        /\ req'[s].locks = changing /\ (Exclusive => changing = TRUE)
    BY <1>2, BegunOnIssue, AttachmentsAssumption DEF Exclusive
  <2> QED
    BY <1>0, <2>1 DEF Marks, NoTwinTag, Apart
<1>3. ASSUME req'[s] = Idle PROVE Fine
  BY <1>3 DEF Idle, Marks, NoTwinTag, Apart, OnIssue
<1>4. ASSUME SameIssue(s), OnIssue(s), req'[s].pc = "load", req'[s].pending = {} PROVE Fine
  BY <1>0, <1>4 DEF Marks, NoTwinTag, Apart, OnIssue, SameIssue
<1>5. ASSUME LoadRules(s) PROVE Fine
  <2>1. /\ req[s].pc = "load" /\ OnIssue(s) /\ SameIssue(s) /\ req'[s].pending = req[s].pending
        /\ req'[s].pc = IF req[s].new THEN "effects" ELSE "write_issue"
    BY <1>5, WritingStep DEF LoadRules, At, OnIssue
  <2>2. req'[s].pending = {} /\ NoTwinTag(s)'
    BY <1>0, <2>1 DEF Marks, NoTwinTag
  <2>3. Marks(s)'
    BY <1>0, <2>1, <2>2 DEF Marks, SameIssue
  <2>4. ASSUME NEW o \in Slots \ {s} PROVE Apart(s, o)'
    BY <1>0, <2>1 DEF Apart, Marks, OnIssue, SameIssue
  <2> QED
    BY <2>2, <2>3, <2>4
<1>6. ASSUME WriteIssue(s) PROVE Fine
  <2>1. CASE req'[s] = Idle
    BY <1>3, <2>1
  <2>2. CASE req'[s] # Idle
    <3>1. /\ req[s].pc = "write_issue" /\ OnIssue(s) /\ SameIssue(s) /\ req'[s].pc = "effects"
          /\ req'[s].pending = req[s].pending /\ ~req[s].new /\ (Exclusive => req[s].locks)
      BY <1>0, <1>6, <2>2, WritingStep DEF WriteIssue, At, OnIssue, Holds, Marks
    <3>2. Exclusive => Writers(req[s].issue) = {} /\ req[s].issue \in issues
      BY <1>6, <2>2, <3>1, EndStage DEF WriteIssue
    <3>3. Marks(s)' /\ NoTwinTag(s)'
      BY <1>0, <3>1, <3>2 DEF Marks, NoTwinTag, SameIssue
    <3>4. ASSUME NEW o \in Slots \ {s} PROVE Apart(s, o)'
      BY <1>0, <3>1, <3>2 DEF Apart, Marks, OnIssue, SameIssue, Writers
    <3> QED
      BY <3>3, <3>4
  <2> QED
    BY <2>1, <2>2
<1>7. ASSUME SameIssue(s), req[s].pc \in Marking, req'[s].pc \in Marking, NoTwinTag(s)' PROVE Fine
  BY <1>0, <1>7 DEF Marks, Apart, OnIssue, SameIssue
<1>8. ASSUME NEW r \in Rules, NEW row \in NewRows, AddRow(s, r, row) PROVE Fine
  <2>1. /\ req[s].pc = "effects" /\ SameIssue(s) /\ req'[s].pc = "effects"
        /\ req'[s].held = req[s].held /\ req'[s].pending = req[s].pending \cup {row}
    BY <1>8, EffectStep
  <2>2. \A l \in Labels : row # TagRow(l)
    BY <1>8 DEF AddRow, NoteRow, CommentRow, TagRow
  <2>3. NoTwinTag(s)'
    BY <1>0, <2>1, <2>2 DEF NoTwinTag, SameIssue
  <2> QED
    BY <1>7, <2>1, <2>3
<1>9. ASSUME NEW r \in Rules, FindLabel(s, r) PROVE Fine
  <2>1. CASE req'[s] = Idle
    BY <1>3, <2>1
  <2>2. CASE req'[s] # Idle
    <3>1. /\ req[s].pc = "effects" /\ SameIssue(s) /\ req'[s].pc \in Marking /\ req'[s].pending = {}
      BY <1>9, <2>2, EffectStep DEF SendsRows
    <3> QED
      BY <1>7, <3>1 DEF NoTwinTag
  <2> QED
    BY <2>1, <2>2
<1>10. ASSUME FindTag(s) PROVE Fine
  <2>1. /\ req[s].pc = "find_tag" /\ SameIssue(s) /\ req'[s].pc = "effects"
        /\ req'[s].held = req[s].held
        /\ req'[s].pending = IF TagThere(s) THEN req[s].pending
                             ELSE req[s].pending \cup {TagRow(req[s].label)}
    BY <1>10, EffectStep
  <2>2. NoTwinTag(s)'
    BY <1>0, <2>1 DEF NoTwinTag, TagThere, SameIssue, TagRow
  <2> QED
    BY <1>7, <2>1, <2>2
<1>11. ASSUME InsertIssue(s) PROVE Fine
  <2>1. OnIssue(s)
    BY <1>11 DEF InsertIssue, At, OnIssue
  <2> QED
    BY <1>3, <1>4, <1>11, <2>1, WritingStep DEF SendsRows
<1> HIDE DEF Fine
<1>12. NewId(Issues) \subseteq Issues
  BY DEF NewId
<1>13. Fine
  BY <1>1, <1>2, <1>5, <1>6, <1>8, <1>9, <1>10, <1>11, <1>12 DEF WritingAction
<1> QED
  BY <1>0, <1>13, MarksOn DEF Fine

\* What all the other requests do to issues and their labels.
LEMMA AdminEffect ==
  ASSUME NEW s \in Slots, AdminAction(s)
  PROVE  /\ \A i \in issues' : i \in issues \/ (At(s, "effects") /\ req[s].new /\ i = req[s].issue)
         /\ \A i \in issues : i \notin issues' => Writers(i) = {}
         /\ \A t \in tags' : t \in tags \/ (At(s, "effects") /\ t[1] = req[s].issue)
<1> DEFINE Small == /\ \A i \in issues' : i \in issues \/ (At(s, "effects") /\ req[s].new /\ i = req[s].issue)
                    /\ \A i \in issues : i \notin issues' => Writers(i) = {}
                    /\ \A t \in tags' : t \in tags \/ (At(s, "effects") /\ t[1] = req[s].issue)
<1>1. CASE UNCHANGED <<issues, tags>>
  BY <1>1
<1>2. CASE CommitIssue(s)
  <2>1. CASE UNCHANGED <<attachments, issues>>
    BY <1>1, <2>1 DEF attachments
  <2>2. CASE /\ issues' = IF req[s].new THEN issues \cup {req[s].issue} ELSE issues
             /\ tags' = tags \cup {<<req[s].issue, l>> :
                          l \in {k \in Labels : TagRow(k) \in req[s].held \cup req[s].pending}}
    BY <1>2, <2>2 DEF CommitIssue
  <2> QED
    BY <1>2, <2>1, <2>2 DEF CommitIssue
<1>3. CASE CommitDropIssue(s)
  BY <1>3 DEF CommitDropIssue
<1>4. CASE CommitDropLabel(s)
  BY <1>4 DEF CommitDropLabel
<1>5. \/ UNCHANGED <<issues, tags>> \/ CommitIssue(s) \/ CommitDropIssue(s) \/ CommitDropLabel(s)
  BY DEF AdminAction, BeginDropIssue, BeginComment, MarkRead, BeginCreateLabel, BeginRename,
       BeginDropLabel, CreateRule, BeginUpdateRule, BeginDropRule, CommitComment, CommitLabel,
       CommitRename, CommitRule, CommitDropRule, attachments
<1> HIDE DEF Small
<1>6. Small
  BY <1>1, <1>2, <1>3, <1>4, <1>5 DEF Small
<1> QED
  BY <1>6 DEF Small

LEMMA OthersMark ==
  ASSUME TagInv, NEW s \in Slots, OthersKept(s), req'[s].pc \notin WritingStages,
         used \subseteq used',
         \A i \in issues' : i \in issues \/ (At(s, "effects") /\ req[s].new /\ i = req[s].issue),
         \A i \in issues : i \notin issues' => Writers(i) = {},
         \A t \in tags' : t \in tags \/ (At(s, "effects") /\ t[1] = req[s].issue)
  PROVE  TagInv'
<1> USE DEF Marking, WritingStages
<1>1. Marks(s)' /\ NoTwinTag(s)' /\ \A o \in Slots : Apart(s, o)' /\ Apart(o, s)'
  BY DEF Marks, NoTwinTag, Apart, OnIssue
<1>2. At(s, "effects") => OnIssue(s)
  BY DEF At, OnIssue
<1>3. issues' \subseteq used'
  BY <1>2 DEF TagInv, Marks
<1>4. ASSUME NEW o \in Slots \ {s} PROVE Marks(o)'
  <2>1. req'[o] = req[o] /\ Marks(o) /\ Apart(s, o)
    BY DEF OthersKept, TagInv
  <2>2. OnIssue(o) /\ req[o].new => req[o].issue \notin issues'
    BY <1>2, <2>1 DEF Marks, Apart
  <2>3. Exclusive /\ OnIssue(o) /\ ~req[o].new /\ req[o].pc \in Marking => req[o].issue \in issues'
    BY <2>1 DEF Marks, Writers
  <2> QED
    BY <2>1, <2>2, <2>3 DEF Marks, OnIssue
<1>5. ASSUME NEW o \in Slots \ {s} PROVE NoTwinTag(o)'
  <2>1. req'[o] = req[o] /\ NoTwinTag(o) /\ Apart(s, o)
    BY DEF OthersKept, TagInv
  <2> QED
    BY <2>1 DEF NoTwinTag, Apart, At
<1>6. \A o, q \in Slots \ {s} : o # q => Apart(o, q)'
  BY DEF OthersKept, TagInv, Apart, OnIssue
<1> QED
  BY <1>1, <1>3, <1>4, <1>5, <1>6 DEF TagInv

LEMMA UsedGrows ==
  ASSUME NEW s \in Slots, AskKnowledge(s) \/ ServeKnowledge(s)
  PROVE  used \subseteq used'
BY DEF AskKnowledge, ServeKnowledge, BeginCreateLink, ValidateTarget, InsertLink, CommitLink,
     BeginGetLinks, ReadOutgoing, ReadIncoming, TurnLinks, Hydrate, Answer, BeginDeleteLink,
     FindLink, CommitDropLink, CreateFragment, BeginUpdateFragment, CommitFragment,
     BeginDeleteFragment, CommitDropFragment, CreateWork, BeginUpdateWork, CommitWork

LEMMA TagStep == TypeOK /\ AnchorInv /\ TagInv /\ [Next]_vars => TagInv'
<1> SUFFICES ASSUME TypeOK, AnchorInv, TagInv, [Next]_vars PROVE TagInv'
  OBVIOUS
<1>1. ASSUME NEW s \in Slots, AskAttachments(s) \/ ServeAttachments(s) PROVE TagInv'
  <2>1. CASE WritingAction(s)
    BY <2>1, WritingMarks
  <2>2. CASE AdminAction(s)
    <3>1. OthersKept(s) /\ req'[s].pc \notin WritingStages
      BY <2>2, AdminStage DEF AdminAction
    <3> QED
      BY <1>1, <2>2, <3>1, WorksLeftAround, AdminEffect, OthersMark
  <2> QED
    BY <1>1, <2>1, <2>2, AttachmentActions
<1>2. ASSUME NEW s \in Slots, AskKnowledge(s) \/ ServeKnowledge(s), UNCHANGED <<issues, attachments>>
      PROVE  TagInv'
  <2>1. OthersKept(s) /\ req'[s].pc \notin WritingStages
    BY <1>2, KnowledgeStage DEF KnowledgeStages, LinkStages, WritingStages
  <2>2. used \subseteq used'
    BY <1>2, UsedGrows
  <2> QED
    BY <1>2, <2>1, <2>2, OthersMark DEF attachments
<1>3. CASE UNCHANGED vars
  BY <1>3 DEF vars, attachments, TagInv, Marks, NoTwinTag, Apart, OnIssue
<1> QED
  BY <1>1, <1>2, <1>3 DEF Next, Request, Proceed

LEMMA TagInit == Init => TagInv
<1> SUFFICES ASSUME Init PROVE TagInv
  OBVIOUS
<1>1. \A s \in Slots : req[s].pc = "idle"
  BY DEF Init, ServerInit, Idle
<1>2. issues \subseteq used
  BY DEF Init, ServerInit
<1> QED
  BY <1>1, <1>2 DEF TagInv, Marks, NoTwinTag, Apart, OnIssue, WritingStages, Marking

\* If every PATCH of an issue changes it, and so locks its row, a label that a
\* rule adds is on the issue by nobody else's doing: no request fails for it.
THEOREM LabelsNeverCollide ==
  ASSUME FALSE \notin Changing
  PROVE  Spec => []TagsNeverCollide
<1>1. TypeInv /\ AnchorInv /\ TagInv /\ [Next]_vars => (TypeInv /\ AnchorInv /\ TagInv)'
  BY TypeStep, AnchorStep, TagStep DEF TypeInv
<1>2. TagInv => TagsNeverCollide
  BY DEF TagInv, NoTwinTag, TagsNeverCollide, Marking, Exclusive
<1> QED
  BY <1>1, <1>2, TypeInvInit, AnchorInit, TagInit, PTL DEF Spec
=============================================================================
