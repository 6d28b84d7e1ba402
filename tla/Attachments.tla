----------------------------- MODULE Attachments -----------------------------
(***************************************************************************)
(* What hangs on issues, and the rules that hang it there: labels, the     *)
(* label's attachment to issues, comments, notifications, and the          *)
(* administration of rules, as concurrent requests with each other and     *)
(* with the creation, PATCH and deletion of issues.                        *)
(*                                                                         *)
(* Here every rule applies to every issue and has one action; conditions,  *)
(* triggers and rejections are in RuleEngine, and what else a PATCH does   *)
(* to the issue is in Issues.  Two rules that act on the same issue do so  *)
(* in any order.                                                           *)
(***************************************************************************)
EXTENDS Server

CONSTANTS
  Labels,         \* ids of labels
  Names,          \* names of labels
  Rules,          \* ids of rules
  Effects,        \* actions a rule may have
  InitLabels,     \* the tables to start from
  InitRules,
  RulePatches,    \* bodies of PATCH of a rule: some columns and their values
  Changing        \* whether a PATCH of an issue changes it; some may, some not

NotifyEffect == [type |-> "notify"]
CommentEffect == [type |-> "add_comment"]
LabelEffect(n) == [type |-> "add_label", name |-> n]

RuleRows == [enabled : BOOLEAN, effect : Effects]

\* The actions a rule may have, of those there are here.
IsEffect(e) == e \in {NotifyEffect, CommentEffect} \cup {LabelEffect(n) : n \in Names}

\* The bodies that PATCH accepts.
IsRulePatch(p) ==
  /\ DOMAIN p \subseteq {"enabled", "effect"}
  /\ "enabled" \in DOMAIN p => p["enabled"] \in BOOLEAN
  /\ "effect" \in DOMAIN p => p["effect"] \in Effects

ASSUME AttachmentsAssumption ==
  /\ None \notin Names \cup RuleRows \cup Effects \cup Labels \cup Rules
  /\ \A e \in Effects : IsEffect(e)
  /\ InitLabels \in [Labels -> Names \cup {None}]
  /\ InitRules \in [Rules -> RuleRows \cup {None}]
  /\ Changing \subseteq BOOLEAN
  /\ \A p \in RulePatches : IsRulePatch(p)

VARIABLES
  labels,    \* the labels table: the name of each label there is
  tags,      \* the issue_labels table
  comments,  \* the issues that have comments
  notes,     \* the notifications table; two alike count as one
  rules,     \* the rules table
  told       \* each rule as the entries of the audit log tell it

attachments == <<labels, tags, comments, notes, rules, told>>

AttachmentsInit ==
  /\ labels = InitLabels
  /\ tags = {}
  /\ comments = {}
  /\ notes = {}
  /\ rules = InitRules
  /\ told = InitRules

----------------------------------------------------------------------------
(* Rows that requests insert: pending until the next flush sends them, and *)
(* held from then to the commit.                                           *)

NoteRow(r) == [table |-> "notifications", id |-> r]
TagRow(l) == [table |-> "issue_labels", id |-> l]
CommentRow == [table |-> "comments", id |-> None]

NewRows == {NoteRow(r) : r \in Rules} \cup {TagRow(l) : l \in Labels} \cup {CommentRow}

Held(s) == IF req[s].pc \in {"load", "effects", "find_tag"} THEN req[s].held ELSE {}
IsHeld(row) == \E s \in Slots : row \in Held(s)

\* Mutant: an UPDATE locks nothing.
NoWriters(i) == {}

\* Requests that have written an issue, and all that keep it from being
\* deleted: those, and the ones holding rows that refer to it.
Writers(i) ==
  {s \in Slots : req[s].pc \in {"effects", "find_tag"} /\ req[s].issue = i /\ req[s].locks}
Referrers(i) == {s \in Slots : Held(s) # {} /\ req[s].issue = i}

\* Mutant: foreign keys are not checked.
RefusedAsTwin(me, row) == row.table = "issue_labels" /\ <<me.issue, row.id>> \in tags

\* A row whose parent is gone, or that is there already, is refused, and with
\* it the whole request.
Refused(me, row) ==
  \/ ~me.new /\ me.issue \notin issues
  \/ row.table = "notifications" /\ rules[row.id] = None
  \/ row.table = "issue_labels" /\ (labels[row.id] = None \/ <<me.issue, row.id>> \in tags)

\* A row like a new one of s that another request has inserted: the INSERT
\* waits for the end of that request.
TwinHeld(s) ==
  \E o \in Slots \ {s} : Held(o) # {} /\ req[o].issue = req[s].issue
                         /\ \E l \in Labels : TagRow(l) \in Held(o) \cap req[s].pending

FlushFails(me) == \E row \in me.pending : Refused(me, row)
Flushed(me) == [me EXCEPT !.held = @ \cup me.pending, !.pending = {}]

----------------------------------------------------------------------------
(* Creation and PATCH of an issue, with the effects of the rules.          *)

\* A request on issue i: "left" are the rules still to apply and "effect"
\* their actions as they were read; "locks" tells that it has written i.
Writing(label, i, new, locks, rows) ==
  [pc |-> label, issue |-> i, new |-> new, locks |-> locks, pending |-> rows,
   held |-> {}, left |-> {}, effect |-> [r \in Rules |-> None], label |-> None]

BeginFile(s, i, ls) ==
  /\ \A l \in ls : labels[l] # None
  /\ Begin(s, "create_issue", Writing("insert_issue", i, TRUE, FALSE, {TagRow(l) : l \in ls}))
  /\ used' = used \cup {i}
  /\ UNCHANGED <<attachments, issues>>

\* The issue and its labels are inserted; nobody sees them before the commit.
InsertIssue(s) ==
  /\ At(s, "insert_issue")
  /\ IF FlushFails(req[s]) THEN End(s)
     ELSE Become(s, [Flushed(req[s]) EXCEPT !.pc = "load"])
  /\ UNCHANGED <<attachments, issues, served, used>>

BeginTouch(s, i, changing) ==
  /\ i \in issues
  /\ Begin(s, "update_issue", Writing("load", i, FALSE, changing, {}))
  /\ UNCHANGED <<attachments, issues, used>>

Enabled == {r \in Rules : rules[r] # None /\ rules[r].enabled}

\* A PATCH evaluates the rules before it writes the issue, a creation after.
LoadRules(s) ==
  /\ At(s, "load")
  /\ Become(s, [req[s] EXCEPT
       !.pc = IF req[s].new THEN "effects" ELSE "write_issue",
       !.left = Enabled,
       !.effect = [r \in Rules |-> IF r \in Enabled THEN rules[r].effect ELSE None]])
  /\ UNCHANGED <<attachments, issues, served, used>>

\* An UPDATE that changes nothing is not sent, and locks nothing.
WriteIssue(s) ==
  /\ At(s, "write_issue")
  /\ req[s].locks => Writers(req[s].issue) = {}
  /\ IF req[s].locks /\ req[s].issue \notin issues THEN End(s) ELSE Goto(s, "effects")
  /\ UNCHANGED <<attachments, issues, served, used>>

\* A notification or a comment is added to the session and sent later.
AddRow(s, r, row) ==
  /\ At(s, "effects")
  /\ r \in req[s].left
  /\ \/ req[s].effect[r] = NotifyEffect /\ row = NoteRow(r)
     \/ req[s].effect[r] = CommentEffect /\ row = CommentRow
  /\ Become(s, [req[s] EXCEPT !.left = @ \ {r}, !.pending = @ \cup {row}])
  /\ UNCHANGED <<attachments, issues, served, used>>

\* The SELECT of a label by its name first sends what is pending.
FindLabel(s, r) ==
  /\ At(s, "effects")
  /\ ~TwinHeld(s)
  /\ r \in req[s].left
  /\ \E n \in Names :
       /\ req[s].effect[r] = LabelEffect(n)
       /\ LET me == [Flushed(req[s]) EXCEPT !.left = @ \ {r}]
          IN  IF FlushFails(req[s]) THEN End(s)
              ELSE \/ (\A l \in Labels : labels[l] # n) /\ Become(s, me)
                   \/ \E l \in Labels : /\ labels[l] = n
                                        /\ Become(s, [me EXCEPT !.pc = "find_tag", !.label = l])
  /\ UNCHANGED <<attachments, issues, served, used>>

TagThere(s) == <<req[s].issue, req[s].label>> \in tags \/ TagRow(req[s].label) \in req[s].held

FindTag(s) ==
  /\ At(s, "find_tag")
  /\ Become(s, [req[s] EXCEPT !.pc = "effects",
       !.pending = IF TagThere(s) THEN @ ELSE @ \cup {TagRow(req[s].label)}])
  /\ UNCHANGED <<attachments, issues, served, used>>

\* The last flush, and the commit.
CommitIssue(s) ==
  /\ At(s, "effects")
  /\ req[s].left = {}
  /\ ~TwinHeld(s)
  /\ LET me == req[s]
         rows == me.held \cup me.pending
     IN  IF FlushFails(me) THEN UNCHANGED <<attachments, issues>>
         ELSE /\ issues' = IF me.new THEN issues \cup {me.issue} ELSE issues
              /\ tags' = tags \cup {<<me.issue, l>> : l \in {k \in Labels : TagRow(k) \in rows}}
              /\ comments' = IF CommentRow \in rows THEN comments \cup {me.issue} ELSE comments
              /\ notes' = notes \cup {[rule |-> r, issue |-> me.issue, read |-> FALSE] :
                                        r \in {q \in Rules : NoteRow(q) \in rows}}
              /\ UNCHANGED <<labels, rules, told>>
  /\ End(s)
  /\ UNCHANGED <<served, used>>

BeginDropIssue(s, i) ==
  /\ i \in issues
  /\ Begin(s, "delete_issue", [pc |-> "drop_issue", issue |-> i])
  /\ UNCHANGED <<attachments, issues, used>>

\* Labels and comments of the issue go with it; a notification about it
\* refuses the deletion.
CommitDropIssue(s) ==
  /\ At(s, "drop_issue")
  /\ LET i == req[s].issue
     IN  /\ Writers(i) \cup Referrers(i) = {}
         /\ IF \E n \in notes : n.issue = i THEN UNCHANGED <<issues, tags, comments>>
            ELSE /\ issues' = issues \ {i}
                 /\ tags' = {t \in tags : t[1] # i}
                 /\ comments' = comments \ {i}
  /\ End(s)
  /\ UNCHANGED <<labels, notes, rules, told, served, used>>

BeginComment(s, i) ==
  /\ i \in issues
  /\ Begin(s, "create_comment", [pc |-> "comment", issue |-> i])
  /\ UNCHANGED <<attachments, issues, used>>

CommitComment(s) ==
  /\ At(s, "comment")
  /\ comments' = comments \cup ({req[s].issue} \cap issues)
  /\ End(s)
  /\ UNCHANGED <<labels, tags, notes, rules, told, issues, served, used>>

\* One notification, or all, is marked as read.
MarkRead(s, marked) ==
  /\ marked # {}
  /\ Begin(s, "mark_read", Idle)
  /\ notes' = (notes \ marked) \cup {[n EXCEPT !.read = TRUE] : n \in marked}
  /\ UNCHANGED <<labels, tags, comments, rules, told, issues, used>>

----------------------------------------------------------------------------
(* Labels.                                                                 *)

NameHeld(n, s) == \E o \in Slots \ {s} : At(o, "commit_label") /\ req[o].name = n
NameTaken(n, l) == \E k \in Labels \ {l} : labels[k] = n

BeginCreateLabel(s, l, n) ==
  /\ ~NameHeld(n, s)
  /\ ~NameTaken(n, l)
  /\ Begin(s, "create_label", [pc |-> "commit_label", label |-> l, name |-> n])
  /\ used' = used \cup {l}
  /\ UNCHANGED <<attachments, issues>>

CommitLabel(s) ==
  /\ At(s, "commit_label")
  /\ labels' = [labels EXCEPT ![req[s].label] = req[s].name]
  /\ End(s)
  /\ UNCHANGED <<tags, comments, notes, rules, told, issues, served, used>>

BeginRename(s, l, n) ==
  /\ labels[l] # None
  /\ Begin(s, "update_label", [pc |-> "rename", label |-> l, name |-> n, read |-> labels[l]])
  /\ UNCHANGED <<attachments, issues, used>>

\* The UPDATE of a name waits for rows that refer to the label and for the
\* name; it fails on a name that is taken and on a label that is gone.
CommitRename(s) ==
  /\ At(s, "rename")
  /\ LET me == req[s]
     IN  IF me.name = me.read THEN UNCHANGED labels
         ELSE /\ ~IsHeld(TagRow(me.label)) /\ ~NameHeld(me.name, s)
              /\ IF labels[me.label] = None \/ NameTaken(me.name, me.label) THEN UNCHANGED labels
                 ELSE labels' = [labels EXCEPT ![me.label] = me.name]
  /\ End(s)
  /\ UNCHANGED <<tags, comments, notes, rules, told, issues, served, used>>

BeginDropLabel(s, l) ==
  /\ labels[l] # None
  /\ Begin(s, "delete_label", [pc |-> "drop_label", label |-> l])
  /\ UNCHANGED <<attachments, issues, used>>

CommitDropLabel(s) ==
  /\ At(s, "drop_label")
  /\ ~IsHeld(TagRow(req[s].label))
  /\ labels' = [labels EXCEPT ![req[s].label] = None]
  /\ tags' = {t \in tags : t[2] # req[s].label}
  /\ End(s)
  /\ UNCHANGED <<comments, notes, rules, told, issues, served, used>>

----------------------------------------------------------------------------
(* Rules.                                                                  *)

CreateRule(s, r, row) ==
  /\ Begin(s, "create_rule", Idle)
  /\ used' = used \cup {r}
  /\ rules' = [rules EXCEPT ![r] = row]
  /\ told' = [told EXCEPT ![r] = row]
  /\ UNCHANGED <<labels, tags, comments, notes, issues>>

\* The endpoint keeps the row it reads first, and the service works on it.
BeginUpdateRule(s, r, patch) ==
  /\ rules[r] # None
  /\ Begin(s, "update_rule", [pc |-> "write_rule", rule |-> r, patch |-> patch, read |-> rules[r]])
  /\ UNCHANGED <<attachments, issues, used>>

\* A body's columns that differ from the row, and the row after a body.
Differing(read, patch) == {c \in DOMAIN patch : patch[c] # read[c]}
Rewritten(row, patch, cols) == [c \in DOMAIN row |-> IF c \in cols THEN patch[c] ELSE row[c]]

\* What the UPDATE sends.
Sent(me) == Differing(me.read, me.patch)

CommitRule(s) ==
  /\ At(s, "write_rule")
  /\ LET me == req[s]
     IN  IF rules[me.rule] # None
         THEN /\ rules' = [rules EXCEPT ![me.rule] = Rewritten(@, me.patch, Sent(me))]
              /\ told' = [told EXCEPT ![me.rule] =
                            Rewritten(@, me.patch, Differing(me.read, me.patch))]
         ELSE UNCHANGED <<rules, told>>
  /\ End(s)
  /\ UNCHANGED <<labels, tags, comments, notes, issues, served, used>>

BeginDropRule(s, r) ==
  /\ rules[r] # None
  /\ Begin(s, "delete_rule", [pc |-> "drop_rule", rule |-> r])
  /\ UNCHANGED <<attachments, issues, used>>

\* A rule that has notified anybody is not deleted.
CommitDropRule(s) ==
  /\ At(s, "drop_rule")
  /\ LET r == req[s].rule
     IN  /\ ~IsHeld(NoteRow(r))
         /\ IF \E n \in notes : n.rule = r THEN UNCHANGED <<rules, told>>
            ELSE rules' = [rules EXCEPT ![r] = None] /\ told' = [told EXCEPT ![r] = None]
  /\ End(s)
  /\ UNCHANGED <<labels, tags, comments, notes, issues, served, used>>

----------------------------------------------------------------------------
AskAttachments(s) ==
  \/ \E i \in NewId(Issues), ls \in SUBSET Labels : BeginFile(s, i, ls)
  \/ \E i \in Issues, changing \in Changing : BeginTouch(s, i, changing)
  \/ \E i \in Issues : BeginDropIssue(s, i)
  \/ \E i \in Issues : BeginComment(s, i)
  \/ \E n \in notes : MarkRead(s, {n})
  \/ MarkRead(s, notes)
  \/ \E l \in NewId(Labels), n \in Names : BeginCreateLabel(s, l, n)
  \/ \E l \in Labels, n \in Names : BeginRename(s, l, n)
  \/ \E l \in Labels : BeginDropLabel(s, l)
  \/ \E r \in NewId(Rules), row \in RuleRows : CreateRule(s, r, row)
  \/ \E r \in Rules, patch \in RulePatches : BeginUpdateRule(s, r, patch)
  \/ \E r \in Rules : BeginDropRule(s, r)

ServeAttachments(s) ==
  \/ InsertIssue(s)
  \/ LoadRules(s)
  \/ WriteIssue(s)
  \/ \E r \in Rules, row \in NewRows : AddRow(s, r, row)
  \/ \E r \in Rules : FindLabel(s, r)
  \/ FindTag(s)
  \/ CommitIssue(s)
  \/ CommitDropIssue(s)
  \/ CommitComment(s)
  \/ CommitLabel(s)
  \/ CommitRename(s)
  \/ CommitDropLabel(s)
  \/ CommitRule(s)
  \/ CommitDropRule(s)

----------------------------------------------------------------------------
(* Types.                                                                  *)

IssueRequests ==
  {me \in [pc : {"insert_issue", "load", "write_issue", "effects", "find_tag"}, issue : Issues,
           new : BOOLEAN, locks : BOOLEAN, pending : SUBSET NewRows, held : SUBSET NewRows,
           left : SUBSET Rules, effect : [Rules -> Effects \cup {None}],
           label : Labels \cup {None}] :
     me.pc = "find_tag" => me.label \in Labels}
OtherIssueRequests == [pc : {"drop_issue", "comment"}, issue : Issues]
LabelRequests ==
  [pc : {"commit_label"}, label : Labels, name : Names]
    \cup [pc : {"rename"}, label : Labels, name : Names, read : Names]
    \cup [pc : {"drop_label"}, label : Labels]
RuleRequests ==
  [pc : {"write_rule"}, rule : Rules, patch : RulePatches, read : RuleRows]
    \cup [pc : {"drop_rule"}, rule : Rules]

AttachmentRequests ==
  IssueRequests \cup OtherIssueRequests \cup LabelRequests \cup RuleRequests

AttachmentsTypeOK ==
  /\ labels \in [Labels -> Names \cup {None}]
  /\ tags \subseteq Issues \X Labels
  /\ comments \subseteq Issues
  /\ notes \subseteq [rule : Rules, issue : Issues, read : BOOLEAN]
  /\ rules \in [Rules -> RuleRows \cup {None}]
  /\ told \in [Rules -> RuleRows \cup {None}]
=============================================================================
