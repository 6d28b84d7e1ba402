---------------------------- MODULE MCWorkspace ------------------------------
(* Instances of Workspace for TLC.                                         *)
EXTENDS Workspace

CONSTANTS f1, f2, f3, w1, w2, l1, l2, l3, l4, l5, i1, i2, b1, b2, r1, r2, r3,
          red, blue, text, one, two

\* The first fragment is linked to the second, and to an issue.
TwoFragments == [f \in Fragments |-> IF f \in {f1, f2} THEN [c \in Columns |-> one] ELSE None]
TwoLinks ==
  [l \in Links |-> CASE l = l1 -> [source |-> f1, target |-> f2]
                     [] l = l2 -> [source |-> f1, target |-> i1]
                     [] OTHER -> None]
OneWork ==
  [w \in Works |-> IF w = w1 THEN [state |-> "active", payload |-> one, completed |-> None] ELSE None]

SetText(v) == [c \in {text} |-> v]
Texts == {SetText(one), SetText(two)}
Moves ==
  {[state |-> "completed"], [state |-> "abandoned"], [state |-> "active"],
   [state |-> "completed", payload |-> two]}

\* One label, and a rule that attaches it beside one that notifies.
OneLabel == [l \in Labels |-> IF l = b1 THEN red ELSE None]
TwoRules ==
  [r \in Rules |-> CASE r = r1 -> [enabled |-> TRUE, effect |-> LabelEffect(red)]
                     [] r = r2 -> [enabled |-> TRUE, effect |-> NotifyEffect]
                     [] OTHER -> None]
Actions == {LabelEffect(red), NotifyEffect, CommentEffect}
Edits == {[enabled |-> FALSE], [enabled |-> TRUE], [effect |-> CommentEffect]}

\* Clients at work on links, on records of their own, and around issues.
Work ==
  {{"create_link", "get_links", "delete_link", "delete_fragment", "delete_issue"},
   {"create_fragment", "update_fragment", "delete_fragment", "create_session", "update_session"},
   {"update_issue", "delete_issue", "delete_label", "update_label", "delete_rule", "update_rule"},
   {"create_issue", "update_issue", "create_comment", "mark_read", "create_label", "create_rule",
    "delete_label", "delete_issue"}}
=============================================================================
