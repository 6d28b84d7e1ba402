---------------------------- MODULE IssuesProofs -----------------------------
(***************************************************************************)
(* Theorems of Issues, for any issues, projects, rules, patches and any    *)
(* number of concurrent requests.                                          *)
(***************************************************************************)
EXTENDS Issues, SequenceTheorems, TLAPS

RefersWell(row) == ParentFound(row) /\ ProjectFound(row)

\* The committed tables: what is stored refers only to what is stored, no
\* issue is its own parent, and every id has been minted.
TableInv ==
  /\ \A i \in Issues : Exists(i) =>
       /\ i \in minted
       /\ trail[i] # NoRow
       /\ db[i].parent # i
       /\ RefersWell(db[i])
  /\ \A i \in notified : Exists(i)

\* What a request holds, without a look at the tables: the rows it is going
\* to use are in its cache, and a parent it has validated is not the issue
\* itself.
Local(me) ==
  /\ \A i \in me.todo : me.cache[i] # NoRow
  /\ me.pc \in {"rules", "write"} =>
       /\ me.item \in Issues /\ me.cache[me.item] # NoRow
       /\ "parent" \in DOMAIN me.patch => me.patch["parent"] # me.item
  /\ me.pc = "rules" => me.triggers # << >>
  /\ me.pc \in {"siblings", "parent", "flag"} =>
       me.item \in Issues /\ me.cache[me.item] # NoRow /\ me.cache[me.item].parent # None
  /\ me.pc \in {"item", "insert", "created"} => me.items # << >> /\ me.item \notin me.notes
  /\ me.pc = "created" => me.item \in Issues /\ me.pend[me.item] # NoRow
  /\ me.pc \in {"count", "delete", "convert"} => me.item \in Issues
  /\ \A j \in me.notes : me.pend[j] # NoRow

\* The rows a request has inserted and not committed: their locks keep what
\* they refer to from being deleted.
PendInv(me) ==
  \A j \in Issues : me.pend[j] # NoRow =>
    j \in minted /\ me.pend[j].parent # j /\ RefersWell(me.pend[j])

IInv ==
  /\ TypeOK
  /\ TableInv
  /\ \A s \in Sessions : Local(sess[s]) /\ PendInv(sess[s])

-----------------------------------------------------------------------------
(* Rows and requests.                                                      *)

\* A function over the columns whose values have their types is a row.
LEMMA RowOfColumns ==
  ASSUME NEW f, f = [c \in Columns |-> f[c]],
         f["state"] \in States, f["parent"] \in Issues \cup {None},
         f["assignee"] \in Users \cup {None}, f["project"] \in Projects \cup {None},
         f["triage"] \in SUBSET TriageKeys
  PROVE  f \in Row
<1>1. f = [state |-> f["state"], parent |-> f["parent"], assignee |-> f["assignee"],
           project |-> f["project"], triage |-> f["triage"]]
  BY DEF Columns
<1> QED
  BY <1>1 DEF Row

\* A row is a function over the columns.
LEMMA ColumnsOfRow ==
  ASSUME NEW row \in Row
  PROVE  /\ DOMAIN row = Columns
         /\ row["state"] \in States /\ row["parent"] \in Issues \cup {None}
         /\ row["assignee"] \in Users \cup {None} /\ row["project"] \in Projects \cup {None}
         /\ row["triage"] \in SUBSET TriageKeys
BY DEF Row, Columns

\* Every patch a request carries is one a client sends, or empty.
LEMMA PatchType ==
  ASSUME NEW p \in Patches \cup {NoPatch}
  PROVE  IsPatch(p)
BY PatchesAssumption DEF NoPatch, IsPatch

\* A patched row is a row, whose parent is the patch's or as before.
LEMMA PatchedRow ==
  ASSUME NEW row \in Row, NEW p, IsPatch(p)
  PROVE  /\ Patched(row, p) \in Row
         /\ Patched(row, p).parent = IF "parent" \in DOMAIN p THEN p["parent"] ELSE row.parent
<1> DEFINE f == Patched(row, p)
<1>1. f = [c \in Columns |-> f[c]]
  BY DEF Patched
<1>2. \A c \in Columns : f[c] = IF c \in DOMAIN p THEN p[c] ELSE row[c]
  BY DEF Patched
<1>3. /\ f["state"] \in States /\ f["parent"] \in Issues \cup {None}
      /\ f["assignee"] \in Users \cup {None} /\ f["project"] \in Projects \cup {None}
      /\ f["triage"] \in SUBSET TriageKeys
  BY <1>2, ColumnsOfRow DEF Columns, IsPatch
<1>4. f \in Row
  BY <1>1, <1>3, RowOfColumns
<1> QED
  BY <1>2, <1>4 DEF Columns

\* Effects of rules leave a row, and never touch the parent.
LEMMA EffectsRow ==
  ASSUME NEW row \in Row, NEW fired \in SUBSET Rules
  PROVE  /\ ApplyEffects(row, fired) \in Row
         /\ ApplyEffects(row, fired).parent = row.parent
<1> DEFINE f == ApplyEffects(row, fired)
<1>1. f = [c \in Columns |-> f[c]]
  BY ColumnsOfRow DEF ApplyEffects
<1>2. ASSUME NEW c \in Columns
      PROVE  \/ f[c] = row[c]
             \/ \E r \in Rules : c \in DOMAIN r.sets /\ f[c] = r.sets[c]
  <2>1. CASE \E r \in fired : LastSetter(r, fired, c)
    <3> DEFINE w == CHOOSE r \in fired : LastSetter(r, fired, c)
    <3>1. w \in fired /\ LastSetter(w, fired, c)
      BY <2>1
    <3>2. f[c] = w.sets[c]
      BY <2>1, ColumnsOfRow DEF ApplyEffects
    <3> QED
      BY <3>1, <3>2 DEF LastSetter
  <2>2. CASE ~ \E r \in fired : LastSetter(r, fired, c)
    BY <2>2, ColumnsOfRow DEF ApplyEffects
  <2> QED
    BY <2>1, <2>2
<1>3. \A r \in Rules : IsPatch(r.sets) /\ "parent" \notin DOMAIN r.sets
  BY RulesAssumption DEF SetFieldAllowed
<1> HIDE DEF f
<1>4. f["parent"] = row["parent"]
  BY <1>2, <1>3 DEF Columns
<1>5. /\ f["state"] \in States /\ f["assignee"] \in Users \cup {None}
      /\ f["project"] \in Projects \cup {None} /\ f["triage"] \in SUBSET TriageKeys
  BY <1>2, <1>3, ColumnsOfRow DEF Columns, IsPatch
<1>6. f \in Row
  BY <1>1, <1>4, <1>5, ColumnsOfRow, RowOfColumns
<1> QED
  BY <1>4, <1>6 DEF f

\* What an UPDATE leaves is a row: of the two, its columns are those it
\* writes and those stored.
LEMMA OverwrittenRow ==
  ASSUME NEW row \in Row, NEW me, Final(me) \in Row
  PROVE  /\ Overwrite(row, me) \in Row
         /\ \A c \in Columns :
              Overwrite(row, me)[c] = IF c \in Written(me) THEN Final(me)[c] ELSE row[c]
<1> DEFINE f == Overwrite(row, me)
<1>1. f = [c \in Columns |-> f[c]]
  BY DEF Overwrite
<1>2. \A c \in Columns : f[c] = IF c \in Written(me) THEN Final(me)[c] ELSE row[c]
  BY DEF Overwrite
<1>3. /\ f["state"] \in States /\ f["parent"] \in Issues \cup {None}
      /\ f["assignee"] \in Users \cup {None} /\ f["project"] \in Projects \cup {None}
      /\ f["triage"] \in SUBSET TriageKeys
  BY <1>2, ColumnsOfRow DEF Columns
<1> QED
  BY <1>1, <1>2, <1>3, RowOfColumns

\* An audit entry replayed over a row leaves a row.
LEMMA LoggedRow ==
  ASSUME NEW entry \in Row, NEW me, Mutated(me) \in Row
  PROVE  Logged(entry, me) \in Row
<1> DEFINE f == Logged(entry, me)
<1>1. f = [c \in Columns |-> f[c]]
  BY DEF Logged
<1>2. \A c \in Columns : f[c] = Mutated(me)[c] \/ f[c] = entry[c]
  BY DEF Logged
<1>3. /\ f["state"] \in States /\ f["parent"] \in Issues \cup {None}
      /\ f["assignee"] \in Users \cup {None} /\ f["project"] \in Projects \cup {None}
      /\ f["triage"] \in SUBSET TriageKeys
  BY <1>2, ColumnsOfRow DEF Columns
<1> QED
  BY <1>1, <1>3, RowOfColumns

\* A session that holds nothing is in order.
LEMMA IdleOK == Idle \in SessionState /\ Local(Idle) /\ PendInv(Idle)
<1>1. NoCache \in [Issues -> Row \cup {NoRow}]
  BY DEF NoCache
<1>2. Idle \in SessionState
  BY <1>1 DEF Idle, SessionState, Labels
<1> QED
  BY <1>2 DEF Idle, Local, PendInv, NoCache

\* A request is one of a bounded number.
LEMMA ServedBound ==
  ASSUME TypeOK, NEW s, NEW op, Begin(s, op)
  PROVE  served' \in 0..MaxRequests
BY MaxRequestsAssumption DEF TypeOK, Begin

\* A step that leaves the tables alone preserves the invariant when the
\* request that takes it stays in order.
LEMMA SessionStep ==
  ASSUME IInv, NEW s \in Sessions, NEW new \in SessionState, Local(new), PendInv(new),
         sess' = [sess EXCEPT ![s] = new], UNCHANGED tables, served' \in 0..MaxRequests
  PROVE  IInv'
<1>1. TypeOK'
  BY DEF IInv, TypeOK, tables
<1>2. TableInv'
  BY DEF IInv, TableInv, tables, Exists, RefersWell, ParentFound, ProjectFound
<1>3. \A o \in Sessions : sess'[o] = IF o = s THEN new ELSE sess[o]
  BY DEF IInv, TypeOK
<1>4. ASSUME NEW o \in Sessions PROVE Local(sess'[o]) /\ PendInv(sess'[o])
  BY <1>3 DEF IInv
<1>5. ASSUME NEW o \in Sessions PROVE Local(sess[o])' /\ PendInv(sess[o])'
  <2>1. Local(sess[o])'
    BY <1>4 DEF Local
  <2>2. PendInv(sess[o])'
    BY <1>4 DEF PendInv, tables, Exists, RefersWell, ParentFound, ProjectFound
  <2> QED
    BY <2>1, <2>2
<1> QED
  BY <1>1, <1>2, <1>5 DEF IInv

\* A request that ends leaves the others as they were.
LEMMA EndStep ==
  ASSUME IInv, NEW s \in Sessions, End(s), UNCHANGED tables, served' \in 0..MaxRequests
  PROVE  IInv'
BY IdleOK, SessionStep DEF End

-----------------------------------------------------------------------------
(* The steps of a PATCH that only read.                                    *)

\* What the invariant says of one request.
LEMMA OfSession ==
  ASSUME IInv, NEW s \in Sessions
  PROVE  sess[s] \in SessionState /\ Local(sess[s]) /\ PendInv(sess[s])
BY DEF IInv, TypeOK

\* A request for one issue caches its row.
LEMMA BeginUpdateStep ==
  ASSUME IInv, NEW s \in Sessions, NEW i \in Issues, NEW p \in Patches, BeginUpdate(s, i, p)
  PROVE  IInv'
<1> DEFINE new == [Idle EXCEPT !.pc = "check", !.todo = {i}, !.patch = p,
                               !.cache = [NoCache EXCEPT ![i] = db[i]]]
<1>1. sess' = [sess EXCEPT ![s] = new] /\ UNCHANGED tables /\ served' \in 0..MaxRequests
  BY ServedBound DEF IInv, BeginUpdate
<1>2. db[i] \in Row
  BY DEF IInv, TypeOK, BeginUpdate, Exists
<1>3. /\ new.cache = [NoCache EXCEPT ![i] = db[i]] /\ new.todo = {i} /\ new.pc = "check"
      /\ new.notes = {} /\ new.pend = NoCache
  BY DEF Idle
<1>4. new.cache \in [Issues -> Row \cup {NoRow}]
  BY <1>2, <1>3 DEF NoCache
<1>5. new \in SessionState
  BY <1>4, IdleOK DEF SessionState, Labels, Idle
<1>6. Local(new)
  BY <1>2, <1>3, NullAssumption DEF Local, NoCache
<1>7. PendInv(new)
  BY <1>3 DEF PendInv, NoCache
<1> HIDE DEF new
<1> QED
  BY <1>1, <1>5, <1>6, <1>7, SessionStep

\* A batch caches the rows it lists.
LEMMA BeginBatchStep ==
  ASSUME IInv, NEW s \in Sessions, NEW f \in Filters, NEW p \in Patches, BeginBatch(s, f, p)
  PROVE  IInv'
<1> DEFINE cache == [i \in Issues |-> IF i \in Matching(f) THEN db[i] ELSE NoRow]
           new == [Idle EXCEPT !.pc = "check", !.todo = Matching(f), !.patch = p,
                               !.cache = cache]
<1>1. sess' = [sess EXCEPT ![s] = new] /\ UNCHANGED tables /\ served' \in 0..MaxRequests
  BY ServedBound DEF IInv, BeginBatch
<1>2. Matching(f) \subseteq Issues /\ \A i \in Matching(f) : db[i] # NoRow
  BY DEF Matching, Exists
<1>3. /\ new.cache = cache /\ new.todo = Matching(f) /\ new.pc = "check"
      /\ new.notes = {} /\ new.pend = NoCache
  BY DEF Idle
<1>4. cache \in [Issues -> Row \cup {NoRow}]
  BY DEF IInv, TypeOK
<1>5. new \in SessionState
  BY <1>2, <1>4, IdleOK DEF SessionState, Labels, Idle
<1>6. Local(new)
  BY <1>2, <1>3 DEF Local
<1>7. PendInv(new)
  BY <1>3 DEF PendInv, NoCache
<1> HIDE DEF new
<1> QED
  BY <1>1, <1>5, <1>6, <1>7, SessionStep

\* A patch names a state of the team or moves the issue nowhere, and fires
\* at least one trigger.
LEMMA PatchTriggers ==
  ASSUME NEW row \in Row, NEW p, IsPatch(p)
  PROVE  /\ TargetState(row, p) \in States \cup {None}
         /\ TriggersOf(row, p) \in Seq(Triggers)
         /\ TriggersOf(row, p) # << >>
<1>1. TargetState(row, p) \in States \cup {None}
  BY DEF TargetState, IsPatch
<1> DEFINE a == IF TargetState(row, p) # None THEN << "issue.state_changed" >> ELSE << >>
           b == IF "assignee" \in DOMAIN p /\ p["assignee"] # row.assignee
                THEN << "issue.assigned" >> ELSE << >>
           c == << "issue.updated" >>
<1>2. a \in Seq(Triggers) /\ b \in Seq(Triggers)
  <2>1. /\ << "issue.state_changed" >> \in Seq(Triggers)
        /\ << "issue.assigned" >> \in Seq(Triggers)
    BY DEF Triggers
  <2>2. << >> \in Seq(Triggers)
    BY EmptySeq
  <2> QED
    BY <2>1, <2>2
<1>3. c \in Seq(Triggers) /\ Len(c) = 1
  BY DEF Triggers
<1> DEFINE ab == a \o b
<1>4. TriggersOf(row, p) = ab \o c
  BY DEF TriggersOf
<1> HIDE DEF a, b, c
<1>5. ab \in Seq(Triggers)
  BY <1>2, ConcatProperties
<1> HIDE DEF ab
<1>6. ab \o c \in Seq(Triggers) /\ Len(ab \o c) = Len(ab) + 1 /\ Len(ab) \in Nat
  BY <1>3, <1>5, ConcatProperties, LenProperties
<1>7. Len(ab \o c) # 0
  BY <1>6
<1>8. ab \o c # << >>
  BY <1>7
<1> QED
  BY <1>1, <1>4, <1>6, <1>8

\* An accepted patch names no parent that is the issue itself.
LEMMA AcceptPatchStep ==
  ASSUME IInv, NEW s \in Sessions, NEW i \in Issues, AcceptPatch(s, i)
  PROVE  IInv'
<1> DEFINE me == sess[s]
           row == me.cache[i]
           new == [me EXCEPT !.pc = "rules", !.item = i, !.todo = @ \ {i},
                     !.to = TargetState(row, me.patch),
                     !.triggers = TriggersOf(row, me.patch), !.fired = {}]
<1>1. /\ sess' = [sess EXCEPT ![s] = new] /\ UNCHANGED tables /\ served' = served
      /\ i \in me.todo /\ Acceptable(i, row, me.patch)
  BY DEF AcceptPatch
<1>2. me \in SessionState /\ Local(me) /\ PendInv(me)
  BY OfSession
<1>3. row \in Row /\ IsPatch(me.patch)
  BY <1>1, <1>2, PatchType DEF Local, SessionState
<1>4. /\ TargetState(row, me.patch) \in States \cup {None}
      /\ TriggersOf(row, me.patch) \in Seq(Triggers)
      /\ TriggersOf(row, me.patch) # << >>
  BY <1>3, PatchTriggers
<1>5. "parent" \in DOMAIN me.patch => me.patch["parent"] # i
  BY <1>1, NullAssumption DEF Acceptable, ParentAllowed
<1> HIDE DEF me
<1>6. new \in SessionState
  BY <1>2, <1>4 DEF SessionState, Labels
<1>7. Local(new)
  BY <1>1, <1>2, <1>3, <1>4, <1>5, NullAssumption DEF Local, SessionState
<1>8. PendInv(new)
  BY <1>2 DEF PendInv, SessionState
<1>9. served' \in 0..MaxRequests
  BY <1>1 DEF IInv, TypeOK
<1> HIDE DEF new
<1> QED
  BY <1>1, <1>6, <1>7, <1>8, <1>9, SessionStep DEF me

\* The tail of a sequence of several is not empty.
LEMMA TailOf ==
  ASSUME NEW S, NEW q \in Seq(S), q # << >>
  PROVE  Tail(q) \in Seq(S) /\ (Len(q) # 1 => Tail(q) # << >>)
<1>1. Tail(q) \in Seq(S) /\ Len(Tail(q)) = Len(q) - 1 /\ Len(q) \in Nat
  BY HeadTailProperties, LenProperties
<1>2. Len(q) # 1 => Len(Tail(q)) # 0
  BY <1>1
<1>3. ASSUME Len(q) # 1 PROVE Tail(q) # << >>
  BY <1>2, <1>3
<1> QED
  BY <1>1, <1>3

\* The rules of the next trigger are evaluated.
LEMMA EvaluateRulesStep ==
  ASSUME IInv, NEW s \in Sessions, EvaluateRules(s)
  PROVE  IInv'
<1> DEFINE me == sess[s]
           fired == Fired(Rules, Head(me.triggers),
                          UpdateContext(me.cache[me.item], me.to), CommittedRows)
           new == [me EXCEPT !.triggers = Tail(@), !.fired = @ \cup fired,
                     !.pc = IF Len(me.triggers) = 1 THEN "write" ELSE "rules"]
<1>1. /\ sess' = [sess EXCEPT ![s] = new] \/ End(s)
      /\ UNCHANGED tables /\ served' = served /\ me.pc = "rules"
  BY DEF EvaluateRules, At
<1>2. me \in SessionState /\ Local(me) /\ PendInv(me)
  BY OfSession
<1>3. fired \subseteq Rules
  BY DEF Fired, Loaded
<1>4. served' \in 0..MaxRequests
  BY <1>1 DEF IInv, TypeOK
<1> HIDE DEF me, fired
<1>5. me.triggers \in Seq(Triggers) /\ me.triggers # << >>
  BY <1>1, <1>2 DEF Local, SessionState
<1>6. Tail(me.triggers) \in Seq(Triggers) /\ (Len(me.triggers) # 1 => Tail(me.triggers) # << >>)
  BY <1>5, TailOf
<1>7. new \in SessionState
  BY <1>2, <1>3, <1>6 DEF SessionState, Labels
<1>8. Local(new)
  BY <1>1, <1>2, <1>6 DEF Local, SessionState
<1>9. PendInv(new)
  BY <1>2 DEF PendInv, SessionState
<1> HIDE DEF new
<1>10. CASE sess' = [sess EXCEPT ![s] = new]
  BY <1>1, <1>4, <1>7, <1>8, <1>9, <1>10, SessionStep
<1>11. CASE End(s)
  BY <1>1, <1>4, <1>11, EndStep
<1> QED
  BY <1>1, <1>10, <1>11

-----------------------------------------------------------------------------
(* The steps of the rollup that only read, and the refresh.                *)

\* The siblings are read.
LEMMA ReadSiblingsStep ==
  ASSUME IInv, NEW s \in Sessions, ReadSiblings(s)
  PROVE  IInv'
<1> DEFINE me == sess[s]
<1>1. PICK pc \in {"parent", "refresh"} : sess' = [sess EXCEPT ![s].pc = pc]
  BY DEF ReadSiblings
<1>2. me.pc = "siblings" /\ UNCHANGED tables /\ served' \in 0..MaxRequests
  BY DEF ReadSiblings, At, IInv, TypeOK
<1>3. me \in SessionState /\ Local(me) /\ PendInv(me)
  BY OfSession
<1> DEFINE new == [me EXCEPT !.pc = pc]
<1>4. sess' = [sess EXCEPT ![s] = new]
  BY <1>1 DEF IInv, TypeOK
<1> HIDE DEF me
<1>5. new \in SessionState
  BY <1>3 DEF SessionState, Labels
<1>6. Local(new)
  BY <1>2, <1>3 DEF Local, SessionState
<1>7. PendInv(new)
  BY <1>3 DEF PendInv, SessionState
<1> HIDE DEF new
<1> QED
  BY <1>2, <1>4, <1>5, <1>6, <1>7, SessionStep

\* The parent is read.
LEMMA ReadParentStep ==
  ASSUME IInv, NEW s \in Sessions, ReadParent(s)
  PROVE  IInv'
<1> DEFINE me == sess[s]
           p == ParentOf(me)
<1>1. me.pc = "parent" /\ UNCHANGED tables /\ served' \in 0..MaxRequests
  BY DEF ReadParent, At, IInv, TypeOK
<1>2. me \in SessionState /\ Local(me) /\ PendInv(me)
  BY OfSession
<1>3. p \in Issues
  <2>1. me.cache[me.item] \in Row /\ me.cache[me.item].parent # None
    BY <1>1, <1>2 DEF Local, SessionState
  <2> QED
    BY <2>1 DEF ParentOf, Row
<1>4. CASE ~Exists(p)
  <2> DEFINE new == [me EXCEPT !.pc = "refresh"]
  <2>1. sess' = [sess EXCEPT ![s] = new]
    BY <1>4 DEF ReadParent
  <2> HIDE DEF me
  <2>2. new \in SessionState /\ Local(new) /\ PendInv(new)
    BY <1>1, <1>2 DEF SessionState, Labels, Local, PendInv
  <2> HIDE DEF new
  <2> QED
    BY <1>1, <2>1, <2>2, SessionStep
<1>5. CASE Exists(p)
  <2> DEFINE seen == IF me.cache[p] # NoRow THEN me.cache[p].triage ELSE db[p].triage
             new == [me EXCEPT !.pc = "flag", !.seen = seen]
  <2>1. sess' = [sess EXCEPT ![s] = new]
    BY <1>5 DEF ReadParent
  <2>2. seen \subseteq TriageKeys
    <3>1. db[p] \in Row
      BY <1>3, <1>5 DEF IInv, TypeOK, Exists
    <3>2. me.cache[p] # NoRow => me.cache[p] \in Row
      BY <1>2, <1>3 DEF SessionState
    <3> QED
      BY <3>1, <3>2 DEF Row
  <2> HIDE DEF me, seen
  <2>3. new \in SessionState /\ Local(new) /\ PendInv(new)
    BY <1>1, <1>2, <2>2 DEF SessionState, Labels, Local, PendInv
  <2> HIDE DEF new
  <2> QED
    BY <1>1, <2>1, <2>3, SessionStep
<1> QED
  BY <1>4, <1>5

\* The issue is read again, and the next of a batch is taken up.
LEMMA RefreshStep ==
  ASSUME IInv, NEW s \in Sessions, Refresh(s)
  PROVE  IInv'
<1> DEFINE me == sess[s]
           row == db[me.item]
           new == [me EXCEPT !.pc = "check", !.item = None, !.to = None, !.fired = {},
                             !.seen = {}, !.cache[me.item] = row]
<1>1. me.pc = "refresh" /\ UNCHANGED tables /\ served' \in 0..MaxRequests
  BY DEF Refresh, At, IInv, TypeOK
<1>2. me \in SessionState /\ Local(me) /\ PendInv(me)
  BY OfSession
<1>3. CASE End(s)
  BY <1>1, <1>3, EndStep
<1>4. CASE ~End(s)
  <2>1. sess' = [sess EXCEPT ![s] = new] /\ row # NoRow
    BY <1>4 DEF Refresh, Exists
  <2>2. me.item \in Issues => row \in Row
    BY <2>1 DEF IInv, TypeOK
  <2> HIDE DEF me, row
  <2>3. /\ new.cache \in [Issues -> Row \cup {NoRow}]
        /\ \A j \in Issues : new.cache[j] = IF j = me.item THEN row ELSE me.cache[j]
    BY <1>2, <2>2 DEF SessionState
  <2>4. new \in SessionState
    BY <1>2, <2>3 DEF SessionState, Labels
  <2>5. Local(new)
    BY <1>1, <1>2, <2>1, <2>3 DEF SessionState, Local
  <2>6. PendInv(new)
    BY <1>2 DEF SessionState, PendInv
  <2> HIDE DEF new
  <2> QED
    BY <1>1, <2>1, <2>4, <2>5, <2>6, SessionStep DEF me
<1> QED
  BY <1>3, <1>4

-----------------------------------------------------------------------------
(* The steps of a POST before its commit.                                  *)

\* The items of the body.
LEMMA BeginCreateStep ==
  ASSUME IInv, NEW s \in Sessions, NEW items \in NewItems, BeginCreate(s, items)
  PROVE  IInv'
<1> DEFINE many == Len(items) > 1
           new == [Idle EXCEPT !.pc = "item", !.items = items, !.batch = many]
<1>1. sess' = [sess EXCEPT ![s] = new] /\ UNCHANGED tables /\ served' \in 0..MaxRequests
  BY ServedBound DEF IInv, BeginCreate
<1>2. items \in Seq(Row) /\ items # << >>
  BY NewItemsAssumption
<1>3. many \in BOOLEAN
  OBVIOUS
<1> HIDE DEF many
<1>4. new \in SessionState
  BY <1>2, <1>3, IdleOK DEF SessionState, Labels
<1>5. Local(new)
  BY <1>2 DEF Local, Idle
<1>6. PendInv(new)
  BY DEF PendInv, Idle, NoCache
<1> HIDE DEF new
<1> QED
  BY <1>1, <1>4, <1>5, <1>6, SessionStep

\* An item that is dropped takes its row with it and leaves the others.
LEMMA DropItemStep ==
  ASSUME IInv, NEW s \in Sessions, sess[s].pc \in {"item", "created"}, DropItem(s),
         UNCHANGED tables, served' = served
  PROVE  IInv'
<1> DEFINE me == sess[s]
           pc == NextItem(me)
           new == [me EXCEPT !.pc = pc, !.items = Tail(@), !.item = None,
                     !.pend = [i \in Issues |-> IF i = me.item THEN NoRow ELSE @[i]]]
<1>1. me \in SessionState /\ Local(me) /\ PendInv(me) /\ served' \in 0..MaxRequests
  BY OfSession DEF IInv, TypeOK
<1>2. CASE End(s)
  BY <1>1, <1>2, EndStep
<1>3. CASE ~End(s)
  <2>1. sess' = [sess EXCEPT ![s] = new]
    BY <1>3 DEF DropItem
  <2>2. me.items \in Seq(Row) /\ me.items # << >>
    BY <1>1 DEF Local, SessionState
  <2>3. Tail(me.items) \in Seq(Row) /\ (pc = "item" => Tail(me.items) # << >>)
        /\ pc \in {"item", "commit"}
    BY <2>2, TailOf DEF NextItem
  <2>4. me.pc \in {"item", "created"}
    OBVIOUS
  <2> HIDE DEF me, pc
  <2>5. /\ new.pend \in [Issues -> Row \cup {NoRow}]
        /\ \A j \in Issues : new.pend[j] = IF j = me.item THEN NoRow ELSE me.pend[j]
    BY <1>1 DEF SessionState
  <2>6. new \in SessionState
    BY <1>1, <2>3, <2>5 DEF SessionState, Labels
  <2>7. Local(new)
    BY <1>1, <2>3, <2>4, <2>5, NullAssumption DEF SessionState, Local
  <2>8. PendInv(new)
    BY <1>1, <2>5 DEF PendInv
  <2> HIDE DEF new
  <2> QED
    BY <1>1, <2>1, <2>6, <2>7, <2>8, SessionStep
<1> QED
  BY <1>2, <1>3

\* A reference that is not there drops the item.
LEMMA ValidateItemStep ==
  ASSUME IInv, NEW s \in Sessions, ValidateItem(s)
  PROVE  IInv'
<1> DEFINE me == sess[s]
           new == [me EXCEPT !.pc = "insert"]
<1>1. me.pc = "item" /\ UNCHANGED tables /\ served' = served /\ served' \in 0..MaxRequests
  BY DEF ValidateItem, At, IInv, TypeOK
<1>2. me \in SessionState /\ Local(me) /\ PendInv(me)
  BY OfSession
<1>3. CASE DropItem(s)
  BY <1>1, <1>3, DropItemStep
<1>4. CASE ~DropItem(s)
  <2>1. sess' = [sess EXCEPT ![s] = new]
    BY <1>4 DEF ValidateItem
  <2> HIDE DEF me
  <2>2. new \in SessionState /\ Local(new) /\ PendInv(new)
    BY <1>1, <1>2 DEF SessionState, Labels, Local, PendInv
  <2> HIDE DEF new
  <2> QED
    BY <1>1, <2>1, <2>2, SessionStep
<1> QED
  BY <1>3, <1>4

\* A step that changes the tables preserves the invariant when the tables
\* are left whole, and with them the rows that are still pending.
LEMMA TableStep ==
  ASSUME IInv, NEW s \in Sessions, NEW new \in SessionState, Local(new),
         sess' = [sess EXCEPT ![s] = new], served' \in 0..MaxRequests,
         db' \in [Issues -> Row \cup {NoRow}], trail' \in [Issues -> Row \cup {NoRow}],
         projects' \subseteq Projects, minted' \subseteq Issues \cup Projects,
         notified' \subseteq Issues, TableInv',
         \A o \in Sessions : PendInv(sess[o])'
  PROVE  IInv'
<1>1. TypeOK'
  BY DEF IInv, TypeOK
<1>2. \A o \in Sessions : sess'[o] = IF o = s THEN new ELSE sess[o]
  BY DEF IInv, TypeOK
<1>3. ASSUME NEW o \in Sessions PROVE Local(sess'[o])
  BY <1>2 DEF IInv
<1>4. ASSUME NEW o \in Sessions PROVE Local(sess[o])'
  BY <1>3 DEF Local
<1> QED
  BY <1>1, <1>4 DEF IInv

\* Pending rows stay in order as long as nothing is deleted.
LEMMA PendGrows ==
  ASSUME IInv, NEW o \in Sessions, sess'[o].pend = sess[o].pend \/ sess'[o].pend = NoCache,
         minted \subseteq minted', projects \subseteq projects',
         \A i \in Issues : db[i] # NoRow => db'[i] # NoRow
  PROVE  PendInv(sess[o])'
<1>1. sess[o] \in SessionState /\ PendInv(sess[o])
  BY OfSession
<1>2. ASSUME NEW j \in Issues, sess[o].pend[j] # NoRow, sess'[o].pend[j] = sess[o].pend[j]
      PROVE  /\ j \in minted' /\ sess[o].pend[j].parent # j
             /\ sess[o].pend[j].parent # None => db'[sess[o].pend[j].parent] # NoRow
             /\ sess[o].pend[j].project # None => sess[o].pend[j].project \in projects'
  <2>1. sess[o].pend[j].parent \in Issues \cup {None}
    BY <1>1, <1>2 DEF SessionState, Row
  <2> QED
    BY <1>1, <1>2, <2>1 DEF PendInv, RefersWell, ParentFound, ProjectFound, Exists
<1> QED
  BY <1>2 DEF PendInv, NoCache, RefersWell, ParentFound, ProjectFound, Exists

\* An id that was never used is given to a row whose references are there:
\* the row cannot refer to itself.
LEMMA InsertStep ==
  ASSUME IInv, NEW s \in Sessions, NEW i \in Issues, Insert(s, i)
  PROVE  IInv'
<1> DEFINE me == sess[s]
           row == Head(me.items)
           new == [me EXCEPT !.pc = "created", !.item = i, !.pend[i] = row]
<1>1. /\ sess' = [sess EXCEPT ![s] = new] /\ me.pc = "insert" /\ i \notin minted
      /\ ParentFound(row) /\ ProjectFound(row) /\ minted' = minted \cup {i}
      /\ UNCHANGED <<db, projects, notified, trail, served>>
  BY DEF Insert, At
<1>2. me \in SessionState /\ Local(me) /\ PendInv(me)
  BY OfSession
<1>3. row \in Row
  BY <1>1, <1>2, HeadTailProperties DEF Local, SessionState
<1>4. row.parent # i
  <2>1. ASSUME row.parent = i PROVE FALSE
    <3>1. i # None
      BY NullAssumption
    <3> QED
      BY <1>1, <2>1, <3>1 DEF ParentFound, IInv, TableInv
  <2> QED
    BY <2>1
<1>5. TableInv'
  BY <1>1 DEF IInv, TableInv, Exists, RefersWell, ParentFound, ProjectFound
<1>6. \A o \in Sessions : sess'[o] = IF o = s THEN new ELSE sess[o]
  BY <1>1 DEF IInv, TypeOK
<1> HIDE DEF me, row
<1>7. /\ new.pend \in [Issues -> Row \cup {NoRow}]
      /\ \A j \in Issues : new.pend[j] = IF j = i THEN row ELSE me.pend[j]
  BY <1>2, <1>3 DEF SessionState
<1>8. new \in SessionState
  BY <1>2, <1>7 DEF SessionState, Labels
<1>9. Local(new)
  <2>1. i \notin me.notes
    BY <1>1, <1>2 DEF Local, PendInv
  <2> QED
    BY <1>1, <1>2, <1>3, <1>7, <2>1, NullAssumption DEF SessionState, Local
<1>10. ASSUME NEW o \in Sessions PROVE PendInv(sess[o])'
  <2>1. CASE o = s
    <3>1. sess'[o] = new
      BY <1>6, <2>1
    <3>2. \A j \in Issues : new.pend[j] # NoRow =>
             j \in minted' /\ new.pend[j].parent # j /\ RefersWell(new.pend[j])
      BY <1>1, <1>2, <1>4, <1>7 DEF PendInv, RefersWell
    <3> HIDE DEF new
    <3> QED
      BY <1>1, <3>1, <3>2 DEF PendInv, RefersWell, ParentFound, ProjectFound, Exists
  <2>2. CASE o # s
    BY <1>1, <1>6, <2>2, PendGrows
  <2> QED
    BY <2>1, <2>2
<1>11. /\ db' \in [Issues -> Row \cup {NoRow}] /\ trail' \in [Issues -> Row \cup {NoRow}]
       /\ projects' \subseteq Projects /\ minted' \subseteq Issues \cup Projects
       /\ notified' \subseteq Issues /\ served' \in 0..MaxRequests
  BY <1>1 DEF IInv, TypeOK
<1>12. sess' = [sess EXCEPT ![s] = new]
  BY <1>1 DEF me, row
<1> HIDE DEF new
<1> QED
  BY <1>5, <1>8, <1>9, <1>10, <1>11, <1>12, TableStep

\* The effects of the rules stay within the row and keep its parent; the
\* project they name is there.
LEMMA EvaluateCreatedStep ==
  ASSUME IInv, NEW s \in Sessions, EvaluateCreated(s)
  PROVE  IInv'
<1> DEFINE me == sess[s]
           row == me.pend[me.item]
           fired == Fired(Rules, "issue.created", CreateContext(row), RowsWith(me.pend))
           done == ApplyEffects(row, fired)
           pc == NextItem(me)
           notes == IF Notifies(fired) THEN me.notes \cup {me.item} ELSE me.notes
           new == [me EXCEPT !.pc = pc, !.items = Tail(@), !.item = None,
                     !.pend[me.item] = done, !.notes = notes]
<1>1. me.pc = "created" /\ UNCHANGED tables /\ served' = served /\ served' \in 0..MaxRequests
  BY DEF EvaluateCreated, At, IInv, TypeOK
<1>2. me \in SessionState /\ Local(me) /\ PendInv(me)
  BY OfSession
<1>3. CASE DropItem(s)
  BY <1>1, <1>3, DropItemStep
<1>4. CASE End(s)
  BY <1>1, <1>4, EndStep
<1>5. CASE ~DropItem(s) /\ ~End(s)
  <2>1. ProjectFound(done) /\ sess' = [sess EXCEPT ![s] = new]
    BY <1>5 DEF EvaluateCreated
  <2>2. me.item \in Issues /\ row \in Row /\ me.items \in Seq(Row) /\ me.items # << >>
    BY <1>1, <1>2 DEF Local, SessionState
  <2>3. fired \in SUBSET Rules
    BY DEF Fired, Loaded
  <2> HIDE DEF fired
  <2>4. done \in Row /\ done.parent = row.parent
    BY <2>2, <2>3, EffectsRow
  <2>5. Tail(me.items) \in Seq(Row) /\ (pc = "item" => Tail(me.items) # << >>)
        /\ pc \in {"item", "commit"}
    BY <2>2, TailOf DEF NextItem
  <2>6. notes \subseteq Issues /\ notes \subseteq me.notes \cup {me.item}
    BY <1>2, <2>2 DEF SessionState
  <2>7. \A j \in me.notes : me.pend[j] # NoRow
    BY <1>2 DEF Local
  <2>8. me.item \in minted /\ row.parent # me.item /\ ParentFound(row) /\ row # NoRow
    BY <1>1, <1>2, <2>2 DEF PendInv, RefersWell, Local
  <2> HIDE DEF me, pc, notes, done, row
  <2>9. /\ new.pend \in [Issues -> Row \cup {NoRow}]
        /\ \A j \in Issues : new.pend[j] = IF j = me.item THEN done ELSE me.pend[j]
    BY <1>2, <2>4 DEF SessionState
  <2>10. new \in SessionState
    BY <1>2, <2>5, <2>6, <2>9 DEF SessionState, Labels
  <2>11. Local(new)
    <3>1. None \notin notes /\ \A j \in notes : new.pend[j] # NoRow
      BY <2>4, <2>6, <2>7, <2>9, NullAssumption
    <3> QED
      BY <1>1, <1>2, <2>5, <3>1 DEF SessionState, Local
  <2>12. PendInv(new)
    BY <1>2, <2>1, <2>4, <2>8, <2>9 DEF PendInv, RefersWell, ParentFound
  <2> HIDE DEF new
  <2> QED
    BY <1>1, <2>1, <2>10, <2>11, <2>12, SessionStep DEF me
<1> QED
  BY <1>3, <1>4, <1>5

\* What a request inserted becomes visible, with what it refers to.
LEMMA CommitCreateStep ==
  ASSUME IInv, NEW s \in Sessions, CommitCreate(s)
  PROVE  IInv'
<1> DEFINE me == sess[s]
<1>1. /\ sess' = [sess EXCEPT ![s] = Idle] /\ db' = Inserted(me, db)
      /\ trail' = Inserted(me, trail) /\ notified' = notified \cup me.notes
      /\ UNCHANGED <<projects, minted, served>>
  BY DEF CommitCreate, End
<1>2. me \in SessionState /\ Local(me) /\ PendInv(me)
  BY OfSession
<1>3. \A o \in Sessions : sess'[o] = IF o = s THEN Idle ELSE sess[o]
  BY <1>1 DEF IInv, TypeOK
<1> HIDE DEF me
<1>4. \A j \in Issues : /\ db'[j] = IF me.pend[j] # NoRow THEN me.pend[j] ELSE db[j]
                        /\ trail'[j] = IF me.pend[j] # NoRow THEN me.pend[j] ELSE trail[j]
  BY <1>1 DEF Inserted
<1>5. /\ db' \in [Issues -> Row \cup {NoRow}] /\ trail' \in [Issues -> Row \cup {NoRow}]
  BY <1>1, <1>2 DEF Inserted, IInv, TypeOK, SessionState
<1>6. /\ projects' \subseteq Projects /\ minted' \subseteq Issues \cup Projects
      /\ notified' \subseteq Issues /\ served' \in 0..MaxRequests
  BY <1>1, <1>2 DEF IInv, TypeOK, SessionState
<1>7. \A j \in Issues : db[j] # NoRow => db'[j] # NoRow
  BY <1>4
<1>8. ASSUME NEW j \in Issues, db'[j] # NoRow
      PROVE  /\ j \in minted' /\ trail'[j] # NoRow /\ db'[j].parent # j
             /\ db'[j].parent # None => db'[db'[j].parent] # NoRow
             /\ db'[j].project # None => db'[j].project \in projects'
  <2>1. db'[j] \in Row /\ db'[j].parent \in Issues \cup {None}
    BY <1>5, <1>8 DEF Row
  <2>2. CASE me.pend[j] # NoRow
    BY <1>1, <1>2, <1>4, <1>7, <2>1, <2>2 DEF PendInv, RefersWell, ParentFound, ProjectFound, Exists
  <2>3. CASE me.pend[j] = NoRow
    BY <1>1, <1>4, <1>7, <1>8, <2>1, <2>3
    DEF IInv, TableInv, RefersWell, ParentFound, ProjectFound, Exists
  <2> QED
    BY <2>2, <2>3
<1>9. \A j \in notified' : db'[j] # NoRow
  <2>1. \A j \in me.notes : j \in Issues /\ me.pend[j] # NoRow
    BY <1>2 DEF Local, SessionState
  <2>2. \A j \in notified : j \in Issues /\ db[j] # NoRow
    BY DEF IInv, TypeOK, TableInv, Exists
  <2> QED
    BY <1>1, <1>4, <1>7, <2>1, <2>2
<1>10. TableInv'
  BY <1>8, <1>9 DEF TableInv, RefersWell, ParentFound, ProjectFound, Exists
<1>11. ASSUME NEW o \in Sessions PROVE PendInv(sess[o])'
  <2>1. sess'[o].pend = sess[o].pend \/ sess'[o].pend = NoCache
    BY <1>3 DEF Idle
  <2> QED
    BY <1>1, <1>7, <2>1, PendGrows
<1> QED
  BY <1>1, <1>5, <1>6, <1>10, <1>11, IdleOK, TableStep

-----------------------------------------------------------------------------
(* The commit of a PATCH and its rollup.                                   *)

\* What the commit stores is a row whose references are there and whose
\* parent is not the issue itself.
LEMMA CommitUpdateStep ==
  ASSUME IInv, NEW s \in Sessions, CommitUpdate(s)
  PROVE  IInv'
<1> DEFINE me == sess[s]
           i == me.item
           pc == IF me.to # None /\ Terminal(me.to) /\ Final(me).parent # None
                 THEN "siblings" ELSE "refresh"
           new == [me EXCEPT !.cache[i] = Final(me), !.pc = pc]
<1>1. /\ sess' = [sess EXCEPT ![s] = new] /\ me.pc = "write" /\ ~WriteFails(me)
      /\ db' = IF Exists(i) THEN [db EXCEPT ![i] = Overwrite(db[i], me)] ELSE db
      /\ trail' = IF Exists(i) THEN [trail EXCEPT ![i] = Logged(trail[i], me)] ELSE trail
      /\ notified' = IF Notifies(me.fired) THEN notified \cup {i} ELSE notified
      /\ UNCHANGED <<projects, minted, served>>
  BY DEF CommitUpdate, At
<1>2. me \in SessionState /\ Local(me) /\ PendInv(me)
  BY OfSession
<1>3. \A o \in Sessions : sess'[o] = IF o = s THEN new ELSE sess[o]
  BY <1>1 DEF IInv, TypeOK
<1> HIDE DEF me
<1>4. i \in Issues /\ me.cache[i] \in Row /\ IsPatch(me.patch) /\ me.fired \in SUBSET Rules
  BY <1>1, <1>2, PatchType DEF Local, SessionState
<1>5. /\ Mutated(me) \in Row
      /\ Mutated(me).parent = IF "parent" \in DOMAIN me.patch
                              THEN me.patch["parent"] ELSE me.cache[i].parent
  BY <1>4, PatchedRow DEF Mutated
<1>6. Final(me) \in Row /\ Final(me).parent = Mutated(me).parent
  BY <1>4, <1>5, EffectsRow DEF Final
<1>7. "parent" \in Written(me) => Final(me).parent # i
  BY <1>1, <1>2, <1>5, <1>6 DEF Local, Written, Changed
<1>8. /\ new.cache \in [Issues -> Row \cup {NoRow}] /\ new.pend = me.pend
      /\ \A j \in Issues : new.cache[j] = IF j = i THEN Final(me) ELSE me.cache[j]
  BY <1>2, <1>4, <1>6 DEF SessionState
<1>9. pc \in {"siblings", "refresh"} /\ (pc = "siblings" => Final(me).parent # None)
  OBVIOUS
<1> HIDE DEF pc
<1>10. new \in SessionState
  BY <1>2, <1>8, <1>9 DEF SessionState, Labels
<1>11. Local(new)
  BY <1>2, <1>4, <1>6, <1>8, <1>9, NullAssumption DEF SessionState, Local
<1>12. ASSUME Exists(i)
       PROVE  /\ db[i] \in Row /\ trail[i] \in Row
              /\ Overwrite(db[i], me) \in Row /\ Logged(trail[i], me) \in Row
              /\ Overwrite(db[i], me).parent # i /\ RefersWell(Overwrite(db[i], me))
  <2>1. db[i] \in Row /\ trail[i] \in Row /\ db[i].parent # i /\ RefersWell(db[i])
    BY <1>4, <1>12 DEF IInv, TypeOK, TableInv, Exists
  <2>2. /\ Overwrite(db[i], me) \in Row /\ Logged(trail[i], me) \in Row
        /\ \A c \in Columns : Overwrite(db[i], me)[c] =
             IF c \in Written(me) THEN Final(me)[c] ELSE db[i][c]
    BY <1>5, <1>6, <2>1, OverwrittenRow, LoggedRow
  <2>3. /\ Overwrite(db[i], me).parent =
             IF "parent" \in Written(me) THEN Final(me).parent ELSE db[i].parent
        /\ Overwrite(db[i], me).project =
             IF "project" \in Written(me) THEN Final(me).project ELSE db[i].project
    BY <2>2 DEF Columns
  <2>4. /\ "parent" \in Written(me) => ParentFound(Final(me))
        /\ "project" \in Written(me) => ProjectFound(Final(me))
    <3> DEFINE old == me.cache[i]
               mid == Mutated(me)
               last == Final(me)
    <3>1. ~Refused(old, mid) /\ ~Refused(mid, last)
      BY <1>1 DEF WriteFails
    <3>2. Written(me) = Changed(old, mid) \cup Changed(mid, last)
      BY DEF Written
    <3> HIDE DEF old, mid, last
    <3>3. \A c \in Columns : c \in Changed(mid, last) \/ mid[c] = last[c]
      BY DEF Changed
    <3>4. /\ (mid.parent = last.parent /\ ParentFound(mid)) => ParentFound(last)
          /\ (mid.project = last.project /\ ProjectFound(mid)) => ProjectFound(last)
      BY DEF ParentFound, ProjectFound
    <3>5. /\ "parent" \in Written(me) => ParentFound(last)
          /\ "project" \in Written(me) => ProjectFound(last)
      BY <3>1, <3>2, <3>3, <3>4 DEF Refused, Columns
    <3> QED
      BY <3>5 DEF last
  <2> QED
    BY <1>7, <2>1, <2>2, <2>3, <2>4 DEF RefersWell, ParentFound, ProjectFound
<1>13. \A j \in Issues :
         /\ db'[j] = IF Exists(i) /\ j = i THEN Overwrite(db[i], me) ELSE db[j]
         /\ trail'[j] = IF Exists(i) /\ j = i THEN Logged(trail[i], me) ELSE trail[j]
  BY <1>1 DEF IInv, TypeOK
<1>14. /\ db' \in [Issues -> Row \cup {NoRow}] /\ trail' \in [Issues -> Row \cup {NoRow}]
       /\ projects' \subseteq Projects /\ minted' \subseteq Issues \cup Projects
       /\ notified' \subseteq Issues /\ served' \in 0..MaxRequests
  BY <1>1, <1>4, <1>12 DEF IInv, TypeOK
<1>15. \A j \in Issues : db'[j] # NoRow <=> db[j] # NoRow
  BY <1>12, <1>13, NullAssumption DEF Exists
<1>16. TableInv'
  <2>1. ASSUME NEW j \in Issues, db'[j] # NoRow
        PROVE  /\ j \in minted' /\ trail'[j] # NoRow /\ db'[j].parent # j
               /\ db'[j].parent # None => db'[db'[j].parent] # NoRow
               /\ db'[j].project # None => db'[j].project \in projects'
    <3>1. db[j] # NoRow /\ j \in minted'
      BY <1>1, <1>15, <2>1 DEF IInv, TableInv, Exists
    <3>2. db'[j] \in Row /\ db'[j].parent \in Issues \cup {None}
      BY <1>14, <2>1 DEF Row
    <3>3. CASE Exists(i) /\ j = i
      BY <1>1, <1>12, <1>13, <1>15, <3>1, <3>2, <3>3, NullAssumption
      DEF RefersWell, ParentFound, ProjectFound, Exists
    <3>4. CASE ~(Exists(i) /\ j = i)
      BY <1>1, <1>13, <1>15, <3>1, <3>2, <3>4
      DEF IInv, TableInv, RefersWell, ParentFound, ProjectFound, Exists
    <3> QED
      BY <3>3, <3>4
  <2>2. \A j \in notified' : db'[j] # NoRow
    <3>1. Notifies(me.fired) => db[i] # NoRow
      BY <1>1 DEF WriteFails, Exists
    <3>2. \A j \in notified : j \in Issues /\ db[j] # NoRow
      BY DEF IInv, TypeOK, TableInv, Exists
    <3> QED
      BY <1>1, <1>4, <1>15, <3>1, <3>2
  <2> QED
    BY <2>1, <2>2 DEF TableInv, RefersWell, ParentFound, ProjectFound, Exists
<1>17. ASSUME NEW o \in Sessions PROVE PendInv(sess[o])'
  <2>1. sess'[o].pend = sess[o].pend
    BY <1>3, <1>8 DEF me
  <2> QED
    BY <1>1, <1>15, <2>1, PendGrows
<1>18. sess' = [sess EXCEPT ![s] = new]
  BY <1>1 DEF me
<1> HIDE DEF new
<1> QED
  BY <1>10, <1>11, <1>14, <1>16, <1>17, <1>18, TableStep

\* The rollup changes the triage context of a parent that is there, and
\* nothing else of it.
LEMMA FlagParentStep ==
  ASSUME IInv, NEW s \in Sessions, FlagParent(s)
  PROVE  IInv'
<1> DEFINE me == sess[s]
           p == ParentOf(me)
           marked == [db EXCEPT ![p].triage = {Flag}]
           row == IF me.cache[p] = NoRow THEN NoRow
                  ELSE [me.cache[p] EXCEPT !.triage = me.seen \cup {Flag}]
           new == [me EXCEPT !.pc = "refresh", !.cache[p] = row]
<1>1. me.pc = "flag" /\ UNCHANGED <<projects, minted, notified, trail, served>>
  BY DEF FlagParent, At
<1>2. me \in SessionState /\ Local(me) /\ PendInv(me) /\ served' \in 0..MaxRequests
  BY <1>1, OfSession DEF IInv, TypeOK
<1>3. p \in Issues
  <2>1. me.cache[me.item] \in Row /\ me.cache[me.item].parent # None
    BY <1>1, <1>2 DEF Local, SessionState
  <2> QED
    BY <2>1 DEF ParentOf, Row
<1>4. CASE me.seen = {} /\ ~Exists(p)
  BY <1>1, <1>2, <1>4, EndStep DEF FlagParent, tables
<1>5. CASE ~(me.seen = {} /\ ~Exists(p))
  <2>1. /\ db' = IF me.seen = {} THEN marked ELSE db
        /\ sess' = [sess EXCEPT ![s] = new]
    BY <1>5, <1>2, <1>3 DEF FlagParent, SessionState
  <2>2. \A o \in Sessions : sess'[o] = IF o = s THEN new ELSE sess[o]
    BY <2>1 DEF IInv, TypeOK
  <2>3. ASSUME me.seen = {} PROVE marked \in [Issues -> Row \cup {NoRow}]
    <3>1. db[p] \in Row
      BY <1>3, <1>5, <2>3 DEF IInv, TypeOK, Exists
    <3>2. [db[p] EXCEPT !.triage = {Flag}] \in Row
      BY <3>1, FlagAssumption DEF Row
    <3> QED
      BY <3>2 DEF IInv, TypeOK
  <2>4. db' \in [Issues -> Row \cup {NoRow}]
    BY <2>1, <2>3 DEF IInv, TypeOK
  <2>5. ASSUME NEW j \in Issues
        PROVE  /\ db'[j] # NoRow <=> db[j] # NoRow
               /\ db[j] # NoRow => /\ db'[j].parent = db[j].parent
                                   /\ db'[j].project = db[j].project
    <3>1. CASE me.seen = {} /\ j = p
      <4>1. db[p] \in Row /\ db'[p] = [db[p] EXCEPT !.triage = {Flag}]
        BY <1>3, <1>5, <2>1, <3>1 DEF IInv, TypeOK, Exists
      <4>2. db'[p] \in Row
        BY <4>1, FlagAssumption DEF Row
      <4> QED
        BY <3>1, <4>1, <4>2, NullAssumption DEF Row
    <3>2. CASE ~(me.seen = {} /\ j = p)
      BY <1>3, <2>1, <3>2 DEF IInv, TypeOK
    <3> QED
      BY <3>1, <3>2
  <2>6. row \in Row \cup {NoRow} /\ (me.cache[p] # NoRow => row # NoRow /\ row.parent = me.cache[p].parent)
    <3>1. me.cache[p] # NoRow =>
            /\ me.cache[p] \in Row
            /\ [me.cache[p] EXCEPT !.triage = me.seen \cup {Flag}] \in Row
      BY <1>2, <1>3, FlagAssumption DEF SessionState, Row
    <3> QED
      BY <3>1, NullAssumption DEF Row
  <2>7. TableInv'
    <3>1. ASSUME NEW j \in Issues, db[j] # NoRow
          PROVE  /\ j \in minted /\ trail[j] # NoRow /\ db[j].parent # j
                 /\ db[j].parent \in Issues \cup {None}
                 /\ db[j].parent # None => db[db[j].parent] # NoRow
                 /\ db[j].project # None => db[j].project \in projects
      BY <3>1 DEF IInv, TypeOK, TableInv, RefersWell, ParentFound, ProjectFound, Exists, Row
    <3>2. \A j \in notified : j \in Issues /\ db[j] # NoRow
      BY DEF IInv, TypeOK, TableInv, Exists
    <3> QED
      BY <1>1, <2>5, <3>1, <3>2
      DEF TableInv, RefersWell, ParentFound, ProjectFound, Exists
  <2> HIDE DEF me, p, row
  <2>8. /\ new.cache \in [Issues -> Row \cup {NoRow}] /\ new.pend = me.pend
        /\ \A j \in Issues : new.cache[j] = IF j = p THEN row ELSE me.cache[j]
    BY <1>2, <1>3, <2>6 DEF SessionState
  <2>9. new \in SessionState
    BY <1>2, <2>8 DEF SessionState, Labels
  <2>10. Local(new)
    BY <1>2, <2>6, <2>8 DEF SessionState, Local
  <2>11. ASSUME NEW o \in Sessions PROVE PendInv(sess[o])'
    <3>1. sess'[o].pend = sess[o].pend
      BY <2>2, <2>8 DEF me
    <3> QED
      BY <1>1, <2>5, <3>1, PendGrows
  <2>12. /\ trail' \in [Issues -> Row \cup {NoRow}] /\ projects' \subseteq Projects
         /\ minted' \subseteq Issues \cup Projects /\ notified' \subseteq Issues
    BY <1>1 DEF IInv, TypeOK
  <2>13. sess' = [sess EXCEPT ![s] = new]
    BY <2>1
  <2> HIDE DEF new
  <2> QED
    BY <1>2, <2>4, <2>7, <2>9, <2>10, <2>11, <2>12, <2>13, TableStep
<1> QED
  BY <1>4, <1>5

-----------------------------------------------------------------------------
(* DELETE of an issue.                                                     *)

\* The request names its issue.
LEMMA BeginDeleteStep ==
  ASSUME IInv, NEW s \in Sessions, NEW i \in Issues, BeginDelete(s, i)
  PROVE  IInv'
<1> DEFINE new == [Idle EXCEPT !.pc = "count", !.item = i]
<1>1. sess' = [sess EXCEPT ![s] = new] /\ UNCHANGED tables /\ served' \in 0..MaxRequests
  BY ServedBound DEF IInv, BeginDelete
<1>2. new \in SessionState
  BY IdleOK DEF SessionState, Labels
<1>3. Local(new) /\ PendInv(new)
  BY DEF Local, PendInv, Idle, NoCache
<1> HIDE DEF new
<1> QED
  BY <1>1, <1>2, <1>3, SessionStep

\* The children are counted, which changes nothing.
LEMMA CountActiveChildrenStep ==
  ASSUME IInv, NEW s \in Sessions, CountActiveChildren(s)
  PROVE  IInv'
<1> DEFINE me == sess[s]
           new == [me EXCEPT !.pc = "delete"]
<1>1. me.pc = "count" /\ UNCHANGED tables /\ served' \in 0..MaxRequests
  BY DEF CountActiveChildren, At, IInv, TypeOK
<1>2. me \in SessionState /\ Local(me) /\ PendInv(me)
  BY OfSession
<1>3. CASE End(s)
  BY <1>1, <1>3, EndStep
<1>4. CASE ~End(s)
  <2>1. sess' = [sess EXCEPT ![s] = new]
    BY <1>4 DEF CountActiveChildren
  <2> HIDE DEF me
  <2>2. new \in SessionState /\ Local(new) /\ PendInv(new)
    BY <1>1, <1>2 DEF SessionState, Labels, Local, PendInv
  <2> HIDE DEF new
  <2> QED
    BY <1>1, <2>1, <2>2, SessionStep
<1> QED
  BY <1>3, <1>4

\* What goes is referred to by no row, no notification and, since it is not
\* locked, by no row still pending.
LEMMA CommitDeleteStep ==
  ASSUME IInv, NEW s \in Sessions, CommitDelete(s)
  PROVE  IInv'
<1> DEFINE me == sess[s]
           i == me.item
<1>1. /\ me.pc = "delete" /\ ~Locked(i) /\ End(s)
      /\ db' = IF Referenced(i) THEN db ELSE Deleted(i)
      /\ UNCHANGED <<projects, minted, notified, trail, served>>
  BY DEF CommitDelete, At
<1>2. i \in Issues
  BY <1>1, OfSession DEF Local
<1>3. served' \in 0..MaxRequests
  BY <1>1 DEF IInv, TypeOK
<1>4. CASE Referenced(i)
  BY <1>1, <1>3, <1>4, EndStep DEF tables
<1>5. CASE ~Referenced(i)
  <2>1. \A j \in Issues : db'[j] = IF j = i THEN NoRow ELSE db[j]
    BY <1>1, <1>5 DEF Deleted, IInv, TypeOK
  <2>2. db' \in [Issues -> Row \cup {NoRow}]
    BY <1>1, <1>5 DEF Deleted, IInv, TypeOK
  <2>3. i \notin notified /\ \A j \in Issues : db[j] # NoRow => db[j].parent # i
    BY <1>5 DEF Referenced, Children, Exists
  <2>4. ASSUME NEW o \in Sessions, NEW j \in Issues, sess[o].pend[j] # NoRow
        PROVE  sess[o].pend[j].parent # i
    BY <1>1, <2>4 DEF Locked
  <2> HIDE DEF me, i
  <2>5. TableInv'
    <3>1. ASSUME NEW j \in Issues, db'[j] # NoRow
          PROVE  /\ j \in minted' /\ trail'[j] # NoRow /\ db'[j].parent # j
                 /\ db'[j].parent # None => db'[db'[j].parent] # NoRow
                 /\ db'[j].project # None => db'[j].project \in projects'
      <4>1. db'[j] = db[j] /\ db[j] # NoRow /\ db[j].parent # i
        BY <2>1, <2>3, <3>1
      <4>2. db[j].parent \in Issues \cup {None}
        BY <4>1 DEF IInv, TypeOK, Row
      <4> QED
        BY <1>1, <2>1, <4>1, <4>2
        DEF IInv, TableInv, RefersWell, ParentFound, ProjectFound, Exists
    <3>2. \A j \in notified' : db'[j] # NoRow
      BY <1>1, <2>1, <2>3 DEF IInv, TypeOK, TableInv, Exists
    <3> QED
      BY <3>1, <3>2 DEF TableInv, RefersWell, ParentFound, ProjectFound, Exists
  <2>6. ASSUME NEW o \in Sessions PROVE PendInv(sess[o])'
    <3>1. sess'[o] = IF o = s THEN Idle ELSE sess[o]
      BY <1>1 DEF End, IInv, TypeOK
    <3>2. CASE o = s
      BY <3>1, <3>2 DEF PendInv, Idle, NoCache
    <3>3. CASE o # s
      <4>1. sess[o] \in SessionState /\ PendInv(sess[o]) /\ sess'[o] = sess[o]
        BY <3>1, <3>3, OfSession
      <4>2. ASSUME NEW j \in Issues, sess[o].pend[j] # NoRow
            PROVE  /\ j \in minted /\ sess[o].pend[j].parent # j
                   /\ sess[o].pend[j].parent # None => db'[sess[o].pend[j].parent] # NoRow
                   /\ sess[o].pend[j].project # None => sess[o].pend[j].project \in projects
        <5>1. sess[o].pend[j].parent \in Issues \cup {None} /\ sess[o].pend[j].parent # i
          BY <2>4, <4>1, <4>2 DEF SessionState, Row
        <5> QED
          BY <2>1, <4>1, <4>2, <5>1 DEF PendInv, RefersWell, ParentFound, ProjectFound, Exists
      <4> QED
        BY <1>1, <4>1, <4>2 DEF PendInv, RefersWell, ParentFound, ProjectFound, Exists
    <3> QED
      BY <3>2, <3>3
  <2>7. /\ trail' \in [Issues -> Row \cup {NoRow}] /\ projects' \subseteq Projects
        /\ minted' \subseteq Issues \cup Projects /\ notified' \subseteq Issues
    BY <1>1 DEF IInv, TypeOK
  <2> QED
    BY <1>1, <1>3, <2>2, <2>5, <2>6, <2>7, IdleOK, TableStep DEF End
<1> QED
  BY <1>4, <1>5

-----------------------------------------------------------------------------
(* Projects.                                                               *)

\* The rows that stay refer to a project that stays.
LEMMA ProjectsGrow ==
  ASSUME IInv, projects \subseteq projects', minted \subseteq minted',
         UNCHANGED <<db, notified, trail>>
  PROVE  TableInv'
BY DEF IInv, TableInv, RefersWell, ParentFound, ProjectFound, Exists

\* A project is created under an id that was never used.
LEMMA CreateProjectStep ==
  ASSUME IInv, NEW s \in Sessions, NEW q \in Projects, CreateProject(s, q)
  PROVE  IInv'
<1>1. /\ projects' = projects \cup {q} /\ minted' = minted \cup {q}
      /\ UNCHANGED <<db, notified, trail, sess>> /\ served' \in 0..MaxRequests
  BY ServedBound DEF IInv, CreateProject
<1>2. TableInv'
  BY <1>1, ProjectsGrow
<1>3. TypeOK'
  BY <1>1 DEF IInv, TypeOK
<1>4. ASSUME NEW o \in Sessions PROVE Local(sess[o])' /\ PendInv(sess[o])'
  <2>1. Local(sess[o])'
    BY <1>1 DEF IInv, Local
  <2>2. PendInv(sess[o])'
    BY <1>1, PendGrows
  <2> QED
    BY <2>1, <2>2
<1> QED
  BY <1>2, <1>3, <1>4 DEF IInv

\* The request names the issue to convert.
LEMMA BeginConvertStep ==
  ASSUME IInv, NEW s \in Sessions, NEW i \in Issues, BeginConvert(s, i)
  PROVE  IInv'
<1> DEFINE new == [Idle EXCEPT !.pc = "convert", !.item = i]
<1>1. sess' = [sess EXCEPT ![s] = new] /\ UNCHANGED tables /\ served' \in 0..MaxRequests
  BY ServedBound DEF IInv, BeginConvert
<1>2. new \in SessionState
  BY IdleOK DEF SessionState, Labels
<1>3. Local(new) /\ PendInv(new)
  BY DEF Local, PendInv, Idle, NoCache
<1> HIDE DEF new
<1> QED
  BY <1>1, <1>2, <1>3, SessionStep

\* The new project and the reference to it are committed together.
LEMMA CommitConvertStep ==
  ASSUME IInv, NEW s \in Sessions, NEW q \in Projects, CommitConvert(s, q)
  PROVE  IInv'
<1> DEFINE i == sess[s].item
           moved == [db EXCEPT ![i].project = q]
<1>1. /\ sess[s].pc = "convert" /\ End(s) /\ minted' = minted \cup {q}
      /\ UNCHANGED <<notified, trail, served>>
  BY DEF CommitConvert, At
<1>2. /\ Exists(i) => projects' = projects \cup {q} /\ db' = moved
      /\ ~Exists(i) => projects' = projects /\ db' = db
  BY DEF CommitConvert
<1>3. i \in Issues
  BY <1>1, OfSession DEF Local
<1> HIDE DEF i
<1>4. ASSUME Exists(i)
      PROVE  /\ db[i] \in Row /\ [db[i] EXCEPT !.project = q] \in Row
             /\ moved \in [Issues -> Row \cup {NoRow}]
  <2>1. db[i] \in Row
    BY <1>3, <1>4 DEF IInv, TypeOK, Exists
  <2>2. [db[i] EXCEPT !.project = q] \in Row
    BY <2>1 DEF Row
  <2> QED
    BY <2>1, <2>2 DEF IInv, TypeOK
<1>5. db' \in [Issues -> Row \cup {NoRow}]
  BY <1>2, <1>4 DEF IInv, TypeOK
<1>6. projects' \subseteq projects \cup {q} /\ projects \subseteq projects'
  BY <1>2
<1>7. ASSUME NEW j \in Issues
      PROVE  /\ db'[j] # NoRow <=> db[j] # NoRow
             /\ db[j] # NoRow => /\ db'[j].parent = db[j].parent
                                 /\ \/ db'[j].project = db[j].project
                                    \/ db'[j].project \in projects'
  <2>1. CASE Exists(i) /\ j = i
    <3>1. db[i] \in Row /\ db'[i] = [db[i] EXCEPT !.project = q] /\ q \in projects'
      BY <1>2, <1>3, <1>4, <2>1 DEF IInv, TypeOK
    <3>2. db'[i] \in Row
      BY <1>4, <2>1, <3>1
    <3> QED
      BY <2>1, <3>1, <3>2, NullAssumption DEF Row
  <2>2. CASE ~(Exists(i) /\ j = i)
    BY <1>2, <1>3, <2>2 DEF IInv, TypeOK
  <2> QED
    BY <2>1, <2>2
<1>8. TableInv'
  <2>1. ASSUME NEW j \in Issues, db[j] # NoRow
        PROVE  /\ j \in minted /\ trail[j] # NoRow /\ db[j].parent # j
               /\ db[j].parent \in Issues \cup {None}
               /\ db[j].parent # None => db[db[j].parent] # NoRow
               /\ db[j].project # None => db[j].project \in projects
    BY <2>1 DEF IInv, TypeOK, TableInv, RefersWell, ParentFound, ProjectFound, Exists, Row
  <2>2. \A j \in notified : j \in Issues /\ db[j] # NoRow
    BY DEF IInv, TypeOK, TableInv, Exists
  <2> QED
    BY <1>1, <1>6, <1>7, <2>1, <2>2
    DEF TableInv, RefersWell, ParentFound, ProjectFound, Exists
<1>9. ASSUME NEW o \in Sessions PROVE PendInv(sess[o])'
  <2>1. sess'[o].pend = sess[o].pend \/ sess'[o].pend = NoCache
    BY <1>1 DEF End, Idle, IInv, TypeOK
  <2>2. minted \subseteq minted'
    BY <1>1
  <2> QED
    BY <1>6, <1>7, <2>1, <2>2, PendGrows
<1>10. /\ trail' \in [Issues -> Row \cup {NoRow}] /\ projects' \subseteq Projects
       /\ minted' \subseteq Issues \cup Projects /\ notified' \subseteq Issues
       /\ served' \in 0..MaxRequests
  BY <1>1, <1>6 DEF IInv, TypeOK
<1> QED
  BY <1>1, <1>5, <1>8, <1>9, <1>10, IdleOK, TableStep DEF End

\* The request names the project to delete.
LEMMA BeginDeleteProjectStep ==
  ASSUME IInv, NEW s \in Sessions, NEW q \in Projects, BeginDeleteProject(s, q)
  PROVE  IInv'
<1> DEFINE new == [Idle EXCEPT !.pc = "count_issues", !.item = q]
<1>1. sess' = [sess EXCEPT ![s] = new] /\ UNCHANGED tables /\ served' \in 0..MaxRequests
  BY ServedBound DEF IInv, BeginDeleteProject
<1>2. new \in SessionState
  BY IdleOK DEF SessionState, Labels
<1>3. Local(new) /\ PendInv(new)
  BY DEF Local, PendInv, Idle, NoCache
<1> HIDE DEF new
<1> QED
  BY <1>1, <1>2, <1>3, SessionStep

\* The issues are counted, which changes nothing.
LEMMA CountIssuesStep ==
  ASSUME IInv, NEW s \in Sessions, CountIssues(s)
  PROVE  IInv'
<1> DEFINE me == sess[s]
           new == [me EXCEPT !.pc = "delete_project"]
<1>1. me.pc = "count_issues" /\ UNCHANGED tables /\ served' \in 0..MaxRequests
  BY DEF CountIssues, At, IInv, TypeOK
<1>2. me \in SessionState /\ Local(me) /\ PendInv(me)
  BY OfSession
<1>3. CASE End(s)
  BY <1>1, <1>3, EndStep
<1>4. CASE ~End(s)
  <2>1. sess' = [sess EXCEPT ![s] = new]
    BY <1>4 DEF CountIssues
  <2> HIDE DEF me
  <2>2. new \in SessionState /\ Local(new) /\ PendInv(new)
    BY <1>1, <1>2 DEF SessionState, Labels, Local, PendInv
  <2> HIDE DEF new
  <2> QED
    BY <1>1, <2>1, <2>2, SessionStep
<1> QED
  BY <1>3, <1>4

\* A project goes only when no row refers to it, stored or pending.
LEMMA CommitDeleteProjectStep ==
  ASSUME IInv, NEW s \in Sessions, CommitDeleteProject(s)
  PROVE  IInv'
<1> DEFINE q == sess[s].item
<1>1. /\ ~Locked(q) /\ End(s) /\ UNCHANGED <<db, minted, notified, trail, served>>
      /\ projects' = IF ProjectReferenced(q) THEN projects ELSE projects \ {q}
  BY DEF CommitDeleteProject
<1>2. served' \in 0..MaxRequests
  BY <1>1 DEF IInv, TypeOK
<1>3. CASE ProjectReferenced(q)
  BY <1>1, <1>2, <1>3, EndStep DEF tables
<1>4. CASE ~ProjectReferenced(q)
  <2>1. \A j \in Issues : db[j] # NoRow => db[j].project # q
    BY <1>4 DEF ProjectReferenced, IssuesOf, Exists
  <2>2. ASSUME NEW o \in Sessions, NEW j \in Issues, sess[o].pend[j] # NoRow
        PROVE  sess[o].pend[j].project # q
    BY <1>1, <2>2 DEF Locked
  <2>3. projects' = projects \ {q}
    BY <1>1, <1>4
  <2> HIDE DEF q
  <2>4. TableInv'
    BY <1>1, <2>1, <2>3 DEF IInv, TableInv, RefersWell, ParentFound, ProjectFound, Exists
  <2>5. ASSUME NEW o \in Sessions PROVE PendInv(sess[o])'
    <3>1. sess'[o] = IF o = s THEN Idle ELSE sess[o]
      BY <1>1 DEF End, IInv, TypeOK
    <3>2. CASE o = s
      BY <3>1, <3>2 DEF PendInv, Idle, NoCache
    <3>3. CASE o # s
      <4>1. PendInv(sess[o]) /\ sess'[o] = sess[o]
        BY <3>1, <3>3, OfSession
      <4> QED
        BY <1>1, <2>2, <2>3, <4>1
        DEF PendInv, RefersWell, ParentFound, ProjectFound, Exists
    <3> QED
      BY <3>2, <3>3
  <2>6. /\ db' \in [Issues -> Row \cup {NoRow}] /\ trail' \in [Issues -> Row \cup {NoRow}]
        /\ projects' \subseteq Projects
        /\ minted' \subseteq Issues \cup Projects /\ notified' \subseteq Issues
    BY <1>1, <2>3 DEF IInv, TypeOK
  <2> QED
    BY <1>1, <1>2, <2>4, <2>5, <2>6, IdleOK, TableStep DEF End
<1> QED
  BY <1>3, <1>4

-----------------------------------------------------------------------------
(* The invariant.                                                          *)

\* The tables to start from are whole, and no request is under way.
LEMMA IInvInit == Init => IInv
<1> SUFFICES ASSUME Init PROVE IInv
  OBVIOUS
<1>1. TypeOK
  BY InitAssumption, MaxRequestsAssumption, IdleOK DEF Init, TypeOK
<1>2. TableInv
  BY InitAssumption DEF Init, TableInv, Exists, RefersWell, ParentFound, ProjectFound
<1>3. ASSUME NEW s \in Sessions PROVE Local(sess[s]) /\ PendInv(sess[s])
  BY IdleOK DEF Init
<1> QED
  BY <1>1, <1>2, <1>3 DEF IInv

\* A request that is refused, or whose write fails, leaves no trace.
LEMMA RefusedStep ==
  ASSUME IInv, NEW s \in Sessions,
         \/ \E i \in Issues : RefusePatch(s, i)
         \/ FailUpdate(s)
         \/ FailInsert(s)
  PROVE  IInv'
<1>1. End(s) /\ UNCHANGED tables /\ served' = served
  BY DEF RefusePatch, FailUpdate, FailInsert
<1>2. served' \in 0..MaxRequests
  BY <1>1 DEF IInv, TypeOK
<1> QED
  BY <1>1, <1>2, EndStep

\* A crash leaves what was committed, and nothing pending.
LEMMA CrashStep ==
  ASSUME IInv, Crash
  PROVE  IInv'
<1>1. sess' = [s \in Sessions |-> Idle] /\ UNCHANGED tables /\ served' = served
  BY DEF Crash
<1>2. TypeOK'
  BY <1>1, IdleOK DEF IInv, TypeOK, tables
<1>3. TableInv'
  BY <1>1 DEF IInv, TableInv, tables, RefersWell, ParentFound, ProjectFound, Exists
<1>4. ASSUME NEW s \in Sessions PROVE Local(sess[s])' /\ PendInv(sess[s])'
  <2>1. sess'[s] = Idle
    BY <1>1
  <2> QED
    BY <2>1 DEF Local, PendInv, Idle, NoCache
<1> QED
  BY <1>2, <1>3, <1>4 DEF IInv

\* Every step preserves the invariant.
LEMMA IInvStep == IInv /\ [Next]_vars => IInv'
<1> SUFFICES ASSUME IInv, [Next]_vars PROVE IInv'
  OBVIOUS
<1>1. ASSUME NEW s \in Sessions, Request(s) PROVE IInv'
  BY <1>1, BeginUpdateStep, BeginBatchStep, BeginCreateStep, BeginDeleteStep,
     CreateProjectStep, BeginConvertStep, BeginDeleteProjectStep DEF Request
<1>2. ASSUME NEW s \in Sessions, Proceed(s) PROVE IInv'
  BY <1>2, AcceptPatchStep, RefusedStep, EvaluateRulesStep, CommitUpdateStep,
     ReadSiblingsStep, ReadParentStep, FlagParentStep, RefreshStep, ValidateItemStep,
     InsertStep, EvaluateCreatedStep, CommitCreateStep, CountActiveChildrenStep,
     CommitDeleteStep, CommitConvertStep, CountIssuesStep, CommitDeleteProjectStep
  DEF Proceed
<1>3. CASE Crash
  BY <1>3, CrashStep
<1>4. CASE UNCHANGED vars
  <2>1. TypeOK'
    BY <1>4 DEF IInv, TypeOK, vars
  <2>2. TableInv'
    BY <1>4 DEF IInv, TableInv, vars, RefersWell, ParentFound, ProjectFound, Exists
  <2>3. ASSUME NEW s \in Sessions PROVE Local(sess[s])' /\ PendInv(sess[s])'
    BY <1>4 DEF IInv, Local, PendInv, vars, RefersWell, ParentFound, ProjectFound, Exists
  <2> QED
    BY <2>1, <2>2, <2>3 DEF IInv
<1> QED
  BY <1>1, <1>2, <1>3, <1>4 DEF Next

\* The invariant holds of every reachable state.
THEOREM Invariance == Spec => []IInv
<1>1. Init => IInv
  BY IInvInit
<1>2. IInv /\ [Next]_vars => IInv'
  BY IInvStep
<1> QED
  BY <1>1, <1>2, PTL DEF Spec

\* The tables and requests keep their types, for any tables, bodies and rules.
THEOREM IssuesTyped == Spec => []TypeOK
<1>1. IInv => TypeOK
  BY DEF IInv
<1> QED
  BY <1>1, Invariance, PTL

\* However many requests interleave between the checks of update_issue,
\* create_issue, delete_issue, delete_project and convert_to_project and the
\* commits they guard, no row refers to one that is gone.
THEOREM ReferencesStayIntact == Spec => []ReferencesIntact
<1>1. IInv => ReferencesIntact
  BY DEF IInv, TableInv, RefersWell, ReferencesIntact
<1> QED
  BY <1>1, Invariance, PTL

\* No issue becomes its own parent, whatever the patches and the rules.
THEOREM NobodyOwnParent == Spec => []NoSelfParent
<1>1. IInv => NoSelfParent
  BY DEF IInv, TableInv, NoSelfParent
<1> QED
  BY <1>1, Invariance, PTL
=============================================================================
