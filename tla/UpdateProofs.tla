---------------------------- MODULE UpdateProofs -----------------------------
(***************************************************************************)
(* What an UPDATE of an issue may write, what the audit log tells of it,   *)
(* and which moves are made: further theorems, on the invariant of Issues. *)
(***************************************************************************)
EXTENDS IssuesProofs

\* A row a request has inserted and not committed is nobody else's, and not
\* stored.
PendApart ==
  \A s \in Sessions, i \in Issues : sess[s].pend[i] # NoRow =>
    /\ db[i] = NoRow
    /\ \A o \in Sessions \ {s} : sess[o].pend[i] = NoRow

Acting(s) == Request(s) \/ Proceed(s)
Inserting(s) == \E i \in Issues : Insert(s, i)
Converting(s) == \E i \in Issues : BeginConvert(s, i)

-----------------------------------------------------------------------------
(* What steps do to a request: only an INSERT adds to what is pending, and *)
(* only a request to convert converts.                                     *)

\* The request keeps what is pending, or less, and does not convert.
Modest(s) ==
  /\ \A o \in Sessions \ {s} : sess'[o] = sess[o]
  /\ \A j \in Issues : sess'[s].pend[j] # NoRow => sess[s].pend[j] # NoRow
  /\ sess'[s].pc # "convert"

LEMMA EndModest ==
  ASSUME TypeOK, NEW s \in Sessions, End(s)
  PROVE  Modest(s)
<1>1. sess'[s] = Idle /\ \A o \in Sessions \ {s} : sess'[o] = sess[o]
  BY DEF End, TypeOK
<1>2. Idle.pc = "idle" /\ \A j \in Issues : Idle.pend[j] = NoRow
  BY DEF Idle, NoCache
<1> QED
  BY <1>1, <1>2 DEF Modest

\* A request that goes on with another label.
LEMMA GoesOn ==
  ASSUME TypeOK, NEW s \in Sessions, NEW new, sess' = [sess EXCEPT ![s] = new],
         new.pc # "convert",
         \A j \in Issues : new.pend[j] # NoRow => sess[s].pend[j] # NoRow
  PROVE  Modest(s)
<1>1. \A o \in Sessions : sess'[o] = IF o = s THEN new ELSE sess[o]
  BY DEF TypeOK
<1> QED
  BY <1>1 DEF Modest

LEMMA RequestModest ==
  ASSUME TypeOK, NEW s \in Sessions, Request(s), ~Converting(s)
  PROVE  Modest(s)
<1>0. \A j \in Issues : Idle.pend[j] = NoRow
  BY DEF Idle, NoCache
<1>1. ASSUME NEW i \in Issues, NEW p \in Patches, BeginUpdate(s, i, p)
      PROVE  Modest(s)
  <2> DEFINE new == [Idle EXCEPT !.pc = "check", !.todo = {i}, !.patch = p,
                       !.cache = [NoCache EXCEPT ![i] = db[i]]]
  <2>1. sess' = [sess EXCEPT ![s] = new]
    BY <1>1 DEF BeginUpdate
  <2>2. new.pc = "check" /\ new.pend = Idle.pend
    BY DEF Idle
  <2> HIDE DEF new
  <2> QED
    BY <1>0, <2>1, <2>2, GoesOn
<1>2. ASSUME NEW f \in Filters, NEW p \in Patches, BeginBatch(s, f, p)
      PROVE  Modest(s)
  <2> DEFINE new == [Idle EXCEPT !.pc = "check", !.todo = Matching(f), !.patch = p,
                       !.cache = [i \in Issues |-> IF i \in Matching(f) THEN db[i] ELSE NoRow]]
  <2>1. sess' = [sess EXCEPT ![s] = new]
    BY <1>2 DEF BeginBatch
  <2>2. new.pc = "check" /\ new.pend = Idle.pend
    BY DEF Idle
  <2> HIDE DEF new
  <2> QED
    BY <1>0, <2>1, <2>2, GoesOn
<1>3. ASSUME NEW items \in NewItems, BeginCreate(s, items)
      PROVE  Modest(s)
  <2> DEFINE new == [Idle EXCEPT !.pc = "item", !.items = items, !.batch = Len(items) > 1]
  <2>1. sess' = [sess EXCEPT ![s] = new]
    BY <1>3 DEF BeginCreate
  <2>2. new.pc = "item" /\ new.pend = Idle.pend
    BY DEF Idle
  <2> HIDE DEF new
  <2> QED
    BY <1>0, <2>1, <2>2, GoesOn
<1>4. ASSUME NEW i \in Issues, BeginDelete(s, i)
      PROVE  Modest(s)
  <2> DEFINE new == [Idle EXCEPT !.pc = "count", !.item = i]
  <2>1. sess' = [sess EXCEPT ![s] = new]
    BY <1>4 DEF BeginDelete
  <2>2. new.pc = "count" /\ new.pend = Idle.pend
    BY DEF Idle
  <2> HIDE DEF new
  <2> QED
    BY <1>0, <2>1, <2>2, GoesOn
<1>5. ASSUME NEW q \in Projects, CreateProject(s, q)
      PROVE  Modest(s)
  BY <1>5 DEF CreateProject, Begin, At, Modest
<1>6. ASSUME NEW q \in Projects, BeginDeleteProject(s, q)
      PROVE  Modest(s)
  <2> DEFINE new == [Idle EXCEPT !.pc = "count_issues", !.item = q]
  <2>1. sess' = [sess EXCEPT ![s] = new]
    BY <1>6 DEF BeginDeleteProject
  <2>2. new.pc = "count_issues" /\ new.pend = Idle.pend
    BY DEF Idle
  <2> HIDE DEF new
  <2> QED
    BY <1>0, <2>1, <2>2, GoesOn
<1> QED
  BY <1>1, <1>2, <1>3, <1>4, <1>5, <1>6 DEF Request, Converting

LEMMA PatchModest ==
  ASSUME TypeOK, NEW s \in Sessions,
         \/ \E i \in Issues : AcceptPatch(s, i)
         \/ EvaluateRules(s) \/ CommitUpdate(s) \/ ReadSiblings(s) \/ ReadParent(s)
         \/ FlagParent(s) \/ Refresh(s)
  PROVE  Modest(s)
<1> DEFINE me == sess[s]
<1>0. me \in SessionState
  BY DEF TypeOK
<1> USE DEF SessionState
<1>1. ASSUME NEW i \in Issues, AcceptPatch(s, i) PROVE Modest(s)
  <2> DEFINE new == [me EXCEPT !.pc = "rules", !.item = i, !.todo = @ \ {i},
                       !.to = TargetState(me.cache[i], me.patch),
                       !.triggers = TriggersOf(me.cache[i], me.patch), !.fired = {}]
  <2>1. sess' = [sess EXCEPT ![s] = new]
    BY <1>1 DEF AcceptPatch
  <2>2. new.pc = "rules" /\ new.pend = me.pend
    BY <1>0
  <2> HIDE DEF new
  <2> QED
    BY <2>1, <2>2, GoesOn
<1>2. CASE EvaluateRules(s)
  <2> DEFINE ctx == UpdateContext(me.cache[me.item], me.to)
             new == [me EXCEPT
                !.triggers = Tail(@),
                !.fired = @ \cup Fired(Rules, Head(me.triggers), ctx, CommittedRows),
                !.pc = IF Len(me.triggers) = 1 THEN "write" ELSE "rules"]
  <2>1. sess' = [sess EXCEPT ![s] = new] \/ End(s)
    BY <1>2 DEF EvaluateRules
  <2>2. new.pc \in {"write", "rules"} /\ new.pend = me.pend
    BY <1>0
  <2> HIDE DEF new
  <2> QED
    BY <2>1, <2>2, GoesOn, EndModest
<1>3. CASE CommitUpdate(s)
  <2> DEFINE new == [me EXCEPT !.cache[me.item] = Final(me),
                       !.pc = IF me.to # None /\ Terminal(me.to) /\ Final(me).parent # None
                              THEN "siblings" ELSE "refresh"]
  <2>1. sess' = [sess EXCEPT ![s] = new]
    BY <1>3 DEF CommitUpdate
  <2>2. new.pc \in {"siblings", "refresh"} /\ new.pend = me.pend
    BY <1>0
  <2> HIDE DEF new
  <2> QED
    BY <2>1, <2>2, GoesOn
<1>4. CASE ReadSiblings(s)
  <2>1. PICK pc \in {"parent", "refresh"} : sess' = [sess EXCEPT ![s].pc = pc]
    BY <1>4 DEF ReadSiblings
  <2> DEFINE new == [me EXCEPT !.pc = pc]
  <2>2. sess' = [sess EXCEPT ![s] = new]
    BY <2>1
  <2>3. new.pc = pc /\ new.pend = me.pend
    BY <1>0
  <2> HIDE DEF new
  <2> QED
    BY <2>2, <2>3, GoesOn
<1>5. CASE ReadParent(s)
  <2> DEFINE p == ParentOf(me)
             new == IF ~Exists(p) THEN [me EXCEPT !.pc = "refresh"]
                    ELSE [me EXCEPT !.pc = "flag",
                      !.seen = IF me.cache[p] # NoRow THEN me.cache[p].triage ELSE db[p].triage]
  <2>1. sess' = [sess EXCEPT ![s] = new]
    BY <1>5 DEF ReadParent
  <2>2. new.pc \in {"refresh", "flag"} /\ new.pend = me.pend
    BY <1>0
  <2> HIDE DEF new
  <2> QED
    BY <2>1, <2>2, GoesOn
<1>6. CASE FlagParent(s)
  <2> DEFINE new == [me EXCEPT !.pc = "refresh",
                   !.cache[ParentOf(me)] = IF @ = NoRow THEN NoRow
                                ELSE [@ EXCEPT !.triage = me.seen \cup {Flag}]]
  <2>1. sess' = [sess EXCEPT ![s] = new] \/ End(s)
    BY <1>6 DEF FlagParent
  <2>2. new.pc = "refresh" /\ new.pend = me.pend
    BY <1>0
  <2> HIDE DEF new
  <2> QED
    BY <2>1, <2>2, GoesOn, EndModest
<1>7. CASE Refresh(s)
  <2> DEFINE new == [me EXCEPT
                !.pc = "check", !.item = None, !.to = None, !.fired = {}, !.seen = {},
                !.cache[me.item] = db[me.item]]
  <2>1. sess' = [sess EXCEPT ![s] = new] \/ End(s)
    BY <1>7 DEF Refresh
  <2>2. new.pc = "check" /\ new.pend = me.pend
    BY <1>0
  <2> HIDE DEF new
  <2> QED
    BY <2>1, <2>2, GoesOn, EndModest
<1> QED
  BY <1>1, <1>2, <1>3, <1>4, <1>5, <1>6, <1>7

LEMMA CreateModest ==
  ASSUME IInv, NEW s \in Sessions, ValidateItem(s) \/ EvaluateCreated(s) \/ CountActiveChildren(s)
                                       \/ CountIssues(s)
  PROVE  Modest(s)
<1> DEFINE me == sess[s]
<1>0. me \in SessionState /\ TypeOK
  BY DEF IInv, TypeOK
<1> USE DEF SessionState
<1>1. ASSUME NEW pc \in Labels \ {"convert"}, sess' = [sess EXCEPT ![s].pc = pc] PROVE Modest(s)
  <2> DEFINE new == [me EXCEPT !.pc = pc]
  <2>1. sess' = [sess EXCEPT ![s] = new]
    BY <1>1
  <2>2. new.pc = pc /\ new.pend = me.pend
    BY <1>0
  <2> HIDE DEF new
  <2> QED
    BY <1>0, <2>1, <2>2, GoesOn
<1>2. ASSUME DropItem(s) PROVE Modest(s)
  <2> DEFINE new == [me EXCEPT
             !.pc = NextItem(me), !.items = Tail(@), !.item = None,
             !.pend = [i \in Issues |-> IF i = me.item THEN NoRow ELSE @[i]]]
  <2>1. sess' = [sess EXCEPT ![s] = new] \/ End(s)
    BY <1>2 DEF DropItem
  <2>2. /\ new.pc \in {"item", "commit"}
        /\ \A j \in Issues : new.pend[j] = IF j = me.item THEN NoRow ELSE me.pend[j]
    BY <1>0 DEF NextItem
  <2> HIDE DEF new
  <2> QED
    BY <1>0, <2>1, <2>2, GoesOn, EndModest
<1>3. CASE ValidateItem(s)
  BY <1>1, <1>2, <1>3 DEF ValidateItem, Labels
<1>4. CASE CountActiveChildren(s)
  BY <1>0, <1>1, <1>4, EndModest DEF CountActiveChildren, Labels
<1>5. CASE CountIssues(s)
  BY <1>0, <1>1, <1>5, EndModest DEF CountIssues, Labels
<1>6. CASE EvaluateCreated(s)
  <2> DEFINE row == me.pend[me.item]
             fired == Fired(Rules, "issue.created", CreateContext(row), RowsWith(me.pend))
             new == [me EXCEPT
                     !.pc = NextItem(me), !.items = Tail(@), !.item = None,
                     !.pend[me.item] = ApplyEffects(row, fired),
                     !.notes = IF Notifies(fired) THEN @ \cup {me.item} ELSE @]
  <2>1. sess' = [sess EXCEPT ![s] = new] \/ End(s) \/ DropItem(s)
    BY <1>6 DEF EvaluateCreated
  <2>2. /\ new.pc \in {"item", "commit"}
        /\ \A j \in Issues : new.pend[j] = IF j = me.item THEN ApplyEffects(row, fired) ELSE me.pend[j]
    BY <1>0 DEF NextItem
  <2>3. me.item \in Issues /\ me.pend[me.item] # NoRow
    BY <1>6 DEF IInv, Local, EvaluateCreated, At
  <2> HIDE DEF new
  <2> QED
    BY <1>0, <1>2, <2>1, <2>2, <2>3, GoesOn, EndModest
<1> QED
  BY <1>3, <1>4, <1>5, <1>6

\* Every step of a request but the INSERT and the start of a conversion.
LEMMA StepModest ==
  ASSUME IInv, NEW s \in Sessions, Acting(s), ~Inserting(s), ~Converting(s)
  PROVE  Modest(s)
<1>1. ASSUME End(s) PROVE Modest(s)
  BY <1>1, EndModest DEF IInv
<1>2. CASE Request(s)
  BY <1>2, RequestModest DEF IInv
<1>3. CASE Proceed(s)
  <2>1. CASE \/ \E i \in Issues : RefusePatch(s, i)
             \/ FailUpdate(s) \/ FailInsert(s) \/ CommitCreate(s) \/ CommitDelete(s)
             \/ \E q \in Projects : CommitConvert(s, q)
             \/ CommitDeleteProject(s)
    BY <1>1, <2>1 DEF RefusePatch, FailUpdate, FailInsert, CommitCreate, CommitDelete,
       CommitConvert, CommitDeleteProject
  <2> QED
    BY <1>3, <2>1, PatchModest, CreateModest DEF Proceed, IInv, Inserting
<1> QED
  BY <1>2, <1>3 DEF Acting

-----------------------------------------------------------------------------
(* What steps do to the table of issues.                                   *)

\* The only steps that change it.
LEMMA WhoWrites ==
  ASSUME NEW s \in Sessions, Acting(s)
  PROVE  \/ db' = db
         \/ CommitUpdate(s) \/ FlagParent(s) \/ CommitCreate(s) \/ CommitDelete(s)
         \/ \E q \in Projects : CommitConvert(s, q)
<1>1. CASE Request(s)
  BY <1>1 DEF Request, BeginUpdate, BeginBatch, BeginCreate, BeginDelete, CreateProject,
     BeginConvert, BeginDeleteProject, tables
<1>2. CASE Proceed(s)
  BY <1>2 DEF Proceed, AcceptPatch, RefusePatch, EvaluateRules, FailUpdate, ReadSiblings,
     ReadParent, Refresh, ValidateItem, Insert, FailInsert, EvaluateCreated,
     CountActiveChildren, CountIssues, CommitDeleteProject, tables
<1> QED
  BY <1>1, <1>2 DEF Acting

\* Only a create adds rows.
LEMMA RowsFrom ==
  ASSUME IInv, NEW s \in Sessions, Acting(s), NEW j \in Issues, db'[j] # NoRow
  PROVE  db[j] # NoRow \/ (CommitCreate(s) /\ sess[s].pend[j] # NoRow)
<1>0. db \in [Issues -> Row \cup {NoRow}]
  BY DEF IInv, TypeOK
<1>1. CASE CommitUpdate(s)
  BY <1>0, <1>1 DEF CommitUpdate, Exists
<1>2. CASE FlagParent(s)
  BY <1>0, <1>2 DEF FlagParent, Exists
<1>3. CASE CommitCreate(s)
  BY <1>3 DEF CommitCreate, Inserted
<1>4. CASE CommitDelete(s)
  BY <1>0, <1>4 DEF CommitDelete, Deleted
<1>5. ASSUME NEW q \in Projects, CommitConvert(s, q) PROVE db[j] # NoRow
  BY <1>0, <1>5 DEF CommitConvert, Exists
<1> QED
  BY <1>1, <1>2, <1>3, <1>4, <1>5, WhoWrites

-----------------------------------------------------------------------------
(* What is pending stays apart.                                            *)

LEMMA PendApartStep == IInv /\ PendApart /\ [Next]_vars => PendApart'
<1> SUFFICES ASSUME IInv, PendApart, [Next]_vars PROVE PendApart'
  OBVIOUS
<1>1. ASSUME NEW s \in Sessions, Acting(s) PROVE PendApart'
  <2>0. sess \in [Sessions -> SessionState]
    BY DEF IInv, TypeOK
  <2>1. ASSUME NEW i \in Issues, Insert(s, i) PROVE PendApart'
    <3>1. /\ \A o \in Sessions \ {s} : sess'[o] = sess[o]
          /\ \A j \in Issues \ {i} : sess'[s].pend[j] = sess[s].pend[j]
          /\ db' = db /\ i \notin minted
      BY <2>0, <2>1 DEF Insert, SessionState
    <3>2. db[i] = NoRow /\ \A o \in Sessions : sess[o].pend[i] = NoRow
      BY <3>1 DEF IInv, TableInv, PendInv, Exists
    <3> QED
      BY <3>1, <3>2 DEF PendApart
  <2>2. ASSUME NEW i \in Issues, BeginConvert(s, i) PROVE PendApart'
    <3>1. /\ \A o \in Sessions \ {s} : sess'[o] = sess[o]
          /\ sess'[s].pend = NoCache /\ db' = db
      BY <2>0, <2>2 DEF BeginConvert, Idle, tables
    <3> QED
      BY <3>1 DEF PendApart, NoCache
  <2>3. CASE CommitCreate(s)
    <3>1. \A o \in Sessions \ {s} : sess'[o] = sess[o]
      BY <2>0, <2>3 DEF CommitCreate, End
    <3>2. \A j \in Issues : sess'[s].pend[j] = NoRow
      BY <2>0, <2>3 DEF CommitCreate, End, Idle, NoCache
    <3>3. \A j \in Issues : db'[j] # NoRow => db[j] # NoRow \/ sess[s].pend[j] # NoRow
      BY <1>1, RowsFrom
    <3> QED
      BY <3>1, <3>2, <3>3 DEF PendApart
  <2>4. CASE ~Inserting(s) /\ ~Converting(s) /\ ~CommitCreate(s)
    <3>1. Modest(s) /\ \A j \in Issues : db'[j] # NoRow => db[j] # NoRow
      BY <1>1, <2>4, StepModest, RowsFrom
    <3> QED
      BY <3>1 DEF PendApart, Modest
  <2> QED
    BY <2>1, <2>2, <2>3, <2>4 DEF Inserting, Converting
<1>2. CASE Crash
  BY <1>2 DEF Crash, tables, PendApart, Idle, NoCache
<1>3. CASE UNCHANGED vars
  BY <1>3 DEF vars, PendApart
<1> QED
  BY <1>1, <1>2, <1>3 DEF Next, Acting

LEMMA PendAlwaysApart == Spec => [](IInv /\ PendApart)
<1>1. Init => PendApart
  BY DEF Init, PendApart, Idle, NoCache
<1>2. IInv /\ PendApart /\ [Next]_vars => (IInv /\ PendApart)'
  BY IInvStep, PendApartStep
<1> QED
  BY <1>1, <1>2, IInvInit, PTL DEF Spec

-----------------------------------------------------------------------------
(* Only named columns are written.                                         *)

\* A column whose value the effects change is one that a rule sets.
LEMMA EffectNamed ==
  ASSUME NEW row \in Row, NEW fired \in SUBSET Rules, NEW c \in Columns,
         ApplyEffects(row, fired)[c] # row[c]
  PROVE  \E r \in fired : c \in DOMAIN r.sets
BY ColumnsOfRow DEF ApplyEffects, LastSetter

\* What an UPDATE sends, its patch or a rule that fired names.
LEMMA WrittenNamed ==
  ASSUME IInv, NEW s \in Sessions, At(s, "write"), NEW c \in Written(sess[s])
  PROVE  c \in DOMAIN sess[s].patch \/ \E r \in sess[s].fired : c \in DOMAIN r.sets
<1> DEFINE me == sess[s]
<1>1. /\ me.cache[me.item] \in Row /\ IsPatch(me.patch) /\ me.fired \in SUBSET Rules
      /\ c \in Columns
  BY OfSession, PatchType DEF At, Local, SessionState, Written, Changed
<1>2. Mutated(me) \in Row
  BY <1>1, PatchedRow DEF Mutated
<1>3. CASE c \in Changed(me.cache[me.item], Mutated(me))
  BY <1>1, <1>3 DEF Changed, Mutated, Patched
<1>4. CASE c \in Changed(Mutated(me), Final(me))
  BY <1>1, <1>2, <1>4, EffectNamed DEF Changed, Final
<1> QED
  BY <1>3, <1>4 DEF Written

\* What a committed update leaves of the row, column by column.
LEMMA UpdateColumns ==
  ASSUME IInv, NEW s \in Sessions, CommitUpdate(s), NEW i \in Issues, Exists(i), NEW c \in Columns
  PROVE  /\ db'[i][c] = IF i = sess[s].item /\ c \in Written(sess[s])
                        THEN Final(sess[s])[c] ELSE db[i][c]
         /\ trail'[i][c] = IF /\ i = sess[s].item
                              /\ c \in Changed(sess[s].cache[i], Mutated(sess[s]))
                           THEN Mutated(sess[s])[c] ELSE trail[i][c]
<1>1. db \in [Issues -> Row \cup {NoRow}] /\ trail \in [Issues -> Row \cup {NoRow}]
  BY DEF IInv, TypeOK
<1>2. CASE i = sess[s].item
  BY <1>1, <1>2 DEF CommitUpdate, Overwrite, Logged
<1>3. CASE i # sess[s].item
  BY <1>1, <1>3 DEF CommitUpdate
<1> QED
  BY <1>2, <1>3

\* The rollup changes one column of one row.
LEMMA FlagColumns ==
  ASSUME IInv, NEW s \in Sessions, FlagParent(s), NEW i \in Issues, Exists(i), NEW c \in Columns,
         i # ParentOf(sess[s]) \/ c # "triage"
  PROVE  db'[i][c] = db[i][c]
<1>1. db \in [Issues -> Row \cup {NoRow}] /\ db[i] \in Row
  BY DEF IInv, TypeOK, Exists
<1>2. CASE db' = db
  BY <1>2
<1>3. CASE db' = [db EXCEPT ![ParentOf(sess[s])].triage = {Flag}]
  BY <1>1, <1>3, ColumnsOfRow DEF Columns
<1> QED
  BY <1>2, <1>3 DEF FlagParent

\* So does a conversion.
LEMMA ConvertColumns ==
  ASSUME IInv, NEW s \in Sessions, NEW q \in Projects, CommitConvert(s, q), NEW i \in Issues,
         Exists(i), NEW c \in Columns, i # sess[s].item \/ c # "project"
  PROVE  db'[i][c] = db[i][c]
<1>1. db \in [Issues -> Row \cup {NoRow}] /\ db[i] \in Row
  BY DEF IInv, TypeOK, Exists
<1>2. CASE db' = db
  BY <1>2
<1>3. CASE db' = [db EXCEPT ![sess[s].item].project = q]
  BY <1>1, <1>3, ColumnsOfRow DEF Columns
<1> QED
  BY <1>2, <1>3 DEF CommitConvert

\* However stale the copies that requests hold, no request writes a column
\* that neither its patch nor a rule names.
THEOREM OnlyNamedColumnsWritten == Spec => StaleColumnsNeverWritten
<1> DEFINE Names(i, c) ==
      \E s \in Sessions :
        \/ /\ At(s, "write") /\ sess[s].item = i
           /\ \/ c \in DOMAIN sess[s].patch
              \/ \E r \in sess[s].fired : c \in DOMAIN r.sets
        \/ At(s, "flag") /\ ParentOf(sess[s]) = i /\ c = "triage"
        \/ At(s, "convert") /\ sess[s].item = i /\ c = "project"
      Named == \A i \in Issues, c \in Columns :
        db[i] # NoRow /\ db'[i] # NoRow /\ db[i][c] # db'[i][c] => Names(i, c)
<1>1. IInv /\ PendApart /\ [Next]_vars => Named
  <2> SUFFICES ASSUME IInv, PendApart, [Next]_vars, NEW i \in Issues, NEW c \in Columns,
                      db[i] # NoRow, db'[i] # NoRow, db[i][c] # db'[i][c]
               PROVE  Names(i, c)
    OBVIOUS
  <2>0. Exists(i)
    BY DEF Exists
  <2>1. PICK s \in Sessions : Acting(s)
    BY DEF Next, Crash, vars, tables, Acting
  <2>2. CASE CommitUpdate(s)
    <3>1. At(s, "write")
      BY <2>2 DEF CommitUpdate
    <3>2. db'[i][c] = IF i = sess[s].item /\ c \in Written(sess[s])
                      THEN Final(sess[s])[c] ELSE db[i][c]
      BY <2>0, <2>2, UpdateColumns
    <3>3. i = sess[s].item /\ c \in Written(sess[s])
      BY <3>2
    <3> QED
      BY <3>1, <3>3, WrittenNamed
  <2>3. CASE FlagParent(s)
    BY <2>0, <2>3, FlagColumns DEF FlagParent
  <2>4. CASE CommitCreate(s)
    BY <2>4 DEF CommitCreate, Inserted, PendApart
  <2>5. CASE CommitDelete(s)
    BY <2>5 DEF CommitDelete, Deleted, IInv, TypeOK
  <2>6. ASSUME NEW q \in Projects, CommitConvert(s, q) PROVE Names(i, c)
    BY <2>0, <2>6, ConvertColumns DEF CommitConvert
  <2> QED
    BY <2>1, <2>2, <2>3, <2>4, <2>5, <2>6, WhoWrites
<1>2. StaleColumnsNeverWritten <=> [][Named]_vars
  BY DEF StaleColumnsNeverWritten
<1> HIDE DEF Named
<1> QED
  BY <1>1, <1>2, PendAlwaysApart, PTL DEF Spec

-----------------------------------------------------------------------------
(* The audit log.                                                          *)

\* No rule sets a column, and no issue is converted.
Plain == "convert" \notin Ops /\ \A r \in Rules : DOMAIN r.sets = {}

NoneConverts == \A s \in Sessions : sess[s].pc # "convert"

\* Without effects, what is logged is what is written.
LEMMA UpdateTracks ==
  ASSUME IInv, Plain, AuditTracksRows, NEW s \in Sessions, CommitUpdate(s)
  PROVE  AuditTracksRows'
<1>1. \A c \in Columns : Final(sess[s])[c] = Mutated(sess[s])[c]
  <2> DEFINE me == sess[s]
  <2>1. me.cache[me.item] \in Row /\ IsPatch(me.patch) /\ me.fired \in SUBSET Rules
    BY OfSession, PatchType DEF CommitUpdate, At, Local, SessionState
  <2>2. Mutated(me) \in Row
    BY <2>1, PatchedRow DEF Mutated
  <2> QED
    BY <2>1, <2>2, EffectNamed DEF Plain, Final
<1>2. Written(sess[s]) = Changed(sess[s].cache[sess[s].item], Mutated(sess[s]))
  BY <1>1 DEF Written, Changed
<1>3. ASSUME NEW i \in Issues, db'[i] # NoRow PROVE Exists(i)
  BY <1>3, RowsFrom DEF Acting, Proceed, CommitUpdate, CommitCreate, At, Exists
<1>4. ASSUME NEW i \in Issues, Exists(i), NEW c \in Columns \ {"triage"}
      PROVE  trail'[i][c] = db'[i][c]
  BY <1>1, <1>2, <1>4, UpdateColumns DEF AuditTracksRows
<1> QED
  BY <1>3, <1>4 DEF AuditTracksRows, Exists

LEMMA TracksStep ==
  IInv /\ Plain /\ NoneConverts /\ AuditTracksRows /\ [Next]_vars =>
    (NoneConverts /\ AuditTracksRows)'
<1> SUFFICES ASSUME IInv, Plain, NoneConverts, AuditTracksRows, [Next]_vars
             PROVE  NoneConverts' /\ AuditTracksRows'
  OBVIOUS
<1>1. ASSUME NEW s \in Sessions, Acting(s) PROVE NoneConverts'
  <2>1. ~Converting(s)
    BY DEF Plain, Converting, BeginConvert, Begin
  <2>2. ASSUME NEW i \in Issues, Insert(s, i) PROVE NoneConverts'
    BY <2>2 DEF Insert, NoneConverts, IInv, TypeOK, SessionState
  <2> QED
    BY <1>1, <2>1, <2>2, StepModest DEF NoneConverts, Modest, Inserting
<1>2. ASSUME NEW s \in Sessions, Acting(s) PROVE AuditTracksRows'
  <2>1. CASE FlagParent(s)
    <3>1. trail' = trail /\ \A i \in Issues : db'[i] # NoRow => Exists(i)
      BY <1>2, <2>1, RowsFrom DEF FlagParent, CommitCreate, At, Exists
    <3> QED
      BY <2>1, <3>1, FlagColumns DEF AuditTracksRows, Exists
  <2>2. CASE CommitCreate(s)
    BY <2>2 DEF CommitCreate, Inserted, AuditTracksRows, Exists
  <2>3. CASE CommitDelete(s)
    BY <2>3 DEF CommitDelete, Deleted, AuditTracksRows, Exists, IInv, TypeOK
  <2>4. ASSUME NEW q \in Projects PROVE ~CommitConvert(s, q)
    BY DEF CommitConvert, At, NoneConverts
  <2>5. CASE db' = db /\ ~CommitUpdate(s) /\ ~CommitCreate(s)
    <3>1. trail' = trail
      BY <1>2, <2>5, <2>4 DEF Acting, Request, BeginUpdate, BeginBatch, BeginCreate, BeginDelete,
         CreateProject, BeginConvert, BeginDeleteProject, tables, Proceed, AcceptPatch,
         RefusePatch, EvaluateRules, FailUpdate, ReadSiblings, ReadParent, FlagParent, Refresh,
         ValidateItem, Insert, FailInsert, EvaluateCreated, CountActiveChildren, CommitDelete,
         CountIssues, CommitDeleteProject
    <3> QED
      BY <2>5, <3>1 DEF AuditTracksRows, Exists
  <2> QED
    BY <1>2, <2>1, <2>2, <2>3, <2>4, <2>5, UpdateTracks, WhoWrites
<1>3. CASE Crash
  BY <1>3 DEF Crash, tables, NoneConverts, AuditTracksRows, Exists, Idle
<1>4. CASE UNCHANGED vars
  BY <1>4 DEF vars, NoneConverts, AuditTracksRows, Exists
<1> QED
  BY <1>1, <1>2, <1>3, <1>4 DEF Next, Acting

\* As long as rules do not set columns and no issue is converted, which leave
\* no entry, whoever replays the audit log of an issue gets the row, however
\* stale the copies that the diffs are computed from.
THEOREM LogTracksRows == ASSUME Plain PROVE Spec => []AuditTracksRows
<1>1. Init => NoneConverts /\ AuditTracksRows
  BY DEF Init, Idle, NoneConverts, AuditTracksRows, Exists
<1>2. IInv /\ NoneConverts /\ AuditTracksRows /\ [Next]_vars =>
        (IInv /\ NoneConverts /\ AuditTracksRows)'
  BY IInvStep, TracksStep
<1> QED
  BY <1>1, <1>2, IInvInit, PTL DEF Spec

-----------------------------------------------------------------------------
(* Requests served one at a time: the session's copies are fresh.          *)

OneAtATime == \A s, o \in Sessions : s = o

\* No rule moves an issue.
RulesMoveNothing == \A r \in Rules : "state" \notin DOMAIN r.sets

\* The states a request has read are those stored, and the move it is about
\* to commit was allowed for them.
Fresh(me, table) ==
  /\ \A i \in me.todo : table[i] # NoRow /\ me.cache[i].state = table[i].state
  /\ me.pc \in {"rules", "write"} =>
       /\ me.item \notin me.todo
       /\ table[me.item] # NoRow => me.cache[me.item].state = table[me.item].state
       /\ MoveAllowed(me.cache[me.item], me.patch)

AllFresh == \A s \in Sessions : Fresh(sess[s], db)

LEMMA FreshIdle ==
  ASSUME TypeOK, OneAtATime, NEW s \in Sessions, End(s)
  PROVE  AllFresh'
<1>1. sess'[s] = Idle /\ Idle.pc = "idle" /\ Idle.todo = {}
  BY DEF TypeOK, End, Idle
<1> QED
  BY <1>1 DEF OneAtATime, AllFresh, Fresh

LEMMA FreshOn ==
  ASSUME TypeOK, OneAtATime, NEW s \in Sessions, NEW new, sess' = [sess EXCEPT ![s] = new],
         Fresh(new, db')
  PROVE  AllFresh'
<1>1. \A o \in Sessions : sess'[o] = new
  BY DEF TypeOK, OneAtATime
<1> QED
  BY <1>1 DEF AllFresh

\* A request with nothing left to do, and not about to write.
LEMMA FreshWithout ==
  ASSUME TypeOK, OneAtATime, NEW s \in Sessions, NEW new, sess' = [sess EXCEPT ![s] = new],
         new.pc \notin {"rules", "write"}, new.todo = {}
  PROVE  AllFresh'
BY FreshOn DEF Fresh

LEMMA FreshRequest ==
  ASSUME IInv, OneAtATime, AllFresh, NEW s \in Sessions, Request(s)
  PROVE  AllFresh'
<1>0. TypeOK /\ Idle.todo = {}
  BY DEF IInv, Idle
<1>1. ASSUME NEW i \in Issues, NEW p \in Patches, BeginUpdate(s, i, p)
      PROVE  AllFresh'
  <2> DEFINE new == [Idle EXCEPT !.pc = "check", !.todo = {i}, !.patch = p,
                       !.cache = [NoCache EXCEPT ![i] = db[i]]]
  <2>1. sess' = [sess EXCEPT ![s] = new] /\ db[i] # NoRow /\ db' = db
    BY <1>1 DEF BeginUpdate, Exists, tables
  <2>2. new.pc = "check" /\ new.todo = {i} /\ new.cache[i] = db[i]
    BY DEF Idle, NoCache
  <2> HIDE DEF new
  <2>3. Fresh(new, db')
    BY <2>1, <2>2 DEF Fresh
  <2> QED
    BY <1>0, <2>1, <2>3, FreshOn
<1>2. ASSUME NEW f \in Filters, NEW p \in Patches, BeginBatch(s, f, p)
      PROVE  AllFresh'
  <2> DEFINE new == [Idle EXCEPT !.pc = "check", !.todo = Matching(f), !.patch = p,
                       !.cache = [i \in Issues |-> IF i \in Matching(f) THEN db[i] ELSE NoRow]]
  <2>1. sess' = [sess EXCEPT ![s] = new] /\ db' = db
    BY <1>2 DEF BeginBatch, tables
  <2>2. /\ new.pc = "check" /\ new.todo = Matching(f)
        /\ \A i \in Matching(f) : db[i] # NoRow /\ new.cache[i] = db[i]
    BY DEF Idle, Matching, Exists
  <2> HIDE DEF new
  <2>3. Fresh(new, db')
    BY <2>1, <2>2 DEF Fresh
  <2> QED
    BY <1>0, <2>1, <2>3, FreshOn
<1>3. ASSUME NEW items \in NewItems, BeginCreate(s, items)
      PROVE  AllFresh'
  <2> DEFINE new == [Idle EXCEPT !.pc = "item", !.items = items, !.batch = Len(items) > 1]
  <2>1. sess' = [sess EXCEPT ![s] = new]
    BY <1>3 DEF BeginCreate
  <2>2. new.pc = "item" /\ new.todo = Idle.todo
    BY DEF Idle
  <2> HIDE DEF new
  <2> QED
    BY <1>0, <2>1, <2>2, FreshWithout
<1>4. ASSUME NEW pc \in {"count", "convert", "count_issues"}, NEW x,
             sess' = [sess EXCEPT ![s] = [Idle EXCEPT !.pc = pc, !.item = x]]
      PROVE  AllFresh'
  <2> DEFINE new == [Idle EXCEPT !.pc = pc, !.item = x]
  <2>1. sess' = [sess EXCEPT ![s] = new]
    BY <1>4
  <2>2. new.pc = pc /\ new.todo = Idle.todo
    BY DEF Idle
  <2> HIDE DEF new
  <2> QED
    BY <1>0, <2>1, <2>2, FreshWithout
<1>5. ASSUME NEW q \in Projects, CreateProject(s, q) PROVE AllFresh'
  BY <1>5 DEF CreateProject, AllFresh, Fresh
<1>6. CASE \/ \E i \in Issues : BeginDelete(s, i) \/ BeginConvert(s, i)
           \/ \E q \in Projects : BeginDeleteProject(s, q)
  BY <1>4, <1>6 DEF BeginDelete, BeginConvert, BeginDeleteProject
<1> QED
  BY <1>1, <1>2, <1>3, <1>5, <1>6 DEF Request

\* A request that goes on and has read nothing new.
LEMMA FreshAsBefore ==
  ASSUME AllFresh, NEW s \in Sessions, NEW new, db' = db,
         new.todo = sess[s].todo, new.cache = sess[s].cache, new.item = sess[s].item,
         new.patch = sess[s].patch,
         new.pc \in {"rules", "write"} => sess[s].pc \in {"rules", "write"}
  PROVE  Fresh(new, db')
BY DEF AllFresh, Fresh

LEMMA FreshRead ==
  ASSUME IInv, OneAtATime, AllFresh, NEW s \in Sessions,
         \/ \E i \in Issues : AcceptPatch(s, i)
         \/ EvaluateRules(s) \/ ReadSiblings(s) \/ ReadParent(s) \/ Refresh(s)
  PROVE  AllFresh'
<1> DEFINE me == sess[s]
<1>0. me \in SessionState /\ Local(me) /\ Fresh(me, db) /\ TypeOK
  BY OfSession DEF AllFresh, IInv
<1> USE DEF SessionState
<1>1. ASSUME NEW i \in Issues, AcceptPatch(s, i) PROVE AllFresh'
  <2> DEFINE new == [me EXCEPT !.pc = "rules", !.item = i, !.todo = @ \ {i},
                       !.to = TargetState(me.cache[i], me.patch),
                       !.triggers = TriggersOf(me.cache[i], me.patch), !.fired = {}]
  <2>1. /\ sess' = [sess EXCEPT ![s] = new] /\ db' = db /\ i \in me.todo
        /\ MoveAllowed(me.cache[i], me.patch)
    BY <1>1 DEF AcceptPatch, Acceptable, tables
  <2>2. /\ new.pc = "rules" /\ new.item = i /\ new.todo = me.todo \ {i}
        /\ new.cache = me.cache /\ new.patch = me.patch
    BY <1>0
  <2> HIDE DEF new
  <2>3. Fresh(new, db')
    BY <1>0, <2>1, <2>2 DEF Fresh
  <2> QED
    BY <1>0, <2>1, <2>3, FreshOn
<1>2. CASE EvaluateRules(s)
  <2> DEFINE ctx == UpdateContext(me.cache[me.item], me.to)
             new == [me EXCEPT
                !.triggers = Tail(@),
                !.fired = @ \cup Fired(Rules, Head(me.triggers), ctx, CommittedRows),
                !.pc = IF Len(me.triggers) = 1 THEN "write" ELSE "rules"]
  <2>1. (sess' = [sess EXCEPT ![s] = new] \/ End(s)) /\ db' = db /\ me.pc = "rules"
    BY <1>2 DEF EvaluateRules, At, tables
  <2>2. new.todo = me.todo /\ new.cache = me.cache /\ new.item = me.item /\ new.patch = me.patch
    BY <1>0
  <2> HIDE DEF new
  <2>3. Fresh(new, db')
    BY <2>1, <2>2, FreshAsBefore
  <2> QED
    BY <1>0, <2>1, <2>3, FreshOn, FreshIdle
<1>3. CASE ReadSiblings(s)
  <2>1. PICK pc \in {"parent", "refresh"} : sess' = [sess EXCEPT ![s].pc = pc]
    BY <1>3 DEF ReadSiblings
  <2> DEFINE new == [me EXCEPT !.pc = pc]
  <2>2. sess' = [sess EXCEPT ![s] = new] /\ db' = db
    BY <1>3, <2>1 DEF ReadSiblings, tables
  <2>3. /\ new.todo = me.todo /\ new.cache = me.cache /\ new.item = me.item
        /\ new.patch = me.patch /\ new.pc = pc
    BY <1>0
  <2> HIDE DEF new
  <2>4. Fresh(new, db')
    BY <2>2, <2>3, FreshAsBefore
  <2> QED
    BY <1>0, <2>2, <2>4, FreshOn
<1>4. CASE ReadParent(s)
  <2> DEFINE p == ParentOf(me)
             new == IF ~Exists(p) THEN [me EXCEPT !.pc = "refresh"]
                    ELSE [me EXCEPT !.pc = "flag",
                      !.seen = IF me.cache[p] # NoRow THEN me.cache[p].triage ELSE db[p].triage]
  <2>1. sess' = [sess EXCEPT ![s] = new] /\ db' = db
    BY <1>4 DEF ReadParent, tables
  <2>2. /\ new.todo = me.todo /\ new.cache = me.cache /\ new.item = me.item
        /\ new.patch = me.patch /\ new.pc \in {"refresh", "flag"}
    BY <1>0
  <2> HIDE DEF new
  <2>3. Fresh(new, db')
    BY <2>1, <2>2, FreshAsBefore
  <2> QED
    BY <1>0, <2>1, <2>3, FreshOn
<1>5. CASE Refresh(s)
  <2> DEFINE new == [me EXCEPT
                !.pc = "check", !.item = None, !.to = None, !.fired = {}, !.seen = {},
                !.cache[me.item] = db[me.item]]
  <2>1. (sess' = [sess EXCEPT ![s] = new] \/ End(s)) /\ db' = db
    BY <1>5 DEF Refresh, tables
  <2>2. /\ new.pc = "check" /\ new.todo = me.todo
        /\ \A i \in Issues : new.cache[i] = IF i = me.item THEN db[i] ELSE me.cache[i]
    BY <1>0
  <2> HIDE DEF new
  <2>3. Fresh(new, db')
    BY <1>0, <2>1, <2>2 DEF Fresh
  <2> QED
    BY <1>0, <2>1, <2>3, FreshOn, FreshIdle
<1> QED
  BY <1>1, <1>2, <1>3, <1>4, <1>5

LEMMA FreshAside ==
  ASSUME AllFresh, NEW s \in Sessions, NEW new, new.pc \notin {"rules", "write"},
         new.todo = sess[s].todo, new.cache = sess[s].cache, db' = db
  PROVE  Fresh(new, db')
BY DEF AllFresh, Fresh

\* A create does not look at what was read before; nor does a delete.
LEMMA FreshCreate ==
  ASSUME IInv, OneAtATime, AllFresh, NEW s \in Sessions,
         \/ ValidateItem(s) \/ EvaluateCreated(s) \/ CountActiveChildren(s) \/ CountIssues(s)
         \/ \E i \in Issues : Insert(s, i)
  PROVE  AllFresh'
<1> DEFINE me == sess[s]
<1>0. me \in SessionState /\ TypeOK /\ db' = db
  BY OfSession DEF IInv, ValidateItem, EvaluateCreated, CountActiveChildren, CountIssues, Insert,
     tables
<1> USE DEF SessionState
<1>1. ASSUME NEW pc \in Labels \ {"rules", "write"}, sess' = [sess EXCEPT ![s].pc = pc]
      PROVE  AllFresh'
  <2> DEFINE new == [me EXCEPT !.pc = pc]
  <2>1. sess' = [sess EXCEPT ![s] = new]
    BY <1>1
  <2>2. new.pc = pc /\ new.todo = me.todo /\ new.cache = me.cache
    BY <1>0
  <2> HIDE DEF new
  <2>3. Fresh(new, db')
    BY <1>0, <1>1, <2>2, FreshAside
  <2> QED
    BY <1>0, <2>1, <2>3, FreshOn
<1>2. ASSUME DropItem(s) PROVE AllFresh'
  <2> DEFINE new == [me EXCEPT
             !.pc = NextItem(me), !.items = Tail(@), !.item = None,
             !.pend = [i \in Issues |-> IF i = me.item THEN NoRow ELSE @[i]]]
  <2>1. sess' = [sess EXCEPT ![s] = new] \/ End(s)
    BY <1>2 DEF DropItem
  <2>2. new.pc \in {"item", "commit"} /\ new.todo = me.todo /\ new.cache = me.cache
    BY <1>0 DEF NextItem
  <2> HIDE DEF new
  <2>3. Fresh(new, db')
    BY <1>0, <2>2, FreshAside
  <2> QED
    BY <1>0, <2>1, <2>3, FreshOn, FreshIdle
<1>3. CASE ValidateItem(s)
  BY <1>1, <1>2, <1>3 DEF ValidateItem, Labels
<1>4. CASE CountActiveChildren(s)
  BY <1>0, <1>1, <1>4, FreshIdle DEF CountActiveChildren, Labels
<1>5. CASE CountIssues(s)
  BY <1>0, <1>1, <1>5, FreshIdle DEF CountIssues, Labels
<1>6. ASSUME NEW i \in Issues, Insert(s, i) PROVE AllFresh'
  <2> DEFINE new == [me EXCEPT !.pc = "created", !.item = i, !.pend[i] = Head(me.items)]
  <2>1. sess' = [sess EXCEPT ![s] = new]
    BY <1>0, <1>6 DEF Insert
  <2>2. new.pc = "created" /\ new.todo = me.todo /\ new.cache = me.cache
    BY <1>0
  <2> HIDE DEF new
  <2>3. Fresh(new, db')
    BY <1>0, <2>2, FreshAside
  <2> QED
    BY <1>0, <2>1, <2>3, FreshOn
<1>7. CASE EvaluateCreated(s)
  <2> DEFINE row == me.pend[me.item]
             fired == Fired(Rules, "issue.created", CreateContext(row), RowsWith(me.pend))
             new == [me EXCEPT
                     !.pc = NextItem(me), !.items = Tail(@), !.item = None,
                     !.pend[me.item] = ApplyEffects(row, fired),
                     !.notes = IF Notifies(fired) THEN @ \cup {me.item} ELSE @]
  <2>1. sess' = [sess EXCEPT ![s] = new] \/ End(s) \/ DropItem(s)
    BY <1>7 DEF EvaluateCreated
  <2>2. new.pc \in {"item", "commit"} /\ new.todo = me.todo /\ new.cache = me.cache
    BY <1>0 DEF NextItem
  <2> HIDE DEF new
  <2>3. Fresh(new, db')
    BY <1>0, <2>2, FreshAside
  <2> QED
    BY <1>0, <1>2, <2>1, <2>3, FreshOn, FreshIdle
<1> QED
  BY <1>3, <1>4, <1>5, <1>6, <1>7

\* A commit changes the state of the issue it is about, which is done with.
LEMMA FreshCommit ==
  ASSUME IInv, OneAtATime, AllFresh, NEW s \in Sessions, CommitUpdate(s)
  PROVE  AllFresh'
<1> DEFINE me == sess[s]
           new == [me EXCEPT !.cache[me.item] = Final(me),
                       !.pc = IF me.to # None /\ Terminal(me.to) /\ Final(me).parent # None
                              THEN "siblings" ELSE "refresh"]
<1>0. me \in SessionState /\ Fresh(me, db) /\ TypeOK
  BY OfSession DEF AllFresh, IInv
<1>1. sess' = [sess EXCEPT ![s] = new] /\ me.pc = "write"
  BY DEF CommitUpdate, At
<1>2. /\ new.pc \in {"siblings", "refresh"} /\ new.todo = me.todo
      /\ \A i \in Issues \ {me.item} : new.cache[i] = me.cache[i]
  BY <1>0 DEF SessionState
<1>3. \A i \in Issues \ {me.item} : db'[i] = db[i]
  BY DEF CommitUpdate, IInv, TypeOK
<1>4. me.todo \subseteq Issues \ {me.item}
  BY <1>0, <1>1 DEF Fresh, SessionState
<1> HIDE DEF new
<1>5. Fresh(new, db')
  BY <1>0, <1>2, <1>3, <1>4 DEF Fresh
<1> QED
  BY <1>0, <1>1, <1>5, FreshOn

\* The rollup leaves states alone.
LEMMA FreshFlag ==
  ASSUME IInv, OneAtATime, AllFresh, NEW s \in Sessions, FlagParent(s)
  PROVE  AllFresh'
<1> DEFINE me == sess[s]
           p == ParentOf(me)
           new == [me EXCEPT !.pc = "refresh",
                   !.cache[p] = IF @ = NoRow THEN NoRow
                                ELSE [@ EXCEPT !.triage = me.seen \cup {Flag}]]
<1>0. me \in SessionState /\ Local(me) /\ Fresh(me, db) /\ TypeOK
  BY OfSession DEF AllFresh, IInv
<1>1. sess' = [sess EXCEPT ![s] = new] \/ End(s)
  BY DEF FlagParent
<1>2. /\ new.pc = "refresh" /\ new.todo = me.todo
      /\ \A i \in Issues : new.cache[i] =
           IF i # p THEN me.cache[i]
           ELSE IF me.cache[p] = NoRow THEN NoRow
                ELSE [me.cache[p] EXCEPT !.triage = me.seen \cup {Flag}]
  BY <1>0 DEF SessionState
<1>3. \A i \in Issues : me.cache[i] # NoRow => new.cache[i].state = me.cache[i].state
  BY <1>0, <1>2 DEF SessionState, Row
<1>4. ASSUME NEW i \in me.todo
      PROVE  db'[i] # NoRow /\ new.cache[i].state = db'[i].state
  <2>1. i \in Issues /\ me.cache[i] # NoRow /\ Exists(i) /\ me.cache[i].state = db[i].state
    BY <1>0 DEF SessionState, Local, Fresh, Exists
  <2>2. db'[i]["state"] = db[i]["state"]
    BY <2>1, FlagColumns DEF Columns
  <2>3. db'[i] # NoRow
    <3>1. CASE db' = db
      BY <2>1, <3>1 DEF Exists
    <3>2. CASE db' = [db EXCEPT ![p].triage = {Flag}]
      <4>1. db[i] \in Row /\ db \in [Issues -> Row \cup {NoRow}]
        BY <1>0, <2>1 DEF TypeOK, Exists
      <4>2. db'[i] = IF i = p THEN [db[i] EXCEPT !.triage = {Flag}] ELSE db[i]
        BY <2>1, <3>2, <4>1
      <4>3. [db[i] EXCEPT !.triage = {Flag}] \in Row
        BY <4>1, FlagAssumption DEF Row
      <4> QED
        BY <4>1, <4>2, <4>3, NullAssumption
    <3> QED
      BY <3>1, <3>2 DEF FlagParent
  <2> QED
    BY <1>3, <2>1, <2>2, <2>3
<1> HIDE DEF new
<1>5. Fresh(new, db')
  BY <1>2, <1>4 DEF Fresh
<1> QED
  BY <1>0, <1>1, <1>5, FreshOn, FreshIdle

LEMMA FreshStep == OneAtATime /\ IInv /\ AllFresh /\ [Next]_vars => AllFresh'
<1> SUFFICES ASSUME OneAtATime, IInv, AllFresh, [Next]_vars PROVE AllFresh'
  OBVIOUS
<1>1. ASSUME NEW s \in Sessions, End(s) PROVE AllFresh'
  BY <1>1, FreshIdle DEF IInv
<1>2. ASSUME NEW s \in Sessions, Proceed(s) PROVE AllFresh'
  <2>1. CASE \/ \E i \in Issues : RefusePatch(s, i)
             \/ FailUpdate(s) \/ FailInsert(s) \/ CommitCreate(s) \/ CommitDelete(s)
             \/ \E q \in Projects : CommitConvert(s, q)
             \/ CommitDeleteProject(s)
    BY <1>1, <2>1 DEF RefusePatch, FailUpdate, FailInsert, CommitCreate, CommitDelete,
       CommitConvert, CommitDeleteProject
  <2> QED
    BY <1>2, <2>1, FreshRead, FreshCreate, FreshCommit, FreshFlag DEF Proceed
<1>3. CASE Crash
  BY <1>3 DEF Crash, AllFresh, Fresh, Idle
<1>4. CASE UNCHANGED vars
  BY <1>4 DEF vars, AllFresh, Fresh
<1> QED
  BY <1>2, <1>3, <1>4, FreshRequest DEF Next

\* A commit moves its issue from the state it was judged by, along the state
\* machine.
LEMMA CommitMoves ==
  ASSUME IInv, AllFresh, RulesMoveNothing, NEW s \in Sessions, CommitUpdate(s),
         NEW i \in Issues, Exists(i)
  PROVE  IsValidTransition(TypeOf[db[i].state], TypeOf[db'[i].state])
<1> DEFINE me == sess[s]
           row == me.cache[me.item]
<1>0. /\ At(s, "write") /\ row \in Row /\ IsPatch(me.patch) /\ me.fired \in SUBSET Rules
      /\ Fresh(me, db)
  BY OfSession, PatchType DEF CommitUpdate, At, Local, SessionState, AllFresh
<1>1. db'[i]["state"] = IF i = me.item /\ "state" \in Written(me)
                        THEN Final(me)["state"] ELSE db[i]["state"]
  BY UpdateColumns DEF Columns
<1>2. CASE ~(i = me.item /\ "state" \in Written(me))
  BY <1>1, <1>2 DEF IsValidTransition
<1>3. CASE i = me.item /\ "state" \in Written(me)
  <2>1. row.state = db[i].state /\ MoveAllowed(row, me.patch)
    BY <1>0, <1>3 DEF Fresh, At, Exists
  <2>2. Mutated(me) \in Row
    BY <1>0, PatchedRow DEF Mutated
  <2>3. Final(me)["state"] = Mutated(me)["state"]
    BY <1>0, <2>2, EffectNamed DEF Final, RulesMoveNothing, Columns
  <2>4. Mutated(me)["state"] = IF "state" \in DOMAIN me.patch THEN me.patch["state"] ELSE row.state
    BY DEF Mutated, Patched, Columns
  <2>5. CASE "state" \in DOMAIN me.patch /\ me.patch["state"] # row.state
    <3>1. me.patch["state"] # None
      BY <1>0, <2>5, NullAssumption DEF IsPatch
    <3> QED
      BY <1>1, <1>3, <2>1, <2>3, <2>4, <2>5, <3>1 DEF MoveAllowed, TargetState
  <2>6. CASE ~("state" \in DOMAIN me.patch /\ me.patch["state"] # row.state)
    BY <1>1, <1>3, <2>1, <2>3, <2>4, <2>6 DEF IsValidTransition
  <2> QED
    BY <2>5, <2>6
<1> QED
  BY <1>2, <1>3

\* Requests that do not overlap move issues only along the state machine, when
\* no rule moves any: the state a move is judged by is the stored one.
THEOREM MovesStayValid ==
  ASSUME OneAtATime, RulesMoveNothing PROVE Spec => OnlyValidMoves
<1> DEFINE Valid == \A i \in Issues : db[i] # NoRow /\ db'[i] # NoRow =>
                      IsValidTransition(TypeOf[db[i].state], TypeOf[db'[i].state])
<1>1. IInv /\ PendApart /\ AllFresh /\ [Next]_vars => Valid
  <2> SUFFICES ASSUME IInv, PendApart, AllFresh, [Next]_vars, NEW i \in Issues,
                      db[i] # NoRow, db'[i] # NoRow
               PROVE  IsValidTransition(TypeOf[db[i].state], TypeOf[db'[i].state])
    OBVIOUS
  <2>0. Exists(i) /\ "state" \in Columns
    BY DEF Exists, Columns
  <2>1. CASE db'[i]["state"] = db[i]["state"]
    BY <2>1 DEF IsValidTransition
  <2>2. CASE db'[i]["state"] # db[i]["state"]
    <3>1. PICK s \in Sessions : Acting(s)
      BY <2>2 DEF Next, Crash, vars, tables, Acting
    <3>2. CASE CommitUpdate(s)
      BY <2>0, <3>2, CommitMoves
    <3>3. CASE FlagParent(s)
      BY <2>0, <2>2, <3>3, FlagColumns
    <3>4. CASE CommitCreate(s)
      BY <2>2, <3>4 DEF CommitCreate, Inserted, PendApart
    <3>5. CASE CommitDelete(s)
      BY <2>2, <3>5 DEF CommitDelete, Deleted, IInv, TypeOK
    <3>6. ASSUME NEW q \in Projects, CommitConvert(s, q) PROVE FALSE
      BY <2>0, <2>2, <3>6, ConvertColumns
    <3> QED
      BY <2>2, <3>1, <3>2, <3>3, <3>4, <3>5, <3>6, WhoWrites
  <2> QED
    BY <2>1, <2>2
<1>2. OnlyValidMoves <=> [][Valid]_vars
  BY DEF OnlyValidMoves
<1>3. Init => AllFresh
  BY DEF Init, AllFresh, Fresh, Idle
<1>4. Spec => []AllFresh
  <2>1. IInv /\ AllFresh /\ [Next]_vars => AllFresh'
    BY FreshStep
  <2> QED
    BY <1>3, <2>1, Invariance, PTL DEF Spec
<1> HIDE DEF Valid
<1> QED
  BY <1>1, <1>2, <1>4, PendAlwaysApart, PTL DEF Spec
=============================================================================
