----------------------------- MODULE BoardProofs ------------------------------
(***************************************************************************)
(* What the requests of Issues do to the board of issues as a whole: when  *)
(* the rollup cannot be lost, when a rule that counts keeps its limit, and *)
(* that requests served one at a time implement the board of IssueBoard.   *)
(***************************************************************************)
EXTENDS UpdateProofs, MCIssues, FiniteSetTheorems

-----------------------------------------------------------------------------
(* What a step leaves of the request that takes it, field by field.        *)

LEMMA IdleFields ==
  /\ Idle.pc = "idle" /\ Idle.todo = {} /\ Idle.items = << >> /\ Idle.seen = {}
  /\ Idle.item = None /\ Idle.to = None
  /\ \A j \in Issues : Idle.cache[j] = NoRow /\ Idle.pend[j] = NoRow
BY DEF Idle, NoCache

\* A step of one request leaves the others as they are.
LEMMA OthersKeep ==
  ASSUME IInv, NEW s \in Sessions, Acting(s), NEW o \in Sessions \ {s}
  PROVE  sess'[o] = sess[o]
<1>0. sess \in [Sessions -> SessionState]
  BY DEF IInv, TypeOK
<1>1. CASE Inserting(s)
  BY <1>0, <1>1 DEF Inserting, Insert
<1>2. CASE Converting(s)
  BY <1>0, <1>2 DEF Converting, BeginConvert
<1>3. CASE ~Inserting(s) /\ ~Converting(s)
  BY <1>3, StepModest DEF Modest
<1> QED
  BY <1>1, <1>2, <1>3

\* The request is replaced by what the step makes of it.
LEMMA Becomes ==
  ASSUME IInv, NEW s \in Sessions, NEW new, sess' = [sess EXCEPT ![s] = new]
  PROVE  sess'[s] = new
BY DEF IInv, TypeOK

LEMMA Ended ==
  ASSUME IInv, NEW s \in Sessions, End(s)
  PROVE  sess'[s] = Idle
BY Becomes DEF End

LEMMA Relabelled ==
  ASSUME IInv, NEW s \in Sessions, NEW pc \in Labels, sess' = [sess EXCEPT ![s].pc = pc]
  PROVE  /\ sess'[s].pc = pc
         /\ sess'[s].todo = sess[s].todo /\ sess'[s].item = sess[s].item
         /\ sess'[s].patch = sess[s].patch /\ sess'[s].cache = sess[s].cache
         /\ sess'[s].to = sess[s].to /\ sess'[s].triggers = sess[s].triggers
         /\ sess'[s].fired = sess[s].fired /\ sess'[s].seen = sess[s].seen
         /\ sess'[s].items = sess[s].items /\ sess'[s].pend = sess[s].pend
BY DEF IInv, TypeOK, SessionState

LEMMA BeginUpdateFields ==
  ASSUME IInv, NEW s \in Sessions, NEW i \in Issues, NEW p \in Patches, BeginUpdate(s, i, p)
  PROVE  /\ sess'[s].pc = "check" /\ sess'[s].todo = {i} /\ sess'[s].patch = p
         /\ \A j \in Issues : sess'[s].cache[j] = IF j = i THEN db[i] ELSE NoRow
         /\ sess'[s].items = Idle.items /\ sess'[s].pend = Idle.pend
         /\ Exists(i) /\ UNCHANGED tables
<1> DEFINE new == [Idle EXCEPT !.pc = "check", !.todo = {i}, !.patch = p,
                     !.cache = [NoCache EXCEPT ![i] = db[i]]]
<1>1. sess' = [sess EXCEPT ![s] = new] /\ Exists(i) /\ UNCHANGED tables
  BY DEF BeginUpdate
<1>2. /\ new.pc = "check" /\ new.todo = {i} /\ new.patch = p
      /\ new.cache = [NoCache EXCEPT ![i] = db[i]]
      /\ new.items = Idle.items /\ new.pend = Idle.pend
  BY DEF Idle
<1> HIDE DEF new
<1>3. sess'[s] = new
  BY <1>1, Becomes
<1> QED
  BY <1>1, <1>2, <1>3 DEF NoCache

LEMMA BeginBatchFields ==
  ASSUME IInv, NEW s \in Sessions, NEW f \in Filters, NEW p \in Patches, BeginBatch(s, f, p)
  PROVE  /\ sess'[s].pc = "check" /\ sess'[s].todo = Matching(f) /\ sess'[s].patch = p
         /\ \A j \in Issues : sess'[s].cache[j] = IF j \in Matching(f) THEN db[j] ELSE NoRow
         /\ sess'[s].items = Idle.items /\ sess'[s].pend = Idle.pend
         /\ UNCHANGED tables
<1> DEFINE cache == [i \in Issues |-> IF i \in Matching(f) THEN db[i] ELSE NoRow]
           new == [Idle EXCEPT !.pc = "check", !.todo = Matching(f), !.patch = p, !.cache = cache]
<1>1. sess' = [sess EXCEPT ![s] = new] /\ UNCHANGED tables
  BY DEF BeginBatch
<1>2. /\ new.pc = "check" /\ new.todo = Matching(f) /\ new.patch = p /\ new.cache = cache
      /\ new.items = Idle.items /\ new.pend = Idle.pend
  BY DEF Idle
<1> HIDE DEF new
<1>3. sess'[s] = new
  BY <1>1, Becomes
<1> QED
  BY <1>1, <1>2, <1>3

LEMMA BeginCreateFields ==
  ASSUME IInv, NEW s \in Sessions, NEW items \in NewItems, BeginCreate(s, items)
  PROVE  /\ sess'[s].pc = "item" /\ sess'[s].items = items /\ sess'[s].todo = {}
         /\ sess'[s].pend = Idle.pend /\ sess'[s].cache = Idle.cache
         /\ UNCHANGED tables
<1> DEFINE new == [Idle EXCEPT !.pc = "item", !.items = items, !.batch = Len(items) > 1]
<1>1. sess' = [sess EXCEPT ![s] = new] /\ UNCHANGED tables
  BY DEF BeginCreate
<1>2. /\ new.pc = "item" /\ new.items = items /\ new.todo = {}
      /\ new.pend = Idle.pend /\ new.cache = Idle.cache
  BY DEF Idle
<1> HIDE DEF new
<1>3. sess'[s] = new
  BY <1>1, Becomes
<1> QED
  BY <1>1, <1>2, <1>3

\* The requests that only note what they are about.
BeginOther(s) ==
  \/ \E i \in Issues : BeginDelete(s, i) \/ BeginConvert(s, i)
  \/ \E q \in Projects : BeginDeleteProject(s, q)

LEMMA BeginOtherFields ==
  ASSUME IInv, NEW s \in Sessions, BeginOther(s)
  PROVE  /\ \/ sess'[s].pc = "count" /\ "delete" \in Ops
            \/ sess'[s].pc \in {"convert", "count_issues"}
         /\ sess'[s].items = << >> /\ sess'[s].todo = {}
         /\ sess'[s].pend = Idle.pend /\ sess'[s].cache = Idle.cache
         /\ UNCHANGED tables
<1>1. ASSUME NEW pc, NEW x, sess' = [sess EXCEPT ![s] = [Idle EXCEPT !.pc = pc, !.item = x]]
      PROVE  /\ sess'[s].pc = pc /\ sess'[s].items = << >> /\ sess'[s].todo = {}
             /\ sess'[s].pend = Idle.pend /\ sess'[s].cache = Idle.cache
  <2> DEFINE new == [Idle EXCEPT !.pc = pc, !.item = x]
  <2>1. sess' = [sess EXCEPT ![s] = new]
    BY <1>1
  <2>2. /\ new.pc = pc /\ new.items = << >> /\ new.todo = {}
        /\ new.pend = Idle.pend /\ new.cache = Idle.cache
    BY DEF Idle
  <2> HIDE DEF new
  <2>3. sess'[s] = new
    BY <2>1, Becomes
  <2> QED
    BY <2>2, <2>3
<1> QED
  BY <1>1 DEF BeginOther, BeginDelete, BeginConvert, BeginDeleteProject, Begin

LEMMA AcceptFields ==
  ASSUME IInv, NEW s \in Sessions, NEW i \in Issues, AcceptPatch(s, i)
  PROVE  /\ sess[s].pc = "check" /\ i \in sess[s].todo
         /\ Acceptable(i, sess[s].cache[i], sess[s].patch)
         /\ sess'[s].pc = "rules" /\ sess'[s].item = i /\ sess'[s].todo = sess[s].todo \ {i}
         /\ sess'[s].to = TargetState(sess[s].cache[i], sess[s].patch)
         /\ sess'[s].triggers = TriggersOf(sess[s].cache[i], sess[s].patch)
         /\ sess'[s].fired = {} /\ sess'[s].patch = sess[s].patch
         /\ sess'[s].cache = sess[s].cache /\ sess'[s].items = sess[s].items
         /\ sess'[s].pend = sess[s].pend /\ UNCHANGED tables
<1> DEFINE me == sess[s]
           to == TargetState(me.cache[i], me.patch)
           triggers == TriggersOf(me.cache[i], me.patch)
           new == [me EXCEPT !.pc = "rules", !.item = i, !.todo = @ \ {i},
                     !.to = to, !.triggers = triggers, !.fired = {}]
<1>1. /\ sess' = [sess EXCEPT ![s] = new] /\ me.pc = "check" /\ i \in me.todo
      /\ Acceptable(i, me.cache[i], me.patch) /\ UNCHANGED tables
  BY DEF AcceptPatch, At
<1>2. me \in SessionState
  BY OfSession
<1> HIDE DEF to, triggers, me
<1>3. /\ new.pc = "rules" /\ new.item = i /\ new.todo = me.todo \ {i} /\ new.to = to
      /\ new.triggers = triggers /\ new.fired = {} /\ new.patch = me.patch
      /\ new.cache = me.cache /\ new.items = me.items /\ new.pend = me.pend
  BY <1>2 DEF SessionState
<1> HIDE DEF new
<1>4. sess'[s] = new
  BY <1>1, Becomes DEF me
<1> QED
  BY <1>1, <1>3, <1>4 DEF me, to, triggers

LEMMA EvaluateFields ==
  ASSUME IInv, NEW s \in Sessions, EvaluateRules(s), sess'[s] # Idle
  PROVE  /\ sess[s].pc = "rules"
         /\ Allowed(Rules, Head(sess[s].triggers),
                    UpdateContext(sess[s].cache[sess[s].item], sess[s].to), CommittedRows)
         /\ sess'[s].pc = IF Len(sess[s].triggers) = 1 THEN "write" ELSE "rules"
         /\ sess'[s].triggers = Tail(sess[s].triggers)
         /\ sess'[s].todo = sess[s].todo /\ sess'[s].item = sess[s].item
         /\ sess'[s].patch = sess[s].patch /\ sess'[s].cache = sess[s].cache
         /\ sess'[s].to = sess[s].to /\ sess'[s].items = sess[s].items
         /\ sess'[s].pend = sess[s].pend /\ UNCHANGED tables
<1> DEFINE me == sess[s]
           ctx == UpdateContext(me.cache[me.item], me.to)
           trigger == Head(me.triggers)
           fired == Fired(Rules, trigger, ctx, CommittedRows)
           pc == IF Len(me.triggers) = 1 THEN "write" ELSE "rules"
           new == [me EXCEPT !.triggers = Tail(@), !.fired = @ \cup fired, !.pc = pc]
<1>1. /\ \/ Allowed(Rules, trigger, ctx, CommittedRows) /\ sess' = [sess EXCEPT ![s] = new]
         \/ End(s)
      /\ me.pc = "rules" /\ UNCHANGED tables
  BY DEF EvaluateRules, At
<1>2. Allowed(Rules, trigger, ctx, CommittedRows) /\ sess' = [sess EXCEPT ![s] = new]
  BY <1>1, Ended
<1>3. me \in SessionState
  BY OfSession
<1> HIDE DEF ctx, trigger, fired, pc, me
<1>4. /\ new.pc = pc /\ new.triggers = Tail(me.triggers)
      /\ new.todo = me.todo /\ new.item = me.item /\ new.patch = me.patch
      /\ new.cache = me.cache /\ new.to = me.to /\ new.items = me.items /\ new.pend = me.pend
  BY <1>3 DEF SessionState
<1> HIDE DEF new
<1>5. sess'[s] = new
  BY <1>2, Becomes DEF me
<1> QED
  BY <1>1, <1>2, <1>4, <1>5 DEF me, ctx, trigger, pc

LEMMA CommitUpdateFields ==
  ASSUME IInv, NEW s \in Sessions, CommitUpdate(s)
  PROVE  /\ sess[s].pc = "write" /\ sess[s].item \in Issues
         /\ sess'[s].pc = IF /\ sess[s].to # None /\ Terminal(sess[s].to)
                             /\ Final(sess[s]).parent # None
                          THEN "siblings" ELSE "refresh"
         /\ \A j \in Issues : sess'[s].cache[j] =
              IF j = sess[s].item THEN Final(sess[s]) ELSE sess[s].cache[j]
         /\ sess'[s].todo = sess[s].todo /\ sess'[s].item = sess[s].item
         /\ sess'[s].patch = sess[s].patch /\ sess'[s].to = sess[s].to
         /\ sess'[s].seen = sess[s].seen
         /\ sess'[s].items = sess[s].items /\ sess'[s].pend = sess[s].pend
<1> DEFINE me == sess[s]
           pc == IF me.to # None /\ Terminal(me.to) /\ Final(me).parent # None
                 THEN "siblings" ELSE "refresh"
           new == [me EXCEPT !.cache[me.item] = Final(me), !.pc = pc]
<1>1. sess' = [sess EXCEPT ![s] = new] /\ me.pc = "write"
  BY DEF CommitUpdate, At
<1>2. me \in SessionState /\ me.item \in Issues
  BY <1>1, OfSession DEF Local
<1> HIDE DEF pc, me
<1>3. /\ new.pc = pc /\ new.cache = [me.cache EXCEPT ![me.item] = Final(me)]
      /\ new.todo = me.todo /\ new.item = me.item /\ new.patch = me.patch /\ new.to = me.to
      /\ new.seen = me.seen
      /\ new.items = me.items /\ new.pend = me.pend
  BY <1>2 DEF SessionState
<1>4. \A j \in Issues : [me.cache EXCEPT ![me.item] = Final(me)][j] =
        IF j = me.item THEN Final(me) ELSE me.cache[j]
  BY <1>2 DEF SessionState
<1> HIDE DEF new
<1>5. sess'[s] = new
  BY <1>1, Becomes DEF me
<1> QED
  BY <1>1, <1>2, <1>3, <1>4, <1>5 DEF me, pc

\* Which of the siblings are done is read, and nothing else.
LEMMA SiblingsFields ==
  ASSUME IInv, NEW s \in Sessions, ReadSiblings(s)
  PROVE  /\ sess[s].pc = "siblings"
         /\ sess'[s].pc = IF /\ Siblings(sess[s]) # {}
                             /\ \A j \in Siblings(sess[s]) : SiblingDone(sess[s], j)
                          THEN "parent" ELSE "refresh"
         /\ sess'[s].todo = sess[s].todo /\ sess'[s].item = sess[s].item
         /\ sess'[s].patch = sess[s].patch /\ sess'[s].cache = sess[s].cache
         /\ sess'[s].items = sess[s].items /\ sess'[s].pend = sess[s].pend
         /\ UNCHANGED tables
<1> DEFINE pc == IF /\ Siblings(sess[s]) # {}
                    /\ \A j \in Siblings(sess[s]) : SiblingDone(sess[s], j)
                 THEN "parent" ELSE "refresh"
<1>1. sess' = [sess EXCEPT ![s].pc = pc] /\ sess[s].pc = "siblings" /\ UNCHANGED tables
  BY DEF ReadSiblings, At
<1>2. pc \in Labels
  BY DEF Labels
<1> HIDE DEF pc
<1>3. /\ sess'[s].pc = pc
      /\ sess'[s].todo = sess[s].todo /\ sess'[s].item = sess[s].item
      /\ sess'[s].patch = sess[s].patch /\ sess'[s].cache = sess[s].cache
      /\ sess'[s].items = sess[s].items /\ sess'[s].pend = sess[s].pend
  BY <1>1, <1>2, Relabelled
<1> QED
  BY <1>1, <1>3 DEF pc

LEMMA ParentFields ==
  ASSUME IInv, NEW s \in Sessions, ReadParent(s)
  PROVE  LET p == ParentOf(sess[s])
         IN  /\ sess[s].pc = "parent"
             /\ sess'[s].pc = IF Exists(p) THEN "flag" ELSE "refresh"
             /\ Exists(p) => sess'[s].seen = IF sess[s].cache[p] # NoRow
                                             THEN sess[s].cache[p].triage ELSE db[p].triage
             /\ sess'[s].todo = sess[s].todo /\ sess'[s].item = sess[s].item
             /\ sess'[s].patch = sess[s].patch /\ sess'[s].cache = sess[s].cache
             /\ sess'[s].items = sess[s].items /\ sess'[s].pend = sess[s].pend
             /\ UNCHANGED tables
<1> DEFINE me == sess[s]
           p == ParentOf(me)
           seen == IF me.cache[p] # NoRow THEN me.cache[p].triage ELSE db[p].triage
           new == IF ~Exists(p) THEN [me EXCEPT !.pc = "refresh"]
                  ELSE [me EXCEPT !.pc = "flag", !.seen = seen]
<1>1. sess' = [sess EXCEPT ![s] = new] /\ me.pc = "parent" /\ UNCHANGED tables
  BY DEF ReadParent, At
<1>2. me \in SessionState
  BY OfSession
<1> HIDE DEF me, p, seen
<1>3. /\ new.pc = IF Exists(p) THEN "flag" ELSE "refresh"
      /\ Exists(p) => new.seen = seen
      /\ new.todo = me.todo /\ new.item = me.item /\ new.patch = me.patch
      /\ new.cache = me.cache /\ new.items = me.items /\ new.pend = me.pend
  BY <1>2 DEF SessionState
<1> HIDE DEF new
<1>4. sess'[s] = new
  BY <1>1, Becomes DEF me
<1> QED
  BY <1>1, <1>3, <1>4 DEF me, p, seen

LEMMA FlagFields ==
  ASSUME IInv, NEW s \in Sessions, FlagParent(s)
  PROVE  /\ sess[s].pc = "flag"
         /\ \/ sess'[s] = Idle /\ db' = db
            \/ /\ sess[s].seen = {} => Exists(ParentOf(sess[s]))
               /\ db' = IF sess[s].seen = {} THEN [db EXCEPT ![ParentOf(sess[s])].triage = {Flag}]
                        ELSE db
               /\ sess'[s].pc = "refresh"
               /\ \A j \in Issues :
                    /\ sess'[s].cache[j] = NoRow <=> sess[s].cache[j] = NoRow
                    /\ sess[s].cache[j] # NoRow =>
                         /\ sess'[s].cache[j].state = sess[s].cache[j].state
                         /\ sess'[s].cache[j].parent = sess[s].cache[j].parent
                         /\ sess'[s].cache[j].assignee = sess[s].cache[j].assignee
               /\ sess'[s].todo = sess[s].todo /\ sess'[s].item = sess[s].item
               /\ sess'[s].patch = sess[s].patch
               /\ sess'[s].items = sess[s].items /\ sess'[s].pend = sess[s].pend
<1> DEFINE me == sess[s]
           p == ParentOf(me)
           row == IF me.cache[p] = NoRow THEN NoRow
                  ELSE [me.cache[p] EXCEPT !.triage = me.seen \cup {Flag}]
           new == [me EXCEPT !.pc = "refresh", !.cache[p] = row]
<1>1. /\ \/ End(s) /\ db' = db
         \/ /\ me.seen = {} => Exists(p)
            /\ db' = IF me.seen = {} THEN [db EXCEPT ![p].triage = {Flag}] ELSE db
            /\ sess' = [sess EXCEPT ![s] = new]
      /\ me.pc = "flag"
  BY DEF FlagParent, At
<1>2. me \in SessionState
  BY OfSession
<1> HIDE DEF me, p
<1>3. ASSUME NEW j \in Issues
      PROVE  LET cache == [me.cache EXCEPT ![p] = row]
             IN  /\ cache[j] = NoRow <=> me.cache[j] = NoRow
                 /\ me.cache[j] # NoRow => /\ cache[j].state = me.cache[j].state
                                           /\ cache[j].parent = me.cache[j].parent
                                           /\ cache[j].assignee = me.cache[j].assignee
  <2>1. me.cache \in [Issues -> Row \cup {NoRow}] /\ me.seen \cup {Flag} \in SUBSET TriageKeys
    BY <1>2, FlagAssumption DEF SessionState
  <2>2. ASSUME me.cache[j] # NoRow, NEW t \in SUBSET TriageKeys
        PROVE  LET r == [me.cache[j] EXCEPT !.triage = t]
               IN  /\ r \in Row /\ r.state = me.cache[j].state /\ r.parent = me.cache[j].parent
                   /\ r.assignee = me.cache[j].assignee
    BY <2>1, <2>2 DEF Row
  <2>3. CASE j = p
    BY <2>1, <2>2, <2>3, NullAssumption
  <2>4. CASE j # p
    BY <2>1, <2>4
  <2> QED
    BY <2>3, <2>4
<1> HIDE DEF row
<1>4. /\ new.pc = "refresh" /\ new.cache = [me.cache EXCEPT ![p] = row]
      /\ new.todo = me.todo /\ new.item = me.item /\ new.patch = me.patch
      /\ new.items = me.items /\ new.pend = me.pend
  BY <1>2 DEF SessionState
<1> HIDE DEF new
<1>5. CASE End(s) /\ db' = db
  BY <1>1, <1>5, Ended DEF me
<1>6. CASE /\ me.seen = {} => Exists(p)
           /\ db' = IF me.seen = {} THEN [db EXCEPT ![p].triage = {Flag}] ELSE db
           /\ sess' = [sess EXCEPT ![s] = new]
  <2>1. sess'[s] = new
    BY <1>6, Becomes DEF me
  <2>2. /\ sess'[s].pc = "refresh" /\ sess'[s].cache = [me.cache EXCEPT ![p] = row]
        /\ sess'[s].todo = me.todo /\ sess'[s].item = me.item /\ sess'[s].patch = me.patch
        /\ sess'[s].items = me.items /\ sess'[s].pend = me.pend
    BY <1>4, <2>1
  <2>3. \A j \in Issues :
          /\ sess'[s].cache[j] = NoRow <=> me.cache[j] = NoRow
          /\ me.cache[j] # NoRow => /\ sess'[s].cache[j].state = me.cache[j].state
                                    /\ sess'[s].cache[j].parent = me.cache[j].parent
                                    /\ sess'[s].cache[j].assignee = me.cache[j].assignee
    BY <1>3, <2>2
  <2> QED
    BY <1>1, <1>6, <2>2, <2>3 DEF me, p
<1> QED
  BY <1>1, <1>5, <1>6

LEMMA RefreshFields ==
  ASSUME IInv, NEW s \in Sessions, Refresh(s), sess'[s] # Idle
  PROVE  /\ sess[s].pc = "refresh" /\ sess[s].todo # {} /\ Exists(sess[s].item)
         /\ sess'[s].pc = "check" /\ sess'[s].todo = sess[s].todo
         /\ \A j \in Issues : sess'[s].cache[j] =
              IF j = sess[s].item THEN db[j] ELSE sess[s].cache[j]
         /\ sess'[s].patch = sess[s].patch
         /\ sess'[s].items = sess[s].items /\ sess'[s].pend = sess[s].pend
         /\ UNCHANGED tables
<1> DEFINE me == sess[s]
           new == [me EXCEPT !.pc = "check", !.item = None, !.to = None, !.fired = {},
                     !.seen = {}, !.cache[me.item] = db[me.item]]
<1>1. /\ \/ End(s)
         \/ sess' = [sess EXCEPT ![s] = new] /\ me.todo # {} /\ Exists(me.item)
      /\ me.pc = "refresh" /\ UNCHANGED tables
  BY DEF Refresh, At
<1>2. sess' = [sess EXCEPT ![s] = new] /\ me.todo # {} /\ Exists(me.item)
  BY <1>1, Ended
<1>3. me \in SessionState
  BY OfSession
<1> HIDE DEF me
<1>4. /\ new.pc = "check" /\ new.todo = me.todo
      /\ new.cache = [me.cache EXCEPT ![me.item] = db[me.item]]
      /\ new.patch = me.patch /\ new.items = me.items /\ new.pend = me.pend
  BY <1>3 DEF SessionState
<1>5. \A j \in Issues : [me.cache EXCEPT ![me.item] = db[me.item]][j] =
        IF j = me.item THEN db[j] ELSE me.cache[j]
  BY <1>3 DEF SessionState
<1> HIDE DEF new
<1>6. sess'[s] = new
  BY <1>2, Becomes DEF me
<1> QED
  BY <1>1, <1>2, <1>4, <1>5, <1>6 DEF me

\* An item of a create that is dropped takes its row along.
LEMMA DropFields ==
  ASSUME IInv, NEW s \in Sessions, DropItem(s), sess'[s] # Idle
  PROVE  /\ sess'[s].pc = NextItem(sess[s]) /\ sess'[s].items = Tail(sess[s].items)
         /\ \A j \in Issues : sess'[s].pend[j] =
              IF j = sess[s].item THEN NoRow ELSE sess[s].pend[j]
         /\ sess'[s].todo = sess[s].todo /\ sess'[s].cache = sess[s].cache
<1> DEFINE me == sess[s]
           pend == [i \in Issues |-> IF i = me.item THEN NoRow ELSE me.pend[i]]
           new == [me EXCEPT !.pc = NextItem(me), !.items = Tail(@), !.item = None, !.pend = pend]
<1>0. me \in SessionState
  BY OfSession
<1>1. sess' = [sess EXCEPT ![s] = new] \/ End(s)
  BY DEF DropItem
<1>2. sess' = [sess EXCEPT ![s] = new]
  BY <1>1, Ended
<1>3. \A j \in Issues : pend[j] = IF j = me.item THEN NoRow ELSE me.pend[j]
  OBVIOUS
<1> HIDE DEF me, pend
<1>4. /\ new.pc = NextItem(me) /\ new.items = Tail(me.items) /\ new.pend = pend
      /\ new.todo = me.todo /\ new.cache = me.cache
  BY <1>0 DEF SessionState
<1> HIDE DEF new
<1>5. sess'[s] = new
  BY <1>2, Becomes DEF me
<1> QED
  BY <1>3, <1>4, <1>5 DEF me

LEMMA InsertFields ==
  ASSUME IInv, NEW s \in Sessions, NEW i \in Issues, Insert(s, i)
  PROVE  /\ sess[s].pc = "insert" /\ sess'[s].pc = "created" /\ sess'[s].item = i
         /\ \A j \in Issues : sess'[s].pend[j] =
              IF j = i THEN Head(sess[s].items) ELSE sess[s].pend[j]
         /\ sess'[s].items = sess[s].items /\ sess'[s].todo = sess[s].todo
         /\ sess'[s].cache = sess[s].cache
         /\ db' = db /\ db[i] = NoRow /\ \A o \in Sessions : sess[o].pend[i] = NoRow
<1> DEFINE me == sess[s]
           row == Head(me.items)
           new == [me EXCEPT !.pc = "created", !.item = i, !.pend[i] = row]
<1>0. me \in SessionState /\ sess \in [Sessions -> SessionState]
  BY OfSession DEF IInv, TypeOK
<1>1. sess' = [sess EXCEPT ![s] = new] /\ me.pc = "insert" /\ db' = db /\ i \notin minted
  BY <1>0 DEF Insert, At
<1>2. db[i] = NoRow /\ \A o \in Sessions : sess[o].pend[i] = NoRow
  BY <1>1 DEF IInv, TableInv, PendInv, Exists
<1> HIDE DEF me, row
<1>3. /\ new.pc = "created" /\ new.item = i /\ new.pend = [me.pend EXCEPT ![i] = row]
      /\ new.items = me.items /\ new.todo = me.todo /\ new.cache = me.cache
  BY <1>0 DEF SessionState
<1>4. \A j \in Issues : [me.pend EXCEPT ![i] = row][j] = IF j = i THEN row ELSE me.pend[j]
  BY <1>0 DEF SessionState
<1> HIDE DEF new
<1>5. sess'[s] = new
  BY <1>1, Becomes DEF me
<1> QED
  BY <1>1, <1>2, <1>3, <1>4, <1>5 DEF me, row

\* The row of an item the rules let pass, with their effects.
Effected(me) ==
  ApplyEffects(me.pend[me.item],
    Fired(Rules, "issue.created", CreateContext(me.pend[me.item]), RowsWith(me.pend)))

LEMMA CreatedFields ==
  ASSUME IInv, NEW s \in Sessions, EvaluateCreated(s), sess'[s] # Idle, ~DropItem(s)
  PROVE  /\ sess[s].pc = "created" /\ sess[s].item \in Issues /\ sess[s].pend[sess[s].item] \in Row
         /\ Allowed(Rules, "issue.created", CreateContext(sess[s].pend[sess[s].item]),
                    RowsWith(sess[s].pend))
         /\ sess'[s].pc = NextItem(sess[s]) /\ sess'[s].items = Tail(sess[s].items)
         /\ \A j \in Issues : sess'[s].pend[j] =
              IF j = sess[s].item THEN Effected(sess[s]) ELSE sess[s].pend[j]
         /\ sess'[s].todo = sess[s].todo /\ sess'[s].cache = sess[s].cache
<1> DEFINE me == sess[s]
           row == me.pend[me.item]
           fired == Fired(Rules, "issue.created", CreateContext(row), RowsWith(me.pend))
           notes == IF Notifies(fired) THEN me.notes \cup {me.item} ELSE me.notes
           new == [me EXCEPT !.pc = NextItem(me), !.items = Tail(@), !.item = None,
                     !.pend[me.item] = Effected(me), !.notes = notes]
<1>0. me \in SessionState /\ Local(me)
  BY OfSession
<1>1. /\ \/ /\ Allowed(Rules, "issue.created", CreateContext(row), RowsWith(me.pend))
            /\ sess' = [sess EXCEPT ![s] = new]
         \/ End(s)
      /\ me.pc = "created"
  BY DEF EvaluateCreated, At, Effected
<1>2. /\ Allowed(Rules, "issue.created", CreateContext(row), RowsWith(me.pend))
      /\ sess' = [sess EXCEPT ![s] = new]
  BY <1>1, Ended
<1>3. me.item \in Issues /\ row \in Row
  BY <1>0, <1>1 DEF Local, SessionState
<1>4. \A j \in Issues : [me.pend EXCEPT ![me.item] = Effected(me)][j] =
        IF j = me.item THEN Effected(me) ELSE me.pend[j]
  BY <1>0, <1>3 DEF SessionState
<1> HIDE DEF me, row, fired, notes
<1>5. /\ new.pc = NextItem(me) /\ new.items = Tail(me.items)
      /\ new.pend = [me.pend EXCEPT ![me.item] = Effected(me)]
      /\ new.todo = me.todo /\ new.cache = me.cache
  BY <1>0 DEF SessionState
<1> HIDE DEF new
<1>6. sess'[s] = new
  BY <1>2, Becomes DEF me
<1> QED
  BY <1>1, <1>2, <1>3, <1>4, <1>5, <1>6 DEF me, row

\* The steps that end a request, whatever they wrote.
LEMMA Ends ==
  ASSUME IInv, NEW s \in Sessions,
         \/ \E i \in Issues : RefusePatch(s, i)
         \/ FailUpdate(s) \/ FailInsert(s) \/ CommitCreate(s) \/ CommitDelete(s)
         \/ \E q \in Projects : CommitConvert(s, q)
         \/ CommitDeleteProject(s)
  PROVE  sess'[s] = Idle
BY Ended DEF RefusePatch, FailUpdate, FailInsert, CommitCreate, CommitDelete,
   CommitConvert, CommitDeleteProject

\* The counts of the two deletes end the request or let it go on.
LEMMA Counts ==
  ASSUME IInv, NEW s \in Sessions, CountActiveChildren(s) \/ CountIssues(s)
  PROVE  /\ \/ sess'[s] = Idle
            \/ /\ sess'[s].pc = IF sess[s].pc = "count" THEN "delete" ELSE "delete_project"
               /\ sess'[s].todo = sess[s].todo /\ sess'[s].item = sess[s].item
               /\ sess'[s].cache = sess[s].cache
               /\ sess'[s].items = sess[s].items /\ sess'[s].pend = sess[s].pend
         /\ CountActiveChildren(s) <=> sess[s].pc = "count"
         /\ UNCHANGED tables
<1>0. CountActiveChildren(s) <=> sess[s].pc = "count"
  BY DEF CountActiveChildren, CountIssues, At
<1>1. CASE CountActiveChildren(s)
  BY <1>0, <1>1, Ended, Relabelled DEF CountActiveChildren, At, Labels
<1>2. CASE CountIssues(s) /\ ~CountActiveChildren(s)
  BY <1>0, <1>2, Ended, Relabelled DEF CountIssues, At, Labels
<1> QED
  BY <1>1, <1>2

\* An item of a create goes on to its INSERT, or is dropped.
LEMMA Validates ==
  ASSUME IInv, NEW s \in Sessions, ValidateItem(s)
  PROVE  /\ sess[s].pc = "item" /\ UNCHANGED tables
         /\ \/ DropItem(s)
            \/ /\ sess'[s].pc = "insert" /\ sess'[s].todo = sess[s].todo
               /\ sess'[s].cache = sess[s].cache
               /\ sess'[s].items = sess[s].items /\ sess'[s].pend = sess[s].pend
BY Relabelled DEF ValidateItem, At, Labels

-----------------------------------------------------------------------------
(* What a step leaves of the rows that are stored.                         *)

\* The row an update writes is a row.
LEMMA UpdateFinal ==
  ASSUME IInv, NEW s \in Sessions, At(s, "write")
  PROVE  /\ sess[s].cache[sess[s].item] \in Row /\ IsPatch(sess[s].patch)
         /\ sess[s].fired \in SUBSET Rules
         /\ Mutated(sess[s]) \in Row /\ Final(sess[s]) \in Row
         /\ Final(sess[s]).parent = Mutated(sess[s]).parent
<1> DEFINE me == sess[s]
<1>1. me.cache[me.item] \in Row /\ IsPatch(me.patch) /\ me.fired \in SUBSET Rules
  BY OfSession, PatchType DEF At, Local, SessionState
<1>2. Mutated(me) \in Row
  BY <1>1, PatchedRow DEF Mutated
<1> QED
  BY <1>1, <1>2, EffectsRow DEF Final

\* Only a delete removes a row.
LEMMA StaysStored ==
  ASSUME IInv, PendApart, NEW s \in Sessions, Acting(s), ~CommitDelete(s),
         NEW i \in Issues, Exists(i)
  PROVE  db'[i] \in Row /\ db'[i] # NoRow
<1>0. db \in [Issues -> Row \cup {NoRow}] /\ db[i] \in Row
  BY DEF IInv, TypeOK, Exists
<1>1. CASE db' = db
  BY <1>0, <1>1 DEF Exists
<1>2. CASE CommitUpdate(s)
  <2>1. Final(sess[s]) \in Row
    BY <1>2, UpdateFinal DEF CommitUpdate
  <2>2. db'[i] = IF i = sess[s].item THEN Overwrite(db[i], sess[s]) ELSE db[i]
    BY <1>0, <1>2 DEF CommitUpdate
  <2> QED
    BY <1>0, <2>1, <2>2, OverwrittenRow, NullAssumption
<1>3. CASE FlagParent(s)
  <2>1. CASE db' = [db EXCEPT ![ParentOf(sess[s])].triage = {Flag}]
    <3>1. [db[i] EXCEPT !.triage = {Flag}] \in Row
      BY <1>0, FlagAssumption DEF Row
    <3>2. db'[i] = IF i = ParentOf(sess[s]) THEN [db[i] EXCEPT !.triage = {Flag}] ELSE db[i]
      BY <1>0, <2>1
    <3> QED
      BY <1>0, <3>1, <3>2, NullAssumption
  <2> QED
    BY <1>1, <1>3, <2>1 DEF FlagParent
<1>4. CASE CommitCreate(s)
  BY <1>0, <1>4, NullAssumption DEF CommitCreate, Inserted, PendApart, Exists
<1>5. ASSUME NEW q \in Projects, CommitConvert(s, q) PROVE db'[i] \in Row /\ db'[i] # NoRow
  <2>1. CASE db' = [db EXCEPT ![sess[s].item].project = q]
    <3>1. [db[i] EXCEPT !.project = q] \in Row
      BY <1>0 DEF Row
    <3>2. db'[i] = IF i = sess[s].item THEN [db[i] EXCEPT !.project = q] ELSE db[i]
      BY <1>0, <2>1
    <3> QED
      BY <1>0, <3>1, <3>2, NullAssumption
  <2> QED
    BY <1>1, <1>5, <2>1 DEF CommitConvert
<1> QED
  BY <1>1, <1>2, <1>3, <1>4, <1>5, WhoWrites

\* The parent and the triage context are left alone by an update whose patch
\* names neither.
LEMMA UpdateLeaves ==
  ASSUME IInv, NEW s \in Sessions, CommitUpdate(s), NEW i \in Issues, Exists(i),
         NEW c \in {"parent", "triage"}, c \notin DOMAIN sess[s].patch
  PROVE  db'[i][c] = db[i][c]
<1>1. c \notin Written(sess[s])
  <2>1. At(s, "write") /\ sess[s].fired \in SUBSET Rules
    BY UpdateFinal DEF CommitUpdate
  <2>2. \A r \in Rules : c \notin DOMAIN r.sets
    BY RulesAssumption DEF SetFieldAllowed
  <2> QED
    BY <2>1, <2>2, WrittenNamed
<1> QED
  BY <1>1, UpdateColumns DEF Columns

\* When an update changes the stored state and no rule moves issues, the new
\* state is the one the patch names, other than the one in the cache.
LEMMA UpdateMoves ==
  ASSUME IInv, RulesMoveNothing, NEW s \in Sessions, CommitUpdate(s), NEW i \in Issues, Exists(i),
         db'[i].state # db[i].state
  PROVE  LET me == sess[s]
         IN  /\ i = me.item /\ db'[i].state = TargetState(me.cache[i], me.patch)
             /\ TargetState(me.cache[i], me.patch) \in States
<1> DEFINE me == sess[s]
           row == me.cache[me.item]
<1>1. /\ row \in Row /\ IsPatch(me.patch) /\ me.fired \in SUBSET Rules
      /\ Mutated(me) \in Row /\ At(s, "write")
  BY UpdateFinal DEF CommitUpdate
<1>2. db'[i]["state"] = IF i = me.item /\ "state" \in Written(me)
                        THEN Final(me)["state"] ELSE db[i]["state"]
  BY UpdateColumns DEF Columns
<1>3. i = me.item /\ "state" \in Written(me) /\ db'[i]["state"] = Final(me)["state"]
  BY <1>2
<1>4. Final(me)["state"] = Mutated(me)["state"]
  BY <1>1, EffectNamed DEF Final, RulesMoveNothing, Columns
<1>5. Mutated(me)["state"] # row["state"]
  BY <1>3, <1>4 DEF Written, Changed
<1>6. Mutated(me)["state"] = IF "state" \in DOMAIN me.patch THEN me.patch["state"] ELSE row["state"]
  BY DEF Mutated, Patched, Columns
<1>7. "state" \in DOMAIN me.patch /\ me.patch["state"] # row.state
  BY <1>5, <1>6
<1> QED
  BY <1>1, <1>3, <1>4, <1>6, <1>7 DEF TargetState, IsPatch

\* The rollup and a conversion aside, the columns of a row that stays change
\* only by an update.
LEMMA ColumnKept ==
  ASSUME IInv, PendApart, NEW s \in Sessions, Acting(s), ~CommitDelete(s), ~CommitUpdate(s),
         NEW i \in Issues, Exists(i), NEW c \in Columns \ {"triage", "project"}
  PROVE  db'[i][c] = db[i][c]
<1>1. CASE db' = db
  BY <1>1
<1>2. CASE FlagParent(s)
  BY <1>2, FlagColumns
<1>3. CASE CommitCreate(s)
  BY <1>3 DEF CommitCreate, Inserted, PendApart, Exists
<1>4. ASSUME NEW q \in Projects, CommitConvert(s, q) PROVE db'[i][c] = db[i][c]
  BY <1>4, ConvertColumns
<1> QED
  BY <1>1, <1>2, <1>3, <1>4, WhoWrites

LEMMA StateKept ==
  ASSUME IInv, PendApart, NEW s \in Sessions, Acting(s), ~CommitDelete(s), ~CommitUpdate(s),
         NEW i \in Issues, Exists(i)
  PROVE  /\ db'[i].state = db[i].state /\ db'[i].parent = db[i].parent
         /\ db'[i].assignee = db[i].assignee
<1>1. \A c \in {"state", "parent", "assignee"} : db'[i][c] = db[i][c]
  BY ColumnKept DEF Columns
<1> QED
  BY <1>1

-----------------------------------------------------------------------------
(* The rows of a create, before it commits.                                *)

\* The items that are left over are items.
LEMMA TailElements ==
  ASSUME NEW S, NEW q \in Seq(S), q # << >>
  PROVE  /\ q[1] = Head(q) /\ 1 \in DOMAIN q
         /\ \A k \in DOMAIN Tail(q) : k + 1 \in DOMAIN q /\ Tail(q)[k] = q[k + 1]
<1>1. q[1] = Head(q) /\ Len(q) \in Nat /\ DOMAIN q = 1..Len(q)
  BY HeadTailProperties, LenProperties
<1>2. Len(q) # 0
  BY EmptySeq
<1>3. Tail(q) \in Seq(S) /\ Len(Tail(q)) = Len(q) - 1
  BY HeadTailProperties
<1>4. DOMAIN Tail(q) = 1..Len(q) - 1
  BY <1>3, LenProperties
<1>5. \A k \in 1..Len(q) - 1 : Tail(q)[k] = q[k + 1]
  BY <1>1, HeadTailProperties
<1>6. \A k \in 1..Len(q) - 1 : k + 1 \in 1..Len(q)
  BY <1>1
<1> QED
  BY <1>1, <1>2, <1>4, <1>5, <1>6

LEMMA ItemsAreRows == \A items \in NewItems : \A k \in DOMAIN items : items[k] \in Row
<1> SUFFICES ASSUME NEW items \in NewItems, NEW k \in DOMAIN items PROVE items[k] \in Row
  OBVIOUS
<1>1. items \in Seq(Row)
  BY NewItemsAssumption
<1> QED
  BY <1>1, ElementOfSeq, LenProperties

\* What effects leave in a column is what was there, or what a rule sets.
LEMMA EffectSets ==
  ASSUME NEW row \in Row, NEW fired \in SUBSET Rules, NEW c \in Columns
  PROVE  \/ ApplyEffects(row, fired)[c] = row[c]
         \/ \E r \in fired : c \in DOMAIN r.sets /\ ApplyEffects(row, fired)[c] = r.sets[c]
<1>1. CASE \E r \in fired : LastSetter(r, fired, c)
  <2> DEFINE w == CHOOSE r \in fired : LastSetter(r, fired, c)
  <2>1. w \in fired /\ LastSetter(w, fired, c)
    BY <1>1
  <2>2. ApplyEffects(row, fired)[c] = w.sets[c]
    BY <1>1, ColumnsOfRow DEF ApplyEffects
  <2> QED
    BY <2>1, <2>2 DEF LastSetter
<1>2. CASE ~ \E r \in fired : LastSetter(r, fired, c)
  BY <1>2, ColumnsOfRow DEF ApplyEffects
<1> QED
  BY <1>1, <1>2

\* Effects change neither the state nor the place of a row.
LEMMA EffectsKeep ==
  ASSUME RulesMoveNothing, NEW row \in Row, NEW fired \in SUBSET Rules
  PROVE  /\ ApplyEffects(row, fired) \in Row
         /\ ApplyEffects(row, fired).state = row.state
         /\ ApplyEffects(row, fired).parent = row.parent
         /\ ApplyEffects(row, fired).triage = row.triage
<1>1. \A r \in Rules : "state" \notin DOMAIN r.sets /\ "triage" \notin DOMAIN r.sets
  BY RulesAssumption DEF RulesMoveNothing, SetFieldAllowed
<1>2. \A c \in {"state", "triage"} : ApplyEffects(row, fired)[c] = row[c]
  BY <1>1, EffectNamed DEF Columns
<1> QED
  BY <1>2, EffectsRow

\* The rows a request is going to insert, and those it has not committed yet,
\* are of a kind.
NewFrom(me, S) ==
  /\ \A k \in DOMAIN me.items : me.items[k] \in S
  /\ \A j \in Issues : me.pend[j] # NoRow => me.pend[j] \in S

\* They stay of that kind when the effects of rules do not lead out of it.
LEMMA NewFromActs ==
  ASSUME IInv, NEW S, \A items \in NewItems : \A k \in DOMAIN items : items[k] \in S,
         \A row \in S \cap Row, fired \in SUBSET Rules : ApplyEffects(row, fired) \in S,
         NEW s \in Sessions, Acting(s), NewFrom(sess[s], S)
  PROVE  NewFrom(sess'[s], S)
<1> DEFINE me == sess[s]
<1>0. me \in SessionState /\ Local(me)
  BY OfSession
<1>1. NewFrom(Idle, S)
  BY IdleFields DEF NewFrom
<1>2. ASSUME sess'[s].items = me.items, sess'[s].pend = me.pend PROVE NewFrom(sess'[s], S)
  BY <1>2 DEF NewFrom
<1>3. ASSUME me.pc \in {"item", "insert", "created"}
      PROVE  /\ Head(me.items) \in S
             /\ \A k \in DOMAIN Tail(me.items) : Tail(me.items)[k] \in S
  <2>1. me.items \in Seq(Row) /\ me.items # << >>
    BY <1>0, <1>3 DEF Local, SessionState
  <2> QED
    BY <2>1, TailElements DEF NewFrom
<1>4. ASSUME DropItem(s), me.pc \in {"item", "created"} PROVE NewFrom(sess'[s], S)
  BY <1>1, <1>3, <1>4, DropFields DEF NewFrom
<1>5. CASE Request(s)
  <2>1. ASSUME NEW i \in Issues, NEW p \in Patches, BeginUpdate(s, i, p) PROVE NewFrom(sess'[s], S)
    BY <1>1, <2>1, BeginUpdateFields DEF NewFrom
  <2>2. ASSUME NEW f \in Filters, NEW p \in Patches, BeginBatch(s, f, p) PROVE NewFrom(sess'[s], S)
    BY <1>1, <2>2, BeginBatchFields DEF NewFrom
  <2>3. ASSUME NEW items \in NewItems, BeginCreate(s, items) PROVE NewFrom(sess'[s], S)
    BY <1>1, <2>3, BeginCreateFields DEF NewFrom
  <2>4. CASE BeginOther(s)
    BY <1>1, <2>4, BeginOtherFields, IdleFields DEF NewFrom
  <2>5. ASSUME NEW q \in Projects, CreateProject(s, q) PROVE NewFrom(sess'[s], S)
    BY <2>5 DEF CreateProject
  <2> QED
    BY <1>5, <2>1, <2>2, <2>3, <2>4, <2>5 DEF Request, BeginOther
<1>6. CASE Proceed(s)
  <2>1. ASSUME NEW i \in Issues, AcceptPatch(s, i) PROVE NewFrom(sess'[s], S)
    BY <1>2, <2>1, AcceptFields
  <2>2. CASE EvaluateRules(s) \/ CommitUpdate(s) \/ ReadSiblings(s) \/ ReadParent(s)
    BY <1>1, <1>2, <2>2, EvaluateFields, CommitUpdateFields, SiblingsFields, ParentFields
  <2>3. CASE FlagParent(s) \/ Refresh(s)
    BY <1>1, <1>2, <2>3, FlagFields, RefreshFields
  <2>4. CASE ValidateItem(s)
    BY <1>2, <1>4, <2>4, Validates
  <2>5. CASE CountActiveChildren(s) \/ CountIssues(s)
    BY <1>1, <1>2, <2>5, Counts
  <2>6. ASSUME NEW i \in Issues, Insert(s, i) PROVE NewFrom(sess'[s], S)
    BY <1>3, <2>6, InsertFields DEF NewFrom
  <2>7. CASE EvaluateCreated(s)
    <3>1. CASE sess'[s] # Idle /\ ~DropItem(s)
      <4>1. /\ me.pc = "created" /\ me.pend[me.item] \in Row /\ me.item \in Issues
            /\ Fired(Rules, "issue.created", CreateContext(me.pend[me.item]), RowsWith(me.pend))
                 \in SUBSET Rules
        BY <2>7, <3>1, CreatedFields DEF Fired, Loaded
      <4>2. me.pend[me.item] \in S
        BY <4>1, NullAssumption DEF NewFrom
      <4>3. Effected(me) \in S
        BY <4>1, <4>2 DEF Effected
      <4> QED
        BY <1>3, <2>7, <3>1, <4>1, <4>3, CreatedFields DEF NewFrom
    <3>2. CASE DropItem(s)
      BY <1>4, <2>7, <3>2 DEF EvaluateCreated, At
    <3> QED
      BY <1>1, <3>1, <3>2
  <2> QED
    BY <1>1, <1>6, <2>1, <2>2, <2>3, <2>4, <2>5, <2>6, <2>7, Ends DEF Proceed
<1> QED
  BY <1>5, <1>6 DEF Acting

-----------------------------------------------------------------------------
(* The rollup is not lost, however many requests run at once.              *)

\* A triage context the rollup can leave flagged: empty, or flagged already.
Simple(row) == row.triage = {} \/ Flag \in row.triage

\* A new row that cannot be the last child to be done.
Fit(row) == Simple(row) /\ (row.parent # None => ~Terminal(row.state))

InitChildren(p) == {i \in Issues : InitRows[i] # NoRow /\ InitRows[i].parent = p}

\* What the clients and the rules may do: updates of one issue that neither
\* move it in the tree nor touch the triage context, conversions, and creates
\* of issues that are not done.  No request is cut off.
RollupCovered ==
  /\ Ops \cap {"batch", "delete"} = {} /\ MayCrash = FALSE /\ RulesMoveNothing
  /\ \A p \in Patches : DOMAIN p \cap {"parent", "triage"} = {}
  /\ \A items \in NewItems : \A k \in DOMAIN items : Fit(items[k])
  /\ \A i \in Issues : InitRows[i] # NoRow => Simple(InitRows[i])
  /\ \A p \in Issues :
       /\ InitRows[p] # NoRow /\ Cardinality(InitChildren(p)) > 1
       /\ \A i \in InitChildren(p) : Terminal(InitRows[i].state)
       => Flag \in InitRows[p].triage

Updating == {"rules", "write", "siblings", "parent", "flag", "refresh"}

\* The request holds one row, whose parent is the one stored.
OnlyRow(me, i, table) ==
  /\ i \in Issues /\ me.cache[i] # NoRow /\ table[i] # NoRow
  /\ me.cache[i].parent = table[i].parent
  /\ \A j \in Issues \ {i} : me.cache[j] = NoRow

\* What the rollup relies on of one request.
Own(me, table) ==
  /\ me.pc \notin {"count", "delete"}
  /\ me.pc = "check" => \E i \in Issues : me.todo = {i} /\ OnlyRow(me, i, table)
  /\ me.pc \in Updating => me.todo = {} /\ OnlyRow(me, me.item, table)
  /\ me.pc \in {"rules", "write"} => me.to = TargetState(me.cache[me.item], me.patch)
  /\ me.pc = "flag" /\ me.seen # {} => Flag \in table[ParentOf(me)].triage

NewRows(me) == NewFrom(me, {row \in Row : Fit(row)})

\* The request is on its way to flag the parent.
Rolling(me, p) == me.pc \in {"siblings", "parent", "flag"} /\ ParentOf(me) = p

\* A parent whose children are all done is flagged, or about to be.
RollInv ==
  /\ \A i \in Issues : Exists(i) => Simple(db[i])
  /\ \A s \in Sessions : Own(sess[s], db) /\ NewRows(sess[s])
  /\ \A p \in Issues : Exists(p) /\ AllDone(p) /\ ~Flagged(p) =>
       \E s \in Sessions : Rolling(sess[s], p)

\* A row keeps its parent and its flag.
Steady(i) ==
  /\ db'[i] # NoRow /\ db'[i].parent = db[i].parent
  /\ Flag \in db[i].triage => Flag \in db'[i].triage
  /\ Simple(db[i]) => Simple(db'[i])

LEMMA RowsSteady ==
  ASSUME IInv, PendApart, RollupCovered, NEW s \in Sessions, Acting(s), Own(sess[s], db),
         NEW i \in Issues, Exists(i)
  PROVE  Steady(i)
<1>0. ~CommitDelete(s)
  BY DEF CommitDelete, At, Own
<1>1. db'[i] # NoRow /\ db[i] \in Row /\ db'[i] \in Row
  BY <1>0, StaysStored DEF IInv, TypeOK, Exists
<1>2. CASE db' = db
  BY <1>1, <1>2 DEF Steady
<1>3. CASE CommitUpdate(s)
  <2>1. sess[s].patch \in Patches \cup {NoPatch}
    BY OfSession DEF SessionState
  <2>2. "parent" \notin DOMAIN sess[s].patch /\ "triage" \notin DOMAIN sess[s].patch
    BY <2>1 DEF RollupCovered, NoPatch
  <2>3. db'[i]["parent"] = db[i]["parent"] /\ db'[i]["triage"] = db[i]["triage"]
    BY <1>3, <2>2, UpdateLeaves
  <2> QED
    BY <1>1, <2>3 DEF Steady, Simple
<1>4. CASE FlagParent(s)
  <2>1. db'[i]["parent"] = db[i]["parent"]
    BY <1>4, FlagColumns DEF Columns
  <2>2. CASE db' = [db EXCEPT ![ParentOf(sess[s])].triage = {Flag}]
    <3>1. db'[i].triage = IF i = ParentOf(sess[s]) THEN {Flag} ELSE db[i].triage
      BY <1>1, <2>2 DEF IInv, TypeOK, Row
    <3> QED
      BY <1>1, <2>1, <3>1 DEF Steady, Simple
  <2> QED
    BY <1>2, <1>4, <2>2 DEF FlagParent
<1>5. CASE CommitCreate(s)
  <2>1. db'[i] = db[i]
    BY <1>5 DEF CommitCreate, Inserted, PendApart, Exists
  <2> QED
    BY <1>1, <2>1 DEF Steady
<1>6. ASSUME NEW q \in Projects, CommitConvert(s, q) PROVE Steady(i)
  <2>1. db'[i]["parent"] = db[i]["parent"] /\ db'[i]["triage"] = db[i]["triage"]
    BY <1>6, ConvertColumns DEF Columns
  <2> QED
    BY <1>1, <2>1 DEF Steady, Simple
<1> QED
  BY <1>0, <1>2, <1>3, <1>4, <1>5, <1>6, WhoWrites

\* The parent a request is about to flag is stored.
LEMMA ParentStored ==
  ASSUME IInv, NEW me \in SessionState, Local(me), Own(me, db),
         me.pc \in {"siblings", "parent", "flag"}
  PROVE  ParentOf(me) \in Issues /\ Exists(ParentOf(me)) /\ ParentOf(me) # me.item
<1>1. /\ me.item \in Issues /\ Exists(me.item) /\ ParentOf(me) = db[me.item].parent
      /\ ParentOf(me) # None
  BY DEF Local, Own, Updating, OnlyRow, ParentOf, Exists
<1>2. ParentOf(me) \in Issues
  BY <1>1 DEF IInv, TypeOK, Row, Exists
<1> QED
  BY <1>1, <1>2 DEF IInv, TableInv, RefersWell, ParentFound

\* What a request relies on survives the steps of the others.
LEMMA OwnKept ==
  ASSUME IInv, NEW me \in SessionState, Local(me), Own(me, db),
         \A i \in Issues : Exists(i) => Steady(i)
  PROVE  Own(me, db')
<1>1. ASSUME NEW i, OnlyRow(me, i, db) PROVE OnlyRow(me, i, db')
  BY <1>1 DEF OnlyRow, Steady, Exists
<1>2. me.pc = "flag" /\ me.seen # {} => Flag \in db'[ParentOf(me)].triage
  BY ParentStored DEF Own, Steady
<1> QED
  BY <1>1, <1>2 DEF Own

LEMMA OwnIdle == \A table : Own(Idle, table)
BY IdleFields DEF Own, Updating

LEMMA OwnCreates ==
  ASSUME IInv, NEW s \in Sessions, Own(sess[s], db),
         \/ ValidateItem(s) \/ EvaluateCreated(s) \/ CountActiveChildren(s) \/ CountIssues(s)
         \/ \E i \in Issues : Insert(s, i)
  PROVE  Own(sess'[s], db')
<1>1. ASSUME sess'[s].pc \in {"item", "insert", "created", "commit", "delete_project"}
      PROVE  Own(sess'[s], db')
  BY <1>1 DEF Own, Updating
<1>2. ASSUME DropItem(s) PROVE Own(sess'[s], db')
  BY <1>1, <1>2, DropFields, OwnIdle DEF NextItem
<1>3. CASE ValidateItem(s)
  BY <1>1, <1>2, <1>3, Validates
<1>4. CASE EvaluateCreated(s)
  BY <1>1, <1>2, <1>4, CreatedFields, OwnIdle DEF NextItem
<1>5. CASE CountActiveChildren(s)
  BY <1>5 DEF Own, CountActiveChildren, At
<1>6. CASE CountIssues(s)
  <2>1. sess[s].pc = "count_issues"
    BY <1>6 DEF CountIssues, At
  <2> QED
    BY <1>1, <1>6, <2>1, Counts, OwnIdle
<1>7. ASSUME NEW i \in Issues, Insert(s, i) PROVE Own(sess'[s], db')
  BY <1>1, <1>7, InsertFields
<1> QED
  BY <1>3, <1>4, <1>5, <1>6, <1>7

LEMMA OwnRequests ==
  ASSUME IInv, RollupCovered, NEW s \in Sessions, Own(sess[s], db), Request(s)
  PROVE  Own(sess'[s], db')
<1>1. ASSUME NEW i \in Issues, NEW p \in Patches, BeginUpdate(s, i, p) PROVE Own(sess'[s], db')
  <2>1. OnlyRow(sess'[s], i, db')
    BY <1>1, BeginUpdateFields DEF OnlyRow, tables, Exists
  <2> QED
    BY <1>1, <2>1, BeginUpdateFields DEF Own, Updating
<1>2. ASSUME NEW f \in Filters, NEW p \in Patches PROVE ~BeginBatch(s, f, p)
  BY DEF BeginBatch, Begin, RollupCovered
<1>3. ASSUME NEW items \in NewItems, BeginCreate(s, items) PROVE Own(sess'[s], db')
  BY <1>3, BeginCreateFields DEF Own, Updating
<1>4. CASE BeginOther(s)
  BY <1>4, BeginOtherFields DEF Own, Updating, RollupCovered
<1>5. ASSUME NEW q \in Projects, CreateProject(s, q) PROVE Own(sess'[s], db')
  BY <1>5 DEF CreateProject
<1> QED
  BY <1>1, <1>2, <1>3, <1>4, <1>5 DEF Request, BeginOther

\* The steps of an update, from its check to the end of the rollup.
LEMMA OwnUpdates ==
  ASSUME IInv, PendApart, RollupCovered, RollInv, NEW s \in Sessions, Own(sess[s], db),
         \A i \in Issues : Exists(i) => Steady(i),
         \/ \E i \in Issues : AcceptPatch(s, i)
         \/ EvaluateRules(s) \/ CommitUpdate(s) \/ ReadSiblings(s) \/ ReadParent(s)
         \/ FlagParent(s) \/ Refresh(s)
  PROVE  Own(sess'[s], db')
<1> DEFINE me == sess[s]
<1>0. me \in SessionState /\ Local(me)
  BY OfSession
<1>1. ASSUME NEW i \in Issues, AcceptPatch(s, i) PROVE Own(sess'[s], db')
  <2>1. me.todo = {i} /\ OnlyRow(me, i, db)
    BY <1>1, AcceptFields DEF Own
  <2>2. sess'[s].todo = {} /\ sess'[s].pc = "rules" /\ sess'[s].item = i
    BY <1>1, <2>1, AcceptFields
  <2>3. OnlyRow(sess'[s], i, db')
    BY <1>1, <2>1, AcceptFields DEF OnlyRow, tables
  <2>4. sess'[s].to = TargetState(sess'[s].cache[i], sess'[s].patch)
    BY <1>1, AcceptFields
  <2> QED
    BY <2>2, <2>3, <2>4 DEF Own
<1>2. CASE EvaluateRules(s)
  <2>1. CASE sess'[s] # Idle
    <3>1. me.pc = "rules" /\ sess'[s].pc \in {"rules", "write"} /\ db' = db
      BY <1>2, <2>1, EvaluateFields DEF tables
    <3>2. me.todo = {} /\ OnlyRow(me, me.item, db) /\ me.to = TargetState(me.cache[me.item], me.patch)
      BY <3>1 DEF Own, Updating
    <3>3. OnlyRow(sess'[s], sess'[s].item, db')
      BY <1>2, <2>1, <3>1, <3>2, EvaluateFields DEF OnlyRow
    <3> QED
      BY <1>2, <2>1, <3>1, <3>2, <3>3, EvaluateFields DEF Own
  <2> QED
    BY <2>1, OwnIdle
<1>3. CASE CommitUpdate(s)
  <2>1. /\ sess'[s].pc \in {"siblings", "refresh"} /\ sess'[s].todo = me.todo
        /\ sess'[s].item = me.item /\ me.pc = "write"
        /\ \A j \in Issues : sess'[s].cache[j] = IF j = me.item THEN Final(me) ELSE me.cache[j]
    BY <1>3, CommitUpdateFields
  <2>2. me.todo = {} /\ OnlyRow(me, me.item, db)
    BY <2>1 DEF Own, Updating
  <2>3. Steady(me.item)
    BY <2>2 DEF OnlyRow, Exists
  <2>4. Final(me) \in Row /\ Final(me).parent = me.cache[me.item].parent
    <3>1. me.patch \in Patches \cup {NoPatch}
      BY <1>0 DEF SessionState
    <3>2. "parent" \notin DOMAIN me.patch
      BY <3>1 DEF RollupCovered, NoPatch
    <3>3. /\ Final(me) \in Row /\ Final(me).parent = Mutated(me).parent
          /\ me.cache[me.item] \in Row /\ IsPatch(me.patch)
      BY <1>3, UpdateFinal DEF CommitUpdate
    <3> QED
      BY <3>2, <3>3, PatchedRow DEF Mutated
  <2>5. OnlyRow(sess'[s], me.item, db')
    BY <2>1, <2>2, <2>3, <2>4, NullAssumption DEF OnlyRow, Steady
  <2> QED
    BY <2>1, <2>2, <2>5 DEF Own, Updating
<1>4. CASE ReadSiblings(s)
  <2>1. me.todo = {} /\ OnlyRow(me, me.item, db) /\ db' = db
    BY <1>4, SiblingsFields DEF Own, Updating, tables
  <2>2. OnlyRow(sess'[s], me.item, db')
    BY <1>4, <2>1, SiblingsFields DEF OnlyRow
  <2> QED
    BY <1>4, <2>1, <2>2, SiblingsFields DEF Own, Updating
<1>5. CASE ReadParent(s)
  <2>1. me.pc = "parent" /\ me.todo = {} /\ OnlyRow(me, me.item, db) /\ db' = db
    BY <1>5, ParentFields DEF Own, Updating, tables
  <2>2. OnlyRow(sess'[s], me.item, db')
    BY <1>5, <2>1, ParentFields DEF OnlyRow
  <2>3. ParentOf(me) \in Issues /\ Exists(ParentOf(me)) /\ ParentOf(me) # me.item
    BY <1>0, <2>1, ParentStored
  <2>4. sess'[s].seen = db[ParentOf(me)].triage
    BY <1>5, <2>1, <2>3, ParentFields DEF OnlyRow
  <2>5. ParentOf(sess'[s]) = ParentOf(me)
    BY <1>5, ParentFields DEF ParentOf
  <2>6. db[ParentOf(me)].triage # {} => Flag \in db[ParentOf(me)].triage
    BY <2>3 DEF RollInv, Simple
  <2> QED
    BY <1>5, <2>1, <2>2, <2>4, <2>5, <2>6, ParentFields DEF Own, Updating
<1>6. CASE FlagParent(s)
  <2>1. CASE sess'[s] # Idle
    <3>1. me.pc = "flag" /\ me.todo = {} /\ OnlyRow(me, me.item, db) /\ Steady(me.item)
      BY <1>6, FlagFields DEF Own, Updating, OnlyRow, Exists
    <3>2. OnlyRow(sess'[s], me.item, db')
      BY <1>6, <2>1, <3>1, FlagFields DEF OnlyRow, Steady
    <3> QED
      BY <1>6, <2>1, <3>1, <3>2, FlagFields DEF Own, Updating
  <2> QED
    BY <2>1, OwnIdle
<1>7. CASE Refresh(s)
  <2>1. me.pc = "refresh" => me.todo = {}
    BY DEF Own, Updating
  <2> QED
    BY <1>7, <2>1, RefreshFields, OwnIdle
<1> QED
  BY <1>1, <1>2, <1>3, <1>4, <1>5, <1>6, <1>7

LEMMA OwnActs ==
  ASSUME IInv, PendApart, RollupCovered, RollInv, NEW s \in Sessions, Acting(s),
         \A i \in Issues : Exists(i) => Steady(i)
  PROVE  Own(sess'[s], db')
<1>0. Own(sess[s], db)
  BY DEF RollInv
<1>1. CASE Request(s)
  BY <1>0, <1>1, OwnRequests
<1>2. CASE Proceed(s)
  BY <1>0, <1>2, OwnUpdates, OwnCreates, Ends, OwnIdle DEF Proceed
<1> QED
  BY <1>1, <1>2 DEF Acting

LEMMA NewRowsActs ==
  ASSUME IInv, RollupCovered, NEW s \in Sessions, Acting(s), NewRows(sess[s])
  PROVE  NewRows(sess'[s])
<1> DEFINE S == {row \in Row : Fit(row)}
<1>1. \A items \in NewItems : \A k \in DOMAIN items : items[k] \in S
  BY ItemsAreRows DEF RollupCovered
<1>2. \A row \in S \cap Row, fired \in SUBSET Rules : ApplyEffects(row, fired) \in S
  BY EffectsKeep DEF RollupCovered, Fit, Simple
<1> HIDE DEF S
<1>3. NewFrom(sess[s], S) => NewFrom(sess'[s], S)
  BY <1>1, <1>2, NewFromActs
<1> QED
  BY <1>3 DEF NewRows, S

\* A commit that completes a child sets its request on the way to the parent.
LEMMA CompletionRolls ==
  ASSUME IInv, RollupCovered, NEW s \in Sessions, Own(sess[s], db), CommitUpdate(s),
         NEW i \in Issues, Exists(i), db'[i].state # db[i].state, Terminal(db'[i].state),
         db[i].parent # None
  PROVE  Rolling(sess'[s], db[i].parent)
<1> DEFINE me == sess[s]
<1>1. /\ i = me.item /\ db'[i].state = TargetState(me.cache[i], me.patch)
      /\ TargetState(me.cache[i], me.patch) \in States
  BY UpdateMoves DEF RollupCovered
<1>2. /\ me.pc = "write" /\ me.to = TargetState(me.cache[i], me.patch)
      /\ me.cache[i].parent = db[i].parent
  BY <1>1 DEF CommitUpdate, At, Own, Updating, OnlyRow
<1>3. Final(me).parent = db[i].parent
  <2>1. me.patch \in Patches \cup {NoPatch}
    BY OfSession DEF SessionState
  <2>2. "parent" \notin DOMAIN me.patch
    BY <2>1 DEF RollupCovered, NoPatch
  <2>3. /\ Final(me).parent = Mutated(me).parent /\ me.cache[i] \in Row /\ IsPatch(me.patch)
    BY <1>1, UpdateFinal DEF CommitUpdate
  <2> QED
    BY <1>1, <1>2, <2>2, <2>3, PatchedRow DEF Mutated
<1>4. me.to # None /\ Terminal(me.to)
  BY <1>1, <1>2, NullAssumption
<1>5. sess'[s].pc = "siblings" /\ sess'[s].item = i /\ sess'[s].cache[i] = Final(me)
  BY <1>1, <1>3, <1>4, CommitUpdateFields
<1> QED
  BY <1>3, <1>5 DEF Rolling, ParentOf

\* Who is on the way to an unflagged parent whose children are all done gets
\* there, or has flagged it.
LEMMA RollsOn ==
  ASSUME IInv, RollInv, NEW s \in Sessions, Acting(s), NEW p \in Issues, Exists(p), AllDone(p),
         Rolling(sess[s], p)
  PROVE  Rolling(sess'[s], p) \/ Flagged(p)'
<1> DEFINE me == sess[s]
<1>0. /\ me \in SessionState /\ Local(me) /\ Own(me, db) /\ ParentOf(me) = p
      /\ me.pc \in {"siblings", "parent", "flag"}
  BY OfSession DEF RollInv, Rolling
<1>1. OnlyRow(me, me.item, db) /\ p # me.item
  BY <1>0, ParentStored DEF Own, Updating
<1>2. CASE ReadSiblings(s)
  <2>1. Siblings(me) # {}
    <3>1. ASSUME Siblings(me) = {} PROVE Cardinality(Children(p)) \in {0, 1}
      <4>1. Children(p) = {} \/ Children(p) = {me.item}
        BY <1>0, <3>1 DEF Siblings
      <4> QED
        BY <4>1, FS_EmptySet, FS_Singleton
    <3> QED
      BY <3>1 DEF AllDone
  <2>2. \A j \in Siblings(me) : SiblingDone(me, j)
    BY <1>0, <1>1 DEF Siblings, Children, AllDone, ActiveChildren, SiblingDone, StateSeen, OnlyRow
  <2>3. sess'[s].pc = "parent" /\ sess'[s].item = me.item /\ sess'[s].cache = me.cache
    BY <1>2, <2>1, <2>2, SiblingsFields
  <2> QED
    BY <1>0, <2>3 DEF Rolling, ParentOf
<1>3. CASE ReadParent(s)
  <2>1. sess'[s].pc = "flag" /\ sess'[s].item = me.item /\ sess'[s].cache = me.cache
    BY <1>0, <1>3, ParentFields
  <2> QED
    BY <1>0, <2>1 DEF Rolling, ParentOf
<1>4. CASE FlagParent(s)
  <2>1. CASE me.seen = {}
    <3>1. db' = [db EXCEPT ![p].triage = {Flag}]
      BY <1>0, <1>4, <2>1 DEF FlagParent
    <3>2. db[p] \in Row /\ db \in [Issues -> Row \cup {NoRow}]
      BY DEF IInv, TypeOK, Exists
    <3>3. db'[p] = [db[p] EXCEPT !.triage = {Flag}]
      BY <3>1, <3>2
    <3>4. [db[p] EXCEPT !.triage = {Flag}] \in Row /\ [db[p] EXCEPT !.triage = {Flag}].triage = {Flag}
      BY <3>2, FlagAssumption DEF Row
    <3> QED
      BY <3>3, <3>4, NullAssumption DEF Flagged, Exists
  <2>2. CASE me.seen # {}
    <3>1. Flag \in db[p].triage
      BY <1>0, <1>4, <2>2 DEF FlagParent, At, Own
    <3>2. db' = db
      BY <1>4, <2>2 DEF FlagParent
    <3> QED
      BY <3>1, <3>2 DEF Flagged, Exists
  <2> QED
    BY <2>1, <2>2
<1>5. CASE Request(s)
  <2>1. me.pc # "idle"
    BY <1>0
  <2> QED
    BY <1>5, <2>1 DEF Request, BeginUpdate, BeginBatch, BeginCreate, BeginDelete, CreateProject,
       BeginConvert, BeginDeleteProject, Begin, At
<1>6. CASE Proceed(s)
  BY <1>0, <1>2, <1>3, <1>4, <1>6 DEF Proceed, At, AcceptPatch, RefusePatch, EvaluateRules,
     CommitUpdate, FailUpdate, Refresh, ValidateItem, Insert, FailInsert, EvaluateCreated,
     CommitCreate, CountActiveChildren, CommitDelete, CommitConvert, CountIssues,
     CommitDeleteProject
<1> QED
  BY <1>5, <1>6 DEF Acting

\* The children of an issue after a step, when rows are steady.
LEMMA ChildrenAfter ==
  ASSUME IInv, PendApart, RollupCovered, RollInv, NEW s \in Sessions, Acting(s),
         \A i \in Issues : Exists(i) => Steady(i), NEW p \in Issues, AllDone(p)'
  PROVE  Exists(p) /\ (AllDone(p) \/ Rolling(sess'[s], p))
<1>0. Cardinality(Children(p)') > 1 /\ ActiveChildren(p)' = {}
  BY DEF AllDone
<1>1. \A i \in Children(p)' : i \in Issues /\ db'[i] # NoRow /\ db'[i].parent = p
  BY DEF Children, Exists
<1>2. \A i \in Children(p)' : Terminal(db'[i].state)
  BY <1>0, <1>1 DEF ActiveChildren, Terminal
<1>3. ASSUME NEW i \in Children(p)' PROVE Exists(i)
  <2>1. CASE CommitCreate(s) /\ sess[s].pend[i] # NoRow
    <3>1. db'[i] = sess[s].pend[i] /\ Fit(sess[s].pend[i])
      BY <1>1, <2>1 DEF CommitCreate, Inserted, RollInv, NewRows, NewFrom
    <3> QED
      BY <1>1, <1>2, <1>3, <3>1, NullAssumption DEF Fit
  <2> QED
    BY <1>1, <1>3, <2>1, RowsFrom DEF Exists
<1>4. Children(p)' = Children(p)
  <2>1. \A i \in Children(p)' : i \in Children(p)
    BY <1>1, <1>3 DEF Steady, Children
  <2>2. \A i \in Children(p) : i \in Children(p)'
    BY DEF Steady, Children, Exists
  <2> QED
    BY <2>1, <2>2
<1>5. Exists(p)
  <2>1. PICK i \in Children(p) : TRUE
    BY <1>0, <1>4, FS_EmptySet
  <2> QED
    BY <2>1, NullAssumption DEF Children, IInv, TableInv, RefersWell, ParentFound, Exists
<1>6. CASE ActiveChildren(p) = {}
  BY <1>0, <1>4, <1>5, <1>6 DEF AllDone
<1>7. CASE ActiveChildren(p) # {}
  <2>1. PICK i \in ActiveChildren(p) : TRUE
    BY <1>7
  <2>2. /\ i \in Issues /\ Exists(i) /\ db[i].parent = p /\ ~Terminal(db[i].state)
        /\ Terminal(db'[i].state)
    BY <1>2, <1>4, <2>1 DEF ActiveChildren, Children
  <2>3. ~CommitDelete(s) /\ Own(sess[s], db)
    BY DEF CommitDelete, At, RollInv, Own
  <2>4. db'[i].state # db[i].state
    BY <2>2
  <2>5. CommitUpdate(s)
    BY <2>2, <2>3, <2>4, StateKept
  <2>6. p # None
    BY NullAssumption
  <2> QED
    BY <1>5, <2>2, <2>3, <2>4, <2>5, <2>6, CompletionRolls
<1> QED
  BY <1>6, <1>7

LEMMA RollStep ==
  RollupCovered /\ IInv /\ PendApart /\ RollInv /\ [Next]_vars => RollInv'
<1> SUFFICES ASSUME RollupCovered, IInv, PendApart, RollInv, [Next]_vars PROVE RollInv'
  OBVIOUS
<1>1. ASSUME NEW s \in Sessions, Acting(s) PROVE RollInv'
  <2>0. \A i \in Issues : Exists(i) => Steady(i)
    BY <1>1, RowsSteady DEF RollInv
  <2>1. ASSUME NEW i \in Issues, db'[i] # NoRow PROVE Simple(db'[i])
    <3>1. CASE Exists(i)
      BY <2>0, <3>1 DEF RollInv, Steady
    <3>2. CASE ~Exists(i)
      BY <1>1, <2>1, <3>2, RowsFrom DEF CommitCreate, Inserted, RollInv, NewRows, NewFrom, Fit, Exists
    <3> QED
      BY <3>1, <3>2
  <2>2. ASSUME NEW o \in Sessions PROVE Own(sess'[o], db') /\ NewRows(sess'[o])
    <3>1. CASE o = s
      BY <1>1, <2>0, <3>1, OwnActs, NewRowsActs DEF RollInv
    <3>2. CASE o # s
      <4>1. sess'[o] = sess[o] /\ sess[o] \in SessionState /\ Local(sess[o])
        BY <1>1, <3>2, OthersKeep, OfSession
      <4> QED
        BY <2>0, <4>1, OwnKept DEF RollInv
    <3> QED
      BY <3>1, <3>2
  <2>3. ASSUME NEW p \in Issues, Exists(p)', AllDone(p)', ~Flagged(p)'
        PROVE  \E o \in Sessions : Rolling(sess'[o], p)
    <3>1. Exists(p) /\ (AllDone(p) \/ Rolling(sess'[s], p))
      BY <1>1, <2>0, <2>3, ChildrenAfter
    <3>2. CASE AllDone(p)
      <4>1. ~Flagged(p)
        BY <2>0, <2>3, <3>1 DEF Flagged, Steady, Exists
      <4>2. PICK o \in Sessions : Rolling(sess[o], p)
        BY <3>1, <3>2, <4>1 DEF RollInv
      <4>3. Rolling(sess'[o], p)
        BY <1>1, <2>3, <3>1, <3>2, <4>2, OthersKeep, RollsOn
      <4> QED
        BY <4>3
    <3> QED
      BY <3>1, <3>2
  <2> QED
    BY <2>1, <2>2, <2>3 DEF RollInv, Exists
<1>2. CASE Crash
  BY <1>2 DEF Crash, RollupCovered
<1>3. CASE UNCHANGED vars
  <2>1. db' = db /\ sess' = sess
    BY <1>3 DEF vars
  <2>2. \A p \in Issues : (AllDone(p)' <=> AllDone(p)) /\ (Flagged(p)' <=> Flagged(p))
    BY <2>1 DEF AllDone, Flagged, ActiveChildren, Children, Exists, Terminal
  <2> QED
    BY <2>1, <2>2 DEF RollInv, Exists
<1> QED
  BY <1>1, <1>2, <1>3 DEF Next, Acting

LEMMA RollInit == RollupCovered /\ Init => RollInv
<1> SUFFICES ASSUME RollupCovered, Init PROVE RollInv
  OBVIOUS
<1>1. db = InitRows /\ sess = [s \in Sessions |-> Idle]
  BY DEF Init
<1>2. \A i \in Issues : Exists(i) => Simple(db[i])
  BY <1>1 DEF Exists, RollupCovered
<1>3. \A s \in Sessions : Own(sess[s], db) /\ NewRows(sess[s])
  BY <1>1, OwnIdle, IdleFields DEF NewRows, NewFrom
<1>4. ASSUME NEW p \in Issues, Exists(p), AllDone(p) PROVE Flagged(p)
  <2>1. Children(p) = InitChildren(p)
    BY <1>1 DEF Children, InitChildren, Exists
  <2>2. \A i \in InitChildren(p) : Terminal(InitRows[i].state)
    BY <1>1, <1>4, <2>1 DEF AllDone, ActiveChildren
  <2> QED
    BY <1>1, <1>4, <2>1, <2>2 DEF AllDone, RollupCovered, Flagged, Exists
<1> QED
  BY <1>2, <1>3, <1>4 DEF RollInv

\* As long as requests update issues one by one, leave the tree and the
\* triage context alone and are not cut off, the rollup is not lost, however
\* many of them run at once: of those that complete the children of an issue,
\* the last to commit finds its siblings done.
THEOREM RollupKept == ASSUME RollupCovered PROVE Spec => []RollupNotLost
<1>1. RollInv => RollupNotLost
  BY DEF RollInv, RollupNotLost, RollupPending, Rolling, At
<1>2. IInv /\ PendApart /\ RollInv /\ [Next]_vars => RollInv'
  BY RollStep
<1>3. Init => RollInv
  BY RollInit
<1> QED
  BY <1>1, <1>2, <1>3, PendAlwaysApart, PTL DEF Spec

-----------------------------------------------------------------------------
(* Requests served one at a time: what a session has read is what is       *)
(* stored, and what it then commits is a step of the board.                *)

DoneIn(p, table) ==
  LET kids == {i \in Issues : table[i] # NoRow /\ table[i].parent = p}
  IN  Cardinality(kids) > 1 /\ \A i \in kids : Terminal(table[i].state)

\* The session's copies agree with the table on the state, the parent and the
\* assignee; the move it is about to make was judged by them; and a request that rolls up
\* has completed its issue and, once it has read the siblings, the children
\* of the parent are done.
Serial(me, table) ==
  /\ \A i \in Issues : me.cache[i] # NoRow =>
       /\ table[i] # NoRow
       /\ me.cache[i].state = table[i].state /\ me.cache[i].parent = table[i].parent
       /\ me.cache[i].assignee = table[i].assignee
  /\ me.pc \in {"rules", "write"} =>
       /\ MoveAllowed(me.cache[me.item], me.patch)
       /\ me.to = TargetState(me.cache[me.item], me.patch)
  /\ me.pc \in {"siblings", "parent", "flag"} => Terminal(me.cache[me.item].state)
  /\ me.pc \in {"parent", "flag"} => DoneIn(ParentOf(me), table)

AllSerial == \A s \in Sessions : Serial(sess[s], db)

LEMMA SerialIdle == \A table : Serial(Idle, table)
BY IdleFields DEF Serial

\* Where an update leaves its issue: in the state it was moved to, and what a
\* fresh copy says is what is stored.
LEMMA UpdateTakes ==
  ASSUME IInv, RulesMoveNothing, NEW s \in Sessions, CommitUpdate(s), Serial(sess[s], db)
  PROVE  LET me == sess[s]
             row == me.cache[me.item]
         IN  /\ me.item \in Issues /\ Exists(me.item) /\ row \in Row /\ Final(me) \in Row
             /\ row.state = db[me.item].state /\ row.parent = db[me.item].parent
             /\ row.assignee = db[me.item].assignee
             /\ Final(me).state = IF me.to = None THEN row.state ELSE me.to
             /\ MoveAllowed(row, me.patch) /\ me.to = TargetState(row, me.patch)
             /\ db'[me.item].state = Final(me).state
             /\ db'[me.item].parent = Final(me).parent
             /\ db'[me.item].assignee = Final(me).assignee
<1> DEFINE me == sess[s]
           row == me.cache[me.item]
           i == me.item
<1>1. /\ me.pc = "write" /\ i \in Issues /\ row \in Row /\ Final(me) \in Row /\ Mutated(me) \in Row
      /\ IsPatch(me.patch) /\ me.fired \in SUBSET Rules
  BY UpdateFinal, CommitUpdateFields DEF CommitUpdate
<1>2. /\ Exists(i) /\ row.state = db[i].state /\ row.parent = db[i].parent
      /\ row.assignee = db[i].assignee
      /\ MoveAllowed(row, me.patch) /\ me.to = TargetState(row, me.patch)
  BY <1>1, NullAssumption DEF Serial, Exists
<1>3. Final(me)["state"] = Mutated(me)["state"]
  BY <1>1, EffectNamed DEF Final, RulesMoveNothing, Columns
<1>4. Mutated(me)["state"] = IF "state" \in DOMAIN me.patch THEN me.patch["state"] ELSE row["state"]
  BY DEF Mutated, Patched, Columns
<1>5. Final(me).state = IF me.to = None THEN row.state ELSE me.to
  BY <1>1, <1>2, <1>3, <1>4, NullAssumption DEF TargetState, IsPatch
<1>6. ASSUME NEW c \in {"state", "parent", "assignee"}
      PROVE  db'[i][c] = Final(me)[c]
  <2>1. db'[i][c] = IF c \in Written(me) THEN Final(me)[c] ELSE db[i][c]
    BY <1>1, <1>2, UpdateColumns DEF Columns
  <2>2. c \notin Written(me) => Final(me)[c] = row[c]
    BY DEF Written, Changed, Columns
  <2>3. row[c] = db[i][c]
    BY <1>2
  <2> QED
    BY <2>1, <2>2, <2>3
<1> QED
  BY <1>1, <1>2, <1>5, <1>6

\* The siblings a fresh request finds done are, and with them its own issue.
LEMMA SiblingsAllDone ==
  ASSUME IInv, IsFiniteSet(Issues), NEW s \in Sessions, ReadSiblings(s), Serial(sess[s], db),
         sess'[s].pc = "parent"
  PROVE  DoneIn(ParentOf(sess[s]), db)
<1> DEFINE me == sess[s]
           p == ParentOf(me)
           kids == {i \in Issues : db[i] # NoRow /\ db[i].parent = p}
<1>1. /\ me.pc = "siblings" /\ Siblings(me) # {} /\ \A j \in Siblings(me) : SiblingDone(me, j)
  BY SiblingsFields
<1>2. me.item \in Issues /\ me.cache[me.item] # NoRow
  BY <1>1, OfSession DEF Local
<1>3. me.item \in kids /\ Terminal(db[me.item].state)
  BY <1>1, <1>2 DEF Serial, ParentOf
<1>4. \A j \in Siblings(me) : j \in kids /\ j # me.item /\ Terminal(db[j].state)
  BY <1>1 DEF Siblings, Children, Exists, SiblingDone, StateSeen, Serial
<1>5. \A i \in kids : i # me.item => i \in Siblings(me)
  BY DEF Siblings, Children, Exists
<1>6. \A i \in kids : Terminal(db[i].state)
  BY <1>3, <1>4, <1>5
<1>7. Cardinality(kids) > 1
  <2>1. PICK j \in Siblings(me) : TRUE
    BY <1>1
  <2>2. IsFiniteSet(kids)
    BY FS_Subset
  <2> HIDE DEF kids
  <2>3. Cardinality(kids) \in Nat
    BY <2>2, FS_CardinalityType
  <2>4. Cardinality(kids) # 0
    BY <1>3, <2>2, FS_EmptySet
  <2>5. Cardinality(kids) # 1
    <3>1. ~ \E x : kids = {x}
      BY <1>3, <1>4, <2>1
    <3> QED
      BY <2>2, <3>1, FS_Singleton
  <2> QED
    BY <2>3, <2>4, <2>5
<1> QED
  BY <1>6, <1>7 DEF DoneIn

LEMMA SerialRequests ==
  ASSUME IInv, NEW s \in Sessions, Serial(sess[s], db), Request(s)
  PROVE  Serial(sess'[s], db')
<1>1. ASSUME NEW i \in Issues, NEW p \in Patches, BeginUpdate(s, i, p) PROVE Serial(sess'[s], db')
  BY <1>1, BeginUpdateFields DEF Serial, tables, Exists
<1>2. ASSUME NEW f \in Filters, NEW p \in Patches, BeginBatch(s, f, p) PROVE Serial(sess'[s], db')
  BY <1>2, BeginBatchFields DEF Serial, tables, Matching, Exists
<1>3. ASSUME NEW items \in NewItems, BeginCreate(s, items) PROVE Serial(sess'[s], db')
  BY <1>3, BeginCreateFields, IdleFields DEF Serial
<1>4. CASE BeginOther(s)
  BY <1>4, BeginOtherFields, IdleFields DEF Serial
<1>5. ASSUME NEW q \in Projects, CreateProject(s, q) PROVE Serial(sess'[s], db')
  BY <1>5 DEF CreateProject
<1> QED
  BY <1>1, <1>2, <1>3, <1>4, <1>5 DEF Request, BeginOther

LEMMA SerialCreates ==
  ASSUME IInv, NEW s \in Sessions, Serial(sess[s], db),
         \/ ValidateItem(s) \/ EvaluateCreated(s) \/ CountActiveChildren(s) \/ CountIssues(s)
         \/ \E i \in Issues : Insert(s, i)
  PROVE  Serial(sess'[s], db')
<1>0. db' = db
  BY DEF ValidateItem, EvaluateCreated, CountActiveChildren, CountIssues, Insert, tables
<1>1. ASSUME sess'[s].cache = sess[s].cache,
             sess'[s].pc \in {"item", "insert", "created", "commit", "delete", "delete_project"}
      PROVE  Serial(sess'[s], db')
  BY <1>0, <1>1 DEF Serial
<1>2. ASSUME DropItem(s) PROVE Serial(sess'[s], db')
  BY <1>1, <1>2, DropFields, SerialIdle DEF NextItem
<1>3. CASE ValidateItem(s)
  BY <1>1, <1>2, <1>3, Validates
<1>4. CASE EvaluateCreated(s)
  BY <1>1, <1>2, <1>4, CreatedFields, SerialIdle DEF NextItem
<1>5. CASE CountActiveChildren(s) \/ CountIssues(s)
  BY <1>1, <1>5, Counts, SerialIdle
<1>6. ASSUME NEW i \in Issues, Insert(s, i) PROVE Serial(sess'[s], db')
  BY <1>1, <1>6, InsertFields
<1> QED
  BY <1>3, <1>4, <1>5, <1>6

LEMMA SerialUpdates ==
  ASSUME IInv, PendApart, RulesMoveNothing, IsFiniteSet(Issues),
         NEW s \in Sessions, Serial(sess[s], db),
         \/ \E i \in Issues : AcceptPatch(s, i)
         \/ EvaluateRules(s) \/ CommitUpdate(s) \/ ReadSiblings(s) \/ ReadParent(s)
         \/ FlagParent(s) \/ Refresh(s)
  PROVE  Serial(sess'[s], db')
<1> DEFINE me == sess[s]
<1>0. me \in SessionState /\ Local(me)
  BY OfSession
<1>1. ASSUME NEW i \in Issues, AcceptPatch(s, i) PROVE Serial(sess'[s], db')
  BY <1>1, AcceptFields DEF Serial, tables, Acceptable
<1>2. CASE EvaluateRules(s)
  <2>1. CASE sess'[s] # Idle
    <3>1. me.pc = "rules" /\ sess'[s].pc \in {"rules", "write"} /\ db' = db
      BY <1>2, <2>1, EvaluateFields DEF tables
    <3> QED
      BY <1>2, <2>1, <3>1, EvaluateFields DEF Serial
  <2> QED
    BY <2>1, SerialIdle
<1>3. CASE CommitUpdate(s)
  <2>1. /\ sess'[s].pc = IF me.to # None /\ Terminal(me.to) /\ Final(me).parent # None
                         THEN "siblings" ELSE "refresh"
        /\ sess'[s].item = me.item /\ me.item \in Issues
        /\ \A j \in Issues : sess'[s].cache[j] = IF j = me.item THEN Final(me) ELSE me.cache[j]
    BY <1>3, CommitUpdateFields
  <2>2. /\ Exists(me.item) /\ Final(me) \in Row
        /\ Final(me).state = IF me.to = None THEN me.cache[me.item].state ELSE me.to
        /\ db'[me.item].state = Final(me).state /\ db'[me.item].parent = Final(me).parent
        /\ db'[me.item].assignee = Final(me).assignee
    BY <1>3, UpdateTakes
  <2>3. \A j \in Issues : j # me.item => db'[j] = db[j]
    BY <1>3 DEF CommitUpdate, IInv, TypeOK
  <2>4. db'[me.item] # NoRow
    BY <1>3, <2>1, <2>2, StaysStored DEF Acting, Proceed, CommitUpdate, CommitDelete, At
  <2>5. \A i \in Issues : sess'[s].cache[i] # NoRow =>
          /\ db'[i] # NoRow
          /\ sess'[s].cache[i].state = db'[i].state /\ sess'[s].cache[i].parent = db'[i].parent
          /\ sess'[s].cache[i].assignee = db'[i].assignee
    BY <2>1, <2>2, <2>3, <2>4 DEF Serial
  <2>6. sess'[s].pc = "siblings" => Terminal(sess'[s].cache[sess'[s].item].state)
    BY <2>1, <2>2
  <2>7. sess'[s].pc \in {"siblings", "refresh"}
    BY <2>1
  <2> QED
    BY <2>5, <2>6, <2>7 DEF Serial
<1>4. CASE ReadSiblings(s)
  <2>1. /\ me.pc = "siblings" /\ sess'[s].pc \in {"parent", "refresh"} /\ db' = db
        /\ sess'[s].item = me.item /\ sess'[s].cache = me.cache
    BY <1>4, SiblingsFields DEF tables
  <2>2. sess'[s].pc = "parent" => DoneIn(ParentOf(sess'[s]), db')
    BY <1>4, <2>1, SiblingsAllDone DEF ParentOf
  <2> QED
    BY <2>1, <2>2 DEF Serial
<1>5. CASE ReadParent(s)
  <2>1. /\ me.pc = "parent" /\ sess'[s].pc \in {"flag", "refresh"} /\ db' = db
        /\ sess'[s].item = me.item /\ sess'[s].cache = me.cache
    BY <1>5, ParentFields DEF tables
  <2> QED
    BY <2>1 DEF Serial, ParentOf
<1>6. CASE FlagParent(s)
  <2>1. CASE sess'[s] # Idle
    <3>1. \A i \in Issues : Exists(i) =>
            /\ db'[i] # NoRow /\ db'[i].state = db[i].state /\ db'[i].parent = db[i].parent
            /\ db'[i].assignee = db[i].assignee
      BY <1>6, StaysStored, StateKept
         DEF Acting, Proceed, FlagParent, CommitDelete, CommitUpdate, At
    <3>2. /\ sess'[s].pc = "refresh"
          /\ \A j \in Issues : sess'[s].cache[j] # NoRow =>
               /\ me.cache[j] # NoRow
               /\ sess'[s].cache[j].state = me.cache[j].state
               /\ sess'[s].cache[j].parent = me.cache[j].parent
               /\ sess'[s].cache[j].assignee = me.cache[j].assignee
      BY <1>6, <2>1, FlagFields
    <3> QED
      BY <3>1, <3>2 DEF Serial, Exists
  <2> QED
    BY <2>1, SerialIdle
<1>7. CASE Refresh(s)
  <2>1. CASE sess'[s] # Idle
    BY <1>7, <2>1, RefreshFields DEF Serial, tables, Exists
  <2> QED
    BY <2>1, SerialIdle
<1> QED
  BY <1>1, <1>2, <1>3, <1>4, <1>5, <1>6, <1>7

LEMMA SerialStep ==
  IsFiniteSet(Issues) /\ OneAtATime /\ RulesMoveNothing /\ IInv /\ PendApart /\ AllSerial
    /\ [Next]_vars => AllSerial'
<1> SUFFICES ASSUME IsFiniteSet(Issues), OneAtATime, RulesMoveNothing, IInv, PendApart, AllSerial,
                    [Next]_vars
             PROVE  AllSerial'
  OBVIOUS
<1>1. ASSUME NEW s \in Sessions, Acting(s) PROVE AllSerial'
  <2>1. Serial(sess'[s], db')
    <3>0. Serial(sess[s], db)
      BY DEF AllSerial
    <3>1. CASE Request(s)
      BY <3>0, <3>1, SerialRequests
    <3>2. CASE Proceed(s)
      BY <3>0, <3>2, SerialUpdates, SerialCreates, Ends, SerialIdle DEF Proceed
    <3> QED
      BY <1>1, <3>1, <3>2 DEF Acting
  <2> QED
    BY <2>1 DEF AllSerial, OneAtATime
<1>2. CASE Crash
  BY <1>2, SerialIdle DEF Crash, AllSerial
<1>3. CASE UNCHANGED vars
  BY <1>3 DEF vars, AllSerial
<1> QED
  BY <1>1, <1>2, <1>3 DEF Next, Acting

\* Clients and rules leave the mark of the rollup to the rollup, and no rule
\* moves an issue.
BoardCovered ==
  /\ IsFiniteSet(Issues) /\ OneAtATime /\ RulesMoveNothing
  /\ \A p \in Patches : "triage" \notin DOMAIN p
  /\ \A items \in NewItems : \A k \in DOMAIN items : Flag \notin items[k].triage

Unflagged == {row \in Row : Flag \notin row.triage}

BoardInv ==
  /\ IInv /\ PendApart /\ AllSerial
  /\ \A s \in Sessions : NewFrom(sess[s], Unflagged)

\* The board as a client sees it.
BoardState == [i \in Issues |-> IF Exists(i) THEN db[i].state ELSE NoRow]
BoardParent == [i \in Issues |-> IF Exists(i) THEN db[i].parent ELSE None]
BoardFlagged == {i \in Issues : Flagged(i)}

LEMMA OnTheBoard ==
  ASSUME IInv
  PROVE  /\ \A i \in Issues : /\ BoardState[i] # NoRow <=> Exists(i)
                              /\ Exists(i) => /\ BoardState[i] = db[i].state
                                              /\ BoardParent[i] = db[i].parent
                                              /\ db[i].state \in States
                                              /\ db[i].parent \in Issues \cup {None}
                              /\ ~Exists(i) => BoardParent[i] = None
         /\ DOMAIN BoardState = Issues /\ DOMAIN BoardParent = Issues
<1>1. \A i \in Issues : Exists(i) => db[i].state \in States /\ db[i].parent \in Issues \cup {None}
  BY DEF IInv, TypeOK, Row, Exists
<1> QED
  BY <1>1, GoneAssumption DEF BoardState, BoardParent

\* Rows that keep their state, parent and flag are the same board.
LEMMA SameBoard ==
  ASSUME \A i \in Issues : /\ db'[i] # NoRow <=> db[i] # NoRow
                           /\ db[i] # NoRow => /\ db'[i].state = db[i].state
                                               /\ db'[i].parent = db[i].parent
                                               /\ Flag \in db'[i].triage <=> Flag \in db[i].triage
  PROVE  UNCHANGED <<BoardState, BoardParent, BoardFlagged>>
BY DEF BoardState, BoardParent, BoardFlagged, Flagged, Exists

\* A committed update is a change of its issue.
LEMMA UpdateIsChange ==
  ASSUME BoardCovered, BoardInv, IInv', NEW s \in Sessions, CommitUpdate(s)
  PROVE  \E i \in Issues : Board!Change(i)
<1> DEFINE me == sess[s]
<1> PICK i \in Issues : i = me.item
  BY CommitUpdateFields DEF BoardInv
<1> DEFINE row == me.cache[i]
           st == Final(me).state
           up == Final(me).parent
<1>0. IInv /\ PendApart /\ Serial(me, db)
  BY DEF BoardInv, AllSerial
<1>1. /\ i \in Issues /\ Exists(i) /\ row \in Row /\ Final(me) \in Row
      /\ row.state = db[i].state
      /\ st = IF me.to = None THEN row.state ELSE me.to
      /\ MoveAllowed(row, me.patch) /\ me.to = TargetState(row, me.patch)
      /\ db'[i].state = st /\ db'[i].parent = up
  BY <1>0, UpdateTakes DEF BoardCovered
<1>2. \A j \in Issues : j # i => db'[j] = db[j]
  BY DEF CommitUpdate, BoardInv, IInv, TypeOK
<1>3. \A j \in Issues : Exists(j) => db'[j] # NoRow
  BY <1>0, StaysStored DEF Acting, Proceed, CommitUpdate, CommitDelete, At
<1>4. IsValidTransition(TypeOf[db[i].state], TypeOf[st])
  BY <1>1 DEF MoveAllowed, IsValidTransition
<1>5. st \in States /\ up \in Issues \cup {None}
  BY <1>1 DEF Row
<1>6. up # i /\ (up # None => up \in Issues /\ Exists(up))
  <2>1. db'[i] # NoRow
    BY <1>1, <1>3
  <2>2. up # i /\ (up # None => db'[up] # NoRow)
    BY <1>1, <2>1 DEF IInv, TableInv, RefersWell, ParentFound, Exists
  <2> QED
    BY <1>2, <1>5, <2>2 DEF Exists
<1>7. ASSUME NEW j \in Issues, Exists(j)
      PROVE  Flag \in db'[j].triage <=> Flag \in db[j].triage
  <2>1. me.patch \in Patches \cup {NoPatch}
    BY <1>0, OfSession DEF SessionState
  <2>2. "triage" \notin DOMAIN me.patch
    BY <2>1 DEF BoardCovered, NoPatch
  <2>3. db'[j]["triage"] = db[j]["triage"]
    BY <1>0, <1>7, <2>2, UpdateLeaves
  <2> QED
    BY <2>3
<1>8. BoardFlagged' = BoardFlagged
  BY <1>1, <1>2, <1>3, <1>7 DEF BoardFlagged, Flagged, Exists
<1> HIDE DEF st, up
<1>9. BoardState' = [BoardState EXCEPT ![i] = st]
  BY <1>1, <1>2, <1>3 DEF BoardState, Exists
<1>10. BoardParent' = [BoardParent EXCEPT ![i] = up]
  BY <1>1, <1>2, <1>3 DEF BoardParent, Exists
<1>11. BoardState[i] = db[i].state /\ BoardState[i] # NoRow /\ (up # None => BoardState[up] # NoRow)
  BY <1>0, <1>1, <1>6, OnTheBoard
<1>12. /\ BoardState[i] # NoRow
       /\ \E t \in States, v \in Issues \cup {None} :
            /\ IsValidTransition(TypeOf[BoardState[i]], TypeOf[t])
            /\ v # i /\ (v # None => BoardState[v] # NoRow)
            /\ BoardState' = [BoardState EXCEPT ![i] = t]
            /\ BoardParent' = [BoardParent EXCEPT ![i] = v]
       /\ BoardFlagged' = BoardFlagged
  BY <1>4, <1>5, <1>6, <1>8, <1>9, <1>10, <1>11
<1>13. Board!Change(i)
  BY <1>12 DEF Board!Change, Board!OnBoard, Board!IsValidTransition, IsValidTransition,
     Board!ValidTransitions, ValidTransitions, BoardState, BoardParent, BoardFlagged
<1> QED
  BY <1>13

\* A committed create adds its rows.
LEMMA CreateIsAdd ==
  ASSUME BoardInv, NEW s \in Sessions, CommitCreate(s)
  PROVE  (\E new \in SUBSET Issues : Board!Add(new)) \/ UNCHANGED Board!board
<1> DEFINE me == sess[s]
<1> PICK new \in SUBSET Issues : new = {j \in Issues : me.pend[j] # NoRow}
  OBVIOUS
<1>0. /\ IInv /\ PendApart /\ NewFrom(me, Unflagged) /\ PendInv(me)
      /\ me.pend \in [Issues -> Row \cup {NoRow}]
  BY OfSession DEF BoardInv, SessionState
<1>1. \A j \in Issues : db'[j] = IF j \in new THEN me.pend[j] ELSE db[j]
  BY DEF CommitCreate, Inserted
<1>2. \A j \in new : /\ me.pend[j] \in Row /\ me.pend[j] # NoRow /\ ~Exists(j)
                     /\ Flag \notin me.pend[j].triage
                     /\ me.pend[j].parent # None => Exists(me.pend[j].parent)
  BY <1>0 DEF PendApart, Exists, NewFrom, Unflagged, PendInv, RefersWell, ParentFound
<1>3. CASE new = {}
  <2>1. \A j \in Issues : db'[j] = db[j]
    BY <1>1, <1>3
  <2>2. UNCHANGED <<BoardState, BoardParent, BoardFlagged>>
    BY <2>1, SameBoard
  <2> QED
    BY <2>2 DEF Board!board, BoardState, BoardParent, BoardFlagged
<1>4. CASE new # {}
  <2> DEFINE st == [j \in new |-> me.pend[j].state]
             up == [j \in new |-> me.pend[j].parent]
  <2>1. st \in [new -> States] /\ up \in [new -> Issues \cup {None}]
    BY <1>2 DEF Row
  <2>2. \A j \in new : up[j] # None => up[j] \in Issues /\ Exists(up[j])
    BY <1>2 DEF Row
  <2>3. BoardState' = [j \in Issues |-> IF j \in new THEN st[j] ELSE BoardState[j]]
    BY <1>1, <1>2 DEF BoardState, Exists
  <2>4. BoardParent' = [j \in Issues |-> IF j \in new THEN up[j] ELSE BoardParent[j]]
    BY <1>1, <1>2 DEF BoardParent, Exists
  <2>5. BoardFlagged' = BoardFlagged
    BY <1>1, <1>2 DEF BoardFlagged, Flagged, Exists
  <2>6. \A j \in new : BoardState[j] = NoRow
    BY <1>0, <1>2, OnTheBoard
  <2>7. \A j \in new : up[j] # None => BoardState[up[j]] # NoRow
    BY <1>0, <2>2, OnTheBoard
  <2> HIDE DEF st, up
  <2>8. /\ \A j \in new : ~(BoardState[j] # NoRow)
        /\ \E t \in [new -> States], v \in [new -> Issues \cup {None}] :
             /\ \A j \in new : v[j] # None => BoardState[v[j]] # NoRow
             /\ BoardState' = [j \in Issues |-> IF j \in new THEN t[j] ELSE BoardState[j]]
             /\ BoardParent' = [j \in Issues |-> IF j \in new THEN v[j] ELSE BoardParent[j]]
        /\ BoardFlagged' = BoardFlagged
    BY <2>1, <2>3, <2>4, <2>5, <2>6, <2>7
  <2>9. Board!Add(new)
    BY <1>4, <2>8 DEF Board!Add, Board!OnBoard, BoardState, BoardParent, BoardFlagged
  <2> QED
    BY <2>9
<1> QED
  BY <1>3, <1>4

\* A committed delete removes an issue without children, or nothing.
LEMMA DeleteIsRemove ==
  ASSUME BoardInv, NEW s \in Sessions, CommitDelete(s)
  PROVE  (\E i \in Issues : Board!Remove(i)) \/ UNCHANGED Board!board
<1> DEFINE me == sess[s]
<1>0. IInv /\ db \in [Issues -> Row \cup {NoRow}] /\ me.item \in Issues
  BY OfSession DEF BoardInv, IInv, TypeOK, CommitDelete, At, Local
<1> PICK i \in Issues : i = me.item
  BY <1>0
<1>1. CASE db' = db \/ ~Exists(i)
  <2>1. \A j \in Issues : db'[j] = db[j]
    BY <1>0, <1>1 DEF CommitDelete, Deleted, Exists
  <2>2. UNCHANGED <<BoardState, BoardParent, BoardFlagged>>
    BY <2>1, SameBoard
  <2> QED
    BY <2>2 DEF Board!board, BoardState, BoardParent, BoardFlagged
<1>2. CASE db' # db /\ Exists(i)
  <2>1. Children(i) = {} /\ \A j \in Issues : db'[j] = IF j = i THEN NoRow ELSE db[j]
    BY <1>0, <1>2 DEF CommitDelete, Deleted, Referenced
  <2>2. BoardState' = [BoardState EXCEPT ![i] = NoRow]
    BY <2>1 DEF BoardState, Exists
  <2>3. BoardParent' = [BoardParent EXCEPT ![i] = None]
    BY <2>1 DEF BoardParent, Exists
  <2>4. BoardFlagged' = BoardFlagged \ {i}
    BY <2>1 DEF BoardFlagged, Flagged, Exists
  <2>5. BoardState[i] # NoRow /\ {j \in Issues : BoardState[j] # NoRow /\ BoardParent[j] = i} = {}
    BY <1>0, <1>2, <2>1, OnTheBoard DEF Children
  <2>6. Board!Remove(i)
    BY <2>2, <2>3, <2>4, <2>5
       DEF Board!Remove, Board!OnBoard, Board!ChildrenOf, BoardState, BoardParent, BoardFlagged
  <2> QED
    BY <2>6
<1> QED
  BY <1>1, <1>2

\* The board counts as the table does.
LEMMA SizeOnTheBoard == \A S : Board!Cardinality(S) = Cardinality(S)
BY DEF Board!Cardinality, Cardinality

\* The rollup flags a parent whose children are done, or changes nothing.
LEMMA FlagIsRollUp ==
  ASSUME BoardInv, NEW s \in Sessions, FlagParent(s)
  PROVE  (\E i \in Issues : Board!RollUp(i)) \/ UNCHANGED Board!board
<1> DEFINE me == sess[s]
<1>0. /\ IInv /\ PendApart /\ db \in [Issues -> Row \cup {NoRow}]
      /\ me \in SessionState /\ Local(me) /\ Serial(me, db) /\ me.pc = "flag"
  BY OfSession DEF BoardInv, AllSerial, IInv, TypeOK, FlagParent, At
<1>1. CASE db' = db
  BY <1>1 DEF Board!board, Exists, Flagged
<1>2. CASE db' # db
  <2>1. ParentOf(me) \in Issues
    BY <1>0 DEF Local, ParentOf, SessionState, Row
  <2> PICK p \in Issues : p = ParentOf(me)
    BY <2>1
  <2>2. me.seen = {} /\ Exists(p) /\ db' = [db EXCEPT ![p].triage = {Flag}]
    BY <1>2 DEF FlagParent
  <2>3. DoneIn(p, db)
    BY <1>0 DEF Serial
  <2>4. \A j \in Issues : Exists(j) =>
          db'[j] # NoRow /\ db'[j].state = db[j].state /\ db'[j].parent = db[j].parent
    BY <1>0, StaysStored, StateKept
       DEF Acting, Proceed, FlagParent, CommitDelete, CommitUpdate, At
  <2>5. \A j \in Issues : j # p => db'[j] = db[j]
    BY <1>0, <2>2
  <2>6. Flag \in db'[p].triage
    <3>1. db[p] \in Row /\ db'[p] = [db[p] EXCEPT !.triage = {Flag}]
      BY <1>0, <2>2 DEF Exists
    <3> QED
      BY <3>1 DEF Row
  <2>7. \A j \in Issues : db'[j] # NoRow <=> Exists(j)
    BY <2>2, <2>4, <2>5 DEF Exists
  <2>8. BoardState' = BoardState
    BY <2>4, <2>7 DEF BoardState, Exists
  <2>9. BoardParent' = BoardParent
    BY <2>4, <2>7 DEF BoardParent, Exists
  <2>10. BoardFlagged' = BoardFlagged \cup {p}
    BY <2>2, <2>4, <2>5, <2>6 DEF BoardFlagged, Flagged, Exists
  <2>11. BoardState[p] # NoRow
    BY <1>0, <2>2, OnTheBoard
  <2>12. {j \in Issues : BoardState[j] # NoRow /\ BoardParent[j] = p}
           = {j \in Issues : db[j] # NoRow /\ db[j].parent = p}
    BY <1>0, OnTheBoard DEF Exists
  <2>13. /\ Cardinality({j \in Issues : BoardState[j] # NoRow /\ BoardParent[j] = p}) > 1
         /\ \A j \in {k \in Issues : BoardState[k] # NoRow /\ BoardParent[k] = p} :
              TypeOf[BoardState[j]] \in TerminalTypes
    <3>1. \A j \in {k \in Issues : db[k] # NoRow /\ db[k].parent = p} : BoardState[j] = db[j].state
      BY <1>0, OnTheBoard DEF Exists
    <3> QED
      BY <2>3, <2>12, <3>1 DEF DoneIn, Terminal
  <2>14. Board!RollUp(p)
    BY SizeOnTheBoard, <2>8, <2>9, <2>10, <2>11, <2>13
       DEF Board!RollUp, Board!OnBoard, Board!ChildrenOf, Board!TerminalTypes, TerminalTypes,
           BoardState, BoardParent, BoardFlagged
  <2> QED
    BY <2>14
<1> QED
  BY <1>1, <1>2

LEMMA ConvertIsNothing ==
  ASSUME BoardInv, NEW s \in Sessions, NEW q \in Projects, CommitConvert(s, q)
  PROVE  UNCHANGED Board!board
<1>0. IInv /\ PendApart /\ db \in [Issues -> Row \cup {NoRow}]
  BY DEF BoardInv, IInv, TypeOK
<1>1. \A j \in Issues : Exists(j) => db'[j] # NoRow
  BY <1>0, StaysStored DEF Acting, Proceed, CommitConvert, CommitDelete, At
<1>2. \A j \in Issues : ~Exists(j) => db'[j] = NoRow
  BY <1>0 DEF CommitConvert, Exists
<1>3. ASSUME NEW j \in Issues, Exists(j)
      PROVE  /\ db'[j].state = db[j].state /\ db'[j].parent = db[j].parent
             /\ db'[j].triage = db[j].triage
  <2>1. \A c \in {"state", "parent", "triage"} : db'[j][c] = db[j][c]
    BY <1>0, <1>3, ConvertColumns DEF Columns
  <2> QED
    BY <2>1
<1>4. UNCHANGED <<BoardState, BoardParent, BoardFlagged>>
  BY <1>1, <1>2, <1>3, SameBoard DEF Exists
<1> QED
  BY <1>4 DEF Board!board, BoardState, BoardParent, BoardFlagged

LEMMA BoardInvStep == BoardCovered /\ BoardInv /\ [Next]_vars => BoardInv'
<1> SUFFICES ASSUME BoardCovered, BoardInv, [Next]_vars PROVE BoardInv'
  OBVIOUS
<1>1. IInv' /\ PendApart' /\ AllSerial'
  BY IInvStep, PendApartStep, SerialStep DEF BoardCovered, BoardInv
<1>2. ASSUME NEW o \in Sessions PROVE NewFrom(sess'[o], Unflagged)
  <2>1. ASSUME NEW s \in Sessions, Acting(s) PROVE NewFrom(sess'[o], Unflagged)
    <3>1. \A items \in NewItems : \A k \in DOMAIN items : items[k] \in Unflagged
      BY ItemsAreRows DEF BoardCovered, Unflagged
    <3>2. \A row \in Unflagged \cap Row, fired \in SUBSET Rules :
            ApplyEffects(row, fired) \in Unflagged
      BY EffectsKeep DEF BoardCovered, Unflagged
    <3>3. NewFrom(sess[s], Unflagged) /\ IInv /\ o = s
      BY DEF BoardInv, BoardCovered, OneAtATime
    <3> QED
      BY <2>1, <3>1, <3>2, <3>3, NewFromActs
  <2>2. CASE Crash
    BY <2>2, IdleFields DEF Crash, NewFrom
  <2>3. CASE UNCHANGED vars
    BY <2>3 DEF vars, BoardInv
  <2> QED
    BY <2>1, <2>2, <2>3 DEF Next, Acting
<1> QED
  BY <1>1, <1>2 DEF BoardInv

LEMMA BoardStep ==
  BoardCovered /\ BoardInv /\ BoardInv' /\ [Next]_vars => [Board!BoardNext]_Board!board
<1> SUFFICES ASSUME BoardCovered, BoardInv, BoardInv', [Next]_vars
             PROVE  Board!BoardNext \/ UNCHANGED Board!board
  OBVIOUS
<1>1. CASE db' = db
  BY <1>1 DEF Board!board, Exists, Flagged
<1>2. CASE db' # db
  <2>1. PICK s \in Sessions : Acting(s)
    BY <1>2 DEF Next, Crash, vars, tables, Acting
  <2>2. CASE CommitUpdate(s)
    BY <2>2, UpdateIsChange DEF Board!BoardNext, BoardInv
  <2>3. CASE FlagParent(s)
    BY <2>3, FlagIsRollUp DEF Board!BoardNext
  <2>4. CASE CommitCreate(s)
    BY <2>4, CreateIsAdd DEF Board!BoardNext
  <2>5. CASE CommitDelete(s)
    BY <2>5, DeleteIsRemove DEF Board!BoardNext
  <2>6. ASSUME NEW q \in Projects, CommitConvert(s, q) PROVE UNCHANGED Board!board
    BY <2>6, ConvertIsNothing
  <2> QED
    BY <1>2, <2>1, <2>2, <2>3, <2>4, <2>5, <2>6, WhoWrites
<1> QED
  BY <1>1, <1>2

LEMMA BoardStart == Init => Board!BoardInit
<1> SUFFICES ASSUME Init PROVE Board!BoardInit
  OBVIOUS
<1>1. IInv /\ db = InitRows
  BY IInvInit DEF Init
<1>2. \A i \in Issues : Exists(i) =>
        /\ db[i].parent # i
        /\ db[i].parent # None => db[i].parent \in Issues /\ Exists(db[i].parent)
  BY <1>1, OnTheBoard DEF IInv, TableInv, RefersWell, ParentFound
<1>3. /\ BoardState \in [Issues -> States \cup {NoRow}]
      /\ BoardParent \in [Issues -> Issues \cup {None}]
      /\ BoardFlagged \in SUBSET Issues
  BY <1>1, OnTheBoard DEF BoardState, BoardParent, BoardFlagged
<1>4. ASSUME NEW i \in Issues
      PROVE  BoardParent[i] # i /\ (BoardParent[i] # None => BoardState[BoardParent[i]] # NoRow)
  BY <1>1, <1>2, OnTheBoard, NullAssumption
<1> QED
  BY <1>3, <1>4 DEF Board!BoardInit, Board!OnBoard, BoardState, BoardParent, BoardFlagged

\* Requests served one after the other implement the board, for any issues,
\* patches, batches and rules that do not move issues: every commit is one
\* change of the board, and all the other statements are none.
THEOREM RequestsServeBoard == ASSUME BoardCovered PROVE Spec => ServesBoard
<1>1. Init => BoardInv
  <2> SUFFICES ASSUME Init PROVE BoardInv
    OBVIOUS
  <2>1. sess = [s \in Sessions |-> Idle]
    BY DEF Init
  <2> QED
    BY <2>1, IInvInit, SerialIdle, IdleFields
       DEF BoardInv, PendApart, AllSerial, NewFrom
<1>2. BoardInv /\ [Next]_vars => BoardInv'
  BY BoardInvStep
<1>3. BoardInv /\ BoardInv' /\ [Next]_vars => [Board!BoardNext]_Board!board
  BY BoardStep
<1> QED
  BY <1>1, <1>2, <1>3, BoardStart, PTL DEF Spec, ServesBoard, Board!BoardSpec

-----------------------------------------------------------------------------
(* A rule that limits the children of an issue keeps its limit.            *)

\* The rule is in force, and no patch files an issue under another parent.
TwoCovered ==
  /\ IsFiniteSet(Issues) /\ OneAtATime
  /\ TwoChildrenRule \subseteq Rules
  /\ \A p \in Patches : "parent" \in DOMAIN p => p["parent"] = None
  /\ \A p \in Issues : Cardinality(InitChildren(p)) <= 2

\* The children of an issue as the request sees them, its own rows included.
Kids(me, p, table) ==
  {j \in Issues : \/ me.pend[j] # NoRow /\ me.pend[j].parent = p
                  \/ me.pend[j] = NoRow /\ table[j] # NoRow /\ table[j].parent = p}

\* Those the rule has let pass: all but the one just inserted.
Passed(me, p, table) ==
  IF me.pc = "created" THEN Kids(me, p, table) \ {me.item} ELSE Kids(me, p, table)

TwoInv ==
  /\ IInv /\ PendApart
  /\ \A p \in Issues : Cardinality(Children(p)) <= 2
  /\ \A s \in Sessions, p \in Issues : Cardinality(Passed(sess[s], p, db)) <= 2

LEMMA FewerKids ==
  ASSUME IsFiniteSet(Issues), NEW S, S \subseteq Issues, NEW T, T \subseteq S,
         Cardinality(S) <= 2
  PROVE  Cardinality(T) <= 2
<1>1. IsFiniteSet(S)
  BY FS_Subset
<1>2. Cardinality(T) <= Cardinality(S) /\ Cardinality(S) \in Nat /\ Cardinality(T) \in Nat
  BY <1>1, FS_Subset, FS_CardinalityType
<1> QED
  BY <1>2

\* A new row that the rule lets pass has at most one sibling, pending or not.
LEMMA RuleLimits ==
  ASSUME TwoCovered, NEW ctx, NEW p, p # None, "parent_id" \in DOMAIN ctx, ctx["parent_id"] = p,
         NEW rows, Allowed(Rules, "issue.created", ctx, rows), IsFiniteSet(DOMAIN rows)
  PROVE  Cardinality({k \in DOMAIN rows : rows[k].parent = p}) <= 2
<1> DEFINE where == [parent |-> Current("parent_id")]
           c == [type |-> "count_query", operator |-> ">", value |-> 2, where |-> where]
           sel == Selected(where, ctx, rows)
<1>1. PICK r \in Rules : /\ r.trigger = "issue.created" /\ r.enabled = TRUE /\ r.rejects = TRUE
                         /\ r.condition = c
  BY DEF TwoCovered, TwoChildrenRule, Rule
<1>2. RuleVerdict(r, ctx, rows) # "true"
  BY <1>1 DEF Allowed, Loaded, Stops
<1>3. EvaluateCondition(c, ctx, rows) # "true"
  BY <1>1, <1>2 DEF RuleVerdict
<1>4. sel = {k \in DOMAIN rows : rows[k].parent = p}
  BY DEF Selected, Current, ResolveValue, ResolveField
<1>5. EvaluateCondition(c, ctx, rows) = Judge(Compare(">", Cardinality(sel), 2))
  BY DEF EvaluateCondition, Composites, Leaf, CompareOps
<1> HIDE DEF sel, c
<1>6. ~(Cardinality(sel) > 2)
  BY <1>3, <1>5 DEF Judge, Compare
<1>7. Cardinality(sel) \in Nat
  BY <1>4, FS_Subset, FS_CardinalityType
<1>8. Cardinality(sel) <= 2
  BY <1>6, <1>7
<1> QED
  BY <1>4, <1>8

\* No step but a create gives an issue a child.
LEMMA NoNewChild ==
  ASSUME IInv, PendApart, TwoCovered, NEW s \in Sessions, Acting(s), ~CommitCreate(s),
         NEW j \in Issues, NEW p \in Issues, db'[j] # NoRow, db'[j].parent = p
  PROVE  db[j] # NoRow /\ db[j].parent = p
<1>1. Exists(j)
  BY RowsFrom DEF Exists
<1>2. CASE CommitUpdate(s)
  <2> DEFINE me == sess[s]
  <2>1. /\ me.patch \in Patches \cup {NoPatch} /\ me.cache[me.item] \in Row /\ IsPatch(me.patch)
        /\ Final(me).parent = Mutated(me).parent
    BY <1>2, OfSession, UpdateFinal DEF SessionState, CommitUpdate
  <2>2. CASE "parent" \in DOMAIN me.patch
    <3>1. Final(me)["parent"] = None
      BY <2>1, <2>2, PatchedRow DEF TwoCovered, NoPatch, Mutated
    <3>2. db'[j]["parent"] \in {Final(me)["parent"], db[j]["parent"]}
      BY <1>1, <1>2, UpdateColumns DEF Columns
    <3> QED
      BY <1>1, <3>1, <3>2, NullAssumption DEF Exists
  <2>3. CASE "parent" \notin DOMAIN me.patch
    <3>1. db'[j]["parent"] = db[j]["parent"]
      BY <1>1, <1>2, <2>3, UpdateLeaves
    <3> QED
      BY <1>1, <3>1 DEF Exists
  <2> QED
    BY <2>2, <2>3
<1>3. CASE CommitDelete(s)
  BY <1>3 DEF CommitDelete, Deleted, IInv, TypeOK
<1>4. CASE ~CommitUpdate(s) /\ ~CommitDelete(s)
  BY <1>1, <1>4, StateKept DEF Exists
<1> QED
  BY <1>2, <1>3, <1>4

\* The stored children have passed.
LEMMA StoredPassed ==
  ASSUME PendApart, NEW s \in Sessions, Local(sess[s]), NEW p \in Issues
  PROVE  \A j \in Issues : db[j] # NoRow /\ db[j].parent = p => j \in Passed(sess[s], p, db)
<1>1. sess[s].pc = "created" => sess[s].item \in Issues /\ sess[s].pend[sess[s].item] # NoRow
  BY DEF Local
<1> QED
  BY <1>1 DEF PendApart, Passed, Kids

\* Steps that insert nothing and let nothing pass.
LEMMA PassesNone ==
  ASSUME IInv, PendApart, TwoCovered, NEW s \in Sessions, Acting(s), NEW p \in Issues,
         ~CommitCreate(s), sess'[s].pc # "created",
         \/ sess'[s].pend = sess[s].pend /\ sess[s].pc # "created"
         \/ \A j \in Issues : sess'[s].pend[j] = NoRow
  PROVE  Passed(sess'[s], p, db') \subseteq Passed(sess[s], p, db)
<1>1. \A j \in Issues : db'[j] # NoRow /\ db'[j].parent = p => db[j] # NoRow /\ db[j].parent = p
  BY NoNewChild
<1>2. \A j \in Issues : db[j] # NoRow /\ db[j].parent = p => j \in Passed(sess[s], p, db)
  BY StoredPassed, OfSession
<1> QED
  BY <1>1, <1>2 DEF Passed, Kids

LEMMA PassesUpdate ==
  ASSUME TwoInv, TwoCovered, NEW s \in Sessions, Acting(s), NEW p \in Issues,
         \/ Request(s)
         \/ \E i \in Issues : AcceptPatch(s, i)
         \/ EvaluateRules(s) \/ CommitUpdate(s) \/ ReadSiblings(s) \/ ReadParent(s)
         \/ FlagParent(s) \/ Refresh(s) \/ CountActiveChildren(s) \/ CountIssues(s)
         \/ sess'[s] = Idle /\ ~CommitCreate(s)
  PROVE  Passed(sess'[s], p, db') \subseteq Passed(sess[s], p, db)
<1>0. IInv /\ PendApart /\ ~CommitCreate(s)
  BY DEF TwoInv, CommitCreate, Request, BeginUpdate, BeginBatch, BeginCreate, BeginDelete,
     CreateProject, BeginConvert, BeginDeleteProject, Begin, AcceptPatch, EvaluateRules,
     CommitUpdate, ReadSiblings, ReadParent, FlagParent, Refresh, CountActiveChildren,
     CountIssues, At
<1>1. ASSUME sess'[s].pc # "created",
             \/ sess'[s].pend = sess[s].pend /\ sess[s].pc # "created"
             \/ \A j \in Issues : sess'[s].pend[j] = NoRow
      PROVE  Passed(sess'[s], p, db') \subseteq Passed(sess[s], p, db)
  BY <1>0, <1>1, PassesNone
<1> DEFINE Goal == Passed(sess'[s], p, db') \subseteq Passed(sess[s], p, db)
<1>2. CASE sess'[s] = Idle
  BY <1>1, <1>2, IdleFields
<1>3. CASE Request(s)
  <2>1. ASSUME NEW i \in Issues, NEW q \in Patches, BeginUpdate(s, i, q) PROVE Goal
    BY <1>0, <1>1, <2>1, BeginUpdateFields, IdleFields
  <2>2. ASSUME NEW f \in Filters, NEW q \in Patches, BeginBatch(s, f, q) PROVE Goal
    BY <1>0, <1>1, <2>2, BeginBatchFields, IdleFields
  <2>3. ASSUME NEW items \in NewItems, BeginCreate(s, items) PROVE Goal
    BY <1>0, <1>1, <2>3, BeginCreateFields, IdleFields
  <2>4. CASE BeginOther(s)
    BY <1>0, <1>1, <2>4, BeginOtherFields, IdleFields
  <2>5. ASSUME NEW q \in Projects, CreateProject(s, q) PROVE Goal
    BY <1>1, <2>5 DEF CreateProject, Begin, At
  <2> QED
    BY <1>3, <2>1, <2>2, <2>3, <2>4, <2>5 DEF Request, BeginOther
<1>4. ASSUME NEW i \in Issues, AcceptPatch(s, i) PROVE Goal
  BY <1>0, <1>1, <1>4, AcceptFields
<1>5. CASE EvaluateRules(s) /\ sess'[s] # Idle
  <2>1. /\ sess'[s].pc \in {"rules", "write"} /\ sess[s].pc = "rules"
        /\ sess'[s].pend = sess[s].pend
    BY <1>0, <1>5, EvaluateFields
  <2> QED
    BY <1>1, <2>1
<1>6. CASE CommitUpdate(s) \/ ReadSiblings(s) \/ ReadParent(s)
  <2>1. /\ sess'[s].pc \in {"siblings", "refresh", "parent", "flag"}
        /\ sess[s].pc \in {"write", "siblings", "parent"} /\ sess'[s].pend = sess[s].pend
    BY <1>0, <1>6, CommitUpdateFields, SiblingsFields, ParentFields
  <2> QED
    BY <1>1, <2>1
<1>7. CASE (FlagParent(s) \/ Refresh(s)) /\ sess'[s] # Idle
  <2>1. /\ sess'[s].pc \in {"refresh", "check"} /\ sess[s].pc \in {"flag", "refresh"}
        /\ sess'[s].pend = sess[s].pend
    BY <1>0, <1>7, FlagFields, RefreshFields
  <2> QED
    BY <1>1, <2>1
<1>8. CASE (CountActiveChildren(s) \/ CountIssues(s)) /\ sess'[s] # Idle
  <2>1. /\ sess'[s].pc \in {"delete", "delete_project"} /\ sess[s].pc \in {"count", "count_issues"}
        /\ sess'[s].pend = sess[s].pend
    BY <1>0, <1>8, Counts DEF CountActiveChildren, CountIssues, At
  <2> QED
    BY <1>1, <2>1
<1> QED
  BY <1>2, <1>3, <1>4, <1>5, <1>6, <1>7, <1>8

\* An item that is dropped, checked or inserted lets nothing pass, and the
\* commit stores what has passed.
LEMMA PassesCreates ==
  ASSUME TwoInv, TwoCovered, NEW s \in Sessions, Acting(s), NEW p \in Issues,
         \/ ValidateItem(s) \/ CommitCreate(s) \/ (EvaluateCreated(s) /\ DropItem(s))
         \/ \E i \in Issues : Insert(s, i)
  PROVE  Passed(sess'[s], p, db') \subseteq Passed(sess[s], p, db)
<1> DEFINE Goal == Passed(sess'[s], p, db') \subseteq Passed(sess[s], p, db)
<1>0. IInv /\ PendApart
  BY DEF TwoInv
<1>1. \A j \in Issues : db[j] # NoRow /\ db[j].parent = p => j \in Passed(sess[s], p, db)
  BY <1>0, StoredPassed, OfSession
<1>2. CASE sess'[s] = Idle /\ ~CommitCreate(s)
  BY <1>2, PassesUpdate
<1>3. ASSUME DropItem(s), sess'[s] # Idle, db' = db, sess[s].pc \in {"item", "created"}
      PROVE  Goal
  <2>1. /\ sess'[s].pc \in {"item", "commit"}
        /\ \A j \in Issues : sess'[s].pend[j] =
             IF j = sess[s].item THEN NoRow ELSE sess[s].pend[j]
    BY <1>0, <1>3, DropFields DEF NextItem
  <2> QED
    BY <1>1, <1>3, <2>1 DEF Passed, Kids
<1>4. CASE ValidateItem(s) /\ sess'[s] # Idle
  <2>1. sess[s].pc = "item" /\ db' = db /\ ~CommitCreate(s)
    BY <1>4 DEF ValidateItem, CommitCreate, At, tables
  <2>2. CASE DropItem(s)
    BY <1>3, <1>4, <2>1, <2>2
  <2>3. CASE ~DropItem(s)
    <3>1. sess'[s].pc = "insert" /\ sess'[s].pend = sess[s].pend
      BY <1>0, <1>4, <2>3, Validates
    <3> QED
      BY <1>0, <2>1, <3>1, PassesNone
  <2> QED
    BY <2>2, <2>3
<1>5. CASE EvaluateCreated(s) /\ DropItem(s) /\ sess'[s] # Idle
  BY <1>3, <1>5 DEF EvaluateCreated, At, tables
<1>6. ASSUME NEW i \in Issues, Insert(s, i) PROVE Goal
  <2>1. /\ sess[s].pc = "insert" /\ sess'[s].pc = "created" /\ sess'[s].item = i /\ db' = db
        /\ \A j \in Issues : j # i => sess'[s].pend[j] = sess[s].pend[j]
    BY <1>0, <1>6, InsertFields
  <2> QED
    BY <2>1 DEF Passed, Kids
<1>7. CASE CommitCreate(s)
  <2>1. /\ sess[s].pc = "commit"
        /\ \A j \in Issues : db'[j] = IF sess[s].pend[j] # NoRow THEN sess[s].pend[j] ELSE db[j]
    BY <1>7 DEF CommitCreate, At, Inserted
  <2>2. sess'[s].pc = "idle" /\ \A j \in Issues : sess'[s].pend[j] = NoRow
    BY <1>0, <1>7, Ends, IdleFields
  <2> QED
    BY <2>1, <2>2 DEF Passed, Kids
<1> QED
  BY <1>2, <1>4, <1>5, <1>6, <1>7 DEF ValidateItem, CommitCreate, EvaluateCreated, At

\* A new row that passes: the rule has counted it together with its siblings.
LEMMA PassesRule ==
  ASSUME TwoInv, TwoCovered, NEW s \in Sessions, NEW p \in Issues,
         EvaluateCreated(s), sess'[s] # Idle, ~DropItem(s)
  PROVE  Cardinality(Passed(sess'[s], p, db')) <= 2
<1> DEFINE me == sess[s]
           row == me.pend[me.item]
           rows == RowsWith(me.pend)
<1>0. IInv /\ PendApart /\ Cardinality(Passed(me, p, db)) <= 2
  BY DEF TwoInv
<1>1. /\ me.pc = "created" /\ me.item \in Issues /\ row \in Row
      /\ Allowed(Rules, "issue.created", CreateContext(row), rows)
      /\ sess'[s].pc = NextItem(me)
      /\ \A j \in Issues : sess'[s].pend[j] = IF j = me.item THEN Effected(me) ELSE me.pend[j]
      /\ db' = db
  BY <1>0, CreatedFields DEF EvaluateCreated, tables
<1>2. Effected(me) \in Row /\ Effected(me).parent = row.parent /\ row # NoRow
  <2>1. Fired(Rules, "issue.created", CreateContext(row), rows) \in SUBSET Rules
    BY DEF Fired, Loaded
  <2> QED
    BY <1>1, <2>1, EffectsRow, NullAssumption DEF Effected
<1>3. Passed(sess'[s], p, db') = Kids(sess'[s], p, db)
  BY <1>1 DEF Passed, NextItem
<1>4. CASE p = row.parent
  <2> DEFINE kids == {k \in DOMAIN rows : rows[k].parent = p}
  <2>1. DOMAIN rows = {k \in Issues : Exists(k) \/ me.pend[k] # NoRow}
    BY DEF RowsWith
  <2>2. IsFiniteSet(DOMAIN rows)
    BY <2>1, FS_Subset DEF TwoCovered
  <2>3. p # None /\ "parent_id" \in DOMAIN CreateContext(row) /\ CreateContext(row)["parent_id"] = p
    BY <1>4, NullAssumption DEF CreateContext
  <2> HIDE DEF me, row
  <2>4. Cardinality(kids) <= 2
    BY <1>1, <2>2, <2>3, RuleLimits
  <2>5. \A k \in DOMAIN rows : rows[k].parent = IF me.pend[k] # NoRow THEN me.pend[k].parent
                                                ELSE db[k].parent
    BY DEF RowsWith, AsSeen
  <2>6. \A j \in Kids(sess'[s], p, db) : j \in kids
    BY <1>1, <1>2, <1>4, <2>1, <2>5, NullAssumption DEF Kids, Exists, row
  <2>7. kids \subseteq Issues
    BY <2>1
  <2> HIDE DEF kids
  <2> QED
    BY <1>3, <2>4, <2>6, <2>7, FewerKids DEF TwoCovered
<1>5. CASE p # row.parent
  <2>1. Kids(sess'[s], p, db) \subseteq Passed(me, p, db)
    BY <1>1, <1>2, <1>5, NullAssumption DEF Kids, Passed
  <2>2. Passed(me, p, db) \subseteq Issues
    BY DEF Passed, Kids
  <2> QED
    BY <1>0, <1>3, <2>1, <2>2, FewerKids DEF TwoCovered
<1> QED
  BY <1>4, <1>5

LEMMA TwoStep == TwoCovered /\ TwoInv /\ [Next]_vars => TwoInv'
<1> SUFFICES ASSUME TwoCovered, TwoInv, [Next]_vars PROVE TwoInv'
  OBVIOUS
<1>0. IInv /\ PendApart
  BY DEF TwoInv
<1>1. IInv' /\ PendApart'
  BY <1>0, IInvStep, PendApartStep
<1>2. ASSUME NEW o \in Sessions, NEW p \in Issues
      PROVE  Cardinality(Passed(sess'[o], p, db')) <= 2
  <2>0. Cardinality(Passed(sess[o], p, db)) <= 2 /\ Passed(sess[o], p, db) \subseteq Issues
    BY DEF TwoInv, Passed, Kids
  <2>1. ASSUME NEW s \in Sessions, Acting(s) PROVE Cardinality(Passed(sess'[o], p, db')) <= 2
    <3>0. o = s
      BY DEF TwoCovered, OneAtATime
    <3>1. CASE EvaluateCreated(s) /\ sess'[s] # Idle /\ ~DropItem(s)
      BY <3>0, <3>1, PassesRule
    <3>2. CASE ~(EvaluateCreated(s) /\ sess'[s] # Idle /\ ~DropItem(s))
      <4>1. \/ ValidateItem(s) \/ CommitCreate(s) \/ (EvaluateCreated(s) /\ DropItem(s))
            \/ \E i \in Issues : Insert(s, i)
            \/ Request(s)
            \/ \E i \in Issues : AcceptPatch(s, i)
            \/ EvaluateRules(s) \/ CommitUpdate(s) \/ ReadSiblings(s) \/ ReadParent(s)
            \/ FlagParent(s) \/ Refresh(s) \/ CountActiveChildren(s) \/ CountIssues(s)
            \/ sess'[s] = Idle /\ ~CommitCreate(s)
        BY <1>0, <2>1, <3>2, Ends DEF Acting, Proceed
      <4>2. Passed(sess'[s], p, db') \subseteq Passed(sess[s], p, db)
        BY <2>1, <4>1, PassesUpdate, PassesCreates
      <4> QED
        BY <2>0, <3>0, <4>2, FewerKids DEF TwoCovered
    <3> QED
      BY <3>1, <3>2
  <2>2. CASE Crash
    <3>1. db' = db /\ sess'[o] = Idle
      BY <2>2 DEF Crash, tables
    <3>2. Passed(sess'[o], p, db') \subseteq Passed(sess[o], p, db)
      <4>1. \A j \in Issues : db[j] # NoRow /\ db[j].parent = p => j \in Passed(sess[o], p, db)
        BY <1>0, StoredPassed, OfSession
      <4> QED
        BY <3>1, <4>1, IdleFields DEF Passed, Kids
    <3> QED
      BY <2>0, <3>2, FewerKids DEF TwoCovered
  <2>3. CASE UNCHANGED vars
    BY <2>0, <2>3 DEF vars
  <2> QED
    BY <2>1, <2>2, <2>3 DEF Next, Acting
<1>3. ASSUME NEW p \in Issues PROVE Cardinality(Children(p)') <= 2
  <2>1. CASE \E s \in Sessions : TRUE
    <3>1. PICK s \in Sessions : TRUE
      BY <2>1
    <3>2. \A j \in Issues : db'[j] # NoRow /\ db'[j].parent = p => j \in Passed(sess'[s], p, db')
      <4>1. Local(sess[s])'
        BY <1>1 DEF IInv
      <4>2. sess'[s].pc = "created" =>
              sess'[s].item \in Issues /\ sess'[s].pend[sess'[s].item] # NoRow
        BY <4>1 DEF Local
      <4> QED
        BY <1>1, <4>2 DEF PendApart, Passed, Kids
    <3>3. Children(p)' \subseteq Passed(sess'[s], p, db') /\ Passed(sess'[s], p, db') \subseteq Issues
      BY <3>2 DEF Children, Exists, Passed, Kids
    <3> QED
      BY <1>2, <3>3, FewerKids DEF TwoCovered
  <2>2. CASE ~ \E s \in Sessions : TRUE
    <3>1. db' = db
      BY <2>2 DEF Next, Crash, vars, tables
    <3> QED
      BY <3>1 DEF TwoInv, Children, Exists
  <2> QED
    BY <2>1, <2>2
<1> QED
  BY <1>1, <1>2, <1>3 DEF TwoInv

LEMMA TwoInit == TwoCovered /\ Init => TwoInv
<1> SUFFICES ASSUME TwoCovered, Init PROVE TwoInv
  OBVIOUS
<1>1. IInv /\ db = InitRows /\ sess = [s \in Sessions |-> Idle]
  BY IInvInit DEF Init
<1>2. PendApart
  BY <1>1, IdleFields DEF PendApart
<1>3. ASSUME NEW p \in Issues PROVE Children(p) = InitChildren(p)
  BY <1>1 DEF Children, Exists, InitChildren
<1>4. ASSUME NEW s \in Sessions, NEW p \in Issues
      PROVE  Passed(sess[s], p, db) = InitChildren(p)
  BY <1>1, IdleFields DEF Passed, Kids, InitChildren
<1> QED
  BY <1>1, <1>2, <1>3, <1>4 DEF TwoInv, TwoCovered

\* While requests are served one at a time, no issue has more than the two
\* children the rule allows it, however many a batch creates at once: the
\* rule is evaluated when the new row is flushed, and counts the rows of its
\* own transaction.
THEOREM LimitOnNewChildren == ASSUME TwoCovered PROVE Spec => []TwoChildrenRespected
<1>1. TwoInv => TwoChildrenRespected
  BY DEF TwoInv, TwoChildrenRespected
<1>2. Init => TwoInv
  BY TwoInit
<1>3. TwoInv /\ [Next]_vars => TwoInv'
  BY TwoStep
<1> QED
  BY <1>1, <1>2, <1>3, PTL DEF Spec

-----------------------------------------------------------------------------
(* The limit on the work in progress of a user is kept.                    *)

Started(st) == TypeOf[st] = "started"

\* The rule is in force, no rule moves an issue, neither clients nor rules
\* hand an issue to a user after it was created, and no issue is created
\* started: the rule is asked about none of these.
WipCovered ==
  /\ IsFiniteSet(Issues) /\ OneAtATime /\ RulesMoveNothing
  /\ WipRule \subseteq Rules
  /\ \A p \in Patches : "assignee" \in DOMAIN p => p["assignee"] = None
  /\ \A r \in Rules : "assignee" \in DOMAIN r.sets => r.sets["assignee"] = None
  /\ \A items \in NewItems : \A k \in DOMAIN items : ~Started(items[k].state)
  /\ \A i, j \in Issues :
       /\ InitRows[i] # NoRow /\ Started(InitRows[i].state)
       /\ InitRows[j] # NoRow /\ Started(InitRows[j].state)
       /\ InitRows[i].assignee = InitRows[j].assignee /\ InitRows[i].assignee # None
       => i = j

NotStarted == {row \in Row : ~Started(row.state)}

\* The request starts an issue, and the rule has been asked.
Starting(me) ==
  /\ me.pc \in {"rules", "write"}
  /\ me.to # None /\ Started(me.to)
  /\ me.pc = "rules" => Head(me.triggers) # "issue.state_changed"

\* The assignee of an issue that is being started has nothing else started.
AtLeisure(me, table) ==
  LET who == me.cache[me.item].assignee
  IN  Starting(me) /\ who # None =>
        \A j \in Issues : table[j] # NoRow /\ Started(table[j].state) => table[j].assignee # who

WipInv ==
  /\ IInv /\ PendApart /\ AllSerial
  /\ \A i, j \in Issues :
       /\ Exists(i) /\ Started(db[i].state) /\ Exists(j) /\ Started(db[j].state)
       /\ db[i].assignee = db[j].assignee /\ db[i].assignee # None
       => i = j
  /\ \A s \in Sessions : NewFrom(sess[s], NotStarted) /\ AtLeisure(sess[s], db)

\* A move to a started state that the rule lets pass is made by a user who
\* has nothing started.
LEMMA WipRejects ==
  ASSUME WipCovered, NEW ctx, NEW who, who # None,
         "assignee_id" \in DOMAIN ctx, ctx["assignee_id"] = who,
         "to_state_type" \in DOMAIN ctx, ctx["to_state_type"] = "started",
         NEW rows, Allowed(Rules, "issue.state_changed", ctx, rows), IsFiniteSet(DOMAIN rows)
  PROVE  \A k \in DOMAIN rows : rows[k].state_type = "started" => rows[k].assignee # who
<1> DEFINE where == [state_type |-> {"started"}, assignee |-> Current("assignee_id")]
           c1_ == FieldIs("to_state_type", "started")
           c2_ == [type |-> "count_query", operator |-> ">=", value |-> 1, where |-> where]
           args == << c1_, c2_ >>
           c == [type |-> "and", args |-> args]
           sel == Selected(where, ctx, rows)
<1>1. PICK r \in Rules : /\ r.trigger = "issue.state_changed" /\ r.enabled = TRUE
                         /\ r.rejects = TRUE /\ r.condition = c
  BY DEF WipCovered, WipRule, Rule
<1>2. RuleVerdict(r, ctx, rows) # "true"
  BY <1>1 DEF Allowed, Loaded, Stops
<1>3. EvaluateCondition(c, ctx, rows) # "true"
  BY <1>1, <1>2 DEF RuleVerdict
<1>4. sel = {k \in DOMAIN rows : rows[k].state_type = "started" /\ rows[k].assignee = who}
  BY DEF Selected, Current, ResolveValue, ResolveField
<1>5. Shallow(c1_, ctx, rows) = "true"
  BY DEF Shallow, Leaf, Composites, FieldIs, Literal, ResolveField, ResolveValue, Judge
<1>6. Shallow(c2_, ctx, rows) = Judge(Cardinality(sel) >= 1)
  BY DEF Shallow, Leaf, Composites, CompareOps, Compare
<1> DEFINE verdicts == [k \in DOMAIN args |-> Shallow(args[k], ctx, rows)]
<1>7. DOMAIN args = {1, 2} /\ args[1] = c1_ /\ args[2] = c2_
  OBVIOUS
<1>8. EvaluateCondition(c, ctx, rows) = FirstNot("true", verdicts)
  BY DEF EvaluateCondition, Composites, Compose
<1> HIDE DEF args, c1_, c2_, c, sel
<1>9. verdicts[1] = "true" /\ verdicts[2] = Judge(Cardinality(sel) >= 1) /\ DOMAIN verdicts = {1, 2}
  BY <1>5, <1>6, <1>7
<1> HIDE DEF verdicts
<1>10. ~(Cardinality(sel) >= 1)
  <2> SUFFICES ASSUME Cardinality(sel) >= 1 PROVE FALSE
    OBVIOUS
  <2>1. \A k \in DOMAIN verdicts : verdicts[k] = "true"
    BY <1>9 DEF Judge
  <2>2. FirstNot("true", verdicts) = "true"
    BY <2>1 DEF FirstNot
  <2> QED
    BY <1>3, <1>8, <2>2
<1>11. IsFiniteSet(sel) /\ Cardinality(sel) \in Nat
  BY <1>4, FS_Subset, FS_CardinalityType
<1>12. sel = {}
  BY <1>10, <1>11, FS_EmptySet
<1> QED
  BY <1>4, <1>12

LEMMA HeadOfConcat ==
  ASSUME NEW S, NEW q \in Seq(S), NEW t \in Seq(S), q # << >>
  PROVE  q \o t \in Seq(S) /\ q \o t # << >> /\ Head(q \o t) = Head(q)
<1>1. Len(q) \in Nat /\ Len(t) \in Nat /\ Len(q) # 0
  BY LenProperties, EmptySeq
<1>2. q \o t \in Seq(S) /\ Len(q \o t) = Len(q) + Len(t)
  BY ConcatProperties
<1>3. q \o t # << >>
  BY <1>1, <1>2, EmptySeq
<1>4. 1 \in 1 .. Len(q) + Len(t) /\ 1 <= Len(q)
  BY <1>1
<1>5. (q \o t)[1] = q[1]
  BY <1>4, ConcatProperties
<1> QED
  BY <1>2, <1>3, <1>5, HeadTailProperties

\* The rules are asked about the move before anything else.
LEMMA MoveComesFirst ==
  ASSUME NEW row, NEW p, TargetState(row, p) # None
  PROVE  Head(TriggersOf(row, p)) = "issue.state_changed"
<1> DEFINE first == << "issue.state_changed" >>
           rest == IF "assignee" \in DOMAIN p /\ p["assignee"] # row.assignee
                   THEN << "issue.assigned" >> ELSE << >>
           last == << "issue.updated" >>
<1>1. TriggersOf(row, p) = (first \o rest) \o last
  BY DEF TriggersOf
<1>2. first \in Seq(Triggers) /\ first # << >> /\ Head(first) = "issue.state_changed"
  BY DEF Triggers
<1>3. last \in Seq(Triggers)
  BY DEF Triggers
<1>4. rest \in Seq(Triggers)
  <2>1. << "issue.assigned" >> \in Seq(Triggers)
    BY DEF Triggers
  <2>2. << >> \in Seq(Triggers)
    BY EmptySeq
  <2> QED
    BY <2>1, <2>2
<1> HIDE DEF first, rest, last
<1>5. first \o rest \in Seq(Triggers) /\ first \o rest # << >> /\ Head(first \o rest) = Head(first)
  BY <1>2, <1>4, HeadOfConcat
<1>6. Head((first \o rest) \o last) = Head(first \o rest)
  BY <1>3, <1>5, HeadOfConcat
<1> QED
  BY <1>1, <1>2, <1>5, <1>6

\* The rules are asked, and the row written, only by an update under way.
LEMMA OnlyUpdates ==
  ASSUME IInv, NEW s \in Sessions, Acting(s), sess'[s].pc \in {"rules", "write"}
  PROVE  (\E i \in Issues : AcceptPatch(s, i)) \/ EvaluateRules(s)
<1>1. sess'[s] # Idle
  BY IdleFields
<1>2. ASSUME DropItem(s) PROVE FALSE
  BY <1>1, <1>2, DropFields DEF NextItem
<1>3. CASE Request(s)
  <2>1. ASSUME NEW i \in Issues, NEW q \in Patches, BeginUpdate(s, i, q) PROVE FALSE
    BY <2>1, BeginUpdateFields
  <2>2. ASSUME NEW f \in Filters, NEW q \in Patches, BeginBatch(s, f, q) PROVE FALSE
    BY <2>2, BeginBatchFields
  <2>3. ASSUME NEW items \in NewItems, BeginCreate(s, items) PROVE FALSE
    BY <2>3, BeginCreateFields
  <2>4. CASE BeginOther(s)
    BY <2>4, BeginOtherFields
  <2>5. ASSUME NEW q \in Projects, CreateProject(s, q) PROVE FALSE
    BY <2>5 DEF CreateProject, Begin, At
  <2> QED
    BY <1>3, <2>1, <2>2, <2>3, <2>4, <2>5 DEF Request, BeginOther
<1>4. CASE Proceed(s)
  <2>1. CASE CommitUpdate(s)
    BY <2>1, CommitUpdateFields
  <2>2. CASE ReadSiblings(s)
    BY <2>2, SiblingsFields
  <2>3. CASE ReadParent(s)
    BY <2>3, ParentFields
  <2>4. CASE FlagParent(s)
    BY <1>1, <2>4, FlagFields
  <2>5. CASE Refresh(s)
    BY <1>1, <2>5, RefreshFields
  <2>6. CASE ValidateItem(s)
    BY <1>2, <2>6, Validates
  <2>7. ASSUME NEW i \in Issues, Insert(s, i) PROVE FALSE
    BY <2>7, InsertFields
  <2>8. CASE EvaluateCreated(s)
    BY <1>1, <1>2, <2>8, CreatedFields DEF NextItem
  <2>9. CASE CountActiveChildren(s) \/ CountIssues(s)
    BY <1>1, <2>9, Counts
  <2> QED
    BY <1>1, <1>4, <2>1, <2>2, <2>3, <2>4, <2>5, <2>6, <2>7, <2>8, <2>9, Ends DEF Proceed
<1> QED
  BY <1>3, <1>4 DEF Acting

LEMMA LeisureStep ==
  ASSUME WipCovered, WipInv, NEW s \in Sessions, Acting(s)
  PROVE  AtLeisure(sess'[s], db')
<1> DEFINE me == sess[s]
           row == me.cache[me.item]
           ctx == UpdateContext(row, me.to)
<1>0. IInv /\ AtLeisure(me, db) /\ Serial(me, db)
  BY DEF WipInv, AllSerial
<1>1. CASE sess'[s].pc \notin {"rules", "write"}
  BY <1>1 DEF AtLeisure, Starting
<1>2. ASSUME NEW i \in Issues, AcceptPatch(s, i) PROVE AtLeisure(sess'[s], db')
  BY <1>0, <1>2, AcceptFields, MoveComesFirst DEF AtLeisure, Starting
<1>3. CASE EvaluateRules(s) /\ sess'[s] # Idle
  <2>1. /\ me.pc = "rules" /\ sess'[s].to = me.to /\ sess'[s].item = me.item
        /\ sess'[s].cache = me.cache /\ db' = db
        /\ Allowed(Rules, Head(me.triggers), ctx, CommittedRows)
    BY <1>0, <1>3, EvaluateFields DEF tables
  <2>2. CASE Starting(me)
    BY <1>0, <2>1, <2>2 DEF AtLeisure
  <2>3. CASE ~Starting(me) /\ Starting(sess'[s]) /\ row.assignee # None
    <3>1. me.to # None /\ Started(me.to) /\ Head(me.triggers) = "issue.state_changed"
      BY <2>1, <2>3 DEF Starting
    <3>2. /\ "assignee_id" \in DOMAIN ctx /\ ctx["assignee_id"] = row.assignee
          /\ "to_state_type" \in DOMAIN ctx /\ ctx["to_state_type"] = "started"
      BY <3>1 DEF UpdateContext, Started
    <3>3. DOMAIN CommittedRows = {j \in Issues : Exists(j)}
      BY DEF CommittedRows
    <3>4. IsFiniteSet(DOMAIN CommittedRows)
      BY <3>3, FS_Subset DEF WipCovered
    <3>5. \A j \in Issues : Exists(j) =>
            /\ CommittedRows[j].state_type = TypeOf[db[j].state]
            /\ CommittedRows[j].assignee = db[j].assignee
      BY DEF CommittedRows, AsSeen
    <3> HIDE DEF row, ctx
    <3>6. \A k \in DOMAIN CommittedRows :
            CommittedRows[k].state_type = "started" => CommittedRows[k].assignee # row.assignee
      BY <2>1, <2>3, <3>1, <3>2, <3>4, WipRejects
    <3>7. \A j \in Issues : db[j] # NoRow /\ Started(db[j].state) => db[j].assignee # row.assignee
      BY <3>3, <3>5, <3>6 DEF Exists, Started
    <3> QED
      BY <2>1, <3>7 DEF AtLeisure, row
  <2>4. CASE ~Starting(sess'[s]) \/ row.assignee = None
    BY <2>1, <2>4 DEF AtLeisure
  <2> QED
    BY <2>2, <2>3, <2>4
<1> QED
  BY <1>0, <1>1, <1>2, <1>3, OnlyUpdates, IdleFields

\* Where an issue that is started comes from: it was started before and has
\* kept its assignee or lost it, or a user who had nothing started takes it up.
LEMMA StartedFrom ==
  ASSUME WipCovered, WipInv, NEW s \in Sessions, Acting(s),
         NEW i \in Issues, db'[i] # NoRow, Started(db'[i].state)
  PROVE  \/ /\ Exists(i) /\ Started(db[i].state)
            /\ db'[i].assignee \in {db[i].assignee, None}
         \/ /\ i = sess[s].item
            /\ db'[i].assignee # None =>
                 \A j \in Issues : Exists(j) /\ Started(db[j].state) =>
                   db[j].assignee # db'[i].assignee
<1> DEFINE me == sess[s]
           row == me.cache[me.item]
<1>0. /\ IInv /\ PendApart /\ Serial(me, db) /\ NewFrom(me, NotStarted) /\ AtLeisure(me, db)
      /\ RulesMoveNothing
  BY DEF WipInv, AllSerial, WipCovered
<1>1. CASE CommitCreate(s)
  <2>1. db'[i] = IF me.pend[i] # NoRow THEN me.pend[i] ELSE db[i]
    BY <1>1 DEF CommitCreate, Inserted
  <2>2. me.pend[i] = NoRow
    BY <1>0, <2>1 DEF NewFrom, NotStarted
  <2> QED
    BY <2>1, <2>2 DEF Exists
<1>2. CASE CommitUpdate(s)
  <2>1. Exists(i)
    BY <1>0, <1>2, RowsFrom DEF CommitUpdate, CommitCreate, At, Exists
  <2>2. /\ me.item \in Issues /\ row \in Row /\ Final(me) \in Row
        /\ row.state = db[me.item].state /\ row.assignee = db[me.item].assignee
        /\ Final(me).state = IF me.to = None THEN row.state ELSE me.to
        /\ db'[me.item].state = Final(me).state /\ db'[me.item].assignee = Final(me).assignee
    BY <1>0, <1>2, UpdateTakes
  <2>3. CASE i # me.item
    BY <1>0, <1>2, <2>1, <2>3 DEF CommitUpdate, IInv, TypeOK
  <2>4. CASE i = me.item
    <3>1. /\ IsPatch(me.patch) /\ me.fired \in SUBSET Rules /\ Mutated(me) \in Row
          /\ me.patch \in Patches \cup {NoPatch} /\ me.pc = "write"
      BY <1>0, <1>2, UpdateFinal, OfSession DEF CommitUpdate, SessionState, At
    <3>2. Mutated(me)["assignee"] \in {row["assignee"], None}
      BY <3>1 DEF Mutated, Patched, Columns, WipCovered, NoPatch
    <3>3. Final(me)["assignee"] \in {Mutated(me)["assignee"], None}
      BY <3>1, EffectSets DEF Final, Columns, WipCovered
    <3>4. db'[i].assignee \in {row.assignee, None}
      BY <2>2, <2>4, <3>2, <3>3
    <3>5. CASE me.to = None
      BY <2>1, <2>2, <2>4, <3>4, <3>5
    <3>6. CASE me.to # None
      <4>1. Starting(me)
        BY <2>2, <2>4, <3>1, <3>6 DEF Starting
      <4> QED
        BY <1>0, <2>4, <3>4, <4>1 DEF AtLeisure, Exists
    <3> QED
      BY <3>5, <3>6
  <2> QED
    BY <2>3, <2>4
<1>3. CASE CommitDelete(s)
  BY <1>0, <1>3 DEF CommitDelete, Deleted, IInv, TypeOK, Exists
<1>4. CASE ~CommitCreate(s) /\ ~CommitUpdate(s) /\ ~CommitDelete(s)
  <2>1. Exists(i)
    BY <1>0, <1>4, RowsFrom DEF Exists
  <2> QED
    BY <1>0, <1>4, <2>1, StateKept
<1> QED
  BY <1>1, <1>2, <1>3, <1>4

LEMMA WipStep == WipCovered /\ WipInv /\ [Next]_vars => WipInv'
<1> SUFFICES ASSUME WipCovered, WipInv, [Next]_vars PROVE WipInv'
  OBVIOUS
<1>0. IInv /\ PendApart /\ AllSerial
  BY DEF WipInv
<1>1. IInv' /\ PendApart' /\ AllSerial'
  BY <1>0, IInvStep, PendApartStep, SerialStep DEF WipCovered
<1>2. ASSUME NEW o \in Sessions PROVE NewFrom(sess'[o], NotStarted) /\ AtLeisure(sess'[o], db')
  <2>1. ASSUME NEW s \in Sessions, Acting(s)
        PROVE  NewFrom(sess'[o], NotStarted) /\ AtLeisure(sess'[o], db')
    <3>1. \A items \in NewItems : \A k \in DOMAIN items : items[k] \in NotStarted
      BY ItemsAreRows DEF WipCovered, NotStarted
    <3>2. \A row \in NotStarted \cap Row, fired \in SUBSET Rules :
            ApplyEffects(row, fired) \in NotStarted
      BY EffectsKeep DEF WipCovered, NotStarted
    <3>3. NewFrom(sess[s], NotStarted) /\ o = s
      BY DEF WipInv, WipCovered, OneAtATime
    <3> QED
      BY <1>0, <2>1, <3>1, <3>2, <3>3, NewFromActs, LeisureStep
  <2>2. CASE Crash
    BY <2>2, IdleFields DEF Crash, NewFrom, AtLeisure, Starting
  <2>3. CASE UNCHANGED vars
    BY <2>3 DEF vars, WipInv
  <2> QED
    BY <2>1, <2>2, <2>3 DEF Next, Acting
<1>3. ASSUME NEW i \in Issues, NEW j \in Issues,
             db'[i] # NoRow, Started(db'[i].state), db'[j] # NoRow, Started(db'[j].state),
             db'[i].assignee = db'[j].assignee, db'[i].assignee # None
      PROVE  i = j
  <2>1. ASSUME NEW s \in Sessions, Acting(s) PROVE i = j
    <3> DEFINE Kept(k) == /\ Exists(k) /\ Started(db[k].state)
                          /\ db'[k].assignee \in {db[k].assignee, None}
               TakenUp(k) == /\ k = sess[s].item
                             /\ \A l \in Issues : Exists(l) /\ Started(db[l].state) =>
                                  db[l].assignee # db'[k].assignee
    <3>1. (Kept(i) \/ TakenUp(i)) /\ (Kept(j) \/ TakenUp(j))
      BY <1>3, <2>1, StartedFrom
    <3>2. CASE Kept(i) /\ Kept(j)
      BY <1>3, <3>2 DEF WipInv
    <3> QED
      BY <1>3, <3>1, <3>2
  <2>2. CASE db' = db
    BY <1>3, <2>2 DEF WipInv, Exists
  <2> QED
    BY <2>1, <2>2 DEF Next, Acting, Crash, vars, tables
<1> QED
  BY <1>1, <1>2, <1>3 DEF WipInv, Exists

LEMMA WipInit == WipCovered /\ Init => WipInv
<1> SUFFICES ASSUME WipCovered, Init PROVE WipInv
  OBVIOUS
<1>1. IInv /\ db = InitRows /\ sess = [s \in Sessions |-> Idle]
  BY IInvInit DEF Init
<1>2. PendApart /\ AllSerial
  BY <1>1, SerialIdle, IdleFields DEF PendApart, AllSerial
<1>3. \A s \in Sessions : NewFrom(sess[s], NotStarted) /\ AtLeisure(sess[s], db)
  BY <1>1, IdleFields DEF NewFrom, AtLeisure, Starting
<1>4. \A i, j \in Issues :
        /\ Exists(i) /\ Started(db[i].state) /\ Exists(j) /\ Started(db[j].state)
        /\ db[i].assignee = db[j].assignee /\ db[i].assignee # None
        => i = j
  BY <1>1 DEF WipCovered, Exists
<1> QED
  BY <1>1, <1>2, <1>3, <1>4 DEF WipInv

\* While requests are served one at a time, no user has more than one issue
\* started, also when a batch starts many: each move of a batch is committed
\* before the rule is asked about the next, and the rule is asked about the
\* assignee the row has when it is written.
THEOREM LimitOnWork == ASSUME WipCovered PROVE Spec => []WipRespected
<1>1. WipInv => WipRespected
  <2> SUFFICES ASSUME WipInv, NEW u \in Users PROVE Cardinality(StartedBy(u)) <= 1
    BY DEF WipRespected
  <2>1. u # None
    BY NullAssumption
  <2>2. \A i, j \in StartedBy(u) : i = j
    BY <2>1 DEF StartedBy, WipInv, Started
  <2> HIDE DEF StartedBy
  <2>3. CASE StartedBy(u) = {}
    BY <2>3, FS_EmptySet
  <2>4. CASE StartedBy(u) # {}
    <3>1. PICK i \in StartedBy(u) : TRUE
      BY <2>4
    <3>2. StartedBy(u) = {i}
      BY <2>2, <3>1
    <3> QED
      BY <3>2, FS_Singleton
  <2> QED
    BY <2>3, <2>4
<1>2. Init => WipInv
  BY WipInit
<1>3. WipInv /\ [Next]_vars => WipInv'
  BY WipStep
<1> QED
  BY <1>1, <1>2, <1>3, PTL DEF Spec
==============================================================================
