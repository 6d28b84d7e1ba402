--------------------------- MODULE SchedulerProofs ---------------------------
(***************************************************************************)
(* Theorems of Scheduler, for any number of recurrences, clients, requests *)
(* and restarts, and any schedules.                                        *)
(***************************************************************************)
EXTENDS Scheduler, TLAPS

\* The clients for which the order of due times is promised: the API also
\* accepts an interval of no length, and a due time in the past of the last
\* spawn.
OrderlyClients ==
  /\ \A x \in Schedules : x.n > 0
  /\ \A e \in Edits : "due" \notin DOMAIN e

\* No spawn is in the future, nor later than the tick under way.
PastSpawn(row) ==
  /\ row.last <= now
  /\ sched.pc # "sleep" => row.last <= sched.at

\* The row an edit is about to write keeps last_spawned_at as it was read,
\* and a due time that an orderly client changes is after that.
EditInv(me) ==
  /\ me.new.last = me.row.last
  /\ OrderlyClients => me.new.due = me.row.due \/ me.new.due > me.row.last

IInv ==
  /\ TypeOK
  /\ \A r \in Recs : Exists(r) => r \in made /\ PastSpawn(recs[r])
  /\ sched.at <= now
  /\ sched.pc = "commit" => NewDue > sched.at
  /\ \A c \in Clients : api[c].pc = "edit" => EditInv(api[c])

-----------------------------------------------------------------------------
\* compute_next_due gives a later time, whatever the schedule.
LEMMA NextDueLater ==
  ASSUME NEW x \in Schedule, x.n > 0, NEW t \in Nat
  PROVE  NextDue(x, t) \in Nat /\ NextDue(x, t) > t
<1>1. x.n \in Nat
  BY DEF Schedule
<1>2. ((t \div x.n) + 1) * x.n \in Nat /\ ((t \div x.n) + 1) * x.n > t
  BY <1>1, SMT
<1> QED
  BY <1>1, <1>2 DEF NextDue

\* The next due time is a time, also of an interval of no length.
LEMMA NextDueType ==
  ASSUME NEW x \in Schedule, NEW t \in Nat
  PROVE  NextDue(x, t) \in Nat
<1>1. x.n \in Nat /\ x.type \in {"interval", "cron"} /\ (x.type = "cron" => x.n > 0)
  BY DEF Schedule
<1>2. CASE x.type = "interval"
  BY <1>1, <1>2 DEF NextDue
<1>3. CASE x.type = "cron"
  BY <1>1, <1>3, NextDueLater
<1> QED
  BY <1>1, <1>2, <1>3

\* A merge takes from the edit the columns it changes and keeps the others.
LEMMA MergeRow ==
  ASSUME NEW stored \in Recurrence, NEW read \in Recurrence, NEW new \in Recurrence
  PROVE  /\ Merge(stored, read, new) \in Recurrence
         /\ Merge(stored, read, new).last =
              IF new.last # read.last THEN new.last ELSE stored.last
         /\ Merge(stored, read, new).due =
              IF new.due # read.due THEN new.due ELSE stored.due
<1>1. DOMAIN new = {"active", "due", "schedule", "last", "broken"}
  BY DEF Recurrence
<1>2. Merge(stored, read, new) =
        [active   |-> IF new.active # read.active THEN new.active ELSE stored.active,
         due      |-> IF new.due # read.due THEN new.due ELSE stored.due,
         schedule |-> IF new.schedule # read.schedule THEN new.schedule ELSE stored.schedule,
         last     |-> IF new.last # read.last THEN new.last ELSE stored.last,
         broken   |-> IF new.broken # read.broken THEN new.broken ELSE stored.broken]
  BY <1>1 DEF Merge, Recurrence
<1> QED
  BY <1>2 DEF Recurrence

\* A PATCH leaves a recurrence, never touches last_spawned_at, and counts the
\* due time of a new schedule from the present.
LEMMA EditedRow ==
  ASSUME NEW row \in Recurrence, NEW e \in Edits, now \in Nat
  PROVE  /\ Edited(row, e) \in Recurrence
         /\ Edited(row, e).last = row.last
         /\ OrderlyClients => Edited(row, e).due = row.due \/ Edited(row, e).due > now
<1>1. IsEdit(e) /\ ("schedule" \in DOMAIN e => e["schedule"] \in Schedules)
  BY EditsAssumption DEF IsEdit
<1>2. "schedule" \in DOMAIN e => NextDue(e["schedule"], now) \in Nat
  BY <1>1, SchedulesAssumption, NextDueType
<1>3. OrderlyClients =>
        /\ "due" \notin DOMAIN e
        /\ "schedule" \in DOMAIN e => NextDue(e["schedule"], now) > now
  BY <1>1, SchedulesAssumption, NextDueLater DEF OrderlyClients
<1> QED
  BY <1>1, <1>2, <1>3, SchedulesAssumption DEF Edited, IsEdit, Recurrence

\* What a POST inserts is a recurrence.
LEMMA CreatedRow ==
  ASSUME now \in Nat, NEW x \in Schedules, NEW b \in {FALSE, BrokenDefaults},
         NEW due \in Dues \cup {NextDue(x, now)}
  PROVE  [active |-> TRUE, due |-> due, schedule |-> x, last |-> Never, broken |-> b]
           \in Recurrence
<1>1. x \in Schedule
  BY SchedulesAssumption
<1>2. due \in Nat
  <2>1. NextDue(x, now) \in Nat
    BY <1>1, NextDueType
  <2> QED
    BY <2>1, DuesAssumption
<1>3. b \in BOOLEAN
  BY ChoicesAssumption, Zenon
<1> QED
  BY <1>1, <1>2, <1>3 DEF Recurrence

-----------------------------------------------------------------------------
\* The empty table and the sleeping scheduler have their types.
LEMMA TypeInit == Init => TypeOK
BY NoRowAssumption DEF Init, TypeOK, Asleep, NoRequest

\* Every step of the scheduler, of a request and of the clock keeps the types.
LEMMA TypeStep == TypeOK /\ [Next]_vars => TypeOK'
<1> SUFFICES ASSUME TypeOK, [Next]_vars PROVE TypeOK'
  OBVIOUS
<1> USE NoRowAssumption
<1>1. ASSUME ListDue PROVE TypeOK'
  BY <1>1 DEF ListDue, TypeOK, Asleep
<1>2. ASSUME NEW r \in Recs, Reread(r) PROVE TypeOK'
  <2>1. CASE Exists(r) /\ Due(recs[r], sched.at)
    <3>1. recs[r] \in Recurrence
      BY <2>1 DEF TypeOK, Exists
    <3> QED
      BY <1>2, <2>1, <3>1 DEF Reread, TypeOK
  <2>2. CASE ~(Exists(r) /\ Due(recs[r], sched.at))
    BY <1>2, <2>2 DEF Reread, SkipTo, TypeOK
  <2> QED
    BY <2>1, <2>2
<1>3. ASSUME SpawnIssue PROVE TypeOK'
  BY <1>3 DEF SpawnIssue, TypeOK, Asleep
<1>4. ASSUME CommitSpawn PROVE TypeOK'
  <2>1. CASE Exists(sched.rec)
    <3>1. sched.rec \in Recs /\ recs[sched.rec] \in Recurrence /\ sched.row \in Recurrence
      BY <1>4, <2>1 DEF CommitSpawn, TypeOK, Exists
    <3>2. sched.row.schedule \in Schedule /\ sched.at \in Nat
      BY <3>1 DEF TypeOK, Recurrence
    <3>3. NextDue(sched.row.schedule, sched.at) \in Nat
      BY <3>2, <3>1, NextDueType
    <3>4. [recs[sched.rec] EXCEPT !.last = sched.at,
                                  !.due = NextDue(sched.row.schedule, sched.at)]
            \in Recurrence
      BY <3>1, <3>2, <3>3 DEF Recurrence
    <3>5. recs' = [recs EXCEPT ![sched.rec] =
                    [recs[sched.rec] EXCEPT !.last = sched.at,
                       !.due = NextDue(sched.row.schedule, sched.at)]]
      BY <1>4, <2>1, <3>1 DEF CommitSpawn, NewDue, TypeOK
    <3> HIDE DEF NextDue
    <3>6. recs' \in [Recs -> Recurrence \cup {NoRow}]
      BY <3>1, <3>4, <3>5 DEF TypeOK
    <3> QED
      BY <1>4, <2>1, <3>6 DEF CommitSpawn, TypeOK
  <2>2. CASE ~Exists(sched.rec)
    BY <1>4, <2>2 DEF CommitSpawn, TypeOK, Asleep
  <2> QED
    BY <2>1, <2>2
<1>5. ASSUME EndTick PROVE TypeOK'
  BY <1>5 DEF EndTick, TypeOK, Asleep
<1>6. ASSUME Restart PROVE TypeOK'
  BY <1>6 DEF Restart, TypeOK, Asleep
<1>7. ASSUME NEW c \in Clients, NEW r \in Recs, NEW x \in Schedules,
             NEW b \in {FALSE, BrokenDefaults}, Create(c, r, x, b)
      PROVE  TypeOK'
  <2>1. PICK due \in Dues \cup {NextDue(x, now)} :
          recs' = [recs EXCEPT ![r] = [active |-> TRUE, due |-> due, schedule |-> x,
                                       last |-> Never, broken |-> b]]
    BY <1>7 DEF Create
  <2> DEFINE row == [active |-> TRUE, due |-> due, schedule |-> x,
                     last |-> Never, broken |-> b]
  <2>2. row \in Recurrence
    BY CreatedRow DEF TypeOK
  <2>3. recs' = [recs EXCEPT ![r] = row]
    BY <2>1
  <2> HIDE DEF row
  <2>4. recs' \in [Recs -> Recurrence \cup {NoRow}]
    BY <2>2, <2>3 DEF TypeOK
  <2>5. /\ made' = made \cup {r} /\ served' = served + 1
        /\ UNCHANGED <<now, sched, api, crashes>>
    BY <1>7 DEF Create, Request
  <2> QED
    BY <2>4, <2>5 DEF TypeOK
<1>8. ASSUME NEW c \in Clients, NEW r \in Recs, NEW e \in Edits, BeginEdit(c, r, e)
      PROVE  TypeOK'
  <2>1. recs[r] \in Recurrence /\ now \in Nat
    BY <1>8 DEF BeginEdit, TypeOK, Exists
  <2> DEFINE new == Edited(recs[r], e)
  <2>2. new \in Recurrence
    BY <2>1, EditedRow
  <2>3. /\ api' = [api EXCEPT ![c] = [pc |-> "edit", rec |-> r, row |-> recs[r],
                                     new |-> new]]
        /\ served' = served + 1 /\ UNCHANGED <<recs, now, sched, made, crashes>>
    BY <1>8 DEF BeginEdit, Request
  <2> HIDE DEF new
  <2> QED
    BY <2>1, <2>2, <2>3 DEF TypeOK
<1>9. ASSUME NEW c \in Clients, CommitEdit(c) PROVE TypeOK'
  <2> DEFINE me == api[c]
  <2>1. me.rec \in Recs /\ me.row \in Recurrence /\ me.new \in Recurrence
    BY <1>9 DEF CommitEdit, TypeOK
  <2>2. recs' \in [Recs -> Recurrence \cup {NoRow}]
    BY <1>9, <2>1, MergeRow DEF CommitEdit, TypeOK, Exists
  <2>3. /\ api' \in [Clients -> [pc : {"idle", "edit"}, rec : Recs \cup {NoRow},
                       row : Recurrence \cup {NoRow}, new : Recurrence \cup {NoRow}]]
        /\ \A d \in Clients : api'[d].pc = "edit" => api'[d] = api[d]
    BY <1>9 DEF CommitEdit, TypeOK, NoRequest
  <2> QED
    BY <1>9, <2>2, <2>3 DEF CommitEdit, TypeOK
<1>10. ASSUME NEW c \in Clients, NEW r \in Recs, Delete(c, r) PROVE TypeOK'
  BY <1>10 DEF Delete, Request, TypeOK
<1>11. ASSUME Tick PROVE TypeOK'
  BY <1>11 DEF Tick, TypeOK
<1>12. ASSUME UNCHANGED vars PROVE TypeOK'
  BY <1>12 DEF vars, TypeOK
<1> QED
  BY <1>1, <1>2, <1>3, <1>4, <1>5, <1>6, <1>7, <1>8, <1>9, <1>10, <1>11, <1>12
     DEF Next, SchedulerStep, ApiStep

\* The tables, the scheduler and the requests keep their types.
THEOREM TypeCorrect == Spec => []TypeOK
BY TypeInit, TypeStep, PTL DEF Spec

-----------------------------------------------------------------------------
\* A step that leaves the table alone, and of the tick under way at most goes
\* on with it, gives it up or begins it now; the clock may move.
LEMMA TableLeft ==
  ASSUME IInv, TypeOK', UNCHANGED <<recs, made>>, now' >= now,
         \/ sched'.pc = "sleep"
         \/ sched.pc # "sleep" /\ sched'.at = sched.at
         \/ sched'.at = now
  PROVE  \A r \in Recs : Exists(r)' => r \in made' /\ PastSpawn(recs[r])'
<1> SUFFICES ASSUME NEW r \in Recs, Exists(r) PROVE r \in made /\ PastSpawn(recs[r])'
  BY DEF Exists
<1>1. recs[r] \in Recurrence /\ now \in Nat /\ now' \in Nat /\ sched.at \in Nat
  BY DEF IInv, TypeOK, Exists
<1>2. recs[r].last \in Int
  BY <1>1 DEF Recurrence, Never
<1>3. r \in made /\ PastSpawn(recs[r])
  BY DEF IInv
<1> QED
  BY <1>1, <1>2, <1>3 DEF PastSpawn

\* A step of which neither the table nor the edits under way take notice.
LEMMA QuietStep ==
  ASSUME IInv, TypeOK', UNCHANGED <<recs, made, api>>, now' >= now,
         sched' = sched \/ sched' = Asleep
  PROVE  IInv'
<1>1. now \in Nat /\ now' \in Nat /\ sched.at \in Nat
  BY DEF IInv, TypeOK
<1>2. \A r \in Recs : Exists(r)' => r \in made' /\ PastSpawn(recs[r])'
  BY TableLeft DEF Asleep
<1>3. sched'.at <= now'
  BY <1>1 DEF IInv, Asleep
<1>4. sched'.pc = "commit" => NewDue' > sched'.at
  BY DEF IInv, Asleep, NewDue
<1>5. \A c \in Clients : api'[c].pc = "edit" => EditInv(api'[c])
  BY DEF IInv
<1> QED
  BY <1>2, <1>3, <1>4, <1>5 DEF IInv, EditInv

\* The strengthened invariant holds of the empty table.
LEMMA IInvInit == Init => IInv
BY TypeInit DEF Init, IInv, Exists, Asleep, NoRequest

\* Every step of the scheduler, of a request and of the clock keeps it.
LEMMA IInvStep == IInv /\ [Next]_vars => IInv'
<1> SUFFICES ASSUME IInv, [Next]_vars PROVE IInv'
  OBVIOUS
<1>0. TypeOK /\ TypeOK' /\ now \in Nat /\ sched.at \in Nat
  BY TypeStep DEF IInv, TypeOK
<1>1. ASSUME ListDue PROVE IInv'
  <2>1. sched'.pc = "loop" /\ sched'.at = now /\ UNCHANGED <<recs, made, api, now>>
    BY <1>0, <1>1 DEF ListDue, Asleep
  <2>2. \A r \in Recs : Exists(r)' => r \in made' /\ PastSpawn(recs[r])'
    BY <1>0, <2>1, TableLeft
  <2> QED
    BY <1>0, <2>1, <2>2 DEF IInv, EditInv
<1>2. ASSUME NEW r \in Recs, Reread(r) PROVE IInv'
  <2>1. /\ sched.pc = "loop" /\ sched'.pc \in {"loop", "spawn"} /\ sched'.at = sched.at
        /\ UNCHANGED <<recs, made, api, now>>
    BY <1>0, <1>2 DEF Reread, SkipTo, TypeOK
  <2>2. \A q \in Recs : Exists(q)' => q \in made' /\ PastSpawn(recs[q])'
    BY <1>0, <2>1, TableLeft
  <2> QED
    BY <1>0, <2>1, <2>2 DEF IInv, EditInv
<1>3. ASSUME SpawnIssue PROVE IInv'
  <2>1. CASE sched.row.broken
    BY <1>0, <1>3, <2>1, QuietStep DEF SpawnIssue
  <2>2. CASE ~sched.row.broken
    <3>1. /\ sched.pc = "spawn" /\ sched'.pc \in {"hung", "commit"}
          /\ sched'.at = sched.at /\ sched'.row = sched.row
          /\ sched'.pc = "commit" => ~NeverAdvances(sched.row)
          /\ UNCHANGED <<recs, made, api, now>>
      BY <1>0, <1>3, <2>2 DEF SpawnIssue, TypeOK
    <3>2. \A q \in Recs : Exists(q)' => q \in made' /\ PastSpawn(recs[q])'
      BY <1>0, <3>1, TableLeft
    <3>3. NextDue(sched.row.schedule, sched.at) \in Nat
      BY <1>0, <3>1, NextDueType DEF TypeOK, Recurrence
    <3>4. sched'.pc = "commit" => NewDue' > sched'.at
      <4> DEFINE next == NextDue(sched.row.schedule, sched.at)
      <4>1. NewDue' = next
        BY <3>1 DEF NewDue, NextDue
      <4>2. sched'.pc = "commit" => ~(next <= sched.at)
        BY <3>1 DEF NeverAdvances
      <4> HIDE DEF next
      <4> QED
        BY <1>0, <3>1, <3>3, <4>1, <4>2 DEF next
    <3> QED
      BY <1>0, <3>1, <3>2, <3>4 DEF IInv, EditInv
  <2> QED
    BY <2>1, <2>2
<1>4. ASSUME CommitSpawn PROVE IInv'
  <2>1. CASE Exists(sched.rec)
    <3> DEFINE next == NewDue
               row == [recs[sched.rec] EXCEPT !.last = sched.at, !.due = next]
    <3>1. sched.rec \in Recs /\ recs[sched.rec] \in Recurrence /\ sched.rec \in made
      BY <1>0, <1>4, <2>1 DEF CommitSpawn, TypeOK, Exists, IInv
    <3>2. recs' = [recs EXCEPT ![sched.rec] = row] /\ UNCHANGED <<now, made, api>>
      BY <1>0, <1>4, <2>1, <3>1 DEF CommitSpawn, TypeOK
    <3>3. sched.pc = "commit" /\ sched'.pc = "loop" /\ sched'.at = sched.at
      BY <1>0, <1>4, <2>1 DEF CommitSpawn, TypeOK
    <3>4. row.last = sched.at
      BY <3>1 DEF Recurrence
    <3> HIDE DEF row
    <3>5. ASSUME NEW r \in Recs, Exists(r)' PROVE r \in made' /\ PastSpawn(recs[r])'
      <4>1. CASE r = sched.rec
        <5>1. recs'[r].last = sched.at
          BY <1>0, <3>1, <3>2, <3>4, <4>1 DEF TypeOK
        <5> QED
          BY <1>0, <3>1, <3>2, <3>3, <4>1, <5>1 DEF PastSpawn, IInv
      <4>2. CASE r # sched.rec
        <5>1. recs'[r] = recs[r]
          BY <1>0, <3>2, <4>2 DEF TypeOK
        <5> QED
          BY <3>2, <3>3, <3>5, <5>1 DEF PastSpawn, IInv, Exists
      <4> QED
        BY <4>1, <4>2
    <3> QED
      BY <1>0, <3>2, <3>3, <3>5 DEF IInv, EditInv
  <2>2. CASE ~Exists(sched.rec)
    BY <1>0, <1>4, <2>2, QuietStep DEF CommitSpawn
  <2> QED
    BY <2>1, <2>2
<1>5. ASSUME EndTick PROVE IInv'
  BY <1>0, <1>5, QuietStep DEF EndTick
<1>6. ASSUME Restart PROVE IInv'
  BY <1>0, <1>6, QuietStep DEF Restart
<1>7. ASSUME NEW c \in Clients, NEW r \in Recs, NEW x \in Schedules,
             NEW b \in {FALSE, BrokenDefaults}, Create(c, r, x, b)
      PROVE  IInv'
  <2>1. PICK due \in Dues \cup {NextDue(x, now)} :
          recs' = [recs EXCEPT ![r] = [active |-> TRUE, due |-> due, schedule |-> x,
                                       last |-> Never, broken |-> b]]
    BY <1>7 DEF Create
  <2>2. made' = made \cup {r} /\ UNCHANGED <<now, sched, api>>
    BY <1>7 DEF Create
  <2>3. recs'[r].last = Never
    BY <1>0, <2>1 DEF TypeOK
  <2>4. \A q \in Recs \ {r} : recs'[q] = recs[q]
    BY <1>0, <2>1 DEF TypeOK
  <2>5. PastSpawn(recs[r])'
    BY <1>0, <2>2, <2>3 DEF PastSpawn, Never
  <2>6. \A q \in Recs : Exists(q)' => q \in made' /\ PastSpawn(recs[q])'
    BY <2>2, <2>4, <2>5 DEF IInv, Exists, PastSpawn
  <2> QED
    BY <1>0, <2>2, <2>6 DEF IInv, EditInv, NewDue
<1>8. ASSUME NEW c \in Clients, NEW r \in Recs, NEW e \in Edits, BeginEdit(c, r, e)
      PROVE  IInv'
  <2> DEFINE new == Edited(recs[r], e)
  <2>1. /\ api' = [api EXCEPT ![c] = [pc |-> "edit", rec |-> r, row |-> recs[r],
                                     new |-> new]]
        /\ Exists(r) /\ UNCHANGED <<recs, now, sched, made>>
    BY <1>8 DEF BeginEdit
  <2>2. recs[r] \in Recurrence /\ recs[r].last <= now /\ recs[r].last \in Int
    BY <1>0, <2>1 DEF TypeOK, Exists, IInv, PastSpawn, Recurrence, Never
  <2>3. /\ new \in Recurrence /\ new.last = recs[r].last
        /\ OrderlyClients => new.due = recs[r].due \/ new.due > now
    BY <1>0, <2>2, EditedRow
  <2>4. new.due \in Nat
    BY <2>3 DEF Recurrence
  <2> HIDE DEF new
  <2>5. EditInv(api'[c])
    <3>1. api'[c].row = recs[r] /\ api'[c].new = new
      BY <1>0, <2>1 DEF TypeOK
    <3> QED
      BY <1>0, <2>2, <2>3, <2>4, <3>1 DEF EditInv
  <2>6. \A d \in Clients : api'[d].pc = "edit" => EditInv(api'[d])
    <3>1. \A d \in Clients \ {c} : api'[d] = api[d]
      BY <1>0, <2>1 DEF TypeOK
    <3> QED
      BY <2>5, <3>1 DEF IInv
  <2>7. \A q \in Recs : Exists(q)' => q \in made' /\ PastSpawn(recs[q])'
    BY <2>1 DEF IInv, Exists, PastSpawn
  <2> QED
    BY <1>0, <2>1, <2>6, <2>7 DEF IInv, EditInv, NewDue
<1>9. ASSUME NEW c \in Clients, CommitEdit(c) PROVE IInv'
  <2> DEFINE me == api[c]
  <2>1. me.rec \in Recs /\ me.row \in Recurrence /\ me.new \in Recurrence
        /\ me.new.last = me.row.last
    BY <1>0, <1>9 DEF CommitEdit, TypeOK, IInv, EditInv
  <2>2. UNCHANGED <<now, sched, made>>
    BY <1>9 DEF CommitEdit
  <2>3. ASSUME NEW q \in Recs, Exists(q)' PROVE Exists(q) /\ recs'[q].last = recs[q].last
    <3>1. CASE q = me.rec /\ Exists(q)
      <4>1. recs[q] \in Recurrence /\ recs'[q] = Merge(recs[q], me.row, me.new)
        BY <1>0, <1>9, <3>1 DEF CommitEdit, TypeOK, Exists
      <4> QED
        BY <2>1, <3>1, <4>1, MergeRow
    <3>2. CASE ~(q = me.rec /\ Exists(q))
      <4>1. recs'[q] = recs[q]
        BY <1>0, <1>9, <3>2 DEF CommitEdit, TypeOK, Exists
      <4> QED
        BY <2>3, <4>1 DEF Exists
    <3> QED
      BY <3>1, <3>2
  <2>4. \A q \in Recs : Exists(q)' => q \in made' /\ PastSpawn(recs[q])'
    BY <2>2, <2>3 DEF IInv, PastSpawn
  <2>5. \A d \in Clients : api'[d].pc = "edit" => api'[d] = api[d]
    BY <1>0, <1>9 DEF CommitEdit, TypeOK, NoRequest
  <2> QED
    BY <1>0, <2>2, <2>4, <2>5 DEF IInv, EditInv, NewDue
<1>10. ASSUME NEW c \in Clients, NEW r \in Recs, Delete(c, r) PROVE IInv'
  <2>1. recs' = [recs EXCEPT ![r] = NoRow] /\ UNCHANGED <<now, sched, made, api>>
    BY <1>10 DEF Delete
  <2>2. \A q \in Recs : Exists(q)' => Exists(q) /\ recs'[q] = recs[q]
    BY <1>0, <2>1 DEF TypeOK, Exists
  <2> QED
    BY <1>0, <2>1, <2>2 DEF IInv, PastSpawn, EditInv, NewDue
<1>11. ASSUME Tick PROVE IInv'
  BY <1>0, <1>11, QuietStep DEF Tick
<1>12. ASSUME UNCHANGED vars PROVE IInv'
  BY <1>0, <1>12, QuietStep DEF vars
<1> QED
  BY <1>1, <1>2, <1>3, <1>4, <1>5, <1>6, <1>7, <1>8, <1>9, <1>10, <1>11, <1>12
     DEF Next, SchedulerStep, ApiStep

\* The clock, the table and what the scheduler and the edits have read stay in
\* step.
THEOREM InStep == Spec => []IInv
BY IInvInit, IInvStep, PTL DEF Spec

-----------------------------------------------------------------------------
\* What a step leaves of a stored row: only a spawn and an edit change it.
LEMMA RowChanges ==
  ASSUME IInv, [Next]_vars, NEW r \in Recs, recs[r] # NoRow, recs'[r] # NoRow,
         recs'[r] # recs[r]
  PROVE  \/ /\ CommitSpawn /\ sched.pc = "commit"
            /\ recs'[r].last = sched.at /\ recs'[r].due = NewDue
         \/ \E c \in Clients : /\ CommitEdit(c) /\ api[c].rec = r
                               /\ recs'[r] = Merge(recs[r], api[c].row, api[c].new)
<1>0. TypeOK /\ recs[r] \in Recurrence
  BY DEF IInv, TypeOK
<1>1. CASE CommitSpawn
  <2>1. sched.pc = "commit" /\ Exists(sched.rec) /\ sched.rec \in Recs
    BY <1>0, <1>1 DEF CommitSpawn, TypeOK
  <2> DEFINE next == NewDue
  <2>2. recs' = [recs EXCEPT ![sched.rec] =
                  [recs[sched.rec] EXCEPT !.last = sched.at, !.due = next]]
    BY <1>0, <1>1, <2>1 DEF CommitSpawn, TypeOK
  <2> HIDE DEF next
  <2>3. r = sched.rec
    BY <1>0, <2>1, <2>2 DEF TypeOK
  <2>4. recs'[r].last = sched.at /\ recs'[r].due = next
    BY <1>0, <2>1, <2>2, <2>3 DEF TypeOK, Recurrence
  <2> QED
    BY <1>1, <2>1, <2>4 DEF next
<1>2. ASSUME NEW c \in Clients, CommitEdit(c)
      PROVE  api[c].rec = r /\ recs'[r] = Merge(recs[r], api[c].row, api[c].new)
  BY <1>0, <1>2 DEF CommitEdit, TypeOK, Exists
<1>3. ASSUME NEW c \in Clients, NEW q \in Recs, NEW x \in Schedules,
             NEW b \in {FALSE, BrokenDefaults}, Create(c, q, x, b)
      PROVE  FALSE
  <2>1. r \in made /\ q # r
    BY <1>3 DEF Create, IInv, Exists
  <2> QED
    BY <1>0, <1>3, <2>1 DEF Create, TypeOK
<1>4. ASSUME NEW c \in Clients, NEW q \in Recs, Delete(c, q) PROVE FALSE
  BY <1>0, <1>4 DEF Delete, TypeOK
<1>5. ASSUME UNCHANGED recs PROVE FALSE
  BY <1>5
<1> QED
  BY <1>1, <1>2, <1>3, <1>4, <1>5
     DEF Next, SchedulerStep, ApiStep, ListDue, Reread, SpawnIssue, EndTick, Restart,
         BeginEdit, Tick, vars

\* No period is served twice, but where a spawn overtakes an edit, however
\* edits and the scheduler interleave.
THEOREM OnlyOvertakenRepeat ==
  ASSUME OrderlyClients PROVE Spec => OnlyOvertakenEditsRepeat
<1> DEFINE A == \A r \in Recs :
                  /\ recs[r] # NoRow /\ ~ServedAgain(recs[r])
                  /\ recs'[r] # NoRow /\ ServedAgain(recs'[r])
                  => \E c \in Clients : /\ api[c].pc = "edit" /\ api'[c].pc = "idle"
                                        /\ api[c].rec = r /\ Overtaken(c)
<1>1. IInv /\ IInv' /\ [Next]_vars => A
  <2> SUFFICES ASSUME IInv, IInv', [Next]_vars, NEW r \in Recs,
                      recs[r] # NoRow, ~ServedAgain(recs[r]),
                      recs'[r] # NoRow, ServedAgain(recs'[r])
               PROVE  \E c \in Clients : /\ api[c].pc = "edit" /\ api'[c].pc = "idle"
                                         /\ api[c].rec = r /\ Overtaken(c)
    OBVIOUS
  <2>0. TypeOK /\ recs[r] \in Recurrence /\ recs'[r] \in Recurrence
    BY DEF IInv, TypeOK
  <2>1. recs'[r].due <= recs'[r].last /\ recs'[r].due \in Nat /\ recs'[r].last \in Int
    BY <2>0 DEF ServedAgain, Recurrence, Never
  <2>2. ASSUME sched.pc = "commit", recs'[r].last = sched.at, recs'[r].due = NewDue
        PROVE  FALSE
    <3>1. NewDue > sched.at
      BY <2>2 DEF IInv
    <3> DEFINE due == recs'[r].due
    <3>2. due > sched.at /\ due <= sched.at /\ due \in Nat /\ sched.at \in Int
      BY <2>0, <2>1, <2>2, <3>1
    <3> HIDE DEF due
    <3> QED
      BY <3>2
  <2>3. ASSUME NEW c \in Clients, CommitEdit(c), api[c].rec = r,
               recs'[r] = Merge(recs[r], api[c].row, api[c].new)
        PROVE  api[c].pc = "edit" /\ api'[c].pc = "idle" /\ Overtaken(c)
    <3> DEFINE me == api[c]
    <3>1. me.pc = "edit" /\ api'[c].pc = "idle"
      BY <2>0, <2>3 DEF CommitEdit, TypeOK, NoRequest
    <3>2. me.row \in Recurrence /\ me.new \in Recurrence /\ EditInv(me)
      BY <2>0, <3>1 DEF TypeOK, IInv
    <3>3. /\ recs'[r].last = recs[r].last
          /\ recs'[r].due = IF me.new.due # me.row.due THEN me.new.due ELSE recs[r].due
      BY <2>0, <2>3, <3>2, MergeRow DEF EditInv
    <3>4. ASSUME me.row.last = recs[r].last PROVE FALSE
      <4>1. CASE me.new.due = me.row.due
        BY <3>3, <4>1 DEF ServedAgain
      <4>2. CASE me.new.due # me.row.due
        <5>1. me.new.due > me.row.last
          BY <3>2, <4>2 DEF EditInv
        <5> HIDE DEF me
        <5>2. recs'[r].due > recs'[r].last
          BY <3>3, <3>4, <4>2, <5>1
        <5> QED
          BY <2>1, <5>2
      <4> QED
        BY <4>1, <4>2
    <3> QED
      BY <2>3, <3>1, <3>4 DEF Overtaken, Exists
  <2>4. recs'[r] # recs[r]
    BY DEF ServedAgain
  <2> QED
    BY <2>2, <2>3, <2>4, RowChanges
<1> HIDE DEF A
<1>2. OnlyOvertakenEditsRepeat <=> [][A]_vars
  BY DEF OnlyOvertakenEditsRepeat, A
<1> QED
  BY <1>1, <1>2, InStep, PTL DEF Spec

\* Every spawn records a later time than the one before, and the next due
\* time is later still, whatever clients ask for.
THEOREM SpawnsAlwaysAdvance == Spec => SpawnsAdvance
<1> DEFINE A == \A r \in Recs :
                  recs[r] # NoRow /\ recs'[r] # NoRow /\ recs'[r].last # recs[r].last =>
                    recs'[r].last > recs[r].last /\ recs'[r].due > recs'[r].last
<1>1. IInv /\ IInv' /\ [Next]_vars => A
  <2> SUFFICES ASSUME IInv, IInv', [Next]_vars, NEW r \in Recs,
                      recs[r] # NoRow, recs'[r] # NoRow, recs'[r].last # recs[r].last
               PROVE  recs'[r].last > recs[r].last /\ recs'[r].due > recs'[r].last
    OBVIOUS
  <2>0. TypeOK /\ recs[r] \in Recurrence
    BY DEF IInv, TypeOK
  <2>1. ASSUME sched.pc = "commit", recs'[r].last = sched.at, recs'[r].due = NewDue
        PROVE  recs'[r].last > recs[r].last /\ recs'[r].due > recs'[r].last
    <3>1. NewDue > sched.at
      BY <2>1 DEF IInv
    <3>2. recs[r].last <= sched.at /\ recs[r].last \in Int /\ sched.at \in Int
      BY <2>0, <2>1 DEF IInv, PastSpawn, Exists, Recurrence, Never, TypeOK
    <3> QED
      BY <2>1, <3>1, <3>2
  <2>2. ASSUME NEW c \in Clients, CommitEdit(c), api[c].rec = r,
               recs'[r] = Merge(recs[r], api[c].row, api[c].new)
        PROVE  FALSE
    <3> DEFINE me == api[c]
    <3>1. me.row \in Recurrence /\ me.new \in Recurrence /\ me.new.last = me.row.last
      BY <2>0, <2>2 DEF TypeOK, IInv, EditInv, CommitEdit
    <3> QED
      BY <2>0, <2>2, <3>1, MergeRow
  <2> QED
    BY <2>1, <2>2, RowChanges
<1>2. SpawnsAdvance <=> [][A]_vars
  BY DEF SpawnsAdvance
<1> QED
  BY <1>1, <1>2, InStep, PTL DEF Spec
=============================================================================
