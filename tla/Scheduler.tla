----------------------------- MODULE Scheduler ------------------------------
(***************************************************************************)
(* Recurrences: the scheduler process that spawns an issue for each        *)
(* recurrence that has come due, and the API requests that create, edit,   *)
(* pause and delete recurrences while it does.                             *)
(*                                                                         *)
(* Time counts the smallest unit the schedules differ in.  A tick of the   *)
(* scheduler captures the time once, lists what is due, and then handles   *)
(* each listed recurrence in a session and transaction of its own.         *)
(***************************************************************************)
EXTENDS Integers, FiniteSets

CONSTANTS
  Recs,          \* recurrence ids
  Schedules,     \* the schedules clients use
  Dues,          \* explicit next_due_at values clients send
  NoRow,         \* what a SELECT of a missing row returns
  Clients,       \* concurrent API requests
  MaxTime,       \* bound on the clock
  MaxRequests,   \* bound on the number of API requests
  MaxCrashes,    \* bound on the number of scheduler restarts
  BrokenDefaults, \* whether issue_defaults may refer to a row that is gone
  MayDelete      \* whether clients delete recurrences

\* A schedule is an interval of n units or a cron expression, which is
\* modelled by one that fires at the multiples of n.
Schedule == {x \in [type : {"interval", "cron"}, n : Nat] : x.type = "cron" => x.n > 0}

Never == -1   \* last_spawned_at before the first spawn

Recurrence == [active : BOOLEAN, due : Nat, schedule : Schedule,
               last : Nat \cup {Never}, broken : BOOLEAN]

\* The columns a PATCH may name.
IsEdit(e) ==
  /\ DOMAIN e \subseteq {"active", "due", "schedule", "broken"}
  /\ "active"   \in DOMAIN e => e["active"] \in BOOLEAN
  /\ "due"      \in DOMAIN e => e["due"] \in Nat
  /\ "schedule" \in DOMAIN e => e["schedule"] \in Schedule
  /\ "broken"   \in DOMAIN e => e["broken"] \in BOOLEAN

CONSTANT Edits   \* bodies of PATCH requests

ASSUME SchedulesAssumption == Schedules \subseteq Schedule
ASSUME DuesAssumption == Dues \subseteq Nat
ASSUME EditsAssumption ==
  \A e \in Edits : IsEdit(e) /\ ("schedule" \in DOMAIN e => e["schedule"] \in Schedules)
ASSUME NoRowAssumption == NoRow \notin Recurrence
ASSUME BoundsAssumption ==
  MaxTime \in Nat /\ MaxRequests \in Nat /\ MaxCrashes \in Nat
ASSUME ChoicesAssumption == BrokenDefaults \in BOOLEAN /\ MayDelete \in BOOLEAN

VARIABLES
  recs,      \* the committed recurrences table
  now,       \* the clock
  sched,     \* the scheduler process
  api,       \* the API requests
  made,      \* ids already given to a recurrence
  served,    \* API requests begun so far
  crashes    \* scheduler restarts so far

vars == <<recs, now, sched, api, made, served, crashes>>

\* Mutants: the due time before the given one; a cron time may be the given
\* one itself.
NextDueBefore(schedule, after) == after - schedule.n
NextDueInclusive(schedule, after) ==
  IF schedule.type = "interval" THEN after + schedule.n
  ELSE ((after + schedule.n - 1) \div schedule.n) * schedule.n

\* compute_next_due: the first due time after a given time.
NextDue(schedule, after) ==
  IF schedule.type = "interval" THEN after + schedule.n
  ELSE ((after \div schedule.n) + 1) * schedule.n

Asleep == [pc |-> "sleep", at |-> 0, todo |-> {}, rec |-> NoRow, row |-> NoRow]
NoRequest == [pc |-> "idle", rec |-> NoRow, row |-> NoRow, new |-> NoRow]

Init ==
  /\ recs = [r \in Recs |-> NoRow]
  /\ now = 0
  /\ sched = Asleep
  /\ api = [c \in Clients |-> NoRequest]
  /\ made = {}
  /\ served = 0
  /\ crashes = 0

Exists(r) == recs[r] # NoRow
Due(row, t) == row.active /\ row.due <= t

----------------------------------------------------------------------------
(* The scheduler.                                                          *)

\* process_due_recurrences begins: capture the time, list what is due.
ListDue ==
  /\ sched.pc = "sleep"
  /\ sched' = [Asleep EXCEPT !.pc = "loop", !.at = now,
                             !.todo = {r \in Recs : Exists(r) /\ Due(recs[r], now)}]
  /\ UNCHANGED <<recs, now, api, made, served, crashes>>

SkipTo(r) == [sched EXCEPT !.todo = @ \ {r}]

\* The next of the list, in the order the database returned it, is read
\* again in a session of its own.
Reread(r) ==
  /\ sched.pc = "loop"
  /\ r \in sched.todo
  /\ sched' = IF Exists(r) /\ Due(recs[r], sched.at)
              THEN [sched EXCEPT !.pc = "spawn", !.todo = @ \ {r},
                                 !.rec = r, !.row = recs[r]]
              ELSE SkipTo(r)
  /\ UNCHANGED <<recs, now, api, made, served, crashes>>

\* Python's while loop: it ends only when a step of the schedule gets past
\* the captured time.
NeverAdvances(row) == NextDue(row.schedule, sched.at) <= sched.at

\* spawn_issue inserts the issue and its audit entry, and the next due time
\* is computed.  A dangling reference in issue_defaults fails the INSERT;
\* the rollback expires the recurrence, so that the handler of the error
\* itself fails when it reads rec.id, and the whole tick is given up.
SpawnIssue ==
  /\ sched.pc = "spawn"
  /\ sched' = IF sched.row.broken THEN Asleep
              ELSE [sched EXCEPT !.pc = IF NeverAdvances(sched.row) THEN "hung" ELSE "commit"]
  /\ UNCHANGED <<recs, now, api, made, served, crashes>>

\* Mutants: the missed periods are not skipped; the due time is left as it was.
NewDueFromOld == NextDue(sched.row.schedule, sched.row.due)
NewDueUnset == sched.row.due

NewDue == NextDue(sched.row.schedule, sched.at)

\* The issue and the recurrence's three columns are committed together.  The
\* UPDATE of a recurrence deleted meanwhile fails as the INSERT above.
CommitSpawn ==
  /\ sched.pc = "commit"
  /\ IF Exists(sched.rec)
     THEN /\ recs' = [recs EXCEPT ![sched.rec].last = sched.at,
                                  ![sched.rec].due = NewDue]
          /\ sched' = [sched EXCEPT !.pc = "loop", !.rec = NoRow, !.row = NoRow]
     ELSE /\ sched' = Asleep
          /\ UNCHANGED recs
  /\ UNCHANGED <<now, api, made, served, crashes>>

EndTick ==
  /\ sched.pc = "loop"
  /\ sched.todo = {}
  /\ sched' = Asleep
  /\ UNCHANGED <<recs, now, api, made, served, crashes>>

\* The scheduler's container is stopped or dies, and is started again.
Restart ==
  /\ crashes < MaxCrashes
  /\ sched.pc # "sleep"
  /\ crashes' = crashes + 1
  /\ sched' = Asleep
  /\ UNCHANGED <<recs, now, api, made, served>>

----------------------------------------------------------------------------
(* The API.                                                                *)

Request(c) ==
  /\ api[c].pc = "idle"
  /\ served < MaxRequests
  /\ served' = served + 1

\* next_due_at is the client's or is computed; nothing checks issue_defaults.
Create(c, r, schedule, broken) ==
  /\ Request(c)
  /\ r \notin made
  /\ made' = made \cup {r}
  /\ \E due \in Dues \cup {NextDue(schedule, now)} :
       recs' = [recs EXCEPT ![r] = [active |-> TRUE, due |-> due, schedule |-> schedule,
                                    last |-> Never, broken |-> broken]]
  /\ UNCHANGED <<now, sched, api, crashes>>

\* The row after the edit: a new schedule restarts from the present unless
\* the client sends a due time with it.
Edited(row, e) ==
  [active   |-> IF "active" \in DOMAIN e THEN e["active"] ELSE row.active,
   due      |-> IF "due" \in DOMAIN e THEN e["due"]
                ELSE IF "schedule" \in DOMAIN e THEN NextDue(e["schedule"], now)
                ELSE row.due,
   schedule |-> IF "schedule" \in DOMAIN e THEN e["schedule"] ELSE row.schedule,
   last     |-> row.last,
   broken   |-> IF "broken" \in DOMAIN e THEN e["broken"] ELSE row.broken]

\* The row is read and changed in memory, its due time computed from the
\* clock of this moment; the UPDATE and the commit come later.
BeginEdit(c, r, e) ==
  /\ Request(c)
  /\ Exists(r)
  /\ api' = [api EXCEPT ![c] = [pc |-> "edit", rec |-> r, row |-> recs[r],
                                new |-> Edited(recs[r], e)]]
  /\ UNCHANGED <<recs, now, sched, made, crashes>>

\* Mutant: the whole row is written.
Replace(stored, read, new) == new

\* Only the columns that differ from the row the session read are written.
Merge(stored, read, new) ==
  [f \in DOMAIN new |-> IF new[f] # read[f] THEN new[f] ELSE stored[f]]

\* The UPDATE of a recurrence deleted meanwhile fails the request.
CommitEdit(c) ==
  /\ api[c].pc = "edit"
  /\ LET me == api[c]
     IN  recs' = IF Exists(me.rec)
                 THEN [recs EXCEPT ![me.rec] = Merge(@, me.row, me.new)]
                 ELSE recs
  /\ api' = [api EXCEPT ![c] = NoRequest]
  /\ UNCHANGED <<now, sched, made, served, crashes>>

Delete(c, r) ==
  /\ MayDelete
  /\ Request(c)
  /\ Exists(r)
  /\ recs' = [recs EXCEPT ![r] = NoRow]
  /\ UNCHANGED <<now, sched, api, made, crashes>>

----------------------------------------------------------------------------
Tick ==
  /\ now < MaxTime
  /\ now' = now + 1
  /\ UNCHANGED <<recs, sched, api, made, served, crashes>>

SchedulerStep ==
  \/ ListDue
  \/ \E r \in Recs : Reread(r)
  \/ SpawnIssue
  \/ CommitSpawn
  \/ EndTick

ApiStep(c) ==
  \/ \E r \in Recs, x \in Schedules, b \in {FALSE, BrokenDefaults} : Create(c, r, x, b)
  \/ \E r \in Recs, e \in Edits : BeginEdit(c, r, e)
  \/ CommitEdit(c)
  \/ \E r \in Recs : Delete(c, r)

Next ==
  \/ SchedulerStep
  \/ Restart
  \/ \E c \in Clients : ApiStep(c)
  \/ Tick

\* The scheduler sleeps a fixed time between ticks and otherwise runs.
Spec == Init /\ [][Next]_vars /\ WF_vars(SchedulerStep)

----------------------------------------------------------------------------
(* Properties.                                                             *)

\* Types of the table, the scheduler and the requests.
TypeOK ==
  /\ recs \in [Recs -> Recurrence \cup {NoRow}]
  /\ now \in Nat
  /\ sched \in [pc : {"sleep", "loop", "spawn", "commit", "hung"}, at : Nat,
                todo : SUBSET Recs, rec : Recs \cup {NoRow}, row : Recurrence \cup {NoRow}]
  /\ sched.pc \in {"spawn", "commit", "hung"} => sched.rec \in Recs /\ sched.row \in Recurrence
  /\ api \in [Clients -> [pc : {"idle", "edit"}, rec : Recs \cup {NoRow},
                          row : Recurrence \cup {NoRow}, new : Recurrence \cup {NoRow}]]
  /\ \A c \in Clients : api[c].pc = "edit" =>
       api[c].rec \in Recs /\ api[c].row \in Recurrence /\ api[c].new \in Recurrence
  /\ made \subseteq Recs
  /\ served \in Nat
  /\ crashes \in Nat

\* A recurrence is due again for a time its last spawn has served already.
ServedAgain(row) == row.last # Never /\ row.due <= row.last

\* A spawn has committed since the row was read that the edit changes.
Overtaken(c) == Exists(api[c].rec) /\ recs[api[c].rec].last # api[c].row.last

\* No period is served twice, however edits and spawns, each working from a
\* copy read earlier, commit around each other, with one exception: a spawn
\* overtakes an edit that has computed its due time already, and the edit
\* then puts a due time into the row that the spawn was later than.
OnlyOvertakenEditsRepeat ==
  [][\A r \in Recs :
       /\ recs[r] # NoRow /\ ~ServedAgain(recs[r])
       /\ recs'[r] # NoRow /\ ServedAgain(recs'[r])
       => \E c \in Clients : /\ api[c].pc = "edit" /\ api'[c].pc = "idle"
                             /\ api[c].rec = r /\ Overtaken(c)]_vars

\* Every spawn records a later time than the one before it and leaves the
\* recurrence due later still, also when the scheduler was down for several
\* periods, dies before a commit, or advances a copy that an edit has made
\* stale: the periods that were missed are made up for by one issue.
SpawnsAdvance ==
  [][\A r \in Recs :
       recs[r] # NoRow /\ recs'[r] # NoRow /\ recs'[r].last # recs[r].last =>
         recs'[r].last > recs[r].last /\ recs'[r].due > recs'[r].last]_vars

Healthy(r) == Exists(r) /\ ~recs[r].broken /\ recs[r].schedule.n > 0

\* One failure does not block others: a tick ends, unless the process is
\* killed, only when it has taken its turn with every healthy recurrence it
\* listed.
FailureIsolated ==
  [][sched.pc # "sleep" /\ sched'.pc = "sleep" /\ crashes' = crashes =>
       ~ \E r \in sched.todo : Healthy(r) /\ Due(recs[r], sched.at)]_vars

\* What is due is spawned, or stops being due, in spite of restarts and of
\* ticks given up because a recurrence was deleted under the scheduler.
DueIsSpawned ==
  \A r \in Recs : (Healthy(r) /\ Due(recs[r], now)) ~> ~(Healthy(r) /\ Due(recs[r], now))

\* Every tick ends, so that there is a next one.
TickEnds == (sched.pc # "sleep") ~> (sched.pc = "sleep")
=============================================================================
