------------------------------- MODULE Issues -------------------------------
(***************************************************************************)
(* The issue service: concurrent requests that create, update, delete and  *)
(* convert issues, one at a time or in batches, and the projects they are  *)
(* filed under.                                                            *)
(*                                                                         *)
(* Each request runs in a database session of its own.  PostgreSQL runs at *)
(* READ COMMITTED and no statement asks for a row lock, so every SELECT    *)
(* sees what is committed when it runs and another request may commit      *)
(* between any two of them; each await of the handler that reads the       *)
(* database is a step of its own here, and the flush-to-commit tail of a   *)
(* transaction, which holds the row's lock, is one step.  A session never  *)
(* reloads a row it already holds (expire_on_commit=False): its cache is   *)
(* its identity map, and a batch works from rows it listed at the start.   *)
(***************************************************************************)
EXTENDS Naturals, Sequences, FiniteSets, RuleEngine

CONSTANTS
  Issues,        \* issue ids (UUIDs; an id is never used twice)
  Projects,      \* project ids, likewise
  Users,         \* members an issue can be assigned to
  States,        \* the named workflow states of the team
  TypeOf,        \* the category of each state
  TriageKeys,    \* keys a triage_context document may hold
  NoRow,         \* what a SELECT of a missing row returns
  Sessions,      \* concurrent requests
  Rules,         \* the team's rules
  InitRows,      \* the issues table to start from
  InitProjects,  \* the projects to start from
  Patches,       \* bodies of PATCH requests: functions from columns to values
  NewItems,      \* bodies of POST requests: sequences of rows
  Filters,       \* batch filters: sets of categories
  Ops,           \* the operations clients ask for
  MaxRequests,   \* bound on the number of requests
  MayCrash       \* whether the API process may die and restart

Flag == "children_all_done"

Columns == {"state", "parent", "assignee", "project", "triage"}

Row == [state    : States,
        parent   : Issues \cup {None},
        assignee : Users \cup {None},
        project  : Projects \cup {None},
        triage   : SUBSET TriageKeys]

\* The columns of this model a set_field action may target.
SetFieldAllowed == {"state", "assignee", "project"}

IsPatch(p) ==
  /\ DOMAIN p \subseteq Columns
  /\ "state"    \in DOMAIN p => p["state"] \in States
  /\ "parent"   \in DOMAIN p => p["parent"] \in Issues \cup {None}
  /\ "assignee" \in DOMAIN p => p["assignee"] \in Users \cup {None}
  /\ "project"  \in DOMAIN p => p["project"] \in Projects \cup {None}
  /\ "triage"   \in DOMAIN p => p["triage"] \in SUBSET TriageKeys

ASSUME NullAssumption == /\ None \notin Issues \cup Projects \cup Users \cup States
                         /\ NoRow \notin Row
ASSUME GoneAssumption == NoRow \notin States
ASSUME FlagAssumption == Flag \in TriageKeys
ASSUME StatesAssumption == TypeOf \in [States -> StateTypes]
ASSUME PatchesAssumption == \A p \in Patches : IsPatch(p)
ASSUME NewItemsAssumption == NewItems \subseteq Seq(Row) \ {<< >>}
ASSUME RulesAssumption ==
  \A r \in Rules : IsPatch(r.sets) /\ DOMAIN r.sets \subseteq SetFieldAllowed
ASSUME InitAssumption ==
  /\ InitRows \in [Issues -> Row \cup {NoRow}]
  /\ InitProjects \subseteq Projects
  /\ \A i \in Issues : InitRows[i] # NoRow =>
       /\ InitRows[i].parent # i
       /\ InitRows[i].parent # None => InitRows[InitRows[i].parent] # NoRow
       /\ InitRows[i].project # None => InitRows[i].project \in InitProjects
ASSUME MaxRequestsAssumption == MaxRequests \in Nat

VARIABLES
  db,         \* the committed issues table
  projects,   \* the committed projects table
  minted,     \* ids already given to an issue or a project
  notified,   \* issues a notification row refers to
  trail,      \* each issue as created, with the logged changes replayed
  sess,       \* the state of each request
  served      \* requests begun so far

vars == <<db, projects, minted, notified, trail, sess, served>>
tables == <<db, projects, minted, notified, trail>>

NoCache == [i \in Issues |-> NoRow]
NoPatch == << >>

Idle ==
  [pc |-> "idle", todo |-> {}, item |-> None, patch |-> NoPatch,
   cache |-> NoCache, to |-> None, triggers |-> << >>, fired |-> {},
   seen |-> {}, items |-> << >>, batch |-> FALSE, pend |-> NoCache, notes |-> {}]

Init ==
  /\ db = InitRows
  /\ projects = InitProjects
  /\ minted = {i \in Issues : InitRows[i] # NoRow} \cup InitProjects
  /\ notified = {}
  /\ trail = InitRows
  /\ sess = [s \in Sessions |-> Idle]
  /\ served = 0

----------------------------------------------------------------------------
(* Reads.                                                                  *)

Exists(i) == db[i] # NoRow
Terminal(st) == TypeOf[st] \in TerminalTypes
Children(p) == {i \in Issues : Exists(i) /\ db[i].parent = p}
ActiveChildren(p) == {i \in Children(p) : ~Terminal(db[i].state)}

\* The table as a count_query sees it.
AsSeen(row) == [state_type |-> TypeOf[row.state],
                assignee |-> row.assignee, project |-> row.project,
                parent |-> row.parent]
CommittedRows == [i \in {j \in Issues : Exists(j)} |-> AsSeen(db[i])]

\* Mutant: rows not yet committed are not counted.
RowsCommitted(pend) == CommittedRows

\* The committed rows and those the transaction itself has inserted.
RowsWith(pend) ==
  [j \in {k \in Issues : Exists(k) \/ pend[k] # NoRow} |->
     IF pend[j] # NoRow THEN AsSeen(pend[j]) ELSE AsSeen(db[j])]

\* The foreign keys of a row.
ParentFound(row)  == row.parent # None => Exists(row.parent)
ProjectFound(row) == row.project # None => row.project \in projects

Patched(row, p) == [c \in Columns |-> IF c \in DOMAIN p THEN p[c] ELSE row[c]]

\* The state the patch moves the issue to, None when it stays where it is.
TargetState(row, p) ==
  IF "state" \in DOMAIN p /\ p["state"] # row.state THEN p["state"] ELSE None

TriggersOf(row, p) ==
  (IF TargetState(row, p) # None THEN << "issue.state_changed" >> ELSE << >>)
  \o (IF "assignee" \in DOMAIN p /\ p["assignee"] # row.assignee
      THEN << "issue.assigned" >> ELSE << >>)
  \o << "issue.updated" >>

\* The rule context: the issue as read, before the change.
UpdateContext(row, to) ==
  [state_type      |-> TypeOf[row.state],
   assignee_id     |-> row.assignee,
   project_id      |-> row.project,
   parent_id       |-> row.parent,
   from_state_type |-> IF to = None THEN "" ELSE TypeOf[row.state],
   to_state_type   |-> IF to = None THEN "" ELSE TypeOf[to]]

CreateContext(row) ==
  [state_type      |-> TypeOf[row.state],
   assignee_id     |-> row.assignee,
   project_id      |-> row.project,
   parent_id       |-> row.parent,
   from_state_type |-> "",
   to_state_type   |-> TypeOf[row.state]]

At(s, label) == sess[s].pc = label

\* Mutant: the session is not closed, and its transaction stays open.
LeaveOpen(s) == sess' = [sess EXCEPT ![s].pc = "idle"]

\* The request ends: its response is sent, or it fails and its session is
\* closed, which rolls back whatever it had not committed.
End(s) == sess' = [sess EXCEPT ![s] = Idle]

----------------------------------------------------------------------------
(* PATCH of one issue, and of the issues a filter selects.                 *)

Begin(s, op) ==
  /\ op \in Ops
  /\ At(s, "idle")
  /\ served < MaxRequests
  /\ served' = served + 1

BeginUpdate(s, i, p) ==
  /\ Begin(s, "update")
  /\ Exists(i)
  /\ sess' = [sess EXCEPT ![s] = [Idle EXCEPT
       !.pc = "check", !.todo = {i}, !.patch = p,
       !.cache = [NoCache EXCEPT ![i] = db[i]]]]
  /\ UNCHANGED tables

Matching(filter) == {i \in Issues : Exists(i) /\ TypeOf[db[i].state] \in filter}

BeginBatch(s, filter, p) ==
  /\ Begin(s, "batch")
  /\ Matching(filter) # {}
  /\ sess' = [sess EXCEPT ![s] = [Idle EXCEPT
       !.pc = "check", !.todo = Matching(filter), !.patch = p,
       !.cache = [i \in Issues |-> IF i \in Matching(filter) THEN db[i] ELSE NoRow]]]
  /\ UNCHANGED tables

\* Mutant: the parent need only exist.
ParentThere(i, up) == Exists(up)

\* An issue cannot be its own parent, nor the child of one that is not there.
ParentAllowed(i, up) == up # i /\ Exists(up)

\* Mutant: the state machine is not asked.
AnyMove(row, p) == TRUE

\* A move is judged by the state of the row the session holds.
MoveAllowed(row, p) ==
  TargetState(row, p) # None =>
    IsValidTransition(TypeOf[row.state], TypeOf[TargetState(row, p)])

Acceptable(i, row, p) ==
  /\ Exists(i)
  /\ "parent" \in DOMAIN p /\ p["parent"] # None => ParentAllowed(i, p["parent"])
  /\ "project" \in DOMAIN p => ProjectFound(p)
  /\ MoveAllowed(row, p)

AcceptPatch(s, i) ==
  /\ At(s, "check")
  /\ i \in sess[s].todo
  /\ LET me == sess[s]
         row == me.cache[i]
     IN  /\ Acceptable(i, row, me.patch)
         /\ sess' = [sess EXCEPT ![s] = [me EXCEPT
              !.pc = "rules", !.item = i, !.todo = @ \ {i},
              !.to = TargetState(row, me.patch),
              !.triggers = TriggersOf(row, me.patch), !.fired = {}]]
  /\ UNCHANGED <<tables, served>>

RefusePatch(s, i) ==
  /\ At(s, "check")
  /\ i \in sess[s].todo
  /\ ~Acceptable(i, sess[s].cache[i], sess[s].patch)
  /\ End(s)
  /\ UNCHANGED <<tables, served>>

\* One evaluate_rules call, for the next trigger of the request.  Its
\* count_query SELECTs, one after the other in the code, are a single read.
EvaluateRules(s) ==
  /\ At(s, "rules")
  /\ LET me == sess[s]
         ctx == UpdateContext(me.cache[me.item], me.to)
         trigger == Head(me.triggers)
     IN  IF Allowed(Rules, trigger, ctx, CommittedRows)
         THEN sess' = [sess EXCEPT ![s] = [me EXCEPT
                !.triggers = Tail(@),
                !.fired = @ \cup Fired(Rules, trigger, ctx, CommittedRows),
                !.pc = IF Len(me.triggers) = 1 THEN "write" ELSE "rules"]]
         ELSE End(s)
  /\ UNCHANGED <<tables, served>>

\* The row in memory after the patch, and after the effects of the rules.
Mutated(me) == Patched(me.cache[me.item], me.patch)
Final(me) == ApplyEffects(Mutated(me), me.fired)

\* The ORM sends only the columns whose value differs from the one the
\* session holds: once for the patch, once for the effects.
Changed(old, new) == {c \in Columns : old[c] # new[c]}

\* Mutant: the whole row is sent.
WrittenWholeRow(me) == Columns

Written(me) == Changed(me.cache[me.item], Mutated(me)) \cup Changed(Mutated(me), Final(me))

\* The foreign keys refuse an UPDATE that refers to a row that is gone.
Refused(old, new) ==
  \/ "parent" \in Changed(old, new) /\ ~ParentFound(new)
  \/ "project" \in Changed(old, new) /\ ~ProjectFound(new)

\* Flush, effects, second flush with the audit entry, and commit.  An UPDATE
\* of a row that is gone fails the request too.
WriteFails(me) ==
  \/ ~Exists(me.item) /\ (Written(me) # {} \/ Notifies(me.fired))
  \/ Refused(me.cache[me.item], Mutated(me))
  \/ Refused(Mutated(me), Final(me))

Overwrite(row, me) == [c \in Columns |-> IF c \in Written(me) THEN Final(me)[c] ELSE row[c]]

\* Mutant: the body of the request is logged, not what it changes.
LoggedBody(entry, me) ==
  [c \in Columns |-> IF c \in DOMAIN me.patch THEN me.patch[c] ELSE entry[c]]

\* The audit entry records the patch's own changes, not the effects'.
Logged(entry, me) ==
  [c \in Columns |-> IF c \in Changed(me.cache[me.item], Mutated(me))
                     THEN Mutated(me)[c] ELSE entry[c]]

CommitUpdate(s) ==
  /\ At(s, "write")
  /\ ~WriteFails(sess[s])
  /\ LET me == sess[s]
         i == me.item
     IN  /\ db' = IF Exists(i) THEN [db EXCEPT ![i] = Overwrite(db[i], me)] ELSE db
         /\ trail' = IF Exists(i) THEN [trail EXCEPT ![i] = Logged(trail[i], me)] ELSE trail
         /\ notified' = IF Notifies(me.fired) THEN notified \cup {i} ELSE notified
         /\ sess' = [sess EXCEPT ![s] = [me EXCEPT
              !.cache[i] = Final(me),
              !.pc = IF me.to # None /\ Terminal(me.to) /\ Final(me).parent # None
                     THEN "siblings" ELSE "refresh"]]
  /\ UNCHANGED <<projects, minted, served>>

FailUpdate(s) ==
  /\ At(s, "write")
  /\ WriteFails(sess[s])
  /\ End(s)
  /\ UNCHANGED <<tables, served>>

----------------------------------------------------------------------------
(* The completion rollup, after the commit of a child's completion.        *)

ParentOf(me) == me.cache[me.item].parent
StateSeen(me, j) == IF me.cache[j] # NoRow THEN me.cache[j].state ELSE db[j].state
Siblings(me) == Children(ParentOf(me)) \ {me.item}

\* Mutants: a canceled sibling does not count as done; one under way does.
SiblingCompleted(me, j) == TypeOf[StateSeen(me, j)] = "completed"
SiblingTakenUp(me, j) == TypeOf[StateSeen(me, j)] \in TerminalTypes \cup {"started"}

SiblingDone(me, j) == Terminal(StateSeen(me, j))

ReadSiblings(s) ==
  /\ At(s, "siblings")
  /\ LET me == sess[s]
         allDone == /\ Siblings(me) # {}
                    /\ \A j \in Siblings(me) : SiblingDone(me, j)
     IN  sess' = [sess EXCEPT ![s].pc = IF allDone THEN "parent" ELSE "refresh"]
  /\ UNCHANGED <<tables, served>>

ReadParent(s) ==
  /\ At(s, "parent")
  /\ LET me == sess[s]
         p == ParentOf(me)
     IN  sess' = [sess EXCEPT ![s] =
           IF ~Exists(p) THEN [me EXCEPT !.pc = "refresh"]
           ELSE [me EXCEPT !.pc = "flag",
                  !.seen = IF me.cache[p] # NoRow THEN me.cache[p].triage ELSE db[p].triage]]
  /\ UNCHANGED <<tables, served>>

\* An empty context is replaced by a new document.  One with content is
\* changed in place and assigned to itself, which the ORM does not see as a
\* change: nothing is sent.
FlagParent(s) ==
  /\ At(s, "flag")
  /\ LET me == sess[s]
         p == ParentOf(me)
     IN  IF me.seen = {} /\ ~Exists(p)
         THEN End(s) /\ UNCHANGED db
         ELSE /\ db' = IF me.seen = {} THEN [db EXCEPT ![p].triage = {Flag}] ELSE db
              /\ sess' = [sess EXCEPT ![s] = [me EXCEPT
                   !.pc = "refresh",
                   !.cache[p] = IF @ = NoRow THEN NoRow
                                ELSE [@ EXCEPT !.triage = me.seen \cup {Flag}]]]
  /\ UNCHANGED <<projects, minted, notified, trail, served>>

\* db.refresh of the issue that was updated; then the next of the batch.
Refresh(s) ==
  /\ At(s, "refresh")
  /\ LET me == sess[s]
     IN  IF ~Exists(me.item) \/ me.todo = {}
         THEN End(s)
         ELSE sess' = [sess EXCEPT ![s] = [me EXCEPT
                !.pc = "check", !.item = None, !.to = None, !.fired = {}, !.seen = {},
                !.cache[me.item] = db[me.item]]]
  /\ UNCHANGED <<tables, served>>

----------------------------------------------------------------------------
(* POST of one issue or of a batch: one transaction, a savepoint per item. *)

BeginCreate(s, items) ==
  /\ Begin(s, IF Len(items) = 1 THEN "create" ELSE "batch_create")
  /\ sess' = [sess EXCEPT ![s] = [Idle EXCEPT
       !.pc = "item", !.items = items, !.batch = Len(items) > 1]]
  /\ UNCHANGED tables

NextItem(me) == IF Len(me.items) = 1 THEN "commit" ELSE "item"

\* An item that is refused or rejected is rolled back to its savepoint and
\* the batch goes on; a single create fails.
DropItem(s) ==
  LET me == sess[s]
  IN  IF me.batch
      THEN sess' = [sess EXCEPT ![s] = [me EXCEPT
             !.pc = NextItem(me), !.items = Tail(@), !.item = None,
             !.pend = [i \in Issues |-> IF i = me.item THEN NoRow ELSE @[i]]]]
      ELSE End(s)

ValidateItem(s) ==
  /\ At(s, "item")
  /\ IF ParentFound(Head(sess[s].items)) /\ ProjectFound(Head(sess[s].items))
     THEN sess' = [sess EXCEPT ![s].pc = "insert"]
     ELSE DropItem(s)
  /\ UNCHANGED <<tables, served>>

\* The INSERT is flushed: the row is visible to its own transaction only,
\* and the foreign key checks keep the rows it refers to locked until the
\* end of it.
Insert(s, i) ==
  /\ At(s, "insert")
  /\ i \notin minted
  /\ LET row == Head(sess[s].items)
     IN  /\ ParentFound(row) /\ ProjectFound(row)
         /\ sess' = [sess EXCEPT ![s].pc = "created", ![s].item = i, ![s].pend[i] = row]
  /\ minted' = minted \cup {i}
  /\ UNCHANGED <<db, projects, notified, trail, served>>

\* The row a new issue refers to was deleted since it was validated.
FailInsert(s) ==
  /\ At(s, "insert")
  /\ LET row == Head(sess[s].items) IN ~(ParentFound(row) /\ ProjectFound(row))
  /\ End(s)
  /\ UNCHANGED <<tables, served>>

\* The rules see the new row and the items before it; their effects are
\* applied in the same transaction.
EvaluateCreated(s) ==
  /\ At(s, "created")
  /\ LET me == sess[s]
         row == me.pend[me.item]
         rows == RowsWith(me.pend)
         fired == Fired(Rules, "issue.created", CreateContext(row), rows)
     IN  IF Allowed(Rules, "issue.created", CreateContext(row), rows)
         THEN IF ProjectFound(ApplyEffects(row, fired))
              THEN sess' = [sess EXCEPT ![s] = [me EXCEPT
                     !.pc = NextItem(me), !.items = Tail(@), !.item = None,
                     !.pend[me.item] = ApplyEffects(row, fired),
                     !.notes = IF Notifies(fired) THEN @ \cup {me.item} ELSE @]]
              ELSE End(s)
         ELSE DropItem(s)
  /\ UNCHANGED <<tables, served>>

Inserted(me, table) == [i \in Issues |-> IF me.pend[i] # NoRow THEN me.pend[i] ELSE table[i]]

CommitCreate(s) ==
  /\ At(s, "commit")
  /\ db' = Inserted(sess[s], db)
  /\ trail' = Inserted(sess[s], trail)
  /\ notified' = notified \cup sess[s].notes
  /\ End(s)
  /\ UNCHANGED <<projects, minted, served>>

----------------------------------------------------------------------------
(* DELETE of an issue.                                                     *)

BeginDelete(s, i) ==
  /\ Begin(s, "delete")
  /\ Exists(i)
  /\ sess' = [sess EXCEPT ![s] = [Idle EXCEPT !.pc = "count", !.item = i]]
  /\ UNCHANGED tables

CountActiveChildren(s) ==
  /\ At(s, "count")
  /\ IF Exists(sess[s].item) /\ ActiveChildren(sess[s].item) = {}
     THEN sess' = [sess EXCEPT ![s].pc = "delete"]
     ELSE End(s)
  /\ UNCHANGED <<tables, served>>

\* An uncommitted INSERT holds the rows it refers to: their DELETE waits.
Locked(i) == \E s \in Sessions, j \in Issues :
               sess[s].pend[j] # NoRow /\ i \in {sess[s].pend[j].parent, sess[s].pend[j].project}

\* Mutant: the columns are declared without their foreign keys.
NoForeignKeys(i) == FALSE

\* The foreign keys refuse the DELETE while a child or a notification
\* refers to the issue.
Referenced(i) == Children(i) # {} \/ i \in notified

\* Mutant: the row stays, and loses its state.
SoftlyDeleted(i) == [db EXCEPT ![i].state = None]

Deleted(i) == [db EXCEPT ![i] = NoRow]

CommitDelete(s) ==
  /\ At(s, "delete")
  /\ ~Locked(sess[s].item)
  /\ db' = IF Referenced(sess[s].item) THEN db ELSE Deleted(sess[s].item)
  /\ End(s)
  /\ UNCHANGED <<projects, minted, notified, trail, served>>

----------------------------------------------------------------------------
(* Projects: creation, conversion of an issue, deletion.                   *)

IssuesOf(q) == {i \in Issues : Exists(i) /\ db[i].project = q}

\* Mutant: projects are referred to without a foreign key.
NoProjectKey(q) == FALSE

ProjectReferenced(q) == IssuesOf(q) # {}

CreateProject(s, q) ==
  /\ Begin(s, "create_project")
  /\ q \notin minted
  /\ projects' = projects \cup {q}
  /\ minted' = minted \cup {q}
  /\ UNCHANGED <<db, notified, trail, sess>>

BeginConvert(s, i) ==
  /\ Begin(s, "convert")
  /\ Exists(i)
  /\ sess' = [sess EXCEPT ![s] = [Idle EXCEPT !.pc = "convert", !.item = i]]
  /\ UNCHANGED tables

\* The new project and the issue's reference to it are one transaction,
\* which leaves no audit entry.
CommitConvert(s, q) ==
  /\ At(s, "convert")
  /\ q \notin minted
  /\ IF Exists(sess[s].item)
     THEN /\ projects' = projects \cup {q}
          /\ db' = [db EXCEPT ![sess[s].item].project = q]
     ELSE UNCHANGED <<projects, db>>
  /\ minted' = minted \cup {q}
  /\ End(s)
  /\ UNCHANGED <<notified, trail, served>>

BeginDeleteProject(s, q) ==
  /\ Begin(s, "delete_project")
  /\ q \in projects
  /\ sess' = [sess EXCEPT ![s] = [Idle EXCEPT !.pc = "count_issues", !.item = q]]
  /\ UNCHANGED tables

CountIssues(s) ==
  /\ At(s, "count_issues")
  /\ IF sess[s].item \in projects /\ IssuesOf(sess[s].item) = {}
     THEN sess' = [sess EXCEPT ![s].pc = "delete_project"]
     ELSE End(s)
  /\ UNCHANGED <<tables, served>>

CommitDeleteProject(s) ==
  /\ At(s, "delete_project")
  /\ ~Locked(sess[s].item)
  /\ projects' = IF ProjectReferenced(sess[s].item) THEN projects
               ELSE projects \ {sess[s].item}
  /\ End(s)
  /\ UNCHANGED <<db, minted, notified, trail, served>>

----------------------------------------------------------------------------
\* The API process dies: every request in flight is gone, what was
\* committed stays.
Crash ==
  /\ MayCrash
  /\ \E s \in Sessions : ~At(s, "idle")
  /\ sess' = [s \in Sessions |-> Idle]
  /\ UNCHANGED <<tables, served>>

\* A step of a request that is under way.
Proceed(s) ==
  \/ \E i \in Issues : AcceptPatch(s, i)
  \/ \E i \in Issues : RefusePatch(s, i)
  \/ EvaluateRules(s)
  \/ CommitUpdate(s)
  \/ FailUpdate(s)
  \/ ReadSiblings(s)
  \/ ReadParent(s)
  \/ FlagParent(s)
  \/ Refresh(s)
  \/ ValidateItem(s)
  \/ \E i \in Issues : Insert(s, i)
  \/ FailInsert(s)
  \/ EvaluateCreated(s)
  \/ CommitCreate(s)
  \/ CountActiveChildren(s)
  \/ CommitDelete(s)
  \/ \E q \in Projects : CommitConvert(s, q)
  \/ CountIssues(s)
  \/ CommitDeleteProject(s)

Request(s) ==
  \/ \E i \in Issues, p \in Patches : BeginUpdate(s, i, p)
  \/ \E f \in Filters, p \in Patches : BeginBatch(s, f, p)
  \/ \E items \in NewItems : BeginCreate(s, items)
  \/ \E i \in Issues : BeginDelete(s, i)
  \/ \E q \in Projects : CreateProject(s, q)
  \/ \E i \in Issues : BeginConvert(s, i)
  \/ \E q \in Projects : BeginDeleteProject(s, q)

Next ==
  \/ \E s \in Sessions : Request(s)
  \/ \E s \in Sessions : Proceed(s)
  \/ Crash

\* Clients may stop asking, but the event loop runs a request it has taken.
Fairness == \A s \in Sessions : WF_vars(Proceed(s))

Spec == Init /\ [][Next]_vars /\ Fairness

----------------------------------------------------------------------------
(* Properties.                                                             *)

Labels == {"idle", "check", "rules", "write", "siblings", "parent", "flag",
           "refresh", "item", "insert", "created", "commit", "count", "delete",
           "convert", "count_issues", "delete_project"}

SessionState ==
  [pc : Labels, todo : SUBSET Issues, item : Issues \cup Projects \cup {None},
   patch : Patches \cup {NoPatch}, cache : [Issues -> Row \cup {NoRow}],
   to : States \cup {None}, triggers : Seq(Triggers), fired : SUBSET Rules,
   seen : SUBSET TriageKeys, items : Seq(Row), batch : BOOLEAN,
   pend : [Issues -> Row \cup {NoRow}], notes : SUBSET Issues]

\* Types of the tables, and of what each request holds where it is.
TypeOK ==
  /\ db \in [Issues -> Row \cup {NoRow}]
  /\ projects \subseteq Projects
  /\ minted \subseteq Issues \cup Projects
  /\ notified \subseteq Issues
  /\ trail \in [Issues -> Row \cup {NoRow}]
  /\ served \in 0..MaxRequests
  /\ sess \in [Sessions -> SessionState]

\* No row refers to a row that is gone: neither a child to its parent, nor an
\* issue to its project, nor a notification to its issue, however creates,
\* moves, conversions and deletes interleave between the checks of
\* delete_issue, delete_project and _validate_references and the commits they
\* guard.
ReferencesIntact ==
  /\ \A i \in Issues : Exists(i) => ParentFound(db[i]) /\ ProjectFound(db[i])
  /\ \A i \in notified : Exists(i)

\* No issue is its own parent: the guard of update_issue is on the request's
\* own body, so unlike the guards on stored rows it cannot go stale, and the
\* id of a new issue cannot be named as its parent.
NoSelfParent == \A i \in Issues : Exists(i) => db[i].parent # i

\* Replaying the audit entries over the row as it was created gives the row
\* stored.  The diff is computed from the session's own, possibly stale, copy
\* of the issue, and the UPDATE from the same copy, so what is logged is what
\* is written.  (The triage context is left out: the rollup writes it without
\* an entry.)
AuditTracksRows ==
  \A i \in Issues : Exists(i) =>
    \A c \in Columns \ {"triage"} : trail[i][c] = db[i][c]

\* A request writes only columns its patch or a rule that fired names (the
\* rollup, only the triage context of the parent): a column another request
\* committed meanwhile is never overwritten with the stale value a session
\* holds.
StaleColumnsNeverWritten ==
  [][\A i \in Issues, c \in Columns :
       db[i] # NoRow /\ db'[i] # NoRow /\ db[i][c] # db'[i][c] =>
         \E s \in Sessions :
           \/ /\ At(s, "write") /\ sess[s].item = i
              /\ \/ c \in DOMAIN sess[s].patch
                 \/ \E r \in sess[s].fired : c \in DOMAIN r.sets
           \/ At(s, "flag") /\ ParentOf(sess[s]) = i /\ c = "triage"
           \/ At(s, "convert") /\ sess[s].item = i /\ c = "project"]_vars

AllDone(p) == /\ Cardinality(Children(p)) > 1
              /\ ActiveChildren(p) = {}

Flagged(p) == Exists(p) /\ Flag \in db[p].triage

\* A request that may still carry out the rollup.
RollupPending == \E s \in Sessions : ~At(s, "idle")

\* When the last requests have ended, a parent of several children all of
\* which are completed or canceled carries the flag: of the requests that
\* complete the children concurrently, the last to commit sees all of them
\* done, because each commits before it reads its siblings.
RollupNotLost ==
  \A p \in Issues : Exists(p) /\ AllDone(p) => Flagged(p) \/ RollupPending

\* The same as a promise: children that are all done get their parent
\* flagged, unless one is reopened first.
RollupEventually ==
  \A p \in Issues : (Exists(p) /\ AllDone(p)) ~> (Flagged(p) \/ ~AllDone(p))

\* Every request ends, also a DELETE that waits for the lock of an INSERT.
RequestsEnd == \A s \in Sessions : ~At(s, "idle") ~> At(s, "idle")

\* The state machine as the documentation states it: no committed change of
\* an issue's state is one that ValidTransitions forbids.
OnlyValidMoves ==
  [][\A i \in Issues : db[i] # NoRow /\ db'[i] # NoRow =>
       IsValidTransition(TypeOf[db[i].state], TypeOf[db'[i].state])]_vars

----------------------------------------------------------------------------
(* The board a client sees: the committed table, without its requests.     *)

Board == INSTANCE IssueBoard WITH
  Gone    <- NoRow,
  state   <- [i \in Issues |-> IF Exists(i) THEN db[i].state ELSE NoRow],
  parent  <- [i \in Issues |-> IF Exists(i) THEN db[i].parent ELSE None],
  flagged <- {i \in Issues : Flagged(i)}

\* Requests that run one after the other keep the promises of the board:
\* however update_issue, batch_update_issues, create_issue, the rollup and
\* delete_issue are cut into statements, together they move issues only
\* along the state machine, file them only under issues that are there and
\* never under themselves, and flag a parent only when its children are done.
ServesBoard == Board!BoardSpec
=============================================================================
