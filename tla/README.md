# A TLA+ model of adhed

adhed is a task store: a FastAPI service over PostgreSQL, with issues that move
through a workflow, a rules engine that guards and extends each change, an audit
log, recurring issues spawned by a separate scheduler process, and teams with
roles and API keys. Every request runs in its own database session; there is no
locking in the code, so what concurrent requests do to each other is decided by
the order of their statements. That is what this project models.

Paths below are relative to the repository's root.

## 1. Inventory

| Part | State | Operations | Talks to | What is hard |
|---|---|---|---|---|
| Issue service (`src/taskstore/services/issue_service.py`, `api/issues.py`) | `issues` | create, batch create, update, batch update, delete, convert to project, list | rules, audit, projects, states | validate-then-write on stale reads, the completion rollup after the commit, savepoints of a batch, foreign keys against deletes |
| State machine (`engine/transitions.py`) | none | `is_valid_transition` | issue service | judged on categories, not states |
| Rules engine (`rules/*.py`) | none (reads `rules`, `issues`) | `evaluate_rules`, `apply_effects` | issue service | counts that no lock protects, order of rules, short circuit and malformed conditions |
| Rule administration (`services/rule_service.py`) | `rules` | create, update, delete | rules engine | edits while requests evaluate |
| Audit (`engine/audit.py`, `api/audit.py`) | `audit_log` | record, list, prune | every service | entries that miss changes |
| Projects (`services/project_service.py`) | `projects` | create, update, delete | issues | delete against issues being filed |
| Recurrences (`services/recurrence_service.py`) | `recurrences` | create, update, pause, resume, delete | scheduler | edits while a spawn is under way |
| Scheduler (`scheduler.py`) | one process | tick: list, spawn, advance | recurrences, issues | restarts, missed periods, one failure among several, a loop that must end |
| Users, members (`services/user_service.py`) | `users`, `team_memberships` | add user, change role | teams, setup | count-then-write of owners and members |
| Setup (`services/setup_service.py`) | – | first setup | teams, users | several commits, run once |
| Teams, API keys (`services/team_service.py`) | `teams` | create, edit, rotate key | auth | a key shown once |
| Auth and role gates (`api/deps.py`) | – | gate of each endpoint | teams, memberships | a role read before the handler runs |
| Fragments (`services/fragment_service.py`) | `fragments` | create, update, delete, search | links, audit | diffs against stale readings |
| Fragment links (`services/fragment_link_service.py`) | `fragment_links` | create, list, delete | fragments, issues, projects, sessions | targets without a foreign key; a listing that changes its own rows |
| Sessions (`services/session_service.py`) | `sessions` | create, update, list | – | a time set from a stale reading |
| Labels, comments, notifications (`services/label_service.py`, `comment_service.py`, `api/notifications.py`) | `labels`, `issue_labels`, `comments`, `notifications` | create, rename, delete; mark as read | issues, rules | rows that rules add while what they refer to is deleted |
| Workflow states, summary | `workflow_states` | seed, list, count | issues | counts read one after the other |
| Application shell, schemas, migrations, integrations, scripts | – | – | – | no state of the domain |

What makes each part correct:

- **Issues**: no dangling parent or project; no issue its own parent; every
  committed move legal; a request never undoes another's committed change; a
  parent is flagged when its children are done, and only then; the audit log
  tells what was written; every request ends.
- **Rules**: a limit a rule states holds; a rejected operation leaves nothing
  behind; items of a batch see each other.
- **Scheduler**: no period is served twice and missed ones are made up for by one
  issue, however late or often restarted; one failure does not take the other
  recurrences of the tick with it; what is due is eventually spawned; every tick
  ends; an edit is not lost.
- **Members and setup**: a team has an owner; a role, once given, changes only by
  a request to change it; setup happens once; a setup or a creation that is
  answered has left a team that can be used; a team's key is known to somebody.
- **Fragments, links, sessions**: links form a graph whose edges start at
  fragments that are there, without twins; a listing misses no link and calls an
  end deleted only if it is; a finished session has its time; audit entries
  replay to the rows.
- **Labels, comments, notifications, rules**: none refers to a row that is gone;
  rules that add labels do not break the requests they extend.

## 2. Modules

| Module | Models |
|---|---|
| `Transitions` | the category state machine (`VALID_TRANSITIONS`) |
| `RuleEngine` | pure operators: judging conditions, choosing the rules that fire or stop, applying their effects |
| `Issues` | the issue service and the projects its issues refer to, statement by statement |
| `IssueBoard` | what the issue service promises, without requests or transactions; `Issues` implements it through `Board == INSTANCE IssueBoard WITH ...` when requests are served one at a time |
| `IssuesProofs`, `UpdateProofs`, `BoardProofs` | theorems about `Issues`: types and references; what an update may write, what the audit log tells of it, which moves are made; the rollup, the refinement of `IssueBoard`, the limits that rules of `MCIssues` set |
| `Scheduler` | the scheduler process and the recurrence endpoints |
| `SchedulerProofs` | theorems about `Scheduler` |
| `Membership` | setup, creation of teams, adding users, changing roles, rotating API keys |
| `MembershipProofs` | theorems about `Membership` |
| `Server` | what the requests of the next three modules share: the slots of the server, ids, the table of issues |
| `Knowledge` | fragments, fragment links and working sessions |
| `Attachments` | labels, comments, notifications and rules, with the effects of rules on issues that are created, changed and deleted |
| `Workspace` | `Knowledge` and `Attachments` composed: one server over one table of issues, which links point to and attachments hang on |
| `LinkGraph` | what links promise: a directed graph; `Workspace` implements it through `Graph == INSTANCE LinkGraph WITH ...`, with any number of concurrent requests |
| `WorkspaceProofs` | theorems about `Workspace`: types, audit, sessions, the refinement of `LinkGraph` |
| `AnchorProofs`, `AnswerProofs` | theorems about `Workspace`, building on `WorkspaceProofs`: what attachments refer to, what listings of links answer |
| `MCIssues`, `MCScheduler`, `MCMembership`, `MCWorkspace` | the instances TLC checks |

### How state and steps correspond to the code

*Sessions.* `sess[s]` is one request in flight with the database session
`get_db` gives it: `pc` names the next statement, `cache` is the session's
identity map. Sessions are created with `expire_on_commit=False`
(`src/taskstore/database.py`), so a row once loaded keeps the values it had:
a later `SELECT` finds the row but does not reload it. That is why `StateSeen`
prefers the cache.

*Steps.* PostgreSQL runs at its default, READ COMMITTED, and the code takes no
explicit lock. A step of the model is one read, or the tail of a transaction
from its first `UPDATE` to its commit: the row lock taken by the first keeps
other writers out until the second, and readers see nothing before the commit.
The reference checks of one request (`_validate_references`) and the state
look-up are one step, because each can only refuse the request and foreign keys
check the references again when they are written. An `INSERT` of a new issue is
a step of its own since rules are evaluated between it and the commit; the rows
it refers to are locked meanwhile (`Locked`), so their deletion waits.

*What is sent.* SQLAlchemy sends the columns whose value differs from the one
the session holds (`Written`, `Merge`), never the whole row. A JSONB document
changed in place and assigned to itself is not a difference (`FlagParent`).

*Data.* Of an issue's columns the model keeps those the properties tell apart:
state, parent, assignee, project and triage context. A patch is a function from
the columns it names to values, as `model_dump(exclude_unset=True)` gives it. A
condition of a rule is judged to a depth of two composites, and all the
`count_query` conditions of one evaluation count in the same table, though each
is a SELECT of its own. Rules are a constant. `trail` replays each issue's audit diffs.

*Recurrences.* Time is a number; an interval adds to it and a cron expression
fires at the multiples of a period. `broken` stands for issue defaults that
refer to a row that is gone, which nothing checks when they are stored. The
scheduler's `rec` and `row` are the recurrence it is handling and the copy it
read. A PATCH computes the new row, its due time included, from the copy and the
clock of its reading (`BeginEdit`); its UPDATE and commit are a later step
(`CommitEdit`), before which spawns may commit. One scheduler runs, as
`docker-compose.yml` deploys it.

*Members.* A user is the e-mail address. The n-th key of a team is the pair of
the team and n: `hash` tells which one is stored, `handed` which ones have been
sent in a response. The role gate of an endpoint, its lookups of the key and of
the membership, is one step. `Starts` are the tables a behaviour may start from.
A setup commits its team first and its user later, as a request to add one does;
between the two it may lose the address to another request (`AddressTaken`).

*Workspace.* `req[s]` is the request of a slot, a record whose fields depend on
where it is; a slot is idle again when the session is closed. Rows a request
inserts are `pending` until the next SELECT flushes them and `held` until the
commit: from then on they lock what they refer to, and other requests wait for
them (`IsHeld`, `TwinHeld`, `SourceHeld`). A listing of links that finds
incoming ones points them back at their source in memory to fill in the answer.
The objects belong to the session, so that the first SELECT that follows sends
these changes as UPDATEs (`TurnLinks`): they lock the rows that are there still,
fail on the unique constraint, and are rolled back when the session is closed
(`OnClose`). That a link is gone fails an UPDATE sent alone; several are sent as
one `executemany`, which does not count the rows it met. What the request sees of
a link afterwards is its own copy.

In `Attachments` every rule applies to every issue and has one action, and two
rules act in any order: which rules apply, and in which order, is the business of
`RuleEngine`. `Changing` tells whether a PATCH of an issue changes it and so
takes the lock of its row. In `Knowledge` a working session's `completed` is the
number of the request that set it, which stands for the time. `history` and
`told` are replays of the audit entries of fragments and rules.

*Crashes.* `Crash` ends every request of the API process; `Restart` ends the
scheduler's tick. Committed tables stay.

*Operators marked "Mutant"* are not part of any specification: each states how a
definition would read with a plausible bug, and shows that the property checked
next to it would notice. No behaviour uses them.

## 3. Runs

Bounds: `MaxRequests` bounds the requests begun, `MaxTime` the clock,
`MaxCrashes` the restarts. Two sessions and three requests are the smallest in
which a request can overlap another and a third can follow in the freed session;
every hazard listed involves two parties. One parent with two children is the
smallest family whose completion concerns more than one request. `Scheduling`
and `SchedulerBroken` need two recurrences for one to fail or to be left waiting
beside another; `Scheduling` has an interval and a cron schedule of different
periods and a clock long enough for both to be missed once.

`Members` starts either from an empty instance, which two setups may fight over,
or from two teams, whose owners may be demoted and may be added to the other team,
also twice at once. Addresses nobody has yet are inserted in the first case, where
the third request lets an answered setup be followed by work on its team while the
other setup is still under way. The two violation runs of `Membership` have the two requests
they need and nothing else.

`Workspace` lets the clients of a behaviour mix the operations of one of four
workloads (`Work`): requests that never meet need not be interleaved, and each
workload holds operations that touch the same rows. It has two slots and three
requests; a third fragment, fourth and fifth link and so on are the ids that new
rows take. A listing of a fragment with several incoming links at once needs more
links than that and is not reached: with them the run exceeds five minutes. The
theorems about `Workspace` cover it.

Ids stand for UUIDs, so no run may end for want of one: where `RequestsEnd` is
checked there is a free id for every request that may need it. The rules of the
runs are the smallest that can fail: a limit of one started issue per user, a
limit of two children, two rules that set the same column.

Runs of `Issues`, `Membership` and `Workspace` switch the deadlock check off: once the
bounded requests have been served the system is at rest. That requests do not
get stuck before is what `RequestsEnd` checks. The scheduler always has a next
tick, and its runs keep the deadlock check on.

| Run | Shows |
|---|---|
| `IssuesRollup` | Whoever completes last flags the parent: `RollupNotLost` in every state without a request in flight, `RollupEventually` as a promise. No request overwrites a column another committed (`StaleColumnsNeverWritten`). |
| `IssuesTree` | Creations, moves, completions that notify, deletions and crashes keep references intact (`ReferencesIntact`), nobody is their own parent, and the audit log replays to the rows. |
| `IssuesProjects` | The same references for projects created, deleted, converted and filed under, by clients and by rules; a deletion waits for an insertion's lock, and every request ends. |
| `IssuesSerial` | One request at a time, the service implements `IssueBoard`, moves are legal, and a WIP limit and a limit on children hold, also inside batches. |
| `Scheduling` | No period is served twice, but where a spawn commits between the reading and the commit of an edit (`OnlyOvertakenEditsRepeat`; the exception occurs in the run); each spawn advances; what is due is spawned, and every tick ends, under two clients' edits, restarts, deletions and ticks given up. |
| `Workspace` | Links implement `LinkGraph`; listings answer what is there; finished sessions are dated; audit entries replay to the rows; attachments, comments and notifications refer to rows that are there; labels that rules add never collide; every request ends, also one that waits for another's rows. |
| `Members` | A setup or creation of a team that is answered has left an owner and the key it answers (`AnswersUsable`), although another setup may take the team key or the address between its commits; nothing but two overlapping role changes takes the last owner of a team (`LastOwnerStays`); adding never resets a role; a key in use stays known; requests end. Crashes included. |

`IssuesSerial` gives one session: with two some of its properties do not hold,
see below.

### Where the code and its documentation part

Each of these runs checks one property stated by a document, comment or test of
the repository, and TLC shows a behaviour of the code that breaks it.
`PROJECT.json` quotes the sentence and the line.

| Run | Behaviour found |
|---|---|
| `IssuesRollupTriaged` | A parent with a triage context is never flagged: the document is changed in place, which the ORM does not notice. |
| `IssuesStaleMove` | Two moves validated against the same state commit a forbidden move. |
| `SchedulerBroken` | One failing spawn gives up the rest of the tick. |
| `MembersLastOwner` | Two demotions leave no owner. |
| `MembersTwoSetups` | Two setups of an empty instance both count no teams and both make one. |

The models show more of the kind when a constant of a run is changed; none of it
is a run of its own.

| Change | Behaviour |
|---|---|
| `IssuesRollup` with `"batch"` among `Ops`, a filter and one child not started | `RollupNotLost` fails: a batch judges siblings by the list it made first. |
| `IssuesRollup` with `"delete"` among `Ops`, or a patch that takes an issue out of its family, and two children done beside an active one | `RollupNotLost` fails: nobody looks at the children that are left. |
| `IssuesRollup` with a rule on `issue.assigned` that completes the issue | `RollupNotLost` fails: the rollup follows the patch, not the effects. |
| `IssuesRollup` with `MayCrash = TRUE` | `RollupNotLost` fails: a crash after the child's commit loses the rollup for good. |
| `IssuesSerial` with two sessions | `WipRespected` fails: both requests count before either commits. |
| `IssuesTree` with `Rules <- Effects` and a patch that starts an issue | `AuditTracksRows` fails: effects are applied after the diff (docs: an audit trail on every mutation). |
| `IssuesTree` with projects and `"convert"` among `Ops` | `AuditTracksRows` fails: a conversion is not audited. |
| `Scheduling` with an interval of zero among `Schedules` | `TickEnds` fails: `validate_schedule` accepts `0d`, and the loop past missed periods never ends. |
| `Workspace` with `Changing = {TRUE, FALSE}` | `TagsNeverCollide` fails: a PATCH that changes nothing sends no UPDATE and so locks no row, and two of them both find a label missing and add it; the later one fails with an error of the server. |

Also visible in the definitions: an edit of a schedule that a spawn overtakes leaves
a due time that is not after the spawn (`CommitEdit`), so that the recurrence is
spawned again at once, where `docs/specs/2026-05-06-recurrences-design.md:99` says
"spawn exactly one instance"; a spawn overwrites the due time of a schedule
edited meanwhile (`CommitSpawn`), an interval counts from the tick that spawned
(`NewDue`), and `issue.state_changed` fires within one category (`TriggersOf`);
the documents describe each differently. Rules of equal priority, and 100 is the
default, are evaluated in whatever order the database returns them
(`LastSetter`), while `list_rules` shows them by creation. In `Knowledge`: the end of a link that
is gone is answered as "(deleted)", where
`docs/superpowers/specs/2026-04-24-fragment-links-design.md:30` says such links
are filtered out; a fragment linked to itself is listed twice, both times as
incoming; and a listing of a fragment fails when a fragment linked to it is also
linked to itself, because the UPDATE of the one link meets the unique constraint
with the other (`TurnFails`). `AnswersTruthful` asks a listing neither to show nor
to leave out a link whose end is gone, only not to call an end gone that is there.
In `Membership`: a setup that dies after its first commit, or loses the address of
its user to another setup there (`AddressTaken`), leaves a team that nobody can
use, and every later setup is refused because of it; a rotation that dies between
its commit and its answer leaves a key that nobody knows; and a change of a role
commits although its caller was demoted meanwhile. In `Attachments`: a rule that has notified anybody cannot be
deleted (`CommitDropRule`), nor can an issue somebody was notified about.

### Fairness

`WF(Proceed(s))` for each request: the event loop runs a request it has taken as
long as it can go on, and PostgreSQL grants a lock when its holder's transaction
ends. Nothing makes a client send a request. `WF(SchedulerStep)`: the scheduler
sleeps a fixed time between ticks and otherwise runs; restarts are bounded, so
that it is not killed in every tick. The clock need not advance.

## 4. Proofs

### Issues

`IssuesProofs` proves, for any issues, projects, rules, bodies, tables to start
from and any number of concurrent requests and crashes:

- `IssuesTyped`: `Spec => []TypeOK`.
- `ReferencesStayIntact`: `Spec => []ReferencesIntact`.
- `NobodyOwnParent`: `Spec => []NoSelfParent`.

None of the three is inductive. A commit writes what its request decided several
steps earlier, so the invariant has to say what a request holds while it waits:

- `TableInv`: a stored row refers only to stored rows, is not its own parent, has
  an audit trail, and its id was minted; notifications refer to stored rows.
- `Local`, for each request, without looking at the tables: the issues it has
  still to do are in its cache, a validated `parent_id` is not the issue itself,
  what it will notify about it has inserted.
- `PendInv`, for each request: a row inserted and not committed has a minted id
  and refers to what is stored.

`IInvInit` and `IInvStep` prove it, one lemma per action. Three of them carry the
argument. `InsertStep`: the id of a new row was never minted, so the row, whose
parent is stored, cannot be its own parent. `CommitUpdateStep`: a column is
written only when the session's copy differs, so a written parent is the
validated one, and its foreign key is checked again by the UPDATE; a column that
is not written keeps the stored, intact value. `CommitDeleteStep` and
`CommitDeleteProjectStep`: the foreign keys see the stored rows that refer to
what is deleted, and the locks of the INSERTs under way those still pending;
without the locks `PendInv` would not survive a delete. Steps that leave the
tables alone go through `SessionStep`, steps of the tables through `TableStep`.

`UpdateProofs` builds on the same invariant and proves:

- `OnlyNamedColumnsWritten`: `Spec => StaleColumnsNeverWritten`.
- `LogTracksRows`: `Spec => []AuditTracksRows`, if no rule sets a column and no
  issue is converted (`Plain`).
- `MovesStayValid`: `Spec => OnlyValidMoves`, if there is one session
  (`OneAtATime`) and no rule sets the state (`RulesMoveNothing`).

For the first, a column that an UPDATE sends differs from the session's copy either
after the patch, which then names it, or after the effects, one of which then sets
it (`WrittenNamed`). The commit of an INSERT needs `PendApart`: what a request has
inserted and not committed is not stored and is nobody else's, so that it
overwrites nothing. For the second, without effects the columns sent are exactly
the columns logged (`UpdateTracks`), both computed from one and the same copy, be
it stale or not. Effects and conversions leave no entry; section 3 shows what that
does. The third rests on `AllFresh`: the states a request has read of the issues it
has still to do, and of the one it is about to commit, are those stored, through
all the issues of a batch and the rollups between them; so a move that was allowed
for the copy is allowed for the row. With two sessions the copies go stale, which
is what `IssuesStaleMove` shows.

`BoardProofs` proves what the requests do to the board of issues as a whole.
Each of its four theorems names the requests it is about; each of these
hypotheses was dropped in a run of TLC and the property failed. Where the proof
counts, the set of issue ids is also taken to be finite (`IsFiniteSet(Issues)`),
without which `Cardinality` says nothing.

`RollupKept`: `Spec => []RollupNotLost`, for any number of overlapping requests,
if `RollupCovered`: no batches, deletions or crashes; no patch names the parent or
the triage context; rules set no state; no child is created done; no triage
context has content without the flag to begin with. A deletion, or a move out of
the family, can leave only children that are done without anybody looking; so
can a rule that completes an issue, since the rollup follows the patch and not
the effects; and a PATCH of the triage context overwrites the flag.

- `RollInv` is the inductive invariant: whenever a parent's children are all done
  and it is not flagged, some request is on its way to flag it (`Rolling`: past
  its commit, with that parent). Beside it stands what this rests on: a request
  holds one row only, whose parent is the one stored (`Own`), so that what it
  reads of the siblings is committed; rows to be inserted are not done
  (`NewRows`); contexts are empty or flagged (`Simple`), the case in which the ORM
  sends the new document.
- `RollStep` has two cases. The children are all done only now: then a child was
  completed in this step, and its request rolls from here on (`CompletionRolls`;
  `ChildrenAfter`: no other step completes or adds a child). They were before:
  then the request that was rolling goes on or has flagged the parent
  (`RollsOn`). A rolling request cannot turn away, since every sibling it reads is
  committed and done.

`RequestsServeBoard`: `Spec => ServesBoard`, if `BoardCovered`: one session, rules
set no state, and neither patches nor new issues write the mark of the rollup.

- `BoardInv`: the copies of a request agree with the table on state, parent and
  assignee, the move it is about to commit was judged by them, a request past
  `siblings` has found the children of the parent done (`Serial`), and no pending
  row is flagged. This has to survive a batch, where one request commits many
  times and works from the list it made first.
- `BoardStep`: a step that leaves the table alone is a stutter. Of those that
  write, a commit of an update is `Change` (`UpdateIsChange`), of a create `Add`
  (`CreateIsAdd`), of a delete `Remove` or, where foreign keys refuse it, a
  stutter (`DeleteIsRemove`), the flag is `RollUp` (`FlagIsRollUp`), and a
  conversion a stutter.

`LimitOnNewChildren` and `LimitOnWork`: `Spec => []TwoChildrenRespected` and
`Spec => []WipRespected`, with one session and the rule in question among any
other rules.

- For the first (`TwoCovered`), patches only take issues out of a family, as no
  rule on new issues is asked about a PATCH. `TwoInv` bounds not the stored
  children but those a request sees, its pending rows included, less the one the
  rule has yet to judge (`Passed`): stored children are bounded because the commit
  stores only what has passed. `RuleLimits` is the fact about the rules engine: a
  `count_query` that does not stop a request bounds what it counts.
- For the second (`WipCovered`), no rule moves an issue, patches and rules only
  unassign, and no issue is created started: the rule hears of none of these.
  `WipInv` adds to `Serial` that the assignee of an issue whose start the rule has
  let pass has nothing else started, until the commit (`AtLeisure`). `WipRejects`
  follows the `and` of the rule through its short circuit, and `MoveComesFirst`
  says that the rule is asked before any other trigger.

The four proofs share a layer of lemmas that say, action by action, what a step
leaves of the request that takes it (`AcceptFields` to `CreatedFields`).

The assumptions are those named in `Issues`: patches and rule effects have the
types of the columns, no effect targets the parent, the tables to start from
are intact, and the marks for "none" and "gone" are nobody's id or state.

### Workspace

`WorkspaceProofs` proves, for any tables to start from, any bodies and rules and
any number of concurrent requests:

- `WorkspaceTyped`: `Spec => []TypeOK`.
- `AuditAlwaysReplays`: `Spec => []AuditReplays`.
- `FinishedSessionsDated`: `Spec => []FinishedDated`.
- `LinksServeGraph`: `Spec => ServesGraph`, the refinement of `LinkGraph`.

`AnchorProofs` and `AnswerProofs` add:

- `AttachmentsStayAnchored`: `Spec => []AttachmentsAnchored`.
- `LabelsNeverCollide`: `Spec => []TagsNeverCollide`, if `FALSE \notin Changing`.
- `AnswersStayTruthful`: `Spec => []AnswersTruthful`.

Types, audit and sessions are proved together, as `TypeInv`, since types need the others:
an audit entry of a row that is gone would be ill-typed. `WorksRead` is what
`FinishedDated` lacks to be inductive: a PATCH under way that read a session
with its time set finds it set, because nobody ever clears it; so a PATCH that
finishes the session either sets the time or read it set. Sessions are never
deleted (`WorksKnown`: their ids are never given out again).

`GraphInv` says of links on their way what the graph says of links stored. A
request about to insert a link has an id nobody else has and that is not stored.
From its INSERT to its commit the source is there, since the foreign key keeps
it from being deleted (`SourceHeld`), and no link, stored or on its way, has the
same ends, since the unique index makes others wait (`KeysHeld`). With that,
`CommitLinkStep` adds an edge, `CommitDropLinkStep` removes one,
`CommitDropFragmentStep` a node with its edges, `CreateFragmentStep` adds a
node, and every other step leaves the graph alone (`GraphLeft`), listings
included.

`AnchorInv` says of the rows a request has sent what `AttachmentsAnchored` says of
those stored: what they refer to is there, since a deletion waits for the
transaction that refers to it (`IsHeld`) and an INSERT that comes too late is
refused (`Refused`).

`TagInv` is the argument why rules may look for a label first and add it later,
without a lock of their own. Either the request has inserted the issue, which
nobody else can see, or its UPDATE has locked the issue's row: two requests past
that point never work on the same issue (`Apart`). That is why the theorem assumes
that every PATCH sends an UPDATE; section 3 tells what happens otherwise.

A listing runs over several SELECTs, so that what it answers belongs to no single
state. `AnswerInv` carries, for each statement of a GET, what it has read so far
against what is stored now. It rests on two facts that hold across any steps of
others: an id that was given out and is not being inserted is stored or gone for
good (`SettledStays`), and the ends of a stored link never change for anybody but
the listing's own copy (`FixedStays`). So a link that is there when the request
answers was there when it read, and an end it calls deleted is deleted still.

Lemmas tell where a step takes a request (`KnowledgeStage`, `AttachmentStage`,
`WritingStep`, `EffectStep`, `AdminStage`) and are shared by all of these.

### Membership

`MembershipProofs` proves, for any users, teams and keys, any number of concurrent
requests, and crashes:

- `MembershipTyped`: `Spec => []TypeOK`.
- `AddingKeepsRoles`: `Spec => AddKeepsRole`.
- `KeysStayKnown`: `Spec => KeyStaysKnown`.
- `AnswersAreUsable`: `Spec => []AnswersUsable`.
- `OwnerAlwaysRemains`: `Spec => LastOwnerStays`, that is
  `[]OneChangeAtATime => []OwnerRemains`.

A request that joins somebody decided the role when it counted the members, and
commits it later. What makes that safe is that a team gets members only through
requests that know of it, which `IInv` says: a request to add comes from a member,
so its team has members and the role it holds is that of a member; a setup works
on a team without members that no other setup works on (`Apart`), because it has
created the team itself. `TeamsStay`, which every step keeps, says that teams and
members stay.

`AnswersUsable` looks at a state just before an answer, but what it says was decided
at the commits before, and other requests run in between. `MakingInv` tells why they
cannot interfere: a team that is being made has the key it was made with, which
nobody has been sent (`Untold`), and every request on a team has to show its key; so
no other request works on that team (`Alone`) until the answer, its members are
those its maker has put there, and its user joins as an owner. A setup that is
refused its address ends without an answer, so that the property does not speak of
the team it leaves.

`OwnerAlwaysRemains` is about what `MembersLastOwner` breaks, and says that nothing
else breaks it: as long as no two changes of roles in the same team overlap, which
is its only hypothesis, a team with members has an owner, whatever setups,
creations, additions, rotations and crashes do meanwhile. `UpToDate` says that the
role a change has read is the stored one, and that another owner is left if it
demotes one; it survives the steps of others since a role once given changes only
by a change (`RolesStand`). The first member of a team is the owner because of
`MakingInv`.

### Scheduler

`SchedulerProofs` proves, for any sets of recurrences, clients, schedules and
edits and any bounds:

- `TypeCorrect`: `Spec => []TypeOK`.
- `InStep`: `Spec => []IInv`.
- `OnlyOvertakenRepeat`: `Spec => OnlyOvertakenEditsRepeat`, for `OrderlyClients`.
- `SpawnsAlwaysAdvance`: `Spec => SpawnsAdvance`.

`OrderlyClients` are those that use no interval of length zero and send no explicit
due time in a PATCH. The code accepts both, and then a client may have a period
served again without any spawn overtaking it. The other theorems need no hypothesis:
a spawn with an interval of zero never reaches its commit.

The scheduler advances a recurrence from a copy it read two steps earlier, and an
edit writes columns it has computed from an older copy, and an older clock, still.
`IInv` ties the copies to the table:

- no stored row was last spawned in the future or after the tick under way
  (`PastSpawn`), and ids are not used twice;
- a spawn about to commit leaves a due time after the time it captured;
- an edit about to commit keeps the `last_spawned_at` it has read, and a due time
  it changes is after that (`EditInv`). It need not be after the stored one, which
  is the exception in `OnlyOvertakenEditsRepeat`: when no spawn has committed since
  the reading, the two are the same.

`IInvInit` and `IInvStep` prove it, one step per action. The step of an edit rests
on `MergeRow`: an edit sends only the columns it changes, and so keeps
`last_spawned_at`. `RowChanges` says how a stored row may change, from which both
action properties follow.

### Assumptions, and what is only model-checked

The proofs rest on the named assumptions on the constants in `Issues`,
`Scheduler`, `Membership`, `Server`, `Knowledge` and `Attachments`, which TLC evaluates in
every run.

Only model-checked: liveness (`RollupEventually`, `RequestsEnd`, `TickEnds`,
`DueIsSpawned`), which needs fairness and `ENABLED`. Every safety and every action
property, and both refinements, that the passing runs check are theorems, some
under the hypotheses named above. `SetupOnce` and `FailureIsolated`, which the code
breaks, are checked by their violation runs only; what is true of `OnlyValidMoves`,
`OwnerRemains` and `RollupNotLost`, which it breaks too, the theorems say with the
hypotheses they need.

## 5. Not modelled, and why

- Summaries, the audit listing, searches of fragments, listings of sessions,
  labels and rules: they read and change nothing. Each is a SELECT or several in
  a row whose counts may disagree, which nothing promises them not to.
- The pruning of the audit log, and a team's name and settings: one DELETE by
  age and one UPDATE that no other operation reads.
- Workflow states: seeded with a team, and constant from then on.
- `field_contains`, ordering comparisons, `label_has`, `estimate_sum`,
  `state_type_not_in`, archived rows: data the properties do not tell apart.
- Cross-tenant checks: one team per model; each check compares two ids.
- The titles, descriptions and custom fields of issues, wording and logging.
- The client `life-cli.py`, the importer and the dashboard: each sends the
  requests modelled here, one after the other, and keeps no state.
- The application shell and the migrations: no state of the domain.
- More than one scheduler process, and isolation levels other than the default.

## 6. Plan

1. Done: `Transitions`, `RuleEngine`, `Issues`, `IssueBoard`, `Scheduler`,
   `Membership` with the rotation of keys, `Server`, `Knowledge`, `Attachments`,
   `Workspace`, `LinkGraph`; the proofs of section 4.
2. Done: the refinement of `IssueBoard` and the limits as theorems for requests
   served one at a time; `RollupNotLost` for any number.
3. Conflicts of effects as a property; conditions of any depth as a recursive reference beside
   the two levels.
