------------------------------ MODULE Knowledge ------------------------------
(***************************************************************************)
(* Fragments, the links from fragments to fragments, issues and working    *)
(* sessions, and working sessions (Works here, since a slot of the server  *)
(* is a session too), as concurrent requests.                              *)
(*                                                                         *)
(* A link refers to its source by a foreign key that cascades, and to its  *)
(* target by nothing: targets are looked up when a link is made and again  *)
(* whenever links are answered.  Projects as targets behave as issues do   *)
(* and are left out.                                                       *)
(***************************************************************************)
EXTENDS Server

CONSTANTS
  Fragments,        \* ids of fragments
  Works,            \* ids of working sessions
  Links,            \* ids of links
  Columns,          \* the columns of a fragment that a PATCH may set
  Values,           \* their values, and those of a working session's payload
  InitFragments,    \* the tables to start from
  InitWorks,
  InitLinks,
  FragmentPatches,  \* bodies of PATCH: some columns and their values
  WorkPatches

Targets == Fragments \cup Works \cup Issues
Ends == [source : Fragments, target : Targets]

WorkStates == {"active", "completed", "abandoned"}
Finished == {"completed", "abandoned"}
Contents == [Columns -> Values]
WorkRows ==
  [state : WorkStates, payload : Values, completed : 0..MaxRequests \cup {None}]

\* The bodies that PATCH accepts.
IsFragmentPatch(p) == DOMAIN p \subseteq Columns /\ \A c \in DOMAIN p : p[c] \in Values
IsWorkPatch(p) ==
  /\ DOMAIN p \subseteq {"state", "payload"}
  /\ "state" \in DOMAIN p => p["state"] \in WorkStates
  /\ "payload" \in DOMAIN p => p["payload"] \in Values

ASSUME KnowledgeAssumption ==
  /\ Fragments \cap Works = {} /\ Fragments \cap Issues = {} /\ Works \cap Issues = {}
  /\ None \notin Targets \cup Ends \cup Contents \cup WorkRows \cup Nat
  /\ InitFragments \in [Fragments -> Contents \cup {None}]
  /\ InitWorks \in [Works -> WorkRows \cup {None}]
  /\ InitLinks \in [Links -> Ends \cup {None}]
ASSUME StartAssumption ==
  /\ \A l \in Links : InitLinks[l] # None => InitFragments[InitLinks[l].source] # None
  /\ \A k, l \in Links : k # l /\ InitLinks[k] # None => InitLinks[k] # InitLinks[l]
  /\ \A w \in Works : InitWorks[w] # None =>
       (InitWorks[w].state \in Finished => InitWorks[w].completed # None)
ASSUME PatchAssumption ==
  (\A p \in FragmentPatches : IsFragmentPatch(p)) /\ (\A p \in WorkPatches : IsWorkPatch(p))

VARIABLES
  fragments,  \* the fragments table
  works,      \* the sessions table
  links,      \* the fragment_links table
  history     \* each fragment as the entries of the audit log tell it

knowledge == <<fragments, works, links, history>>

KnowledgeInit ==
  /\ fragments = InitFragments
  /\ works = InitWorks
  /\ links = InitLinks
  /\ history = InitFragments

Stored == {f \in Fragments : fragments[f] # None}
LinksThere == {l \in Links : links[l] # None}

Kinds == {"fragment", "session", "issue"}
KindOf(t) == IF t \in Fragments THEN "fragment" ELSE IF t \in Works THEN "session" ELSE "issue"
TargetFound(t) == t \in Stored \/ t \in issues \/ (t \in Works /\ works[t] # None)

----------------------------------------------------------------------------
(* What requests under way hold in the database.                           *)

\* A link that is inserted and not yet committed.
Inserting(s) == At(s, "commit_link")
NewLink(s) == [source |-> req[s].fragment, target |-> req[s].target]

\* The links a GET has read.
Seen(me) == {l \in Links : me.seen[l] # None}

\* The links that a GET has pointed back at their sources: the answer is put
\* together from the rows themselves, and the first SELECT that follows sends
\* the change to the database, where it stays until the session is closed.
\* A link of a fragment to itself is not changed by it.
Turned(me) == {l \in me.incoming : me.seen[l].target # me.seen[l].source}
TurnedLink(me, l) == [source |-> me.seen[l].source, target |-> me.seen[l].source]
TurnedThere(me) == Turned(me) \cap LinksThere
RowsHeld(s) == IF At(s, "hydrate") \/ At(s, "answer") THEN TurnedThere(req[s]) ELSE {}

\* The entries of the unique index that are neither there nor gone.
KeysHeld(s) ==
  IF Inserting(s) THEN {NewLink(s)}
  ELSE {req[s].seen[l] : l \in RowsHeld(s)} \cup {TurnedLink(req[s], l) : l \in RowsHeld(s)}

\* The foreign key of a link being inserted locks the row of its source.
SourceHeld(f, s) == \E o \in Slots \ {s} : Inserting(o) /\ req[o].fragment = f

----------------------------------------------------------------------------
(* create_link.                                                            *)

\* A target that never was is refused at once.
BeginCreateLink(s, f, t, l) ==
  /\ f \in Stored
  /\ t \in used
  /\ Begin(s, "create_link", [pc |-> "target", link |-> l, fragment |-> f, target |-> t])
  /\ used' = used \cup {l}
  /\ UNCHANGED knowledge

ValidateTarget(s) ==
  /\ At(s, "target")
  /\ IF TargetFound(req[s].target) THEN Goto(s, "insert_link") ELSE End(s)
  /\ UNCHANGED <<knowledge, served, used>>

\* The INSERT waits for whoever holds its key; it fails, and the request
\* with it, on a link that is there and on a source that is gone.
InsertLink(s) ==
  /\ At(s, "insert_link")
  /\ \A o \in Slots \ {s} : NewLink(s) \notin KeysHeld(o)
  /\ IF req[s].fragment \in Stored /\ \A k \in Links : links[k] # NewLink(s)
     THEN Goto(s, "commit_link") ELSE End(s)
  /\ UNCHANGED <<knowledge, served, used>>

\* What the handler reads after the commit changes nothing.
CommitLink(s) ==
  /\ Inserting(s)
  /\ links' = [links EXCEPT ![req[s].link] = NewLink(s)]
  /\ End(s)
  /\ UNCHANGED <<fragments, works, history, served, used>>

----------------------------------------------------------------------------
(* get_links.                                                              *)

\* Mutant: only links away from the fragment.
OutgoingOnly(f, kind) == {}

Outgoing(f, kind) ==
  {l \in LinksThere : links[l].source = f /\ kind \in {None, KindOf(links[l].target)}}
Incoming(f, kind) ==
  {l \in LinksThere : links[l].target = f /\ kind \in {None, "fragment"}}

\* The end of a link that is not f.
OtherEnd(ends, f) == IF ends.target = f THEN ends.source ELSE ends.target

\* "there" is not the code's: it notes the links asked for that there are at
\* the start.
BeginGetLinks(s, f, kind) ==
  /\ f \in Stored
  /\ Begin(s, "get_links",
       [pc |-> "outgoing", fragment |-> f, kind |-> kind,
        seen |-> [k \in Links |-> None], incoming |-> {}, left |-> {}, hydrated |-> {},
        there |-> {l \in LinksThere : /\ f \in {links[l].source, links[l].target}
                                      /\ kind \in {None, KindOf(OtherEnd(links[l], f))}}])
  /\ UNCHANGED <<knowledge, used>>

ReadOutgoing(s) ==
  /\ At(s, "outgoing")
  /\ LET out == Outgoing(req[s].fragment, req[s].kind)
     IN  Become(s, [req[s] EXCEPT !.pc = "incoming", !.seen = [l \in Links |-> IF l \in out THEN links[l] ELSE None]])
  /\ UNCHANGED <<knowledge, served, used>>

ReadIncoming(s) ==
  /\ At(s, "incoming")
  /\ LET in == Incoming(req[s].fragment, req[s].kind)
         none == in \cup Seen(req[s]) = {}
     IN  Become(s, [req[s] EXCEPT
           !.pc = IF none THEN "answer" ELSE "turn",
           !.incoming = in,
           !.seen = [l \in Links |-> IF l \in in \ Seen(req[s]) THEN links[l] ELSE @[l]]])
  /\ UNCHANGED <<knowledge, served, used>>

\* What a link shows as its other end.
Shows(me, l) == IF l \in me.incoming THEN me.seen[l].source ELSE me.seen[l].target

\* Mutant: links whose end is gone are of no kind.
KindsFound(me) ==
  {IF TargetFound(Shows(me, l)) THEN KindOf(Shows(me, l)) ELSE None : l \in Seen(me)}

KindsShown(me) == {KindOf(Shows(me, l)) : l \in Seen(me)}

\* An UPDATE fails, and the request with it, on the key of its source's link to
\* itself.  That the link is gone is noticed only of an UPDATE sent alone: the
\* driver does not tell of several how many rows they met.
TurnFails(me) ==
  \/ \E l \in TurnedThere(me), k \in Links : links[k] = TurnedLink(me, l)
  \/ Cardinality(Turned(me)) = 1 /\ TurnedThere(me) = {}

TurnLinks(s) ==
  /\ At(s, "turn")
  /\ \A o \in Slots \ {s} :
       /\ TurnedThere(req[s]) \cap RowsHeld(o) = {}
       /\ \A l \in TurnedThere(req[s]) : TurnedLink(req[s], l) \notin KeysHeld(o)
  /\ IF TurnFails(req[s]) THEN End(s)
     ELSE Become(s, [req[s] EXCEPT !.pc = "hydrate", !.left = KindsShown(req[s])])
  /\ UNCHANGED <<knowledge, served, used>>

\* The links of a kind whose ends are there, and get their titles.
Hydrated(me, kind) ==
  {l \in Seen(me) : KindOf(Shows(me, l)) = kind /\ TargetFound(Shows(me, l))}

\* One SELECT for each kind of entity.
Hydrate(s, kind) ==
  /\ At(s, "hydrate")
  /\ kind \in req[s].left
  /\ LET me == req[s]
     IN  Become(s, [me EXCEPT
           !.hydrated = @ \cup Hydrated(me, kind), !.left = @ \ {kind},
           !.pc = IF me.left = {kind} THEN "answer" ELSE "hydrate"])
  /\ UNCHANGED <<knowledge, served, used>>

\* Mutant: the session commits when it is closed.
CommitsOnClose(s) ==
  [l \in Links |-> IF l \in RowsHeld(s) THEN TurnedLink(req[s], l) ELSE links[l]]

OnClose(s) == links

\* The answer is sent and the session closed, which undoes the UPDATEs.
Answer(s) ==
  /\ At(s, "answer")
  /\ links' = OnClose(s)
  /\ End(s)
  /\ UNCHANGED <<fragments, works, history, served, used>>

----------------------------------------------------------------------------
(* delete_link.                                                            *)

BeginDeleteLink(s, f, l) ==
  /\ f \in Stored
  /\ Begin(s, "delete_link", [pc |-> "find_link", fragment |-> f, link |-> l])
  /\ UNCHANGED <<knowledge, used>>

FindLink(s) ==
  /\ At(s, "find_link")
  /\ IF req[s].link \in LinksThere /\ links[req[s].link].source = req[s].fragment
     THEN Goto(s, "drop_link") ELSE End(s)
  /\ UNCHANGED <<knowledge, served, used>>

\* Deleting a link that another request has deleted is no error.
CommitDropLink(s) ==
  /\ At(s, "drop_link")
  /\ \A o \in Slots : req[s].link \notin RowsHeld(o)
  /\ links' = [links EXCEPT ![req[s].link] = None]
  /\ End(s)
  /\ UNCHANGED <<fragments, works, history, served, used>>

----------------------------------------------------------------------------
(* Fragments.                                                              *)

CreateFragment(s, f, content) ==
  /\ Begin(s, "create_fragment", Idle)
  /\ used' = used \cup {f}
  /\ fragments' = [fragments EXCEPT ![f] = content]
  /\ history' = [history EXCEPT ![f] = content]
  /\ UNCHANGED <<works, links>>

BeginUpdateFragment(s, f, patch) ==
  /\ f \in Stored
  /\ Begin(s, "update_fragment",
       [pc |-> "write_fragment", fragment |-> f, patch |-> patch, read |-> fragments[f]])
  /\ UNCHANGED <<knowledge, used>>

\* The columns a body changes, and a row after them.
Changes(read, patch) == {c \in DOMAIN patch : patch[c] # read[c]}
Applied(row, patch, cols) == [c \in DOMAIN row |-> IF c \in cols THEN patch[c] ELSE row[c]]

\* Mutant: the whole body is logged.
BodyOf(me) == DOMAIN me.patch

\* The columns the audit entry tells of.
Told(me) == Changes(me.read, me.patch)

\* Only columns that differ from what was read are sent and logged.  The
\* UPDATE of a row that is gone fails, and the log entry with it.
CommitFragment(s) ==
  /\ At(s, "write_fragment")
  /\ LET me == req[s]
         sent == Changes(me.read, me.patch)
     IN  IF me.fragment \in Stored
         THEN /\ fragments' = [fragments EXCEPT ![me.fragment] = Applied(@, me.patch, sent)]
              /\ history' = [history EXCEPT ![me.fragment] = Applied(@, me.patch, Told(me))]
         ELSE UNCHANGED <<fragments, history>>
  /\ End(s)
  /\ UNCHANGED <<works, links, served, used>>

BeginDeleteFragment(s, f) ==
  /\ f \in Stored
  /\ Begin(s, "delete_fragment", [pc |-> "drop_fragment", fragment |-> f])
  /\ UNCHANGED <<knowledge, used>>

\* Links from the fragment go with it, links to it stay.
CommitDropFragment(s) ==
  /\ At(s, "drop_fragment")
  /\ LET f == req[s].fragment
     IN  /\ ~SourceHeld(f, s)
         /\ \A o \in Slots, l \in LinksThere : links[l].source = f => l \notin RowsHeld(o)
         /\ fragments' = [fragments EXCEPT ![f] = None]
         /\ history' = [history EXCEPT ![f] = None]
         /\ links' = [l \in Links |-> IF l \in LinksThere /\ links[l].source = f THEN None ELSE links[l]]
  /\ End(s)
  /\ UNCHANGED <<works, served, used>>

----------------------------------------------------------------------------
(* Working sessions, which are never deleted.                              *)

CreateWork(s, w, payload) ==
  /\ Begin(s, "create_session", Idle)
  /\ used' = used \cup {w}
  /\ works' = [works EXCEPT ![w] = [state |-> "active", payload |-> payload, completed |-> None]]
  /\ UNCHANGED <<fragments, links, history>>

BeginUpdateWork(s, w, patch) ==
  /\ works[w] # None
  /\ Begin(s, "update_session",
       [pc |-> "write_work", work |-> w, patch |-> patch, read |-> works[w], n |-> served + 1])
  /\ UNCHANGED <<knowledge, used>>

\* Mutant: only a completed session gets its time.
Completes(me) == "state" \in DOMAIN me.patch /\ me.patch["state"] = "completed" /\ me.read.completed = None

\* The session is finished, and was read without the time it was finished.
Finishes(me) ==
  "state" \in DOMAIN me.patch /\ me.patch["state"] \in Finished /\ me.read.completed = None

CommitWork(s) ==
  /\ At(s, "write_work")
  /\ LET me == req[s]
         sent == Applied(works[me.work], me.patch, Changes(me.read, me.patch))
     IN  works' = [works EXCEPT ![me.work] =
                     IF Finishes(me) THEN [sent EXCEPT !.completed = me.n] ELSE sent]
  /\ End(s)
  /\ UNCHANGED <<fragments, links, history, served, used>>

----------------------------------------------------------------------------
AskKnowledge(s) ==
  \/ \E f \in Fragments, t \in Targets, l \in NewId(Links) : BeginCreateLink(s, f, t, l)
  \/ \E f \in Fragments, kind \in Kinds \cup {None} : BeginGetLinks(s, f, kind)
  \/ \E f \in Fragments, l \in Links : BeginDeleteLink(s, f, l)
  \/ \E f \in NewId(Fragments), content \in Contents : CreateFragment(s, f, content)
  \/ \E f \in Fragments, patch \in FragmentPatches : BeginUpdateFragment(s, f, patch)
  \/ \E f \in Fragments : BeginDeleteFragment(s, f)
  \/ \E w \in NewId(Works), v \in Values : CreateWork(s, w, v)
  \/ \E w \in Works, patch \in WorkPatches : BeginUpdateWork(s, w, patch)

ServeKnowledge(s) ==
  \/ ValidateTarget(s)
  \/ InsertLink(s)
  \/ CommitLink(s)
  \/ ReadOutgoing(s)
  \/ ReadIncoming(s)
  \/ TurnLinks(s)
  \/ \E kind \in Kinds : Hydrate(s, kind)
  \/ Answer(s)
  \/ FindLink(s)
  \/ CommitDropLink(s)
  \/ CommitFragment(s)
  \/ CommitDropFragment(s)
  \/ CommitWork(s)

----------------------------------------------------------------------------
(* Types.                                                                  *)

LinkRequests ==
  [pc : {"target", "insert_link", "commit_link"}, link : Links, fragment : Fragments,
   target : Targets]
ListRequests ==
  [pc : {"outgoing", "incoming", "turn", "hydrate", "answer"}, fragment : Fragments,
   kind : Kinds \cup {None}, seen : [Links -> Ends \cup {None}],
   incoming : SUBSET Links, left : SUBSET Kinds, hydrated : SUBSET Links, there : SUBSET Links]
UnlinkRequests == [pc : {"find_link", "drop_link"}, fragment : Fragments, link : Links]
EditRequests ==
  [pc : {"write_fragment"}, fragment : Fragments, patch : FragmentPatches, read : Contents]
DropRequests == [pc : {"drop_fragment"}, fragment : Fragments]
WorkRequests ==
  [pc : {"write_work"}, work : Works, patch : WorkPatches, read : WorkRows, n : 0..MaxRequests]

KnowledgeRequests ==
  LinkRequests \cup ListRequests \cup UnlinkRequests \cup EditRequests \cup DropRequests
    \cup WorkRequests

KnowledgeTypeOK ==
  /\ fragments \in [Fragments -> Contents \cup {None}]
  /\ works \in [Works -> WorkRows \cup {None}]
  /\ links \in [Links -> Ends \cup {None}]
  /\ history \in [Fragments -> Contents \cup {None}]
=============================================================================
