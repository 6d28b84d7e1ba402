----------------------------- MODULE Membership ------------------------------
(***************************************************************************)
(* Teams, their members and their members' roles: the first setup of an    *)
(* instance, the creation of further teams, adding users, changing roles   *)
(* and rotating API keys, as concurrent requests.                          *)
(*                                                                         *)
(* As in Issues, every read of a request is a step of its own, and each    *)
(* commit is one.  A user is identified by the e-mail address, which is    *)
(* unique.  The API key of a team is known to nobody until the response    *)
(* that carries it is sent; a rotation's key is named by the number of its *)
(* request, and 0 is the key that a team is created with.                  *)
(***************************************************************************)
EXTENDS Naturals, FiniteSets

CONSTANTS
  Users,        \* users, by e-mail address
  Teams,        \* team ids
  Keys,         \* team keys (the prefix of issue names), which are unique
  None,         \* NULL, and the role of a user who is not a member
  Sessions,     \* concurrent requests
  Starts,       \* the tables to start from: teams, with their keys, and members
  Ops,          \* the operations clients ask for
  MaxRequests,  \* bound on the number of requests
  MayCrash      \* whether the API process may die and restart

Roles == {"owner", "admin", "member"}

ASSUME NoneAssumption == None \notin Users \cup Teams \cup Keys \cup Roles
ASSUME StartsAssumption ==
  \A start \in Starts :
    /\ start.keyOf \in [Teams -> Keys \cup {None}]
    /\ start.members \in [Teams -> [Users -> Roles \cup {None}]]
    /\ \A t \in Teams :
         IF start.keyOf[t] = None THEN \A u \in Users : start.members[t][u] = None
         ELSE \E u \in Users : start.members[t][u] = "owner"
ASSUME MaxRequestsAssumption == MaxRequests \in Nat

VARIABLES
  keyOf,    \* the teams table: the key of each team there is
  users,    \* the users table
  members,  \* the memberships table
  hash,     \* the API key that each team's hash is of
  handed,   \* the API keys that have been sent to clients
  sess,     \* the state of each request
  served    \* requests begun so far

vars == <<keyOf, users, members, hash, handed, sess, served>>
tables == <<keyOf, users, members, hash, handed>>

Idle == [pc |-> "idle", op |-> None, key |-> None, team |-> None, actor |-> None,
         user |-> None, role |-> None, read |-> None, new |-> FALSE, secret |-> 0]

Init ==
  /\ \E start \in Starts : keyOf = start.keyOf /\ members = start.members
  /\ users = {u \in Users : \E t \in Teams : members[t][u] # None}
  /\ hash = [t \in Teams |-> 0]
  /\ handed = {<<t, 0>> : t \in {o \in Teams : keyOf[o] # None}}
  /\ sess = [s \in Sessions |-> Idle]
  /\ served = 0

Exists(t) == keyOf[t] # None
Members(t) == {u \in Users : members[t][u] # None}
Owners(t) == {u \in Users : members[t][u] = "owner"}

At(s, label) == sess[s].pc = label
Goto(s, label) == sess' = [sess EXCEPT ![s].pc = label]
End(s) == sess' = [sess EXCEPT ![s] = Idle]

\* A request that is refused at once changes nothing and is left out.
Begin(s, op) ==
  /\ op \in Ops
  /\ At(s, "idle")
  /\ served < MaxRequests
  /\ served' = served + 1

\* The role gate: the caller has the team's API key, and a role it admits.
Gate(t, caller, admitted) == <<t, hash[t]>> \in handed /\ members[t][caller] \in admitted

----------------------------------------------------------------------------
(* Setup and creation of teams.                                            *)

\* The ids of teams never run out: a bound of the model, not of the code.
IdLeft == Cardinality({s \in Sessions : At(s, "team")}) < Cardinality({t \in Teams : ~Exists(t)})

NothingSetUp == \A t \in Teams : ~Exists(t)

\* Nothing but this count keeps setup from running twice.
BeginSetup(s, key, user) ==
  /\ Begin(s, "setup")
  /\ NothingSetUp
  /\ IdLeft
  /\ sess' = [sess EXCEPT ![s] = [Idle EXCEPT
       !.pc = "team", !.op = "setup", !.key = key, !.user = user]]
  /\ UNCHANGED tables

BeginCreateTeam(s, authed, caller, key) ==
  /\ Begin(s, "create_team")
  /\ Gate(authed, caller, {"owner"})
  /\ IdLeft
  /\ sess' = [sess EXCEPT ![s] = [Idle EXCEPT
       !.pc = "team", !.op = "create_team", !.key = key, !.actor = caller]]
  /\ UNCHANGED tables

\* The team, its states and, unless this is setup, its owner are committed
\* together; a key that is taken is a conflict.
CreateTeam(s, t) ==
  /\ At(s, "team")
  /\ ~Exists(t)
  /\ LET me == sess[s]
     IN  IF \E o \in Teams : keyOf[o] = me.key
         THEN End(s) /\ UNCHANGED <<keyOf, members>>
         ELSE /\ keyOf' = [keyOf EXCEPT ![t] = me.key]
              /\ members' = IF me.actor = None THEN members
                            ELSE [members EXCEPT ![t][me.actor] = "owner"]
              /\ sess' = [sess EXCEPT ![s].team = t,
                            ![s].pc = IF me.op = "setup" THEN "find" ELSE "respond"]
  /\ UNCHANGED <<users, hash, handed, served>>

----------------------------------------------------------------------------
(* create_or_add_user, called by setup and by POST of a user.              *)

BeginAdd(s, t, caller, user) ==
  /\ Begin(s, "add")
  /\ Gate(t, caller, {"admin", "owner"})
  /\ sess' = [sess EXCEPT ![s] = [Idle EXCEPT
       !.pc = "find", !.op = "add", !.team = t, !.actor = caller, !.user = user]]
  /\ UNCHANGED tables

FindUser(s) ==
  /\ At(s, "find")
  /\ Goto(s, IF sess[s].user \in users THEN "membership" ELSE "insert")
  /\ UNCHANGED <<tables, served>>

\* Mutant: it waits for every other request about to insert the address.
InsertAwaited(s) == \E o \in Sessions \ {s} : At(o, "insert") /\ sess[o].user = sess[s].user

AddressHeld(s) == \E o \in Sessions : sess[o].new /\ sess[o].user = sess[s].user

\* Mutant: the conflict is taken for a success.
TakenIsFine(s) == Goto(s, "respond")

\* The violation of the unique index fails the request, also that of a setup
\* whose team is committed already.
AddressTaken(s) == End(s)

\* The INSERT of an address another transaction has inserted waits for the
\* end of it, and fails if that one committed.
InsertUser(s) ==
  /\ At(s, "insert")
  /\ ~AddressHeld(s)
  /\ IF sess[s].user \in users
     THEN AddressTaken(s)
     ELSE sess' = [sess EXCEPT ![s].pc = "membership", ![s].new = TRUE]
  /\ UNCHANGED <<tables, served>>

\* One who is a member already stays what he is.
FindMembership(s) ==
  /\ At(s, "membership")
  /\ IF members[sess[s].team][sess[s].user] # None THEN End(s) ELSE Goto(s, "count")
  /\ UNCHANGED <<tables, served>>

\* Mutant: everybody joins as a guest.
JoinsAsGuest(t) == "guest"

JoinsAs(t) == IF Members(t) = {} THEN "owner" ELSE "member"

CountMembers(s) ==
  /\ At(s, "count")
  /\ sess' = [sess EXCEPT ![s].pc = "join",
                ![s].role = JoinsAs(sess[s].team)]
  /\ UNCHANGED <<tables, served>>

\* Mutant: the membership is inserted or replaced.
NeverMember(me) == FALSE

AlreadyMember(me) == members[me.team][me.user] # None

\* A membership that has appeared meanwhile violates the primary key.
Join(s) ==
  /\ At(s, "join")
  /\ LET me == sess[s]
     IN  IF AlreadyMember(me)
         THEN End(s) /\ UNCHANGED <<users, members>>
         ELSE /\ users' = users \cup {me.user}
              /\ members' = [members EXCEPT ![me.team][me.user] = me.role]
              /\ sess' = [sess EXCEPT ![s].pc = "respond", ![s].new = FALSE]
  /\ UNCHANGED <<keyOf, hash, handed, served>>

\* Mutant: the key that the team was created with.
FirstKey(s) == <<sess[s].team, 0>>

KeyOf(s) == <<sess[s].team, sess[s].secret>>

\* The response; that of setup, of the creation of a team and of a rotation
\* carries the API key, which is stored only as a hash.
Respond(s) ==
  /\ At(s, "respond")
  /\ handed' = IF sess[s].op = "add" THEN handed
               ELSE handed \cup {KeyOf(s)}
  /\ End(s)
  /\ UNCHANGED <<keyOf, users, members, hash, served>>

----------------------------------------------------------------------------
(* rotate_api_key.                                                         *)

BeginRotate(s, t, caller) ==
  /\ Begin(s, "rotate")
  /\ Gate(t, caller, {"owner"})
  /\ sess' = [sess EXCEPT ![s] = [Idle EXCEPT
       !.pc = "rotate", !.op = "rotate", !.team = t, !.actor = caller, !.secret = served']]
  /\ UNCHANGED tables

\* The old key is good for nothing from here on.
CommitRotate(s) ==
  /\ At(s, "rotate")
  /\ hash' = [hash EXCEPT ![sess[s].team] = sess[s].secret]
  /\ Goto(s, "respond")
  /\ UNCHANGED <<keyOf, users, members, handed, served>>

----------------------------------------------------------------------------
(* change_member_role.                                                     *)

BeginChange(s, t, caller, user, role) ==
  /\ Begin(s, "change")
  /\ Gate(t, caller, {"owner"})
  /\ sess' = [sess EXCEPT ![s] = [Idle EXCEPT
       !.pc = "read", !.op = "change", !.team = t, !.actor = caller,
       !.user = user, !.role = role]]
  /\ UNCHANGED tables

ReadMember(s) ==
  /\ At(s, "read")
  /\ LET me == sess[s]
         role == members[me.team][me.user]
     IN  IF role = None THEN End(s)
         ELSE sess' = [sess EXCEPT ![s].read = role,
                ![s].pc = IF role = "owner" /\ me.role # "owner" THEN "owners" ELSE "write"]
  /\ UNCHANGED <<tables, served>>

\* Mutant: off by one.
NoOwner(t) == Cardinality(Owners(t)) < 1

LastOwner(t) == Cardinality(Owners(t)) <= 1

CountOwners(s) ==
  /\ At(s, "owners")
  /\ IF LastOwner(sess[s].team) THEN End(s) ELSE Goto(s, "write")
  /\ UNCHANGED <<tables, served>>

\* A role that equals the one read is not sent.
WriteRole(s) ==
  /\ At(s, "write")
  /\ LET me == sess[s]
     IN  members' = IF me.role = me.read THEN members
                    ELSE [members EXCEPT ![me.team][me.user] = me.role]
  /\ End(s)
  /\ UNCHANGED <<keyOf, users, hash, handed, served>>

----------------------------------------------------------------------------
\* The API process dies: every request in flight is gone.
Crash ==
  /\ MayCrash
  /\ \E s \in Sessions : ~At(s, "idle")
  /\ sess' = [s \in Sessions |-> Idle]
  /\ UNCHANGED <<tables, served>>

Request(s) ==
  \/ \E k \in Keys, u \in Users : BeginSetup(s, k, u)
  \/ \E t \in Teams, a \in Users, k \in Keys : BeginCreateTeam(s, t, a, k)
  \/ \E t \in Teams, a, u \in Users : BeginAdd(s, t, a, u)
  \/ \E t \in Teams, a, u \in Users, r \in Roles : BeginChange(s, t, a, u, r)
  \/ \E t \in Teams, a \in Users : BeginRotate(s, t, a)

Proceed(s) ==
  \/ \E t \in Teams : CreateTeam(s, t)
  \/ FindUser(s)
  \/ InsertUser(s)
  \/ FindMembership(s)
  \/ CountMembers(s)
  \/ Join(s)
  \/ Respond(s)
  \/ CommitRotate(s)
  \/ ReadMember(s)
  \/ CountOwners(s)
  \/ WriteRole(s)

Next ==
  \/ \E s \in Sessions : Request(s)
  \/ \E s \in Sessions : Proceed(s)
  \/ Crash

\* Clients may stop asking, but the event loop runs a request it has taken.
Fairness == \A s \in Sessions : WF_vars(Proceed(s))

Spec == Init /\ [][Next]_vars /\ Fairness

----------------------------------------------------------------------------
(* Properties.                                                             *)

Labels == {"idle", "team", "find", "insert", "membership", "count", "join",
           "respond", "rotate", "read", "owners", "write"}

\* Types of the tables and of what the requests hold.
TypeOK ==
  /\ keyOf \in [Teams -> Keys \cup {None}]
  /\ users \subseteq Users
  /\ members \in [Teams -> [Users -> Roles \cup {None}]]
  /\ hash \in [Teams -> 0..MaxRequests]
  /\ handed \subseteq Teams \X (0..MaxRequests)
  /\ served \in 0..MaxRequests
  /\ sess \in [Sessions ->
        [pc : Labels, op : {"setup", "create_team", "add", "change", "rotate", None},
         key : Keys \cup {None}, team : Teams \cup {None}, actor : Users \cup {None},
         user : Users \cup {None}, role : Roles \cup {None},
         read : Roles \cup {None}, new : BOOLEAN,
         secret : 0..MaxRequests]]

\* A team that has members has an owner: change_member_role refuses to demote
\* the last one.
OwnerRemains == \A t \in Teams : Members(t) # {} => Owners(t) # {}

\* Changes of the roles of one team are served one at a time.
OneChangeAtATime ==
  \A s, o \in Sessions :
    /\ {sess[s].pc, sess[o].pc} \subseteq {"read", "owners", "write"}
    /\ sess[s].team = sess[o].team
    => s = o

\* No other request, and no crash, takes the last owner away: as long as no
\* two changes of roles in the same team overlap, a team keeps an owner, while
\* setups, creations, additions and rotations interleave with them.
LastOwnerStays == []OneChangeAtATime => []OwnerRemains

\* A role once given changes only by a request to change it, and to the role
\* that request asks for: adding somebody who is, or meanwhile becomes, a
\* member never resets the role.
AddKeepsRole ==
  [][\A t \in Teams, u \in Users :
       members[t][u] \notin {None, members'[t][u]} =>
         \E s \in Sessions : /\ At(s, "write")
                             /\ sess[s].team = t /\ sess[s].user = u
                             /\ sess[s].role = members'[t][u]]_vars

\* Setup is a one-shot: of two setups, also of two that both found the
\* instance empty, only one makes a team.
SetupOnce ==
  [][\A s \in Sessions :
       At(s, "team") /\ sess[s].op = "setup" /\ sess'[s] # sess[s] =>
         keyOf' = keyOf \/ \A t \in Teams : ~Exists(t)]_vars

\* A setup or creation of a team that gets as far as its answer has made a team
\* that can be used: it has an owner, and the API key it has is the one
\* answered.  The several commits of a setup may be overtaken by another's,
\* which takes the team key or the address of its user; then it is not answered.
AnswersUsable ==
  \A s \in Sessions :
    At(s, "respond") /\ sess[s].op \in {"setup", "create_team"} =>
      Owners(sess[s].team) # {} /\ KeyOf(s) = <<sess[s].team, hash[sess[s].team]>>

\* The API key of a team is known or on its way to somebody, and stays so:
\* rotations that overtake each other leave a key that one of them answers.
\* Only the death of the process between commit and answer loses it.
KeyKnown(t) ==
  \/ <<t, hash[t]>> \in handed
  \/ \E s \in Sessions : /\ At(s, "respond") /\ sess[s].op # "add"
                          /\ <<sess[s].team, sess[s].secret>> = <<t, hash[t]>>
KeyStaysKnown ==
  [][\A t \in Teams : Exists(t) /\ KeyKnown(t) => KeyKnown(t)' \/ Crash]_vars

\* Every request ends, also one that waits for another's INSERT of the same
\* user.
RequestsEnd == \A s \in Sessions : ~At(s, "idle") ~> At(s, "idle")
=============================================================================
