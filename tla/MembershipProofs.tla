-------------------------- MODULE MembershipProofs ---------------------------
(***************************************************************************)
(* Theorems of Membership, for any users, teams and keys, any number of    *)
(* concurrent requests, and crashes.                                       *)
(***************************************************************************)
EXTENDS Membership, FiniteSetTheorems, TLAPS

Requests ==
  [pc : Labels, op : {"setup", "create_team", "add", "change", "rotate", None},
   key : Keys \cup {None}, team : Teams \cup {None}, actor : Users \cup {None},
   user : Users \cup {None}, role : Roles \cup {None}, read : Roles \cup {None},
   new : BOOLEAN, secret : 0..MaxRequests]

Adding == {"find", "insert", "membership", "count", "join"}
Changing == {"read", "owners", "write"}

\* What a request knows of its team, by where it is.
Local(s) ==
  LET me == sess[s]
  IN  /\ me.pc = "team" => /\ me.key \in Keys
                           /\ IF me.op = "setup" THEN me.actor = None /\ me.user \in Users
                              ELSE me.op = "create_team" /\ me.actor \in Users
      /\ me.pc \in Adding => /\ me.team \in Teams /\ Exists(me.team) /\ me.user \in Users
                             /\ me.op \in {"setup", "add"}
                             /\ me.op = "add" => Members(me.team) # {}
                             /\ me.op = "setup" => Members(me.team) = {}
      /\ me.pc = "join" => /\ me.role \in {"owner", "member"}
                           /\ me.op = "add" => me.role = "member"
      /\ me.pc \in Changing => /\ me.team \in Teams /\ me.user \in Users /\ me.role \in Roles
                               /\ Members(me.team) # {}
      /\ me.pc \in {"owners", "write"} => members[me.team][me.user] # None
      /\ me.pc \in {"respond", "rotate"} => me.team \in Teams
      /\ me.pc = "rotate" => me.op = "rotate"

\* The first setup of a team is nobody else's.
Apart(s, o) ==
  sess[s].pc \in Adding /\ sess[o].pc \in Adding /\ sess[s].op = "setup" =>
    sess[s].team # sess[o].team

IInv ==
  /\ TypeOK
  /\ \A t \in Teams : ~Exists(t) => Members(t) = {}
  /\ \A s \in Sessions : Local(s)
  /\ \A s, o \in Sessions : s # o => Apart(s, o)

-----------------------------------------------------------------------------
LEMMA IdleFields ==
  /\ Idle \in Requests
  /\ Idle.pc = "idle" /\ Idle.op = None /\ Idle.key = None /\ Idle.team = None
  /\ Idle.actor = None /\ Idle.user = None /\ Idle.role = None /\ Idle.read = None
  /\ Idle.new = FALSE /\ Idle.secret = 0
BY MaxRequestsAssumption DEF Idle, Requests, Labels

LEMMA IInvInit == Init => IInv
<1> SUFFICES ASSUME Init PROVE IInv
  OBVIOUS
<1>1. \A s \in Sessions : sess[s] = Idle
  BY DEF Init
<1>2. TypeOK
  BY IdleFields, StartsAssumption, MaxRequestsAssumption DEF Init, TypeOK, Requests
<1>3. \A t \in Teams : ~Exists(t) => Members(t) = {}
  BY StartsAssumption DEF Init, Exists, Members
<1>4. \A s \in Sessions : Local(s)
  BY <1>1, IdleFields DEF Local, Adding, Changing
<1>5. \A s, o \in Sessions : Apart(s, o)
  BY <1>1, IdleFields DEF Apart, Adding
<1> QED
  BY <1>2, <1>3, <1>4, <1>5 DEF IInv

-----------------------------------------------------------------------------
(* What each step does to its request and to the tables.                   *)

OthersKept(s) == \A o \in Sessions \ {s} : sess'[o] = sess[o]

\* Who is a member stays one, and teams stay.
TeamsStay ==
  /\ \A t \in Teams : Exists(t) => Exists(t)'
  /\ \A t \in Teams, u \in Users : members[t][u] # None => members'[t][u] # None

\* A request that goes on: only its own state is new.
LEMMA SessionStep ==
  ASSUME IInv, NEW s \in Sessions, NEW me \in Requests, sess' = [sess EXCEPT ![s] = me],
         UNCHANGED tables, served' \in 0..MaxRequests,
         Local(s)', \A o \in Sessions \ {s} : Apart(s, o)' /\ Apart(o, s)'
  PROVE  IInv'
<1>1. sess' \in [Sessions -> Requests] /\ sess'[s] = me /\ OthersKept(s)
  BY DEF IInv, TypeOK, Requests, OthersKept
<1>2. TypeOK'
  BY <1>1 DEF IInv, TypeOK, tables, Requests
<1>3. \A t \in Teams : ~Exists(t)' => Members(t)' = {}
  BY DEF IInv, tables, Exists, Members
<1>4. \A o \in Sessions \ {s} : Local(o)'
  BY <1>1 DEF IInv, tables, OthersKept, Local, Exists, Members
<1>5. \A o, q \in Sessions \ {s} : o # q => Apart(o, q)'
  BY <1>1 DEF IInv, OthersKept, Apart
<1> QED
  BY <1>2, <1>3, <1>4, <1>5 DEF IInv

\* One that is not about to add anybody.
LEMMA ElsewhereApart ==
  ASSUME NEW s \in Sessions, sess'[s].pc \notin Adding, NEW o \in Sessions
  PROVE  Apart(s, o)' /\ Apart(o, s)'
BY DEF Apart

LEMMA BegunStep ==
  ASSUME IInv, NEW s \in Sessions, Request(s)
  PROVE  IInv'
<1> DEFINE Goal == IInv'
<1>0. /\ Idle \in Requests /\ Idle.pc = "idle" /\ MaxRequests \in Nat
      /\ sess \in [Sessions -> Requests]
  BY IdleFields, MaxRequestsAssumption DEF IInv, TypeOK, Requests
<1>1. \A op : Begin(s, op) => served' \in 0..MaxRequests
  BY <1>0 DEF Begin, IInv, TypeOK
<1>2. \A t \in Teams, a \in Users, admitted \in SUBSET Roles :
        Gate(t, a, admitted) => Exists(t) /\ Members(t) # {}
  BY NoneAssumption DEF Gate, IInv, Members
<1>3. ASSUME NEW k \in Keys, NEW u \in Users, BeginSetup(s, k, u) PROVE Goal
  <2> DEFINE me == [Idle EXCEPT !.pc = "team", !.op = "setup", !.key = k, !.user = u]
  <2>1. /\ me \in Requests /\ me.pc = "team" /\ me.op = "setup" /\ me.key = k /\ me.user = u
        /\ me.actor = None
    BY <1>0, IdleFields DEF Requests, Labels
  <2>2. sess' = [sess EXCEPT ![s] = me] /\ UNCHANGED tables /\ served' \in 0..MaxRequests
    BY <1>1, <1>3 DEF BeginSetup
  <2> HIDE DEF me
  <2>3. sess'[s] = me
    BY <1>0, <2>2
  <2>4. Local(s)'
    BY <2>1, <2>3 DEF Local, Adding, Changing
  <2> QED
    BY <2>1, <2>2, <2>3, <2>4, SessionStep, ElsewhereApart DEF Adding
<1>4. ASSUME NEW t \in Teams, NEW a \in Users, NEW k \in Keys, BeginCreateTeam(s, t, a, k) PROVE Goal
  <2> DEFINE me == [Idle EXCEPT !.pc = "team", !.op = "create_team", !.key = k, !.actor = a]
  <2>1. me \in Requests /\ me.pc = "team" /\ me.op = "create_team" /\ me.key = k /\ me.actor = a
    BY <1>0, IdleFields DEF Requests, Labels
  <2>2. sess' = [sess EXCEPT ![s] = me] /\ UNCHANGED tables /\ served' \in 0..MaxRequests
    BY <1>1, <1>4 DEF BeginCreateTeam
  <2> HIDE DEF me
  <2>3. sess'[s] = me
    BY <1>0, <2>2
  <2>4. Local(s)'
    BY <2>1, <2>3 DEF Local, Adding, Changing
  <2> QED
    BY <2>1, <2>2, <2>3, <2>4, SessionStep, ElsewhereApart DEF Adding
<1>5. ASSUME NEW t \in Teams, NEW a \in Users, NEW u \in Users, BeginAdd(s, t, a, u) PROVE Goal
  <2> DEFINE me == [Idle EXCEPT !.pc = "find", !.op = "add", !.team = t, !.actor = a, !.user = u]
  <2>1. me \in Requests /\ me.pc = "find" /\ me.op = "add" /\ me.team = t /\ me.user = u
    BY <1>0, IdleFields DEF Requests, Labels
  <2>2. /\ sess' = [sess EXCEPT ![s] = me] /\ UNCHANGED tables /\ served' \in 0..MaxRequests
        /\ Exists(t) /\ Members(t) # {}
    BY <1>1, <1>2, <1>5 DEF BeginAdd, Roles
  <2> HIDE DEF me
  <2>3. sess'[s] = me /\ OthersKept(s) /\ Exists(t)' /\ Members(t)' = Members(t)
    BY <1>0, <2>2 DEF OthersKept, tables, Exists, Members
  <2>4. Local(s)'
    BY <2>1, <2>2, <2>3 DEF Local, Adding, Changing, Exists
  <2>5. \A o \in Sessions \ {s} : Apart(s, o)' /\ Apart(o, s)'
    BY <2>1, <2>2, <2>3 DEF Apart, IInv, Local, OthersKept
  <2> QED
    BY <2>1, <2>2, <2>4, <2>5, SessionStep
<1>6. ASSUME NEW t \in Teams, NEW a \in Users, NEW u \in Users, NEW r \in Roles,
             BeginChange(s, t, a, u, r)
      PROVE  Goal
  <2> DEFINE me == [Idle EXCEPT !.pc = "read", !.op = "change", !.team = t, !.actor = a,
                                !.user = u, !.role = r]
  <2>1. me \in Requests /\ me.pc = "read" /\ me.team = t /\ me.user = u /\ me.role = r
    BY <1>0, IdleFields DEF Requests, Labels
  <2>2. /\ sess' = [sess EXCEPT ![s] = me] /\ UNCHANGED tables /\ served' \in 0..MaxRequests
        /\ Members(t) # {}
    BY <1>1, <1>2, <1>6 DEF BeginChange, Roles
  <2> HIDE DEF me
  <2>3. sess'[s] = me /\ Members(t)' = Members(t)
    BY <1>0, <2>2 DEF tables, Members
  <2>4. Local(s)'
    BY <2>1, <2>2, <2>3 DEF Local, Adding, Changing
  <2> QED
    BY <2>1, <2>2, <2>3, <2>4, SessionStep, ElsewhereApart DEF Adding
<1>7. ASSUME NEW t \in Teams, NEW a \in Users, BeginRotate(s, t, a) PROVE Goal
  <2> DEFINE me == [Idle EXCEPT !.pc = "rotate", !.op = "rotate", !.team = t, !.actor = a,
                                !.secret = served']
  <2>0. sess' = [sess EXCEPT ![s] = me] /\ UNCHANGED tables /\ served' \in 0..MaxRequests
    BY <1>1, <1>7 DEF BeginRotate
  <2>1. me \in Requests /\ me.pc = "rotate" /\ me.team = t /\ me.op = "rotate"
    BY <1>0, <2>0, IdleFields DEF Requests, Labels
  <2> HIDE DEF me
  <2>3. sess'[s] = me
    BY <1>0, <2>0
  <2>4. Local(s)'
    BY <2>1, <2>3 DEF Local, Adding, Changing
  <2> QED
    BY <2>0, <2>1, <2>3, <2>4, SessionStep, ElsewhereApart DEF Adding
<1> QED
  BY <1>3, <1>4, <1>5, <1>6, <1>7 DEF Request

\* A request that ends.
LEMMA EndStep ==
  ASSUME IInv, NEW s \in Sessions, End(s), UNCHANGED <<tables, served>>
  PROVE  IInv'
<1>1. sess' = [sess EXCEPT ![s] = Idle] /\ Idle \in Requests /\ Idle.pc = "idle"
  BY IdleFields DEF End
<1>2. sess'[s] = Idle /\ served' \in 0..MaxRequests
  BY <1>1 DEF IInv, TypeOK
<1>3. Local(s)'
  BY <1>1, <1>2 DEF Local, Adding, Changing
<1> QED
  BY <1>1, <1>2, <1>3, SessionStep, ElsewhereApart DEF Adding

\* The reads of a request that adds somebody.
LEMMA AddingStep ==
  ASSUME IInv, NEW s \in Sessions, FindUser(s) \/ InsertUser(s) \/ FindMembership(s) \/ CountMembers(s)
  PROVE  IInv'
<1> DEFINE me == sess[s]
<1>0. /\ me \in Requests /\ me.pc \in Adding /\ Local(s) /\ sess \in [Sessions -> Requests]
      /\ UNCHANGED tables /\ served' \in 0..MaxRequests
  BY DEF IInv, TypeOK, Requests, FindUser, InsertUser, FindMembership, CountMembers, At, Adding
<1>1. ASSUME NEW you \in Requests, sess' = [sess EXCEPT ![s] = you], you.pc \in Adding,
             you.team = me.team, you.user = me.user, you.op = me.op,
             you.pc = "join" => you.role = JoinsAs(me.team)
      PROVE  IInv'
  <2>1. sess'[s] = you /\ OthersKept(s)
    BY <1>0, <1>1 DEF OthersKept
  <2>2. you.pc = "join" =>
          you.role \in {"owner", "member"} /\ (you.op = "add" => you.role = "member")
    BY <1>0, <1>1 DEF JoinsAs, Local
  <2>3. Local(s)'
    BY <1>0, <1>1, <2>1, <2>2 DEF Local, Adding, Changing, tables, Exists, Members
  <2>4. \A o \in Sessions \ {s} : Apart(s, o)' /\ Apart(o, s)'
    BY <1>0, <1>1, <2>1 DEF Apart, IInv, OthersKept
  <2> QED
    BY <1>0, <1>1, <2>3, <2>4, SessionStep
<1>2. CASE End(s)
  BY <1>2, EndStep DEF FindUser, InsertUser, FindMembership, CountMembers
<1>3. ASSUME NEW pc \in {"membership", "insert", "count"}, sess' = [sess EXCEPT ![s].pc = pc]
      PROVE  IInv'
  <2> DEFINE you == [me EXCEPT !.pc = pc]
  <2>1. /\ you \in Requests /\ you.pc = pc /\ you.team = me.team /\ you.user = me.user
        /\ you.op = me.op
    BY <1>0 DEF Requests, Labels
  <2>2. sess' = [sess EXCEPT ![s] = you]
    BY <1>0, <1>3
  <2> HIDE DEF you
  <2> QED
    BY <1>1, <1>3, <2>1, <2>2 DEF Adding
<1>4. CASE sess' = [sess EXCEPT ![s].pc = "membership", ![s].new = TRUE]
  <2> DEFINE you == [me EXCEPT !.pc = "membership", !.new = TRUE]
  <2>1. /\ you \in Requests /\ you.pc = "membership" /\ you.team = me.team /\ you.user = me.user
        /\ you.op = me.op
    BY <1>0 DEF Requests, Labels
  <2>2. sess' = [sess EXCEPT ![s] = you]
    BY <1>0, <1>4
  <2> HIDE DEF you
  <2> QED
    BY <1>1, <2>1, <2>2 DEF Adding
<1>5. CASE CountMembers(s)
  <2> DEFINE role == JoinsAs(me.team)
             you == [me EXCEPT !.pc = "join", !.role = role]
  <2>0. role \in Roles
    BY DEF JoinsAs, Roles
  <2> HIDE DEF role
  <2>1. /\ you \in Requests /\ you.pc = "join" /\ you.team = me.team /\ you.user = me.user
        /\ you.op = me.op /\ you.role = role
    BY <1>0, <2>0 DEF Requests, Labels
  <2>2. sess' = [sess EXCEPT ![s] = you]
    BY <1>0, <1>5 DEF CountMembers, role
  <2> HIDE DEF you
  <2> QED
    BY <1>1, <2>1, <2>2 DEF Adding, role
<1> QED
  BY <1>2, <1>3, <1>4, <1>5 DEF FindUser, InsertUser, AddressTaken, FindMembership, Goto

\* The reads of a request that changes a role.
LEMMA ChangingStep ==
  ASSUME IInv, NEW s \in Sessions, ReadMember(s) \/ CountOwners(s)
  PROVE  IInv'
<1> DEFINE me == sess[s]
<1>0. /\ me \in Requests /\ me.pc \in {"read", "owners"} /\ Local(s)
      /\ sess \in [Sessions -> Requests]
      /\ UNCHANGED tables /\ served' \in 0..MaxRequests
      /\ members \in [Teams -> [Users -> Roles \cup {None}]]
  BY DEF IInv, TypeOK, Requests, ReadMember, CountOwners, At
<1>1. ASSUME NEW you \in Requests, sess' = [sess EXCEPT ![s] = you], you.pc \in {"owners", "write"},
             you.team = me.team, you.user = me.user, you.role = me.role,
             members[me.team][me.user] # None
      PROVE  IInv'
  <2>1. sess'[s] = you
    BY <1>0, <1>1
  <2>2. Local(s)'
    BY <1>0, <1>1, <2>1 DEF Local, Adding, Changing, tables, Members
  <2> QED
    BY <1>0, <1>1, <2>1, <2>2, SessionStep, ElsewhereApart DEF Adding
<1>2. CASE End(s)
  BY <1>2, EndStep DEF ReadMember, CountOwners
<1>3. CASE ReadMember(s) /\ ~End(s)
  <2> DEFINE role == members[me.team][me.user]
             pc == IF role = "owner" /\ me.role # "owner" THEN "owners" ELSE "write"
             you == [me EXCEPT !.read = role, !.pc = pc]
  <2>1. role \in Roles /\ role # None /\ pc \in {"owners", "write"}
    BY <1>0, <1>3 DEF ReadMember, Local, Changing
  <2>2. sess' = [sess EXCEPT ![s] = you]
    BY <1>0, <1>3 DEF ReadMember
  <2> HIDE DEF role, pc
  <2>3. /\ you \in Requests /\ you.pc = pc /\ you.team = me.team /\ you.user = me.user
        /\ you.role = me.role
    BY <1>0, <2>1 DEF Requests, Labels
  <2> HIDE DEF you
  <2> QED
    BY <1>1, <2>1, <2>2, <2>3 DEF role
<1>4. CASE CountOwners(s) /\ ~End(s)
  <2> DEFINE you == [me EXCEPT !.pc = "write"]
  <2>1. sess' = [sess EXCEPT ![s] = you] /\ me.pc = "owners"
    BY <1>0, <1>4 DEF CountOwners, Goto, At
  <2>2. /\ you \in Requests /\ you.pc = "write" /\ you.team = me.team /\ you.user = me.user
        /\ you.role = me.role
    BY <1>0 DEF Requests, Labels
  <2> HIDE DEF you
  <2> QED
    BY <1>0, <1>1, <2>1, <2>2 DEF Local
<1> QED
  BY <1>2, <1>3, <1>4

-----------------------------------------------------------------------------
(* Steps that write.                                                       *)

LEMMA TableStep ==
  ASSUME IInv, NEW s \in Sessions, OthersKept(s), TypeOK', TeamsStay, Local(s)',
         \A t \in Teams : ~Exists(t)' => Members(t)' = {},
         \A o \in Sessions \ {s} : Apart(s, o)' /\ Apart(o, s)',
         \A o \in Sessions \ {s} : sess[o].pc \in Adding /\ sess[o].op = "setup" =>
           members'[sess[o].team] = members[sess[o].team]
  PROVE  IInv'
<1>1. ASSUME NEW o \in Sessions \ {s} PROVE Local(o)'
  <2>1. sess'[o] = sess[o] /\ Local(o) /\ sess[o].pc \in Labels
    BY DEF OthersKept, IInv, TypeOK
  <2>2. \A t \in Teams : Members(t) # {} => Members(t)' # {}
    BY DEF TeamsStay, Members
  <2>3. sess[o].pc \in Adding /\ sess[o].op = "setup" => Members(sess[o].team)' = Members(sess[o].team)
    BY <2>1 DEF Members
  <2> QED
    BY <2>1, <2>2, <2>3 DEF Local, TeamsStay, Adding, Changing, Exists, Members
<1>2. \A o, q \in Sessions \ {s} : o # q => Apart(o, q)'
  BY DEF IInv, OthersKept, Apart
<1> QED
  BY <1>1, <1>2 DEF IInv

LEMMA CreateTeamStep ==
  ASSUME IInv, NEW s \in Sessions, NEW t \in Teams, CreateTeam(s, t)
  PROVE  IInv' /\ TeamsStay
<1> DEFINE me == sess[s]
<1>0. /\ me \in Requests /\ me.pc = "team" /\ Local(s) /\ ~Exists(t) /\ Members(t) = {}
      /\ sess \in [Sessions -> Requests] /\ keyOf \in [Teams -> Keys \cup {None}]
      /\ members \in [Teams -> [Users -> Roles \cup {None}]]
      /\ UNCHANGED <<users, hash, handed, served>>
  BY DEF IInv, TypeOK, Requests, CreateTeam, At
<1>1. CASE End(s) /\ UNCHANGED <<keyOf, members>>
  BY <1>0, <1>1, EndStep DEF tables, TeamsStay, Exists
<1>2. CASE ~(End(s) /\ UNCHANGED <<keyOf, members>>)
  <2> DEFINE pc == IF me.op = "setup" THEN "find" ELSE "respond"
             you == [me EXCEPT !.team = t, !.pc = pc]
  <2>1. /\ keyOf' = [keyOf EXCEPT ![t] = me.key]
        /\ members' = IF me.actor = None THEN members ELSE [members EXCEPT ![t][me.actor] = "owner"]
        /\ sess' = [sess EXCEPT ![s] = you]
    BY <1>0, <1>2 DEF CreateTeam
  <2>2. /\ pc \in {"find", "respond"} /\ (pc = "find" <=> me.op = "setup")
        /\ me.key \in Keys
        /\ IF me.op = "setup" THEN me.actor = None /\ me.user \in Users
           ELSE me.op = "create_team" /\ me.actor \in Users
    BY <1>0 DEF Local
  <2> HIDE DEF pc
  <2>3. /\ you \in Requests /\ you.pc = pc /\ you.team = t /\ you.op = me.op
        /\ you.user = me.user
    BY <1>0, <2>2 DEF Requests, Labels
  <2> HIDE DEF you
  <2>4. /\ sess'[s] = you /\ OthersKept(s) /\ sess' \in [Sessions -> Requests]
        /\ keyOf'[t] = me.key /\ \A q \in Teams \ {t} : keyOf'[q] = keyOf[q]
        /\ \A q \in Teams \ {t} : members'[q] = members[q]
        /\ members' \in [Teams -> [Users -> Roles \cup {None}]]
        /\ me.op = "setup" => members' = members
    BY <1>0, <2>1, <2>2, <2>3, NoneAssumption DEF OthersKept, Roles
  <2>5. TypeOK'
    BY <1>0, <2>1, <2>2, <2>4 DEF IInv, TypeOK, Requests
  <2>6. TeamsStay /\ \A q \in Teams : ~Exists(q)' => Members(q)' = {}
    <3>1. Exists(t)' /\ \A q \in Teams \ {t} : Exists(q)' = Exists(q) /\ Members(q)' = Members(q)
      BY <2>2, <2>4, NoneAssumption DEF Exists, Members
    <3>2. \A u \in Users : members[t][u] = None
      BY <1>0 DEF Members
    <3> QED
      BY <2>4, <3>1, <3>2 DEF TeamsStay, IInv
  <2>7. Local(s)'
    <3>1. me.op = "setup" => Members(t)' = {} /\ Exists(t)'
      BY <1>0, <2>2, <2>4, NoneAssumption DEF Members, Exists
    <3> QED
      BY <2>2, <2>3, <2>4, <3>1 DEF Local, Adding, Changing
  <2>8. \A o \in Sessions \ {s} : sess[o].pc \in Adding => sess[o].team \in Teams \ {t}
    BY <1>0 DEF IInv, Local
  <2>9. /\ \A o \in Sessions \ {s} : Apart(s, o)' /\ Apart(o, s)'
        /\ \A o \in Sessions \ {s} : sess[o].pc \in Adding /\ sess[o].op = "setup" =>
             members'[sess[o].team] = members[sess[o].team]
    BY <2>3, <2>4, <2>8 DEF Apart, OthersKept
  <2> QED
    BY <2>4, <2>5, <2>6, <2>7, <2>9, TableStep
<1> QED
  BY <1>1, <1>2

LEMMA JoinStep ==
  ASSUME IInv, NEW s \in Sessions, Join(s)
  PROVE  IInv' /\ TeamsStay
<1> DEFINE me == sess[s]
<1>0. /\ me \in Requests /\ me.pc = "join" /\ Local(s)
      /\ me.team \in Teams /\ me.user \in Users /\ me.role \in Roles
      /\ sess \in [Sessions -> Requests]
      /\ members \in [Teams -> [Users -> Roles \cup {None}]]
      /\ UNCHANGED <<keyOf, hash, handed, served>>
  BY DEF IInv, TypeOK, Requests, Join, At, Local, Adding, Roles
<1>1. CASE AlreadyMember(me)
  BY <1>0, <1>1, EndStep DEF Join, tables, TeamsStay, Exists
<1>2. CASE ~AlreadyMember(me)
  <2> DEFINE you == [me EXCEPT !.pc = "respond", !.new = FALSE]
  <2>1. /\ users' = users \cup {me.user} /\ sess' = [sess EXCEPT ![s] = you]
        /\ members' = [members EXCEPT ![me.team][me.user] = me.role]
    BY <1>0, <1>2 DEF Join
  <2>2. you \in Requests /\ you.pc = "respond" /\ you.team = me.team
    BY <1>0 DEF Requests, Labels
  <2> HIDE DEF you
  <2>3. /\ sess'[s] = you /\ OthersKept(s) /\ sess' \in [Sessions -> Requests]
        /\ members' \in [Teams -> [Users -> Roles \cup {None}]]
        /\ \A q \in Teams \ {me.team} : members'[q] = members[q]
        /\ \A u \in Users : members'[me.team][u] =
             IF u = me.user THEN me.role ELSE members[me.team][u]
    BY <1>0, <2>1, <2>2 DEF OthersKept
  <2>4. TypeOK'
    BY <1>0, <2>1, <2>3 DEF IInv, TypeOK, Requests
  <2>5. Exists(me.team)
    BY <1>0 DEF Local, Adding
  <2>6. TeamsStay /\ \A q \in Teams : ~Exists(q)' => Members(q)' = {}
    <3>1. \A q \in Teams : Exists(q)' = Exists(q)
      BY <1>0 DEF Exists
    <3>2. \A q \in Teams \ {me.team} : members'[q] = members[q] /\ Members(q)' = Members(q)
      BY <2>3 DEF Members
    <3>3. \A u \in Users : members[me.team][u] # None => members'[me.team][u] # None
      BY <1>0, <2>3, NoneAssumption
    <3> QED
      BY <2>5, <3>1, <3>2, <3>3 DEF TeamsStay, IInv
  <2>7. Local(s)'
    BY <1>0, <2>2, <2>3 DEF Local, Adding, Changing
  <2>8. \A o \in Sessions \ {s} : sess[o].pc \in Adding /\ sess[o].op = "setup" =>
          members'[sess[o].team] = members[sess[o].team]
    BY <1>0, <2>3 DEF IInv, Local, Apart, Adding
  <2> QED
    BY <2>2, <2>3, <2>4, <2>6, <2>7, <2>8, TableStep, ElsewhereApart DEF Adding
<1> QED
  BY <1>1, <1>2

LEMMA WriteRoleStep ==
  ASSUME IInv, NEW s \in Sessions, WriteRole(s)
  PROVE  IInv' /\ TeamsStay
<1> DEFINE me == sess[s]
<1>0. /\ me.pc = "write" /\ Local(s)
      /\ me.team \in Teams /\ me.user \in Users /\ me.role \in Roles
      /\ sess \in [Sessions -> Requests]
      /\ members \in [Teams -> [Users -> Roles \cup {None}]]
      /\ End(s) /\ UNCHANGED <<keyOf, users, hash, handed, served>>
  BY DEF IInv, TypeOK, Requests, WriteRole, At, Local, Changing
<1>1. CASE members' = members
  BY <1>0, <1>1, EndStep DEF tables, TeamsStay, Exists
<1>2. CASE members' = [members EXCEPT ![me.team][me.user] = me.role]
  <2>1. /\ sess'[s] = Idle /\ OthersKept(s) /\ sess' \in [Sessions -> Requests]
        /\ Idle.pc = "idle"
    BY <1>0, IdleFields DEF End, OthersKept
  <2>2. /\ members' \in [Teams -> [Users -> Roles \cup {None}]]
        /\ \A q \in Teams \ {me.team} : members'[q] = members[q]
        /\ \A u \in Users : members'[me.team][u] =
             IF u = me.user THEN me.role ELSE members[me.team][u]
    BY <1>0, <1>2
  <2>3. TypeOK'
    BY <1>0, <2>1, <2>2 DEF IInv, TypeOK, Requests
  <2>4. Members(me.team) # {} /\ Exists(me.team)
    BY <1>0 DEF Local, Changing, IInv
  <2>5. TeamsStay /\ \A q \in Teams : ~Exists(q)' => Members(q)' = {}
    <3>1. \A q \in Teams : Exists(q)' = Exists(q)
      BY <1>0 DEF Exists
    <3>2. \A q \in Teams \ {me.team} : members'[q] = members[q] /\ Members(q)' = Members(q)
      BY <2>2 DEF Members
    <3>3. \A u \in Users : members[me.team][u] # None => members'[me.team][u] # None
      BY <1>0, <2>2, NoneAssumption
    <3> QED
      BY <2>4, <3>1, <3>2, <3>3 DEF TeamsStay, IInv
  <2>6. Local(s)'
    BY <2>1 DEF Local, Adding, Changing
  <2>7. \A o \in Sessions \ {s} : sess[o].pc \in Adding /\ sess[o].op = "setup" =>
          members'[sess[o].team] = members[sess[o].team]
    BY <2>2, <2>4 DEF IInv, Local, Adding
  <2> QED
    BY <2>1, <2>3, <2>5, <2>6, <2>7, TableStep, ElsewhereApart DEF Adding
<1> QED
  BY <1>1, <1>2 DEF WriteRole

LEMMA KeyStep ==
  ASSUME IInv, NEW s \in Sessions, Respond(s) \/ CommitRotate(s)
  PROVE  IInv' /\ TeamsStay
<1> DEFINE me == sess[s]
<1>0. /\ me \in Requests /\ me.pc \in {"respond", "rotate"} /\ Local(s)
      /\ me.team \in Teams /\ me.secret \in 0..MaxRequests
      /\ sess \in [Sessions -> Requests]
      /\ UNCHANGED <<keyOf, users, members, served>>
  BY DEF IInv, TypeOK, Requests, Respond, CommitRotate, At, Local
<1> DEFINE pc == IF me.pc = "respond" THEN "idle" ELSE "respond"
<1>1. /\ OthersKept(s) /\ sess' \in [Sessions -> Requests] /\ sess'[s].pc \in {"idle", "respond"}
      /\ sess'[s].pc = "respond" => sess'[s].team = me.team
  <2>1. CASE Respond(s)
    BY <1>0, <2>1, IdleFields DEF Respond, End, OthersKept
  <2>2. CASE CommitRotate(s)
    <3> DEFINE you == [me EXCEPT !.pc = "respond"]
    <3>1. you \in Requests /\ you.pc = "respond" /\ you.team = me.team
      BY <1>0 DEF Requests, Labels
    <3>2. sess' = [sess EXCEPT ![s] = you]
      BY <1>0, <2>2 DEF CommitRotate, Goto
    <3> HIDE DEF you
    <3> QED
      BY <1>0, <3>1, <3>2 DEF OthersKept
  <2> QED
    BY <2>1, <2>2
<1>2. TypeOK'
  <2>1. handed' \subseteq Teams \X (0..MaxRequests)
    BY <1>0 DEF IInv, TypeOK, Respond, CommitRotate, KeyOf
  <2>2. hash' \in [Teams -> 0..MaxRequests]
    BY <1>0 DEF IInv, TypeOK, Respond, CommitRotate
  <2> QED
    BY <1>0, <1>1, <2>1, <2>2 DEF IInv, TypeOK, Requests
<1>3. TeamsStay /\ \A q \in Teams : ~Exists(q)' => Members(q)' = {}
  BY <1>0 DEF TeamsStay, Exists, Members, IInv
<1>4. Local(s)'
  BY <1>0, <1>1 DEF Local, Adding, Changing
<1> QED
  BY <1>0, <1>1, <1>2, <1>3, <1>4, TableStep, ElsewhereApart DEF Adding

LEMMA CrashStep ==
  ASSUME IInv, Crash
  PROVE  IInv' /\ TeamsStay
<1>1. \A s \in Sessions : sess'[s] = Idle
  BY DEF Crash
<1>2. TypeOK'
  BY IdleFields DEF Crash, IInv, TypeOK, tables, Requests
<1>3. TeamsStay /\ \A t \in Teams : ~Exists(t)' => Members(t)' = {}
  BY DEF Crash, tables, TeamsStay, IInv, Exists, Members
<1>4. \A s, o \in Sessions : Local(s)' /\ Apart(s, o)'
  BY <1>1, IdleFields DEF Local, Apart, Adding, Changing
<1> QED
  BY <1>2, <1>3, <1>4 DEF IInv

LEMMA IInvStep == IInv /\ [Next]_vars => IInv' /\ TeamsStay
<1> SUFFICES ASSUME IInv, [Next]_vars PROVE IInv' /\ TeamsStay
  OBVIOUS
<1>1. UNCHANGED tables => TeamsStay
  BY DEF tables, TeamsStay, Exists
<1>2. ASSUME NEW s \in Sessions, Request(s) PROVE IInv' /\ TeamsStay
  <2>1. UNCHANGED tables
    BY <1>2 DEF Request, BeginSetup, BeginCreateTeam, BeginAdd, BeginChange, BeginRotate
  <2> QED
    BY <1>1, <1>2, <2>1, BegunStep
<1>3. ASSUME NEW s \in Sessions, Proceed(s) PROVE IInv' /\ TeamsStay
  <2>1. CASE \/ FindUser(s) \/ InsertUser(s) \/ FindMembership(s) \/ CountMembers(s)
             \/ ReadMember(s) \/ CountOwners(s)
    <3>1. UNCHANGED tables
      BY <2>1 DEF FindUser, InsertUser, FindMembership, CountMembers, ReadMember, CountOwners
    <3> QED
      BY <1>1, <2>1, <3>1, AddingStep, ChangingStep
  <2> QED
    BY <1>3, <2>1, CreateTeamStep, JoinStep, WriteRoleStep, KeyStep DEF Proceed
<1>4. CASE UNCHANGED vars
  BY <1>1, <1>4 DEF vars, tables, IInv, TypeOK, Local, Apart, Exists, Members
<1> QED
  BY <1>2, <1>3, <1>4, CrashStep DEF Next

LEMMA IInvAlways == Spec => []IInv
BY IInvInit, IInvStep, PTL DEF Spec

\* Types of the tables and of what requests hold, however they interleave.
THEOREM MembershipTyped == Spec => []TypeOK
BY IInvAlways, PTL DEF IInv

\* What each step does to a membership.
LEMMA RoleSteps ==
  ASSUME IInv, [Next]_vars, NEW t \in Teams, NEW u \in Users, members'[t][u] # members[t][u]
  PROVE  \/ ~Exists(t) /\ members'[t][u] = "owner"
         \/ \E s \in Sessions : Join(s) /\ sess[s].team = t /\ members[t][u] = None
                                /\ members'[t][u] = sess[s].role
         \/ \E s \in Sessions : WriteRole(s) /\ sess[s].team = t /\ sess[s].user = u
                                /\ members'[t][u] = sess[s].role
<1>0. members \in [Teams -> [Users -> Roles \cup {None}]]
  BY DEF IInv, TypeOK
<1>1. ASSUME NEW s \in Sessions, NEW n \in Teams, CreateTeam(s, n)
      PROVE  ~Exists(t) /\ members'[t][u] = "owner"
  <2>1. members' = [members EXCEPT ![n][sess[s].actor] = "owner"] /\ ~Exists(n)
    BY <1>1 DEF CreateTeam
  <2> QED
    BY <1>0, <2>1
<1>3. ASSUME NEW s \in Sessions, Join(s)
      PROVE  sess[s].team = t /\ members[t][u] = None /\ members'[t][u] = sess[s].role
  <2>1. /\ members[sess[s].team][sess[s].user] = None
        /\ members' = [members EXCEPT ![sess[s].team][sess[s].user] = sess[s].role]
    BY <1>0, <1>3 DEF Join, AlreadyMember
  <2> QED
    BY <1>0, <2>1
<1>4. ASSUME NEW s \in Sessions, WriteRole(s)
      PROVE  sess[s].team = t /\ sess[s].user = u /\ members'[t][u] = sess[s].role
  BY <1>0, <1>4 DEF WriteRole
<1>5. \/ UNCHANGED members
      \/ \E s \in Sessions : Join(s) \/ WriteRole(s) \/ \E n \in Teams : CreateTeam(s, n)
  BY DEF Next, Request, Proceed, BeginSetup, BeginCreateTeam, BeginAdd, BeginChange, BeginRotate,
       FindUser, InsertUser, FindMembership, CountMembers, Respond, CommitRotate, ReadMember,
       CountOwners, Crash, tables, vars
<1> QED
  BY <1>1, <1>3, <1>4, <1>5

\* Adding somebody never resets a role, however requests to add the same user
\* and to change the role interleave: a role once given changes only by a
\* request to change it, and to the role that request asks for.
THEOREM AddingKeepsRoles == Spec => AddKeepsRole
<1> DEFINE A == \A t \in Teams, u \in Users :
                   members[t][u] \notin {None, members'[t][u]} =>
                     \E s \in Sessions : /\ At(s, "write")
                                         /\ sess[s].team = t /\ sess[s].user = u
                                         /\ sess[s].role = members'[t][u]
<1>1. IInv /\ [Next]_vars => A
  <2> SUFFICES ASSUME IInv, [Next]_vars, NEW t \in Teams, NEW u \in Users,
                      members[t][u] # None, members'[t][u] # members[t][u]
               PROVE  \E s \in Sessions : /\ At(s, "write")
                                          /\ sess[s].team = t /\ sess[s].user = u
                                          /\ sess[s].role = members'[t][u]
    OBVIOUS
  <2>1. Exists(t)
    BY DEF IInv, Members
  <2>2. PICK s \in Sessions : /\ WriteRole(s) /\ sess[s].team = t /\ sess[s].user = u
                              /\ members'[t][u] = sess[s].role
    BY <2>1, RoleSteps
  <2> QED
    BY <2>2 DEF WriteRole
<1>2. AddKeepsRole <=> [][A]_vars
  BY DEF AddKeepsRole
<1> QED
  BY <1>1, <1>2, IInvAlways, PTL DEF Spec

\* A step that is not a crash keeps the key of a team known.
LEMMA KeyStays ==
  ASSUME IInv, NEW s \in Sessions, Request(s) \/ Proceed(s), NEW t \in Teams, KeyKnown(t)
  PROVE  KeyKnown(t)'
<1>0. /\ sess \in [Sessions -> Requests] /\ hash \in [Teams -> 0..MaxRequests] /\ Local(s)
  BY DEF IInv, TypeOK, Requests
<1>1. CASE Respond(s)
  BY <1>0, <1>1 DEF Respond, KeyKnown, KeyOf, End, At
<1>2. CASE CommitRotate(s)
  BY <1>0, <1>2 DEF CommitRotate, KeyKnown, Goto, At, Local
<1>3. CASE ~Respond(s) /\ ~CommitRotate(s)
  <2>1. UNCHANGED <<hash, handed>>
    BY <1>3 DEF Request, Proceed, BeginSetup, BeginCreateTeam, BeginAdd, BeginChange, BeginRotate,
         CreateTeam, FindUser, InsertUser, FindMembership, CountMembers, Join, ReadMember,
         CountOwners, WriteRole, tables
  <2>2. sess[s].pc # "respond"
    BY <1>3 DEF Request, Proceed, BeginSetup, BeginCreateTeam, BeginAdd, BeginChange, BeginRotate,
         CreateTeam, FindUser, InsertUser, FindMembership, CountMembers, Join, ReadMember,
         CountOwners, WriteRole, Begin, At
  <2>3. \A o \in Sessions \ {s} : sess'[o] = sess[o]
    BY <1>0, <1>3 DEF Request, Proceed, BeginSetup, BeginCreateTeam, BeginAdd, BeginChange,
         BeginRotate, CreateTeam, FindUser, InsertUser, AddressTaken, FindMembership, CountMembers,
         Join, ReadMember, CountOwners, WriteRole, Begin, Goto, End
  <2> QED
    BY <2>1, <2>2, <2>3 DEF KeyKnown, At
<1> QED
  BY <1>1, <1>2, <1>3

\* Rotations that overtake each other leave a key that one of them answers:
\* the API key of a team, once known or on its way, stays so but for a crash.
THEOREM KeysStayKnown == Spec => KeyStaysKnown
<1> DEFINE A == \A t \in Teams : Exists(t) /\ KeyKnown(t) => KeyKnown(t)' \/ Crash
<1>1. IInv /\ [Next]_vars => A
  BY KeyStays DEF Next, vars, KeyKnown, At
<1>2. KeyStaysKnown <=> [][A]_vars
  BY DEF KeyStaysKnown
<1> QED
  BY <1>1, <1>2, IInvAlways, PTL DEF Spec

-----------------------------------------------------------------------------
(* A team that is being made is nobody else's: its API key is not known    *)
(* before the answer, and every other request needs it.                    *)

\* A request that makes a team, from the commit of the team to the answer.
Making(s) == sess[s].op \in {"setup", "create_team"} /\ sess[s].pc \in Adding \cup {"respond"}

\* A request that works on a team there is.
Engaged(s) == sess[s].pc \in Adding \cup Changing \cup {"rotate", "respond"}

\* The team has the key that it was made with, which nobody was sent.
Untold(t) == hash[t] = 0 /\ <<t, 0>> \notin handed

MadeBy(s) ==
  LET me == sess[s]
  IN  /\ me.op \in {"setup", "create_team"} => me.secret = 0
      /\ Engaged(s) => Exists(me.team)
      /\ Making(s) => /\ Untold(me.team)
                      /\ me.pc = "join" => me.role = "owner"
                      /\ me.pc = "respond" => Owners(me.team) # {}

Alone(s, o) == Making(s) /\ Engaged(o) => sess[s].team # sess[o].team

MakingInv ==
  /\ \A t \in Teams : ~Exists(t) => Untold(t)
  /\ \A s \in Sessions : MadeBy(s)
  /\ \A s, o \in Sessions : s # o => Alone(s, o)

LEMMA MakingInit == Init => MakingInv
<1> SUFFICES ASSUME Init PROVE MakingInv
  OBVIOUS
<1>1. \A s \in Sessions : sess[s] = Idle
  BY DEF Init
<1>2. \A t \in Teams : ~Exists(t) => Untold(t)
  BY DEF Init, Untold, Exists
<1>3. \A s, o \in Sessions : MadeBy(s) /\ Alone(s, o)
  BY <1>1, IdleFields DEF MadeBy, Alone, Making, Engaged, Adding, Changing
<1> QED
  BY <1>2, <1>3 DEF MakingInv

\* What the tables say of a team that is being made.
SameTeam(t) == /\ members'[t] = members[t] /\ hash'[t] = hash[t]
               /\ <<t, 0>> \in handed' => <<t, 0>> \in handed

\* What a step must say of its own request; the others' teams are as before.
LEMMA MakingStep ==
  ASSUME MakingInv, IInv, NEW s \in Sessions, OthersKept(s), TeamsStay, MadeBy(s)',
         \A t \in Teams : ~Exists(t)' => Untold(t)',
         \A o \in Sessions \ {s} : Alone(s, o)' /\ Alone(o, s)',
         \A o \in Sessions \ {s} : Making(o) => SameTeam(sess[o].team)
  PROVE  MakingInv'
<1>1. ASSUME NEW o \in Sessions \ {s} PROVE MadeBy(o)'
  <2>1. /\ sess'[o] = sess[o] /\ MadeBy(o) /\ (Engaged(o)' <=> Engaged(o))
        /\ (Making(o)' <=> Making(o)) /\ (Making(o) => Engaged(o))
    BY DEF OthersKept, MakingInv, Engaged, Making
  <2>2. Engaged(o) => sess[o].team \in Teams /\ Exists(sess[o].team)'
    BY <2>1 DEF MadeBy, Engaged, TeamsStay, IInv, Local
  <2>3. Making(o) => Untold(sess[o].team)' /\ Owners(sess[o].team)' = Owners(sess[o].team)
    BY <2>1 DEF MadeBy, SameTeam, Untold, Owners
  <2> QED
    BY <2>1, <2>2, <2>3 DEF MadeBy
<1>2. \A o, q \in Sessions \ {s} : o # q => Alone(o, q)'
  BY DEF MakingInv, OthersKept, Alone, Making, Engaged
<1> QED
  BY <1>1, <1>2 DEF MakingInv

\* A request that reads on, begins or ends.
LEMMA MakingQuiet ==
  ASSUME MakingInv, IInv, NEW s \in Sessions, OthersKept(s), UNCHANGED tables, MadeBy(s)',
         Engaged(s)' => sess'[s].team \in Teams,
         Engaged(s)' /\ ~(Engaged(s) /\ sess'[s].team = sess[s].team) => ~Untold(sess'[s].team),
         Making(s)' => Making(s) /\ sess'[s].team = sess[s].team
  PROVE  MakingInv'
<1>1. TeamsStay /\ \A t \in Teams : SameTeam(t) /\ (~Exists(t)' => Untold(t)')
  BY DEF tables, TeamsStay, SameTeam, MakingInv, Exists, Untold
<1>2. ASSUME NEW o \in Sessions \ {s} PROVE Alone(s, o)' /\ Alone(o, s)'
  <2>1. /\ sess'[o] = sess[o] /\ Alone(o, s) /\ Alone(s, o)
        /\ (Making(o) => Untold(sess[o].team))
    BY DEF OthersKept, MakingInv, MadeBy
  <2> QED
    BY <2>1 DEF Alone, Making, Engaged
<1>3. \A o \in Sessions : Making(o) => sess[o].team \in Teams
  BY DEF IInv, Local, Making, Adding
<1> QED
  BY <1>1, <1>2, <1>3, MakingStep

LEMMA MakingBegun ==
  ASSUME MakingInv, IInv, NEW s \in Sessions, Request(s)
  PROVE  MakingInv'
<1>0. /\ sess \in [Sessions -> Requests]
      /\ UNCHANGED tables
      /\ OthersKept(s)
  BY DEF IInv, TypeOK, Requests, Request, BeginSetup, BeginCreateTeam, BeginAdd, BeginChange,
         BeginRotate, OthersKept
<1> DEFINE you == sess'[s]
<1>1. CASE you.pc = "team" /\ you.secret = 0
  BY <1>0, <1>1, MakingQuiet DEF MadeBy, Making, Engaged, Adding, Changing
<1>2. ASSUME NEW t \in Teams, NEW a \in Users, Gate(t, a, Roles), you.team = t,
             you.pc \in {"find", "read", "rotate"}, you.op \in {"add", "change", "rotate"}
      PROVE  MakingInv'
  <2>1. Exists(t) /\ ~Untold(t)
    BY <1>2, NoneAssumption DEF Gate, IInv, Members, Untold
  <2>2. MadeBy(s)' /\ ~Making(s)'
    BY <1>0, <1>2, <2>1 DEF MadeBy, Making, tables, Exists
  <2> QED
    BY <1>0, <1>2, <2>1, <2>2, MakingQuiet
<1>3. ASSUME NEW k \in Keys, NEW u \in Users, BeginSetup(s, k, u) PROVE MakingInv'
  BY <1>0, <1>1, <1>3, IdleFields DEF BeginSetup, Idle
<1>4. ASSUME NEW t \in Teams, NEW a \in Users, NEW k \in Keys, BeginCreateTeam(s, t, a, k)
      PROVE  MakingInv'
  BY <1>0, <1>1, <1>4, IdleFields DEF BeginCreateTeam, Idle
<1>5. ASSUME NEW t \in Teams, NEW a \in Users, NEW u \in Users, BeginAdd(s, t, a, u)
      PROVE  MakingInv'
  <2>1. you.team = t /\ you.pc = "find" /\ you.op = "add"
    BY <1>0, <1>5 DEF BeginAdd, Idle
  <2> QED
    BY <1>2, <1>5, <2>1 DEF BeginAdd, Gate, Roles
<1>6. ASSUME NEW t \in Teams, NEW a \in Users, NEW u \in Users, NEW r \in Roles,
             BeginChange(s, t, a, u, r)
      PROVE  MakingInv'
  <2>1. you.team = t /\ you.pc = "read" /\ you.op = "change"
    BY <1>0, <1>6 DEF BeginChange, Idle
  <2> QED
    BY <1>2, <1>6, <2>1 DEF BeginChange, Gate, Roles
<1>7. ASSUME NEW t \in Teams, NEW a \in Users, BeginRotate(s, t, a) PROVE MakingInv'
  <2>1. you.team = t /\ you.pc = "rotate" /\ you.op = "rotate"
    BY <1>0, <1>7 DEF BeginRotate, Idle
  <2> QED
    BY <1>2, <1>7, <2>1 DEF BeginRotate, Gate, Roles
<1> QED
  BY <1>3, <1>4, <1>5, <1>6, <1>7 DEF Request

LEMMA MakingEnds ==
  ASSUME MakingInv, IInv, NEW s \in Sessions, End(s), UNCHANGED tables
  PROVE  MakingInv'
<1>1. sess'[s] = Idle /\ OthersKept(s)
  BY DEF IInv, TypeOK, End, OthersKept
<1> QED
  BY <1>1, IdleFields, MakingQuiet DEF MadeBy, Making, Engaged, Adding, Changing

LEMMA MakingReads ==
  ASSUME MakingInv, IInv, NEW s \in Sessions,
         \/ FindUser(s) \/ InsertUser(s) \/ FindMembership(s) \/ CountMembers(s)
         \/ ReadMember(s) \/ CountOwners(s)
  PROVE  MakingInv'
<1> DEFINE me == sess[s]
           you == sess'[s]
<1>0. /\ me \in Requests /\ sess \in [Sessions -> Requests] /\ Local(s) /\ MadeBy(s)
      /\ UNCHANGED tables /\ me.pc \in Adding \cup Changing
  BY DEF IInv, TypeOK, Requests, MakingInv, FindUser, InsertUser, FindMembership, CountMembers,
         ReadMember, CountOwners, At, Adding, Changing
<1>1. CASE End(s)
  BY <1>0, <1>1, MakingEnds
<1>2. CASE ~End(s)
  <2>1. \/ /\ me.pc \in Adding
           /\ \/ \E pc \in {"membership", "insert", "count"} : sess' = [sess EXCEPT ![s].pc = pc]
              \/ sess' = [sess EXCEPT ![s].pc = "membership", ![s].new = TRUE]
              \/ sess' = [sess EXCEPT ![s].pc = "join", ![s].role = JoinsAs(me.team)]
        \/ /\ me.pc \in Changing
           /\ \/ sess' = [sess EXCEPT ![s].pc = "write"]
              \/ \E pc \in {"owners", "write"} :
                   sess' = [sess EXCEPT ![s].read = members[me.team][me.user], ![s].pc = pc]
    BY <1>0, <1>2 DEF FindUser, InsertUser, AddressTaken, FindMembership, CountMembers, ReadMember,
         CountOwners, Goto, At, Adding, Changing
  <2>2. /\ you.team = me.team /\ you.op = me.op /\ you.secret = me.secret /\ OthersKept(s)
        /\ you.pc = "join" => you.role = JoinsAs(me.team)
        /\ \/ me.pc \in Adding /\ you.pc \in Adding
           \/ me.pc \in Changing /\ you.pc \in Changing
    BY <1>0, <2>1 DEF Requests, OthersKept, Adding, Changing
  <2>3. Engaged(s) /\ Engaged(s)' /\ (Making(s)' => Making(s)) /\ me.team \in Teams
    BY <1>0, <2>2 DEF Engaged, Making, Adding, Changing, Local
  <2>4. you.pc = "join" /\ Making(s) => you.role = "owner"
    <3>1. Making(s) /\ you.pc = "join" => Members(me.team) = {}
      BY <1>0, <2>2 DEF Local, Making, Adding, Changing
    <3> QED
      BY <2>2, <3>1 DEF JoinsAs
  <2>5. MadeBy(s)'
    BY <1>0, <2>2, <2>3, <2>4 DEF MadeBy, tables, Exists, Untold, Owners, Adding, Changing
  <2> QED
    BY <1>0, <2>2, <2>3, <2>5, MakingQuiet
<1> QED
  BY <1>1, <1>2

LEMMA MakingCreates ==
  ASSUME MakingInv, IInv, NEW s \in Sessions, NEW t \in Teams, CreateTeam(s, t)
  PROVE  MakingInv'
<1> DEFINE me == sess[s]
           you == sess'[s]
<1>0. /\ me \in Requests /\ me.pc = "team" /\ Local(s) /\ MadeBy(s) /\ ~Exists(t) /\ Untold(t)
      /\ sess \in [Sessions -> Requests] /\ keyOf \in [Teams -> Keys \cup {None}]
      /\ members \in [Teams -> [Users -> Roles \cup {None}]]
      /\ UNCHANGED <<users, hash, handed>> /\ TeamsStay
  BY CreateTeamStep DEF IInv, TypeOK, Requests, MakingInv, CreateTeam, At
<1>1. CASE End(s) /\ UNCHANGED <<keyOf, members>>
  BY <1>0, <1>1, MakingEnds DEF tables
<1>2. CASE ~(End(s) /\ UNCHANGED <<keyOf, members>>)
  <2>1. /\ keyOf' = [keyOf EXCEPT ![t] = me.key]
        /\ members' = IF me.actor = None THEN members ELSE [members EXCEPT ![t][me.actor] = "owner"]
        /\ sess' = [sess EXCEPT ![s].team = t,
                                ![s].pc = IF me.op = "setup" THEN "find" ELSE "respond"]
    BY <1>2 DEF CreateTeam
  <2>2. /\ you.team = t /\ you.op = me.op /\ you.secret = me.secret /\ OthersKept(s)
        /\ you.pc = IF me.op = "setup" THEN "find" ELSE "respond"
    BY <1>0, <2>1 DEF Requests, OthersKept
  <2>3. /\ \A q \in Teams \ {t} : members'[q] = members[q] /\ (Exists(q)' <=> Exists(q))
        /\ Exists(t)'
    BY <1>0, <2>1, NoneAssumption DEF Exists, Local
  <2>4. \A o \in Sessions \ {s} : Engaged(o) => sess[o].team \in Teams \ {t}
    BY <1>0 DEF MakingInv, MadeBy, IInv, Local, Engaged
  <2>5. you.pc = "respond" => Owners(t)' # {}
    <3> SUFFICES ASSUME me.op # "setup" PROVE Owners(t)' # {}
      BY <2>2
    <3>1. me.actor \in Users
      BY <1>0 DEF Local
    <3>2. members'[t][me.actor] = "owner"
      BY <1>0, <2>1, <3>1, NoneAssumption
    <3> QED
      BY <3>1, <3>2 DEF Owners
  <2>6. me.secret = 0 /\ Untold(t)' /\ (Making(s)' => you.pc # "join")
    BY <1>0, <2>2 DEF MadeBy, Local, Untold
  <2>7. MadeBy(s)'
    BY <2>2, <2>3, <2>5, <2>6 DEF MadeBy
  <2>8. \A o \in Sessions \ {s} : Alone(s, o)' /\ Alone(o, s)'
    BY <2>2, <2>4 DEF Alone, OthersKept, Engaged, Making
  <2>9. \A o \in Sessions \ {s} : Making(o) => SameTeam(sess[o].team)
    BY <1>0, <2>3, <2>4 DEF SameTeam, Making, Engaged
  <2>10. \A q \in Teams : ~Exists(q)' => Untold(q)'
    BY <1>0, <2>3 DEF MakingInv, Untold
  <2> QED
    BY <1>0, <2>2, <2>7, <2>8, <2>9, <2>10, MakingStep
<1> QED
  BY <1>1, <1>2

\* Steps that write to the team of their request.
LEMMA MakingWrites ==
  ASSUME MakingInv, IInv, NEW s \in Sessions,
         Join(s) \/ WriteRole(s) \/ Respond(s) \/ CommitRotate(s)
  PROVE  MakingInv'
<1> DEFINE me == sess[s]
           you == sess'[s]
<1>a. Engaged(s) /\ Local(s) /\ me \in Requests
  BY DEF IInv, TypeOK, Requests, Join, WriteRole, Respond, CommitRotate, At, Engaged, Adding, Changing
<1>b. PICK team \in Teams : team = me.team
  BY <1>a DEF Local, Engaged
<1>0. /\ MadeBy(s) /\ sess \in [Sessions -> Requests]
      /\ members \in [Teams -> [Users -> Roles \cup {None}]] /\ hash \in [Teams -> 0..MaxRequests]
      /\ UNCHANGED keyOf /\ TeamsStay /\ OthersKept(s)
  BY JoinStep, WriteRoleStep, KeyStep DEF IInv, TypeOK, Requests, MakingInv, Join, WriteRole, Respond,
       CommitRotate, End, Goto, OthersKept
<1>1. \A q \in Teams \ {team} : SameTeam(q)
  <2>1. \A q \in Teams \ {team} : members'[q] = members[q]
    BY <1>b, <1>0 DEF Join, WriteRole, Respond, CommitRotate
  <2>2. \A q \in Teams \ {team} : hash'[q] = hash[q]
    BY <1>b, <1>0 DEF Join, WriteRole, Respond, CommitRotate
  <2>3. \A q \in Teams \ {team} : <<q, 0>> \in handed' => <<q, 0>> \in handed
    BY <1>b, <1>0 DEF Join, WriteRole, Respond, CommitRotate, KeyOf
  <2> QED
    BY <2>1, <2>2, <2>3 DEF SameTeam
<1>2. \A o \in Sessions \ {s} : Making(o) => sess[o].team \in Teams \ {team}
  <2>1. \A o \in Sessions \ {s} : Making(o) => sess[o].team \in Teams
    BY DEF IInv, Local, Making, Adding
  <2> QED
    BY <1>a, <1>b, <2>1 DEF MakingInv, Alone
<1>3. \A q \in Teams : ~Exists(q)' => Untold(q)'
  <2>1. Exists(team) /\ \A q \in Teams : Exists(q)' <=> Exists(q)
    BY <1>a, <1>b, <1>0 DEF MadeBy, Exists
  <2> QED
    BY <1>1, <2>1 DEF MakingInv, Untold, SameTeam
<1>4. \/ you.pc = "idle" /\ you.secret = 0
      \/ /\ you.pc = "respond" /\ you.team = team /\ you.op = me.op /\ you.secret = me.secret
         /\ Making(s)' => Making(s) /\ Untold(team)' /\ Owners(team)' # {}
  <2>1. CASE End(s)
    BY <1>0, <2>1, IdleFields DEF End
  <2>2. CASE Join(s) /\ ~End(s)
    <3>1. /\ sess' = [sess EXCEPT ![s].pc = "respond", ![s].new = FALSE] /\ me.pc = "join"
          /\ members' = [members EXCEPT ![team][me.user] = me.role]
          /\ UNCHANGED <<hash, handed>> /\ me.user \in Users
      BY <1>a, <1>b, <2>2 DEF Join, At, Local, Adding
    <3>2. /\ you.pc = "respond" /\ you.team = team /\ you.op = me.op /\ you.secret = me.secret
          /\ Making(s)' => Making(s)
      BY <1>b, <1>0, <3>1 DEF Requests, Making, Adding
    <3>3. Making(s) => members'[team][me.user] = "owner" /\ Untold(team)'
      BY <1>b, <1>0, <3>1 DEF MadeBy, Untold
    <3> QED
      BY <3>1, <3>2, <3>3 DEF Owners
  <2>3. CASE CommitRotate(s)
    <3>1. me.op = "rotate" /\ sess' = [sess EXCEPT ![s].pc = "respond"]
      BY <1>a, <2>3 DEF CommitRotate, Goto, At, Local
    <3> QED
      BY <1>b, <1>0, <3>1 DEF Requests, Making
  <2> QED
    BY <2>1, <2>2, <2>3 DEF WriteRole, Respond
<1>5. MadeBy(s)'
  <2>1. Exists(team)'
    BY <1>a, <1>b, <1>0 DEF MadeBy, Exists
  <2> QED
    BY <1>0, <1>4, <2>1 DEF MadeBy, Making, Engaged, Adding, Changing
<1>6. \A o \in Sessions \ {s} : Alone(s, o)' /\ Alone(o, s)'
  <2>1. \A o \in Sessions \ {s} : Alone(s, o) /\ Alone(o, s) /\ sess'[o] = sess[o]
    BY <1>0 DEF MakingInv, OthersKept
  <2> QED
    BY <1>a, <1>b, <1>4, <2>1 DEF Alone, Making, Engaged, Adding, Changing
<1> QED
  BY <1>0, <1>1, <1>2, <1>3, <1>5, <1>6, MakingStep

LEMMA MakingAlways == Spec => [](IInv /\ MakingInv)
<1>1. IInv /\ MakingInv /\ [Next]_vars => (IInv /\ MakingInv)'
  <2> SUFFICES ASSUME IInv, MakingInv, [Next]_vars PROVE MakingInv'
    BY IInvStep
  <2>1. CASE Crash
    <3>1. UNCHANGED tables /\ \A s \in Sessions : sess'[s] = Idle
      BY <2>1 DEF Crash
    <3> QED
      BY <3>1, IdleFields DEF MakingInv, MadeBy, Alone, Making, Engaged, Adding, Changing, tables,
           Exists, Untold
  <2>2. CASE UNCHANGED vars
    BY <2>2 DEF vars, tables, MakingInv, MadeBy, Alone, Making, Engaged, Exists, Untold, Owners
  <2> QED
    BY <2>1, <2>2, MakingBegun, MakingReads, MakingCreates, MakingWrites DEF Next, Proceed
<1> QED
  BY <1>1, IInvInit, MakingInit, PTL DEF Spec

\* A setup or a creation of a team that is answered has made a team with an
\* owner, and answers the API key the team has, whatever other requests, other
\* setups and crashes come between the commits and the answer.
THEOREM AnswersAreUsable == Spec => []AnswersUsable
<1>1. MakingInv => AnswersUsable
  BY DEF MakingInv, MadeBy, Making, Untold, AnswersUsable, At, KeyOf
<1> QED
  BY <1>1, MakingAlways, PTL

-----------------------------------------------------------------------------
(* The last owner.                                                         *)

\* What a change has read is how things are.
UpToDate(s) ==
  LET me == sess[s]
  IN  /\ me.pc \in {"owners", "write"} => me.read = members[me.team][me.user]
      /\ me.pc = "write" /\ me.read = "owner" /\ me.role # "owner" =>
           \E u \in Users \ {me.user} : members[me.team][u] = "owner"

RoleInv == OwnerRemains /\ \A s \in Sessions : UpToDate(s)

\* Who is not the last owner leaves another.
LEMMA AnotherOwner ==
  ASSUME NEW t \in Teams, NEW u \in Users, ~LastOwner(t)
  PROVE  \E o \in Users \ {u} : members[t][o] = "owner"
<1> SUFFICES ASSUME \A o \in Users \ {u} : members[t][o] # "owner" PROVE LastOwner(t)
  OBVIOUS
<1>1. Owners(t) = {} \/ Owners(t) = {u}
  BY DEF Owners
<1>2. Cardinality({}) = 0 /\ Cardinality({u}) = 1
  BY FS_EmptySet, FS_Singleton
<1> QED
  BY <1>1, <1>2 DEF LastOwner

\* Only its own change can touch the roles of a team while one is in flight.
LEMMA RolesStand ==
  ASSUME IInv, OneChangeAtATime, [Next]_vars, NEW o \in Sessions, sess[o].pc \in Changing,
         ~WriteRole(o), NEW u \in Users, members[sess[o].team][u] # None
  PROVE  members'[sess[o].team][u] = members[sess[o].team][u]
<1>0. PICK t \in Teams : t = sess[o].team
  BY DEF IInv, Local
<1> SUFFICES ASSUME members'[t][u] # members[t][u] PROVE FALSE
  BY <1>0
<1>1. Exists(t)
  BY <1>0 DEF IInv, Local
<1>2. PICK s \in Sessions : WriteRole(s) /\ sess[s].team = t
  BY <1>0, <1>1, RoleSteps
<1> QED
  BY <1>0, <1>2 DEF OneChangeAtATime, WriteRole, At, Changing

\* A team that has an owner keeps one, and gets one with its first member.
LEMMA OwnerStays ==
  ASSUME IInv, MakingInv, RoleInv, OneChangeAtATime, [Next]_vars
  PROVE  OwnerRemains'
<1> SUFFICES ASSUME NEW t \in Teams, NEW v \in Users, members'[t][v] # None
             PROVE  \E u \in Users : members'[t][u] = "owner"
  BY DEF OwnerRemains, Members, Owners
<1>1. CASE Members(t) = {}
  <2>1. members[t][v] = None /\ members'[t][v] # members[t][v]
    BY <1>1 DEF Members
  <2>2. ASSUME NEW s \in Sessions, Join(s), sess[s].team = t PROVE sess[s].role = "owner"
    <3>1. sess[s].pc = "join" /\ Local(s) /\ MadeBy(s)
      BY <2>2 DEF Join, At, IInv, MakingInv
    <3>2. sess[s].op = "setup"
      BY <1>1, <2>2, <3>1 DEF Local, Adding
    <3> QED
      BY <3>1, <3>2 DEF MadeBy, Making, Adding
  <2>3. ASSUME NEW s \in Sessions, WriteRole(s), sess[s].team = t PROVE FALSE
    BY <1>1, <2>3 DEF WriteRole, At, IInv, Local, Changing
  <2>4. members'[t][v] = "owner"
    BY <2>1, <2>2, <2>3, RoleSteps
  <2> QED
    BY <2>4
<1>2. CASE Members(t) # {}
  <2>1. PICK u \in Users : members[t][u] = "owner"
    BY <1>2 DEF RoleInv, OwnerRemains, Owners
  <2>2. CASE members'[t][u] = members[t][u]
    BY <2>1, <2>2
  <2>3. CASE members'[t][u] # members[t][u]
    <3>1. members[t][u] # None /\ Exists(t)
      BY <1>2, <2>1, NoneAssumption DEF Roles, IInv
    <3>2. PICK s \in Sessions : /\ WriteRole(s) /\ sess[s].team = t /\ sess[s].user = u
                                /\ members'[t][u] = sess[s].role
      BY <2>3, <3>1, RoleSteps
    <3>3. sess[s].pc = "write" /\ UpToDate(s)
      BY <3>2 DEF WriteRole, At, RoleInv
    <3>4. sess[s].read = "owner" /\ sess[s].role # "owner"
      BY <2>1, <2>3, <3>2, <3>3 DEF UpToDate
    <3>5. PICK x \in Users \ {u} : members[t][x] = "owner"
      BY <3>2, <3>3, <3>4 DEF UpToDate
    <3>6. members'[t][x] = members[t][x]
      <4> SUFFICES ASSUME members'[t][x] # members[t][x] PROVE FALSE
        OBVIOUS
      <4>1. members[t][x] # None
        BY <3>5, NoneAssumption DEF Roles
      <4>2. PICK o \in Sessions : WriteRole(o) /\ sess[o].team = t /\ sess[o].user = x
        BY <3>1, <4>1, RoleSteps
      <4> QED
        BY <3>2, <3>5, <4>2 DEF OneChangeAtATime, WriteRole, At, Changing
    <3> QED
      BY <3>5, <3>6
  <2> QED
    BY <2>2, <2>3
<1> QED
  BY <1>1, <1>2

\* A change that is in flight goes on, or stays where it is.
LEMMA ReadStands ==
  ASSUME IInv, RoleInv, OneChangeAtATime, [Next]_vars, NEW o \in Sessions
  PROVE  UpToDate(o)'
<1> DEFINE me == sess[o]
           you == sess'[o]
<1>0. /\ sess \in [Sessions -> Requests] /\ me \in Requests /\ Local(o) /\ UpToDate(o)
      /\ members \in [Teams -> [Users -> Roles \cup {None}]]
  BY DEF IInv, TypeOK, Requests, RoleInv
<1>1. CASE you = me
  <2>1. CASE me.pc \in {"owners", "write"}
    <3>1. /\ me.team \in Teams /\ me.user \in Users /\ members[me.team][me.user] # None
          /\ me.pc \in Changing
      BY <1>0, <2>1 DEF Local, Changing
    <3>2. ~WriteRole(o)
      BY <1>0, <1>1, <2>1, IdleFields DEF WriteRole, End, At
    <3>3. \A u \in Users : members[me.team][u] # None => members'[me.team][u] = members[me.team][u]
      BY <3>1, <3>2, RolesStand
    <3>4. \A u \in Users : members[me.team][u] = "owner" => members'[me.team][u] = "owner"
      BY <3>3, NoneAssumption DEF Roles
    <3> QED
      BY <1>0, <1>1, <3>1, <3>3, <3>4 DEF UpToDate
  <2> QED
    BY <1>1, <2>1 DEF UpToDate
<1>2. CASE you.pc \notin {"owners", "write"}
  BY <1>2 DEF UpToDate
<1>3. CASE ReadMember(o) /\ ~End(o)
  <2>1. /\ you.team = me.team /\ you.user = me.user /\ you.role = me.role
        /\ you.read = members[me.team][me.user] /\ UNCHANGED members
        /\ \/ you.pc = "owners"
           \/ you.pc = "write" /\ ~(you.read = "owner" /\ me.role # "owner")
    BY <1>0, <1>3 DEF ReadMember, Requests, tables
  <2> QED
    BY <2>1 DEF UpToDate
<1>4. CASE CountOwners(o) /\ ~End(o)
  <2>1. /\ me.pc = "owners" /\ ~LastOwner(me.team) /\ UNCHANGED members
        /\ sess' = [sess EXCEPT ![o].pc = "write"]
    BY <1>4 DEF CountOwners, Goto, At, tables
  <2>2. /\ you.team = me.team /\ you.user = me.user /\ you.role = me.role /\ you.read = me.read
        /\ you.pc = "write" /\ me.team \in Teams /\ me.user \in Users
    BY <1>0, <2>1 DEF Requests, Local, Changing
  <2>3. \E u \in Users \ {me.user} : members[me.team][u] = "owner"
    BY <2>1, <2>2, AnotherOwner
  <2> QED
    BY <1>0, <2>1, <2>2, <2>3 DEF UpToDate
<1>5. ASSUME you # me, you.pc \in {"owners", "write"}
      PROVE  (ReadMember(o) \/ CountOwners(o)) /\ ~End(o)
  <2>1. ~End(o) /\ ~Crash
    BY <1>0, <1>5, IdleFields DEF End, Crash
  <2>2. ASSUME NEW s \in Sessions, Request(s) PROVE FALSE
    BY <1>0, <1>5, <2>2 DEF Request, BeginSetup, BeginCreateTeam, BeginAdd, BeginChange, BeginRotate,
         Idle
  <2>3. ASSUME NEW s \in Sessions, Proceed(s) PROVE s = o /\ (ReadMember(o) \/ CountOwners(o))
    <3>1. s = o
      BY <1>0, <1>5, <2>3 DEF Proceed, CreateTeam, FindUser, InsertUser, AddressTaken, FindMembership,
           CountMembers, Join, Respond, CommitRotate, ReadMember, CountOwners, WriteRole, Goto, End
    <3>2. ASSUME NEW t \in Teams, CreateTeam(o, t) PROVE FALSE
      BY <1>0, <1>5, <2>1, <3>2 DEF CreateTeam, Requests
    <3>3. ~FindUser(o) /\ ~InsertUser(o) /\ ~FindMembership(o) /\ ~CountMembers(o)
      BY <1>0, <1>5, <2>1 DEF FindUser, InsertUser, AddressTaken, FindMembership, CountMembers, Goto,
           Requests
    <3>4. ~Join(o) /\ ~Respond(o) /\ ~CommitRotate(o) /\ ~WriteRole(o)
      BY <1>0, <1>5, <2>1 DEF Join, Respond, CommitRotate, WriteRole, Goto, Requests
    <3> QED
      BY <2>3, <3>1, <3>2, <3>3, <3>4 DEF Proceed
  <2> QED
    BY <1>5, <2>1, <2>2, <2>3 DEF Next, vars
<1> QED
  BY <1>1, <1>2, <1>3, <1>4, <1>5

LEMMA RoleInit == Init => RoleInv
<1> SUFFICES ASSUME Init PROVE RoleInv
  OBVIOUS
<1>1. \A s \in Sessions : UpToDate(s)
  BY IdleFields DEF Init, UpToDate
<1>2. OwnerRemains
  BY StartsAssumption DEF Init, OwnerRemains, Members, Owners
<1> QED
  BY <1>1, <1>2 DEF RoleInv

\* A team that has members has an owner, as long as no two changes of roles in
\* the same team overlap: setups, creations, additions and rotations may
\* interleave with one as they like, and the process may die at any time.  The
\* one way to lose the last owner is two demotions at once.
THEOREM OwnerAlwaysRemains == Spec => LastOwnerStays
<1>1. IInv /\ MakingInv /\ RoleInv /\ OneChangeAtATime /\ [Next]_vars => RoleInv'
  BY OwnerStays, ReadStands DEF RoleInv
<1>2. RoleInv => OwnerRemains
  BY DEF RoleInv
<1>3. Spec /\ []OneChangeAtATime => []OwnerRemains
  BY <1>1, <1>2, RoleInit, MakingAlways, PTL DEF Spec
<1>4. LastOwnerStays <=> ([]OneChangeAtATime => []OwnerRemains)
  BY DEF LastOwnerStays
<1> QED
  BY <1>3, <1>4
=============================================================================
