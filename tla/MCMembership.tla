---------------------------- MODULE MCMembership -----------------------------
(* Instances of Membership for TLC.                                        *)
EXTENDS Membership

CONSTANTS ann, bob, cy, t1, t2, t3, k1, k2

\* The tables when t has the key keys[t] and who[t] tells the roles in it.
Start(keys, who) ==
  [keyOf   |-> [t \in Teams |-> IF t \in DOMAIN keys THEN keys[t] ELSE None],
   members |-> [t \in Teams |-> [u \in Users |->
                  IF t \in DOMAIN who /\ u \in DOMAIN who[t] THEN who[t][u] ELSE None]]]

\* A new instance.
Empty == Start(<< >>, << >>)

\* Two teams, of which each may add the owners of the other.
TwoTeams ==
  Start([t \in {t1, t2} |-> IF t = t1 THEN k1 ELSE k2],
        [t \in {t1, t2} |-> [u \in IF t = t1 THEN {ann, bob} ELSE {cy} |-> "owner"]])

\* A team with two owners.
TwoOwners == Start([t \in {t1} |-> k1], [t \in {t1} |-> [u \in {ann, bob} |-> "owner"]])

NewInstance == {Empty}
EmptyOrStaffed == {Empty, TwoTeams}
OnePair == {TwoOwners}
=============================================================================
