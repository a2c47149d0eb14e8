------------------------------ MODULE Admission ------------------------------
(***************************************************************************)
(* What the rate limiter of the Mattermost controller promises: clients    *)
(* are let in one at a time, only while fewer than Limit are inside, and   *)
(* leave whenever they like, several at once when the operator restarts.   *)
(***************************************************************************)
EXTENDS Naturals, FiniteSets

CONSTANTS Clients, Limit

VARIABLE admitted

Init == admitted = {}

Enter(c) ==
    /\ c \notin admitted
    /\ Cardinality(admitted) < Limit
    /\ admitted' = admitted \cup {c}

Leave(S) ==
    /\ S # {}
    /\ admitted' = admitted \ S

Next ==
    \/ \E c \in Clients : Enter(c)
    \/ \E S \in SUBSET admitted : Leave(S)

Spec == Init /\ [][Next]_admitted

=============================================================================
