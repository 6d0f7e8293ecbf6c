----------------------------- MODULE Admission -----------------------------
(***************************************************************************)
(* What the proving service promises about its capacity: at most Limit     *)
(* requests are inside, each enters at most once, and a request is turned  *)
(* away only while the service is full.                                    *)
(***************************************************************************)
EXTENDS Naturals, FiniteSets

CONSTANTS
    Clients,    \* requests
    Limit       \* how many may be inside

VARIABLES
    inside,     \* requests being served
    gone        \* requests served, given up or turned away

Init == inside = {} /\ gone = {}

Fresh(r) == r \notin inside \cup gone

Enter(r) ==
    /\ Fresh(r)
    /\ Cardinality(inside) < Limit
    /\ inside' = inside \cup {r}
    /\ UNCHANGED gone

Leave(r) ==
    /\ r \in inside
    /\ inside' = inside \ {r}
    /\ gone' = gone \cup {r}

\* A request with a bad input is answered on the spot, if there is room.
Bounce(r) ==
    /\ Fresh(r)
    /\ Cardinality(inside) < Limit
    /\ gone' = gone \cup {r}
    /\ UNCHANGED inside

TurnAway(r) ==
    /\ Fresh(r)
    /\ Cardinality(inside) = Limit
    /\ gone' = gone \cup {r}
    /\ UNCHANGED inside

Next == \E r \in Clients : Enter(r) \/ Leave(r) \/ Bounce(r) \/ TurnAway(r)

Spec == Init /\ [][Next]_<<inside, gone>>
=============================================================================
