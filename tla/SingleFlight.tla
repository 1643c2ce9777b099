------------------------------ MODULE SingleFlight ------------------------------
(* What the browser promises about an operation that several callers need at the *)
(* same time (the refresh of an expired access token), with its data left out: at *)
(* most one is in flight, whoever needs it meanwhile joins it, and its end        *)
(* answers everybody who joined.                                                  *)
CONSTANT Caller

VARIABLES
    leaders,   \* who has the operation in flight
    joined     \* who waits for it besides

vars == <<leaders, joined>>

TypeOK == leaders \subseteq Caller /\ joined \subseteq Caller

Init == leaders = {} /\ joined = {}

\* The first caller starts the operation.
Start(c) == leaders = {} /\ leaders' = {c} /\ UNCHANGED joined

\* A later caller joins it.
Join(c) == leaders # {} /\ joined' = joined \cup {c} /\ UNCHANGED leaders

\* Its end answers everybody at once; so does a reload of the page.
Finish == leaders # {} /\ leaders' = {} /\ joined' = {}

Next == Finish \/ \E c \in Caller : Start(c) \/ Join(c)

Spec == Init /\ [][Next]_vars
=================================================================================
