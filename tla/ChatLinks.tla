------------------------------- MODULE ChatLinks -------------------------------
(* What the online-chat page needs of its live connections: one link for every  *)
(* account it wants, none for any other; a lost link is retried until it is     *)
(* open again; one the server rejects stays down until the list changes.        *)
CONSTANT Account

VARIABLES
    wanted,   \* the accounts the page wants events of
    link      \* "none", "connecting", "open", "waiting" (to retry) or "rejected"

vars == <<wanted, link>>

States == {"none", "connecting", "open", "waiting", "rejected"}
TypeOK == wanted \subseteq Account /\ link \in [Account -> States]

Init == wanted = {} /\ link = [a \in Account |-> "none"]

\* A new list: links come and go with it, and rejected ones get another chance.
Change(W) ==
    /\ wanted' = W
    /\ link' = [a \in Account |->
                  IF a \notin W THEN "none"
                  ELSE IF link[a] \in {"none", "rejected"} THEN "connecting" ELSE link[a]]

Move(a, from, to) ==
    /\ link[a] = from
    /\ link' = [link EXCEPT ![a] = to]
    /\ UNCHANGED wanted

Opens(a) == Move(a, "connecting", "open")
Lost(a) == \E from \in {"connecting", "open"} : Move(a, from, "waiting")
Rejected(a) == \E from \in {"connecting", "open"} : Move(a, from, "rejected")
Retries(a) == Move(a, "waiting", "connecting")

Next ==
    \/ \E W \in SUBSET Account : Change(W)
    \/ \E a \in Account : Opens(a) \/ Lost(a) \/ Rejected(a) \/ Retries(a)

Spec == Init /\ [][Next]_vars
================================================================================
