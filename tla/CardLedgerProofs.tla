---------------------------- MODULE CardLedgerProofs ----------------------------
(***************************************************************************)
(* Theorems about CardDelivery that relate its records, its orders and its *)
(* stock: no attempt after a sent one, failed deliveries can be tried      *)
(* again, and (one session at a time) every line is sold once or kept.     *)
(***************************************************************************)
EXTENDS CardDeliveryProofs

-----------------------------------------------------------------------------
(* The shapes of a session's step. Twenty-two actions do one of nine things *)
(* to the orders and the records; the proofs below split on these.         *)

\* Other sessions stay as they are.
Others(s) == \A t \in Session \ {s} : pc'[t] = pc[t] /\ loc'[t] = loc[t]

\* The session keeps its orders and what it has loaded of them.
Keeps(s) == /\ loc'[s].cur = loc[s].cur /\ loc'[s].todo = loc[s].todo
            /\ loc'[s].kind = loc[s].kind /\ loc'[s].cache = loc[s].cache

\* The session is done with its order and has at most the orders still to visit.
Gone(s) ==
    /\ pc'[s] \in {"idle", "begin"} /\ loc'[s].rec = NoRecord /\ loc'[s].held = <<>>
    /\ loc'[s].cur \notin loc'[s].todo
    /\ \A o \in Order \cap (loc'[s].todo \cup {loc'[s].cur}) :
          /\ o \in loc[s].todo /\ loc'[s].kind = loc[s].kind
          /\ o # loc[s].cur => loc'[s].cache[o] = loc[s].cache[o]

\* The session's commit stores send and the status it has set.
Stores(s, send) ==
    /\ \A o \in Order \ {loc[s].cur} : order'[o] = order[o]
    /\ order'[loc[s].cur].send = Dirty(order[loc[s].cur].send, Cached(s).send, send)
    /\ order'[loc[s].cur].status = Dirty(order[loc[s].cur].status, Cached(s).status, loc[s].pend)

SameRecords ==
    /\ DOMAIN recs' = DOMAIN recs
    /\ \A r \in DOMAIN recs : /\ recs'[r].order = recs[r].order /\ recs'[r].lines = recs[r].lines
                              /\ recs'[r].status = recs[r].status
\* The record the session works on gets another status.
Recorded(s, status) ==
    /\ DOMAIN recs' = DOMAIN recs /\ loc[s].rec \in DOMAIN recs
    /\ \A r \in DOMAIN recs : /\ recs'[r].order = recs[r].order /\ recs'[r].lines = recs[r].lines
                              /\ r # loc[s].rec => recs'[r].status = recs[r].status
    /\ recs'[loc[s].rec].status = status
\* A record of the session's order is added.
Added(s, status, lines) ==
    /\ DOMAIN recs' = DOMAIN recs \cup {Len(recs) + 1}
    /\ \A r \in DOMAIN recs : recs'[r] = recs[r]
    /\ LET r == recs'[Len(recs) + 1]
       IN r.order = loc[s].cur /\ r.status = status /\ r.lines = lines

Quits(s) == pc[s] \in {"begin", "locked", "no_logistics"} /\ Gone(s) /\ UNCHANGED <<order,
                                                                                    recs>>

Edge(s, p, q) == pc[s] = p /\ pc'[s] = q
Walks(s) ==
    /\ Keeps(s) /\ UNCHANGED order /\ SameRecords /\ loc'[s].rec = loc[s].rec
    /\ \/ /\ Edge(s, "begin", "locked")
          /\ loc'[s].pend = IF /\ loc[s].kind = "live"
                               /\ Cached(s).status \in {"absent", "unknown", "pending_payment"}
                            THEN "pending_ship" ELSE Cached(s).status
       \/ \E p \in {"begin", "locked"} : Edge(s, p, "reconfirm") /\ Cached(s).send = "success"
       \/ \E q \in {"record_failure", "mark", "confirm_first"} :
             /\ Edge(s, "locked", q) /\ Cached(s).send \notin {"success", "sending"}
             /\ loc'[s].pend = loc[s].pend /\ (q = "confirm_first" => ConfirmsFirst)
       \/ \E q \in {"record_failure", "mark"} : Edge(s, "confirm_first", q)
       \/ \E q \in {"record_failure", "record"} : Edge(s, "content", q) /\ loc'[s].pend = loc[s].pend
       \/ \E q \in {"send", "confirm_after", "finish", "restore"} :
             Edge(s, "send", q) /\ loc'[s].pend = loc[s].pend
       \/ Edge(s, "confirm_after", "finish")
       \/ Edge(s, "restore", "fail_record") /\ loc'[s].pend = loc[s].pend
       \/ Edge(s, "reconfirm", "reconfirmed")
       \/ Edge(s, "no_logistics", "no_logistics_commit")

Marks(s) ==
    /\ Edge(s, "mark", "content") /\ Stores(s, "sending") /\ UNCHANGED recs
    /\ loc'[s].cur = loc[s].cur /\ loc'[s].todo = loc[s].todo /\ loc'[s].kind = loc[s].kind
    /\ loc'[s].pend = loc[s].pend /\ loc'[s].rec = loc[s].rec
    /\ \A o \in Order \ {loc[s].cur} : loc'[s].cache[o] = loc[s].cache[o]
    /\ loc'[s].cache[loc[s].cur].send = "sending"
    /\ loc'[s].cache[loc[s].cur].status = loc[s].pend

Creates(s) ==
    /\ Edge(s, "record", "send") /\ Keeps(s) /\ UNCHANGED order
    /\ Added(s, "sending", loc[s].held)
    /\ loc'[s].pend = loc[s].pend /\ loc'[s].rec = Len(recs) + 1

Fails(s) ==
    /\ Edge(s, "fail_record", "fail_order") /\ Keeps(s) /\ UNCHANGED order
    /\ Recorded(s, "failed")
    /\ loc'[s].pend = loc[s].pend /\ loc'[s].rec = loc[s].rec

Finishes(s) == pc[s] = "finish" /\ Gone(s) /\ Stores(s, "success") /\ Recorded(s, "sent")

\* A commit that ends the session's work on its order and leaves the records alone.
Closes(s) ==
    /\ Gone(s) /\ UNCHANGED recs
    /\ \/ pc[s] = "fail_order" /\ Stores(s, "failed")
       \/ pc[s] = "reconfirmed" /\ Stores(s, Cached(s).send)
       \/ pc[s] = "no_logistics_commit" /\ Stores(s, "success")

Refuses(s) == pc[s] = "record_failure" /\ Gone(s) /\ Stores(s, "failed") /\ Added(s, "failed", <<>>)

Begins(s) ==
    /\ pc[s] = "idle"
    /\ pc'[s] \in {"begin", "no_logistics"} /\ loc'[s].rec = NoRecord /\ loc'[s].held = <<>>
    /\ loc'[s].cur \notin loc'[s].todo
    /\ \A o \in Order \cap (loc'[s].todo \cup {loc'[s].cur}) :
          /\ loc'[s].cache[o] = order[o]
          /\ order[o].status = "absent" => loc'[s].kind = "live"
          /\ \A t \in Session : o \in loc[t].todo \cup {loc[t].cur} => o \in Overlapping
    /\ UNCHANGED <<order, recs>>

Shaped(s) == /\ Others(s) /\ UNCHANGED <<settings, sweep, crashes>>
             /\ \/ Quits(s) \/ Walks(s) \/ Marks(s) \/ Creates(s) \/ Fails(s) \/ Finishes(s)
                \/ Closes(s) \/ Refuses(s) \/ Begins(s)

\* A session that goes on leaves the others alone.
LEMMA GotoOthers ==
    ASSUME TypeInv, NEW s \in Session, NEW p, NEW l, Goto(s, p, l)
    PROVE  Others(s)
BY DEF Goto, TypeInv, TypeOK, Others

\* A session that leaves its order is gone.
LEMMA Leaving ==
    ASSUME TypeInv, NEW s \in Session, NEW l \in Local, NEW b, Leave(s, l, b),
           l.todo = loc[s].todo, l.kind = loc[s].kind,
           \A o \in Order \ {loc[s].cur} : l.cache[o] = loc[s].cache[o]
    PROVE  Gone(s) /\ Others(s)
<1>1. ASSUME Goto(s, "idle", Fresh) PROVE Gone(s) /\ Others(s)
  <2>1. pc'[s] = "idle" /\ loc'[s] = Fresh /\ Others(s)
    BY <1>1, GotoSets, GotoOthers
  <2>2. Fresh.rec = NoRecord /\ Fresh.held = <<>> /\ Fresh.cur = NoOrder /\ Fresh.todo = {}
    BY DEF Fresh
  <2>3. QED BY <2>1, <2>2, OrderAssumption DEF Gone
<1>2. ASSUME NEW o \in l.todo,
             Goto(s, "begin", [l EXCEPT !.cur = o, !.todo = @ \ {o}, !.pend = "absent",
                                        !.held = <<>>, !.rec = NoRecord, !.sent = 0])
      PROVE  Gone(s) /\ Others(s)
  <2> DEFINE m == [l EXCEPT !.cur = o, !.todo = @ \ {o}, !.pend = "absent",
                            !.held = <<>>, !.rec = NoRecord, !.sent = 0]
  <2>1. pc'[s] = "begin" /\ loc'[s] = m /\ Others(s)
    BY <1>2, GotoSets, GotoOthers
  <2>2. /\ m.rec = NoRecord /\ m.held = <<>> /\ m.cur = o /\ m.todo = l.todo \ {o}
        /\ m.kind = l.kind /\ m.cache = l.cache
    BY DEF Local
  <2> HIDE DEF m
  <2>3. QED BY <2>1, <2>2 DEF Gone
<1>3. QED BY <1>1, <1>2 DEF Leave

\* What a commit stores, and what the session has loaded after it.
LEMMA Committing ==
    ASSUME TypeInv, NEW s \in Session, pc[s] # "idle", NEW new \in Row,
           new.status = loc[s].pend, CommitOrder(s, new)
    PROVE  LET l == Committed(loc[s], new) IN
           /\ Stores(s, new.send)
           /\ l \in Local /\ l.cur = loc[s].cur /\ l.todo = loc[s].todo /\ l.kind = loc[s].kind
           /\ l.pend = loc[s].pend /\ l.rec = loc[s].rec /\ l.cards = loc[s].cards
           /\ l.held = loc[s].held /\ l.open = FALSE
           /\ \A o \in Order \ {loc[s].cur} : l.cache[o] = loc[s].cache[o]
           /\ l.cache[loc[s].cur] = new
<1>1. loc[s] \in Local /\ loc[s].cur \in Order /\ Cached(s) \in Row
  BY WorkingSession
<1>2. order \in [Order -> Row] /\ order[loc[s].cur] \in Row
  BY <1>1 DEF TypeInv, TypeOK
<1>3. /\ \A o \in Order \ {loc[s].cur} : order'[o] = order[o]
      /\ order'[loc[s].cur] = Write(order[loc[s].cur], Cached(s), new)
  BY <1>1, <1>2 DEF CommitOrder
<1>4. Stores(s, new.send)
  BY <1>3 DEF Stores, Write
<1>5. Committed(loc[s], new) \in Local
  BY CommitType
<1>6. QED BY <1>1, <1>4, <1>5 DEF Committed, Local

\* A commit after which the session leaves its order.
LEMMA ClosingCommit ==
    ASSUME TypeInv, NEW s \in Session, pc[s] # "idle", NEW new \in Row, NEW b,
           new.status = loc[s].pend, CommitOrder(s, new), Leave(s, Committed(loc[s], new), b)
    PROVE  Stores(s, new.send) /\ Gone(s) /\ Others(s)
<1> DEFINE l == Committed(loc[s], new)
<1>1. /\ Stores(s, new.send)
      /\ l \in Local /\ l.todo = loc[s].todo /\ l.kind = loc[s].kind
      /\ \A o \in Order \ {loc[s].cur} : l.cache[o] = loc[s].cache[o]
  BY Committing
<1>2. Leave(s, l, b)
  OBVIOUS
<1> HIDE DEF l
<1>3. QED BY <1>1, <1>2, Leaving

\* A record is appended.
LEMMA Adding ==
    ASSUME TypeInv, NEW s \in Session, NEW r \in Record, r.order = loc[s].cur, recs' = Append(recs, r)
    PROVE  Added(s, r.status, r.lines) /\ Len(recs) \in Nat /\ DOMAIN recs = 1..Len(recs)
<1>1. recs \in Seq(Record) /\ Len(recs) \in Nat /\ DOMAIN recs = 1..Len(recs)
  BY LenProperties DEF TypeInv, TypeOK
<1>2. /\ DOMAIN recs' = 1..(Len(recs) + 1) /\ recs'[Len(recs) + 1] = r
      /\ \A i \in DOMAIN recs : recs'[i] = recs[i]
  BY <1>1
<1>3. QED BY <1>1, <1>2 DEF Added

\* The record of a running attempt, and what its session does to it.
LEMMA Recording ==
    ASSUME TypeInv, AttemptInv, NEW s \in Session, pc[s] \in Sending
    PROVE  /\ \A st : recs' = [recs EXCEPT ![loc[s].rec].status = st] => Recorded(s, st)
           /\ Accepted(s) => SameRecords
           /\ loc[s].rec \in DOMAIN recs /\ recs[loc[s].rec].order = loc[s].cur
<1>1. recs \in [1..Len(recs) -> Record] /\ DOMAIN recs = 1..Len(recs)
  BY LenProperties DEF TypeInv, TypeOK
<1>2. loc[s].rec \in DOMAIN recs /\ recs[loc[s].rec].order = loc[s].cur
  BY DEF AttemptInv, SessionsOwn, OwnRecord
<1>3. ASSUME NEW st, recs' = [recs EXCEPT ![loc[s].rec].status = st] PROVE Recorded(s, st)
  <2> DEFINE new == [recs[loc[s].rec] EXCEPT !.status = st]
  <2>1. recs' = [recs EXCEPT ![loc[s].rec] = new]
    BY <1>3
  <2>2. new.status = st /\ new.order = recs[loc[s].rec].order /\ new.lines = recs[loc[s].rec].lines
    BY <1>1, <1>2 DEF Record
  <2> HIDE DEF new
  <2>3. QED BY <1>1, <1>2, <2>1, <2>2 DEF Recorded
<1>4. ASSUME Accepted(s) PROVE SameRecords
  <2> DEFINE new == [recs[loc[s].rec] EXCEPT !.got = @ + 1]
  <2>1. recs' = [recs EXCEPT ![loc[s].rec] = new]
    BY <1>4 DEF Accepted
  <2>2. /\ new.status = recs[loc[s].rec].status /\ new.order = recs[loc[s].rec].order
        /\ new.lines = recs[loc[s].rec].lines
    BY <1>1, <1>2 DEF Record
  <2> HIDE DEF new
  <2>3. QED BY <1>1, <1>2, <2>1, <2>2 DEF SameRecords
<1>5. QED BY <1>2, <1>3, <1>4

\* Every step of a session has one of the shapes.
LEMMA StepShape ==
    ASSUME TypeInv, AttemptInv, NEW s \in Session, Step(s)
    PROVE  Shaped(s)
<1>0. pc[s] # "idle"
  BY DEF Step, SkipDelivered, LockOrder, AlreadySent, AlreadySending, Reject, Accept,
     ConfirmFirst,
         MarkSending, Mark, ReserveContent, Reserve, CreateRecord, SendSegment, SendFails,
         ConfirmAfter, Finish, RestoreContent, Restore, FailRecord, FailOrder, CloseFailed,
         RecordFailure, Reconfirm, RecordConfirmation, CallNoLogistics, RecordNoLogistics
<1>1. loc[s] \in Local /\ loc[s].cur \in Order /\ Cached(s) \in Row /\ Pending(s) \in Row
  BY <1>0, WorkingSession
<1>2. ASSUME NEW l \in Local, NEW b, Leave(s, l, b), UNCHANGED <<order, recs>>,
             pc[s] \in {"begin", "locked", "no_logistics"},
             l.todo = loc[s].todo /\ l.kind = loc[s].kind /\ l.cache = loc[s].cache
      PROVE  Quits(s) /\ Others(s)
  BY <1>0, <1>2, Leaving DEF Quits
<1>3. /\ View(loc[s]) \in Local /\ View(loc[s]).todo = loc[s].todo /\ View(loc[s]).kind = loc[s].kind
      /\ View(loc[s]).cache = loc[s].cache /\ View(loc[s]).cur = loc[s].cur
      /\ View(loc[s]).pend = loc[s].pend /\ View(loc[s]).rec = loc[s].rec
  <2>1. View(loc[s]).kind = loc[s].kind
    BY <1>1 DEF View, Local
  <2>2. QED BY <1>1, <2>1, ViewType DEF TypeInv
<1>4. ASSUME NEW p, NEW l, Goto(s, p, l)
      PROVE  pc'[s] = p /\ loc'[s] = l /\ Others(s)
  BY <1>4, GotoSets, GotoOthers
\* Changes of the session's own data that leave its orders alone.
<1>5. ASSUME NEW st, NEW l, l = [loc[s] EXCEPT !.pend = st]
      PROVE  /\ l.cur = loc[s].cur /\ l.todo = loc[s].todo /\ l.kind = loc[s].kind
             /\ l.cache = loc[s].cache /\ l.rec = loc[s].rec /\ l.pend = st
  BY <1>1, <1>5 DEF Local
<1>6. UNCHANGED recs => SameRecords
  BY DEF SameRecords
<1>7. pc[s] \in Sending =>
        /\ \A st : recs' = [recs EXCEPT ![loc[s].rec].status = st] => Recorded(s, st)
        /\ Accepted(s) => SameRecords
  BY Recording
<1>8. CASE SkipDelivered(s)
  <2> DEFINE l == [loc[s] EXCEPT !.pend = Cached(s).status]
  <2>1. /\ pc[s] = "begin" /\ Cached(s).send = "success"
        /\ Leave(s, loc[s], FALSE) \/ Goto(s, "reconfirm", l)
        /\ UNCHANGED <<order, recs, settings, sweep, crashes>>
    BY <1>8 DEF SkipDelivered, ScanSkips
  <2>2. CASE Leave(s, loc[s], FALSE)
    BY <1>1, <1>2, <2>1, <2>2 DEF Shaped
  <2>3. CASE Goto(s, "reconfirm", l)
    <3>1. /\ l.cur = loc[s].cur /\ l.todo = loc[s].todo /\ l.kind = loc[s].kind
          /\ l.cache = loc[s].cache /\ l.rec = loc[s].rec
      BY <1>5
    <3> HIDE DEF l
    <3>2. pc'[s] = "reconfirm" /\ loc'[s] = l /\ Others(s)
      BY <1>4, <2>3
    <3>3. QED BY <1>6, <2>1, <3>1, <3>2 DEF Shaped, Walks, Keeps, Edge
  <2>4. QED BY <2>1, <2>2, <2>3
<1>9. CASE LockOrder(s)
  <2> DEFINE st == IF loc[s].kind = "live" /\ Cached(s).status \in {"absent", "unknown", "pending_payment"}
                   THEN "pending_ship" ELSE Cached(s).status
             l == [loc[s] EXCEPT !.pend = st]
  <2>1. /\ pc[s] = "begin"
        /\ Leave(s, loc[s], FALSE) \/ Goto(s, "locked", l)
        /\ UNCHANGED <<order, recs, settings, sweep, crashes>>
    BY <1>9 DEF LockOrder
  <2>2. CASE Leave(s, loc[s], FALSE)
    BY <1>1, <1>2, <2>1, <2>2 DEF Shaped
  <2>3. CASE Goto(s, "locked", l)
    <3>1. /\ l.cur = loc[s].cur /\ l.todo = loc[s].todo /\ l.kind = loc[s].kind
          /\ l.cache = loc[s].cache /\ l.rec = loc[s].rec /\ l.pend = st
      BY <1>5
    <3> HIDE DEF l
    <3>2. pc'[s] = "locked" /\ loc'[s] = l /\ Others(s)
      BY <1>4, <2>3
    <3>3. Walks(s)
      BY <1>6, <2>1, <3>1, <3>2 DEF Walks, Keeps, Edge
    <3>4. QED BY <2>1, <3>2, <3>3 DEF Shaped
  <2>4. QED BY <2>1, <2>2, <2>3
<1>10. CASE AlreadySent(s)
  <2>1. /\ pc[s] = "locked"
        /\ Leave(s, View(loc[s]), FALSE)
             \/ (Goto(s, "reconfirm", View(loc[s])) /\ Cached(s).send = "success")
        /\ UNCHANGED <<order, recs, settings, sweep, crashes>>
    BY <1>10 DEF AlreadySent
  <2>2. CASE Leave(s, View(loc[s]), FALSE)
    BY <1>2, <1>3, <2>1, <2>2 DEF Shaped
  <2>3. CASE Goto(s, "reconfirm", View(loc[s])) /\ Cached(s).send = "success"
    <3>1. pc'[s] = "reconfirm" /\ loc'[s] = View(loc[s]) /\ Others(s)
      BY <1>4, <2>3
    <3>2. QED BY <1>3, <1>6, <2>1, <2>3, <3>1 DEF Shaped, Walks, Keeps, Edge
  <2>4. QED BY <2>1, <2>2, <2>3
<1>11. CASE AlreadySending(s)
  <2>1. /\ pc[s] = "locked"
        /\ Leave(s, loc[s], FALSE) \/ Leave(s, View(loc[s]), FALSE)
        /\ UNCHANGED <<order, recs, settings, sweep, crashes>>
    BY <1>11 DEF AlreadySending
  <2>2. QED BY <1>1, <1>2, <1>3, <2>1 DEF Shaped
<1>12. CASE Reject(s) \/ Accept(s)
  <2>1. PICK q \in {"record_failure", "mark", "confirm_first"} :
          /\ Goto(s, q, View(loc[s])) /\ (q = "confirm_first" => ConfirmsFirst)
          /\ pc[s] = "locked" /\ Cached(s).send \notin {"success", "sending"}
          /\ UNCHANGED <<order, recs, settings, sweep, crashes>>
    BY <1>12 DEF Reject, Accept, Delivered, InProgress
  <2>2. pc'[s] = q /\ loc'[s] = View(loc[s]) /\ Others(s)
    BY <1>4, <2>1
  <2>3. QED BY <1>3, <1>6, <2>1, <2>2 DEF Shaped, Walks, Keeps, Edge
<1>13. ASSUME NEW p \in {"confirm_first", "confirm_after", "reconfirm", "no_logistics"}, pc[s] = p,
              NEW q, NEW l, l \in {loc[s], [loc[s] EXCEPT !.pend = "shipped"]}, Goto(s, q, l),
              <<p, q>> \in {<<"confirm_first", "mark">>, <<"confirm_first", "record_failure">>,
                            <<"confirm_after", "finish">>, <<"reconfirm", "reconfirmed">>,
                            <<"no_logistics", "no_logistics_commit">>},
              UNCHANGED <<order, recs, settings, sweep, crashes>>
       PROVE  Shaped(s)
  <2>1. pc'[s] = q /\ loc'[s] = l /\ Others(s)
    BY <1>4, <1>13
  <2>2. /\ l.cur = loc[s].cur /\ l.todo = loc[s].todo /\ l.kind = loc[s].kind
        /\ l.cache = loc[s].cache /\ l.rec = loc[s].rec
    BY <1>5, <1>13
  <2>3. Walks(s)
    BY <1>6, <1>13, <2>1, <2>2 DEF Walks, Keeps, Edge
  <2>4. QED BY <1>13, <2>1, <2>3 DEF Shaped
<1>14. CASE ConfirmFirst(s)
  BY <1>13, <1>14 DEF ConfirmFirst
<1>15. CASE ConfirmAfter(s)
  BY <1>13, <1>15 DEF ConfirmAfter
<1>16. CASE Reconfirm(s)
  BY <1>13, <1>16 DEF Reconfirm
<1>17. CASE CallNoLogistics(s)
  <2>1. CASE Leave(s, loc[s], FALSE)
    BY <1>1, <1>2, <1>17, <2>1 DEF CallNoLogistics, Shaped
  <2>2. CASE Goto(s, "no_logistics_commit", [loc[s] EXCEPT !.pend = "shipped"])
    BY <1>13, <1>17, <2>2 DEF CallNoLogistics
  <2>3. QED BY <1>17, <2>1, <2>2 DEF CallNoLogistics
<1>18. CASE MarkSending(s)
  <2> DEFINE new == [Pending(s) EXCEPT !.send = "sending"]
             l == Committed(loc[s], new)
  <2>1. new \in Row /\ new.send = "sending" /\ new.status = loc[s].pend
    BY <1>1 DEF Row, SendStatuses, Pending
  <2>2. /\ pc[s] = "mark" /\ CommitOrder(s, new) /\ Goto(s, "content", l)
        /\ UNCHANGED <<recs, settings, sweep, crashes>>
    BY <1>18 DEF MarkSending, Mark
  <2> HIDE DEF new
  <2>3. /\ Stores(s, "sending") /\ l.cur = loc[s].cur /\ l.todo = loc[s].todo /\ l.kind = loc[s].kind
        /\ l.pend = loc[s].pend /\ l.rec = loc[s].rec
        /\ \A o \in Order \ {loc[s].cur} : l.cache[o] = loc[s].cache[o]
        /\ l.cache[loc[s].cur] = new
    BY <1>0, <2>1, <2>2, Committing
  <2> HIDE DEF l
  <2>4. pc'[s] = "content" /\ loc'[s] = l /\ Others(s)
    BY <1>4, <2>2
  <2>5. Marks(s)
    BY <2>1, <2>2, <2>3, <2>4 DEF Marks, Edge
  <2>6. QED BY <2>2, <2>4, <2>5 DEF Shaped
<1>19. CASE ReserveContent(s)
  <2> DEFINE n == Need[loc[s].cur]
             cards == loc[s].cards
             m == [loc[s] EXCEPT !.held = SubSeq(cards, 1, n), !.cards = SubSeq(cards, n + 1, Len(cards))]
  <2>1. PICK q \in {"record", "record_failure"} : Goto(s, q, loc[s]) \/ Goto(s, q, m)
    BY <1>19 DEF ReserveContent, Reserve
  <2>2. pc[s] = "content" /\ UNCHANGED <<order, recs, settings, sweep, crashes>>
    BY <1>19 DEF ReserveContent, Reserve
  <2>3. /\ m.cur = loc[s].cur /\ m.todo = loc[s].todo /\ m.kind = loc[s].kind
        /\ m.cache = loc[s].cache /\ m.rec = loc[s].rec /\ m.pend = loc[s].pend
    BY <1>1 DEF Local
  <2> HIDE DEF m
  <2>4. pc'[s] = q /\ loc'[s] \in {loc[s], m} /\ Others(s)
    BY <1>4, <2>1
  <2>5. Walks(s)
    BY <1>6, <2>2, <2>3, <2>4 DEF Walks, Keeps, Edge
  <2>6. QED BY <2>2, <2>4, <2>5 DEF Shaped
<1>20. CASE CreateRecord(s)
  <2> DEFINE r == [order |-> loc[s].cur, status |-> "sending", lines |-> loc[s].held, got |-> 0]
             l == [loc[s] EXCEPT !.rec = Len(recs) + 1]
  <2>1. r \in Record /\ r.order = loc[s].cur /\ r.status = "sending" /\ r.lines = loc[s].held
    BY <1>1 DEF Local, Record
  <2>2. /\ pc[s] = "record" /\ Goto(s, "send", l) /\ recs' = Append(recs, r)
        /\ UNCHANGED <<order, settings, sweep, crashes>>
    BY <1>20 DEF CreateRecord
  <2>3. /\ l.cur = loc[s].cur /\ l.todo = loc[s].todo /\ l.kind = loc[s].kind
        /\ l.cache = loc[s].cache /\ l.rec = Len(recs) + 1 /\ l.pend = loc[s].pend
    BY <1>1 DEF Local
  <2> HIDE DEF r, l
  <2>4. Added(s, "sending", loc[s].held)
    BY <2>1, <2>2, Adding
  <2>5. pc'[s] = "send" /\ loc'[s] = l /\ Others(s)
    BY <1>4, <2>2
  <2>6. Creates(s)
    BY <2>2, <2>3, <2>4, <2>5 DEF Creates, Keeps, Edge
  <2>7. QED BY <2>2, <2>5, <2>6 DEF Shaped
<1>21. CASE SendSegment(s) \/ SendFails(s)
  <2> DEFINE m == [loc[s] EXCEPT !.sent = loc[s].sent + 1]
  <2>1. PICK q \in {"send", "confirm_after", "finish", "restore"} : Goto(s, q, loc[s]) \/ Goto(s, q, m)
    BY <1>21 DEF SendSegment, SendFails
  <2>2. /\ pc[s] = "send" /\ UNCHANGED <<order, settings, sweep, crashes>>
        /\ Accepted(s) \/ UNCHANGED recs
    BY <1>21 DEF SendSegment, SendFails
  <2>3. /\ m.cur = loc[s].cur /\ m.todo = loc[s].todo /\ m.kind = loc[s].kind
        /\ m.cache = loc[s].cache /\ m.rec = loc[s].rec /\ m.pend = loc[s].pend
    BY <1>1 DEF Local
  <2> HIDE DEF m
  <2>4. pc'[s] = q /\ loc'[s] \in {loc[s], m} /\ Others(s)
    BY <1>4, <2>1
  <2>5. SameRecords
    BY <1>6, <1>7, <2>2 DEF Sending
  <2>6. Walks(s)
    BY <2>2, <2>3, <2>4, <2>5 DEF Walks, Keeps, Edge
  <2>7. QED BY <2>2, <2>4, <2>6 DEF Shaped
<1>22. CASE RestoreContent(s)
  <2> DEFINE l == [loc[s] EXCEPT !.cards = loc[s].held \o loc[s].cards, !.held = <<>>]
  <2>1. /\ l.cur = loc[s].cur /\ l.todo = loc[s].todo /\ l.kind = loc[s].kind
        /\ l.cache = loc[s].cache /\ l.rec = loc[s].rec /\ l.pend = loc[s].pend
    BY <1>1 DEF Local
  <2>2. /\ Goto(s, "fail_record", l) /\ pc[s] = "restore"
        /\ UNCHANGED <<order, recs, settings, sweep, crashes>>
    BY <1>22 DEF RestoreContent, Restore
  <2> HIDE DEF l
  <2>3. pc'[s] = "fail_record" /\ loc'[s] = l /\ Others(s)
    BY <1>4, <2>2
  <2>4. Walks(s)
    BY <1>6, <2>1, <2>2, <2>3 DEF Walks, Keeps, Edge
  <2>5. QED BY <2>2, <2>3, <2>4 DEF Shaped
<1>23. CASE FailRecord(s)
  <2>1. /\ pc[s] = "fail_record" /\ Goto(s, "fail_order", loc[s])
        /\ recs' = [recs EXCEPT ![loc[s].rec].status = "failed"]
        /\ UNCHANGED <<order, settings, sweep, crashes>>
    BY <1>23 DEF FailRecord
  <2>2. pc'[s] = "fail_order" /\ loc'[s] = loc[s] /\ Others(s)
    BY <1>4, <2>1
  <2>3. Recorded(s, "failed")
    BY <1>7, <2>1 DEF Sending
  <2>4. QED BY <2>1, <2>2, <2>3 DEF Shaped, Fails, Keeps, Edge
<1>24. CASE Finish(s)
  <2> DEFINE new == [Pending(s) EXCEPT !.send = "success", !.content = "card",
                                       !.cardOnly = @ \/ OnlySendCard]
  <2>1. new \in Row /\ new.send = "success" /\ new.status = loc[s].pend
    BY <1>1 DEF Row, SendStatuses, Contents, OnlySendCard, Pending
  <2>2. /\ pc[s] = "finish" /\ CommitOrder(s, new) /\ Leave(s, Committed(loc[s], new), TRUE)
        /\ recs' = [recs EXCEPT ![loc[s].rec].status = "sent"]
        /\ UNCHANGED <<settings, sweep, crashes>>
    BY <1>24 DEF Finish
  <2> HIDE DEF new
  <2>3. Stores(s, "success") /\ Gone(s) /\ Others(s)
    BY <1>0, <2>1, <2>2, ClosingCommit
  <2>4. Recorded(s, "sent")
    BY <1>7, <2>2 DEF Sending
  <2>5. QED BY <2>2, <2>3, <2>4 DEF Shaped, Finishes
<1>25. CASE FailOrder(s)
  <2> DEFINE new == [Pending(s) EXCEPT !.send = "failed"]
  <2>1. new \in Row /\ new.send = "failed" /\ new.status = loc[s].pend
    BY <1>1 DEF Row, SendStatuses, Pending
  <2>2. /\ pc[s] = "fail_order" /\ CommitOrder(s, new) /\ Leave(s, Committed(loc[s], new), TRUE)
        /\ UNCHANGED <<recs, settings, sweep, crashes>>
    BY <1>25 DEF FailOrder, CloseFailed
  <2> HIDE DEF new
  <2>3. Stores(s, "failed") /\ Gone(s) /\ Others(s)
    BY <1>0, <2>1, <2>2, ClosingCommit
  <2>4. QED BY <2>2, <2>3 DEF Shaped, Closes
<1>26. CASE RecordFailure(s)
  <2> DEFINE new == [Pending(s) EXCEPT !.send = "failed"]
             r == [order |-> loc[s].cur, status |-> "failed", lines |-> <<>>, got |-> 0]
  <2>1. new \in Row /\ new.send = "failed" /\ new.status = loc[s].pend
    BY <1>1 DEF Row, SendStatuses, Pending
  <2>2. r \in Record /\ r.order = loc[s].cur /\ r.status = "failed" /\ r.lines = <<>>
    BY <1>1, EmptySeq DEF Record
  <2>3. /\ pc[s] = "record_failure" /\ CommitOrder(s, new) /\ Leave(s, Committed(loc[s], new), TRUE)
        /\ recs' = Append(recs, r) /\ UNCHANGED <<settings, sweep, crashes>>
    BY <1>26 DEF RecordFailure
  <2> HIDE DEF new, r
  <2>4. Stores(s, "failed") /\ Gone(s) /\ Others(s)
    BY <1>0, <2>1, <2>3, ClosingCommit
  <2>5. Added(s, "failed", <<>>)
    BY <2>2, <2>3, Adding
  <2>6. QED BY <2>3, <2>4, <2>5 DEF Shaped, Refuses
<1>27. CASE RecordConfirmation(s)
  <2>1. Pending(s).send = Cached(s).send /\ Pending(s).status = loc[s].pend
    BY <1>1 DEF Row, Pending
  <2>2. /\ pc[s] = "reconfirmed" /\ CommitOrder(s, Pending(s)) /\ Leave(s, Committed(loc[s], Pending(s)), TRUE)
        /\ UNCHANGED <<recs, settings, sweep, crashes>>
    BY <1>27 DEF RecordConfirmation
  <2>3. Stores(s, Cached(s).send) /\ Gone(s) /\ Others(s)
    BY <1>0, <1>1, <2>1, <2>2, ClosingCommit
  <2>4. QED BY <2>2, <2>3 DEF Shaped, Closes
<1>28. CASE RecordNoLogistics(s)
  <2> DEFINE new == [Pending(s) EXCEPT !.send = "success", !.content = "no_logistics"]
  <2>1. new \in Row /\ new.send = "success" /\ new.status = loc[s].pend
    BY <1>1 DEF Row, SendStatuses, Contents, Pending
  <2>2. /\ pc[s] = "no_logistics_commit" /\ CommitOrder(s, new) /\ Leave(s, Committed(loc[s], new), TRUE)
        /\ UNCHANGED <<recs, settings, sweep, crashes>>
    BY <1>28 DEF RecordNoLogistics
  <2> HIDE DEF new
  <2>3. Stores(s, "success") /\ Gone(s) /\ Others(s)
    BY <1>0, <2>1, <2>2, ClosingCommit
  <2>4. QED BY <2>2, <2>3 DEF Shaped, Closes
<1>29. QED BY <1>8, <1>9, <1>10, <1>11, <1>12, <1>14, <1>15, <1>16, <1>17, <1>18, <1>19, <1>20, <1>21,
              <1>22, <1>23, <1>24, <1>25, <1>26, <1>27, <1>28, <1>0 DEF Step

\* ... and so has every request that arrives.
LEMMA RequestShape ==
    ASSUME TypeInv, NEW s \in Session, Request(s)
    PROVE  Shaped(s)
<1>1. ASSUME NEW k \in SourceKinds, NEW o \in Order
      PROVE  LET l == Opened(k, o)
             IN  /\ l \in Local /\ l.cur = o /\ l.todo = {} /\ l.kind = k /\ l.cache = order
                 /\ l.rec = NoRecord /\ l.held = <<>>
  <2> DEFINE m == [Fresh EXCEPT !.kind = k, !.cur = o, !.cache = order]
  <2>1. m \in Local /\ m.cur = o /\ m.todo = {} /\ m.kind = k /\ m.cache = order /\ m.rec = NoRecord /\ m.held = <<>>
    BY FreshType DEF TypeInv, TypeOK, Local, Fresh
  <2> HIDE DEF m
  <2>2. View(m).kind = m.kind /\ View(m).held = m.held
    BY <2>1 DEF View, Local
  <2>3. QED BY <2>1, <2>2, ViewType DEF TypeInv, Opened, m
<1>2. ASSUME NEW k, NEW o \in Order, NEW p \in {"begin", "no_logistics"}, Arrives(k, s, {o}), k \in SourceKinds,
             Goto(s, p, Opened(k, o)), k = "live" \/ order[o].status # "absent"
      PROVE  Shaped(s)
  <2>1. pc'[s] = p /\ loc'[s] = Opened(k, o) /\ Others(s)
    BY <1>2, GotoSets, GotoOthers
  <2>2. pc[s] = "idle" /\ UNCHANGED <<order, recs, settings, sweep, crashes>>
    BY <1>2 DEF Arrives
  <2>3. \A t \in Session : o \in loc[t].todo \cup {loc[t].cur} => o \in Overlapping
    BY <1>2 DEF Arrives, Touches
  <2>4. Begins(s)
    BY <1>1, <1>2, <2>1, <2>2, <2>3 DEF Begins
  <2>5. QED BY <2>1, <2>2, <2>4 DEF Shaped
<1>3. ASSUME NEW o \in Order, LiveEvent(s, o) PROVE Shaped(s)
  BY <1>2, <1>3 DEF LiveEvent, SourceKinds
<1>4. ASSUME NEW o \in Order, ManualDelivery(s, o) PROVE Shaped(s)
  BY <1>2, <1>4 DEF ManualDelivery, SourceKinds
<1>5. ASSUME NEW o \in Order, NoLogistics(s, o) PROVE Shaped(s)
  BY <1>2, <1>5 DEF NoLogistics, SourceKinds
<1>6. ASSUME ScanOrders(s) PROVE Shaped(s)
  <2> DEFINE rows == {o \in Order : order[o].status \in ELIGIBLE_ORDER_STATUSES /\ ~order[o].cardOnly}
  <2>1. PICK o \in rows : Goto(s, "begin", [Opened("scan", o) EXCEPT !.todo = rows \ {o}])
    BY <1>6 DEF ScanOrders
  <2>2. Arrives("scan", s, rows)
    BY <1>6 DEF ScanOrders
  <2> DEFINE l == [Opened("scan", o) EXCEPT !.todo = rows \ {o}]
  <2>3. /\ l.cur = o /\ l.todo = rows \ {o} /\ l.cache = order /\ l.rec = NoRecord /\ l.held = <<>>
    BY <1>1 DEF SourceKinds, Local
  <2>4. \A q \in rows : q \in Order /\ order[q].status # "absent"
    BY DEF ELIGIBLE_ORDER_STATUSES
  <2>5. pc[s] = "idle" /\ UNCHANGED <<order, recs, settings, sweep, crashes>>
    BY <2>2 DEF Arrives
  <2>6. \A q \in rows : \A t \in Session : q \in loc[t].todo \cup {loc[t].cur} => q \in Overlapping
    BY <2>2 DEF Arrives, Touches
  <2>7. pc'[s] = "begin" /\ loc'[s] = l /\ Others(s)
    BY <2>1, GotoSets, GotoOthers
  <2> HIDE DEF rows, l
  <2>8. Begins(s)
    BY <2>3, <2>4, <2>5, <2>6, <2>7 DEF Begins
  <2>9. QED BY <2>5, <2>7, <2>8 DEF Shaped
<1>7. QED BY <1>3, <1>4, <1>5, <1>6 DEF Request

-----------------------------------------------------------------------------
(* What a session knows of its orders. Away from orders whose requests may  *)
(* overlap, a session is alone with its order: what it has loaded of it is  *)
(* still true, but for the timeout job's mark and the buyer's cancellation. *)

Attempting == {"confirm_first", "mark", "content", "record", "fail_order", "record_failure"} \cup Sending
Marked == {"content", "record", "fail_order"} \cup Sending

Apart == Order \ Overlapping
Touched(s) == Order \cap (loc[s].todo \cup {loc[s].cur})

\* Nobody else works on the order.
OnItsOwn ==
    /\ \A s, t \in Session : \A o \in Apart : o \in Touched(s) /\ o \in Touched(t) => s = t
    /\ \A s \in Session : loc[s].cur \notin loc[s].todo

\* What was loaded of the order is what is stored, the two exceptions apart.
Known(s, o) == /\ order[o].send \in {loc[s].cache[o].send, "timeout"}
               /\ order[o].status \in {loc[s].cache[o].status, "cancelled"}
OrdersKnown == \A s \in Session : \A o \in Apart \cap Touched(s) : Known(s, o)

\* An order is not taken for an attempt when it was loaded as delivered.
NotSentYet ==
    \A s \in Session :
        /\ pc[s] \in Attempting => Cached(s).send # "success"
        /\ pc[s] \in Marked => Cached(s).send = "sending"
        /\ pc[s] \in {"reconfirm", "reconfirmed"} => Cached(s).send = "success"

\* The record of a running attempt is its order's last one.
LastIsOwn ==
    \A s \in Session :
        /\ pc[s] \in Sending /\ loc[s].cur \in Apart =>
             \A q \in DOMAIN recs : recs[q].order = loc[s].cur => q <= loc[s].rec
        /\ pc[s] \in Sending \cup {"fail_order"} \/ loc[s].rec = NoRecord
        /\ pc[s] = "fail_order" =>
             loc[s].rec \in DOMAIN recs /\ recs[loc[s].rec].order = loc[s].cur

KnowledgeInv == OnItsOwn /\ OrdersKnown /\ NotSentYet /\ LastIsOwn

\* A session takes up no order that another one works on, but for overlapping ones.
LEMMA StepTouches ==
    ASSUME TypeInv, OnItsOwn, NEW s \in Session, Shaped(s)
    PROVE  /\ loc'[s].cur \notin loc'[s].todo
           /\ \A o \in Touched(s)' :
                \/ o \in Touched(s)
                \/ \A t \in Session : o \in Touched(t) => o \in Overlapping
           /\ \A t \in Session \ {s} : Touched(t)' = Touched(t)
<1>1. \A t \in Session \ {s} : Touched(t)' = Touched(t)
  BY DEF Shaped, Others, Touched
<1>2. CASE Keeps(s)
  BY <1>1, <1>2 DEF Keeps, OnItsOwn, Touched
<1>3. CASE Gone(s)
  BY <1>1, <1>3 DEF Gone, Touched
<1>4. CASE Marks(s)
  BY <1>1, <1>4 DEF Marks, OnItsOwn, Touched
<1>5. CASE Begins(s)
  BY <1>1, <1>5 DEF Begins, Touched
<1>6. QED
  BY <1>2, <1>3, <1>4, <1>5
  DEF Shaped, Quits, Walks, Creates, Fails, Finishes, Closes, Refuses

\* A step keeps OnItsOwn.
LEMMA StepOnItsOwn ==
    ASSUME TypeInv, OnItsOwn, NEW s \in Session, Shaped(s)
    PROVE  OnItsOwn'
<1>1. ASSUME NEW t \in Session \ {s} PROVE loc'[t].cur \notin loc'[t].todo
  BY DEF Shaped, Others, OnItsOwn
<1>2. ASSUME NEW t \in Session, NEW u \in Session, NEW o \in Apart, o \in Touched(t)', o \in Touched(u)'
      PROVE  t = u
  BY <1>2, StepTouches DEF OnItsOwn, Apart
<1>3. Apart' = Apart
  BY DEF Apart
<1>4. QED BY <1>1, <1>2, <1>3, StepTouches DEF OnItsOwn

\* What a step of s does to an order another session touches, or s will still visit: nothing.
LEMMA OtherOrders ==
    ASSUME TypeInv, OnItsOwn, NEW s \in Session, Shaped(s)
    PROVE  /\ \A t \in Session \ {s} : \A o \in Apart \cap Touched(t) : order'[o] = order[o]
           /\ \A o \in Order : o # loc[s].cur => order'[o] = order[o]
<1>1. \A o \in Order : o # loc[s].cur => order'[o] = order[o]
  BY DEF Shaped, Stores, Quits, Walks, Marks, Creates, Fails, Finishes, Closes, Refuses, Begins
<1>2. \A t \in Session \ {s} : \A o \in Apart \cap Touched(t) : o # loc[s].cur
  BY DEF OnItsOwn, Touched
<1>3. QED BY <1>1, <1>2 DEF Apart

\* ... OrdersKnown,
LEMMA StepOrdersKnown ==
    ASSUME TypeInv, OnItsOwn, OrdersKnown, NEW s \in Session, Shaped(s)
    PROVE  OrdersKnown'
<1>1. ASSUME NEW t \in Session \ {s}, NEW o \in Apart, o \in Touched(t)' PROVE Known(t, o)'
  <2>1. o \in Touched(t) /\ loc'[t] = loc[t]
    BY <1>1, StepTouches DEF Shaped, Others
  <2>2. order'[o] = order[o]
    BY <2>1, OtherOrders
  <2>3. QED BY <2>1, <2>2 DEF OrdersKnown, Known
<1>2. ASSUME NEW o \in Apart, o \in Touched(s)' PROVE Known(s, o)'
  <2>1. CASE Gone(s)
    <3>1. o \in loc[s].todo /\ o # loc[s].cur /\ loc'[s].cache[o] = loc[s].cache[o]
      BY <1>2, <2>1 DEF Gone, Touched, OnItsOwn
    <3>2. order'[o] = order[o] /\ o \in Touched(s)
      BY <3>1, OtherOrders DEF Apart, Touched
    <3>3. QED BY <3>1, <3>2 DEF OrdersKnown, Known
  <2>2. CASE Keeps(s) /\ UNCHANGED order
    BY <1>2, <2>2 DEF Keeps, Touched, OrdersKnown, Known
  <2>3. CASE Marks(s)
    <3>1. o \in Touched(s) /\ Known(s, o)
      BY <1>2, <2>3 DEF Marks, Touched, OrdersKnown
    <3>2. CASE o = loc[s].cur
      BY <2>3, <3>1, <3>2 DEF Marks, Stores, Dirty, Known, Cached
    <3>3. CASE o # loc[s].cur
      BY <2>3, <3>1, <3>3 DEF Marks, Stores, Known, Apart
    <3>4. QED BY <3>2, <3>3
  <2>4. CASE Begins(s)
    BY <1>2, <2>4 DEF Begins, Known, Touched
  <2>5. QED
    BY <2>1, <2>2, <2>3, <2>4
    DEF Shaped, Quits, Walks, Creates, Fails, Finishes, Closes, Refuses
<1>3. Apart' = Apart
  BY DEF Apart
<1>4. QED BY <1>1, <1>2, <1>3 DEF OrdersKnown

\* ... NotSentYet,
LEMMA StepNotSentYet ==
    ASSUME TypeInv, NotSentYet, NEW s \in Session, Shaped(s)
    PROVE  NotSentYet'
<1> DEFINE Good(t) == /\ pc[t] \in Attempting => Cached(t).send # "success"
                      /\ pc[t] \in Marked => Cached(t).send = "sending"
                      /\ pc[t] \in {"reconfirm", "reconfirmed"} => Cached(t).send = "success"
<1>1. ASSUME NEW t \in Session \ {s} PROVE Good(t)'
  BY DEF Shaped, Others, NotSentYet, Cached
<1>2. Good(s)'
  <2>1. CASE Gone(s)
    BY <2>1 DEF Gone, Attempting, Marked, Sending
  <2>2. CASE Walks(s)
    <3>1. Cached(s)' = Cached(s) /\ Good(s)
      BY <2>2 DEF Walks, Keeps, Cached, NotSentYet
    <3>2. QED BY <2>2, <3>1 DEF Walks, Edge, Attempting, Marked, Sending
  <2>3. CASE Creates(s) \/ Fails(s)
    <3>1. Cached(s)' = Cached(s) /\ Good(s)
      BY <2>3 DEF Creates, Fails, Keeps, Cached, NotSentYet
    <3>2. QED BY <2>3, <3>1 DEF Creates, Fails, Edge, Attempting, Marked, Sending
  <2>4. CASE Marks(s)
    <3>1. Cached(s)'.send = "sending" /\ pc'[s] = "content"
      BY <2>4 DEF Marks, Edge, Cached
    <3>2. QED BY <3>1 DEF Attempting, Marked, Sending
  <2>5. CASE Begins(s)
    BY <2>5 DEF Begins, Attempting, Marked, Sending
  <2>6. QED
    BY <2>1, <2>2, <2>3, <2>4, <2>5 DEF Shaped, Quits, Finishes, Closes, Refuses
<1>3. QED BY <1>1, <1>2 DEF NotSentYet

\* ... and LastIsOwn.
LEMMA StepLastIsOwn ==
    ASSUME TypeInv, AttemptInv, OnItsOwn, LastIsOwn, NEW s \in Session, Shaped(s)
    PROVE  LastIsOwn'
<1> DEFINE Last(t) == pc[t] \in Sending /\ loc[t].cur \in Apart =>
                        \A q \in DOMAIN recs : recs[q].order = loc[t].cur => q <= loc[t].rec
           Numbered(t) ==
             /\ pc[t] \in Sending \cup {"fail_order"} \/ loc[t].rec = NoRecord
             /\ pc[t] = "fail_order" =>
                  loc[t].rec \in DOMAIN recs /\ recs[loc[t].rec].order = loc[t].cur
<1>1. /\ Len(recs) \in Nat /\ DOMAIN recs = 1..Len(recs)
      /\ \A t \in Session : pc[t] \in Sending => loc[t].rec \in DOMAIN recs
  BY LenProperties DEF TypeInv, TypeOK, AttemptInv, SessionsOwn, OwnRecord
\* Records keep their orders, and a record that is added is of the session's own order.
<1>2. /\ \A r \in DOMAIN recs : r \in DOMAIN recs' /\ recs'[r].order = recs[r].order
      /\ \A r \in DOMAIN recs' \ DOMAIN recs : recs'[r].order = loc[s].cur
      /\ ~Creates(s) /\ ~Refuses(s) => DOMAIN recs' = DOMAIN recs
  BY DEF Shaped, Quits, Walks, Marks, Creates, Fails, Finishes, Closes, Refuses, Begins,
         SameRecords, Recorded, Added
<1>3. ASSUME NEW t \in Session \ {s} PROVE Last(t)' /\ Numbered(t)'
  <2>1. pc'[t] = pc[t] /\ loc'[t] = loc[t]
    BY DEF Shaped, Others
  <2>2. Numbered(t)'
    BY <1>2, <2>1 DEF LastIsOwn
  <2>3. Last(t)'
    <3> SUFFICES ASSUME pc[t] \in Sending, loc[t].cur \in Apart, NEW q \in DOMAIN recs',
                        recs'[q].order = loc[t].cur
                 PROVE  q <= loc[t].rec
      BY <2>1 DEF Apart
    <3>1. CASE q \in DOMAIN recs
      BY <1>2, <3>1 DEF LastIsOwn
    <3>2. CASE q \notin DOMAIN recs
      <4>1. loc[t].cur = loc[s].cur
        BY <1>2, <3>2
      <4>2. QED BY <4>1 DEF OnItsOwn, Touched, Apart
    <3>3. QED BY <3>1, <3>2
  <2>4. QED BY <2>2, <2>3
<1>4. Last(s)' /\ Numbered(s)'
  <2>1. CASE Gone(s)
    BY <2>1 DEF Gone, Sending
  <2>2. CASE Begins(s)
    BY <2>2 DEF Begins, Sending
  <2>3. CASE Marks(s)
    BY <2>3 DEF Marks, Edge, Sending, LastIsOwn
  <2>4. CASE Creates(s)
    BY <1>1, <2>4 DEF Creates, Added, Edge, Sending
  <2>5. CASE Fails(s)
    <3>1. loc[s].rec \in DOMAIN recs /\ recs[loc[s].rec].order = loc[s].cur
      BY <2>5 DEF Fails, Edge, Sending, AttemptInv, SessionsOwn, OwnRecord
    <3>2. QED BY <1>2, <2>5, <3>1 DEF Fails, Keeps, Edge, Sending
  <2>6. CASE Walks(s)
    <3>1. Last(s) /\ Numbered(s)
      BY DEF LastIsOwn
    <3>2. loc'[s].rec = loc[s].rec /\ loc'[s].cur = loc[s].cur /\ SameRecords
      BY <2>6 DEF Walks, Keeps
    <3>3. /\ pc'[s] \in Sending => pc[s] \in Sending
          /\ pc'[s] # "fail_order"
          /\ pc'[s] \in Sending \/ pc[s] \notin Sending \cup {"fail_order"}
      BY <2>6 DEF Walks, Edge, Sending
    <3>4. QED BY <3>1, <3>2, <3>3 DEF SameRecords, Apart
  <2>7. QED
    BY <2>1, <2>2, <2>3, <2>4, <2>5, <2>6 DEF Shaped, Quits, Finishes, Closes, Refuses
<1>5. QED BY <1>3, <1>4 DEF LastIsOwn

-----------------------------------------------------------------------------
(* The steps of the timeout job, the buyer and the crash.                  *)

\* What the timeout job writes.
LEMMA SweepWriteEffect ==
    ASSUME TypeInv, SweepWrite
    PROVE  /\ DOMAIN recs' = DOMAIN recs
           /\ \A r \in DOMAIN recs :
                /\ recs'[r].order = recs[r].order /\ recs'[r].lines = recs[r].lines
                /\ recs'[r].status = IF r \in sweep.recs THEN "timeout" ELSE recs[r].status
           /\ \A o \in Order :
                /\ order'[o].send = IF o \in sweep.orders THEN "timeout" ELSE order[o].send
                /\ order'[o].status = order[o].status
           /\ sweep'.recs = {} /\ sweep'.orders = {} /\ sweep.recs # {}
           /\ UNCHANGED <<stock, pc, loc, settings, crashes>>
<1>1. recs \in [1..Len(recs) -> Record] /\ order \in [Order -> Row]
  BY LenProperties DEF TypeInv, TypeOK
<1>2. /\ DOMAIN recs' = DOMAIN recs
      /\ \A r \in DOMAIN recs :
           /\ recs'[r].order = recs[r].order /\ recs'[r].lines = recs[r].lines
           /\ recs'[r].status = IF r \in sweep.recs THEN "timeout" ELSE recs[r].status
  BY <1>1 DEF SweepWrite, Record
<1>3. \A o \in Order :
        /\ order'[o].send = IF o \in sweep.orders THEN "timeout" ELSE order[o].send
        /\ order'[o].status = order[o].status
  BY <1>1 DEF SweepWrite, Row
<1>4. QED BY <1>2, <1>3 DEF SweepWrite

\* What it has read.
LEMMA SweepReadEffect ==
    ASSUME TypeInv, SweepRead
    PROVE  /\ sweep.recs = {}
           /\ sweep'.recs # {}
           /\ \A r \in sweep'.recs : /\ r \in DOMAIN recs /\ recs[r].status = "sending"
                                     /\ SlowDelivery \/ \A s \in Session : loc[s].rec # r
           /\ \A r \in DOMAIN recs : recs[r].status = "sending" /\ (\A s \in Session : loc[s].rec # r)
                => r \in sweep'.recs
           /\ \A o \in sweep'.orders : /\ o \in Order /\ order[o].send = "sending"
                                       /\ \E r \in sweep'.recs : recs[r].order = o
           /\ UNCHANGED <<order, recs, stock, pc, loc, settings, crashes>>
BY DEF SweepRead

\* What a cancellation changes.
LEMMA CancelEffect ==
    ASSUME TypeInv, NEW o \in Order, BuyerCancels(o)
    PROVE  /\ \A p \in Order : /\ order'[p].send = order[p].send
                               /\ order'[p].status \in {order[p].status, "cancelled"}
           /\ UNCHANGED <<recs, stock, pc, loc, sweep, settings, crashes>>
<1>1. order \in [Order -> Row] /\ order' = [order EXCEPT ![o] = [order[o] EXCEPT !.status = "cancelled"]]
  BY DEF TypeInv, TypeOK, BuyerCancels
<1>2. \A p \in Order : order'[p].send = order[p].send /\ order'[p].status \in {order[p].status, "cancelled"}
  BY <1>1 DEF Row
<1>3. QED BY <1>2 DEF BuyerCancels

\* What a crash leaves of the sessions.
LEMMA CrashEffect ==
    ASSUME TypeInv, Crash
    PROVE  /\ \A s \in Session : /\ pc'[s] = "idle" /\ Touched(s)' = {} /\ loc'[s] = Fresh
                                 /\ loc'[s].rec = NoRecord /\ loc'[s].held = <<>> /\ loc'[s].open = FALSE
                                 /\ loc'[s].cur \notin loc'[s].todo /\ loc'[s].cur \notin Order
           /\ crashes' # 0
           /\ UNCHANGED <<order, recs, stock, settings, sweep>>
<1>1. /\ Fresh.rec = NoRecord /\ Fresh.held = <<>> /\ Fresh.cur = NoOrder /\ Fresh.todo = {}
      /\ Fresh.open = FALSE
  BY DEF Fresh
<1>2. \A s \in Session : pc'[s] = "idle" /\ loc'[s] = Fresh
  BY DEF Crash
<1>3. \A s \in Session : Touched(s)' = {}
  BY <1>1, <1>2, OrderAssumption DEF Touched
<1>4. crashes' # 0 /\ UNCHANGED <<order, recs, stock, settings, sweep>>
  BY DEF Crash, TypeInv, TypeOK
<1>5. QED BY <1>1, <1>2, <1>3, <1>4, OrderAssumption

\* What leaves the sessions alone and only adds the two exceptions keeps the knowledge.
LEMMA OthersKeepKnowledge ==
    ASSUME TypeInv, KnowledgeInv,
           \/ SweepRead \/ SweepWrite \/ Crash \/ UNCHANGED vars
           \/ \E o \in Order : BuyerCancels(o)
    PROVE  KnowledgeInv'
<1>1. ASSUME UNCHANGED <<pc, loc>>, DOMAIN recs' = DOMAIN recs,
             \A r \in DOMAIN recs : recs'[r].order = recs[r].order,
             \A o \in Order : /\ order'[o].send \in {order[o].send, "timeout"}
                              /\ order'[o].status \in {order[o].status, "cancelled"}
      PROVE  KnowledgeInv'
  <2>1. Apart' = Apart /\ \A s \in Session : Touched(s)' = Touched(s) /\ Cached(s)' = Cached(s)
    BY <1>1 DEF Apart, Touched, Cached
  <2>2. OnItsOwn' /\ NotSentYet'
    BY <1>1, <2>1 DEF KnowledgeInv, OnItsOwn, NotSentYet
  <2>3. OrdersKnown'
    BY <1>1, <2>1 DEF KnowledgeInv, OrdersKnown, Known, Apart
  <2>4. LastIsOwn'
    BY <1>1, <2>1 DEF KnowledgeInv, LastIsOwn
  <2>5. QED BY <2>2, <2>3, <2>4 DEF KnowledgeInv
<1>2. CASE SweepRead
  BY <1>1, <1>2, SweepReadEffect
<1>3. CASE SweepWrite
  BY <1>1, <1>3, SweepWriteEffect
<1>4. CASE Crash
  BY <1>4, CrashEffect
  DEF KnowledgeInv, OnItsOwn, OrdersKnown, NotSentYet, LastIsOwn, Attempting, Marked, Sending
<1>5. CASE UNCHANGED vars
  BY <1>1, <1>5 DEF vars
<1>6. CASE \E o \in Order : BuyerCancels(o)
  BY <1>1, <1>6, CancelEffect
<1>7. QED BY <1>2, <1>3, <1>4, <1>5, <1>6

\* A step keeps what is known.
LEMMA StepKnowledge ==
    ASSUME TypeInv, AttemptInv, KnowledgeInv, NEW s \in Session, Shaped(s)
    PROVE  KnowledgeInv'
BY StepOnItsOwn, StepOrdersKnown, StepNotSentYet, StepLastIsOwn DEF KnowledgeInv

\* Nothing is known at the start.
LEMMA InitKnowledge == Init => KnowledgeInv
<1> SUFFICES ASSUME Init PROVE KnowledgeInv
  OBVIOUS
<1>1. \A s \in Session : /\ pc[s] = "idle" /\ loc[s].rec = NoRecord
                         /\ loc[s].cur = NoOrder /\ loc[s].todo = {}
  BY DEF Init, Fresh
<1>2. \A s \in Session : Touched(s) = {}
  BY <1>1, OrderAssumption DEF Touched
<1>3. QED BY <1>1, <1>2
  DEF KnowledgeInv, OnItsOwn, OrdersKnown, NotSentYet, LastIsOwn, Attempting, Marked, Sending

-----------------------------------------------------------------------------
(* The timeout job on a backend that is not slow: it only marks attempts    *)
(* that a crash left behind, and nobody takes up their orders meanwhile.    *)

\* A session is working on the record.
Owned(r) == \E s \in Session : pc[s] \in Sending /\ loc[s].rec = r
\* The order looks delivered or being delivered, and nobody attempts to deliver it.
LeftAlone(o) == /\ order[o].send \in {"sending", "success"}
                /\ \A s \in Session : loc[s].cur = o => pc[s] \notin Attempting

LeftBehind ==
    \A r \in DOMAIN recs : recs[r].order \in Apart /\ recs[r].status = "sending"
        => Owned(r) \/ LeftAlone(recs[r].order)
SweepFinds ==
    \A o \in Apart \cap sweep.orders :
        /\ LeftAlone(o)
        /\ \A r \in DOMAIN recs : recs[r].order = o /\ recs[r].status = "sending" => r \in sweep.recs
SendTrue(s, o) ==
    \/ order[o].send = loc[s].cache[o].send
    \/ loc[s].cache[o].send \in {"sending", "success"} /\ ~(loc[s].cur = o /\ pc[s] \in Attempting)
SweepInv ==
    ~SlowDelivery => /\ LeftBehind /\ SweepFinds
                     /\ \A s \in Session : \A o \in Apart \cap Touched(s) : SendTrue(s, o)

\* An order that was left alone is not taken up again by a step.
LEMMA StaysLeftAlone ==
    ASSUME TypeInv, KnowledgeInv, NEW s \in Session, Shaped(s), NEW o \in Apart, LeftAlone(o),
           \A p \in Apart \cap Touched(s) : SendTrue(s, p)
    PROVE  LeftAlone(o)'
<1>1. o \in Order
  BY DEF Apart
<1>2. order'[o].send \in {"sending", "success"}
  <2>1. CASE o # loc[s].cur
    BY <1>1, <2>1, OtherOrders DEF KnowledgeInv, LeftAlone
  <2>2. CASE o = loc[s].cur
    <3>1. pc[s] \notin Attempting
      BY <2>2 DEF LeftAlone
    <3>2. CASE UNCHANGED order
      BY <3>2 DEF LeftAlone
    <3>3. CASE Closes(s)
      BY <2>2, <3>1, <3>3 DEF Closes, Stores, Dirty, LeftAlone, Attempting
    <3>4. QED
      BY <3>1, <3>2, <3>3
      DEF Shaped, Quits, Walks, Marks, Creates, Fails, Finishes, Refuses, Begins, Edge, Attempting, Sending
  <2>3. QED BY <2>1, <2>2
<1>3. ASSUME NEW t \in Session, loc'[t].cur = o, pc'[t] \in Attempting PROVE FALSE
  <2>1. CASE t # s
    BY <1>3, <2>1 DEF Shaped, Others, LeftAlone
  <2>2. CASE t = s
    <3>1. loc[s].cur = o => pc[s] \notin Attempting
      BY DEF LeftAlone
    <3>2. Walks(s) /\ loc[s].cur = o
      BY <1>3, <2>2, <3>1
      DEF Shaped, Quits, Walks, Marks, Creates, Fails, Finishes, Closes, Refuses, Begins, Gone, Edge,
          Keeps, Attempting, Sending
    <3>3. pc[s] = "locked" /\ Cached(s).send \notin {"success", "sending"}
      BY <1>3, <2>2, <3>1, <3>2 DEF Walks, Edge, Attempting, Sending
    <3>4. o \in Apart \cap Touched(s)
      BY <1>1, <3>2 DEF Touched
    <3>5. QED BY <3>2, <3>3, <3>4 DEF SendTrue, LeftAlone, Cached
  <2>3. QED BY <2>1, <2>2
<1>4. QED BY <1>2, <1>3 DEF LeftAlone

\* A record that is being sent has its session, and a new one has it too.
LEMMA StaysOwned ==
    ASSUME TypeInv, AttemptInv, NEW s \in Session, Shaped(s), NEW r \in DOMAIN recs',
           recs'[r].status = "sending"
    PROVE  \/ r \in DOMAIN recs /\ recs[r].status = "sending" /\ recs'[r].order = recs[r].order
              /\ (Owned(r) => Owned(r)')
           \/ r \notin DOMAIN recs /\ Owned(r)' /\ recs'[r].order = loc[s].cur /\ pc[s] = "record"
<1>1. CASE r \notin DOMAIN recs
  <2>1. Creates(s) /\ r = Len(recs) + 1
    BY <1>1
    DEF Shaped, Quits, Walks, Marks, Creates, Fails, Finishes, Closes, Refuses, Begins,
        SameRecords, Recorded, Added
  <2>2. QED BY <1>1, <2>1 DEF Creates, Edge, Added, Owned, Sending
<1>2. CASE r \in DOMAIN recs
  <2>1. recs[r].status = "sending" /\ recs'[r].order = recs[r].order
    BY <1>2
    DEF Shaped, Quits, Walks, Marks, Creates, Fails, Finishes, Closes, Refuses, Begins,
        SameRecords, Recorded, Added
  <2>2. ASSUME NEW t \in Session, pc[t] \in Sending, loc[t].rec = r PROVE Owned(r)'
    <3>1. CASE t # s
      BY <2>2, <3>1 DEF Shaped, Others, Owned
    <3>2. CASE t = s
      <4>1. Walks(s) \/ Creates(s) \/ Fails(s) \/ Finishes(s)
        BY <2>2, <3>2
        DEF Shaped, Quits, Marks, Closes, Refuses, Begins, Edge, Sending
      <4>2. Walks(s)
        BY <2>2, <3>2, <4>1 DEF Creates, Fails, Finishes, Recorded, Edge, Sending
      <4>3. pc'[s] \in Sending /\ loc'[s].rec = r
        BY <2>2, <3>2, <4>2 DEF Walks, Edge, Sending
      <4>4. QED BY <4>3 DEF Owned
    <3>3. QED BY <3>1, <3>2
  <2>3. QED BY <1>2, <2>1, <2>2 DEF Owned
<1>3. QED BY <1>1, <1>2

\* A step keeps SweepInv,
LEMMA StepQuietSweep ==
    ASSUME TypeInv, AttemptInv, KnowledgeInv, SweepInv, NEW s \in Session, Shaped(s)
    PROVE  SweepInv'
<1> SUFFICES ASSUME ~SlowDelivery
             PROVE  /\ LeftBehind' /\ SweepFinds'
                    /\ \A t \in Session : \A o \in Apart \cap Touched(t)' : SendTrue(t, o)'
  BY DEF SweepInv, Apart
<1>1. LeftBehind /\ SweepFinds /\ \A t \in Session : \A o \in Apart \cap Touched(t) : SendTrue(t, o)
  BY DEF SweepInv
<1>2. \A o \in Apart : LeftAlone(o) => LeftAlone(o)'
  BY <1>1, StaysLeftAlone
<1>3. Apart' = Apart /\ UNCHANGED sweep
  BY DEF Apart, Shaped
<1>4. LeftBehind'
  BY <1>1, <1>2, <1>3, StaysOwned DEF LeftBehind
<1>5. SweepFinds'
  <2>1. \A o \in Apart \cap sweep.orders : loc[s].cur = o => pc[s] # "record"
    BY <1>1 DEF SweepFinds, LeftAlone, Attempting
  <2>2. QED BY <1>1, <1>2, <1>3, <2>1, StaysOwned DEF SweepFinds
<1>6. ASSUME NEW t \in Session \ {s}, NEW o \in Apart \cap Touched(t)' PROVE SendTrue(t, o)'
  <2>1. o \in Touched(t) /\ loc'[t] = loc[t] /\ pc'[t] = pc[t]
    BY <1>6, StepTouches DEF Shaped, Others, KnowledgeInv
  <2>2. order'[o] = order[o] /\ SendTrue(t, o)
    BY <1>1, <1>6, <2>1, OtherOrders DEF KnowledgeInv
  <2>3. QED BY <2>1, <2>2 DEF SendTrue
<1>7. ASSUME NEW o \in Apart \cap Touched(s)' PROVE SendTrue(s, o)'
  <2>1. CASE Gone(s)
    <3>1. o \in loc[s].todo /\ o # loc[s].cur /\ loc'[s].cache[o] = loc[s].cache[o]
      BY <1>7, <2>1 DEF Gone, Touched, KnowledgeInv, OnItsOwn
    <3>2. order'[o] = order[o] /\ o \in Touched(s)
      BY <3>1, OtherOrders DEF Apart, Touched, KnowledgeInv
    <3>3. pc'[s] \notin Attempting
      BY <2>1 DEF Gone, Attempting, Sending
    <3>4. QED BY <1>1, <3>1, <3>2, <3>3 DEF SendTrue
  <2>2. CASE Walks(s) \/ Creates(s) \/ Fails(s)
    <3>1. /\ loc'[s].cache = loc[s].cache /\ loc'[s].cur = loc[s].cur /\ UNCHANGED order
          /\ o \in Touched(s)
      BY <1>7, <2>2 DEF Walks, Creates, Fails, Keeps, Touched
    <3>2. \/ pc'[s] \in Attempting => pc[s] \in Attempting
          \/ Cached(s).send \notin {"success", "sending"}
      BY <2>2 DEF Walks, Creates, Fails, Edge, Attempting, Sending
    <3>3. QED BY <1>1, <3>1, <3>2 DEF SendTrue, Cached
  <2>3. CASE Marks(s)
    <3>1. o \in Touched(s) /\ SendTrue(s, o)
      BY <1>1, <1>7, <2>3 DEF Marks, Touched
    <3>2. CASE o = loc[s].cur
      <4>1. order[o].send = Cached(s).send
        BY <2>3, <3>1, <3>2 DEF Marks, Edge, SendTrue, Attempting, Cached
      <4>2. QED BY <2>3, <3>2, <4>1 DEF Marks, Stores, Dirty, SendTrue
    <3>3. CASE o # loc[s].cur
      BY <2>3, <3>1, <3>3 DEF Marks, Stores, SendTrue, Apart
    <3>4. QED BY <3>2, <3>3
  <2>4. CASE Begins(s)
    BY <1>7, <2>4 DEF Begins, SendTrue, Touched
  <2>5. QED
    BY <2>1, <2>2, <2>3, <2>4 DEF Shaped, Quits, Finishes, Closes, Refuses
<1>8. QED BY <1>3, <1>4, <1>5, <1>6, <1>7

\* ... and so do the timeout job, cancellations and crashes.
LEMMA OthersQuietSweep ==
    ASSUME TypeInv, AttemptInv, KnowledgeInv, SweepInv,
           \/ SweepRead \/ SweepWrite \/ Crash \/ UNCHANGED vars
           \/ \E o \in Order : BuyerCancels(o)
    PROVE  SweepInv'
<1> SUFFICES ASSUME ~SlowDelivery
             PROVE  /\ LeftBehind' /\ SweepFinds'
                    /\ \A t \in Session : \A o \in Apart \cap Touched(t)' : SendTrue(t, o)'
  BY DEF SweepInv, Apart
<1>1. LeftBehind /\ SweepFinds /\ \A t \in Session : \A o \in Apart \cap Touched(t) : SendTrue(t, o)
  BY DEF SweepInv
<1>2. Apart' = Apart /\ Apart \subseteq Order
  BY DEF Apart
<1>3. ASSUME UNCHANGED <<recs, pc, loc>>, \A o \in Order : order'[o].send = order[o].send
      PROVE  /\ LeftBehind' /\ \A o \in Apart : LeftAlone(o)' = LeftAlone(o)
             /\ \A t \in Session : \A o \in Apart \cap Touched(t)' : SendTrue(t, o)'
  <2>1. \A o \in Apart : LeftAlone(o)' = LeftAlone(o)
    BY <1>2, <1>3 DEF LeftAlone
  <2>2. \A r \in DOMAIN recs : Owned(r)' = Owned(r)
    BY <1>3 DEF Owned
  <2>3. \A t \in Session : Touched(t)' = Touched(t)
    BY <1>3 DEF Touched
  <2>4. \A t \in Session : \A o \in Apart \cap Touched(t)' : SendTrue(t, o)'
    BY <1>1, <1>2, <1>3, <2>3 DEF SendTrue
  <2>5. QED BY <1>1, <1>2, <1>3, <2>1, <2>2, <2>4 DEF LeftBehind
<1>4. ASSUME UNCHANGED <<recs, pc, loc, sweep>>, \A o \in Order : order'[o].send = order[o].send
      PROVE  /\ LeftBehind' /\ SweepFinds'
             /\ \A t \in Session : \A o \in Apart \cap Touched(t)' : SendTrue(t, o)'
  BY <1>1, <1>2, <1>3, <1>4 DEF SweepFinds
<1>5. CASE SweepRead
  <2>1. /\ LeftBehind' /\ \A o \in Apart : LeftAlone(o)' = LeftAlone(o)
        /\ \A t \in Session : \A o \in Apart \cap Touched(t)' : SendTrue(t, o)'
    BY <1>3, <1>5, SweepReadEffect
  <2>2. ASSUME NEW o \in Apart, o \in sweep'.orders PROVE LeftAlone(o)
    <3>1. PICK r \in sweep'.recs : recs[r].order = o
      BY <1>5, <2>2, SweepReadEffect
    <3>2. r \in DOMAIN recs /\ recs[r].status = "sending" /\ ~Owned(r)
      BY <1>5, SweepReadEffect DEF Owned
    <3>3. QED BY <1>1, <2>2, <3>1, <3>2 DEF LeftBehind
  <2>3. ASSUME NEW o \in Apart, o \in sweep'.orders, NEW r \in DOMAIN recs,
               recs[r].order = o, recs[r].status = "sending"
        PROVE  r \in sweep'.recs
    <3>1. ASSUME NEW t \in Session, loc[t].rec = r PROVE FALSE
      <4>1. r # NoRecord
        BY LenProperties DEF TypeInv, TypeOK, NoRecord
      <4>2. pc[t] \in Sending \cup {"fail_order"}
        BY <3>1, <4>1 DEF KnowledgeInv, LastIsOwn
      <4>3. loc[t].cur = o
        BY <2>3, <3>1, <4>2 DEF KnowledgeInv, LastIsOwn, AttemptInv, SessionsOwn, OwnRecord
      <4>4. QED BY <2>2, <2>3, <4>2, <4>3 DEF LeftAlone, Attempting
    <3>2. QED BY <1>5, <2>3, <3>1, SweepReadEffect
  <2>4. UNCHANGED recs
    BY <1>5, SweepReadEffect
  <2>5. SweepFinds'
    BY <1>2, <2>1, <2>2, <2>3, <2>4 DEF SweepFinds
  <2>6. QED BY <2>1, <2>5
<1>6. CASE SweepWrite
  <2>1. /\ DOMAIN recs' = DOMAIN recs /\ UNCHANGED <<pc, loc>> /\ sweep'.orders = {}
        /\ \A r \in DOMAIN recs :
             /\ recs'[r].order = recs[r].order
             /\ recs'[r].status = IF r \in sweep.recs THEN "timeout" ELSE recs[r].status
        /\ \A o \in Order : order'[o].send = IF o \in sweep.orders THEN "timeout" ELSE order[o].send
    BY <1>6, SweepWriteEffect
  <2>2. LeftBehind'
    <3> SUFFICES ASSUME NEW r \in DOMAIN recs, recs[r].order \in Apart, recs'[r].status = "sending"
                 PROVE  Owned(r)' \/ LeftAlone(recs[r].order)'
      BY <1>2, <2>1 DEF LeftBehind
    <3>1. r \notin sweep.recs /\ recs[r].status = "sending"
      BY <2>1
    <3>2. recs[r].order \notin sweep.orders
      BY <1>1, <3>1 DEF SweepFinds
    <3>3. order'[recs[r].order].send = order[recs[r].order].send
      BY <1>2, <2>1, <3>2
    <3>4. QED BY <1>1, <2>1, <3>1, <3>3 DEF LeftBehind, Owned, LeftAlone
  <2>3. SweepFinds'
    BY <2>1 DEF SweepFinds
  <2>4. ASSUME NEW t \in Session, NEW o \in Apart \cap Touched(t)' PROVE SendTrue(t, o)'
    <3>1. SendTrue(t, o) /\ o \in Order
      BY <1>1, <1>2, <2>1, <2>4 DEF Touched
    <3>2. CASE o \in sweep.orders
      BY <1>1, <2>1, <2>4, <3>1, <3>2 DEF SweepFinds, LeftAlone, SendTrue
    <3>3. CASE o \notin sweep.orders
      BY <2>1, <3>1, <3>3 DEF SendTrue
    <3>4. QED BY <3>2, <3>3
  <2>5. QED BY <2>2, <2>3, <2>4
<1>7. CASE Crash
  <2>1. /\ \A s \in Session : pc'[s] = "idle" /\ Touched(s)' = {}
        /\ UNCHANGED <<order, recs, sweep>>
    BY <1>7, CrashEffect
  <2>2. \A o \in Apart : LeftAlone(o) => LeftAlone(o)'
    BY <2>1 DEF LeftAlone, Attempting, Sending
  <2>3. ASSUME NEW r \in DOMAIN recs, recs[r].order \in Apart, recs[r].status = "sending"
        PROVE  LeftAlone(recs[r].order)'
    <3>1. CASE LeftAlone(recs[r].order)
      BY <2>1, <2>2, <2>3, <3>1
    <3>2. CASE Owned(r)
      <4>1. PICK s \in Session : pc[s] \in Sending /\ loc[s].rec = r
        BY <3>2 DEF Owned
      <4>2. loc[s].cur = recs[r].order /\ Cached(s).send = "sending"
        BY <4>1 DEF AttemptInv, SessionsOwn, OwnRecord, KnowledgeInv, NotSentYet, Marked
      <4>3. recs[r].order \in Apart \cap Touched(s)
        BY <1>2, <2>3, <4>2 DEF Touched
      <4>4. order[recs[r].order].send = "sending"
        BY <1>1, <4>1, <4>2, <4>3 DEF SendTrue, Cached, Attempting
      <4>5. QED BY <2>1, <4>4 DEF LeftAlone, Attempting, Sending
    <3>3. QED BY <1>1, <2>3, <3>1, <3>2 DEF LeftBehind
  <2>4. LeftBehind' /\ SweepFinds'
    BY <1>1, <1>2, <2>1, <2>2, <2>3 DEF LeftBehind, SweepFinds
  <2>5. QED BY <2>1, <2>4
<1>8. CASE UNCHANGED vars
  BY <1>4, <1>8 DEF vars
<1>9. CASE \E o \in Order : BuyerCancels(o)
  BY <1>4, <1>9, CancelEffect
<1>10. QED BY <1>5, <1>6, <1>7, <1>8, <1>9

-----------------------------------------------------------------------------
(* No attempt after a sent one.                                            *)

\* An order with an attempt recorded as sent is shown as delivered, or was overtaken.
SentIsShown ==
    \A r \in DOMAIN recs : recs[r].status = "sent" /\ recs[r].order \in Apart
        => order[recs[r].order].send = "success" \/ Overtaken(r)
SweepFits ==
    /\ sweep.recs \subseteq DOMAIN recs
    /\ \A o \in sweep.orders : \E r \in sweep.recs : recs[r].order = o
\* What the job is about to mark overtakes every sent attempt it does not mark itself.
SweepOvertakes ==
    \A o \in Apart \cap sweep.orders : \A r \in DOMAIN recs \ sweep.recs :
        recs[r].order = o /\ recs[r].status = "sent"
        => Overtaken(r) \/ (SlowDelivery /\ \E t \in sweep.recs : t < r /\ recs[t].order = o)

SentInv == NoAttemptAfterSent /\ SentIsShown /\ SweepFits /\ SweepOvertakes

\* An overtaken attempt stays overtaken.
LEMMA StaysOvertaken ==
    ASSUME TypeInv, AttemptInv, KnowledgeInv, NEW s \in Session, Shaped(s),
           NEW r \in DOMAIN recs, recs[r].order \in Apart, Overtaken(r)
    PROVE  Overtaken(r)'
<1>1. PICK t \in 1..(r - 1) : recs[t].order = recs[r].order /\ recs[t].status = "timeout"
  BY DEF Overtaken
<1>2. /\ Len(recs) \in Nat /\ DOMAIN recs = 1..Len(recs) /\ r \in Nat /\ t \in DOMAIN recs
  BY <1>1, LenProperties DEF TypeInv, TypeOK
<1>3. recs'[r].order = recs[r].order /\ recs'[t].order = recs[t].order
  BY <1>2
  DEF Shaped, Quits, Walks, Marks, Creates, Fails, Finishes, Closes, Refuses, Begins,
      SameRecords, Recorded, Added
<1>4. ASSUME Fails(s) \/ Finishes(s) PROVE t # loc[s].rec
  <2>1. pc[s] \in Sending
    BY <1>4 DEF Fails, Finishes, Edge, Sending
  <2>2. loc[s].rec \in DOMAIN recs /\ recs[loc[s].rec].order = loc[s].cur
    BY <2>1, Recording
  <2>3. ASSUME t = loc[s].rec PROVE FALSE
    <3>1. r <= loc[s].rec
      BY <1>1, <2>1, <2>2, <2>3 DEF KnowledgeInv, LastIsOwn
    <3>2. QED BY <1>1, <1>2, <2>3, <3>1
  <2>4. QED BY <2>3
<1>5. recs'[t].status = "timeout"
  BY <1>1, <1>2, <1>4
  DEF Shaped, Quits, Walks, Marks, Creates, Fails, Finishes, Closes, Refuses, Begins,
      SameRecords, Recorded, Added
<1>6. QED BY <1>1, <1>3, <1>5 DEF Overtaken

\* Whoever attempts an order with a sent attempt was let in by the timeout job.
LEMMA AttemptsAreOvertaken ==
    ASSUME TypeInv, KnowledgeInv, SentIsShown, NEW s \in Session, pc[s] \in Attempting,
           NEW r \in DOMAIN recs, recs[r].status = "sent", recs[r].order = loc[s].cur,
           loc[s].cur \in Apart
    PROVE  Overtaken(r)
<1>1. Cached(s).send # "success" /\ loc[s].cur \in Apart \cap Touched(s)
  BY DEF KnowledgeInv, NotSentYet, Touched, Apart
<1>2. Known(s, loc[s].cur)
  BY <1>1 DEF KnowledgeInv, OrdersKnown
<1>3. order[loc[s].cur].send # "success"
  BY <1>1, <1>2 DEF Known, Cached
<1>4. QED BY <1>3 DEF SentIsShown

\* A record says "sent" after a step only if it did before, or the step finished it.
LEMMA NewlySent ==
    ASSUME TypeInv, NEW s \in Session, Shaped(s), NEW r \in DOMAIN recs', recs'[r].status = "sent"
    PROVE  /\ r \in DOMAIN recs /\ recs'[r].order = recs[r].order
           /\ recs[r].status = "sent" \/ (Finishes(s) /\ r = loc[s].rec)
BY DEF Shaped, Quits, Walks, Marks, Creates, Fails, Finishes, Closes, Refuses, Begins,
       SameRecords, Recorded, Added

\* A step keeps SentIsShown,
LEMMA StepSentIsShown ==
    ASSUME TypeInv, AttemptInv, KnowledgeInv, SentIsShown, NEW s \in Session, Shaped(s)
    PROVE  SentIsShown'
<1> SUFFICES ASSUME NEW r \in DOMAIN recs', recs'[r].status = "sent", recs'[r].order \in Apart
             PROVE  order'[recs'[r].order].send = "success" \/ Overtaken(r)'
  BY DEF SentIsShown, Apart
<1> DEFINE o == recs[r].order
<1>1. r \in DOMAIN recs /\ recs'[r].order = o /\ o \in Apart /\ o \in Order
  BY NewlySent DEF Apart
<1>2. CASE recs[r].status = "sent"
  <2>1. order[o].send = "success" \/ Overtaken(r)
    BY <1>1, <1>2 DEF SentIsShown
  <2>2. CASE Overtaken(r)
    BY <1>1, <2>2, StaysOvertaken
  <2>3. CASE order[o].send = "success" /\ (o # loc[s].cur \/ UNCHANGED order)
    BY <1>1, <2>3, OtherOrders DEF KnowledgeInv
  <2>4. CASE o = loc[s].cur /\ pc[s] \in Attempting
    BY <1>1, <1>2, <2>2, <2>4, AttemptsAreOvertaken
  <2>5. CASE order[o].send = "success" /\ o = loc[s].cur /\ Closes(s)
    <3>1. pc[s] \in Attempting \/ pc[s] \in {"reconfirmed", "no_logistics_commit"}
      BY <2>5 DEF Closes, Attempting
    <3>2. CASE pc[s] \in {"reconfirmed", "no_logistics_commit"}
      BY <1>1, <2>5, <3>2 DEF Closes, Stores, Dirty
    <3>3. QED BY <2>4, <2>5, <3>1, <3>2
  <2>6. QED
    BY <2>1, <2>2, <2>3, <2>4, <2>5
    DEF Shaped, Quits, Walks, Marks, Creates, Fails, Finishes, Refuses, Begins, Edge, Attempting, Sending
<1>3. CASE Finishes(s) /\ r = loc[s].rec
  <2>1. o = loc[s].cur /\ Cached(s).send = "sending"
    BY <1>3, Recording DEF Finishes, KnowledgeInv, NotSentYet, Marked, Sending
  <2>2. QED BY <1>1, <1>3, <2>1 DEF Finishes, Stores, Dirty
<1>4. QED BY <1>2, <1>3, NewlySent

\* ... adds no attempt after a sent one,
LEMMA StepNoAttempt ==
    ASSUME TypeInv, AttemptInv, KnowledgeInv, SentIsShown, NoAttemptAfterSent, NEW s \in Session, Shaped(s)
    PROVE  NoAttemptAfterSent'
<1> SUFFICES ASSUME NEW r \in DOMAIN recs', NEW q \in DOMAIN recs', recs'[r].status = "sent",
                    recs'[r].order = recs'[q].order, recs'[r].order \notin Overlapping
             PROVE  q <= r \/ Overtaken(r)'
  BY DEF NoAttemptAfterSent
<1>1. r \in DOMAIN recs /\ recs'[r].order = recs[r].order
  BY NewlySent
<1>2. recs[r].order \in Apart
  <2>1. recs[r] \in Record
    BY <1>1, LenProperties, ElementOfSeq DEF TypeInv, TypeOK
  <2>2. recs[r].order \in Order
    BY <2>1 DEF Record
  <2>3. QED BY <1>1, <2>2 DEF Apart
<1>3. CASE recs[r].status = "sent" /\ q \in DOMAIN recs
  <2>1. recs'[q].order = recs[q].order
    BY <1>3
    DEF Shaped, Quits, Walks, Marks, Creates, Fails, Finishes, Closes, Refuses, Begins,
        SameRecords, Recorded, Added
  <2>2. q <= r \/ Overtaken(r)
    BY <1>1, <1>3, <2>1 DEF NoAttemptAfterSent
  <2>3. QED BY <1>1, <1>2, <2>2, StaysOvertaken
<1>4. CASE recs[r].status = "sent" /\ q \notin DOMAIN recs
  <2>1. pc[s] \in Attempting /\ recs'[q].order = loc[s].cur
    BY <1>4
    DEF Shaped, Quits, Walks, Marks, Creates, Fails, Finishes, Closes, Refuses, Begins,
        SameRecords, Recorded, Added, Edge, Attempting, Sending
  <2>2. Overtaken(r)
    BY <1>1, <1>2, <1>4, <2>1, AttemptsAreOvertaken
  <2>3. QED BY <1>1, <1>2, <2>2, StaysOvertaken
<1>5. CASE Finishes(s) /\ r = loc[s].rec
  <2>1. q \in DOMAIN recs /\ recs'[q].order = recs[q].order /\ recs[r].order = loc[s].cur
    BY <1>5, Recording DEF Finishes, Recorded, Sending
  <2>2. q <= r
    BY <1>1, <1>2, <1>5, <2>1 DEF Finishes, KnowledgeInv, LastIsOwn, Sending
  <2>3. QED BY <2>2
<1>6. QED BY <1>3, <1>4, <1>5, NewlySent

\* ... and keeps SweepOvertakes.
LEMMA StepSweepOvertakes ==
    ASSUME TypeInv, AttemptInv, KnowledgeInv, SweepInv, SentInv, NEW s \in Session, Shaped(s)
    PROVE  SweepFits' /\ SweepOvertakes'
<1>1. UNCHANGED sweep /\ Apart' = Apart
  BY DEF Shaped, Apart
<1>2. \A r \in DOMAIN recs : r \in DOMAIN recs' /\ recs'[r].order = recs[r].order
  BY DEF Shaped, Quits, Walks, Marks, Creates, Fails, Finishes, Closes, Refuses, Begins,
         SameRecords, Recorded, Added
<1>3. SweepFits'
  BY <1>1, <1>2 DEF SentInv, SweepFits
<1>4. ASSUME NEW o \in Apart \cap sweep.orders, NEW r \in DOMAIN recs' \ sweep.recs,
             recs'[r].order = o, recs'[r].status = "sent"
      PROVE  \/ Overtaken(r)'
             \/ SlowDelivery /\ \E t \in sweep.recs : t < r /\ recs'[t].order = o
  <2>1. r \in DOMAIN recs /\ recs[r].order = o
    BY <1>4, NewlySent
  <2>2. CASE recs[r].status = "sent"
    <3>1. Overtaken(r) \/ (SlowDelivery /\ \E t \in sweep.recs : t < r /\ recs[t].order = o)
      BY <1>4, <2>1, <2>2 DEF SentInv, SweepOvertakes
    <3>2. CASE Overtaken(r)
      BY <1>4, <2>1, <3>2, StaysOvertaken
    <3>3. CASE SlowDelivery /\ \E t \in sweep.recs : t < r /\ recs[t].order = o
      BY <1>2, <3>3 DEF SentInv, SweepFits
    <3>4. QED BY <3>1, <3>2, <3>3
  <2>3. CASE Finishes(s) /\ r = loc[s].rec
    <3>1. loc[s].cur = o /\ pc[s] \in Sending
      BY <2>1, <2>3, Recording DEF Finishes, Sending
    <3>2. SlowDelivery
      BY <1>4, <3>1 DEF SweepInv, SweepFinds, LeftAlone, Attempting
    <3>3. PICK t \in sweep.recs : recs[t].order = o
      BY <1>4 DEF SentInv, SweepFits
    <3>4. t \in DOMAIN recs
      BY <3>3 DEF SentInv, SweepFits
    <3>5. t <= r
      BY <1>4, <2>3, <3>1, <3>3, <3>4 DEF KnowledgeInv, LastIsOwn
    <3>6. t # r /\ t \in Nat /\ r \in Nat
      BY <1>4, <2>1, <3>3, <3>4, LenProperties DEF TypeInv, TypeOK
    <3>7. QED BY <1>2, <3>2, <3>3, <3>4, <3>5, <3>6
  <2>4. QED BY <1>4, <2>2, <2>3, NewlySent
<1>5. SweepOvertakes'
  BY <1>1, <1>4 DEF SweepOvertakes
<1>6. QED BY <1>3, <1>5

\* The timeout job, cancellations and crashes keep SentInv.
LEMMA OthersSent ==
    ASSUME TypeInv, SentInv,
           \/ SweepRead \/ SweepWrite \/ Crash \/ UNCHANGED vars
           \/ \E o \in Order : BuyerCancels(o)
    PROVE  SentInv'
<1>0. Apart' = Apart /\ Apart \subseteq Order
  BY DEF Apart
<1>1. ASSUME UNCHANGED recs, \A o \in Order : order'[o].send = order[o].send
      PROVE  NoAttemptAfterSent' /\ SentIsShown' /\ \A r \in DOMAIN recs : Overtaken(r)' = Overtaken(r)
  <2>1. \A r \in DOMAIN recs : Overtaken(r)' = Overtaken(r)
    BY <1>1 DEF Overtaken
  <2>2. QED BY <1>0, <1>1, <2>1 DEF SentInv, NoAttemptAfterSent, SentIsShown
<1>2. ASSUME UNCHANGED <<recs, sweep>>, \A o \in Order : order'[o].send = order[o].send
      PROVE  SentInv'
  BY <1>0, <1>1, <1>2 DEF SentInv, SweepFits, SweepOvertakes
<1>3. CASE SweepRead
  <2>1. NoAttemptAfterSent' /\ SentIsShown' /\ UNCHANGED recs
        /\ \A r \in DOMAIN recs : Overtaken(r)' = Overtaken(r)
    BY <1>1, <1>3, SweepReadEffect
  <2>2. SweepFits'
    BY <1>3, <2>1, SweepReadEffect DEF SweepFits
  <2>3. \A o \in sweep'.orders : order[o].send = "sending"
    BY <1>3, SweepReadEffect
  <2>4. SweepOvertakes'
    BY <1>0, <2>1, <2>3 DEF SweepOvertakes, SentInv, SentIsShown
  <2>5. QED BY <2>1, <2>2, <2>4 DEF SentInv
<1>4. CASE SweepWrite
  <2>1. /\ DOMAIN recs' = DOMAIN recs /\ sweep'.recs = {} /\ sweep'.orders = {}
        /\ \A r \in DOMAIN recs :
             /\ recs'[r].order = recs[r].order
             /\ recs'[r].status = IF r \in sweep.recs THEN "timeout" ELSE recs[r].status
        /\ \A o \in Order : order'[o].send = IF o \in sweep.orders THEN "timeout" ELSE order[o].send
    BY <1>4, SweepWriteEffect
  <2>2. Len(recs) \in Nat /\ DOMAIN recs = 1..Len(recs)
    BY LenProperties DEF TypeInv, TypeOK
  <2>3. ASSUME NEW r \in DOMAIN recs, Overtaken(r) PROVE Overtaken(r)'
    BY <2>1, <2>2, <2>3 DEF Overtaken
  <2>4. NoAttemptAfterSent'
    BY <2>1, <2>3 DEF SentInv, NoAttemptAfterSent
  <2>5. ASSUME NEW r \in DOMAIN recs, recs'[r].status = "sent", recs[r].order \in Apart
        PROVE  order'[recs[r].order].send = "success" \/ Overtaken(r)'
    <3>1. r \notin sweep.recs /\ recs[r].status = "sent"
      BY <2>1, <2>5
    <3>2. CASE recs[r].order \in sweep.orders
      <4>1. CASE Overtaken(r)
        BY <2>3, <4>1
      <4>2. CASE SlowDelivery /\ \E t \in sweep.recs : t < r /\ recs[t].order = recs[r].order
        <5>1. PICK t \in sweep.recs : t < r /\ recs[t].order = recs[r].order
          BY <4>2
        <5>2. t \in DOMAIN recs /\ t \in 1..(r - 1)
          BY <2>2, <5>1 DEF SentInv, SweepFits
        <5>3. QED BY <2>1, <4>2, <5>1, <5>2 DEF Overtaken
      <4>3. QED BY <2>5, <3>1, <3>2, <4>1, <4>2 DEF SentInv, SweepOvertakes
    <3>3. CASE recs[r].order \notin sweep.orders
      BY <1>0, <2>1, <2>3, <2>5, <3>1, <3>3 DEF SentInv, SentIsShown
    <3>4. QED BY <3>2, <3>3
  <2>6. SentIsShown'
    BY <1>0, <2>1, <2>5 DEF SentIsShown
  <2>7. SweepFits' /\ SweepOvertakes'
    BY <2>1 DEF SweepFits, SweepOvertakes
  <2>8. QED BY <2>4, <2>6, <2>7 DEF SentInv
<1>5. CASE Crash
  BY <1>2, <1>5, CrashEffect
<1>6. CASE UNCHANGED vars
  BY <1>2, <1>6 DEF vars
<1>7. CASE \E o \in Order : BuyerCancels(o)
  BY <1>2, <1>7, CancelEffect
<1>8. QED BY <1>3, <1>4, <1>5, <1>6, <1>7

LedgerInv == TypeInv /\ AttemptInv /\ KnowledgeInv /\ SweepInv /\ SentInv

\* The invariant holds at the start.
LEMMA InitLedger == Init => LedgerInv
<1> SUFFICES ASSUME Init PROVE LedgerInv
  OBVIOUS
<1>1. recs = <<>> /\ sweep = [recs |-> {}, orders |-> {}] /\ DOMAIN recs = {}
  BY DEF Init
<1>2. \A s \in Session : loc[s].cur = NoOrder /\ loc[s].todo = {}
  BY DEF Init, Fresh
<1>3. \A s \in Session : Touched(s) = {}
  BY <1>2, OrderAssumption DEF Touched
<1>4. SweepInv
  BY <1>1, <1>3 DEF SweepInv, LeftBehind, SweepFinds
<1>5. SentInv
  BY <1>1 DEF SentInv, NoAttemptAfterSent, SentIsShown, SweepFits, SweepOvertakes
<1>6. QED BY <1>4, <1>5, InitType, InitAttempt, InitKnowledge DEF LedgerInv

\* A step of the system is a session's or one of the others.
LEMMA NextShape ==
    ASSUME TypeInv, AttemptInv, [Next]_vars
    PROVE  \/ \E s \in Session : Shaped(s)
           \/ SweepRead \/ SweepWrite \/ Crash \/ UNCHANGED vars
           \/ \E o \in Order : BuyerCancels(o)
BY StepShape, RequestShape DEF Next, Rest

\* Every step keeps the invariant.
LEMMA NextLedger == LedgerInv /\ [Next]_vars => LedgerInv'
<1> SUFFICES ASSUME LedgerInv, [Next]_vars PROVE LedgerInv'
  OBVIOUS
<1>1. TypeInv /\ AttemptInv /\ KnowledgeInv /\ SweepInv /\ SentInv
  BY DEF LedgerInv
<1>2. TypeInv' /\ AttemptInv'
  BY <1>1, StepType, NextAttempt
<1>3. ASSUME NEW s \in Session, Shaped(s) PROVE KnowledgeInv' /\ SweepInv' /\ SentInv'
  <2>1. KnowledgeInv' /\ SweepInv'
    BY <1>1, <1>3, StepKnowledge, StepQuietSweep
  <2>2. SentInv'
    BY <1>1, <1>3, StepSentIsShown, StepNoAttempt, StepSweepOvertakes DEF SentInv
  <2>3. QED BY <2>1, <2>2
<1>4. ASSUME \/ SweepRead \/ SweepWrite \/ Crash \/ UNCHANGED vars
             \/ \E o \in Order : BuyerCancels(o)
      PROVE  KnowledgeInv' /\ SweepInv' /\ SentInv'
  BY <1>1, <1>4, OthersKeepKnowledge, OthersQuietSweep, OthersSent
<1>5. QED BY <1>1, <1>2, <1>3, <1>4, NextShape DEF LedgerInv

\* What holds of every state: the sessions' knowledge of their orders, what the timeout
\* job is about to mark, and where an attempt recorded as sent shows.
THEOREM LedgerHolds == Spec => []LedgerInv
BY InitLedger, NextLedger, PTL DEF Spec

\* Once an attempt is recorded as sent its order gets no further one, for any number of
\* sessions, orders, requests, crashes, cancellations and failing sends.
THEOREM SentIsFinal == Spec => []NoAttemptAfterSent
<1>1. LedgerInv => NoAttemptAfterSent
  BY DEF LedgerInv, SentInv
<1>2. QED BY <1>1, LedgerHolds, PTL

-----------------------------------------------------------------------------
(* A failed delivery can be tried again.                                   *)

\* Without crashes and slow deliveries the timeout job finds nothing to mark.
NothingTimesOut ==
    ~SlowDelivery /\ crashes = 0 =>
        /\ sweep.recs = {}
        /\ \A r \in DOMAIN recs : recs[r].status = "sending" => Owned(r)
        /\ \A o \in Order : order[o].send # "timeout"

\* What is shipped is delivered; what failed is not the row of an unknown order.
RowGood(row) == row.status = "shipped" => row.send = "success"
OrderGood(o) == RowGood(order[o]) /\ (order[o].send = "failed" => order[o].status # "absent")
SessionGood(s) ==
    /\ \A o \in Apart \cap Touched(s) :
          RowGood(loc[s].cache[o]) /\ (loc[s].cache[o].status = "absent" => loc[s].kind = "live")
    /\ pc[s] # "confirm_first"
    /\ loc[s].cur \in Apart =>
          /\ pc[s] = "locked" =>
               loc[s].pend # "absent" /\ (loc[s].pend = "shipped" => Cached(s).send = "success")
          /\ pc[s] \in Attempting \ {"finish"} => loc[s].pend \notin {"absent", "shipped"}
FailuresOpen ==
    ~ConfirmsFirst /\ ~SlowDelivery /\ crashes = 0 =>
        /\ \A o \in Apart : OrderGood(o)
        /\ \A s \in Session : SessionGood(s)

RetryInv == NothingTimesOut /\ FailuresOpen

\* A step keeps NothingTimesOut,
LEMMA StepTimesOut ==
    ASSUME TypeInv, AttemptInv, NothingTimesOut, NEW s \in Session, Shaped(s)
    PROVE  NothingTimesOut'
<1> SUFFICES ASSUME ~SlowDelivery, crashes' = 0
             PROVE  /\ sweep'.recs = {}
                    /\ \A r \in DOMAIN recs' : recs'[r].status = "sending" => Owned(r)'
                    /\ \A o \in Order : order'[o].send # "timeout"
  BY DEF NothingTimesOut
<1>1. /\ UNCHANGED <<sweep, crashes>>
      /\ sweep.recs = {}
      /\ \A r \in DOMAIN recs : recs[r].status = "sending" => Owned(r)
      /\ \A o \in Order : order[o].send # "timeout"
  BY DEF Shaped, NothingTimesOut
<1>2. \A r \in DOMAIN recs' : recs'[r].status = "sending" => Owned(r)'
  BY <1>1, StaysOwned
<1>3. ASSUME NEW o \in Order PROVE order'[o].send # "timeout"
  BY <1>1
  DEF Shaped, Quits, Walks, Marks, Creates, Fails, Finishes, Closes, Refuses, Begins, Stores, Dirty
<1>4. QED BY <1>1, <1>2, <1>3

\* Where a session stores a status that is neither, the order's is neither.
LEMMA StoredStatus ==
    ASSUME TypeInv, KnowledgeInv, NEW s \in Session, NEW st, Stores(s, st), loc[s].cur \in Apart,
           loc[s].pend \notin {"absent", "shipped"}
    PROVE  order'[loc[s].cur].status \notin {"absent", "shipped"}
<1>1. loc[s].cur \in Apart \cap Touched(s)
  BY DEF Touched, Apart
<1>2. order[loc[s].cur].status \in {Cached(s).status, "cancelled"}
  BY <1>1 DEF KnowledgeInv, OrdersKnown, Known, Cached
<1>3. QED BY <1>2 DEF Stores, Dirty

\* ... and keeps FailuresOpen.
LEMMA StepFailuresOpen ==
    ASSUME TypeInv, AttemptInv, KnowledgeInv, RetryInv, NEW s \in Session, Shaped(s)
    PROVE  FailuresOpen'
<1> SUFFICES ASSUME ~ConfirmsFirst', ~SlowDelivery, crashes' = 0
             PROVE  /\ \A o \in Apart : OrderGood(o)'
                    /\ \A t \in Session : SessionGood(t)'
  BY DEF FailuresOpen, Apart
<1>0. ~ConfirmsFirst /\ crashes = 0 /\ Apart' = Apart
  BY DEF Shaped, ConfirmsFirst, Apart
<1>1. /\ \A o \in Apart : OrderGood(o)
      /\ \A t \in Session : SessionGood(t)
      /\ \A o \in Order : order[o].send # "timeout"
  BY <1>0 DEF RetryInv, FailuresOpen, NothingTimesOut
<1>2. ASSUME NEW o \in Apart PROVE OrderGood(o)'
  <2>1. o \in Order
    BY DEF Apart
  <2>2. CASE order'[o] = order[o]
    BY <1>1, <2>2 DEF OrderGood, RowGood
  <2>3. CASE o = loc[s].cur
    <3>1. o \in Touched(s) /\ order[o].send = Cached(s).send
      BY <1>1, <2>1, <2>3 DEF Touched, KnowledgeInv, OrdersKnown, Known, Cached
    <3>2. ASSUME NEW st, Stores(s, st), pc[s] \in Attempting \ {"finish"} PROVE OrderGood(o)'
      <4>1. loc[s].pend \notin {"absent", "shipped"}
        BY <1>1, <2>3, <3>2 DEF SessionGood
      <4>2. QED BY <2>3, <3>2, <4>1, StoredStatus DEF OrderGood, RowGood
    <3>3. CASE Marks(s)
      BY <3>2, <3>3 DEF Marks, Edge, Attempting
    <3>4. CASE Refuses(s)
      BY <3>2, <3>4 DEF Refuses, Attempting
    <3>5. CASE Closes(s) /\ pc[s] = "fail_order"
      BY <3>2, <3>5 DEF Closes, Attempting
    <3>6. CASE Finishes(s)
      BY <2>3, <3>1, <3>6 DEF Finishes, Stores, Dirty, OrderGood, RowGood
    <3>7. CASE Closes(s) /\ pc[s] \in {"reconfirmed", "no_logistics_commit"}
      <4>1. pc[s] = "reconfirmed" => Cached(s).send = "success"
        BY DEF KnowledgeInv, NotSentYet
      <4>2. order'[o].send = "success"
        BY <2>3, <3>1, <3>7, <4>1 DEF Closes, Stores, Dirty
      <4>3. QED BY <4>2 DEF OrderGood, RowGood
    <3>8. Closes(s) => pc[s] \in {"fail_order", "reconfirmed", "no_logistics_commit"}
      BY DEF Closes
    <3>9. QED
      BY <2>2, <3>3, <3>4, <3>5, <3>6, <3>7, <3>8
      DEF Shaped, Quits, Walks, Creates, Fails, Begins
  <2>4. QED BY <2>1, <2>2, <2>3, OtherOrders DEF KnowledgeInv
<1>3. ASSUME NEW t \in Session \ {s} PROVE SessionGood(t)'
  <2>1. Touched(t)' = Touched(t) /\ loc'[t] = loc[t] /\ pc'[t] = pc[t]
    BY StepTouches DEF Shaped, Others, KnowledgeInv
  <2>2. SessionGood(t)
    BY <1>1
  <2>3. QED BY <1>0, <2>1, <2>2 DEF SessionGood, Cached, RowGood
<1>4. SessionGood(s)'
  <2>0. SessionGood(s)
    BY <1>1
  <2>1. CASE Gone(s)
    <3>1. ASSUME NEW o \in Apart \cap Touched(s)'
          PROVE  /\ loc'[s].cache[o] = loc[s].cache[o] /\ loc'[s].kind = loc[s].kind
                 /\ o \in Apart \cap Touched(s)
      BY <2>1, <3>1 DEF Gone, Touched, Apart, KnowledgeInv, OnItsOwn
    <3>2. pc'[s] \notin Attempting /\ pc'[s] # "locked" /\ pc'[s] # "confirm_first"
      BY <2>1 DEF Gone, Attempting, Sending
    <3>3. QED BY <1>0, <2>0, <3>1, <3>2 DEF SessionGood
  <2>2. CASE Walks(s) \/ Creates(s) \/ Fails(s)
    <3>1. /\ loc'[s].cache = loc[s].cache /\ loc'[s].cur = loc[s].cur /\ loc'[s].kind = loc[s].kind
          /\ Touched(s)' = Touched(s) /\ Cached(s)' = Cached(s)
      BY <2>2 DEF Walks, Creates, Fails, Keeps, Touched, Cached
    <3>2. pc'[s] # "confirm_first"
      BY <1>0, <2>2 DEF Walks, Creates, Fails, Edge
    <3>3. ASSUME loc[s].cur \in Apart, pc'[s] = "locked"
          PROVE  loc'[s].pend # "absent" /\ (loc'[s].pend = "shipped" => Cached(s).send = "success")
      <4>1. loc[s].cur \in Apart \cap Touched(s)
        BY <3>3 DEF Touched, Apart
      <4>2. RowGood(Cached(s)) /\ (Cached(s).status = "absent" => loc[s].kind = "live")
        BY <2>0, <4>1 DEF SessionGood, Cached
      <4>3. loc'[s].pend = IF /\ loc[s].kind = "live"
                              /\ Cached(s).status \in {"absent", "unknown", "pending_payment"}
                           THEN "pending_ship" ELSE Cached(s).status
        BY <2>2, <3>3 DEF Walks, Creates, Fails, Edge
      <4>4. QED BY <4>2, <4>3 DEF RowGood
    <3>4. ASSUME loc[s].cur \in Apart, pc'[s] \in Attempting \ {"finish"}
          PROVE  loc'[s].pend \notin {"absent", "shipped"}
      BY <2>0, <2>2, <3>4 DEF SessionGood, Walks, Creates, Fails, Edge, Attempting, Sending
    <3>5. QED BY <1>0, <2>0, <3>1, <3>2, <3>3, <3>4 DEF SessionGood
  <2>3. CASE Marks(s)
    <3>1. /\ pc[s] = "mark" /\ pc'[s] = "content" /\ loc'[s].cur = loc[s].cur
          /\ loc'[s].kind = loc[s].kind /\ loc'[s].pend = loc[s].pend /\ Touched(s)' = Touched(s)
      BY <2>3 DEF Marks, Edge, Touched
    <3>2. loc[s].cur \in Apart => loc[s].pend \notin {"absent", "shipped"}
      BY <2>0, <3>1 DEF SessionGood, Attempting
    <3>3. ASSUME NEW o \in Apart \cap Touched(s)
          PROVE  RowGood(loc'[s].cache[o]) /\ (loc'[s].cache[o].status = "absent" => loc[s].kind = "live")
      <4>1. CASE o = loc[s].cur
        BY <2>3, <3>2, <4>1 DEF Marks, RowGood
      <4>2. CASE o # loc[s].cur
        BY <2>0, <2>3, <4>2 DEF Marks, SessionGood, Apart
      <4>3. QED BY <4>1, <4>2
    <3>4. QED BY <1>0, <3>1, <3>2, <3>3 DEF SessionGood
  <2>4. CASE Begins(s)
    <3>1. ASSUME NEW o \in Apart \cap Touched(s)'
          PROVE  RowGood(loc'[s].cache[o]) /\ (loc'[s].cache[o].status = "absent" => loc'[s].kind = "live")
      BY <1>1, <2>4, <3>1 DEF Begins, Touched, OrderGood
    <3>2. pc'[s] \notin Attempting /\ pc'[s] # "locked" /\ pc'[s] # "confirm_first"
      BY <2>4 DEF Begins, Attempting, Sending
    <3>3. QED BY <1>0, <3>1, <3>2 DEF SessionGood
  <2>5. QED
    BY <2>1, <2>2, <2>3, <2>4 DEF Shaped, Quits, Finishes, Closes, Refuses
<1>5. QED BY <1>2, <1>3, <1>4

\* The timeout job, cancellations and crashes keep RetryInv.
LEMMA OthersRetry ==
    ASSUME TypeInv, RetryInv,
           \/ SweepRead \/ SweepWrite \/ Crash \/ UNCHANGED vars
           \/ \E o \in Order : BuyerCancels(o)
    PROVE  RetryInv'
<1>0. Apart' = Apart /\ Apart \subseteq Order
  BY DEF Apart
<1>1. ASSUME UNCHANGED <<recs, pc, loc, settings, sweep, crashes>>,
             \A o \in Order : /\ order'[o].send = order[o].send
                              /\ order'[o].status \in {order[o].status, "cancelled"}
      PROVE  RetryInv'
  <2>1. NothingTimesOut'
    BY <1>1 DEF RetryInv, NothingTimesOut, Owned
  <2>2. \A s \in Session : Touched(s)' = Touched(s) /\ Cached(s)' = Cached(s)
    BY <1>1 DEF Touched, Cached
  <2>3. \A s \in Session : SessionGood(s) => SessionGood(s)'
    BY <1>0, <1>1, <2>2 DEF SessionGood, RowGood
  <2>4. \A o \in Apart : OrderGood(o) => OrderGood(o)'
    BY <1>0, <1>1 DEF OrderGood, RowGood
  <2>5. ConfirmsFirst' = ConfirmsFirst
    BY <1>1 DEF ConfirmsFirst
  <2>6. FailuresOpen'
    BY <1>0, <1>1, <2>3, <2>4, <2>5 DEF RetryInv, FailuresOpen
  <2>7. QED BY <2>1, <2>6 DEF RetryInv
<1>2. CASE SweepRead
  <2>1. SlowDelivery \/ crashes # 0
    <3>1. PICK r \in sweep'.recs : TRUE
      BY <1>2, SweepReadEffect
    <3>2. /\ r \in DOMAIN recs /\ recs[r].status = "sending"
          /\ SlowDelivery \/ \A s \in Session : loc[s].rec # r
      BY <1>2, SweepReadEffect
    <3>3. QED BY <3>2 DEF RetryInv, NothingTimesOut, Owned
  <2>2. UNCHANGED crashes
    BY <1>2, SweepReadEffect
  <2>3. QED BY <2>1, <2>2 DEF RetryInv, NothingTimesOut, FailuresOpen
<1>3. CASE SweepWrite
  <2>1. sweep.recs # {} /\ UNCHANGED crashes
    BY <1>3, SweepWriteEffect
  <2>2. SlowDelivery \/ crashes # 0
    BY <2>1 DEF RetryInv, NothingTimesOut
  <2>3. QED BY <2>1, <2>2 DEF RetryInv, NothingTimesOut, FailuresOpen
<1>4. CASE Crash
  <2>1. crashes' # 0
    BY <1>4, CrashEffect
  <2>2. QED BY <2>1 DEF RetryInv, NothingTimesOut, FailuresOpen
<1>5. CASE UNCHANGED vars
  BY <1>1, <1>5 DEF vars
<1>6. CASE \E o \in Order : BuyerCancels(o)
  BY <1>1, <1>6, CancelEffect
<1>7. QED BY <1>2, <1>3, <1>4, <1>5, <1>6

\* It holds at the start.
LEMMA InitRetry == Init => RetryInv
<1> SUFFICES ASSUME Init PROVE RetryInv
  OBVIOUS
<1>1. recs = <<>> /\ sweep = [recs |-> {}, orders |-> {}] /\ DOMAIN recs = {}
  BY DEF Init
<1>2. ASSUME NEW o \in Order PROVE order[o].send = "none" /\ order[o].status \in InitStatuses
  <2>1. order[o] \in {[status |-> st, send |-> "none", cardOnly |-> FALSE, content |-> "none"] :
                        st \in InitStatuses}
    BY <1>2 DEF Init
  <2>2. QED BY <2>1
<1>3. \A s \in Session : pc[s] = "idle" /\ loc[s].cur = NoOrder /\ loc[s].todo = {}
  BY DEF Init, Fresh
<1>4. \A s \in Session : Touched(s) = {}
  BY <1>3, OrderAssumption DEF Touched
<1>5. NothingTimesOut
  BY <1>1, <1>2 DEF NothingTimesOut
<1>6. \A o \in Apart : OrderGood(o)
  BY <1>2, StatusAssumption DEF OrderGood, RowGood, Apart
<1>7. \A s \in Session : SessionGood(s)
  BY <1>3, <1>4, OrderAssumption DEF SessionGood, Attempting, Sending
<1>8. QED BY <1>5, <1>6, <1>7 DEF RetryInv, FailuresOpen

\* Every step keeps it.
LEMMA NextRetry == LedgerInv /\ RetryInv /\ [Next]_vars => RetryInv'
<1> SUFFICES ASSUME LedgerInv, RetryInv, [Next]_vars PROVE RetryInv'
  OBVIOUS
<1>1. TypeInv /\ AttemptInv /\ KnowledgeInv
  BY DEF LedgerInv
<1>2. ASSUME NEW s \in Session, Shaped(s) PROVE RetryInv'
  BY <1>1, <1>2, StepTimesOut, StepFailuresOpen DEF RetryInv
<1>3. ASSUME \/ SweepRead \/ SweepWrite \/ Crash \/ UNCHANGED vars
             \/ \E o \in Order : BuyerCancels(o)
      PROVE  RetryInv'
  BY <1>1, <1>3, OthersRetry
<1>4. QED BY <1>1, <1>2, <1>3, NextShape

\* It holds always.
LEMMA RetryHolds == Spec => [](LedgerInv /\ RetryInv)
<1>1. Init => LedgerInv /\ RetryInv
  BY InitLedger, InitRetry
<1>2. LedgerInv /\ RetryInv /\ [Next]_vars => (LedgerInv /\ RetryInv)'
  BY NextLedger, NextRetry
<1>3. QED BY <1>1, <1>2, PTL DEF Spec

\* A delivery that failed leaves an order that can be delivered later, unless the account
\* confirms before it sends: never one that is shipped, or one that was never stored.
THEOREM FailureIsOpen == Spec => []FailedIsRetriable
<1>1. LedgerInv /\ RetryInv => FailedIsRetriable
  <2> SUFFICES ASSUME LedgerInv, RetryInv, ~ConfirmsFirst, ~SlowDelivery, crashes = 0,
                      NEW o \in Order \ Overlapping, order[o].send = "failed",
                      order[o].status # "cancelled"
               PROVE  order[o].status \in ELIGIBLE_ORDER_STATUSES \cup {"unknown"}
    BY DEF FailedIsRetriable
  <2>1. OrderGood(o)
    BY DEF RetryInv, FailuresOpen, Apart
  <2>2. order[o].status \in Statuses
    BY DEF LedgerInv, TypeInv, TypeOK, Row
  <2>3. QED BY <2>1, <2>2 DEF OrderGood, RowGood, Statuses, ELIGIBLE_ORDER_STATUSES
<1>2. QED BY <1>1, RetryHolds, PTL

-----------------------------------------------------------------------------
(* The stock, while one session works at a time: two deliveries at once do  *)
(* sell a line twice (Finding_line_sold_twice).                            *)

OneAtATime == \A s, t \in Session : s = t

LinesOf(q) == {q[i] : i \in DOMAIN q}
LinesDiffer(q) == \A i, j \in DOMAIN q : q[i] = q[j] => i = j

\* The lines taken from the front and the lines left.
LEMMA SplitLines ==
    ASSUME NEW q \in Seq(Line), NEW n \in 0..Len(q)
    PROVE  LET a == SubSeq(q, 1, n)
               b == SubSeq(q, n + 1, Len(q))
           IN  /\ a \in Seq(Line) /\ b \in Seq(Line)
               /\ LinesOf(q) = LinesOf(a) \cup LinesOf(b)
               /\ LinesDiffer(q) => LinesDiffer(a) /\ LinesDiffer(b) /\ LinesOf(a) \cap LinesOf(b) = {}
<1> DEFINE a == SubSeq(q, 1, n)
           b == SubSeq(q, n + 1, Len(q))
<1>1. Len(q) \in Nat /\ DOMAIN q = 1..Len(q) /\ n \in Nat
  BY LenProperties
<1>2. a \in Seq(Line) /\ Len(a) = n /\ DOMAIN a = 1..n /\ \A i \in 1..n : a[i] = q[i]
  BY <1>1
<1>3. /\ b \in Seq(Line) /\ Len(b) = Len(q) - n /\ DOMAIN b = 1..(Len(q) - n)
      /\ \A i \in 1..(Len(q) - n) : b[i] = q[n + i]
  <2>1. \A i \in (n + 1)..Len(q) : q[i] \in Line
    BY <1>1
  <2>2. /\ b \in Seq(Line) /\ Len(b) = IF n + 1 <= Len(q) THEN Len(q) - (n + 1) + 1 ELSE 0
        /\ \A i \in 1..(Len(q) - (n + 1) + 1) : b[i] = q[(n + 1) + i - 1]
    <3>1. n + 1 \in Int /\ Len(q) \in Int
      BY <1>1
    <3>2. QED BY ONLY <2>1, <3>1, SubSeqProperties DEF b
  <2> HIDE DEF b
  <2>3. Len(b) = Len(q) - n
    <3>1. Len(b) = IF n + 1 <= Len(q) THEN Len(q) - (n + 1) + 1 ELSE 0
      BY <2>2
    <3>2. Len(q) \in Nat /\ n \in Nat /\ n <= Len(q)
      BY <1>1
    <3>3. QED BY ONLY <3>1, <3>2
  <2>4. DOMAIN b = 1..(Len(q) - n)
    BY <2>2, <2>3, LenProperties
  <2>5. ASSUME NEW i \in 1..(Len(q) - n) PROVE b[i] = q[n + i]
    <3>1. i \in 1..(Len(q) - (n + 1) + 1) /\ (n + 1) + i - 1 = n + i
      BY <1>1, <2>5
    <3>2. QED BY <2>2, <3>1
  <2>6. QED BY <2>2, <2>3, <2>4, <2>5
<1> HIDE DEF a, b
<1>4. ASSUME NEW i \in DOMAIN q
      PROVE  \/ i \in DOMAIN a /\ a[i] = q[i]
             \/ i - n \in DOMAIN b /\ b[i - n] = q[i]
  <2>1. CASE i <= n
    BY <1>1, <1>2, <2>1
  <2>2. CASE i > n
    <3>1. i - n \in 1..(Len(q) - n) /\ n + (i - n) = i
      BY <1>1, <2>2
    <3>2. QED BY <1>3, <3>1
  <2>3. QED BY <1>1, <2>1, <2>2
<1>5. /\ \A i \in DOMAIN a : i \in DOMAIN q /\ a[i] = q[i]
      /\ \A i \in DOMAIN b : n + i \in DOMAIN q /\ b[i] = q[n + i]
  <2>1. ASSUME NEW i \in DOMAIN a PROVE i \in DOMAIN q
    BY <1>1, <1>2
  <2>2. ASSUME NEW i \in DOMAIN b PROVE n + i \in DOMAIN q
    BY <1>1, <1>3
  <2>3. QED BY <1>2, <1>3, <2>1, <2>2
<1>6. LinesOf(q) = LinesOf(a) \cup LinesOf(b)
  BY <1>4, <1>5 DEF LinesOf
<1>7. ASSUME LinesDiffer(q)
      PROVE  LinesDiffer(a) /\ LinesDiffer(b) /\ LinesOf(a) \cap LinesOf(b) = {}
  <2>1. LinesDiffer(a)
    BY <1>5, <1>7 DEF LinesDiffer
  <2>2. LinesDiffer(b)
    BY <1>1, <1>3, <1>5, <1>7 DEF LinesDiffer
  <2>3. \A i \in DOMAIN a, j \in DOMAIN b : a[i] # b[j]
    BY <1>1, <1>2, <1>3, <1>5, <1>7 DEF LinesDiffer
  <2>4. QED BY <2>1, <2>2, <2>3 DEF LinesOf
<1>8. QED BY <1>2, <1>3, <1>6, <1>7 DEF a, b

\* Lines put back in front.
LEMMA JoinLines ==
    ASSUME NEW a \in Seq(Line), NEW b \in Seq(Line)
    PROVE  /\ LinesOf(a \o b) = LinesOf(a) \cup LinesOf(b)
           /\ LinesDiffer(a) /\ LinesDiffer(b) /\ LinesOf(a) \cap LinesOf(b) = {} => LinesDiffer(a \o b)
<1> DEFINE q == a \o b
<1>1. /\ Len(a) \in Nat /\ DOMAIN a = 1..Len(a) /\ Len(b) \in Nat /\ DOMAIN b = 1..Len(b)
  BY LenProperties
<1>2. /\ DOMAIN q = 1..(Len(a) + Len(b))
      /\ \A i \in 1..(Len(a) + Len(b)) : q[i] = IF i <= Len(a) THEN a[i] ELSE b[i - Len(a)]
  BY <1>1
<1> HIDE DEF q
<1>3. \A i \in DOMAIN q : \/ i \in DOMAIN a /\ q[i] = a[i]
                          \/ i \notin DOMAIN a /\ i - Len(a) \in DOMAIN b /\ q[i] = b[i - Len(a)]
  BY <1>1, <1>2
<1>4. /\ \A i \in DOMAIN a : i \in DOMAIN q /\ q[i] = a[i]
      /\ \A i \in DOMAIN b : Len(a) + i \in DOMAIN q /\ q[Len(a) + i] = b[i]
  BY <1>1, <1>2
<1>5. LinesOf(q) = LinesOf(a) \cup LinesOf(b)
  BY <1>3, <1>4 DEF LinesOf
<1>6. ASSUME LinesDiffer(a), LinesDiffer(b), LinesOf(a) \cap LinesOf(b) = {} PROVE LinesDiffer(q)
  <2> SUFFICES ASSUME NEW i \in DOMAIN q, NEW j \in DOMAIN q, q[i] = q[j] PROVE i = j
    BY DEF LinesDiffer
  <2>1. \A k \in DOMAIN a, m \in DOMAIN b : a[k] # b[m]
    BY <1>6 DEF LinesOf
  <2>2. CASE i \in DOMAIN a
    BY <1>3, <1>6, <2>1, <2>2 DEF LinesDiffer
  <2>3. CASE i \notin DOMAIN a
    <3>1. j \notin DOMAIN a
      BY <1>3, <2>1, <2>3
    <3>2. i - Len(a) = j - Len(a)
      BY <1>3, <1>6, <2>3, <3>1 DEF LinesDiffer
    <3>3. QED BY <1>1, <1>2, <3>2
  <2>4. QED BY <2>2, <2>3
<1>7. QED BY <1>5, <1>6 DEF q

-----------------------------------------------------------------------------
(* What one session's steps do to the stock.                               *)

Stocked == {"confirm_first", "mark", "content", "record"} \cup Sending
Holding == {"record", "send", "confirm_after", "finish", "restore"}

\* The payload a session has loaded is the stored one.
CardsTrue(s) == pc[s] \in Stocked \/ loc[s].open => loc[s].cards = stock
\* Lines are held while they are reserved, and then they are its record's lines.
HeldTrue(s) ==
    /\ pc[s] \notin Holding => loc[s].held = <<>>
    /\ pc[s] \in Holding \ {"record"} => recs[loc[s].rec].lines = loc[s].held
    /\ pc[s] = "fail_record" => LinesOf(recs[loc[s].rec].lines) \subseteq LinesOf(stock)

HoldInv == \A s \in Session : CardsTrue(s) /\ HeldTrue(s)

Takes(s) ==
    /\ Edge(s, "content", "record")
    /\ \E n \in 0..Len(stock) : /\ loc'[s].held = SubSeq(stock, 1, n)
                                /\ stock' = SubSeq(stock, n + 1, Len(stock))
PutsBack(s) ==
    /\ Edge(s, "restore", "fail_record")
    /\ loc'[s].held = <<>> /\ stock' = loc[s].held \o stock
LeavesStock(s) ==
    /\ UNCHANGED stock /\ pc[s] # "restore"
    /\ loc'[s].held = loc[s].held \/ Gone(s)
Handles(s) == CardsTrue(s)' /\ (Takes(s) \/ PutsBack(s) \/ LeavesStock(s))

\* A session that leaves its order has a true payload, or none.
LEMMA LeavingCards ==
    ASSUME TypeInv, NEW s \in Session, NEW l \in Local, NEW b, Leave(s, l, b),
           l.open => l.cards = stock, UNCHANGED stock
    PROVE  CardsTrue(s)'
<1>1. ASSUME Goto(s, "idle", Fresh) PROVE CardsTrue(s)'
  <2>1. pc'[s] = "idle" /\ loc'[s] = Fresh
    BY <1>1, GotoSets
  <2>2. Fresh.open = FALSE
    BY DEF Fresh
  <2>3. QED BY <2>1, <2>2 DEF CardsTrue, Stocked, Sending
<1>2. ASSUME NEW o \in l.todo,
             Goto(s, "begin", [l EXCEPT !.cur = o, !.todo = @ \ {o}, !.pend = "absent",
                                        !.held = <<>>, !.rec = NoRecord, !.sent = 0])
      PROVE  CardsTrue(s)'
  <2> DEFINE m == [l EXCEPT !.cur = o, !.todo = @ \ {o}, !.pend = "absent",
                            !.held = <<>>, !.rec = NoRecord, !.sent = 0]
  <2>1. pc'[s] = "begin" /\ loc'[s] = m
    BY <1>2, GotoSets
  <2>2. m.open = l.open /\ m.cards = l.cards
    BY DEF Local
  <2> HIDE DEF m
  <2>3. QED BY <2>1, <2>2 DEF CardsTrue, Stocked, Sending
<1>3. QED BY <1>1, <1>2 DEF Leave

\* Every step of a session takes lines, puts them back or leaves the stock alone.
LEMMA StepHandles ==
    ASSUME TypeInv, NEW s \in Session, CardsTrue(s), HeldTrue(s), Step(s)
    PROVE  Handles(s)
<1>0. pc[s] # "idle"
  BY DEF Step, SkipDelivered, LockOrder, AlreadySent, AlreadySending, Reject, Accept,
     ConfirmFirst,
         MarkSending, Mark, ReserveContent, Reserve, CreateRecord, SendSegment, SendFails,
         ConfirmAfter, Finish, RestoreContent, Restore, FailRecord, FailOrder, CloseFailed,
         RecordFailure, Reconfirm, RecordConfirmation, CallNoLogistics, RecordNoLogistics
<1>1. /\ loc[s] \in Local /\ loc[s].cur \in Order /\ Cached(s) \in Row /\ Pending(s) \in Row
      /\ stock \in Seq(Line) /\ loc[s].cards \in Seq(Line) /\ loc[s].held \in Seq(Line)
  BY <1>0, WorkingSession DEF Local, TypeInv, TypeOK
<1>2. /\ View(loc[s]) \in Local /\ View(loc[s]).todo = loc[s].todo /\ View(loc[s]).kind = loc[s].kind
      /\ View(loc[s]).cache = loc[s].cache /\ View(loc[s]).held = loc[s].held
      /\ View(loc[s]).cards = stock
  <2>1. /\ View(loc[s]).kind = loc[s].kind /\ View(loc[s]).held = loc[s].held
        /\ View(loc[s]).cards = stock
    BY <1>1 DEF View, Local, CardsTrue
  <2>2. QED BY <1>1, <2>1, ViewType DEF TypeInv
<1>3. ASSUME NEW l, \/ \E st : l = [loc[s] EXCEPT !.pend = st]
                    \/ \E n : l = [loc[s] EXCEPT !.sent = n]
                    \/ \E n : l = [loc[s] EXCEPT !.rec = n]
      PROVE  l.held = loc[s].held /\ l.cards = loc[s].cards /\ l.open = loc[s].open
  BY <1>1, <1>3 DEF Local
\* The session goes on with what it has loaded, or after taking its snapshot.
<1>4. ASSUME NEW p, NEW l, Goto(s, p, l), UNCHANGED stock, pc[s] # "restore",
             l.held = loc[s].held, l.cards = loc[s].cards, l.open \in {loc[s].open, FALSE},
             p \in Stocked => pc[s] \in Stocked
      PROVE  Handles(s)
  <2>1. pc'[s] = p /\ loc'[s] = l
    BY <1>4, GotoSets
  <2>2. QED BY <1>4, <2>1 DEF Handles, CardsTrue, LeavesStock
<1>5. ASSUME NEW p, Goto(s, p, View(loc[s])), UNCHANGED stock, pc[s] # "restore"
      PROVE  Handles(s)
  <2>1. pc'[s] = p /\ loc'[s] = View(loc[s])
    BY <1>5, GotoSets
  <2>2. QED BY <1>2, <1>5, <2>1 DEF Handles, CardsTrue, LeavesStock
\* The session leaves its order.
<1>6. ASSUME NEW l \in Local, NEW b, Leave(s, l, b), UNCHANGED stock, pc[s] # "restore",
             l.todo = loc[s].todo, l.kind = loc[s].kind,
             \A o \in Order \ {loc[s].cur} : l.cache[o] = loc[s].cache[o],
             l.open => l.cards = stock
      PROVE  Handles(s)
  BY <1>6, Leaving, LeavingCards DEF Handles, LeavesStock
<1>7. ASSUME Leave(s, loc[s], FALSE), UNCHANGED stock, pc[s] # "restore" PROVE Handles(s)
  BY <1>1, <1>6, <1>7 DEF CardsTrue
<1>8. ASSUME Leave(s, View(loc[s]), FALSE), UNCHANGED stock, pc[s] # "restore" PROVE Handles(s)
  BY <1>2, <1>6, <1>8
<1>9. ASSUME NEW new \in Row, new.status = loc[s].pend, CommitOrder(s, new),
             Leave(s, Committed(loc[s], new), TRUE), UNCHANGED stock, pc[s] # "restore"
      PROVE  Handles(s)
  <2> DEFINE l == Committed(loc[s], new)
  <2>1. /\ l \in Local /\ l.todo = loc[s].todo /\ l.kind = loc[s].kind /\ l.open = FALSE
        /\ \A o \in Order \ {loc[s].cur} : l.cache[o] = loc[s].cache[o]
    BY <1>0, <1>9, Committing
  <2>2. Leave(s, l, TRUE)
    BY <1>9
  <2> HIDE DEF l
  <2>3. QED BY <1>6, <1>9, <2>1, <2>2
<1>10. CASE SkipDelivered(s)
  BY <1>3, <1>4, <1>7, <1>10 DEF SkipDelivered, Stocked, Sending
<1>11. CASE LockOrder(s)
  <2>1. PICK st : /\ pc[s] = "begin" /\ UNCHANGED stock
                  /\ Leave(s, loc[s], FALSE) \/ Goto(s, "locked", [loc[s] EXCEPT !.pend = st])
    BY <1>11 DEF LockOrder
  <2>2. QED BY <1>3, <1>4, <1>7, <2>1 DEF Stocked, Sending
<1>12. CASE AlreadySent(s) \/ AlreadySending(s)
  BY <1>5, <1>7, <1>8, <1>12 DEF AlreadySent, AlreadySending
<1>13. CASE Reject(s) \/ Accept(s)
  BY <1>5, <1>13 DEF Reject, Accept
<1>14. ASSUME NEW p, NEW l, l \in {loc[s], [loc[s] EXCEPT !.pend = "shipped"]}, Goto(s, p, l),
              UNCHANGED stock, pc[s] # "restore", p \in Stocked => pc[s] \in Stocked
       PROVE  Handles(s)
  <2>1. l.held = loc[s].held /\ l.cards = loc[s].cards /\ l.open = loc[s].open
    BY <1>3, <1>14
  <2>2. QED BY <1>4, <1>14, <2>1
<1>15. CASE ConfirmFirst(s) \/ ConfirmAfter(s) \/ Reconfirm(s)
  BY <1>14, <1>15 DEF ConfirmFirst, ConfirmAfter, Reconfirm, Stocked, Sending
<1>16. CASE CallNoLogistics(s)
  BY <1>7, <1>14, <1>16 DEF CallNoLogistics, Stocked, Sending
<1>17. CASE MarkSending(s)
  <2> DEFINE new == [Pending(s) EXCEPT !.send = "sending"]
             l == Committed(loc[s], new)
  <2>1. new \in Row /\ new.status = loc[s].pend
    BY <1>1 DEF Row, SendStatuses, Pending
  <2>2. /\ pc[s] = "mark" /\ CommitOrder(s, new) /\ Goto(s, "content", l) /\ UNCHANGED stock
    BY <1>17 DEF MarkSending, Mark
  <2> HIDE DEF new
  <2>3. l.held = loc[s].held /\ l.cards = loc[s].cards /\ l.open = FALSE
    BY <1>0, <2>1, <2>2, Committing
  <2> HIDE DEF l
  <2>4. QED BY <1>4, <2>2, <2>3 DEF Stocked
<1>18. CASE ReserveContent(s)
  <2> DEFINE n == Need[loc[s].cur]
             cards == loc[s].cards
             m == [loc[s] EXCEPT !.held = SubSeq(cards, 1, n), !.cards = SubSeq(cards, n + 1, Len(cards))]
  <2>1. pc[s] = "content" /\ cards = stock
    BY <1>18 DEF ReserveContent, Reserve, CardsTrue, Stocked
  <2>2. CASE \E q \in {"record", "record_failure"} : Goto(s, q, loc[s]) /\ UNCHANGED stock
    BY <1>4, <2>1, <2>2 DEF Stocked
  <2>3. CASE Goto(s, "record", m) /\ n <= Len(cards) /\ stock' = SubSeq(cards, n + 1, Len(cards))
    <3>1. m.held = SubSeq(cards, 1, n) /\ m.cards = SubSeq(cards, n + 1, Len(cards))
      BY <1>1 DEF Local
    <3>2. n \in 0..Len(cards)
      BY <1>1, <2>3, StockAssumption
    <3> HIDE DEF m, n
    <3>3. pc'[s] = "record" /\ loc'[s] = m
      BY <2>3, GotoSets
    <3>4. QED BY <2>1, <2>3, <3>1, <3>2, <3>3 DEF Handles, CardsTrue, Takes, Edge
  <2>4. QED BY <1>18, <2>2, <2>3 DEF ReserveContent, Reserve
<1>19. CASE CreateRecord(s)
  <2>1. pc[s] = "record" /\ UNCHANGED stock /\ Goto(s, "send", [loc[s] EXCEPT !.rec = Len(recs) + 1])
    BY <1>19 DEF CreateRecord
  <2>2. QED BY <1>3, <1>4, <2>1 DEF Stocked
<1>20. CASE SendSegment(s)
  <2>1. PICK p : /\ pc[s] = "send" /\ UNCHANGED stock
                 /\ Goto(s, p, [loc[s] EXCEPT !.sent = loc[s].sent + 1])
    BY <1>20 DEF SendSegment
  <2>2. QED BY <1>3, <1>4, <2>1 DEF Stocked, Sending
<1>21. CASE SendFails(s) \/ FailRecord(s)
  BY <1>14, <1>21 DEF SendFails, FailRecord, Stocked, Sending
<1>22. CASE Finish(s)
  <2> DEFINE new == [Pending(s) EXCEPT !.send = "success", !.content = "card",
                                       !.cardOnly = @ \/ OnlySendCard]
  <2>1. new \in Row /\ new.status = loc[s].pend
    BY <1>1 DEF Row, SendStatuses, Contents, OnlySendCard, Pending
  <2>2. /\ pc[s] = "finish" /\ CommitOrder(s, new) /\ Leave(s, Committed(loc[s], new), TRUE)
        /\ stock' = IF Kind = "data" THEN loc[s].cards ELSE stock
    BY <1>22 DEF Finish
  <2>3. UNCHANGED stock
    BY <2>2 DEF CardsTrue, Stocked, Sending
  <2> HIDE DEF new
  <2>4. QED BY <1>9, <2>1, <2>2, <2>3
<1>23. CASE RestoreContent(s)
  <2> DEFINE cards == loc[s].held \o loc[s].cards
             l == [loc[s] EXCEPT !.cards = cards, !.held = <<>>]
  <2>1. /\ pc[s] = "restore" /\ Goto(s, "fail_record", l)
        /\ stock' = IF loc[s].held = <<>> THEN stock ELSE cards
    BY <1>23 DEF RestoreContent, Restore
  <2>2. loc[s].cards = stock
    BY <2>1 DEF CardsTrue, Stocked, Sending
  <2>3. stock' = cards
    BY <1>1, <2>1, <2>2
  <2>4. l.cards = cards /\ l.held = <<>>
    BY <1>1 DEF Local
  <2> HIDE DEF l, cards
  <2>5. pc'[s] = "fail_record" /\ loc'[s] = l
    BY <2>1, GotoSets
  <2>6. QED BY <2>1, <2>2, <2>3, <2>4, <2>5 DEF Handles, CardsTrue, PutsBack, Edge, cards
<1>24. CASE FailOrder(s)
  <2> DEFINE new == [Pending(s) EXCEPT !.send = "failed"]
  <2>1. new \in Row /\ new.status = loc[s].pend
    BY <1>1 DEF Row, SendStatuses, Pending
  <2>2. QED BY <1>9, <1>24, <2>1 DEF FailOrder, CloseFailed
<1>25. CASE RecordFailure(s)
  <2> DEFINE new == [Pending(s) EXCEPT !.send = "failed"]
  <2>1. new \in Row /\ new.status = loc[s].pend
    BY <1>1 DEF Row, SendStatuses, Pending
  <2>2. QED BY <1>9, <1>25, <2>1 DEF RecordFailure
<1>26. CASE RecordConfirmation(s)
  <2>1. Pending(s).status = loc[s].pend
    BY <1>1 DEF Row, Pending
  <2>2. QED BY <1>1, <1>9, <1>26, <2>1 DEF RecordConfirmation
<1>27. CASE RecordNoLogistics(s)
  <2> DEFINE new == [Pending(s) EXCEPT !.send = "success", !.content = "no_logistics"]
  <2>1. new \in Row /\ new.status = loc[s].pend
    BY <1>1 DEF Row, SendStatuses, Contents, Pending
  <2>2. QED BY <1>9, <1>27, <2>1 DEF RecordNoLogistics
<1>28. QED BY <1>10, <1>11, <1>12, <1>13, <1>15, <1>16, <1>17, <1>18, <1>19, <1>20, <1>21, <1>22,
              <1>23, <1>24, <1>25, <1>26, <1>27 DEF Step

\* ... and so does every request that arrives.
LEMMA RequestHandles ==
    ASSUME TypeInv, NEW s \in Session, HeldTrue(s), Request(s)
    PROVE  Handles(s)
<1>1. ASSUME NEW k \in SourceKinds, NEW o \in Order, NEW todo, NEW p,
             Goto(s, p, Opened(k, o)) \/ Goto(s, p, [Opened(k, o) EXCEPT !.todo = todo]),
             pc[s] = "idle", UNCHANGED stock
      PROVE  Handles(s)
  <2> DEFINE m == [Fresh EXCEPT !.kind = k, !.cur = o, !.cache = order]
             l == [Opened(k, o) EXCEPT !.todo = todo]
  <2>1. m \in Local /\ m.held = <<>> /\ m.open = FALSE
    BY FreshType DEF TypeInv, TypeOK, Local, Fresh
  <2> HIDE DEF m
  <2>2. View(m) \in Local /\ View(m).cards = stock /\ View(m).held = <<>>
    BY <2>1, ViewType DEF View, Local, TypeInv
  <2>3. Opened(k, o) = View(m)
    BY DEF Opened, m
  <2>4. l.cards = stock /\ l.held = <<>>
    BY <2>2, <2>3 DEF Local
  <2>5. loc[s].held = <<>>
    BY <1>1 DEF HeldTrue, Holding
  <2>6. loc'[s].cards = stock /\ loc'[s].held = <<>>
    <3>1. CASE Goto(s, p, Opened(k, o))
      BY <2>2, <2>3, <3>1, GotoSets
    <3>2. CASE Goto(s, p, l)
      BY <2>4, <3>2, GotoSets
    <3>3. QED BY <1>1, <3>1, <3>2
  <2>7. QED BY <1>1, <2>5, <2>6 DEF Handles, CardsTrue, LeavesStock
<1>2. QED BY <1>1 DEF Request, ScanOrders, LiveEvent, ManualDelivery, NoLogistics, Arrives, SourceKinds

\* A step keeps HoldInv.
LEMMA StepHolds ==
    ASSUME TypeInv, AttemptInv, HoldInv, NEW s \in Session, Shaped(s), Handles(s), OneAtATime
    PROVE  HoldInv'
<1>1. HeldTrue(s) /\ (pc[s] \in Sending => loc[s].rec \in DOMAIN recs)
  BY DEF HoldInv, AttemptInv, SessionsOwn, OwnRecord
<1>2. (pc'[s] \notin Holding => loc'[s].held = <<>>)
  <2>1. CASE Takes(s)
    BY <2>1 DEF Takes, Edge, Holding
  <2>2. CASE PutsBack(s)
    BY <2>2 DEF PutsBack
  <2>3. CASE LeavesStock(s) /\ ~Gone(s)
    <3>1. loc'[s].held = loc[s].held
      BY <2>3 DEF LeavesStock
    <3>2. pc'[s] \notin Holding => pc[s] \notin Holding
      BY <2>3 DEF Shaped, Quits, Walks, Marks, Creates, Fails, Finishes, Closes, Refuses,
         Begins,
                  Edge, Holding, LeavesStock
    <3>3. QED BY <1>1, <3>1, <3>2 DEF HeldTrue
  <2>4. CASE Gone(s)
    BY <2>4 DEF Gone
  <2>5. QED BY <2>1, <2>2, <2>3, <2>4 DEF Handles
<1>3. ASSUME pc'[s] \in Holding \ {"record"} PROVE recs'[loc'[s].rec].lines = loc'[s].held
  <2>1. loc'[s].held = loc[s].held
    BY <1>3 DEF Handles, Takes, PutsBack, LeavesStock, Gone, Edge, Holding
  <2>2. CASE Creates(s)
    BY <2>1, <2>2 DEF Creates, Added
  <2>3. CASE Walks(s)
    <3>1. pc[s] \in Holding \ {"record"} /\ SameRecords /\ loc'[s].rec = loc[s].rec
      BY <1>3, <2>3 DEF Walks, Edge, Holding
    <3>2. recs[loc[s].rec].lines = loc[s].held /\ loc[s].rec \in DOMAIN recs
      BY <1>1, <3>1 DEF HeldTrue, Holding, Sending
    <3>3. QED BY <2>1, <3>1, <3>2 DEF SameRecords
  <2>4. QED BY <1>3, <2>2, <2>3 DEF Shaped, Quits, Marks, Fails, Finishes, Closes, Refuses, Begins,
                                    Gone, Edge, Holding
<1>4. ASSUME pc'[s] = "fail_record" PROVE LinesOf(recs'[loc'[s].rec].lines) \subseteq LinesOf(stock')
  <2>1. Walks(s) /\ pc[s] = "restore"
    BY <1>4 DEF Shaped, Quits, Walks, Marks, Creates, Fails, Finishes, Closes, Refuses, Begins,
                Gone, Edge
  <2>2. stock' = loc[s].held \o stock
    BY <2>1 DEF Handles, Takes, PutsBack, LeavesStock, Edge
  <2>3. recs[loc[s].rec].lines = loc[s].held /\ loc[s].rec \in DOMAIN recs
    BY <1>1, <2>1 DEF HeldTrue, Holding, Sending
  <2>4. recs'[loc'[s].rec].lines = loc[s].held
    BY <2>1, <2>3 DEF Walks, SameRecords
  <2>5. loc[s].held \in Seq(Line) /\ stock \in Seq(Line)
    BY DEF TypeInv, TypeOK, Local
  <2>6. QED BY <2>2, <2>4, <2>5, JoinLines
<1>5. HeldTrue(s)'
  BY <1>2, <1>3, <1>4 DEF HeldTrue
<1>6. \A t \in Session : t = s
  BY DEF OneAtATime
<1>7. QED BY <1>5, <1>6 DEF Handles, HoldInv

\* Steps that keep the sessions, the stock and the lines of the records, or a crash.
LEMMA OthersHold ==
    ASSUME TypeInv, AttemptInv, HoldInv, UNCHANGED stock,
           \/ /\ UNCHANGED <<pc, loc>>
              /\ \A r \in DOMAIN recs : recs'[r].lines = recs[r].lines
           \/ \A s \in Session : /\ pc'[s] = "idle" /\ loc'[s].held = <<>>
                                 /\ loc'[s].open = FALSE
    PROVE  HoldInv'
<1>1. CASE UNCHANGED <<pc, loc>> /\ \A r \in DOMAIN recs : recs'[r].lines = recs[r].lines
  <2>1. \A s \in Session : pc[s] \in Sending => loc[s].rec \in DOMAIN recs
    BY DEF AttemptInv, SessionsOwn, OwnRecord
  <2>2. \A s \in Session : HeldTrue(s)'
    BY <1>1, <2>1 DEF HoldInv, HeldTrue, Holding, Sending
  <2>3. \A s \in Session : CardsTrue(s)'
    BY <1>1 DEF HoldInv, CardsTrue
  <2>4. QED BY <2>2, <2>3 DEF HoldInv
<1>2. CASE \A s \in Session : pc'[s] = "idle" /\ loc'[s].held = <<>> /\ loc'[s].open = FALSE
  BY <1>2 DEF HoldInv, HeldTrue, CardsTrue, Holding, Stocked, Sending
<1>3. QED BY <1>1, <1>2

\* No line is twice in stock, reserved or recorded as sent.
ReservedApart ==
    \A s \in Session : LinesDiffer(loc[s].held) /\ LinesOf(loc[s].held) \cap LinesOf(stock) = {}
SentApart ==
    \A r \in DOMAIN recs : recs[r].status = "sent" =>
        /\ LinesOf(recs[r].lines) \cap LinesOf(stock) = {}
        /\ \A s \in Session : LinesOf(recs[r].lines) \cap LinesOf(loc[s].held) = {}
        /\ \A q \in DOMAIN recs \ {r} : recs[q].status = "sent" =>
             LinesOf(recs[r].lines) \cap LinesOf(recs[q].lines) = {}
LinesApart == LinesDiffer(stock) /\ ReservedApart /\ SentApart

\* Nothing is in an empty stock.
LEMMA EmptyLines == LinesDiffer(<<>>) /\ LinesOf(<<>>) = {}
BY DEF LinesDiffer, LinesOf

\* A step moves lines between the stock and the session, the lines of a session that
\* leaves its order apart.
LEMMA StepLinesMove ==
    ASSUME TypeInv, NEW s \in Session, Handles(s)
    PROVE  /\ LinesOf(stock') \cup LinesOf(loc'[s].held) \subseteq LinesOf(stock) \cup LinesOf(loc[s].held)
           /\ LinesOf(stock) \subseteq LinesOf(stock') \cup LinesOf(loc'[s].held)
           /\ \/ LinesOf(loc[s].held) \subseteq LinesOf(stock') \cup LinesOf(loc'[s].held)
              \/ Gone(s) /\ UNCHANGED stock
              \/ Takes(s)
<1>1. loc[s].held \in Seq(Line) /\ stock \in Seq(Line)
  BY DEF TypeInv, TypeOK, Local
<1>2. CASE Takes(s)
  <2>1. PICK n \in 0..Len(stock) : /\ loc'[s].held = SubSeq(stock, 1, n)
                                   /\ stock' = SubSeq(stock, n + 1, Len(stock))
    BY <1>2 DEF Takes
  <2>2. QED BY <1>1, <1>2, <2>1, SplitLines
<1>3. CASE PutsBack(s)
  <2>1. stock' = loc[s].held \o stock /\ loc'[s].held = <<>>
    BY <1>3 DEF PutsBack
  <2>2. QED BY <1>1, <2>1, JoinLines, EmptyLines
<1>4. CASE LeavesStock(s)
  BY <1>1, <1>4, EmptyLines DEF LeavesStock, Gone
<1>5. QED BY <1>2, <1>3, <1>4 DEF Handles

\* ... and no line twice.
LEMMA StepLinesDiffer ==
    ASSUME TypeInv, NEW s \in Session, LinesDiffer(stock), ReservedApart, Handles(s)
    PROVE  /\ LinesDiffer(stock') /\ LinesDiffer(loc'[s].held)
           /\ LinesOf(loc'[s].held) \cap LinesOf(stock') = {}
<1>1. /\ loc[s].held \in Seq(Line) /\ stock \in Seq(Line)
      /\ LinesDiffer(loc[s].held) /\ LinesOf(loc[s].held) \cap LinesOf(stock) = {}
  BY DEF TypeInv, TypeOK, Local, ReservedApart
<1>2. CASE Takes(s)
  <2>1. PICK n \in 0..Len(stock) : /\ loc'[s].held = SubSeq(stock, 1, n)
                                   /\ stock' = SubSeq(stock, n + 1, Len(stock))
    BY <1>2 DEF Takes
  <2>2. QED BY <1>1, <2>1, SplitLines
<1>3. CASE PutsBack(s)
  <2>1. stock' = loc[s].held \o stock /\ loc'[s].held = <<>>
    BY <1>3 DEF PutsBack
  <2>2. QED BY <1>1, <2>1, JoinLines, EmptyLines
<1>4. CASE LeavesStock(s)
  BY <1>1, <1>4, EmptyLines DEF LeavesStock, Gone
<1>5. QED BY <1>2, <1>3, <1>4 DEF Handles

\* What is sent after a step was sent before it, or is what the session held.
LEMMA NewlySentLines ==
    ASSUME TypeInv, AttemptInv, HoldInv, NEW s \in Session, Shaped(s),
           NEW r \in DOMAIN recs', recs'[r].status = "sent"
    PROVE  /\ r \in DOMAIN recs /\ recs'[r].lines = recs[r].lines
           /\ \/ recs[r].status = "sent"
              \/ Finishes(s) /\ r = loc[s].rec /\ recs[r].lines = loc[s].held
<1>1. pc[s] = "finish" => recs[loc[s].rec].lines = loc[s].held
  BY DEF HoldInv, HeldTrue, Holding
<1>2. CASE Finishes(s)
  BY <1>1, <1>2 DEF Finishes, Recorded
<1>3. CASE Creates(s) \/ Refuses(s)
  BY <1>3 DEF Creates, Refuses, Added
<1>4. CASE Fails(s)
  BY <1>4 DEF Fails, Recorded
<1>5. CASE UNCHANGED recs \/ SameRecords
  BY <1>5 DEF SameRecords
<1>6. QED BY <1>2, <1>3, <1>4, <1>5 DEF Shaped, Quits, Walks, Marks, Closes, Begins

\* A step keeps LinesApart.
LEMMA StepLinesApart ==
    ASSUME TypeInv, AttemptInv, HoldInv, LinesApart, NEW s \in Session, Shaped(s), Handles(s), OneAtATime
    PROVE  LinesApart'
<1>1. /\ LinesDiffer(stock') /\ LinesDiffer(loc'[s].held)
      /\ LinesOf(loc'[s].held) \cap LinesOf(stock') = {}
      /\ LinesOf(stock') \cup LinesOf(loc'[s].held) \subseteq LinesOf(stock) \cup LinesOf(loc[s].held)
  BY StepLinesMove, StepLinesDiffer DEF LinesApart
<1>2. \A t \in Session : t = s
  BY DEF OneAtATime
<1>3. LinesOf(loc[s].held) \cap LinesOf(stock) = {}
  BY DEF LinesApart, ReservedApart
<1>4. ASSUME NEW r \in DOMAIN recs', recs'[r].status = "sent"
      PROVE  LinesOf(recs'[r].lines) \cap (LinesOf(stock') \cup LinesOf(loc'[s].held)) = {}
  <2>1. CASE r \in DOMAIN recs /\ recs'[r].lines = recs[r].lines /\ recs[r].status = "sent"
    BY <1>1, <2>1 DEF LinesApart, SentApart
  <2>2. CASE Finishes(s) /\ recs'[r].lines = loc[s].held
    <3>1. UNCHANGED stock /\ loc'[s].held = <<>>
      BY <2>2 DEF Handles, Takes, PutsBack, LeavesStock, Finishes, Gone, Edge
    <3>2. QED BY <1>3, <2>2, <3>1, EmptyLines
  <2>3. QED BY <1>4, <2>1, <2>2, NewlySentLines
<1>5. ASSUME NEW r \in DOMAIN recs', NEW q \in DOMAIN recs' \ {r},
             recs'[r].status = "sent", recs'[q].status = "sent"
      PROVE  LinesOf(recs'[r].lines) \cap LinesOf(recs'[q].lines) = {}
  <2>1. /\ r \in DOMAIN recs /\ recs'[r].lines = recs[r].lines
        /\ q \in DOMAIN recs /\ recs'[q].lines = recs[q].lines
        /\ recs[r].status = "sent" \/ (r = loc[s].rec /\ recs[r].lines = loc[s].held)
        /\ recs[q].status = "sent" \/ (q = loc[s].rec /\ recs[q].lines = loc[s].held)
    BY <1>5, NewlySentLines
  <2>2. QED BY <1>5, <2>1 DEF LinesApart, SentApart
<1>6. QED BY <1>1, <1>2, <1>4, <1>5 DEF LinesApart, ReservedApart, SentApart

\* Steps outside a session: nothing is sent and the stock stays.
LEMMA OthersLinesApart ==
    ASSUME LinesApart, UNCHANGED stock, DOMAIN recs' = DOMAIN recs,
           \A r \in DOMAIN recs : /\ recs'[r].lines = recs[r].lines
                                  /\ recs'[r].status = "sent" => recs[r].status = "sent",
           \A s \in Session : loc'[s].held \in {loc[s].held, <<>>}
    PROVE  LinesApart'
BY EmptyLines DEF LinesApart, ReservedApart, SentApart

\* Where a line of the initial stock is.
Accounted(x) ==
    \/ x \in LinesOf(stock)
    \/ \E s \in Session : x \in LinesOf(loc[s].held)
    \/ \E r \in DOMAIN recs : recs[r].status # "failed" /\ x \in LinesOf(recs[r].lines)
AllAccounted == crashes = 0 => \A x \in LinesOf(InitStock) : Accounted(x)

StockInv == HoldInv /\ AllAccounted

\* A record that a step marks as failed has its lines in stock already.
LEMMA StepKeepsRecordedLines ==
    ASSUME TypeInv, AttemptInv, HoldInv, NEW s \in Session, Shaped(s), Handles(s),
           NEW r \in DOMAIN recs, recs[r].status # "failed"
    PROVE  /\ r \in DOMAIN recs' /\ recs'[r].lines = recs[r].lines
           /\ recs'[r].status = "failed" => LinesOf(recs[r].lines) \subseteq LinesOf(stock')
<1>1. CASE Fails(s)
  <2>1. /\ r \in DOMAIN recs' /\ recs'[r].lines = recs[r].lines
        /\ r # loc[s].rec => recs'[r].status = recs[r].status
    BY <1>1 DEF Fails, Recorded
  <2>2. pc[s] = "fail_record" /\ pc'[s] = "fail_order"
    BY <1>1 DEF Fails, Edge
  <2>3. UNCHANGED stock
    BY <2>2 DEF Handles, Takes, PutsBack, LeavesStock, Edge
  <2>4. LinesOf(recs[loc[s].rec].lines) \subseteq LinesOf(stock)
    BY <2>2 DEF HoldInv, HeldTrue
  <2>5. QED BY <2>1, <2>3, <2>4
<1>2. CASE Finishes(s)
  BY <1>2 DEF Finishes, Recorded
<1>3. CASE Creates(s) \/ Refuses(s)
  BY <1>3 DEF Creates, Refuses, Added
<1>4. CASE UNCHANGED recs \/ SameRecords
  BY <1>4 DEF SameRecords
<1>5. QED BY <1>1, <1>2, <1>3, <1>4 DEF Shaped, Quits, Walks, Marks, Closes, Begins

\* A step loses no line.
LEMMA StepAccounts ==
    ASSUME TypeInv, AttemptInv, HoldInv, NEW s \in Session, Shaped(s), Handles(s),
           OneAtATime, NEW x, Accounted(x)
    PROVE  Accounted(x)'
<1>1. \A t \in Session : t = s
  BY DEF OneAtATime
<1>2. CASE x \in LinesOf(stock)
  BY <1>2, StepLinesMove DEF Accounted
<1>3. CASE x \in LinesOf(loc[s].held)
  <2>1. CASE x \in LinesOf(stock') \cup LinesOf(loc'[s].held)
    BY <2>1 DEF Accounted
  <2>2. CASE Takes(s)
    <3>1. loc[s].held = <<>>
      BY <2>2 DEF Takes, Edge, HoldInv, HeldTrue, Holding
    <3>2. QED BY <1>3, <3>1, EmptyLines
  <2>3. CASE Gone(s)
    <3>1. pc[s] \notin Holding \/ Finishes(s)
      BY <2>3 DEF Shaped, Quits, Walks, Marks, Creates, Fails, Closes, Refuses, Begins,
                  Gone, Edge, Holding
    <3>2. CASE pc[s] \notin Holding
      BY <1>3, <3>2, EmptyLines DEF HoldInv, HeldTrue
    <3>3. CASE Finishes(s)
      <4>1. recs[loc[s].rec].lines = loc[s].held /\ loc[s].rec \in DOMAIN recs
        BY <3>3 DEF Finishes, Recorded, HoldInv, HeldTrue, Holding
      <4>2. loc[s].rec \in DOMAIN recs' /\ recs'[loc[s].rec].lines = loc[s].held
            /\ recs'[loc[s].rec].status = "sent"
        BY <3>3, <4>1 DEF Finishes, Recorded
      <4>3. QED BY <1>3, <4>2 DEF Accounted
    <3>4. QED BY <3>1, <3>2, <3>3
  <2>4. QED BY <1>3, <2>1, <2>2, <2>3, StepLinesMove
<1>4. ASSUME NEW r \in DOMAIN recs, recs[r].status # "failed", x \in LinesOf(recs[r].lines)
      PROVE  Accounted(x)'
  BY <1>4, StepKeepsRecordedLines DEF Accounted
<1>5. QED BY <1>1, <1>2, <1>3, <1>4 DEF Accounted

\* Nor does anything that leaves the stock and the sessions alone.
LEMMA OthersAccount ==
    ASSUME UNCHANGED <<stock, loc>>, DOMAIN recs' = DOMAIN recs,
           \A r \in DOMAIN recs : /\ recs'[r].lines = recs[r].lines
                                  /\ recs'[r].status = "failed" => recs[r].status = "failed",
           NEW x, Accounted(x)
    PROVE  Accounted(x)'
BY DEF Accounted

\* The invariants hold at the start.
LEMMA InitStocked == Init => StockInv /\ (LinesDiffer(InitStock) => LinesApart)
<1> SUFFICES ASSUME Init PROVE StockInv /\ (LinesDiffer(InitStock) => LinesApart)
  OBVIOUS
<1>1. \A s \in Session : pc[s] = "idle" /\ loc[s].held = <<>> /\ loc[s].open = FALSE
  BY DEF Init, Fresh
<1>2. recs = <<>> /\ stock = InitStock
  BY DEF Init
<1>3. HoldInv
  BY <1>1 DEF HoldInv, HeldTrue, CardsTrue, Holding, Stocked, Sending
<1>4. LinesDiffer(InitStock) => LinesApart
  BY <1>1, <1>2, EmptyLines DEF LinesApart, ReservedApart, SentApart
<1>5. AllAccounted
  BY <1>2 DEF AllAccounted, Accounted
<1>6. QED BY <1>3, <1>4, <1>5 DEF StockInv

\* The scheduler, the buyer, a crash and rest leave the stock alone.
LEMMA OthersStock ==
    ASSUME LedgerInv, SweepRead \/ SweepWrite \/ (\E o \in Order : BuyerCancels(o)) \/ UNCHANGED vars
    PROVE  /\ UNCHANGED <<stock, pc, loc, crashes>> /\ DOMAIN recs' = DOMAIN recs
           /\ \A r \in DOMAIN recs : /\ recs'[r].lines = recs[r].lines
                                     /\ recs'[r].status \in {recs[r].status, "timeout"}
<1>1. TypeInv
  BY DEF LedgerInv
<1>2. QED BY <1>1, SweepReadEffect, SweepWriteEffect, CancelEffect DEF vars

\* Every step keeps StockInv,
LEMMA NextStocked ==
    ASSUME OneAtATime
    PROVE  LedgerInv /\ StockInv /\ [Next]_vars => StockInv'
<1> SUFFICES ASSUME LedgerInv, StockInv, [Next]_vars PROVE StockInv'
  OBVIOUS
<1>1. TypeInv /\ AttemptInv /\ HoldInv
  BY DEF LedgerInv, StockInv
<1>2. ASSUME NEW s \in Session, Request(s) \/ Step(s) PROVE StockInv'
  <2>1. Shaped(s)
    BY <1>1, <1>2, StepShape, RequestShape
  <2>2. Handles(s)
    BY <1>1, <1>2, StepHandles, RequestHandles DEF HoldInv
  <2>3. HoldInv'
    BY <1>1, <2>1, <2>2, StepHolds
  <2>4. \A x : Accounted(x) => Accounted(x)'
    BY <1>1, <2>1, <2>2, StepAccounts
  <2>5. AllAccounted'
    BY <2>1, <2>4 DEF StockInv, AllAccounted, Shaped
  <2>6. QED BY <2>3, <2>5 DEF StockInv
<1>3. CASE SweepRead \/ SweepWrite \/ (\E o \in Order : BuyerCancels(o)) \/ UNCHANGED vars
  <2>1. HoldInv'
    BY <1>1, <1>3, OthersStock, OthersHold
  <2>2. \A x : Accounted(x) => Accounted(x)'
    BY <1>3, OthersStock, OthersAccount
  <2>3. QED BY <1>3, <2>1, <2>2, OthersStock DEF StockInv, AllAccounted
<1>4. CASE Crash
  <2>1. HoldInv'
    BY <1>1, <1>4, CrashEffect, OthersHold
  <2>2. QED BY <1>1, <1>4, <2>1, CrashEffect DEF StockInv, AllAccounted
<1>5. QED BY <1>2, <1>3, <1>4 DEF Next, Rest

\* ... and LinesApart.
LEMMA NextLinesApart ==
    ASSUME OneAtATime
    PROVE  LedgerInv /\ StockInv /\ LinesApart /\ [Next]_vars => LinesApart'
<1> SUFFICES ASSUME LedgerInv, StockInv, LinesApart, [Next]_vars PROVE LinesApart'
  OBVIOUS
<1>1. TypeInv /\ AttemptInv /\ HoldInv
  BY DEF LedgerInv, StockInv
<1>2. ASSUME NEW s \in Session, Request(s) \/ Step(s) PROVE LinesApart'
  <2>1. Shaped(s) /\ Handles(s)
    BY <1>1, <1>2, StepShape, RequestShape, StepHandles, RequestHandles DEF HoldInv
  <2>2. QED BY <1>1, <2>1, StepLinesApart
<1>3. CASE SweepRead \/ SweepWrite \/ (\E o \in Order : BuyerCancels(o)) \/ UNCHANGED vars
  BY <1>3, OthersStock, OthersLinesApart
<1>4. CASE Crash
  BY <1>1, <1>4, CrashEffect, OthersLinesApart
<1>5. QED BY <1>2, <1>3, <1>4 DEF Next, Rest

\* While deliveries run one at a time, and the stock holds no line twice, no card
\* secret is recorded as sent in two records, or sent and still for sale: whatever
\* fails, is retried, times out or crashes in between.
THEOREM OneAtATimeSellsOnce ==
    ASSUME OneAtATime, LinesDiffer(InitStock)
    PROVE  Spec => []LineSoldOnce
<1>1. Init => LedgerInv /\ StockInv /\ LinesApart
  BY InitLedger, InitStocked
<1>2. LedgerInv /\ StockInv /\ LinesApart /\ [Next]_vars => (LedgerInv /\ StockInv /\ LinesApart)'
  BY NextLedger, NextStocked, NextLinesApart
<1>3. LinesApart => LineSoldOnce
  BY DEF LinesApart, SentApart, LinesOf, LineSoldOnce
<1>4. QED BY <1>1, <1>2, <1>3, PTL DEF Spec

\* While deliveries run one at a time and none crashes, every line is still somewhere:
\* in stock, reserved by the running delivery, or in the record of an attempt that
\* did not fail.
THEOREM OneAtATimeKeepsLines ==
    ASSUME OneAtATime
    PROVE  Spec => []NoLineLost
<1>1. Init => LedgerInv /\ StockInv
  BY InitLedger, InitStocked
<1>2. LedgerInv /\ StockInv /\ [Next]_vars => (LedgerInv /\ StockInv)'
  BY NextLedger, NextStocked
<1>3. StockInv => NoLineLost
  BY DEF StockInv, AllAccounted, Accounted, LinesOf, NoLineLost
<1>4. QED BY <1>1, <1>2, <1>3, PTL DEF Spec

=============================================================================
