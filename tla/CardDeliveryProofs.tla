--------------------------- MODULE CardDeliveryProofs ---------------------------
(***************************************************************************)
(* Theorems about CardDelivery, for every value of its constants.          *)
(***************************************************************************)
EXTENDS CardDelivery, SequenceTheorems, TLAPS

-----------------------------------------------------------------------------
(* Types *)

\* A session that is not idle works on an order.
Working == \A s \in Session : pc[s] # "idle" => loc[s].cur \in Order

TypeInv == TypeOK /\ Working

\* A session that has done nothing yet is well typed.
LEMMA FreshType == Fresh \in Local /\ Fresh.pend = "absent"
BY EmptySeq DEF Fresh, Local, Row, Statuses, SendStatuses, Contents, SourceKinds, NoOrder,
   NoRecord

\* What is written to a row stays a row.
LEMMA WriteType ==
    ASSUME NEW row \in Row, NEW old \in Row, NEW new \in Row
    PROVE  Write(row, old, new) \in Row
BY DEF Write, Dirty, Row

\* Taking the snapshot keeps everything but the snapshot itself.
LEMMA ViewType ==
    ASSUME TypeOK, NEW l \in Local
    PROVE  /\ View(l) \in Local
           /\ View(l).cur = l.cur /\ View(l).todo = l.todo /\ View(l).cache = l.cache
           /\ View(l).pend = l.pend /\ View(l).rec = l.rec /\ View(l).sent = l.sent
BY DEF View, Local, TypeOK, BusyOrders

\* A session that goes on to a well typed state keeps the types of them all.
LEMMA GotoType ==
    ASSUME TypeInv, NEW s \in Session, NEW p \in PCs, NEW l \in Local,
           p # "idle" => l.cur \in Order,
           Goto(s, p, l)
    PROVE  pc' \in [Session -> PCs] /\ loc' \in [Session -> Local] /\ Working'
BY DEF TypeInv, TypeOK, Working, Goto

\* Goto sets the session's place and its variables.
LEMMA GotoSets ==
    ASSUME TypeInv, NEW s \in Session, NEW p, NEW l, Goto(s, p, l)
    PROVE  pc'[s] = p /\ loc'[s] = l
BY DEF TypeInv, TypeOK, Goto

\* Giving locks up keeps the lock table typed.
LEMMA UnlockedType ==
    ASSUME TypeOK, NEW s \in Session
    PROVE  Unlocked(s) \in [Order -> Session \cup {Free}]
BY DEF TypeOK, Unlocked

\* Whatever a session leaves behind, it is idle or at the start of its next order.
LEMMA LeaveType ==
    ASSUME TypeInv, NEW s \in Session, NEW l \in Local, NEW b, Leave(s, l, b)
    PROVE  /\ pc' \in [Session -> PCs] /\ loc' \in [Session -> Local] /\ Working'
           /\ lock' \in [Order -> Session \cup {Free}]
<1>1. lock' \in [Order -> Session \cup {Free}]
  BY UnlockedType DEF TypeInv, TypeOK, Leave
<1>2. CASE Goto(s, "idle", Fresh)
  BY <1>1, <1>2, FreshType, GotoType DEF PCs
<1>3. ASSUME NEW o \in l.todo,
             Goto(s, "begin", [l EXCEPT !.cur = o, !.todo = @ \ {o}, !.pend = "absent",
                                        !.held = <<>>, !.rec = NoRecord, !.sent = 0])
      PROVE  pc' \in [Session -> PCs] /\ loc' \in [Session -> Local] /\ Working'
  <2> DEFINE m == [l EXCEPT !.cur = o, !.todo = @ \ {o}, !.pend = "absent",
                            !.held = <<>>, !.rec = NoRecord, !.sent = 0]
  <2>1. o \in Order
    BY DEF Local
  <2>2. m \in Local /\ m.cur = o
    BY <2>1, EmptySeq DEF Local, Statuses, NoRecord
  <2>3. QED BY <1>3, <2>1, <2>2, GotoType DEF PCs
<1>4. QED BY <1>1, <1>2, <1>3 DEF Leave

\* Committing new values for a session's order.
LEMMA CommitType ==
    ASSUME TypeInv, NEW s \in Session, pc[s] # "idle", NEW new \in Row
    PROVE  /\ loc[s] \in Local /\ loc[s].cur \in Order /\ Cached(s) \in Row
           /\ CommitOrder(s, new) => order' \in [Order -> Row]
           /\ Committed(loc[s], new) \in Local
           /\ Committed(loc[s], new).cur = loc[s].cur
<1>1. loc[s] \in Local /\ loc[s].cur \in Order /\ Cached(s) \in Row
  BY DEF TypeInv, TypeOK, Working, Local, Cached
<1>2. CommitOrder(s, new) => order' \in [Order -> Row]
  BY <1>1, WriteType DEF CommitOrder, TypeInv, TypeOK
<1>3. Committed(loc[s], new) \in Local /\ Committed(loc[s], new).cur = loc[s].cur
  BY <1>1 DEF Committed, Local, Row
<1>4. QED BY <1>1, <1>2, <1>3

\* A session at work has an order, and its copies of it are rows.
LEMMA WorkingSession ==
    ASSUME TypeInv, NEW s \in Session, pc[s] # "idle"
    PROVE  /\ loc[s] \in Local /\ loc[s].cur \in Order /\ Cached(s) \in Row
           /\ Pending(s) \in Row
<1>1. loc[s] \in Local /\ loc[s].cur \in Order
  BY DEF TypeInv, TypeOK, Working
<1>2. Cached(s) \in Row
  BY <1>1 DEF Local, Cached
<1>3. Pending(s) \in Row
  BY <1>1, <1>2 DEF Local, Row, Pending
<1>4. QED BY <1>1, <1>2, <1>3

\* A request finds an idle session and puts it to work on an order.
LEMMA RequestType == ASSUME TypeInv, NEW s \in Session, Request(s) PROVE TypeInv'
<1>1. ASSUME NEW k \in SourceKinds, NEW o \in Order
      PROVE  Opened(k, o) \in Local /\ Opened(k, o).cur = o /\ Opened(k, o).todo = {}
  <2> DEFINE l == [Fresh EXCEPT !.kind = k, !.cur = o, !.cache = order]
  <2>1. l \in Local /\ l.cur = o /\ l.todo = {}
    BY FreshType DEF TypeInv, TypeOK, Local, Fresh
  <2>2. QED BY <2>1, ViewType DEF TypeInv, Opened
<1>2. ASSUME NEW k, NEW targets, Arrives(k, s, targets),
             NEW p \in PCs, NEW l \in Local, l.cur \in Order, Goto(s, p, l)
      PROVE  TypeInv'
  <2>1. pc' \in [Session -> PCs] /\ loc' \in [Session -> Local] /\ Working'
    BY <1>2, GotoType
  <2>2. QED BY <1>2, <2>1 DEF Arrives, TypeInv, TypeOK
<1>3. ASSUME NEW o \in Order, LiveEvent(s, o) PROVE TypeInv'
  BY <1>1, <1>2, <1>3 DEF LiveEvent, SourceKinds, PCs
<1>4. ASSUME NEW o \in Order, ManualDelivery(s, o) PROVE TypeInv'
  BY <1>1, <1>2, <1>4 DEF ManualDelivery, SourceKinds, PCs
<1>5. ASSUME NEW o \in Order, NoLogistics(s, o) PROVE TypeInv'
  BY <1>1, <1>2, <1>5 DEF NoLogistics, SourceKinds, PCs
<1>6. ASSUME ScanOrders(s) PROVE TypeInv'
  <2> DEFINE rows == {o \in Order : order[o].status \in ELIGIBLE_ORDER_STATUSES /\ ~order[o].cardOnly}
  <2>1. PICK o \in rows : Goto(s, "begin", [Opened("scan", o) EXCEPT !.todo = rows \ {o}])
    BY <1>6 DEF ScanOrders
  <2>2. Opened("scan", o) \in Local /\ Opened("scan", o).cur = o
    BY <1>1 DEF SourceKinds
  <2> DEFINE l == [Opened("scan", o) EXCEPT !.todo = rows \ {o}]
  <2>3. l \in Local /\ l.cur \in Order
    BY <2>2 DEF Local
  <2>4. Arrives("scan", s, rows)
    BY <1>6 DEF ScanOrders
  <2> HIDE DEF rows, l
  <2>5. Goto(s, "begin", l)
    BY <2>1 DEF l
  <2>6. "begin" \in PCs
    BY DEF PCs
  <2>7. QED BY <1>2, <2>3, <2>4, <2>5, <2>6
<1>7. QED BY <1>3, <1>4, <1>5, <1>6 DEF Request

\* A step that leaves its order alone: nothing but control and the platform moves.
LEMMA QuietType ==
    ASSUME TypeInv, NEW s \in Session, UNCHANGED <<order, recs, stock, settings, sweep, starts, crashes>>,
           lock' \in [Order -> Session \cup {Free}], confirmed' \in [Order -> BOOLEAN],
           pc' \in [Session -> PCs] /\ loc' \in [Session -> Local] /\ Working'
    PROVE  TypeInv'
BY DEF TypeInv, TypeOK

\* The part of a delivery before anything is reserved.
LEMMA CheckType ==
    ASSUME TypeInv, NEW s \in Session,
           SkipDelivered(s) \/ LockOrder(s) \/ AlreadySent(s) \/ AlreadySending(s) \/ Reject(s) \/ Accept(s)
    PROVE  TypeInv'
<1> USE DEF PCs
<1>0. pc[s] # "idle"
  BY DEF SkipDelivered, LockOrder, AlreadySent, AlreadySending, Reject, Accept
<1>1. loc[s] \in Local /\ loc[s].cur \in Order /\ Cached(s) \in Row
  BY <1>0, WorkingSession
<1>2. View(loc[s]) \in Local /\ View(loc[s]).cur \in Order
  BY <1>1, ViewType DEF TypeInv
<1>3. ASSUME SkipDelivered(s) PROVE TypeInv'
  <2>1. [loc[s] EXCEPT !.pend = Cached(s).status] \in Local
        /\ [loc[s] EXCEPT !.pend = Cached(s).status].cur \in Order
    BY <1>1 DEF Local, Row
  <2>2. CASE Goto(s, "reconfirm", [loc[s] EXCEPT !.pend = Cached(s).status]) /\ UNCHANGED lock
    <3>1. pc' \in [Session -> PCs] /\ loc' \in [Session -> Local] /\ Working'
      BY <2>1, <2>2, GotoType
    <3>2. QED BY <1>3, <2>2, <3>1, QuietType DEF SkipDelivered, TypeInv, TypeOK
  <2>3. CASE Leave(s, loc[s], FALSE)
    BY <1>1, <1>3, <2>3, LeaveType, QuietType DEF SkipDelivered, TypeInv, TypeOK
  <2>4. QED BY <1>3, <2>2, <2>3 DEF SkipDelivered
<1>4. ASSUME LockOrder(s) PROVE TypeInv'
  <2> DEFINE pend == IF loc[s].kind = "live" /\ Cached(s).status \in {"absent", "unknown", "pending_payment"}
                     THEN "pending_ship" ELSE Cached(s).status
  <2>1. [loc[s] EXCEPT !.pend = pend] \in Local /\ [loc[s] EXCEPT !.pend = pend].cur \in Order
    BY <1>1 DEF Local, Row, Statuses
  <2>2. CASE /\ lock' = [lock EXCEPT ![loc[s].cur] = s]
             /\ Goto(s, "locked", [loc[s] EXCEPT !.pend = pend])
    <3>1. pc' \in [Session -> PCs] /\ loc' \in [Session -> Local] /\ Working'
      BY <2>1, <2>2, GotoType
    <3>2. lock' \in [Order -> Session \cup {Free}]
      BY <2>2 DEF TypeInv, TypeOK
    <3>3. QED BY <1>4, <3>1, <3>2, QuietType DEF LockOrder, TypeInv, TypeOK
  <2>3. CASE Leave(s, loc[s], FALSE)
    BY <1>1, <1>4, <2>3, LeaveType, QuietType DEF LockOrder, TypeInv, TypeOK
  <2>4. QED BY <1>4, <2>2, <2>3 DEF LockOrder
<1>5. ASSUME AlreadySent(s) PROVE TypeInv'
  <2>1. CASE Goto(s, "reconfirm", View(loc[s])) /\ UNCHANGED lock
    <3>1. pc' \in [Session -> PCs] /\ loc' \in [Session -> Local] /\ Working'
      BY <1>2, <2>1, GotoType
    <3>2. QED BY <1>5, <2>1, <3>1, QuietType DEF AlreadySent, TypeInv, TypeOK
  <2>2. CASE Leave(s, View(loc[s]), FALSE)
    BY <1>2, <1>5, <2>2, LeaveType, QuietType DEF AlreadySent, TypeInv, TypeOK
  <2>3. QED BY <1>5, <2>1, <2>2 DEF AlreadySent
<1>6. ASSUME AlreadySending(s) PROVE TypeInv'
  <2>1. Leave(s, loc[s], FALSE) \/ Leave(s, View(loc[s]), FALSE)
    BY <1>6 DEF AlreadySending
  <2>2. QED BY <1>1, <1>2, <1>6, <2>1, LeaveType, QuietType DEF AlreadySending, TypeInv, TypeOK
<1>7. ASSUME Reject(s) \/ Accept(s) PROVE TypeInv'
  <2>1. PICK p \in {"record_failure", "confirm_first", "mark"} : Goto(s, p, View(loc[s]))
    BY <1>7 DEF Reject, Accept
  <2>2. pc' \in [Session -> PCs] /\ loc' \in [Session -> Local] /\ Working'
    BY <1>2, <2>1, GotoType
  <2>3. QED BY <1>7, <2>2, QuietType DEF Reject, Accept, TypeInv, TypeOK
<1>8. QED BY <1>3, <1>4, <1>5, <1>6, <1>7

\* The calls to the platform change nothing but its own view of the order.
LEMMA PlatformType ==
    ASSUME TypeInv, NEW s \in Session,
           ConfirmFirst(s) \/ ConfirmAfter(s) \/ Reconfirm(s) \/ CallNoLogistics(s)
    PROVE  TypeInv'
<1> USE DEF PCs
<1>1. loc[s] \in Local /\ loc[s].cur \in Order
  BY WorkingSession DEF ConfirmFirst, ConfirmAfter, Reconfirm, CallNoLogistics
<1>2. confirmed' \in [Order -> BOOLEAN] /\ UNCHANGED <<order, recs, stock, settings, sweep,
                                                       starts, crashes>>
  BY <1>1 DEF PlatformConfirms, ConfirmFirst, ConfirmAfter, Reconfirm, CallNoLogistics,
     TypeInv, TypeOK
<1>3. CASE Leave(s, loc[s], FALSE)
  BY <1>1, <1>2, <1>3, LeaveType, QuietType
<1>4. ASSUME NEW p \in PCs \ {"idle"}, NEW l \in {loc[s], [loc[s] EXCEPT !.pend = "shipped"]},
             Goto(s, p, l), UNCHANGED lock
      PROVE  TypeInv'
  <2>1. l \in Local /\ l.cur \in Order
    BY <1>1 DEF Local, Statuses
  <2>2. pc' \in [Session -> PCs] /\ loc' \in [Session -> Local] /\ Working'
    BY <1>4, <2>1, GotoType
  <2>3. QED BY <1>2, <1>4, <2>2, QuietType DEF TypeInv, TypeOK
<1>5. QED BY <1>3, <1>4 DEF ConfirmFirst, ConfirmAfter, Reconfirm, CallNoLogistics

\* A record's status or count is changed, or nothing is.
LEMMA RecordStatusType ==
    ASSUME recs \in Seq(Record), NEW r \in Nat, NEW st \in {"sent", "failed", "timeout"}
    PROVE  [recs EXCEPT ![r].status = st] \in Seq(Record)
<1>1. recs \in [1..Len(recs) -> Record] /\ Len(recs) \in Nat
  BY LenProperties
<1>2. [recs EXCEPT ![r].status = st] \in [1..Len(recs) -> Record]
  BY <1>1 DEF Record
<1>3. QED BY <1>1, <1>2, SeqDef

\* Counting an accepted message keeps the records typed.
LEMMA RecordCountType ==
    ASSUME recs \in Seq(Record), NEW r \in Nat
    PROVE  [recs EXCEPT ![r].got = @ + 1] \in Seq(Record)
<1>1. recs \in [1..Len(recs) -> Record] /\ Len(recs) \in Nat
  BY LenProperties
<1>2. [recs EXCEPT ![r].got = @ + 1] \in [1..Len(recs) -> Record]
  <2> SUFFICES ASSUME NEW i \in 1..Len(recs)
               PROVE  [recs EXCEPT ![r].got = @ + 1][i] \in Record
    BY <1>1
  <2>1. CASE i = r
    <3>1. recs[r] \in Record /\ recs[r].got + 1 \in Nat
      BY <1>1, <2>1 DEF Record
    <3>2. [recs[r] EXCEPT !.got = recs[r].got + 1] \in Record
      BY <3>1 DEF Record
    <3>3. QED BY <1>1, <2>1, <3>2
  <2>2. CASE i # r
    BY <1>1, <2>2
  <2>3. QED BY <2>1, <2>2
<1>3. QED BY <1>1, <1>2, SeqDef

\* A step that goes on with the same order.
LEMMA GoOnType ==
    ASSUME TypeInv, NEW s \in Session, NEW p \in PCs, NEW l \in Local, l.cur \in Order, Goto(s, p, l),
           UNCHANGED <<confirmed, settings, sweep, starts, crashes>>,
           order' \in [Order -> Row], recs' \in Seq(Record), stock' \in Seq(Line),
           lock' \in [Order -> Session \cup {Free}]
    PROVE  TypeInv'
<1>1. pc' \in [Session -> PCs] /\ loc' \in [Session -> Local] /\ Working'
  BY GotoType
<1>2. QED BY <1>1 DEF TypeInv, TypeOK

\* Reserving, recording, sending and undoing.
LEMMA SendType ==
    ASSUME TypeInv, NEW s \in Session,
           MarkSending(s) \/ ReserveContent(s) \/ CreateRecord(s) \/ SendSegment(s) \/ SendFails(s)
           \/ RestoreContent(s) \/ FailRecord(s)
    PROVE  TypeInv'
<1> USE DEF PCs
<1>0. pc[s] # "idle"
  BY DEF MarkSending, Mark, ReserveContent, Reserve, CreateRecord, SendSegment, SendFails,
         RestoreContent, Restore, FailRecord
<1>1. loc[s] \in Local /\ loc[s].cur \in Order /\ Pending(s) \in Row
  BY <1>0, WorkingSession
<1>2. ASSUME MarkSending(s) PROVE TypeInv'
  <2> DEFINE new == [Pending(s) EXCEPT !.send = "sending"]
  <2>1. new \in Row
    BY <1>1 DEF Row, SendStatuses
  <2>2. order' \in [Order -> Row] /\ Committed(loc[s], new) \in Local /\ Committed(loc[s], new).cur \in Order
    BY <1>0, <1>1, <1>2, <2>1, CommitType DEF MarkSending, Mark
  <2>3. QED BY <1>2, <2>2, GoOnType, UnlockedType DEF MarkSending, Mark, TypeInv, TypeOK
<1>3. ASSUME ReserveContent(s) PROVE TypeInv'
  <2> DEFINE n == Need[loc[s].cur]
             cards == loc[s].cards
             left == SubSeq(cards, n + 1, Len(cards))
             reserved == [loc[s] EXCEPT !.held = SubSeq(cards, 1, n), !.cards = left]
  <2>1. cards \in Seq(Line) /\ n \in Nat
    BY <1>1, StockAssumption DEF Local
  <2>2. left \in Seq(Line)
    BY <2>1, SubSeqProperties, LenProperties
  <2>3. CASE n <= Len(cards) /\ Goto(s, "record", reserved) /\ stock' = left
    <3>1. SubSeq(cards, 1, n) \in Seq(Line)
      BY <2>1, <2>3, SubSeqProperties, LenProperties
    <3>2. reserved \in Local /\ reserved.cur \in Order
      BY <1>1, <2>2, <3>1 DEF Local
    <3>3. stock' \in Seq(Line)
      BY <2>2, <2>3
    <3> HIDE DEF reserved, left
    <3>4. QED BY <1>3, <2>3, <3>2, <3>3, GoOnType DEF ReserveContent, Reserve, TypeInv, TypeOK
  <2>4. CASE (Goto(s, "record", loc[s]) \/ Goto(s, "record_failure", loc[s])) /\ UNCHANGED stock
    BY <1>1, <1>3, <2>4, GoOnType DEF ReserveContent, Reserve, TypeInv, TypeOK
  <2>5. QED BY <1>3, <2>3, <2>4 DEF ReserveContent, Reserve
<1>4. ASSUME CreateRecord(s) PROVE TypeInv'
  <2>1. [order |-> loc[s].cur, status |-> "sending", lines |-> loc[s].held, got |-> 0] \in Record
    BY <1>1 DEF Local, Record
  <2>2. recs' \in Seq(Record) /\ Len(recs) + 1 \in Nat
    BY <1>4, <2>1 DEF CreateRecord, TypeInv, TypeOK
  <2>3. [loc[s] EXCEPT !.rec = Len(recs) + 1] \in Local /\ [loc[s] EXCEPT !.rec = Len(recs) + 1].cur \in Order
    BY <1>1, <2>2 DEF Local
  <2>4. QED BY <1>4, <2>2, <2>3, GoOnType DEF CreateRecord, TypeInv, TypeOK
<1>5. Accepted(s) => recs' \in Seq(Record)
  <2>1. recs \in Seq(Record) /\ loc[s].rec \in Nat
    BY <1>1 DEF Local, TypeInv, TypeOK
  <2>2. [recs EXCEPT ![loc[s].rec].got = @ + 1] \in Seq(Record)
    BY <2>1, RecordCountType
  <2>3. QED BY <2>2 DEF Accepted
<1>6. ASSUME SendSegment(s) PROVE TypeInv'
  <2> DEFINE l == [loc[s] EXCEPT !.sent = loc[s].sent + 1]
  <2>1. l \in Local /\ l.cur \in Order
    BY <1>1 DEF Local
  <2>2. \E p \in PCs : Goto(s, p, l)
    BY <1>6 DEF SendSegment
  <2> HIDE DEF l
  <2>3. QED BY <1>5, <1>6, <2>1, <2>2, GoOnType DEF SendSegment, TypeInv, TypeOK
<1>7. ASSUME SendFails(s) PROVE TypeInv'
  <2>1. recs' \in Seq(Record)
    BY <1>5, <1>7 DEF SendFails, TypeInv, TypeOK
  <2>2. QED BY <1>1, <1>7, <2>1, GoOnType DEF SendFails, TypeInv, TypeOK
<1>8. ASSUME RestoreContent(s) PROVE TypeInv'
  <2> DEFINE cards == loc[s].held \o loc[s].cards
             l == [loc[s] EXCEPT !.cards = cards, !.held = <<>>]
  <2>1. cards \in Seq(Line)
    BY <1>1, ConcatProperties DEF Local
  <2>2. l \in Local /\ l.cur \in Order
    BY <1>1, <2>1, EmptySeq DEF Local
  <2>3. stock' \in Seq(Line) /\ Goto(s, "fail_record", l)
    BY <1>8, <2>1 DEF RestoreContent, Restore, TypeInv, TypeOK
  <2> HIDE DEF l
  <2>4. QED BY <1>8, <2>2, <2>3, GoOnType DEF RestoreContent, Restore, TypeInv, TypeOK
<1>9. ASSUME FailRecord(s) PROVE TypeInv'
  <2>1. recs' \in Seq(Record)
    BY <1>1, <1>9, RecordStatusType DEF FailRecord, Local, TypeInv, TypeOK
  <2>2. QED BY <1>1, <1>9, <2>1, GoOnType DEF FailRecord, TypeInv, TypeOK
<1>10. QED BY <1>2, <1>3, <1>4, <1>6, <1>7, <1>8, <1>9

\* The steps that end a session's work on its order.
LEMMA CloseType ==
    ASSUME TypeInv, NEW s \in Session,
           Finish(s) \/ FailOrder(s) \/ RecordFailure(s) \/ RecordConfirmation(s) \/ RecordNoLogistics(s)
    PROVE  TypeInv'
<1>0. pc[s] # "idle"
  BY DEF Finish, FailOrder, CloseFailed, RecordFailure, RecordConfirmation, RecordNoLogistics
<1>1. loc[s] \in Local /\ loc[s].cur \in Order /\ Pending(s) \in Row
  BY <1>0, WorkingSession
<1>2. ASSUME NEW new \in Row, CommitOrder(s, new), Leave(s, Committed(loc[s], new), TRUE),
             recs' \in Seq(Record), stock' \in Seq(Line),
             UNCHANGED <<confirmed, settings, sweep, starts, crashes>>
      PROVE  TypeInv'
  <2>1. order' \in [Order -> Row] /\ Committed(loc[s], new) \in Local
    BY <1>0, <1>2, CommitType
  <2>2. /\ pc' \in [Session -> PCs] /\ loc' \in [Session -> Local] /\ Working'
        /\ lock' \in [Order -> Session \cup {Free}]
    BY <1>2, <2>1, LeaveType
  <2>3. QED BY <1>2, <2>1, <2>2 DEF TypeInv, TypeOK
<1>3. ASSUME Finish(s) PROVE TypeInv'
  <2> DEFINE new == [Pending(s) EXCEPT !.send = "success", !.content = "card",
                                       !.cardOnly = @ \/ OnlySendCard]
  <2>1. new \in Row
    BY <1>1 DEF Row, SendStatuses, Contents, OnlySendCard
  <2>2. recs' \in Seq(Record)
    BY <1>1, <1>3, RecordStatusType DEF Finish, Local, TypeInv, TypeOK
  <2>3. stock' \in Seq(Line)
    BY <1>1, <1>3 DEF Finish, Local, TypeInv, TypeOK
  <2>4. CommitOrder(s, new) /\ Leave(s, Committed(loc[s], new), TRUE)
    BY <1>3 DEF Finish
  <2> HIDE DEF new
  <2>5. QED BY <1>2, <1>3, <2>1, <2>2, <2>3, <2>4 DEF Finish
<1>4. ASSUME FailOrder(s) PROVE TypeInv'
  <2>1. [Pending(s) EXCEPT !.send = "failed"] \in Row
    BY <1>1 DEF Row, SendStatuses
  <2>2. QED BY <1>2, <1>4, <2>1 DEF FailOrder, CloseFailed, TypeInv, TypeOK
<1>5. ASSUME RecordFailure(s) PROVE TypeInv'
  <2>1. [Pending(s) EXCEPT !.send = "failed"] \in Row
    BY <1>1 DEF Row, SendStatuses
  <2>2. [order |-> loc[s].cur, status |-> "failed", lines |-> <<>>, got |-> 0] \in Record
    BY <1>1, EmptySeq DEF Record
  <2>3. recs' \in Seq(Record) /\ stock' \in Seq(Line)
    BY <1>5, <2>2 DEF RecordFailure, TypeInv, TypeOK
  <2>4. QED BY <1>2, <1>5, <2>1, <2>3 DEF RecordFailure
<1>6. ASSUME RecordConfirmation(s) PROVE TypeInv'
  BY <1>1, <1>2, <1>6 DEF RecordConfirmation, TypeInv, TypeOK
<1>7. ASSUME RecordNoLogistics(s) PROVE TypeInv'
  <2>1. [Pending(s) EXCEPT !.send = "success", !.content = "no_logistics"] \in Row
    BY <1>1 DEF Row, SendStatuses, Contents
  <2>2. QED BY <1>2, <1>7, <2>1 DEF RecordNoLogistics, TypeInv, TypeOK
<1>8. QED BY <1>3, <1>4, <1>5, <1>6, <1>7

\* The initial states are well typed.
LEMMA InitType == Init => TypeInv
<1> SUFFICES ASSUME Init PROVE TypeInv
  OBVIOUS
<1>1. order \in [Order -> Row]
  <2>1. ASSUME NEW st \in InitStatuses
        PROVE  [status |-> st, send |-> "none", cardOnly |-> FALSE, content |-> "none"] \in Row
    BY StatusAssumption DEF Row, SendStatuses, Contents
  <2>2. QED BY <2>1 DEF Init
<1>2. recs \in Seq(Record) /\ stock \in Seq(Line)
  BY EmptySeq, StockAssumption DEF Init
<1>3. settings \subseteq Switches
  BY SettingsAssumption DEF Init, Normalise, Switches
<1>4. pc \in [Session -> PCs] /\ loc \in [Session -> Local] /\ Working
  BY FreshType DEF Init, PCs, Working
<1>5. QED BY <1>1, <1>2, <1>3, <1>4 DEF Init, TypeInv, TypeOK

\* Every step keeps the types.
LEMMA StepType == TypeInv /\ [Next]_vars => TypeInv'
<1> SUFFICES ASSUME TypeInv, [Next]_vars PROVE TypeInv'
  OBVIOUS
<1>1. CASE UNCHANGED vars
  BY <1>1 DEF vars, TypeInv, TypeOK, Working
<1>2. ASSUME NEW s \in Session, Request(s) PROVE TypeInv'
  BY <1>2, RequestType
<1>3. ASSUME NEW s \in Session, Step(s) PROVE TypeInv'
  BY <1>3, CheckType, PlatformType, SendType, CloseType DEF Step
<1>4. CASE SweepRead
  <2>1. DOMAIN recs \subseteq Nat
    BY LenProperties DEF TypeInv, TypeOK
  <2>2. sweep' \in [recs : SUBSET Nat, orders : SUBSET Order]
    BY <1>4, <2>1 DEF SweepRead
  <2>3. QED BY <1>4, <2>2 DEF SweepRead, TypeInv, TypeOK, Working
<1>5. CASE SweepWrite
  <2>1. recs \in [1..Len(recs) -> Record] /\ Len(recs) \in Nat
    BY LenProperties DEF TypeInv, TypeOK
  <2>2. recs' \in [1..Len(recs) -> Record]
    BY <1>5, <2>1 DEF SweepWrite, Record
  <2>3. recs' \in Seq(Record)
    BY <2>1, <2>2, SeqDef
  <2>4. order' \in [Order -> Row] /\ sweep' \in [recs : SUBSET Nat, orders : SUBSET Order]
    BY <1>5 DEF SweepWrite, TypeInv, TypeOK, Row, SendStatuses
  <2>5. QED BY <1>5, <2>3, <2>4 DEF SweepWrite, TypeInv, TypeOK, Working
<1>6. ASSUME NEW o \in Order, BuyerCancels(o) PROVE TypeInv'
  <2>1. order' \in [Order -> Row]
    BY <1>6 DEF BuyerCancels, TypeInv, TypeOK, Row, Statuses
  <2>2. QED BY <1>6, <2>1 DEF BuyerCancels, TypeInv, TypeOK, Working
<1>7. CASE Crash
  BY <1>7, FreshType DEF Crash, TypeInv, TypeOK, Working, PCs
<1>8. CASE Rest
  BY <1>1, <1>8 DEF Rest
<1>9. QED BY <1>1, <1>2, <1>3, <1>4, <1>5, <1>6, <1>7, <1>8 DEF Next

\* Every variable keeps its type, for any number of orders, sessions and lines,
\* and a session that works has an order to work on.
THEOREM TypeCorrect == Spec => [](TypeOK /\ Working)
<1>1. QED BY InitType, StepType, PTL DEF Spec, TypeInv

-----------------------------------------------------------------------------
(* Shipped means confirmed. What a session has loaded or set counts too: it *)
(* may be written at its next commit.                                      *)

SessionsConfirmed ==
    \A s \in Session :
        /\ loc[s].pend = "shipped" => loc[s].cur \in Order /\ confirmed[loc[s].cur]
        /\ \A o \in Order : loc[s].cache[o].status = "shipped" => confirmed[o]

ConfirmedInv == ShippedMeansConfirmed /\ SessionsConfirmed

\* A new session remembers no order as shipped.
LEMMA FreshConfirmed ==
    Fresh.pend # "shipped" /\ \A o \in Order : Fresh.cache[o].status # "shipped"
BY DEF Fresh

\* A session that goes on keeps the confirmations true, if what it holds is.
LEMMA GotoConfirmed ==
    ASSUME TypeInv, SessionsConfirmed, NEW s \in Session, NEW p, NEW l \in Local, Goto(s, p, l),
           \A o \in Order : confirmed[o] => confirmed'[o],
           l.pend = "shipped" => l.cur \in Order /\ confirmed'[l.cur],
           \A o \in Order : l.cache[o].status = "shipped" => confirmed'[o]
    PROVE  SessionsConfirmed'
BY DEF TypeInv, TypeOK, SessionsConfirmed, Goto

\* So does one that leaves an order.
LEMMA LeaveConfirmed ==
    ASSUME TypeInv, SessionsConfirmed, NEW s \in Session, NEW b, NEW l \in Local, Leave(s, l, b),
           UNCHANGED confirmed,
           \A o \in Order : l.cache[o].status = "shipped" => confirmed[o]
    PROVE  SessionsConfirmed'
<1>1. CASE Goto(s, "idle", Fresh)
  BY <1>1, FreshType, FreshConfirmed, GotoConfirmed
<1>2. ASSUME NEW o \in l.todo,
             Goto(s, "begin", [l EXCEPT !.cur = o, !.todo = @ \ {o}, !.pend = "absent",
                                        !.held = <<>>, !.rec = NoRecord, !.sent = 0])
      PROVE  SessionsConfirmed'
  <2> DEFINE m == [l EXCEPT !.cur = o, !.todo = @ \ {o}, !.pend = "absent",
                            !.held = <<>>, !.rec = NoRecord, !.sent = 0]
  <2>1. m \in Local /\ m.pend = "absent" /\ m.cache = l.cache
    BY EmptySeq DEF Local, Statuses, NoRecord
  <2> HIDE DEF m
  <2>2. Goto(s, "begin", m)
    BY <1>2 DEF m
  <2>3. QED BY <2>1, <2>2, GotoConfirmed
<1>3. QED BY <1>1, <1>2 DEF Leave

\* A row is committed as shipped only for an order that was confirmed.
LEMMA CommitConfirmed ==
    ASSUME TypeInv, ConfirmedInv, NEW s \in Session, pc[s] # "idle",
           NEW new \in Row, new.status = loc[s].pend, CommitOrder(s, new), UNCHANGED confirmed
    PROVE  /\ ShippedMeansConfirmed'
           /\ Committed(loc[s], new).pend = "shipped" => confirmed[loc[s].cur]
           /\ \A o \in Order : Committed(loc[s], new).cache[o].status = "shipped" => confirmed[o]
<1>1. loc[s] \in Local /\ loc[s].cur \in Order /\ Cached(s) \in Row
  BY WorkingSession
<1>2. new.status = "shipped" => confirmed[loc[s].cur]
  BY DEF ConfirmedInv, SessionsConfirmed
<1>3. ShippedMeansConfirmed'
  BY <1>1, <1>2 DEF TypeInv, TypeOK, Row, ConfirmedInv, ShippedMeansConfirmed, CommitOrder,
     Write, Dirty
<1>4. Committed(loc[s], new).pend = "shipped" => confirmed[loc[s].cur]
  BY <1>1, <1>2 DEF Committed, Local
<1>5. \A o \in Order : Committed(loc[s], new).cache[o].status = "shipped" => confirmed[o]
  BY <1>1, <1>2 DEF Committed, Local, ConfirmedInv, SessionsConfirmed
<1>6. QED BY <1>3, <1>4, <1>5

\* A request that comes in confirms and ships nothing.
LEMMA RequestConfirmed ==
    ASSUME TypeInv, ConfirmedInv, NEW s \in Session, Request(s) PROVE ConfirmedInv'
<1>1. UNCHANGED <<order, confirmed>>
  BY DEF Request, LiveEvent, ManualDelivery, NoLogistics, ScanOrders, Arrives
<1>2. ASSUME NEW k \in SourceKinds, NEW o \in Order
      PROVE  /\ Opened(k, o) \in Local /\ Opened(k, o).pend = "absent"
             /\ Opened(k, o).cache = order
  <2> DEFINE l == [Fresh EXCEPT !.kind = k, !.cur = o, !.cache = order]
  <2>1. l \in Local /\ l.pend = "absent" /\ l.cache = order
    BY FreshType DEF TypeInv, TypeOK, Local, Fresh
  <2>2. QED BY <2>1, ViewType DEF TypeInv, Opened
<1>3. ASSUME NEW p, NEW l \in Local, l.pend = "absent", l.cache = order, Goto(s, p, l)
      PROVE  ConfirmedInv'
  BY <1>1, <1>3, GotoConfirmed DEF ConfirmedInv, ShippedMeansConfirmed
<1>4. CASE ScanOrders(s)
  <2> DEFINE rows == {o \in Order : order[o].status \in ELIGIBLE_ORDER_STATUSES /\ ~order[o].cardOnly}
  <2>1. PICK o \in rows : Goto(s, "begin", [Opened("scan", o) EXCEPT !.todo = rows \ {o}])
    BY <1>4 DEF ScanOrders
  <2>2. Opened("scan", o) \in Local /\ Opened("scan", o).pend = "absent" /\ Opened("scan", o).cache = order
    BY <1>2 DEF SourceKinds
  <2> DEFINE l == [Opened("scan", o) EXCEPT !.todo = rows \ {o}]
  <2>3. l \in Local /\ l.pend = "absent" /\ l.cache = order
    BY <2>2 DEF Local
  <2> HIDE DEF rows, l
  <2>4. Goto(s, "begin", l)
    BY <2>1 DEF l
  <2>5. QED BY <1>3, <2>3, <2>4
<1>5. ASSUME NEW o \in Order, LiveEvent(s, o) \/ ManualDelivery(s, o) \/ NoLogistics(s, o) PROVE ConfirmedInv'
  BY <1>2, <1>3, <1>5 DEF LiveEvent, ManualDelivery, NoLogistics, SourceKinds
<1>6. QED BY <1>4, <1>5 DEF Request

\* Every step of a session keeps shipped and confirmed together.
LEMMA StepConfirmed ==
    ASSUME TypeInv, ConfirmedInv, NEW s \in Session, Step(s) PROVE ConfirmedInv'
<1>0. pc[s] # "idle"
  BY DEF Step, SkipDelivered, LockOrder, AlreadySent, AlreadySending, Reject, Accept,
     ConfirmFirst,
         MarkSending, Mark, ReserveContent, Reserve, CreateRecord, SendSegment, SendFails,
         ConfirmAfter, Finish, RestoreContent, Restore, FailRecord, FailOrder, CloseFailed,
         RecordFailure, Reconfirm, RecordConfirmation, CallNoLogistics, RecordNoLogistics
<1>1. loc[s] \in Local /\ loc[s].cur \in Order /\ Cached(s) \in Row /\ Pending(s) \in Row
  BY <1>0, WorkingSession
<1>2. /\ loc[s].pend = "shipped" => confirmed[loc[s].cur]
      /\ \A o \in Order : loc[s].cache[o].status = "shipped" => confirmed[o]
  BY DEF ConfirmedInv, SessionsConfirmed
<1>3. View(loc[s]) \in Local /\ View(loc[s]).cur = loc[s].cur
      /\ View(loc[s]).pend = loc[s].pend /\ View(loc[s]).cache = loc[s].cache
  BY <1>1, ViewType DEF TypeInv
\* The session goes on, or leaves, without a commit and without the platform.
<1>4. ASSUME NEW p, NEW l \in Local, Goto(s, p, l), UNCHANGED <<order, confirmed>>,
             l.cur = loc[s].cur, l.cache = loc[s].cache, l.pend = "shipped" => confirmed[loc[s].cur]
      PROVE  ConfirmedInv'
  BY <1>1, <1>2, <1>4, GotoConfirmed DEF ConfirmedInv, ShippedMeansConfirmed
<1>5. ASSUME NEW b, NEW l \in Local, Leave(s, l, b), UNCHANGED <<order, confirmed>>, l.cache = loc[s].cache
      PROVE  ConfirmedInv'
  BY <1>2, <1>5, LeaveConfirmed DEF ConfirmedInv, ShippedMeansConfirmed
\* The session closes with a commit.
<1>6. ASSUME NEW new \in Row, new.status = loc[s].pend, CommitOrder(s, new), UNCHANGED confirmed,
             Leave(s, Committed(loc[s], new), TRUE)
      PROVE  ConfirmedInv'
  <2>1. Committed(loc[s], new) \in Local
    BY <1>0, CommitType
  <2>2. ShippedMeansConfirmed'
        /\ \A o \in Order : Committed(loc[s], new).cache[o].status = "shipped" => confirmed[o]
    BY <1>0, <1>6, CommitConfirmed
  <2>3. QED BY <1>6, <2>1, <2>2, LeaveConfirmed DEF ConfirmedInv
\* The platform confirms the order, or not.
<1>7. ASSUME NEW p, NEW l \in {loc[s], [loc[s] EXCEPT !.pend = "shipped"]}, Goto(s, p, l), UNCHANGED order,
             PlatformConfirms(s) \/ (UNCHANGED confirmed /\ l = loc[s])
      PROVE  ConfirmedInv'
  <2>1. l \in Local /\ l.cur = loc[s].cur /\ l.cache = loc[s].cache
    BY <1>1 DEF Local, Statuses
  <2>2. (\A o \in Order : confirmed[o] => confirmed'[o]) /\ (l.pend = "shipped" => confirmed'[loc[s].cur])
    BY <1>1, <1>2, <1>7 DEF PlatformConfirms, TypeInv, TypeOK
  <2>3. SessionsConfirmed'
    BY <1>1, <1>2, <1>7, <2>1, <2>2, GotoConfirmed DEF ConfirmedInv
  <2>4. QED BY <1>7, <2>2, <2>3 DEF ConfirmedInv, ShippedMeansConfirmed
<1>8. CASE SkipDelivered(s)
  <2>1. [loc[s] EXCEPT !.pend = Cached(s).status] \in Local
        /\ [loc[s] EXCEPT !.pend = Cached(s).status].cur = loc[s].cur
        /\ [loc[s] EXCEPT !.pend = Cached(s).status].cache = loc[s].cache
        /\ ([loc[s] EXCEPT !.pend = Cached(s).status].pend = "shipped" => confirmed[loc[s].cur])
    BY <1>1, <1>2 DEF Local, Row, Cached
  <2>2. QED BY <1>1, <1>4, <1>5, <1>8, <2>1 DEF SkipDelivered
<1>9. CASE LockOrder(s)
  <2> DEFINE pend == IF loc[s].kind = "live" /\ Cached(s).status \in {"absent", "unknown", "pending_payment"}
                     THEN "pending_ship" ELSE Cached(s).status
             l == [loc[s] EXCEPT !.pend = pend]
  <2>1. l \in Local /\ l.cur = loc[s].cur /\ l.cache = loc[s].cache /\ l.pend = pend
    BY <1>1 DEF Local, Row, Statuses
  <2>2. l.pend = "shipped" => confirmed[loc[s].cur]
    BY <1>1, <1>2, <2>1 DEF Cached
  <2>3. Leave(s, loc[s], FALSE) \/ Goto(s, "locked", l)
    BY <1>9 DEF LockOrder
  <2>4. UNCHANGED <<order, confirmed>>
    BY <1>9 DEF LockOrder
  <2> HIDE DEF l
  <2>5. QED BY <1>1, <1>4, <1>5, <2>1, <2>2, <2>3, <2>4
<1>10. CASE AlreadySent(s) \/ AlreadySending(s) \/ Reject(s) \/ Accept(s)
  BY <1>1, <1>2, <1>3, <1>4, <1>5, <1>10 DEF AlreadySent, AlreadySending, Reject, Accept
<1>11. CASE ConfirmFirst(s) \/ ConfirmAfter(s) \/ Reconfirm(s) \/ CallNoLogistics(s)
  BY <1>1, <1>5, <1>7, <1>11 DEF ConfirmFirst, ConfirmAfter, Reconfirm, CallNoLogistics
<1>12. CASE MarkSending(s)
  <2> DEFINE new == [Pending(s) EXCEPT !.send = "sending"]
  <2>1. new \in Row /\ new.status = loc[s].pend
    BY <1>1 DEF Row, SendStatuses, Pending
  <2>2. CommitOrder(s, new) /\ Goto(s, "content", Committed(loc[s], new)) /\ UNCHANGED confirmed
    BY <1>12 DEF MarkSending, Mark
  <2> HIDE DEF new
  <2>3. Committed(loc[s], new) \in Local /\ Committed(loc[s], new).cur = loc[s].cur
    BY <1>0, <2>1, CommitType
  <2>4. QED BY <1>0, <1>1, <2>1, <2>2, <2>3, CommitConfirmed, GotoConfirmed DEF ConfirmedInv
<1>13. CASE ReserveContent(s) \/ CreateRecord(s) \/ SendSegment(s) \/ SendFails(s) \/ RestoreContent(s) \/ FailRecord(s)
  <2>1. UNCHANGED <<order, confirmed>>
    BY <1>13 DEF ReserveContent, Reserve, CreateRecord, SendSegment, SendFails, RestoreContent,
       Restore, FailRecord
  <2>2. TypeInv'
    BY <1>13, SendType DEF Step
  <2>3. Goto(s, pc'[s], loc'[s])
    BY <1>13 DEF ReserveContent, Reserve, CreateRecord, SendSegment, SendFails, RestoreContent,
       Restore,
                 FailRecord, Goto, TypeInv, TypeOK
  <2>4. loc'[s].cur = loc[s].cur /\ loc'[s].cache = loc[s].cache /\ loc'[s].pend = loc[s].pend
    <3>1. CASE ReserveContent(s)
      <4> DEFINE n == Need[loc[s].cur]
                 cards == loc[s].cards
                 l == [loc[s] EXCEPT !.held = SubSeq(cards, 1, n), !.cards = SubSeq(cards, n + 1, Len(cards))]
      <4>1. l.cur = loc[s].cur /\ l.cache = loc[s].cache /\ l.pend = loc[s].pend
        BY <1>1 DEF Local
      <4>2. \E p \in PCs : Goto(s, p, loc[s]) \/ Goto(s, p, l)
        BY <3>1 DEF ReserveContent, Reserve, PCs
      <4> HIDE DEF l
      <4>3. QED BY <4>1, <4>2, GotoSets
    <3>2. CASE CreateRecord(s)
      BY <1>1, <3>2, GotoSets DEF CreateRecord, Local
    <3>3. CASE SendSegment(s)
      BY <1>1, <3>3, GotoSets DEF SendSegment, Local
    <3>4. CASE SendFails(s)
      BY <1>1, <3>4, GotoSets DEF SendFails, Local
    <3>5. CASE RestoreContent(s)
      <4> DEFINE l == [loc[s] EXCEPT !.cards = loc[s].held \o loc[s].cards, !.held = <<>>]
      <4>1. l.cur = loc[s].cur /\ l.cache = loc[s].cache /\ l.pend = loc[s].pend
        BY <1>1 DEF Local
      <4>2. Goto(s, "fail_record", l)
        BY <3>5 DEF RestoreContent, Restore
      <4> HIDE DEF l
      <4>3. QED BY <4>1, <4>2, GotoSets
    <3>6. CASE FailRecord(s)
      BY <1>1, <3>6, GotoSets DEF FailRecord, Local
    <3>7. QED BY <1>13, <3>1, <3>2, <3>3, <3>4, <3>5, <3>6
  <2>5. loc'[s] \in Local
    BY <2>2 DEF TypeInv, TypeOK
  <2>6. QED BY <1>2, <1>4, <2>1, <2>3, <2>4, <2>5
<1>14. CASE Finish(s)
  <2> DEFINE new == [Pending(s) EXCEPT !.send = "success", !.content = "card",
                                       !.cardOnly = @ \/ OnlySendCard]
  <2>1. new \in Row /\ new.status = loc[s].pend
    BY <1>1 DEF Row, SendStatuses, Contents, OnlySendCard, Pending
  <2>2. CommitOrder(s, new) /\ Leave(s, Committed(loc[s], new), TRUE) /\ UNCHANGED confirmed
    BY <1>14 DEF Finish
  <2> HIDE DEF new
  <2>3. QED BY <1>6, <2>1, <2>2
<1>15. CASE FailOrder(s) \/ RecordFailure(s)
  <2>1. [Pending(s) EXCEPT !.send = "failed"] \in Row /\ [Pending(s) EXCEPT !.send = "failed"].status = loc[s].pend
    BY <1>1 DEF Row, SendStatuses, Pending
  <2>2. QED BY <1>6, <1>15, <2>1 DEF FailOrder, CloseFailed, RecordFailure
<1>16. CASE RecordConfirmation(s)
  <2>1. Pending(s).status = loc[s].pend
    BY <1>1 DEF Row, Pending
  <2>2. QED BY <1>1, <1>6, <1>16, <2>1 DEF RecordConfirmation
<1>17. CASE RecordNoLogistics(s)
  <2>1. [Pending(s) EXCEPT !.send = "success", !.content = "no_logistics"] \in Row
        /\ [Pending(s) EXCEPT !.send = "success", !.content = "no_logistics"].status = loc[s].pend
    BY <1>1 DEF Row, SendStatuses, Contents, Pending
  <2>2. QED BY <1>6, <1>17, <2>1 DEF RecordNoLogistics
<1>18. QED BY <1>8, <1>9, <1>10, <1>11, <1>12, <1>13, <1>14, <1>15, <1>16, <1>17 DEF Step

\* Nothing is shipped in the beginning.
LEMMA InitConfirmed == Init => ConfirmedInv
<1> SUFFICES ASSUME Init PROVE ConfirmedInv
  OBVIOUS
<1>1. ASSUME NEW o \in Order PROVE order[o].status # "shipped"
  <2>1. order[o] \in {[status |-> st, send |-> "none", cardOnly |-> FALSE, content |-> "none"] : st \in InitStatuses}
    BY DEF Init
  <2>2. QED BY <2>1, StatusAssumption
<1>2. SessionsConfirmed
  BY FreshConfirmed DEF Init, SessionsConfirmed
<1>3. QED BY <1>1, <1>2 DEF ConfirmedInv, ShippedMeansConfirmed

\* Every step keeps shipped and confirmed together.
LEMMA NextConfirmed == TypeInv /\ ConfirmedInv /\ [Next]_vars => ConfirmedInv'
<1> SUFFICES ASSUME TypeInv, ConfirmedInv, [Next]_vars PROVE ConfirmedInv'
  OBVIOUS
<1>1. CASE UNCHANGED vars
  BY <1>1 DEF vars, ConfirmedInv, ShippedMeansConfirmed, SessionsConfirmed
<1>2. ASSUME NEW s \in Session, Request(s) \/ Step(s) PROVE ConfirmedInv'
  BY <1>2, RequestConfirmed, StepConfirmed
<1>3. CASE SweepRead
  BY <1>3 DEF SweepRead, ConfirmedInv, ShippedMeansConfirmed, SessionsConfirmed
<1>4. CASE SweepWrite
  <2>1. \A o \in Order : order'[o].status = order[o].status
    BY <1>4 DEF SweepWrite, TypeInv, TypeOK, Row
  <2>2. QED BY <1>4, <2>1 DEF SweepWrite, ConfirmedInv, ShippedMeansConfirmed, SessionsConfirmed
<1>5. ASSUME NEW o \in Order, BuyerCancels(o) PROVE ConfirmedInv'
  <2>1. \A p \in Order : order'[p].status \in {order[p].status, "cancelled"}
    BY <1>5 DEF BuyerCancels, TypeInv, TypeOK, Row
  <2>2. QED BY <1>5, <2>1 DEF BuyerCancels, ConfirmedInv, ShippedMeansConfirmed, SessionsConfirmed
<1>6. CASE Crash
  BY <1>6, FreshConfirmed DEF Crash, ConfirmedInv, ShippedMeansConfirmed, SessionsConfirmed
<1>7. CASE Rest
  BY <1>1, <1>7 DEF Rest
<1>8. QED BY <1>1, <1>2, <1>3, <1>4, <1>5, <1>6, <1>7 DEF Next

\* No interleaving of deliveries, scans, reconfirmations, the timeout job, buyers'
\* cancellations and crashes shows an order as shipped that Xianyu has not confirmed.
THEOREM ShippedIsConfirmed == Spec => []ShippedMeansConfirmed
<1>1. Init => TypeInv /\ ConfirmedInv
  BY InitType, InitConfirmed
<1>2. TypeInv /\ ConfirmedInv /\ [Next]_vars => (TypeInv /\ ConfirmedInv)'
  BY StepType, NextConfirmed
<1>3. ConfirmedInv => ShippedMeansConfirmed
  BY DEF ConfirmedInv
<1>4. QED BY <1>1, <1>2, <1>3, PTL DEF Spec

-----------------------------------------------------------------------------
(* Sent means whole. While a session sends, the record it created counts    *)
(* the messages accepted for it, nobody else works on that record, and it  *)
(* is not yet recorded as sent.                                            *)

Before == {"begin", "locked", "confirm_first", "mark", "content", "record"}
Sending == {"send", "confirm_after", "finish", "restore", "fail_record"}

OwnRecord(rs, p, l) ==
    /\ l.rec \in DOMAIN rs
    /\ rs[l.rec].order = l.cur
    /\ rs[l.rec].status # "sent"
    /\ p = "send" => rs[l.rec].got = l.sent /\ l.sent < Segments
    /\ p \in {"confirm_after", "finish"} => rs[l.rec].got = Segments

SessionsOwn ==
    \A s \in Session :
        /\ pc[s] \in Before => loc[s].sent = 0
        /\ pc[s] \in Sending => OwnRecord(recs, pc[s], loc[s])
        /\ \A t \in Session \ {s} : pc[s] \in Sending /\ pc[t] \in Sending => loc[s].rec # loc[t].rec

AttemptInv == SentMeansWhole /\ SessionsOwn

\* The records other sessions work on stay as they are.
OthersKept(s) ==
    \A t \in Session \ {s} : pc[t] \in Sending =>
        loc[t].rec \in DOMAIN recs' /\ recs'[loc[t].rec] = recs[loc[t].rec]

\* A session that goes on owns the record it sends for, and no other session has it.
LEMMA GotoOwn ==
    ASSUME TypeInv, SessionsOwn, NEW s \in Session, NEW p, NEW l, Goto(s, p, l), OthersKept(s),
           p \in Before => l.sent = 0,
           p \in Sending => /\ OwnRecord(recs', p, l)
                            /\ \A t \in Session \ {s} : pc[t] \in Sending => loc[t].rec # l.rec
    PROVE  SessionsOwn'
<1>1. pc'[s] = p /\ loc'[s] = l
  BY GotoSets
<1>2. \A t \in Session \ {s} : pc'[t] = pc[t] /\ loc'[t] = loc[t]
  BY DEF Goto, TypeInv, TypeOK
<1>3. \A t \in Session \ {s} : pc[t] \in Sending => OwnRecord(recs', pc[t], loc[t])
  BY <1>2 DEF OthersKept, SessionsOwn, OwnRecord
<1>4. QED BY <1>1, <1>2, <1>3 DEF SessionsOwn

\* A session that leaves an order owns no record.
LEMMA LeaveOwn ==
    ASSUME TypeInv, SessionsOwn, NEW s \in Session, NEW l \in Local, NEW b, Leave(s, l, b), OthersKept(s)
    PROVE  SessionsOwn'
<1>1. CASE Goto(s, "idle", Fresh)
  BY <1>1, GotoOwn DEF Before, Sending
<1>2. ASSUME NEW o \in l.todo,
             Goto(s, "begin", [l EXCEPT !.cur = o, !.todo = @ \ {o}, !.pend = "absent",
                                        !.held = <<>>, !.rec = NoRecord, !.sent = 0])
      PROVE  SessionsOwn'
  <2> DEFINE m == [l EXCEPT !.cur = o, !.todo = @ \ {o}, !.pend = "absent",
                            !.held = <<>>, !.rec = NoRecord, !.sent = 0]
  <2>1. m.sent = 0
    BY DEF Local
  <2> HIDE DEF m
  <2>2. Goto(s, "begin", m)
    BY <1>2 DEF m
  <2>3. QED BY <2>1, <2>2, GotoOwn DEF Before, Sending
<1>3. QED BY <1>1, <1>2 DEF Leave

\* Records may be appended at any time.
LEMMA AppendRecord ==
    ASSUME TypeInv, AttemptInv, NEW s \in Session, NEW r \in Record, r.status # "sent",
           recs' = Append(recs, r)
    PROVE  /\ SentMeansWhole' /\ OthersKept(s)
           /\ DOMAIN recs' = 1..(Len(recs) + 1) /\ recs'[Len(recs) + 1] = r
           /\ \A i \in DOMAIN recs : recs'[i] = recs[i]
           /\ \A t \in Session : pc[t] \in Sending => loc[t].rec # Len(recs) + 1
<1>1. recs \in Seq(Record) /\ Len(recs) \in Nat /\ DOMAIN recs = 1..Len(recs)
  BY LenProperties DEF TypeInv, TypeOK
<1>2. /\ DOMAIN recs' = 1..(Len(recs) + 1) /\ recs'[Len(recs) + 1] = r
      /\ \A i \in DOMAIN recs : recs'[i] = recs[i]
  BY <1>1
<1>3. SentMeansWhole'
  BY <1>1, <1>2 DEF AttemptInv, SentMeansWhole, Whole
<1>4. \A t \in Session : pc[t] \in Sending => loc[t].rec \in DOMAIN recs
  BY DEF AttemptInv, SessionsOwn, OwnRecord
<1>5. QED BY <1>1, <1>2, <1>3, <1>4 DEF OthersKept

\* A session changes the record it works on.
LEMMA ChangeRecord ==
    ASSUME TypeInv, AttemptInv, NEW s \in Session, pc[s] \in Sending, NEW new,
           new.status = "sent" => new.got = Segments,
           recs' = [recs EXCEPT ![loc[s].rec] = new]
    PROVE  /\ SentMeansWhole' /\ OthersKept(s)
           /\ DOMAIN recs' = DOMAIN recs /\ loc[s].rec \in DOMAIN recs
           /\ recs'[loc[s].rec] = new
<1>1. recs \in [1..Len(recs) -> Record] /\ DOMAIN recs = 1..Len(recs)
  BY LenProperties DEF TypeInv, TypeOK
<1>2. loc[s].rec \in DOMAIN recs
  BY DEF AttemptInv, SessionsOwn, OwnRecord
<1>3. /\ DOMAIN recs' = DOMAIN recs
      /\ recs'[loc[s].rec] = new
      /\ \A i \in DOMAIN recs \ {loc[s].rec} : recs'[i] = recs[i]
  BY <1>1, <1>2
<1>4. SentMeansWhole'
  BY <1>3 DEF AttemptInv, SentMeansWhole, Whole
<1>5. OthersKept(s)
  BY <1>3 DEF OthersKept, AttemptInv, SessionsOwn, OwnRecord
<1>6. QED BY <1>2, <1>3, <1>4, <1>5

\* What touches no record disturbs no attempt.
LEMMA KeepRecords ==
    ASSUME AttemptInv, NEW s \in Session, UNCHANGED recs
    PROVE  SentMeansWhole' /\ OthersKept(s)
BY DEF AttemptInv, SentMeansWhole, Whole, OthersKept, SessionsOwn, OwnRecord

\* A request that comes in touches no record.
LEMMA RequestAttempt ==
    ASSUME TypeInv, AttemptInv, NEW s \in Session, Request(s) PROVE AttemptInv'
<1>1. UNCHANGED recs
  BY DEF Request, LiveEvent, ManualDelivery, NoLogistics, ScanOrders, Arrives
<1>2. SentMeansWhole' /\ OthersKept(s)
  BY <1>1, KeepRecords
<1>3. ASSUME NEW k \in SourceKinds, NEW o \in Order
      PROVE  Opened(k, o) \in Local /\ Opened(k, o).sent = 0
  <2> DEFINE l == [Fresh EXCEPT !.kind = k, !.cur = o, !.cache = order]
  <2>1. l \in Local /\ l.sent = 0
    BY FreshType DEF TypeInv, TypeOK, Local, Fresh
  <2>2. QED BY <2>1, ViewType DEF TypeInv, Opened
<1>4. ASSUME NEW o \in Order, LiveEvent(s, o) \/ ManualDelivery(s, o) \/ NoLogistics(s, o) PROVE AttemptInv'
  BY <1>2, <1>3, <1>4, GotoOwn DEF LiveEvent, ManualDelivery, NoLogistics, SourceKinds,
     AttemptInv, Before, Sending
<1>5. CASE ScanOrders(s)
  <2> DEFINE rows == {o \in Order : order[o].status \in ELIGIBLE_ORDER_STATUSES /\ ~order[o].cardOnly}
  <2>1. PICK o \in rows : Goto(s, "begin", [Opened("scan", o) EXCEPT !.todo = rows \ {o}])
    BY <1>5 DEF ScanOrders
  <2> DEFINE l == [Opened("scan", o) EXCEPT !.todo = rows \ {o}]
  <2>2. l.sent = 0
    BY <1>3 DEF SourceKinds, Local
  <2> HIDE DEF rows, l
  <2>3. Goto(s, "begin", l)
    BY <2>1 DEF l
  <2>4. QED BY <1>2, <2>2, <2>3, GotoOwn DEF AttemptInv, Before, Sending
<1>6. QED BY <1>4, <1>5 DEF Request

\* Every step of a session keeps the attempts in order.
LEMMA StepAttempt ==
    ASSUME TypeInv, AttemptInv, NEW s \in Session, Step(s) PROVE AttemptInv'
<1> USE DEF Before, Sending
<1>0. pc[s] # "idle"
  BY DEF Step, SkipDelivered, LockOrder, AlreadySent, AlreadySending, Reject, Accept,
     ConfirmFirst,
         MarkSending, Mark, ReserveContent, Reserve, CreateRecord, SendSegment, SendFails,
         ConfirmAfter, Finish, RestoreContent, Restore, FailRecord, FailOrder, CloseFailed,
         RecordFailure, Reconfirm, RecordConfirmation, CallNoLogistics, RecordNoLogistics
<1>1. loc[s] \in Local /\ loc[s].cur \in Order /\ Cached(s) \in Row /\ Pending(s) \in Row
  BY <1>0, WorkingSession
<1>2. pc[s] \in Before => loc[s].sent = 0
  BY DEF AttemptInv, SessionsOwn
<1>3. View(loc[s]) \in Local /\ View(loc[s]).sent = loc[s].sent
  BY <1>1, ViewType DEF TypeInv
<1>4. SessionsOwn
  BY DEF AttemptInv
<1>5. ASSUME NEW p, NEW l, Goto(s, p, l), UNCHANGED recs, p \in Before => l.sent = 0, p \notin Sending
      PROVE  AttemptInv'
  BY <1>4, <1>5, KeepRecords, GotoOwn DEF AttemptInv
<1>6. ASSUME NEW b, NEW l \in Local, Leave(s, l, b), UNCHANGED recs
      PROVE  AttemptInv'
  BY <1>4, <1>6, KeepRecords, LeaveOwn DEF AttemptInv
\* Moving on with the record, which stays as it is.
<1>7. ASSUME NEW p \in {"finish", "fail_record"}, NEW l, Goto(s, p, l), UNCHANGED recs, pc[s] \in Sending,
             p = "finish" => pc[s] = "confirm_after", l.rec = loc[s].rec, l.cur = loc[s].cur
      PROVE  AttemptInv'
  <2>1. OwnRecord(recs', p, l)
    BY <1>7 DEF AttemptInv, SessionsOwn, OwnRecord
  <2>2. \A t \in Session \ {s} : pc[t] \in Sending => loc[t].rec # l.rec
    BY <1>7 DEF AttemptInv, SessionsOwn
  <2>3. QED BY <1>4, <1>7, <2>1, <2>2, KeepRecords, GotoOwn DEF AttemptInv
<1>8. CASE SkipDelivered(s)
  <2> DEFINE l == [loc[s] EXCEPT !.pend = Cached(s).status]
  <2>1. Leave(s, loc[s], FALSE) \/ Goto(s, "reconfirm", l)
    BY <1>8 DEF SkipDelivered
  <2>2. UNCHANGED recs
    BY <1>8 DEF SkipDelivered
  <2> HIDE DEF l
  <2>3. QED BY <1>1, <1>5, <1>6, <2>1, <2>2
<1>9. CASE LockOrder(s)
  <2> DEFINE l == [loc[s] EXCEPT !.pend =
                     IF loc[s].kind = "live" /\ Cached(s).status \in {"absent", "unknown", "pending_payment"}
                     THEN "pending_ship" ELSE Cached(s).status]
  <2>1. l.sent = loc[s].sent
    BY <1>1 DEF Local
  <2>2. /\ Leave(s, loc[s], FALSE) \/ Goto(s, "locked", l)
        /\ UNCHANGED recs /\ pc[s] = "begin"
    BY <1>9 DEF LockOrder
  <2> HIDE DEF l
  <2>3. QED BY <1>1, <1>2, <1>5, <1>6, <2>1, <2>2
<1>10. CASE AlreadySent(s) \/ AlreadySending(s) \/ Reject(s) \/ Accept(s)
  BY <1>1, <1>2, <1>3, <1>5, <1>6, <1>10 DEF AlreadySent, AlreadySending, Reject, Accept
<1>11. CASE ConfirmFirst(s) \/ Reconfirm(s) \/ CallNoLogistics(s)
  <2>1. [loc[s] EXCEPT !.pend = "shipped"].sent = loc[s].sent
    BY <1>1 DEF Local
  <2>2. QED BY <1>1, <1>2, <1>5, <1>6, <1>11, <2>1 DEF ConfirmFirst, Reconfirm, CallNoLogistics
<1>12. CASE MarkSending(s)
  <2>1. Committed(loc[s], [Pending(s) EXCEPT !.send = "sending"]).sent = loc[s].sent
    BY <1>1 DEF Committed, Local
  <2>2. QED BY <1>2, <1>5, <1>12, <2>1 DEF MarkSending, Mark
<1>13. CASE ReserveContent(s)
  <2> DEFINE n == Need[loc[s].cur]
             cards == loc[s].cards
             l == [loc[s] EXCEPT !.held = SubSeq(cards, 1, n), !.cards = SubSeq(cards, n + 1, Len(cards))]
  <2>1. l.sent = loc[s].sent
    BY <1>1 DEF Local
  <2>2. \E p \in {"record", "record_failure"} : Goto(s, p, loc[s]) \/ Goto(s, p, l)
    BY <1>13 DEF ReserveContent, Reserve
  <2>3. UNCHANGED recs /\ pc[s] = "content"
    BY <1>13 DEF ReserveContent, Reserve
  <2> HIDE DEF l
  <2>4. QED BY <1>2, <1>5, <2>1, <2>2, <2>3
<1>14. CASE CreateRecord(s)
  <2> DEFINE r == [order |-> loc[s].cur, status |-> "sending", lines |-> loc[s].held, got |-> 0]
             l == [loc[s] EXCEPT !.rec = Len(recs) + 1]
  <2>1. r \in Record /\ r.status # "sent" /\ recs' = Append(recs, r)
    BY <1>1, <1>14 DEF CreateRecord, Local, Record
  <2>2. l.rec = Len(recs) + 1 /\ l.cur = loc[s].cur /\ l.sent = 0
    BY <1>1, <1>2, <1>14 DEF CreateRecord, Local
  <2>3. Goto(s, "send", l)
    BY <1>14 DEF CreateRecord
  <2>4. Len(recs) \in Nat
    BY LenProperties DEF TypeInv, TypeOK
  <2>5. /\ SentMeansWhole' /\ OthersKept(s)
        /\ DOMAIN recs' = 1..(Len(recs) + 1) /\ recs'[Len(recs) + 1] = r
        /\ \A t \in Session : pc[t] \in Sending => loc[t].rec # Len(recs) + 1
    BY <2>1, AppendRecord
  <2>6. OwnRecord(recs', "send", l)
    BY <2>2, <2>4, <2>5, CardAssumption DEF OwnRecord
  <2> HIDE DEF r, l
  <2>7. QED BY <1>4, <2>2, <2>3, <2>5, <2>6, GotoOwn DEF AttemptInv
\* What the session knows of the record it works on, and that nobody else does.
<1>15. ASSUME pc[s] \in Sending
       PROVE  /\ OwnRecord(recs, pc[s], loc[s]) /\ recs[loc[s].rec] \in Record
              /\ loc[s].rec \in Nat /\ loc[s].sent \in Nat
              /\ \A t \in Session \ {s} : pc[t] \in Sending => loc[t].rec # loc[s].rec
  <2>1. OwnRecord(recs, pc[s], loc[s]) /\ \A t \in Session \ {s} : pc[t] \in Sending => loc[t].rec # loc[s].rec
    BY <1>4, <1>15 DEF SessionsOwn
  <2>2. recs[loc[s].rec] \in Record
    BY <2>1, LenProperties, ElementOfSeq DEF OwnRecord, TypeInv, TypeOK
  <2>3. QED BY <1>1, <2>1, <2>2 DEF Local
<1>16. ASSUME pc[s] = "send", Accepted(s), NEW p \in {"send", "confirm_after", "finish", "restore"},
              NEW l, Goto(s, p, l), l.rec = loc[s].rec, l.cur = loc[s].cur,
              p = "send" => l.sent = loc[s].sent + 1 /\ l.sent < Segments,
              p \in {"confirm_after", "finish"} => loc[s].sent + 1 >= Segments
       PROVE  AttemptInv'
  <2> DEFINE new == [recs[loc[s].rec] EXCEPT !.got = @ + 1]
  <2>1. /\ recs' = [recs EXCEPT ![loc[s].rec] = new]
        /\ OwnRecord(recs, "send", loc[s]) /\ recs[loc[s].rec] \in Record
    BY <1>15, <1>16 DEF Accepted
  <2>2. /\ new.order = loc[s].cur /\ new.status # "sent"
        /\ new.got = loc[s].sent + 1 /\ loc[s].sent < Segments
    BY <2>1 DEF OwnRecord, Record
  <2> HIDE DEF new
  <2>3. /\ SentMeansWhole' /\ OthersKept(s)
        /\ loc[s].rec \in DOMAIN recs' /\ recs'[loc[s].rec] = new
    BY <1>16, <2>1, <2>2, ChangeRecord
  <2>4. OwnRecord(recs', p, l)
    BY <1>15, <1>16, <2>2, <2>3, CardAssumption DEF OwnRecord
  <2>5. \A t \in Session \ {s} : pc[t] \in Sending => loc[t].rec # l.rec
    BY <1>15, <1>16
  <2>6. QED BY <1>4, <1>16, <2>3, <2>4, <2>5, GotoOwn DEF AttemptInv
<1>17. CASE SendSegment(s)
  <2> DEFINE p == IF loc[s].sent + 1 < Segments THEN "send" ELSE IF ConfirmsAfter THEN "confirm_after" ELSE "finish"
             l == [loc[s] EXCEPT !.sent = loc[s].sent + 1]
  <2>1. pc[s] = "send" /\ Accepted(s) /\ Goto(s, p, l)
    BY <1>17 DEF SendSegment
  <2>2. l.rec = loc[s].rec /\ l.cur = loc[s].cur /\ l.sent = loc[s].sent + 1
    BY <1>1 DEF Local
  <2>3. /\ p \in {"send", "confirm_after", "finish"}
        /\ p = "send" => loc[s].sent + 1 < Segments
        /\ p \in {"confirm_after", "finish"} => loc[s].sent + 1 >= Segments
    BY <1>1, CardAssumption DEF Local
  <2> HIDE DEF p, l
  <2>4. QED BY <1>16, <2>1, <2>2, <2>3
<1>18. CASE SendFails(s)
  <2>1. pc[s] = "send" /\ Goto(s, "restore", loc[s]) /\ (Accepted(s) \/ UNCHANGED recs)
    BY <1>18 DEF SendFails
  <2>2. CASE Accepted(s)
    BY <1>16, <2>1, <2>2
  <2>3. CASE UNCHANGED recs
    <3>1. OwnRecord(recs', "restore", loc[s])
      BY <1>15, <2>1, <2>3 DEF OwnRecord
    <3>2. QED BY <1>4, <1>15, <2>1, <2>3, <3>1, KeepRecords, GotoOwn DEF AttemptInv
  <2>4. QED BY <2>1, <2>2, <2>3
<1>19. CASE ConfirmAfter(s)
  <2> DEFINE l == [loc[s] EXCEPT !.pend = "shipped"]
  <2>1. l.rec = loc[s].rec /\ l.cur = loc[s].cur
    BY <1>1 DEF Local
  <2>2. (Goto(s, "finish", l) \/ Goto(s, "finish", loc[s])) /\ UNCHANGED recs /\ pc[s] = "confirm_after"
    BY <1>19 DEF ConfirmAfter
  <2> HIDE DEF l
  <2>3. QED BY <1>7, <2>1, <2>2
<1>20. CASE RestoreContent(s)
  <2> DEFINE l == [loc[s] EXCEPT !.cards = loc[s].held \o loc[s].cards, !.held = <<>>]
  <2>1. l.rec = loc[s].rec /\ l.cur = loc[s].cur
    BY <1>1 DEF Local
  <2>2. Goto(s, "fail_record", l) /\ UNCHANGED recs /\ pc[s] = "restore"
    BY <1>20 DEF RestoreContent, Restore
  <2> HIDE DEF l
  <2>3. QED BY <1>7, <2>1, <2>2
<1>21. CASE FailRecord(s)
  <2> DEFINE new == [recs[loc[s].rec] EXCEPT !.status = "failed"]
  <2>1. pc[s] = "fail_record" /\ recs' = [recs EXCEPT ![loc[s].rec] = new] /\ Goto(s, "fail_order", loc[s])
    BY <1>21 DEF FailRecord
  <2>2. new.status = "failed"
    BY <1>15, <2>1 DEF Record
  <2> HIDE DEF new
  <2>3. SentMeansWhole' /\ OthersKept(s)
    BY <2>1, <2>2, ChangeRecord
  <2>4. QED BY <1>4, <2>1, <2>3, GotoOwn DEF AttemptInv
<1>22. CASE Finish(s)
  <2> DEFINE new == [recs[loc[s].rec] EXCEPT !.status = "sent"]
  <2>1. /\ pc[s] = "finish" /\ recs' = [recs EXCEPT ![loc[s].rec] = new]
        /\ \E row \in Row : Leave(s, Committed(loc[s], row), TRUE)
    <3>1. [Pending(s) EXCEPT !.send = "success", !.content = "card", !.cardOnly = @ \/ OnlySendCard] \in Row
      BY <1>1 DEF Row, SendStatuses, Contents, OnlySendCard
    <3>2. QED BY <1>22, <3>1 DEF Finish
  <2>2. new.got = Segments
    BY <1>15, <2>1 DEF Record, OwnRecord
  <2> HIDE DEF new
  <2>3. SentMeansWhole' /\ OthersKept(s)
    BY <2>1, <2>2, ChangeRecord
  <2>4. \A row \in Row : Committed(loc[s], row) \in Local
    BY <1>0, CommitType
  <2>5. QED BY <1>4, <2>1, <2>3, <2>4, LeaveOwn DEF AttemptInv
<1>23. ASSUME NEW row \in Row, Leave(s, Committed(loc[s], row), TRUE), SentMeansWhole', OthersKept(s)
       PROVE  AttemptInv'
  BY <1>0, <1>4, <1>23, CommitType, LeaveOwn DEF AttemptInv
<1>24. CASE FailOrder(s) \/ RecordNoLogistics(s)
  <2>1. /\ [Pending(s) EXCEPT !.send = "failed"] \in Row
        /\ [Pending(s) EXCEPT !.send = "success", !.content = "no_logistics"] \in Row
    BY <1>1 DEF Row, SendStatuses, Contents
  <2>2. UNCHANGED recs
    BY <1>24 DEF FailOrder, CloseFailed, RecordNoLogistics
  <2>3. SentMeansWhole' /\ OthersKept(s)
    BY <2>2, KeepRecords
  <2>4. QED BY <1>23, <1>24, <2>1, <2>3 DEF FailOrder, CloseFailed, RecordNoLogistics
<1>25. CASE RecordConfirmation(s)
  <2>1. SentMeansWhole' /\ OthersKept(s)
    BY <1>25, KeepRecords DEF RecordConfirmation
  <2>2. QED BY <1>1, <1>23, <1>25, <2>1 DEF RecordConfirmation
<1>26. CASE RecordFailure(s)
  <2> DEFINE r == [order |-> loc[s].cur, status |-> "failed", lines |-> <<>>, got |-> 0]
  <2>1. [Pending(s) EXCEPT !.send = "failed"] \in Row /\ r \in Record /\ r.status # "sent"
    BY <1>1, EmptySeq DEF Row, SendStatuses, Record
  <2>2. recs' = Append(recs, r) /\ Leave(s, Committed(loc[s], [Pending(s) EXCEPT !.send = "failed"]), TRUE)
    BY <1>26 DEF RecordFailure
  <2> HIDE DEF r
  <2>3. SentMeansWhole' /\ OthersKept(s)
    BY <2>1, <2>2, AppendRecord
  <2>4. QED BY <1>23, <2>1, <2>2, <2>3
<1>27. QED BY <1>8, <1>9, <1>10, <1>11, <1>12, <1>13, <1>14, <1>17, <1>18, <1>19, <1>20, <1>21, <1>22,
              <1>24, <1>25, <1>26 DEF Step

\* Every step keeps the attempts in order.
LEMMA NextAttempt == TypeInv /\ AttemptInv /\ [Next]_vars => AttemptInv'
<1> SUFFICES ASSUME TypeInv, AttemptInv, [Next]_vars PROVE AttemptInv'
  OBVIOUS
<1>1. ASSUME UNCHANGED <<recs, pc, loc>> PROVE AttemptInv'
  BY <1>1 DEF AttemptInv, SentMeansWhole, Whole, SessionsOwn, OwnRecord
<1>2. ASSUME NEW s \in Session, Request(s) \/ Step(s) PROVE AttemptInv'
  BY <1>2, RequestAttempt, StepAttempt
<1>3. CASE SweepWrite
  <2>1. recs \in [1..Len(recs) -> Record]
    BY LenProperties DEF TypeInv, TypeOK
  <2>2. /\ DOMAIN recs' = DOMAIN recs
        /\ \A r \in DOMAIN recs : /\ recs'[r].order = recs[r].order /\ recs'[r].got = recs[r].got
                                  /\ recs'[r].status \in {recs[r].status, "timeout"}
    BY <1>3, <2>1 DEF SweepWrite, Record
  <2>3. UNCHANGED <<pc, loc>>
    BY <1>3 DEF SweepWrite
  <2>4. SentMeansWhole'
    BY <2>2 DEF AttemptInv, SentMeansWhole, Whole
  <2>5. SessionsOwn'
    BY <2>2, <2>3 DEF AttemptInv, SessionsOwn, OwnRecord
  <2>6. QED BY <2>4, <2>5 DEF AttemptInv
<1>4. CASE Crash
  <2>1. UNCHANGED recs /\ \A s \in Session : pc'[s] = "idle"
    BY <1>4 DEF Crash
  <2>2. QED BY <2>1 DEF AttemptInv, SentMeansWhole, Whole, SessionsOwn, Before, Sending
<1>5. CASE UNCHANGED vars \/ SweepRead \/ (\E o \in Order : BuyerCancels(o)) \/ Rest
  BY <1>1, <1>5 DEF vars, SweepRead, BuyerCancels, Rest
<1>6. QED BY <1>2, <1>3, <1>4, <1>5 DEF Next

\* There are no attempts in the beginning.
LEMMA InitAttempt == Init => AttemptInv
BY DEF Init, AttemptInv, SentMeansWhole, SessionsOwn, Before, Sending

\* The types and the attempts hold always.
LEMMA AttemptsTyped == Spec => [](TypeInv /\ AttemptInv)
<1>1. Init => TypeInv /\ AttemptInv
  BY InitType, InitAttempt
<1>2. TypeInv /\ AttemptInv /\ [Next]_vars => (TypeInv /\ AttemptInv)'
  BY StepType, NextAttempt
<1>3. QED BY <1>1, <1>2, PTL DEF Spec

\* A record says "sent" only if Xianyu accepted every message of that attempt: the
\* timeout job, other sessions and crashes never make a part look like the whole.
THEOREM SentIsWhole == Spec => []SentMeansWhole
<1>1. AttemptInv => SentMeansWhole
  BY DEF AttemptInv
<1>2. QED BY <1>1, AttemptsTyped, PTL

-----------------------------------------------------------------------------
(* Delivered is real. A row a session has loaded with content still has some *)
(* in the database: no step takes an order's content away.                 *)

LoadedContent ==
    \A s \in Session, o \in Order : loc[s].cache[o].content # "none" => order[o].content # "none"

DeliveredInv == DeliveredIsReal /\ LoadedContent

\* Whole records stay whole.
WholeKept == \A r \in DOMAIN recs : Whole(r) => r \in DOMAIN recs' /\ Whole(r)' /\ recs'[r].order = recs[r].order

\* No step takes a whole attempt back.
LEMMA NextKeepsWhole == TypeInv /\ AttemptInv /\ [Next]_vars => WholeKept
<1> SUFFICES ASSUME TypeInv, AttemptInv, [Next]_vars PROVE WholeKept
  OBVIOUS
<1>1. recs \in [1..Len(recs) -> Record] /\ DOMAIN recs = 1..Len(recs) /\ Len(recs) \in Nat
  BY LenProperties DEF TypeInv, TypeOK
<1>2. CASE UNCHANGED recs
  BY <1>2 DEF WholeKept, Whole
<1>3. ASSUME NEW r, recs' = Append(recs, r) PROVE WholeKept
  BY <1>1, <1>3 DEF WholeKept, Whole, TypeInv, TypeOK
<1>4. ASSUME NEW i, NEW st, recs' = [recs EXCEPT ![i].status = st] PROVE WholeKept
  <2>1. DOMAIN recs' = DOMAIN recs /\ \A r \in DOMAIN recs : recs'[r].got = recs[r].got /\ recs'[r].order = recs[r].order
    BY <1>1, <1>4 DEF Record
  <2>2. QED BY <2>1 DEF WholeKept, Whole
<1>5. ASSUME NEW s \in Session, pc[s] = "send", Accepted(s) PROVE WholeKept
  <2>1. recs[loc[s].rec].got < Segments
    BY <1>5 DEF AttemptInv, SessionsOwn, OwnRecord, Sending
  <2>2. /\ DOMAIN recs' = DOMAIN recs
        /\ \A r \in DOMAIN recs \ {loc[s].rec} : recs'[r] = recs[r]
    BY <1>1, <1>5 DEF Accepted
  <2>3. QED BY <1>1, <2>1, <2>2, CardAssumption DEF WholeKept, Whole, Record
<1>6. CASE SweepWrite
  <2>1. DOMAIN recs' = DOMAIN recs /\ \A r \in DOMAIN recs : recs'[r].got = recs[r].got /\ recs'[r].order = recs[r].order
    BY <1>1, <1>6 DEF SweepWrite, Record
  <2>2. QED BY <2>1 DEF WholeKept, Whole
<1>7. ASSUME NEW s \in Session, Request(s) PROVE WholeKept
  BY <1>2, <1>7 DEF Request, LiveEvent, ManualDelivery, NoLogistics, ScanOrders, Arrives
<1>8. ASSUME NEW s \in Session, Step(s) PROVE WholeKept
  <2>1. CASE CreateRecord(s) \/ RecordFailure(s)
    BY <1>3, <2>1 DEF CreateRecord, RecordFailure
  <2>2. CASE FailRecord(s) \/ Finish(s)
    BY <1>4, <2>2 DEF FailRecord, Finish
  <2>3. CASE SendSegment(s) \/ SendFails(s)
    BY <1>2, <1>5, <2>3 DEF SendSegment, SendFails
  <2>4. CASE ~(CreateRecord(s) \/ RecordFailure(s) \/ FailRecord(s) \/ Finish(s) \/ SendSegment(s) \/ SendFails(s))
    BY <1>2, <1>8, <2>4 DEF Step, SkipDelivered, LockOrder, AlreadySent, AlreadySending,
       Reject, Accept,
         ConfirmFirst, MarkSending, Mark, ReserveContent, Reserve, ConfirmAfter, RestoreContent, Restore,
         FailOrder, CloseFailed, Reconfirm, RecordConfirmation, CallNoLogistics, RecordNoLogistics
  <2>5. QED BY <2>1, <2>2, <2>3, <2>4
<1>9. CASE UNCHANGED vars \/ SweepRead \/ (\E o \in Order : BuyerCancels(o)) \/ Crash \/ Rest
  BY <1>2, <1>9 DEF vars, SweepRead, BuyerCancels, Crash, Rest
<1>10. QED BY <1>6, <1>7, <1>8, <1>9 DEF Next

\* No order loses its content.
ContentKept == \A o \in Order : order[o].content # "none" => order'[o].content # "none"

\* A session that goes on remembers only contents that an order has.
LEMMA GotoLoaded ==
    ASSUME TypeInv, LoadedContent, ContentKept, NEW s \in Session, NEW p, NEW l, Goto(s, p, l),
           \A o \in Order : l.cache[o].content # "none" => order'[o].content # "none"
    PROVE  LoadedContent'
BY DEF TypeInv, TypeOK, LoadedContent, ContentKept, Goto

\* So does one that leaves an order.
LEMMA LeaveLoaded ==
    ASSUME TypeInv, LoadedContent, ContentKept, NEW s \in Session, NEW b, NEW l \in Local, Leave(s, l, b),
           \A o \in Order : l.cache[o].content # "none" => order'[o].content # "none"
    PROVE  LoadedContent'
<1>1. CASE Goto(s, "idle", Fresh)
  BY <1>1, GotoLoaded DEF Fresh
<1>2. ASSUME NEW o \in l.todo,
             Goto(s, "begin", [l EXCEPT !.cur = o, !.todo = @ \ {o}, !.pend = "absent",
                                        !.held = <<>>, !.rec = NoRecord, !.sent = 0])
      PROVE  LoadedContent'
  <2> DEFINE m == [l EXCEPT !.cur = o, !.todo = @ \ {o}, !.pend = "absent",
                            !.held = <<>>, !.rec = NoRecord, !.sent = 0]
  <2>1. m.cache = l.cache
    BY DEF Local
  <2> HIDE DEF m
  <2>2. Goto(s, "begin", m)
    BY <1>2 DEF m
  <2>3. QED BY <2>1, <2>2, GotoLoaded
<1>3. QED BY <1>1, <1>2 DEF Leave

\* A commit may write content, and "success" only with content.
LEMMA CommitDelivered ==
    ASSUME TypeInv, DeliveredInv, WholeKept, NEW s \in Session, pc[s] # "idle",
           NEW new \in Row, CommitOrder(s, new),
           \/ new.content = Cached(s).content
           \/ new.content = "no_logistics"
           \/ new.content = "card" /\ \E r \in DOMAIN recs : recs[r].order = loc[s].cur /\ Whole(r),
           new.send = "success" => Cached(s).send = "success" \/ new.content # "none"
    PROVE  /\ DeliveredIsReal' /\ ContentKept
           /\ \A o \in Order : Committed(loc[s], new).cache[o].content # "none" => order'[o].content # "none"
<1> DEFINE o == loc[s].cur
           row == Write(order[o], Cached(s), new)
<1>1. loc[s] \in Local /\ o \in Order /\ Cached(s) \in Row
  BY WorkingSession
<1>2. order' = [order EXCEPT ![o] = row] /\ row \in Row /\ order[o] \in Row
  BY <1>1, WriteType DEF CommitOrder, TypeInv, TypeOK
<1>3. /\ row.content = Dirty(order[o].content, Cached(s).content, new.content)
      /\ row.send = Dirty(order[o].send, Cached(s).send, new.send)
  BY DEF Write
<1>4. Cached(s).content # "none" => order[o].content # "none"
  BY <1>1 DEF DeliveredInv, LoadedContent, Cached
<1>5. order[o].content # "none" \/ new.content # "none" => row.content # "none"
  BY <1>3, <1>4 DEF Dirty
<1>6. row.send = "success" => row.content # "none"
  BY <1>1, <1>3, <1>4, <1>5 DEF Dirty, DeliveredInv, DeliveredIsReal
<1>7. ASSUME NEW p \in Order, order[p].content = "card" \/ (p = o /\ row.content = "card")
      PROVE  \E r \in DOMAIN recs : recs[r].order = p /\ Whole(r)
  BY <1>1, <1>3, <1>7 DEF Dirty, DeliveredInv, DeliveredIsReal
<1>8. ASSUME NEW p \in Order, order[p].content = "card" \/ (p = o /\ row.content = "card")
      PROVE  (\E r \in DOMAIN recs : recs[r].order = p /\ Whole(r))'
  BY <1>7, <1>8 DEF WholeKept
<1>9. /\ order'[o] = row
      /\ \A p \in Order \ {o} : order'[p] = order[p]
  BY <1>1, <1>2 DEF TypeInv, TypeOK
<1> HIDE DEF o, row
<1>10. DeliveredIsReal'
  BY <1>6, <1>8, <1>9 DEF DeliveredInv, DeliveredIsReal
<1>11. ContentKept
  BY <1>5, <1>9 DEF ContentKept
<1>12. \A p \in Order : Committed(loc[s], new).cache[p].content # "none" => order'[p].content # "none"
  BY <1>1, <1>5, <1>9 DEF o, Committed, Local, DeliveredInv, LoadedContent
<1>13. QED BY <1>10, <1>11, <1>12

\* The steps that commit nothing for the order.
Uncommitted(s) ==
    \/ SkipDelivered(s) \/ LockOrder(s)
    \/ AlreadySent(s) \/ AlreadySending(s) \/ Reject(s) \/ Accept(s)
    \/ ConfirmFirst(s) \/ ReserveContent(s) \/ CreateRecord(s)
    \/ SendSegment(s) \/ SendFails(s) \/ ConfirmAfter(s)
    \/ RestoreContent(s) \/ FailRecord(s) \/ Reconfirm(s) \/ CallNoLogistics(s)

\* A step that commits no row changes no order, and what was read stays true.
LEMMA UncommittedLoaded ==
    ASSUME TypeInv, LoadedContent, NEW s \in Session, Uncommitted(s)
    PROVE  UNCHANGED order /\ LoadedContent'
<1>0. pc[s] # "idle" /\ UNCHANGED order
  BY DEF Uncommitted, SkipDelivered, LockOrder, AlreadySent, AlreadySending, Reject, Accept,
     ConfirmFirst,
         ReserveContent, Reserve, CreateRecord, SendSegment, SendFails, ConfirmAfter, RestoreContent, Restore,
         FailRecord, Reconfirm, CallNoLogistics
<1> SUFFICES LoadedContent'
  BY <1>0
<1>1. loc[s] \in Local /\ loc[s].cur \in Order
  BY <1>0, WorkingSession
<1>2. View(loc[s]) \in Local /\ View(loc[s]).cache = loc[s].cache
  BY <1>1, ViewType DEF TypeInv
<1>3. ContentKept /\ \A o \in Order : loc[s].cache[o].content # "none" => order'[o].content # "none"
  BY <1>0 DEF ContentKept, LoadedContent
<1>4. ASSUME NEW p, NEW l, l.cache = loc[s].cache, Goto(s, p, l) PROVE LoadedContent'
  BY <1>3, <1>4, GotoLoaded
<1>5. ASSUME NEW b, NEW l \in Local, l.cache = loc[s].cache, Leave(s, l, b) PROVE LoadedContent'
  BY <1>3, <1>5, LeaveLoaded
<1>6. ASSUME NEW v \in Statuses PROVE [loc[s] EXCEPT !.pend = v].cache = loc[s].cache
  BY <1>1 DEF Local
<1>7. CASE SkipDelivered(s) \/ LockOrder(s)
  <2>1. Leave(s, loc[s], FALSE) \/ \E p \in PCs : \E v : Goto(s, p, [loc[s] EXCEPT !.pend = v])
    BY <1>7 DEF SkipDelivered, LockOrder, PCs
  <2>2. \A v : [loc[s] EXCEPT !.pend = v].cache = loc[s].cache
    BY <1>1 DEF Local
  <2>3. QED BY <1>1, <1>4, <1>5, <2>1, <2>2
<1>8. CASE AlreadySent(s) \/ AlreadySending(s) \/ Reject(s) \/ Accept(s)
  BY <1>1, <1>2, <1>4, <1>5, <1>8 DEF AlreadySent, AlreadySending, Reject, Accept
<1>9. CASE ConfirmFirst(s) \/ ConfirmAfter(s) \/ Reconfirm(s) \/ CallNoLogistics(s)
  BY <1>1, <1>4, <1>5, <1>6, <1>9 DEF ConfirmFirst, ConfirmAfter, Reconfirm, CallNoLogistics,
     Statuses
<1>10. CASE ReserveContent(s)
  <2> DEFINE n == Need[loc[s].cur]
             cards == loc[s].cards
             l == [loc[s] EXCEPT !.held = SubSeq(cards, 1, n), !.cards = SubSeq(cards, n + 1, Len(cards))]
  <2>1. l.cache = loc[s].cache
    BY <1>1 DEF Local
  <2>2. \E p \in {"record", "record_failure"} : Goto(s, p, loc[s]) \/ Goto(s, p, l)
    BY <1>10 DEF ReserveContent, Reserve
  <2> HIDE DEF l
  <2>3. QED BY <1>4, <2>1, <2>2
<1>11. CASE CreateRecord(s)
  <2>1. [loc[s] EXCEPT !.rec = Len(recs) + 1].cache = loc[s].cache
    BY <1>1 DEF Local
  <2>2. QED BY <1>4, <1>11, <2>1 DEF CreateRecord
<1>12. CASE SendSegment(s)
  <2>1. [loc[s] EXCEPT !.sent = loc[s].sent + 1].cache = loc[s].cache
    BY <1>1 DEF Local
  <2>2. \E p \in PCs : Goto(s, p, [loc[s] EXCEPT !.sent = loc[s].sent + 1])
    BY <1>12 DEF SendSegment, PCs
  <2>3. QED BY <1>4, <2>1, <2>2
<1>13. CASE SendFails(s) \/ FailRecord(s)
  BY <1>4, <1>13 DEF SendFails, FailRecord
<1>14. CASE RestoreContent(s)
  <2> DEFINE l == [loc[s] EXCEPT !.cards = loc[s].held \o loc[s].cards, !.held = <<>>]
  <2>1. l.cache = loc[s].cache
    BY <1>1 DEF Local
  <2>2. Goto(s, "fail_record", l)
    BY <1>14 DEF RestoreContent, Restore
  <2> HIDE DEF l
  <2>3. QED BY <1>4, <2>1, <2>2
<1>15. QED BY <1>7, <1>8, <1>9, <1>10, <1>11, <1>12, <1>13, <1>14 DEF Uncommitted

\* Rows that keep their content and gain no success stay delivered for a reason.
LEMMA SameOrderDelivered ==
    ASSUME DeliveredInv, WholeKept, \A o \in Order : order'[o].content = order[o].content,
           \A o \in Order : order'[o].send = "success" => order[o].send = "success"
    PROVE  DeliveredIsReal' /\ ContentKept
<1>1. ASSUME NEW o \in Order, order[o].content = "card"
      PROVE  (\E r \in DOMAIN recs : recs[r].order = o /\ Whole(r))'
  <2>1. PICK r \in DOMAIN recs : recs[r].order = o /\ Whole(r)
    BY <1>1 DEF DeliveredInv, DeliveredIsReal
  <2>2. QED BY <2>1 DEF WholeKept
<1>2. QED BY <1>1 DEF DeliveredInv, DeliveredIsReal, ContentKept

\* A request that comes in delivers nothing.
LEMMA RequestDelivered ==
    ASSUME TypeInv, DeliveredInv, WholeKept, NEW s \in Session, Request(s) PROVE DeliveredInv'
<1>1. UNCHANGED order
  BY DEF Request, LiveEvent, ManualDelivery, NoLogistics, ScanOrders, Arrives
<1>2. DeliveredIsReal' /\ ContentKept
  BY <1>1, SameOrderDelivered
<1>3. ASSUME NEW k \in SourceKinds, NEW o \in Order
      PROVE  Opened(k, o) \in Local /\ Opened(k, o).cache = order
  <2> DEFINE l == [Fresh EXCEPT !.kind = k, !.cur = o, !.cache = order]
  <2>1. l \in Local /\ l.cache = order
    BY FreshType DEF TypeInv, TypeOK, Local, Fresh
  <2>2. QED BY <2>1, ViewType DEF TypeInv, Opened
<1>4. ASSUME NEW p, NEW l, l.cache = order, Goto(s, p, l) PROVE DeliveredInv'
  BY <1>1, <1>2, <1>4, GotoLoaded DEF DeliveredInv
<1>5. CASE ScanOrders(s)
  <2> DEFINE rows == {o \in Order : order[o].status \in ELIGIBLE_ORDER_STATUSES /\ ~order[o].cardOnly}
  <2>1. PICK o \in rows : Goto(s, "begin", [Opened("scan", o) EXCEPT !.todo = rows \ {o}])
    BY <1>5 DEF ScanOrders
  <2> DEFINE l == [Opened("scan", o) EXCEPT !.todo = rows \ {o}]
  <2>2. l.cache = order
    BY <1>3 DEF SourceKinds, Local
  <2> HIDE DEF rows, l
  <2>3. Goto(s, "begin", l)
    BY <2>1 DEF l
  <2>4. QED BY <1>4, <2>2, <2>3
<1>6. ASSUME NEW o \in Order, LiveEvent(s, o) \/ ManualDelivery(s, o) \/ NoLogistics(s, o) PROVE DeliveredInv'
  BY <1>3, <1>4, <1>6 DEF LiveEvent, ManualDelivery, NoLogistics, SourceKinds
<1>7. QED BY <1>5, <1>6 DEF Request

\* Every step of a session keeps what is delivered real.
LEMMA StepDelivered ==
    ASSUME TypeInv, AttemptInv, DeliveredInv, WholeKept, NEW s \in Session, Step(s) PROVE DeliveredInv'
<1>1. CASE Uncommitted(s)
  <2>1. UNCHANGED order /\ LoadedContent'
    BY <1>1, UncommittedLoaded DEF DeliveredInv
  <2>2. QED BY <2>1, SameOrderDelivered DEF DeliveredInv
<1>2. CASE ~Uncommitted(s)
  <2>0. MarkSending(s) \/ Finish(s) \/ FailOrder(s) \/ RecordFailure(s) \/ RecordConfirmation(s) \/ RecordNoLogistics(s)
    BY <1>2 DEF Step, Uncommitted
  <2>1. pc[s] # "idle"
    BY <2>0 DEF MarkSending, Mark, Finish, FailOrder, CloseFailed, RecordFailure,
       RecordConfirmation, RecordNoLogistics
  <2>2. loc[s] \in Local /\ Cached(s) \in Row /\ Pending(s) \in Row
        /\ Pending(s).content = Cached(s).content /\ Pending(s).send = Cached(s).send
    BY <2>1, WorkingSession DEF Row, Pending
  <2>3. ASSUME NEW new \in Row, CommitOrder(s, new),
               \/ Leave(s, Committed(loc[s], new), TRUE)
               \/ \E p \in PCs : Goto(s, p, Committed(loc[s], new)),
               \/ new.content = Cached(s).content
               \/ new.content = "no_logistics"
               \/ new.content = "card" /\ \E r \in DOMAIN recs : recs[r].order = loc[s].cur /\ Whole(r),
               new.send = "success" => Cached(s).send = "success" \/ new.content # "none"
        PROVE  DeliveredInv'
    <3>1. /\ DeliveredIsReal' /\ ContentKept
          /\ \A o \in Order : Committed(loc[s], new).cache[o].content # "none" => order'[o].content # "none"
      BY <2>1, <2>3, CommitDelivered
    <3>2. Committed(loc[s], new) \in Local
      BY <2>1, <2>3, CommitType
    <3>3. LoadedContent'
      BY <2>3, <3>1, <3>2, LeaveLoaded, GotoLoaded DEF DeliveredInv
    <3>4. QED BY <3>1, <3>3 DEF DeliveredInv
  <2>4. CASE MarkSending(s)
    <3> DEFINE new == [Pending(s) EXCEPT !.send = "sending"]
    <3>1. new \in Row /\ new.content = Cached(s).content /\ new.send # "success"
      BY <2>2 DEF Row, SendStatuses
    <3>2. CommitOrder(s, new) /\ Goto(s, "content", Committed(loc[s], new))
      BY <2>4 DEF MarkSending, Mark
    <3> HIDE DEF new
    <3>3. QED BY <2>3, <3>1, <3>2 DEF PCs
  <2>5. CASE Finish(s)
    <3> DEFINE new == [Pending(s) EXCEPT !.send = "success", !.content = "card", !.cardOnly = @ \/ OnlySendCard]
    <3>1. new \in Row /\ new.content = "card"
      BY <2>2 DEF Row, SendStatuses, Contents, OnlySendCard
    <3>2. pc[s] = "finish" /\ CommitOrder(s, new) /\ Leave(s, Committed(loc[s], new), TRUE)
      BY <2>5 DEF Finish
    <3> HIDE DEF new
    <3>3. \E r \in DOMAIN recs : recs[r].order = loc[s].cur /\ Whole(r)
      BY <3>2 DEF AttemptInv, SessionsOwn, OwnRecord, Sending, Whole
    <3>4. QED BY <2>3, <3>1, <3>2, <3>3
  <2>6. CASE FailOrder(s) \/ RecordFailure(s)
    <3> DEFINE new == [Pending(s) EXCEPT !.send = "failed"]
    <3>1. new \in Row /\ new.content = Cached(s).content /\ new.send # "success"
      BY <2>2 DEF Row, SendStatuses
    <3>2. CommitOrder(s, new) /\ Leave(s, Committed(loc[s], new), TRUE)
      BY <2>6 DEF FailOrder, CloseFailed, RecordFailure
    <3> HIDE DEF new
    <3>3. QED BY <2>3, <3>1, <3>2
  <2>7. CASE RecordConfirmation(s)
    BY <2>2, <2>3, <2>7 DEF RecordConfirmation
  <2>8. CASE RecordNoLogistics(s)
    <3> DEFINE new == [Pending(s) EXCEPT !.send = "success", !.content = "no_logistics"]
    <3>1. new \in Row /\ new.content = "no_logistics"
      BY <2>2 DEF Row, SendStatuses, Contents
    <3>2. CommitOrder(s, new) /\ Leave(s, Committed(loc[s], new), TRUE)
      BY <2>8 DEF RecordNoLogistics
    <3> HIDE DEF new
    <3>3. QED BY <2>3, <3>1, <3>2
  <2>9. QED BY <2>0, <2>4, <2>5, <2>6, <2>7, <2>8
<1>3. QED BY <1>1, <1>2

\* Every step keeps what is delivered real.
LEMMA NextDelivered == TypeInv /\ AttemptInv /\ DeliveredInv /\ [Next]_vars => DeliveredInv'
<1> SUFFICES ASSUME TypeInv, AttemptInv, DeliveredInv, [Next]_vars PROVE DeliveredInv'
  OBVIOUS
<1>1. WholeKept
  BY NextKeepsWhole
<1>2. ASSUME NEW s \in Session, Request(s) \/ Step(s) PROVE DeliveredInv'
  BY <1>1, <1>2, RequestDelivered, StepDelivered
<1>3. ASSUME UNCHANGED loc \/ loc' = [s \in Session |-> Fresh],
             \A o \in Order : order'[o].content = order[o].content,
             \A o \in Order : order'[o].send = "success" => order[o].send = "success"
      PROVE  DeliveredInv'
  <2>1. DeliveredIsReal'
    BY <1>1, <1>3, SameOrderDelivered
  <2>2. LoadedContent'
    BY <1>3 DEF DeliveredInv, LoadedContent, Fresh
  <2>3. QED BY <2>1, <2>2 DEF DeliveredInv
<1>4. CASE SweepWrite
  <2>1. \A o \in Order : /\ order'[o].content = order[o].content
                         /\ order'[o].send \in {order[o].send, "timeout"}
    BY <1>4 DEF SweepWrite, TypeInv, TypeOK, Row
  <2>2. UNCHANGED loc
    BY <1>4 DEF SweepWrite
  <2>3. QED BY <1>3, <2>1, <2>2
<1>5. ASSUME NEW o \in Order, BuyerCancels(o) PROVE DeliveredInv'
  <2>1. \A p \in Order : order'[p].content = order[p].content /\ order'[p].send = order[p].send
    BY <1>5 DEF BuyerCancels, TypeInv, TypeOK, Row
  <2>2. UNCHANGED loc
    BY <1>5 DEF BuyerCancels
  <2>3. QED BY <1>3, <2>1, <2>2
<1>6. CASE UNCHANGED vars \/ SweepRead \/ Crash \/ Rest
  BY <1>3, <1>6 DEF vars, SweepRead, Crash, Rest
<1>7. QED BY <1>2, <1>4, <1>5, <1>6 DEF Next

\* Nothing is delivered in the beginning.
LEMMA InitDelivered == Init => DeliveredInv
<1> SUFFICES ASSUME Init PROVE DeliveredInv
  OBVIOUS
<1>1. ASSUME NEW o \in Order PROVE order[o].send = "none" /\ order[o].content = "none"
  <2>1. order[o] \in {[status |-> st, send |-> "none", cardOnly |-> FALSE, content |-> "none"] : st \in InitStatuses}
    BY DEF Init
  <2>2. QED BY <2>1
<1>2. LoadedContent
  BY DEF Init, LoadedContent, Fresh
<1>3. QED BY <1>1, <1>2 DEF DeliveredInv, DeliveredIsReal

\* An order shown as delivered by card has had a whole card accepted for it, and an
\* order shown as delivered says by what.
THEOREM DeliveredMeansAccepted == Spec => []DeliveredIsReal
<1>1. Init => DeliveredInv
  BY InitDelivered
<1>2. TypeInv /\ AttemptInv /\ DeliveredInv /\ [Next]_vars => DeliveredInv'
  BY NextDelivered
<1>3. DeliveredInv => DeliveredIsReal
  BY DEF DeliveredInv
<1>4. QED BY <1>1, <1>2, <1>3, AttemptsTyped, PTL DEF Spec

-----------------------------------------------------------------------------
(* An account that only sends cards: no session ever gets to where the      *)
(* platform is called, because normalising clears the confirmation modes.  *)

Confirming == {"confirm_first", "confirm_after", "reconfirm", "no_logistics"}

QuietInv ==
    /\ OnlySendCard => ~ConfirmsFirst /\ ~ConfirmsAfter
    /\ OnlySendCard /\ "no_logistics" \notin Sources =>
        (\A o \in Order : ~confirmed[o]) /\ \A s \in Session : pc[s] \notin Confirming

\* The only-send-card switch is never on beside another.
LEMMA NormaliseExcludes ==
    ASSUME NEW raw \in SUBSET Switches, "only_send_card" \in Normalise(raw)
    PROVE  Normalise(raw) = {"only_send_card"}
BY DEF Normalise

\* A session that goes on elsewhere than to a confirmation leaves no one confirming.
LEMMA GotoQuiet ==
    ASSUME TypeInv, NEW s \in Session, NEW p, NEW l, Goto(s, p, l), p \notin Confirming,
           \A t \in Session : pc[t] \notin Confirming
    PROVE  \A t \in Session : pc'[t] \notin Confirming
BY DEF Goto, TypeInv, TypeOK

\* Nor does one that leaves an order.
LEMMA LeaveQuiet ==
    ASSUME TypeInv, NEW s \in Session, NEW l, NEW b, Leave(s, l, b), \A t \in Session : pc[t] \notin Confirming
    PROVE  \A t \in Session : pc'[t] \notin Confirming
<1>1. PICK p \in {"idle", "begin"} : \E m : Goto(s, p, m)
  BY DEF Leave
<1>2. QED BY <1>1, GotoQuiet DEF Confirming

\* Where only cards are sent, no step goes to a confirmation that was not asked for.
LEMMA NextQuiet == TypeInv /\ QuietInv /\ [Next]_vars => QuietInv'
<1> SUFFICES ASSUME TypeInv, QuietInv, [Next]_vars PROVE QuietInv'
  OBVIOUS
<1>1. UNCHANGED settings
  BY DEF Next, vars, Request, LiveEvent, ManualDelivery, NoLogistics, ScanOrders, Arrives, Step,
         SkipDelivered, LockOrder, AlreadySent, AlreadySending, Reject, Accept, ConfirmFirst, MarkSending, Mark,
         ReserveContent, Reserve, CreateRecord, SendSegment, SendFails, ConfirmAfter, Finish, RestoreContent,
         Restore, FailRecord, FailOrder, CloseFailed, RecordFailure, Reconfirm, RecordConfirmation,
         CallNoLogistics, RecordNoLogistics, SweepRead, SweepWrite, BuyerCancels, Crash, Rest
<1>2. SUFFICES ASSUME OnlySendCard, "no_logistics" \notin Sources
               PROVE  (\A o \in Order : ~confirmed'[o]) /\ \A s \in Session : pc'[s] \notin Confirming
  BY <1>1 DEF QuietInv, OnlySendCard, ConfirmsFirst, ConfirmsAfter
<1>3. /\ ~ConfirmsFirst /\ ~ConfirmsAfter
      /\ \A o \in Order : ~confirmed[o]
      /\ \A s \in Session : pc[s] \notin Confirming
  BY <1>2 DEF QuietInv
<1>4. ASSUME NEW s \in Session, Request(s)
      PROVE  UNCHANGED confirmed /\ \A t \in Session : pc'[t] \notin Confirming
  <2>1. UNCHANGED confirmed
    BY <1>4 DEF Request, LiveEvent, ManualDelivery, NoLogistics, ScanOrders, Arrives
  <2>2. \E l : Goto(s, "begin", l)
    BY <1>2, <1>4 DEF Request, LiveEvent, ManualDelivery, NoLogistics, ScanOrders, Arrives
  <2>3. QED BY <1>3, <2>1, <2>2, GotoQuiet DEF Confirming
<1>5. ASSUME NEW s \in Session, Step(s)
      PROVE  UNCHANGED confirmed /\ \A t \in Session : pc'[t] \notin Confirming
  <2>1. ~(ConfirmFirst(s) \/ ConfirmAfter(s) \/ Reconfirm(s) \/ CallNoLogistics(s))
    BY <1>3 DEF ConfirmFirst, ConfirmAfter, Reconfirm, CallNoLogistics, Confirming
  <2>2. CASE SkipDelivered(s) \/ LockOrder(s) \/ AlreadySent(s) \/ AlreadySending(s) \/ Reject(s) \/ Accept(s)
    <3>1. UNCHANGED confirmed
      BY <2>2 DEF SkipDelivered, LockOrder, AlreadySent, AlreadySending, Reject, Accept
    <3>2. \/ \E l, b : Leave(s, l, b)
          \/ \E p \in {"locked", "record_failure", "mark"} : \E l : Goto(s, p, l)
      BY <1>3, <2>2 DEF SkipDelivered, LockOrder, AlreadySent, AlreadySending, Reject, Accept
    <3>3. QED BY <1>3, <3>1, <3>2, GotoQuiet, LeaveQuiet DEF Confirming
  <2>3. CASE MarkSending(s) \/ ReserveContent(s) \/ CreateRecord(s) \/ SendSegment(s) \/ SendFails(s)
    <3>1. UNCHANGED confirmed
      BY <2>3 DEF MarkSending, Mark, ReserveContent, Reserve, CreateRecord, SendSegment,
         SendFails
    <3>2. \E p \in {"content", "record", "record_failure", "send", "finish", "restore"} : \E l : Goto(s, p, l)
      BY <1>3, <2>3 DEF MarkSending, Mark, ReserveContent, Reserve, CreateRecord, SendSegment,
         SendFails
    <3>3. QED BY <1>3, <3>1, <3>2, GotoQuiet DEF Confirming
  <2>4. CASE RestoreContent(s) \/ FailRecord(s)
    <3>1. UNCHANGED confirmed /\ \E p \in {"fail_record", "fail_order"} : \E l : Goto(s, p, l)
      BY <2>4 DEF RestoreContent, Restore, FailRecord
    <3>2. QED BY <1>3, <3>1, GotoQuiet DEF Confirming
  <2>5. CASE Finish(s) \/ FailOrder(s) \/ RecordFailure(s) \/ RecordConfirmation(s) \/ RecordNoLogistics(s)
    <3>1. UNCHANGED confirmed /\ \E l, b : Leave(s, l, b)
      BY <2>5 DEF Finish, FailOrder, CloseFailed, RecordFailure, RecordConfirmation,
         RecordNoLogistics
    <3>2. QED BY <1>3, <3>1, LeaveQuiet
  <2>6. QED BY <1>5, <2>1, <2>2, <2>3, <2>4, <2>5 DEF Step
<1>6. CASE UNCHANGED vars \/ SweepRead \/ SweepWrite \/ (\E o \in Order : BuyerCancels(o)) \/ Rest
  BY <1>3, <1>6 DEF vars, SweepRead, SweepWrite, BuyerCancels, Rest
<1>7. CASE Crash
  BY <1>3, <1>7 DEF Crash, Confirming
<1>8. QED BY <1>3, <1>4, <1>5, <1>6, <1>7 DEF Next

\* Nobody confirms in the beginning.
LEMMA InitQuiet == Init => QuietInv
<1> SUFFICES ASSUME Init PROVE QuietInv
  OBVIOUS
<1>1. OnlySendCard => settings = {"only_send_card"}
  BY NormaliseExcludes, SettingsAssumption DEF Init, OnlySendCard
<1>2. OnlySendCard => ~ConfirmsFirst /\ ~ConfirmsAfter
  BY <1>1 DEF ConfirmsFirst, ConfirmsAfter
<1>3. (\A o \in Order : ~confirmed[o]) /\ \A s \in Session : pc[s] \notin Confirming
  BY DEF Init, Confirming
<1>4. QED BY <1>2, <1>3 DEF QuietInv

\* Whatever combination of switches is stored, delivering for an account that only
\* sends cards never confirms an order at Xianyu.
THEOREM OnlySendCardIsQuiet == Spec => []OnlySendCardNeverConfirms
<1>1. Init => TypeInv /\ QuietInv
  BY InitType, InitQuiet
<1>2. TypeInv /\ QuietInv /\ [Next]_vars => (TypeInv /\ QuietInv)'
  BY StepType, NextQuiet
<1>3. QuietInv => OnlySendCardNeverConfirms
  BY DEF QuietInv, OnlySendCardNeverConfirms
<1>4. QED BY <1>1, <1>2, <1>3, PTL DEF Spec

=============================================================================
