------------------------------ MODULE CardDelivery ------------------------------
(***************************************************************************)
(* The card delivery chain of backend/app/services/card_delivery.py, with  *)
(* the routes that start it, the scheduler job that times it out and the   *)
(* database session it runs on.                                            *)
(*                                                                         *)
(* A session is one asyncio task with its own SQLAlchemy AsyncSession.     *)
(* common/db/session.py builds it with expire_on_commit=False and          *)
(* autoflush=False on InnoDB's default REPEATABLE READ, so that            *)
(*   - an object already in the identity map keeps the attribute values it *)
(*     was loaded with, even when a later SELECT ... FOR UPDATE returns a  *)
(*     newer row (no statement asks for populate_existing);                *)
(*   - plain SELECTs of one transaction read the snapshot taken by its     *)
(*     first one;                                                          *)
(*   - a flush writes only the columns whose value differs from the loaded *)
(*     one, and a JSON column is written whole.                            *)
(***************************************************************************)
EXTENDS Naturals, Sequences

CONSTANTS
    Order,          \* order ids; scans visit them in increasing order
    Session,        \* database sessions (asyncio tasks) of the backend
    Line,           \* card secrets, one per line of data_content
    InitStock,      \* the card's data_content at the start
    Need,           \* lines an order takes: its quantity, or 1
    Kind,           \* the card's type
    Segments,       \* messages one card is sent as (text parts or images)
    RawSettings,    \* the account settings as stored, one is chosen at start
    InitStatuses,   \* statuses an order may have at the start
    Sources,        \* requests that arrive
    IMFaults,       \* how sending a message may fail
    Cancellable,    \* orders the buyer may cancel
    Overlapping,    \* orders whose requests may be in flight together
    SlowDelivery,   \* whether a running delivery may outlast the 5 minutes
    MaxStarts,      \* bound on the requests that arrive
    MaxCrashes      \* bound on the backend's crashes

Switches == {"only_send_card", "auto_confirm", "confirm_before_send", "send_before_confirm"}
Kinds == {"data", "text", "broken"}
SourceKinds == {"live", "manual", "scan", "no_logistics"}
Statuses == {"absent", "unknown", "pending_payment", "pending_ship", "shipped", "cancelled"}
SendStatuses == {"none", "sending", "success", "failed", "timeout"}
Contents == {"none", "card", "no_logistics"}

NoOrder == 0
NoRecord == 0
CONSTANT Free       \* the holder of a row lock nobody holds

ASSUME OrderAssumption == Order \subseteq Nat \ {NoOrder}
ASSUME SessionAssumption == Free \notin Session
ASSUME StockAssumption == InitStock \in Seq(Line) /\ Need \in [Order -> Nat \ {0}]
ASSUME CardAssumption == Kind \in Kinds /\ Segments \in Nat \ {0}
ASSUME SettingsAssumption == RawSettings \subseteq SUBSET Switches
ASSUME StatusAssumption == InitStatuses \subseteq Statuses \ {"shipped"}
ASSUME EnvironmentAssumption ==
    /\ Sources \subseteq SourceKinds
    /\ IMFaults \subseteq {"refused", "unacknowledged"}
    /\ Cancellable \subseteq Order
    /\ Overlapping \subseteq Order
    /\ SlowDelivery \in BOOLEAN
    /\ MaxStarts \in Nat /\ MaxCrashes \in Nat

VARIABLES
    order,      \* committed row of every order
    recs,       \* committed CardDeliveryRecords in order of id; got is not a
                \* column: it counts the messages Xianyu accepted for the record
    stock,      \* committed data_content of the card
    lock,       \* InnoDB row lock of every order
    confirmed,  \* Xianyu's side: the order was confirmed as shipped there
    settings,   \* normalised account settings
    pc,         \* control state of every session
    loc,        \* local state of every session
    sweep,      \* records and orders the scheduler's timeout job has read
    starts, crashes

vars == <<order, recs, stock, lock, confirmed, settings, pc, loc, sweep, starts, crashes>>

Row == [status : Statuses, send : SendStatuses, cardOnly : BOOLEAN, content : Contents]
Record == [order : Order, status : {"sending", "sent", "failed", "timeout"},
           lines : Seq(Line), got : Nat]
PCs == {"idle", "begin", "locked", "confirm_first", "mark", "content", "record",
        "send", "confirm_after", "finish", "restore", "fail_record", "fail_order",
        "record_failure", "reconfirm", "reconfirmed", "no_logistics", "no_logistics_commit"}
Local == [kind : SourceKinds \cup {"none"}, cur : Order \cup {NoOrder}, todo : SUBSET Order,
          cache : [Order -> Row],       \* the identity map's orders
          pend : Statuses,              \* Order.status as set, not yet committed
          open : BOOLEAN,               \* the transaction has taken its snapshot
          busy : SUBSET Order,          \* snapshot: orders whose last record is sending
          cards : Seq(Line),            \* the identity map's card.payload
          held : Seq(Line),             \* reserved lines
          rec : Nat, sent : Nat]

-----------------------------------------------------------------------------
(* Helpers *)

\* account_settings._copy_settings: the confirmation modes exclude each other.
Normalise(raw) ==
    IF "only_send_card" \in raw THEN {"only_send_card"}
    ELSE IF "confirm_before_send" \in raw THEN {"auto_confirm", "confirm_before_send"}
    ELSE IF "send_before_confirm" \in raw THEN {"auto_confirm", "send_before_confirm"}
    ELSE raw

\* pending_ship stands for pending, paid and processing too, which are treated alike.
ELIGIBLE_ORDER_STATUSES == {"pending_payment", "pending_ship"}
\* Mutant of ConfirmsFirst: only the order of the two steps is asked.
ConfirmsByDefault == "send_before_confirm" \notin settings
ConfirmsFirst ==
    "auto_confirm" \in settings /\ settings \cap {"only_send_card", "send_before_confirm"} = {}
\* Normalised switches do not combine these with only_send_card, which the scan and the
\* end of a delivery test for again, and the retry of a confirmation does not.
ConfirmsAfter == {"auto_confirm", "send_before_confirm"} \subseteq settings
OnlySendCard == "only_send_card" \in settings

\* The order's last record, by id, is still sending.
BusyOrders ==
    {o \in Order : \E r \in DOMAIN recs :
        /\ recs[r].order = o /\ recs[r].status = "sending"
        /\ \A q \in DOMAIN recs : q > r => recs[q].order # o}

\* A column is written only if it differs from the value it was loaded with.
Dirty(current, loaded, value) == IF value = loaded THEN current ELSE value
Write(row, old, new) ==
    [status   |-> Dirty(row.status, old.status, new.status),
     send     |-> Dirty(row.send, old.send, new.send),
     cardOnly |-> Dirty(row.cardOnly, old.cardOnly, new.cardOnly),
     content  |-> Dirty(row.content, old.content, new.content)]

Fresh == [kind |-> "none", cur |-> NoOrder, todo |-> {},
          cache |-> [o \in Order |-> [status |-> "absent", send |-> "none",
                                      cardOnly |-> FALSE, content |-> "none"]],
          pend |-> "absent", open |-> FALSE, busy |-> {}, cards |-> <<>>,
          held |-> <<>>, rec |-> NoRecord, sent |-> 0]

Cached(s) == loc[s].cache[loc[s].cur]
Lockable(s) == lock[loc[s].cur] \in {Free, s}
\* Mutant of Unlocked: the connection goes back to the pool with its locks.
StillLocked(s) == lock
Unlocked(s) == [o \in Order |-> IF lock[o] = s THEN Free ELSE lock[o]]
FirstOf(o, S) == o \in S /\ \A p \in S : o <= p

\* The transaction's snapshot: taken by its first plain SELECT, kept until commit.
View(l) == IF l.open THEN l
           ELSE [l EXCEPT !.open = TRUE, !.busy = BusyOrders, !.cards = stock]

\* Session s goes to p with local state l.
Goto(s, p, l) == pc' = [pc EXCEPT ![s] = p] /\ loc' = [loc EXCEPT ![s] = l]

\* Session s is done with its order: a scan takes its next row, any other
\* session closes. A commit, and closing the session, release its row locks.
Leave(s, l, commits) ==
    /\ lock' = IF commits \/ l.todo = {} THEN Unlocked(s) ELSE lock
    /\ \/ l.todo = {} /\ Goto(s, "idle", Fresh)
       \/ \E o \in l.todo :
            /\ FirstOf(o, l.todo)
            /\ Goto(s, "begin", [l EXCEPT !.cur = o, !.todo = @ \ {o},
                                         !.pend = "absent", !.held = <<>>,
                                         !.rec = NoRecord, !.sent = 0])

\* What the session sees of its order after committing new values for it.
Committed(l, new) == [l EXCEPT !.cache[l.cur] = new, !.pend = new.status, !.open = FALSE]
CommitOrder(s, new) == order' = [order EXCEPT ![loc[s].cur] = Write(@, Cached(s), new)]
Pending(s) == [Cached(s) EXCEPT !.status = loc[s].pend]

-----------------------------------------------------------------------------
(* Requests *)

Touches(s) == loc[s].todo \cup {loc[s].cur}
Arrives(source, s, targets) ==
    /\ source \in Sources
    /\ pc[s] = "idle"
    /\ starts < MaxStarts /\ starts' = starts + 1
    /\ \A t \in Session : Touches(t) \cap targets \subseteq Overlapping
    /\ UNCHANGED <<order, recs, stock, lock, confirmed, settings, sweep, crashes>>

Opened(source, o) == View([Fresh EXCEPT !.kind = source, !.cur = o, !.cache = order])

\* A payment card of the order's buyer arrives over the live IM connection.
LiveEvent(s, o) ==
    /\ Arrives("live", s, {o})
    /\ Goto(s, "begin", Opened("live", o))

\* The seller clicks "manual delivery".
ManualDelivery(s, o) ==
    /\ order[o].status # "absent"
    /\ Arrives("manual", s, {o})
    /\ Goto(s, "begin", Opened("manual", o))

\* An order synchronisation or the redelivery job visits every eligible order.
ScanOrders(s) ==
    LET rows == {o \in Order : order[o].status \in ELIGIBLE_ORDER_STATUSES /\ ~order[o].cardOnly}
    IN /\ rows # {}
       /\ Arrives("scan", s, rows)
       /\ \E o \in rows : /\ FirstOf(o, rows)
                          /\ Goto(s, "begin", [Opened("scan", o) EXCEPT !.todo = rows \ {o}])

\* The seller clicks "no-logistics delivery": Xianyu is told, no card is sent.
NoLogistics(s, o) ==
    /\ order[o].status = "pending_ship"
    /\ Arrives("no_logistics", s, {o})
    /\ Goto(s, "no_logistics", Opened("no_logistics", o))

-----------------------------------------------------------------------------
(* deliver_order: the row lock and the checks *)

ScanSkips(s) == loc[s].kind = "scan" /\ Cached(s).send = "success"

\* auto_deliver_orders: a row loaded as delivered is not delivered again; its
\* confirmation is retried when the account confirms after sending.
SkipDelivered(s) ==
    /\ pc[s] = "begin" /\ ScanSkips(s)
    /\ IF ConfirmsAfter
       THEN Goto(s, "reconfirm", [loc[s] EXCEPT !.pend = Cached(s).status]) /\ UNCHANGED lock
       ELSE Leave(s, loc[s], FALSE)
    /\ UNCHANGED <<order, recs, stock, confirmed, settings, sweep, starts, crashes>>

\* The live event's flush (an INSERT or an UPDATE) or SELECT ... FOR UPDATE takes
\* the row lock; the attributes stay as loaded. A row another event inserted
\* meanwhile makes the INSERT fail, which ends the event.
LockOrder(s) ==
    LET c == Cached(s)
        live == loc[s].kind = "live"
    IN
    /\ pc[s] = "begin" /\ ~ScanSkips(s)
    /\ Lockable(s)
    /\ IF live /\ c.status = "absent" /\ order[loc[s].cur].status # "absent"
       THEN Leave(s, loc[s], FALSE)
       ELSE /\ lock' = [lock EXCEPT ![loc[s].cur] = s]
            /\ Goto(s, "locked", [loc[s] EXCEPT !.pend =
                    IF live /\ c.status \in {"absent", "unknown", "pending_payment"}
                    THEN "pending_ship" ELSE c.status])
    /\ UNCHANGED <<order, recs, stock, confirmed, settings, sweep, starts, crashes>>

\* Mutant of Delivered: only the card-only flag is looked at.
DeliveredCardOnly(row) == row.cardOnly
Delivered(row) == row.send = "success" \/ row.cardOnly
InProgress(s) == Cached(s).send = "sending"
Shippable(s) == loc[s].pend \in ELIGIBLE_ORDER_STATUSES

AlreadySent(s) ==
    /\ pc[s] = "locked" /\ Delivered(Cached(s))
    /\ IF /\ Cached(s).send = "success" /\ ~Cached(s).cardOnly
          /\ Shippable(s) /\ ConfirmsAfter
       THEN Goto(s, "reconfirm", View(loc[s])) /\ UNCHANGED lock
       ELSE Leave(s, View(loc[s]), FALSE)
    /\ UNCHANGED <<order, recs, stock, confirmed, settings, sweep, starts, crashes>>

\* Nothing is committed: a scan keeps the row lock and goes on.
AlreadySending(s) ==
    /\ pc[s] = "locked" /\ ~Delivered(Cached(s))
    /\ \/ InProgress(s) /\ Leave(s, loc[s], FALSE)
       \/ /\ ~InProgress(s) /\ Shippable(s) /\ loc[s].cur \in View(loc[s]).busy
          /\ Leave(s, View(loc[s]), FALSE)
    /\ UNCHANGED <<order, recs, stock, confirmed, settings, sweep, starts, crashes>>

\* The order's status does not allow delivery, the account suspended delivery
\* or no active card is bound to the item.
Reject(s) ==
    /\ pc[s] = "locked" /\ ~Delivered(Cached(s)) /\ ~InProgress(s)
    /\ Shippable(s) => loc[s].cur \notin View(loc[s]).busy
    /\ Goto(s, "record_failure", View(loc[s]))
    /\ UNCHANGED <<order, recs, stock, lock, confirmed, settings, sweep, starts, crashes>>

\* The card is found and loaded into the identity map.
Accept(s) ==
    /\ pc[s] = "locked" /\ ~Delivered(Cached(s)) /\ ~InProgress(s)
    /\ Shippable(s) /\ loc[s].cur \notin View(loc[s]).busy
    /\ Goto(s, IF ConfirmsFirst THEN "confirm_first" ELSE "mark", View(loc[s]))
    /\ UNCHANGED <<order, recs, stock, lock, confirmed, settings, sweep, starts, crashes>>

-----------------------------------------------------------------------------
(* deliver_order: confirming, marking, reserving, sending *)

\* _confirm_platform_delivery: Xianyu confirms the order as shipped, or not.
PlatformConfirms(s) == confirmed' = [confirmed EXCEPT ![loc[s].cur] = TRUE]

\* Mutant of ConfirmFirst: the answer of the platform is not looked at.
ConfirmFirstUnchecked(s) ==
    /\ pc[s] = "confirm_first"
    /\ PlatformConfirms(s) \/ UNCHANGED confirmed
    /\ Goto(s, "mark", [loc[s] EXCEPT !.pend = "shipped"])
    /\ UNCHANGED <<order, recs, stock, lock, settings, sweep, starts, crashes>>

ConfirmFirst(s) ==
    /\ pc[s] = "confirm_first"
    /\ \/ PlatformConfirms(s) /\ Goto(s, "mark", [loc[s] EXCEPT !.pend = "shipped"])
       \/ /\ UNCHANGED confirmed
          /\ Goto(s, IF "confirm_before_send" \in settings THEN "record_failure" ELSE "mark", loc[s])
    /\ UNCHANGED <<order, recs, stock, lock, settings, sweep, starts, crashes>>

\* Marking the order with new before anything is sent.
Mark(s, new) ==
    /\ pc[s] = "mark"
    /\ CommitOrder(s, new)
    /\ lock' = Unlocked(s)
    /\ Goto(s, "content", Committed(loc[s], new))
    /\ UNCHANGED <<recs, stock, confirmed, settings, sweep, starts, crashes>>

\* Mutants of MarkSending: the order is marked delivered, or shipped, too early.
MarkDelivered(s) == Mark(s, [Pending(s) EXCEPT !.send = "success"])
MarkShipped(s) == Mark(s, [Pending(s) EXCEPT !.send = "sending", !.status = "shipped"])
MarkSending(s) == Mark(s, [Pending(s) EXCEPT !.send = "sending"])

\* The card row is locked, but the lines taken and the lines written back are
\* those of the payload loaded when the card was found.
Reserve(s, left) ==
    LET n == Need[loc[s].cur]
        cards == loc[s].cards
    IN
    /\ pc[s] = "content"
    /\ \/ /\ Kind = "text"
          /\ Goto(s, "record", loc[s]) /\ UNCHANGED stock
       \/ /\ Kind = "data" /\ n <= Len(cards)
          /\ Goto(s, "record", [loc[s] EXCEPT !.held = SubSeq(cards, 1, n), !.cards = left])
          /\ stock' = SubSeq(cards, n + 1, Len(cards))
       \/ /\ Kind = "broken" \/ (Kind = "data" /\ n > Len(cards))
          /\ Goto(s, "record_failure", loc[s]) /\ UNCHANGED stock
    /\ UNCHANGED <<order, recs, lock, confirmed, settings, sweep, starts, crashes>>

\* Mutant of ReserveContent: card.payload is not refreshed after the commit.
ReserveStale(s) == Reserve(s, loc[s].cards)
ReserveContent(s) == Reserve(s, SubSeq(loc[s].cards, Need[loc[s].cur] + 1, Len(loc[s].cards)))

CreateRecord(s) ==
    /\ pc[s] = "record"
    /\ recs' = Append(recs, [order |-> loc[s].cur, status |-> "sending",
                             lines |-> loc[s].held, got |-> 0])
    /\ Goto(s, "send", [loc[s] EXCEPT !.rec = Len(recs) + 1])
    /\ UNCHANGED <<order, stock, lock, confirmed, settings, sweep, starts, crashes>>

Accepted(s) == recs' = [recs EXCEPT ![loc[s].rec].got = @ + 1]
\* _resolve_cid: only a live event knows its conversation; the route the others
\* ask for it is not one the websocket service has.
KnowsConversation(s) == loc[s].kind = "live"

SendSegment(s) ==
    LET sent == loc[s].sent + 1 IN
    /\ pc[s] = "send" /\ KnowsConversation(s)
    /\ Accepted(s)
    /\ Goto(s, IF sent < Segments THEN "send"
               ELSE IF ConfirmsAfter THEN "confirm_after" ELSE "finish",
            [loc[s] EXCEPT !.sent = sent])
    /\ UNCHANGED <<order, stock, lock, confirmed, settings, sweep, starts, crashes>>

\* Mutant of SendFails: the failure is swallowed and the delivery goes on.
SendFailureIgnored(s) ==
    /\ pc[s] = "send"
    /\ Goto(s, "finish", loc[s])
    /\ UNCHANGED <<order, recs, stock, lock, confirmed, settings, sweep, starts, crashes>>

\* The conversation is unknown, the message is refused, or it was accepted and
\* its acknowledgement did not come within 35 seconds.
SendFails(s) ==
    /\ pc[s] = "send"
    /\ \/ ~KnowsConversation(s) /\ UNCHANGED recs
       \/ KnowsConversation(s) /\ "refused" \in IMFaults /\ UNCHANGED recs
       \/ KnowsConversation(s) /\ "unacknowledged" \in IMFaults /\ Accepted(s)
    /\ Goto(s, "restore", loc[s])
    /\ UNCHANGED <<order, stock, lock, confirmed, settings, sweep, starts, crashes>>

ConfirmAfter(s) ==
    /\ pc[s] = "confirm_after"
    /\ \/ PlatformConfirms(s) /\ Goto(s, "finish", [loc[s] EXCEPT !.pend = "shipped"])
       \/ UNCHANGED confirmed /\ Goto(s, "finish", loc[s])
    /\ UNCHANGED <<order, recs, stock, lock, settings, sweep, starts, crashes>>

\* One commit for the order, the record and the card, whose payload (with the
\* lines left when this session reserved) is written whole for delivery_count.
Finish(s) ==
    LET new == [Pending(s) EXCEPT !.send = "success", !.content = "card",
                                  !.cardOnly = @ \/ OnlySendCard] IN
    /\ pc[s] = "finish" /\ Lockable(s)
    /\ CommitOrder(s, new)
    /\ recs' = [recs EXCEPT ![loc[s].rec].status = "sent"]
    /\ stock' = IF Kind = "data" THEN loc[s].cards ELSE stock
    /\ Leave(s, Committed(loc[s], new), TRUE)
    /\ UNCHANGED <<confirmed, settings, sweep, starts, crashes>>

-----------------------------------------------------------------------------
(* deliver_order: failures *)

\* _restore_data_content puts the reserved lines in front of the cached ones.
Restore(s, cards) ==
    /\ pc[s] = "restore"
    /\ stock' = IF loc[s].held = <<>> THEN stock ELSE cards
    /\ Goto(s, "fail_record", [loc[s] EXCEPT !.cards = cards, !.held = <<>>])
    /\ UNCHANGED <<order, recs, lock, confirmed, settings, sweep, starts, crashes>>

\* Mutant of RestoreContent: the reserved lines are forgotten.
RestoreNothing(s) == Restore(s, loc[s].cards)
RestoreContent(s) == Restore(s, loc[s].held \o loc[s].cards)

\* Mutant of FailRecord: the order is left as it is.
FailRecordOnly(s) ==
    /\ pc[s] = "fail_record"
    /\ recs' = [recs EXCEPT ![loc[s].rec].status = "failed"]
    /\ Leave(s, loc[s], TRUE)
    /\ UNCHANGED <<order, stock, confirmed, settings, sweep, starts, crashes>>

FailRecord(s) ==
    /\ pc[s] = "fail_record"
    /\ recs' = [recs EXCEPT ![loc[s].rec].status = "failed"]
    /\ Goto(s, "fail_order", loc[s])
    /\ UNCHANGED <<order, stock, lock, confirmed, settings, sweep, starts, crashes>>

CloseFailed(s, send) ==
    LET new == [Pending(s) EXCEPT !.send = send] IN
    /\ pc[s] = "fail_order" /\ Lockable(s)
    /\ CommitOrder(s, new)
    /\ Leave(s, Committed(loc[s], new), TRUE)
    /\ UNCHANGED <<recs, stock, confirmed, settings, sweep, starts, crashes>>

\* Mutant of FailOrder: the exception's text is stored as the status.
FailOrderWithText(s) == CloseFailed(s, "message_send_failed")
FailOrder(s) == CloseFailed(s, "failed")

\* _record_failure: an attempt that failed before it had a record.
RecordFailure(s) ==
    LET new == [Pending(s) EXCEPT !.send = "failed"] IN
    /\ pc[s] = "record_failure" /\ Lockable(s)
    /\ CommitOrder(s, new)
    /\ recs' = Append(recs, [order |-> loc[s].cur, status |-> "failed",
                             lines |-> <<>>, got |-> 0])
    /\ Leave(s, Committed(loc[s], new), TRUE)
    /\ UNCHANGED <<stock, confirmed, settings, sweep, starts, crashes>>

-----------------------------------------------------------------------------
(* Confirming later, and shipping without a card *)

\* _confirm_after_card_delivery
Reconfirm(s) ==
    /\ pc[s] = "reconfirm"
    /\ \/ PlatformConfirms(s) /\ Goto(s, "reconfirmed", [loc[s] EXCEPT !.pend = "shipped"])
       \/ UNCHANGED confirmed /\ Goto(s, "reconfirmed", loc[s])
    /\ UNCHANGED <<order, recs, stock, lock, settings, sweep, starts, crashes>>

RecordConfirmation(s) ==
    /\ pc[s] = "reconfirmed" /\ Lockable(s)
    /\ CommitOrder(s, Pending(s))
    /\ Leave(s, Committed(loc[s], Pending(s)), TRUE)
    /\ UNCHANGED <<recs, stock, confirmed, settings, sweep, starts, crashes>>

CallNoLogistics(s) ==
    /\ pc[s] = "no_logistics"
    /\ \/ /\ PlatformConfirms(s) /\ UNCHANGED lock
          /\ Goto(s, "no_logistics_commit", [loc[s] EXCEPT !.pend = "shipped"])
       \/ UNCHANGED confirmed /\ Leave(s, loc[s], FALSE)
    /\ UNCHANGED <<order, recs, stock, settings, sweep, starts, crashes>>

RecordNoLogistics(s) ==
    LET new == [Pending(s) EXCEPT !.send = "success", !.content = "no_logistics"] IN
    /\ pc[s] = "no_logistics_commit" /\ Lockable(s)
    /\ CommitOrder(s, new)
    /\ Leave(s, Committed(loc[s], new), TRUE)
    /\ UNCHANGED <<recs, stock, confirmed, settings, sweep, starts, crashes>>

-----------------------------------------------------------------------------
(* The scheduler's timeout job, the buyer, crashes *)

\* execute_delivery_timeout reads the records sending for over five minutes and
\* their orders. A record no running session works on is old enough in the end.
SweepRead ==
    LET old == {r \in DOMAIN recs : /\ recs[r].status = "sending"
                                    /\ SlowDelivery \/ \A s \in Session : loc[s].rec # r}
    IN
    /\ sweep.recs = {} /\ old # {}
    /\ sweep' = [recs |-> old, orders |-> {o \in Order : /\ order[o].send = "sending"
                                                         /\ \E r \in old : recs[r].order = o}]
    /\ UNCHANGED <<order, recs, stock, lock, confirmed, settings, pc, loc, starts, crashes>>

SweepWrite ==
    /\ sweep.recs # {}
    /\ \A o \in sweep.orders : lock[o] = Free
    /\ recs' = [r \in DOMAIN recs |-> IF r \in sweep.recs
                                      THEN [recs[r] EXCEPT !.status = "timeout"] ELSE recs[r]]
    /\ order' = [o \in Order |-> IF o \in sweep.orders
                                 THEN [order[o] EXCEPT !.send = "timeout"] ELSE order[o]]
    /\ sweep' = [recs |-> {}, orders |-> {}]
    /\ UNCHANGED <<stock, lock, confirmed, settings, pc, loc, starts, crashes>>

\* A refund or cancellation reaches the local order.
BuyerCancels(o) ==
    /\ o \in Cancellable /\ order[o].status \notin {"absent", "cancelled"}
    /\ lock[o] = Free
    /\ order' = [order EXCEPT ![o].status = "cancelled"]
    /\ UNCHANGED <<recs, stock, lock, confirmed, settings, pc, loc, sweep, starts, crashes>>

\* The backend process dies: open transactions roll back, tasks are gone.
Crash ==
    /\ crashes < MaxCrashes /\ crashes' = crashes + 1
    /\ \E s \in Session : pc[s] # "idle"
    /\ pc' = [s \in Session |-> "idle"]
    /\ loc' = [s \in Session |-> Fresh]
    /\ lock' = [o \in Order |-> Free]
    /\ UNCHANGED <<order, recs, stock, confirmed, settings, sweep, starts>>

-----------------------------------------------------------------------------
Init ==
    /\ order \in [Order -> {[status |-> st, send |-> "none", cardOnly |-> FALSE,
                             content |-> "none"] : st \in InitStatuses}]
    /\ recs = <<>>
    /\ stock = InitStock
    /\ lock = [o \in Order |-> Free]
    /\ confirmed = [o \in Order |-> FALSE]
    /\ settings \in {Normalise(raw) : raw \in RawSettings}
    /\ pc = [s \in Session |-> "idle"]
    /\ loc = [s \in Session |-> Fresh]
    /\ sweep = [recs |-> {}, orders |-> {}]
    /\ starts = 0 /\ crashes = 0

Request(s) == ScanOrders(s) \/ \E o \in Order : LiveEvent(s, o) \/ ManualDelivery(s, o) \/ NoLogistics(s, o)

Step(s) ==
    \/ SkipDelivered(s) \/ LockOrder(s)
    \/ AlreadySent(s) \/ AlreadySending(s) \/ Reject(s) \/ Accept(s)
    \/ ConfirmFirst(s) \/ MarkSending(s) \/ ReserveContent(s) \/ CreateRecord(s)
    \/ SendSegment(s) \/ SendFails(s) \/ ConfirmAfter(s) \/ Finish(s)
    \/ RestoreContent(s) \/ FailRecord(s) \/ FailOrder(s) \/ RecordFailure(s)
    \/ Reconfirm(s) \/ RecordConfirmation(s) \/ CallNoLogistics(s) \/ RecordNoLogistics(s)

\* No request is being served.
Rest == (\A s \in Session : pc[s] = "idle") /\ UNCHANGED vars

Next ==
    \/ \E s \in Session : Request(s) \/ Step(s)
    \/ SweepRead \/ SweepWrite
    \/ \E o \in Order : BuyerCancels(o)
    \/ Crash
    \/ Rest

\* The event loop runs every task that can run, every external call has a
\* timeout, and APScheduler triggers the job every ten minutes.
Fairness == (\A s \in Session : WF_vars(Step(s))) /\ WF_vars(SweepRead) /\ WF_vars(SweepWrite)

Spec == Init /\ [][Next]_vars
FairSpec == Spec /\ Fairness

-----------------------------------------------------------------------------
(* Properties *)

\* Every variable keeps its type.
TypeOK ==
    /\ order \in [Order -> Row]
    /\ recs \in Seq(Record)
    /\ stock \in Seq(Line)
    /\ lock \in [Order -> Session \cup {Free}]
    /\ confirmed \in [Order -> BOOLEAN]
    /\ settings \subseteq Switches
    /\ pc \in [Session -> PCs]
    /\ loc \in [Session -> Local]
    /\ sweep \in [recs : SUBSET Nat, orders : SUBSET Order]
    /\ starts \in Nat /\ crashes \in Nat

Whole(r) == recs[r].got = Segments

\* A record says "sent" only if Xianyu accepted every message of that very
\* attempt, whatever other sessions, the timeout job and crashes do meanwhile.
SentMeansWhole == \A r \in DOMAIN recs : recs[r].status = "sent" => Whole(r)

\* An order shown as delivered by card has had a whole card accepted for it, and
\* no order is shown as delivered with neither a card nor a no-logistics note.
DeliveredIsReal ==
    \A o \in Order :
        /\ order[o].send = "success" => order[o].content # "none"
        /\ order[o].content = "card" => \E r \in DOMAIN recs : recs[r].order = o /\ Whole(r)

\* The order is shown as shipped only after Xianyu confirmed it.
ShippedMeansConfirmed == \A o \in Order : order[o].status = "shipped" => confirmed[o]

\* An account that only sends cards never confirms an order when it delivers one.
\* (No-logistics requests, which confirm by definition, are left out.)
OnlySendCardNeverConfirms ==
    OnlySendCard /\ "no_logistics" \notin Sources => \A o \in Order : ~confirmed[o]

\* While an attempt still ran, the timeout job read it, and what the job wrote came
\* after a later attempt r had been made.
Overtaken(r) ==
    SlowDelivery /\ \E t \in 1..(r - 1) : recs[t].order = recs[r].order /\ recs[t].status = "timeout"

\* Once an attempt is recorded as sent, its order gets no further attempt, as long as
\* its requests are not in flight together and the timeout job does not mark the order
\* for an earlier attempt that was still running when the job read it.
NoAttemptAfterSent ==
    \A r, q \in DOMAIN recs :
        /\ recs[r].status = "sent" /\ recs[r].order = recs[q].order
        /\ recs[r].order \notin Overlapping
        => q <= r \/ Overtaken(r)

\* The buyer gets one whole card for an order. (A crash after the last message, or
\* an acknowledgement that got lost, leaves no trace the code could tell by.)
OneWholeCard ==
    crashes = 0 /\ "unacknowledged" \notin IMFaults =>
        \A r, q \in DOMAIN recs :
            recs[r].order = recs[q].order /\ Whole(r) /\ Whole(q) => r = q

\* A line recorded as sent is in no other record that is sent and not for sale.
LineSoldOnce ==
    \A r \in DOMAIN recs : recs[r].status = "sent" =>
        \A i \in DOMAIN recs[r].lines :
            /\ recs[r].lines[i] \notin {stock[j] : j \in DOMAIN stock}
            /\ \A q \in DOMAIN recs \ {r} : recs[q].status = "sent" =>
                 recs[r].lines[i] \notin {recs[q].lines[j] : j \in DOMAIN recs[q].lines}

\* Without a crash no line is lost: it is in stock, reserved by a running
\* delivery, or in the record of an attempt that did not fail.
NoLineLost ==
    crashes = 0 => \A i \in DOMAIN InitStock :
        \/ InitStock[i] \in {stock[j] : j \in DOMAIN stock}
        \/ \E s \in Session : InitStock[i] \in {loc[s].held[j] : j \in DOMAIN loc[s].held}
        \/ \E r \in DOMAIN recs : /\ recs[r].status # "failed"
                                  /\ InitStock[i] \in {recs[r].lines[j] : j \in DOMAIN recs[r].lines}

\* A delivery that failed can be tried again, now or (status unknown) once the payment
\* shows: its order is not shipped. Accounts that confirm first are left out, where the
\* order is shipped when its card fails to be sent; so are requests in flight together,
\* and what the timeout job writes over a result (of a slow delivery, or after a crash
\* of a no-logistics request).
FailedIsRetriable ==
    ~ConfirmsFirst /\ ~SlowDelivery /\ crashes = 0 => \A o \in Order \ Overlapping :
        order[o].send = "failed" /\ order[o].status # "cancelled"
        => order[o].status \in ELIGIBLE_ORDER_STATUSES \cup {"unknown"}

\* Every request comes to an end: no lock order, early return or failure leaves
\* a session waiting for ever.
RequestEnds == \A s \in Session : pc[s] # "idle" ~> pc[s] = "idle"

\* No order stays in "sending": the delivery ends or the timeout job marks it.
SendingResolves == \A o \in Order : order[o].send = "sending" ~> order[o].send # "sending"
=============================================================================
