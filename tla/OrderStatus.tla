------------------------------- MODULE OrderStatus -------------------------------
(***************************************************************************)
(* How the local status of an order follows the platform's: the chat's     *)
(* messages, pushed live or read from a conversation's history, the        *)
(* seller's order list, payment events and the seller's own edits, each    *)
(* handled by a request that reads a snapshot of the database and commits  *)
(* later.                                                                  *)
(*                                                                         *)
(* A message is a record of what it carries: an order number, an item, a   *)
(* sender, each of them perhaps left unsaid, and the status its text       *)
(* stands for; talk is the conversation it belongs to. Messages that name  *)
(* no order and stand for no status change nothing and are left out.       *)
(***************************************************************************)
EXTENDS Naturals, Sequences

CONSTANTS
    Order,
    Buyer,          \* the buyer of every order
    Item,           \* the item of every order
    Session,        \* requests handled at a time
    Seller,         \* the account's own user
    Unsaid,         \* the order, item or sender of a message that carries none
    Jobs,           \* kinds of requests that arrive
    Unbound,        \* statuses whose message may come without an order number
    Bare,           \* statuses whose message may come without an item
    Senders,        \* senders of messages, Unsaid if they may lack one
    Words,          \* statuses what people write is taken for
    Reminds,        \* whether messages name an order and stand for no status
    Edits,          \* statuses the seller sets
    ListGaps,       \* whether the order list may use a status nobody mapped
    Page,           \* messages of a page of history
    MaxMessages,    \* bound on the messages of the conversations
    MaxStarts       \* bound on the requests that arrive

\* ORDER_STATUS_RANK
Ranked == {"unknown", "pending_payment", "pending_ship", "shipped", "completed",
           "refunding", "refunded", "cancelled"}
Settled == {"refunded", "cancelled"}
Rank(st) ==
    CASE st = "pending_payment" -> 10
      [] st = "pending_ship" -> 20
      [] st = "shipped" -> 30
      [] st = "completed" -> 40
      [] st = "refunding" -> 45
      [] st \in Settled -> 50
      [] OTHER -> 0
Evident == Ranked \ {"unknown"}
Statuses == Ranked \cup {"pending", "paid"}
JobKinds == {"live", "history", "reconcile", "sync", "send"}

ASSUME OrderAssumption == Unsaid \notin Order
ASSUME ItemAssumption == \A o \in Order : Item[o] # Unsaid
ASSUME StatusAssumption == Unbound \subseteq Evident /\ Words \subseteq Evident /\ Edits \subseteq Statuses
ASSUME JobAssumption == Jobs \subseteq JobKinds /\ ListGaps \in BOOLEAN /\ Reminds \in BOOLEAN
ASSUME BoundAssumption == Page \in Nat /\ MaxMessages \in Nat /\ MaxStarts \in Nat

VARIABLES
    real,       \* the platform's status of every order
    claims,     \* statuses the platform, the seller or its conversation gave an order, ever
    chat,       \* the messages of the conversations, in order of time
    rows,       \* chat records stored for every message
    local,      \* committed status of every order, "absent" without a row
    pushed,     \* messages whose live event reached the backend
    dispatched, \* payment messages that started a delivery
    pc,         \* control state of every session
    loc,        \* local state of every session
    starts      \* requests that arrived

vars == <<real, claims, chat, rows, local, pushed, dispatched, pc, loc, starts>>

Column == Statuses \cup {"absent"}
Conversation(o) == <<Buyer[o], Item[o]>>
Message == [order : Order \cup {Unsaid}, talk : {Conversation(o) : o \in Order},
            item : {Item[o] : o \in Order} \cup {Unsaid}, from : Senders \cup {Seller},
            status : Ranked]
Local == [job : JobKinds \cup {"none", "payment"},
          msgs : SUBSET Nat,                \* the messages the request is about
          todo : SUBSET Nat,                \* those still to be stored
          fresh : BOOLEAN,                  \* the last one was not stored before
          list : [Order -> Column],         \* a page of the order list
          seen : [Order -> Column],         \* the orders in the transaction's snapshot
          known : [1 .. MaxMessages -> Nat]]    \* the chat records in it

Nowhere == [o \in Order |-> "absent"]
Unstored == [i \in 1 .. MaxMessages |-> 0]
Idle == [job |-> "none", msgs |-> {}, todo |-> {}, fresh |-> FALSE,
         list |-> Nowhere, seen |-> Nowhere, known |-> Unstored]

-----------------------------------------------------------------------------
(* The merge rule and the evidence of messages *)

\* merge_order_status
Merge(current, incoming) ==
    LET known == IF current \in Ranked THEN current ELSE "unknown" IN
    IF incoming \notin Ranked THEN current
    ELSE IF known \in Settled THEN known
    ELSE IF incoming \in Settled \/ Rank(incoming) > Rank(known) THEN incoming
    ELSE known

\* Merging the messages of S one by one, in order of time: the highest rank
\* wins, and of two settled ones the earliest.
Decisive(c, S, i) ==
    \A j \in S : \/ Rank(c[j].status) < Rank(c[i].status)
                 \/ Rank(c[j].status) = Rank(c[i].status) /\ i <= j
Best(c, S) == IF S = {} THEN "unknown" ELSE c[CHOOSE i \in S : Decisive(c, S, i)].status

\* The messages of S that name an order make it a candidate; _evidence skips those
\* that stand for no status, _reconcile_history_orders does not.
Naming(job, S, o) ==
    {i \in S : chat[i].order = o /\ (job = "history" \/ chat[i].status # "unknown")}
Named(job, S) == {o \in Order : Naming(job, S, o) # {}}

\* The first item and the first sender these messages carry; in a page of history
\* the seller is not taken for the buyer.
First(T) == CHOOSE i \in T : \A j \in T : i <= j
ItemOf(job, S, o) ==
    LET T == {i \in Naming(job, S, o) : chat[i].item # Unsaid}
    IN  IF T = {} THEN Unsaid ELSE chat[First(T)].item
BuyerOf(job, S, o) ==
    LET T == {i \in Naming(job, S, o) :
                 chat[i].from # Unsaid /\ (job = "history" => chat[i].from # Seller)}
    IN  IF T = {} THEN Unsaid ELSE chat[First(T)].from

\* Mutant of Fits: the item is not looked at.
FitsBuyer(job, S, m) ==
    LET buyers == {o \in Named(job, S) : BuyerOf(job, S, o) = m.from}
    IN  IF m.from # Unsaid /\ buyers # {} THEN buyers ELSE Named(job, S)

\* The candidates a message without a number fits: those of its item, if it carries
\* one; of these only its sender's, if it has one and there are any.
Fits(job, S, m) ==
    LET items == {o \in Named(job, S) : m.item # Unsaid => ItemOf(job, S, o) = m.item}
        buyers == {o \in items : BuyerOf(job, S, o) = m.from}
    IN  IF m.from # Unsaid /\ buyers # {} THEN buyers ELSE items
Loose(job, S, o) == {i \in S : chat[i].order = Unsaid /\ Fits(job, S, chat[i]) = {o}}

\* Mutant of Evidence: what names no order is written over what does.
EvidenceOverwritten(job, S, o) ==
    Best(chat, IF Loose(job, S, o) # {} THEN Loose(job, S, o) ELSE Naming(job, S, o))
\* An order gets the messages that name it, then those that fit it alone.
Evidence(job, S, o) ==
    Merge(Best(chat, Naming(job, S, o)), Best(chat, Loose(job, S, o)))

-----------------------------------------------------------------------------
(* The platform and the people *)

Successors(st) ==
    CASE st = "absent" -> {"pending_payment"}
      [] st = "pending_payment" -> {"pending_ship", "cancelled"}
      [] st = "pending_ship" -> {"shipped", "refunding", "cancelled"}
      [] st = "shipped" -> {"completed", "refunding"}
      [] st = "completed" -> {"refunding"}
      [] st = "refunding" -> {"shipped", "refunded"}
      [] OTHER -> {}

Writes(m) == Len(chat) < MaxMessages /\ chat' = Append(chat, m)

\* A message of the conversation of o, with an item unless it may lack one.
Messages(order, o, people, st) ==
    [order : {order}, talk : {Conversation(o)},
     item : {Item[o]} \cup (IF st \in Bare THEN {Unsaid} ELSE {}),
     from : people \cap Senders, status : {st}]

\* The order moves on, and a system message says so in the conversation, as the
\* buyer's, the seller's or nobody's.
Trade(o, st) ==
    /\ st \in Successors(real[o])
    /\ real' = [real EXCEPT ![o] = st]
    /\ claims' = [claims EXCEPT ![o] = @ \cup {st}]
    /\ \E named \in {o} \cup (IF st \in Unbound THEN {Unsaid} ELSE {}) :
         \E m \in Messages(named, o, {Buyer[o], Seller, Unsaid}, st) : Writes(m)
    /\ UNCHANGED <<rows, local, pushed, dispatched, pc, loc, starts>>

\* A card that names the order and stands for no status.
Remind(o) ==
    /\ Reminds /\ real[o] # "absent"
    /\ \E m \in Messages(o, o, {Buyer[o], Seller, Unsaid}, "unknown") : Writes(m)
    /\ UNCHANGED <<real, claims, rows, local, pushed, dispatched, pc, loc, starts>>

Heard(talk, st) ==
    claims' = [p \in Order |-> IF Conversation(p) = talk THEN claims[p] \cup {st} ELSE claims[p]]

\* status_from_chat_text parses every text, also what people write: the buyer's
\* or seller's words of a conversation are taken for a status.
Say(o, st) ==
    /\ st \in Words
    /\ \E m \in Messages(Unsaid, o, {Buyer[o], Seller}, st) : Writes(m)
    /\ Heard(Conversation(o), st)
    /\ UNCHANGED <<real, rows, local, pushed, dispatched, pc, loc, starts>>

\* update_order_status and cancel_order set what they are told.
Edit(o, st) ==
    /\ st \in Edits /\ local[o] # "absent"
    /\ local' = [local EXCEPT ![o] = st]
    /\ claims' = [claims EXCEPT ![o] = @ \cup {st}]
    /\ UNCHANGED <<real, chat, rows, pushed, dispatched, pc, loc, starts>>

-----------------------------------------------------------------------------
(* Requests *)

Goto(s, p, l) == pc' = [pc EXCEPT ![s] = p] /\ loc' = [loc EXCEPT ![s] = l]

\* A request arrives and opens a transaction, whose reads are those of now.
Opens(s, p, job, S, todo) ==
    /\ job \in Jobs /\ pc[s] = "idle"
    /\ starts < MaxStarts /\ starts' = starts + 1
    /\ Goto(s, p, [Idle EXCEPT !.job = job, !.msgs = S, !.todo = todo,
                               !.seen = local, !.known = rows])
Arrives(s, p, job, S, todo) ==
    /\ Opens(s, p, job, S, todo)
    /\ UNCHANGED <<real, claims, chat, rows, local, dispatched>>

Stored(S) == {i \in S : rows[i] > 0}

\* A pushed message is handed to the backend; pushes keep their order, some get lost.
Event(s, i) ==
    /\ \A j \in pushed : j < i
    /\ pushed' = pushed \cup {i}
    /\ Arrives(s, "save", "live", {i}, {i})

\* Somebody opens a conversation: a page of it comes from the platform and is
\* stored, or comes from what is stored.
OpenChat(s, page) ==
    /\ \/ Arrives(s, "save", "history", page, page)
       \/ Arrives(s, "write", "history", Stored(page), {})
    /\ UNCHANGED pushed

\* The order page, or a synchronisation without permission, goes through all
\* stored messages.
Reconcile(s) ==
    /\ Arrives(s, "write", "reconcile", Stored(DOMAIN chat), {})
    /\ UNCHANGED pushed

\* send_message: what the seller writes in the console is sent, and then stored
\* without an item, also when it parses as a status.
Send(s, o, st) ==
    LET sent == Len(chat) + 1 IN
    /\ st \in Words
    /\ Writes([order |-> Unsaid, talk |-> Conversation(o), item |-> Unsaid,
               from |-> Seller, status |-> st])
    /\ Heard(Conversation(o), st)
    /\ Opens(s, "save", "send", {sent}, {sent})
    /\ UNCHANGED <<real, rows, local, pushed, dispatched>>

Sync(s) == Arrives(s, "list", "sync", {}, {}) /\ UNCHANGED pushed

\* Mutant of List: a status that is not mapped is taken as it is.
ListRaw(s) ==
    /\ pc[s] = "list"
    /\ \E gaps \in SUBSET {o \in Order : ListGaps /\ real[o] # "absent"} :
         Goto(s, "write", [loc[s] EXCEPT !.list = [o \in Order |->
                                            IF o \in gaps THEN "unmapped" ELSE real[o]]])
    /\ UNCHANGED <<real, claims, chat, rows, local, pushed, dispatched, starts>>

\* A page of the order list comes; a status that is not mapped is "unknown".
List(s) ==
    /\ pc[s] = "list"
    /\ \E gaps \in SUBSET {o \in Order : ListGaps /\ real[o] # "absent"} :
         Goto(s, "write", [loc[s] EXCEPT !.list = [o \in Order |->
                                            IF o \in gaps THEN "unknown" ELSE real[o]]])
    /\ UNCHANGED <<real, claims, chat, rows, local, pushed, dispatched, starts>>

\* _save_message, for every message: looked up in the snapshot, inserted, and
\* committed, which ends the snapshot. Two records of a message make the look-up
\* raise, which ends the request.
Save(s) ==
    \E i \in loc[s].todo :
        LET left == loc[s].todo \ {i}
            next == IF left = {} THEN "write" ELSE "save"
        IN
        /\ pc[s] = "save" /\ \A j \in loc[s].todo : j <= i
        /\ \/ /\ loc[s].known[i] = 0
              /\ rows' = [rows EXCEPT ![i] = @ + 1]
              /\ Goto(s, next, [loc[s] EXCEPT !.todo = left, !.fresh = TRUE,
                                              !.seen = local, !.known = rows'])
           \/ /\ loc[s].known[i] = 1
              /\ Goto(s, next, [loc[s] EXCEPT !.todo = left])
              /\ UNCHANGED rows
           \/ /\ loc[s].known[i] > 1
              /\ Goto(s, "idle", Idle)
              /\ UNCHANGED rows
        /\ UNCHANGED <<real, claims, chat, local, pushed, dispatched, starts>>

-----------------------------------------------------------------------------
(* Writing orders *)

\* apply_live_order_status finds the order by its number, or the only order whose
\* row has the message's sender and item, as far as it carries them. The columns of
\* a row may lack either (gaps).
Matches(seen, m, gaps) ==
    {o \in Order :
        /\ seen[o] # "absent"
        /\ IF m.order # Unsaid THEN o = m.order
           ELSE /\ m.from # Unsaid => Buyer[o] = m.from
                /\ m.item # Unsaid => Item[o] = m.item
                /\ m.from # Unsaid \/ m.item # Unsaid => o \notin gaps}
Finds(seen, m, gaps, o) == m.status # "unknown" /\ Matches(seen, m, gaps) = {o}
\* Mutant of ByMessage: a settled order is not told from the others.
ByMessageRank(seen, m, gaps) ==
    [o \in Order |-> IF Finds(seen, m, gaps, o) /\ Rank(m.status) >= Rank(seen[o])
                     THEN m.status ELSE seen[o]]
ByMessage(seen, m, gaps) ==
    [o \in Order |-> IF Finds(seen, m, gaps, o) THEN Merge(seen[o], m.status) ELSE seen[o]]

\* reconcile_cached_chat_orders changes the orders it finds,
\* _reconcile_history_orders also adds those it does not find.
ByEvidence(seen, S, job) ==
    [o \in Order |->
        IF o \notin Named(job, S) \/ Evidence(job, S, o) = "unknown" THEN seen[o]
        ELSE IF seen[o] # "absent" THEN Merge(seen[o], Evidence(job, S, o))
        ELSE IF job = "history" THEN Evidence(job, S, o) ELSE "absent"]

\* sync_account_orders takes what the list says.
ByList(seen, list) == [o \in Order |-> IF list[o] = "absent" THEN seen[o] ELSE list[o]]

\* auto_deliver_live_event adds the order, or raises it to pending_ship.
ByPayment(seen, p) ==
    [o \in Order |-> IF o = p /\ seen[o] \in {"absent", "unknown", "pending_payment"}
                     THEN "pending_ship" ELSE seen[o]]

\* What the session makes of the orders it saw.
Puts(l) ==
    CASE l.job = "live" -> {ByMessage(l.seen, chat[i], gaps) : i \in l.msgs, gaps \in SUBSET Order}
      [] l.job = "payment" -> {ByPayment(l.seen, chat[i].order) : i \in l.msgs}
      [] l.job = "sync" -> {ByList(l.seen, l.list)}
      [] l.job = "send" -> {l.seen}
      [] OTHER -> {ByEvidence(l.seen, l.msgs, l.job)}

\* A row that another session added since the snapshot makes the commit fail as a whole.
Collides(l, put) == \E o \in Order : l.seen[o] = "absent" /\ put[o] # "absent" /\ local[o] # "absent"
\* A commit writes the columns that were changed.
Committed(l, put) ==
    IF Collides(l, put) THEN local
    ELSE [o \in Order |-> IF put[o] = l.seen[o] THEN local[o] ELSE put[o]]

\* A live message that was not stored before, is not the seller's and tells of a
\* payment goes on to a delivery, if it names its order.
OfPayment(m) == m.status = "pending_ship" /\ m.order # Unsaid /\ m.from # Seller
Payments(l) == {i \in l.msgs : l.job = "live" /\ l.fresh /\ OfPayment(chat[i])}

Commit(s) ==
    /\ pc[s] = "write"
    /\ \E put \in Puts(loc[s]) : local' = Committed(loc[s], put)
    /\ dispatched' = dispatched \cup Payments(loc[s])
    /\ IF Payments(loc[s]) # {} THEN Goto(s, "pay", loc[s]) ELSE Goto(s, "idle", Idle)
    /\ UNCHANGED <<real, claims, chat, rows, pushed, starts>>

\* auto_deliver_live_event has a transaction of its own.
Pay(s) ==
    /\ pc[s] = "pay"
    /\ Goto(s, "write", [loc[s] EXCEPT !.job = "payment", !.seen = local])
    /\ UNCHANGED <<real, claims, chat, rows, local, pushed, dispatched, starts>>

-----------------------------------------------------------------------------
Init ==
    /\ real = Nowhere /\ local = Nowhere
    /\ claims = [o \in Order |-> {}]
    /\ chat = <<>>
    /\ rows = Unstored
    /\ pushed = {} /\ dispatched = {}
    /\ pc = [s \in Session |-> "idle"]
    /\ loc = [s \in Session |-> Idle]
    /\ starts = 0

\* Pages of the conversation of an order.
Pages(o) ==
    {{i \in n .. (n + Page - 1) : i \in DOMAIN chat /\ chat[i].talk = Conversation(o)} :
        n \in DOMAIN chat}

Request(s) ==
    \/ \E i \in DOMAIN chat : Event(s, i)
    \/ \E o \in Order : \E page \in Pages(o) \ {{}} : OpenChat(s, page)
    \/ Reconcile(s)
    \/ Sync(s)
    \/ \E o \in Order, st \in Words : Send(s, o, st)
Step(s) == Save(s) \/ List(s) \/ Commit(s) \/ Pay(s)

\* No request is being served.
Rest == (\A s \in Session : pc[s] = "idle") /\ UNCHANGED vars

Next ==
    \/ \E o \in Order, st \in Statuses : Trade(o, st) \/ Say(o, st) \/ Edit(o, st)
    \/ \E o \in Order : Remind(o)
    \/ \E s \in Session : Request(s) \/ Step(s)
    \/ Rest

Spec == Init /\ [][Next]_vars

-----------------------------------------------------------------------------
(* Properties *)

\* Every variable keeps its type.
TypeOK ==
    /\ real \in [Order -> Column]
    /\ claims \in [Order -> SUBSET Statuses]
    /\ chat \in Seq(Message) /\ Len(chat) <= MaxMessages
    /\ rows \in [1 .. MaxMessages -> Nat]
    /\ local \in [Order -> Column]
    /\ pushed \subseteq DOMAIN chat /\ dispatched \subseteq DOMAIN chat
    /\ pc \in [Session -> {"idle", "save", "list", "write", "pay"}]
    /\ loc \in [Session -> Local]
    /\ \A s \in Session : loc[s].msgs \subseteq DOMAIN chat /\ loc[s].todo \subseteq loc[s].msgs
    /\ starts \in Nat

\* What messages say that carry neither a number nor an item.
Vague == {chat[i].status : i \in {j \in DOMAIN chat : chat[j].order = Unsaid /\ chat[j].item = Unsaid}}

\* The local status of an order is one that the platform, the seller, or a message
\* of its own conversation gave it at some time: no message that carries an item is
\* taken for another order's, however requests overlap. A message that carries
\* neither number nor item fits the only order the account's messages name (or the
\* sender's only order), of whatever conversation. It needs orders of different items:
\* of two orders of one item a page of history may show only one.
Justified ==
    \A o \in Order : local[o] \in claims[o] \cup Vague \cup {"absent", "unknown"}

Writing(s) == pc[s] = "write" /\ pc'[s] # "write"
ByChat(s) == loc[s].job \in {"live", "history", "reconcile"}

\* merge_order_status: a chat message never sets an order back and never moves a
\* settled one, unless the row changed between its reading and its writing.
ChatSetsBackOnlyStale ==
    [][\A s \in Session : Writing(s) /\ ByChat(s) =>
         \A o \in Order : local[o] = loc[s].seen[o] /\ local[o] # "absent" =>
            \/ local'[o] = local[o]
            \/ local[o] \notin Settled /\ Rank(local'[o]) >= Rank(local[o])]_vars

\* A request that went through chat messages and met no other writer leaves no
\* order behind a message that names it, whatever the messages without a number say.
ChatCatchesUp ==
    [][\A s \in Session : Writing(s) /\ ByChat(s) /\ local = loc[s].seen =>
         \A i \in loc[s].msgs, o \in Order :
            chat[i].order = o /\ local'[o] # "absent" => Rank(local'[o]) >= Rank(chat[i].status)]_vars

\* receive_internal_event: a payment that the live connection told the backend of,
\* and that names its order, starts a delivery once the event is handled.
PaymentDispatched ==
    \A i \in pushed :
        /\ OfPayment(chat[i])
        /\ \A s \in Session : ~(loc[s].job = "live" /\ i \in loc[s].msgs)
        => i \in dispatched
=============================================================================
