---------------------------- MODULE OrderStatusProofs ----------------------------
(***************************************************************************)
(* Theorems about OrderStatus, for every value of its constants.           *)
(***************************************************************************)
EXTENDS OrderStatus, WellFoundedInduction, TLAPS

-----------------------------------------------------------------------------
(* The merge rule *)

\* The ranks of the statuses.
LEMMA RankType == \A st : Rank(st) \in {0, 10, 20, 30, 40, 45, 50}
BY DEF Rank

\* Merging gives one of the two statuses, or "unknown" for one that is not ranked.
LEMMA MergeChooses ==
    ASSUME NEW current, NEW incoming
    PROVE  Merge(current, incoming) \in {current, incoming, "unknown"}
BY DEF Merge

\* Merging never sets a status back and never moves a settled one.
LEMMA MergeRises ==
    ASSUME NEW current, NEW incoming
    PROVE  \/ Merge(current, incoming) = current
           \/ current \notin Settled /\ Rank(Merge(current, incoming)) >= Rank(current)
BY RankType DEF Merge, Rank, Ranked, Settled

\* Merging two values of the column gives one.
LEMMA MergeType ==
    ASSUME NEW current \in Column, NEW incoming \in Column
    PROVE  Merge(current, incoming) \in Column
BY MergeChooses DEF Column, Statuses, Ranked

\* A set of numbers has a least element.
LEMMA Least ==
    ASSUME NEW T \in SUBSET Nat, T # {}
    PROVE  \E i \in T : \A j \in T : i <= j
<1>1. PICK i \in T : \A j \in T : <<j, i>> \notin OpToRel(<, Nat)
  BY NatLessThanWellFounded, WFMin
<1>2. ASSUME NEW j \in T
      PROVE  i <= j
  <2>1. ~(j < i)
    BY <1>1 DEF OpToRel
  <2>2. i \in Nat /\ j \in Nat
    OBVIOUS
  <2> QED
    BY <2>1, <2>2
<1> QED
  BY <1>2

\* Of the messages of a set one is decisive.
LEMMA BestIsOne ==
    ASSUME NEW c, NEW S \in SUBSET Nat, S # {}
    PROVE  \E i \in S : Decisive(c, S, i) /\ Best(c, S) = c[i].status
<1> DEFINE At(r) == {j \in S : Rank(c[j].status) = r}
<1>1. \A j \in S : j \in At(0) \cup At(10) \cup At(20) \cup At(30) \cup At(40) \cup At(45) \cup At(50)
  BY RankType
<1>2. \E r \in {0, 10, 20, 30, 40, 45, 50} :
        At(r) # {} /\ \A j \in S : Rank(c[j].status) <= r
  <2>1. CASE At(50) # {}
    BY <2>1, RankType
  <2>2. CASE At(50) = {} /\ At(45) # {}
    BY <2>2, <1>1, RankType
  <2>3. CASE At(50) = {} /\ At(45) = {} /\ At(40) # {}
    BY <2>3, <1>1, RankType
  <2>4. CASE At(50) = {} /\ At(45) = {} /\ At(40) = {} /\ At(30) # {}
    BY <2>4, <1>1, RankType
  <2>5. CASE At(50) = {} /\ At(45) = {} /\ At(40) = {} /\ At(30) = {} /\ At(20) # {}
    BY <2>5, <1>1, RankType
  <2>6. CASE /\ At(50) = {} /\ At(45) = {} /\ At(40) = {} /\ At(30) = {} /\ At(20) = {}
             /\ At(10) # {}
    BY <2>6, <1>1, RankType
  <2>7. CASE /\ At(50) = {} /\ At(45) = {} /\ At(40) = {} /\ At(30) = {} /\ At(20) = {}
             /\ At(10) = {}
    BY <2>7, <1>1, RankType
  <2> QED
    BY <2>1, <2>2, <2>3, <2>4, <2>5, <2>6, <2>7
<1>3. PICK r \in {0, 10, 20, 30, 40, 45, 50} : At(r) # {} /\ \A j \in S : Rank(c[j].status) <= r
  BY <1>2
<1>4. PICK i \in At(r) : \A j \in At(r) : i <= j
  <2>1. At(r) \in SUBSET Nat
    OBVIOUS
  <2> QED
    BY <1>3, <2>1, Least
<1>5. i \in S /\ Decisive(c, S, i)
  <2>1. ASSUME NEW j \in S
        PROVE  \/ Rank(c[j].status) < Rank(c[i].status)
               \/ Rank(c[j].status) = Rank(c[i].status) /\ i <= j
    <3>1. CASE Rank(c[j].status) = r
      BY <3>1, <1>4, <2>1
    <3>2. CASE Rank(c[j].status) # r
      BY <3>2, <1>3, <1>4, <2>1, RankType
    <3> QED
      BY <3>1, <3>2
  <2> QED
    BY <2>1, <1>4 DEF Decisive
<1> QED
  BY <1>5 DEF Best

\* The item evidence takes for an order's is one that a message naming it carries.
LEMMA ItemIsNamed ==
    ASSUME NEW job, NEW S \in SUBSET Nat, NEW o \in Order, ItemOf(job, S, o) # Unsaid
    PROVE  \E i \in S : chat[i].order = o /\ chat[i].item = ItemOf(job, S, o)
<1> DEFINE T == {i \in Naming(job, S, o) : chat[i].item # Unsaid}
<1>1. T \in SUBSET Nat /\ \A i \in T : i \in S /\ chat[i].order = o
  BY DEF Naming
<1>2. T # {} /\ ItemOf(job, S, o) = chat[First(T)].item
  BY DEF ItemOf
<1>3. First(T) \in T
  BY <1>1, <1>2, Least DEF First
<1> QED
  BY <1>1, <1>2, <1>3

\* Evidence about an order is a status, of a message that names it or of one that
\* names none and carries no item, or the item of a message that names it.
LEMMA EvidenceIsHeard ==
    ASSUME NEW job, NEW S \in SUBSET Nat, NEW o \in Order, Evidence(job, S, o) # "unknown"
    PROVE  \E i \in S :
              /\ Evidence(job, S, o) = chat[i].status
              /\ \/ chat[i].order = o
                 \/ chat[i].order = Unsaid /\ chat[i].item = Unsaid
                 \/ /\ chat[i].order = Unsaid
                    /\ \E j \in S : chat[j].order = o /\ chat[j].item = chat[i].item
<1> DEFINE named == Best(chat, Naming(job, S, o))
           loose == Best(chat, Loose(job, S, o))
<1>1. Naming(job, S, o) \in SUBSET Nat /\ Loose(job, S, o) \in SUBSET Nat
  BY DEF Naming, Loose
<1>2. CASE Evidence(job, S, o) = named
  <2>1. Naming(job, S, o) # {}
    BY <1>2 DEF Best
  <2>2. PICK i \in Naming(job, S, o) : named = chat[i].status
    BY <1>1, <2>1, BestIsOne
  <2> QED
    BY <1>2, <2>2 DEF Naming
<1>3. CASE Evidence(job, S, o) = loose
  <2>1. Loose(job, S, o) # {}
    BY <1>3 DEF Best
  <2>2. PICK i \in Loose(job, S, o) : loose = chat[i].status
    BY <1>1, <2>1, BestIsOne
  <2>3. o \in Fits(job, S, chat[i]) /\ i \in S /\ chat[i].order = Unsaid
    BY <2>2 DEF Loose
  <2>4. chat[i].item # Unsaid => ItemOf(job, S, o) = chat[i].item
    BY <2>3 DEF Fits
  <2> QED
    BY <1>3, <2>2, <2>3, <2>4, ItemIsNamed
<1> QED
  BY <1>2, <1>3, MergeChooses DEF Evidence

-----------------------------------------------------------------------------
(* Types *)

\* An idle session is well typed.
LEMMA IdleType == Idle \in Local
BY DEF Idle, Local, Nowhere, Unstored, Column

\* What a message says is a status, and every status a value of the column.
LEMMA EvidentType == Evident \subseteq Ranked /\ Ranked \subseteq Statuses /\ Statuses \subseteq Column
BY DEF Evident, Statuses, Column

\* The messages of the chat, one by one.
LEMMA ChatTypes ==
    ASSUME TypeOK
    PROVE  /\ DOMAIN chat \in SUBSET Nat /\ DOMAIN chat \subseteq 1 .. MaxMessages
           /\ \A i \in DOMAIN chat : /\ chat[i].order \in Order \cup {Unsaid}
                                     /\ chat[i].status \in Ranked /\ chat[i].status \in Column
                                     /\ \E o \in Order : chat[i].talk = Conversation(o)
<1>1. chat \in Seq(Message) /\ Len(chat) \in Nat /\ Len(chat) <= MaxMessages
  BY DEF TypeOK
<1>2. DOMAIN chat = 1 .. Len(chat) /\ \A i \in DOMAIN chat : chat[i] \in Message
  BY <1>1
<1> QED
  BY <1>1, <1>2, EvidentType, BoundAssumption DEF Message

\* What a set of messages says of an order is a value of the column.
LEMMA EvidenceType ==
    ASSUME TypeOK, NEW job, NEW S \in SUBSET DOMAIN chat, NEW o \in Order
    PROVE  Evidence(job, S, o) \in Column
<1>1. CASE Evidence(job, S, o) = "unknown"
  BY <1>1 DEF Column, Statuses, Ranked
<1>2. CASE Evidence(job, S, o) # "unknown"
  BY <1>2, ChatTypes, EvidenceIsHeard
<1> QED
  BY <1>1, <1>2

\* What a session writes are values of the column.
LEMMA PutsType ==
    ASSUME TypeOK, NEW s \in Session, NEW put \in Puts(loc[s])
    PROVE  put \in [Order -> Column]
<1> DEFINE l == loc[s]
<1>1. /\ l.seen \in [Order -> Column] /\ l.list \in [Order -> Column]
      /\ l.msgs \in SUBSET DOMAIN chat
  BY DEF TypeOK, Local
<1>2. ASSUME NEW i \in l.msgs, NEW gaps, put = ByMessage(l.seen, chat[i], gaps)
      PROVE  put \in [Order -> Column]
  <2>1. \A o \in Order : Merge(l.seen[o], chat[i].status) \in Column
    BY <1>1, ChatTypes, MergeType
  <2> QED
    BY <1>1, <1>2, <2>1 DEF ByMessage
<1>3. ASSUME NEW i \in l.msgs, put = ByPayment(l.seen, chat[i].order)
      PROVE  put \in [Order -> Column]
  BY <1>1, <1>3 DEF ByPayment, Column, Statuses, Ranked
<1>4. ASSUME put = ByList(l.seen, l.list)
      PROVE  put \in [Order -> Column]
  BY <1>1, <1>4 DEF ByList
<1>5. ASSUME put = ByEvidence(l.seen, l.msgs, l.job)
      PROVE  put \in [Order -> Column]
  <2>1. \A o \in Order : /\ Evidence(l.job, l.msgs, o) \in Column
                         /\ Merge(l.seen[o], Evidence(l.job, l.msgs, o)) \in Column
    BY <1>1, EvidenceType, MergeType
  <2>2. "absent" \in Column
    BY DEF Column
  <2> QED
    BY <1>1, <1>5, <2>1, <2>2 DEF ByEvidence
<1> QED
  BY <1>1, <1>2, <1>3, <1>4, <1>5 DEF Puts

\* The types the requests keep among them.
LocType == /\ pc \in [Session -> {"idle", "save", "list", "write", "pay"}]
           /\ loc \in [Session -> Local]
           /\ \A s \in Session : loc[s].msgs \subseteq DOMAIN chat /\ loc[s].todo \subseteq loc[s].msgs

\* A session that goes on to a well typed state keeps the types, also when the chat grows.
LEMMA GotoType ==
    ASSUME TypeOK, DOMAIN chat \subseteq DOMAIN chat', NEW s \in Session, NEW l \in Local,
           NEW p \in {"idle", "save", "list", "write", "pay"},
           l.msgs \subseteq DOMAIN chat', l.todo \subseteq l.msgs,
           Goto(s, p, l)
    PROVE  LocType'
BY DEF TypeOK, LocType, Goto

\* A new message comes last and leaves the others as they are.
LEMMA WritesChat ==
    ASSUME TypeOK, NEW m \in Message, Writes(m)
    PROVE  /\ chat' \in Seq(Message) /\ Len(chat') <= MaxMessages
           /\ DOMAIN chat' = DOMAIN chat \cup {Len(chat) + 1}
           /\ \A i \in DOMAIN chat : chat'[i] = chat[i]
           /\ chat'[Len(chat) + 1] = m
<1>1. chat \in Seq(Message) /\ Len(chat) \in Nat /\ Len(chat) < MaxMessages /\ chat' = Append(chat, m)
  BY DEF TypeOK, Writes
<1>2. /\ chat' \in Seq(Message) /\ Len(chat') = Len(chat) + 1
      /\ \A i \in 1 .. Len(chat) : chat'[i] = chat[i]
      /\ chat'[Len(chat) + 1] = m
  BY <1>1
<1>3. DOMAIN chat = 1 .. Len(chat) /\ DOMAIN chat' = 1 .. (Len(chat) + 1)
  BY <1>1, <1>2
<1>4. DOMAIN chat' = DOMAIN chat \cup {Len(chat) + 1}
  BY <1>1, <1>3
<1> QED
  BY <1>1, <1>2, <1>3, <1>4, BoundAssumption

\* Saying something keeps the types of all that is about what was said before.
LEMMA WritesType ==
    ASSUME TypeOK, NEW m \in Message, Writes(m), UNCHANGED <<pc, loc, pushed, dispatched>>
    PROVE  /\ chat' \in Seq(Message) /\ Len(chat') <= MaxMessages /\ LocType'
           /\ pushed' \subseteq DOMAIN chat' /\ dispatched' \subseteq DOMAIN chat'
BY WritesChat DEF TypeOK, LocType

\* What is said in an order's conversation is a message.
LEMMA MessagesType ==
    ASSUME NEW o \in Order, NEW order \in {o, Unsaid}, NEW people, NEW st \in Ranked,
           NEW m \in Messages(order, o, people, st)
    PROVE  m \in Message
BY DEF Messages, Message

\* A request that arrives is well typed and changes nothing else.
LEMMA ArrivesType ==
    ASSUME TypeOK, NEW s \in Session, NEW p \in {"save", "list", "write"}, NEW job,
           NEW S \in SUBSET DOMAIN chat, NEW todo \in SUBSET S,
           Arrives(s, p, job, S, todo)
    PROVE  /\ LocType' /\ starts' \in Nat
           /\ UNCHANGED <<real, claims, chat, rows, local, dispatched>>
<1> DEFINE l == [Idle EXCEPT !.job = job, !.msgs = S, !.todo = todo, !.seen = local, !.known = rows]
<1>1. l \in Local /\ l.msgs = S /\ l.todo = todo
  <2>1. job \in JobKinds /\ S \in SUBSET Nat /\ todo \in SUBSET Nat
    BY ChatTypes, JobAssumption DEF Arrives, Opens
  <2> QED
    BY <2>1, IdleType DEF TypeOK, Local, Idle
<1>2. UNCHANGED chat /\ Goto(s, p, l)
  BY DEF Arrives, Opens
<1>3. LocType'
  BY <1>1, <1>2, GotoType
<1> QED
  BY <1>3 DEF Arrives, Opens, TypeOK

\* A page is a set of messages there are.
LEMMA PageType ==
    ASSUME TypeOK, NEW o \in Order, NEW page \in Pages(o)
    PROVE  page \in SUBSET DOMAIN chat
BY DEF Pages

\* What the seller writes in the console is a message, and its request is well typed.
LEMMA SendType ==
    ASSUME TypeOK, NEW s \in Session, NEW o \in Order, NEW st \in Words, Send(s, o, st)
    PROVE  TypeOK'
<1> DEFINE m == [order |-> Unsaid, talk |-> Conversation(o), item |-> Unsaid,
                 from |-> Seller, status |-> st]
           sent == Len(chat) + 1
           l == [Idle EXCEPT !.job = "send", !.msgs = {sent}, !.todo = {sent},
                             !.seen = local, !.known = rows]
<1>1. m \in Message /\ Writes(m) /\ Goto(s, "save", l) /\ starts' = starts + 1
  BY StatusAssumption, EvidentType DEF Send, Opens, Message
<1>2. /\ chat' \in Seq(Message) /\ Len(chat') <= MaxMessages
      /\ DOMAIN chat' = DOMAIN chat \cup {sent}
  BY <1>1, WritesChat
<1>3. l \in Local /\ l.msgs = {sent} /\ l.todo = {sent}
  <2>1. "send" \in JobKinds /\ {sent} \in SUBSET Nat
    BY DEF JobKinds, TypeOK
  <2> QED
    BY <2>1, IdleType DEF TypeOK, Local, Idle
<1>4. LocType'
  <2> HIDE DEF l, m, sent
  <2> QED
    BY <1>1, <1>2, <1>3, GotoType
<1>5. claims' \in [Order -> SUBSET Statuses]
  BY StatusAssumption, EvidentType DEF Send, Heard, TypeOK
<1> QED
  BY <1>1, <1>2, <1>4, <1>5 DEF Send, TypeOK, LocType

\* A request that comes in keeps the types.
LEMMA RequestType ==
    ASSUME TypeOK, NEW s \in Session, Request(s)
    PROVE  TypeOK'
<1>1. ASSUME NEW i \in DOMAIN chat, Event(s, i)
      PROVE  TypeOK'
  <2>1. Arrives(s, "save", "live", {i}, {i}) /\ pushed' = pushed \cup {i}
    BY <1>1 DEF Event
  <2>2. LocType' /\ starts' \in Nat /\ UNCHANGED <<real, claims, chat, rows, local, dispatched>>
    BY <2>1, ArrivesType
  <2> QED
    BY <2>1, <2>2 DEF TypeOK, LocType
<1>2. ASSUME NEW o \in Order, NEW page \in Pages(o), OpenChat(s, page)
      PROVE  TypeOK'
  <2>1. page \in SUBSET DOMAIN chat /\ Stored(page) \in SUBSET DOMAIN chat
    BY PageType DEF Stored
  <2>2. \/ Arrives(s, "save", "history", page, page)
        \/ Arrives(s, "write", "history", Stored(page), {})
    BY <1>2 DEF OpenChat
  <2>3. LocType' /\ starts' \in Nat /\ UNCHANGED <<real, claims, chat, rows, local, dispatched>>
    BY <2>1, <2>2, ArrivesType
  <2> QED
    BY <1>2, <2>3 DEF TypeOK, LocType, OpenChat
<1>3. CASE Reconcile(s)
  <2>1. Stored(DOMAIN chat) \in SUBSET DOMAIN chat
    BY DEF Stored
  <2>2. LocType' /\ starts' \in Nat /\ UNCHANGED <<real, claims, chat, rows, local, dispatched>>
    BY <1>3, <2>1, ArrivesType DEF Reconcile
  <2> QED
    BY <1>3, <2>2 DEF TypeOK, LocType, Reconcile
<1>4. CASE Sync(s)
  <2>1. LocType' /\ starts' \in Nat /\ UNCHANGED <<real, claims, chat, rows, local, dispatched>>
    BY <1>4, ArrivesType DEF Sync
  <2> QED
    BY <1>4, <2>1 DEF TypeOK, LocType, Sync
<1> QED
  BY <1>1, <1>2, <1>3, <1>4, SendType DEF Request

\* What the platform, the persons and the seller do keeps the types.
LEMMA PeopleType ==
    ASSUME TypeOK, NEW o \in Order, NEW st \in Statuses,
           Trade(o, st) \/ Say(o, st) \/ Edit(o, st) \/ Remind(o)
    PROVE  TypeOK'
<1>1. CASE Trade(o, st)
  <2>1. st \in Ranked
    BY <1>1 DEF Trade, Successors, Ranked
  <2>2. PICK m \in Message : Writes(m)
    BY <1>1, <2>1, MessagesType DEF Trade
  <2>3. real' \in [Order -> Column] /\ claims' \in [Order -> SUBSET Statuses]
    BY <1>1 DEF Trade, TypeOK, Column
  <2> QED
    BY <1>1, <2>2, <2>3, WritesType DEF Trade, TypeOK, LocType
<1>2. CASE Say(o, st)
  <2>1. st \in Ranked
    BY <1>2, StatusAssumption, EvidentType DEF Say
  <2>2. PICK m \in Message : Writes(m)
    BY <1>2, <2>1, MessagesType DEF Say
  <2>3. claims' \in [Order -> SUBSET Statuses]
    BY <1>2 DEF Say, Heard, TypeOK
  <2> QED
    BY <1>2, <2>2, <2>3, WritesType DEF Say, TypeOK, LocType
<1>3. CASE Edit(o, st)
  BY <1>3 DEF Edit, TypeOK, Column
<1>4. CASE Remind(o)
  <2>1. PICK m \in Message : Writes(m)
    BY <1>4, MessagesType DEF Remind, Ranked
  <2> QED
    BY <1>4, <2>1, WritesType DEF Remind, TypeOK, LocType
<1> QED
  BY <1>1, <1>2, <1>3, <1>4

\* Saving the rows of a request keeps the types.
LEMMA SaveType ==
    ASSUME TypeOK, NEW s \in Session, Save(s)
    PROVE  TypeOK'
<1>1. loc[s] \in Local /\ loc[s].msgs \subseteq DOMAIN chat /\ loc[s].todo \subseteq loc[s].msgs
  BY DEF TypeOK
<1>2. PICK i \in loc[s].todo :
        LET left == loc[s].todo \ {i}
            next == IF left = {} THEN "write" ELSE "save"
        IN  /\ \/ /\ rows' = [rows EXCEPT ![i] = @ + 1]
                  /\ Goto(s, next, [loc[s] EXCEPT !.todo = left, !.fresh = TRUE,
                                                  !.seen = local, !.known = rows'])
               \/ Goto(s, next, [loc[s] EXCEPT !.todo = left]) /\ UNCHANGED rows
               \/ Goto(s, "idle", Idle) /\ UNCHANGED rows
            /\ UNCHANGED <<real, claims, chat, local, pushed, dispatched, starts>>
  BY DEF Save
<1> DEFINE left == loc[s].todo \ {i}
           next == IF left = {} THEN "write" ELSE "save"
           stored == [loc[s] EXCEPT !.todo = left, !.fresh = TRUE, !.seen = local, !.known = rows']
<1>3. UNCHANGED chat /\ next \in {"save", "write"}
  BY <1>2
<1>4. CASE rows' = [rows EXCEPT ![i] = @ + 1] /\ Goto(s, next, stored)
  <2>1. rows' \in [1 .. MaxMessages -> Nat]
    <3>1. rows \in [1 .. MaxMessages -> Nat]
      BY DEF TypeOK
    <3>2. i \in 1 .. MaxMessages
      BY <1>1, ChatTypes
    <3>3. rows' = [rows EXCEPT ![i] = @ + 1]
      BY <1>4
    <3> QED
      BY ONLY <3>1, <3>2, <3>3
  <2>2. stored \in Local /\ stored.msgs = loc[s].msgs /\ stored.todo = left
    BY <1>1, <2>1 DEF Local, TypeOK
  <2>3. LocType'
    BY <1>1, <1>3, <1>4, <2>2, GotoType
  <2> QED
    BY <1>2, <2>1, <2>3 DEF TypeOK, LocType
<1>5. CASE Goto(s, next, [loc[s] EXCEPT !.todo = left]) /\ UNCHANGED rows
  <2>1. [loc[s] EXCEPT !.todo = left] \in Local
    BY <1>1 DEF Local
  <2>2. LocType'
    BY <1>1, <1>3, <1>5, <2>1, GotoType DEF Local
  <2> QED
    BY <1>2, <1>5, <2>2 DEF TypeOK, LocType
<1>6. CASE Goto(s, "idle", Idle) /\ UNCHANGED rows
  <2>1. LocType'
    BY <1>3, <1>6, IdleType, GotoType DEF Idle
  <2> QED
    BY <1>2, <1>6, <2>1 DEF TypeOK, LocType
<1> QED
  BY <1>2, <1>4, <1>5, <1>6

\* Committing the statuses of a request keeps the types.
LEMMA CommitType ==
    ASSUME TypeOK, NEW s \in Session, Commit(s)
    PROVE  TypeOK'
<1>1. loc[s] \in Local /\ loc[s].msgs \subseteq DOMAIN chat /\ loc[s].todo \subseteq loc[s].msgs
  BY DEF TypeOK
<1>2. local' \in [Order -> Column]
  <2>1. PICK put \in Puts(loc[s]) : local' = Committed(loc[s], put)
    BY DEF Commit
  <2>2. put \in [Order -> Column]
    BY PutsType
  <2> QED
    BY <2>1, <2>2 DEF Committed, TypeOK
<1>3. dispatched' \subseteq DOMAIN chat
  BY <1>1 DEF Commit, Payments, TypeOK
<1>4. LocType'
  <2>1. UNCHANGED chat /\ (Goto(s, "pay", loc[s]) \/ Goto(s, "idle", Idle))
    BY DEF Commit
  <2>2. CASE Goto(s, "pay", loc[s])
    BY <1>1, <2>1, <2>2, GotoType
  <2>3. CASE Goto(s, "idle", Idle)
    BY <2>1, <2>3, IdleType, GotoType DEF Idle
  <2> QED
    BY <2>1, <2>2, <2>3
<1> QED
  BY <1>2, <1>3, <1>4 DEF Commit, TypeOK, LocType

\* Every step of a session keeps the types.
LEMMA StepType ==
    ASSUME TypeOK, NEW s \in Session, Step(s)
    PROVE  TypeOK'
<1>1. loc[s] \in Local /\ loc[s].msgs \subseteq DOMAIN chat /\ loc[s].todo \subseteq loc[s].msgs
  BY DEF TypeOK
<1>2. CASE List(s)
  <2>1. PICK gaps \in SUBSET Order :
           Goto(s, "write", [loc[s] EXCEPT !.list = [o \in Order |->
                                            IF o \in gaps THEN "unknown" ELSE real[o]]])
    BY <1>2 DEF List
  <2>2. [o \in Order |-> IF o \in gaps THEN "unknown" ELSE real[o]] \in [Order -> Column]
    BY DEF TypeOK, Column, Statuses, Ranked
  <2>3. LocType'
    BY <1>1, <1>2, <2>1, <2>2, GotoType DEF List, Local
  <2> QED
    BY <1>2, <2>3 DEF List, TypeOK, LocType
<1>3. CASE Pay(s)
  <2>1. [loc[s] EXCEPT !.job = "payment", !.seen = local] \in Local
    BY <1>1 DEF Local, TypeOK
  <2>2. LocType'
    BY <1>1, <1>3, <2>1, GotoType DEF Pay, Local
  <2> QED
    BY <1>3, <2>2 DEF Pay, TypeOK, LocType
<1> QED
  BY <1>2, <1>3, SaveType, CommitType DEF Step

\* Every reachable state is well typed, and a request is about messages there are.
THEOREM TypeCorrect == Spec => []TypeOK
<1>1. Init => TypeOK
  <2> SUFFICES ASSUME Init PROVE TypeOK
    OBVIOUS
  <2>1. Nowhere \in [Order -> Column] /\ Unstored \in [1 .. MaxMessages -> Nat]
    BY DEF Nowhere, Unstored, Column
  <2>2. chat \in Seq(Message) /\ Len(chat) = 0 /\ DOMAIN chat = {}
    BY DEF Init
  <2> QED
    BY <2>1, <2>2, IdleType, BoundAssumption DEF Init, TypeOK, Idle
<1>2. TypeOK /\ [Next]_vars => TypeOK'
  <2> SUFFICES ASSUME TypeOK, [Next]_vars PROVE TypeOK'
    OBVIOUS
  <2>1. CASE UNCHANGED vars
    BY <2>1 DEF vars, TypeOK
  <2>2. CASE \E o \in Order, st \in Statuses : Trade(o, st) \/ Say(o, st) \/ Edit(o, st)
    BY <2>2, PeopleType
  <2>4. CASE \E o \in Order : Remind(o)
    <3>1. "unknown" \in Statuses
      BY DEF Statuses, Ranked
    <3> QED
      BY <2>4, <3>1, PeopleType
  <2>3. CASE \E s \in Session : Request(s) \/ Step(s)
    BY <2>3, RequestType, StepType
  <2> QED
    BY <2>1, <2>2, <2>3, <2>4 DEF Next, Rest
<1> QED
  BY <1>1, <1>2, PTL DEF Spec

-----------------------------------------------------------------------------
(* What chat messages do to orders *)

\* A session that goes on leaves the others where they are.
LEMMA GotoElsewhere ==
    ASSUME NEW s \in Session, NEW t \in Session, t # s, NEW p, NEW l, TypeOK, Goto(t, p, l)
    PROVE  pc'[s] = pc[s] /\ loc'[s] = loc[s]
BY DEF Goto, TypeOK

\* Goto sets the session's place and its variables.
LEMMA GotoHere ==
    ASSUME NEW s \in Session, NEW p, NEW l, TypeOK, Goto(s, p, l)
    PROVE  pc'[s] = p /\ loc'[s] = l
BY DEF Goto, TypeOK

\* A session that is writing moves on only by its commit.
LEMMA StepGoes ==
    ASSUME NEW s \in Session, Request(s) \/ Step(s)
    PROVE  \/ pc[s] # "write" /\ \E p, l : Goto(s, p, l)
           \/ Commit(s) /\ \E p, l : Goto(s, p, l)
<1>1. CASE Request(s)
  BY <1>1 DEF Request, Event, OpenChat, Reconcile, Sync, Send, Arrives, Opens
<1>2. CASE Save(s)
  BY <1>2 DEF Save
<1>3. CASE List(s)
  BY <1>3 DEF List
<1>4. CASE Pay(s)
  BY <1>4 DEF Pay
<1>5. CASE Commit(s)
  <2>1. Goto(s, "pay", loc[s]) \/ Goto(s, "idle", Idle)
    BY <1>5 DEF Commit
  <2> QED
    BY <1>5, <2>1
<1> QED
  BY <1>1, <1>2, <1>3, <1>4, <1>5 DEF Step

\* A session that stops writing has committed.
LEMMA WriterCommits ==
    ASSUME TypeOK, [Next]_vars, NEW s \in Session, Writing(s)
    PROVE  Commit(s)
<1>1. pc[s] = "write" /\ pc'[s] # pc[s]
  BY DEF Writing
<1>2. PICK t \in Session : Request(t) \/ Step(t)
  BY <1>1 DEF Next, Trade, Say, Edit, Remind, Rest, vars
<1>3. t = s
  <2>1. PICK p, l : Goto(t, p, l)
    BY <1>2, StepGoes
  <2> QED
    BY <1>1, <2>1, GotoElsewhere
<1> QED
  BY <1>1, <1>2, <1>3, StepGoes

\* What a request through chat messages writes is what it read or ranks no lower.
LEMMA PutsRise ==
    ASSUME NEW s \in Session, ByChat(s), NEW put \in Puts(loc[s]), NEW o \in Order,
           loc[s].seen[o] # "absent"
    PROVE  \/ put[o] = loc[s].seen[o]
           \/ loc[s].seen[o] \notin Settled /\ Rank(put[o]) >= Rank(loc[s].seen[o])
<1>1. CASE loc[s].job = "live"
  <2>1. \E i \in loc[s].msgs : \E gaps : put = ByMessage(loc[s].seen, chat[i], gaps)
    BY <1>1 DEF Puts
  <2>2. \E i \in loc[s].msgs : put[o] \in {loc[s].seen[o], Merge(loc[s].seen[o], chat[i].status)}
    BY <2>1 DEF ByMessage
  <2> QED
    BY <2>2, MergeRises
<1>2. CASE loc[s].job \in {"history", "reconcile"}
  <2>1. put = ByEvidence(loc[s].seen, loc[s].msgs, loc[s].job)
    BY <1>2 DEF Puts
  <2>2. put[o] \in {loc[s].seen[o], Merge(loc[s].seen[o], Evidence(loc[s].job, loc[s].msgs, o))}
    BY <2>1 DEF ByEvidence
  <2> QED
    BY <2>2, MergeRises
<1> QED
  BY <1>1, <1>2 DEF ByChat

\* merge_order_status keeps its promise through every path that applies a chat
\* message: an order is set back, or moved out of a settled status, only where
\* another request wrote its row after this one read it.
THEOREM ChatNeverSetsBack == Spec => ChatSetsBackOnlyStale
<1>1. ASSUME TypeOK, [Next]_vars
      PROVE  \A s \in Session : Writing(s) /\ ByChat(s) =>
                \A o \in Order : local[o] = loc[s].seen[o] /\ local[o] # "absent" =>
                   \/ local'[o] = local[o]
                   \/ local[o] \notin Settled /\ Rank(local'[o]) >= Rank(local[o])
  <2>1. TAKE s \in Session
  <2>2. HAVE Writing(s) /\ ByChat(s)
  <2>3. TAKE o \in Order
  <2>4. HAVE local[o] = loc[s].seen[o] /\ local[o] # "absent"
  <2>5. PICK put \in Puts(loc[s]) : local' = Committed(loc[s], put)
    BY <1>1, <2>2, WriterCommits DEF Commit
  <2>6. local'[o] \in {local[o], put[o]}
    BY <2>5 DEF Committed
  <2> QED
    BY <2>2, <2>4, <2>6, PutsRise
<1>2. [Next]_vars /\ TypeOK => [\A s \in Session : Writing(s) /\ ByChat(s) =>
                \A o \in Order : local[o] = loc[s].seen[o] /\ local[o] # "absent" =>
                   \/ local'[o] = local[o]
                   \/ local[o] \notin Settled /\ Rank(local'[o]) >= Rank(local[o])]_vars
  BY <1>1
<1> QED
  BY <1>2, TypeCorrect, PTL DEF Spec, ChatSetsBackOnlyStale

\* Merging never stops below either value.
LEMMA MergeReaches ==
    ASSUME NEW current, NEW incoming \in Ranked
    PROVE  /\ Rank(Merge(current, incoming)) >= Rank(incoming)
           /\ Rank(Merge(current, incoming)) >= Rank(current)
BY RankType DEF Merge, Rank, Ranked, Settled

\* No message of a set stands for a higher status than the best.
LEMMA BestIsHighest ==
    ASSUME NEW c, NEW S \in SUBSET Nat, NEW i \in S
    PROVE  Rank(Best(c, S)) >= Rank(c[i].status)
<1>1. PICK k \in S : Decisive(c, S, k) /\ Best(c, S) = c[k].status
  BY BestIsOne
<1> QED
  BY <1>1, RankType DEF Decisive

\* A live event is about one message.
OneLive == \A s \in Session : loc[s].job = "live" => \E i : loc[s].msgs = {i}

\* A live event stays about its one message while the session goes on.
LEMMA GotoOneLive ==
    ASSUME TypeOK, OneLive, NEW s \in Session, NEW p, NEW l, Goto(s, p, l),
           \/ l.job # "live"
           \/ \E i : l.msgs = {i}
           \/ l.job = loc[s].job /\ l.msgs = loc[s].msgs
    PROVE  OneLive'
<1>1. loc'[s] = l /\ \A t \in Session : t # s => loc'[t] = loc[t]
  BY GotoHere, GotoElsewhere
<1> SUFFICES ASSUME NEW t \in Session, loc'[t].job = "live"
             PROVE  \E i : loc'[t].msgs = {i}
  BY DEF OneLive
<1>2. CASE t = s
  BY <1>1, <1>2 DEF OneLive
<1>3. CASE t # s
  BY <1>1, <1>3 DEF OneLive
<1> QED
  BY <1>2, <1>3

\* A live event arrives with one message.
LEMMA OpensOneLive ==
    ASSUME TypeOK, OneLive, NEW s \in Session, NEW p, NEW job, NEW S, NEW todo,
           job = "live" => \E i : S = {i}, Opens(s, p, job, S, todo)
    PROVE  OneLive'
<1> DEFINE l == [Idle EXCEPT !.job = job, !.msgs = S, !.todo = todo, !.seen = local, !.known = rows]
<1>1. l.job = job /\ l.msgs = S
  BY DEF Idle
<1>2. Goto(s, p, l)
  BY DEF Opens
<1> HIDE DEF l
<1> QED
  BY <1>1, <1>2, GotoOneLive

\* Every step of a session keeps a live event at one message.
LEMMA StepOneLive ==
    ASSUME TypeOK, OneLive, NEW s \in Session, Request(s) \/ Step(s)
    PROVE  OneLive'
<1>1. loc[s] \in Local
  BY DEF TypeOK
<1>2. CASE Request(s)
  BY <1>2, OpensOneLive DEF Request, Event, OpenChat, Reconcile, Sync, Send, Arrives
<1>3. CASE Goto(s, "idle", Idle)
  BY <1>3, GotoOneLive DEF Idle
<1>4. CASE Save(s)
  <2>1. PICK p, left, fresh, seen, known :
           \/ Goto(s, p, [loc[s] EXCEPT !.todo = left, !.fresh = fresh, !.seen = seen, !.known = known])
           \/ Goto(s, p, [loc[s] EXCEPT !.todo = left])
           \/ Goto(s, "idle", Idle)
    BY <1>4 DEF Save
  <2> DEFINE stored == [loc[s] EXCEPT !.todo = left, !.fresh = fresh, !.seen = seen, !.known = known]
             skipped == [loc[s] EXCEPT !.todo = left]
  <2>2. /\ stored.job = loc[s].job /\ stored.msgs = loc[s].msgs
        /\ skipped.job = loc[s].job /\ skipped.msgs = loc[s].msgs
    BY <1>1 DEF Local
  <2>3. Goto(s, p, stored) \/ Goto(s, p, skipped) \/ Goto(s, "idle", Idle)
    BY <2>1
  <2> HIDE DEF stored, skipped
  <2> QED
    BY <1>3, <2>2, <2>3, GotoOneLive
<1>5. CASE List(s)
  <2>1. PICK list : Goto(s, "write", [loc[s] EXCEPT !.list = list])
    BY <1>5 DEF List
  <2>2. /\ [loc[s] EXCEPT !.list = list].job = loc[s].job
        /\ [loc[s] EXCEPT !.list = list].msgs = loc[s].msgs
    BY <1>1 DEF Local
  <2> QED
    BY <2>1, <2>2, GotoOneLive
<1>6. CASE Pay(s)
  <2> DEFINE l == [loc[s] EXCEPT !.job = "payment", !.seen = local]
  <2>1. l.job = "payment"
    BY <1>1 DEF Local
  <2>2. Goto(s, "write", l)
    BY <1>6 DEF Pay
  <2> HIDE DEF l
  <2> QED
    BY <2>1, <2>2, GotoOneLive
<1>7. CASE Commit(s)
  <2>1. Goto(s, "pay", loc[s]) \/ Goto(s, "idle", Idle)
    BY <1>7 DEF Commit
  <2> QED
    BY <1>3, <2>1, GotoOneLive
<1> QED
  BY <1>2, <1>4, <1>5, <1>6, <1>7 DEF Step

\* A live event is about one message, always.
LEMMA OneLiveAlways == Spec => []OneLive
<1>1. Init => OneLive
  BY DEF Init, OneLive, Idle
<1>2. TypeOK /\ OneLive /\ [Next]_vars => OneLive'
  <2> SUFFICES ASSUME TypeOK, OneLive, [Next]_vars PROVE OneLive'
    OBVIOUS
  <2>1. CASE UNCHANGED loc
    BY <2>1 DEF OneLive
  <2>2. CASE \E s \in Session : Request(s) \/ Step(s)
    BY <2>2, StepOneLive
  <2> QED
    BY <2>1, <2>2 DEF Next, Trade, Say, Edit, Remind, Rest, vars
<1> QED
  BY <1>1, <1>2, TypeCorrect, PTL DEF Spec

\* What a chat request writes for an order its message names is no lower than the message.
LEMMA PutsReach ==
    ASSUME TypeOK, OneLive, NEW s \in Session, ByChat(s), NEW put \in Puts(loc[s]),
           NEW i \in loc[s].msgs, NEW o \in Order, chat[i].order = o, put[o] # "absent"
    PROVE  Rank(put[o]) >= Rank(chat[i].status)
<1> DEFINE l == loc[s]
<1>1. l.msgs \in SUBSET DOMAIN chat /\ l.msgs \in SUBSET Nat /\ chat[i].status \in Ranked
  <2>1. l.msgs \in SUBSET DOMAIN chat
    BY DEF TypeOK
  <2> QED
    BY <2>1, ChatTypes
<1>2. CASE chat[i].status = "unknown"
  BY <1>2, RankType DEF Rank, Settled
<1>3. CASE chat[i].status # "unknown" /\ l.job = "live"
  <2>1. PICK gaps : put = ByMessage(l.seen, chat[i], gaps)
    BY <1>3 DEF Puts, OneLive
  <2>2. Finds(l.seen, chat[i], gaps, o)
    <3>1. l.seen[o] # "absent"
      BY <2>1 DEF ByMessage, Finds, Matches
    <3>2. Matches(l.seen, chat[i], gaps) = {o}
      BY <3>1, OrderAssumption DEF Matches
    <3> QED
      BY <1>3, <3>2 DEF Finds
  <2>3. put[o] = Merge(l.seen[o], chat[i].status)
    BY <2>1, <2>2 DEF ByMessage
  <2> QED
    BY <1>1, <2>3, MergeReaches
<1>4. CASE chat[i].status # "unknown" /\ l.job \in {"history", "reconcile"}
  <2> DEFINE N == Naming(l.job, l.msgs, o)
             L == Loose(l.job, l.msgs, o)
             E == Evidence(l.job, l.msgs, o)
  <2>1. put = ByEvidence(l.seen, l.msgs, l.job)
    BY <1>4 DEF Puts
  <2>2. i \in N /\ o \in Named(l.job, l.msgs)
    BY <1>4 DEF Naming, Named
  <2>3. E \in Ranked /\ Rank(E) >= Rank(chat[i].status)
    <3>1. N \in SUBSET Nat /\ L \in SUBSET Nat /\ N \in SUBSET l.msgs /\ L \in SUBSET l.msgs
      BY <1>1 DEF Naming, Loose
    <3>2. Rank(Best(chat, N)) >= Rank(chat[i].status)
      BY <2>2, <3>1, BestIsHighest
    <3>3. ASSUME NEW S \in SUBSET l.msgs
          PROVE  Best(chat, S) \in Ranked
      <4>1. CASE S = {}
        BY <4>1 DEF Best, Ranked
      <4>2. CASE S # {}
        <5>1. S \in SUBSET Nat
          BY <1>1
        <5>2. PICK k \in S : Best(chat, S) = chat[k].status
          BY <4>2, <5>1, BestIsOne
        <5>3. k \in DOMAIN chat
          BY <1>1
        <5> QED
          BY <5>2, <5>3, ChatTypes
      <4> QED
        BY <4>1, <4>2
    <3>4. Best(chat, N) \in Ranked /\ Best(chat, L) \in Ranked
      BY <3>1, <3>3
    <3>5. E = Merge(Best(chat, N), Best(chat, L))
      BY DEF Evidence
    <3>6. Rank(E) >= Rank(Best(chat, N)) /\ E \in Ranked
      BY <3>4, <3>5, MergeReaches, MergeChooses DEF Ranked
    <3> QED
      BY <3>2, <3>6, RankType
  <2>4. E # "unknown"
    BY <1>1, <1>4, <2>3 DEF Rank, Ranked, Settled
  <2>5. put[o] \in {Merge(l.seen[o], E), E}
    BY <2>1, <2>2, <2>4 DEF ByEvidence
  <2>6. Rank(put[o]) >= Rank(E)
    BY <2>3, <2>5, MergeReaches, RankType
  <2> QED
    BY <2>3, <2>6, RankType
<1> QED
  BY <1>2, <1>3, <1>4 DEF ByChat

\* A chat request that met no other writer leaves no order behind a message that names
\* it: of the messages of a page the highest counts, and merging a row, or adding one,
\* never stops below it, whatever the messages without a number say.
THEOREM ChatKeepsUp == Spec => ChatCatchesUp
<1>1. ASSUME TypeOK, OneLive, [Next]_vars
      PROVE  \A s \in Session : Writing(s) /\ ByChat(s) /\ local = loc[s].seen =>
                \A i \in loc[s].msgs, o \in Order :
                   chat[i].order = o /\ local'[o] # "absent" => Rank(local'[o]) >= Rank(chat[i].status)
  <2>1. TAKE s \in Session
  <2>2. HAVE Writing(s) /\ ByChat(s) /\ local = loc[s].seen
  <2>3. TAKE i \in loc[s].msgs, o \in Order
  <2>4. HAVE chat[i].order = o /\ local'[o] # "absent"
  <2>5. PICK put \in Puts(loc[s]) : local' = Committed(loc[s], put)
    BY <1>1, <2>2, WriterCommits DEF Commit
  <2>6. local'[o] = put[o]
    BY <2>2, <2>5 DEF Committed, Collides
  <2> QED
    BY <1>1, <2>2, <2>4, <2>5, <2>6, PutsReach
<1>2. TypeOK /\ OneLive /\ [Next]_vars =>
        [\A s \in Session : Writing(s) /\ ByChat(s) /\ local = loc[s].seen =>
                \A i \in loc[s].msgs, o \in Order :
                   chat[i].order = o /\ local'[o] # "absent" => Rank(local'[o]) >= Rank(chat[i].status)]_vars
  BY <1>1
<1> QED
  BY <1>2, TypeCorrect, OneLiveAlways, PTL DEF Spec, ChatCatchesUp

-----------------------------------------------------------------------------
(* Where the status of an order comes from *)

\* No item is ordered twice.
ItemOnce == \A o, p \in Order : Item[o] = Item[p] => o = p

\* Every message is true of the order it names or, without a number, of its
\* conversation's; the item it carries is that order's or that conversation's.
True(c, m) ==
    /\ m.order \in Order => /\ m.status \in c[m.order] \cup {"unknown"}
                            /\ m.item \in {Item[m.order], Unsaid}
    /\ m.order = Unsaid =>
          /\ m.item \in {m.talk[2], Unsaid}
          /\ \A o \in Order : Conversation(o) = m.talk => m.status \in c[o]
Told == \A i \in DOMAIN chat : True(claims, chat[i])

\* What a session holds of an order was once said of it, or by nobody knows whom.
Held(f) == \A o \in Order : f[o] \in claims[o] \cup Vague \cup {"absent", "unknown"}
Holds == Held(real) /\ Held(local) /\ \A s \in Session : Held(loc[s].seen) /\ Held(loc[s].list)

\* A live event is about one message, and a delivery starts from a payment of an order.
Paying(p, l) ==
    /\ l.job = "live" => \E i : l.msgs = {i}
    /\ p = "pay" \/ l.job = "payment" =>
          \A i \in l.msgs : chat[i].status = "pending_ship" /\ chat[i].order \in Order

Inv == TypeOK /\ Told /\ Holds /\ \A s \in Session : Paying(pc[s], loc[s])

\* What a request writes, somebody has said.
LEMMA PutsHeld ==
    ASSUME ItemOnce, Inv, NEW s \in Session, pc[s] = "write", NEW put \in Puts(loc[s])
    PROVE  Held(put)
<1> DEFINE l == loc[s]
           T(o) == claims[o] \cup Vague \cup {"absent", "unknown"}
<1>1. /\ TypeOK /\ Told /\ Held(l.seen) /\ Held(l.list) /\ Paying(pc[s], l)
      /\ l.msgs \in SUBSET DOMAIN chat
  BY DEF Inv, Holds, TypeOK
<1>2. \A i \in DOMAIN chat : \A o \in Order :
        chat[i].order = Unsaid /\ Item[o] = chat[i].item => chat[i].status \in T(o)
  <2>1. TAKE i \in DOMAIN chat
  <2>2. TAKE o \in Order
  <2>3. HAVE chat[i].order = Unsaid /\ Item[o] = chat[i].item
  <2>4. PICK p \in Order : chat[i].talk = Conversation(p)
    BY <1>1, ChatTypes
  <2>5. chat[i].item = chat[i].talk[2]
    BY <1>1, <2>3, ItemAssumption DEF Told, True
  <2>6. o = p
    BY <2>3, <2>4, <2>5 DEF Conversation, ItemOnce
  <2> QED
    BY <1>1, <2>3, <2>4, <2>6 DEF Told, True
<1>3. \A i \in DOMAIN chat : \A o \in Order :
        chat[i].order = Unsaid /\ chat[i].item = Unsaid => chat[i].status \in T(o)
  BY DEF Vague
<1>4. \A i \in DOMAIN chat : \A o \in Order : chat[i].order = o => chat[i].status \in T(o)
  BY <1>1 DEF Told, True
<1>5. ASSUME NEW i \in l.msgs, NEW gaps, put = ByMessage(l.seen, chat[i], gaps), NEW o \in Order
      PROVE  put[o] \in T(o)
  <2>1. CASE Finds(l.seen, chat[i], gaps, o)
    <3>1. o \in Matches(l.seen, chat[i], gaps)
      BY <2>1 DEF Finds
    <3>2. \/ chat[i].order = o
          \/ chat[i].order = Unsaid /\ (chat[i].item = Unsaid \/ Item[o] = chat[i].item)
      BY <3>1 DEF Matches
    <3>3. chat[i].status \in T(o)
      BY <1>1, <1>2, <1>3, <1>4, <3>2
    <3>4. put[o] = Merge(l.seen[o], chat[i].status)
      BY <1>5, <2>1 DEF ByMessage
    <3> QED
      BY <1>1, <3>3, <3>4, MergeChooses DEF Held
  <2>2. CASE ~Finds(l.seen, chat[i], gaps, o)
    BY <1>1, <1>5, <2>2 DEF ByMessage, Held
  <2> QED
    BY <2>1, <2>2
<1>6. ASSUME NEW i \in l.msgs, put = ByPayment(l.seen, chat[i].order), l.job = "payment",
             NEW o \in Order
      PROVE  put[o] \in T(o)
  <2>1. chat[i].status = "pending_ship" /\ chat[i].order \in Order
    BY <1>1, <1>6 DEF Paying
  <2>2. CASE chat[i].order = o
    <3>1. "pending_ship" \in T(o)
      BY <1>1, <1>4, <2>1, <2>2
    <3>2. put[o] \in {"pending_ship", l.seen[o]}
      BY <1>6 DEF ByPayment
    <3> QED
      BY <1>1, <3>1, <3>2 DEF Held
  <2>3. CASE chat[i].order # o
    BY <1>1, <1>6, <2>3 DEF ByPayment, Held
  <2> QED
    BY <2>2, <2>3
<1>7. ASSUME put = ByList(l.seen, l.list), NEW o \in Order
      PROVE  put[o] \in T(o)
  BY <1>1, <1>7 DEF ByList, Held
<1>8. ASSUME put = ByEvidence(l.seen, l.msgs, l.job), NEW o \in Order
      PROVE  put[o] \in T(o)
  <2> DEFINE E == Evidence(l.job, l.msgs, o)
  <2>1. E \in T(o)
    <3>1. l.msgs \in SUBSET Nat
      BY <1>1, ChatTypes
    <3>2. CASE E # "unknown"
      <4>1. PICK i \in l.msgs :
                 /\ E = chat[i].status
                 /\ \/ chat[i].order = o
                    \/ chat[i].order = Unsaid /\ chat[i].item = Unsaid
                    \/ /\ chat[i].order = Unsaid
                       /\ \E j \in l.msgs : chat[j].order = o /\ chat[j].item = chat[i].item
        BY <3>1, <3>2, EvidenceIsHeard
      <4>2. \/ E \in T(o)
            \/ /\ chat[i].order = Unsaid /\ chat[i].item # Unsaid
               /\ \E j \in l.msgs : chat[j].order = o /\ chat[j].item = chat[i].item
        BY <1>1, <1>3, <1>4, <4>1
      <4>3. ASSUME chat[i].order = Unsaid, chat[i].item # Unsaid,
                   NEW j \in l.msgs, chat[j].order = o, chat[j].item = chat[i].item
            PROVE  E \in T(o)
        <5>1. chat[j].item = Item[o]
          BY <1>1, <4>3 DEF Told, True
        <5> QED
          BY <1>1, <1>2, <4>1, <4>3, <5>1
      <4> QED
        BY <1>1, <1>3, <4>1, <4>2, <4>3
    <3> QED
      BY <3>2
  <2>2. put[o] \in {l.seen[o], Merge(l.seen[o], E), E, "absent"}
    BY <1>8 DEF ByEvidence
  <2> HIDE DEF E
  <2> QED
    BY <1>1, <2>1, <2>2, MergeChooses DEF Held
<1>9. \A o \in Order : put[o] \in T(o)
  <2>1. CASE l.job = "live"
    <3>1. PICK i \in l.msgs, gaps \in SUBSET Order : put = ByMessage(l.seen, chat[i], gaps)
      BY <2>1 DEF Puts
    <3> QED
      BY <1>5, <3>1
  <2>2. CASE l.job = "payment"
    BY <1>6, <2>2 DEF Puts
  <2>3. CASE l.job = "sync"
    <3>1. put = ByList(l.seen, l.list)
      BY <2>3 DEF Puts
    <3> QED
      BY <1>7, <3>1
  <2>4. CASE l.job = "send"
    <3>1. put = l.seen
      BY <2>4 DEF Puts
    <3> QED
      BY <1>1, <3>1 DEF Held
  <2>5. CASE l.job \notin {"live", "payment", "sync", "send"}
    <3>1. put = ByEvidence(l.seen, l.msgs, l.job)
      BY <2>5 DEF Puts
    <3> QED
      BY <1>8, <3>1
  <2> QED
    BY <2>1, <2>2, <2>3, <2>4, <2>5
<1> QED
  BY <1>9 DEF Held

\* A request's own step keeps the invariant if what it keeps and writes is held.
LEMMA GotoInv ==
    ASSUME Inv, TypeOK', UNCHANGED <<real, claims, chat>>, NEW s \in Session, NEW p, NEW l,
           Goto(s, p, l), Held(l.seen), Held(l.list), Paying(p, l),
           \A o \in Order : local'[o] \in claims[o] \cup Vague \cup {"absent", "unknown"}
    PROVE  Inv'
<1>1. TypeOK /\ Told /\ Holds /\ \A t \in Session : Paying(pc[t], loc[t])
  BY DEF Inv
<1>2. Told' /\ Vague' = Vague
  BY <1>1 DEF Told, True, Vague
<1>3. pc'[s] = p /\ loc'[s] = l /\ \A t \in Session : t # s => pc'[t] = pc[t] /\ loc'[t] = loc[t]
  BY <1>1, GotoHere, GotoElsewhere
<1>4. Holds'
  BY <1>1, <1>2, <1>3 DEF Holds, Held
<1>5. \A t \in Session : Paying(pc[t], loc[t])'
  <2>1. Paying(pc[s], loc[s])'
    BY <1>3 DEF Paying
  <2>2. ASSUME NEW t \in Session, t # s
        PROVE  Paying(pc[t], loc[t])'
    BY <1>1, <1>3, <2>2 DEF Paying
  <2> QED
    BY <2>1, <2>2
<1> QED
  BY <1>2, <1>4, <1>5 DEF Inv

\* A message that is true of its order, said where the order's claims only grow, leaves
\* what was true and held so.
LEMMA SaidInv ==
    ASSUME Inv, NEW m \in Message, Writes(m), True(claims', m),
           \A p \in Order : claims[p] \subseteq claims'[p]
    PROVE  /\ Told'
           /\ Vague \subseteq Vague'
           /\ \A i \in DOMAIN chat : i \in DOMAIN chat' /\ chat'[i] = chat[i]
<1>1. TypeOK /\ Told
  BY DEF Inv
<1>2. /\ DOMAIN chat' = DOMAIN chat \cup {Len(chat) + 1}
      /\ \A i \in DOMAIN chat : chat'[i] = chat[i]
      /\ chat'[Len(chat) + 1] = m
  BY <1>1, WritesChat
<1>3. Told'
  <2> SUFFICES ASSUME NEW i \in DOMAIN chat'
               PROVE  True(claims', chat'[i])
    BY DEF Told
  <2>1. CASE i \in DOMAIN chat
    <3>1. True(claims, chat[i]) /\ chat'[i] = chat[i]
      BY <1>1, <1>2, <2>1 DEF Told
    <3> QED
      BY <3>1, OrderAssumption DEF True, Conversation
  <2>2. CASE i = Len(chat) + 1
    BY <1>2, <2>2 DEF True, Conversation
  <2> QED
    BY <1>2, <2>1, <2>2
<1>4. Vague \subseteq Vague'
  BY <1>2 DEF Vague
<1> QED
  BY <1>2, <1>3, <1>4

\* A message of an order's conversation that names it, or stands for what its claims
\* say, is true.
LEMMA MessagesSaid ==
    ASSUME ItemOnce, NEW o \in Order, NEW order \in {o, Unsaid}, NEW people, NEW st,
           NEW m \in Messages(order, o, people, st),
           NEW c, order = o => st \in c[o] \cup {"unknown"}, order = Unsaid => st \in c[o]
    PROVE  True(c, m)
<1>1. /\ m.order = order /\ m.talk = Conversation(o) /\ m.item \in {Item[o], Unsaid}
      /\ m.status = st
  BY DEF Messages
<1>2. \A p \in Order : Conversation(p) = Conversation(o) => p = o
  BY DEF Conversation, ItemOnce
<1>3. Conversation(o)[2] = Item[o]
  BY DEF Conversation
<1> QED
  BY <1>1, <1>2, <1>3, OrderAssumption DEF True, Conversation

\* What the platform, the persons and the seller do keeps every status justified.
LEMMA PeopleInv ==
    ASSUME ItemOnce, Inv, TypeOK', NEW o \in Order, NEW st \in Statuses,
           Trade(o, st) \/ Say(o, st) \/ Edit(o, st) \/ Remind(o)
    PROVE  Inv'
<1>1. TypeOK /\ Told /\ Holds /\ \A t \in Session : Paying(pc[t], loc[t])
  BY DEF Inv
<1>2. UNCHANGED <<pc, loc>>
  BY DEF Trade, Say, Edit, Remind
<1>3. \A p \in Order : claims[p] \subseteq claims'[p]
  BY <1>1 DEF Trade, Say, Edit, Remind, Heard, TypeOK
<1>4. CASE Edit(o, st)
  <2>1. UNCHANGED chat /\ Vague' = Vague
    BY <1>4 DEF Edit, Vague
  <2>2. Told'
    BY <1>1, <1>3, <2>1, OrderAssumption DEF Told, True, Conversation
  <2>3. Holds'
    BY <1>1, <1>2, <1>3, <1>4, <2>1 DEF Edit, Holds, Held, TypeOK
  <2> QED
    BY <1>1, <1>2, <2>1, <2>2, <2>3 DEF Inv, Paying
<1>5. ASSUME NEW m \in Message, Writes(m), True(claims', m), UNCHANGED local,
             \A p \in Order : real'[p] \in {real[p]} \cup claims'[p]
      PROVE  Inv'
  <2>1. /\ Told' /\ Vague \subseteq Vague'
        /\ \A i \in DOMAIN chat : i \in DOMAIN chat' /\ chat'[i] = chat[i]
    BY <1>3, <1>5, SaidInv
  <2>2. Holds'
    BY <1>1, <1>2, <1>3, <1>5, <2>1 DEF Holds, Held
  <2>3. (\A t \in Session : Paying(pc[t], loc[t]))'
    <3> SUFFICES ASSUME NEW t \in Session
                 PROVE  Paying(pc[t], loc[t])'
      OBVIOUS
    <3>1. Paying(pc[t], loc[t]) /\ loc[t].msgs \subseteq DOMAIN chat
      BY <1>1 DEF TypeOK
    <3> QED
      BY <1>2, <2>1, <3>1 DEF Paying
  <2> QED
    BY <2>1, <2>2, <2>3 DEF Inv
<1>6. CASE Trade(o, st)
  <2>1. PICK order \in {o, Unsaid} :
             \E m \in Messages(order, o, {Buyer[o], Seller, Unsaid}, st) : Writes(m)
    BY <1>6 DEF Trade
  <2>2. PICK m \in Messages(order, o, {Buyer[o], Seller, Unsaid}, st) : Writes(m)
    BY <2>1
  <2>3. st \in claims'[o] /\ st \in Ranked
    BY <1>1, <1>6 DEF Trade, TypeOK, Successors, Ranked
  <2>4. m \in Message
    BY <2>3, MessagesType
  <2>5. True(claims', m)
    <3>1. order = o => st \in claims'[o] \cup {"unknown"}
      BY <2>3
    <3>2. order = Unsaid => st \in claims'[o]
      BY <2>3
    <3>3. order \in {o, Unsaid} /\ m \in Messages(order, o, {Buyer[o], Seller, Unsaid}, st)
      BY <2>1, <2>2
    <3> QED
      BY <3>1, <3>2, <3>3, MessagesSaid
  <2>6. UNCHANGED local /\ \A p \in Order : real'[p] \in {real[p]} \cup claims'[p]
    BY <1>1, <1>6, <2>3 DEF Trade, TypeOK
  <2> QED
    BY <1>5, <2>2, <2>4, <2>5, <2>6
<1>7. CASE Say(o, st)
  <2>1. PICK m \in Messages(Unsaid, o, {Buyer[o], Seller}, st) : Writes(m)
    BY <1>7 DEF Say
  <2>2. st \in claims'[o] /\ st \in Ranked
    BY <1>7, StatusAssumption, EvidentType DEF Say, Heard
  <2>3. m \in Message
    BY <2>2, MessagesType
  <2>4. True(claims', m)
    BY <2>1, <2>2, MessagesSaid
  <2> QED
    BY <1>5, <1>7, <2>1, <2>3, <2>4 DEF Say
<1>8. CASE Remind(o)
  <2>1. PICK m \in Messages(o, o, {Buyer[o], Seller, Unsaid}, "unknown") : Writes(m)
    BY <1>8 DEF Remind
  <2>2. m \in Message
    BY <2>1, MessagesType DEF Ranked
  <2>3. True(claims', m)
    <3>1. o # Unsaid
      BY OrderAssumption
    <3> QED
      BY <2>1, <3>1, MessagesSaid
  <2> QED
    BY <1>5, <1>8, <2>1, <2>2, <2>3 DEF Remind
<1> QED
  BY <1>4, <1>6, <1>7, <1>8

\* A request that arrives has read only what is justified.
LEMMA ArrivesInv ==
    ASSUME Inv, TypeOK', NEW s \in Session, NEW p \in {"save", "list", "write"}, NEW job \in JobKinds,
           NEW S, NEW todo, job = "live" => \E i : S = {i}, Arrives(s, p, job, S, todo)
    PROVE  Inv'
<1> DEFINE l == [Idle EXCEPT !.job = job, !.msgs = S, !.todo = todo, !.seen = local, !.known = rows]
<1>1. Goto(s, p, l) /\ UNCHANGED <<real, claims, chat, local>>
  BY DEF Arrives, Opens
<1>2. l.job = job /\ l.msgs = S /\ l.seen = local /\ l.list = Nowhere
  BY DEF Idle
<1>3. Held(local) /\ Held(Nowhere)
  BY DEF Inv, Holds, Held, Nowhere
<1>4. Paying(p, l)
  BY <1>2 DEF Paying, JobKinds
<1> HIDE DEF l
<1> QED
  BY <1>1, <1>2, <1>3, <1>4, GotoInv DEF Held

\* What the seller writes in the console is true of its conversation.
LEMMA SendInv ==
    ASSUME ItemOnce, Inv, TypeOK', NEW s \in Session, NEW o \in Order, NEW st \in Words,
           Send(s, o, st)
    PROVE  Inv'
<1> DEFINE m == [order |-> Unsaid, talk |-> Conversation(o), item |-> Unsaid,
                 from |-> Seller, status |-> st]
           sent == Len(chat) + 1
           l == [Idle EXCEPT !.job = "send", !.msgs = {sent}, !.todo = {sent},
                             !.seen = local, !.known = rows]
<1>1. TypeOK /\ Told /\ Holds /\ \A t \in Session : Paying(pc[t], loc[t])
  BY DEF Inv
<1>2. m \in Message /\ Writes(m) /\ Goto(s, "save", l) /\ UNCHANGED <<real, local>>
  BY StatusAssumption, EvidentType DEF Send, Opens, Message
<1>3. \A p \in Order : claims[p] \subseteq claims'[p]
  BY DEF Send, Heard
<1>4. True(claims', m)
  <2>1. \A p \in Order : Conversation(p) = Conversation(o) => st \in claims'[p]
    BY DEF Send, Heard
  <2> QED
    BY <2>1, OrderAssumption DEF True, Conversation
<1>5. /\ Told' /\ Vague \subseteq Vague'
      /\ \A i \in DOMAIN chat : i \in DOMAIN chat' /\ chat'[i] = chat[i]
  <2> HIDE DEF m
  <2> QED
    BY <1>2, <1>3, <1>4, SaidInv
<1>6. l.job = "send" /\ l.seen = local /\ l.list = Nowhere
  BY DEF Idle
<1> HIDE DEF l
<1>7. pc'[s] = "save" /\ loc'[s] = l /\ \A t \in Session : t # s => pc'[t] = pc[t] /\ loc'[t] = loc[t]
  BY <1>1, <1>2, GotoHere, GotoElsewhere
<1>8. Holds'
  BY <1>1, <1>2, <1>3, <1>5, <1>6, <1>7 DEF Holds, Held, Nowhere
<1>9. (\A t \in Session : Paying(pc[t], loc[t]))'
  <2>1. Paying(pc[s], loc[s])'
    BY <1>6, <1>7 DEF Paying
  <2>2. ASSUME NEW t \in Session, t # s
        PROVE  Paying(pc[t], loc[t])'
    <3>1. Paying(pc[t], loc[t]) /\ loc[t].msgs \subseteq DOMAIN chat
      BY <1>1 DEF TypeOK
    <3> QED
      BY <1>5, <1>7, <2>2, <3>1 DEF Paying
  <2> QED
    BY <2>1, <2>2
<1> QED
  BY <1>5, <1>8, <1>9 DEF Inv

\* A request that comes in keeps every status justified.
LEMMA RequestInv ==
    ASSUME ItemOnce, Inv, TypeOK', NEW s \in Session, Request(s)
    PROVE  Inv'
<1>1. ASSUME NEW i, Event(s, i) PROVE Inv'
  BY <1>1, ArrivesInv DEF Event, JobKinds
<1>2. ASSUME NEW page, OpenChat(s, page) PROVE Inv'
  BY <1>2, ArrivesInv DEF OpenChat, JobKinds
<1>3. CASE Reconcile(s)
  BY <1>3, ArrivesInv DEF Reconcile, JobKinds
<1>4. CASE Sync(s)
  BY <1>4, ArrivesInv DEF Sync, JobKinds
<1> QED
  BY <1>1, <1>2, <1>3, <1>4, SendInv DEF Request

\* An idle session holds no status.
LEMMA IdleInv == Held(Idle.seen) /\ Held(Idle.list) /\ Paying("idle", Idle)
BY DEF Idle, Held, Nowhere, Paying

\* Every step of a session keeps every status justified.
LEMMA StepInv ==
    ASSUME ItemOnce, Inv, TypeOK', NEW s \in Session, Step(s)
    PROVE  Inv'
<1>1. /\ TypeOK /\ loc[s] \in Local /\ Held(local) /\ Held(real)
      /\ Held(loc[s].seen) /\ Held(loc[s].list) /\ Paying(pc[s], loc[s])
  BY DEF Inv, Holds, TypeOK
<1>2. CASE Save(s)
  <2>1. PICK i \in loc[s].todo :
        LET left == loc[s].todo \ {i}
            next == IF left = {} THEN "write" ELSE "save"
        IN  /\ \/ Goto(s, next, [loc[s] EXCEPT !.todo = left, !.fresh = TRUE,
                                              !.seen = local, !.known = rows'])
               \/ Goto(s, next, [loc[s] EXCEPT !.todo = left])
               \/ Goto(s, "idle", Idle)
            /\ UNCHANGED <<real, claims, chat, local>>
    BY <1>2 DEF Save
  <2> DEFINE left == loc[s].todo \ {i}
             next == IF left = {} THEN "write" ELSE "save"
             stored == [loc[s] EXCEPT !.todo = left, !.fresh = TRUE, !.seen = local, !.known = rows']
             skipped == [loc[s] EXCEPT !.todo = left]
  <2>2. /\ stored.job = loc[s].job /\ stored.msgs = loc[s].msgs
        /\ stored.seen = local /\ stored.list = loc[s].list
        /\ skipped.job = loc[s].job /\ skipped.msgs = loc[s].msgs
        /\ skipped.seen = loc[s].seen /\ skipped.list = loc[s].list
    BY <1>1 DEF Local
  <2>3. next \in {"save", "write"}
    OBVIOUS
  <2>4. Paying(next, stored) /\ Paying(next, skipped)
    BY <1>1, <2>2, <2>3 DEF Paying
  <2>5. \A o \in Order : local'[o] \in claims[o] \cup Vague \cup {"absent", "unknown"}
    BY <1>1, <2>1 DEF Held
  <2>6. Goto(s, next, stored) \/ Goto(s, next, skipped) \/ Goto(s, "idle", Idle)
    BY <2>1
  <2>7. UNCHANGED <<real, claims, chat>>
    BY <2>1
  <2> HIDE DEF stored, skipped, next
  <2> QED
    BY <1>1, <2>2, <2>4, <2>5, <2>6, <2>7, IdleInv, GotoInv
<1>3. CASE List(s)
  <2>1. PICK gaps :
           Goto(s, "write", [loc[s] EXCEPT !.list = [o \in Order |->
                                            IF o \in gaps THEN "unknown" ELSE real[o]]])
    BY <1>3 DEF List
  <2> DEFINE list == [o \in Order |-> IF o \in gaps THEN "unknown" ELSE real[o]]
             l == [loc[s] EXCEPT !.list = list]
  <2>2. l.job = loc[s].job /\ l.msgs = loc[s].msgs /\ l.seen = loc[s].seen /\ l.list = list
    BY <1>1 DEF Local
  <2>3. Held(list)
    BY <1>1 DEF Held
  <2>4. Paying("write", l)
    BY <1>1, <2>2 DEF Paying
  <2>5. \A o \in Order : local'[o] \in claims[o] \cup Vague \cup {"absent", "unknown"}
    BY <1>1, <1>3 DEF List, Held
  <2>6. UNCHANGED <<real, claims, chat>> /\ Goto(s, "write", l)
    BY <1>3, <2>1 DEF List
  <2> HIDE DEF l, list
  <2> QED
    BY <1>1, <2>2, <2>3, <2>4, <2>5, <2>6, GotoInv
<1>4. CASE Pay(s)
  <2> DEFINE l == [loc[s] EXCEPT !.job = "payment", !.seen = local]
  <2>1. l.job = "payment" /\ l.msgs = loc[s].msgs /\ l.seen = local /\ l.list = loc[s].list
    BY <1>1 DEF Local
  <2>2. Paying("write", l)
    BY <1>1, <1>4, <2>1 DEF Pay, Paying
  <2>3. \A o \in Order : local'[o] \in claims[o] \cup Vague \cup {"absent", "unknown"}
    BY <1>1, <1>4 DEF Pay, Held
  <2>4. UNCHANGED <<real, claims, chat>> /\ Goto(s, "write", l)
    BY <1>4 DEF Pay
  <2> HIDE DEF l
  <2> QED
    BY <1>1, <2>1, <2>2, <2>3, <2>4, GotoInv
<1>5. CASE Commit(s)
  <2>1. PICK put \in Puts(loc[s]) : local' = Committed(loc[s], put)
    BY <1>5 DEF Commit
  <2>2. Held(put)
    BY <1>5, <2>1, PutsHeld DEF Commit
  <2>3. \A o \in Order : local'[o] \in claims[o] \cup Vague \cup {"absent", "unknown"}
    BY <1>1, <2>1, <2>2 DEF Committed, Held
  <2>4. UNCHANGED <<real, claims, chat>>
    BY <1>5 DEF Commit
  <2>5. CASE Payments(loc[s]) # {} /\ Goto(s, "pay", loc[s])
    <3>1. PICK i \in loc[s].msgs : /\ loc[s].job = "live"
                                  /\ chat[i].status = "pending_ship" /\ chat[i].order # Unsaid
      BY <2>5 DEF Payments, OfPayment
    <3>2. loc[s].msgs = {i} /\ chat[i].order \in Order
      <4>1. i \in DOMAIN chat
        BY <1>1, <3>1 DEF TypeOK
      <4> QED
        BY <1>1, <3>1, <4>1, ChatTypes DEF Paying
    <3>3. Paying("pay", loc[s])
      BY <1>1, <3>1, <3>2 DEF Paying
    <3> QED
      BY <1>1, <2>3, <2>4, <2>5, <3>3, GotoInv
  <2>6. CASE Goto(s, "idle", Idle)
    BY <2>3, <2>4, <2>6, IdleInv, GotoInv
  <2> QED
    BY <1>5, <2>5, <2>6 DEF Commit
<1> QED
  BY <1>2, <1>3, <1>4, <1>5 DEF Step

\* Where no item is ordered twice, the status of an order is one that the platform,
\* the seller, or a message of its own conversation gave that very order, or a message
\* that carries neither number nor item, for any number of orders, sessions and
\* messages: what sessions hold was true once, every message is true of its order, and
\* evidence that carries an item never crosses to another.
THEOREM StatusJustified == ASSUME ItemOnce PROVE Spec => []Justified
<1>1. Init => Inv
  <2> SUFFICES ASSUME Init PROVE Inv
    OBVIOUS
  <2>1. TypeOK
    <3>1. Nowhere \in [Order -> Column] /\ Unstored \in [1 .. MaxMessages -> Nat]
      BY DEF Nowhere, Unstored, Column
    <3>2. chat \in Seq(Message) /\ Len(chat) = 0 /\ DOMAIN chat = {}
      BY DEF Init
    <3> QED
      BY <3>1, <3>2, IdleType, BoundAssumption DEF Init, TypeOK, Idle
  <2>2. Told
    BY DEF Init, Told
  <2>3. Holds
    BY IdleInv DEF Init, Holds, Held, Nowhere
  <2>4. \A s \in Session : Paying(pc[s], loc[s])
    BY IdleInv DEF Init
  <2> QED
    BY <2>1, <2>2, <2>3, <2>4 DEF Inv
<1>2. Inv /\ TypeOK' /\ [Next]_vars => Inv'
  <2> SUFFICES ASSUME Inv, TypeOK', [Next]_vars PROVE Inv'
    OBVIOUS
  <2>1. CASE UNCHANGED vars
    BY <2>1 DEF vars, Inv, Told, True, Holds, Held, Vague, Paying
  <2>2. CASE \E o \in Order, st \in Statuses : Trade(o, st) \/ Say(o, st) \/ Edit(o, st)
    BY <2>2, PeopleInv
  <2>4. CASE \E o \in Order : Remind(o)
    <3>1. "unknown" \in Statuses
      BY DEF Statuses, Ranked
    <3> QED
      BY <2>4, <3>1, PeopleInv
  <2>3. CASE \E s \in Session : Request(s) \/ Step(s)
    BY <2>3, RequestInv, StepInv
  <2> QED
    BY <2>1, <2>2, <2>3, <2>4 DEF Next, Rest
<1>3. Inv => Justified
  BY DEF Inv, Holds, Held, Justified
<1> QED
  BY <1>1, <1>2, <1>3, TypeCorrect, PTL DEF Spec
=============================================================================
