---------------------------- MODULE SharedScanProofs ----------------------------
(***************************************************************************)
(* Theorems about SharedScan, for every value of its constants.            *)
(***************************************************************************)
EXTENDS SharedScan, FiniteSetTheorems, TLAPS

-----------------------------------------------------------------------------
(* The inductive invariant *)

TabRec == [on : BOOLEAN, sub : SubSession \cup {NoSub},
           shown : CodeStatus \cup {"loading", "error"}, timer : BOOLEAN,
           join : {"no", "first", "force"}]
WorkerRec == [status : CodeStatus \cup {"none"}, saved : BOOLEAN,
              visitor : Visitor \cup {"nobody"}]
CodeRec == [status : {"none", "waiting", "scanned", "verification_required", "success",
                      "overdue", "expired", "cancelled", "lost"},
            by : Person \cup {"nobody"}]
PollRec == [at : {"idle", "waits", "notifies", "answered"}, of : SubSession \cup {NoSub},
            heard : BOOLEAN, seen : SUBSET Person, was : CodeStatus \cup {"none"},
            says : CodeStatus \cup {"none", "error"}]

ScanTypes ==
    /\ scan \in [Visitor -> TabRec]
    /\ worker \in [SubSession -> WorkerRec]
    /\ code \in [SubSession -> CodeRec]
    /\ polls \in [Asker -> PollRec]
    /\ accounts \in SUBSET Person
    /\ shared \in BOOLEAN /\ restarted \in BOOLEAN
    /\ passed \in BOOLEAN /\ overlapped \in BOOLEAN

\* A tab that asks has a sub-session with a code; a request that is served is about one,
\* and one that was answered says something.
AsksAboutOne ==
    /\ \A w \in Stored : code[w].status # "none"
    /\ \A v \in Visitor :
        scan[v].timer => scan[v].sub \in SubSession /\ code[scan[v].sub].status # "none"
    /\ \A a \in Asker :
        /\ polls[a].at \in {"waits", "notifies"} =>
                polls[a].of \in SubSession /\ code[polls[a].of].status # "none"
        /\ polls[a].at = "answered" => polls[a].says # "none"

\* A code is confirmed by a person.  A sub-session whose account was stored stays a
\* success: a request that still waits for its lock will find its code confirmed.
SavedStays ==
    /\ \A w \in SubSession : code[w].status = "success" => code[w].by \in Person
    /\ \A w \in SubSession : worker[w].saved => worker[w].status = "success"
    /\ \A a \in Asker : polls[a].at = "waits" /\ worker[polls[a].of].saved =>
            code[polls[a].of].status = "success"

\* Accounts are added one by one to a finite set, each while the quota had room for it.
QuotaInv == IsFiniteSet(accounts) /\ QuotaKept

ScanInv == ScanTypes /\ AsksAboutOne /\ SavedStays /\ QuotaInv

-----------------------------------------------------------------------------
(* What the steps do to the tabs and the requests *)

\* A tab that turns to something is that.
LEMMA TurnsTo ==
    ASSUME ScanTypes, NEW v \in Visitor, NEW t \in TabRec, Turns(v, t)
    PROVE  /\ scan' \in [Visitor -> TabRec] /\ scan'[v] = t
           /\ \A u \in Visitor \ {v} : scan'[u] = scan[u]
BY DEF ScanTypes, Turns

\* A request that turns to something is that.
LEMMA PollTo ==
    ASSUME ScanTypes, NEW a \in Asker, NEW p \in PollRec, Poll(a, p)
    PROVE  /\ polls' \in [Asker -> PollRec] /\ polls'[a] = p
           /\ \A b \in Asker \ {a} : polls'[b] = polls[b]
BY DEF ScanTypes, Poll

\* The records written to a tab, and to a request, have their type.
LEMMA TabRecords ==
    ASSUME ScanTypes, NEW v \in Visitor
    PROVE  /\ NoTab \in TabRec
           /\ \A j \in {"no", "first", "force"} : [NoTab EXCEPT !.on = TRUE, !.join = j] \in TabRec
           /\ [scan[v] EXCEPT !.shown = "error", !.join = "no"] \in TabRec
           /\ \A w \in SubSession : [scan[v] EXCEPT !.sub = w, !.shown = "qrcode_ready",
                                                    !.timer = TRUE, !.join = "no"] \in TabRec
           /\ \A s \in CodeStatus \cup {"error"} :
                /\ [scan[v] EXCEPT !.timer = FALSE, !.shown = s] \in TabRec
                /\ [scan[v] EXCEPT !.shown = s] \in TabRec
BY DEF ScanTypes, TabRec, NoTab, NoSub, CodeStatus

\* The records written of a request are typed.
LEMMA PollRecords ==
    ASSUME ScanTypes, NEW a \in Asker
    PROVE  /\ NoPoll \in PollRec /\ polls[a] \in PollRec
           /\ [polls[a] EXCEPT !.at = "notifies", !.seen = {}, !.was = "none"] \in PollRec
           /\ [polls[a] EXCEPT !.heard = FALSE] \in PollRec
BY DEF ScanTypes, PollRec, NoPoll, NoSub

\* An answer: to a tab that waits for it, or to nobody.
LEMMA SaysTo ==
    ASSUME ScanTypes, NEW a \in Asker, NEW what \in CodeStatus \cup {"error"}, Says(a, what)
    PROVE  /\ polls' \in [Asker -> PollRec]
           /\ \A b \in Asker \ {a} : polls'[b] = polls[b]
           /\ polls'[a].at \in {"idle", "answered"}
           /\ polls'[a].at = "answered" => polls'[a].says # "none"
<1> DEFINE p == [NoPoll EXCEPT !.at = "answered", !.of = polls[a].of, !.heard = polls[a].heard,
                               !.says = what]
<1>1. p \in PollRec /\ p.at = "answered" /\ p.says = what /\ what # "none"
  BY DEF ScanTypes, PollRec, NoPoll, CodeStatus
<1>2. Poll(a, NoPoll) \/ Poll(a, p)
  BY DEF Says
<1>3. NoPoll.at = "idle"
  BY DEF NoPoll
<1> HIDE DEF p
<1> QED
  BY <1>1, <1>2, <1>3, PollTo, PollRecords

\* What the platform says of a code has a status.
LEMMA MappedType ==
    ASSUME ScanTypes, NEW w \in SubSession
    PROVE  /\ Mapped(w) \in CodeStatus \cup {"none"}
           /\ Mapped(w) = "none" <=> code[w].status = "none"
           /\ Mapped(w) = "success" <=> code[w].status = "success"
BY DEF ScanTypes, Mapped, CodeRec, CodeStatus

\* A request that waits and has its lock is about a sub-session with a code.
LEMMA WaitsForOne ==
    ASSUME AsksAboutOne, NEW a \in Asker, HasLock(a)
    PROVE  /\ polls[a].of \in SubSession /\ polls[a].at = "waits"
           /\ code[polls[a].of].status # "none"
BY DEF AsksAboutOne, HasLock

\* What an asked request looks like.
LEMMA AsksStatusEffect ==
    ASSUME ScanTypes, AsksAboutOne, SavedStays, NEW a \in Asker, AsksStatus(a)
    PROVE  /\ polls' \in [Asker -> PollRec]
           /\ \A b \in Asker \ {a} : polls'[b] = polls[b]
           /\ \/ polls'[a].at = "answered" /\ polls'[a].says # "none"
              \/ /\ polls'[a].at = "waits" /\ polls'[a].of \in SubSession
                 /\ code[polls'[a].of].status # "none" /\ ~worker[polls'[a].of].saved
<1> DEFINE w == scan[a[1]].sub
           asked == [NoPoll EXCEPT !.of = w, !.heard = TRUE]
           says(s) == [asked EXCEPT !.at = "answered", !.says = s]
           waits == [asked EXCEPT !.at = "waits", !.seen = accounts, !.was = worker[w].status]
<1>1. w \in SubSession /\ code[w].status # "none" /\ a[1] \in Visitor
  BY DEF AsksStatus, AsksAboutOne, Asker
<1>2. worker[w].status \in CodeStatus \cup {"none"} /\ accounts \in SUBSET Person
  BY <1>1 DEF ScanTypes, WorkerRec
<1>3. /\ \A s \in CodeStatus \cup {"error"} : says(s) \in PollRec /\ says(s).at = "answered"
                                             /\ says(s).says = s /\ s # "none"
      /\ waits \in PollRec /\ waits.at = "waits" /\ waits.of = w
  BY <1>1, <1>2 DEF PollRec, NoPoll, CodeStatus
<1>4. \/ Poll(a, says("error"))
      \/ /\ worker[w].status \in {"success", "failed"}
         /\ Poll(a, says(worker[w].status))
      \/ /\ worker[w].status \notin {"success", "failed"}
         /\ Poll(a, waits)
  BY DEF AsksStatus
<1> HIDE DEF says, waits, w
<1>5. CASE \E s \in CodeStatus \cup {"error"} : Poll(a, says(s))
  BY <1>3, <1>5, PollTo
<1>6. CASE worker[w].status # "success" /\ Poll(a, waits)
  BY <1>1, <1>3, <1>6, PollTo DEF SavedStays
<1> QED
  BY <1>4, <1>5, <1>6 DEF CodeStatus

\* What a request does that finds its code not confirmed.
LEMMA StatusStoredEffect ==
    ASSUME ScanTypes, AsksAboutOne, NEW a \in Asker, StatusStored(a)
    PROVE  LET w == polls[a].of IN
           /\ w \in SubSession /\ polls[a].at = "waits" /\ code[w].status # "success"
           /\ polls' \in [Asker -> PollRec]
           /\ \A b \in Asker \ {a} : polls'[b] = polls[b]
           /\ polls'[a].at \in {"idle", "answered"}
           /\ polls'[a].at = "answered" => polls'[a].says # "none"
           /\ worker' \in [SubSession -> WorkerRec]
           /\ \A u \in SubSession \ {w} : worker'[u] = worker[u]
           /\ worker'[w].saved = worker[w].saved
<1> DEFINE w == polls[a].of
<1>1. /\ w \in SubSession /\ polls[a].at = "waits" /\ code[w].status # "none"
      /\ Mapped(w) \in CodeStatus /\ code[w].status # "success"
  BY WaitsForOne, MappedType DEF StatusStored
<1>2. \/ Says(a, Mapped(w)) /\ (worker' = worker \/ worker' = [worker EXCEPT ![w].status = Mapped(w)])
      \/ Says(a, "error") /\ worker' = worker
  BY DEF StatusStored
<1>3. /\ worker' \in [SubSession -> WorkerRec]
      /\ \A u \in SubSession \ {w} : worker'[u] = worker[u]
      /\ worker'[w].saved = worker[w].saved
  BY <1>1, <1>2 DEF ScanTypes, WorkerRec
<1> QED
  BY <1>1, <1>2, <1>3, SaysTo

\* What a request does that finds its code confirmed.
LEMMA FinishWorkerEffect ==
    ASSUME ScanTypes, AsksAboutOne, SavedStays, NEW a \in Asker, FinishWorker(a)
    PROVE  LET w == polls[a].of IN
           /\ w \in SubSession /\ polls[a].at = "waits" /\ code[w].status = "success"
           /\ code[w].by \in Person
           /\ polls' \in [Asker -> PollRec]
           /\ \A b \in Asker \ {a} : polls'[b] = polls[b]
           /\ \/ polls'[a].at = "notifies" /\ polls'[a].of = w
              \/ /\ polls'[a].at \in {"idle", "answered"}
                 /\ polls'[a].at = "answered" => polls'[a].says # "none"
           /\ worker' \in [SubSession -> WorkerRec]
           /\ \A u \in SubSession \ {w} : worker'[u] = worker[u]
           /\ worker'[w].saved => worker'[w].status = "success"
<1> DEFINE w == polls[a].of
           saved == [polls[a] EXCEPT !.at = "notifies", !.seen = {}, !.was = "none"]
<1>1. /\ w \in SubSession /\ polls[a].at = "waits" /\ code[w].status = "success"
      /\ code[w].by \in Person
  BY WaitsForOne, MappedType DEF FinishWorker, SavedStays
<1>2. CASE Saves(a)
  <2>1. /\ worker' \in [SubSession -> WorkerRec]
        /\ \A u \in SubSession \ {w} : worker'[u] = worker[u]
        /\ worker'[w].saved => worker'[w].status = "success"
    BY <1>1, <1>2 DEF Saves, ScanTypes, WorkerRec, CodeStatus
  <2>2. saved \in PollRec /\ saved.at = "notifies" /\ saved.of = w /\ Poll(a, saved)
    BY <1>2, PollRecords DEF Saves, ScanTypes, PollRec
  <2> HIDE DEF saved
  <2> QED
    BY <1>1, <2>1, <2>2, PollTo
<1>3. CASE Says(a, "error") /\ UNCHANGED worker
  <2>1. worker \in [SubSession -> WorkerRec] /\ worker[w].saved => worker[w].status = "success"
    BY <1>1 DEF ScanTypes, SavedStays
  <2> QED
    BY <1>1, <1>3, <2>1, SaysTo DEF ScanTypes, SavedStays
<1> QED
  BY <1>2, <1>3 DEF FinishWorker

\* Only a request that finishes its sub-session touches the accounts.
LEMMA NotifiedEffect ==
    ASSUME ScanTypes, NEW a \in Asker, Notified(a)
    PROVE  /\ polls' \in [Asker -> PollRec]
           /\ \A b \in Asker \ {a} : polls'[b] = polls[b]
           /\ polls'[a].at \in {"idle", "answered"}
           /\ polls'[a].at = "answered" => polls'[a].says # "none"
BY SaysTo DEF Notified, CodeStatus


\* A code that moves was live and stays known; a person confirms it.
CodeMoved(w) ==
    /\ code' \in [SubSession -> CodeRec]
    /\ \A u \in SubSession \ {w} : code'[u] = code[u]
    /\ code[w].status \notin {"none", "success"} /\ code'[w].status # "none"
    /\ code'[w].status = "success" => code'[w].by \in Person
    /\ UNCHANGED <<scan, worker, accounts, shared, polls, restarted, passed, overlapped>>

\* A code that moves on, other than by a confirmation.
LEMMA MovesEffect ==
    ASSUME ScanTypes, NEW w \in SubSession, NEW from,
           NEW to \in {"scanned", "overdue", "verification_required", "expired", "cancelled",
                       "lost"},
           from \cap {"none", "success"} = {}, Moves(w, from, to)
    PROVE  CodeMoved(w)
BY DEF ScanTypes, Moves, CodeMoved, CodeRec

\* A code that is confirmed.
LEMMA ConfirmsEffect ==
    ASSUME ScanTypes, NEW w \in SubSession, NEW from,
           from \cap {"none", "success"} = {}, Confirms(w, from)
    PROVE  CodeMoved(w)
BY DEF ScanTypes, Confirms, CodeMoved, CodeRec

\* What the platform does with a code.
LEMMA CodeEffect ==
    ASSUME ScanTypes, NEW w \in SubSession, Monitor(w) \/ FaceVerified(w) \/ Forgets(w)
    PROVE  CodeMoved(w)
<1> DEFINE live == {"waiting", "scanned"}
           awaited == live \cup {"overdue"}
<1>1. ASSUME NEW from \in {{"waiting"}, live, awaited, {"verification_required"},
                           awaited \cup {"verification_required", "expired", "cancelled"}}
      PROVE  from \cap {"none", "success"} = {}
  OBVIOUS
<1>2. \/ \E from \in {{"waiting"}, live, awaited, {"verification_required"},
                      awaited \cup {"verification_required", "expired", "cancelled"}},
            to \in {"scanned", "overdue", "verification_required", "expired", "cancelled",
                   "lost"} :
                Moves(w, from, to)
      \/ \E from \in {awaited, {"verification_required"}} : Confirms(w, from)
  BY DEF Monitor, FaceVerified, Forgets
<1> QED
  BY <1>1, <1>2, MovesEffect, ConfirmsEffect

\* Every step keeps the types.
LEMMA TypesStep == ScanInv /\ [ScanNext]_scanVars => ScanTypes'
<1> SUFFICES ASSUME ScanInv, [ScanNext]_scanVars
             PROVE  ScanTypes'
  OBVIOUS
<1> USE ScanAssumption DEF ScanInv
<1>1. ASSUME NEW v \in Visitor, Visit(v)
      PROVE  ScanTypes'
  BY <1>1 DEF Visit, Turns, ScanTypes, AsksAboutOne, SavedStays, Asker, TabRec, WorkerRec,
     CodeRec, PollRec, NoTab, NoWorker, NoPoll, NoSub, CodeStatus, Final
<1>2. ASSUME NEW v \in Visitor, Goes(v)
      PROVE  ScanTypes'
  <2>1. UNCHANGED <<worker, code, accounts, shared, restarted, passed, overlapped>>
    BY <1>2 DEF Goes
  <2>2. scan' \in [Visitor -> TabRec]
    BY <1>2, TurnsTo, TabRecords DEF Goes
  <2>3. polls' \in [Asker -> PollRec]
    BY <1>2, PollRecords DEF Goes, Unheard
  <2> QED
    BY <2>1, <2>2, <2>3 DEF ScanTypes
<1>3. ASSUME NEW v \in Visitor, RetryScan(v)
      PROVE  ScanTypes'
  BY <1>3 DEF RetryScan, Turns, ScanTypes, AsksAboutOne, SavedStays, Asker, TabRec, WorkerRec,
     CodeRec, PollRec, NoTab, NoWorker, NoPoll, NoSub, CodeStatus, Final
<1>4. ASSUME NEW v \in Visitor, JoinRefused(v)
      PROVE  ScanTypes'
  <2>1. UNCHANGED <<worker, code, accounts, shared, polls, restarted, passed, overlapped>>
    BY <1>4 DEF JoinRefused
  <2>2. scan' \in [Visitor -> TabRec]
    BY <1>4, TurnsTo, TabRecords DEF JoinRefused
  <2> QED
    BY <2>1, <2>2 DEF ScanTypes
<1>5. ASSUME NEW v \in Visitor, Rejoined(v)
      PROVE  ScanTypes'
  <2>1. UNCHANGED <<worker, code, accounts, shared, polls, restarted, passed, overlapped>>
    BY <1>5 DEF Rejoined
  <2>2. scan' \in [Visitor -> TabRec]
    BY <1>5, TurnsTo, TabRecords DEF Rejoined, Resumable, Stored, Follows
  <2> QED
    BY <2>1, <2>2 DEF ScanTypes
<1>6. ASSUME NEW v \in Visitor, Joined(v)
      PROVE  ScanTypes'
  <2>1. UNCHANGED <<accounts, shared, polls, restarted, passed, overlapped>>
    BY <1>6 DEF Joined
  <2>2. PICK w \in SubSession \ Stored :
          /\ worker' = [worker EXCEPT ![w] = [status |-> "qrcode_ready", saved |-> FALSE,
                                             visitor |-> v]]
          /\ code' = [code EXCEPT ![w].status = "waiting"]
          /\ \/ Follows(v, w)
             \/ Turns(v, [scan[v] EXCEPT !.shown = "error", !.join = "no"])
    BY <1>6 DEF Joined
  <2>3. worker' \in [SubSession -> WorkerRec]
    BY <2>2 DEF ScanTypes, WorkerRec, CodeStatus
  <2>4. code' \in [SubSession -> CodeRec]
    BY <2>2 DEF ScanTypes, CodeRec
  <2>5. scan' \in [Visitor -> TabRec]
    BY <2>2, TurnsTo, TabRecords DEF Follows
  <2> QED
    BY <2>1, <2>3, <2>4, <2>5 DEF ScanTypes
<1>7. ASSUME NEW a \in Asker, AsksStatus(a)
      PROVE  ScanTypes'
  <2>1. UNCHANGED <<scan, worker, code, accounts, shared, restarted, passed, overlapped>>
    BY <1>7 DEF AsksStatus
  <2> QED
    BY <1>7, <2>1, AsksStatusEffect DEF ScanTypes
<1>8. ASSUME NEW a \in Asker, StatusStored(a)
      PROVE  ScanTypes'
  <2>1. UNCHANGED <<scan, code, accounts, shared, restarted, passed, overlapped>>
    BY <1>8 DEF StatusStored
  <2> QED
    BY <1>8, <2>1, StatusStoredEffect DEF ScanTypes
<1>9. ASSUME NEW a \in Asker, FinishWorker(a)
      PROVE  ScanTypes'
  <2>1. UNCHANGED <<scan, code, shared, restarted, passed>>
    BY <1>9 DEF FinishWorker
  <2>2. accounts' \in SUBSET Person /\ overlapped' \in BOOLEAN
    BY <1>9, FinishWorkerEffect DEF FinishWorker, ScanTypes
  <2> QED
    BY <1>9, <2>1, <2>2, FinishWorkerEffect DEF ScanTypes
<1>10. ASSUME NEW a \in Asker, Notified(a)
      PROVE  ScanTypes'
  <2>1. UNCHANGED <<scan, worker, code, accounts, shared, restarted, passed, overlapped>>
    BY <1>10 DEF Notified
  <2> QED
    BY <1>10, <2>1, NotifiedEffect DEF ScanTypes
<1>11. ASSUME NEW a \in Asker, StatusArrives(a)
      PROVE  ScanTypes'
  <2>1. UNCHANGED <<worker, code, accounts, shared, restarted, overlapped>>
    BY <1>11 DEF StatusArrives
  <2>2. a[1] \in Visitor /\ polls[a].says \in CodeStatus \cup {"error"}
    BY <1>11 DEF StatusArrives, ScanTypes, AsksAboutOne, PollRec, Asker
  <2>3. scan' \in [Visitor -> TabRec]
    <3> DEFINE t == scan[a[1]]
               says == polls[a].says
    <3>1. t \in TabRec /\ Stops(t, says) \in TabRec /\ [t EXCEPT !.shown = says] \in TabRec
      BY <2>2, TabRecords DEF Stops, ScanTypes
    <3>2. PICK r \in TabRec : Turns(a[1], r)
      BY <1>11, <3>1 DEF StatusArrives
    <3> QED
      BY <2>2, <3>2, TurnsTo
  <2>4. polls' \in [Asker -> PollRec]
    BY <1>11, PollTo, PollRecords DEF StatusArrives
  <2>5. passed' \in BOOLEAN
    BY <1>11 DEF StatusArrives, ScanTypes
  <2> QED
    BY <2>1, <2>3, <2>4, <2>5 DEF ScanTypes
<1>12. ASSUME NEW a \in Asker, StatusLost(a)
      PROVE  ScanTypes'
  BY <1>12 DEF StatusLost, Poll, ScanTypes, AsksAboutOne, SavedStays, Asker, TabRec, WorkerRec,
     CodeRec, PollRec, NoTab, NoWorker, NoPoll, NoSub, CodeStatus, Final
<1>13. ASSUME NEW w \in SubSession, Monitor(w)
      PROVE  ScanTypes'
  BY <1>13, CodeEffect DEF CodeMoved, ScanTypes
<1>14. ASSUME NEW w \in SubSession, FaceVerified(w)
      PROVE  ScanTypes'
  BY <1>14, CodeEffect DEF CodeMoved, ScanTypes
<1>15. ASSUME NEW w \in SubSession, Forgets(w)
      PROVE  ScanTypes'
  BY <1>15, CodeEffect DEF CodeMoved, ScanTypes
<1>16. ASSUME Restarts
      PROVE  ScanTypes'
  BY <1>16 DEF Restarts, ScanTypes, AsksAboutOne, SavedStays, Asker, TabRec, WorkerRec,
     CodeRec, PollRec, NoTab, NoWorker, NoPoll, NoSub, CodeStatus, Final
<1>17. ASSUME DeletesShared
      PROVE  ScanTypes'
  BY <1>17 DEF DeletesShared, ScanTypes, AsksAboutOne, SavedStays, Asker, TabRec, WorkerRec,
     CodeRec, PollRec, NoTab, NoWorker, NoPoll, NoSub, CodeStatus, Final
<1>18. CASE UNCHANGED scanVars
  BY <1>18 DEF scanVars, ScanTypes, AsksAboutOne, SavedStays, Asker, TabRec, WorkerRec,
     CodeRec, PollRec, NoTab, NoWorker, NoPoll, NoSub, CodeStatus, Final
<1> QED
  BY <1>1, <1>2, <1>3, <1>4, <1>5, <1>6, <1>7, <1>8, <1>9, <1>10, <1>11, <1>12, <1>13, <1>14,
     <1>15, <1>16, <1>17, <1>18 DEF ScanNext

\* Requests stay about a sub-session with a code.
LEMMA AsksStep == ScanInv /\ [ScanNext]_scanVars => AsksAboutOne'
<1> SUFFICES ASSUME ScanInv, [ScanNext]_scanVars
             PROVE  AsksAboutOne'
  OBVIOUS
<1> USE ScanAssumption DEF ScanInv
<1>1. ASSUME NEW v \in Visitor, Visit(v)
      PROVE  AsksAboutOne'
  BY <1>1 DEF Visit, Turns, ScanTypes, AsksAboutOne, Stored, Asker, TabRec, WorkerRec, CodeRec,
     PollRec, NoTab, NoWorker, NoPoll, NoSub, CodeStatus, Final
<1>2. ASSUME NEW v \in Visitor, Goes(v)
      PROVE  AsksAboutOne'
  <2>1. UNCHANGED <<worker, code>> /\ scan' = [scan EXCEPT ![v] = NoTab]
    BY <1>2 DEF Goes, Turns
  <2>2. ASSUME NEW b \in Asker, polls'[b].at # "idle"
        PROVE  /\ polls'[b].at = polls[b].at /\ polls'[b].of = polls[b].of
               /\ polls'[b].says = polls[b].says
    BY <1>2, <2>2 DEF Goes, Unheard, ScanTypes, PollRec, NoPoll
  <2>3. \A u \in Visitor : scan'[u] = scan[u] \/ (u = v /\ ~scan'[u].timer)
    BY <2>1 DEF ScanTypes, NoTab
  <2>4. UNCHANGED <<worker, code>>
    BY <2>1
  <2> QED
    BY <2>2, <2>3, <2>4 DEF AsksAboutOne, Stored
<1>3. ASSUME NEW v \in Visitor, RetryScan(v)
      PROVE  AsksAboutOne'
  BY <1>3 DEF RetryScan, Turns, ScanTypes, AsksAboutOne, Stored, Asker, TabRec, WorkerRec,
     CodeRec, PollRec, NoTab, NoWorker, NoPoll, NoSub, CodeStatus, Final
<1>4. ASSUME NEW v \in Visitor, JoinRefused(v)
      PROVE  AsksAboutOne'
  BY <1>4 DEF JoinRefused, Turns, ScanTypes, AsksAboutOne, Stored, Asker, TabRec, WorkerRec,
     CodeRec, PollRec, NoTab, NoWorker, NoPoll, NoSub, CodeStatus, Final
<1>5. ASSUME NEW v \in Visitor, Rejoined(v)
      PROVE  AsksAboutOne'
  BY <1>5 DEF Rejoined, Resumable, Stored, Follows, Turns, ScanTypes, AsksAboutOne, Stored,
     Asker, TabRec, WorkerRec, CodeRec, PollRec, NoTab, NoWorker, NoPoll, NoSub, CodeStatus,
     Final
<1>6. ASSUME NEW v \in Visitor, Joined(v)
      PROVE  AsksAboutOne'
  <2>1. PICK w \in SubSession \ Stored :
          /\ worker' = [worker EXCEPT ![w] = [status |-> "qrcode_ready", saved |-> FALSE,
                                             visitor |-> v]]
          /\ code' = [code EXCEPT ![w].status = "waiting"]
          /\ \/ Follows(v, w)
             \/ Turns(v, [scan[v] EXCEPT !.shown = "error", !.join = "no"])
    BY <1>6 DEF Joined
  <2>2. /\ UNCHANGED polls
        /\ code'[w].status = "waiting"
        /\ \A u \in SubSession \ {w} : code'[u] = code[u] /\ worker'[u] = worker[u]
    BY <1>6, <2>1 DEF Joined, ScanTypes, WorkerRec, CodeRec
  <2>3. \A u \in Visitor : /\ scan'[u].timer = scan[u].timer /\ scan'[u].sub = scan[u].sub
                          \/ scan'[u].sub = w
    <3>1. CASE scan' = [scan EXCEPT ![v] = [scan[v] EXCEPT !.shown = "error", !.join = "no"]]
      BY <3>1 DEF ScanTypes, TabRec
    <3>2. CASE scan' = [scan EXCEPT ![v] = [scan[v] EXCEPT !.sub = w, !.shown = "qrcode_ready",
                                                     !.timer = TRUE, !.join = "no"]]
      BY <3>2 DEF ScanTypes, TabRec
    <3> QED
      BY <2>1, <3>1, <3>2 DEF Follows, Turns
  <2>4. \A u \in Stored' : code'[u].status # "none"
    BY <2>2 DEF AsksAboutOne, Stored
  <2> QED
    BY <2>2, <2>3, <2>4 DEF AsksAboutOne
<1>7. ASSUME NEW a \in Asker, AsksStatus(a)
      PROVE  AsksAboutOne'
  <2>1. UNCHANGED <<scan, worker, code, accounts, shared, restarted, passed, overlapped>>
    BY <1>7 DEF AsksStatus
  <2> QED
    BY <1>7, <2>1, AsksStatusEffect DEF AsksAboutOne, Stored
<1>8. ASSUME NEW a \in Asker, StatusStored(a)
      PROVE  AsksAboutOne'
  <2>1. UNCHANGED <<scan, code>>
    BY <1>8 DEF StatusStored
  <2>2. code[polls[a].of].status # "none"
    BY <1>8, WaitsForOne DEF StatusStored
  <2> QED
    BY <1>8, <2>1, <2>2, StatusStoredEffect DEF AsksAboutOne, Stored
<1>9. ASSUME NEW a \in Asker, FinishWorker(a)
      PROVE  AsksAboutOne'
  <2>1. UNCHANGED <<scan, code>>
    BY <1>9 DEF FinishWorker
  <2> QED
    BY <1>9, <2>1, FinishWorkerEffect DEF AsksAboutOne, Stored
<1>10. ASSUME NEW a \in Asker, Notified(a)
      PROVE  AsksAboutOne'
  <2>1. UNCHANGED <<scan, worker, code, accounts, shared, restarted, passed, overlapped>>
    BY <1>10 DEF Notified
  <2> QED
    BY <1>10, <2>1, NotifiedEffect DEF AsksAboutOne, Stored
<1>11. ASSUME NEW a \in Asker, StatusArrives(a)
      PROVE  AsksAboutOne'
  BY <1>11 DEF StatusArrives, Turns, Stops, Poll, ScanTypes, AsksAboutOne, Stored, Asker,
     TabRec, WorkerRec, CodeRec, PollRec, NoTab, NoWorker, NoPoll, NoSub, CodeStatus, Final
<1>12. ASSUME NEW a \in Asker, StatusLost(a)
      PROVE  AsksAboutOne'
  BY <1>12 DEF StatusLost, Poll, ScanTypes, AsksAboutOne, Stored, Asker, TabRec, WorkerRec,
     CodeRec, PollRec, NoTab, NoWorker, NoPoll, NoSub, CodeStatus, Final
<1>13. ASSUME NEW w \in SubSession, Monitor(w)
      PROVE  AsksAboutOne'
  BY <1>13, CodeEffect DEF CodeMoved, AsksAboutOne, Stored
<1>14. ASSUME NEW w \in SubSession, FaceVerified(w)
      PROVE  AsksAboutOne'
  BY <1>14, CodeEffect DEF CodeMoved, AsksAboutOne, Stored
<1>15. ASSUME NEW w \in SubSession, Forgets(w)
      PROVE  AsksAboutOne'
  BY <1>15, CodeEffect DEF CodeMoved, AsksAboutOne, Stored
<1>16. ASSUME Restarts
      PROVE  AsksAboutOne'
  BY <1>16 DEF Restarts, ScanTypes, AsksAboutOne, Stored, Asker, TabRec, WorkerRec, CodeRec,
     PollRec, NoTab, NoWorker, NoPoll, NoSub, CodeStatus, Final
<1>17. ASSUME DeletesShared
      PROVE  AsksAboutOne'
  BY <1>17 DEF DeletesShared, ScanTypes, AsksAboutOne, Stored, Asker, TabRec, WorkerRec,
     CodeRec, PollRec, NoTab, NoWorker, NoPoll, NoSub, CodeStatus, Final
<1>18. CASE UNCHANGED scanVars
  BY <1>18 DEF scanVars, ScanTypes, AsksAboutOne, Stored, Asker, TabRec, WorkerRec, CodeRec,
     PollRec, NoTab, NoWorker, NoPoll, NoSub, CodeStatus, Final
<1> QED
  BY <1>1, <1>2, <1>3, <1>4, <1>5, <1>6, <1>7, <1>8, <1>9, <1>10, <1>11, <1>12, <1>13, <1>14,
     <1>15, <1>16, <1>17, <1>18 DEF ScanNext

\* A stored account stays stored.
LEMMA SavedStep == ScanInv /\ [ScanNext]_scanVars => SavedStays'
<1> SUFFICES ASSUME ScanInv, [ScanNext]_scanVars
             PROVE  SavedStays'
  OBVIOUS
<1> USE ScanAssumption DEF ScanInv
<1>1. ASSUME NEW v \in Visitor, Visit(v)
      PROVE  SavedStays'
  BY <1>1 DEF Visit, Turns, ScanTypes, AsksAboutOne, SavedStays, Asker, TabRec, WorkerRec,
     CodeRec, PollRec, NoTab, NoWorker, NoPoll, NoSub, CodeStatus, Final
<1>2. ASSUME NEW v \in Visitor, Goes(v)
      PROVE  SavedStays'
  BY <1>2 DEF Goes, Turns, Unheard, ScanTypes, AsksAboutOne, SavedStays, Asker, TabRec,
     WorkerRec, CodeRec, PollRec, NoTab, NoWorker, NoPoll, NoSub, CodeStatus, Final
<1>3. ASSUME NEW v \in Visitor, RetryScan(v)
      PROVE  SavedStays'
  BY <1>3 DEF RetryScan, Turns, ScanTypes, AsksAboutOne, SavedStays, Asker, TabRec, WorkerRec,
     CodeRec, PollRec, NoTab, NoWorker, NoPoll, NoSub, CodeStatus, Final
<1>4. ASSUME NEW v \in Visitor, JoinRefused(v)
      PROVE  SavedStays'
  BY <1>4 DEF JoinRefused, Turns, ScanTypes, AsksAboutOne, SavedStays, Asker, TabRec,
     WorkerRec, CodeRec, PollRec, NoTab, NoWorker, NoPoll, NoSub, CodeStatus, Final
<1>5. ASSUME NEW v \in Visitor, Rejoined(v)
      PROVE  SavedStays'
  BY <1>5 DEF Rejoined, Resumable, Stored, Follows, Turns, ScanTypes, AsksAboutOne, SavedStays,
     Asker, TabRec, WorkerRec, CodeRec, PollRec, NoTab, NoWorker, NoPoll, NoSub, CodeStatus,
     Final
<1>6. ASSUME NEW v \in Visitor, Joined(v)
      PROVE  SavedStays'
  BY <1>6 DEF Joined, Stored, Follows, Turns, ScanTypes, AsksAboutOne, SavedStays, Asker,
     TabRec, WorkerRec, CodeRec, PollRec, NoTab, NoWorker, NoPoll, NoSub, CodeStatus, Final
<1>7. ASSUME NEW a \in Asker, AsksStatus(a)
      PROVE  SavedStays'
  <2>1. UNCHANGED <<scan, worker, code, accounts, shared, restarted, passed, overlapped>>
    BY <1>7 DEF AsksStatus
  <2> QED
    BY <1>7, <2>1, AsksStatusEffect DEF SavedStays
<1>8. ASSUME NEW a \in Asker, StatusStored(a)
      PROVE  SavedStays'
  <2>1. UNCHANGED <<scan, code, accounts, shared, restarted, passed, overlapped>>
    BY <1>8 DEF StatusStored
  <2> QED
    BY <1>8, <2>1, StatusStoredEffect DEF SavedStays, AsksAboutOne
<1>9. ASSUME NEW a \in Asker, FinishWorker(a)
      PROVE  SavedStays'
  <2>1. UNCHANGED <<scan, code>>
    BY <1>9 DEF FinishWorker
  <2> QED
    BY <1>9, <2>1, FinishWorkerEffect DEF SavedStays, AsksAboutOne
<1>10. ASSUME NEW a \in Asker, Notified(a)
      PROVE  SavedStays'
  <2>1. UNCHANGED <<scan, worker, code, accounts, shared, restarted, passed, overlapped>>
    BY <1>10 DEF Notified
  <2> QED
    BY <1>10, <2>1, NotifiedEffect DEF SavedStays
<1>11. ASSUME NEW a \in Asker, StatusArrives(a)
      PROVE  SavedStays'
  BY <1>11 DEF StatusArrives, Turns, Stops, Poll, ScanTypes, AsksAboutOne, SavedStays, Asker,
     TabRec, WorkerRec, CodeRec, PollRec, NoTab, NoWorker, NoPoll, NoSub, CodeStatus, Final
<1>12. ASSUME NEW a \in Asker, StatusLost(a)
      PROVE  SavedStays'
  BY <1>12 DEF StatusLost, Poll, ScanTypes, AsksAboutOne, SavedStays, Asker, TabRec, WorkerRec,
     CodeRec, PollRec, NoTab, NoWorker, NoPoll, NoSub, CodeStatus, Final
<1>13. ASSUME NEW w \in SubSession, Monitor(w)
      PROVE  SavedStays'
  BY <1>13, CodeEffect DEF CodeMoved, SavedStays, AsksAboutOne
<1>14. ASSUME NEW w \in SubSession, FaceVerified(w)
      PROVE  SavedStays'
  BY <1>14, CodeEffect DEF CodeMoved, SavedStays, AsksAboutOne
<1>15. ASSUME NEW w \in SubSession, Forgets(w)
      PROVE  SavedStays'
  BY <1>15, CodeEffect DEF CodeMoved, SavedStays, AsksAboutOne
<1>16. ASSUME Restarts
      PROVE  SavedStays'
  BY <1>16 DEF Restarts, ScanTypes, AsksAboutOne, SavedStays, Asker, TabRec, WorkerRec,
     CodeRec, PollRec, NoTab, NoWorker, NoPoll, NoSub, CodeStatus, Final
<1>17. ASSUME DeletesShared
      PROVE  SavedStays'
  BY <1>17 DEF DeletesShared, ScanTypes, AsksAboutOne, SavedStays, Asker, TabRec, WorkerRec,
     CodeRec, PollRec, NoTab, NoWorker, NoPoll, NoSub, CodeStatus, Final
<1>18. CASE UNCHANGED scanVars
  BY <1>18 DEF scanVars, ScanTypes, AsksAboutOne, SavedStays, Asker, TabRec, WorkerRec,
     CodeRec, PollRec, NoTab, NoWorker, NoPoll, NoSub, CodeStatus, Final
<1> QED
  BY <1>1, <1>2, <1>3, <1>4, <1>5, <1>6, <1>7, <1>8, <1>9, <1>10, <1>11, <1>12, <1>13, <1>14,
     <1>15, <1>16, <1>17, <1>18 DEF ScanNext

\* Apart from the request that finishes a sub-session, nobody adds an account.
LEMMA QuotaStep == ScanInv /\ [ScanNext]_scanVars => QuotaInv'
<1> SUFFICES ASSUME ScanInv, [ScanNext]_scanVars
             PROVE  QuotaInv'
  OBVIOUS
<1> USE ScanAssumption DEF ScanInv
<1>1. ASSUME NEW a \in Asker, FinishWorker(a)
      PROVE  QuotaInv'
  <2> DEFINE who == code[polls[a].of].by
             seen == polls[a].seen
  <2>1. CASE UNCHANGED <<accounts, overlapped>>
    BY <2>1 DEF QuotaInv, QuotaKept
  <2>2. CASE /\ Cardinality(seen) < Quota /\ who \notin accounts
             /\ accounts' = accounts \cup {who}
             /\ overlapped' = (overlapped \/ seen # accounts)
    <3>1. /\ IsFiniteSet(accounts) /\ Cardinality(accounts) \in Nat
          /\ IsFiniteSet(accounts') /\ Cardinality(accounts') = Cardinality(accounts) + 1
      BY <2>2, FS_AddElement, FS_CardinalityType DEF QuotaInv
    <3>2. CASE seen = accounts
      BY <2>2, <3>1, <3>2 DEF QuotaInv, QuotaKept
    <3>3. CASE seen # accounts
      BY <2>2, <3>1, <3>3 DEF QuotaInv, QuotaKept
    <3> QED
      BY <3>2, <3>3
  <2> QED
    BY <1>1, <2>1, <2>2 DEF FinishWorker, QuotaLeft
<1>2. CASE UNCHANGED <<accounts, overlapped>>
  BY <1>2 DEF QuotaInv, QuotaKept
<1>3. ASSUME NEW v \in Visitor,
             Visit(v) \/ Goes(v) \/ RetryScan(v) \/ JoinRefused(v) \/ Rejoined(v) \/ Joined(v)
      PROVE  UNCHANGED <<accounts, overlapped>>
  BY <1>3 DEF Visit, Goes, RetryScan, JoinRefused, Rejoined, Joined
<1>4. ASSUME NEW a \in Asker,
             AsksStatus(a) \/ StatusStored(a) \/ Notified(a) \/ StatusArrives(a) \/ StatusLost(a)
      PROVE  UNCHANGED <<accounts, overlapped>>
  BY <1>4 DEF AsksStatus, StatusStored, Notified, StatusArrives, StatusLost
<1>5. ASSUME NEW w \in SubSession, Monitor(w) \/ FaceVerified(w) \/ Forgets(w)
      PROVE  UNCHANGED <<accounts, overlapped>>
  BY <1>5, CodeEffect DEF CodeMoved
<1>6. CASE Restarts \/ DeletesShared
  BY <1>2, <1>6 DEF Restarts, DeletesShared
<1>7. CASE UNCHANGED scanVars
  BY <1>2, <1>7 DEF scanVars
<1> QED
  BY <1>1, <1>2, <1>3, <1>4, <1>5, <1>6, <1>7 DEF ScanNext

-----------------------------------------------------------------------------
(* The theorems *)

\* The invariant holds at the start.
LEMMA ScanStarts == ScanInit => ScanInv
<1> SUFFICES ASSUME ScanInit
             PROVE  ScanInv
  OBVIOUS
<1>1. ScanTypes
  BY DEF ScanInit, ScanTypes, TabRec, WorkerRec, CodeRec, PollRec, NoTab, NoWorker, NoPoll,
         NoSub, CodeStatus
<1>2. AsksAboutOne /\ SavedStays
  BY DEF ScanInit, AsksAboutOne, SavedStays, Stored, NoTab, NoWorker, NoPoll
<1>3. QuotaInv
  BY FS_EmptySet, ScanAssumption DEF ScanInit, QuotaInv, QuotaKept
<1> QED
  BY <1>1, <1>2, <1>3 DEF ScanInv

\* Every step keeps the invariant.
LEMMA ScanSteps == ScanInv /\ [ScanNext]_scanVars => ScanInv'
BY TypesStep, AsksStep, SavedStep, QuotaStep DEF ScanInv

\* The invariant holds throughout; the fairness is not needed for it.
THEOREM ScanInvariant == ScanInit /\ [][ScanNext]_scanVars => []ScanInv
<1>1. ScanInit => ScanInv
  BY ScanStarts
<1>2. ScanInv /\ [ScanNext]_scanVars => ScanInv'
  BY ScanSteps
<1> QED
  BY <1>1, <1>2, PTL

\* The safety part of the specification.
LEMMA ScanSafely == ScanSpec => ScanInit /\ [][ScanNext]_scanVars
BY PTL DEF ScanSpec

\* The invariant says the types, the confirmed codes and the stored accounts among them.
LEMMA ScanTyped ==
    ASSUME ScanInv
    PROVE  ScanTypeOK
<1>1. scan \in [Visitor -> TabRec] /\ accounts \subseteq Person
  BY DEF ScanInv, ScanTypes
<1>2. /\ \A w \in SubSession : worker[w].saved => worker[w].status = "success"
      /\ \A w \in SubSession : code[w].status = "success" => code[w].by \in Person
  BY DEF ScanInv, SavedStays
<1>3. \A a \in Asker : /\ polls[a].seen \subseteq Person
                       /\ polls[a].says \in CodeStatus \cup {"none", "error"}
  BY DEF ScanInv, ScanTypes, PollRec
<1>4. {shared, restarted, passed, overlapped} \subseteq BOOLEAN
  BY DEF ScanInv, ScanTypes
<1> QED
  BY <1>1, <1>2, <1>3, <1>4 DEF ScanTypeOK, TabRec

\* The tabs, the sub-sessions, the codes and the status requests keep their types: a
\* stored account means a success, a confirmed code has a person behind it
\* (shared_scan.py, SharedScanPage.tsx).
THEOREM ScanTypeCorrect == ScanSpec => []ScanTypeOK
BY ScanTyped, ScanInvariant, ScanSafely, PTL

\* However many visitors, persons and requests there are, the owner gets no more accounts
\* than the plan allows, unless two sub-sessions were finished at the same time
\* (shared_scan.py _finish_worker, entitlements.py reserve_quota).
THEOREM QuotaIsKept == ScanSpec => []QuotaKept
<1>1. ScanInv => QuotaKept
  BY DEF ScanInv, QuotaInv
<1> QED
  BY <1>1, ScanInvariant, ScanSafely, PTL
=================================================================================
