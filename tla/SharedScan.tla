------------------------------ MODULE SharedScan ------------------------------
(* Several people log their Xianyu accounts in by QR code, over one shared link:    *)
(* the page they open (SharedScanPage.tsx), the routes behind it (shared_scan.py),   *)
(* the QR logins of the process (qr_login.py), and the owner's account quota         *)
(* (entitlements.py).  The owner is no administrator, and has no other accounts.     *)
EXTENDS Naturals, FiniteSets

CONSTANTS
    Visitor,     \* visitor tokens, one browser tab each
    Person,      \* Xianyu accounts that may confirm a code
    Quota,       \* accounts the owner's plan allows
    MaxWorkers,  \* bound: sub-sessions, each with a code of its own
    MaxPolls     \* bound: status requests of one tab in flight

ASSUME ScanAssumption == Quota \in Nat /\ MaxWorkers \in Nat /\ MaxPolls \in Nat

VARIABLES
    scan,        \* the tabs
    worker,      \* the stored sub-sessions
    code,        \* the QR logins in memory, by sub-session
    accounts,    \* accounts stored for the owner
    shared,      \* the shared session: open or deleted
    polls,       \* status requests, from the tab to its answer
    restarted,   \* the process was restarted (once)
    passed,      \* ghost: a tab took an answer older than what it shows
    overlapped   \* ghost: an account was added by a request that had not seen the others

scanVars == <<scan, worker, code, accounts, shared, polls, restarted, passed, overlapped>>

SubSession == 1 .. MaxWorkers
Asker == Visitor \X (1 .. MaxPolls)
NoSub == 0
Final == {"success", "failed", "error"}
CodeStatus == {"qrcode_ready", "scanning", "verification_required", "success", "failed"}
NoTab == [on |-> FALSE, sub |-> NoSub, shown |-> "loading", timer |-> FALSE, join |-> "no"]
NoWorker == [status |-> "none", saved |-> FALSE, visitor |-> "nobody"]
NoPoll == [at |-> "idle", of |-> NoSub, heard |-> FALSE, seen |-> {}, was |-> "none",
           says |-> "none"]
Stored == {w \in SubSession : worker[w].status # "none"}

ScanTypeOK ==
    /\ scan \in [Visitor -> [on : BOOLEAN, sub : SubSession \cup {NoSub},
                             shown : CodeStatus \cup {"loading", "error"}, timer : BOOLEAN,
                             join : {"no", "first", "force"}]]
    /\ \A w \in SubSession : worker[w].saved => worker[w].status = "success"
    /\ \A w \in SubSession : code[w].status = "success" => code[w].by \in Person
    /\ accounts \subseteq Person
    /\ \A a \in Asker :
        /\ polls[a].seen \subseteq Person
        /\ polls[a].says \in CodeStatus \cup {"none", "error"}
    /\ {shared, restarted, passed, overlapped} \subseteq BOOLEAN

--------------------------------------------------------------------------------
(* The tab.                                                                        *)

Turns(v, t) == scan' = [scan EXCEPT ![v] = t]
Unheard(v) == [a \in Asker |-> IF a[1] # v THEN polls[a]
                               ELSE IF polls[a].at = "answered" THEN NoPoll
                               ELSE [polls[a] EXCEPT !.heard = FALSE]]

\* The page is opened, and joins.
Visit(v) ==
    /\ ~scan[v].on
    /\ Turns(v, [NoTab EXCEPT !.on = TRUE, !.join = "first"])
    /\ UNCHANGED <<worker, code, accounts, shared, polls, restarted, passed, overlapped>>

\* It is closed or loaded again: nobody waits for the answers.
Goes(v) ==
    /\ scan[v].on
    /\ Turns(v, NoTab)
    /\ polls' = Unheard(v)
    /\ UNCHANGED <<worker, code, accounts, shared, restarted, passed, overlapped>>

\* handleRetry: the button is there with a fresh code and after an end without success.
RetryScan(v) ==
    /\ scan[v].on /\ scan[v].shown \in {"qrcode_ready", "failed", "error"}
    /\ Turns(v, [NoTab EXCEPT !.on = TRUE, !.join = "force"])
    /\ UNCHANGED <<worker, code, accounts, shared, polls, restarted, passed, overlapped>>

\* The sub-session arrives: its code is shown, and the effect starts the interval.
Follows(v, w) ==
    Turns(v, [scan[v] EXCEPT !.sub = w, !.shown = "qrcode_ready", !.timer = TRUE, !.join = "no"])

\* joinSession meets a refusal.
JoinRefused(v) ==
    /\ scan[v].join # "no"
    /\ Turns(v, [scan[v] EXCEPT !.shown = "error", !.join = "no"])
    /\ UNCHANGED <<worker, code, accounts, shared, polls, restarted, passed, overlapped>>

\* The visitor's last sub-session, unless it failed.
Resumable(v) ==
    LET mine == {w \in Stored : worker[w].visitor = v} IN
    {w \in mine : (\A u \in mine : u <= w) /\ worker[w].status # "failed"}

\* join_session answers with it, unless a new one is forced.
Rejoined(v) ==
    /\ scan[v].join = "first" /\ shared
    /\ Cardinality(accounts) < Quota
    /\ \E w \in Resumable(v) : Follows(v, w)
    /\ UNCHANGED <<worker, code, accounts, shared, polls, restarted, passed, overlapped>>

\* join_session makes a code and a sub-session, while the quota lasts; its answer arrives
\* or is lost.
Joined(v) ==
    /\ scan[v].join # "no" /\ shared
    /\ Cardinality(accounts) < Quota
    /\ scan[v].join = "first" => Resumable(v) = {}
    /\ \E w \in SubSession \ Stored :
        /\ \A u \in SubSession \ Stored : w <= u
        /\ worker' = [worker EXCEPT ![w] = [status |-> "qrcode_ready", saved |-> FALSE,
                                            visitor |-> v]]
        /\ code' = [code EXCEPT ![w].status = "waiting"]
        /\ \/ Follows(v, w)
           \/ Turns(v, [scan[v] EXCEPT !.shown = "error", !.join = "no"])
    /\ UNCHANGED <<accounts, shared, polls, restarted, passed, overlapped>>

--------------------------------------------------------------------------------
(* A status request: it reads the sub-session, which opens the transaction's snapshot, *)
(* waits for the sub-session's lock, and acts on what the snapshot shows.              *)

Poll(a, p) == polls' = [polls EXCEPT ![a] = p]
Says(a, what) ==
    IF ~polls[a].heard THEN Poll(a, NoPoll) ELSE
    Poll(a, [NoPoll EXCEPT !.at = "answered", !.of = polls[a].of, !.heard = polls[a].heard,
                           !.says = what])

\* The interval fires, whatever requests are on their way, and worker_status reads.
AsksStatus(a) ==
    LET w == scan[a[1]].sub
        asked == [NoPoll EXCEPT !.of = w, !.heard = TRUE] IN
    /\ scan[a[1]].timer /\ polls[a] = NoPoll
    /\ \/ /\ ~shared
          /\ Poll(a, [asked EXCEPT !.at = "answered", !.says = "error"])
       \/ /\ shared /\ worker[w].status \in {"success", "failed"}
          /\ Poll(a, [asked EXCEPT !.at = "answered", !.says = worker[w].status])
       \/ /\ shared /\ worker[w].status \notin {"success", "failed"}
          /\ Poll(a, [asked EXCEPT !.at = "waits", !.seen = accounts, !.was = worker[w].status])
    /\ UNCHANGED <<scan, worker, code, accounts, shared, restarted, passed, overlapped>>

Mapped(w) ==
    CASE code[w].status = "waiting" -> "qrcode_ready"
      [] code[w].status = "scanned" -> "scanning"
      [] code[w].status \in {"overdue", "expired", "cancelled", "lost"} -> "failed"
      [] OTHER -> code[w].status

LockFree(w) == \A a \in Asker : ~(polls[a].at = "notifies" /\ polls[a].of = w)
HasLock(a) == polls[a].at = "waits" /\ LockFree(polls[a].of)

\* The status of the code is stored and answered.  A row deleted meanwhile cannot be
\* changed, and the request fails.
StatusStored(a) ==
    LET w == polls[a].of IN
    /\ HasLock(a)
    /\ Mapped(w) # "success"
    /\ IF Mapped(w) = polls[a].was
       THEN Says(a, Mapped(w)) /\ UNCHANGED worker
       ELSE IF shared
       THEN Says(a, Mapped(w)) /\ worker' = [worker EXCEPT ![w].status = Mapped(w)]
       ELSE Says(a, "error") /\ UNCHANGED worker
    /\ UNCHANGED <<scan, code, accounts, shared, restarted, passed, overlapped>>

\* Mutant: the quota that join_session checked before the code was made is enough.
QuotaJoined(a) == TRUE

\* reserve_quota: locks the owner's row, and counts the accounts of the snapshot.
QuotaLeft(a) == Cardinality(polls[a].seen) < Quota

Saves(a) ==
    LET w == polls[a].of IN
    /\ worker' = [worker EXCEPT ![w].status = "success", ![w].saved = TRUE]
    /\ Poll(a, [polls[a] EXCEPT !.at = "notifies", !.seen = {}, !.was = "none"])

\* _finish_worker: a known account gets the cookie, another is added; an account the
\* snapshot lacks cannot be added twice.
FinishWorker(a) ==
    LET who == code[polls[a].of].by IN
    /\ HasLock(a)
    /\ Mapped(polls[a].of) = "success"
    /\ \/ /\ shared /\ who \in polls[a].seen
          /\ Saves(a)
          /\ UNCHANGED <<accounts, overlapped>>
       \/ /\ shared /\ who \notin polls[a].seen /\ QuotaLeft(a) /\ who \notin accounts
          /\ Saves(a)
          /\ accounts' = accounts \cup {who}
          /\ overlapped' = (overlapped \/ polls[a].seen # accounts)
       \/ /\ \/ ~shared
             \/ who \notin polls[a].seen /\ (~QuotaLeft(a) \/ who \in accounts)
          /\ Says(a, "error")
          /\ UNCHANGED <<worker, accounts, overlapped>>
    /\ UNCHANGED <<scan, code, shared, restarted, passed>>

\* _notify_runtime ends, one way or the other, and the lock with it.
Notified(a) ==
    /\ polls[a].at = "notifies"
    /\ Says(a, "success")
    /\ UNCHANGED <<scan, worker, code, accounts, shared, restarted, passed, overlapped>>

\* An answer about another code than the tab shows, or after an end it shows already.
Passed(a) == scan[a[1]].sub # polls[a].of \/ scan[a[1]].shown \in Final

\* Mutant: a refused request is asked again like a lost one.
StopsUnlessRefused(t, says) ==
    IF says = "error" THEN t ELSE [t EXCEPT !.timer = FALSE, !.shown = says]

\* stopPoll, and the end is shown.
Stops(t, says) == [t EXCEPT !.timer = FALSE, !.shown = says]

\* pollStatus takes the answer, about whichever sub-session it is.
StatusArrives(a) ==
    LET t == scan[a[1]]
        says == polls[a].says IN
    /\ polls[a].at = "answered" /\ polls[a].heard
    /\ Turns(a[1], IF says \in Final THEN Stops(t, says)
                 ELSE IF says = "qrcode_ready" THEN t
                 ELSE [t EXCEPT !.shown = says])
    /\ passed' = (passed \/ (scan' # scan /\ Passed(a)))
    /\ Poll(a, NoPoll)
    /\ UNCHANGED <<worker, code, accounts, shared, restarted, overlapped>>

\* It is lost, or nobody waits for it: the tab asks again.
StatusLost(a) ==
    /\ polls[a].at = "answered"
    /\ Poll(a, NoPoll)
    /\ UNCHANGED <<scan, worker, code, accounts, shared, restarted, passed, overlapped>>

--------------------------------------------------------------------------------
(* The QR logins, and the owner.                                                   *)

Moves(w, from, to) ==
    /\ code[w].status \in from
    /\ code' = [code EXCEPT ![w].status = to]
    /\ UNCHANGED <<scan, worker, accounts, shared, polls, restarted, passed, overlapped>>

Confirms(w, from) ==
    /\ code[w].status \in from
    /\ \E p \in Person : code' = [code EXCEPT ![w] = [status |-> "success", by |-> p]]
    /\ UNCHANGED <<scan, worker, accounts, shared, polls, restarted, passed, overlapped>>

\* _monitor: the code is scanned, is confirmed by a person, needs a face first, expires or
\* is cancelled. It is overdue when its time ends while _monitor waits for the platform:
\* status() tells it expired, yet what the platform then answers is set over that.
Monitor(w) ==
    \/ Moves(w, {"waiting"}, "scanned")
    \/ Moves(w, {"waiting", "scanned"}, "overdue")
    \/ Confirms(w, {"waiting", "scanned", "overdue"})
    \/ Moves(w, {"waiting", "scanned", "overdue"}, "verification_required")
    \/ Moves(w, {"waiting", "scanned", "overdue"}, "expired")
    \/ Moves(w, {"waiting", "scanned", "overdue"}, "cancelled")

\* _run_face_verification succeeds; if it fails, the monitor ends and the status stays.
FaceVerified(w) == Confirms(w, {"verification_required"})

\* cleanup: whoever logs in by QR elsewhere removes the logins that timed out.
Forgets(w) ==
    Moves(w, {"waiting", "scanned", "overdue", "verification_required", "expired", "cancelled"},
          "lost")

\* A restart loses the logins and the requests; a tab takes that for a lost answer.
Restarts ==
    /\ ~restarted
    /\ restarted' = TRUE
    /\ code' = [w \in SubSession |->
                IF code[w].status = "none" THEN code[w] ELSE [code[w] EXCEPT !.status = "lost"]]
    /\ polls' = [a \in Asker |-> IF polls[a].at = "answered" THEN polls[a] ELSE NoPoll]
    /\ UNCHANGED <<scan, worker, accounts, shared, passed, overlapped>>

\* delete_session: the sub-sessions go with it.
DeletesShared ==
    /\ shared
    /\ shared' = FALSE
    /\ UNCHANGED <<scan, worker, code, accounts, polls, restarted, passed, overlapped>>

--------------------------------------------------------------------------------

ScanInit ==
    /\ scan = [v \in Visitor |-> NoTab]
    /\ worker = [w \in SubSession |-> NoWorker]
    /\ code = [w \in SubSession |-> [status |-> "none", by |-> "nobody"]]
    /\ accounts = {} /\ shared = TRUE
    /\ polls = [a \in Asker |-> NoPoll]
    /\ restarted = FALSE /\ passed = FALSE /\ overlapped = FALSE

\* A tab that took an old answer may have stopped asking: the instance ends there.
ScanNext ==
    /\ ~passed
    /\ \/ \E v \in Visitor :
            Visit(v) \/ Goes(v) \/ RetryScan(v) \/ JoinRefused(v) \/ Rejoined(v) \/ Joined(v)
       \/ \E a \in Asker :
            \/ AsksStatus(a) \/ StatusStored(a) \/ FinishWorker(a) \/ Notified(a)
            \/ StatusArrives(a) \/ StatusLost(a)
       \/ \E w \in SubSession : Monitor(w) \/ FaceVerified(w) \/ Forgets(w)
       \/ Restarts \/ DeletesShared

\* The interval fires, requests end (the runtime's call has a timeout), and not every answer
\* is lost.
ScanFairness ==
    \A v \in Visitor :
        /\ WF_scanVars(\E i \in 1 .. MaxPolls : AsksStatus(<<v, i>>))
        /\ WF_scanVars(\E i \in 1 .. MaxPolls :
                StatusStored(<<v, i>>) \/ FinishWorker(<<v, i>>) \/ Notified(<<v, i>>))
        /\ SF_scanVars(\E i \in 1 .. MaxPolls : StatusArrives(<<v, i>>))

ScanSpec == ScanInit /\ [][ScanNext]_scanVars /\ ScanFairness

--------------------------------------------------------------------------------
(* What has to hold.                                                               *)

\* However many people log in over the link, the owner gets no more accounts than the plan
\* allows, unless two sub-sessions were finished at the same time.
QuotaKept == Cardinality(accounts) <= Quota \/ overlapped

\* A tab whose code was confirmed, refused or lost shows how it ended, unless an answer was
\* overtaken by a later one.
ScanSettles ==
    \A v \in Visitor, w \in SubSession :
        scan[v].sub = w /\ code[w].status \in {"success", "expired", "cancelled", "lost"} ~>
            scan[v].shown \in Final \/ scan[v].sub # w \/ passed
================================================================================
