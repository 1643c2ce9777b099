------------------------------ MODULE AccountLogin ------------------------------
(* Signing an account in from the account page (pages/accounts/Accounts.tsx): the  *)
(* dialog for account and password creates a session on the server and polls it     *)
(* until it ends; the QR dialog and the settings dialogs share activeModal and the  *)
(* one closeModal with it.  The server's sessions are external.                     *)
EXTENDS Naturals

CONSTANTS
    MaxSessions,  \* bound: password sessions created
    MaxRequests,  \* bound: request ids after which the form is sent no more
    MaxOpens,     \* bound: dialogs opened
    MaxLate       \* bound: close calls waiting in a timer

ASSUME LoginAssumption == {MaxSessions, MaxRequests, MaxOpens, MaxLate} \subseteq Nat

VARIABLES
    modal,    \* activeModal
    pwd,      \* the state and the refs of the password dialog
    submit,   \* handlePasswordLogin, suspended at one of its awaits (pwdLoginBusyRef)
    poll,     \* pwdCheckIntervalRef, with what its callback captured
    tick,     \* the status request in flight (pwdCheckInFlightRef), likewise
    timer,    \* pwdSuccessCloseTimerRef: the request id it captured, 0 when off
    server,   \* the sessions the server told the page of
    cancels,  \* cancelPasswordLogin calls nobody awaits
    qr,       \* the QR dialog
    closers,  \* setTimeouts of the QR dialog that will call closeModal
    saving,   \* a settings dialog saves, and will call closeModal
    opening,  \* dialogs whose checkAdminPassword is on its way
    opens,
    present,  \* the page is mounted
    crossed   \* ghost: a late closeModal or setActiveModal fell on the password dialog

loginVars == <<modal, pwd, submit, poll, tick, timer, server, cancels, qr, closers, saving,
               opening, opens, present, crossed>>

Dialog == {"qrcode", "password", "other"}   \* "other": manual, edit and the settings
Session == 1 .. MaxSessions
RequestId == 0 .. (MaxRequests + MaxOpens + 1)
NoSubmit == [at |-> "none", id |-> 0, session |-> 0]
Fresh == [status |-> "idle", loading |-> FALSE, session |-> 0, ref |-> 0,
          closed |-> FALSE, id |-> 0]
Off == [session |-> 0, id |-> 0]
QrOff == [status |-> "waiting", generating |-> FALSE, polling |-> FALSE, asked |-> FALSE]

LoginTypeOK ==
    /\ modal \in Dialog \cup {"none"}
    /\ pwd \in [status : {"idle", "processing", "verification", "success", "failed"},
                loading : BOOLEAN, session : Session \cup {0}, ref : Session \cup {0},
                closed : BOOLEAN, id : RequestId]
    /\ submit \in [at : {"none", "cancelling", "creating", "cancellingLate"},
                   id : RequestId, session : Session \cup {0}]
    /\ {poll, tick} \subseteq [session : Session \cup {0}, id : RequestId]
    /\ timer \in RequestId
    /\ server \in [Session -> {"unknown", "running", "won", "lost", "released"}]
    /\ cancels \subseteq Session
    /\ qr \in [status : {"waiting", "success", "failed"}, generating : BOOLEAN,
               polling : BOOLEAN, asked : BOOLEAN]
    /\ closers \in 0 .. MaxLate
    /\ saving \in BOOLEAN
    /\ opening \subseteq Dialog
    /\ opens \in 0 .. MaxOpens
    /\ present \in BOOLEAN /\ crossed \in BOOLEAN

--------------------------------------------------------------------------------
(* Closing a dialog.                                                              *)

\* What closeModal resets whatever dialog is open: the timers and the form.
Reset(p) == [p EXCEPT !.status = "idle", !.loading = FALSE, !.session = 0]

Cleared ==
    /\ modal' = "none"
    /\ poll' = Off /\ timer' = 0
    /\ qr' = [qr EXCEPT !.polling = FALSE, !.status = "waiting"]

\* closeModal on a password dialog that has not succeeded: the attempt is given up.
Abandoned(p) == [p EXCEPT !.closed = TRUE, !.id = @ + 1]

\* closeModal as the page last rendered it: the user closes the dialog.
Close ==
    /\ present /\ modal # "none"
    /\ LET giveUp == modal = "password" /\ pwd.status # "success" IN
        /\ pwd' = Reset(IF giveUp THEN Abandoned(pwd) ELSE pwd)
        /\ cancels' = cancels \cup IF giveUp THEN {pwd.session} \ {0} ELSE {}
    /\ Cleared
    /\ UNCHANGED <<submit, tick, server, closers, saving, opening, opens, present, crossed>>

\* closeModal as a callback of another dialog captured it: it resets everything, but does
\* not see that a password login is going on.
CloseLate ==
    /\ pwd' = Reset(pwd)
    /\ Cleared
    /\ crossed' = (crossed \/ modal = "password" \/ ~present)

--------------------------------------------------------------------------------
(* Opening a dialog.                                                              *)

\* The page's buttons are under the overlay of an open dialog.
Click(d) ==
    /\ present /\ modal = "none" /\ d \notin opening /\ opens < MaxOpens
    /\ opening' = opening \cup {d}
    /\ opens' = opens + 1
    /\ UNCHANGED <<modal, pwd, submit, poll, tick, timer, server, cancels, qr, closers,
                   saving, present, crossed>>

\* checkAdminPassword answers: the administrator still has the default password, or the
\* dialog opens, over whatever is open by now.
Opens(d) ==
    /\ d \in opening
    /\ opening' = opening \ {d}
    /\ \/ UNCHANGED <<modal, qr, crossed>>
       \/ /\ present
          /\ d = "qrcode" => ~qr.generating
          /\ modal' = d
          /\ crossed' = (crossed \/ (modal = "password" /\ d # "password"))
          /\ qr' = IF d = "qrcode" THEN [qr EXCEPT !.status = "waiting", !.generating = TRUE]
                   ELSE qr
    /\ UNCHANGED <<pwd, submit, poll, tick, timer, server, cancels, closers, saving, opens,
                   present>>

--------------------------------------------------------------------------------
(* Account and password.                                                          *)

\* Mutant: it forgets whatever session there is.
ForgetAny(p, s) == [p EXCEPT !.session = 0, !.ref = 0]

\* The answer of cancelPasswordLogin (or its failure) forgets the session, and no other.
ForgetSession(p, s) ==
    [p EXCEPT !.session = IF @ = s THEN 0 ELSE @, !.ref = IF @ = s THEN 0 ELSE @]

Release(s) == server' = [server EXCEPT ![s] = IF @ = "running" THEN "released" ELSE @]

\* Mutant: pwdLoginClosedRef keeps what the last closed dialog left in it.
SubmitStillClosed ==
    /\ present /\ modal = "password" /\ pwd.status = "idle"
    /\ ~pwd.loading /\ submit.at = "none" /\ pwd.id < MaxRequests
    /\ \E s \in Session : server[s] = "unknown"
    /\ pwd' = [pwd EXCEPT !.id = @ + 1, !.loading = TRUE, !.status = "processing"]
    /\ poll' = Off /\ timer' = 0
    /\ submit' = [at |-> IF pwd.session # 0 THEN "cancelling" ELSE "creating",
                  id |-> pwd.id + 1, session |-> pwd.session]
    /\ UNCHANGED <<modal, tick, server, cancels, qr, closers, saving, opening, opens, present,
                   crossed>>

\* handlePasswordLogin: a new attempt, which cancels the session of an earlier one first.
Submit ==
    /\ present /\ modal = "password" /\ pwd.status = "idle"
    /\ ~pwd.loading /\ submit.at = "none" /\ pwd.id < MaxRequests
    /\ \E s \in Session : server[s] = "unknown"
    /\ pwd' = [pwd EXCEPT !.closed = FALSE, !.id = @ + 1, !.loading = TRUE,
                          !.status = "processing"]
    /\ poll' = Off /\ timer' = 0
    /\ submit' = [at |-> IF pwd.session # 0 THEN "cancelling" ELSE "creating",
                  id |-> pwd.id + 1, session |-> pwd.session]
    /\ UNCHANGED <<modal, tick, server, cancels, qr, closers, saving, opening, opens, present,
                   crossed>>

IsCurrent == pwd.id = submit.id /\ ~pwd.closed

\* The awaited cancellation is over.
SubmitGoesOn ==
    /\ submit.at \in {"cancelling", "cancellingLate"}
    /\ Release(submit.session)
    /\ pwd' = ForgetSession(pwd, submit.session)
    /\ submit' = IF submit.at = "cancelling" /\ IsCurrent
                 THEN [submit EXCEPT !.at = "creating", !.session = 0] ELSE NoSubmit
    /\ UNCHANGED <<modal, poll, tick, timer, cancels, qr, closers, saving, opening, opens,
                   present, crossed>>

\* Mutant: the answer is taken whoever asked.
CreatedUnchecked ==
    /\ submit.at = "creating"
    /\ \E s \in Session :
        /\ server[s] = "unknown" /\ \A t \in 1 .. (s - 1) : server[t] # "unknown"
        /\ server' = [server EXCEPT ![s] = "running"]
        /\ pwd' = [pwd EXCEPT !.ref = s, !.session = s, !.loading = FALSE]
        /\ poll' = [session |-> s, id |-> pwd.id]
    /\ submit' = NoSubmit
    /\ UNCHANGED <<modal, tick, timer, cancels, qr, closers, saving, opening, opens, present,
                   crossed>>

\* passwordLogin answers with a session: polled if the attempt is still the current one,
\* cancelled at once if it is not.
Created ==
    /\ submit.at = "creating"
    /\ \E s \in Session :
        /\ server[s] = "unknown" /\ \A t \in 1 .. (s - 1) : server[t] # "unknown"
        /\ server' = [server EXCEPT ![s] = "running"]
        /\ \/ /\ IsCurrent
              /\ pwd' = [pwd EXCEPT !.ref = s, !.session = s, !.loading = FALSE]
              /\ poll' = [session |-> s, id |-> pwd.id]
              /\ submit' = NoSubmit
           \/ /\ ~IsCurrent
              /\ submit' = [submit EXCEPT !.at = "cancellingLate", !.session = s]
              /\ UNCHANGED <<pwd, poll>>
    /\ UNCHANGED <<modal, tick, timer, cancels, qr, closers, saving, opening, opens, present,
                   crossed>>

\* It is refused or fails.
NotCreated ==
    /\ submit.at = "creating"
    /\ pwd' = IF IsCurrent THEN [pwd EXCEPT !.status = "failed", !.loading = FALSE] ELSE pwd
    /\ submit' = NoSubmit
    /\ UNCHANGED <<modal, poll, tick, timer, server, cancels, qr, closers, saving, opening,
                   opens, present, crossed>>

\* The interval asks for the status, unless a request is still on its way.
PollFires ==
    /\ poll # Off /\ tick = Off
    /\ tick' = poll
    /\ UNCHANGED <<modal, pwd, submit, poll, timer, server, cancels, qr, closers, saving,
                   opening, opens, present, crossed>>

\* The answer belongs to an attempt that was given up or replaced.
Outdated(t) == pwd.closed \/ pwd.id # t.id \/ pwd.ref \notin {0, t.session}

\* The answer says the session goes on or needs a face check, or there is no answer, or it
\* is outdated.
TickGoesOn ==
    /\ tick # Off
    /\ tick' = Off
    /\ \/ UNCHANGED <<pwd, timer>>
       \/ /\ ~Outdated(tick) /\ server[tick.session] # "unknown"
          /\ pwd' = [pwd EXCEPT !.status = "processing"]
          /\ UNCHANGED timer
       \/ /\ ~Outdated(tick)
          /\ pwd' = [pwd EXCEPT !.status = "verification"]
          /\ timer' = 0
    /\ UNCHANGED <<modal, submit, poll, server, cancels, qr, closers, saving, opening, opens,
                   present, crossed>>

\* The answer says how the session ended: with success the dialog closes itself soon.
TickEnds ==
    /\ tick # Off
    /\ tick' = Off
    /\ server[tick.session] # "running"
    /\ \/ /\ Outdated(tick)
          /\ UNCHANGED <<pwd, poll, timer>>
       \/ /\ ~Outdated(tick) /\ server[tick.session] = "won"
          /\ pwd' = [pwd EXCEPT !.status = "success", !.session = 0, !.ref = 0]
          /\ poll' = Off
          /\ timer' = pwd.id
       \/ /\ ~Outdated(tick) /\ server[tick.session] \in {"lost", "released"}
          /\ pwd' = [pwd EXCEPT !.status = "failed"]
          /\ poll' = Off
          /\ UNCHANGED timer
    /\ UNCHANGED <<modal, submit, server, cancels, qr, closers, saving, opening, opens,
                   present, crossed>>

\* The timer of a success, with the closeModal captured when the form was sent (which gives
\* up the attempt, and would cancel again a session that was cancelled before it).
SuccessCloses ==
    /\ timer # 0
    /\ \/ /\ timer = pwd.id /\ pwd.ref = 0 /\ modal = "password"
          /\ pwd' = Reset(Abandoned(pwd))
          /\ Cleared
       \/ /\ ~(timer = pwd.id /\ pwd.ref = 0 /\ modal = "password")
          /\ timer' = 0
          /\ UNCHANGED <<modal, pwd, poll, qr>>
    /\ UNCHANGED <<submit, tick, server, cancels, closers, saving, opening, opens, present,
                   crossed>>

\* The button of a failed login goes back to the form.
Retry ==
    /\ present /\ modal = "password" /\ pwd.status = "failed"
    /\ poll' = Off /\ timer' = 0
    /\ cancels' = cancels \cup ({pwd.session} \ {0})
    /\ pwd' = [pwd EXCEPT !.status = "idle"]
    /\ UNCHANGED <<modal, submit, tick, server, qr, closers, saving, opening, opens, present,
                   crossed>>

\* A cancellation nobody awaits is over.
CancelEnds(s) ==
    /\ s \in cancels
    /\ cancels' = cancels \ {s}
    /\ Release(s)
    /\ pwd' = ForgetSession(pwd, s)
    /\ UNCHANGED <<modal, submit, poll, tick, timer, qr, closers, saving, opening, opens,
                   present, crossed>>

\* The server's login ends on its own: with cookies, or not.
ServerEnds(s) ==
    /\ server[s] = "running"
    /\ \E end \in {"won", "lost"} : server' = [server EXCEPT ![s] = end]
    /\ UNCHANGED <<modal, pwd, submit, poll, tick, timer, cancels, qr, closers, saving,
                   opening, opens, present, crossed>>

--------------------------------------------------------------------------------
(* The QR code and the settings dialogs: what they do to the shared state.        *)

\* generateQRLogin answers: polling starts, whatever dialog is open by now.
QrGenerated ==
    /\ qr.generating
    /\ \E ok \in BOOLEAN :
        qr' = [qr EXCEPT !.generating = FALSE, !.polling = @ \/ ok,
                         !.status = IF ok THEN @ ELSE "failed"]
    /\ UNCHANGED <<modal, pwd, submit, poll, tick, timer, server, cancels, closers, saving,
                   opening, opens, present, crossed>>

\* refreshQRCode, offered for a code that expired or failed.
QrRefresh ==
    /\ present /\ modal = "qrcode" /\ qr.status = "failed" /\ ~qr.generating
    /\ qr' = [qr EXCEPT !.status = "waiting", !.generating = TRUE, !.polling = FALSE]
    /\ UNCHANGED <<modal, pwd, submit, poll, tick, timer, server, cancels, closers, saving,
                   opening, opens, present, crossed>>

QrAsks ==
    /\ qr.polling /\ ~qr.asked
    /\ qr' = [qr EXCEPT !.asked = TRUE]
    /\ UNCHANGED <<modal, pwd, submit, poll, tick, timer, server, cancels, closers, saving,
                   opening, opens, present, crossed>>

\* The status of a code: it waits; it was confirmed, and a timer will close the dialog; it
\* expired or failed; or the user cancelled on the phone, and the dialog closes at once.
QrAnswer ==
    /\ qr.asked
    /\ \/ /\ qr' = [qr EXCEPT !.asked = FALSE]
          /\ UNCHANGED <<modal, pwd, poll, timer, closers, crossed>>
       \/ /\ closers < MaxLate
          /\ qr' = [qr EXCEPT !.asked = FALSE, !.polling = FALSE, !.status = "success"]
          /\ closers' = closers + 1
          /\ UNCHANGED <<modal, pwd, poll, timer, crossed>>
       \/ /\ qr' = [qr EXCEPT !.asked = FALSE, !.polling = FALSE, !.status = "failed"]
          /\ UNCHANGED <<modal, pwd, poll, timer, closers, crossed>>
       \/ /\ modal' = "none" /\ poll' = Off /\ timer' = 0
          /\ qr' = [qr EXCEPT !.asked = FALSE, !.polling = FALSE, !.status = "waiting"]
          /\ pwd' = Reset(pwd)
          /\ crossed' = (crossed \/ modal = "password" \/ ~present)
          /\ UNCHANGED closers
    /\ UNCHANGED <<submit, tick, server, cancels, saving, opening, opens, present>>

\* The timer of a confirmed code.
QrCloses ==
    /\ closers > 0
    /\ closers' = closers - 1
    /\ CloseLate
    /\ UNCHANGED <<submit, tick, server, cancels, saving, opening, opens, present>>

\* A manual account or a setting is saved; the dialog can be closed meanwhile.
Save ==
    /\ present /\ modal = "other" /\ ~saving
    /\ saving' = TRUE
    /\ UNCHANGED <<modal, pwd, submit, poll, tick, timer, server, cancels, qr, closers,
                   opening, opens, present, crossed>>

Saved ==
    /\ saving
    /\ saving' = FALSE
    /\ \/ CloseLate
       \/ UNCHANGED <<modal, pwd, poll, timer, qr, crossed>>
    /\ UNCHANGED <<submit, tick, server, cancels, closers, opening, opens, present>>

--------------------------------------------------------------------------------

\* The page is left.
Leave ==
    /\ present
    /\ present' = FALSE
    /\ IF pwd.ref # 0
       THEN pwd' = Abandoned(pwd) /\ cancels' = cancels \cup {pwd.ref}
       ELSE UNCHANGED <<pwd, cancels>>
    /\ poll' = Off /\ timer' = 0
    /\ qr' = [qr EXCEPT !.polling = FALSE]
    /\ modal' = "none"
    /\ UNCHANGED <<submit, tick, server, closers, saving, opening, opens, crossed>>

\* The page is opened again: a new instance, modelled from where nothing of the one before
\* still runs.
Return ==
    /\ ~present
    /\ submit = NoSubmit /\ poll = Off /\ tick = Off /\ cancels = {}
    /\ closers = 0 /\ ~saving /\ opening = {}
    /\ ~qr.generating /\ ~qr.polling /\ ~qr.asked
    /\ present' = TRUE /\ opens' = 0 /\ pwd' = Fresh /\ qr' = QrOff /\ timer' = 0
    /\ UNCHANGED <<modal, submit, poll, tick, server, cancels, closers, saving, opening,
                   crossed>>

LoginInit ==
    /\ modal = "none"
    /\ pwd = Fresh
    /\ submit = NoSubmit /\ poll = Off /\ tick = Off /\ timer = 0
    /\ server = [s \in Session |-> "unknown"] /\ cancels = {}
    /\ qr = QrOff /\ closers = 0 /\ saving = FALSE
    /\ opening = {} /\ opens = 0 /\ present = TRUE /\ crossed = FALSE

LoginStep ==
    \/ Close \/ Leave \/ Return
    \/ \E d \in Dialog : Click(d) \/ Opens(d)
    \/ Submit \/ SubmitGoesOn \/ Created \/ NotCreated
    \/ PollFires \/ TickGoesOn \/ TickEnds \/ SuccessCloses \/ Retry
    \/ \E s \in Session : CancelEnds(s) \/ ServerEnds(s)
    \/ QrGenerated \/ QrRefresh \/ QrAsks \/ QrAnswer \/ QrCloses
    \/ Save \/ Saved

\* What a late call leaves behind is mixed: the instance ends there.
LoginNext == ~crossed /\ LoginStep

\* Intervals fire, requests are answered (the status request often enough), and a login on
\* the server ends.
LoginFairness ==
    /\ WF_loginVars(SubmitGoesOn) /\ WF_loginVars(Created \/ NotCreated)
    /\ WF_loginVars(PollFires) /\ WF_loginVars(TickGoesOn \/ TickEnds)
    /\ SF_loginVars(TickEnds)
    /\ \A s \in Session : WF_loginVars(ServerEnds(s))

LoginSpec == LoginInit /\ [][LoginNext]_loginVars /\ LoginFairness

--------------------------------------------------------------------------------
(* What has to hold.                                                              *)

\* Only the current attempt is polled, and only under its own dialog: neither a form sent
\* and closed and sent again, nor a late answer or a late cancellation of an earlier
\* session, leaves a poll of something else; unless the closeModal of another dialog, or
\* another dialog itself, fell on the password dialog.
PollIsCurrent ==
    ~crossed /\ poll # Off =>
        /\ poll = [session |-> pwd.ref, id |-> pwd.id] /\ ~pwd.closed
        /\ present => modal = "password"

\* A login that goes on on the server is followed by the page or being cancelled: closing
\* the dialog or leaving the page, at whatever step of the attempt, forgets none.
NoAbandonedSession ==
    ~crossed => \A s \in Session :
        server[s] = "running" => s \in {poll.session, submit.session} \cup cancels

\* The spinner of a login ends: the attempt succeeds, fails or asks for something, however
\* many status requests are lost (with the same exception).
LoginSettles ==
    pwd.status = "processing" ~> pwd.status # "processing" \/ ~present \/ crossed
================================================================================
