---------------------------- MODULE WorkbenchProofs ----------------------------
(***************************************************************************)
(* Theorems about the account dialogs and the chat page's sockets, and     *)
(* about the workbench, which puts them beside the other parts.            *)
(***************************************************************************)
EXTENDS Workbench, BatchProofs, SharedScanProofs, FiniteSetTheorems

-----------------------------------------------------------------------------
(* The form of the password dialog, and what is done to it.                *)

Form == [status : {"idle", "processing", "verification", "success", "failed"},
         loading : BOOLEAN, session : Session \cup {0}, ref : Session \cup {0},
         closed : BOOLEAN, id : Nat]
SubmitType == [at : {"none", "cancelling", "creating", "cancellingLate"},
               id : RequestId, session : Session \cup {0}]
PollType == [session : Session \cup {0}, id : RequestId]
QrType == [status : {"waiting", "success", "failed"}, generating : BOOLEAN,
           polling : BOOLEAN, asked : BOOLEAN]

\* Resetting the form ends the attempt it shows and keeps its ref.
LEMMA ResetFields ==
    ASSUME NEW p \in Form
    PROVE  /\ Reset(p) \in Form
           /\ Reset(p).status = "idle" /\ Reset(p).session = 0
           /\ Reset(p).ref = p.ref /\ Reset(p).closed = p.closed /\ Reset(p).id = p.id
BY DEF Form, Reset

\* An abandoned form is closed, and answers to its request are stale from then on.
LEMMA AbandonedFields ==
    ASSUME NEW p \in Form
    PROVE  /\ Abandoned(p) \in Form
           /\ Abandoned(p).status = p.status /\ Abandoned(p).session = p.session
           /\ Abandoned(p).ref = p.ref /\ Abandoned(p).closed = TRUE /\ Abandoned(p).id = p.id + 1
<1> DEFINE n == p.id + 1
<1>1. n \in Nat
  BY DEF Form
<1>2. Abandoned(p) = [p EXCEPT !.closed = TRUE, !.id = n]
  BY DEF Abandoned
<1> HIDE DEF n
<1>3. LET q == [p EXCEPT !.closed = TRUE, !.id = n]
      IN  /\ q \in Form /\ q.status = p.status /\ q.session = p.session /\ q.ref = p.ref
          /\ q.closed = TRUE /\ q.id = n
  BY <1>1 DEF Form
<1>4. QED BY <1>2, <1>3 DEF n

\* A session that is forgotten is neither shown nor followed.
LEMMA ForgetFields ==
    ASSUME NEW p \in Form, NEW s
    PROVE  /\ ForgetSession(p, s) \in Form
           /\ ForgetSession(p, s).session = IF p.session = s THEN 0 ELSE p.session
           /\ ForgetSession(p, s).ref = IF p.ref = s THEN 0 ELSE p.ref
           /\ ForgetSession(p, s).closed = p.closed /\ ForgetSession(p, s).id = p.id
           /\ ForgetSession(p, s).status = p.status
BY DEF Form, ForgetSession

-----------------------------------------------------------------------------
(* The invariant.                                                          *)

\* Dialogs for a password that are open or about to open: each was clicked, and an
\* attempt is given up by closing one, or by leaving the page.
Open1 == IF modal = "password" THEN 1 ELSE 0
Asked1 == IF "password" \in opening THEN 1 ELSE 0
Bounded ==
    /\ present => Open1 + Asked1 <= opens /\ pwd.id + Open1 + Asked1 <= MaxRequests + opens
    /\ ~present => modal = "none" /\ pwd.id <= MaxRequests + opens + 1

\* A session anybody has heard of was created.
Created1(s) == s # 0 => server[s] # "unknown"
Known ==
    /\ Created1(pwd.session) /\ Created1(pwd.ref) /\ Created1(submit.session)
    /\ Created1(poll.session) /\ Created1(tick.session)
    /\ \A s \in cancels : server[s] # "unknown"

\* Nothing is polled while a form is sent, and no request is newer than the form.
OneAttempt ==
    /\ submit.at # "none" => poll = Off
    /\ submit.at \in {"none", "creating"} => submit.session = 0
    /\ tick # Off => tick.id <= pwd.id

\* The form that is sent is the one on the screen.
Submitting == submit.at \in {"cancelling", "creating"} /\ IsCurrent
SubmitIsShown ==
    ~crossed /\ Submitting =>
        /\ pwd.status = "processing"
        /\ present => modal = "password"
        /\ tick # Off => tick.id # pwd.id

\* What is polled is the form's session, which nobody is cancelling.
PollIsShown ==
    ~crossed /\ poll # Off =>
        /\ poll = [session |-> pwd.ref, id |-> pwd.id] /\ ~pwd.closed
        /\ pwd.ref # 0 /\ pwd.session = pwd.ref /\ pwd.ref \notin cancels
        /\ pwd.status \in {"processing", "verification"}
        /\ present => modal = "password"

LoginTypeInv == LoginTypeOK /\ Bounded
LoginInv == LoginTypeInv /\ Known /\ OneAttempt /\ SubmitIsShown /\ PollIsShown /\ NoAbandonedSession

\* The type of the state, taken apart.
LEMMA LoginTypes ==
    ASSUME LoginTypeInv
    PROVE  /\ pwd \in Form /\ submit \in SubmitType /\ {poll, tick} \subseteq PollType /\ qr \in QrType
           /\ MaxSessions \in Nat /\ MaxRequests \in Nat /\ MaxOpens \in Nat /\ MaxLate \in Nat
           /\ opens \in Nat /\ opens <= MaxOpens
           /\ server \in [Session -> {"unknown", "running", "won", "lost", "released"}]
           /\ \A f \in Form : f.id <= MaxRequests + MaxOpens + 1 =>
                f \in [status : {"idle", "processing", "verification", "success", "failed"},
                       loading : BOOLEAN, session : Session \cup {0}, ref : Session \cup {0},
                       closed : BOOLEAN, id : RequestId]
BY LoginAssumption DEF LoginTypeInv, LoginTypeOK, Form, SubmitType, PollType, QrType, RequestId

FormRanges ==
    /\ pwd.id \in Nat /\ pwd.session \in Session \cup {0} /\ pwd.ref \in Session \cup {0}
    /\ submit.id \in Nat /\ submit.session \in Session \cup {0}
    /\ submit.at \in {"none", "cancelling", "creating", "cancellingLate"}
    /\ tick.id \in Nat /\ tick.session \in Session \cup {0}
    /\ poll.id \in Nat /\ poll.session \in Session \cup {0}
    /\ opens \in Nat /\ opens <= MaxOpens /\ MaxRequests \in Nat /\ MaxOpens \in Nat
    /\ 0 \notin Session /\ cancels \subseteq Session

\* The ranges of the form's fields.
LEMMA LoginFields == LoginTypeInv => FormRanges
<1> SUFFICES ASSUME LoginTypeInv PROVE FormRanges
  OBVIOUS
<1>1. pwd \in Form /\ submit \in SubmitType /\ tick \in PollType /\ poll \in PollType
  BY LoginTypes
<1>2. MaxRequests \in Nat /\ MaxOpens \in Nat /\ MaxSessions \in Nat
  BY LoginTypes
<1>3. RequestId \subseteq Nat /\ 0 \notin Session
  BY <1>2 DEF RequestId, Session
<1>4. cancels \subseteq Session
  BY DEF LoginTypeInv, LoginTypeOK
<1>5. QED BY <1>1, <1>2, <1>3, <1>4, LoginTypes DEF FormRanges, Form, SubmitType, PollType

-----------------------------------------------------------------------------
(* What the steps do to the form, field by field.                          *)

FormTo(status, session, ref, closed, id) ==
    /\ pwd' \in Form /\ pwd'.status = status /\ pwd'.session = session /\ pwd'.ref = ref
    /\ pwd'.closed = closed /\ pwd'.id = id

\* A password dialog is given up.
GivesUp ==
    /\ modal = "password" /\ present
    /\ FormTo("idle", 0, pwd.ref, TRUE, pwd.id + 1)
    /\ \/ pwd.status # "success" /\ cancels' = cancels \cup ({pwd.session} \ {0})
       \/ pwd.ref = 0 /\ UNCHANGED cancels
    /\ UNCHANGED <<present, crossed>>
\* A dialog closes that is no running login's, or a late call closes whatever there is.
Closes ==
    /\ FormTo("idle", 0, pwd.ref, pwd.closed, pwd.id)
    /\ UNCHANGED <<cancels, present>>
    /\ \/ crossed'
       \/ present /\ (modal # "password" \/ pwd.status = "success") /\ UNCHANGED crossed
Shuts ==
    /\ modal' = "none" /\ poll' = Off /\ UNCHANGED <<submit, tick, server, opening, opens>>
    /\ GivesUp \/ Closes

\* Closing a dialog shuts it and gives its attempt up.
LEMMA CloseEffect == ASSUME LoginTypeInv, ~crossed, Close PROVE Shuts
<1>1. pwd \in Form
  BY LoginTypes
<1>2. CASE modal = "password" /\ pwd.status # "success"
  <2>1. Abandoned(pwd) \in Form /\ pwd' = Reset(Abandoned(pwd))
    BY <1>1, <1>2, AbandonedFields DEF Close
  <2>2. FormTo("idle", 0, pwd.ref, TRUE, pwd.id + 1)
    BY <1>1, <2>1, AbandonedFields, ResetFields DEF FormTo
  <2>3. QED BY <1>2, <2>2 DEF Close, Cleared, Shuts, GivesUp
<1>3. CASE ~(modal = "password" /\ pwd.status # "success")
  <2>1. FormTo("idle", 0, pwd.ref, pwd.closed, pwd.id) /\ cancels' = cancels
    BY <1>1, <1>3, ResetFields DEF FormTo, Close
  <2>2. QED BY <1>3, <2>1 DEF Close, Cleared, Shuts, Closes
<1>4. QED BY <1>2, <1>3

\* The QR dialog's endings shut the open dialog or leave the password form as it is.
LEMMA LateEffect ==
    ASSUME LoginTypeInv, ~crossed, QrCloses \/ Saved \/ QrAnswer
    PROVE  \/ Shuts
           \/ UNCHANGED <<modal, pwd, submit, poll, tick, server, cancels, opening, opens,
                          present, crossed>>
<1>1. FormTo("idle", 0, pwd.ref, pwd.closed, pwd.id) \/ pwd' # Reset(pwd)
  BY LoginTypes, ResetFields DEF FormTo
<1>2. ASSUME pwd' = Reset(pwd), modal' = "none", poll' = Off,
             crossed' = (crossed \/ modal = "password" \/ ~present),
             UNCHANGED <<submit, tick, server, cancels, opening, opens, present>>
      PROVE  Shuts
  <2>1. crossed' \/ (present /\ modal # "password" /\ UNCHANGED crossed)
    BY <1>2 DEF LoginTypeInv, LoginTypeOK
  <2>2. QED BY <1>1, <1>2, <2>1 DEF Shuts, Closes
<1>3. CASE QrCloses
  BY <1>2, <1>3 DEF QrCloses, CloseLate, Cleared
<1>4. CASE Saved
  BY <1>2, <1>4 DEF Saved, CloseLate, Cleared
<1>5. CASE QrAnswer
  BY <1>2, <1>5 DEF QrAnswer
<1>6. QED BY <1>3, <1>4, <1>5

\* The dialog that closes after a success is shut like any other, or is no longer there.
LEMMA SuccessEffect ==
    ASSUME LoginTypeInv, ~crossed, SuccessCloses, present \/ modal # "password"
    PROVE  \/ Shuts
           \/ UNCHANGED <<modal, pwd, submit, poll, tick, server, cancels, opening, opens,
                          present, crossed>>
<1>1. pwd \in Form /\ Abandoned(pwd) \in Form
  BY LoginTypes, AbandonedFields
<1>2. FormTo("idle", 0, pwd.ref, TRUE, pwd.id + 1) \/ pwd' # Reset(Abandoned(pwd))
  <2> DEFINE a == Abandoned(pwd)
  <2>1. a \in Form /\ a.ref = pwd.ref /\ a.closed = TRUE /\ a.id = pwd.id + 1
    BY <1>1, AbandonedFields
  <2> HIDE DEF a
  <2>2. Reset(a) \in Form /\ Reset(a).status = "idle" /\ Reset(a).session = 0
        /\ Reset(a).ref = a.ref /\ Reset(a).closed = a.closed /\ Reset(a).id = a.id
    BY <2>1, ResetFields
  <2>3. pwd' = Reset(a) => FormTo("idle", 0, pwd.ref, TRUE, pwd.id + 1)
    BY <2>1, <2>2 DEF FormTo
  <2>4. QED BY <2>3 DEF a
<1>3. QED BY <1>2 DEF SuccessCloses, Cleared, Shuts, GivesUp

\* Leaving the page abandons the session that is followed, and asks to cancel it.
LEMMA LeaveEffect ==
    ASSUME LoginTypeInv, Leave
    PROVE  /\ ~present' /\ modal' = "none" /\ poll' = Off /\ present
           /\ UNCHANGED <<submit, tick, server, opening, opens, crossed>>
           /\ \/ /\ pwd.ref # 0 /\ FormTo(pwd.status, pwd.session, pwd.ref, TRUE, pwd.id + 1)
                 /\ cancels' = cancels \cup {pwd.ref}
              \/ pwd.ref = 0 /\ UNCHANGED <<pwd, cancels>>
<1>1. pwd \in Form
  BY LoginTypes
<1>2. FormTo(pwd.status, pwd.session, pwd.ref, TRUE, pwd.id + 1) \/ pwd' # Abandoned(pwd)
  BY <1>1, AbandonedFields DEF FormTo
<1>3. QED BY <1>2 DEF Leave

\* Submitting the form begins an attempt with an id of its own.
LEMMA SubmitEffect ==
    ASSUME LoginTypeInv, Submit
    PROVE  /\ present /\ modal = "password" /\ pwd.status = "idle" /\ submit.at = "none"
           /\ pwd.id < MaxRequests
           /\ FormTo("processing", pwd.session, pwd.ref, FALSE, pwd.id + 1)
           /\ submit' \in SubmitType /\ submit'.id = pwd.id + 1 /\ submit'.session = pwd.session
           /\ submit'.at = IF pwd.session # 0 THEN "cancelling" ELSE "creating"
           /\ poll' = Off
           /\ UNCHANGED <<modal, tick, server, cancels, opening, opens, present, crossed>>
<1>1. pwd \in Form /\ MaxRequests \in Nat /\ MaxOpens \in Nat
  BY LoginTypes
<1>2. FormTo("processing", pwd.session, pwd.ref, FALSE, pwd.id + 1)
  <2> DEFINE n == pwd.id + 1
  <2>1. n \in Nat
    BY <1>1 DEF Form
  <2>2. pwd' = [pwd EXCEPT !.closed = FALSE, !.id = n, !.loading = TRUE, !.status = "processing"]
    BY DEF Submit
  <2> HIDE DEF n
  <2>3. LET q == [pwd EXCEPT !.closed = FALSE, !.id = n, !.loading = TRUE, !.status = "processing"]
        IN  /\ q \in Form /\ q.status = "processing" /\ q.session = pwd.session
            /\ q.ref = pwd.ref /\ q.closed = FALSE /\ q.id = n
    BY <1>1, <2>1 DEF Form
  <2>4. FormTo("processing", pwd.session, pwd.ref, FALSE, n)
    BY <2>2, <2>3 DEF FormTo
  <2>5. QED BY <2>4 DEF n
<1>3. pwd.id + 1 \in RequestId /\ pwd.session \in Session \cup {0}
  BY <1>1 DEF Submit, Form, RequestId
<1>4. submit' = [at |-> IF pwd.session # 0 THEN "cancelling" ELSE "creating",
                 id |-> pwd.id + 1, session |-> pwd.session]
  BY DEF Submit
<1>5. /\ submit' \in SubmitType /\ submit'.id = pwd.id + 1 /\ submit'.session = pwd.session
      /\ submit'.at = IF pwd.session # 0 THEN "cancelling" ELSE "creating"
  BY <1>3, <1>4 DEF SubmitType
<1>6. QED BY <1>2, <1>5 DEF Submit

\* A submission whose cancel call was answered asks for a session, or is dropped.
LEMMA GoesOnEffect ==
    ASSUME LoginTypeInv, SubmitGoesOn
    PROVE  /\ submit.at \in {"cancelling", "cancellingLate"}
           /\ \A s \in Session : server'[s] = IF s = submit.session /\ server[s] = "running"
                                              THEN "released" ELSE server[s]
           /\ FormTo(pwd.status, IF pwd.session = submit.session THEN 0 ELSE pwd.session,
                     IF pwd.ref = submit.session THEN 0 ELSE pwd.ref, pwd.closed, pwd.id)
           /\ \/ /\ submit.at = "cancelling" /\ IsCurrent
                 /\ submit' \in SubmitType /\ submit'.at = "creating" /\ submit'.id = submit.id
                 /\ submit'.session = 0
              \/ submit' = NoSubmit
           /\ UNCHANGED <<modal, poll, tick, cancels, opening, opens, present, crossed>>
<1>1. pwd \in Form /\ submit \in SubmitType
      /\ server \in [Session -> {"unknown", "running", "won", "lost", "released"}]
  BY LoginTypes
<1>2. FormTo(pwd.status, IF pwd.session = submit.session THEN 0 ELSE pwd.session,
             IF pwd.ref = submit.session THEN 0 ELSE pwd.ref, pwd.closed, pwd.id)
  BY <1>1, ForgetFields DEF SubmitGoesOn, FormTo
<1>3. \A s \in Session : server'[s] = IF s = submit.session /\ server[s] = "running"
                                      THEN "released" ELSE server[s]
  BY <1>1 DEF SubmitGoesOn, Release
<1>4. \/ /\ submit.at = "cancelling" /\ IsCurrent
         /\ submit' = [submit EXCEPT !.at = "creating", !.session = 0]
      \/ submit' = NoSubmit
  BY DEF SubmitGoesOn
<1>5. LET n == [submit EXCEPT !.at = "creating", !.session = 0]
      IN  n \in SubmitType /\ n.at = "creating" /\ n.id = submit.id /\ n.session = 0
  BY <1>1 DEF SubmitType
<1>6. QED BY <1>2, <1>3, <1>4, <1>5 DEF SubmitGoesOn

\* A session that was created is shown, or cancelled when its dialog is gone.
LEMMA CreatedEffect ==
    ASSUME LoginTypeInv, Created
    PROVE  /\ submit.at = "creating"
           /\ \E s \in Session :
                /\ server[s] = "unknown" /\ server'[s] = "running" /\ s # 0
                /\ \A t \in Session \ {s} : server'[t] = server[t]
                /\ \/ /\ IsCurrent
                      /\ FormTo(pwd.status, s, s, pwd.closed, pwd.id)
                      /\ poll' = [session |-> s, id |-> pwd.id] /\ submit' = NoSubmit
                   \/ /\ ~IsCurrent
                      /\ submit' \in SubmitType /\ submit'.at = "cancellingLate"
                      /\ submit'.id = submit.id /\ submit'.session = s
                      /\ UNCHANGED <<pwd, poll>>
           /\ UNCHANGED <<modal, tick, cancels, opening, opens, present, crossed>>
<1>1. pwd \in Form /\ submit \in SubmitType
      /\ server \in [Session -> {"unknown", "running", "won", "lost", "released"}]
  BY LoginTypes
<1>2. PICK s \in Session :
        /\ server[s] = "unknown" /\ server' = [server EXCEPT ![s] = "running"]
        /\ \/ /\ IsCurrent
              /\ pwd' = [pwd EXCEPT !.ref = s, !.session = s, !.loading = FALSE]
              /\ poll' = [session |-> s, id |-> pwd.id]
              /\ submit' = NoSubmit
           \/ /\ ~IsCurrent
              /\ submit' = [submit EXCEPT !.at = "cancellingLate", !.session = s]
              /\ UNCHANGED <<pwd, poll>>
  BY DEF Created
<1>3. LET n == [submit EXCEPT !.at = "cancellingLate", !.session = s]
      IN  n \in SubmitType /\ n.at = "cancellingLate" /\ n.id = submit.id /\ n.session = s
  BY <1>1 DEF SubmitType
<1>4. LET n == [pwd EXCEPT !.ref = s, !.session = s, !.loading = FALSE]
      IN  n \in Form /\ n.status = pwd.status /\ n.session = s /\ n.ref = s
          /\ n.closed = pwd.closed /\ n.id = pwd.id
  BY <1>1 DEF Form
<1>5. s # 0 /\ server'[s] = "running" /\ \A t \in Session \ {s} : server'[t] = server[t]
  BY <1>1, <1>2, LoginTypes DEF Session
<1>6. \/ /\ IsCurrent
         /\ FormTo(pwd.status, s, s, pwd.closed, pwd.id)
         /\ poll' = [session |-> s, id |-> pwd.id] /\ submit' = NoSubmit
      \/ /\ ~IsCurrent
         /\ submit' \in SubmitType /\ submit'.at = "cancellingLate"
         /\ submit'.id = submit.id /\ submit'.session = s
         /\ UNCHANGED <<pwd, poll>>
  BY <1>2, <1>3, <1>4 DEF FormTo
<1>7. QED BY <1>2, <1>5, <1>6 DEF Created

\* The form takes another status.
LEMMA StatusEffect ==
    ASSUME LoginTypeInv, NotCreated \/ TickGoesOn \/ TickEnds \/ Retry
    PROVE  /\ UNCHANGED <<modal, server, opening, opens, present, crossed>>
           /\ \/ /\ NotCreated /\ submit.at = "creating" /\ submit' = NoSubmit
                 /\ UNCHANGED <<poll, tick, cancels>>
                 /\ pwd' = pwd \/ FormTo("failed", pwd.session, pwd.ref, pwd.closed, pwd.id)
              \/ /\ TickGoesOn /\ tick # Off /\ tick' = Off /\ UNCHANGED <<submit, poll,
                                                                           cancels>>
                 /\ \/ pwd' = pwd
                    \/ /\ ~Outdated(tick)
                       /\ \E st \in {"processing", "verification"} :
                             FormTo(st, pwd.session, pwd.ref, pwd.closed, pwd.id)
              \/ /\ TickEnds /\ tick # Off /\ tick' = Off /\ UNCHANGED <<submit, cancels>>
                 /\ server[tick.session] # "running"
                 /\ \/ pwd' = pwd /\ poll' = poll
                    \/ /\ ~Outdated(tick) /\ poll' = Off
                       /\ \/ FormTo("success", 0, 0, pwd.closed, pwd.id)
                          \/ FormTo("failed", pwd.session, pwd.ref, pwd.closed, pwd.id)
              \/ /\ Retry /\ poll' = Off /\ cancels' = cancels \cup ({pwd.session} \ {0})
                 /\ pwd.status = "failed" /\ UNCHANGED <<submit, tick>>
                 /\ FormTo("idle", pwd.session, pwd.ref, pwd.closed, pwd.id)
<1>1. pwd \in Form
  BY LoginTypes
<1>2. ASSUME NEW st \in {"idle", "processing", "verification", "success", "failed"},
             pwd' = [pwd EXCEPT !.status = st] \/ pwd' = [pwd EXCEPT !.status = st, !.loading = FALSE]
      PROVE  FormTo(st, pwd.session, pwd.ref, pwd.closed, pwd.id)
  BY <1>1, <1>2 DEF Form, FormTo
<1>3. CASE NotCreated
  <2>1. pwd' = pwd \/ FormTo("failed", pwd.session, pwd.ref, pwd.closed, pwd.id)
    BY <1>2, <1>3 DEF NotCreated
  <2>2. QED BY <1>3, <2>1 DEF NotCreated
<1>4. CASE TickGoesOn
  <2>1. \/ pwd' = pwd
        \/ /\ ~Outdated(tick)
           /\ \E st \in {"processing", "verification"} :
                 FormTo(st, pwd.session, pwd.ref, pwd.closed, pwd.id)
    BY <1>2, <1>4 DEF TickGoesOn
  <2>2. QED BY <1>4, <2>1 DEF TickGoesOn
<1>5. CASE TickEnds
  <2>1. pwd' = [pwd EXCEPT !.status = "success", !.session = 0, !.ref = 0]
          => FormTo("success", 0, 0, pwd.closed, pwd.id)
    BY <1>1 DEF Form, FormTo
  <2>2. pwd' = [pwd EXCEPT !.status = "failed"]
          => FormTo("failed", pwd.session, pwd.ref, pwd.closed, pwd.id)
    BY <1>2
  <2>3. QED BY <1>5, <2>1, <2>2 DEF TickEnds
<1>6. CASE Retry
  <2>1. FormTo("idle", pwd.session, pwd.ref, pwd.closed, pwd.id)
    BY <1>2, <1>6 DEF Retry
  <2>2. QED BY <1>6, <2>1 DEF Retry
<1>7. QED BY <1>3, <1>4, <1>5, <1>6

\* A cancel call that was answered releases its session, and the form forgets it.
LEMMA CancelEndsEffect ==
    ASSUME LoginTypeInv, NEW c \in Session, CancelEnds(c)
    PROVE  /\ cancels' = cancels \ {c} /\ c \in cancels
           /\ \A s \in Session : server'[s] = IF s = c /\ server[s] = "running"
                                              THEN "released" ELSE server[s]
           /\ FormTo(pwd.status, IF pwd.session = c THEN 0 ELSE pwd.session,
                     IF pwd.ref = c THEN 0 ELSE pwd.ref, pwd.closed, pwd.id)
           /\ UNCHANGED <<modal, submit, poll, tick, opening, opens, present, crossed>>
<1>1. pwd \in Form /\ server \in [Session -> {"unknown", "running", "won", "lost", "released"}]
  BY LoginTypes
<1>2. \A s \in Session : server'[s] = IF s = c /\ server[s] = "running"
                                      THEN "released" ELSE server[s]
  BY <1>1 DEF CancelEnds, Release
<1>3. FormTo(pwd.status, IF pwd.session = c THEN 0 ELSE pwd.session,
             IF pwd.ref = c THEN 0 ELSE pwd.ref, pwd.closed, pwd.id)
  BY <1>1, ForgetFields DEF CancelEnds, FormTo
<1>4. QED BY <1>2, <1>3 DEF CancelEnds

\* The steps that leave the form, the poll and the sessions alone.
LEMMA QuietEffect ==
    ASSUME LoginTypeInv, \/ \E d \in Dialog : Click(d)
                         \/ QrGenerated \/ QrRefresh \/ QrAsks \/ Save
    PROVE  UNCHANGED <<modal, pwd, submit, poll, tick, server, cancels, present, crossed>>
BY DEF Click, QrGenerated, QrRefresh, QrAsks, Save

\* A dialog that opens is clean.
LEMMA OpensEffect ==
    ASSUME LoginTypeInv, NEW d \in Dialog, Opens(d)
    PROVE  /\ UNCHANGED <<pwd, submit, poll, tick, server, cancels, present, opens>>
           /\ d \in opening /\ opening' = opening \ {d}
           /\ \/ UNCHANGED <<modal, crossed>>
              \/ /\ present /\ modal' = d
                 /\ crossed' \/ modal # "password" \/ d = "password"
BY DEF Opens

\* The interval asks, the page is opened again, a login ends on the server.
LEMMA FiresEffect ==
    ASSUME LoginTypeInv, PollFires
    PROVE  /\ poll # Off /\ tick' = poll
           /\ UNCHANGED <<modal, pwd, submit, poll, server, cancels, opening, opens, present,
                          crossed>>
BY DEF PollFires

\* Coming back to the page starts with a fresh form, and nothing is asked.
LEMMA ReturnEffect ==
    ASSUME LoginTypeInv, Return
    PROVE  /\ ~present /\ submit.at = "none" /\ poll = Off /\ tick = Off /\ cancels = {}
           /\ opening = {} /\ opens' = 0 /\ FormTo("idle", 0, 0, FALSE, 0)
           /\ UNCHANGED <<modal, submit, poll, tick, server, cancels, opening, crossed>>
BY DEF Return, FormTo, Form, Fresh, NoSubmit

\* What the server does to a session changes nothing on the page.
LEMMA ServerEffect ==
    ASSUME LoginTypeInv, NEW c \in Session, ServerEnds(c)
    PROVE  /\ \A s \in Session : server'[s] # server[s] =>
                 server[s] = "running" /\ server'[s] \in {"won", "lost"}
           /\ UNCHANGED <<modal, pwd, submit, poll, tick, cancels, opening, opens, present,
                          crossed>>
<1>1. server \in [Session -> {"unknown", "running", "won", "lost", "released"}]
  BY LoginTypes
<1>2. QED BY <1>1 DEF ServerEnds

-----------------------------------------------------------------------------
(* Every step keeps every part of the invariant.                           *)

Still ==
    /\ UNCHANGED <<modal, pwd, submit, poll, tick, server, cancels, present, crossed>>
    /\ UNCHANGED <<opening, opens>> \/ \E d \in Dialog : Click(d)

\* The steps of the dialogs, by what they do to the password form.
LEMMA StepCases ==
    ASSUME LoginInv, ~crossed, LoginStep
    PROVE  \/ Shuts \/ Still \/ Leave \/ Submit \/ SubmitGoesOn \/ Created
           \/ NotCreated \/ TickGoesOn \/ TickEnds \/ Retry
           \/ (\E s \in Session : CancelEnds(s)) \/ (\E d \in Dialog : Opens(d))
           \/ PollFires \/ Return \/ \E s \in Session : ServerEnds(s)
<1>1. LoginTypeInv /\ (present \/ modal # "password")
  BY DEF LoginInv, LoginTypeInv, Bounded
<1>2. Close => Shuts
  BY <1>1, CloseEffect
<1>3. SuccessCloses => Shuts \/ Still
  BY <1>1, SuccessEffect DEF Still
<1>4. QrCloses \/ Saved \/ QrAnswer => Shuts \/ Still
  BY <1>1, LateEffect DEF Still
<1>5. (\E d \in Dialog : Click(d)) => Still
  BY <1>1, QuietEffect DEF Still
<1>6. QrGenerated \/ QrRefresh \/ QrAsks \/ Save => Still
  <2>1. QrGenerated \/ QrRefresh \/ QrAsks \/ Save => UNCHANGED <<opening, opens>>
    BY DEF QrGenerated, QrRefresh, QrAsks, Save
  <2>2. QED BY <1>1, <2>1, QuietEffect DEF Still
<1>7. QED BY <1>2, <1>3, <1>4, <1>5, <1>6 DEF LoginStep

\* Sessions the page knows of are known to the server.
LEMMA StepKnown ==
    ASSUME LoginInv, ~crossed, LoginStep
    PROVE  Known'
<1>1. LoginTypeInv /\ FormRanges
  BY LoginFields DEF LoginInv
<1>2. CASE Shuts
  BY <1>1, <1>2 DEF FormRanges, Shuts, GivesUp, Closes, FormTo, LoginInv, Known, Created1, Off,
     NoSubmit, NoAbandonedSession
<1>3. CASE Still
  BY <1>1, <1>3 DEF FormRanges, Still, LoginInv, Known, Created1, Off, NoSubmit,
     NoAbandonedSession
<1>4. CASE Leave
  <2>1. /\ ~present' /\ modal' = "none" /\ poll' = Off /\ present
        /\ UNCHANGED <<submit, tick, server, opening, opens, crossed>>
        /\ \/ /\ pwd.ref # 0 /\ FormTo(pwd.status, pwd.session, pwd.ref, TRUE, pwd.id + 1)
              /\ cancels' = cancels \cup {pwd.ref}
           \/ pwd.ref = 0 /\ UNCHANGED <<pwd, cancels>>
    BY <1>1, <1>4, LeaveEffect
  <2>2. CASE pwd.ref = 0
    BY <1>1, <2>1, <2>2 DEF FormRanges, LoginInv, Known, Created1, Off, NoSubmit,
       NoAbandonedSession
  <2>3. CASE pwd.ref # 0
    BY <1>1, <2>1, <2>3 DEF FormRanges, FormTo, LoginInv, Known, Created1, Off, NoSubmit,
       NoAbandonedSession
  <2>4. QED BY <2>2, <2>3
<1>5. CASE Submit
  BY <1>1, <1>5, SubmitEffect DEF FormRanges, FormTo, LoginInv, Known, Created1, Off, NoSubmit,
     NoAbandonedSession
<1>6. CASE SubmitGoesOn
  BY <1>1, <1>6, GoesOnEffect DEF FormRanges, FormTo, LoginInv, Known, Created1, Off, NoSubmit,
     NoAbandonedSession
<1>7. CASE Created
  BY <1>1, <1>7, CreatedEffect DEF FormRanges, FormTo, LoginInv, Known, Created1, Off,
     NoSubmit, NoAbandonedSession
<1>8. CASE NotCreated \/ TickGoesOn \/ TickEnds \/ Retry
  BY <1>1, <1>8, StatusEffect DEF FormRanges, FormTo, Outdated, LoginInv, Known, Created1, Off,
     NoSubmit, NoAbandonedSession
<1>9. ASSUME NEW s \in Session, CancelEnds(s) PROVE Known'
  BY <1>1, <1>9, CancelEndsEffect DEF FormRanges, FormTo, LoginInv, Known, Created1, Off,
     NoSubmit, NoAbandonedSession
<1>10. ASSUME NEW d \in Dialog, Opens(d) PROVE Known'
  BY <1>1, <1>10, OpensEffect DEF FormRanges, LoginInv, Known, Created1, Off, NoSubmit,
     NoAbandonedSession
<1>11. CASE PollFires
  BY <1>1, <1>11, FiresEffect DEF FormRanges, LoginInv, Known, Created1, Off, NoSubmit,
     NoAbandonedSession
<1>12. CASE Return
  BY <1>1, <1>12, ReturnEffect DEF FormRanges, FormTo, LoginInv, Known, Created1, Off,
     NoSubmit, NoAbandonedSession
<1>13. ASSUME NEW s \in Session, ServerEnds(s) PROVE Known'
  BY <1>1, <1>13, ServerEffect DEF FormRanges, LoginInv, Known, Created1, Off, NoSubmit,
     NoAbandonedSession
<1>14. QED BY StepCases, <1>2, <1>3, <1>4, <1>5, <1>6, <1>7, <1>8, <1>9, <1>10, <1>11, <1>12, <1>13

\* One attempt at a time.
LEMMA StepOneAttempt ==
    ASSUME LoginInv, ~crossed, LoginStep
    PROVE  OneAttempt'
<1>1. LoginTypeInv /\ FormRanges
  BY LoginFields DEF LoginInv
<1>2. CASE Shuts
  BY <1>1, <1>2 DEF FormRanges, Shuts, GivesUp, Closes, FormTo, LoginInv, OneAttempt, Off,
     NoSubmit, IsCurrent, PollIsShown
<1>3. CASE Still
  BY <1>1, <1>3 DEF FormRanges, Still, LoginInv, OneAttempt, Off, NoSubmit, IsCurrent,
     PollIsShown
<1>4. CASE Leave
  <2>1. /\ ~present' /\ modal' = "none" /\ poll' = Off /\ present
        /\ UNCHANGED <<submit, tick, server, opening, opens, crossed>>
        /\ \/ /\ pwd.ref # 0 /\ FormTo(pwd.status, pwd.session, pwd.ref, TRUE, pwd.id + 1)
              /\ cancels' = cancels \cup {pwd.ref}
           \/ pwd.ref = 0 /\ UNCHANGED <<pwd, cancels>>
    BY <1>1, <1>4, LeaveEffect
  <2>2. CASE pwd.ref = 0
    BY <1>1, <2>1, <2>2 DEF FormRanges, LoginInv, OneAttempt, Off, NoSubmit, IsCurrent,
       PollIsShown
  <2>3. CASE pwd.ref # 0
    BY <1>1, <2>1, <2>3 DEF FormRanges, FormTo, LoginInv, OneAttempt, Off, NoSubmit, IsCurrent,
       PollIsShown
  <2>4. QED BY <2>2, <2>3
<1>5. CASE Submit
  BY <1>1, <1>5, SubmitEffect DEF FormRanges, FormTo, LoginInv, OneAttempt, Off, NoSubmit,
     IsCurrent, PollIsShown
<1>6. CASE SubmitGoesOn
  BY <1>1, <1>6, GoesOnEffect DEF FormRanges, FormTo, LoginInv, OneAttempt, Off, NoSubmit,
     IsCurrent, PollIsShown
<1>7. CASE Created
  BY <1>1, <1>7, CreatedEffect DEF FormRanges, FormTo, LoginInv, OneAttempt, Off, NoSubmit,
     IsCurrent, PollIsShown
<1>8. CASE NotCreated \/ TickGoesOn \/ TickEnds \/ Retry
  BY <1>1, <1>8, StatusEffect DEF FormRanges, FormTo, Outdated, LoginInv, OneAttempt, Off,
     NoSubmit, IsCurrent, PollIsShown
<1>9. ASSUME NEW s \in Session, CancelEnds(s) PROVE OneAttempt'
  BY <1>1, <1>9, CancelEndsEffect DEF FormRanges, FormTo, LoginInv, OneAttempt, Off, NoSubmit,
     IsCurrent, PollIsShown
<1>10. ASSUME NEW d \in Dialog, Opens(d) PROVE OneAttempt'
  BY <1>1, <1>10, OpensEffect DEF FormRanges, LoginInv, OneAttempt, Off, NoSubmit, IsCurrent,
     PollIsShown
<1>11. CASE PollFires
  BY <1>1, <1>11, FiresEffect DEF FormRanges, LoginInv, OneAttempt, Off, NoSubmit, IsCurrent,
     PollIsShown
<1>12. CASE Return
  BY <1>1, <1>12, ReturnEffect DEF FormRanges, FormTo, LoginInv, OneAttempt, Off, NoSubmit,
     IsCurrent, PollIsShown
<1>13. ASSUME NEW s \in Session, ServerEnds(s) PROVE OneAttempt'
  BY <1>1, <1>13, ServerEffect DEF FormRanges, LoginInv, OneAttempt, Off, NoSubmit, IsCurrent,
     PollIsShown
<1>14. QED BY StepCases, <1>2, <1>3, <1>4, <1>5, <1>6, <1>7, <1>8, <1>9, <1>10, <1>11, <1>12, <1>13

\* The attempt that is being sent stays on the screen, or is not the current one any more.
LEMMA StepSubmit ==
    ASSUME LoginInv, ~crossed, LoginStep
    PROVE  SubmitIsShown'
<1>1. LoginTypeInv /\ FormRanges
  BY LoginFields DEF LoginInv
<1>2. CASE Shuts
  BY <1>1, <1>2 DEF FormRanges, Shuts, GivesUp, Closes, FormTo, LoginInv, OneAttempt,
     Submitting, IsCurrent, SubmitIsShown, Off, NoSubmit, PollIsShown, Bounded, LoginTypeInv
<1>3. CASE Still
  BY <1>1, <1>3 DEF FormRanges, Still, LoginInv, OneAttempt, Submitting, IsCurrent,
     SubmitIsShown, Off, NoSubmit, PollIsShown, Bounded, LoginTypeInv
<1>4. CASE Leave
  BY <1>1, <1>4, LeaveEffect DEF FormRanges, FormTo, LoginInv, OneAttempt, Submitting,
     IsCurrent, SubmitIsShown, Off, NoSubmit, PollIsShown, Bounded, LoginTypeInv
<1>5. CASE Submit
  <2>1. /\ pwd'.status = "processing" /\ modal' = "password"
        /\ pwd'.id = pwd.id + 1 /\ tick' = tick
    BY <1>1, <1>5, SubmitEffect DEF FormRanges, FormTo
  <2>2. tick # Off => tick.id <= pwd.id
    BY DEF LoginInv, OneAttempt
  <2>3. tick' # Off => tick'.id # pwd'.id
    BY <1>1, <2>1, <2>2 DEF FormRanges
  <2>4. QED BY <2>1, <2>3 DEF SubmitIsShown
<1>6. CASE SubmitGoesOn
  BY <1>1, <1>6, GoesOnEffect DEF FormRanges, FormTo, LoginInv, OneAttempt, Submitting,
     IsCurrent, SubmitIsShown, Off, NoSubmit, PollIsShown, Bounded, LoginTypeInv
<1>7. CASE Created
  BY <1>1, <1>7, CreatedEffect DEF FormRanges, FormTo, LoginInv, OneAttempt, Submitting,
     IsCurrent, SubmitIsShown, Off, NoSubmit, PollIsShown, Bounded, LoginTypeInv
<1>8. CASE NotCreated \/ TickGoesOn \/ TickEnds \/ Retry
  BY <1>1, <1>8, StatusEffect DEF FormRanges, FormTo, Outdated, LoginInv, OneAttempt,
     Submitting, IsCurrent, SubmitIsShown, Off, NoSubmit, PollIsShown, Bounded, LoginTypeInv
<1>9. ASSUME NEW s \in Session, CancelEnds(s) PROVE SubmitIsShown'
  BY <1>1, <1>9, CancelEndsEffect DEF FormRanges, FormTo, LoginInv, OneAttempt, Submitting,
     IsCurrent, SubmitIsShown, Off, NoSubmit, PollIsShown, Bounded, LoginTypeInv
<1>10. ASSUME NEW d \in Dialog, Opens(d) PROVE SubmitIsShown'
  BY <1>1, <1>10, OpensEffect DEF FormRanges, LoginInv, OneAttempt, Submitting, IsCurrent,
     SubmitIsShown, Off, NoSubmit, PollIsShown, Bounded, LoginTypeInv
<1>11. CASE PollFires
  BY <1>1, <1>11, FiresEffect DEF FormRanges, LoginInv, OneAttempt, Submitting, IsCurrent,
     SubmitIsShown, Off, NoSubmit, PollIsShown, Bounded, LoginTypeInv
<1>12. CASE Return
  BY <1>1, <1>12, ReturnEffect DEF FormRanges, FormTo, LoginInv, OneAttempt, Submitting,
     IsCurrent, SubmitIsShown, Off, NoSubmit, PollIsShown, Bounded, LoginTypeInv
<1>13. ASSUME NEW s \in Session, ServerEnds(s) PROVE SubmitIsShown'
  BY <1>1, <1>13, ServerEffect DEF FormRanges, LoginInv, OneAttempt, Submitting, IsCurrent,
     SubmitIsShown, Off, NoSubmit, PollIsShown, Bounded, LoginTypeInv
<1>14. QED BY StepCases, <1>2, <1>3, <1>4, <1>5, <1>6, <1>7, <1>8, <1>9, <1>10, <1>11, <1>12, <1>13

\* So does the one that is polled.
LEMMA StepPoll ==
    ASSUME LoginInv, ~crossed, LoginStep
    PROVE  PollIsShown'
<1>1. LoginTypeInv /\ FormRanges
  BY LoginFields DEF LoginInv
<1>2. CASE Shuts
  BY <1>1, <1>2 DEF FormRanges, Shuts, GivesUp, Closes, FormTo, LoginInv, OneAttempt,
     Submitting, IsCurrent, SubmitIsShown, Off, NoSubmit, PollIsShown, Known, Created1
<1>3. CASE Still
  BY <1>1, <1>3 DEF FormRanges, Still, LoginInv, OneAttempt, Submitting, IsCurrent,
     SubmitIsShown, Off, NoSubmit, PollIsShown, Known, Created1
<1>4. CASE Leave
  BY <1>1, <1>4, LeaveEffect DEF FormRanges, FormTo, LoginInv, OneAttempt, Submitting,
     IsCurrent, SubmitIsShown, Off, NoSubmit, PollIsShown, Known, Created1
<1>5. CASE Submit
  BY <1>1, <1>5, SubmitEffect DEF FormRanges, FormTo, LoginInv, OneAttempt, Submitting,
     IsCurrent, SubmitIsShown, Off, NoSubmit, PollIsShown, Known, Created1
<1>6. CASE SubmitGoesOn
  BY <1>1, <1>6, GoesOnEffect DEF FormRanges, FormTo, LoginInv, OneAttempt, Submitting,
     IsCurrent, SubmitIsShown, Off, NoSubmit, PollIsShown, Known, Created1
<1>7. CASE Created
  BY <1>1, <1>7, CreatedEffect DEF FormRanges, FormTo, LoginInv, OneAttempt, Submitting,
     IsCurrent, SubmitIsShown, Off, NoSubmit, PollIsShown, Known, Created1
<1>8. CASE NotCreated \/ TickGoesOn \/ TickEnds \/ Retry
  BY <1>1, <1>8, StatusEffect DEF FormRanges, FormTo, Outdated, LoginInv, OneAttempt,
     Submitting, IsCurrent, SubmitIsShown, Off, NoSubmit, PollIsShown, Known, Created1
<1>9. ASSUME NEW s \in Session, CancelEnds(s) PROVE PollIsShown'
  BY <1>1, <1>9, CancelEndsEffect DEF FormRanges, FormTo, LoginInv, OneAttempt, Submitting,
     IsCurrent, SubmitIsShown, Off, NoSubmit, PollIsShown, Known, Created1
<1>10. ASSUME NEW d \in Dialog, Opens(d) PROVE PollIsShown'
  BY <1>1, <1>10, OpensEffect DEF FormRanges, LoginInv, OneAttempt, Submitting, IsCurrent,
     SubmitIsShown, Off, NoSubmit, PollIsShown, Known, Created1
<1>11. CASE PollFires
  BY <1>1, <1>11, FiresEffect DEF FormRanges, LoginInv, OneAttempt, Submitting, IsCurrent,
     SubmitIsShown, Off, NoSubmit, PollIsShown, Known, Created1
<1>12. CASE Return
  BY <1>1, <1>12, ReturnEffect DEF FormRanges, FormTo, LoginInv, OneAttempt, Submitting,
     IsCurrent, SubmitIsShown, Off, NoSubmit, PollIsShown, Known, Created1
<1>13. ASSUME NEW s \in Session, ServerEnds(s) PROVE PollIsShown'
  BY <1>1, <1>13, ServerEffect DEF FormRanges, LoginInv, OneAttempt, Submitting, IsCurrent,
     SubmitIsShown, Off, NoSubmit, PollIsShown, Known, Created1
<1>14. QED BY StepCases, <1>2, <1>3, <1>4, <1>5, <1>6, <1>7, <1>8, <1>9, <1>10, <1>11, <1>12, <1>13

\* No session is forgotten.
LEMMA StepAbandon ==
    ASSUME LoginInv, ~crossed, LoginStep
    PROVE  NoAbandonedSession'
<1>1. LoginTypeInv /\ FormRanges
  BY LoginFields DEF LoginInv
<1>2. CASE Shuts
  BY <1>1, <1>2 DEF FormRanges, Shuts, GivesUp, Closes, FormTo, LoginInv, OneAttempt, Off,
     NoSubmit, PollIsShown, NoAbandonedSession
<1>3. CASE Still
  BY <1>1, <1>3 DEF FormRanges, Still, LoginInv, OneAttempt, Off, NoSubmit, PollIsShown,
     NoAbandonedSession
<1>4. CASE Leave
  <2>1. /\ ~present' /\ modal' = "none" /\ poll' = Off /\ present
        /\ UNCHANGED <<submit, tick, server, opening, opens, crossed>>
        /\ \/ /\ pwd.ref # 0 /\ FormTo(pwd.status, pwd.session, pwd.ref, TRUE, pwd.id + 1)
              /\ cancels' = cancels \cup {pwd.ref}
           \/ pwd.ref = 0 /\ UNCHANGED <<pwd, cancels>>
    BY <1>1, <1>4, LeaveEffect
  <2>2. CASE pwd.ref = 0
    BY <1>1, <2>1, <2>2 DEF FormRanges, LoginInv, OneAttempt, Off, NoSubmit, PollIsShown,
       NoAbandonedSession
  <2>3. CASE pwd.ref # 0
    BY <1>1, <2>1, <2>3 DEF FormRanges, FormTo, LoginInv, OneAttempt, Off, NoSubmit,
       PollIsShown, NoAbandonedSession
  <2>4. QED BY <2>2, <2>3
<1>5. CASE Submit
  BY <1>1, <1>5, SubmitEffect DEF FormRanges, FormTo, LoginInv, OneAttempt, Off, NoSubmit,
     PollIsShown, NoAbandonedSession
<1>6. CASE SubmitGoesOn
  BY <1>1, <1>6, GoesOnEffect DEF FormRanges, FormTo, LoginInv, OneAttempt, Off, NoSubmit,
     PollIsShown, NoAbandonedSession
<1>7. CASE Created
  BY <1>1, <1>7, CreatedEffect DEF FormRanges, FormTo, LoginInv, OneAttempt, Off, NoSubmit,
     PollIsShown, NoAbandonedSession
<1>8. CASE NotCreated \/ TickGoesOn \/ TickEnds \/ Retry
  BY <1>1, <1>8, StatusEffect DEF FormRanges, FormTo, Outdated, LoginInv, OneAttempt, Off,
     NoSubmit, PollIsShown, NoAbandonedSession
<1>9. ASSUME NEW s \in Session, CancelEnds(s) PROVE NoAbandonedSession'
  BY <1>1, <1>9, CancelEndsEffect DEF FormRanges, FormTo, LoginInv, OneAttempt, Off, NoSubmit,
     PollIsShown, NoAbandonedSession
<1>10. ASSUME NEW d \in Dialog, Opens(d) PROVE NoAbandonedSession'
  BY <1>1, <1>10, OpensEffect DEF FormRanges, LoginInv, OneAttempt, Off, NoSubmit, PollIsShown,
     NoAbandonedSession
<1>11. CASE PollFires
  BY <1>1, <1>11, FiresEffect DEF FormRanges, LoginInv, OneAttempt, Off, NoSubmit, PollIsShown,
     NoAbandonedSession
<1>12. CASE Return
  BY <1>1, <1>12, ReturnEffect DEF FormRanges, FormTo, LoginInv, OneAttempt, Off, NoSubmit,
     PollIsShown, NoAbandonedSession
<1>13. ASSUME NEW s \in Session, ServerEnds(s) PROVE NoAbandonedSession'
  BY <1>1, <1>13, ServerEffect DEF FormRanges, LoginInv, OneAttempt, Off, NoSubmit,
     PollIsShown, NoAbandonedSession
<1>14. QED BY StepCases, <1>2, <1>3, <1>4, <1>5, <1>6, <1>7, <1>8, <1>9, <1>10, <1>11, <1>12, <1>13

\* The request ids are bounded.
LEMMA StepBounded ==
    ASSUME LoginInv, ~crossed, LoginStep
    PROVE  Bounded'
<1>1. LoginTypeInv /\ FormRanges
  BY LoginFields DEF LoginInv
<1>2. CASE Shuts
  BY <1>1, <1>2 DEF FormRanges, Shuts, GivesUp, Closes, FormTo, LoginInv, LoginTypeInv,
     Bounded, Open1, Asked1, Dialog
<1>3. CASE Still
  <2>1. UNCHANGED <<modal, pwd, present>>
    BY <1>3 DEF Still
  <2>2. CASE UNCHANGED <<opening, opens>>
    BY <2>1, <2>2 DEF LoginInv, LoginTypeInv, Bounded, Open1, Asked1
  <2>3. ASSUME NEW d \in Dialog, Click(d) PROVE Bounded'
    <3>1. /\ present /\ modal = "none" /\ d \notin opening
          /\ opening' = opening \cup {d} /\ opens' = opens + 1
      BY <2>3 DEF Click
    <3>2. Open1 = 0 /\ Open1' = 0 /\ Asked1 \in {0, 1} /\ Asked1' \in {0, 1} /\ Asked1' <= Asked1 + 1
      BY <2>1, <3>1 DEF Open1, Asked1
    <3>3. Open1 + Asked1 <= opens /\ pwd.id + Open1 + Asked1 <= MaxRequests + opens
      BY <3>1 DEF LoginInv, LoginTypeInv, Bounded
    <3>4. opens' = opens + 1 /\ opens \in Nat /\ pwd.id \in Nat /\ MaxRequests \in Nat /\ pwd'.id = pwd.id
      BY <1>1, <2>1, <3>1 DEF FormRanges
    <3>5. /\ Asked1 <= opens /\ pwd.id + Asked1 <= MaxRequests + opens
          /\ Asked1 \in Nat /\ Asked1' \in Nat
      BY <3>2, <3>3, <3>4
    <3>6. Asked1' <= opens' /\ pwd'.id + Asked1' <= MaxRequests + opens'
      BY <3>2, <3>4, <3>5
    <3>7. Open1' + Asked1' <= opens' /\ pwd'.id + Open1' + Asked1' <= MaxRequests + opens'
      <4>1. Open1' = 0 /\ pwd'.id \in Nat
        BY <3>2, <3>4
      <4>2. ASSUME NEW x \in Nat, NEW y \in Nat, NEW z, z = 0
            PROVE  z + x = x /\ y + z + x = y + x
        BY <4>2
      <4>3. Open1' + Asked1' = Asked1' /\ pwd'.id + Open1' + Asked1' = pwd'.id + Asked1'
        BY <4>1, <4>2, <3>5
      <4>4. QED BY <3>6, <4>3
    <3>8. QED BY <2>1, <3>1, <3>7 DEF Bounded
  <2>4. QED BY <1>3, <2>2, <2>3 DEF Still
<1>4. CASE Leave
  <2>1. /\ ~present' /\ modal' = "none" /\ present /\ opens' = opens
        /\ pwd'.id = pwd.id \/ pwd'.id = pwd.id + 1
    BY <1>1, <1>4, LeaveEffect DEF FormRanges, FormTo
  <2>2. Open1 \in {0, 1} /\ Asked1 \in {0, 1} /\ pwd.id + Open1 + Asked1 <= MaxRequests + opens
    BY <2>1 DEF LoginInv, LoginTypeInv, Bounded, Open1, Asked1
  <2>3. pwd'.id <= MaxRequests + opens' + 1
    BY <1>1, <2>1, <2>2 DEF FormRanges
  <2>4. QED BY <2>1, <2>3 DEF Bounded
<1>5. CASE Submit
  <2>1. /\ present /\ modal = "password" /\ pwd.id < MaxRequests /\ pwd'.id = pwd.id + 1
        /\ UNCHANGED <<modal, opening, opens, present>>
    BY <1>1, <1>5, SubmitEffect DEF FormRanges, FormTo
  <2>2. Open1' = Open1 /\ Asked1' = Asked1 /\ Open1 \in {0, 1} /\ Asked1 \in {0, 1}
        /\ Open1 + Asked1 <= opens
    BY <2>1 DEF LoginInv, LoginTypeInv, Bounded, Open1, Asked1
  <2>3. Open1' + Asked1' <= opens' /\ pwd'.id + Open1' + Asked1' <= MaxRequests + opens'
    BY <1>1, <2>1, <2>2 DEF FormRanges
  <2>4. QED BY <2>1, <2>3 DEF Bounded
<1>6. CASE SubmitGoesOn
  BY <1>1, <1>6, GoesOnEffect DEF FormRanges, FormTo, LoginInv, LoginTypeInv, Bounded, Open1,
     Asked1, Dialog
<1>7. CASE Created
  BY <1>1, <1>7, CreatedEffect DEF FormRanges, FormTo, LoginInv, LoginTypeInv, Bounded, Open1,
     Asked1, Dialog
<1>8. CASE NotCreated \/ TickGoesOn \/ TickEnds \/ Retry
  BY <1>1, <1>8, StatusEffect DEF FormRanges, FormTo, Outdated, LoginInv, LoginTypeInv,
     Bounded, Open1, Asked1, Dialog
<1>9. ASSUME NEW s \in Session, CancelEnds(s) PROVE Bounded'
  BY <1>1, <1>9, CancelEndsEffect DEF FormRanges, FormTo, LoginInv, LoginTypeInv, Bounded,
     Open1, Asked1, Dialog
<1>10. ASSUME NEW d \in Dialog, Opens(d) PROVE Bounded'
  BY <1>1, <1>10, OpensEffect DEF FormRanges, LoginInv, LoginTypeInv, Bounded, Open1, Asked1,
     Dialog
<1>11. CASE PollFires
  BY <1>1, <1>11, FiresEffect DEF FormRanges, LoginInv, LoginTypeInv, Bounded, Open1, Asked1,
     Dialog
<1>12. CASE Return
  <2>1. /\ ~present /\ opening' = {} /\ opens' = 0 /\ pwd'.id = 0 /\ modal' = modal
    BY <1>1, <1>12, ReturnEffect DEF FormRanges, FormTo
  <2>2. modal = "none"
    BY <2>1 DEF LoginInv, LoginTypeInv, Bounded
  <2>3. Open1' = 0 /\ Asked1' = 0
    BY <2>1, <2>2 DEF Open1, Asked1
  <2>4. /\ Open1' + Asked1' <= opens' /\ pwd'.id + Open1' + Asked1' <= MaxRequests + opens'
        /\ pwd'.id <= MaxRequests + opens' + 1
    BY <1>1, <2>1, <2>3 DEF FormRanges
  <2>5. QED BY <2>1, <2>2, <2>4 DEF Bounded
<1>13. ASSUME NEW s \in Session, ServerEnds(s) PROVE Bounded'
  BY <1>1, <1>13, ServerEffect DEF FormRanges, LoginInv, LoginTypeInv, Bounded, Open1, Asked1,
     Dialog
<1>14. QED BY StepCases, <1>2, <1>3, <1>4, <1>5, <1>6, <1>7, <1>8, <1>9, <1>10, <1>11, <1>12, <1>13

-----------------------------------------------------------------------------
(* The type of the state, and the theorems about the dialogs.              *)

\* The form stays a form: every step either leaves it or sets its fields.
LEMMA StepForm ==
    ASSUME LoginInv, ~crossed, LoginStep
    PROVE  pwd' \in Form
<1>1. LoginTypeInv /\ pwd \in Form
  BY LoginTypes DEF LoginInv
<1>2. CASE Shuts \/ Still \/ Leave \/ Submit
  BY <1>1, <1>2, LeaveEffect, SubmitEffect DEF Shuts, GivesUp, Closes, Still, FormTo
<1>3. CASE SubmitGoesOn \/ Created
  BY <1>1, <1>3, GoesOnEffect, CreatedEffect DEF FormTo
<1>4. CASE NotCreated \/ TickGoesOn \/ TickEnds \/ Retry
  BY <1>1, <1>4, StatusEffect DEF FormTo
<1>5. CASE PollFires \/ Return
  BY <1>1, <1>5, FiresEffect, ReturnEffect DEF FormTo
<1>6. ASSUME NEW s \in Session, CancelEnds(s) \/ ServerEnds(s) PROVE pwd' \in Form
  BY <1>1, <1>6, CancelEndsEffect, ServerEffect DEF FormTo
<1>7. ASSUME NEW d \in Dialog, Opens(d) PROVE pwd' \in Form
  BY <1>1, <1>7, OpensEffect
<1>8. QED BY StepCases, <1>2, <1>3, <1>4, <1>5, <1>6, <1>7

\* The rest of the state: requests, timers, the QR dialog and the sessions.
Requests ==
    /\ submit \in SubmitType /\ {poll, tick} \subseteq PollType
    /\ timer \in RequestId
    /\ server \in [Session -> {"unknown", "running", "won", "lost", "released"}]
    /\ cancels \subseteq Session
Dialogs ==
    /\ modal \in Dialog \cup {"none"}
    /\ qr \in QrType
    /\ closers \in 0 .. MaxLate
    /\ saving \in BOOLEAN
    /\ opening \subseteq Dialog
    /\ opens \in 0 .. MaxOpens
    /\ present \in BOOLEAN /\ crossed \in BOOLEAN

\* Every step keeps the requests in their ranges.
LEMMA StepRequests ==
    ASSUME LoginInv, ~crossed, LoginStep
    PROVE  Requests'
<1>1. /\ LoginTypeInv /\ FormRanges /\ Requests
      /\ pwd.id \in RequestId /\ 0 \in RequestId /\ NoSubmit \in SubmitType /\ Off \in PollType
  BY LoginTypes, LoginFields
  DEF LoginInv, LoginTypeInv, LoginTypeOK, Requests, FormRanges, RequestId, NoSubmit, Off,
      SubmitType, PollType
<1>2. CASE Close \/ Leave \/ Return
  BY <1>1, <1>2 DEF FormRanges, Requests, Close, Cleared, Leave, Return
<1>3. CASE \E d \in Dialog : Click(d) \/ Opens(d)
  BY <1>1, <1>3 DEF FormRanges, Requests, Click, Opens
<1>4. CASE Submit
  BY <1>1, <1>4, SubmitEffect DEF FormRanges, Requests, Submit
<1>5. CASE SubmitGoesOn
  BY <1>1, <1>5, GoesOnEffect DEF FormRanges, Requests, SubmitGoesOn, Release
<1>6. CASE Created
  <2>1. submit' \in SubmitType
    BY <1>1, <1>6, CreatedEffect
  <2>2. PICK s \in Session :
          /\ server' = [server EXCEPT ![s] = "running"]
          /\ poll' = poll \/ poll' = [session |-> s, id |-> pwd.id]
    BY <1>6 DEF Created
  <2>3. {poll', tick'} \subseteq PollType
    BY <1>1, <1>6, <2>2 DEF Requests, Created, PollType
  <2>4. server' \in [Session -> {"unknown", "running", "won", "lost", "released"}]
    BY <1>1, <2>2 DEF Requests
  <2>5. timer' \in RequestId /\ cancels' \subseteq Session
    BY <1>1, <1>6 DEF Requests, Created
  <2>6. QED BY <2>1, <2>3, <2>4, <2>5 DEF Requests
<1>7. CASE NotCreated \/ PollFires \/ TickGoesOn
  BY <1>1, <1>7 DEF FormRanges, Requests, NotCreated, PollFires, TickGoesOn
<1>8. CASE TickEnds \/ SuccessCloses \/ Retry
  BY <1>1, <1>8 DEF FormRanges, Requests, TickEnds, SuccessCloses, Cleared, Retry
<1>9. CASE \E s \in Session : CancelEnds(s) \/ ServerEnds(s)
  BY <1>1, <1>9 DEF FormRanges, Requests, CancelEnds, ServerEnds, Release
<1>10. CASE QrGenerated \/ QrRefresh \/ QrAsks \/ QrAnswer \/ QrCloses \/ Save \/ Saved
  BY <1>1, <1>10 DEF FormRanges, Requests, QrGenerated, QrRefresh, QrAsks, QrAnswer, QrCloses,
     CloseLate, Cleared, Save, Saved
<1>11. QED BY <1>2, <1>3, <1>4, <1>5, <1>6, <1>7, <1>8, <1>9, <1>10 DEF LoginStep

\* What the steps do to the QR dialog.
LEMMA QrFields ==
    ASSUME NEW q \in QrType, NEW a \in BOOLEAN, NEW b \in BOOLEAN, NEW c \in BOOLEAN,
           NEW st \in {"waiting", "success", "failed"}
    PROVE  /\ [q EXCEPT !.polling = a] \in QrType
           /\ [q EXCEPT !.asked = a] \in QrType
           /\ [q EXCEPT !.polling = a, !.status = st] \in QrType
           /\ [q EXCEPT !.status = st, !.generating = a] \in QrType
           /\ [q EXCEPT !.status = st, !.generating = a, !.polling = b] \in QrType
           /\ [q EXCEPT !.asked = a, !.polling = b, !.status = st] \in QrType
           /\ [q EXCEPT !.generating = a, !.polling = b, !.status = st] \in QrType
           /\ q.status \in {"waiting", "success", "failed"} /\ q.polling \in BOOLEAN
BY DEF QrType

\* Every step keeps the QR dialog's types.
LEMMA StepQr ==
    ASSUME LoginInv, ~crossed, LoginStep
    PROVE  qr' \in QrType
<1>1. qr \in QrType /\ QrOff \in QrType
  BY LoginTypes DEF LoginInv, QrOff, QrType
<1>2. CASE Close \/ Leave \/ Return
  <2>1. [qr EXCEPT !.polling = FALSE, !.status = "waiting"] \in QrType
        /\ [qr EXCEPT !.polling = FALSE] \in QrType
    BY <1>1, QrFields
  <2>2. QED BY <1>1, <1>2, <2>1 DEF Close, Cleared, Leave, Return
<1>3. CASE \E d \in Dialog : Click(d) \/ Opens(d)
  BY <1>1, <1>3, QrFields DEF Click, Opens
<1>4. CASE Submit \/ SubmitGoesOn \/ Created \/ NotCreated
  BY <1>1, <1>4 DEF Submit, SubmitGoesOn, Created, NotCreated
<1>5. CASE PollFires \/ TickGoesOn \/ TickEnds \/ Retry
  BY <1>1, <1>5 DEF PollFires, TickGoesOn, TickEnds, Retry
<1>6. CASE SuccessCloses
  BY <1>1, <1>6, QrFields DEF SuccessCloses, Cleared
<1>7. CASE \E s \in Session : CancelEnds(s) \/ ServerEnds(s)
  BY <1>1, <1>7 DEF CancelEnds, ServerEnds
<1>8. CASE QrGenerated
  <2>1. PICK ok \in BOOLEAN :
          qr' = [qr EXCEPT !.generating = FALSE, !.polling = @ \/ ok,
                           !.status = IF ok THEN @ ELSE "failed"]
    BY <1>8 DEF QrGenerated
  <2>2. qr' = [qr EXCEPT !.generating = FALSE, !.polling = qr.polling \/ ok,
                         !.status = IF ok THEN qr.status ELSE "failed"]
    BY <2>1
  <2>3. (qr.polling \/ ok) \in BOOLEAN
        /\ (IF ok THEN qr.status ELSE "failed") \in {"waiting", "success", "failed"}
    BY <1>1, QrFields
  <2>4. QED BY <1>1, <2>2, <2>3, QrFields
<1>9. CASE QrRefresh \/ QrAsks \/ QrAnswer
  <2>1. /\ [qr EXCEPT !.status = "waiting", !.generating = TRUE, !.polling = FALSE] \in QrType
        /\ [qr EXCEPT !.asked = TRUE] \in QrType /\ [qr EXCEPT !.asked = FALSE] \in QrType
        /\ \A st \in {"waiting", "success", "failed"} :
              [qr EXCEPT !.asked = FALSE, !.polling = FALSE, !.status = st] \in QrType
    BY <1>1, QrFields
  <2>2. QED BY <1>9, <2>1 DEF QrRefresh, QrAsks, QrAnswer
<1>10. CASE QrCloses \/ Save \/ Saved
  BY <1>1, <1>10, QrFields DEF QrCloses, CloseLate, Cleared, Save, Saved
<1>11. QED BY <1>2, <1>3, <1>4, <1>5, <1>6, <1>7, <1>8, <1>9, <1>10 DEF LoginStep

\* Every step keeps the dialogs' types.
LEMMA StepDialogs ==
    ASSUME LoginInv, ~crossed, LoginStep
    PROVE  Dialogs'
<1>1. Dialogs /\ MaxLate \in Nat /\ MaxOpens \in Nat
  BY LoginTypes DEF LoginInv, LoginTypeInv, LoginTypeOK, Dialogs
<1>2. qr' \in QrType
  BY StepQr
<1>3. CASE Close \/ Leave \/ Return
  <2>1. CASE Close
    BY <1>1, <1>2, <2>1 DEF Dialogs, Close, Cleared
  <2>2. CASE Leave
    BY <1>1, <1>2, <2>2 DEF Dialogs, Leave
  <2>3. CASE Return
    <3>1. 0 \in 0 .. MaxOpens
      BY <1>1
    <3>2. QED BY <1>1, <1>2, <2>3, <3>1 DEF Dialogs, Return
  <2>4. QED BY <1>3, <2>1, <2>2, <2>3
<1>4. CASE \E d \in Dialog : Click(d) \/ Opens(d)
  BY <1>1, <1>2, <1>4 DEF Dialogs, Dialog, Click, Opens
<1>5. CASE Submit \/ SubmitGoesOn \/ Created \/ NotCreated
  BY <1>1, <1>2, <1>5 DEF Dialogs, Submit, SubmitGoesOn, Created, NotCreated
<1>6. CASE PollFires \/ TickGoesOn \/ TickEnds \/ SuccessCloses \/ Retry
  BY <1>1, <1>2, <1>6 DEF Dialogs, PollFires, TickGoesOn, TickEnds, SuccessCloses, Cleared,
     Retry
<1>7. CASE \E s \in Session : CancelEnds(s) \/ ServerEnds(s)
  BY <1>1, <1>2, <1>7 DEF Dialogs, CancelEnds, ServerEnds
<1>8. CASE QrGenerated \/ QrRefresh \/ QrAsks
  BY <1>1, <1>2, <1>8 DEF Dialogs, QrGenerated, QrRefresh, QrAsks
<1>9. CASE QrAnswer
  <2>1. closers' \in 0 .. MaxLate
    BY <1>1, <1>9 DEF Dialogs, QrAnswer
  <2>2. modal' \in Dialog \cup {"none"} /\ crossed' \in BOOLEAN
    BY <1>1, <1>9 DEF Dialogs, QrAnswer
  <2>3. UNCHANGED <<saving, opening, opens, present>>
    BY <1>9 DEF QrAnswer
  <2>4. QED BY <1>1, <1>2, <2>1, <2>2, <2>3 DEF Dialogs
<1>10. CASE QrCloses
  BY <1>1, <1>2, <1>10 DEF Dialogs, QrCloses, CloseLate, Cleared
<1>11. CASE Save \/ Saved
  BY <1>1, <1>2, <1>11 DEF Dialogs, Save, Saved, CloseLate, Cleared
<1>12. QED BY <1>3, <1>4, <1>5, <1>6, <1>7, <1>8, <1>9, <1>10, <1>11 DEF LoginStep

\* The ids fit their range because the attempts are bounded.
LEMMA StepTypes ==
    ASSUME LoginInv, ~crossed, LoginStep
    PROVE  LoginTypeInv'
<1>1. pwd' \in Form /\ Requests' /\ Dialogs' /\ Bounded'
  BY StepForm, StepRequests, StepDialogs, StepBounded
<1>2. MaxRequests \in Nat /\ MaxOpens \in Nat /\ opens' \in Nat /\ opens' <= MaxOpens
      /\ pwd'.id \in Nat /\ Open1' \in {0, 1} /\ Asked1' \in {0, 1} /\ present' \in BOOLEAN
  BY <1>1, LoginTypes DEF LoginInv, Dialogs, Form, Open1, Asked1
<1>3. pwd'.id <= MaxRequests + MaxOpens + 1
  <2>1. CASE present'
    <3>1. pwd'.id + Open1' + Asked1' <= MaxRequests + opens'
      BY <1>1, <2>1 DEF Bounded
    <3>2. QED BY <1>2, <3>1
  <2>2. CASE ~present'
    <3>1. pwd'.id <= MaxRequests + opens' + 1
      BY <1>1, <2>2 DEF Bounded
    <3>2. QED BY <1>2, <3>1
  <2>3. QED BY <2>1, <2>2
<1>4. \A f \in Form : f.id <= MaxRequests + MaxOpens + 1 =>
        f \in [status : {"idle", "processing", "verification", "success", "failed"},
               loading : BOOLEAN, session : Session \cup {0}, ref : Session \cup {0},
               closed : BOOLEAN, id : RequestId]
  BY LoginTypes DEF LoginInv
<1>5. pwd' \in [status : {"idle", "processing", "verification", "success", "failed"},
                loading : BOOLEAN, session : Session \cup {0}, ref : Session \cup {0},
                closed : BOOLEAN, id : RequestId]
  BY <1>1, <1>3, <1>4
<1>6. LoginTypeOK'
  BY <1>1, <1>5 DEF LoginTypeOK, Requests, Dialogs, SubmitType, PollType, QrType
<1>7. QED BY <1>1, <1>6 DEF LoginTypeInv

\* The invariant holds when the page is opened.
LEMMA InitLogin == LoginInit => LoginInv
<1> SUFFICES ASSUME LoginInit PROVE LoginInv
  OBVIOUS
<1>1. MaxSessions \in Nat /\ MaxRequests \in Nat /\ MaxOpens \in Nat /\ MaxLate \in Nat
  BY LoginAssumption
<1>2. 0 \in RequestId
  BY <1>1 DEF RequestId
<1>3. LoginTypeOK
  <2>1. pwd \in [status : {"idle", "processing", "verification", "success", "failed"},
                 loading : BOOLEAN, session : Session \cup {0}, ref : Session \cup {0},
                 closed : BOOLEAN, id : RequestId]
    BY <1>2 DEF LoginInit, Fresh
  <2>2. submit \in [at : {"none", "cancelling", "creating", "cancellingLate"},
                    id : RequestId, session : Session \cup {0}]
        /\ {poll, tick} \subseteq [session : Session \cup {0}, id : RequestId]
    BY <1>2 DEF LoginInit, NoSubmit, Off
  <2>3. qr \in [status : {"waiting", "success", "failed"}, generating : BOOLEAN,
                polling : BOOLEAN, asked : BOOLEAN]
    BY DEF LoginInit, QrOff
  <2>4. server \in [Session -> {"unknown", "running", "won", "lost", "released"}]
        /\ cancels \subseteq Session /\ timer \in RequestId
    BY <1>2 DEF LoginInit
  <2>5. closers \in 0 .. MaxLate /\ opens \in 0 .. MaxOpens
    BY <1>1 DEF LoginInit
  <2>6. modal \in Dialog \cup {"none"} /\ saving \in BOOLEAN /\ opening \subseteq Dialog
        /\ present \in BOOLEAN /\ crossed \in BOOLEAN
    BY DEF LoginInit
  <2>7. QED BY <2>1, <2>2, <2>3, <2>4, <2>5, <2>6 DEF LoginTypeOK
<1>4. Bounded
  <2>1. Open1 = 0 /\ Asked1 = 0 /\ opens = 0 /\ pwd.id = 0 /\ present
    BY DEF LoginInit, Open1, Asked1, Fresh
  <2>2. QED BY <1>1, <2>1 DEF Bounded
<1>5. Known /\ OneAttempt
  BY DEF LoginInit, Known, Created1, OneAttempt, Fresh, NoSubmit, Off
<1>6. SubmitIsShown /\ PollIsShown /\ NoAbandonedSession
  BY DEF LoginInit, SubmitIsShown, Submitting, PollIsShown, NoAbandonedSession, NoSubmit
<1>7. QED BY <1>3, <1>4, <1>5, <1>6 DEF LoginInv, LoginTypeInv

\* Every step keeps the invariant.
LEMMA NextLogin == LoginInv /\ [LoginNext]_loginVars => LoginInv'
<1> SUFFICES ASSUME LoginInv, [LoginNext]_loginVars PROVE LoginInv'
  OBVIOUS
<1>1. CASE LoginNext
  <2>1. ~crossed /\ LoginStep
    BY <1>1 DEF LoginNext
  <2>2. QED BY <2>1, StepTypes, StepKnown, StepOneAttempt, StepSubmit, StepPoll, StepAbandon
            DEF LoginInv
<1>2. CASE UNCHANGED loginVars
  BY <1>2 DEF loginVars, LoginInv, LoginTypeInv, LoginTypeOK, Bounded, Open1, Asked1, Known,
     Created1,
              OneAttempt, SubmitIsShown, Submitting, IsCurrent, PollIsShown, NoAbandonedSession
<1>3. QED BY <1>1, <1>2

\* Fairness aside, a specification of the dialogs is its initial states and its steps.
LEMMA LoginSafely == LoginSpec => LoginInit /\ [][LoginNext]_loginVars
BY DEF LoginSpec

\* The inductive invariant of the account dialogs: beside the types, what is polled and what
\* is sent belong to the attempt on the screen, and every running session has its follower.
THEOREM LoginInvariant == LoginInit /\ [][LoginNext]_loginVars => []LoginInv
<1>1. LoginInit => LoginInv
  BY InitLogin
<1>2. LoginInv /\ [LoginNext]_loginVars => LoginInv'
  BY NextLogin
<1>3. QED BY <1>1, <1>2, PTL

\* The state of the account dialogs stays in its types: no sequence of dialogs opened and
\* closed, of late answers and timers runs a request id out of its range.
THEOREM LoginTypeCorrect == LoginSpec => []LoginTypeOK
<1>1. LoginInv => LoginTypeOK
  BY DEF LoginInv, LoginTypeInv
<1>2. QED BY LoginSafely, LoginInvariant, <1>1, PTL

\* Only the attempt on the screen is polled (Accounts.tsx: pwdLoginRequestIdRef and
\* pwdLoginClosedRef guard every answer), unless a late call fell on the dialog.
THEOREM PolledIsCurrent == LoginSpec => []PollIsCurrent
<1>1. LoginInv => PollIsCurrent
  BY DEF LoginInv, PollIsShown, PollIsCurrent
<1>2. QED BY LoginSafely, LoginInvariant, <1>1, PTL

\* No login that goes on on the server is forgotten (closeModal and the unmount effect
\* cancel what the page follows; an answer too late is cancelled by handlePasswordLogin).
THEOREM NoSessionForgotten == LoginSpec => []NoAbandonedSession
<1>1. LoginInv => NoAbandonedSession
  BY DEF LoginInv
<1>2. QED BY LoginSafely, LoginInvariant, <1>1, PTL


-----------------------------------------------------------------------------
(* The sockets of the chat page: the invariant                             *)

LinkRec == [of : Account \cup {NoSocket}, state : ReadyStates, handlers : BOOLEAN,
            heartbeat : BOOLEAN, reconnect : BOOLEAN, closed : BOOLEAN]

\* A connection's socket is the account's own and in one of three conditions: it
\* connects, it is open and beats, or it is lost and waits for its timer.
InOrder(c, a) ==
    /\ c.of = a /\ c.handlers /\ ~c.closed
    /\ \/ c.state = "connecting" /\ ~c.heartbeat /\ ~c.reconnect
       \/ c.state = "open" /\ c.heartbeat /\ ~c.reconnect
       \/ c.state = "closed" /\ ~c.heartbeat /\ c.reconnect

\* A socket that no connection holds can do nothing more for anybody.
Spent(c) ==
    /\ c.state \in {"unused", "closing", "closed"}
    /\ ~c.heartbeat /\ ~c.reconnect
    /\ c.state = "closing" => ~c.handlers

IsHeld(s) == \E a \in Account : connections[a] = s

ConnectionsWork ==
    \A a \in Account : connections[a] # NoSocket => a \in accountIds /\ InOrder(ws[connections[a]], a)
OthersAreSpent == \A s \in Socket : ~IsHeld(s) => Spent(ws[s])

LinksInv == LinksTypeOK /\ ConnectionsWork /\ OthersAreSpent

\* No socket serves two accounts, and the account of a held socket is the one it is of.
LEMMA HeldByItsOwn ==
    ASSUME LinksInv, NEW s \in Socket, IsHeld(s)
    PROVE  /\ ws[s].of \in accountIds /\ ws[s].of \in Account
           /\ connections[ws[s].of] = s /\ InOrder(ws[s], ws[s].of)
           /\ \A a \in Account : connections[a] = s <=> a = ws[s].of
<1>1. \A a \in Account : connections[a] = s => /\ a \in accountIds /\ InOrder(ws[s], a)
                                               /\ ws[s].of = a
  BY SocketAssumption DEF LinksInv, ConnectionsWork, InOrder
<1>2. PICK a \in Account : connections[a] = s
  BY DEF IsHeld
<1> QED
  BY <1>1, <1>2

-----------------------------------------------------------------------------
(* What the effects do to the connections, socket by socket                *)

\* The accounts of A get new sockets, those of gone lose theirs, and the rest keep theirs.
Rewired(A, gone) ==
    /\ ws' \in [Socket -> LinkRec] /\ connections' \in [Account -> Socket \cup {NoSocket}]
    /\ \A a \in A : connections'[a] \in Socket /\ InOrder(ws'[connections'[a]], a)
                    /\ ws'[connections'[a]].state = "connecting"
    /\ \A a \in gone \ A : connections'[a] = NoSocket
    /\ \A a \in Account \ (A \cup gone) :
          /\ connections'[a] = connections[a]
          /\ connections[a] # NoSocket => ws'[connections[a]] = ws[connections[a]]
    /\ \A s \in Socket : (\A a \in Account : connections'[a] # s) => Spent(ws'[s])

\* A new connection works, and a cleaned up one is spent, whatever it was.
LEMMA FreshWorks ==
    ASSUME NEW a \in Account
    PROVE  FreshLink(a) \in LinkRec /\ InOrder(FreshLink(a), a) /\ FreshLink(a).state = "connecting"
BY DEF FreshLink, Unused, LinkRec, ReadyStates, InOrder

\* A cleaned up socket is spent, whatever it was.
LEMMA CleanedIsSpent ==
    ASSUME NEW c \in LinkRec
    PROVE  Cleaned(c) \in LinkRec /\ Spent(Cleaned(c))
BY DEF Cleaned, LinkRec, ReadyStates, Spent

\* Renew with sockets of its own for each account of A.
LEMMA RenewEffect ==
    ASSUME LinksInv, NEW A \in SUBSET Account, NEW gone \in SUBSET Account,
           NEW fresh \in Sockets(A), Renew(fresh, gone)
    PROVE  Rewired(A, gone)
<1> DEFINE old == {connections[a] : a \in A \cup gone} \ {NoSocket}
<1>1. fresh \in [A -> Socket] /\ DOMAIN fresh = A
  BY DEF Sockets
<1>2. \A a, b \in A : fresh[a] = fresh[b] => a = b
  BY DEF Sockets
<1>3. \A a \in A : \A b \in Account : connections[b] # fresh[a]
  BY DEF Sockets, Inert
<1>4. /\ ws \in [Socket -> LinkRec] /\ connections \in [Account -> Socket \cup {NoSocket}]
  BY DEF LinksInv, LinksTypeOK, LinkRec
<1>5. connections' = [a \in Account |-> IF a \in A THEN fresh[a]
                                        ELSE IF a \in gone THEN NoSocket ELSE connections[a]]
  BY <1>1 DEF Renew
<1>6. ws' = [s \in Socket |-> IF \E a \in A : fresh[a] = s
                              THEN FreshLink(CHOOSE a \in A : fresh[a] = s)
                              ELSE IF s \in old THEN Cleaned(ws[s]) ELSE ws[s]]
  BY <1>1 DEF Renew
<1>7. \A a \in A : ws'[fresh[a]] = FreshLink(a)
  <2> TAKE a \in A
  <2>1. (CHOOSE b \in A : fresh[b] = fresh[a]) = a
    BY <1>2
  <2> QED
    BY <1>1, <1>6, <2>1
<1>8. \A s \in Socket : (\A a \in A : fresh[a] # s) => ws'[s] = IF s \in old THEN Cleaned(ws[s]) ELSE ws[s]
  BY <1>6
<1>9. ws' \in [Socket -> LinkRec]
  <2>1. DOMAIN ws' = Socket /\ ws' = [s \in Socket |-> ws'[s]]
    BY <1>6
  <2>2. ASSUME NEW s \in Socket
        PROVE  ws'[s] \in LinkRec
    <3>1. CASE \E a \in A : fresh[a] = s
      BY <1>7, <3>1, FreshWorks
    <3>2. CASE \A a \in A : fresh[a] # s
      BY <1>4, <1>8, <3>2, CleanedIsSpent
    <3> QED
      BY <3>1, <3>2
  <2> QED
    BY <2>1, <2>2
<1>10. connections' \in [Account -> Socket \cup {NoSocket}]
  BY <1>1, <1>4, <1>5
<1>11. \A a \in A : connections'[a] = fresh[a]
  BY <1>5
<1>12. ASSUME NEW a \in A
       PROVE  connections'[a] \in Socket /\ InOrder(ws'[connections'[a]], a)
              /\ ws'[connections'[a]].state = "connecting"
  BY <1>1, <1>7, <1>11, FreshWorks
<1>13. \A a \in gone \ A : connections'[a] = NoSocket
  BY <1>5
<1>14. ASSUME NEW a \in Account \ (A \cup gone)
       PROVE  /\ connections'[a] = connections[a]
              /\ connections[a] # NoSocket => ws'[connections[a]] = ws[connections[a]]
  <2>1. connections'[a] = connections[a]
    BY <1>5
  <2>2. ASSUME connections[a] # NoSocket
        PROVE  ws'[connections[a]] = ws[connections[a]]
    <3>1. connections[a] \in Socket /\ IsHeld(connections[a])
      BY <1>4, <2>2 DEF IsHeld
    <3>2. connections[a] \notin old
      BY <3>1, HeldByItsOwn
    <3> QED
      BY <1>3, <1>8, <3>1, <3>2
  <2> QED
    BY <2>1, <2>2
<1>15. ASSUME NEW s \in Socket, \A a \in Account : connections'[a] # s
       PROVE  Spent(ws'[s])
  <2>1. \A a \in A : fresh[a] # s
    BY <1>11, <1>15
  <2>2. CASE s \in old
    BY <1>4, <1>8, <2>1, <2>2, CleanedIsSpent
  <2>3. CASE s \notin old
    <3>1. ~IsHeld(s)
      BY <1>5, <1>15, <2>3, SocketAssumption DEF IsHeld
    <3> QED
      BY <1>8, <2>1, <2>3, <3>1 DEF LinksInv, OthersAreSpent
  <2> QED
    BY <2>2, <2>3
<1> HIDE DEF old
<1> QED
  BY <1>9, <1>10, <1>12, <1>13, <1>14, <1>15 DEF Rewired

\* One connection's socket changes, or an unheld one does; all connections stay.
OneSocket(s, c) ==
    /\ ws' \in [Socket -> LinkRec] /\ ws'[s] = c
    /\ \A t \in Socket \ {s} : ws'[t] = ws[t]
    /\ UNCHANGED <<accountIds, connections, mounted>>

-----------------------------------------------------------------------------
(* Every step keeps the invariant                                          *)

\* New connections for accounts the page wants, and no connection for the others.
LEMMA RewiredKeeps ==
    ASSUME LinksInv, NEW A \in SUBSET Account, NEW gone \in SUBSET Account, Rewired(A, gone),
           accountIds' \subseteq Account, A \subseteq accountIds', mounted' \in BOOLEAN,
           \A a \in Account \ (A \cup gone) : connections[a] # NoSocket => a \in accountIds'
    PROVE  LinksInv'
<1>1. LinksTypeOK'
  BY DEF Rewired, LinksTypeOK, LinkRec
<1>2. ConnectionsWork'
  <2> SUFFICES ASSUME NEW a \in Account, connections'[a] # NoSocket
               PROVE  a \in accountIds' /\ InOrder(ws'[connections'[a]], a)
    BY DEF ConnectionsWork
  <2>1. CASE a \in A
    BY <2>1 DEF Rewired
  <2>2. CASE a \in gone \ A
    BY <2>2 DEF Rewired
  <2>3. CASE a \in Account \ (A \cup gone)
    <3>1. connections'[a] = connections[a] /\ ws'[connections[a]] = ws[connections[a]]
      BY <2>3 DEF Rewired
    <3> QED
      BY <2>3, <3>1 DEF LinksInv, ConnectionsWork
  <2> QED
    BY <2>1, <2>2, <2>3
<1>3. OthersAreSpent'
  BY DEF Rewired, OthersAreSpent, IsHeld
<1> QED
  BY <1>1, <1>2, <1>3 DEF LinksInv

\* A change of one socket is right if it is right for the connection that holds it.
LEMMA OneSocketKeeps ==
    ASSUME LinksInv, NEW s \in Socket, NEW c, OneSocket(s, c),
           \A a \in Account : connections[a] = s /\ InOrder(ws[s], a) => InOrder(c, a),
           ~IsHeld(s) => Spent(c)
    PROVE  LinksInv'
<1>1. LinksTypeOK'
  BY DEF OneSocket, LinksInv, LinksTypeOK, LinkRec
<1>2. ConnectionsWork'
  <2> SUFFICES ASSUME NEW a \in Account, connections'[a] # NoSocket
               PROVE  a \in accountIds' /\ InOrder(ws'[connections'[a]], a)
    BY DEF ConnectionsWork
  <2>1. connections'[a] = connections[a] /\ accountIds' = accountIds
    BY DEF OneSocket
  <2>2. a \in accountIds /\ InOrder(ws[connections[a]], a) /\ connections[a] \in Socket
    BY <2>1 DEF LinksInv, ConnectionsWork, LinksTypeOK
  <2> QED
    BY <2>1, <2>2 DEF OneSocket
<1>3. OthersAreSpent'
  <2> SUFFICES ASSUME NEW t \in Socket, ~IsHeld(t)'
               PROVE  Spent(ws'[t])
    BY DEF OthersAreSpent
  <2>1. ~IsHeld(t)
    BY DEF OneSocket, IsHeld
  <2> QED
    BY <2>1 DEF OneSocket, LinksInv, OthersAreSpent
<1> QED
  BY <1>1, <1>2, <1>3 DEF LinksInv

\* What the page wants is connected, what it does not is dropped.
LEMMA EffectRewires ==
    ASSUME LinksInv, NEW ids \in SUBSET Account, Effect(ids)
    PROVE  LET existing == {a \in Account : connections[a] # NoSocket}
           IN  Rewired(ids \ existing, existing \ ids)
<1> DEFINE existing == {a \in Account : connections[a] # NoSocket}
<1>1. PICK fresh \in Sockets(ids \ existing) : Renew(fresh, existing \ ids)
  BY DEF Effect
<1>2. ids \ existing \in SUBSET Account /\ existing \ ids \in SUBSET Account
  OBVIOUS
<1> HIDE DEF existing
<1>3. Rewired(ids \ existing, existing \ ids)
  BY <1>1, <1>2, RenewEffect
<1> QED
  BY <1>3 DEF existing

\* The effect on accountIds keeps the invariant.
LEMMA EffectKeeps ==
    ASSUME LinksInv, NEW ids \in SUBSET Account, Effect(ids), accountIds' = ids,
           mounted' \in BOOLEAN
    PROVE  LinksInv'
<1> DEFINE existing == {a \in Account : connections[a] # NoSocket}
<1>1. Rewired(ids \ existing, existing \ ids)
  BY EffectRewires
<1>2. /\ ids \ existing \in SUBSET Account /\ existing \ ids \in SUBSET Account
      /\ ids \ existing \subseteq accountIds'
      /\ \A a \in Account \ ((ids \ existing) \cup (existing \ ids)) :
            connections[a] # NoSocket => a \in accountIds'
  OBVIOUS
<1> HIDE DEF existing
<1> QED
  BY <1>1, <1>2, RewiredKeeps

\* No socket is left when the page goes away.
LEMMA UnmountRewires ==
    ASSUME LinksInv, Unmount
    PROVE  Rewired({}, Account)
<1>1. <<>> \in Sockets({})
  BY DEF Sockets
<1>2. Renew(<<>>, Account)
  BY DEF Unmount
<1> QED
  BY <1>1, <1>2, RenewEffect

\* A socket event, and what it makes of the socket.
Opened(c) == [c EXCEPT !.state = "open", !.heartbeat = c.heartbeat \/ c.handlers]
Dropped(c) ==
    [c EXCEPT !.state = "closed", !.heartbeat = c.heartbeat /\ ~c.handlers,
              !.reconnect = c.reconnect \/ (c.handlers /\ ~c.closed)]
GivenUp(c) == [c EXCEPT !.state = "closed", !.heartbeat = FALSE, !.closed = TRUE]

\* The fields of a socket after an event.
LEMMA RecFields ==
    ASSUME NEW c \in LinkRec
    PROVE  /\ Opened(c) \in LinkRec /\ Dropped(c) \in LinkRec /\ GivenUp(c) \in LinkRec
           /\ Opened(c).of = c.of /\ Opened(c).state = "open" /\ Opened(c).closed = c.closed
           /\ Opened(c).handlers = c.handlers /\ Opened(c).reconnect = c.reconnect
           /\ Opened(c).heartbeat <=> c.heartbeat \/ c.handlers
           /\ Dropped(c).of = c.of /\ Dropped(c).state = "closed" /\ Dropped(c).closed = c.closed
           /\ Dropped(c).handlers = c.handlers
           /\ Dropped(c).heartbeat <=> c.heartbeat /\ ~c.handlers
           /\ Dropped(c).reconnect <=> c.reconnect \/ (c.handlers /\ ~c.closed)
           /\ GivenUp(c).state = "closed" /\ ~GivenUp(c).heartbeat
           /\ GivenUp(c).reconnect = c.reconnect
BY DEF LinkRec, ReadyStates, Opened, Dropped, GivenUp

\* Opening and losing change one socket.
LEMMA EventEffect ==
    ASSUME LinksInv, NEW s \in Socket
    PROVE  /\ Open(s) => ws[s].state = "connecting" /\ OneSocket(s, Opened(ws[s]))
           /\ Lose(s) => Alive(s) /\ OneSocket(s, Dropped(ws[s]))
<1>1. ws \in [Socket -> LinkRec] /\ ws[s] \in LinkRec
  BY DEF LinksInv, LinksTypeOK, LinkRec
<1>2. \A c \in LinkRec : [ws EXCEPT ![s] = c] \in [Socket -> LinkRec]
  BY <1>1
<1>3. ASSUME Open(s)
      PROVE  ws[s].state = "connecting" /\ OneSocket(s, Opened(ws[s]))
  <2>1. ws' = [ws EXCEPT ![s] = Opened(ws[s])]
    BY <1>1, <1>3 DEF Open, Opened
  <2>2. Opened(ws[s]) \in LinkRec
    BY <1>1, RecFields
  <2>3. ws' \in [Socket -> LinkRec] /\ ws'[s] = Opened(ws[s]) /\ \A t \in Socket \ {s} : ws'[t] = ws[t]
    BY <1>1, <1>2, <2>1, <2>2
  <2> QED
    BY <1>3, <2>3 DEF Open, OneSocket
<1>4. ASSUME Lose(s)
      PROVE  Alive(s) /\ OneSocket(s, Dropped(ws[s]))
  <2>1. ws' = [ws EXCEPT ![s] = Dropped(ws[s])]
    BY <1>1, <1>4 DEF Lose, Dropped
  <2>2. Dropped(ws[s]) \in LinkRec
    BY <1>1, RecFields
  <2>3. ws' \in [Socket -> LinkRec] /\ ws'[s] = Dropped(ws[s]) /\ \A t \in Socket \ {s} : ws'[t] = ws[t]
    BY <1>1, <1>2, <2>1, <2>2
  <2> QED
    BY <1>4, <2>3 DEF Lose, OneSocket
<1> QED
  BY <1>3, <1>4

\* A refusal gives the account's connection up: only an attached socket hears of it.
LEMMA RefuseEffect ==
    ASSUME LinksInv, NEW s \in Socket, Refuse(s)
    PROVE  /\ IsHeld(s) /\ ws[s].state \in {"connecting", "open"}
           /\ Rewired({}, {ws[s].of}) /\ UNCHANGED <<accountIds, mounted>>
<1>1. ws \in [Socket -> LinkRec] /\ ws[s] \in LinkRec
  BY DEF LinksInv, LinksTypeOK, LinkRec
<1>2. IsHeld(s)
  BY DEF Refuse, LinksInv, OthersAreSpent, Spent, Alive
<1> DEFINE a == ws[s].of
<1>3. /\ a \in Account /\ connections[a] = s /\ InOrder(ws[s], a)
      /\ \A b \in Account : connections[b] = s <=> b = a
  BY <1>2, HeldByItsOwn
<1>4. ws' = [ws EXCEPT ![s] = GivenUp(ws[s])]
  BY <1>1 DEF Refuse, GivenUp
<1>5. ws' \in [Socket -> LinkRec] /\ ws'[s] = GivenUp(ws[s]) /\ \A t \in Socket \ {s} : ws'[t] = ws[t]
  BY <1>1, <1>4, RecFields
<1>6. connections \in [Account -> Socket \cup {NoSocket}]
  BY DEF LinksInv, LinksTypeOK
<1>7. connections' = [connections EXCEPT ![a] = NoSocket] /\ UNCHANGED <<accountIds, mounted>>
  BY DEF Refuse
<1>8. ws[s].state \in {"connecting", "open"} /\ ~ws[s].reconnect
  BY <1>3 DEF Refuse, Alive, InOrder
<1> HIDE DEF a
<1>9. connections' \in [Account -> Socket \cup {NoSocket}] /\ connections'[a] = NoSocket
      /\ \A b \in Account \ {a} : connections'[b] = connections[b]
  BY <1>3, <1>6, <1>7
<1>10. Spent(ws'[s])
  BY <1>1, <1>5, <1>8, RecFields DEF Spent
<1>11. ASSUME NEW t \in Socket, \A b \in Account : connections'[b] # t
       PROVE  Spent(ws'[t])
  <2>1. CASE t = s
    BY <1>10, <2>1
  <2>2. CASE t # s
    <3>1. ~IsHeld(t)
      BY <1>3, <1>9, <1>11, <2>2 DEF IsHeld
    <3> QED
      BY <1>5, <2>2, <3>1 DEF LinksInv, OthersAreSpent
  <2> QED
    BY <2>1, <2>2
<1>12. \A b \in Account \ {a} : connections[b] # NoSocket => ws'[connections[b]] = ws[connections[b]]
  BY <1>3, <1>5, <1>6
<1>13. Rewired({}, {a})
  BY <1>5, <1>9, <1>11, <1>12 DEF Rewired
<1> QED
  BY <1>2, <1>7, <1>8, <1>13 DEF a

\* A timer that fires belongs to a connection, which gets a new socket.
LEMMA ReconnectEffect ==
    ASSUME LinksInv, NEW s \in Socket, Reconnect(s)
    PROVE  /\ IsHeld(s) /\ ws[s].state = "closed"
           /\ Rewired({ws[s].of}, {}) /\ UNCHANGED <<accountIds, mounted>>
<1>1. IsHeld(s)
  BY DEF Reconnect, LinksInv, OthersAreSpent, Spent
<1>2. ws[s].of \in Account /\ InOrder(ws[s], ws[s].of)
  BY <1>1, HeldByItsOwn
<1>3. ws[s].state = "closed" /\ ~ws[s].closed
  BY <1>2 DEF Reconnect, InOrder
<1>4. PICK fresh \in Sockets({ws[s].of}) : Renew(fresh, {})
  BY <1>3 DEF Reconnect
<1>5. {ws[s].of} \in SUBSET Account /\ {} \in SUBSET Account
  BY <1>2
<1>6. Rewired({ws[s].of}, {})
  BY <1>4, <1>5, RenewEffect
<1> QED
  BY <1>1, <1>3, <1>6 DEF Reconnect

\* The invariant of the sockets: whatever they do, and in whatever order, an account has
\* a connection whose socket works, or nothing at all that could still act for it.
THEOREM LinksInvariant == LinksSpec => []LinksInv
<1>1. LinksInit => LinksInv
  BY SocketAssumption DEF LinksInit, LinksInv, LinksTypeOK, ConnectionsWork, OthersAreSpent,
     Spent,
     Unused, ReadyStates
<1>2. LinksInv /\ [LinksNext]_linkVars => LinksInv'
  <2> SUFFICES ASSUME LinksInv, [LinksNext]_linkVars
               PROVE  LinksInv'
    OBVIOUS
  <2>1. accountIds \subseteq Account /\ mounted \in BOOLEAN
    BY DEF LinksInv, LinksTypeOK
  <2>2. ASSUME NEW a \in Account, Add(a)
        PROVE  LinksInv'
    <3>1. accountIds \cup {a} \in SUBSET Account
      BY <2>1
    <3> QED
      BY <2>1, <2>2, <3>1, EffectKeeps DEF Add
  <2>3. ASSUME NEW a \in Account, Remove(a)
        PROVE  LinksInv'
    <3>1. accountIds \ {a} \in SUBSET Account
      BY <2>1
    <3> QED
      BY <2>1, <2>3, <3>1, EffectKeeps DEF Remove
  <2>4. CASE Unmount
    <3>1. Rewired({}, Account) /\ accountIds' = {} /\ mounted' = FALSE
      BY <2>4, UnmountRewires DEF Unmount
    <3> QED
      BY <3>1, RewiredKeeps
  <2>5. CASE Mount
    BY <2>5 DEF Mount, LinksInv, LinksTypeOK, ConnectionsWork, OthersAreSpent, IsHeld
  <2>6. ASSUME NEW s \in Socket, Open(s)
        PROVE  LinksInv'
    <3>1. ws[s].state = "connecting" /\ OneSocket(s, Opened(ws[s])) /\ ws[s] \in LinkRec
      BY <2>6, EventEffect DEF LinksInv, LinksTypeOK, LinkRec
    <3>2. \A a \in Account : InOrder(ws[s], a) => InOrder(Opened(ws[s]), a)
      BY <3>1, RecFields DEF InOrder
    <3>3. IsHeld(s)
      BY <3>1 DEF LinksInv, OthersAreSpent, Spent
    <3> QED
      BY <3>1, <3>2, <3>3, OneSocketKeeps
  <2>7. ASSUME NEW s \in Socket, Lose(s)
        PROVE  LinksInv'
    <3>1. Alive(s) /\ OneSocket(s, Dropped(ws[s])) /\ ws[s] \in LinkRec
      BY <2>7, EventEffect DEF LinksInv, LinksTypeOK, LinkRec
    <3>2. \A a \in Account : InOrder(ws[s], a) => InOrder(Dropped(ws[s]), a)
      BY <3>1, RecFields DEF InOrder
    <3>3. ~IsHeld(s) => Spent(Dropped(ws[s]))
      BY <3>1, RecFields DEF LinksInv, OthersAreSpent, Spent, Alive
    <3> QED
      BY <3>1, <3>2, <3>3, OneSocketKeeps
  <2>8. ASSUME NEW s \in Socket, Refuse(s)
        PROVE  LinksInv'
    <3>1. IsHeld(s) /\ Rewired({}, {ws[s].of}) /\ UNCHANGED <<accountIds, mounted>>
      BY <2>8, RefuseEffect
    <3>2. ws[s].of \in Account
      BY <3>1, HeldByItsOwn
    <3> QED
      BY <2>1, <3>1, <3>2, RewiredKeeps DEF LinksInv, ConnectionsWork
  <2>9. ASSUME NEW s \in Socket, Reconnect(s)
        PROVE  LinksInv'
    <3>1. IsHeld(s) /\ Rewired({ws[s].of}, {}) /\ UNCHANGED <<accountIds, mounted>>
      BY <2>9, ReconnectEffect
    <3>2. ws[s].of \in Account /\ ws[s].of \in accountIds
      BY <3>1, HeldByItsOwn
    <3> QED
      BY <2>1, <3>1, <3>2, RewiredKeeps DEF LinksInv, ConnectionsWork
  <2>10. CASE UNCHANGED linkVars
    BY <2>10 DEF linkVars, LinksInv, LinksTypeOK, ConnectionsWork, OthersAreSpent, IsHeld
  <2> QED
    BY <2>2, <2>3, <2>4, <2>5, <2>6, <2>7, <2>8, <2>9, <2>10 DEF LinksNext
<1> QED
  BY <1>1, <1>2, PTL DEF LinksSpec

-----------------------------------------------------------------------------
(* The sockets keep one link for every account                             *)

\* The link that an account's connection stands for.
Condition(c) == IF c.state = "closed" THEN "waiting" ELSE c.state
Connected(a) ==
    IF connections[a] # NoSocket THEN Condition(ws[connections[a]])
    ELSE IF a \in accountIds THEN "rejected" ELSE "none"

\* Nothing but the connection's socket acts for an account, so its link is in no doubt.
LEMMA LinkIsConnection == LinksInv => \A a \in Account : Link(a) = Connected(a)
<1> SUFFICES ASSUME LinksInv, NEW a \in Account
             PROVE  Link(a) = Connected(a)
  OBVIOUS
<1>1. \A s \in Socket : ~IsHeld(s) => s \notin Live(a)
  BY DEF LinksInv, OthersAreSpent, Spent, Live, Alive
<1>2. \A s \in Socket : IsHeld(s) /\ s \in Live(a) => connections[a] = s
  <2> SUFFICES ASSUME NEW s \in Socket, IsHeld(s), ws[s].of = a
               PROVE  connections[a] = s
    BY DEF Live
  <2> QED
    BY HeldByItsOwn
<1>3. CASE connections[a] = NoSocket
  <2>1. Live(a) = {}
    BY <1>1, <1>2, <1>3, SocketAssumption DEF Live
  <2> QED
    BY <1>3, <2>1 DEF Link, Connected
<1>4. CASE connections[a] # NoSocket
  <2> DEFINE s == connections[a]
  <2>1. s \in Socket /\ InOrder(ws[s], a)
    BY <1>4 DEF LinksInv, LinksTypeOK, ConnectionsWork
  <2>2. s \in Live(a)
    BY <2>1 DEF Live, InOrder
  <2>3. \A t \in Live(a) : t = s
    BY <1>1, <1>2 DEF Live
  <2> HIDE DEF s
  <2>4. Live(a) = {s}
    BY <2>2, <2>3
  <2>5. Cardinality({s}) = 1 /\ (CHOOSE t \in {s} : TRUE) = s
    BY FS_Singleton
  <2>6. Link(a) = Status(s)
    BY <2>4, <2>5 DEF Link
  <2>7. Status(s) = Condition(ws[s])
    BY <2>1 DEF InOrder, Status, Condition
  <2> QED
    BY <1>4, <2>6, <2>7 DEF Connected, s
<1> QED
  BY <1>3, <1>4

LinkStates == [a \in Account |-> Link(a)]

\* Connections that are kept keep their links, those that are dropped leave none, and the
\* new ones connect.
LEMMA RewiredLinks ==
    ASSUME LinksInv, NEW A \in SUBSET Account, NEW gone \in SUBSET Account, Rewired(A, gone)
    PROVE  /\ \A a \in A : Connected(a)' = "connecting"
           /\ \A a \in gone \ A : Connected(a)' = IF a \in accountIds' THEN "rejected" ELSE "none"
           /\ \A a \in Account \ (A \cup gone) :
                (a \in accountIds' <=> a \in accountIds) \/ connections[a] # NoSocket
                    => Connected(a)' = Connected(a)
<1>1. \A a \in A : Connected(a)' = "connecting"
  BY SocketAssumption DEF Rewired, Connected, Condition
<1>2. \A a \in gone \ A : Connected(a)' = IF a \in accountIds' THEN "rejected" ELSE "none"
  BY DEF Rewired, Connected
<1>3. ASSUME NEW a \in Account \ (A \cup gone),
             (a \in accountIds' <=> a \in accountIds) \/ connections[a] # NoSocket
      PROVE  Connected(a)' = Connected(a)
  BY <1>3 DEF Rewired, Connected
<1> QED
  BY <1>1, <1>2, <1>3

\* A new list of accounts is a change of the links.
LEMMA EffectChanges ==
    ASSUME LinksInv, NEW ids \in SUBSET Account, Effect(ids), accountIds' = ids
    PROVE  \A a \in Account :
              Connected(a)' = IF a \notin ids THEN "none"
                            ELSE IF Connected(a) \in {"none", "rejected"} THEN "connecting"
                            ELSE Connected(a)
<1> DEFINE existing == {a \in Account : connections[a] # NoSocket}
<1>1. Rewired(ids \ existing, existing \ ids)
  BY EffectRewires
<1>2. ids \ existing \in SUBSET Account /\ existing \ ids \in SUBSET Account
  OBVIOUS
<1>3. \A a \in existing : Connected(a) \in {"connecting", "open", "waiting"}
  BY DEF LinksInv, ConnectionsWork, InOrder, Connected, Condition
<1>4. \A a \in Account \ existing : Connected(a) = IF a \in accountIds THEN "rejected" ELSE "none"
  BY DEF Connected
<1>5. \A a \in existing : connections[a] # NoSocket
  OBVIOUS
<1>6. \A a \in existing : a \in accountIds
  BY DEF LinksInv, ConnectionsWork
<1>7. \A a \in Account \ existing : connections[a] = NoSocket
  OBVIOUS
<1>8. existing \subseteq Account
  OBVIOUS
<1> HIDE DEF existing
<1>9. /\ \A a \in ids \ existing : Connected(a)' = "connecting"
      /\ \A a \in (existing \ ids) \ (ids \ existing) :
            Connected(a)' = IF a \in accountIds' THEN "rejected" ELSE "none"
      /\ \A a \in Account \ ((ids \ existing) \cup (existing \ ids)) :
            (a \in accountIds' <=> a \in accountIds) \/ connections[a] # NoSocket
                => Connected(a)' = Connected(a)
  BY <1>1, <1>2, RewiredLinks
<1>10. ASSUME NEW a \in Account
       PROVE  Connected(a)' = IF a \notin ids THEN "none"
                            ELSE IF Connected(a) \in {"none", "rejected"} THEN "connecting"
                            ELSE Connected(a)
  <2>1. CASE a \in ids /\ a \in existing
    BY <1>3, <1>5, <1>9, <2>1
  <2>2. CASE a \in ids /\ a \notin existing
    BY <1>4, <1>9, <2>2
  <2>3. CASE a \notin ids /\ a \in existing
    BY <1>9, <2>3
  <2>4. CASE a \notin ids /\ a \notin existing
    <3>1. Connected(a)' = IF a \in accountIds' THEN "rejected" ELSE "none"
      <4>1. a \in Account \ ((ids \ existing) \cup (existing \ ids))
        BY <2>4
      <4>2. connections'[a] = connections[a]
        BY <1>1, <4>1 DEF Rewired
      <4> QED
        BY <1>7, <2>4, <4>2 DEF Connected
    <3> QED
      BY <2>4, <3>1
  <2> QED
    BY <2>1, <2>2, <2>3, <2>4
<1> QED
  BY <1>10

\* One link moves, the others stay.
LEMMA OneMoves ==
    ASSUME NEW a \in Account, NEW from, NEW to, Connected(a) = from, Connected(a)' = to,
           \A b \in Account \ {a} : Connected(b)' = Connected(b), UNCHANGED accountIds,
           LinkStates = [b \in Account |-> Connected(b)],
           LinkStates' = [b \in Account |-> Connected(b)']
    PROVE  Links!Move(a, from, to)
<1>1. LinkStates' = [LinkStates EXCEPT ![a] = to] /\ LinkStates[a] = from
  OBVIOUS
<1> QED
  BY <1>1 DEF Links!Move, LinkStates

\* An event of one socket, seen by the accounts.
LEMMA OneSocketLinks ==
    ASSUME LinksInv, NEW s \in Socket, NEW c, OneSocket(s, c)
    PROVE  \A a \in Account : Connected(a)' = IF connections[a] = s THEN Condition(c) ELSE Connected(a)
BY SocketAssumption DEF OneSocket, Connected, LinksInv, LinksTypeOK

\* A step of the sockets is a step of the links, or none.
LEMMA LinksStep ==
    ASSUME LinksInv, [LinksNext]_linkVars,
           LinkStates = [b \in Account |-> Connected(b)],
           LinkStates' = [b \in Account |-> Connected(b)']
    PROVE  [Links!Next]_<<accountIds, LinkStates>>
<1> DEFINE Goal == [Links!Next]_<<accountIds, LinkStates>>
<1>1. accountIds \subseteq Account
  BY DEF LinksInv, LinksTypeOK
<1>2. ASSUME NEW ids \in SUBSET Account, Effect(ids), accountIds' = ids
      PROVE  Links!Next
  <2>1. LinkStates' = [a \in Account |-> IF a \notin ids THEN "none"
                                         ELSE IF LinkStates[a] \in {"none", "rejected"}
                                         THEN "connecting" ELSE LinkStates[a]]
    BY <1>2, EffectChanges
  <2>2. Links!Change(ids)
    BY <1>2, <2>1 DEF Links!Change, LinkStates
  <2> QED
    BY <2>2 DEF Links!Next
<1>3. ASSUME NEW a \in Account, Add(a)
      PROVE  Goal
  <2>1. accountIds \cup {a} \in SUBSET Account
    BY <1>1
  <2> QED
    BY <1>2, <1>3, <2>1 DEF Add
<1>4. ASSUME NEW a \in Account, Remove(a)
      PROVE  Goal
  <2>1. accountIds \ {a} \in SUBSET Account
    BY <1>1
  <2> QED
    BY <1>2, <1>4, <2>1 DEF Remove
<1>5. CASE Unmount
  <2>1. Rewired({}, Account) /\ accountIds' = {}
    BY <1>5, UnmountRewires DEF Unmount
  <2>2. \A a \in Account : Connected(a)' = "none"
    BY <2>1, RewiredLinks
  <2>3. LinkStates' = [a \in Account |-> "none"]
    BY <2>2
  <2>4. LinkStates' = [a \in Account |-> IF a \notin {} THEN "none"
                                         ELSE IF LinkStates[a] \in {"none", "rejected"}
                                         THEN "connecting" ELSE LinkStates[a]]
    BY <2>3
  <2>5. Links!Change({})
    BY <2>1, <2>4 DEF Links!Change, LinkStates
  <2> QED
    BY <2>5 DEF Links!Next
<1>6. CASE Mount
  <2>1. \A a \in Account : Connected(a)' = Connected(a)
    BY <1>6 DEF Mount, Connected
  <2> QED
    BY <1>6, <2>1 DEF Mount
<1>7. ASSUME NEW s \in Socket, Open(s)
      PROVE  Goal
  <2>1. ws[s].state = "connecting" /\ OneSocket(s, Opened(ws[s])) /\ ws[s] \in LinkRec
    BY <1>7, EventEffect DEF LinksInv, LinksTypeOK, LinkRec
  <2>2. IsHeld(s)
    BY <2>1 DEF LinksInv, OthersAreSpent, Spent
  <2>3. PICK o \in Account : \A a \in Account : connections[a] = s <=> a = o
    BY <2>2, HeldByItsOwn
  <2>4. Connected(o) = "connecting"
    BY <2>1, <2>3, SocketAssumption DEF Connected, Condition
  <2>5. Condition(Opened(ws[s])) = "open"
    BY <2>1, RecFields DEF Condition
  <2>6. UNCHANGED accountIds
    BY <2>1 DEF OneSocket
  <2>7. Connected(o)' = "open" /\ \A b \in Account \ {o} : Connected(b)' = Connected(b)
    BY <2>1, <2>3, <2>5, OneSocketLinks
  <2>8. Links!Opens(o)
    BY <2>3, <2>4, <2>6, <2>7, OneMoves DEF Links!Opens
  <2> QED
    BY <2>3, <2>8 DEF Links!Next
<1>8. ASSUME NEW s \in Socket, Lose(s)
      PROVE  Goal
  <2>1. Alive(s) /\ OneSocket(s, Dropped(ws[s])) /\ ws[s] \in LinkRec
    BY <1>8, EventEffect DEF LinksInv, LinksTypeOK, LinkRec
  <2>2. CASE IsHeld(s)
    <3>1. PICK o \in Account : /\ InOrder(ws[s], o)
                               /\ \A a \in Account : connections[a] = s <=> a = o
      BY <2>2, HeldByItsOwn
    <3>2. Connected(o) \in {"connecting", "open"}
      BY <2>1, <3>1, SocketAssumption DEF Connected, Condition, InOrder, Alive
    <3>3. Condition(Dropped(ws[s])) = "waiting"
      BY <2>1, RecFields DEF Condition
    <3>4. UNCHANGED accountIds
      BY <2>1 DEF OneSocket
    <3>5. Connected(o)' = "waiting" /\ \A b \in Account \ {o} : Connected(b)' = Connected(b)
      BY <2>1, <3>1, <3>3, OneSocketLinks
    <3>6. Links!Move(o, Connected(o), "waiting")
      BY <3>1, <3>4, <3>5, OneMoves
    <3>7. Links!Lost(o)
      BY <3>2, <3>6 DEF Links!Lost
    <3> QED
      BY <3>1, <3>7 DEF Links!Next
  <2>3. CASE ~IsHeld(s)
    <3>1. \A a \in Account : Connected(a)' = Connected(a)
      BY <2>1, <2>3, OneSocketLinks DEF IsHeld
    <3> QED
      BY <2>1, <3>1 DEF OneSocket
  <2> QED
    BY <2>2, <2>3
<1>9. ASSUME NEW s \in Socket, Refuse(s)
      PROVE  Goal
  <2>1. /\ IsHeld(s) /\ ws[s].state \in {"connecting", "open"}
        /\ Rewired({}, {ws[s].of}) /\ UNCHANGED accountIds
    BY <1>9, RefuseEffect
  <2>2. PICK o \in Account : o = ws[s].of /\ o \in accountIds /\ connections[o] = s
    BY <2>1, HeldByItsOwn
  <2>3. Connected(o) \in {"connecting", "open"}
    BY <2>1, <2>2, SocketAssumption DEF Connected, Condition
  <2>4. {o} \in SUBSET Account /\ {} \in SUBSET Account
    BY <2>2
  <2>5. Connected(o)' = "rejected" /\ \A b \in Account \ {o} : Connected(b)' = Connected(b)
    BY <2>1, <2>2, <2>4, RewiredLinks
  <2>6. Links!Move(o, Connected(o), "rejected")
    BY <2>1, <2>2, <2>5, OneMoves
  <2>7. Links!Rejected(o)
    BY <2>3, <2>6 DEF Links!Rejected
  <2> QED
    BY <2>2, <2>7 DEF Links!Next
<1>10. ASSUME NEW s \in Socket, Reconnect(s)
       PROVE  Goal
  <2>1. /\ IsHeld(s) /\ ws[s].state = "closed"
        /\ Rewired({ws[s].of}, {}) /\ UNCHANGED accountIds
    BY <1>10, ReconnectEffect
  <2>2. PICK o \in Account : o = ws[s].of /\ connections[o] = s
    BY <2>1, HeldByItsOwn
  <2>3. Connected(o) = "waiting"
    BY <2>1, <2>2, SocketAssumption DEF Connected, Condition
  <2>4. {o} \in SUBSET Account /\ {} \in SUBSET Account
    BY <2>2
  <2>5. Connected(o)' = "connecting" /\ \A b \in Account \ {o} : Connected(b)' = Connected(b)
    BY <2>1, <2>2, <2>4, RewiredLinks
  <2>6. Links!Retries(o)
    BY <2>1, <2>2, <2>3, <2>5, OneMoves DEF Links!Retries
  <2> QED
    BY <2>2, <2>6 DEF Links!Next
<1>11. CASE UNCHANGED linkVars
  <2>1. \A a \in Account : Connected(a)' = Connected(a)
    BY <1>11 DEF linkVars, Connected
  <2> QED
    BY <1>11, <2>1 DEF linkVars
<1> QED
  BY <1>3, <1>4, <1>5, <1>6, <1>7, <1>8, <1>9, <1>10, <1>11 DEF LinksNext

\* The sockets, heartbeats and timers of the chat page implement the links it needs: one
\* thing at most acts for an account, and only for one the page wants; a lost link is
\* retried, a rejected one stays down until the list changes, and nothing acts once the
\* page is gone (useChatNewWs.ts connectAccount, cleanupAccount, the socket's handlers).
THEOREM SocketsKeepLinks == LinksSpec => LinksAreKept
<1>1. LinksInit => Links!Init
  <2> SUFFICES ASSUME LinksInit
               PROVE  Links!Init
    OBVIOUS
  <2>1. \A a \in Account : Live(a) = {}
    BY DEF LinksInit, Live, Unused, Alive
  <2>2. \A a \in Account : Link(a) = "none"
    BY <2>1 DEF Link, LinksInit
  <2> QED
    BY <2>2 DEF LinksInit, Links!Init
<1>2. LinksInv => LinkStates = [b \in Account |-> Connected(b)]
  BY LinkIsConnection DEF LinkStates
<1>3. (LinksInv => LinkStates = [b \in Account |-> Connected(b)])'
  BY <1>2, PTL
<1>4. LinksInv /\ LinksInv' /\ [LinksNext]_linkVars => [Links!Next]_<<accountIds, LinkStates>>
  BY <1>2, <1>3, LinksStep
<1>5. LinksInv /\ LinksInv' /\ [LinksNext]_linkVars => [Links!Next]_(Links!vars)
  BY <1>4 DEF Links!vars, LinkStates
<1> QED
  BY <1>1, <1>5, LinksInvariant, PTL DEF LinksSpec, LinksAreKept, Links!Spec

\* The accounts, their connections and the sockets keep their types.
THEOREM LinksTypeCorrect == LinksSpec => []LinksTypeOK
<1>1. LinksInv => LinksTypeOK
  BY DEF LinksInv
<1> QED
  BY <1>1, LinksInvariant, PTL

\* An account the page wants has one link, which connects, is open, waits for its timer or
\* was rejected; any other account has none.
LinkOfWanted ==
    \A a \in Account : /\ Link(a) \in {"none", "connecting", "open", "waiting", "rejected"}
                       /\ Link(a) # "none" <=> a \in accountIds

\* So it is for any number of accounts and sockets (useChatNewWs.ts, the effect on
\* accountIds).
THEOREM WantedIsLinked == LinksSpec => []LinkOfWanted
<1>1. ASSUME LinksInv, NEW a \in Account
      PROVE  /\ Connected(a) \in {"none", "connecting", "open", "waiting", "rejected"}
             /\ Connected(a) # "none" <=> a \in accountIds
  BY <1>1 DEF LinksInv, ConnectionsWork, InOrder, Connected, Condition
<1>2. LinksInv => LinkOfWanted
  BY <1>1, LinkIsConnection DEF LinkOfWanted
<1> QED
  BY <1>2, LinksInvariant, PTL

-----------------------------------------------------------------------------
(* The workbench: its parts side by side                                   *)

\* One part acts at a time, so what holds of a part alone holds of it among the others: a
\* step of the workbench is a step of the part that was chosen, and stutters in the rest.
THEOREM WorkIsParts ==
    WorkSpec => /\ LoginInit /\ [][LoginNext]_loginVars
                /\ LinksSpec
                /\ PageInit /\ [][PageNext]_pageVars
                /\ JobsInit /\ [][JobsNext]_jobsVars
                /\ ScanInit /\ [][ScanNext]_scanVars
<1>1. WorkInit => LoginInit /\ LinksInit /\ PageInit /\ JobsInit /\ ScanInit
  BY DEF WorkInit
<1>2. [WorkNext]_workVars
        => /\ [LoginNext]_loginVars /\ [LinksNext]_linkVars /\ [PageNext]_pageVars
           /\ [JobsNext]_jobsVars /\ [ScanNext]_scanVars
  BY DEF WorkNext, workVars
<1>3. QED BY <1>1, <1>2, PTL DEF WorkSpec, LinksSpec

\* The state of all the parts keeps its types.
THEOREM WorkTypeCorrect == WorkSpec => []WorkTypeOK
<1> DEFINE Chosen == part \in Part
<1>1. WorkInit => Chosen
  BY DEF WorkInit
<1>2. Chosen /\ [WorkNext]_workVars => Chosen'
  BY DEF WorkNext, workVars
<1>3. WorkSpec => []Chosen
  BY <1>1, <1>2, PTL DEF WorkSpec
<1>4. Chosen /\ LoginInv /\ LinksInv /\ PageInv /\ JobsInv /\ ScanInv => WorkTypeOK
  <2>1. JobsInv => JobsTypeOK
    BY DEF JobsInv, JobTypes, JobsTypeOK, JobRec, TaskRec
  <2>2. QED BY <2>1, ScanTyped DEF WorkTypeOK, LoginInv, LoginTypeInv, LinksInv, PageInv
<1>5. QED
  BY <1>3, <1>4, WorkIsParts, LoginInvariant, LinksInvariant, PageInvariant, JobsInvariant,
     ScanInvariant, PTL

\* Every safety property that is checked of the parts holds of the workbench.
THEOREM WorkbenchIsSafe ==
    WorkSpec => /\ [](PollIsCurrent /\ NoAbandonedSession /\ FollowsShown /\ NoDoubleListing)
                /\ LinksAreKept
<1>1. LoginInv => PollIsCurrent /\ NoAbandonedSession
  BY DEF LoginInv, PollIsShown, PollIsCurrent
<1>2. PageInv => FollowsShown
  BY DEF PageInv
<1>3. JobsInv => NoDoubleListing
  BY DEF JobsInv, ListedOnce, NoDoubleListing
<1>4. QED
  BY <1>1, <1>2, <1>3, WorkIsParts, LoginInvariant, PageInvariant, JobsInvariant,
     SocketsKeepLinks, PTL

=============================================================================
