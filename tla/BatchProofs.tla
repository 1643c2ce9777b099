------------------------------ MODULE BatchProofs -------------------------------
(***************************************************************************)
(* Theorems about BatchPage and BatchJobs, for every value of their        *)
(* constants.                                                              *)
(***************************************************************************)
EXTENDS BatchPage, BatchJobs, TLAPS

-----------------------------------------------------------------------------
(* The page: the inductive invariant *)

\* A page that was left shows and polls nothing, and waits for nothing.
AwayIsQuiet ==
    ~page.on =>
        /\ page.shown = 0 /\ ~page.finished /\ page.poll = 0
        /\ ~submitted.mine /\ restore = NoAsk /\ \A i \in Slot : asks[i] = NoAsk

\* Requests are about a batch, and a submission that was answered has one.
AboutABatch ==
    /\ restore.batch = 0 => restore = NoAsk
    /\ \A i \in Slot : asks[i].batch = 0 => asks[i] = NoAsk
    /\ submitted.at = "created" => submitted.batch \in Batch

PageInv == PageTypeOK /\ AwayIsQuiet /\ AboutABatch /\ FollowsShown

\* What the server saw of a batch.
LEMMA SeenType ==
    ASSUME NEW ask \in StatusRequest
    PROVE  Seen(ask) \in StatusRequest /\ Seen(ask).batch = ask.batch
BY DEF Seen, StatusRequest

\* The server's side keeps to its stages.
LEMMA ProgressTypes ==
    ASSUME progress \in [Batch -> Stages], Stop \/ \E b \in Batch : Begin(b) \/ Finish(b)
    PROVE  progress' \in [Batch -> Stages]
BY DEF Stop, Begin, Finish, Stages

\* The types.
LEMMA PageTypesStep == PageInv /\ [PageNext]_pageVars => PageTypeOK'
<1> SUFFICES ASSUME PageInv, [PageNext]_pageVars
             PROVE  PageTypeOK'
  OBVIOUS
<1> USE DEF PageInv
<1>1. CASE Submits
  BY <1>1 DEF Submits, PageTypeOK, StatusRequest, NoAsk, NoSubmission, EmptyPage
<1>2. CASE BatchCreated
  BY <1>2, ProgressTypes DEF BatchCreated, PageTypeOK
<1>3. CASE Submitted
  BY <1>3 DEF Submitted, PageTypeOK, StatusRequest, NoAsk, NoSubmission, EmptyPage
<1>4. CASE SubmitFails
  BY <1>4 DEF SubmitFails, PageTypeOK, StatusRequest, NoAsk, NoSubmission, EmptyPage
<1>5. CASE PollAsks
  BY <1>5 DEF PollAsks, PageTypeOK, StatusRequest, NoAsk, NoSubmission, EmptyPage
<1>6. CASE Leaves
  BY <1>6 DEF Leaves, PageTypeOK, StatusRequest, NoAsk, NoSubmission, EmptyPage
<1>7. CASE Returns
  BY <1>7 DEF Returns, PageTypeOK, StatusRequest, NoAsk, NoSubmission, EmptyPage
<1>8. ASSUME NEW i \in Slot, ServerReads(i)
      PROVE  PageTypeOK'
  BY <1>8, SeenType DEF ServerReads, PageTypeOK
<1>9. ASSUME NEW i \in Slot, PollAnswer(i)
      PROVE  PageTypeOK'
  BY <1>9 DEF PollAnswer, PageTypeOK, StatusRequest, NoAsk, NoSubmission, EmptyPage
<1>10. ASSUME NEW i \in Slot, PollFails(i)
       PROVE  PageTypeOK'
  BY <1>10 DEF PollFails, PageTypeOK, StatusRequest, NoAsk, NoSubmission, EmptyPage
<1>11. CASE RestoreReads
  BY <1>11, SeenType DEF RestoreReads, PageTypeOK
<1>12. CASE Restored
  BY <1>12 DEF Restored, PageTypeOK, StatusRequest, NoAsk, NoSubmission, EmptyPage
<1>13. CASE RestoreFails
  BY <1>13 DEF RestoreFails, PageTypeOK, StatusRequest, NoAsk, NoSubmission, EmptyPage
<1>14. CASE Works
  BY <1>14, ProgressTypes DEF Works, PageTypeOK
<1>15. CASE UNCHANGED pageVars
  BY <1>15 DEF pageVars, PageTypeOK, StatusRequest, NoAsk, NoSubmission, EmptyPage
<1> QED
  BY <1>1, <1>2, <1>3, <1>4, <1>5, <1>6, <1>7, <1>8, <1>9, <1>10, <1>11, <1>12, <1>13, <1>14,
     <1>15 DEF PageNext

\* A page that was left.
LEMMA AwayStep == PageInv /\ [PageNext]_pageVars => AwayIsQuiet'
<1> SUFFICES ASSUME PageInv, [PageNext]_pageVars
             PROVE  AwayIsQuiet'
  OBVIOUS
<1> USE DEF PageInv
<1>1. CASE Submits
  BY <1>1 DEF Submits, PageTypeOK, AwayIsQuiet, AboutABatch, StatusRequest, NoAsk,
     NoSubmission, EmptyPage
<1>2. CASE BatchCreated
  BY <1>2 DEF BatchCreated, PageTypeOK, AwayIsQuiet, AboutABatch, StatusRequest, NoAsk,
     NoSubmission, EmptyPage
<1>3. CASE Submitted
  BY <1>3 DEF Submitted, PageTypeOK, AwayIsQuiet, AboutABatch, StatusRequest, NoAsk,
     NoSubmission, EmptyPage
<1>4. CASE SubmitFails
  BY <1>4 DEF SubmitFails, PageTypeOK, AwayIsQuiet, AboutABatch, StatusRequest, NoAsk,
     NoSubmission, EmptyPage
<1>5. CASE PollAsks
  BY <1>5 DEF PollAsks, PageTypeOK, AwayIsQuiet, AboutABatch, StatusRequest, NoAsk,
     NoSubmission, EmptyPage
<1>6. CASE Leaves
  BY <1>6 DEF Leaves, PageTypeOK, AwayIsQuiet, AboutABatch, StatusRequest, NoAsk, NoSubmission,
     EmptyPage
<1>7. CASE Returns
  BY <1>7 DEF Returns, PageTypeOK, AwayIsQuiet, AboutABatch, StatusRequest, NoAsk,
     NoSubmission, EmptyPage
<1>8. ASSUME NEW i \in Slot, ServerReads(i)
      PROVE  AwayIsQuiet'
  BY <1>8 DEF ServerReads, PageTypeOK, AwayIsQuiet, AboutABatch, StatusRequest, NoAsk,
     NoSubmission, EmptyPage
<1>9. ASSUME NEW i \in Slot, PollAnswer(i)
      PROVE  AwayIsQuiet'
  BY <1>9 DEF PollAnswer, PageTypeOK, AwayIsQuiet, AboutABatch, StatusRequest, NoAsk,
     NoSubmission, EmptyPage
<1>10. ASSUME NEW i \in Slot, PollFails(i)
       PROVE  AwayIsQuiet'
  BY <1>10 DEF PollFails, PageTypeOK, AwayIsQuiet, AboutABatch, StatusRequest, NoAsk,
     NoSubmission, EmptyPage
<1>11. CASE RestoreReads
  BY <1>11 DEF RestoreReads, PageTypeOK, AwayIsQuiet, AboutABatch, StatusRequest, NoAsk,
     NoSubmission, EmptyPage
<1>12. CASE Restored
  BY <1>12 DEF Restored, PageTypeOK, AwayIsQuiet, AboutABatch, StatusRequest, NoAsk,
     NoSubmission, EmptyPage
<1>13. CASE RestoreFails
  BY <1>13 DEF RestoreFails, PageTypeOK, AwayIsQuiet, AboutABatch, StatusRequest, NoAsk,
     NoSubmission, EmptyPage
<1>14. CASE Works
  BY <1>14 DEF Works, PageTypeOK, AwayIsQuiet, AboutABatch, StatusRequest, NoAsk, NoSubmission,
     EmptyPage
<1>15. CASE UNCHANGED pageVars
  BY <1>15 DEF pageVars, PageTypeOK, AwayIsQuiet, AboutABatch, StatusRequest, NoAsk,
     NoSubmission, EmptyPage
<1> QED
  BY <1>1, <1>2, <1>3, <1>4, <1>5, <1>6, <1>7, <1>8, <1>9, <1>10, <1>11, <1>12, <1>13, <1>14,
     <1>15 DEF PageNext

\* What is asked.
LEMMA AboutStep == PageInv /\ [PageNext]_pageVars => AboutABatch'
<1> SUFFICES ASSUME PageInv, [PageNext]_pageVars
             PROVE  AboutABatch'
  OBVIOUS
<1> USE DEF PageInv
<1>1. CASE Submits
  BY <1>1 DEF Submits, PageTypeOK, AboutABatch, StatusRequest, NoAsk, NoSubmission, EmptyPage
<1>2. CASE BatchCreated
  BY <1>2 DEF BatchCreated, PageTypeOK, AboutABatch, StatusRequest, NoAsk, NoSubmission,
     EmptyPage
<1>3. CASE Submitted
  BY <1>3 DEF Submitted, PageTypeOK, AboutABatch, StatusRequest, NoAsk, NoSubmission, EmptyPage
<1>4. CASE SubmitFails
  BY <1>4 DEF SubmitFails, PageTypeOK, AboutABatch, StatusRequest, NoAsk, NoSubmission,
     EmptyPage
<1>5. CASE PollAsks
  BY <1>5 DEF PollAsks, PageTypeOK, AboutABatch, StatusRequest, NoAsk, NoSubmission, EmptyPage
<1>6. CASE Leaves
  BY <1>6 DEF Leaves, PageTypeOK, AboutABatch, StatusRequest, NoAsk, NoSubmission, EmptyPage
<1>7. CASE Returns
  BY <1>7 DEF Returns, PageTypeOK, AboutABatch, StatusRequest, NoAsk, NoSubmission, EmptyPage
<1>8. ASSUME NEW i \in Slot, ServerReads(i)
      PROVE  AboutABatch'
  BY <1>8, SeenType DEF ServerReads, AboutABatch, PageTypeOK
<1>9. ASSUME NEW i \in Slot, PollAnswer(i)
      PROVE  AboutABatch'
  BY <1>9 DEF PollAnswer, PageTypeOK, AboutABatch, StatusRequest, NoAsk, NoSubmission, EmptyPage
<1>10. ASSUME NEW i \in Slot, PollFails(i)
       PROVE  AboutABatch'
  BY <1>10 DEF PollFails, PageTypeOK, AboutABatch, StatusRequest, NoAsk, NoSubmission, EmptyPage
<1>11. CASE RestoreReads
  BY <1>11, SeenType DEF RestoreReads, AboutABatch, PageTypeOK
<1>12. CASE Restored
  BY <1>12 DEF Restored, PageTypeOK, AboutABatch, StatusRequest, NoAsk, NoSubmission, EmptyPage
<1>13. CASE RestoreFails
  BY <1>13 DEF RestoreFails, PageTypeOK, AboutABatch, StatusRequest, NoAsk, NoSubmission,
     EmptyPage
<1>14. CASE Works
  BY <1>14 DEF Works, PageTypeOK, AboutABatch, StatusRequest, NoAsk, NoSubmission, EmptyPage
<1>15. CASE UNCHANGED pageVars
  BY <1>15 DEF pageVars, PageTypeOK, AboutABatch, StatusRequest, NoAsk, NoSubmission, EmptyPage
<1> QED
  BY <1>1, <1>2, <1>3, <1>4, <1>5, <1>6, <1>7, <1>8, <1>9, <1>10, <1>11, <1>12, <1>13, <1>14,
     <1>15 DEF PageNext

\* What is shown is polled.
LEMMA FollowsStep == PageInv /\ [PageNext]_pageVars => FollowsShown'
<1> SUFFICES ASSUME PageInv, [PageNext]_pageVars
             PROVE  FollowsShown'
  OBVIOUS
<1> USE DEF PageInv
<1>1. CASE Submits
  BY <1>1 DEF Submits, PageTypeOK, FollowsShown, AwayIsQuiet, AboutABatch, StatusRequest,
     NoAsk, NoSubmission, EmptyPage
<1>2. CASE BatchCreated
  BY <1>2 DEF BatchCreated, PageTypeOK, FollowsShown, AwayIsQuiet, AboutABatch, StatusRequest,
     NoAsk, NoSubmission, EmptyPage
<1>3. CASE Submitted
  BY <1>3 DEF Submitted, PageTypeOK, FollowsShown, AwayIsQuiet, AboutABatch, StatusRequest,
     NoAsk, NoSubmission, EmptyPage
<1>4. CASE SubmitFails
  BY <1>4 DEF SubmitFails, PageTypeOK, FollowsShown, AwayIsQuiet, AboutABatch, StatusRequest,
     NoAsk, NoSubmission, EmptyPage
<1>5. CASE PollAsks
  BY <1>5 DEF PollAsks, PageTypeOK, FollowsShown, AwayIsQuiet, AboutABatch, StatusRequest,
     NoAsk, NoSubmission, EmptyPage
<1>6. CASE Leaves
  BY <1>6 DEF Leaves, PageTypeOK, FollowsShown, AwayIsQuiet, AboutABatch, StatusRequest, NoAsk,
     NoSubmission, EmptyPage
<1>7. CASE Returns
  BY <1>7 DEF Returns, PageTypeOK, FollowsShown, AwayIsQuiet, AboutABatch, StatusRequest,
     NoAsk, NoSubmission, EmptyPage
<1>8. ASSUME NEW i \in Slot, ServerReads(i)
      PROVE  FollowsShown'
  BY <1>8 DEF ServerReads, PageTypeOK, FollowsShown, AwayIsQuiet, AboutABatch, StatusRequest,
     NoAsk, NoSubmission, EmptyPage
<1>9. ASSUME NEW i \in Slot, PollAnswer(i)
      PROVE  FollowsShown'
  BY <1>9 DEF PollAnswer, PageTypeOK, FollowsShown, AwayIsQuiet, AboutABatch, StatusRequest,
     NoAsk, NoSubmission, EmptyPage
<1>10. ASSUME NEW i \in Slot, PollFails(i)
       PROVE  FollowsShown'
  BY <1>10 DEF PollFails, PageTypeOK, FollowsShown, AwayIsQuiet, AboutABatch, StatusRequest,
     NoAsk, NoSubmission, EmptyPage
<1>11. CASE RestoreReads
  BY <1>11 DEF RestoreReads, PageTypeOK, FollowsShown, AwayIsQuiet, AboutABatch, StatusRequest,
     NoAsk, NoSubmission, EmptyPage
<1>12. CASE Restored
  BY <1>12 DEF Restored, PageTypeOK, FollowsShown, AwayIsQuiet, AboutABatch, StatusRequest,
     NoAsk, NoSubmission, EmptyPage
<1>13. CASE RestoreFails
  BY <1>13 DEF RestoreFails, PageTypeOK, FollowsShown, AwayIsQuiet, AboutABatch, StatusRequest,
     NoAsk, NoSubmission, EmptyPage
<1>14. CASE Works
  BY <1>14 DEF Works, PageTypeOK, FollowsShown, AwayIsQuiet, AboutABatch, StatusRequest, NoAsk,
     NoSubmission, EmptyPage
<1>15. CASE UNCHANGED pageVars
  BY <1>15 DEF pageVars, PageTypeOK, FollowsShown, AwayIsQuiet, AboutABatch, StatusRequest,
     NoAsk, NoSubmission, EmptyPage
<1> QED
  BY <1>1, <1>2, <1>3, <1>4, <1>5, <1>6, <1>7, <1>8, <1>9, <1>10, <1>11, <1>12, <1>13, <1>14,
     <1>15 DEF PageNext

\* The invariant holds at the start.
LEMMA PageStarts == PageInit => PageInv
<1> SUFFICES ASSUME PageInit
             PROVE  PageInv
  OBVIOUS
<1>1. PageTypeOK
  BY DEF PageInit, ProgressInit, Stages, PageTypeOK, StatusRequest, NoAsk, NoSubmission,
     EmptyPage
<1>2. AwayIsQuiet /\ AboutABatch /\ FollowsShown
  BY DEF PageInit, AwayIsQuiet, AboutABatch, FollowsShown, NoAsk, NoSubmission, EmptyPage
<1> QED
  BY <1>1, <1>2 DEF PageInv

\* The invariant of the page holds throughout; the fairness is not needed for it.
THEOREM PageInvariant == PageInit /\ [][PageNext]_pageVars => []PageInv
<1>1. PageInit => PageInv
  BY PageStarts
<1>2. PageInv /\ [PageNext]_pageVars => PageInv'
  BY PageTypesStep, AwayStep, AboutStep, FollowsStep DEF PageInv
<1> QED
  BY <1>1, <1>2, PTL

\* The safety part of the specification.
LEMMA PageSafely == PageSpec => PageInit /\ [][PageNext]_pageVars
BY PTL DEF PageSpec

\* The page, its requests and the stages of the batches keep their types
\* (BatchPublish.tsx).
THEOREM PageTypeCorrect == PageSpec => []PageTypeOK
<1>1. PageInv => PageTypeOK
  BY DEF PageInv
<1> QED
  BY <1>1, PageInvariant, PageSafely, PTL

\* A batch that is shown as going on is polled, for any number of batches and of status
\* requests in flight, unless an answer was overtaken (BatchPublish.tsx).
THEOREM ShownIsFollowed == PageSpec => []FollowsShown
<1>1. PageInv => FollowsShown
  BY DEF PageInv
<1> QED
  BY <1>1, PageInvariant, PageSafely, PTL
-----------------------------------------------------------------------------
(* The jobs: the inductive invariant *)

JobRec == [status : {"none", "pending", "publishing", "success", "failed"},
           retries : 0 .. RetryLimit, listed : 0 .. 2, unclear : BOOLEAN]

TaskRec == [at : {"none", "queued", "accounts", "jobs", "publishing", "sync", "done", "lost"},
            accounts : SUBSET Seller, account : SUBSET Seller,
            todo : SUBSET Material, won : BOOLEAN]

JobTypes ==
    /\ job \in [Job -> JobRec]
    /\ runner \in [JobBatch -> TaskRec]
    /\ retry = [on |-> retry.on, counts |-> retry.counts, publishing |-> retry.publishing]
    /\ retry.on \in BOOLEAN
    /\ DOMAIN retry.counts \subseteq Job
    /\ retry.counts \in [DOMAIN retry.counts -> 0 .. RetryLimit]
    /\ retry.publishing \subseteq DOMAIN retry.counts
    /\ \A j \in retry.publishing : retry.counts[j] < RetryLimit
    /\ halted \subseteq JobBatch

\* The jobs that a task has yet to start wait: nobody else touches them.
Waits(b, a, m) ==
    a \in runner[b].accounts \/ (a \in runner[b].account /\ m \in runner[b].todo)

\* A batch that was not created has no jobs.
NotBegun(b) ==
    runner[b].at = "none" =>
        b \notin halted /\ \A i \in Job : i[1] = b => job[i].status = "none"

StillWaiting(b) ==
    \A a \in Seller, m \in Material : Waits(b, a, m) => job[<<b, a, m>>].status = "pending"

\* The account whose jobs are worked on is not one of those to come.
OneByOne(b) == runner[b].account \cap runner[b].accounts = {}

\* A batch that is stuck has lost its task, or has a draft: a job that waits and that its
\* task has been through.
Stuck(b) ==
    \/ runner[b].at = "lost"
    \/ \E a \in Seller, m \in Material :
            job[<<b, a, m>>].status = "pending" /\ ~Waits(b, a, m)

Fits(b) == NotBegun(b) /\ StillWaiting(b) /\ OneByOne(b) /\ (b \in halted => Stuck(b))
TasksFit == \A b \in JobBatch : Fits(b)

\* The retries work on jobs that have failed, the tasks on those that wait.
RetriesFailed == \A j \in DOMAIN retry.counts : job[j].status = "failed"

\* A job is first listed when it succeeds or its end is unclear.
ListedOnce ==
    \A j \in Job :
        /\ job[j].status \in {"none", "pending", "publishing"} =>
                job[j].listed = 0
        /\ job[j].status = "failed" => job[j].listed = 0 \/ job[j].unclear
        /\ job[j].listed > 1 => job[j].unclear

JobsInv == JobTypes /\ TasksFit /\ RetriesFailed /\ ListedOnce

-----------------------------------------------------------------------------
(* What the steps do to the jobs *)

\* A job stands as it did, but for its count of retries.
Stands(i) ==
    job'[i].status = job[i].status /\ job'[i].listed = job[i].listed
      /\ job'[i].unclear = job[i].unclear
OthersStand(j) == \A i \in Job \ {j} : Stands(i)

\* Only the task of one batch goes on.
OtherTasks(b) ==
    /\ runner' \in [JobBatch -> TaskRec]
    /\ \A c \in JobBatch \ {b} : runner'[c] = runner[c]

\* The ways a job can end: listed,
LEMMA ListedType ==
    ASSUME NEW j, job[j] \in JobRec, job[j].listed <= 1
    PROVE  /\ Listed(j) \in JobRec /\ Listed(j).status = "success"
           /\ Listed(j).listed = job[j].listed + 1 /\ Listed(j).unclear = job[j].unclear
<1>1. job[j].listed + 1 \in 0 .. 2
  BY DEF JobRec
<1>2. Listed(j) = [job[j] EXCEPT !.status = "success", !.listed = job[j].listed + 1]
  BY DEF Listed
<1> QED
  BY <1>1, <1>2 DEF JobRec

\* ... refused,
LEMMA RefusedType ==
    ASSUME NEW j, job[j] \in JobRec
    PROVE  /\ Refused(j) \in JobRec /\ Refused(j).status = "failed"
           /\ Refused(j).listed = job[j].listed /\ Refused(j).unclear = job[j].unclear
BY DEF Refused, JobRec

\* ... or listed with nobody learning of it.
LEMMA UnclearType ==
    ASSUME NEW j, job[j] \in JobRec, job[j].listed <= 1
    PROVE  /\ Unclear(j) \in JobRec /\ Unclear(j).status = "failed"
           /\ Unclear(j).listed = job[j].listed + 1 /\ Unclear(j).unclear = TRUE
<1>1. job[j].listed + 1 \in 0 .. 2
  BY DEF JobRec
<1>2. Unclear(j) = [job[j] EXCEPT !.status = "failed", !.listed = job[j].listed + 1,
                                  !.unclear = TRUE]
  BY DEF Unclear
<1> QED
  BY <1>1, <1>2 DEF JobRec

\* How a job of the task ends: listed, kept as a draft, or failed.
Ends(b, j) ==
    /\ job[j].status = "publishing"
    /\ \/ /\ job'[j].status = "success" /\ job'[j].listed = 1 /\ UNCHANGED halted
       \/ /\ job'[j].status = "pending" /\ job'[j].listed = 0 /\ halted' = halted \cup {b}
       \/ /\ job'[j].status = "failed" /\ UNCHANGED halted
          /\ job'[j].listed = 0 \/ (job'[j].listed = 1 /\ job'[j].unclear)

\* What is asked of the platform is answered.
LEMMA JobEndsEffect ==
    ASSUME JobsInv, NEW b \in JobBatch, JobEnds(b)
    PROVE  /\ job' \in [Job -> JobRec] /\ OtherTasks(b) /\ UNCHANGED retry
           /\ runner'[b].at = "jobs" /\ runner[b].at = "publishing"
           /\ runner'[b].accounts = runner[b].accounts
           /\ runner'[b].account = runner[b].account /\ runner'[b].todo = runner[b].todo
           /\ \E a \in runner[b].account, m \in Material :
                <<b, a, m>> \in Job /\ OthersStand(<<b, a, m>>) /\ Ends(b, <<b, a, m>>)
<1>1. PICK a \in runner[b].account, m \in Material :
        LET j == <<b, a, m>> IN
        /\ job[j].status = "publishing"
        /\ \/ /\ job' = [job EXCEPT ![j] = Listed(j)]
              /\ runner' = [runner EXCEPT ![b].at = "jobs", ![b].won = TRUE]
              /\ UNCHANGED halted
           \/ /\ job' = [job EXCEPT ![j].status = "pending"]
              /\ halted' = halted \cup {b}
              /\ runner' = [runner EXCEPT ![b].at = "jobs"]
           \/ /\ \E end \in {Refused(j), Unclear(j)} : job' = [job EXCEPT ![j] = end]
              /\ runner' = [runner EXCEPT ![b].at = "jobs"]
              /\ UNCHANGED halted
  BY DEF JobEnds
<1> DEFINE j == <<b, a, m>>
<1>2. j \in Job
  <2>1. runner[b].account \in SUBSET Seller
    BY DEF JobsInv, JobTypes, TaskRec
  <2> QED
    BY <2>1 DEF Job
<1>3. /\ OtherTasks(b) /\ runner'[b].at = "jobs" /\ runner'[b].accounts = runner[b].accounts
      /\ runner'[b].account = runner[b].account /\ runner'[b].todo = runner[b].todo
  BY <1>1 DEF OtherTasks, TaskRec, JobsInv, JobTypes
<1>4. job[j] \in JobRec /\ job[j].listed = 0
  BY <1>1, <1>2 DEF JobsInv, JobTypes, ListedOnce
<1> HIDE DEF j
<1>5. \E new \in JobRec :
        /\ job' = [job EXCEPT ![j] = new]
        /\ \/ new.status = "success" /\ new.listed = 1 /\ UNCHANGED halted
           \/ new.status = "pending" /\ new.listed = 0 /\ halted' = halted \cup {b}
           \/ /\ new.status = "failed" /\ UNCHANGED halted
              /\ new.listed = 0 \/ (new.listed = 1 /\ new.unclear)
  <2>1. CASE job' = [job EXCEPT ![j] = Listed(j)] /\ UNCHANGED halted
    <3>1. job[j].listed <= 1
      BY <1>4
    <3>2. /\ Listed(j) \in JobRec /\ Listed(j).status = "success"
          /\ Listed(j).listed = job[j].listed + 1
      BY <1>4, <3>1, ListedType
    <3>3. Listed(j).listed = 1
      BY <1>4, <3>2
    <3> QED
      BY <2>1, <3>2, <3>3
  <2>2. CASE job' = [job EXCEPT ![j].status = "pending"] /\ halted' = halted \cup {b}
    <3>1. job' = [job EXCEPT ![j] = [job[j] EXCEPT !.status = "pending"]]
      BY <2>2
    <3>2. [job[j] EXCEPT !.status = "pending"] \in JobRec
      BY <1>4 DEF JobRec
    <3> QED
      BY <2>2, <3>1, <3>2, <1>4 DEF JobRec
  <2>3. CASE job' = [job EXCEPT ![j] = Refused(j)] /\ UNCHANGED halted
    BY <2>3, <1>4, RefusedType
  <2>4. CASE job' = [job EXCEPT ![j] = Unclear(j)] /\ UNCHANGED halted
    <3>1. job[j].listed <= 1
      BY <1>4
    <3>2. /\ Unclear(j) \in JobRec /\ Unclear(j).status = "failed"
          /\ Unclear(j).listed = job[j].listed + 1 /\ Unclear(j).unclear = TRUE
      BY <1>4, <3>1, UnclearType
    <3>3. Unclear(j).listed = 1
      BY <1>4, <3>2
    <3> QED
      BY <2>4, <3>2, <3>3
  <2> QED
    BY <1>1, <2>1, <2>2, <2>3, <2>4 DEF j
<1>6. job' \in [Job -> JobRec] /\ OthersStand(j) /\ Ends(b, j)
  BY <1>1, <1>2, <1>5 DEF JobsInv, JobTypes, OthersStand, Stands, Ends, j
<1> QED
  BY <1>1, <1>2, <1>3, <1>6 DEF j, JobEnds

\* What the task writes of the synchronisation touches the counts of retries only.
LEMMA ForgottenStands ==
    ASSUME JobTypes, NEW b \in JobBatch, job' = Forgotten(b)
    PROVE  job' \in [Job -> JobRec] /\ \A i \in Job : Stands(i)
<1>1. 0 \in 0 .. RetryLimit
  BY JobsAssumption
<1>2. ASSUME NEW i \in Job
      PROVE  job'[i] \in JobRec /\ Stands(i)
  BY <1>1 DEF Forgotten, JobTypes, JobRec, Stands
<1> QED
  BY <1>2 DEF Forgotten

\* The jobs of an account are done.
LEMMA AccountEndsEffect ==
    ASSUME JobTypes, NEW b \in JobBatch, AccountEnds(b)
    PROVE  /\ job' \in [Job -> JobRec] /\ \A i \in Job : Stands(i)
           /\ OtherTasks(b) /\ UNCHANGED <<retry, halted>>
           /\ runner[b].at = "jobs" /\ runner'[b].at \in {"sync", "accounts"}
           /\ runner'[b].accounts = runner[b].accounts
           /\ runner'[b].account \in {runner[b].account, {}}
           /\ runner[b].todo = {} /\ runner'[b].todo = {}
<1>1. CASE job' = Forgotten(b) /\ runner' = [runner EXCEPT ![b].at = "sync"]
  BY <1>1, ForgottenStands DEF AccountEnds, OtherTasks, TaskRec, JobTypes
<1>2. CASE runner' = [runner EXCEPT ![b].at = "accounts", ![b].account = {}] /\ UNCHANGED job
  BY <1>2 DEF AccountEnds, OtherTasks, TaskRec, JobTypes, Stands
<1> QED
  BY <1>1, <1>2 DEF AccountEnds

\* Its items are fetched.
LEMMA SyncEndsEffect ==
    ASSUME JobTypes, NEW b \in JobBatch, SyncEnds(b)
    PROVE  /\ job' \in [Job -> JobRec] /\ \A i \in Job : Stands(i)
           /\ OtherTasks(b) /\ UNCHANGED <<retry, halted>>
           /\ runner[b].at = "sync" /\ runner'[b].at = "accounts"
           /\ runner'[b].accounts = runner[b].accounts /\ runner'[b].account = {}
           /\ runner'[b].todo = runner[b].todo
BY ForgottenStands DEF SyncEnds, OtherTasks, TaskRec, JobTypes

\* An account that may not publish: its jobs waited, and fail.
LEMMA AccountFailsEffect ==
    ASSUME JobsInv, NEW b \in JobBatch, NEW a \in Seller, AccountFails(b, a)
    PROVE  /\ job' \in [Job -> JobRec] /\ OtherTasks(b) /\ UNCHANGED <<retry, halted>>
           /\ \A i \in Job : \/ job'[i] = job[i]
                             \/ /\ i[1] = b
                                /\ job[i].status = "pending" /\ job'[i].status = "failed"
                                /\ job'[i].listed = 0
           /\ runner[b].at = "accounts" /\ runner'[b].at = "accounts"
           /\ a \in runner[b].accounts /\ runner'[b].accounts = runner[b].accounts \ {a}
           /\ runner'[b].account = runner[b].account /\ runner'[b].todo = runner[b].todo
<1>1. /\ OtherTasks(b) /\ UNCHANGED <<retry, halted>>
      /\ runner[b].at = "accounts" /\ runner'[b].at = "accounts"
      /\ a \in runner[b].accounts /\ runner'[b].accounts = runner[b].accounts \ {a}
      /\ runner'[b].account = runner[b].account /\ runner'[b].todo = runner[b].todo
  BY DEF AccountFails, OtherTasks, TaskRec, JobsInv, JobTypes
<1>2. job' = [j \in Job |-> IF j \in JobsOf(b, a) THEN [job[j] EXCEPT !.status = "failed"]
                            ELSE job[j]]
  BY DEF AccountFails
<1>3. ASSUME NEW c \in JobBatch, NEW d \in Seller, NEW m \in Material
      PROVE  /\ <<c, d, m>> \in Job /\ <<c, d, m>>[1] = c
             /\ <<c, d, m>> \in JobsOf(b, a) <=> c = b /\ d = a
             /\ c = b /\ d = a => job[<<c, d, m>>].status = "pending"
  BY <1>1 DEF Job, JobsOf, JobsInv, TasksFit, Fits, StillWaiting, Waits
<1>4. ASSUME NEW i \in Job
      PROVE  \E c \in JobBatch, d \in Seller, m \in Material : i = <<c, d, m>>
  BY DEF Job
<1>5. ASSUME NEW i \in Job
      PROVE  /\ job'[i] \in JobRec
             /\ i \in JobsOf(b, a) => /\ i[1] = b /\ job[i].status = "pending"
                                      /\ job'[i].status = "failed" /\ job'[i].listed = 0
             /\ i \notin JobsOf(b, a) => job'[i] = job[i]
  <2>1. i \in JobsOf(b, a) => i[1] = b /\ job[i].status = "pending" /\ job[i].listed = 0
    BY <1>3, <1>4 DEF JobsInv, ListedOnce
  <2>2. job[i] \in JobRec
    BY DEF JobsInv, JobTypes
  <2> QED
    BY <1>2, <2>1, <2>2 DEF JobRec
<1>6. job' \in [Job -> JobRec]
  BY <1>2, <1>5
<1> QED
  BY <1>1, <1>3, <1>5, <1>6

\* A retry that is passed over.
LEMMA RetrySkipsEffect ==
    ASSUME JobTypes, NEW j \in Job, RetrySkips(j)
    PROVE  /\ job' \in [Job -> JobRec] /\ \A i \in Job : Stands(i)
           /\ UNCHANGED <<runner, halted>>
           /\ retry' = [retry EXCEPT !.counts = Without(j)] /\ retry.publishing = {}
<1>1. retry.counts[j] \in 0 .. RetryLimit /\ job[j] \in JobRec
  BY DEF RetrySkips, JobTypes
<1>2. CASE UNCHANGED job
  BY <1>2 DEF RetrySkips, JobTypes, Stands
<1>3. CASE retry.counts[j] < RetryLimit /\ job' = [job EXCEPT ![j].retries = retry.counts[j] + 1]
  <2>1. job' = [job EXCEPT ![j] = [job[j] EXCEPT !.retries = retry.counts[j] + 1]]
    BY <1>3
  <2>2. retry.counts[j] + 1 \in 0 .. RetryLimit
    BY <1>1, <1>3, JobsAssumption
  <2>3. [job[j] EXCEPT !.retries = retry.counts[j] + 1] \in JobRec
    BY <1>1, <2>2 DEF JobRec
  <2> QED
    BY <1>1, <2>1, <2>3 DEF RetrySkips, JobTypes, JobRec, Stands
<1> QED
  BY <1>2, <1>3 DEF RetrySkips

\* What is left to retry is what was selected, but for one.
LEMMA WithoutType ==
    ASSUME JobTypes, NEW j \in Job
    PROVE  /\ DOMAIN Without(j) = DOMAIN retry.counts \ {j}
           /\ Without(j) \in [DOMAIN retry.counts \ {j} -> 0 .. RetryLimit]
BY DEF JobTypes, Without

\* A retry that is answered: the job had failed, and is listed, drafted, or fails again.
LEMMA RetryAnswerEffect ==
    ASSUME JobsInv, NEW j \in Job, RetryAnswer(j)
    PROVE  /\ job' \in [Job -> JobRec] /\ OthersStand(j) /\ UNCHANGED <<runner, halted>>
           /\ job[j].status = "failed" /\ job'[j].status \in {"success", "failed"}
           /\ job'[j].status = "failed" => job'[j].listed = 0 \/ job'[j].unclear
           /\ job'[j].listed > 1 => job'[j].unclear
           /\ retry' = [retry EXCEPT !.publishing = {}, !.counts = Without(j)]
<1>1. PICK end \in {Listed(j), [job[j] EXCEPT !.status = "success"], Refused(j), Unclear(j)} :
        end.listed <= 2 /\ job' = [job EXCEPT ![j] = [end EXCEPT !.retries = retry.counts[j] + 1]]
  BY DEF RetryAnswer
<1>2. /\ j \in DOMAIN retry.counts /\ job[j].status = "failed"
      /\ job[j] \in JobRec /\ (job[j].listed = 0 \/ job[j].unclear)
  BY DEF RetryAnswer, JobsInv, JobTypes, RetriesFailed, ListedOnce
<1>3. retry.counts[j] + 1 \in 0 .. RetryLimit
  BY <1>2, JobsAssumption DEF RetryAnswer, JobsInv, JobTypes
<1>4. /\ end \in JobRec /\ end.status \in {"success", "failed"}
      /\ end.status = "failed" => end.listed = 0 \/ end.unclear
      /\ end.listed > 1 => end.unclear
  <2>1. CASE end = Listed(j)
    <3>1. end.listed = job[j].listed + 1
      BY <2>1 DEF Listed, JobRec
    <3>2. job[j].listed <= 1 /\ job[j].listed \in Nat
      BY <1>1, <1>2, <3>1 DEF JobRec
    <3> QED
      BY <1>2, <2>1, <3>2, ListedType
  <2>2. CASE end = [job[j] EXCEPT !.status = "success"]
    BY <2>2, <1>2 DEF JobRec
  <2>3. CASE end = Refused(j)
    BY <1>2, <2>3, RefusedType
  <2>4. CASE end = Unclear(j)
    <3>1. end.listed = job[j].listed + 1
      BY <2>4 DEF Unclear, JobRec
    <3>2. job[j].listed <= 1 /\ job[j].listed \in Nat
      BY <1>1, <1>2, <3>1 DEF JobRec
    <3> QED
      BY <1>2, <2>4, <3>2, UnclearType
  <2> QED
    BY <2>1, <2>2, <2>3, <2>4
<1>5. [end EXCEPT !.retries = retry.counts[j] + 1] \in JobRec
  BY <1>3, <1>4 DEF JobRec
<1>6. job' \in [Job -> JobRec] /\ OthersStand(j)
  BY <1>1, <1>5 DEF JobsInv, JobTypes, OthersStand, Stands
<1>7. /\ job'[j].status = end.status /\ job'[j].listed = end.listed
      /\ job'[j].unclear = end.unclear
  BY <1>1, <1>4 DEF JobsInv, JobTypes, JobRec
<1> QED
  BY <1>2, <1>4, <1>6, <1>7 DEF RetryAnswer

-----------------------------------------------------------------------------
(* Every step of the jobs keeps the invariant *)

StatusesStand(c) == \A i \in Job : i[1] = c => job'[i].status = job[i].status

\* A batch whose task and jobs stand as they did.
LEMMA BatchStands ==
    ASSUME JobsInv, NEW c \in JobBatch, StatusesStand(c), runner'[c] = runner[c],
           c \in halted' => c \in halted
    PROVE  Fits(c)'
<1>1. \A a \in Seller, m \in Material : <<c, a, m>> \in Job /\ <<c, a, m>>[1] = c
  BY DEF Job
<1>2. \A a \in Seller, m \in Material :
        /\ job'[<<c, a, m>>].status = job[<<c, a, m>>].status
        /\ Waits(c, a, m)' <=> Waits(c, a, m)
  BY <1>1 DEF StatusesStand, Waits
<1>3. Fits(c)
  BY DEF JobsInv, TasksFit
<1>4. NotBegun(c)'
  BY <1>3 DEF Fits, NotBegun, StatusesStand
<1>5. StillWaiting(c)' /\ OneByOne(c)'
  BY <1>2, <1>3 DEF Fits, StillWaiting, OneByOne
<1>6. c \in halted' => Stuck(c)'
  BY <1>2, <1>3 DEF Fits, Stuck
<1> QED
  BY <1>4, <1>5, <1>6 DEF Fits

\* A task that goes on, to no more jobs than before.
LEMMA TaskGoesOn ==
    ASSUME JobsInv, NEW b \in JobBatch, StatusesStand(b), UNCHANGED halted,
           runner[b].at \notin {"none", "lost"}, runner'[b].at # "none", OneByOne(b)',
           \A a \in Seller, m \in Material : Waits(b, a, m)' => Waits(b, a, m)
    PROVE  Fits(b)'
<1>1. \A a \in Seller, m \in Material : <<b, a, m>> \in Job /\ <<b, a, m>>[1] = b
  BY DEF Job
<1>2. \A a \in Seller, m \in Material : job'[<<b, a, m>>].status = job[<<b, a, m>>].status
  BY <1>1 DEF StatusesStand
<1>3. Fits(b)
  BY DEF JobsInv, TasksFit
<1>4. StillWaiting(b)'
  BY <1>2, <1>3 DEF Fits, StillWaiting
<1>5. b \in halted' => Stuck(b)'
  BY <1>2, <1>3 DEF Fits, Stuck
<1> QED
  BY <1>4, <1>5 DEF Fits, NotBegun

\* The types.
LEMMA JobTypesStep == JobsInv /\ [JobsNext]_jobsVars => JobTypes'
<1> SUFFICES ASSUME JobsInv, [JobsNext]_jobsVars
             PROVE  JobTypes'
  OBVIOUS
<1> USE DEF JobsInv
<1>1. ASSUME NEW b \in JobBatch, Create(b)
      PROVE  JobTypes'
  BY <1>1 DEF Create, NotStarted, TaskRec, JobTypes, JobRec
<1>2. ASSUME NEW b \in JobBatch, RunnerStarts(b)
      PROVE  JobTypes'
  BY <1>2 DEF RunnerStarts, TaskRec, JobTypes, JobRec
<1>3. ASSUME NEW b \in JobBatch, JobStarts(b)
      PROVE  JobTypes'
  BY <1>3 DEF JobStarts, TaskRec, JobTypes, JobRec
<1>4. ASSUME NEW b \in JobBatch, JobEnds(b)
      PROVE  JobTypes'
  BY <1>4, JobEndsEffect DEF Ends, OtherTasks, JobTypes
<1>5. ASSUME NEW b \in JobBatch, AccountEnds(b)
      PROVE  JobTypes'
  BY <1>5, AccountEndsEffect DEF OtherTasks, JobTypes
<1>6. ASSUME NEW b \in JobBatch, SyncEnds(b)
      PROVE  JobTypes'
  BY <1>6, SyncEndsEffect DEF OtherTasks, JobTypes
<1>7. ASSUME NEW b \in JobBatch, RunnerEnds(b)
      PROVE  JobTypes'
  BY <1>7 DEF RunnerEnds, TaskRec, JobTypes, JobRec
<1>8. ASSUME NEW b \in JobBatch, NEW a \in Seller, AccountFails(b, a)
      PROVE  JobTypes'
  BY <1>8, AccountFailsEffect DEF OtherTasks, JobTypes
<1>9. ASSUME NEW b \in JobBatch, NEW a \in Seller, AccountStarts(b, a)
      PROVE  JobTypes'
  BY <1>9 DEF AccountStarts, TaskRec, JobTypes, JobRec
<1>10. CASE Restart
  BY <1>10 DEF Restart, TaskLost, NotStarted, TaskRec, JobTypes, JobRec
<1>11. CASE RetrySelects
  BY <1>11 DEF RetrySelects, TaskRec, JobTypes, JobRec
<1>12. CASE RetryEnds
  BY <1>12 DEF RetryEnds, NoRetry, TaskRec, JobTypes, JobRec
<1>13. ASSUME NEW j \in Job, RetrySkips(j)
       PROVE  JobTypes'
  BY <1>13, RetrySkipsEffect, WithoutType DEF JobTypes
<1>14. ASSUME NEW j \in Job, RetryPublishes(j)
       PROVE  JobTypes'
  BY <1>14 DEF RetryPublishes, TaskRec, JobTypes, JobRec
<1>15. ASSUME NEW j \in Job, RetryAnswer(j)
       PROVE  JobTypes'
  BY <1>15, RetryAnswerEffect, WithoutType DEF JobTypes
<1>16. CASE UNCHANGED jobsVars
  BY <1>16 DEF jobsVars, TaskRec, JobTypes, JobRec
<1>17. ASSUME NEW b \in JobBatch, TaskDies(b)
       PROVE  JobTypes'
  BY <1>17 DEF TaskDies, TaskLost, NotStarted, TaskRec, JobTypes, JobRec
<1> QED
  BY <1>1, <1>2, <1>3, <1>4, <1>5, <1>6, <1>7, <1>8, <1>9, <1>10, <1>11, <1>12, <1>13, <1>14,
     <1>15, <1>16, <1>17 DEF JobsNext, RunnerSteps

\* The tasks and their batches.
LEMMA FitStep == JobsInv /\ [JobsNext]_jobsVars => TasksFit'
<1> SUFFICES ASSUME JobsInv, [JobsNext]_jobsVars
             PROVE  TasksFit'
  OBVIOUS
<1> USE DEF JobsInv
<1>1. ASSUME NEW b \in JobBatch, Create(b)
      PROVE  TasksFit'
  <2>1. \A i \in Job : IF i[1] = b THEN job'[i].status = "pending" ELSE job'[i] = job[i]
    BY <1>1 DEF Create, JobTypes, JobRec
  <2>2. OtherTasks(b) /\ UNCHANGED halted /\ b \notin halted /\ runner'[b].at = "queued"
    BY <1>1 DEF Create, OtherTasks, NotStarted, TaskRec, JobTypes, TasksFit, Fits, NotBegun
  <2>3. runner'[b].account = {}
    BY <1>1 DEF Create, NotStarted, JobTypes
  <2>4. \A a \in Seller, m \in Material : <<b, a, m>> \in Job /\ <<b, a, m>>[1] = b
    BY DEF Job
  <2>5. Fits(b)'
    BY <2>1, <2>2, <2>3, <2>4 DEF Fits, NotBegun, StillWaiting, OneByOne
  <2>6. \A c \in JobBatch \ {b} : Fits(c)'
    BY <2>1, <2>2, BatchStands DEF StatusesStand, OtherTasks
  <2> QED
    BY <2>5, <2>6 DEF TasksFit
<1>2. ASSUME NEW b \in JobBatch, RunnerStarts(b)
      PROVE  TasksFit'
  <2>1. OtherTasks(b) /\ UNCHANGED halted /\ \A i \in Job : job'[i].status = job[i].status
    BY <1>2 DEF RunnerStarts, OtherTasks, TaskRec, JobTypes, OneByOne, Waits, TasksFit, Fits
  <2>2. /\ runner[b].at \notin {"none", "lost"} /\ runner'[b].at # "none"
        /\ OneByOne(b)' /\ \A c \in Seller, m \in Material : Waits(b, c, m)' => Waits(b, c, m)
    BY <1>2 DEF RunnerStarts, OtherTasks, TaskRec, JobTypes, OneByOne, Waits, TasksFit, Fits
  <2>3. Fits(b)'
    BY <2>1, <2>2, TaskGoesOn DEF StatusesStand
  <2>4. \A c \in JobBatch \ {b} : Fits(c)'
    BY <2>1, BatchStands DEF StatusesStand, OtherTasks
  <2> QED
    BY <2>3, <2>4 DEF TasksFit
<1>3. ASSUME NEW b \in JobBatch, JobStarts(b)
      PROVE  TasksFit'
  <2>1. PICK m \in runner[b].todo, a \in runner[b].account :
          /\ runner' = [runner EXCEPT ![b].at = "publishing", ![b].todo = @ \ {m}]
          /\ job' = [job EXCEPT ![<<b, a, m>>].status = "publishing"]
    BY <1>3 DEF JobStarts
  <2>2. a \in Seller /\ m \in Material /\ <<b, a, m>> \in Job /\ <<b, a, m>>[1] = b
    BY DEF Job, JobTypes, TaskRec
  <2>3. /\ OtherTasks(b) /\ UNCHANGED halted
        /\ \A i \in Job \ {<<b, a, m>>} : job'[i] = job[i]
    BY <1>3, <2>1 DEF JobStarts, OtherTasks, TaskRec, JobTypes
  <2>4. /\ runner'[b].at = "publishing" /\ runner'[b].account = runner[b].account
        /\ runner'[b].accounts = runner[b].accounts /\ runner'[b].todo = runner[b].todo \ {m}
    BY <2>1 DEF JobTypes, TaskRec
  <2>5. Fits(b) /\ Waits(b, a, m) /\ job[<<b, a, m>>].status = "pending" /\ runner[b].at = "jobs"
    BY <1>3, <2>2 DEF JobStarts, TasksFit, Fits, StillWaiting, Waits
  <2>6. ASSUME NEW d \in Seller, NEW n \in Material
        PROVE  /\ <<b, d, n>> \in Job /\ (<<b, d, n>> = <<b, a, m>> => d = a /\ n = m)
               /\ Waits(b, d, n)' => Waits(b, d, n) /\ ~(d = a /\ n = m)
    BY <2>4, <2>5 DEF Job, Waits, Fits, OneByOne
  <2>7. StillWaiting(b)' /\ OneByOne(b)' /\ NotBegun(b)'
    BY <2>3, <2>4, <2>5, <2>6 DEF Fits, StillWaiting, OneByOne, NotBegun
  <2>8. b \in halted' => Stuck(b)'
    <3> SUFFICES ASSUME b \in halted
                 PROVE  Stuck(b)'
      BY <2>3
    <3>1. PICK d \in Seller, n \in Material :
            job[<<b, d, n>>].status = "pending" /\ ~Waits(b, d, n)
      BY <2>5 DEF Fits, Stuck
    <3>2. <<b, d, n>> # <<b, a, m>>
      BY <2>5, <2>6, <3>1
    <3> QED
      BY <2>3, <2>6, <3>1, <3>2 DEF Stuck
  <2>9. Fits(b)'
    BY <2>7, <2>8 DEF Fits
  <2>10. ASSUME NEW c \in JobBatch \ {b}
         PROVE  Fits(c)'
    <3>1. StatusesStand(c)
      BY <2>2, <2>3 DEF StatusesStand
    <3> QED
      BY <2>3, <3>1, BatchStands DEF OtherTasks
  <2> QED
    BY <2>9, <2>10 DEF TasksFit
<1>4. ASSUME NEW b \in JobBatch, JobEnds(b)
      PROVE  TasksFit'
  <2>1. /\ OtherTasks(b) /\ runner'[b].at = "jobs" /\ runner[b].at = "publishing"
        /\ runner'[b].accounts = runner[b].accounts
        /\ runner'[b].account = runner[b].account /\ runner'[b].todo = runner[b].todo
    BY <1>4, JobEndsEffect
  <2>2. PICK a \in runner[b].account, m \in Material :
          <<b, a, m>> \in Job /\ OthersStand(<<b, a, m>>) /\ Ends(b, <<b, a, m>>)
    BY <1>4, JobEndsEffect
  <2>3. a \in Seller /\ <<b, a, m>>[1] = b
    BY DEF JobTypes, TaskRec
  <2>4. Fits(b) /\ ~Waits(b, a, m)
    BY <2>2, <2>3 DEF TasksFit, Fits, StillWaiting, Ends
  <2>5. ASSUME NEW d \in Seller, NEW n \in Material
        PROVE  /\ <<b, d, n>> \in Job /\ (<<b, d, n>> = <<b, a, m>> => d = a /\ n = m)
               /\ Waits(b, d, n)' <=> Waits(b, d, n)
    BY <2>1 DEF Job, Waits
  <2>6. ASSUME NEW d \in Seller, NEW n \in Material, <<b, d, n>> # <<b, a, m>>
        PROVE  job'[<<b, d, n>>].status = job[<<b, d, n>>].status
    BY <2>2, <2>5, <2>6 DEF OthersStand, Stands
  <2>7. StillWaiting(b)' /\ OneByOne(b)' /\ NotBegun(b)'
    BY <2>1, <2>4, <2>5, <2>6 DEF Fits, StillWaiting, OneByOne, NotBegun
  <2>8. ASSUME UNCHANGED halted
        PROVE  Fits(b)'
    <3> SUFFICES ASSUME b \in halted
                 PROVE  Stuck(b)'
      BY <2>7, <2>8 DEF Fits
    <3>1. PICK d \in Seller, n \in Material :
            job[<<b, d, n>>].status = "pending" /\ ~Waits(b, d, n)
      BY <2>1, <2>4 DEF Fits, Stuck
    <3>2. <<b, d, n>> # <<b, a, m>>
      BY <2>2, <3>1 DEF Ends
    <3> QED
      BY <2>5, <2>6, <3>1, <3>2 DEF Stuck
  <2>9. ASSUME job'[<<b, a, m>>].status = "pending", halted' = halted \cup {b}
        PROVE  Fits(b)'
    <3>1. Stuck(b)'
      BY <2>3, <2>4, <2>5, <2>9 DEF Stuck
    <3> QED
      BY <2>7, <3>1 DEF Fits
  <2>10. Fits(b)'
    BY <2>2, <2>7, <2>8, <2>9 DEF Ends, Fits
  <2>11. ASSUME NEW c \in JobBatch \ {b}
         PROVE  Fits(c)'
    <3>1. StatusesStand(c)
      BY <2>2, <2>3 DEF StatusesStand, OthersStand, Stands
    <3>2. c \in halted' => c \in halted
      BY <2>2 DEF Ends
    <3> QED
      BY <2>1, <3>1, <3>2, BatchStands DEF OtherTasks
  <2> QED
    BY <2>10, <2>11 DEF TasksFit
<1>5. ASSUME NEW b \in JobBatch, AccountEnds(b)
      PROVE  TasksFit'
  <2>1. OtherTasks(b) /\ UNCHANGED halted /\ \A i \in Job : job'[i].status = job[i].status
    BY <1>5, AccountEndsEffect DEF OtherTasks, TaskRec, JobTypes, OneByOne, Waits, TasksFit,
       Fits, Stands
  <2>2. /\ runner[b].at \notin {"none", "lost"} /\ runner'[b].at # "none"
        /\ OneByOne(b)' /\ \A c \in Seller, m \in Material : Waits(b, c, m)' => Waits(b, c, m)
    BY <1>5, AccountEndsEffect DEF OtherTasks, TaskRec, JobTypes, OneByOne, Waits, TasksFit,
       Fits, Stands
  <2>3. Fits(b)'
    BY <2>1, <2>2, TaskGoesOn DEF StatusesStand
  <2>4. \A c \in JobBatch \ {b} : Fits(c)'
    BY <2>1, BatchStands DEF StatusesStand, OtherTasks
  <2> QED
    BY <2>3, <2>4 DEF TasksFit
<1>6. ASSUME NEW b \in JobBatch, SyncEnds(b)
      PROVE  TasksFit'
  <2>1. OtherTasks(b) /\ UNCHANGED halted /\ \A i \in Job : job'[i].status = job[i].status
    BY <1>6, SyncEndsEffect DEF OtherTasks, TaskRec, JobTypes, OneByOne, Waits, TasksFit, Fits,
       Stands
  <2>2. /\ runner[b].at \notin {"none", "lost"} /\ runner'[b].at # "none"
        /\ OneByOne(b)' /\ \A c \in Seller, m \in Material : Waits(b, c, m)' => Waits(b, c, m)
    BY <1>6, SyncEndsEffect DEF OtherTasks, TaskRec, JobTypes, OneByOne, Waits, TasksFit, Fits,
       Stands
  <2>3. Fits(b)'
    BY <2>1, <2>2, TaskGoesOn DEF StatusesStand
  <2>4. \A c \in JobBatch \ {b} : Fits(c)'
    BY <2>1, BatchStands DEF StatusesStand, OtherTasks
  <2> QED
    BY <2>3, <2>4 DEF TasksFit
<1>7. ASSUME NEW b \in JobBatch, RunnerEnds(b)
      PROVE  TasksFit'
  <2>1. OtherTasks(b) /\ UNCHANGED halted /\ \A i \in Job : job'[i].status = job[i].status
    BY <1>7 DEF RunnerEnds, OtherTasks, TaskRec, JobTypes, OneByOne, Waits, TasksFit, Fits
  <2>2. /\ runner[b].at \notin {"none", "lost"} /\ runner'[b].at # "none"
        /\ OneByOne(b)' /\ \A c \in Seller, m \in Material : Waits(b, c, m)' => Waits(b, c, m)
    BY <1>7 DEF RunnerEnds, OtherTasks, TaskRec, JobTypes, OneByOne, Waits, TasksFit, Fits
  <2>3. Fits(b)'
    BY <2>1, <2>2, TaskGoesOn DEF StatusesStand
  <2>4. \A c \in JobBatch \ {b} : Fits(c)'
    BY <2>1, BatchStands DEF StatusesStand, OtherTasks
  <2> QED
    BY <2>3, <2>4 DEF TasksFit
<1>8. ASSUME NEW b \in JobBatch, NEW a \in Seller, AccountFails(b, a)
      PROVE  TasksFit'
  <2>1. /\ OtherTasks(b) /\ UNCHANGED halted
        /\ runner[b].at = "accounts" /\ runner'[b].at = "accounts"
        /\ a \in runner[b].accounts /\ runner'[b].accounts = runner[b].accounts \ {a}
        /\ runner'[b].account = runner[b].account /\ runner'[b].todo = runner[b].todo
    BY <1>8, AccountFailsEffect
  <2>2. ASSUME NEW d \in Seller, NEW m \in Material
        PROVE  IF d = a THEN job[<<b, d, m>>].status = "pending"
               ELSE job'[<<b, d, m>>] = job[<<b, d, m>>]
    <3>1. /\ <<b, d, m>> \in Job
          /\ <<b, d, m>> \in JobsOf(b, a) <=> d = a
      BY DEF Job, JobsOf
    <3>2. d # a => job'[<<b, d, m>>] = job[<<b, d, m>>]
      BY <1>8, <3>1 DEF AccountFails
    <3>3. d = a => job[<<b, d, m>>].status = "pending"
      BY <1>8, <2>1 DEF TasksFit, Fits, StillWaiting, Waits
    <3> QED
      BY <3>2, <3>3
  <2>3. Fits(b)
    BY DEF TasksFit
  <2>4. ASSUME NEW d \in Seller, NEW m \in Material
        PROVE  Waits(b, d, m)' <=> (Waits(b, d, m) /\ d # a)
    BY <2>1, <2>3 DEF Fits, OneByOne, Waits
  <2>5. StillWaiting(b)' /\ OneByOne(b)' /\ NotBegun(b)'
    BY <2>1, <2>2, <2>3, <2>4 DEF Fits, StillWaiting, OneByOne, NotBegun
  <2>6. b \in halted' => Stuck(b)'
    <3> SUFFICES ASSUME b \in halted
                 PROVE  Stuck(b)'
      BY <2>1
    <3>1. PICK d \in Seller, n \in Material :
            job[<<b, d, n>>].status = "pending" /\ ~Waits(b, d, n)
      BY <2>1, <2>3 DEF Fits, Stuck
    <3>2. d # a
      BY <2>1, <3>1 DEF Waits
    <3> QED
      BY <2>2, <2>4, <3>1, <3>2 DEF Stuck
  <2>7. Fits(b)'
    BY <2>5, <2>6 DEF Fits
  <2>8. ASSUME NEW c \in JobBatch \ {b}
        PROVE  Fits(c)'
    <3>1. StatusesStand(c)
      BY <1>8, AccountFailsEffect DEF StatusesStand
    <3> QED
      BY <2>1, <3>1, BatchStands DEF OtherTasks
  <2> QED
    BY <2>7, <2>8 DEF TasksFit
<1>9. ASSUME NEW b \in JobBatch, NEW a \in Seller, AccountStarts(b, a)
      PROVE  TasksFit'
  <2>1. OtherTasks(b) /\ UNCHANGED halted /\ \A i \in Job : job'[i].status = job[i].status
    BY <1>9 DEF AccountStarts, OtherTasks, TaskRec, JobTypes, OneByOne, Waits, TasksFit, Fits
  <2>2. /\ runner[b].at \notin {"none", "lost"} /\ runner'[b].at # "none"
        /\ OneByOne(b)' /\ \A c \in Seller, m \in Material : Waits(b, c, m)' => Waits(b, c, m)
    BY <1>9 DEF AccountStarts, OtherTasks, TaskRec, JobTypes, OneByOne, Waits, TasksFit, Fits
  <2>3. Fits(b)'
    BY <2>1, <2>2, TaskGoesOn DEF StatusesStand
  <2>4. \A c \in JobBatch \ {b} : Fits(c)'
    BY <2>1, BatchStands DEF StatusesStand, OtherTasks
  <2> QED
    BY <2>3, <2>4 DEF TasksFit
<1>10. CASE Restart
  <2> DEFINE running == {b \in JobBatch : Working(b)}
  <2>1. /\ UNCHANGED job /\ halted' = halted \cup running
        /\ \A b \in JobBatch : IF b \in running THEN runner'[b] = TaskLost
                               ELSE runner'[b] = runner[b]
    BY <1>10 DEF Restart
  <2>2. ASSUME NEW b \in running
        PROVE  Fits(b)'
    <3>1. runner'[b].at = "lost" /\ runner'[b].accounts = {} /\ runner'[b].account = {}
      BY <2>1 DEF TaskLost, NotStarted
    <3> QED
      BY <3>1 DEF Fits, NotBegun, StillWaiting, OneByOne, Stuck, Waits
  <2>3. ASSUME NEW b \in JobBatch \ running
        PROVE  Fits(b)'
    <3>1. StatusesStand(b) /\ runner'[b] = runner[b] /\ (b \in halted' => b \in halted)
      BY <2>1 DEF StatusesStand
    <3> QED
      BY <3>1, BatchStands
  <2> QED
    BY <2>2, <2>3 DEF TasksFit
<1>11. CASE RetrySelects
  <2>1. \A c \in JobBatch : StatusesStand(c) /\ runner'[c] = runner[c]
    BY <1>11 DEF RetrySelects, StatusesStand
  <2>2. UNCHANGED halted
    BY <1>11 DEF RetrySelects
  <2> QED
    BY <2>1, <2>2, BatchStands DEF TasksFit
<1>12. CASE RetryEnds
  <2>1. \A c \in JobBatch : StatusesStand(c) /\ runner'[c] = runner[c]
    BY <1>12 DEF RetryEnds, StatusesStand
  <2>2. UNCHANGED halted
    BY <1>12 DEF RetryEnds
  <2> QED
    BY <2>1, <2>2, BatchStands DEF TasksFit
<1>13. ASSUME NEW j \in Job, RetrySkips(j)
       PROVE  TasksFit'
  <2>1. \A c \in JobBatch : StatusesStand(c) /\ runner'[c] = runner[c]
    BY <1>13, RetrySkipsEffect DEF Stands, StatusesStand
  <2>2. UNCHANGED halted
    BY <1>13, RetrySkipsEffect
  <2> QED
    BY <2>1, <2>2, BatchStands DEF TasksFit
<1>14. ASSUME NEW j \in Job, RetryPublishes(j)
       PROVE  TasksFit'
  <2>1. \A c \in JobBatch : StatusesStand(c) /\ runner'[c] = runner[c]
    BY <1>14 DEF RetryPublishes, StatusesStand
  <2>2. UNCHANGED halted
    BY <1>14 DEF RetryPublishes
  <2> QED
    BY <2>1, <2>2, BatchStands DEF TasksFit
<1>15. ASSUME NEW j \in Job, RetryAnswer(j)
       PROVE  TasksFit'
  <2>1. /\ UNCHANGED <<runner, halted>> /\ OthersStand(j)
        /\ job[j].status = "failed" /\ job'[j].status \in {"success", "failed"}
    BY <1>15, RetryAnswerEffect
  <2>2. ASSUME NEW c \in JobBatch
        PROVE  Fits(c)'
    <3>1. Fits(c)
      BY DEF TasksFit
    <3>2. \A i \in Job : /\ job[i].status \in {"none", "pending"} => job'[i].status = job[i].status
                         /\ job'[i].status = "none" => job[i].status = "none"
      BY <2>1 DEF OthersStand, Stands
    <3>3. \A a \in Seller, m \in Material :
            <<c, a, m>> \in Job /\ (Waits(c, a, m)' <=> Waits(c, a, m))
      BY <2>1 DEF Job, Waits
    <3> QED
      BY <2>1, <3>1, <3>2, <3>3 DEF Fits, NotBegun, StillWaiting, OneByOne, Stuck
  <2> QED
    BY <2>2 DEF TasksFit
<1>16. CASE UNCHANGED jobsVars
  <2>1. \A c \in JobBatch : StatusesStand(c) /\ runner'[c] = runner[c]
    BY <1>16 DEF jobsVars, StatusesStand
  <2>2. UNCHANGED halted
    BY <1>16 DEF jobsVars
  <2> QED
    BY <2>1, <2>2, BatchStands DEF TasksFit
<1>17. ASSUME NEW b \in JobBatch, TaskDies(b)
       PROVE  TasksFit'
  <2>1. OtherTasks(b) /\ UNCHANGED job /\ halted' = halted \cup {b}
    BY <1>17 DEF TaskDies, TaskLost, NotStarted, OtherTasks, TaskRec, JobTypes
  <2>2. runner'[b].at = "lost" /\ runner'[b].accounts = {} /\ runner'[b].account = {}
    BY <1>17 DEF TaskDies, TaskLost, NotStarted, JobTypes
  <2>3. Fits(b)'
    BY <2>2 DEF Fits, NotBegun, StillWaiting, OneByOne, Stuck, Waits
  <2>4. ASSUME NEW c \in JobBatch \ {b}
        PROVE  Fits(c)'
    <3>1. StatusesStand(c) /\ runner'[c] = runner[c] /\ (c \in halted' => c \in halted)
      BY <2>1 DEF StatusesStand, OtherTasks
    <3> QED
      BY <3>1, BatchStands
  <2> QED
    BY <2>3, <2>4 DEF TasksFit
<1> QED
  BY <1>1, <1>2, <1>3, <1>4, <1>5, <1>6, <1>7, <1>8, <1>9, <1>10, <1>11, <1>12, <1>13, <1>14,
     <1>15, <1>16, <1>17 DEF JobsNext, RunnerSteps

\* What is retried has failed.
LEMMA RetriedStep == JobsInv /\ [JobsNext]_jobsVars => RetriesFailed'
<1> SUFFICES ASSUME JobsInv, [JobsNext]_jobsVars
             PROVE  RetriesFailed'
  OBVIOUS
<1> USE DEF JobsInv
<1>1. ASSUME NEW b \in JobBatch, Create(b)
      PROVE  RetriesFailed'
  BY <1>1 DEF Create, JobTypes, JobRec, RetriesFailed, TasksFit, Fits, NotBegun
<1>2. ASSUME NEW b \in JobBatch, RunnerStarts(b)
      PROVE  RetriesFailed'
  BY <1>2 DEF RunnerStarts, JobTypes, JobRec, RetriesFailed
<1>3. ASSUME NEW b \in JobBatch, JobStarts(b)
      PROVE  RetriesFailed'
  <2>1. PICK m \in runner[b].todo, a \in runner[b].account :
          job' = [job EXCEPT ![<<b, a, m>>].status = "publishing"]
    BY <1>3 DEF JobStarts
  <2>2. a \in Seller /\ m \in Material
    BY DEF JobTypes, TaskRec
  <2>3. job[<<b, a, m>>].status = "pending"
    BY <2>2 DEF TasksFit, Fits, StillWaiting, Waits
  <2> QED
    BY <1>3, <2>1, <2>3 DEF JobStarts, JobTypes, RetriesFailed
<1>4. ASSUME NEW b \in JobBatch, JobEnds(b)
      PROVE  RetriesFailed'
  BY <1>4, JobEndsEffect DEF JobTypes, RetriesFailed, OthersStand, Stands, Ends
<1>5. ASSUME NEW b \in JobBatch, AccountEnds(b)
      PROVE  RetriesFailed'
  BY <1>5, AccountEndsEffect DEF JobTypes, RetriesFailed, Stands
<1>6. ASSUME NEW b \in JobBatch, SyncEnds(b)
      PROVE  RetriesFailed'
  BY <1>6, SyncEndsEffect DEF JobTypes, RetriesFailed, Stands
<1>7. ASSUME NEW b \in JobBatch, RunnerEnds(b)
      PROVE  RetriesFailed'
  BY <1>7 DEF RunnerEnds, JobTypes, JobRec, RetriesFailed
<1>8. ASSUME NEW b \in JobBatch, NEW a \in Seller, AccountFails(b, a)
      PROVE  RetriesFailed'
  BY <1>8, AccountFailsEffect DEF JobTypes, RetriesFailed
<1>9. ASSUME NEW b \in JobBatch, NEW a \in Seller, AccountStarts(b, a)
      PROVE  RetriesFailed'
  BY <1>9 DEF AccountStarts, JobTypes, JobRec, RetriesFailed
<1>10. CASE Restart
  BY <1>10 DEF Restart, TaskLost, NotStarted, JobTypes, JobRec, RetriesFailed
<1>11. CASE RetrySelects
  BY <1>11 DEF RetrySelects, JobTypes, JobRec, RetriesFailed
<1>12. CASE RetryEnds
  BY <1>12 DEF RetryEnds, NoRetry, JobTypes, JobRec, RetriesFailed
<1>13. ASSUME NEW j \in Job, RetrySkips(j)
       PROVE  RetriesFailed'
  <2>1. DOMAIN retry'.counts \subseteq DOMAIN retry.counts
    BY <1>13, RetrySkipsEffect, WithoutType DEF JobTypes
  <2> QED
    BY <1>13, <2>1, RetrySkipsEffect DEF JobTypes, RetriesFailed, Stands
<1>14. ASSUME NEW j \in Job, RetryPublishes(j)
       PROVE  RetriesFailed'
  BY <1>14 DEF RetryPublishes, JobTypes, JobRec, RetriesFailed
<1>15. ASSUME NEW j \in Job, RetryAnswer(j)
       PROVE  RetriesFailed'
  <2>1. DOMAIN retry'.counts = DOMAIN retry.counts \ {j}
    BY <1>15, RetryAnswerEffect, WithoutType DEF JobTypes
  <2> QED
    BY <1>15, <2>1, RetryAnswerEffect DEF JobTypes, RetriesFailed, OthersStand, Stands
<1>16. CASE UNCHANGED jobsVars
  BY <1>16 DEF jobsVars, JobTypes, JobRec, RetriesFailed
<1>17. ASSUME NEW b \in JobBatch, TaskDies(b)
       PROVE  RetriesFailed'
  BY <1>17 DEF TaskDies, JobTypes, JobRec, RetriesFailed
<1> QED
  BY <1>1, <1>2, <1>3, <1>4, <1>5, <1>6, <1>7, <1>8, <1>9, <1>10, <1>11, <1>12, <1>13, <1>14,
     <1>15, <1>16, <1>17 DEF JobsNext, RunnerSteps

\* What is listed.
LEMMA ListedStep == JobsInv /\ [JobsNext]_jobsVars => ListedOnce'
<1> SUFFICES ASSUME JobsInv, [JobsNext]_jobsVars
             PROVE  ListedOnce'
  OBVIOUS
<1> USE DEF JobsInv
<1>1. ASSUME NEW b \in JobBatch, Create(b)
      PROVE  ListedOnce'
  <2>1. \A i \in Job : /\ job'[i].listed = job[i].listed /\ job'[i].unclear = job[i].unclear
                       /\ \/ job'[i].status = job[i].status
                          \/ i[1] = b /\ job'[i].status = "pending"
    BY <1>1 DEF Create, JobTypes, JobRec
  <2>2. \A i \in Job : i[1] = b => job[i].status = "none"
    BY <1>1 DEF Create, TasksFit, Fits, NotBegun
  <2> QED
    BY <2>1, <2>2 DEF ListedOnce
<1>2. ASSUME NEW b \in JobBatch, RunnerStarts(b)
      PROVE  ListedOnce'
  BY <1>2 DEF RunnerStarts, JobTypes, JobRec, ListedOnce
<1>3. ASSUME NEW b \in JobBatch, JobStarts(b)
      PROVE  ListedOnce'
  <2>1. PICK m \in runner[b].todo, a \in runner[b].account :
          job' = [job EXCEPT ![<<b, a, m>>].status = "publishing"]
    BY <1>3 DEF JobStarts
  <2>2. a \in Seller /\ m \in Material /\ <<b, a, m>> \in Job
    BY DEF JobTypes, TaskRec, Job
  <2>3. job[<<b, a, m>>].status = "pending"
    BY <2>2 DEF TasksFit, Fits, StillWaiting, Waits
  <2>4. \A i \in Job : /\ job'[i].listed = job[i].listed /\ job'[i].unclear = job[i].unclear
                       /\ \/ job'[i].status = job[i].status
                          \/ job[i].status = "pending" /\ job'[i].status = "publishing"
    BY <2>1, <2>2, <2>3 DEF JobTypes, JobRec
  <2> QED
    BY <2>4 DEF ListedOnce
<1>4. ASSUME NEW b \in JobBatch, JobEnds(b)
      PROVE  ListedOnce'
  <2>1. PICK j \in Job : OthersStand(j) /\ Ends(b, j)
    BY <1>4, JobEndsEffect
  <2> QED
    BY <2>1 DEF ListedOnce, OthersStand, Stands, Ends
<1>5. ASSUME NEW b \in JobBatch, AccountEnds(b)
      PROVE  ListedOnce'
  BY <1>5, AccountEndsEffect DEF ListedOnce, Stands
<1>6. ASSUME NEW b \in JobBatch, SyncEnds(b)
      PROVE  ListedOnce'
  BY <1>6, SyncEndsEffect DEF ListedOnce, Stands
<1>7. ASSUME NEW b \in JobBatch, RunnerEnds(b)
      PROVE  ListedOnce'
  BY <1>7 DEF RunnerEnds, JobTypes, JobRec, ListedOnce
<1>8. ASSUME NEW b \in JobBatch, NEW a \in Seller, AccountFails(b, a)
      PROVE  ListedOnce'
  BY <1>8, AccountFailsEffect DEF JobTypes, JobRec, ListedOnce
<1>9. ASSUME NEW b \in JobBatch, NEW a \in Seller, AccountStarts(b, a)
      PROVE  ListedOnce'
  BY <1>9 DEF AccountStarts, JobTypes, JobRec, ListedOnce
<1>10. CASE Restart
  BY <1>10 DEF Restart, TaskLost, NotStarted, JobTypes, JobRec, ListedOnce
<1>11. CASE RetrySelects
  BY <1>11 DEF RetrySelects, JobTypes, JobRec, ListedOnce
<1>12. CASE RetryEnds
  BY <1>12 DEF RetryEnds, NoRetry, JobTypes, JobRec, ListedOnce
<1>13. ASSUME NEW j \in Job, RetrySkips(j)
       PROVE  ListedOnce'
  BY <1>13, RetrySkipsEffect DEF ListedOnce, Stands
<1>14. ASSUME NEW j \in Job, RetryPublishes(j)
       PROVE  ListedOnce'
  BY <1>14 DEF RetryPublishes, JobTypes, JobRec, ListedOnce
<1>15. ASSUME NEW j \in Job, RetryAnswer(j)
       PROVE  ListedOnce'
  BY <1>15, RetryAnswerEffect DEF ListedOnce, OthersStand, Stands
<1>16. CASE UNCHANGED jobsVars
  BY <1>16 DEF jobsVars, JobTypes, JobRec, ListedOnce
<1>17. ASSUME NEW b \in JobBatch, TaskDies(b)
       PROVE  ListedOnce'
  BY <1>17 DEF TaskDies, JobTypes, JobRec, ListedOnce
<1> QED
  BY <1>1, <1>2, <1>3, <1>4, <1>5, <1>6, <1>7, <1>8, <1>9, <1>10, <1>11, <1>12, <1>13, <1>14,
     <1>15, <1>16, <1>17 DEF JobsNext, RunnerSteps

\* The invariant holds at the start.
LEMMA JobsStart == JobsInit => JobsInv
<1> SUFFICES ASSUME JobsInit
             PROVE  JobsInv
  OBVIOUS
<1>1. JobTypes
  <2>1. job \in [Job -> JobRec] /\ halted \subseteq JobBatch
    BY JobsAssumption DEF JobsInit, JobRec
  <2>2. runner \in [JobBatch -> TaskRec]
    BY DEF JobsInit, NotStarted, TaskRec
  <2>3. /\ retry = [on |-> retry.on, counts |-> retry.counts, publishing |-> retry.publishing]
        /\ retry.on = FALSE /\ retry.publishing = {}
    BY DEF JobsInit, NoRetry
  <2>4. DOMAIN retry.counts = {} /\ retry.counts \in [DOMAIN retry.counts -> 0 .. RetryLimit]
    BY DEF JobsInit, NoRetry
  <2> QED
    BY <2>1, <2>2, <2>3, <2>4 DEF JobTypes
<1>2. TasksFit
  BY DEF JobsInit, TasksFit, Fits, NotBegun, StillWaiting, OneByOne, NotStarted, Waits
<1>3. RetriesFailed /\ ListedOnce
  BY DEF JobsInit, NoRetry, RetriesFailed, ListedOnce
<1> QED
  BY <1>1, <1>2, <1>3 DEF JobsInv

\* Every step keeps the invariant.
LEMMA JobsStep == JobsInv /\ [JobsNext]_jobsVars => JobsInv'
BY JobTypesStep, FitStep, RetriedStep, ListedStep DEF JobsInv

\* The invariant of the jobs holds throughout; the fairness is not needed for it.
THEOREM JobsInvariant == JobsInit /\ [][JobsNext]_jobsVars => []JobsInv
<1> QED
  BY JobsStart, JobsStep, PTL

\* The safety part of the specification.
LEMMA JobsSafely == JobsSpec => JobsInit /\ [][JobsNext]_jobsVars
BY PTL DEF JobsSpec

\* The jobs, the tasks and the retries keep their types; a job is retried no more often
\* than the limit (product_publish.py, automation.py execute_publish_retry).
THEOREM JobsTypeCorrect == JobsSpec => []JobsTypeOK
<1>1. JobsInv => JobsTypeOK
  BY DEF JobsInv, JobTypes, JobsTypeOK, JobRec, TaskRec
<1> QED
  BY <1>1, JobsInvariant, JobsSafely, PTL

\* The task of a batch and the scheduler's retries never list a job twice, in any order of
\* their steps, with any number of batches, accounts and restarts, unless the platform
\* listed it and failed to say so (product_publish.py _run_batch_publish_background,
\* automation.py execute_publish_retry).
THEOREM ListedNotTwice == JobsSpec => []NoDoubleListing
<1>1. JobsInv => NoDoubleListing
  BY DEF JobsInv, ListedOnce, NoDoubleListing
<1> QED
  BY <1>1, JobsInvariant, JobsSafely, PTL

-----------------------------------------------------------------------------
(* The jobs implement the stages that the page relies on, but for the promise *)
(* that a batch ends, which needs the fairness                                *)

BatchStages == [b \in JobBatch |-> Stage(b)]

\* The stage of a batch depends on which of its jobs were created and which are not done.
LEMMA StageStands ==
    ASSUME NEW c, c \in halted' <=> c \in halted,
           \A i \in Job : i[1] = c =>
                /\ job'[i].status = "none" <=> job[i].status = "none"
                /\ job'[i].status \in {"pending", "publishing"}
                        <=> job[i].status \in {"pending", "publishing"}
    PROVE  Stage(c)' = Stage(c)
<1>1. Finished(c)' <=> Finished(c)
  BY DEF Finished
<1>2. (\A j \in Job : j[1] = c => job'[j].status = "none")
        <=> (\A j \in Job : j[1] = c => job[j].status = "none")
  OBVIOUS
<1> QED
  BY <1>1, <1>2 DEF Stage

\* One batch goes from a stage to the next, the others stand.
LEMMA OneStage ==
    ASSUME NEW b \in JobBatch, \A c \in JobBatch \ {b} : Stage(c)' = Stage(c),
           \/ Stage(b)' = Stage(b)
           \/ Stage(b) = "none" /\ Stage(b)' = "running"
           \/ Stage(b) = "running" /\ Stage(b)' \in {"finished", "stuck"}
    PROVE  [Progress!ProgressNext]_BatchStages
<1> DEFINE p == BatchStages
<1>1. /\ p = [c \in JobBatch |-> Stage(c)] /\ p' = [c \in JobBatch |-> Stage(c)']
  BY DEF BatchStages
<1>2. p' = [p EXCEPT ![b] = Stage(b)'] /\ p[b] = Stage(b)
  BY <1>1
<1>3. CASE Stage(b)' = Stage(b)
  <2>1. p' = p
    BY <1>2, <1>3, <1>1
  <2> QED
    BY <2>1
<1>4. CASE Stage(b) = "none" /\ Stage(b)' = "running"
  <2>1. Progress!Begin(b)
    BY <1>2, <1>4 DEF Progress!Begin, BatchStages
  <2> QED
    BY <2>1 DEF Progress!ProgressNext
<1>5. CASE Stage(b) = "running" /\ Stage(b)' = "finished"
  <2>1. Progress!Finish(b)
    BY <1>2, <1>5 DEF Progress!Finish, Progress!Running, BatchStages
  <2> QED
    BY <2>1 DEF Progress!ProgressNext
<1>6. CASE Stage(b) = "running" /\ Stage(b)' = "stuck"
  <2>1. {b} \in (SUBSET Progress!Running) \ {{}}
    BY <1>2, <1>6 DEF Progress!Running, BatchStages
  <2>2. p' = [c \in JobBatch |-> IF c \in {b} THEN "stuck" ELSE p[c]]
    BY <1>1, <1>6
  <2>3. Progress!Stop
    BY <2>1, <2>2 DEF Progress!Stop, BatchStages
  <2> QED
    BY <2>3 DEF Progress!ProgressNext
<1> QED
  BY <1>3, <1>4, <1>5, <1>6

\* A batch with a job that is not done is going on, or stuck.
LEMMA GoingOn ==
    ASSUME NEW c, NEW i \in Job, i[1] = c, job[i].status \in {"pending", "publishing"}
    PROVE  Stage(c) = IF c \in halted THEN "stuck" ELSE "running"
<1>1. ~Finished(c) /\ ~(\A j \in Job : j[1] = c => job[j].status = "none")
  BY DEF Finished
<1> QED
  BY <1>1 DEF Stage

\* Nothing that the stages depend on changes.
LEMMA AllStand ==
    ASSUME UNCHANGED halted, \A i \in Job : job'[i].status = job[i].status
    PROVE  [Progress!ProgressNext]_BatchStages
<1>1. \A c \in JobBatch : Stage(c)' = Stage(c)
  BY StageStands
<1> QED
  BY <1>1 DEF BatchStages

\* A step of the jobs is a step of the stages, or none.
LEMMA StagesStep == JobsInv /\ [JobsNext]_jobsVars => [Progress!ProgressNext]_BatchStages
<1> SUFFICES ASSUME JobsInv, [JobsNext]_jobsVars
             PROVE  [Progress!ProgressNext]_BatchStages
  OBVIOUS
<1> USE DEF JobsInv
<1>1. ASSUME NEW b \in JobBatch, Create(b)
      PROVE  [Progress!ProgressNext]_BatchStages
  <2>1. \A i \in Job : IF i[1] = b THEN job'[i].status = "pending" ELSE job'[i] = job[i]
    BY <1>1 DEF Create, JobTypes, JobRec
  <2>2. UNCHANGED halted /\ b \notin halted /\ \A i \in Job : i[1] = b => job[i].status = "none"
    BY <1>1 DEF Create, TasksFit, Fits, NotBegun
  <2>3. \A c \in JobBatch \ {b} : Stage(c)' = Stage(c)
    BY <2>1, <2>2, StageStands
  <2>4. Stage(b) = "none"
    BY <2>2 DEF Stage
  <2>5. CASE \E i \in Job : i[1] = b
    <3>1. Stage(b)' = "running"
      BY <2>1, <2>2, <2>5 DEF Stage, Finished
    <3> QED
      BY <2>3, <2>4, <3>1, OneStage
  <2>6. CASE ~\E i \in Job : i[1] = b
    <3>1. Stage(b)' = "none"
      BY <2>6 DEF Stage
    <3> QED
      BY <2>3, <2>4, <3>1, OneStage
  <2> QED
    BY <2>5, <2>6
<1>2. ASSUME NEW b \in JobBatch, RunnerStarts(b)
      PROVE  [Progress!ProgressNext]_BatchStages
  BY <1>2, AllStand DEF RunnerStarts, Stands
<1>3. ASSUME NEW b \in JobBatch, JobStarts(b)
      PROVE  [Progress!ProgressNext]_BatchStages
  <2>1. PICK m \in runner[b].todo, a \in runner[b].account :
          job' = [job EXCEPT ![<<b, a, m>>].status = "publishing"]
    BY <1>3 DEF JobStarts
  <2>2. a \in Seller /\ m \in Material /\ <<b, a, m>> \in Job
    BY DEF JobTypes, TaskRec, Job
  <2>3. job[<<b, a, m>>].status = "pending"
    BY <2>2 DEF TasksFit, Fits, StillWaiting, Waits
  <2>4. \A i \in Job : \/ job'[i].status = job[i].status
                       \/ job[i].status = "pending" /\ job'[i].status = "publishing"
    BY <2>1, <2>2, <2>3 DEF JobTypes, JobRec
  <2>5. UNCHANGED halted
    BY <1>3 DEF JobStarts
  <2>6. \A c \in JobBatch : Stage(c)' = Stage(c)
    BY <2>4, <2>5, StageStands
  <2> QED
    BY <2>6 DEF BatchStages
<1>4. ASSUME NEW b \in JobBatch, JobEnds(b)
      PROVE  [Progress!ProgressNext]_BatchStages
  <2>1. PICK a \in runner[b].account, m \in Material :
          <<b, a, m>> \in Job /\ OthersStand(<<b, a, m>>) /\ Ends(b, <<b, a, m>>)
    BY <1>4, JobEndsEffect
  <2> DEFINE j == <<b, a, m>>
  <2>2. j \in Job /\ j[1] = b /\ OthersStand(j) /\ Ends(b, j)
    BY <2>1
  <2> HIDE DEF j
  <2>3. Stage(b) = IF b \in halted THEN "stuck" ELSE "running"
    BY <2>2, GoingOn DEF Ends
  <2>4. \A c \in JobBatch \ {b} : Stage(c)' = Stage(c)
    <3>1. ASSUME NEW c \in JobBatch \ {b}
          PROVE  Stage(c)' = Stage(c)
      <4>1. c \in halted' <=> c \in halted
        BY <2>2 DEF Ends
      <4>2. \A i \in Job : i[1] = c => job'[i].status = job[i].status
        BY <2>2 DEF OthersStand, Stands
      <4> QED
        BY <4>1, <4>2, StageStands
    <3> QED
      BY <3>1
  <2>5. Stage(b)' \in {"finished", "running", "stuck"} /\ (b \notin halted' => Stage(b)' # "stuck")
    BY <2>2 DEF Ends, Stage
  <2>6. b \in halted' => Stage(b)' = "stuck"
    <3> SUFFICES ASSUME b \in halted'
                 PROVE  Stage(b)' = "stuck"
      OBVIOUS
    <3>1. Stuck(b)' /\ runner'[b].at = "jobs"
      BY <1>4, FitStep, JobEndsEffect DEF TasksFit, Fits
    <3>2. \E i \in Job : i[1] = b /\ job'[i].status = "pending"
      BY <3>1 DEF Stuck, Job
    <3> QED
      BY <3>2 DEF Stage, Finished
  <2>7. b \in halted => b \in halted'
    BY <2>2 DEF Ends
  <2> QED
    BY <2>3, <2>4, <2>5, <2>6, <2>7, OneStage
<1>5. ASSUME NEW b \in JobBatch, AccountEnds(b)
      PROVE  [Progress!ProgressNext]_BatchStages
  BY <1>5, AllStand, AccountEndsEffect DEF Stands
<1>6. ASSUME NEW b \in JobBatch, SyncEnds(b)
      PROVE  [Progress!ProgressNext]_BatchStages
  BY <1>6, AllStand, SyncEndsEffect DEF Stands
<1>7. ASSUME NEW b \in JobBatch, RunnerEnds(b)
      PROVE  [Progress!ProgressNext]_BatchStages
  BY <1>7, AllStand DEF RunnerEnds, Stands
<1>8. ASSUME NEW b \in JobBatch, NEW a \in Seller, AccountFails(b, a)
      PROVE  [Progress!ProgressNext]_BatchStages
  <2>1. /\ UNCHANGED halted /\ runner'[b].at = "accounts"
        /\ \A i \in Job : \/ job'[i] = job[i]
                          \/ /\ i[1] = b
                             /\ job[i].status = "pending" /\ job'[i].status = "failed"
    BY <1>8, AccountFailsEffect
  <2>2. \A c \in JobBatch \ {b} : Stage(c)' = Stage(c)
    BY <2>1, StageStands
  <2>3. CASE \A i \in Job : job'[i] = job[i]
    BY <2>1, <2>2, <2>3, StageStands, OneStage
  <2>4. CASE b \in halted
    <3>1. Stuck(b)'
      BY <1>8, <2>1, <2>4, FitStep DEF TasksFit, Fits
    <3>2. \E i \in Job : i[1] = b /\ job'[i].status = "pending"
      BY <2>1, <3>1 DEF Stuck, Job
    <3>3. \E i \in Job : i[1] = b /\ job[i].status = "pending"
      BY <2>1, <3>2
    <3>4. Stage(b) = "stuck" /\ Stage(b)' = "stuck"
      BY <2>1, <2>4, <3>2, <3>3 DEF Stage, Finished
    <3> QED
      BY <2>2, <3>4, OneStage
  <2>5. CASE b \notin halted /\ \E i \in Job : job'[i] # job[i]
    <3>1. PICK i \in Job : i[1] = b /\ job[i].status = "pending" /\ job'[i].status = "failed"
      BY <2>1, <2>5
    <3>2. Stage(b) = "running"
      BY <2>5, <3>1, GoingOn
    <3>3. Stage(b)' \in {"running", "finished"}
      BY <2>1, <2>5, <3>1 DEF Stage
    <3> QED
      BY <2>2, <3>2, <3>3, OneStage
  <2> QED
    BY <2>3, <2>4, <2>5
<1>9. ASSUME NEW b \in JobBatch, NEW a \in Seller, AccountStarts(b, a)
      PROVE  [Progress!ProgressNext]_BatchStages
  BY <1>9, AllStand DEF AccountStarts, Stands
<1>10. CASE Restart
  <2> DEFINE running == {b \in JobBatch : Working(b)}
             B == {b \in running : Stage(b) = "running"}
  <2>1. UNCHANGED job /\ halted' = halted \cup running
    BY <1>10 DEF Restart
  <2>2. ASSUME NEW c \in JobBatch
        PROVE  Stage(c)' = IF c \in B THEN "stuck" ELSE Stage(c)
    BY <2>1 DEF Stage, Finished
  <2>3. B \subseteq Progress!Running
    BY DEF Progress!Running
  <2>4. BatchStages' = [b \in JobBatch |-> IF b \in B THEN "stuck" ELSE BatchStages[b]]
    BY <2>2 DEF BatchStages
  <2> HIDE DEF B
  <2>5. CASE B = {}
    <3>1. BatchStages' = BatchStages
      BY <2>4, <2>5 DEF BatchStages
    <3> QED
      BY <3>1
  <2>6. CASE B # {}
    <3>1. B \in (SUBSET Progress!Running) \ {{}}
      BY <2>3, <2>6
    <3>2. Progress!Stop
      BY <2>4, <3>1 DEF Progress!Stop, BatchStages
    <3> QED
      BY <3>2 DEF Progress!ProgressNext
  <2> QED
    BY <2>5, <2>6
<1>11. CASE RetrySelects
  BY <1>11, AllStand DEF RetrySelects, Stands
<1>12. CASE RetryEnds
  BY <1>12, AllStand DEF RetryEnds, Stands
<1>13. ASSUME NEW j \in Job, RetrySkips(j)
       PROVE  [Progress!ProgressNext]_BatchStages
  BY <1>13, AllStand, RetrySkipsEffect DEF Stands
<1>14. ASSUME NEW j \in Job, RetryPublishes(j)
       PROVE  [Progress!ProgressNext]_BatchStages
  BY <1>14, AllStand DEF RetryPublishes, Stands
<1>15. ASSUME NEW j \in Job, RetryAnswer(j)
       PROVE  [Progress!ProgressNext]_BatchStages
  <2>1. \A c \in JobBatch : Stage(c)' = Stage(c)
    BY <1>15, RetryAnswerEffect, StageStands DEF OthersStand, Stands
  <2> QED
    BY <2>1 DEF BatchStages
<1>16. CASE UNCHANGED jobsVars
  BY <1>16, AllStand DEF jobsVars, Stands
<1>17. ASSUME NEW b \in JobBatch, TaskDies(b)
       PROVE  [Progress!ProgressNext]_BatchStages
  <2>1. UNCHANGED job /\ halted' = halted \cup {b}
    BY <1>17 DEF TaskDies
  <2>2. \A c \in JobBatch \ {b} : Stage(c)' = Stage(c)
    BY <2>1, StageStands
  <2>3. Stage(b)' = IF Stage(b) = "running" THEN "stuck" ELSE Stage(b)
    BY <2>1 DEF Stage, Finished
  <2> QED
    BY <2>2, <2>3, OneStage
<1> QED
  BY <1>1, <1>2, <1>3, <1>4, <1>5, <1>6, <1>7, <1>8, <1>9, <1>10, <1>11, <1>12, <1>13, <1>14,
     <1>15, <1>16, <1>17 DEF JobsNext, RunnerSteps

\* The task and the retries keep to what the page relies on: a batch begins once, goes on,
\* and ends finished or stuck, for good, whatever the retries and restarts do
\* (product_publish.py publish_batch_status).  That every batch ends needs the fairness.
THEOREM JobsKeepStages ==
    JobsSpec => Progress!ProgressInit /\ [][Progress!ProgressNext]_BatchStages
<1>1. JobsInit => Progress!ProgressInit
  BY DEF JobsInit, Progress!ProgressInit, Stage
<1>2. JobsInv /\ [JobsNext]_jobsVars => [Progress!ProgressNext]_BatchStages
  BY StagesStep
<1> QED
  BY <1>1, <1>2, JobsInvariant, JobsSafely, PTL

=================================================================================
