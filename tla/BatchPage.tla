------------------------------- MODULE BatchPage -------------------------------
(* The page that submits a batch and polls its progress (BatchPublish.tsx), over   *)
(* the BatchProgress that the server's jobs implement (BatchJobs).                  *)
EXTENDS BatchProgress, Naturals

CONSTANT
    MaxAsks       \* bound: status requests of the interval in flight

ASSUME BatchAssumption == Batch \subseteq Nat \ {0}   \* 0: no batch

VARIABLES
    page,      \* the page and its sessionStorage
    submitted, \* handleSubmit waiting for publishBatch, perhaps of a page already left
    restore,   \* the status request of the mount effect
    asks,      \* those of the interval: what was asked, and what the server saw
    overtaken  \* ghost: the page took an answer about an earlier state of its batch, or
               \* about another batch than it shows by now

pageVars == <<page, submitted, restore, asks, overtaken, progress>>

Slot == 1 .. MaxAsks
StatusRequest == [batch : Batch \cup {0}, seen : {"nothing", "running", "finished"}]
NoAsk == [batch |-> 0, seen |-> "nothing"]
NoSubmission == [at |-> "none", batch |-> 0, mine |-> FALSE]
EmptyPage == [on |-> TRUE, stored |-> 0, shown |-> 0, finished |-> FALSE, poll |-> 0]

PageTypeOK ==
    /\ page \in [on : BOOLEAN, stored : Batch \cup {0}, shown : Batch \cup {0},
                 finished : BOOLEAN, poll : Batch \cup {0}]
    /\ submitted \in [at : {"none", "sent", "created"}, batch : Batch \cup {0},
                      mine : BOOLEAN]
    /\ restore \in StatusRequest /\ asks \in [Slot -> StatusRequest]
    /\ overtaken \in BOOLEAN /\ progress \in [Batch -> Stages]

--------------------------------------------------------------------------------

\* The button is there unless a submission is on its way or the shown batch goes on.
Submits ==
    /\ page.on /\ (page.shown = 0 \/ page.finished)
    /\ submitted = NoSubmission /\ \E b \in Batch : progress[b] = "none"
    /\ submitted' = [at |-> "sent", batch |-> 0, mine |-> TRUE]
    /\ UNCHANGED <<progress, page, restore, asks, overtaken>>

\* publish_batch.
BatchCreated ==
    /\ submitted.at = "sent"
    /\ \E b \in Batch :
        /\ \A c \in Batch : c < b => progress[c] # "none"
        /\ Begin(b)
        /\ submitted' = [submitted EXCEPT !.at = "created", !.batch = b]
    /\ UNCHANGED <<page, restore, asks, overtaken>>

\* Mutant: a second batch finds the interval of the first and starts none.
SubmittedOnce ==
    /\ submitted.at = "created"
    /\ page' = [page EXCEPT !.stored = submitted.batch, !.shown = submitted.batch,
                            !.finished = FALSE,
                            !.poll = IF page.shown # 0 THEN @ ELSE submitted.batch]
    /\ submitted' = NoSubmission
    /\ UNCHANGED <<progress, restore, asks, overtaken>>

\* The answer arrives: the batch is remembered, shown and polled.  A page that was left
\* remembers it, and polls too, but in an instance whose state nobody sees any more.
Submitted ==
    /\ submitted.at = "created"
    /\ page' = [page EXCEPT !.stored = submitted.batch,
                            !.shown = IF submitted.mine THEN submitted.batch ELSE @,
                            !.finished = @ /\ ~submitted.mine,
                            !.poll = IF submitted.mine THEN submitted.batch ELSE @]
    /\ submitted' = NoSubmission
    /\ UNCHANGED <<progress, restore, asks, overtaken>>

\* It was refused, or failed, or its answer is lost: the form can be sent again.
SubmitFails ==
    /\ submitted # NoSubmission
    /\ submitted' = NoSubmission
    /\ UNCHANGED <<progress, page, restore, asks, overtaken>>

\* The interval asks, whether or not an earlier request has been answered.
PollAsks ==
    /\ page.poll # 0
    /\ \E i \in Slot :
        /\ asks[i] = NoAsk
        /\ asks' = [asks EXCEPT ![i] = [NoAsk EXCEPT !.batch = page.poll]]
    /\ UNCHANGED <<progress, page, submitted, restore, overtaken>>

\* publish_batch_status: a batch that is stuck counts as running.
Seen(ask) ==
    [ask EXCEPT !.seen = IF progress[ask.batch] = "finished" THEN "finished" ELSE "running"]

ServerReads(i) ==
    /\ asks[i] # NoAsk /\ asks[i].seen = "nothing"
    /\ asks' = [asks EXCEPT ![i] = Seen(@)]
    /\ UNCHANGED <<progress, page, submitted, restore, overtaken>>

\* The answer is shown, and the interval, whatever it asks for, ends with a finished batch.
PollAnswer(i) ==
    /\ asks[i].seen # "nothing"
    /\ asks' = [asks EXCEPT ![i] = NoAsk]
    /\ page' = [page EXCEPT !.shown = asks[i].batch, !.finished = asks[i].seen = "finished",
                            !.poll = IF asks[i].seen = "finished" THEN 0 ELSE @]
    /\ overtaken' = \/ overtaken
                    \/ asks[i].batch # page.shown
                    \/ page.finished /\ asks[i].seen = "running"
    /\ UNCHANGED <<progress, submitted, restore>>

\* It fails, before or after the server saw it, and nothing happens: publish_batch_status
\* answers with success or with an HTTP error, never with success false.
PollFails(i) ==
    /\ asks[i].seen # "nothing"
    /\ asks' = [asks EXCEPT ![i] = NoAsk]
    /\ UNCHANGED <<progress, page, submitted, restore, overtaken>>

\* The page is left: its interval ends, and its late answers reach nobody.
Leaves ==
    /\ page.on
    /\ page' = [EmptyPage EXCEPT !.on = FALSE, !.stored = page.stored]
    /\ submitted' = [submitted EXCEPT !.mine = FALSE]
    /\ asks' = [i \in Slot |-> NoAsk] /\ restore' = NoAsk
    /\ UNCHANGED <<progress, overtaken>>

\* Opened again, it asks for the batch it remembers.
Returns ==
    /\ ~page.on
    /\ page' = [page EXCEPT !.on = TRUE]
    /\ restore' = [NoAsk EXCEPT !.batch = page.stored]
    /\ overtaken' = FALSE
    /\ UNCHANGED <<progress, submitted, asks>>

RestoreReads ==
    /\ restore # NoAsk /\ restore.seen = "nothing"
    /\ restore' = Seen(restore)
    /\ UNCHANGED <<progress, page, submitted, asks, overtaken>>

\* Mutant: the remembered batch is only shown.
RestoredUnpolled ==
    /\ restore.seen # "nothing"
    /\ page' = [page EXCEPT !.shown = restore.batch, !.finished = restore.seen = "finished"]
    /\ overtaken' = (overtaken \/ page.shown # 0)
    /\ restore' = NoAsk
    /\ UNCHANGED <<progress, submitted, asks>>

\* The remembered batch is shown, and polled if it goes on.
Restored ==
    /\ restore.seen # "nothing"
    /\ page' = [page EXCEPT !.shown = restore.batch, !.finished = restore.seen = "finished",
                            !.poll = IF restore.seen = "running" THEN restore.batch ELSE @]
    /\ overtaken' = (overtaken \/ page.shown # 0)
    /\ restore' = NoAsk
    /\ UNCHANGED <<progress, submitted, asks>>

RestoreFails ==
    /\ restore.seen # "nothing"
    /\ restore' = NoAsk
    /\ UNCHANGED <<progress, page, submitted, asks, overtaken>>

\* The server's side, as BatchProgress has it.
Works ==
    /\ Stop \/ \E b \in Batch : Finish(b)
    /\ UNCHANGED <<page, submitted, restore, asks, overtaken>>

--------------------------------------------------------------------------------

PageInit ==
    /\ ProgressInit
    /\ page = EmptyPage /\ submitted = NoSubmission
    /\ restore = NoAsk /\ asks = [i \in Slot |-> NoAsk]
    /\ overtaken = FALSE

PageNext ==
    \/ Submits \/ BatchCreated \/ Submitted \/ SubmitFails
    \/ PollAsks \/ Leaves \/ Returns
    \/ \E i \in Slot : ServerReads(i) \/ PollAnswer(i) \/ PollFails(i)
    \/ RestoreReads \/ Restored \/ RestoreFails
    \/ Works

\* Batches end, the interval fires, the server answers, and some answers arrive.
PageFairness ==
    /\ WF_pageVars(Works) /\ WF_pageVars(PollAsks)
    /\ WF_pageVars(\E i \in Slot : ServerReads(i))
    /\ SF_pageVars(\E i \in Slot : PollAnswer(i))

PageSpec == PageInit /\ [][PageNext]_pageVars /\ PageFairness

--------------------------------------------------------------------------------
(* What has to hold.                                                               *)

\* A batch that is shown as going on is polled: submitted after another, restored after
\* the page was left, or answered late; unless an answer was overtaken.
FollowsShown ==
    page.shown # 0 /\ ~page.finished /\ ~overtaken => page.poll = page.shown

\* A page that shows a batch going on learns its end (else the button stays disabled),
\* unless the batch is stuck.
PageLearnsEnd ==
    page.shown # 0 /\ ~page.finished ~>
        page.finished \/ page.shown = 0 \/ progress[page.shown] = "stuck" \/ overtaken
================================================================================
