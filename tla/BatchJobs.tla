------------------------------- MODULE BatchJobs -------------------------------
(* Publishing materials on several accounts at once, on the server: the backend's  *)
(* task that works through the jobs of a batch (product_publish.py) and the         *)
(* scheduler's retry of failed jobs (automation.py).  The platform is external.     *)
EXTENDS Naturals

CONSTANTS
    JobBatch, Seller, Material,
    RetryLimit    \* retries of a job (3 in the code)

ASSUME JobsAssumption == RetryLimit \in Nat

VARIABLES
    job,       \* the rows "product-publish-jobs", and what the platform has of each
    runner,    \* the background task of a batch
    retry,     \* execute_publish_retry: on, the rows it selected with their counts, the
               \* one it publishes
    halted     \* ghost: batches whose task died, or that have a draft

jobsVars == <<job, runner, retry, halted>>

Job == JobBatch \X Seller \X Material
JobsOf(b, a) == {b} \X {a} \X Material
NotStarted == [at |-> "none", accounts |-> {}, account |-> {}, todo |-> {}, won |-> FALSE]
NoRetry == [on |-> FALSE, counts |-> <<>>, publishing |-> {}]

JobsTypeOK ==
    /\ job \in [Job -> [status : {"none", "pending", "publishing", "success", "failed"},
                        retries : 0 .. RetryLimit, listed : 0 .. 2, unclear : BOOLEAN]]
    /\ runner \in [JobBatch -> [at : {"none", "queued", "accounts", "jobs", "publishing",
                                   "sync", "done", "lost"},
                             accounts : SUBSET Seller, account : SUBSET Seller,
                             todo : SUBSET Material, won : BOOLEAN]]
    /\ retry.on \in BOOLEAN /\ retry.publishing \subseteq Job
    /\ DOMAIN retry.counts \subseteq Job
    /\ \A j \in DOMAIN retry.counts : retry.counts[j] \in 0 .. RetryLimit
    /\ halted \subseteq JobBatch

--------------------------------------------------------------------------------
(* The background task of a batch: _run_batch_publish_background.                  *)

RunnerStarts(b) ==
    /\ runner[b].at = "queued"
    /\ runner' = [runner EXCEPT ![b].at = "accounts"]
    /\ UNCHANGED <<job, retry, halted>>

\* Mutant: the jobs of an account that cannot publish are passed over.
AccountFailsSilently(b, a) ==
    /\ runner[b].at = "accounts" /\ a \in runner[b].accounts
    /\ runner' = [runner EXCEPT ![b].accounts = @ \ {a}]
    /\ UNCHANGED <<job, retry, halted>>

\* An account without cookie, or that may not publish: its jobs fail.
AccountFails(b, a) ==
    /\ runner[b].at = "accounts" /\ a \in runner[b].accounts
    /\ runner' = [runner EXCEPT ![b].accounts = @ \ {a}]
    /\ job' = [j \in Job |-> IF j \in JobsOf(b, a) THEN [job[j] EXCEPT !.status = "failed"]
                             ELSE job[j]]
    /\ UNCHANGED <<retry, halted>>

AccountStarts(b, a) ==
    /\ runner[b].at = "accounts" /\ a \in runner[b].accounts
    /\ runner' = [runner EXCEPT ![b].accounts = @ \ {a}, ![b].account = {a},
                                ![b].todo = Material, ![b].won = FALSE, ![b].at = "jobs"]
    /\ UNCHANGED <<job, retry, halted>>

\* A job is marked, and the platform asked to publish.
JobStarts(b) ==
    /\ runner[b].at = "jobs"
    /\ \E m \in runner[b].todo, a \in runner[b].account :
        /\ runner' = [runner EXCEPT ![b].at = "publishing", ![b].todo = @ \ {m}]
        /\ job' = [job EXCEPT ![<<b, a, m>>].status = "publishing"]
    /\ UNCHANGED <<retry, halted>>

\* The platform lists the item, or refuses, or it lists it and nobody learns.
Listed(j) == [job[j] EXCEPT !.status = "success", !.listed = @ + 1]
Refused(j) == [job[j] EXCEPT !.status = "failed"]
Unclear(j) == [job[j] EXCEPT !.status = "failed", !.listed = @ + 1, !.unclear = TRUE]

\* The answer is saved; a service is only a draft, and waits for the app.
JobEnds(b) ==
    /\ runner[b].at = "publishing"
    /\ \E a \in runner[b].account, m \in Material :
        LET j == <<b, a, m>> IN
        /\ job[j].status = "publishing"
        /\ \/ /\ job' = [job EXCEPT ![j] = Listed(j)]
              /\ runner' = [runner EXCEPT ![b].at = "jobs", ![b].won = TRUE]
              /\ UNCHANGED halted
           \/ /\ job' = [job EXCEPT ![j].status = "pending"]
              /\ halted' = halted \cup {b}
              /\ runner' = [runner EXCEPT ![b].at = "jobs"]
           \/ /\ \E end \in {Refused(j), Unclear(j)} : job' = [job EXCEPT ![j] = end]
              /\ runner' = [runner EXCEPT ![b].at = "jobs"]
              /\ UNCHANGED halted
    /\ UNCHANGED retry

\* What the task writes of the synchronisation is the payload it has in memory, from
\* before any retry: the count of retries starts again.
Forgotten(b) ==
    [j \in Job |-> IF \E a \in runner[b].account : j \in JobsOf(b, a)
                   THEN [job[j] EXCEPT !.retries = 0] ELSE job[j]]

\* The account's jobs are done; with a success among them its items are fetched.
AccountEnds(b) ==
    /\ runner[b].at = "jobs" /\ runner[b].todo = {}
    /\ \/ /\ runner[b].won
          /\ job' = Forgotten(b)
          /\ runner' = [runner EXCEPT ![b].at = "sync"]
       \/ /\ ~runner[b].won
          /\ runner' = [runner EXCEPT ![b].at = "accounts", ![b].account = {}]
          /\ UNCHANGED job
    /\ UNCHANGED <<retry, halted>>

\* The items were fetched, or the synchronisation failed before it used the session.
SyncEnds(b) ==
    /\ runner[b].at = "sync"
    /\ job' = Forgotten(b)
    /\ runner' = [runner EXCEPT ![b].at = "accounts", ![b].account = {}, ![b].won = FALSE]
    /\ UNCHANGED <<retry, halted>>

RunnerEnds(b) ==
    /\ runner[b].at = "accounts" /\ runner[b].accounts = {}
    /\ runner' = [runner EXCEPT ![b].at = "done"]
    /\ UNCHANGED <<job, retry, halted>>

RunnerSteps(b) ==
    \/ RunnerStarts(b) \/ JobStarts(b) \/ JobEnds(b) \/ AccountEnds(b) \/ SyncEnds(b)
    \/ RunnerEnds(b)
    \/ \E a \in Seller : AccountFails(b, a) \/ AccountStarts(b, a)

Working(b) == runner[b].at \notin {"none", "done", "lost"}
TaskLost == [NotStarted EXCEPT !.at = "lost"]

\* An exception that nobody catches ends the task. A synchronisation that finds the lease
\* held, or fails on its way, rolls the session back; that expires the rows, and reading
\* row.payload for the result raises. Elsewhere an error of the database does it. The
\* jobs of the accounts that are left stay pending.
TaskDies(b) ==
    /\ Working(b)
    /\ runner' = [runner EXCEPT ![b] = TaskLost]
    /\ halted' = halted \cup {b}
    /\ UNCHANGED <<job, retry>>

\* The backend restarts: its tasks and the requests it was asked are gone, the rows stay.
Restart ==
    LET running == {b \in JobBatch : Working(b)} IN
    /\ running # {}
    /\ runner' = [b \in JobBatch |-> IF b \in running THEN TaskLost ELSE runner[b]]
    /\ halted' = halted \cup running
    /\ UNCHANGED <<job, retry>>

--------------------------------------------------------------------------------
(* execute_publish_retry; no two runs of it overlap here.                          *)

\* Mutant: every job that has not succeeded is selected.
RetrySelectsUnfinished ==
    /\ ~retry.on
    /\ LET rows == {j \in Job : job[j].status \notin {"none", "success"}} IN
        /\ rows # {}
        /\ retry' = [on |-> TRUE, counts |-> [j \in rows |-> job[j].retries],
                     publishing |-> {}]
    /\ UNCHANGED <<job, runner, halted>>

\* The failed jobs are read, once.
RetrySelects ==
    /\ ~retry.on
    /\ LET rows == {j \in Job : job[j].status = "failed"} IN
        /\ rows # {}
        /\ retry' = [on |-> TRUE, counts |-> [j \in rows |-> job[j].retries],
                     publishing |-> {}]
    /\ UNCHANGED <<job, runner, halted>>

Without(j) == [i \in DOMAIN retry.counts \ {j} |-> retry.counts[i]]

\* A job that used up its retries, or whose account or material is gone (which counts).
RetrySkips(j) ==
    /\ retry.publishing = {} /\ j \in DOMAIN retry.counts
    /\ retry' = [retry EXCEPT !.counts = Without(j)]
    /\ \/ retry.counts[j] >= RetryLimit /\ UNCHANGED job
       \/ /\ retry.counts[j] < RetryLimit
          /\ job' = [job EXCEPT ![j].retries = retry.counts[j] + 1]
    /\ UNCHANGED <<runner, halted>>

\* Mutant: one retry more than the limit.
RetryPublishesBeyond(j) ==
    /\ retry.publishing = {} /\ j \in DOMAIN retry.counts
    /\ retry.counts[j] <= RetryLimit
    /\ retry' = [retry EXCEPT !.publishing = {j}]
    /\ UNCHANGED <<job, runner, halted>>

RetryPublishes(j) ==
    /\ retry.publishing = {} /\ j \in DOMAIN retry.counts
    /\ retry.counts[j] < RetryLimit
    /\ retry' = [retry EXCEPT !.publishing = {j}]
    /\ UNCHANGED <<job, runner, halted>>

\* The answer is saved: a draft counts as published.
RetryAnswer(j) ==
    /\ j \in retry.publishing
    /\ \E end \in {Listed(j), [job[j] EXCEPT !.status = "success"], Refused(j), Unclear(j)} :
        /\ end.listed <= 2
        /\ job' = [job EXCEPT ![j] = [end EXCEPT !.retries = retry.counts[j] + 1]]
    /\ retry' = [retry EXCEPT !.publishing = {}, !.counts = Without(j)]
    /\ UNCHANGED <<runner, halted>>

RetryEnds ==
    /\ retry.on /\ retry.counts = <<>>
    /\ retry' = NoRetry
    /\ UNCHANGED <<job, runner, halted>>

--------------------------------------------------------------------------------

\* publish_batch: the jobs are created in one transaction; the task starts afterwards.
Create(b) ==
    /\ runner[b].at = "none"
    /\ job' = [j \in Job |-> IF j[1] = b THEN [job[j] EXCEPT !.status = "pending"] ELSE job[j]]
    /\ runner' = [runner EXCEPT ![b] = [NotStarted EXCEPT !.at = "queued",
                                                          !.accounts = Seller]]
    /\ UNCHANGED <<retry, halted>>

JobsInit ==
    /\ job = [j \in Job |-> [status |-> "none", retries |-> 0, listed |-> 0,
                             unclear |-> FALSE]]
    /\ runner = [b \in JobBatch |-> NotStarted]
    /\ retry = NoRetry
    /\ halted = {}

JobsNext ==
    \/ \E b \in JobBatch : Create(b) \/ RunnerSteps(b) \/ TaskDies(b)
    \/ Restart
    \/ RetrySelects \/ RetryEnds
    \/ \E j \in Job : RetrySkips(j) \/ RetryPublishes(j) \/ RetryAnswer(j)

\* The task goes on as long as its process lives and nothing is raised.
JobsFairness == \A b \in JobBatch : WF_jobsVars(RunnerSteps(b))

JobsSpec == JobsInit /\ [][JobsNext]_jobsVars /\ JobsFairness

--------------------------------------------------------------------------------
(* What has to hold.                                                               *)

\* What publish_batch_status answers of a batch: finished when no job waits or runs.
Finished(b) == \A j \in Job : j[1] = b => job[j].status \notin {"pending", "publishing"}

Stage(b) ==
    IF \A j \in Job : j[1] = b => job[j].status = "none" THEN "none"
    ELSE IF Finished(b) THEN "finished"
    ELSE IF b \in halted THEN "stuck"
    ELSE "running"

\* A batch that the page is told has finished stays so, whatever the retries do, and every
\* batch finishes, unless its task died (by itself or with a restart) or a draft waits for
\* the app: such a batch is stuck for good.
Progress ==
    INSTANCE BatchProgress WITH Batch <- JobBatch, progress <- [b \in JobBatch |-> Stage(b)]
BatchesProgress == Progress!ProgressSpec

\* A job is not listed twice by the task and the retries, however they interleave, unless
\* the platform listed it and failed to say so.
NoDoubleListing == \A j \in Job : job[j].listed > 1 => job[j].unclear
================================================================================
