----------------------------- MODULE BatchProgress -----------------------------
(* What the page that publishes in batches may rely on: a batch is created once,  *)
(* goes on, and either finishes, for good, or is stuck for good.                   *)
CONSTANT Batch
VARIABLE progress

Stages == {"none", "running", "finished", "stuck"}
Running == {b \in Batch : progress[b] = "running"}

Begin(b) == progress[b] = "none" /\ progress' = [progress EXCEPT ![b] = "running"]
Finish(b) == b \in Running /\ progress' = [progress EXCEPT ![b] = "finished"]

\* A restart of the server stops all that run; a draft or an exception stops one.
Stop ==
    \E B \in (SUBSET Running) \ {{}} :
        progress' = [b \in Batch |-> IF b \in B THEN "stuck" ELSE progress[b]]

ProgressInit == progress = [b \in Batch |-> "none"]
ProgressNext == Stop \/ \E b \in Batch : Begin(b) \/ Finish(b)

ProgressSpec ==
    /\ ProgressInit /\ [][ProgressNext]_progress
    /\ \A b \in Batch : progress[b] = "running" ~> progress[b] # "running"
================================================================================
