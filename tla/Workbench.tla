------------------------------- MODULE Workbench -------------------------------
(* Parts of the web console that share no state, side by side: the account dialogs, *)
(* the sockets of the chat page, the page that publishes in batches, and the         *)
(* server's batch jobs.  A page keeps its own in React state and refs, and meets the *)
(* others only in the backend, whose answers are arbitrary in each part.  So any     *)
(* behaviour of the whole is one of each part with stuttering, and it is enough to   *)
(* let one part, chosen at the start, act.                                           *)
EXTENDS AccountLogin, ChatSockets, BatchPage, BatchJobs, SharedScan

VARIABLE part   \* the part that acts

Part == {"login", "links", "batch", "jobs", "scan"}
workVars == <<part, loginVars, linkVars, pageVars, jobsVars, scanVars>>

WorkTypeOK ==
    /\ part \in Part
    /\ LoginTypeOK /\ LinksTypeOK /\ PageTypeOK /\ JobsTypeOK /\ ScanTypeOK

WorkInit ==
    /\ part \in Part
    /\ LoginInit /\ LinksInit /\ PageInit /\ JobsInit /\ ScanInit

WorkNext ==
    /\ UNCHANGED part
    /\ \/ part = "login" /\ LoginNext /\ UNCHANGED <<linkVars, pageVars, jobsVars, scanVars>>
       \/ part = "links" /\ LinksNext /\ UNCHANGED <<loginVars, pageVars, jobsVars, scanVars>>
       \/ part = "batch" /\ PageNext /\ UNCHANGED <<loginVars, linkVars, jobsVars, scanVars>>
       \/ part = "jobs" /\ JobsNext /\ UNCHANGED <<loginVars, linkVars, pageVars, scanVars>>
       \/ part = "scan" /\ ScanNext /\ UNCHANGED <<loginVars, linkVars, pageVars, jobsVars>>

\* Nothing that has to happen is enabled in the initial states of the parts that wait.
WorkFairness ==
    LoginFairness /\ LinksFairness /\ PageFairness /\ JobsFairness /\ ScanFairness

WorkSpec == WorkInit /\ [][WorkNext]_workVars /\ WorkFairness
================================================================================
