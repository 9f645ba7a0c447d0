---------------------------- MODULE JobLifecycle ----------------------------
(***************************************************************************)
(* What the asynchronous job API of TryOps promises about a try-on job,    *)
(* without its handlers, threads and database: a job is admitted while its *)
(* account has a free slot, runs once, settles once, and its status never  *)
(* moves backwards.  A restart of the API process loses the jobs it held.  *)
(* VtonJobs implements this specification.                                 *)
(***************************************************************************)
EXTENDS Integers, FiniteSets

CONSTANTS
    Jobs,       \* job ids; each names one submission
    Accounts,   \* workspaces
    Owner,      \* Owner[j]: the workspace that submits job j
    Limit       \* Limit[a]: how many active jobs the plan of a allows

VARIABLE status

\* jobs.py ACTIVE_JOB_STATUSES
ActiveStatuses == {"queued", "running"}

Outcomes == {"completed", "failed"}

\* The jobs that occupy a slot of account a.
ActiveJobs(a) == {j \in Jobs : Owner[j] = a /\ status[j] \in ActiveStatuses}

Init == status = [j \in Jobs |-> "none"]

Accept(j) ==
    /\ status[j] = "none"
    /\ Cardinality(ActiveJobs(Owner[j])) < Limit[Owner[j]]
    /\ status' = [status EXCEPT ![j] = "queued"]

Begin(j) ==
    /\ status[j] = "queued"
    /\ status' = [status EXCEPT ![j] = "running"]

Settle(j) ==
    /\ status[j] = "running"
    /\ \E outcome \in Outcomes : status' = [status EXCEPT ![j] = outcome]

Restart == status' = [j \in Jobs |-> IF status[j] = "none" THEN "none" ELSE "lost"]

Next ==
    \/ \E j \in Jobs : Accept(j) \/ Begin(j) \/ Settle(j)
    \/ Restart

Spec == Init /\ [][Next]_status
=============================================================================
