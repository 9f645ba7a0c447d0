---------------------------- MODULE JobRequests ----------------------------
(***************************************************************************)
(* VtonJobs seen over HTTP: the POST /v1/vton/jobs that submits a job and  *)
(* the one answer it gets.  A refusal is HTTP 200 with status "rejected"   *)
(* (contracts.py structured_error), an exception a 500, a process that     *)
(* dies a broken connection.  An accepted job is counted once more for the *)
(* answer (api.py:792), and a database failure there answers 500 although  *)
(* the pool has the job.                                                   *)
(***************************************************************************)
EXTENDS VtonJobs

VARIABLE reply   \* reply[j]: the request that submits j and its answer

Replies == {"open",      \* submitted by nobody in particular, again after a refusal
            "unsent", "sent", "accepted", "rejected", "error"}

requestVars == <<vars, reply>>

Reply(j, answer) == reply' = [reply EXCEPT ![j] = IF @ = "open" THEN @ ELSE answer]

Send(j) == reply[j] = "unsent" /\ Reply(j, "sent")

-----------------------------------------------------------------------------

\* The handler is entered for a request that was sent, once.
TakeUp(j) == reply[j] \in {"open", "sent"} /\ CountInMemory(j) /\ UNCHANGED reply

\* The two checks and the insert; either of them may refuse.
Admit(j) ==
    /\ CountPersisted(j) \/ Insert(j) \/ Refuse(j)
    /\ IF handler'[j] = "idle" THEN Reply(j, "rejected") ELSE UNCHANGED reply

AbortRequest(j) == CountAborts(j) /\ Reply(j, "error")

Carry(j) ==
    /\ PersistQueued(j) \/ Enqueue(j) \/ ThreadStep(j)
    /\ UNCHANGED reply

\* accepted["concurrency"] is computed after the pool got the job.
Answer(j) ==
    /\ handler[j] = "answered" /\ reply[j] = "sent"
    /\ \/ Reply(j, "accepted") /\ UNCHANGED vars
       \/ Reply(j, "error") /\ ReadFails

\* A restart breaks every connection that waits for its answer.
BreakRequests ==
    /\ Restart
    /\ reply' = [j \in Jobs |-> IF reply[j] = "sent" THEN "error" ELSE reply[j]]

RequestStep(j) == TakeUp(j) \/ Admit(j) \/ AbortRequest(j) \/ Carry(j) \/ Answer(j)

\* A request that was sent is taken up and answered.
RequestFairness ==
    /\ Fairness
    /\ \A j \in Jobs : WF_requestVars(reply[j] = "sent" /\ (TakeUp(j) \/ Answer(j)))
=============================================================================
