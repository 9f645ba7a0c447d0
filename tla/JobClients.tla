----------------------------- MODULE JobClients -----------------------------
(***************************************************************************)
(* The programs that submit a try-on job and wait for it: the Go job       *)
(* runner (native/go/tryops-job-runner) and the Python benchmark           *)
(* (scripts/benchmark_vton_mlflow.py).  A call is one submission, sent     *)
(* again when its attempt failed or timed out if the client retries, and   *)
(* then the polling of the job whose id the last attempt was given.        *)
(* Nothing identifies a repeated submission: each attempt that reaches the *)
(* queue becomes a job of its own.                                         *)
(***************************************************************************)
EXTENDS JobRequests

CONSTANTS
    Clients,
    Attempts,   \* Attempts[c]: the job id each attempt would get, in order
    Patient     \* the benchmarks: they poll on whatever the answer is

ASSUME ClientsAssumption ==
    /\ Attempts \in [Clients -> Seq(Jobs) \ {<<>>}]
    /\ Patient \subseteq Clients

VARIABLE call   \* call[c]: phase, attempt, and whether a deadline of c passed

Phases == {"absent", "idle", "waiting", "polling", "passed", "failed"}

ClientInit ==
    call \in [Clients -> [phase : {"absent", "idle"}, attempt : {1}, late : {FALSE}]]

Job(c) == Attempts[c][call[c].attempt]

Enter(c, phase) == call' = [call EXCEPT ![c].phase = phase]

In(c, phase) == call[c].phase = phase

-----------------------------------------------------------------------------
(* A plausible bug; nothing below uses it.                                 *)

\* RunnerPolls that does not know "queued".
PollKnowingRunning(c) ==
    /\ In(c, "polling") /\ c \notin Patient
    /\ LET status == PolledStatus(Job(c))
       IN  \/ status = "completed" /\ Enter(c, "passed")
           \/ status \notin {"completed", "running"} /\ Enter(c, "failed")
    /\ UNCHANGED requestVars

-----------------------------------------------------------------------------

Submit(c) ==
    /\ In(c, "idle")
    /\ Enter(c, "waiting")
    /\ Send(Job(c))
    /\ UNCHANGED vars

\* The answer to the submission: a job id to poll, or HTTP 200 without one.
Answered(c) ==
    /\ In(c, "waiting")
    /\ \/ reply[Job(c)] = "accepted" /\ Enter(c, "polling")
       \/ reply[Job(c)] = "rejected" /\ Enter(c, "failed")
    /\ UNCHANGED requestVars

\* submitWithRetry: the next attempt, or the end of the call.
AttemptFails(c, late) ==
    LET next == call[c].attempt + 1
    IN  /\ In(c, "waiting")
        /\ IF next <= Len(Attempts[c])
           THEN /\ call' = [call EXCEPT ![c].attempt = next, ![c].late = @ \/ late]
                /\ Send(Attempts[c][next])
           ELSE /\ call' = [call EXCEPT ![c].phase = "failed", ![c].late = @ \/ late]
                /\ UNCHANGED reply
        /\ UNCHANGED vars

AttemptErrs(c) == reply[Job(c)] = "error" /\ AttemptFails(c, FALSE)

\* The deadline of an attempt: the request is abandoned, the server goes on.
AttemptTimesOut(c) == reply[Job(c)] = "sent" /\ AttemptFails(c, TRUE)

\* pollAsyncJob: the answer for an unknown job, "rejected", ends it.
RunnerPolls(c) ==
    /\ In(c, "polling") /\ c \notin Patient
    /\ LET status == PolledStatus(Job(c))
       IN  \/ status = "completed" /\ Enter(c, "passed")
           \/ status \in {"failed", "none"} /\ Enter(c, "failed")
    /\ UNCHANGED requestVars

\* _poll_vton_job: nothing but an outcome ends it.
BenchmarkPolls(c) ==
    /\ In(c, "polling") /\ c \in Patient
    /\ LET status == PolledStatus(Job(c))
       IN  \/ status = "completed" /\ Enter(c, "passed")
           \/ status = "failed" /\ Enter(c, "failed")
    /\ UNCHANGED requestVars

\* A status request that ends in a 500.
PollErrs(c) ==
    /\ In(c, "polling")
    /\ IF c \in Patient THEN UNCHANGED call ELSE Enter(c, "failed")
    /\ ReadFails
    /\ UNCHANGED reply

PollTimesOut(c) ==
    /\ In(c, "polling")
    /\ call' = [call EXCEPT ![c].phase = "failed", ![c].late = TRUE]
    /\ UNCHANGED requestVars

\* The status requests under way when the process is restarted.
PollsBreak ==
    \E broken \in SUBSET {c \in Clients \ Patient : In(c, "polling")} :
        call' = [c \in Clients |->
                    IF c \in broken THEN [call[c] EXCEPT !.phase = "failed"] ELSE call[c]]

ClientStep(c) ==
    \/ Submit(c) \/ Answered(c) \/ AttemptErrs(c) \/ AttemptTimesOut(c)
    \/ RunnerPolls(c) \/ BenchmarkPolls(c) \/ PollErrs(c) \/ PollTimesOut(c)

\* Answers are read and status requests repeated; no deadline has to pass.
ClientFairness ==
    \A c \in Clients : WF_<<requestVars, call>>(Answered(c) \/ AttemptErrs(c) \/ RunnerPolls(c) \/ BenchmarkPolls(c))

-----------------------------------------------------------------------------
(* Properties.                                                             *)

Undisturbed == faults = 0 /\ crashes = 0

(* What a call reports is what became of its jobs.  A call that passed has *)
(* a completed job (runner.go:135).  A call that failed, or that submitted *)
(* a second time, has left no job behind that runs or completed, or holds  *)
(* a slot, except after a missed deadline, a failing database call or a    *)
(* restart (runner.go:75): the answers a healthy server gives are never    *)
(* retried and never mistaken for a failure.                               *)
VerdictsHold ==
    \A c \in Clients :
        /\ In(c, "passed") /\ crashes = 0 => memory[Job(c)] = "completed"
        /\ Undisturbed /\ ~call[c].late =>
            \A i \in 1..call[c].attempt :
                In(c, "failed") \/ i < call[c].attempt =>
                    LET j == Attempts[c][i]
                    IN  memory[j] \in {"none", "failed"} /\ handler[j] \in {"idle", "answered"}

(* A client that polls gets an outcome without waiting for its deadline,   *)
(* unless the process is restarted: the pool thread settles every job      *)
(* whatever row it could not write (jobs.py:223-230).  After a restart the *)
(* row may say "running" for ever, and the benchmark waits its 320 s.      *)
PollingEnds ==
    \A c \in Clients : In(c, "polling") ~> (call[c].phase \in {"passed", "failed"} \/ crashes > 0)
=============================================================================
