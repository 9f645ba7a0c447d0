---------------------------- MODULE FashnRouter ----------------------------
(***************************************************************************)
(* The router in front of the FASHN try-on workers                         *)
(* (scripts/serve_fashn_vton_router.py).  Each POST runs route_infer in a  *)
(* thread of its own: it probes the workers that do not look ready, claims *)
(* one under the scheduler lock, forwards the request and releases the     *)
(* worker.  Monitors (GET /ready, GET /metrics) probe every worker.        *)
(* The counters of a worker are under its own lock, which releasing takes  *)
(* without the scheduler lock, so a claim sees them change.                *)
(***************************************************************************)
EXTENDS Integers, FiniteSets

CONSTANTS
    N,          \* number of configured workers, numbered as in self.workers
    Requests,   \* handler threads that run route_infer
    Monitors    \* handler threads that run readiness

ASSUME RouterAssumption ==
    /\ N \in Nat \ {0}
    /\ IsFiniteSet(Requests)
    /\ Requests \intersect Monitors = {}

VARIABLES
    alive,        \* alive[w]: the worker process runs; nothing restarts it
    serving,      \* serving[w]: its GET /ready would answer ready
    ready,        \* ready[w]: WorkerState.ready
    inflight,     \* inflight[w]: WorkerState.inflight
    nextIndex,    \* next_worker_index
    scheduler,    \* who holds scheduler_lock: a set of at most one request
    step,         \* step[p]: where handler thread p is
    position,     \* position[p]: the worker the probing loop of p looks at
    answer,       \* answer[p]: what its probe has heard and not yet written
    candidates,   \* candidates[r]: ready and alive workers r has read
    least,        \* least[r]: min_inflight over them
    claimed,      \* claimed[r]: {w} when r holds worker w, else {}
    passedOver    \* history: consecutive claims that could take w and did not

vars == <<alive, serving, ready, inflight, nextIndex, scheduler, step, position,
          answer, candidates, least, claimed, passedOver>>

Workers == 0 .. N - 1
Threads == Requests \union Monitors
Steps == {"idle", "probing", "choosing", "forwarding", "releasing", "refused"}

\* What the claim loop knows while it holds the scheduler lock.
claimVars == <<candidates, least>>
environment == <<alive, serving>>

Init ==
    /\ alive = [w \in Workers |-> TRUE]
    /\ serving = [w \in Workers |-> FALSE]
    /\ ready = [w \in Workers |-> FALSE]
    /\ inflight = [w \in Workers |-> 0]
    /\ nextIndex = 0
    /\ scheduler = {}
    /\ step = [p \in Threads |-> "idle"]
    /\ position = [p \in Threads |-> 0]
    /\ answer = [p \in Threads |-> "none"]
    /\ candidates = [r \in Requests |-> {}]
    /\ least = [r \in Requests |-> 0]
    /\ claimed = [r \in Requests |-> {}]
    /\ passedOver = [w \in Workers |-> 0]

Goto(p, from, to) ==
    /\ step[p] = from
    /\ step' = [step EXCEPT ![p] = to]

-----------------------------------------------------------------------------
(* The worker processes.                                                   *)

\* Loading the model makes a worker ready; a CUDA error or low memory undoes it.
WorkerChanges(w) ==
    /\ alive[w]
    /\ serving' = [serving EXCEPT ![w] = ~@]
    /\ UNCHANGED <<alive, ready, inflight, nextIndex, scheduler, step, position,
                   answer, claimVars, claimed, passedOver>>

WorkerDies(w) ==
    /\ alive[w]
    /\ alive' = [alive EXCEPT ![w] = FALSE]
    /\ serving' = [serving EXCEPT ![w] = FALSE]
    /\ UNCHANGED <<ready, inflight, nextIndex, scheduler, step, position,
                   answer, claimVars, claimed, passedOver>>

-----------------------------------------------------------------------------
(* Probing: the first loop of claim_worker, and readiness.                 *)

Arrive(p) ==
    /\ Goto(p, "idle", "probing")
    /\ position' = [position EXCEPT ![p] = 0]
    /\ UNCHANGED <<environment, ready, inflight, nextIndex, scheduler, answer,
                   claimVars, claimed, passedOver>>

\* The loop of p is at worker w and has no answer of it yet.
Probing(p, w) == step[p] = "probing" /\ position[p] = w /\ answer[p] = "none"

Advance(p) == position' = [position EXCEPT ![p] = @ + 1]

SetReady(w, value) == ready' = [ready EXCEPT ![w] = value]

\* A request does not probe a worker that looks ready and runs.
SkipReady(r, w) ==
    /\ r \in Requests
    /\ Probing(r, w)
    /\ ready[w] /\ alive[w]
    /\ Advance(r)
    /\ UNCHANGED <<environment, ready, inflight, nextIndex, scheduler, step, answer,
                   claimVars, claimed, passedOver>>

ProbeDead(p, w) ==
    /\ Probing(p, w)
    /\ ~alive[w]
    /\ SetReady(w, FALSE)
    /\ Advance(p)
    /\ UNCHANGED <<environment, inflight, nextIndex, scheduler, step, answer,
                   claimVars, claimed, passedOver>>

\* GET /ready with a timeout of 3 seconds: what the worker said, or an error.
ProbeAsk(p, w) ==
    /\ Probing(p, w)
    /\ alive[w]
    /\ p \in Requests => ~ready[w]
    /\ \E heard \in {"down"} \union (IF serving[w] THEN {"up"} ELSE {}) :
        answer' = [answer EXCEPT ![p] = heard]
    /\ UNCHANGED <<environment, ready, inflight, nextIndex, scheduler, step, position,
                   claimVars, claimed, passedOver>>

\* The answer is written under the worker's lock, however old it is by now.
ProbeWrite(p, w) ==
    /\ step[p] = "probing" /\ position[p] = w /\ answer[p] # "none"
    /\ SetReady(w, answer[p] = "up")
    /\ answer' = [answer EXCEPT ![p] = "none"]
    /\ Advance(p)
    /\ UNCHANGED <<environment, inflight, nextIndex, scheduler, step,
                   claimVars, claimed, passedOver>>

MonitorAnswers(m) ==
    /\ position[m] = N
    /\ Goto(m, "probing", "idle")
    /\ UNCHANGED <<environment, ready, inflight, nextIndex, scheduler, position, answer,
                   claimVars, claimed, passedOver>>

-----------------------------------------------------------------------------
(* What a claim reads and takes.                                           *)

LookReady == {w \in Workers : ready[w] /\ alive[w]}

\* How many places after next_worker_index worker w comes.
Distance(w) == IF w >= nextIndex THEN w - nextIndex ELSE w + N - nextIndex

\* The loads are read a second time: eligible are those that still equal least.
Eligible(r) == {w \in candidates[r] : inflight[w] = least[r]}

\* The candidates and their least load are read, and r goes on as lock holder.
ReadLoads(r) ==
    /\ position[r] = N
    /\ LookReady # {}
    /\ Goto(r, "probing", "choosing")
    /\ scheduler' = {r}
    /\ candidates' = [candidates EXCEPT ![r] = LookReady]
    /\ \E w \in LookReady :
        /\ \A v \in LookReady : inflight[w] <= inflight[v]
        /\ least' = [least EXCEPT ![r] = inflight[w]]
    /\ UNCHANGED <<environment, ready, inflight, nextIndex, position, answer, claimed, passedOver>>

\* r takes w, the first eligible worker in rotation order; the next rotation
\* starts at following.
ClaimMoving(r, w, following) ==
    /\ Goto(r, "choosing", "forwarding")
    /\ w \in Eligible(r)
    /\ \A v \in Eligible(r) : Distance(w) <= Distance(v)
    /\ nextIndex' = following
    /\ inflight' = [inflight EXCEPT ![w] = @ + 1]
    /\ claimed' = [claimed EXCEPT ![r] = {w}]
    /\ scheduler' = {}
    /\ passedOver' = [v \in Workers |-> IF v \in Eligible(r) \ {w} THEN passedOver[v] + 1 ELSE 0]
    /\ UNCHANGED <<environment, ready, position, answer, claimVars>>

-----------------------------------------------------------------------------
(* Plausible bugs, one per operator; nothing below uses them.              *)

\* The index stays at the claimed worker.
ClaimStaying(r, w) == ClaimMoving(r, w, w)

\* The early return leaves the scheduler lock held.
ClaimNothingLocked(r) ==
    /\ Goto(r, "choosing", "refused")
    /\ Eligible(r) = {}
    /\ UNCHANGED <<environment, ready, inflight, nextIndex, scheduler, position, answer,
                   claimVars, claimed, passedOver>>

\* The error path releases the worker that finally releases again.
ForwardFailsReleasing(r, w) ==
    /\ w \in claimed[r]
    /\ Goto(r, "forwarding", "releasing")
    /\ SetReady(w, FALSE)
    /\ inflight' = [inflight EXCEPT ![w] = IF @ > 0 THEN @ - 1 ELSE 0]
    /\ UNCHANGED <<environment, nextIndex, scheduler, position, answer,
                   claimVars, claimed, passedOver>>

-----------------------------------------------------------------------------
(* Claiming a worker, under scheduler_lock.                                *)

ReadCandidates(r) ==
    /\ scheduler = {}
    /\ ReadLoads(r)

\* No candidate: claim_worker returns None and route_infer answers 503.
RefuseNoneReady(r) ==
    /\ scheduler = {}
    /\ position[r] = N
    /\ LookReady = {}
    /\ Goto(r, "probing", "refused")
    /\ UNCHANGED <<environment, ready, inflight, nextIndex, scheduler, position, answer,
                   claimVars, claimed, passedOver>>

Claim(r, w) == ClaimMoving(r, w, IF w = N - 1 THEN 0 ELSE w + 1)

\* A release between the two reads left no eligible worker: the loop finds
\* none and claim_worker returns None although candidates is not empty.
ClaimNothing(r) ==
    /\ Goto(r, "choosing", "refused")
    /\ Eligible(r) = {}
    /\ scheduler' = {}
    /\ UNCHANGED <<environment, ready, inflight, nextIndex, position, answer,
                   claimVars, claimed, passedOver>>

-----------------------------------------------------------------------------
(* Forwarding, the rest of route_infer.                                    *)

\* The worker answers, with a result or a rejection.
WorkerAnswers(r, w) ==
    /\ w \in claimed[r]
    /\ alive[w]
    /\ Goto(r, "forwarding", "releasing")
    /\ UNCHANGED <<environment, ready, inflight, nextIndex, scheduler, position, answer,
                   claimVars, claimed, passedOver>>

\* The connection fails, times out or is malformed: the worker is unready.
ForwardFails(r, w) ==
    /\ w \in claimed[r]
    /\ Goto(r, "forwarding", "releasing")
    /\ SetReady(w, FALSE)
    /\ UNCHANGED <<environment, inflight, nextIndex, scheduler, position, answer,
                   claimVars, claimed, passedOver>>

\* finally: max(0, inflight - 1) under the worker's lock.
Release(r, w) ==
    /\ w \in claimed[r]
    /\ Goto(r, "releasing", "idle")
    /\ inflight' = [inflight EXCEPT ![w] = IF @ > 0 THEN @ - 1 ELSE 0]
    /\ claimed' = [claimed EXCEPT ![r] = {}]
    /\ candidates' = [candidates EXCEPT ![r] = {}]
    /\ least' = [least EXCEPT ![r] = 0]
    /\ UNCHANGED <<environment, ready, nextIndex, scheduler, position, answer, passedOver>>

\* The refusal is sent and the thread ends.
AnswerRefused(r) ==
    /\ Goto(r, "refused", "idle")
    /\ candidates' = [candidates EXCEPT ![r] = {}]
    /\ least' = [least EXCEPT ![r] = 0]
    /\ UNCHANGED <<environment, ready, inflight, nextIndex, scheduler, position, answer,
                   claimed, passedOver>>

-----------------------------------------------------------------------------

ProbeStep(p) ==
    \/ \E w \in Workers : SkipReady(p, w) \/ ProbeDead(p, w) \/ ProbeAsk(p, w) \/ ProbeWrite(p, w)
    \/ p \in Monitors /\ MonitorAnswers(p)

ClaimStep(r) ==
    \/ ReadCandidates(r)
    \/ RefuseNoneReady(r)
    \/ ClaimNothing(r)
    \/ \E w \in Workers : Claim(r, w)

ForwardStep(r) ==
    \/ \E w \in Workers : WorkerAnswers(r, w) \/ ForwardFails(r, w) \/ Release(r, w)
    \/ AnswerRefused(r)

Next ==
    \/ \E p \in Threads : Arrive(p) \/ ProbeStep(p)
    \/ \E r \in Requests : ClaimStep(r) \/ ForwardStep(r)
    \/ \E w \in Workers : WorkerChanges(w) \/ WorkerDies(w)

Spec == Init /\ [][Next]_vars

\* Threads keep running, probes and forwards have timeouts; the scheduler lock
\* is a threading.Lock, which a waiting thread is assumed to get in the end.
Fairness ==
    \A r \in Requests : SF_vars(ClaimStep(r)) /\ WF_vars(ProbeStep(r) \/ ForwardStep(r))

FairSpec == Spec /\ Fairness

-----------------------------------------------------------------------------
(* Properties.                                                             *)

TypeOK ==
    /\ alive \in [Workers -> BOOLEAN]
    /\ serving \in [Workers -> BOOLEAN]
    /\ ready \in [Workers -> BOOLEAN]
    /\ inflight \in [Workers -> Nat]
    /\ nextIndex \in Workers
    /\ scheduler \subseteq Requests
    /\ step \in [Threads -> Steps]
    /\ position \in [Threads -> 0 .. N]
    /\ answer \in [Threads -> {"none", "up", "down"}]
    /\ candidates \in [Requests -> SUBSET Workers]
    /\ least \in [Requests -> Nat]
    /\ claimed \in [Requests -> SUBSET Workers]
    /\ passedOver \in [Workers -> Nat]

\* The requests that hold worker w.
Holders(w) == {r \in Requests : w \in claimed[r]}

(* The in-flight count of a worker is the number of requests that hold it, *)
(* whatever answers, failures, refusals and deaths there were: it neither  *)
(* leaks, which would keep the worker out of every later choice, nor hides *)
(* a double release behind max(0, ...).                                    *)
InflightIsClaims == \A w \in Workers : inflight[w] = Cardinality(Holders(w))

(* The scheduler lock is held exactly by the request between its two reads *)
(* of the loads, and a request holds a worker exactly while it forwards.   *)
LockAndClaimsMatchSteps ==
    \A r \in Requests :
        /\ r \in scheduler <=> step[r] = "choosing"
        /\ (claimed[r] # {} <=> step[r] \in {"forwarding", "releasing"})
        /\ \A q \in scheduler, s \in scheduler : q = s
        /\ \A w \in claimed[r], v \in claimed[r] : w = v

(* Both: no way out of claim_worker or route_infer, with an answer, an     *)
(* error or a 503, leaves the lock, a worker or a load behind.             *)
LoadsAndClaimsAgree == LockAndClaimsMatchSteps /\ InflightIsClaims

(* A worker that every claim could have taken is passed over fewer times   *)
(* than there are workers: the rotation starves nobody among equal loads.  *)
RotationIsFair == \A w \in Workers : passedOver[w] + Distance(w) < N

(* While a request chooses, loads only shrink: no other request raises the *)
(* load of a candidate, so the least load it has read is still a bound.    *)
OnlyReleasesDuringChoice ==
    [][\A r \in Requests, w \in Workers :
        step[r] = "choosing" /\ step'[r] = "choosing" => inflight'[w] <= inflight[w]]_vars

(* Every request is answered, with the worker's answer, an error or a 503: *)
(* its thread is idle again, and again after the next one.                 *)
RequestsAnswered == \A r \in Requests : []<>(step[r] = "idle")

(* A request is refused for want of a ready worker only if no worker was   *)
(* ready and alive when the request looked ("No real FASHN VTON worker is  *)
(* ready").                                                                *)
RefusedOnlyWhenNoneReady == \A r \in Requests : step[r] = "refused" => candidates[r] = {}
=============================================================================
