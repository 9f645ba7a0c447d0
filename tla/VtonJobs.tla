------------------------------ MODULE VtonJobs ------------------------------
(***************************************************************************)
(* The asynchronous try-on jobs of the API process: POST /v1/vton/jobs     *)
(* (api.py vton_job_submit), the in-memory queue and its thread pool       *)
(* (jobs.py InMemoryJobQueue), and the rows of the jobs table the queue's  *)
(* callback writes (api.py _persist_job_snapshot, db.py                    *)
(* upsert_job_snapshot).                                                   *)
(*                                                                         *)
(* A job j is one submission.  Its handler thread counts the active jobs   *)
(* twice (memory, then database), inserts the record under the lock,       *)
(* writes the queued row and only then hands the job to the pool.  A pool  *)
(* thread marks it running, writes that row, runs the inference, records   *)
(* the outcome and writes the outcome row.  Every database call may fail,  *)
(* and the process may be restarted at any point: memory, handlers and     *)
(* threads are lost, rows stay.                                            *)
(***************************************************************************)
EXTENDS Integers, Sequences, FiniteSets

CONSTANTS
    Jobs,        \* job ids (uuid4): each is used by one submission
    Accounts,    \* workspaces
    Owner,       \* Owner[j]: the workspace that submits job j
    Limit,       \* Limit[a]: _vton_concurrency_limit of the plan of a
    PoolSize,    \* max_workers of the thread pool
    MaxFaults,   \* bound: how many database calls fail
    MaxCrashes   \* bound: how many times the process is restarted

ASSUME JobsAssumption ==
    /\ IsFiniteSet(Jobs)
    /\ Owner \in [Jobs -> Accounts]
    /\ Limit \in [Accounts -> Nat \ {0}]
    /\ PoolSize \in Nat \ {0}
    /\ MaxFaults \in Nat
    /\ MaxCrashes \in Nat

VARIABLES
    memory,    \* memory[j]: status of _records[j], "none" when there is no record
    handler,   \* handler[j]: where the submitting request is
    seen,      \* seen[j]: the in-memory active count the request has read
    backlog,   \* the work queue of the executor, first in first out
    thread,    \* thread[j]: where the pool thread that runs j is in _run
    db,        \* db[j]: status column of the row of j, "none" when there is no row
    faults,    \* database calls that failed so far
    crashes    \* restarts so far

vars == <<memory, handler, seen, backlog, thread, db, faults, crashes>>

ActiveStatuses == {"queued", "running"}
Outcomes == {"completed", "failed"}
Statuses == {"none"} \union ActiveStatuses \union Outcomes

HandlerSteps == {"idle",        \* no request, or refused: the client may submit again
                 "counted",     \* memory_active read, persisted_active not yet
                 "admitting",   \* the first check passed
                 "inserted",    \* the record is in _records, nothing persisted
                 "notified",    \* _notify_job_update(queued) returned
                 "answered"}    \* executor.submit done, "accepted" returned

ThreadSteps == {"off", "started", "inferring", "settled"}

-----------------------------------------------------------------------------

\* active_count_locked and count_active_jobs: active records of an account,
\* in memory or in the table.
ActiveIn(table, a) == {j \in Jobs : Owner[j] = a /\ table[j] \in ActiveStatuses}

InMemoryActive(a) == Cardinality(ActiveIn(memory, a))
PersistedActive(a) == Cardinality(ActiveIn(db, a))

BusyThreads == {j \in Jobs : thread[j] # "off"}

\* A database call that fails; the fault budget bounds it.
Fault ==
    /\ faults < MaxFaults
    /\ faults' = faults + 1

Goto(j, from, to) ==
    /\ handler[j] = from
    /\ handler' = [handler EXCEPT ![j] = to]

ThreadGoto(j, from, to) ==
    /\ thread[j] = from
    /\ thread' = [thread EXCEPT ![j] = to]

\* _persist_job_snapshot called through _notify_job_update: the row is
\* overwritten, or the call raises and the exception is swallowed.
Persist(j, status) ==
    \/ /\ db' = [db EXCEPT ![j] = status]
       /\ UNCHANGED faults
    \/ Fault /\ UNCHANGED db

Init ==
    /\ memory = [j \in Jobs |-> "none"]
    /\ handler = [j \in Jobs |-> "idle"]
    /\ seen = [j \in Jobs |-> 0]
    /\ backlog = <<>>
    /\ thread = [j \in Jobs |-> "off"]
    /\ db = [j \in Jobs |-> "none"]
    /\ faults = 0
    /\ crashes = 0

-----------------------------------------------------------------------------
(* Plausible bugs, one per operator; nothing below uses them.  Each breaks *)
(* a property when it stands for the operator named in its comment.        *)

\* Insert without the second count: the handler's stale count decides.
InsertUnchecked(j) ==
    /\ Goto(j, "admitting", "inserted")
    /\ memory' = [memory EXCEPT ![j] = "queued"]
    /\ UNCHANGED <<seen, backlog, thread, db, faults, crashes>>

\* PersistQueued repeated after the answer by a request that was not sure.
PersistQueuedTwice(j) ==
    /\ \/ Goto(j, "inserted", "notified") /\ Persist(j, "queued")
       \/ handler[j] = "answered" /\ memory[j] # "none" /\ Persist(j, "queued") /\ UNCHANGED handler
    /\ UNCHANGED <<memory, seen, backlog, thread, crashes>>

\* Enqueue that hands the job to the pool twice.
EnqueueTwice(j) ==
    /\ Goto(j, "notified", "answered")
    /\ backlog' = backlog \o <<j, j>>
    /\ UNCHANGED <<memory, seen, thread, db, faults, crashes>>

\* PersistRunning whose exception is not swallowed: the pool thread ends.
PersistRunningRaises(j) ==
    /\ \/ ThreadGoto(j, "started", "inferring") /\ Persist(j, "running")
       \/ ThreadGoto(j, "started", "off") /\ Fault /\ UNCHANGED db
    /\ UNCHANGED <<memory, handler, seen, backlog, crashes>>

\* PersistOutcome inside the try of _run, its exception not swallowed: the
\* except branch turns a completed job into a failed one.
PersistOutcomeRaises(j) ==
    /\ ThreadGoto(j, "settled", "off")
    /\ \/ Persist(j, memory[j]) /\ UNCHANGED memory
       \/ Fault /\ memory' = [memory EXCEPT ![j] = "failed"] /\ UNCHANGED db
    /\ UNCHANGED <<handler, seen, backlog, crashes>>

-----------------------------------------------------------------------------
(* The submitting request.                                                 *)

\* _vton_job_concurrency, first half: active_count under the queue's lock.
CountInMemory(j) ==
    /\ Goto(j, "idle", "counted")
    /\ seen' = [seen EXCEPT ![j] = InMemoryActive(Owner[j])]
    /\ UNCHANGED <<memory, backlog, thread, db, faults, crashes>>

Decide(j, persisted) ==
    IF seen[j] >= Limit[Owner[j]] \/ persisted >= Limit[Owner[j]]
    THEN Goto(j, "counted", "idle")
    ELSE Goto(j, "counted", "admitting")

\* Second half: the rows are counted (a failing query counts as 0), the larger
\* count is compared with the plan, and the request goes on or is refused.
CountPersisted(j) ==
    /\ \/ Decide(j, PersistedActive(Owner[j])) /\ UNCHANGED faults
       \/ Decide(j, 0) /\ Fault
    /\ seen' = [seen EXCEPT ![j] = 0]
    /\ UNCHANGED <<memory, backlog, thread, db, crashes>>

\* db.connect of the count raises outside its try: the request ends in a 500.
CountAborts(j) ==
    /\ Goto(j, "counted", "idle")
    /\ Fault
    /\ seen' = [seen EXCEPT ![j] = 0]
    /\ UNCHANGED <<memory, backlog, thread, db, crashes>>

\* InMemoryJobQueue.submit up to the end of its lock: count again, insert.
Insert(j) ==
    /\ InMemoryActive(Owner[j]) < Limit[Owner[j]]
    /\ Goto(j, "admitting", "inserted")
    /\ memory' = [memory EXCEPT ![j] = "queued"]
    /\ UNCHANGED <<seen, backlog, thread, db, faults, crashes>>

\* The same lock with no slot left: JobConcurrencyLimitExceeded.
Refuse(j) ==
    /\ InMemoryActive(Owner[j]) >= Limit[Owner[j]]
    /\ Goto(j, "admitting", "idle")
    /\ UNCHANGED <<memory, seen, backlog, thread, db, faults, crashes>>

PersistQueued(j) ==
    /\ Goto(j, "inserted", "notified")
    /\ Persist(j, "queued")
    /\ UNCHANGED <<memory, seen, backlog, thread, crashes>>

\* executor.submit and the "accepted" answer.
Enqueue(j) ==
    /\ Goto(j, "notified", "answered")
    /\ backlog' = Append(backlog, j)
    /\ UNCHANGED <<memory, seen, thread, db, faults, crashes>>

-----------------------------------------------------------------------------
(* The pool thread, InMemoryJobQueue._run.                                 *)

StartRun(j) ==
    /\ backlog # <<>> /\ j = Head(backlog)
    /\ Cardinality(BusyThreads) < PoolSize
    /\ ThreadGoto(j, "off", "started")
    /\ backlog' = Tail(backlog)
    /\ memory' = [memory EXCEPT ![j] = "running"]
    /\ UNCHANGED <<handler, seen, db, faults, crashes>>

PersistRunning(j) ==
    /\ ThreadGoto(j, "started", "inferring")
    /\ Persist(j, "running")
    /\ UNCHANGED <<memory, handler, seen, backlog, crashes>>

\* The runner returns a result whose status is "completed", any other result,
\* or raises: the record becomes completed or failed.
RecordOutcome(j) ==
    /\ ThreadGoto(j, "inferring", "settled")
    /\ \E outcome \in Outcomes : memory' = [memory EXCEPT ![j] = outcome]
    /\ UNCHANGED <<handler, seen, backlog, db, faults, crashes>>

PersistOutcome(j) ==
    /\ ThreadGoto(j, "settled", "off")
    /\ Persist(j, memory[j])
    /\ UNCHANGED <<memory, handler, seen, backlog, crashes>>

-----------------------------------------------------------------------------
(* The process dies and is started again with an empty queue.  A job id    *)
(* that was used stays used; a request that had not inserted its record    *)
(* may be sent again.                                                      *)
Restart ==
    /\ crashes < MaxCrashes
    /\ crashes' = crashes + 1
    /\ memory' = [j \in Jobs |-> "none"]
    /\ handler' = [j \in Jobs |->
            IF handler[j] \in {"inserted", "notified", "answered"} THEN "answered" ELSE "idle"]
    /\ seen' = [j \in Jobs |-> 0]
    /\ backlog' = <<>>
    /\ thread' = [j \in Jobs |-> "off"]
    /\ UNCHANGED <<db, faults>>

\* A database call that fails and changes nothing: the active jobs counted for
\* the answer (api.py:792), a status request, the feed of the console.
ReadFails ==
    /\ Fault
    /\ UNCHANGED <<memory, handler, seen, backlog, thread, db, crashes>>

HandlerStep(j) ==
    \/ CountInMemory(j)
    \/ CountPersisted(j)
    \/ CountAborts(j)
    \/ Insert(j)
    \/ Refuse(j)
    \/ PersistQueued(j)
    \/ Enqueue(j)

ThreadStep(j) ==
    \/ StartRun(j)
    \/ PersistRunning(j)
    \/ RecordOutcome(j)
    \/ PersistOutcome(j)

Next ==
    \/ \E j \in Jobs : HandlerStep(j) \/ ThreadStep(j)
    \/ ReadFails
    \/ Restart

Spec == Init /\ [][Next]_vars

\* A request in progress and a pool thread keep running; nobody has to submit.
\* The inference ends because the adapter runs it with a timeout.
Fairness ==
    \A j \in Jobs :
        /\ WF_vars(handler[j] # "idle" /\ HandlerStep(j))
        /\ WF_vars(ThreadStep(j))

FairSpec == Spec /\ Fairness

-----------------------------------------------------------------------------
(* Properties.                                                             *)

TypeOK ==
    /\ memory \in [Jobs -> Statuses]
    /\ handler \in [Jobs -> HandlerSteps]
    /\ seen \in [Jobs -> Nat]
    /\ backlog \in Seq(Jobs)
    /\ thread \in [Jobs -> ThreadSteps]
    /\ db \in [Jobs -> Statuses]
    /\ faults \in 0..MaxFaults
    /\ crashes \in 0..MaxCrashes

(* However submissions interleave, an account never has more queued or     *)
(* running jobs in memory than its plan allows: the count of the API       *)
(* handler is stale by the time of the insert, the one under the lock of   *)
(* submit decides (jobs.py:98-108).                                        *)
AccountLimit == \A a \in Accounts : InMemoryActive(a) <= Limit[a]

\* How far a status is along the life of a job (api.py _job_record_rank).
Rank(status) ==
    CASE status = "none" -> 0
      [] status = "queued" -> 2
      [] status = "running" -> 3
      [] status \in Outcomes -> 4

InBacklog(j) == \E i \in DOMAIN backlog : backlog[i] = j

\* Who will move j on: its request, the pool's queue or a pool thread.
Carriers(j) ==
    (IF handler[j] \in {"inserted", "notified"} THEN {"handler"} ELSE {})
      \union (IF InBacklog(j) THEN {"pool"} ELSE {})
      \union (IF thread[j] # "off" THEN {"thread"} ELSE {})

(* An active record in memory is being carried by exactly one of its       *)
(* request, the pool's queue and a pool thread: a failing durability       *)
(* callback or a busy pool never leaves a slot held by nobody (jobs.py:228 *)
(* "Job execution must not die because the durability side-channel         *)
(* failed").                                                               *)
ActiveIsCarried ==
    \A j \in Jobs : memory[j] \in ActiveStatuses => Cardinality(Carriers(j)) = 1

\* The stages of a job; row is what the table holds.
Stage(j, steps, record, pool, row) ==
    handler[j] \in steps /\ memory[j] \in record /\ thread[j] = pool /\ db[j] \in row

NotStarted == {"none", "queued"}
NotFinished == {"none"} \union ActiveStatuses

(* Every job is in one stage of its life, memory, table, pool queue and    *)
(* pool threads taken together; the pool's queue holds a job once.  This   *)
(* is the inductive strengthening of the invariants around it.             *)
StagesAgree ==
    /\ \A j \in Jobs :
        \/ Stage(j, {"idle", "counted", "admitting"}, {"none"}, "off", {"none"}) /\ ~InBacklog(j)
        \/ Stage(j, {"inserted"}, {"queued"}, "off", {"none"}) /\ ~InBacklog(j)
        \/ Stage(j, {"notified"}, {"queued"}, "off", NotStarted) /\ ~InBacklog(j)
        \/ Stage(j, {"answered"}, {"queued"}, "off", NotStarted) /\ InBacklog(j)
        \/ Stage(j, {"answered"}, {"running"}, "started", NotStarted) /\ ~InBacklog(j)
        \/ Stage(j, {"answered"}, {"running"}, "inferring", NotFinished) /\ ~InBacklog(j)
        \/ Stage(j, {"answered"}, Outcomes, "settled", NotFinished) /\ ~InBacklog(j)
        \/ Stage(j, {"answered"}, Outcomes, "off", NotFinished \union {memory[j]}) /\ ~InBacklog(j)
        \/ Stage(j, {"answered"}, {"none"}, "off", Statuses) /\ ~InBacklog(j)
    /\ \A i, k \in DOMAIN backlog : backlog[i] = backlog[k] => i = k

(* A row never runs ahead of the record it persists, and agrees with it on *)
(* the outcome: the queued row is written before the job reaches the pool  *)
(* (jobs.py:111-114), so a slow write cannot overtake the running row.     *)
RowFollowsRecord ==
    \A j \in Jobs : memory[j] # "none" =>
        /\ Rank(db[j]) <= Rank(memory[j])
        /\ db[j] \in Outcomes => db[j] = memory[j]

(* The unconditional upsert (db.py upsert_job_snapshot) never moves a row  *)
(* backwards nor changes an outcome, restarts and failed writes included.  *)
RowNeverRegresses ==
    [][\A j \in Jobs : Rank(db[j]) <= Rank(db'[j])
                       /\ (db[j] \in Outcomes => db'[j] = db[j])]_vars

\* vton_job_status: the record if there is one, else the row.
PolledStatus(j) == IF memory[j] # "none" THEN memory[j] ELSE db[j]

(* A client that polls GET /v1/vton/jobs/{id} never sees a job go back,    *)
(* while the process is not restarted (with a restart it may: a completed  *)
(* job whose outcome row was lost is seen running again).                  *)
PollNeverRegresses ==
    [][crashes' = crashes =>
        \A j \in Jobs : Rank(PolledStatus(j)) <= Rank(PolledStatus(j)')
                        /\ (PolledStatus(j) \in Outcomes => PolledStatus(j)' = PolledStatus(j))]_vars

(* A row left queued or running is eventually given its outcome, so it     *)
(* stops counting against the account.                                     *)
RowsSettle ==
    \A j \in Jobs : db[j] \in ActiveStatuses ~> db[j] \in Outcomes

-----------------------------------------------------------------------------
(* The queue implements the lifecycle a client relies on.                  *)

LifecycleStatus ==
    [j \in Jobs |-> IF memory[j] # "none" THEN memory[j]
                    ELSE IF handler[j] = "answered" THEN "lost"
                    ELSE "none"]

Lifecycle == INSTANCE JobLifecycle WITH status <- LifecycleStatus

ImplementsLifecycle == Lifecycle!Spec
=============================================================================
