--------------------------- MODULE VtonJobsProofs ---------------------------
(***************************************************************************)
(* Theorems about the asynchronous try-on jobs, for every set of jobs,     *)
(* every assignment of jobs to workspaces, every plan limit, pool size,    *)
(* number of failing database calls and number of restarts.                *)
(***************************************************************************)
EXTENDS JobSystem, FiniteSetTheorems, SequenceTheorems, TLAPS

-----------------------------------------------------------------------------
(* Type correctness.                                                       *)

LEMMA TypeInitially == Init => TypeOK
  BY JobsAssumption DEF JobsAssumption, Init, TypeOK, Statuses, HandlerSteps, ThreadSteps

\* What the owner of a job is and what its limit is.
LEMMA OwnerAndLimit ==
  ASSUME NEW j \in Jobs
  PROVE  Owner[j] \in Accounts /\ Limit[Owner[j]] \in Nat \ {0}
  BY JobsAssumption DEF JobsAssumption

\* The active jobs of an account form a finite set, in memory and in the table.
LEMMA ActiveIsFinite ==
  ASSUME NEW table, NEW a
  PROVE  /\ IsFiniteSet(ActiveIn(table, a))
         /\ Cardinality(ActiveIn(table, a)) \in Nat
  <1>1. ActiveIn(table, a) \in SUBSET Jobs
    BY DEF ActiveIn
  <1>2. IsFiniteSet(ActiveIn(table, a))
    BY <1>1, JobsAssumption, FS_Subset DEF JobsAssumption
  <1> QED BY <1>2, FS_CardinalityType

\* What a database write that may fail can do to the table and the fault count.
LEMMA PersistType ==
  ASSUME TypeOK, NEW j \in Jobs, NEW status \in Statuses, Persist(j, status)
  PROVE  db' \in [Jobs -> Statuses] /\ faults' \in 0..MaxFaults
  <1>1. CASE db' = [db EXCEPT ![j] = status] /\ UNCHANGED faults
    BY <1>1 DEF TypeOK
  <1>2. CASE Fault /\ UNCHANGED db
    BY <1>2, JobsAssumption DEF TypeOK, Fault
  <1> QED BY <1>1, <1>2 DEF Persist

LEMMA TypePreserved == TypeOK /\ [Next]_vars => TypeOK'
  <1> SUFFICES ASSUME TypeOK, [Next]_vars PROVE TypeOK'
    OBVIOUS
  <1> USE JobsAssumption DEF JobsAssumption, TypeOK, Statuses, ActiveStatuses, Outcomes, HandlerSteps, ThreadSteps
  <1>1. ASSUME NEW j \in Jobs, CountInMemory(j) PROVE TypeOK'
    <2>1. InMemoryActive(Owner[j]) \in Nat
      BY ActiveIsFinite DEF InMemoryActive
    <2> QED BY <1>1, <2>1 DEF CountInMemory, Goto
  <1>2. ASSUME NEW j \in Jobs, CountPersisted(j) PROVE TypeOK'
    <2>1. handler' \in [Jobs -> HandlerSteps]
      <3>1. PICK to \in {"idle", "admitting"} : handler' = [handler EXCEPT ![j] = to]
        BY <1>2 DEF CountPersisted, Decide, Goto
      <3> QED BY <3>1
    <2>2. faults' \in 0..MaxFaults
      <3>1. CASE UNCHANGED faults
        BY <3>1
      <3>2. CASE Fault
        BY <3>2 DEF Fault
      <3> QED BY <1>2, <3>1, <3>2 DEF CountPersisted
    <2> QED BY <1>2, <2>1, <2>2 DEF CountPersisted
  <1>3. ASSUME NEW j \in Jobs, CountAborts(j) PROVE TypeOK'
    BY <1>3 DEF CountAborts, Goto, Fault
  <1>4. ASSUME NEW j \in Jobs, Insert(j) PROVE TypeOK'
    BY <1>4 DEF Insert, Goto
  <1>5. ASSUME NEW j \in Jobs, Refuse(j) PROVE TypeOK'
    BY <1>5 DEF Refuse, Goto
  <1>6. ASSUME NEW j \in Jobs, PersistQueued(j) PROVE TypeOK'
    BY <1>6, PersistType DEF PersistQueued, Goto
  <1>7. ASSUME NEW j \in Jobs, Enqueue(j) PROVE TypeOK'
    <2>1. Append(backlog, j) \in Seq(Jobs)
      BY AppendProperties
    <2> QED BY <1>7, <2>1 DEF Enqueue, Goto
  <1>8. ASSUME NEW j \in Jobs, StartRun(j) PROVE TypeOK'
    <2>1. Tail(backlog) \in Seq(Jobs)
      BY <1>8, HeadTailProperties DEF StartRun
    <2> QED BY <1>8, <2>1 DEF StartRun, ThreadGoto
  <1>9. ASSUME NEW j \in Jobs, PersistRunning(j) PROVE TypeOK'
    BY <1>9, PersistType DEF PersistRunning, ThreadGoto
  <1>10. ASSUME NEW j \in Jobs, RecordOutcome(j) PROVE TypeOK'
    BY <1>10 DEF RecordOutcome, ThreadGoto
  <1>11. ASSUME NEW j \in Jobs, PersistOutcome(j) PROVE TypeOK'
    BY <1>11, PersistType DEF PersistOutcome, ThreadGoto
  <1>12. CASE ReadFails
    BY <1>12 DEF ReadFails, Fault
  <1>13. CASE Restart
    <2>1. <<>> \in Seq(Jobs)
      BY EmptySeq
    <2> QED BY <1>13, <2>1 DEF Restart
  <1>14. CASE UNCHANGED vars
    BY <1>14 DEF vars
  <1> QED
    BY <1>1, <1>2, <1>3, <1>4, <1>5, <1>6, <1>7, <1>8, <1>9, <1>10, <1>11, <1>12, <1>13, <1>14
    DEF Next, HandlerStep, ThreadStep

(* Every variable keeps its type (the state the code can be in).           *)
THEOREM TypeCorrect == Spec => []TypeOK
  BY TypeInitially, TypePreserved, PTL DEF Spec

-----------------------------------------------------------------------------
(* The stages of a job.                                                    *)

USE DEF Stage, NotStarted, NotFinished

\* Handing a job to the pool adds it, and nothing else, to the queue.
LEMMA AppendBacklog ==
  ASSUME TypeOK, StagesAgree, NEW j \in Jobs, ~InBacklog(j), backlog' = Append(backlog, j)
  PROVE  /\ \A k \in Jobs : InBacklog(k)' <=> InBacklog(k) \/ k = j
         /\ \A i, k \in DOMAIN backlog' : backlog'[i] = backlog'[k] => i = k
  <1>1. /\ Len(backlog) \in Nat
        /\ DOMAIN backlog = 1..Len(backlog)
        /\ DOMAIN backlog' = 1..(Len(backlog) + 1)
        /\ \A i \in 1..Len(backlog) : backlog'[i] = backlog[i]
        /\ backlog'[Len(backlog) + 1] = j
    BY AppendProperties, LenProperties DEF TypeOK
  <1>2. \A i \in DOMAIN backlog : backlog[i] # j
    BY DEF InBacklog
  <1>3. \A i, k \in DOMAIN backlog : backlog[i] = backlog[k] => i = k
    BY DEF StagesAgree
  <1>4. \A i \in DOMAIN backlog' : i \in DOMAIN backlog \/ i = Len(backlog) + 1
    BY <1>1
  <1>5. \A k \in Jobs : InBacklog(k)' <=> InBacklog(k) \/ k = j
    BY <1>1, <1>4 DEF InBacklog
  <1> QED BY <1>1, <1>2, <1>3, <1>4, <1>5

\* Starting the first job of the queue removes it, and nothing else.
LEMMA TailBacklog ==
  ASSUME TypeOK, StagesAgree, backlog # <<>>, backlog' = Tail(backlog)
  PROVE  /\ InBacklog(Head(backlog))
         /\ \A k \in Jobs : InBacklog(k)' <=> InBacklog(k) /\ k # Head(backlog)
         /\ \A i, k \in DOMAIN backlog' : backlog'[i] = backlog'[k] => i = k
  <1>1. /\ Len(backlog) \in Nat \ {0}
        /\ DOMAIN backlog = 1..Len(backlog)
        /\ DOMAIN backlog' = 1..(Len(backlog) - 1)
        /\ \A i \in DOMAIN backlog' : backlog'[i] = backlog[i + 1]
        /\ Head(backlog) = backlog[1]
    BY HeadTailProperties, LenProperties, EmptySeq DEF TypeOK
  <1>2. \A i, k \in DOMAIN backlog : backlog[i] = backlog[k] => i = k
    BY DEF StagesAgree
  <1>3. InBacklog(Head(backlog))
    BY <1>1 DEF InBacklog
  <1>4. ASSUME NEW k \in Jobs, InBacklog(k)' PROVE InBacklog(k) /\ k # Head(backlog)
    BY <1>1, <1>2, <1>4 DEF InBacklog
  <1>5. ASSUME NEW k \in Jobs, InBacklog(k), k # Head(backlog) PROVE InBacklog(k)'
    <2>1. PICK i \in DOMAIN backlog : backlog[i] = k
      BY <1>5 DEF InBacklog
    <2>2. i - 1 \in DOMAIN backlog' /\ backlog'[i - 1] = k
      BY <1>1, <1>5, <2>1
    <2> QED BY <2>2 DEF InBacklog
  <1>6. \A i, k \in DOMAIN backlog' : backlog'[i] = backlog'[k] => i = k
    <2>1. \A i \in DOMAIN backlog' : i + 1 \in DOMAIN backlog /\ i \in Int
      BY <1>1
    <2> QED BY <1>1, <1>2, <2>1
  <1> QED BY <1>3, <1>4, <1>5, <1>6

LEMMA StagesInitially == Init => StagesAgree
  BY DEF Init, StagesAgree, InBacklog

LEMMA StagesPreserved == TypeOK /\ StagesAgree /\ [Next]_vars => StagesAgree'
  <1> SUFFICES ASSUME TypeOK, StagesAgree, [Next]_vars PROVE StagesAgree'
    OBVIOUS
  <1> USE DEF TypeOK, Statuses, ActiveStatuses, Outcomes
  <1>a. ASSUME UNCHANGED backlog
        PROVE  \A k \in Jobs : InBacklog(k)' <=> InBacklog(k)
    BY <1>a DEF InBacklog
  <1>1. ASSUME NEW j \in Jobs, CountInMemory(j) PROVE StagesAgree'
    BY <1>1, <1>a DEF CountInMemory, Goto, StagesAgree
  <1>2. ASSUME NEW j \in Jobs, CountPersisted(j) PROVE StagesAgree'
    <2>1. \E to \in {"idle", "admitting"} : Goto(j, "counted", to)
      BY <1>2 DEF CountPersisted, Decide
    <2> QED BY <1>2, <1>a, <2>1 DEF CountPersisted, Goto, StagesAgree
  <1>3. ASSUME NEW j \in Jobs, CountAborts(j) PROVE StagesAgree'
    BY <1>3, <1>a DEF CountAborts, Goto, StagesAgree
  <1>4. ASSUME NEW j \in Jobs, Insert(j) PROVE StagesAgree'
    BY <1>4, <1>a DEF Insert, Goto, StagesAgree
  <1>5. ASSUME NEW j \in Jobs, Refuse(j) PROVE StagesAgree'
    BY <1>5, <1>a DEF Refuse, Goto, StagesAgree
  <1>6. ASSUME NEW j \in Jobs, PersistQueued(j) PROVE StagesAgree'
    BY <1>6, <1>a DEF PersistQueued, Persist, Goto, StagesAgree
  <1>7. ASSUME NEW j \in Jobs, Enqueue(j) PROVE StagesAgree'
    <2>1. ~InBacklog(j)
      BY <1>7 DEF Enqueue, Goto, StagesAgree
    <2>2. /\ \A k \in Jobs : InBacklog(k)' <=> InBacklog(k) \/ k = j
          /\ \A i, k \in DOMAIN backlog' : backlog'[i] = backlog'[k] => i = k
      BY <1>7, <2>1, AppendBacklog DEF Enqueue
    <2> QED BY <1>7, <2>1, <2>2 DEF Enqueue, Goto, StagesAgree
  <1>8. ASSUME NEW j \in Jobs, StartRun(j) PROVE StagesAgree'
    <2>1. /\ InBacklog(j)
          /\ \A k \in Jobs : InBacklog(k)' <=> InBacklog(k) /\ k # j
          /\ \A i, k \in DOMAIN backlog' : backlog'[i] = backlog'[k] => i = k
      BY <1>8, TailBacklog DEF StartRun
    <2> QED BY <1>8, <2>1 DEF StartRun, ThreadGoto, StagesAgree
  <1>9. ASSUME NEW j \in Jobs, PersistRunning(j) PROVE StagesAgree'
    BY <1>9, <1>a DEF PersistRunning, Persist, ThreadGoto, StagesAgree
  <1>10. ASSUME NEW j \in Jobs, RecordOutcome(j) PROVE StagesAgree'
    BY <1>10, <1>a DEF RecordOutcome, ThreadGoto, StagesAgree
  <1>11. ASSUME NEW j \in Jobs, PersistOutcome(j) PROVE StagesAgree'
    BY <1>11, <1>a DEF PersistOutcome, Persist, ThreadGoto, StagesAgree
  <1>12. CASE Restart
    BY <1>12 DEF Restart, StagesAgree, InBacklog, HandlerSteps
  <1>13. CASE UNCHANGED vars \/ ReadFails
    BY <1>13, <1>a DEF vars, ReadFails, StagesAgree
  <1> QED
    BY <1>1, <1>2, <1>3, <1>4, <1>5, <1>6, <1>7, <1>8, <1>9, <1>10, <1>11, <1>12, <1>13
    DEF Next, HandlerStep, ThreadStep

(* Memory, table, pool queue and threads agree on the stage of every job.  *)
THEOREM StagesAlwaysAgree == Spec => []StagesAgree
  BY StagesInitially, StagesPreserved, TypeCorrect, PTL DEF Spec

-----------------------------------------------------------------------------
(* Slots.                                                                  *)

\* A step that activates no record of a leaves a with no more active records.
LEMMA FewerActive ==
  ASSUME NEW old, NEW new, NEW a, ActiveIn(new, a) \subseteq ActiveIn(old, a)
  PROVE  Cardinality(ActiveIn(new, a)) <= Cardinality(ActiveIn(old, a))
  BY ActiveIsFinite, FS_Subset

\* One more element adds at most one.
LEMMA AddOne ==
  ASSUME NEW S, NEW x, IsFiniteSet(S)
  PROVE  Cardinality(S \union {x}) <= Cardinality(S) + 1
  <1>1. Cardinality(S) \in Nat
    BY FS_CardinalityType
  <1>2. Cardinality(S \union {x}) = IF x \in S THEN Cardinality(S) ELSE Cardinality(S) + 1
    BY FS_AddElement
  <1> QED BY <1>1, <1>2

LEMMA LimitInitially == Init => AccountLimit
  <1> SUFFICES ASSUME Init, NEW a \in Accounts PROVE InMemoryActive(a) <= Limit[a]
    BY DEF AccountLimit
  <1>1. ActiveIn(memory, a) = {}
    BY DEF Init, ActiveIn, ActiveStatuses
  <1> QED BY <1>1, FS_EmptySet, JobsAssumption DEF InMemoryActive, JobsAssumption

LEMMA LimitPreserved == TypeOK /\ StagesAgree /\ AccountLimit /\ [Next]_vars => AccountLimit'
  <1> SUFFICES ASSUME TypeOK, StagesAgree, AccountLimit, [Next]_vars,
                      NEW a \in Accounts
               PROVE  InMemoryActive(a)' <= Limit[a]
    BY DEF AccountLimit
  <1> USE DEF TypeOK, Statuses, ActiveStatuses, Outcomes
  <1>a. InMemoryActive(a) <= Limit[a] /\ Limit[a] \in Nat
    BY JobsAssumption DEF AccountLimit, JobsAssumption
  <1>b. InMemoryActive(a) \in Nat /\ InMemoryActive(a)' \in Nat
    BY ActiveIsFinite DEF InMemoryActive
  <1>1. ASSUME ActiveIn(memory', a) \subseteq ActiveIn(memory, a)
        PROVE  InMemoryActive(a)' <= Limit[a]
    BY <1>1, <1>a, <1>b, FewerActive DEF InMemoryActive
  <1>2. ASSUME NEW j \in Jobs, Insert(j) PROVE InMemoryActive(a)' <= Limit[a]
    <2>1. CASE Owner[j] # a
      <3>1. ActiveIn(memory', a) \subseteq ActiveIn(memory, a)
        BY <1>2, <2>1 DEF Insert, ActiveIn
      <3> QED BY <3>1, <1>1
    <2>2. CASE Owner[j] = a
      <3>1. InMemoryActive(a) < Limit[a]
        BY <1>2, <2>2 DEF Insert
      <3>2. ActiveIn(memory', a) = ActiveIn(memory, a) \union {j}
        BY <1>2, <2>2 DEF Insert, ActiveIn
      <3>3. InMemoryActive(a)' = Cardinality(ActiveIn(memory, a) \union {j})
        BY <3>2 DEF InMemoryActive, ActiveIn
      <3>4. IsFiniteSet(ActiveIn(memory, a))
        BY ActiveIsFinite
      <3>5. Cardinality(ActiveIn(memory, a) \union {j}) <= Cardinality(ActiveIn(memory, a)) + 1
        BY <3>4, ActiveIsFinite, AddOne
      <3> QED BY <3>1, <3>3, <3>5, <1>a, <1>b DEF InMemoryActive
    <2> QED BY <2>1, <2>2
  <1>3. ASSUME NEW j \in Jobs, StartRun(j) PROVE InMemoryActive(a)' <= Limit[a]
    <2>1. memory[j] = "queued"
      BY <1>3, TailBacklog DEF StartRun, StagesAgree
    <2>2. ActiveIn(memory', a) \subseteq ActiveIn(memory, a)
      BY <1>3, <2>1 DEF StartRun, ActiveIn
    <2> QED BY <2>2, <1>1
  <1>4. ASSUME NEW j \in Jobs, RecordOutcome(j) PROVE InMemoryActive(a)' <= Limit[a]
    <2>1. \A k \in Jobs : memory'[k] \in ActiveStatuses => memory[k] \in ActiveStatuses
      BY <1>4 DEF RecordOutcome
    <2>2. ActiveIn(memory', a) \subseteq ActiveIn(memory, a)
      BY <2>1 DEF ActiveIn
    <2> QED BY <2>2, <1>1
  <1>5. CASE Restart
    <2>1. ActiveIn(memory', a) \subseteq ActiveIn(memory, a)
      BY <1>5 DEF Restart, ActiveIn
    <2> QED BY <2>1, <1>1
  <1>6. CASE UNCHANGED memory
    <2>1. ActiveIn(memory', a) \subseteq ActiveIn(memory, a)
      BY <1>6 DEF ActiveIn
    <2> QED BY <2>1, <1>1
  <1> QED
    BY <1>2, <1>3, <1>4, <1>5, <1>6
    DEF Next, HandlerStep, ThreadStep, vars, CountInMemory, CountPersisted, CountAborts,
        Refuse, PersistQueued, Enqueue, PersistRunning, PersistOutcome, ReadFails

(* No interleaving of submissions, runs, failing database calls and        *)
(* restarts gives an account more active jobs than its plan allows.        *)
THEOREM AccountLimitHolds == Spec => []AccountLimit
  BY LimitInitially, LimitPreserved, TypeCorrect, StagesAlwaysAgree, PTL DEF Spec

-----------------------------------------------------------------------------
(* Rows.                                                                   *)

LEMMA StagesImplyRowFollowsRecord == TypeOK /\ StagesAgree => RowFollowsRecord
  <1> SUFFICES ASSUME TypeOK, StagesAgree, NEW j \in Jobs, memory[j] # "none"
               PROVE  /\ Rank(db[j]) <= Rank(memory[j])
                      /\ db[j] \in Outcomes => db[j] = memory[j]
    BY DEF RowFollowsRecord
  <1> QED BY DEF StagesAgree, Rank, TypeOK, Statuses, ActiveStatuses, Outcomes

(* A row is never ahead of its record and never disagrees on the outcome.  *)
THEOREM RowFollowsRecordHolds == Spec => []RowFollowsRecord
  BY StagesImplyRowFollowsRecord, TypeCorrect, StagesAlwaysAgree, PTL

LEMMA StagesImplyCarried == TypeOK /\ StagesAgree => ActiveIsCarried
  <1> SUFFICES ASSUME TypeOK, StagesAgree, NEW j \in Jobs, memory[j] \in ActiveStatuses
               PROVE  Cardinality(Carriers(j)) = 1
    BY DEF ActiveIsCarried
  <1>1. Carriers(j) = {"handler"} \/ Carriers(j) = {"pool"} \/ Carriers(j) = {"thread"}
    BY DEF StagesAgree, Carriers, ActiveStatuses, Outcomes
  <1> QED BY <1>1, FS_Singleton

(* No slot is ever held by a job that nobody will move on.                 *)
THEOREM ActiveIsCarriedHolds == Spec => []ActiveIsCarried
  BY StagesImplyCarried, TypeCorrect, StagesAlwaysAgree, PTL

\* What a step may do to one row.
RowStep(j) == Rank(db[j]) <= Rank(db'[j]) /\ (db[j] \in Outcomes => db'[j] = db[j])

LEMMA RowStays == ASSUME TypeOK, NEW j \in Jobs, db'[j] = db[j] PROVE RowStep(j)
  BY DEF RowStep, TypeOK, Statuses, ActiveStatuses, Outcomes, Rank

LEMMA RowSteps == TypeOK /\ StagesAgree /\ [Next]_vars => \A j \in Jobs : RowStep(j)
  <1> SUFFICES ASSUME TypeOK, StagesAgree, [Next]_vars, NEW k \in Jobs PROVE RowStep(k)
    OBVIOUS
  <1> USE DEF TypeOK, Statuses, ActiveStatuses, Outcomes
  <1>1. ASSUME NEW j \in Jobs, PersistQueued(j) PROVE RowStep(k)
    BY <1>1, RowStays DEF PersistQueued, Persist, Goto, StagesAgree, RowStep, Rank
  <1>2. ASSUME NEW j \in Jobs, PersistRunning(j) PROVE RowStep(k)
    BY <1>2, RowStays DEF PersistRunning, Persist, ThreadGoto, StagesAgree, RowStep, Rank
  <1>3. ASSUME NEW j \in Jobs, PersistOutcome(j) PROVE RowStep(k)
    BY <1>3, RowStays DEF PersistOutcome, Persist, ThreadGoto, StagesAgree, RowStep, Rank
  <1>4. CASE UNCHANGED db
    BY <1>4, RowStays
  <1> QED
    BY <1>1, <1>2, <1>3, <1>4
    DEF Next, HandlerStep, ThreadStep, vars, CountInMemory, CountPersisted, CountAborts, Insert,
        Refuse, Enqueue, StartRun, RecordOutcome, ReadFails, Restart

(* The unconditional upsert never moves a row backwards.                   *)
THEOREM RowNeverRegressesHolds == Spec => RowNeverRegresses
  <1>1. TypeOK /\ StagesAgree /\ [Next]_vars =>
          [\A j \in Jobs : Rank(db[j]) <= Rank(db'[j])
                           /\ (db[j] \in Outcomes => db'[j] = db[j])]_vars
    BY RowSteps DEF RowStep
  <1> QED BY <1>1, TypeCorrect, StagesAlwaysAgree, PTL DEF Spec, RowNeverRegresses

\* What a step may do to the status a client is shown.
PollStep(j) ==
  /\ Rank(PolledStatus(j)) <= Rank(PolledStatus(j)')
  /\ PolledStatus(j) \in Outcomes => PolledStatus(j)' = PolledStatus(j)

LEMMA PollStays ==
  ASSUME TypeOK, NEW j \in Jobs, PolledStatus(j)' = PolledStatus(j)
  PROVE  PollStep(j)
  <1>1. Rank(PolledStatus(j)) \in Nat
    BY DEF TypeOK, PolledStatus, Statuses, ActiveStatuses, Outcomes, Rank
  <1> QED BY <1>1 DEF PollStep

LEMMA PollSteps ==
  ASSUME TypeOK, StagesAgree, [Next]_vars, crashes' = crashes, NEW k \in Jobs
  PROVE  PollStep(k)
  <1> USE DEF TypeOK, Statuses, ActiveStatuses, Outcomes
  <1>1. ASSUME NEW j \in Jobs, PersistQueued(j) \/ PersistRunning(j) \/ PersistOutcome(j)
        PROVE  PollStep(k)
    <2>1. memory[j] # "none"
      BY <1>1 DEF PersistQueued, PersistRunning, PersistOutcome, Goto, ThreadGoto, StagesAgree
    <2>2. \A i \in Jobs : i # j => db'[i] = db[i]
      BY <1>1 DEF PersistQueued, PersistRunning, PersistOutcome, Persist
    <2>3. UNCHANGED memory
      BY <1>1 DEF PersistQueued, PersistRunning, PersistOutcome
    <2>4. PolledStatus(k)' = PolledStatus(k)
      BY <2>1, <2>2, <2>3 DEF PolledStatus
    <2> QED BY <2>4, PollStays
  <1>2. ASSUME NEW j \in Jobs, Insert(j) PROVE PollStep(k)
    <2>1. memory[j] = "none" /\ db[j] = "none"
      BY <1>2 DEF Insert, Goto, StagesAgree
    <2>2. CASE k = j
      BY <1>2, <2>1, <2>2 DEF Insert, PollStep, PolledStatus, Rank
    <2>3. CASE k # j
      BY <1>2, <2>3, PollStays DEF Insert, PolledStatus
    <2> QED BY <2>2, <2>3
  <1>3. ASSUME NEW j \in Jobs, StartRun(j) PROVE PollStep(k)
    <2>1. memory[j] = "queued"
      BY <1>3, TailBacklog DEF StartRun, StagesAgree
    <2>2. CASE k = j
      BY <1>3, <2>1, <2>2 DEF StartRun, PollStep, PolledStatus, Rank
    <2>3. CASE k # j
      BY <1>3, <2>3, PollStays DEF StartRun, PolledStatus
    <2> QED BY <2>2, <2>3
  <1>4. ASSUME NEW j \in Jobs, RecordOutcome(j) PROVE PollStep(k)
    <2>1. memory[j] = "running"
      BY <1>4 DEF RecordOutcome, ThreadGoto, StagesAgree
    <2>2. CASE k = j
      BY <1>4, <2>1, <2>2 DEF RecordOutcome, PollStep, PolledStatus, Rank
    <2>3. CASE k # j
      BY <1>4, <2>3, PollStays DEF RecordOutcome, PolledStatus
    <2> QED BY <2>2, <2>3
  <1>5. ~Restart
    BY DEF Restart
  <1>6. CASE UNCHANGED <<memory, db>>
    BY <1>6, PollStays DEF PolledStatus
  <1> QED
    BY <1>1, <1>2, <1>3, <1>4, <1>5, <1>6
    DEF Next, HandlerStep, ThreadStep, vars, CountInMemory, CountPersisted, CountAborts,
        Refuse, Enqueue, ReadFails

(* A client that polls never sees a job go back while the process lives.   *)
THEOREM PollNeverRegressesHolds == Spec => PollNeverRegresses
  <1>1. TypeOK /\ StagesAgree /\ [Next]_vars =>
          [crashes' = crashes =>
             \A j \in Jobs : Rank(PolledStatus(j)) <= Rank(PolledStatus(j)')
                             /\ (PolledStatus(j) \in Outcomes => PolledStatus(j)' = PolledStatus(j))]_vars
    BY PollSteps DEF PollStep
  <1> QED BY <1>1, TypeCorrect, StagesAlwaysAgree, PTL DEF Spec, PollNeverRegresses

-----------------------------------------------------------------------------
(* Refinement.                                                             *)

LEMMA LifecycleInitially == Init => Lifecycle!Init
  BY DEF Init, Lifecycle!Init, LifecycleStatus

\* A step that keeps memory, and every answered request answered, stutters.
LEMMA LifecycleStutters ==
  ASSUME UNCHANGED memory,
         \A j \in Jobs : memory[j] = "none" => (handler'[j] = "answered" <=> handler[j] = "answered")
  PROVE  UNCHANGED LifecycleStatus
  BY DEF LifecycleStatus

LEMMA LifecycleSteps ==
  TypeOK /\ StagesAgree /\ [Next]_vars => [Lifecycle!Next]_LifecycleStatus
  <1> SUFFICES ASSUME TypeOK, StagesAgree, [Next]_vars
               PROVE  Lifecycle!Next \/ UNCHANGED LifecycleStatus
    OBVIOUS
  <1> USE DEF TypeOK, Statuses, ActiveStatuses, Outcomes
  <1>1. ASSUME NEW j \in Jobs, NEW from, NEW to, Goto(j, from, to), UNCHANGED memory,
               from # "answered", to # "answered"
        PROVE  UNCHANGED LifecycleStatus
    BY <1>1, LifecycleStutters DEF Goto
  <1>2. ASSUME NEW j \in Jobs, CountPersisted(j) PROVE UNCHANGED LifecycleStatus
    <2>1. \E to \in {"idle", "admitting"} : Goto(j, "counted", to)
      BY <1>2 DEF CountPersisted, Decide
    <2> QED BY <1>1, <1>2, <2>1 DEF CountPersisted
  <1>3. ASSUME NEW j \in Jobs,
               CountInMemory(j) \/ CountAborts(j) \/ Refuse(j) \/ PersistQueued(j)
        PROVE  UNCHANGED LifecycleStatus
    BY <1>1, <1>3 DEF CountInMemory, CountAborts, Refuse, PersistQueued
  <1>4. ASSUME NEW j \in Jobs, Insert(j) PROVE Lifecycle!Accept(j)
    <2>1. LifecycleStatus[j] = "none"
      BY <1>4 DEF Insert, Goto, StagesAgree, LifecycleStatus
    <2>2. Lifecycle!ActiveJobs(Owner[j]) = ActiveIn(memory, Owner[j])
      <3>1. \A k \in Jobs : LifecycleStatus[k] \in ActiveStatuses <=> memory[k] \in ActiveStatuses
        BY DEF LifecycleStatus
      <3> QED BY <3>1 DEF Lifecycle!ActiveJobs, Lifecycle!ActiveStatuses, ActiveIn
    <2>3. LifecycleStatus' = [LifecycleStatus EXCEPT ![j] = "queued"]
      BY <1>4 DEF Insert, Goto, StagesAgree, LifecycleStatus
    <2>4. Lifecycle!Cardinality(ActiveIn(memory, Owner[j])) = Cardinality(ActiveIn(memory, Owner[j]))
      BY DEF Cardinality, Lifecycle!Cardinality
    <2> QED BY <1>4, <2>1, <2>2, <2>3, <2>4 DEF Insert, InMemoryActive, Lifecycle!Accept
  <1>5. ASSUME NEW j \in Jobs, Enqueue(j) PROVE UNCHANGED LifecycleStatus
    <2>1. memory[j] = "queued"
      BY <1>5 DEF Enqueue, Goto, StagesAgree
    <2> QED BY <1>5, <2>1, LifecycleStutters DEF Enqueue, Goto
  <1>6. ASSUME NEW j \in Jobs, StartRun(j) PROVE Lifecycle!Begin(j)
    <2>1. memory[j] = "queued"
      BY <1>6, TailBacklog DEF StartRun, StagesAgree
    <2>2. LifecycleStatus[j] = "queued"
      BY <2>1 DEF LifecycleStatus
    <2>3. LifecycleStatus' = [LifecycleStatus EXCEPT ![j] = "running"]
      BY <1>6, <2>1 DEF StartRun, LifecycleStatus
    <2> QED BY <2>2, <2>3 DEF Lifecycle!Begin
  <1>7. ASSUME NEW j \in Jobs, RecordOutcome(j) PROVE Lifecycle!Settle(j)
    <2>1. LifecycleStatus[j] = "running"
      BY <1>7 DEF RecordOutcome, ThreadGoto, StagesAgree, LifecycleStatus
    <2>2. PICK outcome \in Outcomes : memory' = [memory EXCEPT ![j] = outcome]
      BY <1>7 DEF RecordOutcome
    <2>3. LifecycleStatus' = [LifecycleStatus EXCEPT ![j] = outcome]
      BY <1>7, <2>2 DEF RecordOutcome, LifecycleStatus
    <2> QED BY <2>1, <2>2, <2>3 DEF Lifecycle!Settle, Lifecycle!Outcomes
  <1>8. ASSUME NEW j \in Jobs, PersistRunning(j) \/ PersistOutcome(j)
        PROVE  UNCHANGED LifecycleStatus
    BY <1>8, LifecycleStutters DEF PersistRunning, PersistOutcome
  <1>9. CASE Restart
    <2>1. \A j \in Jobs : LifecycleStatus'[j] =
                          IF LifecycleStatus[j] = "none" THEN "none" ELSE "lost"
      BY <1>9 DEF Restart, StagesAgree, LifecycleStatus
    <2>2. Lifecycle!Restart
      BY <2>1 DEF Lifecycle!Restart, LifecycleStatus
    <2> QED BY <2>2 DEF Lifecycle!Next
  <1>10. CASE UNCHANGED vars \/ ReadFails
    BY <1>10, LifecycleStutters DEF vars, ReadFails
  <1> QED
    BY <1>2, <1>3, <1>4, <1>5, <1>6, <1>7, <1>8, <1>9, <1>10
    DEF Next, HandlerStep, ThreadStep, Lifecycle!Next

(* The queue, with its handlers, threads, table, faults and restarts,      *)
(* implements the life of a job that JobLifecycle promises.                *)
THEOREM QueueImplementsLifecycle == Spec => ImplementsLifecycle
  BY LifecycleInitially, LifecycleSteps, TypeCorrect, StagesAlwaysAgree, PTL
  DEF Spec, Lifecycle!Spec, ImplementsLifecycle

-----------------------------------------------------------------------------
(* The jobs among those who use them.                                      *)

\* Where a step of the whole system leaves the jobs: a step of VtonJobs or none.
LEMMA RequestStepsAreJobSteps ==
  ASSUME NEW j \in Jobs, RequestStep(j) PROVE [Next]_vars
  BY DEF RequestStep, TakeUp, Admit, AbortRequest, Carry, Answer, Next, HandlerStep

LEMMA ClientStepsAreJobSteps ==
  ASSUME NEW c \in Clients, ClientStep(c) PROVE [Next]_vars
  BY DEF ClientStep, Submit, Answered, AttemptErrs, AttemptTimesOut, AttemptFails, RunnerPolls,
         BenchmarkPolls, PollErrs, PollTimesOut, requestVars, Next

LEMMA StudioStepsAreJobSteps ==
  ASSUME StudioStep PROVE [Next]_vars
  BY DEF StudioStep, AskFeed, FeedArrives, FeedFails, Generate, GenerateAnswered, Adopt,
         PollSettles, PollGivesUp, PollFails, requestVars, Next

LEMMA SystemSteps == [SystemNext]_systemVars => [Next]_vars
  <1> SUFFICES ASSUME [SystemNext]_systemVars PROVE [Next]_vars
    OBVIOUS
  <1>1. CASE RequestsMove
    BY <1>1, RequestStepsAreJobSteps DEF RequestsMove
  <1>2. CASE ClientsMove
    BY <1>2, ClientStepsAreJobSteps DEF ClientsMove
  <1>3. CASE StudioMoves
    BY <1>3, StudioStepsAreJobSteps DEF StudioMoves
  <1>4. CASE RestartBreaks
    BY <1>4 DEF RestartBreaks, BreakRequests, Next
  <1>5. CASE UNCHANGED systemVars
    BY <1>5 DEF systemVars, requestVars
  <1> QED BY <1>1, <1>2, <1>3, <1>4, <1>5 DEF SystemNext

(* Requests, clients, studio and restarts together only do what VtonJobs   *)
(* allows: every theorem above holds of the whole system.                  *)
THEOREM SystemImplementsJobs == SystemSpec => Spec
  <1>1. SystemInit => Init
    BY DEF SystemInit
  <1> QED BY <1>1, SystemSteps, PTL DEF SystemSpec, Spec

-----------------------------------------------------------------------------
(* Verdicts of the clients.                                                *)

\* What the answer to a request says of its handler, and of what disturbed it.
ReplyFits(j) ==
  /\ reply[j] \in {"unsent", "rejected"} => handler[j] = "idle"
  /\ reply[j] = "accepted" => handler[j] = "answered"
  /\ reply[j] = "error" => ~Undisturbed /\ handler[j] \in {"idle", "answered"}
  /\ handler[j] = "answered" /\ crashes = 0 => memory[j] # "none"

RepliesFit ==
  /\ reply \in [Jobs -> Replies]
  /\ \A j \in Jobs : ReplyFits(j)

\* What the phase of a call says of the job of its last attempt; an attempt
\* is given up only after a disturbance or a deadline.
CallFits(c) ==
  /\ call[c].attempt <= Len(Attempts[c])
  /\ In(c, "polling") => reply[Job(c)] = "accepted"
  /\ Undisturbed /\ ~call[c].late => call[c].attempt = 1
  /\ In(c, "passed") /\ crashes = 0 => memory[Job(c)] = "completed"
  /\ In(c, "failed") /\ Undisturbed /\ ~call[c].late =>
       reply[Job(c)] = "rejected" \/ memory[Job(c)] = "failed"

CallRecords == [phase : Phases, attempt : Nat \ {0}, late : BOOLEAN]

CallTypeOK == call \in [Clients -> CallRecords]

CallsFit == CallTypeOK /\ \A c \in Clients : CallFits(c)

JobsInv == TypeOK /\ StagesAgree

\* Disturbances are not forgotten.
LEMMA DisturbancesStay ==
  ASSUME JobsInv, [Next]_vars
  PROVE  /\ faults \in Nat /\ faults' \in Nat /\ crashes \in Nat /\ crashes' \in Nat
         /\ faults <= faults' /\ crashes <= crashes'
  <1>1. faults \in Nat /\ crashes \in Nat
    BY JobsAssumption DEF JobsInv, TypeOK, JobsAssumption
  <1>2. CASE Restart
    BY <1>1, <1>2 DEF Restart
  <1>3. CASE UNCHANGED crashes /\ (UNCHANGED faults \/ Fault)
    BY <1>1, <1>3 DEF Fault
  <1>4. ASSUME NEW j \in Jobs, HandlerStep(j)
        PROVE  UNCHANGED crashes /\ (UNCHANGED faults \/ Fault)
    BY <1>4 DEF HandlerStep, CountInMemory, CountPersisted, CountAborts, Insert, Refuse,
                PersistQueued, Persist, Enqueue
  <1>5. ASSUME NEW j \in Jobs, ThreadStep(j)
        PROVE  UNCHANGED crashes /\ (UNCHANGED faults \/ Fault)
    BY <1>5 DEF ThreadStep, StartRun, PersistRunning, Persist, RecordOutcome, PersistOutcome
  <1> QED BY <1>2, <1>3, <1>4, <1>5 DEF Next, ReadFails, vars

\* A record with an outcome keeps it, and no record goes, until a restart.
LEMMA OutcomesStay ==
  ASSUME JobsInv, [Next]_vars, crashes' = crashes, NEW k \in Jobs, memory[k] # "none"
  PROVE  memory'[k] # "none" /\ (memory[k] \in Outcomes => memory'[k] = memory[k])
  <1> USE DEF JobsInv, TypeOK, Statuses, ActiveStatuses, Outcomes
  <1>1. ASSUME NEW j \in Jobs, Insert(j) PROVE memory[j] = "none" /\ memory' = [memory EXCEPT ![j] = "queued"]
    BY <1>1 DEF Insert, Goto, StagesAgree
  <1>2. ASSUME NEW j \in Jobs, StartRun(j)
        PROVE  memory[j] = "queued" /\ memory' = [memory EXCEPT ![j] = "running"]
    BY <1>2, TailBacklog DEF StartRun, StagesAgree
  <1>3. ASSUME NEW j \in Jobs, RecordOutcome(j)
        PROVE  memory[j] = "running" /\ \E outcome \in Outcomes : memory' = [memory EXCEPT ![j] = outcome]
    BY <1>3 DEF RecordOutcome, ThreadGoto, StagesAgree
  <1>4. ~Restart
    BY DEF Restart
  <1>5. CASE UNCHANGED memory
    BY <1>5
  <1>6. ASSUME NEW j \in Jobs, Insert(j) \/ StartRun(j) \/ RecordOutcome(j)
        PROVE  memory'[k] # "none" /\ (memory[k] \in Outcomes => memory'[k] = memory[k])
    BY <1>1, <1>2, <1>3, <1>6
  <1> QED
    BY <1>4, <1>5, <1>6
    DEF Next, HandlerStep, ThreadStep, vars, CountInMemory, CountPersisted, CountAborts,
        Refuse, PersistQueued, Enqueue, PersistRunning, PersistOutcome, ReadFails

\* Who is answered has the answer for good.
RepliesStay == \A j \in Jobs : reply[j] \in {"accepted", "rejected"} => reply'[j] = reply[j]

LEMMA RepliesByRequest ==
  ASSUME JobsInv, RepliesFit, NEW j \in Jobs, RequestStep(j)
  PROVE  RepliesFit' /\ RepliesStay
  <1>0. [Next]_vars
    BY RequestStepsAreJobSteps
  <1>a. /\ Undisturbed' => Undisturbed
        /\ crashes' = 0 => crashes = 0 /\ crashes' = crashes
    BY <1>0, DisturbancesStay DEF Undisturbed
  <1>b. crashes' = crashes => \A k \in Jobs : memory[k] # "none" => memory'[k] # "none"
    BY <1>0, OutcomesStay
  <1> USE DEF Replies, RepliesFit, ReplyFits, RepliesStay, Reply
  \* What is left to show once the answer and the place of the request are known.
  <1>c. ASSUME NEW answer \in Replies, NEW step \in HandlerSteps,
               reply' = [reply EXCEPT ![j] = answer], handler' = [handler EXCEPT ![j] = step],
               reply[j] \in {"accepted", "rejected"} => answer = reply[j],
               answer \in {"unsent", "rejected"} => step = "idle",
               answer = "accepted" => step = "answered",
               answer = "error" => ~Undisturbed' /\ step \in {"idle", "answered"},
               step = "answered" /\ crashes' = 0 => memory'[j] # "none"
        PROVE  RepliesFit' /\ RepliesStay
    BY <1>a, <1>b, <1>c DEF JobsInv, TypeOK
  <1> USE DEF JobsInv, TypeOK, HandlerSteps
  <1>1. CASE TakeUp(j)
    <2>1. reply' = [reply EXCEPT ![j] = reply[j]] /\ handler' = [handler EXCEPT ![j] = "counted"]
      BY <1>1 DEF TakeUp, CountInMemory, Goto
    <2> QED BY <1>1, <1>c, <2>1 DEF TakeUp
  <1>2. CASE Admit(j)
    <2>1. reply[j] \in {"open", "sent"}
      BY <1>2 DEF Admit, CountPersisted, Decide, Insert, Refuse, Goto
    <2>2. PICK step \in {"idle", "admitting", "inserted"} : handler' = [handler EXCEPT ![j] = step]
      BY <1>2 DEF Admit, CountPersisted, Decide, Insert, Refuse, Goto
    <2>3. CASE step = "idle"
      <3>1. PICK answer \in {"open", "rejected"} : reply' = [reply EXCEPT ![j] = answer]
        BY <1>2, <2>1, <2>2, <2>3 DEF Admit
      <3> QED BY <1>c, <2>1, <2>2, <2>3, <3>1
    <2>4. CASE step # "idle"
      <3>1. reply' = [reply EXCEPT ![j] = reply[j]]
        BY <1>2, <2>2, <2>4 DEF Admit
      <3> QED BY <1>c, <2>1, <2>2, <2>4, <3>1
    <2> QED BY <2>3, <2>4
  <1>3. CASE AbortRequest(j)
    <2>1. reply[j] \in {"open", "sent"} /\ handler' = [handler EXCEPT ![j] = "idle"]
      BY <1>3 DEF AbortRequest, CountAborts, Goto
    <2>2. ~Undisturbed'
      BY <1>0, <1>3, DisturbancesStay DEF AbortRequest, CountAborts, Fault, Undisturbed
    <2>3. PICK answer \in {"open", "error"} : reply' = [reply EXCEPT ![j] = answer]
      BY <1>3, <2>1 DEF AbortRequest
    <2> QED BY <1>c, <2>1, <2>2, <2>3
  <1>4. CASE Carry(j) /\ (PersistQueued(j) \/ Enqueue(j))
    <2>1. reply[j] \in {"open", "sent"} /\ reply' = [reply EXCEPT ![j] = reply[j]]
      BY <1>4 DEF Carry, PersistQueued, Enqueue, Goto
    <2>2. memory[j] = "queued" /\ UNCHANGED memory
      BY <1>4 DEF PersistQueued, Enqueue, Goto, StagesAgree
    <2>3. PICK step \in {"notified", "answered"} : handler' = [handler EXCEPT ![j] = step]
      BY <1>4 DEF PersistQueued, Enqueue, Goto
    <2> QED BY <1>c, <2>1, <2>2, <2>3
  <1>5. CASE Carry(j) /\ ThreadStep(j)
    <2>1. UNCHANGED <<handler, reply>>
      BY <1>5 DEF Carry, ThreadStep, StartRun, PersistRunning, RecordOutcome, PersistOutcome
    <2> QED BY <1>a, <1>b, <2>1
  <1>6. CASE Answer(j)
    <2>1. UNCHANGED <<handler, memory>> /\ handler[j] = "answered" /\ reply[j] = "sent"
      BY <1>6 DEF Answer, ReadFails, vars
    <2>2. CASE reply' = [reply EXCEPT ![j] = "accepted"]
      BY <1>a, <1>b, <2>1, <2>2
    <2>3. CASE reply' = [reply EXCEPT ![j] = "error"] /\ ReadFails
      <3>1. ~Undisturbed'
        BY <1>0, <2>3, DisturbancesStay DEF ReadFails, Fault, Undisturbed
      <3> QED BY <1>a, <1>b, <2>1, <2>3, <3>1
    <2> QED BY <1>6, <2>1, <2>2, <2>3 DEF Answer
  <1> QED BY <1>1, <1>2, <1>3, <1>4, <1>5, <1>6 DEF RequestStep, Carry

LEMMA RepliesBySend ==
  ASSUME JobsInv, RepliesFit, NEW j \in Jobs, Send(j), UNCHANGED vars
  PROVE  RepliesFit' /\ RepliesStay
  BY DEF RepliesFit, ReplyFits, RepliesStay, Replies, Send, Reply, vars, Undisturbed

LEMMA RepliesByRead ==
  ASSUME JobsInv, RepliesFit, UNCHANGED reply, UNCHANGED vars \/ ReadFails
  PROVE  RepliesFit' /\ RepliesStay
  <1>1. UNCHANGED <<memory, handler, crashes>> /\ (Undisturbed' => Undisturbed)
    BY DisturbancesStay DEF ReadFails, vars, Undisturbed, Next
  <1> QED BY <1>1 DEF RepliesFit, ReplyFits, RepliesStay

LEMMA RepliesByRestart ==
  ASSUME JobsInv, RepliesFit, BreakRequests
  PROVE  RepliesFit' /\ RepliesStay
  <1>1. crashes' # 0 /\ ~Undisturbed'
    BY DisturbancesStay DEF BreakRequests, Restart, Next, Undisturbed
  <1>2. \A j \in Jobs : handler'[j] = IF handler[j] \in {"inserted", "notified", "answered"}
                                      THEN "answered" ELSE "idle"
    BY DEF BreakRequests, Restart
  <1>3. reply' = [j \in Jobs |-> IF reply[j] = "sent" THEN "error" ELSE reply[j]]
    BY DEF BreakRequests
  <1> QED BY <1>1, <1>2, <1>3 DEF RepliesFit, ReplyFits, RepliesStay, Replies

\* The attempts of a client are jobs.
LEMMA AttemptsAreJobs ==
  ASSUME NEW c \in Clients, NEW i \in Nat \ {0}, i <= Len(Attempts[c])
  PROVE  Attempts[c][i] \in Jobs
  <1>1. Attempts[c] \in Seq(Jobs)
    BY ClientsAssumption DEF ClientsAssumption
  <1>2. i \in 1..Len(Attempts[c])
    BY <1>1, LenProperties
  <1> QED BY <1>1, <1>2, ElementOfSeq

\* What clients and studio do to requests: they send one, or read.
LEMMA ClientReplies ==
  ASSUME CallsFit, NEW c \in Clients, ClientStep(c)
  PROVE  \/ \E j \in Jobs : Send(j) /\ UNCHANGED vars
         \/ UNCHANGED reply /\ (UNCHANGED vars \/ ReadFails)
  <1> USE DEF CallsFit, CallTypeOK, CallRecords, CallFits
  <1>0. Job(c) \in Jobs
    BY AttemptsAreJobs DEF Job
  <1>1. CASE Submit(c)
    BY <1>0, <1>1 DEF Submit
  <1>2. ASSUME NEW late, AttemptFails(c, late)
        PROVE  (\E j \in Jobs : Send(j) /\ UNCHANGED vars) \/ UNCHANGED <<vars, reply>>
    <2>1. call[c].attempt + 1 \in Nat \ {0}
      OBVIOUS
    <2>2. CASE call[c].attempt + 1 <= Len(Attempts[c])
      <3>1. Attempts[c][call[c].attempt + 1] \in Jobs
        BY <2>1, <2>2, AttemptsAreJobs
      <3> QED BY <1>2, <2>2, <3>1 DEF AttemptFails
    <2>3. CASE ~(call[c].attempt + 1 <= Len(Attempts[c]))
      BY <1>2, <2>3 DEF AttemptFails
    <2> QED BY <2>2, <2>3
  <1> QED
    BY <1>1, <1>2 DEF ClientStep, Answered, AttemptErrs, AttemptTimesOut, RunnerPolls,
       BenchmarkPolls, PollErrs, PollTimesOut, requestVars

LEMMA StudioReplies ==
  ASSUME StudioStep
  PROVE  \/ \E j \in Jobs : Send(j) /\ UNCHANGED vars
         \/ UNCHANGED reply /\ (UNCHANGED vars \/ ReadFails)
  BY StudioAssumption
  DEF StudioAssumption, StudioStep, AskFeed, FeedArrives, FeedFails, Generate, GenerateAnswered,
      Adopt, PollSettles, PollGivesUp, PollFails, requestVars

LEMMA RepliesPreserved ==
  ASSUME JobsInv, RepliesFit, CallsFit, [SystemNext]_systemVars
  PROVE  RepliesFit' /\ RepliesStay
  <1>1. CASE RequestsMove
    BY <1>1, RepliesByRequest DEF RequestsMove
  <1>2. CASE ClientsMove
    BY <1>2, ClientReplies, RepliesBySend, RepliesByRead DEF ClientsMove
  <1>3. CASE StudioMoves
    BY <1>3, StudioReplies, RepliesBySend, RepliesByRead DEF StudioMoves
  <1>4. CASE RestartBreaks
    BY <1>4, RepliesByRestart DEF RestartBreaks
  <1>5. CASE UNCHANGED systemVars
    BY <1>5, RepliesByRead DEF systemVars, requestVars
  <1> QED BY <1>1, <1>2, <1>3, <1>4, <1>5 DEF SystemNext

\* A call that makes no step still fits after the steps of others.
LEMMA CallStays ==
  ASSUME JobsInv, RepliesFit, CallsFit, [Next]_vars, RepliesStay,
         NEW c \in Clients, call'[c] = call[c]
  PROVE  CallFits(c)'
  <1>1. Job(c) \in Jobs /\ Job(c)' = Job(c)
    BY AttemptsAreJobs DEF CallsFit, CallTypeOK, CallRecords, CallFits, Job
  <1>2. /\ Undisturbed' => Undisturbed /\ crashes' = crashes
        /\ crashes' = 0 => crashes = 0 /\ crashes' = crashes
    BY DisturbancesStay DEF Undisturbed
  <1>3. crashes' = crashes /\ memory[Job(c)] \in Outcomes => memory'[Job(c)] = memory[Job(c)]
    BY <1>1, OutcomesStay DEF Outcomes
  <1>4. reply[Job(c)] \in {"accepted", "rejected"} => reply'[Job(c)] = reply[Job(c)]
    BY <1>1 DEF RepliesStay
  <1>5. CallFits(c)
    BY DEF CallsFit
  <1> QED BY <1>1, <1>2, <1>3, <1>4, <1>5 DEF CallFits, In, Outcomes

\* A call that makes a step fits afterwards, and only this call changes.
LEMMA CallMoves ==
  ASSUME JobsInv, RepliesFit, CallsFit, NEW c \in Clients, ClientStep(c)
  PROVE  CallTypeOK' /\ CallFits(c)' /\ \A d \in Clients : d # c => call'[d] = call[d]
  <1> DEFINE j == Job(c)
             n == call[c].attempt
             l == call[c].late
  <1>1. /\ call \in [Clients -> CallRecords]
        /\ call[c] \in CallRecords
        /\ n \in Nat \ {0} /\ l \in BOOLEAN /\ n <= Len(Attempts[c]) /\ j = Attempts[c][n]
        /\ j \in Jobs
        /\ Len(Attempts[c]) \in Nat
    BY AttemptsAreJobs, ClientsAssumption, LenProperties
    DEF CallsFit, CallTypeOK, CallRecords, CallFits, Job, ClientsAssumption
  <1>2. /\ Undisturbed /\ ~l => n = 1
        /\ In(c, "polling") => reply[j] = "accepted"
    BY DEF CallsFit, CallFits
  <1>3. ReplyFits(j)
    BY <1>1 DEF RepliesFit
  <1> HIDE DEF j
  \* What is left to show once it is known how the call changes.
  <1>c. ASSUME call' \in [Clients -> CallRecords], \A d \in Clients : d # c => call'[d] = call[d],
               call'[c].attempt <= Len(Attempts[c]),
               Undisturbed' /\ ~call'[c].late => call'[c].attempt = 1,
               call'[c].phase = "polling" => call'[c].attempt = n /\ reply'[j] = "accepted",
               call'[c].phase = "passed" /\ crashes' = 0 =>
                 call'[c].attempt = n /\ memory'[j] = "completed",
               call'[c].phase = "failed" /\ Undisturbed' /\ ~call'[c].late =>
                 call'[c].attempt = n /\ (reply'[j] = "rejected" \/ memory'[j] = "failed")
        PROVE  CallTypeOK' /\ CallFits(c)' /\ \A d \in Clients : d # c => call'[d] = call[d]
    <2>1. call'[c].attempt = n => Job(c)' = j
      BY <1>1 DEF Job
    <2>2. CallFits(c)'
      BY <1>c, <2>1 DEF CallFits, In
    <2> QED BY <1>c, <2>2 DEF CallTypeOK
  <1>e. ASSUME NEW phase \in Phases, Enter(c, phase)
        PROVE  /\ call' \in [Clients -> CallRecords]
               /\ \A d \in Clients : d # c => call'[d] = call[d]
               /\ call'[c].phase = phase /\ call'[c].attempt = n /\ (call'[c].late <=> l)
    BY <1>1, <1>e DEF Enter, CallRecords
  <1>p. crashes = 0 /\ In(c, "polling") => PolledStatus(j) = memory[j] /\ memory[j] # "none"
    BY <1>2, <1>3 DEF ReplyFits, PolledStatus
  <1> USE DEF Phases
  <1>4. CASE Submit(c)
    BY <1>1, <1>2, <1>4, <1>c, <1>e DEF Submit, vars, Undisturbed
  <1>5. CASE Answered(c)
    <2>1. UNCHANGED requestVars /\ UNCHANGED Undisturbed /\ UNCHANGED reply
      BY <1>5 DEF Answered, requestVars, vars, Undisturbed
    <2>2. CASE reply[j] = "accepted" /\ Enter(c, "polling")
      BY <1>1, <1>2, <1>c, <1>e, <2>1, <2>2
    <2>3. CASE reply[j] = "rejected" /\ Enter(c, "failed")
      BY <1>1, <1>2, <1>c, <1>e, <2>1, <2>3
    <2> QED BY <1>5, <2>2, <2>3 DEF Answered, j
  <1>6. ASSUME NEW late \in BOOLEAN, AttemptFails(c, late), Undisturbed => late
        PROVE  CallTypeOK' /\ CallFits(c)' /\ \A d \in Clients : d # c => call'[d] = call[d]
    <2>1. UNCHANGED Undisturbed
      BY <1>6 DEF AttemptFails, vars, Undisturbed
    <2>2. CASE n + 1 <= Len(Attempts[c])
      <3>1. call' = [call EXCEPT ![c].attempt = n + 1, ![c].late = @ \/ late] /\ call[c].phase = "waiting"
        BY <1>6, <2>2 DEF AttemptFails, In
      <3>2. n + 1 \in Nat \ {0}
        BY <1>1
      <3>3. /\ call' \in [Clients -> CallRecords]
            /\ \A d \in Clients : d # c => call'[d] = call[d]
            /\ call'[c].phase = "waiting" /\ call'[c].attempt = n + 1 /\ (call'[c].late <=> l \/ late)
        BY <1>1, <3>1, <3>2 DEF CallRecords
      <3> QED BY <1>6, <1>c, <2>1, <2>2, <3>3
    <2>3. CASE ~(n + 1 <= Len(Attempts[c]))
      <3>1. call' = [call EXCEPT ![c].phase = "failed", ![c].late = @ \/ late]
        BY <1>6, <2>3 DEF AttemptFails
      <3>2. /\ call' \in [Clients -> CallRecords]
            /\ \A d \in Clients : d # c => call'[d] = call[d]
            /\ call'[c].phase = "failed" /\ call'[c].attempt = n /\ (call'[c].late <=> l \/ late)
        BY <1>1, <3>1 DEF CallRecords
      <3> QED BY <1>1, <1>6, <1>c, <2>1, <3>2
    <2> QED BY <2>2, <2>3
  <1>7. CASE AttemptErrs(c)
    <2>1. ~Undisturbed
      BY <1>3, <1>7 DEF AttemptErrs, ReplyFits, j
    <2> QED BY <1>6, <1>7, <2>1 DEF AttemptErrs
  <1>8. CASE AttemptTimesOut(c)
    BY <1>6, <1>8 DEF AttemptTimesOut
  <1>9. ASSUME UNCHANGED requestVars, In(c, "polling"),
               \/ PolledStatus(j) = "completed" /\ Enter(c, "passed")
               \/ PolledStatus(j) \in {"failed", "none"} /\ Enter(c, "failed")
        PROVE  CallTypeOK' /\ CallFits(c)' /\ \A d \in Clients : d # c => call'[d] = call[d]
    <2>1. UNCHANGED <<memory, reply, crashes>> /\ UNCHANGED Undisturbed
      BY <1>9 DEF requestVars, vars, Undisturbed
    <2>2. CASE PolledStatus(j) = "completed" /\ Enter(c, "passed")
      BY <1>1, <1>2, <1>9, <1>c, <1>e, <1>p, <2>1, <2>2
    <2>3. CASE PolledStatus(j) \in {"failed", "none"} /\ Enter(c, "failed")
      <3>1. Undisturbed => memory[j] = "failed"
        BY <1>9, <1>p, <2>3 DEF Undisturbed
      <3> QED BY <1>1, <1>2, <1>c, <1>e, <2>1, <2>3, <3>1
    <2> QED BY <1>9, <2>2, <2>3
  <1>10. CASE RunnerPolls(c)
    BY <1>9, <1>10 DEF RunnerPolls, j
  <1>11. CASE BenchmarkPolls(c)
    BY <1>9, <1>11 DEF BenchmarkPolls, j
  <1>12. CASE PollErrs(c)
    <2>1. ~Undisturbed' /\ UNCHANGED reply /\ In(c, "polling")
      BY <1>12, DisturbancesStay DEF PollErrs, ReadFails, Fault, Undisturbed, Next
    <2>2. CASE UNCHANGED call
      BY <1>1, <1>2, <1>c, <2>1, <2>2 DEF In
    <2>3. CASE Enter(c, "failed")
      BY <1>1, <1>c, <1>e, <2>1, <2>3
    <2> QED BY <1>12, <2>2, <2>3 DEF PollErrs
  <1>13. CASE PollTimesOut(c)
    <2>1. call' = [call EXCEPT ![c].phase = "failed", ![c].late = TRUE]
      BY <1>13 DEF PollTimesOut
    <2>2. /\ call' \in [Clients -> CallRecords]
          /\ \A d \in Clients : d # c => call'[d] = call[d]
          /\ call'[c].phase = "failed" /\ call'[c].attempt = n /\ call'[c].late
      BY <1>1, <2>1 DEF CallRecords
    <2> QED BY <1>1, <1>c, <2>2
  <1> QED BY <1>4, <1>5, <1>7, <1>8, <1>10, <1>11, <1>12, <1>13 DEF ClientStep

\* A restart may end the polls under way, and nothing else of a call.
LEMMA CallsBreak ==
  ASSUME JobsInv, RepliesFit, CallsFit, RepliesStay, BreakRequests, PollsBreak
  PROVE  CallsFit'
  <1>1. [Next]_vars
    BY DEF BreakRequests, Next
  <1>2. crashes' # 0 /\ ~Undisturbed'
    BY <1>1, DisturbancesStay DEF BreakRequests, Restart, Undisturbed
  <1>3. PICK broken \in SUBSET Clients :
          call' = [c \in Clients |->
                     IF c \in broken THEN [call[c] EXCEPT !.phase = "failed"] ELSE call[c]]
    BY DEF PollsBreak
  <1>4. call \in [Clients -> CallRecords]
    BY DEF CallsFit, CallTypeOK
  <1>5. ASSUME NEW c \in Clients
        PROVE  /\ call'[c] \in CallRecords
               /\ CallFits(c)'
    <2>1. CASE c \notin broken
      <3>1. call'[c] = call[c]
        BY <1>3, <2>1
      <3> QED BY <1>1, <1>4, <3>1, CallStays
    <2>2. CASE c \in broken
      <3>1. call'[c] = [call[c] EXCEPT !.phase = "failed"]
        BY <1>3, <2>2
      <3>2. call'[c].phase = "failed" /\ call'[c].attempt = call[c].attempt
        BY <1>4, <3>1 DEF CallRecords
      <3>3. call'[c] \in CallRecords
        BY <1>4, <3>1 DEF CallRecords, Phases
      <3> QED BY <1>2, <3>2, <3>3 DEF CallsFit, CallFits, In
    <2> QED BY <2>1, <2>2
  <1>6. CallTypeOK'
    BY <1>3, <1>5 DEF CallTypeOK
  <1> QED BY <1>5, <1>6 DEF CallsFit

LEMMA CallsPreserved ==
  ASSUME JobsInv, RepliesFit, CallsFit, [SystemNext]_systemVars
  PROVE  CallsFit'
  <1>1. RepliesStay /\ [Next]_vars
    BY RepliesPreserved, SystemSteps
  <1>2. CASE RestartBreaks
    BY <1>1, <1>2, CallsBreak DEF RestartBreaks
  <1>3. CASE ClientsMove
    <2>1. PICK c \in Clients : ClientStep(c)
      BY <1>3 DEF ClientsMove
    <2>2. CallTypeOK' /\ CallFits(c)' /\ \A d \in Clients : d # c => call'[d] = call[d]
      BY <2>1, CallMoves
    <2>3. ASSUME NEW d \in Clients PROVE CallFits(d)'
      BY <1>1, <2>2, CallStays
    <2> QED BY <2>2, <2>3 DEF CallsFit
  <1>4. CASE UNCHANGED call
    BY <1>1, <1>4, CallStays DEF CallsFit, CallTypeOK
  <1> QED BY <1>2, <1>3, <1>4 DEF SystemNext, RequestsMove, StudioMoves, systemVars

LEMMA AnswersInitially == SystemInit => RepliesFit /\ CallsFit
  <1> SUFFICES ASSUME SystemInit PROVE RepliesFit /\ CallsFit
    OBVIOUS
  <1>1. RepliesFit
    BY DEF SystemInit, Init, RepliesFit, ReplyFits, Replies
  <1>2. ASSUME NEW c \in Clients PROVE Len(Attempts[c]) \in Nat \ {0}
    BY ClientsAssumption, LenProperties, EmptySeq DEF ClientsAssumption
  <1>3. ASSUME NEW c \in Clients
        PROVE  call[c] \in CallRecords /\ CallFits(c)
    <2>1. call[c] \in [phase : {"absent", "idle"}, attempt : {1}, late : {FALSE}]
      BY DEF SystemInit, ClientInit
    <2>2. call[c].phase \in {"absent", "idle"} /\ call[c].attempt = 1
      BY <2>1
    <2>3. call[c] \in CallRecords
      <3>1. /\ {"absent", "idle"} \subseteq Phases
            /\ {1} \subseteq Nat \ {0}
            /\ {FALSE} \subseteq BOOLEAN
        BY DEF Phases
      <3> QED BY <2>1, <3>1, Zenon DEF CallRecords
    <2> QED BY <1>2, <2>2, <2>3 DEF CallFits, In
  <1>4. CallTypeOK
    BY <1>3 DEF SystemInit, ClientInit, CallTypeOK
  <1> QED BY <1>1, <1>3, <1>4 DEF CallsFit

(* Requests, answers and calls agree in every state of the whole system.   *)
THEOREM AnswersFitCalls == SystemSpec => [](RepliesFit /\ CallsFit)
  <1>1. JobsInv /\ RepliesFit /\ CallsFit /\ [SystemNext]_systemVars => (RepliesFit /\ CallsFit)'
    BY RepliesPreserved, CallsPreserved
  <1>2. SystemSpec => []JobsInv
    BY SystemImplementsJobs, TypeCorrect, StagesAlwaysAgree, PTL DEF JobsInv
  <1> QED BY <1>1, <1>2, AnswersInitially, PTL DEF SystemSpec

LEMMA AnswersImplyVerdicts == JobsInv /\ RepliesFit /\ CallsFit => VerdictsHold
  <1> SUFFICES ASSUME JobsInv, RepliesFit, CallsFit, NEW c \in Clients
               PROVE  /\ In(c, "passed") /\ crashes = 0 => memory[Job(c)] = "completed"
                      /\ Undisturbed /\ ~call[c].late =>
                           \A i \in 1..call[c].attempt :
                             In(c, "failed") \/ i < call[c].attempt =>
                               /\ memory[Attempts[c][i]] \in {"none", "failed"}
                               /\ handler[Attempts[c][i]] \in {"idle", "answered"}
    BY DEF VerdictsHold
  <1>1. CallFits(c) /\ Job(c) \in Jobs
    BY AttemptsAreJobs DEF CallsFit, CallTypeOK, CallRecords, CallFits, Job
  <1>2. ASSUME Undisturbed, ~call[c].late, NEW i \in 1..call[c].attempt,
               In(c, "failed") \/ i < call[c].attempt
        PROVE  /\ memory[Attempts[c][i]] \in {"none", "failed"}
               /\ handler[Attempts[c][i]] \in {"idle", "answered"}
    <2>1. call[c].attempt = 1 /\ i = 1 /\ In(c, "failed")
      BY <1>1, <1>2 DEF CallFits
    <2>2. Attempts[c][i] = Job(c)
      BY <2>1 DEF Job
    <2>3. CASE reply[Job(c)] = "rejected"
      BY <1>1, <2>2, <2>3 DEF RepliesFit, ReplyFits, JobsInv, StagesAgree, Outcomes
    <2>4. CASE memory[Job(c)] = "failed"
      BY <1>1, <2>2, <2>4 DEF JobsInv, StagesAgree, Outcomes
    <2> QED BY <1>1, <1>2, <2>1, <2>3, <2>4 DEF CallFits
  <1> QED BY <1>1, <1>2 DEF CallFits

(* What a client reports of its call is what became of its jobs.           *)
THEOREM VerdictsHoldAlways == SystemSpec => []VerdictsHold
  <1>1. SystemSpec => []JobsInv
    BY SystemImplementsJobs, TypeCorrect, StagesAlwaysAgree, PTL DEF JobsInv
  <1> QED BY <1>1, AnswersFitCalls, AnswersImplyVerdicts, PTL
=============================================================================
