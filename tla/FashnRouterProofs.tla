------------------------- MODULE FashnRouterProofs -------------------------
(***************************************************************************)
(* What holds of the FASHN router for any number of workers, requests and  *)
(* monitors.  LockAndClaimsMatchSteps is inductive given the types; the    *)
(* load counts and the rotation follow from it, one action at a time.      *)
(***************************************************************************)
EXTENDS FashnRouter, FiniteSetTheorems, TLAPS

USE RouterAssumption DEF RouterAssumption

-----------------------------------------------------------------------------

(* Every variable keeps its type: in particular next_worker_index stays a  *)
(* worker's index and no load count goes below zero.                       *)
THEOREM TypeCorrect == Spec => []TypeOK
<1>1. Init => TypeOK
  <2> 0 \in Workers
    BY DEF Workers
  <2> QED
    BY DEF Init, TypeOK, Steps
<1>2. TypeOK /\ [Next]_vars => TypeOK'
  <2> SUFFICES ASSUME TypeOK, [Next]_vars
               PROVE  TypeOK'
    OBVIOUS
  <2>0. CASE UNCHANGED vars
    BY <2>0 DEF vars, TypeOK
  <2>1. ASSUME NEW p \in Threads, Arrive(p) PROVE TypeOK'
    BY <2>1 DEF TypeOK, Arrive, Goto, environment, claimVars, Steps
  <2>2. ASSUME NEW p \in Threads, NEW w \in Workers, SkipReady(p, w) PROVE TypeOK'
    BY <2>2 DEF TypeOK, SkipReady, Probing, Advance, environment, claimVars, Workers
  <2>3. ASSUME NEW p \in Threads, NEW w \in Workers, ProbeDead(p, w) PROVE TypeOK'
    <3>1. ready' \in [Workers -> BOOLEAN]
      BY <2>3 DEF TypeOK, ProbeDead, SetReady
    <3>2. position' \in [Threads -> 0 .. N]
      BY <2>3 DEF TypeOK, ProbeDead, Probing, Advance, Workers
    <3> QED
      BY <2>3, <3>1, <3>2 DEF TypeOK, ProbeDead, environment, claimVars
  <2>4. ASSUME NEW p \in Threads, NEW w \in Workers, ProbeAsk(p, w) PROVE TypeOK'
    BY <2>4 DEF TypeOK, ProbeAsk, Probing, environment, claimVars
  <2>5. ASSUME NEW p \in Threads, NEW w \in Workers, ProbeWrite(p, w) PROVE TypeOK'
    BY <2>5 DEF TypeOK, ProbeWrite, Advance, SetReady, environment, claimVars, Workers
  <2>6. ASSUME NEW m \in Monitors, MonitorAnswers(m) PROVE TypeOK'
    BY <2>6 DEF TypeOK, MonitorAnswers, Goto, environment, claimVars, Steps, Threads
  <2>7. ASSUME NEW r \in Requests, ReadCandidates(r) PROVE TypeOK'
    <3>1. PICK w \in LookReady : least' = [least EXCEPT ![r] = inflight[w]]
      BY <2>7 DEF ReadCandidates, ReadLoads
    <3>2. least' \in [Requests -> Nat]
      BY <3>1 DEF TypeOK, LookReady
    <3> QED
      BY <2>7, <3>2 DEF TypeOK, ReadCandidates, ReadLoads, Goto, LookReady, environment, Steps, Threads
  <2>8. ASSUME NEW r \in Requests, RefuseNoneReady(r) PROVE TypeOK'
    BY <2>8 DEF TypeOK, RefuseNoneReady, Goto, environment, claimVars, Steps, Threads
  <2>9. ASSUME NEW r \in Requests, ClaimNothing(r) PROVE TypeOK'
    BY <2>9 DEF TypeOK, ClaimNothing, Goto, environment, claimVars, Steps, Threads
  <2>10. ASSUME NEW r \in Requests, AnswerRefused(r) PROVE TypeOK'
    BY <2>10 DEF TypeOK, AnswerRefused, Goto, environment, Steps, Threads
  <2>11. ASSUME NEW r \in Requests, NEW w \in Workers, Claim(r, w) PROVE TypeOK'
    <3>1. nextIndex' \in Workers
      BY <2>11 DEF Claim, ClaimMoving, Workers
    <3>2. passedOver' \in [Workers -> Nat]
      BY <2>11 DEF TypeOK, Claim, ClaimMoving
    <3>3. /\ inflight' \in [Workers -> Nat]
          /\ claimed' \in [Requests -> SUBSET Workers]
      BY <2>11 DEF TypeOK, Claim, ClaimMoving
    <3> QED
      BY <2>11, <3>1, <3>2, <3>3
      DEF TypeOK, Claim, ClaimMoving, Goto, environment, claimVars, Steps, Threads
  <2>12. ASSUME NEW r \in Requests, NEW w \in Workers, WorkerAnswers(r, w) PROVE TypeOK'
    BY <2>12 DEF TypeOK, WorkerAnswers, Goto, environment, claimVars, Steps, Threads
  <2>13. ASSUME NEW r \in Requests, NEW w \in Workers, ForwardFails(r, w) PROVE TypeOK'
    BY <2>13 DEF TypeOK, ForwardFails, SetReady, Goto, environment, claimVars, Steps, Threads
  <2>14. ASSUME NEW r \in Requests, NEW w \in Workers, Release(r, w) PROVE TypeOK'
    BY <2>14 DEF TypeOK, Release, Goto, environment, Steps, Threads
  <2>15. ASSUME NEW w \in Workers, WorkerChanges(w) \/ WorkerDies(w) PROVE TypeOK'
    BY <2>15 DEF TypeOK, WorkerChanges, WorkerDies, claimVars
  <2> QED
    BY <2>0, <2>1, <2>2, <2>3, <2>4, <2>5, <2>6, <2>7, <2>8, <2>9, <2>10, <2>11, <2>12,
       <2>13, <2>14, <2>15 DEF Next, ProbeStep, ClaimStep, ForwardStep
<1> QED
  BY <1>1, <1>2, PTL DEF Spec

-----------------------------------------------------------------------------

(* The scheduler lock is held exactly while a request chooses, by one      *)
(* request, and a worker is held exactly while its request forwards.       *)
LEMMA LockStep ==
    ASSUME TypeOK, LockAndClaimsMatchSteps, [Next]_vars
    PROVE  LockAndClaimsMatchSteps'
<1> USE DEF LockAndClaimsMatchSteps, Goto, Threads
<1>0. CASE UNCHANGED vars
  BY <1>0 DEF vars
<1>1. ASSUME NEW p \in Threads, Arrive(p) PROVE LockAndClaimsMatchSteps'
  BY <1>1 DEF TypeOK, Arrive, claimVars
<1>2. ASSUME NEW p \in Threads, NEW w \in Workers,
             SkipReady(p, w) \/ ProbeDead(p, w) \/ ProbeAsk(p, w) \/ ProbeWrite(p, w)
      PROVE  LockAndClaimsMatchSteps'
  <2>1. UNCHANGED <<step, scheduler, claimed>>
    BY <1>2 DEF SkipReady, ProbeDead, ProbeAsk, ProbeWrite
  <2> QED
    BY <2>1
<1>3. ASSUME NEW m \in Monitors, MonitorAnswers(m) PROVE LockAndClaimsMatchSteps'
  BY <1>3 DEF TypeOK, MonitorAnswers
<1>4. ASSUME NEW r \in Requests, ReadCandidates(r) PROVE LockAndClaimsMatchSteps'
  BY <1>4 DEF TypeOK, ReadCandidates, ReadLoads
<1>5. ASSUME NEW r \in Requests, RefuseNoneReady(r) PROVE LockAndClaimsMatchSteps'
  BY <1>5 DEF TypeOK, RefuseNoneReady
<1>6. ASSUME NEW r \in Requests, ClaimNothing(r) PROVE LockAndClaimsMatchSteps'
  <2>1. scheduler = {r}
    BY <1>6 DEF ClaimNothing
  <2> QED
    BY <1>6, <2>1 DEF TypeOK, ClaimNothing
<1>7. ASSUME NEW r \in Requests, AnswerRefused(r) PROVE LockAndClaimsMatchSteps'
  BY <1>7 DEF TypeOK, AnswerRefused
<1>8. ASSUME NEW r \in Requests, NEW w \in Workers, Claim(r, w) PROVE LockAndClaimsMatchSteps'
  <2>1. scheduler = {r}
    BY <1>8 DEF Claim, ClaimMoving
  <2> QED
    BY <1>8, <2>1 DEF TypeOK, Claim, ClaimMoving
<1>9. ASSUME NEW r \in Requests, NEW w \in Workers, WorkerAnswers(r, w) \/ ForwardFails(r, w)
      PROVE  LockAndClaimsMatchSteps'
  <2>1. /\ step[r] = "forwarding" /\ step' = [step EXCEPT ![r] = "releasing"]
        /\ UNCHANGED <<scheduler, claimed>>
    BY <1>9 DEF WorkerAnswers, ForwardFails
  <2> QED
    BY <2>1 DEF TypeOK
<1>10. ASSUME NEW r \in Requests, NEW w \in Workers, Release(r, w) PROVE LockAndClaimsMatchSteps'
  BY <1>10 DEF TypeOK, Release
<1>11. ASSUME NEW w \in Workers, WorkerChanges(w) \/ WorkerDies(w)
       PROVE  LockAndClaimsMatchSteps'
  BY <1>11 DEF WorkerChanges, WorkerDies
<1> QED
  BY <1>0, <1>1, <1>2, <1>3, <1>4, <1>5, <1>6, <1>7, <1>8, <1>9, <1>10, <1>11
  DEF Next, ProbeStep, ClaimStep, ForwardStep

(* No way through route_infer, failing or not, leaves the lock or a worker *)
(* held, and no two requests are ever inside claim_worker's critical part. *)
THEOREM LockAndClaimsHold == Spec => []LockAndClaimsMatchSteps
<1>1. Init => LockAndClaimsMatchSteps
  BY DEF Init, LockAndClaimsMatchSteps, Threads
<1>2. TypeOK /\ LockAndClaimsMatchSteps /\ [Next]_vars => LockAndClaimsMatchSteps'
  BY LockStep
<1> QED
  BY <1>1, <1>2, TypeCorrect, PTL DEF Spec

-----------------------------------------------------------------------------

\* One request more, or one fewer, holds a worker.
LEMMA HoldersChange ==
    ASSUME NEW S \in SUBSET Requests, NEW r \in Requests
    PROVE  /\ Cardinality(S) \in Nat
           /\ r \notin S => Cardinality(S \union {r}) = Cardinality(S) + 1
           /\ r \in S => Cardinality(S \ {r}) = Cardinality(S) - 1
<1>1. IsFiniteSet(S)
  BY FS_Subset
<1> QED
  BY <1>1, FS_CardinalityType, FS_AddElement, FS_RemoveElement

\* A step that leaves the loads and the claims alone.
LEMMA LoadsUntouched ==
    ASSUME InflightIsClaims, UNCHANGED <<inflight, claimed>>
    PROVE  InflightIsClaims'
  BY DEF InflightIsClaims, Holders

LEMMA LoadStep ==
    ASSUME TypeOK, LockAndClaimsMatchSteps, InflightIsClaims, [Next]_vars
    PROVE  InflightIsClaims'
<1>1. ASSUME NEW r \in Requests, NEW w \in Workers, Claim(r, w) PROVE InflightIsClaims'
  <2> SUFFICES ASSUME NEW v \in Workers PROVE inflight'[v] = Cardinality(Holders(v)')
    BY DEF InflightIsClaims
  <2>1. claimed[r] = {} /\ claimed' = [claimed EXCEPT ![r] = {w}]
    BY <1>1 DEF Claim, ClaimMoving, Goto, LockAndClaimsMatchSteps
  <2>2. inflight' = [inflight EXCEPT ![w] = @ + 1]
    BY <1>1 DEF Claim, ClaimMoving
  <2>3. CASE v = w
    <3>1. Holders(v)' = Holders(v) \union {r} /\ r \notin Holders(v)
      BY <2>1, <2>3 DEF Holders, TypeOK
    <3>2. Cardinality(Holders(v)') = Cardinality(Holders(v)) + 1
      BY <3>1, HoldersChange DEF Holders
    <3> QED
      BY <2>2, <2>3, <3>2 DEF InflightIsClaims, TypeOK
  <2>4. CASE v # w
    <3>1. Holders(v)' = Holders(v)
      BY <2>1, <2>4 DEF Holders, TypeOK
    <3> QED
      BY <2>2, <2>4, <3>1 DEF InflightIsClaims, TypeOK
  <2> QED
    BY <2>3, <2>4
<1>2. ASSUME NEW r \in Requests, NEW w \in Workers, Release(r, w) PROVE InflightIsClaims'
  <2> SUFFICES ASSUME NEW v \in Workers PROVE inflight'[v] = Cardinality(Holders(v)')
    BY DEF InflightIsClaims
  <2>1. /\ claimed' = [claimed EXCEPT ![r] = {}]
        /\ claimed[r] = {w}
    BY <1>2 DEF Release, LockAndClaimsMatchSteps, TypeOK
  <2>2. inflight' = [inflight EXCEPT ![w] = IF @ > 0 THEN @ - 1 ELSE 0]
    BY <1>2 DEF Release
  <2>3. CASE v = w
    <3>1. Holders(v)' = Holders(v) \ {r} /\ r \in Holders(v)
      BY <2>1, <2>3 DEF Holders, TypeOK
    <3>2. /\ Cardinality(Holders(v)') = Cardinality(Holders(v)) - 1
          /\ Cardinality(Holders(v)') \in Nat
      BY <3>1, HoldersChange DEF Holders
    <3>3. inflight[v] = Cardinality(Holders(v)) /\ inflight[v] \in Nat
      BY DEF InflightIsClaims, TypeOK
    <3>4. inflight'[v] = IF inflight[v] > 0 THEN inflight[v] - 1 ELSE 0
      BY <2>2, <2>3 DEF TypeOK
    <3> QED
      BY <3>2, <3>3, <3>4
  <2>4. CASE v # w
    <3>1. Holders(v)' = Holders(v)
      BY <2>1, <2>4 DEF Holders, TypeOK
    <3> QED
      BY <2>2, <2>4, <3>1 DEF InflightIsClaims, TypeOK
  <2> QED
    BY <2>3, <2>4
<1>3. CASE UNCHANGED <<inflight, claimed>>
  BY <1>3, LoadsUntouched
<1>4. \/ UNCHANGED <<inflight, claimed>>
      \/ \E r \in Requests, w \in Workers : Claim(r, w) \/ Release(r, w)
  <2>1. CASE UNCHANGED vars
    BY <2>1 DEF vars
  <2>2. ASSUME NEW p \in Threads, Arrive(p) \/ ProbeStep(p) PROVE UNCHANGED <<inflight, claimed>>
    BY <2>2 DEF Arrive, ProbeStep, SkipReady, ProbeDead, ProbeAsk, ProbeWrite, MonitorAnswers
  <2>3. ASSUME NEW r \in Requests,
               ReadCandidates(r) \/ RefuseNoneReady(r) \/ ClaimNothing(r) \/ AnswerRefused(r)
        PROVE  UNCHANGED <<inflight, claimed>>
    BY <2>3 DEF ReadCandidates, ReadLoads, RefuseNoneReady, ClaimNothing, AnswerRefused
  <2>4. ASSUME NEW r \in Requests, NEW w \in Workers, WorkerAnswers(r, w) \/ ForwardFails(r, w)
        PROVE  UNCHANGED <<inflight, claimed>>
    BY <2>4 DEF WorkerAnswers, ForwardFails
  <2>5. ASSUME NEW w \in Workers, WorkerChanges(w) \/ WorkerDies(w)
        PROVE  UNCHANGED <<inflight, claimed>>
    BY <2>5 DEF WorkerChanges, WorkerDies
  <2> QED
    BY <2>1, <2>2, <2>3, <2>4, <2>5 DEF Next, ClaimStep, ForwardStep
<1> QED
  BY <1>1, <1>2, <1>3, <1>4

(* The load count of a worker is the number of requests that hold it, for  *)
(* any number of workers and requests: max(0, ...) never hides anything.   *)
THEOREM InflightIsClaimsHolds == Spec => []InflightIsClaims
<1>1. Init => InflightIsClaims
  <2> SUFFICES ASSUME Init, NEW w \in Workers PROVE inflight[w] = Cardinality(Holders(w))
    BY DEF InflightIsClaims
  <2>1. Holders(w) = {}
    BY DEF Init, Holders
  <2> QED
    BY <2>1, FS_EmptySet DEF Init
<1>2. TypeOK /\ LockAndClaimsMatchSteps /\ InflightIsClaims /\ [Next]_vars => InflightIsClaims'
  BY LoadStep
<1> QED
  BY <1>1, <1>2, TypeCorrect, LockAndClaimsHold, PTL DEF Spec

(* No way out of claim_worker or route_infer leaves the scheduler lock, a  *)
(* worker or a load behind, for any number of workers and requests.        *)
THEOREM LoadsAndClaimsHold == Spec => []LoadsAndClaimsAgree
<1>1. LockAndClaimsMatchSteps /\ InflightIsClaims => LoadsAndClaimsAgree
  BY DEF LoadsAndClaimsAgree
<1> QED
  BY <1>1, LockAndClaimsHold, InflightIsClaimsHolds, PTL

-----------------------------------------------------------------------------

(* A worker that every claim could have taken is passed over fewer than N  *)
(* times in a row: each claim moves the start index towards it.            *)
THEOREM RotationIsFairHolds == Spec => []RotationIsFair
<1>1. Init => RotationIsFair
  BY DEF Init, RotationIsFair, Distance, Workers
<1>2. TypeOK /\ RotationIsFair /\ [Next]_vars => RotationIsFair'
  <2> SUFFICES ASSUME TypeOK, RotationIsFair, [Next]_vars
               PROVE  RotationIsFair'
    OBVIOUS
  <2>1. ASSUME NEW r \in Requests, NEW w \in Workers, Claim(r, w) PROVE RotationIsFair'
    <3> SUFFICES ASSUME NEW v \in Workers PROVE passedOver'[v] + Distance(v)' < N
      BY DEF RotationIsFair
    <3>1. /\ nextIndex' = IF w = N - 1 THEN 0 ELSE w + 1
          /\ passedOver'[v] = IF v \in Eligible(r) \ {w} THEN passedOver[v] + 1 ELSE 0
          /\ v \in Eligible(r) => Distance(w) <= Distance(v)
      BY <2>1 DEF Claim, ClaimMoving
    <3>2. /\ nextIndex \in 0 .. N - 1 /\ v \in 0 .. N - 1 /\ w \in 0 .. N - 1
          /\ passedOver[v] \in Nat
          /\ passedOver[v] + Distance(v) < N
      BY DEF TypeOK, Workers, RotationIsFair
    <3>3. CASE v \in Eligible(r) \ {w}
      <4>1. Distance(v)' < Distance(v)
        BY <3>1, <3>2, <3>3 DEF Distance
      <4>2. Distance(v) \in Int /\ Distance(v)' \in Int
        BY <3>1, <3>2 DEF Distance
      <4> QED
        BY <3>1, <3>2, <3>3, <4>1, <4>2
    <3>4. CASE v \notin Eligible(r) \ {w}
      BY <3>1, <3>2, <3>4 DEF Distance
    <3> QED
      BY <3>3, <3>4
  <2>2. CASE UNCHANGED <<nextIndex, passedOver>>
    BY <2>2 DEF RotationIsFair, Distance
  <2>3. \/ UNCHANGED <<nextIndex, passedOver>>
        \/ \E r \in Requests, w \in Workers : Claim(r, w)
    <3>1. CASE UNCHANGED vars
      BY <3>1 DEF vars
    <3>2. ASSUME NEW p \in Threads, Arrive(p) \/ ProbeStep(p)
          PROVE  UNCHANGED <<nextIndex, passedOver>>
      BY <3>2 DEF Arrive, ProbeStep, SkipReady, ProbeDead, ProbeAsk, ProbeWrite, MonitorAnswers
    <3>3. ASSUME NEW r \in Requests, ReadCandidates(r) \/ RefuseNoneReady(r) \/ ClaimNothing(r)
          PROVE  UNCHANGED <<nextIndex, passedOver>>
      BY <3>3 DEF ReadCandidates, ReadLoads, RefuseNoneReady, ClaimNothing
    <3>4. ASSUME NEW r \in Requests, ForwardStep(r)
          PROVE  UNCHANGED <<nextIndex, passedOver>>
      BY <3>4 DEF ForwardStep, WorkerAnswers, ForwardFails, Release, AnswerRefused
    <3>5. ASSUME NEW w \in Workers, WorkerChanges(w) \/ WorkerDies(w)
          PROVE  UNCHANGED <<nextIndex, passedOver>>
      BY <3>5 DEF WorkerChanges, WorkerDies
    <3> QED
      BY <3>1, <3>2, <3>3, <3>4, <3>5 DEF Next, ClaimStep
  <2> QED
    BY <2>1, <2>2, <2>3
<1> QED
  BY <1>1, <1>2, TypeCorrect, PTL DEF Spec

-----------------------------------------------------------------------------

(* While a request chooses, no step raises a load: only the lock holder    *)
(* claims, and releasing lowers.                                           *)
THEOREM OnlyReleasesHold == Spec => OnlyReleasesDuringChoice
<1> DEFINE Bounded == \A r \in Requests, w \in Workers :
                step[r] = "choosing" /\ step'[r] = "choosing" => inflight'[w] <= inflight[w]
<1>1. TypeOK /\ LockAndClaimsMatchSteps /\ [Next]_vars => [Bounded]_vars
  <2> SUFFICES ASSUME TypeOK, LockAndClaimsMatchSteps, [Next]_vars,
                      NEW r \in Requests, NEW w \in Workers,
                      step[r] = "choosing", step'[r] = "choosing"
               PROVE  inflight'[w] <= inflight[w]
    OBVIOUS
  <2>1. inflight[w] \in Nat
    BY DEF TypeOK
  <2>2. ASSUME NEW q \in Requests, NEW v \in Workers, Claim(q, v) PROVE FALSE
    <3>1. q = r
      BY <2>2 DEF Claim, ClaimMoving, Goto, LockAndClaimsMatchSteps
    <3> QED
      BY <2>2, <3>1 DEF Claim, ClaimMoving, Goto, TypeOK, Threads
  <2>3. ASSUME NEW q \in Requests, NEW v \in Workers, Release(q, v)
        PROVE  inflight'[w] <= inflight[w]
    BY <2>1, <2>3 DEF Release, TypeOK
  <2>4. CASE UNCHANGED inflight
    BY <2>1, <2>4
  <2>5. \/ UNCHANGED inflight
        \/ \E q \in Requests, v \in Workers : Claim(q, v) \/ Release(q, v)
    <3>1. CASE UNCHANGED vars
      BY <3>1 DEF vars
    <3>2. ASSUME NEW p \in Threads, Arrive(p) \/ ProbeStep(p) PROVE UNCHANGED inflight
      BY <3>2 DEF Arrive, ProbeStep, SkipReady, ProbeDead, ProbeAsk, ProbeWrite, MonitorAnswers
    <3>3. ASSUME NEW q \in Requests,
                 ReadCandidates(q) \/ RefuseNoneReady(q) \/ ClaimNothing(q) \/ AnswerRefused(q)
          PROVE  UNCHANGED inflight
      BY <3>3 DEF ReadCandidates, ReadLoads, RefuseNoneReady, ClaimNothing, AnswerRefused
    <3>4. ASSUME NEW q \in Requests, NEW v \in Workers, WorkerAnswers(q, v) \/ ForwardFails(q, v)
          PROVE  UNCHANGED inflight
      BY <3>4 DEF WorkerAnswers, ForwardFails
    <3>5. ASSUME NEW v \in Workers, WorkerChanges(v) \/ WorkerDies(v) PROVE UNCHANGED inflight
      BY <3>5 DEF WorkerChanges, WorkerDies
    <3> QED
      BY <3>1, <3>2, <3>3, <3>4, <3>5 DEF Next, ClaimStep, ForwardStep
  <2> QED
    BY <2>2, <2>3, <2>4, <2>5
<1> QED
  BY <1>1, TypeCorrect, LockAndClaimsHold, PTL DEF Spec, OnlyReleasesDuringChoice
=============================================================================
