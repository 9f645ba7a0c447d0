-------------------------- MODULE InferenceProofs --------------------------
(***************************************************************************)
(* The synchronous endpoints, for any number of requests of either kind,   *)
(* any size of the prompt cache and any number of stops of the worker.     *)
(***************************************************************************)
EXTENDS Inference, FiniteSetTheorems, TLAPS

USE CacheAssumption, WorkerAssumption

-----------------------------------------------------------------------------
(* The inductive invariant.                                                *)

Unsubmitted ==
    {"arrived", "charging", "charged", "looking", "getting", "submitting",
     "checking", "person", "garment", "ready"}
Awaiting == {"generating", "shadowing", "running"}

Asked == ask \in [Requests -> Ask]
SameStorage == \A r, q \in Requests : ask[r].storage = ask[q].storage

\* Where a request is says what it asked for, whether it is answered and
\* charged, and what its thread and the worker may be doing for it.
FlowOf(r) ==
    /\ at[r] \in GenerationSteps => Kind(r) = "llm"
    /\ at[r] \in TryOnSteps => Kind(r) = "vton"
    /\ at[r] \notin {"cleaning", "done"} => answer[r] = "none"
    /\ at[r] \in Unsubmitted => thread[r] = "none"
    /\ thread[r] \in {"queued", "busy"} => at[r] \in Awaiting
    /\ thread[r] = "ready" => result[r] # "none"
    /\ at[r] \in GenerationSteps \ {"charging"} => r \in charged
    /\ at[r] \in {"filtering", "rebinding"} \union Settling => ~ask[r].redacted
    /\ post[r] # "none" => Kind(r) = "vton" /\ thread[r] \in {"busy", "ready", "stray", "gone"}
FlowKnown == \A r \in Requests : FlowOf(r)

\* Inputs lie on the disk from the step that fetched them to the last one.
InputsKept ==
    /\ \A r \in Requests : at[r] # "done" => HasInputs(r)
    /\ \A r \in Requests : at[r] \in GenerationSteps \union {"arrived"} =>
           \A role \in Roles : <<r, role>> \notin inputs
    /\ InputsRemoved

\* What lies under a slot is of a request of that slot.
OwnSlots ==
    /\ \A s \in Slots : \A q \in output[s] : slot[q] = s
    /\ \A s \in Slots, role \in Artifacts : \A q \in objects[<<s, role>>] : slot[q] = s

RowsAreBacked == \A row \in rows : objects[<<slot[row[1]], row[2]>>] # {}

\* Artifacts are stored in their order, each before its row.
StoredOf(r) ==
    \A i \in 1..4 :
        /\ stored[r] >= 2 * i - 1 => objects[<<slot[r], Order[i]>>] # {}
        /\ stored[r] >= 2 * i => <<r, Order[i]>> \in rows

\* How much is stored at which step, and all of it once the answer says so,
\* where there is an object store.
Stores(r) == ask[r].storage # "none"
StoringOf(r) ==
    /\ at[r] \notin {"storing", "removing", "paying", "cleaning", "done"} => stored[r] = 0
    /\ at[r] = "storing" => stored[r] \in 0..7
    /\ Stores(r) /\ at[r] \in {"removing", "paying"} => stored[r] = 8
    /\ Stores(r) /\ Kind(r) = "vton" /\ answer[r] = "completed" => stored[r] = 8

StoredInOrder ==
    /\ OwnSlots /\ RowsAreBacked
    /\ \A r \in Requests : StoredOf(r) /\ StoringOf(r)

\* Without an object store an image stays at its path from the step that
\* wrote it on, whoever writes over it.
DrawnFor(r) ==
    \/ post[r] \in {"hashing", "completed", "replying"}
    \/ result[r] = "ok"
    \/ at[r] \in {"reporting", "storing", "removing", "paying"}
    \/ answer[r] = "completed"
ImagesStay ==
    \A r \in Requests : Kind(r) = "vton" /\ ~Stores(r) /\ DrawnFor(r) => output[slot[r]] # {}

\* A lookup finds similar prompts only.
MatchesAreSimilar ==
    /\ \A r \in Requests : \A k \in matched[r] : <<ask[r].key, k>> \in Similar
    /\ HitsMatchThePrompt

\* The list objects some request can still write to, or read.
InUse == {current} \union {held[r] : r \in Requests}

\* An object comes into use when its put rebinds the list to it, the second
\* when that put ends, and a trimmed one is short until then.
ObjectsInOrder ==
    \A r \in Requests :
        /\ <<r, "filtered">> \in InUse => at[r] \in Settling \union {"sending", "done"}
        /\ <<r, "trimmed">> \in InUse => at[r] \in {"sending", "done"}
        /\ at[r] = "trimming" => Cardinality(lists[<<r, "trimmed">>]) <= MaxEntries

\* An entry is there once its request has appended it; after that the
\* request can only complete.
EntriesAreSound ==
    \A o \in Objects :
        /\ IsFiniteSet(lists[o])
        /\ \A e \in lists[o] : e.by \in Requests =>
               /\ e.by \in charged
               /\ ~ask[e.by].redacted
               /\ \/ at[e.by] \in {"measuring", "slicing", "trimming", "sending"}
                  \/ at[e.by] = "done" /\ answer[e.by] = "completed"

CacheIsBounded ==
    (\A r \in Requests : at[r] \notin Settling) => Cardinality(Cached) <= MaxEntries

InferenceInv ==
    /\ TypeOK /\ Asked /\ SameStorage /\ FlowKnown
    /\ InputsKept /\ StoredInOrder /\ ImagesStay
    /\ MatchesAreSimilar /\ ObjectsInOrder /\ EntriesAreSound /\ CacheIsBounded
    /\ GaugeNeverOvercounts


-----------------------------------------------------------------------------
(* What the steps of the endpoints leave alone.                            *)

\* A step of a generation moves that request only, and nothing of the try-ons.
LEMMA GenerateFrame ==
    ASSUME TypeOK, NEW r \in Requests, Generate(r)
    PROVE  /\ UNCHANGED <<ask, slot, fetched, worker, disk, store>>
           /\ at[r] \in GenerationSteps /\ at'[r] \in GenerationSteps \union {"done"}
           /\ \A q \in Requests \ {r} :
                  /\ at'[q] = at[q] /\ answer'[q] = answer[q]
                  /\ thread'[q] = thread[q] /\ result'[q] = result[q]
           /\ charged \subseteq charged'
<1> USE DEF flow, operation, cache, worker, paths, disk, api, store, unmoved, Goto, Step, Conclude
<1>1. CASE ChargeGeneration(r)
  BY <1>1 DEF ChargeGeneration, TypeOK, GenerationSteps, Settling
<1>2. CASE CheckCacheConfigured(r)
  BY <1>2 DEF CheckCacheConfigured, CacheAllowed, TypeOK, GenerationSteps, Settling
<1>3. CASE LookUpCache(r)
  BY <1>3 DEF LookUpCache, Lookup, TypeOK, GenerationSteps, Settling
<1>4. CASE GetGeneration(r)
  BY <1>4 DEF GetGeneration, TypeOK, GenerationSteps, Settling
<1>5. CASE SubmitGeneration(r)
  BY <1>5 DEF SubmitGeneration, Submit, TypeOK, GenerationSteps, Settling
<1>6. CASE AwaitGeneration(r)
  BY <1>6 DEF AwaitGeneration, Generates, Submit, TypeOK, GenerationSteps, Settling
<1>7. CASE GenerationTimeout(r)
  BY <1>7 DEF GenerationTimeout, Generates, Abandon, TypeOK, GenerationSteps, Settling
<1>8. CASE GuardOutput(r)
  BY <1>8 DEF GuardOutput, CacheAllowed, TypeOK, GenerationSteps, Settling
<1>9. CASE PutGeneration(r)
  BY <1>9 DEF PutGeneration, FilterList, Rebind, Load, AppendEntry, Measure, Slice, Trim, TypeOK,
     GenerationSteps, Settling
<1>10. CASE SendGeneration(r)
  BY <1>10 DEF SendGeneration, TypeOK, GenerationSteps, Settling
<1> QED
  BY <1>1, <1>2, <1>3, <1>4, <1>5, <1>6, <1>7, <1>8, <1>9, <1>10 DEF Generate

\* A step of a try-on moves that request only, and nothing of the cache.
LEMMA TryOnFrame ==
    ASSUME TypeOK, NEW r \in Requests, TryOn(r)
    PROVE  /\ UNCHANGED <<ask, slot, served, cache, worker>>
           /\ at[r] \in TryOnSteps /\ at'[r] \in TryOnSteps \union {"done"}
           /\ \A q \in Requests \ {r} :
                  /\ at'[q] = at[q] /\ answer'[q] = answer[q]
                  /\ thread'[q] = thread[q] /\ result'[q] = result[q]
                  /\ fetched'[q] = fetched[q] /\ stored'[q] = stored[q]
                  /\ \A role : <<q, role>> \in inputs' <=> <<q, role>> \in inputs
           /\ charged \subseteq charged'
<1> USE DEF flow, operation, cache, worker, paths, disk, api, store, unmoved, Goto, Step, Conclude
<1>1. CASE CheckTryOn(r)
  BY <1>1 DEF CheckTryOn, TypeOK, TryOnSteps
<1>2. CASE Materialize(r, "person", "garment")
  BY <1>2 DEF Materialize, TypeOK, TryOnSteps
<1>3. CASE Materialize(r, "garment", "ready")
  BY <1>3 DEF Materialize, TypeOK, TryOnSteps
<1>4. CASE SubmitTryOn(r)
  BY <1>4 DEF SubmitTryOn, Submit, TypeOK, TryOnSteps
<1>5. CASE AwaitTryOn(r)
  BY <1>5 DEF AwaitTryOn, TypeOK, TryOnSteps
<1>6. CASE TryOnTimeout(r)
  BY <1>6 DEF TryOnTimeout, Abandon, TypeOK, TryOnSteps
<1>7. CASE WriteSidecar(r)
  BY <1>7 DEF WriteSidecar, TypeOK, TryOnSteps
<1>8. CASE StoreArtifacts(r)
  BY <1>8 DEF StoreArtifacts, SkipStorage, Persist, PersistFails, PersistErrors, TypeOK, TryOnSteps
<1>9. CASE RemoveLocal(r)
  BY <1>9 DEF RemoveLocal, TypeOK, TryOnSteps
<1>10. CASE ChargeTryOn(r)
  BY <1>10 DEF ChargeTryOn, TypeOK, TryOnSteps
<1>11. CASE CleanUp(r)
  BY <1>11 DEF CleanUp, TypeOK, TryOnSteps
<1> QED
  BY <1>1, <1>2, <1>3, <1>4, <1>5, <1>6, <1>7, <1>8, <1>9, <1>10, <1>11 DEF TryOn

\* A step of the worker's handler.
LEMMA ServeFrame ==
    ASSUME TypeOK, NEW r \in Requests, Serve(r)
    PROVE  /\ UNCHANGED <<slot, fetched, inputs, flow>>
           /\ \A q \in Requests \ {r} :
                  thread'[q] = thread[q] /\ result'[q] = result[q] /\ post'[q] = post[q]
           /\ \/ thread'[r] = thread[r] /\ result'[r] = result[r]
              \/ thread'[r] = "ready" => result'[r] # "none"
           /\ \/ thread'[r] = thread[r]
              \/ thread[r] \in {"busy", "stray"} /\ thread'[r] \in {"ready", "gone"}
           /\ post[r] # "none"
           /\ output' \in {output, [output EXCEPT ![slot[r]] = {r}]}
<1> USE DEF flow, operation, cache, worker, paths, disk, api, store, unmoved, Goto, Step, Conclude
<1>1. CASE BeginRequest(r)
  BY <1>1 DEF BeginRequest, PostGoes, TypeOK, Counted
<1>2. CASE CheckMemory(r)
  BY <1>2 DEF CheckMemory, Fails, TypeOK, Counted
<1>3. CASE TakeLock(r)
  BY <1>3 DEF TakeLock, PostGoes, TypeOK, Counted
<1>4. CASE LoadPipeline(r)
  BY <1>4 DEF LoadPipeline, Fails, TypeOK, Counted
<1>5. CASE ReadImages(r)
  BY <1>5 DEF ReadImages, Fails, TypeOK, Counted
<1>6. CASE WriteImage(r)
  BY <1>6 DEF WriteImage, Fails, TypeOK, Counted
<1>7. CASE WriteReport(r)
  BY <1>7 DEF WriteReport, Fails, TypeOK, Counted
<1>8. CASE FinishRequest(r)
  BY <1>8 DEF FinishRequest, PostGoes, TypeOK, Counted
<1>9. CASE Reply(r)
  BY <1>9 DEF Reply, PostGoes, Finish, TypeOK, Counted
<1>10. CASE Refuse(r)
  BY <1>10 DEF Refuse, PostGoes, Finish, TypeOK, Counted
<1> QED
  BY <1>1, <1>2, <1>3, <1>4, <1>5, <1>6, <1>7, <1>8, <1>9, <1>10 DEF Serve

\* A step of a thread or of the worker answers nothing and stores nothing.
LEMMA WorkFrame ==
    ASSUME TypeOK, NEW r \in Requests, Work(r)
    PROVE  /\ UNCHANGED <<slot, fetched, inputs, flow, cache, api, store>>
           /\ \A q \in Requests \ {r} :
                  thread'[q] = thread[q] /\ result'[q] = result[q] /\ post'[q] = post[q]
           /\ \/ thread'[r] = thread[r] /\ result'[r] = result[r]
              \/ thread'[r] = "ready" => result'[r] # "none"
           /\ \/ thread'[r] = thread[r] /\ (post[r] = "none" => post'[r] = "none")
              \/ /\ thread[r] = "queued" /\ thread'[r] = "busy"
                 /\ post'[r] = post[r] \/ Kind(r) = "vton"
              \/ /\ thread[r] \in {"busy", "stray"} /\ thread'[r] \in {"ready", "gone"}
                 /\ post[r] = "none" => post'[r] = "none"
           /\ output' \in {output, [output EXCEPT ![slot[r]] = {r}]}
<1> USE DEF flow, operation, cache, worker, paths, disk, api, store, unmoved
<1>1. CASE RunGeneration(r)
  BY <1>1 DEF RunGeneration, Start, Finish, TypeOK
<1>2. CASE CallWorker(r)
  BY <1>2 DEF CallWorker, Start, PostGoes, TypeOK
<1>3. CASE CallFails(r)
  BY <1>3 DEF CallFails, Finish, TypeOK
<1>4. CASE Serve(r) /\ UNCHANGED <<cache, api, store>>
  BY <1>4, ServeFrame
<1> QED
  BY <1>1, <1>2, <1>3, <1>4 DEF Work

-----------------------------------------------------------------------------
(* The types, by the component they belong to.                             *)

FlowTypes ==
    /\ at \in [Requests -> {"arrived", "done"} \union GenerationSteps \union TryOnSteps]
    /\ answer \in [Requests -> Answers]
    /\ thread \in [Requests -> Threads] /\ result \in [Requests -> Results]
CacheTypes ==
    /\ lists \in [Objects -> SUBSET Entry] /\ current \in Objects
    /\ held \in [Requests -> Objects] /\ appends \in Nat
    /\ matched \in [Requests -> SUBSET Keys]
    /\ served \in [Requests -> SUBSET Entry]
WorkerTypes ==
    /\ post \in [Requests -> Posts] /\ holder \subseteq Requests
    /\ loaded \in BOOLEAN /\ gauge \in Nat /\ stops \in 0..MaxStops
    /\ starved \subseteq Requests
DiskTypes ==
    /\ slot \in [Requests -> Slots] /\ fetched \in [Requests -> SUBSET Roles]
    /\ inputs \subseteq Requests \X Roles
    /\ output \in [Slots -> SUBSET Requests] /\ sidecar \in [Slots -> SUBSET Requests]
StoreTypes ==
    /\ \E scene \in Scenarios : ask = scene.ask /\ slot = scene.slot
    /\ charged \subseteq Requests /\ stored \in [Requests -> 0..8]
    /\ objects \in [Slots \X Artifacts -> SUBSET Requests]
    /\ rows \subseteq Requests \X Artifacts

\* The types, in the parts the lemmas below are about.
LEMMA TypesAreParts == TypeOK <=> FlowTypes /\ CacheTypes /\ WorkerTypes /\ DiskTypes /\ StoreTypes
  BY DEF TypeOK, FlowTypes, CacheTypes, WorkerTypes, DiskTypes, StoreTypes

-----------------------------------------------------------------------------
(* Every part of the invariant is kept by every step.                      *)

\* The types, through the steps of a generation, of a try-on and of the worker.
LEMMA GenerateTypes ==
    ASSUME TypeOK, Asked, FlowKnown, NEW r \in Requests, Generate(r)
    PROVE  FlowTypes' /\ CacheTypes' /\ charged' \subseteq Requests
<1> USE TypesAreParts
<1>a. FlowTypes'
  <2> USE DEF flow, operation, cache, worker, paths, disk, api, store, unmoved, Goto, Step, Conclude
  <2>1. CASE ChargeGeneration(r)
    BY <2>1 DEF ChargeGeneration, FlowTypes, FlowKnown, FlowOf, Threads, Results, Refusal,
       Generates, Answers, EarlyRefusals, GenerationSteps, Settling, CacheTypes
  <2>2. CASE CheckCacheConfigured(r)
    BY <2>2 DEF CheckCacheConfigured, CacheAllowed, FlowTypes, FlowKnown, FlowOf, Threads,
       Results, Refusal, Generates, Answers, EarlyRefusals, GenerationSteps, Settling, CacheTypes
  <2>3. CASE LookUpCache(r)
    BY <2>3 DEF LookUpCache, Lookup, FlowTypes, FlowKnown, FlowOf, Threads, Results, Refusal,
       Generates, Answers, EarlyRefusals, GenerationSteps, Settling, CacheTypes
  <2>4. CASE GetGeneration(r)
    BY <2>4 DEF GetGeneration, FlowTypes, FlowKnown, FlowOf, Threads, Results, Refusal, Generates,
       Answers, EarlyRefusals, GenerationSteps, Settling, CacheTypes
  <2>5. CASE SubmitGeneration(r)
    BY <2>5 DEF SubmitGeneration, Submit, FlowTypes, FlowKnown, FlowOf, Threads, Results, Refusal,
       Generates, Answers, EarlyRefusals, GenerationSteps, Settling, CacheTypes
  <2>6. CASE AwaitGeneration(r)
    <3>1. at' \in [Requests -> {"arrived", "done"} \union GenerationSteps \union TryOnSteps]
      BY <2>6 DEF AwaitGeneration, Generates, FlowTypes, GenerationSteps, Settling
    <3>2. thread' \in [Requests -> Threads] /\ result' \in [Requests -> Results]
      BY <2>6 DEF AwaitGeneration, Submit, FlowTypes, Threads, Results
    <3>3. Refusal[result[r]] \in Answers \/ result[r] = "ok" \/ result[r] = "none"
      BY DEF FlowTypes, Results, Refusal, Answers
    <3>4. result[r] # "none"
      BY <2>6 DEF AwaitGeneration, FlowKnown, FlowOf
    <3>5. answer' \in [Requests -> Answers]
      BY <2>6, <3>3, <3>4 DEF AwaitGeneration, FlowTypes
    <3> QED
      BY <3>1, <3>2, <3>5 DEF FlowTypes
  <2>7. CASE GenerationTimeout(r)
    BY <2>7 DEF GenerationTimeout, Generates, Abandon, FlowTypes, FlowKnown, FlowOf, Threads,
       Results, Refusal, Generates, Answers, EarlyRefusals, GenerationSteps, Settling, CacheTypes
  <2>8. CASE GuardOutput(r)
    BY <2>8 DEF GuardOutput, CacheAllowed, FlowTypes, FlowKnown, FlowOf, Threads, Results,
       Refusal, Generates, Answers, EarlyRefusals, GenerationSteps, Settling, CacheTypes
  <2>9. CASE PutGeneration(r)
    BY <2>9 DEF PutGeneration, FilterList, Rebind, Load, AppendEntry, Measure, Slice, Trim,
       FlowTypes, FlowKnown, FlowOf, Threads, Results, Refusal, Generates, Answers, EarlyRefusals,
       GenerationSteps, Settling, CacheTypes
  <2>10. CASE SendGeneration(r)
    BY <2>10 DEF SendGeneration, FlowTypes, FlowKnown, FlowOf, Threads, Results, Refusal,
       Generates, Answers, EarlyRefusals, GenerationSteps, Settling, CacheTypes
  <2> QED
    BY <2>1, <2>2, <2>3, <2>4, <2>5, <2>6, <2>7, <2>8, <2>9, <2>10 DEF Generate
<1>b. CacheTypes'
  <2> USE DEF flow, operation, cache, worker, paths, disk, api, store, unmoved, Goto, Step, Conclude
  <2>1. CASE ChargeGeneration(r)
    BY <2>1 DEF ChargeGeneration, CacheTypes, Asked, Ask, Objects, Entry, Cached, Matches
  <2>2. CASE CheckCacheConfigured(r)
    BY <2>2 DEF CheckCacheConfigured, CacheAllowed, CacheTypes, Asked, Ask, Objects, Entry,
       Cached, Matches
  <2>3. CASE LookUpCache(r)
    <3>1. UNCHANGED <<lists, current, held, appends, served>>
      BY <2>3 DEF LookUpCache, Lookup
    <3>2. \A e \in Cached : e.id \in Keys
      BY DEF CacheTypes, Cached, Entry
    <3>3. matched' \in [Requests -> SUBSET Keys]
      <4>1. CASE UNCHANGED matched
        BY <4>1 DEF CacheTypes
      <4>2. ASSUME NEW found \in {{}} \union {{e.id} : e \in {e \in Cached : <<ask[r].key, e.id>> \in Similar}},
                   matched' = [matched EXCEPT ![r] = found]
            PROVE  matched' \in [Requests -> SUBSET Keys]
        <5>1. found = {} \/ \E e \in Cached : found = {e.id}
          OBVIOUS
        <5>2. found \in SUBSET Keys
          BY <3>2, <5>1
        <5> QED
          BY <4>2, <5>2 DEF CacheTypes
      <4> QED
        BY <2>3, <4>1, <4>2 DEF LookUpCache, Lookup
    <3> QED
      BY <3>1, <3>3 DEF CacheTypes
  <2>4. CASE GetGeneration(r)
    BY <2>4 DEF GetGeneration, CacheTypes, Asked, Ask, Objects, Entry, Cached, Matches
  <2>5. CASE SubmitGeneration(r)
    BY <2>5 DEF SubmitGeneration, Submit, CacheTypes, Asked, Ask, Objects, Entry, Cached, Matches
  <2>6. CASE AwaitGeneration(r)
    BY <2>6 DEF AwaitGeneration, Generates, Submit, CacheTypes, Asked, Ask, Objects, Entry,
       Cached, Matches
  <2>7. CASE GenerationTimeout(r)
    BY <2>7 DEF GenerationTimeout, Generates, Abandon, CacheTypes, Asked, Ask, Objects, Entry,
       Cached, Matches
  <2>8. CASE GuardOutput(r)
    BY <2>8 DEF GuardOutput, CacheAllowed, CacheTypes, Asked, Ask, Objects, Entry, Cached, Matches
  <2>9. CASE PutGeneration(r)
    <3>1. CASE FilterList(r, ask[r].key)
      BY <2>9, <3>1 DEF PutGeneration, FilterList, CacheTypes, Asked, Ask, Objects, Entry, Cached
    <3>2. CASE Rebind(r)
      BY <2>9, <3>2 DEF PutGeneration, Rebind, CacheTypes, Asked, Ask, Objects, Entry, Cached
    <3>3. CASE Load(r)
      BY <2>9, <3>3 DEF PutGeneration, Load, CacheTypes, Asked, Ask, Objects, Entry, Cached
    <3>4. CASE AppendEntry(r, ask[r].key)
      BY <2>9, <3>4 DEF PutGeneration, AppendEntry, CacheTypes, Asked, Ask, Objects, Entry, Cached
    <3>5. CASE Measure(r, "sending")
      BY <2>9, <3>5 DEF PutGeneration, Measure, CacheTypes, Asked, Ask, Objects, Entry, Cached
    <3>6. CASE Slice(r)
      BY <2>9, <3>6 DEF PutGeneration, Slice, CacheTypes, Asked, Ask, Objects, Entry, Cached
    <3>7. CASE Trim(r, "sending")
      BY <2>9, <3>7 DEF PutGeneration, Trim, CacheTypes, Asked, Ask, Objects, Entry, Cached
    <3> QED
      BY <2>9, <3>1, <3>2, <3>3, <3>4, <3>5, <3>6, <3>7 DEF PutGeneration
  <2>10. CASE SendGeneration(r)
    BY <2>10 DEF SendGeneration, CacheTypes, Asked, Ask, Objects, Entry, Cached, Matches
  <2> QED
    BY <2>1, <2>2, <2>3, <2>4, <2>5, <2>6, <2>7, <2>8, <2>9, <2>10 DEF Generate
<1>c. charged' \subseteq Requests
  <2> USE DEF flow, operation, cache, worker, paths, disk, api, store, unmoved, Goto, Step, Conclude
  <2>1. CASE ChargeGeneration(r)
    BY <2>1 DEF ChargeGeneration, StoreTypes
  <2>2. CASE CheckCacheConfigured(r)
    BY <2>2 DEF CheckCacheConfigured, CacheAllowed, StoreTypes
  <2>3. CASE LookUpCache(r)
    BY <2>3 DEF LookUpCache, Lookup, StoreTypes
  <2>4. CASE GetGeneration(r)
    BY <2>4 DEF GetGeneration, StoreTypes
  <2>5. CASE SubmitGeneration(r)
    BY <2>5 DEF SubmitGeneration, Submit, StoreTypes
  <2>6. CASE AwaitGeneration(r)
    BY <2>6 DEF AwaitGeneration, Generates, Submit, StoreTypes
  <2>7. CASE GenerationTimeout(r)
    BY <2>7 DEF GenerationTimeout, Generates, Abandon, StoreTypes
  <2>8. CASE GuardOutput(r)
    BY <2>8 DEF GuardOutput, CacheAllowed, StoreTypes
  <2>9. CASE PutGeneration(r)
    BY <2>9 DEF PutGeneration, FilterList, Rebind, Load, AppendEntry, Measure, Slice, Trim,
       StoreTypes
  <2>10. CASE SendGeneration(r)
    BY <2>10 DEF SendGeneration, StoreTypes
  <2> QED
    BY <2>1, <2>2, <2>3, <2>4, <2>5, <2>6, <2>7, <2>8, <2>9, <2>10 DEF Generate
<1> QED
  BY <1>a, <1>b, <1>c

\* The artifact a request is at, by how far it has come.
LEMMA PlaceOf ==
    ASSUME NEW r \in Requests, stored[r] \in 0..7
    PROVE  \E i \in 1..4 :
               /\ Place(r) = <<slot[r], Order[i]>> /\ Order[i] \in Artifacts
               /\ IsPut(r) => stored[r] = 2 * i - 2
               /\ ~IsPut(r) => stored[r] = 2 * i - 1
<1> DEFINE i == stored[r] \div 2 + 1
<1>1. i \in 1..4 /\ (stored[r] % 2 = 0 => stored[r] = 2 * i - 2)
      /\ (stored[r] % 2 # 0 => stored[r] = 2 * i - 1)
  OBVIOUS
<1>2. Order[i] \in Artifacts
  BY <1>1 DEF Order, Artifacts
<1> QED
  BY <1>1, <1>2 DEF Place, IsPut

LEMMA TryOnTypes ==
    ASSUME TypeOK, FlowKnown, StoredInOrder, NEW r \in Requests, TryOn(r)
    PROVE  FlowTypes' /\ DiskTypes' /\ StoreTypes'
<1> USE TypesAreParts
<1>a. FlowTypes'
  <2> USE DEF flow, operation, cache, worker, paths, disk, api, store, unmoved, Goto, Step, Conclude
  <2>1. CASE CheckTryOn(r)
    BY <2>1 DEF CheckTryOn, FlowTypes, Threads, Results, Answers, TryOnSteps
  <2>2. CASE Materialize(r, "person", "garment")
    BY <2>2 DEF Materialize, FlowTypes, Threads, Results, Answers, TryOnSteps
  <2>3. CASE Materialize(r, "garment", "ready")
    BY <2>3 DEF Materialize, FlowTypes, Threads, Results, Answers, TryOnSteps
  <2>4. CASE SubmitTryOn(r)
    BY <2>4 DEF SubmitTryOn, Submit, FlowTypes, Threads, Results, Answers, TryOnSteps
  <2>5. CASE AwaitTryOn(r)
    BY <2>5 DEF AwaitTryOn, FlowTypes, Threads, Results, Answers, TryOnSteps
  <2>6. CASE TryOnTimeout(r)
    BY <2>6 DEF TryOnTimeout, Abandon, FlowTypes, Threads, Results, Answers, TryOnSteps
  <2>7. CASE WriteSidecar(r)
    BY <2>7 DEF WriteSidecar, FlowTypes, Threads, Results, Answers, TryOnSteps
  <2>8. CASE StoreArtifacts(r)
    BY <2>8 DEF StoreArtifacts, SkipStorage, Persist, PersistFails, PersistErrors, FlowTypes, Threads, Results, Answers,
       TryOnSteps
  <2>9. CASE RemoveLocal(r)
    BY <2>9 DEF RemoveLocal, FlowTypes, Threads, Results, Answers, TryOnSteps
  <2>10. CASE ChargeTryOn(r)
    BY <2>10 DEF ChargeTryOn, FlowTypes, Threads, Results, Answers, TryOnSteps
  <2>11. CASE CleanUp(r)
    BY <2>11 DEF CleanUp, FlowTypes, Threads, Results, Answers, TryOnSteps
  <2> QED
    BY <2>1, <2>2, <2>3, <2>4, <2>5, <2>6, <2>7, <2>8, <2>9, <2>10, <2>11 DEF TryOn
<1>b. DiskTypes'
  <2> USE DEF flow, operation, cache, worker, paths, disk, api, store, unmoved, Goto, Step, Conclude
  <2>1. CASE CheckTryOn(r)
    BY <2>1 DEF CheckTryOn, DiskTypes, Roles
  <2>2. CASE Materialize(r, "person", "garment")
    BY <2>2 DEF Materialize, DiskTypes, Roles
  <2>3. CASE Materialize(r, "garment", "ready")
    BY <2>3 DEF Materialize, DiskTypes, Roles
  <2>4. CASE SubmitTryOn(r)
    BY <2>4 DEF SubmitTryOn, Submit, DiskTypes, Roles
  <2>5. CASE AwaitTryOn(r)
    BY <2>5 DEF AwaitTryOn, DiskTypes, Roles
  <2>6. CASE TryOnTimeout(r)
    BY <2>6 DEF TryOnTimeout, Abandon, DiskTypes, Roles
  <2>7. CASE WriteSidecar(r)
    BY <2>7 DEF WriteSidecar, DiskTypes, Roles
  <2>8. CASE StoreArtifacts(r)
    BY <2>8 DEF StoreArtifacts, SkipStorage, Persist, PersistFails, PersistErrors, DiskTypes, Roles
  <2>9. CASE RemoveLocal(r)
    BY <2>9 DEF RemoveLocal, DiskTypes, Roles
  <2>10. CASE ChargeTryOn(r)
    BY <2>10 DEF ChargeTryOn, DiskTypes, Roles
  <2>11. CASE CleanUp(r)
    BY <2>11 DEF CleanUp, DiskTypes, Roles
  <2> QED
    BY <2>1, <2>2, <2>3, <2>4, <2>5, <2>6, <2>7, <2>8, <2>9, <2>10, <2>11 DEF TryOn
<1>c. StoreTypes'
  <2> USE DEF flow, operation, cache, worker, paths, disk, api, store, unmoved, Goto, Step, Conclude
  <2>1. CASE CheckTryOn(r)
    BY <2>1 DEF CheckTryOn, StoreTypes, DiskTypes
  <2>2. CASE Materialize(r, "person", "garment")
    BY <2>2 DEF Materialize, StoreTypes, DiskTypes
  <2>3. CASE Materialize(r, "garment", "ready")
    BY <2>3 DEF Materialize, StoreTypes, DiskTypes
  <2>4. CASE SubmitTryOn(r)
    BY <2>4 DEF SubmitTryOn, Submit, StoreTypes, DiskTypes
  <2>5. CASE AwaitTryOn(r)
    BY <2>5 DEF AwaitTryOn, StoreTypes, DiskTypes
  <2>6. CASE TryOnTimeout(r)
    BY <2>6 DEF TryOnTimeout, Abandon, StoreTypes, DiskTypes
  <2>7. CASE WriteSidecar(r)
    BY <2>7 DEF WriteSidecar, StoreTypes, DiskTypes
  <2>8. CASE StoreArtifacts(r)
    <3>1. CASE SkipStorage(r) \/ PersistFails(r)
      BY <2>8, <3>1 DEF StoreArtifacts, SkipStorage, PersistFails, StoreTypes
    <3>2. CASE Persist(r)
      <4>0. stored[r] \in 0..7 /\ stored' = [stored EXCEPT ![r] = stored[r] + 1]
        BY <3>2 DEF Persist, StoredInOrder, StoringOf
      <4>1. stored' \in [Requests -> 0..8]
        BY <4>0 DEF StoreTypes
      <4>2. slot[r] \in Slots /\ Place(r)[2] \in Artifacts /\ Place(r) \in Slots \X Artifacts
        BY <4>0, PlaceOf DEF DiskTypes
      <4>3. Source(r) \subseteq Requests
        BY <4>2 DEF Source, DiskTypes
      <4>4. objects' \in [Slots \X Artifacts -> SUBSET Requests] /\ rows' \subseteq Requests \X Artifacts
        BY <3>2, <4>2, <4>3 DEF Persist, StoreTypes
      <4> QED
        BY <2>8, <4>1, <4>4 DEF StoreArtifacts, StoreTypes
    <3> QED
      BY <2>8, <3>1, <3>2 DEF StoreArtifacts
  <2>9. CASE RemoveLocal(r)
    BY <2>9 DEF RemoveLocal, StoreTypes, DiskTypes
  <2>10. CASE ChargeTryOn(r)
    BY <2>10 DEF ChargeTryOn, StoreTypes, DiskTypes
  <2>11. CASE CleanUp(r)
    BY <2>11 DEF CleanUp, StoreTypes, DiskTypes
  <2> QED
    BY <2>1, <2>2, <2>3, <2>4, <2>5, <2>6, <2>7, <2>8, <2>9, <2>10, <2>11 DEF TryOn
<1> QED
  BY <1>a, <1>b, <1>c

LEMMA ServeTypes ==
    ASSUME TypeOK, NEW r \in Requests, Serve(r)
    PROVE  thread' \in [Requests -> Threads] /\ result' \in [Requests -> Results] /\ WorkerTypes' /\ DiskTypes'
<1> USE TypesAreParts
<1>a. thread' \in [Requests -> Threads] /\ result' \in [Requests -> Results]
  <2> USE DEF flow, operation, cache, worker, paths, disk, api, store, unmoved, Goto, Step, Conclude
  <2>1. CASE BeginRequest(r)
    BY <2>1 DEF BeginRequest, PostGoes, FlowTypes, Threads, Results
  <2>2. CASE CheckMemory(r)
    BY <2>2 DEF CheckMemory, Fails, FlowTypes, Threads, Results
  <2>3. CASE TakeLock(r)
    BY <2>3 DEF TakeLock, PostGoes, FlowTypes, Threads, Results
  <2>4. CASE LoadPipeline(r)
    BY <2>4 DEF LoadPipeline, Fails, FlowTypes, Threads, Results
  <2>5. CASE ReadImages(r)
    BY <2>5 DEF ReadImages, Fails, FlowTypes, Threads, Results
  <2>6. CASE WriteImage(r)
    BY <2>6 DEF WriteImage, Fails, FlowTypes, Threads, Results
  <2>7. CASE WriteReport(r)
    BY <2>7 DEF WriteReport, Fails, FlowTypes, Threads, Results
  <2>8. CASE FinishRequest(r)
    BY <2>8 DEF FinishRequest, PostGoes, FlowTypes, Threads, Results
  <2>9. CASE Reply(r)
    BY <2>9 DEF Reply, PostGoes, Finish, FlowTypes, Threads, Results
  <2>10. CASE Refuse(r)
    BY <2>10 DEF Refuse, PostGoes, Finish, FlowTypes, Threads, Results
  <2> QED
    BY <2>1, <2>2, <2>3, <2>4, <2>5, <2>6, <2>7, <2>8, <2>9, <2>10 DEF Serve
<1>b. WorkerTypes'
  <2> USE DEF flow, operation, cache, worker, paths, disk, api, store, unmoved, Goto, Step, Conclude
  <2>1. CASE BeginRequest(r)
    BY <2>1 DEF BeginRequest, PostGoes, WorkerTypes, Posts, Lowered
  <2>2. CASE CheckMemory(r)
    BY <2>2 DEF CheckMemory, Fails, WorkerTypes, Posts, Lowered
  <2>3. CASE TakeLock(r)
    BY <2>3 DEF TakeLock, PostGoes, WorkerTypes, Posts, Lowered
  <2>4. CASE LoadPipeline(r)
    <3>1. post' \in [Requests -> Posts]
      BY <2>4 DEF LoadPipeline, Fails, WorkerTypes, Posts
    <3>2. gauge' \in Nat /\ holder' \subseteq Requests /\ starved' \subseteq Requests
      BY <2>4 DEF LoadPipeline, Fails, WorkerTypes, Lowered
    <3> QED
      BY <2>4, <3>1, <3>2 DEF LoadPipeline, WorkerTypes
  <2>5. CASE ReadImages(r)
    BY <2>5 DEF ReadImages, Fails, WorkerTypes, Posts, Lowered
  <2>6. CASE WriteImage(r)
    BY <2>6 DEF WriteImage, Fails, WorkerTypes, Posts, Lowered
  <2>7. CASE WriteReport(r)
    BY <2>7 DEF WriteReport, Fails, WorkerTypes, Posts, Lowered
  <2>8. CASE FinishRequest(r)
    BY <2>8 DEF FinishRequest, PostGoes, WorkerTypes, Posts, Lowered
  <2>9. CASE Reply(r)
    BY <2>9 DEF Reply, PostGoes, Finish, WorkerTypes, Posts, Lowered
  <2>10. CASE Refuse(r)
    BY <2>10 DEF Refuse, PostGoes, Finish, WorkerTypes, Posts, Lowered
  <2> QED
    BY <2>1, <2>2, <2>3, <2>4, <2>5, <2>6, <2>7, <2>8, <2>9, <2>10 DEF Serve
<1>c. DiskTypes'
  <2> USE DEF flow, operation, cache, worker, paths, disk, api, store, unmoved, Goto, Step, Conclude
  <2>1. CASE BeginRequest(r)
    BY <2>1 DEF BeginRequest, PostGoes, DiskTypes
  <2>2. CASE CheckMemory(r)
    BY <2>2 DEF CheckMemory, Fails, DiskTypes
  <2>3. CASE TakeLock(r)
    BY <2>3 DEF TakeLock, PostGoes, DiskTypes
  <2>4. CASE LoadPipeline(r)
    BY <2>4 DEF LoadPipeline, Fails, DiskTypes
  <2>5. CASE ReadImages(r)
    BY <2>5 DEF ReadImages, Fails, DiskTypes
  <2>6. CASE WriteImage(r)
    BY <2>6 DEF WriteImage, Fails, DiskTypes
  <2>7. CASE WriteReport(r)
    BY <2>7 DEF WriteReport, Fails, DiskTypes
  <2>8. CASE FinishRequest(r)
    BY <2>8 DEF FinishRequest, PostGoes, DiskTypes
  <2>9. CASE Reply(r)
    BY <2>9 DEF Reply, PostGoes, Finish, DiskTypes
  <2>10. CASE Refuse(r)
    BY <2>10 DEF Refuse, PostGoes, Finish, DiskTypes
  <2> QED
    BY <2>1, <2>2, <2>3, <2>4, <2>5, <2>6, <2>7, <2>8, <2>9, <2>10 DEF Serve
<1> QED
  BY <1>a, <1>b, <1>c

\* A step keeps the types.
LEMMA TypeOKStep ==
    ASSUME TypeOK, Asked, FlowKnown, StoredInOrder, [Next]_vars
    PROVE  TypeOK'
<1> USE TypesAreParts DEF flow, operation, cache, worker, paths, disk, api, store, unmoved
<1>0. TypeOK' <=> FlowTypes' /\ CacheTypes' /\ WorkerTypes' /\ DiskTypes' /\ StoreTypes'
  BY DEF TypeOK, FlowTypes, CacheTypes, WorkerTypes, DiskTypes, StoreTypes
<1>1. ASSUME NEW r \in Requests, Admit(r) PROVE TypeOK'
  <2>1. FlowTypes'
    BY <1>1 DEF Admit, EarlyRefusals, FlowTypes, Goto, Step, Conclude, Answers, GenerationSteps,
       TryOnSteps
  <2>2. CacheTypes' /\ WorkerTypes' /\ DiskTypes' /\ StoreTypes'
    BY <1>1 DEF Admit, CacheTypes, WorkerTypes, DiskTypes, StoreTypes
  <2> QED
    BY <1>0, <2>1, <2>2
<1>2. ASSUME NEW r \in Requests, Generate(r) PROVE TypeOK'
  <2>1. WorkerTypes' /\ DiskTypes' /\ StoreTypes'
    BY <1>2, GenerateTypes, GenerateFrame DEF WorkerTypes, DiskTypes, StoreTypes
  <2> QED
    BY <1>0, <1>2, <2>1, GenerateTypes
<1>3. ASSUME NEW r \in Requests, TryOn(r) PROVE TypeOK'
  <2>1. CacheTypes' /\ WorkerTypes'
    BY <1>3, TryOnFrame DEF CacheTypes, WorkerTypes
  <2> QED
    BY <1>0, <1>3, <2>1, TryOnTypes
<1>4. ASSUME NEW r \in Requests, RunGeneration(r) PROVE TypeOK'
  <2>1. FlowTypes'
    BY <1>4 DEF RunGeneration, Start, Finish, FlowTypes, Threads, Results
  <2>2. CacheTypes' /\ WorkerTypes' /\ DiskTypes' /\ StoreTypes'
    BY <1>4 DEF RunGeneration, CacheTypes, WorkerTypes, DiskTypes, StoreTypes
  <2> QED
    BY <1>0, <2>1, <2>2
<1>5. ASSUME NEW r \in Requests, CallWorker(r) PROVE TypeOK'
  <2>1. FlowTypes' /\ WorkerTypes'
    BY <1>5 DEF CallWorker, Start, PostGoes, FlowTypes, WorkerTypes, Threads, Posts
  <2>2. CacheTypes' /\ DiskTypes' /\ StoreTypes'
    BY <1>5 DEF CallWorker, CacheTypes, DiskTypes, StoreTypes
  <2> QED
    BY <1>0, <2>1, <2>2
<1>6. ASSUME NEW r \in Requests, CallFails(r) PROVE TypeOK'
  <2>1. FlowTypes'
    BY <1>6 DEF CallFails, Finish, FlowTypes, Threads, Results
  <2>2. CacheTypes' /\ WorkerTypes' /\ DiskTypes' /\ StoreTypes'
    BY <1>6 DEF CallFails, CacheTypes, WorkerTypes, DiskTypes, StoreTypes
  <2> QED
    BY <1>0, <2>1, <2>2
<1>7. ASSUME NEW r \in Requests, Serve(r), UNCHANGED <<cache, api, store>> PROVE TypeOK'
  <2>1. FlowTypes' /\ CacheTypes' /\ StoreTypes'
    BY <1>7, ServeFrame, ServeTypes DEF FlowTypes, CacheTypes, StoreTypes
  <2> QED
    BY <1>0, <1>7, <2>1, ServeTypes
<1>8. CASE StopWorker
  <2>1. WorkerTypes'
    <3>1. post' \in [Requests -> Posts]
      BY <1>8 DEF StopWorker, Stop, Posts
    <3>2. stops' \in 0..MaxStops
      BY <1>8 DEF StopWorker, Stop, WorkerTypes
    <3> QED
      BY <1>8, <3>1, <3>2 DEF StopWorker, Stop, WorkerTypes
  <2>2. FlowTypes' /\ CacheTypes' /\ DiskTypes' /\ StoreTypes'
    BY <1>8 DEF StopWorker, Stop, FlowTypes, CacheTypes, DiskTypes, StoreTypes
  <2> QED
    BY <1>0, <2>1, <2>2
<1>9. CASE UNCHANGED vars
  BY <1>9 DEF vars, TypeOK
<1> QED
  BY <1>1, <1>2, <1>3, <1>4, <1>5, <1>6, <1>7, <1>8, <1>9 DEF Next, Handle, Work

\* What the other requests are at says all of them that it did.
LEMMA FlowOfOthers ==
    ASSUME FlowKnown, NEW r \in Requests, UNCHANGED ask, charged \subseteq charged',
           \A q \in Requests \ {r} :
               /\ at'[q] = at[q] /\ answer'[q] = answer[q]
               /\ thread'[q] = thread[q] /\ result'[q] = result[q] /\ post'[q] = post[q],
           FlowOf(r)'
    PROVE  FlowKnown'
<1> SUFFICES ASSUME NEW q \in Requests \ {r} PROVE FlowOf(q)'
  BY DEF FlowKnown
<1> QED
  BY DEF FlowKnown, FlowOf, Kind

\* What a generation and a try-on do for where they are.
LEMMA GenerateFlow ==
    ASSUME TypeOK, FlowKnown, NEW r \in Requests, Generate(r)
    PROVE  FlowOf(r)'
<1> USE TypesAreParts
<1> USE DEF flow, operation, cache, worker, paths, disk, api, store, unmoved, Goto, Step, Conclude
<1>1. CASE ChargeGeneration(r)
  BY <1>1 DEF ChargeGeneration, FlowKnown, FlowOf, FlowTypes, StoreTypes, GenerationSteps,
     TryOnSteps, Unsubmitted, Awaiting, Settling, Kind
<1>2. CASE CheckCacheConfigured(r)
  BY <1>2 DEF CheckCacheConfigured, CacheAllowed, FlowKnown, FlowOf, FlowTypes, StoreTypes,
     GenerationSteps, TryOnSteps, Unsubmitted, Awaiting, Settling, Kind
<1>3. CASE LookUpCache(r)
  BY <1>3 DEF LookUpCache, Lookup, FlowKnown, FlowOf, FlowTypes, StoreTypes, GenerationSteps,
     TryOnSteps, Unsubmitted, Awaiting, Settling, Kind
<1>4. CASE GetGeneration(r)
  BY <1>4 DEF GetGeneration, FlowKnown, FlowOf, FlowTypes, StoreTypes, GenerationSteps,
     TryOnSteps, Unsubmitted, Awaiting, Settling, Kind
<1>5. CASE SubmitGeneration(r)
  BY <1>5 DEF SubmitGeneration, Submit, FlowKnown, FlowOf, FlowTypes, StoreTypes, GenerationSteps,
     TryOnSteps, Unsubmitted, Awaiting, Settling, Kind
<1>6. CASE AwaitGeneration(r)
  BY <1>6 DEF AwaitGeneration, Generates, Submit, FlowKnown, FlowOf, FlowTypes, StoreTypes,
     GenerationSteps, TryOnSteps, Unsubmitted, Awaiting, Settling, Kind
<1>7. CASE GenerationTimeout(r)
  BY <1>7 DEF GenerationTimeout, Generates, Abandon, FlowKnown, FlowOf, FlowTypes, StoreTypes,
     GenerationSteps, TryOnSteps, Unsubmitted, Awaiting, Settling, Kind
<1>8. CASE GuardOutput(r)
  BY <1>8 DEF GuardOutput, CacheAllowed, FlowKnown, FlowOf, FlowTypes, StoreTypes,
     GenerationSteps, TryOnSteps, Unsubmitted, Awaiting, Settling, Kind
<1>9. CASE PutGeneration(r)
  BY <1>9 DEF PutGeneration, FilterList, Rebind, Load, AppendEntry, Measure, Slice, Trim,
     FlowKnown, FlowOf, FlowTypes, StoreTypes, GenerationSteps, TryOnSteps, Unsubmitted, Awaiting,
     Settling, Kind
<1>10. CASE SendGeneration(r)
  BY <1>10 DEF SendGeneration, FlowKnown, FlowOf, FlowTypes, StoreTypes, GenerationSteps,
     TryOnSteps, Unsubmitted, Awaiting, Settling, Kind
<1> QED
  BY <1>1, <1>2, <1>3, <1>4, <1>5, <1>6, <1>7, <1>8, <1>9, <1>10 DEF Generate

LEMMA TryOnFlow ==
    ASSUME TypeOK, FlowKnown, NEW r \in Requests, TryOn(r)
    PROVE  FlowOf(r)'
<1> USE TypesAreParts
<1> USE DEF flow, operation, cache, worker, paths, disk, api, store, unmoved, Goto, Step, Conclude
<1>1. CASE CheckTryOn(r)
  BY <1>1 DEF CheckTryOn, FlowKnown, FlowOf, FlowTypes, GenerationSteps, TryOnSteps, Unsubmitted,
     Awaiting, Settling, Kind
<1>2. CASE Materialize(r, "person", "garment")
  BY <1>2 DEF Materialize, FlowKnown, FlowOf, FlowTypes, GenerationSteps, TryOnSteps, Unsubmitted,
     Awaiting, Settling, Kind
<1>3. CASE Materialize(r, "garment", "ready")
  BY <1>3 DEF Materialize, FlowKnown, FlowOf, FlowTypes, GenerationSteps, TryOnSteps, Unsubmitted,
     Awaiting, Settling, Kind
<1>4. CASE SubmitTryOn(r)
  BY <1>4 DEF SubmitTryOn, Submit, FlowKnown, FlowOf, FlowTypes, GenerationSteps, TryOnSteps,
     Unsubmitted, Awaiting, Settling, Kind
<1>5. CASE AwaitTryOn(r)
  BY <1>5 DEF AwaitTryOn, FlowKnown, FlowOf, FlowTypes, GenerationSteps, TryOnSteps, Unsubmitted,
     Awaiting, Settling, Kind
<1>6. CASE TryOnTimeout(r)
  BY <1>6 DEF TryOnTimeout, Abandon, FlowKnown, FlowOf, FlowTypes, GenerationSteps, TryOnSteps,
     Unsubmitted, Awaiting, Settling, Kind
<1>7. CASE WriteSidecar(r)
  BY <1>7 DEF WriteSidecar, FlowKnown, FlowOf, FlowTypes, GenerationSteps, TryOnSteps,
     Unsubmitted, Awaiting, Settling, Kind
<1>8. CASE StoreArtifacts(r)
  BY <1>8 DEF StoreArtifacts, SkipStorage, Persist, PersistFails, PersistErrors, FlowKnown, FlowOf, FlowTypes,
     GenerationSteps, TryOnSteps, Unsubmitted, Awaiting, Settling, Kind
<1>9. CASE RemoveLocal(r)
  BY <1>9 DEF RemoveLocal, FlowKnown, FlowOf, FlowTypes, GenerationSteps, TryOnSteps, Unsubmitted,
     Awaiting, Settling, Kind
<1>10. CASE ChargeTryOn(r)
  BY <1>10 DEF ChargeTryOn, FlowKnown, FlowOf, FlowTypes, GenerationSteps, TryOnSteps,
     Unsubmitted, Awaiting, Settling, Kind
<1>11. CASE CleanUp(r)
  BY <1>11 DEF CleanUp, FlowKnown, FlowOf, FlowTypes, GenerationSteps, TryOnSteps, Unsubmitted,
     Awaiting, Settling, Kind
<1> QED
  BY <1>1, <1>2, <1>3, <1>4, <1>5, <1>6, <1>7, <1>8, <1>9, <1>10, <1>11 DEF TryOn

\* A step keeps what is known of where the requests are.
LEMMA FlowKnownStep ==
    ASSUME TypeOK, Asked, FlowKnown, [Next]_vars
    PROVE  FlowKnown'
<1> USE DEF flow, operation, cache, worker, paths, disk, api, store, unmoved
<1>1. ASSUME NEW r \in Requests, Admit(r) PROVE FlowKnown'
  <2>1. /\ UNCHANGED <<ask, charged, thread, result, post>>
        /\ \A q \in Requests \ {r} : at'[q] = at[q] /\ answer'[q] = answer[q]
    BY <1>1 DEF Admit, Step, Conclude, Goto, TypeOK
  <2>2. FlowOf(r)'
    BY <1>1 DEF Admit, Asked, Ask, Step, Conclude, Goto, TypeOK, FlowKnown, FlowOf, Kind,
           GenerationSteps, TryOnSteps, Unsubmitted, Awaiting, Settling
  <2> QED
    BY <2>1, <2>2, FlowOfOthers
<1>2. ASSUME NEW r \in Requests, Generate(r) PROVE FlowKnown'
  BY <1>2, GenerateFrame, GenerateFlow, FlowOfOthers
<1>3. ASSUME NEW r \in Requests, TryOn(r) PROVE FlowKnown'
  BY <1>3, TryOnFrame, TryOnFlow, FlowOfOthers
<1>4. ASSUME NEW r \in Requests, Work(r) PROVE FlowKnown'
  <2>1. FlowOf(r)'
    BY <1>4, WorkFrame DEF FlowKnown, FlowOf, Kind, Unsubmitted, Awaiting
  <2> QED
    BY <1>4, <2>1, WorkFrame, FlowOfOthers
<1>5. CASE StopWorker
  BY <1>5 DEF StopWorker, Stop, FlowKnown, FlowOf, Kind
<1>6. CASE UNCHANGED vars
  BY <1>6 DEF vars, FlowKnown, FlowOf, Kind
<1> QED
  BY <1>1, <1>2, <1>3, <1>4, <1>5, <1>6 DEF Next, Handle

\* What was asked never changes.
LEMMA AskedStep ==
    ASSUME TypeOK, Asked, SameStorage, [Next]_vars
    PROVE  Asked' /\ SameStorage'
<1>1. UNCHANGED ask
  BY GenerateFrame, TryOnFrame, WorkFrame
     DEF Next, Handle, Admit, StopWorker, vars, api
<1> QED
  BY <1>1 DEF Asked, SameStorage

\* Only a try-on touches inputs, and removes its own before it is done.
LEMMA TryOnInputs ==
    ASSUME TypeOK, FlowKnown, InputsKept, NEW r \in Requests, TryOn(r)
    PROVE  /\ at'[r] # "done" => HasInputs(r)'
           /\ at'[r] = "done" /\ thread'[r] # "none" => \A role \in Roles : <<r, role>> \notin inputs'
           /\ at'[r] \notin GenerationSteps \union {"arrived"}
<1> USE TypesAreParts
<1> USE DEF flow, operation, cache, worker, paths, disk, api, store, unmoved, Goto, Step, Conclude
<1>1. CASE CheckTryOn(r)
  BY <1>1 DEF CheckTryOn, InputsKept, HasInputs, FlowKnown, FlowOf, FlowTypes, DiskTypes,
     Unsubmitted, Roles, GenerationSteps, Settling
<1>2. CASE Materialize(r, "person", "garment")
  BY <1>2 DEF Materialize, InputsKept, HasInputs, FlowKnown, FlowOf, FlowTypes, DiskTypes,
     Unsubmitted, Roles, GenerationSteps, Settling
<1>3. CASE Materialize(r, "garment", "ready")
  BY <1>3 DEF Materialize, InputsKept, HasInputs, FlowKnown, FlowOf, FlowTypes, DiskTypes,
     Unsubmitted, Roles, GenerationSteps, Settling
<1>4. CASE SubmitTryOn(r)
  BY <1>4 DEF SubmitTryOn, Submit, InputsKept, HasInputs, FlowKnown, FlowOf, FlowTypes, DiskTypes,
     Unsubmitted, Roles, GenerationSteps, Settling
<1>5. CASE AwaitTryOn(r)
  BY <1>5 DEF AwaitTryOn, InputsKept, HasInputs, FlowKnown, FlowOf, FlowTypes, DiskTypes,
     Unsubmitted, Roles, GenerationSteps, Settling
<1>6. CASE TryOnTimeout(r)
  BY <1>6 DEF TryOnTimeout, Abandon, InputsKept, HasInputs, FlowKnown, FlowOf, FlowTypes,
     DiskTypes, Unsubmitted, Roles, GenerationSteps, Settling
<1>7. CASE WriteSidecar(r)
  <2>1. /\ UNCHANGED <<inputs, fetched>>
        /\ at[r] = "reporting" /\ at'[r] \in {"storing", "cleaning"}
    BY <1>7 DEF WriteSidecar, FlowTypes
  <2> QED
    BY <2>1 DEF InputsKept, HasInputs, GenerationSteps, Settling
<1>8. CASE StoreArtifacts(r)
  BY <1>8 DEF StoreArtifacts, SkipStorage, Persist, PersistFails, PersistErrors, InputsKept, HasInputs, FlowKnown, FlowOf,
     FlowTypes, DiskTypes, Unsubmitted, Roles, GenerationSteps, Settling
<1>9. CASE RemoveLocal(r)
  BY <1>9 DEF RemoveLocal, InputsKept, HasInputs, FlowKnown, FlowOf, FlowTypes, DiskTypes,
     Unsubmitted, Roles, GenerationSteps, Settling
<1>10. CASE ChargeTryOn(r)
  BY <1>10 DEF ChargeTryOn, InputsKept, HasInputs, FlowKnown, FlowOf, FlowTypes, DiskTypes,
     Unsubmitted, Roles, GenerationSteps, Settling
<1>11. CASE CleanUp(r)
  BY <1>11 DEF CleanUp, InputsKept, HasInputs, FlowKnown, FlowOf, FlowTypes, DiskTypes,
     Unsubmitted, Roles, GenerationSteps, Settling
<1> QED
  BY <1>1, <1>2, <1>3, <1>4, <1>5, <1>6, <1>7, <1>8, <1>9, <1>10, <1>11 DEF TryOn

\* A step keeps what is known of the inputs.
LEMMA InputsKeptStep ==
    ASSUME TypeOK, FlowKnown, InputsKept, [Next]_vars
    PROVE  InputsKept'
<1> USE DEF flow, operation, cache, worker, paths, disk, api, store, unmoved
<1>1. ASSUME NEW r \in Requests, Admit(r) PROVE InputsKept'
  <2>1. /\ UNCHANGED <<fetched, inputs, thread>>
        /\ at[r] = "arrived"
        /\ \E to \in {"done", "charging", "checking"} : at' = [at EXCEPT ![r] = to]
    BY <1>1 DEF Admit, Step, Conclude, Goto
  <2>2. thread[r] = "none"
    BY <2>1 DEF FlowKnown, FlowOf, Unsubmitted
  <2>3. at'[r] \in {"done", "charging", "checking"} /\ \A q \in Requests \ {r} : at'[q] = at[q]
    BY <2>1 DEF TypeOK
  <2> QED
    BY <2>1, <2>2, <2>3 DEF InputsKept, InputsRemoved, HasInputs, GenerationSteps, Settling
<1>2. ASSUME NEW r \in Requests, Generate(r) PROVE InputsKept'
  <2>1. /\ UNCHANGED <<fetched, inputs>>
        /\ at[r] \in GenerationSteps /\ at'[r] \in GenerationSteps \union {"done"}
        /\ \A q \in Requests \ {r} : at'[q] = at[q] /\ thread'[q] = thread[q]
    BY <1>2, GenerateFrame
  <2> QED
    BY <2>1 DEF InputsKept, InputsRemoved, HasInputs, GenerationSteps, Settling
<1>3. ASSUME NEW r \in Requests, TryOn(r) PROVE InputsKept'
  <2>1. \A q \in Requests \ {r} :
            /\ at'[q] = at[q] /\ thread'[q] = thread[q] /\ fetched'[q] = fetched[q]
            /\ \A role : <<q, role>> \in inputs' <=> <<q, role>> \in inputs
    BY <1>3, TryOnFrame
  <2> QED
    BY <1>3, <2>1, TryOnInputs DEF InputsKept, InputsRemoved, HasInputs
<1>4. ASSUME NEW r \in Requests, Work(r) PROVE InputsKept'
  <2>1. /\ UNCHANGED <<at, fetched, inputs>>
        /\ \A q \in Requests : thread[q] = "none" => thread'[q] = "none"
    BY <1>4, WorkFrame
  <2> QED
    BY <2>1 DEF InputsKept, InputsRemoved, HasInputs
<1>5. CASE StopWorker
  BY <1>5 DEF StopWorker, Stop, InputsKept, InputsRemoved, HasInputs
<1>6. CASE UNCHANGED vars
  BY <1>6 DEF vars, InputsKept, InputsRemoved, HasInputs
<1> QED
  BY <1>1, <1>2, <1>3, <1>4, <1>5, <1>6 DEF Next, Handle

\* A step of a try-on that stores nothing new.
LEMMA TryOnStored ==
    ASSUME TypeOK, FlowKnown, StoredInOrder, NEW r \in Requests, TryOn(r),
           StoreArtifacts(r) => ~Persist(r)
    PROVE  /\ UNCHANGED store
           /\ \A s \in Slots : output'[s] \in {output[s], {}}
           /\ ~Stores(r) => output' = output
           /\ at'[r] \notin {"storing", "removing", "paying", "cleaning", "done"} =>
                  at[r] \notin {"storing", "removing", "paying", "cleaning", "done"}
           /\ at'[r] = "storing" => at[r] = "reporting"
           /\ Stores(r) /\ at'[r] \in {"removing", "paying"} => at[r] = "removing"
           /\ answer'[r] = answer[r] \/ answer'[r] # "completed" \/ at[r] = "paying"
<1> USE TypesAreParts
<1> USE DEF flow, operation, cache, worker, paths, disk, api, store, unmoved, Goto, Step, Conclude
<1>1. CASE CheckTryOn(r)
  BY <1>1 DEF CheckTryOn, FlowTypes, DiskTypes, Stores
<1>2. CASE Materialize(r, "person", "garment")
  BY <1>2 DEF Materialize, FlowTypes, DiskTypes, Stores
<1>3. CASE Materialize(r, "garment", "ready")
  BY <1>3 DEF Materialize, FlowTypes, DiskTypes, Stores
<1>4. CASE SubmitTryOn(r)
  BY <1>4 DEF SubmitTryOn, Submit, FlowTypes, DiskTypes, Stores
<1>5. CASE AwaitTryOn(r)
  BY <1>5 DEF AwaitTryOn, FlowTypes, DiskTypes, Stores
<1>6. CASE TryOnTimeout(r)
  BY <1>6 DEF TryOnTimeout, Abandon, FlowTypes, DiskTypes, Stores
<1>7. CASE WriteSidecar(r)
  BY <1>7 DEF WriteSidecar, FlowTypes, DiskTypes, Stores
<1>8. CASE StoreArtifacts(r)
  BY <1>8 DEF StoreArtifacts, SkipStorage, Persist, PersistFails, PersistErrors, FlowTypes, DiskTypes, Stores
<1>9. CASE RemoveLocal(r)
  BY <1>9 DEF RemoveLocal, FlowTypes, DiskTypes, Stores
<1>10. CASE ChargeTryOn(r)
  BY <1>10 DEF ChargeTryOn, FlowTypes, DiskTypes, Stores
<1>11. CASE CleanUp(r)
  BY <1>11 DEF CleanUp, FlowTypes, DiskTypes, Stores
<1> QED
  BY <1>1, <1>2, <1>3, <1>4, <1>5, <1>6, <1>7, <1>8, <1>9, <1>10, <1>11 DEF TryOn

\* Whatever request of any slot puts an artifact, the others have lost nothing.
LEMMA PersistStores ==
    ASSUME TypeOK, FlowKnown, StoredInOrder, NEW r \in Requests, StoreArtifacts(r), Persist(r)
    PROVE  StoredInOrder'
<1> USE TypesAreParts DEF store, disk
<1>1. /\ stored[r] \in 0..7 /\ at[r] = "storing" /\ at'[r] \in {"storing", "removing"}
      /\ stored' = [stored EXCEPT ![r] = stored[r] + 1]
      /\ at'[r] = "removing" <=> stored[r] = 7
      /\ answer' = answer
      /\ \A q \in Requests \ {r} : at'[q] = at[q] /\ stored'[q] = stored[q]
  BY DEF Persist, StoredInOrder, StoringOf, Step, Goto, FlowTypes, StoreTypes
<1>2. PICK i \in 1..4 :
          /\ Place(r) = <<slot[r], Order[i]>> /\ Order[i] \in Artifacts
          /\ IsPut(r) => stored[r] = 2 * i - 2
          /\ ~IsPut(r) => stored[r] = 2 * i - 1
  BY <1>1, PlaceOf
<1>3. UNCHANGED <<ask, slot, output>>
  BY DEF StoreArtifacts, api, paths
<1>4. \A q \in Requests : slot[q] \in Slots
  BY DEF DiskTypes
<1>5. \A j \in 1..4 : Order[j] \in Artifacts
  BY DEF Order, Artifacts
<1>6. /\ \A s \in Slots, role \in Artifacts :
             /\ objects[<<s, role>>] # {} => objects'[<<s, role>>] # {}
             /\ \A q \in objects'[<<s, role>>] : slot[q] = s
      /\ stored'[r] >= 2 * i - 1 /\ objects'[<<slot[r], Order[i]>>] # {}
      /\ rows \subseteq rows'
      /\ \A row \in rows' \ rows : row = <<r, Order[i]>>
      /\ stored'[r] = 2 * i => <<r, Order[i]>> \in rows'
      /\ stored'[r] \in {2 * i - 1, 2 * i} /\ stored[r] = stored'[r] - 1
  <2>1. stored'[r] = stored[r] + 1 /\ \A o \in Slots \X Artifacts : objects[o] \subseteq Requests
    BY <1>1 DEF StoreTypes
  <2>2. CASE IsPut(r)
    <3>1. /\ Source(r) # {} /\ objects' = [objects EXCEPT ![<<slot[r], Order[i]>>] = Source(r)]
          /\ rows' = rows
      BY <1>2, <2>2 DEF Persist
    <3>2. \A q \in Source(r) : slot[q] = slot[r]
      BY <1>2, <1>4 DEF Source, StoredInOrder, OwnSlots
    <3>3. \A s \in Slots, role \in Artifacts :
              objects'[<<s, role>>] = IF s = slot[r] /\ role = Order[i] THEN Source(r) ELSE objects[<<s, role>>]
      BY <3>1 DEF StoreTypes
    <3>4. ASSUME NEW s \in Slots, NEW role \in Artifacts
          PROVE  /\ objects[<<s, role>>] # {} => objects'[<<s, role>>] # {}
                 /\ \A q \in objects'[<<s, role>>] : slot[q] = s
      <4>1. CASE s = slot[r] /\ role = Order[i]
        BY <3>1, <3>2, <3>3, <4>1
      <4>2. CASE ~(s = slot[r] /\ role = Order[i])
        BY <3>3, <4>2 DEF StoredInOrder, OwnSlots
      <4> QED
        BY <4>1, <4>2
    <3>5. objects'[<<slot[r], Order[i]>>] # {}
      BY <1>2, <1>4, <3>1, <3>3
    <3> QED
      BY <1>2, <2>1, <2>2, <3>1, <3>4, <3>5
  <2>3. CASE ~IsPut(r)
    <3>1. objects' = objects /\ rows' = rows \union {<<r, Order[i]>>}
      BY <1>2, <2>3 DEF Persist
    <3>2. StoredOf(r) /\ stored[r] = 2 * i - 1 /\ stored[r] >= 2 * i - 1
      BY <1>1, <1>2, <2>3 DEF StoredInOrder
    <3>3. objects[<<slot[r], Order[i]>>] # {}
      BY <1>2, <3>2 DEF StoredOf
    <3> QED
      BY <1>2, <2>1, <3>1, <3>2, <3>3 DEF StoredInOrder, OwnSlots
  <2> QED
    BY <2>2, <2>3
<1>7. \A s \in Slots : \A q \in output'[s] : slot'[q] = s
  BY <1>3 DEF StoredInOrder, OwnSlots
<1>8. \A s \in Slots, role \in Artifacts : \A q \in objects'[<<s, role>>] : slot'[q] = s
  BY <1>3, <1>6
<1>9. \A row \in rows' : objects'[<<slot'[row[1]], row[2]>>] # {}
  <2> SUFFICES ASSUME NEW row \in rows' PROVE objects'[<<slot[row[1]], row[2]>>] # {}
    BY <1>3
  <2>1. CASE row \in rows
    BY <1>4, <1>6, <2>1 DEF StoredInOrder, RowsAreBacked, StoreTypes
  <2>2. CASE row \notin rows
    BY <1>6, <2>2
  <2> QED
    BY <2>1, <2>2
<1>10. ASSUME NEW q \in Requests, NEW j \in 1..4
       PROVE  /\ stored'[q] >= 2 * j - 1 => objects'[<<slot'[q], Order[j]>>] # {}
              /\ stored'[q] >= 2 * j => <<q, Order[j]>> \in rows'
  <2>1. /\ stored[q] >= 2 * j - 1 => objects'[<<slot'[q], Order[j]>>] # {}
        /\ stored[q] >= 2 * j => <<q, Order[j]>> \in rows'
    BY <1>3, <1>4, <1>5, <1>6 DEF StoredInOrder, StoredOf
  <2>2. CASE q # r
    BY <1>1, <2>1, <2>2
  <2>3. CASE q = r /\ j = i
    BY <1>3, <1>6, <2>3
  <2>4. CASE q = r /\ j # i
    <3>1. stored'[q] \in {2 * i - 1, 2 * i} /\ stored[q] = stored'[q] - 1 /\ j # i
      BY <1>6, <2>4
    <3>2. /\ stored'[q] >= 2 * j - 1 => stored[q] >= 2 * j - 1
          /\ stored'[q] >= 2 * j => stored[q] >= 2 * j
      BY <3>1
    <3> QED
      BY <2>1, <3>2
  <2> QED
    BY <2>2, <2>3, <2>4
<1>11. ASSUME NEW q \in Requests
       PROVE  /\ at'[q] \notin {"storing", "removing", "paying", "cleaning", "done"} => stored'[q] = 0
              /\ at'[q] = "storing" => stored'[q] \in 0..7
              /\ Stores(q)' /\ at'[q] \in {"removing", "paying"} => stored'[q] = 8
              /\ Stores(q)' /\ Kind(q)' = "vton" /\ answer'[q] = "completed" => stored'[q] = 8
  <2>1. CASE q # r
    BY <1>1, <1>3, <2>1 DEF StoredInOrder, StoringOf, Stores, Kind
  <2>2. CASE q = r
    <3>1. answer[r] = "none"
      BY <1>1 DEF FlowKnown, FlowOf
    <3>2. stored'[r] = stored[r] + 1
      BY <1>1 DEF StoreTypes
    <3> QED
      BY <1>1, <2>2, <3>1, <3>2
  <2> QED
    BY <2>1, <2>2
<1> QED
  BY <1>7, <1>8, <1>9, <1>10, <1>11 DEF StoredInOrder, OwnSlots, RowsAreBacked, StoredOf, StoringOf

\* A step keeps the order in which artifacts and rows are stored.
LEMMA StoredInOrderStep ==
    ASSUME TypeOK, FlowKnown, StoredInOrder, [Next]_vars
    PROVE  StoredInOrder'
<1> USE TypesAreParts DEF flow, operation, cache, worker, paths, disk, api, store, unmoved
<1> USE DEF StoredInOrder
<1>0. ASSUME UNCHANGED <<ask, slot, store>>, NEW r \in Requests,
             \A q \in Requests \ {r} : at'[q] = at[q] /\ answer'[q] = answer[q],
             StoringOf(r)', OwnSlots'
      PROVE  StoredInOrder'
  <2>1. \A q \in Requests \ {r} : StoringOf(q)'
    BY <1>0 DEF StoringOf, Stores, Kind
  <2>2. RowsAreBacked' /\ \A q \in Requests : StoredOf(q)'
    BY <1>0 DEF RowsAreBacked, StoredOf
  <2> QED
    BY <1>0, <2>1, <2>2
<1>1. ASSUME NEW r \in Requests, Admit(r) PROVE StoredInOrder'
  <2>1. /\ UNCHANGED <<ask, slot, disk, store>>
        /\ at[r] = "arrived" /\ at'[r] \in {"charging", "checking", "done"} /\ answer'[r] # "completed"
        /\ \A q \in Requests \ {r} : at'[q] = at[q] /\ answer'[q] = answer[q]
    BY <1>1 DEF Admit, Step, Conclude, Goto, FlowTypes, EarlyRefusals, FlowKnown, FlowOf
  <2>2. StoringOf(r)' /\ OwnSlots'
    BY <2>1 DEF StoringOf, Stores, OwnSlots
  <2> QED
    BY <1>0, <2>1, <2>2
<1>2. ASSUME NEW r \in Requests, Generate(r) PROVE StoredInOrder'
  <2>1. /\ UNCHANGED <<ask, slot, disk, store>>
        /\ at[r] \in GenerationSteps /\ at'[r] \in GenerationSteps \union {"done"}
        /\ \A q \in Requests \ {r} : at'[q] = at[q] /\ answer'[q] = answer[q]
    BY <1>2, GenerateFrame
  <2>2. Kind(r) = "llm"
    BY <2>1 DEF FlowKnown, FlowOf
  <2>3. StoringOf(r)' /\ OwnSlots'
    BY <2>1, <2>2 DEF StoringOf, Stores, OwnSlots, GenerationSteps, Settling, Kind
  <2> QED
    BY <1>0, <2>1, <2>3
<1>3. ASSUME NEW r \in Requests, StoreArtifacts(r), Persist(r) PROVE StoredInOrder'
  BY <1>3, PersistStores
<1>4. ASSUME NEW r \in Requests, TryOn(r), StoreArtifacts(r) => ~Persist(r) PROVE StoredInOrder'
  <2>1. UNCHANGED <<ask, slot>> /\ \A q \in Requests \ {r} : at'[q] = at[q] /\ answer'[q] = answer[q]
    BY <1>4, TryOnFrame
  <2>2. /\ UNCHANGED store
        /\ \A s \in Slots : output'[s] \in {output[s], {}}
        /\ at'[r] \notin {"storing", "removing", "paying", "cleaning", "done"} =>
               at[r] \notin {"storing", "removing", "paying", "cleaning", "done"}
        /\ at'[r] = "storing" => at[r] = "reporting"
        /\ Stores(r) /\ at'[r] \in {"removing", "paying"} => at[r] = "removing"
        /\ answer'[r] = answer[r] \/ answer'[r] # "completed" \/ at[r] = "paying"
    BY <1>4, TryOnStored
  <2>3. StoringOf(r)' /\ OwnSlots'
    BY <2>1, <2>2 DEF StoringOf, Stores, OwnSlots, Kind
  <2> QED
    BY <1>0, <2>1, <2>2, <2>3
<1>5. ASSUME NEW r \in Requests, Work(r) PROVE StoredInOrder'
  <2>1. UNCHANGED <<ask, slot, at, answer, store>> /\ output' \in {output, [output EXCEPT ![slot[r]] = {r}]}
    BY <1>5, WorkFrame
  <2>2. \A s \in Slots : output'[s] = IF s = slot[r] /\ output' # output THEN {r} ELSE output[s]
    BY <2>1 DEF DiskTypes
  <2>3. StoringOf(r)' /\ OwnSlots'
    BY <2>1, <2>2 DEF StoringOf, Stores, OwnSlots, Kind
  <2> QED
    BY <1>0, <2>1, <2>3
<1>6. CASE StopWorker
  BY <1>6 DEF StopWorker, Stop, OwnSlots, RowsAreBacked, StoredOf, StoringOf, Stores, Kind
<1>7. CASE UNCHANGED vars
  BY <1>7 DEF vars, OwnSlots, RowsAreBacked, StoredOf, StoringOf, Stores, Kind
<1> QED
  BY <1>1, <1>2, <1>3, <1>4, <1>5, <1>6, <1>7 DEF Next, Handle

\* Where nothing is stored, no step takes an image away.
LEMMA NoImageGoes ==
    ASSUME TypeOK, SameStorage, FlowKnown, StoredInOrder, [Next]_vars, NEW q \in Requests, ~Stores(q),
           NEW s \in Slots, output[s] # {}
    PROVE  output'[s] # {}
<1> USE TypesAreParts DEF flow, operation, cache, worker, paths, disk, api, store, unmoved
<1>1. ASSUME NEW r \in Requests, Admit(r) PROVE output'[s] # {}
  BY <1>1 DEF Admit
<1>2. ASSUME NEW r \in Requests, Generate(r) PROVE output'[s] # {}
  BY <1>2, GenerateFrame
<1>3. ASSUME NEW r \in Requests, TryOn(r) PROVE output'[s] # {}
  <2>1. CASE Persist(r)
    BY <1>3, <2>1 DEF Persist, SameStorage, Stores
  <2>2. CASE ~Persist(r)
    BY <1>3, <2>2, TryOnStored DEF SameStorage, Stores
  <2> QED
    BY <2>1, <2>2
<1>4. ASSUME NEW r \in Requests, Work(r) PROVE output'[s] # {}
  <2>1. output' \in {output, [output EXCEPT ![slot[r]] = {r}]}
    BY <1>4, WorkFrame
  <2>2. output'[s] \in {output[s], {r}}
    BY <2>1 DEF DiskTypes
  <2> QED
    BY <2>2
<1>5. CASE StopWorker
  BY <1>5 DEF StopWorker, Stop
<1>6. CASE UNCHANGED vars
  BY <1>6 DEF vars
<1> QED
  BY <1>1, <1>2, <1>3, <1>4, <1>5, <1>6 DEF Next, Handle

\* What the worker does before the image of a request counts as drawn.
LEMMA ServeDraws ==
    ASSUME TypeOK, NEW r \in Requests, Serve(r), DrawnFor(r)'
    PROVE  DrawnFor(r) \/ output'[slot[r]] # {}
<1> USE TypesAreParts DEF flow, operation, worker, paths, disk
<1>1. CASE BeginRequest(r)
  BY <1>1 DEF BeginRequest, PostGoes, DrawnFor, WorkerTypes
<1>2. CASE CheckMemory(r)
  BY <1>2 DEF CheckMemory, Fails, DrawnFor, WorkerTypes
<1>3. CASE TakeLock(r)
  BY <1>3 DEF TakeLock, PostGoes, DrawnFor, WorkerTypes
<1>4. CASE LoadPipeline(r)
  BY <1>4 DEF LoadPipeline, Fails, DrawnFor, WorkerTypes
<1>5. CASE ReadImages(r)
  BY <1>5 DEF ReadImages, Fails, DrawnFor, WorkerTypes
<1>6. CASE WriteImage(r)
  BY <1>6 DEF WriteImage, Fails, DrawnFor, WorkerTypes, DiskTypes
<1>7. CASE WriteReport(r)
  BY <1>7 DEF WriteReport, Fails, DrawnFor, WorkerTypes
<1>8. CASE FinishRequest(r)
  BY <1>8 DEF FinishRequest, PostGoes, DrawnFor, WorkerTypes
<1>9. CASE Reply(r)
  BY <1>9 DEF Reply, PostGoes, DrawnFor, WorkerTypes
<1>10. CASE Refuse(r)
  BY <1>10 DEF Refuse, PostGoes, Finish, DrawnFor, WorkerTypes, FlowTypes
<1> QED
  BY <1>1, <1>2, <1>3, <1>4, <1>5, <1>6, <1>7, <1>8, <1>9, <1>10 DEF Serve

\* What a try-on does before its image counts as drawn.
LEMMA TryOnDraws ==
    ASSUME TypeOK, NEW r \in Requests, TryOn(r), DrawnFor(r)'
    PROVE  DrawnFor(r)
<1> USE TypesAreParts
<1> USE DEF flow, operation, cache, worker, paths, disk, api, store, unmoved, Goto, Step, Conclude, DrawnFor
<1>1. CASE CheckTryOn(r)
  BY <1>1 DEF CheckTryOn, FlowTypes
<1>2. CASE Materialize(r, "person", "garment")
  BY <1>2 DEF Materialize, FlowTypes
<1>3. CASE Materialize(r, "garment", "ready")
  BY <1>3 DEF Materialize, FlowTypes
<1>4. CASE SubmitTryOn(r)
  BY <1>4 DEF SubmitTryOn, Submit, FlowTypes
<1>5. CASE AwaitTryOn(r)
  BY <1>5 DEF AwaitTryOn, FlowTypes
<1>6. CASE TryOnTimeout(r)
  BY <1>6 DEF TryOnTimeout, Abandon, FlowTypes
<1>7. CASE WriteSidecar(r)
  BY <1>7 DEF WriteSidecar, FlowTypes
<1>8. CASE StoreArtifacts(r)
  BY <1>8 DEF StoreArtifacts, SkipStorage, Persist, PersistFails, PersistErrors, FlowTypes
<1>9. CASE RemoveLocal(r)
  BY <1>9 DEF RemoveLocal, FlowTypes
<1>10. CASE ChargeTryOn(r)
  BY <1>10 DEF ChargeTryOn, FlowTypes
<1>11. CASE CleanUp(r)
  BY <1>11 DEF CleanUp, FlowTypes
<1> QED
  BY <1>1, <1>2, <1>3, <1>4, <1>5, <1>6, <1>7, <1>8, <1>9, <1>10, <1>11 DEF TryOn

\* A step keeps the images where nothing is stored.
LEMMA ImagesStayStep ==
    ASSUME TypeOK, Asked, SameStorage, FlowKnown, StoredInOrder, ImagesStay, [Next]_vars
    PROVE  ImagesStay'
<1> USE TypesAreParts DEF flow, operation, cache, worker, paths, disk, api, store, unmoved
<1>1. UNCHANGED <<ask, slot>>
  BY GenerateFrame, TryOnFrame, WorkFrame DEF Next, Handle, Admit, StopWorker, Stop, vars
<1> SUFFICES ASSUME NEW q \in Requests, Kind(q) = "vton", ~Stores(q), DrawnFor(q)'
             PROVE  output'[slot[q]] # {}
  BY <1>1 DEF ImagesStay, Kind, Stores
<1>2. slot[q] \in Slots
  BY DEF DiskTypes
<1>3. DrawnFor(q) => output'[slot[q]] # {}
  BY <1>2, NoImageGoes DEF ImagesStay
<1> SUFFICES DrawnFor(q) \/ output'[slot[q]] # {}
  BY <1>3
<1>4. ASSUME NEW r \in Requests, Admit(r) PROVE DrawnFor(q)
  BY <1>4 DEF Admit, Step, Conclude, Goto, EarlyRefusals, DrawnFor, FlowTypes
<1>5. ASSUME NEW r \in Requests, Generate(r) PROVE DrawnFor(q)
  <2>1. q # r
    BY <1>5, GenerateFrame DEF FlowKnown, FlowOf
  <2> QED
    BY <1>5, <2>1, GenerateFrame DEF DrawnFor
<1>6. ASSUME NEW r \in Requests, TryOn(r) PROVE DrawnFor(q)
  <2>1. CASE q = r
    BY <1>6, <2>1, TryOnDraws
  <2>2. CASE q # r
    BY <1>6, <2>2, TryOnFrame DEF DrawnFor
  <2> QED
    BY <2>1, <2>2
<1>7. ASSUME NEW r \in Requests, RunGeneration(r) PROVE DrawnFor(q)
  <2>1. q # r
    BY <1>7 DEF RunGeneration, Kind
  <2> QED
    BY <1>7, <2>1 DEF RunGeneration, Start, Finish, DrawnFor, FlowTypes
<1>8. ASSUME NEW r \in Requests, CallWorker(r) \/ CallFails(r) PROVE DrawnFor(q)
  BY <1>8 DEF CallWorker, CallFails, PostGoes, Start, Finish, DrawnFor, FlowTypes, WorkerTypes
<1>9. ASSUME NEW r \in Requests, Serve(r) PROVE DrawnFor(q) \/ output'[slot[q]] # {}
  <2>1. CASE q = r
    BY <1>9, <2>1, ServeDraws
  <2>2. CASE q # r
    BY <1>9, <2>2, ServeFrame DEF DrawnFor
  <2> QED
    BY <2>1, <2>2
<1>10. CASE StopWorker
  BY <1>10 DEF StopWorker, Stop, DrawnFor, WorkerTypes
<1>11. CASE UNCHANGED vars
  BY <1>11 DEF vars, DrawnFor
<1> QED
  BY <1>4, <1>5, <1>6, <1>7, <1>8, <1>9, <1>10, <1>11 DEF Next, Handle, Work

\* A step keeps what is known of the lookups.
LEMMA MatchesStep ==
    ASSUME TypeOK, MatchesAreSimilar, [Next]_vars
    PROVE  MatchesAreSimilar'
<1> USE TypesAreParts DEF MatchesAreSimilar, HitsMatchThePrompt
<1>1. ASSUME NEW r \in Requests, Generate(r) PROVE MatchesAreSimilar'
  <2>1. CASE LookUpCache(r)
    <3>1. UNCHANGED <<ask, served>>
      BY <2>1 DEF LookUpCache, api
    <3>2. \A k \in matched'[r] : <<ask[r].key, k>> \in Similar
      <4>1. CASE UNCHANGED matched
        BY <4>1
      <4>2. ASSUME NEW found \in {{}} \union {{e.id} : e \in {e \in Cached : <<ask[r].key, e.id>> \in Similar}},
                   matched' = [matched EXCEPT ![r] = found]
            PROVE  \A k \in matched'[r] : <<ask[r].key, k>> \in Similar
        <5>1. found = {} \/ \E e \in Cached : <<ask[r].key, e.id>> \in Similar /\ found = {e.id}
          OBVIOUS
        <5>2. matched'[r] = found
          BY <4>2 DEF CacheTypes
        <5> QED
          BY <5>1, <5>2
      <4> QED
        BY <2>1, <4>1, <4>2 DEF LookUpCache, Lookup, cache
    <3>3. \A q \in Requests \ {r} : matched'[q] = matched[q]
      BY <2>1 DEF LookUpCache, Lookup, cache, CacheTypes
    <3> QED
      BY <3>1, <3>2, <3>3
  <2>2. CASE GetGeneration(r)
    BY <2>2 DEF GetGeneration, Matches, unmoved, cache, CacheTypes
  <2>3. CASE ~LookUpCache(r) /\ ~GetGeneration(r)
    <3>1. UNCHANGED <<matched, served>>
      <4> USE DEF cache, api, unmoved
      <4>1. CASE ChargeGeneration(r)
        BY <4>1 DEF ChargeGeneration
      <4>2. CASE CheckCacheConfigured(r)
        BY <4>2 DEF CheckCacheConfigured, CacheAllowed
      <4>3. CASE SubmitGeneration(r)
        BY <4>3 DEF SubmitGeneration, Submit
      <4>4. CASE AwaitGeneration(r)
        BY <4>4 DEF AwaitGeneration, Generates, Submit
      <4>5. CASE GenerationTimeout(r)
        BY <4>5 DEF GenerationTimeout, Generates, Abandon
      <4>6. CASE GuardOutput(r)
        BY <4>6 DEF GuardOutput, CacheAllowed
      <4>7. CASE PutGeneration(r)
        BY <4>7 DEF PutGeneration, FilterList, Rebind, Load, AppendEntry, Measure, Slice, Trim
      <4>8. CASE SendGeneration(r)
        BY <4>8 DEF SendGeneration
      <4> QED
        BY <1>1, <2>3, <4>1, <4>2, <4>3, <4>4, <4>5, <4>6, <4>7, <4>8 DEF Generate
    <3> QED
      BY <1>1, <3>1, GenerateFrame
  <2> QED
    BY <2>1, <2>2, <2>3
<1>2. ASSUME NEW r \in Requests, TryOn(r) PROVE MatchesAreSimilar'
  BY <1>2, TryOnFrame DEF cache
<1>3. ASSUME NEW r \in Requests, Work(r) PROVE MatchesAreSimilar'
  BY <1>3, WorkFrame DEF cache, api
<1>4. CASE UNCHANGED <<cache, api>>
  BY <1>4 DEF cache, api
<1> QED
  BY <1>1, <1>2, <1>3, <1>4 DEF Next, Handle, Admit, StopWorker, unmoved, vars

\* A step that leaves the lists alone, of a request that is in no put.
LEMMA CacheKept ==
    ASSUME ObjectsInOrder, EntriesAreSound, CacheIsBounded, NEW r \in Requests,
           UNCHANGED <<ask, lists, current, held>>, charged \subseteq charged',
           \A q \in Requests \ {r} : at'[q] = at[q] /\ answer'[q] = answer[q],
           at[r] \notin Settling \union {"done"}, at'[r] \notin Settling,
           at[r] = "sending" => at'[r] = "done" /\ answer'[r] = "completed"
    PROVE  ObjectsInOrder' /\ EntriesAreSound' /\ CacheIsBounded'
<1>1. ObjectsInOrder'
  BY DEF ObjectsInOrder, InUse, Settling
<1>2. EntriesAreSound'
  BY DEF EntriesAreSound, Settling
<1>3. CacheIsBounded'
  BY DEF CacheIsBounded, Cached
<1> QED
  BY <1>1, <1>2, <1>3

\* The steps of a generation outside its put.
LEMMA OutsidePut ==
    ASSUME TypeOK, NEW r \in Requests, Generate(r), ~PutGeneration(r)
    PROVE  /\ UNCHANGED <<lists, current, held>>
           /\ at[r] \notin Settling \union {"done"} /\ at'[r] \notin Settling
           /\ at[r] = "sending" => at'[r] = "done" /\ answer'[r] = "completed"
<1> USE TypesAreParts
<1> USE DEF flow, operation, cache, worker, paths, disk, api, store, unmoved, Goto, Step, Conclude
<1>1. CASE ChargeGeneration(r)
  BY <1>1 DEF ChargeGeneration, FlowTypes, Settling
<1>2. CASE CheckCacheConfigured(r)
  BY <1>2 DEF CheckCacheConfigured, CacheAllowed, FlowTypes, Settling
<1>3. CASE LookUpCache(r)
  BY <1>3 DEF LookUpCache, Lookup, FlowTypes, Settling
<1>4. CASE GetGeneration(r)
  BY <1>4 DEF GetGeneration, FlowTypes, Settling
<1>5. CASE SubmitGeneration(r)
  BY <1>5 DEF SubmitGeneration, Submit, FlowTypes, Settling
<1>6. CASE AwaitGeneration(r)
  BY <1>6 DEF AwaitGeneration, Generates, Submit, FlowTypes, Settling
<1>7. CASE GenerationTimeout(r)
  BY <1>7 DEF GenerationTimeout, Generates, Abandon, FlowTypes, Settling
<1>8. CASE GuardOutput(r)
  BY <1>8 DEF GuardOutput, CacheAllowed, FlowTypes, Settling
<1>9. CASE PutGeneration(r)
  BY <1>9 
<1>10. CASE SendGeneration(r)
  BY <1>10 DEF SendGeneration, FlowTypes, Settling
<1> QED
  BY <1>1, <1>2, <1>3, <1>4, <1>5, <1>6, <1>7, <1>8, <1>9, <1>10 DEF Generate

\* A step of a put keeps the list objects and their entries sound.
LEMMA PutKeeps ==
    ASSUME TypeOK, Asked, FlowKnown, ObjectsInOrder, EntriesAreSound, CacheIsBounded,
           NEW r \in Requests, PutGeneration(r)
    PROVE  ObjectsInOrder' /\ EntriesAreSound' /\ CacheIsBounded'
<1> USE TypesAreParts DEF Goto
<1>1. /\ UNCHANGED <<ask, charged, answer>>
      /\ at[r] \in {"filtering", "rebinding"} \union Settling
      /\ \A q \in Requests \ {r} : at'[q] = at[q]
  BY DEF PutGeneration, FilterList, Rebind, Load, AppendEntry, Measure, Slice, Trim,
         api, FlowTypes, Settling
<1>2. /\ r \in charged /\ ~ask[r].redacted
      /\ current \in Objects /\ current \in InUse
      /\ Cached \subseteq Entry /\ IsFiniteSet(Cached)
  BY <1>1 DEF FlowKnown, FlowOf, GenerationSteps, CacheTypes, InUse, Cached, EntriesAreSound,
     Settling
<1>3. CASE FilterList(r, ask[r].key)
  <2>1. /\ at[r] = "filtering" /\ at'[r] = "rebinding" /\ UNCHANGED <<current, held>>
        /\ lists' = [lists EXCEPT ![<<r, "filtered">>] = {e \in Cached : e.id # ask[r].key}]
    BY <1>3 DEF FilterList, FlowTypes
  <2>2. <<r, "filtered">> \notin InUse /\ <<r, "filtered">> \in Objects
    BY <2>1 DEF ObjectsInOrder, Settling, Objects
  <2>3. \A o \in Objects \ {<<r, "filtered">>} : lists'[o] = lists[o]
    BY <2>1 DEF CacheTypes
  <2>4. lists'[<<r, "filtered">>] \subseteq Cached /\ IsFiniteSet(lists'[<<r, "filtered">>])
    <3>1. lists'[<<r, "filtered">>] = {e \in Cached : e.id # ask[r].key}
      BY <2>1, <2>2 DEF CacheTypes
    <3> QED
      BY <1>2, <3>1, FS_Subset
  <2>5. ObjectsInOrder'
    <3>1. InUse' = InUse /\ \A q \in Requests : lists'[<<q, "trimmed">>] = lists[<<q, "trimmed">>]
      BY <2>1, <2>3 DEF InUse, Objects
    <3> QED
      BY <1>1, <2>1, <3>1 DEF ObjectsInOrder, Settling
  <2>6. EntriesAreSound'
    BY <1>1, <1>2, <2>1, <2>3, <2>4 DEF EntriesAreSound, Cached
  <2>7. CacheIsBounded'
    BY <1>1, <1>2, <2>1, <2>2, <2>3 DEF CacheIsBounded, Cached, Settling
  <2> QED
    BY <2>5, <2>6, <2>7
<1>4. CASE Rebind(r)
  <2>1. /\ at[r] = "rebinding" /\ at'[r] = "loading" /\ UNCHANGED <<lists, held>>
        /\ current' = <<r, "filtered">>
    BY <1>4 DEF Rebind, FlowTypes
  <2>2. ObjectsInOrder'
    BY <1>1, <2>1 DEF ObjectsInOrder, InUse, Settling
  <2>3. EntriesAreSound'
    BY <1>1, <2>1 DEF EntriesAreSound
  <2> QED
    BY <2>1, <2>2, <2>3 DEF CacheIsBounded, Settling
<1>5. CASE Load(r)
  <2>1. /\ at[r] = "loading" /\ at'[r] = "appending" /\ UNCHANGED <<lists, current>>
        /\ held' = [held EXCEPT ![r] = current]
    BY <1>5 DEF Load, FlowTypes
  <2>2. InUse' \subseteq InUse
    BY <2>1 DEF InUse, CacheTypes
  <2>3. ObjectsInOrder'
    BY <1>1, <2>1, <2>2 DEF ObjectsInOrder, Settling
  <2>4. EntriesAreSound'
    BY <1>1, <2>1 DEF EntriesAreSound
  <2> QED
    BY <2>1, <2>3, <2>4 DEF CacheIsBounded, Settling
<1>6. CASE AppendEntry(r, ask[r].key)
  <2> DEFINE new == [id |-> ask[r].key, by |-> r, n |-> appends]
  <2>1. /\ at[r] = "appending" /\ at'[r] = "measuring" /\ UNCHANGED <<current, held>>
        /\ lists' = [lists EXCEPT ![held[r]] = lists[held[r]] \union {new}]
    BY <1>6 DEF AppendEntry, FlowTypes
  <2>2. held[r] \in InUse /\ held[r] \in Objects
    BY DEF InUse, CacheTypes
  <2>3. /\ \A o \in Objects \ {held[r]} : lists'[o] = lists[o]
        /\ lists'[held[r]] = lists[held[r]] \union {new}
    BY <2>1, <2>2 DEF CacheTypes
  <2>4. IsFiniteSet(lists'[held[r]])
    <3>1. IsFiniteSet(lists[held[r]])
      BY <2>2 DEF EntriesAreSound
    <3>2. IsFiniteSet(lists[held[r]] \union {new})
      BY <3>1, FS_AddElement
    <3> QED
      BY <2>3, <3>2
  <2>5. ObjectsInOrder'
    <3>1. \A q \in Requests : at[q] = "trimming" => <<q, "trimmed">> # held[r]
      BY <2>2 DEF ObjectsInOrder
    <3>2. InUse' = InUse
      BY <2>1 DEF InUse
    <3> QED
      BY <1>1, <2>1, <2>3, <3>1, <3>2 DEF ObjectsInOrder, Settling, Objects
  <2>6. EntriesAreSound'
    <3> SUFFICES ASSUME NEW o \in Objects
                 PROVE  /\ IsFiniteSet(lists'[o])
                        /\ \A e \in lists'[o] : e.by \in Requests =>
                               /\ e.by \in charged /\ ~ask[e.by].redacted
                               /\ \/ at'[e.by] \in {"measuring", "slicing", "trimming", "sending"}
                                  \/ at'[e.by] = "done" /\ answer[e.by] = "completed"
      BY <1>1 DEF EntriesAreSound
    <3>1. IsFiniteSet(lists'[o])
      BY <2>3, <2>4 DEF EntriesAreSound
    <3>2. \A e \in lists'[o] : e \in lists[o] \/ e = new
      BY <2>2, <2>3
    <3> QED
      BY <1>1, <1>2, <2>1, <3>1, <3>2 DEF EntriesAreSound
  <2> QED
    BY <2>1, <2>5, <2>6 DEF CacheIsBounded, Settling
<1>7. CASE Measure(r, "sending")
  <2>1. /\ at[r] = "measuring" /\ UNCHANGED <<lists, current, held>>
        /\ at'[r] = IF Cardinality(Cached) > MaxEntries THEN "slicing" ELSE "sending"
    BY <1>7 DEF Measure, FlowTypes, cache
  <2>2. Cardinality(Cached) \in Nat
    BY <1>2, FS_CardinalityType
  <2>3. ObjectsInOrder'
    BY <1>1, <2>1 DEF ObjectsInOrder, InUse, Settling
  <2>4. EntriesAreSound'
    BY <1>1, <2>1 DEF EntriesAreSound
  <2>5. CacheIsBounded'
    BY <2>1, <2>2 DEF CacheIsBounded, Cached, Settling
  <2> QED
    BY <2>3, <2>4, <2>5
<1>8. CASE Slice(r)
  <2>1. PICK kept \in SUBSET Cached :
            Cardinality(kept) <= MaxEntries /\ lists' = [lists EXCEPT ![<<r, "trimmed">>] = kept]
    BY <1>8 DEF Slice
  <2>2. at[r] = "slicing" /\ at'[r] = "trimming" /\ UNCHANGED <<current, held>>
    BY <1>8 DEF Slice, FlowTypes
  <2>3. <<r, "trimmed">> \notin InUse /\ <<r, "trimmed">> \in Objects
    BY <2>2 DEF ObjectsInOrder, Objects
  <2>4. /\ \A o \in Objects \ {<<r, "trimmed">>} : lists'[o] = lists[o]
        /\ lists'[<<r, "trimmed">>] = kept /\ IsFiniteSet(kept)
    BY <1>2, <2>1, <2>3, FS_Subset DEF CacheTypes
  <2>5. ObjectsInOrder'
    <3>1. InUse' = InUse
      BY <2>2 DEF InUse
    <3> QED
      BY <1>1, <2>1, <2>2, <2>3, <2>4, <3>1 DEF ObjectsInOrder, Settling, Objects
  <2>6. EntriesAreSound'
    BY <1>1, <1>2, <2>1, <2>2, <2>4 DEF EntriesAreSound, Cached
  <2> QED
    BY <2>2, <2>5, <2>6 DEF CacheIsBounded, Settling
<1>9. CASE Trim(r, "sending")
  <2>1. /\ at[r] = "trimming" /\ at'[r] = "sending" /\ UNCHANGED <<lists, held>>
        /\ current' = <<r, "trimmed">>
    BY <1>9 DEF Trim, FlowTypes
  <2>2. ObjectsInOrder'
    BY <1>1, <2>1 DEF ObjectsInOrder, InUse, Settling
  <2>3. EntriesAreSound'
    BY <1>1, <2>1 DEF EntriesAreSound
  <2> QED
    BY <2>1, <2>2, <2>3 DEF CacheIsBounded, Cached, ObjectsInOrder
<1> QED
  BY <1>3, <1>4, <1>5, <1>6, <1>7, <1>8, <1>9 DEF PutGeneration

\* A step keeps the cache sound and bounded.
LEMMA CacheStep ==
    ASSUME TypeOK, Asked, FlowKnown, ObjectsInOrder, EntriesAreSound, CacheIsBounded, [Next]_vars
    PROVE  ObjectsInOrder' /\ EntriesAreSound' /\ CacheIsBounded'
<1> USE DEF cache, api
<1>1. ASSUME NEW r \in Requests, Admit(r) PROVE ObjectsInOrder' /\ EntriesAreSound' /\ CacheIsBounded'
  <2>1. /\ UNCHANGED <<ask, charged, lists, current, held>>
        /\ \A q \in Requests \ {r} : at'[q] = at[q] /\ answer'[q] = answer[q]
        /\ at[r] = "arrived" /\ at'[r] \in {"charging", "checking", "done"}
    BY <1>1 DEF Admit, Step, Conclude, Goto, TypeOK, unmoved
  <2> QED
    BY <2>1, CacheKept DEF Settling
<1>2. ASSUME NEW r \in Requests, Generate(r) PROVE ObjectsInOrder' /\ EntriesAreSound' /\ CacheIsBounded'
  <2>1. CASE PutGeneration(r)
    BY <2>1, PutKeeps
  <2>2. CASE ~PutGeneration(r)
    BY <1>2, <2>2, OutsidePut, GenerateFrame, CacheKept
  <2> QED
    BY <2>1, <2>2
<1>3. ASSUME NEW r \in Requests, TryOn(r) PROVE ObjectsInOrder' /\ EntriesAreSound' /\ CacheIsBounded'
  <2>1. at[r] \notin Settling \union {"done", "sending"} /\ at'[r] \notin Settling
    BY <1>3, TryOnFrame DEF TryOnSteps, Settling
  <2> QED
    BY <1>3, <2>1, TryOnFrame, CacheKept
<1>4. CASE UNCHANGED <<flow, cache, api>>
  BY <1>4 DEF flow, ObjectsInOrder, InUse, EntriesAreSound, CacheIsBounded, Cached
<1>5. ASSUME NEW r \in Requests, Work(r) PROVE UNCHANGED <<flow, cache, api>>
  BY <1>5, WorkFrame
<1> QED
  BY <1>1, <1>2, <1>3, <1>4, <1>5 DEF Next, Handle, StopWorker, Stop, vars

\* The gauge follows the handlers it counts.
LEMMA GaugeFollows ==
    ASSUME GaugeNeverOvercounts, gauge \in Nat, NEW r \in Requests,
           \A q \in Requests \ {r} : post'[q] = post[q],
           \/ (post'[r] \in Counted <=> post[r] \in Counted) /\ gauge' \in {gauge, Lowered}
           \/ post[r] \notin Counted /\ post'[r] \in Counted /\ gauge' = gauge + 1
           \/ post[r] \in Counted /\ post'[r] \notin Counted /\ gauge' = Lowered
    PROVE  GaugeNeverOvercounts'
<1> DEFINE here == {q \in Requests : post[q] \in Counted}
           then == {q \in Requests : post'[q] \in Counted}
<1>1. IsFiniteSet(here) /\ Cardinality(here) \in Nat /\ gauge <= Cardinality(here)
  BY FS_Subset, FS_CardinalityType DEF GaugeNeverOvercounts
<1>2. SUFFICES gauge' <= Cardinality(then)
  BY DEF GaugeNeverOvercounts
<1>3. Lowered \in Nat /\ Lowered <= gauge /\ (Lowered = gauge - 1 \/ (gauge = 0 /\ Lowered = 0))
  <2>1. CASE gauge = 0
    BY <2>1 DEF Lowered
  <2>2. CASE gauge # 0
    <3>1. gauge - 1 \in Nat /\ gauge - 1 <= gauge /\ Lowered = gauge - 1
      BY <2>2 DEF Lowered
    <3> QED
      BY <3>1
  <2> QED
    BY <2>1, <2>2
<1>4. CASE (post'[r] \in Counted <=> post[r] \in Counted) /\ gauge' \in {gauge, Lowered}
  <2>1. then = here
    BY <1>4
  <2>2. gauge' \in Nat /\ gauge' <= gauge
    BY <1>3, <1>4
  <2> HIDE DEF here, then
  <2> QED
    BY <1>1, <2>1, <2>2
<1>5. CASE post[r] \notin Counted /\ post'[r] \in Counted /\ gauge' = gauge + 1
  <2>1. then = here \union {r} /\ r \notin here
    BY <1>5
  <2>2. Cardinality(then) = Cardinality(here) + 1
    BY <1>1, <2>1, FS_AddElement
  <2> QED
    BY <1>1, <1>5, <2>2
<1>6. CASE post[r] \in Counted /\ post'[r] \notin Counted /\ gauge' = Lowered
  <2>1. then = here \ {r} /\ r \in here
    BY <1>6
  <2> HIDE DEF here, then
  <2>2. IsFiniteSet(then) /\ Cardinality(then) = Cardinality(here) - 1
    BY <1>1, <2>1, FS_RemoveElement
  <2>3. Cardinality(then) \in Nat
    BY <2>2, FS_CardinalityType
  <2> QED
    BY <1>1, <1>3, <1>6, <2>2, <2>3
<1> QED
  BY <1>4, <1>5, <1>6

\* The worker moves the gauge by the request it serves alone.
LEMMA ServeGauge ==
    ASSUME TypeOK, GaugeNeverOvercounts, NEW r \in Requests, Serve(r)
    PROVE  \/ (post'[r] \in Counted <=> post[r] \in Counted) /\ gauge' \in {gauge, Lowered}
           \/ post[r] \notin Counted /\ post'[r] \in Counted /\ gauge' = gauge + 1
           \/ post[r] \in Counted /\ post'[r] \notin Counted /\ gauge' = Lowered
<1> USE TypesAreParts
<1> USE DEF flow, operation, cache, worker, paths, disk, api, store, unmoved, Goto, Step, Conclude
<1>1. CASE BeginRequest(r)
  BY <1>1 DEF BeginRequest, PostGoes, WorkerTypes, Counted, Working
<1>2. CASE CheckMemory(r)
  BY <1>2 DEF CheckMemory, Fails, WorkerTypes, Counted, Working
<1>3. CASE TakeLock(r)
  BY <1>3 DEF TakeLock, PostGoes, WorkerTypes, Counted, Working
<1>4. CASE LoadPipeline(r)
  BY <1>4 DEF LoadPipeline, Fails, WorkerTypes, Counted, Working
<1>5. CASE ReadImages(r)
  BY <1>5 DEF ReadImages, Fails, WorkerTypes, Counted, Working
<1>6. CASE WriteImage(r)
  BY <1>6 DEF WriteImage, Fails, WorkerTypes, Counted, Working
<1>7. CASE WriteReport(r)
  BY <1>7 DEF WriteReport, Fails, WorkerTypes, Counted, Working
<1>8. CASE FinishRequest(r)
  BY <1>8 DEF FinishRequest, PostGoes, WorkerTypes, Counted, Working
<1>9. CASE Reply(r)
  BY <1>9 DEF Reply, PostGoes, Finish, WorkerTypes, Counted, Working
<1>10. CASE Refuse(r)
  BY <1>10 DEF Refuse, PostGoes, Finish, WorkerTypes, Counted, Working
<1> QED
  BY <1>1, <1>2, <1>3, <1>4, <1>5, <1>6, <1>7, <1>8, <1>9, <1>10 DEF Serve

\* A step keeps the gauge from overcounting.
LEMMA GaugeStep ==
    ASSUME TypeOK, GaugeNeverOvercounts, [Next]_vars
    PROVE  GaugeNeverOvercounts'
<1> USE TypesAreParts DEF flow, operation, cache, worker, paths, disk, api, store, unmoved
<1>1. CASE UNCHANGED worker
  BY <1>1 DEF GaugeNeverOvercounts
<1>2. ASSUME NEW r \in Requests, Admit(r) PROVE UNCHANGED worker
  BY <1>2 DEF Admit
<1>3. ASSUME NEW r \in Requests, Generate(r) \/ TryOn(r) PROVE UNCHANGED worker
  BY <1>3, GenerateFrame, TryOnFrame
<1>4. ASSUME NEW r \in Requests, RunGeneration(r) \/ CallFails(r) PROVE UNCHANGED worker
  BY <1>4 DEF RunGeneration, CallFails
<1>5. ASSUME NEW r \in Requests, CallWorker(r) PROVE GaugeNeverOvercounts'
  <2>1. /\ \A q \in Requests \ {r} : post'[q] = post[q]
        /\ post[r] = "none" /\ post'[r] = "sent" /\ gauge' = gauge
    BY <1>5 DEF CallWorker, PostGoes, WorkerTypes
  <2> QED
    BY <2>1, GaugeFollows DEF WorkerTypes, Counted, Working
<1>6. ASSUME NEW r \in Requests, Serve(r) PROVE GaugeNeverOvercounts'
  BY <1>6, ServeFrame, ServeGauge, GaugeFollows DEF WorkerTypes
<1>7. CASE StopWorker
  <2>1. Cardinality({q \in Requests : post'[q] \in Counted}) \in Nat /\ gauge' = 0
    BY <1>7, FS_Subset, FS_CardinalityType DEF StopWorker, Stop
  <2> QED
    BY <2>1 DEF GaugeNeverOvercounts
<1> QED
  BY <1>1, <1>2, <1>3, <1>4, <1>5, <1>6, <1>7 DEF Next, Handle, Work, vars

-----------------------------------------------------------------------------
(* The invariant, and what it says.                                        *)

\* The invariant holds at the start.
LEMMA InferenceInit == Init => InferenceInv
<1> SUFFICES ASSUME Init PROVE InferenceInv
  OBVIOUS
<1>1. PICK scene \in Scenarios : ask = scene.ask /\ slot = scene.slot /\ loaded = scene.preload
  BY DEF Init
<1>2. Asked /\ SameStorage
  BY <1>1, ScenariosAreAsked DEF Asked, SameStorage
<1>3. FlowTypes /\ WorkerTypes /\ DiskTypes /\ StoreTypes
  BY <1>1, ScenariosAreAsked DEF Init, FlowTypes, WorkerTypes, DiskTypes, StoreTypes, Threads, Results, Posts, Answers
<1>4. PICK first \in {{}} \union {{[id |-> k, by |-> Earlier, n |-> 0]} : k \in Keys} :
          lists = [o \in Objects |-> IF o = <<Earlier, "trimmed">> THEN first ELSE {}]
  BY DEF Init, CacheInit
<1>5. first = {} \/ \E k \in Keys : first = {[id |-> k, by |-> Earlier, n |-> 0]}
  OBVIOUS
<1>6. /\ first \subseteq Entry /\ \A e \in first : e.by = Earlier
      /\ IsFiniteSet(first) /\ Cardinality(first) <= MaxEntries
  <2>1. CASE first = {}
    BY <2>1, FS_EmptySet
  <2>2. CASE \E k \in Keys : first = {[id |-> k, by |-> Earlier, n |-> 0]}
    <3>1. PICK k \in Keys : first = {[id |-> k, by |-> Earlier, n |-> 0]}
      BY <2>2
    <3>2. [id |-> k, by |-> Earlier, n |-> 0] \in Entry
      BY DEF Entry
    <3>3. IsFiniteSet(first) /\ Cardinality(first) = 1
      BY <3>1, FS_Singleton
    <3> QED
      BY <3>1, <3>2, <3>3
  <2> QED
    BY <1>5, <2>1, <2>2
<1>7. CacheTypes
  BY <1>4, <1>6 DEF Init, CacheInit, CacheTypes, Objects
<1>8. FlowKnown /\ InputsKept
  BY DEF Init, FlowKnown, FlowOf, Awaiting, Unsubmitted, GenerationSteps, TryOnSteps, Settling,
         InputsKept, InputsRemoved, HasInputs
<1>9. StoredInOrder
  BY DEF Init, StoredInOrder, OwnSlots, RowsAreBacked, StoredOf, StoringOf
<1>9a. ImagesStay
  BY DEF Init, ImagesStay, DrawnFor
<1>10. MatchesAreSimilar /\ ObjectsInOrder
  BY DEF Init, CacheInit, MatchesAreSimilar, HitsMatchThePrompt, ObjectsInOrder, InUse
<1>11. EntriesAreSound /\ CacheIsBounded
  BY <1>4, <1>6, FS_EmptySet DEF Init, CacheInit, EntriesAreSound, CacheIsBounded, Cached, Objects
<1>12. GaugeNeverOvercounts
  <2> DEFINE counted == {r \in Requests : post[r] \in Counted}
  <2>1. counted = {}
    BY DEF Init, Counted, Working
  <2>2. Cardinality({}) = 0 /\ gauge = 0
    BY FS_EmptySet DEF Init
  <2>3. SUFFICES gauge <= Cardinality(counted)
    BY DEF GaugeNeverOvercounts
  <2> HIDE DEF counted
  <2> QED
    BY <2>1, <2>2
<1> QED
  BY <1>2, <1>3, <1>7, <1>8, <1>9, <1>9a, <1>10, <1>11, <1>12, TypesAreParts DEF InferenceInv

\* A step keeps the invariant.
LEMMA InferenceStep == InferenceInv /\ [Next]_vars => InferenceInv'
<1> SUFFICES ASSUME InferenceInv, [Next]_vars PROVE InferenceInv'
  OBVIOUS
<1>1. TypeOK' /\ Asked' /\ SameStorage' /\ FlowKnown' /\ InputsKept' /\ StoredInOrder' /\ ImagesStay'
  BY TypeOKStep, AskedStep, FlowKnownStep, InputsKeptStep, StoredInOrderStep, ImagesStayStep DEF InferenceInv
<1>2. MatchesAreSimilar' /\ ObjectsInOrder' /\ EntriesAreSound' /\ CacheIsBounded'
  BY MatchesStep, CacheStep DEF InferenceInv
<1>3. GaugeNeverOvercounts'
  BY GaugeStep DEF InferenceInv
<1> QED
  BY <1>1, <1>2, <1>3 DEF InferenceInv

\* Every reachable state has the invariant.
THEOREM InferenceCorrect == Spec => []InferenceInv
BY InferenceInit, InferenceStep, PTL DEF Spec

\* Whatever puts interleave without a lock, the cache is no longer than
\* max_entries once none is under way, and it only holds answers of charged,
\* unredacted requests that were not refused.
THEOREM CacheIsSound == Spec => []CacheSound
<1>1. InferenceInv => CacheSound
  BY DEF InferenceInv, CacheSound, CacheIsBounded, EntriesAreSound, FlowKnown, FlowOf
<1> QED
  BY <1>1, InferenceCorrect, PTL

\* An answer from the cache is of a similar prompt, though its entry may have
\* been evicted or replaced since the lookup.
THEOREM HitsMatch == Spec => []HitsMatchThePrompt
<1>1. InferenceInv => HitsMatchThePrompt
  BY DEF InferenceInv, MatchesAreSimilar
<1> QED
  BY <1>1, InferenceCorrect, PTL

\* A try-on that got as far as its thread leaves no copy of its inputs.
THEOREM InputsAreRemoved == Spec => []InputsRemoved
<1>1. InferenceInv => InputsRemoved
  BY DEF InferenceInv, InputsKept
<1> QED
  BY <1>1, InferenceCorrect, PTL

\* Every row has its object.  A completed try-on has all its rows and its
\* image in the store, or where there is none its image at its local path; and
\* that image is of a request with its request_id, itself if there is no other.
THEOREM CompletedAreStored == Spec => []CompletedIsStored
<1>1. InferenceInv => CompletedIsStored
  <2> SUFFICES ASSUME InferenceInv PROVE CompletedIsStored
    OBVIOUS
  <2>1. \A row \in rows : objects[<<slot[row[1]], row[2]>>] # {}
    BY DEF InferenceInv, StoredInOrder, RowsAreBacked
  <2>2. ASSUME NEW r \in Requests, Kind(r) = "vton", answer[r] = "completed", Stores(r)
        PROVE  /\ \A role \in Artifacts : <<r, role>> \in rows
               /\ objects[<<slot[r], "output">>] # {}
    <3>1. stored[r] = 8
      BY <2>2 DEF InferenceInv, StoredInOrder, StoringOf
    <3>2. \A i \in 1..4 : objects[<<slot[r], Order[i]>>] # {} /\ <<r, Order[i]>> \in rows
      <4>1. StoredOf(r)
        BY DEF InferenceInv, StoredInOrder
      <4>2. \A i \in 1..4 : stored[r] >= 2 * i - 1 /\ stored[r] >= 2 * i
        BY <3>1
      <4> QED
        BY <4>1, <4>2 DEF StoredOf
    <3>3. \A role \in Artifacts : \E i \in 1..4 : role = Order[i]
      BY DEF Artifacts, Order
    <3>4. "output" = Order[1]
      BY DEF Order
    <3> QED
      BY <3>2, <3>3, <3>4
  <2>3. ASSUME NEW r \in Requests, Kind(r) = "vton", answer[r] = "completed", ~Stores(r)
        PROVE  output[slot[r]] # {}
    BY <2>3 DEF InferenceInv, ImagesStay, DrawnFor
  <2>4. ASSUME NEW r \in Requests
        PROVE  Image(r) \subseteq {q \in Requests : slot[q] = slot[r]}
    <3>1. "output" \in Artifacts
      BY DEF Artifacts, Order
    <3>2. /\ slot[r] \in Slots /\ output[slot[r]] \subseteq Requests
          /\ objects[<<slot[r], "output">>] \subseteq Requests
      BY <3>1, TypesAreParts DEF InferenceInv, DiskTypes, StoreTypes
    <3>3. /\ \A q \in output[slot[r]] : slot[q] = slot[r]
          /\ \A q \in objects[<<slot[r], "output">>] : slot[q] = slot[r]
      BY <3>1, <3>2 DEF InferenceInv, StoredInOrder, OwnSlots
    <3> QED
      BY <3>2, <3>3 DEF Image
  <2> QED
    BY <2>1, <2>2, <2>3, <2>4 DEF CompletedIsStored, Image, Stores
<1> QED
  BY <1>1, InferenceCorrect, PTL

\* /metrics never shows more work than there is, though a reply to a caller
\* that left counts a request off twice, and the worker may stop at any time.
THEOREM GaugeIsNoOvercount == Spec => []GaugeNeverOvercounts
<1>1. InferenceInv => GaugeNeverOvercounts
  BY DEF InferenceInv
<1> QED
  BY <1>1, InferenceCorrect, PTL

\* A run only ever misses its inputs when nobody waits for it any more.
THEOREM InputsOutlive == Spec => InputsOutliveWait
<1>1. InferenceInv /\ [Next]_vars => [\A r \in starved' \ starved : thread[r] \in {"stray", "gone", "ready"}]_vars
  <2> SUFFICES ASSUME InferenceInv, [Next]_vars, NEW q \in starved' \ starved
               PROVE  thread[q] \in {"stray", "gone", "ready"}
    OBVIOUS
  <2> USE DEF worker, unmoved
  <2>1. ASSUME NEW r \in Requests, Serve(r) PROVE q = r /\ ~HasInputs(r) /\ post[r] # "none"
    <3> USE DEF worker
    <3>1. CASE BeginRequest(r)
      BY <3>1 DEF BeginRequest, PostGoes
    <3>2. CASE CheckMemory(r)
      BY <3>2 DEF CheckMemory, Fails
    <3>3. CASE TakeLock(r)
      BY <3>3 DEF TakeLock, PostGoes
    <3>4. CASE LoadPipeline(r)
      BY <3>4 DEF LoadPipeline, Fails
    <3>5. CASE ReadImages(r)
      BY <3>5 DEF ReadImages, Fails
    <3>6. CASE WriteImage(r)
      BY <3>6 DEF WriteImage, Fails
    <3>7. CASE WriteReport(r)
      BY <3>7 DEF WriteReport, Fails
    <3>8. CASE FinishRequest(r)
      BY <3>8 DEF FinishRequest, PostGoes
    <3>9. CASE Reply(r)
      BY <3>9 DEF Reply, PostGoes, Finish
    <3>10. CASE Refuse(r)
      BY <3>10 DEF Refuse, PostGoes, Finish
    <3> QED
      BY <2>1, <3>1, <3>2, <3>3, <3>4, <3>5, <3>6, <3>7, <3>8, <3>9, <3>10 DEF Serve
  <2>2. PICK r \in Requests : Serve(r)
    BY GenerateFrame, TryOnFrame
       DEF Next, Handle, Work, Admit, RunGeneration, CallWorker, CallFails, StopWorker, Stop, vars, InferenceInv
  <2>3. at[q] = "done" /\ post[q] # "none" /\ q \in Requests
    BY <2>1, <2>2 DEF InferenceInv, InputsKept
  <2> QED
    BY <2>3 DEF InferenceInv, FlowKnown, FlowOf, Awaiting
<1> QED
  BY <1>1, InferenceCorrect, PTL DEF Spec, InputsOutliveWait
=============================================================================
