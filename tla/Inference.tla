----------------------------- MODULE Inference -----------------------------
(***************************************************************************)
(* The two synchronous inference endpoints of src/tryops/api.py, from the  *)
(* payload to the answer: POST /v1/llm/generate over the shared prompt     *)
(* cache, and POST /v1/vton/infer over a GPU worker, the local disk, the   *)
(* object store and the artifacts table.  What a payload says is drawn     *)
(* where the code reads it; what the code reads twice is in ask.           *)
(***************************************************************************)
EXTENDS SemanticCache, FashnWorker

CONSTANTS
    Scenarios  \* what the requests may be: records of ask and slot, functions of Requests, and preload

VARIABLES
    ask,      \* ask[r]: kind, cache key, cache and shadow wanted, redacted, artifacts as inputs, storage
    served,   \* served[r]: the cache entry the answer was taken from, as a set
    charged,  \* requests the quota ledger has charged
    stored,   \* stored[r]: how far the artifacts of r are stored
    objects,  \* objects[<<s, role>>]: the request whose bytes are in the store, as a set
    rows      \* rows of artifact_objects: their request and role

api == <<ask, served, charged>>
store == <<stored, objects, rows>>
vars == <<flow, operation, cache, worker, paths, disk, api, store>>

\* The order in which _persist_vton_runtime_artifacts stores them.
Order == <<"output", "person", "garment", "report">>
Roles == {"person", "garment"}
Artifacts == {Order[i] : i \in DOMAIN Order}

\* What the environment makes of the files of a try-on: no object store is
\* configured, they are moved to it, or TRYOPS_KEEP_LOCAL_RUNTIME_ARTIFACTS
\* leaves the local ones too.
Storages == {"none", "moved", "copied"}

\* What a request may be: a generation or a try-on.
Ask == [kind : {"llm", "vton"}, key : Keys, cache : BOOLEAN, redacted : BOOLEAN,
        shadow : BOOLEAN, artifacts : SUBSET Roles, storage : Storages]

ASSUME ScenariosAreAsked ==
    \A scene \in Scenarios :
        /\ scene.ask \in [Requests -> Ask]
        /\ \A r, q \in Requests : scene.ask[r].storage = scene.ask[q].storage
        /\ scene.slot \in [Requests -> Slots]
        /\ scene.preload \in BOOLEAN

Init ==
    /\ at = [r \in Requests |-> "arrived"]
    /\ answer = [r \in Requests |-> "none"]
    /\ thread = [r \in Requests |-> "none"]
    /\ result = [r \in Requests |-> "none"]
    /\ CacheInit
    /\ \E scene \in Scenarios : ask = scene.ask /\ slot = scene.slot /\ loaded = scene.preload
    /\ fetched = [r \in Requests |-> {}]
    /\ inputs = {}
    /\ post = [r \in Requests |-> "none"]
    /\ holder = {}
    /\ gauge = 0
    /\ output = [s \in Slots |-> {}]
    /\ sidecar = [s \in Slots |-> {}]
    /\ starved = {}
    /\ stops = 0
    /\ served = [r \in Requests |-> {}]
    /\ charged = {}
    /\ stored = [r \in Requests |-> 0]
    /\ objects = [o \in Slots \X Artifacts |-> {}]
    /\ rows = {}

Kind(r) == ask[r].kind
unmoved == <<cache, worker, paths, disk, store>>

-----------------------------------------------------------------------------
(* Before the model is called.                                             *)

\* The answers given on the payload alone.
EarlyRefusals(kind) ==
    IF kind = "llm"
    THEN {"invalid_llm_request", "guardrail_blocked", "fallback_disabled", "baseline_disabled"}
    ELSE {"invalid_vton_request", "baseline_disabled"}

Admit(r) ==
    /\ \/ \E code \in {"unauthorized"} \union EarlyRefusals(Kind(r)) :
              Conclude(r, "arrived", code, "done")
       \/ Step(r, "arrived", IF Kind(r) = "llm" THEN "charging" ELSE "checking")
    /\ UNCHANGED <<operation, api, unmoved>>

\* Routing, then one quota check that charges what it allows.
ChargeGeneration(r) ==
    /\ \/ /\ \E code \in {"llm_generation_failed", "quota_exceeded"} :
                 Conclude(r, "charging", code, "done")
          /\ UNCHANGED charged
       \/ /\ Step(r, "charging", "charged")
          /\ charged' = charged \union {r}
    /\ UNCHANGED <<ask, served, operation, unmoved>>

CacheAllowed(r) == ask[r].cache /\ ~ask[r].redacted

CheckCacheConfigured(r) ==
    /\ \/ Conclude(r, "charged", "baseline_disabled", "done")
       \/ /\ ask[r].cache
          /\ \E code \in {"semantic_cache_disabled", "semantic_cache_native_unavailable"} :
                 Conclude(r, "charged", code, "done")
       \/ Step(r, "charged", IF CacheAllowed(r) THEN "looking" ELSE "submitting")
    /\ UNCHANGED <<operation, api, unmoved>>

\* The matcher's answer may be no JSON; its own timeout is no
\* RequestTimeoutError: nothing catches it.
LookUpCache(r) ==
    /\ \/ Lookup(r, ask[r].key, "looking", "getting") /\ UNCHANGED answer
       \/ /\ \E code \in {"llm_generation_failed", "server_error"} :
                 Conclude(r, "looking", code, "done")
          /\ UNCHANGED cache
    /\ UNCHANGED <<operation, api, worker, paths, disk, store>>

GetGeneration(r) ==
    /\ Step(r, "getting", IF Matches(r) = {} THEN "submitting" ELSE "guarding")
    /\ served' = [served EXCEPT ![r] = Matches(r)]
    /\ UNCHANGED <<ask, charged, operation, unmoved>>

-----------------------------------------------------------------------------
(* The model, its shadow and the guardrails on the output.                 *)

SubmitGeneration(r) ==
    /\ Step(r, "submitting", "generating")
    /\ Submit(r)
    /\ UNCHANGED <<api, unmoved>>

Generates(r) == at[r] \in {"generating", "shadowing"}

\* The serving endpoint answers, is out of reach, or the prompt is refused
\* by the adapter: redaction may have made it longer than its limit.
RunGeneration(r) ==
    /\ Kind(r) = "llm"
    /\ \/ Start(r)
       \/ \E outcome \in {"ok", "unavailable"} \union {e \in {"error"} : ask[r].redacted} :
              Finish(r, outcome)
    /\ UNCHANGED <<flow, api, unmoved>>

Refusal == [unavailable |-> "real_llm_unavailable", error |-> "llm_generation_failed"]

\* A shadow route is a second call, waited for like the first.
AwaitGeneration(r) ==
    /\ Generates(r)
    /\ thread[r] = "ready"
    /\ \/ /\ result[r] = "ok"
          /\ IF at[r] = "generating" /\ ask[r].shadow
             THEN Step(r, "generating", "shadowing") /\ Submit(r)
             ELSE Step(r, at[r], "guarding") /\ UNCHANGED operation
       \/ /\ result[r] # "ok"
          /\ Conclude(r, at[r], Refusal[result[r]], "done")
          /\ UNCHANGED operation
    /\ UNCHANGED <<api, unmoved>>

GenerationTimeout(r) ==
    /\ Generates(r)
    /\ Conclude(r, at[r], "timeout_exceeded", "done")
    /\ Abandon(r)
    /\ UNCHANGED <<api, unmoved>>

\* Only an answer that was generated here, and passed, goes to the cache.
GuardOutput(r) ==
    /\ \/ Conclude(r, "guarding", "guardrail_output_blocked", "done")
       \/ Step(r, "guarding", IF served[r] = {} /\ CacheAllowed(r) THEN "filtering" ELSE "sending")
    /\ UNCHANGED <<operation, api, unmoved>>

PutGeneration(r) ==
    /\ \/ FilterList(r, ask[r].key) \/ Rebind(r) \/ Load(r) \/ AppendEntry(r, ask[r].key)
       \/ Measure(r, "sending") \/ Slice(r) \/ Trim(r, "sending")
    /\ UNCHANGED <<answer, operation, api, worker, paths, disk, store>>

SendGeneration(r) ==
    /\ Conclude(r, "sending", "completed", "done")
    /\ UNCHANGED <<operation, api, unmoved>>

Generate(r) ==
    \/ ChargeGeneration(r) \/ CheckCacheConfigured(r) \/ LookUpCache(r) \/ GetGeneration(r)
    \/ SubmitGeneration(r) \/ AwaitGeneration(r) \/ GenerationTimeout(r) \/ GuardOutput(r)
    \/ PutGeneration(r) \/ SendGeneration(r)

-----------------------------------------------------------------------------
(* A try-on: the inputs, the worker's run, the artifacts, the charge.      *)

\* The quota is only asked here, and charged when all is stored.
CheckTryOn(r) ==
    /\ \/ \E code \in {"quota_exceeded", "unsupported_vton_adapter"} :
              Conclude(r, "checking", code, "done")
       \/ Step(r, "checking", "person")
    /\ UNCHANGED <<operation, api, unmoved>>

\* An input is a local file, or an artifact copied from the object store, if
\* there is one, to a file of its own.  The list of files to remove is known
\* when both are there.
Materialize(r, role, next) ==
    /\ \/ role \notin ask[r].artifacts /\ Step(r, role, next) /\ UNCHANGED <<inputs, fetched>>
       \/ /\ role \in ask[r].artifacts /\ ask[r].storage # "none"
          /\ Step(r, role, next)
          /\ inputs' = inputs \union {<<r, role>>}
          /\ fetched' = [fetched EXCEPT ![r] = @ \union {role}]
       \/ /\ role \in ask[r].artifacts
          /\ \E code \in {"artifact_storage_unavailable", "vton_inference_failed", "server_error"} :
                 Conclude(r, role, code, "done")
          /\ UNCHANGED <<inputs, fetched>>
    /\ UNCHANGED <<slot, output, sidecar, operation, cache, worker, api, store>>

SubmitTryOn(r) ==
    /\ Step(r, "ready", "running")
    /\ Submit(r)
    /\ UNCHANGED <<api, unmoved>>

\* A plausible bug, used nowhere: the inputs are removed once the call was made.
CallWorkerAndClean(r) ==
    /\ Kind(r) = "vton"
    /\ Start(r)
    /\ PostGoes(r, "none", "sent")
    /\ inputs' = inputs \ ({r} \X Roles)
    /\ UNCHANGED <<output, sidecar, holder, loaded, gauge, starved, stops, flow, api, cache, paths, store>>

CallWorker(r) ==
    /\ Kind(r) = "vton"
    /\ Start(r)
    /\ PostGoes(r, "none", "sent")
    /\ UNCHANGED <<holder, loaded, gauge, starved, stops, flow, api, cache, paths, disk, store>>

\* The call ends without the worker: its own timeout, or a failure on the way.
CallFails(r) ==
    /\ Kind(r) = "vton"
    /\ Finish(r, "unavailable")
    /\ UNCHANGED <<flow, api, unmoved>>

AwaitTryOn(r) ==
    /\ thread[r] = "ready"
    /\ \/ result[r] = "ok" /\ Step(r, "running", "reporting")
       \/ result[r] # "ok" /\ Conclude(r, "running", "real_vton_unavailable", "cleaning")
    /\ UNCHANGED <<operation, api, unmoved>>

TryOnTimeout(r) ==
    /\ Conclude(r, "running", "timeout_exceeded", "cleaning")
    /\ Abandon(r)
    /\ UNCHANGED <<api, unmoved>>

\* The report is written again beside the output, with the native evidence in it.
WriteSidecar(r) ==
    /\ \/ /\ Step(r, "reporting", "storing")
          /\ sidecar' = [sidecar EXCEPT ![slot[r]] = {r}]
       \/ /\ Conclude(r, "reporting", "vton_inference_failed", "cleaning")
          /\ UNCHANGED sidecar
    /\ UNCHANGED <<inputs, output, operation, cache, worker, paths, api, store>>

\* A plausible bug, used nowhere: the object key leaves the request_id out.
PlaceOfAccount(r) == <<CHOOSE s \in Slots : TRUE, Order[stored[r] \div 2 + 1]>>

Place(r) == <<slot[r], Order[stored[r] \div 2 + 1]>>
IsPut(r) == stored[r] % 2 = 0
Source(r) == IF Place(r)[2] = "output" THEN output[slot[r]] ELSE {r}

\* Each artifact is put under the key of its request_id, then gets its row.
Persist(r) ==
    /\ at[r] = "storing" /\ ask[r].storage # "none"
    /\ stored' = [stored EXCEPT ![r] = @ + 1]
    /\ Step(r, "storing", IF stored[r] = 7 THEN "removing" ELSE "storing")
    /\ IF IsPut(r)
       THEN /\ Source(r) # {}
            /\ objects' = [objects EXCEPT ![Place(r)] = Source(r)]
            /\ UNCHANGED rows
       ELSE /\ rows' = rows \union {<<r, Place(r)[2]>>}
            /\ UNCHANGED objects

\* A file to be put may be gone, the output because a request with the same
\* request_id has stored and removed it, or be no image, half written by such
\* a request.  The object store and the database may fail at every call, with
\* errors of which only some are caught.
PersistErrors(r) ==
    {"server_error"} \union (IF IsPut(r) THEN {"artifact_storage_unavailable", "vton_inference_failed"} ELSE {})

PersistFails(r) ==
    /\ at[r] = "storing" /\ ask[r].storage # "none"
    /\ \E code \in PersistErrors(r) : Conclude(r, "storing", code, "cleaning")
    /\ UNCHANGED store

\* Without an object store nothing is stored.  The output of a report is
\* always the local path that the API chose.
SkipStorage(r) ==
    /\ ask[r].storage = "none"
    /\ Step(r, "storing", "paying")
    /\ UNCHANGED store

StoreArtifacts(r) ==
    /\ SkipStorage(r) \/ Persist(r) \/ PersistFails(r)
    /\ UNCHANGED <<operation, cache, worker, paths, disk, api>>

RemoveLocal(r) ==
    /\ \/ /\ ask[r].storage = "copied"
          /\ Step(r, "removing", "paying")
          /\ UNCHANGED <<output, sidecar>>
       \/ /\ ask[r].storage = "moved"
          /\ Step(r, "removing", "paying")
          /\ output' = [output EXCEPT ![slot[r]] = {}]
          /\ sidecar' = [sidecar EXCEPT ![slot[r]] = {}]
       \/ /\ ask[r].storage = "moved"
          /\ Conclude(r, "removing", "vton_inference_failed", "cleaning")
          /\ output' \in {output, [output EXCEPT ![slot[r]] = {}]}
          /\ UNCHANGED sidecar
    /\ UNCHANGED <<inputs, operation, cache, worker, paths, api, store>>

\* The verdict of the second check is not looked at: it is only part of the answer.
ChargeTryOn(r) ==
    /\ Conclude(r, "paying", "completed", "cleaning")
    /\ charged' \in {charged, charged \union {r}}
    /\ UNCHANGED <<ask, served, operation, unmoved>>

\* A plausible bug, used nowhere: the files are removed on success only.
CleanUpCompleted(r) ==
    /\ Step(r, "cleaning", "done")
    /\ inputs' = IF answer[r] = "completed" THEN inputs \ ({r} \X Roles) ELSE inputs
    /\ UNCHANGED <<output, sidecar, operation, cache, worker, paths, api, store>>

CleanUp(r) ==
    /\ Step(r, "cleaning", "done")
    /\ inputs' = inputs \ ({r} \X Roles)
    /\ UNCHANGED <<output, sidecar, operation, cache, worker, paths, api, store>>

TryOn(r) ==
    \/ CheckTryOn(r) \/ Materialize(r, "person", "garment") \/ Materialize(r, "garment", "ready")
    \/ SubmitTryOn(r) \/ AwaitTryOn(r) \/ TryOnTimeout(r) \/ WriteSidecar(r)
    \/ StoreArtifacts(r) \/ RemoveLocal(r) \/ ChargeTryOn(r) \/ CleanUp(r)

-----------------------------------------------------------------------------
\* Steps of the API process for r; steps of the threads and processes it waits for.
Handle(r) == Admit(r) \/ Generate(r) \/ TryOn(r)

Work(r) ==
    \/ RunGeneration(r) \/ CallWorker(r) \/ CallFails(r)
    \/ Serve(r) /\ UNCHANGED <<cache, api, store>>

StopWorker == Stop /\ UNCHANGED <<cache, api, store>>

Next ==
    \/ \E r \in Requests : Handle(r) \/ Work(r)
    \/ StopWorker

Spec == Init /\ [][Next]_vars

\* The API process runs and its clock moves on; nothing else is relied on.
FairSpec == Spec /\ \A r \in Requests : WF_vars(Handle(r))

-----------------------------------------------------------------------------
\* The steps of a generation and of a try-on, and what a request is answered.
GenerationSteps ==
    {"charging", "charged", "looking", "getting", "submitting", "generating", "shadowing",
     "guarding", "filtering", "rebinding", "sending"} \union Settling
TryOnSteps ==
    {"checking", "person", "garment", "ready", "running", "reporting", "storing",
     "removing", "paying", "cleaning"}
Answers ==
    {"none", "completed", "unauthorized", "quota_exceeded", "timeout_exceeded", "server_error"}
        \union EarlyRefusals("llm") \union EarlyRefusals("vton")
        \union {"semantic_cache_disabled", "semantic_cache_native_unavailable",
                "real_llm_unavailable", "llm_generation_failed", "guardrail_output_blocked"}
        \union {"unsupported_vton_adapter", "artifact_storage_unavailable",
                "real_vton_unavailable", "vton_inference_failed"}

TypeOK ==
    /\ at \in [Requests -> {"arrived", "done"} \union GenerationSteps \union TryOnSteps]
    /\ answer \in [Requests -> Answers]
    /\ thread \in [Requests -> Threads] /\ result \in [Requests -> Results]
    /\ lists \in [Objects -> SUBSET Entry] /\ current \in Objects
    /\ held \in [Requests -> Objects] /\ appends \in Nat
    /\ matched \in [Requests -> SUBSET Keys]
    /\ slot \in [Requests -> Slots] /\ fetched \in [Requests -> SUBSET Roles]
    /\ inputs \subseteq Requests \X Roles
    /\ post \in [Requests -> Posts] /\ holder \subseteq Requests
    /\ loaded \in BOOLEAN /\ gauge \in Nat /\ stops \in 0..MaxStops
    /\ starved \subseteq Requests
    /\ output \in [Slots -> SUBSET Requests] /\ sidecar \in [Slots -> SUBSET Requests]
    /\ \E scene \in Scenarios : ask = scene.ask /\ slot = scene.slot
    /\ served \in [Requests -> SUBSET Entry]
    /\ charged \subseteq Requests /\ stored \in [Requests -> 0..8]
    /\ objects \in [Slots \X Artifacts -> SUBSET Requests]
    /\ rows \subseteq Requests \X Artifacts

\* Whatever puts interleaved: once none is under way the cache holds no more
\* than max_entries entries (SemanticCache.put), and what is in any of its
\* lists was generated for a request that was charged, whose prompt was not
\* redacted and whose answer was not refused (llm_generate,
\* docs/serving_controls.md).
CacheSound ==
    /\ (\A r \in Requests : at[r] \notin Settling) => Cardinality(Cached) <= MaxEntries
    /\ \A o \in Objects : \A e \in lists[o] :
          e.by \in Requests =>
              /\ e.by \in charged
              /\ ~ask[e.by].redacted
              /\ answer[e.by] \in {"none", "completed"}

\* An answer taken from the cache is of a prompt that matches the request's
\* own, whatever was evicted or replaced since the lookup (get_generation).
HitsMatchThePrompt ==
    \A r \in Requests : \A e \in served[r] : <<ask[r].key, e.id>> \in Similar

\* A run that finds an input of its own missing is one nobody waits for.
\* (the finally clause of _vton_infer_impl against the thread that goes on)
InputsOutliveWait ==
    [][\A r \in starved' \ starved : thread[r] \in {"stray", "gone", "ready"}]_vars

\* A request that got as far as its thread leaves no copy of its inputs, on any path.
InputsRemoved ==
    \A r \in Requests :
        at[r] = "done" /\ thread[r] # "none" => ~\E role \in Roles : <<r, role>> \in inputs

\* No row names an object that is not in the store.  The image of a completed
\* try-on is in the store, with the rows of all its artifacts, or where there
\* is none at its local path; and it was made for a request with that
\* request_id: for the try-on itself, unless another has the same one
\* (_persist_vton_runtime_artifacts, serve_fashn_vton.py).
Image(r) == IF ask[r].storage = "none" THEN output[slot[r]] ELSE objects[<<slot[r], "output">>]
CompletedIsStored ==
    /\ \A row \in rows : objects[<<slot[row[1]], row[2]>>] # {}
    /\ \A r \in Requests :
           Kind(r) = "vton" /\ answer[r] = "completed" =>
               /\ ask[r].storage # "none" => \A role \in Artifacts : <<r, role>> \in rows
               /\ Image(r) # {} /\ Image(r) \subseteq {q \in Requests : slot[q] = slot[r]}

\* Every request ends, whatever the model, the matcher or the worker does (run_with_timeout).
RequestsEnd == \A r \in Requests : <>(at[r] = "done")
=============================================================================
