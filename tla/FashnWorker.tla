---------------------------- MODULE FashnWorker ----------------------------
(***************************************************************************)
(* One FASHN GPU worker: POST /v1/vton/infer of scripts/serve_fashn_vton.py *)
(* and the run of scripts/run_fashn_vton_single.py inside it.  The caller  *)
(* is the thread of RequestFlow; the router between them is transparent    *)
(* here (FashnRouter models it).  Requests with the same request_id share  *)
(* one output path, their slot.                                            *)
(***************************************************************************)
EXTENDS RequestFlow

CONSTANTS
    Slots,      \* output paths: one per account and request_id
    MaxStops    \* bound on the times the worker stops and is started again

ASSUME WorkerAssumption == MaxStops \in Nat

VARIABLES
    slot,      \* slot[r]: the output path the request of r names
    inputs,    \* the materialized inputs on disk: pairs of request and role
    fetched,   \* fetched[r]: the roles whose path is a materialized file
    post,      \* post[r]: where the worker's handler of r is
    holder,    \* the handlers that hold the worker's lock
    loaded,    \* the pipeline is loaded
    gauge,     \* inflight, as /metrics shows it
    output,    \* output[s]: the request whose image is at the output path, as a set
    sidecar,   \* sidecar[s]: the request whose report is next to it
    starved,   \* requests whose run found an input missing
    stops

worker == <<post, holder, loaded, gauge, starved, stops>>
paths == <<slot, fetched>>
disk == <<inputs, output, sidecar>>

Posts == {"none", "sent", "begun", "gated", "opening", "reading", "drawing",
          "hashing", "completed", "replying", "refusing", "ended"}
Working == {"opening", "reading", "drawing", "hashing"}
Counted == {"begun", "gated", "completed"} \union Working

HasInputs(r) == \A role \in fetched[r] : <<r, role>> \in inputs

Lowered == IF gauge = 0 THEN 0 ELSE gauge - 1

PostGoes(r, from, to) ==
    /\ post[r] = from
    /\ post' = [post EXCEPT ![r] = to]

\* A plausible bug, used nowhere: an error is answered before it is counted off.
FailsTwice(r) ==
    /\ post' = [post EXCEPT ![r] = "refusing"]
    /\ holder' = holder \ {r}
    /\ UNCHANGED gauge

\* The handler leaves an error: the lock is released, finish_request lowers the gauge.
Fails(r) ==
    /\ post' = [post EXCEPT ![r] = "refusing"]
    /\ holder' = holder \ {r}
    /\ gauge' = Lowered

-----------------------------------------------------------------------------
\* The server starts a thread for a connection: its caller may have left already.
BeginRequest(r) ==
    /\ PostGoes(r, "sent", "begun")
    /\ gauge' = gauge + 1
    /\ UNCHANGED <<holder, loaded, starved, stops, disk, paths, flow, operation>>

\* _ensure_memory_budget, before the lock is taken.
CheckMemory(r) ==
    /\ post[r] = "begun"
    /\ \/ /\ post' = [post EXCEPT ![r] = "gated"]
          /\ UNCHANGED <<gauge, holder>>
       \/ ~loaded /\ Fails(r)
    /\ UNCHANGED <<loaded, starved, stops, disk, paths, flow, operation>>

TakeLock(r) ==
    /\ PostGoes(r, "gated", "opening")
    /\ holder = {}
    /\ holder' = {r}
    /\ UNCHANGED <<loaded, gauge, starved, stops, disk, paths, flow, operation>>

\* The paths must exist; then the pipeline is loaded, which may fail.
LoadPipeline(r) ==
    /\ post[r] = "opening"
    /\ \/ /\ HasInputs(r)
          /\ post' = [post EXCEPT ![r] = "reading"]
          /\ loaded' = TRUE
          /\ UNCHANGED <<holder, gauge, starved>>
       \/ /\ ~loaded \/ ~HasInputs(r)
          /\ Fails(r)
          /\ starved' = starved \union {q \in {r} : ~HasInputs(r)}
          /\ UNCHANGED loaded
    /\ UNCHANGED <<stops, disk, paths, flow, operation>>

ReadImages(r) ==
    /\ post[r] = "reading"
    /\ \/ /\ HasInputs(r)
          /\ post' = [post EXCEPT ![r] = "drawing"]
          /\ UNCHANGED <<holder, gauge, starved>>
       \/ /\ ~HasInputs(r)
          /\ Fails(r)
          /\ starved' = starved \union {r}
    /\ UNCHANGED <<loaded, stops, disk, paths, flow, operation>>

\* The pipeline runs and the image is written; either may raise.
WriteImage(r) ==
    /\ post[r] = "drawing"
    /\ \/ /\ post' = [post EXCEPT ![r] = "hashing"]
          /\ output' = [output EXCEPT ![slot[r]] = {r}]
          /\ UNCHANGED <<holder, gauge>>
       \/ Fails(r) /\ UNCHANGED output
    /\ UNCHANGED <<loaded, starved, stops, inputs, sidecar, paths, flow, operation>>

\* The report hashes the inputs and the image again before it is written beside it.
WriteReport(r) ==
    /\ post[r] = "hashing"
    /\ \/ /\ HasInputs(r) /\ output[slot[r]] # {}
          /\ post' = [post EXCEPT ![r] = "completed"]
          /\ holder' = holder \ {r}
          /\ sidecar' = [sidecar EXCEPT ![slot[r]] = {r}]
          /\ UNCHANGED <<gauge, starved>>
       \/ /\ ~HasInputs(r) \/ output[slot[r]] = {}
          /\ Fails(r)
          /\ starved' = starved \union {q \in {r} : ~HasInputs(r)}
          /\ UNCHANGED sidecar
    /\ UNCHANGED <<loaded, stops, inputs, output, paths, flow, operation>>

FinishRequest(r) ==
    /\ PostGoes(r, "completed", "replying")
    /\ gauge' = Lowered
    /\ UNCHANGED <<holder, loaded, starved, stops, disk, paths, flow, operation>>

\* A reply to a caller that left may raise BrokenPipeError: the handler's
\* except clause finishes the request a second time.
Reply(r) ==
    /\ PostGoes(r, "replying", "ended")
    /\ \/ Finish(r, "ok") /\ UNCHANGED gauge
       \/ /\ ~Running(r)
          /\ gauge' \in {gauge, Lowered}
          /\ UNCHANGED operation
    /\ UNCHANGED <<holder, loaded, starved, stops, disk, paths, flow>>

Refuse(r) ==
    /\ PostGoes(r, "refusing", "ended")
    /\ \/ Finish(r, "unavailable")
       \/ ~Running(r) /\ UNCHANGED operation
    /\ UNCHANGED <<holder, loaded, gauge, starved, stops, disk, paths, flow>>

\* The process stops: its handlers, lock and counters are gone, its files are not.
Stop ==
    /\ stops < MaxStops
    /\ stops' = stops + 1
    /\ post' = [r \in Requests |-> IF post[r] = "none" THEN "none" ELSE "ended"]
    /\ holder' = {}
    /\ loaded' = FALSE
    /\ gauge' = 0
    /\ UNCHANGED <<starved, disk, paths, flow, operation>>

Serve(r) ==
    \/ BeginRequest(r) \/ CheckMemory(r) \/ TakeLock(r) \/ LoadPipeline(r) \/ ReadImages(r)
    \/ WriteImage(r) \/ WriteReport(r) \/ FinishRequest(r) \/ Reply(r) \/ Refuse(r)

-----------------------------------------------------------------------------
\* The gauge of /metrics may be too low after a caller left, but it never shows
\* more work than there is (begin_request and finish_request of FashnVtonService).
GaugeNeverOvercounts == gauge <= Cardinality({r \in Requests : post[r] \in Counted})
=============================================================================
