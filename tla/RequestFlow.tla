---------------------------- MODULE RequestFlow ----------------------------
(***************************************************************************)
(* What the synchronous inference handlers of src/tryops/api.py share: the *)
(* step a request is at, the answer it gets, and the operation it hands to *)
(* a thread of its own and waits for no longer than its timeout            *)
(* (src/tryops/timeouts.py).                                               *)
(***************************************************************************)
EXTENDS Integers, FiniteSets

CONSTANT Requests   \* calls of POST /v1/llm/generate and /v1/vton/infer

VARIABLES
    at,       \* at[r]: the step of request r
    answer,   \* answer[r]: its status or error code, "none" until decided
    thread,   \* thread[r]: the thread of its operation
    result    \* result[r]: what the operation returned or raised

flow == <<at, answer>>
operation == <<thread, result>>

Goto(r, from, to) ==
    /\ at[r] = from
    /\ at' = [at EXCEPT ![r] = to]

Conclude(r, from, code, next) ==
    /\ Goto(r, from, next)
    /\ answer' = [answer EXCEPT ![r] = code]

Step(r, from, to) == Goto(r, from, to) /\ UNCHANGED answer

\* The operation goes to the queue of an executor made for it.
Submit(r) ==
    /\ thread' = [thread EXCEPT ![r] = "queued"]
    /\ result' = [result EXCEPT ![r] = "none"]

Start(r) ==
    /\ thread[r] = "queued"
    /\ thread' = [thread EXCEPT ![r] = "busy"]
    /\ UNCHANGED result

\* The thread ends: its result is kept for a request that waits, and dropped
\* when the request has given up on it.
Finish(r, outcome) ==
    \/ /\ thread[r] = "busy"
       /\ thread' = [thread EXCEPT ![r] = "ready"]
       /\ result' = [result EXCEPT ![r] = outcome]
    \/ /\ thread[r] = "stray"
       /\ thread' = [thread EXCEPT ![r] = "gone"]
       /\ UNCHANGED result

\* A plausible bug, used nowhere: shutdown(wait=True) after the deadline.
AbandonAfterEnd(r) ==
    /\ thread[r] = "queued"
    /\ thread' = [thread EXCEPT ![r] = "gone"]
    /\ UNCHANGED result

\* The deadline passes first: a queued operation is cancelled, one that runs
\* cannot be stopped and goes on, and the request does not wait for it.
Abandon(r) ==
    /\ thread[r] \in {"queued", "busy"}
    /\ thread' = [thread EXCEPT ![r] = IF @ = "queued" THEN "gone" ELSE "stray"]
    /\ UNCHANGED result

Running(r) == thread[r] \in {"busy", "stray"}
Threads == {"none", "queued", "busy", "ready", "stray", "gone"}
Results == {"none", "ok", "unavailable", "error"}
=============================================================================
