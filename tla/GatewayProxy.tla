---------------------------- MODULE GatewayProxy ----------------------------
(***************************************************************************)
(* The /api routes of the Rust gateway (handlers.rs proxy_api).  A handler *)
(* runs its checks without awaiting, takes a unit of its key's minute      *)
(* under the rate ledger's lock, may wait for the guardrail sidecar, and   *)
(* forwards the request.  Handlers run on several threads, and the server  *)
(* drops the handler of a client that has gone at whatever await it is in: *)
(* nothing after that await runs.                                          *)
(***************************************************************************)
EXTENDS Integers, FiniteSets

CONSTANTS
    Forwards,    \* requests to /api
    RateKey,     \* RateKey[r]: tenant, API key or address of request r
    Guarded,     \* the generations, which the sidecar looks at
    RateLimit,   \* requests of a key in a minute
    LastMinute   \* bound: how far the clock runs

ASSUME ProxyAssumption ==
    /\ IsFiniteSet(Forwards)
    /\ Guarded \subseteq Forwards
    /\ RateLimit \in Nat
    /\ LastMinute \in Nat

VARIABLES
    leg,        \* leg[r]: where the handler of r is
    minute,     \* current_minute_window
    usage,      \* usage[w, k]: units of key k taken in minute w
    inflight,   \* the gauge tryops_gateway_proxy_inflight
    recorded,   \* the sum of tryops_gateway_requests_total over the /api routes
    passed      \* history: passed[r], the minute r took a unit in, or -1

proxyVars == <<leg, minute, usage, inflight, recorded, passed>>

Keys == {RateKey[r] : r \in Forwards}

\* "leaked" is a handler that was dropped between the two updates of the gauge.
Legs == {"absent", "arriving", "rating", "guarding", "ready", "sending", "reading",
         "answered", "dropped", "leaked"}

ProxyInit ==
    /\ \E first \in {"absent", "arriving"} : leg = [r \in Forwards |-> first]
    /\ minute = 0
    /\ usage = [unit \in (0..LastMinute) \X Keys |-> 0]
    /\ inflight = 0
    /\ recorded = 0
    /\ passed = [r \in Forwards |-> -1]

Move(r, from, to) ==
    /\ leg[r] = from
    /\ leg' = [leg EXCEPT ![r] = to]

\* record_gateway_request and the answer.
Conclude(r, from) == Move(r, from, "answered") /\ recorded' = recorded + 1

-----------------------------------------------------------------------------

\* The checks before the ledger: size, route, signature, artifact path,
\* credentials.  Each of them may end the request.
Preflight(r) ==
    /\ \/ Conclude(r, "arriving")
       \/ Move(r, "arriving", "rating") /\ UNCHANGED recorded
    /\ UNCHANGED <<minute, usage, inflight, passed>>

AfterRate(r) == IF r \in Guarded THEN "guarding" ELSE "ready"

TakeUnit(r) ==
    /\ usage' = [usage EXCEPT ![<<minute, RateKey[r]>>] = @ + 1]
    /\ passed' = [passed EXCEPT ![r] = minute]

\* A plausible bug, used nowhere: the unit is taken after the lock was released.
RateUnlocked(r) ==
    /\ \/ /\ usage[<<minute, RateKey[r]>>] < RateLimit
          /\ Move(r, "rating", "ready")
          /\ UNCHANGED <<usage, passed, recorded>>
       \/ /\ passed[r] = -1
          /\ Move(r, "ready", AfterRate(r))
          /\ TakeUnit(r)
          /\ UNCHANGED recorded
       \/ /\ usage[<<minute, RateKey[r]>>] >= RateLimit
          /\ Conclude(r, "rating")
          /\ UNCHANGED <<usage, passed>>
    /\ UNCHANGED <<minute, inflight>>

\* check_and_record, with the minute read under the lock; a request that is
\* refused takes nothing.
Rate(r) ==
    /\ \/ /\ usage[<<minute, RateKey[r]>>] < RateLimit
          /\ Move(r, "rating", AfterRate(r))
          /\ TakeUnit(r)
          /\ UNCHANGED recorded
       \/ /\ usage[<<minute, RateKey[r]>>] >= RateLimit
          /\ Conclude(r, "rating")
          /\ UNCHANGED <<usage, passed>>
    /\ UNCHANGED <<minute, inflight>>

\* The sidecar lets the prompt pass; or blocks it, fails or is not there.
Guard(r) ==
    /\ \/ Move(r, "guarding", "ready") /\ UNCHANGED recorded
       \/ Conclude(r, "guarding")
    /\ UNCHANGED <<minute, usage, inflight, passed>>

Forward(r) ==
    /\ Move(r, "ready", "sending")
    /\ inflight' = inflight + 1
    /\ UNCHANGED <<minute, usage, recorded, passed>>

\* record_proxy_inflight_delta(-1) saturates.
Lowered == IF inflight = 0 THEN 0 ELSE inflight - 1

Unreachable(r) ==
    /\ Conclude(r, "sending")
    /\ inflight' = Lowered
    /\ UNCHANGED <<minute, usage, passed>>

\* The head of the answer is there; the gauge no longer counts the request.
HeadArrives(r) ==
    /\ Move(r, "sending", "reading")
    /\ inflight' = Lowered
    /\ UNCHANGED <<minute, usage, recorded, passed>>

\* The body, or none when it breaks off: the status stays the upstream's.
BodyEnds(r) == Conclude(r, "reading") /\ UNCHANGED <<minute, usage, inflight, passed>>

Drop(r) ==
    /\ \/ Move(r, "guarding", "dropped")
       \/ Move(r, "sending", "leaked")
       \/ Move(r, "reading", "dropped")
    /\ UNCHANGED <<minute, usage, inflight, recorded, passed>>

Tick ==
    /\ minute < LastMinute
    /\ minute' = minute + 1
    /\ UNCHANGED <<leg, usage, inflight, recorded, passed>>

ProxyNext ==
    \/ \E r \in Forwards :
          \/ Preflight(r) \/ Rate(r) \/ Guard(r) \/ Forward(r) \/ Unreachable(r)
          \/ HeadArrives(r) \/ BodyEnds(r) \/ Drop(r)
    \/ Tick

ProxySpec == ProxyInit /\ [][ProxyNext]_proxyVars

-----------------------------------------------------------------------------

ProxyTypeOK ==
    /\ leg \in [Forwards -> Legs]
    /\ minute \in 0..LastMinute
    /\ usage \in [(0..LastMinute) \X Keys -> Nat]
    /\ inflight \in Nat
    /\ recorded \in Nat
    /\ passed \in [Forwards -> {-1} \union 0..LastMinute]

PassedIn(w, k) == {r \in Forwards : passed[r] = w /\ RateKey[r] = k}
On(legs) == {r \in Forwards : leg[r] \in legs}

RateLedgerAgrees ==
    \A w \in 0..LastMinute, k \in Keys :
        usage[<<w, k>>] <= RateLimit /\ usage[<<w, k>>] = Cardinality(PassedIn(w, k))
CounterAgrees == recorded = Cardinality(On({"answered"}))
GaugeAgrees == inflight = Cardinality(On({"sending", "leaked"}))

(* However handlers interleave and are dropped, no key gets more than its  *)
(* units of a minute (so up to twice as many around the turn of one), the  *)
(* request counter is the number of answers, and the gauge is the number   *)
(* of requests that wait for the head of an answer, plus one for ever for  *)
(* each client that left while its request did (handlers.rs:602-637).      *)
EdgeLedgersAgree == RateLedgerAgrees /\ CounterAgrees /\ GaugeAgrees
=============================================================================
