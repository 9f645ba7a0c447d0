--------------------------- MODULE QuotaAdmission ---------------------------
(***************************************************************************)
(* Daily quota of one user on one plan, with TRYOPS_QUOTA_GATEWAY_URL set  *)
(* and Postgres admission on: API processes (src/tryops/quota.py and the   *)
(* workload handlers of api.py) ask a Rust gateway, which decides in a     *)
(* Postgres transaction shared by all gateways, overwrites its own ledger  *)
(* with the result and adds to a Valkey counter (check_quota in            *)
(* handlers.rs, quota_durable.rs).  An API process that gets no decision   *)
(* in time decides with a ledger of its own.  Caller and handler are two   *)
(* threads of control: a handler can outlive the caller's timeout.         *)
(***************************************************************************)
EXTENDS Integers, FiniteSets

CONSTANTS
    Requests,    \* calls of POST /llm/generate and /vton/infer
    Apis,        \* API processes
    Gateways,    \* gateway processes
    GatewayOf,   \* GatewayOf[a]: the gateway at the TRYOPS_QUOTA_GATEWAY_URL of a
    TokenSizes,  \* the values of estimated_tokens
    Limit        \* Limit[d]: PLAN_LIMITS of the plan

Dimensions == 1 .. 3   \* in the order of their names:
LlmRequests == 1       \* llm_requests_per_day
LlmTokens == 2         \* llm_tokens_per_day
VtonRequests == 3      \* vton_requests_per_day

ASSUME QuotaAssumption ==
    /\ GatewayOf \in [Apis -> Gateways]
    /\ TokenSizes \subseteq Nat
    /\ Limit \in [Dimensions -> Nat]

VARIABLES
    ask,        \* ask[q]: what request q is and which API process serves it
    used,       \* used[d]: the committed row of tryops_quota_usage, 0 when absent
    rowLock,    \* rowLock[d]: the transaction that holds the row, at most one
    client,     \* client[g]: the handler that holds the Postgres client mutex
    mirror,     \* mirror[g]: the gateway's own QuotaLedger
    valkey,     \* valkey[d]: the Valkey counter
    serve,      \* serve[q]: where the gateway's handler for q is
    todo,       \* todo[q]: dimensions left in its current loop
    fits,       \* fits[q]: every dimension checked so far allows the request
    decided,    \* decided[q]: used_after of each dimension
    outcome,    \* outcome[q]: what the handler answered
    ledger,     \* ledger[a]: GLOBAL_QUOTA_LEDGER of API process a
    call,       \* call[q]: where the API's handler for q is
    left,       \* left[q]: dimensions left in its loop over the local ledger
    room,       \* room[q]: every dimension checked there so far allows it
    loaded,     \* loaded[q]: the left operand of += it has read
    committed   \* history: requests whose charge is in used

store == <<used, rowLock, client, committed>>
copies == <<mirror, valkey>>
handler == <<serve, todo, fits, decided, outcome>>
api == <<ledger, call, left, room, loaded>>
vars == <<ask, store, copies, handler, api>>

Asks == [workload : {"llm", "vton"}, api : Apis, tokens : TokenSizes]
IsVton(q) == ask[q].workload = "vton"
DimensionsOf(q) == IF IsVton(q) THEN {VtonRequests} ELSE {LlmRequests, LlmTokens}
Charge(q, d) == IF d = LlmTokens THEN ask[q].tokens ELSE 1
Gateway(q) == GatewayOf[ask[q].api]

Zero == [d \in Dimensions |-> 0]
CallSteps == {"idle", "prechecking", "working", "waiting", "checking", "loading",
              "storing", "completed", "refused", "failed"}
ServeSteps == {"none", "queued", "locking", "syncing", "mirroring", "answered", "gone"}

Init ==
    /\ ask \in [Requests -> Asks]
    /\ used = Zero /\ valkey = Zero
    /\ rowLock = [d \in Dimensions |-> {}]
    /\ client = [g \in Gateways |-> {}]
    /\ mirror = [g \in Gateways |-> Zero]
    /\ serve = [q \in Requests |-> "none"]
    /\ todo = [q \in Requests |-> {}]
    /\ fits = [q \in Requests |-> TRUE]
    /\ decided = [q \in Requests |-> Zero]
    /\ outcome = [q \in Requests |-> "none"]
    /\ ledger = [a \in Apis |-> Zero]
    /\ call = [q \in Requests |-> "idle"]
    /\ left = [q \in Requests |-> {}]
    /\ room = [q \in Requests |-> FALSE]
    /\ loaded = [q \in Requests |-> 0]
    /\ committed = {}

\* The loops go through the dimensions in the order of their names.
Foremost(d, set) == d \in set /\ \A e \in set : d <= e

Goto(q, from, to) ==
    /\ call[q] = from
    /\ call' = [call EXCEPT ![q] = to]

ServeGoto(q, from, to) ==
    /\ serve[q] = from
    /\ serve' = [serve EXCEPT ![q] = to]

Within(usage, q, d) == usage[d] + Charge(q, d) <= Limit[d]

-----------------------------------------------------------------------------
(* The gateway: check_quota.                                               *)

TakeClient(q) ==
    /\ client[Gateway(q)] = {}
    /\ ServeGoto(q, "queued", "locking")
    /\ client' = [client EXCEPT ![Gateway(q)] = {q}]
    /\ todo' = [todo EXCEPT ![q] = DimensionsOf(q)]
    /\ UNCHANGED <<ask, used, rowLock, committed, copies, fits, decided, outcome, api>>

\* The row is read and compared with the limit.
CheckRow(q, d) ==
    /\ serve[q] = "locking"
    /\ rowLock' = [rowLock EXCEPT ![d] = @ \union {q}]
    /\ fits' = [fits EXCEPT ![q] = @ /\ Within(used, q, d)]
    /\ todo' = [todo EXCEPT ![q] = @ \ {d}]
    /\ UNCHANGED <<ask, used, client, committed, copies, serve, decided, outcome, api>>

\* The charge is added to every dimension.
Charged(q) == [d \in Dimensions |-> IF d \in DimensionsOf(q) THEN used[d] + Charge(q, d) ELSE used[d]]

\* Commit or rollback gives the rows back, the end of the block the client.
EndTransaction(q) ==
    /\ rowLock' = [d \in Dimensions |-> rowLock[d] \ {q}]
    /\ client' = [client EXCEPT ![Gateway(q)] = @ \ {q}]

Commit(q) ==
    /\ todo[q] = {} /\ fits[q]
    /\ ServeGoto(q, "locking", "syncing")
    /\ used' = Charged(q)
    /\ decided' = [decided EXCEPT ![q] = Charged(q)]
    /\ committed' = committed \union {q}
    /\ EndTransaction(q)
    /\ UNCHANGED <<ask, copies, todo, fits, outcome, api>>

\* What every handler that ends leaves of its loop and its decision.
Finish(q, answer) ==
    /\ todo' = [todo EXCEPT ![q] = {}]
    /\ fits' = [fits EXCEPT ![q] = TRUE]
    /\ decided' = [decided EXCEPT ![q] = Zero]
    /\ outcome' = [outcome EXCEPT ![q] = answer]

\* A statement of the transaction fails, or the commit, which may yet have been
\* applied.
LeaveTransaction(q, to, answer) ==
    /\ ServeGoto(q, "locking", to)
    /\ \/ UNCHANGED <<used, committed>>
       \/ /\ todo[q] = {} /\ fits[q]
          /\ used' = Charged(q)
          /\ committed' = committed \union {q}
    /\ EndTransaction(q)
    /\ Finish(q, answer)
    /\ UNCHANGED <<ask, copies, api>>

-----------------------------------------------------------------------------
(* Plausible bugs, one per operator; nothing below uses them.              *)

\* SELECT without FOR UPDATE.
LockRowPlain(q, d) ==
    /\ Foremost(d, todo[q])
    /\ CheckRow(q, d)

\* The dimensions are not sorted.
LockRowUnsorted(q, d) ==
    /\ d \in todo[q]
    /\ rowLock[d] = {}
    /\ CheckRow(q, d)

\* used_after is reported for a refused request as for an admitted one.
RollBackCounting(q) ==
    /\ todo[q] = {} /\ ~fits[q]
    /\ ServeGoto(q, "locking", "syncing")
    /\ decided' = [decided EXCEPT ![q] = Charged(q)]
    /\ EndTransaction(q)
    /\ UNCHANGED <<ask, used, committed, copies, todo, fits, outcome, api>>

\* Admission fails over to the gateway's own ledger.
TransactionFailsOpen(q) == LeaveTransaction(q, "answered", "allowed")

\* The mirror counter is the whole durable store, which counts in Postgres too.
CountAgain(q, d) ==
    /\ serve[q] = "mirroring"
    /\ Foremost(d, todo[q])
    /\ valkey' = [valkey EXCEPT ![d] = @ + Charge(q, d)]
    /\ used' = [used EXCEPT ![d] = @ + Charge(q, d)]
    /\ todo' = [todo EXCEPT ![q] = @ \ {d}]
    /\ UNCHANGED <<ask, rowLock, client, committed, mirror, serve, fits, decided, outcome, api>>

-----------------------------------------------------------------------------
(* check_quota, continued.                                                 *)

\* INSERT ... ON CONFLICT DO NOTHING and SELECT ... FOR UPDATE wait for the row.
LockRow(q, d) ==
    /\ Foremost(d, todo[q])
    /\ rowLock[d] = {}
    /\ CheckRow(q, d)

RollBack(q) ==
    /\ todo[q] = {} /\ ~fits[q]
    /\ ServeGoto(q, "locking", "syncing")
    /\ decided' = [decided EXCEPT ![q] = used]
    /\ EndTransaction(q)
    /\ UNCHANGED <<ask, used, committed, copies, todo, fits, outcome, api>>

TransactionFails(q) == LeaveTransaction(q, "answered", "error")

IsAdmitted(q) == fits[q]

\* apply_decision_snapshot overwrites the gateway's ledger; by now another
\* handler may have taken the client, committed and written a newer decision.
Apply(q) ==
    mirror' = [mirror EXCEPT ![Gateway(q)] =
        [d \in Dimensions |-> IF d \in DimensionsOf(q) THEN decided[q][d] ELSE @[d]]]

Sync(q) ==
    /\ IsAdmitted(q)
    /\ ServeGoto(q, "syncing", "mirroring")
    /\ Apply(q)
    /\ todo' = [todo EXCEPT ![q] = DimensionsOf(q)]
    /\ UNCHANGED <<ask, store, valkey, fits, decided, outcome, api>>

SyncRefused(q) ==
    /\ ~IsAdmitted(q)
    /\ ServeGoto(q, "syncing", "answered")
    /\ Apply(q)
    /\ Finish(q, "exceeded")
    /\ UNCHANGED <<ask, store, valkey, api>>

\* The ledger file cannot be written: a 500 although the charge is committed.
SaveFails(q) ==
    /\ ServeGoto(q, "syncing", "answered")
    /\ Apply(q)
    /\ Finish(q, "error")
    /\ UNCHANGED <<ask, store, valkey, api>>

\* INCRBY and EXPIRE; a zero increment has no delta.
Count(q, d) ==
    /\ serve[q] = "mirroring"
    /\ Foremost(d, todo[q])
    /\ valkey' = [valkey EXCEPT ![d] = @ + Charge(q, d)]
    /\ todo' = [todo EXCEPT ![q] = @ \ {d}]
    /\ UNCHANGED <<ask, store, mirror, serve, fits, decided, outcome, api>>

\* The connection or a command fails, before or after an INCRBY: a 500.
CountFails(q) ==
    /\ ServeGoto(q, "mirroring", "answered")
    /\ Finish(q, "error")
    /\ UNCHANGED <<ask, store, copies, api>>

AnswerAllowed(q) ==
    /\ todo[q] = {}
    /\ ServeGoto(q, "mirroring", "answered")
    /\ Finish(q, "allowed")
    /\ UNCHANGED <<ask, store, copies, api>>

\* The caller has given up and closed the connection: the server drops the
\* handler at the await it has reached, and its transaction with it.
Abandon(q) ==
    /\ call[q] # "waiting"
    /\ \/ LeaveTransaction(q, "gone", "none")
       \/ /\ serve[q] \in {"queued", "mirroring"}
          /\ ServeGoto(q, serve[q], "gone")
          /\ Finish(q, "none")
          /\ UNCHANGED <<ask, store, copies, api>>

\* The gateway process ends and starts again; its ledger is reloaded from the
\* file, or empty without TRYOPS_GATEWAY_QUOTA_LEDGER_PATH.
Served(g) == {q \in Requests : Gateway(q) = g /\ serve[q] \in ServeSteps \ {"none", "answered", "gone"}}
Dropped(f, g, value) == [q \in Requests |-> IF q \in Served(g) THEN value ELSE f[q]]

RestartGateway(g) ==
    /\ Served(g) # {}
    /\ serve' = Dropped(serve, g, "gone")
    /\ todo' = Dropped(todo, g, {})
    /\ fits' = Dropped(fits, g, TRUE)
    /\ decided' = Dropped(decided, g, Zero)
    /\ rowLock' = [d \in Dimensions |-> rowLock[d] \ Served(g)]
    /\ client' = [client EXCEPT ![g] = {}]
    /\ \E kept \in {Zero, mirror[g]} : mirror' = [mirror EXCEPT ![g] = kept]
    /\ UNCHANGED <<ask, used, committed, valkey, outcome, api>>

-----------------------------------------------------------------------------
(* The API: llm_generate and _vton_infer_impl around the quota calls, and  *)
(* check_and_record_quota.                                                 *)

AskGateway(q) ==
    /\ serve' = [serve EXCEPT ![q] = "queued"]
    /\ UNCHANGED <<ask, store, copies, todo, fits, decided, outcome>>

\* A generation is charged before the model is called.
StartLlm(q) ==
    /\ ~IsVton(q)
    /\ Goto(q, "idle", "waiting")
    /\ AskGateway(q)
    /\ UNCHANGED <<ledger, left, room, loaded>>

\* The loop over the local ledger starts; nothing locks the ledger.
StartLocal(q) ==
    /\ left' = [left EXCEPT ![q] = DimensionsOf(q)]
    /\ room' = [room EXCEPT ![q] = TRUE]
    /\ UNCHANGED <<ask, store, copies, handler, ledger, loaded>>

\* A try-on is first checked with record=False, which only asks the local ledger.
StartVton(q) ==
    /\ IsVton(q)
    /\ Goto(q, "idle", "prechecking")
    /\ StartLocal(q)

LocalCheck(q, d) ==
    /\ call[q] \in {"prechecking", "checking"}
    /\ Foremost(d, left[q])
    /\ room' = [room EXCEPT ![q] = @ /\ Within(ledger[ask[q].api], q, d)]
    /\ left' = [left EXCEPT ![q] = @ \ {d}]
    /\ UNCHANGED <<ask, store, copies, handler, ledger, call, loaded>>

Precheck(q) ==
    /\ left[q] = {}
    /\ Goto(q, "prechecking", IF room[q] THEN "working" ELSE "refused")
    /\ room' = [room EXCEPT ![q] = FALSE]
    /\ UNCHANGED <<ask, store, copies, handler, ledger, left, loaded>>

\* The adapter, its timeout, the artifacts: an error answers without a charge.
WorkFails(q) ==
    /\ Goto(q, "working", "failed")
    /\ UNCHANGED <<ask, store, copies, handler, ledger, left, room, loaded>>

\* The try-on is done and is charged now.
WorkDone(q) ==
    /\ Goto(q, "working", "waiting")
    /\ AskGateway(q)
    /\ UNCHANGED <<ledger, left, room, loaded>>

\* The handler goes on once it has a decision: a try-on is completed whatever
\* it says.
Decided(q, allowed) == IF allowed \/ IsVton(q) THEN "completed" ELSE "refused"

HearDecision(q) ==
    /\ outcome[q] \in {"allowed", "exceeded"}
    /\ Goto(q, "waiting", Decided(q, outcome[q] = "allowed"))
    /\ UNCHANGED <<ask, store, copies, handler, ledger, left, room, loaded>>

\* An error, a lost connection, or no answer within 0.5 seconds: the decision
\* falls to the local ledger, whatever the gateway has done or will do.
FallBack(q) ==
    /\ Goto(q, "waiting", "checking")
    /\ StartLocal(q)

LocalDecide(q) ==
    /\ left[q] = {}
    /\ Goto(q, "checking", IF room[q] THEN "loading" ELSE Decided(q, FALSE))
    /\ left' = [left EXCEPT ![q] = IF room[q] THEN DimensionsOf(q) ELSE {}]
    /\ UNCHANGED <<ask, store, copies, handler, ledger, room, loaded>>

\* self._usage[key] += increment reads, calls int() and writes: another thread
\* can run in between.
LocalLoad(q, d) ==
    /\ Goto(q, "loading", "storing")
    /\ Foremost(d, left[q])
    /\ loaded' = [loaded EXCEPT ![q] = ledger[ask[q].api][d]]
    /\ UNCHANGED <<ask, store, copies, handler, ledger, left, room>>

LocalStore(q, d) ==
    /\ Goto(q, "storing", "loading")
    /\ Foremost(d, left[q])
    /\ ledger' = [ledger EXCEPT ![ask[q].api][d] = loaded[q] + Charge(q, d)]
    /\ left' = [left EXCEPT ![q] = @ \ {d}]
    /\ loaded' = [loaded EXCEPT ![q] = 0]
    /\ UNCHANGED <<ask, store, copies, handler, room>>

LocalRecorded(q) ==
    /\ left[q] = {}
    /\ Goto(q, "loading", "completed")
    /\ UNCHANGED <<ask, store, copies, handler, ledger, left, room, loaded>>

-----------------------------------------------------------------------------

Transaction(q) ==
    \/ TakeClient(q) \/ Commit(q) \/ RollBack(q)
    \/ \E d \in Dimensions : LockRow(q, d)

Publish(q) ==
    \/ Sync(q) \/ SyncRefused(q) \/ SaveFails(q)
    \/ CountFails(q) \/ AnswerAllowed(q)
    \/ \E d \in Dimensions : Count(q, d)

CheckQuota(q) == Transaction(q) \/ Publish(q)

Call(q) ==
    \/ StartLlm(q) \/ StartVton(q) \/ Precheck(q) \/ WorkFails(q) \/ WorkDone(q)
    \/ HearDecision(q) \/ FallBack(q) \/ LocalDecide(q) \/ LocalRecorded(q)
    \/ \E d \in Dimensions : LocalCheck(q, d) \/ LocalLoad(q, d) \/ LocalStore(q, d)

Next ==
    \/ \E q \in Requests : CheckQuota(q) \/ TransactionFails(q) \/ Abandon(q) \/ Call(q)
    \/ \E g \in Gateways : RestartGateway(g)

Spec == Init /\ [][Next]_vars

\* Handlers keep running: the client mutex is fair (tokio::sync::Mutex queues),
\* so are Postgres row locks, and a request asks for each once.  A statement is
\* not assumed to fail: a deadlock is not excused by its detection.
Fairness == \A q \in Requests : WF_vars(CheckQuota(q))

FairSpec == Spec /\ Fairness

-----------------------------------------------------------------------------
(* Properties.                                                             *)

AtMostOne(set) == \A p \in set, q \in set : p = q

TypeOK ==
    /\ ask \in [Requests -> Asks]
    /\ used \in [Dimensions -> Nat]
    /\ rowLock \in [Dimensions -> SUBSET Requests]
    /\ \A d \in Dimensions : AtMostOne(rowLock[d])
    /\ client \in [Gateways -> SUBSET Requests]
    /\ \A g \in Gateways : AtMostOne(client[g])
    /\ mirror \in [Gateways -> [Dimensions -> Nat]]
    /\ valkey \in [Dimensions -> Nat]
    /\ serve \in [Requests -> ServeSteps]
    /\ todo \in [Requests -> SUBSET Dimensions]
    /\ fits \in [Requests -> BOOLEAN]
    /\ decided \in [Requests -> [Dimensions -> Nat]]
    /\ outcome \in [Requests -> {"none", "allowed", "exceeded", "error"}]
    /\ ledger \in [Apis -> [Dimensions -> Nat]]
    /\ call \in [Requests -> CallSteps]
    /\ left \in [Requests -> SUBSET Dimensions]
    /\ room \in [Requests -> BOOLEAN]
    /\ loaded \in [Requests -> Nat]
    /\ committed \subseteq Requests

\* What the requests of a set are charged in dimension d, unit by unit.
Units(set, d) == UNION {{q} \X (1 .. Charge(q, d)) : q \in {q \in set : d \in DimensionsOf(q)}}
Charges(set, d) == Cardinality(Units(set, d))

(* However many gateways decide at once, fail or restart, the shared ledger *)
(* never goes beyond the plan: the no_cluster_quota_oversell check of the   *)
(* distributed quota smoke, in every dimension.                             *)
NoOversell == \A d \in Dimensions : used[d] <= Limit[d]

(* A transaction is charged once and in all of its dimensions, and a refused *)
(* or rolled back one in none.                                              *)
UsedIsCharged == \A d \in Dimensions : used[d] = Charges(committed, d)

(* A gateway fails closed: it answers "allowed" to a request only if the    *)
(* shared ledger holds its charge.                                          *)
FailsClosed == \A q \in Requests : outcome[q] = "allowed" => q \in committed

(* What a gateway shows in /v1/quota/snapshot may be old, since decisions   *)
(* are applied in any order, but never more than what was used.             *)
MirrorNeverAhead == \A g \in Gateways, d \in Dimensions : mirror[g][d] <= used[d]

(* No two transactions wait for each other: every quota check the gateway   *)
(* has accepted ends.                                                       *)
ChecksEnd == \A q \in Requests : serve[q] = "queued" ~> serve[q] \in {"answered", "gone"}

(* A request is completed only if the gateway or the local ledger has       *)
(* allowed it: "Rejected quota requests return status=rejected"             *)
(* (docs/enterprise_quota.md).                                              *)
CompletedWasAllowed ==
    \A q \in Requests : call[q] = "completed" => outcome[q] = "allowed" \/ room[q]
=============================================================================
