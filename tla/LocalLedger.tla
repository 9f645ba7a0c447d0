---------------------------- MODULE LocalLedger ----------------------------
(***************************************************************************)
(* Quota admission without TRYOPS_GATEWAY_QUOTA_POSTGRES_ADMISSION, as     *)
(* docker-compose.yml runs it: a gateway decides with the ledger in its    *)
(* memory (second half of check_quota), and so does a run of               *)
(* tryops-gateway quota-check.  With TRYOPS_GATEWAY_QUOTA_LEDGER_PATH set  *)
(* either loads a file at its start and replaces it after a charge; a      *)
(* gateway then adds the charge to a row in Postgres, for billing.  One    *)
(* user and one dimension.  The processes that share a file run one after  *)
(* the other ("single-node durability", native/README.md:70): two at once  *)
(* would also share the name of the temporary file.                        *)
(***************************************************************************)
EXTENDS Integers, FiniteSets

CONSTANTS
    Servers,     \* gateway processes
    Batches,     \* runs of quota-check
    BatchSize,   \* BatchSize[b]: how many requests run b brings
    Checks,      \* calls of POST /v1/quota/check
    ServerOf,    \* ServerOf[r]: the gateway that call r reaches
    Allowance,   \* the plan's limit
    MaxStops,    \* bound: how many processes end before their time
    Keepers      \* the sets of processes that may have the ledger path set

Processes == Servers \union Batches

ASSUME LedgerAssumption ==
    /\ ServerOf \in [Checks -> Servers]
    /\ IsFiniteSet(Checks)
    /\ BatchSize \in [Batches -> Nat]
    /\ Servers \intersect Batches = {}
    /\ Allowance \in Nat
    /\ MaxStops \in Nat
    /\ Keepers \subseteq SUBSET Processes

VARIABLES
    keeps,     \* the processes with a ledger path
    life,      \* life[p]: whether p runs; "alone" runs without Postgres, "failed" could not start
    book,      \* book[p]: its QuotaLedger
    saver,     \* saver[p]: where p is in QuotaLedgerStore::save
    file,      \* what the ledger path holds
    temp,      \* what the same path with .tmp holds
    check,     \* check[r]: where call r is
    verdict,   \* verdict[b]: how many requests run b has allowed
    promised,  \* history: decisions "allowed" that a process had saved, if it saves
    charged,   \* history: charges of the gateways
    billed,    \* the row of tryops_quota_usage
    stops      \* processes that ended before their time

tally == <<promised, charged, billed, stops>>
ledgerVars == <<keeps, life, book, saver, file, temp, check, verdict, tally>>

\* Contents of a file that are no ledger.
Missing == -1
Torn == -2

Up(p) == life[p] \in {"up", "alone"}
Lives == {"off", "up", "alone", "done", "failed"}
SaveSteps == {"idle", "writing", "filling", "renaming", "saved", "refused"}
CheckSteps == {"new", "saving", "billing", "counting", "allowed", "unbilled", "exceeded", "error", "gone"}

LedgerInit ==
    /\ keeps \in Keepers
    /\ life = [p \in Processes |-> "off"]
    /\ book = [p \in Processes |-> 0]
    /\ saver = [p \in Processes |-> "idle"]
    /\ file = Missing /\ temp = Missing
    /\ check = [r \in Checks |-> "new"]
    /\ verdict = [b \in Batches |-> 0]
    /\ promised = 0 /\ charged = 0 /\ billed = 0 /\ stops = 0

\* load: without a file, or without a path, the ledger is empty.
Loaded(p) == IF p \notin keeps \/ file = Missing THEN 0 ELSE file

\* AppState::from_env panics on a file it cannot parse, and run_quota_cli ends;
\* a gateway that cannot reach Postgres goes on without the mirror, for good.
Start(p) ==
    /\ life[p] = "off"
    /\ p \in keeps => \A o \in keeps : ~Up(o)
    /\ \E to \in (IF Loaded(p) = Torn THEN {"failed"} ELSE IF p \in Servers THEN {"up", "alone"} ELSE {"up"}) :
          life' = [life EXCEPT ![p] = to]
    /\ book' = [book EXCEPT ![p] = IF Loaded(p) = Torn THEN 0 ELSE Loaded(p)]
    /\ UNCHANGED <<keeps, saver, file, temp, check, verdict, tally>>

\* A process ends at any point; a gateway is started again.
CutOff(p, r) == p \in Servers /\ ServerOf[r] = p /\ check[r] \in {"saving", "billing", "counting"}

Stop(p) ==
    /\ Up(p)
    /\ stops < MaxStops
    /\ stops' = stops + 1
    /\ life' = [life EXCEPT ![p] = IF p \in Servers THEN "off" ELSE "done"]
    /\ book' = [book EXCEPT ![p] = 0]
    /\ saver' = [saver EXCEPT ![p] = "idle"]
    /\ check' = [r \in Checks |-> IF CutOff(p, r) THEN "gone" ELSE check[r]]
    /\ UNCHANGED <<keeps, file, temp, verdict, promised, charged, billed>>

-----------------------------------------------------------------------------
(* quota_store.rs save: fs::write truncates or makes the temporary file and *)
(* fills it, fs::rename puts it in the place of the ledger.                 *)

Save(p, from, to) ==
    /\ Up(p)
    /\ saver[p] = from
    /\ saver' = [saver EXCEPT ![p] = to]
    /\ UNCHANGED <<keeps, life, book, check, verdict, tally>>

\* Plausible bug, used nowhere: the ledger is written in place.
TruncateInPlace(p) ==
    /\ Save(p, "writing", "filling")
    /\ file' = Torn
    /\ UNCHANGED temp

Truncate(p) ==
    /\ Save(p, "writing", "filling")
    /\ temp' = Torn
    /\ UNCHANGED file

Fill(p) ==
    /\ Save(p, "filling", "renaming")
    /\ temp' = book[p]
    /\ UNCHANGED file

Rename(p) ==
    /\ Save(p, "renaming", "saved")
    /\ file' = temp
    /\ temp' = Missing

\* The disk refuses any of them.
DiskRefuses(p) ==
    /\ \E at \in {"writing", "filling", "renaming"} : Save(p, at, "refused")
    /\ UNCHANGED <<file, temp>>

-----------------------------------------------------------------------------
(* check_quota.                                                             *)

CheckGoto(r, from, to) ==
    /\ Up(ServerOf[r])
    /\ check[r] = from
    /\ check' = [check EXCEPT ![r] = to]

\* Where an admitted call goes on.
Onward(s) == IF life[s] = "alone" THEN "unbilled" ELSE "billing"

Fits(p) == book[p] + 1 <= Allowance

\* Plausible bug, used nowhere: a decision does not wait for its save.
AdmitUnsaved(r) ==
    LET s == ServerOf[r] IN
    /\ saver[s] = "idle"
    /\ Fits(s)
    /\ CheckGoto(r, "new", Onward(s))
    /\ book' = [book EXCEPT ![s] = @ + 1]
    /\ promised' = promised + 1
    /\ charged' = charged + 1
    /\ UNCHANGED <<keeps, life, saver, file, temp, verdict, billed, stops>>

\* The ledger's mutex is taken and the charge made; it is held until the file
\* is saved.
Admit(r) ==
    LET s == ServerOf[r] IN
    /\ saver[s] = "idle"
    /\ Fits(s)
    /\ CheckGoto(r, "new", IF s \in keeps THEN "saving" ELSE Onward(s))
    /\ book' = [book EXCEPT ![s] = @ + 1]
    /\ saver' = [saver EXCEPT ![s] = IF s \in keeps THEN "writing" ELSE "idle"]
    /\ promised' = IF s \in keeps THEN promised ELSE promised + 1
    /\ charged' = charged + 1
    /\ UNCHANGED <<keeps, life, file, temp, verdict, billed, stops>>

Refuse(r) ==
    /\ saver[ServerOf[r]] = "idle"
    /\ ~Fits(ServerOf[r])
    /\ CheckGoto(r, "new", "exceeded")
    /\ UNCHANGED <<keeps, life, book, saver, file, temp, verdict, tally>>

EndSave(r, from, to) ==
    /\ saver[ServerOf[r]] = from
    /\ CheckGoto(r, "saving", to)
    /\ saver' = [saver EXCEPT ![ServerOf[r]] = "idle"]
    /\ UNCHANGED <<keeps, life, book, file, temp, verdict, charged, billed, stops>>

Saved(r) == EndSave(r, "saved", Onward(ServerOf[r])) /\ promised' = promised + 1

\* A 500, and the charge stays in memory.
NotSaved(r) == EndSave(r, "refused", "error") /\ UNCHANGED promised

\* record_allowed_decision: the row is raised, then the Valkey counters.
BillGoto(r, from, to) ==
    /\ CheckGoto(r, from, to)
    /\ UNCHANGED <<keeps, life, book, saver, file, temp, verdict, promised, charged, stops>>

\* Plausible bug, used nowhere: the row is set to the gateway's own count.
BillOverwriting(r) == BillGoto(r, "billing", "counting") /\ billed' = book[ServerOf[r]]

Bill(r) == BillGoto(r, "billing", "counting") /\ billed' = billed + 1

\* The statement fails, or its answer is lost: the counters are raised all the
\* same, and the call ends with a 500.
BillFails(r) == BillGoto(r, "billing", "error") /\ billed' \in {billed, billed + 1}

AnswerBilled(r) == BillGoto(r, "counting", "allowed") /\ UNCHANGED billed
CountersFail(r) == BillGoto(r, "counting", "error") /\ UNCHANGED billed

\* The client hangs up, and the handler is dropped at its next await.
HangUp(r) == \E at \in {"billing", "counting"} : BillGoto(r, at, "gone") /\ UNCHANGED billed

-----------------------------------------------------------------------------
(* run_quota_cli: all requests are decided, then saved, then printed.       *)

LesserOf(a, b) == IF a <= b THEN a ELSE b
Granted(b) == LesserOf(BatchSize[b], Allowance - book[b])

DecideBatch(b) ==
    /\ Up(b) /\ saver[b] = "idle"
    /\ verdict' = [verdict EXCEPT ![b] = Granted(b)]
    /\ book' = [book EXCEPT ![b] = @ + Granted(b)]
    /\ IF b \in keeps /\ Granted(b) > 0
       THEN /\ saver' = [saver EXCEPT ![b] = "writing"]
            /\ UNCHANGED <<life, promised>>
       ELSE /\ life' = [life EXCEPT ![b] = "done"]
            /\ promised' = promised + Granted(b)
            /\ UNCHANGED saver
    /\ UNCHANGED <<keeps, file, temp, check, charged, billed, stops>>

EndBatch(b, from, allowed) ==
    /\ Up(b) /\ saver[b] = from
    /\ saver' = [saver EXCEPT ![b] = "idle"]
    /\ life' = [life EXCEPT ![b] = "done"]
    /\ promised' = promised + allowed
    /\ UNCHANGED <<keeps, book, file, temp, check, verdict, charged, billed, stops>>

PrintBatch(b) == EndBatch(b, "saved", verdict[b])
BatchNotSaved(b) == EndBatch(b, "refused", 0)

-----------------------------------------------------------------------------

LedgerNext ==
    \/ \E p \in Processes :
          Start(p) \/ Stop(p) \/ Truncate(p) \/ Fill(p) \/ Rename(p) \/ DiskRefuses(p)
    \/ \E r \in Checks :
          \/ Admit(r) \/ Refuse(r) \/ Saved(r) \/ NotSaved(r) \/ Bill(r) \/ BillFails(r)
          \/ AnswerBilled(r) \/ CountersFail(r) \/ HangUp(r)
    \/ \E b \in Batches : DecideBatch(b) \/ PrintBatch(b) \/ BatchNotSaved(b)

LedgerSpec == LedgerInit /\ [][LedgerNext]_ledgerVars

-----------------------------------------------------------------------------
(* Properties.                                                              *)

LedgerTypeOK ==
    /\ keeps \in Keepers
    /\ life \in [Processes -> Lives]
    /\ book \in [Processes -> Nat]
    /\ saver \in [Processes -> SaveSteps]
    /\ file \in Nat \union {Missing, Torn}
    /\ temp \in Nat \union {Missing, Torn}
    /\ check \in [Checks -> CheckSteps]
    /\ verdict \in [Batches -> Nat]
    /\ promised \in Nat /\ charged \in Nat /\ billed \in Nat /\ stops \in Nat

(* "usage survives gateway or CLI process restarts"                         *)
(* (docs/enterprise_quota.md:18): where every process keeps the file, all   *)
(* of them together never promise more than the plan, whatever fails or     *)
(* ends in between.                                                         *)
PromisedWithinLimit == keeps = Processes => promised <= Allowance

(* A process that ends in the middle of a save leaves a ledger that the     *)
(* next one can start from.                                                 *)
LedgerStaysReadable == \A p \in Processes : life[p] # "failed"

(* The billing mirror, whatever is dropped, fails or ends: it holds every   *)
(* request a gateway has answered "allowed", unless the gateway had started *)
(* without Postgres, and nothing that no gateway has charged.               *)
MirrorCountsAnswers ==
    /\ Cardinality({r \in Checks : check[r] = "allowed"}) <= billed
    /\ billed <= charged
=============================================================================
