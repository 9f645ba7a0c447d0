-------------------------- MODULE AdmissionProofs --------------------------
(***************************************************************************)
(* Proofs about the three ledgers of the gateway, one after the other: the *)
(* shared one in PostgreSQL (QuotaAdmission), that of one process and its  *)
(* file (LocalLedger), and those of its proxy (GatewayProxy).              *)
(***************************************************************************)
EXTENDS QuotaAdmission, LocalLedger, GatewayProxy, FiniteSetTheorems, TLAPS

(***************************************************************************)
(* QuotaAdmission.  The inductive invariant says what a transaction knows: *)
(* it alone holds the rows it has checked, and as long as it fits there is *)
(* room for its charge in each of them.                                    *)
(***************************************************************************)
\* A transaction alone holds the rows it has checked.
Checked(q) == DimensionsOf(q) \ todo[q]

RowsHeld == \A q \in Requests, d \in Dimensions :
    serve[q] = "locking" /\ d \in Checked(q) => rowLock[d] = {q}

\* A transaction that fits so far has room in every row it has checked.
RoomKept == \A q \in Requests, d \in Dimensions :
    serve[q] = "locking" /\ fits[q] /\ d \in Checked(q) => Within(used, q, d)

\* A decision reports a usage that was reached.
DecisionsReached == \A q \in Requests, d \in Dimensions : decided[q][d] <= used[d]

\* A handler past an admitting transaction has its charge in the ledger.
AdmittedCommitted == \A q \in Requests :
    serve[q] = "mirroring" \/ (serve[q] = "syncing" /\ fits[q]) => q \in committed

\* What the proofs need to know of the types.
Types ==
    /\ ask \in [Requests -> Asks]
    /\ used \in [Dimensions -> Nat]
    /\ rowLock \in [Dimensions -> SUBSET Requests]
    /\ mirror \in [Gateways -> [Dimensions -> Nat]]
    /\ serve \in [Requests -> ServeSteps]
    /\ todo \in [Requests -> SUBSET Dimensions]
    /\ fits \in [Requests -> BOOLEAN]
    /\ decided \in [Requests -> [Dimensions -> Nat]]
    /\ outcome \in [Requests -> {"none", "allowed", "exceeded", "error"}]
    /\ committed \subseteq Requests

IInv ==
    /\ Types
    /\ RowsHeld
    /\ RoomKept
    /\ DecisionsReached
    /\ AdmittedCommitted
    /\ NoOversell
    /\ MirrorNeverAhead
    /\ FailsClosed

USE QuotaAssumption DEF QuotaAssumption

-----------------------------------------------------------------------------

LEMMA ChargeType ==
    ASSUME ask \in [Requests -> Asks], NEW q \in Requests
    PROVE  /\ \A d \in Dimensions : Charge(q, d) \in Nat
           /\ DimensionsOf(q) \subseteq Dimensions
           /\ Gateway(q) \in Gateways
<1>1. ask[q] \in Asks
  OBVIOUS
<1>2. /\ ask[q].tokens \in Nat
      /\ ask[q].api \in Apis
  BY <1>1 DEF Asks
<1> QED
  BY <1>2 DEF Charge, DimensionsOf, Gateway, Dimensions, LlmRequests, LlmTokens, VtonRequests

\* Charging a request gives a ledger that is nowhere smaller.
LEMMA ChargedGrows ==
    ASSUME Types, NEW q \in Requests
    PROVE  /\ Charged(q) \in [Dimensions -> Nat]
           /\ \A d \in Dimensions : used[d] <= Charged(q)[d]
<1>1. ASSUME NEW d \in Dimensions
      PROVE  /\ Charged(q)[d] \in Nat
             /\ used[d] <= Charged(q)[d]
  <2>1. /\ Charge(q, d) \in Nat
        /\ used[d] \in Nat
    BY ChargeType DEF Types
  <2> QED
    BY <2>1 DEF Charged
<1> QED
  BY <1>1 DEF Charged

LEMMA InitHolds == Init => IInv
<1> SUFFICES ASSUME Init PROVE IInv
  OBVIOUS
<1>1. Types
  BY DEF Init, Types, Zero, ServeSteps
<1>2. RowsHeld /\ RoomKept /\ AdmittedCommitted /\ FailsClosed
  BY DEF Init, RowsHeld, RoomKept, AdmittedCommitted, FailsClosed
<1>3. DecisionsReached /\ MirrorNeverAhead
  BY DEF Init, DecisionsReached, MirrorNeverAhead, Zero
<1>4. NoOversell
  BY DEF Init, NoOversell, Zero
<1> QED
  BY <1>1, <1>2, <1>3, <1>4 DEF IInv

-----------------------------------------------------------------------------
(* What the steps of one request q do to the others: the invariant of      *)
(* every other transaction is kept when q changes only its own entries and *)
(* leaves the rows that others hold alone.                                 *)

OwnEntries(q) ==
    /\ ask' = ask
    /\ \A p \in Requests \ {q} :
        /\ serve'[p] = serve[p] /\ todo'[p] = todo[p] /\ fits'[p] = fits[p]
        /\ decided'[p] = decided[p] /\ outcome'[p] = outcome[p]
    /\ \A p \in Requests \ {q}, d \in Dimensions :
        rowLock[d] = {p} => rowLock'[d] = {p} /\ used'[d] = used[d]
    /\ \A d \in Dimensions : used[d] <= used'[d]
    /\ committed \subseteq committed'

\* The invariant of request q in the next state.
Own(q) ==
    /\ \A d \in Dimensions :
        /\ serve[q] = "locking" /\ d \in Checked(q) => rowLock[d] = {q}
        /\ serve[q] = "locking" /\ fits[q] /\ d \in Checked(q) => Within(used, q, d)
        /\ decided[q][d] <= used[d]
    /\ serve[q] = "mirroring" \/ (serve[q] = "syncing" /\ fits[q]) => q \in committed
    /\ outcome[q] = "allowed" => q \in committed

LEMMA OneStep ==
    ASSUME IInv, Types', NEW q \in Requests, OwnEntries(q), Own(q)',
           NoOversell', MirrorNeverAhead'
    PROVE  IInv'
<1>1. ASSUME NEW p \in Requests, p # q, NEW d \in Dimensions
      PROVE  /\ Checked(p)' = Checked(p)
             /\ Charge(p, d)' = Charge(p, d)
  BY <1>1 DEF OwnEntries, Checked, DimensionsOf, IsVton, Charge
<1>2. RowsHeld'
  <2> SUFFICES ASSUME NEW p \in Requests, NEW d \in Dimensions, p # q,
                      serve'[p] = "locking", d \in Checked(p)'
               PROVE  rowLock'[d] = {p}
    BY DEF RowsHeld, Own
  <2>1. serve[p] = "locking" /\ d \in Checked(p)
    BY <1>1 DEF OwnEntries
  <2>2. rowLock[d] = {p}
    BY <2>1 DEF IInv, RowsHeld
  <2> QED
    BY <2>2 DEF OwnEntries
<1>3. RoomKept'
  <2> SUFFICES ASSUME NEW p \in Requests, NEW d \in Dimensions, p # q,
                      serve'[p] = "locking", fits'[p], d \in Checked(p)'
               PROVE  Within(used, p, d)'
    BY DEF RoomKept, Own
  <2>1. serve[p] = "locking" /\ fits[p] /\ d \in Checked(p)
    BY <1>1 DEF OwnEntries
  <2>2. rowLock[d] = {p} /\ Within(used, p, d)
    BY <2>1 DEF IInv, RowsHeld, RoomKept
  <2>3. used'[d] = used[d] /\ Charge(p, d)' = Charge(p, d)
    BY <2>2, <1>1 DEF OwnEntries
  <2> QED
    BY <2>2, <2>3 DEF Within
<1>4. DecisionsReached'
  <2> SUFFICES ASSUME NEW p \in Requests, NEW d \in Dimensions, p # q
               PROVE  decided'[p][d] <= used'[d]
    BY DEF DecisionsReached, Own
  <2>1. decided[p][d] <= used[d] /\ used[d] <= used'[d] /\ decided'[p] = decided[p]
    BY DEF OwnEntries, IInv, DecisionsReached
  <2>2. decided[p][d] \in Nat /\ used[d] \in Nat /\ used'[d] \in Nat
    BY DEF IInv, Types
  <2> QED
    BY <2>1, <2>2
<1>5. AdmittedCommitted' /\ FailsClosed'
  BY DEF AdmittedCommitted, FailsClosed, Own, OwnEntries, IInv
<1> QED
  BY <1>2, <1>3, <1>4, <1>5 DEF IInv

-----------------------------------------------------------------------------
(* The transaction.                                                        *)

\* The rows q gives back are not those another transaction has checked.
LEMMA RowsGivenBack ==
    ASSUME Types, NEW q \in Requests, EndTransaction(q)
    PROVE  /\ rowLock' \in [Dimensions -> SUBSET Requests]
           /\ \A p \in Requests \ {q}, d \in Dimensions :
                  rowLock[d] = {p} => rowLock'[d] = {p}
  BY DEF Types, EndTransaction

\* Charging q leaves the rows of others alone: q holds all the rows it charges.
LEMMA OthersUncharged ==
    ASSUME IInv, NEW q \in Requests, serve[q] = "locking", todo[q] = {},
           NEW p \in Requests \ {q}, NEW d \in Dimensions, rowLock[d] = {p}
    PROVE  Charged(q)[d] = used[d]
<1>1. d \notin DimensionsOf(q)
  BY DEF IInv, RowsHeld, Checked
<1> QED
  BY <1>1 DEF Charged

\* A transaction that fits has room for its charge in every dimension.
LEMMA ChargedWithin ==
    ASSUME IInv, NEW q \in Requests, serve[q] = "locking", todo[q] = {}, fits[q]
    PROVE  \A d \in Dimensions : Charged(q)[d] <= Limit[d]
<1> SUFFICES ASSUME NEW d \in Dimensions PROVE Charged(q)[d] <= Limit[d]
  OBVIOUS
<1>1. CASE d \in DimensionsOf(q)
  <2>1. Within(used, q, d)
    BY <1>1 DEF IInv, RoomKept, Checked
  <2> QED
    BY <2>1, <1>1 DEF Within, Charged
<1>2. CASE d \notin DimensionsOf(q)
  BY <1>2 DEF Charged, IInv, NoOversell
<1> QED
  BY <1>1, <1>2

\* Nothing gets ahead of a ledger that only grows.
LEMMA LedgerGrows ==
    ASSUME IInv, mirror' = mirror, used' \in [Dimensions -> Nat],
           \A d \in Dimensions : used[d] <= used'[d]
    PROVE  MirrorNeverAhead'
<1> SUFFICES ASSUME NEW g \in Gateways, NEW d \in Dimensions PROVE mirror'[g][d] <= used'[d]
  BY DEF MirrorNeverAhead
<1>1. /\ mirror[g][d] \in Nat /\ used[d] \in Nat /\ used'[d] \in Nat
      /\ mirror[g][d] <= used[d] /\ used[d] <= used'[d]
  BY DEF IInv, Types, MirrorNeverAhead
<1> QED
  BY <1>1

LEMMA TakeClientKeeps ==
    ASSUME IInv, NEW q \in Requests, TakeClient(q) PROVE IInv'
<1>1. Types'
  <2>1. DimensionsOf(q) \subseteq Dimensions
    BY ChargeType DEF IInv, Types
  <2>2. /\ todo' \in [Requests -> SUBSET Dimensions]
        /\ serve' \in [Requests -> ServeSteps]
    BY <2>1 DEF TakeClient, ServeGoto, ServeSteps, IInv, Types
  <2> QED
    BY <2>2 DEF TakeClient, IInv, Types, copies
<1>2. OwnEntries(q)
  BY DEF TakeClient, ServeGoto, OwnEntries, IInv, Types
<1>3. Own(q)'
  BY DEF TakeClient, ServeGoto, Own, Checked, DimensionsOf, IsVton, IInv, Types,
         DecisionsReached, FailsClosed
<1>4. NoOversell' /\ MirrorNeverAhead'
  BY DEF TakeClient, IInv, NoOversell, MirrorNeverAhead, copies
<1> QED
  BY <1>1, <1>2, <1>3, <1>4, OneStep

LEMMA LockRowKeeps ==
    ASSUME IInv, NEW q \in Requests, NEW d \in Dimensions, LockRow(q, d) PROVE IInv'
<1> USE DEF LockRow, CheckRow
<1>1. Types'
  BY DEF IInv, Types, copies, api
<1>2. OwnEntries(q)
  <2>1. \A p \in Requests \ {q}, e \in Dimensions : rowLock[e] = {p} => rowLock'[e] = {p}
    BY DEF IInv, Types
  <2>2. \A e \in Dimensions : used[e] <= used'[e]
    BY DEF IInv, Types
  <2>3. \A p \in Requests \ {q} : todo'[p] = todo[p] /\ fits'[p] = fits[p]
    BY DEF IInv, Types
  <2> QED
    BY <2>1, <2>2, <2>3 DEF OwnEntries
<1>3. Own(q)'
  <2>1. /\ serve[q] = "locking" /\ d \in todo[q]
        /\ decided' = decided /\ outcome' = outcome /\ serve' = serve
        /\ used' = used /\ committed' = committed /\ ask' = ask
    BY DEF Foremost
  <2>2. ASSUME NEW e \in Dimensions, e \in Checked(q)'
        PROVE  rowLock'[e] = {q} /\ (fits'[q] => Within(used, q, e)')
    <3>1. e = d \/ e \in Checked(q)
      BY <2>1, <2>2 DEF Checked, DimensionsOf, IsVton, IInv, Types
    <3>2. Within(used, q, e)' <=> Within(used, q, e)
      BY <2>1 DEF Within, Charge
    <3>3. fits'[q] <=> fits[q] /\ Within(used, q, d)
      BY DEF IInv, Types
    <3>4. CASE e = d
      BY <3>2, <3>3, <3>4 DEF IInv, Types
    <3>5. CASE e \in Checked(q) /\ e # d
      <4>1. rowLock[e] = {q} /\ (fits[q] => Within(used, q, e))
        BY <3>5, <2>1 DEF IInv, RowsHeld, RoomKept
      <4> QED
        BY <4>1, <3>2, <3>3, <3>5 DEF IInv, Types
    <3> QED
      BY <3>1, <3>4, <3>5
  <2> QED
    BY <2>1, <2>2 DEF Own, IInv, DecisionsReached, FailsClosed
<1>4. NoOversell' /\ MirrorNeverAhead'
  BY DEF IInv, NoOversell, MirrorNeverAhead, copies
<1> QED
  BY <1>1, <1>2, <1>3, <1>4, OneStep

LEMMA CommitKeeps ==
    ASSUME IInv, NEW q \in Requests, Commit(q) PROVE IInv'
<1> USE DEF Commit, ServeGoto
<1>0. /\ Charged(q) \in [Dimensions -> Nat]
      /\ \A d \in Dimensions : used[d] <= Charged(q)[d]
      /\ used' = Charged(q)
      /\ rowLock' \in [Dimensions -> SUBSET Requests]
      /\ \A p \in Requests \ {q}, d \in Dimensions : rowLock[d] = {p} => rowLock'[d] = {p}
  BY ChargedGrows, RowsGivenBack DEF IInv
<1>1. Types'
  BY <1>0 DEF ServeSteps, IInv, Types, copies, api
<1>2. OwnEntries(q)
  <2>1. \A p \in Requests \ {q}, d \in Dimensions : rowLock[d] = {p} => used'[d] = used[d]
    BY <1>0, OthersUncharged
  <2>2. \A p \in Requests \ {q} : serve'[p] = serve[p] /\ decided'[p] = decided[p]
    BY DEF IInv, Types
  <2> QED
    BY <1>0, <2>1, <2>2 DEF OwnEntries
<1>3. Own(q)'
  <2>1. /\ serve'[q] = "syncing" /\ q \in committed'
        /\ decided'[q] = used'
    BY DEF IInv, Types
  <2> QED
    BY <2>1, <1>0 DEF Own
<1>4. NoOversell'
  BY <1>0, ChargedWithin DEF NoOversell
<1>5. MirrorNeverAhead'
  BY <1>0, LedgerGrows DEF copies
<1> QED
  BY <1>1, <1>2, <1>3, <1>4, <1>5, OneStep

LEMMA RollBackKeeps ==
    ASSUME IInv, NEW q \in Requests, RollBack(q) PROVE IInv'
<1> USE DEF RollBack, ServeGoto
<1>0. /\ rowLock' \in [Dimensions -> SUBSET Requests]
      /\ \A p \in Requests \ {q}, d \in Dimensions : rowLock[d] = {p} => rowLock'[d] = {p}
  BY RowsGivenBack DEF IInv
<1>1. Types'
  BY <1>0 DEF ServeSteps, IInv, Types, copies, api
<1>2. OwnEntries(q)
  <2>1. \A d \in Dimensions : used[d] <= used'[d]
    BY DEF IInv, Types
  <2>2. \A p \in Requests \ {q} : serve'[p] = serve[p] /\ decided'[p] = decided[p]
    BY DEF IInv, Types
  <2> QED
    BY <1>0, <2>1, <2>2 DEF OwnEntries
<1>3. Own(q)'
  <2>1. /\ serve'[q] = "syncing" /\ ~fits'[q] /\ outcome'[q] = outcome[q]
        /\ decided'[q] = used /\ used' = used /\ committed' = committed
    BY DEF IInv, Types
  <2> QED
    BY <2>1 DEF Own, IInv, Types, FailsClosed
<1>4. NoOversell' /\ MirrorNeverAhead'
  BY DEF IInv, NoOversell, MirrorNeverAhead, copies
<1> QED
  BY <1>1, <1>2, <1>3, <1>4, OneStep

\* A handler that leaves its transaction without an admission to answer.
LEMMA LeaveKeeps ==
    ASSUME IInv, NEW q \in Requests, NEW to \in {"answered", "gone"},
           NEW answer \in {"none", "error"}, LeaveTransaction(q, to, answer)
    PROVE  IInv'
<1> USE DEF LeaveTransaction, ServeGoto, Finish
<1>0. /\ rowLock' \in [Dimensions -> SUBSET Requests]
      /\ \A p \in Requests \ {q}, d \in Dimensions : rowLock[d] = {p} => rowLock'[d] = {p}
  BY RowsGivenBack DEF IInv
<1>a. \/ used' = used /\ committed' = committed
      \/ /\ serve[q] = "locking" /\ todo[q] = {} /\ fits[q]
         /\ used' = Charged(q) /\ committed' = committed \union {q}
  OBVIOUS
<1>b. /\ used' \in [Dimensions -> Nat] /\ committed' \subseteq Requests
      /\ \A d \in Dimensions : used[d] <= used'[d]
  BY <1>a, ChargedGrows DEF IInv, Types
<1>1. Types'
  <2>1. Zero \in [Dimensions -> Nat]
    BY DEF Zero
  <2>2. /\ serve' \in [Requests -> ServeSteps]
        /\ outcome' \in [Requests -> {"none", "allowed", "exceeded", "error"}]
    BY DEF ServeSteps, IInv, Types
  <2> QED
    BY <1>0, <1>b, <2>1, <2>2 DEF IInv, Types, copies, api
<1>2. OwnEntries(q)
  <2>1. \A p \in Requests \ {q}, d \in Dimensions : rowLock[d] = {p} => used'[d] = used[d]
    BY <1>a, OthersUncharged
  <2> QED
    BY <1>0, <1>a, <1>b, <2>1 DEF OwnEntries, IInv, Types
<1>3. Own(q)'
  <2>1. /\ serve'[q] = to /\ outcome'[q] = answer /\ decided'[q] = Zero
    BY DEF IInv, Types
  <2>2. \A d \in Dimensions : Zero[d] <= used'[d]
    BY <1>b DEF Zero
  <2> QED
    BY <2>1, <2>2 DEF Own
<1>4. NoOversell'
  BY <1>a, ChargedWithin DEF IInv, NoOversell
<1>5. MirrorNeverAhead'
  BY <1>b, LedgerGrows DEF copies
<1> QED
  BY <1>1, <1>2, <1>3, <1>4, <1>5, OneStep

-----------------------------------------------------------------------------
(* After the transaction.                                                  *)

\* A gateway's ledger overwritten by a decision is not ahead.
LEMMA ApplyBehind ==
    ASSUME IInv, NEW q \in Requests, Apply(q), used' = used
    PROVE  mirror' \in [Gateways -> [Dimensions -> Nat]] /\ MirrorNeverAhead'
<1>1. Gateway(q) \in Gateways
  BY ChargeType DEF IInv, Types
<1>2. ASSUME NEW g \in Gateways
      PROVE  \/ mirror'[g] = mirror[g]
             \/ mirror'[g] = [d \in Dimensions |->
                   IF d \in DimensionsOf(q) THEN decided[q][d] ELSE mirror[g][d]]
  BY <1>1 DEF Apply, IInv, Types
<1>3. ASSUME NEW g \in Gateways
      PROVE  /\ mirror'[g] \in [Dimensions -> Nat]
             /\ \A d \in Dimensions : mirror'[g][d] <= used'[d]
  <2>1. \A d \in Dimensions : /\ mirror[g][d] \in Nat /\ mirror[g][d] <= used[d]
                            /\ decided[q][d] \in Nat /\ decided[q][d] <= used[d]
    BY DEF IInv, Types, MirrorNeverAhead, DecisionsReached
  <2>2. mirror[g] \in [Dimensions -> Nat]
    BY DEF IInv, Types
  <2> QED
    BY <1>2, <2>1, <2>2
<1>4. mirror' = [g \in Gateways |-> mirror'[g]]
  BY DEF Apply, IInv, Types
<1> QED
  BY <1>3, <1>4 DEF MirrorNeverAhead

\* The steps below leave the transactions and the shared ledger alone, and
\* give q these entries.
Publishes(q, to, loop, fit, answer) ==
    /\ UNCHANGED <<ask, used, rowLock, committed>>
    /\ serve' = [serve EXCEPT ![q] = to]
    /\ todo' = [todo EXCEPT ![q] = loop]
    /\ fits' = [fits EXCEPT ![q] = fit]
    /\ decided' = decided \/ decided' = [decided EXCEPT ![q] = Zero]
    /\ outcome' = [outcome EXCEPT ![q] = answer]

LEMMA PublishedStep ==
    ASSUME IInv, NEW q \in Requests,
           NEW to \in ServeSteps \ {"locking"}, NEW loop \in SUBSET Dimensions,
           NEW fit \in BOOLEAN, NEW answer \in {"none", "allowed", "exceeded", "error"},
           Publishes(q, to, loop, fit, answer),
           mirror' \in [Gateways -> [Dimensions -> Nat]], MirrorNeverAhead',
           to = "mirroring" \/ (to = "syncing" /\ fit) => q \in committed,
           answer = "allowed" => q \in committed
    PROVE  IInv'
<1> USE DEF Publishes
<1>1. Zero \in [Dimensions -> Nat]
  BY DEF Zero
<1>2. /\ decided' \in [Requests -> [Dimensions -> Nat]]
      /\ \A p \in Requests \ {q} : decided'[p] = decided[p]
      /\ \A d \in Dimensions : decided'[q][d] <= used[d]
  <2>1. CASE decided' = decided
    BY <2>1 DEF IInv, Types, DecisionsReached
  <2>2. CASE decided' = [decided EXCEPT ![q] = Zero]
    <3>1. \A d \in Dimensions : Zero[d] <= used[d]
      BY DEF Zero, IInv, Types
    <3> QED
      BY <1>1, <2>2, <3>1 DEF IInv, Types
  <2> QED
    BY <2>1, <2>2
<1>3. /\ serve'[q] = to /\ fits'[q] = fit /\ outcome'[q] = answer
      /\ \A p \in Requests \ {q} : serve'[p] = serve[p] /\ todo'[p] = todo[p]
                                  /\ fits'[p] = fits[p] /\ outcome'[p] = outcome[p]
  BY DEF IInv, Types
<1>4. Types'
  <2>1. /\ serve' \in [Requests -> ServeSteps] /\ todo' \in [Requests -> SUBSET Dimensions]
        /\ fits' \in [Requests -> BOOLEAN]
        /\ outcome' \in [Requests -> {"none", "allowed", "exceeded", "error"}]
    BY DEF IInv, Types
  <2> QED
    BY <1>2, <2>1 DEF IInv, Types
<1>5. OwnEntries(q)
  <2>1. \A d \in Dimensions : used[d] <= used'[d]
    BY DEF IInv, Types
  <2> QED
    BY <1>2, <1>3, <2>1 DEF OwnEntries
<1>6. Own(q)'
  BY <1>2, <1>3 DEF Own
<1>7. NoOversell'
  BY DEF IInv, NoOversell
<1> QED
  BY <1>4, <1>5, <1>6, <1>7, OneStep

\* An unchanged function, written as an update of one of its entries.
LEMMA SameEntries ==
    ASSUME Types, NEW q \in Requests
    PROVE  /\ todo = [todo EXCEPT ![q] = todo[q]]
           /\ fits = [fits EXCEPT ![q] = fits[q]]
           /\ outcome = [outcome EXCEPT ![q] = outcome[q]]
           /\ serve = [serve EXCEPT ![q] = serve[q]]
  BY DEF Types

LEMMA PublishKeeps ==
    ASSUME IInv, NEW q \in Requests, Publish(q) PROVE IInv'
<1> USE DEF ServeGoto, Finish, store, copies
<1>1. DimensionsOf(q) \subseteq Dimensions
  BY ChargeType DEF IInv, Types
<1>2. /\ todo[q] \in SUBSET Dimensions /\ fits[q] \in BOOLEAN
      /\ outcome[q] \in {"none", "allowed", "exceeded", "error"}
      /\ outcome[q] = "allowed" => q \in committed
  BY DEF IInv, Types, FailsClosed
<1>3. /\ mirror' = mirror /\ used' = used
      => mirror' \in [Gateways -> [Dimensions -> Nat]] /\ MirrorNeverAhead'
  BY DEF IInv, Types, MirrorNeverAhead
<1>4. ASSUME NEW answer \in {"exceeded", "error"}, Publishes(q, "answered", {}, TRUE, answer),
             mirror' \in [Gateways -> [Dimensions -> Nat]], MirrorNeverAhead'
      PROVE  IInv'
  BY <1>4, PublishedStep DEF ServeSteps
<1>5. CASE Sync(q)
  <2>1. q \in committed
    BY <1>5 DEF Sync, IsAdmitted, IInv, AdmittedCommitted
  <2>2. mirror' \in [Gateways -> [Dimensions -> Nat]] /\ MirrorNeverAhead'
    BY <1>5, ApplyBehind DEF Sync
  <2>3. Publishes(q, "mirroring", DimensionsOf(q), fits[q], outcome[q])
    BY <1>5, SameEntries DEF Sync, Publishes, IInv
  <2> QED
    BY <1>1, <1>2, <2>1, <2>2, <2>3, PublishedStep DEF ServeSteps
<1>6. CASE SyncRefused(q)
  <2>1. mirror' \in [Gateways -> [Dimensions -> Nat]] /\ MirrorNeverAhead'
    BY <1>6, ApplyBehind DEF SyncRefused
  <2>2. Publishes(q, "answered", {}, TRUE, "exceeded")
    BY <1>6 DEF SyncRefused, Publishes
  <2> QED
    BY <1>4, <2>1, <2>2
<1>7. CASE SaveFails(q)
  <2>1. mirror' \in [Gateways -> [Dimensions -> Nat]] /\ MirrorNeverAhead'
    BY <1>7, ApplyBehind DEF SaveFails
  <2>2. Publishes(q, "answered", {}, TRUE, "error")
    BY <1>7 DEF SaveFails, Publishes
  <2> QED
    BY <1>4, <2>1, <2>2
<1>8. CASE CountFails(q)
  <2>1. Publishes(q, "answered", {}, TRUE, "error")
    BY <1>8 DEF CountFails, Publishes
  <2> QED
    BY <1>3, <1>4, <1>8, <2>1 DEF CountFails
<1>9. CASE AnswerAllowed(q)
  <2>1. q \in committed
    BY <1>9 DEF AnswerAllowed, IInv, AdmittedCommitted
  <2>2. Publishes(q, "answered", {}, TRUE, "allowed")
    BY <1>9 DEF AnswerAllowed, Publishes
  <2>3. mirror' \in [Gateways -> [Dimensions -> Nat]] /\ MirrorNeverAhead'
    BY <1>3, <1>9 DEF AnswerAllowed
  <2> QED
    BY <2>1, <2>2, <2>3, PublishedStep DEF ServeSteps
<1>10. ASSUME NEW d \in Dimensions, Count(q, d) PROVE IInv'
  <2>1. q \in committed
    BY <1>10 DEF Count, IInv, AdmittedCommitted
  <2>2. Publishes(q, "mirroring", todo[q] \ {d}, fits[q], outcome[q])
    BY <1>10, SameEntries DEF Count, Publishes, IInv, Types
  <2>3. mirror' \in [Gateways -> [Dimensions -> Nat]] /\ MirrorNeverAhead'
    BY <1>3, <1>10 DEF Count
  <2>4. todo[q] \ {d} \in SUBSET Dimensions
    BY <1>2
  <2> QED
    BY <1>2, <2>1, <2>2, <2>3, <2>4, PublishedStep DEF ServeSteps
<1> QED
  BY <1>5, <1>6, <1>7, <1>8, <1>9, <1>10 DEF Publish

LEMMA AbandonKeeps ==
    ASSUME IInv, NEW q \in Requests, Abandon(q) PROVE IInv'
<1>1. CASE LeaveTransaction(q, "gone", "none")
  BY <1>1, LeaveKeeps
<1>2. CASE /\ ServeGoto(q, serve[q], "gone")
           /\ Finish(q, "none")
           /\ UNCHANGED <<ask, store, copies, api>>
  <2>1. mirror' \in [Gateways -> [Dimensions -> Nat]] /\ MirrorNeverAhead'
    BY <1>2 DEF IInv, Types, MirrorNeverAhead, store, copies
  <2>2. Publishes(q, "gone", {}, TRUE, "none")
    BY <1>2 DEF Publishes, ServeGoto, Finish, store
  <2> QED
    BY <2>1, <2>2, PublishedStep DEF ServeSteps
<1> QED
  BY <1>1, <1>2 DEF Abandon

-----------------------------------------------------------------------------
(* The API's steps, a restart, and the theorems.                           *)

LEMMA CallKeeps ==
    ASSUME IInv, NEW q \in Requests, Call(q) PROVE IInv'
<1>1. \/ UNCHANGED <<ask, store, copies, handler>>
      \/ /\ UNCHANGED <<ask, store, copies>>
         /\ Publishes(q, "queued", todo[q], fits[q], outcome[q])
  <2>1. CASE StartLlm(q) \/ WorkDone(q)
    BY <2>1, SameEntries
    DEF StartLlm, WorkDone, AskGateway, Publishes, IInv, store
  <2>2. CASE StartVton(q) \/ FallBack(q)
    BY <2>2 DEF StartVton, FallBack, StartLocal
  <2>3. CASE Precheck(q) \/ WorkFails(q) \/ HearDecision(q) \/ LocalDecide(q) \/ LocalRecorded(q)
    BY <2>3 DEF Precheck, WorkFails, HearDecision, LocalDecide, LocalRecorded
  <2>4. CASE \E d \in Dimensions : LocalCheck(q, d) \/ LocalLoad(q, d) \/ LocalStore(q, d)
    BY <2>4 DEF LocalCheck, LocalLoad, LocalStore
  <2> QED
    BY <2>1, <2>2, <2>3, <2>4 DEF Call
<1>2. CASE UNCHANGED <<ask, store, copies, handler>>
  BY <1>2 DEF store, copies, handler, IInv, Types, RowsHeld, RoomKept, DecisionsReached,
     AdmittedCommitted, NoOversell, MirrorNeverAhead, FailsClosed, Checked, DimensionsOf,
     IsVton, Within, Charge
<1>3. CASE /\ UNCHANGED <<ask, store, copies>>
           /\ Publishes(q, "queued", todo[q], fits[q], outcome[q])
  <2>1. mirror' \in [Gateways -> [Dimensions -> Nat]] /\ MirrorNeverAhead'
    BY <1>3 DEF IInv, Types, MirrorNeverAhead, store, copies
  <2>2. /\ todo[q] \in SUBSET Dimensions /\ fits[q] \in BOOLEAN
        /\ outcome[q] \in {"none", "allowed", "exceeded", "error"}
        /\ outcome[q] = "allowed" => q \in committed
    BY DEF IInv, Types, FailsClosed
  <2> QED
    BY <1>3, <2>1, <2>2, PublishedStep DEF ServeSteps
<1> QED
  BY <1>1, <1>2, <1>3

LEMMA RestartKeeps ==
    ASSUME IInv, NEW g \in Gateways, RestartGateway(g) PROVE IInv'
<1>1. /\ Zero \in [Dimensions -> Nat]
      /\ \A d \in Dimensions : Zero[d] = 0
  BY DEF Zero
<1>2. UNCHANGED <<ask, used, committed, outcome>>
  BY DEF RestartGateway
<1>3. ASSUME NEW q \in Served(g)
      PROVE  serve'[q] = "gone" /\ decided'[q] = Zero
  BY DEF RestartGateway, Dropped, Served
<1>4. ASSUME NEW q \in Requests \ Served(g)
      PROVE  /\ serve'[q] = serve[q] /\ todo'[q] = todo[q] /\ fits'[q] = fits[q]
             /\ decided'[q] = decided[q]
             /\ \A d \in Dimensions : rowLock[d] = {q} => rowLock'[d] = {q}
  BY DEF RestartGateway, Dropped
<1>5. Types'
  <2>1. /\ serve' \in [Requests -> ServeSteps] /\ todo' \in [Requests -> SUBSET Dimensions]
        /\ fits' \in [Requests -> BOOLEAN] /\ decided' \in [Requests -> [Dimensions -> Nat]]
    BY <1>1 DEF RestartGateway, Dropped, ServeSteps, IInv, Types
  <2>2. /\ rowLock' \in [Dimensions -> SUBSET Requests]
        /\ mirror' \in [Gateways -> [Dimensions -> Nat]]
    BY <1>1 DEF RestartGateway, IInv, Types
  <2> QED
    BY <1>2, <2>1, <2>2 DEF IInv, Types
<1>6. \A q \in Requests, d \in Dimensions :
          Checked(q)' = DimensionsOf(q) \ todo'[q] /\ (Within(used, q, d)' <=> Within(used, q, d))
  BY <1>2 DEF Checked, DimensionsOf, IsVton, Within, Charge
<1>7. RowsHeld' /\ RoomKept'
  <2> SUFFICES ASSUME NEW q \in Requests, NEW d \in Dimensions,
                      serve'[q] = "locking", d \in Checked(q)'
               PROVE  rowLock'[d] = {q} /\ (fits'[q] => Within(used, q, d)')
    BY DEF RowsHeld, RoomKept
  <2>1. q \notin Served(g)
    BY <1>3
  <2>2. serve[q] = "locking" /\ d \in Checked(q) /\ fits'[q] = fits[q]
    BY <1>4, <1>6, <2>1 DEF Checked
  <2>3. rowLock[d] = {q} /\ (fits[q] => Within(used, q, d))
    BY <2>2 DEF IInv, RowsHeld, RoomKept
  <2> QED
    BY <1>4, <1>6, <2>1, <2>2, <2>3
<1>8. DecisionsReached'
  BY <1>1, <1>2, <1>3, <1>4 DEF IInv, Types, DecisionsReached
<1>9. AdmittedCommitted'
  BY <1>2, <1>3, <1>4 DEF IInv, AdmittedCommitted
<1>10. NoOversell' /\ FailsClosed'
  BY <1>2 DEF IInv, NoOversell, FailsClosed
<1>11. MirrorNeverAhead'
  <2> SUFFICES ASSUME NEW h \in Gateways, NEW d \in Dimensions PROVE mirror'[h][d] <= used'[d]
    BY DEF MirrorNeverAhead
  <2>1. mirror'[h] = mirror[h] \/ mirror'[h] = Zero
    BY DEF RestartGateway, IInv, Types
  <2> QED
    BY <1>1, <1>2, <2>1 DEF IInv, Types, MirrorNeverAhead
<1> QED
  BY <1>5, <1>7, <1>8, <1>9, <1>10, <1>11 DEF IInv

LEMMA NextKeeps == IInv /\ [Next]_vars => IInv'
<1> SUFFICES ASSUME IInv, [Next]_vars PROVE IInv'
  OBVIOUS
<1>1. CASE UNCHANGED vars
  BY <1>1 DEF vars, store, copies, handler, IInv, Types, RowsHeld, RoomKept, DecisionsReached,
     AdmittedCommitted, NoOversell, MirrorNeverAhead, FailsClosed, Checked, DimensionsOf,
     IsVton, Within, Charge
<1>2. ASSUME NEW q \in Requests, Transaction(q) PROVE IInv'
  BY <1>2, TakeClientKeeps, LockRowKeeps, CommitKeeps, RollBackKeeps DEF Transaction
<1>3. ASSUME NEW q \in Requests, TransactionFails(q) PROVE IInv'
  BY <1>3, LeaveKeeps DEF TransactionFails
<1> QED
  BY <1>1, <1>2, <1>3, PublishKeeps, AbandonKeeps, CallKeeps, RestartKeeps DEF Next, CheckQuota

LEMMA Invariance == Spec => []IInv
  BY InitHolds, NextKeeps, PTL DEF Spec

(* Whatever gateways there are and however their transactions interleave,  *)
(* fail or are dropped, no dimension of the shared ledger exceeds the plan. *)
THEOREM NoOversellHolds == Spec => []NoOversell
<1>1. IInv => NoOversell
  BY DEF IInv
<1> QED
  BY Invariance, <1>1, PTL

(* No gateway shows more usage than there was, in whatever order it applies *)
(* the decisions.                                                           *)
THEOREM MirrorNeverAheadHolds == Spec => []MirrorNeverAhead
<1>1. IInv => MirrorNeverAhead
  BY DEF IInv
<1> QED
  BY Invariance, <1>1, PTL

(* A gateway answers "allowed" only when the charge is committed.          *)
THEOREM FailsClosedHolds == Spec => []FailsClosed
<1>1. IInv => FailsClosed
  BY DEF IInv
<1> QED
  BY Invariance, <1>1, PTL

-----------------------------------------------------------------------------
(* Every charge of the shared ledger is one of a committed request.        *)

\* The gateway serves a request once, after the API has asked it, and its
\* transaction is over when it is committed.
ServedOnce ==
    /\ call \in [Requests -> CallSteps]
    /\ \A q \in Requests :
           /\ call[q] \in {"idle", "prechecking", "working"} => serve[q] = "none"
           /\ q \in committed => serve[q] \notin {"none", "queued", "locking"}

ChargeInv ==
    /\ ServedOnce
    /\ \A d \in Dimensions : IsFiniteSet(Units(committed, d))
    /\ UsedIsCharged

\* A step charges nothing, or a request that was not charged before.
ChargesOnce ==
    /\ ask' = ask
    /\ \/ used' = used /\ committed' = committed
       \/ \E q \in Requests \ committed :
              used' = Charged(q) /\ committed' = committed \union {q}

LEMMA TransactionsChargeOnce ==
    ASSUME IInv, ServedOnce, NEW q \in Requests,
           \/ TakeClient(q) \/ Commit(q) \/ RollBack(q) \/ \E d \in Dimensions : LockRow(q, d)
           \/ TransactionFails(q) \/ Abandon(q)
    PROVE  ServedOnce' /\ ChargesOnce
<1> USE DEF ServedOnce, ServeGoto, EndTransaction, Finish, copies, api, store, IInv, Types
<1>1. CASE TakeClient(q)
  BY <1>1 DEF TakeClient, ChargesOnce
<1>2. CASE Commit(q)
  BY <1>2 DEF Commit, ChargesOnce
<1>3. CASE RollBack(q)
  BY <1>3 DEF RollBack, ChargesOnce
<1>4. CASE \E d \in Dimensions : LockRow(q, d)
  BY <1>4 DEF LockRow, CheckRow, ChargesOnce
<1>5. ASSUME NEW to \in {"answered", "gone"}, NEW answer, LeaveTransaction(q, to, answer)
      PROVE  ServedOnce' /\ ChargesOnce
  BY <1>5 DEF LeaveTransaction, ChargesOnce
<1>6. CASE TransactionFails(q)
  BY <1>5, <1>6 DEF TransactionFails
<1>7. CASE Abandon(q)
  <2>1. CASE LeaveTransaction(q, "gone", "none")
    BY <1>5, <2>1
  <2>2. CASE /\ serve[q] \in {"queued", "mirroring"}
             /\ ServeGoto(q, serve[q], "gone")
             /\ Finish(q, "none")
             /\ UNCHANGED <<ask, store, copies, api>>
    BY <2>2 DEF ChargesOnce
  <2> QED
    BY <1>7, <2>1, <2>2 DEF Abandon
<1> QED
  BY <1>1, <1>2, <1>3, <1>4, <1>6, <1>7

\* The other steps charge nothing in Postgres.
LEMMA OthersChargeNothing ==
    ASSUME IInv, ServedOnce, NEW q \in Requests, Publish(q) \/ Call(q)
    PROVE  ServedOnce' /\ ChargesOnce
<1> USE DEF ServedOnce, ServeGoto, Goto, Finish, copies, api, store, handler, IInv, Types
<1>1. CASE Publish(q)
  <2>1. CASE Sync(q) \/ SyncRefused(q) \/ SaveFails(q)
    BY <2>1 DEF Sync, SyncRefused, SaveFails, ChargesOnce
  <2>2. CASE CountFails(q) \/ AnswerAllowed(q) \/ \E d \in Dimensions : Count(q, d)
    BY <2>2 DEF CountFails, AnswerAllowed, Count, ChargesOnce
  <2> QED
    BY <1>1, <2>1, <2>2 DEF Publish
<1>2. CASE Call(q)
  <2> DEFINE early == {"idle", "prechecking", "working"}
  <2>1. CASE StartLlm(q) \/ WorkDone(q)
    BY <2>1 DEF StartLlm, WorkDone, AskGateway, CallSteps, ChargesOnce
  <2> HIDE DEF IInv, Types, copies, api, store, handler
  <2>2. ASSUME UNCHANGED <<ask, used, committed, serve>>,
               \/ call' = call
               \/ \E to \in CallSteps :
                      call' = [call EXCEPT ![q] = to] /\ (to \in early => call[q] \in early)
        PROVE  ServedOnce' /\ ChargesOnce
    <3>1. ChargesOnce
      BY <2>2 DEF ChargesOnce
    <3>2. /\ call' \in [Requests -> CallSteps]
          /\ \A p \in Requests : call'[p] \in early => call[p] \in early
      BY <2>2
    <3> QED
      BY <2>2, <3>1, <3>2
  <2> USE DEF CallSteps, copies, api, store, handler
  <2> HIDE DEF ServedOnce
  <2>3. CASE StartVton(q) \/ FallBack(q)
    BY <2>2, <2>3 DEF StartVton, FallBack, StartLocal
  <2>4. CASE Precheck(q) \/ WorkFails(q)
    BY <2>2, <2>4 DEF Precheck, WorkFails
  <2>5. CASE HearDecision(q)
    BY <2>2, <2>5 DEF HearDecision, Decided
  <2>6. CASE LocalDecide(q)
    BY <2>2, <2>6 DEF LocalDecide, Decided
  <2>7. CASE LocalRecorded(q)
    BY <2>2, <2>7 DEF LocalRecorded
  <2>8. ASSUME NEW d \in Dimensions, LocalCheck(q, d) \/ LocalLoad(q, d) \/ LocalStore(q, d)
        PROVE  ServedOnce' /\ ChargesOnce
    BY <2>2, <2>8 DEF LocalCheck, LocalLoad, LocalStore
  <2> QED
    BY <1>2, <2>1, <2>3, <2>4, <2>5, <2>6, <2>7, <2>8 DEF Call
<1> QED
  BY <1>1, <1>2

LEMMA StepsChargeOnce ==
    ASSUME IInv, ServedOnce, [Next]_vars
    PROVE  ServedOnce' /\ ChargesOnce
<1>1. CASE UNCHANGED vars
  BY <1>1 DEF vars, store, api, handler, ServedOnce, ChargesOnce
<1>2. ASSUME NEW g \in Gateways, RestartGateway(g)
      PROVE  ServedOnce' /\ ChargesOnce
  <2>1. /\ UNCHANGED <<ask, used, committed, api>>
        /\ \A q \in Requests : \/ serve'[q] = serve[q]
                               \/ serve'[q] = "gone" /\ serve[q] # "none"
    BY <1>2 DEF RestartGateway, Dropped, Served
  <2> QED
    BY <2>1 DEF ServedOnce, ChargesOnce, api
<1> QED
  BY <1>1, <1>2, TransactionsChargeOnce, OthersChargeNothing DEF Next, CheckQuota, Transaction

\* The units of one more request are as many as it is charged.
LEMMA UnitsAdd ==
    ASSUME Types, NEW q \in Requests \ committed, NEW d \in Dimensions,
           IsFiniteSet(Units(committed, d))
    PROVE  /\ IsFiniteSet(Units(committed \union {q}, d))
           /\ Cardinality(Units(committed, d)) \in Nat
           /\ Cardinality(Units(committed \union {q}, d)) =
                  IF d \in DimensionsOf(q) THEN Cardinality(Units(committed, d)) + Charge(q, d)
                  ELSE Cardinality(Units(committed, d))
<1> DEFINE before == Units(committed, d)
           after == Units(committed \union {q}, d)
           own == {q} \X (1 .. Charge(q, d))
<1>1. Charge(q, d) \in Nat
  BY ChargeType DEF Types
<1>2. IsFiniteSet(own) /\ Cardinality(own) = Charge(q, d)
  <2>1. IsFiniteSet(1 .. Charge(q, d)) /\ Cardinality(1 .. Charge(q, d)) = Charge(q, d)
    BY <1>1, FS_Interval
  <2>2. IsFiniteSet({q}) /\ Cardinality({q}) = 1
    BY FS_Singleton
  <2>3. Cardinality(own) = Cardinality({q}) * Cardinality(1 .. Charge(q, d)) /\ IsFiniteSet(own)
    BY <2>1, <2>2, FS_Product
  <2> HIDE DEF own
  <2> QED
    BY <1>1, <2>1, <2>2, <2>3
<1>3. before \intersect own = {}
  BY DEF Units
<1>4. Cardinality(before) \in Nat
  BY FS_CardinalityType
<1>5. CASE d \in DimensionsOf(q)
  <2>1. after = before \union own
    BY <1>5 DEF Units
  <2>2. Cardinality({}) = 0
    BY FS_EmptySet
  <2>3. IsFiniteSet(before)
    OBVIOUS
  <2> HIDE DEF before, own, after
  <2>4. /\ IsFiniteSet(before \union own)
        /\ Cardinality(before \union own) =
               Cardinality(before) + Cardinality(own) - Cardinality(before \intersect own)
    BY <1>2, <2>3, FS_Union
  <2>5. Cardinality(before \intersect own) = 0
    BY <1>3, <2>2
  <2>6. IsFiniteSet(after) /\ Cardinality(after) = Cardinality(before) + Charge(q, d)
    BY <1>1, <1>2, <1>4, <2>1, <2>4, <2>5
  <2> QED
    BY <1>4, <1>5, <2>6 DEF before, after
<1>6. CASE d \notin DimensionsOf(q)
  <2>1. after = before
    BY <1>6 DEF Units
  <2> QED
    BY <1>4, <1>6, <2>1
<1> QED
  BY <1>5, <1>6

LEMMA ChargeStep ==
    ASSUME IInv, ChargeInv, [Next]_vars
    PROVE  ChargeInv'
<1>1. ServedOnce' /\ ChargesOnce
  BY StepsChargeOnce DEF ChargeInv
<1>2. CASE used' = used /\ committed' = committed
  <2>1. \A d \in Dimensions : Units(committed, d)' = Units(committed, d)
    BY <1>1, <1>2 DEF ChargesOnce, Units, Charge, DimensionsOf, IsVton
  <2> QED
    BY <1>1, <1>2, <2>1 DEF ChargeInv, UsedIsCharged, Charges
<1>3. ASSUME NEW q \in Requests \ committed, used' = Charged(q), committed' = committed \union {q}
      PROVE  ChargeInv'
  <2>1. ASSUME NEW d \in Dimensions
        PROVE  /\ IsFiniteSet(Units(committed, d)')
               /\ used'[d] = Cardinality(Units(committed, d)')
    <3>1. Units(committed, d)' = Units(committed \union {q}, d)
      BY <1>1, <1>3 DEF ChargesOnce, Units, Charge, DimensionsOf, IsVton
    <3>2. IsFiniteSet(Units(committed, d)) /\ used[d] = Cardinality(Units(committed, d))
      BY DEF ChargeInv, UsedIsCharged, Charges
    <3>3. used'[d] = IF d \in DimensionsOf(q) THEN used[d] + Charge(q, d) ELSE used[d]
      BY <1>3 DEF Charged
    <3>4. /\ IsFiniteSet(Units(committed \union {q}, d))
          /\ Cardinality(Units(committed \union {q}, d)) = 
                  IF d \in DimensionsOf(q) THEN Cardinality(Units(committed, d)) + Charge(q, d)
                  ELSE Cardinality(Units(committed, d))
      BY <3>2, UnitsAdd DEF IInv
    <3> QED
      BY <3>1, <3>2, <3>3, <3>4
  <2> QED
    BY <1>1, <2>1 DEF ChargeInv, UsedIsCharged, Charges
<1> QED
  BY <1>1, <1>2, <1>3 DEF ChargesOnce

(* The shared ledger holds the charges of the committed requests, each once *)
(* and in all of its dimensions, and no other.                              *)
THEOREM UsedIsChargedHolds == Spec => []UsedIsCharged
<1>1. Init => ChargeInv
  <2> SUFFICES ASSUME Init PROVE ChargeInv
    OBVIOUS
  <2>1. ServedOnce
    BY DEF Init, ServedOnce, CallSteps
  <2>2. \A d \in Dimensions : Units(committed, d) = {} /\ used[d] = 0
    BY DEF Init, Units, Zero
  <2>3. IsFiniteSet({}) /\ Cardinality({}) = 0
    BY FS_EmptySet
  <2> QED
    BY <2>1, <2>2, <2>3 DEF ChargeInv, UsedIsCharged, Charges
<1>2. IInv /\ ChargeInv /\ [Next]_vars => ChargeInv'
  BY ChargeStep
<1>3. ChargeInv => UsedIsCharged
  BY DEF ChargeInv
<1> QED
  BY <1>1, <1>2, <1>3, Invariance, PTL DEF Spec

HIDE QuotaAssumption DEF QuotaAssumption

(***************************************************************************)
(* What LocalLedger promises, for any processes, requests, limit and bound *)
(* on stops.                                                               *)
(***************************************************************************)

\* The ledger at the path, as load reads it.
Kept == IF file = Missing THEN 0 ELSE file

\* Only a process with a path saves, one such process runs at a time, and what
\* it is about to rename is its whole ledger.
SaversAgree ==
    /\ \A p \in Processes : saver[p] # "idle" => p \in keeps /\ Up(p)
    /\ \A p \in keeps, o \in keeps : Up(p) /\ Up(o) => p = o
    /\ \A p \in Processes : saver[p] = "renaming" => temp = book[p]

FileIsALedger == file # Torn /\ LedgerStaysReadable

\* No ledger goes beyond the limit, in memory or in a file.
LedgersFit ==
    /\ \A p \in Processes : book[p] <= Allowance
    /\ file <= Allowance /\ temp <= Allowance

ReadableInv == LedgerTypeOK /\ SaversAgree /\ FileIsALedger /\ LedgersFit

\* What the save in progress will promise.
Owed(p) == IF p \in Servers THEN 1 ELSE verdict[p]

\* Where every process keeps the file, it holds what was promised, and a ledger
\* in memory that and what its save will promise.
PromisesAreKept ==
    keeps = Processes =>
        /\ promised <= Kept
        /\ \A p \in Processes : Up(p) => Kept <= book[p]
        /\ \A p \in Processes : saver[p] \notin {"idle", "refused"} => promised + Owed(p) <= book[p]
        /\ \A p \in Processes : saver[p] = "saved" => file = book[p]

LedgerInv == ReadableInv /\ PromisesAreKept

USE LedgerAssumption DEF LedgerAssumption

-----------------------------------------------------------------------------

LEMMA InitEstablishes == LedgerInit => LedgerInv
<1> SUFFICES ASSUME LedgerInit PROVE LedgerInv
  OBVIOUS
<1> USE DEF LedgerInit
<1>1. LedgerTypeOK
  BY DEF LedgerTypeOK, Lives, SaveSteps, CheckSteps, Missing
<1>2. SaversAgree /\ FileIsALedger /\ LedgersFit
  BY DEF SaversAgree, FileIsALedger, LedgerStaysReadable, LedgersFit, Up, Missing, Torn
<1>3. PromisesAreKept
  BY DEF PromisesAreKept, Kept, Up
<1> QED
  BY <1>1, <1>2, <1>3 DEF LedgerInv, ReadableInv

\* A process that starts reads a ledger, and is the only one with a path to run.
LEMMA StartKeeps ==
    ASSUME LedgerInv, NEW p \in Processes, Start(p)
    PROVE  LedgerInv'
<1> USE DEF LedgerInv, ReadableInv, Start, tally
<1>1. Loaded(p) \in Nat /\ Loaded(p) # Torn /\ Loaded(p) <= Allowance
  BY DEF LedgerTypeOK, FileIsALedger, LedgersFit, Loaded, Missing, Torn
<1>2. /\ \E to \in {"up", "alone"} : life' = [life EXCEPT ![p] = to]
      /\ book' = [book EXCEPT ![p] = Loaded(p)]
  BY <1>1
<1> HIDE DEF Start
<1>3. UNCHANGED <<keeps, saver, file, temp, check, verdict, promised, charged, billed, stops>>
  BY DEF Start, tally
<1>4. p \in keeps => \A o \in keeps : ~Up(o)
  BY DEF Start
<1>5. saver[p] = "idle"
  BY DEF Start, SaversAgree, Up
<1>6. LedgerTypeOK'
  BY <1>1, <1>2, <1>3 DEF LedgerTypeOK, Lives
<1>7. SaversAgree'
  BY <1>2, <1>3, <1>4, <1>5 DEF SaversAgree, Up, LedgerTypeOK
<1>8. FileIsALedger' /\ LedgersFit'
  BY <1>1, <1>2, <1>3 DEF FileIsALedger, LedgerStaysReadable, LedgersFit, LedgerTypeOK
<1>9. PromisesAreKept'
  <2> SUFFICES ASSUME keeps = Processes PROVE
        /\ promised <= Kept
        /\ \A o \in Processes : Up(o)' => Kept <= book'[o]
        /\ \A o \in Processes : saver[o] \notin {"idle", "refused"} => promised + Owed(o) <= book'[o]
        /\ \A o \in Processes : saver[o] = "saved" => file = book'[o]
    BY <1>3 DEF PromisesAreKept, Kept, Owed
  <2>1. Loaded(p) = Kept
    BY DEF Loaded, Kept
  <2>2. \A o \in Processes \ {p} : ~Up(o) /\ saver[o] = "idle"
    BY <1>4 DEF SaversAgree
  <2> QED
    BY <1>2, <1>5, <2>1, <2>2 DEF PromisesAreKept, Up, LedgerTypeOK, Kept
<1> QED
  BY <1>6, <1>7, <1>8, <1>9

\* A process that ends leaves no save and no ledger.
LEMMA StopKeeps ==
    ASSUME LedgerInv, NEW p \in Processes, Stop(p)
    PROVE  LedgerInv'
<1> USE DEF LedgerInv, ReadableInv, Stop
<1>1. LedgerTypeOK'
  BY DEF LedgerTypeOK, Lives, SaveSteps, CheckSteps
<1>2. SaversAgree'
  BY DEF SaversAgree, Up, LedgerTypeOK
<1>3. FileIsALedger' /\ LedgersFit'
  BY DEF FileIsALedger, LedgerStaysReadable, LedgersFit, LedgerTypeOK
<1>4. PromisesAreKept'
  BY DEF PromisesAreKept, Kept, Owed, Up, LedgerTypeOK
<1> QED
  BY <1>1, <1>2, <1>3, <1>4

-----------------------------------------------------------------------------
(* The steps of a save: only the last one touches the ledger's file.        *)

LEMMA SaveStepKeeps ==
    ASSUME LedgerInv, NEW p \in Processes,
           Truncate(p) \/ Fill(p) \/ Rename(p) \/ DiskRefuses(p)
    PROVE  LedgerInv'
<1> USE DEF LedgerInv, ReadableInv, Save, tally
<1>1. /\ UNCHANGED <<keeps, life, book, check, verdict, promised, charged, billed, stops>>
      /\ Up(p) /\ p \in keeps
      /\ saver[p] # "idle"
  BY DEF Truncate, Fill, Rename, DiskRefuses, SaversAgree
<1>2. \A o \in Processes \ {p} : o \in keeps => saver[o] = "idle"
  BY <1>1 DEF SaversAgree
<1>3. CASE Truncate(p)
  <2> USE <1>3 DEF Truncate
  <2>1. LedgerTypeOK'
    BY DEF LedgerTypeOK, SaveSteps
  <2>2. SaversAgree'
    BY <1>1, <1>2 DEF SaversAgree, Up, LedgerTypeOK
  <2>3. FileIsALedger' /\ LedgersFit'
    BY DEF FileIsALedger, LedgerStaysReadable, LedgersFit, Torn
  <2>4. PromisesAreKept'
    BY <1>1 DEF PromisesAreKept, Kept, Owed, Up, LedgerTypeOK
  <2> QED
    BY <2>1, <2>2, <2>3, <2>4
<1>4. CASE Fill(p)
  <2> USE <1>4 DEF Fill
  <2>1. LedgerTypeOK'
    BY DEF LedgerTypeOK, SaveSteps
  <2>2. SaversAgree'
    BY <1>1, <1>2 DEF SaversAgree, Up, LedgerTypeOK
  <2>3. FileIsALedger' /\ LedgersFit'
    BY DEF FileIsALedger, LedgerStaysReadable, LedgersFit
  <2>4. PromisesAreKept'
    BY <1>1 DEF PromisesAreKept, Kept, Owed, Up, LedgerTypeOK
  <2> QED
    BY <2>1, <2>2, <2>3, <2>4
<1>5. CASE Rename(p)
  <2> USE <1>5 DEF Rename
  <2>1. temp = book[p] /\ book[p] \in Nat
    BY DEF SaversAgree, LedgerTypeOK
  <2>2. LedgerTypeOK'
    BY <2>1 DEF LedgerTypeOK, SaveSteps, Missing
  <2>3. SaversAgree'
    BY <1>1, <1>2 DEF SaversAgree, Up, LedgerTypeOK
  <2>4. FileIsALedger' /\ LedgersFit'
    BY <2>1 DEF FileIsALedger, LedgerStaysReadable, LedgersFit, Torn, Missing
  <2>5. PromisesAreKept'
    <3> SUFFICES ASSUME keeps = Processes PROVE
          /\ promised <= book[p]
          /\ \A o \in Processes : Up(o) => book[p] <= book[o]
          /\ \A o \in Processes : saver'[o] \notin {"idle", "refused"} => promised + Owed(o) <= book[o]
          /\ \A o \in Processes : saver'[o] = "saved" => book[p] = book[o]
      BY <1>1, <2>1 DEF PromisesAreKept, Kept, Owed, Up, Missing
    <3>1. promised + Owed(p) <= book[p] /\ Owed(p) \in Nat
      BY DEF PromisesAreKept, Owed, LedgerTypeOK, Processes
    <3>2. \A o \in Processes : Up(o) => o = p
      BY <1>1 DEF SaversAgree
    <3> QED
      BY <1>1, <1>2, <2>1, <3>1, <3>2 DEF LedgerTypeOK
  <2> QED
    BY <2>2, <2>3, <2>4, <2>5
<1>6. CASE DiskRefuses(p)
  <2> USE <1>6 DEF DiskRefuses
  <2>1. LedgerTypeOK'
    BY DEF LedgerTypeOK, SaveSteps
  <2>2. SaversAgree'
    BY <1>1, <1>2 DEF SaversAgree, Up, LedgerTypeOK
  <2>3. FileIsALedger' /\ LedgersFit'
    BY DEF FileIsALedger, LedgerStaysReadable, LedgersFit
  <2>4. PromisesAreKept'
    BY <1>1 DEF PromisesAreKept, Kept, Owed, Up, LedgerTypeOK
  <2> QED
    BY <2>1, <2>2, <2>3, <2>4
<1> QED
  BY <1>3, <1>4, <1>5, <1>6

-----------------------------------------------------------------------------
(* The steps of a call.                                                     *)

LEMMA AdmitKeeps ==
    ASSUME LedgerInv, NEW r \in Checks, Admit(r)
    PROVE  LedgerInv'
<1> DEFINE s == ServerOf[r]
<1> USE DEF LedgerInv, ReadableInv
<1>1. s \in Servers /\ s \in Processes /\ Up(s) /\ saver[s] = "idle" /\ book[s] + 1 <= Allowance
  BY DEF Admit, CheckGoto, Fits, Processes
<1>2. /\ UNCHANGED <<keeps, life, file, temp, verdict, billed, stops>>
      /\ book' = [book EXCEPT ![s] = @ + 1]
      /\ saver' = [saver EXCEPT ![s] = IF s \in keeps THEN "writing" ELSE "idle"]
      /\ promised' = IF s \in keeps THEN promised ELSE promised + 1
      /\ charged' = charged + 1
      /\ check' = [check EXCEPT ![r] = IF s \in keeps THEN "saving" ELSE Onward(s)]
  BY DEF Admit, CheckGoto
<1>3. LedgerTypeOK'
  BY <1>1, <1>2 DEF LedgerTypeOK, SaveSteps, CheckSteps, Onward
<1>4. SaversAgree'
  BY <1>1, <1>2 DEF SaversAgree, Up, LedgerTypeOK
<1>5. FileIsALedger' /\ LedgersFit'
  BY <1>1, <1>2 DEF FileIsALedger, LedgerStaysReadable, LedgersFit, LedgerTypeOK
<1>6. PromisesAreKept'
  <2> SUFFICES ASSUME keeps = Processes PROVE
        /\ promised <= Kept
        /\ \A p \in Processes : Up(p) => Kept <= book'[p]
        /\ \A p \in Processes : saver'[p] \notin {"idle", "refused"} => promised + Owed(p) <= book'[p]
        /\ \A p \in Processes : saver'[p] = "saved" => file = book'[p]
    BY <1>1, <1>2 DEF PromisesAreKept, Kept, Owed, Up
  <2>1. \A p \in Processes \ {s} : ~Up(p) /\ saver[p] = "idle"
    BY <1>1 DEF SaversAgree
  <2>2. promised <= Kept /\ Kept <= book[s] /\ Kept \in Nat
    BY <1>1 DEF PromisesAreKept, Kept, LedgerTypeOK, FileIsALedger
  <2>3. Owed(s) = 1
    BY <1>1 DEF Owed
  <2> QED
    BY <1>1, <1>2, <2>1, <2>2, <2>3 DEF LedgerTypeOK
<1> QED
  BY <1>3, <1>4, <1>5, <1>6

LEMMA EndSaveKeeps ==
    ASSUME LedgerInv, NEW r \in Checks, Saved(r) \/ NotSaved(r)
    PROVE  LedgerInv'
<1> DEFINE s == ServerOf[r]
<1> USE DEF LedgerInv, ReadableInv
<1>1. s \in Servers /\ s \in Processes /\ Up(s) /\ s \in keeps
  BY DEF Saved, NotSaved, EndSave, CheckGoto, Processes, SaversAgree
<1>2. /\ UNCHANGED <<keeps, life, book, file, temp, verdict, charged, billed, stops>>
      /\ saver' = [saver EXCEPT ![s] = "idle"]
      /\ \E to \in CheckSteps : check' = [check EXCEPT ![r] = to]
      /\ (saver[s] = "saved" /\ promised' = promised + 1) \/ UNCHANGED promised
  BY DEF Saved, NotSaved, EndSave, CheckGoto, Onward, CheckSteps
<1>3. LedgerTypeOK'
  BY <1>1, <1>2 DEF LedgerTypeOK, SaveSteps
<1>4. SaversAgree'
  BY <1>1, <1>2 DEF SaversAgree, Up, LedgerTypeOK
<1>5. FileIsALedger' /\ LedgersFit'
  BY <1>2 DEF FileIsALedger, LedgerStaysReadable, LedgersFit
<1>6. PromisesAreKept'
  <2> SUFFICES ASSUME keeps = Processes PROVE
        /\ promised' <= Kept
        /\ \A p \in Processes : Up(p) => Kept <= book[p]
        /\ \A p \in Processes : saver'[p] = "idle"
    BY <1>2 DEF PromisesAreKept, Kept, Owed, Up
  <2>1. \A p \in Processes \ {s} : saver[p] = "idle"
    BY <1>1 DEF SaversAgree
  <2>2. saver[s] = "saved" => promised + 1 <= Kept
    BY <1>1 DEF PromisesAreKept, Owed, Kept, LedgerTypeOK, Missing
  <2> QED
    BY <1>1, <1>2, <2>1, <2>2 DEF PromisesAreKept, LedgerTypeOK
<1> QED
  BY <1>3, <1>4, <1>5, <1>6

\* The other steps of a call leave the ledgers alone.
LEMMA LedgerCallKeeps ==
    ASSUME LedgerInv, NEW r \in Checks,
           Refuse(r) \/ Bill(r) \/ BillFails(r) \/ AnswerBilled(r) \/ CountersFail(r) \/ HangUp(r)
    PROVE  LedgerInv'
<1> USE DEF LedgerInv, ReadableInv
<1>1. /\ UNCHANGED <<keeps, life, book, saver, file, temp, verdict, promised, charged, stops>>
      /\ \E to \in CheckSteps : check' = [check EXCEPT ![r] = to]
      /\ billed' \in {billed, billed + 1}
  BY DEF Refuse, Bill, BillFails, AnswerBilled, CountersFail, HangUp, BillGoto, CheckGoto, CheckSteps, tally
<1>2. LedgerTypeOK'
  BY <1>1 DEF LedgerTypeOK
<1>3. SaversAgree' /\ FileIsALedger' /\ LedgersFit' /\ PromisesAreKept'
  BY <1>1 DEF SaversAgree, FileIsALedger, LedgerStaysReadable, LedgersFit, PromisesAreKept, Kept, Owed, Up
<1> QED
  BY <1>2, <1>3

-----------------------------------------------------------------------------
(* The steps of a quota-check run.                                          *)

LEMMA DecideBatchKeeps ==
    ASSUME LedgerInv, NEW b \in Batches, DecideBatch(b)
    PROVE  LedgerInv'
<1> USE DEF LedgerInv, ReadableInv
<1>1. b \in Processes /\ b \notin Servers /\ Up(b) /\ saver[b] = "idle"
  BY DEF DecideBatch, Processes
<1>2. Granted(b) \in Nat /\ book[b] + Granted(b) <= Allowance /\ book[b] \in Nat
  BY <1>1 DEF Granted, LesserOf, LedgersFit, LedgerTypeOK
<1>3. /\ UNCHANGED <<keeps, file, temp, check, charged, billed, stops>>
      /\ verdict' = [verdict EXCEPT ![b] = Granted(b)]
      /\ book' = [book EXCEPT ![b] = @ + Granted(b)]
  BY DEF DecideBatch
<1>4. \/ /\ b \in keeps /\ saver' = [saver EXCEPT ![b] = "writing"]
         /\ UNCHANGED <<life, promised>>
      \/ /\ b \in keeps => Granted(b) = 0
         /\ life' = [life EXCEPT ![b] = "done"]
         /\ promised' = promised + Granted(b)
         /\ UNCHANGED saver
  BY <1>2 DEF DecideBatch
<1>5. LedgerTypeOK'
  BY <1>1, <1>2, <1>3, <1>4 DEF LedgerTypeOK, SaveSteps, Lives
<1>6. SaversAgree'
  BY <1>1, <1>3, <1>4 DEF SaversAgree, Up, LedgerTypeOK
<1>7. FileIsALedger' /\ LedgersFit'
  BY <1>1, <1>2, <1>3, <1>4 DEF FileIsALedger, LedgerStaysReadable, LedgersFit, LedgerTypeOK
<1>8. PromisesAreKept'
  <2> SUFFICES ASSUME keeps = Processes PROVE
        /\ promised' <= Kept
        /\ \A p \in Processes : Up(p)' => Kept <= book'[p]
        /\ \A p \in Processes : saver'[p] \notin {"idle", "refused"} => promised' + Owed(p)' <= book'[p]
        /\ \A p \in Processes : saver'[p] = "saved" => file = book'[p]
    BY <1>3 DEF PromisesAreKept, Kept
  <2>1. \A p \in Processes \ {b} : ~Up(p) /\ ~Up(p)' /\ saver[p] = "idle" /\ saver'[p] = "idle"
    BY <1>1, <1>4 DEF SaversAgree, Up, LedgerTypeOK
  <2>2. promised' = promised
    BY <1>1, <1>2, <1>4 DEF LedgerTypeOK
  <2>3. promised <= Kept /\ Kept <= book[b] /\ Kept \in Nat
    BY <1>1 DEF PromisesAreKept, Kept, LedgerTypeOK, FileIsALedger
  <2>4. Owed(b)' = Granted(b)
    BY <1>1, <1>3 DEF Owed, LedgerTypeOK
  <2>5. saver'[b] \in {"idle", "writing"}
    BY <1>1, <1>4 DEF LedgerTypeOK
  <2>6. book'[b] = book[b] + Granted(b)
    BY <1>1, <1>3 DEF LedgerTypeOK
  <2> QED
    BY <1>1, <1>2, <2>1, <2>2, <2>3, <2>4, <2>5, <2>6 DEF LedgerTypeOK
<1> QED
  BY <1>5, <1>6, <1>7, <1>8

LEMMA EndBatchKeeps ==
    ASSUME LedgerInv, NEW b \in Batches, PrintBatch(b) \/ BatchNotSaved(b)
    PROVE  LedgerInv'
<1> USE DEF LedgerInv, ReadableInv
<1>1. b \in Processes /\ b \notin Servers /\ Up(b) /\ b \in keeps
  BY DEF PrintBatch, BatchNotSaved, EndBatch, SaversAgree, Processes
<1>2. /\ UNCHANGED <<keeps, book, file, temp, check, verdict, charged, billed, stops>>
      /\ saver' = [saver EXCEPT ![b] = "idle"]
      /\ life' = [life EXCEPT ![b] = "done"]
      /\ \/ saver[b] = "saved" /\ promised' = promised + verdict[b]
         \/ promised' = promised + 0
  BY DEF PrintBatch, BatchNotSaved, EndBatch
<1>3. verdict[b] \in Nat /\ promised \in Nat
  BY DEF LedgerTypeOK
<1>4. LedgerTypeOK'
  BY <1>1, <1>2, <1>3 DEF LedgerTypeOK, SaveSteps, Lives
<1>5. SaversAgree'
  BY <1>1, <1>2 DEF SaversAgree, Up, LedgerTypeOK
<1>6. FileIsALedger' /\ LedgersFit'
  BY <1>1, <1>2 DEF FileIsALedger, LedgerStaysReadable, LedgersFit, LedgerTypeOK
<1>7. PromisesAreKept'
  <2> SUFFICES ASSUME keeps = Processes PROVE
        /\ promised' <= Kept
        /\ \A p \in Processes : ~Up(p)' /\ saver'[p] = "idle"
    BY <1>2 DEF PromisesAreKept, Kept
  <2>1. \A p \in Processes \ {b} : ~Up(p) /\ saver[p] = "idle"
    BY <1>1 DEF SaversAgree
  <2>2. saver[b] = "saved" => promised + verdict[b] <= Kept
    BY <1>1, <1>3 DEF PromisesAreKept, Owed, Kept, LedgerTypeOK, Missing
  <2> QED
    BY <1>1, <1>2, <1>3, <2>1, <2>2 DEF PromisesAreKept, Up, LedgerTypeOK
<1> QED
  BY <1>4, <1>5, <1>6, <1>7

-----------------------------------------------------------------------------

LEMMA LedgerNextKeeps == LedgerInv /\ [LedgerNext]_ledgerVars => LedgerInv'
<1> SUFFICES ASSUME LedgerInv, [LedgerNext]_ledgerVars PROVE LedgerInv'
  OBVIOUS
<1>1. CASE LedgerNext
  BY <1>1, StartKeeps, StopKeeps, SaveStepKeeps, AdmitKeeps, EndSaveKeeps, LedgerCallKeeps,
     DecideBatchKeeps, EndBatchKeeps DEF LedgerNext
<1>2. CASE UNCHANGED ledgerVars
  BY <1>2 DEF ledgerVars, tally, LedgerInv, ReadableInv, LedgerTypeOK, SaversAgree, FileIsALedger,
     LedgerStaysReadable, LedgersFit, PromisesAreKept, Kept, Owed, Up
<1> QED
  BY <1>1, <1>2

(* LedgerInv, with the types, holds in every state.                         *)
THEOREM LedgerInvariant == LedgerSpec => []LedgerInv
BY InitEstablishes, LedgerNextKeeps, PTL DEF LedgerSpec

(* However often gateways and quota-check runs fail, end and start again,   *)
(* together they never promise more than the plan if all keep the file.     *)
THEOREM PromisedWithinLimitHolds == LedgerSpec => []PromisedWithinLimit
<1>1. LedgerInv => PromisedWithinLimit
  BY DEF LedgerInv, ReadableInv, PromisesAreKept, LedgersFit, Kept, LedgerTypeOK, PromisedWithinLimit, Missing, Torn
<1> QED
  BY <1>1, LedgerInvariant, PTL

(* No process ever fails to start for a ledger another one left torn.       *)
THEOREM LedgerStaysReadableHolds == LedgerSpec => []LedgerStaysReadable
<1>1. LedgerInv => LedgerStaysReadable
  BY DEF LedgerInv, ReadableInv, FileIsALedger
<1> QED
  BY <1>1, LedgerInvariant, PTL

-----------------------------------------------------------------------------
(* The billing row, counted against the calls.                             *)

CallsAt(steps) == {r \in Checks : check[r] \in steps}
Billed == {"counting", "allowed"}
Unbilled == {"saving", "billing"}

\* The row holds every call it was raised for that still goes on or was
\* answered, and leaves room for those that have a charge and no bill.
MirrorInv ==
    /\ LedgerTypeOK
    /\ Cardinality(CallsAt(Billed)) <= billed
    /\ billed + Cardinality(CallsAt(Unbilled)) <= charged

\* Calls are finitely many, so they can be counted.
LEMMA CallsAreCounted ==
    ASSUME NEW steps
    PROVE  IsFiniteSet(CallsAt(steps)) /\ Cardinality(CallsAt(steps)) \in Nat
BY FS_Subset, FS_CardinalityType DEF CallsAt

\* A call that goes from one step to another counts at the new one instead.
LEMMA CallsMove ==
    ASSUME LedgerTypeOK, NEW steps, NEW r \in Checks, NEW to,
           check' = [check EXCEPT ![r] = to]
    PROVE  LET here == Cardinality(CallsAt(steps))
               there == Cardinality(CallsAt(steps)')
           IN  /\ here \in Nat /\ there \in Nat
               /\ check[r] \in steps /\ to \notin steps => there = here - 1
               /\ check[r] \notin steps /\ to \in steps => there = here + 1
               /\ (check[r] \in steps <=> to \in steps) => there = here
<1> DEFINE here == CallsAt(steps)
           there == {q \in Checks : check'[q] \in steps}
<1>1. check'[r] = to /\ \A q \in Checks \ {r} : check'[q] = check[q]
  BY DEF LedgerTypeOK
<1>2. there = CallsAt(steps)'
  BY DEF CallsAt
<1>3. IsFiniteSet(here) /\ Cardinality(here) \in Nat
  BY CallsAreCounted
<1>4. IsFiniteSet(there) /\ Cardinality(there) \in Nat
  BY FS_Subset, FS_CardinalityType
<1>5. ASSUME check[r] \in steps, to \notin steps PROVE Cardinality(there) = Cardinality(here) - 1
  <2>1. there = here \ {r} /\ r \in here
    BY <1>1, <1>5 DEF CallsAt
  <2> QED
    BY <1>3, <2>1, FS_RemoveElement
<1>6. ASSUME check[r] \notin steps, to \in steps PROVE Cardinality(there) = Cardinality(here) + 1
  <2>1. there = here \union {r} /\ r \notin here
    BY <1>1, <1>6 DEF CallsAt
  <2> QED
    BY <1>3, <2>1, FS_AddElement
<1>7. ASSUME check[r] \in steps <=> to \in steps PROVE there = here
  BY <1>1, <1>7 DEF CallsAt
<1> QED
  BY <1>2, <1>3, <1>4, <1>5, <1>6, <1>7

\* What a call that goes on adds to the charges and to the row.
Accounts(from, to, charge, bill) ==
    \/ /\ from \notin Billed \union Unbilled /\ to \notin Billed
       /\ charge = (IF to = "exceeded" THEN 0 ELSE 1) /\ bill = 0
    \/ from \in Unbilled /\ to \notin Billed /\ charge = 0 /\ bill = 0
    \/ from \in Unbilled /\ to \notin Unbilled /\ charge = 0 /\ bill = 1
    \/ from \in Billed /\ to \notin Unbilled /\ charge = 0 /\ bill = 0

\* A call raises the row no more than it has been charged, and counts once.
LEMMA CallKeepsMirror ==
    ASSUME MirrorInv, LedgerTypeOK', NEW r \in Checks,
           \/ Admit(r) \/ Refuse(r) \/ Saved(r) \/ NotSaved(r) \/ Bill(r) \/ BillFails(r)
           \/ AnswerBilled(r) \/ CountersFail(r) \/ HangUp(r)
    PROVE  MirrorInv'
<1> USE DEF MirrorInv
<1>1. PICK to \in CheckSteps, charge \in {0, 1}, bill \in {0, 1} :
        /\ check' = [check EXCEPT ![r] = to] /\ Accounts(check[r], to, charge, bill)
        /\ charged' = charged + charge /\ billed' = billed + bill
  <2> USE DEF Accounts, Billed, Unbilled, CheckGoto, BillGoto, EndSave, CheckSteps, LedgerTypeOK
  <2>1. CASE Admit(r)
    <3>1. PICK to \in {"saving", "billing", "unbilled"} : check' = [check EXCEPT ![r] = to]
      BY <2>1 DEF Admit, Onward
    <3>2. check[r] = "new" /\ charged' = charged + 1 /\ billed' = billed + 0
      BY <2>1 DEF Admit
    <3> QED
      BY <3>1, <3>2
  <2>2. CASE Refuse(r)
    BY <2>2 DEF Refuse, tally
  <2>3. CASE Saved(r)
    <3>1. PICK to \in {"billing", "unbilled"} : check' = [check EXCEPT ![r] = to]
      BY <2>3 DEF Saved, Onward
    <3>2. check[r] = "saving" /\ charged' = charged + 0 /\ billed' = billed + 0
      BY <2>3 DEF Saved
    <3> QED
      BY <3>1, <3>2
  <2>4. CASE NotSaved(r)
    BY <2>4 DEF NotSaved
  <2>5. CASE Bill(r)
    BY <2>5 DEF Bill
  <2>6. CASE BillFails(r)
    <3>1. check[r] = "billing" /\ check' = [check EXCEPT ![r] = "error"] /\ charged' = charged + 0
      BY <2>6 DEF BillFails
    <3>2. billed' = billed + 0 \/ billed' = billed + 1
      BY <2>6 DEF BillFails
    <3> QED
      BY <3>1, <3>2
  <2>7. CASE AnswerBilled(r)
    BY <2>7 DEF AnswerBilled
  <2>8. CASE CountersFail(r)
    BY <2>8 DEF CountersFail
  <2>9. CASE HangUp(r)
    BY <2>9 DEF HangUp
  <2> QED
    BY <2>1, <2>2, <2>3, <2>4, <2>5, <2>6, <2>7, <2>8, <2>9
<1>2. /\ Cardinality(CallsAt(Billed)) \in Nat /\ Cardinality(CallsAt(Unbilled)) \in Nat
      /\ Cardinality(CallsAt(Billed)') \in Nat /\ Cardinality(CallsAt(Unbilled)') \in Nat
  BY <1>1, CallsMove
<1>3. Billed \intersect Unbilled = {} /\ "exceeded" \notin Unbilled
  BY DEF Billed, Unbilled
<1>4. /\ check[r] \in Billed /\ to \notin Billed
         => Cardinality(CallsAt(Billed)') = Cardinality(CallsAt(Billed)) - 1
      /\ check[r] \notin Billed /\ to \in Billed
         => Cardinality(CallsAt(Billed)') = Cardinality(CallsAt(Billed)) + 1
      /\ (check[r] \in Billed <=> to \in Billed)
         => Cardinality(CallsAt(Billed)') = Cardinality(CallsAt(Billed))
  BY <1>1, CallsMove
<1>5. /\ check[r] \in Unbilled /\ to \notin Unbilled
         => Cardinality(CallsAt(Unbilled)') = Cardinality(CallsAt(Unbilled)) - 1
      /\ check[r] \notin Unbilled /\ to \in Unbilled
         => Cardinality(CallsAt(Unbilled)') = Cardinality(CallsAt(Unbilled)) + 1
      /\ (check[r] \in Unbilled <=> to \in Unbilled)
         => Cardinality(CallsAt(Unbilled)') = Cardinality(CallsAt(Unbilled))
  BY <1>1, CallsMove
<1>6. billed \in Nat /\ charged \in Nat /\ billed' \in Nat /\ charged' \in Nat
  BY DEF LedgerTypeOK
<1> HIDE DEF MirrorInv
<1>7. /\ LedgerTypeOK' /\ Cardinality(CallsAt(Billed)) <= billed
      /\ billed + Cardinality(CallsAt(Unbilled)) <= charged
  BY DEF MirrorInv
<1>8. Cardinality(CallsAt(Billed)') <= billed'
  <2>1. CASE check[r] \in Billed
    BY <1>1, <1>2, <1>3, <1>4, <1>6, <1>7, <2>1 DEF Accounts
  <2>2. CASE check[r] \notin Billed
    BY <1>1, <1>2, <1>3, <1>4, <1>6, <1>7, <2>2 DEF Accounts
  <2> QED
    BY <2>1, <2>2
<1>9. billed' + Cardinality(CallsAt(Unbilled)') <= charged'
  <2>1. CASE check[r] \in Unbilled
    BY <1>1, <1>2, <1>3, <1>5, <1>6, <1>7, <2>1 DEF Accounts
  <2>2. CASE check[r] \notin Unbilled
    BY <1>1, <1>2, <1>3, <1>5, <1>6, <1>7, <2>2 DEF Accounts
  <2> QED
    BY <2>1, <2>2
<1> QED
  BY <1>7, <1>8, <1>9 DEF MirrorInv

\* A step that brings no call to a step it is counted at loses none of the rest.
LEMMA FewerCallsKeepMirror ==
    ASSUME MirrorInv, LedgerTypeOK', UNCHANGED <<billed, charged>>,
           \A r \in Checks : check'[r] \in Billed \union Unbilled => check'[r] = check[r]
    PROVE  MirrorInv'
<1>1. CallsAt(Billed)' \subseteq CallsAt(Billed) /\ CallsAt(Unbilled)' \subseteq CallsAt(Unbilled)
  BY DEF CallsAt
<1>2. /\ IsFiniteSet(CallsAt(Billed)) /\ Cardinality(CallsAt(Billed)) \in Nat
      /\ IsFiniteSet(CallsAt(Unbilled)) /\ Cardinality(CallsAt(Unbilled)) \in Nat
  BY CallsAreCounted
<1>3. /\ Cardinality(CallsAt(Billed)') <= Cardinality(CallsAt(Billed)) /\ Cardinality(CallsAt(Billed)') \in Nat
      /\ Cardinality(CallsAt(Unbilled)') <= Cardinality(CallsAt(Unbilled)) /\ Cardinality(CallsAt(Unbilled)') \in Nat
  BY <1>1, <1>2, FS_Subset, FS_CardinalityType
<1>4. billed \in Nat /\ charged \in Nat
  BY DEF MirrorInv, LedgerTypeOK
<1> QED
  BY <1>2, <1>3, <1>4 DEF MirrorInv

LEMMA NextKeepsMirror ==
    ASSUME MirrorInv, LedgerInv', [LedgerNext]_ledgerVars
    PROVE  MirrorInv'
<1>1. LedgerTypeOK'
  BY DEF LedgerInv, ReadableInv
<1>2. CASE \E r \in Checks :
              \/ Admit(r) \/ Refuse(r) \/ Saved(r) \/ NotSaved(r) \/ Bill(r) \/ BillFails(r)
              \/ AnswerBilled(r) \/ CountersFail(r) \/ HangUp(r)
  BY <1>1, <1>2, CallKeepsMirror
<1>3. ASSUME NEW p \in Processes, Stop(p) PROVE MirrorInv'
  <2>1. \A r \in Checks : check'[r] \in Billed \union Unbilled => check'[r] = check[r]
    BY <1>3 DEF Stop, Billed, Unbilled
  <2> QED
    BY <1>1, <1>3, <2>1, FewerCallsKeepMirror DEF Stop
<1>4. CASE UNCHANGED <<check, billed, charged>>
  BY <1>1, <1>4, FewerCallsKeepMirror
<1>5. ASSUME NEW p \in Processes, Start(p) \/ Truncate(p) \/ Fill(p) \/ Rename(p) \/ DiskRefuses(p)
      PROVE  UNCHANGED <<check, billed, charged>>
  BY <1>5 DEF Start, Truncate, Fill, Rename, DiskRefuses, Save, tally
<1>6. ASSUME NEW b \in Batches, DecideBatch(b) \/ PrintBatch(b) \/ BatchNotSaved(b)
      PROVE  UNCHANGED <<check, billed, charged>>
  BY <1>6 DEF DecideBatch, PrintBatch, BatchNotSaved, EndBatch
<1>7. CASE UNCHANGED ledgerVars
  BY <1>4, <1>7 DEF ledgerVars, tally
<1> QED
  BY <1>2, <1>3, <1>4, <1>5, <1>6, <1>7 DEF LedgerNext

(* Whatever is dropped, fails or ends, billing holds every request answered *)
(* "allowed" with Postgres there, and nothing that no gateway has charged.  *)
THEOREM MirrorCountsAnswersHolds == LedgerSpec => []MirrorCountsAnswers
<1>1. LedgerInit => MirrorInv
  <2> SUFFICES ASSUME LedgerInit PROVE MirrorInv
    OBVIOUS
  <2>1. LedgerTypeOK
    BY InitEstablishes DEF LedgerInv, ReadableInv
  <2>2. CallsAt(Billed) = {} /\ CallsAt(Unbilled) = {} /\ billed = 0 /\ charged = 0
    BY DEF LedgerInit, CallsAt, Billed, Unbilled
  <2>3. Cardinality({}) = 0
    BY FS_EmptySet
  <2> QED
    BY <2>1, <2>2, <2>3 DEF MirrorInv
<1>2. MirrorInv /\ LedgerInv' /\ [LedgerNext]_ledgerVars => MirrorInv'
  BY NextKeepsMirror
<1>3. MirrorInv => MirrorCountsAnswers
  <2> SUFFICES ASSUME MirrorInv PROVE MirrorCountsAnswers
    OBVIOUS
  <2> DEFINE answered == {r \in Checks : check[r] = "allowed"}
  <2>1. answered \subseteq CallsAt(Billed)
    BY DEF CallsAt, Billed
  <2>2. /\ IsFiniteSet(CallsAt(Billed)) /\ Cardinality(CallsAt(Billed)) \in Nat
        /\ Cardinality(CallsAt(Unbilled)) \in Nat
    BY CallsAreCounted
  <2>3. Cardinality(answered) <= Cardinality(CallsAt(Billed)) /\ Cardinality(answered) \in Nat
    BY <2>1, <2>2, FS_Subset, FS_CardinalityType
  <2>4. billed \in Nat /\ charged \in Nat
    BY DEF MirrorInv, LedgerTypeOK
  <2>5. SUFFICES Cardinality(answered) <= billed /\ billed <= charged
    BY DEF MirrorCountsAnswers
  <2> HIDE DEF answered
  <2> QED
    BY <2>2, <2>3, <2>4 DEF MirrorInv
<1> QED
  BY <1>1, <1>2, <1>3, LedgerInvariant, PTL DEF LedgerSpec

HIDE LedgerAssumption DEF LedgerAssumption

(***************************************************************************)
(* The ledgers of the gateway's proxy agree with what its handlers did,    *)
(* for any requests, keys, limit and clock.                                *)
(***************************************************************************)

\* A request that has not been through the rate ledger has no unit.
UnitsFollowRating ==
    \A r \in Forwards : leg[r] \in {"absent", "arriving", "rating"} => passed[r] = -1

ProxyInv == ProxyTypeOK /\ UnitsFollowRating /\ EdgeLedgersAgree

USE ProxyAssumption DEF ProxyAssumption

-----------------------------------------------------------------------------

\* Sets of requests are finite, and one request more or less is one more or less.
LEMMA OneMoreOrLess ==
    ASSUME NEW S \in SUBSET Forwards, NEW r \in Forwards
    PROVE  /\ Cardinality(S) \in Nat
           /\ r \notin S => Cardinality(S \union {r}) = Cardinality(S) + 1
           /\ r \in S => /\ Cardinality(S \ {r}) = Cardinality(S) - 1
                         /\ Cardinality(S) > 0
<1>1. IsFiniteSet(S)
  BY FS_Subset
<1>2. Cardinality(S) \in Nat
  BY <1>1, FS_CardinalityType
<1>3. ASSUME r \in S PROVE Cardinality(S) > 0
  BY <1>1, <1>2, <1>3, FS_EmptySet
<1> QED
  BY <1>1, <1>2, <1>3, FS_AddElement, FS_RemoveElement

\* A handler that moves enters and leaves the sets its two legs are in.
LEMMA MoveMoves ==
    ASSUME ProxyTypeOK, NEW r \in Forwards, NEW from \in Legs, NEW to \in Legs, Move(r, from, to),
           NEW legs \in SUBSET Legs
    PROVE  /\ r \in On(legs) <=> from \in legs
           /\ to \in legs => On(legs)' = On(legs) \union {r}
           /\ to \notin legs => On(legs)' = On(legs) \ {r}
           /\ leg' \in [Forwards -> Legs]
  BY DEF ProxyTypeOK, Move, On

\* The number of handlers in a set of legs, after a move.
LEMMA MoveCounts ==
    ASSUME ProxyTypeOK, NEW r \in Forwards, NEW from \in Legs, NEW to \in Legs, Move(r, from, to),
           NEW legs \in SUBSET Legs
    PROVE  /\ Cardinality(On(legs)) \in Nat
           /\ from \in legs => Cardinality(On(legs)) > 0
           /\ Cardinality(On(legs)') =
                 Cardinality(On(legs)) + (IF to \in legs THEN 1 ELSE 0) - (IF from \in legs THEN 1 ELSE 0)
<1>1. On(legs) \in SUBSET Forwards
  BY DEF On
<1>2. Cardinality(On(legs)) \in Nat
  BY <1>1, OneMoreOrLess
<1>3. CASE to \in legs /\ from \in legs
  <2>1. On(legs)' = On(legs) /\ r \in On(legs)
    BY <1>3, MoveMoves
  <2>2. Cardinality(On(legs)) > 0
    BY <1>1, <2>1, OneMoreOrLess
  <2>3. Cardinality(On(legs)') = Cardinality(On(legs))
    BY <2>1
  <2> QED
    BY <1>2, <1>3, <2>2, <2>3
<1>4. CASE to \in legs /\ from \notin legs
  <2>1. On(legs)' = On(legs) \union {r} /\ r \notin On(legs)
    BY <1>4, MoveMoves
  <2> QED
    BY <1>1, <1>2, <1>4, <2>1, OneMoreOrLess
<1>5. CASE to \notin legs /\ from \in legs
  <2>1. On(legs)' = On(legs) \ {r} /\ r \in On(legs)
    BY <1>5, MoveMoves
  <2> QED
    BY <1>1, <1>2, <1>5, <2>1, OneMoreOrLess
<1>6. CASE to \notin legs /\ from \notin legs
  <2>1. On(legs)' = On(legs)
    BY <1>6, MoveMoves
  <2> QED
    BY <1>2, <1>6, <2>1
<1> QED
  BY <1>3, <1>4, <1>5, <1>6

-----------------------------------------------------------------------------

\* What a move has to count: its answer, and "sending" entered or left.
LEMMA MoveKeepsCounts ==
    ASSUME ProxyTypeOK, CounterAgrees, GaugeAgrees,
           NEW r \in Forwards, NEW from \in Legs, NEW to \in Legs, Move(r, from, to),
           from \notin {"answered", "leaked"}, from # to, to = "leaked" => from = "sending",
           recorded' = IF to = "answered" THEN recorded + 1 ELSE recorded,
           inflight' = IF to = "sending" THEN inflight + 1
                       ELSE IF from = "sending" /\ to # "leaked" THEN Lowered
                       ELSE inflight
    PROVE  /\ CounterAgrees' /\ GaugeAgrees'
           /\ leg' \in [Forwards -> Legs] /\ recorded' \in Nat /\ inflight' \in Nat
<1> DEFINE answers == {"answered"}
           gauged == {"sending", "leaked"}
<1>1. answers \in SUBSET Legs /\ gauged \in SUBSET Legs
  BY DEF Legs
<1>2. leg' \in [Forwards -> Legs]
  BY <1>1, MoveMoves
<1>3. Cardinality(On(answers))' =
          Cardinality(On(answers)) + (IF to \in answers THEN 1 ELSE 0) - (IF from \in answers THEN 1 ELSE 0)
  BY <1>1, MoveCounts
<1>4. /\ Cardinality(On(gauged)) \in Nat
      /\ from \in gauged => Cardinality(On(gauged)) > 0
      /\ Cardinality(On(gauged))' =
             Cardinality(On(gauged)) + (IF to \in gauged THEN 1 ELSE 0) - (IF from \in gauged THEN 1 ELSE 0)
  BY <1>1, MoveCounts
<1>5. recorded = Cardinality(On(answers)) /\ inflight = Cardinality(On(gauged))
  BY DEF CounterAgrees, GaugeAgrees
<1>6. recorded \in Nat /\ inflight \in Nat
  BY DEF ProxyTypeOK
<1>7. recorded' = Cardinality(On(answers))'
  BY <1>3, <1>5, <1>6
<1>8. inflight' = Cardinality(On(gauged))'
  <2>1. CASE to = "sending"
    BY <1>4, <1>5, <2>1
  <2>2. CASE from = "sending" /\ to # "leaked"
    BY <1>4, <1>5, <1>6, <2>2 DEF Lowered
  <2>3. CASE to # "sending" /\ ~(from = "sending" /\ to # "leaked")
    BY <1>4, <1>5, <1>6, <2>3
  <2> QED
    BY <2>1, <2>2, <2>3
<1>9. recorded' \in Nat /\ inflight' \in Nat
  BY <1>6 DEF Lowered
<1> QED
  BY <1>2, <1>7, <1>8, <1>9 DEF CounterAgrees, GaugeAgrees

\* The ledger, when a step takes no unit.
LEMMA NoUnitKeepsLedger ==
    ASSUME RateLedgerAgrees, UNCHANGED <<usage, passed>>
    PROVE  RateLedgerAgrees'
<1>1. \A w \in 0..LastMinute, k \in Keys : PassedIn(w, k)' = PassedIn(w, k)
  BY DEF PassedIn
<1> QED
  BY <1>1 DEF RateLedgerAgrees

\* The ledger, when a request that has no unit takes one that is left.
LEMMA UnitKeepsLedger ==
    ASSUME ProxyTypeOK, RateLedgerAgrees, NEW r \in Forwards, passed[r] = -1,
           usage[<<minute, RateKey[r]>>] < RateLimit, TakeUnit(r)
    PROVE  /\ RateLedgerAgrees'
           /\ usage' \in [(0..LastMinute) \X Keys -> Nat]
           /\ passed' \in [Forwards -> {-1} \union 0..LastMinute]
<1> DEFINE key == RateKey[r]
<1>1. key \in Keys /\ minute \in 0..LastMinute /\ <<minute, key>> \in (0..LastMinute) \X Keys
  BY DEF Keys, ProxyTypeOK
<1>2. /\ usage' \in [(0..LastMinute) \X Keys -> Nat]
      /\ passed' \in [Forwards -> {-1} \union 0..LastMinute]
  BY <1>1 DEF ProxyTypeOK, TakeUnit
<1>3. ASSUME NEW w \in 0..LastMinute, NEW k \in Keys
      PROVE  usage'[<<w, k>>] <= RateLimit /\ usage'[<<w, k>>] = Cardinality(PassedIn(w, k)')
  <2>1. /\ PassedIn(w, k) \in SUBSET Forwards
        /\ usage[<<w, k>>] <= RateLimit /\ usage[<<w, k>>] = Cardinality(PassedIn(w, k))
        /\ usage[<<w, k>>] \in Nat
    BY DEF PassedIn, RateLedgerAgrees, ProxyTypeOK
  <2>2. CASE w = minute /\ k = key
    <3>1. PassedIn(w, k)' = PassedIn(w, k) \union {r} /\ r \notin PassedIn(w, k)
      BY <1>1, <2>2 DEF PassedIn, TakeUnit, ProxyTypeOK
    <3>2. usage'[<<w, k>>] = usage[<<w, k>>] + 1
      BY <1>1, <2>2 DEF TakeUnit, ProxyTypeOK
    <3>3. Cardinality(PassedIn(w, k)') = Cardinality(PassedIn(w, k)) + 1
      BY <2>1, <3>1, OneMoreOrLess
    <3> QED
      BY <2>1, <2>2, <3>2, <3>3
  <2>3. CASE ~(w = minute /\ k = key)
    <3>1. PassedIn(w, k)' = PassedIn(w, k)
      BY <1>1, <2>3 DEF PassedIn, TakeUnit, ProxyTypeOK
    <3>2. <<w, k>> # <<minute, key>> /\ <<w, k>> \in (0..LastMinute) \X Keys
      BY <2>3
    <3>3. usage'[<<w, k>>] = usage[<<w, k>>]
      BY <3>2 DEF TakeUnit, ProxyTypeOK
    <3> QED
      BY <2>1, <3>1, <3>3
  <2> QED
    BY <2>2, <2>3
<1> QED
  BY <1>2, <1>3 DEF RateLedgerAgrees

\* A step that takes no unit and sends nobody back keeps UnitsFollowRating.
LEMMA NoUnitKeepsRating ==
    ASSUME ProxyTypeOK, UnitsFollowRating,
           NEW r \in Forwards, NEW from \in Legs, NEW to \in Legs, Move(r, from, to),
           to \notin {"absent", "arriving"}, to = "rating" => from = "arriving",
           UNCHANGED passed
    PROVE  UnitsFollowRating'
  BY DEF ProxyTypeOK, UnitsFollowRating, Move

-----------------------------------------------------------------------------

LEMMA ProxyInitLemma == ProxyInit => ProxyInv
<1> SUFFICES ASSUME ProxyInit PROVE ProxyInv
  OBVIOUS
<1>1. ProxyTypeOK /\ UnitsFollowRating
  BY DEF ProxyInit, ProxyTypeOK, UnitsFollowRating, Legs
<1>2. Cardinality({}) = 0
  BY FS_EmptySet
<1>3. RateLedgerAgrees
  <2>1. ASSUME NEW w \in 0..LastMinute, NEW k \in Keys
        PROVE  usage[<<w, k>>] <= RateLimit /\ usage[<<w, k>>] = Cardinality(PassedIn(w, k))
    <3>1. PassedIn(w, k) = {}
      BY DEF ProxyInit, PassedIn
    <3>2. usage[<<w, k>>] = 0
      BY DEF ProxyInit
    <3>3. 0 <= RateLimit
      OBVIOUS
    <3> QED
      BY <1>2, <3>1, <3>2, <3>3
  <2> QED
    BY <2>1 DEF RateLedgerAgrees
<1>4. On({"answered"}) = {} /\ On({"sending", "leaked"}) = {}
  BY DEF ProxyInit, On
<1>5. CounterAgrees /\ GaugeAgrees
  BY <1>2, <1>4 DEF ProxyInit, CounterAgrees, GaugeAgrees
<1> QED
  BY <1>1, <1>3, <1>5 DEF ProxyInv, EdgeLedgersAgree

\* A handler's step that takes no unit, given its move and what it counts.
LEMMA MoveStep ==
    ASSUME ProxyInv, NEW r \in Forwards, NEW from \in Legs, NEW to \in Legs, Move(r, from, to),
           from \notin {"answered", "leaked"}, from # to, to = "leaked" => from = "sending",
           to \notin {"absent", "arriving"}, to = "rating" => from = "arriving",
           recorded' = IF to = "answered" THEN recorded + 1 ELSE recorded,
           inflight' = IF to = "sending" THEN inflight + 1
                       ELSE IF from = "sending" /\ to # "leaked" THEN Lowered
                       ELSE inflight,
           UNCHANGED <<minute, usage, passed>>
    PROVE  ProxyInv'
<1> USE DEF ProxyInv, EdgeLedgersAgree
<1>1. /\ CounterAgrees' /\ GaugeAgrees'
      /\ leg' \in [Forwards -> Legs] /\ recorded' \in Nat /\ inflight' \in Nat
  BY MoveKeepsCounts
<1>2. RateLedgerAgrees'
  BY NoUnitKeepsLedger
<1>3. UnitsFollowRating'
  BY NoUnitKeepsRating
<1>4. ProxyTypeOK'
  BY <1>1 DEF ProxyTypeOK
<1> QED
  BY <1>1, <1>2, <1>3, <1>4

LEMMA ProxyStep == ProxyInv /\ [ProxyNext]_proxyVars => ProxyInv'
<1> SUFFICES ASSUME ProxyInv, [ProxyNext]_proxyVars PROVE ProxyInv'
  OBVIOUS
<1>1. ASSUME NEW r \in Forwards, Preflight(r) PROVE ProxyInv'
  <2>1. \/ Move(r, "arriving", "answered") /\ recorded' = recorded + 1
        \/ Move(r, "arriving", "rating") /\ recorded' = recorded
    BY <1>1 DEF Preflight, Conclude
  <2>2. UNCHANGED <<minute, usage, inflight, passed>>
    BY <1>1 DEF Preflight
  <2> QED
    BY <2>1, <2>2, MoveStep DEF Legs
<1>2. ASSUME NEW r \in Forwards, Rate(r) PROVE ProxyInv'
  <2>1. minute' = minute /\ inflight' = inflight
    BY <1>2 DEF Rate
  <2>2. CASE /\ usage[<<minute, RateKey[r]>>] < RateLimit
             /\ Move(r, "rating", AfterRate(r)) /\ TakeUnit(r) /\ recorded' = recorded
    <3>1. AfterRate(r) \in {"guarding", "ready"}
      BY DEF AfterRate
    <3>2. passed[r] = -1
      BY <2>2 DEF ProxyInv, UnitsFollowRating, Move
    <3>3. /\ CounterAgrees' /\ GaugeAgrees'
          /\ leg' \in [Forwards -> Legs] /\ recorded' \in Nat /\ inflight' \in Nat
      BY <2>1, <2>2, <3>1, MoveKeepsCounts DEF ProxyInv, EdgeLedgersAgree, Legs
    <3>4. /\ RateLedgerAgrees'
          /\ usage' \in [(0..LastMinute) \X Keys -> Nat]
          /\ passed' \in [Forwards -> {-1} \union 0..LastMinute]
      BY <2>2, <3>2, UnitKeepsLedger DEF ProxyInv, EdgeLedgersAgree
    <3>5. UnitsFollowRating'
      BY <2>2, <3>1 DEF ProxyInv, ProxyTypeOK, UnitsFollowRating, Move, TakeUnit
    <3>6. ProxyTypeOK'
      BY <2>1, <3>3, <3>4 DEF ProxyInv, ProxyTypeOK
    <3> QED
      BY <3>3, <3>4, <3>5, <3>6 DEF ProxyInv, EdgeLedgersAgree
  <2>3. CASE /\ Move(r, "rating", "answered") /\ recorded' = recorded + 1
             /\ UNCHANGED <<usage, passed>>
    BY <2>1, <2>3, MoveStep DEF Legs
  <2> QED
    BY <1>2, <2>2, <2>3 DEF Rate, Conclude
<1>3. ASSUME NEW r \in Forwards, Guard(r) PROVE ProxyInv'
  <2>1. \/ Move(r, "guarding", "ready") /\ recorded' = recorded
        \/ Move(r, "guarding", "answered") /\ recorded' = recorded + 1
    BY <1>3 DEF Guard, Conclude
  <2>2. UNCHANGED <<minute, usage, inflight, passed>>
    BY <1>3 DEF Guard
  <2> QED
    BY <2>1, <2>2, MoveStep DEF Legs
<1>4. ASSUME NEW r \in Forwards, Forward(r) PROVE ProxyInv'
  <2>1. /\ Move(r, "ready", "sending") /\ inflight' = inflight + 1
        /\ UNCHANGED <<minute, usage, recorded, passed>>
    BY <1>4 DEF Forward
  <2> QED
    BY <2>1, MoveStep DEF Legs
<1>5. ASSUME NEW r \in Forwards, Unreachable(r) PROVE ProxyInv'
  <2>1. /\ Move(r, "sending", "answered") /\ recorded' = recorded + 1 /\ inflight' = Lowered
        /\ UNCHANGED <<minute, usage, passed>>
    BY <1>5 DEF Unreachable, Conclude
  <2> QED
    BY <2>1, MoveStep DEF Legs
<1>6. ASSUME NEW r \in Forwards, HeadArrives(r) PROVE ProxyInv'
  <2>1. /\ Move(r, "sending", "reading") /\ inflight' = Lowered
        /\ UNCHANGED <<minute, usage, recorded, passed>>
    BY <1>6 DEF HeadArrives
  <2> QED
    BY <2>1, MoveStep DEF Legs
<1>7. ASSUME NEW r \in Forwards, BodyEnds(r) PROVE ProxyInv'
  <2>1. /\ Move(r, "reading", "answered") /\ recorded' = recorded + 1
        /\ UNCHANGED <<minute, usage, inflight, passed>>
    BY <1>7 DEF BodyEnds, Conclude
  <2> QED
    BY <2>1, MoveStep DEF Legs
<1>8. ASSUME NEW r \in Forwards, Drop(r) PROVE ProxyInv'
  <2>1. \/ Move(r, "guarding", "dropped")
        \/ Move(r, "sending", "leaked")
        \/ Move(r, "reading", "dropped")
    BY <1>8 DEF Drop
  <2>2. UNCHANGED <<minute, usage, inflight, recorded, passed>>
    BY <1>8 DEF Drop
  <2> QED
    BY <2>1, <2>2, MoveStep DEF Legs
<1>9. ASSUME Tick \/ UNCHANGED proxyVars PROVE ProxyInv'
  <2>1. UNCHANGED <<leg, usage, inflight, recorded, passed>>
    BY <1>9 DEF Tick, proxyVars
  <2>2. ProxyTypeOK' /\ UnitsFollowRating'
    BY <1>9, <2>1 DEF ProxyInv, ProxyTypeOK, UnitsFollowRating, Tick, proxyVars
  <2>3. RateLedgerAgrees'
    BY <2>1, NoUnitKeepsLedger DEF ProxyInv, EdgeLedgersAgree
  <2>4. CounterAgrees' /\ GaugeAgrees'
    BY <2>1 DEF ProxyInv, EdgeLedgersAgree, CounterAgrees, GaugeAgrees, On
  <2> QED
    BY <2>2, <2>3, <2>4 DEF ProxyInv, EdgeLedgersAgree
<1> QED
  BY <1>1, <1>2, <1>3, <1>4, <1>5, <1>6, <1>7, <1>8, <1>9 DEF ProxyNext

(* In every run of the proxy, whatever the requests, their keys and the     *)
(* limit: no key gets more than its units of a minute, the request counter *)
(* is the number of answers, and the gauge is the number of requests that  *)
(* wait for a head, plus those whose client left while they did            *)
(* (handlers.rs proxy_api).                                                *)
THEOREM EdgeLedgersAgreeHolds == ProxySpec => []EdgeLedgersAgree
<1>1. ProxyInv => EdgeLedgersAgree
  BY DEF ProxyInv
<1> QED
  BY <1>1, ProxyInitLemma, ProxyStep, PTL DEF ProxySpec
=============================================================================
