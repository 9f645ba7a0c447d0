-------------------------- MODULE MCQuotaAdmission --------------------------
(***************************************************************************)
(* TLC instances of the gateway: the two ways it admits, QuotaAdmission    *)
(* (with Postgres) and LocalLedger (without), of which a deployment has    *)
(* one, and its proxy, GatewayProxy, which shares no state with them.      *)
(***************************************************************************)
EXTENDS QuotaAdmission, LocalLedger, GatewayProxy

CONSTANTS q1, q2, a1, a2, g1, g2, b1, c1, c2, c3, f1, f2, f3, f4

EachItsGateway == [a \in {a1, a2} |-> IF a = a1 THEN g1 ELSE g2]
OneGateway == [a \in {a1} |-> g1]

\* A second generation exceeds the tokens only, a second try-on the requests.
SmallLimit == [d \in Dimensions |-> IF d = LlmTokens THEN 3 ELSE IF d = LlmRequests THEN 2 ELSE 1]

\* Two calls of one gateway and one of the other, a run of two requests.
TwoThenOne == [c \in {c1, c2, c3} |-> IF c = c3 THEN g2 ELSE g1]
RunOfTwo == [b \in {b1} |-> 2]
NoBatch == [b \in {} |-> 0]
NoCheck == [c \in {} |-> g1]
NoKeeper == {{}}
MCKeepers == {{}, {g1, g2, b1}}

\* Three requests of one tenant and one of another.
TwoTenants == [r \in {f1, f2, f3, f4} |-> IF r = f4 THEN "t2" ELSE "t1"]
NoForward == [r \in {} |-> "t1"]

-----------------------------------------------------------------------------
(* One of the three is at work; the others rest.                           *)

OneAsk == [q \in Requests |-> [workload |-> "llm", api |-> a1, tokens |-> 2]]
NoAdmission == ask = OneAsk /\ \A q \in Requests : call[q] = "idle"
NoLedger == keeps = {} /\ stops = 0 /\ \A p \in Processes : life[p] = "off"
NoProxy == \A r \in Forwards : leg[r] = "absent"

SceneInit ==
    /\ Init /\ LedgerInit /\ ProxyInit
    /\ \/ NoLedger /\ NoProxy
       \/ NoAdmission /\ NoProxy
       \/ NoAdmission /\ NoLedger

SceneNext ==
    \/ NoLedger /\ NoProxy /\ Next /\ UNCHANGED <<ledgerVars, proxyVars>>
    \/ NoAdmission /\ NoProxy /\ LedgerNext /\ UNCHANGED <<vars, proxyVars>>
    \/ NoAdmission /\ NoLedger /\ ~NoProxy /\ ProxyNext /\ UNCHANGED <<vars, ledgerVars>>

SceneSpec == SceneInit /\ [][SceneNext]_<<vars, ledgerVars, proxyVars>> /\ Fairness
=============================================================================
