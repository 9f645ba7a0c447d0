----------------------------- MODULE MCVtonJobs -----------------------------
(***************************************************************************)
(* TLC instances of VtonJobs and of its clients: a workspace of the free   *)
(* plan (one slot) that submits twice and one with two slots.  In the      *)
(* submissions scene anybody submits; then the runner makes a call of two  *)
(* attempts, the benchmark makes one while somebody else submits for the   *)
(* same workspace, the studio does on its own, and the studio does while a *)
(* teammate submits and nothing fails.                                     *)
(***************************************************************************)
EXTENDS JobSystem, TLC

CONSTANTS a1, a2, j1, j2, j3, j4, runner, benchmark, Scenes

VARIABLE calm   \* bound: no database call fails and nothing is restarted

MCAccounts == {a1, a2}
MCLimit == a1 :> 1 @@ a2 :> 2
MCJobs == {j1, j2, j3, j4}
MCOwner == j1 :> a1 @@ j2 :> a1 @@ j3 :> a2 @@ j4 :> a2

MCClients == {runner, benchmark}
MCAttempts == runner :> <<j3, j4>> @@ benchmark :> <<j1>>

\* The clients, whether there is a studio, and the jobs anybody may submit.
Scene(clients, studio, jobs) ==
    /\ \A c \in Clients : call[c].phase = IF c \in clients THEN "idle" ELSE "absent"
    /\ opened = studio
    /\ reply = [j \in Jobs |-> IF j \in jobs THEN "open" ELSE "unsent"]

MCInit ==
    /\ SystemInit /\ calm \in BOOLEAN
    /\ \/ "submissions" \in Scenes /\ Scene({}, FALSE, {j1, j2, j3}) /\ ~calm
       \/ "runner" \in Scenes /\ Scene({runner}, FALSE, {}) /\ ~calm
       \/ "benchmark" \in Scenes /\ Scene({benchmark}, FALSE, {j2}) /\ ~calm
       \/ "studio" \in Scenes /\ Scene({}, TRUE, {}) /\ ~calm
       \/ "team" \in Scenes /\ Scene({}, TRUE, {j4}) /\ calm

Bound == UNCHANGED calm /\ (calm => UNCHANGED <<faults, crashes>>)

MCNext ==
    \/ RequestsMove /\ Bound
    \/ ClientsMove /\ Bound
    \/ StudioMoves /\ Bound
    \/ RestartBreaks /\ Bound

AllScenes == {"submissions", "runner", "benchmark", "studio", "team"}
OneScene == {"submissions"}

MCSpec ==
    /\ MCInit /\ [][MCNext]_<<systemVars, calm>>
    /\ RequestFairness /\ ClientFairness /\ StudioFairness
=============================================================================
