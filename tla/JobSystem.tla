----------------------------- MODULE JobSystem -----------------------------
(***************************************************************************)
(* The asynchronous try-on jobs with everybody who uses them: the API      *)
(* process and its table, the requests that submit, the clients that wait  *)
(* and the studio of the console.  They meet in the jobs' status and in    *)
(* the answers to requests; one restart breaks everything under way.       *)
(***************************************************************************)
EXTENDS JobClients, JobStudio

systemVars == <<requestVars, call, studioVars>>

SystemInit ==
    /\ Init /\ ClientInit /\ StudioInit
    /\ reply \in [Jobs -> {"open", "unsent"}]

RequestsMove == \E j \in Jobs : RequestStep(j) /\ UNCHANGED <<call, studioVars>>

ClientsMove == \E c \in Clients : ClientStep(c) /\ UNCHANGED studioVars

StudioMoves == StudioStep /\ UNCHANGED call

RestartBreaks == BreakRequests /\ PollsBreak /\ StudioBreaks

SystemNext == RequestsMove \/ ClientsMove \/ StudioMoves \/ RestartBreaks

SystemSpec == SystemInit /\ [][SystemNext]_systemVars
=============================================================================
