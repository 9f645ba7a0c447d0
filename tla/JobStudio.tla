----------------------------- MODULE JobStudio -----------------------------
(***************************************************************************)
(* The try-on studio of the web console (VtonStudio.tsx) over the job feed *)
(* the console refreshes every five seconds (App.tsx refreshAccountJobs,   *)
(* api.py account_jobs).  The studio polls one job at a time: the one it   *)
(* submitted or, when it polls none, any active job of the feed, whoever   *)
(* of the workspace submitted it.  Feed and polls are unordered requests:  *)
(* an old feed can arrive after a newer one and offer a job again that the *)
(* studio has already seen completed.                                      *)
(***************************************************************************)
EXTENDS JobRequests

CONSTANTS
    StudioAccount,   \* the workspace selected in the console
    StudioJobs,      \* the jobs its user submits
    NoJob,
    MaxFeeds         \* bound: feed requests under way at once

ASSUME StudioAssumption ==
    /\ StudioAccount \in Accounts
    /\ StudioJobs \subseteq Jobs
    /\ NoJob \notin Jobs
    /\ MaxFeeds \in Nat \ {0}

VARIABLES
    opened,    \* somebody has the studio open
    feed,      \* accountJobs: the active jobs, as last received
    feeds,     \* the answers of feed requests that are under way
    awaiting,  \* submitted by the studio, answer not yet received
    polling,   \* pollingJobId
    busy

studioVars == <<opened, feed, feeds, awaiting, polling, busy>>

StudioInit ==
    /\ opened \in BOOLEAN
    /\ feed = {}
    /\ feeds = {}
    /\ awaiting = {}
    /\ polling = NoJob
    /\ busy = FALSE

-----------------------------------------------------------------------------
(* A plausible bug; nothing below uses it.                                 *)

\* FeedArrives that merges by job id instead of replacing the list.
FeedMerges(jobs) ==
    /\ feed' = feed \union jobs
    /\ feeds' = feeds \ {jobs}
    /\ UNCHANGED <<requestVars, opened, awaiting, polling, busy>>

-----------------------------------------------------------------------------
(* GET /v1/account/jobs, every five seconds and after each change.         *)

\* The jobs that are active in the table or in memory.  The count the
\* console compares with the plan's limit is the number of them.
AskFeed ==
    /\ opened
    /\ Cardinality(feeds) < MaxFeeds
    /\ feeds' = feeds \union {ActiveIn(db, StudioAccount) \union ActiveIn(memory, StudioAccount)}
    /\ UNCHANGED <<requestVars, opened, feed, awaiting, polling, busy>>

FeedArrives(jobs) ==
    /\ feed' = jobs
    /\ feeds' = feeds \ {jobs}
    /\ UNCHANGED <<requestVars, opened, awaiting, polling, busy>>

\* A feed request that fails changes nothing.
FeedFails(jobs) ==
    /\ ReadFails
    /\ feeds' = feeds \ {jobs}
    /\ UNCHANGED <<reply, opened, feed, awaiting, polling, busy>>

-----------------------------------------------------------------------------
(* runVton and the two effects around pollingJobId.                        *)

\* runVton: the button is enabled, and effects ran before the click.
Generate(j) ==
    /\ opened
    /\ ~busy
    /\ Cardinality(feed) < Limit[StudioAccount]
    /\ polling = NoJob => feed = {}
    /\ Send(j)
    /\ awaiting' = awaiting \union {j}
    /\ busy' = TRUE
    /\ UNCHANGED <<vars, opened, feed, feeds, polling>>

GenerateAnswered(j) ==
    /\ \/ reply[j] = "accepted" /\ polling' = j /\ UNCHANGED busy
       \/ reply[j] \in {"rejected", "error"} /\ busy' = FALSE /\ UNCHANGED polling
    /\ awaiting' = awaiting \ {j}
    /\ UNCHANGED <<requestVars, opened, feed, feeds>>

Adopt(j) ==
    /\ polling = NoJob
    /\ polling' = j
    /\ busy' = TRUE
    /\ UNCHANGED <<requestVars, opened, feed, feeds, awaiting>>

\* The end of pollJob, whatever its reason.
StopPolling ==
    /\ polling # NoJob
    /\ polling' = NoJob
    /\ busy' = FALSE

\* A snapshot with an outcome, or "rejected" for an unknown job, which
\* parseResponse throws.
PollSettles ==
    /\ StopPolling
    /\ PolledStatus(polling) \notin ActiveStatuses
    /\ UNCHANGED <<requestVars, opened, feed, feeds, awaiting>>

\* 180 snapshots of an active job.
PollGivesUp ==
    /\ StopPolling
    /\ PolledStatus(polling) \in ActiveStatuses
    /\ UNCHANGED <<requestVars, opened, feed, feeds, awaiting>>

\* A status request that fails for another reason than its credentials.
PollFails ==
    /\ StopPolling
    /\ ReadFails
    /\ UNCHANGED <<reply, opened, feed, feeds, awaiting>>

\* A restart ends the feed requests under way, and the poll if one is.
StudioBreaks ==
    /\ feeds' = {}
    /\ StopPolling \/ UNCHANGED <<polling, busy>>
    /\ UNCHANGED <<opened, feed, awaiting>>

StudioStep ==
    \/ AskFeed
    \/ \E jobs \in feeds : FeedArrives(jobs) \/ FeedFails(jobs)
    \/ \E j \in StudioJobs : Generate(j)
    \/ \E j \in awaiting : GenerateAnswered(j)
    \/ \E j \in feed : Adopt(j)
    \/ PollSettles \/ PollGivesUp \/ PollFails

\* The timer asks for feeds, answers arrive, effects run, polls repeat; the
\* user may never click.
StudioFairness ==
    /\ WF_<<requestVars, studioVars>>(AskFeed)
    /\ WF_<<requestVars, studioVars>>(\E jobs \in feeds : FeedArrives(jobs))
    /\ WF_<<requestVars, studioVars>>(\E j \in awaiting : GenerateAnswered(j))
    /\ WF_<<requestVars, studioVars>>(\E j \in feed : Adopt(j))
    /\ WF_<<requestVars, studioVars>>(PollSettles)

-----------------------------------------------------------------------------

AtRest == polling = NoJob /\ feed = {} /\ ~busy

(* Once nobody submits any more, the studio comes to rest and stays there, *)
(* unless a database call failed or the process was restarted: however     *)
(* polls and feeds overtake each other, a job that has been seen completed *)
(* is not offered and polled again for ever (VtonStudio.tsx:111-119).  A   *)
(* lost outcome row is exactly that: the feed lists it for good, each poll *)
(* sees the job completed, and the studio starts over.                     *)
StudioComesToRest == <>[]AtRest \/ <>(faults + crashes > 0)
=============================================================================
