-------------------------- MODULE DatabaseSessions --------------------------
(***************************************************************************)
(* The sessions of the application: SessionLocks running the programs of   *)
(* DatabasePrograms.                                                       *)
(***************************************************************************)
EXTENDS SessionLocks, DatabasePrograms

AllTables ==
    {"accounts", "user_profiles", "account_members", "account_audit_log",
     "account_invitations", "requests", "feedback", "jobs", "artifact_objects",
     "models", "audit_log", "tryops_quota_usage"}

AllPrograms ==
    [bootstrap |-> BootstrapHandler, createAccount |-> CreateAccountHandler,
     updateAccount |-> UpdateAccountHandler, accountDashboard |-> AccountDashboardHandler,
     accountQuota |-> AccountQuotaHandler, members |-> MembersHandler, search |-> SearchHandler,
     invitations |-> InvitationsHandler, invite |-> InviteHandler, revoke |-> RevokeHandler,
     updateMember |-> UpdateMemberHandler, history |-> HistoryHandler, feedback |-> FeedbackHandler,
     dashboard |-> DashboardHandler, models |-> ModelsHandler, promote |-> PromoteModelHandler,
     persistJob |-> PersistJobSnapshot, jobs |-> ReadPersistedJobs, artifact |-> ArtifactRecord,
     record |-> RecordRequest, upload |-> StoreUpload, outputs |-> StoreOutputs,
     scrape |-> ScrapeMetrics, migrate |-> MigrateArtifacts]

-----------------------------------------------------------------------------
\* A statement that waits, with what its transaction has in hand.
Waiting(x, step) == [table |-> step.table, mode |-> step.mode, hand |-> InHand(x)]

\* A name repair: a membership of its own transaction is refreshed when it
\* turns to the workspace's name.
RepairsName(wait) ==
    /\ wait.table = "accounts" /\ wait.mode = "RowExclusive"
    /\ \E l \in wait.hand : l.table = "account_members" /\ l.mode = "RowExclusive"

AgainstTheSchema == {"scrape", "revoke"}

\* The waits of the schema script for strong locks, and those of all other
\* statements.
SchemaWaits ==
    UNION {{Waiting(x, Programs[name][x.at]) :
               x \in {y \in Alone[name] : /\ y.inside /\ Programs[name][y.at].op = "lock"
                                         /\ Programs[name][y.at].mode \in Strong}} :
           name \in DOMAIN Programs}
OtherWaits(names) ==
    UNION {{Waiting(x, Programs[name][x.at]) :
               x \in {y \in Alone[name] : /\ ~y.inside /\ y.at <= Len(Programs[name])
                                         /\ Programs[name][y.at].op = "lock"}} :
           name \in names}

Blocks(l, wait) == l.table = wait.table /\ Conflicts(l.mode, wait.mode)
CanMeet(v, w) == \A k \in v.hand, l \in w.hand : k.table = l.table => ~Conflicts(k.mode, l.mode)
Crossed(v, w) == (\E k \in v.hand : Blocks(k, w)) /\ (\E l \in w.hand : Blocks(l, v))

\* Every other statement of src/tryops/db.py takes its tables in the order
\* in which _ensure_schema locks them, or holds one lock at a time: it never
\* has what the schema script waits for while it waits for what that has.
ASSUME TablesAreInOrder ==
    \A v \in SchemaWaits, w \in OtherWaits(DOMAIN Programs \ AgainstTheSchema) :
        Crossed(v, w) /\ CanMeet(v, w) => RepairsName(w)

-----------------------------------------------------------------------------
Wait(s) == Waiting([held |-> held[s], depth |-> depth[s]], Step(s))

\* The locks of one process form a cycle only around the schema lock and a
\* session that takes tables against the schema's order: the metrics scrape
\* (requests, then accounts), a revoked invitation (invitations, then the
\* audit log) or the repair of a workspace's name (members, then accounts).
\* Every other statement of src/tryops/db.py follows the order in which
\* _ensure_schema locks the tables, or holds one lock at a time.
DeadlocksAreKnown ==
    \A group \in SUBSET Sessions :
        Deadlocked(group) =>
            \/ \E s, t \in group : Here(s) # Here(t)
            \/ /\ \E s \in group : schemaLock[Here(s)] = s
               /\ \E s \in group : scene[s].program \in AgainstTheSchema \/ RepairsName(Wait(s))

\* A thread keeps the locks of one connection while it opens another.
KeepsLocksWhileConnecting(s) ==
    \E l \in held[s] : l.conn < depth[s] \/ Turn(s, "enter")

\* Every session ends, by itself or as the victim of a deadlock, unless a
\* thread stays with the locks of one connection while it opens another: it
\* then waits for itself, or for the schema lock of a thread that waits for
\* it, and PostgreSQL sees neither.  _bootstrap_or_demo_account does so when
\* the demo membership is not active; every other thread then waits for the
\* schema lock.
SessionsEnd ==
    <>[](\A s \in Sessions : ~Running(s) \/ \E t \in Sessions : KeepsLocksWhileConnecting(t))
=============================================================================
