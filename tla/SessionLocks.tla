---------------------------- MODULE SessionLocks ----------------------------
(***************************************************************************)
(* Database sessions of the application: threads of one or more processes  *)
(* that open a connection (src/tryops/db.py connect, under _SCHEMA_LOCK),  *)
(* take table locks with the statements they execute, and commit or close. *)
(* A session is a program, a sequence of steps; the locks of a connection  *)
(* are kept to the end of its transaction, as PostgreSQL keeps them.  A    *)
(* thread may hold one connection while it opens another.                  *)
(***************************************************************************)
EXTENDS Naturals, Sequences, FiniteSets

CONSTANTS
    Sessions,
    Processes,
    Tables,
    MaxDepth,   \* bound: connections one thread has open at once
    Programs,   \* the programs a session may run, by name
    Scenarios   \* for each session a program's name and a process

Modes == {"AccessShare", "RowExclusive", "Share", "AccessExclusive"}

Steps == [op : {"lock"}, table : Tables, mode : Modes]
             \union [op : {"branch"}, next : SUBSET (Nat \ {0})]
             \union [op : {"enter", "leave", "commit", "close"}]

ASSUME ProgramsAreSteps == \A name \in DOMAIN Programs : Programs[name] \in Seq(Steps)
ASSUME SessionsAreGiven == Scenarios \subseteq [Sessions -> [program : DOMAIN Programs, process : Processes]]
ASSUME DepthIsPositive == MaxDepth \in Nat \ {0}
ASSUME NobodyIsNoSession == "nobody" \notin Sessions

Locks == [conn : 1 .. MaxDepth, table : Tables, mode : Modes]

\* The table lock modes the statements use; SELECT takes AccessShare,
\* INSERT and UPDATE RowExclusive, CREATE INDEX Share, ALTER TABLE
\* AccessExclusive.
Conflicts(a, b) ==
    \/ "AccessExclusive" \in {a, b}
    \/ {a, b} = {"Share", "RowExclusive"}
Strong == {"Share", "AccessExclusive"}

-----------------------------------------------------------------------------
(* A program on its own: the step it turns to, its open connections, its   *)
(* locks, and whether it is inside the schema lock.                        *)

At(place, depths, locks, lock) == [at |-> place, depth |-> depths, held |-> locks, inside |-> lock]
Beginning == At(1, 0, {}, FALSE)
InHand(x) == {l \in x.held : l.conn = x.depth}

\* Where step leads from x, if nobody else is there.
After(x, step) ==
    CASE step.op = "enter"  -> {At(x.at + 1, x.depth + 1, x.held, TRUE)}
      [] step.op = "leave"  -> {At(x.at + 1, x.depth, x.held, FALSE)}
      [] step.op = "branch" -> {At(x.at + n, x.depth, x.held, x.inside) : n \in step.next}
      [] step.op = "commit" -> {At(x.at + 1, x.depth, x.held \ InHand(x), x.inside)}
      [] step.op = "close"  -> {At(x.at + 1, x.depth - 1, x.held \ InHand(x), x.inside)}
      [] step.op = "lock"   ->
             LET taken == [conn |-> x.depth, table |-> step.table, mode |-> step.mode]
             IN {At(x.at + 1, x.depth, x.held \union {taken}, x.inside)}

\* A step that never comes: the schema lock a second time, or a lock that
\* another connection of the same thread stands in the way of.
Stuck(x, step) ==
    \/ step.op = "enter" /\ (x.inside \/ x.depth = MaxDepth)
    \/ step.op = "lock" /\ (x.depth = 0 \/ \E l \in x.held :
           l.conn # x.depth /\ l.table = step.table /\ Conflicts(l.mode, step.mode))
    \/ step.op = "close" /\ x.depth = 0

Onward(program, x) ==
    IF x.at > Len(program) \/ Stuck(x, program[x.at]) THEN {} ELSE After(x, program[x.at])

\* Every state of each program on its own: the first, and what steps lead to.
Alone ==
    [name \in DOMAIN Programs |->
        LET Reached[n \in Nat] ==
                IF n = 0 THEN [all |-> {Beginning}, last |-> {Beginning}]
                ELSE LET before == Reached[n - 1]
                         new == UNION {Onward(Programs[name], x) : x \in before.last}
                     IN [all |-> before.all \union new, last |-> new]
        IN Reached[Len(Programs[name])].all]

ASSUME AloneIsClosed ==
    \A name \in DOMAIN Programs :
        /\ Beginning \in Alone[name]
        /\ \A x \in Alone[name] : Onward(Programs[name], x) \subseteq Alone[name]

\* "with _SCHEMA_LOCK": only who is inside leaves, and nobody ends inside.
ASSUME SchemaLockIsLeft ==
    \A name \in DOMAIN Programs : \A x \in Alone[name] :
        IF x.at > Len(Programs[name]) THEN ~x.inside
        ELSE Programs[name][x.at].op = "leave" => x.inside

\* Only the schema script, inside the lock, takes strong locks, and it has
\* given them up when it leaves.
ASSUME StrongLocksAreInside ==
    \A name \in DOMAIN Programs : \A x \in Alone[name] : ~x.inside =>
        /\ \A l \in x.held : l.mode \notin Strong
        /\ x.at <= Len(Programs[name]) /\ Programs[name][x.at].op = "lock" =>
               Programs[name][x.at].mode \notin Strong

VARIABLES
    scene,       \* what each session runs, and where
    at,          \* the step it turns to
    depth,       \* its open connections
    held,        \* the locks of its transactions, by connection
    schemaLock,  \* _SCHEMA_LOCK of each process
    fate         \* how it ended

vars == <<scene, at, depth, held, schemaLock, fate>>

Program(s) == Programs[scene[s].program]
Here(s) == scene[s].process
Running(s) == fate[s] = "running"
Over(s) == at[s] > Len(Program(s))
Turn(s, op) == Running(s) /\ ~Over(s) /\ Program(s)[at[s]].op = op
Step(s) == Program(s)[at[s]]

Init ==
    /\ scene \in Scenarios
    /\ at = [s \in Sessions |-> 1]
    /\ depth = [s \in Sessions |-> 0]
    /\ held = [s \in Sessions |-> {}]
    /\ schemaLock = [p \in Processes |-> "nobody"]
    /\ fate = [s \in Sessions |-> "running"]

Advance(s, n) == at' = [at EXCEPT ![s] = @ + n]
InTransaction(s) == {l \in held[s] : l.conn = depth[s]}

\* A backend is one connection of a session.  Its own locks never stop it;
\* those of another connection do, the same thread's included.
Backend(s) == <<s, depth[s]>>
Wants(s) == Turn(s, "lock") /\ depth[s] > 0
InTheWay(s, t) ==
    {l \in held[t] : /\ <<t, l.conn>> # Backend(s)
                     /\ l.table = Step(s).table
                     /\ Conflicts(l.mode, Step(s).mode)}

TypeOK ==
    /\ scene \in [Sessions -> [program : DOMAIN Programs, process : Processes]]
    /\ at \in [Sessions -> Nat \ {0}]
    /\ depth \in [Sessions -> 0 .. MaxDepth]
    /\ held \in [Sessions -> SUBSET Locks]
    /\ schemaLock \in [Processes -> Sessions \union {"nobody"}]
    /\ fate \in [Sessions -> {"running", "ended", "victim"}]

-----------------------------------------------------------------------------
\* A plausible bug, used nowhere: connect does not take _SCHEMA_LOCK.
EnterUnlocked(s) ==
    /\ Turn(s, "enter")
    /\ depth[s] < MaxDepth
    /\ schemaLock' = [schemaLock EXCEPT ![Here(s)] = s]
    /\ depth' = [depth EXCEPT ![s] = @ + 1]
    /\ Advance(s, 1)
    /\ UNCHANGED <<scene, held, fate>>

\* connect: a new connection, then the process's schema lock.
Enter(s) ==
    /\ Turn(s, "enter")
    /\ depth[s] < MaxDepth
    /\ schemaLock[Here(s)] = "nobody"
    /\ schemaLock' = [schemaLock EXCEPT ![Here(s)] = s]
    /\ depth' = [depth EXCEPT ![s] = @ + 1]
    /\ Advance(s, 1)
    /\ UNCHANGED <<scene, held, fate>>

\* The end of "with _SCHEMA_LOCK".
Leave(s) ==
    /\ Turn(s, "leave")
    /\ schemaLock' = [schemaLock EXCEPT ![Here(s)] = "nobody"]
    /\ Advance(s, 1)
    /\ UNCHANGED <<scene, depth, held, fate>>

\* A statement waits until no other connection holds a conflicting lock.
Acquire(s) ==
    /\ Wants(s)
    /\ \A t \in Sessions : InTheWay(s, t) = {}
    /\ held' = [held EXCEPT ![s] = @ \union {[conn |-> depth[s], table |-> Step(s).table, mode |-> Step(s).mode]}]
    /\ Advance(s, 1)
    /\ UNCHANGED <<scene, depth, schemaLock, fate>>

\* A branch of the code, to one of the steps it may go on with.
Choose(s) ==
    /\ Turn(s, "branch")
    /\ \E n \in Step(s).next : Advance(s, n)
    /\ UNCHANGED <<scene, depth, held, schemaLock, fate>>

Commit(s) ==
    /\ Turn(s, "commit")
    /\ held' = [held EXCEPT ![s] = @ \ InTransaction(s)]
    /\ Advance(s, 1)
    /\ UNCHANGED <<scene, depth, schemaLock, fate>>

\* conn.close() rolls back what was not committed.
Close(s) ==
    /\ Turn(s, "close")
    /\ depth[s] > 0
    /\ held' = [held EXCEPT ![s] = @ \ InTransaction(s)]
    /\ depth' = [depth EXCEPT ![s] = @ - 1]
    /\ Advance(s, 1)
    /\ UNCHANGED <<scene, schemaLock, fate>>

Finish(s) ==
    /\ Running(s) /\ Over(s)
    /\ fate' = [fate EXCEPT ![s] = "ended"]
    /\ UNCHANGED <<scene, at, depth, held, schemaLock>>

\* Connections that wait for one another: what PostgreSQL detects.  It does
\* not know that a thread which waits on one connection keeps another open.
WaitsFor(s, t) == Wants(s) /\ \E l \in InTheWay(s, t) : <<t, l.conn>> = Backend(t)
Deadlocked(group) ==
    /\ group # {}
    /\ \A s \in group : \E t \in group : WaitsFor(s, t)
    /\ \A t \in group : \E s \in group : WaitsFor(s, t)

\* A plausible bug, used nowhere: the schema lock taken without "with".
AbortKeepingLock(s) ==
    /\ \E group \in SUBSET Sessions : s \in group /\ Deadlocked(group)
    /\ fate' = [fate EXCEPT ![s] = "victim"]
    /\ held' = [held EXCEPT ![s] = {}]
    /\ depth' = [depth EXCEPT ![s] = 0]
    /\ UNCHANGED <<scene, at, schemaLock>>

\* PostgreSQL fails a statement of a cycle; the exception leaves the
\* with-block and closes the connections on its way.
Abort(s) ==
    /\ \E group \in SUBSET Sessions : s \in group /\ Deadlocked(group)
    /\ fate' = [fate EXCEPT ![s] = "victim"]
    /\ held' = [held EXCEPT ![s] = {}]
    /\ depth' = [depth EXCEPT ![s] = 0]
    /\ schemaLock' = [schemaLock EXCEPT ![Here(s)] = IF @ = s THEN "nobody" ELSE @]
    /\ UNCHANGED <<scene, at>>

Moves(s) ==
    \/ Enter(s) \/ Leave(s) \/ Acquire(s) \/ Choose(s)
    \/ Commit(s) \/ Close(s) \/ Finish(s) \/ Abort(s)

Next == \E s \in Sessions : Moves(s)

Spec == Init /\ [][Next]_vars

\* Threads keep running, PostgreSQL detects deadlocks after a second and
\* every program is finite: nobody is overtaken for ever.
FairSpec == Spec /\ \A s \in Sessions : WF_vars(Moves(s))

-----------------------------------------------------------------------------
\* Two connections never hold conflicting locks, a closed connection holds
\* none, and a schema lock is held by a running session of its process.
LocksAgree ==
    /\ TypeOK
    /\ \A s, t \in Sessions : \A k \in held[s], l \in held[t] :
           k.table = l.table /\ <<s, k.conn>> # <<t, l.conn>> => ~Conflicts(k.mode, l.mode)
    /\ \A s \in Sessions : \A l \in held[s] : l.conn <= depth[s]
    /\ \A p \in Processes : schemaLock[p] # "nobody" =>
           Running(schemaLock[p]) /\ Here(schemaLock[p]) = p

=============================================================================
