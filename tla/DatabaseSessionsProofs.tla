----------------------- MODULE DatabaseSessionsProofs -----------------------
(***************************************************************************)
(* What holds of any number of database sessions, in any processes: the    *)
(* locks agree, and the deadlocks PostgreSQL can detect in one process are *)
(* the known ones.  What a program does on its own is finite and is given  *)
(* by the assumptions; what sessions do to each other is proved here.      *)
(***************************************************************************)
EXTENDS DatabaseSessions, TLAPS

\* A session as its program alone would be.
Own(s) == At(at[s], depth[s], held[s], schemaLock[Here(s)] = s)
Name(s) == scene[s].program

EachAsAlone == \A s \in Sessions : Running(s) => Own(s) \in Alone[Name(s)]

LocksCompatible ==
    \A s, t \in Sessions : \A k \in held[s], l \in held[t] :
        k.table = l.table /\ <<s, k.conn>> # <<t, l.conn>> => ~Conflicts(k.mode, l.mode)
LocksAreOpen == \A s \in Sessions : \A l \in held[s] : l.conn <= depth[s]
HoldersRun ==
    \A p \in Processes : schemaLock[p] # "nobody" => Running(schemaLock[p]) /\ Here(schemaLock[p]) = p

SessionsInv == TypeOK /\ EachAsAlone /\ LocksCompatible /\ LocksAreOpen /\ HoldersRun

-----------------------------------------------------------------------------
(* What a step finds.                                                      *)

\* A program is a sequence of steps, and a session is somewhere in its own.
LEMMA StepsAreTyped ==
    ASSUME TypeOK, NEW s \in Sessions
    PROVE  /\ Name(s) \in DOMAIN Programs /\ Here(s) \in Processes
           /\ Program(s) = Programs[Name(s)]
           /\ Program(s) \in Seq(Steps)
           /\ Len(Program(s)) \in Nat
           /\ ~Over(s) => Step(s) \in Steps
<1>1. Name(s) \in DOMAIN Programs /\ Here(s) \in Processes
  BY DEF TypeOK, Name, Here
<1>2. Program(s) = Programs[Name(s)] /\ Program(s) \in Seq(Steps)
  BY <1>1, ProgramsAreSteps DEF Program, Name
<1>3. Len(Program(s)) \in Nat
  BY <1>2
<1>4. at[s] \in Nat \ {0}
  BY DEF TypeOK
<1>5. ~Over(s) => Step(s) \in Steps
  BY <1>2, <1>3, <1>4 DEF Over, Step
<1> QED
  BY <1>1, <1>2, <1>3, <1>5

LEMMA LockStep ==
    ASSUME TypeOK, NEW s \in Sessions, Turn(s, "lock")
    PROVE  Step(s).table \in Tables /\ Step(s).mode \in Modes
<1>1. Step(s) \in Steps /\ Step(s).op = "lock"
  BY StepsAreTyped DEF Turn, Step
<1> QED
  BY <1>1 DEF Steps

LEMMA BranchStep ==
    ASSUME TypeOK, NEW s \in Sessions, Turn(s, "branch")
    PROVE  Step(s).next \subseteq Nat \ {0}
<1>1. Step(s) \in Steps /\ Step(s).op = "branch"
  BY StepsAreTyped DEF Turn, Step
<1> QED
  BY <1>1 DEF Steps

\* A session that turns to a step is in a state its program reaches alone.
LEMMA AtItsTurn ==
    ASSUME SessionsInv, NEW s \in Sessions, NEW op, Turn(s, op)
    PROVE  /\ Own(s) \in Alone[Name(s)]
           /\ ~(Own(s).at > Len(Programs[Name(s)]))
           /\ Programs[Name(s)][Own(s).at] = Step(s) /\ Step(s).op = op
           /\ Onward(Programs[Name(s)], Own(s)) \subseteq Alone[Name(s)]
<1>1. Own(s) \in Alone[Name(s)]
  BY DEF SessionsInv, EachAsAlone, Turn
<1>2. Program(s) = Programs[Name(s)] /\ Name(s) \in DOMAIN Programs
  BY StepsAreTyped DEF SessionsInv
<1>3. at[s] \in Nat /\ Len(Program(s)) \in Nat
  BY StepsAreTyped DEF SessionsInv, TypeOK
<1>4. Own(s).at = at[s]
  BY DEF Own, At
<1> QED
  BY <1>1, <1>2, <1>3, <1>4, AloneIsClosed DEF Turn, Over, Step

-----------------------------------------------------------------------------
(* What a step changes.                                                    *)

AtItsProgram(s) == Enter(s) \/ Leave(s) \/ Acquire(s) \/ Choose(s) \/ Commit(s) \/ Close(s)

\* Scene, and so program and process, stay.
LEMMA ScenesStay ==
    ASSUME NEW s \in Sessions, Moves(s)
    PROVE  /\ scene' = scene
           /\ \A t \in Sessions : Name(t)' = Name(t) /\ Here(t)' = Here(t) /\ Program(t)' = Program(t)
  BY DEF Moves, Enter, Leave, Acquire, Choose, Commit, Close, Finish, Abort, Name, Here, Program

\* Who leaves the schema lock is inside it.
LEMMA LeaverIsInside ==
    ASSUME SessionsInv, NEW s \in Sessions, Turn(s, "leave")
    PROVE  schemaLock[Here(s)] = s
<1>1. Name(s) \in DOMAIN Programs
  BY StepsAreTyped DEF SessionsInv
<1>2. Own(s).inside
  BY <1>1, AtItsTurn, SchemaLockIsLeft
<1> QED
  BY <1>2 DEF Own, At

\* Who is at the end is outside.
LEMMA EndIsOutside ==
    ASSUME SessionsInv, NEW s \in Sessions, Running(s), Over(s)
    PROVE  schemaLock[Here(s)] # s
<1>1. Name(s) \in DOMAIN Programs /\ Program(s) = Programs[Name(s)]
  BY StepsAreTyped DEF SessionsInv
<1>2. Own(s) \in Alone[Name(s)] /\ Own(s).at > Len(Programs[Name(s)])
  BY <1>1 DEF SessionsInv, EachAsAlone, Own, At, Over
<1>3. ~Own(s).inside
  BY <1>1, <1>2, SchemaLockIsLeft
<1> QED
  BY <1>3 DEF Own, At

\* A session at a step of its program does what the program does alone.
LEMMA StepIsOwn ==
    ASSUME SessionsInv, NEW s \in Sessions, AtItsProgram(s)
    PROVE  Own(s)' \in Onward(Programs[Name(s)], Own(s))
<1> DEFINE step == Step(s)
           x == Own(s)
<1>0. Moves(s) /\ TypeOK /\ Here(s) \in Processes
  BY StepsAreTyped DEF AtItsProgram, Moves, SessionsInv
<1>1. Here(s)' = Here(s) /\ Own(s)' = At(at'[s], depth'[s], held'[s], schemaLock'[Here(s)] = s)
  BY <1>0, ScenesStay DEF Own, At
<1>2. at[s] \in Nat /\ depth[s] \in 0 .. MaxDepth /\ held[s] \subseteq Locks
  BY <1>0 DEF TypeOK
<1>a. x.at = at[s] /\ x.depth = depth[s] /\ x.held = held[s] /\ x.inside = (schemaLock[Here(s)] = s)
  BY DEF Own, At
<1>b. InHand(x) = InTransaction(s)
  BY <1>a DEF InHand, InTransaction
<1>3. ASSUME NEW op, Turn(s, op), ~Stuck(x, step), Own(s)' \in After(x, step)
      PROVE  Own(s)' \in Onward(Programs[Name(s)], Own(s))
  BY <1>3, AtItsTurn DEF Onward
<1>4. CASE Enter(s)
  <2>1. step.op = "enter" /\ Turn(s, "enter")
    BY <1>4 DEF Enter, Turn, Step
  <2>2. ~Stuck(x, step)
    <3>1. schemaLock[Here(s)] # s
      BY <1>4, NobodyIsNoSession DEF Enter
    <3>2. ~x.inside
      BY <3>1, <1>a
    <3>3. x.depth # MaxDepth
      BY <1>4, <1>2, <1>a, DepthIsPositive DEF Enter
    <3> QED
      BY <2>1, <3>2, <3>3 DEF Stuck
  <2>3. Own(s)' = At(x.at + 1, x.depth + 1, x.held, TRUE)
    BY <1>0, <1>1, <1>a, <1>4 DEF Enter, Advance, TypeOK
  <2> QED
    BY <2>1, <2>2, <2>3, <1>3 DEF After
<1>5. CASE Leave(s)
  <2>1. step.op = "leave" /\ Turn(s, "leave")
    BY <1>5 DEF Leave, Turn, Step
  <2>2. ~Stuck(x, step)
    BY <2>1 DEF Stuck
  <2>3. Own(s)' = At(x.at + 1, x.depth, x.held, FALSE)
    BY <1>0, <1>1, <1>a, <1>5, NobodyIsNoSession DEF Leave, Advance, TypeOK
  <2> QED
    BY <2>1, <2>2, <2>3, <1>3 DEF After
<1>6. CASE Acquire(s)
  <2>1. step.op = "lock" /\ Turn(s, "lock")
    BY <1>6 DEF Acquire, Wants, Turn, Step
  <2>2. ~Stuck(x, step)
    <3>1. depth[s] > 0 /\ InTheWay(s, s) = {}
      BY <1>6 DEF Acquire, Wants
    <3>2. x.depth # 0 /\ x.held = held[s] /\ x.depth = depth[s]
      BY <3>1, <1>2, <1>a
    <3>3. ~\E l \in x.held : l.conn # x.depth /\ l.table = step.table /\ Conflicts(l.mode, step.mode)
      BY <3>1, <3>2 DEF InTheWay, Backend
    <3> QED
      BY <2>1, <3>2, <3>3 DEF Stuck
  <2>3. Own(s)' = At(x.at + 1, x.depth,
                     x.held \union {[conn |-> x.depth, table |-> step.table, mode |-> step.mode]}, x.inside)
    BY <1>0, <1>1, <1>a, <1>6 DEF Acquire, Advance, TypeOK
  <2> QED
    BY <2>1, <2>2, <2>3, <1>3 DEF After
<1>7. CASE Choose(s)
  <2>1. step.op = "branch" /\ Turn(s, "branch")
    BY <1>7 DEF Choose, Turn, Step
  <2>2. ~Stuck(x, step)
    BY <2>1 DEF Stuck
  <2>3. PICK n \in step.next : Own(s)' = At(x.at + n, x.depth, x.held, x.inside)
    BY <1>0, <1>1, <1>a, <1>7 DEF Choose, Advance, TypeOK
  <2> QED
    BY <2>1, <2>2, <2>3, <1>3 DEF After
<1>8. CASE Commit(s)
  <2>1. step.op = "commit" /\ Turn(s, "commit")
    BY <1>8 DEF Commit, Turn, Step
  <2>2. ~Stuck(x, step)
    BY <2>1 DEF Stuck
  <2>3. Own(s)' = At(x.at + 1, x.depth, x.held \ InHand(x), x.inside)
    BY <1>0, <1>1, <1>a, <1>b, <1>8 DEF Commit, Advance, TypeOK
  <2> QED
    BY <2>1, <2>2, <2>3, <1>3 DEF After
<1>9. CASE Close(s)
  <2>1. step.op = "close" /\ Turn(s, "close")
    BY <1>9 DEF Close, Turn, Step
  <2>2. ~Stuck(x, step)
    BY <2>1, <1>9, <1>2, <1>a DEF Stuck, Close
  <2>3. Own(s)' = At(x.at + 1, x.depth - 1, x.held \ InHand(x), x.inside)
    BY <1>0, <1>1, <1>a, <1>b, <1>9 DEF Close, Advance, TypeOK
  <2> QED
    BY <2>1, <2>2, <2>3, <1>3 DEF After
<1> QED
  BY <1>4, <1>5, <1>6, <1>7, <1>8, <1>9 DEF AtItsProgram

\* A step of one session leaves the others where they are.
LEMMA OthersStay ==
    ASSUME SessionsInv, NEW s \in Sessions, Moves(s), NEW t \in Sessions, t # s
    PROVE  Own(t)' = Own(t) /\ fate'[t] = fate[t]
<1>1. Here(t)' = Here(t) /\ TypeOK
  BY ScenesStay DEF SessionsInv
<1>2. at'[t] = at[t] /\ depth'[t] = depth[t] /\ held'[t] = held[t] /\ fate'[t] = fate[t]
  BY <1>1 DEF Moves, Enter, Leave, Acquire, Choose, Commit, Close, Finish, Abort, Advance, TypeOK
<1>3. (schemaLock'[Here(t)] = t) = (schemaLock[Here(t)] = t)
  <2>0. Here(t) \in Processes /\ Here(s) \in Processes /\ t # "nobody" /\ s # "nobody"
    BY <1>1, StepsAreTyped, NobodyIsNoSession
  <2>1. CASE Enter(s)
    BY <1>1, <2>0, <2>1 DEF Enter, TypeOK
  <2>2. CASE Leave(s)
    BY <1>1, <2>0, <2>2, LeaverIsInside DEF Leave, TypeOK
  <2>3. CASE Abort(s)
    BY <1>1, <2>0, <2>3 DEF Abort, TypeOK
  <2>4. CASE UNCHANGED schemaLock
    BY <2>4
  <2> QED
    BY <2>1, <2>2, <2>3, <2>4 DEF Moves, Acquire, Choose, Commit, Close, Finish
<1> QED
  BY <1>1, <1>2, <1>3 DEF Own, At
-----------------------------------------------------------------------------
(* The invariant.                                                          *)

LEMMA InitInv == Init => SessionsInv
<1> SUFFICES ASSUME Init
             PROVE  SessionsInv
  OBVIOUS
<1>1. scene \in [Sessions -> [program : DOMAIN Programs, process : Processes]]
  BY SessionsAreGiven DEF Init
<1>2. TypeOK
  BY <1>1, DepthIsPositive DEF Init, TypeOK
<1>3. EachAsAlone
  <2>1. ASSUME NEW s \in Sessions
        PROVE  Own(s) \in Alone[Name(s)]
    <3>1. Name(s) \in DOMAIN Programs /\ Here(s) \in Processes
      BY <1>2, StepsAreTyped
    <3>2. (schemaLock[Here(s)] = s) = FALSE
      BY <3>1, NobodyIsNoSession DEF Init
    <3>3. Own(s) = Beginning
      BY <3>2 DEF Init, Own, Beginning
    <3> QED
      BY <3>1, <3>3, AloneIsClosed
  <2> QED
    BY <2>1 DEF EachAsAlone
<1>4. LocksCompatible /\ LocksAreOpen /\ HoldersRun
  BY DEF Init, LocksCompatible, LocksAreOpen, HoldersRun
<1> QED
  BY <1>2, <1>3, <1>4 DEF SessionsInv

LEMMA TypesStay ==
    ASSUME SessionsInv, NEW s \in Sessions, Moves(s)
    PROVE  TypeOK'
<1>0. TypeOK
  BY DEF SessionsInv
<1>1. Here(s) \in Processes
  BY <1>0, StepsAreTyped
<1>2. CASE Enter(s)
  BY <1>0, <1>1, <1>2, DepthIsPositive DEF TypeOK, Enter, Advance
<1>3. CASE Leave(s)
  BY <1>0, <1>1, <1>3 DEF TypeOK, Leave, Advance
<1>4. CASE Acquire(s)
  <2>1. Step(s).table \in Tables /\ Step(s).mode \in Modes
    BY <1>0, <1>4, LockStep DEF Acquire, Wants
  <2>2. depth[s] \in 1 .. MaxDepth
    BY <1>0, <1>4, DepthIsPositive DEF TypeOK, Acquire, Wants
  <2>3. [conn |-> depth[s], table |-> Step(s).table, mode |-> Step(s).mode] \in Locks
    BY <2>1, <2>2 DEF Locks
  <2> QED
    BY <1>0, <1>4, <2>3 DEF TypeOK, Acquire, Advance
<1>5. CASE Choose(s)
  <2>1. Step(s).next \subseteq Nat \ {0}
    BY <1>0, <1>5, BranchStep DEF Choose
  <2>2. PICK n \in Nat \ {0} : Advance(s, n)
    BY <1>5, <2>1 DEF Choose
  <2> QED
    BY <1>0, <1>5, <2>2 DEF TypeOK, Choose, Advance
<1>6. CASE Commit(s)
  BY <1>0, <1>6 DEF TypeOK, Commit, Advance, InTransaction
<1>7. CASE Close(s)
  BY <1>0, <1>7, DepthIsPositive DEF TypeOK, Close, Advance, InTransaction
<1>8. CASE Finish(s)
  BY <1>0, <1>8 DEF TypeOK, Finish
<1>9. CASE Abort(s)
  <2>1. schemaLock' \in [Processes -> Sessions \union {"nobody"}]
    BY <1>0, <1>9 DEF TypeOK, Abort
  <2> QED
    BY <1>0, <1>9, <2>1, DepthIsPositive DEF TypeOK, Abort
<1> QED
  BY <1>2, <1>3, <1>4, <1>5, <1>6, <1>7, <1>8, <1>9 DEF Moves

LEMMA AloneStays ==
    ASSUME SessionsInv, NEW s \in Sessions, Moves(s)
    PROVE  EachAsAlone'
<1>0. TypeOK /\ Name(s) \in DOMAIN Programs
  BY StepsAreTyped DEF SessionsInv
<1> SUFFICES ASSUME NEW t \in Sessions, Running(t)'
             PROVE  Own(t)' \in Alone[Name(t)]
  BY ScenesStay DEF EachAsAlone
<1>1. CASE t # s
  BY <1>1, OthersStay DEF SessionsInv, EachAsAlone, Running
<1>2. CASE t = s
  <2>1. CASE AtItsProgram(s)
    <3>1. \E op : Turn(s, op)
      BY <2>1 DEF AtItsProgram, Enter, Leave, Acquire, Wants, Choose, Commit, Close
    <3>2. Onward(Programs[Name(s)], Own(s)) \subseteq Alone[Name(s)]
      BY <3>1, AtItsTurn
    <3> QED
      BY <1>2, <2>1, <3>2, StepIsOwn
  <2>2. CASE Finish(s) \/ Abort(s)
    BY <1>0, <1>2, <2>2 DEF Finish, Abort, Running, TypeOK
  <2> QED
    BY <2>1, <2>2 DEF Moves, AtItsProgram
<1> QED
  BY <1>1, <1>2

\* A lock is only given to who no other connection stands in the way of.
LEMMA LocksStayCompatible ==
    ASSUME SessionsInv, NEW s \in Sessions, Moves(s)
    PROVE  LocksCompatible'
<1>0. TypeOK /\ LocksCompatible
  BY DEF SessionsInv
<1>1. CASE Acquire(s)
  <2> DEFINE new == [conn |-> depth[s], table |-> Step(s).table, mode |-> Step(s).mode]
  <2>1. \A t \in Sessions : held'[t] = IF t = s THEN held[s] \union {new} ELSE held[t]
    BY <1>0, <1>1 DEF Acquire, TypeOK
  <2>2. ASSUME NEW t \in Sessions, NEW l \in held[t], l.table = new.table, <<t, l.conn>> # <<s, new.conn>>
        PROVE  ~Conflicts(l.mode, new.mode)
    BY <1>1, <2>2 DEF Acquire, InTheWay, Backend
  <2>3. \A a, b : Conflicts(a, b) = Conflicts(b, a)
    BY DEF Conflicts
  <2> SUFFICES ASSUME NEW t \in Sessions, NEW u \in Sessions, NEW k \in held'[t], NEW l \in held'[u],
                      k.table = l.table, <<t, k.conn>> # <<u, l.conn>>
               PROVE  ~Conflicts(k.mode, l.mode)
    BY DEF LocksCompatible
  <2>4. CASE k \in held[t] /\ l \in held[u]
    BY <1>0, <2>4 DEF LocksCompatible
  <2>5. CASE t = s /\ k = new /\ l \in held[u]
    BY <2>2, <2>3, <2>5
  <2>6. CASE u = s /\ l = new /\ k \in held[t]
    BY <2>2, <2>6
  <2>7. CASE t = s /\ k = new /\ u = s /\ l = new
    BY <2>7
  <2> QED
    BY <2>1, <2>4, <2>5, <2>6, <2>7
<1>2. CASE ~Acquire(s)
  <2>1. \A t \in Sessions : held'[t] \subseteq held[t]
    BY <1>0, <1>2 DEF Moves, Enter, Leave, Choose, Commit, Close, Finish, Abort, InTransaction, TypeOK
  <2> QED
    BY <1>0, <2>1 DEF LocksCompatible
<1> QED
  BY <1>1, <1>2

LEMMA LocksStayOpen ==
    ASSUME SessionsInv, NEW s \in Sessions, Moves(s)
    PROVE  LocksAreOpen'
<1>0. TypeOK /\ LocksAreOpen
  BY DEF SessionsInv
<1> SUFFICES ASSUME NEW t \in Sessions, NEW l \in held'[t]
             PROVE  l.conn <= depth'[t]
  BY DEF LocksAreOpen
<1>1. CASE t # s
  <2>1. held'[t] = held[t] /\ depth'[t] = depth[t]
    BY <1>0, <1>1 DEF Moves, Enter, Leave, Acquire, Choose, Commit, Close, Finish, Abort, TypeOK
  <2> QED
    BY <1>0, <2>1 DEF LocksAreOpen
<1>2. CASE t = s
  <2>0. depth[s] \in Nat /\ \A k \in held[s] : k.conn \in Nat /\ k.conn <= depth[s]
    BY <1>0, DepthIsPositive DEF TypeOK, Locks, LocksAreOpen
  <2>1. CASE Enter(s) \/ Leave(s) \/ Choose(s) \/ Finish(s)
    BY <1>0, <1>2, <2>0, <2>1 DEF Enter, Leave, Choose, Finish, TypeOK
  <2>2. CASE Acquire(s)
    BY <1>0, <1>2, <2>0, <2>2 DEF Acquire, TypeOK
  <2>3. CASE Commit(s)
    BY <1>0, <1>2, <2>0, <2>3 DEF Commit, TypeOK
  <2>4. CASE Close(s)
    <3>1. depth'[s] = depth[s] - 1 /\ l \in held[s] /\ l.conn # depth[s]
      BY <1>0, <1>2, <2>4 DEF Close, InTransaction, TypeOK
    <3> QED
      BY <1>2, <2>0, <3>1
  <2>5. CASE Abort(s)
    BY <1>0, <1>2, <2>5 DEF Abort, TypeOK
  <2> QED
    BY <2>1, <2>2, <2>3, <2>4, <2>5 DEF Moves
<1> QED
  BY <1>1, <1>2

LEMMA HoldersStayRunning ==
    ASSUME SessionsInv, NEW s \in Sessions, Moves(s)
    PROVE  HoldersRun'
<1>0. TypeOK /\ HoldersRun /\ Here(s) \in Processes /\ s # "nobody"
  BY StepsAreTyped, NobodyIsNoSession DEF SessionsInv
<1> SUFFICES ASSUME NEW p \in Processes, schemaLock'[p] # "nobody"
             PROVE  fate'[schemaLock'[p]] = "running" /\ Here(schemaLock'[p]) = p
  BY ScenesStay DEF HoldersRun, Running, Here
<1>1. schemaLock'[p] \in Sessions
  BY TypesStay DEF TypeOK
<1>2. CASE Enter(s)
  BY <1>0, <1>1, <1>2 DEF Enter, Turn, Running, HoldersRun, TypeOK
<1>3. CASE Leave(s)
  BY <1>0, <1>1, <1>3 DEF Leave, Running, HoldersRun, TypeOK
<1>4. CASE UNCHANGED <<schemaLock, fate>>
  BY <1>0, <1>1, <1>4 DEF Running, HoldersRun
<1>5. CASE Finish(s)
  <2>1. schemaLock[Here(s)] # s
    BY <1>5, EndIsOutside DEF Finish
  <2>2. schemaLock'[p] = schemaLock[p] /\ schemaLock[p] # s
    BY <1>0, <1>5, <2>1 DEF Finish, HoldersRun
  <2> QED
    BY <1>0, <1>1, <1>5, <2>2 DEF Finish, Running, HoldersRun, TypeOK
<1>6. CASE Abort(s)
  <2>1. schemaLock'[p] = schemaLock[p] /\ schemaLock[p] # s
    BY <1>0, <1>6 DEF Abort, HoldersRun, TypeOK
  <2> QED
    BY <1>0, <1>1, <1>6, <2>1 DEF Abort, Running, HoldersRun, TypeOK
<1> QED
  BY <1>2, <1>3, <1>4, <1>5, <1>6 DEF Moves, Acquire, Choose, Commit, Close

(* In any sessions of any programs that leave the schema lock they take    *)
(* (db.py connect, "with _SCHEMA_LOCK"), every state is what each program  *)
(* alone would be in, and the locks of different connections are           *)
(* compatible.                                                             *)
THEOREM SessionsCorrect == Spec => []SessionsInv
<1>1. ASSUME SessionsInv, [Next]_vars
      PROVE  SessionsInv'
  <2>1. ASSUME NEW s \in Sessions, Moves(s)
        PROVE  SessionsInv'
    BY <1>1, <2>1, TypesStay, AloneStays, LocksStayCompatible, LocksStayOpen, HoldersStayRunning DEF SessionsInv
  <2>2. CASE UNCHANGED vars
    BY <1>1, <2>2 DEF vars, SessionsInv, TypeOK, EachAsAlone, Own, Name, Here, Running, LocksCompatible,
                      LocksAreOpen, HoldersRun
  <2> QED
    BY <1>1, <2>1, <2>2 DEF Next
<1> QED
  BY <1>1, InitInv, PTL DEF Spec

(* Two connections never hold conflicting locks, a closed one holds none,  *)
(* and a schema lock is held by a running session of its process.          *)
THEOREM LocksAlwaysAgree == Spec => []LocksAgree
<1>1. SessionsInv => LocksAgree
  BY DEF SessionsInv, LocksAgree, LocksCompatible, LocksAreOpen, HoldersRun
<1> QED
  BY <1>1, SessionsCorrect, PTL

-----------------------------------------------------------------------------
(* Deadlocks.                                                              *)

LEMMA StrongHolder ==
    ASSUME SessionsInv, NEW s \in Sessions, Running(s), NEW l \in held[s], l.mode \in Strong
    PROVE  schemaLock[Here(s)] = s
<1>1. Own(s) \in Alone[Name(s)] /\ Name(s) \in DOMAIN Programs
  BY StepsAreTyped DEF SessionsInv, EachAsAlone
<1>2. l \in Own(s).held
  BY DEF Own, At
<1>3. Own(s).inside
  BY <1>1, <1>2, StrongLocksAreInside
<1> QED
  BY <1>3 DEF Own, At

LEMMA StrongWaiter ==
    ASSUME SessionsInv, NEW s \in Sessions, Turn(s, "lock"), Step(s).mode \in Strong
    PROVE  schemaLock[Here(s)] = s
<1>1. Name(s) \in DOMAIN Programs /\ Program(s) = Programs[Name(s)] /\ Len(Program(s)) \in Nat /\ at[s] \in Nat
  BY StepsAreTyped DEF SessionsInv, TypeOK
<1>2. Own(s).at = at[s] /\ Own(s).at <= Len(Programs[Name(s)])
  BY <1>1 DEF Own, At, Turn, Over
<1>3. Own(s).inside
  BY <1>1, <1>2, AtItsTurn, StrongLocksAreInside
<1> QED
  BY <1>3 DEF Own, At

\* What it is for s to wait for t.
LEMMA WaitingMeans ==
    ASSUME NEW s \in Sessions, NEW t \in Sessions, WaitsFor(s, t)
    PROVE  /\ Turn(s, "lock") /\ Running(s) /\ s # t
           /\ \E l \in Wait(t).hand : l \in held[t] /\ Blocks(l, Wait(s))
<1>1. PICK l \in InTheWay(s, t) : <<t, l.conn>> = Backend(t)
  BY DEF WaitsFor
<1>2. l \in held[t] /\ l.conn = depth[t] /\ s # t
  BY <1>1 DEF InTheWay, Backend
<1>3. l \in Wait(t).hand
  BY <1>2 DEF Wait, Waiting, InHand
<1>4. Blocks(l, Wait(s))
  BY <1>1 DEF InTheWay, Blocks, Wait, Waiting
<1> QED
  BY <1>2, <1>3, <1>4 DEF WaitsFor, Wants, Turn

\* A wait of a session is one its program can come to alone.
LEMMA WaitIsOwn ==
    ASSUME SessionsInv, NEW s \in Sessions, Turn(s, "lock")
    PROVE  /\ schemaLock[Here(s)] = s /\ Step(s).mode \in Strong => Wait(s) \in SchemaWaits
           /\ \A names : schemaLock[Here(s)] # s /\ Name(s) \in names => Wait(s) \in OtherWaits(names)
<1>1. Name(s) \in DOMAIN Programs /\ Program(s) = Programs[Name(s)] /\ Len(Program(s)) \in Nat /\ at[s] \in Nat
  BY StepsAreTyped DEF SessionsInv, TypeOK
<1>2. Own(s).at = at[s] /\ Own(s).at <= Len(Programs[Name(s)])
  BY <1>1 DEF Own, At, Turn, Over
<1>3. Own(s) \in Alone[Name(s)] /\ Programs[Name(s)][Own(s).at] = Step(s) /\ Step(s).op = "lock"
  BY AtItsTurn
<1>4. Wait(s) = Waiting(Own(s), Step(s))
  BY DEF Wait, Waiting, InHand, Own, At
<1>5. Own(s).inside = (schemaLock[Here(s)] = s)
  BY DEF Own, At
<1>6. ASSUME schemaLock[Here(s)] = s, Step(s).mode \in Strong
      PROVE  Wait(s) \in SchemaWaits
  <2> DEFINE InsideWaits(name) ==
                 {y \in Alone[name] : /\ y.inside /\ Programs[name][y.at].op = "lock"
                                     /\ Programs[name][y.at].mode \in Strong}
  <2>1. Own(s) \in InsideWaits(Name(s))
    BY <1>3, <1>5, <1>6
  <2>2. Wait(s) \in {Waiting(x, Programs[Name(s)][x.at]) : x \in InsideWaits(Name(s))}
    BY <1>3, <1>4, <2>1
  <2> QED
    BY <1>1, <2>2 DEF SchemaWaits
<1>7. ASSUME NEW names, schemaLock[Here(s)] # s, Name(s) \in names
      PROVE  Wait(s) \in OtherWaits(names)
  <2> DEFINE OutsideWaits(name) ==
                 {y \in Alone[name] : /\ ~y.inside /\ y.at <= Len(Programs[name])
                                     /\ Programs[name][y.at].op = "lock"}
  <2>1. Own(s) \in OutsideWaits(Name(s))
    BY <1>2, <1>3, <1>5, <1>7
  <2>2. Wait(s) \in {Waiting(x, Programs[Name(s)][x.at]) : x \in OutsideWaits(Name(s))}
    BY <1>3, <1>4, <2>1
  <2> QED
    BY <1>7, <2>2 DEF OtherWaits
<1> QED
  BY <1>6, <1>7

(* Among any number of sessions in any number of processes, PostgreSQL     *)
(* finds a cycle within one process only around the schema script and a    *)
(* session that takes tables against its order: the metrics scrape, a      *)
(* revoked invitation or the repair of a workspace's name.                 *)
THEOREM DeadlocksAreAlwaysKnown == Spec => []DeadlocksAreKnown
<1>1. ASSUME SessionsInv
      PROVE  DeadlocksAreKnown
  <2> SUFFICES ASSUME NEW group \in SUBSET Sessions, Deadlocked(group),
                      \A s, t \in group : Here(s) = Here(t)
               PROVE  /\ \E s \in group : schemaLock[Here(s)] = s
                      /\ \E s \in group : Name(s) \in AgainstTheSchema \/ RepairsName(Wait(s))
    BY DEF DeadlocksAreKnown, Name
  <2>1. \A s \in group : Turn(s, "lock") /\ Running(s) /\ \E t \in group : WaitsFor(s, t)
    BY WaitingMeans DEF Deadlocked
  <2>2. ASSUME NEW s \in group, NEW l, Blocks(l, Wait(s)), l.mode \notin Strong
        PROVE  Step(s).mode \in Strong
    BY <2>2 DEF Blocks, Wait, Waiting, Conflicts, Strong
  <2>3. \E h \in group : schemaLock[Here(h)] = h
    <3>1. PICK s \in group, t \in group : WaitsFor(s, t)
      BY <2>1 DEF Deadlocked
    <3>2. PICK l \in held[t] : Blocks(l, Wait(s))
      BY <3>1, WaitingMeans
    <3>3. CASE l.mode \in Strong
      BY <1>1, <2>1, <3>2, <3>3, StrongHolder
    <3>4. CASE l.mode \notin Strong
      BY <1>1, <2>1, <2>2, <3>2, <3>4, StrongWaiter
    <3> QED
      BY <3>3, <3>4
  <2>4. PICK h \in group : schemaLock[Here(h)] = h
    BY <2>3
  <2>5. \A s \in group : s # h => schemaLock[Here(s)] # s
    BY <2>4
  <2>6. PICK t \in group : WaitsFor(h, t)
    BY <2>1
  <2>7. t # h /\ schemaLock[Here(t)] # t
    BY <2>5, <2>6, WaitingMeans
  <2>8. PICK l \in Wait(t).hand : l \in held[t] /\ Blocks(l, Wait(h))
    BY <2>6, WaitingMeans
  <2>9. l.mode \notin Strong
    BY <1>1, <2>1, <2>7, <2>8, StrongHolder
  <2>10. Step(h).mode \in Strong /\ Step(t).mode \notin Strong
    BY <1>1, <2>1, <2>2, <2>7, <2>8, <2>9, StrongWaiter
  <2>11. PICK u \in group : WaitsFor(t, u)
    BY <2>1
  <2>12. PICK k \in Wait(u).hand : k \in held[u] /\ Blocks(k, Wait(t))
    BY <2>11, WaitingMeans
  <2>13. k.mode \in Strong
    BY <2>2, <2>10, <2>12
  <2>14. u = h
    BY <1>1, <2>1, <2>5, <2>12, <2>13, StrongHolder
  <2>15. Crossed(Wait(h), Wait(t))
    BY <2>8, <2>12, <2>14 DEF Crossed
  <2>16. CanMeet(Wait(h), Wait(t))
    BY <1>1, <2>7 DEF CanMeet, SessionsInv, LocksCompatible, Wait, Waiting, InHand
  <2>17. Wait(h) \in SchemaWaits
    BY <1>1, <2>1, <2>4, <2>10, WaitIsOwn
  <2>18. CASE Name(t) \in AgainstTheSchema
    BY <2>4, <2>18
  <2>19. CASE Name(t) \notin AgainstTheSchema
    <3>1. Name(t) \in DOMAIN Programs \ AgainstTheSchema
      BY <1>1, <2>19, StepsAreTyped DEF SessionsInv
    <3>2. Wait(t) \in OtherWaits(DOMAIN Programs \ AgainstTheSchema)
      BY <1>1, <2>1, <2>7, <3>1, WaitIsOwn
    <3>3. RepairsName(Wait(t))
      BY <2>15, <2>16, <2>17, <3>2, TablesAreInOrder
    <3> QED
      BY <2>4, <3>3
  <2> QED
    BY <2>18, <2>19
<1> QED
  BY <1>1, SessionsCorrect, PTL
=============================================================================
