------------------------ MODULE EvidenceGatesProofs ------------------------
(***************************************************************************)
(* The gates of the Makefile, for any number of makes that run at once.    *)
(* Each make is where its plan leads to whatever the others do, and, while *)
(* no other gets in its way, where its plan leads to alone.                *)
(***************************************************************************)
EXTENDS EvidenceGates, TLAPS

AllFiles == UNION {FilesOf(m) : m \in Makes}
AllTools == UNION {ToolsOf(m) : m \in Makes}
Conditions == {"absent", "linking", "ready"}
Fates == {"running", "green", "failed", "raised", "hung", "stopped"}

GatesTypeOK ==
    /\ occasion \in Occasions
    /\ agenda = [m \in Makes |-> IF Goal(m) = "nothing" THEN <<>> ELSE Plans[Goal(m)]]
    /\ at \in [Makes -> Nat \ {0}]
    /\ open \in [Makes -> BOOLEAN]
    /\ passing \in [Makes -> BOOLEAN]
    /\ native \in [Makes -> BOOLEAN]
    /\ fresh \in [Makes -> BOOLEAN]
    /\ file \in [AllFiles -> Contents]
    /\ tool \in [AllTools -> Conditions]
    /\ fate \in [Makes -> Fates]

\* A make ends where the Makefile lets it end.
EndsAgree ==
    \A m \in Makes :
        /\ ~Busy(m) => fate[m] = "green"
        /\ Green(m) => at[m] > Len(agenda[m])
        /\ fate[m] = "failed" =>
               \/ Current(m).op = "build"
               \/ Current(m).op = "exit" /\ at[m] <= Len(agenda[m]) /\ Current(m).loud /\ ~passing[m]
        /\ open[m] => at[m] <= Len(agenda[m]) /\ Current(m).op \in {"build", "write"}

\* The file it is writing, the tool it is linking.
Opened(m, f) == open[m] /\ Current(m).op = "write" /\ Current(m).file = f
Linking(m, t) == open[m] /\ Current(m).op = "build" /\ Current(m).tool = t

\* Where make m is, whatever the others do.
Follows(m, x) ==
    /\ x.at = at[m] /\ x.passing = passing[m]
    /\ \A f \in AllFiles : Own(m, f) /\ ~file[f].passed => f \in x.bad

\* Where it is when nobody is in its way: its files say what they say alone.
Saying(m, r) ==
    [state |-> "whole", by |-> m, passed |-> r.passed, native |-> r.native, fresh |-> r.fresh]
FilesAsAlone(m, x) ==
    /\ \A r \in x.mine : r.file \in FilesOf(m) /\ (Opened(m, r.file) \/ file[r.file] = Saying(m, r))
    /\ \A f \in FilesOf(m) :
           IF Opened(m, f) THEN file[f] = Torn
           ELSE file[f] \in {Absent, Earlier} \/ \E r \in x.mine : r.file = f
ToolsAsAlone(m, x) ==
    \A t \in x.ready : t \in ToolsOf(m) /\ (Linking(m, t) \/ tool[t] = "ready")
ScriptAsAlone(m, x) ==
    x.at = at[m] /\ x.passing = passing[m] /\ x.native = native[m] /\ x.fresh = fresh[m]

EachAmongOthers ==
    \A m \in Makes : Busy(m) /\ fate[m] # "raised" => \E x \in InCompany[Goal(m)] : Follows(m, x)
EachAsAlone ==
    \A m \in Makes : Busy(m) /\ fate[m] # "raised" /\ Undisturbed(m) =>
        \E x \in Solo[Goal(m)] : ScriptAsAlone(m, x) /\ FilesAsAlone(m, x) /\ ToolsAsAlone(m, x)

GatesInv == GatesTypeOK /\ EndsAgree /\ EachAmongOthers /\ EachAsAlone

-----------------------------------------------------------------------------
\* A make has an agenda: the plan of its goal.
LEMMA AgendaIsPlan ==
    ASSUME GatesTypeOK, NEW m \in Makes
    PROVE  /\ Goal(m) \in DOMAIN Targets \union {"nothing"}
           /\ Busy(m) => Goal(m) \in DOMAIN Plans /\ agenda[m] = Plans[Goal(m)]
           /\ Len(agenda[m]) \in Nat /\ DOMAIN agenda[m] = 1 .. Len(agenda[m])
           /\ ~Busy(m) => agenda[m] = <<>>
<1>1. Goal(m) \in DOMAIN Targets \union {"nothing"}
  BY OccasionsAreGoals DEF GatesTypeOK, Goal
<1>2. DOMAIN Plans = DOMAIN Targets
  BY DEF Plans
<1>3. Busy(m) => Goal(m) \in DOMAIN Plans /\ agenda[m] = Plans[Goal(m)]
  BY <1>1, <1>2 DEF GatesTypeOK, Busy
<1>4. ~Busy(m) => agenda[m] = <<>>
  BY DEF GatesTypeOK, Busy
<1>5. Len(<<>>) = 0 /\ DOMAIN <<>> = 1 .. Len(<<>>)
  OBVIOUS
<1> QED
  BY <1>1, <1>3, <1>4, <1>5, PlansAreSequences

\* What a step of a make touches is among its files and tools.
LEMMA StepTouches ==
    ASSUME GatesTypeOK, NEW m \in Makes, at[m] <= Len(agenda[m])
    PROVE  /\ Current(m) \in Steps(m)
           /\ Current(m).op \in {"read", "write"} => Current(m).file \in FilesOf(m)
           /\ Current(m).op \in {"build", "call"} => Current(m).tool \in ToolsOf(m)
           /\ Current(m).op = "write" => Current(m).file \in Wrote(m)
           /\ Current(m).op = "build" => Current(m).tool \in Built(m)
           /\ Current(m).op = "branch" => Current(m).skip \in Nat
<1>1. at[m] \in DOMAIN agenda[m]
  BY AgendaIsPlan DEF GatesTypeOK
<1>2. Current(m) \in Steps(m)
  BY <1>1 DEF Current, Steps, Range
<1>3. Current(m).op = "branch" => Current(m).skip \in Nat
  <2>1. Busy(m)
    BY <1>1, AgendaIsPlan
  <2> QED
    BY <2>1, <1>2, AgendaIsPlan, PlansAreSequences DEF Steps
<1> QED
  BY <1>2, <1>3 DEF FilesOf, ToolsOf, Wrote, Saved, Built, Steps
-----------------------------------------------------------------------------
(* What a step of a make changes.                                          *)

\* What makes are for and what they have to do is settled at the start.
LEMMA AgendaStays ==
    ASSUME GatesTypeOK, NEW m \in Makes, Moves(m)
    PROVE  /\ occasion' = occasion /\ agenda' = agenda
           /\ AllFiles' = AllFiles /\ AllTools' = AllTools
           /\ occasion' \in Occasions
           /\ agenda' = [n \in Makes |-> IF Goal(n) = "nothing" THEN <<>> ELSE Plans[Goal(n)]]'
<1>1. occasion' = occasion /\ agenda' = agenda
  BY DEF Moves, Compile, Link, Call, Load, Judge, Branch, OpenFile, FillFile, ExitScript, Finish, Interrupt
<1> QED
  BY <1>1 DEF GatesTypeOK, Goal, AllFiles, AllTools, FilesOf, ToolsOf, Steps

\* What an effect of a step comes to: an exception, or the next step.
LEMMA EffectMoves ==
    ASSUME GatesTypeOK, NEW m \in Makes, NEW effect, Affected(m, effect)
    PROVE  /\ at' \in [Makes -> Nat \ {0}] /\ passing' \in [Makes -> BOOLEAN] /\ fate' \in [Makes -> Fates]
           /\ \A o \in Makes \ {m} : at'[o] = at[o] /\ passing'[o] = passing[o] /\ fate'[o] = fate[o]
           /\ effect = "raise" => fate'[m] = "raised"
           /\ effect # "raise" => fate' = fate /\ at'[m] = at[m] + 1
           /\ passing'[m] <=> passing[m] /\ effect = "pass"
<1>1. passing' \in [Makes -> BOOLEAN] /\ \A o \in Makes \ {m} : passing'[o] = passing[o]
  BY DEF GatesTypeOK, Affected
<1>2. passing'[m] <=> passing[m] /\ effect = "pass"
  BY DEF GatesTypeOK, Affected
<1>3. CASE effect = "raise"
  BY <1>1, <1>2, <1>3 DEF GatesTypeOK, Affected, Ends, Fates
<1>4. CASE effect # "raise"
  <2>1. at' = [at EXCEPT ![m] = @ + 1] /\ fate' = fate
    BY <1>4 DEF Affected, Advance
  <2>2. /\ at' \in [Makes -> Nat \ {0}] /\ fate' \in [Makes -> Fates] /\ at'[m] = at[m] + 1
        /\ \A o \in Makes \ {m} : at'[o] = at[o] /\ fate'[o] = fate[o]
    BY <2>1 DEF GatesTypeOK
  <2> QED
    BY <1>1, <1>2, <1>4, <2>1, <2>2
<1> QED
  BY <1>3, <1>4

\* The verdict, the reports and the tools stay of a type.
LEMMA MovesKeepTypes ==
    ASSUME GatesTypeOK, NEW m \in Makes, Moves(m)
    PROVE  GatesTypeOK'
<1> SUFFICES /\ at' \in [Makes -> Nat \ {0}]
             /\ open' \in [Makes -> BOOLEAN]
             /\ passing' \in [Makes -> BOOLEAN]
             /\ native' \in [Makes -> BOOLEAN]
             /\ fresh' \in [Makes -> BOOLEAN]
             /\ file' \in [AllFiles -> Contents]
             /\ tool' \in [AllTools -> Conditions]
             /\ fate' \in [Makes -> Fates]
  BY AgendaStays DEF GatesTypeOK
<1> USE DEF GatesTypeOK
<1>a. fate \in [Makes -> Fates] /\ {"raised", "failed", "hung", "green", "stopped"} \subseteq Fates
  BY DEF Fates
<1>1. CASE Compile(m)
  <2>1. /\ passing' = passing /\ native' = native /\ fresh' = fresh /\ file' = file
        /\ fate' = fate \/ Ends(m, "failed")
        /\ at' = at \/ Advance(m)
        /\ open' = open \/ open' = [open EXCEPT ![m] = TRUE]
        /\ tool' = tool \/ tool' = [tool EXCEPT ![Current(m).tool] = "linking"]
    BY <1>1 DEF Compile, scriptVars
  <2>2. at' \in [Makes -> Nat \ {0}]
    BY <2>1 DEF Advance
  <2>3. fate' \in [Makes -> Fates]
    BY <1>a, <2>1 DEF Ends
  <2>4. open' \in [Makes -> BOOLEAN] /\ tool' \in [AllTools -> Conditions]
    BY <2>1 DEF Conditions
  <2> QED
    BY <2>1, <2>2, <2>3, <2>4
<1>2. CASE Link(m)
  <2>1. /\ passing' = passing /\ native' = native /\ fresh' = fresh /\ file' = file /\ fate' = fate
        /\ open' = [open EXCEPT ![m] = FALSE] /\ at' = [at EXCEPT ![m] = @ + 1]
        /\ tool' = [tool EXCEPT ![Current(m).tool] = "ready"]
    BY <1>2 DEF Link, Advance, scriptVars
  <2>2. tool' \in [AllTools -> Conditions]
    BY <2>1 DEF Conditions
  <2> QED
    BY <2>1, <2>2
<1>3. CASE Call(m)
  <2>1. open' = open /\ fresh' = fresh /\ file' = file /\ tool' = tool
    BY <1>3 DEF Call
  <2>2. native' = native \/ \E reply : native' = [native EXCEPT ![m] = @ /\ reply = "native"]
    BY <1>3 DEF Call
  <2>3. native' \in [Makes -> BOOLEAN]
    BY <2>2
  <2>4. \/ at' = at /\ passing' = passing /\ Ends(m, "hung")
        \/ \E effect : Affected(m, effect)
    BY <1>3 DEF Call
  <2>5. at' \in [Makes -> Nat \ {0}] /\ passing' \in [Makes -> BOOLEAN] /\ fate' \in [Makes -> Fates]
    BY <1>a, <2>4, EffectMoves DEF Ends
  <2> QED
    BY <2>1, <2>3, <2>5
<1>4. CASE Load(m)
  <2>1. open' = open /\ native' = native /\ file' = file /\ tool' = tool
    BY <1>4 DEF Load
  <2>2. \E own : fresh' = [fresh EXCEPT ![m] = @ /\ own]
    BY <1>4 DEF Load
  <2>3. fresh' \in [Makes -> BOOLEAN]
    BY <2>2
  <2>4. \E effect : Affected(m, effect)
    BY <1>4 DEF Load
  <2> QED
    BY <2>1, <2>3, <2>4, EffectMoves
<1>5. CASE Judge(m)
  <2>1. \E effect : Affected(m, effect)
    BY <1>5 DEF Judge
  <2> QED
    BY <1>5, <2>1, EffectMoves DEF Judge
<1>6. CASE Branch(m)
  <2>1. Current(m).skip \in Nat
    BY <1>6, StepTouches DEF Branch, Due, Current
  <2>2. CASE Affected(m, "pass")
    BY <1>6, <2>2, EffectMoves DEF Branch
  <2>3. CASE /\ at' = [at EXCEPT ![m] = @ + 1 + Current(m).skip]
             /\ passing' = [passing EXCEPT ![m] = @ /\ Current(m).otherwise = "pass"]
             /\ UNCHANGED fate
    <3>1. passing' \in [Makes -> BOOLEAN]
      BY <2>3
    <3>2. at' \in [Makes -> Nat \ {0}]
      BY <2>1, <2>3
    <3> QED
      BY <1>6, <2>3, <3>1, <3>2 DEF Branch
  <2> QED
    BY <1>6, <2>2, <2>3 DEF Branch
<1>7. CASE OpenFile(m)
  BY <1>7 DEF OpenFile, scriptVars, Torn, Earlier, Contents
<1>8. CASE FillFile(m)
  <2>1. /\ passing' = passing /\ native' = native /\ fresh' = fresh /\ tool' = tool /\ fate' = fate
        /\ open' \in [Makes -> BOOLEAN] /\ at' \in [Makes -> Nat \ {0}]
    BY <1>8 DEF FillFile, Advance, scriptVars
  <2>2. \A verdict \in BOOLEAN :
           [state |-> "whole", by |-> m, passed |-> verdict, native |-> native[m], fresh |-> fresh[m]] \in Contents
    BY DEF Contents
  <2>3. Torn \in Contents
    BY DEF Torn, Earlier, Contents
  <2>4. \E text \in Contents : file' = [file EXCEPT ![Current(m).file] = text]
    BY <1>8, <2>2, <2>3 DEF FillFile
  <2> QED
    BY <2>1, <2>4
<1>9. CASE ExitScript(m)
  <2>1. open' = open /\ file' = file /\ tool' = tool
    BY <1>9 DEF ExitScript
  <2>2. CASE Current(m).loud /\ ~passing[m]
    BY <1>9, <1>a, <2>1, <2>2 DEF ExitScript, Ends, scriptVars
  <2>3. CASE ~(Current(m).loud /\ ~passing[m])
    <3>1. /\ at' = [at EXCEPT ![m] = @ + 1] /\ fate' = fate
          /\ passing' = [passing EXCEPT ![m] = TRUE]
          /\ native' = [native EXCEPT ![m] = TRUE]
          /\ fresh' = [fresh EXCEPT ![m] = TRUE]
      BY <1>9, <2>3 DEF ExitScript, Advance
    <3> QED
      BY <2>1, <3>1
  <2> QED
    BY <2>2, <2>3
<1>10. CASE Finish(m) \/ Interrupt(m)
  BY <1>10, <1>a DEF Finish, Interrupt, Ends, scriptVars
<1> QED
  BY <1>1, <1>2, <1>3, <1>4, <1>5, <1>6, <1>7, <1>8, <1>9, <1>10 DEF Moves

\* A step changes nothing of another make, and of the files and the tools at
\* most the one it writes or builds.
LEMMA MovesAreOwn ==
    ASSUME GatesTypeOK, NEW m \in Makes, Moves(m)
    PROVE  /\ Running(m)
           /\ \A o \in Makes \ {m} :
                 /\ at'[o] = at[o] /\ open'[o] = open[o] /\ fate'[o] = fate[o]
                 /\ passing'[o] = passing[o] /\ native'[o] = native[o] /\ fresh'[o] = fresh[o]
           /\ \A f \in AllFiles :
                 \/ file'[f] = file[f]
                 \/ Due(m, "write") /\ f = Current(m).file /\ (file'[f] = Torn \/ file'[f].by = m)
           /\ \A t \in AllTools : tool'[t] = tool[t] \/ (Due(m, "build") /\ t = Current(m).tool)
<1> USE DEF GatesTypeOK
<1>1. Running(m)
  BY DEF Moves, Compile, Link, Call, Load, Judge, Branch, OpenFile, FillFile, ExitScript, Finish, Interrupt, Due
<1>2. \A o \in Makes \ {m} : open'[o] = open[o]
  BY DEF Moves, Compile, Link, Call, Load, Judge, Branch, OpenFile, FillFile, ExitScript, Finish, Interrupt
<1>3. \A o \in Makes \ {m} : at'[o] = at[o]
  BY EffectMoves DEF Moves, Compile, Link, Call, Load, Judge, Branch, OpenFile, FillFile, ExitScript, Finish, Interrupt, Advance
<1>4. \A o \in Makes \ {m} : fate'[o] = fate[o]
  BY EffectMoves DEF Moves, Compile, Link, Call, Load, Judge, Branch, OpenFile, FillFile, ExitScript, Finish, Interrupt, Ends
<1>5. \A o \in Makes \ {m} : passing'[o] = passing[o]
  BY EffectMoves DEF Moves, Compile, Link, Call, Load, Judge, Branch, OpenFile, FillFile, ExitScript, Finish, Interrupt, scriptVars
<1>6. \A o \in Makes \ {m} : native'[o] = native[o]
  BY DEF Moves, Compile, Link, Call, Load, Judge, Branch, OpenFile, FillFile, ExitScript, Finish, Interrupt, scriptVars
<1>7. \A o \in Makes \ {m} : fresh'[o] = fresh[o]
  BY DEF Moves, Compile, Link, Call, Load, Judge, Branch, OpenFile, FillFile, ExitScript, Finish, Interrupt, scriptVars
<1>8. ASSUME NEW f \in AllFiles
      PROVE  \/ file'[f] = file[f]
             \/ Due(m, "write") /\ f = Current(m).file /\ (file'[f] = Torn \/ file'[f].by = m)
  <2>1. CASE OpenFile(m)
    BY <2>1 DEF OpenFile
  <2>2. CASE FillFile(m)
    BY <2>2 DEF FillFile
  <2>3. CASE file' = file
    BY <2>3
  <2> QED
    BY <2>1, <2>2, <2>3
    DEF Moves, Compile, Link, Call, Load, Judge, Branch, ExitScript, Finish, Interrupt
<1>9. ASSUME NEW t \in AllTools
      PROVE  tool'[t] = tool[t] \/ (Due(m, "build") /\ t = Current(m).tool)
  <2>1. CASE Compile(m)
    BY <2>1 DEF Compile
  <2>2. CASE Link(m)
    BY <2>2 DEF Link
  <2>3. CASE tool' = tool
    BY <2>3
  <2> QED
    BY <2>1, <2>2, <2>3
    DEF Moves, Call, Load, Judge, Branch, OpenFile, FillFile, ExitScript, Finish, Interrupt
<1> QED
  BY <1>1, <1>2, <1>3, <1>4, <1>5, <1>6, <1>7, <1>8, <1>9

\* Who is in whose way is settled at the start.
LEMMA SceneStays ==
    ASSUME GatesTypeOK, NEW m \in Makes, Moves(m), NEW o \in Makes
    PROVE  /\ Goal(o)' = Goal(o) /\ (Busy(o)' <=> Busy(o))
           /\ agenda'[o] = agenda[o]
           /\ FilesOf(o)' = FilesOf(o) /\ ToolsOf(o)' = ToolsOf(o)
           /\ Wrote(o)' = Wrote(o) /\ Built(o)' = Built(o)
           /\ (Undisturbed(o)' <=> Undisturbed(o))
<1>1. occasion' = occasion /\ agenda' = agenda
  BY AgendaStays
<1> QED
  BY <1>1 DEF Goal, Busy, FilesOf, ToolsOf, Wrote, Saved, Built, Steps, Undisturbed

\* What another make does leaves a make where it is.
LEMMA OthersStay ==
    ASSUME GatesInv, NEW m \in Makes, Moves(m), NEW o \in Makes \ {m}
    PROVE  /\ Current(o)' = Current(o)
           /\ fate'[o] = fate[o]
           /\ \A f : Opened(o, f)' <=> Opened(o, f)
           /\ \A t : Linking(o, t)' <=> Linking(o, t)
<1>1. Current(o)' = Current(o) /\ open'[o] = open[o] /\ fate'[o] = fate[o]
  BY MovesAreOwn, AgendaStays DEF GatesInv, Current
<1> QED
  BY <1>1 DEF Opened, Linking

LEMMA OthersFollow ==
    ASSUME GatesInv, NEW m \in Makes, Moves(m), NEW o \in Makes \ {m},
           Busy(o)', fate'[o] # "raised"
    PROVE  \E x \in InCompany[Goal(o)]' : Follows(o, x)'
<1>1. Busy(o) /\ fate[o] # "raised" /\ Goal(o)' = Goal(o)
  BY OthersStay, SceneStays DEF GatesInv
<1>2. PICK x \in InCompany[Goal(o)] : Follows(o, x)
  BY <1>1 DEF GatesInv, EachAmongOthers
<1>3. x.at = at'[o] /\ x.passing = passing'[o] /\ AllFiles' = AllFiles
  BY <1>2, MovesAreOwn, AgendaStays DEF GatesInv, Follows
<1>4. ASSUME NEW f \in AllFiles, Own(o, f)', ~file'[f].passed
      PROVE  f \in x.bad
  <2>1. file'[f] = file[f]
    BY <1>4, MovesAreOwn DEF GatesInv, Own, Whole, Torn, Earlier
  <2> QED
    BY <1>2, <1>4, <2>1 DEF Follows, Own, Whole
<1>5. Follows(o, x)'
  BY <1>3, <1>4 DEF Follows
<1> QED
  BY <1>1, <1>2, <1>5

LEMMA OthersStandAlone ==
    ASSUME GatesInv, NEW m \in Makes, Moves(m), NEW o \in Makes \ {m},
           Busy(o)', fate'[o] # "raised", Undisturbed(o)'
    PROVE  \E x \in Solo[Goal(o)]' :
              ScriptAsAlone(o, x)' /\ FilesAsAlone(o, x)' /\ ToolsAsAlone(o, x)'
<1>1. Busy(o) /\ fate[o] # "raised" /\ Goal(o)' = Goal(o) /\ Undisturbed(o)
  BY OthersStay, SceneStays DEF GatesInv
<1>2. PICK x \in Solo[Goal(o)] : ScriptAsAlone(o, x) /\ FilesAsAlone(o, x) /\ ToolsAsAlone(o, x)
  BY <1>1 DEF GatesInv, EachAsAlone
<1>3. ScriptAsAlone(o, x)'
  BY <1>2, MovesAreOwn DEF GatesInv, ScriptAsAlone
<1>4. Wrote(m) \intersect FilesOf(o) = {} /\ Built(m) \intersect ToolsOf(o) = {}
  <2>1. Busy(m)
    BY MovesAreOwn DEF GatesInv, EndsAgree, Running
  <2> QED
    BY <1>1, <2>1 DEF Undisturbed
<1>5. FilesOf(o) \subseteq AllFiles /\ ToolsOf(o) \subseteq AllTools
  BY DEF AllFiles, AllTools
<1>6. \A f \in FilesOf(o) : file'[f] = file[f]
  <2>1. Due(m, "write") => Current(m).file \in Wrote(m)
    BY StepTouches DEF GatesInv, Due, Current
  <2> QED
    BY <1>4, <1>5, <2>1, MovesAreOwn DEF GatesInv
<1>7. \A t \in ToolsOf(o) : tool'[t] = tool[t]
  <2>1. Due(m, "build") => Current(m).tool \in Built(m)
    BY StepTouches DEF GatesInv, Due, Current
  <2> QED
    BY <1>4, <1>5, <2>1, MovesAreOwn DEF GatesInv
<1>8. FilesAsAlone(o, x)'
  BY <1>2, <1>6, SceneStays, OthersStay DEF GatesInv, FilesAsAlone, Saying
<1>9. ToolsAsAlone(o, x)'
  BY <1>2, <1>7, SceneStays, OthersStay DEF GatesInv, ToolsAsAlone
<1> QED
  BY <1>1, <1>2, <1>3, <1>8, <1>9

-----------------------------------------------------------------------------
(* Where a make goes by its own step, whatever the others do.              *)

\* A make that moves is for something, and at a step of its plan.
LEMMA ActorIsBusy ==
    ASSUME GatesInv, NEW m \in Makes, Moves(m)
    PROVE  /\ Busy(m) /\ Running(m) /\ fate[m] # "raised"
           /\ Goal(m) \in DOMAIN Plans /\ agenda[m] = Plans[Goal(m)]
           /\ Goal(m)' = Goal(m)
<1>1. Busy(m) /\ Running(m) /\ fate[m] # "raised"
  BY MovesAreOwn DEF GatesInv, EndsAgree, Running
<1> QED
  BY <1>1, AgendaIsPlan, SceneStays DEF GatesInv

\* It stays where it is, and has no file of its own that it had not.
Stands(m) ==
    /\ at'[m] = at[m] /\ passing'[m] = passing[m]
    /\ \A f \in AllFiles : Own(m, f)' => file'[f] = file[f]

\* It goes on, with what the step may come to.
GoesOn(m, effect) ==
    /\ at'[m] = at[m] + 1 /\ (passing'[m] <=> passing[m] /\ effect = "pass")
    /\ effect \in Possible(Current(m)) \ {"raise"} /\ file' = file

\* Every step of a make is one of these.
LEMMA MovesStandOrGo ==
    ASSUME GatesInv, NEW m \in Makes, Moves(m), fate'[m] # "raised"
    PROVE  \/ Stands(m)
           \/ /\ at[m] <= Len(agenda[m]) /\ Current(m).op \in {"build", "call", "read", "judge"}
              /\ \E effect : GoesOn(m, effect)
           \/ Branch(m) \/ FillFile(m)
           \/ ExitScript(m) /\ ~(Current(m).loud /\ ~passing[m])
<1> USE DEF GatesInv, GatesTypeOK
<1>1. CASE Compile(m)
  <2>1. file' = file /\ passing' = passing /\ Due(m, "build")
    BY <1>1 DEF Compile, scriptVars
  <2>2. CASE at' = at
    BY <2>1, <2>2 DEF Stands, Own, Whole
  <2>3. CASE Advance(m)
    <3>1. at'[m] = at[m] + 1
      BY <2>3 DEF Advance
    <3>2. "pass" \in Possible(Current(m)) \ {"raise"}
      BY <2>1 DEF Possible, Due, Current
    <3>3. GoesOn(m, "pass")
      BY <2>1, <3>1, <3>2 DEF GoesOn
    <3> QED
      BY <2>1, <3>3 DEF Due, Current
  <2> QED
    BY <1>1, <2>2, <2>3 DEF Compile
<1>2. CASE Link(m)
  <2>1. file' = file /\ passing' = passing /\ Due(m, "build") /\ at'[m] = at[m] + 1
    BY <1>2 DEF Link, scriptVars, Advance
  <2>2. "pass" \in Possible(Current(m)) \ {"raise"}
    BY <2>1 DEF Possible, Due, Current
  <2>3. GoesOn(m, "pass")
    BY <2>1, <2>2 DEF GoesOn
  <2> QED
    BY <2>1, <2>3 DEF Due, Current
<1>3. CASE Call(m)
  <2>1. file' = file /\ Due(m, "call")
    BY <1>3 DEF Call
  <2>2. CASE at' = at /\ passing' = passing
    BY <2>1, <2>2 DEF Stands, Own, Whole
  <2>3. ASSUME NEW reply \in Replies, NEW effect \in Current(m).effect[reply], Affected(m, effect)
        PROVE  \E e : GoesOn(m, e)
    <3>1. effect \in Possible(Current(m)) \ {"raise"}
      BY <2>1, <2>3, EffectMoves DEF Possible, Due, Current
    <3> QED
      BY <2>1, <2>3, <3>1, EffectMoves DEF GoesOn
  <2>4. ~Affected(m, "raise")
    BY EffectMoves
  <2> QED
    BY <1>3, <2>1, <2>2, <2>3, <2>4 DEF Call, Due, Current
<1>4. CASE Load(m)
  <2>1. file' = file /\ Due(m, "read")
    BY <1>4 DEF Load
  <2>2. PICK effect \in {"pass", Current(m).missing, Current(m).torn, Current(m).failed} : Affected(m, effect)
    <3>1. Current(m).file \in AllFiles
      BY <2>1, StepTouches DEF Due, Current, AllFiles
    <3>2. file[Current(m).file].state \in {"absent", "torn", "whole"}
      BY <3>1 DEF Contents
    <3> QED
      BY <1>4, <3>2 DEF Load
  <2>3. effect \in Possible(Current(m)) \ {"raise"}
    BY <2>1, <2>2, EffectMoves DEF Possible, Due, Current
  <2>4. GoesOn(m, effect)
    BY <2>1, <2>2, <2>3, EffectMoves DEF GoesOn
  <2> QED
    BY <2>1, <2>4 DEF Due, Current
<1>5. CASE Judge(m)
  <2>1. file' = file /\ Due(m, "judge")
    BY <1>5 DEF Judge
  <2>2. PICK effect \in Current(m).effects : Affected(m, effect)
    BY <1>5 DEF Judge
  <2>3. effect \in Possible(Current(m)) \ {"raise"}
    BY <2>1, <2>2, EffectMoves DEF Possible, Due, Current
  <2>4. GoesOn(m, effect)
    BY <2>1, <2>2, <2>3, EffectMoves DEF GoesOn
  <2> QED
    BY <2>1, <2>4 DEF Due, Current
<1>6. CASE OpenFile(m)
  <2>1. at' = at /\ passing' = passing /\ file' = [file EXCEPT ![Current(m).file] = Torn]
    BY <1>6 DEF OpenFile, scriptVars
  <2>2. \A f \in AllFiles : Own(m, f)' => file'[f] = file[f]
    BY <2>1 DEF Own, Whole, Torn, Earlier
  <2> QED
    BY <2>1, <2>2 DEF Stands
<1>7. CASE ExitScript(m)
  BY <1>7 DEF ExitScript, Stands, scriptVars, Own, Whole
<1>8. CASE Finish(m) \/ Interrupt(m)
  BY <1>8 DEF Finish, Interrupt, Stands, scriptVars, Own, Whole
<1> QED
  BY <1>1, <1>2, <1>3, <1>4, <1>5, <1>6, <1>7, <1>8 DEF Moves

LEMMA ActorFollows ==
    ASSUME GatesInv, NEW m \in Makes, Moves(m), fate'[m] # "raised"
    PROVE  \E y \in InCompany[Goal(m)]' : Follows(m, y)'
<1>1. PICK x \in InCompany[Goal(m)] : Follows(m, x)
  BY ActorIsBusy DEF GatesInv, EachAmongOthers
<1>2. /\ Goal(m)' = Goal(m) /\ Goal(m) \in DOMAIN Plans /\ AllFiles' = AllFiles
      /\ x.at = at[m] /\ x.passing = passing[m] /\ passing[m] \in BOOLEAN /\ passing'[m] \in BOOLEAN
      /\ at[m] <= Len(agenda[m]) => Plans[Goal(m)][x.at] = Current(m) /\ x.at <= Len(Plans[Goal(m)])
  BY <1>1, ActorIsBusy, AgendaStays, MovesKeepTypes DEF GatesInv, GatesTypeOK, Follows, Current
<1>3. at[m] <= Len(agenda[m]) => OnwardAnyhow(x, Current(m)) \subseteq InCompany[Goal(m)]
  BY <1>2, CompanyIsClosed
<1>4. \A f \in AllFiles : Own(m, f) /\ ~file[f].passed => f \in x.bad
  BY <1>1 DEF Follows
<1> SUFFICES \E y \in InCompany[Goal(m)] :
                /\ y.at = at'[m] /\ y.passing = passing'[m]
                /\ \A f \in AllFiles : Own(m, f)' /\ ~file'[f].passed => f \in y.bad
  BY <1>2 DEF Follows
<1>5. CASE Stands(m)
  BY <1>2, <1>4, <1>5 DEF Stands, Own, Whole
<1>6. CASE /\ at[m] <= Len(agenda[m]) /\ Current(m).op \in {"build", "call", "read", "judge"}
           /\ \E effect : GoesOn(m, effect)
  <2>1. PICK effect : GoesOn(m, effect)
    BY <1>6
  <2> DEFINE y == Among(x.at + 1, x.passing /\ effect = "pass", x.bad)
  <2>2. y \in OnwardAnyhow(x, Current(m))
    BY <1>6, <2>1 DEF OnwardAnyhow, GoesOn
  <2>3. y.at = at'[m] /\ y.bad = x.bad
    BY <1>2, <2>1 DEF Among, GoesOn
  <2>4. y.passing = passing'[m]
    BY <1>2, <2>1 DEF Among, GoesOn
  <2>5. \A f \in AllFiles : Own(m, f)' /\ ~file'[f].passed => f \in y.bad
    BY <1>4, <2>1, <2>3 DEF GoesOn, Own, Whole
  <2> QED
    BY <1>3, <1>6, <2>2, <2>3, <2>4, <2>5
<1>7. CASE Branch(m)
  <2>1. Due(m, "branch") /\ file' = file /\ at[m] <= Len(agenda[m]) /\ Current(m).op = "branch"
    BY <1>7 DEF Branch, Due, Current
  <2>2. OnwardAnyhow(x, Current(m)) =
           {Among(x.at + 1 + Current(m).skip, x.passing /\ Current(m).otherwise = "pass", x.bad)}
               \union (IF x.passing THEN {Among(x.at + 1, x.passing, x.bad)} ELSE {})
    BY <2>1 DEF OnwardAnyhow
  <2>3. CASE passing[m] /\ Affected(m, "pass")
    <3> DEFINE y == Among(x.at + 1, x.passing, x.bad)
    <3>1. y \in OnwardAnyhow(x, Current(m))
      BY <1>2, <2>2, <2>3
    <3>2. at'[m] = at[m] + 1 /\ (passing'[m] <=> passing[m])
      BY <2>3, EffectMoves DEF GatesInv
    <3>3. y.at = at'[m] /\ y.bad = x.bad /\ y.passing = passing'[m]
      BY <1>2, <3>2 DEF Among
    <3> QED
      BY <1>3, <1>4, <2>1, <3>1, <3>3 DEF Own, Whole
  <2>4. CASE /\ at' = [at EXCEPT ![m] = @ + 1 + Current(m).skip]
             /\ passing' = [passing EXCEPT ![m] = @ /\ Current(m).otherwise = "pass"]
    <3> DEFINE y == Among(x.at + 1 + Current(m).skip, x.passing /\ Current(m).otherwise = "pass", x.bad)
    <3>1. y \in OnwardAnyhow(x, Current(m))
      BY <2>2
    <3>2. at'[m] = at[m] + 1 + Current(m).skip /\ (passing'[m] <=> passing[m] /\ Current(m).otherwise = "pass")
      BY <2>4 DEF GatesInv, GatesTypeOK
    <3>3. y.at = at'[m] /\ y.bad = x.bad /\ y.passing = passing'[m]
      BY <1>2, <3>2 DEF Among
    <3> QED
      BY <1>3, <1>4, <2>1, <3>1, <3>3 DEF Own, Whole
  <2> QED
    BY <1>7, <2>3, <2>4 DEF Branch
<1>8. CASE FillFile(m)
  <2> DEFINE g == Current(m).file
             Told(says) == [state |-> "whole", by |-> m, passed |-> passing[m] /\ says = "pass",
                            native |-> native[m], fresh |-> fresh[m]]
  <2>1. Due(m, "write") /\ at[m] <= Len(agenda[m]) /\ Current(m).op = "write"
    BY <1>8 DEF FillFile, Due, Current
  <2>2. PICK says \in Current(m).says :
           file' = [file EXCEPT ![g] = Told(says)] \/ file' = [file EXCEPT ![g] = Torn]
    BY <1>8 DEF FillFile
  <2> DEFINE well == x.passing /\ says = "pass"
             y == Among(x.at + 1, x.passing, IF well THEN x.bad \ {g} ELSE x.bad \union {g})
  <2>3. y \in OnwardAnyhow(x, Current(m))
    BY <2>1 DEF OnwardAnyhow
  <2>4. at'[m] = at[m] + 1 /\ passing'[m] = passing[m]
    BY <1>8 DEF FillFile, Advance, scriptVars, GatesInv, GatesTypeOK
  <2>5. y.at = at'[m] /\ y.passing = passing'[m]
    BY <1>2, <2>4 DEF Among
  <2>6. y.bad = IF well THEN x.bad \ {g} ELSE x.bad \union {g}
    BY DEF Among
  <2>7. ASSUME NEW f \in AllFiles, Own(m, f)', ~file'[f].passed
        PROVE  f \in y.bad
    <3>1. CASE f = g
      <4>1. file'[g].state = "whole"
        BY <2>7, <3>1 DEF Own, Whole
      <4>2. Torn.state = "torn"
        BY DEF Torn, Earlier
      <4>3. file'[g] \in {Told(says), Torn}
        BY <2>2, <3>1 DEF GatesInv, GatesTypeOK
      <4>4. file'[g] = Told(says)
        BY <4>1, <4>2, <4>3
      <4>5. ~well
        BY <1>2, <2>7, <3>1, <4>4
      <4> QED
        BY <2>6, <3>1, <4>5
    <3>2. CASE f # g
      <4>1. file'[f] = file[f]
        BY <2>2, <3>2 DEF GatesInv, GatesTypeOK
      <4>2. f \in x.bad
        BY <1>4, <2>7, <4>1 DEF Own, Whole
      <4> QED
        BY <2>6, <3>2, <4>2
    <3> QED
      BY <3>1, <3>2
  <2> HIDE DEF y
  <2> QED
    BY <1>3, <2>1, <2>3, <2>5, <2>7
<1>9. CASE ExitScript(m) /\ ~(Current(m).loud /\ ~passing[m])
  <2> DEFINE y == Among(x.at + 1, TRUE, x.bad)
  <2>1. /\ Due(m, "exit") /\ at[m] <= Len(agenda[m]) /\ Current(m).op = "exit" /\ file' = file
        /\ at'[m] = at[m] + 1 /\ passing'[m] = TRUE
    BY <1>9 DEF ExitScript, Due, Current, Advance, GatesInv, GatesTypeOK
  <2>2. y \in OnwardAnyhow(x, Current(m))
    BY <1>2, <1>9, <2>1 DEF OnwardAnyhow
  <2>3. y.at = at'[m] /\ y.passing = passing'[m] /\ y.bad = x.bad
    BY <1>2, <2>1 DEF Among
  <2> QED
    BY <1>3, <1>4, <2>1, <2>2, <2>3 DEF Own, Whole
<1> QED
  BY <1>5, <1>6, <1>7, <1>8, <1>9, MovesStandOrGo

-----------------------------------------------------------------------------
(* Where a make goes by its own step when nobody is in its way.            *)

\* A step that leaves the files and the tools alone.
LEMMA EvidenceStays ==
    ASSUME NEW m \in Makes, NEW x, NEW y, FilesAsAlone(m, x), ToolsAsAlone(m, x),
           y.mine = x.mine, y.ready = x.ready, FilesOf(m)' = FilesOf(m), ToolsOf(m)' = ToolsOf(m),
           file' = file, tool' = tool,
           \/ ~open[m] /\ ~open'[m]
           \/ open' = open /\ Current(m)' = Current(m)
    PROVE  FilesAsAlone(m, y)' /\ ToolsAsAlone(m, y)'
<1>1. (\A f : Opened(m, f)' <=> Opened(m, f)) /\ (\A t : Linking(m, t)' <=> Linking(m, t))
  BY DEF Opened, Linking
<1> QED
  BY <1>1 DEF FilesAsAlone, ToolsAsAlone, Saying

\* A step other than a build or a write finds nothing open.
LEMMA NothingOpen ==
    ASSUME GatesInv, NEW m \in Makes, Current(m).op \notin {"build", "write"}
    PROVE  ~open[m]
BY DEF GatesInv, EndsAgree

\* The step of a lone plan that stands for that of the make.
AloneAfter(m, y) ==
    ScriptAsAlone(m, y)' /\ FilesAsAlone(m, y)' /\ ToolsAsAlone(m, y)'

\* What is known of a make that is about to move.
LEMMA ActorIsAlone ==
    ASSUME GatesInv, NEW m \in Makes, Moves(m), Undisturbed(m)
    PROVE  \E x \in Solo[Goal(m)] :
              /\ ScriptAsAlone(m, x) /\ FilesAsAlone(m, x) /\ ToolsAsAlone(m, x)
              /\ at[m] <= Len(agenda[m]) => Onward(x, Current(m)) \subseteq Solo[Goal(m)]
<1>1. PICK x \in Solo[Goal(m)] : ScriptAsAlone(m, x) /\ FilesAsAlone(m, x) /\ ToolsAsAlone(m, x)
  BY ActorIsBusy DEF GatesInv, EachAsAlone
<1>2. Goal(m) \in DOMAIN Plans /\ agenda[m] = Plans[Goal(m)] /\ x.at = at[m]
  BY <1>1, ActorIsBusy DEF ScriptAsAlone
<1>3. at[m] <= Len(agenda[m]) => Onward(x, Current(m)) \subseteq Solo[Goal(m)]
  BY <1>2, SoloIsClosed DEF Current
<1> QED
  BY <1>1, <1>3

\* What moves keep of the types, about the make that moves.
LEMMA ActorTypes ==
    ASSUME GatesInv, NEW m \in Makes, Moves(m)
    PROVE  /\ passing[m] \in BOOLEAN /\ native[m] \in BOOLEAN /\ fresh[m] \in BOOLEAN
           /\ passing'[m] \in BOOLEAN /\ native'[m] \in BOOLEAN /\ fresh'[m] \in BOOLEAN
           /\ at[m] \in Nat \ {0} /\ GatesTypeOK
           /\ FilesOf(m) \subseteq AllFiles /\ ToolsOf(m) \subseteq AllTools
           /\ FilesOf(m)' = FilesOf(m) /\ ToolsOf(m)' = ToolsOf(m)
           /\ at'[m] = at[m] => Current(m)' = Current(m)
<1>1. GatesTypeOK /\ GatesTypeOK'
  BY MovesKeepTypes DEF GatesInv
<1> QED
  BY <1>1, SceneStays DEF GatesTypeOK, AllFiles, AllTools, Current

LEMMA BuildsAlone ==
    ASSUME GatesInv, NEW m \in Makes, Moves(m), Compile(m) \/ Link(m), NEW x,
           ScriptAsAlone(m, x), FilesAsAlone(m, x), ToolsAsAlone(m, x)
    PROVE  \E y \in {x} \union Onward(x, Current(m)) : AloneAfter(m, y)
<1> DEFINE t == Current(m).tool
<1>1. /\ Due(m, "build") /\ Current(m).op = "build" /\ t \in ToolsOf(m) /\ t \in AllTools
      /\ file' = file /\ passing' = passing /\ native' = native /\ fresh' = fresh
  <2>1. Due(m, "build") /\ file' = file /\ passing' = passing /\ native' = native /\ fresh' = fresh
    BY DEF Compile, Link, scriptVars
  <2> QED
    BY <2>1, StepTouches, ActorTypes DEF Due, Current
<1>2. /\ x.at = at[m] /\ x.passing = passing'[m] /\ x.native = native'[m] /\ x.fresh = fresh'[m]
      /\ at[m] \in Nat
  BY <1>1, ActorTypes DEF ScriptAsAlone
<1>4. ~\E f : Opened(m, f)
  BY <1>1 DEF Opened
<1>5. CASE Compile(m) /\ open' = [open EXCEPT ![m] = TRUE] /\ tool' = [tool EXCEPT ![t] = "linking"] /\ UNCHANGED <<at, fate>>
  <2>1. Current(m)' = Current(m) /\ open'[m]
    BY <1>5, ActorTypes DEF GatesTypeOK
  <2>2. ~\E f : Opened(m, f)'
    BY <1>1, <2>1 DEF Opened
  <2>3. FilesAsAlone(m, x)'
    BY <1>1, <1>4, <2>2, ActorTypes DEF FilesAsAlone, Saying
  <2>4. ASSUME NEW u \in x.ready
        PROVE  u \in ToolsOf(m) /\ (Linking(m, u)' \/ tool'[u] = "ready")
    <3>1. u \in ToolsOf(m) /\ u \in AllTools /\ (Linking(m, u) \/ tool[u] = "ready")
      BY ActorTypes DEF ToolsAsAlone
    <3>2. CASE u = t
      BY <1>1, <2>1, <3>1, <3>2 DEF Linking
    <3>3. CASE u # t
      BY <1>5, <1>1, <3>1, <3>3, ActorTypes DEF Linking, GatesTypeOK
    <3> QED
      BY <3>2, <3>3
  <2>5. ToolsAsAlone(m, x)'
    BY <2>4, ActorTypes DEF ToolsAsAlone
  <2>6. ScriptAsAlone(m, x)'
    BY <1>2, <1>5 DEF ScriptAsAlone
  <2> QED
    BY <2>3, <2>5, <2>6 DEF AloneAfter
<1>6. CASE Compile(m) /\ UNCHANGED <<at, open, tool>>
  <2>1. FilesAsAlone(m, x)' /\ ToolsAsAlone(m, x)'
    BY <1>1, <1>6, EvidenceStays, ActorTypes
  <2>2. ScriptAsAlone(m, x)'
    BY <1>2, <1>6 DEF ScriptAsAlone
  <2> QED
    BY <2>1, <2>2 DEF AloneAfter
<1>7. CASE Compile(m) /\ tool[t] \in Current(m).without /\ Advance(m) /\ UNCHANGED <<open, tool, fate>>
  <2> DEFINE y == Lone(x.at + 1, x.passing, x.native, x.fresh, x.mine, x.ready)
  <2>1. y \in Onward(x, Current(m))
    BY <1>1, <1>7 DEF Onward
  <2>2. y.at = at'[m] /\ y.passing = x.passing /\ y.native = x.native /\ y.fresh = x.fresh
    BY <1>2, <1>7, ActorTypes DEF Lone, Advance, GatesTypeOK
  <2>3. y.mine = x.mine /\ y.ready = x.ready
    BY DEF Lone
  <2>4. ~open[m] /\ ~open'[m]
    BY <1>7 DEF Compile
  <2>5. FilesAsAlone(m, y)' /\ ToolsAsAlone(m, y)'
    BY <1>1, <1>7, <2>3, <2>4, EvidenceStays, ActorTypes
  <2>6. ScriptAsAlone(m, y)'
    BY <1>2, <2>2 DEF ScriptAsAlone
  <2> QED
    BY <2>1, <2>5, <2>6 DEF AloneAfter
<1>8. CASE Link(m)
  <2>1. PICK y \in Onward(x, Current(m)) :
           y = Lone(x.at + 1, x.passing, x.native, x.fresh, x.mine, x.ready \union {t})
    BY <1>1 DEF Onward
  <2>2. y.at = at'[m] /\ y.passing = x.passing /\ y.native = x.native /\ y.fresh = x.fresh
    BY <2>1, <1>2, <1>8, ActorTypes DEF Lone, Link, Advance, GatesTypeOK
  <2>3. y.mine = x.mine /\ y.ready = x.ready \union {t}
    BY <2>1 DEF Lone
  <2>4. ~open'[m] /\ tool' = [tool EXCEPT ![t] = "ready"]
    BY <1>8, ActorTypes DEF Link, GatesTypeOK
  <2>5. FilesAsAlone(m, y)'
    BY <1>1, <1>4, <2>3, <2>4, ActorTypes DEF FilesAsAlone, Saying, Opened
  <2>6. ASSUME NEW u \in y.ready
        PROVE  u \in ToolsOf(m) /\ tool'[u] = "ready"
    <3>1. CASE u = t
      BY <1>1, <2>4, <3>1, ActorTypes DEF GatesTypeOK
    <3>2. CASE u # t
      <4>1. u \in ToolsOf(m) /\ u \in AllTools /\ tool[u] = "ready"
        BY <2>3, <2>6, <3>2, ActorTypes DEF ToolsAsAlone, Linking
      <4> QED
        BY <2>4, <3>2, <4>1, ActorTypes DEF GatesTypeOK
    <3> QED
      BY <3>1, <3>2
  <2>7. ToolsAsAlone(m, y)'
    BY <2>6, ActorTypes DEF ToolsAsAlone
  <2>8. ScriptAsAlone(m, y)'
    BY <1>2, <2>2 DEF ScriptAsAlone
  <2> QED
    BY <2>1, <2>5, <2>7, <2>8 DEF AloneAfter
<1> QED
  BY <1>5, <1>6, <1>7, <1>8 DEF Compile

\* A script goes on with nothing open: what it has made stays as it is.
LEMMA ScriptGoesOn ==
    ASSUME GatesInv, NEW m \in Makes, Moves(m), NEW x, NEW y,
           FilesAsAlone(m, x), ToolsAsAlone(m, x), y.mine = x.mine, y.ready = x.ready,
           Current(m).op \notin {"build", "write"}, open' = open, file' = file, tool' = tool,
           y.at = at'[m], y.passing = passing'[m], y.native = native'[m], y.fresh = fresh'[m]
    PROVE  AloneAfter(m, y)
<1>1. ~open[m] /\ ~open'[m]
  BY NothingOpen
<1>2. FilesAsAlone(m, y)' /\ ToolsAsAlone(m, y)'
  BY <1>1, EvidenceStays, ActorTypes
<1> QED
  BY <1>2 DEF AloneAfter, ScriptAsAlone

\* A tool that the make has built is ready, and answers as one that is.
LEMMA AnswersAreAlone ==
    ASSUME GatesInv, NEW m \in Makes, Moves(m), NEW x, ToolsAsAlone(m, x), Due(m, "call"),
           NEW reply \in Outcomes(Current(m).bridge, tool[Current(m).tool]), reply \in Replies,
           NEW effect \in Current(m).effect[reply], effect # "raise"
    PROVE  [reply |-> reply, effect |-> effect] \in Answers(x, Current(m))
<1> DEFINE t == Current(m).tool
           b == Current(m).bridge
<1>1. ~open[m] /\ t \in AllTools
  BY NothingOpen, StepTouches, ActorTypes DEF Due, Current
<1>2. tool[t] \in Conditions
  BY <1>1, ActorTypes DEF GatesTypeOK
<1>3. reply # "raise"
  BY DEF Replies
<1>4. reply \in WhenReady[b] \union (IF t \in x.ready THEN {} ELSE WhenAbsent[b])
  <2>1. CASE t \in x.ready
    <3>1. tool[t] = "ready"
      BY <1>1, <2>1 DEF ToolsAsAlone, Linking
    <3> QED
      BY <3>1 DEF Outcomes
  <2>2. CASE t \notin x.ready
    <3>1. CASE tool[t] = "ready"
      BY <3>1 DEF Outcomes
    <3>2. CASE tool[t] = "absent"
      BY <2>2, <3>2 DEF Outcomes
    <3>3. CASE tool[t] = "linking"
      BY <2>2, <3>3, <1>3 DEF Outcomes
    <3> QED
      BY <1>2, <3>1, <3>2, <3>3 DEF Conditions
  <2> QED
    BY <2>1, <2>2
<1> HIDE DEF t, b
<1> QED
  BY <1>4 DEF Answers, t, b

\* What is read is what the make has made itself, or what was there before.
LEMMA FindingsAreAlone ==
    ASSUME GatesInv, NEW m \in Makes, Moves(m), NEW x, FilesAsAlone(m, x), Load(m), fate'[m] # "raised"
    PROVE  \E e \in Findings(x, Current(m)) :
              /\ e.effect # "raise" /\ Affected(m, e.effect)
              /\ (fresh'[m] <=> fresh[m] /\ e.fresh)
<1> DEFINE f == Current(m).file
           own == {r \in x.mine : r.file = f}
           found == CASE file[f].state = "absent" -> Current(m).missing
                      [] file[f].state = "torn"   -> Current(m).torn
                      [] file[f].state = "whole"  -> IF file[f].passed THEN "pass" ELSE Current(m).failed
           made == Whole(f) => (Whole(f) /\ file[f].by = m /\ file[f].fresh)
<1>1. Affected(m, found) /\ (fresh'[m] <=> fresh[m] /\ made)
  BY ActorTypes DEF Load, GatesTypeOK
<1>2. found # "raise"
  BY <1>1, EffectMoves DEF GatesInv
<1>3. f \in FilesOf(m) /\ ~open[m] /\ Current(m).op = "read"
  BY StepTouches, NothingOpen, ActorTypes DEF Load, Due, Current
<1>4. ~Opened(m, f)
  BY <1>3 DEF Opened
<1>5. CASE own # {}
  <2>1. PICK r \in x.mine : r.file = f
    BY <1>5
  <2>2. file[f] = Saying(m, r)
    BY <1>4, <2>1 DEF FilesAsAlone
  <2>3. found = IF r.passed THEN "pass" ELSE Current(m).failed
    BY <2>2 DEF Saying
  <2>4. made <=> r.fresh
    BY <2>2 DEF Saying, Whole
  <2> DEFINE e == [effect |-> IF r.passed THEN "pass" ELSE Current(m).failed, fresh |-> r.fresh]
  <2>5. e \in Findings(x, Current(m))
    BY <1>5, <2>1 DEF Findings
  <2>6. e.effect = found /\ e.fresh = r.fresh
    BY <2>3
  <2> HIDE DEF e, found, made
  <2> QED
    BY <1>1, <1>2, <2>4, <2>5, <2>6
<1>6. CASE own = {}
  <2>1. file[f] \in {Absent, Earlier}
    BY <1>3, <1>4, <1>6 DEF FilesAsAlone
  <2>2. Findings(x, Current(m)) = {[effect |-> Current(m).missing, fresh |-> TRUE], [effect |-> "pass", fresh |-> FALSE]}
    BY <1>6 DEF Findings
  <2>3. CASE file[f] = Absent
    <3>1. found = Current(m).missing /\ made
      BY <2>3 DEF Absent, Earlier, Whole
    <3> HIDE DEF found, made
    <3> QED
      BY <1>1, <1>2, <2>2, <3>1
  <2>4. CASE file[f] = Earlier
    <3>1. found = "pass" /\ ~made
      BY <2>4, NoMakeIsBefore DEF Earlier, Whole
    <3> HIDE DEF found, made
    <3> QED
      BY <1>1, <1>2, <2>2, <3>1
  <2> QED
    BY <2>1, <2>3, <2>4
<1> QED
  BY <1>5, <1>6

LEMMA VerdictsAlone ==
    ASSUME GatesInv, NEW m \in Makes, Moves(m), fate'[m] # "raised", Call(m) \/ Load(m) \/ Judge(m) \/ Branch(m), NEW x,
           ScriptAsAlone(m, x), FilesAsAlone(m, x), ToolsAsAlone(m, x)
    PROVE  \E y \in {x} \union Onward(x, Current(m)) : AloneAfter(m, y)
<1>1. /\ x.at = at[m] /\ x.passing = passing[m] /\ x.native = native[m] /\ x.fresh = fresh[m]
      /\ passing[m] \in BOOLEAN /\ native[m] \in BOOLEAN /\ fresh[m] \in BOOLEAN
      /\ passing'[m] \in BOOLEAN /\ native'[m] \in BOOLEAN /\ fresh'[m] \in BOOLEAN
      /\ GatesTypeOK
  BY ActorTypes DEF ScriptAsAlone
<1>2. /\ open' = open /\ file' = file /\ tool' = tool
      /\ Current(m).op \in {"call", "read", "judge", "branch"}
  BY DEF Call, Load, Judge, Branch, Due, Current
<1>3. \A y : /\ y \in {x} \union Onward(x, Current(m)) /\ y.mine = x.mine /\ y.ready = x.ready
             /\ y.at = at'[m] /\ y.passing = passing'[m] /\ y.native = native'[m] /\ y.fresh = fresh'[m]
             => AloneAfter(m, y)
  BY <1>2, ScriptGoesOn
<1>4. CASE Call(m)
  <2>1. Due(m, "call") /\ Current(m).op = "call" /\ fresh' = fresh
    BY <1>4 DEF Call, Due, Current
  <2>2. CASE UNCHANGED <<at, passing, native>>
    BY <1>1, <1>3, <2>1, <2>2
  <2>3. ASSUME NEW reply \in Outcomes(Current(m).bridge, tool[Current(m).tool]), reply \in Replies,
               NEW effect \in Current(m).effect[reply], Affected(m, effect),
               native' = [native EXCEPT ![m] = @ /\ reply = "native"]
        PROVE  \E y \in {x} \union Onward(x, Current(m)) : AloneAfter(m, y)
    <3>1. effect # "raise" /\ at'[m] = at[m] + 1 /\ (passing'[m] <=> passing[m] /\ effect = "pass")
      BY <1>1, <2>3, EffectMoves
    <3>2. native'[m] <=> native[m] /\ reply = "native"
      BY <1>1, <2>3 DEF GatesTypeOK
    <3> DEFINE a == [reply |-> reply, effect |-> effect]
               y == Lone(x.at + 1, x.passing /\ a.effect = "pass", x.native /\ a.reply = "native", x.fresh, x.mine, x.ready)
    <3>3. a \in Answers(x, Current(m))
      BY <2>1, <2>3, <3>1, AnswersAreAlone
    <3>4. y \in Onward(x, Current(m))
      BY <2>1, <3>3 DEF Onward
    <3>5. y.at = at'[m] /\ y.mine = x.mine /\ y.ready = x.ready /\ y.fresh = x.fresh
      BY <1>1, <3>1 DEF Lone
    <3>6. y.passing = passing'[m] /\ y.native = native'[m]
      BY <1>1, <3>1, <3>2 DEF Lone
    <3> HIDE DEF y
    <3> QED
      BY <1>1, <1>3, <2>1, <3>4, <3>5, <3>6
  <2>4. ~Affected(m, "raise")
    BY <1>1, EffectMoves
  <2> QED
    BY <1>4, <2>2, <2>3, <2>4 DEF Call
<1>5. CASE Load(m)
  <2>1. Current(m).op = "read" /\ native' = native
    BY <1>5 DEF Load, Due, Current
  <2>2. PICK e \in Findings(x, Current(m)) :
           e.effect # "raise" /\ Affected(m, e.effect) /\ (fresh'[m] <=> fresh[m] /\ e.fresh)
    BY <1>5, FindingsAreAlone
  <2>3. at'[m] = at[m] + 1 /\ (passing'[m] <=> passing[m] /\ e.effect = "pass")
    BY <1>1, <2>2, EffectMoves
  <2> DEFINE y == Lone(x.at + 1, x.passing /\ e.effect = "pass", x.native, x.fresh /\ e.fresh, x.mine, x.ready)
  <2>4. y \in Onward(x, Current(m))
    BY <2>1, <2>2 DEF Onward
  <2>5. y.at = at'[m] /\ y.mine = x.mine /\ y.ready = x.ready /\ y.native = x.native
    BY <1>1, <2>3 DEF Lone
  <2>6. y.passing = passing'[m] /\ y.fresh = fresh'[m]
    BY <1>1, <2>2, <2>3 DEF Lone
  <2> HIDE DEF y
  <2> QED
    BY <1>1, <1>3, <2>1, <2>4, <2>5, <2>6
<1>6. CASE Judge(m)
  <2>1. Current(m).op = "judge" /\ native' = native /\ fresh' = fresh
    BY <1>6 DEF Judge, Due, Current
  <2>2. PICK effect \in Current(m).effects : Affected(m, effect)
    BY <1>6 DEF Judge
  <2>3. effect # "raise" /\ at'[m] = at[m] + 1 /\ (passing'[m] <=> passing[m] /\ effect = "pass")
    BY <1>1, <2>2, EffectMoves
  <2> DEFINE y == Lone(x.at + 1, x.passing /\ effect = "pass", x.native, x.fresh, x.mine, x.ready)
  <2>4. y \in Onward(x, Current(m))
    BY <2>1, <2>2, <2>3 DEF Onward
  <2>5. y.at = at'[m] /\ y.mine = x.mine /\ y.ready = x.ready /\ y.native = x.native /\ y.fresh = x.fresh
    BY <1>1, <2>3 DEF Lone
  <2>6. y.passing = passing'[m]
    BY <1>1, <2>3 DEF Lone
  <2> HIDE DEF y
  <2> QED
    BY <1>1, <1>3, <2>1, <2>4, <2>5, <2>6
<1>7. CASE Branch(m)
  <2>1. Current(m).op = "branch" /\ native' = native /\ fresh' = fresh
    BY <1>7 DEF Branch, Due, Current
  <2>2. Onward(x, Current(m)) =
           {Lone(x.at + 1 + Current(m).skip, x.passing /\ Current(m).otherwise = "pass", x.native, x.fresh, x.mine, x.ready)}
               \union (IF x.passing THEN {Lone(x.at + 1, x.passing, x.native, x.fresh, x.mine, x.ready)} ELSE {})
    BY <2>1 DEF Onward
  <2>3. CASE passing[m] /\ Affected(m, "pass")
    <3> DEFINE y == Lone(x.at + 1, x.passing, x.native, x.fresh, x.mine, x.ready)
    <3>1. y \in Onward(x, Current(m))
      BY <1>1, <2>2, <2>3
    <3>2. at'[m] = at[m] + 1 /\ (passing'[m] <=> passing[m])
      BY <1>1, <2>3, EffectMoves
    <3>3. /\ y.at = at'[m] /\ y.mine = x.mine /\ y.ready = x.ready /\ y.native = x.native /\ y.fresh = x.fresh
          /\ y.passing = x.passing
      BY <1>1, <3>2 DEF Lone
    <3> HIDE DEF y
    <3> QED
      BY <1>1, <1>3, <2>1, <3>1, <3>2, <3>3
  <2>4. CASE /\ at' = [at EXCEPT ![m] = @ + 1 + Current(m).skip]
             /\ passing' = [passing EXCEPT ![m] = @ /\ Current(m).otherwise = "pass"]
    <3>1. PICK y \in Onward(x, Current(m)) :
             y = Lone(x.at + 1 + Current(m).skip, x.passing /\ Current(m).otherwise = "pass", x.native, x.fresh, x.mine, x.ready)
      BY <2>2
    <3>2. at'[m] = at[m] + 1 + Current(m).skip /\ (passing'[m] <=> passing[m] /\ Current(m).otherwise = "pass")
      BY <1>1, <2>4 DEF GatesTypeOK
    <3>3. y.at = at'[m] /\ y.mine = x.mine /\ y.ready = x.ready /\ y.native = x.native /\ y.fresh = x.fresh
      BY <1>1, <3>1, <3>2 DEF Lone
    <3>4. y.passing = passing'[m]
      BY <1>1, <3>1, <3>2 DEF Lone
    <3> QED
      BY <1>1, <1>3, <2>1, <3>3, <3>4
  <2> QED
    BY <1>7, <2>3, <2>4 DEF Branch
<1> QED
  BY <1>4, <1>5, <1>6, <1>7

LEMMA EndsAlone ==
    ASSUME GatesInv, NEW m \in Makes, Moves(m), ExitScript(m) \/ Finish(m) \/ Interrupt(m), NEW x,
           ScriptAsAlone(m, x), FilesAsAlone(m, x), ToolsAsAlone(m, x)
    PROVE  \E y \in {x} \union (IF at[m] <= Len(agenda[m]) THEN Onward(x, Current(m)) ELSE {}) : AloneAfter(m, y)
<1>1. /\ x.at = at[m] /\ x.passing = passing[m] /\ x.native = native[m] /\ x.fresh = fresh[m] /\ GatesTypeOK
      /\ passing[m] \in BOOLEAN
  BY ActorTypes DEF ScriptAsAlone
<1>2. CASE UNCHANGED <<at, open, scriptVars, file, tool>>
  <2>1. Current(m)' = Current(m)
    BY <1>2, ActorTypes
  <2>2. FilesAsAlone(m, x)' /\ ToolsAsAlone(m, x)'
    BY <1>2, <2>1, EvidenceStays, ActorTypes
  <2> QED
    BY <1>1, <1>2, <2>2 DEF AloneAfter, ScriptAsAlone, scriptVars
<1>3. CASE ExitScript(m) /\ ~(Current(m).loud /\ ~passing[m])
  <2>1. /\ at[m] <= Len(agenda[m]) /\ Current(m).op = "exit" /\ open' = open /\ file' = file /\ tool' = tool
        /\ at'[m] = at[m] + 1 /\ passing'[m] = TRUE /\ native'[m] = TRUE /\ fresh'[m] = TRUE
    BY <1>1, <1>3 DEF ExitScript, Advance, Due, Current, GatesTypeOK
  <2> DEFINE y == Lone(x.at + 1, TRUE, TRUE, TRUE, x.mine, x.ready)
  <2>2. y \in Onward(x, Current(m))
    BY <1>1, <1>3, <2>1 DEF Onward
  <2>3. /\ y.at = at'[m] /\ y.mine = x.mine /\ y.ready = x.ready
        /\ y.passing = passing'[m] /\ y.native = native'[m] /\ y.fresh = fresh'[m]
    BY <1>1, <2>1 DEF Lone
  <2> HIDE DEF y
  <2>4. AloneAfter(m, y)
    BY <2>1, <2>3, ScriptGoesOn
  <2> QED
    BY <2>1, <2>2, <2>4
<1> QED
  BY <1>2, <1>3 DEF ExitScript, Finish, Interrupt

LEMMA WritesAlone ==
    ASSUME GatesInv, NEW m \in Makes, Moves(m), OpenFile(m) \/ FillFile(m), NEW x,
           ScriptAsAlone(m, x), FilesAsAlone(m, x), ToolsAsAlone(m, x)
    PROVE  \E y \in {x} \union Onward(x, Current(m)) : AloneAfter(m, y)
<1>1. PICK g : g = Current(m).file
  OBVIOUS
<1>2. /\ Due(m, "write") /\ Current(m).op = "write" /\ g \in FilesOf(m) /\ g \in AllFiles
      /\ tool' = tool /\ passing' = passing /\ native' = native /\ fresh' = fresh
  <2>1. Due(m, "write") /\ tool' = tool /\ passing' = passing /\ native' = native /\ fresh' = fresh
    BY DEF OpenFile, FillFile, scriptVars
  <2> QED
    BY <1>1, <2>1, StepTouches, ActorTypes DEF Due, Current
<1>3. /\ x.at = at[m] /\ x.passing = passing[m] /\ x.native = native[m] /\ x.fresh = fresh[m]
      /\ GatesTypeOK
  BY ActorTypes DEF ScriptAsAlone
<1>4. \A t \in x.ready : t \in ToolsOf(m) /\ tool[t] = "ready"
  BY <1>2 DEF ToolsAsAlone, Linking
<1>5. CASE OpenFile(m)
  <2>1. at' = at /\ open'[m] /\ ~open[m] /\ file' = [file EXCEPT ![g] = Torn]
    BY <1>1, <1>3, <1>5 DEF OpenFile, GatesTypeOK
  <2>2. Current(m)' = Current(m)
    BY <2>1, ActorTypes
  <2>3. (\A f : Opened(m, f)' <=> f = g) /\ ~\E f : Opened(m, f)
    BY <1>1, <1>2, <2>1, <2>2 DEF Opened
  <2>4. /\ file'[g] = Torn
        /\ \A f \in FilesOf(m) \ {g} : file'[f] = file[f]
    BY <1>2, <1>3, <2>1, ActorTypes DEF GatesTypeOK
  <2>5. FilesAsAlone(m, x)'
    BY <2>3, <2>4, ActorTypes DEF FilesAsAlone, Saying
  <2>6. ToolsAsAlone(m, x)'
    BY <1>2, <1>4, ActorTypes DEF ToolsAsAlone
  <2>7. ScriptAsAlone(m, x)'
    BY <1>2, <1>3, <2>1 DEF ScriptAsAlone
  <2> QED
    BY <2>5, <2>6, <2>7 DEF AloneAfter
<1>6. CASE FillFile(m)
  <2>1. Opened(m, g) /\ file[g] = Torn
    BY <1>1, <1>2, <1>6 DEF FillFile, Opened, FilesAsAlone
  <2>2. ~Whole(g)
    BY <2>1 DEF Whole, Torn, Earlier
  <2>3. PICK says \in Current(m).says :
           file' = [file EXCEPT ![g] = [state |-> "whole", by |-> m, passed |-> passing[m] /\ says = "pass",
                                        native |-> native[m], fresh |-> fresh[m]]]
    BY <1>1, <1>6, <2>2 DEF FillFile
  <2> DEFINE text == Text(g, x.passing /\ says = "pass", x.native, x.fresh)
  <2>4. PICK y \in Onward(x, Current(m)) :
           y = Lone(x.at + 1, x.passing, x.native, x.fresh, {r \in x.mine : r.file # g} \union {text}, x.ready)
    BY <1>1, <1>2, <2>3 DEF Onward
  <2>5. file' = [file EXCEPT ![g] = Saying(m, text)]
    <3>1. Saying(m, text) = [state |-> "whole", by |-> m, passed |-> passing[m] /\ says = "pass",
                             native |-> native[m], fresh |-> fresh[m]]
      BY <1>3 DEF Saying, Text
    <3> QED
      BY <2>3, <3>1
  <2>6. ~open'[m] /\ at'[m] = at[m] + 1
    BY <1>3, <1>6 DEF FillFile, Advance, GatesTypeOK
  <2>7. /\ y.at = at'[m] /\ y.passing = passing'[m] /\ y.native = native'[m] /\ y.fresh = fresh'[m]
        /\ y.mine = {r \in x.mine : r.file # g} \union {text} /\ y.ready = x.ready
    BY <1>2, <1>3, <2>4, <2>6 DEF Lone
  <2>8. /\ \A f \in FilesOf(m) \ {g} : file'[f] = file[f]
        /\ file'[g] = Saying(m, text) /\ text.file = g
    BY <1>2, <1>3, <2>5, ActorTypes DEF GatesTypeOK, Text
  <2>9. \A f : ~Opened(m, f)' /\ (Opened(m, f) => f = g)
    BY <1>1, <2>6 DEF Opened
  <2>10. ASSUME NEW r \in y.mine
         PROVE  r.file \in FilesOf(m) /\ file'[r.file] = Saying(m, r)
    <3>1. CASE r = text
      BY <1>2, <2>8, <3>1
    <3>2. CASE r \in x.mine /\ r.file # g
      BY <2>8, <2>9, <3>2 DEF FilesAsAlone
    <3> QED
      BY <2>7, <3>1, <3>2
  <2>11. ASSUME NEW f \in FilesOf(m)
         PROVE  file'[f] \in {Absent, Earlier} \/ \E r \in y.mine : r.file = f
    <3>1. CASE f = g
      BY <2>7, <2>8, <3>1
    <3>2. CASE f # g
      BY <2>7, <2>8, <2>9, <3>2 DEF FilesAsAlone
    <3> QED
      BY <3>1, <3>2
  <2>12. Absent' = Absent /\ Earlier' = Earlier /\ \A r : Saying(m, r)' = Saying(m, r)
    BY DEF Absent, Earlier, Saying
  <2>13. FilesAsAlone(m, y)'
    BY <2>9, <2>10, <2>11, <2>12, ActorTypes DEF FilesAsAlone
  <2>14. ToolsAsAlone(m, y)'
    BY <1>2, <1>4, <2>7, ActorTypes DEF ToolsAsAlone
  <2>15. ScriptAsAlone(m, y)'
    BY <2>7 DEF ScriptAsAlone
  <2> QED
    BY <2>13, <2>14, <2>15 DEF AloneAfter
<1> QED
  BY <1>5, <1>6

-----------------------------------------------------------------------------
\* A make ends green at the end of its plan, and badly at a build or at the
\* end of a script whose verdict is bad.
LEMMA EndsKeepAgreeing ==
    ASSUME GatesInv, NEW m \in Makes, Moves(m), NEW o \in Makes
    PROVE  /\ ~Busy(o)' => fate'[o] = "green"
           /\ Green(o)' => at'[o] > Len(agenda'[o])
           /\ fate'[o] = "failed" =>
                  \/ Current(o)'.op = "build"
                  \/ /\ Current(o)'.op = "exit" /\ at'[o] <= Len(agenda'[o])
                     /\ Current(o)'.loud /\ ~passing'[o]
           /\ open'[o] => at'[o] <= Len(agenda'[o]) /\ Current(o)'.op \in {"build", "write"}
<1>1. CASE o # m
  BY <1>1, MovesAreOwn, OthersStay, SceneStays DEF GatesInv, EndsAgree, Green
<1>2. CASE o = m
  <2> USE <1>2
  <2>1. Busy(m)' /\ Running(m) /\ agenda' = agenda /\ (at'[m] = at[m] => Current(m)' = Current(m))
    BY ActorIsBusy, SceneStays, AgendaStays, ActorTypes DEF GatesInv
  <2>2. ASSUME Green(m)'
        PROVE  at'[m] > Len(agenda'[m])
    <3>1. fate[m] = "running" /\ fate'[m] = "green"
      BY <2>1, <2>2 DEF Green, Running
    <3>2. Finish(m)
      BY <3>1, EffectMoves, ActorTypes
      DEF Moves, Compile, Link, Call, Load, Judge, Branch, OpenFile, FillFile, ExitScript, Interrupt, Ends, GatesTypeOK
    <3> QED
      BY <2>1, <3>2 DEF Finish
  <2>3. ASSUME fate'[m] = "failed"
        PROVE  \/ Current(m)'.op = "build"
               \/ /\ Current(m)'.op = "exit" /\ at'[m] <= Len(agenda'[m])
                  /\ Current(m)'.loud /\ ~passing'[m]
    <3>1. fate[m] = "running" /\ fate'[m] = "failed"
      BY <2>1, <2>3 DEF Running
    <3>2. \/ Compile(m) /\ at' = at
          \/ ExitScript(m) /\ Current(m).loud /\ ~passing[m] /\ at' = at /\ passing' = passing
      BY <3>1, EffectMoves, ActorTypes
      DEF Moves, Compile, Link, Call, Load, Judge, Branch, OpenFile, FillFile, ExitScript, Finish, Interrupt, Ends,
          GatesTypeOK, scriptVars
    <3> QED
      BY <2>1, <3>2 DEF Compile, ExitScript, Due, Current
  <2>4. ASSUME open'[m]
        PROVE  at'[m] <= Len(agenda'[m]) /\ Current(m)'.op \in {"build", "write"}
    <3>1. CASE at' = at /\ open' = open
      BY <2>1, <2>4, <3>1 DEF GatesInv, EndsAgree
    <3>2. CASE at' = at /\ (Due(m, "build") \/ Due(m, "write"))
      BY <2>1, <3>2 DEF Due, Current
    <3>3. ~open[m] => open' # open
      BY <2>4
    <3>4. CASE open' = open /\ Current(m).op \in {"call", "read", "judge", "branch", "exit"}
      BY <2>4, <3>4, NothingOpen
    <3>5. \/ at' = at /\ open' = open
          \/ at' = at /\ (Due(m, "build") \/ Due(m, "write"))
          \/ open' = open /\ Current(m).op \in {"call", "read", "judge", "branch", "exit"}
      BY <2>4, ActorTypes
      DEF Moves, Compile, Link, Call, Load, Judge, Branch, OpenFile, FillFile, ExitScript, Finish, Interrupt,
          Due, Current, GatesTypeOK
    <3> QED
      BY <3>1, <3>2, <3>4, <3>5
  <2> QED
    BY <2>1, <2>2, <2>3, <2>4
<1> QED
  BY <1>1, <1>2

LEMMA MovesKeepInv ==
    ASSUME GatesInv, NEW m \in Makes, Moves(m)
    PROVE  GatesInv'
<1>1. GatesTypeOK'
  BY MovesKeepTypes DEF GatesInv
<1>2. EndsAgree'
  BY EndsKeepAgreeing DEF EndsAgree
<1>3. ASSUME NEW o \in Makes, Busy(o)', fate'[o] # "raised"
      PROVE  \E x \in InCompany[Goal(o)]' : Follows(o, x)'
  BY <1>3, ActorFollows, OthersFollow
<1>4. ASSUME NEW o \in Makes, Busy(o)', fate'[o] # "raised", Undisturbed(o)'
      PROVE  \E x \in Solo[Goal(o)]' : ScriptAsAlone(o, x)' /\ FilesAsAlone(o, x)' /\ ToolsAsAlone(o, x)'
  <2>1. CASE o # m
    BY <1>4, <2>1, OthersStandAlone
  <2>2. CASE o = m
    <3>1. Undisturbed(m) /\ Goal(m)' = Goal(m)
      BY <1>4, <2>2, SceneStays DEF GatesInv
    <3>2. PICK x \in Solo[Goal(m)] :
             /\ ScriptAsAlone(m, x) /\ FilesAsAlone(m, x) /\ ToolsAsAlone(m, x)
             /\ at[m] <= Len(agenda[m]) => Onward(x, Current(m)) \subseteq Solo[Goal(m)]
      BY <3>1, ActorIsAlone
    <3>3. ExitScript(m) \/ Finish(m) \/ Interrupt(m) \/ at[m] <= Len(agenda[m])
      BY DEF Moves, Compile, Link, Call, Load, Judge, Branch, OpenFile, FillFile, Due
    <3>4. \E y \in {x} \union (IF at[m] <= Len(agenda[m]) THEN Onward(x, Current(m)) ELSE {}) : AloneAfter(m, y)
      <4>1. CASE ExitScript(m) \/ Finish(m) \/ Interrupt(m)
        BY <3>2, <4>1, EndsAlone
      <4>2. CASE Compile(m) \/ Link(m)
        BY <3>2, <3>3, <4>2, BuildsAlone DEF Compile, Link, Due
      <4>3. CASE Call(m) \/ Load(m) \/ Judge(m) \/ Branch(m)
        BY <1>4, <2>2, <3>2, <4>3, VerdictsAlone DEF Call, Load, Judge, Branch, Due
      <4>4. CASE OpenFile(m) \/ FillFile(m)
        BY <3>2, <4>4, WritesAlone DEF OpenFile, FillFile, Due
      <4> QED
        BY <4>1, <4>2, <4>3, <4>4 DEF Moves
    <3> QED
      BY <2>2, <3>1, <3>2, <3>4 DEF AloneAfter
  <2> QED
    BY <2>1, <2>2
<1>5. EachAmongOthers' /\ EachAsAlone'
  BY <1>3, <1>4 DEF EachAmongOthers, EachAsAlone
<1> QED
  BY <1>1, <1>2, <1>5 DEF GatesInv

\* Every make begins where its plan does, with files and tools of before.
LEMMA InitEstablishes ==
    ASSUME MakeInit
    PROVE  GatesInv
<1>1. /\ occasion \in Occasions
      /\ agenda = [m \in Makes |-> IF Goal(m) = "nothing" THEN <<>> ELSE Plans[Goal(m)]]
      /\ at = [m \in Makes |-> 1] /\ open = [m \in Makes |-> FALSE]
      /\ passing = [m \in Makes |-> TRUE] /\ native = [m \in Makes |-> TRUE] /\ fresh = [m \in Makes |-> TRUE]
      /\ fate = [m \in Makes |-> IF Goal(m) = "nothing" THEN "green" ELSE "running"]
  BY DEF MakeInit
<1>2. PICK text \in {Absent, Earlier}, condition \in Conditions :
         file = [f \in AllFiles |-> text] /\ tool = [t \in AllTools |-> condition]
  BY DEF MakeInit, AllFiles, AllTools, Conditions
<1>3. Absent \in Contents /\ Earlier \in Contents /\ text.by \notin Makes
  <2>1. Absent.by = "before" /\ Earlier.by = "before"
    BY DEF Absent, Earlier
  <2>2. Absent \in Contents /\ Earlier \in Contents
    BY DEF Absent, Earlier, Contents
  <2> QED
    BY <1>2, <2>1, <2>2, NoMakeIsBefore
<1>4. GatesTypeOK
  BY <1>1, <1>2, <1>3 DEF GatesTypeOK, Fates
<1>5. ASSUME NEW m \in Makes
      PROVE  /\ at[m] = 1 /\ ~open[m] /\ passing[m] = TRUE /\ native[m] = TRUE /\ fresh[m] = TRUE
             /\ fate[m] = IF Busy(m) THEN "running" ELSE "green"
             /\ Busy(m) => Goal(m) \in DOMAIN Plans
             /\ FilesOf(m) \subseteq AllFiles
  BY <1>1, <1>4, AgendaIsPlan DEF Busy, AllFiles
<1>6. EndsAgree
  BY <1>5 DEF EndsAgree, Green
<1>7. EachAmongOthers
  <2>1. ASSUME NEW m \in Makes, Busy(m)
        PROVE  Follows(m, Among(1, TRUE, {}))
    BY <1>2, <1>3, <1>5 DEF Follows, Among, Own, Whole
  <2> QED
    BY <1>5, <2>1, CompanyIsClosed DEF EachAmongOthers
<1>8. EachAsAlone
  <2>1. ASSUME NEW m \in Makes, Busy(m)
        PROVE  ScriptAsAlone(m, FirstStep) /\ FilesAsAlone(m, FirstStep) /\ ToolsAsAlone(m, FirstStep)
    <3>1. ScriptAsAlone(m, FirstStep)
      BY <1>5 DEF ScriptAsAlone, FirstStep, Lone
    <3>2. FirstStep.mine = {} /\ FirstStep.ready = {}
      BY DEF FirstStep, Lone
    <3>3. \A f \in FilesOf(m) : file[f] \in {Absent, Earlier} /\ ~Opened(m, f)
      BY <1>2, <1>5 DEF Opened
    <3> QED
      BY <3>1, <3>2, <3>3 DEF FilesAsAlone, ToolsAsAlone
  <2> QED
    BY <1>5, <2>1, SoloIsClosed DEF EachAsAlone
<1> QED
  BY <1>4, <1>6, <1>7, <1>8 DEF GatesInv

\* Any number of makes at once: each is where its plan leads to whatever the
\* others do, and where it leads to alone while no other is in its way.
THEOREM GatesCorrect == MakeSpec => []GatesInv
<1>1. MakeInit => GatesInv
  BY InitEstablishes
<1>2. GatesInv /\ [MakeNext]_makeVars => GatesInv'
  <2> SUFFICES ASSUME GatesInv, [MakeNext]_makeVars PROVE GatesInv'
    OBVIOUS
  <2>1. CASE MakeNext
    BY <2>1, MovesKeepInv DEF MakeNext
  <2>2. CASE UNCHANGED makeVars
    <3>1. GatesTypeOK' /\ EndsAgree'
      <4>1. GatesTypeOK'
        BY <2>2
        DEF GatesInv, GatesTypeOK, makeVars, scriptVars, Goal, AllFiles, AllTools, FilesOf, ToolsOf, Steps
      <4>2. EndsAgree'
        BY <2>2 DEF GatesInv, EndsAgree, makeVars, scriptVars, Goal, Busy, Green, Current
      <4> QED
        BY <4>1, <4>2
    <3>2. EachAmongOthers'
      BY <2>2
      DEF GatesInv, EachAmongOthers, makeVars, scriptVars, Goal, Busy, AllFiles, FilesOf, Steps, Follows, Own, Whole
    <3>3. EachAsAlone'
      <4>1. ASSUME NEW m \in Makes
            PROVE  /\ Goal(m)' = Goal(m) /\ (Busy(m)' <=> Busy(m)) /\ fate'[m] = fate[m]
                   /\ (Undisturbed(m)' <=> Undisturbed(m))
                   /\ FilesOf(m)' = FilesOf(m) /\ ToolsOf(m)' = ToolsOf(m)
                   /\ open' = open /\ Current(m)' = Current(m) /\ file' = file /\ tool' = tool
        BY <2>2
        DEF makeVars, scriptVars, Goal, Busy, Undisturbed, Wrote, Saved, Built, FilesOf, ToolsOf, Steps, Current
      <4>2. ASSUME NEW m \in Makes, Busy(m)', fate'[m] # "raised", Undisturbed(m)'
            PROVE  \E x \in Solo[Goal(m)]' : ScriptAsAlone(m, x)' /\ FilesAsAlone(m, x)' /\ ToolsAsAlone(m, x)'
        <5>1. PICK x \in Solo[Goal(m)] : ScriptAsAlone(m, x) /\ FilesAsAlone(m, x) /\ ToolsAsAlone(m, x)
          BY <4>1, <4>2 DEF GatesInv, EachAsAlone
        <5>2. ScriptAsAlone(m, x)'
          BY <2>2, <5>1 DEF makeVars, scriptVars, ScriptAsAlone
        <5>3. FilesAsAlone(m, x)' /\ ToolsAsAlone(m, x)'
          BY <4>1, <5>1, EvidenceStays
        <5> QED
          BY <4>1, <5>1, <5>2, <5>3
      <4> QED
        BY <4>2 DEF EachAsAlone
    <3> QED
      BY <3>1, <3>2, <3>3 DEF GatesInv
  <2> QED
    BY <2>1, <2>2
<1> QED
  BY <1>1, <1>2, PTL DEF MakeSpec

\* A make that ends well vouches for its evidence, whoever else runs.
THEOREM GreenAlwaysVouches == MakeSpec => []GreenVouches
<1>1. GatesInv => GreenVouches
  <2> SUFFICES ASSUME GatesInv, NEW m \in Makes, Green(m), NEW f \in Wrote(m)
               PROVE  /\ Own(m, f) /\ f \notin Lenient => file[f].passed
                      /\ Undisturbed(m) => Own(m, f) /\ (f \in BuiltOnOlder \/ file[f].fresh)
    BY DEF GreenVouches
  <2>1. /\ Busy(m) /\ fate[m] # "raised" /\ at[m] > Len(agenda[m])
        /\ Goal(m) \in DOMAIN Plans /\ agenda[m] = Plans[Goal(m)] /\ ~open[m]
        /\ at[m] \in Nat /\ Len(agenda[m]) \in Nat
    BY AgendaIsPlan DEF GatesInv, EndsAgree, Green, GatesTypeOK
  <2>2. f \in FilesOf(m) /\ f \in AllFiles /\ f \in Saved(Plans[Goal(m)])
    BY <2>1 DEF Wrote, Saved, FilesOf, AllFiles, Steps
  <2>3. Own(m, f) /\ f \notin Lenient => file[f].passed
    BY <2>1, <2>2, BadReportsStop DEF GatesInv, EachAmongOthers, Follows
  <2>4. ASSUME Undisturbed(m)
        PROVE  Own(m, f) /\ (f \in BuiltOnOlder \/ file[f].fresh)
    <3>1. PICK x \in Solo[Goal(m)] : ScriptAsAlone(m, x) /\ FilesAsAlone(m, x)
      BY <2>1, <2>4 DEF GatesInv, EachAsAlone
    <3>2. PICK r \in x.mine : r.file = f /\ (f \in BuiltOnOlder \/ r.fresh)
      BY <2>1, <2>2, <3>1, PlansEndWhole DEF ScriptAsAlone
    <3>3. file[f] = Saying(m, r)
      BY <2>1, <3>1, <3>2 DEF FilesAsAlone, Opened
    <3> QED
      BY <3>2, <3>3 DEF Saying, Own, Whole
  <2> QED
    BY <2>3, <2>4
<1> QED
  BY <1>1, GatesCorrect, PTL

\* No twin stands in for a native tool behind the gates that name it.
THEOREM NativeAlwaysAnswers == MakeSpec => []NativeAnswersGate
<1>1. GatesInv => NativeAnswersGate
  <2> SUFFICES ASSUME GatesInv, NEW m \in Makes, Green(m), Undisturbed(m),
                      NEW f \in NativeVerdicts \intersect Wrote(m)
               PROVE  file[f].native
    BY DEF NativeAnswersGate
  <2>1. /\ Busy(m) /\ fate[m] # "raised" /\ at[m] > Len(agenda[m])
        /\ Goal(m) \in DOMAIN Plans /\ agenda[m] = Plans[Goal(m)] /\ ~open[m]
        /\ at[m] \in Nat /\ Len(agenda[m]) \in Nat
    BY AgendaIsPlan DEF GatesInv, EndsAgree, Green, GatesTypeOK
  <2>2. PICK x \in Solo[Goal(m)] : ScriptAsAlone(m, x) /\ FilesAsAlone(m, x)
    BY <2>1 DEF GatesInv, EachAsAlone
  <2>3. PICK r \in x.mine : r.file = f /\ r.native
    BY <2>1, <2>2, PlansEndWhole DEF ScriptAsAlone, Wrote
  <2>4. file[f] = Saying(m, r)
    BY <2>1, <2>2, <2>3 DEF FilesAsAlone, Opened
  <2> QED
    BY <2>3, <2>4 DEF Saying
<1> QED
  BY <1>1, GatesCorrect, PTL

\* A verdict that stops a make is in a file it has left.
THEOREM FailureIsAlwaysOnRecord == MakeSpec => []FailureIsOnRecord
<1>1. GatesInv => FailureIsOnRecord
  <2> SUFFICES ASSUME GatesInv, NEW m \in Makes, fate[m] = "failed", Undisturbed(m), Current(m).op = "exit",
                      Goal(m) \notin Unrecorded
               PROVE  \E f \in Ended(m) : Own(m, f) /\ ~file[f].passed
    BY DEF FailureIsOnRecord
  <2>1. /\ Busy(m) /\ at[m] <= Len(agenda[m]) /\ Current(m).loud /\ ~passing[m] /\ ~open[m]
    BY NothingOpen DEF GatesInv, EndsAgree
  <2>2. Goal(m) \in DOMAIN Plans /\ agenda[m] = Plans[Goal(m)]
    BY <2>1, AgendaIsPlan DEF GatesInv
  <2>3. PICK x \in Solo[Goal(m)] : ScriptAsAlone(m, x) /\ FilesAsAlone(m, x)
    BY <2>1 DEF GatesInv, EachAsAlone
  <2>4. x.at = at[m] /\ ~x.passing
    BY <2>1, <2>3 DEF ScriptAsAlone
  <2>5. PICK r \in x.mine : r.file \in ScriptFiles(Plans[Goal(m)], x.at) /\ ~r.passed
    BY <2>1, <2>2, <2>4, BadVerdictsAreSaved DEF Current
  <2>6. file[r.file] = Saying(m, r)
    BY <2>1, <2>3 DEF FilesAsAlone, Opened
  <2>7. r.file \in Ended(m)
    BY <2>2, <2>4, <2>5 DEF Ended
  <2> QED
    BY <2>5, <2>6, <2>7 DEF Saying, Own, Whole
<1> QED
  BY <1>1, GatesCorrect, PTL
=============================================================================
