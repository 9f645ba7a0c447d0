------------------------------ MODULE MakeRuns ------------------------------
(***************************************************************************)
(* Runs of make over the evidence of a checkout: a goal's prerequisites    *)
(* come first, each target once; a recipe builds native tools and runs     *)
(* scripts one after the other, and make stops at the first that fails.    *)
(* Runs may overlap, for nothing locks the checkout, and a run may be      *)
(* stopped at any step.  A file is opened, which empties it, and filled    *)
(* later; a tool is linked over the one that was there.                    *)
(***************************************************************************)
EXTENDS Naturals, Sequences, FiniteSets, SequencesExt

CONSTANTS
    Makes,      \* runs of make
    Targets,    \* by name, [needs : what it depends on, recipe : its steps]
    Occasions   \* [goal : what each make is for, "nothing" if unused, stops : who may be stopped]

\* What becomes of a call of a native tool: its own answer, that of the
\* Python twin, or a record that it is not there, or that it failed.
Replies == {"native", "python", "unavailable", "error"}
Effects == {"pass", "fail", "raise"}
Operations == {"build", "call", "read", "judge", "branch", "write", "exit"}

ASSUME TargetsAreRecipes ==
    \A t \in DOMAIN Targets :
        /\ Range(Targets[t].needs) \subseteq DOMAIN Targets
        /\ \A step \in Range(Targets[t].recipe) : step.op \in Operations

\* The targets of a goal, prerequisites first, in the order make visits them.
Visits[t \in DOMAIN Targets] ==
    FlattenSeq([i \in DOMAIN Targets[t].needs |-> Visits[Targets[t].needs[i]]]) \o <<t>>
FirstTimes(s) == SelectSeq([i \in DOMAIN s |-> <<s[i], i>>], LAMBDA p : \A j \in 1 .. p[2] - 1 : s[j] # p[1])
Plans == [t \in DOMAIN Targets |->
             LET order == FirstTimes(Visits[t]) IN
                 FlattenSeq([i \in DOMAIN order |-> Targets[order[i][1]].recipe])]

ASSUME OccasionsAreGoals ==
    \A o \in Occasions : o.goal \in [Makes -> DOMAIN Targets \union {"nothing"}]
ASSUME PlansAreSequences ==
    \A g \in DOMAIN Plans :
        /\ Len(Plans[g]) \in Nat /\ DOMAIN Plans[g] = 1 .. Len(Plans[g])
        /\ \A step \in Range(Plans[g]) : step.op = "branch" => step.skip \in Nat
ASSUME NoMakeIsBefore == "before" \notin Makes

\* What a bridge makes of the tool that is there, and of one that is not.  An
\* evaluator has no timeout, and a blank output sends it to its Python twin.
WhenReady ==
    [evaluator |-> {"native", "python", "raise", "hang"}, probe |-> {"native", "error", "raise"},
     twin |-> {"native", "error", "raise"}, preferred |-> {"native", "python", "raise"},
     must |-> {"native", "raise", "hang"}, sweep |-> {"native", "error", "raise", "unavailable"},
     caught |-> {"native", "unavailable"}, guarded |-> {"native", "python"},
     swept |-> {"native", "error", "unavailable"}]
WhenAbsent ==
    [evaluator |-> {"python"}, probe |-> {"unavailable"}, twin |-> {"python"}, preferred |-> {"python"},
     must |-> {"raise"}, sweep |-> {"unavailable"}, caught |-> {"unavailable"},
     guarded |-> {"python"}, swept |-> {"unavailable"}]
Bridges == DOMAIN WhenReady
Catching == {"caught", "guarded", "swept"}

\* A tool that is being linked is not there, or cannot be started.
Outcomes(bridge, condition) ==
    CASE condition = "ready"   -> WhenReady[bridge]
      [] condition = "absent"  -> WhenAbsent[bridge]
      [] condition = "linking" -> WhenAbsent[bridge] \union (IF bridge \in Catching THEN {} ELSE {"raise"})

-----------------------------------------------------------------------------
(* A plan on its own: the step make turns to, the verdict and the sources  *)
(* of its script so far, its own files and the tools it has built.         *)

Lone(place, verdict, itself, own, files, tools) ==
    [at |-> place, passing |-> verdict, native |-> itself, fresh |-> own, mine |-> files, ready |-> tools]
Text(f, verdict, itself, own) == [file |-> f, passed |-> verdict, native |-> itself, fresh |-> own]
FirstStep == Lone(1, TRUE, TRUE, TRUE, {}, {})

\* What a call may be answered, and what a read may find.
Answers(x, step) ==
    LET replies == WhenReady[step.bridge] \union (IF step.tool \in x.ready THEN {} ELSE WhenAbsent[step.bridge])
    IN UNION {{[reply |-> r, effect |-> e] : e \in step.effect[r] \ {"raise"}} : r \in Replies \intersect replies}
Findings(x, step) ==
    LET own == {r \in x.mine : r.file = step.file}
    IN IF own = {}
       THEN {[effect |-> step.missing, fresh |-> TRUE], [effect |-> "pass", fresh |-> FALSE]}
       ELSE {[effect |-> IF r.passed THEN "pass" ELSE step.failed, fresh |-> r.fresh] : r \in own}

\* Where a step leads, when no other make is in the way.
Onward(x, step) ==
    CASE step.op = "build" ->
             {Lone(x.at + 1, x.passing, x.native, x.fresh, x.mine, tools) :
                 tools \in {x.ready \union {step.tool}} \union (IF step.without = {} THEN {} ELSE {x.ready})}
      [] step.op = "call" ->
             {Lone(x.at + 1, x.passing /\ a.effect = "pass", x.native /\ a.reply = "native", x.fresh, x.mine, x.ready) :
                 a \in Answers(x, step)}
      [] step.op = "read" ->
             {Lone(x.at + 1, x.passing /\ e.effect = "pass", x.native, x.fresh /\ e.fresh, x.mine, x.ready) :
                 e \in {d \in Findings(x, step) : d.effect # "raise"}}
      [] step.op = "judge" ->
             {Lone(x.at + 1, x.passing /\ effect = "pass", x.native, x.fresh, x.mine, x.ready) :
                 effect \in step.effects \ {"raise"}}
      [] step.op = "branch" ->
             {Lone(x.at + 1 + step.skip, x.passing /\ step.otherwise = "pass", x.native, x.fresh, x.mine, x.ready)}
                 \union (IF x.passing THEN {Lone(x.at + 1, x.passing, x.native, x.fresh, x.mine, x.ready)} ELSE {})
      [] step.op = "write" ->
             LET others == {r \in x.mine : r.file # step.file}
                 text(says) == Text(step.file, x.passing /\ says = "pass", x.native, x.fresh)
             IN {Lone(x.at + 1, x.passing, x.native, x.fresh, others \union {text(says)}, x.ready) : says \in step.says}
      [] step.op = "exit" ->
             IF step.loud /\ ~x.passing THEN {} ELSE {Lone(x.at + 1, TRUE, TRUE, TRUE, x.mine, x.ready)}

\* The same whatever others do: the verdict so far, and the bad ones saved.
Among(place, verdict, files) == [at |-> place, passing |-> verdict, bad |-> files]
Possible(step) ==
    CASE step.op = "build" -> {"pass"}
      [] step.op = "call"  -> UNION {step.effect[reply] : reply \in Replies}
      [] step.op = "read"  -> {"pass", step.missing, step.torn, step.failed}
      [] step.op = "judge" -> step.effects
OnwardAnyhow(x, step) ==
    CASE step.op \in {"build", "call", "read", "judge"} ->
             {Among(x.at + 1, x.passing /\ effect = "pass", x.bad) : effect \in Possible(step) \ {"raise"}}
      [] step.op = "branch" ->
             {Among(x.at + 1 + step.skip, x.passing /\ step.otherwise = "pass", x.bad)}
                 \union (IF x.passing THEN {Among(x.at + 1, x.passing, x.bad)} ELSE {})
      [] step.op = "write" ->
             {Among(x.at + 1, x.passing,
                    IF x.passing /\ says = "pass" THEN x.bad \ {step.file} ELSE x.bad \union {step.file}) :
                 says \in step.says}
      [] step.op = "exit" ->
             IF step.loud /\ ~x.passing THEN {} ELSE {Among(x.at + 1, TRUE, x.bad)}

\* All that a plan leads to from its first step.
Closure(plan, first, Then(_, _)) ==
    LET Reached[n \in Nat] ==
            IF n = 0 THEN [all |-> {first}, last |-> {first}]
            ELSE LET before == Reached[n - 1]
                     new == UNION {Then(x, plan[x.at]) : x \in {y \in before.last : y.at <= Len(plan)}}
                 IN [all |-> before.all \union new, last |-> new]
    IN Reached[Len(plan)].all
Solo == [g \in DOMAIN Plans |-> Closure(Plans[g], FirstStep, Onward)]
InCompany == [g \in DOMAIN Plans |-> Closure(Plans[g], Among(1, TRUE, {}), OnwardAnyhow)]

ASSUME SoloIsClosed ==
    \A g \in DOMAIN Plans :
        LET reached == Solo[g] IN
        /\ FirstStep \in reached
        /\ \A x \in reached : x.at \in 1 .. Len(Plans[g]) + 1
        /\ \A x \in reached : x.at <= Len(Plans[g]) => Onward(x, Plans[g][x.at]) \subseteq reached
ASSUME CompanyIsClosed ==
    \A g \in DOMAIN Plans :
        LET reached == InCompany[g] IN
        /\ Among(1, TRUE, {}) \in reached
        /\ \A x \in reached : x.at \in 1 .. Len(Plans[g]) + 1
        /\ \A x \in reached : x.at <= Len(Plans[g]) => OnwardAnyhow(x, Plans[g][x.at]) \subseteq reached

VARIABLES
    occasion,   \* which makes run, and for what
    agenda,     \* the steps of each make, as it reads them in the Makefile
    at,         \* the step a make turns to
    open,       \* it has opened the file, or begun to link the tool, of that step
    passing,    \* the verdict of the script it runs, so far
    native,     \* every tool the script has called answered itself
    fresh,      \* everything the script has read was made by this make
    file,       \* the evidence files
    tool,       \* the native binaries
    fate        \* how each make ended

scriptVars == <<passing, native, fresh>>
makeVars == <<occasion, agenda, at, open, scriptVars, file, tool, fate>>

\* A file: what state it is in and, when it is whole, the make that wrote it
\* and what it says of the verdict, the tools and the sources of its script.
Contents == [state : {"absent", "torn", "whole"}, by : Makes \union {"before"},
             passed : BOOLEAN, native : BOOLEAN, fresh : BOOLEAN]
Earlier == [state |-> "whole", by |-> "before", passed |-> TRUE, native |-> TRUE, fresh |-> TRUE]
Absent == [Earlier EXCEPT !.state = "absent"]
Torn == [Earlier EXCEPT !.state = "torn"]
Whole(f) == file[f].state = "whole"

\* What the steps of a make touch.
Steps(m) == Range(agenda[m])
FilesOf(m) == {step.file : step \in {x \in Steps(m) : x.op \in {"read", "write"}}}
ToolsOf(m) == {step.tool : step \in {x \in Steps(m) : x.op \in {"build", "call"}}}

Goal(m) == occasion.goal[m]
Running(m) == fate[m] = "running"
Due(m, op) == Running(m) /\ at[m] <= Len(agenda[m]) /\ agenda[m][at[m]].op = op
Current(m) == agenda[m][at[m]]

\* A checkout with no evidence and no tools, or with those of earlier runs.
MakeInit ==
    /\ occasion \in Occasions
    /\ agenda = [m \in Makes |-> IF Goal(m) = "nothing" THEN <<>> ELSE Plans[Goal(m)]]
    /\ at = [m \in Makes |-> 1]
    /\ open = [m \in Makes |-> FALSE]
    /\ passing = [m \in Makes |-> TRUE]
    /\ native = [m \in Makes |-> TRUE]
    /\ fresh = [m \in Makes |-> TRUE]
    /\ LET Start(text, condition) ==
               /\ file = [f \in UNION {FilesOf(m) : m \in Makes} |-> text]
               /\ tool = [t \in UNION {ToolsOf(m) : m \in Makes} |-> condition]
       IN Start(Absent, "absent") \/ Start(Earlier, "ready")
    /\ fate = [m \in Makes |-> IF Goal(m) = "nothing" THEN "green" ELSE "running"]

Ends(m, how) == fate' = [fate EXCEPT ![m] = how]
Advance(m) == at' = [at EXCEPT ![m] = @ + 1]

\* The script goes on, or an exception ends it, and with it the make.
Affected(m, effect) ==
    /\ IF effect = "raise" THEN Ends(m, "raised") /\ UNCHANGED at
                           ELSE Advance(m) /\ UNCHANGED fate
    /\ passing' = [passing EXCEPT ![m] = @ /\ effect = "pass"]

-----------------------------------------------------------------------------
\* A plausible bug, used nowhere: a build that fails is only a warning.
CompileOrWarn(m) ==
    /\ Due(m, "build") /\ ~open[m]
    /\ \/ /\ open' = [open EXCEPT ![m] = TRUE]
          /\ tool' = [tool EXCEPT ![Current(m).tool] = "linking"]
          /\ UNCHANGED at
       \/ Advance(m) /\ UNCHANGED <<open, tool>>
    /\ UNCHANGED <<occasion, agenda, scriptVars, file, fate>>

\* The compiler refuses and leaves the binary there was, or replaces it.
\* Some builds go on without a compiler, or make do with the binary there is.
Compile(m) ==
    /\ Due(m, "build") /\ ~open[m]
    /\ \/ /\ open' = [open EXCEPT ![m] = TRUE]
          /\ tool' = [tool EXCEPT ![Current(m).tool] = "linking"]
          /\ UNCHANGED <<at, fate>>
       \/ Ends(m, "failed") /\ UNCHANGED <<at, open, tool>>
       \/ tool[Current(m).tool] \in Current(m).without /\ Advance(m) /\ UNCHANGED <<open, tool, fate>>
    /\ UNCHANGED <<occasion, agenda, scriptVars, file>>

Link(m) ==
    /\ Due(m, "build") /\ open[m]
    /\ tool' = [tool EXCEPT ![Current(m).tool] = "ready"]
    /\ open' = [open EXCEPT ![m] = FALSE]
    /\ Advance(m)
    /\ UNCHANGED <<occasion, agenda, scriptVars, file, fate>>

Call(m) ==
    /\ Due(m, "call")
    /\ \E reply \in Outcomes(Current(m).bridge, tool[Current(m).tool]) :
          \/ reply = "hang" /\ Ends(m, "hung") /\ UNCHANGED <<at, passing, native>>
          \/ reply = "raise" /\ Affected(m, "raise") /\ UNCHANGED native
          \/ /\ reply \in Replies
             /\ \E effect \in Current(m).effect[reply] : Affected(m, effect)
             /\ native' = [native EXCEPT ![m] = @ /\ reply = "native"]
    /\ UNCHANGED <<occasion, agenda, open, fresh, file, tool>>

\* What a script makes of a file that is not there, that is being written,
\* or that holds a bad verdict is said at the read.
Load(m) ==
    /\ Due(m, "read")
    /\ LET f == Current(m).file
           mine == Whole(f) /\ file[f].by = m /\ file[f].fresh
       IN
       /\ Affected(m, CASE file[f].state = "absent" -> Current(m).missing
                        [] file[f].state = "torn"   -> Current(m).torn
                        [] file[f].state = "whole"  -> IF file[f].passed THEN "pass" ELSE Current(m).failed)
       /\ fresh' = [fresh EXCEPT ![m] = @ /\ (Whole(f) => mine)]
    /\ UNCHANGED <<occasion, agenda, open, native, file, tool>>

Judge(m) ==
    /\ Due(m, "judge")
    /\ \E effect \in Current(m).effects : Affected(m, effect)
    /\ UNCHANGED <<occasion, agenda, open, native, fresh, file, tool>>

\* The script takes the next steps, or leaves them out and bears it; one whose
\* verdict is already bad leaves them out.
Branch(m) ==
    /\ Due(m, "branch")
    /\ \/ passing[m] /\ Affected(m, "pass")
       \/ /\ at' = [at EXCEPT ![m] = @ + 1 + Current(m).skip]
          /\ passing' = [passing EXCEPT ![m] = @ /\ Current(m).otherwise = "pass"]
          /\ UNCHANGED fate
    /\ UNCHANGED <<occasion, agenda, open, native, fresh, file, tool>>

OpenFile(m) ==
    /\ Due(m, "write") /\ ~open[m]
    /\ open' = [open EXCEPT ![m] = TRUE]
    /\ file' = [file EXCEPT ![Current(m).file] = Torn]
    /\ UNCHANGED <<occasion, agenda, at, scriptVars, tool, fate>>

\* A plausible bug, used nowhere: the report is filled in before the verdict.
FillEarly(m) ==
    /\ Due(m, "write") /\ open[m]
    /\ file' = [file EXCEPT ![Current(m).file] =
           [state |-> "whole", by |-> m, passed |-> TRUE, native |-> native[m], fresh |-> fresh[m]]]
    /\ open' = [open EXCEPT ![m] = FALSE]
    /\ Advance(m)
    /\ UNCHANGED <<occasion, agenda, scriptVars, tool, fate>>

\* The verdict of the script, and what the file says that no exit code looks
\* at.  Text over text that another run put there since may be neither's.
FillFile(m) ==
    /\ Due(m, "write") /\ open[m]
    /\ \E says \in Current(m).says :
          LET f == Current(m).file
              text == [state |-> "whole", by |-> m, passed |-> passing[m] /\ says = "pass",
                       native |-> native[m], fresh |-> fresh[m]]
          IN \/ file' = [file EXCEPT ![f] = text]
             \/ Whole(f) /\ file' = [file EXCEPT ![f] = Torn]
    /\ open' = [open EXCEPT ![m] = FALSE]
    /\ Advance(m)
    /\ UNCHANGED <<occasion, agenda, scriptVars, tool, fate>>

\* A plausible bug, used nowhere: no exit code is looked at.
ExitUnheeded(m) ==
    /\ Due(m, "exit")
    /\ Advance(m)
    /\ passing' = [passing EXCEPT ![m] = TRUE]
    /\ native' = [native EXCEPT ![m] = TRUE]
    /\ fresh' = [fresh EXCEPT ![m] = TRUE]
    /\ UNCHANGED <<occasion, agenda, open, file, tool, fate>>

\* A script ends; a loud one whose verdict is bad stops the make.
ExitScript(m) ==
    /\ Due(m, "exit")
    /\ IF Current(m).loud /\ ~passing[m]
       THEN Ends(m, "failed") /\ UNCHANGED <<at, scriptVars>>
       ELSE /\ Advance(m)
            /\ passing' = [passing EXCEPT ![m] = TRUE]
            /\ native' = [native EXCEPT ![m] = TRUE]
            /\ fresh' = [fresh EXCEPT ![m] = TRUE]
            /\ UNCHANGED fate
    /\ UNCHANGED <<occasion, agenda, open, file, tool>>

Finish(m) ==
    /\ Running(m) /\ at[m] > Len(agenda[m])
    /\ Ends(m, "green")
    /\ UNCHANGED <<occasion, agenda, at, open, scriptVars, file, tool>>

\* An interrupt, with whatever was half written left so.
Interrupt(m) ==
    /\ m \in occasion.stops /\ Running(m)
    /\ Ends(m, "stopped")
    /\ UNCHANGED <<occasion, agenda, at, open, scriptVars, file, tool>>

Moves(m) ==
    \/ Compile(m) \/ Link(m)
    \/ Call(m) \/ Load(m) \/ Judge(m) \/ Branch(m)
    \/ OpenFile(m) \/ FillFile(m) \/ ExitScript(m)
    \/ Finish(m) \/ Interrupt(m)

MakeNext == \E m \in Makes : Moves(m)

MakeSpec == MakeInit /\ [][MakeNext]_makeVars
=============================================================================
