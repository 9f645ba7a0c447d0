---------------------------- MODULE EvidenceGates ----------------------------
(***************************************************************************)
(* The gates of the Makefile: what a make that ends well, and one that     *)
(* ends badly, says of the evidence it leaves in the checkout.             *)
(***************************************************************************)
EXTENDS MakeRuns, EvidencePrograms

Saved(plan) == {step.file : step \in {x \in Range(plan) : x.op = "write"}}
Wrote(m) == Saved(agenda[m])
Built(m) == {step.tool : step \in {x \in Steps(m) : x.op = "build"}}

Busy(m) == Goal(m) # "nothing"
Green(m) == Busy(m) /\ fate[m] = "green"
Own(m, f) == Whole(f) /\ file[f].by = m

\* No other make writes what this one reads or writes, or builds its tools.
Undisturbed(m) ==
    \A other \in Makes \ {m} :
        Busy(other) =>
            /\ Wrote(other) \intersect FilesOf(m) = {}
            /\ Built(other) \intersect ToolsOf(m) = {}

\* Files that may say that a check failed behind a script that ends well: it
\* ends well whatever it finds, or does not look at all that it writes down.
Lenient ==
    {"energy_demo", "perf_stats", "quota_usage", "llm_benchmark", "llm_real", "llm_pareto", "leaderboard",
     "optimization_markdown", "optimization_chart", "optimization_metrics", "image_drift", "prompt_drift",
     "drift_summary", "audit_log_report", "vton_job_report", "second_opinions", "package"}

\* Reports that take along what an earlier make may have left.
BuiltOnOlder ==
    {"leaderboard", "optimization_markdown", "optimization_chart", "optimization_metrics",
     "optimization_report", "finops_report", "unit_economics", "semantic_cache_report",
     "budget_showback", "finops_alerts", "in_toto_statement", "signature_bundle",
     "model_provenance", "model_supply_chain_report"}

\* The gates that hold a native tool to account.
NativeVerdicts ==
    {"batching_report", "experiment_report", "experiment_analysis", "slo_report", "burn_rate_alerts",
     "trace_envelopes", "trace_envelope_report", "vton_advanced_report", "finops_report",
     "semantic_cache_report", "registry_webhook_report", "signed_pr_report"}

\* Scripts that print what they found.
Unrecorded == {"native_policy", "native_image_metrics", "native_vton_preprocess"}

\* The files of the script whose end a plan comes to at a step.
ScriptFiles(plan, place) ==
    LET last == {i \in 1 .. place - 1 : plan[i].op = "exit"}
        from == CHOOSE i \in last \union {0} : \A j \in last : j <= i
    IN {plan[i].file : i \in {j \in from + 1 .. place : plan[j].op = "write"}}
Ended(m) == ScriptFiles(agenda[m], at[m])

-----------------------------------------------------------------------------
\* What the recipes see to, each on its own.  Whatever the others do, a plan
\* does not come to its end with a bad report of its own, save a lenient one.
ASSUME BadReportsStop ==
    \A g \in DOMAIN Plans : \A x \in InCompany[g] :
        x.at > Len(Plans[g]) => x.bad \subseteq Lenient

\* Every one of these does, behind the good end of a plan that nobody disturbs.
ASSUME LenientReportsMayFail ==
    \A f \in Lenient \intersect UNION {Saved(Plans[g]) : g \in DOMAIN Plans} :
        \E g \in DOMAIN Plans : \E x \in Solo[g] :
            x.at > Len(Plans[g]) /\ \E r \in x.mine : r.file = f /\ ~r.passed

\* When nobody is in its way, it comes to its end with all its files, made
\* from what it made, and with the native verdicts answered by the tools.
ASSUME PlansEndWhole ==
    \A g \in DOMAIN Plans : \A x \in Solo[g] :
        x.at > Len(Plans[g]) =>
            \A f \in Saved(Plans[g]) : \E r \in x.mine :
                /\ r.file = f
                /\ f \in BuiltOnOlder \/ r.fresh
                /\ f \in NativeVerdicts => r.native

\* It stops with a bad verdict only when a file of that script says so.
ASSUME BadVerdictsAreSaved ==
    \A g \in DOMAIN Plans \ Unrecorded : \A x \in Solo[g] :
        x.at <= Len(Plans[g]) /\ Plans[g][x.at].op = "exit" /\ Plans[g][x.at].loud /\ ~x.passing =>
            \E r \in x.mine : r.file \in ScriptFiles(Plans[g], x.at) /\ ~r.passed

-----------------------------------------------------------------------------
\* A make that ends well vouches for its evidence: no file of its own says
\* that a check failed, save the lenient reports; and when no other make got
\* in its way every file its scripts write is its own, whole, and made from
\* what it made itself, whatever was there before (the exit codes of
\* scripts/*.py and the prerequisites of Makefile 205-728).
GreenVouches ==
    \A m \in Makes : Green(m) =>
        \A f \in Wrote(m) :
            /\ Own(m, f) /\ f \notin Lenient => file[f].passed
            /\ Undisturbed(m) => Own(m, f) /\ (f \in BuiltOnOlder \/ file[f].fresh)

\* Behind these gates no Python twin and no failing tool stands in for the
\* native answer: a make that no other disturbed ends well only with a report
\* that every tool its script calls has answered itself.  Of the other reports
\* a twin, or a tool that failed, may be the author (native_*.py, and the
\* build targets that each gate names as prerequisites).
NativeAnswersGate ==
    \A m \in Makes : Green(m) /\ Undisturbed(m) =>
        \A f \in NativeVerdicts \intersect Wrote(m) : file[f].native

\* A verdict that stops a make can be read afterwards: a script that ends
\* badly of its own accord has left a report that says so, in a file of its
\* own that no other make has opened since.
FailureIsOnRecord ==
    \A m \in Makes :
        fate[m] = "failed" /\ Undisturbed(m) /\ Current(m).op = "exit" /\ Goal(m) \notin Unrecorded =>
            \E f \in Ended(m) : Own(m, f) /\ ~file[f].passed
=============================================================================
