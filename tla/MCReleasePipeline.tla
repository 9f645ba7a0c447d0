------------------------- MODULE MCReleasePipeline -------------------------
EXTENDS ReleasePipeline, EvidenceGates

CONSTANTS p1, p2, k1, k2, r1, r2, demo, staging, m1, m2

AllAbsent == [key \in Keys |-> "absent"]

\* What the documented candidate carries under each key.
Documented == [key \in Keys |->
    CASE key = "verified" -> "true" [] key \in {"unsafe_file_count", "failed_cases"} -> "0"
      [] key = "safetensors_files" -> "1" [] key \in Lists -> "[]" [] OTHER -> "right"]

\* A candidate every gate passes for the champion alias.
GoodCandidate(workload) ==
    [workload |-> workload, artifacts |-> ArtifactNames, approvals |-> Approvers,
     risk |-> TRUE, critical |-> "none", high |-> "none", signed |-> TRUE, plain |-> TRUE,
     nested |-> Documented, flat |-> AllAbsent, dotted |-> AllAbsent, metrics |-> [m \in Metrics |-> "in"]]

\* The candidates one step away from a good one, for each gate.
Near(workload) ==
    LET good == GoodCandidate(workload) IN
        {[good EXCEPT !.artifacts = @ \ {a}] : a \in ArtifactNames}
            \union {[good EXCEPT !.approvals = @ \ {a}] : a \in Approvers}
            \union {[good EXCEPT !.metrics[m] = v] : m \in {"quality"}, v \in {"out", "absent", "nan"}}
            \union {[good EXCEPT !.risk = FALSE], [good EXCEPT !.signed = FALSE], [good EXCEPT !.plain = FALSE]}
            \union {[good EXCEPT !.critical = v] : v \in {"some", "2^32"}}
            \union {[good EXCEPT !.high = v] : v \in {"some", "2^32"}}

\* One value of its metadata is another, or stands elsewhere.
Odd(workload) ==
    LET good == GoodCandidate(workload) IN
        {[good EXCEPT !.nested[key] = v] : key \in Keys, v \in Values}
            \union {[good EXCEPT !.nested[key] = "absent", !.flat[key] = v] : key \in Fallbacks, v \in Values}
            \union {[good EXCEPT !.dotted[key] = v] : key \in NativeKeys, v \in Values}

Alone == UNION {Near(w) \union {GoodCandidate(w)} : w \in Workloads}
Few == {GoodCandidate("vton"), [GoodCandidate("llm") EXCEPT !.nested["verdict"] = "other"],
        [GoodCandidate("vton") EXCEPT !.approvals = {"mlops_owner"}]}

Job(c, stage) == [payload |-> c, stage |-> stage, lineage |-> TRUE]
Idle == Job(GoodCandidate("vton"), "champion")

\* The jobs of p1 and p2, the profiles of k2 and r2; k1 and r1 have demo.
Scene(first, second, t, u, who, cli, files) ==
    [job |-> [p \in Promotions |-> IF p = p1 THEN first ELSE second],
     target |-> [x \in Packagers \union Rollbacks |-> CASE x = k2 -> t [] x = r2 -> u [] OTHER -> demo],
     active |-> who, policyCli |-> cli, tracked |-> files]

\* The files a decision of the controller hangs on.
Core == {"promotion_decision", "policy_candidate", "openlineage_validation", "native_policy_decision", "registry_entry"}

\* One promotion of any candidate, packaged and announced.
Singles == {Scene(Job(c, stage), Idle, demo, demo, {p1, k1}, TRUE, FileNames) : c \in Alone, stage \in Stages}

\* One promotion of a candidate with an odd value, followed no further than
\* its decision; or packaged and announced, where an approval survives.
Verdicts == {Scene(Job(c, stage), Idle, demo, demo, {p1}, TRUE, {"promotion_decision", "registry_entry"}) :
                 c \in UNION {Odd(w) : w \in Workloads}, stage \in Stages}
Survivors == {Scene(Job(c, "champion"), Idle, demo, demo, {p1, k1}, cli, Core \union {"lineage"}) :
                  c \in {d \in Odd("vton") : Approved(d, "champion")}, cli \in BOOLEAN}

\* Two promotions of the same candidate id that may overlap, one packager.
Pairs == {Scene(Job(c, "champion"), [Job(d, "champion") EXCEPT !.lineage = FALSE],
                demo, demo, {p1, p2, k1}, cli, Core) : c \in Few, d \in Few, cli \in BOOLEAN}

\* One promotion, then packages and rollbacks that may overlap.
Returns == {Scene(Idle, Idle, t, u, {p1, k1, k2, r1, r2}, TRUE, Core) : t \in Profiles, u \in Profiles}

NoRelease == {Scene(Idle, Idle, demo, demo, {}, TRUE, Core)}
AllScenes == Singles \union Verdicts \union Survivors \union Pairs \union Returns \union NoRelease

Occasion(first, second, who) ==
    [goal |-> [m \in Makes |-> IF m = m1 THEN first ELSE second], stops |-> who]
NoMake == Occasion("nothing", "nothing", {})

\* Every goal on its own, which may be stopped, and goals that share files
\* or tools.
Goals == DOMAIN MakefileTargets \ DOMAIN NativeBuildTargets
OneGoal == {Occasion(g, "nothing", {m1}) : g \in Goals}
TwoGoals == {Occasion("quota", "finops", {m1}), Occasion("guardrail", "model_supply_chain", {m2}),
             Occasion("pipeline", "deploy_package", {}), Occasion("native_policy", "pipeline", {}),
             Occasion("vton_preprocess", "drift", {}), Occasion("llm_benchmark", "eval_leaderboard", {m1, m2}),
             Occasion("llm_sensitivity", "llm_continuous_batching", {m1, m2})}
AllOccasions == {NoMake} \union OneGoal \union TwoGoals

\* Releases, or runs of make: the two use directories of their own here.
SceneInit == Init /\ MakeInit /\ (active = {} \/ occasion = NoMake)
SceneNext ==
    \/ Next /\ UNCHANGED makeVars
    \/ MakeNext /\ UNCHANGED vars
SceneSpec == SceneInit /\ [][SceneNext]_<<vars, makeVars>>
=============================================================================
