-------------------------- MODULE ReleasePipeline --------------------------
(***************************************************************************)
(* From a candidate to a release: promotion runs that write their evidence *)
(* into the directory of the candidate, packagers that read it and write a *)
(* deployment package, the Go controller that is sent the manifest of a    *)
(* package, and rollbacks.  Each is a process of its own over plain files: *)
(* nothing is locked, a file is replaced where it stands, and a stopped    *)
(* process leaves what it had written.  All runs promote one candidate id. *)
(***************************************************************************)
EXTENDS PromotionPolicy, Naturals

CONSTANTS
    Promotions,  \* runs of the promotion pipeline
    Packagers,   \* runs of the packaging script
    Rollbacks,   \* runs of the rollback script
    Profiles,    \* deployment profiles: one package each
    Scenarios    \* what the processes are given: job, target, active, policyCli, tracked

ASSUME DistinctRuns ==
    /\ {"none", "torn"} \intersect (Promotions \union Packagers \union Rollbacks) = {}
    /\ Promotions \intersect (Packagers \union Rollbacks) = {}
    /\ Packagers \intersect Rollbacks = {}

VARIABLES
    job,        \* job[p]: payload, stage and lineage, the verdict on its OpenLineage event
    target,     \* target[k]: the profile of a packager or a rollback
    active,     \* the processes that run in this scenario
    policyCli,  \* whether the controller is given the native policy
    tracked,    \* bound: the files this scenario follows, the others left out
    phase,      \* phase[x] of every process
    todo,       \* todo[x]: the files a promotion has yet to write, a packager to read
    matches,    \* matches[p]: the native decision said the same
    evidence,   \* evidence[f]: the promotion that wrote f
    seen,       \* seen[k]: what packager k has read
    manifest,   \* manifest[d]: what the manifest of package d was made from
    plan,       \* plan[d]: the packager that wrote the rollback plan
    record,     \* record[d]: the rollback recorded in package d
    latest,     \* the rollback the shared rollback_state.json names
    accepted,   \* manifests a webhook was accepted for
    alone,      \* history: promotions that no other has overlapped
    clean,      \* history: the evidence was written by one promotion, alone, to its end
    calm        \* history: packagers whose reading no promotion has touched

inputs == <<job, target, active, policyCli, tracked>>
packages == <<manifest, plan>>
rolled == <<record, latest>>
history == <<alone, clean, calm>>
vars == <<inputs, phase, todo, matches, evidence, seen, packages, rolled, accepted, history>>

Processes == Promotions \union Packagers \union Rollbacks

\* A plausible bug, used nowhere: the registry entry before its evidence.
EntryEarly ==
    [promotion_decision |-> 1, registry_entry |-> 2, policy_candidate |-> 3, data_validation |-> 4,
     lineage |-> 5, openlineage_run_event |-> 6, openlineage_validation |-> 7,
     native_policy_decision |-> 8, run_context |-> 9, model_card |-> 10, data_card |-> 11]

\* The files of a promotion, numbered in the order it writes them.
WriteOrder ==
    [promotion_decision |-> 1, policy_candidate |-> 2, data_validation |-> 3, lineage |-> 4,
     openlineage_run_event |-> 5, openlineage_validation |-> 6, native_policy_decision |-> 7,
     run_context |-> 8, registry_entry |-> 9, model_card |-> 10, data_card |-> 11]
FileNames == DOMAIN WriteOrder

\* The files a packager reads, in its order, and those it cannot go without.
ReadOrder ==
    [promotion_decision |-> 1, registry_entry |-> 2, lineage |-> 3, openlineage_run_event |-> 4,
     openlineage_validation |-> 5, native_policy_decision |-> 6, policy_candidate |-> 7,
     run_context |-> 8]
ReadNames == DOMAIN ReadOrder
Required == {"promotion_decision", "registry_entry", "lineage"}

\* A scenario follows at least the decision and the registry entry.
ASSUME ScenariosAreGiven ==
    \A scene \in Scenarios :
        /\ scene.job \in [Promotions -> [payload : Candidate, stage : Stages, lineage : BOOLEAN]]
        /\ scene.target \in [Packagers \union Rollbacks -> Profiles]
        /\ scene.tracked \subseteq FileNames
        /\ {"promotion_decision", "registry_entry"} \subseteq scene.tracked

\* What a file holds: the run that wrote it whole, or what a stop left of it.
Written(Writers) == Writers \union {"none", "torn"}

Unread == [f \in ReadNames |-> "none"]
\* A manifest: whether there is a whole one, what it was made from, whether
\* the manifests for the cluster passed, and whether its evidence lay still.
NoManifest == [made |-> FALSE, from |-> Unread, gitops |-> FALSE, calm |-> FALSE]

Init ==
    /\ \E scene \in Scenarios :
           /\ job = scene.job
           /\ target = scene.target
           /\ active = scene.active
           /\ policyCli = scene.policyCli
           /\ tracked = scene.tracked
    /\ phase = [x \in Processes |-> "waiting"]
    /\ todo = [x \in Promotions \union Packagers |->
                   IF x \in Promotions THEN tracked ELSE tracked \intersect ReadNames]
    /\ matches = [p \in Promotions |-> FALSE]
    /\ evidence = [f \in FileNames |-> "none"]
    /\ seen = [k \in Packagers |-> Unread]
    /\ manifest = [d \in Profiles |-> NoManifest]
    /\ plan = [d \in Profiles |-> "none"]
    /\ record = [d \in Profiles |-> "none"]
    /\ latest = "none"
    /\ accepted = {}
    /\ alone = {}
    /\ clean = FALSE
    /\ calm = {}

\* The file x turns to now.
Turn(x, file, order) == file \in todo[x] /\ \A other \in todo[x] : order[file] <= order[other]
Tick(x, file) == todo' = [todo EXCEPT ![x] = @ \ {file}]

Goes(x, from, to) == x \in active /\ phase[x] = from /\ phase' = [phase EXCEPT ![x] = to]

-----------------------------------------------------------------------------
(* src/tryops/pipelines/promotion.py                                       *)

Decides(p) == Approved(job[p].payload, job[p].stage)

\* A plausible bug, used nowhere: the alias is the stage, whatever was decided.
StageAlias(p) == job[p].stage

\* The alias the run gives the candidate.
Alias(p) == IF Decides(p) THEN job[p].stage ELSE "rejected"

Aliases == {"candidate", "challenger", "champion", "rejected", "archived"}

Writing == {p \in Promotions : phase[p] = "writing"}

\* Decide, ask the native engine, name the alias.  The engine may be
\* missing or fail; a value that no gate can convert and an alias the
\* registry does not know raise before a file is written.
Decide(p) ==
    /\ \/ /\ Goes(p, "waiting", "writing")
          /\ ~Raises(job[p].payload)
          /\ Alias(p) \in Aliases
          /\ \E m \in Matches(job[p].payload, job[p].stage) \union {FALSE} :
                 matches' = [matches EXCEPT ![p] = m]
          /\ alone' = (alone \ Writing) \union (IF Writing = {} THEN {p} ELSE {})
          /\ clean' = FALSE
          /\ calm' = {}
       \/ Goes(p, "waiting", "refused") /\ UNCHANGED <<matches, history>>
    /\ UNCHANGED <<inputs, todo, evidence, seen, packages, rolled, accepted>>

\* A plausible bug, used nowhere: what is there already is kept.
WriteMissing(p) ==
    /\ \E file \in todo[p] :
           /\ Turn(p, file, WriteOrder)
           /\ Tick(p, file)
           /\ evidence' = [evidence EXCEPT ![file] = IF @ = "none" THEN p ELSE @]
           /\ Goes(p, "writing", IF todo[p] = {file} THEN "done" ELSE "writing")
           /\ clean' = (todo[p] = {file} /\ p \in alone)
    /\ UNCHANGED <<inputs, matches, seen, packages, rolled, accepted, alone, calm>>

Write(p) ==
    /\ \E file \in todo[p] :
           /\ Turn(p, file, WriteOrder)
           /\ Tick(p, file)
           /\ evidence' = [evidence EXCEPT ![file] = p]
           /\ Goes(p, "writing", IF todo[p] = {file} THEN "done" ELSE "writing")
           /\ clean' = (todo[p] = {file} /\ p \in alone)
    /\ UNCHANGED <<inputs, matches, seen, packages, rolled, accepted, alone, calm>>

\* A run is stopped, or raises, between two files or inside one.
StopPromotion(p) ==
    /\ Goes(p, "writing", "stopped")
    /\ \/ UNCHANGED evidence
       \/ \E file \in todo[p] :
              Turn(p, file, WriteOrder) /\ evidence' = [evidence EXCEPT ![file] = "torn"]
    /\ UNCHANGED <<inputs, todo, matches, seen, packages, rolled, accepted, history>>

-----------------------------------------------------------------------------
(* src/tryops/deployment.py                                                *)

BeginPackage(k) ==
    /\ Goes(k, "waiting", "reading")
    /\ calm' = IF clean THEN calm \union {k} ELSE calm
    /\ UNCHANGED <<inputs, todo, matches, evidence, seen, packages, rolled, accepted, alone, clean>>

\* A file under the pen of a promotion may be found cut short.
Readable(file) == evidence[file] # "torn"
Missing(file) == file \in Required /\ evidence[file] = "none"
BeingWritten(file) == \E p \in Writing : Turn(p, file, WriteOrder)

\* One file after the other; the decision is looked at once all are read.
ReadEvidence(k) ==
    /\ phase[k] = "reading"
    /\ \E file \in todo[k] :
           LET found == [seen[k] EXCEPT ![file] = evidence[file]]
               over == todo[k] = {file}
               approved == Decides(found["promotion_decision"])
           IN
           /\ Turn(k, file, ReadOrder)
           /\ \/ /\ Readable(file) /\ ~Missing(file)
                 /\ over => approved
                 /\ Goes(k, "reading", IF over THEN "packing" ELSE "reading")
                 /\ seen' = [seen EXCEPT ![k] = found]
                 /\ Tick(k, file)
              \/ /\ ~Readable(file) \/ Missing(file) \/ BeingWritten(file) \/ (over /\ ~approved)
                 /\ Goes(k, "reading", "refused")
                 /\ seen' = [seen EXCEPT ![k] = Unread]
                 /\ UNCHANGED todo
    /\ UNCHANGED <<inputs, matches, evidence, packages, rolled, accepted, history>>

WriteManifest(k) ==
    /\ Goes(k, "packing", "planning")
    /\ \E passed \in BOOLEAN :
           manifest' = [manifest EXCEPT ![target[k]] =
                            [made |-> TRUE, from |-> seen[k], gitops |-> passed, calm |-> k \in calm]]
    /\ seen' = [seen EXCEPT ![k] = Unread]
    /\ UNCHANGED <<inputs, todo, matches, evidence, plan, rolled, accepted, history>>

WritePlan(k) ==
    /\ Goes(k, "planning", "done")
    /\ plan' = [plan EXCEPT ![target[k]] = k]
    /\ UNCHANGED <<inputs, todo, matches, evidence, seen, manifest, rolled, accepted, history>>

StopPackager(k) ==
    /\ \/ /\ Goes(k, "packing", "stopped")
          /\ \/ UNCHANGED manifest
             \/ manifest' = [manifest EXCEPT ![target[k]] = NoManifest]
          /\ UNCHANGED plan
       \/ /\ Goes(k, "planning", "stopped")
          /\ \/ UNCHANGED plan
             \/ plan' = [plan EXCEPT ![target[k]] = "torn"]
          /\ UNCHANGED manifest
    /\ UNCHANGED <<inputs, todo, matches, evidence, seen, rolled, accepted, history>>

-----------------------------------------------------------------------------
(* native/go/tryops-controller: the webhooks sent with a manifest.         *)

\* The checks a manifest carries.
DecisionOf(m) == m.from["promotion_decision"]
RegistryOf(m) == m.from["registry_entry"]
Holds(m, file) == m.from[file] \in Promotions

Checks(m) ==
    /\ Decides(DecisionOf(m)) /\ m.gitops
    /\ Holds(m, "native_policy_decision") /\ matches[m.from["native_policy_decision"]]
    /\ Holds(m, "openlineage_validation") /\ job[m.from["openlineage_validation"]].lineage

\* The native gate on the packaged candidate, for the alias it was given.
NativeGate(m) ==
    policyCli => /\ Holds(m, "policy_candidate")
                 /\ MayApprove("go", job[m.from["policy_candidate"]].payload, Alias(RegistryOf(m)))

\* Go reads no NaN: a body with one is no JSON to it.
Decodes(m) ==
    Holds(m, "policy_candidate") =>
        \A x \in Metrics : job[m.from["policy_candidate"]].payload.metrics[x] # "nan"

RegistryWebhook(m) ==
    /\ Decodes(m)
    /\ Alias(RegistryOf(m)) \in {"champion", "staging"}
    /\ Checks(m)
    /\ NativeGate(m)

\* The pull request carries no candidate: with the gate on it is refused.
\* Its commit counts as signed when what the lineage has under verified is
\* true in a condition, be it the text "false".
PromotionPR(m) ==
    /\ Alias(RegistryOf(m)) \in {"champion", "staging"}
    /\ Checks(m)
    /\ ~policyCli
    /\ Holds(m, "lineage")
    /\ job[m.from["lineage"]].payload.nested["verified"] \notin Falsy

Announce(d) ==
    /\ manifest[d].made
    /\ RegistryWebhook(manifest[d]) \/ PromotionPR(manifest[d])
    /\ accepted' = accepted \union {manifest[d]}
    /\ UNCHANGED <<inputs, phase, todo, matches, evidence, seen, packages, rolled, history>>

-----------------------------------------------------------------------------
(* rollback_release                                                        *)

\* Both files of the package must be there and whole.
ReadPackage(r) ==
    /\ \/ /\ Goes(r, "waiting", "recording")
          /\ manifest[target[r]].made
          /\ plan[target[r]] \in Packagers
       \/ Goes(r, "waiting", "refused")
    /\ UNCHANGED <<inputs, todo, matches, evidence, seen, packages, rolled, accepted, history>>

\* A plausible bug, used nowhere: the shared state first.
StateFirst(r) ==
    /\ \/ Goes(r, "recording", "naming") /\ latest' = r /\ UNCHANGED record
       \/ Goes(r, "naming", "done") /\ record' = [record EXCEPT ![target[r]] = r] /\ UNCHANGED latest
    /\ UNCHANGED <<inputs, todo, matches, evidence, seen, packages, accepted, history>>

Rollback(r) ==
    /\ \/ Goes(r, "recording", "naming") /\ record' = [record EXCEPT ![target[r]] = r] /\ UNCHANGED latest
       \/ Goes(r, "naming", "done") /\ latest' = r /\ UNCHANGED record
    /\ UNCHANGED <<inputs, todo, matches, evidence, seen, packages, accepted, history>>

StopRollback(r) ==
    /\ \/ /\ Goes(r, "recording", "stopped")
          /\ \/ UNCHANGED record
             \/ record' = [record EXCEPT ![target[r]] = "torn"]
          /\ UNCHANGED latest
       \/ /\ Goes(r, "naming", "stopped")
          /\ \/ UNCHANGED latest
             \/ latest' = "torn"
          /\ UNCHANGED record
    /\ UNCHANGED <<inputs, todo, matches, evidence, seen, packages, accepted, history>>

-----------------------------------------------------------------------------
Next ==
    \/ \E p \in Promotions : Decide(p) \/ Write(p) \/ StopPromotion(p)
    \/ \E k \in Packagers : BeginPackage(k) \/ ReadEvidence(k) \/ WriteManifest(k) \/ WritePlan(k) \/ StopPackager(k)
    \/ \E d \in Profiles : Announce(d)
    \/ \E r \in Rollbacks : ReadPackage(r) \/ Rollback(r) \/ StopRollback(r)

Spec == Init /\ [][Next]_vars

-----------------------------------------------------------------------------
(* Properties.                                                             *)

Manifests == [made : BOOLEAN, gitops : BOOLEAN, calm : BOOLEAN,
              from : [ReadNames -> Promotions \union {"none"}]]

\* The state has its types: a packaged manifest is made of files that were
\* read whole, and a plan, a record and the rollback state name who wrote them.
TypeOK ==
    /\ phase \in [Processes -> {"waiting", "writing", "reading", "packing", "planning",
                               "recording", "naming", "done", "refused", "stopped"}]
    /\ todo \in [Promotions \union Packagers -> SUBSET FileNames]
    /\ matches \in [Promotions -> BOOLEAN]
    /\ evidence \in [FileNames -> Written(Promotions)]
    /\ seen \in [Packagers -> [ReadNames -> Promotions \union {"none"}]]
    /\ manifest \in [Profiles -> Manifests]
    /\ plan \in [Profiles -> Written(Packagers)]
    /\ record \in [Profiles -> Written(Rollbacks)]
    /\ latest \in Written(Rollbacks)
    /\ accepted \subseteq Manifests
    /\ alone \subseteq Promotions
    /\ clean \in BOOLEAN
    /\ calm \subseteq Packagers

\* A package is never made from a half finished first promotion.  The
\* packager takes an empty object for most files that are not there; it is
\* the registry entry, which it cannot go without and which is written
\* after all it reads, that keeps it from doing so, whatever is stopped
\* or overlaps (deployment.py 27-52, promotion.py 68-77).
PackagesHoldAllEvidence ==
    \A d \in Profiles : manifest[d].made => \A f \in ReadNames \intersect tracked : Holds(manifest[d], f)

\* What the controller accepts was approved: the registry entry in the
\* package is of a run the policy approved for the champion alias and the
\* decision beside it, which may be of another run, is an approval too
\* (promotion.py 52-53, controller/promotion.go 16-52).
AcceptedWasApproved ==
    \A m \in accepted :
        /\ Approved(job[RegistryOf(m)].payload, "champion")
        /\ Decides(DecisionOf(m))

\* A rerun replaces all the evidence of the run before it: a package whose
\* files were written by one promotion to its end, with none at work while
\* they were read, is made from that promotion alone, and it approved.
EvidenceOfOneRun ==
    \A d \in Profiles :
        manifest[d].made /\ manifest[d].calm =>
            \E p \in Promotions :
                /\ Decides(p)
                /\ \A f \in ReadNames \intersect tracked : manifest[d].from[f] = p

\* The two engines differ in known places only, over either bridge: in a
\* value of LaxReadings or StrictReadings, in a count of vulnerabilities
\* that atoi wraps, in the guardrails, which the native engine does not
\* know, and where a value stands that only one of them looks for.
\* Everywhere else the second opinion is the same opinion
\* (docs/model_supply_chain.md 95-96, policy.py 64-286, native_policy.py
\* 15-48, policy_wire.go 9-73, tryops_policy.cpp 85-260).
EnginesDifferAsKnown ==
    \A p \in Promotions, bridge \in PolicyBridges :
        LET c == job[p].payload
            stage == job[p].stage
        IN
        phase[p] \in {"writing", "done", "stopped"} /\ ~Elsewhere(c) =>
            /\ ~Decides(p) /\ MayApprove(bridge, c, stage) =>
                   \/ ~GuardrailsPass(c)
                   \/ "2^32" \in {c.critical, c.high}
                   \/ \E key \in NativeKeys : <<key, c.nested[key]>> \in LaxReadings(bridge)
            /\ Decides(p) /\ MayRefuse(bridge, c, stage) =>
                   \E key \in NativeKeys : <<key, c.nested[key]>> \in StrictReadings(bridge)

\* The shared rollback state only names a rollback that its package has a
\* record file for: a stop between the two files leaves a record too many,
\* never a state too many (deployment.py rollback_release).
RollbackWasRecorded == latest \in Rollbacks => record[target[latest]] # "none"

=============================================================================
