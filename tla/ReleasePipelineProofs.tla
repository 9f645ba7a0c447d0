----------------------- MODULE ReleasePipelineProofs -----------------------
(***************************************************************************)
(* What a release vouches for, for any number of promotions, packagers and *)
(* rollbacks, of any candidates, that overlap and stop anywhere.           *)
(***************************************************************************)
EXTENDS ReleasePipeline, TLAPS

USE DistinctRuns DEF Written

-----------------------------------------------------------------------------
(* The two engines and the two orders.                                     *)

\* A promotion writes all that a packager reads before the registry entry.
LEMMA EntryWrittenLast ==
    /\ ReadNames \subseteq FileNames
    /\ \A f \in ReadNames \ {"registry_entry"} : ~(WriteOrder["registry_entry"] <= WriteOrder[f])
  BY DEF ReadNames, FileNames, WriteOrder, ReadOrder

\* A packager reads the registry entry before all it can go without.
LEMMA EntryReadEarly ==
    /\ {"promotion_decision", "registry_entry"} \subseteq Required \intersect ReadNames
    /\ \A f \in ReadNames \ Required : ~(ReadOrder[f] <= ReadOrder["registry_entry"])
  BY DEF ReadNames, ReadOrder, Required

\* The two tables say of every value that Python converts which engine
\* alone accepts it: nothing is missing from them and nothing too many.
LEMMA ReadingsKnown ==
    ASSUME NEW bridge \in PolicyBridges, NEW key \in NativeKeys, NEW v \in Values, ~PythonRaises(key, v)
    PROVE  LET python == PythonAccepts(key, v)
               native == NativeAccepts(key, WireText(bridge, v))
           IN  /\ native /\ ~python <=> <<key, v>> \in LaxReadings(bridge)
               /\ python /\ ~native <=> <<key, v>> \in StrictReadings(bridge)
<1>1. <<key, v>> \in LaxReadings(bridge) <=>
          \/ key \in (Words \intersect NativeKeys) \union {"verified"} /\ v = "[right]"
          \/ key = "signer_identity" /\ v = "spaces"
          \/ key = "unsafe_file_count" /\ v \in {"true", "2^32", "0_1"}
          \/ key = "rejected_extensions" /\ v \in {"{x}", "[empty]"}
          \/ bridge = "python" /\ key = "safetensors_files" /\ v = "1e-07"
          \/ bridge # "python" /\ key = "verified" /\ v = "1.0"
  BY DEF LaxReadings
<1>2. <<key, v>> \in StrictReadings(bridge) <=>
          \/ key = "verified" /\ v = "loose"
          \/ key = "signer_identity" /\ v \in {"[]", "[empty]", "{}", "{x}"}
          \/ key = "safetensors_files" /\ v \in {"true", "2^32", "0_1"}
          \/ key = "rejected_extensions" /\ v \in {"false", "0"}
          \/ bridge = "python" /\ key = "unsafe_file_count" /\ v = "1e-07"
          \/ bridge = "python" /\ key = "rejected_extensions" /\ v = "null"
          \/ bridge # "python" /\ key = "signer_identity" /\ v = "null"
  BY DEF StrictReadings
<1> DEFINE text == WireText(bridge, v)
<1>3. CASE key \in Words
  <2>1. text = "right" <=> v \in {"right", "[right]"}
    BY DEF WireText, Values
  <2> QED
    BY <1>1, <1>2, <1>3, <2>1 DEF PythonAccepts, NativeAccepts, Words, Lists
<1>4. CASE key = "verified"
  <2>1. text \in {"true", "1", "right"} <=>
            v \in {"true", "1", "right", "[right]"} \/ (bridge = "go" /\ v = "1.0")
    BY DEF WireText, Values, PolicyBridges
  <2> QED
    BY <1>1, <1>2, <1>4, <2>1 DEF PythonAccepts, NativeAccepts, Words, Lists, PolicyBridges
<1>5. CASE key = "signer_identity"
  <2>1. text \in {"no line", "empty"} <=>
            \/ v \in {"absent", "{}", "{x}", "[]", "[empty]", "empty"}
            \/ bridge = "go" /\ v = "null"
    BY DEF WireText, Values, PolicyBridges
  <2> QED
    BY <1>1, <1>2, <1>5, <2>1 DEF PythonAccepts, NativeAccepts, Words, Lists, PolicyBridges
<1>6. Atoi(text) = 1 <=> v \in {"1", "1.0"} \/ (bridge = "python" /\ v = "1e-07")
  <2>1. text \in {"1", "1.0", "1e-07"} <=>
            v \in {"1", "1.0"} \/ (bridge = "python" /\ v = "1e-07")
    BY DEF WireText, Values, PolicyBridges
  <2> QED
    BY <2>1 DEF Atoi
<1>7. Atoi(text) = 0 <=> ~(Atoi(text) = 1)
  BY DEF Atoi
<1>8. CASE key = "unsafe_file_count"
  <2>1. PythonAccepts(key, v) <=> v \notin {"true", "1", "1.0", "2^32", "0_1"}
    BY <1>8 DEF PythonAccepts, AboveZero, Words, Lists
  <2>2. NativeAccepts(key, text) <=> ~(v \in {"1", "1.0"} \/ (bridge = "python" /\ v = "1e-07"))
    BY <1>6, <1>7, <1>8 DEF NativeAccepts, Words
  <2> QED
    BY <1>1, <1>2, <1>8, <2>1, <2>2 DEF Words
<1>9. CASE key = "safetensors_files"
  BY <1>1, <1>2, <1>6, <1>9
    DEF PythonRaises, NoCount, PythonAccepts, AboveZero, NativeAccepts, Counts, Words, Lists, PolicyBridges, Values
<1>10. CASE key = "rejected_extensions"
  <2>1. text \in {"no line", "empty"} <=>
            \/ v \in {"absent", "{}", "{x}", "[]", "[empty]", "empty"}
            \/ bridge = "go" /\ v = "null"
    BY DEF WireText, Values, PolicyBridges
  <2> QED
    BY <1>1, <1>2, <1>10, <2>1
      DEF PythonRaises, NoItems, PythonAccepts, Falsy, NativeAccepts, Counts, Words, Lists, PolicyBridges, Values
<1> QED
  BY <1>3, <1>4, <1>5, <1>8, <1>9, <1>10 DEF NativeKeys, ProvenanceKeys, ScanKeys, Words

\* Where nothing stands elsewhere both read the same value of a key, and
\* the line the native engine reads is the only one.
LEMMA SameValue ==
    ASSUME NEW c \in Candidate, NEW bridge \in PolicyBridges, NEW key \in NativeKeys, ~Elsewhere(c)
    PROVE  /\ c.nested[key] \in Values
           /\ Read(c, key) = c.nested[key]
           /\ Lines(bridge, c, key) = {WireText(bridge, c.nested[key])}
<1>1. c.dotted[key] = "absent" /\ (key \in Fallbacks /\ c.nested[key] = "absent" => c.flat[key] = "absent")
  BY DEF Elsewhere
<1>2. WireText(bridge, c.dotted[key]) = "no line"
  BY <1>1 DEF WireText
<1>3. c.nested[key] \in Values
  BY DEF Candidate, NativeKeys, Keys
<1>4. Read(c, key) = c.nested[key]
  BY <1>1 DEF Read
<1> QED
  BY <1>2, <1>3, <1>4 DEF Lines

\* The native engine is the laxer one in the known places only.
LEMMA NativeIsLaxer ==
    ASSUME NEW c \in Candidate, NEW stage \in Stages, NEW bridge \in PolicyBridges,
           ~Elsewhere(c), ~Raises(c), ~Approved(c, stage), MayApprove(bridge, c, stage), GuardrailsPass(c),
           "2^32" \notin {c.critical, c.high}
    PROVE  \E key \in NativeKeys : <<key, c.nested[key]>> \in LaxReadings(bridge)
<1>1. NativeBasics(c, stage) /\ \A key \in NativeKeys : NativeAccepts(key, WireText(bridge, c.nested[key]))
  BY SameValue DEF MayApprove, Elsewhere
<1>2. KnownWorkload(c) /\ HasArtifacts(c) /\ HasApprovals(c, stage) /\ RiskAccepted(c) /\ Secure(c)
          /\ Signed(c) /\ MetricsPass(c)
  BY <1>1 DEF NativeBasics, KnownWorkload, HasArtifacts, HasApprovals, RiskAccepted, Secure, Signed,
     MetricsPass, Candidate
<1>3. PICK key \in NativeKeys : ~Accepts(c, key)
  BY <1>1, <1>2 DEF Approved, ProvenancePasses, ScanPasses, NativeKeys, NativeBasics, RequiredArtifacts
<1>4. ~PythonRaises(key, c.nested[key])
  <2>1. CASE key \in ScanKeys
    BY <1>2, <2>1, SameValue DEF Raises
  <2>2. CASE key \in ProvenanceKeys
    BY <2>2 DEF PythonRaises, ProvenanceKeys, Counts, Lists
  <2> QED
    BY <2>1, <2>2 DEF NativeKeys
<1>5. ~PythonAccepts(key, c.nested[key])
  BY <1>3, SameValue DEF Accepts
<1> QED
  BY <1>1, <1>4, <1>5, SameValue, ReadingsKnown

\* And the stricter one in the known places only.
LEMMA NativeIsStricter ==
    ASSUME NEW c \in Candidate, NEW stage \in Stages, NEW bridge \in PolicyBridges,
           ~Elsewhere(c), ~Raises(c), Approved(c, stage), MayRefuse(bridge, c, stage)
    PROVE  \E key \in NativeKeys : <<key, c.nested[key]>> \in StrictReadings(bridge)
<1>1. NativeBasics(c, stage)
  BY DEF Approved, NativeBasics, KnownWorkload, HasArtifacts, HasApprovals, RiskAccepted, Secure,
     Signed, ScanPasses, MetricsPass
<1>2. PICK key \in NativeKeys : ~NativeAccepts(key, WireText(bridge, c.nested[key]))
  BY <1>1, SameValue DEF MayRefuse, Elsewhere
<1>3. PythonAccepts(key, c.nested[key])
  BY SameValue DEF Approved, ProvenancePasses, ScanPasses, NativeKeys, Accepts
<1>4. ~PythonRaises(key, c.nested[key])
  <2>1. CASE key \in ScanKeys
    BY <2>1, SameValue DEF Raises, Approved
  <2>2. CASE key \in ProvenanceKeys
    BY <2>2 DEF PythonRaises, ProvenanceKeys, Counts, Lists
  <2> QED
    BY <2>1, <2>2 DEF NativeKeys
<1> QED
  BY <1>2, <1>3, <1>4, SameValue, ReadingsKnown

-----------------------------------------------------------------------------
(* The inductive invariant.                                                *)

\* The processes are given what ScenariosAreGiven says.
InputsOK ==
    /\ job \in [Promotions -> [payload : Candidate, stage : Stages, lineage : BOOLEAN]]
    /\ target \in [Packagers \union Rollbacks -> Profiles]
    /\ tracked \subseteq FileNames
    /\ {"promotion_decision", "registry_entry"} \subseteq tracked

\* A promotion that has begun could convert its values and has a known
\* alias, and its files are there.
PromotionsWrite ==
    \A p \in Promotions :
        /\ phase[p] = "waiting" => todo[p] = tracked
        /\ phase[p] \in {"writing", "done", "stopped"} =>
               Alias(p) \in Aliases /\ ~Raises(job[p].payload)
        /\ \A f \in tracked \ todo[p] : evidence[f] # "none"

\* The registry entry is the last of what a packager reads to appear.
EntryIsLast ==
    evidence["registry_entry"] # "none" =>
        \A f \in ReadNames \intersect tracked : evidence[f] # "none"

\* Only promotions with a known alias are named by any file.
NamesAreKnown ==
    /\ \A f \in FileNames : evidence[f] \in Promotions => Alias(evidence[f]) \in Aliases
    /\ \A k \in Packagers : \A f \in ReadNames :
           seen[k][f] \in Promotions => Alias(seen[k][f]) \in Aliases
    /\ \A d \in Profiles : \A f \in ReadNames :
           manifest[d].from[f] \in Promotions => Alias(manifest[d].from[f]) \in Aliases

\* A packager has what it has read, whole.
PackagersRead ==
    \A k \in Packagers :
        /\ phase[k] = "waiting" => todo[k] = tracked \intersect ReadNames
        /\ "registry_entry" \notin todo[k] => evidence["registry_entry"] # "none"
        /\ phase[k] \in {"reading", "packing"} =>
               \A f \in (tracked \intersect ReadNames) \ todo[k] : seen[k][f] \in Promotions
        /\ phase[k] = "packing" => todo[k] = {} /\ Decides(seen[k]["promotion_decision"])

\* A promotion that no other overlaps finds its own files only.
AloneWrites ==
    \A p \in alone :
        /\ phase[p] # "waiting"
        /\ phase[p] = "writing" =>
               Writing = {p} /\ \A f \in tracked \ todo[p] : evidence[f] = p

\* Clean evidence is one promotion's, and lies still for who reads it calmly.
CleanIsOne ==
    /\ clean => Writing = {} /\ \E p \in Promotions : \A f \in tracked : evidence[f] = p
    /\ calm # {} => clean
    /\ \A k \in calm : phase[k] \in {"reading", "packing"} =>
           \A f \in (tracked \intersect ReadNames) \ todo[k] : seen[k][f] = evidence[f]

\* What the controller has accepted, the native gate aside.
AcceptedKnown ==
    \A m \in accepted :
        /\ Decides(DecisionOf(m))
        /\ Alias(RegistryOf(m)) \in {"champion", "staging"} \intersect Aliases
        /\ RegistryOf(m) \in Promotions

\* A rollback that goes on to the shared state has its record.
RecordFirst ==
    /\ \A r \in Rollbacks : phase[r] = "naming" => record[target[r]] # "none"
    /\ RollbackWasRecorded

ReleaseInv ==
    /\ TypeOK /\ InputsOK
    /\ PromotionsWrite /\ EntryIsLast /\ NamesAreKnown
    /\ PackagersRead /\ AloneWrites /\ CleanIsOne
    /\ PackagesHoldAllEvidence /\ EvidenceOfOneRun /\ AcceptedKnown
    /\ RecordFirst

-----------------------------------------------------------------------------
(* What single steps do, in the form the lemmas below use.                 *)

\* The second opinion is a truth value.
LEMMA MatchesBoolean == \A c, stage : Matches(c, stage) \subseteq BOOLEAN
  BY DEF Matches

\* A process that goes on is in its new phase, and all others are where they were.
LEMMA GoesMoves ==
    ASSUME TypeOK, NEW x \in Processes, NEW from, NEW to, Goes(x, from, to)
    PROVE  /\ phase[x] = from /\ phase'[x] = to
           /\ \A y \in Processes \ {x} : phase'[y] = phase[y]
  BY DEF TypeOK, Goes

\* A promotion is refused and changes nothing, or begins to write.
LEMMA DecideEffect ==
    ASSUME TypeOK, NEW p \in Promotions, Decide(p)
    PROVE  /\ UNCHANGED <<inputs, todo, evidence, seen, packages, rolled, accepted>>
           /\ phase[p] = "waiting" /\ phase'[p] \in {"writing", "refused"}
           /\ \A y \in Processes \ {p} : phase'[y] = phase[y]
           /\ phase'[p] = "refused" => UNCHANGED history
           /\ phase'[p] = "writing" =>
                  /\ Alias(p) \in Aliases /\ ~Raises(job[p].payload)
                  /\ alone' = (alone \ Writing) \union (IF Writing = {} THEN {p} ELSE {})
                  /\ clean' = FALSE /\ calm' = {}
           /\ matches' \in [Promotions -> BOOLEAN]
<1>1. p \in Processes
  BY DEF Processes
<1>2. CASE Goes(p, "waiting", "refused") /\ UNCHANGED <<matches, history>>
  BY <1>1, <1>2, GoesMoves DEF Decide, TypeOK
<1>3. CASE /\ Goes(p, "waiting", "writing")
           /\ ~Raises(job[p].payload)
           /\ Alias(p) \in Aliases
           /\ \E m \in Matches(job[p].payload, job[p].stage) \union {FALSE} :
                  matches' = [matches EXCEPT ![p] = m]
           /\ alone' = (alone \ Writing) \union (IF Writing = {} THEN {p} ELSE {})
           /\ clean' = FALSE
           /\ calm' = {}
  <2>1. PICK m \in Matches(job[p].payload, job[p].stage) \union {FALSE} :
            matches' = [matches EXCEPT ![p] = m]
    BY <1>3
  <2>2. m \in BOOLEAN
    BY MatchesBoolean, Zenon
  <2>3. matches' \in [Promotions -> BOOLEAN]
    BY <2>1, <2>2, Zenon DEF TypeOK
  <2> QED
    BY <1>1, <1>3, <2>3, GoesMoves DEF Decide
<1> QED
  BY <1>2, <1>3 DEF Decide

\* A packager gives up, or has read the file it turned to.
LEMMA ReadEffect ==
    ASSUME TypeOK, NEW k \in Packagers, ReadEvidence(k)
    PROVE  /\ UNCHANGED <<inputs, matches, evidence, packages, rolled, accepted, history>>
           /\ phase[k] = "reading"
           /\ \A y \in Processes \ {k} : phase'[y] = phase[y]
           /\ \/ /\ phase'[k] = "refused" /\ todo' = todo
                 /\ seen' = [seen EXCEPT ![k] = Unread]
              \/ \E file \in todo[k] :
                     /\ Turn(k, file, ReadOrder)
                     /\ evidence[file] # "torn" /\ (file \in Required => evidence[file] # "none")
                     /\ phase'[k] = IF todo[k] = {file} THEN "packing" ELSE "reading"
                     /\ seen' = [seen EXCEPT ![k] = [seen[k] EXCEPT ![file] = evidence[file]]]
                     /\ todo' = [todo EXCEPT ![k] = todo[k] \ {file}]
                     /\ todo[k] = {file} =>
                            Decides([seen[k] EXCEPT ![file] = evidence[file]]["promotion_decision"])
<1>1. k \in Processes
  BY DEF Processes
<1>2. PICK file \in todo[k] :
          /\ Turn(k, file, ReadOrder)
          /\ \/ /\ Readable(file) /\ ~Missing(file)
                /\ todo[k] = {file} =>
                       Decides([seen[k] EXCEPT ![file] = evidence[file]]["promotion_decision"])
                /\ Goes(k, "reading", IF todo[k] = {file} THEN "packing" ELSE "reading")
                /\ seen' = [seen EXCEPT ![k] = [seen[k] EXCEPT ![file] = evidence[file]]]
                /\ Tick(k, file)
             \/ /\ Goes(k, "reading", "refused")
                /\ seen' = [seen EXCEPT ![k] = Unread]
                /\ UNCHANGED todo
  BY DEF ReadEvidence
<1>3. CASE /\ Goes(k, "reading", "refused")
           /\ seen' = [seen EXCEPT ![k] = Unread]
           /\ UNCHANGED todo
  BY <1>1, <1>3, GoesMoves DEF ReadEvidence
<1>4. CASE ~(/\ Goes(k, "reading", "refused")
             /\ seen' = [seen EXCEPT ![k] = Unread]
             /\ UNCHANGED todo)
  BY <1>1, <1>2, <1>4, GoesMoves DEF ReadEvidence, Readable, Missing, Tick
<1> QED
  BY <1>3, <1>4

\* A packager that is stopped loses the whole manifest at most, and its plan.
LEMMA StopPackagerEffect ==
    ASSUME TypeOK, NEW k \in Packagers, StopPackager(k)
    PROVE  /\ UNCHANGED <<inputs, todo, matches, evidence, seen, rolled, accepted, history>>
           /\ phase'[k] = "stopped"
           /\ \A y \in Processes \ {k} : phase'[y] = phase[y]
           /\ manifest' \in {manifest, [manifest EXCEPT ![target[k]] = NoManifest]}
           /\ plan' \in {plan, [plan EXCEPT ![target[k]] = "torn"]}
<1>1. k \in Processes
  BY DEF Processes
<1>2. CASE Goes(k, "packing", "stopped")
  BY <1>1, <1>2, GoesMoves DEF StopPackager
<1>3. CASE Goes(k, "planning", "stopped")
  BY <1>1, <1>3, GoesMoves DEF StopPackager
<1> QED
  BY <1>2, <1>3 DEF StopPackager

-----------------------------------------------------------------------------
(* Every part of the invariant is kept by every step.                      *)

\* The types are kept: a stop tears one file, and a torn file is never read.
LEMMA TypeOKStep ==
    ASSUME ReleaseInv, [Next]_vars
    PROVE  TypeOK'
<1> USE DEF ReleaseInv, inputs, packages, rolled, history, Goes, Turn, Tick
<1>1. ASSUME NEW p \in Promotions, Decide(p) PROVE TypeOK'
  <2>1. /\ UNCHANGED <<inputs, todo, evidence, seen, packages, rolled, accepted>>
        /\ matches' \in [Promotions -> BOOLEAN]
    BY <1>1, DecideEffect
  <2>2. phase' \in [Processes -> {"waiting", "writing", "reading", "packing", "planning",
                                  "recording", "naming", "done", "refused", "stopped"}]
    BY <1>1 DEF Decide, TypeOK, Processes
  <2>3. alone' \subseteq Promotions /\ clean' \in BOOLEAN /\ calm' \subseteq Packagers
    BY <1>1 DEF Decide, TypeOK
  <2> QED
    BY <2>1, <2>2, <2>3 DEF TypeOK
<1>2. ASSUME NEW p \in Promotions, Write(p) PROVE TypeOK'
  BY <1>2 DEF Write, TypeOK, Processes
<1>3. ASSUME NEW p \in Promotions, StopPromotion(p) PROVE TypeOK'
  BY <1>3 DEF StopPromotion, TypeOK
<1>4. ASSUME NEW k \in Packagers, BeginPackage(k) PROVE TypeOK'
  BY <1>4 DEF BeginPackage, TypeOK
<1>5. ASSUME NEW k \in Packagers, ReadEvidence(k) PROVE TypeOK'
  <2>a. /\ UNCHANGED <<inputs, matches, evidence, packages, rolled, accepted, history>>
        /\ todo' = todo \/ \E file \in todo[k] : todo' = [todo EXCEPT ![k] = todo[k] \ {file}]
    BY <1>5, ReadEffect
  <2>b. \E to \in {"reading", "packing", "refused"} : Goes(k, "reading", to)
    BY <1>5 DEF ReadEvidence
  <2>c. phase' \in [Processes -> {"waiting", "writing", "reading", "packing", "planning",
                                  "recording", "naming", "done", "refused", "stopped"}]
    BY <2>b DEF TypeOK
  <2>1. /\ UNCHANGED <<inputs, matches, evidence, packages, rolled, accepted, history>>
        /\ phase' \in [Processes -> {"waiting", "writing", "reading", "packing", "planning",
                                     "recording", "naming", "done", "refused", "stopped"}]
    BY <2>a, <2>c
  <2>2. seen' \in [Packagers -> [ReadNames -> Promotions \union {"none"}]]
    <3>1. CASE seen' = [seen EXCEPT ![k] = Unread]
      BY <3>1 DEF TypeOK, Unread
    <3>2. ASSUME NEW file \in todo[k], evidence[file] # "torn",
                 seen' = [seen EXCEPT ![k] = [seen[k] EXCEPT ![file] = evidence[file]]]
          PROVE  seen' \in [Packagers -> [ReadNames -> Promotions \union {"none"}]]
      <4>1. evidence[file] \in Promotions \union {"none"}
        BY <3>2 DEF TypeOK
      <4> QED
        BY <3>2, <4>1 DEF TypeOK
    <3> QED
      BY <1>5, <3>1, <3>2, ReadEffect
  <2>3. todo' \in [Promotions \union Packagers -> SUBSET FileNames]
    <3>1. todo \in [Promotions \union Packagers -> SUBSET FileNames]
      BY DEF TypeOK
    <3>2. CASE todo' = todo
      BY <3>1, <3>2
    <3>3. CASE \E file \in todo[k] : todo' = [todo EXCEPT ![k] = todo[k] \ {file}]
      BY <3>1, <3>3
    <3> QED
      BY <2>a, <3>2, <3>3
  <2> QED
    BY <2>1, <2>2, <2>3 DEF TypeOK
<1>6. ASSUME NEW k \in Packagers, WriteManifest(k) PROVE TypeOK'
  BY <1>6 DEF WriteManifest, InputsOK, TypeOK, Processes, Manifests, NoManifest, Unread
<1>7. ASSUME NEW k \in Packagers, WritePlan(k) PROVE TypeOK'
  BY <1>7 DEF WritePlan, TypeOK
<1>8. ASSUME NEW k \in Packagers, StopPackager(k) PROVE TypeOK'
  <2>1. /\ UNCHANGED <<inputs, todo, matches, evidence, seen, rolled, accepted, history>>
        /\ manifest' \in {manifest, [manifest EXCEPT ![target[k]] = NoManifest]}
        /\ plan' \in {plan, [plan EXCEPT ![target[k]] = "torn"]}
    BY <1>8, StopPackagerEffect
  <2>2. phase' \in [Processes -> {"waiting", "writing", "reading", "packing", "planning",
                                  "recording", "naming", "done", "refused", "stopped"}]
    BY <1>8 DEF StopPackager, TypeOK, Processes
  <2>3. NoManifest \in Manifests
    BY DEF NoManifest, Manifests, Unread
  <2>4. manifest' \in [Profiles -> Manifests]
    <3>1. manifest \in [Profiles -> Manifests]
      BY DEF TypeOK
    <3> QED
      BY <2>1, <2>3, <3>1
  <2>5. plan' \in [Profiles -> Written(Packagers)]
    <3>1. plan \in [Profiles -> Written(Packagers)]
      BY DEF TypeOK
    <3> QED
      BY <2>1, <3>1
  <2> QED
    BY <2>1, <2>2, <2>4, <2>5 DEF TypeOK
<1>9. ASSUME NEW d \in Profiles, Announce(d) PROVE TypeOK'
  BY <1>9 DEF Announce, TypeOK
<1>10. ASSUME NEW r \in Rollbacks, ReadPackage(r) PROVE TypeOK'
  BY <1>10 DEF ReadPackage, TypeOK
<1>11. ASSUME NEW r \in Rollbacks, Rollback(r) PROVE TypeOK'
  <2>1. /\ UNCHANGED <<inputs, todo, matches, evidence, seen, packages, accepted, history>>
        /\ record' \in {record, [record EXCEPT ![target[r]] = r]} /\ latest' \in {latest, r}
    BY <1>11 DEF Rollback
  <2>2. phase' \in [Processes -> {"waiting", "writing", "reading", "packing", "planning",
                                  "recording", "naming", "done", "refused", "stopped"}]
    BY <1>11 DEF Rollback, TypeOK, Processes
  <2> QED
    BY <2>1, <2>2 DEF TypeOK
<1>12. ASSUME NEW r \in Rollbacks, StopRollback(r) PROVE TypeOK'
  BY <1>12 DEF StopRollback, TypeOK
<1>13. CASE UNCHANGED vars
  BY <1>13 DEF vars, TypeOK
<1> QED
  BY <1>1, <1>2, <1>3, <1>4, <1>5, <1>6, <1>7, <1>8, <1>9, <1>10, <1>11, <1>12, <1>13 DEF Next

\* What the processes are given never changes.
LEMMA InputsOKStep ==
    ASSUME ReleaseInv, [Next]_vars
    PROVE  InputsOK'
<1> USE DEF ReleaseInv, inputs, packages, rolled, history, Goes, Turn, Tick
<1>1. ASSUME NEW p \in Promotions, Decide(p) PROVE InputsOK'
  BY <1>1, DecideEffect DEF InputsOK
<1>2. ASSUME NEW p \in Promotions, Write(p) PROVE InputsOK'
  BY <1>2 DEF Write, InputsOK
<1>3. ASSUME NEW p \in Promotions, StopPromotion(p) PROVE InputsOK'
  BY <1>3 DEF StopPromotion, InputsOK
<1>4. ASSUME NEW k \in Packagers, BeginPackage(k) PROVE InputsOK'
  BY <1>4 DEF BeginPackage, InputsOK
<1>5. ASSUME NEW k \in Packagers, ReadEvidence(k) PROVE InputsOK'
  BY <1>5, ReadEffect DEF InputsOK
<1>6. ASSUME NEW k \in Packagers, WriteManifest(k) PROVE InputsOK'
  BY <1>6 DEF WriteManifest, InputsOK
<1>7. ASSUME NEW k \in Packagers, WritePlan(k) PROVE InputsOK'
  BY <1>7 DEF WritePlan, InputsOK
<1>8. ASSUME NEW k \in Packagers, StopPackager(k) PROVE InputsOK'
  BY <1>8, StopPackagerEffect DEF InputsOK
<1>9. ASSUME NEW d \in Profiles, Announce(d) PROVE InputsOK'
  BY <1>9 DEF Announce, InputsOK
<1>10. ASSUME NEW r \in Rollbacks, ReadPackage(r) PROVE InputsOK'
  BY <1>10 DEF ReadPackage, InputsOK
<1>11. ASSUME NEW r \in Rollbacks, Rollback(r) PROVE InputsOK'
  BY <1>11 DEF Rollback, InputsOK
<1>12. ASSUME NEW r \in Rollbacks, StopRollback(r) PROVE InputsOK'
  BY <1>12 DEF StopRollback, InputsOK
<1>13. CASE UNCHANGED vars
  BY <1>13 DEF vars, InputsOK
<1> QED
  BY <1>1, <1>2, <1>3, <1>4, <1>5, <1>6, <1>7, <1>8, <1>9, <1>10, <1>11, <1>12, <1>13 DEF Next

\* A promotion leaves behind every file it has ticked off.
LEMMA PromotionsWriteStep ==
    ASSUME ReleaseInv, [Next]_vars
    PROVE  PromotionsWrite'
<1> USE DEF ReleaseInv, inputs, packages, rolled, history, Goes, Turn, Tick
<1>1. ASSUME NEW p \in Promotions, Decide(p) PROVE PromotionsWrite'
  <2>1. /\ UNCHANGED <<inputs, todo, evidence>>
        /\ phase[p] = "waiting" /\ phase'[p] \in {"writing", "refused"}
        /\ phase'[p] = "writing" => Alias(p) \in Aliases /\ ~Raises(job[p].payload)
        /\ \A q \in Promotions \ {p} : phase'[q] = phase[q]
    BY <1>1, DecideEffect DEF Processes
  <2> HIDE DEF ReleaseInv
  <2>2. tracked' = tracked /\ \A q \in Promotions : Alias(q)' = Alias(q)
    BY <2>1 DEF Alias, Decides
  <2>3. PromotionsWrite
    BY DEF ReleaseInv
  <2> QED
    BY <2>1, <2>2, <2>3 DEF PromotionsWrite
<1>2. ASSUME NEW p \in Promotions, Write(p) PROVE PromotionsWrite'
  BY <1>2 DEF Write, PromotionsWrite, TypeOK, Alias, Decides
<1>3. ASSUME NEW p \in Promotions, StopPromotion(p) PROVE PromotionsWrite'
  BY <1>3 DEF StopPromotion, PromotionsWrite, TypeOK, Processes, InputsOK, Alias, Decides
<1>4. ASSUME NEW k \in Packagers, BeginPackage(k) PROVE PromotionsWrite'
  BY <1>4 DEF BeginPackage, PromotionsWrite, Alias, Decides
<1>5. ASSUME NEW k \in Packagers, ReadEvidence(k) PROVE PromotionsWrite'
  BY <1>5, ReadEffect DEF PromotionsWrite, TypeOK, Processes, Alias, Decides
<1>6. ASSUME NEW k \in Packagers, WriteManifest(k) PROVE PromotionsWrite'
  BY <1>6 DEF WriteManifest, PromotionsWrite, Alias, Decides
<1>7. ASSUME NEW k \in Packagers, WritePlan(k) PROVE PromotionsWrite'
  BY <1>7 DEF WritePlan, PromotionsWrite, Alias, Decides
<1>8. ASSUME NEW k \in Packagers, StopPackager(k) PROVE PromotionsWrite'
  BY <1>8, StopPackagerEffect DEF PromotionsWrite, TypeOK, Processes, Alias, Decides
<1>9. ASSUME NEW d \in Profiles, Announce(d) PROVE PromotionsWrite'
  BY <1>9 DEF Announce, PromotionsWrite, Alias, Decides
<1>10. ASSUME NEW r \in Rollbacks, ReadPackage(r) PROVE PromotionsWrite'
  BY <1>10 DEF ReadPackage, PromotionsWrite, TypeOK, Processes, Alias, Decides
<1>11. ASSUME NEW r \in Rollbacks, Rollback(r) PROVE PromotionsWrite'
  BY <1>11 DEF Rollback, PromotionsWrite, TypeOK, Processes, Alias, Decides
<1>12. ASSUME NEW r \in Rollbacks, StopRollback(r) PROVE PromotionsWrite'
  BY <1>12 DEF StopRollback, PromotionsWrite, TypeOK, Processes, Alias, Decides
<1>13. CASE UNCHANGED vars
  BY <1>13 DEF vars, PromotionsWrite, Alias, Decides
<1> QED
  BY <1>1, <1>2, <1>3, <1>4, <1>5, <1>6, <1>7, <1>8, <1>9, <1>10, <1>11, <1>12, <1>13 DEF Next

\* A file that is there stays there, and the registry entry is written last.
LEMMA EntryIsLastStep ==
    ASSUME ReleaseInv, [Next]_vars
    PROVE  EntryIsLast'
<1> USE DEF ReleaseInv, inputs, packages, rolled, history, Goes, Turn, Tick
<1>1. ASSUME NEW p \in Promotions, Decide(p) PROVE EntryIsLast'
  BY <1>1, DecideEffect DEF EntryIsLast
<1>2. ASSUME NEW p \in Promotions, Write(p) PROVE EntryIsLast'
  BY <1>2, EntryWrittenLast, EntryReadEarly
    DEF Write, EntryIsLast, PromotionsWrite, TypeOK, InputsOK
<1>3. ASSUME NEW p \in Promotions, StopPromotion(p) PROVE EntryIsLast'
  BY <1>3, EntryWrittenLast, EntryReadEarly
    DEF StopPromotion, EntryIsLast, PromotionsWrite, TypeOK, InputsOK
<1>4. ASSUME NEW k \in Packagers, BeginPackage(k) PROVE EntryIsLast'
  BY <1>4 DEF BeginPackage, EntryIsLast
<1>5. ASSUME NEW k \in Packagers, ReadEvidence(k) PROVE EntryIsLast'
  BY <1>5, ReadEffect DEF EntryIsLast
<1>6. ASSUME NEW k \in Packagers, WriteManifest(k) PROVE EntryIsLast'
  BY <1>6 DEF WriteManifest, EntryIsLast
<1>7. ASSUME NEW k \in Packagers, WritePlan(k) PROVE EntryIsLast'
  BY <1>7 DEF WritePlan, EntryIsLast
<1>8. ASSUME NEW k \in Packagers, StopPackager(k) PROVE EntryIsLast'
  BY <1>8, StopPackagerEffect DEF EntryIsLast
<1>9. ASSUME NEW d \in Profiles, Announce(d) PROVE EntryIsLast'
  BY <1>9 DEF Announce, EntryIsLast
<1>10. ASSUME NEW r \in Rollbacks, ReadPackage(r) PROVE EntryIsLast'
  BY <1>10 DEF ReadPackage, EntryIsLast
<1>11. ASSUME NEW r \in Rollbacks, Rollback(r) PROVE EntryIsLast'
  BY <1>11 DEF Rollback, EntryIsLast
<1>12. ASSUME NEW r \in Rollbacks, StopRollback(r) PROVE EntryIsLast'
  BY <1>12 DEF StopRollback, EntryIsLast
<1>13. CASE UNCHANGED vars
  BY <1>13 DEF vars, EntryIsLast
<1> QED
  BY <1>1, <1>2, <1>3, <1>4, <1>5, <1>6, <1>7, <1>8, <1>9, <1>10, <1>11, <1>12, <1>13 DEF Next

\* Only a promotion with a known alias gets as far as writing.
LEMMA NamesAreKnownStep ==
    ASSUME ReleaseInv, [Next]_vars
    PROVE  NamesAreKnown'
<1> USE DEF ReleaseInv, inputs, packages, rolled, history, Goes, Turn, Tick
<1>1. ASSUME NEW p \in Promotions, Decide(p) PROVE NamesAreKnown'
  BY <1>1, DecideEffect DEF NamesAreKnown, Alias, Decides
<1>2. ASSUME NEW p \in Promotions, Write(p) PROVE NamesAreKnown'
  BY <1>2
    DEF Write, NamesAreKnown, PromotionsWrite, TypeOK, InputsOK, Processes, Alias, Decides,
        Manifests, NoManifest, Unread
<1>3. ASSUME NEW p \in Promotions, StopPromotion(p) PROVE NamesAreKnown'
  BY <1>3 DEF StopPromotion, NamesAreKnown, TypeOK, Alias, Decides
<1>4. ASSUME NEW k \in Packagers, BeginPackage(k) PROVE NamesAreKnown'
  BY <1>4 DEF BeginPackage, NamesAreKnown, Alias, Decides
<1>5. ASSUME NEW k \in Packagers, ReadEvidence(k) PROVE NamesAreKnown'
  <2>1. /\ UNCHANGED <<inputs, evidence, packages>>
        /\ \/ seen' = [seen EXCEPT ![k] = Unread]
           \/ \E file \in FileNames :
                  seen' = [seen EXCEPT ![k] = [seen[k] EXCEPT ![file] = evidence[file]]]
    BY <1>5, ReadEffect DEF TypeOK
  <2>2. \A f \in ReadNames, q \in Packagers :
            seen'[q][f] \in {seen[q][f], "none"} \union {evidence[file] : file \in FileNames}
    BY <2>1 DEF TypeOK, Unread
  <2> QED
    BY <2>1, <2>2 DEF NamesAreKnown, Alias, Decides
<1>6. ASSUME NEW k \in Packagers, WriteManifest(k) PROVE NamesAreKnown'
  BY <1>6
    DEF WriteManifest, NamesAreKnown, PromotionsWrite, TypeOK, InputsOK, Processes, Alias,
        Decides, Manifests, NoManifest, Unread
<1>7. ASSUME NEW k \in Packagers, WritePlan(k) PROVE NamesAreKnown'
  BY <1>7 DEF WritePlan, NamesAreKnown, Alias, Decides
<1>8. ASSUME NEW k \in Packagers, StopPackager(k) PROVE NamesAreKnown'
  <2>1. /\ UNCHANGED <<inputs, evidence, seen>>
        /\ manifest' \in {manifest, [manifest EXCEPT ![target[k]] = NoManifest]}
    BY <1>8, StopPackagerEffect
  <2>2. \A d \in Profiles, f \in ReadNames : manifest'[d].from[f] \in {manifest[d].from[f], "none"}
    BY <2>1 DEF TypeOK, NoManifest, Unread
  <2> QED
    BY <2>1, <2>2 DEF NamesAreKnown, Alias, Decides
<1>9. ASSUME NEW d \in Profiles, Announce(d) PROVE NamesAreKnown'
  BY <1>9 DEF Announce, NamesAreKnown, Alias, Decides
<1>10. ASSUME NEW r \in Rollbacks, ReadPackage(r) PROVE NamesAreKnown'
  BY <1>10 DEF ReadPackage, NamesAreKnown, Alias, Decides
<1>11. ASSUME NEW r \in Rollbacks, Rollback(r) PROVE NamesAreKnown'
  BY <1>11 DEF Rollback, NamesAreKnown, Alias, Decides
<1>12. ASSUME NEW r \in Rollbacks, StopRollback(r) PROVE NamesAreKnown'
  BY <1>12 DEF StopRollback, NamesAreKnown, Alias, Decides
<1>13. CASE UNCHANGED vars
  BY <1>13 DEF vars, NamesAreKnown, Alias, Decides
<1> QED
  BY <1>1, <1>2, <1>3, <1>4, <1>5, <1>6, <1>7, <1>8, <1>9, <1>10, <1>11, <1>12, <1>13 DEF Next

\* A packager has passed the registry entry before it takes anything for missing.
LEMMA PackagersReadStep ==
    ASSUME ReleaseInv, [Next]_vars
    PROVE  PackagersRead'
<1> USE DEF ReleaseInv, inputs, packages, rolled, history, Goes, Turn, Tick
<1>1. ASSUME NEW p \in Promotions, Decide(p) PROVE PackagersRead'
  <2>1. /\ UNCHANGED <<inputs, todo, evidence, seen>>
        /\ \A y \in Packagers : phase'[y] = phase[y]
    BY <1>1, DecideEffect DEF Processes
  <2> QED
    BY <2>1 DEF PackagersRead, Decides
<1>2. ASSUME NEW p \in Promotions, Write(p) PROVE PackagersRead'
  BY <1>2 DEF Write, PackagersRead, Decides
<1>3. ASSUME NEW p \in Promotions, StopPromotion(p) PROVE PackagersRead'
  BY <1>3 DEF StopPromotion, PackagersRead, TypeOK, Processes, InputsOK, Decides
<1>4. ASSUME NEW k \in Packagers, BeginPackage(k) PROVE PackagersRead'
  BY <1>4 DEF BeginPackage, PackagersRead, Decides
<1>5. ASSUME NEW k \in Packagers, ReadEvidence(k) PROVE PackagersRead'
  <2>1. /\ UNCHANGED <<inputs, evidence>>
        /\ phase[k] = "reading"
        /\ \A y \in Packagers \ {k} :
               phase'[y] = phase[y] /\ seen'[y] = seen[y] /\ todo'[y] = todo[y]
    BY <1>5, ReadEffect DEF Processes, TypeOK
  <2>2. CASE phase'[k] = "refused" /\ todo' = todo
    BY <2>1, <2>2 DEF PackagersRead, Decides
  <2>3. ASSUME NEW file \in todo[k],
               Turn(k, file, ReadOrder),
               evidence[file] # "torn", file \in Required => evidence[file] # "none",
               phase'[k] = IF todo[k] = {file} THEN "packing" ELSE "reading",
               seen'[k] = [seen[k] EXCEPT ![file] = evidence[file]],
               todo'[k] = todo[k] \ {file},
               todo[k] = {file} => Decides([seen[k] EXCEPT ![file] = evidence[file]]["promotion_decision"])
        PROVE  PackagersRead'
    <3>1. evidence[file] \in Promotions \union {"none", "torn"}
      BY <2>3 DEF TypeOK
    <3>2. file \in tracked \intersect ReadNames => evidence[file] \in Promotions
      <4>1. CASE file \in Required
        BY <2>3, <3>1, <4>1
      <4>2. CASE file \notin Required
        <5>1. file \in ReadNames => "registry_entry" \notin todo[k]
          BY <2>3, <4>2, EntryReadEarly DEF Turn
        <5> QED
          BY <2>3, <3>1, <5>1 DEF PackagersRead, EntryIsLast
      <4> QED
        BY <4>1, <4>2
    <3>3. "registry_entry" \notin todo'[k] => evidence["registry_entry"] # "none"
      BY <2>3, EntryReadEarly DEF PackagersRead
    <3>4. \A f \in (tracked \intersect ReadNames) \ todo'[k] : seen'[k][f] \in Promotions
      BY <2>1, <2>3, <3>2 DEF PackagersRead, TypeOK
    <3>5. phase'[k] = "packing" => todo'[k] = {} /\ Decides(seen'[k]["promotion_decision"])
      BY <2>3
    <3>6. phase'[k] # "waiting"
      BY <2>3
    <3>7. \A x \in Promotions \union {"none", "torn"} : Decides(x)' <=> Decides(x)
      BY <2>1 DEF Decides
    <3>8. ASSUME NEW y \in Packagers \ {k}
          PROVE  /\ phase'[y] = "waiting" => todo'[y] = tracked' \intersect ReadNames
                 /\ "registry_entry" \notin todo'[y] => evidence'["registry_entry"] # "none"
                 /\ phase'[y] \in {"reading", "packing"} =>
                        \A f \in (tracked' \intersect ReadNames) \ todo'[y] : seen'[y][f] \in Promotions
                 /\ phase'[y] = "packing" => todo'[y] = {} /\ Decides(seen'[y]["promotion_decision"])
      BY <2>1 DEF PackagersRead
    <3> QED
      BY <2>1, <3>3, <3>4, <3>5, <3>6, <3>8 DEF PackagersRead, Decides
  <2> QED
    BY <1>5, <2>2, <2>3, ReadEffect DEF TypeOK
<1>6. ASSUME NEW k \in Packagers, WriteManifest(k) PROVE PackagersRead'
  BY <1>6 DEF WriteManifest, PackagersRead, TypeOK, Processes, Decides
<1>7. ASSUME NEW k \in Packagers, WritePlan(k) PROVE PackagersRead'
  BY <1>7 DEF WritePlan, PackagersRead, Decides
<1>8. ASSUME NEW k \in Packagers, StopPackager(k) PROVE PackagersRead'
  BY <1>8, StopPackagerEffect DEF PackagersRead, TypeOK, Processes, Decides
<1>9. ASSUME NEW d \in Profiles, Announce(d) PROVE PackagersRead'
  BY <1>9 DEF Announce, PackagersRead, Decides
<1>10. ASSUME NEW r \in Rollbacks, ReadPackage(r) PROVE PackagersRead'
  BY <1>10 DEF ReadPackage, PackagersRead, TypeOK, Processes, Decides
<1>11. ASSUME NEW r \in Rollbacks, Rollback(r) PROVE PackagersRead'
  BY <1>11 DEF Rollback, PackagersRead, TypeOK, Processes, Decides
<1>12. ASSUME NEW r \in Rollbacks, StopRollback(r) PROVE PackagersRead'
  BY <1>12 DEF StopRollback, PackagersRead, TypeOK, Processes, Decides
<1>13. CASE UNCHANGED vars
  BY <1>13 DEF vars, PackagersRead, Decides
<1> QED
  BY <1>1, <1>2, <1>3, <1>4, <1>5, <1>6, <1>7, <1>8, <1>9, <1>10, <1>11, <1>12, <1>13 DEF Next

\* Whoever begins while another writes takes its name off the list.
LEMMA AloneWritesStep ==
    ASSUME ReleaseInv, [Next]_vars
    PROVE  AloneWrites'
<1> USE DEF ReleaseInv, inputs, packages, rolled, history, Goes, Turn, Tick
<1>1. ASSUME NEW p \in Promotions, Decide(p) PROVE AloneWrites'
  <2>1. /\ UNCHANGED <<inputs, todo, evidence>>
        /\ phase[p] = "waiting" /\ phase'[p] \in {"writing", "refused"}
        /\ \A y \in Promotions \ {p} : phase'[y] = phase[y]
        /\ phase'[p] = "refused" => alone' = alone
        /\ phase'[p] = "writing" =>
               alone' = (alone \ Writing) \union (IF Writing = {} THEN {p} ELSE {})
    BY <1>1, DecideEffect DEF Processes
  <2>2. CASE phase'[p] = "refused"
    BY <2>1, <2>2 DEF AloneWrites, Writing, TypeOK
  <2>3. CASE phase'[p] = "writing"
    <3>1. \A q \in alone' \ {p} : phase'[q] \notin {"waiting", "writing"}
      BY <2>1, <2>3 DEF Writing, AloneWrites, TypeOK
    <3>2. p \in alone' => Writing' = {p}
      BY <2>1, <2>3 DEF Writing, AloneWrites, TypeOK
    <3>3. tracked \ todo'[p] = {}
      BY <2>1 DEF PromotionsWrite
    <3> QED
      BY <2>1, <3>1, <3>2, <3>3 DEF AloneWrites
  <2> QED
    BY <2>1, <2>2, <2>3
<1>2. ASSUME NEW p \in Promotions, Write(p) PROVE AloneWrites'
  BY <1>2 DEF Write, AloneWrites, TypeOK, Writing
<1>3. ASSUME NEW p \in Promotions, StopPromotion(p) PROVE AloneWrites'
  BY <1>3 DEF StopPromotion, AloneWrites, TypeOK, Processes, Writing
<1>4. ASSUME NEW k \in Packagers, BeginPackage(k) PROVE AloneWrites'
  BY <1>4 DEF BeginPackage, AloneWrites, Writing
<1>5. ASSUME NEW k \in Packagers, ReadEvidence(k) PROVE AloneWrites'
  <2>1. /\ UNCHANGED <<inputs, evidence, history>>
        /\ \A y \in Promotions : phase'[y] = phase[y] /\ todo'[y] = todo[y]
    BY <1>5, ReadEffect DEF Processes, TypeOK
  <2>2. Writing' = Writing /\ tracked' = tracked /\ alone \subseteq Promotions
    BY <2>1 DEF Writing, TypeOK
  <2> HIDE DEF ReleaseInv
  <2>3. AloneWrites
    BY DEF ReleaseInv
  <2> QED
    BY <2>1, <2>2, <2>3 DEF AloneWrites
<1>6. ASSUME NEW k \in Packagers, WriteManifest(k) PROVE AloneWrites'
  BY <1>6 DEF WriteManifest, AloneWrites, Writing
<1>7. ASSUME NEW k \in Packagers, WritePlan(k) PROVE AloneWrites'
  BY <1>7 DEF WritePlan, AloneWrites, Writing
<1>8. ASSUME NEW k \in Packagers, StopPackager(k) PROVE AloneWrites'
  <2>1. /\ UNCHANGED <<inputs, todo, evidence, history>>
        /\ \A y \in Promotions : phase'[y] = phase[y]
    BY <1>8, StopPackagerEffect DEF Processes
  <2> QED
    BY <2>1 DEF AloneWrites, Writing, TypeOK
<1>9. ASSUME NEW d \in Profiles, Announce(d) PROVE AloneWrites'
  BY <1>9 DEF Announce, AloneWrites, Writing
<1>10. ASSUME NEW r \in Rollbacks, ReadPackage(r) PROVE AloneWrites'
  BY <1>10 DEF ReadPackage, AloneWrites, TypeOK, Processes, Writing
<1>11. ASSUME NEW r \in Rollbacks, Rollback(r) PROVE AloneWrites'
  BY <1>11 DEF Rollback, AloneWrites, TypeOK, Processes, Writing
<1>12. ASSUME NEW r \in Rollbacks, StopRollback(r) PROVE AloneWrites'
  BY <1>12 DEF StopRollback, AloneWrites, TypeOK, Processes, Writing
<1>13. CASE UNCHANGED vars
  BY <1>13 DEF vars, AloneWrites, Writing
<1> QED
  BY <1>1, <1>2, <1>3, <1>4, <1>5, <1>6, <1>7, <1>8, <1>9, <1>10, <1>11, <1>12, <1>13 DEF Next

\* Evidence is clean when one alone has written it, until the next begins.
LEMMA CleanIsOneStep ==
    ASSUME ReleaseInv, [Next]_vars
    PROVE  CleanIsOne'
<1> USE DEF ReleaseInv, inputs, packages, rolled, history, Goes, Turn, Tick
<1>1. ASSUME NEW p \in Promotions, Decide(p) PROVE CleanIsOne'
  <2>1. /\ UNCHANGED <<inputs, todo, evidence, seen>>
        /\ phase[p] = "waiting" /\ phase'[p] \in {"writing", "refused"}
        /\ \A y \in (Promotions \union Packagers) \ {p} : phase'[y] = phase[y]
        /\ phase'[p] = "refused" => UNCHANGED <<clean, calm>>
        /\ phase'[p] = "writing" => clean' = FALSE /\ calm' = {}
    BY <1>1, DecideEffect DEF Processes
  <2>2. CASE phase'[p] = "refused"
    BY <2>1, <2>2 DEF CleanIsOne, Writing, TypeOK
  <2>3. CASE phase'[p] = "writing"
    BY <2>1, <2>3 DEF CleanIsOne
  <2> QED
    BY <2>1, <2>2, <2>3
<1>2. ASSUME NEW p \in Promotions, Write(p) PROVE CleanIsOne'
  BY <1>2
    DEF Write, CleanIsOne, AloneWrites, Writing, PromotionsWrite, PackagersRead, TypeOK, InputsOK,
        Processes
<1>3. ASSUME NEW p \in Promotions, StopPromotion(p) PROVE CleanIsOne'
  BY <1>3 DEF StopPromotion, CleanIsOne, Writing
<1>4. ASSUME NEW k \in Packagers, BeginPackage(k) PROVE CleanIsOne'
  BY <1>4
    DEF BeginPackage, CleanIsOne, AloneWrites, Writing, PromotionsWrite, PackagersRead, TypeOK,
        InputsOK, Processes
<1>5. ASSUME NEW k \in Packagers, ReadEvidence(k) PROVE CleanIsOne'
  <2>1. /\ UNCHANGED <<inputs, evidence, history>>
        /\ phase[k] = "reading"
        /\ \A y \in (Promotions \union Packagers) \ {k} : phase'[y] = phase[y]
    BY <1>5, ReadEffect DEF Processes
  <2>2. /\ \A y \in Packagers \ {k} : seen'[y] = seen[y] /\ todo'[y] = todo[y]
        /\ phase'[k] # "refused" => \E file \in todo[k] :
               /\ seen'[k] = [seen[k] EXCEPT ![file] = evidence[file]]
               /\ todo'[k] = todo[k] \ {file}
    <3>1. CASE /\ phase'[k] = "refused" /\ todo' = todo
               /\ seen' = [seen EXCEPT ![k] = Unread]
      BY <3>1 DEF TypeOK
    <3>2. ASSUME NEW file \in todo[k],
                 seen' = [seen EXCEPT ![k] = [seen[k] EXCEPT ![file] = evidence[file]]],
                 todo' = [todo EXCEPT ![k] = todo[k] \ {file}]
          PROVE  /\ \A y \in Packagers \ {k} : seen'[y] = seen[y] /\ todo'[y] = todo[y]
                 /\ seen'[k] = [seen[k] EXCEPT ![file] = evidence[file]]
                 /\ todo'[k] = todo[k] \ {file}
      BY <3>2 DEF TypeOK
    <3> QED
      BY <1>5, <3>1, <3>2, ReadEffect
  <2>3. Writing' = Writing
    BY <2>1 DEF Writing
  <2>4. ASSUME k \in calm, phase'[k] # "refused", NEW f \in (tracked \intersect ReadNames) \ todo'[k]
        PROVE  seen'[k][f] = evidence[f]
    <3>1. PICK file \in todo[k] :
              /\ seen'[k] = [seen[k] EXCEPT ![file] = evidence[file]]
              /\ todo'[k] = todo[k] \ {file}
      BY <2>2, <2>4
    <3>2. f # file => seen[k][f] = evidence[f]
      BY <2>1, <2>4, <3>1 DEF CleanIsOne
    <3>3. seen[k] \in [ReadNames -> Promotions \union {"none"}]
      BY DEF TypeOK
    <3> QED
      BY <2>4, <3>1, <3>2, <3>3
  <2>5. clean' => Writing' = {} /\ \E p \in Promotions : \A f \in tracked' : evidence'[f] = p
    BY <2>1, <2>3 DEF CleanIsOne
  <2>6. ASSUME NEW y \in calm, phase'[y] \in {"reading", "packing"}
        PROVE  \A f \in (tracked \intersect ReadNames) \ todo'[y] : seen'[y][f] = evidence[f]
    BY <2>1, <2>2, <2>4, <2>6 DEF CleanIsOne, TypeOK
  <2>7. (calm # {} => clean) /\ calm' = calm /\ clean' = clean
    BY <2>1 DEF CleanIsOne
  <2>8. \A y \in calm' : phase'[y] \in {"reading", "packing"} =>
            \A f \in (tracked' \intersect ReadNames) \ todo'[y] : seen'[y][f] = evidence'[f]
    BY <2>1, <2>6
  <2> QED
    BY <2>5, <2>7, <2>8 DEF CleanIsOne
<1>6. ASSUME NEW k \in Packagers, WriteManifest(k) PROVE CleanIsOne'
  BY <1>6 DEF WriteManifest, CleanIsOne, TypeOK, Processes, Writing
<1>7. ASSUME NEW k \in Packagers, WritePlan(k) PROVE CleanIsOne'
  BY <1>7 DEF WritePlan, CleanIsOne, Writing
<1>8. ASSUME NEW k \in Packagers, StopPackager(k) PROVE CleanIsOne'
  <2>1. /\ UNCHANGED <<inputs, todo, evidence, seen, history>>
        /\ phase'[k] = "stopped"
        /\ \A y \in (Promotions \union Packagers) \ {k} : phase'[y] = phase[y]
    BY <1>8, StopPackagerEffect DEF Processes
  <2>2. Writing' = Writing
    BY <2>1 DEF Writing
  <2>3. \A y \in calm : phase'[y] \in {"reading", "packing"} => phase[y] = phase'[y]
    BY <2>1 DEF TypeOK
  <2> QED
    BY <2>1, <2>2, <2>3 DEF CleanIsOne
<1>9. ASSUME NEW d \in Profiles, Announce(d) PROVE CleanIsOne'
  BY <1>9 DEF Announce, CleanIsOne, Writing
<1>10. ASSUME NEW r \in Rollbacks, ReadPackage(r) PROVE CleanIsOne'
  <2>1. /\ UNCHANGED <<inputs, todo, evidence, seen, history>>
        /\ \A y \in Promotions \union Packagers : phase'[y] = phase[y]
    BY <1>10 DEF ReadPackage, TypeOK, Processes
  <2>2. Writing' = Writing
    BY <2>1 DEF Writing
  <2>3. calm \subseteq Packagers
    BY DEF TypeOK
  <2> QED
    BY <2>1, <2>2, <2>3 DEF CleanIsOne
<1>11. ASSUME NEW r \in Rollbacks, Rollback(r) PROVE CleanIsOne'
  BY <1>11 DEF Rollback, CleanIsOne, TypeOK, Processes, Writing
<1>12. ASSUME NEW r \in Rollbacks, StopRollback(r) PROVE CleanIsOne'
  BY <1>12 DEF StopRollback, CleanIsOne, TypeOK, Processes, Writing
<1>13. CASE UNCHANGED vars
  BY <1>13 DEF vars, CleanIsOne, Writing
<1> QED
  BY <1>1, <1>2, <1>3, <1>4, <1>5, <1>6, <1>7, <1>8, <1>9, <1>10, <1>11, <1>12, <1>13 DEF Next

\* A manifest is made once everything is read.
LEMMA PackagesHoldAllEvidenceStep ==
    ASSUME ReleaseInv, [Next]_vars
    PROVE  PackagesHoldAllEvidence'
<1> USE DEF ReleaseInv, inputs, packages, rolled, history, Goes, Turn, Tick
<1>1. ASSUME NEW p \in Promotions, Decide(p) PROVE PackagesHoldAllEvidence'
  BY <1>1, DecideEffect DEF PackagesHoldAllEvidence, Holds
<1>2. ASSUME NEW p \in Promotions, Write(p) PROVE PackagesHoldAllEvidence'
  BY <1>2 DEF Write, PackagesHoldAllEvidence, Holds
<1>3. ASSUME NEW p \in Promotions, StopPromotion(p) PROVE PackagesHoldAllEvidence'
  BY <1>3 DEF StopPromotion, PackagesHoldAllEvidence, Holds
<1>4. ASSUME NEW k \in Packagers, BeginPackage(k) PROVE PackagesHoldAllEvidence'
  BY <1>4 DEF BeginPackage, PackagesHoldAllEvidence, Holds
<1>5. ASSUME NEW k \in Packagers, ReadEvidence(k) PROVE PackagesHoldAllEvidence'
  BY <1>5, ReadEffect DEF PackagesHoldAllEvidence, Holds
<1>6. ASSUME NEW k \in Packagers, WriteManifest(k) PROVE PackagesHoldAllEvidence'
  BY <1>6
    DEF WriteManifest, PackagesHoldAllEvidence, PackagersRead, TypeOK, InputsOK, Holds, Manifests,
        NoManifest
<1>7. ASSUME NEW k \in Packagers, WritePlan(k) PROVE PackagesHoldAllEvidence'
  BY <1>7 DEF WritePlan, PackagesHoldAllEvidence, Holds
<1>8. ASSUME NEW k \in Packagers, StopPackager(k) PROVE PackagesHoldAllEvidence'
  <2>1. /\ UNCHANGED inputs
        /\ manifest' \in {manifest, [manifest EXCEPT ![target[k]] = NoManifest]}
    BY <1>8, StopPackagerEffect
  <2>2. \A d \in Profiles : manifest'[d].made => manifest'[d] = manifest[d]
    BY <2>1 DEF TypeOK, NoManifest
  <2> QED
    BY <2>1, <2>2 DEF PackagesHoldAllEvidence, Holds
<1>9. ASSUME NEW d \in Profiles, Announce(d) PROVE PackagesHoldAllEvidence'
  BY <1>9 DEF Announce, PackagesHoldAllEvidence, Holds
<1>10. ASSUME NEW r \in Rollbacks, ReadPackage(r) PROVE PackagesHoldAllEvidence'
  BY <1>10 DEF ReadPackage, PackagesHoldAllEvidence, Holds
<1>11. ASSUME NEW r \in Rollbacks, Rollback(r) PROVE PackagesHoldAllEvidence'
  BY <1>11 DEF Rollback, PackagesHoldAllEvidence, Holds
<1>12. ASSUME NEW r \in Rollbacks, StopRollback(r) PROVE PackagesHoldAllEvidence'
  BY <1>12 DEF StopRollback, PackagesHoldAllEvidence, Holds
<1>13. CASE UNCHANGED vars
  BY <1>13 DEF vars, PackagesHoldAllEvidence, Holds
<1> QED
  BY <1>1, <1>2, <1>3, <1>4, <1>5, <1>6, <1>7, <1>8, <1>9, <1>10, <1>11, <1>12, <1>13 DEF Next

\* A manifest made calmly is made from clean evidence.
LEMMA EvidenceOfOneRunStep ==
    ASSUME ReleaseInv, [Next]_vars
    PROVE  EvidenceOfOneRun'
<1> USE DEF ReleaseInv, inputs, packages, rolled, history, Goes, Turn, Tick
<1>1. ASSUME NEW p \in Promotions, Decide(p) PROVE EvidenceOfOneRun'
  <2>1. UNCHANGED <<inputs, packages>>
    BY <1>1, DecideEffect
  <2> QED
    BY <2>1 DEF EvidenceOfOneRun, Decides
<1>2. ASSUME NEW p \in Promotions, Write(p) PROVE EvidenceOfOneRun'
  BY <1>2 DEF Write, EvidenceOfOneRun, Decides
<1>3. ASSUME NEW p \in Promotions, StopPromotion(p) PROVE EvidenceOfOneRun'
  BY <1>3 DEF StopPromotion, EvidenceOfOneRun, Decides
<1>4. ASSUME NEW k \in Packagers, BeginPackage(k) PROVE EvidenceOfOneRun'
  BY <1>4 DEF BeginPackage, EvidenceOfOneRun, Decides
<1>5. ASSUME NEW k \in Packagers, ReadEvidence(k) PROVE EvidenceOfOneRun'
  BY <1>5, ReadEffect DEF EvidenceOfOneRun, Decides
<1>6. ASSUME NEW k \in Packagers, WriteManifest(k) PROVE EvidenceOfOneRun'
  <2>1. /\ UNCHANGED inputs /\ phase[k] = "packing"
        /\ \E passed \in BOOLEAN :
               manifest' = [manifest EXCEPT ![target[k]] =
                               [made |-> TRUE, from |-> seen[k], gitops |-> passed, calm |-> k \in calm]]
    BY <1>6 DEF WriteManifest
  <2>2. \A d \in Profiles : manifest'[d] # manifest[d] => 
            manifest'[d].from = seen[k] /\ manifest'[d].calm = (k \in calm)
    BY <2>1 DEF TypeOK
  <2>3. ASSUME k \in calm
        PROVE  \E p \in Promotions :
                   Decides(p) /\ \A f \in ReadNames \intersect tracked : seen[k][f] = p
    <3>1. \A f \in tracked \intersect ReadNames : seen[k][f] = evidence[f]
      BY <2>1, <2>3 DEF CleanIsOne, PackagersRead
    <3>2. PICK p \in Promotions : \A f \in tracked : evidence[f] = p
      BY <2>3 DEF CleanIsOne
    <3>3. "promotion_decision" \in tracked \intersect ReadNames /\ Decides(seen[k]["promotion_decision"])
      BY <2>1, EntryReadEarly DEF InputsOK, PackagersRead
    <3>4. seen[k]["promotion_decision"] = p
      BY <3>1, <3>2, <3>3
    <3> QED
      BY <3>1, <3>2, <3>3, <3>4
  <2>4. \A p \in Promotions : Decides(p)' <=> Decides(p)
    BY <2>1 DEF Decides
  <2>5. ASSUME NEW d \in Profiles, manifest'[d].made, manifest'[d].calm
        PROVE  \E p \in Promotions :
                   Decides(p) /\ \A f \in ReadNames \intersect tracked : manifest'[d].from[f] = p
    <3>1. CASE manifest'[d] = manifest[d]
      BY <2>5, <3>1 DEF EvidenceOfOneRun
    <3>2. CASE manifest'[d] # manifest[d]
      BY <2>2, <2>3, <2>5, <3>2
    <3> QED
      BY <3>1, <3>2
  <2> QED
    BY <2>1, <2>4, <2>5 DEF EvidenceOfOneRun
<1>7. ASSUME NEW k \in Packagers, WritePlan(k) PROVE EvidenceOfOneRun'
  BY <1>7 DEF WritePlan, EvidenceOfOneRun, Decides
<1>8. ASSUME NEW k \in Packagers, StopPackager(k) PROVE EvidenceOfOneRun'
  <2>1. /\ UNCHANGED inputs
        /\ manifest' \in {manifest, [manifest EXCEPT ![target[k]] = NoManifest]}
    BY <1>8, StopPackagerEffect
  <2>2. \A d \in Profiles : manifest'[d].made => manifest'[d] = manifest[d]
    BY <2>1 DEF TypeOK, NoManifest
  <2> QED
    BY <2>1, <2>2 DEF EvidenceOfOneRun, Decides
<1>9. ASSUME NEW d \in Profiles, Announce(d) PROVE EvidenceOfOneRun'
  BY <1>9 DEF Announce, EvidenceOfOneRun, Decides
<1>10. ASSUME NEW r \in Rollbacks, ReadPackage(r) PROVE EvidenceOfOneRun'
  BY <1>10 DEF ReadPackage, EvidenceOfOneRun, Decides
<1>11. ASSUME NEW r \in Rollbacks, Rollback(r) PROVE EvidenceOfOneRun'
  BY <1>11 DEF Rollback, EvidenceOfOneRun, Decides
<1>12. ASSUME NEW r \in Rollbacks, StopRollback(r) PROVE EvidenceOfOneRun'
  BY <1>12 DEF StopRollback, EvidenceOfOneRun, Decides
<1>13. CASE UNCHANGED vars
  BY <1>13 DEF vars, EvidenceOfOneRun, Decides
<1> QED
  BY <1>1, <1>2, <1>3, <1>4, <1>5, <1>6, <1>7, <1>8, <1>9, <1>10, <1>11, <1>12, <1>13 DEF Next

\* The webhook is accepted for an approved decision and a known alias.
LEMMA AcceptedKnownStep ==
    ASSUME ReleaseInv, [Next]_vars
    PROVE  AcceptedKnown'
<1> USE DEF ReleaseInv, inputs, packages, rolled, history, Goes, Turn, Tick
<1>1. ASSUME NEW p \in Promotions, Decide(p) PROVE AcceptedKnown'
  BY <1>1, DecideEffect DEF AcceptedKnown, DecisionOf, RegistryOf, Alias, Decides
<1>2. ASSUME NEW p \in Promotions, Write(p) PROVE AcceptedKnown'
  BY <1>2 DEF Write, AcceptedKnown, DecisionOf, RegistryOf, Alias, Decides
<1>3. ASSUME NEW p \in Promotions, StopPromotion(p) PROVE AcceptedKnown'
  BY <1>3 DEF StopPromotion, AcceptedKnown, DecisionOf, RegistryOf, Alias, Decides
<1>4. ASSUME NEW k \in Packagers, BeginPackage(k) PROVE AcceptedKnown'
  BY <1>4 DEF BeginPackage, AcceptedKnown, DecisionOf, RegistryOf, Alias, Decides
<1>5. ASSUME NEW k \in Packagers, ReadEvidence(k) PROVE AcceptedKnown'
  BY <1>5, ReadEffect DEF AcceptedKnown, DecisionOf, RegistryOf, Alias, Decides
<1>6. ASSUME NEW k \in Packagers, WriteManifest(k) PROVE AcceptedKnown'
  BY <1>6 DEF WriteManifest, AcceptedKnown, DecisionOf, RegistryOf, Alias, Decides
<1>7. ASSUME NEW k \in Packagers, WritePlan(k) PROVE AcceptedKnown'
  BY <1>7 DEF WritePlan, AcceptedKnown, DecisionOf, RegistryOf, Alias, Decides
<1>8. ASSUME NEW k \in Packagers, StopPackager(k) PROVE AcceptedKnown'
  BY <1>8, StopPackagerEffect DEF AcceptedKnown, DecisionOf, RegistryOf, Alias, Decides
<1>9. ASSUME NEW d \in Profiles, Announce(d) PROVE AcceptedKnown'
  BY <1>9, EntryWrittenLast, EntryReadEarly
    DEF Announce, AcceptedKnown, NamesAreKnown, PackagesHoldAllEvidence, TypeOK, InputsOK,
        DecisionOf, RegistryOf, Alias, Decides, RegistryWebhook, PromotionPR, Checks, Holds
<1>10. ASSUME NEW r \in Rollbacks, ReadPackage(r) PROVE AcceptedKnown'
  BY <1>10 DEF ReadPackage, AcceptedKnown, DecisionOf, RegistryOf, Alias, Decides
<1>11. ASSUME NEW r \in Rollbacks, Rollback(r) PROVE AcceptedKnown'
  BY <1>11 DEF Rollback, AcceptedKnown, DecisionOf, RegistryOf, Alias, Decides
<1>12. ASSUME NEW r \in Rollbacks, StopRollback(r) PROVE AcceptedKnown'
  BY <1>12 DEF StopRollback, AcceptedKnown, DecisionOf, RegistryOf, Alias, Decides
<1>13. CASE UNCHANGED vars
  BY <1>13 DEF vars, AcceptedKnown, DecisionOf, RegistryOf, Alias, Decides
<1> QED
  BY <1>1, <1>2, <1>3, <1>4, <1>5, <1>6, <1>7, <1>8, <1>9, <1>10, <1>11, <1>12, <1>13 DEF Next

\* The record is written before the shared state.
LEMMA RecordFirstStep ==
    ASSUME ReleaseInv, [Next]_vars
    PROVE  RecordFirst'
<1> USE DEF ReleaseInv, inputs, packages, rolled, history, Goes, Turn, Tick
<1>1. ASSUME NEW p \in Promotions, Decide(p) PROVE RecordFirst'
  BY <1>1, DecideEffect DEF RecordFirst, TypeOK, Processes, RollbackWasRecorded
<1>2. ASSUME NEW p \in Promotions, Write(p) PROVE RecordFirst'
  BY <1>2 DEF Write, RecordFirst, RollbackWasRecorded
<1>3. ASSUME NEW p \in Promotions, StopPromotion(p) PROVE RecordFirst'
  BY <1>3 DEF StopPromotion, RecordFirst, RollbackWasRecorded
<1>4. ASSUME NEW k \in Packagers, BeginPackage(k) PROVE RecordFirst'
  BY <1>4 DEF BeginPackage, RecordFirst, RollbackWasRecorded
<1>5. ASSUME NEW k \in Packagers, ReadEvidence(k) PROVE RecordFirst'
  BY <1>5, ReadEffect DEF RecordFirst, TypeOK, Processes, RollbackWasRecorded
<1>6. ASSUME NEW k \in Packagers, WriteManifest(k) PROVE RecordFirst'
  BY <1>6 DEF WriteManifest, RecordFirst, RollbackWasRecorded
<1>7. ASSUME NEW k \in Packagers, WritePlan(k) PROVE RecordFirst'
  BY <1>7 DEF WritePlan, RecordFirst, RollbackWasRecorded
<1>8. ASSUME NEW k \in Packagers, StopPackager(k) PROVE RecordFirst'
  BY <1>8, StopPackagerEffect DEF RecordFirst, TypeOK, Processes, RollbackWasRecorded
<1>9. ASSUME NEW d \in Profiles, Announce(d) PROVE RecordFirst'
  BY <1>9 DEF Announce, RecordFirst, RollbackWasRecorded
<1>10. ASSUME NEW r \in Rollbacks, ReadPackage(r) PROVE RecordFirst'
  BY <1>10 DEF ReadPackage, RecordFirst, TypeOK, Processes, RollbackWasRecorded
<1>11. ASSUME NEW r \in Rollbacks, Rollback(r) PROVE RecordFirst'
  BY <1>11 DEF Rollback, RecordFirst, TypeOK, Processes, InputsOK, RollbackWasRecorded
<1>12. ASSUME NEW r \in Rollbacks, StopRollback(r) PROVE RecordFirst'
  BY <1>12 DEF StopRollback, RecordFirst, TypeOK, Processes, InputsOK, RollbackWasRecorded
<1>13. CASE UNCHANGED vars
  BY <1>13 DEF vars, RecordFirst, RollbackWasRecorded
<1> QED
  BY <1>1, <1>2, <1>3, <1>4, <1>5, <1>6, <1>7, <1>8, <1>9, <1>10, <1>11, <1>12, <1>13 DEF Next

-----------------------------------------------------------------------------
(* The invariant, and what it says.                                        *)

LEMMA ReleaseInit == Init => ReleaseInv
<1> SUFFICES ASSUME Init PROVE ReleaseInv
  OBVIOUS
<1>1. InputsOK
  BY ScenariosAreGiven DEF Init, InputsOK
<1>2. TypeOK
  BY <1>1 DEF Init, TypeOK, InputsOK, Processes, Manifests, NoManifest, Unread
<1>3. PromotionsWrite /\ EntryIsLast /\ PackagersRead
  BY <1>1, EntryReadEarly
    DEF Init, InputsOK, Processes, PromotionsWrite, EntryIsLast, PackagersRead
<1>4. NamesAreKnown
  BY DEF Init, NamesAreKnown, NoManifest, Unread
<1>5. AloneWrites /\ CleanIsOne /\ AcceptedKnown
  BY DEF Init, AloneWrites, CleanIsOne, AcceptedKnown
<1>6. PackagesHoldAllEvidence /\ EvidenceOfOneRun
  BY DEF Init, PackagesHoldAllEvidence, EvidenceOfOneRun, NoManifest
<1>7. RecordFirst
  BY DEF Init, RecordFirst, RollbackWasRecorded, Processes
<1> QED
  BY <1>1, <1>2, <1>3, <1>4, <1>5, <1>6, <1>7 DEF ReleaseInv

LEMMA ReleaseStep == ReleaseInv /\ [Next]_vars => ReleaseInv'
<1> SUFFICES ASSUME ReleaseInv, [Next]_vars PROVE ReleaseInv'
  OBVIOUS
<1>1. TypeOK' /\ InputsOK' /\ PromotionsWrite' /\ EntryIsLast' /\ NamesAreKnown' /\ PackagersRead'
  BY TypeOKStep, InputsOKStep, PromotionsWriteStep, EntryIsLastStep, NamesAreKnownStep,
     PackagersReadStep
<1>2. /\ AloneWrites' /\ CleanIsOne' /\ PackagesHoldAllEvidence'
      /\ EvidenceOfOneRun' /\ AcceptedKnown' /\ RecordFirst'
  BY AloneWritesStep, CleanIsOneStep, PackagesHoldAllEvidenceStep, EvidenceOfOneRunStep,
     AcceptedKnownStep, RecordFirstStep
<1> QED
  BY <1>1, <1>2 DEF ReleaseInv

\* Every reachable state has the invariant.
THEOREM ReleaseCorrect == Spec => []ReleaseInv
BY ReleaseInit, ReleaseStep, PTL DEF Spec

\* The state keeps its types, so a package is made of files read whole,
\* wherever promotions, packagers and rollbacks are stopped.
THEOREM ReleaseTypes == Spec => []TypeOK
<1>1. ReleaseInv => TypeOK
  BY DEF ReleaseInv
<1> QED
  BY <1>1, ReleaseCorrect, PTL

\* A package holds every file it follows, written whole by some promotion,
\* though the packager asks for three of them only: the registry entry,
\* which a promotion writes last and a packager reads early, vouches for the rest.
THEOREM PackagesAreWhole == Spec => []PackagesHoldAllEvidence
<1>1. ReleaseInv => PackagesHoldAllEvidence
  BY DEF ReleaseInv
<1> QED
  BY <1>1, ReleaseCorrect, PTL

\* A package whose evidence was one promotion's, and lay still while it was
\* read, is made from that promotion, which was approved.
THEOREM CalmPackagesAreOneRuns == Spec => []EvidenceOfOneRun
<1>1. ReleaseInv => EvidenceOfOneRun
  BY DEF ReleaseInv
<1> QED
  BY <1>1, ReleaseCorrect, PTL

\* What the controller accepts names a promotion the policy approved for
\* champion, whichever promotions overlapped in the files it was packed from.
THEOREM AcceptedIsApproved == Spec => []AcceptedWasApproved
<1>1. ReleaseInv => AcceptedWasApproved
  <2> SUFFICES ASSUME ReleaseInv, NEW m \in accepted
               PROVE  Approved(job[RegistryOf(m)].payload, "champion") /\ Decides(DecisionOf(m))
    BY DEF AcceptedWasApproved
  <2>1. Decides(DecisionOf(m)) /\ Alias(RegistryOf(m)) = "champion"
    BY DEF ReleaseInv, AcceptedKnown, Aliases
  <2>2. Decides(RegistryOf(m)) /\ job[RegistryOf(m)].stage = "champion"
    BY <2>1 DEF Alias
  <2> QED
    BY <2>1, <2>2 DEF Decides
<1> QED
  BY <1>1, ReleaseCorrect, PTL

\* For every candidate and over both bridges, the two engines differ in the
\* listed readings and places only.
THEOREM DifferencesAreKnown == Spec => []EnginesDifferAsKnown
<1>1. ReleaseInv => EnginesDifferAsKnown
  <2> SUFFICES ASSUME ReleaseInv, NEW p \in Promotions, NEW bridge \in PolicyBridges,
                      phase[p] \in {"writing", "done", "stopped"}, ~Elsewhere(job[p].payload)
               PROVE  LET c == job[p].payload
                          stage == job[p].stage
                      IN  /\ ~Decides(p) /\ MayApprove(bridge, c, stage) =>
                                 \/ ~GuardrailsPass(c)
                                 \/ "2^32" \in {c.critical, c.high}
                                 \/ \E key \in NativeKeys :
                                        <<key, c.nested[key]>> \in LaxReadings(bridge)
                          /\ Decides(p) /\ MayRefuse(bridge, c, stage) =>
                                 \E key \in NativeKeys :
                                     <<key, c.nested[key]>> \in StrictReadings(bridge)
    BY Zenon DEF EnginesDifferAsKnown
  <2>1. job[p].payload \in Candidate /\ job[p].stage \in Stages
    BY DEF ReleaseInv, InputsOK
  <2>2. ~Raises(job[p].payload)
    BY DEF ReleaseInv, PromotionsWrite
  <2> QED
    BY <2>1, <2>2, NativeIsLaxer, NativeIsStricter, Zenon DEF Decides
<1> QED
  BY <1>1, ReleaseCorrect, PTL

\* The shared rollback state only names a rollback whose package has its
\* record, wherever rollbacks are stopped.
THEOREM RollbacksAreRecorded == Spec => []RollbackWasRecorded
<1>1. ReleaseInv => RollbackWasRecorded
  BY DEF ReleaseInv, RecordFirst
<1> QED
  BY <1>1, ReleaseCorrect, PTL
=============================================================================
