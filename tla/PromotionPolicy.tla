-------------------------- MODULE PromotionPolicy --------------------------
(***************************************************************************)
(* The promotion gates, twice: src/tryops/policy.py decides a promotion,   *)
(* native/cpp/tryops_policy decides it again from lines of text.  Python   *)
(* writes those lines in native_policy.py, for its second opinion, and the *)
(* Go controller in policy_wire.go, for its own gate.                      *)
(*                                                                         *)
(* A metadata value is a JSON value, and the classes below are what one of *)
(* its readers (str, int and truth in Python, the two ways to a line, a    *)
(* comparison and atoi in C++) tells apart:                                *)
(*   absent, null, false, true, 0, 1, 1.0                                  *)
(*   1e-07    a number Python prints with an exponent                      *)
(*   2^32     a number atoi wraps to zero on the builds of the image       *)
(*   right    the text the gate asks for (any true word, any signer)       *)
(*   loose    the right text in another case or among spaces               *)
(*   other    another text        empty, spaces    texts                   *)
(*   0_1      a text int() takes for 1 and atoi for 0                      *)
(*   [], {}   the empty list, the empty object                             *)
(*   [empty], [right], [other]   a list of one text      {x}  an object    *)
(* A text of digits reads as its number in a count, as another elsewhere.  *)
(***************************************************************************)

Words == {"status", "statement_type", "predicate_type", "signature_mode",
          "serialization_policy", "scan_status", "verdict"}
Counts == {"unsafe_file_count", "safetensors_files", "failed_cases"}
Lists == {"rejected_extensions", "blocked_risk_ids"}

ProvenanceKeys == {"status", "statement_type", "predicate_type",
                   "signature_mode", "signer_identity", "verified"}
ScanKeys == {"serialization_policy", "scan_status", "unsafe_file_count",
             "safetensors_files", "rejected_extensions"}
GuardrailKeys == {"verdict", "failed_cases", "blocked_risk_ids"}
NativeKeys == ProvenanceKeys \union ScanKeys
Keys == NativeKeys \union GuardrailKeys

\* The keys Python also looks for outside the nested object.
Fallbacks == {"status"} \union ScanKeys \union GuardrailKeys

Values == {"absent", "null", "false", "true", "0", "1", "1.0", "1e-07", "2^32",
           "right", "loose", "other", "empty", "spaces", "0_1",
           "[]", "[empty]", "[right]", "[other]", "{}", "{x}"}

Stages == {"staging", "champion"}
Workloads == {"vton", "llm", "other"}
GatedWorkloads == {"vton", "llm"}
Approvers == {"mlops_owner", "risk_owner"}
RequiredArtifacts == {"model_card", "data_card", "evaluation_report", "sbom", "model_provenance"}
ArtifactNames == RequiredArtifacts \union {"guardrail_report", "model_artifact_scan"}
Metrics == {"quality", "speed", "latency", "memory"}

\* nested: under the object of its gate; flat: under Python's other name;
\* dotted: under the top-level name that the nested one is flattened to.
\* plain: no name or text has a line break or a NUL in it, no name a "="
\* and none is empty.
Candidate == [workload : Workloads, artifacts : SUBSET ArtifactNames, approvals : SUBSET Approvers,
              risk : BOOLEAN, critical : {"none", "some", "2^32"}, high : {"none", "some", "2^32"},
              signed : BOOLEAN, plain : BOOLEAN,
              nested : [Keys -> Values], flat : [Keys -> Values], dotted : [Keys -> Values],
              metrics : [Metrics -> {"in", "out", "absent", "nan"}]]

-----------------------------------------------------------------------------
(* src/tryops/policy.py                                                    *)

KnownWorkload(c) == c.workload \in GatedWorkloads
HasArtifacts(c) == RequiredArtifacts \subseteq c.artifacts
RequiredApprovals(stage) == IF stage = "champion" THEN Approvers ELSE {"mlops_owner"}
HasApprovals(c, stage) == RequiredApprovals(stage) \subseteq c.approvals
RiskAccepted(c) == c.risk
Secure(c) == c.critical = "none" /\ c.high = "none"
Signed(c) == c.signed

\* What Python reads under a key.
Read(c, key) ==
    IF c.nested[key] = "absent" /\ key \in Fallbacks THEN c.flat[key] ELSE c.nested[key]

\* False in a condition, and so zero in a count.
Falsy == {"absent", "null", "false", "0", "empty", "[]", "{}"}
AboveZero == {"true", "1", "1.0", "2^32", "0_1"}
\* int() raises on these in a count; a join on these in place of a list.
NoCount == {"right", "loose", "other", "spaces", "[empty]", "[right]", "[other]", "{x}"}
NoItems == {"true", "1", "1.0", "1e-07", "2^32"}

PythonAccepts(key, v) ==
    \/ key \in Words /\ v = "right"
    \/ key = "verified" /\ v \in {"true", "1", "right", "loose"}
    \/ key = "signer_identity" /\ v \notin {"absent", "empty", "spaces"}
    \/ key \in {"unsafe_file_count", "failed_cases"} /\ v \notin AboveZero
    \/ key = "safetensors_files" /\ v \in AboveZero
    \/ key \in Lists /\ v \in Falsy

PythonRaises(key, v) == (key \in Counts /\ v \in NoCount) \/ (key \in Lists /\ v \in NoItems)

Accepts(c, key) == PythonAccepts(key, Read(c, key))

\* The decision is not made: a value its gate cannot convert raises.
Raises(c) ==
    \E key \in (IF KnownWorkload(c) THEN ScanKeys ELSE {})
                   \union (IF c.workload = "llm" THEN GuardrailKeys ELSE {}) :
        PythonRaises(key, Read(c, key))

ProvenancePasses(c) ==
    KnownWorkload(c) =>
        "model_provenance" \in c.artifacts /\ \A key \in ProvenanceKeys : Accepts(c, key)

GuardrailsPass(c) ==
    c.workload = "llm" =>
        "guardrail_report" \in c.artifacts /\ \A key \in GuardrailKeys : Accepts(c, key)

\* A plausible bug, used nowhere: the scan is asked of try-on models only.
ScanOfImages(c) ==
    c.workload = "vton" =>
        "model_artifact_scan" \in c.artifacts /\ \A key \in ScanKeys : Accepts(c, key)

ScanPasses(c) ==
    KnownWorkload(c) =>
        "model_artifact_scan" \in c.artifacts /\ \A key \in ScanKeys : Accepts(c, key)

\* No comparison with a NaN fails.
MetricsPass(c) ==
    KnownWorkload(c) => \A m \in Metrics : c.metrics[m] \in {"in", "nan"}

Approved(c, stage) ==
    /\ KnownWorkload(c)
    /\ HasArtifacts(c)
    /\ HasApprovals(c, stage)
    /\ RiskAccepted(c)
    /\ Secure(c)
    /\ Signed(c)
    /\ ProvenancePasses(c)
    /\ GuardrailsPass(c)
    /\ ScanPasses(c)
    /\ MetricsPass(c)

-----------------------------------------------------------------------------
(* The two bridges: a value as the text of a line.                         *)

PolicyBridges == {"python", "go"}

\* An object is flattened away, a list joined; null is None in Python and
\* nothing in Go, which prints no exponent and no fraction that is zero and
\* leaves empty items out.
WireText(bridge, v) ==
    CASE v \in {"absent", "{}", "{x}"} -> "no line"
      [] v = "null" -> IF bridge = "python" THEN "None" ELSE "empty"
      [] v \in {"[]", "[empty]"} -> "empty"
      [] v = "[right]" -> "right"
      [] v = "[other]" -> "other"
      [] v = "1.0" /\ bridge = "go" -> "1"
      [] v = "1e-07" /\ bridge = "go" -> "0.0000001"
      [] OTHER -> v

\* The texts that may be the last under the dotted key: Python sorts, and
\* the top-level name comes after the object; Go ranges over a map.
Lines(bridge, c, key) ==
    LET inner == WireText(bridge, c.nested[key])
        outer == WireText(bridge, c.dotted[key])
    IN  IF outer = "no line" THEN {inner}
        ELSE IF bridge = "go" /\ inner # "no line" THEN {inner, outer} ELSE {outer}

-----------------------------------------------------------------------------
(* native/cpp/tryops_policy                                                *)

\* atoi, of a text Python printed for a number above zero or near it.
Atoi(text) == IF text \in {"1", "1.0", "1e-07"} THEN 1 ELSE 0

NativeAccepts(key, text) ==
    \/ key \in Words /\ text = "right"
    \/ key = "verified" /\ text \in {"true", "1", "right"}
    \/ key = "signer_identity" /\ text \notin {"no line", "empty"}
    \/ key = "unsafe_file_count" /\ Atoi(text) = 0
    \/ key = "safetensors_files" /\ Atoi(text) = 1
    \/ key = "rejected_extensions" /\ text \in {"no line", "empty"}

\* What the engine asks besides the metadata.  It looks for no guardrails.
NativeBasics(c, stage) ==
    /\ c.workload \in GatedWorkloads
    /\ RequiredArtifacts \union {"model_artifact_scan"} \subseteq c.artifacts
    /\ RequiredApprovals(stage) \subseteq c.approvals
    /\ c.risk /\ c.critical # "some" /\ c.high # "some" /\ c.signed
    /\ \A m \in Metrics : c.metrics[m] \in {"in", "nan"}

\* A name or a text that is not plain may put any line on the wire.
MayApprove(bridge, c, stage) ==
    \/ ~c.plain
    \/ /\ NativeBasics(c, stage)
       /\ \A key \in NativeKeys : \E text \in Lines(bridge, c, key) : NativeAccepts(key, text)

MayRefuse(bridge, c, stage) ==
    \/ ~c.plain
    \/ ~NativeBasics(c, stage)
    \/ \E key \in NativeKeys : \E text \in Lines(bridge, c, key) : ~NativeAccepts(key, text)

\* native_decision_matches_python compares the reasons too: those of two
\* refusals may differ in the order and the form of their numbers.
Matches(c, stage) ==
    LET same == IF Approved(c, stage) THEN MayApprove("python", c, stage) ELSE MayRefuse("python", c, stage)
        other == Approved(c, stage) => MayRefuse("python", c, stage)
    IN  {m \in BOOLEAN : IF m THEN same ELSE other}

-----------------------------------------------------------------------------
(* Where the readings differ.                                              *)

\* The values only the native engine accepts.
LaxReadings(bridge) ==
    (((Words \intersect NativeKeys) \union {"verified"}) \X {"[right]"})
        \union ({"signer_identity"} \X {"spaces"})
        \union ({"unsafe_file_count"} \X {"true", "2^32", "0_1"})
        \union ({"rejected_extensions"} \X {"{x}", "[empty]"})
        \union (IF bridge = "python" THEN {<<"safetensors_files", "1e-07">>} ELSE {<<"verified", "1.0">>})

\* The values only Python accepts.
StrictReadings(bridge) ==
    {<<"verified", "loose">>}
        \union ({"signer_identity"} \X {"[]", "[empty]", "{}", "{x}"})
        \union ({"safetensors_files"} \X {"true", "2^32", "0_1"})
        \union ({"rejected_extensions"} \X {"false", "0"})
        \union (IF bridge = "python"
                THEN {<<"unsafe_file_count", "1e-07">>, <<"rejected_extensions", "null">>}
                ELSE {<<"signer_identity", "null">>})

\* A value stands where only one of the engines looks, or is not plain.
Elsewhere(c) ==
    \/ ~c.plain
    \/ \E key \in NativeKeys : c.dotted[key] # "absent"
    \/ \E key \in NativeKeys \intersect Fallbacks : c.nested[key] = "absent" /\ c.flat[key] # "absent"

=============================================================================
