-------------------------- MODULE EvidencePrograms --------------------------
(***************************************************************************)
(* What the scripts of the Makefile do to the checkout, as sequences of    *)
(* steps: the evidence they read and write, the native tools they call,    *)
(* what each answer means for their verdict, and whether a bad verdict     *)
(* ends in a bad exit.  What they compute is left out.                     *)
(*                                                                         *)
(* The verdict of a file is the overall one it gives, such as "passed"; if *)
(* it gives none, it is bad as soon as one check, gate or objective in it  *)
(* is.  A measurement that is missing is no verdict, and a sample that     *)
(* must be refused is well when it is.                                     *)
(***************************************************************************)
EXTENDS Naturals, Sequences, TLC

\* What a step may do to the verdict: a set of "pass", "fail" and "raise".
Good == {"pass"}
Bad == {"fail"}
Boom == {"raise"}
Either == {"pass", "fail"}

\* By who answered: the tool itself, its Python twin or nobody, or the tool
\* with a bad exit code.
On(itself, otherwise, failing) ==
    [native |-> itself, python |-> otherwise, unavailable |-> otherwise, error |-> failing]
\* What it measured is written down, and no verdict depends on it.
Measured == On(Good, Good, Good)

Compiles(t, without) == <<[op |-> "build", tool |-> t, without |-> without]>>
Builds(t) == Compiles(t, {})
BuildsUnlessThere(t) == Compiles(t, {"linking", "ready"})
BuildsIfItCan(t) == Compiles(t, {"absent", "linking", "ready"})
Calls(t, bridge, effect) == <<[op |-> "call", tool |-> t, bridge |-> bridge, effect |-> effect]>>
Rules(effects) == <<[op |-> "judge", effects |-> effects]>>
OrElse(n, otherwise) == <<[op |-> "branch", skip |-> n, otherwise |-> otherwise]>>

\* A file is parsed; looked for first; decoded loosely; or must be approved.
Reads(f, missing, torn, failed) ==
    <<[op |-> "read", file |-> f, missing |-> missing, torn |-> torn, failed |-> failed]>>
Needs(f) == Reads(f, "raise", "raise", "pass")
Peeks(f) == Reads(f, "pass", "raise", "pass")
Measures(f) == Reads(f, "raise", "pass", "pass")
Hashes(f) == Reads(f, "pass", "pass", "pass")
Insists(f) == Reads(f, "raise", "raise", "raise")

\* A file holds the verdict of its script so far; or checks of its own too,
\* which the script's exit does not look at.
Writes(f, says) == <<[op |-> "write", file |-> f, says |-> says]>>
Saves(f) == Writes(f, Good)
Notes(f) == Writes(f, Either)

\* The end of a script: a bad verdict is an exit code, or only in the report.
Loud == <<[op |-> "exit", loud |-> TRUE]>>
Quiet == <<[op |-> "exit", loud |-> FALSE]>>

-----------------------------------------------------------------------------
(* src/tryops/native_*.py: the bridges to the native tools.                *)

\* The command line tool answers, or its Python reference, silently.
CallAdmission(effect) == Calls("admission_cli", "evaluator", effect)
CallAuditLog(effect) == Calls("audit_log_cli", "evaluator", effect)
CallCache(effect) == Calls("cache_cli", "evaluator", effect)
CallCost(effect) == Calls("cost_cli", "evaluator", effect)
CallDedup(effect) == Calls("dedup_cli", "evaluator", effect)
CallHll(effect) == Calls("hll_cli", "evaluator", effect)
CallRedaction(effect) == Calls("redaction_cli", "evaluator", effect)
CallRetry(effect) == Calls("retry_cli", "evaluator", effect)
CallSafety(effect) == Calls("safety_cli", "evaluator", effect)
CallSampler(effect) == Calls("sampler_cli", "evaluator", effect)

\* The tool answers, or the record says that it did not.
CallPolicy(effect) == Calls("policy_cli", "probe", effect)
CallImageMetrics(effect) == Calls("image_metrics_cli", "probe", effect)
CallVtonPreprocess(effect) == Calls("vton_preprocess_cli", "probe", effect)
CallPerfStats(effect) == Calls("perf_stats_cli", "probe", effect)
CallEnergyStats(effect) == Calls("energy_stats_cli", "probe", effect)
CallBurnRate(effect) == Calls("burn_rate_cli", "probe", effect)
CallBatchScheduler(effect) == Calls("batch_scheduler_cli", "probe", effect)
CallVtonEval(effect) == Calls("vton_eval_cli", "caught", effect)
CallQuota(effect) == Calls("gateway", "caught", effect)

\* The tool, or its Python twin where there is none; a bad exit is a record.
CallChaos(effect) == Calls("chaos_cli", "twin", effect)
CallGitops(effect) == Calls("gitops_cli", "twin", effect)
CallModelScan(effect) == Calls("model_scan_cli", "twin", effect)
CallOpenLineage(effect) == Calls("openlineage_cli", "twin", effect)
CallExperimentRouter(effect) == Calls("experiment_router_cli", "twin", effect)
CallExperimentStats(effect) == Calls("experiment_stats_cli", "twin", effect)
CallSemanticCache(effect) == Calls("semantic_cache_cli", "twin", effect)
CallProvenance(effect) == Calls("model_provenance_cli", "twin", effect)

\* The tool, or its Python twin where there is none or it fails.
CallEvalStats(effect) == Calls("eval_stats_cli", "preferred", effect)
CallGuardrail(effect) == Calls("guardrail_cli", "guarded", effect)

-----------------------------------------------------------------------------
(* scripts/evaluate_native_*.py: each native tool on its sample.           *)

EvaluateNativeAdmission == CallAdmission(On(Either, Either, Boom)) \o Saves("admission_report") \o Loud
\* Whether the inclusion proof verifies is for the report only.
EvaluateNativeAuditLog == CallAuditLog(On(Either, Good, Boom)) \o Notes("audit_log_report") \o Loud
EvaluateNativeCache == CallCache(On(Either, Either, Boom)) \o Saves("cache_report") \o Loud
EvaluateNativeCost == CallCost(On(Either, Good, Boom)) \o Saves("cost_report") \o Loud
EvaluateNativeDedup == CallDedup(On(Either, Either, Boom)) \o Saves("dedup_report") \o Loud
EvaluateNativeHll == CallHll(On(Either, Either, Boom)) \o Saves("hll_report") \o Loud
EvaluateNativeRedaction == CallRedaction(On(Either, Good, Boom)) \o Saves("redaction_report") \o Loud
EvaluateNativeRetry == CallRetry(On(Either, Either, Boom)) \o Saves("retry_report") \o Loud
EvaluateNativeSafety == CallSafety(On(Either, Either, Boom)) \o Saves("safety_report") \o Loud
EvaluateNativeSampler == CallSampler(On(Either, Good, Boom)) \o Saves("sampler_report") \o Loud

\* No report: the answer is printed.
EvaluateNativePolicy == CallPolicy(On(Either, Bad, Bad)) \o Loud
EvaluateNativeImageMetrics ==
    Needs("person_image") \o Needs("output_image") \o CallImageMetrics(On(Good, Bad, Good)) \o Loud
EvaluateNativeVtonPreprocess(image) == Needs(image) \o CallVtonPreprocess(On(Good, Bad, Bad)) \o Loud

\* The verdict on the objective, if there is one, is in the report only.
EvaluateNativePerfStats ==
    Needs("llm_benchmark") \o CallPerfStats(On(Either, Bad, Bad)) \o Saves("perf_stats") \o Quiet

\* The log of one recorded request, then both validators, which must be there.
GenerateFastapiEnvelope == Saves("fastapi_events") \o Saves("fastapi_spans") \o Needs("fastapi_events")
RunCppValidator == Calls("trace_envelope_cli", "must", Measured)
RunGoReport == Calls("trace_envelope", "must", On(Either, Boom, Boom)) \o Saves("trace_envelope_report")
EvaluateNativeTraceEnvelope ==
    GenerateFastapiEnvelope \o RunCppValidator \o Saves("trace_envelopes") \o RunGoReport \o Loud

-----------------------------------------------------------------------------
(* Try-on evidence.                                                        *)

CreateSyntheticVtonDemo == Saves("person_image") \o Saves("garment_image") \o Saves("demo_manifest") \o Quiet

\* The metadata of two good images are cached.
BuildVtonPreflight == Needs("person_image") \o Needs("garment_image") \o Saves("preflight")
BuildVtonOptionalPreprocessing ==
    Needs("person_image") \o Needs("garment_image") \o Saves("person_mask") \o Saves("garment_mask")
        \o CallVtonPreprocess(Measured) \o CallVtonPreprocess(Measured) \o Saves("preprocessing")
RunNaiveOverlayBaseline(image, report) ==
    BuildVtonPreflight \o BuildVtonOptionalPreprocessing
        \o Needs("person_image") \o Needs("garment_image") \o Saves(image) \o Saves(report)

RunVtonBaseline == RunNaiveOverlayBaseline("output_image", "baseline_report") \o Quiet
RunVtonOptionalPreprocessing == BuildVtonOptionalPreprocessing \o Quiet

\* Two configurations, compared with the person's image.
CompareOne(image, report) ==
    RunNaiveOverlayBaseline(image, report)
        \o Needs("person_image") \o Needs(image) \o CallImageMetrics(Measured) \o Needs("garment_image")
CompareVtonBaselines ==
    CompareOne("default_image", "default_report") \o CompareOne("tight_image", "tight_report")
        \o Saves("comparison") \o Saves("error_gallery")
CompareBaselinesScript == CompareVtonBaselines \o Quiet

EvaluateGarmentSimilarity == Needs("garment_image") \o Needs("output_image") \o Rules(Good)
GarmentSimilarityScript == Needs("baseline_report") \o EvaluateGarmentSimilarity \o Quiet
ClipSimilarityScript ==
    Needs("baseline_report") \o EvaluateGarmentSimilarity \o Saves("clip_similarity") \o Quiet

\* A tool that is there is given the images, read where nothing is caught.
\* Without an answer for any run there is no best run to speak of.
EvaluateRun(image, report, without) ==
    Needs(report) \o Needs("person_image") \o Needs("garment_image") \o Needs(image)
        \o CallVtonEval(On(Either, without, Boom))
EvaluateVtonAdvanced ==
    Needs("comparison") \o EvaluateRun("default_image", "default_report", Bad)
        \o EvaluateRun("tight_image", "tight_report", {"fail", "raise"})
        \o Reads("model_card", "fail", "pass", "pass") \o Saves("model_card")
        \o Saves("vton_advanced_report") \o Loud

\* An inference through the application, on images of its own; a failing
\* preprocessing tool still counts as available.
NativeVtonEvidence ==
    CallVtonPreprocess(On(Good, Bad, Good)) \o Calls("image_metrics_cli", "sweep", On(Good, Bad, Bad))
EvaluateVtonNativeApi ==
    Saves("api_person") \o Saves("api_garment") \o Rules({"pass", "fail", "raise"})
        \o NativeVtonEvidence \o Saves("api_output") \o Saves("vton_native_api_report") \o Loud

\* Whether the queue is among the metrics is for the report only.
SimulateVtonAsyncJob ==
    Saves("job_person") \o Saves("job_garment") \o Rules({"pass", "fail", "raise"}) \o Notes("vton_job_report") \o Loud

-----------------------------------------------------------------------------
(* Language model evidence.                                                *)

\* Each answer is checked for what it should mention, in the report only.
RunLlmBenchmark(report, effects) == Rules(effects) \o Saves(report)
BenchmarkLlmBaseline == RunLlmBenchmark("llm_benchmark", Either) \o Quiet
RunLlmReal == RunLlmBenchmark("llm_real", {"pass", "fail", "raise"}) \o Quiet
RunLlmBaseline == Rules({"pass", "raise"}) \o Quiet

\* A variant that cannot be loaded is a record; whether one that can meets its
\* objective, or nobody knows, is for the report only.
RunVariant == Calls("perf_stats_cli", "sweep", On(Either, Bad, Bad))
RunLlmParetoScript == RunVariant \o RunVariant \o RunVariant \o Saves("llm_pareto") \o Quiet

\* A variant that misses its objective is shown so in all but the last.
WriteLlmOptimizationReport ==
    Needs("llm_pareto") \o Rules(Either) \o Notes("optimization_markdown") \o Notes("optimization_chart")
        \o Notes("optimization_metrics") \o Saves("optimization_report")
GenerateLlmOptimizationReport == WriteLlmOptimizationReport \o Loud

RunLlmSensitivity == Rules(Good) \o Saves("llm_sensitivity")
BenchmarkLlmSensitivity == RunLlmSensitivity \o Quiet

EvaluateContinuousBatching ==
    Needs("llm_sensitivity") \o CallBatchScheduler(On(Either, Bad, Bad)) \o Saves("batching_report") \o Loud

\* What an earlier sweep left behind is taken along, its verdicts with it.
ScoreBenchmark == Needs("llm_benchmark") \o CallEvalStats(Measured) \o CallEvalStats(Measured)
RunEvalLeaderboard == ScoreBenchmark \o Peeks("llm_pareto") \o Peeks("energy_sweep") \o Notes("leaderboard")
EvalLeaderboardScript == RunEvalLeaderboard \o Quiet

SimulateLlmFallback == Rules(Good) \o Saves("llm_fallback") \o Quiet
RunLlmLoadTest == Rules({"pass", "raise"}) \o Saves("llm_load") \o Quiet

EvaluateOnlineExperimentation ==
    CallExperimentRouter(On(Either, Either, Boom)) \o CallExperimentRouter(On(Either, Bad, Boom))
        \o Saves("experiment_report") \o Loud
EvaluateOnlineExperimentAnalysis ==
    CallExperimentStats(On(Either, Bad, Boom)) \o CallEvalStats(On(Good, Bad, Bad))
        \o Saves("experiment_analysis") \o Loud

-----------------------------------------------------------------------------
(* Operations evidence.                                                    *)

\* Without the energy engine the candidate counts as using nothing.
RunEnergyDemo == CallEnergyStats(On(Either, Good, Good)) \o Saves("energy_demo") \o Quiet

\* A variant whose numbers are missing is saved as available; the table
\* printed after that cannot show it.
RunEnergySample ==
    Calls("energy_stats_cli", "swept", Measured) \o Saves("energy_sweep") \o Rules({"pass", "raise"}) \o Quiet

\* The accounting in Python is no substitute, and the report says so.
SimulateQuotaUsage == CallQuota(On(Either, Bad, Bad)) \o Saves("quota_usage") \o Quiet

EvaluateSemanticCacheWorkload == CallSemanticCache(On(Either, Either, Boom))
EvaluateFinops ==
    Needs("llm_benchmark") \o Needs("quota_usage") \o Peeks("energy_sweep")
        \o EvaluateSemanticCacheWorkload \o Rules(Either)
        \o Saves("finops_report") \o Saves("unit_economics") \o Saves("semantic_cache_report")
        \o Saves("budget_showback") \o Saves("finops_alerts") \o Loud

\* Three workloads and a drill that must page.
EvaluateSloBurnRates ==
    CallBurnRate(On(Either, Bad, Bad)) \o CallBurnRate(On(Either, Bad, Bad))
        \o CallBurnRate(On(Either, Bad, Bad)) \o CallBurnRate(On(Either, Bad, Bad))
EvaluateSloBurnRateScript ==
    Needs("llm_benchmark") \o Needs("comparison") \o Needs("endpoint_smoke")
        \o EvaluateSloBurnRates \o Saves("slo_report") \o Saves("burn_rate_alerts") \o Loud

EvaluateAlertThresholds ==
    Needs("llm_benchmark") \o Needs("comparison") \o Rules(Either) \o Saves("alert_report") \o Saves("alerts") \o Loud

\* The requests go through the application; the report is the last file.
RunEndpointSmoke ==
    Saves("smoke_person") \o Saves("smoke_garment") \o Rules({"pass", "fail", "raise"})
        \o Saves("smoke_output") \o Saves("endpoint_smoke")
SmokeDeployedEndpoints == RunEndpointSmoke \o Loud

\* Drift that was found is for the reports only.
BuildSampleDriftReports ==
    Measures("person_image") \o Measures("garment_image")
        \o Notes("image_drift") \o Notes("prompt_drift") \o Notes("drift_summary")
GenerateDriftReports == BuildSampleDriftReports \o Quiet

SimulateTracing ==
    Saves("trace_spans") \o Saves("trace_events") \o Needs("trace_spans") \o Needs("trace_events")
        \o Rules(Either) \o Saves("trace_report") \o Loud

WriteGovernanceReport == Rules(Either) \o Saves("governance_report")
GenerateGovernanceReport == WriteGovernanceReport \o Loud
ValidateGrafanaDashboards == Rules(Either) \o Saves("dashboard_report") \o Loud
WriteOrchestrationSkeleton ==
    Rules(Either) \o Saves("pipeline_dag") \o Saves("kfp_manifest") \o Saves("orchestration_report")
GenerateOrchestrationSkeleton == WriteOrchestrationSkeleton \o Loud
WriteApiKeyAuthReport == Rules(Either) \o Saves("auth_report")
EvaluateApiKeyAuth == WriteApiKeyAuthReport \o Loud

-----------------------------------------------------------------------------
(* Supply chain, release and rollback evidence.                            *)

WriteDependencyLock == Saves("requirements_lock") \o Saves("dependency_lock")
WriteSupplyChainReport == WriteDependencyLock \o Saves("sbom") \o Rules(Either) \o Saves("supply_chain_report")
GenerateSupplyChainReport == WriteSupplyChainReport \o Loud

EvaluateGuardrails == CallGuardrail(On(Either, Either, Either)) \o Saves("guardrail_report") \o Loud

\* The evidence beside the model is bound by digest if it is there at all.
BuildModelProvenance ==
    Hashes("sbom") \o Hashes("guardrail_report") \o Saves("in_toto_statement") \o Saves("signature_bundle")
        \o CallProvenance(On(Either, Either, Bad)) \o Saves("model_provenance")
\* The unsafe sample must be refused: a scanner that fails refuses it too.
ScanSamples ==
    CallModelScan(On(Either, Either, Bad)) \o CallModelScan(On(Either, Either, Good))
        \o Saves("safe_scan") \o Saves("unsafe_scan")
\* Both candidates, by both policy engines, which must agree.
EvaluateCandidates == CallPolicy(On(Either, Bad, Bad)) \o CallPolicy(On(Either, Bad, Bad))
EvaluateModelSupplyChain ==
    ScanSamples \o BuildModelProvenance \o EvaluateCandidates \o Saves("model_supply_chain_report") \o Loud

\* The second opinions, of the native policy and of the lineage check, are
\* noted and not heeded.
RunLocalPromotionPipeline ==
    CallPolicy(Measured) \o CallOpenLineage(Measured) \o Rules(Either)
        \o Saves("evidence") \o Notes("second_opinions") \o Saves("model_card")
RunLocalPromotionScript == RunLocalPromotionPipeline \o Loud

\* Approval is insisted on; the other checks are for the manifest only.
BuildDeploymentPackage ==
    Insists("evidence") \o Reads("second_opinions", "fail", "raise", "fail")
        \o CallGitops(On(Either, Either, Bad)) \o Saves("package")
PackageDeployment == BuildDeploymentPackage \o Quiet

RollbackRelease == Needs("package") \o Saves("rollback_record") \o Saves("rollback_state")
RollbackReleaseScript == RollbackRelease \o Quiet

\* Rolled back when a scenario burns the budget; a drill that does not is bad.
AutoRollback == RollbackRelease \o Saves("auto_rollback_record") \o Saves("rollback_state")
RunChaosDrill ==
    CallChaos(On(Good, Good, Bad)) \o CallBurnRate(On(Good, Bad, Good))
        \o OrElse(Len(AutoRollback), "fail") \o AutoRollback
EvaluateChaosDrill == RunChaosDrill \o Saves("chaos_report") \o Loud

\* The controller is started beside the script, which asks it once.
SimulateRegistryWebhook ==
    Needs("package") \o Calls("controller", "must", On(Either, Boom, Boom)) \o Saves("registry_webhook_report") \o Loud
SimulateSignedPrPromotion ==
    Needs("package") \o Calls("controller", "must", On(Either, Boom, Boom)) \o Saves("signed_pr_report") \o Loud

-----------------------------------------------------------------------------
(* The Makefile.                                                           *)

Target(needs, recipe) == [needs |-> needs, recipe |-> recipe]
BuildOf(t) == Target(<<>>, Builds(t))

NativeBuildTargets ==
    [policy_build |-> BuildOf("policy_cli"), admission_build |-> BuildOf("admission_cli"),
     audit_log_build |-> BuildOf("audit_log_cli"), cache_build |-> BuildOf("cache_cli"),
     cost_build |-> BuildOf("cost_cli"), dedup_build |-> BuildOf("dedup_cli"), hll_build |-> BuildOf("hll_cli"),
     redaction_build |-> BuildOf("redaction_cli"), retry_build |-> BuildOf("retry_cli"),
     safety_build |-> BuildOf("safety_cli"), sampler_build |-> BuildOf("sampler_cli"),
     image_metrics_build |-> BuildOf("image_metrics_cli"), preprocess_build |-> BuildOf("vton_preprocess_cli"),
     perf_stats_build |-> BuildOf("perf_stats_cli"), energy_build |-> BuildOf("energy_stats_cli"),
     burn_rate_build |-> BuildOf("burn_rate_cli"), scheduler_build |-> BuildOf("batch_scheduler_cli"),
     vton_eval_build |-> BuildOf("vton_eval_cli"), chaos_build |-> BuildOf("chaos_cli"),
     gitops_build |-> BuildOf("gitops_cli"), model_scan_build |-> BuildOf("model_scan_cli"),
     openlineage_build |-> BuildOf("openlineage_cli"), router_build |-> BuildOf("experiment_router_cli"),
     experiment_stats_build |-> BuildOf("experiment_stats_cli"), eval_stats_build |-> BuildOf("eval_stats_cli"),
     semantic_cache_build |-> BuildOf("semantic_cache_cli"), provenance_build |-> BuildOf("model_provenance_cli"),
     envelope_cpp_build |-> BuildOf("trace_envelope_cli"),
     guardrail_build |-> Target(<<>>, BuildsIfItCan("guardrail_cli")),
     rust_build |-> Target(<<>>, BuildsUnlessThere("gateway")),
     go_build |-> BuildOf("controller"), envelope_go_build |-> BuildOf("trace_envelope")]

NativeSampleTargets ==
    [native_admission |-> Target(<<"admission_build">>, EvaluateNativeAdmission),
     native_audit_log |-> Target(<<"audit_log_build">>, EvaluateNativeAuditLog),
     native_cache |-> Target(<<"cache_build">>, EvaluateNativeCache),
     native_cost |-> Target(<<"cost_build">>, EvaluateNativeCost),
     native_dedup |-> Target(<<"dedup_build">>, EvaluateNativeDedup),
     native_hll |-> Target(<<"hll_build">>, EvaluateNativeHll),
     native_redaction |-> Target(<<"redaction_build">>, EvaluateNativeRedaction),
     native_retry |-> Target(<<"retry_build">>, EvaluateNativeRetry),
     native_safety |-> Target(<<"safety_build">>, EvaluateNativeSafety),
     native_sampler |-> Target(<<"sampler_build">>, EvaluateNativeSampler),
     native_policy |-> Target(<<"policy_build">>, EvaluateNativePolicy),
     native_image_metrics |-> Target(<<"image_metrics_build", "vton_baseline">>, EvaluateNativeImageMetrics),
     native_vton_preprocess |-> Target(<<"preprocess_build">>,
         CreateSyntheticVtonDemo \o EvaluateNativeVtonPreprocess("person_image")
             \o EvaluateNativeVtonPreprocess("garment_image")),
     native_perf_stats |-> Target(<<"perf_stats_build", "llm_benchmark">>, EvaluateNativePerfStats),
     native_trace_envelope |-> Target(<<"envelope_go_build", "envelope_cpp_build">>, EvaluateNativeTraceEnvelope)]

TryOnTargets ==
    [vton_baseline |-> Target(<<"preprocess_build">>, CreateSyntheticVtonDemo \o RunVtonBaseline),
     vton_preprocess |-> Target(<<"preprocess_build">>, CreateSyntheticVtonDemo \o RunVtonOptionalPreprocessing),
     vton_garment_similarity |-> Target(<<"vton_baseline">>, GarmentSimilarityScript),
     vton_clip_similarity |-> Target(<<"vton_baseline">>, ClipSimilarityScript),
     vton_compare |-> Target(<<"image_metrics_build", "vton_baseline">>, CompareBaselinesScript),
     vton_advanced |-> Target(<<"vton_eval_build", "vton_compare", "pipeline">>, EvaluateVtonAdvanced),
     vton_native_api |-> Target(<<"preprocess_build", "image_metrics_build">>, EvaluateVtonNativeApi),
     vton_job |-> Target(<<>>, SimulateVtonAsyncJob),
     drift |-> Target(<<>>, CreateSyntheticVtonDemo \o GenerateDriftReports),
     benchmark |-> Target(<<"vton_compare", "llm_benchmark">>, <<>>)]

LanguageModelTargets ==
    [llm_baseline |-> Target(<<>>, RunLlmBaseline),
     llm_benchmark |-> Target(<<>>, BenchmarkLlmBaseline),
     llm_real |-> Target(<<>>, RunLlmReal),
     llm_pareto |-> Target(<<"perf_stats_build">>, RunLlmParetoScript),
     llm_optimization_report |-> Target(<<>>, GenerateLlmOptimizationReport),
     llm_sensitivity |-> Target(<<>>, BenchmarkLlmSensitivity),
     llm_continuous_batching |-> Target(<<"scheduler_build", "llm_sensitivity">>, EvaluateContinuousBatching),
     eval_leaderboard |-> Target(<<"llm_benchmark">>, EvalLeaderboardScript),
     llm_fallback |-> Target(<<>>, SimulateLlmFallback),
     llm_load |-> Target(<<>>, RunLlmLoadTest),
     experiment_routing |-> Target(<<"router_build">>, EvaluateOnlineExperimentation),
     experiment_analysis |-> Target(<<"experiment_stats_build", "eval_stats_build">>,
                                    EvaluateOnlineExperimentAnalysis)]

OperationsTargets ==
    [energy_demo |-> Target(<<"energy_build">>, RunEnergyDemo),
     energy |-> Target(<<"energy_build">>, RunEnergySample),
     quota |-> Target(<<"rust_build">>, SimulateQuotaUsage),
     finops |-> Target(<<"semantic_cache_build", "llm_benchmark", "quota">>, EvaluateFinops),
     slo_burn_rate |-> Target(<<"burn_rate_build", "llm_benchmark", "vton_compare", "endpoint_smoke">>,
                              EvaluateSloBurnRateScript),
     alert |-> Target(<<"vton_compare", "llm_benchmark">>, EvaluateAlertThresholds),
     endpoint_smoke |-> Target(<<>>, SmokeDeployedEndpoints),
     trace |-> Target(<<>>, SimulateTracing),
     governance |-> Target(<<>>, GenerateGovernanceReport),
     dashboard |-> Target(<<>>, ValidateGrafanaDashboards),
     orchestration |-> Target(<<>>, GenerateOrchestrationSkeleton),
     auth |-> Target(<<>>, EvaluateApiKeyAuth)]

ReleaseTargets ==
    [supply_chain |-> Target(<<>>, GenerateSupplyChainReport),
     guardrail |-> Target(<<"guardrail_build">>, EvaluateGuardrails),
     model_supply_chain |-> Target(<<"model_scan_build", "provenance_build", "policy_build", "guardrail">>,
                                   EvaluateModelSupplyChain),
     pipeline |-> Target(<<"policy_build", "openlineage_build">>, RunLocalPromotionScript),
     deploy_package |-> Target(<<"pipeline", "gitops_build">>, PackageDeployment),
     rollback |-> Target(<<"deploy_package">>, RollbackReleaseScript),
     chaos |-> Target(<<"chaos_build", "burn_rate_build", "deploy_package">>, EvaluateChaosDrill),
     registry_webhook |-> Target(<<"go_build", "policy_build", "deploy_package">>, SimulateRegistryWebhook),
     signed_pr |-> Target(<<"go_build", "deploy_package">>, SimulateSignedPrPromotion)]

MakefileTargets ==
    NativeBuildTargets @@ NativeSampleTargets @@ TryOnTargets @@ LanguageModelTargets
        @@ OperationsTargets @@ ReleaseTargets
=============================================================================
