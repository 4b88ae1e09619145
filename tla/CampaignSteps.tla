--------------------------- MODULE CampaignSteps ---------------------------
(***************************************************************************)
(* What a campaign is to do: the steps its template expands to, which of   *)
(* them run at the same time, and which artifacts each of them reads and   *)
(* writes.  Nothing here has state; Campaign runs these programs.          *)
(***************************************************************************)
EXTENDS Naturals, Sequences

FusionCandidates == <<"codex", "claude">>
Candidates == {"codex", "claude"}

Executors == {"acp", "command"}
Roles == {"none", "planning", "approval_gate", "implementation",
          "candidate_eval", "peer_review", "external_arbiter", "integration",
          "merge"}

\* retries is the step's retryLimit, gate its approvalRequired, group its
\* phaseGroup; a step that shares no group, and one of no fusion candidate,
\* has "none" there.
StepRecord == [kind : STRING, executor : Executors, role : Roles,
               candidate : Candidates \cup {"none"}, group : STRING,
               gate : BOOLEAN, retries : Nat]

\* researcher is whether gptResearcherCommand is configured.
Program == [parallelism : Nat, researcher : BOOLEAN, steps : Seq(StepRecord)]

\* normalizeStep
Step(kind, executor) ==
    [kind |-> kind, executor |-> executor, role |-> "none",
     candidate |-> "none", group |-> "none", gate |-> FALSE, retries |-> 0]

Fusion(step, role, candidate, group) ==
    [step EXCEPT !.role = role, !.candidate = candidate, !.group = group]

-----------------------------------------------------------------------------
(* The templates.                                                          *)

If(condition, steps) == IF condition THEN steps ELSE <<>>

PerCandidate(kind, executor, role) ==
    [k \in 1..2 |-> Fusion(Step(kind, executor), role, FusionCandidates[k], role)]

FusionSteps(evaluated, arbiter, preferred) ==
       PerCandidate("plan", "acp", "planning")
    \o <<[Fusion(Step("judge", "command"), "approval_gate", "none", "none")
            EXCEPT !.gate = TRUE]>>
    \o PerCandidate("code", "acp", "implementation")
    \o If(evaluated, PerCandidate("eval", "command", "candidate_eval"))
    \o PerCandidate("review", "acp", "peer_review")
    \o If(arbiter, <<Fusion(Step("judge", "command"), "external_arbiter", "none", "none")>>)
    \o <<Fusion(Step("handoff", "command"), "integration", "none", "none"),
         Fusion(Step("code", "acp"), "merge", preferred, "none")>>
    \o If(evaluated, <<Step("eval", "command")>>)

LiteratureReview == <<Step("research", "acp")>>

BaselineFromScratch(evaluated) ==
    <<Step("plan", "acp"), Step("code", "acp")>>
    \o If(evaluated, <<Step("eval", "command")>>)

AblationCampaign(experiments) ==
       <<Step("plan", "acp")>>
    \o [k \in 1..experiments |-> Step("experiment", "command")]
    \o <<Step("judge", "acp")>>

Iteration(evaluated) ==
       BaselineFromScratch(evaluated) \o <<Step("review", "acp")>>

SelfImprovementLoop(iterations, evaluated) ==
    LET length == Len(Iteration(evaluated)) IN
      [k \in 1..(iterations * length) |->
         Iteration(evaluated)[((k - 1) % length) + 1]]

-----------------------------------------------------------------------------
(* Which steps run at the same time.                                       *)

\* A step of the batch that begins at i: it continues the phase group of step
\* i, or, where step i has none, the run of experiments.
Joins(p, i, k) ==
    /\ ~p.steps[k].gate
    /\ IF p.steps[i].group # "none"
         THEN p.steps[k].group = p.steps[i].group
         ELSE p.steps[k].kind = "experiment" /\ p.steps[k].executor = "command"

\* collectParallelStepBatch, and the single step where it finds no batch
Batch(p, i) ==
    {i} \cup {k \in i..Len(p.steps) :
                /\ p.steps[i].group # "none" \/ k - i < p.parallelism
                /\ \A j \in i..k : Joins(p, i, j)}

-----------------------------------------------------------------------------
(* Artifacts: the kind, and the step it is filed under; 0 for the ones of  *)
(* the whole campaign.                                                     *)

Bundle == <<0, "fusion-bundle">>
Plan == <<0, "fusion-plan">>
Dossier == <<0, "fusion-dossier">>

From(p, role, who, kind) ==
    {<<i, kind>> : i \in {j \in DOMAIN p.steps :
                            p.steps[j].role = role /\ p.steps[j].candidate \in who}}

Handoffs(p, who) ==
    UNION {From(p, "implementation", who, kind) :
             kind \in {"implementation-memo", "fusion-candidate", "candidate-diff"}}

Validations(p, who) == From(p, "candidate_eval", who, "command-output")

\* What the prompt of a fusion step, or the input of its arbiter, reads
Inputs(p, i) ==
    LET step == p.steps[i]
        peer == Candidates \ {step.candidate} IN
    CASE step.role = "planning" -> {Bundle}
      [] step.role = "implementation" -> {Bundle, Plan}
      [] step.role = "peer_review" ->
           {Bundle, Plan} \cup Handoffs(p, peer) \cup Validations(p, peer)
      [] step.role = "external_arbiter" -> {Dossier}
      [] step.role = "merge" ->
           {Bundle, Plan, Dossier} \cup Handoffs(p, Candidates)
           \cup From(p, "peer_review", Candidates, "peer-review")
           \cup From(p, "external_arbiter", {"none"}, "report")
           \cup From(p, "integration", {"none"}, "integration-report")
      [] OTHER -> {}

\* The artifact a step writes when its work is done ...
Output(p, i) ==
    LET step == p.steps[i] IN
    <<i, CASE step.role = "planning" -> "fusion-plan-review"
           [] step.role = "implementation" -> "implementation-memo"
           [] step.role = "peer_review" -> "peer-review"
           [] step.role = "merge" -> "merge-summary"
           [] step.role = "integration" -> "integration-report"
           [] step.role = "external_arbiter" -> "report"
           [] step.kind = "research" /\ (p.researcher \/ step.executor = "acp")
                -> "research-dossier"
           [] OTHER -> IF step.executor = "command" THEN "command-output" ELSE "report">>

\* ... and the ones that follow it
Extras(p, i) ==
    IF p.steps[i].role \in {"implementation", "merge"}
      THEN {<<i, "candidate-diff">>} ELSE {}

-----------------------------------------------------------------------------
(* The record a fusion campaign keeps of itself, and what the completion of *)
(* its steps makes of it: of the artifacts read, the ones written, and the  *)
(* record.                                                                  *)

Phases == {"plan", "implement", "candidate_eval", "peer_review",
           "integration", "merged_eval"}

\* currentPhase, lastCompletedPhase, approvalState, integrationState
FusionRecord == [phase : Phases, done : Phases \cup {"none"},
                 approval : {"not_required", "waiting", "approved"},
                 integration : {"pending", "succeeded", "conflict", "resolved"}]

\* executeFusionIntegrationStep merges one candidate after the other; at the first
\* conflict it resets the merged tree and reports that.
IntegrationReports == {"succeeded", "conflict"}

PreparedFusion == [phase |-> "plan", done |-> "none",
                   approval |-> "not_required", integration |-> "pending"]

HasRole(p, role) == \E i \in DOMAIN p.steps : p.steps[i].role = role
IsFusion(p) == HasRole(p, "planning")
Role(p, batch) == p.steps[CHOOSE i \in batch : TRUE].role
Who(p, batch) == {p.steps[i].candidate : i \in batch}

\* hasMergedEval: the evaluation that ends a fusion campaign has no role.
IsMergedEval(p, i) == IsFusion(p) /\ p.steps[i].role = "none"
LastPhase(p) ==
    IF \E i \in DOMAIN p.steps : IsMergedEval(p, i) THEN "merged_eval" ELSE "integration"

\* These completions wait for artifacts; the others take no time.
Synthesises(p, i) ==
    p.steps[i].role \in {"planning", "implementation", "candidate_eval",
                         "peer_review", "integration"}

\* synthesizeFusionPlan
PlanSynthesized(f) == [f EXCEPT !.phase = "plan", !.done = "plan", !.approval = "waiting"]

PlanReads(p) == {Bundle} \cup From(p, "planning", Candidates, "fusion-plan-review")

\* markFusionApproved
FusionApproved(f) == [f EXCEPT !.approval = "approved", !.phase = "implement"]

\* recordFusionCandidates, after the implementations and after their evaluations
CandidatesRecorded(p, f) ==
    [f EXCEPT !.done = "implement",
       !.phase = IF HasRole(p, "candidate_eval") THEN "candidate_eval" ELSE "peer_review"]

CandidatesEvaluated(f) == [f EXCEPT !.phase = "peer_review", !.done = "candidate_eval"]

CandidateReads(p, who) == From(p, "implementation", who, "implementation-memo")
CandidateWrites(p, who) == From(p, "implementation", who, "fusion-candidate")

\* synthesizeFusionDossier
DossierSynthesized(f) == [f EXCEPT !.phase = "integration", !.done = "peer_review"]

DossierReads(p) ==
    {Plan} \cup From(p, "implementation", Candidates, "fusion-candidate")
    \cup From(p, "implementation", Candidates, "implementation-memo")
    \cup From(p, "peer_review", Candidates, "peer-review")

\* attachFusionArbiterArtifact
ArbiterAttached(f) == [f EXCEPT !.phase = "integration"]

\* applyFusionIntegrationResult
IntegrationApplied(p, f, status) ==
    [f EXCEPT !.integration = status, !.done = "integration", !.phase = LastPhase(p)]

\* finishFusionResolverMerge, finishFusionMergedEval
ResolverFinished(p, f) == IntegrationApplied(p, f, "resolved")
MergedEvaluated(f) == [f EXCEPT !.phase = "merged_eval", !.done = "merged_eval"]

\* The artifacts the record refers to
Referred(f) ==
    (IF f.done = "none" THEN {} ELSE {Plan})
    \cup (IF f.done \in {"peer_review", "integration", "merged_eval"}
            THEN {Dossier} ELSE {})

\* A validation that is missing, and a plan or dossier that the record does not
\* refer to, leave a placeholder in a prompt; everything else that is missing
\* is an error.
Sought(p, i, f) ==
    {a \in Inputs(p, i) :
       /\ a \notin Validations(p, Candidates)
       /\ a \in {Plan, Dossier} => a \in Referred(f) \/ p.steps[i].role = "external_arbiter"}

SynthesisInputs(p, batch) ==
    CASE Role(p, batch) = "planning" -> PlanReads(p)
      [] Role(p, batch) \in {"implementation", "candidate_eval"} ->
           CandidateReads(p, Who(p, batch))
      [] Role(p, batch) = "peer_review" -> DossierReads(p)
      [] Role(p, batch) = "integration" ->
           From(p, "integration", {"none"}, "integration-report")
      [] OTHER -> {}

SynthesisOutputs(p, batch) ==
    CASE Role(p, batch) = "planning" -> {Plan}
      [] Role(p, batch) \in {"implementation", "candidate_eval"} ->
           CandidateWrites(p, Who(p, batch))
      [] Role(p, batch) = "peer_review" -> {Dossier}
      [] OTHER -> {}

\* afterCompletedSteps; status is what the integration reported.
AfterSteps(p, batch, f, status) ==
    CASE Role(p, batch) = "planning" -> PlanSynthesized(f)
      [] Role(p, batch) = "approval_gate" -> FusionApproved(f)
      [] Role(p, batch) = "implementation" -> CandidatesRecorded(p, f)
      [] Role(p, batch) = "candidate_eval" -> CandidatesEvaluated(f)
      [] Role(p, batch) = "peer_review" -> DossierSynthesized(f)
      [] Role(p, batch) = "external_arbiter" -> ArbiterAttached(f)
      [] Role(p, batch) = "integration" -> IntegrationApplied(p, f, status)
      [] Role(p, batch) = "merge" -> ResolverFinished(p, f)
      [] \E i \in batch : IsMergedEval(p, i) -> MergedEvaluated(f)
      [] OTHER -> f

\* Mutant: a conflict is not left to the resolver either.
PastMergeAlways(p, i, status) ==
    IF \E k \in i..Len(p.steps) : p.steps[k].role = "merge"
      THEN (CHOOSE k \in i..Len(p.steps) : p.steps[k].role = "merge") + 1
      ELSE i

\* Where the campaign goes on when the candidates merge cleanly: past the step
\* that would resolve a conflict.
PastMerge(p, i, status) ==
    IF status = "succeeded" /\ \E k \in i..Len(p.steps) : p.steps[k].role = "merge"
      THEN (CHOOSE k \in i..Len(p.steps) : p.steps[k].role = "merge") + 1
      ELSE i

-----------------------------------------------------------------------------
(* What the theorems about Campaign suppose of a program.  A custom program *)
(* may lack each of them; the literature review lacks the second where a   *)
(* research command is configured.                                         *)

\* Experiments in a row are of one phase group, or of none; and what resolves
\* the conflicts of an integration follows it.
Arranged(p) ==
    \A i, k \in DOMAIN p.steps :
      /\ (\A j \in i..k : p.steps[j].kind = "experiment" /\ p.steps[j].executor = "command")
         /\ i <= k => p.steps[i].group = p.steps[k].group
      /\ p.steps[i].role = "integration" /\ p.steps[k].role = "merge"
           => \A j \in (i + 1)..k : p.steps[j].role = "merge"

\* Every research command runs for a step that names the executor command, so
\* that a recovery looks for what has run.
Traceable(p) ==
    p.researcher => \A i \in DOMAIN p.steps :
                      p.steps[i].kind = "research" => p.steps[i].executor = "command"

\* What a step leaves when it is done, and what the synthesis adds for it
Left(p, i) == {Output(p, i)} \cup Extras(p, i)

SynthesizedFor(p, i) ==
    CASE p.steps[i].role = "planning" -> {Plan}
      [] p.steps[i].role = "implementation" -> {<<i, "fusion-candidate">>}
      [] p.steps[i].role = "peer_review" -> {Dossier}
      [] OTHER -> {}

\* What is there when step at begins; a merge may have been skipped.
Provided(p, at) ==
    {Bundle} \cup UNION {Left(p, j) \cup SynthesizedFor(p, j) :
                         j \in {k \in 1..(at - 1) : p.steps[k].role # "merge"}}

\* The steps of a batch have one role. What they read comes from steps before
\* them, and what their synthesis reads from those or from themselves.
Supplied(p) ==
    \A at \in DOMAIN p.steps :
      LET batch == Batch(p, at) IN
      /\ \A i \in batch : /\ p.steps[i].role = p.steps[at].role
                          /\ Inputs(p, i) \subseteq Provided(p, at)
      /\ SynthesisInputs(p, batch) \subseteq
           Provided(p, at) \cup UNION {Left(p, i) : i \in batch}

\* A fusion campaign plans, waits at its one gate, works, integrates, resolves
\* the conflicts, and evaluates what came of it.
Staged(p) ==
    IsFusion(p) =>
      \E g, n \in DOMAIN p.steps :
        /\ g < n /\ n < Len(p.steps)
        /\ \A j \in DOMAIN p.steps :
             LET role == p.steps[j].role IN
             /\ p.steps[j].gate <=> j = g
             /\ j < g => role = "planning"
             /\ j = g => role = "approval_gate"
             /\ g < j /\ j < n => role \in {"implementation", "candidate_eval",
                                          "peer_review", "external_arbiter"}
             /\ j = n => role = "integration"
             /\ j = n + 1 => role = "merge"
             /\ j > n + 1 => role = "none"

Templates(researcher, evaluated) ==
    LET Of(steps) == [parallelism |-> 2, researcher |-> researcher, steps |-> steps] IN
    {Of(FusionSteps(evaluated, arbiter, "codex")) : arbiter \in BOOLEAN}
    \cup {Of(BaselineFromScratch(evaluated)), Of(AblationCampaign(3)),
          Of(SelfImprovementLoop(2, evaluated)), Of(LiteratureReview)}

ASSUME TemplatesFit ==
    \A researcher, evaluated \in BOOLEAN : \A p \in Templates(researcher, evaluated) :
      /\ Arranged(p) /\ Supplied(p) /\ Staged(p)
      /\ p.steps # LiteratureReview \/ ~researcher => Traceable(p)
=============================================================================
