-------------------------- MODULE Campaign_proofs --------------------------
(***************************************************************************)
(* Theorems about Campaign for any programs, any calls of cancel and any   *)
(* number of crashes and faults: the state of a campaign keeps the promise *)
(* of CampaignLife, and a run that ended is never given another end.       *)
(***************************************************************************)
EXTENDS Campaign, FiniteSetTheorems, TLAPS

USE CampaignAssumption

-----------------------------------------------------------------------------
(* Batches.                                                                *)

\* A set that has its smallest element a, and with an element everything from
\* a to it, ends where its cardinality says.
LEMMA RunOfSteps ==
    ASSUME NEW n \in Nat, NEW a \in 1..n, NEW S \in SUBSET (a..n), a \in S,
           \A k \in S : \A j \in a..k : j \in S
    PROVE  /\ IsFiniteSet(S) /\ Cardinality(S) \in Nat
           /\ 1 <= Cardinality(S) /\ a + Cardinality(S) - 1 <= n
           /\ \A k \in S : k < a + Cardinality(S)
<1>1. /\ IsFiniteSet(a..n) /\ Cardinality(a..n) = n - a + 1
  BY FS_Interval
<1>2. IsFiniteSet(S) /\ Cardinality(S) <= n - a + 1
  BY <1>1, FS_Subset
<1>3. Cardinality(S) \in Nat
  BY <1>2, FS_CardinalityType
<1>4. ASSUME NEW k \in S
      PROVE  k - a + 1 <= Cardinality(S)
  <2>1. a..k \in SUBSET S
    OBVIOUS
  <2>2. Cardinality(a..k) = k - a + 1
    BY FS_Interval
  <2>3. Cardinality(a..k) <= Cardinality(S)
    BY <1>2, <2>1, FS_Subset
  <2> QED
    BY <2>2, <2>3
<1>5. 1 <= Cardinality(S)
  BY <1>3, <1>4
<1> QED
  BY <1>2, <1>3, <1>4, <1>5

LEMMA ProgramFacts ==
    ASSUME program \in Programs
    PROVE  /\ Last \in Nat /\ 1 <= Last
           /\ Steps = 1..Last
           /\ program.parallelism \in Nat
           /\ \A i \in Steps : program.steps[i] \in StepRecord
<1>1. program \in Program /\ program.steps # <<>>
  OBVIOUS
<1>2. program.steps \in Seq(StepRecord) /\ program.parallelism \in Nat
  BY <1>1 DEF Program
<1>3. Len(program.steps) \in Nat /\ DOMAIN program.steps = 1..Len(program.steps)
  BY <1>2
<1>4. Len(program.steps) # 0
  BY <1>1, <1>2
<1> QED
  BY <1>2, <1>3, <1>4 DEF Last, Steps

\* A batch begins where the driver is and has no gaps; so has what begins of it
\* before the daemon dies.
LEMMA BatchFacts ==
    ASSUME program \in Programs, NEW at \in 1..Last
    PROVE  LET batch == Batch(program, at) IN
           /\ batch \in SUBSET (at..Last) /\ at \in batch
           /\ \A k \in batch : \A j \in at..k : j \in batch
<1> DEFINE batch == Batch(program, at)
<1>1. Last \in Nat /\ Last = Len(program.steps) /\ program.parallelism \in Nat
  BY ProgramFacts DEF Last
<1>2. batch \in SUBSET (at..Last) /\ at \in batch
  BY <1>1 DEF Batch
<1>3. ASSUME NEW k \in batch, NEW j \in at..k
      PROVE  j \in batch
  <2>1. CASE k = at
    BY <1>1, <1>2, <2>1
  <2>2. CASE k # at
    <3>1. /\ program.steps[at].group # "none" \/ k - at < program.parallelism
          /\ \A l \in at..k : Joins(program, at, l)
      BY <2>2 DEF Batch
    <3>2. j - at <= k - at /\ k \in Nat /\ j \in at..Len(program.steps)
      BY <1>1, <1>2
    <3>3. program.steps[at].group # "none" \/ j - at < program.parallelism
      BY <1>1, <1>2, <3>1, <3>2
    <3>4. \A l \in at..j : Joins(program, at, l)
      BY <1>1, <1>2, <3>1, <3>2
    <3> HIDE DEF batch
    <3> QED
      BY <3>2, <3>3, <3>4 DEF Batch, batch
  <2> QED
    BY <2>1, <2>2
<1> QED
  BY <1>2, <1>3

LEMMA BatchEnds ==
    ASSUME program \in Programs, NEW at \in 1..Last
    PROVE  LET batch == Batch(program, at) IN
           /\ batch \in SUBSET Steps /\ batch \in SUBSET (at..Last) /\ at \in batch
           /\ Cardinality(batch) \in Nat
           /\ 1 <= Cardinality(batch) /\ at + Cardinality(batch) - 1 <= Last
           /\ \A k \in batch : k < at + Cardinality(batch)
<1> DEFINE batch == Batch(program, at)
<1>1. Last \in Nat /\ Steps = 1..Last
  BY ProgramFacts
<1>2. /\ batch \in SUBSET (at..Last) /\ at \in batch
      /\ \A k \in batch : \A j \in at..k : j \in batch
  BY BatchFacts
<1> HIDE DEF batch
<1>3. /\ Cardinality(batch) \in Nat
      /\ 1 <= Cardinality(batch) /\ at + Cardinality(batch) - 1 <= Last
      /\ \A k \in batch : k < at + Cardinality(batch)
  BY <1>1, <1>2, RunOfSteps
<1> QED
  BY <1>1, <1>2, <1>3 DEF batch

\* What has begun of a batch when the daemon dies at i
LEMMA BegunEnds ==
    ASSUME program \in Programs, NEW at \in 1..Last,
           NEW i \in Batch(program, at)
    PROVE  LET begun == {j \in Batch(program, at) : j <= i} IN
           /\ begun \in SUBSET Steps /\ begun \in SUBSET (at..Last) /\ at \in begun
           /\ Cardinality(begun) \in Nat
           /\ 1 <= Cardinality(begun) /\ at + Cardinality(begun) - 1 <= Last
<1> DEFINE batch == Batch(program, at)
           begun == {j \in batch : j <= i}
<1>1. Last \in Nat /\ Steps = 1..Last
  BY ProgramFacts
<1>2. /\ batch \in SUBSET (at..Last) /\ at \in batch
      /\ \A k \in batch : \A j \in at..k : j \in batch
  BY BatchFacts
<1> HIDE DEF batch
<1>3. i \in at..Last
  BY <1>2 DEF batch
<1>4. begun \in SUBSET (at..Last) /\ at \in begun
  <2>1. at <= i
    BY <1>1, <1>3
  <2> QED
    BY <1>2, <2>1
<1>5. \A k \in begun : \A j \in at..k : j \in begun
  BY <1>1, <1>2, <1>3
<1> HIDE DEF begun
<1>6. /\ Cardinality(begun) \in Nat
      /\ 1 <= Cardinality(begun) /\ at + Cardinality(begun) - 1 <= Last
  BY <1>1, <1>4, <1>5, RunOfSteps
<1> QED
  BY <1>1, <1>4, <1>6 DEF begun, batch

-----------------------------------------------------------------------------
(* Types.                                                                  *)

CampaignType == [state : States, index : 1..(Last + 1), fence : BOOLEAN]
RunType == [Steps -> [state : RunStates, pid : BOOLEAN]]
ExecType == [Steps -> [pc : ExecPc, tries : Nat]]
ProcType == [Steps -> {"none", "live", "killed", "dead"}]
DriverType == [pc : {"idle", "loop", "batch", "after"}, at : 1..(Last + 1),
               batch : SUBSET Steps, approved : 0..Last]
CallType == [Cancels -> [pc : {"idle", "waiting", "unproved", "done"},
                         stops : SUBSET Steps, quiet : BOOLEAN]]
TriesBounded == \A i \in Steps : exec[i].tries <= program.steps[i].retries + 1

LEMMA InitType == Init => TypeOK
<1> SUFFICES ASSUME Init PROVE TypeOK
  OBVIOUS
<1>1. Last \in Nat /\ 1 <= Last /\ Steps = 1..Last /\ \A i \in Steps : program.steps[i] \in StepRecord
  BY ProgramFacts DEF Init
<1>2. \A i \in Steps : program.steps[i].retries \in Nat
  BY <1>1 DEF StepRecord
<1>3. artifacts \subseteq (0..Last) \X ArtifactKinds
  BY <1>1 DEF Init, Bundle, ArtifactKinds
<1>4. TriesBounded
  BY <1>2 DEF TriesBounded, Init, Idle
<1>5. /\ driver \in DriverType /\ exec \in ExecType /\ call \in CallType
      /\ run \in RunType /\ proc \in ProcType /\ campaign \in CampaignType
  BY <1>1 DEF Init, NoDriver, Idle, NoCall, DriverType, ExecType, CallType,
              RunType, ProcType, CampaignType, ExecPc, RunStates, States
<1>6. fusion \in FusionRecord
  BY DEF Init, FusionRecord, PreparedFusion, Phases
<1>7. /\ program \in Programs /\ daemon = "up" /\ mishaps = {} /\ troubles = 0
      /\ recovery \in [todo : SUBSET Steps, ambiguous : BOOLEAN]
  BY DEF Init, NoRecovery
<1>8. troubles \in 0..MaxTroubles
  BY <1>7
<1> QED
  BY <1>3, <1>4, <1>5, <1>6, <1>7, <1>8 DEF TypeOK, TriesBounded, CampaignType, RunType, ExecType, ProcType,
     DriverType, CallType

\* What the settling of runs and of the campaign keeps
LEMMA FinalizeTypes ==
    ASSUME TypeOK
    PROVE  /\ FinalizeCancellation => campaign' \in CampaignType /\ run' \in RunType
           /\ FinalizeFailure => campaign' \in CampaignType /\ run' \in RunType
<1>1. ASSUME NEW state \in RunStates, SettleRuns(state) PROVE run' \in RunType
  <2>1. ASSUME NEW i \in Steps PROVE run'[i] \in [state : RunStates, pid : BOOLEAN]
    BY ZenonT(60), <1>1 DEF TypeOK, SettleRuns
  <2> QED
    BY <1>1, <2>1 DEF SettleRuns, RunType
<1>2. "cancelled" \in RunStates /\ "failed" \in RunStates
  BY DEF RunStates
<1>3. ASSUME FinalizeCancellation PROVE campaign' \in CampaignType /\ run' \in RunType
  BY <1>1, <1>2, <1>3 DEF TypeOK, FinalizeCancellation, CampaignType, RunType, States
<1>4. ASSUME FinalizeFailure PROVE campaign' \in CampaignType /\ run' \in RunType
  <2>1. CASE campaign.state \in Ended \cup {"cancelling", "recovery_required"}
    BY <1>4, <2>1 DEF TypeOK, FinalizeFailure, CampaignType, RunType
  <2>2. CASE campaign.state \notin Ended \cup {"cancelling", "recovery_required"}
    <3>1. /\ campaign' = [campaign EXCEPT !.state = "failed", !.fence = FALSE]
          /\ SettleRuns("failed")
      BY <1>4, <2>2 DEF FinalizeFailure
    <3>2. campaign' \in CampaignType
      BY <3>1 DEF TypeOK, CampaignType, States
    <3> QED
      BY <1>1, <1>2, <3>1, <3>2
  <2> QED
    BY <2>1, <2>2
<1> QED
  BY <1>3, <1>4

LEMMA BeginType ==
    ASSUME TypeOK, NEW batch \in SUBSET Steps, NEW recorded,
           Begin(batch, recorded),
           Cardinality(batch) \in Nat, 1 <= Cardinality(batch),
           driver.at + Cardinality(batch) - 1 <= Last
    PROVE  campaign' \in CampaignType /\ run' \in RunType /\ proc' \in ProcType
<1>1. Last \in Nat
  BY ProgramFacts DEF TypeOK
<1>2. driver.at + Cardinality(batch) - 1 \in 1..(Last + 1)
  BY <1>1 DEF TypeOK
<1>3. campaign' \in CampaignType
  BY <1>2 DEF Begin, TypeOK, CampaignType, States
<1>4. run' \in RunType
  BY DEF Begin, TypeOK, RunType, RunStates, IsCommand, IsGit, IsAcp, Prompted
<1>5. proc' \in ProcType
  BY DEF Begin, TypeOK, ProcType
<1> QED
  BY <1>3, <1>4, <1>5

USE DEF CampaignType, RunType, ExecType, ProcType, DriverType, CallType

LEMMA DriveType ==
    ASSUME TypeOK, NEW pc \in {"idle", "loop", "batch", "after"},
           NEW at \in 1..(Last + 1), NEW batch \in SUBSET Steps,
           Drive(pc, at, batch)
    PROVE  driver' \in DriverType
BY DEF TypeOK, Drive

LEMMA RestType ==
    ASSUME TypeOK, Rest
    PROVE  driver' \in DriverType
<1>1. 1 \in 1..(Last + 1)
  BY ProgramFacts DEF TypeOK
<1> QED
  BY <1>1, DriveType DEF Rest

\* TypeOK of the next state, by parts
LEMMA TypeNext ==
    ASSUME program' = program, program \in Programs,
           campaign' \in CampaignType, fusion' \in FusionRecord, run' \in RunType,
           artifacts' \subseteq (0..Last) \X ArtifactKinds,
           driver' \in DriverType, exec' \in ExecType, TriesBounded',
           proc' \in ProcType, call' \in CallType,
           daemon' \in {"up", "recovering", "down"},
           recovery' \in [todo : SUBSET Steps, ambiguous : BOOLEAN],
           mishaps' \subseteq Mishaps, troubles' \in 0..MaxTroubles
    PROVE  TypeOK'
BY DEF TypeOK, TriesBounded, Steps, Last

LEMMA AfterStepsType ==
    ASSUME NEW p, NEW batch, NEW f \in FusionRecord,
           NEW status \in {"pending", "succeeded", "conflict"}
    PROVE  AfterSteps(p, batch, f, status) \in FusionRecord
<1>1. LastPhase(p) \in Phases
  BY DEF LastPhase, Phases
<1>2. \A s \in {"pending", "succeeded", "conflict", "resolved"} :
        IntegrationApplied(p, f, s) \in FusionRecord
  BY <1>1 DEF IntegrationApplied, FusionRecord, Phases
<1> USE DEF FusionRecord, Phases
<1>3. PlanSynthesized(f) \in FusionRecord /\ FusionApproved(f) \in FusionRecord
  BY DEF PlanSynthesized, FusionApproved
<1>4. CandidatesRecorded(p, f) \in FusionRecord
  BY DEF CandidatesRecorded
<1>5. CandidatesEvaluated(f) \in FusionRecord /\ DossierSynthesized(f) \in FusionRecord
  BY DEF CandidatesEvaluated, DossierSynthesized
<1>6. ArbiterAttached(f) \in FusionRecord /\ MergedEvaluated(f) \in FusionRecord
  BY DEF ArbiterAttached, MergedEvaluated
<1>7. ResolverFinished(p, f) \in FusionRecord
  BY <1>2 DEF ResolverFinished
<1> HIDE DEF FusionRecord, Phases
<1> QED
  BY <1>2, <1>3, <1>4, <1>5, <1>6, <1>7 DEF AfterSteps

\* While the driver waits for a batch, it is the one that begins where the
\* driver is.
BatchOk ==
    driver.pc = "batch" =>
      driver.at <= Last /\ driver.batch = Batch(program, driver.at)

LEMMA CaughtType ==
    ASSUME TypeOK, NEW others \in SUBSET Mishaps, CaughtBy(others)
    PROVE  /\ campaign' \in CampaignType /\ run' \in RunType /\ driver' \in DriverType
           /\ mishaps' \subseteq Mishaps
<1>1. campaign' \in CampaignType /\ run' \in RunType
  BY FinalizeTypes DEF CaughtBy, TypeOK
<1>2. driver' \in DriverType
  BY RestType DEF CaughtBy
<1>3. mishaps' \subseteq Mishaps
  BY DEF CaughtBy, TypeOK, Mishaps
<1> QED
  BY <1>1, <1>2, <1>3

LEMMA PastMergeType ==
    ASSUME program \in Programs, NEW at \in 1..(Last + 1), NEW status
    PROVE  PastMerge(program, at, status) \in at..(Last + 1)
<1>1. Last \in Nat /\ Last = Len(program.steps)
  BY ProgramFacts DEF Last
<1>2. CASE status = "succeeded" /\ \E k \in at..Last : program.steps[k].role = "merge"
  <2>1. PICK k \in at..Last : k = CHOOSE l \in at..Last : program.steps[l].role = "merge"
    BY <1>2
  <2>2. PastMerge(program, at, status) = k + 1
    BY <1>1, <1>2, <2>1 DEF PastMerge
  <2> QED
    BY <1>1, <2>1, <2>2
<1>3. CASE ~(status = "succeeded" /\ \E k \in at..Last : program.steps[k].role = "merge")
  BY <1>1, <1>3 DEF PastMerge
<1> QED
  BY <1>2, <1>3

LEMMA FromType ==
    ASSUME program \in Programs, NEW role, NEW who, NEW kind \in ArtifactKinds
    PROVE  From(program, role, who, kind) \subseteq (0..Last) \X ArtifactKinds
<1>1. DOMAIN program.steps \subseteq 0..Last
  BY ProgramFacts DEF Steps
<1> QED
  BY <1>1 DEF From

LEMMA SynthesisOutputsType ==
    ASSUME program \in Programs, NEW batch
    PROVE  SynthesisOutputs(program, batch) \subseteq (0..Last) \X ArtifactKinds
<1>1. 0 \in 0..Last
  BY ProgramFacts
<1>2. {Plan} \subseteq (0..Last) \X ArtifactKinds /\ {Dossier} \subseteq (0..Last) \X ArtifactKinds
  BY <1>1 DEF Plan, Dossier, ArtifactKinds
<1>3. CandidateWrites(program, Who(program, batch)) \subseteq (0..Last) \X ArtifactKinds
  BY FromType DEF CandidateWrites, ArtifactKinds
<1> QED
  BY <1>2, <1>3 DEF SynthesisOutputs

\* The steps of the driver keep the types.
LEMMA DriverTypes ==
    ASSUME TypeOK, BatchOk, Driver
    PROVE  TypeOK'
<1> USE DEF TypeOK, outside, rows, work
<1>1. Last \in Nat /\ 1 <= Last /\ Steps = 1..Last
  BY ProgramFacts
<1>2. program' = program /\ Steps' = Steps /\ Last' = Last
  BY DEF Driver, DriverLoop, BatchReturns, BatchThrows, AfterLands, AfterThrows, Steps, Last
<1>3. CASE DriverLoop
  <2>1. CASE driver.at > Last \/ Cancelling
    BY <1>2, <1>3, <2>1, RestType, TypeNext DEF DriverLoop, TriesBounded
  <2>2. CASE ~(driver.at > Last \/ Cancelling) /\ Gated(driver.at)
    <3>1. campaign' \in CampaignType
      BY <1>3, <2>2 DEF DriverLoop, States
    <3> QED
      BY <1>2, <1>3, <2>2, <3>1, RestType, TypeNext DEF DriverLoop, TriesBounded
  <2>3. CASE ~(driver.at > Last \/ Cancelling) /\ ~Gated(driver.at)
    <3> DEFINE batch == Batch(program, driver.at)
    <3>1. driver.at \in 1..Last
      BY <1>1, <2>3
    <3>2. /\ batch \in SUBSET Steps
          /\ Cardinality(batch) \in Nat /\ 1 <= Cardinality(batch)
          /\ driver.at + Cardinality(batch) - 1 <= Last
      BY <3>1, BatchEnds
    <3>3. /\ Begin(batch, batch)
          /\ exec' = [i \in Steps |-> IF i \in batch
                   THEN [pc |-> IF Prompted(i) THEN "prompt" ELSE "work", tries |-> 1]
                   ELSE exec[i]]
          /\ Drive("batch", driver.at, batch)
          /\ UNCHANGED <<outside, artifacts, call, mishaps, troubles>>
      BY <1>3, <2>3 DEF DriverLoop
    <3> HIDE DEF batch
    <3>4. campaign' \in CampaignType /\ run' \in RunType /\ proc' \in ProcType
      BY <3>2, <3>3, BeginType
    <3>5. driver' \in DriverType
      BY <3>2, <3>3, DriveType
    <3>6. exec' \in ExecType
      BY <3>3 DEF ExecPc
    <3>7. TriesBounded'
      <4>1. \A i \in Steps : program.steps[i].retries \in Nat
        BY ProgramFacts DEF StepRecord
      <4> QED
        BY <1>2, <3>3, <4>1 DEF TriesBounded
    <3> QED
      BY <1>2, <3>3, <3>4, <3>5, <3>6, <3>7, TypeNext
  <2> QED
    BY <2>1, <2>2, <2>3
<1>4. CASE BatchReturns
  <2>1. CASE Cancelling
    BY <1>2, <1>4, <2>1, RestType, TypeNext DEF BatchReturns, TriesBounded
  <2>2. CASE ~Cancelling /\ BatchFailed
    <3>1. campaign' \in CampaignType
      BY <1>4, <2>2 DEF BatchReturns, FailCampaign, States
    <3> QED
      BY <1>2, <1>4, <2>2, <3>1, RestType, TypeNext DEF BatchReturns, TriesBounded
  <2>3. CASE ~Cancelling /\ ~BatchFailed
    <3>1. campaign' \in CampaignType /\ campaign'.index \in 1..(Last + 1)
      <4>1. NextIndex(driver.batch) \in 1..(Last + 1)
        <5>1. /\ Cardinality(driver.batch) \in Nat /\ 1 <= Cardinality(driver.batch)
              /\ driver.at + Cardinality(driver.batch) - 1 <= Last
          BY <1>4, BatchEnds DEF BatchReturns, BatchOk
        <5> QED
          BY <1>1, <5>1 DEF NextIndex
      <4>2. CompleteStep(NextIndex(driver.batch))
        BY <1>4, <2>3 DEF BatchReturns
      <4> QED
        BY <4>1, <4>2 DEF CompleteStep, States
    <3>2. driver' \in DriverType
      BY <1>4, <2>3, <3>1, DriveType DEF BatchReturns
    <3>3. fusion' \in FusionRecord
      BY <1>4, <2>3, AfterStepsType DEF BatchReturns
    <3> QED
      BY <1>2, <1>4, <2>3, <3>1, <3>2, <3>3, TypeNext DEF BatchReturns, TriesBounded
  <2> QED
    BY <2>1, <2>2, <2>3
<1>5. CASE BatchThrows
  BY <1>2, <1>5, CaughtType, TypeNext DEF BatchThrows, TriesBounded
<1>6. CASE AfterLands
  <2>1. artifacts' \subseteq (0..Last) \X ArtifactKinds
    BY <1>6, SynthesisOutputsType DEF AfterLands
  <2>2. PICK status \in {"succeeded", "conflict"} :
         LET next == IF \E i \in driver.batch : IsGit(i)
                       THEN PastMerge(program, driver.at, status) ELSE driver.at IN
         /\ campaign' = [state |-> IF next > Last THEN "completed" ELSE "running",
                         index |-> next, fence |-> FALSE]
         /\ fusion' = AfterSteps(program, driver.batch, fusion, status)
         /\ Drive("loop", next, {})
    BY <1>6 DEF AfterLands, IntegrationReports
  <2> DEFINE next == IF \E i \in driver.batch : IsGit(i)
                       THEN PastMerge(program, driver.at, status) ELSE driver.at
  <2>3. next \in 1..(Last + 1)
    BY <1>1, PastMergeType
  <2>4. /\ campaign' = [state |-> IF next > Last THEN "completed" ELSE "running",
                        index |-> next, fence |-> FALSE]
        /\ Drive("loop", next, {})
    BY <2>2
  <2> HIDE DEF next
  <2>5. campaign' \in CampaignType
    BY <2>3, <2>4 DEF States
  <2>6. driver' \in DriverType
    BY <2>3, <2>4, DriveType
  <2>7. fusion' \in FusionRecord
    BY <2>2, AfterStepsType
  <2>8. mishaps' \subseteq Mishaps
    BY <1>6 DEF AfterLands, Mishaps
  <2> QED
    BY <1>2, <1>6, <2>1, <2>5, <2>6, <2>7, <2>8, TypeNext DEF AfterLands, TriesBounded
<1>7. CASE AfterThrows
  <2>1. troubles' \in 0..MaxTroubles
    BY <1>7 DEF AfterThrows, Trouble
  <2>2. PICK others \in SUBSET Mishaps : CaughtBy(others)
    BY <1>7 DEF AfterThrows, Mishaps
  <2> QED
    BY <1>2, <1>7, <2>1, <2>2, CaughtType, TypeNext DEF AfterThrows, TriesBounded
<1> QED
  BY <1>3, <1>4, <1>5, <1>6, <1>7 DEF Driver

\* The settings of single fields keep the types.
LEMMA FieldTypes ==
    ASSUME TypeOK, NEW i \in Steps
    PROVE  /\ \A state \in RunStates : SettleRun(i, state) => run' \in RunType
           /\ \A pid \in BOOLEAN : [run EXCEPT ![i].pid = pid] \in RunType
           /\ \A pc \in ExecPc : Goes(i, pc) =>
                exec' \in ExecType /\ exec'[i].tries = exec[i].tries
                /\ \A j \in Steps : exec'[j].tries = exec[j].tries
<1> USE DEF TypeOK
<1>1. /\ run[i] \in [state : RunStates, pid : BOOLEAN]
      /\ exec[i] \in [pc : ExecPc, tries : Nat]
  OBVIOUS
<1>2. ASSUME NEW state \in RunStates, SettleRun(i, state)
      PROVE  run' \in RunType
  <2> DEFINE settled == IF state = "cancelled" /\ run[i].state # "running"
                          THEN run[i].state ELSE state
  <2>1. run' = [run EXCEPT ![i] = [run[i] EXCEPT !.state = settled]]
    BY <1>2 DEF SettleRun
  <2>2. settled \in RunStates
    BY <1>1
  <2>3. [run[i] EXCEPT !.state = settled] \in [state : RunStates, pid : BOOLEAN]
    BY <1>1, <2>2
  <2> QED
    BY <2>1, <2>3
<1>3. ASSUME NEW pid \in BOOLEAN
      PROVE  [run EXCEPT ![i].pid = pid] \in RunType
  <2>1. [run[i] EXCEPT !.pid = pid] \in [state : RunStates, pid : BOOLEAN]
    BY <1>1
  <2> QED
    BY <2>1
<1>4. ASSUME NEW pc \in ExecPc, Goes(i, pc)
      PROVE  /\ exec' \in ExecType
             /\ \A j \in Steps : exec'[j].tries = exec[j].tries
  <2>1. exec' = [exec EXCEPT ![i] = [exec[i] EXCEPT !.pc = pc]]
    BY <1>4 DEF Goes
  <2>2. [exec[i] EXCEPT !.pc = pc] \in [pc : ExecPc, tries : Nat]
    BY <1>1
  <2> QED
    BY <2>1, <2>2
<1> QED
  BY <1>2, <1>3, <1>4

LEMMA AttemptFailsType ==
    ASSUME TypeOK, NEW i \in Steps, exec[i].pc # "idle", AttemptFails(i)
    PROVE  run' \in RunType /\ exec' \in ExecType /\ proc' \in ProcType
           /\ \A j \in Steps : exec'[j].tries <= program.steps[j].retries + 1
<1> USE DEF TypeOK
<1>1. exec[i].tries \in Nat /\ program.steps[i].retries \in Nat
  BY ProgramFacts DEF StepRecord
<1>2. CASE StepFails(i)
  <2>1. "failed" \in ExecPc /\ "cancelled" \in RunStates /\ "failed" \in RunStates
    BY DEF ExecPc, RunStates
  <2>2. /\ Goes(i, "failed") /\ proc' = proc
        /\ SettleRun(i, "cancelled") \/ SettleRun(i, "failed")
    BY <1>2 DEF StepFails
  <2> QED
    BY <2>1, <2>2, FieldTypes
<1>3. CASE ~StepFails(i)
  <2>1. /\ ~LastAttempt(i)
        /\ exec' = [exec EXCEPT ![i] =
                         [pc |-> IF Prompted(i) THEN "prompt" ELSE "work",
                          tries |-> @.tries + 1]]
        /\ run' = [run EXCEPT ![i] = [state |-> "running",
                         pid |-> IsCommand(i) /\ ~Prompted(i)]]
        /\ proc' = [proc EXCEPT ![i] = IF Prompted(i) THEN @ ELSE "live"]
    BY <1>3 DEF AttemptFails
  <2>2. exec[i].tries <= program.steps[i].retries
    BY <1>1, <2>1 DEF LastAttempt
  <2>3. exec' \in ExecType
    BY <1>1, <2>1 DEF ExecPc
  <2>4. \A j \in Steps : exec'[j].tries <= program.steps[j].retries + 1
    BY <1>1, <2>1, <2>2
  <2>5. run' \in RunType
    BY <2>1 DEF RunStates, IsCommand, IsGit, IsAcp, Prompted
  <2>6. proc' \in ProcType
    BY <2>1
  <2> QED
    BY <2>3, <2>4, <2>5, <2>6
<1> QED
  BY <1>2, <1>3

LEMMA FaultType ==
    ASSUME TypeOK, Fault \/ NoFault
    PROVE  mishaps' \subseteq Mishaps /\ troubles' \in 0..MaxTroubles
<1>1. CASE Fault
  <2>1. troubles' \in 0..MaxTroubles
    BY <1>1 DEF TypeOK, Fault, Trouble
  <2> QED
    BY <1>1, <2>1 DEF TypeOK, Fault, Mishaps
<1>2. CASE NoFault
  BY <1>2 DEF TypeOK, NoFault
<1> QED
  BY <1>1, <1>2

LEMMA OutputsType ==
    ASSUME program \in Programs, NEW i \in Steps
    PROVE  /\ Output(program, i) \in (0..Last) \X ArtifactKinds
           /\ Extras(program, i) \subseteq (0..Last) \X ArtifactKinds
<1>1. i \in 0..Last
  BY ProgramFacts
<1> QED
  BY <1>1 DEF Output, Extras, ArtifactKinds

\* Only the attempt, the run, the process, the artifacts and the mishaps of a
\* step execution change.
LEMMA ExecutionTypes ==
    ASSUME TypeOK, NEW i \in Steps, Execution(i)
    PROVE  TypeOK'
<1> USE DEF TypeOK, outside, rows, work
<1>1. \A j \in Steps : program.steps[j].retries \in Nat /\ exec[j].tries \in Nat
  BY ProgramFacts DEF StepRecord
<1>2. program' = program /\ Steps' = Steps
  BY DEF Execution, Launch, WorkReturns, WriteArtifact, WriteExtra, Removed, Steps
<1>3. ASSUME NEW pc \in ExecPc, Goes(i, pc)
      PROVE  exec' \in ExecType /\ \A j \in Steps : exec'[j].tries <= program.steps[j].retries + 1
  BY <1>3, FieldTypes
<1>4. ASSUME NEW state \in RunStates, SettleRun(i, state)
      PROVE  run' \in RunType
  BY <1>4, FieldTypes
<1>5. CASE Launch(i)
  <2>1. CASE AttemptFails(i) /\ (Fault \/ NoFault)
    BY <1>2, <1>5, <2>1, AttemptFailsType, FaultType, TypeNext DEF Launch, At, TriesBounded
  <2>2. CASE ~(AttemptFails(i) /\ (Fault \/ NoFault))
    <3>1. /\ run' = [run EXCEPT ![i].pid = IsCommand(i)]
          /\ proc' = [proc EXCEPT ![i] = "live"]
          /\ Goes(i, "work")
          /\ NoFault
      BY <1>5, <2>2 DEF Launch
    <3>2. run' \in RunType
      BY <3>1, FieldTypes DEF IsCommand, IsGit, IsAcp
    <3> QED
      BY <1>2, <1>3, <1>5, <3>1, <3>2, FaultType, TypeNext DEF Launch, TriesBounded, ExecPc
  <2> QED
    BY <2>1, <2>2
<1>6. CASE WorkReturns(i)
  <2>1. run' \in RunType /\ exec' \in ExecType /\ proc' \in ProcType
        /\ \A j \in Steps : exec'[j].tries <= program.steps[j].retries + 1
    <3>1. CASE AttemptFails(i)
      BY <1>6, <3>1, AttemptFailsType DEF WorkReturns, At
    <3>2. CASE StepFails(i)
      BY <1>3, <1>4, <3>2 DEF StepFails, ExecPc, RunStates
    <3>3. CASE Goes(i, "artifact") /\ UNCHANGED <<run, proc>>
      BY <1>3, <3>3 DEF ExecPc
    <3> QED
      BY <1>6, <3>1, <3>2, <3>3 DEF WorkReturns
  <2> QED
    BY <1>2, <1>6, <2>1, TypeNext DEF WorkReturns, TriesBounded
<1>7. CASE WriteArtifact(i)
  <2>1. mishaps' \subseteq Mishaps /\ troubles' \in 0..MaxTroubles
    BY <1>7, FaultType DEF WriteArtifact, Throws
  <2>2. PICK pc \in ExecPc : Goes(i, pc)
    BY <1>7 DEF WriteArtifact, Throws, Finishes, ExecPc
  <2>3. run' \in RunType
    BY <1>4, <1>7 DEF WriteArtifact, Throws, Finishes, RunStates
  <2>4. artifacts' \subseteq (0..Last) \X ArtifactKinds
    BY <1>7, OutputsType DEF WriteArtifact, Throws
  <2> QED
    BY <1>2, <1>3, <1>7, <2>1, <2>2, <2>3, <2>4, TypeNext DEF WriteArtifact, TriesBounded
<1>8. CASE WriteExtra(i)
  <2>1. mishaps' \subseteq Mishaps /\ troubles' \in 0..MaxTroubles
    BY <1>8, FaultType DEF WriteExtra, Throws
  <2>2. PICK pc \in ExecPc : Goes(i, pc)
    BY <1>8 DEF WriteExtra, Throws, Finishes, ExecPc
  <2>3. run' \in RunType
    BY <1>4, <1>8 DEF WriteExtra, Throws, Finishes, RunStates
  <2>4. artifacts' \subseteq (0..Last) \X ArtifactKinds
    BY <1>8, OutputsType DEF WriteExtra, Throws
  <2> QED
    BY <1>2, <1>3, <1>8, <2>1, <2>2, <2>3, <2>4, TypeNext DEF WriteExtra, TriesBounded
<1>9. CASE Removed(i)
  <2>1. mishaps' \subseteq Mishaps /\ troubles' \in 0..MaxTroubles
    BY <1>9, FaultType DEF Removed
  <2>2. PICK pc \in ExecPc : Goes(i, pc)
    BY <1>9 DEF Removed, ExecPc
  <2>3. run' \in RunType
    BY <1>4, <1>9 DEF Removed, RunStates
  <2> QED
    BY <1>2, <1>3, <1>9, <2>1, <2>2, <2>3, TypeNext DEF Removed, TriesBounded
<1> QED
  BY <1>5, <1>6, <1>7, <1>8, <1>9 DEF Execution

LEMMA CancelTypes ==
    ASSUME TypeOK, NEW c \in Cancels, CancelCall(c) \/ Cancel(c)
    PROVE  TypeOK'
<1> USE DEF TypeOK, outside, rows, work
<1>1. program' = program /\ Steps' = Steps
  BY DEF Cancel, CancelCall, CancelSeesQuiet, CancelGivesUp, CancelEnds, StopReturns, Steps
<1>2. CASE CancelCall(c)
  <2>1. proc' \in ProcType
    BY <1>2 DEF CancelCall
  <2>2. campaign' \in CampaignType
    <3>1. campaign' = campaign \/ BeginCancellation
      BY <1>2 DEF CancelCall
    <3> QED
      BY <3>1 DEF BeginCancellation, States
  <2>3. call' \in CallType
    <3>1. PICK new \in [pc : {"idle", "waiting", "unproved", "done"},
                        stops : SUBSET Steps, quiet : BOOLEAN] :
            call' = [call EXCEPT ![c] = new]
      <4>1. CASE campaign.state \in Refused
        <5>1. call' = [call EXCEPT ![c] = [call[c] EXCEPT !.pc = "done"]]
          BY <1>2, <4>1 DEF CancelCall
        <5>2. [call[c] EXCEPT !.pc = "done"] \in [pc : {"idle", "waiting", "unproved", "done"},
                        stops : SUBSET Steps, quiet : BOOLEAN]
          BY call[c] \in [pc : {"idle", "waiting", "unproved", "done"},
                           stops : SUBSET Steps, quiet : BOOLEAN]
        <5> QED
          BY <5>1, <5>2
      <4>2. CASE campaign.state \notin Refused
        <5>1. {i \in Tracked : IsAcp(i)} \in SUBSET Steps
          BY DEF Tracked, Executing
        <5>2. call' = [call EXCEPT ![c] =
                   [pc |-> "waiting", stops |-> {i \in Tracked : IsAcp(i)}, quiet |-> FALSE]]
          BY <1>2, <4>2 DEF CancelCall
        <5> QED
          BY <5>1, <5>2
      <4> QED
        BY <4>1, <4>2
    <3> QED
      BY <3>1
  <2> QED
    BY <1>1, <1>2, <2>1, <2>2, <2>3, TypeNext DEF CancelCall, TriesBounded
<1>3. CASE CancelSeesQuiet(c)
  <2>1. call' \in CallType
    BY ZenonT(60), <1>3 DEF CancelSeesQuiet
  <2> QED
    BY <1>1, <1>3, <2>1, TypeNext DEF CancelSeesQuiet, TriesBounded
<1>4. CASE CancelGivesUp(c)
  <2>1. call' \in CallType
    BY ZenonT(60), <1>4 DEF CancelGivesUp
  <2> QED
    BY <1>1, <1>4, <2>1, FaultType, TypeNext DEF CancelGivesUp, TriesBounded
<1>5. CASE CancelEnds(c)
  <2>1. call' \in CallType
    BY <1>5 DEF CancelEnds, NoCall
  <2>2. campaign' \in CampaignType /\ run' \in RunType
    BY <1>5, FinalizeTypes DEF CancelEnds, States
  <2>3. mishaps' \subseteq Mishaps
    BY <1>5 DEF CancelEnds, Mishaps
  <2> QED
    BY <1>1, <1>5, <2>1, <2>2, <2>3, TypeNext DEF CancelEnds, TriesBounded
<1>6. ASSUME NEW i \in Steps, StopReturns(c, i)
      PROVE  TypeOK'
  <2>1. call' \in CallType
    <3> DEFINE CallRecord == [pc : {"idle", "waiting", "unproved", "done"},
                              stops : SUBSET Steps, quiet : BOOLEAN]
    <3>1. PICK stops \in SUBSET Steps :
            \/ call' = [call EXCEPT ![c] = [call[c] EXCEPT !.stops = stops]]
            \/ call' = [call EXCEPT ![c] = [call[c] EXCEPT !.stops = stops, !.pc = "unproved"]]
      <4>1. call[c].stops \ {i} \in SUBSET Steps
        OBVIOUS
      <4> QED
        BY <1>6, <4>1 DEF StopReturns
    <3>2. call[c] \in CallRecord
      OBVIOUS
    <3>3. /\ [call[c] EXCEPT !.stops = stops] \in CallRecord
          /\ [call[c] EXCEPT !.stops = stops, !.pc = "unproved"] \in CallRecord
      BY <3>2
    <3> QED
      BY <3>1, <3>3
  <2>2. proc' \in ProcType
    BY <1>6 DEF StopReturns
  <2> QED
    BY <1>1, <1>6, <2>1, <2>2, FaultType, TypeNext DEF StopReturns, TriesBounded
<1> QED
  BY <1>2, <1>3, <1>4, <1>5, <1>6 DEF Cancel

LEMMA HaltedTypes ==
    ASSUME TypeOK, Halted, Trouble, campaign' \in CampaignType,
           run' \in RunType, proc' \in ProcType
    PROVE  TypeOK'
<1> USE DEF TypeOK
<1>1. Last \in Nat /\ 1 <= Last
  BY ProgramFacts
<1>2. program' = program /\ Steps' = Steps
  BY DEF Halted, Steps
<1>3. driver' \in DriverType
  BY <1>1 DEF Halted, NoDriver
<1>4. exec' \in ExecType
  BY DEF Halted, Idle, ExecPc
<1>5. TriesBounded'
  <2>1. \A j \in Steps : program.steps[j].retries \in Nat
    BY ProgramFacts DEF StepRecord
  <2> QED
    BY <1>2, <2>1 DEF TriesBounded, Halted, Idle
<1>6. call' \in CallType
  BY DEF Halted, NoCall
<1>7. mishaps' \subseteq Mishaps /\ troubles' \in 0..MaxTroubles
  BY DEF Halted, Trouble, Mishaps
<1> QED
  BY <1>2, <1>3, <1>4, <1>5, <1>6, <1>7, TypeNext DEF Halted, NoRecovery

\* A campaign that waits for its approval waits at one of its steps.
GateOk == campaign.state = "waiting_approval" => campaign.index <= Last

LEMMA RecoveryType ==
    ASSUME NEW S, NEW todo \in SUBSET S
    PROVE  /\ \A ambiguous \in BOOLEAN :
                [todo |-> todo, ambiguous |-> ambiguous] \in [todo : SUBSET S, ambiguous : BOOLEAN]
           /\ \A r \in [todo : SUBSET S, ambiguous : BOOLEAN] :
                [r EXCEPT !.todo = todo] \in [todo : SUBSET S, ambiguous : BOOLEAN]
OBVIOUS

LEMMA RestTypes ==
    ASSUME TypeOK, GateOk,
           \/ Approve \/ Prune \/ Crash \/ CrashLaunching \/ Recovery
           \/ \E i \in Steps : ProcEnds(i) \/ CrashSpawning(i)
    PROVE  TypeOK'
<1> USE DEF TypeOK, outside, rows, work
<1>1. Last \in Nat /\ 1 <= Last /\ Steps = 1..Last
  BY ProgramFacts
<1>2. program' = program /\ Steps' = Steps
  BY DEF Approve, Prune, Crash, CrashLaunching, CrashSpawning, Recovery, Halted, Restart,
         RecoverRun, RecoveryEnds, ProcEnds, Steps
<1>3. CASE Approve
  <2>1. driver' \in DriverType
    <3>1. campaign.index \in 1..Last
      BY <1>3, <1>1 DEF Approve, ResumeApproval, GateOk
    <3>2. driver' = [pc |-> "loop", at |-> campaign.index, batch |-> {},
                     approved |-> campaign.index]
      BY <1>3 DEF Approve
    <3> QED
      BY <3>1, <3>2, <1>1
  <2>2. campaign' \in CampaignType
    BY <1>3 DEF Approve, ResumeApproval, States
  <2> QED
    BY <1>2, <1>3, <2>1, <2>2, TypeNext DEF Approve, TriesBounded
<1>4. CASE Prune
  BY <1>2, <1>4, TypeNext DEF Prune, TriesBounded
<1>5. CASE Crash
  <2>1. proc' \in ProcType
    BY <1>5 DEF Crash
  <2> QED
    BY <1>5, <2>1, HaltedTypes DEF Crash
<1>6. CASE CrashLaunching
  <2> DEFINE batch == Batch(program, driver.at)
  <2>1. driver.at \in 1..Last
    BY <1>1, <1>6 DEF CrashLaunching
  <2>2. PICK i \in batch : Begin({j \in batch : j <= i}, batch \ {i})
    BY <1>6 DEF CrashLaunching
  <2> DEFINE begun == {j \in batch : j <= i}
  <2>3. /\ begun \in SUBSET Steps
        /\ Cardinality(begun) \in Nat /\ 1 <= Cardinality(begun)
        /\ driver.at + Cardinality(begun) - 1 <= Last
    <3>1. i \in Batch(program, driver.at) /\ program \in Programs
      BY <2>2
    <3> HIDE DEF TypeOK
    <3> QED
      BY <2>1, <3>1, BegunEnds
  <2> HIDE DEF batch
  <2>4. Begin(begun, batch \ {i})
    BY <2>2
  <2> HIDE DEF begun
  <2>5. campaign' \in CampaignType /\ run' \in RunType /\ proc' \in ProcType
    BY <2>3, <2>4, BeginType
  <2> QED
    BY <1>6, <2>5, HaltedTypes DEF CrashLaunching
<1>7. CASE Restart
  <2>1. recovery' \in [todo : SUBSET Steps, ambiguous : BOOLEAN]
    <3>1. ActiveRuns \in SUBSET Steps
      BY DEF ActiveRuns
    <3> QED
      <4>1. recovery' = [todo |-> ActiveRuns, ambiguous |-> FALSE] \/ recovery' = recovery
        BY <1>7 DEF Restart
      <4>2. recovery \in [todo : SUBSET Steps, ambiguous : BOOLEAN]
        OBVIOUS
      <4> HIDE DEF ActiveRuns, TypeOK
      <4> QED
        BY <3>1, <4>1, <4>2, RecoveryType
  <2> QED
    BY <1>2, <1>7, <2>1, TypeNext DEF Restart, TriesBounded
<1>8. ASSUME NEW i \in Steps, RecoverRun(i)
      PROVE  TypeOK'
  <2>1. recovery' \in [todo : SUBSET Steps, ambiguous : BOOLEAN]
    <3>1. PICK todo \in SUBSET Steps :
            \/ recovery' = [todo |-> todo, ambiguous |-> TRUE]
            \/ recovery' = [recovery EXCEPT !.todo = todo]
      <4>1. recovery.todo \ {i} \in SUBSET Steps
        OBVIOUS
      <4> QED
        BY <1>8, <4>1 DEF RecoverRun
    <3>2. recovery \in [todo : SUBSET Steps, ambiguous : BOOLEAN]
      OBVIOUS
    <3>3. /\ [todo |-> todo, ambiguous |-> TRUE] \in [todo : SUBSET Steps, ambiguous : BOOLEAN]
          /\ [recovery EXCEPT !.todo = todo] \in [todo : SUBSET Steps, ambiguous : BOOLEAN]
      BY <3>2, RecoveryType
    <3> HIDE DEF TypeOK
    <3> QED
      BY <3>1, <3>3
  <2>2. proc' \in ProcType
    BY <1>8 DEF RecoverRun
  <2>3. mishaps' \subseteq Mishaps /\ troubles' \in 0..MaxTroubles
    BY <1>8, FaultType DEF RecoverRun
  <2> QED
    BY <1>2, <1>8, <2>1, <2>2, <2>3, TypeNext DEF RecoverRun, TriesBounded
<1>9. CASE RecoveryEnds
  <2>1. campaign' \in CampaignType /\ run' \in RunType
    BY ZenonT(60), <1>9, FinalizeTypes DEF RecoveryEnds, States
  <2> QED
    BY <1>2, <1>9, <2>1, TypeNext DEF RecoveryEnds, TriesBounded, NoRecovery
<1>10. ASSUME NEW i \in Steps, ProcEnds(i)
       PROVE  TypeOK'
  <2>1. proc' \in ProcType
    BY <1>10 DEF ProcEnds
  <2> QED
    BY <1>2, <1>10, <2>1, TypeNext DEF ProcEnds, TriesBounded
<1>11. ASSUME NEW i \in Steps, CrashSpawning(i)
       PROVE  TypeOK'
  <2>1. run' \in RunType
    <3>1. run' = run \/ run' = [run EXCEPT ![i] = [state |-> "running", pid |-> FALSE]]
      BY <1>11 DEF CrashSpawning
    <3>2. [state |-> "running", pid |-> FALSE] \in [state : RunStates, pid : BOOLEAN]
      BY DEF RunStates
    <3> QED
      BY <3>1, <3>2
  <2>2. proc' \in ProcType
    BY <1>11 DEF CrashSpawning
  <2> QED
    BY <1>11, <2>1, <2>2, HaltedTypes DEF CrashSpawning
<1> QED
  BY <1>3, <1>4, <1>5, <1>6, <1>7, <1>8, <1>9, <1>10, <1>11 DEF Recovery

LEMMA BatchOkStep == TypeOK /\ BatchOk /\ [Next]_vars => BatchOk'
<1> SUFFICES ASSUME TypeOK, BatchOk, [Next]_vars PROVE BatchOk'
  OBVIOUS
<1> USE DEF BatchOk, outside, rows, work
<1>1. ASSUME UNCHANGED <<program, driver>> PROVE BatchOk'
  BY <1>1 DEF Last
<1>2. ASSUME program' = program, driver'.pc # "batch" PROVE BatchOk'
  BY <1>2
<1>3. CASE Driver
  <2>1. CASE DriverLoop
    <3>1. \/ driver' = [driver EXCEPT !.pc = "idle", !.at = 1, !.batch = {}]
          \/ /\ driver.at <= Last
             /\ driver' = [driver EXCEPT !.pc = "batch", !.at = driver.at,
                             !.batch = Batch(program, driver.at)]
      BY <2>1, ProgramFacts DEF DriverLoop, Rest, Drive, TypeOK
    <3>2. program' = program
      BY <2>1 DEF DriverLoop
    <3> QED
      BY <3>1, <3>2 DEF TypeOK, Last
  <2>2. CASE BatchReturns \/ BatchThrows \/ AfterLands \/ AfterThrows
    BY <1>2, <2>2 DEF BatchReturns, BatchThrows, AfterLands, AfterThrows, CaughtBy, Rest,
                      Drive, TypeOK
  <2> QED
    BY <1>3, <2>1, <2>2 DEF Driver
<1>4. CASE Approve
  BY <1>2, <1>4 DEF Approve
<1>5. CASE Crash \/ CrashLaunching \/ \E i \in Steps : CrashSpawning(i)
  BY <1>2, <1>5 DEF Crash, CrashLaunching, CrashSpawning, Halted, NoDriver
<1>6. CASE Prune \/ Recovery
  BY <1>1, <1>6 DEF Prune, Recovery, Restart, RecoverRun, RecoveryEnds
<1>7. ASSUME NEW i \in Steps, Execution(i) \/ ProcEnds(i) PROVE BatchOk'
  BY <1>1, <1>7 DEF Execution, Launch, WorkReturns, WriteArtifact, WriteExtra, Removed, ProcEnds
<1>8. ASSUME NEW c \in Cancels, CancelCall(c) \/ Cancel(c) PROVE BatchOk'
  BY <1>1, <1>8 DEF CancelCall, Cancel, CancelSeesQuiet, CancelGivesUp, CancelEnds, StopReturns
<1>9. CASE UNCHANGED vars
  BY <1>1, <1>9 DEF vars
<1> QED
  BY <1>3, <1>4, <1>5, <1>6, <1>7, <1>8, <1>9 DEF Next

\* Nothing but the driver at a gate lets a campaign wait for its approval.
LEMMA GateOkStep == TypeOK /\ GateOk /\ [Next]_vars => GateOk'
<1> SUFFICES ASSUME TypeOK, GateOk, [Next]_vars PROVE GateOk'
  OBVIOUS
<1> USE DEF outside, rows, work
<1>1. ASSUME program' = program, campaign' = campaign \/ campaign'.state # "waiting_approval"
      PROVE  GateOk'
  BY <1>1 DEF GateOk, Last
<1>2. FinalizeCancellation \/ FinalizeFailure =>
        campaign' = campaign \/ campaign'.state # "waiting_approval"
  BY DEF FinalizeCancellation, FinalizeFailure, TypeOK
<1>3. CASE Driver
  <2>1. program' = program
    BY <1>3 DEF Driver, DriverLoop, BatchReturns, BatchThrows, AfterLands, AfterThrows
  <2>2. CASE DriverLoop
    <3>1. CASE driver.at <= Last /\ campaign' = [campaign EXCEPT !.state = "waiting_approval",
                                                               !.index = driver.at]
      BY <2>1, <3>1 DEF GateOk, Last, TypeOK
    <3>2. CASE UNCHANGED campaign
      BY <1>1, <2>1, <3>2
    <3>3. ASSUME NEW batch, NEW recorded, Begin(batch, recorded) PROVE GateOk'
      BY <1>1, <2>1, <3>3 DEF Begin, TypeOK
    <3> QED
      BY <2>2, <3>1, <3>2, <3>3, ProgramFacts DEF DriverLoop, TypeOK
  <2>3. CASE BatchReturns
    BY <1>1, <2>1, <2>3 DEF BatchReturns, CompleteStep, FailCampaign, TypeOK
  <2>4. CASE BatchThrows \/ AfterThrows
    BY <1>1, <1>2, <2>1, <2>4 DEF BatchThrows, AfterThrows, CaughtBy
  <2>5. CASE AfterLands
    BY <1>1, <2>1, <2>5 DEF AfterLands
  <2> QED
    BY <1>3, <2>2, <2>3, <2>4, <2>5 DEF Driver
<1>4. CASE Approve
  BY <1>1, <1>4 DEF Approve, ResumeApproval, TypeOK
<1>5. CASE Crash \/ Prune \/ \E i \in Steps : CrashSpawning(i)
  BY <1>1, <1>5 DEF Crash, CrashSpawning, Halted, Prune
<1>6. CASE CrashLaunching
  <2>1. campaign'.state = "running"
    BY <1>6 DEF CrashLaunching, Begin, TypeOK
  <2> QED
    BY <1>1, <1>6, <2>1 DEF CrashLaunching, Halted
<1>7. CASE Recovery
  BY <1>1, <1>2, <1>7 DEF Recovery, Restart, RecoverRun, RecoveryEnds, TypeOK
<1>8. ASSUME NEW i \in Steps, Execution(i) \/ ProcEnds(i) PROVE GateOk'
  BY <1>1, <1>8 DEF Execution, Launch, WorkReturns, WriteArtifact, WriteExtra, Removed, ProcEnds
<1>9. ASSUME NEW c \in Cancels, CancelCall(c) \/ Cancel(c) PROVE GateOk'
  <2>1. BeginCancellation => campaign' = campaign \/ campaign'.state # "waiting_approval"
    BY DEF BeginCancellation, TypeOK
  <2>2. CASE CancelCall(c)
    BY <1>1, <2>1, <2>2 DEF CancelCall
  <2>3. CASE CancelEnds(c)
    BY <1>1, <1>2, <2>3 DEF CancelEnds, TypeOK
  <2>4. CASE CancelSeesQuiet(c) \/ CancelGivesUp(c) \/ \E i \in Steps : StopReturns(c, i)
    BY <1>1, <2>4 DEF CancelSeesQuiet, CancelGivesUp, StopReturns
  <2> QED
    BY <1>9, <2>2, <2>3, <2>4 DEF Cancel
<1>10. CASE UNCHANGED vars
  BY <1>1, <1>10 DEF vars
<1> QED
  BY <1>3, <1>4, <1>5, <1>6, <1>7, <1>8, <1>9, <1>10 DEF Next

LEMMA TypeStep == TypeOK /\ BatchOk /\ GateOk /\ [Next]_vars => TypeOK'
<1> SUFFICES ASSUME TypeOK, BatchOk, GateOk, [Next]_vars PROVE TypeOK'
  OBVIOUS
<1>1. CASE UNCHANGED vars
  BY <1>1 DEF TypeOK, vars, Steps, Last
<1>2. CASE Next
  BY <1>2, DriverTypes, ExecutionTypes, CancelTypes, RestTypes DEF Next
<1> QED
  BY <1>1, <1>2

\* Every variable keeps its type: the index of a campaign stays within its
\* program or one past it, whatever a batch, a merge that is skipped or a crash
\* in the middle of a batch adds to it, and no step is tried more often than it
\* may be.
THEOREM TypeCorrect == Spec => []TypeOK
<1>1. Init => BatchOk /\ GateOk
  BY DEF Init, BatchOk, GateOk, NoDriver
<1> QED
  BY <1>1, InitType, TypeStep, BatchOkStep, GateOkStep, PTL DEF Spec

-----------------------------------------------------------------------------
(* The promise of CampaignLife.                                            *)

LifeCalm == Calm({"stale", "overlap"})

\* Without a daemon nobody drives the campaign, and nobody cancels it.
Alone ==
    daemon # "up" => driver.pc = "idle" /\ \A c \in Cancels : ~Waits(c)

\* Who drives a campaign finds it running, unless it is being cancelled; what
\* has completed it takes no further.
DriverLife ==
    LifeCalm =>
      (driver.pc # "idle" =>
         \/ campaign.state \in {"running", "cancelling", "cancelled"}
         \/ campaign.state = "completed" /\ driver.pc \in {"loop", "after"}
            /\ driver.at > Last)

RecoveryLife ==
    LifeCalm =>
      (daemon = "recovering" => campaign.state \in {"running", "cancelling"})

LifeInv == Alone /\ DriverLife /\ RecoveryLife

\* What a step may do to the state of a campaign whose row nobody overwrites
LifeMove ==
    \/ campaign'.state = campaign.state
    \/ campaign.state = "running"
       /\ campaign'.state \in {"waiting_approval", "completed", "failed",
                               "cancelling", "recovery_required"}
    \/ campaign.state = "waiting_approval" /\ campaign'.state \in {"running", "cancelling"}
    \/ campaign.state = "cancelling" /\ campaign'.state \in {"cancelled", "recovery_required"}

LEMMA MishapsGrow == [Next]_vars => mishaps \subseteq mishaps'
<1> SUFFICES ASSUME [Next]_vars PROVE mishaps \subseteq mishaps'
  OBVIOUS
<1>1. Fault \/ NoFault => mishaps \subseteq mishaps'
  BY DEF Fault, NoFault
<1>2. CASE Driver
  BY <1>2 DEF Driver, DriverLoop, BatchReturns, BatchThrows, AfterLands, AfterThrows, CaughtBy
<1>3. CASE \/ Approve \/ Prune \/ Crash \/ CrashLaunching
           \/ \E i \in Steps : CrashSpawning(i)
  BY <1>3 DEF Approve, Prune, Crash, CrashLaunching, CrashSpawning, Halted
<1>4. CASE Recovery
  BY <1>1, <1>4 DEF Recovery, Restart, RecoverRun, RecoveryEnds
<1>5. ASSUME NEW i \in Steps, Execution(i) \/ ProcEnds(i) PROVE mishaps \subseteq mishaps'
  BY <1>1, <1>5 DEF Execution, Launch, WorkReturns, WriteArtifact, WriteExtra, Removed,
                    Throws, ProcEnds
<1>6. ASSUME NEW c \in Cancels, CancelCall(c) \/ Cancel(c) PROVE mishaps \subseteq mishaps'
  BY <1>1, <1>6 DEF CancelCall, Cancel, CancelSeesQuiet, CancelGivesUp, CancelEnds, StopReturns
<1>7. CASE UNCHANGED vars
  BY <1>7 DEF vars
<1> QED
  BY <1>2, <1>3, <1>4, <1>5, <1>6, <1>7 DEF Next

LEMMA LifeInit == Init => LifeInv
BY DEF Init, LifeInv, Alone, DriverLife, RecoveryLife, NoCall, NoDriver, Waits

LEMMA FinalizeMoves ==
    ASSUME TypeOK
    PROVE  /\ FinalizeFailure => \/ campaign' = campaign
                                 \/ campaign.state \in {"running", "waiting_approval"}
                                    /\ campaign'.state = "failed"
           /\ FinalizeCancellation => \/ campaign' = campaign
                                      \/ Cancelling /\ campaign'.state = "cancelled"
<1>1. campaign.state \in States /\ [campaign EXCEPT !.state = "failed", !.fence = FALSE].state = "failed"
      /\ [campaign EXCEPT !.state = "cancelled", !.fence = FALSE].state = "cancelled"
  BY DEF TypeOK
<1> QED
  BY <1>1 DEF FinalizeFailure, FinalizeCancellation, States, Ended

\* The steps of the driver, each from what DriverLife says of its state
LEMMA DriverLifeStep ==
    ASSUME TypeOK, LifeInv, Driver
    PROVE  LifeInv' /\ (LifeCalm /\ LifeCalm' => LifeMove)
<1> USE DEF outside, rows, work
<1>1. daemon = "up"
  BY DEF LifeInv, Alone, Driver, DriverLoop, BatchReturns, BatchThrows, AfterLands, AfterThrows
<1>2. daemon' = "up" /\ program' = program /\ Last' = Last /\ mishaps \subseteq mishaps'
  BY <1>1 DEF Driver, DriverLoop, BatchReturns, BatchThrows, AfterLands, AfterThrows,
              CaughtBy, Last
<1>3. Alone' /\ RecoveryLife'
  BY <1>2 DEF Alone, RecoveryLife
<1>4. LifeCalm' => LifeCalm
  BY <1>2 DEF LifeCalm, Calm
<1>5. Rest => driver'.pc = "idle"
  BY DEF Rest, Drive, TypeOK
<1> SUFFICES ASSUME LifeCalm' PROVE DriverLife' /\ LifeMove
  BY <1>3 DEF LifeInv, DriverLife
<1>6. driver.pc # "idle" =>
         \/ campaign.state \in {"running", "cancelling", "cancelled"}
         \/ campaign.state = "completed" /\ driver.pc \in {"loop", "after"}
            /\ driver.at > Last
  BY <1>4 DEF LifeInv, DriverLife
<1>7. CASE DriverLoop
  <2>1. CASE driver.at > Last \/ Cancelling
    BY <1>5, <1>7, <2>1 DEF DriverLoop, DriverLife, LifeMove
  <2>2. CASE ~(driver.at > Last \/ Cancelling)
    <3>1. campaign.state = "running"
      BY <1>6, <1>7, <2>2 DEF DriverLoop, Cancelling
    <3>2. CASE Gated(driver.at)
      BY <1>5, <1>7, <2>2, <3>1, <3>2 DEF DriverLoop, DriverLife, LifeMove, TypeOK
    <3>3. CASE ~Gated(driver.at)
      <4>1. campaign'.state = "running"
        BY <1>7, <2>2, <3>3 DEF DriverLoop, Begin, TypeOK
      <4> QED
        BY <3>1, <4>1 DEF DriverLife, LifeMove
    <3> QED
      BY <3>2, <3>3
  <2> QED
    BY <2>1, <2>2
<1>8. CASE BatchReturns
  <2>1. campaign.state \in {"running", "cancelling", "cancelled"}
    BY <1>6, <1>8 DEF BatchReturns
  <2>2. CASE Cancelling
    BY <1>5, <1>8, <2>2 DEF BatchReturns, DriverLife, LifeMove
  <2>3. CASE ~Cancelling /\ BatchFailed
    <3>1. campaign.state = "running" /\ campaign'.state = "failed"
      BY <1>8, <2>1, <2>3 DEF BatchReturns, FailCampaign, Cancelling, TypeOK
    <3> QED
      BY <1>5, <1>8, <2>3, <3>1 DEF BatchReturns, DriverLife, LifeMove
  <2>4. CASE ~Cancelling /\ ~BatchFailed
    <3> DEFINE next == NextIndex(driver.batch)
    <3>1. campaign.state = "running"
      BY <2>1, <2>4 DEF Cancelling
    <3>2. campaign' = [campaign EXCEPT !.index = next,
                        !.state = IF next > Last THEN "completed" ELSE "running"]
      BY <1>8, <2>4, <3>1 DEF BatchReturns, CompleteStep, Ended
    <3>3. driver'.pc \in {"loop", "after"} /\ driver'.at = campaign'.index
      BY <1>8, <2>4 DEF BatchReturns, Drive, TypeOK
    <3> HIDE DEF next
    <3>4. campaign'.index = next /\ campaign'.state = IF next > Last THEN "completed" ELSE "running"
      BY <3>2 DEF TypeOK
    <3> QED
      BY <1>2, <3>1, <3>3, <3>4 DEF DriverLife, LifeMove
  <2> QED
    BY <2>2, <2>3, <2>4
<1>9. CASE BatchThrows \/ AfterThrows
  <2>1. driver.pc # "idle" /\ \E others : CaughtBy(others)
    BY <1>9 DEF BatchThrows, AfterThrows
  <2>2. driver'.pc = "idle"
    BY <1>5, <2>1 DEF CaughtBy
  <2>3. LifeMove
    <3>1. \/ campaign' = campaign
          \/ campaign.state = "running" /\ campaign'.state = "failed"
      <4>1. campaign' = campaign \/ FinalizeFailure
        BY <2>1 DEF CaughtBy
      <4>2. campaign.state # "waiting_approval"
        BY <1>6, <2>1
      <4> QED
        BY <4>1, <4>2, FinalizeMoves
    <3> QED
      BY <3>1 DEF LifeMove
  <2> QED
    BY <2>2, <2>3 DEF DriverLife
<1>10. CASE AfterLands
  <2>1. campaign.state = "running"
    <3>1. campaign.state # "running" => "stale" \in mishaps'
      BY <1>10 DEF AfterLands
    <3> QED
      BY <3>1 DEF LifeCalm, Calm
  <2>2. PICK next : /\ campaign' = [state |-> IF next > Last THEN "completed" ELSE "running",
                                    index |-> next, fence |-> FALSE]
                    /\ Drive("loop", next, {})
    BY <1>10 DEF AfterLands
  <2>3. driver'.pc = "loop" /\ driver'.at = next
    BY <2>2 DEF Drive, TypeOK
  <2> QED
    BY <1>2, <2>1, <2>2, <2>3 DEF DriverLife, LifeMove
<1> QED
  BY <1>7, <1>8, <1>9, <1>10 DEF Driver

LEMMA LifeStep ==
    ASSUME TypeOK, LifeInv, [Next]_vars
    PROVE  LifeInv' /\ (LifeCalm /\ LifeCalm' => LifeMove)
<1> USE DEF outside, rows, work
<1>1. LifeCalm' => LifeCalm
  BY MishapsGrow DEF LifeCalm, Calm
<1>2. ASSUME UNCHANGED <<program, campaign, driver, daemon>>,
             \A c \in Cancels : Waits(c)' => Waits(c)
      PROVE  LifeInv' /\ (LifeCalm /\ LifeCalm' => LifeMove)
  BY <1>1, <1>2 DEF LifeInv, Alone, DriverLife, RecoveryLife, LifeMove, Last
<1>3. CASE Approve
  <2>1. campaign.state = "waiting_approval" /\ campaign'.state = "running" /\ daemon' = "up"
    BY <1>3 DEF Approve, ResumeApproval, TypeOK
  <2> QED
    BY <2>1 DEF LifeInv, Alone, DriverLife, RecoveryLife, LifeMove
<1>4. CASE Prune
  BY <1>2, <1>4 DEF Prune, Waits
<1>5. ASSUME Halted, campaign'.state = campaign.state
      PROVE  LifeInv' /\ (LifeCalm /\ LifeCalm' => LifeMove)
  BY <1>5 DEF Halted, NoDriver, NoCall, LifeInv, Alone, DriverLife, RecoveryLife, LifeMove, Waits
<1>6. CASE Crash \/ \E i \in Steps : CrashSpawning(i)
  BY <1>5, <1>6 DEF Crash, CrashSpawning
<1>7. CASE CrashLaunching
  <2>1. campaign'.state = "running" /\ Halted
    BY <1>7 DEF CrashLaunching, Begin, TypeOK
  <2>2. LifeCalm => campaign.state = "running"
    BY <1>7, ProgramFacts DEF CrashLaunching, LifeInv, DriverLife, Cancelling, TypeOK
  <2>3. LifeInv'
    BY <2>1 DEF Halted, NoDriver, NoCall, LifeInv, Alone, DriverLife, RecoveryLife, Waits
  <2> QED
    BY <2>1, <2>2, <2>3 DEF LifeMove
<1>8. CASE Restart
  BY <1>1, <1>8 DEF Restart, Interrupted, LifeInv, Alone, DriverLife, RecoveryLife, LifeMove, Waits
<1>9. ASSUME NEW i \in Steps, RecoverRun(i)
      PROVE  LifeInv' /\ (LifeCalm /\ LifeCalm' => LifeMove)
  BY <1>2, <1>9 DEF RecoverRun, Waits
<1>10. CASE RecoveryEnds
  <2>1. driver'.pc = "idle" /\ daemon' = "up"
    BY <1>10 DEF RecoveryEnds, LifeInv, Alone
  <2>2. LifeCalm => campaign.state \in {"running", "cancelling"}
    BY <1>10 DEF RecoveryEnds, LifeInv, RecoveryLife
  <2>3. LifeCalm => LifeMove
    <3>1. \/ campaign'.state = "recovery_required"
          \/ campaign.state = "cancelling" /\ FinalizeCancellation
          \/ campaign.state # "cancelling" /\ FinalizeFailure
      BY <1>10 DEF RecoveryEnds, TypeOK
    <3> QED
      BY <2>2, <3>1, FinalizeMoves DEF LifeMove
  <2> QED
    BY <2>1, <2>3 DEF LifeInv, Alone, DriverLife, RecoveryLife
<1>11. ASSUME NEW i \in Steps, Execution(i) \/ ProcEnds(i)
       PROVE  LifeInv' /\ (LifeCalm /\ LifeCalm' => LifeMove)
  BY <1>2, <1>11 DEF Execution, Launch, WorkReturns, WriteArtifact, WriteExtra, Removed,
                     ProcEnds, Waits
<1>12. ASSUME NEW c \in Cancels, CancelCall(c)
       PROVE  LifeInv' /\ (LifeCalm /\ LifeCalm' => LifeMove)
  <2>1. daemon' = "up" /\ driver' = driver /\ program' = program
    BY <1>12 DEF CancelCall
  <2>2. \/ campaign' = campaign
        \/ campaign.state \in {"running", "waiting_approval"} /\ campaign'.state = "cancelling"
    BY <1>12 DEF CancelCall, BeginCancellation, Refused, Ended, Cancelling, TypeOK, States
  <2> QED
    BY <1>1, <2>1, <2>2 DEF LifeInv, Alone, DriverLife, RecoveryLife, LifeMove, Last
<1>13. ASSUME NEW c \in Cancels, CancelEnds(c)
       PROVE  LifeInv' /\ (LifeCalm /\ LifeCalm' => LifeMove)
  <2>1. daemon' = "up" /\ driver' = driver /\ program' = program
    BY <1>13 DEF CancelEnds, LifeInv, Alone
  <2>2. LifeCalm' => \/ campaign' = campaign
                     \/ campaign.state \in {"cancelling", "cancelled"}
                        /\ campaign'.state = "cancelled"
                     \/ campaign.state = "cancelling" /\ campaign'.state = "cancelling"
    <3>1. CASE call[c].pc = "waiting" /\ Tracked = {}
      BY <1>13, <3>1 DEF CancelEnds, FinalizeCancellation, Cancelling, TypeOK
    <3>2. CASE ~(call[c].pc = "waiting" /\ Tracked = {})
      <4>1. campaign'.state = "cancelling"
            /\ (campaign.state # "cancelling" => "overlap" \in mishaps')
        BY <1>13, <3>2 DEF CancelEnds, TypeOK
      <4> QED
        BY <4>1 DEF LifeCalm, Calm
    <3> QED
      BY <3>1, <3>2
  <2> QED
    BY <1>1, <2>1, <2>2 DEF LifeInv, Alone, DriverLife, RecoveryLife, LifeMove, Last
<1>14. ASSUME NEW c \in Cancels,
              CancelSeesQuiet(c) \/ CancelGivesUp(c) \/ \E i \in Steps : StopReturns(c, i)
       PROVE  LifeInv' /\ (LifeCalm /\ LifeCalm' => LifeMove)
  <2>1. daemon = "up"
    BY <1>14 DEF CancelSeesQuiet, CancelGivesUp, StopReturns, Waits, LifeInv, Alone
  <2>2. UNCHANGED <<program, campaign, driver, daemon>>
    BY <1>14 DEF CancelSeesQuiet, CancelGivesUp, StopReturns
  <2> QED
    BY <1>1, <2>1, <2>2 DEF LifeInv, Alone, DriverLife, RecoveryLife, LifeMove, Last
<1>15. CASE UNCHANGED vars
  BY <1>2, <1>15 DEF vars, Waits
<1> QED
  BY <1>3, <1>4, <1>6, <1>7, <1>8, <1>9, <1>10, <1>11, <1>12, <1>13, <1>14, <1>15,
     DriverLifeStep DEF Next, Recovery, Cancel

\* Campaign implements CampaignLife: as long as its row is not overwritten, an
\* end of a campaign is final, a cancellation is only confirmed or handed over,
\* and only an approval takes a campaign on from its gate, whatever the driver,
\* the executions, the callers, crashes and recoveries do and in whatever order.
THEOREM LifeImplemented == Spec => ImplementsLife
<1> DEFINE bar == IF LifeCalm THEN campaign.state ELSE "disturbed"
<1>1. Init => bar = "running"
  BY DEF Init, LifeCalm, Calm
<1>2. TypeOK /\ LifeInv /\ [Next]_vars =>
        [Life!Next]_(IF Calm({"stale", "overlap"}) THEN campaign.state ELSE "disturbed")
  <2> SUFFICES ASSUME TypeOK, LifeInv, [Next]_vars
               PROVE  Life!Next \/ bar' = bar
    BY DEF LifeCalm
  <2> USE DEF Life!Next, Life!Go, Life!Advance, Life!Approve, Life!Cancel, Life!Confirm,
              Life!HandOver, Life!Disturb
  <2>1. LifeCalm' => LifeCalm
    BY MishapsGrow DEF LifeCalm, Calm
  <2>2. CASE LifeCalm /\ LifeCalm'
    BY <2>2, LifeStep DEF LifeMove, LifeCalm
  <2>3. CASE LifeCalm /\ ~LifeCalm'
    BY <2>3 DEF TypeOK, States, LifeCalm
  <2>4. CASE ~LifeCalm
    BY <2>1, <2>4
  <2> QED
    BY <2>2, <2>3, <2>4
<1>3. TypeOK /\ LifeInv /\ [Next]_vars => LifeInv'
  BY LifeStep
<1>4. Init => Life!Init
  BY <1>1 DEF Life!Init, LifeCalm
<1> QED
  BY <1>2, <1>3, <1>4, LifeInit, TypeCorrect, PTL DEF Spec, ImplementsLife, Life!Spec

-----------------------------------------------------------------------------
(* A run that ended keeps its end.                                         *)

Reach == IF driver.pc = "batch" THEN driver.at + Cardinality(driver.batch) ELSE driver.at

\* The driver is at the first step that has no run yet ...
Ahead == driver.pc # "idle" => \A i \in Steps : i >= Reach => run[i].state = "none"

\* ... and so is a campaign that waits for its approval, which nobody drives.
Parked ==
    campaign.state = "waiting_approval" =>
      /\ driver.pc = "idle"
      /\ \A i \in Steps : i >= campaign.index => run[i].state = "none"

Driven ==
    driver.pc = "batch" => campaign.state \in {"running", "cancelling", "cancelled"}

Begun == \A i \in Executing : run[i].state # "none"

Deserted == daemon # "up" => Executing = {}

\* The steps at work are the ones of the driver's batch, unless a cancellation
\* made the driver leave; their runs are open, or that cancellation ended them.
Minded ==
    Calm({"orphan"}) =>
      /\ driver.pc \in {"loop", "after"} => Executing = {}
      /\ driver.pc = "idle" => Executing = {} \/ Cancelling
      /\ driver.pc = "batch" => Executing \subseteq driver.batch
      /\ \A i \in Executing :
           run[i].state = "running" \/ (run[i].state = "cancelled" /\ Cancelling)

RunsInv == Ahead /\ Parked /\ Driven /\ Begun /\ Deserted /\ Minded

Settled ==
    Calm({"orphan"}) =>
      \A i \in Steps : run[i].state \in {"completed", "failed", "cancelled"}
                          => run'[i].state = run[i].state

LEMMA RunsInit == Init => RunsInv
<1> SUFFICES ASSUME Init PROVE RunsInv
  OBVIOUS
<1>1. Executing = {}
  BY DEF Init, Executing, Idle
<1>2. Ahead
  BY DEF Init, Ahead
<1> QED
  BY <1>1, <1>2 DEF Init, RunsInv, Parked, Driven, Begun, Deserted, Minded, NoDriver

\* Settling the runs of a campaign ends the open ones and no others.
LEMMA SettleRunsMoves ==
    ASSUME TypeOK, NEW state \in {"failed", "cancelled"}, SettleRuns(state)
    PROVE  \A i \in Steps :
             \/ run'[i].state = run[i].state
             \/ run[i].state = "running" /\ run'[i].state = state
<1> SUFFICES ASSUME NEW i \in Steps
             PROVE  \/ run'[i].state = run[i].state
                    \/ run[i].state = "running" /\ run'[i].state = state
  OBVIOUS
<1>1. run[i] \in [state : RunStates, pid : BOOLEAN]
  BY DEF TypeOK
<1> QED
  BY <1>1 DEF SettleRuns

\* What one step execution does: it settles only its own run, as completed or
\* failed only when the campaign is not being cancelled, and then it is over.
LEMMA ExecutionMoves ==
    ASSUME TypeOK, NEW i \in Steps, Execution(i)
    PROVE  /\ UNCHANGED <<program, campaign, driver, daemon, call>>
           /\ i \in Executing
           /\ \A j \in Steps : j # i => run'[j] = run[j] /\ exec'[j] = exec[j]
           /\ \/ run'[i].state = run[i].state
              \/ run'[i].state = "running" /\ ~Cancelling
              \/ /\ exec'[i].pc \in {"finished", "failed"}
                 /\ \/ ~Cancelling /\ run'[i].state \in {"completed", "failed"}
                    \/ run[i].state = "running" /\ run'[i].state = "cancelled"
<1> DEFINE Moves ==
             /\ \A j \in Steps : j # i => run'[j] = run[j] /\ exec'[j] = exec[j]
             /\ \/ run'[i].state = run[i].state
                \/ run'[i].state = "running" /\ ~Cancelling
                \/ /\ exec'[i].pc \in {"finished", "failed"}
                   /\ \/ ~Cancelling /\ run'[i].state \in {"completed", "failed"}
                      \/ run[i].state = "running" /\ run'[i].state = "cancelled"
<1> USE DEF outside, rows, work
<1>1. /\ run[i] \in [state : RunStates, pid : BOOLEAN]
      /\ exec[i] \in [pc : ExecPc, tries : Nat]
      /\ run \in RunType /\ exec \in ExecType
  BY DEF TypeOK
<1>2. UNCHANGED <<program, campaign, driver, daemon, call>>
  BY DEF Execution, Launch, WorkReturns, WriteArtifact, WriteExtra, Removed
<1>3. i \in Executing
  BY DEF Execution, Launch, WorkReturns, WriteArtifact, WriteExtra, Removed, Executing, At
<1>4. ASSUME NEW pc, Goes(i, pc)
      PROVE  exec'[i].pc = pc /\ \A j \in Steps : j # i => exec'[j] = exec[j]
  BY <1>1, <1>4 DEF Goes
<1>5. ASSUME NEW state, SettleRun(i, state)
      PROVE  /\ run'[i].state = IF state = "cancelled" /\ run[i].state # "running"
                                  THEN run[i].state ELSE state
             /\ \A j \in Steps : j # i => run'[j] = run[j]
  BY <1>1, <1>5 DEF SettleRun
<1>6. StepFails(i) => Moves
  BY <1>4, <1>5 DEF StepFails
<1>7. AttemptFails(i) => Moves
  <2> SUFFICES ASSUME AttemptFails(i), ~StepFails(i) PROVE Moves
    BY <1>6
  <2>1. /\ ~Cancelling
        /\ exec' = [exec EXCEPT ![i] =
                         [pc |-> IF Prompted(i) THEN "prompt" ELSE "work",
                          tries |-> @.tries + 1]]
        /\ run' = [run EXCEPT ![i] = [state |-> "running",
                         pid |-> IsCommand(i) /\ ~Prompted(i)]]
    BY DEF AttemptFails
  <2>2. run'[i].state = "running"
    BY <1>1, <2>1
  <2>3. \A j \in Steps : j # i => run'[j] = run[j] /\ exec'[j] = exec[j]
    BY <1>1, <2>1
  <2> QED
    BY <2>1, <2>2, <2>3
<1>8. Finishes(i) /\ ~Cancelling => Moves
  BY <1>4, <1>5 DEF Finishes
<1>9. ASSUME NEW pc, Goes(i, pc), UNCHANGED run PROVE Moves
  BY <1>4, <1>9
<1>10. CASE Launch(i)
  <2>1. CASE run' = [run EXCEPT ![i].pid = IsCommand(i)] /\ Goes(i, "work")
    <3>1. run'[i].state = run[i].state /\ \A j \in Steps : j # i => run'[j] = run[j]
      BY <1>1, <2>1
    <3> QED
      BY <1>2, <1>3, <1>4, <2>1, <3>1
  <2> QED
    BY <1>2, <1>3, <1>7, <1>10, <2>1 DEF Launch
<1>11. CASE WorkReturns(i)
  BY <1>2, <1>3, <1>6, <1>7, <1>9, <1>11 DEF WorkReturns
<1>12. CASE WriteArtifact(i)
  BY <1>2, <1>3, <1>8, <1>9, <1>12 DEF WriteArtifact, Throws
<1>13. CASE WriteExtra(i)
  BY <1>2, <1>3, <1>8, <1>9, <1>13 DEF WriteExtra, Throws
<1>14. CASE Removed(i)
  <2>1. SettleRun(i, "cancelled") /\ Goes(i, "failed") => Moves
    BY <1>4, <1>5
  <2> QED
    BY <1>2, <1>3, <1>9, <1>14, <2>1 DEF Removed
<1> QED
  BY <1>10, <1>11, <1>12, <1>13, <1>14 DEF Execution

\* A step execution leaves everything else where it is.
LEMMA ExecutionRuns ==
    ASSUME TypeOK, RunsInv, [Next]_vars, NEW i \in Steps, Execution(i)
    PROVE  RunsInv' /\ Settled
<1> USE DEF RunsInv
<1>1. /\ UNCHANGED <<program, campaign, driver, daemon, call>>
      /\ i \in Executing
      /\ \A j \in Steps : j # i => run'[j] = run[j] /\ exec'[j] = exec[j]
      /\ \/ run'[i].state = run[i].state
         \/ run'[i].state = "running" /\ ~Cancelling
         \/ /\ exec'[i].pc \in {"finished", "failed"}
            /\ \/ ~Cancelling /\ run'[i].state \in {"completed", "failed"}
               \/ run[i].state = "running" /\ run'[i].state = "cancelled"
  BY ExecutionMoves
<1>2. Steps' = Steps /\ Cancelling' = Cancelling /\ Reach' = Reach
  BY <1>1 DEF Steps, Cancelling, Reach
<1>3. \A j \in Steps : j \in Executing' => j \in Executing
  BY <1>1, <1>2 DEF Executing
<1>4. Executing' \subseteq Executing
  BY <1>2, <1>3 DEF Executing
<1>5. run[i].state # "none" /\ run'[i].state # "none"
  BY <1>1 DEF Begun
<1>6. \A j \in Steps : run[j].state = "none" => run'[j].state = "none"
  BY <1>1, <1>5
<1>7. Ahead' /\ Parked' /\ Driven'
  BY <1>1, <1>2, <1>6 DEF Ahead, Parked, Driven
<1>8. Begun' /\ Deserted'
  BY <1>1, <1>4, <1>5 DEF Begun, Deserted, Executing
<1>9. Calm({"orphan"})' => Calm({"orphan"})
  BY MishapsGrow DEF Calm
<1>10. Settled
  BY <1>1 DEF Settled, Minded
<1>11. Minded'
  <2> SUFFICES ASSUME Calm({"orphan"})' PROVE Minded'
    BY DEF Minded
  <2>1. \A j \in Executing' :
           run'[j].state = "running" \/ (run'[j].state = "cancelled" /\ Cancelling')
    <3> SUFFICES ASSUME NEW j \in Executing'
                 PROVE  run'[j].state = "running" \/ (run'[j].state = "cancelled" /\ Cancelling)
      BY <1>2
    <3>1. j \in Steps /\ j \in Executing
      BY <1>4 DEF Executing
    <3>2. run[j].state = "running" \/ (run[j].state = "cancelled" /\ Cancelling)
      BY <1>9, <3>1 DEF Minded
    <3>3. CASE j # i
      BY <1>1, <3>1, <3>2, <3>3
    <3>4. CASE j = i
      <4>1. exec'[i].pc \notin {"finished", "failed"}
        BY <3>4 DEF Executing
      <4> QED
        BY <1>1, <3>2, <3>4, <4>1
    <3> QED
      BY <3>3, <3>4
  <2> QED
    BY <1>1, <1>2, <1>4, <1>9, <2>1 DEF Minded
<1> QED
  BY <1>7, <1>8, <1>10, <1>11

\* What leaves the runs, the executions and the driver alone, and the campaign
\* too or in a cancellation
LEMMA QuietRuns ==
    ASSUME TypeOK, RunsInv, UNCHANGED <<program, run, exec, driver>>, mishaps \subseteq mishaps',
           \/ UNCHANGED campaign
           \/ campaign'.state = "cancelling",
           daemon' = "up" \/ Executing = {}
    PROVE  RunsInv' /\ Settled
<1> USE DEF RunsInv
<1>1. Steps' = Steps /\ Executing' = Executing /\ Reach' = Reach
  BY DEF Steps, Executing, Reach
<1>2. Cancelling => Cancelling'
  BY DEF Cancelling
<1>3. Calm({"orphan"})' => Calm({"orphan"})
  BY DEF Calm
<1>4. Ahead' /\ Parked' /\ Driven'
  BY <1>1 DEF Ahead, Parked, Driven
<1>5. Begun' /\ Deserted' /\ Minded'
  BY <1>1, <1>2, <1>3 DEF Begun, Deserted, Minded
<1>6. Settled
  BY DEF Settled
<1> QED
  BY <1>4, <1>5, <1>6

\* A cancellation that is over, while the driver and the steps go on
LEMMA CancelledRuns ==
    ASSUME TypeOK, RunsInv, UNCHANGED <<program, exec, driver, daemon>>, mishaps' = mishaps,
           FinalizeCancellation
    PROVE  RunsInv' /\ Settled
<1> USE DEF RunsInv
<1>1. Steps' = Steps /\ Executing' = Executing /\ Reach' = Reach
      /\ (Calm({"orphan"})' <=> Calm({"orphan"}))
  BY DEF Steps, Executing, Reach, Calm
<1>2. CASE UNCHANGED <<campaign, run>>
  <2>1. Cancelling' = Cancelling
    BY <1>2 DEF Cancelling
  <2> QED
    BY <1>1, <1>2, <2>1 DEF Ahead, Parked, Driven, Begun, Deserted, Minded, Settled
<1>3. CASE SettleRuns("cancelled") /\ campaign' = [campaign EXCEPT !.state = "cancelled", !.fence = FALSE]
  <2>1. campaign'.state = "cancelled"
    BY <1>3 DEF TypeOK
  <2>2. \A i \in Steps :
             \/ run'[i].state = run[i].state
             \/ run[i].state = "running" /\ run'[i].state = "cancelled"
    BY <1>3, SettleRunsMoves
  <2>3. Cancelling'
    BY <2>1 DEF Cancelling
  <2>4. Ahead' /\ Parked' /\ Driven'
    BY <1>1, <2>1, <2>2 DEF Ahead, Parked, Driven
  <2>5. Executing \subseteq Steps
    BY DEF Executing
  <2>6. Begun' /\ Deserted'
    BY <1>1, <2>2, <2>5 DEF Begun, Deserted
  <2>7. Minded'
    BY <1>1, <2>2, <2>3, <2>5 DEF Minded
  <2> QED
    BY <2>2, <2>4, <2>6, <2>7 DEF Settled
<1> QED
  BY <1>2, <1>3 DEF FinalizeCancellation

\* Where a daemon dies nothing executes any more.
LEMMA HaltedRuns ==
    ASSUME TypeOK, RunsInv, Halted,
           UNCHANGED <<campaign, run>> \/ campaign'.state = "running"
    PROVE  RunsInv'
<1> USE DEF RunsInv
<1>1. Steps' = Steps /\ Executing' = {} /\ driver'.pc = "idle"
  BY DEF Halted, Steps, Executing, Idle, NoDriver
<1>2. Parked'
  BY <1>1 DEF Parked
<1> QED
  BY <1>1, <1>2 DEF Ahead, Driven, Begun, Deserted, Minded

\* Where a batch begins, its runs are the first ones of their steps.
LEMMA BeginRuns ==
    ASSUME TypeOK, RunsInv, driver.pc = "loop", driver.at <= Last,
           NEW batch \in SUBSET Steps, batch \in SUBSET (driver.at..Last), NEW recorded,
           Begin(batch, recorded)
    PROVE  /\ campaign'.state = "running" /\ Settled
           /\ \A i \in Steps : run'[i].state = IF i \in batch THEN "running" ELSE run[i].state
<1>1. campaign'.state = "running"
  BY DEF Begin, TypeOK
<1>2. \A i \in Steps : run'[i].state = IF i \in batch THEN "running" ELSE run[i].state
  BY DEF Begin, TypeOK
<1>3. ASSUME NEW i \in batch PROVE run[i].state = "none"
  <2>1. i \in Steps /\ i >= Reach
    BY ProgramFacts DEF Reach, TypeOK
  <2> QED
    BY <2>1 DEF RunsInv, Ahead
<1> QED
  BY <1>1, <1>2, <1>3 DEF Settled

LEMMA CaughtRuns ==
    ASSUME TypeOK, RunsInv, UNCHANGED <<program, exec, daemon>>, driver.pc # "idle",
           NEW others, CaughtBy(others)
    PROVE  RunsInv' /\ Settled
<1> USE DEF RunsInv
<1>1. Steps' = Steps /\ Executing' = Executing /\ driver'.pc = "idle"
  BY DEF CaughtBy, Rest, Drive, Steps, Executing, TypeOK
<1>2. Calm({"orphan"})' => Calm({"orphan"}) /\ (Cancelling \/ Executing = {})
  BY DEF CaughtBy, Calm
<1>3. campaign.state # "waiting_approval"
  BY DEF Parked
<1>4. CASE UNCHANGED <<campaign, run>>
  <2>1. Cancelling' = Cancelling
    BY <1>4 DEF Cancelling
  <2> QED
    BY <1>1, <1>2, <1>3, <1>4, <2>1 DEF Ahead, Parked, Driven, Begun, Deserted, Minded, Settled
<1>5. CASE ~Cancelling /\ SettleRuns("failed")
           /\ campaign' = [campaign EXCEPT !.state = "failed", !.fence = FALSE]
  <2>1. campaign'.state = "failed"
    BY <1>5 DEF TypeOK
  <2>2. \A i \in Steps :
             \/ run'[i].state = run[i].state
             \/ run[i].state = "running" /\ run'[i].state = "failed"
    BY <1>5, SettleRunsMoves
  <2>3. Executing \subseteq Steps
    BY DEF Executing
  <2>4. Begun' /\ Deserted'
    BY <1>1, <2>2, <2>3 DEF Begun, Deserted
  <2>5. Minded'
    BY <1>1, <1>2, <1>5 DEF Minded
  <2> QED
    BY <1>1, <2>1, <2>2, <2>4, <2>5 DEF Ahead, Parked, Driven, Settled
<1> QED
  BY <1>4, <1>5 DEF CaughtBy, FinalizeFailure

LEMMA DriverRuns ==
    ASSUME TypeOK, BatchOk, RunsInv, Alone, [Next]_vars, Driver
    PROVE  RunsInv' /\ Settled
<1> USE DEF RunsInv, outside, rows, work
<1>1. daemon = "up"
  BY DEF Alone, Driver, DriverLoop, BatchReturns, BatchThrows, AfterLands, AfterThrows
<1>2. daemon' = "up" /\ program' = program /\ Last' = Last /\ Steps' = Steps
  BY <1>1 DEF Driver, DriverLoop, BatchReturns, BatchThrows, AfterLands, AfterThrows, Last, Steps
<1>3. Last \in Nat /\ Steps = 1..Last
  BY ProgramFacts DEF TypeOK
<1>4. Calm({"orphan"})' => Calm({"orphan"})
  BY MishapsGrow DEF Calm
<1>5. Rest => driver'.pc = "idle"
  BY DEF Rest, Drive, TypeOK
<1>6. ASSUME driver'.pc = "idle", UNCHANGED <<run, exec>>,
             campaign'.state # "waiting_approval",
             Calm({"orphan"}) => Executing = {}
      PROVE  RunsInv' /\ Settled
  <2>1. Executing' = Executing
    BY <1>2, <1>6 DEF Executing
  <2> QED
    BY <1>2, <1>4, <1>6, <2>1 DEF Ahead, Parked, Driven, Begun, Deserted, Minded, Settled
<1>7. ASSUME NEW pc \in {"loop", "after"}, NEW at \in 1..(Last + 1), NEW batch,
             driver.pc # "idle", Drive(pc, at, batch), at >= Reach,
             UNCHANGED <<run, exec>>, campaign'.state # "waiting_approval",
             Calm({"orphan"}) => Executing = {}
      PROVE  RunsInv' /\ Settled
  <2>1. Executing' = Executing /\ driver'.pc = pc /\ driver'.at = at
    BY <1>2, <1>7 DEF Executing, Drive, TypeOK
  <2>2. Reach' = at
    BY <2>1 DEF Reach
  <2>3. Reach \in Nat
    <3>1. driver.pc = "batch" => Cardinality(driver.batch) \in Nat
      BY BatchEnds DEF BatchOk, TypeOK
    <3> QED
      BY <1>3, <3>1 DEF Reach, TypeOK
  <2>4. Ahead'
    BY <1>2, <1>3, <1>7, <2>2, <2>3 DEF Ahead
  <2> QED
    BY <1>2, <1>4, <1>7, <2>1, <2>4 DEF Parked, Driven, Begun, Deserted, Minded, Settled
<1>8. CASE DriverLoop
  <2>1. Calm({"orphan"}) => Executing = {}
    BY <1>8 DEF DriverLoop, Minded
  <2>2. CASE driver.at > Last \/ Cancelling
    BY <1>5, <1>6, <1>8, <2>1, <2>2 DEF DriverLoop, Parked
  <2>3. CASE ~(driver.at > Last \/ Cancelling) /\ Gated(driver.at)
    <3>1. /\ campaign' = [campaign EXCEPT !.state = "waiting_approval", !.index = driver.at]
          /\ driver'.pc = "idle" /\ UNCHANGED <<run, exec>>
      BY <1>5, <1>8, <2>3 DEF DriverLoop
    <3>2. campaign'.index = driver.at /\ ~Cancelling'
      BY <3>1 DEF TypeOK, Cancelling
    <3>3. Parked'
      BY <1>2, <1>8, <3>1, <3>2 DEF DriverLoop, Parked, Ahead, Reach
    <3>4. Executing' = Executing
      BY <1>2, <3>1 DEF Executing
    <3> QED
      BY <1>2, <1>4, <2>1, <3>1, <3>3, <3>4 DEF Ahead, Driven, Begun, Deserted, Minded, Settled
  <2>4. CASE ~(driver.at > Last \/ Cancelling) /\ ~Gated(driver.at)
    <3> DEFINE batch == Batch(program, driver.at)
    <3>1. driver.at \in 1..Last
      BY <1>3, <2>4 DEF TypeOK
    <3>2. /\ batch \in SUBSET Steps /\ batch \in SUBSET (driver.at..Last)
          /\ Cardinality(batch) \in Nat
          /\ \A k \in batch : k < driver.at + Cardinality(batch)
      BY <3>1, BatchEnds DEF TypeOK
    <3>3. /\ Begin(batch, batch)
          /\ exec' = [i \in Steps |-> IF i \in batch
                   THEN [pc |-> IF Prompted(i) THEN "prompt" ELSE "work", tries |-> 1]
                   ELSE exec[i]]
          /\ Drive("batch", driver.at, batch)
          /\ driver.pc = "loop"
      BY <1>8, <2>4 DEF DriverLoop
    <3> HIDE DEF batch
    <3>4. /\ campaign'.state = "running" /\ Settled
          /\ \A i \in Steps : run'[i].state = IF i \in batch THEN "running" ELSE run[i].state
      <4>1. driver.at <= Last
        BY <1>3, <3>1
      <4> QED
        BY <3>2, <3>3, <4>1, BeginRuns
    <3>5. driver'.pc = "batch" /\ driver'.at = driver.at /\ driver'.batch = batch
      BY <3>3 DEF Drive, TypeOK
    <3>6. Executing' \subseteq Executing \cup batch /\ Executing' \subseteq Steps
      BY <1>2, <3>3 DEF Executing
    <3>7. Ahead'
      <4> SUFFICES ASSUME NEW i \in Steps, i >= driver.at + Cardinality(batch)
                   PROVE  run'[i].state = "none"
        BY <1>2, <3>5 DEF Ahead, Reach
      <4>1. i \notin batch /\ i >= driver.at
        BY <1>3, <3>1, <3>2
      <4> QED
        BY <3>3, <3>4, <4>1 DEF Ahead, Reach
    <3>8. Begun'
      BY <3>4, <3>6 DEF Begun
    <3>9. Minded'
      <4> SUFFICES ASSUME Calm({"orphan"})' PROVE Minded'
        BY DEF Minded
      <4>1. Executing' \subseteq batch
        BY <1>4, <2>1, <3>6
      <4>2. \A i \in Executing' : run'[i].state = "running"
        BY <3>4, <3>6, <4>1
      <4> QED
        BY <3>5, <4>1, <4>2 DEF Minded
    <3> QED
      BY <1>2, <3>4, <3>5, <3>7, <3>8, <3>9 DEF Parked, Driven, Deserted
  <2> QED
    BY <2>2, <2>3, <2>4
<1>9. CASE BatchReturns
  <2>1. driver.pc = "batch" /\ campaign.state \in {"running", "cancelling", "cancelled"}
        /\ UNCHANGED <<run, exec>>
    BY <1>9 DEF BatchReturns, Driven
  <2>2. Calm({"orphan"}) => Executing = {}
    BY <1>9 DEF BatchReturns, Minded, Executing
  <2>3. CASE Cancelling
    BY <1>5, <1>6, <1>9, <2>1, <2>2, <2>3 DEF BatchReturns
  <2>4. CASE ~Cancelling /\ BatchFailed
    <3>1. campaign'.state = "failed"
      BY <1>9, <2>1, <2>4 DEF BatchReturns, FailCampaign, Cancelling, TypeOK
    <3> QED
      BY <1>5, <1>6, <1>9, <2>1, <2>2, <2>4, <3>1 DEF BatchReturns
  <2>5. CASE ~Cancelling /\ ~BatchFailed
    <3> DEFINE next == NextIndex(driver.batch)
    <3>1. campaign.state = "running"
      BY <2>1, <2>5 DEF Cancelling
    <3>2. campaign' = [campaign EXCEPT !.index = next,
                        !.state = IF next > Last THEN "completed" ELSE "running"]
      BY <1>9, <2>5, <3>1 DEF BatchReturns, CompleteStep, Ended
    <3>3. next = Reach /\ next \in 1..(Last + 1)
      <4>1. /\ Cardinality(driver.batch) \in Nat /\ 1 <= Cardinality(driver.batch)
            /\ driver.at + Cardinality(driver.batch) - 1 <= Last
        BY <2>1, BatchEnds DEF BatchOk, TypeOK
      <4> QED
        BY <1>3, <2>1, <4>1 DEF NextIndex, Reach, TypeOK
    <3>4. PICK pc \in {"loop", "after"}, batch \in {{}, driver.batch} :
            Drive(pc, campaign'.index, batch)
      BY <1>9, <2>5 DEF BatchReturns
    <3> HIDE DEF next
    <3>5. campaign'.index = next /\ campaign'.state # "waiting_approval"
      BY <3>2 DEF TypeOK
    <3>6. next >= Reach
      BY <1>3, <3>3
    <3> QED
      BY <1>7, <2>1, <2>2, <3>3, <3>4, <3>5, <3>6
  <2> QED
    BY <2>3, <2>4, <2>5
<1>10. CASE BatchThrows \/ AfterThrows
  <2>1. driver.pc # "idle" /\ UNCHANGED <<program, exec, daemon>> /\ \E others : CaughtBy(others)
    BY <1>10 DEF BatchThrows, AfterThrows
  <2> QED
    BY <2>1, CaughtRuns
<1>11. CASE AfterLands
  <2>1. PICK status \in {"succeeded", "conflict"} :
         LET next == IF \E i \in driver.batch : IsGit(i)
                       THEN PastMerge(program, driver.at, status) ELSE driver.at IN
         /\ campaign' = [state |-> IF next > Last THEN "completed" ELSE "running",
                         index |-> next, fence |-> FALSE]
         /\ Drive("loop", next, {})
    BY <1>11 DEF AfterLands, IntegrationReports
  <2> DEFINE next == IF \E i \in driver.batch : IsGit(i)
                       THEN PastMerge(program, driver.at, status) ELSE driver.at
  <2>2. next \in 1..(Last + 1) /\ next >= driver.at
    BY <1>3, PastMergeType DEF TypeOK
  <2>3. /\ campaign'.state # "waiting_approval"
        /\ Drive("loop", next, {})
    BY <2>1
  <2>4. driver.pc = "after" /\ UNCHANGED <<run, exec>>
    BY <1>11 DEF AfterLands
  <2>5. Calm({"orphan"}) => Executing = {}
    BY <2>4 DEF Minded
  <2> HIDE DEF next
  <2>6. next >= Reach
    BY <2>2, <2>4 DEF Reach
  <2> QED
    BY <1>7, <2>2, <2>3, <2>4, <2>5, <2>6
<1> QED
  BY <1>8, <1>9, <1>10, <1>11 DEF Driver

LEMMA RunsStep ==
    ASSUME TypeOK, BatchOk, Alone, RunsInv, [Next]_vars
    PROVE  RunsInv' /\ Settled
<1> USE DEF outside, rows, work
<1>1. mishaps \subseteq mishaps'
  BY MishapsGrow
<1>2. CASE Driver
  BY <1>2, DriverRuns
<1>3. CASE Approve
  <2>1. /\ campaign.state = "waiting_approval" /\ campaign'.state = "running"
        /\ driver'.pc = "loop" /\ driver'.at = campaign.index
        /\ UNCHANGED <<program, run, exec, daemon, mishaps>> /\ daemon = "up"
    BY <1>3 DEF Approve, ResumeApproval, TypeOK
  <2>2. Steps' = Steps /\ Executing' = Executing /\ Reach' = campaign.index
    BY <2>1 DEF Steps, Executing, Reach
  <2>3. Calm({"orphan"})' => Executing = {}
    BY <2>1 DEF Calm, RunsInv, Parked, Minded, Cancelling
  <2>4. Ahead'
    BY <2>1, <2>2 DEF Ahead, RunsInv, Parked
  <2>5. Begun' /\ Minded'
    BY <2>1, <2>2, <2>3 DEF RunsInv, Begun, Minded
  <2> QED
    BY <2>1, <2>4, <2>5 DEF RunsInv, Parked, Driven, Deserted, Settled
<1>4. CASE Prune
  BY <1>1, <1>4, QuietRuns DEF Prune
<1>5. CASE Crash
  BY <1>5, HaltedRuns DEF Crash, Settled
<1>6. CASE CrashLaunching
  <2> DEFINE batch == Batch(program, driver.at)
  <2>1. driver.at \in 1..Last /\ driver.pc = "loop" /\ Halted
    BY <1>6, ProgramFacts DEF CrashLaunching, TypeOK
  <2>2. PICK i \in batch : Begin({j \in batch : j <= i}, batch \ {i})
    BY <1>6 DEF CrashLaunching
  <2> DEFINE begun == {j \in batch : j <= i}
  <2>3. begun \in SUBSET Steps /\ begun \in SUBSET (driver.at..Last)
    <3>1. i \in Batch(program, driver.at) /\ program \in Programs
      BY <2>2 DEF TypeOK
    <3> QED
      BY <2>1, <3>1, BegunEnds
  <2> HIDE DEF batch
  <2>4. Begin(begun, batch \ {i})
    BY <2>2
  <2> HIDE DEF begun
  <2>5. campaign'.state = "running" /\ Settled
    BY <2>1, <2>3, <2>4, BeginRuns DEF TypeOK
  <2> QED
    BY <2>1, <2>5, HaltedRuns
<1>7. CASE Restart
  <2>1. Executing = {}
    BY <1>7 DEF Restart, RunsInv, Deserted
  <2> QED
    BY <1>1, <1>7, <2>1, QuietRuns DEF Restart
<1>8. ASSUME NEW i \in Steps, RecoverRun(i) PROVE RunsInv' /\ Settled
  <2>1. Executing = {}
    BY <1>8 DEF RecoverRun, RunsInv, Deserted
  <2> QED
    BY <1>1, <1>8, <2>1, QuietRuns DEF RecoverRun
<1>9. CASE RecoveryEnds
  <2>1. Executing = {} /\ driver.pc = "idle"
    BY <1>9 DEF RecoveryEnds, RunsInv, Deserted, Alone
  <2>2. UNCHANGED <<program, exec, driver>> /\ daemon' = "up"
    BY <1>9 DEF RecoveryEnds
  <2>3. Executing' = {} /\ Steps' = Steps
    BY <2>1, <2>2 DEF Executing, Steps
  <2>4. \A i \in Steps : run[i].state = "none" => run'[i].state = "none"
    <3>1. \/ UNCHANGED run
          \/ SettleRuns("cancelled") \/ SettleRuns("failed")
      BY <1>9 DEF RecoveryEnds, FinalizeCancellation, FinalizeFailure
    <3> QED
      BY <3>1, SettleRunsMoves
  <2>5. Settled
    <3>1. \/ UNCHANGED run
          \/ SettleRuns("cancelled") \/ SettleRuns("failed")
      BY <1>9 DEF RecoveryEnds, FinalizeCancellation, FinalizeFailure
    <3> QED
      BY <3>1, SettleRunsMoves DEF Settled
  <2>6. campaign' = campaign \/ campaign'.state # "waiting_approval"
    BY ZenonT(60), <1>9, FinalizeMoves DEF RecoveryEnds, TypeOK
  <2> QED
    BY <2>1, <2>2, <2>3, <2>4, <2>5, <2>6 DEF RunsInv, Ahead, Parked, Driven, Begun, Deserted, Minded
<1>10. ASSUME NEW i \in Steps, Execution(i) PROVE RunsInv' /\ Settled
  BY <1>10, ExecutionRuns
<1>11. ASSUME NEW i \in Steps, ProcEnds(i) PROVE RunsInv' /\ Settled
  <2>1. daemon' = "up" \/ Executing = {}
    BY <1>11 DEF ProcEnds, RunsInv, Deserted
  <2> QED
    BY <1>1, <1>11, <2>1, QuietRuns DEF ProcEnds
<1>12. ASSUME NEW c \in Cancels, CancelCall(c) PROVE RunsInv' /\ Settled
  <2>1. UNCHANGED campaign \/ campaign'.state = "cancelling"
    BY <1>12 DEF CancelCall, BeginCancellation, TypeOK
  <2> QED
    BY <1>1, <1>12, <2>1, QuietRuns DEF CancelCall
<1>13. ASSUME NEW c \in Cancels, CancelEnds(c) PROVE RunsInv' /\ Settled
  <2>1. daemon' = "up"
    BY <1>13 DEF CancelEnds, Alone
  <2>2. CASE call[c].pc = "waiting" /\ Tracked = {}
    BY <1>13, <2>2, CancelledRuns DEF CancelEnds
  <2>3. CASE ~(call[c].pc = "waiting" /\ Tracked = {})
    <3>1. campaign'.state = "cancelling"
      BY <1>13, <2>3 DEF CancelEnds, TypeOK
    <3> QED
      BY <1>1, <1>13, <2>1, <2>3, <3>1, QuietRuns DEF CancelEnds
  <2> QED
    BY <2>2, <2>3
<1>14. ASSUME NEW c \in Cancels,
              CancelSeesQuiet(c) \/ CancelGivesUp(c) \/ \E i \in Steps : StopReturns(c, i)
       PROVE  RunsInv' /\ Settled
  <2>1. daemon' = "up"
    BY <1>14 DEF CancelSeesQuiet, CancelGivesUp, StopReturns, Waits, Alone
  <2> QED
    BY <1>1, <1>14, <2>1, QuietRuns DEF CancelSeesQuiet, CancelGivesUp, StopReturns
<1>15. CASE UNCHANGED vars
  <2>1. daemon' = "up" \/ Executing = {}
    BY <1>15 DEF vars, RunsInv, Deserted
  <2> QED
    BY <1>1, <1>15, <2>1, QuietRuns DEF vars
<1>16. ASSUME NEW i \in Steps, CrashSpawning(i) PROVE RunsInv' /\ Settled
  <2>1. campaign' = campaign /\ campaign.state = "running" /\ Halted
    BY <1>16 DEF CrashSpawning, Launchable
  <2>2. i \in Executing
    BY <1>16 DEF CrashSpawning, Executing, At
  <2>3. Calm({"orphan"}) => run[i].state = "running"
    BY <2>1, <2>2 DEF RunsInv, Minded, Cancelling
  <2>4. \A j \in Steps : run'[j].state = run[j].state \/ (j = i /\ run'[j].state = "running")
    <3>1. run' = run \/ run' = [run EXCEPT ![i] = [state |-> "running", pid |-> FALSE]]
      BY <1>16 DEF CrashSpawning
    <3>2. run \in RunType
      BY DEF TypeOK
    <3> QED
      BY <3>1, <3>2
  <2>5. Settled
    BY <1>1, <2>3, <2>4 DEF Settled, Calm
  <2> QED
    BY <2>1, <2>5, HaltedRuns
<1> QED
  BY <1>2, <1>3, <1>4, <1>5, <1>6, <1>7, <1>8, <1>9, <1>10, <1>11, <1>12, <1>13, <1>14, <1>15, <1>16
     DEF Next, Recovery, Cancel

\* A run that ended keeps its end, although its execution, a cancel, the
\* driver's catch and the recovery of a later daemon all settle runs: an
\* execution settles none that it did not open itself, and none is opened for a
\* step that has one.
THEOREM EveryRunSettlesOnce == Spec => RunsSettleOnce
<1>1. Init => BatchOk
  BY DEF Init, BatchOk, NoDriver
<1>2. TypeOK /\ BatchOk /\ LifeInv /\ RunsInv /\ [Next]_vars => RunsInv' /\ Settled /\ LifeInv'
  BY RunsStep, LifeStep DEF LifeInv
<1>3. Settled => [Calm({"orphan"}) =>
         \A i \in Steps : run[i].state \in {"completed", "failed", "cancelled"}
                             => run'[i].state = run[i].state]_vars
  BY DEF Settled
<1> QED
  BY <1>1, <1>2, <1>3, LifeInit, RunsInit, BatchOkStep, TypeCorrect, PTL DEF Spec, RunsSettleOnce
=============================================================================
