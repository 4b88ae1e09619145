------------------------------ MODULE Campaign ------------------------------
(***************************************************************************)
(* One campaign of the orchestrator, from the moment its record is stored: *)
(* the call that drives it step by step, the executions of its steps, the  *)
(* processes and provider turns they start, the calls that approve and     *)
(* cancel it, and the recovery a daemon makes of it after a crash.         *)
(*                                                                         *)
(* The code keeps campaigns and runs in SQLite, in transactions that take  *)
(* no await, and everything else in the memory of one event loop.  Every   *)
(* action ends at an await of the code (one at which only microtasks can   *)
(* run is passed over), so calls interleave there.  As in ComputeJob,      *)
(* mishaps records the disturbances a behaviour has met, and a property    *)
(* names those it does not survive.                                        *)
(***************************************************************************)
EXTENDS CampaignSteps, FiniteSets

CONSTANTS
    Programs,       \* the programs a campaign may have
    Cancels,        \* the calls of cancel made for it
    MaxTroubles     \* bound on daemon crashes, failed writes, failed reads
                    \* and stops that fail, together

ASSUME CampaignAssumption ==
    /\ Programs \subseteq Program
    /\ \A p \in Programs : p.steps # <<>>
    /\ MaxTroubles \in Nat

VARIABLES
    program,    \* what the campaign is to do; never changes
    campaign,   \* its row: state, currentStepIndex, and whether a failed
                \* cancellation fenced it (CANCELLATION_UNCONFIRMED)
    fusion,     \* the record a fusion campaign keeps of itself, in its row
    run,        \* the row of each step's run, and whether it has its pid
    artifacts,  \* the artifacts with a row and a file
    driver,     \* the call of executeCampaign: where it waits, the index it
                \* is at, its batch, and the step it may pass the gate of
    exec,       \* executeTrackedStepRun of each step, and its attempts
    proc,       \* the process or provider turn each step started
    call,       \* each call of cancel: what it still waits for
    daemon,     \* "up", "recovering" or "down"
    recovery,   \* the recovery of a starting daemon: runs left, its verdict
    mishaps,    \* the disturbances met so far
    troubles    \* counted up to MaxTroubles

vars == <<program, campaign, fusion, run, artifacts, driver, exec, proc, call, daemon,
          recovery, mishaps, troubles>>

rows == <<campaign, run, artifacts>>
work == <<driver, exec, proc>>
outside == <<program, fusion, daemon, recovery>>

Steps == DOMAIN program.steps
Last == Len(program.steps)

States == {"running", "waiting_approval", "cancelling", "cancelled",
           "completed", "failed", "recovery_required"}
Ended == {"completed", "failed", "cancelled"}
RunStates == {"none", "running", "completed", "failed", "cancelled"}

Mishaps ==
    { "stale",    \* the completion of a fusion step stored the campaign as it
                  \* was before its awaits, over a cancellation
      "orphan",   \* a step that threw failed the campaign while others of its
                  \* batch were still at work
      "overlap",  \* a cancel fenced what another cancel had finalised
      "crash",    \* the daemon died
      "fault" }   \* a write, a read or a stop failed

ExecPc == {"idle", "prompt", "work", "artifact", "extra", "removing",
           "finished", "failed", "threw"}

Idle == [pc |-> "idle", tries |-> 0]
NoCall == [pc |-> "idle", stops |-> {}, quiet |-> FALSE]
NoDriver == [pc |-> "idle", at |-> 1, batch |-> {}, approved |-> 0]
NoRecovery == [todo |-> {}, ambiguous |-> FALSE]

ArtifactKinds == {"fusion-bundle", "fusion-plan", "fusion-dossier",
                  "fusion-plan-review", "implementation-memo",
                  "fusion-candidate", "candidate-diff", "peer-review",
                  "merge-summary", "integration-report", "report",
                  "research-dossier", "command-output"}

TypeOK ==
    /\ program \in Programs
    /\ campaign \in [state : States, index : 1..(Last + 1), fence : BOOLEAN]
    /\ fusion \in FusionRecord
    /\ run \in [Steps -> [state : RunStates, pid : BOOLEAN]]
    /\ artifacts \subseteq (0..Last) \X ArtifactKinds
    /\ driver \in [pc : {"idle", "loop", "batch", "after"}, at : 1..(Last + 1),
                   batch : SUBSET Steps, approved : 0..Last]
    /\ exec \in [Steps -> [pc : ExecPc, tries : Nat]]
    /\ \A i \in Steps : exec[i].tries <= program.steps[i].retries + 1
    /\ proc \in [Steps -> {"none", "live", "killed", "dead"}]
    /\ call \in [Cancels -> [pc : {"idle", "waiting", "unproved", "done"},
                             stops : SUBSET Steps, quiet : BOOLEAN]]
    /\ daemon \in {"up", "recovering", "down"}
    /\ recovery \in [todo : SUBSET Steps, ambiguous : BOOLEAN]
    /\ mishaps \subseteq Mishaps
    /\ troubles \in 0..MaxTroubles

\* runCampaign has stored the campaign; a fusion campaign has its bundle.
Init ==
    /\ program \in Programs
    /\ campaign = [state |-> "running", index |-> 1, fence |-> FALSE]
    /\ fusion = PreparedFusion
    /\ run = [i \in Steps |-> [state |-> "none", pid |-> FALSE]]
    /\ artifacts = {Bundle}
    /\ driver = [NoDriver EXCEPT !.pc = "loop"]
    /\ exec = [i \in Steps |-> Idle]
    /\ proc = [i \in Steps |-> "none"]
    /\ call = [c \in Cancels |-> NoCall]
    /\ daemon = "up"
    /\ recovery = NoRecovery
    /\ mishaps = {}
    /\ troubles = 0

-----------------------------------------------------------------------------
(* Shared pieces.                                                          *)

Calm(disturbances) == mishaps \cap disturbances = {}

Trouble ==
    /\ troubles < MaxTroubles
    /\ troubles' = troubles + 1

Fault == Trouble /\ mishaps' = mishaps \cup {"fault"}
NoFault == UNCHANGED <<mishaps, troubles>>

\* isCampaignCancelling
Cancelling == campaign.state \in {"cancelling", "cancelled"}

ActiveRuns == {i \in Steps : run[i].state = "running"}

\* The step executions activeStepExecutions counts
Executing == {i \in Steps : exec[i].pc \in
                {"prompt", "work", "artifact", "extra", "removing"}}

IsGit(i) == program.steps[i].role = "integration"
\* A configured research command does the research steps, whatever executor
\* they name.
IsResearch(i) == program.researcher /\ program.steps[i].kind = "research"
IsAcp(i) == program.steps[i].executor = "acp" /\ ~IsResearch(i)
IsCommand(i) == ~IsAcp(i) /\ ~IsGit(i)

\* Work is handed to a process or provider that cancel can reach through
\* activeCommands or activeAcpSessions; the integration's git is in neither.
Tracked == {i \in Executing : exec[i].pc = "work" /\ ~IsGit(i)}

\* These wait for their input before they start anything.
Prompted(i) == IsAcp(i) \/ IsResearch(i) \/ program.steps[i].role = "external_arbiter"

SettleRuns(state) ==
    run' = [i \in Steps |-> IF run[i].state = "running"
                              THEN [run[i] EXCEPT !.state = state] ELSE run[i]]

\* Mutant: a cancellation that is over leaves the runs to their executions.
FinalizeCancellationAlone ==
    IF Cancelling
      THEN /\ campaign' = [campaign EXCEPT !.state = "cancelled", !.fence = FALSE]
           /\ UNCHANGED run
      ELSE UNCHANGED <<campaign, run>>

\* finalizeCampaignCancellation: one transaction
FinalizeCancellation ==
    IF Cancelling
      THEN /\ campaign' = [campaign EXCEPT !.state = "cancelled", !.fence = FALSE]
           /\ SettleRuns("cancelled")
      ELSE UNCHANGED <<campaign, run>>

\* finalizeCampaignFailure: one transaction
FinalizeFailure ==
    IF campaign.state \in Ended \cup {"cancelling", "recovery_required"}
      THEN UNCHANGED <<campaign, run>>
      ELSE /\ campaign' = [campaign EXCEPT !.state = "failed", !.fence = FALSE]
           /\ SettleRuns("failed")

-----------------------------------------------------------------------------
(* The driver.                                                             *)

Drive(pc, at, batch) ==
    driver' = [driver EXCEPT !.pc = pc, !.at = at, !.batch = batch]

Rest == Drive("idle", 1, {})

\* The steps of a batch begin one after the other with no await in between: a
\* run and the campaign marked running, and, where no prompt is awaited, the
\* spawn and the record of its pid.  recorded are the ones that get that far.
Begin(batch, recorded) ==
    /\ campaign' = [campaign EXCEPT !.state = "running",
                      !.index = driver.at + Cardinality(batch) - 1]
    /\ run' = [i \in Steps |-> IF i \in batch
                 THEN [state |-> "running",
                       pid |-> IsCommand(i) /\ ~Prompted(i) /\ i \in recorded]
                 ELSE run[i]]
    /\ proc' = [i \in Steps |->
                  IF i \in batch /\ ~Prompted(i) THEN "live" ELSE proc[i]]

Gated(i) == program.steps[i].gate /\ driver.approved # i

\* The top of the loop of executeCampaign
DriverLoop ==
    /\ driver.pc = "loop"
    /\ IF driver.at > Last \/ Cancelling
         THEN Rest /\ UNCHANGED <<campaign, run, exec, proc>>
         ELSE IF Gated(driver.at)
         THEN /\ Rest
              /\ campaign' = [campaign EXCEPT !.state = "waiting_approval",
                                              !.index = driver.at]
              /\ UNCHANGED <<run, exec, proc>>
         ELSE LET batch == Batch(program, driver.at) IN
              /\ Begin(batch, batch)
              /\ exec' = [i \in Steps |-> IF i \in batch
                   THEN [pc |-> IF Prompted(i) THEN "prompt" ELSE "work", tries |-> 1]
                   ELSE exec[i]]
              /\ Drive("batch", driver.at, batch)
    /\ UNCHANGED <<outside, artifacts, call, mishaps, troubles>>

\* Mutant: a batch counts as the one step it began with.
NextIndexByOne(batch) == driver.at + 1

NextIndex(batch) == driver.at + Cardinality(batch)

\* completeCampaignStep
CompleteStep(next) ==
    campaign' = IF campaign.state \in Ended \cup {"cancelling"} THEN campaign
                ELSE [campaign EXCEPT !.index = next,
                        !.state = IF next > Last THEN "completed" ELSE "running"]

\* Mutant: a failed step of a batch is overlooked beside one that finished.
BatchFailedAll == \A i \in driver.batch : exec[i].pc = "failed"

BatchFailed == \E i \in driver.batch : exec[i].pc = "failed"

\* failCampaign
FailCampaign ==
    campaign' = IF campaign.state \in {"cancelling", "cancelled", "completed"} THEN campaign
                ELSE [campaign EXCEPT !.state = "failed", !.index = driver.at]

\* Promise.all resolved: stop, fail the campaign, or complete the batch.
BatchReturns ==
    /\ driver.pc = "batch"
    /\ \A i \in driver.batch : exec[i].pc \in {"finished", "failed"}
    /\ IF Cancelling
         THEN Rest /\ UNCHANGED <<campaign, fusion>>
         ELSE IF BatchFailed
         THEN /\ Rest
              /\ FailCampaign
              /\ UNCHANGED fusion
         ELSE /\ CompleteStep(NextIndex(driver.batch))
              /\ IF Synthesises(program, driver.at)
                   THEN /\ Drive("after", campaign'.index, driver.batch)
                        /\ UNCHANGED fusion
                   ELSE /\ Drive("loop", campaign'.index, {})
                        /\ fusion' = AfterSteps(program, driver.batch, fusion, "pending")
    /\ UNCHANGED <<program, daemon, recovery, run, artifacts, exec, proc, call, mishaps, troubles>>

\* driveCampaign catches what was thrown.
CaughtBy(others) ==
    /\ IF Cancelling THEN UNCHANGED <<campaign, run>> ELSE FinalizeFailure
    /\ Rest
    /\ mishaps' = mishaps \cup others
         \cup (IF ~Cancelling /\ Executing # {} THEN {"orphan"} ELSE {})

\* Promise.all rejects as soon as one of its steps does.
BatchThrows ==
    /\ driver.pc = "batch"
    /\ \E i \in driver.batch : exec[i].pc = "threw"
    /\ CaughtBy({})
    /\ UNCHANGED <<outside, artifacts, exec, proc, call, troubles>>

\* afterCompletedSteps of a fusion step has read and written its artifacts and
\* stores the campaign it was called with, whatever became of it meanwhile.
\* What it wrote counts from here on, when the campaign refers to it.
AfterLands ==
    /\ driver.pc = "after"
    /\ SynthesisInputs(program, driver.batch) \subseteq artifacts
    /\ artifacts' = artifacts \cup SynthesisOutputs(program, driver.batch)
    /\ \E status \in IntegrationReports :
         LET next == IF \E i \in driver.batch : IsGit(i)
                       THEN PastMerge(program, driver.at, status) ELSE driver.at IN
         /\ campaign' = [state |-> IF next > Last THEN "completed" ELSE "running",
                         index |-> next, fence |-> FALSE]
         /\ fusion' = AfterSteps(program, driver.batch, fusion, status)
         /\ Drive("loop", next, {})
    /\ mishaps' = mishaps \cup (IF campaign.state # "running" THEN {"stale"} ELSE {})
    /\ UNCHANGED <<program, daemon, recovery, run, exec, proc, call, troubles>>

\* An artifact is missing, or reading or writing one fails.
AfterThrows ==
    /\ driver.pc = "after"
    /\ \/ /\ ~(SynthesisInputs(program, driver.batch) \subseteq artifacts)
          /\ CaughtBy({})
          /\ UNCHANGED troubles
       \/ Trouble /\ CaughtBy({"fault"})
    /\ UNCHANGED <<outside, artifacts, exec, proc, call>>

\* resumeCampaignApproval: one transaction
ResumeApproval ==
    /\ campaign.state = "waiting_approval"
    /\ campaign' = [campaign EXCEPT !.state = "running"]

\* approve, and a new driver
Approve ==
    /\ daemon = "up"
    /\ ResumeApproval
    /\ driver' = [pc |-> "loop", at |-> campaign.index, batch |-> {},
                  approved |-> campaign.index]
    /\ UNCHANGED <<outside, run, artifacts, exec, proc, call, mishaps, troubles>>

-----------------------------------------------------------------------------
(* The execution of a step.                                                *)

At(i, pc) == exec[i].pc = pc
Goes(i, pc) == exec' = [exec EXCEPT ![i].pc = pc]

SettleRun(i, state) ==
    run' = [run EXCEPT ![i].state = IF state = "cancelled" /\ @ # "running"
                                      THEN @ ELSE state]

\* The end of executeTrackedStepRun without a result
StepFails(i) ==
    /\ SettleRun(i, IF Cancelling THEN "cancelled" ELSE "failed")
    /\ Goes(i, "failed")
    /\ UNCHANGED proc

\* Mutant: one attempt more than the step allows.
LastAttemptLate(i) == exec[i].tries > program.steps[i].retries + 1

LastAttempt(i) == exec[i].tries > program.steps[i].retries

\* An attempt failed: the next one begins at once, from a run without a pid,
\* unless there is none left or the campaign is being cancelled.  A command
\* cannot be launched in a campaign that is not running.
AttemptFails(i) ==
    IF LastAttempt(i) \/ Cancelling
         \/ (IsCommand(i) /\ ~Prompted(i) /\ campaign.state # "running")
      THEN StepFails(i)
      ELSE /\ exec' = [exec EXCEPT ![i] =
                         [pc |-> IF Prompted(i) THEN "prompt" ELSE "work",
                          tries |-> @.tries + 1]]
           /\ run' = [run EXCEPT ![i] = [state |-> "running",
                         pid |-> IsCommand(i) /\ ~Prompted(i)]]
           /\ proc' = [proc EXCEPT ![i] = IF Prompted(i) THEN @ ELSE "live"]

\* assertCampaignLaunchable
Launchable == campaign.state = "running"

\* The prompt is built, and only now is the campaign looked at again.
Launch(i) ==
    /\ At(i, "prompt")
    /\ \/ /\ Sought(program, i, fusion) \subseteq artifacts /\ Launchable
          /\ run' = [run EXCEPT ![i].pid = IsCommand(i)]
          /\ proc' = [proc EXCEPT ![i] = "live"]
          /\ Goes(i, "work")
          /\ NoFault
       \/ /\ ~(Sought(program, i, fusion) \subseteq artifacts /\ Launchable)
          /\ AttemptFails(i)
          /\ NoFault
       \/ Fault /\ AttemptFails(i)
    /\ UNCHANGED <<outside, campaign, artifacts, driver, call>>

\* The process exits, the provider ends its turn, or git is done.
ProcEnds(i) ==
    /\ proc[i] \in {"live", "killed"}
    /\ proc' = [proc EXCEPT ![i] = "dead"]
    /\ UNCHANGED <<outside, rows, driver, exec, call, mishaps, troubles>>

\* The attempt ended, well or badly.
WorkReturns(i) ==
    /\ At(i, "work") /\ proc[i] = "dead"
    /\ \/ IF Cancelling
            THEN StepFails(i)
            ELSE Goes(i, "artifact") /\ UNCHANGED <<run, proc>>
       \/ AttemptFails(i)
    /\ UNCHANGED <<outside, campaign, artifacts, driver, call, mishaps, troubles>>

\* An artifact that cannot be written is an error nothing handles before the
\* driver's catch: the run stays as it is.
Throws(i) == Fault /\ Goes(i, "threw") /\ UNCHANGED <<run, artifacts>>

Finishes(i) == SettleRun(i, "completed") /\ Goes(i, "finished")

\* Mutant: the artifact stays when the campaign was cancelled meanwhile.
WriteArtifactAnyway(i) ==
    /\ At(i, "artifact")
    /\ \/ /\ artifacts' = artifacts \cup {Output(program, i)}
          /\ IF Cancelling THEN SettleRun(i, "cancelled") /\ Goes(i, "failed")
             ELSE Finishes(i)
          /\ NoFault
       \/ Throws(i)
    /\ UNCHANGED <<outside, campaign, driver, proc, call>>

\* The file and the row of the output; they are removed again when the
\* campaign was cancelled meanwhile.
WriteArtifact(i) ==
    /\ At(i, "artifact")
    /\ \/ /\ NoFault
          /\ IF Cancelling
               THEN Goes(i, "removing") /\ UNCHANGED <<run, artifacts>>
               ELSE /\ artifacts' = artifacts \cup {Output(program, i)}
                    /\ IF Extras(program, i) # {}
                         THEN Goes(i, "extra") /\ UNCHANGED run
                         ELSE Finishes(i)
       \/ Throws(i)
    /\ UNCHANGED <<outside, campaign, driver, proc, call>>

WriteExtra(i) ==
    /\ At(i, "extra")
    /\ \/ /\ NoFault
          /\ IF Cancelling
               THEN /\ artifacts' = artifacts \ {Output(program, i)}
                    /\ Goes(i, "removing")
                    /\ UNCHANGED run
               ELSE /\ artifacts' = artifacts \cup Extras(program, i)
                    /\ Finishes(i)
       \/ Throws(i)
    /\ UNCHANGED <<outside, campaign, driver, proc, call>>

\* removeWrittenArtifacts has removed the files.
Removed(i) ==
    /\ At(i, "removing")
    /\ \/ /\ SettleRun(i, "cancelled")
          /\ Goes(i, "failed")
          /\ NoFault
       \/ Fault /\ Goes(i, "threw") /\ UNCHANGED run
    /\ UNCHANGED <<outside, campaign, artifacts, driver, proc, call>>

-----------------------------------------------------------------------------
(* cancel.                                                                 *)

\* Mutant: what is left to an operator can be cancelled.
RefusedEnded == Ended

Refused == Ended \cup {"recovery_required"}

\* beginCampaignCancellation: one transaction
BeginCancellation ==
    campaign' = IF Cancelling THEN campaign
                ELSE [campaign EXCEPT !.state = "cancelling", !.fence = FALSE]

\* Then every command is sent SIGTERM, with SIGKILL to follow, and every
\* session is asked to stop.
CancelCall(c) ==
    /\ daemon = "up" /\ call[c].pc = "idle"
    /\ IF campaign.state \in Refused
         THEN /\ call' = [call EXCEPT ![c].pc = "done"]
              /\ UNCHANGED <<campaign, proc>>
         ELSE /\ BeginCancellation
              /\ proc' = [i \in Steps |->
                            IF i \in Tracked /\ IsCommand(i) /\ proc[i] = "live"
                              THEN "killed" ELSE proc[i]]
              /\ call' = [call EXCEPT ![c] =
                   [pc |-> "waiting", stops |-> {i \in Tracked : IsAcp(i)}, quiet |-> FALSE]]
    /\ UNCHANGED <<outside, run, artifacts, driver, exec, mishaps, troubles>>

\* Mutant: a cancel that gave up is never heard of again.
WaitsHopefully(c) == call[c].pc = "waiting"

Waits(c) == call[c].pc \in {"waiting", "unproved"}

\* The manager's stop ends the turn, or fails.
StopReturns(c, i) ==
    /\ Waits(c) /\ i \in call[c].stops
    /\ \/ /\ proc' = [proc EXCEPT ![i] = IF @ = "live" THEN "dead" ELSE @]
          /\ call' = [call EXCEPT ![c].stops = @ \ {i}]
          /\ NoFault
       \/ /\ Fault
          /\ call' = [call EXCEPT ![c].stops = @ \ {i}, ![c].pc = "unproved"]
          /\ UNCHANGED proc
    /\ UNCHANGED <<outside, rows, driver, exec>>

\* Mutant: a cancel does not wait for the executions.
QuietAtOnce == TRUE

Quiet == Executing = {}

\* waitForStepExecutions sees the executions end ...
CancelSeesQuiet(c) ==
    /\ call[c].pc = "waiting" /\ ~call[c].quiet
    /\ Quiet
    /\ call' = [call EXCEPT ![c].quiet = TRUE]
    /\ UNCHANGED <<outside, rows, work, mishaps, troubles>>

\* ... or gives up, as the wait for a command that does not die does; or the
\* session that the steps share, idle now, cannot be stopped.
CancelGivesUp(c) ==
    /\ call[c].pc = "waiting"
    /\ \/ Executing # {} /\ NoFault
       \/ (\E i \in Steps : IsAcp(i) /\ run[i].state = "completed") /\ Fault
    /\ call' = [call EXCEPT ![c].pc = "unproved"]
    /\ UNCHANGED <<outside, rows, work>>

\* All checks are in.  The fence is written over whatever the campaign is by now.
CancelEnds(c) ==
    /\ Waits(c) /\ call[c].stops = {}
    /\ call[c].quiet \/ call[c].pc = "unproved"
    /\ call' = [call EXCEPT ![c] = [NoCall EXCEPT !.pc = "done"]]
    /\ IF call[c].pc = "waiting" /\ Tracked = {}
         THEN FinalizeCancellation /\ UNCHANGED mishaps
         ELSE /\ campaign' = [campaign EXCEPT !.state = "cancelling", !.fence = TRUE]
              /\ mishaps' = mishaps \cup
                   (IF campaign.state # "cancelling" THEN {"overlap"} ELSE {})
              /\ UNCHANGED run
    /\ UNCHANGED <<outside, artifacts, work, troubles>>

-----------------------------------------------------------------------------
(* Artifacts expire once their campaign has ended, the older ones first    *)
(* (pruneArtifacts).                                                       *)

\* Mutant: the artifacts of a campaign that waits for its approval expire too.
PrunableWaiting == campaign.state \in Ended \cup {"waiting_approval"}

Prunable == campaign.state \in Ended

Prune ==
    /\ daemon = "up" /\ Prunable
    /\ \E i \in Steps : artifacts' = {a \in artifacts : a[1] > i}
    /\ UNCHANGED <<outside, campaign, run, work, call, mishaps, troubles>>

-----------------------------------------------------------------------------
(* The daemon dies.  Processes are in groups of their own and live on; what *)
(* was signalled may have ignored it.                                      *)

Halted ==
    /\ daemon' = "down"
    /\ driver' = NoDriver
    /\ exec' = [i \in Steps |-> Idle]
    /\ call' = [c \in Cancels |-> IF call[c].pc = "idle" THEN NoCall
                                  ELSE [NoCall EXCEPT !.pc = "done"]]
    /\ recovery' = NoRecovery
    /\ mishaps' = mishaps \cup {"crash"}
    /\ UNCHANGED <<program, fusion, artifacts>>

Crash ==
    /\ daemon # "down" /\ Trouble
    /\ Halted
    /\ proc' = [i \in Steps |-> IF proc[i] = "killed" THEN "live" ELSE proc[i]]
    /\ UNCHANGED <<campaign, run>>

\* It dies while it begins a batch, between a spawn and the record of its pid.
CrashLaunching ==
    /\ driver.pc = "loop" /\ Trouble
    /\ driver.at <= Last /\ ~Cancelling /\ ~Gated(driver.at)
    /\ LET batch == Batch(program, driver.at) IN
         \E i \in batch :
           /\ IsCommand(i) /\ ~Prompted(i)
           /\ Begin({j \in batch : j <= i}, batch \ {i})
    /\ Halted

\* Or an execution does, with its input at hand or for another attempt.
CrashSpawning(i) ==
    /\ IsCommand(i) /\ Launchable /\ Trouble
    /\ \/ /\ At(i, "prompt")
          /\ Sought(program, i, fusion) \subseteq artifacts
          /\ UNCHANGED run
       \/ /\ At(i, "work") /\ proc[i] = "dead"
          /\ ~Prompted(i) /\ ~LastAttempt(i)
          /\ run' = [run EXCEPT ![i] = [state |-> "running", pid |-> FALSE]]
    /\ proc' = [proc EXCEPT ![i] = "live"]
    /\ UNCHANGED campaign
    /\ Halted

-----------------------------------------------------------------------------
(* recoverInterruptedCampaigns: before anything is served, each active run *)
(* is gone, terminated, or ambiguous.                                      *)

\* Mutant: a cancellation that a crash cut off is left as it is.
InterruptedRunning == campaign.state = "running"

Interrupted == campaign.state \in {"running", "cancelling"}

Restart ==
    /\ daemon = "down"
    /\ IF Interrupted
         THEN daemon' = "recovering" /\ recovery' = [todo |-> ActiveRuns, ambiguous |-> FALSE]
         ELSE daemon' = "up" /\ UNCHANGED recovery
    /\ UNCHANGED <<program, fusion, rows, work, call, mishaps, troubles>>

\* recoverPersistedCommand cannot tell what a run without a pid has started.
Unknown(i) == program.steps[i].executor = "command" /\ ~run[i].pid

\* recoverPersistedAcpSession finds no session of that name, and counts the run
\* as gone: its step names the executor acp, but a research command ran.
Unseen(i) == program.steps[i].executor = "acp" /\ IsResearch(i)

RecoverRun(i) ==
    /\ daemon = "recovering" /\ i \in recovery.todo
    /\ \/ /\ Unknown(i)
          /\ recovery' = [todo |-> recovery.todo \ {i}, ambiguous |-> TRUE]
          /\ UNCHANGED proc /\ NoFault
       \/ /\ ~Unknown(i)
          /\ recovery' = [recovery EXCEPT !.todo = @ \ {i}]
          /\ proc' = [proc EXCEPT ![i] =
                        IF @ = "live" /\ ~Unseen(i) THEN "dead" ELSE @]
          /\ NoFault
       \/ /\ ~Unknown(i) /\ ~Unseen(i) /\ proc[i] = "live" /\ Fault
          /\ recovery' = [todo |-> recovery.todo \ {i}, ambiguous |-> TRUE]
          /\ UNCHANGED proc
    /\ UNCHANGED <<program, fusion, rows, driver, exec, call, daemon>>

RecoveryEnds ==
    /\ daemon = "recovering" /\ recovery.todo = {}
    /\ IF recovery.ambiguous
         THEN /\ campaign' = [campaign EXCEPT !.state = "recovery_required", !.fence = FALSE]
              /\ UNCHANGED run
         ELSE IF campaign.state = "cancelling" THEN FinalizeCancellation
         ELSE FinalizeFailure
    /\ daemon' = "up"
    /\ recovery' = NoRecovery
    /\ UNCHANGED <<program, fusion, artifacts, work, call, mishaps, troubles>>

-----------------------------------------------------------------------------

Driver == DriverLoop \/ BatchReturns \/ BatchThrows \/ AfterLands \/ AfterThrows

Execution(i) ==
    \/ Launch(i) \/ WorkReturns(i)
    \/ WriteArtifact(i) \/ WriteExtra(i) \/ Removed(i)

Cancel(c) ==
    \/ CancelSeesQuiet(c) \/ CancelGivesUp(c) \/ CancelEnds(c)
    \/ \E i \in Steps : StopReturns(c, i)

Recovery == Restart \/ RecoveryEnds \/ \E i \in Steps : RecoverRun(i)

Next ==
    \/ Driver \/ Approve \/ Prune \/ Crash \/ CrashLaunching \/ Recovery
    \/ \E i \in Steps : Execution(i) \/ ProcEnds(i) \/ CrashSpawning(i)
    \/ \E c \in Cancels : CancelCall(c) \/ Cancel(c)

Spec == Init /\ [][Next]_vars

-----------------------------------------------------------------------------
(* The program and its timers go on, a daemon that died is started again,  *)
(* and every process and turn ends at some time, as those do that have a   *)
(* timeout or are killed.  Nothing obliges anybody to approve or cancel.   *)

AllSteps == UNION {DOMAIN p.steps : p \in Programs}

Fairness ==
    /\ WF_vars(Driver) /\ WF_vars(Recovery)
    /\ \A i \in AllSteps : WF_vars(i \in Steps /\ (Execution(i) \/ ProcEnds(i)))
    /\ \A c \in Cancels : WF_vars(Cancel(c))

FairSpec == Spec /\ Fairness

-----------------------------------------------------------------------------
(* Properties.                                                             *)

\* A campaign that is shown as ended has nothing running any more, whoever
\* ended it: its driver, a cancel, or the recovery of a later daemon, which
\* knows the processes only by what the runs recorded.
EndedMeansStill ==
    Calm({"stale", "orphan"}) =>
      (campaign.state \in Ended => \A i \in Steps : proc[i] \notin {"live", "killed"})

\* A campaign that has ended, or waits for its approval, has no run that still
\* counts as active and no step at work; and where it waits, nobody drives it
\* any more: what approve starts is the only driver.
ParkedMeansSettled ==
    Calm({"stale", "orphan"}) =>
      /\ campaign.state \in Ended \cup {"waiting_approval"}
           => ActiveRuns = {} /\ Executing = {}
      /\ campaign.state = "waiting_approval" => driver.pc = "idle"

\* A step begins only when every step before it, but for those of its batch and
\* for the merge that a clean integration skips, has completed: no failure, no
\* crash and no cancellation lets one be passed over.
StepsInOrder ==
    \A i \in Steps : run[i].state # "none" =>
      \A j \in 1..(i - 1) :
        \/ run[j].state = "completed"
        \/ program.steps[j].role = "merge"
        \/ program.steps[j].group # "none" /\ program.steps[j].group = program.steps[i].group
        \/ i - j < program.parallelism /\ \A k \in j..i : Joins(program, j, k)

\* Whatever a step or a synthesis reads is there, although artifacts of other
\* steps are removed by cancellations, lost in crashes, and expire.
NothingMissing ==
    Calm({"stale"}) =>
      (campaign.state = "running" =>
         /\ \A i \in Steps : At(i, "prompt") => Inputs(program, i) \subseteq artifacts
         /\ driver.pc = "after" => SynthesisInputs(program, driver.batch) \subseteq artifacts)

\* A fusion campaign completes only when a human approved its plan and its
\* candidates came together, by themselves or by the resolver, whose step has
\* run exactly then; and it waits for nothing but that approval.
FusionConcluded ==
    IsFusion(program) =>
      /\ campaign.state = "completed" =>
           /\ fusion.approval = "approved" /\ fusion.done = LastPhase(program)
           /\ \A i \in Steps : program.steps[i].role = "merge" =>
                \/ fusion.integration = "succeeded" /\ run[i].state = "none"
                \/ fusion.integration = "resolved" /\ run[i].state = "completed"
      /\ campaign.state = "waiting_approval" =>
           fusion.approval = "waiting" /\ Plan \in artifacts

\* A cancelled campaign keeps only what its completed steps wrote: each step
\* removes what it wrote while the cancellation was under way.
CancelledLeavesNothing ==
    Calm({"crash", "fault", "stale"}) =>
      (campaign.state = "cancelled" =>
         \A a \in artifacts : a[1] # 0 => run[a[1]].state = "completed")

\* A run that ended is never reopened or given another end, although the
\* execution, a cancel, the driver's catch and the recovery all settle runs.
RunsSettleOnce ==
    [][Calm({"orphan"}) =>
         \A i \in Steps : run[i].state \in {"completed", "failed", "cancelled"}
                             => run'[i].state = run[i].state]_vars

\* The promise to those who only see the state of the campaign (CampaignLife).
\* A campaign whose row was overwritten counts as disturbed from then on.
Life == INSTANCE CampaignLife WITH
    state <- IF Calm({"stale", "overlap"}) THEN campaign.state ELSE "disturbed"

ImplementsLife == Life!Spec

\* A cancellation comes to an end: it is confirmed, or it is fenced for another
\* try or for an operator, across crashes and processes that ignore signals.
CancelSettles ==
    campaign.state = "cancelling" ~> (campaign.state # "cancelling" \/ campaign.fence)

\* A campaign is never left without anybody who takes it further: it ends, or
\* it waits for an approval, another cancel, or an operator.
CampaignSettles ==
    <>[](\/ campaign.state \in Ended \cup {"waiting_approval", "recovery_required"}
         \/ campaign.fence)
=============================================================================
