----------------------- MODULE CampaignSafety_proofs -----------------------
(***************************************************************************)
(* What else of a campaign holds whatever its steps do: one that has ended *)
(* or waits for its approval has nothing that counts as active; its steps  *)
(* begin in their order; a cancelled one keeps only what completed; what a *)
(* step reads is there; and a fusion campaign ends as it should.           *)
(***************************************************************************)
EXTENDS Campaign_proofs

USE CampaignAssumption
USE DEF CampaignType, RunType, ExecType, ProcType, DriverType, CallType

-----------------------------------------------------------------------------
(* The inductive invariant.                                                *)

ParkedCalm == Calm({"stale", "orphan"})

\* A cancel that was called finds the campaign being cancelled, and what it saw
\* quiet stays quiet.
Attended ==
    \A c \in Cancels : Waits(c) => Cancelling /\ (call[c].quiet => Executing = {})

Engaged ==
    driver.pc # "idle" =>
      \/ campaign.state \in {"running", "cancelling", "cancelled"}
      \/ campaign.state = "completed" /\ driver.pc \in {"loop", "after"} /\ driver.at > Last

\* An active run has an execution at work, or one that threw and of which the
\* driver's batch has yet to hear.
Accounted ==
    /\ driver.pc \in {"loop", "after"} => ActiveRuns = {}
    /\ driver.pc = "batch" =>
         \A i \in ActiveRuns : i \in Executing \/ (i \in driver.batch /\ exec[i].pc = "threw")

Over == Ended \cup {"waiting_approval"}

Still == campaign.state \in Over => ActiveRuns = {} /\ Executing = {}

ParkInv == ParkedCalm => Attended /\ Engaged /\ Accounted /\ Still

LEMMA ParkInit == Init => ParkInv
<1> SUFFICES ASSUME Init PROVE ParkInv
  OBVIOUS
<1>1. ActiveRuns = {} /\ Executing = {}
  BY DEF Init, ActiveRuns, Executing, Idle
<1>2. Attended
  BY DEF Init, Attended, Waits, NoCall
<1> QED
  BY <1>1, <1>2 DEF Init, ParkInv, Engaged, Accounted, Still, NoDriver

\* A disturbance is never forgotten.
LEMMA CalmBefore ==
    ASSUME [Next]_vars
    PROVE  /\ ParkedCalm' => ParkedCalm
           /\ ParkedCalm => Calm({"orphan"})
BY MishapsGrow DEF ParkedCalm, Calm

-----------------------------------------------------------------------------
(* Steps that leave the runs, the executions and the driver alone.         *)

LEMMA QuietParked ==
    ASSUME ParkInv, ParkedCalm, UNCHANGED <<program, run, exec, driver>>,
           campaign'.state \in {campaign.state, "cancelling"}, Attended'
    PROVE  ParkInv'
<1>1. ActiveRuns' = ActiveRuns /\ Executing' = Executing /\ Last' = Last
  BY DEF ActiveRuns, Executing, Steps, Last
<1> QED
  BY <1>1 DEF ParkInv, Engaged, Accounted, Still, Over, Ended

\* What the calls of cancel know, where the campaign and they stay as they are
LEMMA SameAttended ==
    ASSUME ParkInv, ParkedCalm, UNCHANGED <<program, exec, call>>,
           campaign'.state = campaign.state
    PROVE  Attended'
<1>1. Executing' = Executing /\ Cancelling' = Cancelling
  BY DEF Executing, Steps, Cancelling
<1> QED
  BY <1>1 DEF ParkInv, Attended, Waits

LEMMA CancelCallParked ==
    ASSUME TypeOK, ParkInv, ParkedCalm, NEW c \in Cancels, CancelCall(c)
    PROVE  ParkInv'
<1> USE DEF outside, rows, work
<1>1. UNCHANGED <<program, run, exec, driver>>
  BY DEF CancelCall
<1>2. Executing' = Executing
  BY <1>1 DEF Executing, Steps
<1>3. campaign'.state \in {campaign.state, "cancelling"} /\ (Cancelling => Cancelling')
  BY DEF CancelCall, BeginCancellation, TypeOK, Cancelling
<1>4. \A d \in Cancels : d # c => call'[d] = call[d]
  BY DEF CancelCall, TypeOK
<1>5. \/ call'[c].pc = "done"
      \/ call'[c].pc = "waiting" /\ ~call'[c].quiet /\ Cancelling'
  <2>1. call[c] \in [pc : {"idle", "waiting", "unproved", "done"},
                     stops : SUBSET Steps, quiet : BOOLEAN]
    BY DEF TypeOK
  <2>2. CASE campaign.state \in Refused
    BY <2>1, <2>2 DEF CancelCall, TypeOK
  <2>3. CASE campaign.state \notin Refused
    <3>1. Cancelling'
      BY <2>3 DEF CancelCall, BeginCancellation, TypeOK, Cancelling
    <3>2. call' = [call EXCEPT ![c] =
                   [pc |-> "waiting", stops |-> {i \in Tracked : IsAcp(i)}, quiet |-> FALSE]]
      BY <2>3 DEF CancelCall
    <3>3. c \in DOMAIN call
      BY DEF TypeOK
    <3> QED
      BY <3>1, <3>2, <3>3
  <2> QED
    BY <2>2, <2>3
<1>6. Attended'
  BY <1>2, <1>3, <1>4, <1>5 DEF ParkInv, Attended, Waits
<1> QED
  BY <1>1, <1>3, <1>6, QuietParked

LEMMA CancelWaitsParked ==
    ASSUME TypeOK, ParkInv, ParkedCalm, NEW c \in Cancels,
           CancelSeesQuiet(c) \/ CancelGivesUp(c) \/ \E i \in Steps : StopReturns(c, i)
    PROVE  ParkInv'
<1> USE DEF outside, rows, work
<1>1. UNCHANGED <<program, run, exec, driver, campaign>> /\ Waits(c)
  BY DEF CancelSeesQuiet, CancelGivesUp, StopReturns, Waits
<1>2. Executing' = Executing /\ Cancelling' = Cancelling
  BY <1>1 DEF Executing, Steps, Cancelling
<1>3. /\ \A d \in Cancels : d # c => call'[d] = call[d]
      /\ call'[c].quiet => call[c].quiet \/ Executing = {}
  <2>1. call[c] \in [pc : {"idle", "waiting", "unproved", "done"},
                     stops : SUBSET Steps, quiet : BOOLEAN] /\ call \in CallType
    BY DEF TypeOK
  <2>2. CASE CancelSeesQuiet(c)
    BY <2>1, <2>2 DEF CancelSeesQuiet, Quiet
  <2>3. CASE CancelGivesUp(c)
    BY <2>1, <2>3 DEF CancelGivesUp
  <2>4. CASE \E i \in Steps : StopReturns(c, i)
    <3>1. PICK i \in Steps : StopReturns(c, i)
      BY <2>4
    <3>2. \/ call' = [call EXCEPT ![c].stops = @ \ {i}]
          \/ call' = [call EXCEPT ![c].stops = @ \ {i}, ![c].pc = "unproved"]
      BY <3>1 DEF StopReturns
    <3> QED
      BY <2>1, <3>2
  <2> QED
    BY <2>2, <2>3, <2>4
<1>4. Attended'
  BY <1>1, <1>2, <1>3 DEF ParkInv, Attended, Waits
<1> QED
  BY <1>1, <1>4, QuietParked

\* Settling what is open leaves nothing active.
LEMMA SettledNone ==
    ASSUME TypeOK, NEW state \in {"failed", "cancelled"}, SettleRuns(state), program' = program
    PROVE  ActiveRuns' = {}
<1>1. Steps' = Steps
  BY DEF Steps
<1>2. ASSUME NEW i \in Steps PROVE run'[i].state # "running"
  <2>1. run[i] \in [state : RunStates, pid : BOOLEAN]
    BY DEF TypeOK
  <2>2. run'[i] = IF run[i].state = "running" THEN [run[i] EXCEPT !.state = state] ELSE run[i]
    BY DEF SettleRuns
  <2> QED
    BY <2>1, <2>2
<1> QED
  BY <1>1, <1>2 DEF ActiveRuns

\* A driver that rests has nothing to account for.
LEMMA IdleParked ==
    ASSUME driver'.pc = "idle", Attended', Still'
    PROVE  ParkInv'
BY DEF ParkInv, Engaged, Accounted

LEMMA HaltedParked ==
    ASSUME TypeOK, ParkInv, ParkedCalm, Halted,
           campaign'.state = "running" \/ UNCHANGED <<campaign, run>>
    PROVE  ParkInv'
<1>1. driver'.pc = "idle" /\ program' = program /\ Steps' = Steps
  BY DEF Halted, NoDriver, Steps
<1>2. Executing' = {}
  BY <1>1 DEF Halted, Executing, Idle
<1>3. Attended'
  BY DEF Halted, Attended, Waits, NoCall
<1>4. Still'
  <2>1. CASE campaign'.state = "running"
    BY <2>1 DEF Still, Over, Ended
  <2>2. CASE UNCHANGED <<campaign, run>>
    <3>1. ActiveRuns' = ActiveRuns
      BY <1>1, <2>2 DEF ActiveRuns
    <3> QED
      BY <1>2, <2>2, <3>1 DEF ParkInv, Still
  <2> QED
    BY <2>1, <2>2
<1> QED
  BY <1>1, <1>3, <1>4, IdleParked

-----------------------------------------------------------------------------
(* Executions.                                                             *)

\* An execution that is over has settled its run, unless it threw.
LEMMA ExecutionEnds ==
    ASSUME TypeOK, NEW i \in Steps, Execution(i)
    PROVE  \/ exec'[i].pc \in {"prompt", "work", "artifact", "extra", "removing", "threw"}
           \/ run'[i].state # "running"
<1> DEFINE Told ==
             \/ exec'[i].pc \in {"prompt", "work", "artifact", "extra", "removing", "threw"}
             \/ run'[i].state # "running"
<1>1. /\ run[i] \in [state : RunStates, pid : BOOLEAN]
      /\ exec[i] \in [pc : ExecPc, tries : Nat]
      /\ run \in RunType /\ exec \in ExecType
  BY DEF TypeOK
<1>2. ASSUME NEW pc, Goes(i, pc)
      PROVE  exec'[i].pc = pc
  BY <1>1, <1>2 DEF Goes
<1>3. ASSUME NEW state \in {"completed", "failed", "cancelled"}, SettleRun(i, state)
      PROVE  run'[i].state # "running"
  <2>1. run'[i].state = IF state = "cancelled" /\ run[i].state # "running"
                          THEN run[i].state ELSE state
    BY <1>1, <1>3 DEF SettleRun
  <2> QED
    BY <2>1
<1>4. StepFails(i) => Told
  BY <1>3 DEF StepFails
<1>5. AttemptFails(i) => Told
  <2> SUFFICES ASSUME AttemptFails(i), ~StepFails(i) PROVE Told
    BY <1>4
  <2>1. exec' = [exec EXCEPT ![i] =
                         [pc |-> IF Prompted(i) THEN "prompt" ELSE "work",
                          tries |-> @.tries + 1]]
    BY DEF AttemptFails
  <2>2. exec'[i].pc \in {"prompt", "work"}
    BY <1>1, <2>1
  <2> QED
    BY <2>2
<1>6. CASE Launch(i)
  BY <1>2, <1>5, <1>6 DEF Launch
<1>7. CASE WorkReturns(i)
  BY <1>2, <1>4, <1>5, <1>7 DEF WorkReturns
<1>8. CASE WriteArtifact(i)
  BY <1>2, <1>3, <1>8 DEF WriteArtifact, Throws, Finishes
<1>9. CASE WriteExtra(i)
  BY <1>2, <1>3, <1>9 DEF WriteExtra, Throws, Finishes
<1>10. CASE Removed(i)
  BY <1>2, <1>3, <1>10 DEF Removed
<1> QED
  BY <1>6, <1>7, <1>8, <1>9, <1>10 DEF Execution

LEMMA ExecutionParked ==
    ASSUME TypeOK, RunsInv, ParkInv, ParkedCalm, NEW i \in Steps, Execution(i)
    PROVE  ParkInv'
<1>1. /\ UNCHANGED <<program, campaign, driver, call>> /\ i \in Executing
      /\ \A j \in Steps : j # i => run'[j] = run[j] /\ exec'[j] = exec[j]
  BY ExecutionMoves
<1>2. Steps' = Steps /\ Cancelling' = Cancelling /\ Last' = Last
  BY <1>1 DEF Steps, Cancelling, Last
<1>3. Still' /\ Engaged'
  BY <1>1, <1>2 DEF ParkInv, Still, Engaged
<1>4. Attended'
  BY <1>1, <1>2 DEF ParkInv, Attended, Waits
<1>5. Calm({"orphan"})
  BY DEF ParkedCalm, Calm
<1>6. driver.pc \notin {"loop", "after"} /\ (driver.pc = "batch" => i \in driver.batch)
  BY <1>1, <1>5 DEF RunsInv, Minded
<1>7. ASSUME driver.pc = "batch", NEW j \in ActiveRuns'
      PROVE  j \in Executing' \/ (j \in driver.batch /\ exec'[j].pc = "threw")
  <2>1. j \in Steps /\ run'[j].state = "running"
    BY <1>2 DEF ActiveRuns
  <2>2. CASE j = i
    BY <1>2, <1>6, <1>7, <2>1, <2>2, ExecutionEnds DEF Executing
  <2>3. CASE j # i
    <3>1. j \in ActiveRuns /\ exec'[j] = exec[j]
      BY <1>1, <2>1, <2>3 DEF ActiveRuns
    <3>2. j \in Executing \/ (j \in driver.batch /\ exec[j].pc = "threw")
      BY <1>7, <3>1 DEF ParkInv, Accounted
    <3> QED
      BY <1>2, <2>1, <3>1, <3>2 DEF Executing
  <2> QED
    BY <2>2, <2>3
<1>8. Accounted'
  BY <1>1, <1>6, <1>7 DEF Accounted
<1> QED
  BY <1>3, <1>4, <1>8 DEF ParkInv

-----------------------------------------------------------------------------
(* The driver.                                                             *)

\* Nobody waits to cancel a campaign that is not being cancelled.
LEMMA Unattended ==
    ASSUME ParkInv, ParkedCalm, ~Cancelling, call' = call
    PROVE  Attended'
BY DEF ParkInv, Attended, Waits

LEMMA LoopParked ==
    ASSUME TypeOK, RunsInv, ParkInv, ParkedCalm, DriverLoop
    PROVE  ParkInv'
<1> USE DEF outside
<1>1. /\ UNCHANGED <<program, call>> /\ driver.pc = "loop"
      /\ Steps' = Steps /\ Last' = Last
  BY DEF DriverLoop, Steps, Last
<1>2. ActiveRuns = {} /\ Executing = {}
  <2>1. Calm({"orphan"})
    BY DEF ParkedCalm, Calm
  <2> QED
    BY <1>1, <2>1 DEF ParkInv, Accounted, RunsInv, Minded
<1>3. Rest => driver'.pc = "idle"
  BY DEF Rest, Drive, TypeOK
<1>4. CASE driver.at > Last \/ Cancelling
  <2>1. Rest /\ UNCHANGED <<campaign, run, exec>>
    BY <1>4 DEF DriverLoop
  <2>2. ActiveRuns' = {} /\ Executing' = {}
    BY <1>1, <1>2, <2>1 DEF ActiveRuns, Executing
  <2> QED
    BY <1>1, <1>3, <2>1, <2>2, SameAttended, IdleParked DEF Still
<1>5. CASE ~(driver.at > Last \/ Cancelling) /\ Gated(driver.at)
  <2>1. Rest /\ UNCHANGED <<run, exec>>
    BY <1>5 DEF DriverLoop
  <2>2. ActiveRuns' = {} /\ Executing' = {}
    BY <1>1, <1>2, <2>1 DEF ActiveRuns, Executing
  <2> QED
    BY <1>1, <1>3, <1>5, <2>1, <2>2, Unattended, IdleParked DEF Still
<1>6. CASE ~(driver.at > Last \/ Cancelling) /\ ~Gated(driver.at)
  <2> DEFINE batch == Batch(program, driver.at)
  <2>1. /\ Begin(batch, batch)
        /\ exec' = [i \in Steps |-> IF i \in batch
                 THEN [pc |-> IF Prompted(i) THEN "prompt" ELSE "work", tries |-> 1]
                 ELSE exec[i]]
        /\ Drive("batch", driver.at, batch)
    BY <1>6 DEF DriverLoop
  <2> HIDE DEF batch
  <2>2. campaign'.state = "running"
    BY <2>1 DEF Begin, TypeOK
  <2>3. driver'.pc = "batch" /\ driver'.batch = batch
    BY <2>1 DEF Drive, TypeOK
  <2>4. ASSUME NEW i \in ActiveRuns' PROVE i \in Executing'
    <3>1. i \in Steps /\ run'[i].state = "running"
      BY <1>1 DEF ActiveRuns
    <3>2. i \in batch
      BY <1>2, <2>1, <3>1 DEF Begin, ActiveRuns
    <3> QED
      BY <1>1, <2>1, <3>1, <3>2 DEF Executing
  <2>5. Engaged' /\ Accounted' /\ Still'
    BY <2>2, <2>3, <2>4 DEF Engaged, Accounted, Still, Over, Ended
  <2> QED
    BY <1>1, <1>6, <2>5, Unattended DEF ParkInv
<1> QED
  BY <1>4, <1>5, <1>6

\* When all steps of the batch are over, no run of the campaign is open.
LEMMA ReturnsParked ==
    ASSUME TypeOK, BatchOk, RunsInv, ParkInv, ParkedCalm, BatchReturns
    PROVE  ParkInv'
<1> USE DEF outside
<1>1. /\ UNCHANGED <<program, call, run, exec>> /\ driver.pc = "batch"
      /\ \A i \in driver.batch : exec[i].pc \in {"finished", "failed"}
      /\ Steps' = Steps /\ Last' = Last
  BY DEF BatchReturns, Steps, Last
<1>2. Executing = {}
  <2>1. Calm({"orphan"})
    BY DEF ParkedCalm, Calm
  <2> QED
    BY <1>1, <2>1 DEF RunsInv, Minded, Executing
<1>3. ActiveRuns = {}
  BY <1>1, <1>2 DEF ParkInv, Accounted
<1>4. ActiveRuns' = {} /\ Executing' = {}
  BY <1>1, <1>2, <1>3 DEF ActiveRuns, Executing
<1>5. Rest => driver'.pc = "idle"
  BY DEF Rest, Drive, TypeOK
<1>6. campaign.state \in {"running", "cancelling", "cancelled"}
  BY <1>1 DEF RunsInv, Driven
<1>7. Still'
  BY <1>4 DEF Still
<1>8. CASE Cancelling
  BY <1>1, <1>5, <1>7, <1>8, SameAttended, IdleParked DEF BatchReturns
<1>9. CASE ~Cancelling /\ BatchFailed
  BY <1>1, <1>5, <1>7, <1>9, Unattended, IdleParked DEF BatchReturns
<1>10. CASE ~Cancelling /\ ~BatchFailed
  <2> DEFINE next == NextIndex(driver.batch)
  <2>1. campaign.state = "running"
    BY <1>6, <1>10 DEF Cancelling
  <2>2. campaign' = [campaign EXCEPT !.index = next,
                      !.state = IF next > Last THEN "completed" ELSE "running"]
    BY <1>10, <2>1 DEF BatchReturns, CompleteStep, Ended
  <2>3. PICK pc \in {"loop", "after"}, batch \in {{}, driver.batch} :
          Drive(pc, campaign'.index, batch)
    BY <1>10 DEF BatchReturns
  <2> HIDE DEF next
  <2>4. /\ campaign'.state = IF next > Last THEN "completed" ELSE "running"
        /\ driver'.pc \in {"loop", "after"} /\ driver'.at = next
    BY <2>2, <2>3 DEF Drive, TypeOK
  <2>5. Engaged' /\ Accounted'
    BY <1>1, <1>4, <2>4 DEF Engaged, Accounted
  <2> QED
    BY <1>1, <1>7, <1>10, <2>5, Unattended DEF ParkInv
<1> QED
  BY <1>8, <1>9, <1>10

\* What is thrown settles everything that is open.
LEMMA CaughtParked ==
    ASSUME TypeOK, ParkInv, ParkedCalm, ParkedCalm', NEW others, CaughtBy(others),
           UNCHANGED <<program, exec, call>>
    PROVE  ParkInv'
<1>1. driver'.pc = "idle"
  BY DEF CaughtBy, Rest, Drive, TypeOK
<1>2. Steps' = Steps /\ Executing' = Executing
  BY DEF Steps, Executing
<1>3. CASE UNCHANGED <<campaign, run>>
  <2>1. ActiveRuns' = ActiveRuns
    BY <1>2, <1>3 DEF ActiveRuns
  <2>2. Still'
    BY <1>2, <1>3, <2>1 DEF ParkInv, Still
  <2> QED
    BY <1>1, <1>3, <2>2, SameAttended, IdleParked
<1>4. CASE ~UNCHANGED <<campaign, run>>
  <2>1. ~Cancelling /\ SettleRuns("failed")
    BY <1>4 DEF CaughtBy, FinalizeFailure
  <2>2. Executing = {}
    BY <2>1 DEF CaughtBy, ParkedCalm, Calm
  <2>3. ActiveRuns' = {}
    BY <2>1, SettledNone
  <2> QED
    BY <1>1, <1>2, <2>1, <2>2, <2>3, Unattended, IdleParked DEF Still
<1> QED
  BY <1>3, <1>4

LEMMA LandsParked ==
    ASSUME TypeOK, RunsInv, ParkInv, ParkedCalm, ParkedCalm', AfterLands
    PROVE  ParkInv'
<1>1. /\ UNCHANGED <<program, run, exec, call>> /\ driver.pc = "after"
      /\ campaign.state = "running" /\ Steps' = Steps /\ Last' = Last
  BY DEF AfterLands, ParkedCalm, Calm, Steps, Last
<1>2. ActiveRuns = {} /\ Executing = {}
  <2>1. Calm({"orphan"})
    BY DEF ParkedCalm, Calm
  <2> QED
    BY <1>1, <2>1 DEF ParkInv, Accounted, RunsInv, Minded
<1>3. ActiveRuns' = {} /\ Executing' = {}
  BY <1>1, <1>2 DEF ActiveRuns, Executing
<1>4. PICK next :
        /\ campaign' = [state |-> IF next > Last THEN "completed" ELSE "running",
                        index |-> next, fence |-> FALSE]
        /\ Drive("loop", next, {})
  BY DEF AfterLands
<1>5. driver'.pc = "loop" /\ driver'.at = next
  BY <1>4 DEF Drive, TypeOK
<1>6. Engaged' /\ Accounted' /\ Still'
  BY <1>1, <1>3, <1>4, <1>5 DEF Engaged, Accounted, Still
<1>7. ~Cancelling
  BY <1>1 DEF Cancelling
<1> QED
  BY <1>1, <1>6, <1>7, Unattended DEF ParkInv

LEMMA ApproveParked ==
    ASSUME TypeOK, ParkInv, ParkedCalm, Approve
    PROVE  ParkInv'
<1>1. /\ campaign.state = "waiting_approval" /\ campaign'.state = "running"
      /\ UNCHANGED <<program, run, exec, call>> /\ driver'.pc = "loop"
  BY DEF Approve, ResumeApproval, TypeOK, outside
<1>2. ActiveRuns' = {} /\ Steps' = Steps
  BY <1>1 DEF ParkInv, Still, Over, ActiveRuns, Steps
<1>3. Engaged' /\ Accounted' /\ Still'
  BY <1>1, <1>2 DEF Engaged, Accounted, Still, Over, Ended
<1>4. ~Cancelling
  BY <1>1 DEF Cancelling
<1> QED
  BY <1>1, <1>3, <1>4, Unattended DEF ParkInv

-----------------------------------------------------------------------------
(* The end of a cancel, and of a recovery.                                 *)

\* A cancel that confirms has seen the executions end.
LEMMA CancelEndsParked ==
    ASSUME TypeOK, ParkInv, ParkedCalm, NEW c \in Cancels, CancelEnds(c)
    PROVE  ParkInv'
<1> USE DEF outside, work
<1>1. /\ UNCHANGED <<program, driver, exec>> /\ Waits(c)
      /\ call' = [call EXCEPT ![c] = [NoCall EXCEPT !.pc = "done"]]
  BY DEF CancelEnds
<1>2. Steps' = Steps /\ Last' = Last /\ Executing' = Executing
  BY <1>1 DEF Steps, Last, Executing
<1>3. Cancelling /\ (call[c].quiet => Executing = {})
  BY <1>1 DEF ParkInv, Attended
<1>4. ~Waits(c)' /\ \A d \in Cancels : d # c => call'[d] = call[d]
  BY <1>1 DEF Waits, NoCall, TypeOK
<1>5. Cancelling' => Attended'
  BY <1>2, <1>4 DEF ParkInv, Attended, Waits
<1>6. CASE call[c].pc = "waiting" /\ Tracked = {}
  <2>1. campaign'.state = "cancelled" /\ SettleRuns("cancelled")
    BY <1>3, <1>6 DEF CancelEnds, FinalizeCancellation, TypeOK
  <2>2. Executing' = {}
    BY <1>2, <1>3, <1>6 DEF CancelEnds
  <2>3. ActiveRuns' = {}
    BY <1>1, <2>1, SettledNone
  <2> QED
    BY <1>5, <2>1, <2>2, <2>3 DEF ParkInv, Engaged, Accounted, Still, Cancelling
<1>7. CASE ~(call[c].pc = "waiting" /\ Tracked = {})
  <2>1. campaign'.state = "cancelling" /\ run' = run
    BY <1>7 DEF CancelEnds, TypeOK
  <2> QED
    BY <1>1, <1>5, <2>1, QuietParked DEF Cancelling
<1> QED
  BY <1>6, <1>7

LEMMA RecoveryEndsParked ==
    ASSUME TypeOK, Alone, RunsInv, ParkInv, ParkedCalm, RecoveryEnds
    PROVE  ParkInv'
<1> USE DEF work
<1>1. /\ UNCHANGED <<program, driver, exec, call>> /\ driver'.pc = "idle"
      /\ \A c \in Cancels : ~Waits(c)
      /\ Executing = {}
  BY DEF RecoveryEnds, Alone, RunsInv, Deserted
<1>2. Steps' = Steps /\ Executing' = {} /\ Attended'
  BY <1>1 DEF Steps, Executing, Attended, Waits
<1>3. \/ UNCHANGED <<campaign, run>>
      \/ SettleRuns("failed") \/ SettleRuns("cancelled")
      \/ campaign'.state = "recovery_required"
  BY DEF RecoveryEnds, FinalizeCancellation, FinalizeFailure, TypeOK
<1>4. UNCHANGED <<campaign, run>> => Still'
  <2>1. UNCHANGED run => ActiveRuns' = ActiveRuns
    BY <1>2 DEF ActiveRuns
  <2> QED
    BY <1>2, <2>1 DEF ParkInv, Still
<1>5. Still'
  BY <1>1, <1>2, <1>3, <1>4, SettledNone DEF Still, Over, Ended
<1> QED
  BY <1>1, <1>2, <1>5, IdleParked

-----------------------------------------------------------------------------

LEMMA ParkStep ==
    ASSUME TypeOK, BatchOk, Alone, RunsInv, ParkInv, [Next]_vars
    PROVE  ParkInv'
<1> USE DEF outside, rows, work
<1> SUFFICES ASSUME ParkedCalm' PROVE ParkInv'
  BY DEF ParkInv
<1>1. ParkedCalm
  BY CalmBefore
<1>2. ASSUME UNCHANGED <<program, campaign, run, exec, driver, call>> PROVE ParkInv'
  BY <1>1, <1>2, SameAttended, QuietParked
<1>3. CASE Driver
  BY <1>1, <1>3, LoopParked, ReturnsParked, LandsParked, CaughtParked
     DEF Driver, BatchThrows, AfterThrows
<1>4. CASE Approve
  BY <1>1, <1>4, ApproveParked
<1>5. CASE Prune
  BY <1>2, <1>5 DEF Prune
<1>6. CASE Crash
  BY <1>1, <1>6, HaltedParked DEF Crash
<1>7. CASE CrashLaunching
  <2>1. Halted /\ campaign'.state = "running"
    BY <1>7 DEF CrashLaunching, Begin, TypeOK
  <2> QED
    BY <1>1, <2>1, HaltedParked
<1>8. ASSUME NEW i \in Steps, CrashSpawning(i) PROVE ParkInv'
  <2>1. Halted /\ campaign'.state = "running"
    BY <1>8 DEF CrashSpawning, Launchable
  <2> QED
    BY <1>1, <2>1, HaltedParked
<1>9. CASE Restart \/ \E i \in Steps : RecoverRun(i)
  BY <1>2, <1>9 DEF Restart, RecoverRun
<1>10. CASE RecoveryEnds
  BY <1>1, <1>10, RecoveryEndsParked
<1>11. ASSUME NEW i \in Steps, Execution(i) PROVE ParkInv'
  BY <1>1, <1>11, ExecutionParked
<1>12. ASSUME NEW i \in Steps, ProcEnds(i) PROVE ParkInv'
  BY <1>2, <1>12 DEF ProcEnds
<1>13. ASSUME NEW c \in Cancels, CancelCall(c) PROVE ParkInv'
  BY <1>1, <1>13, CancelCallParked
<1>14. ASSUME NEW c \in Cancels, CancelEnds(c) PROVE ParkInv'
  BY <1>1, <1>14, CancelEndsParked
<1>15. ASSUME NEW c \in Cancels,
              CancelSeesQuiet(c) \/ CancelGivesUp(c) \/ \E i \in Steps : StopReturns(c, i)
       PROVE  ParkInv'
  BY <1>1, <1>15, CancelWaitsParked
<1>16. CASE UNCHANGED vars
  BY <1>2, <1>16 DEF vars
<1> QED
  BY <1>3, <1>4, <1>5, <1>6, <1>7, <1>8, <1>9, <1>10, <1>11, <1>12, <1>13, <1>14, <1>15, <1>16
     DEF Next, Recovery, Cancel

\* A campaign that is shown as ended, or waits for its approval, has no run
\* that counts as active, no step at work, and, at a gate, no driver beside the
\* one that approve will start; whatever steps failed or threw, and whoever
\* cancelled, crashed or recovered it.
THEOREM ParkedSettled == Spec => []ParkedMeansSettled
<1>1. Init => BatchOk
  BY DEF Init, BatchOk, NoDriver
<1>2. TypeOK /\ BatchOk /\ LifeInv /\ RunsInv /\ ParkInv /\ [Next]_vars =>
        RunsInv' /\ LifeInv' /\ ParkInv'
  BY RunsStep, LifeStep, ParkStep DEF LifeInv
<1>3. RunsInv /\ ParkInv => ParkedMeansSettled
  BY DEF RunsInv, Parked, ParkInv, ParkedCalm, Still, Over, ParkedMeansSettled
<1> QED
  BY <1>1, <1>2, <1>3, LifeInit, RunsInit, ParkInit, BatchOkStep, TypeCorrect, PTL DEF Spec

-----------------------------------------------------------------------------
(* What a campaign started.                                                *)

Alive(i) == proc[i] \in {"live", "killed"}

AllTraceable == \A p \in Programs : Traceable(p)

\* The step that started it waits for a process that is alive, or a later
\* daemon is to find it by its run, which is open as long as the step is at
\* work; and only a cancellation kills, and kills nothing across a crash.
Kept(i) ==
    Alive(i) =>
      IF daemon = "up" THEN exec[i].pc = "work"
      ELSE /\ run[i].state = "running" /\ campaign.state \in {"running", "cancelling"}
           /\ daemon = "recovering" => i \in recovery.todo \/ recovery.ambiguous

KeptAll ==
    \A i \in Steps :
      /\ Kept(i)
      /\ i \in Executing => run[i].state = "running"
      /\ proc[i] = "killed" => daemon = "up" /\ Cancelling

KeptInv == ParkedCalm /\ campaign.state # "recovery_required" => KeptAll

\* What the daemon recovers stays as it was found until the end.
RecoveryOk == daemon = "recovering" => campaign.state \in {"running", "cancelling"}

LEMMA KeptInit == Init => KeptInv /\ RecoveryOk
<1> SUFFICES ASSUME Init PROVE KeptInv /\ RecoveryOk
  OBVIOUS
<1>1. \A i \in Steps : proc[i] = "none" /\ i \notin Executing
  BY DEF Init, Executing, Idle
<1> QED
  BY <1>1 DEF Init, KeptInv, KeptAll, Kept, Alive, RecoveryOk

LEMMA RecoveryOkStep ==
    ASSUME TypeOK, Alone, RecoveryOk, [Next]_vars
    PROVE  RecoveryOk'
<1> USE DEF outside, rows, work
<1> SUFFICES ASSUME daemon' = "recovering" PROVE campaign'.state \in {"running", "cancelling"}
  BY DEF RecoveryOk
<1>1. CASE Driver
  BY <1>1 DEF Driver, DriverLoop, BatchReturns, BatchThrows, AfterLands, AfterThrows, Alone
<1>2. CASE Approve \/ Crash \/ CrashLaunching \/ \E i \in Steps : CrashSpawning(i)
  BY <1>2 DEF Approve, Crash, CrashLaunching, CrashSpawning, Halted
<1>3. CASE Prune
  BY <1>3 DEF Prune, RecoveryOk
<1>4. CASE Recovery
  BY <1>4 DEF Recovery, Restart, Interrupted, RecoverRun, RecoveryEnds, RecoveryOk
<1>5. CASE \E i \in Steps : Execution(i) \/ ProcEnds(i)
  BY <1>5 DEF Execution, Launch, WorkReturns, WriteArtifact, WriteExtra, Removed, ProcEnds,
              RecoveryOk
<1>6. CASE \E c \in Cancels : CancelCall(c)
  BY <1>6 DEF CancelCall
<1>7. CASE \E c \in Cancels : Cancel(c)
  BY <1>7 DEF Cancel, CancelSeesQuiet, CancelGivesUp, CancelEnds, StopReturns, Waits, Alone
<1>8. CASE UNCHANGED vars
  BY <1>8 DEF vars, RecoveryOk
<1> QED
  BY <1>1, <1>2, <1>3, <1>4, <1>5, <1>6, <1>7, <1>8 DEF Next

\* What is left to an operator stays with the operator.
LEMMA RequiredStays ==
    ASSUME TypeOK, RecoveryOk, ParkInv, ParkedCalm, [Next]_vars,
           campaign.state = "recovery_required"
    PROVE  campaign'.state = "recovery_required"
<1> USE DEF outside, rows, work
<1>1. ~Cancelling /\ driver.pc = "idle" /\ \A c \in Cancels : ~Waits(c)
  BY DEF Cancelling, ParkInv, Engaged, Attended
<1>2. ~Driver /\ ~Approve /\ ~CrashLaunching /\ ~RecoveryEnds
  BY <1>1 DEF Driver, DriverLoop, BatchReturns, BatchThrows, AfterLands, AfterThrows,
              Approve, ResumeApproval, CrashLaunching, RecoveryEnds, RecoveryOk
<1>3. CASE Prune \/ Crash \/ \E i \in Steps : CrashSpawning(i)
  BY <1>3 DEF Prune, Crash, CrashSpawning
<1>4. CASE Restart \/ \E i \in Steps : RecoverRun(i)
  BY <1>4 DEF Restart, RecoverRun
<1>5. CASE \E i \in Steps : Execution(i) \/ ProcEnds(i)
  BY <1>5 DEF Execution, Launch, WorkReturns, WriteArtifact, WriteExtra, Removed, ProcEnds
<1>6. ASSUME NEW c \in Cancels, CancelCall(c)
      PROVE  campaign'.state = "recovery_required"
  BY <1>6 DEF CancelCall, Refused
<1>7. ASSUME NEW c \in Cancels, Cancel(c) PROVE FALSE
  BY <1>1, <1>7 DEF Cancel, CancelSeesQuiet, CancelGivesUp, CancelEnds, StopReturns, Waits
<1>8. CASE UNCHANGED vars
  BY <1>8 DEF vars
<1> QED
  BY <1>2, <1>3, <1>4, <1>5, <1>6, <1>7, <1>8 DEF Next, Recovery

-----------------------------------------------------------------------------
(* Steps that start nothing.                                               *)

\* What is alive may only have ended.
LEMMA DyingKept ==
    ASSUME KeptAll, UNCHANGED <<program, campaign, run, exec, daemon, recovery>>,
           \A i \in Steps : proc'[i] = proc[i] \/ proc'[i] = "dead"
    PROVE  KeptAll'
<1>1. Steps' = Steps /\ Executing' = Executing /\ Cancelling' = Cancelling
  BY DEF Steps, Executing, Cancelling
<1> QED
  BY <1>1 DEF KeptAll, Kept, Alive

\* In a daemon that is up, an execution that is not at work has nothing alive.
LEMMA QuietKept ==
    ASSUME KeptAll, daemon = "up", Executing = {}
    PROVE  \A i \in Steps : ~Alive(i)
BY DEF KeptAll, Kept, Executing

LEMMA StillKept ==
    ASSUME UNCHANGED <<program, exec, proc>>, Executing = {}, \A i \in Steps : ~Alive(i)
    PROVE  KeptAll'
<1>1. Steps' = Steps /\ Executing' = {} /\ \A i \in Steps : Alive(i)' = Alive(i)
  BY DEF Steps, Executing, Alive
<1> QED
  BY <1>1 DEF KeptAll, Kept, Alive

LEMMA CancelKept ==
    ASSUME TypeOK, ParkInv, ParkedCalm, Alone, KeptAll, NEW c \in Cancels,
           CancelCall(c) \/ CancelEnds(c)
    PROVE  KeptAll'
<1> USE DEF outside, work
<1>1. daemon = "up" /\ daemon' = "up" /\ UNCHANGED <<program, exec>> /\ Steps' = Steps
  BY DEF CancelCall, CancelEnds, Alone, Steps
<1>2. Executing' = Executing
  BY <1>1 DEF Executing
<1>3. CASE CancelCall(c) /\ campaign.state \in Refused
  <2>1. UNCHANGED <<campaign, proc, run, recovery>>
    BY <1>3 DEF CancelCall
  <2> QED
    BY <1>1, <2>1, DyingKept
<1>4. CASE CancelCall(c) /\ campaign.state \notin Refused
  <2>1. run' = run /\ Cancelling'
    BY <1>4 DEF CancelCall, BeginCancellation, Cancelling, TypeOK
  <2>2. \A i \in Steps : Alive(i)' => Alive(i)
    BY <1>4 DEF CancelCall, Alive
  <2> QED
    BY <1>1, <1>2, <2>1, <2>2 DEF KeptAll, Kept
<1>5. CASE CancelEnds(c) /\ call[c].pc = "waiting" /\ Tracked = {}
  <2>1. Executing = {} /\ proc' = proc
    BY <1>5 DEF CancelEnds, ParkInv, Attended, Waits
  <2> QED
    BY <1>1, <2>1, QuietKept, StillKept
<1>6. CASE CancelEnds(c) /\ ~(call[c].pc = "waiting" /\ Tracked = {})
  <2>1. UNCHANGED <<run, proc>> /\ Cancelling'
    BY <1>6 DEF CancelEnds, Cancelling, TypeOK
  <2> QED
    BY <1>1, <1>2, <2>1 DEF KeptAll, Kept, Alive
<1> QED
  BY <1>3, <1>4, <1>5, <1>6

-----------------------------------------------------------------------------
(* Steps that start something.                                             *)

LEMMA DriverKept ==
    ASSUME TypeOK, RunsInv, Alone, ParkInv, ParkedCalm, ParkedCalm', KeptAll, Driver
    PROVE  KeptAll'
<1> USE DEF outside
<1>1. daemon = "up" /\ daemon' = "up" /\ program' = program /\ Steps' = Steps
  BY DEF Driver, DriverLoop, BatchReturns, BatchThrows, AfterLands, AfterThrows, Alone, Steps
<1>2. Calm({"orphan"})
  BY DEF ParkedCalm, Calm
<1>3. Executing = {} => \A i \in Steps : ~Alive(i)
  BY <1>1, QuietKept
<1>4. CASE DriverLoop
  <2>1. Executing = {}
    BY <1>2, <1>4 DEF DriverLoop, RunsInv, Minded
  <2>2. CASE UNCHANGED <<exec, proc>>
    BY <1>1, <1>3, <2>1, <2>2, StillKept
  <2>3. CASE ~UNCHANGED <<exec, proc>>
    <3> DEFINE batch == Batch(program, driver.at)
    <3>1. /\ Begin(batch, batch)
          /\ exec' = [i \in Steps |-> IF i \in batch
                   THEN [pc |-> IF Prompted(i) THEN "prompt" ELSE "work", tries |-> 1]
                   ELSE exec[i]]
      BY <1>4, <2>3 DEF DriverLoop
    <3> HIDE DEF batch
    <3>2. ASSUME NEW i \in Steps, i \in batch
          PROVE  /\ run'[i].state = "running"
                 /\ Alive(i)' => exec'[i].pc = "work"
                 /\ proc'[i] # "killed"
      BY <1>3, <2>1, <3>1, <3>2 DEF Begin, Alive
    <3>3. ASSUME NEW i \in Steps, i \notin batch
          PROVE  exec'[i] = exec[i] /\ ~Alive(i)'
      BY <1>3, <2>1, <3>1, <3>3 DEF Begin, Alive
    <3>4. ASSUME NEW i \in Steps, i \notin batch PROVE i \notin Executing'
      BY <1>1, <2>1, <3>3, <3>4 DEF Executing
    <3> QED
      BY <1>1, <3>2, <3>3, <3>4 DEF KeptAll, Kept, Alive
  <2> QED
    BY <2>2, <2>3
<1>5. CASE BatchReturns
  <2>1. Executing = {} /\ UNCHANGED <<exec, proc>>
    BY <1>2, <1>5 DEF BatchReturns, RunsInv, Minded, Executing
  <2> QED
    BY <1>1, <1>3, <2>1, StillKept
<1>6. CASE BatchThrows \/ AfterThrows
  <2>1. UNCHANGED <<exec, proc>> /\ \E others : CaughtBy(others)
    BY <1>6 DEF BatchThrows, AfterThrows
  <2>2. CASE UNCHANGED <<campaign, run>>
    <3>1. recovery' = recovery
      BY <1>6 DEF BatchThrows, AfterThrows
    <3> QED
      BY <1>1, <2>1, <2>2, <3>1, DyingKept
  <2>3. CASE ~UNCHANGED <<campaign, run>>
    <3>1. Executing = {}
      BY <2>1, <2>3 DEF CaughtBy, ParkedCalm, Calm
    <3> QED
      BY <1>1, <1>3, <2>1, <3>1, StillKept
  <2> QED
    BY <2>2, <2>3
<1>7. CASE AfterLands
  <2>1. Executing = {} /\ UNCHANGED <<exec, proc>>
    BY <1>2, <1>7 DEF AfterLands, RunsInv, Minded
  <2> QED
    BY <1>1, <1>3, <2>1, StillKept
<1> QED
  BY <1>4, <1>5, <1>6, <1>7 DEF Driver

\* An execution leaves a process of its own only behind if it waits for it.
LEMMA ExecutionProcs ==
    ASSUME TypeOK, NEW i \in Steps, Execution(i), Alive(i) => exec[i].pc = "work"
    PROVE  /\ \A j \in Steps : j # i => proc'[j] = proc[j]
           /\ Alive(i)' => exec'[i].pc = "work"
           /\ proc'[i] = "killed" => proc[i] = "killed"
<1> DEFINE Minds ==
             /\ \A j \in Steps : j # i => proc'[j] = proc[j]
             /\ Alive(i)' => exec'[i].pc = "work"
             /\ proc'[i] = "killed" => proc[i] = "killed"
<1>1. exec \in ExecType /\ proc \in ProcType
  BY DEF TypeOK
<1>2. ASSUME UNCHANGED proc, ~Alive(i) PROVE Minds
  BY <1>2 DEF Alive
<1>3. ASSUME ~Alive(i), AttemptFails(i) PROVE Minds
  <2>1. CASE UNCHANGED proc
    BY <1>2, <1>3, <2>1
  <2>2. CASE ~UNCHANGED proc
    <3>1. /\ exec' = [exec EXCEPT ![i] =
                         [pc |-> IF Prompted(i) THEN "prompt" ELSE "work",
                          tries |-> @.tries + 1]]
          /\ proc' = [proc EXCEPT ![i] = IF Prompted(i) THEN @ ELSE "live"]
      BY <1>3, <2>2 DEF AttemptFails, StepFails
    <3>2. exec'[i].pc = IF Prompted(i) THEN "prompt" ELSE "work"
      BY <1>1, <3>1
    <3>3. proc'[i] = IF Prompted(i) THEN proc[i] ELSE "live"
      BY <1>1, <3>1
    <3>4. \A j \in Steps : j # i => proc'[j] = proc[j]
      BY <1>1, <3>1
    <3> QED
      BY <1>3, <3>2, <3>3, <3>4 DEF Alive
  <2> QED
    BY <2>1, <2>2
<1>4. CASE Launch(i)
  <2>1. ~Alive(i)
    BY <1>4 DEF Launch, At
  <2>2. CASE proc' = [proc EXCEPT ![i] = "live"] /\ Goes(i, "work")
    <3>1. exec'[i].pc = "work"
      BY <1>1, <2>2 DEF Goes
    <3>2. proc'[i] = "live" /\ \A j \in Steps : j # i => proc'[j] = proc[j]
      BY <1>1, <2>2
    <3> QED
      BY <3>1, <3>2
  <2> QED
    BY <1>3, <1>4, <2>1, <2>2 DEF Launch
<1>5. CASE WorkReturns(i)
  <2>1. ~Alive(i)
    BY <1>5 DEF WorkReturns, Alive
  <2> QED
    BY <1>2, <1>3, <1>5, <2>1 DEF WorkReturns, StepFails
<1>6. CASE WriteArtifact(i) \/ WriteExtra(i) \/ Removed(i)
  BY <1>2, <1>6 DEF WriteArtifact, WriteExtra, Removed, At
<1> QED
  BY <1>4, <1>5, <1>6 DEF Execution

LEMMA ExecutionKept ==
    ASSUME TypeOK, RunsInv, KeptAll, NEW i \in Steps, Execution(i)
    PROVE  KeptAll'
<1>1. /\ UNCHANGED <<program, campaign, daemon>> /\ i \in Executing
      /\ \A j \in Steps : j # i => run'[j] = run[j] /\ exec'[j] = exec[j]
      /\ \/ run'[i].state = run[i].state
         \/ run'[i].state = "running"
         \/ exec'[i].pc \in {"finished", "failed"}
  BY ExecutionMoves
<1>2. daemon = "up" /\ daemon' = "up" /\ Steps' = Steps /\ Cancelling' = Cancelling
  BY <1>1 DEF RunsInv, Deserted, TypeOK, Steps, Cancelling
<1>3. /\ \A j \in Steps : j # i => proc'[j] = proc[j]
      /\ Alive(i)' => exec'[i].pc = "work"
      /\ proc'[i] = "killed" => proc[i] = "killed"
  BY <1>2, ExecutionProcs DEF KeptAll, Kept
<1>4. i \in Executing' => run'[i].state = "running"
  <2>1. run[i].state = "running"
    BY <1>1 DEF KeptAll
  <2> QED
    BY <1>1, <2>1 DEF Executing
<1>5. ASSUME NEW j \in Steps, j # i
      PROVE  /\ Alive(j)' => exec'[j].pc = "work"
             /\ j \in Executing' => run'[j].state = "running"
             /\ proc'[j] = "killed" => Cancelling
  <2>1. run'[j] = run[j] /\ exec'[j] = exec[j] /\ proc'[j] = proc[j]
    BY <1>1, <1>3, <1>5
  <2>2. j \in Executing' => j \in Executing
    BY <1>2, <2>1 DEF Executing
  <2> QED
    BY <1>2, <2>1, <2>2 DEF KeptAll, Kept, Alive
<1> QED
  BY <1>2, <1>3, <1>4, <1>5 DEF KeptAll, Kept

-----------------------------------------------------------------------------
(* Crashes and recoveries.                                                 *)

\* A crash leaves behind what the runs know of.
LEMMA HaltedKept ==
    ASSUME Halted, Steps' = Steps, campaign'.state \in {"running", "cancelling"},
           \A i \in Steps : proc'[i] # "killed" /\ (Alive(i)' => run'[i].state = "running")
    PROVE  KeptAll'
<1>1. Executing' = {} /\ daemon' = "down"
  BY DEF Halted, Executing, Idle
<1> QED
  BY <1>1 DEF KeptAll, Kept

\* What is alive has an open run, and its campaign is not at its end.
LEMMA AliveOpen ==
    ASSUME TypeOK, ParkInv, ParkedCalm, KeptAll, campaign.state # "recovery_required",
           NEW i \in Steps, Alive(i)
    PROVE  run[i].state = "running" /\ campaign.state \in {"running", "cancelling"}
<1>1. CASE daemon = "up"
  <2>1. i \in Executing
    BY <1>1 DEF KeptAll, Kept, Executing
  <2>2. campaign.state \notin Over
    BY <2>1 DEF ParkInv, Still
  <2> QED
    BY <2>1, <2>2 DEF KeptAll, Over, Ended, TypeOK, States
<1>2. CASE daemon # "up"
  BY <1>2 DEF KeptAll, Kept
<1> QED
  BY <1>1, <1>2

LEMMA CrashKept ==
    ASSUME TypeOK, RunsInv, Alone, ParkInv, ParkedCalm, KeptAll,
           campaign.state # "recovery_required",
           Crash \/ CrashLaunching \/ \E i \in Steps : CrashSpawning(i)
    PROVE  KeptAll'
<1>1. Halted /\ program' = program /\ Steps' = Steps
  BY DEF Crash, CrashLaunching, CrashSpawning, Halted, Steps
<1>2. Calm({"orphan"})
  BY DEF ParkedCalm, Calm
<1>3. CASE Crash
  <2>1. UNCHANGED <<campaign, run>>
    BY <1>3 DEF Crash
  <2>2. \A i \in Steps : proc'[i] # "killed" /\ (Alive(i)' => Alive(i))
    BY <1>3 DEF Crash, Alive
  <2>3. CASE \E i \in Steps : Alive(i)
    BY <1>1, <2>1, <2>2, <2>3, AliveOpen, HaltedKept
  <2>4. CASE \A i \in Steps : ~Alive(i)
    <3>1. Executing' = {}
      BY <1>1 DEF Halted, Executing, Idle
    <3> QED
      BY <1>1, <2>2, <2>4, <3>1 DEF KeptAll, Kept
  <2> QED
    BY <2>3, <2>4
<1>4. CASE CrashLaunching
  <2>1. daemon = "up" /\ Executing = {}
    BY <1>2, <1>4 DEF CrashLaunching, Alone, RunsInv, Minded
  <2>2. \A i \in Steps : ~Alive(i)
    BY <2>1, QuietKept
  <2>3. PICK begun, recorded : Begin(begun, recorded)
    BY <1>4 DEF CrashLaunching
  <2>4. campaign'.state = "running"
    BY <2>3 DEF Begin, TypeOK
  <2>5. \A i \in Steps : proc'[i] # "killed" /\ (Alive(i)' => run'[i].state = "running")
    BY <2>2, <2>3 DEF Begin, Alive
  <2> QED
    BY <1>1, <2>4, <2>5, HaltedKept
<1>5. ASSUME NEW i \in Steps, CrashSpawning(i) PROVE KeptAll'
  <2>1. /\ campaign' = campaign /\ campaign.state = "running"
        /\ proc' = [proc EXCEPT ![i] = "live"]
        /\ run' = run \/ run' = [run EXCEPT ![i] = [state |-> "running", pid |-> FALSE]]
    BY <1>5 DEF CrashSpawning, Launchable
  <2>2. /\ proc'[i] = "live" /\ \A j \in Steps : j # i => proc'[j] = proc[j]
        /\ \A j \in Steps : j # i => run'[j] = run[j]
        /\ run'[i] = run[i] \/ run'[i].state = "running"
    BY <2>1 DEF TypeOK
  <2>3. run[i].state = "running"
    BY <1>5 DEF CrashSpawning, At, Executing, KeptAll
  <2>4. \A j \in Steps : proc[j] # "killed"
    BY <2>1 DEF KeptAll, Cancelling
  <2>5. \A j \in Steps : Alive(j) => run[j].state = "running"
    BY AliveOpen
  <2> QED
    BY <1>1, <2>1, <2>2, <2>3, <2>4, <2>5, HaltedKept DEF Alive
<1> QED
  BY <1>3, <1>4, <1>5

\* A recovery that ends without doubts has found everything dead.
LEMMA RecoveryKept ==
    ASSUME TypeOK, RunsInv, Alone, RecoveryOk, KeptAll, AllTraceable, Recovery,
           campaign'.state # "recovery_required"
    PROVE  KeptAll'
<1> USE DEF rows, work
<1>1. daemon # "up" /\ Executing = {} /\ UNCHANGED <<program, exec>> /\ Steps' = Steps
  BY DEF Recovery, Restart, RecoverRun, RecoveryEnds, RunsInv, Deserted, Steps
<1>2. Executing' = {}
  BY <1>1 DEF Executing
<1>3. \A i \in Steps : proc[i] # "killed"
  BY <1>1 DEF KeptAll
<1>4. CASE Restart
  <2>1. UNCHANGED <<campaign, run, proc>>
    BY <1>4 DEF Restart
  <2>2. CASE Interrupted
    <3>1. daemon' = "recovering" /\ recovery'.todo = ActiveRuns
      BY <1>4, <2>2 DEF Restart
    <3>2. \A i \in Steps : Alive(i)' =>
            /\ run[i].state = "running" /\ campaign.state \in {"running", "cancelling"}
            /\ i \in ActiveRuns
      BY <1>1, <2>1 DEF KeptAll, Kept, Alive, ActiveRuns
    <3> QED
      BY <1>1, <1>2, <1>3, <2>1, <3>1, <3>2 DEF KeptAll, Kept
  <2>3. CASE ~Interrupted
    <3>1. \A i \in Steps : ~Alive(i)
      BY <1>1, <2>3 DEF KeptAll, Kept, Interrupted
    <3> QED
      BY <1>1, <2>1, <3>1, StillKept
  <2> QED
    BY <2>2, <2>3
<1>5. ASSUME NEW i \in Steps, RecoverRun(i) PROVE KeptAll'
  <2>1. daemon = "recovering" /\ daemon' = "recovering" /\ UNCHANGED <<campaign, run>>
    BY <1>5 DEF RecoverRun
  <2>2. ~Unseen(i)
    BY DEF AllTraceable, Traceable, Unseen, IsResearch, Steps, TypeOK
  <2>3. \/ recovery'.ambiguous /\ proc' = proc
        \/ /\ recovery' = [recovery EXCEPT !.todo = @ \ {i}]
           /\ proc' = [proc EXCEPT ![i] = IF @ = "live" THEN "dead" ELSE @]
    BY <1>5, <2>2 DEF RecoverRun
  <2>4. \A j \in Steps : proc'[j] # "killed" /\ (Alive(j)' =>
          Alive(j) /\ (j \in recovery'.todo \/ recovery'.ambiguous))
    <3>1. CASE recovery'.ambiguous /\ proc' = proc
      BY <1>3, <3>1 DEF Alive
    <3>2. CASE /\ recovery' = [recovery EXCEPT !.todo = @ \ {i}]
               /\ proc' = [proc EXCEPT ![i] = IF @ = "live" THEN "dead" ELSE @]
      <4>1. /\ recovery'.todo = recovery.todo \ {i}
            /\ recovery'.ambiguous = recovery.ambiguous
        BY <3>2 DEF TypeOK
      <4>2. /\ proc'[i] = IF proc[i] = "live" THEN "dead" ELSE proc[i]
            /\ \A j \in Steps : j # i => proc'[j] = proc[j]
        BY <3>2 DEF TypeOK
      <4>3. ASSUME NEW j \in Steps, Alive(j) PROVE j \in recovery.todo \/ recovery.ambiguous
        BY <2>1, <4>3 DEF KeptAll, Kept
      <4> QED
        BY <1>3, <4>1, <4>2, <4>3 DEF Alive
    <3> QED
      BY <2>3, <3>1, <3>2
  <2>5. \A j \in Steps : Alive(j) =>
          run[j].state = "running" /\ campaign.state \in {"running", "cancelling"}
    BY <1>1 DEF KeptAll, Kept
  <2> QED
    BY <1>1, <1>2, <2>1, <2>4, <2>5 DEF KeptAll, Kept
<1>6. CASE RecoveryEnds
  <2>1. ~recovery.ambiguous
    BY <1>6 DEF RecoveryEnds, TypeOK
  <2>2. \A i \in Steps : ~Alive(i)
    BY <1>6, <2>1 DEF RecoveryEnds, KeptAll, Kept
  <2>3. proc' = proc
    BY <1>6 DEF RecoveryEnds
  <2> QED
    BY <1>1, <2>2, <2>3, StillKept
<1> QED
  BY <1>4, <1>5, <1>6 DEF Recovery

-----------------------------------------------------------------------------

LEMMA KeptStep ==
    ASSUME TypeOK, Alone, RunsInv, ParkInv, RecoveryOk, KeptInv, AllTraceable, [Next]_vars
    PROVE  KeptInv'
<1> USE DEF outside, rows, work
<1> SUFFICES ASSUME ParkedCalm', campaign'.state # "recovery_required" PROVE KeptAll'
  BY DEF KeptInv
<1>1. ParkedCalm /\ campaign.state # "recovery_required" /\ KeptAll
  BY CalmBefore, RequiredStays DEF KeptInv
<1>2. ASSUME UNCHANGED <<program, campaign, run, exec, proc, daemon, recovery>> PROVE KeptAll'
  BY <1>1, <1>2, DyingKept
<1>3. CASE Driver
  BY <1>1, <1>3, DriverKept
<1>4. CASE Approve
  <2>1. /\ campaign.state = "waiting_approval" /\ daemon = "up"
        /\ UNCHANGED <<program, exec, proc>>
    BY <1>4 DEF Approve, ResumeApproval
  <2>2. Executing = {}
    BY <1>1, <2>1 DEF ParkInv, Still, Over
  <2> QED
    BY <1>1, <2>1, <2>2, QuietKept, StillKept
<1>5. CASE Prune
  BY <1>2, <1>5 DEF Prune
<1>6. CASE Crash \/ CrashLaunching \/ \E i \in Steps : CrashSpawning(i)
  BY <1>1, <1>6, CrashKept
<1>7. CASE Recovery
  BY <1>1, <1>7, RecoveryKept
<1>8. ASSUME NEW i \in Steps, Execution(i) PROVE KeptAll'
  BY <1>1, <1>8, ExecutionKept
<1>9. ASSUME NEW i \in Steps, ProcEnds(i) PROVE KeptAll'
  <2>1. \A j \in Steps : proc'[j] = proc[j] \/ proc'[j] = "dead"
    BY <1>9 DEF ProcEnds, TypeOK
  <2> QED
    BY <1>1, <1>9, <2>1, DyingKept DEF ProcEnds
<1>10. ASSUME NEW c \in Cancels, CancelCall(c) \/ CancelEnds(c) PROVE KeptAll'
  BY <1>1, <1>10, CancelKept
<1>11. ASSUME NEW c \in Cancels, CancelSeesQuiet(c) \/ CancelGivesUp(c) PROVE KeptAll'
  BY <1>2, <1>11 DEF CancelSeesQuiet, CancelGivesUp
<1>12. ASSUME NEW c \in Cancels, NEW i \in Steps, StopReturns(c, i) PROVE KeptAll'
  <2>1. \A j \in Steps : proc'[j] = proc[j] \/ proc'[j] = "dead"
    BY <1>12 DEF StopReturns, TypeOK
  <2> QED
    BY <1>1, <1>12, <2>1, DyingKept DEF StopReturns
<1>13. CASE UNCHANGED vars
  BY <1>2, <1>13 DEF vars
<1> QED
  BY <1>3, <1>4, <1>5, <1>6, <1>7, <1>8, <1>9, <1>10, <1>11, <1>12, <1>13 DEF Next, Cancel

\* Where recovery knows what every run has started, a campaign is shown as
\* ended only when nothing runs for it any more, whoever ends it: the driver,
\* a cancel, or the recovery of a later daemon; across crashes between a spawn
\* and its record, processes that ignore signals, and stops that fail.
THEOREM EndedStill ==
    ASSUME AllTraceable
    PROVE  Spec => []EndedMeansStill
<1>1. Init => BatchOk
  BY DEF Init, BatchOk, NoDriver
<1>2. TypeOK /\ BatchOk /\ LifeInv /\ RunsInv /\ ParkInv /\ [Next]_vars =>
        RunsInv' /\ LifeInv' /\ ParkInv'
  BY RunsStep, LifeStep, ParkStep DEF LifeInv
<1>3. TypeOK /\ LifeInv /\ RunsInv /\ ParkInv /\ RecoveryOk /\ KeptInv /\ [Next]_vars =>
        RecoveryOk' /\ KeptInv'
  BY RecoveryOkStep, KeptStep DEF LifeInv
<1>4. TypeOK /\ ParkInv /\ KeptInv => EndedMeansStill
  <2> SUFFICES ASSUME TypeOK, ParkInv, KeptInv, ParkedCalm, campaign.state \in Ended
               PROVE  \A i \in Steps : ~Alive(i)
    BY DEF EndedMeansStill, ParkedCalm, Alive
  <2>1. KeptAll /\ campaign.state # "recovery_required"
    BY DEF KeptInv, Ended
  <2> QED
    BY <2>1, AliveOpen DEF Ended
<1> QED
  BY <1>1, <1>2, <1>3, <1>4, LifeInit, RunsInit, ParkInit, KeptInit, BatchOkStep, TypeCorrect, PTL
     DEF Spec


-----------------------------------------------------------------------------
(* The order of the steps.                                                 *)

AllArranged == \A p \in Programs : Arranged(p)

-----------------------------------------------------------------------------
(* The inductive invariant.                                                *)

Done(j) == run[j].state = "completed" \/ program.steps[j].role = "merge"

\* Everything before the step the driver is at is done ...
Behind == driver.pc # "idle" => \A j \in Steps : j < driver.at => Done(j)

\* ... and so is everything before the step whose approval is waited for.
BehindGate ==
    campaign.state = "waiting_approval" => \A j \in Steps : j < campaign.index => Done(j)

BatchBehind == driver.pc = "after" => \A i \in driver.batch : i < driver.at

\* An execution completes its run when it is over, and not before.
Told ==
    \A i \in Steps :
      /\ exec[i].pc = "finished" => run[i].state = "completed"
      /\ i \in Executing => run[i].state # "completed"

OrderInv == Behind /\ BehindGate /\ BatchBehind /\ Told /\ StepsInOrder

LEMMA OrderInit == Init => OrderInv
<1> SUFFICES ASSUME Init PROVE OrderInv
  OBVIOUS
<1>1. Last \in Nat /\ Steps = 1..Last
  BY ProgramFacts DEF Init
<1>2. Told
  BY DEF Init, Told, Executing, Idle
<1>3. Behind
  BY <1>1 DEF Init, Behind, NoDriver
<1> QED
  BY <1>2, <1>3 DEF Init, OrderInv, BehindGate, BatchBehind, StepsInOrder, NoDriver

-----------------------------------------------------------------------------
(* Batches.                                                                *)

\* A batch fills all places from its first to the one its size says.
LEMMA BatchFills ==
    ASSUME program \in Programs, NEW at \in 1..Last,
           NEW j \in Steps, at <= j, j < at + Cardinality(Batch(program, at))
    PROVE  j \in Batch(program, at)
<1> DEFINE batch == Batch(program, at)
           size == Cardinality(batch)
<1>1. Last \in Nat /\ Steps = 1..Last
  BY ProgramFacts
<1>2. /\ batch \in SUBSET (at..Last) /\ size \in Nat
      /\ \A k \in batch : k < at + size
  BY BatchEnds
<1> HIDE DEF batch
<1>3. batch \in SUBSET (at..(at + size - 1))
  BY <1>1, <1>2
<1>4. IsFiniteSet(at..(at + size - 1)) /\ Cardinality(at..(at + size - 1)) = size
  <2>1. at \in Int /\ at + size - 1 \in Int /\ at <= at + size
    BY <1>1, <1>2
  <2> HIDE DEF size
  <2>2. /\ IsFiniteSet(at..(at + size - 1))
        /\ Cardinality(at..(at + size - 1)) =
             IF at > at + size - 1 THEN 0 ELSE (at + size - 1) - at + 1
    BY <2>1, FS_Interval
  <2> QED
    BY <1>1, <1>2, <2>2
<1>5. batch = at..(at + size - 1)
  BY <1>3, <1>4, FS_Subset
<1> QED
  BY <1>1, <1>2, <1>5 DEF batch

\* Of two steps of a batch, the later one may begin before the other completes.
LEMMA BatchTogether ==
    ASSUME AllArranged, program \in Programs, NEW at \in 1..Last,
           NEW i \in Batch(program, at), NEW j \in Steps, at <= j, j < i
    PROVE  \/ program.steps[j].group # "none"
              /\ program.steps[j].group = program.steps[i].group
           \/ i - j < program.parallelism /\ \A k \in j..i : Joins(program, j, k)
<1>1. Last \in Nat /\ Steps = 1..Last /\ program.parallelism \in Nat
  BY ProgramFacts
<1>2. /\ i \in at..Last
      /\ program.steps[at].group # "none" \/ i - at < program.parallelism
      /\ \A k \in at..i : Joins(program, at, k)
  BY <1>1 DEF Batch, Last
<1>3. CASE program.steps[at].group # "none"
  <2>1. Joins(program, at, i) /\ Joins(program, at, j)
    BY <1>1, <1>2
  <2> QED
    BY <1>3, <2>1 DEF Joins
<1>4. CASE program.steps[at].group = "none"
  <2>1. \A k \in at..i : /\ ~program.steps[k].gate
                         /\ program.steps[k].kind = "experiment"
                         /\ program.steps[k].executor = "command"
    BY <1>2, <1>4 DEF Joins
  <2>2. program.steps[j].group = "none"
    <3>1. at \in DOMAIN program.steps /\ j \in DOMAIN program.steps
      BY <1>1 DEF Steps
    <3>2. \A k \in at..j : program.steps[k].kind = "experiment"
                           /\ program.steps[k].executor = "command"
      BY <1>1, <1>2, <2>1
    <3> QED
      BY <1>4, <3>1, <3>2 DEF AllArranged, Arranged
  <2>3. \A k \in j..i : Joins(program, j, k)
    BY <1>1, <1>2, <2>1, <2>2 DEF Joins
  <2>4. i - j < program.parallelism
    BY <1>1, <1>2, <1>4
  <2> QED
    BY <2>3, <2>4
<1> QED
  BY <1>3, <1>4

-----------------------------------------------------------------------------
(* Steps that begin nothing.                                               *)

\* What other steps do to runs: none is completed, none reopened, none begun.
RunsMove ==
    \A i \in Steps :
      /\ run[i].state = "completed" <=> run'[i].state = "completed"
      /\ run[i].state = "none" => run'[i].state = "none"

LEMMA SettledMove ==
    ASSUME TypeOK,
           UNCHANGED run \/ \E state \in {"failed", "cancelled"} : SettleRuns(state)
    PROVE  RunsMove
BY SettleRunsMoves DEF RunsMove

LEMMA OrderKept ==
    ASSUME TypeOK, program' = program, StepsInOrder,
           \A i \in Steps : /\ run[i].state = "completed" => run'[i].state = "completed"
                            /\ run[i].state = "none" => run'[i].state = "none"
    PROVE  StepsInOrder' /\ \A j \in Steps : Done(j) => Done(j)'
<1>1. Steps' = Steps
  BY DEF Steps
<1>2. \A j \in Steps : Done(j) => Done(j)'
  BY DEF Done
<1>3. ASSUME NEW i \in Steps, run'[i].state # "none", NEW j \in 1..(i - 1)
      PROVE  \/ run'[j].state = "completed"
             \/ program.steps[j].role = "merge"
             \/ program.steps[j].group # "none" /\ program.steps[j].group = program.steps[i].group
             \/ i - j < program.parallelism /\ \A k \in j..i : Joins(program, j, k)
  <2>1. run[i].state # "none"
    BY <1>3
  <2>2. j \in Steps
    BY ProgramFacts DEF TypeOK
  <2> QED
    BY <1>3, <2>1, <2>2 DEF StepsInOrder
<1> QED
  BY <1>1, <1>2, <1>3 DEF StepsInOrder

\* The campaign and the driver stay, or the campaign does not wait.
LEMMA SteadyOrder ==
    ASSUME TypeOK, OrderInv, RunsMove, UNCHANGED <<program, driver, exec>>,
           campaign' = campaign \/ campaign'.state # "waiting_approval"
    PROVE  OrderInv'
<1>1. Steps' = Steps /\ Executing' = Executing
  BY DEF Steps, Executing
<1>2. StepsInOrder' /\ \A j \in Steps : Done(j) => Done(j)'
  BY OrderKept DEF OrderInv, RunsMove
<1>3. Told'
  BY <1>1 DEF OrderInv, Told, RunsMove
<1> QED
  BY <1>1, <1>2, <1>3 DEF OrderInv, Behind, BehindGate, BatchBehind

\* The driver comes to rest, or a daemon dies.
LEMMA RestOrder ==
    ASSUME TypeOK, OrderInv, RunsMove, program' = program, driver'.pc = "idle",
           exec' = exec \/ exec' = [i \in Steps |-> Idle],
           \/ campaign' = campaign
           \/ campaign'.state # "waiting_approval"
           \/ \A j \in Steps : j < campaign'.index => Done(j)
    PROVE  OrderInv'
<1>1. Steps' = Steps
  BY DEF Steps
<1>2. StepsInOrder' /\ \A j \in Steps : Done(j) => Done(j)'
  BY OrderKept DEF OrderInv, RunsMove
<1>3. \A i \in Steps : (exec'[i].pc = "finished" => exec[i].pc = "finished")
                       /\ (i \in Executing' => i \in Executing)
  BY <1>1 DEF Executing, Idle
<1>4. Told'
  BY <1>1, <1>3 DEF OrderInv, Told, RunsMove
<1> QED
  BY <1>1, <1>2, <1>4 DEF OrderInv, Behind, BehindGate, BatchBehind

-----------------------------------------------------------------------------
(* Steps that begin, complete or pass over a step.                         *)

\* What begins of a batch comes after steps that are done.
LEMMA BeginOrder ==
    ASSUME TypeOK, RunsInv, OrderInv, AllArranged, program' = program,
           driver.pc = "loop", driver.at \in 1..Last,
           NEW begun \in SUBSET Batch(program, driver.at), NEW recorded,
           Begin(begun, recorded)
    PROVE  /\ StepsInOrder' /\ campaign'.state = "running"
           /\ \A i \in Steps : IF i \in begun THEN run'[i].state = "running" ELSE run'[i] = run[i]
           /\ \A j \in Steps : j < driver.at => j \notin begun
<1>1. Last \in Nat /\ Steps = 1..Last /\ Steps' = Steps
  BY ProgramFacts DEF TypeOK, Steps
<1>2. /\ campaign'.state = "running"
      /\ \A i \in Steps : IF i \in begun THEN run'[i].state = "running" ELSE run'[i] = run[i]
  BY DEF Begin, TypeOK
<1>3. begun \in SUBSET (driver.at..Last) /\ program \in Programs
  BY BatchEnds DEF TypeOK
<1>4. ASSUME NEW i \in Steps, run'[i].state # "none", NEW j \in 1..(i - 1)
      PROVE  \/ run'[j].state = "completed"
             \/ program.steps[j].role = "merge"
             \/ program.steps[j].group # "none" /\ program.steps[j].group = program.steps[i].group
             \/ i - j < program.parallelism /\ \A k \in j..i : Joins(program, j, k)
  <2>1. j \in Steps /\ j < i
    BY <1>1
  <2>2. CASE i \in begun /\ driver.at <= j
    BY <1>3, <2>1, <2>2, BatchTogether
  <2>3. CASE i \in begun /\ j < driver.at
    <3>1. Done(j) /\ run'[j] = run[j]
      BY <1>1, <1>2, <1>3, <2>1, <2>3 DEF OrderInv, Behind
    <3> QED
      BY <3>1 DEF Done
  <2>4. CASE i \notin begun
    <3>1. run[i].state # "none" /\ i < driver.at
      BY <1>1, <1>2, <1>4, <2>4 DEF RunsInv, Ahead, Reach
    <3>2. run'[j] = run[j]
      BY <1>1, <1>2, <1>3, <2>1, <3>1
    <3> QED
      BY <1>4, <3>1, <3>2 DEF OrderInv, StepsInOrder
  <2> QED
    BY <1>1, <2>1, <2>2, <2>3, <2>4
<1>5. StepsInOrder'
  BY <1>1, <1>4 DEF StepsInOrder
<1> QED
  BY <1>1, <1>2, <1>3, <1>5

LEMMA LoopOrder ==
    ASSUME TypeOK, RunsInv, OrderInv, AllArranged, DriverLoop
    PROVE  OrderInv'
<1>1. /\ program' = program /\ driver.pc = "loop" /\ Steps' = Steps
      /\ Last \in Nat /\ Steps = 1..Last
  BY ProgramFacts DEF DriverLoop, outside, Steps, TypeOK
<1>2. Rest => driver'.pc = "idle"
  BY DEF Rest, Drive, TypeOK
<1>3. CASE driver.at > Last \/ Cancelling
  <2>1. Rest /\ UNCHANGED <<campaign, run, exec>>
    BY <1>3 DEF DriverLoop
  <2> QED
    BY <1>1, <1>2, <2>1, SettledMove, RestOrder
<1>4. CASE ~(driver.at > Last \/ Cancelling) /\ Gated(driver.at)
  <2>1. /\ Rest /\ UNCHANGED <<run, exec>>
        /\ campaign' = [campaign EXCEPT !.state = "waiting_approval", !.index = driver.at]
    BY <1>4 DEF DriverLoop
  <2>2. \A j \in Steps : j < campaign'.index => Done(j)
    BY <1>1, <2>1 DEF OrderInv, Behind, TypeOK
  <2> QED
    BY <1>1, <1>2, <2>1, <2>2, SettledMove, RestOrder
<1>5. CASE ~(driver.at > Last \/ Cancelling) /\ ~Gated(driver.at)
  <2> DEFINE batch == Batch(program, driver.at)
  <2>1. /\ Begin(batch, batch)
        /\ exec' = [i \in Steps |-> IF i \in batch
                 THEN [pc |-> IF Prompted(i) THEN "prompt" ELSE "work", tries |-> 1]
                 ELSE exec[i]]
        /\ Drive("batch", driver.at, batch)
    BY <1>5 DEF DriverLoop
  <2>2. driver.at \in 1..Last
    BY <1>1, <1>5 DEF TypeOK
  <2>3. /\ StepsInOrder' /\ campaign'.state = "running"
        /\ \A i \in Steps : IF i \in batch THEN run'[i].state = "running" ELSE run'[i] = run[i]
        /\ \A j \in Steps : j < driver.at => j \notin batch
    BY <1>1, <2>1, <2>2, BeginOrder
  <2> HIDE DEF batch
  <2>4. driver'.pc = "batch" /\ driver'.at = driver.at
    BY <2>1 DEF Drive, TypeOK
  <2>5. Behind'
    BY <1>1, <2>3, <2>4 DEF OrderInv, Behind, Done
  <2>6. ASSUME NEW i \in Steps
        PROVE  /\ exec'[i].pc = "finished" => run'[i].state = "completed"
               /\ i \in Executing' => run'[i].state # "completed"
    <3>1. CASE i \in batch
      BY <2>1, <2>3, <3>1
    <3>2. CASE i \notin batch
      <4>1. exec'[i] = exec[i] /\ run'[i] = run[i]
        BY <2>1, <2>3, <3>2
      <4> QED
        BY <1>1, <4>1 DEF OrderInv, Told, Executing
    <3> QED
      BY <3>1, <3>2
  <2> QED
    BY <1>1, <2>3, <2>4, <2>5, <2>6 DEF OrderInv, BehindGate, BatchBehind, Told
<1> QED
  BY <1>3, <1>4, <1>5

\* A batch of which no step failed is done, and so is all before its end.
LEMMA ReturnsOrder ==
    ASSUME TypeOK, BatchOk, RunsInv, OrderInv, BatchReturns
    PROVE  OrderInv'
<1>1. /\ UNCHANGED <<program, run, exec>> /\ driver.pc = "batch" /\ Steps' = Steps
      /\ \A i \in driver.batch : exec[i].pc \in {"finished", "failed"}
      /\ Last \in Nat /\ Steps = 1..Last
  BY ProgramFacts DEF BatchReturns, outside, Steps, TypeOK
<1>2. RunsMove /\ (Rest => driver'.pc = "idle")
  BY <1>1 DEF RunsMove, Rest, Drive, TypeOK
<1>3. CASE Cancelling
  BY <1>1, <1>2, <1>3, RestOrder DEF BatchReturns
<1>4. campaign.state \in {"running", "cancelling", "cancelled"}
  BY <1>1 DEF RunsInv, Driven
<1>5. CASE ~Cancelling /\ BatchFailed
  <2>1. Rest /\ campaign'.state # "waiting_approval"
    BY <1>4, <1>5 DEF BatchReturns, FailCampaign, Cancelling, TypeOK
  <2> QED
    BY <1>1, <1>2, <2>1, RestOrder
<1>6. CASE ~Cancelling /\ ~BatchFailed
  <2> DEFINE next == NextIndex(driver.batch)
  <2>1. campaign.state = "running"
    BY <1>4, <1>6 DEF Cancelling
  <2>2. campaign' = [campaign EXCEPT !.index = next,
                      !.state = IF next > Last THEN "completed" ELSE "running"]
    BY <1>6, <2>1 DEF BatchReturns, CompleteStep, Ended
  <2>3. \/ Drive("after", campaign'.index, driver.batch)
        \/ Drive("loop", campaign'.index, {})
    BY <1>6 DEF BatchReturns
  <2>4. /\ driver.batch \in SUBSET Steps /\ Cardinality(driver.batch) \in Nat
        /\ \A k \in driver.batch : k < next
    <3>1. /\ driver.at \in 1..Last /\ driver.batch = Batch(program, driver.at)
          /\ program \in Programs
      BY <1>1 DEF BatchOk, TypeOK
    <3> QED
      BY <3>1, BatchEnds DEF NextIndex
  <2>5. \A j \in Steps : j < next => Done(j)
    <3> SUFFICES ASSUME NEW j \in Steps, j < next PROVE Done(j)
      OBVIOUS
    <3>1. CASE j < driver.at
      BY <1>1, <3>1 DEF OrderInv, Behind
    <3>2. CASE driver.at <= j
      <4>1. driver.at \in 1..Last /\ driver.batch = Batch(program, driver.at)
            /\ program \in Programs
        BY <1>1 DEF BatchOk, TypeOK
      <4>2. j \in driver.batch
        BY <3>2, <4>1, BatchFills DEF NextIndex
      <4>3. exec[j].pc = "finished"
        BY <1>1, <1>6, <4>2 DEF BatchFailed
      <4> QED
        BY <4>3 DEF OrderInv, Told, Done
    <3> QED
      BY <1>1, <3>1, <3>2 DEF TypeOK
  <2> HIDE DEF next
  <2>6. /\ campaign'.state # "waiting_approval" /\ driver'.at = next
        /\ driver'.pc = "after" => driver'.batch = driver.batch
    BY <2>2, <2>3 DEF Drive, TypeOK
  <2>7. Behind' /\ BatchBehind'
    BY <1>1, <2>4, <2>5, <2>6 DEF Behind, BatchBehind, Done
  <2>8. Told' /\ StepsInOrder'
    <3>1. Executing' = Executing
      BY <1>1 DEF Executing
    <3> QED
      BY <1>1, <1>2, <3>1, OrderKept DEF OrderInv, Told, RunsMove
  <2> QED
    BY <2>6, <2>7, <2>8 DEF OrderInv, BehindGate
<1> QED
  BY <1>3, <1>5, <1>6

\* The merge that is skipped is all that is skipped.
LEMMA SkipsMerges ==
    ASSUME TypeOK, BatchBehind, AllArranged, driver.pc = "after", NEW status,
           NEW j \in Steps, driver.at <= j,
           j < IF \E i \in driver.batch : IsGit(i)
                 THEN PastMerge(program, driver.at, status) ELSE driver.at
    PROVE  program.steps[j].role = "merge"
<1>1. /\ Last \in Nat /\ Steps = 1..Last /\ program \in Programs
      /\ driver.at \in Int /\ j \in Int
  BY ProgramFacts DEF TypeOK
<1>2. PICK i \in driver.batch : IsGit(i)
  BY <1>1
<1> DEFINE k == CHOOSE k \in driver.at..Last : program.steps[k].role = "merge"
           next == PastMerge(program, driver.at, status)
<1>3. j < next
  BY <1>2
<1>4. k \in driver.at..Last /\ program.steps[k].role = "merge" /\ next = k + 1
  <2>1. next # driver.at
    BY <1>1, <1>3
  <2>2. \E l \in driver.at..Last : program.steps[l].role = "merge"
    BY <2>1 DEF PastMerge, Last
  <2>3. next = k + 1
    BY <2>1 DEF PastMerge, Last
  <2> QED
    BY <2>2, <2>3
<1> HIDE DEF k, next
<1>5. i \in Steps /\ i < driver.at /\ program.steps[i].role = "integration"
  BY <1>1, <1>2 DEF BatchBehind, IsGit, TypeOK
<1>6. k \in Steps /\ j \in (i + 1)..k
  BY <1>1, <1>3, <1>4, <1>5
<1> QED
  BY <1>1, <1>4, <1>5, <1>6 DEF AllArranged, Arranged, Steps

LEMMA LandsOrder ==
    ASSUME TypeOK, OrderInv, AllArranged, AfterLands
    PROVE  OrderInv'
<1>1. /\ UNCHANGED <<program, run, exec>> /\ driver.pc = "after" /\ Steps' = Steps
      /\ Last \in Nat /\ Steps = 1..Last
  BY ProgramFacts DEF AfterLands, Steps, TypeOK
<1>2. PICK status \in IntegrationReports :
         LET next == IF \E i \in driver.batch : IsGit(i)
                       THEN PastMerge(program, driver.at, status) ELSE driver.at IN
         /\ campaign' = [state |-> IF next > Last THEN "completed" ELSE "running",
                         index |-> next, fence |-> FALSE]
         /\ Drive("loop", next, {})
  BY DEF AfterLands
<1> DEFINE next == IF \E i \in driver.batch : IsGit(i)
                     THEN PastMerge(program, driver.at, status) ELSE driver.at
<1>3. campaign'.state # "waiting_approval" /\ driver'.pc = "loop" /\ driver'.at = next
  BY <1>2 DEF Drive, TypeOK
<1>4. \A j \in Steps : j < next => Done(j)
  <2> SUFFICES ASSUME NEW j \in Steps, j < next PROVE Done(j)
    OBVIOUS
  <2>1. CASE j < driver.at
    BY <1>1, <2>1 DEF OrderInv, Behind
  <2>2. CASE driver.at <= j
    BY <1>1, <2>2, SkipsMerges DEF OrderInv, Done
  <2> QED
    BY <1>1, <2>1, <2>2 DEF TypeOK
<1> HIDE DEF next
<1>5. Behind' /\ BatchBehind'
  BY <1>1, <1>3, <1>4 DEF Behind, BatchBehind, Done
<1>6. Told' /\ StepsInOrder'
  <2>1. Executing' = Executing /\ RunsMove
    BY <1>1 DEF Executing, RunsMove
  <2> QED
    BY <1>1, <2>1, OrderKept DEF OrderInv, Told, RunsMove
<1> QED
  BY <1>3, <1>5, <1>6 DEF OrderInv, BehindGate

LEMMA DriverOrder ==
    ASSUME TypeOK, BatchOk, RunsInv, OrderInv, AllArranged, Driver
    PROVE  OrderInv'
<1>1. CASE BatchThrows \/ AfterThrows
  <2>1. UNCHANGED <<program, exec>> /\ \E others : CaughtBy(others)
    BY <1>1 DEF BatchThrows, AfterThrows, outside
  <2>2. driver'.pc = "idle"
    BY <2>1 DEF CaughtBy, Rest, Drive, TypeOK
  <2>3. UNCHANGED run \/ SettleRuns("failed")
    BY <2>1 DEF CaughtBy, FinalizeFailure
  <2>4. campaign' = campaign \/ campaign'.state # "waiting_approval"
    BY <2>1, FinalizeMoves DEF CaughtBy
  <2> QED
    BY <2>1, <2>2, <2>3, <2>4, SettledMove, RestOrder
<1> QED
  BY <1>1, LoopOrder, ReturnsOrder, LandsOrder DEF Driver

\* An execution that is over has completed its run, or it failed or threw.
LEMMA ExecutionFinishes ==
    ASSUME TypeOK, NEW i \in Steps, Execution(i), exec'[i].pc = "finished"
    PROVE  run'[i].state = "completed"
<1>1. run \in RunType /\ exec \in ExecType
  BY DEF TypeOK
<1>2. \A pc : Goes(i, pc) => exec'[i].pc = pc
  BY <1>1 DEF Goes
<1>3. ~StepFails(i) /\ ~AttemptFails(i)
  <2>1. ~StepFails(i)
    BY <1>2 DEF StepFails
  <2>2. exec' # [exec EXCEPT ![i] = [pc |-> IF Prompted(i) THEN "prompt" ELSE "work",
                                     tries |-> @.tries + 1]]
    BY <1>1
  <2> QED
    BY <2>1, <2>2 DEF AttemptFails
<1>4. Finishes(i)
  BY <1>2, <1>3 DEF Execution, Launch, WorkReturns, WriteArtifact, WriteExtra, Removed, Throws
<1> QED
  BY <1>1, <1>4 DEF Finishes, SettleRun

LEMMA ExecutionOrder ==
    ASSUME TypeOK, RunsInv, OrderInv, NEW i \in Steps, Execution(i)
    PROVE  OrderInv'
<1>1. /\ UNCHANGED <<program, campaign, driver>> /\ i \in Executing
      /\ \A j \in Steps : j # i => run'[j] = run[j] /\ exec'[j] = exec[j]
      /\ \/ run'[i].state = run[i].state
         \/ run'[i].state = "running"
         \/ exec'[i].pc \in {"finished", "failed"}
  BY ExecutionMoves
<1>2. Steps' = Steps
  BY <1>1 DEF Steps
<1>3. run[i].state \notin {"none", "completed"}
  BY <1>1 DEF RunsInv, Begun, OrderInv, Told
<1>4. StepsInOrder' /\ \A j \in Steps : Done(j) => Done(j)'
  BY <1>1, <1>3, OrderKept DEF OrderInv
<1>5. ASSUME NEW j \in Steps
      PROVE  /\ exec'[j].pc = "finished" => run'[j].state = "completed"
             /\ j \in Executing' => run'[j].state # "completed"
  <2>1. CASE j = i
    BY <1>1, <1>3, <2>1, ExecutionFinishes DEF Executing
  <2>2. CASE j # i
    BY <1>1, <1>2, <2>2 DEF OrderInv, Told, Executing
  <2> QED
    BY <2>1, <2>2
<1> QED
  BY <1>1, <1>2, <1>4, <1>5 DEF OrderInv, Behind, BehindGate, BatchBehind, Told

\* The gate lets the driver go on from where it left.
LEMMA ApproveOrder ==
    ASSUME TypeOK, OrderInv, Approve
    PROVE  OrderInv'
<1>1. /\ campaign.state = "waiting_approval" /\ campaign'.state = "running"
      /\ UNCHANGED <<program, run, exec>> /\ Steps' = Steps
      /\ driver'.pc = "loop" /\ driver'.at = campaign.index
  BY DEF Approve, ResumeApproval, TypeOK, outside, Steps
<1>2. Behind' /\ BatchBehind' /\ BehindGate'
  BY <1>1 DEF OrderInv, Behind, BehindGate, BatchBehind, Done
<1>3. Executing' = Executing /\ RunsMove
  BY <1>1 DEF Executing, RunsMove
<1>4. Told' /\ StepsInOrder'
  BY <1>1, <1>3, OrderKept DEF OrderInv, Told, RunsMove
<1> QED
  BY <1>2, <1>4 DEF OrderInv

LEMMA CrashOrder ==
    ASSUME TypeOK, RunsInv, OrderInv, AllArranged,
           Crash \/ CrashLaunching \/ \E i \in Steps : CrashSpawning(i)
    PROVE  OrderInv'
<1>1. /\ program' = program /\ driver'.pc = "idle" /\ Steps' = Steps
      /\ exec' = [i \in Steps |-> Idle]
  BY DEF Crash, CrashLaunching, CrashSpawning, Halted, NoDriver, Steps
<1>2. CASE Crash
  <2>1. UNCHANGED <<campaign, run>>
    BY <1>2 DEF Crash
  <2> QED
    BY <1>1, <2>1, SettledMove, RestOrder
<1>3. CASE CrashLaunching
  <2> DEFINE batch == Batch(program, driver.at)
  <2>1. driver.pc = "loop" /\ driver.at \in 1..Last
    BY <1>3, ProgramFacts DEF CrashLaunching, TypeOK
  <2>2. PICK begun, recorded : begun \in SUBSET batch /\ Begin(begun, recorded)
    BY <1>3 DEF CrashLaunching
  <2> HIDE DEF batch
  <2>3. StepsInOrder' /\ campaign'.state = "running"
    <3>1. begun \in SUBSET Batch(program, driver.at)
      BY <2>2 DEF batch
    <3> QED
      BY <1>1, <2>1, <2>2, <3>1, BeginOrder
  <2>4. Told'
    BY <1>1 DEF Told, Executing, Idle
  <2> QED
    BY <1>1, <2>3, <2>4 DEF OrderInv, Behind, BehindGate, BatchBehind
<1>4. ASSUME NEW i \in Steps, CrashSpawning(i) PROVE OrderInv'
  <2>1. /\ campaign' = campaign
        /\ run' = run \/ run' = [run EXCEPT ![i] = [state |-> "running", pid |-> FALSE]]
    BY <1>4 DEF CrashSpawning
  <2>2. run[i].state \notin {"none", "completed"}
    BY <1>4 DEF CrashSpawning, At, Executing, RunsInv, Begun, OrderInv, Told
  <2>3. \A j \in Steps : run'[j] = run[j] \/ (j = i /\ run'[j].state = "running")
    BY <2>1 DEF TypeOK
  <2>4. RunsMove
    BY <2>2, <2>3 DEF RunsMove
  <2> QED
    BY <1>1, <2>1, <2>4, RestOrder
<1> QED
  BY <1>2, <1>3, <1>4

-----------------------------------------------------------------------------

LEMMA OrderStep ==
    ASSUME TypeOK, BatchOk, RunsInv, OrderInv, AllArranged, [Next]_vars
    PROVE  OrderInv'
<1> USE DEF outside, rows, work
<1>1. ASSUME UNCHANGED <<program, campaign, run, driver, exec>> PROVE OrderInv'
  BY <1>1, SettledMove, SteadyOrder
<1>2. CASE Driver
  BY <1>2, DriverOrder
<1>3. CASE Approve
  BY <1>3, ApproveOrder
<1>4. CASE Prune
  BY <1>1, <1>4 DEF Prune
<1>5. CASE Crash \/ CrashLaunching \/ \E i \in Steps : CrashSpawning(i)
  BY <1>5, CrashOrder
<1>6. CASE Restart \/ \E i \in Steps : RecoverRun(i)
  BY <1>1, <1>6 DEF Restart, RecoverRun
<1>7. CASE RecoveryEnds
  <2>1. UNCHANGED run \/ SettleRuns("cancelled") \/ SettleRuns("failed")
    BY <1>7 DEF RecoveryEnds, FinalizeCancellation, FinalizeFailure
  <2>2. campaign' = campaign \/ campaign'.state # "waiting_approval"
    <3>1. \/ campaign' = [campaign EXCEPT !.state = "recovery_required", !.fence = FALSE]
          \/ FinalizeCancellation \/ FinalizeFailure
      BY <1>7 DEF RecoveryEnds
    <3>2. [campaign EXCEPT !.state = "recovery_required", !.fence = FALSE].state
            = "recovery_required"
      BY DEF TypeOK
    <3> QED
      BY <3>1, <3>2, FinalizeMoves
  <2> QED
    BY <1>7, <2>1, <2>2, SettledMove, SteadyOrder DEF RecoveryEnds
<1>8. ASSUME NEW i \in Steps, Execution(i) PROVE OrderInv'
  BY <1>8, ExecutionOrder
<1>9. ASSUME NEW i \in Steps, ProcEnds(i) PROVE OrderInv'
  BY <1>1, <1>9 DEF ProcEnds
<1>10. ASSUME NEW c \in Cancels, CancelCall(c) PROVE OrderInv'
  <2>1. campaign' = campaign \/ campaign'.state # "waiting_approval"
    BY <1>10 DEF CancelCall, BeginCancellation, TypeOK
  <2> QED
    BY <1>10, <2>1, SettledMove, SteadyOrder DEF CancelCall
<1>11. ASSUME NEW c \in Cancels, CancelEnds(c) PROVE OrderInv'
  <2>1. UNCHANGED run \/ SettleRuns("cancelled")
    BY <1>11 DEF CancelEnds, FinalizeCancellation
  <2>2. campaign' = campaign \/ campaign'.state # "waiting_approval"
    BY <1>11, FinalizeMoves DEF CancelEnds, TypeOK
  <2> QED
    BY <1>11, <2>1, <2>2, SettledMove, SteadyOrder DEF CancelEnds
<1>12. ASSUME NEW c \in Cancels,
              CancelSeesQuiet(c) \/ CancelGivesUp(c) \/ \E i \in Steps : StopReturns(c, i)
       PROVE  OrderInv'
  BY <1>1, <1>12 DEF CancelSeesQuiet, CancelGivesUp, StopReturns
<1>13. CASE UNCHANGED vars
  BY <1>1, <1>13 DEF vars
<1> QED
  BY <1>2, <1>3, <1>4, <1>5, <1>6, <1>7, <1>8, <1>9, <1>10, <1>11, <1>12, <1>13
     DEF Next, Recovery, Cancel

\* In programs arranged as the templates arrange them, a step begins only when
\* what comes before it is done, but for the steps it shares a batch with:
\* however many steps a batch has, whatever of them fails, throws or is tried
\* again, and wherever a gate, a skipped merge, a cancellation or a crash breaks
\* the sequence.
THEOREM OrderKeeps ==
    ASSUME AllArranged
    PROVE  Spec => []StepsInOrder
<1>1. Init => BatchOk
  BY DEF Init, BatchOk, NoDriver
<1>2. TypeOK /\ BatchOk /\ LifeInv /\ RunsInv /\ OrderInv /\ [Next]_vars =>
        RunsInv' /\ LifeInv' /\ OrderInv'
  BY RunsStep, LifeStep, OrderStep DEF LifeInv
<1>3. OrderInv => StepsInOrder
  BY DEF OrderInv
<1> QED
  BY <1>1, <1>2, <1>3, LifeInit, RunsInit, OrderInit, BatchOkStep, TypeCorrect, PTL DEF Spec

-----------------------------------------------------------------------------
(* What a cancelled campaign leaves behind.                                *)

LeaveCalm == Calm({"crash", "fault", "stale"})

\* Only a failing write makes a step throw, and only a step that throws makes a
\* batch leave others at work.
Unthrown == LeaveCalm => Calm({"orphan"}) /\ \A i \in Steps : exec[i].pc # "threw"

\* An artifact of a step that is not done is the output of one which has the
\* rest of its artifacts yet to write, and which will remove it if it may not.
Owned ==
    LeaveCalm =>
      \A a \in artifacts : a[1] # 0 =>
        \/ run[a[1]].state = "completed"
        \/ exec[a[1]].pc = "extra" /\ a = Output(program, a[1])

LeaveInv == Unthrown /\ Owned

LEMMA LeaveInit == Init => LeaveInv
BY DEF Init, LeaveInv, Unthrown, Owned, Calm, Idle, Bundle

\* The outputs of two steps differ by the steps they are filed under.
LEMMA OutputOwner ==
    ASSUME NEW i
    PROVE  /\ Output(program, i)[1] = i
           /\ \A a \in Extras(program, i) : a[1] = i
BY DEF Output, Extras

\* Steps that write no artifact and begin and end no execution
LEMMA QuietLeaves ==
    ASSUME TypeOK, LeaveInv, Settled, [Next]_vars, UNCHANGED <<program, exec>>,
           artifacts' \subseteq artifacts, LeaveCalm' => Calm({"orphan"})'
    PROVE  LeaveInv'
<1> SUFFICES ASSUME LeaveCalm' PROVE LeaveInv'
  BY DEF LeaveInv, Unthrown, Owned
<1>1. LeaveCalm /\ Steps' = Steps
  BY MishapsGrow DEF LeaveCalm, Calm, Steps
<1>2. \A a \in artifacts : a[1] # 0 => a[1] \in Steps
  <2>1. Last \in Nat /\ Steps = 1..Last
    BY ProgramFacts DEF TypeOK
  <2> QED
    BY <2>1 DEF TypeOK
<1>3. Owned'
  BY <1>1, <1>2 DEF LeaveInv, Owned, Settled, Unthrown
<1> QED
  BY <1>1, <1>3 DEF LeaveInv, Unthrown

\* An execution throws only at a failing write. What it writes is its own.
LEMMA ExecutionLeaves ==
    ASSUME TypeOK, LeaveInv, Settled, [Next]_vars, NEW i \in Steps, Execution(i)
    PROVE  LeaveInv'
<1> USE DEF outside, rows, work
<1> SUFFICES ASSUME LeaveCalm' PROVE LeaveInv'
  BY DEF LeaveInv, Unthrown, Owned
<1>1. /\ LeaveCalm /\ ~Fault
      /\ Last \in Nat /\ Steps = 1..Last
      /\ run \in RunType /\ exec \in ExecType
  BY MishapsGrow, ProgramFacts DEF LeaveCalm, Calm, Fault, TypeOK
<1>2. /\ program' = program /\ Steps' = Steps /\ i \in Executing
      /\ \A j \in Steps : j # i => run'[j] = run[j] /\ exec'[j] = exec[j]
  BY ExecutionMoves DEF Steps
<1>3. mishaps' = mishaps
  BY <1>1 DEF Execution, Launch, WorkReturns, WriteArtifact, WriteExtra, Removed, Throws, NoFault
<1>4. ASSUME NEW pc, Goes(i, pc)
      PROVE  exec'[i].pc = pc
  BY <1>1, <1>4 DEF Goes
<1>5. Finishes(i) => run'[i].state = "completed"
  BY <1>1 DEF Finishes, SettleRun
<1>6. ASSUME NEW a \in artifacts, a[1] # 0
      PROVE  /\ a[1] \in Steps
             /\ \/ run'[a[1]].state = "completed"
                \/ exec[a[1]].pc = "extra" /\ a = Output(program, a[1])
  <2>1. a[1] \in Steps
    BY <1>1, <1>6 DEF TypeOK
  <2> QED
    BY <1>1, <1>6, <2>1 DEF LeaveInv, Owned, Unthrown, Settled
<1>7. ASSUME ~At(i, "extra"), artifacts' = artifacts PROVE Owned'
  <2> SUFFICES ASSUME NEW a \in artifacts, a[1] # 0
               PROVE  \/ run'[a[1]].state = "completed"
                      \/ exec'[a[1]].pc = "extra" /\ a = Output(program, a[1])
    BY <1>2, <1>7 DEF Owned
  <2> QED
    BY <1>2, <1>6, <1>7 DEF At
<1>8. AttemptFails(i) => exec'[i].pc # "threw"
  <2>1. StepFails(i) => exec'[i].pc # "threw"
    BY <1>4 DEF StepFails
  <2>2. exec' = [exec EXCEPT ![i] = [pc |-> IF Prompted(i) THEN "prompt" ELSE "work",
                                     tries |-> @.tries + 1]] => exec'[i].pc # "threw"
    BY <1>1
  <2> QED
    BY <2>1, <2>2 DEF AttemptFails
<1>9. exec'[i].pc # "threw" /\ Owned'
  <2>1. CASE Launch(i)
    <3>1. ~At(i, "extra") /\ artifacts' = artifacts
      BY <2>1 DEF Launch, At
    <3> QED
      BY <1>1, <1>4, <1>7, <1>8, <2>1, <3>1 DEF Launch
  <2>2. CASE WorkReturns(i)
    <3>1. ~At(i, "extra") /\ artifacts' = artifacts
      BY <2>2 DEF WorkReturns, At
    <3>2. StepFails(i) => exec'[i].pc # "threw"
      BY <1>4 DEF StepFails
    <3> QED
      BY <1>4, <1>7, <1>8, <2>2, <3>1, <3>2 DEF WorkReturns
  <2>3. CASE WriteArtifact(i)
    <3>1. \/ Goes(i, "removing") /\ artifacts' = artifacts
          \/ /\ artifacts' = artifacts \cup {Output(program, i)}
             /\ \/ Goes(i, "extra")
                \/ Finishes(i)
      BY <1>1, <2>3 DEF WriteArtifact, Throws
    <3>2. exec[i].pc = "artifact"
      BY <2>3 DEF WriteArtifact, At
    <3>3. CASE artifacts' = artifacts
      BY <1>4, <1>7, <3>1, <3>2, <3>3 DEF At, Finishes
    <3>4. CASE artifacts' = artifacts \cup {Output(program, i)} /\ (Goes(i, "extra") \/ Finishes(i))
      <4>1. exec'[i].pc # "threw" /\ (exec'[i].pc = "extra" \/ run'[i].state = "completed")
        BY <1>4, <1>5, <3>4 DEF Finishes
      <4>2. ASSUME NEW a \in artifacts', a[1] # 0
            PROVE  \/ run'[a[1]].state = "completed"
                   \/ exec'[a[1]].pc = "extra" /\ a = Output(program, a[1])
        <5>1. CASE a \in artifacts
          BY <1>2, <1>6, <3>2, <4>2, <5>1
        <5>2. CASE a = Output(program, i)
          BY <4>1, <5>2, OutputOwner
        <5> QED
          BY <3>4, <5>1, <5>2
      <4> QED
        BY <1>2, <4>1, <4>2 DEF Owned
    <3> QED
      BY <3>1, <3>3, <3>4
  <2>4. CASE WriteExtra(i)
    <3>1. \/ Goes(i, "removing") /\ artifacts' = artifacts \ {Output(program, i)}
          \/ Finishes(i) /\ artifacts' = artifacts \cup Extras(program, i)
      BY <1>1, <2>4 DEF WriteExtra, Throws
    <3>2. exec'[i].pc # "threw"
      BY <1>4, <3>1 DEF Finishes
    <3>3. ASSUME NEW a \in artifacts', a[1] # 0
          PROVE  \/ run'[a[1]].state = "completed"
                 \/ exec'[a[1]].pc = "extra" /\ a = Output(program, a[1])
      <4>1. CASE a[1] # i
        <5>1. a \in artifacts
          BY <3>1, <4>1, OutputOwner
        <5> QED
          BY <1>2, <1>6, <3>3, <4>1, <5>1
      <4>2. CASE a[1] = i /\ Finishes(i)
        BY <1>5, <4>2
      <4>3. CASE a[1] = i /\ artifacts' = artifacts \ {Output(program, i)}
        BY <1>6, <3>3, <4>3
      <4> QED
        BY <3>1, <4>1, <4>2, <4>3
    <3> QED
      BY <1>2, <3>2, <3>3 DEF Owned
  <2>5. CASE Removed(i)
    <3>1. ~At(i, "extra") /\ artifacts' = artifacts /\ Goes(i, "failed")
      BY <1>1, <2>5 DEF Removed, At
    <3> QED
      BY <1>4, <1>7, <3>1
  <2> QED
    BY <2>1, <2>2, <2>3, <2>4, <2>5 DEF Execution
<1> QED
  BY <1>1, <1>2, <1>3, <1>9 DEF LeaveInv, Unthrown, Calm

\* A batch begins when none is at work. What a synthesis adds to the candidates
\* belongs to steps whose memos it has read.
LEMMA DriverLeaves ==
    ASSUME TypeOK, BatchOk, RunsInv, LeaveInv, Settled, [Next]_vars, Driver
    PROVE  LeaveInv'
<1> USE DEF outside, rows, work
<1> SUFFICES ASSUME LeaveCalm' PROVE LeaveInv'
  BY DEF LeaveInv, Unthrown, Owned
<1>1. /\ LeaveCalm /\ Calm({"orphan"}) /\ program' = program /\ Steps' = Steps
      /\ \A i \in Steps : exec[i].pc # "threw"
      /\ Last \in Nat /\ Steps = 1..Last /\ program \in Programs
  BY MishapsGrow, ProgramFacts
     DEF LeaveCalm, Calm, LeaveInv, Unthrown, Steps, TypeOK, Driver, DriverLoop,
         BatchReturns, BatchThrows, AfterLands, AfterThrows
<1>2. ASSUME NEW a \in artifacts, a[1] # 0
      PROVE  /\ a[1] \in Steps
             /\ \/ run[a[1]].state = "completed" /\ run'[a[1]].state = "completed"
                \/ exec[a[1]].pc = "extra" /\ a = Output(program, a[1])
  <2>1. a[1] \in Steps
    BY <1>1, <1>2 DEF TypeOK
  <2> QED
    BY <1>1, <1>2, <2>1 DEF LeaveInv, Owned, Settled
<1>3. ASSUME driver.pc \in {"loop", "after"}
      PROVE  \A a \in artifacts : a[1] # 0 =>
               run[a[1]].state = "completed" /\ run'[a[1]].state = "completed"
  BY <1>1, <1>2, <1>3 DEF RunsInv, Minded, Executing
<1>4. CASE DriverLoop
  <2>1. mishaps' = mishaps /\ artifacts' = artifacts /\ driver.pc = "loop"
    BY <1>4 DEF DriverLoop
  <2>2. \A i \in Steps : exec'[i].pc # "threw"
    <3>1. exec' = exec \/ \E batch : exec' = [i \in Steps |-> IF i \in batch
                   THEN [pc |-> IF Prompted(i) THEN "prompt" ELSE "work", tries |-> 1]
                   ELSE exec[i]]
      BY <1>4 DEF DriverLoop
    <3> QED
      BY <1>1, <3>1
  <2> QED
    BY <1>1, <1>3, <2>1, <2>2 DEF LeaveInv, Unthrown, Owned, Calm
<1>5. CASE BatchReturns
  <2>1. UNCHANGED <<program, exec, artifacts, mishaps>>
    BY <1>5 DEF BatchReturns
  <2> QED
    BY <1>1, <2>1, QuietLeaves DEF Calm
<1>6. CASE BatchThrows
  BY <1>1, <1>6, BatchEnds DEF BatchThrows, BatchOk, TypeOK
<1>7. CASE AfterLands
  <2>1. /\ driver.pc = "after" /\ exec' = exec
        /\ SynthesisInputs(program, driver.batch) \subseteq artifacts
        /\ artifacts' = artifacts \cup SynthesisOutputs(program, driver.batch)
    BY <1>7 DEF AfterLands
  <2>2. mishaps' = mishaps
    BY <1>7 DEF AfterLands, LeaveCalm, Calm
  <2>3. ASSUME NEW a \in SynthesisOutputs(program, driver.batch), a[1] # 0
        PROVE  run'[a[1]].state = "completed"
    <3>1. CASE Role(program, driver.batch) \in {"implementation", "candidate_eval"}
      <4>1. PICK j \in DOMAIN program.steps :
              /\ program.steps[j].role = "implementation"
              /\ program.steps[j].candidate \in Who(program, driver.batch)
              /\ a = <<j, "fusion-candidate">>
        BY <2>3, <3>1 DEF SynthesisOutputs, CandidateWrites, From
      <4>2. <<j, "implementation-memo">> \in SynthesisInputs(program, driver.batch)
        BY <3>1, <4>1 DEF SynthesisInputs, CandidateReads, From
      <4>3. <<j, "implementation-memo">> \in artifacts /\ j = a[1]
        BY <2>1, <4>1, <4>2
      <4> QED
        BY <1>3, <2>1, <2>3, <4>3
    <3>2. CASE Role(program, driver.batch) \notin {"implementation", "candidate_eval"}
      BY <2>3, <3>2 DEF SynthesisOutputs, Plan, Dossier
    <3> QED
      BY <3>1, <3>2
  <2> QED
    BY <1>1, <1>3, <2>1, <2>2, <2>3 DEF LeaveInv, Unthrown, Owned, Calm
<1>8. CASE AfterThrows
  <2>1. /\ driver.pc = "after" /\ UNCHANGED <<exec, artifacts>>
        /\ CaughtBy({}) \/ CaughtBy({"fault"})
    BY <1>8 DEF AfterThrows
  <2>2. Executing = {} /\ "fault" \notin mishaps'
    BY <1>1, <2>1 DEF RunsInv, Minded, LeaveCalm, Calm
  <2>3. mishaps' = mishaps
    BY <2>1, <2>2 DEF CaughtBy
  <2> QED
    BY <1>1, <2>1, <2>3, QuietLeaves DEF Calm
<1> QED
  BY <1>4, <1>5, <1>6, <1>7, <1>8 DEF Driver

LEMMA LeaveStep ==
    ASSUME TypeOK, BatchOk, RunsInv, LeaveInv, Settled, [Next]_vars
    PROVE  LeaveInv'
<1> USE DEF outside, rows, work
<1>1. ASSUME UNCHANGED <<program, exec>>, artifacts' \subseteq artifacts,
             mishaps' \subseteq mishaps \cup {"overlap", "fault"}
      PROVE  LeaveInv'
  <2>1. LeaveCalm' => Calm({"orphan"})'
    BY <1>1, MishapsGrow DEF LeaveInv, Unthrown, LeaveCalm, Calm
  <2> QED
    BY <1>1, <2>1, QuietLeaves
<1>2. ASSUME Halted PROVE LeaveInv'
  BY <1>2 DEF Halted, LeaveInv, Unthrown, Owned, LeaveCalm, Calm
<1>3. CASE Driver
  BY <1>3, DriverLeaves
<1>4. CASE Approve
  BY <1>1, <1>4 DEF Approve
<1>5. CASE Prune
  <2>1. artifacts' \subseteq artifacts /\ UNCHANGED <<program, exec, mishaps>>
    BY <1>5 DEF Prune
  <2> QED
    BY <1>1, <2>1
<1>6. CASE Crash \/ CrashLaunching \/ \E i \in Steps : CrashSpawning(i)
  BY <1>2, <1>6 DEF Crash, CrashLaunching, CrashSpawning
<1>7. CASE Recovery
  <2>1. /\ UNCHANGED <<program, exec, artifacts>>
        /\ mishaps' = mishaps \/ mishaps' = mishaps \cup {"fault"}
    BY <1>7 DEF Recovery, Restart, RecoverRun, RecoveryEnds, NoFault, Fault
  <2> QED
    BY <1>1, <2>1
<1>8. ASSUME NEW i \in Steps, Execution(i) PROVE LeaveInv'
  BY <1>8, ExecutionLeaves
<1>9. ASSUME NEW i \in Steps, ProcEnds(i) PROVE LeaveInv'
  BY <1>1, <1>9 DEF ProcEnds
<1>10. ASSUME NEW c \in Cancels, CancelCall(c) PROVE LeaveInv'
  BY <1>1, <1>10 DEF CancelCall
<1>11. ASSUME NEW c \in Cancels, Cancel(c) PROVE LeaveInv'
  <2>1. UNCHANGED <<program, exec, artifacts>>
    BY <1>11 DEF Cancel, CancelSeesQuiet, CancelGivesUp, CancelEnds, StopReturns
  <2>2. mishaps' \subseteq mishaps \cup {"overlap", "fault"}
    BY <1>11 DEF Cancel, CancelSeesQuiet, CancelGivesUp, CancelEnds, StopReturns, NoFault, Fault
  <2> QED
    BY <1>1, <2>1, <2>2
<1>12. CASE UNCHANGED vars
  BY <1>1, <1>12 DEF vars
<1> QED
  BY <1>3, <1>4, <1>5, <1>6, <1>7, <1>8, <1>9, <1>10, <1>11, <1>12 DEF Next

\* Of the artifacts of a cancelled campaign those of completed steps are left
\* and no others, whenever the cancellation came between the writes of a step
\* or of a synthesis.
THEOREM CancelledIsClean == Spec => []CancelledLeavesNothing
<1>1. Init => BatchOk
  BY DEF Init, BatchOk, NoDriver
<1>2. TypeOK /\ BatchOk /\ LifeInv /\ RunsInv /\ ParkInv /\ LeaveInv /\ [Next]_vars =>
        RunsInv' /\ LifeInv' /\ ParkInv' /\ LeaveInv'
  BY RunsStep, LifeStep, ParkStep, LeaveStep DEF LifeInv
<1>3. TypeOK /\ ParkInv /\ LeaveInv => CancelledLeavesNothing
  <2> SUFFICES ASSUME TypeOK, ParkInv, LeaveInv, LeaveCalm, campaign.state = "cancelled",
                      NEW a \in artifacts, a[1] # 0
               PROVE  run[a[1]].state = "completed"
    BY DEF CancelledLeavesNothing, LeaveCalm
  <2>1. ParkedCalm
    BY DEF LeaveInv, Unthrown, LeaveCalm, ParkedCalm, Calm
  <2>2. Executing = {}
    BY <2>1 DEF ParkInv, Still, Over, Ended
  <2>3. a[1] \in Steps
    BY ProgramFacts DEF TypeOK
  <2> QED
    BY <2>2, <2>3 DEF LeaveInv, Owned, Executing
<1> QED
  BY <1>1, <1>2, <1>3, LifeInit, RunsInit, ParkInit, LeaveInit, BatchOkStep, TypeCorrect, PTL DEF Spec

-----------------------------------------------------------------------------
(* What the steps of a campaign find.                                      *)

AllSupplied == \A p \in Programs : Supplied(p)

StaleCalm == Calm({"stale"})

Open == campaign.state \in {"running", "waiting_approval"}

\* Once a batch has left others at work the campaign is over.
Orphaned == StaleCalm /\ ~Calm({"orphan"}) => driver.pc = "idle" /\ ~Open

\* The batch whose completion is under way
AfterBatch ==
    driver.pc = "after" =>
      \E at \in Steps : /\ driver.batch = Batch(program, at) /\ at <= driver.at
                        /\ Synthesises(program, at)

\* What steps have written is kept as long as the campaign goes on ...
Stored ==
    /\ Bundle \in artifacts
    /\ \A j \in Steps : /\ run[j].state = "completed" => Left(program, j) \subseteq artifacts
                        /\ exec[j].pc = "extra" => Output(program, j) \in artifacts

\* ... and so is what was synthesized for the steps whose batch is completed.
Passed(j) ==
    \/ driver.pc # "idle" /\ j < driver.at /\ (driver.pc = "after" => j \notin driver.batch)
    \/ campaign.state = "waiting_approval" /\ j < campaign.index

Joined == \A j \in Steps : Passed(j) => SynthesizedFor(program, j) \subseteq artifacts

StockInv == Orphaned /\ (StaleCalm /\ Open => AfterBatch /\ Stored /\ Joined)

LEMMA StockInit == Init => StockInv
<1> SUFFICES ASSUME Init PROVE StockInv
  OBVIOUS
<1>1. Last \in Nat /\ Steps = 1..Last
  BY ProgramFacts DEF Init
<1>2. Stored
  BY <1>1 DEF Init, Stored, Idle
<1>3. Joined
  BY <1>1 DEF Init, Joined, Passed, NoDriver
<1> QED
  BY <1>2, <1>3 DEF Init, StockInv, Orphaned, AfterBatch, Calm, NoDriver

\* What happens in a campaign that goes on happened in one that did.
LEMMA OpenBefore ==
    ASSUME TypeOK, RunsInv, ParkInv, Orphaned, [Next]_vars, StaleCalm', Open'
    PROVE  StaleCalm /\ Open /\ Calm({"orphan"})
<1> USE DEF outside, rows, work
<1>1. StaleCalm
  BY MishapsGrow DEF StaleCalm, Calm
<1>2. ASSUME campaign' = campaign PROVE Open
  BY <1>2 DEF Open
<1>3. ASSUME driver.pc = "loop", driver.at <= Last, ~Cancelling PROVE Open
  <2>1. ParkedCalm
    BY <1>1, <1>3 DEF Orphaned, ParkedCalm, StaleCalm, Calm
  <2>2. driver.at \in Int /\ Last \in Int
    BY ProgramFacts DEF TypeOK
  <2> QED
    BY <1>3, <2>1, <2>2 DEF ParkInv, Engaged, Cancelling, Open
<1>4. \A state \in {"failed", "cancelled", "cancelling", "recovery_required"} :
         campaign'.state # state
  BY DEF Open
<1>5. ASSUME FinalizeCancellation \/ FinalizeFailure PROVE Open
  BY <1>2, <1>4, <1>5 DEF FinalizeCancellation, FinalizeFailure, TypeOK
<1>6. ASSUME Driver PROVE Open
  <2>1. CASE DriverLoop
    <3>1. campaign' = campaign \/ (driver.at <= Last /\ ~Cancelling)
      BY <2>1, ProgramFacts DEF DriverLoop, TypeOK
    <3> QED
      BY <1>2, <1>3, <2>1, <3>1 DEF DriverLoop
  <2>2. CASE BatchReturns
    <3>1. campaign.state \in {"running", "cancelling", "cancelled"}
      BY <2>2 DEF BatchReturns, RunsInv, Driven
    <3>2. Cancelling => campaign' = campaign
      BY <2>2 DEF BatchReturns
    <3> QED
      BY <1>2, <3>1, <3>2 DEF Cancelling, Open
  <2>3. CASE BatchThrows \/ AfterThrows
    <3>1. \E others : CaughtBy(others)
      BY <2>3 DEF BatchThrows, AfterThrows
    <3> QED
      BY <1>2, <1>5, <3>1 DEF CaughtBy
  <2>4. CASE AfterLands
    BY <2>4 DEF AfterLands, StaleCalm, Calm, Open
  <2> QED
    BY <1>6, <2>1, <2>2, <2>3, <2>4 DEF Driver
<1>7. ASSUME Approve PROVE Open
  BY <1>7 DEF Approve, ResumeApproval, Open
<1>8. ASSUME CrashLaunching PROVE Open
  BY <1>3, <1>8 DEF CrashLaunching
<1>9. ASSUME Recovery PROVE Open
  <2>1. CASE campaign' = [campaign EXCEPT !.state = "recovery_required", !.fence = FALSE]
    BY <1>4, <2>1 DEF TypeOK
  <2> QED
    BY <1>2, <1>5, <1>9, <2>1 DEF Recovery, Restart, RecoverRun, RecoveryEnds
<1>10. ASSUME NEW c \in Cancels, CancelCall(c) PROVE Open
  BY <1>2, <1>4, <1>10 DEF CancelCall, BeginCancellation, TypeOK
<1>11. ASSUME NEW c \in Cancels, Cancel(c) PROVE Open
  <2>1. CASE campaign' = [campaign EXCEPT !.state = "cancelling", !.fence = TRUE]
    BY <1>4, <2>1 DEF TypeOK
  <2> QED
    BY <1>2, <1>5, <1>11, <2>1
       DEF Cancel, CancelSeesQuiet, CancelGivesUp, StopReturns, CancelEnds
<1>12. ASSUME Prune \/ Crash \/ (\E i \in Steps : Execution(i) \/ ProcEnds(i) \/ CrashSpawning(i))
              \/ UNCHANGED vars
       PROVE  Open
  <2>1. campaign' = campaign
    BY <1>12, ExecutionMoves DEF Prune, Crash, ProcEnds, CrashSpawning, vars
  <2> QED
    BY <1>2, <2>1
<1>13. Open
  BY <1>6, <1>7, <1>8, <1>9, <1>10, <1>11, <1>12 DEF Next
<1> QED
  BY <1>1, <1>13 DEF Orphaned

LEMMA OrphanedStep ==
    ASSUME TypeOK, RunsInv, ParkInv, Orphaned, [Next]_vars
    PROVE  Orphaned'
<1> USE DEF outside, rows, work
<1> SUFFICES ASSUME StaleCalm', ~Calm({"orphan"})' PROVE driver'.pc = "idle" /\ ~Open'
  BY DEF Orphaned
<1>1. ~Open' \/ Calm({"orphan"})
  BY OpenBefore
<1>2. StaleCalm
  BY MishapsGrow DEF StaleCalm, Calm
<1>3. CASE Calm({"orphan"})
  <2>1. "orphan" \in mishaps' /\ "orphan" \notin mishaps
    BY <1>3 DEF Calm
  <2>2. CASE BatchThrows \/ AfterThrows
    <3>1. PICK others \in {{}, {"fault"}} : CaughtBy(others)
      BY <2>2 DEF BatchThrows, AfterThrows
    <3>2. ~Cancelling /\ FinalizeFailure /\ Rest
      BY <2>1, <3>1 DEF CaughtBy
    <3>3. driver'.pc = "idle"
      BY <3>2 DEF Rest, Drive, TypeOK
    <3>4. ~Open'
      <4>1. \/ campaign.state \notin {"running", "waiting_approval"} /\ campaign' = campaign
            \/ campaign' = [campaign EXCEPT !.state = "failed", !.fence = FALSE]
        BY <3>2 DEF FinalizeFailure, Ended
      <4> QED
        BY <4>1 DEF Open, TypeOK
    <3> QED
      BY <3>3, <3>4
  <2>3. CASE DriverLoop \/ BatchReturns \/ AfterLands \/ Approve \/ Prune \/ UNCHANGED vars
    BY <2>1, <2>3 DEF DriverLoop, BatchReturns, AfterLands, Approve, Prune, vars
  <2>4. CASE Crash \/ CrashLaunching \/ Recovery \/ \E i \in Steps : CrashSpawning(i)
    BY <2>1, <2>4 DEF Crash, CrashLaunching, CrashSpawning, Halted, Recovery, Restart,
                      RecoverRun, RecoveryEnds, NoFault, Fault
  <2>5. ASSUME NEW i \in Steps, Execution(i) \/ ProcEnds(i) PROVE FALSE
    BY <2>1, <2>5 DEF Execution, Launch, WorkReturns, WriteArtifact, WriteExtra, Removed,
                      Throws, NoFault, Fault, ProcEnds
  <2>6. ASSUME NEW c \in Cancels, CancelCall(c) \/ Cancel(c) PROVE FALSE
    <3>1. CASE CancelEnds(c)
      BY <2>1, <3>1 DEF CancelEnds
    <3> QED
      <4>1. mishaps' = mishaps \/ mishaps' = mishaps \cup {"fault"}
        BY <2>6, <3>1 DEF CancelCall, Cancel, CancelSeesQuiet, CancelGivesUp, StopReturns,
                          NoFault, Fault
      <4> QED
        BY <2>1, <4>1
  <2> QED
    BY <2>2, <2>3, <2>4, <2>5, <2>6 DEF Next, Driver
<1>4. CASE ~Calm({"orphan"})
  <2>1. driver.pc = "idle" /\ ~Open
    BY <1>2, <1>4 DEF Orphaned
  <2>2. ~Driver /\ ~Approve /\ ~CrashLaunching
    BY <2>1 DEF Driver, DriverLoop, BatchReturns, BatchThrows, AfterLands, AfterThrows,
                Approve, ResumeApproval, CrashLaunching, Open
  <2>3. driver' = driver \/ driver' = NoDriver
    BY <2>2, ExecutionMoves DEF Next, Prune, Crash, CrashSpawning, Halted, Recovery, Restart,
       RecoverRun, RecoveryEnds, ProcEnds, CancelCall, Cancel, CancelSeesQuiet,
       CancelGivesUp, StopReturns, CancelEnds, vars
  <2> QED
    BY <1>1, <1>4, <2>1, <2>3 DEF NoDriver
<1> QED
  BY <1>3, <1>4

\* Nothing is lost of a campaign that goes on: artifacts expire when it has
\* ended, and executions remove theirs when it is being cancelled.
LEMMA ArtifactsKept ==
    ASSUME Open, [Next]_vars
    PROVE  artifacts \subseteq artifacts'
<1> USE DEF outside, rows, work
<1>1. ~Cancelling /\ ~Prunable
  BY DEF Open, Cancelling, Prunable, Ended
<1>2. CASE Driver
  BY <1>2 DEF Driver, DriverLoop, BatchReturns, BatchThrows, AfterLands, AfterThrows
<1>3. ASSUME NEW i \in Steps, Execution(i) PROVE artifacts \subseteq artifacts'
  BY <1>1, <1>3 DEF Execution, Launch, WorkReturns, WriteArtifact, WriteExtra, Removed, Throws
<1>4. CASE Approve \/ Prune
  BY <1>1, <1>4 DEF Approve, Prune
<1>5. CASE Crash \/ CrashLaunching \/ \E i \in Steps : CrashSpawning(i)
  BY <1>5 DEF Crash, CrashLaunching, CrashSpawning, Halted
<1>6. CASE Recovery
  BY <1>6 DEF Recovery, Restart, RecoverRun, RecoveryEnds
<1>7. ASSUME NEW i \in Steps, ProcEnds(i) PROVE artifacts \subseteq artifacts'
  BY <1>7 DEF ProcEnds
<1>8. ASSUME NEW c \in Cancels, CancelCall(c) \/ Cancel(c) PROVE artifacts \subseteq artifacts'
  BY <1>8 DEF CancelCall, Cancel, CancelSeesQuiet, CancelGivesUp, StopReturns, CancelEnds
<1>9. CASE UNCHANGED vars
  BY <1>9 DEF vars
<1> QED
  BY <1>2, <1>3, <1>4, <1>5, <1>6, <1>7, <1>8, <1>9 DEF Next

\* An execution completes its run when all it writes is written.
LEMMA ExecutionStores ==
    ASSUME TypeOK, Open, Stored, NEW i \in Steps, Execution(i)
    PROVE  /\ run'[i].state = "completed" =>
                run[i].state = "completed" \/ Left(program, i) \subseteq artifacts'
           /\ exec'[i].pc = "extra" => Output(program, i) \in artifacts'
<1>1. /\ run \in RunType /\ exec \in ExecType /\ run[i] \in [state : RunStates, pid : BOOLEAN]
  BY DEF TypeOK
<1>2. ~Cancelling
  BY DEF Open, Cancelling
<1>3. ASSUME NEW pc, Goes(i, pc)
      PROVE  exec'[i].pc = pc
  BY <1>1, <1>3 DEF Goes
<1>4. ASSUME NEW state \in {"failed", "cancelled"}, SettleRun(i, state)
      PROVE  run'[i].state = "completed" => run[i].state = "completed"
  BY <1>1, <1>4 DEF SettleRun
<1> DEFINE Stores == /\ run'[i].state = "completed" =>
                          run[i].state = "completed" \/ Left(program, i) \subseteq artifacts'
                     /\ exec'[i].pc = "extra" => Output(program, i) \in artifacts'
<1>5. StepFails(i) => Stores
  BY <1>3, <1>4 DEF StepFails
<1>6. AttemptFails(i) => Stores
  <2> SUFFICES ASSUME AttemptFails(i), ~StepFails(i) PROVE Stores
    BY <1>5
  <2>1. /\ exec' = [exec EXCEPT ![i] = [pc |-> IF Prompted(i) THEN "prompt" ELSE "work",
                                        tries |-> @.tries + 1]]
        /\ run' = [run EXCEPT ![i] = [state |-> "running", pid |-> IsCommand(i) /\ ~Prompted(i)]]
    BY DEF AttemptFails
  <2>2. exec'[i].pc # "extra" /\ run'[i].state = "running"
    BY <1>1, <2>1
  <2> QED
    BY <2>2
<1>7. ASSUME NEW pc, pc # "extra", Goes(i, pc), run'[i].state = run[i].state PROVE Stores
  BY <1>3, <1>7
<1>8. CASE Launch(i)
  <2>1. run' = [run EXCEPT ![i].pid = IsCommand(i)] => run'[i].state = run[i].state
    BY <1>1
  <2> QED
    BY <1>6, <1>7, <1>8, <2>1 DEF Launch
<1>9. CASE WorkReturns(i)
  BY <1>5, <1>6, <1>7, <1>9 DEF WorkReturns
<1>10. CASE WriteArtifact(i)
  <2>1. CASE Throws(i)
    BY <1>7, <2>1 DEF Throws
  <2>2. CASE ~Throws(i)
    <3>1. /\ artifacts' = artifacts \cup {Output(program, i)}
          /\ \/ Goes(i, "extra") /\ run' = run
             \/ Finishes(i) /\ Extras(program, i) = {}
      BY <1>2, <1>10, <2>2 DEF WriteArtifact
    <3>2. CASE Goes(i, "extra") /\ run' = run
      BY <3>1, <3>2
    <3>3. CASE Finishes(i) /\ Extras(program, i) = {}
      BY <1>3, <3>1, <3>3 DEF Finishes, Left
    <3> QED
      BY <3>1, <3>2, <3>3
  <2> QED
    BY <2>1, <2>2
<1>11. CASE WriteExtra(i)
  <2>1. CASE Throws(i)
    BY <1>7, <2>1 DEF Throws
  <2>2. CASE ~Throws(i)
    <3>1. artifacts' = artifacts \cup Extras(program, i) /\ Finishes(i)
      BY <1>2, <1>11, <2>2 DEF WriteExtra
    <3>2. Output(program, i) \in artifacts
      BY <1>11 DEF WriteExtra, At, Stored
    <3> QED
      BY <1>3, <3>1, <3>2 DEF Finishes, Left
  <2> QED
    BY <2>1, <2>2
<1>12. CASE Removed(i)
  <2>1. SettleRun(i, "cancelled") /\ Goes(i, "failed") => Stores
    BY <1>3, <1>4
  <2> QED
    BY <1>7, <1>12, <2>1 DEF Removed
<1> QED
  BY <1>8, <1>9, <1>10, <1>11, <1>12 DEF Execution

\* Nobody but an execution completes a run or begins to write its artifacts.
LEMMA StoredStep ==
    ASSUME TypeOK, Open, Stored, [Next]_vars
    PROVE  Stored'
<1> USE DEF outside, rows, work
<1>1. artifacts \subseteq artifacts'
  BY ArtifactsKept
<1>2. ASSUME program' = program,
             \A j \in Steps : /\ run'[j].state = "completed" => run[j].state = "completed"
                              /\ exec'[j].pc = "extra" => exec[j].pc = "extra"
      PROVE  Stored'
  BY <1>1, <1>2 DEF Stored, Steps
<1>3. ASSUME UNCHANGED <<program, exec>>,
             UNCHANGED run \/ \E state \in {"failed", "cancelled"} : SettleRuns(state)
      PROVE  Stored'
  BY <1>2, <1>3, SettledMove DEF RunsMove
<1>4. ASSUME NEW i \in Steps, Execution(i) PROVE Stored'
  <2>1. /\ program' = program /\ Steps' = Steps
        /\ \A j \in Steps : j # i => run'[j] = run[j] /\ exec'[j] = exec[j]
    BY <1>4, ExecutionMoves DEF Steps
  <2>2. /\ run'[i].state = "completed" =>
             run[i].state = "completed" \/ Left(program, i) \subseteq artifacts'
        /\ exec'[i].pc = "extra" => Output(program, i) \in artifacts'
    BY <1>4, ExecutionStores
  <2>3. ASSUME NEW j \in Steps
        PROVE  /\ run'[j].state = "completed" => Left(program, j) \subseteq artifacts'
               /\ exec'[j].pc = "extra" => Output(program, j) \in artifacts'
    BY <1>1, <2>1, <2>2 DEF Stored
  <2> QED
    BY <1>1, <2>1, <2>3 DEF Stored
<1>5. ASSUME NEW batch, NEW recorded, Begin(batch, recorded)
      PROVE  \A j \in Steps : run'[j].state = "completed" => run[j].state = "completed"
  BY <1>5 DEF Begin
<1>6. CASE Driver
  <2>1. program' = program
    BY <1>6 DEF Driver, DriverLoop, BatchReturns, BatchThrows, AfterLands, AfterThrows
  <2>2. CASE DriverLoop
    <3>1. CASE UNCHANGED <<run, exec>>
      BY <1>2, <2>1, <3>1
    <3>2. CASE ~UNCHANGED <<run, exec>>
      <4>1. PICK batch : /\ Begin(batch, batch)
                         /\ exec' = [i \in Steps |-> IF i \in batch
                              THEN [pc |-> IF Prompted(i) THEN "prompt" ELSE "work", tries |-> 1]
                              ELSE exec[i]]
        BY <2>2, <3>2 DEF DriverLoop
      <4>2. \A j \in Steps : exec'[j].pc = "extra" => exec[j].pc = "extra"
        BY <4>1
      <4> QED
        BY <1>2, <1>5, <2>1, <4>1, <4>2
    <3> QED
      BY <3>1, <3>2
  <2>3. CASE BatchReturns \/ AfterLands
    BY <1>3, <2>1, <2>3 DEF BatchReturns, AfterLands
  <2>4. CASE BatchThrows \/ AfterThrows
    BY <1>3, <2>1, <2>4 DEF BatchThrows, AfterThrows, CaughtBy, FinalizeFailure
  <2> QED
    BY <1>6, <2>2, <2>3, <2>4 DEF Driver
<1>7. CASE Approve \/ Prune
  BY <1>3, <1>7 DEF Approve, Prune
<1>8. CASE Crash \/ CrashLaunching \/ \E i \in Steps : CrashSpawning(i)
  <2>1. program' = program /\ \A j \in Steps : exec'[j].pc # "extra"
    BY <1>8 DEF Crash, CrashLaunching, CrashSpawning, Halted, Idle
  <2>2. \A j \in Steps : run'[j].state = "completed" => run[j].state = "completed"
    <3>1. CASE Crash
      BY <3>1 DEF Crash
    <3>2. CASE CrashLaunching
      BY <1>5, <3>2 DEF CrashLaunching
    <3>3. ASSUME NEW i \in Steps, CrashSpawning(i), NEW j \in Steps
          PROVE  run'[j].state = "completed" => run[j].state = "completed"
      <4>1. \/ run' = run
            \/ run' = [run EXCEPT ![i] = [state |-> "running", pid |-> FALSE]]
        BY <3>3 DEF CrashSpawning
      <4>2. run \in RunType
        BY DEF TypeOK
      <4> QED
        BY <4>1, <4>2
    <3> QED
      BY <1>8, <3>1, <3>2, <3>3
  <2> QED
    BY <1>2, <2>1, <2>2
<1>9. CASE Recovery
  BY <1>3, <1>9 DEF Recovery, Restart, RecoverRun, RecoveryEnds, FinalizeCancellation,
                    FinalizeFailure
<1>10. ASSUME NEW i \in Steps, ProcEnds(i) PROVE Stored'
  BY <1>3, <1>10 DEF ProcEnds
<1>11. ASSUME NEW c \in Cancels, CancelCall(c) \/ Cancel(c) PROVE Stored'
  BY <1>3, <1>11 DEF CancelCall, Cancel, CancelSeesQuiet, CancelGivesUp, StopReturns,
                     CancelEnds, FinalizeCancellation
<1>12. CASE UNCHANGED vars
  BY <1>3, <1>12 DEF vars
<1> QED
  BY <1>4, <1>6, <1>7, <1>8, <1>9, <1>10, <1>11, <1>12 DEF Next

\* A driver that stays where it is, or comes to rest, has passed nothing.
LEMMA SteadyJoined ==
    ASSUME Open, [Next]_vars, program' = program, AfterBatch, Joined,
           driver' = driver \/ driver'.pc = "idle",
           campaign' = campaign \/ campaign'.state # "waiting_approval"
    PROVE  AfterBatch' /\ Joined'
<1>1. AfterBatch'
  BY DEF AfterBatch, Steps
<1>2. \A j \in Steps : Passed(j)' => Passed(j)
  BY DEF Passed
<1> QED
  BY <1>1, <1>2, ArtifactsKept DEF Joined, Steps

\* The steps of a batch have one role, and that decides what is synthesized.
LEMMA BatchRole ==
    ASSUME AllSupplied, program \in Programs, NEW at \in Steps
    PROVE  LET batch == Batch(program, at) IN
           /\ \A i \in batch : i \in Steps /\ program.steps[i].role = program.steps[at].role
           /\ Role(program, batch) = program.steps[at].role
<1> DEFINE batch == Batch(program, at)
<1>1. at \in 1..Last /\ at \in DOMAIN program.steps
  BY ProgramFacts DEF Steps
<1>2. batch \in SUBSET Steps /\ at \in batch
  BY <1>1, BatchEnds
<1>3. \A i \in batch : program.steps[i].role = program.steps[at].role
  BY <1>1 DEF AllSupplied, Supplied
<1> HIDE DEF batch
<1>4. (CHOOSE i \in batch : TRUE) \in batch
  BY <1>2
<1> QED
  BY <1>2, <1>3, <1>4 DEF Role, batch

LEMMA BatchSynthesis ==
    ASSUME AllSupplied, program \in Programs, NEW at \in Steps, NEW j \in Batch(program, at)
    PROVE  /\ SynthesizedFor(program, j) \subseteq SynthesisOutputs(program, Batch(program, at))
           /\ ~Synthesises(program, at) => SynthesizedFor(program, j) = {}
<1> DEFINE batch == Batch(program, at)
           role == program.steps[j].role
<1>1. /\ j \in Steps /\ j \in batch
      /\ role = program.steps[at].role /\ Role(program, batch) = role
  BY BatchRole
<1>2. j \in DOMAIN program.steps /\ program.steps[j].candidate \in Who(program, batch)
  BY <1>1 DEF Steps, Who
<1> HIDE DEF batch
<1>3. SynthesizedFor(program, j) \subseteq SynthesisOutputs(program, batch)
  <2>1. CASE role = "planning" \/ role = "peer_review"
    BY <1>1, <2>1 DEF SynthesizedFor, SynthesisOutputs
  <2>2. CASE role = "implementation"
    <3>1. <<j, "fusion-candidate">> \in CandidateWrites(program, Who(program, batch))
      BY <1>2, <2>2 DEF CandidateWrites, From
    <3> QED
      BY <1>1, <2>2, <3>1 DEF SynthesizedFor, SynthesisOutputs
  <2>3. CASE role \notin {"planning", "peer_review", "implementation"}
    BY <2>3 DEF SynthesizedFor
  <2> QED
    BY <2>1, <2>2, <2>3
<1>4. ~Synthesises(program, at) => SynthesizedFor(program, j) = {}
  BY <1>1 DEF Synthesises, SynthesizedFor
<1> QED
  BY <1>3, <1>4 DEF batch

LEMMA LoopJoined ==
    ASSUME TypeOK, Open, AfterBatch, Joined, DriverLoop
    PROVE  AfterBatch' /\ Joined'
<1> USE DEF outside
<1>1. driver.pc = "loop" /\ UNCHANGED <<program, artifacts>> /\ Steps' = Steps
  BY DEF DriverLoop, Steps
<1>2. /\ driver'.pc # "after"
      /\ driver'.pc # "idle" => driver'.at = driver.at
      /\ campaign'.state = "waiting_approval" =>
           campaign' = campaign \/ campaign'.index = driver.at
  BY DEF DriverLoop, Rest, Drive, Begin, TypeOK
<1>3. \A j \in Steps : Passed(j)' => Passed(j)
  BY <1>1, <1>2 DEF Passed
<1> QED
  BY <1>1, <1>2, <1>3 DEF AfterBatch, Joined

LEMMA ReturnsJoined ==
    ASSUME TypeOK, BatchOk, AllSupplied, Open, Open', AfterBatch, Joined, BatchReturns
    PROVE  AfterBatch' /\ Joined'
<1> USE DEF outside
<1>1. /\ driver.pc = "batch" /\ UNCHANGED <<program, artifacts>> /\ Steps' = Steps
      /\ program \in Programs /\ Last \in Nat /\ Steps = 1..Last
      /\ driver.at \in Steps /\ driver.batch = Batch(program, driver.at)
      /\ Cardinality(driver.batch) \in Nat
  <2>1. driver.pc = "batch" /\ UNCHANGED <<program, artifacts>> /\ Steps' = Steps
    BY DEF BatchReturns, Steps
  <2>2. program \in Programs /\ Last \in Nat /\ Steps = 1..Last
    BY ProgramFacts DEF TypeOK
  <2>3. driver.at \in Steps /\ driver.batch = Batch(program, driver.at)
    BY <2>1, <2>2 DEF BatchOk, TypeOK
  <2> QED
    BY <2>1, <2>2, <2>3, BatchEnds
<1>2. ~Cancelling
  BY DEF Open, Cancelling
<1>3. ~BatchFailed
  <2> SUFFICES ASSUME BatchFailed PROVE FALSE
    OBVIOUS
  <2>1. FailCampaign
    BY <1>2 DEF BatchReturns
  <2> QED
    BY <2>1 DEF FailCampaign, Open, TypeOK
<1> DEFINE next == NextIndex(driver.batch)
<1>4. campaign' = [campaign EXCEPT !.index = next,
                     !.state = IF next > Last THEN "completed" ELSE "running"]
  BY <1>2, <1>3 DEF BatchReturns, CompleteStep, Open, Ended
<1>5. campaign'.state # "waiting_approval" /\ campaign'.index = next
  BY <1>4 DEF TypeOK
<1>6. \/ Synthesises(program, driver.at) /\ Drive("after", next, driver.batch)
      \/ ~Synthesises(program, driver.at) /\ Drive("loop", next, {})
  BY <1>2, <1>3, <1>5 DEF BatchReturns
<1>7. ASSUME NEW j \in Steps, j < next
      PROVE  Passed(j) \/ j \in driver.batch
  <2>1. driver.at \in 1..Last /\ driver.at <= j => j \in driver.batch
    BY <1>1, <1>7, BatchFills DEF NextIndex
  <2> QED
    BY <1>1, <2>1 DEF Passed
<1>8. driver.at <= next
  BY <1>1 DEF NextIndex
<1> HIDE DEF next
<1>9. CASE Synthesises(program, driver.at) /\ Drive("after", next, driver.batch)
  <2>1. driver'.pc = "after" /\ driver'.at = next /\ driver'.batch = driver.batch
    BY <1>9 DEF Drive, TypeOK
  <2>2. AfterBatch'
    BY <1>1, <1>8, <1>9, <2>1 DEF AfterBatch
  <2> QED
    BY <1>1, <1>5, <1>7, <2>1, <2>2 DEF Joined, Passed
<1>10. CASE ~Synthesises(program, driver.at) /\ Drive("loop", next, {})
  <2>1. driver'.pc = "loop" /\ driver'.at = next
    BY <1>10 DEF Drive, TypeOK
  <2>2. \A j \in driver.batch : SynthesizedFor(program, j) = {}
    BY <1>1, <1>10, BatchSynthesis
  <2>3. \A j \in Steps : Passed(j)' => Passed(j) \/ j \in driver.batch
    BY <1>5, <1>7, <2>1 DEF Passed
  <2> QED
    BY <1>1, <2>1, <2>2, <2>3 DEF AfterBatch, Joined
<1> QED
  BY <1>6, <1>9, <1>10

LEMMA LandsJoined ==
    ASSUME TypeOK, BatchBehind, AllArranged, AllSupplied, AfterBatch, Joined, AfterLands
    PROVE  AfterBatch' /\ Joined'
<1> USE DEF outside
<1>1. /\ driver.pc = "after" /\ program' = program /\ Steps' = Steps
      /\ artifacts' = artifacts \cup SynthesisOutputs(program, driver.batch)
      /\ program \in Programs /\ Last \in Nat /\ Steps = 1..Last /\ driver.at \in Int
  BY ProgramFacts DEF AfterLands, Steps, TypeOK
<1>2. PICK status \in IntegrationReports :
         LET next == IF \E i \in driver.batch : IsGit(i)
                       THEN PastMerge(program, driver.at, status) ELSE driver.at IN
         /\ campaign' = [state |-> IF next > Last THEN "completed" ELSE "running",
                         index |-> next, fence |-> FALSE]
         /\ Drive("loop", next, {})
  BY DEF AfterLands
<1> DEFINE next == IF \E i \in driver.batch : IsGit(i)
                     THEN PastMerge(program, driver.at, status) ELSE driver.at
<1>3. campaign'.state # "waiting_approval" /\ driver'.pc = "loop" /\ driver'.at = next
  BY <1>2 DEF Drive, TypeOK
<1>4. PICK at \in Steps : driver.batch = Batch(program, at)
  BY <1>1 DEF AfterBatch
<1>5. ASSUME NEW j \in Steps, j < next
      PROVE  SynthesizedFor(program, j) \subseteq artifacts'
  <2>1. CASE driver.at <= j
    <3>1. program.steps[j].role = "merge"
      BY <1>1, <1>5, <2>1, SkipsMerges
    <3> QED
      BY <3>1 DEF SynthesizedFor
  <2>2. CASE j \in driver.batch
    BY <1>1, <1>4, <2>2, BatchSynthesis
  <2>3. CASE j < driver.at /\ j \notin driver.batch
    BY <1>1, <2>3 DEF Joined, Passed
  <2> QED
    BY <1>1, <2>1, <2>2, <2>3
<1> HIDE DEF next
<1> QED
  BY <1>1, <1>3, <1>5 DEF AfterBatch, Joined, Passed

LEMMA StockStep ==
    ASSUME TypeOK, BatchOk, RunsInv, ParkInv, OrderInv, StockInv, AllArranged, AllSupplied,
           [Next]_vars
    PROVE  StockInv'
<1> USE DEF outside, rows, work
<1>1. Orphaned'
  BY OrphanedStep DEF StockInv
<1> SUFFICES ASSUME StaleCalm', Open' PROVE AfterBatch' /\ Stored' /\ Joined'
  BY <1>1 DEF StockInv
<1>2. Open /\ AfterBatch /\ Stored /\ Joined
  BY OpenBefore DEF StockInv
<1>3. Stored'
  BY <1>2, StoredStep
<1>4. ASSUME program' = program, driver' = driver \/ driver'.pc = "idle",
             campaign' = campaign \/ campaign'.state # "waiting_approval"
      PROVE  AfterBatch' /\ Joined'
  BY <1>2, <1>4, SteadyJoined
<1>5. ASSUME FinalizeCancellation \/ FinalizeFailure
      PROVE  campaign' = campaign \/ campaign'.state # "waiting_approval"
  BY <1>5 DEF FinalizeCancellation, FinalizeFailure, TypeOK
<1>6. ASSUME Driver PROVE AfterBatch' /\ Joined'
  <2>1. CASE BatchThrows \/ AfterThrows
    <3>1. program' = program /\ \E others : CaughtBy(others)
      BY <2>1 DEF BatchThrows, AfterThrows
    <3>2. driver'.pc = "idle"
      BY <3>1 DEF CaughtBy, Rest, Drive, TypeOK
    <3> QED
      BY <1>4, <1>5, <3>1, <3>2 DEF CaughtBy
  <2> QED
    BY <1>2, <1>6, <2>1, LoopJoined, ReturnsJoined, LandsJoined DEF Driver, OrderInv
<1>7. ASSUME Approve PROVE AfterBatch' /\ Joined'
  <2>1. /\ campaign.state = "waiting_approval" /\ campaign'.state = "running"
        /\ UNCHANGED <<program, artifacts>> /\ Steps' = Steps
        /\ driver'.pc = "loop" /\ driver'.at = campaign.index
    BY <1>7 DEF Approve, ResumeApproval, TypeOK, Steps
  <2> QED
    BY <1>2, <2>1 DEF AfterBatch, Joined, Passed
<1>8. ASSUME Crash \/ CrashLaunching \/ \E i \in Steps : CrashSpawning(i)
      PROVE  AfterBatch' /\ Joined'
  <2>1. program' = program /\ driver'.pc = "idle"
    BY <1>8 DEF Crash, CrashLaunching, CrashSpawning, Halted, NoDriver
  <2>2. campaign' = campaign \/ campaign'.state # "waiting_approval"
    BY <1>8 DEF Crash, CrashLaunching, CrashSpawning, Begin, TypeOK
  <2> QED
    BY <1>4, <2>1, <2>2
<1>9. ASSUME Recovery PROVE AfterBatch' /\ Joined'
  <2>1. UNCHANGED <<program, driver>>
    BY <1>9 DEF Recovery, Restart, RecoverRun, RecoveryEnds
  <2>2. CASE campaign' = [campaign EXCEPT !.state = "recovery_required", !.fence = FALSE]
    <3>1. campaign'.state # "waiting_approval"
      BY <2>2 DEF TypeOK
    <3> QED
      BY <1>4, <2>1, <3>1
  <2>3. CASE campaign' = campaign
    BY <1>4, <2>1, <2>3
  <2>4. CASE FinalizeCancellation \/ FinalizeFailure
    BY <1>4, <1>5, <2>1, <2>4
  <2> QED
    BY <1>9, <2>2, <2>3, <2>4 DEF Recovery, Restart, RecoverRun, RecoveryEnds
<1>10. ASSUME NEW i \in Steps, Execution(i) PROVE AfterBatch' /\ Joined'
  BY <1>4, <1>10, ExecutionMoves
<1>11. ASSUME Prune \/ (\E i \in Steps : ProcEnds(i)) \/ UNCHANGED vars
       PROVE  AfterBatch' /\ Joined'
  BY <1>4, <1>11 DEF Prune, ProcEnds, vars
<1>12. ASSUME NEW c \in Cancels, CancelCall(c) PROVE AfterBatch' /\ Joined'
  <2>1. campaign' = campaign \/ campaign'.state # "waiting_approval"
    BY <1>12 DEF CancelCall, BeginCancellation, TypeOK
  <2> QED
    BY <1>4, <1>12, <2>1 DEF CancelCall
<1>13. ASSUME NEW c \in Cancels, Cancel(c) PROVE AfterBatch' /\ Joined'
  <2>1. UNCHANGED <<program, driver>>
    BY <1>13 DEF Cancel, CancelSeesQuiet, CancelGivesUp, StopReturns, CancelEnds
  <2>2. CASE campaign' = [campaign EXCEPT !.state = "cancelling", !.fence = TRUE]
    <3>1. campaign'.state # "waiting_approval"
      BY <2>2 DEF TypeOK
    <3> QED
      BY <1>4, <2>1, <3>1
  <2>3. CASE campaign' = campaign
    BY <1>4, <2>1, <2>3
  <2>4. CASE FinalizeCancellation
    BY <1>4, <1>5, <2>1, <2>4
  <2> QED
    BY <1>13, <2>2, <2>3, <2>4 DEF Cancel, CancelSeesQuiet, CancelGivesUp, StopReturns, CancelEnds
<1>14. AfterBatch' /\ Joined'
  BY <1>6, <1>7, <1>8, <1>9, <1>10, <1>11, <1>12, <1>13 DEF Next
<1> QED
  BY <1>3, <1>14

\* What the steps before are to leave is there when all of them are done.
LEMMA ProvidedThere ==
    ASSUME program \in Programs, NEW at \in Steps, Stored, Joined,
           \A j \in Steps : j < at => Done(j) /\ Passed(j)
    PROVE  Provided(program, at) \subseteq artifacts
<1>1. Last \in Nat /\ Steps = 1..Last
  BY ProgramFacts
<1>2. ASSUME NEW j \in 1..(at - 1), program.steps[j].role # "merge"
      PROVE  Left(program, j) \cup SynthesizedFor(program, j) \subseteq artifacts
  <2>1. j \in Steps /\ j < at
    BY <1>1
  <2> QED
    BY <1>2, <2>1 DEF Done, Stored, Joined
<1> QED
  BY <1>2 DEF Provided, Stored

\* The prompt of a step and the synthesis after a batch find whatever they read,
\* in programs whose steps read what earlier ones write: a step is not passed
\* before it and its synthesis have stored their artifacts, and nobody removes
\* artifacts of a campaign that goes on.
THEOREM StepsFindInputs ==
    ASSUME AllArranged, AllSupplied
    PROVE  Spec => []NothingMissing
<1>1. Init => BatchOk
  BY DEF Init, BatchOk, NoDriver
<1>2. TypeOK /\ BatchOk /\ LifeInv /\ RunsInv /\ ParkInv /\ OrderInv /\ StockInv /\ [Next]_vars =>
        RunsInv' /\ LifeInv' /\ ParkInv' /\ OrderInv' /\ StockInv'
  BY RunsStep, LifeStep, ParkStep, OrderStep, StockStep DEF LifeInv
<1>3. TypeOK /\ BatchOk /\ RunsInv /\ OrderInv /\ StockInv => NothingMissing
  <2> SUFFICES ASSUME TypeOK, BatchOk, RunsInv, OrderInv, StockInv, StaleCalm,
                      campaign.state = "running"
               PROVE  /\ \A i \in Steps : At(i, "prompt") => Inputs(program, i) \subseteq artifacts
                      /\ driver.pc = "after" =>
                           SynthesisInputs(program, driver.batch) \subseteq artifacts
    BY DEF NothingMissing, StaleCalm
  <2>1. /\ Open /\ Calm({"orphan"}) /\ ~Cancelling
        /\ AfterBatch /\ Stored /\ Joined
    BY DEF StockInv, Orphaned, Open, Cancelling
  <2>2. /\ program \in Programs /\ Last \in Nat /\ Steps = 1..Last /\ Steps = DOMAIN program.steps
        /\ driver.at \in Int
    BY ProgramFacts DEF TypeOK, Steps
  <2>3. ASSUME NEW i \in Steps, At(i, "prompt")
        PROVE  Inputs(program, i) \subseteq artifacts
    <3>1. i \in Executing
      BY <2>3 DEF At, Executing
    <3>2. driver.pc = "batch" /\ i \in driver.batch
      BY <2>1, <3>1 DEF RunsInv, Minded, TypeOK
    <3>3. driver.at \in Steps /\ driver.batch = Batch(program, driver.at)
      BY <2>2, <3>2 DEF BatchOk, TypeOK
    <3>4. Provided(program, driver.at) \subseteq artifacts
      BY <2>1, <2>2, <3>2, <3>3, ProvidedThere DEF OrderInv, Behind, Passed
    <3> QED
      BY <2>2, <3>2, <3>3, <3>4 DEF AllSupplied, Supplied
  <2>4. ASSUME driver.pc = "after"
        PROVE  SynthesisInputs(program, driver.batch) \subseteq artifacts
    <3>1. PICK at \in Steps : /\ driver.batch = Batch(program, at) /\ at <= driver.at
                              /\ Synthesises(program, at)
      BY <2>1, <2>4 DEF AfterBatch
    <3>2. driver.batch \in SUBSET (at..Last)
      BY <2>2, <3>1, BatchEnds
    <3>3. \A j \in Steps : j < at => Done(j) /\ Passed(j)
      BY <2>2, <2>4, <3>1, <3>2 DEF OrderInv, Behind, Passed
    <3>4. Provided(program, at) \subseteq artifacts
      BY <2>1, <2>2, <3>3, ProvidedThere
    <3>5. ASSUME NEW i \in driver.batch PROVE Left(program, i) \subseteq artifacts
      <4>1. i \in Steps /\ program.steps[i].role = program.steps[at].role
        BY <2>2, <3>1, BatchRole
      <4>2. i < driver.at
        BY <2>4 DEF OrderInv, BatchBehind
      <4>3. run[i].state = "completed"
        BY <2>4, <3>1, <4>1, <4>2 DEF OrderInv, Behind, Done, Synthesises
      <4> QED
        BY <2>1, <4>1, <4>3 DEF Stored
    <3> QED
      BY <2>2, <3>1, <3>4, <3>5 DEF AllSupplied, Supplied
  <2> QED
    BY <2>3, <2>4
<1> QED
  BY <1>1, <1>2, <1>3, LifeInit, RunsInit, ParkInit, OrderInit, StockInit, BatchOkStep,
     TypeCorrect, PTL DEF Spec

-----------------------------------------------------------------------------
(* How a fusion campaign ends.                                             *)

AllStaged == \A p \in Programs : Staged(p)

\* The candidates came together, by themselves or by the resolver.
Merged ==
    \A i \in Steps : program.steps[i].role = "merge" =>
      \/ fusion.integration = "succeeded" /\ run[i].state = "none"
      \/ fusion.integration = "resolved" /\ run[i].state = "completed"

\* What the record says when all steps before at are done
Recorded(at) ==
    /\ at \in Steps /\ program.steps[at].role = "approval_gate" =>
         fusion.approval = "waiting" /\ (Open => Plan \in artifacts)
    /\ \A j \in Steps : j < at =>
         /\ program.steps[j].role = "approval_gate" => fusion.approval = "approved"
         /\ program.steps[j].role = "merge" => Merged

\* A driver that is at work finds the campaign going on, unless it is being
\* cancelled; what it has completed it takes no further.
Driving ==
    driver.pc # "idle" =>
      \/ campaign.state \in {"running", "cancelling", "cancelled"}
      \/ campaign.state = "completed" /\ driver.pc = "loop" /\ driver.at > Last

Reached ==
    /\ driver.pc \in {"loop", "batch"} => Recorded(driver.at)
    /\ driver.pc = "after" =>
         \E at \in Steps : /\ driver.batch = Batch(program, at)
                           /\ driver.at = at + Cardinality(driver.batch)
                           /\ Synthesises(program, at) /\ Recorded(at)

AtGate ==
    campaign.state = "waiting_approval" =>
      /\ program.steps[campaign.index].role = "approval_gate"
      /\ fusion.approval = "waiting" /\ Plan \in artifacts

Concluded ==
    campaign.state = "completed" =>
      fusion.approval = "approved" /\ fusion.done = LastPhase(program) /\ Merged

FusionInv == IsFusion(program) => Driving /\ Reached /\ AtGate /\ Concluded

\* The stages of a fusion program: one gate, one integration, and one merge
\* after it
Stages(g, n) ==
    /\ 1 < g /\ g < n /\ n < Last
    /\ \A j \in Steps :
         /\ program.steps[j].gate <=> j = g
         /\ program.steps[j].role = "planning" <=> j < g
         /\ program.steps[j].role = "approval_gate" <=> j = g
         /\ program.steps[j].role = "integration" <=> j = n
         /\ program.steps[j].role = "merge" <=> j = n + 1
         /\ program.steps[j].role = "none" <=> j > n + 1

LEMMA HasStages ==
    ASSUME program \in Programs, AllStaged, IsFusion(program)
    PROVE  \E g, n \in Steps : Stages(g, n)
<1>1. Last \in Nat /\ Steps = 1..Last /\ Steps = DOMAIN program.steps
  BY ProgramFacts DEF Steps
<1>2. PICK g, n \in Steps :
        /\ g < n /\ n < Last
        /\ \A j \in Steps :
             /\ program.steps[j].gate <=> j = g
             /\ j < g => program.steps[j].role = "planning"
             /\ j = g => program.steps[j].role = "approval_gate"
             /\ g < j /\ j < n => program.steps[j].role \in
                  {"implementation", "candidate_eval", "peer_review", "external_arbiter"}
             /\ j = n => program.steps[j].role = "integration"
             /\ j = n + 1 => program.steps[j].role = "merge"
             /\ j > n + 1 => program.steps[j].role = "none"
  <2>1. Staged(program)
    BY DEF AllStaged
  <2> QED
    BY <1>1, <2>1 DEF Staged, Last, Steps
<1>3. ASSUME NEW j \in Steps
      PROVE  j < g \/ j = g \/ (g < j /\ j < n) \/ j = n \/ j = n + 1 \/ j > n + 1
  BY <1>1
<1>4. ASSUME NEW j \in Steps
      PROVE  /\ program.steps[j].role = "planning" <=> j < g
             /\ program.steps[j].role = "approval_gate" <=> j = g
             /\ program.steps[j].role = "integration" <=> j = n
             /\ program.steps[j].role = "merge" <=> j = n + 1
             /\ program.steps[j].role = "none" <=> j > n + 1
  <2>1. g \in Int /\ n \in Int /\ j \in Int /\ g < n
    BY <1>1, <1>2
  <2>2. CASE j < g
    BY <1>2, <2>1, <2>2
  <2>3. CASE j = g
    BY <1>2, <2>1, <2>3
  <2>4. CASE g < j /\ j < n
    <3>1. program.steps[j].role \in
            {"implementation", "candidate_eval", "peer_review", "external_arbiter"}
      BY <1>2, <2>4
    <3> QED
      BY <2>1, <2>4, <3>1
  <2>5. CASE j = n
    BY <1>2, <2>1, <2>5
  <2>6. CASE j = n + 1
    BY <1>2, <2>1, <2>6
  <2>7. CASE j > n + 1
    BY <1>2, <2>1, <2>7
  <2> QED
    BY <1>3, <2>2, <2>3, <2>4, <2>5, <2>6, <2>7
<1>5. PICK i \in Steps : program.steps[i].role = "planning"
  BY <1>1 DEF IsFusion, HasRole
<1>6. 1 < g
  BY <1>1, <1>4, <1>5
<1> QED
  BY <1>2, <1>4, <1>6 DEF Stages

LEMMA FusionInit ==
    ASSUME AllStaged
    PROVE  Init => FusionInv
<1> SUFFICES ASSUME Init, IsFusion(program) PROVE Driving /\ Reached /\ AtGate /\ Concluded
  BY DEF FusionInv
<1>1. Last \in Nat /\ Steps = 1..Last /\ program \in Programs
  BY ProgramFacts DEF Init
<1>2. driver.at = 1 /\ driver.pc = "loop" /\ campaign.state = "running"
  BY DEF Init, NoDriver
<1>3. Recorded(1)
  <2>1. 1 \in Steps => program.steps[1].role # "approval_gate"
    BY <1>1, HasStages DEF Stages
  <2> QED
    BY <1>1, <2>1 DEF Recorded
<1> QED
  BY <1>2, <1>3 DEF Driving, Reached, AtGate, Concluded

\* Steps that leave the record alone, and take the campaign no further
RunsFixed ==
    \A i \in Steps : /\ run[i].state = "completed" => run'[i].state = "completed"
                     /\ run[i].state = "none" => run'[i].state = "none"

Slowed ==
    \/ campaign' = campaign
    \/ campaign'.state \in {"cancelling", "cancelled"}
    \/ driver'.pc = "idle" /\ campaign'.state \in {"failed", "recovery_required"}

LEMMA SteadyFusion ==
    ASSUME FusionInv, [Next]_vars, UNCHANGED <<program, fusion>>,
           driver' = driver \/ driver'.pc = "idle", RunsFixed, Slowed
    PROVE  FusionInv'
<1> SUFFICES ASSUME IsFusion(program) PROVE (Driving /\ Reached /\ AtGate /\ Concluded)'
  BY DEF FusionInv
<1>1. Driving /\ Reached /\ AtGate /\ Concluded /\ Steps' = Steps /\ Last' = Last
  BY DEF FusionInv, Steps, Last
<1>2. Merged => Merged'
  BY <1>1 DEF Merged, RunsFixed
<1>3. Open' => Open /\ artifacts \subseteq artifacts'
  BY ArtifactsKept DEF Slowed, Open
<1>4. \A at : Recorded(at) => Recorded(at)'
  BY <1>1, <1>2, <1>3 DEF Recorded
<1>5. Driving'
  BY <1>1 DEF Driving, Slowed
<1>6. Reached'
  <2>1. CASE driver' = driver
    BY <1>1, <1>4, <2>1 DEF Reached
  <2>2. CASE driver'.pc = "idle"
    BY <2>2 DEF Reached
  <2> QED
    BY <2>1, <2>2
<1>7. AtGate' /\ Concluded'
  <2>1. CASE campaign' = campaign
    BY <1>1, <1>2, <1>3, <2>1 DEF AtGate, Concluded, Open
  <2>2. CASE campaign'.state \notin {"waiting_approval", "completed"}
    BY <2>2 DEF AtGate, Concluded
  <2> QED
    BY <2>1, <2>2 DEF Slowed
<1> QED
  BY <1>5, <1>6, <1>7

\* What the completion of a batch makes of the record
LEMMA AfterStepsRecord ==
    ASSUME NEW p, NEW batch, NEW f \in FusionRecord, NEW status,
           \A i \in batch : p.steps[i].role = Role(p, batch)
    PROVE  LET role == Role(p, batch)
               after == AfterSteps(p, batch, f, status) IN
           /\ role = "planning" => after.approval = "waiting"
           /\ role = "approval_gate" => after.approval = "approved"
           /\ role \notin {"planning", "approval_gate"} => after.approval = f.approval
           /\ role = "integration" => after.integration = status /\ after.done = "integration"
           /\ role = "merge" => after.integration = "resolved" /\ after.done = "integration"
           /\ role \notin {"integration", "merge"} => after.integration = f.integration
           /\ role = "none" /\ (\E i \in batch : IsMergedEval(p, i))
                => after.done = "merged_eval"
<1> DEFINE role == Role(p, batch)
           after == AfterSteps(p, batch, f, status)
<1> USE DEF FusionRecord
<1>1. /\ PlanSynthesized(f).approval = "waiting"
      /\ PlanSynthesized(f).integration = f.integration
  BY DEF PlanSynthesized
<1>2. /\ FusionApproved(f).approval = "approved"
      /\ FusionApproved(f).integration = f.integration
  BY DEF FusionApproved
<1>3. /\ CandidatesRecorded(p, f).approval = f.approval
      /\ CandidatesRecorded(p, f).integration = f.integration
  BY DEF CandidatesRecorded
<1>4. /\ CandidatesEvaluated(f).approval = f.approval
      /\ CandidatesEvaluated(f).integration = f.integration
  BY DEF CandidatesEvaluated
<1>5. /\ DossierSynthesized(f).approval = f.approval
      /\ DossierSynthesized(f).integration = f.integration
  BY DEF DossierSynthesized
<1>6. /\ ArbiterAttached(f).approval = f.approval
      /\ ArbiterAttached(f).integration = f.integration
  BY DEF ArbiterAttached
<1>7. \A s : /\ IntegrationApplied(p, f, s).approval = f.approval
             /\ IntegrationApplied(p, f, s).integration = s
             /\ IntegrationApplied(p, f, s).done = "integration"
  BY DEF IntegrationApplied
<1>8. /\ MergedEvaluated(f).approval = f.approval
      /\ MergedEvaluated(f).integration = f.integration
      /\ MergedEvaluated(f).done = "merged_eval"
  BY DEF MergedEvaluated
<1>9. after = CASE role = "planning" -> PlanSynthesized(f)
                [] role = "approval_gate" -> FusionApproved(f)
                [] role = "implementation" -> CandidatesRecorded(p, f)
                [] role = "candidate_eval" -> CandidatesEvaluated(f)
                [] role = "peer_review" -> DossierSynthesized(f)
                [] role = "external_arbiter" -> ArbiterAttached(f)
                [] role = "integration" -> IntegrationApplied(p, f, status)
                [] role = "merge" -> IntegrationApplied(p, f, "resolved")
                [] \E i \in batch : IsMergedEval(p, i) -> MergedEvaluated(f)
                [] OTHER -> f
  BY DEF AfterSteps, ResolverFinished
<1>0. (\E i \in batch : IsMergedEval(p, i)) => role = "none"
  BY DEF IsMergedEval
<1> HIDE DEF role, after, FusionRecord
<1> SUFFICES /\ role = "planning" => after.approval = "waiting"
             /\ role = "approval_gate" => after.approval = "approved"
             /\ role \notin {"planning", "approval_gate"} => after.approval = f.approval
             /\ role = "integration" => after.integration = status /\ after.done = "integration"
             /\ role = "merge" => after.integration = "resolved" /\ after.done = "integration"
             /\ role \notin {"integration", "merge"} => after.integration = f.integration
             /\ role = "none" /\ (\E i \in batch : IsMergedEval(p, i))
                  => after.done = "merged_eval"
  BY DEF role, after
<1>10. CASE role \in {"planning", "approval_gate", "implementation", "candidate_eval",
                      "peer_review", "external_arbiter"}
  BY <1>0, <1>1, <1>2, <1>3, <1>4, <1>5, <1>6, <1>9, <1>10
<1>11. CASE role \in {"integration", "merge"}
  BY <1>0, <1>7, <1>9, <1>11
<1>12. CASE role \notin {"planning", "approval_gate", "implementation", "candidate_eval",
                         "peer_review", "external_arbiter", "integration", "merge"}
  <2>1. after = CASE \E i \in batch : IsMergedEval(p, i) -> MergedEvaluated(f)
                  [] OTHER -> f
    BY <1>9, <1>12
  <2> QED
    BY <1>8, <1>12, <2>1
<1> QED
  BY <1>10, <1>11, <1>12

LEMMA LoopFusion ==
    ASSUME TypeOK, RunsInv, FusionInv, AllStaged, [Next]_vars, DriverLoop
    PROVE  FusionInv'
<1> USE DEF outside
<1> SUFFICES ASSUME IsFusion(program) PROVE (Driving /\ Reached /\ AtGate /\ Concluded)'
  <2>1. program' = program
    BY DEF DriverLoop
  <2> QED
    BY <2>1 DEF FusionInv
<1>1. /\ driver.pc = "loop" /\ UNCHANGED <<program, fusion, artifacts>>
      /\ Steps' = Steps /\ Last' = Last
      /\ Driving /\ Reached /\ AtGate /\ Concluded
  BY DEF DriverLoop, FusionInv, Steps, Last
<1>2. /\ Last \in Nat /\ Steps = 1..Last /\ program \in Programs /\ driver.at \in 1..(Last + 1)
  BY ProgramFacts DEF TypeOK
<1>3. PICK g, n \in Steps : Stages(g, n)
  BY <1>2, HasStages
<1>4. Recorded(driver.at)
  BY <1>1 DEF Reached
<1>5. CASE Rest /\ UNCHANGED <<campaign, run>>
  <2>1. driver'.pc = "idle"
    BY <1>5 DEF Rest, Drive, TypeOK
  <2>2. RunsFixed /\ Slowed
    BY <1>5 DEF RunsFixed, Slowed
  <2>3. FusionInv'
    BY <1>1, <2>1, <2>2, SteadyFusion
  <2> QED
    BY <1>1, <2>3 DEF FusionInv
<1>6. CASE ~(Rest /\ UNCHANGED <<campaign, run>>)
  <2>1. driver.at \in Steps /\ ~Cancelling /\ campaign.state = "running"
    <3>1. driver.at \in Steps /\ ~Cancelling
      BY <1>2, <1>6 DEF DriverLoop
    <3> QED
      BY <1>1, <1>2, <3>1 DEF Driving, Cancelling
  <2>2. CASE Gated(driver.at)
    <3>1. Rest /\ campaign' = [campaign EXCEPT !.state = "waiting_approval", !.index = driver.at]
      BY <1>2, <2>1, <2>2 DEF DriverLoop
    <3>2. /\ driver'.pc = "idle" /\ campaign'.state = "waiting_approval"
          /\ campaign'.index = driver.at
      BY <3>1 DEF Rest, Drive, TypeOK
    <3>3. program.steps[driver.at].role = "approval_gate"
      BY <1>3, <2>1, <2>2 DEF Gated, Stages
    <3>4. fusion.approval = "waiting" /\ Plan \in artifacts
      BY <1>4, <2>1, <3>3 DEF Recorded, Open
    <3> QED
      BY <1>1, <3>2, <3>3, <3>4 DEF Driving, Reached, AtGate, Concluded
  <2>3. CASE ~Gated(driver.at)
    <3> DEFINE batch == Batch(program, driver.at)
    <3>1. Begin(batch, batch) /\ Drive("batch", driver.at, batch)
      BY <1>2, <1>6, <2>1, <2>3 DEF DriverLoop
    <3>2. batch \in SUBSET (driver.at..Last)
      BY <1>2, <2>1, BatchEnds
    <3> HIDE DEF batch
    <3>3. driver'.pc = "batch" /\ driver'.at = driver.at /\ campaign'.state = "running"
      BY <3>1 DEF Drive, Begin, TypeOK
    <3>4. \A i \in Steps : i < driver.at => run'[i] = run[i]
      BY <1>2, <3>1, <3>2 DEF Begin
    <3>5. ASSUME NEW j \in Steps, j < driver.at, program.steps[j].role = "merge", Merged
          PROVE  Merged'
      <4>1. \A i \in Steps : program.steps[i].role = "merge" => i = j
        BY <1>3, <3>5 DEF Stages
      <4> QED
        BY <1>1, <3>4, <3>5, <4>1 DEF Merged
    <3>6. Recorded(driver.at)'
      <4>1. Open
        BY <2>1 DEF Open
      <4> QED
        BY <1>1, <1>4, <3>3, <3>5, <4>1 DEF Recorded
    <3> QED
      BY <1>1, <3>3, <3>6 DEF Driving, Reached, AtGate, Concluded
  <2> QED
    BY <2>2, <2>3
<1> QED
  BY <1>5, <1>6

\* What the record says of a step that has just been passed: the gate that was
\* opened, the merge that was made, the last step.
LEMMA ReturnsFusion ==
    ASSUME TypeOK, BatchOk, RunsInv, OrderInv, FusionInv, AllSupplied, AllStaged,
           [Next]_vars, BatchReturns
    PROVE  FusionInv'
<1> USE DEF outside
<1> SUFFICES ASSUME IsFusion(program) PROVE (Driving /\ Reached /\ AtGate /\ Concluded)'
  <2>1. program' = program
    BY DEF BatchReturns
  <2> QED
    BY <2>1 DEF FusionInv
<1>1. /\ driver.pc = "batch" /\ UNCHANGED <<program, artifacts, run, exec>>
      /\ Steps' = Steps /\ Last' = Last
      /\ Driving /\ Reached /\ AtGate /\ Concluded
      /\ \A i \in driver.batch : exec[i].pc \in {"finished", "failed"}
  BY DEF BatchReturns, FusionInv, Steps, Last
<1>2. /\ Last \in Nat /\ Steps = 1..Last /\ program \in Programs
      /\ driver.at \in Steps /\ driver.batch = Batch(program, driver.at)
  <2>1. Last \in Nat /\ Steps = 1..Last /\ program \in Programs
    BY ProgramFacts DEF TypeOK
  <2> QED
    BY <1>1, <2>1 DEF BatchOk, TypeOK
<1> PICK at \in Steps : at = driver.at
  BY <1>2
<1> PICK batch : batch = driver.batch
  OBVIOUS
<1> PICK next : next = NextIndex(batch)
  OBVIOUS
<1> DEFINE role == program.steps[at].role
<1>3. /\ batch \in SUBSET (at..Last) /\ at \in batch /\ Cardinality(batch) \in Nat
      /\ at < next /\ next <= Last + 1
      /\ \A i \in batch : program.steps[i].role = role
      /\ Role(program, batch) = role
      /\ \A i \in Steps : at <= i /\ i < next => i \in batch
  <2>1. /\ batch \in SUBSET (at..Last) /\ at \in batch /\ Cardinality(batch) \in Nat
        /\ 1 <= Cardinality(batch) /\ at + Cardinality(batch) - 1 <= Last
    BY <1>2, BatchEnds
  <2>2. /\ \A i \in batch : program.steps[i].role = role
        /\ Role(program, batch) = role
    BY <1>2, BatchRole
  <2>3. \A i \in Steps : at <= i /\ i < at + Cardinality(batch) => i \in batch
    BY <1>2, BatchFills
  <2> QED
    BY <1>2, <2>1, <2>2, <2>3 DEF NextIndex
<1>4. PICK g, n \in Steps : Stages(g, n)
  BY <1>2, HasStages
<1>5. Recorded(at)
  BY <1>1 DEF Reached
<1>6. CASE Cancelling \/ BatchFailed
  <2>1. /\ Rest /\ fusion' = fusion
        /\ \/ campaign' = campaign
           \/ campaign' = [campaign EXCEPT !.state = "failed", !.index = driver.at]
    BY <1>6 DEF BatchReturns, FailCampaign
  <2>2. driver'.pc = "idle" /\ Slowed /\ RunsFixed
    BY <1>1, <2>1 DEF Rest, Drive, TypeOK, Slowed, RunsFixed
  <2>3. FusionInv'
    BY <1>1, <2>1, <2>2, SteadyFusion
  <2> QED
    BY <1>1, <2>3 DEF FusionInv
<1>7. CASE ~(Cancelling \/ BatchFailed)
  <2>1. campaign.state = "running"
    BY <1>1, <1>7 DEF Driving, Cancelling
  <2>2. campaign' = [campaign EXCEPT !.index = next,
                       !.state = IF next > Last THEN "completed" ELSE "running"]
    BY <1>7, <2>1 DEF BatchReturns, CompleteStep, Ended
  <2>3. /\ campaign'.state = IF next > Last THEN "completed" ELSE "running"
        /\ campaign'.index = next
    BY <2>2 DEF TypeOK
  <2>4. IF Synthesises(program, at)
          THEN Drive("after", next, batch) /\ fusion' = fusion
          ELSE /\ Drive("loop", next, {})
               /\ fusion' = AfterSteps(program, batch, fusion, "pending")
    BY <1>7, <2>3 DEF BatchReturns
  <2>5. \A i \in batch : run[i].state = "completed"
    <3>1. \A i \in batch : i \in Steps /\ exec[i].pc = "finished"
      BY <1>1, <1>2, <1>3, <1>7 DEF BatchFailed
    <3> QED
      BY <3>1 DEF OrderInv, Told
  <2>6. next > Last => Last \in batch /\ Last \in Steps
    BY <1>2, <1>3
  <2>7. next = at + Cardinality(batch)
    BY DEF NextIndex
  <2>8. CASE Synthesises(program, at)
    <3>1. driver'.pc = "after" /\ driver'.at = next /\ driver'.batch = batch /\ fusion' = fusion
      BY <2>4, <2>8 DEF Drive, TypeOK
    <3>2. ~(next > Last)
      <4>1. next > Last => role = program.steps[Last].role
        BY <1>3, <2>6
      <4>2. Last \in Steps => program.steps[Last].role \in {"merge", "none"}
        BY <1>2, <1>4 DEF Stages
      <4> QED
        BY <2>6, <2>8, <4>1, <4>2 DEF Synthesises
    <3>3. Recorded(at)'
      <4>1. Open /\ (Merged => Merged')
        BY <1>1, <2>1, <3>1 DEF Open, Merged
      <4> QED
        BY <1>1, <1>5, <3>1, <4>1 DEF Recorded
    <3> QED
      BY <1>1, <1>2, <2>3, <2>7, <2>8, <3>1, <3>2, <3>3 DEF Driving, Reached, AtGate, Concluded
  <2>9. CASE ~Synthesises(program, at)
    <3>1. /\ driver'.pc = "loop" /\ driver'.at = next
          /\ fusion' = AfterSteps(program, batch, fusion, "pending")
      BY <2>4, <2>9 DEF Drive, TypeOK
    <3>2. role \notin {"planning", "implementation", "candidate_eval", "peer_review", "integration"}
      BY <2>9 DEF Synthesises
    <3>3. /\ role = "approval_gate" => fusion'.approval = "approved"
          /\ role # "approval_gate" => fusion'.approval = fusion.approval
          /\ role = "merge" => fusion'.integration = "resolved" /\ fusion'.done = "integration"
          /\ role = "none" => fusion'.integration = fusion.integration
                              /\ fusion'.done = "merged_eval"
      <4>1. role = "none" => \E i \in batch : IsMergedEval(program, i)
        BY <1>3 DEF IsMergedEval
      <4>2. fusion \in FusionRecord
        BY DEF TypeOK
      <4>3. /\ Role(program, batch) = role
            /\ \A i \in batch : program.steps[i].role = Role(program, batch)
        BY <1>3
      <4> HIDE DEF role
      <4> QED
        BY <3>1, <3>2, <4>1, <4>2, <4>3, AfterStepsRecord
    <3>4. ASSUME NEW j \in Steps, j < next, program.steps[j].role = "approval_gate"
          PROVE  fusion'.approval = "approved"
      <4>1. CASE j < at
        <5>1. role # "approval_gate"
          BY <1>2, <1>4, <3>4, <4>1 DEF Stages
        <5> QED
          BY <1>5, <3>3, <3>4, <4>1, <5>1 DEF Recorded
      <4>2. CASE at <= j
        BY <1>3, <3>3, <3>4, <4>2
      <4> QED
        BY <1>2, <4>1, <4>2
    <3>5. ASSUME NEW j \in Steps, j < next, program.steps[j].role = "merge"
          PROVE  Merged'
      <4>1. \A i \in Steps : program.steps[i].role = "merge" => i = j
        BY <1>4, <3>5 DEF Stages
      <4>2. CASE j < at
        <5>1. role = "none"
          BY <1>2, <1>4, <3>5, <4>2 DEF Stages
        <5>2. Merged
          BY <1>5, <3>5, <4>2 DEF Recorded
        <5> QED
          BY <1>1, <3>3, <5>1, <5>2 DEF Merged
      <4>3. CASE at <= j
        <5>1. j \in batch /\ role = "merge"
          BY <1>3, <3>5, <4>3
        <5> QED
          BY <1>1, <2>5, <3>3, <4>1, <5>1 DEF Merged
      <4> QED
        BY <1>2, <4>2, <4>3
    <3>6. ~(next \in Steps /\ program.steps[next].role = "approval_gate")
      <4> SUFFICES ASSUME next \in Steps, program.steps[next].role = "approval_gate"
                   PROVE  FALSE
        OBVIOUS
      <4>1. at < g
        BY <1>3, <1>4 DEF Stages
      <4> QED
        <5>1. role = "planning"
          BY <1>4, <4>1 DEF Stages
        <5> QED
          BY <3>2, <5>1
    <3>7. Recorded(next)'
      BY <1>1, <3>4, <3>5, <3>6 DEF Recorded
    <3>8. next > Last => fusion'.approval = "approved" /\ fusion'.done = LastPhase(program) /\ Merged'
      <4> SUFFICES ASSUME next > Last
                   PROVE  fusion'.approval = "approved" /\ fusion'.done = LastPhase(program) /\ Merged'
        OBVIOUS
      <4>1. g < next /\ n + 1 \in Steps /\ n + 1 < next
        <5>1. 1 < g /\ g < n /\ n < Last
          BY <1>4 DEF Stages
        <5>2. /\ next \in Int /\ Last \in Int /\ g \in Int /\ n \in Int
              /\ next = Last + 1
          BY <1>2, <1>3, <2>7
        <5>3. next = Last + 1 /\ n + 1 \in 1..Last
          BY <5>1, <5>2
        <5> QED
          BY <1>2, <5>1, <5>2, <5>3
      <4>2. fusion'.approval = "approved" /\ Merged'
        BY <1>4, <3>4, <3>5, <4>1 DEF Stages
      <4>3. Last \in Steps /\ role = program.steps[Last].role
        BY <1>3, <2>6
      <4>4. CASE Last = n + 1
        <5>1. role = "merge" /\ ~\E i \in Steps : program.steps[i].role = "none"
          BY <1>2, <1>4, <4>3, <4>4 DEF Stages
        <5>2. LastPhase(program) = "integration"
          BY <5>1 DEF LastPhase, IsMergedEval, Steps
        <5> QED
          BY <3>3, <4>2, <5>1, <5>2
      <4>5. CASE Last # n + 1
        <5>1. role = "none" /\ program.steps[Last].role = "none"
          BY <1>2, <1>4, <4>3, <4>5 DEF Stages
        <5>2. LastPhase(program) = "merged_eval"
          BY <4>3, <5>1 DEF LastPhase, IsMergedEval, Steps
        <5> QED
          BY <3>3, <4>2, <5>1, <5>2
      <4> QED
        BY <4>4, <4>5
    <3> QED
      BY <1>1, <2>3, <3>1, <3>7, <3>8 DEF Driving, Reached, AtGate, Concluded
  <2> QED
    BY <2>8, <2>9
<1> QED
  BY <1>6, <1>7

\* A completion adds to the record what its steps are for; what it passes over
\* is the merge that a clean integration needs no more.
LEMMA LandsFusion ==
    ASSUME TypeOK, RunsInv, FusionInv, AllSupplied, AllStaged, AfterLands
    PROVE  FusionInv'
<1> USE DEF outside
<1> SUFFICES ASSUME IsFusion(program) PROVE (Driving /\ Reached /\ AtGate /\ Concluded)'
  <2>1. program' = program
    BY DEF AfterLands
  <2> QED
    BY <2>1 DEF FusionInv
<1>1. /\ driver.pc = "after" /\ UNCHANGED <<program, run>> /\ Steps' = Steps /\ Last' = Last
      /\ SynthesisInputs(program, driver.batch) \subseteq artifacts
      /\ artifacts' = artifacts \cup SynthesisOutputs(program, driver.batch)
      /\ Reached
  BY DEF AfterLands, FusionInv, Steps, Last
<1>2. Last \in Nat /\ Steps = 1..Last /\ program \in Programs
  BY ProgramFacts DEF TypeOK
<1>3. PICK at \in Steps : /\ driver.batch = Batch(program, at)
                          /\ driver.at = at + Cardinality(driver.batch)
                          /\ Synthesises(program, at) /\ Recorded(at)
  BY <1>1 DEF Reached
<1> PICK batch : batch = driver.batch
  OBVIOUS
<1> PICK end : end = driver.at
  OBVIOUS
<1> DEFINE role == program.steps[at].role
<1>4. /\ batch \in SUBSET (at..Last) /\ at \in batch
      /\ end \in Int /\ at < end /\ end <= Last + 1
      /\ \A i \in batch : i \in Steps /\ program.steps[i].role = role
      /\ Role(program, batch) = role
      /\ \A i \in Steps : at <= i /\ i < end => i \in batch
  <2>1. /\ batch \in SUBSET (at..Last) /\ at \in batch /\ Cardinality(batch) \in Nat
        /\ 1 <= Cardinality(batch) /\ at + Cardinality(batch) - 1 <= Last
    BY <1>2, <1>3, BatchEnds
  <2>2. /\ \A i \in batch : i \in Steps /\ program.steps[i].role = role
        /\ Role(program, batch) = role
    BY <1>2, <1>3, BatchRole
  <2>3. \A i \in Steps : at <= i /\ i < at + Cardinality(batch) => i \in batch
    BY <1>2, <1>3, BatchFills
  <2> QED
    BY <1>2, <1>3, <2>1, <2>2, <2>3
<1>5. PICK g, n \in Steps : Stages(g, n)
  BY <1>2, HasStages
<1>6. PICK status, next :
        /\ status \in IntegrationReports
        /\ next = IF \E i \in batch : IsGit(i) THEN PastMerge(program, end, status) ELSE end
        /\ campaign' = [state |-> IF next > Last THEN "completed" ELSE "running",
                        index |-> next, fence |-> FALSE]
        /\ fusion' = AfterSteps(program, batch, fusion, status)
        /\ Drive("loop", next, {})
  BY DEF AfterLands
<1>7. /\ campaign'.state = IF next > Last THEN "completed" ELSE "running"
      /\ driver'.pc = "loop" /\ driver'.at = next
  BY <1>6 DEF Drive, TypeOK
<1>8. role \in {"planning", "implementation", "candidate_eval", "peer_review", "integration"}
  BY <1>3 DEF Synthesises
<1>9. /\ role = "planning" => fusion'.approval = "waiting"
      /\ role # "planning" => fusion'.approval = fusion.approval
      /\ role = "integration" => fusion'.integration = status /\ fusion'.done = "integration"
  <2>1. fusion \in FusionRecord
    BY DEF TypeOK
  <2>2. /\ Role(program, batch) = role
        /\ \A i \in batch : program.steps[i].role = Role(program, batch)
    BY <1>4
  <2> HIDE DEF role
  <2> QED
    BY <1>6, <1>8, <2>1, <2>2, AfterStepsRecord
<1>10. at < g \/ (g < at /\ at <= n)
  <2>1. CASE role = "planning"
    BY <1>5, <2>1 DEF Stages
  <2>2. CASE role = "integration"
    <3>1. at = n /\ g < n /\ n \in Int
      BY <1>2, <1>5, <2>2 DEF Stages
    <3> QED
      BY <3>1
  <2>3. CASE role \in {"implementation", "candidate_eval", "peer_review"}
    <3>1. at # g /\ ~(at > n + 1) /\ at # n + 1
      BY <1>5, <2>3 DEF Stages
    <3> QED
      BY <1>2, <1>5, <3>1
  <2> QED
    BY <1>8, <2>1, <2>2, <2>3
<1>11. ASSUME NEW j \in Steps, j < next, program.steps[j].role = "approval_gate",
              j < at
       PROVE  fusion'.approval = "approved"
  <2>1. role # "planning"
    BY <1>2, <1>5, <1>11 DEF Stages
  <2> QED
    BY <1>3, <1>9, <1>11, <2>1 DEF Recorded
<1>12. CASE role # "integration"
  <2>1. next = end
    <3>1. ~\E i \in batch : IsGit(i)
      BY <1>4, <1>12 DEF IsGit
    <3> QED
      BY <1>6, <3>1
  <2>2. ~(next > Last)
    <3>1. next > Last => role = program.steps[Last].role
      BY <1>2, <1>4, <2>1
    <3>2. Last \in Steps /\ n < Last
      BY <1>2, <1>5 DEF Stages
    <3>3. program.steps[Last].role \in {"merge", "none"}
      BY <1>2, <1>5, <3>2 DEF Stages
    <3> QED
      BY <1>8, <3>1, <3>3
  <2>3. ASSUME NEW j \in Steps, j < next, program.steps[j].role \in {"approval_gate", "merge"}
        PROVE  j < at /\ program.steps[j].role # "merge"
    <3>1. j \notin batch
      BY <1>4, <1>8, <2>3
    <3>2. j < at
      BY <1>2, <1>4, <2>1, <2>3, <3>1
    <3>3. program.steps[j].role # "merge"
      BY <1>2, <1>5, <1>10, <3>2 DEF Stages
    <3> QED
      BY <3>2, <3>3
  <2>4. next \in Steps /\ program.steps[next].role = "approval_gate" =>
          fusion'.approval = "waiting" /\ Plan \in artifacts'
    <3> SUFFICES ASSUME next \in Steps, program.steps[next].role = "approval_gate"
                 PROVE  fusion'.approval = "waiting" /\ Plan \in artifacts'
      OBVIOUS
    <3>1. at < g
      BY <1>4, <1>5, <2>1 DEF Stages
    <3>2. role = "planning"
      BY <1>5, <3>1 DEF Stages
    <3>3. Plan \in SynthesisOutputs(program, batch)
      BY <1>4, <3>2 DEF SynthesisOutputs
    <3> QED
      BY <1>1, <1>9, <3>2, <3>3
  <2>5. Recorded(next)'
    BY <1>1, <1>11, <2>3, <2>4 DEF Recorded
  <2> QED
    BY <1>1, <1>7, <2>2, <2>5 DEF Driving, Reached, AtGate, Concluded
<1>13. CASE role = "integration"
  <2>1. at = n /\ n + 1 \in Steps /\ g < n
    BY <1>2, <1>5, <1>13 DEF Stages
  <2>2. end = n + 1
    <3>1. n + 1 \notin batch
      <4>1. program.steps[n + 1].role = "merge"
        BY <1>5, <2>1 DEF Stages
      <4> QED
        BY <1>4, <1>13, <4>1
    <3> QED
      BY <1>2, <1>4, <2>1, <3>1
  <2>3. next = IF status = "succeeded" THEN n + 2 ELSE n + 1
    <3>1. next = PastMerge(program, end, status)
      BY <1>4, <1>6, <1>13 DEF IsGit
    <3>2. \A k \in end..Last : program.steps[k].role = "merge" <=> k = n + 1
      BY <1>2, <1>5, <2>1, <2>2 DEF Stages
    <3>3. n + 1 \in end..Last
      BY <1>2, <2>1, <2>2
    <3>4. (CHOOSE k \in end..Last : program.steps[k].role = "merge") = n + 1
      BY <3>2, <3>3
    <3>5. CASE status = "succeeded"
      <4>1. next = n + 1 + 1
        BY <3>1, <3>2, <3>3, <3>4, <3>5 DEF PastMerge, Last
      <4> QED
        BY <1>2, <2>1, <3>5, <4>1
    <3>6. CASE status # "succeeded"
      BY <2>2, <3>1, <3>6 DEF PastMerge
    <3> QED
      BY <3>5, <3>6
  <2>4. \A j \in Steps : program.steps[j].role = "approval_gate" /\ j < next => j < at
    BY <1>2, <1>5, <2>1 DEF Stages
  <2>5. ASSUME NEW j \in Steps, j < next, program.steps[j].role = "merge"
        PROVE  Merged'
    <3>1. j = n + 1 /\ status = "succeeded"
      BY <1>2, <1>5, <2>1, <2>3, <2>5 DEF Stages
    <3>2. run[n + 1].state = "none"
      <4>1. Reach = n + 1 /\ n + 1 \in Steps /\ n + 1 <= n + 1
        BY <1>1, <1>2, <2>1, <2>2 DEF Reach
      <4>2. \A i \in Steps : i >= Reach => run[i].state = "none"
        BY <1>1 DEF RunsInv, Ahead
      <4> QED
        BY <4>1, <4>2
    <3>3. \A i \in Steps : program.steps[i].role = "merge" => i = n + 1
      BY <1>5 DEF Stages
    <3> QED
      BY <1>1, <1>9, <1>13, <3>1, <3>2, <3>3 DEF Merged
  <2>6. ~(next \in Steps /\ program.steps[next].role = "approval_gate")
    BY <1>2, <1>5, <2>1, <2>3 DEF Stages
  <2>7. Recorded(next)'
    BY <1>1, <1>11, <2>4, <2>5, <2>6 DEF Recorded
  <2>8. next > Last =>
          fusion'.approval = "approved" /\ fusion'.done = LastPhase(program) /\ Merged'
    <3> SUFFICES ASSUME next > Last
                 PROVE  fusion'.approval = "approved" /\ fusion'.done = LastPhase(program) /\ Merged'
      OBVIOUS
    <3>1. Last = n + 1 /\ next = n + 2
      BY <1>2, <2>1, <2>3
    <3>2. program.steps[g].role = "approval_gate" /\ g < at /\ g < next
          /\ program.steps[n + 1].role = "merge" /\ n + 1 < next
      BY <1>2, <1>5, <2>1, <3>1 DEF Stages
    <3>3. ~\E i \in Steps : program.steps[i].role = "none"
      BY <1>2, <1>5, <3>1 DEF Stages
    <3>4. LastPhase(program) = "integration"
      BY <3>3 DEF LastPhase, IsMergedEval, Steps
    <3> QED
      BY <1>9, <1>11, <1>13, <2>1, <2>5, <3>2, <3>4
  <2> QED
    BY <1>1, <1>7, <2>7, <2>8 DEF Driving, Reached, AtGate, Concluded
<1> QED
  BY <1>12, <1>13

LEMMA ApproveFusion ==
    ASSUME TypeOK, GateOk, FusionInv, AllStaged, Approve
    PROVE  FusionInv'
<1> USE DEF outside
<1>1. /\ campaign.state = "waiting_approval" /\ campaign'.state = "running"
      /\ UNCHANGED <<program, fusion, artifacts, run>> /\ Steps' = Steps
      /\ driver'.pc = "loop" /\ driver'.at = campaign.index
  BY DEF Approve, ResumeApproval, TypeOK, Steps
<1> SUFFICES ASSUME IsFusion(program) PROVE (Driving /\ Reached /\ AtGate /\ Concluded)'
  BY <1>1 DEF FusionInv
<1>2. Last \in Nat /\ Steps = 1..Last /\ program \in Programs /\ campaign.index \in 1..(Last + 1)
  BY ProgramFacts DEF TypeOK
<1>3. /\ program.steps[campaign.index].role = "approval_gate"
      /\ fusion.approval = "waiting" /\ Plan \in artifacts /\ campaign.index \in Steps
  BY <1>1, <1>2 DEF FusionInv, AtGate, GateOk
<1>4. PICK g, n \in Steps : Stages(g, n)
  BY <1>2, HasStages
<1>5. ASSUME NEW j \in Steps, j < campaign.index
      PROVE  program.steps[j].role = "planning"
  <2>1. campaign.index = g
    BY <1>3, <1>4 DEF Stages
  <2> QED
    BY <1>4, <1>5, <2>1 DEF Stages
<1>6. Recorded(driver.at)'
  <2>1. PICK at \in Steps : at = campaign.index
    BY <1>3
  <2>2. Recorded(at)'
    BY <1>1, <1>3, <1>5, <2>1 DEF Recorded
  <2> QED
    BY <1>1, <2>1, <2>2
<1> QED
  BY <1>1, <1>6 DEF Driving, Reached, AtGate, Concluded

-----------------------------------------------------------------------------

LEMMA FusionStep ==
    ASSUME TypeOK, BatchOk, GateOk, Alone, RunsInv, OrderInv, FusionInv, AllSupplied, AllStaged,
           [Next]_vars
    PROVE  FusionInv'
<1> USE DEF outside, rows, work
<1>1. ASSUME UNCHANGED <<program, fusion, campaign, run, driver>> PROVE FusionInv'
  BY <1>1, SteadyFusion DEF RunsFixed, Slowed
<1>2. ASSUME UNCHANGED run \/ \E state \in {"failed", "cancelled"} : SettleRuns(state)
      PROVE  RunsFixed
  BY <1>2, SettledMove DEF RunsMove, RunsFixed
<1>3. ASSUME FinalizeCancellation
      PROVE  /\ UNCHANGED run \/ SettleRuns("cancelled")
             /\ campaign' = campaign \/ campaign'.state = "cancelled"
  BY <1>3 DEF FinalizeCancellation, TypeOK
<1>4. ASSUME FinalizeFailure
      PROVE  /\ UNCHANGED run \/ SettleRuns("failed")
             /\ campaign' = campaign \/ campaign'.state = "failed"
  BY <1>4 DEF FinalizeFailure, TypeOK
<1>5. CASE BatchThrows \/ AfterThrows
  <2>1. UNCHANGED <<program, fusion>> /\ \E others : CaughtBy(others)
    BY <1>5 DEF BatchThrows, AfterThrows
  <2>2. driver'.pc = "idle"
    BY <2>1 DEF CaughtBy, Rest, Drive, TypeOK
  <2>3. RunsFixed /\ Slowed
    <3>1. UNCHANGED <<campaign, run>> \/ FinalizeFailure
      BY <2>1 DEF CaughtBy
    <3> QED
      BY <1>2, <1>4, <2>2, <3>1 DEF Slowed
  <2> QED
    BY <2>1, <2>2, <2>3, SteadyFusion
<1>6. CASE Driver
  BY <1>5, <1>6, LoopFusion, ReturnsFusion, LandsFusion DEF Driver
<1>7. CASE Approve
  BY <1>7, ApproveFusion
<1>8. CASE Prune \/ (\E i \in Steps : ProcEnds(i)) \/ UNCHANGED vars
  BY <1>1, <1>8 DEF Prune, ProcEnds, vars
<1>9. CASE Crash
  <2>1. UNCHANGED <<program, fusion, campaign, run>> /\ driver'.pc = "idle"
    BY <1>9 DEF Crash, Halted, NoDriver
  <2> QED
    BY <2>1, SteadyFusion DEF RunsFixed, Slowed
<1>10. CASE CrashLaunching
  <2>1. campaign'.state = "running" /\ driver'.pc = "idle" /\ program' = program
    BY <1>10 DEF CrashLaunching, Halted, NoDriver, Begin, TypeOK
  <2> QED
    BY <2>1 DEF FusionInv, Driving, Reached, AtGate, Concluded
<1>11. ASSUME NEW i \in Steps, CrashSpawning(i) PROVE FusionInv'
  <2>1. /\ UNCHANGED <<program, fusion, campaign>> /\ driver'.pc = "idle"
        /\ run' = run \/ run' = [run EXCEPT ![i] = [state |-> "running", pid |-> FALSE]]
    BY <1>11 DEF CrashSpawning, Halted, NoDriver
  <2>2. run[i].state \notin {"none", "completed"}
    BY <1>11 DEF CrashSpawning, At, Executing, RunsInv, Begun, OrderInv, Told
  <2>3. \A j \in Steps : j # i => run'[j] = run[j]
    BY <2>1 DEF TypeOK
  <2> QED
    BY <2>1, <2>2, <2>3, SteadyFusion DEF RunsFixed, Slowed
<1>12. CASE Restart \/ \E i \in Steps : RecoverRun(i)
  BY <1>1, <1>12 DEF Restart, RecoverRun
<1>13. CASE RecoveryEnds
  <2>1. UNCHANGED <<program, fusion, driver>> /\ driver'.pc = "idle"
    BY <1>13 DEF RecoveryEnds, Alone
  <2>2. RunsFixed /\ Slowed
    <3>1. CASE campaign' = [campaign EXCEPT !.state = "recovery_required", !.fence = FALSE]
               /\ UNCHANGED run
      <4>1. campaign'.state = "recovery_required"
        BY <3>1 DEF TypeOK
      <4> QED
        BY <1>2, <2>1, <3>1, <4>1 DEF Slowed
    <3>2. CASE FinalizeCancellation \/ FinalizeFailure
      BY <1>2, <1>3, <1>4, <2>1, <3>2 DEF Slowed
    <3> QED
      BY <1>13, <3>1, <3>2 DEF RecoveryEnds
  <2> QED
    BY <2>1, <2>2, SteadyFusion
<1>14. ASSUME NEW i \in Steps, Execution(i) PROVE FusionInv'
  <2>1. /\ UNCHANGED <<program, fusion, campaign, driver>> /\ i \in Executing
        /\ \A j \in Steps : j # i => run'[j] = run[j]
    BY <1>14, ExecutionMoves
       DEF Execution, Launch, WorkReturns, WriteArtifact, WriteExtra, Removed, Throws
  <2>2. run[i].state \notin {"none", "completed"}
    BY <2>1 DEF RunsInv, Begun, OrderInv, Told
  <2> QED
    BY <2>1, <2>2, SteadyFusion DEF RunsFixed, Slowed
<1>15. ASSUME NEW c \in Cancels, CancelCall(c) PROVE FusionInv'
  <2>1. campaign' = campaign \/ campaign'.state \in {"cancelling", "cancelled"}
    BY <1>15 DEF CancelCall, BeginCancellation, TypeOK
  <2> QED
    BY <1>15, <2>1, SteadyFusion DEF CancelCall, RunsFixed, Slowed
<1>16. ASSUME NEW c \in Cancels, CancelEnds(c) PROVE FusionInv'
  <2>1. UNCHANGED <<program, fusion, driver>>
    BY <1>16 DEF CancelEnds
  <2>2. RunsFixed /\ Slowed
    <3>1. CASE campaign' = [campaign EXCEPT !.state = "cancelling", !.fence = TRUE]
               /\ UNCHANGED run
      <4>1. campaign'.state = "cancelling"
        BY <3>1 DEF TypeOK
      <4> QED
        BY <1>2, <3>1, <4>1 DEF Slowed
    <3>2. CASE FinalizeCancellation
      BY <1>2, <1>3, <3>2 DEF Slowed
    <3> QED
      BY <1>16, <3>1, <3>2 DEF CancelEnds
  <2> QED
    BY <2>1, <2>2, SteadyFusion
<1>17. ASSUME NEW c \in Cancels,
              CancelSeesQuiet(c) \/ CancelGivesUp(c) \/ \E i \in Steps : StopReturns(c, i)
       PROVE  FusionInv'
  BY <1>1, <1>17 DEF CancelSeesQuiet, CancelGivesUp, StopReturns
<1> QED
  BY <1>6, <1>7, <1>8, <1>9, <1>10, <1>11, <1>12, <1>13, <1>14, <1>15, <1>16, <1>17
     DEF Next, Recovery, Cancel

\* A fusion campaign is completed only when its plan was approved, its candidates
\* came together, by themselves or by the resolver, and its last phase is on the
\* record, in programs staged as the templates stage them: the driver leaves
\* a gate, and a merge, behind it only with the record of what became of it.
THEOREM FusionEndsWell ==
    ASSUME AllArranged, AllSupplied, AllStaged
    PROVE  Spec => []FusionConcluded
<1>1. Init => BatchOk /\ GateOk
  BY DEF Init, BatchOk, GateOk, NoDriver
<1>2. TypeOK /\ BatchOk /\ GateOk /\ LifeInv /\ RunsInv /\ OrderInv /\ FusionInv /\ [Next]_vars =>
        RunsInv' /\ LifeInv' /\ OrderInv' /\ FusionInv'
  BY RunsStep, LifeStep, OrderStep, FusionStep DEF LifeInv
<1>3. TypeOK /\ FusionInv => FusionConcluded
  <2> SUFFICES ASSUME TypeOK, FusionInv, IsFusion(program) PROVE FusionConcluded
    BY DEF FusionConcluded
  <2>1. AtGate /\ Concluded
    BY DEF FusionInv
  <2> QED
    BY <2>1 DEF FusionConcluded, AtGate, Concluded, Merged
<1> QED
  BY <1>1, <1>2, <1>3, LifeInit, RunsInit, OrderInit, FusionInit, BatchOkStep, GateOkStep,
     TypeCorrect, PTL DEF Spec
=============================================================================
