# A verification of puppenclaw

puppenclaw keeps coding-agent sessions for other programs: a daemon (or a
plugin process) starts provider processes for the turns of a session, records
what happens in `state.json`, and answers `start`, `send`, `stop`, `quiesce`,
`purge` and the other verbs over HTTP. What makes it hard is not any single
handler but that a turn runs for minutes outside every lock, that provider
processes outlive the daemon, that clients retry with a key and expect one
execution, and that operators close and purge sessions while all this goes on.

The modules here model that part of the program, TLC checks it on small
instances, and TLAPS proves theorems about it for every value of the constants.
Paths are those of the repository; the implementation is under `src/src`.

## The system

| Component | State | Operations | Talks to |
| --- | --- | --- | --- |
| Session state store (`shared/store.ts`, `shared/schema.ts`) | `state.json`: sessions, turn receipts per name and key, purge generations, quiescence fences and epochs, owner index and cleanups; the owner lease file; the read-only mode after a corrupt file | `mutate` serialises every mutator, validates the whole next state against the schema, writes by rename; some thirty mutators | everyone, through the manager |
| Session manager (`manager/acpx.ts`) | in memory, per name: lifecycle lock, active turn, keyed execution, turn id, stop request, child process; one admission lock and the capacity reservations | `start`, `send`, `stop`, `resume`, `suspend`, `focus`, `unfocus`, `fork`, `purge`, `quiesce`, `releaseQuiescence`, `gc`, `reconcilePersistedSessions` | store, provider processes, acpx, output router, usage ledger |
| Daemon server (`daemon/server.ts`) | none of its own | HTTP routes; cleanup of all sessions of an owner; start-up order: compute jobs, resource monitor, session reconciliation, campaign recovery | all |
| Daemon clients (`manager/daemon.ts`, `orchestrator/client.ts`) | a remembered health check | one request per call | daemon |
| Campaign orchestrator (`orchestrator/runtime.ts`, `store.ts`) | SQLite: projects, workers, campaigns, runs, artifacts, reassessments; in memory the running steps and commands | create, run, approve, cancel, recovery after a crash, parallel batches, retries, fusion phases, artifact pruning | session manager, commands, SQLite |
| Compute jobs (`compute/*`) | SQLite index, one `state.json` per job written by a detached supervisor and by the daemon | submit, get, cancel, reconcile; supervisor: spawn, heartbeat, wall time, termination | supervisor process, job process |
| Resource monitor (`resources/*`) | samples in SQLite, the previous counters | periodic sample, snapshot, history, prune | reads sessions, jobs and /proc |
| Output router (`shared/output-router.ts`) | a text buffer and subscribers per session | attach, detach, chunk, final, complete, error, clear | manager writes, HTTP streams read |
| Usage ledger (`shared/usage-ledger.ts`) | one row per turn in SQLite | append, totals | manager |
| Plugin front end (`plugin/*`) | singletons and their initialisation | commands, tools, gateway methods | manager, orchestrator |

What makes each correct:

* **Session store**: what a writer leaves is consistent across records; the
  identity of a key is never lost; generations and epochs grow; one owner of a
  data directory; a corrupt file is never silently replaced.
* **Session manager**: one dispatch per key; one provider process per session;
  a verb that reports the runtime closed leaves nothing alive; nothing of a
  purged session comes back; a quiesced session stays closed to callers that do
  not know it; every caller is answered and every verb returns, however many names
  and locks a call needs.
* **Daemon server**: an owner whose cleanup has begun gains no session, and a
  cleanup that reports success leaves none.
* **Campaigns**: a terminal state is final; a cancellation is never undone; a
  campaign that ended has nothing running; steps run in order and find what they
  read; recovery never declares work gone that may still run.
* **Compute jobs**: a job's command runs at most once; a job shown as ended
  runs nothing; a job that runs can be found and cancelled; every job ends, and
  a cancelled one soon.
* **Output router**: every subscriber gets the text in order and complete.

`PROJECT.json` lists, under `hazards`, where each of these could go wrong.

## The modules

* `StoredState`: the durable state of one session name and the store's
  mutators. A mutator is a guard (`CanClaim`: the mutator does not throw) and a
  result (`Claim`: the state it hands to the schema check). `Valid` is the
  schema's cross-record check.
* `SessionLifecycle` EXTENDS `StoredState`: the manager for that name, its
  clients, its operator, its provider processes, and crashes.
* `TurnLedger`: the promise to the clients of keyed turns, in three variables.
  `SessionLifecycle` implements it under the mapping at its end.
* `MCSessionLifecycle`: the instances TLC checks.
* `SessionLifecycle_proofs`, `SessionClosure_proofs`, `SessionReceipts_proofs`:
  the theorems about them, each module building on the one before: types, the
  lock and the keys; closings and processes; the receipts beside the session.
* `SiteSessions`: several sessions of one daemon together, which share the
  capacity limit, the admission lock, the locks of a fork and the account
  routes. `MCSiteSessions` has its scenarios, `SiteSessions_proofs` the theorem.
* `StateFile`: the directory of the state file and the processes that open it,
  one file operation at a time. `MCStateFile` adds the symmetry.
  `StateFile_proofs`: the theorems about it.
* `CampaignSteps`: what a campaign is to do: the steps its template expands to,
  which of them form a batch, which artifacts each reads and writes, and what
  its completion makes of a fusion campaign's record. It has no variables.
* `Campaign` EXTENDS `CampaignSteps`: one campaign, driven, approved, cancelled,
  crashed and recovered.
* `CampaignLife`: the promise to those who see only a campaign's state.
  `Campaign` implements it. `MCCampaign` has the programs TLC runs,
  `Campaign_proofs` the theorems about its types, its promise and its runs,
  `CampaignSafety_proofs` those about its end and the order of its steps.
* `ComputeJob`: one compute job id, between the daemon's runtime and the
  detached supervisor that runs its command. Its configurations instantiate it
  directly.
* `ComputeJob_proofs`: the theorems about it.

`SessionLifecycle` follows one name through crashes, keys and failed writes;
`SiteSessions` follows several names through the locks they share, and takes
each of these as given; a campaign sees of a session only that a turn of it is
at work, ends, or is stopped; `StateFile` is the ground under
`StoredState`, and knows a mutation only by its name.

### How SessionLifecycle corresponds to the code

| Model | Code |
| --- | --- |
| `store` | `SessionStore.state`, the file and the copy in memory, which change together |
| `mem.lock` | `withLifecycleLock` of the name: `"turn"` while a turn is admitted, `"op"` while a verb of `op` runs |
| `mem.active`, `keyed`, `turnId`, `child`, `stop` | `activeTurns`, `keyedTurnExecutions`, `activeTurnIds`, `activeTurnProcesses`, `stopRequests` |
| `mem.gc` | the loop of `gc` over the sessions it listed |
| `req[r]` | one call of `start` or `send`: its program counter, the generation and epoch it carries, the session its body has read |
| `op` | the verb that holds the lock: its program counter and what it read |
| `proc[r]` | the provider process group of that call's turn |
| `report`, `refused` | history: what the verbs told of the session (its runtime is closed, or a purge overlooked a turn; the last epoch reported); the schema refused a write |
| `Mutate(allowed, next, Then, Else)` | `mutate`: mutator, schema check, atomic write, or one of three throws |
| `Admit`, `EnterTurn`, `ClaimKey` | `runSessionTurn` under the lock |
| `Begin` ... `Spawn`, `RecordPid` | the bodies of `start` and `send` up to the provider process |
| `ReadExit`, `Finalize`, `RecordThrow`, `HandleStartThrow`, `ReleaseTurn` | the end of `runTurn`, `persistFinalTurnSession` and the end of `runSessionTurn` |
| `QuiesceBegin`, `PurgeBegin`, `CloseDrained`, `ProveClosed`, `RecordClosed`, `PurgeRemove`, `PurgeUnfence` | `quiesce` and `purge`, which share the closing of the runtime |
| `Restart` | the daemon's start, with `reconcilePersistedSessions` |

An action is the code from one await to the next. What is merged or abstracted:

* A store mutation and the continuation of its caller are one step. The store
  lets nobody read the next state before it is on disk, and it serialises
  mutators, so the file, the copy in memory and the next mutator agree on the
  order; between the rename and the caller's continuation other callbacks of
  the event loop may run, and the model lets them run before or after both.
* The lifecycle lock is FIFO in the code and taken in any order in the model,
  which has more behaviours. The one exception is liveness, see *Fairness*.
* Turn ids and process ids are the request that drew them; fingerprints are
  model values; time is a choice (a bounded wait may give up when `Timeouts`).
* With `KillsWork` a signalled process group is gone when the drain gives up
  (SIGKILL after half its window), so a drain that times out leaves no child.
* `idle` and `waiting_input` are one state; a turn's output, cost, provider and
  warnings are left out, and so is everything that only shapes them.
* Of the tombstones of a name the model keeps the claimed keys and not the
  order in which they were compacted.

### How SiteSessions corresponds to the code

| Model | Code |
| --- | --- |
| `sess[n]` | what `state.json` keeps of a name: connected, suspended or ended, its owner, focus lease, quiescence fence, and whether it was quiesced before |
| `cleanup[o]` | `ownerCleanup.scopes`: the state and the `operationKey` of an owner's cleanup |
| `lock[n]`, `admission`, `routes[o]` | the promise chains `lifecycleTails`, `admissionTail`, `ownerCleanupTails` |
| `active`, `stopping`, `reserved`, `claims` | `activeTurns`, `stopRequests`, `capacityReservations`, `forkTargetClaims` |
| `call[c]` | one request: the await it stands at and what it holds meanwhile |
| `AdmitTurn` ... `ReleaseTurn` | `withSessionTurnLock` around the bodies of `start` and `send`; `Publish` is `upsertSession`, with the owner's fence |
| `Admit`, `Evict`, `Evicted` | `ensureConnectedCapacityWithAdmissionLock`, which suspends an idle session under its lock |
| `Resume`, `Relock`, `Resumed` | the loop of `resume`: reserve without the lock, look again under it |
| `Stop`, `Stopped`, `DrainExpires` | `stop` and the deadline of `waitForActiveTurnDrain` |
| `ClaimTarget`, `LockEarlier`, `PrepareFork` | `fork`, with both locks taken in the order of names |
| `BeginRoute`, `Visit`, `Closed`, `EndVisits` | `/sessions/owner/quiesce` and `/purge`, and a `purge` by itself |

Only persistent runtimes are followed (a one-shot session is not charged to the
capacity). The least recently used candidate is any candidate, a lock is taken
in any order under weak fairness, a request and its admission are one step when
the lock is free, and turn keys, crashes and failed writes are left to
`SessionLifecycle`. A scenario fixes which four calls are made; when and in what
order they proceed is free.

### How StateFile corresponds to the code

| Model | Code |
| --- | --- |
| `lease` | `.state-owner.json`: whose it is and whether it is written whole |
| `pc[p]` | where a process is in `SessionStore.open`, in the store's queue or in `close` |
| `Create` ... `MoveLease` | `acquireOwnerLease`, call by call, with its eight tries |
| `Load`, `Quarantine` | `loadStoredState` and `recoveryState` |
| `Ask`, `Rename`, `Acknowledge` | `mutate` and `resetRecovery`: the queue, `writeJsonFileAtomic`, the copy in memory |
| `Close`, `Drain`, `CheckLease`, `UnlinkLease` | `close` and `releaseOwnerLease` |
| `Crash`, `Damage` | a process that dies, and a file that a host crash or another version leaves |

A state is the set of the mutations it has seen, so what is lost can be named.
A process opens the directory once; one that comes back is another process.

### How Campaign corresponds to the code

| Model | Code |
| --- | --- |
| `campaign`, `fusion`, `run[i]`, `artifacts` | the rows in SQLite (`orchestrator/store.ts`) and the artifacts' files |
| `driver` | the call of `executeCampaign`, inside `driveCampaign`: at the top of its loop, in a batch, or in `afterCompletedSteps` |
| `exec[i]` | `executeTrackedStepRun` of a step with its retries: building the prompt, at work, writing its artifacts, removing them |
| `proc[i]` | the command, research command, git merge or provider turn of the step |
| `call[c]` | one `cancel`: the stops it still waits for, whether it saw the executions end, whether it could prove the end |
| `recovery` | `recoverInterruptedCampaigns` of a starting daemon |
| `DriverLoop`, `BatchReturns`, `BatchThrows`, `AfterLands`, `AfterThrows` | `executeCampaign` from await to await, `completeCampaignStep`, `failCampaign`, `afterCompletedSteps` |
| `Launch`, `WorkReturns`, `WriteArtifact`, `WriteExtra`, `Removed` | `executeStepWithRetries` and the writing and removing of artifacts |
| `CancelCall` ... `CancelEnds` | `cancel`, with `beginCampaignCancellation` and `finalizeCampaignCancellation` |
| `Crash`, `CrashLaunching`, `CrashSpawning` | the daemon dying at an await, or between a spawn and the record of its pid |

The templates are expanded as `buildSteps` and `prepareFusionCampaign` do. A
transaction of SQLite takes no await and is one step. As in `ComputeJob`,
`mishaps` records the disturbances of a behaviour: `stale` (a fusion step's
completion stored the campaign as it was before its awaits), `orphan` (a step
threw and left others of its batch at work), `overlap` (a cancel that gave up
wrote its fence over what another one had finalised), `crash` and `fault`. The
first three are weaknesses of the program, and a property that names one fails
in TLC without it.

Abstractions: the session manager is a turn that is at work until it ends or is
stopped; a process has no group that outlives it; a cancel whose idle shared
session cannot be stopped is a fault; pruning takes whole steps, the older ones
first; what `afterCompletedSteps` writes counts from the moment the campaign
refers to it; a project's worktrees and what git finds in them are the choice
between a clean merge and a conflict.

### How ComputeJob corresponds to the code

| Model | Code |
| --- | --- |
| `row` | the job's row in `compute.sqlite`: state, supervisor pid and start ticks |
| `file` | `state.json` in the job's directory, rewritten by rename by both sides |
| `call[c]` | one `submit`, `get`/`logs`, `cancel`, or the reconciliation of `open`: the await it stands at and the record it holds meanwhile |
| `sup[s]` | the supervisor that submission `s` spawned: where `supervisor-cli.ts` stands, `terminationReason`, and its pending timers (wall time, SIGKILL) and unawaited heartbeat |
| `child[s]` | the job's command under `bwrap --die-with-parent` |
| `aged` | more than 5 s since the file's `submittedAt`, the age at which a job without a live supervisor counts as orphaned |
| `SubmitCall` ... `SubmitRecord` | `submit`: look for the row, write the file, upsert and spawn, upsert the supervisor |
| `ReadFile`, `Probe`, `WriteOrphan`, `StoreOrphan` | `reconcile`, from await to await |
| `CancelMatch`, `CancelSignal` | `cancel` after its reconciliation |
| `SupStart` ... `SupExit`, `Beat`, `WallTime`, `KillFires` | the supervisor's main line, its heartbeat and `stopChild` with its timers |

`mishaps` records the disturbances of a behaviour: overlapping submissions
(`raced`), a call that meets a row without its supervisor (`early`), a daemon
that dies between the spawn and its record (`cut`), a step of the program that
takes as long as a five-second timer (`slow`), a failed write or spawn
(`fault`). A property names the disturbances it does not survive and has to
hold under all the others. Each name in them is needed: without it TLC finds a
counterexample, and these are the component's known weaknesses:

* `raced`: both submissions see no row and both spawn a supervisor; each
  overwrites what the other stored.
* `early`: a cancel that meets the queued row finds no supervisor to signal,
  marks the row alone, and the job starts.
* `cut`: the restarted daemon does not know the supervisor until the file names
  it; a cancel in that time touches the row alone as well.
* `slow`: the reconciliation judges a supervisor missing that is about to name
  itself, and its "orphaned" and the supervisor's next write overwrite each
  other; or SIGKILL is due before there is a child to receive it.
* `fault`: the supervisor's catch block writes a verdict and leaves the command
  running without a wall timer.

Abstractions: one job id; the validation in `submit`, log contents, resource
figures and the sandbox's arguments are left out; the signal to the process
group and the one to the child are one; a signalled command may exit at any
time (`ChildExits`) and has to when SIGKILL fires; a graceful close of the
daemon is a crash, since supervisors are detached and nothing is flushed.

## What is checked

| Run | Instance | Question | Distinct states |
| --- | --- | --- | --- |
| `KeyedTurns` | two requests with one key; stop, purge, focus; one crash, one failed write | `TypeOK`, `AtMostOneDispatchPerKey`, `AnswersAreDurable`, `NoTurnOutlivesPurge`, `ImplementsLedger` | 1.1 million |
| `UnkeyedTurns` | an unkeyed start and send of a one-shot agent; stop, quiesce, release, purge, resume, gc; two epochs, one crash | `OneLiveProcess`, `ClosedMeansDead`, `EpochGatesTurns`, `PurgeForgetsNothingAlive`, `FencedSessionFrozen`, `ClosureIsReported` | 1.6 million |
| `TwoKeyedTurns` | two keys, room for one outcome; stop, purge, resume, suspend, quiescences of other names | `NothingRefused`, `VerdictIsFinal`, `TerminalTurnStaysTerminal` | 200 thousand |
| `VerbsAndCallers` | two requests with one key; stop, quiesce, purge; one crash; fairness, no time limit | `VerbsReturn`, `CallersAnswered` | 86 thousand |
| `JobCalls` | one submission, a poller, a cancel; one trouble; fairness | `TypeOK`, `EndedMeansGone`, `CancelEndsJob`, `EveryJobEnds` | 460 thousand |
| `JobResubmitted` | the same job id submitted twice; two troubles | `RunsOnce`, `OrphanedMeansGone`, `LiveJobIsReachable` | 3.4 million |
| `FusionCampaign` | the four shapes of a fusion campaign; one cancel, two troubles | `TypeOK`, `EndedMeansStill`, `StepsInOrder`, `NothingMissing`, `FusionConcluded`, `CancelledLeavesNothing`, `ImplementsLife` | 240 thousand |
| `MixedCampaigns` | parallel experiments with a retry, two gates in a phase group, a loop, research by a turn and by a command; two cancels, two troubles; fairness | `ParkedMeansSettled`, `RunsSettleOnce`, `CancelSettles`, `CampaignSettles` | 64 thousand |
| `StateFile` | three processes, two mutations, two resets, three tries for the lease, three troubles | `TypeOK`, `OneOwner`, `NothingLost`, `RefusedRightly` | 530 thousand |
| `SiteSessions` | three names, two owners, room for one runtime; twelve scenarios of four calls on three sites; fairness | `CallsAnswered`, `ScopeStaysClosed` | 72 thousand |

The bounds. Two requests are enough for a duplicate, for a request that waits
behind another one, and for a turn after a turn; a third would only repeat one
of these roles, since a name has one active turn. One crash separates every
pair of steps once; a second crash meets the same store and processes as the
first. One failed write can hit any one write. One purge (`MaxGeneration = 1`)
separates before and after. Two epochs, in `UnkeyedTurns`, let a request carry
none, the one last reported, or an older one; `MaxEpoch` is reached, so
exhaustion is part of every run. With one key in `KeyedTurns` and two in `TwoKeyedTurns` the
exclusion between keys and the outcome limit both occur. For a job, two
submissions are a client and its retry; a poller comes back for ever, so one is
every sequence of polls, and with the cancel and the opening reconciliation two
reconciliations overlap. `MaxTroubles` bounds the crashes and
failures of a behaviour together: for a job two allow a crash in the middle of a
submission and a killed supervisor after it, for a campaign a crash during the
recovery of another one, for the state file a crash, a damaged file and a
failing call after it. Two cancels overlap, a third would meet what the second
did. Three processes let two judge the lease of a third; three tries are enough
to run out of them (the code has eight). With room for one runtime every
admission needs an eviction, and four calls are what the longest chain of waits
has: an admission, the verb that holds its victim, the victim's turn, and one
that comes between. `Calm` weakens a
property only in behaviours with the named disturbance, and the bounds leave
room for the undisturbed ones. The runs do not check for deadlock because an
idle daemon without further requests has nothing to do.

Two runs show a disagreement between the code and what a comment or a test
says; each is a `finding` in `PROJECT.json`.

| Run | What TLC finds |
| --- | --- |
| `CollectRunningTurn` | `gc` looks at the turn maps, then waits for the lock in `purge`. A turn admitted in between is drained and its session removed. |
| `OwnersRace` | Two processes judge the lease of the same dead owner. The first moves it away and creates its own; the rename of the second moves that one away, and both serve the directory. |

### Known weaknesses

TLC showed these as well. None has a run of its own: most are behind a name in
`mishaps`, and to see one remove its name from the `Calm` of the property.

* A keyed turn survives a restart: `quiesce` proves the runtime closed, marks
  the turn stopped (`acpx.ts:3537`) and leaves its running receipt, and the
  schema refuses that write every time. (In `UnkeyedTurns`, with a keyed request.)
  A purge of such a session, whose daemon crashed under a keyed turn, meets the
  same refusal. (`NothingRefused`, with `purge`, keys and a crash.)
* A turn drained by `quiesce` cannot record its end behind the fence, so its id
  stays in `activeTurnIds` (`acpx.ts:5328`), and the link of the turn that
  resumes the session with that id is refused. (`NothingRefused`, with `quiesce`
  and its epoch among the calls.) The same happens when a purge gave up waiting
  for the turn, which ended behind the fence, and the fence is then released by
  its epoch. (`NothingRefused`, with `purge` and `release`.) A turn whose end or
  whose pid could not be recorded ends without clearing its id too, and the next
  turn shows it running again. (`TerminalTurnStaysTerminal`, with `stop` and a
  failed write; without keys also with `quiesce`, or with `purge`, `release` and
  `stop`.)
* A purge gives up waiting for an initial start that is still at work. The next
  purge finds no session, releases the fence of the first, clears the stop request
  and answers `purged: true` without a look at the turn maps it has read
  (`acpx.ts:2695`): the start publishes its session and spawns its process, against
  "without allowing a delayed dispatch to reopen it" (`src/README.md:386`).
  `PurgeAgain` records such an answer as `overlooked`, and `ClosedMeansDead` leaves
  out exactly this success: with `report.runtime # "open"` for `Closed` TLC
  violates it in 12 steps, in `UnkeyedTurns` as well as with `purge` alone and no
  crash.
  `NoTurnOutlivesPurge` tells purges by the generation they begin; this answer
  removes nothing and begins none.
* `suspend` of a one-shot session whose turn survived a restart changes the state
  by which `quiesce` judges closure (`acpx.ts:3471`), which then reports the
  runtime closed while the survivor runs. (`ClosedMeansDead`, with `suspend`.)
* The pid of a process that was just spawned cannot be recorded, because the
  write fails or because a closing fenced the session meanwhile. The turn then
  ends (`acpx.ts:4745`) and its process stays, alive and without a prompt. After a
  failed write the next turn starts beside it, or a stop reports the session
  closed. Behind a fence the closing still drains the process; but a keyed turn
  settles its receipt and marks the session failed there (`acpx.ts:3077`), and if
  the daemon dies before the drain is over, the next one finds nothing to fence.
  (`OneLiveProcess` and `ClosedMeansDead`, with a failed write, or with keys, a
  `quiesce` or `purge` and a crash; one-shot processes are then forgotten alive,
  which breaks `ImplementsLedger` too.)
* `focus` writes back a session it read before a turn published itself
  (`acpx.ts:2336`). The stored session then does not show the turn, and after a
  crash its process is not fenced. (`OneLiveProcess`, with `focus` and a crash.)
  If the turn is keyed and linked its receipt in between, the schema refuses what
  `focus` writes, and `focus` fails (`NothingRefused`, with `focus`); if it
  ended in between, the stored session shows it running again
  (`TerminalTurnStaysTerminal`, with `focus`).
* A process that ignores its signals outlives the drain of a `quiesce`. The
  quiesce fails, but the turn may have ended behind its fence, and one that
  carries its epoch then starts beside the process. (`OneLiveProcess`, with
  `KillsWork` FALSE.)
* A damaged state file opens read-only, but the mode is only in memory: the
  process after the next restart finds no file and serves an empty state without
  a reset (`store.ts:748`). What was acknowledged is still in the quarantined
  file, which is what `NothingLost` says.
* The turn that ends gives back a capacity reservation by name (`acpx.ts:3246`).
  When a start fails, a resume may reserve for the name between the write of the
  failure and the release, and its reservation is dropped: two runtimes are then
  connected with room for one. `SiteSessions` has these behaviours and no
  property forbids them.
* A cleanup that fails leaves its session fenced and connected. An admission that
  picks it as its victim is refused by the fence and fails, again and again.
* A fork of a session without an owner stays without one when its source is
  adopted by an account meanwhile.
* An admission that waits for its victim's lock, a `stop` that holds it and waits
  for the victim's turn, and that turn waiting for the admission lock wait in a
  circle. Only the deadline of the drain ends it: `CallsAnswered` fails without.
* A configured research command runs for steps that name the executor `acp`
  (`runtime.ts:2215`). Recovery goes by the executor (`runtime.ts:411`), finds no
  such session and fails the campaign while the command runs; the model allows
  for it in `Unseen`, no program of `FusionCampaign` has such a step, and
  `EndedStill` supposes that there is none (`Traceable`).
* A command killed by a signal closes without an exit code and counts as exit 0
  (`runtime.ts:4058`); the model's `WorkReturns` lets a killed command count as
  a success for that reason.
* The limit on campaigns is checked before `prepareFusionCampaign` awaits, so two
  calls may both pass it (`runtime.ts:697`).

### Fairness

`FairSpec` assumes weak fairness of every continuation of an admitted turn, of
the verb that holds the lock, and of the restart: these are promises of one
Node.js process whose external commands have time limits. It assumes strong
fairness of `Admission`: the lock is a FIFO promise chain, so a caller that
waits gets it although others keep taking it. `ClosedExit` is the only fairness
on provider processes: the one a verb waits for is being signalled. Nobody has
to call a verb, and `CallersAnswered` assumes explicitly that providers end.

`ComputeJob`'s `FairSpec` assumes that a call once made goes on, that the
supervisor's main line, a heartbeat already taken and the timers go on, that
five seconds pass, that a daemon that died is started again, and that a poller
comes back: a job's end reaches the row only when somebody asks. Nothing
obliges the command to exit, anybody to cancel, or a heartbeat to start.

`Campaign`'s `FairSpec` assumes that the driver, the recovery, each execution
together with its process, and each cancel that was called go on: all of them
are chains of promises of one process whose commands have timeouts or are
killed, and a daemon that died is started again. Nobody has to approve, cancel
or prune. `SiteSessions` assumes weak fairness of each call by itself: with
finitely many calls no lock is taken from a waiting one for ever. `StateFile`
and the refinements state safety only.

## What is proved

`SessionLifecycle_proofs`, for every choice of keys, requests, verbs and
bounds, from the assumptions of `StoredState` and `SessionLifecycle`:

* `TypeCorrect`: `Spec => []TypeOK`. `TypeOK` is not inductive: that a stored
  receipt keeps its type when a turn ends needs the execution in `mem.keyed` to
  be a keyed one. `TypeInv` adds that (`KeysHeld`). The store's mutators have a
  lemma each (`SettledType` ... `FenceType`), the control flow has two
  (`TurnMoves`, `VerbMoves`), and every action one step.

It goes on to prove four more of the checked properties:

* `NoTurnAfterPurge`: `Spec => []NoTurnOutlivesPurge`;
* `DispatchedOnce`: `Spec => []AtMostOneDispatchPerKey`;
* `AnswersDurable`: `Spec => []AnswersAreDurable`;
* `VerdictsFinal`: `Spec => VerdictIsFinal`.

None of these is inductive. The invariant `Inv` that carries them (`InvCorrect`)
joins `TypeInv` to two arguments:

* `LockInv`, the lock: a turn under admission holds it alone, so it still sees
  the generation it checked and no other turn is active; a turn stays the active
  one until it releases itself; a verb holds the lock from its first step to its
  last, so that once it saw the turn drain (`prove` ... `unfence`) no turn has
  come in and the removal meets none.
* `ClaimInv`, the claims: a request in whose name a process was started, or may
  be, has a receipt that is not free, as long as its generation is the
  session's. A second request of the key, which only claims a free receipt, then
  cannot work in that generation. The receipt is kept because every mutation
  but the removal keeps claims and verdicts (`Kept`, with one lemma per mutator
  and one for the reconciliation), and a removal makes every earlier generation
  an old one.

Every action is one of a few kinds, and each kind keeps the invariant for one
reason: a step of a turn's body (`BodyStep`), of a verb (`VerbStep`), a request
that leaves the admission (`OutsideStep`). `Call`, `Admit`, `EnterTurn`,
`ClaimKey`, `ReleaseTurn`, `PurgeRemove`, `Exit` and `Crash` have a proof of
their own. `VerdictIsFinal` follows from `Kept` as well.

`SessionClosure_proofs` is about what a stop, a quiesce or a purge may rely on
when it reports a session closed. Each group of theorems has an invariant of its
own, and each of these is shown to stay by one lemma per kind of step (turns,
verbs, crash and restart).

* `QuietCorrect`, `EpochsGateTurns` (`Spec => []EpochGatesTurns`) and
  `FencedIsFrozen` (`Spec => FencedSessionFrozen`) hold for every constant.
  `Ground` says what a verb is at each of its steps, that nothing of a daemon is
  left when it is down, and that the closing that holds the lock holds the fence
  (`FenceInv`, which includes `Valid(store)`: what is on disk passed the schema).
  `FenceInv` orders the epochs too: what was reported is at most what any turn at
  work carries, and that is at most the latest one given out. A closing reports
  the epoch it holds, which is none that is still to be given out, when no turn
  is in (`TurnsReport`), and a turn enters with the latest one or is refused.
  `QuietInv` adds that between the report and the next turn no turn is in,
  nothing is being closed, and what lies behind a fence is at rest.
* `ClosuresReported` (`Spec => ClosureIsReported`) assumes that no request
  carries a key (`Unkeyed`). Then no receipt runs (`NothingClaimed`) and the
  schema refuses nothing that a closing records (`ClosureValid`). With a key it
  is false, see *Known weaknesses*.
* `PersistentPurge` (`Spec => PurgeForgetsNothingAlive`) and `LedgerImplemented`
  (`Spec => ImplementsLedger`) assume a persistent runtime (`~OneShot`), and
  nothing about crashes, failed writes, signals or waits. `PersistInv`: a live
  process belongs to a session that is there and was not purged since, and past
  the proof of a closing there is none. The refinement of `TurnLedger` adds
  `ReceiptInv`, which places the receipt of a turn at each of its steps, and maps
  each step to `Dispatch`, `WorkEnds`, `Forget`, `Claim`, `Settle` or a stutter.
* `OneProcess` (`[](Undisturbed => OneLiveProcess)`), `ClosedIsDead`
  (`[](Undisturbed => ClosedMeansDead)`) and `PurgeIsClean`
  (`Spec => PurgeForgetsNothingAlive`) are about one-shot processes as well and
  assume that signals end work (`KillsWork`). `ClosedIsDead` is about every
  success but that of a purge which overlooks a turn at work (see above).
  `Undisturbed` states what else they need: no write failed, and no daemon
  crashed unless the requests are `Plain` (no keys, no focus, no suspend). Each
  condition is necessary: see below. `DrainInv` relates the process that the
  manager knows to the turn or to the closing that waits for it. Without a
  crash there is no other process (`AllKnown`, `SurvivorsLeft`). A crash leaves
  one behind at most, and then the record must show it: `Recorded` says that
  while a turn is at work the stored session is shown running, with its pid or
  none, without a fence. `Cornered` is what becomes of such a survivor: the
  next daemon fences it, no turn gets past the fence, and a verb that meets it
  neither proves it gone nor reports the session closed.
* `LedgerUndisturbed` (`Spec => ImplementsLedger`) is the refinement of
  `TurnLedger` for one-shot processes as well, without failed writes, and without
  crashes unless the requests are `Plain`. What the steps of the refinement need
  of the processes is only that those alive are of one generation
  (`OneGeneration`) and that a removal meets none (`PurgeMeetsNothing`);
  `LedgerStep` is proved from these two and serves both theorems.

`SessionReceipts_proofs` is about two records that several writers keep in step,
the session with its turn and the receipts of the keys. The question is what the
schema would have to refuse and what it cannot see.

* `CoherentCorrect` (`Spec => []Coherent`) is the invariant behind the rest, for
  any keys, failed writes and crashes, and any verbs but `focus`. `StoreInv` says
  of every stored state that the order of outcomes lists the settled keys once
  each, that a running receipt has no outcome yet and room for one, and that an
  absent session has no turn and no receipt with one. `TurnOk` says of a turn at
  work, by the place where it is, whether its receipt is linked and to which id,
  that no receipt runs but its own, that the session it belongs to is there, and
  that the reading it builds a record on is what is still stored. No record knows
  the id of a request that has not drawn one (`Undrawn`).
* `WritesAccepted` (`Spec => [](faults = 0 /\ OwnReceipts => NothingRefused)`):
  the schema refuses nothing as long as no write failed and what a purge closes
  was run by the same daemon, for verbs that are `Ordinary`: no `focus`, no
  `quiesce`, and no `release` beside a `purge` or `gc`. It takes one lemma for
  each kind of write (`SessionValid`, `SettledValid`, `ClaimValid`, `LinkValid`,
  `ReconciledValid`, `RemoveValid`, `FenceMovesValid`). The one that needs history is the
  link, which is valid because the id in `activeTurnIds` is `Fresh`: nothing that
  ended has it, and until its turn is about to publish nothing has it at all. A
  purge is accepted because its manager still holds the execution of every receipt
  that runs (`Tended`), so none does once the turn has drained.
* `EndedTurnStaysEnded` (`Spec => [][faults = 0 => TerminalStays]_vars`): under
  the same conditions, crashes and purges included, no step shows a turn that
  ended as running. The schema does not help here when the turn has no key.
* `NothingIsRefused` (`Spec => []NothingRefused`) and `TerminalTurnCorrect`
  (`Spec => TerminalTurnStaysTerminal`) are the two for `MaxFaults = 0`, the
  bounds of `TwoKeyedTurns`, whose constants have what they suppose.
* `UnkeyedNotRefused` (`Spec => []NothingRefused`) needs none of this where no
  request carries a key: with every verb, `focus` and `quiesce` included, and with
  any failed writes and crashes. `Keyless` says that no receipt is in use and that
  no reading that a turn or a verb still holds shows a keyed turn.

Each condition of these is necessary. TLC has a counterexample to both properties
with `focus`, with `quiesce`, with `release` beside a purge, and with a failed
write, and one to `NothingRefused` with a crash before a purge; all are under
*Known weaknesses*.

`ComputeJob_proofs` proves, for any number of calls and troubles:

* `JobTypeCorrect`: `Spec => []TypeOK`;
* `StartedOnce`: `Spec => []RunsOnce`;
* `OrphansAreGone`: `Spec => []OrphanedMeansGone`;
* `EndsAreReal`: `Spec => []EndedMeansGone`;
* `RunningIsReachable`: `Spec => []LiveJobIsReachable`.

The invariant `IInv` of the first three joins `TypeOK` to three arguments. `Held`: what a call at
each await holds. `Alone`: without overlapping submissions, the row is stored
before any supervisor exists and never forgotten, so one submission at most
gets past its first look and only its supervisor is ever up. `Judged`: a call
that judged a supervisor missing judged one that was gone for good, for the
record it held named it, or the file was old enough that a supervisor without a
name must have ended. The steps of the supervisor are all of one kind there
(`Shift`) and so are those of a call past its first look (`Turn`); each kind
preserves the invariant once.

The last two need more, because any call may store a record it read before its
awaits. `EInv` (`JobEndsCorrect`) says that, without failures, a command runs only between
the spawn and the verdict of its supervisor (`Working`), and that until the
verdict the file is that supervisor's (`Reached`); that every record names a
supervisor which was started (`Named`); and that a record with an end, in the row, in the
file or in the hands of a call, is there only when the supervisor is past its
verdict, and one without a supervisor only where none was started or the
submission is yet to record it (`Ended`). `Moves` and its counterpart for the
calls reduce the actions to what they change.

`StateFile_proofs` proves, for any number of processes, mutations, resets,
tries and troubles:

* `StateTypeCorrect`: `Spec => []TypeOK`;
* `OneOwnerAtATime`: `Spec => []OneOwner`;
* `AcknowledgedIsKept`: `Spec => []NothingLost`;
* `RefusedForOthersOnly`: `Spec => RefusedRightly`, for a finite set of processes
  that is not larger than the number of tries.

Its invariant `IInv` (`InvCorrect`) joins `TypeOK` to five arguments. `Trying`: a
process that has tries left has not used them up. `Judged`: the owner a process
is about to overcome is dead, since the dead do not come back. `Owned`: a
process past the lease is the lease's owner, so there is one; this is what a
moved lease that was not judged breaks. `Queued`: what a queue holds was asked
for. `Served`: a store that serves has in memory what the file holds, and the
file and the quarantined ones together hold what was acknowledged.

The refusal needs a count. `RefusalInv` says that a process judges only the
leases of others (`Foreign`), that a lease that is not whole is being written
unless its writer died (`Torn`), and that each try has done with one more owner
that has ended for good (`Spent`): a process that has used up its tries would
have outlived as many others as there are tries. With more processes than tries
the property is false: as many owners as it has tries can come and die in turn
under a process that is merely slow, which then gives up a directory nobody uses.
The code has eight tries.

`Campaign_proofs` proves, for any programs, cancels and troubles:

* `TypeCorrect`: `Spec => []TypeOK`;
* `LifeImplemented`: `Spec => ImplementsLife`, the refinement of `CampaignLife`;
* `EveryRunSettlesOnce`: `Spec => RunsSettleOnce`.

`TypeOK` needs two facts about a batch and a gate (`BatchOk`, `GateOk`).
`LifeInv` carries the refinement: a campaign whose driver is at work is running
or being cancelled (`DriverLife`), unless a completion is about to store a stale
record; a daemon in recovery finds what was interrupted (`RecoveryLife`); and
there is one driver (`Alone`). `RunsInv` carries the third: runs of steps ahead
of the driver have not begun (`Ahead`, `Begun`), an execution at work has a run
that counts as active (`Driven`), one without an execution was settled or waits
for a recovery (`Deserted`), and a campaign that ended or waits has no active
run (`Parked`, `Minded`).

`CampaignSafety_proofs` builds on these invariants and proves

* `ParkedSettled`: `Spec => []ParkedMeansSettled`;
* `EndedStill`: `Spec => []EndedMeansStill`, for programs that are `Traceable`;
* `OrderKeeps`: `Spec => []StepsInOrder`, for programs that are `Arranged`;
* `CancelledIsClean`: `Spec => []CancelledLeavesNothing`;
* `StepsFindInputs`: `Spec => []NothingMissing`, for programs that are `Arranged`
  and `Supplied`;
* `FusionEndsWell`: `Spec => []FusionConcluded`, for programs that are also
  `Staged`.

`ParkInv` carries the first, in four parts. `Attended`: a cancel that waits finds
the campaign being cancelled, and what it saw quiet stays quiet, because nothing
begins while a campaign is cancelled. `Engaged`: a driver at work has a campaign
that is running or being cancelled, or that it completed itself. `Accounted`: an
open run has an execution, or one that threw and of which the driver's batch has
yet to hear. `Still`: the property, so far as it is about runs. `KeptInv` follows
what was started across a crash: while the daemon is up, something alive has an
execution that waits for it; while it is down, an open run of an interrupted
campaign, for executions that are at work keep their runs open; during a
recovery, a run that the recovery has yet to look at, or the verdict that the
campaign is left to an operator (where it stays, `RequiredStays`). The theorem
needs `Traceable`: a research command under a step of the executor `acp` is
what a recovery does not see, as listed under *Known weaknesses*.

`OrderInv` carries the order. It says that all before the driver is done
(`Behind`), and all before a gate where a campaign waits (`BehindGate`), that an
execution completes its run when it finishes and not before (`Told`), and that a
batch ends before the step the driver goes on to (`BatchBehind`). `BatchFills` is what makes adding the size
of a batch right: a batch has no gaps.

`LeaveInv` carries `CancelledIsClean`. Only a failing write makes a step throw
(`Unthrown`), so without one no batch leaves executions behind; and every
artifact of a step belongs to a run that completed, or is the first of an
execution that has its second one yet to write (`Owned`) and removes both when
it finds the campaign being cancelled. A cancel shows the campaign as cancelled
only when nothing executes.

`StockInv` carries `StepsFindInputs`: a run that completed has left its
artifacts, and an execution that is about to write its second one has left the
first (`Stored`); what the driver has passed has been through its synthesis
(`Joined`), where `AfterBatch` says which batch a synthesis is about; and a
batch that left others at work has ended the campaign (`Orphaned`).
`ArtifactsKept` shows that nobody removes artifacts of a campaign that goes on,
and `Supplied` is what the code leaves to the order of the template: that what
a step reads is written by steps before it.

`FusionInv` carries `FusionEndsWell` and needs no step to be calm. `Recorded`
says what the record says of the steps before the driver, a gate by its
approval and a merge by the run of the resolver or the clean integration;
`Reached` that the driver, and a completion under way, are where the record
says; `Driving` that nobody drives a campaign that failed or waits, so that no
record is finished twice. `Staged` gives the two places that matter, the gate
and the integration (`HasStages`), and one lemma for each step of the driver
follows the record there (`LoopFusion`, `ReturnsFusion`, `LandsFusion`);
`AfterStepsRecord` states what each completion does to it.

What these theorems suppose of programs (`Arranged`, `Traceable`, `Supplied`,
`Staged`) is stated in `CampaignSteps`, and TLC evaluates it for the templates
(`TemplatesFit`): they have all of it, but for a literature review with a
configured research command, which is not `Traceable`. A custom program may lack
any of it.

`SiteSessions_proofs` proves, for any sessions, owners, requests and capacity:

* `ScopeClosed`: `Spec => ScopeStaysClosed`.

Most writes of a session need it to be there already, and what makes it stay
there while a call waits is not in the write but in the locks. So `IInv` says
which steps each verb goes through (`InCourse`), that a turn is its name's active
one from its admission to its release and has a session while it runs
(`InTurn`), and that a call that closes, connects or drains a session holds the
lock of its name, and finds it (`UnderLock`). Every action is shown to leave the
other calls their place, locks and turns, and the sessions these protect
(`Orderly`), which is why a removal has to wait for the turn and hold the lock;
and to bring no session of a closed scope (`ScopeStep`), for which
`PublishKept`, the one write that can bring a session, needs the rule of the
store.

Only model-checked:

* liveness, which is beyond the proof system used: `VerbsReturn`,
  `CallersAnswered`, `CancelEndsJob`, `EveryJobEnds`, `CancelSettles`,
  `CampaignSettles`, `CallsAnswered`;
* of the sessions, what the theorems above exclude and TLC does not refute:
  processes that ignore signals for the refinement of `TurnLedger` by one-shot
  processes (two keys, no crash and no failed write: no counterexample). With a
  failed write, or with a `quiesce` and a crash, TLC finds a process whose pid
  was not recorded and which a purge forgets alive: see *Known weaknesses*.

Every other property of a passing run is the statement of a theorem.

## Not modelled

* Building prompts and commands, parsing provider output, reasoning profiles,
  redaction, formatting, the plugin's command parsing, the HTTP layer's schemas
  and streams: conversions without state.
* Reassessments, and the synchronisation of projects, workers and contexts, in
  the orchestrator: sequences of single writes that nothing else waits for.
* The resource monitor and the usage ledger: readers and an append-only table;
  no other component decides by what they store.
* The output router: buffered text in order. Its hazard, two flushes of one
  buffer at the same time, is listed.
* Exposure records and the upgrade of older state files.
* Real time: a deadline is a choice that may be taken, and two deadlines are
  never compared.
