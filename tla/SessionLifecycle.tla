-------------------------- MODULE SessionLifecycle --------------------------
(***************************************************************************)
(* One session name of AcpxSessionManager (src/src/manager/acpx.ts): the   *)
(* turns that clients request with start and send, the operator's verbs,   *)
(* the provider processes, and crashes of the daemon with the start-up     *)
(* reconciliation that follows.                                            *)
(*                                                                         *)
(* A verb and the admission of a turn hold the name's lifecycle lock; the  *)
(* body of an admitted turn runs outside it.  An action is the code from   *)
(* one await to the next; a store mutation is one step, since mutate()     *)
(* serialises them and replaces the file by a rename.  The lock is FIFO in *)
(* the code and taken in any order here: a waiter reads nothing before the *)
(* lock except the turn generation (start, send) and the candidate of a    *)
(* garbage collection, which are steps of their own.                       *)
(***************************************************************************)
EXTENDS StoredState

CONSTANTS
    KeyOf,          \* a request's turn key, None when it carries none
    PrintOf,        \* a request's operation and fingerprint
    OpOf,           \* "start" or "send"
    OneShot,        \* the session's agent runs as a direct one-shot process
    Verbs,          \* the operator verbs used
    Timeouts,       \* TRUE when a bounded wait may give up before its time
    KillsWork,      \* a signalled process group ends within the drain's window
    MaxCrashes,     \* bound on the crashes of the daemon
    MaxFaults       \* bound on the failed writes of the state file

\* A turn id is drawn by a request, so the requests are the turn ids.
Requests == TurnIds

ASSUME RequestAssumption ==
    /\ KeyOf \in [Requests -> Keys \cup {None}]
    /\ PrintOf \in [Requests -> Prints]
    /\ OpOf \in [Requests -> {"start", "send"}]
ASSUME RunAssumption ==
    /\ OneShot \in BOOLEAN
    /\ Timeouts \in BOOLEAN
    /\ KillsWork \in BOOLEAN
    /\ MaxCrashes \in Nat
    /\ MaxFaults \in Nat

VARIABLES
    store,      \* state.json; the manager reads nothing newer than it
    proc,       \* the provider process of each request, which outlives a crash
    up,         \* the daemon runs and has reconciled its sessions
    mem,        \* the manager's maps, for this name
    req,        \* each request: where it is and what it holds
    op,         \* the operator verb that holds the lock, or none
    crashes, faults,
    report,     \* what verbs told of the session (history)
    refused     \* the schema refused a mutation

vars == <<store, proc, up, mem, req, op, crashes, faults, report, refused>>

Keyed(r) == KeyOf[r] # None

\* Where a request's execution stands: its turn is active in BodySteps, and the
\* lock is its own in AdmissionSteps.
AdmissionSteps == {"fence", "enter", "claim"}
BodySteps == {"body", "refresh", "provision", "runtime", "link", "linkWrite", "spawn",
              "pid", "run", "final", "failing", "outer", "epilogue"}
RequestSteps == {"new", "queued", "waiting", "done", "lost"} \cup AdmissionSteps \cup BodySteps
Answers == {"none", "accepted", "replayed", "failed", "refused"}

NoRequest == [pc |-> "new", generation |-> 0, epoch |-> 0, seen |-> NoSession,
              result |-> "idle", retried |-> FALSE, inFlight |-> None, answer |-> "none"]

OpSteps == {"none", "fence", "drain", "stopWrite", "prove", "record", "remove",
            "unfence", "focusWrite"}
NoOp == [verb |-> "none", pc |-> "none", had |-> FALSE, seen |-> NoSession,
         epoch |-> 0, purpose |-> "none"]

\* lock is held by the admission of a turn ("turn") or by the verb in op ("op");
\* active is activeTurns, keyed keyedTurnExecutions, child activeTurnProcesses,
\* turnId activeTurnIds and stop stopRequests.
NoMemory == [lock |-> "free", active |-> None, stop |-> FALSE, keyed |-> None,
             turnId |-> None, child |-> None, gc |-> "idle"]

\* runtime is "closed" after a verb reported success on a runtime it closed, and
\* "overlooked" after a purge that reported success and did not look at a turn at
\* work, until the next turn or closing begins; epoch is the last one reported.
NothingReported == [runtime |-> "open", epoch |-> 0]
Reported(runtime) == [report EXCEPT !.runtime = runtime]
ReportedEpoch(epoch) == [runtime |-> "closed", epoch |-> epoch]

Init ==
    /\ store = freshState
    /\ proc = [r \in Requests |-> "none"]
    /\ up = TRUE
    /\ mem = NoMemory
    /\ req = [r \in Requests |-> NoRequest]
    /\ op = NoOp
    /\ crashes = 0 /\ faults = 0
    /\ report = NothingReported /\ refused = FALSE

-----------------------------------------------------------------------------
(* Mutations.  Then follows a write that reached the disk; Else follows one  *)
(* that threw: refused by the mutator itself, by the schema, or by a failed *)
(* write.                                                                   *)

Written(allowed, next) ==
    /\ allowed /\ Valid(next)
    /\ store' = next /\ UNCHANGED <<faults, refused>>

Thrown(allowed, next) ==
    /\ \/ ~allowed /\ UNCHANGED <<faults, refused>>
       \/ allowed /\ ~Valid(next) /\ refused' = TRUE /\ UNCHANGED faults
       \/ allowed /\ faults < MaxFaults /\ faults' = faults + 1 /\ UNCHANGED refused
    /\ UNCHANGED store

Mutate(allowed, next, Then, Else) ==
    \/ Written(allowed, next) /\ Then
    \/ Thrown(allowed, next) /\ Else

NoMutation == UNCHANGED <<store, faults, refused>>

Goto(r, pc) == req' = [req EXCEPT ![r].pc = pc]
Answer(r, answer) ==
    req' = [req EXCEPT ![r] = [@ EXCEPT !.pc = "done", !.answer = answer,
                                        !.seen = NoSession, !.inFlight = None]]

Unlocked == [mem EXCEPT !.lock = "free"]
Lock(owner) == /\ up /\ mem.lock = "free"
               /\ mem' = [mem EXCEPT !.lock = owner]

-----------------------------------------------------------------------------
(* Admission of a turn. *)

\* start and send read the generation when they are called.
Call(r, epoch) ==
    /\ up /\ req[r].pc = "new"
    /\ req' = [req EXCEPT ![r] = [@ EXCEPT !.pc = "queued", !.epoch = epoch,
                                           !.generation = store.generation]]
    /\ NoMutation
    /\ UNCHANGED <<proc, up, mem, op, crashes, report>>

Claimed(r) == IF Keyed(r) THEN store.receipts[KeyOf[r]].state # "free" ELSE FALSE

\* Under the lock: a purge since the call, a claimed key, another turn.
AdmitAnswered(r) ==
    /\ up /\ mem.lock = "free" /\ req[r].pc = "queued"
    /\ LET k == KeyOf[r] IN
       \/ /\ req[r].generation # store.generation
          /\ Answer(r, "refused")
       \/ /\ req[r].generation = store.generation /\ Claimed(r)
          /\ store.receipts[k].print # PrintOf[r]
          /\ Answer(r, "refused")
       \/ /\ req[r].generation = store.generation /\ Claimed(r)
          /\ store.receipts[k].print = PrintOf[r]
          /\ store.receipts[k].state = "settled"
          /\ Answer(r, "replayed")
       \/ /\ req[r].generation = store.generation /\ Claimed(r)
          /\ store.receipts[k].print = PrintOf[r]
          /\ store.receipts[k].state # "settled"
          /\ IF mem.keyed # None /\ KeyOf[mem.keyed] = k /\ PrintOf[mem.keyed] = PrintOf[r]
             THEN req' = [req EXCEPT ![r].pc = "waiting", ![r].inFlight = mem.keyed]
             ELSE Answer(r, "refused")
       \/ /\ req[r].generation = store.generation /\ ~Claimed(r)
          /\ Running(store) \/ mem.active # None
          /\ Answer(r, "refused")
    /\ NoMutation
    /\ UNCHANGED <<proc, up, mem, op, crashes, report>>

\* enterSessionTurnAfterLifecycleLock up to its first await.
Admit(r) ==
    /\ req[r].pc = "queued"
    /\ req[r].generation = store.generation
    /\ ~Claimed(r) /\ ~Running(store) /\ mem.active = None
    /\ Lock("turn")
    /\ Goto(r, IF store.session.fence.on THEN "fence" ELSE "enter")
    /\ NoMutation
    /\ UNCHANGED <<proc, up, op, crashes, report>>

\* Mutant: a survivor whose pid was never recorded is gone.
GoneWhenUnknown(fence) ==
    IF fence.pid = None THEN TRUE ELSE proc[fence.pid] # "alive"

\* A recovered process is gone when its pid is known and no longer it.
DefinitelyGone(fence) == fence.pid # None /\ proc[fence.pid] # "alive"

FenceReleased(session) ==
    [session EXCEPT !.fence = NoRecoveryFence,
                    !.state = IF @ = "running" THEN "failed" ELSE @,
                    !.turn.state = IF @ = "running" THEN "orphaned" ELSE @]

ReleaseRecoveryFence(r) ==
    /\ up /\ req[r].pc = "fence"
    /\ Mutate(DefinitelyGone(store.session.fence) /\ Mutable(store),
              Upsert(store, FenceReleased(store.session)),
              Goto(r, "enter") /\ UNCHANGED mem,
              Answer(r, "refused") /\ mem' = Unlocked)
    /\ UNCHANGED <<proc, up, op, crashes, report>>

EnterTurn(r) ==
    /\ up /\ req[r].pc = "enter"
    /\ Mutate(CanEnter(store, req[r].epoch),
              Enter(store),
              /\ mem' = [mem EXCEPT !.active = r, !.stop = FALSE,
                                    !.lock = IF Keyed(r) THEN @ ELSE "free"]
              /\ Goto(r, IF Keyed(r) THEN "claim" ELSE "body")
              /\ report' = Reported("open"),
              /\ Answer(r, "refused") /\ mem' = Unlocked /\ UNCHANGED report)
    /\ UNCHANGED <<proc, up, op, crashes>>

ClaimKey(r) ==
    /\ up /\ req[r].pc = "claim"
    /\ Mutate(CanClaim(store, KeyOf[r]),
              Claim(store, KeyOf[r], PrintOf[r]),
              /\ mem' = [Unlocked EXCEPT !.keyed = r]
              /\ Goto(r, "body"),
              /\ mem' = [Unlocked EXCEPT !.active = None]
              /\ Answer(r, "refused"))
    /\ UNCHANGED <<proc, up, op, crashes, report>>

\* Mutant: only a settled receipt wakes a duplicate.
WakeOnVerdict(r) ==
    /\ up /\ req[r].pc = "waiting" /\ store.receipts[KeyOf[r]].state = "settled"
    /\ Answer(r, "replayed")
    /\ NoMutation
    /\ UNCHANGED <<proc, up, mem, op, crashes, report>>

\* A duplicate that joined an execution wakes when that execution ends.
Wake(r) ==
    /\ up /\ req[r].pc = "waiting" /\ mem.keyed # req[r].inFlight
    /\ Answer(r, IF store.receipts[KeyOf[r]].state = "settled" THEN "replayed" ELSE "refused")
    /\ NoMutation
    /\ UNCHANGED <<proc, up, mem, op, crashes, report>>

-----------------------------------------------------------------------------
(* The body of a turn, up to the dispatch of its provider process. *)

\* The body reads the session once and builds on that reading.  A refusal here
\* is any throw before the first write: a conflict, capacity, a missing skill.
Begin(r) ==
    /\ up /\ req[r].pc = "body"
    /\ \/ /\ OpOf[r] = "start" \/ Present(store)
          /\ req' = [req EXCEPT ![r].seen = store.session,
                                ![r].pc = IF OpOf[r] = "start" THEN "provision" ELSE "runtime"]
       \/ /\ OpOf[r] = "send" /\ Present(store)
          /\ req' = [req EXCEPT ![r].seen = store.session, ![r].pc = "refresh"]
       \/ Goto(r, "epilogue")
    /\ NoMutation
    /\ UNCHANGED <<proc, up, mem, op, crashes, report>>

\* send persists a refreshed provider over what it read before.
RefreshProvider(r) ==
    /\ up /\ req[r].pc = "refresh"
    /\ Mutate(Mutable(store), Upsert(store, req[r].seen), Goto(r, "runtime"), Goto(r, "epilogue"))
    /\ UNCHANGED <<proc, up, mem, op, crashes, report>>

\* start publishes the session as running before any external work.
Provision(r) ==
    /\ up /\ req[r].pc = "provision"
    /\ LET provisional == [req[r].seen EXCEPT !.state = "running"] IN
       \/ /\ mem.stop /\ Goto(r, "epilogue") /\ NoMutation
       \/ /\ ~mem.stop
          /\ Mutate(Mutable(store), Upsert(store, provisional),
                    req' = [req EXCEPT ![r].pc = "runtime", ![r].seen = provisional],
                    Goto(r, "epilogue"))
    /\ UNCHANGED <<proc, up, mem, op, crashes, report>>

SessionFailed(session) ==
    IF session.state = "absent" THEN session ELSE [session EXCEPT !.state = "failed"]

\* ensureRuntimeSession and the context files.  start checks for a Stop right
\* after its upsert, outside its try block, and again inside it; send does not
\* check, and records a runtime that cannot be reached.
PrepareRuntime(r) ==
    /\ up /\ req[r].pc = "runtime"
    /\ \/ /\ OpOf[r] = "send" \/ ~mem.stop
          /\ Goto(r, "link") /\ NoMutation
       \/ /\ OpOf[r] = "start" /\ Goto(r, "outer") /\ NoMutation
       \/ /\ OpOf[r] = "send" \/ mem.stop
          /\ Goto(r, "epilogue") /\ NoMutation
       \/ /\ OpOf[r] = "send" /\ ~OneShot
          /\ Mutate(Mutable(store), Upsert(store, SessionFailed(store.session)),
                    Goto(r, "epilogue"), Goto(r, "epilogue"))
    /\ UNCHANGED <<proc, up, mem, op, crashes, report>>

\* The published turn: startActiveTurnOutput's buildSession.
WithRunningTurn(session, r, id) ==
    [session EXCEPT !.state = "running",
                    !.turn = [id |-> id, state |-> "running", pid |-> None,
                              key |-> IF mem.keyed = None THEN None ELSE KeyOf[mem.keyed],
                              print |-> IF mem.keyed = None THEN None ELSE PrintOf[mem.keyed]]]

\* runTurn until its first mutation is queued; it may fail before (a Stop, a
\* fence, a rejected native mode).  An unkeyed turn builds
\* the whole session here, from a reading that may be old when it is written.
StartTurnOutput(r) ==
    /\ up /\ req[r].pc = "link"
    /\ \/ Goto(r, "failing") /\ UNCHANGED mem
       \/ /\ ~mem.stop /\ Mutable(store)
          /\ mem' = [mem EXCEPT !.turnId = IF @ = None THEN r ELSE @]
          /\ req' = [req EXCEPT ![r].pc = "linkWrite",
                                ![r].seen = IF Present(store) THEN store.session ELSE @]
    /\ NoMutation
    /\ UNCHANGED <<proc, up, op, crashes, report>>

LinkTurn(r) ==
    /\ up /\ req[r].pc = "linkWrite"
    /\ IF mem.keyed = None
       THEN Mutate(Mutable(store),
                   Upsert(store, WithRunningTurn(req[r].seen, r, mem.turnId)),
                   Goto(r, "spawn"), Goto(r, "failing"))
       ELSE LET k == KeyOf[mem.keyed]
                p == PrintOf[mem.keyed]
                session == WithRunningTurn(IF Present(store) THEN store.session ELSE req[r].seen,
                                           r, mem.turnId)
            IN  Mutate(CanLink(store, k, p, session), Link(store, k, session),
                       Goto(r, "spawn"), Goto(r, "failing"))
    /\ UNCHANGED <<proc, up, mem, op, crashes, report>>

\* The check for a Stop, the spawn and its registration are one step.
Spawn(r) ==
    /\ up /\ req[r].pc = "spawn"
    /\ \/ /\ mem.stop
          /\ Goto(r, "failing") /\ UNCHANGED <<proc, mem>>
       \/ /\ ~mem.stop
          /\ proc' = [proc EXCEPT ![r] = "alive"]
          /\ mem' = [mem EXCEPT !.child = r]
          /\ Goto(r, "pid")
    /\ NoMutation
    /\ UNCHANGED <<up, op, crashes, report>>

RecordPid(r) ==
    /\ up /\ req[r].pc = "pid"
    /\ Mutate(Mutable(store),
              IF store.session.turn.id = mem.turnId
              THEN Upsert(store, [store.session EXCEPT !.turn.pid = r]) ELSE store,
              Goto(r, "run"), Goto(r, "failing"))
    /\ UNCHANGED <<proc, up, mem, op, crashes, report>>

\* A provider process ends, by itself or killed; its close event drops it.
Exit(r) ==
    /\ proc[r] = "alive"
    /\ proc' = [proc EXCEPT ![r] = "dead"]
    /\ mem' = [mem EXCEPT !.child = IF @ = r THEN None ELSE @]
    /\ NoMutation
    /\ UNCHANGED <<up, req, op, crashes, report>>

-----------------------------------------------------------------------------
(* The end of a turn. *)

\* The exit of the provider as its turn reads it: an answer ("idle"), a failed
\* turn with output, a throw, or one reconnect of a persistent runtime.
ReadExit(r) ==
    /\ up /\ req[r].pc = "run" /\ proc[r] = "dead"
    /\ \/ \E result \in {"idle", "failed"} :
              req' = [req EXCEPT ![r].pc = "final", ![r].result = result]
       \/ Goto(r, "failing")
       \/ /\ ~OneShot /\ ~req[r].retried
          /\ req' = [req EXCEPT ![r].pc = "link", ![r].retried = TRUE]
    /\ NoMutation
    /\ UNCHANGED <<proc, up, mem, op, crashes, report>>

\* persistFinalTurnSession's patch: a Stop seen by then wins over the verdict.
FinalSession(session, result) ==
    LET stopped == session.state = "stopped" \/ mem.stop
        verdict == IF stopped THEN "stopped"
                   ELSE IF result = "idle" THEN "completed" ELSE "failed"
        turn == IF mem.turnId # None /\ session.turn.id = mem.turnId
                THEN [session.turn EXCEPT !.state = verdict] ELSE session.turn
    IN  [state |-> IF stopped THEN "stopped" ELSE result,
         turn |-> turn,
         fence |-> IF stopped THEN NoRecoveryFence ELSE session.fence]

\* Where a throw of the body goes: start has an outer handler, send has none.
AfterThrow(r) == IF OpOf[r] = "start" THEN "outer" ELSE "epilogue"

\* Mutant: the id of a recorded turn is kept for the next one.
TurnIdKept == [mem EXCEPT !.stop = FALSE]

\* A recorded turn needs no Stop and no turn id any more.
TurnRecorded == [mem EXCEPT !.stop = FALSE, !.turnId = None]

\* persistFinalTurnSession, for a result ("success" outcome) or a throw.
PersistFinal(r, kind, result, next) ==
    LET session == FinalSession(store.session, result)
        k == KeyOf[mem.keyed]
    IN  /\ IF mem.keyed = None
           THEN Mutate(Mutable(store) /\ Present(store), Upsert(store, session),
                       mem' = TurnRecorded /\ Goto(r, next),
                       Goto(r, AfterThrow(r)) /\ UNCHANGED mem)
           ELSE Mutate(CanSettle(store, k, PrintOf[mem.keyed]) /\ Present(store),
                       Settled(store, k, kind, session),
                       mem' = TurnRecorded /\ Goto(r, next),
                       Goto(r, AfterThrow(r)) /\ UNCHANGED mem)
        /\ UNCHANGED <<proc, up, op, crashes, report>>

Finalize(r) == /\ up /\ req[r].pc = "final"
               /\ PersistFinal(r, "success", req[r].result, "epilogue")

RecordThrow(r) == /\ up /\ req[r].pc = "failing"
                  /\ PersistFinal(r, "error", "failed", AfterThrow(r))

\* start's outer handler marks an unkeyed, unfenced session failed.
HandleStartThrow(r) ==
    /\ up /\ req[r].pc = "outer"
    /\ IF mem.keyed # None \/ ~Mutable(store)
       THEN Goto(r, "epilogue") /\ NoMutation
       ELSE Mutate(TRUE,
                   IF store.session.state = "stopped" \/ store.session.turn.state = "failed"
                   THEN store
                   ELSE Upsert(store, [(IF Present(store) THEN store.session ELSE req[r].seen)
                                       EXCEPT !.state = "failed"]),
                   Goto(r, "epilogue"), Goto(r, "epilogue"))
    /\ UNCHANGED <<proc, up, mem, op, crashes, report>>

\* What a keyed turn that threw without settling does to its session.
SettledByThrow(session, r) ==
    IF session.state \in {"absent", "stopped"} THEN session
    ELSE [session EXCEPT
            !.state = "failed",
            !.turn.state = IF /\ session.turn.key = KeyOf[r]
                              /\ session.turn.print = PrintOf[r]
                              /\ @ = "running"
                           THEN "failed" ELSE @]

ReceiptState(r) == IF Keyed(r) THEN store.receipts[KeyOf[r]].state ELSE "free"

\* What the caller is told: an unkeyed turn keeps no verdict.
VerdictOf(r) == IF Keyed(r) /\ store.receipts[KeyOf[r]].outcome.kind # "success"
                THEN "failed" ELSE "accepted"

\* The end of runSessionTurn: the receipt's verdict, or an error settled now.
ReleaseTurn(r) ==
    /\ up /\ req[r].pc = "epilogue"
    /\ mem' = [mem EXCEPT !.active = None, !.keyed = None]
    /\ IF ReceiptState(r) # "running"
       THEN Answer(r, VerdictOf(r)) /\ NoMutation
       ELSE Mutate(CanSettleBehindFence(store, KeyOf[r], PrintOf[r]),
                   Settled(store, KeyOf[r], "error", SettledByThrow(store.session, r)),
                   Answer(r, "failed"), Answer(r, "refused"))
    /\ UNCHANGED <<proc, up, op, crashes, report>>

-----------------------------------------------------------------------------
(* The operator's verbs, under the lock. *)

Free == up /\ mem.lock = "free"
OpGoto(pc) == op' = [op EXCEPT !.pc = pc]
OpEnds == op' = NoOp

\* Mutant: the turn behind the process is forgotten.
ProcessDrained == mem.child = None

\* Mutant: the drain waits for callers that wait for the lock.
CallersDrained ==
    mem.active = None /\ mem.child = None /\ \A r \in Requests : req[r].pc # "queued"

Drained == mem.active = None /\ mem.child = None

\* The session a Stop leaves, whatever its turn was.
StoppedSession(session) ==
    [session EXCEPT !.state = "stopped", !.fence = NoRecoveryFence,
                    !.turn.state = IF @ = "none" THEN @ ELSE "stopped"]

\* stop until its first await: it raises the stop request and signals the child.
StopBegin ==
    /\ "stop" \in Verbs
    /\ Free /\ Mutable(store)
    /\ Present(store) \/ Running(store) \/ mem.active # None
    /\ mem' = [mem EXCEPT !.lock = "op", !.stop = IF Present(store) \/ mem.active # None
                                                  THEN TRUE ELSE @]
    /\ op' = [NoOp EXCEPT
                !.verb = "stop", !.seen = store.session, !.had = mem.active # None,
                !.pc = IF Present(store) /\ store.session.fence.on THEN "fence"
                       ELSE IF mem.active # None THEN "drain" ELSE "stopWrite"]
    /\ NoMutation
    /\ UNCHANGED <<proc, up, req, crashes, report>>

NoLiveProcess == \A r \in Requests : proc[r] # "alive"

\* A persistent runtime is closed through acpx, whose status then proves that
\* nothing of the session runs; a recorded one-shot process is killed.
StopResolveFence ==
    /\ up /\ op.pc = "fence"
    /\ LET fence == op.seen.fence IN
       \/ /\ DefinitelyGone(fence) \/ (~OneShot /\ NoLiveProcess)
          /\ OpGoto(IF op.had THEN "drain" ELSE "stopWrite") /\ UNCHANGED mem
       \/ /\ Timeouts \/ (OneShot /\ fence.pid = None)
          /\ OpEnds /\ mem' = Unlocked
    /\ NoMutation
    /\ UNCHANGED <<proc, up, req, crashes, report>>

DrainTimesOut ==
    /\ Timeouts /\ up /\ op.pc = "drain" /\ ~Drained
    /\ KillsWork => mem.child = None
    /\ OpEnds /\ mem' = Unlocked
    /\ NoMutation
    /\ UNCHANGED <<proc, up, req, crashes, report>>

\* stop once the turn has drained; a session published meanwhile is stopped too.
StopDrained ==
    /\ up /\ op.verb = "stop" /\ op.pc = "drain" /\ Drained
    /\ IF op.seen.state = "absent" /\ Present(store)
       THEN /\ op' = [op EXCEPT !.seen = store.session, !.had = FALSE,
                                !.pc = IF store.session.fence.on THEN "fence" ELSE "stopWrite"]
            /\ mem' = [mem EXCEPT !.stop = TRUE]
       ELSE OpGoto("stopWrite") /\ UNCHANGED mem
    /\ NoMutation
    /\ UNCHANGED <<proc, up, req, crashes, report>>

StopSucceeds == /\ OpEnds /\ report' = Reported("closed")
                /\ mem' = [Unlocked EXCEPT !.stop = IF op.had /\ Present(store) THEN @ ELSE FALSE]
StopFails == OpEnds /\ mem' = Unlocked /\ UNCHANGED report

StopWrite ==
    /\ up /\ op.pc = "stopWrite"
    /\ \/ /\ ~Present(store) /\ ~Running(store)
          /\ StopSucceeds /\ NoMutation
       \/ \E k \in KeysIn(store, "running") :
              /\ ~Present(store) \/ mem.keyed = None
              /\ Mutate(TRUE,
                        Settled(store, k, "error", IF Present(store)
                                                   THEN StoppedSession(store.session)
                                                   ELSE store.session),
                        StopSucceeds, StopFails)
       \/ /\ Present(store) /\ (~Running(store) \/ mem.keyed # None)
          /\ Mutate(Mutable(store), Upsert(store, StoppedSession(store.session)),
                    StopSucceeds, StopFails)
    /\ UNCHANGED <<proc, up, req, crashes>>

-----------------------------------------------------------------------------
(* quiesce and purge share the closing of the runtime. *)

Tracked == mem.active # None \/ mem.child # None

\* A reserved fence, then everything up to the wait for the turn to drain.
BeginClosing(verb, tracked, next) ==
    /\ op' = [NoOp EXCEPT !.verb = verb, !.had = tracked, !.seen = store.session,
                          !.epoch = next.active.epoch, !.purpose = next.active.purpose,
                          !.pc = "drain"]
    /\ mem' = [mem EXCEPT !.lock = "op", !.stop = TRUE, !.gc = IF verb = "gc" THEN "idle" ELSE @]
    /\ report' = Reported("open")

QuiesceBegin ==
    /\ "quiesce" \in Verbs /\ Free
    /\ LET next == Reserve(store, "external") IN
       Mutate(CanReserve(store), next,
              IF Present(store) \/ Tracked
              THEN BeginClosing("quiesce", Tracked, next)
              ELSE report' = ReportedEpoch(next.active.epoch) /\ UNCHANGED <<op, mem>>,
              UNCHANGED <<op, mem, report>>)
    /\ UNCHANGED <<proc, up, req, crashes>>

\* purge is called by an operator or, for a candidate, by gc.
PurgeCalled(verb) == IF verb = "gc" THEN mem.gc = "queued" ELSE "purge" \in Verbs
PurgeReturns(verb) == mem' = [mem EXCEPT !.gc = IF verb = "gc" THEN "idle" ELSE @]

\* A purge that finds no session and the fence of an earlier one releases that
\* fence and reports success; it does not look at a turn that is at work, which
\* the earlier purge may have given up waiting for.
PurgeAgain(verb) ==
    /\ PurgeCalled(verb) /\ Free
    /\ ~Present(store) /\ store.active.purpose = "purge"
    /\ Mutate(TRUE, Release(store),
              /\ mem' = [mem EXCEPT !.stop = FALSE, !.gc = IF verb = "gc" THEN "idle" ELSE @]
              /\ report' = Reported(IF Tracked THEN "overlooked" ELSE "closed"),
              PurgeReturns(verb) /\ UNCHANGED report)
    /\ UNCHANGED <<proc, up, req, op, crashes>>

PurgeUnknown(verb) ==
    /\ PurgeCalled(verb) /\ Free
    /\ ~Present(store) /\ store.active.purpose # "purge" /\ ~Tracked /\ ~Running(store)
    /\ PurgeReturns(verb)
    /\ NoMutation
    /\ UNCHANGED <<proc, up, req, op, crashes, report>>

\* A running receipt counts as a turn of this manager.
PurgeBegin(verb) ==
    /\ PurgeCalled(verb) /\ Free
    /\ Present(store) \/ (store.active.purpose # "purge" /\ (Tracked \/ Running(store)))
    /\ LET next == Reserve(store, "purge") IN
       Mutate(CanReserve(store), next, BeginClosing(verb, Tracked \/ Running(store), next),
              PurgeReturns(verb) /\ UNCHANGED <<op, report>>)
    /\ UNCHANGED <<proc, up, req, crashes>>

\* gc lists the sessions that look expired, looks at the maps when it comes to
\* one of them, and calls purge, which waits for the lock.
GcList ==
    /\ "gc" \in Verbs /\ up /\ mem.gc = "idle"
    /\ store.session.state \in {"failed", "stopped"}
    /\ mem' = [mem EXCEPT !.gc = "listed"]
    /\ NoMutation
    /\ UNCHANGED <<proc, up, req, op, crashes, report>>

GcVisit ==
    /\ up /\ mem.gc = "listed"
    /\ mem' = [mem EXCEPT !.gc = IF Tracked THEN "idle" ELSE "queued"]
    /\ NoMutation
    /\ UNCHANGED <<proc, up, req, op, crashes, report>>

\* The turn drained; a start that published its session meanwhile is closed too.
CloseDrained ==
    /\ up /\ op.verb \in {"quiesce", "purge", "gc"} /\ op.pc = "drain" /\ Drained
    /\ \/ /\ op.seen.state # "absent"
          /\ OpGoto("prove") /\ UNCHANGED <<mem, report>>
       \/ /\ op.seen.state = "absent" /\ Present(store)
          /\ op' = [op EXCEPT !.pc = "prove", !.seen = store.session, !.had = TRUE]
          /\ mem' = [mem EXCEPT !.stop = TRUE] /\ UNCHANGED report
       \/ /\ op.seen.state = "absent" /\ ~Present(store) /\ op.verb # "quiesce"
          /\ OpGoto("remove") /\ UNCHANGED <<mem, report>>
       \/ /\ op.seen.state = "absent" /\ ~Present(store) /\ op.verb = "quiesce"
          /\ OpEnds /\ mem' = Unlocked /\ report' = ReportedEpoch(op.epoch)
    /\ NoMutation
    /\ UNCHANGED <<proc, up, req, crashes>>

\* Mutant: a runtime without a local turn counts as closed.
AssumedClosed ==
    /\ up /\ op.pc = "prove"
    /\ OpGoto("record")
    /\ NoMutation
    /\ UNCHANGED <<proc, up, mem, req, crashes, report>>

\* A one-shot runtime is closed when its turn was this manager's, or none was
\* running; a persistent one when acpx no longer knows the session.
ProveClosed ==
    /\ up /\ op.pc = "prove"
    /\ \/ /\ IF OneShot THEN op.seen.state # "running" \/ op.had ELSE NoLiveProcess
          /\ OpGoto("record") /\ UNCHANGED mem
       \/ /\ IF OneShot THEN op.seen.state = "running" /\ ~op.had ELSE Timeouts
          /\ OpEnds /\ mem' = Unlocked
    /\ NoMutation
    /\ UNCHANGED <<proc, up, req, crashes, report>>

QuiescedSession(session) ==
    IF session.state = "absent" THEN session
    ELSE [session EXCEPT !.state = "stopped", !.fence = NoRecoveryFence,
                         !.turn.state = IF @ = "running" THEN "stopped" ELSE @]

RecordClosed ==
    /\ up /\ op.pc = "record"
    /\ Mutate(CanPatchQuiesced(store, op.epoch),
              Upsert(store, QuiescedSession(store.session)),
              IF op.verb = "quiesce"
              THEN OpEnds /\ mem' = Unlocked /\ report' = ReportedEpoch(op.epoch)
              ELSE OpGoto("remove") /\ UNCHANGED <<mem, report>>,
              OpEnds /\ mem' = Unlocked /\ UNCHANGED report)
    /\ UNCHANGED <<proc, up, req, crashes>>

PurgeRemove ==
    /\ up /\ op.pc = "remove"
    /\ Mutate(CanRemove(store), Remove(store),
              IF op.purpose = "purge"
              THEN /\ OpGoto("unfence") /\ mem' = [mem EXCEPT !.child = None, !.stop = FALSE]
                   /\ UNCHANGED report
              ELSE /\ OpEnds /\ mem' = [Unlocked EXCEPT !.child = None, !.stop = FALSE]
                   /\ report' = ReportedEpoch(op.epoch),
              OpEnds /\ mem' = Unlocked /\ UNCHANGED report)
    /\ UNCHANGED <<proc, up, req, crashes>>

PurgeUnfence ==
    /\ up /\ op.pc = "unfence"
    /\ Mutate(CanRelease(store, op.epoch), Release(store),
              OpEnds /\ mem' = Unlocked /\ report' = Reported("closed"),
              OpEnds /\ mem' = Unlocked /\ UNCHANGED report)
    /\ UNCHANGED <<proc, up, req, crashes>>

ReleaseFence(epoch) ==
    /\ "release" \in Verbs /\ Free
    /\ CanRelease(store, epoch)
    /\ Mutate(TRUE, Release(store), mem' = [mem EXCEPT !.stop = FALSE], UNCHANGED mem)
    /\ UNCHANGED <<proc, up, req, op, crashes, report>>

-----------------------------------------------------------------------------
(* resume, suspend and focus: each writes back the session it read. *)

Resume ==
    /\ "resume" \in Verbs /\ Free /\ Mutable(store)
    /\ Present(store) /\ ~Tracked /\ store.session.turn.state # "running"
    /\ Mutate(TRUE, Upsert(store, [store.session EXCEPT !.state = "idle"]), TRUE, TRUE)
    /\ UNCHANGED <<proc, up, mem, req, op, crashes, report>>

Suspend ==
    /\ "suspend" \in Verbs /\ Free /\ Mutable(store)
    /\ ~Tracked /\ store.session.state \in {"idle", "running"}
    /\ Mutate(TRUE, Upsert(store, [store.session EXCEPT !.state = "suspended"]), TRUE, TRUE)
    /\ UNCHANGED <<proc, up, mem, req, op, crashes, report>>

\* A turn runs outside the lock, so it may write between these two steps.
FocusRead ==
    /\ "focus" \in Verbs /\ Mutable(store) /\ Present(store)
    /\ Lock("op")
    /\ op' = [NoOp EXCEPT !.verb = "focus", !.pc = "focusWrite", !.seen = store.session]
    /\ NoMutation
    /\ UNCHANGED <<proc, up, req, crashes, report>>

FocusWrite ==
    /\ up /\ op.pc = "focusWrite"
    /\ Mutate(Mutable(store), Upsert(store, op.seen), TRUE, TRUE)
    /\ OpEnds /\ mem' = Unlocked
    /\ UNCHANGED <<proc, up, req, crashes, report>>

\* A quiescence of another session name draws the next epoch.
OtherNameQuiesces ==
    /\ "other" \in Verbs /\ up /\ CanAllocateElsewhere(store)
    /\ store' = AllocateElsewhere(store)
    /\ UNCHANGED <<proc, up, mem, req, op, crashes, faults, report, refused>>

-----------------------------------------------------------------------------
(* Crash and restart. *)

Crash ==
    /\ up /\ crashes < MaxCrashes
    /\ crashes' = crashes + 1
    /\ up' = FALSE /\ mem' = NoMemory /\ op' = NoOp
    /\ req' = [r \in Requests |->
                  IF req[r].pc \in {"new", "done", "lost"} THEN req[r]
                  ELSE [NoRequest EXCEPT !.pc = "lost", !.generation = req[r].generation]]
    /\ NoMutation
    /\ UNCHANGED <<proc, report>>

\* A turn already recorded as orphaned, or a running one whose recorded process
\* is gone.
Orphaned(session) ==
    \/ session.turn.state = "orphaned"
    \/ /\ session.turn.state = "running" /\ session.turn.pid # None
       /\ proc[session.turn.pid] # "alive"
NeedsReconciling(session) ==
    session.state = "running" \/ session.turn.state = "running" \/ session.fence.on

InterruptedSession(session) ==
    IF session.state = "absent" THEN session
    ELSE [session EXCEPT !.fence = NoRecoveryFence,
                         !.state = IF @ = "stopped" THEN @ ELSE "failed"]

OrphanedSession(session) ==
    [session EXCEPT !.state = "failed", !.turn.state = "orphaned", !.fence = NoRecoveryFence]

\* Mutant: survivors are left alone at start-up.
UnfencedSession(session) == session

FencedSession(session) ==
    [session EXCEPT !.fence = IF @.on THEN @ ELSE [on |-> TRUE, pid |-> session.turn.pid]]

\* A running receipt whose turn was never published, or is already terminal.
Unpublished(s) == \E k \in KeysIn(s, "running") :
    ~Present(s) \/ s.receipts[k].turnId = None \/ s.session.turn.id # s.receipts[k].turnId
Interrupted(s) == Running(s) /\ (Unpublished(s) \/ s.session.turn.state # "running")

\* reconcilePersistedSessions for this name.
Reconciled(s) ==
    LET settle(session) == Settled(s, CHOOSE k \in KeysIn(s, "running") : TRUE, "error", session)
    IN  IF Interrupted(s)
        THEN settle(IF Unpublished(s) THEN InterruptedSession(s.session) ELSE s.session)
        ELSE IF ~Present(s) \/ ~NeedsReconciling(s.session) THEN s
        ELSE IF ~Orphaned(s.session) THEN Upsert(s, FencedSession(s.session))
        ELSE IF Running(s) THEN settle(OrphanedSession(s.session))
        ELSE Upsert(s, OrphanedSession(s.session))

\* A failed write is only logged, unless it was to settle an interrupted
\* receipt: then the daemon does not start.
Restart ==
    /\ ~up
    /\ IF Reconciled(store) = store THEN up' = TRUE /\ NoMutation
       ELSE Mutate(TRUE, Reconciled(store), up' = TRUE, up' = ~Interrupted(store))
    /\ UNCHANGED <<proc, mem, req, op, crashes, report>>

-----------------------------------------------------------------------------

Admission(r) == AdmitAnswered(r) \/ Admit(r)

TurnStep(r) ==
    \/ ReleaseRecoveryFence(r) \/ EnterTurn(r) \/ ClaimKey(r) \/ Wake(r)
    \/ Begin(r) \/ RefreshProvider(r) \/ Provision(r) \/ PrepareRuntime(r)
    \/ StartTurnOutput(r) \/ LinkTurn(r) \/ Spawn(r) \/ RecordPid(r)
    \/ ReadExit(r) \/ Finalize(r) \/ RecordThrow(r) \/ HandleStartThrow(r)
    \/ ReleaseTurn(r)

OpBegin ==
    \/ StopBegin \/ QuiesceBegin
    \/ (\E verb \in {"purge", "gc"} : PurgeAgain(verb) \/ PurgeUnknown(verb) \/ PurgeBegin(verb))
    \/ GcList \/ GcVisit \/ (\E e \in 1..MaxEpoch : ReleaseFence(e))
    \/ Resume \/ Suspend \/ FocusRead \/ OtherNameQuiesces

OpStep ==
    \/ StopResolveFence \/ DrainTimesOut \/ StopDrained \/ StopWrite
    \/ CloseDrained \/ ProveClosed \/ RecordClosed \/ PurgeRemove \/ PurgeUnfence
    \/ FocusWrite

Next ==
    \/ \E r \in Requests : \E e \in 0..MaxEpoch : Call(r, e)
    \/ \E r \in Requests : Admission(r) \/ TurnStep(r) \/ Exit(r)
    \/ OpBegin \/ OpStep
    \/ Crash \/ Restart

Spec == Init /\ [][Next]_vars

\* A verb that waits for a turn, for a fence or for a persistent runtime keeps
\* signalling the process it waits for, or has acpx close it.
ClosedExit(r) ==
    /\ \/ op.pc = "drain" /\ mem.child = r
       \/ op.pc = "fence" /\ (~OneShot \/ op.seen.fence.pid = r)
       \/ op.pc = "prove" /\ ~OneShot
    /\ Exit(r)

\* Continuations run and external commands return; the lock is handed over in
\* the order of the calls, so a request that waits for it gets it although
\* verbs keep taking it; signalled processes end.  No verb has to be called,
\* and no provider has to end by itself.
Fairness ==
    /\ \A r \in Requests : /\ SF_vars(Admission(r))
                           /\ WF_vars(TurnStep(r))
                           /\ WF_vars(ClosedExit(r))
    /\ WF_vars(OpStep)
    /\ WF_vars(Restart)

FairSpec == Spec /\ Fairness

-----------------------------------------------------------------------------
(* Properties. *)

Memory == [lock : {"free", "turn", "op"}, active : Requests \cup {None}, stop : BOOLEAN,
           keyed : Requests \cup {None}, turnId : Requests \cup {None},
           child : Requests \cup {None}, gc : {"idle", "listed", "queued"}]
RequestStates == [pc : RequestSteps, generation : 0..MaxGeneration, epoch : 0..MaxEpoch,
                  seen : Sessions, result : {"idle", "failed"}, retried : BOOLEAN,
                  inFlight : Requests \cup {None}, answer : Answers]
Operations == [verb : {"none", "stop", "quiesce", "purge", "gc", "focus"}, pc : OpSteps,
               had : BOOLEAN, seen : Sessions, epoch : 0..MaxEpoch,
               purpose : {"none", "external", "purge"}]

Reports == [runtime : {"open", "closed", "overlooked"}, epoch : 0..MaxEpoch]

\* The type of every variable.
TypeOK ==
    /\ store \in StoredStates
    /\ proc \in [Requests -> {"none", "alive", "dead"}]
    /\ up \in BOOLEAN
    /\ mem \in Memory
    /\ req \in [Requests -> RequestStates]
    /\ op \in Operations
    /\ crashes \in 0..MaxCrashes /\ faults \in 0..MaxFaults
    /\ report \in Reports /\ refused \in BOOLEAN

\* A turn key dispatches at most one provider turn between two purges, however
\* its requests interleave with each other, with verbs, failed writes and
\* crashes (runSessionTurn, claimTurnRequest, reconcilePersistedSessions).
AtMostOneDispatchPerKey ==
    \A p, r \in Requests :
        /\ p # r /\ Keyed(p) /\ KeyOf[p] = KeyOf[r]
        /\ proc[p] # "none" /\ proc[r] # "none"
        => req[p].generation # req[r].generation

\* No two provider processes of one session name are alive at once: the turn
\* lock, the drain of a purge and the recovery fence of a survivor together.
OneLiveProcess ==
    \A p, r \in Requests : proc[p] = "alive" /\ proc[r] = "alive" => p = r

Closed == report.runtime = "closed"

\* A stop, quiesce or purge that reports success leaves no provider process of
\* the session alive, and none starts before another turn is admitted, whatever
\* delayed step, release, crash or restart comes next.  The one success that is
\* left out is PurgeAgain over a turn at work: with report.runtime # "open" for
\* Closed the formula is false.
ClosedMeansDead == Closed => NoLiveProcess

\* removeSession forgets the receipts of keyed turns: by then nothing of them
\* may still be running ("first prove that no keyed work can survive").
PurgeForgetsNothingAlive ==
    [][store'.generation # store.generation => NoLiveProcess]_vars

\* Once a quiesce reported the runtime closed, no delayed write of a drained
\* turn reopens or changes the session while the fence stays.
FencedSessionFrozen ==
    [][Closed /\ store.active.epoch > 0 /\ store'.active.epoch > 0 /\ Present(store')
       => store'.session = store.session]_vars

\* The verdict of a key is final: it is never withdrawn, replaced or executed
\* again until a purge; at most its replay payload is dropped.
VerdictIsFinal ==
    [][\A k \in Keys :
          /\ store.receipts[k].state \in {"settled", "tombstone"}
          /\ store'.generation = store.generation
          => \/ store'.receipts[k] = store.receipts[k]
             \/ store'.receipts[k].state = "tombstone"]_vars

\* A verdict a client was given is on disk: after any crash the key stays
\* claimed and is not running, until a purge forgets it.
AnswersAreDurable ==
    \A r \in Requests :
        /\ Keyed(r) /\ req[r].answer \in {"accepted", "replayed", "failed"}
        /\ req[r].generation = store.generation
        => store.receipts[KeyOf[r]].state \in {"settled", "tombstone"}

\* A turn admitted before a purge removed the session neither runs nor writes
\* after it: the purge drains it, and a request that waited is refused by its
\* generation.  PurgeAgain removes nothing and is not such a purge.
NoTurnOutlivesPurge ==
    \A r \in Requests :
        req[r].pc \in BodySteps => req[r].generation = store.generation /\ mem.active = r

\* Once a quiesce, or a purge behind its fence, reported an epoch, a turn runs
\* only if its request carries that epoch or a later one: a request without one
\* or with an older one is refused whenever it was sent, across releases, purges,
\* crashes and restarts, and no turn admitted before is still at work.
EpochGatesTurns ==
    \A r \in Requests : req[r].pc \in BodySteps => req[r].epoch >= report.epoch

\* A quiesce or purge that proved the runtime closed reports success, unless
\* the disk fails or the daemon crashes.
ClosureIsReported ==
    [][op.pc = "record" /\ op'.verb = "none" /\ up' /\ faults' = faults => Closed']_vars

\* The schema check never has to refuse what the manager writes: every writer,
\* building on a reading of its own, leaves the receipts and the session in step.
NothingRefused == ~refused

\* A turn whose verdict was recorded is never shown running again.
TerminalTurnStaysTerminal ==
    [][/\ store.session.turn.state \in TerminalTurnStates
       /\ store'.session.turn.id = store.session.turn.id
       => store'.session.turn.state \in TerminalTurnStates]_vars

\* gc never purges a session while one of its turns is running.
GcSparesRunningTurns ==
    [][op'.verb = "gc" /\ op.verb # "gc" => mem.active = None]_vars

\* A verb that took the lock returns without help of its time limits: nothing it
\* waits for waits for the lock, and no turn escapes the signals.
VerbsReturn == (op.verb # "none") ~> (op.verb = "none")

\* If provider processes end, every call is answered or lost in a crash: no
\* stream of verbs, duplicate or purge leaves a caller waiting.
CallersAnswered ==
    (\A r \in Requests : []<>(proc[r] # "alive"))
    => \A r \in Requests : (req[r].pc = "queued") ~> (req[r].pc \in {"done", "lost"})

-----------------------------------------------------------------------------
(* What the keys of the session promise. *)

LedgerStatus ==
    [k \in Keys |-> IF store.receipts[k].state = "tombstone" THEN "settled"
                    ELSE store.receipts[k].state]
\* The keys in whose name a process was started since the last purge, or runs.
Dispatched ==
    {k \in Keys : \E r \in Requests : /\ KeyOf[r] = k /\ proc[r] # "none"
                                     /\ req[r].generation = store.generation}
Live == {k \in Keys : \E r \in Requests : KeyOf[r] = k /\ proc[r] = "alive"}

Ledger == INSTANCE TurnLedger WITH
    status <- LedgerStatus, dispatched <- Dispatched, live <- Live

\* The receipts, the turns and the processes of the session keep the promise of
\* TurnLedger through every interleaving, failed write and crash.
ImplementsLedger == Ledger!Spec
=============================================================================
