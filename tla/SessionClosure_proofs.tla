----------------------- MODULE SessionClosure_proofs -----------------------
(***************************************************************************)
(* What a stop, a quiesce and a purge of a session name may rely on, what  *)
(* a process that outlived a crash may still do, and the refinement of     *)
(* TurnLedger.                                                             *)
(***************************************************************************)
EXTENDS SessionLifecycle_proofs, FiniteSetTheorems

Closing == {"quiesce", "purge", "gc"}
AfterProof == {"record", "remove", "unfence"}

\* What a verb is at each of its steps; a Stop writes when the turn is gone.
VerbInv ==
    /\ op.pc = "none" <=> op.verb = "none"
    /\ op.pc \in {"fence", "stopWrite"} => op.verb = "stop"
    /\ op.pc = "drain" => op.verb \in Closing \cup {"stop"}
    /\ op.pc \in {"prove"} \cup AfterProof => op.verb \in Closing
    /\ op.pc = "focusWrite" => op.verb = "focus"
    /\ op.pc = "fence" /\ ~op.had => mem.active = None
    /\ op.pc = "stopWrite" => mem.active = None

\* Nothing of the daemon survives it.
DownInv ==
    ~up => /\ mem = NoMemory /\ op = NoOp
           /\ \A r \in Requests : req[r].pc \notin AdmissionSteps \cup BodySteps

\* Verbs: one step of a verb under the lock.
LEMMA StopVerb ==
    ASSUME mem \in Memory, op \in Operations, VerbInv,
           StopBegin \/ StopResolveFence \/ DrainTimesOut \/ StopDrained \/ StopWrite
    PROVE  VerbInv'
<1>1. CASE StopBegin
    BY <1>1 DEF StopBegin, VerbInv, Operations, Memory, NoOp, Closing, AfterProof
<1>2. CASE StopResolveFence
    <2>1. \/ op' = [op EXCEPT !.pc = IF op.had THEN "drain" ELSE "stopWrite"] /\ mem' = mem
          \/ OpEnds /\ mem'.active = mem.active
        BY <1>2 DEF StopResolveFence, Memory, OpGoto, Unlocked
    <2> QED BY <1>2, <2>1 DEF StopResolveFence, VerbInv, Operations, NoOp, Closing, AfterProof, OpEnds
<1>3. CASE DrainTimesOut
    BY <1>3 DEF DrainTimesOut, VerbInv, NoOp, Closing, AfterProof, OpEnds
<1>4. CASE StopDrained
    BY <1>4 DEF StopDrained, VerbInv, Operations, Memory, Closing, AfterProof, OpGoto, Drained
<1>5. CASE StopWrite
    <2>1. OpEnds
        BY <1>5 DEF StopWrite, Mutate, StopSucceeds, StopFails
    <2> QED BY <2>1 DEF VerbInv, NoOp, Closing, AfterProof, OpEnds
<1> QED BY <1>1, <1>2, <1>3, <1>4, <1>5

LEMMA ClosingVerb ==
    ASSUME mem \in Memory, op \in Operations, VerbInv,
           \/ QuiesceBegin
           \/ \E verb \in {"purge", "gc"} :
                  PurgeAgain(verb) \/ PurgeUnknown(verb) \/ PurgeBegin(verb)
           \/ CloseDrained \/ ProveClosed \/ RecordClosed \/ PurgeRemove \/ PurgeUnfence
    PROVE  VerbInv'
<1>1. ASSUME NEW verb \in Closing, NEW tracked, NEW next, BeginClosing(verb, tracked, next)
      PROVE  VerbInv'
    BY <1>1 DEF BeginClosing, VerbInv, NoOp, Closing, AfterProof
<1>2. ASSUME UNCHANGED op, mem'.active = mem.active PROVE VerbInv'
    BY <1>2 DEF VerbInv
<1>3. ASSUME OpEnds PROVE VerbInv'
    BY <1>3 DEF VerbInv, OpEnds, NoOp, Closing, AfterProof
<1>4. ASSUME op.verb \in Closing, NEW pc \in AfterProof, OpGoto(pc) PROVE VerbInv'
    BY <1>4 DEF VerbInv, OpGoto, Operations, Closing, AfterProof
<1>5. CASE QuiesceBegin
    BY <1>1, <1>2, <1>5 DEF QuiesceBegin, Mutate, Closing
<1>6. ASSUME NEW verb \in {"purge", "gc"}, PurgeAgain(verb) \/ PurgeUnknown(verb) PROVE VerbInv'
    <2>1. UNCHANGED op /\ mem'.active = mem.active
        BY <1>6 DEF PurgeAgain, PurgeUnknown, PurgeReturns, Mutate, Memory
    <2> QED BY <1>2, <2>1
<1>7. ASSUME NEW verb \in {"purge", "gc"}, PurgeBegin(verb) PROVE VerbInv'
    <2>1. \/ UNCHANGED op /\ mem'.active = mem.active
          \/ BeginClosing(verb, Tracked \/ Running(store), Reserve(store, "purge"))
        BY <1>7 DEF PurgeBegin, PurgeReturns, Mutate, Memory
    <2> QED BY <1>1, <1>2, <2>1 DEF Closing
<1>8. CASE CloseDrained
    <2>1. op.verb \in Closing
        BY <1>8 DEF CloseDrained, Closing
    <2>2. \/ OpGoto("prove") \/ OpGoto("remove") \/ OpEnds
          \/ op' = [op EXCEPT !.pc = "prove", !.seen = store.session, !.had = TRUE]
        BY <1>8 DEF CloseDrained
    <2> QED BY <2>1, <2>2, <1>3 DEF VerbInv, OpGoto, Operations, Closing, AfterProof
<1>9. CASE ProveClosed \/ RecordClosed \/ PurgeRemove \/ PurgeUnfence
    <2>1. op.verb \in Closing
        BY <1>9 DEF ProveClosed, RecordClosed, PurgeRemove, PurgeUnfence, VerbInv, AfterProof
    <2>2. OpEnds \/ \E pc \in AfterProof : OpGoto(pc)
        BY <1>9 DEF ProveClosed, RecordClosed, PurgeRemove, PurgeUnfence, Mutate, AfterProof
    <2> QED BY <1>3, <1>4, <2>1, <2>2
<1> QED BY <1>5, <1>6, <1>7, <1>8, <1>9

LEMMA ShortVerb ==
    ASSUME mem \in Memory, op \in Operations, VerbInv,
           \/ GcList \/ GcVisit \/ (\E e \in 1..MaxEpoch : ReleaseFence(e))
           \/ Resume \/ Suspend \/ FocusRead \/ FocusWrite \/ OtherNameQuiesces
    PROVE  VerbInv'
<1>1. ASSUME UNCHANGED op, mem'.active = mem.active PROVE VerbInv'
    BY <1>1 DEF VerbInv
<1>2. CASE FocusRead
    BY <1>2 DEF FocusRead, VerbInv, NoOp, Closing, AfterProof
<1>3. CASE FocusWrite
    BY <1>3 DEF FocusWrite, VerbInv, OpEnds, NoOp, Closing, AfterProof
<1>4. CASE GcList \/ GcVisit \/ Resume \/ Suspend \/ OtherNameQuiesces
    BY <1>1, <1>4 DEF GcList, GcVisit, Resume, Suspend, OtherNameQuiesces, Memory
<1>5. ASSUME NEW e \in 1..MaxEpoch, ReleaseFence(e) PROVE VerbInv'
    BY <1>1, <1>5 DEF ReleaseFence, Mutate, Memory
<1> QED BY <1>2, <1>3, <1>4, <1>5

\* The turns leave the verb alone, and enter only when there is none.
LEMMA RequestVerb ==
    ASSUME Inv, VerbInv, NEW r \in Requests,
           Admission(r) \/ TurnStep(r) \/ Exit(r) \/ \E e \in 0..MaxEpoch : Call(r, e)
    PROVE  VerbInv'
<1>1. mem \in Memory /\ TypeInv
    BY InvTypes DEF Inv
<1>2. ASSUME UNCHANGED op, mem'.active \in {mem.active, None} \/ op.pc = "none" PROVE VerbInv'
    BY <1>2 DEF VerbInv
<1>3. CASE AdmitAnswered(r) \/ Wake(r) \/ \E e \in 0..MaxEpoch : Call(r, e)
    BY <1>2, <1>3 DEF AdmitAnswered, Wake, Call
<1>4. CASE Admit(r) \/ Exit(r) \/ ReleaseTurn(r) \/ ClaimKey(r) \/ ReleaseRecoveryFence(r)
    BY <1>1, <1>2, <1>4 DEF Admit, Lock, Exit, ReleaseTurn, ClaimKey, Mutate,
       ReleaseRecoveryFence, Unlocked, Memory
<1>5. CASE EnterTurn(r)
    <2>1. mem.lock = "turn"
        BY <1>5, PcNames DEF EnterTurn, Inv, LockInv
    <2> QED BY <1>2, <1>5, <2>1 DEF EnterTurn, Inv, LockInv
<1>6. CASE \/ Begin(r) \/ RefreshProvider(r) \/ Provision(r) \/ PrepareRuntime(r)
           \/ StartTurnOutput(r) \/ LinkTurn(r) \/ Spawn(r) \/ RecordPid(r)
           \/ ReadExit(r) \/ Finalize(r) \/ RecordThrow(r) \/ HandleStartThrow(r)
    BY <1>1, <1>2, <1>6, DispatchSteps, FinishSteps DEF BodyStep, SameLock
<1> QED BY <1>3, <1>4, <1>5, <1>6 DEF Admission, TurnStep

-----------------------------------------------------------------------------
(* What the steps write. *)

LEMMA WriteOutcome ==
    ASSUME Valid(store), NEW STATE allowed, NEW STATE next,
           Written(allowed, next) \/ Thrown(allowed, next)
    PROVE  /\ Valid(store')
           /\ store' = store \/ (allowed /\ store' = next)
BY DEF Written, Thrown

\* What a report says, and that most steps say nothing of an epoch.
LEMMA ReportRead ==
    ASSUME report \in Reports
    PROVE  /\ \A runtime : Reported(runtime).runtime = runtime
                          /\ Reported(runtime).epoch = report.epoch
           /\ \A epoch : ReportedEpoch(epoch).runtime = "closed" /\ ReportedEpoch(epoch).epoch = epoch
BY DEF Reports, Reported, ReportedEpoch

LEMMA TurnsReport ==
    ASSUME report \in Reports, NEW r \in Requests,
           Admission(r) \/ TurnStep(r) \/ Exit(r) \/ \E e \in 0..MaxEpoch : Call(r, e)
    PROVE  report'.epoch = report.epoch
<1>1. CASE EnterTurn(r)
    BY <1>1, ReportRead DEF EnterTurn, Mutate
<1>2. CASE Admission(r) \/ Exit(r) \/ \E e \in 0..MaxEpoch : Call(r, e)
    BY <1>2 DEF Admission, AdmitAnswered, Admit, Exit, Call
<1>3. CASE \/ ReleaseRecoveryFence(r) \/ ClaimKey(r) \/ Wake(r)
           \/ Begin(r) \/ RefreshProvider(r) \/ Provision(r) \/ PrepareRuntime(r)
    BY <1>3 DEF ReleaseRecoveryFence, ClaimKey, Wake, Begin, RefreshProvider, Provision, PrepareRuntime
<1>4. CASE \/ StartTurnOutput(r) \/ LinkTurn(r) \/ Spawn(r) \/ RecordPid(r)
           \/ ReadExit(r) \/ Finalize(r) \/ RecordThrow(r) \/ HandleStartThrow(r)
           \/ ReleaseTurn(r)
    BY <1>4 DEF StartTurnOutput, LinkTurn, Spawn, RecordPid, ReadExit, Finalize, RecordThrow,
       PersistFinal, HandleStartThrow, ReleaseTurn
<1> QED BY <1>1, <1>2, <1>3, <1>4 DEF TurnStep

SameFences(s, t) == t.active = s.active /\ t.latest = s.latest /\ t.lastEpoch = s.lastEpoch

LEMMA FencesSame ==
    ASSUME NEW s \in StoredStates
    PROVE  /\ SameFences(s, s) /\ SameFences(s, Remove(s)) /\ SameFences(s, Compacted(s))
           /\ SameFences(s, Reconciled(s))
           /\ \A session : SameFences(s, Upsert(s, session))
           /\ \A k, session : SameFences(s, Link(s, k, session))
           /\ \A k, kind, session : SameFences(s, Settled(s, k, kind, session))
           /\ \A k, print : SameFences(s, Claim(s, k, print))
<1>1. /\ SameFences(s, s) /\ SameFences(s, Remove(s)) /\ SameFences(s, Compacted(s))
      /\ \A session : SameFences(s, Upsert(s, session))
      /\ \A k, session : SameFences(s, Link(s, k, session))
      /\ \A k, kind, session : SameFences(s, Settled(s, k, kind, session))
    BY DEF SameFences, Remove, Compacted, Upsert, Link, Settled, StoredStates
<1>2. Compacted(s) \in StoredStates
    BY CompactedType
<1>3. \A k, print : SameFences(s, Claim(s, k, print))
    BY <1>1, <1>2 DEF SameFences, Claim, StoredStates
<1>4. SameFences(s, Reconciled(s))
    BY <1>1 DEF Reconciled
<1> QED BY <1>1, <1>3, <1>4

LEMMA ReserveFences ==
    ASSUME NEW s \in StoredStates, NEW purpose \in {"external", "purge"},
           Valid(s), Mutable(s) <=> s.active.epoch = 0
    PROVE  LET t == Reserve(s, purpose) IN
           /\ ~Mutable(t) /\ t.active.epoch # 0 /\ s.latest <= t.latest
           /\ t.active.purpose = "purge" => purpose = "purge"
           /\ t.active.purpose # "purge" => t.active.epoch = t.latest
           /\ t.session = s.session /\ t.receipts = s.receipts /\ t.order = s.order
           /\ t.generation = s.generation
<1>1. /\ s.active \in Reservations /\ s.latest \in 0..MaxEpoch /\ s.lastEpoch \in 0..MaxEpoch
      /\ s.latest \in Nat /\ s.lastEpoch \in Nat
    BY LimitAssumption DEF StoredStates
<1>2. FencesConsistent(s)
    BY DEF Valid
<1>3. CASE Mutable(s)
    BY <1>1, <1>2, <1>3 DEF Reserve, Mutable, FencesConsistent, StoredStates
<1>4. CASE ~Mutable(s)
    BY <1>1, <1>2, <1>4 DEF Reserve, Mutable, FencesConsistent, StoredStates, Reservations
<1> QED BY <1>3, <1>4

-----------------------------------------------------------------------------
(* The fences of the store, and the verbs and turns they are for.             *)

\* A quiesce or purge stands behind the fence it reserved, a Stop has none; what
\* will be reported was given out to quiesces, and a turn that is in carries an
\* epoch between the one reported and the latest one given out.
GivesEpoch == op.verb = "quiesce" \/ op.purpose # "purge"

FenceInv ==
    /\ Valid(store)
    /\ Mutable(store) <=> store.active.epoch = 0
    /\ op.verb = "stop" => Mutable(store)
    /\ op.verb \in Closing => ~Mutable(store) /\ store.active.epoch = op.epoch
    /\ op.verb \in Closing /\ GivesEpoch => op.epoch <= store.latest
    /\ report.epoch <= store.latest
    /\ \A r \in Requests : req[r].pc \in {"claim"} \cup BodySteps =>
           report.epoch <= req[r].epoch /\ req[r].epoch <= store.latest

SameVerb == op'.verb = op.verb /\ op'.epoch = op.epoch /\ op'.purpose = op.purpose
NewVerb == op'.verb \in {"none", "focus"}

LEMMA FencesStay ==
    ASSUME FenceInv, Valid(store'), SameFences(store, store'),
           SameVerb \/ NewVerb \/ (op'.verb = "stop" /\ Mutable(store)),
           \/ report'.epoch = report.epoch
           \/ /\ report'.epoch <= store.latest
              /\ \A r \in Requests : req[r].pc \notin {"claim"} \cup BodySteps,
           \A r \in Requests : req'[r].pc \in {"claim"} \cup BodySteps =>
               req[r].pc \in {"claim"} \cup BodySteps /\ req'[r].epoch = req[r].epoch
    PROVE  FenceInv'
BY DEF FenceInv, SameFences, SameVerb, NewVerb, Mutable, Closing, GivesEpoch

LEMMA BodyFences ==
    ASSUME Inv, Valid(store), NEW r \in Requests,
           \/ Begin(r) \/ RefreshProvider(r) \/ Provision(r) \/ PrepareRuntime(r)
           \/ StartTurnOutput(r) \/ LinkTurn(r) \/ Spawn(r) \/ RecordPid(r)
           \/ ReadExit(r) \/ Finalize(r) \/ RecordThrow(r) \/ HandleStartThrow(r)
    PROVE  Valid(store') /\ SameFences(store, store')
<1>1. store \in StoredStates
    BY InvTypes DEF Inv
<1>2. SameFences(store, store)
    BY <1>1, FencesSame
<1>3. ASSUME NEW STATE allowed, NEW STATE next, Written(allowed, next) \/ Thrown(allowed, next),
             SameFences(store, next)
      PROVE  Valid(store') /\ SameFences(store, store')
    BY <1>2, <1>3, WriteOutcome
<1>4. CASE Begin(r) \/ StartTurnOutput(r) \/ Spawn(r) \/ ReadExit(r)
    BY <1>2, <1>4 DEF Begin, StartTurnOutput, Spawn, ReadExit, NoMutation
<1>5. CASE RefreshProvider(r)
    BY <1>1, <1>3, <1>5, FencesSame DEF RefreshProvider, Mutate
<1>6. CASE Provision(r)
    <2>1. \/ UNCHANGED store
          \/ \E session : \/ Written(Mutable(store), Upsert(store, session))
                          \/ Thrown(Mutable(store), Upsert(store, session))
        BY <1>6 DEF Provision, Mutate, NoMutation
    <2> QED BY <1>1, <1>2, <1>3, <2>1, FencesSame
<1>7. CASE PrepareRuntime(r)
    <2>1. \/ UNCHANGED store
          \/ Written(Mutable(store), Upsert(store, SessionFailed(store.session)))
          \/ Thrown(Mutable(store), Upsert(store, SessionFailed(store.session)))
        BY <1>7 DEF PrepareRuntime, Mutate, NoMutation
    <2> QED BY <1>1, <1>2, <1>3, <2>1, FencesSame
<1>8. CASE LinkTurn(r)
    <2>1. \/ \E allowed, session : \/ Written(allowed, Upsert(store, session))
                                   \/ Thrown(allowed, Upsert(store, session))
          \/ \E allowed, k, session : \/ Written(allowed, Link(store, k, session))
                                      \/ Thrown(allowed, Link(store, k, session))
        BY <1>8 DEF LinkTurn, Mutate
    <2> QED BY <1>1, <1>3, <2>1, FencesSame
<1>9. CASE RecordPid(r)
    <2>1. \E next : /\ Written(Mutable(store), next) \/ Thrown(Mutable(store), next)
                    /\ SameFences(store, next)
        BY <1>1, <1>2, <1>9, FencesSame DEF RecordPid, Mutate
    <2> QED BY <1>3, <2>1
<1>10. ASSUME NEW kind, NEW result, NEW next, PersistFinal(r, kind, result, next)
       PROVE  Valid(store') /\ SameFences(store, store')
    <2> DEFINE session == FinalSession(store.session, result)
               k == KeyOf[mem.keyed]
    <2>1. \/ \E allowed : \/ Written(allowed, Upsert(store, session))
                          \/ Thrown(allowed, Upsert(store, session))
          \/ \E allowed : \/ Written(allowed, Settled(store, k, kind, session))
                          \/ Thrown(allowed, Settled(store, k, kind, session))
        BY <1>10 DEF PersistFinal, Mutate
    <2> QED BY <1>1, <1>3, <2>1, FencesSame
<1>11. CASE Finalize(r) \/ RecordThrow(r)
    BY <1>10, <1>11 DEF Finalize, RecordThrow
<1>12. CASE HandleStartThrow(r)
    <2>1. \/ UNCHANGED store
          \/ \E next : /\ Written(TRUE, next) \/ Thrown(TRUE, next)
                       /\ SameFences(store, next)
        BY <1>1, <1>2, <1>12, FencesSame DEF HandleStartThrow, Mutate, NoMutation
    <2> QED BY <1>2, <1>3, <2>1
<1> QED BY <1>4, <1>5, <1>6, <1>7, <1>8, <1>9, <1>11, <1>12

LEMMA WriteFences ==
    ASSUME Valid(store), store \in StoredStates,
           NEW STATE allowed, NEW STATE next, Written(allowed, next) \/ Thrown(allowed, next),
           SameFences(store, next)
    PROVE  Valid(store') /\ SameFences(store, store')
BY WriteOutcome, FencesSame

\* A request keeps the epoch and the reconnection it was called with ...
LEMMA EpochsStay ==
    ASSUME TypeInv, NEW r \in Requests, Admission(r) \/ TurnStep(r)
    PROVE  \A q \in Requests : req'[q].epoch = req[q].epoch
<1>1. req \in [Requests -> RequestStates]
    BY InvTypes
<1>2. ASSUME \/ \E pc : Goto(r, pc)
             \/ \E answer : Answer(r, answer)
             \/ \E pc, other : req' = [req EXCEPT ![r].pc = pc, ![r].inFlight = other]
             \/ \E pc, session : req' = [req EXCEPT ![r].seen = session, ![r].pc = pc]
             \/ \E pc, session : req' = [req EXCEPT ![r].pc = pc, ![r].seen = session]
             \/ \E pc, result : req' = [req EXCEPT ![r].pc = pc, ![r].result = result]
             \/ \E pc : req' = [req EXCEPT ![r].pc = pc, ![r].retried = TRUE]
      PROVE  \A q \in Requests : req'[q].epoch = req[q].epoch
    <2>1. ASSUME NEW answer, Answer(r, answer)
          PROVE  \A q \in Requests : req'[q].epoch = req[q].epoch
        BY <1>1, <2>1 DEF Answer, RequestStates
    <2>2. ASSUME NEW pc, \/ Goto(r, pc)
                        \/ req' = [req EXCEPT ![r].pc = pc, ![r].retried = TRUE]
          PROVE  \A q \in Requests : req'[q].epoch = req[q].epoch
        BY <1>1, <2>2 DEF Goto, RequestStates
    <2>3. ASSUME NEW pc, NEW x, \/ req' = [req EXCEPT ![r].pc = pc, ![r].inFlight = x]
                               \/ req' = [req EXCEPT ![r].pc = pc, ![r].result = x]
          PROVE  \A q \in Requests : req'[q].epoch = req[q].epoch
        BY <1>1, <2>3 DEF RequestStates
    <2>4. ASSUME NEW pc, NEW x, \/ req' = [req EXCEPT ![r].seen = x, ![r].pc = pc]
                               \/ req' = [req EXCEPT ![r].pc = pc, ![r].seen = x]
          PROVE  \A q \in Requests : req'[q].epoch = req[q].epoch
        BY <1>1, <2>4 DEF RequestStates
    <2> QED BY <1>2, <2>1, <2>2, <2>3, <2>4
<1>3. CASE AdmitAnswered(r)
    <2>1. \/ \E answer : Answer(r, answer)
          \/ req' = [req EXCEPT ![r].pc = "waiting", ![r].inFlight = mem.keyed]
        BY <1>3 DEF AdmitAnswered
    <2> QED BY <1>2, <2>1
<1>4. CASE \/ Admit(r) \/ ReleaseRecoveryFence(r) \/ EnterTurn(r) \/ ClaimKey(r) \/ Wake(r)
           \/ RefreshProvider(r) \/ LinkTurn(r) \/ Spawn(r) \/ RecordPid(r)
           \/ HandleStartThrow(r) \/ PrepareRuntime(r)
    <2>1. (\E pc : Goto(r, pc)) \/ (\E answer : Answer(r, answer))
        BY <1>4 DEF Admit, ReleaseRecoveryFence, EnterTurn, ClaimKey, Wake, RefreshProvider,
           LinkTurn, Spawn, RecordPid, HandleStartThrow, PrepareRuntime, Mutate
    <2> QED BY <1>2, <2>1
<1>5. CASE Begin(r) \/ Provision(r)
    <2>1. \/ \E pc : Goto(r, pc)
          \/ \E pc, session : req' = [req EXCEPT ![r].seen = session, ![r].pc = pc]
          \/ \E pc, session : req' = [req EXCEPT ![r].pc = pc, ![r].seen = session]
        BY <1>5 DEF Begin, Provision, Mutate
    <2> QED BY <1>2, <2>1
<1>6. CASE StartTurnOutput(r)
    BY <1>1, <1>6 DEF StartTurnOutput, Goto, RequestStates
<1>7. CASE ReadExit(r)
    BY <1>2, <1>7 DEF ReadExit
<1>8. CASE Finalize(r) \/ RecordThrow(r) \/ ReleaseTurn(r)
    <2>1. (\E pc : Goto(r, pc)) \/ (\E answer : Answer(r, answer))
        BY <1>8 DEF Finalize, RecordThrow, PersistFinal, ReleaseTurn, Mutate
    <2> QED BY <1>2, <2>1
<1> QED BY <1>3, <1>4, <1>5, <1>6, <1>7, <1>8 DEF Admission, TurnStep

\* A request that is called, waits, is answered or enters is in no turn.
LEMMA OutsideTurn ==
    ASSUME TypeInv, NEW r \in Requests,
           \/ \E answer : Answer(r, answer)
           \/ \E pc \in {"fence", "enter"} : Goto(r, pc)
           \/ \E other : req' = [req EXCEPT ![r].pc = "waiting", ![r].inFlight = other]
           \/ \E e \in 0..MaxEpoch : Call(r, e)
    PROVE  /\ Others(r) /\ req'[r].pc \notin {"claim"} \cup BodySteps
           /\ \A q \in Requests : req'[q].pc \in {"claim"} \cup BodySteps => req'[q] = req[q]
<1>1. req \in [Requests -> RequestStates]
    BY InvTypes
<1>2. CASE \E answer : Answer(r, answer)
    <2>1. PICK answer : Answer(r, answer)
        BY <1>2
    <2>2. Others(r)
        BY <1>1, <2>1 DEF Answer, Others
    <2>3. req'[r].pc = "done"
        BY <1>1, <2>1 DEF Answer, RequestStates
    <2> QED BY <2>2, <2>3, PcNames DEF Others
<1>3. CASE \E pc \in {"fence", "enter"} : Goto(r, pc)
    <2>1. Others(r) /\ req'[r].pc \in {"fence", "enter"}
        BY <1>1, <1>3 DEF Goto, Others, RequestStates
    <2> QED BY <2>1, PcNames DEF Others
<1>4. CASE \E other : req' = [req EXCEPT ![r].pc = "waiting", ![r].inFlight = other]
    <2>1. Others(r) /\ req'[r].pc = "waiting"
        BY <1>1, <1>4 DEF Others, RequestStates
    <2> QED BY <2>1, PcNames DEF Others
<1>5. CASE \E e \in 0..MaxEpoch : Call(r, e)
    <2>1. Others(r) /\ req'[r].pc = "queued"
        BY <1>1, <1>5 DEF Call, Others, RequestStates
    <2> QED BY <2>1, PcNames DEF Others
<1> QED BY <1>2, <1>3, <1>4, <1>5

\* ... and its turn was let in by a store that knew it.
LEMMA RequestFences ==
    ASSUME Inv, VerbInv, FenceInv, NEW r \in Requests,
           Admission(r) \/ TurnStep(r) \/ Exit(r) \/ \E e \in 0..MaxEpoch : Call(r, e)
    PROVE  FenceInv'
<1>1. /\ store \in StoredStates /\ mem \in Memory /\ TypeInv /\ Valid(store)
      /\ req \in [Requests -> RequestStates]
      /\ store.latest \in Nat /\ report \in Reports
    BY InvTypes, LimitAssumption DEF Inv, TypeInv, TypeOK, FenceInv, StoredStates
<1>2. SameFences(store, store) /\ report'.epoch = report.epoch
    BY <1>1, FencesSame, TurnsReport
<1>3. CASE AdmitAnswered(r) \/ Wake(r) \/ \E e \in 0..MaxEpoch : Call(r, e)
    <2>1. \A q \in Requests : req'[q].pc \in {"claim"} \cup BodySteps => req'[q] = req[q]
        <3>1. \/ \E answer : Answer(r, answer)
              \/ \E other : req' = [req EXCEPT ![r].pc = "waiting", ![r].inFlight = other]
              \/ \E e \in 0..MaxEpoch : Call(r, e)
            BY <1>3 DEF AdmitAnswered, Wake
        <3> QED BY <1>1, <3>1, OutsideTurn
    <2>2. store' = store /\ SameVerb
        BY <1>3 DEF AdmitAnswered, Wake, Call, NoMutation, SameVerb
    <2> QED BY <1>1, <1>2, <2>1, <2>2, FencesStay
<1>4. CASE Admit(r)
    <2>1. \A q \in Requests : req'[q].pc \in {"claim"} \cup BodySteps => req'[q] = req[q]
        <3>1. \E pc \in {"fence", "enter"} : Goto(r, pc)
            BY <1>4 DEF Admit
        <3> QED BY <1>1, <3>1, OutsideTurn
    <2>2. store' = store /\ SameVerb
        BY <1>4 DEF Admit, NoMutation, SameVerb
    <2> QED BY <1>1, <1>2, <2>1, <2>2, FencesStay
<1>5. CASE Exit(r)
    BY <1>1, <1>2, <1>5, FencesStay DEF Exit, NoMutation, SameVerb
<1>6. CASE ReleaseRecoveryFence(r)
    <2>1. \A q \in Requests : req'[q].pc \in {"claim"} \cup BodySteps => req'[q] = req[q]
        <3>1. Goto(r, "enter") \/ \E answer : Answer(r, answer)
            BY <1>6 DEF ReleaseRecoveryFence, Mutate
        <3> QED BY <1>1, <3>1, OutsideTurn
    <2>2. Valid(store') /\ SameFences(store, store')
        BY <1>1, <1>2, <1>6, WriteOutcome, FencesSame DEF ReleaseRecoveryFence, Mutate
    <2>3. SameVerb
        BY <1>6 DEF ReleaseRecoveryFence, SameVerb
    <2> QED BY <1>2, <2>1, <2>2, <2>3, FencesStay
<1>7. CASE EnterTurn(r)
    <2>1. mem.lock = "turn" /\ op.pc = "none"
        BY <1>7, PcNames DEF EnterTurn, Inv, LockInv
    <2>2. op'.verb = "none"
        BY <1>7, <2>1 DEF EnterTurn, VerbInv
    <2>3. Valid(store')
        BY <1>1, <1>7, WriteOutcome DEF EnterTurn, Mutate
    <2>4. \A q \in Requests \ {r} : req'[q] = req[q]
        BY <1>1, <1>7 DEF EnterTurn, Mutate, Goto, Answer
    <2>5. CASE Thrown(CanEnter(store, req[r].epoch), Enter(store)) /\ Answer(r, "refused")
        <3>1. store' = store /\ req'[r].pc = "done"
            BY <1>1, <2>5 DEF Thrown, Answer, RequestStates
        <3> QED BY <1>1, <1>2, <2>2, <2>4, <3>1, PcNames, FencesStay DEF NewVerb
    <2>6. CASE Written(CanEnter(store, req[r].epoch), Enter(store))
               /\ Goto(r, IF Keyed(r) THEN "claim" ELSE "body")
        <3>1. store' = Enter(store) /\ req[r].epoch = store.latest
            BY <2>6 DEF Written, CanEnter
        <3>2. Mutable(store') /\ store'.active.epoch = 0 /\ store'.latest = store.latest
            BY <1>1, <3>1 DEF Enter, Mutable, NoReservation, StoredStates
        <3>3. req'[r].epoch = req[r].epoch
            BY <1>1, <2>6 DEF Goto, RequestStates
        <3>4. \A q \in Requests :
                  req'[q].pc \in {"claim"} \cup BodySteps =>
                      report'.epoch <= req'[q].epoch /\ req'[q].epoch <= store'.latest
            BY <1>1, <1>2, <2>4, <3>1, <3>2, <3>3 DEF FenceInv
        <3> QED BY <1>2, <2>2, <2>3, <3>2, <3>4 DEF FenceInv, Closing
    <2> QED BY <1>7, <2>5, <2>6 DEF EnterTurn, Mutate
<1>8. CASE ClaimKey(r)
    <2>1. Valid(store') /\ SameFences(store, store')
        BY <1>1, <1>2, <1>8, WriteOutcome, FencesSame DEF ClaimKey, Mutate
    <2>2. \A q \in Requests \ {r} : req'[q] = req[q]
        BY <1>1, <1>8 DEF ClaimKey, Mutate, Goto, Answer
    <2>3. req[r].pc = "claim" /\ SameVerb /\ TurnStep(r)
        BY <1>8 DEF ClaimKey, SameVerb, TurnStep
    <2> QED BY <1>1, <1>2, <2>1, <2>2, <2>3, EpochsStay, FencesStay
<1>9. CASE \/ Begin(r) \/ RefreshProvider(r) \/ Provision(r) \/ PrepareRuntime(r)
           \/ StartTurnOutput(r) \/ LinkTurn(r) \/ Spawn(r) \/ RecordPid(r)
           \/ ReadExit(r) \/ Finalize(r) \/ RecordThrow(r) \/ HandleStartThrow(r)
    <2>1. BodyStep(r) /\ TurnStep(r)
        BY <1>1, <1>9, DispatchSteps, FinishSteps DEF TurnStep
    <2>2. Valid(store') /\ SameFences(store, store')
        BY <1>1, <1>9, BodyFences
    <2>3. \A q \in Requests : req'[q].epoch = req[q].epoch
        BY <1>1, <2>1, EpochsStay
    <2> QED BY <1>2, <2>1, <2>2, <2>3, FencesStay DEF BodyStep, Others, SameLock, SameVerb
<1>10. CASE ReleaseTurn(r)
    <2>1. \/ store' = store
          \/ LET next == Settled(store, KeyOf[r], "error", SettledByThrow(store.session, r))
                 allowed == CanSettleBehindFence(store, KeyOf[r], PrintOf[r])
             IN  Written(allowed, next) \/ Thrown(allowed, next)
        BY <1>10 DEF ReleaseTurn, Mutate, NoMutation
    <2>2. Valid(store') /\ SameFences(store, store')
        BY <1>1, <1>2, <2>1, WriteOutcome, FencesSame
    <2>3. \A q \in Requests : req'[q].pc \in {"claim"} \cup BodySteps => req'[q] = req[q]
        BY <1>1, <1>10, OutsideTurn DEF ReleaseTurn, Mutate
    <2>4. SameVerb
        BY <1>10 DEF ReleaseTurn, SameVerb
    <2> QED BY <1>2, <2>2, <2>3, <2>4, FencesStay
<1> QED BY <1>3, <1>4, <1>5, <1>6, <1>7, <1>8, <1>9, <1>10 DEF Admission, TurnStep
LEMMA FreeVerb ==
    ASSUME Inv, VerbInv, mem.lock = "free"
    PROVE  op.verb = "none" /\ op.pc = "none"
BY DEF Inv, LockInv, VerbInv

LEMMA ReleaseFences ==
    ASSUME NEW s \in StoredStates
    PROVE  LET t == Release(s) IN
           /\ Mutable(t) /\ t.active.epoch = 0 /\ t.latest = s.latest
           /\ t.session = s.session /\ t.receipts = s.receipts /\ t.order = s.order
           /\ t.generation = s.generation
BY DEF Release, Mutable, NoReservation, StoredStates

LEMMA StopFences ==
    ASSUME Inv, VerbInv, FenceInv,
           StopBegin \/ StopResolveFence \/ DrainTimesOut \/ StopDrained \/ StopWrite
    PROVE  FenceInv'
<1>1. /\ store \in StoredStates /\ op \in Operations /\ Valid(store) /\ SameFences(store, store)
      /\ report'.epoch = report.epoch
    <2>1. report \in Reports
        BY DEF Inv, TypeInv, TypeOK
    <2>2. report'.epoch = report.epoch
        BY <2>1, ReportRead DEF StopBegin, StopResolveFence, DrainTimesOut, StopDrained, StopWrite,
           Mutate, StopSucceeds, StopFails
    <2> QED BY <2>2, InvTypes, FencesSame DEF Inv, FenceInv
<1>2. CASE StopBegin
    BY <1>1, <1>2, FencesStay DEF StopBegin, NoMutation, NoOp
<1>3. CASE StopResolveFence \/ DrainTimesOut \/ StopDrained
    <2>1. store' = store /\ req' = req
        BY <1>3 DEF StopResolveFence, DrainTimesOut, StopDrained, NoMutation
    <2>2. OpEnds \/ SameVerb
        BY <1>1, <1>3 DEF StopResolveFence, DrainTimesOut, StopDrained, OpGoto, SameVerb, Operations
    <2> QED BY <1>1, <2>1, <2>2, FencesStay DEF NewVerb, OpEnds, NoOp
<1>4. CASE StopWrite
    <2>1. OpEnds /\ req' = req
        BY <1>4 DEF StopWrite, Mutate, StopSucceeds, StopFails
    <2>2. \/ store' = store
          \/ \E allowed, session : \/ Written(allowed, Upsert(store, session))
                                   \/ Thrown(allowed, Upsert(store, session))
          \/ \E k, session : \/ Written(TRUE, Settled(store, k, "error", session))
                             \/ Thrown(TRUE, Settled(store, k, "error", session))
        BY <1>4 DEF StopWrite, Mutate, NoMutation
    <2>3. Valid(store') /\ SameFences(store, store')
        BY <1>1, <2>2, WriteFences, FencesSame
    <2> QED BY <1>1, <2>1, <2>3, FencesStay DEF NewVerb, OpEnds, NoOp
<1> QED BY <1>2, <1>3, <1>4

LEMMA BeginFences ==
    ASSUME Inv, VerbInv, FenceInv,
           \/ QuiesceBegin
           \/ \E verb \in {"purge", "gc"} :
                  PurgeAgain(verb) \/ PurgeUnknown(verb) \/ PurgeBegin(verb)
    PROVE  FenceInv'
<1>1. /\ store \in StoredStates /\ Valid(store) /\ SameFences(store, store)
      /\ Mutable(store) <=> store.active.epoch = 0
      /\ store.latest \in Nat /\ req \in [Requests -> RequestStates]
      /\ report \in Reports /\ report.epoch \in Nat
    BY InvTypes, FencesSame, LimitAssumption DEF Inv, TypeInv, TypeOK, FenceInv, StoredStates, Reports
<1>2. op.verb = "none"
    BY FreeVerb DEF QuiesceBegin, PurgeAgain, PurgeUnknown, PurgeBegin, Free
<1>3. req' = req
    BY DEF QuiesceBegin, PurgeAgain, PurgeUnknown, PurgeBegin
<1>4. ASSUME store' = store, op' = op, report'.epoch = report.epoch PROVE FenceInv'
    BY <1>1, <1>3, <1>4, FencesStay DEF SameVerb
<1>5. ASSUME NEW purpose \in {"external", "purge"}, Written(CanReserve(store), Reserve(store, purpose)),
             \/ \E verb \in Closing : \E tracked :
                    /\ BeginClosing(verb, tracked, Reserve(store, purpose))
                    /\ verb = "quiesce" => purpose = "external"
             \/ /\ op' = op /\ mem.active = None /\ purpose = "external"
                /\ report' = ReportedEpoch(Reserve(store, purpose).active.epoch)
      PROVE  FenceInv'
    <2>1. store' = Reserve(store, purpose) /\ Valid(store')
        BY <1>5 DEF Written
    <2>2. /\ ~Mutable(store') /\ store'.active.epoch # 0 /\ store.latest <= store'.latest
          /\ store'.active.purpose = "purge" => purpose = "purge"
          /\ store'.active.purpose # "purge" => store'.active.epoch = store'.latest
        BY <1>1, <1>5, <2>1, ReserveFences
    <2>3. store' \in StoredStates
        BY <1>1, <1>5, <2>1, FenceType DEF Written
    <2>4. store'.latest \in Nat /\ \A r \in Requests : req[r].epoch \in Nat
        BY <1>1, <2>3, LimitAssumption DEF StoredStates, RequestStates
    <2>5. /\ op'.verb = "none" \/ (op'.verb \in Closing /\ op'.epoch = store'.active.epoch)
          /\ op'.verb # "none" => op'.purpose = store'.active.purpose
          /\ op'.verb = "quiesce" => purpose = "external"
        BY <1>2, <1>5, <2>1 DEF BeginClosing, NoOp
    <2>6. CASE report'.epoch = report.epoch
        <3>1. \A r \in Requests : req'[r].pc \in {"claim"} \cup BodySteps =>
                  report'.epoch <= req'[r].epoch /\ req'[r].epoch <= store'.latest
            BY <1>1, <1>3, <2>2, <2>4, <2>6 DEF FenceInv
        <3>2. report'.epoch <= store'.latest
            BY <1>1, <2>2, <2>4, <2>6 DEF FenceInv
        <3> QED BY <2>1, <2>2, <2>4, <2>5, <3>1, <3>2 DEF FenceInv, Closing, GivesEpoch
    <2>7. CASE mem.active = None /\ purpose = "external" /\ report'.epoch = store'.active.epoch
        <3>1. \A r \in Requests : req'[r].pc \notin {"claim"} \cup BodySteps
            BY <1>3, <2>7, InvTypes DEF Inv, LockInv
        <3> QED BY <2>1, <2>2, <2>4, <2>5, <2>7, <3>1 DEF FenceInv, Closing, GivesEpoch
    <2>8. \/ report' = Reported("open")
          \/ mem.active = None /\ purpose = "external" /\ report' = ReportedEpoch(store'.active.epoch)
        BY <1>5, <2>1 DEF BeginClosing
    <2> QED BY <1>1, <2>6, <2>7, <2>8, ReportRead
<1>6. CASE QuiesceBegin
    BY <1>4, <1>5, <1>6 DEF QuiesceBegin, Mutate, Thrown, Closing, Tracked
<1>7. ASSUME NEW verb \in {"purge", "gc"}, PurgeUnknown(verb) \/ PurgeBegin(verb) PROVE FenceInv'
    BY <1>4, <1>5, <1>7 DEF PurgeUnknown, PurgeBegin, NoMutation, Mutate, Thrown, Closing
<1>8. ASSUME NEW verb \in {"purge", "gc"}, PurgeAgain(verb) PROVE FenceInv'
    <2>1. /\ op' = op /\ (store' = store \/ (store' = Release(store) /\ Valid(store')))
          /\ report'.epoch = report.epoch
        BY <1>1, <1>8, ReportRead DEF PurgeAgain, Mutate, Written, Thrown
    <2> QED BY <1>1, <1>2, <1>3, <1>4, <2>1, ReleaseFences DEF FenceInv, Closing
<1> QED BY <1>6, <1>7, <1>8

LEMMA CloseFences ==
    ASSUME Inv, VerbInv, FenceInv,
           CloseDrained \/ ProveClosed \/ RecordClosed \/ PurgeRemove \/ PurgeUnfence
    PROVE  FenceInv'
<1>1. /\ store \in StoredStates /\ op \in Operations /\ Valid(store) /\ SameFences(store, store)
      /\ report \in Reports
    BY InvTypes, FencesSame DEF Inv, TypeInv, TypeOK, FenceInv
<1>2. req' = req
    BY DEF CloseDrained, ProveClosed, RecordClosed, PurgeRemove, PurgeUnfence
<1>3. OpEnds \/ SameVerb
    <2>1. OpEnds \/ op' = [op EXCEPT !.pc = "prove", !.seen = store.session, !.had = TRUE]
                 \/ \E pc : OpGoto(pc)
        BY DEF CloseDrained, ProveClosed, RecordClosed, PurgeRemove, PurgeUnfence, Mutate
    <2> QED BY <1>1, <2>1 DEF SameVerb, OpGoto, Operations
<1>4. NewVerb \/ SameVerb
    BY <1>3 DEF OpEnds, NoOp, NewVerb
<1>5. \/ report'.epoch = report.epoch
      \/ /\ report'.epoch <= store.latest
         /\ \A r \in Requests : req[r].pc \notin {"claim"} \cup BodySteps
    <2>1. op.verb \in Closing /\ mem.active = None
        BY DEF CloseDrained, ProveClosed, RecordClosed, PurgeRemove, PurgeUnfence, Closing, Drained,
           VerbInv, AfterProof, Inv, LockInv
    <2>2. \A r \in Requests : req[r].pc \notin {"claim"} \cup BodySteps
        BY <2>1, InvTypes DEF Inv, LockInv
    <2>3. \/ report' = report \/ report' = Reported("closed")
          \/ GivesEpoch /\ report' = ReportedEpoch(op.epoch)
        BY DEF CloseDrained, ProveClosed, RecordClosed, PurgeRemove, PurgeUnfence, Mutate, GivesEpoch
    <2>4. CASE GivesEpoch /\ report' = ReportedEpoch(op.epoch)
        <3>1. report'.epoch = op.epoch
            BY <1>1, <2>4, ReportRead
        <3> QED BY <2>1, <2>2, <2>4, <3>1 DEF FenceInv
    <2> QED BY <1>1, <2>3, <2>4, ReportRead
<1>6. CASE CloseDrained \/ ProveClosed
    BY <1>1, <1>2, <1>4, <1>6, <1>5, FencesStay DEF CloseDrained, ProveClosed, NoMutation
<1>7. CASE RecordClosed
    <2>1. Valid(store') /\ SameFences(store, store')
        BY <1>1, <1>7, WriteOutcome, FencesSame DEF RecordClosed, Mutate
    <2> QED BY <1>2, <1>4, <1>5, <2>1, FencesStay
<1>8. CASE PurgeRemove
    <2>1. Valid(store') /\ SameFences(store, store')
        BY <1>1, <1>8, WriteOutcome, FencesSame DEF PurgeRemove, Mutate
    <2> QED BY <1>2, <1>4, <1>5, <2>1, FencesStay
<1>9. CASE PurgeUnfence
    <2>1. OpEnds /\ (store' = store \/ (store' = Release(store) /\ Valid(store')))
        BY <1>9 DEF PurgeUnfence, Mutate, Written, Thrown
    <2>2. report'.epoch = report.epoch
        BY <1>1, <1>9, ReportRead DEF PurgeUnfence, Mutate
    <2>3. op'.verb = "none"
        BY <2>1 DEF OpEnds, NoOp
    <2>4. CASE store' = store
        BY <1>1, <1>2, <1>5, <2>3, <2>4, FencesStay DEF NewVerb
    <2>5. CASE store' = Release(store) /\ Valid(store')
        BY <1>1, <1>2, <2>3, <2>5, <2>2, ReleaseFences DEF FenceInv, Closing
    <2> QED BY <2>1, <2>4, <2>5
<1> QED BY <1>6, <1>7, <1>8, <1>9

LEMMA ShortVerbFences ==
    ASSUME Inv, VerbInv, FenceInv,
           \/ GcList \/ GcVisit \/ (\E e \in 1..MaxEpoch : ReleaseFence(e))
           \/ Resume \/ Suspend \/ FocusRead \/ FocusWrite \/ OtherNameQuiesces
    PROVE  FenceInv'
<1>1. /\ store \in StoredStates /\ op \in Operations /\ Valid(store) /\ SameFences(store, store)
    BY InvTypes, FencesSame DEF Inv, FenceInv
<1>2. req' = req /\ report' = report
    BY DEF GcList, GcVisit, ReleaseFence, Resume, Suspend, FocusRead, FocusWrite, OtherNameQuiesces
<1>3. CASE GcList \/ GcVisit \/ FocusRead
    BY <1>1, <1>2, <1>3, FencesStay DEF GcList, GcVisit, FocusRead, NoMutation, SameVerb, NewVerb, NoOp
<1>4. CASE Resume \/ Suspend \/ FocusWrite
    <2>1. \E allowed, session : \/ Written(allowed, Upsert(store, session))
                                \/ Thrown(allowed, Upsert(store, session))
        BY <1>4 DEF Resume, Suspend, FocusWrite, Mutate
    <2>2. Valid(store') /\ SameFences(store, store')
        BY <1>1, <2>1, WriteOutcome, FencesSame
    <2>3. SameVerb \/ NewVerb
        <3>1. op' = op \/ op' = NoOp
            BY <1>4 DEF Resume, Suspend, FocusWrite, OpEnds
        <3> QED BY <3>1 DEF SameVerb, NewVerb, NoOp
    <2> QED BY <1>2, <2>2, <2>3, FencesStay
<1>5. ASSUME NEW e \in 1..MaxEpoch, ReleaseFence(e) PROVE FenceInv'
    <2>1. op' = op /\ (store' = store \/ (store' = Release(store) /\ Valid(store')))
        BY <1>5 DEF ReleaseFence, Mutate, Written, Thrown
    <2>2. op.verb = "none"
        BY <1>5, FreeVerb DEF ReleaseFence, Free
    <2>3. CASE store' = store
        BY <1>1, <1>2, <2>1, <2>3, FencesStay DEF SameVerb
    <2>4. CASE store' = Release(store) /\ Valid(store')
        BY <1>1, <1>2, <2>1, <2>2, <2>4, ReleaseFences DEF FenceInv, Closing
    <2> QED BY <2>1, <2>3, <2>4
<1>6. CASE OtherNameQuiesces
    <2>1. /\ op' = op /\ store' = AllocateElsewhere(store)
          /\ store.lastEpoch \in Nat /\ store.latest \in Nat /\ store.active.epoch \in Nat
        BY <1>1, <1>6, LimitAssumption DEF OtherNameQuiesces, StoredStates, Reservations
    <2>2. /\ store'.session = store.session /\ store'.receipts = store.receipts
          /\ store'.active = store.active /\ store'.latest = store.latest
          /\ store'.lastEpoch = store.lastEpoch + 1
        BY <1>1, <2>1 DEF AllocateElsewhere, StoredStates
    <2>3. FencesConsistent(store')
        BY <1>1, <2>1, <2>2 DEF Valid, FencesConsistent
    <2>4. Valid(store')
        <3>1. \A state : KeysIn(store', state) = KeysIn(store, state)
            BY <2>2 DEF KeysIn
        <3>2. /\ LinkedReceiptHasTurn(store') <=> LinkedReceiptHasTurn(store)
              /\ SettledTurnNotRunning(store') <=> SettledTurnNotRunning(store)
            BY <2>2 DEF LinkedReceiptHasTurn, SettledTurnNotRunning
        <3>3. OutcomesMatch(store') <=> OutcomesMatch(store)
            BY <2>2 DEF OutcomesMatch
        <3>4. KeyedTurnHasReceipt(store') <=> KeyedTurnHasReceipt(store)
            BY <2>2 DEF KeyedTurnHasReceipt
        <3> QED BY <1>1, <2>3, <3>1, <3>2, <3>3, <3>4 DEF Valid
    <2> QED BY <1>2, <2>1, <2>2, <2>4 DEF FenceInv, Mutable, GivesEpoch
<1> QED BY <1>3, <1>4, <1>5, <1>6

LEMMA CrashFences ==
    ASSUME Inv, VerbInv, DownInv, FenceInv, Crash \/ Restart
    PROVE  FenceInv'
<1>1. /\ store \in StoredStates /\ Valid(store) /\ SameFences(store, store)
      /\ req \in [Requests -> RequestStates]
    BY InvTypes, FencesSame DEF Inv, FenceInv
<1>2. report' = report
    BY DEF Crash, Restart
<1>3. CASE Crash
    <2>1. \A q \in Requests : req'[q].pc \in {"claim"} \cup BodySteps => req'[q] = req[q]
        BY <1>1, <1>3, PcNames DEF Crash, NoRequest
    <2> QED BY <1>1, <1>3, <1>2, <2>1, FencesStay DEF Crash, NoMutation, NewVerb, NoOp
<1>4. CASE Restart
    <2>1. Valid(store') /\ SameFences(store, store')
        <3>1. \/ store' = store
              \/ Written(TRUE, Reconciled(store)) \/ Thrown(TRUE, Reconciled(store))
            BY <1>4 DEF Restart, Mutate, NoMutation
        <3> QED BY <1>1, <3>1, WriteFences, FencesSame
    <2> QED BY <1>4, <1>2, <2>1, FencesStay DEF Restart, SameVerb
<1> QED BY <1>3, <1>4

-----------------------------------------------------------------------------
(* The verbs, the crashes and the fences together. *)

\* Nothing but a crash takes the daemon down.
LEMMA UpStays ==
    ASSUME \/ \E r \in Requests :
                 Admission(r) \/ TurnStep(r) \/ \E e \in 0..MaxEpoch : Call(r, e)
           \/ OpBegin \/ OpStep
    PROVE  up /\ up' = up
<1>1. ASSUME NEW r \in Requests, Admission(r) \/ \E e \in 0..MaxEpoch : Call(r, e) PROVE up /\ up' = up
    BY <1>1 DEF Admission, AdmitAnswered, Admit, Lock, Call
<1>2. ASSUME NEW r \in Requests, TurnStep(r) PROVE up /\ up' = up
    <2>1. CASE \/ ReleaseRecoveryFence(r) \/ EnterTurn(r) \/ ClaimKey(r) \/ Wake(r)
               \/ Begin(r) \/ RefreshProvider(r) \/ Provision(r) \/ PrepareRuntime(r)
        BY <2>1 DEF ReleaseRecoveryFence, EnterTurn, ClaimKey, Wake, Begin, RefreshProvider,
           Provision, PrepareRuntime
    <2>2. CASE \/ StartTurnOutput(r) \/ LinkTurn(r) \/ Spawn(r) \/ RecordPid(r)
               \/ ReadExit(r) \/ Finalize(r) \/ RecordThrow(r) \/ HandleStartThrow(r)
               \/ ReleaseTurn(r)
        BY <2>2 DEF StartTurnOutput, LinkTurn, Spawn, RecordPid, ReadExit, Finalize, RecordThrow,
           PersistFinal, HandleStartThrow, ReleaseTurn
    <2> QED BY <1>2, <2>1, <2>2 DEF TurnStep
<1>3. CASE OpBegin
    <2>1. CASE \/ StopBegin \/ QuiesceBegin \/ GcList \/ GcVisit \/ Resume \/ Suspend
               \/ FocusRead \/ OtherNameQuiesces
        BY <2>1 DEF StopBegin, QuiesceBegin, GcList, GcVisit, Resume, Suspend, FocusRead, Lock,
           OtherNameQuiesces, Free
    <2>2. ASSUME NEW verb, PurgeAgain(verb) \/ PurgeUnknown(verb) \/ PurgeBegin(verb) PROVE up /\ up' = up
        BY <2>2 DEF PurgeAgain, PurgeUnknown, PurgeBegin, Free
    <2>3. ASSUME NEW e, ReleaseFence(e) PROVE up /\ up' = up
        BY <2>3 DEF ReleaseFence, Free
    <2> QED BY <1>3, <2>1, <2>2, <2>3 DEF OpBegin
<1>4. CASE OpStep
    BY <1>4 DEF OpStep, StopResolveFence, DrainTimesOut, StopDrained, StopWrite, CloseDrained,
       ProveClosed, RecordClosed, PurgeRemove, PurgeUnfence, FocusWrite
<1> QED BY <1>1, <1>2, <1>3, <1>4

LEMMA DownStays ==
    ASSUME TypeInv, DownInv, [Next]_vars
    PROVE  DownInv'
<1>1. req \in [Requests -> RequestStates] /\ mem \in Memory
    BY InvTypes
<1>2. CASE UNCHANGED vars
    BY <1>2 DEF vars, DownInv
<1>3. CASE \/ \E r \in Requests :
                 Admission(r) \/ TurnStep(r) \/ \E e \in 0..MaxEpoch : Call(r, e)
           \/ OpBegin \/ OpStep
    BY <1>3, UpStays DEF DownInv
<1>4. ASSUME NEW r \in Requests, Exit(r) PROVE DownInv'
    <2>1. mem = NoMemory => mem' = NoMemory
        <3>1. ASSUME mem = NoMemory PROVE mem' = NoMemory
            <4>1. mem.child = None
                BY <3>1 DEF NoMemory
            <4>2. mem' = [mem EXCEPT !.child = None]
                BY <1>4, <4>1 DEF Exit
            <4> QED BY <3>1, <4>2 DEF NoMemory
        <3> QED BY <3>1
    <2> QED BY <1>4, <2>1 DEF Exit, DownInv
<1>5. CASE Crash
    <2>1. \A r \in Requests : req'[r].pc \in {"new", "done", "lost"}
        BY <1>1, <1>5 DEF Crash, NoRequest
    <2> QED BY <1>5, <2>1, PcNames DEF Crash, DownInv
<1>6. CASE Restart
    BY <1>6 DEF Restart, DownInv
<1> QED BY <1>2, <1>3, <1>4, <1>5, <1>6 DEF Next

Ground == VerbInv /\ DownInv /\ FenceInv

LEMMA InitGround == Init => Ground
<1> SUFFICES ASSUME Init PROVE Ground
    OBVIOUS
<1>1. VerbInv
    BY DEF Init, VerbInv, NoOp, Closing, AfterProof
<1>2. DownInv
    BY DEF Init, DownInv
<1>3. /\ KeysIn(freshState, "running") = {} /\ KeysIn(freshState, "settled") = {}
      /\ KeysIn(freshState, "free") = Keys
    BY DEF freshState, KeysIn, FreeReceipt
<1>4. Cardinality({}) = 0
    BY FS_EmptySet
<1>5. FencesConsistent(freshState)
    BY DEF freshState, FencesConsistent, NoReservation
<1>6. /\ LinkedReceiptHasTurn(freshState) /\ SettledTurnNotRunning(freshState)
      /\ OutcomesMatch(freshState) /\ KeyedTurnHasReceipt(freshState)
    BY DEF freshState, LinkedReceiptHasTurn, SettledTurnNotRunning, OutcomesMatch,
       KeyedTurnHasReceipt, FreeReceipt, NoOutcome, NoSession, NoTurn
<1>7. Valid(freshState)
    BY <1>3, <1>4, <1>5, <1>6, LimitAssumption DEF Valid
<1>8. /\ \A r \in Requests : req[r].pc = "new"
      /\ op.verb = "none" /\ Mutable(store) /\ store.active.epoch = 0
      /\ report.epoch <= store.latest
    BY DEF Init, NoRequest, NoOp, freshState, Mutable, NoReservation, NothingReported
<1>9. FenceInv
    BY <1>7, <1>8, PcNames DEF FenceInv, Init, Closing
<1> QED BY <1>1, <1>2, <1>9 DEF Ground

LEMMA GroundStays ==
    ASSUME Inv, Ground, [Next]_vars
    PROVE  Ground'
<1>1. DownInv'
    BY DownStays DEF Inv, Ground
<1>2. CASE UNCHANGED vars
    <2>1. VerbInv'
        BY <1>2 DEF vars, Ground, VerbInv
    <2>2. FenceInv'
        BY <1>2 DEF vars, Ground, FenceInv, GivesEpoch
    <2> QED BY <1>1, <2>1, <2>2 DEF Ground
<1>3. ASSUME NEW r \in Requests,
             Admission(r) \/ TurnStep(r) \/ Exit(r) \/ \E e \in 0..MaxEpoch : Call(r, e)
      PROVE  Ground'
    BY <1>1, <1>3, RequestVerb, RequestFences DEF Ground
<1>4. CASE OpBegin \/ OpStep
    <2>1. mem \in Memory /\ op \in Operations
        BY InvTypes DEF Inv
    <2>2. CASE StopBegin \/ StopResolveFence \/ DrainTimesOut \/ StopDrained \/ StopWrite
        BY <1>1, <2>1, <2>2, StopVerb, StopFences DEF Ground
    <2>3. CASE \/ QuiesceBegin
               \/ \E verb \in {"purge", "gc"} :
                      PurgeAgain(verb) \/ PurgeUnknown(verb) \/ PurgeBegin(verb)
        BY <1>1, <2>1, <2>3, ClosingVerb, BeginFences DEF Ground
    <2>4. CASE CloseDrained \/ ProveClosed \/ RecordClosed \/ PurgeRemove \/ PurgeUnfence
        BY <1>1, <2>1, <2>4, ClosingVerb, CloseFences DEF Ground
    <2>5. CASE \/ GcList \/ GcVisit \/ (\E e \in 1..MaxEpoch : ReleaseFence(e))
               \/ Resume \/ Suspend \/ FocusRead \/ FocusWrite \/ OtherNameQuiesces
        BY <1>1, <2>1, <2>5, ShortVerb, ShortVerbFences DEF Ground
    <2> QED BY <1>4, <2>2, <2>3, <2>4, <2>5 DEF OpBegin, OpStep
<1>5. CASE Crash \/ Restart
    <2>1. VerbInv'
        <3>1. CASE Crash
            BY <1>5, <3>1 DEF Crash, VerbInv, NoOp, Closing, AfterProof
        <3>2. CASE Restart
            BY <3>2 DEF Restart, Ground, VerbInv
        <3> QED BY <1>5, <3>1, <3>2
    <2> QED BY <1>1, <1>5, <2>1, CrashFences DEF Ground
<1> QED BY <1>2, <1>3, <1>4, <1>5 DEF Next

-----------------------------------------------------------------------------
(* A closed runtime stays closed. *)

AtRest(session) ==
    session.state = "stopped" /\ session.turn.state # "running" /\ session.fence = NoRecoveryFence

\* Between the report of a closed runtime and the next turn no turn is in and
\* nothing is being closed; what is stored behind a fence then is at rest.
QuietInv ==
    /\ Closed => mem.active = None /\ op.verb \notin Closing
    /\ Closed /\ ~Mutable(store) /\ Present(store) => AtRest(store.session)

Frozen == Closed /\ ~Mutable(store) /\ ~Mutable(store') /\ Present(store')
          => store'.session = store.session

\* What is left to show of a step that reports nothing: it adds no turn, begins
\* no closing, and writes nothing behind a fence.
LEMMA QuietStays ==
    ASSUME QuietInv, report' = report, mem'.active \in {mem.active, None} \/ ~Closed,
           op'.verb = op.verb \/ op'.verb \notin Closing,
           \/ store' = store
           \/ Mutable(store')
           \/ ~Closed
           \/ /\ store'.session = store.session
              /\ Mutable(store') <=> Mutable(store)
    PROVE  QuietInv' /\ Frozen
BY DEF QuietInv, Frozen, AtRest, Present, Closed

LEMMA WriteMutable ==
    ASSUME store \in StoredStates, Mutable(store), NEW STATE allowed, NEW STATE next,
           SameFences(store, next), Written(allowed, next) \/ Thrown(allowed, next)
    PROVE  Mutable(store')
BY DEF SameFences, Mutable, Written, Thrown

LEMMA QuietTurns ==
    ASSUME Inv, QuietInv, NEW r \in Requests,
           Admission(r) \/ TurnStep(r) \/ Exit(r) \/ \E e \in 0..MaxEpoch : Call(r, e)
    PROVE  QuietInv' /\ Frozen
<1>1. /\ store \in StoredStates /\ mem \in Memory /\ TypeInv /\ None \notin Requests
      /\ report \in Reports
    BY InvTypes DEF Inv, TypeInv, TypeOK
<1>2. CASE req[r].pc \in {"claim"} \cup BodySteps
    <2>1. mem.active = r
        BY <1>2 DEF Inv, LockInv
    <2>2. ~Closed
        BY <1>1, <2>1 DEF QuietInv
    <2>3. TurnStep(r) \/ Exit(r)
        BY <1>2, PcNames DEF Admission, AdmitAnswered, Admit, Call
    <2>4. report' = report /\ op' = op
        <3>1. CASE Exit(r) \/ ReleaseTurn(r) \/ ClaimKey(r) \/ Wake(r) \/ ReleaseRecoveryFence(r)
            BY <3>1 DEF Exit, ReleaseTurn, ClaimKey, Wake, ReleaseRecoveryFence
        <3>2. CASE EnterTurn(r)
            BY <1>2, <3>2, PcNames DEF EnterTurn
        <3>3. CASE \/ Begin(r) \/ RefreshProvider(r) \/ Provision(r) \/ PrepareRuntime(r)
                   \/ StartTurnOutput(r) \/ LinkTurn(r) \/ Spawn(r) \/ RecordPid(r)
            BY <3>3 DEF Begin, RefreshProvider, Provision, PrepareRuntime, StartTurnOutput,
               LinkTurn, Spawn, RecordPid
        <3>4. CASE ReadExit(r) \/ Finalize(r) \/ RecordThrow(r) \/ HandleStartThrow(r)
            BY <3>4 DEF ReadExit, Finalize, RecordThrow, PersistFinal, HandleStartThrow
        <3> QED BY <2>3, <3>1, <3>2, <3>3, <3>4 DEF TurnStep
    <2> QED BY <2>2, <2>4, QuietStays
<1>3. CASE req[r].pc \notin {"claim"} \cup BodySteps
    <2>1. \/ AdmitAnswered(r) \/ Admit(r) \/ Exit(r) \/ Wake(r) \/ (\E e \in 0..MaxEpoch : Call(r, e))
          \/ ReleaseRecoveryFence(r) \/ EnterTurn(r)
        BY <1>3, DispatchSteps, FinishSteps, PcNames DEF Inv, Admission, TurnStep, BodyStep, ClaimKey,
           ReleaseTurn
    <2>2. CASE AdmitAnswered(r) \/ Wake(r) \/ (\E e \in 0..MaxEpoch : Call(r, e))
        BY <2>2, QuietStays DEF AdmitAnswered, Wake, Call, NoMutation
    <2>3. CASE Admit(r) \/ Exit(r)
        BY <1>1, <2>3, QuietStays DEF Admit, Lock, Exit, NoMutation, Memory
    <2>4. CASE ReleaseRecoveryFence(r)
        <3>1. mem'.active = mem.active /\ op' = op /\ report' = report
            BY <1>1, <2>4 DEF ReleaseRecoveryFence, Mutate, Unlocked, Memory
        <3>2. store' = store \/ Mutable(store')
            BY <1>1, <2>4, FencesSame, WriteMutable
            DEF ReleaseRecoveryFence, Mutate, Written, Thrown
        <3> QED BY <3>1, <3>2, QuietStays
    <2>5. CASE EnterTurn(r)
        <3>1. \/ ~Closed'
              \/ report' = report /\ store' = store /\ mem'.active = mem.active /\ op' = op
            BY <1>1, <2>5, ReportRead DEF EnterTurn, Mutate, Thrown, Unlocked, Memory, Closed
        <3>2. CASE ~Closed'
            <4>1. store' = store \/ store' = Enter(store)
                BY <2>5 DEF EnterTurn, Mutate, Written, Thrown
            <4>2. store' = store \/ Mutable(store')
                BY <1>1, <4>1 DEF Enter, Mutable, NoReservation, StoredStates
            <4> QED BY <3>2, <4>2 DEF QuietInv, Frozen
        <3> QED BY <3>1, <3>2, QuietStays
    <2> QED BY <2>1, <2>2, <2>3, <2>4, <2>5
<1> QED BY <1>2, <1>3

LEMMA QuietVerbs ==
    ASSUME Inv, Ground, QuietInv, OpBegin \/ OpStep
    PROVE  QuietInv' /\ Frozen
<1>1. /\ store \in StoredStates /\ mem \in Memory /\ op \in Operations
      /\ report \in Reports /\ Valid(store) /\ (Mutable(store) <=> store.active.epoch = 0)
    BY InvTypes DEF Inv, TypeInv, TypeOK, Ground, FenceInv
<1>2. op.pc = "none" <=> op.verb = "none"
    BY DEF Ground, VerbInv
<1>3. mem.lock = "free" => op.verb = "none" /\ op.verb \notin Closing
    BY FreeVerb DEF Ground, Closing
<1>4. op.verb \in Closing => ~Closed
    BY <1>1 DEF QuietInv
<1>5. CASE StopBegin \/ StopResolveFence \/ DrainTimesOut \/ StopDrained
    <2>1. store' = store /\ report' = report
        BY <1>5 DEF StopBegin, StopResolveFence, DrainTimesOut, StopDrained, NoMutation
    <2>2. mem'.active = mem.active
        BY <1>1, <1>5 DEF StopBegin, StopResolveFence, DrainTimesOut, StopDrained, Unlocked, Memory
    <2>3. op'.verb = op.verb \/ op'.verb \notin Closing
        <3>1. CASE StopBegin
            BY <3>1 DEF StopBegin, NoOp, Closing
        <3>2. CASE StopResolveFence \/ DrainTimesOut \/ StopDrained
            <4>1. OpEnds \/ op'.verb = op.verb
                BY <1>1, <3>2 DEF StopResolveFence, DrainTimesOut, StopDrained, OpGoto, Operations
            <4> QED BY <4>1 DEF OpEnds, NoOp, Closing
        <3> QED BY <1>5, <3>1, <3>2
    <2> QED BY <2>1, <2>2, <2>3, QuietStays
<1>6. CASE StopWrite
    <2>1. Mutable(store) /\ mem.active = None
        BY <1>6 DEF StopWrite, Ground, VerbInv, FenceInv
    <2>2. mem'.active = None /\ op'.verb \notin Closing
        <3>1. StopSucceeds \/ StopFails
            BY <1>6 DEF StopWrite, Mutate
        <3>2. mem'.active = mem.active
            BY <1>1, <3>1 DEF StopSucceeds, StopFails, Unlocked, Memory
        <3>3. OpEnds
            BY <3>1 DEF StopSucceeds, StopFails
        <3>4. op'.verb = "none"
            BY <3>3 DEF OpEnds, NoOp
        <3> QED BY <2>1, <3>2, <3>4 DEF Closing
    <2>3. \/ store' = store
          \/ \E allowed, session : \/ Written(allowed, Upsert(store, session))
                                   \/ Thrown(allowed, Upsert(store, session))
          \/ \E k, session : \/ Written(TRUE, Settled(store, k, "error", session))
                             \/ Thrown(TRUE, Settled(store, k, "error", session))
        BY <1>6 DEF StopWrite, Mutate, NoMutation
    <2>4. Mutable(store')
        BY <1>1, <2>1, <2>3, FencesSame, WriteMutable
    <2> QED BY <2>1, <2>2, <2>4 DEF QuietInv, Frozen
<1>7. ASSUME NEW purpose \in {"external", "purge"}, Written(CanReserve(store), Reserve(store, purpose)),
             \/ ~Closed'
             \/ Closed' /\ mem.active = None /\ ~Present(store) /\ mem.lock = "free"
                /\ UNCHANGED <<op, mem>>
      PROVE  QuietInv' /\ Frozen
    <2>1. store'.session = store.session
        BY <1>1, <1>7, ReserveFences DEF Written
    <2> QED BY <1>3, <1>7, <2>1 DEF QuietInv, Frozen, Present
<1>8. CASE QuiesceBegin
    <2>1. mem.lock = "free" /\ mem \in Memory
        BY <1>1, <1>8 DEF QuiesceBegin, Free
    <2>2. CASE Written(CanReserve(store), Reserve(store, "external"))
               /\ (\/ BeginClosing("quiesce", Tracked, Reserve(store, "external"))
                   \/ ~(Present(store) \/ Tracked) /\ Closed' /\ UNCHANGED <<op, mem>>)
        BY <1>1, <1>7, <2>1, <2>2, ReportRead DEF BeginClosing, Tracked, Closed
    <2>3. CASE store' = store /\ UNCHANGED <<op, mem, report>>
        BY <2>3, QuietStays
    <2> QED BY <1>1, <1>8, <2>2, <2>3, ReportRead DEF QuiesceBegin, Mutate, Thrown, Closed
<1>9. ASSUME NEW verb \in {"purge", "gc"}, PurgeAgain(verb) \/ PurgeUnknown(verb) \/ PurgeBegin(verb)
      PROVE  QuietInv' /\ Frozen
    <2>1. CASE PurgeAgain(verb)
        <3>1. mem'.active = mem.active /\ op' = op /\ op.verb = "none"
            BY <1>1, <1>3, <2>1 DEF PurgeAgain, Mutate, PurgeReturns, Memory, Free
        <3>2. CASE Mutable(store')
            <4>1. report' = report \/ report' = Reported(IF Tracked THEN "overlooked" ELSE "closed")
                BY <2>1 DEF PurgeAgain, Mutate
            <4>2. CASE report' = report
                BY <3>1, <3>2, <4>2, QuietStays
            <4>3. CASE report' = Reported("overlooked")
                BY <1>1, <3>2, <4>3, ReportRead DEF QuietInv, Frozen, Closed
            <4>4. CASE ~Tracked
                BY <3>1, <3>2, <4>4 DEF QuietInv, Frozen, Closing, Tracked
            <4> QED BY <4>1, <4>2, <4>3, <4>4
        <3>3. CASE store' = store /\ report' = report
            BY <3>1, <3>3, QuietStays
        <3> QED BY <1>1, <2>1, <3>2, <3>3, ReleaseFences DEF PurgeAgain, Mutate, Written, Thrown
    <2>2. CASE PurgeUnknown(verb)
        BY <1>1, <2>2, QuietStays DEF PurgeUnknown, PurgeReturns, NoMutation, Memory
    <2>3. CASE PurgeBegin(verb)
        <3>1. \/ Written(CanReserve(store), Reserve(store, "purge")) /\ ~Closed'
              \/ store' = store /\ mem'.active = mem.active /\ op' = op /\ report' = report
            BY <1>1, <2>3, ReportRead DEF PurgeBegin, Mutate, Thrown, BeginClosing, PurgeReturns, Memory,
               Closed
        <3> QED BY <1>7, <3>1, QuietStays
    <2> QED BY <1>9, <2>1, <2>2, <2>3
<1>10. CASE CloseDrained \/ ProveClosed
    <2>1. op.verb \in Closing /\ mem.active = None
        BY <1>10 DEF CloseDrained, ProveClosed, Ground, VerbInv, Closing, AfterProof, Drained, Inv, LockInv
    <2>2. store' = store /\ mem'.active = None
        BY <1>1, <1>10, <2>1 DEF CloseDrained, ProveClosed, NoMutation, Unlocked, Memory
    <2>3. ~Closed' \/ (Closed' /\ ~Present(store) /\ op'.verb \notin Closing)
        BY <1>1, <1>4, <1>10, <2>1, ReportRead DEF CloseDrained, ProveClosed, OpEnds, NoOp, Closing, Closed
    <2> QED BY <1>4, <2>1, <2>2, <2>3 DEF QuietInv, Frozen
<1>11. CASE RecordClosed \/ PurgeRemove \/ PurgeUnfence
    <2>1. op.verb \in Closing /\ mem.active = None
        BY <1>11 DEF RecordClosed, PurgeRemove, PurgeUnfence, Ground, VerbInv, AfterProof, Inv, LockInv
    <2>2. mem'.active = None
        BY <1>1, <1>11, <2>1 DEF RecordClosed, PurgeRemove, PurgeUnfence, Mutate, Unlocked, Memory
    <2>3. CASE report' = report
        BY <1>4, <2>1, <2>3 DEF QuietInv, Frozen, Closed
    <2>4. CASE ~(report' = report)
        <3>1. op'.verb \notin Closing /\ Closed'
            BY <1>1, <1>11, <2>4, ReportRead DEF RecordClosed, PurgeRemove, PurgeUnfence, Mutate, OpEnds,
               NoOp, Closing, Closed
        <3>2. \/ store' = Upsert(store, QuiescedSession(store.session))
              \/ store' = Remove(store)
              \/ store' = Release(store)
            BY <1>11, <2>4 DEF RecordClosed, PurgeRemove, PurgeUnfence, Mutate, Written
        <3>3. Present(store') => AtRest(store'.session) \/ Mutable(store')
            <4>1. CASE store' = Upsert(store, QuiescedSession(store.session))
                BY <1>1, <4>1 DEF Upsert, QuiescedSession, Present, AtRest, StoredStates, Sessions, Turns
            <4>2. CASE store' = Remove(store)
                BY <1>1, <4>2 DEF Remove, Present, NoSession, StoredStates
            <4>3. CASE store' = Release(store)
                BY <1>1, <4>3, ReleaseFences
            <4> QED BY <3>2, <4>1, <4>2, <4>3
        <3> QED BY <1>4, <2>1, <2>2, <3>1, <3>3 DEF QuietInv, Frozen
    <2> QED BY <2>3, <2>4
<1>12. CASE GcList \/ GcVisit \/ FocusRead
    <2>1. /\ store' = store /\ report' = report /\ mem'.active = mem.active
          /\ op' = op \/ op'.verb = "focus"
        BY <1>1, <1>12 DEF GcList, GcVisit, FocusRead, Lock, NoMutation, Memory, NoOp
    <2> QED BY <2>1, QuietStays DEF Closing
<1>13. CASE Resume \/ Suspend \/ FocusWrite
    <2>1. mem'.active = mem.active /\ report' = report /\ (op' = op \/ op' = NoOp)
        BY <1>1, <1>13 DEF Resume, Suspend, FocusWrite, OpEnds, Unlocked, Memory
    <2>2. \/ store' = store
          \/ Mutable(store) /\ \E allowed, session : Written(allowed, Upsert(store, session))
        BY <1>13 DEF Resume, Suspend, FocusWrite, Mutate, Written, Thrown
    <2>3. store' = store \/ Mutable(store')
        BY <1>1, <2>2, FencesSame, WriteMutable
    <2>4. op' = op \/ op'.verb \notin Closing
        BY <2>1 DEF NoOp, Closing
    <2> QED BY <2>1, <2>3, <2>4, QuietStays
<1>14. ASSUME NEW e \in 1..MaxEpoch, ReleaseFence(e) PROVE QuietInv' /\ Frozen
    <2>1. mem'.active = mem.active /\ op' = op /\ report' = report
        BY <1>1, <1>14 DEF ReleaseFence, Mutate, Memory
    <2>2. store' = store \/ store' = Release(store)
        BY <1>14 DEF ReleaseFence, Mutate, Written, Thrown
    <2> QED BY <1>1, <2>1, <2>2, ReleaseFences, QuietStays
<1>15. CASE OtherNameQuiesces
    <2>1. store'.session = store.session /\ (Mutable(store') <=> Mutable(store))
        BY <1>1, <1>15 DEF OtherNameQuiesces, AllocateElsewhere, Mutable, StoredStates
    <2> QED BY <1>15, <2>1, QuietStays DEF OtherNameQuiesces
<1> QED BY <1>5, <1>6, <1>8, <1>9, <1>10, <1>11, <1>12, <1>13, <1>14, <1>15 DEF OpBegin, OpStep

LEMMA RestKept ==
    ASSUME NEW s \in StoredStates, ~Present(s) \/ AtRest(s.session)
    PROVE  Reconciled(s).session = s.session
<1>1. s.session \in Sessions
    BY DEF StoredStates
<1>2. InterruptedSession(s.session) = s.session
    BY <1>1 DEF InterruptedSession, AtRest, Present, Sessions
<1>3. Present(s) => ~NeedsReconciling(s.session)
    BY DEF NeedsReconciling, AtRest, NoRecoveryFence
<1>4. \A k, session : Settled(s, k, "error", session).session = session
    BY DEF Settled, StoredStates
<1> QED BY <1>2, <1>3, <1>4 DEF Reconciled

LEMMA QuietCrash ==
    ASSUME Inv, Ground, QuietInv, Crash \/ Restart
    PROVE  QuietInv' /\ Frozen
<1>1. store \in StoredStates
    BY InvTypes DEF Inv
<1>2. CASE Crash
    BY <1>2, QuietStays DEF Crash, NoMutation, NoMemory, NoOp, Closing
<1>3. CASE Restart
    <2>1. /\ mem' = mem /\ op' = op /\ report' = report
          /\ store' = store \/ store' = Reconciled(store)
        BY <1>3 DEF Restart, Mutate, Written, Thrown, NoMutation
    <2>2. Mutable(store') <=> Mutable(store)
        BY <1>1, <2>1, FencesSame DEF SameFences, Mutable
    <2>3. Closed /\ ~Mutable(store) => store'.session = store.session
        BY <1>1, <2>1, RestKept DEF QuietInv
    <2> QED BY <2>1, <2>2, <2>3 DEF QuietInv, Frozen, AtRest, Present, Closed
<1> QED BY <1>2, <1>3

Quiet == Ground /\ QuietInv

LEMMA QuietNext ==
    ASSUME Inv, Quiet, [Next]_vars
    PROVE  Quiet' /\ Frozen
<1>1. Ground'
    BY GroundStays DEF Quiet
<1>2. CASE UNCHANGED vars
    <2>1. QuietInv' /\ Frozen
        BY <1>2 DEF vars, Quiet, QuietInv, Frozen, Closed
    <2> QED BY <1>1, <2>1 DEF Quiet
<1>3. CASE ~UNCHANGED vars
    <2>1. QuietInv' /\ Frozen
        BY <1>3, QuietTurns, QuietVerbs, QuietCrash DEF Quiet, Next
    <2> QED BY <1>1, <2>1 DEF Quiet
<1> QED BY <1>2, <1>3

\* The verbs, the fences and the reports of a closed runtime are in step.
THEOREM QuietCorrect == Spec => []Quiet
<1>1. Init => Quiet
    BY InitGround DEF Quiet, QuietInv, Init, Closed, NothingReported
<1>2. Inv /\ Quiet /\ [Next]_vars => Quiet'
    BY QuietNext
<1> QED BY <1>1, <1>2, InvCorrect, PTL DEF Spec

\* Once a quiesce, or a purge behind its fence, reported an epoch, a turn runs only
\* if its request carries that epoch or a later one (Reserve, RecordClosed, EnterTurn).
THEOREM EpochsGateTurns == Spec => []EpochGatesTurns
<1>1. Inv /\ Quiet => EpochGatesTurns
    <2> SUFFICES ASSUME Inv, Quiet, NEW r \in Requests, req[r].pc \in BodySteps
                 PROVE  req[r].epoch >= report.epoch
        BY DEF EpochGatesTurns
    <2>1. report.epoch \in Nat /\ req[r].epoch \in Nat
        BY InvTypes, LimitAssumption DEF Inv, TypeInv, TypeOK, Reports, RequestStates
    <2> QED BY <2>1 DEF Quiet, Ground, FenceInv
<1> QED BY <1>1, InvCorrect, QuietCorrect, PTL

\* A reported quiescence is final while its fence stays: no write of a turn, a
\* verb or a restart reaches the session (RecordClosed, Reconciled, Mutable).
THEOREM FencedIsFrozen == Spec => FencedSessionFrozen
<1>1. Inv /\ Quiet /\ [Next]_vars =>
        [Closed /\ store.active.epoch > 0 /\ store'.active.epoch > 0 /\ Present(store')
         => store'.session = store.session]_vars
    <2> SUFFICES ASSUME Inv, Quiet, [Next]_vars, Closed, store.active.epoch > 0,
                        store'.active.epoch > 0, Present(store')
                 PROVE  store'.session = store.session
        OBVIOUS
    <2>1. Quiet' /\ Frozen
        BY QuietNext
    <2>2. ~Mutable(store) /\ ~Mutable(store')
        BY <2>1 DEF Quiet, Ground, FenceInv
    <2> QED BY <2>1, <2>2 DEF Frozen
<1> QED BY <1>1, InvCorrect, QuietCorrect, PTL DEF Spec, FencedSessionFrozen

-----------------------------------------------------------------------------
(* What the steps do to the receipts' states and to the session's presence.   *)

StatesKept(s, t) ==
    /\ \A k \in Keys : t.receipts[k].state = s.receipts[k].state
    /\ t.order = s.order /\ t.generation = s.generation
    /\ Present(s) => Present(t)

SettlesOne(s, t) ==
    /\ \E k \in Keys :
          /\ s.receipts[k].state = "running" /\ t.receipts[k].state = "settled"
          /\ \A j \in Keys \ {k} : t.receipts[j].state = s.receipts[j].state
          /\ t.order = Append(s.order, k)
    /\ t.generation = s.generation
    /\ Present(s) => Present(t)

LEMMA StateMoves ==
    ASSUME NEW s \in StoredStates
    PROVE  /\ StatesKept(s, s) /\ StatesKept(s, Release(s)) /\ StatesKept(s, Enter(s))
           /\ StatesKept(s, AllocateElsewhere(s))
           /\ \A purpose : StatesKept(s, Reserve(s, purpose))
           /\ \A session : (Present(s) => session.state # "absent")
                           => StatesKept(s, Upsert(s, session))
           /\ \A k, session : session.state # "absent" => StatesKept(s, Link(s, k, session))
           /\ \A k \in Keys : \A kind, session :
                  s.receipts[k].state = "running" /\ (Present(s) => session.state # "absent")
                  => SettlesOne(s, Settled(s, k, kind, session))
<1>1. /\ StatesKept(s, s) /\ StatesKept(s, Release(s)) /\ StatesKept(s, Enter(s))
      /\ StatesKept(s, AllocateElsewhere(s))
    BY DEF StatesKept, Release, Enter, AllocateElsewhere, Present, StoredStates
<1>2. \A purpose : StatesKept(s, Reserve(s, purpose))
    BY DEF StatesKept, Reserve, Present, StoredStates
<1>3. \A session : (Present(s) => session.state # "absent") => StatesKept(s, Upsert(s, session))
    BY DEF StatesKept, Upsert, Present, StoredStates
<1>4. \A k, session : session.state # "absent" => StatesKept(s, Link(s, k, session))
    BY DEF StatesKept, Link, Present, StoredStates, Receipts
<1>5. ASSUME NEW k \in Keys, NEW kind, NEW session, s.receipts[k].state = "running",
             Present(s) => session.state # "absent"
      PROVE  SettlesOne(s, Settled(s, k, kind, session))
    BY <1>5 DEF SettlesOne, Settled, Present, StoredStates, Receipts
<1> QED BY <1>1, <1>2, <1>3, <1>4, <1>5

LEMMA WriteStates ==
    ASSUME store \in StoredStates, NEW STATE allowed, NEW STATE next,
           Written(allowed, next) \/ Thrown(allowed, next)
    PROVE  /\ StatesKept(store, next) => StatesKept(store, store')
           /\ allowed /\ SettlesOne(store, next) =>
                  StatesKept(store, store') \/ SettlesOne(store, store')
BY StateMoves DEF Written, Thrown

\* The sessions that the patches build are present when the patched one is.
LEMMA PatchedPresent ==
    ASSUME NEW session \in Sessions, NEW result \in {"idle", "failed"}, NEW id, NEW r
    PROVE  /\ WithRunningTurn(session, r, id).state # "absent"
           /\ FinalSession(session, result).state # "absent"
           /\ [session EXCEPT !.turn.pid = r].state = session.state
           /\ session.state # "absent" =>
                 /\ SessionFailed(session).state # "absent"
                 /\ FenceReleased(session).state # "absent"
                 /\ SettledByThrow(session, r).state # "absent"
                 /\ StoppedSession(session).state # "absent"
                 /\ QuiescedSession(session).state # "absent"
                 /\ InterruptedSession(session).state # "absent"
                 /\ OrphanedSession(session).state # "absent"
                 /\ FencedSession(session).state # "absent"
<1>1. WithRunningTurn(session, r, id).state = "running"
    BY DEF WithRunningTurn, Sessions
<1>2. FinalSession(session, result).state # "absent"
    BY DEF FinalSession, Sessions
<1>3. [session EXCEPT !.turn.pid = r].state = session.state
    BY DEF Sessions
<1>4. ASSUME session.state # "absent"
      PROVE  /\ SessionFailed(session).state # "absent"
             /\ FenceReleased(session).state # "absent"
             /\ SettledByThrow(session, r).state # "absent"
             /\ StoppedSession(session).state # "absent"
    BY <1>4 DEF SessionFailed, FenceReleased, SettledByThrow, StoppedSession, Sessions
<1>5. ASSUME session.state # "absent"
      PROVE  /\ QuiescedSession(session).state # "absent"
             /\ InterruptedSession(session).state # "absent"
             /\ OrphanedSession(session).state # "absent"
             /\ FencedSession(session).state # "absent"
    BY <1>5 DEF QuiescedSession, InterruptedSession, OrphanedSession, FencedSession, Sessions
<1> QED BY <1>1, <1>2, <1>3, <1>4, <1>5

Unfinished == BodySteps \ {"outer", "epilogue"}

\* What the receipts and the session are at the steps of a turn and a verb.
ReceiptInv ==
    /\ \A i \in 1..Len(store.order) : store.receipts[store.order[i]].state \in Decided
    /\ \A r \in Requests :
          Keyed(r) /\ req[r].pc \in Unfinished => store.receipts[KeyOf[r]].state = "running"
    /\ \A r \in Requests : req[r].pc = "spawn" => Present(store)
    /\ \A r \in Requests : req[r].pc = "refresh" => req[r].seen.state # "absent"
    /\ op.pc = "focusWrite" => op.seen.state # "absent"

\* A step of a body settles its receipt or leaves the receipts alone.
BodyRecords(r) ==
    /\ \/ StatesKept(store, store')
       \/ SettlesOne(store, store') /\ req'[r].pc \notin Unfinished
    /\ req'[r].pc \in Unfinished => req[r].pc \in Unfinished
    /\ req'[r].pc = "spawn" => Present(store')
    /\ req'[r].pc = "refresh" => req'[r].seen.state # "absent"
    /\ \/ proc' = proc
       \/ /\ req[r].pc = "spawn" /\ store' = store
          /\ proc' = [proc EXCEPT ![r] = "alive"]

LEMMA BodyGoto ==
    ASSUME TypeInv, NEW r \in Requests, NEW pc, Goto(r, pc)
    PROVE  req'[r].pc = pc /\ req'[r].seen = req[r].seen
<1>1. req \in [Requests -> RequestStates]
    BY InvTypes
<1> QED BY <1>1 DEF Goto, RequestStates

LEMMA DispatchRecords ==
    ASSUME Inv, ReceiptInv, NEW r \in Requests,
           \/ Begin(r) \/ RefreshProvider(r) \/ Provision(r) \/ PrepareRuntime(r)
           \/ StartTurnOutput(r) \/ LinkTurn(r) \/ Spawn(r) \/ RecordPid(r)
    PROVE  BodyRecords(r)
<1>1. /\ store \in StoredStates /\ store.session \in Sessions /\ TypeInv
      /\ req \in [Requests -> RequestStates] /\ req[r].seen \in Sessions
      /\ StatesKept(store, store)
    BY InvTypes, StateMoves DEF Inv
<1>2. CASE Begin(r)
    <2>1. store' = store /\ proc' = proc /\ req[r].pc = "body"
        BY <1>2 DEF Begin, NoMutation
    <2>2. \/ req'[r].pc \in {"provision", "runtime", "epilogue"}
          \/ req'[r].pc = "refresh" /\ req'[r].seen = store.session /\ Present(store)
        BY <1>1, <1>2, BodyGoto DEF Begin, RequestStates
    <2> QED BY <1>1, <2>1, <2>2 DEF BodyRecords, Unfinished, BodySteps, Present
<1>3. CASE RefreshProvider(r)
    <2>1. StatesKept(store, store')
        BY <1>1, <1>3, StateMoves, WriteStates DEF RefreshProvider, Mutate, ReceiptInv
    <2>2. req[r].pc = "refresh" /\ proc' = proc /\ req'[r].pc \in {"runtime", "epilogue"}
        BY <1>1, <1>3, BodyGoto DEF RefreshProvider, Mutate
    <2> QED BY <2>1, <2>2 DEF BodyRecords, Unfinished, BodySteps
<1>4. CASE Provision(r)
    <2> DEFINE session == [req[r].seen EXCEPT !.state = "running"]
    <2>1. session.state = "running"
        BY <1>1 DEF Sessions
    <2>2. store' = store \/ Written(Mutable(store), Upsert(store, session))
        BY <1>4 DEF Provision, Mutate, Thrown, NoMutation
    <2>3. StatesKept(store, store')
        BY <1>1, <2>1, <2>2, StateMoves, WriteStates
    <2>4. req[r].pc = "provision" /\ proc' = proc /\ req'[r].pc \in {"runtime", "epilogue"}
        BY <1>1, <1>4, BodyGoto DEF Provision, Mutate, RequestStates
    <2> QED BY <2>3, <2>4 DEF BodyRecords, Unfinished, BodySteps
<1>5. CASE PrepareRuntime(r)
    <2>1. store' = store \/ Written(Mutable(store), Upsert(store, SessionFailed(store.session)))
        BY <1>5 DEF PrepareRuntime, Mutate, Thrown, NoMutation
    <2>2. StatesKept(store, store')
        BY <1>1, <2>1, StateMoves, WriteStates, PatchedPresent DEF Present
    <2>3. req[r].pc = "runtime" /\ proc' = proc /\ req'[r].pc \in {"link", "outer", "epilogue"}
        BY <1>1, <1>5, BodyGoto DEF PrepareRuntime, Mutate
    <2> QED BY <2>2, <2>3 DEF BodyRecords, Unfinished, BodySteps
<1>6. CASE StartTurnOutput(r)
    <2>1. req[r].pc = "link" /\ store' = store /\ proc' = proc
        BY <1>6 DEF StartTurnOutput, NoMutation
    <2>2. req'[r].pc \in {"failing", "linkWrite"}
        BY <1>1, <1>6, BodyGoto DEF StartTurnOutput, RequestStates
    <2> QED BY <1>1, <2>1, <2>2 DEF BodyRecords, Unfinished, BodySteps
<1>7. CASE LinkTurn(r)
    <2> DEFINE base == IF Present(store) THEN store.session ELSE req[r].seen
               unkeyed == WithRunningTurn(req[r].seen, r, mem.turnId)
               keyed == WithRunningTurn(base, r, mem.turnId)
    <2>1. unkeyed.state # "absent" /\ keyed.state # "absent"
        <3>1. base \in Sessions
            BY <1>1
        <3> QED BY <1>1, <3>1, PatchedPresent
    <2>2. \/ store' = store /\ Goto(r, "failing")
          \/ Goto(r, "spawn") /\ store' = Upsert(store, unkeyed)
          \/ Goto(r, "spawn") /\ store' = Link(store, KeyOf[mem.keyed], keyed)
        BY <1>7 DEF LinkTurn, Mutate, Written, Thrown
    <2> HIDE DEF unkeyed, keyed
    <2>3. StatesKept(store, store')
        BY <1>1, <2>1, <2>2, StateMoves
    <2>4. req[r].pc = "linkWrite" /\ proc' = proc
        BY <1>7 DEF LinkTurn
    <2>5. Goto(r, "failing") \/ (Goto(r, "spawn") /\ Present(store'))
        BY <1>1, <2>1, <2>2 DEF Upsert, Link, Present, StoredStates
    <2> QED BY <1>1, <2>3, <2>4, <2>5, BodyGoto DEF BodyRecords, Unfinished, BodySteps
<1>8. CASE Spawn(r)
    <2>1. /\ req[r].pc = "spawn" /\ store' = store
          /\ proc' = proc \/ proc' = [proc EXCEPT ![r] = "alive"]
        BY <1>8 DEF Spawn, NoMutation
    <2>2. req'[r].pc \in {"failing", "pid"}
        BY <1>1, <1>8, BodyGoto DEF Spawn
    <2> QED BY <1>1, <2>1, <2>2 DEF BodyRecords, Unfinished, BodySteps
<1>9. CASE RecordPid(r)
    <2> DEFINE recorded == [store.session EXCEPT !.turn.pid = r]
    <2>1. store' = store \/ store' = Upsert(store, recorded)
        BY <1>9 DEF RecordPid, Mutate, Written, Thrown
    <2>2. Present(store) => recorded.state # "absent"
        BY <1>1 DEF Present, Sessions
    <2> HIDE DEF recorded
    <2>3. StatesKept(store, store')
        BY <1>1, <2>1, <2>2, StateMoves
    <2>4. req[r].pc = "pid" /\ proc' = proc /\ req'[r].pc \in {"run", "failing"}
        BY <1>1, <1>9, BodyGoto DEF RecordPid, Mutate
    <2> QED BY <2>3, <2>4 DEF BodyRecords, Unfinished, BodySteps
<1> QED BY <1>2, <1>3, <1>4, <1>5, <1>6, <1>7, <1>8, <1>9

LEMMA FinishRecords ==
    ASSUME Inv, ReceiptInv, NEW r \in Requests,
           ReadExit(r) \/ Finalize(r) \/ RecordThrow(r) \/ HandleStartThrow(r)
    PROVE  BodyRecords(r)
<1>1. /\ store \in StoredStates /\ store.session \in Sessions /\ TypeInv
      /\ req \in [Requests -> RequestStates] /\ req[r].seen \in Sessions
      /\ req[r].result \in {"idle", "failed"}
      /\ mem.keyed \in Requests \cup {None}
      /\ StatesKept(store, store)
    BY InvTypes, StateMoves DEF Inv, RequestStates
<1>2. CASE ReadExit(r)
    <2>1. req[r].pc = "run" /\ store' = store /\ proc' = proc
        BY <1>2 DEF ReadExit, NoMutation
    <2>2. req'[r].pc \in {"final", "failing", "link"}
        BY <1>1, <1>2, BodyGoto DEF ReadExit, RequestStates
    <2> QED BY <1>1, <2>1, <2>2 DEF BodyRecords, Unfinished, BodySteps
<1>3. ASSUME NEW kind, NEW result \in {"idle", "failed"}, NEW next,
             PersistFinal(r, kind, result, next)
      PROVE  /\ proc' = proc
             /\ StatesKept(store, store') \/ SettlesOne(store, store')
             /\ req'[r].pc \in {next, "outer", "epilogue"}
    <2> DEFINE session == FinalSession(store.session, result)
    <2>1. session.state # "absent"
        BY <1>1, PatchedPresent
    <2> HIDE DEF session
    <2>2. CASE mem.keyed = None
        <3>1. store' = store \/ store' = Upsert(store, session)
            BY <1>3, <2>2 DEF PersistFinal, Mutate, Written, Thrown, session
        <3> QED BY <1>1, <1>3, <2>1, <2>2, <3>1, StateMoves, BodyGoto
            DEF PersistFinal, Mutate, AfterThrow
    <2>3. CASE mem.keyed # None
        <3>1. KeyOf[mem.keyed] \in Keys
            BY <1>1, <2>3, KeyOfType DEF TypeInv, KeysHeld
        <3>2. \/ store' = store
              \/ /\ CanSettle(store, KeyOf[mem.keyed], PrintOf[mem.keyed])
                 /\ store' = Settled(store, KeyOf[mem.keyed], kind, session)
            BY <1>3, <2>3 DEF PersistFinal, Mutate, Written, Thrown, session
        <3>3. StatesKept(store, store') \/ SettlesOne(store, store')
            BY <1>1, <2>1, <3>1, <3>2, StateMoves DEF CanSettle, HoldsRunning
        <3> QED BY <1>1, <1>3, <2>3, <3>3, BodyGoto DEF PersistFinal, Mutate, AfterThrow
    <2> QED BY <2>2, <2>3
<1>4. CASE Finalize(r)
    <2>1. PersistFinal(r, "success", req[r].result, "epilogue")
        BY <1>4 DEF Finalize
    <2>2. req'[r].pc \in {"outer", "epilogue"}
        BY <1>1, <1>3, <2>1
    <2> QED BY <1>1, <1>3, <2>1, <2>2 DEF BodyRecords, Unfinished
<1>5. CASE RecordThrow(r)
    <2>1. PersistFinal(r, "error", "failed", AfterThrow(r))
        BY <1>5 DEF RecordThrow
    <2>2. req'[r].pc \in {"outer", "epilogue"}
        BY <1>3, <2>1 DEF AfterThrow
    <2> QED BY <1>3, <2>1, <2>2 DEF BodyRecords, Unfinished
<1>6. CASE HandleStartThrow(r)
    <2> DEFINE failed == [(IF Present(store) THEN store.session ELSE req[r].seen)
                            EXCEPT !.state = "failed"]
    <2>1. failed.state # "absent"
        BY <1>1 DEF Sessions
    <2> HIDE DEF failed
    <2>2. store' = store \/ store' = Upsert(store, failed)
        BY <1>6 DEF HandleStartThrow, Mutate, Written, Thrown, NoMutation, failed
    <2>3. StatesKept(store, store')
        BY <1>1, <2>1, <2>2, StateMoves
    <2>4. req'[r].pc = "epilogue" /\ proc' = proc
        BY <1>1, <1>6, BodyGoto DEF HandleStartThrow, Mutate
    <2> QED BY <2>3, <2>4 DEF BodyRecords, Unfinished
<1> QED BY <1>2, <1>4, <1>5, <1>6

-----------------------------------------------------------------------------
(* The same of the other steps. *)

\* Writing nothing, a harmless record, or one verdict; no process starts.
Records == /\ StatesKept(store, store') \/ SettlesOne(store, store')
           /\ proc' = proc

LEMMA AdmitRecords ==
    ASSUME Inv, NEW r \in Requests,
           \/ Admission(r) \/ Wake(r) \/ (\E e \in 0..MaxEpoch : Call(r, e))
           \/ ReleaseRecoveryFence(r) \/ EnterTurn(r)
    PROVE  /\ StatesKept(store, store') /\ UNCHANGED <<proc, op>> /\ Others(r)
           /\ req'[r].pc \in BodySteps => req'[r].pc = "body" /\ ~Keyed(r)
<1>1. /\ store \in StoredStates /\ store.session \in Sessions /\ TypeInv
      /\ req \in [Requests -> RequestStates]
      /\ StatesKept(store, store)
    BY InvTypes, StateMoves DEF Inv
<1>2. CASE Admission(r) \/ Wake(r) \/ \E e \in 0..MaxEpoch : Call(r, e)
    <2>1. store' = store /\ UNCHANGED <<proc, op>>
        BY <1>2 DEF Admission, AdmitAnswered, Admit, Wake, Call, NoMutation
    <2>2. \/ \E answer : Answer(r, answer)
          \/ \E pc \in {"fence", "enter"} : Goto(r, pc)
          \/ \E other : req' = [req EXCEPT ![r].pc = "waiting", ![r].inFlight = other]
          \/ \E e \in 0..MaxEpoch : Call(r, e)
        BY <1>2 DEF Admission, AdmitAnswered, Admit, Wake
    <2> QED BY <1>1, <2>1, <2>2, OutsideTurn
<1>3. CASE ReleaseRecoveryFence(r)
    <2>1. store' = store \/ store' = Upsert(store, FenceReleased(store.session))
        BY <1>3 DEF ReleaseRecoveryFence, Mutate, Written, Thrown
    <2>2. StatesKept(store, store')
        BY <1>1, <2>1, StateMoves, PatchedPresent DEF Present
    <2>3. Goto(r, "enter") \/ \E answer : Answer(r, answer)
        BY <1>3 DEF ReleaseRecoveryFence, Mutate
    <2>4. Others(r) /\ req'[r].pc \notin {"claim"} \cup BodySteps
        BY <1>1, <2>3, OutsideTurn
    <2> QED BY <1>3, <2>2, <2>4 DEF ReleaseRecoveryFence
<1>4. CASE EnterTurn(r)
    <2>1. store' = store \/ store' = Enter(store)
        BY <1>4 DEF EnterTurn, Mutate, Written, Thrown
    <2>2. StatesKept(store, store')
        BY <1>1, <2>1, StateMoves
    <2>3. Goto(r, IF Keyed(r) THEN "claim" ELSE "body") \/ Answer(r, "refused")
        BY <1>4 DEF EnterTurn, Mutate
    <2>4. CASE Answer(r, "refused")
        BY <1>1, <1>4, <2>2, <2>4, OutsideTurn DEF EnterTurn
    <2>5. CASE Goto(r, IF Keyed(r) THEN "claim" ELSE "body")
        <3>1. Others(r) /\ req'[r].pc = IF Keyed(r) THEN "claim" ELSE "body"
            BY <1>1, <2>5, GotoMoves
        <3> QED BY <1>4, <2>2, <3>1, PcNames DEF EnterTurn
    <2> QED BY <2>3, <2>4, <2>5
<1> QED BY <1>2, <1>3, <1>4

\* The claim: the key that was free runs, and at most a verdict is compacted.
Claims(r) ==
    /\ Keyed(r) /\ KeyOf[r] \in Keys /\ ~Running(store)
    /\ store.receipts[KeyOf[r]].state = "free"
    /\ store'.receipts[KeyOf[r]].state = "running"
    /\ \A k \in Keys \ {KeyOf[r]} :
          \/ store'.receipts[k].state = store.receipts[k].state
          \/ store.receipts[k].state \in Decided /\ store'.receipts[k].state \in Decided
    /\ \A i \in 1..Len(store'.order) : \E j \in 1..Len(store.order) : store'.order[i] = store.order[j]
    /\ store'.generation = store.generation
    /\ Present(store) => Present(store')

LEMMA ClaimRecords ==
    ASSUME Inv, ReceiptInv, NEW r \in Requests, ClaimKey(r)
    PROVE  /\ Others(r) /\ UNCHANGED <<proc, op>>
           /\ \/ StatesKept(store, store') /\ req'[r].pc \notin BodySteps
              \/ Claims(r) /\ req'[r].pc = "body"
<1>1. /\ store \in StoredStates /\ store.order \in Seq(Keys) /\ TypeInv
      /\ StatesKept(store, store) /\ UNCHANGED <<proc, op>>
      /\ Keyed(r) /\ KeyOf[r] \in Keys
    BY InvTypes, StateMoves, KeyOfType DEF Inv, StoredStates, ClaimKey, TypeInv, KeysHeld
<1> DEFINE k == KeyOf[r]
<1>2. CASE Thrown(CanClaim(store, k), Claim(store, k, PrintOf[r])) /\ Answer(r, "refused")
    BY <1>1, <1>2, OutsideTurn DEF Thrown
<1>3. CASE Written(CanClaim(store, k), Claim(store, k, PrintOf[r])) /\ Goto(r, "body")
    <2>1. /\ CanClaim(store, k) /\ store' = Claim(store, k, PrintOf[r])
        BY <1>3 DEF Written
    <2>2. Compacted(store) \in StoredStates
        BY <1>1, CompactedType
    <2>3. /\ store'.receipts[k].state = "running"
          /\ \A j \in Keys \ {k} : store'.receipts[j].state = Compacted(store).receipts[j].state
          /\ store'.order = Compacted(store).order
          /\ store'.generation = Compacted(store).generation
          /\ store'.session = Compacted(store).session
        BY <1>1, <2>1, <2>2 DEF Claim, StoredStates, FreeReceipt
    <2>4. /\ \A j \in Keys : \/ Compacted(store).receipts[j].state = store.receipts[j].state
                             \/ store.receipts[j].state \in Decided
                                /\ Compacted(store).receipts[j].state \in Decided
          /\ \A i \in 1..Len(Compacted(store).order) :
                 \E j \in 1..Len(store.order) : Compacted(store).order[i] = store.order[j]
        <3>1. CASE Compacted(store) = store
            BY <3>1
        <3>2. CASE Compacted(store) # store
            <4>1. /\ store.order # <<>>
                  /\ Compacted(store) = [store EXCEPT !.order = Tail(@),
                        !.receipts[Head(store.order)].state = "tombstone",
                        !.receipts[Head(store.order)].outcome = NoOutcome]
                BY <3>2 DEF Compacted
            <4>2. /\ Head(store.order) = store.order[1] /\ 1 \in 1..Len(store.order)
                  /\ Head(store.order) \in Keys
                BY <1>1, <4>1
            <4>3. store.receipts[Head(store.order)].state \in Decided
                BY <4>2 DEF ReceiptInv
            <4>4. /\ Compacted(store).receipts[Head(store.order)].state = "tombstone"
                  /\ \A j \in Keys \ {Head(store.order)} :
                         Compacted(store).receipts[j] = store.receipts[j]
                  /\ Compacted(store).order = Tail(store.order)
                BY <1>1, <4>1, <4>2 DEF StoredStates, Receipts
            <4>5. \A i \in 1..Len(Tail(store.order)) :
                      /\ Tail(store.order)[i] = store.order[i + 1]
                      /\ i + 1 \in 1..Len(store.order)
                BY <1>1, <4>1
            <4> QED BY <4>3, <4>4, <4>5 DEF Decided
        <3> QED BY <3>1, <3>2
    <2>5. Compacted(store).session = store.session /\ Compacted(store).generation = store.generation
        BY <1>1 DEF Compacted, StoredStates
    <2>6. Claims(r)
        BY <1>1, <2>1, <2>3, <2>4, <2>5 DEF Claims, CanClaim, Present
    <2>7. Others(r) /\ req'[r].pc = "body"
        BY <1>1, <1>3, GotoMoves
    <2> QED BY <1>1, <2>6, <2>7
<1> QED BY <1>2, <1>3 DEF ClaimKey, Mutate

LEMMA ReleaseRecords ==
    ASSUME Inv, NEW r \in Requests, ReleaseTurn(r)
    PROVE  /\ Others(r) /\ UNCHANGED <<proc, op>> /\ req'[r].pc \notin BodySteps
           /\ StatesKept(store, store') \/ SettlesOne(store, store')
           /\ mem.active = r
<1>1. /\ store \in StoredStates /\ store.session \in Sessions /\ TypeInv
      /\ StatesKept(store, store) /\ UNCHANGED <<proc, op>>
    BY InvTypes, StateMoves DEF Inv, ReleaseTurn
<1>2. Others(r) /\ req'[r].pc \notin BodySteps
    <2>1. \E answer : Answer(r, answer)
        BY DEF ReleaseTurn, Mutate
    <2> QED BY <1>1, <2>1, OutsideTurn
<1>3. mem.active = r
    BY PcNames DEF ReleaseTurn, Inv, LockInv, BodySteps
<1> DEFINE thrown == SettledByThrow(store.session, r)
<1>4. Present(store) => thrown.state # "absent"
    BY <1>1, PatchedPresent DEF Present
<1> HIDE DEF thrown
<1>5. \/ store' = store
      \/ /\ CanSettleBehindFence(store, KeyOf[r], PrintOf[r]) /\ Keyed(r)
         /\ store' = Settled(store, KeyOf[r], "error", thrown)
    BY DEF ReleaseTurn, Mutate, Written, Thrown, NoMutation, ReceiptState, thrown
<1>6. StatesKept(store, store') \/ SettlesOne(store, store')
    BY <1>1, <1>4, <1>5, StateMoves, KeyOfType DEF CanSettleBehindFence, HoldsRunning
<1> QED BY <1>1, <1>2, <1>3, <1>6

\* A verb settles a receipt only once its turn is gone, and forgets the receipts
\* only in a purge.
VerbRecords ==
    /\ UNCHANGED <<req, proc>>
    /\ op'.pc = "focusWrite" => op'.seen.state # "absent"
    /\ \/ StatesKept(store, store')
       \/ SettlesOne(store, store') /\ mem.active = None
       \/ PurgeRemove /\ store' = Remove(store)

LEMMA OpRecords ==
    ASSUME Inv, Ground, ReceiptInv, OpBegin \/ OpStep
    PROVE  VerbRecords
<1>1. /\ store \in StoredStates /\ store.session \in Sessions /\ op \in Operations
      /\ StatesKept(store, store)
    BY InvTypes, StateMoves DEF Inv
<1>2. ASSUME op' = op \/ op'.pc # "focusWrite", UNCHANGED <<req, proc>>, StatesKept(store, store')
      PROVE  VerbRecords
    BY <1>2 DEF VerbRecords, ReceiptInv
<1>3. op' = NoOp => op'.pc # "focusWrite"
    BY DEF NoOp
<1>4. CASE StopBegin \/ StopResolveFence \/ DrainTimesOut \/ StopDrained
    <2>1. store' = store /\ UNCHANGED <<req, proc>>
        BY <1>4 DEF StopBegin, StopResolveFence, DrainTimesOut, StopDrained, NoMutation
    <2>2. op' = op \/ op'.pc # "focusWrite"
        <3>1. CASE StopBegin
            BY <3>1 DEF StopBegin, NoOp
        <3>2. CASE StopResolveFence
            BY <1>1, <1>3, <3>2 DEF StopResolveFence, OpGoto, OpEnds, Operations
        <3>3. CASE DrainTimesOut \/ StopDrained
            BY <1>1, <1>3, <3>3 DEF DrainTimesOut, StopDrained, OpGoto, OpEnds, Operations
        <3> QED BY <1>4, <3>1, <3>2, <3>3
    <2> QED BY <1>1, <1>2, <2>1, <2>2
<1>5. CASE StopWrite
    <2>1. UNCHANGED <<req, proc>> /\ mem.active = None /\ op' = NoOp
        BY <1>5 DEF StopWrite, Mutate, StopSucceeds, StopFails, OpEnds, Ground, VerbInv
    <2> DEFINE stopped == IF Present(store) THEN StoppedSession(store.session) ELSE store.session
    <2>2. Present(store) => stopped.state # "absent"
        BY <1>1, PatchedPresent DEF Present
    <2> HIDE DEF stopped
    <2>3. \/ store' = store
          \/ Present(store) /\ store' = Upsert(store, StoppedSession(store.session))
          \/ \E k \in KeysIn(store, "running") : store' = Settled(store, k, "error", stopped)
        BY <1>5 DEF StopWrite, Mutate, Written, Thrown, NoMutation, stopped
    <2>4. CASE store' = store
        BY <1>1, <1>2, <1>3, <2>1, <2>4
    <2>5. CASE Present(store) /\ store' = Upsert(store, StoppedSession(store.session))
        BY <1>1, <1>2, <1>3, <2>1, <2>5, StateMoves, PatchedPresent DEF Present
    <2>6. ASSUME NEW k \in KeysIn(store, "running"), store' = Settled(store, k, "error", stopped)
          PROVE  VerbRecords
        BY <1>1, <1>3, <2>1, <2>2, <2>6, StateMoves DEF VerbRecords, KeysIn
    <2> QED BY <2>3, <2>4, <2>5, <2>6
<1>6. CASE QuiesceBegin
    <2>1. /\ UNCHANGED <<req, proc>>
          /\ store' = store \/ store' = Reserve(store, "external")
          /\ op' = op \/ op'.pc = "drain"
        BY <1>6 DEF QuiesceBegin, Mutate, Written, Thrown, BeginClosing, NoOp
    <2> QED BY <1>1, <1>2, <2>1, StateMoves
<1>7. ASSUME NEW verb \in {"purge", "gc"}, PurgeAgain(verb) \/ PurgeUnknown(verb) \/ PurgeBegin(verb)
      PROVE  VerbRecords
    <2>1. UNCHANGED <<req, proc>>
        BY <1>7 DEF PurgeAgain, PurgeUnknown, PurgeBegin
    <2>2. store' = store \/ store' = Release(store) \/ store' = Reserve(store, "purge")
        BY <1>7 DEF PurgeAgain, PurgeUnknown, PurgeBegin, Mutate, Written, Thrown, NoMutation
    <2>3. op' = op \/ op'.pc = "drain"
        BY <1>7 DEF PurgeAgain, PurgeUnknown, PurgeBegin, Mutate, BeginClosing, NoOp
    <2> QED BY <1>1, <1>2, <2>1, <2>2, <2>3, StateMoves
<1>8. CASE CloseDrained \/ ProveClosed
    <2>1. store' = store /\ UNCHANGED <<req, proc>>
        BY <1>8 DEF CloseDrained, ProveClosed, NoMutation
    <2>2. op' = op \/ op'.pc # "focusWrite"
        BY <1>1, <1>3, <1>8 DEF CloseDrained, ProveClosed, OpGoto, OpEnds, Operations
    <2> QED BY <1>1, <1>2, <2>1, <2>2
<1>9. CASE RecordClosed
    <2>1. /\ UNCHANGED <<req, proc>>
          /\ store' = store \/ store' = Upsert(store, QuiescedSession(store.session))
          /\ OpEnds \/ OpGoto("remove")
        BY <1>9 DEF RecordClosed, Mutate, Written, Thrown
    <2>2. op' = op \/ op'.pc # "focusWrite"
        BY <1>1, <1>3, <2>1 DEF OpEnds, OpGoto, Operations
    <2> QED BY <1>1, <1>2, <2>1, <2>2, StateMoves, PatchedPresent DEF Present
<1>10. CASE PurgeRemove
    <2>1. /\ UNCHANGED <<req, proc>>
          /\ store' = store \/ store' = Remove(store)
          /\ OpEnds \/ OpGoto("unfence")
        BY <1>10 DEF PurgeRemove, Mutate, Written, Thrown
    <2>2. op' = op \/ op'.pc # "focusWrite"
        BY <1>1, <1>3, <2>1 DEF OpEnds, OpGoto, Operations
    <2>3. CASE store' = store
        BY <1>1, <1>2, <2>1, <2>2, <2>3
    <2>4. CASE store' = Remove(store)
        BY <1>10, <2>1, <2>2, <2>4 DEF VerbRecords, ReceiptInv
    <2> QED BY <2>1, <2>3, <2>4
<1>11. CASE PurgeUnfence
    <2>1. /\ UNCHANGED <<req, proc>> /\ op' = NoOp
          /\ store' = store \/ store' = Release(store)
        BY <1>11 DEF PurgeUnfence, Mutate, Written, Thrown, OpEnds
    <2> QED BY <1>1, <1>2, <1>3, <2>1, StateMoves
<1>12. CASE GcList \/ GcVisit \/ OtherNameQuiesces
    <2>1. /\ UNCHANGED <<req, proc, op>>
          /\ store' = store \/ store' = AllocateElsewhere(store)
        BY <1>12 DEF GcList, GcVisit, OtherNameQuiesces, NoMutation
    <2> QED BY <1>1, <1>2, <2>1, StateMoves
<1>13. ASSUME NEW e \in 1..MaxEpoch, ReleaseFence(e) PROVE VerbRecords
    <2>1. UNCHANGED <<req, proc, op>> /\ (store' = store \/ store' = Release(store))
        BY <1>13 DEF ReleaseFence, Mutate, Written, Thrown
    <2> QED BY <1>1, <1>2, <2>1, StateMoves
<1>14. CASE Resume \/ Suspend
    <2> DEFINE idle == [store.session EXCEPT !.state = "idle"]
               suspended == [store.session EXCEPT !.state = "suspended"]
    <2>1. idle.state # "absent" /\ suspended.state # "absent"
        BY <1>1 DEF Sessions
    <2> HIDE DEF idle, suspended
    <2>2. /\ UNCHANGED <<req, proc, op>>
          /\ store' = store \/ store' = Upsert(store, idle) \/ store' = Upsert(store, suspended)
        BY <1>14 DEF Resume, Suspend, Mutate, Written, Thrown, idle, suspended
    <2> QED BY <1>1, <1>2, <2>1, <2>2, StateMoves
<1>15. CASE FocusRead
    BY <1>1, <1>15 DEF FocusRead, NoMutation, NoOp, Present, VerbRecords
<1>16. CASE FocusWrite
    <2>1. /\ UNCHANGED <<req, proc>> /\ op' = NoOp /\ op.seen.state # "absent"
          /\ store' = store \/ store' = Upsert(store, op.seen)
        BY <1>16 DEF FocusWrite, Mutate, Written, Thrown, OpEnds, ReceiptInv
    <2> QED BY <1>1, <1>2, <1>3, <2>1, StateMoves
<1> QED BY <1>4, <1>5, <1>6, <1>7, <1>8, <1>9, <1>10, <1>11, <1>12, <1>13, <1>14, <1>15, <1>16
    DEF OpBegin, OpStep

LEMMA ReconciledStates ==
    ASSUME NEW s \in StoredStates
    PROVE  StatesKept(s, Reconciled(s)) \/ SettlesOne(s, Reconciled(s))
<1>1. s.session \in Sessions
    BY DEF StoredStates
<1>2. Present(s) => /\ InterruptedSession(s.session).state # "absent"
                    /\ OrphanedSession(s.session).state # "absent"
                    /\ FencedSession(s.session).state # "absent"
    BY <1>1, PatchedPresent DEF Present
<1>3. CASE Running(s)
    <2> DEFINE k == CHOOSE k \in KeysIn(s, "running") : TRUE
    <2>1. k \in KeysIn(s, "running")
        BY <1>3 DEF Running
    <2>2. k \in Keys /\ s.receipts[k].state = "running"
        BY <2>1 DEF KeysIn
    <2> HIDE DEF k
    <2>3. ASSUME NEW session, Present(s) => session.state # "absent"
          PROVE  SettlesOne(s, Settled(s, k, "error", session))
        BY <2>2, <2>3, StateMoves
    <2>4. CASE Interrupted(s)
        <3>1. \/ Reconciled(s) = Settled(s, k, "error", InterruptedSession(s.session))
              \/ Reconciled(s) = Settled(s, k, "error", s.session)
            BY <2>4 DEF Reconciled, k
        <3> QED BY <1>2, <2>3, <3>1 DEF Present
    <2>5. CASE ~Interrupted(s)
        <3>1. \/ Reconciled(s) = s
              \/ Present(s) /\ Reconciled(s) = Upsert(s, FencedSession(s.session))
              \/ Present(s) /\ Reconciled(s) = Settled(s, k, "error", OrphanedSession(s.session))
            BY <1>3, <2>5 DEF Reconciled, k
        <3> QED BY <1>2, <2>3, <3>1, StateMoves
    <2> QED BY <2>4, <2>5
<1>4. CASE ~Running(s)
    <2>1. \/ Reconciled(s) = s
          \/ Present(s) /\ Reconciled(s) = Upsert(s, FencedSession(s.session))
          \/ Present(s) /\ Reconciled(s) = Upsert(s, OrphanedSession(s.session))
        BY <1>4 DEF Reconciled, Interrupted
    <2> QED BY <1>2, <2>1, StateMoves
<1> QED BY <1>3, <1>4

LEMMA CrashRecords ==
    ASSUME Inv, Ground, Crash \/ Restart
    PROVE  /\ StatesKept(store, store') \/ SettlesOne(store, store')
           /\ UNCHANGED proc /\ op'.pc # "focusWrite"
           /\ \A r \in Requests : req'[r].pc \notin BodySteps /\ req'[r].generation = req[r].generation
<1>1. /\ store \in StoredStates /\ StatesKept(store, store)
      /\ req \in [Requests -> RequestStates]
    BY InvTypes, StateMoves DEF Inv
<1>2. CASE Crash
    <2>1. \A r \in Requests : /\ req'[r].pc \in {"new", "done", "lost"}
                              /\ req'[r].generation = req[r].generation
        BY <1>1, <1>2 DEF Crash, NoRequest
    <2> QED BY <1>1, <1>2, <2>1, PcNames DEF Crash, NoMutation, NoOp
<1>3. CASE Restart
    <2>1. store' = store \/ store' = Reconciled(store)
        BY <1>3 DEF Restart, Mutate, Written, Thrown, NoMutation
    <2> QED BY <1>1, <1>3, <2>1, ReconciledStates DEF Restart, Ground, DownInv, NoOp
<1> QED BY <1>2, <1>3

LEMMA OrderStays ==
    ASSUME store \in StoredStates, ReceiptInv, StatesKept(store, store') \/ SettlesOne(store, store')
    PROVE  \A i \in 1..Len(store'.order) : store'.receipts[store'.order[i]].state \in Decided
<1>1. store.order \in Seq(Keys)
    BY DEF StoredStates
<1>2. \A i \in 1..Len(store.order) :
          store.order[i] \in Keys /\ store.receipts[store.order[i]].state \in Decided
    BY <1>1 DEF ReceiptInv
<1>3. CASE StatesKept(store, store')
    BY <1>2, <1>3 DEF StatesKept
<1>4. CASE SettlesOne(store, store')
    <2>1. PICK k \in Keys :
              /\ store.receipts[k].state = "running" /\ store'.receipts[k].state = "settled"
              /\ \A j \in Keys \ {k} : store'.receipts[j].state = store.receipts[j].state
              /\ store'.order = Append(store.order, k)
        BY <1>4 DEF SettlesOne
    <2>2. \A i \in 1..Len(store'.order) :
              \/ i \in 1..Len(store.order) /\ store'.order[i] = store.order[i]
              \/ store'.order[i] = k
        BY <1>1, <2>1
    <2> QED BY <1>2, <2>1, <2>2 DEF Decided
<1> QED BY <1>3, <1>4

LEMMA ReceiptStays ==
    ASSUME Inv, Ground, ReceiptInv, [Next]_vars
    PROVE  ReceiptInv'
<1>1. /\ store \in StoredStates /\ mem.active \in Requests \cup {None} /\ None \notin Requests
      /\ StatesKept(store, store)
      /\ \A r \in Requests : Keyed(r) => KeyOf[r] \in Keys
    BY InvTypes, KeyOfType, StateMoves DEF Inv, Memory
<1>2. \A r \in Requests : req[r].pc \in {"claim"} \cup BodySteps => mem.active = r
    BY DEF Inv, LockInv
<1>3. {"spawn", "refresh"} \cup Unfinished \subseteq BodySteps /\ "claim" \notin BodySteps
    BY DEF Unfinished, BodySteps
\* Every turn is where it was with its receipt, or in no turn.
<1>4. ASSUME StatesKept(store, store') \/ SettlesOne(store, store'),
             \A r \in Requests : req'[r].pc \in BodySteps =>
                 /\ StatesKept(store, store')
                 /\ req'[r] = req[r] \/ (req'[r].pc = "body" /\ ~Keyed(r)),
             op' = op \/ (op'.pc = "focusWrite" => op'.seen.state # "absent")
      PROVE  ReceiptInv'
    <2>1. \A i \in 1..Len(store'.order) : store'.receipts[store'.order[i]].state \in Decided
        BY <1>1, <1>4, OrderStays
    <2>2. \A r \in Requests :
              Keyed(r) /\ req'[r].pc \in Unfinished => store'.receipts[KeyOf[r]].state = "running"
        BY <1>1, <1>3, <1>4 DEF ReceiptInv, StatesKept
    <2>3. \A r \in Requests : req'[r].pc = "spawn" => Present(store')
        BY <1>3, <1>4 DEF ReceiptInv, StatesKept
    <2>4. \A r \in Requests : req'[r].pc = "refresh" => req'[r].seen.state # "absent"
        BY <1>3, <1>4 DEF ReceiptInv
    <2>5. op'.pc = "focusWrite" => op'.seen.state # "absent"
        BY <1>4 DEF ReceiptInv
    <2> QED BY <2>1, <2>2, <2>3, <2>4, <2>5 DEF ReceiptInv, Keyed
<1>5. CASE UNCHANGED vars
    BY <1>1, <1>4, <1>5 DEF vars
<1>6. ASSUME NEW r \in Requests,
             \/ Admission(r) \/ Wake(r) \/ (\E e \in 0..MaxEpoch : Call(r, e))
             \/ ReleaseRecoveryFence(r) \/ EnterTurn(r)
      PROVE  ReceiptInv'
    BY <1>4, <1>6, AdmitRecords DEF Others
<1>7. ASSUME NEW r \in Requests, ClaimKey(r) PROVE ReceiptInv'
    <2>1. \A q \in Requests \ {r} : req'[q].pc \notin BodySteps
        BY <1>2, <1>7, ClaimRecords DEF ClaimKey, Others
    <2>2. CASE StatesKept(store, store') /\ req'[r].pc \notin BodySteps
        BY <1>4, <1>7, <2>1, <2>2, ClaimRecords
    <2>3. CASE Claims(r) /\ req'[r].pc = "body"
        <3>1. \A i \in 1..Len(store'.order) : store'.receipts[store'.order[i]].state \in Decided
            <4> SUFFICES ASSUME NEW i \in 1..Len(store'.order)
                         PROVE  store'.receipts[store'.order[i]].state \in Decided
                OBVIOUS
            <4>1. PICK j \in 1..Len(store.order) : store'.order[i] = store.order[j]
                BY <2>3 DEF Claims
            <4>2. store.order[j] \in Keys /\ store.receipts[store.order[j]].state \in Decided
                BY <1>1 DEF ReceiptInv, StoredStates
            <4> QED BY <2>3, <4>1, <4>2 DEF Claims, Decided
        <3>2. op' = op
            BY <1>7, ClaimRecords
        <3> QED BY <1>3, <2>1, <2>3, <3>1, <3>2 DEF ReceiptInv, Claims, Keyed
    <2> QED BY <1>7, <2>2, <2>3, ClaimRecords
<1>8. ASSUME NEW r \in Requests, ReleaseTurn(r) PROVE ReceiptInv'
    <2>1. \A q \in Requests : req'[q].pc \notin BodySteps
        BY <1>2, <1>8, ReleaseRecords DEF Others
    <2> QED BY <1>4, <1>8, <2>1, ReleaseRecords
<1>9. ASSUME NEW r \in Requests, Exit(r) PROVE ReceiptInv'
    BY <1>1, <1>4, <1>9 DEF Exit, NoMutation
<1>10. ASSUME NEW r \in Requests,
              \/ Begin(r) \/ RefreshProvider(r) \/ Provision(r) \/ PrepareRuntime(r)
              \/ StartTurnOutput(r) \/ LinkTurn(r) \/ Spawn(r) \/ RecordPid(r)
              \/ ReadExit(r) \/ Finalize(r) \/ RecordThrow(r) \/ HandleStartThrow(r)
       PROVE  ReceiptInv'
    <2>1. BodyStep(r) /\ BodyRecords(r)
        BY <1>10, DispatchSteps, FinishSteps, DispatchRecords, FinishRecords DEF Inv
    <2>2. \A q \in Requests \ {r} : req'[q].pc \notin BodySteps
        BY <1>2, <2>1 DEF BodyStep, Others
    <2>3. \A i \in 1..Len(store'.order) : store'.receipts[store'.order[i]].state \in Decided
        BY <1>1, <2>1, OrderStays DEF BodyRecords
    <2>4. Keyed(r) /\ req'[r].pc \in Unfinished => store'.receipts[KeyOf[r]].state = "running"
        BY <1>1, <2>1 DEF BodyRecords, ReceiptInv, StatesKept
    <2>5. op' = op
        BY <2>1 DEF BodyStep, SameLock
    <2> QED BY <1>3, <2>1, <2>2, <2>3, <2>4, <2>5 DEF ReceiptInv, BodyRecords, Keyed
<1>11. CASE OpBegin \/ OpStep
    <2>1. VerbRecords
        BY <1>11, OpRecords
    <2>2. CASE StatesKept(store, store')
        BY <1>4, <2>1, <2>2 DEF VerbRecords
    <2>3. CASE SettlesOne(store, store') /\ mem.active = None
        <3>1. \A q \in Requests : req'[q].pc \notin BodySteps
            BY <1>1, <1>2, <2>1, <2>3 DEF VerbRecords
        <3> QED BY <1>4, <2>1, <2>3, <3>1 DEF VerbRecords
    <2>4. CASE PurgeRemove /\ store' = Remove(store)
        <3>1. \A q \in Requests : req'[q].pc \notin BodySteps
            BY <1>1, <1>2, <2>1, <2>4 DEF VerbRecords, PurgeRemove, Inv, LockInv
        <3>2. store'.order = <<>>
            BY <1>1, <2>4 DEF Remove, StoredStates
        <3> QED BY <1>3, <2>1, <3>1, <3>2 DEF ReceiptInv, VerbRecords
    <2> QED BY <2>1, <2>2, <2>3, <2>4 DEF VerbRecords
<1>12. CASE Crash \/ Restart
    BY <1>4, <1>12, CrashRecords
<1> QED BY <1>5, <1>6, <1>7, <1>8, <1>9, <1>10, <1>11, <1>12 DEF Next, TurnStep

\* Only a purge counts the generation up.
LEMMA PurgeCounts ==
    ASSUME Inv, Ground, ReceiptInv, [Next]_vars, store'.generation # store.generation
    PROVE  PurgeRemove
<1>1. \A r \in Requests : Exit(r) => store'.generation = store.generation
    BY DEF Exit, NoMutation
<1>2. \A r \in Requests :
          ~ (\/ Admission(r) \/ Wake(r) \/ (\E e \in 0..MaxEpoch : Call(r, e))
             \/ ReleaseRecoveryFence(r) \/ EnterTurn(r))
    BY AdmitRecords DEF StatesKept
<1>3. \A r \in Requests : ~ClaimKey(r) /\ ~ReleaseTurn(r)
    BY ClaimRecords, ReleaseRecords DEF StatesKept, SettlesOne, Claims
<1>4. \A r \in Requests :
          ~ (\/ Begin(r) \/ RefreshProvider(r) \/ Provision(r) \/ PrepareRuntime(r)
             \/ StartTurnOutput(r) \/ LinkTurn(r) \/ Spawn(r) \/ RecordPid(r)
             \/ ReadExit(r) \/ Finalize(r) \/ RecordThrow(r) \/ HandleStartThrow(r))
    BY DispatchRecords, FinishRecords DEF BodyRecords, StatesKept, SettlesOne
<1>5. ~ (Crash \/ Restart)
    BY CrashRecords DEF StatesKept, SettlesOne
<1>6. ~ UNCHANGED vars
    BY DEF vars
<1>7. OpBegin \/ OpStep
    BY <1>1, <1>2, <1>3, <1>4, <1>5, <1>6 DEF Next, TurnStep
<1> QED BY <1>7, OpRecords DEF VerbRecords, StatesKept, SettlesOne

\* The receipt of a turn runs until its verdict is written, and only decided
\* receipts are compacted (ClaimKey, persistFinalTurnSession, Compacted).
THEOREM ReceiptsCorrect == Spec => []ReceiptInv
<1>1. Init => ReceiptInv
    <2> SUFFICES ASSUME Init PROVE ReceiptInv
        OBVIOUS
    <2>1. store.order = <<>> /\ op.pc = "none" /\ \A r \in Requests : req[r].pc = "new"
        BY DEF Init, freshState, NoOp, NoRequest
    <2> QED BY <2>1 DEF ReceiptInv, Unfinished, BodySteps
<1>2. Inv /\ Quiet /\ ReceiptInv /\ [Next]_vars => ReceiptInv'
    BY ReceiptStays DEF Quiet
<1> QED BY <1>1, <1>2, InvCorrect, QuietCorrect, PTL DEF Spec

-----------------------------------------------------------------------------
(* Without turn keys, the schema never refuses what a closing records.        *)

Unkeyed == \A r \in Requests : ~Keyed(r)
NothingClaimed == ~Running(store) /\ mem.keyed = None

LEMMA UnkeyedStays ==
    ASSUME Unkeyed, Inv, Ground, ReceiptInv, NothingClaimed, [Next]_vars
    PROVE  NothingClaimed'
<1>1. mem'.keyed = None
    <2>1. TypeInv'
        BY NextType DEF Inv
    <2>2. mem'.keyed \in Requests \cup {None} /\ (mem'.keyed # None => Keyed(mem'.keyed))
        BY <2>1 DEF TypeInv, TypeOK, KeysHeld, Memory, Keyed
    <2> QED BY <2>2 DEF Unkeyed
<1>2. \A k \in Keys : store.receipts[k].state # "running"
    BY DEF NothingClaimed, Running, KeysIn
<1>3. ASSUME StatesKept(store, store') \/ SettlesOne(store, store') PROVE ~Running(store')
    BY <1>2, <1>3 DEF StatesKept, SettlesOne, Running, KeysIn
<1>4. CASE UNCHANGED vars
    BY <1>1, <1>2, <1>4 DEF vars, NothingClaimed, Running, KeysIn
<1>5. ASSUME NEW r \in Requests,
             Admission(r) \/ TurnStep(r) \/ Exit(r) \/ \E e \in 0..MaxEpoch : Call(r, e)
      PROVE  ~Running(store')
    <2>1. CASE \/ Admission(r) \/ Wake(r) \/ (\E e \in 0..MaxEpoch : Call(r, e))
               \/ ReleaseRecoveryFence(r) \/ EnterTurn(r)
        BY <1>3, <2>1, AdmitRecords
    <2>2. CASE ClaimKey(r)
        BY <2>2 DEF ClaimKey, Inv, TypeInv, KeysHeld, Unkeyed
    <2>3. CASE ReleaseTurn(r)
        BY <1>3, <2>3, ReleaseRecords
    <2>4. CASE Exit(r)
        BY <1>2, <2>4 DEF Exit, NoMutation, Running, KeysIn
    <2>5. CASE \/ Begin(r) \/ RefreshProvider(r) \/ Provision(r) \/ PrepareRuntime(r)
               \/ StartTurnOutput(r) \/ LinkTurn(r) \/ Spawn(r) \/ RecordPid(r)
               \/ ReadExit(r) \/ Finalize(r) \/ RecordThrow(r) \/ HandleStartThrow(r)
        BY <1>3, <2>5, DispatchRecords, FinishRecords DEF BodyRecords
    <2> QED BY <1>5, <2>1, <2>2, <2>3, <2>4, <2>5 DEF TurnStep
<1>6. ASSUME OpBegin \/ OpStep PROVE ~Running(store')
    <2>1. CASE store' = Remove(store)
        <3>1. \A k \in Keys : store'.receipts[k].state = "free"
            BY <2>1, InvTypes DEF Inv, Remove, FreeReceipt, StoredStates
        <3> QED BY <3>1 DEF Running, KeysIn
    <2> QED BY <1>3, <1>6, <2>1, OpRecords DEF VerbRecords
<1>7. ASSUME Crash \/ Restart PROVE ~Running(store')
    BY <1>3, <1>7, CrashRecords
<1> QED BY <1>1, <1>4, <1>5, <1>6, <1>7 DEF Next, NothingClaimed

\* A session that only unkeyed turns use can always be recorded as closed.
LEMMA ClosureValid ==
    ASSUME NEW s \in StoredStates, Valid(s), ~Running(s)
    PROVE  Valid(Upsert(s, QuiescedSession(s.session)))
<1> DEFINE t == Upsert(s, QuiescedSession(s.session))
<1>1. /\ t.receipts = s.receipts /\ t.active = s.active /\ t.latest = s.latest
      /\ t.lastEpoch = s.lastEpoch /\ t.session = QuiescedSession(s.session)
    BY DEF Upsert, StoredStates
<1>2. /\ t.session.turn.key = s.session.turn.key
      /\ t.session.turn.print = s.session.turn.print
      /\ t.session.turn.id = s.session.turn.id
      /\ t.session.turn.state = "running" => s.session.turn.state = "running"
    <2>1. s.session \in Sessions
        BY DEF StoredStates
    <2>2. CASE s.session.state = "absent"
        BY <1>1, <2>2 DEF QuiescedSession
    <2>3. CASE s.session.state # "absent"
        <3>1. t.session.turn = [s.session.turn EXCEPT
                                  !.state = IF @ = "running" THEN "stopped" ELSE @]
            BY <1>1, <2>1, <2>3 DEF QuiescedSession, Sessions
        <3> QED BY <2>1, <3>1 DEF Sessions, Turns
    <2> QED BY <2>2, <2>3
<1> HIDE DEF t
<1>3. \A k \in Keys : s.receipts[k].state # "running"
    BY DEF Running, KeysIn
<1>4. LinkedReceiptHasTurn(t)
    BY <1>1, <1>3 DEF LinkedReceiptHasTurn
<1>5. SettledTurnNotRunning(t)
    BY <1>1, <1>2 DEF Valid, SettledTurnNotRunning
<1>6. OutcomesMatch(t)
    BY <1>1 DEF Valid, OutcomesMatch, MatchesTerminal
<1>7. KeyedTurnHasReceipt(t)
    BY <1>1, <1>2 DEF Valid, KeyedTurnHasReceipt
<1>8. FencesConsistent(t)
    BY <1>1 DEF Valid, FencesConsistent
<1>9. KeysIn(t, "settled") = KeysIn(s, "settled") /\ KeysIn(t, "free") = KeysIn(s, "free")
      /\ KeysIn(t, "running") = KeysIn(s, "running")
    BY <1>1 DEF KeysIn
<1>10. Valid(t)
    BY <1>4, <1>5, <1>6, <1>7, <1>8, <1>9 DEF Valid
<1> QED BY <1>10 DEF t

\* A session whose requests carry no key has no receipt to run.
THEOREM UnkeyedCorrect ==
    ASSUME Unkeyed
    PROVE  Spec => []NothingClaimed
<1>1. Init => NothingClaimed
    <2> SUFFICES ASSUME Init PROVE NothingClaimed
        OBVIOUS
    <2>1. mem.keyed = None /\ \A k \in Keys : store.receipts[k].state = "free"
        BY DEF Init, freshState, NoMemory, FreeReceipt
    <2> QED BY <2>1 DEF NothingClaimed, Running, KeysIn
<1>2. Inv /\ Quiet /\ ReceiptInv /\ NothingClaimed /\ [Next]_vars => NothingClaimed'
    BY UnkeyedStays DEF Quiet
<1> QED BY <1>1, <1>2, InvCorrect, QuietCorrect, ReceiptsCorrect, PTL DEF Spec

\* A turn leaves the verb that waits for it alone.
LEMMA TurnsLeaveVerb ==
    ASSUME Inv, NEW r \in Requests,
           Admission(r) \/ TurnStep(r) \/ Exit(r) \/ \E e \in 0..MaxEpoch : Call(r, e)
    PROVE  op' = op
<1>1. CASE \/ Admission(r) \/ Wake(r) \/ (\E e \in 0..MaxEpoch : Call(r, e))
           \/ ReleaseRecoveryFence(r) \/ EnterTurn(r)
    BY <1>1, AdmitRecords
<1>2. CASE ClaimKey(r) \/ ReleaseTurn(r) \/ Exit(r)
    BY <1>2 DEF ClaimKey, ReleaseTurn, Exit
<1>3. CASE \/ Begin(r) \/ RefreshProvider(r) \/ Provision(r) \/ PrepareRuntime(r)
           \/ StartTurnOutput(r) \/ LinkTurn(r) \/ Spawn(r) \/ RecordPid(r)
           \/ ReadExit(r) \/ Finalize(r) \/ RecordThrow(r) \/ HandleStartThrow(r)
    BY <1>3, DispatchSteps, FinishSteps DEF Inv, BodyStep, SameLock
<1> QED BY <1>1, <1>2, <1>3 DEF TurnStep

\* A quiesce or purge that proved the runtime of unkeyed turns closed reports it,
\* unless the disk fails or the daemon crashes (RecordClosed).
THEOREM ClosuresReported ==
    ASSUME Unkeyed
    PROVE  Spec => ClosureIsReported
<1>1. Inv /\ Quiet /\ NothingClaimed /\ [Next]_vars =>
        [op.pc = "record" /\ op'.verb = "none" /\ up' /\ faults' = faults => Closed']_vars
    <2> SUFFICES ASSUME Inv, Quiet, NothingClaimed, [Next]_vars,
                        op.pc = "record", op'.verb = "none", up', faults' = faults
                 PROVE  Closed'
        OBVIOUS
    <2>1. /\ store \in StoredStates /\ op \in Operations /\ Valid(store)
          /\ mem.lock = "op" /\ op.verb \in Closing /\ ~Mutable(store) /\ store.active.epoch = op.epoch
        BY InvTypes DEF Inv, LockInv, Quiet, Ground, VerbInv, FenceInv, AfterProof
    <2>2. RecordClosed
        <3>1. ~(op' = op)
            BY <2>1 DEF Closing
        <3>2. ~(UNCHANGED vars) /\ ~Crash /\ ~Restart
            BY <3>1 DEF vars, Crash, Restart
        <3>3. ASSUME NEW r \in Requests,
                     Admission(r) \/ TurnStep(r) \/ Exit(r) \/ \E e \in 0..MaxEpoch : Call(r, e)
              PROVE  FALSE
            BY <3>1, <3>3, TurnsLeaveVerb
        <3>4. ~OpBegin
            BY <2>1, <3>1 DEF OpBegin, StopBegin, QuiesceBegin, PurgeAgain, PurgeUnknown, PurgeBegin,
               GcList, GcVisit, ReleaseFence, Resume, Suspend, FocusRead, Lock, OtherNameQuiesces, Free
        <3> QED BY <3>2, <3>3, <3>4 DEF Next, OpStep, StopResolveFence, DrainTimesOut, StopDrained,
                StopWrite, CloseDrained, ProveClosed, PurgeRemove, PurgeUnfence, FocusWrite
    <2>3. ~Thrown(CanPatchQuiesced(store, op.epoch), Upsert(store, QuiescedSession(store.session)))
        <3>1. faults \in Nat
            BY LimitAssumption, RunAssumption DEF Inv, TypeInv, TypeOK
        <3> QED BY <2>1, <3>1, ClosureValid DEF Thrown, CanPatchQuiesced, NothingClaimed
    <2>4. report \in Reports
        BY DEF Inv, TypeInv, TypeOK
    <2> QED BY <2>1, <2>2, <2>3, <2>4, ReportRead DEF RecordClosed, Mutate, OpGoto, Operations, Closing,
            Closed
<1> QED BY <1>1, InvCorrect, QuietCorrect, UnkeyedCorrect, PTL DEF Spec, ClosureIsReported

-----------------------------------------------------------------------------
(* A persistent runtime: the closing is proved before anything is forgotten.  *)

\* A process of a persistent runtime belongs to a session that is there and was
\* not purged since; past the proof of a closing none is left.
PersistInv ==
    /\ \A r \in Requests : proc[r] = "alive" =>
           Present(store) /\ req[r].generation = store.generation
    /\ op.pc \in AfterProof => NoLiveProcess

\* A request keeps its generation once it may have a process.
LEMMA GenerationStays ==
    ASSUME Inv, ReceiptInv, NEW r \in Requests,
           Admission(r) \/ TurnStep(r) \/ Exit(r) \/ \E e \in 0..MaxEpoch : Call(r, e)
    PROVE  \A q \in Requests :
               req'[q].generation = req[q].generation \/ (proc[q] = "none" /\ proc' = proc)
<1>1. TypeInv /\ req \in [Requests -> RequestStates]
    BY InvTypes DEF Inv
<1>2. CASE \E e \in 0..MaxEpoch : Call(r, e)
    <2>1. Others(r)
        BY <1>1, <1>2, OutsideTurn
    <2> QED BY <1>2, <2>1 DEF Call, Inv, ClaimInv, Others
<1>3. CASE \/ Admission(r) \/ Wake(r) \/ ReleaseRecoveryFence(r) \/ EnterTurn(r)
           \/ ClaimKey(r) \/ ReleaseTurn(r)
    <2>1. \/ \E pc : Goto(r, pc)
          \/ \E answer : Answer(r, answer)
          \/ \E other : req' = [req EXCEPT ![r].pc = "waiting", ![r].inFlight = other]
        BY <1>3 DEF Admission, AdmitAnswered, Admit, Wake, ReleaseRecoveryFence, EnterTurn, ClaimKey,
           ReleaseTurn, Mutate
    <2>2. ASSUME NEW other, req' = [req EXCEPT ![r].pc = "waiting", ![r].inFlight = other]
          PROVE  Others(r) /\ req'[r].generation = req[r].generation
        BY <1>1, <2>2 DEF Others, RequestStates
    <2>3. Others(r) /\ req'[r].generation = req[r].generation
        BY <1>1, <2>1, <2>2, GotoMoves, AnswerMoves
    <2> QED BY <2>3 DEF Others
<1>4. CASE \/ Begin(r) \/ RefreshProvider(r) \/ Provision(r) \/ PrepareRuntime(r)
           \/ StartTurnOutput(r) \/ LinkTurn(r) \/ Spawn(r) \/ RecordPid(r)
           \/ ReadExit(r) \/ Finalize(r) \/ RecordThrow(r) \/ HandleStartThrow(r)
    <2>1. BodyStep(r)
        BY <1>1, <1>4, DispatchSteps, FinishSteps
    <2>2. \A q \in Requests : req'[q].generation = req[q].generation
        BY <2>1 DEF BodyStep, Others
    <2> QED BY <2>2
<1>5. CASE Exit(r)
    BY <1>5 DEF Exit
<1> QED BY <1>2, <1>3, <1>4, <1>5 DEF TurnStep

\* A process starts only in a turn; the rest leaves them alive or lets them end.
LEMMA PersistTurns ==
    ASSUME Inv, Ground, ReceiptInv, PersistInv, NEW r \in Requests,
           Admission(r) \/ TurnStep(r) \/ Exit(r) \/ \E e \in 0..MaxEpoch : Call(r, e)
    PROVE  PersistInv'
<1>1. /\ store \in StoredStates /\ req \in [Requests -> RequestStates]
      /\ proc \in [Requests -> {"none", "alive", "dead"}] /\ None \notin Requests
    BY InvTypes DEF Inv
<1>2. ASSUME op' = op, proc' = proc, store'.generation = store.generation,
             Present(store) => Present(store'),
             \A q \in Requests : req'[q].generation = req[q].generation \/ proc[q] = "none"
      PROVE  PersistInv'
    BY <1>2 DEF PersistInv, NoLiveProcess
<1>3. \A q \in Requests :
          req'[q].generation = req[q].generation \/ (proc[q] = "none" /\ proc' = proc)
    BY GenerationStays
<1>4. CASE \/ Admission(r) \/ Wake(r) \/ ReleaseRecoveryFence(r) \/ EnterTurn(r)
           \/ \E e \in 0..MaxEpoch : Call(r, e)
    BY <1>2, <1>3, <1>4, AdmitRecords DEF StatesKept
<1>5. CASE ClaimKey(r) \/ ReleaseTurn(r)
    BY <1>2, <1>3, <1>5, ClaimRecords, ReleaseRecords DEF StatesKept, SettlesOne, Claims
<1>6. CASE Exit(r)
    BY <1>1, <1>6 DEF Exit, NoMutation, PersistInv, NoLiveProcess
<1>7. CASE \/ Begin(r) \/ RefreshProvider(r) \/ Provision(r) \/ PrepareRuntime(r)
           \/ StartTurnOutput(r) \/ LinkTurn(r) \/ Spawn(r) \/ RecordPid(r)
           \/ ReadExit(r) \/ Finalize(r) \/ RecordThrow(r) \/ HandleStartThrow(r)
    <2>1. BodyStep(r) /\ BodyRecords(r)
        BY <1>7, DispatchSteps, FinishSteps, DispatchRecords, FinishRecords DEF Inv
    <2>2. op' = op /\ \A q \in Requests : req'[q].generation = req[q].generation
        BY <2>1 DEF BodyStep, SameLock, Others
    <2>3. CASE proc' = proc
        BY <1>2, <2>1, <2>2, <2>3 DEF BodyRecords, StatesKept, SettlesOne
    <2>4. CASE req[r].pc = "spawn" /\ store' = store /\ proc' = [proc EXCEPT ![r] = "alive"]
        <3>1. mem.active = r /\ req[r].generation = store.generation /\ Present(store)
            BY <2>1, <2>4 DEF BodyStep, Inv, LockInv, ReceiptInv
        <3>2. op.pc \notin AfterProof
            BY <1>1, <3>1 DEF Inv, LockInv, AfterProof
        <3> QED BY <1>1, <2>2, <2>4, <3>1, <3>2 DEF PersistInv
    <2> QED BY <2>1, <2>3, <2>4 DEF BodyRecords
<1> QED BY <1>4, <1>5, <1>6, <1>7 DEF TurnStep

\* The steps of a closing that follow its proof.
LEMMA ProofSteps ==
    ASSUME Inv, OpBegin \/ OpStep, op'.pc \in AfterProof
    PROVE  \/ op.pc \in AfterProof
           \/ CloseDrained /\ op.pc = "drain" /\ ~Present(store)
           \/ ProveClosed /\ (IF OneShot THEN op.seen.state # "running" \/ op.had ELSE NoLiveProcess)
<1>1. op \in Operations
    BY InvTypes DEF Inv
<1>2. NoOp.pc \notin AfterProof
    BY DEF NoOp, AfterProof
<1>3. CASE OpBegin
    <2>1. op' = op \/ op'.pc \in {"fence", "drain", "stopWrite", "focusWrite"}
        BY <1>3 DEF OpBegin, StopBegin, QuiesceBegin, PurgeAgain, PurgeUnknown, PurgeBegin,
           BeginClosing, Mutate, GcList, GcVisit, ReleaseFence, Resume, Suspend, FocusRead,
           OtherNameQuiesces, NoOp
    <2> QED BY <2>1 DEF AfterProof
<1>4. CASE StopResolveFence \/ DrainTimesOut \/ StopDrained
    <2>1. op' = NoOp \/ op'.pc \notin AfterProof
        <3>1. \/ op' = NoOp \/ OpGoto("drain") \/ OpGoto("stopWrite")
              \/ op' = [op EXCEPT !.seen = store.session, !.had = FALSE,
                                  !.pc = IF store.session.fence.on THEN "fence" ELSE "stopWrite"]
            BY <1>4 DEF StopResolveFence, DrainTimesOut, StopDrained, OpEnds
        <3> QED BY <1>1, <3>1 DEF OpGoto, Operations, AfterProof
    <2> QED BY <1>2, <2>1
<1>5. CASE StopWrite \/ FocusWrite
    BY <1>2, <1>5 DEF StopWrite, Mutate, StopSucceeds, StopFails, OpEnds, FocusWrite
<1>6. CASE CloseDrained
    <2>1. \/ OpGoto("prove") \/ op' = NoOp
          \/ op' = [op EXCEPT !.pc = "prove", !.seen = store.session, !.had = TRUE]
          \/ ~Present(store)
        BY <1>6 DEF CloseDrained, OpEnds
    <2>2. ~Present(store)
        BY <1>1, <1>2, <2>1 DEF OpGoto, Operations, AfterProof
    <2> QED BY <1>6, <2>2 DEF CloseDrained
<1>7. CASE ProveClosed
    BY <1>2, <1>7 DEF ProveClosed, OpEnds
<1>8. CASE RecordClosed \/ PurgeRemove \/ PurgeUnfence
    BY <1>8 DEF RecordClosed, PurgeRemove, PurgeUnfence, AfterProof
<1> QED BY <1>3, <1>4, <1>5, <1>6, <1>7, <1>8 DEF OpStep

LEMMA PersistStays ==
    ASSUME ~OneShot, Inv, Ground, ReceiptInv, PersistInv, [Next]_vars
    PROVE  PersistInv'
<1>1. CASE UNCHANGED vars
    BY <1>1 DEF vars, PersistInv, NoLiveProcess
<1>2. CASE OpBegin \/ OpStep
    <2>1. VerbRecords
        BY <1>2, OpRecords
    <2>2. op'.pc \in AfterProof => NoLiveProcess
        BY <1>2, ProofSteps DEF PersistInv, NoLiveProcess
    <2>3. CASE PurgeRemove
        BY <2>1, <2>2, <2>3 DEF PurgeRemove, PersistInv, AfterProof, NoLiveProcess, VerbRecords
    <2>4. CASE ~PurgeRemove
        BY <2>1, <2>2, <2>4 DEF VerbRecords, PersistInv, NoLiveProcess, StatesKept, SettlesOne
    <2> QED BY <2>3, <2>4
<1>3. CASE Crash \/ Restart
    <2>1. op'.pc \notin AfterProof
        <3>1. NoOp.pc \notin AfterProof
            BY DEF NoOp, AfterProof
        <3> QED BY <1>3, <3>1 DEF Crash, Restart, Ground, DownInv
    <2> QED BY <1>3, <2>1, CrashRecords DEF PersistInv, StatesKept, SettlesOne
<1> QED BY <1>1, <1>2, <1>3, PersistTurns DEF Next

\* No process of a persistent runtime is forgotten or outlives its session.
THEOREM PersistentCorrect ==
    ASSUME ~OneShot
    PROVE  Spec => []PersistInv
<1>1. Init => PersistInv
    <2> SUFFICES ASSUME Init PROVE PersistInv
        OBVIOUS
    <2>1. op.pc = "none" /\ \A r \in Requests : proc[r] = "none"
        BY DEF Init, NoOp
    <2> QED BY <2>1 DEF PersistInv, AfterProof
<1>2. Inv /\ Quiet /\ ReceiptInv /\ PersistInv /\ [Next]_vars => PersistInv'
    BY PersistStays DEF Quiet
<1> QED BY <1>1, <1>2, InvCorrect, QuietCorrect, ReceiptsCorrect, PTL DEF Spec

\* A session with a persistent runtime is forgotten only once nothing of it runs,
\* whatever crashes, fails or times out (ProveClosed, PurgeRemove).
THEOREM PersistentPurge ==
    ASSUME ~OneShot
    PROVE  Spec => PurgeForgetsNothingAlive
<1>1. Inv /\ Quiet /\ ReceiptInv /\ PersistInv /\ [Next]_vars =>
        [store'.generation # store.generation => NoLiveProcess]_vars
    <2> SUFFICES ASSUME Inv, Quiet, ReceiptInv, PersistInv, [Next]_vars,
                        store'.generation # store.generation
                 PROVE  NoLiveProcess
        OBVIOUS
    <2>1. PurgeRemove
        BY PurgeCounts DEF Quiet
    <2> QED BY <2>1 DEF PurgeRemove, PersistInv, AfterProof
<1> QED BY <1>1, InvCorrect, QuietCorrect, ReceiptsCorrect, PersistentCorrect, PTL
    DEF Spec, PurgeForgetsNothingAlive

-----------------------------------------------------------------------------
(* The ledger of the keys. *)

\* The processes of each key, and their generation, stay as they are.
WorkKept ==
    /\ proc' = proc /\ store'.generation = store.generation
    /\ \A r \in Requests : req'[r].generation = req[r].generation \/ proc[r] = "none"

LEMMA WorkStays ==
    ASSUME WorkKept
    PROVE  Dispatched' = Dispatched /\ Live' = Live
BY DEF WorkKept, Dispatched, Live

LEMMA StatusStays ==
    ASSUME StatesKept(store, store')
    PROVE  LedgerStatus' = LedgerStatus
BY DEF StatesKept, LedgerStatus

LEMMA StatusSettles ==
    ASSUME SettlesOne(store, store'), WorkKept
    PROVE  \E k \in Keys : Ledger!Settle(k)
<1>1. PICK k \in Keys :
          /\ store.receipts[k].state = "running" /\ store'.receipts[k].state = "settled"
          /\ \A j \in Keys \ {k} : store'.receipts[j].state = store.receipts[j].state
    BY DEF SettlesOne
<1>2. LedgerStatus[k] = "running"
    BY <1>1 DEF LedgerStatus
<1>3. LedgerStatus' = [LedgerStatus EXCEPT ![k] = "settled"]
    BY <1>1 DEF LedgerStatus
<1>4. Ledger!Settle(k)
    BY <1>2, <1>3, WorkStays DEF Ledger!Settle
<1> QED BY <1>4

LEMMA StatusClaims ==
    ASSUME Inv, NEW r \in Requests, Claims(r), WorkKept
    PROVE  \E k \in Keys : Ledger!Claim(k)
<1> DEFINE k == KeyOf[r]
<1>1. /\ k \in Keys /\ \A j \in Keys : store.receipts[j].state # "running"
      /\ store.receipts[k].state = "free" /\ store'.receipts[k].state = "running"
      /\ \A j \in Keys \ {k} :
            \/ store'.receipts[j].state = store.receipts[j].state
            \/ store.receipts[j].state \in Decided /\ store'.receipts[j].state \in Decided
    BY DEF Claims, Running, KeysIn
<1> HIDE DEF k
<1>2. LedgerStatus[k] = "free" /\ \A j \in Keys : LedgerStatus[j] # "running"
    BY <1>1 DEF LedgerStatus
<1>3. LedgerStatus' = [LedgerStatus EXCEPT ![k] = "running"]
    BY <1>1 DEF LedgerStatus, Decided
<1>4. Ledger!Claim(k)
    BY <1>1, <1>2, <1>3, WorkStays DEF Ledger!Claim
<1> QED BY <1>1, <1>4

LEMMA LedgerDispatch ==
    ASSUME Inv, ReceiptInv, NEW r \in Requests, BodyStep(r), req[r].pc = "spawn", store' = store,
           proc' = [proc EXCEPT ![r] = "alive"]
    PROVE  (\E k \in Keys : Ledger!Dispatch(k)) \/ UNCHANGED Ledger!vars
<1>1. /\ proc \in [Requests -> {"none", "alive", "dead"}]
      /\ req[r].generation = store.generation
      /\ \A q \in Requests : req'[q].generation = req[q].generation
      /\ Keyed(r) <=> KeyOf[r] \in Keys
    BY InvTypes, KeyOfType DEF Inv, LockInv, BodyStep, Others
<1>2. LedgerStatus' = LedgerStatus
    BY DEF LedgerStatus
<1>3. /\ \A q \in Requests \ {r} : proc'[q] = proc[q]
      /\ proc'[r] = "alive"
    BY <1>1
<1>4. CASE Keyed(r)
    <2> DEFINE k == KeyOf[r]
    <2>1. LedgerStatus[k] = "running"
        BY <1>1, <1>4 DEF ReceiptInv, Unfinished, BodySteps, LedgerStatus
    <2>2. Live' = Live \cup {k}
        BY <1>1, <1>3, <1>4 DEF Live
    <2>3. Dispatched' = Dispatched \cup {k}
        BY <1>1, <1>3, <1>4 DEF Dispatched
    <2>4. Ledger!Dispatch(k)
        BY <1>2, <2>1, <2>2, <2>3 DEF Ledger!Dispatch
    <2> QED BY <1>1, <1>4, <2>4
<1>5. CASE ~Keyed(r)
    <2>1. Live' = Live
        BY <1>1, <1>3, <1>5 DEF Live
    <2>2. Dispatched' = Dispatched
        BY <1>1, <1>3, <1>5 DEF Dispatched
    <2> QED BY <1>2, <2>1, <2>2 DEF Ledger!vars
<1> QED BY <1>4, <1>5

\* The processes that are alive were started between the same two purges.
OneGeneration ==
    \A q, r \in Requests :
        proc[q] = "alive" /\ proc[r] = "alive" => req[q].generation = req[r].generation

LEMMA LedgerWorkEnds ==
    ASSUME Inv, OneGeneration, NEW r \in Requests, Exit(r)
    PROVE  (\E k \in Keys : Ledger!WorkEnds(k)) \/ UNCHANGED Ledger!vars
<1>1. /\ proc \in [Requests -> {"none", "alive", "dead"}]
      /\ Keyed(r) <=> KeyOf[r] \in Keys
      /\ store' = store /\ req' = req /\ proc[r] = "alive"
      /\ proc' = [proc EXCEPT ![r] = "dead"]
    BY InvTypes, KeyOfType DEF Inv, Exit, NoMutation
<1>2. LedgerStatus' = LedgerStatus
    BY <1>1 DEF LedgerStatus
<1>3. Dispatched' = Dispatched
    BY <1>1 DEF Dispatched
<1>4. CASE Keyed(r)
    <2> DEFINE k == KeyOf[r]
    <2>1. \A q \in Requests \ {r} : KeyOf[q] = k => proc[q] # "alive"
        <3> SUFFICES ASSUME NEW q \in Requests \ {r}, KeyOf[q] = k, proc[q] = "alive"
                     PROVE  FALSE
            OBVIOUS
        <3>1. Worked(q) /\ Worked(r) /\ Keyed(q)
            BY <1>1, <1>4 DEF Worked, Keyed
        <3>2. req[q].generation # req[r].generation
            BY <3>1 DEF Inv, ClaimInv
        <3> QED BY <1>1, <3>2 DEF OneGeneration
    <2>2. k \in Live
        BY <1>1, <1>4 DEF Live
    <2>3. Live' = Live \ {k}
        BY <1>1, <2>1 DEF Live
    <2>4. Ledger!WorkEnds(k)
        BY <1>2, <1>3, <2>2, <2>3 DEF Ledger!WorkEnds
    <2> QED BY <1>1, <1>4, <2>4
<1>5. CASE ~Keyed(r)
    <2>1. Live' = Live
        BY <1>1, <1>5 DEF Live
    <2> QED BY <1>2, <1>3, <2>1 DEF Ledger!vars
<1> QED BY <1>4, <1>5

LEMMA LedgerForgets ==
    ASSUME Inv, NoLiveProcess, UNCHANGED <<req, proc>>, store' = Remove(store)
    PROVE  Ledger!Forget
<1>1. /\ store \in StoredStates /\ store.generation \in Nat
      /\ \A r \in Requests : req[r].generation \in Nat
    BY InvTypes DEF Inv
<1>2. Live = {} /\ Live' = {}
    BY DEF Live, NoLiveProcess
<1>3. store'.generation = store.generation + 1
      /\ \A k \in Keys : store'.receipts[k].state = "free"
    BY <1>1 DEF Remove, FreeReceipt, StoredStates
<1>4. \A r \in Requests : req'[r].generation # store'.generation
    BY <1>1, <1>3 DEF Inv, ClaimInv
<1>5. Dispatched' = {}
    BY <1>4 DEF Dispatched
<1>6. LedgerStatus' = [k \in Keys |-> "free"]
    BY <1>3 DEF LedgerStatus
<1> QED BY <1>2, <1>5, <1>6 DEF Ledger!Forget

LEMMA LedgerStep ==
    ASSUME Inv, Ground, ReceiptInv, OneGeneration, PurgeRemove => NoLiveProcess, [Next]_vars
    PROVE  [Ledger!Next]_(Ledger!vars)
<1>1. ASSUME WorkKept, StatesKept(store, store') \/ SettlesOne(store, store')
      PROVE  [Ledger!Next]_(Ledger!vars)
    <2>1. CASE StatesKept(store, store')
        BY <1>1, <2>1, WorkStays, StatusStays DEF Ledger!vars
    <2>2. CASE SettlesOne(store, store')
        BY <1>1, <2>2, StatusSettles DEF Ledger!Next
    <2> QED BY <1>1, <2>1, <2>2
<1>2. StatesKept(store, store') \/ SettlesOne(store, store') => store'.generation = store.generation
    BY DEF StatesKept, SettlesOne
<1>3. CASE UNCHANGED vars
    BY <1>3 DEF vars, Ledger!vars, LedgerStatus, Dispatched, Live
<1>4. ASSUME NEW r \in Requests,
             Admission(r) \/ TurnStep(r) \/ Exit(r) \/ \E e \in 0..MaxEpoch : Call(r, e)
      PROVE  [Ledger!Next]_(Ledger!vars)
    <2>1. \A q \in Requests : req'[q].generation = req[q].generation \/ proc[q] = "none"
        BY <1>4, GenerationStays
    <2>2. CASE \/ Admission(r) \/ Wake(r) \/ (\E e \in 0..MaxEpoch : Call(r, e))
               \/ ReleaseRecoveryFence(r) \/ EnterTurn(r)
        BY <1>1, <1>2, <2>1, <2>2, AdmitRecords DEF WorkKept
    <2>3. CASE ReleaseTurn(r)
        BY <1>1, <1>2, <2>1, <2>3, ReleaseRecords DEF WorkKept
    <2>4. CASE ClaimKey(r)
        <3>1. CASE StatesKept(store, store')
            BY <1>1, <1>2, <2>1, <2>4, <3>1, ClaimRecords DEF WorkKept
        <3>2. CASE Claims(r)
            <4>1. WorkKept
                BY <2>1, <2>4, <3>2, ClaimRecords DEF WorkKept, Claims
            <4> QED BY <3>2, <4>1, StatusClaims DEF Ledger!Next
        <3> QED BY <2>4, <3>1, <3>2, ClaimRecords
    <2>5. CASE Exit(r)
        BY <2>5, LedgerWorkEnds DEF Ledger!Next
    <2>6. CASE \/ Begin(r) \/ RefreshProvider(r) \/ Provision(r) \/ PrepareRuntime(r)
               \/ StartTurnOutput(r) \/ LinkTurn(r) \/ Spawn(r) \/ RecordPid(r)
               \/ ReadExit(r) \/ Finalize(r) \/ RecordThrow(r) \/ HandleStartThrow(r)
        <3>1. BodyStep(r) /\ BodyRecords(r)
            BY <2>6, DispatchSteps, FinishSteps, DispatchRecords, FinishRecords DEF Inv
        <3>2. CASE proc' = proc
            BY <1>1, <1>2, <2>1, <3>1, <3>2 DEF BodyRecords, WorkKept
        <3>3. CASE req[r].pc = "spawn" /\ store' = store /\ proc' = [proc EXCEPT ![r] = "alive"]
            BY <3>1, <3>3, LedgerDispatch DEF Ledger!Next
        <3> QED BY <3>1, <3>2, <3>3 DEF BodyRecords
    <2> QED BY <1>4, <2>2, <2>3, <2>4, <2>5, <2>6 DEF TurnStep
<1>5. CASE OpBegin \/ OpStep
    <2>1. VerbRecords
        BY <1>5, OpRecords
    <2>2. CASE StatesKept(store, store') \/ SettlesOne(store, store')
        BY <1>1, <1>2, <2>1, <2>2 DEF VerbRecords, WorkKept
    <2>3. CASE PurgeRemove /\ store' = Remove(store)
        BY <2>1, <2>3, LedgerForgets DEF VerbRecords, Ledger!Next
    <2> QED BY <2>1, <2>2, <2>3 DEF VerbRecords
<1>6. CASE Crash \/ Restart
    BY <1>1, <1>2, <1>6, CrashRecords DEF WorkKept
<1> QED BY <1>3, <1>4, <1>5, <1>6 DEF Next

LEMMA LedgerInit == Init => Ledger!Init
<1> SUFFICES ASSUME Init PROVE Ledger!Init
    OBVIOUS
<1>1. /\ \A r \in Requests : proc[r] = "none"
      /\ \A k \in Keys : store.receipts[k].state = "free"
    BY DEF Init, freshState, FreeReceipt
<1> QED BY <1>1 DEF Ledger!Init, LedgerStatus, Dispatched, Live

\* The receipts, turns and processes of a session with a persistent runtime
\* implement the ledger of its keys through every interleaving, failed write and
\* crash (ClaimKey, Spawn, Exit, Settled, Reconciled, PurgeRemove).
THEOREM LedgerImplemented ==
    ASSUME ~OneShot
    PROVE  Spec => ImplementsLedger
<1>1. Init => Ledger!Init
    BY LedgerInit
<1>2. PersistInv => OneGeneration /\ (PurgeRemove => NoLiveProcess)
    BY DEF PersistInv, OneGeneration, PurgeRemove, AfterProof
<1>3. Inv /\ Quiet /\ ReceiptInv /\ PersistInv /\ [Next]_vars => [Ledger!Next]_(Ledger!vars)
    BY <1>2, LedgerStep DEF Quiet
<1> QED BY <1>1, <1>3, InvCorrect, QuietCorrect, ReceiptsCorrect, PersistentCorrect, PTL
    DEF Spec, ImplementsLedger, Ledger!Spec

-----------------------------------------------------------------------------
(* The provider processes, when signalled work ends and the disk does not     *)
(* fail.                                                                      *)

\* Failed writes and crashes are only ever counted up.
LEMMA FaultsStay ==
    ASSUME TypeInv, [Next]_vars
    PROVE  /\ faults \in Nat /\ faults' \in {faults, faults + 1}
           /\ crashes \in Nat /\ crashes' \in {crashes, crashes + 1}
<1>1. faults \in Nat /\ crashes \in Nat
    BY RunAssumption DEF TypeInv, TypeOK
<1>2. CASE UNCHANGED vars
    BY <1>1, <1>2 DEF vars
<1>3. ASSUME NEW STATE allowed, NEW STATE next, Written(allowed, next) \/ Thrown(allowed, next)
      PROVE  faults' \in {faults, faults + 1}
    BY <1>3 DEF Written, Thrown
<1>4. ASSUME NEW r \in Requests, Admission(r) \/ Exit(r) \/ \E e \in 0..MaxEpoch : Call(r, e)
      PROVE  faults' = faults /\ crashes' = crashes
    BY <1>4 DEF Admission, AdmitAnswered, Admit, Exit, Call, NoMutation
<1>5. ASSUME NEW r \in Requests, TurnStep(r)
      PROVE  faults' \in {faults, faults + 1} /\ crashes' = crashes
    <2>1. CASE ReleaseRecoveryFence(r) \/ EnterTurn(r) \/ ClaimKey(r) \/ Wake(r) \/ Begin(r)
        BY <1>3, <2>1 DEF ReleaseRecoveryFence, EnterTurn, ClaimKey, Wake, Begin, Mutate, NoMutation
    <2>2. CASE RefreshProvider(r) \/ Provision(r) \/ PrepareRuntime(r) \/ StartTurnOutput(r)
        BY <1>3, <2>2 DEF RefreshProvider, Provision, PrepareRuntime, StartTurnOutput, Mutate, NoMutation
    <2>3. CASE LinkTurn(r)
        BY <1>3, <2>3 DEF LinkTurn, Mutate
    <2>4. CASE Spawn(r) \/ RecordPid(r) \/ ReadExit(r)
        BY <1>3, <2>4 DEF Spawn, RecordPid, ReadExit, Mutate, NoMutation
    <2>5. CASE Finalize(r) \/ RecordThrow(r) \/ HandleStartThrow(r) \/ ReleaseTurn(r)
        BY <1>3, <2>5 DEF Finalize, RecordThrow, PersistFinal, HandleStartThrow, ReleaseTurn, Mutate,
           NoMutation
    <2> QED BY <1>5, <2>1, <2>2, <2>3, <2>4, <2>5 DEF TurnStep
<1>6. ASSUME OpBegin PROVE faults' \in {faults, faults + 1} /\ crashes' = crashes
    <2>1. CASE StopBegin \/ QuiesceBegin \/ GcList \/ GcVisit \/ FocusRead \/ OtherNameQuiesces
        BY <1>3, <2>1 DEF StopBegin, QuiesceBegin, GcList, GcVisit, FocusRead, OtherNameQuiesces,
           Mutate, NoMutation
    <2>2. ASSUME NEW verb, PurgeAgain(verb) \/ PurgeUnknown(verb) \/ PurgeBegin(verb)
          PROVE  faults' \in {faults, faults + 1} /\ crashes' = crashes
        BY <1>3, <2>2 DEF PurgeAgain, PurgeUnknown, PurgeBegin, Mutate, NoMutation
    <2>3. ASSUME NEW e, ReleaseFence(e)
          PROVE  faults' \in {faults, faults + 1} /\ crashes' = crashes
        BY <1>3, <2>3 DEF ReleaseFence, Mutate
    <2>4. CASE Resume \/ Suspend
        BY <1>3, <2>4 DEF Resume, Suspend, Mutate
    <2> QED BY <1>6, <2>1, <2>2, <2>3, <2>4 DEF OpBegin
<1>7. ASSUME OpStep PROVE faults' \in {faults, faults + 1} /\ crashes' = crashes
    <2>1. CASE StopResolveFence \/ DrainTimesOut \/ StopDrained \/ StopWrite
        BY <1>3, <2>1 DEF StopResolveFence, DrainTimesOut, StopDrained, StopWrite, Mutate, NoMutation
    <2>2. CASE CloseDrained \/ ProveClosed \/ RecordClosed
        BY <1>3, <2>2 DEF CloseDrained, ProveClosed, RecordClosed, Mutate, NoMutation
    <2>3. CASE PurgeRemove \/ PurgeUnfence \/ FocusWrite
        BY <1>3, <2>3 DEF PurgeRemove, PurgeUnfence, FocusWrite, Mutate
    <2> QED BY <1>7, <2>1, <2>2, <2>3 DEF OpStep
<1>8. ASSUME Crash PROVE faults' = faults /\ crashes' = crashes + 1
    BY <1>8 DEF Crash, NoMutation
<1>9. ASSUME Restart PROVE faults' \in {faults, faults + 1} /\ crashes' = crashes
    BY <1>3, <1>9 DEF Restart, Mutate, NoMutation
<1> QED BY <1>1, <1>2, <1>4, <1>5, <1>6, <1>7, <1>8, <1>9 DEF Next

\* A record of the session that leaves its turn's state and its receipts alone is
\* valid when the one before is.
LEMMA PatchValid ==
    ASSUME NEW s \in StoredStates, Valid(s), NEW session,
           session.turn.id = s.session.turn.id, session.turn.key = s.session.turn.key,
           session.turn.print = s.session.turn.print, session.turn.state = s.session.turn.state
    PROVE  Valid(Upsert(s, session))
<1> DEFINE t == Upsert(s, session)
<1>1. /\ t.receipts = s.receipts /\ t.active = s.active /\ t.latest = s.latest
      /\ t.lastEpoch = s.lastEpoch /\ t.session = session
    BY DEF Upsert, StoredStates
<1> HIDE DEF t
<1>2. LinkedReceiptHasTurn(t)
    BY <1>1 DEF Valid, LinkedReceiptHasTurn
<1>3. SettledTurnNotRunning(t)
    BY <1>1 DEF Valid, SettledTurnNotRunning
<1>4. OutcomesMatch(t)
    BY <1>1 DEF Valid, OutcomesMatch, MatchesTerminal
<1>5. KeyedTurnHasReceipt(t)
    BY <1>1 DEF Valid, KeyedTurnHasReceipt
<1>6. FencesConsistent(t)
    BY <1>1 DEF Valid, FencesConsistent
<1>7. KeysIn(t, "settled") = KeysIn(s, "settled") /\ KeysIn(t, "free") = KeysIn(s, "free")
      /\ KeysIn(t, "running") = KeysIn(s, "running")
    BY <1>1 DEF KeysIn
<1>8. Valid(t)
    BY <1>2, <1>3, <1>4, <1>5, <1>6, <1>7 DEF Valid
<1> QED BY <1>8 DEF t

\* A closing waits for the turn to drain.
Draining == op.pc = "drain" /\ op.verb \in Closing

\* The process the manager knows is alive, and it is that of the turn unless a
\* closing waits for it; behind a fence a turn is stopped and starts nothing.
DrainInv ==
    /\ \A r \in Requests : mem.child = r => proc[r] = "alive"
    /\ Draining => mem.stop
    /\ faults = 0 =>
          /\ mem.child # None =>
                \/ Draining
                \/ mem.active = mem.child /\ req[mem.child].pc \in {"pid", "run"}
          /\ mem.active # None /\ ~Mutable(store) => mem.stop /\ (mem.child = None \/ Draining)

\* What is left to show of a step that starts nothing and stops nothing.
LEMMA DrainStays ==
    ASSUME DrainInv, mem \in Memory, None \notin Requests, faults' = faults \/ faults' # 0,
           op'.pc = op.pc /\ op'.verb = op.verb, proc' = proc,
           mem'.child = mem.child, mem'.stop = mem.stop, mem'.active = mem.active,
           Mutable(store) => Mutable(store'),
           \A q \in Requests : req[q].pc \in {"pid", "run"} => req'[q].pc \in {"pid", "run"}
    PROVE  DrainInv'
BY DEF DrainInv, Draining, Memory

LEMMA DrainBodies ==
    ASSUME Inv, Ground, DrainInv, faults' = faults \/ faults' # 0, NEW r \in Requests,
           \/ Begin(r) \/ RefreshProvider(r) \/ Provision(r) \/ PrepareRuntime(r)
           \/ StartTurnOutput(r) \/ LinkTurn(r) \/ Spawn(r) \/ RecordPid(r)
           \/ ReadExit(r) \/ Finalize(r) \/ RecordThrow(r) \/ HandleStartThrow(r)
    PROVE  DrainInv'
<1>1. /\ store \in StoredStates /\ Valid(store) /\ mem \in Memory /\ None \notin Requests
      /\ req \in [Requests -> RequestStates] /\ proc \in [Requests -> {"none", "alive", "dead"}]
      /\ TypeInv
    BY InvTypes DEF Inv, Ground, FenceInv
<1>2. BodyStep(r) /\ SameFences(store, store')
    BY <1>1, DispatchSteps, FinishSteps, BodyFences
<1>3. /\ mem.active = r /\ mem'.active = r /\ op' = op /\ Others(r)
      /\ Mutable(store') <=> Mutable(store)
    BY <1>2 DEF BodyStep, Inv, LockInv, SameLock, SameFences, Mutable
<1>4. Draining => ~Mutable(store)
    BY DEF Draining, Ground, FenceInv
<1>5. CASE /\ req[r].pc \notin {"pid", "run"} /\ proc' = proc
           /\ mem'.child = mem.child /\ mem'.stop = mem.stop
    BY <1>1, <1>3, <1>5, DrainStays DEF Others
<1>6. CASE \/ Begin(r) \/ RefreshProvider(r) \/ Provision(r) \/ PrepareRuntime(r)
           \/ StartTurnOutput(r) \/ LinkTurn(r) \/ HandleStartThrow(r)
    <2>1. req[r].pc \notin {"pid", "run"} /\ proc' = proc
        BY <1>6 DEF Begin, RefreshProvider, Provision, PrepareRuntime, StartTurnOutput, LinkTurn,
           HandleStartThrow
    <2>2. mem' = mem \/ mem' = [mem EXCEPT !.turnId = IF @ = None THEN r ELSE @]
        BY <1>6 DEF Begin, RefreshProvider, Provision, PrepareRuntime, StartTurnOutput, LinkTurn,
           HandleStartThrow
    <2> QED BY <1>1, <1>5, <2>1, <2>2 DEF Memory
<1>7. CASE Spawn(r)
    <2>1. CASE UNCHANGED <<proc, mem>>
        BY <1>5, <1>7, <2>1 DEF Spawn
    <2>2. CASE /\ ~mem.stop /\ proc' = [proc EXCEPT ![r] = "alive"]
               /\ mem' = [mem EXCEPT !.child = r] /\ Goto(r, "pid")
        <3>1. mem'.child = r /\ mem'.stop = mem.stop /\ proc'[r] = "alive" /\ req'[r].pc = "pid"
            BY <1>1, <2>2, BodyGoto DEF Memory
        <3>2. ~Draining /\ ~Draining'
            BY <1>3, <2>2 DEF DrainInv, Draining
        <3>3. faults' = 0 => Mutable(store)
            BY <1>1, <1>3, <2>2 DEF DrainInv
        <3> QED BY <1>3, <3>1, <3>2, <3>3 DEF DrainInv
    <2> QED BY <1>7, <2>1, <2>2 DEF Spawn
<1>8. CASE RecordPid(r)
    <2>1. mem' = mem /\ proc' = proc
        BY <1>8 DEF RecordPid
    <2>2. CASE Goto(r, "run")
        <3>1. req'[r].pc = "run"
            BY <1>1, <2>2, BodyGoto
        <3> QED BY <1>1, <1>3, <2>1, <3>1, DrainStays DEF Others
    <2>3. CASE faults' = 0 => mem.child = None \/ Draining
        BY <1>1, <1>3, <2>1, <2>3 DEF DrainInv, Draining
    <2>4. ASSUME faults' = 0, ~Goto(r, "run") PROVE mem.child = None \/ Draining
        <3> DEFINE recorded == [store.session EXCEPT !.turn.pid = r]
                   next == IF store.session.turn.id = mem.turnId THEN Upsert(store, recorded)
                           ELSE store
        <3>1. Valid(next)
            <4>1. /\ recorded.turn.id = store.session.turn.id
                  /\ recorded.turn.key = store.session.turn.key
                  /\ recorded.turn.print = store.session.turn.print
                  /\ recorded.turn.state = store.session.turn.state
                BY <1>1 DEF StoredStates, Sessions, Turns
            <4> HIDE DEF recorded
            <4> QED BY <1>1, <4>1, PatchValid
        <3>2. Thrown(Mutable(store), next) /\ faults' = faults
            BY <1>8, <2>4 DEF RecordPid, Mutate
        <3> HIDE DEF next
        <3>3. ~Mutable(store)
            <4>1. faults = 0 /\ faults' = faults
                BY <2>4, <3>2
            <4> QED BY <3>1, <3>2, <4>1 DEF Thrown
        <3> QED BY <1>1, <1>3, <2>4, <3>2, <3>3 DEF DrainInv
    <2> QED BY <2>2, <2>3, <2>4
<1>9. CASE ReadExit(r)
    <2>1. mem' = mem /\ proc' = proc /\ mem.child # r
        BY <1>9 DEF ReadExit, DrainInv
    <2> QED BY <1>1, <1>3, <2>1 DEF DrainInv, Draining
<1>10. CASE Finalize(r) \/ RecordThrow(r)
    <2>1. proc' = proc /\ req[r].pc \notin {"pid", "run"}
        BY <1>10 DEF Finalize, RecordThrow, PersistFinal
    <2>2. CASE mem' = mem
        BY <1>5, <2>1, <2>2
    <2>3. CASE mem' = TurnRecorded /\ Mutable(store)
        <3>1. mem'.child = mem.child
            BY <1>1, <2>3 DEF TurnRecorded, Memory
        <3>2. ~Draining /\ ~Draining'
            BY <1>3, <1>4, <2>3 DEF Draining
        <3>3. faults' = 0 => mem.child = None
            BY <1>3, <2>1, <3>2 DEF DrainInv
        <3> QED BY <1>1, <1>3, <2>1, <2>3, <3>1, <3>2, <3>3 DEF DrainInv
    <2>4. mem' = mem \/ (mem' = TurnRecorded /\ Mutable(store))
        BY <1>10 DEF Finalize, RecordThrow, PersistFinal, Mutate, Written, CanSettle
    <2> QED BY <2>2, <2>3, <2>4
<1> QED BY <1>6, <1>7, <1>8, <1>9, <1>10

LEMMA DrainTurns ==
    ASSUME Inv, Ground, DrainInv, faults' = faults \/ faults' # 0, NEW r \in Requests,
           Admission(r) \/ TurnStep(r) \/ Exit(r) \/ \E e \in 0..MaxEpoch : Call(r, e)
    PROVE  DrainInv'
<1>1. /\ store \in StoredStates /\ Valid(store) /\ mem \in Memory /\ None \notin Requests
      /\ req \in [Requests -> RequestStates] /\ proc \in [Requests -> {"none", "alive", "dead"}]
      /\ TypeInv /\ SameFences(store, store)
    BY InvTypes, FencesSame DEF Inv, Ground, FenceInv
<1>2. ASSUME Others(r), req[r].pc \notin {"pid", "run"}, UNCHANGED <<proc, op>>,
             mem'.child = mem.child, mem'.stop = mem.stop, mem'.active = mem.active,
             SameFences(store, store')
      PROVE  DrainInv'
    <2>1. Mutable(store) => Mutable(store')
        BY <1>2 DEF SameFences, Mutable
    <2> QED BY <1>1, <1>2, <2>1, DrainStays DEF Others
<1>3. CASE \/ AdmitAnswered(r) \/ Wake(r) \/ Admit(r) \/ ReleaseRecoveryFence(r)
           \/ \E e \in 0..MaxEpoch : Call(r, e)
    <2>1. Others(r)
        <3>1. \/ \E answer : Answer(r, answer)
              \/ \E pc \in {"fence", "enter"} : Goto(r, pc)
              \/ \E other : req' = [req EXCEPT ![r].pc = "waiting", ![r].inFlight = other]
              \/ \E e \in 0..MaxEpoch : Call(r, e)
            BY <1>3 DEF AdmitAnswered, Wake, Admit, ReleaseRecoveryFence, Mutate
        <3> QED BY <1>1, <3>1, OutsideTurn
    <2>2. /\ req[r].pc \notin {"pid", "run"} /\ UNCHANGED <<proc, op>>
          /\ mem'.child = mem.child /\ mem'.stop = mem.stop /\ mem'.active = mem.active
        BY <1>1, <1>3 DEF AdmitAnswered, Wake, Admit, ReleaseRecoveryFence, Call, Mutate, Lock,
           Unlocked, Memory
    <2>3. SameFences(store, store')
        <3>1. \/ store' = store
              \/ \E session : store' = Upsert(store, session)
            BY <1>3 DEF AdmitAnswered, Wake, Admit, ReleaseRecoveryFence, Call, NoMutation, Mutate,
               Written, Thrown
        <3> QED BY <1>1, <3>1, FencesSame
    <2> QED BY <1>2, <2>1, <2>2, <2>3
<1>4. CASE EnterTurn(r)
    <2>1. /\ mem.lock = "turn" /\ mem.active = None /\ ~Draining
          /\ proc' = proc /\ op' = op /\ req[r].pc = "enter"
        BY <1>1, <1>4, PcNames DEF EnterTurn, Inv, LockInv, Draining
    <2>2. faults' = 0 => mem.child = None
        BY <1>1, <2>1 DEF DrainInv
    <2>3. /\ mem'.child = mem.child
          /\ mem'.active = None \/ (mem'.active = r /\ Mutable(store'))
        <3>1. \/ mem' = Unlocked
              \/ /\ store' = Enter(store)
                 /\ mem' = [mem EXCEPT !.active = r, !.stop = FALSE,
                                       !.lock = IF Keyed(r) THEN @ ELSE "free"]
            BY <1>4 DEF EnterTurn, Mutate, Written
        <3>2. Mutable(Enter(store))
            BY <1>1 DEF Enter, Mutable, NoReservation, StoredStates
        <3> QED BY <1>1, <2>1, <3>1, <3>2 DEF Unlocked, Memory
    <2> QED BY <2>1, <2>2, <2>3 DEF DrainInv, Draining
<1>5. CASE ClaimKey(r)
    <2>1. mem.lock = "turn" /\ mem.active = r /\ ~Draining /\ proc' = proc /\ op' = op
        BY <1>1, <1>5, PcNames DEF ClaimKey, Inv, LockInv, Draining
    <2>2. faults' = 0 => mem.child = None
        BY <1>1, <1>5, <2>1 DEF DrainInv, ClaimKey
    <2>3. /\ mem'.child = mem.child /\ mem'.stop = mem.stop
          /\ mem'.active = None \/ (mem'.active = r /\ Mutable(store'))
        <3>1. CASE mem' = [Unlocked EXCEPT !.active = None]
            BY <1>1, <3>1 DEF Unlocked, Memory
        <3>2. CASE /\ Written(CanClaim(store, KeyOf[r]), Claim(store, KeyOf[r], PrintOf[r]))
                   /\ mem' = [Unlocked EXCEPT !.keyed = r]
            <4>1. Mutable(store') /\ mem'.active = mem.active
                BY <1>1, <3>2, FencesSame DEF Written, CanClaim, Mutable, SameFences, Unlocked, Memory
            <4> QED BY <1>1, <2>1, <3>2, <4>1 DEF Unlocked, Memory
        <3> QED BY <1>5, <3>1, <3>2 DEF ClaimKey, Mutate
    <2> QED BY <2>1, <2>2, <2>3 DEF DrainInv, Draining
<1>6. CASE ReleaseTurn(r)
    <2>1. /\ mem.active = r /\ req[r].pc = "epilogue" /\ proc' = proc /\ op' = op
          /\ mem'.active = None /\ mem'.child = mem.child /\ mem'.stop = mem.stop
        BY <1>1, <1>6, PcNames DEF ReleaseTurn, Inv, LockInv, Memory
    <2> QED BY <1>1, <2>1 DEF DrainInv, Draining
<1>7. CASE Exit(r)
    BY <1>1, <1>7 DEF Exit, NoMutation, DrainInv, Draining, Mutable, Memory
<1> QED BY <1>3, <1>4, <1>5, <1>6, <1>7, DrainBodies DEF Admission, TurnStep

LEMMA DrainBegins ==
    ASSUME Inv, Ground, DrainInv, faults' = faults \/ faults' # 0, Free,
           \/ StopBegin \/ QuiesceBegin
           \/ \E verb \in {"purge", "gc"} :
                  PurgeAgain(verb) \/ PurgeUnknown(verb) \/ PurgeBegin(verb)
           \/ (\E e \in 1..MaxEpoch : ReleaseFence(e)) \/ Resume \/ Suspend \/ FocusRead
    PROVE  DrainInv'
<1>1. /\ store \in StoredStates /\ Valid(store) /\ mem \in Memory /\ None \notin Requests
      /\ op \in Operations /\ SameFences(store, store) /\ req' = req /\ proc' = proc
    <2>1. req' = req /\ proc' = proc
        BY DEF StopBegin, QuiesceBegin, PurgeAgain, PurgeUnknown, PurgeBegin,
           ReleaseFence, Resume, Suspend, FocusRead
    <2> QED BY <2>1, InvTypes, FencesSame DEF Inv, Ground, FenceInv
<1>2. ASSUME mem'.child = mem.child, mem'.active = mem.active, ~Draining, ~Draining',
             mem'.stop = mem.stop \/ mem'.stop = TRUE \/ Mutable(store'),
             Mutable(store) => Mutable(store')
      PROVE  DrainInv'
    BY <1>1, <1>2 DEF DrainInv, Memory
<1>3. op.pc = "none" /\ op.verb = "none" /\ ~Draining
    BY FreeVerb DEF Free, Ground, Draining, Closing
<1>4. ASSUME op' = op, mem' \in {mem, [mem EXCEPT !.gc = "idle"], [mem EXCEPT !.gc = mem.gc]},
             Mutable(store) => Mutable(store')
      PROVE  DrainInv'
    BY <1>1, <1>2, <1>3, <1>4 DEF Draining, Memory
<1>5. ASSUME op' = op, Mutable(store'), mem'.child = mem.child, mem'.active = mem.active
      PROVE  DrainInv'
    BY <1>2, <1>3, <1>5 DEF Draining
<1>6. CASE StopBegin
    <2>1. /\ mem'.child = mem.child /\ mem'.active = mem.active
          /\ mem'.stop = mem.stop \/ mem'.stop = TRUE
          /\ store' = store /\ op'.verb = "stop"
        BY <1>1, <1>6 DEF StopBegin, NoMutation, NoOp, Memory
    <2> QED BY <1>2, <1>3, <2>1 DEF Draining, Closing
<1>7. ASSUME NEW verb \in Closing, NEW tracked, NEW next, BeginClosing(verb, tracked, next)
      PROVE  DrainInv'
    <2>1. Draining' /\ mem'.stop = TRUE /\ mem'.child = mem.child
        BY <1>1, <1>7 DEF BeginClosing, Draining, NoOp, Memory
    <2> QED BY <1>1, <2>1 DEF DrainInv
<1>8. CASE QuiesceBegin
    <2>1. \/ BeginClosing("quiesce", Tracked, Reserve(store, "external"))
          \/ ~Tracked /\ UNCHANGED <<op, mem>>
          \/ UNCHANGED <<store, op, mem>>
        BY <1>8 DEF QuiesceBegin, Mutate, Thrown
    <2>2. ASSUME ~Tracked, UNCHANGED <<op, mem>> PROVE DrainInv'
        BY <1>1, <1>3, <2>2 DEF Tracked, DrainInv, Draining
    <2>3. ASSUME UNCHANGED <<store, op, mem>> PROVE DrainInv'
        BY <1>4, <2>3
    <2> QED BY <1>7, <2>1, <2>2, <2>3 DEF Closing
<1>9. ASSUME NEW verb \in {"purge", "gc"}, PurgeAgain(verb) \/ PurgeUnknown(verb) \/ PurgeBegin(verb)
      PROVE  DrainInv'
    <2>1. CASE PurgeAgain(verb) /\ store' = Release(store)
        <3>1. op' = op /\ mem'.child = mem.child /\ mem'.active = mem.active
            BY <1>1, <2>1 DEF PurgeAgain, PurgeReturns, Mutate, Memory
        <3> QED BY <1>1, <1>5, <2>1, <3>1, ReleaseFences
    <2>2. CASE op' = op /\ store' = store /\ PurgeReturns(verb)
        BY <1>4, <2>2 DEF PurgeReturns
    <2>3. CASE BeginClosing(verb, Tracked \/ Running(store), Reserve(store, "purge"))
        BY <1>7, <2>3 DEF Closing
    <2> QED BY <1>9, <2>1, <2>2, <2>3 DEF PurgeAgain, PurgeUnknown, PurgeBegin, Mutate, Written,
            Thrown, NoMutation
<1>10. ASSUME NEW e \in 1..MaxEpoch, ReleaseFence(e) PROVE DrainInv'
    <2>1. op' = op /\ ((store' = Release(store) /\ mem' = [mem EXCEPT !.stop = FALSE])
                       \/ (store' = store /\ mem' = mem))
        BY <1>10 DEF ReleaseFence, Mutate, Written, Thrown
    <2>2. CASE store' = Release(store) /\ mem' = [mem EXCEPT !.stop = FALSE]
        BY <1>1, <1>5, <2>1, <2>2, ReleaseFences DEF Memory
    <2> QED BY <1>4, <2>1, <2>2
<1>11. CASE Resume \/ Suspend
    <2>1. op' = op /\ mem' = mem
        BY <1>11 DEF Resume, Suspend
    <2>2. store' = store \/ \E session : store' = Upsert(store, session)
        BY <1>11 DEF Resume, Suspend, Mutate, Written, Thrown
    <2> QED BY <1>1, <1>4, <2>1, <2>2, FencesSame DEF SameFences, Mutable
<1>12. CASE FocusRead
    <2>1. /\ mem'.child = mem.child /\ mem'.active = mem.active /\ mem'.stop = mem.stop
          /\ store' = store /\ op'.verb = "focus"
        BY <1>1, <1>12 DEF FocusRead, Lock, NoMutation, NoOp, Memory
    <2> QED BY <1>2, <1>3, <2>1 DEF Draining, Closing
<1> QED BY <1>6, <1>8, <1>9, <1>10, <1>11, <1>12

LEMMA DrainVerbs ==
    ASSUME KillsWork, Inv, Ground, DrainInv, faults' = faults \/ faults' # 0, OpBegin \/ OpStep
    PROVE  DrainInv'
<1>1. /\ store \in StoredStates /\ Valid(store) /\ mem \in Memory /\ None \notin Requests
      /\ op \in Operations /\ SameFences(store, store) /\ req' = req /\ proc' = proc
    <2>1. req' = req /\ proc' = proc
        BY DEF OpBegin, OpStep, StopBegin, QuiesceBegin, PurgeAgain, PurgeUnknown, PurgeBegin,
           GcList, GcVisit, ReleaseFence, Resume, Suspend, FocusRead, OtherNameQuiesces,
           StopResolveFence, DrainTimesOut, StopDrained, StopWrite, CloseDrained, ProveClosed,
           RecordClosed, PurgeRemove, PurgeUnfence, FocusWrite
    <2> QED BY <2>1, InvTypes, FencesSame DEF Inv, Ground, FenceInv
<1>2. ASSUME mem'.child = mem.child, mem'.active = mem.active, ~Draining, ~Draining',
             mem'.stop = mem.stop \/ mem'.stop = TRUE \/ Mutable(store'),
             Mutable(store) => Mutable(store')
      PROVE  DrainInv'
    BY <1>1, <1>2 DEF DrainInv, Memory
<1>3. CASE GcList \/ GcVisit \/ OtherNameQuiesces
    <2>1. /\ op' = op /\ mem'.child = mem.child /\ mem'.active = mem.active /\ mem'.stop = mem.stop
          /\ Mutable(store') <=> Mutable(store)
        BY <1>1, <1>3 DEF GcList, GcVisit, OtherNameQuiesces, AllocateElsewhere, NoMutation, Mutable,
           StoredStates, Memory
    <2> QED BY <1>1, <2>1 DEF DrainInv, Draining
<1>4. CASE OpBegin /\ ~(GcList \/ GcVisit \/ OtherNameQuiesces)
    <2>1. Free
        BY <1>4 DEF OpBegin, StopBegin, QuiesceBegin, PurgeAgain, PurgeUnknown, PurgeBegin,
           ReleaseFence, Resume, Suspend, FocusRead, Lock, Free
    <2> QED BY <1>4, <2>1, DrainBegins DEF OpBegin
<1>5. CASE StopResolveFence \/ StopDrained \/ StopWrite \/ FocusWrite
    <2>1. ~Draining /\ (op.verb = "stop" => Mutable(store))
        BY <1>5 DEF StopResolveFence, StopDrained, StopWrite, FocusWrite, Ground, VerbInv, FenceInv,
           Draining, Closing
    <2>2. ~Draining'
        <3>1. op' = NoOp \/ op'.verb = op.verb
            BY <1>1, <1>5 DEF StopResolveFence, StopDrained, StopWrite, StopSucceeds, StopFails,
               FocusWrite, Mutate, OpGoto, OpEnds, Operations
        <3>2. op.verb \notin Closing
            BY <1>5 DEF StopResolveFence, StopDrained, StopWrite, FocusWrite, Ground, VerbInv, Closing
        <3> QED BY <3>1, <3>2 DEF NoOp, Draining, Closing
    <2>3. /\ mem'.child = mem.child /\ mem'.active = mem.active
          /\ mem'.stop = mem.stop \/ mem'.stop = TRUE \/ op.verb = "stop"
        <3>1. CASE StopResolveFence \/ StopDrained \/ FocusWrite
            BY <1>1, <3>1 DEF StopResolveFence, StopDrained, FocusWrite, Unlocked, Memory
        <3>2. CASE StopWrite
            <4>1. mem' = Unlocked \/ \E stop : mem' = [Unlocked EXCEPT !.stop = stop]
                BY <3>2 DEF StopWrite, Mutate, StopSucceeds, StopFails
            <4>2. op.verb = "stop"
                BY <3>2 DEF StopWrite, Ground, VerbInv
            <4> QED BY <1>1, <4>1, <4>2 DEF Unlocked, Memory
        <3> QED BY <1>5, <3>1, <3>2
    <2>4. Mutable(store) => Mutable(store')
        <3>1. SameFences(store, store')
            <4>1. \/ store' = store \/ \E session : store' = Upsert(store, session)
                  \/ \E k, session : store' = Settled(store, k, "error", session)
                BY <1>5 DEF StopResolveFence, StopDrained, StopWrite, FocusWrite, Mutate, Written,
                   Thrown, NoMutation
            <4> QED BY <1>1, <4>1, FencesSame
        <3> QED BY <3>1 DEF SameFences, Mutable
    <2> QED BY <1>2, <2>1, <2>2, <2>3, <2>4
<1>6. CASE DrainTimesOut
    <2>1. mem.child = None /\ mem' = Unlocked /\ op' = NoOp /\ store' = store
        BY <1>6 DEF DrainTimesOut, OpEnds, NoMutation
    <2>2. mem'.child = None /\ mem'.active = mem.active /\ mem'.stop = mem.stop /\ ~Draining'
        BY <1>1, <2>1 DEF Unlocked, Memory, NoOp, Draining
    <2> QED BY <1>1, <2>1, <2>2 DEF DrainInv
<1>7. CASE CloseDrained \/ ProveClosed \/ RecordClosed \/ PurgeRemove \/ PurgeUnfence
    <2>1. mem.active = None /\ (faults' = 0 => mem.child = None)
        <3>1. CASE CloseDrained
            BY <3>1 DEF CloseDrained, Drained
        <3>2. CASE ~CloseDrained
            <4>1. op.pc \in {"prove", "record", "remove", "unfence"}
                BY <1>7, <3>2 DEF ProveClosed, RecordClosed, PurgeRemove, PurgeUnfence
            <4>2. mem.active = None /\ ~Draining
                BY <4>1 DEF Inv, LockInv, Draining
            <4> QED BY <1>1, <4>2 DEF DrainInv
        <3> QED BY <3>1, <3>2
    <2>2. /\ mem'.active = mem.active /\ mem'.child \in {mem.child, None}
          /\ ~Draining'
        <3>1. CASE CloseDrained
            <4>1. \/ OpGoto("prove") /\ mem' = mem
                  \/ OpGoto("remove") /\ mem' = mem
                  \/ op' = NoOp /\ mem' = Unlocked
                  \/ /\ op' = [op EXCEPT !.pc = "prove", !.seen = store.session, !.had = TRUE]
                     /\ mem' = [mem EXCEPT !.stop = TRUE]
                BY <3>1 DEF CloseDrained, OpEnds
            <4>2. mem'.active = mem.active /\ mem'.child = mem.child
                BY <1>1, <4>1 DEF Unlocked, Memory
            <4>3. op'.pc # "drain"
                <5>1. CASE OpGoto("prove") \/ OpGoto("remove")
                    BY <1>1, <5>1 DEF OpGoto, Operations
                <5>2. CASE op' = NoOp
                    BY <5>2 DEF NoOp
                <5>3. CASE op' = [op EXCEPT !.pc = "prove", !.seen = store.session, !.had = TRUE]
                    BY <1>1, <5>3 DEF Operations
                <5> QED BY <4>1, <5>1, <5>2, <5>3
            <4> QED BY <4>2, <4>3 DEF Draining
        <3>2. CASE ProveClosed \/ RecordClosed \/ PurgeRemove \/ PurgeUnfence
            <4>1. op' = NoOp \/ \E pc \in AfterProof : OpGoto(pc)
                BY <3>2 DEF ProveClosed, RecordClosed, PurgeRemove, PurgeUnfence, Mutate, OpEnds,
                   AfterProof
            <4>2. \/ mem' = mem \/ mem' = Unlocked
                  \/ mem' = [mem EXCEPT !.child = None, !.stop = FALSE]
                  \/ mem' = [Unlocked EXCEPT !.child = None, !.stop = FALSE]
                BY <3>2 DEF ProveClosed, RecordClosed, PurgeRemove, PurgeUnfence, Mutate
            <4>3. mem'.active = mem.active /\ mem'.child \in {mem.child, None}
                BY <1>1, <4>2 DEF Unlocked, Memory
            <4>4. ~Draining'
                BY <1>1, <4>1 DEF OpGoto, NoOp, Operations, Draining, AfterProof
            <4> QED BY <4>3, <4>4
        <3> QED BY <1>7, <3>1, <3>2
    <2> QED BY <1>1, <2>1, <2>2 DEF DrainInv
<1> QED BY <1>3, <1>4, <1>5, <1>6, <1>7 DEF OpBegin, OpStep

LEMMA DrainNext ==
    ASSUME KillsWork, Inv, Quiet, DrainInv, [Next]_vars
    PROVE  DrainInv'
<1>1. faults' = faults \/ faults' # 0
    BY FaultsStay DEF Inv
<1>2. CASE UNCHANGED vars
    BY <1>2 DEF vars, DrainInv, Draining, Mutable
<1>3. CASE Crash
    BY <1>3, InvTypes DEF Crash, DrainInv, Draining, NoMemory, NoOp, Inv
<1>4. CASE Restart
    <2>1. mem' = NoMemory /\ op' = NoOp
        BY <1>4 DEF Restart, Quiet, Ground, DownInv
    <2> QED BY <2>1, InvTypes DEF DrainInv, Draining, NoMemory, NoOp, Inv
<1> QED BY <1>1, <1>2, <1>3, <1>4, DrainTurns, DrainVerbs DEF Next, Quiet

\* Where signals end work, what the manager knows of the processes is true, and
\* what it waits for is the turn or a closing.
THEOREM DrainCorrect ==
    ASSUME KillsWork
    PROVE  Spec => []DrainInv
<1>1. Init => DrainInv
    BY NoneAssumption DEF Init, DrainInv, Draining, NoMemory, NoOp, Requests
<1>2. Inv /\ Quiet /\ DrainInv /\ [Next]_vars => DrainInv'
    BY DrainNext
<1> QED BY <1>1, <1>2, InvCorrect, QuietCorrect, PTL DEF Spec

\* A verb leaves the turns alone; only the removal drops a process.
LEMMA VerbMaps ==
    ASSUME mem \in Memory, OpBegin \/ OpStep
    PROVE  /\ UNCHANGED <<req, proc>> /\ mem'.active = mem.active
           /\ mem'.child = mem.child \/ (PurgeRemove /\ mem'.child = None)
<1>1. UNCHANGED <<req, proc>>
    BY DEF OpBegin, OpStep, StopBegin, QuiesceBegin, PurgeAgain, PurgeUnknown, PurgeBegin,
       GcList, GcVisit, ReleaseFence, Resume, Suspend, FocusRead, OtherNameQuiesces,
       StopResolveFence, DrainTimesOut, StopDrained, StopWrite, CloseDrained, ProveClosed,
       RecordClosed, PurgeRemove, PurgeUnfence, FocusWrite
<1> DEFINE MapsKept == mem'.active = mem.active /\ mem'.child = mem.child
<1>2. CASE OpStep /\ ~PurgeRemove
    <2>1. \/ mem' = mem \/ mem' = Unlocked
          \/ \E stop : mem' = [mem EXCEPT !.stop = stop]
          \/ \E stop : mem' = [Unlocked EXCEPT !.stop = stop]
        BY <1>2 DEF OpStep, StopResolveFence, DrainTimesOut, StopDrained,
           StopWrite, StopSucceeds, StopFails, CloseDrained, ProveClosed, RecordClosed,
           PurgeUnfence, FocusWrite, Mutate
    <2>2. MapsKept
        BY <2>1 DEF Unlocked, Memory
    <2> QED BY <1>1, <2>2
<1>3. CASE PurgeRemove
    <2>1. \/ mem' = [mem EXCEPT !.child = None, !.stop = FALSE]
          \/ mem' = [Unlocked EXCEPT !.child = None, !.stop = FALSE]
          \/ mem' = Unlocked
        BY <1>3 DEF PurgeRemove, Mutate
    <2>2. mem'.active = mem.active /\ mem'.child \in {mem.child, None}
        BY <2>1 DEF Unlocked, Memory
    <2> QED BY <1>1, <1>3, <2>2
<1>4. CASE OpBegin
    <2>1. ASSUME StopBegin \/ QuiesceBegin PROVE MapsKept
        BY <2>1 DEF StopBegin, QuiesceBegin, BeginClosing, Mutate, Memory
    <2>2. ASSUME NEW verb \in {"purge", "gc"},
                 PurgeAgain(verb) \/ PurgeUnknown(verb) \/ PurgeBegin(verb)
          PROVE  MapsKept
        BY <2>2 DEF PurgeAgain, PurgeUnknown, PurgeBegin, PurgeReturns, BeginClosing,
           Mutate, Memory
    <2>3. ASSUME \/ GcList \/ GcVisit \/ (\E e \in 1..MaxEpoch : ReleaseFence(e))
                 \/ Resume \/ Suspend \/ FocusRead \/ OtherNameQuiesces
          PROVE  MapsKept
        BY <2>3 DEF GcList, GcVisit, ReleaseFence, Resume, Suspend, FocusRead, Lock,
           OtherNameQuiesces, Mutate, Memory
    <2>4. MapsKept
        BY <1>4, <2>1, <2>2, <2>3 DEF OpBegin
    <2> QED BY <1>1, <2>4
<1> QED BY <1>2, <1>3, <1>4

\* A process that is alive and that the manager does not know of.
Survives(r) == proc[r] = "alive" /\ mem.child # r

\* Without failed writes only a crash makes a survivor, of the process it cut off.
LEMMA SurvivorsLeft ==
    ASSUME KillsWork, Inv, Quiet, DrainInv, [Next]_vars, faults' = 0, NEW r \in Requests,
           Survives(r)'
    PROVE  Survives(r) \/ (Crash /\ mem.child = r)
<1>1. /\ mem \in Memory /\ None \notin Requests /\ faults = 0
      /\ proc \in [Requests -> {"none", "alive", "dead"}]
    BY InvTypes, FaultsStay DEF Inv
<1>2. ASSUME proc' = proc, mem'.child = mem.child PROVE Survives(r)
    BY <1>2 DEF Survives
<1>3. CASE UNCHANGED vars
    BY <1>2, <1>3 DEF vars
<1>4. CASE Crash
    BY <1>1, <1>4 DEF Crash, Survives
<1>5. CASE Restart
    BY <1>2, <1>5 DEF Restart
<1>6. ASSUME NEW q \in Requests,
             Admission(q) \/ TurnStep(q) \/ Exit(q) \/ \E e \in 0..MaxEpoch : Call(q, e)
      PROVE  Survives(r)
    <2>1. CASE Spawn(q)
        <3>1. CASE UNCHANGED <<proc, mem>>
            BY <1>2, <3>1
        <3>2. CASE /\ ~mem.stop /\ proc' = [proc EXCEPT ![q] = "alive"]
                   /\ mem' = [mem EXCEPT !.child = q]
            <4>1. /\ mem.active = q /\ req[q].pc = "spawn" /\ ~Draining
                BY <2>1, <3>2, PcNames DEF Spawn, Inv, LockInv, DrainInv
            <4>2. mem.child = None
                BY <1>1, <4>1 DEF DrainInv
            <4> QED BY <1>1, <3>2, <4>2 DEF Survives, Memory
        <3> QED BY <2>1, <3>1, <3>2 DEF Spawn
    <2>2. CASE Exit(q)
        BY <1>1, <2>2 DEF Exit, Survives, Memory
    <2>3. CASE ~Spawn(q) /\ ~Exit(q)
        <3>1. proc' = proc
            BY <1>6, <2>3 DEF Admission, AdmitAnswered, Admit, Call, TurnStep, ReleaseRecoveryFence,
               EnterTurn, ClaimKey, Wake, Begin, RefreshProvider, Provision, PrepareRuntime,
               StartTurnOutput, LinkTurn, RecordPid, ReadExit, Finalize, RecordThrow, PersistFinal,
               HandleStartThrow, ReleaseTurn
        <3>2. mem'.child = mem.child
            <4>1. CASE Admission(q) \/ ReleaseRecoveryFence(q) \/ EnterTurn(q) \/ ClaimKey(q)
                       \/ Wake(q) \/ ReleaseTurn(q) \/ \E e \in 0..MaxEpoch : Call(q, e)
                BY <1>1, <4>1 DEF Admission, AdmitAnswered, Admit, Lock, Call, ReleaseRecoveryFence,
                   EnterTurn, ClaimKey, Wake, ReleaseTurn, Mutate, Unlocked, Memory
            <4>2. CASE \/ Begin(q) \/ RefreshProvider(q) \/ Provision(q) \/ PrepareRuntime(q)
                       \/ StartTurnOutput(q) \/ LinkTurn(q) \/ RecordPid(q) \/ ReadExit(q)
                       \/ HandleStartThrow(q)
                BY <1>1, <4>2 DEF Begin, RefreshProvider, Provision, PrepareRuntime,
                   StartTurnOutput, LinkTurn, RecordPid, ReadExit, HandleStartThrow, Memory
            <4>3. CASE Finalize(q) \/ RecordThrow(q)
                <5>1. mem' = mem \/ mem' = TurnRecorded
                    BY <4>3 DEF Finalize, RecordThrow, PersistFinal, Mutate
                <5> QED BY <1>1, <5>1 DEF TurnRecorded, Memory
            <4> QED BY <1>6, <2>3, <4>1, <4>2, <4>3 DEF TurnStep
        <3> QED BY <1>2, <3>1, <3>2
    <2> QED BY <2>1, <2>2, <2>3
<1>7. ASSUME OpBegin \/ OpStep PROVE Survives(r)
    <2>1. /\ proc' = proc
          /\ mem'.child = mem.child \/ (PurgeRemove /\ mem'.child = None)
        BY <1>1, <1>7, VerbMaps
    <2>2. CASE PurgeRemove
        <3>1. op.pc = "remove"
            BY <2>2 DEF PurgeRemove
        <3>2. mem.active = None /\ ~Draining
            BY <3>1 DEF Inv, LockInv, Draining
        <3>3. mem.child = None
            BY <1>1, <3>2 DEF DrainInv
        <3> QED BY <1>1, <2>1, <3>3 DEF Survives
    <2>3. CASE ~PurgeRemove
        BY <1>2, <2>1, <2>3
    <2> QED BY <2>2, <2>3
<1> QED BY <1>3, <1>4, <1>5, <1>6, <1>7 DEF Next

\* While nothing crashed and no write failed, the manager knows of every process.
AllKnown == faults = 0 /\ crashes = 0 => \A r \in Requests : ~Survives(r)

LEMMA KnownMeansOne ==
    ASSUME Inv, Quiet, DrainInv, faults = 0, \A r \in Requests : ~Survives(r)
    PROVE  OneLiveProcess /\ ClosedMeansDead
<1>1. OneLiveProcess
    BY DEF OneLiveProcess, Survives
<1>2. ASSUME Closed PROVE NoLiveProcess
    <2>1. mem.active = None /\ ~Draining
        BY <1>2 DEF Quiet, QuietInv, Draining
    <2>2. mem.child \notin Requests
        <3>1. None \notin Requests
            BY InvTypes DEF Inv
        <3> QED BY <2>1, <3>1 DEF DrainInv
    <2> QED BY <2>2 DEF Survives, NoLiveProcess
<1> QED BY <1>1, <1>2 DEF ClosedMeansDead

THEOREM KnownCorrect ==
    ASSUME KillsWork
    PROVE  Spec => []AllKnown
<1>1. Init => AllKnown
    BY DEF Init, AllKnown, Survives
<1>2. Inv /\ Quiet /\ DrainInv /\ AllKnown /\ [Next]_vars => AllKnown'
    <2> SUFFICES ASSUME Inv, Quiet, DrainInv, AllKnown, [Next]_vars, faults' = 0, crashes' = 0,
                        NEW r \in Requests, Survives(r)'
                 PROVE  FALSE
        BY DEF AllKnown
    <2>1. /\ faults \in Nat /\ faults' \in {faults, faults + 1}
          /\ crashes \in Nat /\ crashes' \in {crashes, crashes + 1}
        BY FaultsStay DEF Inv
    <2>2. Crash => crashes' = crashes + 1
        BY DEF Crash
    <2>3. faults = 0 /\ crashes = 0 /\ ~Crash
        BY <2>1, <2>2
    <2>4. Survives(r)
        BY <2>3, SurvivorsLeft
    <2> QED BY <2>3, <2>4 DEF AllKnown
<1> QED BY <1>1, <1>2, InvCorrect, QuietCorrect, DrainCorrect, PTL DEF Spec

-----------------------------------------------------------------------------
(* A crash cuts off the process of an unkeyed turn: what is stored shows it,  *)
(* and the next daemon fences it.                                             *)

\* Neither keys nor the verbs that write back what they read.
Plain == Unkeyed /\ Verbs \cap {"focus", "suspend"} = {}

\* The record shows a running turn whose process is r, or not known.
Shows(session, r) ==
    /\ session.state = "running" /\ session.turn.state = "running"
    /\ session.turn.pid \in {None, r}

Dispatching == {"spawn", "pid", "run"}

\* A turn works without a recovery fence, and its record shows its process.
Recorded ==
    \A r \in Requests :
        /\ ~req[r].seen.fence.on
        /\ req[r].pc = "enter" \/ mem.active = r \/ mem.child = r => ~store.session.fence.on
        /\ req[r].pc \in Dispatching \/ mem.child = r => Shows(store.session, r)
        /\ req[r].pc = "spawn" => store.session.turn.pid = None

\* What is left to show of a step that leaves the record alone.
LEMMA RecordStays ==
    ASSUME Recorded, store'.session = store.session, None \notin Requests,
           mem'.active \in {mem.active, None}, mem'.child \in {mem.child, None},
           \A q \in Requests :
               /\ ~req'[q].seen.fence.on
               /\ req'[q].pc = "enter" => req[q].pc = "enter" \/ ~store.session.fence.on
               /\ req'[q].pc \in Dispatching => req[q].pc \in Dispatching
               /\ req'[q].pc = "spawn" => req[q].pc = "spawn"
    PROVE  Recorded'
BY DEF Recorded

\* ... and of a step that writes it when nothing is at work.
LEMMA RecordRests ==
    ASSUME None \notin Requests, mem'.active = None, mem'.child = None,
           \A q \in Requests : /\ ~req'[q].seen.fence.on
                               /\ req'[q].pc = "enter" => ~store'.session.fence.on
                               /\ req'[q].pc \notin Dispatching
    PROVE  Recorded'
BY DEF Recorded, Dispatching

\* A step of a body leaves the record alone, or writes it with nothing at work.
LEMMA RecordTurn ==
    ASSUME Inv, Recorded, NEW r \in Requests,
           BodyStep(r), mem'.child = mem.child, ~req'[r].seen.fence.on,
           \/ /\ store'.session = store.session
              /\ req'[r].pc \in Dispatching => req[r].pc \in Dispatching
              /\ req'[r].pc = "spawn" => req[r].pc = "spawn"
           \/ /\ mem.child = None /\ ~store'.session.fence.on
              /\ req'[r].pc \notin Dispatching
    PROVE  Recorded'
<1>1. /\ mem.active = r /\ mem'.active = r /\ Others(r) /\ req'[r].pc \in BodySteps
      /\ None \notin Requests
    BY InvTypes DEF BodyStep, Inv, LockInv, SameLock
<1>2. \A q \in Requests \ {r} : req[q].pc # "enter" /\ req[q].pc \notin Dispatching
    <2>1. \A q \in Requests \ {r} : req[q].pc \notin BodySteps
        BY <1>1 DEF Inv, LockInv
    <2> QED BY <1>1, <2>1, PcNames DEF Inv, LockInv, Dispatching
<1>3. req'[r].pc # "enter"
    BY <1>1, PcNames
<1>4. \A q \in Requests : ~req'[q].seen.fence.on
    BY <1>1 DEF Recorded, Others
<1> QED BY <1>1, <1>2, <1>3, <1>4 DEF Recorded, Others, Dispatching

LEMMA RecordBodies ==
    ASSUME Unkeyed, Inv, Ground, NothingClaimed, DrainInv, Recorded, faults = 0,
           NEW r \in Requests,
           \/ Begin(r) \/ RefreshProvider(r) \/ Provision(r) \/ PrepareRuntime(r)
           \/ StartTurnOutput(r) \/ LinkTurn(r) \/ Spawn(r) \/ RecordPid(r)
           \/ ReadExit(r) \/ Finalize(r) \/ RecordThrow(r) \/ HandleStartThrow(r)
    PROVE  Recorded'
<1>1. /\ store \in StoredStates /\ store.session \in Sessions /\ mem \in Memory
      /\ None \notin Requests /\ TypeInv /\ req[r].seen \in Sessions
      /\ req \in [Requests -> RequestStates] /\ mem.keyed = None
    BY InvTypes DEF Inv, NothingClaimed
<1>2. BodyStep(r)
    BY <1>1, DispatchSteps, FinishSteps
<1>3. /\ mem.active = r /\ ~req[r].seen.fence.on /\ ~store.session.fence.on
    BY <1>2 DEF BodyStep, Inv, LockInv, Recorded
<1>4. \A q \in Requests \ {r} : req[q].pc \notin {"enter", "spawn", "pid", "run"}
    <2>1. \A q \in Requests \ {r} : req[q].pc \notin BodySteps
        BY <1>3 DEF Inv, LockInv
    <2> QED BY <1>1, <1>3, <2>1, PcNames DEF Inv, LockInv
<1>5. Mutable(store) /\ req[r].pc \notin {"pid", "run"} => mem.child = None
    BY <1>1, <1>3 DEF DrainInv, Draining, Ground, FenceInv
<1>6. ASSUME NEW pc, Goto(r, pc), pc \notin Dispatching, mem'.child = mem.child,
             store'.session = store.session
      PROVE  Recorded'
    <2>1. req'[r].pc = pc /\ req'[r].seen = req[r].seen
        BY <1>1, <1>6, BodyGoto
    <2> QED BY <1>2, <1>3, <1>6, <2>1, RecordTurn DEF Dispatching
<1>7. \A session : Upsert(store, session).session = session
    BY <1>1 DEF Upsert, StoredStates
<1>8. CASE Begin(r)
    <2>1. store' = store /\ mem' = mem
        BY <1>8 DEF Begin, NoMutation
    <2>2. CASE Goto(r, "epilogue")
        BY <1>6, <2>1, <2>2 DEF Dispatching
    <2>3. CASE \E pc \in {"provision", "runtime", "refresh"} :
                   \/ req' = [req EXCEPT ![r].seen = store.session, ![r].pc = pc]
        <3>1. req'[r].seen = store.session /\ req'[r].pc \notin Dispatching
            BY <1>1, <2>3 DEF RequestStates, Dispatching
        <3> QED BY <2>1, <3>1, <1>2, <1>3, RecordTurn DEF Dispatching
    <2> QED BY <1>8, <2>2, <2>3 DEF Begin
<1>9. CASE RefreshProvider(r)
    <2>1. CASE store' = store
        BY <1>6, <1>9, <2>1 DEF RefreshProvider, Mutate, Dispatching
    <2>2. CASE Written(Mutable(store), Upsert(store, req[r].seen))
        <3>1. /\ req[r].pc = "refresh" /\ mem' = mem
              /\ Goto(r, "runtime") \/ Goto(r, "epilogue")
            BY <1>9 DEF RefreshProvider, Mutate
        <3>2. req'[r].pc \notin Dispatching /\ req'[r].seen = req[r].seen
            BY <1>1, <3>1, BodyGoto DEF Dispatching
        <3>3. store'.session = req[r].seen /\ mem.child = None
            BY <1>5, <1>7, <2>2, <3>1 DEF Written
        <3> QED BY <1>2, <1>3, <3>1, <3>2, <3>3, RecordTurn
    <2> QED BY <1>9, <2>1, <2>2 DEF RefreshProvider, Mutate, Thrown
<1>10. CASE Provision(r)
    <2> DEFINE provisional == [req[r].seen EXCEPT !.state = "running"]
    <2>1. provisional.fence = req[r].seen.fence
        BY <1>1 DEF Sessions
    <2> HIDE DEF provisional
    <2>2. CASE Goto(r, "epilogue") /\ store' = store
        BY <1>6, <1>10, <2>2 DEF Provision, Dispatching
    <2>3. CASE /\ Written(Mutable(store), Upsert(store, provisional))
               /\ \/ Goto(r, "epilogue")
                  \/ req' = [req EXCEPT ![r].pc = "runtime", ![r].seen = provisional]
        <3>1. req'[r].pc \notin Dispatching /\ ~req'[r].seen.fence.on
            <4>1. CASE Goto(r, "epilogue")
                BY <1>1, <1>3, <4>1, BodyGoto DEF Dispatching
            <4>2. CASE req' = [req EXCEPT ![r].pc = "runtime", ![r].seen = provisional]
                BY <1>1, <1>3, <2>1, <4>2 DEF Dispatching, RequestStates
            <4> QED BY <2>3, <4>1, <4>2
        <3>2. store'.session = provisional /\ mem.child = None /\ mem' = mem
            BY <1>5, <1>7, <1>10, <2>3 DEF Written, Provision
        <3> QED BY <1>2, <1>3, <2>1, <3>1, <3>2, RecordTurn
    <2> QED BY <1>10, <2>2, <2>3 DEF Provision, Mutate, Thrown, NoMutation, provisional
<1>11. CASE PrepareRuntime(r)
    <2>1. /\ mem' = mem /\ req[r].pc = "runtime"
          /\ \E pc \in {"link", "outer", "epilogue"} : Goto(r, pc)
        BY <1>11 DEF PrepareRuntime, Mutate
    <2>2. CASE store' = store
        BY <1>6, <2>1, <2>2 DEF Dispatching
    <2>3. CASE Written(Mutable(store), Upsert(store, SessionFailed(store.session)))
        <3>1. store'.session = SessionFailed(store.session) /\ mem.child = None
            BY <1>5, <1>7, <2>1, <2>3 DEF Written
        <3>2. SessionFailed(store.session).fence = store.session.fence
            BY <1>1 DEF SessionFailed, Sessions
        <3>3. req'[r].pc \notin Dispatching /\ req'[r].seen = req[r].seen
            BY <1>1, <2>1, BodyGoto DEF Dispatching
        <3> QED BY <1>2, <1>3, <2>1, <3>1, <3>2, <3>3, RecordTurn
    <2> QED BY <1>11, <2>2, <2>3 DEF PrepareRuntime, Mutate, Thrown, NoMutation
<1>12. CASE StartTurnOutput(r)
    <2>1. store' = store /\ mem'.child = mem.child
        BY <1>1, <1>12 DEF StartTurnOutput, NoMutation, Memory
    <2>2. CASE Goto(r, "failing")
        BY <1>6, <2>1, <2>2 DEF Dispatching
    <2>3. CASE req' = [req EXCEPT ![r].pc = "linkWrite",
                                  ![r].seen = IF Present(store) THEN store.session ELSE @]
        <3>1. req'[r].pc \notin Dispatching /\ req'[r].seen \in {store.session, req[r].seen}
            BY <1>1, <2>3 DEF Dispatching, RequestStates
        <3> QED BY <1>2, <1>3, <2>1, <3>1, RecordTurn DEF Dispatching
    <2> QED BY <1>12, <2>2, <2>3 DEF StartTurnOutput
<1>13. CASE LinkTurn(r)
    <2> DEFINE session == WithRunningTurn(req[r].seen, r, mem.turnId)
    <2>1. /\ session.fence = req[r].seen.fence /\ Shows(session, r) /\ session.turn.pid = None
        BY <1>1 DEF WithRunningTurn, Sessions, Shows
    <2> HIDE DEF session
    <2>2. mem' = mem /\ req[r].pc = "linkWrite"
        BY <1>13 DEF LinkTurn
    <2>3. CASE store' = store /\ Goto(r, "failing")
        BY <1>6, <2>2, <2>3 DEF Dispatching
    <2>4. CASE Written(Mutable(store), Upsert(store, session)) /\ Goto(r, "spawn")
        <3>1. store'.session = session /\ mem.child = None
            BY <1>5, <1>7, <2>2, <2>4 DEF Written
        <3>2. req'[r].pc = "spawn" /\ req'[r].seen = req[r].seen /\ Others(r)
            BY <1>1, <2>4, BodyGoto, GotoMoves
        <3>3. \A q \in Requests \ {r} : req'[q].pc \notin {"enter", "spawn", "pid", "run"}
            BY <1>4, <3>2 DEF Others
        <3> QED BY <1>1, <1>3, <2>1, <2>2, <3>1, <3>2, <3>3 DEF Recorded, Others, Dispatching
    <2> QED BY <1>1, <1>13, <2>3, <2>4 DEF LinkTurn, Mutate, Thrown, session
<1>14. CASE Spawn(r)
    <2>1. store' = store /\ req[r].pc = "spawn" /\ Shows(store.session, r)
        BY <1>14 DEF Spawn, NoMutation, Recorded, Dispatching
    <2>2. CASE mem' = mem /\ Goto(r, "failing")
        BY <1>6, <2>1, <2>2 DEF Dispatching
    <2>3. CASE mem' = [mem EXCEPT !.child = r] /\ Goto(r, "pid")
        <3>1. /\ req'[r].pc = "pid" /\ req'[r].seen = req[r].seen /\ Others(r)
              /\ mem'.child = r /\ mem'.active = r
            BY <1>1, <1>3, <2>3, BodyGoto, GotoMoves DEF Memory
        <3>2. \A q \in Requests \ {r} : req'[q].pc \notin {"enter", "spawn", "pid", "run"}
            BY <1>4, <3>1 DEF Others
        <3> QED BY <1>3, <2>1, <3>1, <3>2 DEF Recorded, Others, Dispatching
    <2> QED BY <1>14, <2>2, <2>3 DEF Spawn
<1>15. CASE RecordPid(r)
    <2> DEFINE recorded == [store.session EXCEPT !.turn.pid = r]
    <2>1. /\ recorded.fence = store.session.fence
          /\ Shows(store.session, r) => Shows(recorded, r)
        BY <1>1 DEF Sessions, Turns, Shows
    <2> HIDE DEF recorded
    <2>2. /\ mem' = mem /\ req[r].pc = "pid" /\ Shows(store.session, r)
          /\ Goto(r, "run") \/ Goto(r, "failing")
        BY <1>15 DEF RecordPid, Mutate, Recorded, Dispatching
    <2>3. /\ req'[r].pc \in {"run", "failing"} /\ req'[r].seen = req[r].seen /\ Others(r)
        BY <1>1, <2>2, BodyGoto, GotoMoves
    <2>4. CASE store'.session = store.session
        BY <1>2, <1>3, <2>2, <2>3, <2>4, RecordTurn DEF Dispatching
    <2>5. CASE Written(Mutable(store), Upsert(store, recorded))
        <3>1. store'.session = recorded /\ mem.child \in {None, r}
            BY <1>1, <1>3, <1>7, <2>5 DEF Written, DrainInv, Draining, Ground, FenceInv
        <3>2. \A q \in Requests \ {r} : req'[q].pc \notin {"enter", "spawn", "pid", "run"}
            BY <1>4, <2>3 DEF Others
        <3> QED BY <1>1, <1>3, <2>1, <2>2, <2>3, <3>1, <3>2 DEF Recorded, Others, Dispatching
    <2> QED BY <1>15, <2>4, <2>5 DEF RecordPid, Mutate, Written, Thrown, recorded
<1>16. CASE ReadExit(r)
    <2>1. store' = store /\ mem' = mem
        BY <1>16 DEF ReadExit, NoMutation
    <2>2. req'[r].pc \in {"final", "failing", "link"} /\ req'[r].seen = req[r].seen
        BY <1>1, <1>16, BodyGoto DEF ReadExit, RequestStates
    <2> QED BY <1>2, <1>3, <2>1, <2>2, RecordTurn DEF Dispatching
<1>17. CASE Finalize(r) \/ RecordThrow(r)
    <2> DEFINE final(result) == FinalSession(store.session, result)
    <2>1. \A result : ~final(result).fence.on
        BY <1>1, <1>3 DEF FinalSession, NoRecoveryFence
    <2>2. /\ req[r].pc \in {"final", "failing"} /\ mem'.child = mem.child
          /\ \E pc \in {"epilogue", "outer"} : Goto(r, pc)
        <3>1. mem' = mem \/ mem' = TurnRecorded
            BY <1>17 DEF Finalize, RecordThrow, PersistFinal, Mutate
        <3>2. mem'.child = mem.child
            BY <1>1, <3>1 DEF TurnRecorded, Memory
        <3> QED BY <1>17, <3>2 DEF Finalize, RecordThrow, PersistFinal, AfterThrow, Mutate
    <2>3. \/ store' = store
          \/ \E result : Written(Mutable(store) /\ Present(store), Upsert(store, final(result)))
        BY <1>1, <1>17 DEF Finalize, RecordThrow, PersistFinal, Mutate, Thrown
    <2>4. req'[r].pc \notin Dispatching /\ req'[r].seen = req[r].seen
        BY <1>1, <2>2, BodyGoto DEF Dispatching
    <2>5. CASE store' = store
        BY <1>2, <1>3, <2>2, <2>4, <2>5, RecordTurn DEF Dispatching
    <2>6. CASE \E result : Written(Mutable(store) /\ Present(store), Upsert(store, final(result)))
        <3>1. ~store'.session.fence.on /\ mem.child = None
            BY <1>5, <1>7, <2>1, <2>2, <2>6 DEF Written
        <3> QED BY <1>2, <1>3, <2>2, <2>4, <3>1, RecordTurn
    <2> QED BY <2>3, <2>5, <2>6
<1>18. CASE HandleStartThrow(r)
    <2> DEFINE base == IF Present(store) THEN store.session ELSE req[r].seen
               failed == [base EXCEPT !.state = "failed"]
    <2>1. ~failed.fence.on
        BY <1>1, <1>3 DEF Sessions
    <2> HIDE DEF failed
    <2>2. mem' = mem /\ req[r].pc = "outer" /\ Goto(r, "epilogue")
        BY <1>18 DEF HandleStartThrow, Mutate
    <2>3. req'[r].pc = "epilogue" /\ req'[r].seen = req[r].seen
        BY <1>1, <2>2, BodyGoto
    <2>4. CASE store' = store
        BY <1>2, <1>3, <2>2, <2>3, <2>4, RecordTurn DEF Dispatching
    <2>5. CASE Mutable(store) /\ store' = Upsert(store, failed)
        <3>1. store'.session = failed /\ mem.child = None
            BY <1>5, <1>7, <2>2, <2>5
        <3> QED BY <1>2, <1>3, <2>1, <2>2, <2>3, <3>1, RecordTurn DEF Dispatching
    <2> QED BY <1>18, <2>4, <2>5 DEF HandleStartThrow, Mutate, Written, Thrown, NoMutation, failed
<1> QED BY <1>8, <1>9, <1>10, <1>11, <1>12, <1>13, <1>14, <1>15, <1>16, <1>17, <1>18

LEMMA RecordTurns ==
    ASSUME Unkeyed, Inv, Ground, NothingClaimed, DrainInv, Recorded, faults = 0,
           NEW r \in Requests,
           Admission(r) \/ TurnStep(r) \/ Exit(r) \/ \E e \in 0..MaxEpoch : Call(r, e)
    PROVE  Recorded'
<1>1. /\ store \in StoredStates /\ store.session \in Sessions /\ mem \in Memory
      /\ None \notin Requests /\ TypeInv /\ req \in [Requests -> RequestStates]
      /\ \A q \in Requests : ~req[q].seen.fence.on
      /\ ~NoSession.fence.on
    BY InvTypes DEF Inv, Recorded, NoSession, NoRecoveryFence
<1>2. ASSUME Others(r), ~req'[r].seen.fence.on, req'[r].pc \notin Dispatching,
             req'[r].pc = "enter" => ~store.session.fence.on,
             mem'.active \in {mem.active, None}, mem'.child \in {mem.child, None},
             store'.session = store.session
      PROVE  Recorded'
    BY <1>1, <1>2, RecordStays DEF Others, Dispatching
<1>3. ASSUME NEW answer, Answer(r, answer)
      PROVE  Others(r) /\ req'[r].pc = "done" /\ ~req'[r].seen.fence.on
    <2>1. req'[r].seen = NoSession
        BY <1>1, <1>3 DEF Answer, RequestStates
    <2> QED BY <1>1, <1>3, <2>1, AnswerMoves
<1>4. ASSUME NEW pc, Goto(r, pc)
      PROVE  Others(r) /\ req'[r].pc = pc /\ ~req'[r].seen.fence.on
    BY <1>1, <1>4, BodyGoto, GotoMoves
<1>5. CASE AdmitAnswered(r) \/ Wake(r) \/ \E e \in 0..MaxEpoch : Call(r, e)
    <2>1. store' = store /\ mem' = mem
        BY <1>5 DEF AdmitAnswered, Wake, Call, NoMutation
    <2>2. CASE \E answer : Answer(r, answer)
        BY <1>2, <1>3, <2>1, <2>2 DEF Dispatching
    <2>3. CASE \/ req' = [req EXCEPT ![r].pc = "waiting", ![r].inFlight = mem.keyed]
               \/ \E e : req' = [req EXCEPT ![r] = [@ EXCEPT !.pc = "queued", !.epoch = e,
                                                          !.generation = store.generation]]
        <3>1. ASSUME req' = [req EXCEPT ![r].pc = "waiting", ![r].inFlight = mem.keyed]
              PROVE  Others(r) /\ req'[r].pc = "waiting" /\ req'[r].seen = req[r].seen
            BY <1>1, <3>1 DEF Others, RequestStates
        <3>2. ASSUME NEW e, req' = [req EXCEPT ![r] = [@ EXCEPT !.pc = "queued", !.epoch = e,
                                                          !.generation = store.generation]]
              PROVE  Others(r) /\ req'[r].pc = "queued" /\ req'[r].seen = req[r].seen
            BY <1>1, <3>2 DEF Others, RequestStates
        <3> QED BY <1>1, <1>2, <2>1, <2>3, <3>1, <3>2 DEF Dispatching
    <2> QED BY <1>5, <2>2, <2>3 DEF AdmitAnswered, Wake, Call
<1>6. CASE Admit(r)
    <2>1. /\ store' = store /\ mem'.active = mem.active /\ mem'.child = mem.child
          /\ Goto(r, IF store.session.fence.on THEN "fence" ELSE "enter")
        BY <1>1, <1>6 DEF Admit, Lock, NoMutation, Memory
    <2> QED BY <1>2, <1>4, <2>1 DEF Dispatching
<1>7. ASSUME req[r].pc \in {"fence", "enter"}
      PROVE  /\ mem.active = None /\ mem.child = None
             /\ \A q \in Requests \ {r} : req[q].pc \notin {"enter", "spawn", "pid", "run"}
    <2>1. mem.lock = "turn" /\ mem.active = None
        BY <1>7, PcNames DEF Inv, LockInv
    <2>2. \A q \in Requests \ {r} : req[q].pc \notin {"enter", "spawn", "pid", "run"}
        BY <1>1, <1>7, <2>1, PcNames DEF Inv, LockInv
    <2>3. ~Draining
        BY <2>1 DEF Inv, LockInv, Draining
    <2> QED BY <1>1, <2>1, <2>2, <2>3 DEF DrainInv
<1>8. CASE ReleaseRecoveryFence(r)
    <2>1. req[r].pc = "fence"
        BY <1>8 DEF ReleaseRecoveryFence
    <2>2. CASE /\ Written(DefinitelyGone(store.session.fence) /\ Mutable(store),
                          Upsert(store, FenceReleased(store.session)))
               /\ Goto(r, "enter") /\ UNCHANGED mem
        <3>1. ~store'.session.fence.on
            BY <1>1, <2>2 DEF Written, Upsert, FenceReleased, NoRecoveryFence, StoredStates, Sessions
        <3>2. Others(r) /\ req'[r].pc = "enter" /\ ~req'[r].seen.fence.on
            BY <1>4, <2>2
        <3> QED BY <1>1, <1>7, <2>1, <2>2, <3>1, <3>2, RecordRests DEF Others, Dispatching
    <2>3. CASE store' = store /\ Answer(r, "refused") /\ mem' = Unlocked
        <3>1. mem'.active = mem.active /\ mem'.child = mem.child
            BY <1>1, <2>3 DEF Unlocked, Memory
        <3> QED BY <1>2, <1>3, <2>3, <3>1 DEF Dispatching
    <2> QED BY <1>8, <2>2, <2>3 DEF ReleaseRecoveryFence, Mutate, Thrown
<1>9. CASE EnterTurn(r)
    <2>1. req[r].pc = "enter" /\ ~store.session.fence.on
        BY <1>9 DEF EnterTurn, Recorded
    <2>2. store'.session = store.session
        BY <1>1, <1>9 DEF EnterTurn, Mutate, Written, Thrown, Enter, StoredStates
    <2>3. CASE Answer(r, "refused") /\ mem' = Unlocked
        <3>1. mem'.active = mem.active /\ mem'.child = mem.child
            BY <1>1, <2>3 DEF Unlocked, Memory
        <3> QED BY <1>2, <1>3, <2>2, <2>3, <3>1 DEF Dispatching
    <2>4. CASE /\ Goto(r, "body")
               /\ mem' = [mem EXCEPT !.active = r, !.stop = FALSE, !.lock = "free"]
        <3>1. mem'.active = r /\ mem'.child = None
            BY <1>1, <1>7, <2>1, <2>4 DEF Memory
        <3>2. Others(r) /\ req'[r].pc = "body" /\ ~req'[r].seen.fence.on
            BY <1>4, <2>4
        <3> QED BY <1>1, <1>7, <2>1, <2>2, <3>1, <3>2 DEF Recorded, Others, Dispatching
    <2> QED BY <1>9, <2>3, <2>4 DEF EnterTurn, Mutate, Unkeyed
<1>10. CASE ClaimKey(r)
    BY <1>10 DEF ClaimKey, Inv, TypeInv, KeysHeld, Unkeyed
<1>11. CASE ReleaseTurn(r)
    <2>1. /\ store' = store /\ mem' = [mem EXCEPT !.active = None, !.keyed = None]
          /\ \E answer : Answer(r, answer)
        BY <1>11 DEF ReleaseTurn, ReceiptState, Unkeyed, NoMutation
    <2>2. mem'.active = None /\ mem'.child = mem.child
        BY <1>1, <2>1 DEF Memory
    <2> QED BY <1>2, <1>3, <2>1, <2>2 DEF Dispatching
<1>12. CASE Exit(r)
    <2>1. store' = store /\ req' = req /\ mem'.active = mem.active /\ mem'.child \in {mem.child, None}
        BY <1>1, <1>12 DEF Exit, NoMutation, Memory
    <2> QED BY <1>1, <2>1, RecordStays
<1> QED BY <1>5, <1>6, <1>8, <1>9, <1>10, <1>11, <1>12, RecordBodies DEF Admission, TurnStep

\* No verb is about to write back a session it read.
NoFocus == op.pc # "focusWrite"

LEMMA FocusStays ==
    ASSUME Plain, Inv, Ground, NoFocus, [Next]_vars
    PROVE  NoFocus'
<1>1. op \in Operations
    BY InvTypes DEF Inv
<1>2. NoOp.pc # "focusWrite"
    BY DEF NoOp
<1>3. ASSUME op' = op \/ op' = NoOp PROVE NoFocus'
    BY <1>2, <1>3 DEF NoFocus
<1>4. CASE UNCHANGED vars \/ Crash \/ Restart
    BY <1>3, <1>4 DEF vars, Crash, Restart
<1>5. ASSUME OpBegin PROVE NoFocus'
    <2>1. op' = op \/ op'.pc \in {"fence", "drain", "stopWrite"}
        BY <1>5 DEF OpBegin, StopBegin, QuiesceBegin, PurgeAgain, PurgeUnknown, PurgeBegin,
           BeginClosing, Mutate, GcList, GcVisit, ReleaseFence, Resume, Suspend, FocusRead,
           OtherNameQuiesces, NoOp, Plain
    <2> QED BY <1>3, <2>1 DEF NoFocus
<1>6. ASSUME NEW pc \in OpSteps \ {"focusWrite"}, OpGoto(pc) PROVE NoFocus'
    BY <1>1, <1>6 DEF OpGoto, Operations, NoFocus
<1>7. CASE StopResolveFence \/ DrainTimesOut \/ StopWrite
    <2>1. op' = NoOp \/ OpGoto("drain") \/ OpGoto("stopWrite")
        BY <1>7 DEF StopResolveFence, DrainTimesOut, StopWrite, Mutate, StopSucceeds, StopFails, OpEnds
    <2> QED BY <1>3, <1>6, <2>1 DEF OpSteps
<1>8. CASE StopDrained
    <2>1. \/ OpGoto("stopWrite")
          \/ op' = [op EXCEPT !.seen = store.session, !.had = FALSE,
                              !.pc = IF store.session.fence.on THEN "fence" ELSE "stopWrite"]
        BY <1>8 DEF StopDrained
    <2>2. ASSUME op' = [op EXCEPT !.seen = store.session, !.had = FALSE,
                                  !.pc = IF store.session.fence.on THEN "fence" ELSE "stopWrite"]
          PROVE  NoFocus'
        BY <1>1, <2>2 DEF Operations, NoFocus
    <2> QED BY <1>6, <2>1, <2>2 DEF OpSteps
<1>9. CASE CloseDrained
    <2>1. \/ OpGoto("prove") \/ OpGoto("remove") \/ op' = NoOp
          \/ op' = [op EXCEPT !.pc = "prove", !.seen = store.session, !.had = TRUE]
        BY <1>9 DEF CloseDrained, OpEnds
    <2>2. ASSUME op' = [op EXCEPT !.pc = "prove", !.seen = store.session, !.had = TRUE]
          PROVE  NoFocus'
        BY <1>1, <2>2 DEF Operations, NoFocus
    <2> QED BY <1>3, <1>6, <2>1, <2>2 DEF OpSteps
<1>10. CASE ProveClosed \/ RecordClosed \/ PurgeRemove \/ PurgeUnfence
    <2>1. op' = NoOp \/ OpGoto("record") \/ OpGoto("remove") \/ OpGoto("unfence")
        BY <1>10 DEF ProveClosed, RecordClosed, PurgeRemove, PurgeUnfence, Mutate, OpEnds
    <2> QED BY <1>3, <1>6, <2>1 DEF OpSteps
<1>11. CASE FocusWrite
    BY <1>3, <1>11 DEF FocusWrite, OpEnds
<1> QED BY <1>3, <1>4, <1>5, <1>7, <1>8, <1>9, <1>10, <1>11, TurnsLeaveVerb DEF Next, OpStep

\* The verbs that write the session do so with no turn or process at work.
LEMMA VerbWrites ==
    ASSUME Plain, NoFocus, Inv, OpBegin \/ OpStep
    PROVE  \/ store'.session = store.session
           \/ /\ StopWrite \/ RecordClosed \/ PurgeRemove
              /\ op.pc \in {"stopWrite", "record", "remove"}
           \/ Resume
<1>1. store \in StoredStates
    BY InvTypes DEF Inv
<1>2. ~FocusWrite /\ ~Suspend
    BY DEF FocusWrite, Suspend, NoFocus, Plain
<1>3. CASE StopWrite \/ RecordClosed \/ PurgeRemove
    BY <1>3 DEF StopWrite, RecordClosed, PurgeRemove
<1>4. CASE \/ StopBegin \/ GcList \/ GcVisit \/ FocusRead \/ StopResolveFence \/ DrainTimesOut
           \/ StopDrained \/ CloseDrained \/ ProveClosed
           \/ \E verb \in {"purge", "gc"} : PurgeUnknown(verb)
    BY <1>4 DEF StopBegin, GcList, GcVisit, FocusRead, StopResolveFence, DrainTimesOut, StopDrained,
       CloseDrained, ProveClosed, PurgeUnknown, NoMutation
<1>5. ASSUME NEW purpose, store' \in {store, Reserve(store, purpose), Release(store)}
      PROVE  store'.session = store.session
    BY <1>1, <1>5 DEF Reserve, Release, StoredStates
<1>6. CASE \/ QuiesceBegin \/ PurgeUnfence \/ (\E e \in 1..MaxEpoch : ReleaseFence(e))
           \/ \E verb \in {"purge", "gc"} : PurgeAgain(verb) \/ PurgeBegin(verb)
    BY <1>5, <1>6 DEF QuiesceBegin, PurgeUnfence, ReleaseFence, PurgeAgain, PurgeBegin, Mutate,
       Written, Thrown
<1>7. CASE OtherNameQuiesces
    BY <1>1, <1>7 DEF OtherNameQuiesces, AllocateElsewhere, StoredStates
<1> QED BY <1>2, <1>3, <1>4, <1>6, <1>7 DEF OpBegin, OpStep

\* Where nothing is at work under the verb's lock, or under a free one.
LEMMA NothingAtWork ==
    ASSUME Inv, Ground, DrainInv, faults = 0,
           op.pc \in {"stopWrite", "prove", "record", "remove"} \/ (Free /\ ~Tracked)
    PROVE  /\ mem.active = None /\ mem.child = None
           /\ \A q \in Requests : req[q].pc \notin {"enter"} \cup Dispatching
<1>1. None \notin Requests
    BY InvTypes DEF Inv
<1>2. mem.lock # "turn" /\ mem.active = None
    BY DEF Inv, LockInv, Ground, VerbInv, Free, Tracked
<1>3. mem.child = None
    BY <1>1, <1>2 DEF DrainInv, Draining, Tracked
<1>4. \A q \in Requests : req[q].pc \notin AdmissionSteps \cup BodySteps
    BY <1>1, <1>2 DEF Inv, LockInv
<1> QED BY <1>2, <1>3, <1>4, PcNames DEF Dispatching

LEMMA RecordVerbs ==
    ASSUME Plain, NoFocus, Inv, Ground, DrainInv, Recorded, faults = 0, OpBegin \/ OpStep
    PROVE  Recorded'
<1>1. /\ mem \in Memory /\ None \notin Requests /\ \A q \in Requests : ~req[q].seen.fence.on
    BY InvTypes DEF Inv, Recorded
<1>2. /\ req' = req /\ mem'.active = mem.active /\ mem'.child \in {mem.child, None}
    BY <1>1, VerbMaps
<1>3. CASE store'.session = store.session
    BY <1>1, <1>2, <1>3, RecordStays
<1>4. CASE op.pc \in {"stopWrite", "record", "remove"} \/ Resume
    <2>1. Resume => Free /\ ~Tracked
        BY DEF Resume
    <2>2. /\ mem.active = None /\ mem.child = None
          /\ \A q \in Requests : req[q].pc \notin {"enter"} \cup Dispatching
        BY <1>4, <2>1, NothingAtWork
    <2> QED BY <1>1, <1>2, <2>2, RecordRests
<1> QED BY <1>3, <1>4, VerbWrites

LEMMA RecordNext ==
    ASSUME Plain, NoFocus, Inv, Ground, NothingClaimed, DrainInv, Recorded, faults = 0, [Next]_vars
    PROVE  Recorded'
<1>1. None \notin Requests /\ mem \in Memory
    BY InvTypes DEF Inv
<1>2. CASE UNCHANGED vars
    BY <1>2 DEF vars, Recorded
<1>3. CASE Crash
    <2>1. \A q \in Requests : req'[q].seen = NoSession \/ req'[q] = req[q]
        BY <1>3 DEF Crash, NoRequest
    <2>2. \A q \in Requests : req'[q].pc \in {"new", "done", "lost"}
        BY <1>3 DEF Crash, NoRequest
    <2>3. ~NoSession.fence.on
        BY DEF NoSession, NoRecoveryFence
    <2>4. \A q \in Requests : ~req'[q].seen.fence.on
        BY <2>1, <2>3 DEF Recorded
    <2>5. mem'.active = None /\ mem'.child = None
        BY <1>3 DEF Crash, NoMemory
    <2> QED BY <1>1, <2>2, <2>4, <2>5, RecordRests DEF Dispatching
<1>4. CASE Restart
    <2>1. mem' = NoMemory /\ req' = req /\ \A q \in Requests : req[q].pc \notin AdmissionSteps \cup BodySteps
        BY <1>4 DEF Restart, Ground, DownInv
    <2>2. \A q \in Requests : req'[q].pc \notin {"enter"} \cup Dispatching
        BY <2>1, PcNames DEF Dispatching
    <2> QED BY <1>1, <2>1, <2>2, RecordRests DEF Recorded, NoMemory
<1>5. Unkeyed
    BY DEF Plain
<1> QED BY <1>2, <1>3, <1>4, <1>5, RecordTurns, RecordVerbs DEF Next

PlainInv == NoFocus /\ NothingClaimed /\ (faults = 0 => Recorded)

\* The record of a session shows the process of the unkeyed turn at work on it,
\* as long as no write fails.
THEOREM RecordCorrect ==
    ASSUME KillsWork, Plain
    PROVE  Spec => []PlainInv
<1>1. Init => NoFocus /\ Recorded
    BY NoneAssumption DEF Init, NoFocus, Recorded, NoOp, NoMemory, NoRequest, NoSession, NoRecoveryFence,
       Requests, Dispatching
<1>2. Inv /\ Quiet /\ DrainInv /\ NothingClaimed /\ NoFocus /\ (faults = 0 => Recorded) /\ [Next]_vars
      => NoFocus' /\ (faults = 0 => Recorded)'
    <2> SUFFICES ASSUME Inv, Quiet, DrainInv, NothingClaimed, NoFocus, faults = 0 => Recorded,
                        [Next]_vars
                 PROVE  NoFocus' /\ (faults' = 0 => Recorded')
        OBVIOUS
    <2>1. faults' = 0 => faults = 0
        BY FaultsStay DEF Inv
    <2> QED BY <2>1, FocusStays, RecordNext DEF Quiet
<1>3. Spec => []NothingClaimed
    BY UnkeyedCorrect DEF Plain
<1> QED BY <1>1, <1>2, <1>3, InvCorrect, QuietCorrect, DrainCorrect, PTL DEF Spec, PlainInv

\* What keeps a survivor alone: the record shows it, a daemon that is up fences it
\* with no other pid, no turn is in or about to be, and a verb that found it neither
\* proves it gone nor reports it closed.
Cornered(r) ==
    /\ Shows(store.session, r)
    /\ up => store.session.fence.on
    /\ store.session.fence.on => store.session.fence.pid \in {None, r}
    /\ mem.active = None /\ mem.child = None
    /\ \A q \in Requests : req[q].pc # "enter" /\ (proc[q] = "alive" => q = r)
    /\ op.pc \in {"none", "fence", "drain", "prove"}
    /\ op.pc = "fence" => op.seen = store.session
    /\ op.pc \in {"drain", "prove"} => op.verb \in Closing /\ op.seen.state = "running" /\ ~op.had
    /\ ~Closed

SurvivorInv == \A r \in Requests : Survives(r) => Cornered(r)

\* Nobody gets past the fence of a process that is alive.
LEMMA CorneredTurns ==
    ASSUME Unkeyed, Inv, NEW r \in Requests, proc[r] = "alive", proc'[r] = "alive", up, Cornered(r),
           NEW q \in Requests,
           Admission(q) \/ TurnStep(q) \/ Exit(q) \/ \E e \in 0..MaxEpoch : Call(q, e)
    PROVE  Cornered(r)'
<1>1. /\ None \notin Requests /\ mem \in Memory /\ req \in [Requests -> RequestStates]
      /\ proc \in [Requests -> {"none", "alive", "dead"}] /\ TypeInv
    BY InvTypes DEF Inv
<1>2. req[q].pc \notin {"enter", "claim"} \cup BodySteps
    BY <1>1 DEF Cornered, Inv, LockInv
<1>3. ~Exit(q)
    BY <1>1 DEF Exit, Cornered
<1>4. ASSUME UNCHANGED <<store, proc, up, op, report>>, Others(q), req'[q].pc # "enter",
             mem'.active = mem.active, mem'.child = mem.child
      PROVE  Cornered(r)'
    BY <1>4 DEF Cornered, Others, Closed
<1>5. ASSUME NEW answer, Answer(q, answer) PROVE Others(q) /\ req'[q].pc # "enter"
    BY <1>1, <1>5, AnswerMoves
<1>6. CASE AdmitAnswered(q) \/ Wake(q) \/ \E e \in 0..MaxEpoch : Call(q, e)
    <2>1. UNCHANGED <<store, proc, up, op, report, mem>>
        BY <1>6 DEF AdmitAnswered, Wake, Call, NoMutation
    <2>2. CASE \E answer : Answer(q, answer)
        BY <1>4, <1>5, <2>1, <2>2
    <2>3. ASSUME req' = [req EXCEPT ![q].pc = "waiting", ![q].inFlight = mem.keyed]
          PROVE  Others(q) /\ req'[q].pc # "enter"
        BY <1>1, <2>3 DEF Others, RequestStates
    <2>4. ASSUME NEW e, req' = [req EXCEPT ![q] = [@ EXCEPT !.pc = "queued", !.epoch = e,
                                                        !.generation = store.generation]]
          PROVE  Others(q) /\ req'[q].pc # "enter"
        BY <1>1, <2>4 DEF Others, RequestStates
    <2> QED BY <1>4, <1>6, <2>1, <2>2, <2>3, <2>4 DEF AdmitAnswered, Wake, Call
<1>7. CASE Admit(q)
    <2>1. /\ UNCHANGED <<store, proc, up, op, report>> /\ Goto(q, "fence")
          /\ mem'.active = mem.active /\ mem'.child = mem.child
        BY <1>1, <1>7 DEF Admit, Lock, NoMutation, Cornered, Memory
    <2>2. Others(q) /\ req'[q].pc # "enter"
        BY <1>1, <2>1, GotoMoves
    <2> QED BY <1>4, <2>1, <2>2
<1>8. CASE ReleaseRecoveryFence(q)
    <2>1. ~DefinitelyGone(store.session.fence)
        BY <1>1 DEF DefinitelyGone, Cornered
    <2>2. Answer(q, "refused") /\ mem' = Unlocked /\ UNCHANGED <<store, proc, up, op, report>>
        BY <1>8, <2>1 DEF ReleaseRecoveryFence, Mutate, Written, Thrown
    <2>3. mem'.active = mem.active /\ mem'.child = mem.child
        BY <1>1, <2>2 DEF Unlocked, Memory
    <2> QED BY <1>4, <1>5, <2>2, <2>3
<1>9. CASE \/ EnterTurn(q) \/ ClaimKey(q) \/ ReleaseTurn(q)
           \/ Begin(q) \/ RefreshProvider(q) \/ Provision(q) \/ PrepareRuntime(q)
           \/ StartTurnOutput(q) \/ LinkTurn(q) \/ Spawn(q) \/ RecordPid(q)
           \/ ReadExit(q) \/ Finalize(q) \/ RecordThrow(q) \/ HandleStartThrow(q)
    <2>1. CASE EnterTurn(q) \/ ClaimKey(q) \/ ReleaseTurn(q)
        BY <1>2, <2>1, PcNames DEF EnterTurn, ClaimKey, ReleaseTurn
    <2>2. CASE ~(EnterTurn(q) \/ ClaimKey(q) \/ ReleaseTurn(q))
        BY <1>1, <1>2, <1>9, <2>2, DispatchSteps, FinishSteps DEF BodyStep
    <2> QED BY <2>1, <2>2
<1> QED BY <1>3, <1>6, <1>7, <1>8, <1>9 DEF Admission, TurnStep

\* No verb proves it gone, and none reports the session closed.
LEMMA CorneredVerbs ==
    ASSUME Plain, NoFocus, Inv, Ground, NothingClaimed, OpBegin \/ OpStep,
           NEW r \in Requests, proc[r] = "alive", up, Cornered(r)
    PROVE  Cornered(r)'
<1>1. /\ None \notin Requests /\ mem \in Memory /\ op \in Operations /\ store.session \in Sessions
      /\ report \in Reports
    BY InvTypes DEF Inv, TypeInv, TypeOK
<1>2. op.pc \notin {"stopWrite", "record", "remove", "unfence"} /\ ~Tracked /\ ~NoLiveProcess
    BY DEF Cornered, Tracked, NoLiveProcess
<1>3. store'.session = store.session /\ ~Resume
    BY <1>2, VerbWrites DEF Resume, Cornered, Shows
<1>4. ~PurgeRemove
    BY <1>2 DEF PurgeRemove
<1>5. /\ UNCHANGED <<req, proc>> /\ mem'.active = mem.active /\ mem'.child = mem.child
    BY <1>1, <1>4, VerbMaps
<1>6. up' = up
    BY <1>2, <1>4 DEF OpBegin, OpStep, StopBegin, QuiesceBegin, PurgeAgain, PurgeUnknown, PurgeBegin,
       GcList, GcVisit, ReleaseFence, Resume, Suspend, FocusRead, OtherNameQuiesces,
       StopResolveFence, DrainTimesOut, StopDrained, StopWrite, CloseDrained, ProveClosed,
       RecordClosed, PurgeUnfence, FocusWrite
<1>7. ASSUME Closed' => Closed,
             \/ op' = op
             \/ op'.pc = "none"
             \/ op'.pc = "fence" /\ op'.seen = store.session
             \/ /\ op'.pc \in {"drain", "prove"} /\ op'.verb \in Closing
                /\ op'.seen.state = "running" /\ ~op'.had
      PROVE  Cornered(r)'
    BY <1>3, <1>5, <1>6, <1>7 DEF Cornered
<1>8. Present(store) /\ store.session.fence.on /\ store.session.state = "running" /\ ~Running(store)
    BY DEF Cornered, Shows, Present, NothingClaimed
<1>9. ASSUME op' = NoOp, report' = report PROVE Cornered(r)'
    BY <1>7, <1>9 DEF NoOp, Closed
<1>10. CASE StopBegin
    BY <1>7, <1>8, <1>10 DEF StopBegin, NoOp, Closed
<1>11. ASSUME NEW verb \in Closing, NEW tracked, ~tracked, NEW next, BeginClosing(verb, tracked, next)
       PROVE  Cornered(r)'
    <2>1. ~Closed'
        BY <1>1, <1>11, ReportRead DEF BeginClosing, Closed
    <2> QED BY <1>7, <1>8, <1>11, <2>1 DEF BeginClosing, NoOp
<1>12. CASE QuiesceBegin
    <2>1. \/ BeginClosing("quiesce", Tracked, Reserve(store, "external"))
          \/ UNCHANGED <<op, mem, report>>
        BY <1>8, <1>12 DEF QuiesceBegin, Mutate
    <2> QED BY <1>2, <1>7, <1>11, <2>1 DEF Closing, Closed
<1>13. ASSUME NEW verb \in {"purge", "gc"}, PurgeAgain(verb) \/ PurgeUnknown(verb) \/ PurgeBegin(verb)
       PROVE  Cornered(r)'
    <2>1. \/ BeginClosing(verb, Tracked \/ Running(store), Reserve(store, "purge"))
          \/ UNCHANGED <<op, report>>
        BY <1>8, <1>13 DEF PurgeAgain, PurgeUnknown, PurgeBegin, Mutate
    <2> QED BY <1>2, <1>7, <1>8, <1>11, <2>1 DEF Closing, Closed
<1>14. CASE \/ GcList \/ GcVisit \/ (\E e \in 1..MaxEpoch : ReleaseFence(e)) \/ OtherNameQuiesces
    BY <1>7, <1>14 DEF GcList, GcVisit, ReleaseFence, OtherNameQuiesces, Closed
<1>15. ~Suspend /\ ~FocusRead /\ ~FocusWrite
    BY DEF Suspend, FocusRead, FocusWrite, Plain, NoFocus
<1>16. CASE StopResolveFence
    <2>1. ~DefinitelyGone(op.seen.fence)
        BY <1>1, <1>16 DEF StopResolveFence, DefinitelyGone, Cornered
    <2>2. op' = NoOp /\ report' = report
        BY <1>2, <1>16, <2>1 DEF StopResolveFence, OpEnds
    <2> QED BY <1>9, <2>2
<1>17. CASE DrainTimesOut
    BY <1>9, <1>17 DEF DrainTimesOut, OpEnds
<1>18. ~StopDrained
    BY DEF StopDrained, Cornered, Closing
<1>19. CASE CloseDrained
    <2>1. /\ op.pc = "drain" /\ op.verb \in Closing /\ op.seen.state = "running" /\ ~op.had
          /\ OpGoto("prove") /\ report' = report
        BY <1>19 DEF CloseDrained, Cornered
    <2>2. op'.pc = "prove" /\ op'.verb = op.verb /\ op'.seen = op.seen /\ op'.had = op.had
        BY <1>1, <2>1 DEF OpGoto, Operations
    <2> QED BY <1>7, <2>1, <2>2 DEF Closed
<1>20. CASE ProveClosed
    <2>1. op.seen.state = "running" /\ ~op.had
        BY <1>20 DEF ProveClosed, Cornered
    <2>2. op' = NoOp /\ report' = report
        BY <1>2, <1>20, <2>1 DEF ProveClosed, OpEnds
    <2> QED BY <1>9, <2>2
<1>21. ~StopWrite /\ ~RecordClosed /\ ~PurgeUnfence
    BY <1>2 DEF StopWrite, RecordClosed, PurgeUnfence
<1> QED BY <1>3, <1>4, <1>10, <1>12, <1>13, <1>14, <1>15, <1>16, <1>17, <1>18, <1>19, <1>20, <1>21
        DEF OpBegin, OpStep

\* The next daemon fences the process that the record shows.
LEMMA CorneredRestart ==
    ASSUME Inv, Ground, NothingClaimed, faults' = 0, Restart,
           NEW r \in Requests, proc[r] = "alive", Cornered(r)
    PROVE  Cornered(r)'
<1>1. /\ store \in StoredStates /\ Valid(store) /\ store.session \in Sessions /\ None \notin Requests
      /\ faults = 0
    BY InvTypes, FaultsStay DEF Inv, Ground, FenceInv, Next
<1> DEFINE fenced == FencedSession(store.session)
<1>2. /\ fenced.state = store.session.state /\ fenced.turn = store.session.turn
      /\ fenced.fence.on /\ fenced.fence.pid \in {None, r}
    BY <1>1 DEF FencedSession, Sessions, Cornered, Shows, RecoveryFences
<1> HIDE DEF fenced
<1>3. Reconciled(store) = Upsert(store, fenced)
    <2>1. ~Running(store) /\ Present(store) /\ NeedsReconciling(store.session)
        BY DEF NothingClaimed, Cornered, Shows, Present, NeedsReconciling
    <2>2. ~Orphaned(store.session)
        BY <1>1 DEF Orphaned, Cornered, Shows
    <2> QED BY <2>1, <2>2 DEF Reconciled, Interrupted, fenced
<1>4. Valid(Upsert(store, fenced))
    BY <1>1, <1>2, PatchValid
<1>5. store' = Upsert(store, fenced) /\ up' = TRUE
    <2>1. ~Interrupted(store)
        BY DEF Interrupted, NothingClaimed
    <2> QED BY <1>1, <1>3, <1>4 DEF Restart, Mutate, Written, Thrown, NoMutation
<1>6. store'.session = fenced
    BY <1>1, <1>5 DEF Upsert, StoredStates
<1>7. ~up /\ op = NoOp /\ UNCHANGED <<proc, mem, req, op, report>>
    BY DEF Restart, Ground, DownInv
<1>8. Shows(fenced, r) /\ op.pc = "none"
    BY <1>2, <1>7 DEF Cornered, Shows, NoOp
<1> QED BY <1>2, <1>6, <1>7, <1>8 DEF Cornered, Closed

\* A crash cuts off one process at most, and the record shows it.
LEMMA CorneredCrash ==
    ASSUME Inv, Quiet, DrainInv, Recorded, SurvivorInv, faults = 0, Crash,
           NEW r \in Requests, proc[r] = "alive"
    PROVE  Cornered(r)'
<1>1. None \notin Requests
    BY InvTypes DEF Inv
<1>2. /\ UNCHANGED <<store, proc, report>> /\ mem' = NoMemory /\ op' = NoOp /\ ~up'
      /\ \A q \in Requests : req'[q].pc # "enter"
    BY DEF Crash, NoMutation, NoRequest
<1>3. /\ Shows(store.session, r)
      /\ store.session.fence.on => store.session.fence.pid \in {None, r}
      /\ \A q \in Requests : proc[q] = "alive" => q = r
      /\ ~Closed
    <2>1. CASE Survives(r)
        BY <2>1 DEF SurvivorInv, Cornered
    <2>2. CASE ~Survives(r)
        <3>1. mem.child = r
            BY <2>2 DEF Survives
        <3>2. \A q \in Requests : proc[q] = "alive" => q = r
            BY <1>1, <3>1 DEF SurvivorInv, Survives, Cornered
        <3>3. ~Closed
            <4>1. Draining \/ mem.active = r
                BY <1>1, <3>1 DEF DrainInv
            <4> QED BY <1>1, <4>1 DEF Quiet, QuietInv, Draining, Inv, TypeInv, TypeOK
        <3> QED BY <3>1, <3>2, <3>3 DEF Recorded
    <2> QED BY <2>1, <2>2
<1>4. mem'.active = None /\ mem'.child = None /\ op'.pc = "none"
    BY <1>2 DEF NoMemory, NoOp
<1> QED BY <1>2, <1>3, <1>4 DEF Cornered, Closed

LEMMA SurvivorNext ==
    ASSUME KillsWork, Plain, Inv, Quiet, DrainInv, PlainInv, faults = 0 => SurvivorInv, [Next]_vars,
           faults' = 0
    PROVE  SurvivorInv'
<1> SUFFICES ASSUME NEW r \in Requests, Survives(r)' PROVE Cornered(r)'
    BY DEF SurvivorInv
<1>1. faults = 0 /\ Recorded /\ SurvivorInv /\ NoFocus /\ NothingClaimed /\ Unkeyed
    BY FaultsStay DEF Inv, PlainInv, Plain
<1>2. CASE Crash
    BY <1>1, <1>2, CorneredCrash DEF Crash, Survives
<1>3. CASE ~Crash
    <2>1. Survives(r) /\ Cornered(r) /\ proc[r] = "alive" /\ proc'[r] = "alive"
        BY <1>1, <1>3, SurvivorsLeft DEF SurvivorInv, Survives
    <2>2. CASE UNCHANGED vars
        BY <2>1, <2>2 DEF vars, Cornered, Closed
    <2>3. CASE Restart
        BY <1>1, <2>1, <2>3, CorneredRestart DEF Quiet
    <2>4. CASE ~Restart /\ ~(UNCHANGED vars)
        <3>1. \A q \in Requests : ~Exit(q)
            <4>1. proc \in [Requests -> {"none", "alive", "dead"}]
                BY InvTypes DEF Inv
            <4> QED BY <2>1, <4>1 DEF Exit, Cornered
        <3>2. up
            BY <1>3, <2>4, <3>1, UpStays DEF Next
        <3> QED BY <1>1, <1>3, <2>1, <2>4, <3>2, CorneredTurns, CorneredVerbs DEF Next, Quiet
    <2> QED BY <2>2, <2>3, <2>4
<1> QED BY <1>2, <1>3

\* Signals end work, no write failed, and the requests are plain: whatever crashed,
\* a process that was cut off is fenced before anything else happens to its session.
THEOREM SurvivorCorrect ==
    ASSUME KillsWork, Plain
    PROVE  Spec => [](faults = 0 => SurvivorInv)
<1>1. Init => SurvivorInv
    BY DEF Init, SurvivorInv, Survives
<1>2. Inv /\ Quiet /\ DrainInv /\ PlainInv /\ (faults = 0 => SurvivorInv) /\ [Next]_vars
      => (faults = 0 => SurvivorInv)'
    BY SurvivorNext
<1> QED BY <1>1, <1>2, InvCorrect, QuietCorrect, DrainCorrect, RecordCorrect, PTL DEF Spec

-----------------------------------------------------------------------------
(* At most one process, none of a closed session, none of a forgotten one.    *)

\* No write failed yet, and no daemon crashed unless the requests carry no key and
\* neither focus nor suspend is used.
Undisturbed == faults = 0 /\ (crashes = 0 \/ Plain)

\* Every process is known to the manager, or it is cornered.
LEMMA KnownOrCornered ==
    ASSUME KillsWork
    PROVE  Spec => [](Undisturbed => \A r \in Requests : Survives(r) => Cornered(r))
<1>1. CASE Plain
    <2>1. (faults = 0 => SurvivorInv)
          => (Undisturbed => \A r \in Requests : Survives(r) => Cornered(r))
        BY DEF Undisturbed, SurvivorInv
    <2>2. Spec => [](faults = 0 => SurvivorInv)
        BY <1>1, SurvivorCorrect
    <2> QED BY <2>1, <2>2, PTL
<1>2. CASE ~Plain
    <2>1. AllKnown => (Undisturbed => \A r \in Requests : Survives(r) => Cornered(r))
        BY <1>2 DEF Undisturbed, AllKnown
    <2>2. Spec => []AllKnown
        BY KnownCorrect
    <2> QED BY <2>1, <2>2, PTL
<1> QED BY <1>1, <1>2

LEMMA CorneredMeansOne ==
    ASSUME Inv, Quiet, DrainInv, Undisturbed, \A r \in Requests : Survives(r) => Cornered(r)
    PROVE  OneLiveProcess /\ ClosedMeansDead
<1>1. CASE \A r \in Requests : ~Survives(r)
    BY <1>1, KnownMeansOne DEF Undisturbed
<1>2. ASSUME NEW r \in Requests, Survives(r) PROVE OneLiveProcess /\ ClosedMeansDead
    BY <1>2 DEF Cornered, OneLiveProcess, ClosedMeansDead
<1> QED BY <1>1, <1>2

\* No two provider processes of one session name are alive at once, where signals
\* end work, no write failed, and no daemon crashed unless the turns are unkeyed
\* (runSessionTurn, the drain of a purge and the recovery fence together).
THEOREM OneProcess ==
    ASSUME KillsWork
    PROVE  Spec => [](Undisturbed => OneLiveProcess)
<1>1. Inv /\ Quiet /\ DrainInv /\ (Undisturbed => \A r \in Requests : Survives(r) => Cornered(r))
      => (Undisturbed => OneLiveProcess)
    BY CorneredMeansOne
<1> QED BY <1>1, KnownOrCornered, InvCorrect, QuietCorrect, DrainCorrect, PTL DEF Spec

\* Under the same conditions a stop, quiesce or purge that reports success leaves no
\* provider process of the session alive until another turn is admitted.
THEOREM ClosedIsDead ==
    ASSUME KillsWork
    PROVE  Spec => [](Undisturbed => ClosedMeansDead)
<1>1. Inv /\ Quiet /\ DrainInv /\ (Undisturbed => \A r \in Requests : Survives(r) => Cornered(r))
      => (Undisturbed => ClosedMeansDead)
    BY CorneredMeansOne
<1> QED BY <1>1, KnownOrCornered, InvCorrect, QuietCorrect, DrainCorrect, PTL DEF Spec

\* A purge that removes a session meets no live process of it.
LEMMA PurgeMeetsNothing ==
    ASSUME Inv, Quiet, ReceiptInv, DrainInv, Undisturbed, PurgeRemove,
           \A r \in Requests : Survives(r) => Cornered(r)
    PROVE  NoLiveProcess
<1>1. op.pc = "remove"
    BY DEF PurgeRemove
<1>2. mem.child = None
    BY <1>1, NothingAtWork DEF Quiet, Undisturbed
<1>3. \A r \in Requests : ~Survives(r)
    BY <1>1 DEF Cornered
<1>4. None \notin Requests
    BY InvTypes DEF Inv
<1> QED BY <1>2, <1>3, <1>4 DEF Survives, NoLiveProcess

\* Where the disk does not fail, a purge forgets a session whose turns are one-shot
\* processes only when none of them runs, across crashes too if they are unkeyed.
THEOREM PurgeIsClean ==
    ASSUME KillsWork, MaxFaults = 0, MaxCrashes = 0 \/ Plain
    PROVE  Spec => PurgeForgetsNothingAlive
<1>1. Inv => Undisturbed
    BY RunAssumption DEF Undisturbed, Inv, TypeInv, TypeOK
<1>2. Inv /\ Quiet /\ ReceiptInv /\ DrainInv /\ [Next]_vars
      /\ (Undisturbed => \A r \in Requests : Survives(r) => Cornered(r)) =>
      [store'.generation # store.generation => NoLiveProcess]_vars
    BY <1>1, PurgeCounts, PurgeMeetsNothing DEF Quiet
<1> QED BY <1>2, KnownOrCornered, InvCorrect, QuietCorrect, ReceiptsCorrect, DrainCorrect, PTL
    DEF Spec, PurgeForgetsNothingAlive

\* Where the disk does not fail and signals end work, the receipts, turns and one-shot
\* processes of a session implement the ledger of its keys too: what a daemon that
\* never crashed has running is one process, which its own turns and verbs wait for
\* (ClaimKey, Spawn, Exit, Settled, PurgeRemove).
THEOREM LedgerUndisturbed ==
    ASSUME KillsWork, MaxFaults = 0, MaxCrashes = 0 \/ Plain
    PROVE  Spec => ImplementsLedger
<1>1. Inv => Undisturbed
    BY RunAssumption DEF Undisturbed, Inv, TypeInv, TypeOK
<1>2. Inv /\ Quiet /\ DrainInv /\ (Undisturbed => \A r \in Requests : Survives(r) => Cornered(r))
      => OneGeneration
    BY <1>1, CorneredMeansOne DEF OneLiveProcess, OneGeneration
<1>3. Inv /\ Quiet /\ ReceiptInv /\ DrainInv /\ [Next]_vars
      /\ (Undisturbed => \A r \in Requests : Survives(r) => Cornered(r))
      => [Ledger!Next]_(Ledger!vars)
    BY <1>1, <1>2, PurgeMeetsNothing, LedgerStep DEF Quiet
<1> QED BY <1>3, LedgerInit, KnownOrCornered, InvCorrect, QuietCorrect, ReceiptsCorrect, DrainCorrect,
    PTL DEF Spec, ImplementsLedger, Ledger!Spec
=============================================================================
