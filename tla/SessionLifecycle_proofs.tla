----------------------- MODULE SessionLifecycle_proofs -----------------------
(***************************************************************************)
(* Theorems about SessionLifecycle, for every set of keys and requests and *)
(* every bound: the types, then why the turns of a session name exclude    *)
(* each other, and what follows for the keys of its clients.               *)
(***************************************************************************)
EXTENDS SessionLifecycle, SequenceTheorems, TLAPS

-----------------------------------------------------------------------------
(* The mutators of the store yield stored states. *)

LEMMA AbsentType ==
    /\ NoTurn \in Turns
    /\ NoRecoveryFence \in RecoveryFences
    /\ NoSession \in Sessions
    /\ NoOutcome \in Outcomes
    /\ FreeReceipt \in Receipts
    /\ NoReservation \in Reservations
    /\ freshState \in StoredStates
<1>1. NoTurn \in Turns /\ NoRecoveryFence \in RecoveryFences
    BY DEF NoTurn, Turns, TurnStates, NoRecoveryFence, RecoveryFences
<1>2. NoSession \in Sessions
    BY <1>1 DEF NoSession, Sessions, SessionStates
<1>3. NoOutcome \in Outcomes
    BY <1>1 DEF NoOutcome, Outcomes, Snapshots, SessionStates
<1>4. FreeReceipt \in Receipts
    BY <1>3 DEF FreeReceipt, Receipts
<1>5. NoReservation \in Reservations
    BY LimitAssumption DEF NoReservation, Reservations
<1>6. freshState \in StoredStates
    <2>1. << >> \in Seq(Keys)
        OBVIOUS
    <2> QED BY <1>2, <1>4, <1>5, <2>1, LimitAssumption DEF freshState, StoredStates
<1> QED BY <1>1, <1>2, <1>3, <1>4, <1>5, <1>6

LEMMA SettledType ==
    ASSUME NEW s \in StoredStates, NEW k \in Keys, NEW kind \in {"success", "error"},
           NEW session \in Sessions
    PROVE  Settled(s, k, kind, session) \in StoredStates
<1> DEFINE outcome ==
        [kind |-> kind,
         snapshot |-> IF kind = "success" \/ s.receipts[k].turnId # None
                      THEN Snapshot(session) ELSE NoOutcome.snapshot]
           receipt == [s.receipts[k] EXCEPT !.state = "settled", !.outcome = outcome]
<1>1. Snapshot(session) \in Snapshots
    BY DEF Snapshot, Snapshots, Sessions
<1>2. NoOutcome.snapshot \in Snapshots
    BY AbsentType DEF Outcomes
<1>3. outcome \in Outcomes
    BY <1>1, <1>2 DEF Outcomes
<1>4. s.receipts \in [Keys -> Receipts] /\ s.order \in Seq(Keys)
    BY DEF StoredStates
<1>5. receipt \in Receipts
    BY <1>3, <1>4 DEF Receipts
<1>6. [s.receipts EXCEPT ![k] = receipt] \in [Keys -> Receipts]
    BY <1>4, <1>5
<1>7. Append(s.order, k) \in Seq(Keys)
    BY <1>4
<1>8. Settled(s, k, kind, session) =
        [s EXCEPT !.session = session, !.order = Append(s.order, k),
                  !.receipts = [s.receipts EXCEPT ![k] = receipt]]
    BY ZenonT(60), <1>4 DEF Settled, StoredStates, Receipts
<1> QED BY <1>6, <1>7, <1>8 DEF StoredStates

LEMMA CompactedType ==
    ASSUME NEW s \in StoredStates
    PROVE  Compacted(s) \in StoredStates
<1> SUFFICES ASSUME s.order # << >>
             PROVE  [s EXCEPT !.order = Tail(@),
                              !.receipts[Head(s.order)].state = "tombstone",
                              !.receipts[Head(s.order)].outcome = NoOutcome] \in StoredStates
    BY DEF Compacted
<1>1. s.order \in Seq(Keys) /\ s.receipts \in [Keys -> Receipts]
    BY DEF StoredStates
<1>2. Head(s.order) \in Keys /\ Tail(s.order) \in Seq(Keys)
    BY <1>1
<1> DEFINE k == Head(s.order)
           receipt == [s.receipts[k] EXCEPT !.state = "tombstone", !.outcome = NoOutcome]
<1>3. receipt \in Receipts
    BY <1>1, <1>2, AbsentType DEF Receipts
<1>4. [s.receipts EXCEPT ![k] = receipt] \in [Keys -> Receipts]
    BY <1>1, <1>3
<1>5. [s EXCEPT !.order = Tail(@),
                !.receipts[k].state = "tombstone",
                !.receipts[k].outcome = NoOutcome]
      = [s EXCEPT !.order = Tail(s.order), !.receipts = [s.receipts EXCEPT ![k] = receipt]]
    BY <1>1, <1>2 DEF StoredStates, Receipts
<1> QED BY <1>2, <1>4, <1>5 DEF StoredStates

LEMMA ClaimType ==
    ASSUME NEW s \in StoredStates, NEW k \in Keys, NEW print \in Prints
    PROVE  Claim(s, k, print) \in StoredStates
<1> DEFINE receipt == [FreeReceipt EXCEPT !.state = "running", !.print = print]
<1>1. Compacted(s) \in StoredStates
    BY CompactedType
<1>2. receipt \in Receipts
    BY AbsentType DEF Receipts
<1> QED BY <1>1, <1>2 DEF Claim, StoredStates

LEMMA LinkType ==
    ASSUME NEW s \in StoredStates, NEW k \in Keys, NEW session \in Sessions
    PROVE  Link(s, k, session) \in StoredStates
<1>1. session.turn.id \in TurnIds \cup {None}
    BY DEF Sessions, Turns
<1>2. s.receipts \in [Keys -> Receipts]
    BY DEF StoredStates
<1>3. [s.receipts[k] EXCEPT !.turnId = session.turn.id] \in Receipts
    BY <1>1, <1>2 DEF Receipts
<1> QED BY <1>2, <1>3 DEF Link, StoredStates

LEMMA UpsertType ==
    ASSUME NEW s \in StoredStates, NEW session \in Sessions
    PROVE  Upsert(s, session) \in StoredStates
BY DEF Upsert, StoredStates

LEMMA RemoveType ==
    ASSUME NEW s \in StoredStates, CanRemove(s)
    PROVE  Remove(s) \in StoredStates
<1>1. << >> \in Seq(Keys)
    OBVIOUS
<1>2. s.generation + 1 \in 0..MaxGeneration
    BY LimitAssumption DEF CanRemove, StoredStates
<1> QED BY <1>1, <1>2, AbsentType DEF Remove, StoredStates

LEMMA FenceType ==
    ASSUME NEW s \in StoredStates
    PROVE  /\ Release(s) \in StoredStates
           /\ Enter(s) \in StoredStates
           /\ CanAllocateElsewhere(s) => AllocateElsewhere(s) \in StoredStates
           /\ \A purpose \in {"external", "purge"} :
                  CanReserve(s) => Reserve(s, purpose) \in StoredStates
<1>1. Release(s) \in StoredStates /\ Enter(s) \in StoredStates
    BY AbsentType DEF Release, Enter, StoredStates
<1>2. s.lastEpoch \in Nat /\ (s.lastEpoch < MaxEpoch => s.lastEpoch + 1 \in 0..MaxEpoch)
    BY LimitAssumption DEF StoredStates
<1>3. CanAllocateElsewhere(s) => AllocateElsewhere(s) \in StoredStates
    BY <1>2 DEF CanAllocateElsewhere, AllocateElsewhere, StoredStates
<1>4. ASSUME NEW purpose \in {"external", "purge"}, CanReserve(s)
      PROVE  Reserve(s, purpose) \in StoredStates
    BY <1>2, <1>4 DEF Reserve, CanReserve, StoredStates, Reservations
<1> QED BY <1>1, <1>3, <1>4

-----------------------------------------------------------------------------
(* The sessions that the manager's patches build. *)

LEMMA SessionFields ==
    ASSUME NEW session \in Sessions
    PROVE  /\ session.state \in SessionStates
           /\ session.turn \in Turns
           /\ session.turn.state \in TurnStates
           /\ session.turn.id \in TurnIds \cup {None}
           /\ session.turn.pid \in TurnIds \cup {None}
           /\ session.fence \in RecoveryFences
           /\ session.fence.on \in BOOLEAN
           /\ session.fence.pid \in TurnIds \cup {None}
BY DEF Sessions, Turns, RecoveryFences

\* A session keeps its type when its state, the state of its turn or its
\* recovery fence is replaced.
LEMMA SessionPatched ==
    ASSUME NEW session \in Sessions, NEW state \in SessionStates,
           NEW turnState \in TurnStates, NEW fence \in RecoveryFences
    PROVE  /\ [session EXCEPT !.state = state] \in Sessions
           /\ [session EXCEPT !.fence = fence] \in Sessions
           /\ [session EXCEPT !.state = state, !.fence = fence] \in Sessions
           /\ [session EXCEPT !.fence = fence, !.state = state] \in Sessions
           /\ [session EXCEPT !.turn.state = turnState] \in Sessions
           /\ [session EXCEPT !.state = state, !.turn.state = turnState] \in Sessions
           /\ [session EXCEPT !.state = state, !.turn.state = turnState, !.fence = fence] \in Sessions
           /\ [session EXCEPT !.state = state, !.fence = fence, !.turn.state = turnState] \in Sessions
           /\ [session EXCEPT !.fence = fence, !.state = state, !.turn.state = turnState] \in Sessions
<1>1. session \in [state : SessionStates, turn : Turns, fence : RecoveryFences]
    BY DEF Sessions
<1>2. [session.turn EXCEPT !.state = turnState] \in Turns
    BY <1>1 DEF Turns
<1> QED BY <1>1, <1>2 DEF Sessions

LEMMA PatchTypes ==
    ASSUME NEW session \in Sessions
    PROVE  /\ FenceReleased(session) \in Sessions
           /\ SessionFailed(session) \in Sessions
           /\ StoppedSession(session) \in Sessions
           /\ QuiescedSession(session) \in Sessions
           /\ InterruptedSession(session) \in Sessions
           /\ OrphanedSession(session) \in Sessions
           /\ FencedSession(session) \in Sessions
           /\ \A r \in Requests : SettledByThrow(session, r) \in Sessions
<1> USE SessionFields, SessionPatched, AbsentType DEF SessionStates, TurnStates, TerminalTurnStates
<1>1. FenceReleased(session) \in Sessions
    <2> DEFINE state == IF session.state = "running" THEN "failed" ELSE session.state
               turnState == IF session.turn.state = "running" THEN "orphaned" ELSE session.turn.state
    <2>1. state \in SessionStates /\ turnState \in TurnStates
        OBVIOUS
    <2> HIDE DEF state, turnState
    <2>2. [session EXCEPT !.fence = NoRecoveryFence, !.state = state, !.turn.state = turnState]
          \in Sessions
        BY <2>1
    <2> QED BY <2>2 DEF FenceReleased, state, turnState
<1>2. SessionFailed(session) \in Sessions
    BY DEF SessionFailed
<1>3. StoppedSession(session) \in Sessions
    BY DEF StoppedSession
<1>4. QuiescedSession(session) \in Sessions
    BY DEF QuiescedSession
<1>5. InterruptedSession(session) \in Sessions
    BY DEF InterruptedSession
<1>6. OrphanedSession(session) \in Sessions
    BY DEF OrphanedSession
<1>7. FencedSession(session) \in Sessions
    <2>1. [on |-> TRUE, pid |-> session.turn.pid] \in RecoveryFences
        BY DEF RecoveryFences
    <2> QED BY <2>1 DEF FencedSession
<1>8. ASSUME NEW r \in Requests PROVE SettledByThrow(session, r) \in Sessions
    <2> DEFINE turnState == IF /\ session.turn.key = KeyOf[r]
                               /\ session.turn.print = PrintOf[r]
                               /\ session.turn.state = "running"
                            THEN "failed" ELSE session.turn.state
    <2>1. turnState \in TurnStates
        OBVIOUS
    <2> HIDE DEF turnState
    <2>2. [session EXCEPT !.state = "failed", !.turn.state = turnState] \in Sessions
        BY <2>1
    <2> QED BY <2>2 DEF SettledByThrow, turnState
<1> QED BY <1>1, <1>2, <1>3, <1>4, <1>5, <1>6, <1>7, <1>8

-----------------------------------------------------------------------------
(* Type correctness. *)

\* Only a keyed request claims, joins or owns the execution of a key.
KeysHeld ==
    /\ mem.keyed # None => Keyed(mem.keyed)
    /\ \A r \in Requests : req[r].pc \in {"claim", "waiting"} => Keyed(r)

TypeInv == TypeOK /\ KeysHeld

LEMMA KeyOfType ==
    ASSUME NEW r \in Requests
    PROVE  /\ PrintOf[r] \in Prints
           /\ KeyOf[r] \in Keys \cup {None}
           /\ Keyed(r) <=> KeyOf[r] \in Keys
BY RequestAssumption, NoneAssumption DEF Keyed

LEMMA StepNames ==
    /\ {"new", "queued", "waiting", "done", "lost"} \subseteq RequestSteps
    /\ {"fence", "enter", "claim"} \subseteq RequestSteps
    /\ {"body", "refresh", "provision", "runtime", "link", "linkWrite", "spawn", "pid",
         "run", "final", "failing", "outer", "epilogue"} \subseteq RequestSteps
    /\ {"none", "accepted", "replayed", "failed", "refused"} \subseteq Answers
BY DEF RequestSteps, AdmissionSteps, BodySteps, Answers

LEMMA InitType == Init => TypeInv
<1> SUFFICES ASSUME Init PROVE TypeInv
    OBVIOUS
<1>1. store \in StoredStates
    BY AbsentType DEF Init
<1>2. NoRequest \in RequestStates
    BY AbsentType, LimitAssumption DEF NoRequest, RequestStates, RequestSteps, Answers
<1>3. NoOp \in Operations
    BY AbsentType, LimitAssumption DEF NoOp, Operations, OpSteps
<1>4. NoMemory \in Memory
    BY DEF NoMemory, Memory
<1>5. TypeOK
    <2>1. proc \in [Requests -> {"none", "alive", "dead"}] /\ req \in [Requests -> RequestStates]
        BY <1>2 DEF Init
    <2>2. crashes \in 0..MaxCrashes /\ faults \in 0..MaxFaults
        BY RunAssumption DEF Init
    <2>3. report \in Reports
        BY LimitAssumption DEF Init, Reports, NothingReported
    <2> QED BY <1>1, <1>3, <1>4, <2>1, <2>2, <2>3 DEF Init, TypeOK
<1>6. KeysHeld
    BY DEF Init, KeysHeld, NoMemory, NoRequest
<1> QED BY <1>5, <1>6 DEF TypeInv

LEMMA GotoType ==
    ASSUME req \in [Requests -> RequestStates], NEW r \in Requests,
           NEW pc \in RequestSteps, Goto(r, pc)
    PROVE  /\ req' \in [Requests -> RequestStates]
           /\ req'[r].pc = pc
           /\ \A q \in Requests \ {r} : req'[q] = req[q]
<1>1. [req[r] EXCEPT !.pc = pc] \in RequestStates
    BY DEF RequestStates
<1> QED BY <1>1 DEF Goto, RequestStates

LEMMA AnswerType ==
    ASSUME req \in [Requests -> RequestStates], NEW r \in Requests,
           NEW answer \in Answers, Answer(r, answer)
    PROVE  /\ req' \in [Requests -> RequestStates]
           /\ req'[r].pc = "done"
           /\ \A q \in Requests \ {r} : req'[q] = req[q]
<1> DEFINE answered == [req[r] EXCEPT !.pc = "done", !.answer = answer,
                                      !.seen = NoSession, !.inFlight = None]
<1>1. answered \in RequestStates
    BY AbsentType DEF RequestStates, RequestSteps
<1>2. answered.pc = "done"
    BY DEF RequestStates
<1> QED BY <1>1, <1>2 DEF Answer

LEMMA WriteType ==
    ASSUME TypeOK, NEW STATE next, NEW STATE allowed, allowed => next \in StoredStates,
           Written(allowed, next) \/ Thrown(allowed, next)
    PROVE  store' \in StoredStates /\ faults' \in 0..MaxFaults /\ refused' \in BOOLEAN
<1>1. /\ store' = store \/ (allowed /\ store' = next)
      /\ \/ faults' = faults
         \/ faults < MaxFaults /\ faults' = faults + 1
      /\ refused' = refused \/ refused' = TRUE
    BY Zenon DEF Written, Thrown
<1>2. faults' \in 0..MaxFaults
    BY <1>1, RunAssumption DEF TypeOK
<1> QED BY <1>1, <1>2, Zenon DEF TypeOK

LEMMA ReportTypes ==
    ASSUME report \in Reports
    PROVE  /\ \A runtime \in {"open", "closed", "overlooked"} : Reported(runtime) \in Reports
           /\ \A epoch \in 0..MaxEpoch : ReportedEpoch(epoch) \in Reports
BY DEF Reports, Reported, ReportedEpoch

\* The admission of a turn keeps the types.
LEMMA AdmissionType ==
    ASSUME TypeInv, NEW r \in Requests,
           \/ \E e \in 0..MaxEpoch : Call(r, e)
           \/ AdmitAnswered(r) \/ Admit(r) \/ ReleaseRecoveryFence(r) \/ EnterTurn(r)
           \/ ClaimKey(r) \/ Wake(r)
    PROVE  TypeInv'
<1> USE DEF TypeInv
<1>1. TypeOK /\ KeysHeld
    OBVIOUS
<1>2. /\ store \in StoredStates /\ store.session \in Sessions
      /\ store.generation \in 0..MaxGeneration /\ store.receipts \in [Keys -> Receipts]
    BY DEF TypeOK, StoredStates
<1>3. req \in [Requests -> RequestStates] /\ mem \in Memory /\ op \in Operations
    BY DEF TypeOK
<1>4. ASSUME NEW e \in 0..MaxEpoch, Call(r, e) PROVE TypeInv'
    <2> DEFINE called == [req[r] EXCEPT !.pc = "queued", !.epoch = e,
                                        !.generation = store.generation]
    <2>1. called \in RequestStates /\ called.pc = "queued"
        BY <1>2, <1>3 DEF RequestStates, RequestSteps
    <2>2. /\ req' \in [Requests -> RequestStates] /\ req'[r].pc = "queued"
          /\ \A q \in Requests \ {r} : req'[q] = req[q]
        BY <1>3, <1>4, <2>1 DEF Call
    <2>3. TypeOK'
        BY <1>4, <2>2 DEF Call, NoMutation, TypeOK
    <2>4. KeysHeld'
        BY <1>4, <2>2 DEF Call, KeysHeld, Keyed
    <2> QED BY <2>3, <2>4
<1>5. CASE AdmitAnswered(r)
    <2> DEFINE joined == [req EXCEPT ![r].pc = "waiting", ![r].inFlight = mem.keyed]
    <2>1. CASE req' = joined /\ Keyed(r)
        <3> DEFINE waiting == [req[r] EXCEPT !.pc = "waiting", !.inFlight = mem.keyed]
        <3>1. waiting \in RequestStates
            <4>1. req[r] \in RequestStates /\ mem.keyed \in Requests \cup {None}
                BY <1>3 DEF Memory
            <4> QED BY <4>1, StepNames DEF RequestStates
        <3>2. req' = [req EXCEPT ![r] = waiting]
            BY <1>3, <2>1 DEF RequestStates
        <3>3. req' \in [Requests -> RequestStates]
            BY <1>3, <3>1, <3>2
        <3>4. \A q \in Requests \ {r} : req'[q] = req[q]
            BY <1>3, <3>2
        <3> QED BY <1>5, <2>1, <3>3, <3>4 DEF AdmitAnswered, NoMutation, TypeOK, KeysHeld, Keyed
    <2>2. CASE \E answer \in Answers : Answer(r, answer)
        <3>1. req' \in [Requests -> RequestStates] /\ req'[r].pc = "done"
              /\ \A q \in Requests \ {r} : req'[q] = req[q]
            BY <1>3, <2>2, AnswerType
        <3> QED BY <1>5, <3>1 DEF AdmitAnswered, NoMutation, TypeOK, KeysHeld, Keyed
    <2>3. \/ req' = joined /\ Claimed(r)
          \/ Answer(r, "refused") \/ Answer(r, "replayed")
        BY <1>5 DEF AdmitAnswered
    <2> QED BY <2>1, <2>2, <2>3, StepNames DEF Claimed
<1>6. CASE Admit(r)
    <2>1. PICK pc \in {"fence", "enter"} : Goto(r, pc)
        BY <1>6 DEF Admit
    <2>2. req' \in [Requests -> RequestStates] /\ req'[r].pc = pc
          /\ \A q \in Requests \ {r} : req'[q] = req[q]
        BY <1>3, <2>1, GotoType, StepNames
    <2>3. mem' \in Memory /\ mem'.keyed = mem.keyed
        BY <1>3, <1>6 DEF Admit, Lock, Memory
    <2> QED BY <1>6, <2>2, <2>3 DEF Admit, NoMutation, TypeOK, KeysHeld, Keyed
<1>7. CASE ReleaseRecoveryFence(r)
    <2>1. Upsert(store, FenceReleased(store.session)) \in StoredStates
        BY <1>2, PatchTypes, UpsertType
    <2>2. \/ Goto(r, "enter") /\ mem' = mem
          \/ Answer(r, "refused") /\ mem' = Unlocked
        BY <1>7 DEF ReleaseRecoveryFence, Mutate
    <2>3. /\ req' \in [Requests -> RequestStates] /\ req'[r].pc \in {"enter", "done"}
          /\ \A q \in Requests \ {r} : req'[q] = req[q]
        BY <1>3, <2>2, GotoType, AnswerType, StepNames
    <2>4. mem' \in Memory /\ mem'.keyed = mem.keyed
        BY <1>3, <2>2 DEF Unlocked, Memory
    <2>5. store' \in StoredStates /\ faults' \in 0..MaxFaults /\ refused' \in BOOLEAN
        BY <1>7, <2>1, WriteType DEF ReleaseRecoveryFence, Mutate
    <2> QED BY <1>7, <2>3, <2>4, <2>5 DEF ReleaseRecoveryFence, TypeOK, KeysHeld, Keyed
<1>8. CASE EnterTurn(r)
    <2>1. Enter(store) \in StoredStates
        BY <1>2, FenceType
    <2>2. \/ /\ mem' = [mem EXCEPT !.active = r, !.stop = FALSE,
                                   !.lock = IF Keyed(r) THEN @ ELSE "free"]
             /\ Goto(r, IF Keyed(r) THEN "claim" ELSE "body")
             /\ report' = Reported("open")
          \/ Answer(r, "refused") /\ mem' = Unlocked /\ report' = report
        BY <1>8 DEF EnterTurn, Mutate
    <2>3. /\ req' \in [Requests -> RequestStates]
          /\ req'[r].pc \in {"body", "done"} \/ (req'[r].pc = "claim" /\ Keyed(r))
          /\ \A q \in Requests \ {r} : req'[q] = req[q]
        BY <1>3, <2>2, GotoType, AnswerType, StepNames
    <2>4. mem' \in Memory /\ mem'.keyed = mem.keyed
        BY <1>3, <2>2 DEF Unlocked, Memory
    <2>5. store' \in StoredStates /\ faults' \in 0..MaxFaults /\ refused' \in BOOLEAN
        BY <1>8, <2>1, WriteType DEF EnterTurn, Mutate
    <2>6. report' \in Reports
        BY <2>2, ReportTypes DEF TypeInv, TypeOK
    <2> QED BY <1>8, <2>2, <2>3, <2>4, <2>5, <2>6 DEF EnterTurn, TypeOK, KeysHeld, Keyed
<1>9. CASE ClaimKey(r)
    <2>1. Keyed(r)
        BY <1>9 DEF ClaimKey, KeysHeld
    <2>2. Claim(store, KeyOf[r], PrintOf[r]) \in StoredStates
        BY <1>2, <2>1, ClaimType, KeyOfType
    <2>3. \/ mem' = [Unlocked EXCEPT !.keyed = r] /\ Goto(r, "body")
          \/ mem' = [Unlocked EXCEPT !.active = None] /\ Answer(r, "refused")
        BY <1>9 DEF ClaimKey, Mutate
    <2>4. /\ req' \in [Requests -> RequestStates] /\ req'[r].pc \in {"body", "done"}
          /\ \A q \in Requests \ {r} : req'[q] = req[q]
        BY <1>3, <2>3, GotoType, AnswerType, StepNames
    <2>5. mem' \in Memory /\ mem'.keyed \in {mem.keyed, r}
        BY <1>3, <2>3 DEF Unlocked, Memory
    <2>6. store' \in StoredStates /\ faults' \in 0..MaxFaults /\ refused' \in BOOLEAN
        BY <1>9, <2>2, WriteType DEF ClaimKey, Mutate
    <2> QED BY <1>9, <2>1, <2>4, <2>5, <2>6 DEF ClaimKey, TypeOK, KeysHeld, Keyed
<1>10. CASE Wake(r)
    <2>1. /\ req' \in [Requests -> RequestStates] /\ req'[r].pc = "done"
          /\ \A q \in Requests \ {r} : req'[q] = req[q]
        BY <1>3, <1>10, AnswerType, StepNames DEF Wake
    <2> QED BY <1>10, <2>1 DEF Wake, NoMutation, TypeOK, KeysHeld, Keyed
<1> QED BY <1>4, <1>5, <1>6, <1>7, <1>8, <1>9, <1>10

\* What is left to show of a step of an admitted turn.
LEMMA TurnMoves ==
    ASSUME TypeInv, NEW r \in Requests,
           req' \in [Requests -> RequestStates], req'[r].pc \notin {"claim", "waiting"},
           \A q \in Requests \ {r} : req'[q] = req[q],
           mem' \in Memory, mem'.keyed \in {mem.keyed, None},
           store' \in StoredStates, faults' \in 0..MaxFaults, refused' \in BOOLEAN,
           proc' \in [Requests -> {"none", "alive", "dead"}],
           UNCHANGED <<up, op, crashes, report>>
    PROVE  TypeInv'
<1>1. TypeOK'
    BY DEF TypeInv, TypeOK
<1>2. KeysHeld'
    BY DEF TypeInv, KeysHeld, Keyed
<1> QED BY <1>1, <1>2 DEF TypeInv

LEMMA SeenType ==
    ASSUME req \in [Requests -> RequestStates], NEW r \in Requests,
           NEW pc \in RequestSteps, NEW session \in Sessions,
           req' = [req EXCEPT ![r].seen = session, ![r].pc = pc]
              \/ req' = [req EXCEPT ![r].pc = pc, ![r].seen = session]
    PROVE  /\ req' \in [Requests -> RequestStates]
           /\ req'[r].pc = pc
           /\ \A q \in Requests \ {r} : req'[q] = req[q]
<1> DEFINE moved == [req[r] EXCEPT !.pc = pc, !.seen = session]
<1>1. moved \in RequestStates /\ moved.pc = pc
    BY DEF RequestStates
<1>2. req' = [req EXCEPT ![r] = moved]
    BY DEF RequestStates
<1> QED BY <1>1, <1>2

LEMMA LinkedSessionType ==
    ASSUME mem \in Memory, NEW session \in Sessions, NEW r \in Requests,
           NEW id \in Requests \cup {None}
    PROVE  WithRunningTurn(session, r, id) \in Sessions
<1>1. mem.keyed \in Requests \cup {None}
    BY DEF Memory
<1>2. /\ IF mem.keyed = None THEN TRUE ELSE KeyOf[mem.keyed] \in Keys \cup {None}
      /\ IF mem.keyed = None THEN TRUE ELSE PrintOf[mem.keyed] \in Prints
    BY <1>1, KeyOfType
<1> DEFINE turn == [id |-> id, state |-> "running", pid |-> None,
                    key |-> IF mem.keyed = None THEN None ELSE KeyOf[mem.keyed],
                    print |-> IF mem.keyed = None THEN None ELSE PrintOf[mem.keyed]]
<1>3. turn \in Turns
    BY <1>2 DEF Turns, TurnStates, Requests
<1> HIDE DEF turn
<1>4. [session EXCEPT !.state = "running", !.turn = turn] \in Sessions
    BY <1>3 DEF Sessions, SessionStates
<1> QED BY <1>4 DEF WithRunningTurn, turn

LEMMA FinalSessionType ==
    ASSUME mem \in Memory, NEW session \in Sessions, NEW result \in {"idle", "failed"}
    PROVE  FinalSession(session, result) \in Sessions
<1> DEFINE stopped == session.state = "stopped" \/ mem.stop
           verdict == IF stopped THEN "stopped"
                      ELSE IF result = "idle" THEN "completed" ELSE "failed"
           turn == IF mem.turnId # None /\ session.turn.id = mem.turnId
                   THEN [session.turn EXCEPT !.state = verdict] ELSE session.turn
           state == IF stopped THEN "stopped" ELSE result
           fence == IF stopped THEN NoRecoveryFence ELSE session.fence
<1>1. verdict \in TurnStates /\ state \in SessionStates
    BY DEF TurnStates, TerminalTurnStates, SessionStates
<1>2. turn \in Turns
    BY <1>1, SessionFields DEF Turns
<1>3. fence \in RecoveryFences
    BY SessionFields, AbsentType
<1> HIDE DEF stopped, verdict, turn, state, fence
<1>4. [state |-> state, turn |-> turn, fence |-> fence] \in Sessions
    BY <1>1, <1>2, <1>3 DEF Sessions
<1> QED BY <1>4 DEF FinalSession, stopped, verdict, turn, state, fence

\* The body of a turn, up to its dispatch, keeps the types.
LEMMA DispatchType ==
    ASSUME TypeInv, NEW r \in Requests,
           \/ Begin(r) \/ RefreshProvider(r) \/ Provision(r) \/ PrepareRuntime(r)
           \/ StartTurnOutput(r) \/ LinkTurn(r) \/ Spawn(r) \/ RecordPid(r)
    PROVE  TypeInv'
<1>1. /\ store \in StoredStates /\ store.session \in Sessions
      /\ faults \in 0..MaxFaults /\ refused \in BOOLEAN
      /\ proc \in [Requests -> {"none", "alive", "dead"}]
    BY DEF TypeInv, TypeOK, StoredStates
<1>2. /\ req \in [Requests -> RequestStates] /\ mem \in Memory
      /\ req[r].seen \in Sessions
      /\ mem.turnId \in Requests \cup {None} /\ mem.keyed \in Requests \cup {None}
    BY DEF TypeInv, TypeOK, RequestStates, Memory
<1>3. TypeOK /\ KeysHeld
    BY DEF TypeInv
<1>4. CASE Begin(r)
    <2>1. \/ \E pc \in {"provision", "runtime", "refresh"} :
                 req' = [req EXCEPT ![r].seen = store.session, ![r].pc = pc]
          \/ Goto(r, "epilogue")
        BY <1>4 DEF Begin
    <2>2. /\ req' \in [Requests -> RequestStates]
          /\ req'[r].pc \in {"provision", "runtime", "refresh", "epilogue"}
          /\ \A q \in Requests \ {r} : req'[q] = req[q]
        BY ZenonT(60), <1>1, <1>2, <2>1, SeenType, GotoType, StepNames
    <2> QED BY <1>1, <1>2, <1>4, <2>2, TurnMoves DEF Begin, NoMutation
<1>5. CASE RefreshProvider(r)
    <2>1. Upsert(store, req[r].seen) \in StoredStates
        BY <1>1, <1>2, UpsertType
    <2>2. store' \in StoredStates /\ faults' \in 0..MaxFaults /\ refused' \in BOOLEAN
        BY <1>3, <1>5, <2>1, WriteType DEF RefreshProvider, Mutate
    <2>3. Goto(r, "runtime") \/ Goto(r, "epilogue")
        BY <1>5 DEF RefreshProvider, Mutate
    <2>4. /\ req' \in [Requests -> RequestStates]
          /\ req'[r].pc \in {"runtime", "epilogue"}
          /\ \A q \in Requests \ {r} : req'[q] = req[q]
        BY <1>2, <2>3, GotoType, StepNames
    <2> QED BY <1>1, <1>2, <1>5, <2>2, <2>4, TurnMoves DEF RefreshProvider
<1>6. CASE Provision(r)
    <2> DEFINE provisional == [req[r].seen EXCEPT !.state = "running"]
    <2>1. provisional \in Sessions
        BY <1>2 DEF Sessions, SessionStates
    <2> HIDE DEF provisional
    <2>2. Upsert(store, provisional) \in StoredStates
        BY <1>1, <2>1, UpsertType
    <2>3. \/ UNCHANGED <<store, faults, refused>>
          \/ Written(Mutable(store), Upsert(store, provisional))
          \/ Thrown(Mutable(store), Upsert(store, provisional))
        BY <1>6 DEF Provision, Mutate, NoMutation, provisional
    <2>4. store' \in StoredStates /\ faults' \in 0..MaxFaults /\ refused' \in BOOLEAN
        BY <1>1, <1>3, <2>2, <2>3, WriteType
    <2>5. \/ req' = [req EXCEPT ![r].pc = "runtime", ![r].seen = provisional]
          \/ Goto(r, "epilogue")
        BY <1>6 DEF Provision, Mutate, provisional
    <2>6. /\ req' \in [Requests -> RequestStates]
          /\ req'[r].pc \in {"runtime", "epilogue"}
          /\ \A q \in Requests \ {r} : req'[q] = req[q]
        BY ZenonT(60), <1>2, <2>1, <2>5, SeenType, GotoType, StepNames
    <2> QED BY <1>1, <1>2, <1>6, <2>4, <2>6, TurnMoves DEF Provision
<1>7. CASE PrepareRuntime(r)
    <2>1. Upsert(store, SessionFailed(store.session)) \in StoredStates
        BY <1>1, PatchTypes, UpsertType
    <2>2. \/ UNCHANGED <<store, faults, refused>>
          \/ Written(Mutable(store), Upsert(store, SessionFailed(store.session)))
          \/ Thrown(Mutable(store), Upsert(store, SessionFailed(store.session)))
        BY <1>7 DEF PrepareRuntime, Mutate, NoMutation
    <2>3. store' \in StoredStates /\ faults' \in 0..MaxFaults /\ refused' \in BOOLEAN
        BY <1>1, <1>3, <2>1, <2>2, WriteType
    <2>4. Goto(r, "link") \/ Goto(r, "outer") \/ Goto(r, "epilogue")
        BY <1>7 DEF PrepareRuntime, Mutate
    <2>5. /\ req' \in [Requests -> RequestStates]
          /\ req'[r].pc \in {"link", "outer", "epilogue"}
          /\ \A q \in Requests \ {r} : req'[q] = req[q]
        BY <1>2, <2>4, GotoType, StepNames
    <2> QED BY <1>1, <1>2, <1>7, <2>3, <2>5, TurnMoves DEF PrepareRuntime
<1>8. CASE StartTurnOutput(r)
    <2>1. \/ Goto(r, "failing") /\ mem' = mem
          \/ /\ mem' = [mem EXCEPT !.turnId = IF @ = None THEN r ELSE @]
             /\ req' = [req EXCEPT ![r].pc = "linkWrite",
                                   ![r].seen = IF Present(store) THEN store.session ELSE @]
        BY <1>8 DEF StartTurnOutput
    <2>2. \/ Goto(r, "failing")
          \/ \E session \in Sessions :
                req' = [req EXCEPT ![r].pc = "linkWrite", ![r].seen = session]
        <3>1. [req EXCEPT ![r].pc = "linkWrite",
                          ![r].seen = IF Present(store) THEN store.session ELSE @]
              = [req EXCEPT ![r].pc = "linkWrite",
                            ![r].seen = IF Present(store) THEN store.session ELSE req[r].seen]
            BY <1>2 DEF RequestStates
        <3> QED BY <1>1, <1>2, <2>1, <3>1
    <2>3. /\ req' \in [Requests -> RequestStates]
          /\ req'[r].pc \in {"failing", "linkWrite"}
          /\ \A q \in Requests \ {r} : req'[q] = req[q]
        BY <1>2, <2>2, SeenType, GotoType, StepNames
    <2>4. mem' \in Memory /\ mem'.keyed = mem.keyed
        BY <1>2, <2>1 DEF Memory
    <2> QED BY <1>1, <1>8, <2>3, <2>4, TurnMoves DEF StartTurnOutput, NoMutation
<1>9. CASE LinkTurn(r)
    <2> DEFINE k == KeyOf[mem.keyed]
               print == PrintOf[mem.keyed]
               base == IF Present(store) THEN store.session ELSE req[r].seen
               unkeyed == Upsert(store, WithRunningTurn(req[r].seen, r, mem.turnId))
               session == WithRunningTurn(base, r, mem.turnId)
               keyed == Link(store, k, session)
    <2>1. base \in Sessions
        BY <1>1, <1>2
    <2>2. unkeyed \in StoredStates
        BY <1>1, <1>2, LinkedSessionType, UpsertType
    <2>3. ASSUME mem.keyed # None PROVE keyed \in StoredStates
        <3>1. k \in Keys
            BY <1>2, <1>3, <2>3, KeyOfType DEF KeysHeld
        <3>2. session \in Sessions
            BY <1>2, <2>1, LinkedSessionType
        <3> HIDE DEF k, session
        <3> QED BY <1>1, <3>1, <3>2, LinkType
    <2>4. \/ /\ mem.keyed = None
             /\ \/ Written(Mutable(store), unkeyed) \/ Thrown(Mutable(store), unkeyed)
          \/ /\ mem.keyed # None
             /\ \/ Written(CanLink(store, k, print, session), keyed)
                \/ Thrown(CanLink(store, k, print, session), keyed)
        BY <1>9 DEF LinkTurn, Mutate
    <2>5. Goto(r, "spawn") \/ Goto(r, "failing")
        BY <1>9 DEF LinkTurn, Mutate
    <2> HIDE DEF unkeyed, keyed, session, k, print, base
    <2>6. store' \in StoredStates /\ faults' \in 0..MaxFaults /\ refused' \in BOOLEAN
        BY <1>3, <2>2, <2>3, <2>4, WriteType
    <2>7. /\ req' \in [Requests -> RequestStates]
          /\ req'[r].pc \in {"spawn", "failing"}
          /\ \A q \in Requests \ {r} : req'[q] = req[q]
        BY <1>2, <2>5, GotoType, StepNames
    <2> QED BY <1>1, <1>2, <1>9, <2>6, <2>7, TurnMoves DEF LinkTurn
<1>10. CASE Spawn(r)
    <2>1. Goto(r, "failing") \/ Goto(r, "pid")
        BY <1>10 DEF Spawn
    <2>2. /\ req' \in [Requests -> RequestStates]
          /\ req'[r].pc \in {"failing", "pid"}
          /\ \A q \in Requests \ {r} : req'[q] = req[q]
        BY <1>2, <2>1, GotoType, StepNames
    <2>3. /\ mem' \in Memory /\ mem'.keyed = mem.keyed
          /\ proc' \in [Requests -> {"none", "alive", "dead"}]
        BY <1>1, <1>2, <1>10 DEF Spawn, Memory
    <2> QED BY <1>1, <1>10, <2>2, <2>3, TurnMoves DEF Spawn, NoMutation
<1>11. CASE RecordPid(r)
    <2> DEFINE session == [store.session EXCEPT !.turn.pid = r]
               next == IF store.session.turn.id = mem.turnId THEN Upsert(store, session) ELSE store
    <2>1. session \in Sessions
        BY <1>1 DEF Sessions, Turns, Requests
    <2>2. next \in StoredStates
        BY <1>1, <2>1, UpsertType
    <2>3. Written(Mutable(store), next) \/ Thrown(Mutable(store), next)
        BY <1>11 DEF RecordPid, Mutate
    <2>4. Goto(r, "run") \/ Goto(r, "failing")
        BY <1>11 DEF RecordPid, Mutate
    <2> HIDE DEF next
    <2>5. store' \in StoredStates /\ faults' \in 0..MaxFaults /\ refused' \in BOOLEAN
        BY <1>3, <2>2, <2>3, WriteType
    <2>6. /\ req' \in [Requests -> RequestStates]
          /\ req'[r].pc \in {"run", "failing"}
          /\ \A q \in Requests \ {r} : req'[q] = req[q]
        BY <1>2, <2>4, GotoType, StepNames
    <2> QED BY <1>1, <1>2, <1>11, <2>5, <2>6, TurnMoves DEF RecordPid
<1> QED BY <1>4, <1>5, <1>6, <1>7, <1>8, <1>9, <1>10, <1>11

\* The end of a turn, and of its process, keeps the types.
LEMMA FinishType ==
    ASSUME TypeInv, NEW r \in Requests,
           \/ Exit(r) \/ ReadExit(r) \/ Finalize(r) \/ RecordThrow(r)
           \/ HandleStartThrow(r) \/ ReleaseTurn(r)
    PROVE  TypeInv'
<1>1. /\ store \in StoredStates /\ store.session \in Sessions
      /\ faults \in 0..MaxFaults /\ refused \in BOOLEAN
      /\ proc \in [Requests -> {"none", "alive", "dead"}]
    BY DEF TypeInv, TypeOK, StoredStates
<1>2. /\ req \in [Requests -> RequestStates] /\ mem \in Memory
      /\ req[r].seen \in Sessions /\ req[r].result \in {"idle", "failed"}
      /\ mem.turnId \in Requests \cup {None} /\ mem.keyed \in Requests \cup {None}
    BY DEF TypeInv, TypeOK, RequestStates, Memory
<1>3. TypeOK /\ KeysHeld
    BY DEF TypeInv
<1>4. CASE Exit(r)
    <2>1. /\ mem' \in Memory /\ mem'.keyed = mem.keyed
          /\ proc' \in [Requests -> {"none", "alive", "dead"}]
        BY <1>1, <1>2, <1>4 DEF Exit, Memory
    <2>2. TypeOK'
        BY <1>3, <1>4, <2>1 DEF Exit, NoMutation, TypeOK
    <2>3. KeysHeld'
        BY <1>3, <1>4, <2>1 DEF Exit, KeysHeld, Keyed
    <2> QED BY <2>2, <2>3 DEF TypeInv
<1>5. CASE ReadExit(r)
    <2>1. \/ \E result \in {"idle", "failed"} :
                req' = [req EXCEPT ![r].pc = "final", ![r].result = result]
          \/ Goto(r, "failing")
          \/ req' = [req EXCEPT ![r].pc = "link", ![r].retried = TRUE]
        BY <1>5 DEF ReadExit
    <2> DEFINE Moved == /\ req' \in [Requests -> RequestStates]
                        /\ req'[r].pc \in {"final", "failing", "link"}
                        /\ \A q \in Requests \ {r} : req'[q] = req[q]
    <2>2. ASSUME Goto(r, "failing") PROVE Moved
        BY <1>2, <2>2, GotoType, StepNames
    <2>3. ASSUME NEW result \in {"idle", "failed"},
                 req' = [req EXCEPT ![r].pc = "final", ![r].result = result]
          PROVE  Moved
        <3>1. [req[r] EXCEPT !.pc = "final", !.result = result] \in RequestStates
            BY <1>2, StepNames DEF RequestStates
        <3> QED BY <1>2, <2>3, <3>1 DEF RequestStates
    <2>4. ASSUME req' = [req EXCEPT ![r].pc = "link", ![r].retried = TRUE]
          PROVE  Moved
        <3>1. [req[r] EXCEPT !.pc = "link", !.retried = TRUE] \in RequestStates
            BY <1>2, StepNames DEF RequestStates
        <3> QED BY <1>2, <2>4, <3>1 DEF RequestStates
    <2>5. Moved
        BY <2>1, <2>2, <2>3, <2>4
    <2> QED BY <1>1, <1>2, <1>5, <2>5, TurnMoves DEF ReadExit, NoMutation
<1>6. ASSUME NEW kind \in {"success", "error"}, NEW result \in {"idle", "failed"},
             NEW next \in {"epilogue", "outer"}, PersistFinal(r, kind, result, next)
      PROVE  TypeInv'
    <2> DEFINE session == FinalSession(store.session, result)
               k == KeyOf[mem.keyed]
               unkeyed == Upsert(store, session)
               keyed == Settled(store, k, kind, session)
               Write(allowed, written) == Written(allowed, written) \/ Thrown(allowed, written)
    <2>1. session \in Sessions
        BY <1>1, <1>2, FinalSessionType
    <2>2. unkeyed \in StoredStates
        BY <1>1, <2>1, UpsertType
    <2>3. ASSUME mem.keyed # None PROVE keyed \in StoredStates
        <3>1. k \in Keys
            BY <1>2, <1>3, <2>3, KeyOfType DEF KeysHeld
        <3> HIDE DEF k, session
        <3> QED BY <1>1, <2>1, <3>1, SettledType
    <2>4. \/ /\ mem.keyed = None
             /\ Write(Mutable(store) /\ Present(store), unkeyed)
          \/ /\ mem.keyed # None
             /\ Write(CanSettle(store, k, PrintOf[mem.keyed]) /\ Present(store), keyed)
        BY <1>6 DEF PersistFinal, Mutate
    <2>5. \/ mem' = TurnRecorded /\ Goto(r, next)
          \/ Goto(r, AfterThrow(r)) /\ mem' = mem
        BY <1>6 DEF PersistFinal, Mutate
    <2>6. UNCHANGED <<proc, up, op, crashes, report>>
        BY <1>6 DEF PersistFinal
    <2> HIDE DEF session, k, unkeyed, keyed
    <2>7. store' \in StoredStates /\ faults' \in 0..MaxFaults /\ refused' \in BOOLEAN
        BY <1>3, <2>2, <2>3, <2>4, WriteType
    <2>8. mem' \in Memory /\ mem'.keyed = mem.keyed
        BY <1>2, <2>5 DEF TurnRecorded, Memory
    <2>9. /\ req' \in [Requests -> RequestStates]
          /\ req'[r].pc \in {"epilogue", "outer"}
          /\ \A q \in Requests \ {r} : req'[q] = req[q]
        <3>1. AfterThrow(r) \in {"epilogue", "outer"}
            BY DEF AfterThrow
        <3> QED BY <1>2, <2>5, <3>1, GotoType, StepNames
    <2> QED BY <1>1, <2>6, <2>7, <2>8, <2>9, TurnMoves
<1>7. CASE Finalize(r)
    BY <1>2, <1>6, <1>7 DEF Finalize
<1>8. CASE RecordThrow(r)
    BY <1>6, <1>8 DEF RecordThrow, AfterThrow
<1>9. CASE HandleStartThrow(r)
    <2> DEFINE base == IF Present(store) THEN store.session ELSE req[r].seen
               failed == [base EXCEPT !.state = "failed"]
               next == IF store.session.state = "stopped" \/ store.session.turn.state = "failed"
                       THEN store ELSE Upsert(store, failed)
    <2>1. failed \in Sessions
        BY <1>1, <1>2 DEF Sessions, SessionStates
    <2> HIDE DEF failed
    <2>2. next \in StoredStates
        BY <1>1, <2>1, UpsertType
    <2>3. UNCHANGED <<store, faults, refused>> \/ Written(TRUE, next) \/ Thrown(TRUE, next)
        BY <1>9 DEF HandleStartThrow, Mutate, NoMutation, failed
    <2> HIDE DEF next
    <2>4. store' \in StoredStates /\ faults' \in 0..MaxFaults /\ refused' \in BOOLEAN
        BY <1>1, <1>3, <2>2, <2>3, WriteType
    <2>5. Goto(r, "epilogue")
        BY <1>9 DEF HandleStartThrow, Mutate
    <2>6. /\ req' \in [Requests -> RequestStates] /\ req'[r].pc = "epilogue"
          /\ \A q \in Requests \ {r} : req'[q] = req[q]
        BY <1>2, <2>5, GotoType, StepNames
    <2> QED BY <1>1, <1>2, <1>9, <2>4, <2>6, TurnMoves DEF HandleStartThrow
<1>10. CASE ReleaseTurn(r)
    <2> DEFINE allowed == CanSettleBehindFence(store, KeyOf[r], PrintOf[r])
               next == Settled(store, KeyOf[r], "error", SettledByThrow(store.session, r))
    <2> DEFINE Recorded ==
            /\ store' \in StoredStates /\ faults' \in 0..MaxFaults /\ refused' \in BOOLEAN
            /\ \E answer \in Answers : Answer(r, answer)
    <2>1. ASSUME ReceiptState(r) # "running" PROVE Recorded
        <3>1. VerdictOf(r) \in {"failed", "accepted"} /\ Answer(r, VerdictOf(r))
            BY <1>10, <2>1 DEF ReleaseTurn, VerdictOf
        <3>2. UNCHANGED <<store, faults, refused>>
            BY <1>10, <2>1 DEF ReleaseTurn, NoMutation
        <3> QED BY <1>1, <3>1, <3>2, StepNames
    <2>2. ASSUME ReceiptState(r) = "running" PROVE Recorded
        <3>1. KeyOf[r] \in Keys
            BY <2>2, KeyOfType DEF ReceiptState
        <3>2. next \in StoredStates
            BY <1>1, <3>1, PatchTypes, SettledType
        <3>3. Written(allowed, next) \/ Thrown(allowed, next)
            BY <1>10, <2>2 DEF ReleaseTurn, Mutate
        <3>4. Answer(r, "failed") \/ Answer(r, "refused")
            BY <1>10, <2>2 DEF ReleaseTurn, Mutate
        <3> HIDE DEF next, allowed
        <3>5. store' \in StoredStates /\ faults' \in 0..MaxFaults /\ refused' \in BOOLEAN
            BY <1>3, <3>2, <3>3, WriteType
        <3> QED BY <3>4, <3>5, StepNames
    <2>3. Recorded
        BY <2>1, <2>2
    <2>4. /\ req' \in [Requests -> RequestStates] /\ req'[r].pc = "done"
          /\ \A q \in Requests \ {r} : req'[q] = req[q]
        BY <1>2, <2>3, AnswerType
    <2>5. mem' \in Memory /\ mem'.keyed = None
        BY <1>2, <1>10 DEF ReleaseTurn, Memory
    <2> QED BY <1>1, <1>10, <2>3, <2>4, <2>5, TurnMoves DEF ReleaseTurn
<1> QED BY <1>4, <1>5, <1>7, <1>8, <1>9, <1>10

\* What is left to show of a step of a verb.
LEMMA VerbMoves ==
    ASSUME TypeInv,
           mem' \in Memory, mem'.keyed = mem.keyed, op' \in Operations, report' \in Reports,
           store' \in StoredStates, faults' \in 0..MaxFaults, refused' \in BOOLEAN,
           UNCHANGED <<proc, up, req, crashes>>
    PROVE  TypeInv'
<1>1. TypeOK'
    BY DEF TypeInv, TypeOK
<1>2. KeysHeld'
    BY DEF TypeInv, KeysHeld, Keyed
<1> QED BY <1>1, <1>2 DEF TypeInv

LEMMA NoOpType == NoOp \in Operations
BY AbsentType, LimitAssumption DEF NoOp, Operations, OpSteps

LEMMA OpGotoType ==
    ASSUME op \in Operations, NEW pc \in OpSteps
    PROVE  [op EXCEPT !.pc = pc] \in Operations
BY DEF Operations

\* The verbs that take more than one step keep the types.
LEMMA StopType ==
    ASSUME TypeInv,
           StopBegin \/ StopResolveFence \/ DrainTimesOut \/ StopDrained \/ StopWrite
    PROVE  TypeInv'
<1>1. /\ store \in StoredStates /\ store.session \in Sessions
      /\ faults \in 0..MaxFaults /\ refused \in BOOLEAN /\ report \in Reports
      /\ mem \in Memory /\ op \in Operations
    BY DEF TypeInv, TypeOK, StoredStates
<1>2. {"none", "fence", "drain", "stopWrite", "prove", "record", "remove", "unfence",
       "focusWrite"} = OpSteps
    BY DEF OpSteps
<1>3. CASE StopBegin
    <2> DEFINE pc == IF Present(store) /\ store.session.fence.on THEN "fence"
                     ELSE IF mem.active # None THEN "drain" ELSE "stopWrite"
    <2>1. op' = [verb |-> "stop", pc |-> pc, had |-> mem.active # None,
                 seen |-> store.session, epoch |-> 0, purpose |-> "none"]
        BY <1>3 DEF StopBegin, NoOp
    <2>2. pc \in OpSteps /\ (mem.active # None) \in BOOLEAN
        BY <1>2
    <2> HIDE DEF pc
    <2>3. op' \in Operations
        BY <1>1, <2>1, <2>2, LimitAssumption DEF Operations
    <2>4. mem' \in Memory /\ mem'.keyed = mem.keyed
        BY <1>1, <1>3 DEF StopBegin, Memory
    <2> QED BY <1>1, <1>3, <2>3, <2>4, VerbMoves DEF StopBegin, NoMutation
<1>4. CASE StopResolveFence
    <2>1. (\E pc \in OpSteps : OpGoto(pc)) \/ op' = NoOp
        BY <1>2, <1>4 DEF StopResolveFence, OpEnds
    <2>2. op' \in Operations
        BY <1>1, <2>1, OpGotoType, NoOpType DEF OpGoto
    <2>3. mem' \in Memory /\ mem'.keyed = mem.keyed
        BY <1>1, <1>4 DEF StopResolveFence, Unlocked, Memory
    <2> QED BY <1>1, <1>4, <2>2, <2>3, VerbMoves DEF StopResolveFence, NoMutation
<1>5. CASE DrainTimesOut
    <2>1. mem' \in Memory /\ mem'.keyed = mem.keyed
        BY <1>1, <1>5 DEF DrainTimesOut, Unlocked, Memory
    <2> QED BY <1>1, <1>5, <2>1, NoOpType, VerbMoves DEF DrainTimesOut, OpEnds, NoMutation
<1>6. CASE StopDrained
    <2>1. \/ \E pc \in OpSteps :
                op' = [op EXCEPT !.seen = store.session, !.had = FALSE, !.pc = pc]
          \/ OpGoto("stopWrite")
        BY <1>2, <1>6 DEF StopDrained
    <2>2. \A pc \in OpSteps :
              [op EXCEPT !.seen = store.session, !.had = FALSE, !.pc = pc] \in Operations
        BY <1>1 DEF Operations
    <2>4. op' \in Operations
        BY <1>1, <1>2, <2>1, <2>2, OpGotoType DEF OpGoto
    <2>3. mem' \in Memory /\ mem'.keyed = mem.keyed
        BY <1>1, <1>6 DEF StopDrained, Memory
    <2> QED BY <1>1, <1>6, <2>4, <2>3, VerbMoves DEF StopDrained, NoMutation
<1>7. CASE StopWrite
    <2> DEFINE next(k) == Settled(store, k, "error", IF Present(store)
                                                    THEN StoppedSession(store.session)
                                                    ELSE store.session)
               stopped == Upsert(store, StoppedSession(store.session))
    <2>1. \A k \in KeysIn(store, "running") : next(k) \in StoredStates
        <3>1. (IF Present(store) THEN StoppedSession(store.session) ELSE store.session) \in Sessions
            BY <1>1, PatchTypes
        <3> QED BY <1>1, <3>1, SettledType DEF KeysIn
    <2>2. stopped \in StoredStates
        BY <1>1, PatchTypes, UpsertType
    <2>3. \/ UNCHANGED <<store, faults, refused>>
          \/ \E k \in KeysIn(store, "running") : Written(TRUE, next(k)) \/ Thrown(TRUE, next(k))
          \/ Written(Mutable(store), stopped) \/ Thrown(Mutable(store), stopped)
        BY <1>7 DEF StopWrite, Mutate, NoMutation
    <2>4. StopSucceeds \/ StopFails
        BY <1>7 DEF StopWrite, Mutate
    <2>5. UNCHANGED <<proc, up, req, crashes>>
        BY <1>7 DEF StopWrite
    <2> HIDE DEF next, stopped
    <2>6. store' \in StoredStates /\ faults' \in 0..MaxFaults /\ refused' \in BOOLEAN
        BY <1>1, <2>1, <2>2, <2>3, WriteType DEF TypeInv
    <2>7. mem' \in Memory /\ mem'.keyed = mem.keyed /\ report' \in Reports
        BY <1>1, <2>4, ReportTypes DEF StopSucceeds, StopFails, Unlocked, Memory
    <2>8. op' \in Operations
        BY <2>4, NoOpType DEF StopSucceeds, StopFails, OpEnds
    <2> QED BY <2>5, <2>6, <2>7, <2>8, VerbMoves
<1> QED BY <1>3, <1>4, <1>5, <1>6, <1>7

LEMMA ClosingType ==
    ASSUME TypeInv,
           \/ QuiesceBegin
           \/ \E verb \in {"purge", "gc"} :
                  PurgeAgain(verb) \/ PurgeUnknown(verb) \/ PurgeBegin(verb)
           \/ CloseDrained \/ ProveClosed \/ RecordClosed \/ PurgeRemove \/ PurgeUnfence
    PROVE  TypeInv'
<1>1. /\ store \in StoredStates /\ store.session \in Sessions
      /\ faults \in 0..MaxFaults /\ refused \in BOOLEAN /\ report \in Reports
      /\ mem \in Memory /\ op \in Operations
    BY DEF TypeInv, TypeOK, StoredStates
<1>2. {"none", "fence", "drain", "stopWrite", "prove", "record", "remove", "unfence",
       "focusWrite"} = OpSteps
    BY DEF OpSteps
<1>3. ASSUME NEW verb \in {"quiesce", "purge", "gc"}, NEW tracked \in BOOLEAN,
             NEW next \in StoredStates, BeginClosing(verb, tracked, next)
      PROVE  op' \in Operations /\ mem' \in Memory /\ mem'.keyed = mem.keyed /\ report' \in Reports
    <2>1. op' = [verb |-> verb, pc |-> "drain", had |-> tracked, seen |-> store.session,
                 epoch |-> next.active.epoch, purpose |-> next.active.purpose]
        BY <1>3 DEF BeginClosing, NoOp
    <2>2. next.active.epoch \in 0..MaxEpoch /\ next.active.purpose \in {"none", "external", "purge"}
        BY DEF StoredStates, Reservations
    <2>3. op' \in Operations
        BY <1>1, <1>2, <2>1, <2>2 DEF Operations
    <2>4. mem' \in Memory /\ mem'.keyed = mem.keyed /\ report' \in Reports
        BY <1>1, <1>3, ReportTypes DEF BeginClosing, Memory
    <2> QED BY <2>3, <2>4
<1>4. CASE QuiesceBegin
    <2> DEFINE next == Reserve(store, "external")
    <2>1. CanReserve(store) => next \in StoredStates
        BY <1>1, FenceType
    <2> HIDE DEF next
    <2>2. \/ /\ Written(CanReserve(store), next)
             /\ \/ BeginClosing("quiesce", Tracked, next)
                \/ report' = ReportedEpoch(next.active.epoch) /\ UNCHANGED <<op, mem>>
          \/ Thrown(CanReserve(store), next) /\ UNCHANGED <<op, mem, report>>
        BY <1>4 DEF QuiesceBegin, Mutate, next
    <2>3. store' \in StoredStates /\ faults' \in 0..MaxFaults /\ refused' \in BOOLEAN
        BY <2>1, <2>2, WriteType DEF TypeInv
    <2>4. op' \in Operations /\ mem' \in Memory /\ mem'.keyed = mem.keyed /\ report' \in Reports
        <3>1. Tracked \in BOOLEAN
            BY DEF Tracked
        <3>2. Written(CanReserve(store), next) => next \in StoredStates
            BY <2>1 DEF Written
        <3>3. next \in StoredStates => ReportedEpoch(next.active.epoch) \in Reports
            BY <1>1, ReportTypes DEF StoredStates, Reservations
        <3> QED BY <1>1, <1>3, <2>2, <3>1, <3>2, <3>3
    <2> QED BY <1>4, <2>3, <2>4, VerbMoves DEF QuiesceBegin
<1>5. ASSUME NEW verb \in {"purge", "gc"}, PurgeAgain(verb)
      PROVE  TypeInv'
    <2>1. Written(TRUE, Release(store)) \/ Thrown(TRUE, Release(store))
        BY <1>5 DEF PurgeAgain, Mutate
    <2>2. store' \in StoredStates /\ faults' \in 0..MaxFaults /\ refused' \in BOOLEAN
        BY <1>1, <2>1, FenceType, WriteType DEF TypeInv
    <2>3. mem' \in Memory /\ mem'.keyed = mem.keyed
        BY <1>1, <1>5 DEF PurgeAgain, Mutate, PurgeReturns, Memory
    <2>4. report' \in Reports
        BY <1>1, <1>5, ReportTypes DEF PurgeAgain, Mutate
    <2> QED BY <1>1, <1>5, <2>2, <2>3, <2>4, VerbMoves DEF PurgeAgain
<1>6. ASSUME NEW verb \in {"purge", "gc"}, PurgeUnknown(verb)
      PROVE  TypeInv'
    <2>1. mem' \in Memory /\ mem'.keyed = mem.keyed
        BY <1>1, <1>6 DEF PurgeUnknown, PurgeReturns, Memory
    <2> QED BY <1>1, <1>6, <2>1, VerbMoves DEF PurgeUnknown, NoMutation
<1>7. ASSUME NEW verb \in {"purge", "gc"}, PurgeBegin(verb)
      PROVE  TypeInv'
    <2> DEFINE next == Reserve(store, "purge")
               tracked == Tracked \/ Running(store)
    <2>1. CanReserve(store) => next \in StoredStates
        BY <1>1, FenceType
    <2>2. tracked \in BOOLEAN
        BY DEF Tracked, Running
    <2> HIDE DEF next
    <2>3. \/ Written(CanReserve(store), next) /\ BeginClosing(verb, tracked, next)
          \/ Thrown(CanReserve(store), next) /\ PurgeReturns(verb) /\ UNCHANGED <<op, report>>
        BY <1>7 DEF PurgeBegin, Mutate, next
    <2> HIDE DEF tracked
    <2>4. store' \in StoredStates /\ faults' \in 0..MaxFaults /\ refused' \in BOOLEAN
        BY <2>1, <2>3, WriteType DEF TypeInv
    <2>5. op' \in Operations /\ mem' \in Memory /\ mem'.keyed = mem.keyed /\ report' \in Reports
        <3>1. Written(CanReserve(store), next) => next \in StoredStates
            BY <2>1 DEF Written
        <3>2. PurgeReturns(verb) => mem' \in Memory /\ mem'.keyed = mem.keyed
            BY <1>1 DEF PurgeReturns, Memory
        <3> QED BY <1>1, <1>3, <2>2, <2>3, <3>1, <3>2
    <2> QED BY <1>7, <2>4, <2>5, VerbMoves DEF PurgeBegin
<1>8. CASE CloseDrained
    <2>1. \/ \E pc \in OpSteps : OpGoto(pc)
          \/ op' = [op EXCEPT !.pc = "prove", !.seen = store.session, !.had = TRUE]
          \/ op' = NoOp
        BY <1>2, <1>8 DEF CloseDrained, OpEnds
    <2>2. [op EXCEPT !.pc = "prove", !.seen = store.session, !.had = TRUE] \in Operations
        BY <1>1, <1>2 DEF Operations
    <2>4. op' \in Operations
        BY <1>1, <1>2, <2>1, <2>2, OpGotoType, NoOpType DEF OpGoto
    <2>3. mem' \in Memory /\ mem'.keyed = mem.keyed /\ report' \in Reports
        BY <1>1, <1>8, ReportTypes DEF CloseDrained, Unlocked, Memory, Operations
    <2> QED BY <1>1, <1>8, <2>4, <2>3, VerbMoves DEF CloseDrained, NoMutation
<1>9. CASE ProveClosed
    <2>1. OpGoto("record") \/ op' = NoOp
        BY <1>9 DEF ProveClosed, OpEnds
    <2>2. op' \in Operations
        BY <1>1, <1>2, <2>1, OpGotoType, NoOpType DEF OpGoto
    <2>3. mem' \in Memory /\ mem'.keyed = mem.keyed
        BY <1>1, <1>9 DEF ProveClosed, Unlocked, Memory
    <2> QED BY <1>1, <1>9, <2>2, <2>3, VerbMoves DEF ProveClosed, NoMutation
<1>10. CASE RecordClosed
    <2> DEFINE next == Upsert(store, QuiescedSession(store.session))
               allowed == CanPatchQuiesced(store, op.epoch)
    <2>1. next \in StoredStates
        BY <1>1, PatchTypes, UpsertType
    <2>2. Written(allowed, next) \/ Thrown(allowed, next)
        BY <1>10 DEF RecordClosed, Mutate
    <2>3. op' = NoOp \/ OpGoto("remove")
        BY <1>10 DEF RecordClosed, Mutate, OpEnds
    <2>4. mem' \in Memory /\ mem'.keyed = mem.keyed /\ report' \in Reports
        BY <1>1, <1>10, ReportTypes DEF RecordClosed, Mutate, Unlocked, Memory, Operations
    <2> HIDE DEF next, allowed
    <2>5. store' \in StoredStates /\ faults' \in 0..MaxFaults /\ refused' \in BOOLEAN
        BY <2>1, <2>2, WriteType DEF TypeInv
    <2>6. op' \in Operations
        BY <1>1, <1>2, <2>3, OpGotoType, NoOpType DEF OpGoto
    <2> QED BY <1>10, <2>4, <2>5, <2>6, VerbMoves DEF RecordClosed
<1>11. CASE PurgeRemove
    <2>1. CanRemove(store) => Remove(store) \in StoredStates
        BY <1>1, RemoveType
    <2>2. Written(CanRemove(store), Remove(store)) \/ Thrown(CanRemove(store), Remove(store))
        BY <1>11 DEF PurgeRemove, Mutate
    <2>3. op' = NoOp \/ OpGoto("unfence")
        BY <1>11 DEF PurgeRemove, Mutate, OpEnds
    <2>4. mem' \in Memory /\ mem'.keyed = mem.keyed /\ report' \in Reports
        <3>1. mem' \in Memory /\ mem'.keyed = mem.keyed
            BY <1>1, <1>11 DEF PurgeRemove, Mutate, Unlocked, Memory
        <3>2. report' \in Reports
            BY <1>1, <1>11, ReportTypes DEF PurgeRemove, Mutate, Operations
        <3> QED BY <3>1, <3>2
    <2>5. store' \in StoredStates /\ faults' \in 0..MaxFaults /\ refused' \in BOOLEAN
        BY <2>1, <2>2, WriteType DEF TypeInv
    <2>6. op' \in Operations
        BY <1>1, <1>2, <2>3, OpGotoType, NoOpType DEF OpGoto
    <2> QED BY <1>11, <2>4, <2>5, <2>6, VerbMoves DEF PurgeRemove
<1>12. CASE PurgeUnfence
    <2> DEFINE allowed == CanRelease(store, op.epoch)
    <2>1. Written(allowed, Release(store)) \/ Thrown(allowed, Release(store))
        BY <1>12 DEF PurgeUnfence, Mutate
    <2>2. mem' \in Memory /\ mem'.keyed = mem.keyed /\ report' \in Reports /\ op' = NoOp
        BY <1>1, <1>12, ReportTypes DEF PurgeUnfence, Mutate, Unlocked, OpEnds, Memory
    <2> HIDE DEF allowed
    <2>3. store' \in StoredStates /\ faults' \in 0..MaxFaults /\ refused' \in BOOLEAN
        BY <1>1, <2>1, FenceType, WriteType DEF TypeInv
    <2> QED BY <1>12, <2>2, <2>3, NoOpType, VerbMoves DEF PurgeUnfence
<1> QED BY <1>4, <1>5, <1>6, <1>7, <1>8, <1>9, <1>10, <1>11, <1>12

LEMMA ShortVerbType ==
    ASSUME TypeInv,
           \/ GcList \/ GcVisit \/ (\E e \in 1..MaxEpoch : ReleaseFence(e))
           \/ Resume \/ Suspend \/ FocusRead \/ FocusWrite \/ OtherNameQuiesces
    PROVE  TypeInv'
<1>1. /\ store \in StoredStates /\ store.session \in Sessions
      /\ faults \in 0..MaxFaults /\ refused \in BOOLEAN /\ report \in Reports
      /\ mem \in Memory /\ op \in Operations /\ op.seen \in Sessions
    BY DEF TypeInv, TypeOK, StoredStates, Operations
<1>2. CASE GcList
    <2>1. mem' \in Memory /\ mem'.keyed = mem.keyed
        BY <1>1, <1>2 DEF GcList, Memory
    <2> QED BY <1>1, <1>2, <2>1, VerbMoves DEF GcList, NoMutation
<1>3. CASE GcVisit
    <2>1. mem' \in Memory /\ mem'.keyed = mem.keyed
        BY <1>1, <1>3 DEF GcVisit, Memory
    <2> QED BY <1>1, <1>3, <2>1, VerbMoves DEF GcVisit, NoMutation
<1>4. ASSUME NEW e \in 1..MaxEpoch, ReleaseFence(e)
      PROVE  TypeInv'
    <2>1. Written(TRUE, Release(store)) \/ Thrown(TRUE, Release(store))
        BY <1>4 DEF ReleaseFence, Mutate
    <2>2. store' \in StoredStates /\ faults' \in 0..MaxFaults /\ refused' \in BOOLEAN
        BY <1>1, <2>1, FenceType, WriteType DEF TypeInv
    <2>3. mem' \in Memory /\ mem'.keyed = mem.keyed
        BY <1>1, <1>4 DEF ReleaseFence, Mutate, Memory
    <2> QED BY <1>1, <1>4, <2>2, <2>3, VerbMoves DEF ReleaseFence
<1>5. ASSUME NEW state \in SessionStates,
             LET next == Upsert(store, [store.session EXCEPT !.state = state])
             IN  Written(TRUE, next) \/ Thrown(TRUE, next),
             UNCHANGED <<proc, up, mem, req, op, crashes, report>>
      PROVE  TypeInv'
    <2> DEFINE next == Upsert(store, [store.session EXCEPT !.state = state])
    <2>1. [store.session EXCEPT !.state = state] \in Sessions
        BY <1>1 DEF Sessions
    <2>2. next \in StoredStates
        BY <1>1, <2>1, UpsertType
    <2> HIDE DEF next
    <2>3. store' \in StoredStates /\ faults' \in 0..MaxFaults /\ refused' \in BOOLEAN
        BY <1>5, <2>2, WriteType DEF TypeInv, next
    <2> QED BY <1>1, <1>5, <2>3, VerbMoves
<1>6. CASE Resume
    BY <1>5, <1>6 DEF Resume, Mutate, SessionStates
<1>7. CASE Suspend
    BY <1>5, <1>7 DEF Suspend, Mutate, SessionStates
<1>8. CASE FocusRead
    <2>1. op' \in Operations
        <3>1. op' = [verb |-> "focus", pc |-> "focusWrite", had |-> FALSE,
                     seen |-> store.session, epoch |-> 0, purpose |-> "none"]
            BY <1>8 DEF FocusRead, NoOp
        <3> QED BY <1>1, <3>1, LimitAssumption DEF Operations, OpSteps
    <2>2. mem' \in Memory /\ mem'.keyed = mem.keyed
        BY <1>1, <1>8 DEF FocusRead, Lock, Memory
    <2> QED BY <1>1, <1>8, <2>1, <2>2, VerbMoves DEF FocusRead, Lock, NoMutation
<1>9. CASE FocusWrite
    <2> DEFINE next == Upsert(store, op.seen)
    <2>1. next \in StoredStates
        BY <1>1, UpsertType
    <2>2. Written(Mutable(store), next) \/ Thrown(Mutable(store), next)
        BY <1>9 DEF FocusWrite, Mutate
    <2> HIDE DEF next
    <2>3. store' \in StoredStates /\ faults' \in 0..MaxFaults /\ refused' \in BOOLEAN
        BY <2>1, <2>2, WriteType DEF TypeInv
    <2>4. mem' \in Memory /\ mem'.keyed = mem.keyed
        BY <1>1, <1>9 DEF FocusWrite, Unlocked, Memory
    <2> QED BY <1>1, <1>9, <2>3, <2>4, NoOpType, VerbMoves DEF FocusWrite, OpEnds
<1>10. CASE OtherNameQuiesces
    <2>1. store' \in StoredStates
        BY <1>1, <1>10, FenceType DEF OtherNameQuiesces
    <2> QED BY <1>1, <1>10, <2>1, VerbMoves DEF OtherNameQuiesces
<1> QED BY <1>2, <1>3, <1>4, <1>6, <1>7, <1>8, <1>9, <1>10

LEMMA ReconciledType ==
    ASSUME NEW s \in StoredStates
    PROVE  Reconciled(s) \in StoredStates
<1> DEFINE k == CHOOSE k \in KeysIn(s, "running") : TRUE
           settle(session) == Settled(s, k, "error", session)
<1>1. s.session \in Sessions
    BY DEF StoredStates
<1>2. ASSUME Running(s), NEW session \in Sessions
      PROVE  settle(session) \in StoredStates
    <2>1. k \in Keys
        BY <1>2 DEF Running, KeysIn
    <2> HIDE DEF k
    <2> QED BY <1>2, <2>1, SettledType
<1>3. /\ InterruptedSession(s.session) \in Sessions
      /\ OrphanedSession(s.session) \in Sessions
      /\ FencedSession(s.session) \in Sessions
    BY <1>1, PatchTypes
<1>4. /\ Upsert(s, FencedSession(s.session)) \in StoredStates
      /\ Upsert(s, OrphanedSession(s.session)) \in StoredStates
    BY <1>3, UpsertType
<1>5. CASE Interrupted(s)
    <2>1. Running(s)
        BY <1>5 DEF Interrupted
    <2>2. /\ settle(InterruptedSession(s.session)) \in StoredStates
          /\ settle(s.session) \in StoredStates
        BY <1>1, <1>2, <1>3, <2>1
    <2> QED BY <1>5, <2>2 DEF Reconciled
<1>6. CASE ~Interrupted(s)
    <2>1. Running(s) => settle(OrphanedSession(s.session)) \in StoredStates
        BY <1>2, <1>3
    <2> QED BY <1>4, <1>6, <2>1 DEF Reconciled
<1> QED BY <1>5, <1>6

LEMMA CrashType ==
    ASSUME TypeInv, Crash \/ Restart
    PROVE  TypeInv'
<1>1. /\ store \in StoredStates /\ faults \in 0..MaxFaults /\ crashes \in 0..MaxCrashes
      /\ req \in [Requests -> RequestStates]
    BY DEF TypeInv, TypeOK
<1>2. CASE Crash
    <2>1. req' \in [Requests -> RequestStates]
        <3>1. \A r \in Requests :
                  [NoRequest EXCEPT !.pc = "lost", !.generation = req[r].generation] \in RequestStates
            <4> SUFFICES ASSUME NEW r \in Requests
                PROVE  [NoRequest EXCEPT !.pc = "lost", !.generation = req[r].generation] \in RequestStates
                OBVIOUS
            <4>1. NoRequest \in RequestStates
                BY AbsentType, LimitAssumption DEF NoRequest, RequestStates, RequestSteps, Answers
            <4>2. "lost" \in RequestSteps /\ req[r].generation \in 0..MaxGeneration
                BY <1>1 DEF RequestStates, RequestSteps
            <4> QED BY <4>1, <4>2 DEF RequestStates
        <3> QED BY <1>1, <1>2, <3>1 DEF Crash
    <2>2. \A r \in Requests : req'[r].pc \in {"new", "done", "lost"}
        BY <1>1, <1>2 DEF Crash, NoRequest
    <2>3. NoMemory \in Memory /\ NoMemory.keyed = None
        BY DEF NoMemory, Memory
    <2>4. crashes' \in 0..MaxCrashes
        <3>1. crashes < MaxCrashes /\ crashes' = crashes + 1
            BY <1>2 DEF Crash
        <3> QED BY <1>1, <3>1, RunAssumption
    <2>5. TypeOK'
        BY <1>2, <2>1, <2>3, <2>4, NoOpType DEF Crash, NoMutation, TypeInv, TypeOK
    <2>6. KeysHeld'
        BY <1>2, <2>2, <2>3 DEF Crash, KeysHeld, Keyed
    <2> QED BY <2>5, <2>6 DEF TypeInv
<1>3. CASE Restart
    <2>1. \/ UNCHANGED <<store, faults, refused>>
          \/ Written(TRUE, Reconciled(store)) \/ Thrown(TRUE, Reconciled(store))
        BY <1>3 DEF Restart, Mutate, NoMutation
    <2>2. store' \in StoredStates /\ faults' \in 0..MaxFaults /\ refused' \in BOOLEAN
        BY <1>1, <2>1, ReconciledType, WriteType DEF TypeInv, TypeOK
    <2>3. up' \in BOOLEAN
        BY <1>3 DEF Restart, Mutate, Interrupted, Running
    <2>4. TypeOK'
        BY <1>3, <2>2, <2>3 DEF Restart, TypeInv, TypeOK
    <2>5. KeysHeld'
        BY <1>3 DEF Restart, TypeInv, KeysHeld, Keyed
    <2> QED BY <2>4, <2>5 DEF TypeInv
<1> QED BY <1>2, <1>3

LEMMA NextType == TypeInv /\ [Next]_vars => TypeInv'
<1> SUFFICES ASSUME TypeInv, [Next]_vars PROVE TypeInv'
    OBVIOUS
<1>1. CASE UNCHANGED vars
    BY <1>1 DEF vars, TypeInv, TypeOK, KeysHeld, Keyed
<1>2. CASE \E r \in Requests : \E e \in 0..MaxEpoch : Call(r, e)
    BY <1>2, AdmissionType
<1>3. ASSUME NEW r \in Requests, Admission(r) \/ TurnStep(r) \/ Exit(r)
      PROVE  TypeInv'
    BY <1>3, AdmissionType, DispatchType, FinishType DEF Admission, TurnStep
<1>4. CASE OpBegin
    BY <1>4, StopType, ClosingType, ShortVerbType DEF OpBegin
<1>5. CASE OpStep
    BY <1>5, StopType, ClosingType, ShortVerbType DEF OpStep
<1>6. CASE Crash \/ Restart
    BY <1>6, CrashType
<1> QED BY <1>1, <1>2, <1>3, <1>4, <1>5, <1>6 DEF Next

\* Every variable keeps its type in every behaviour of one session name.
THEOREM TypeCorrect == Spec => []TypeOK
<1>1. Spec => []TypeInv
    BY InitType, NextType, PTL DEF Spec
<1>2. TypeInv => TypeOK
    BY DEF TypeInv
<1> QED BY <1>1, <1>2, PTL

-----------------------------------------------------------------------------
(* Every mutation but the removal of a session keeps the generation, the     *)
(* claims and the verdicts.                                                  *)

Decided == {"settled", "tombstone"}

FinalFor(k, s, t) ==
    s.receipts[k].state \in Decided
    => t.receipts[k] = s.receipts[k] \/ t.receipts[k].state = "tombstone"

Kept(s, t) ==
    /\ t.generation = s.generation
    /\ \A k \in Keys :
          /\ s.receipts[k].state # "free" => t.receipts[k].state # "free"
          /\ FinalFor(k, s, t)

LEMMA KeptDecided ==
    ASSUME NEW s, NEW t, Kept(s, t), NEW k \in Keys, s.receipts[k].state \in Decided
    PROVE  t.receipts[k].state \in Decided
BY DEF Kept, FinalFor, Decided

LEMMA ReceiptKept ==
    ASSUME NEW s \in StoredStates, NEW t \in StoredStates, NEW k \in Keys,
           t.generation = s.generation,
           \A j \in Keys \ {k} : t.receipts[j] = s.receipts[j],
           t.receipts[k].state # "free",
           s.receipts[k].state \notin Decided \/ t.receipts[k].state = "tombstone"
    PROVE  Kept(s, t)
BY DEF Kept, FinalFor

LEMMA RecordKept ==
    ASSUME NEW s \in StoredStates, NEW session
    PROVE  /\ Kept(s, s)
           /\ Kept(s, Upsert(s, session))
           /\ Kept(s, Release(s))
           /\ Kept(s, Enter(s))
           /\ Kept(s, AllocateElsewhere(s))
           /\ \A purpose : Kept(s, Reserve(s, purpose))
BY DEF Kept, FinalFor, Upsert, Release, Enter, AllocateElsewhere, Reserve, StoredStates

LEMMA SettledKept ==
    ASSUME NEW s \in StoredStates, NEW k \in Keys, NEW kind \in {"success", "error"},
           NEW session \in Sessions, s.receipts[k].state = "running"
    PROVE  Kept(s, Settled(s, k, kind, session))
<1> DEFINE t == Settled(s, k, kind, session)
<1>1. t \in StoredStates
    BY SettledType
<1>2. /\ t.generation = s.generation
      /\ \A j \in Keys \ {k} : t.receipts[j] = s.receipts[j]
    BY DEF Settled, StoredStates
<1>3. t.receipts[k].state = "settled"
    BY DEF Settled, StoredStates, Receipts
<1> HIDE DEF t
<1>4. Kept(s, t)
    BY <1>1, <1>2, <1>3, ReceiptKept DEF Decided
<1> QED BY <1>4 DEF t

LEMMA CompactedKept ==
    ASSUME NEW s \in StoredStates
    PROVE  Kept(s, Compacted(s))
<1>1. CASE Compacted(s) = s
    BY <1>1, RecordKept
<1>2. CASE /\ s.order # << >>
           /\ Compacted(s) = [s EXCEPT !.order = Tail(@),
                                       !.receipts[Head(s.order)].state = "tombstone",
                                       !.receipts[Head(s.order)].outcome = NoOutcome]
    <2> DEFINE t == Compacted(s)
               k == Head(s.order)
               receipt == [s.receipts[k] EXCEPT !.state = "tombstone", !.outcome = NoOutcome]
    <2>1. t \in StoredStates /\ k \in Keys
        BY <1>2, CompactedType DEF StoredStates
    <2>2. s.receipts \in [Keys -> Receipts]
        BY DEF StoredStates
    <2>3. receipt.state = "tombstone"
        BY <2>1, <2>2 DEF Receipts
    <2>4. t = [s EXCEPT !.order = Tail(s.order), !.receipts = [s.receipts EXCEPT ![k] = receipt]]
        BY <1>2, <2>1, <2>2 DEF StoredStates, Receipts
    <2> HIDE DEF t, k, receipt
    <2>5. /\ t.generation = s.generation
          /\ t.receipts = [s.receipts EXCEPT ![k] = receipt]
        BY <2>4 DEF StoredStates
    <2>6. Kept(s, t)
        BY <2>1, <2>2, <2>3, <2>5, ReceiptKept DEF Decided
    <2> QED BY <2>6 DEF t
<1> QED BY <1>1, <1>2 DEF Compacted

LEMMA ClaimKept ==
    ASSUME NEW s \in StoredStates, NEW k \in Keys, NEW print \in Prints, CanClaim(s, k)
    PROVE  Kept(s, Claim(s, k, print)) /\ Claim(s, k, print).receipts[k].state = "running"
<1> DEFINE c == Compacted(s)
           t == Claim(s, k, print)
<1>1. c \in StoredStates /\ t \in StoredStates /\ Kept(s, c)
    BY CompactedType, ClaimType, CompactedKept
<1>2. /\ t.generation = c.generation
      /\ \A j \in Keys \ {k} : t.receipts[j] = c.receipts[j]
      /\ t.receipts[k].state = "running"
    BY <1>1 DEF Claim, StoredStates, FreeReceipt
<1>3. s.receipts[k].state = "free"
    BY DEF CanClaim
<1> HIDE DEF c, t
<1>4. Kept(s, t)
    BY <1>1, <1>2, <1>3 DEF Kept, FinalFor, Decided
<1> QED BY <1>2, <1>4 DEF t

LEMMA LinkKept ==
    ASSUME NEW s \in StoredStates, NEW k \in Keys, NEW session \in Sessions,
           s.receipts[k].state = "running"
    PROVE  Kept(s, Link(s, k, session))
<1> DEFINE t == Link(s, k, session)
<1>1. /\ t.generation = s.generation
      /\ \A j \in Keys \ {k} : t.receipts[j] = s.receipts[j]
      /\ t.receipts[k].state = "running"
    BY DEF Link, StoredStates, Receipts
<1> QED BY <1>1 DEF Kept, FinalFor, Decided

LEMMA ReconciledKept ==
    ASSUME NEW s \in StoredStates
    PROVE  Kept(s, Reconciled(s))
<1> DEFINE k == CHOOSE k \in KeysIn(s, "running") : TRUE
           settle(session) == Settled(s, k, "error", session)
<1>1. s.session \in Sessions
    BY DEF StoredStates
<1>2. ASSUME Running(s), NEW session \in Sessions
      PROVE  Kept(s, settle(session))
    <2>1. k \in Keys /\ s.receipts[k].state = "running"
        BY <1>2 DEF Running, KeysIn
    <2> HIDE DEF k
    <2> QED BY <1>2, <2>1, SettledKept
<1>3. InterruptedSession(s.session) \in Sessions /\ OrphanedSession(s.session) \in Sessions
    BY <1>1, PatchTypes
<1>4. CASE Interrupted(s)
    <2>1. Running(s)
        BY <1>4 DEF Interrupted
    <2>2. Kept(s, settle(InterruptedSession(s.session))) /\ Kept(s, settle(s.session))
        BY <1>1, <1>2, <1>3, <2>1
    <2> QED BY <1>4, <2>2 DEF Reconciled
<1>5. CASE ~Interrupted(s)
    <2>1. Running(s) => Kept(s, settle(OrphanedSession(s.session)))
        BY <1>2, <1>3
    <2> QED BY <1>5, <2>1, RecordKept DEF Reconciled
<1> QED BY <1>4, <1>5

LEMMA WriteKept ==
    ASSUME NEW STATE next, NEW STATE allowed, store \in StoredStates,
           allowed => Kept(store, next),
           Written(allowed, next) \/ Thrown(allowed, next)
    PROVE  Kept(store, store')
<1>1. store' = store \/ (allowed /\ store' = next)
    BY Zenon DEF Written, Thrown
<1> QED BY <1>1, RecordKept

-----------------------------------------------------------------------------
(* The invariant. *)

\* The lock has one owner, a turn under admission or a verb; a turn that was
\* admitted is the active one, of the generation of the session; and a verb that
\* saw the turn drain has kept every turn out since.
LockInv ==
    /\ \A r \in Requests : req[r].pc \in AdmissionSteps => mem.lock = "turn"
    /\ \A p, r \in Requests :
          req[p].pc \in AdmissionSteps /\ req[r].pc \in AdmissionSteps => p = r
    /\ \A r \in Requests : req[r].pc \in {"fence", "enter"} => mem.active = None
    /\ \A r \in Requests : req[r].pc \in {"claim"} \cup BodySteps => mem.active = r
    /\ \A r \in Requests : req[r].pc \in AdmissionSteps \cup BodySteps
                             => req[r].generation = store.generation
    /\ op.pc # "none" => mem.lock = "op"
    /\ op.pc \in {"prove", "record", "remove", "unfence"} => mem.active = None

\* Work is done in the name of a request's key from its claim on.
Worked(r) == proc[r] # "none" \/ req[r].pc \in BodySteps
Verdicts == {"accepted", "replayed", "failed"}

\* A key in whose name work is done stays claimed until the next purge, so that
\* no second request ever works for it; a verdict that was told is recorded.
ClaimInv ==
    /\ \A r \in Requests : req[r].generation <= store.generation
    /\ \A r \in Requests : req[r].pc = "new" => proc[r] = "none" /\ req[r].answer = "none"
    /\ \A r \in Requests :
          Keyed(r) /\ Worked(r) /\ req[r].generation = store.generation
          => store.receipts[KeyOf[r]].state # "free"
    /\ \A p, r \in Requests :
          /\ p # r /\ Keyed(p) /\ KeyOf[p] = KeyOf[r]
          /\ Worked(p) /\ Worked(r)
          => req[p].generation # req[r].generation
    /\ \A r \in Requests :
          /\ Keyed(r) /\ req[r].answer \in Verdicts
          /\ req[r].generation = store.generation
          => store.receipts[KeyOf[r]].state \in Decided

Inv == TypeInv /\ LockInv /\ ClaimInv

LEMMA PcNames ==
    /\ {"fence", "enter", "claim"} = AdmissionSteps
    /\ {"body", "refresh", "provision", "runtime", "link", "linkWrite", "spawn", "pid",
         "run", "final", "failing", "outer", "epilogue"} = BodySteps
    /\ AdmissionSteps \cap BodySteps = {}
    /\ {"new", "queued", "waiting", "done", "lost"} \cap (AdmissionSteps \cup BodySteps) = {}
BY DEF AdmissionSteps, BodySteps

\* What the types say, for the steps below.
LEMMA InvTypes ==
    ASSUME TypeInv
    PROVE  /\ store \in StoredStates /\ store.session \in Sessions
           /\ store.generation \in Nat
           /\ req \in [Requests -> RequestStates]
           /\ \A r \in Requests : req[r].generation \in Nat /\ req[r].seen \in Sessions
           /\ proc \in [Requests -> {"none", "alive", "dead"}]
           /\ mem \in Memory /\ op \in Operations
           /\ mem.keyed \in Requests \cup {None} /\ mem.turnId \in Requests \cup {None}
           /\ \A k \in Keys : store.receipts[k].state \in {"free", "running", "settled", "tombstone"}
           /\ None \notin Requests
<1>1. store \in StoredStates /\ req \in [Requests -> RequestStates]
    BY DEF TypeInv, TypeOK
<1>2. store.session \in Sessions /\ store.generation \in 0..MaxGeneration
    BY <1>1 DEF StoredStates
<1>3. \A r \in Requests : req[r].generation \in 0..MaxGeneration /\ req[r].seen \in Sessions
    BY <1>1 DEF RequestStates
<1>4. \A k \in Keys : store.receipts[k].state \in {"free", "running", "settled", "tombstone"}
    BY <1>1 DEF StoredStates, Receipts
<1>5. mem \in Memory /\ op \in Operations /\ proc \in [Requests -> {"none", "alive", "dead"}]
    BY DEF TypeInv, TypeOK
<1>6. mem.keyed \in Requests \cup {None} /\ mem.turnId \in Requests \cup {None}
    BY <1>5 DEF Memory
<1>7. None \notin Requests
    BY NoneAssumption DEF Requests
<1>8. store.generation \in Nat /\ \A r \in Requests : req[r].generation \in Nat
    BY <1>2, <1>3, LimitAssumption
<1> QED BY <1>1, <1>2, <1>3, <1>4, <1>5, <1>6, <1>7, <1>8

LEMMA InitInv == Init => LockInv /\ ClaimInv
<1> SUFFICES ASSUME Init PROVE LockInv /\ ClaimInv
    OBVIOUS
<1>1. /\ \A r \in Requests : /\ req[r].pc = "new" /\ req[r].generation = 0
                             /\ req[r].answer = "none" /\ proc[r] = "none"
      /\ store.generation = 0 /\ op.pc = "none"
    BY DEF Init, NoRequest, NoOp, freshState
<1>2. LockInv
    BY <1>1, PcNames DEF LockInv
<1>3. ClaimInv
    BY <1>1, PcNames DEF ClaimInv, Worked, Verdicts
<1> QED BY <1>2, <1>3

-----------------------------------------------------------------------------
(* The kinds of steps. *)

\* What every step does: the invariants hold after it, and no verdict is undone.
Preserved ==
    /\ LockInv' /\ ClaimInv'
    /\ store'.generation = store.generation => Kept(store, store')

Others(r) == \A q \in Requests \ {r} : req'[q] = req[q]

SameLock == /\ mem'.lock = mem.lock /\ mem'.active = mem.active
            /\ UNCHANGED op

\* A step of the body of an admitted turn, which may dispatch its process.
BodyStep(r) ==
    /\ req[r].pc \in BodySteps /\ req'[r].pc \in BodySteps
    /\ req'[r].generation = req[r].generation /\ req'[r].answer = req[r].answer
    /\ Others(r) /\ SameLock
    /\ \A q \in Requests \ {r} : proc'[q] = proc[q]
    /\ Kept(store, store')

\* A step of a verb, or a verb that takes the lock, leaves the turns alone.
VerbStep ==
    /\ UNCHANGED <<req, proc>>
    /\ mem'.active = mem.active
    /\ \/ SameLock
       \/ /\ mem.lock # "turn"
          /\ op'.pc # "none" => mem'.lock = "op"
          /\ op'.pc \in {"prove", "record", "remove", "unfence"} => mem.active = None
    /\ Kept(store, store')

\* What is left to show of ClaimInv when the store keeps its claims.
LEMMA ClaimsStay ==
    ASSUME TypeInv, ClaimInv, Kept(store, store'),
           \A r \in Requests : /\ req'[r].generation = req[r].generation
                               /\ Keyed(r) /\ Worked(r)' => Worked(r)
                               /\ req'[r].pc = "new" =>
                                     /\ req[r].pc = "new" /\ proc'[r] = proc[r]
                                     /\ req'[r].answer = req[r].answer
                               /\ Keyed(r) /\ req'[r].answer \in Verdicts =>
                                     \/ req[r].answer \in Verdicts
                                     \/ store'.receipts[KeyOf[r]].state \in Decided
    PROVE  ClaimInv'
<1>1. store'.generation = store.generation
    BY DEF Kept
<1>2. \A r \in Requests : Keyed(r) =>
          /\ store.receipts[KeyOf[r]].state # "free" => store'.receipts[KeyOf[r]].state # "free"
          /\ store.receipts[KeyOf[r]].state \in Decided
             => store'.receipts[KeyOf[r]].state \in Decided
    BY KeyOfType, KeptDecided DEF Kept
<1>3. ASSUME NEW p \in Requests, NEW r \in Requests,
             p # r, Keyed(p), KeyOf[p] = KeyOf[r], Worked(p)', Worked(r)'
      PROVE  req'[p].generation # req'[r].generation
    <2>1. Keyed(r)
        BY <1>3 DEF Keyed
    <2>2. Worked(p) /\ Worked(r)
        BY <1>3, <2>1
    <2>3. req[p].generation # req[r].generation
        BY <1>3, <2>2 DEF ClaimInv
    <2> QED BY <2>3
<1>4. ASSUME NEW r \in Requests, Keyed(r), Worked(r)',
             req'[r].generation = store'.generation
      PROVE  store'.receipts[KeyOf[r]].state # "free"
    <2>1. Worked(r)
        BY <1>4
    <2> QED BY <1>1, <1>2, <1>4, <2>1 DEF ClaimInv
<1>5. ASSUME NEW r \in Requests, Keyed(r), req'[r].answer \in Verdicts,
             req'[r].generation = store'.generation
      PROVE  store'.receipts[KeyOf[r]].state \in Decided
    BY <1>1, <1>2, <1>5 DEF ClaimInv
<1>6. \A r \in Requests : /\ req'[r].generation <= store'.generation
                          /\ req'[r].pc = "new" => proc'[r] = "none" /\ req'[r].answer = "none"
    BY <1>1 DEF ClaimInv
<1> QED BY <1>3, <1>4, <1>5, <1>6 DEF ClaimInv, Keyed

LEMMA BodyKept ==
    ASSUME Inv, NEW r \in Requests, BodyStep(r)
    PROVE  Preserved
<1>1. store'.generation = store.generation
    BY DEF BodyStep, Kept
<1>2. /\ \A q \in Requests : /\ req'[q].generation = req[q].generation
                             /\ req'[q].pc = req[q].pc \/ q = r
      /\ req[r].pc \notin AdmissionSteps /\ req'[r].pc \notin AdmissionSteps
      /\ req[r].pc \in BodySteps /\ req'[r].pc \in BodySteps
    BY PcNames DEF BodyStep, Others
<1>3. LockInv'
    BY <1>1, <1>2, PcNames DEF Inv, LockInv, BodyStep, SameLock
<1>4. ClaimInv'
    BY <1>2, PcNames, ClaimsStay DEF Inv, BodyStep, Others, Worked
<1> QED BY <1>3, <1>4 DEF BodyStep, Preserved

LEMMA VerbKept ==
    ASSUME Inv, VerbStep
    PROVE  Preserved
<1>1. store'.generation = store.generation
    BY DEF VerbStep, Kept
<1>2. LockInv'
    BY <1>1 DEF Inv, LockInv, VerbStep, SameLock
<1>3. ClaimInv'
    BY ClaimsStay DEF Inv, VerbStep, Worked
<1> QED BY <1>2, <1>3 DEF VerbStep, Preserved

-----------------------------------------------------------------------------
(* The body of a turn. *)

LEMMA GotoMoves ==
    ASSUME TypeInv, NEW r \in Requests, NEW pc, Goto(r, pc)
    PROVE  /\ Others(r) /\ req'[r].pc = pc
           /\ req'[r].generation = req[r].generation /\ req'[r].answer = req[r].answer
<1>1. req \in [Requests -> RequestStates]
    BY InvTypes
<1> QED BY <1>1 DEF Goto, Others, RequestStates

\* What is left to show of a step of the body.
LEMMA BodyMoves ==
    ASSUME TypeInv, NEW r \in Requests, NEW pc \in BodySteps, NEW session, NEW result,
           req[r].pc \in BodySteps,
           \/ Goto(r, pc)
           \/ req' = [req EXCEPT ![r].seen = session, ![r].pc = pc]
           \/ req' = [req EXCEPT ![r].pc = pc, ![r].seen = session]
           \/ req' = [req EXCEPT ![r].pc = pc, ![r].result = result]
           \/ req' = [req EXCEPT ![r].pc = pc, ![r].retried = TRUE],
           Kept(store, store'), SameLock,
           \A q \in Requests \ {r} : proc'[q] = proc[q]
    PROVE  BodyStep(r)
<1>1. req \in [Requests -> RequestStates]
    BY InvTypes
<1>2. Others(r)
    BY <1>1 DEF Goto, Others
<1>3. /\ req'[r].pc = pc
      /\ req'[r].generation = req[r].generation /\ req'[r].answer = req[r].answer
    BY <1>1 DEF Goto, RequestStates
<1> QED BY <1>2, <1>3 DEF BodyStep

LEMMA DispatchSteps ==
    ASSUME TypeInv, NEW r \in Requests,
           \/ Begin(r) \/ RefreshProvider(r) \/ Provision(r) \/ PrepareRuntime(r)
           \/ StartTurnOutput(r) \/ LinkTurn(r) \/ Spawn(r) \/ RecordPid(r)
    PROVE  BodyStep(r)
<1>1. /\ store \in StoredStates /\ store.session \in Sessions
      /\ req \in [Requests -> RequestStates] /\ req[r].seen \in Sessions
      /\ mem \in Memory /\ mem.keyed \in Requests \cup {None}
      /\ mem.turnId \in Requests \cup {None} /\ None \notin Requests
    BY InvTypes
<1>2. Kept(store, store)
    BY <1>1, RecordKept
<1>3. ASSUME NEW STATE allowed, NEW STATE next, NEW session,
             allowed => next = store \/ next = Upsert(store, session),
             Written(allowed, next) \/ Thrown(allowed, next)
      PROVE  Kept(store, store')
    BY <1>1, <1>3, RecordKept, WriteKept
<1>4. CASE Begin(r)
    <2>1. \/ \E pc \in BodySteps : req' = [req EXCEPT ![r].seen = store.session, ![r].pc = pc]
          \/ Goto(r, "epilogue")
        BY <1>4, PcNames DEF Begin
    <2> QED BY <1>2, <1>4, <2>1, BodyMoves, PcNames DEF Begin, NoMutation, SameLock
<1>5. CASE RefreshProvider(r)
    <2>1. Kept(store, store')
        BY <1>3, <1>5 DEF RefreshProvider, Mutate
    <2>2. Goto(r, "runtime") \/ Goto(r, "epilogue")
        BY <1>5 DEF RefreshProvider, Mutate
    <2> QED BY <1>5, <2>1, <2>2, BodyMoves, PcNames DEF RefreshProvider, SameLock
<1>6. CASE Provision(r)
    <2> DEFINE provisional == [req[r].seen EXCEPT !.state = "running"]
    <2>1. \/ UNCHANGED store
          \/ Written(Mutable(store), Upsert(store, provisional))
          \/ Thrown(Mutable(store), Upsert(store, provisional))
        BY <1>6 DEF Provision, Mutate, NoMutation
    <2>2. \/ req' = [req EXCEPT ![r].pc = "runtime", ![r].seen = provisional]
          \/ Goto(r, "epilogue")
        BY <1>6 DEF Provision, Mutate
    <2> HIDE DEF provisional
    <2>3. Kept(store, store')
        BY <1>2, <1>3, <2>1
    <2> QED BY <1>6, <2>2, <2>3, BodyMoves, PcNames DEF Provision, SameLock
<1>7. CASE PrepareRuntime(r)
    <2>1. \/ UNCHANGED store
          \/ Written(Mutable(store), Upsert(store, SessionFailed(store.session)))
          \/ Thrown(Mutable(store), Upsert(store, SessionFailed(store.session)))
        BY <1>7 DEF PrepareRuntime, Mutate, NoMutation
    <2>2. Kept(store, store')
        BY <1>2, <1>3, <2>1
    <2>3. Goto(r, "link") \/ Goto(r, "outer") \/ Goto(r, "epilogue")
        BY <1>7 DEF PrepareRuntime, Mutate
    <2> QED BY <1>7, <2>2, <2>3, BodyMoves, PcNames DEF PrepareRuntime, SameLock
<1>8. CASE StartTurnOutput(r)
    <2> DEFINE session == IF Present(store) THEN store.session ELSE req[r].seen
    <2>1. \/ Goto(r, "failing")
          \/ \E seen \in Sessions :
                req' = [req EXCEPT ![r].pc = "linkWrite", ![r].seen = seen]
        <3>1. /\ Present(store) => store.session \in Sessions
              /\ ~Present(store) => req[r].seen \in Sessions
            BY <1>1
        <3>2. session \in Sessions
            BY <3>1
        <3>3. \/ Goto(r, "failing")
              \/ req' = [req EXCEPT ![r].pc = "linkWrite",
                                    ![r].seen = IF Present(store) THEN store.session ELSE @]
            BY <1>8 DEF StartTurnOutput
        <3>4. \/ Goto(r, "failing")
              \/ req' = [req EXCEPT ![r].pc = "linkWrite", ![r].seen = session]
            BY <1>1, <3>3 DEF RequestStates
        <3> QED BY <3>2, <3>4
    <2>2. mem'.lock = mem.lock /\ mem'.active = mem.active
        BY <1>1, <1>8 DEF StartTurnOutput, Memory
    <2> QED BY <1>2, <1>8, <2>1, <2>2, BodyMoves, PcNames DEF StartTurnOutput, NoMutation, SameLock
<1>9. CASE LinkTurn(r)
    <2>1. ASSUME mem.keyed = None PROVE Kept(store, store')
        <3> DEFINE linked == WithRunningTurn(req[r].seen, r, mem.turnId)
        <3>1. \/ Written(Mutable(store), Upsert(store, linked))
              \/ Thrown(Mutable(store), Upsert(store, linked))
            BY <1>9, <2>1 DEF LinkTurn, Mutate
        <3> HIDE DEF linked
        <3> QED BY <1>3, <3>1
    <2>2. ASSUME mem.keyed # None PROVE Kept(store, store')
        <3> DEFINE k == KeyOf[mem.keyed]
                   p == PrintOf[mem.keyed]
                   linked == WithRunningTurn(IF Present(store) THEN store.session ELSE req[r].seen,
                                             r, mem.turnId)
        <3>1. k \in Keys
            BY <1>1, <2>2, KeyOfType DEF TypeInv, KeysHeld
        <3>2. linked \in Sessions
            BY <1>1, LinkedSessionType
        <3>3. \/ Written(CanLink(store, k, p, linked), Link(store, k, linked))
              \/ Thrown(CanLink(store, k, p, linked), Link(store, k, linked))
            BY <1>9, <2>2 DEF LinkTurn, Mutate
        <3> HIDE DEF k, p, linked
        <3>4. CanLink(store, k, p, linked) => Kept(store, Link(store, k, linked))
            BY <1>1, <3>1, <3>2, LinkKept DEF CanLink, HoldsRunning
        <3> QED BY <1>1, <3>3, <3>4, WriteKept
    <2>3. Goto(r, "spawn") \/ Goto(r, "failing")
        BY <1>9 DEF LinkTurn, Mutate
    <2>4. Kept(store, store')
        BY <2>1, <2>2
    <2> QED BY <1>9, <2>3, <2>4, BodyMoves, PcNames DEF LinkTurn, SameLock
<1>10. CASE Spawn(r)
    <2>1. /\ mem'.lock = mem.lock /\ mem'.active = mem.active
          /\ \A q \in Requests \ {r} : proc'[q] = proc[q]
        BY <1>1, <1>10, InvTypes DEF Spawn, Memory
    <2>2. Goto(r, "failing") \/ Goto(r, "pid")
        BY <1>10 DEF Spawn
    <2> QED BY <1>2, <1>10, <2>1, <2>2, BodyMoves, PcNames DEF Spawn, NoMutation, SameLock
<1>11. CASE RecordPid(r)
    <2> DEFINE recorded == [store.session EXCEPT !.turn.pid = r]
               next == IF store.session.turn.id = mem.turnId THEN Upsert(store, recorded) ELSE store
    <2>1. Written(Mutable(store), next) \/ Thrown(Mutable(store), next)
        BY <1>11 DEF RecordPid, Mutate
    <2>2. next = store \/ next = Upsert(store, recorded)
        OBVIOUS
    <2> HIDE DEF next, recorded
    <2>3. Kept(store, store')
        BY <1>3, <2>1, <2>2
    <2>4. Goto(r, "run") \/ Goto(r, "failing")
        BY <1>11 DEF RecordPid, Mutate
    <2> QED BY <1>11, <2>3, <2>4, BodyMoves, PcNames DEF RecordPid, SameLock
<1> QED BY <1>4, <1>5, <1>6, <1>7, <1>8, <1>9, <1>10, <1>11

LEMMA FinishSteps ==
    ASSUME TypeInv, NEW r \in Requests,
           \/ ReadExit(r) \/ Finalize(r) \/ RecordThrow(r) \/ HandleStartThrow(r)
    PROVE  BodyStep(r)
<1>1. /\ store \in StoredStates /\ store.session \in Sessions
      /\ req \in [Requests -> RequestStates] /\ req[r].result \in {"idle", "failed"}
      /\ mem \in Memory /\ mem.keyed \in Requests \cup {None}
    BY InvTypes DEF RequestStates
<1>2. Kept(store, store)
    BY <1>1, RecordKept
<1>3. CASE ReadExit(r)
    <2>1. \/ \E result : req' = [req EXCEPT ![r].pc = "final", ![r].result = result]
          \/ Goto(r, "failing")
          \/ req' = [req EXCEPT ![r].pc = "link", ![r].retried = TRUE]
        BY <1>3 DEF ReadExit
    <2> QED BY <1>2, <1>3, <2>1, BodyMoves, PcNames DEF ReadExit, NoMutation, SameLock
<1>4. ASSUME NEW kind \in {"success", "error"}, NEW result \in {"idle", "failed"},
             NEW next \in {"epilogue", "outer"}, PersistFinal(r, kind, result, next),
             req[r].pc \in BodySteps
      PROVE  BodyStep(r)
    <2> DEFINE session == FinalSession(store.session, result)
               k == KeyOf[mem.keyed]
               unkeyed == Upsert(store, session)
               keyed == Settled(store, k, kind, session)
               Write(allowed, written) == Written(allowed, written) \/ Thrown(allowed, written)
    <2>1. session \in Sessions
        BY <1>1, InvTypes, FinalSessionType
    <2>2. Kept(store, unkeyed)
        BY <1>1, RecordKept
    <2>3. ASSUME mem.keyed # None, CanSettle(store, k, PrintOf[mem.keyed])
          PROVE  Kept(store, keyed)
        <3>1. k \in Keys
            BY <1>1, <2>3, KeyOfType DEF TypeInv, KeysHeld
        <3> HIDE DEF k, session
        <3> QED BY <1>1, <2>1, <2>3, <3>1, SettledKept DEF CanSettle, HoldsRunning
    <2>4. \/ /\ mem.keyed = None
             /\ Write(Mutable(store) /\ Present(store), unkeyed)
          \/ /\ mem.keyed # None
             /\ Write(CanSettle(store, k, PrintOf[mem.keyed]) /\ Present(store), keyed)
        BY <1>4 DEF PersistFinal, Mutate
    <2>5. \/ mem' = TurnRecorded /\ Goto(r, next)
          \/ Goto(r, AfterThrow(r)) /\ mem' = mem
        BY <1>4 DEF PersistFinal, Mutate
    <2> HIDE DEF session, k, unkeyed, keyed
    <2>6. Kept(store, store')
        BY <1>1, <2>2, <2>3, <2>4, WriteKept
    <2>7. mem'.lock = mem.lock /\ mem'.active = mem.active
        BY <1>1, <2>5 DEF TurnRecorded, Memory
    <2>8. \E pc \in BodySteps : Goto(r, pc)
        BY <2>5, PcNames DEF AfterThrow
    <2>9. UNCHANGED <<proc, op>>
        BY <1>4 DEF PersistFinal
    <2> QED BY <1>4, <2>6, <2>7, <2>8, <2>9, BodyMoves DEF SameLock
<1>5. CASE Finalize(r)
    BY <1>1, <1>4, <1>5, PcNames DEF Finalize
<1>6. CASE RecordThrow(r)
    BY <1>4, <1>6, PcNames DEF RecordThrow, AfterThrow
<1>7. CASE HandleStartThrow(r)
    <2> DEFINE failed == [(IF Present(store) THEN store.session ELSE req[r].seen)
                          EXCEPT !.state = "failed"]
               next == IF store.session.state = "stopped" \/ store.session.turn.state = "failed"
                       THEN store ELSE Upsert(store, failed)
    <2>1. UNCHANGED store \/ Written(TRUE, next) \/ Thrown(TRUE, next)
        BY <1>7 DEF HandleStartThrow, Mutate, NoMutation
    <2> HIDE DEF failed
    <2>2. Kept(store, next)
        BY <1>1, RecordKept
    <2> HIDE DEF next
    <2>3. Kept(store, store')
        BY <1>1, <1>2, <2>1, <2>2, WriteKept
    <2>4. Goto(r, "epilogue")
        BY <1>7 DEF HandleStartThrow, Mutate
    <2> QED BY <1>7, <2>3, <2>4, BodyMoves, PcNames DEF HandleStartThrow, SameLock
<1> QED BY <1>3, <1>5, <1>6, <1>7

LEMMA AnswerMoves ==
    ASSUME TypeInv, NEW r \in Requests, NEW answer, Answer(r, answer)
    PROVE  /\ Others(r) /\ req'[r].pc = "done"
           /\ req'[r].generation = req[r].generation /\ req'[r].answer = answer
<1>1. req \in [Requests -> RequestStates]
    BY InvTypes
<1> QED BY <1>1 DEF Answer, Others, RequestStates

\* The receipt of a keyed turn is settled before its caller is told.
LEMMA ReleaseKept ==
    ASSUME Inv, NEW r \in Requests, ReleaseTurn(r)
    PROVE  Preserved
<1>1. /\ store \in StoredStates /\ store.session \in Sessions
      /\ mem \in Memory
      /\ \A k \in Keys : store.receipts[k].state \in {"free", "running", "settled", "tombstone"}
    BY InvTypes DEF Inv
<1>2. /\ req[r].pc = "epilogue" /\ req[r].pc \in BodySteps /\ mem.active = r
      /\ req[r].generation = store.generation
    BY PcNames DEF ReleaseTurn, Inv, LockInv
<1>3. mem'.lock = mem.lock /\ mem'.active = None /\ UNCHANGED <<op, proc>>
    BY <1>1 DEF ReleaseTurn, Memory
<1> DEFINE allowed == CanSettleBehindFence(store, KeyOf[r], PrintOf[r])
           session == SettledByThrow(store.session, r)
           next == Settled(store, KeyOf[r], "error", session)
           Told(answer) == /\ Answer(r, answer)
                           /\ Kept(store, store')
                           /\ Keyed(r) /\ answer \in Verdicts
                              => store'.receipts[KeyOf[r]].state \in Decided
<1>4. ASSUME ReceiptState(r) # "running" PROVE \E answer : Told(answer)
    <2>1. Answer(r, VerdictOf(r)) /\ store' = store
        BY <1>4 DEF ReleaseTurn, NoMutation
    <2>2. ASSUME Keyed(r) PROVE store.receipts[KeyOf[r]].state \in Decided
        <3>1. KeyOf[r] \in Keys
            BY <2>2, KeyOfType
        <3>2. store.receipts[KeyOf[r]].state \notin {"free", "running"}
            BY <1>2, <1>4, <2>2 DEF ReceiptState, Inv, ClaimInv, Worked
        <3> QED BY <1>1, <3>1, <3>2 DEF Decided
    <2>3. \E answer : Told(answer)
        BY <1>1, <2>1, <2>2, RecordKept
    <2> QED BY <2>3
<1>5. ASSUME ReceiptState(r) = "running" PROVE \E answer : Told(answer)
    <2>1. KeyOf[r] \in Keys
        BY <1>5, KeyOfType DEF ReceiptState
    <2>2. session \in Sessions
        BY <1>1, PatchTypes
    <2>3. \/ Written(allowed, next) /\ Answer(r, "failed")
          \/ Thrown(allowed, next) /\ Answer(r, "refused")
        BY <1>5 DEF ReleaseTurn, Mutate
    <2> HIDE DEF session, allowed
    <2>4. Kept(store, next) /\ next.receipts[KeyOf[r]].state = "settled"
        <3>1. Kept(store, next)
            BY <1>1, <1>5, <2>1, <2>2, SettledKept DEF ReceiptState
        <3>2. next.receipts[KeyOf[r]].state = "settled"
            BY <1>1, <2>1 DEF Settled, StoredStates, Receipts
        <3> QED BY <3>1, <3>2
    <2> HIDE DEF next
    <2>5. Kept(store, store')
        BY <1>1, <2>3, <2>4, WriteKept
    <2>6. Written(allowed, next) => store'.receipts[KeyOf[r]].state \in Decided
        BY <2>4 DEF Written, Decided
    <2>7. Told("failed") \/ Told("refused")
        BY <2>3, <2>5, <2>6 DEF Verdicts
    <2> QED BY <2>7
<1>6. PICK answer : Told(answer)
    BY <1>4, <1>5
<1>7. /\ Others(r) /\ req'[r].pc = "done"
      /\ req'[r].generation = req[r].generation /\ req'[r].answer = answer
    BY <1>6, AnswerMoves DEF Inv
<1>8. ClaimInv'
    BY <1>3, <1>6, <1>7, ClaimsStay, PcNames DEF Inv, Others, Worked
<1>9. store'.generation = store.generation
    BY <1>6 DEF Kept
<1>10. LockInv'
    BY <1>2, <1>3, <1>7, <1>9, PcNames DEF Inv, LockInv, Others
<1> QED BY <1>6, <1>8, <1>10 DEF Preserved

-----------------------------------------------------------------------------
(* The admission of a turn. *)

\* A request that is answered, or waits for another, leaves the admission; what
\* it is told is decided.
OutsideStep(r) ==
    /\ req[r].pc \notin BodySteps /\ req'[r].pc \in {"waiting", "done"}
    /\ req'[r].generation = req[r].generation
    /\ \/ req'[r].answer = req[r].answer
       \/ req'[r].answer = "refused"
       \/ Keyed(r) => store'.receipts[KeyOf[r]].state \in Decided
    /\ Others(r) /\ UNCHANGED <<proc, op>> /\ Kept(store, store')
    /\ \/ mem'.lock = mem.lock
       \/ req[r].pc \in AdmissionSteps /\ mem'.lock = "free"
    /\ \/ mem'.active = mem.active
       \/ req[r].pc = "claim" /\ mem'.active = None

LEMMA OutsideKept ==
    ASSUME Inv, NEW r \in Requests, OutsideStep(r)
    PROVE  Preserved
<1>1. /\ store'.generation = store.generation
      /\ req'[r].pc \notin AdmissionSteps \cup BodySteps
      /\ req[r].pc \in AdmissionSteps => op.pc = "none"
    BY PcNames DEF OutsideStep, Kept, Inv, LockInv
<1>2. LockInv'
    BY <1>1, PcNames DEF Inv, LockInv, OutsideStep, Others
<1>3. ASSUME NEW q \in Requests
      PROVE  /\ req'[q].generation = req[q].generation
             /\ Keyed(q) /\ Worked(q)' => Worked(q)
             /\ req'[q].pc = "new" => /\ req[q].pc = "new" /\ proc'[q] = proc[q]
                                      /\ req'[q].answer = req[q].answer
             /\ Keyed(q) /\ req'[q].answer \in Verdicts =>
                   \/ req[q].answer \in Verdicts
                   \/ store'.receipts[KeyOf[q]].state \in Decided
    BY <1>1 DEF OutsideStep, Others, Worked, Verdicts
<1>4. ClaimInv'
    BY <1>3, ClaimsStay DEF Inv, OutsideStep
<1> QED BY <1>2, <1>4 DEF OutsideStep, Preserved

LEMMA CallKept ==
    ASSUME Inv, NEW r \in Requests, NEW e \in 0..MaxEpoch, Call(r, e)
    PROVE  Preserved
<1>1. /\ req \in [Requests -> RequestStates] /\ store.generation \in Nat
      /\ \A q \in Requests : req[q].generation \in Nat
    BY InvTypes DEF Inv
<1>2. /\ Others(r) /\ req'[r].pc = "queued" /\ req'[r].generation = store.generation
      /\ req'[r].answer = req[r].answer
    BY <1>1 DEF Call, Others, RequestStates
<1>3. req[r].pc = "new" /\ UNCHANGED <<store, proc, mem, op>>
    BY DEF Call, NoMutation
<1>4. LockInv'
    BY <1>2, <1>3, PcNames DEF Inv, LockInv, Others
<1>5. proc[r] = "none" /\ req'[r].answer \notin Verdicts /\ ~Worked(r)'
    BY <1>2, <1>3, PcNames DEF Inv, ClaimInv, Worked, Verdicts
<1>6. \A q \in Requests \ {r} : (Worked(q)' <=> Worked(q)) /\ req'[q] = req[q]
    BY <1>2, <1>3 DEF Others, Worked
<1>7. ClaimInv'
    BY <1>1, <1>2, <1>3, <1>5, <1>6 DEF Inv, ClaimInv, Keyed
<1>8. Kept(store, store')
    BY <1>3, RecordKept, InvTypes DEF Inv
<1> QED BY <1>4, <1>7, <1>8 DEF Preserved

LEMMA AdmitKept ==
    ASSUME Inv, NEW r \in Requests,
           AdmitAnswered(r) \/ Admit(r) \/ ReleaseRecoveryFence(r) \/ Wake(r)
    PROVE  Preserved
<1>1. /\ store \in StoredStates /\ store.session \in Sessions /\ mem \in Memory
      /\ req \in [Requests -> RequestStates]
    BY InvTypes DEF Inv
<1>2. Kept(store, store)
    BY <1>1, RecordKept
<1>3. CASE AdmitAnswered(r)
    <2>1. \/ Answer(r, "refused")
          \/ Answer(r, "replayed") /\ store.receipts[KeyOf[r]].state = "settled"
          \/ req' = [req EXCEPT ![r].pc = "waiting", ![r].inFlight = mem.keyed]
        BY <1>3 DEF AdmitAnswered
    <2>2. /\ Others(r) /\ req'[r].pc \in {"waiting", "done"}
          /\ req'[r].generation = req[r].generation
          /\ \/ req'[r].answer = req[r].answer
             \/ req'[r].answer = "refused"
             \/ store.receipts[KeyOf[r]].state = "settled"
        <3>1. CASE req' = [req EXCEPT ![r].pc = "waiting", ![r].inFlight = mem.keyed]
            BY <1>1, <3>1 DEF Others, RequestStates
        <3>2. CASE Answer(r, "refused")
            BY <3>2, AnswerMoves DEF Inv
        <3>3. CASE Answer(r, "replayed") /\ store.receipts[KeyOf[r]].state = "settled"
            BY <3>3, AnswerMoves DEF Inv
        <3> QED BY <2>1, <3>1, <3>2, <3>3
    <2>3. req[r].pc = "queued" /\ UNCHANGED <<store, mem, op, proc>>
        BY <1>3 DEF AdmitAnswered, NoMutation
    <2>4. OutsideStep(r)
        BY <1>2, <2>2, <2>3, PcNames DEF OutsideStep, Decided
    <2> QED BY <2>4, OutsideKept
<1>4. CASE Wake(r)
    <2>1. \/ Answer(r, "refused")
          \/ Answer(r, "replayed") /\ store.receipts[KeyOf[r]].state = "settled"
        BY <1>4 DEF Wake
    <2>2. /\ Others(r) /\ req'[r].pc = "done"
          /\ req'[r].generation = req[r].generation
          /\ \/ req'[r].answer = "refused"
             \/ store.receipts[KeyOf[r]].state = "settled"
        BY <2>1, AnswerMoves DEF Inv
    <2>3. req[r].pc = "waiting" /\ UNCHANGED <<store, mem, op, proc>>
        BY <1>4 DEF Wake, NoMutation
    <2>4. OutsideStep(r)
        BY <1>2, <2>2, <2>3, PcNames DEF OutsideStep, Decided
    <2> QED BY <2>4, OutsideKept
<1>5. CASE Admit(r)
    <2>1. \E pc \in {"fence", "enter"} : Goto(r, pc)
        BY <1>5 DEF Admit
    <2>2. /\ Others(r) /\ req'[r].pc \in {"fence", "enter"}
          /\ req'[r].generation = req[r].generation /\ req'[r].answer = req[r].answer
        BY <2>1, GotoMoves DEF Inv
    <2>3. /\ mem.lock = "free" /\ mem'.lock = "turn"
          /\ mem'.active = mem.active /\ mem.active = None
          /\ req[r].pc = "queued" /\ req[r].generation = store.generation
          /\ UNCHANGED <<store, proc, op>>
        BY <1>1, <1>5 DEF Admit, Lock, Memory, NoMutation
    <2>4. req'[r].pc \in AdmissionSteps /\ req'[r].pc \notin BodySteps /\ req'[r].pc # "claim"
        BY <2>2, PcNames
    <2>5. op.pc = "none" /\ \A q \in Requests : req[q].pc \notin AdmissionSteps
        BY <2>3 DEF Inv, LockInv
    <2>6. LockInv'
        BY <2>2, <2>3, <2>4, <2>5, PcNames DEF Inv, LockInv, Others
    <2>7. ClaimInv'
        BY <1>2, <2>2, <2>3, <2>4, ClaimsStay, PcNames DEF Inv, Others, Worked
    <2> QED BY <1>2, <2>3, <2>6, <2>7 DEF Preserved
<1>6. CASE ReleaseRecoveryFence(r)
    <2> DEFINE allowed == DefinitelyGone(store.session.fence) /\ Mutable(store)
               next == Upsert(store, FenceReleased(store.session))
    <2>1. \/ Written(allowed, next) /\ Goto(r, "enter") /\ mem' = mem
          \/ Thrown(allowed, next) /\ Answer(r, "refused") /\ mem' = Unlocked
        BY <1>6 DEF ReleaseRecoveryFence, Mutate
    <2>2. Kept(store, next)
        BY <1>1, RecordKept
    <2>3. /\ req[r].pc = "fence" /\ req[r].pc \in AdmissionSteps /\ req[r].pc \notin BodySteps
          /\ UNCHANGED <<proc, op>>
        BY <1>6, PcNames DEF ReleaseRecoveryFence
    <2> HIDE DEF allowed, next
    <2>4. Kept(store, store')
        BY <1>1, <2>1, <2>2, WriteKept
    <2>5. CASE Goto(r, "enter") /\ mem' = mem
        <3>1. /\ Others(r) /\ req'[r].pc = "enter"
              /\ req'[r].generation = req[r].generation /\ req'[r].answer = req[r].answer
            BY <2>5, GotoMoves DEF Inv
        <3>2. LockInv'
            BY <2>3, <2>4, <2>5, <3>1, PcNames DEF Inv, LockInv, Others, Kept
        <3>3. ClaimInv'
            BY <2>3, <2>4, <3>1, ClaimsStay, PcNames DEF Inv, Others, Worked
        <3> QED BY <2>4, <3>2, <3>3 DEF Preserved
    <2>6. CASE Answer(r, "refused") /\ mem' = Unlocked
        <3>1. /\ Others(r) /\ req'[r].pc = "done"
              /\ req'[r].generation = req[r].generation /\ req'[r].answer = "refused"
            BY <2>6, AnswerMoves DEF Inv
        <3>2. mem'.lock = "free" /\ mem'.active = mem.active
            BY <1>1, <2>6 DEF Unlocked, Memory
        <3> QED BY <2>3, <2>4, <3>1, <3>2, OutsideKept DEF OutsideStep
    <2> QED BY <2>1, <2>5, <2>6
<1> QED BY <1>3, <1>4, <1>5, <1>6

LEMMA EnterKept ==
    ASSUME Inv, NEW r \in Requests, EnterTurn(r)
    PROVE  Preserved
<1>1. store \in StoredStates /\ mem \in Memory /\ req \in [Requests -> RequestStates]
      /\ None \notin Requests
    BY InvTypes DEF Inv
<1>2. /\ req[r].pc = "enter" /\ req[r].pc \in AdmissionSteps /\ req[r].pc \notin BodySteps
      /\ UNCHANGED <<proc, op>> /\ mem.active = None /\ op.pc = "none"
      /\ req[r].generation = store.generation /\ mem.lock = "turn"
      /\ \A q \in Requests \ {r} : req[q].pc \notin AdmissionSteps \cup BodySteps
    BY <1>1, PcNames DEF EnterTurn, Inv, LockInv
<1> DEFINE allowed == CanEnter(store, req[r].epoch)
           next == Enter(store)
           pc == IF Keyed(r) THEN "claim" ELSE "body"
<1>3. \/ /\ Written(allowed, next) /\ Goto(r, pc)
         /\ mem' = [mem EXCEPT !.active = r, !.stop = FALSE,
                               !.lock = IF Keyed(r) THEN @ ELSE "free"]
      \/ Thrown(allowed, next) /\ Answer(r, "refused") /\ mem' = Unlocked
    BY DEF EnterTurn, Mutate
<1>4. Kept(store, next)
    BY <1>1, RecordKept
<1> HIDE DEF allowed, next
<1>5. Kept(store, store')
    BY <1>1, <1>3, <1>4, WriteKept
<1>6. CASE /\ Goto(r, pc)
           /\ mem' = [mem EXCEPT !.active = r, !.stop = FALSE,
                                 !.lock = IF Keyed(r) THEN @ ELSE "free"]
    <2>1. /\ Others(r) /\ req'[r].pc = pc
          /\ req'[r].generation = req[r].generation /\ req'[r].answer = req[r].answer
        BY <1>6, GotoMoves DEF Inv
    <2>2. mem'.active = r /\ (Keyed(r) => mem'.lock = mem.lock)
        BY <1>1, <1>6 DEF Memory
    <2>3. /\ pc \in {"claim", "body"} /\ (pc = "claim" <=> Keyed(r))
          /\ Keyed(r) => pc \notin BodySteps
          /\ ~Keyed(r) => pc \notin AdmissionSteps
        BY PcNames
    <2> HIDE DEF pc
    <2>4. LockInv'
        BY <1>2, <1>5, <2>1, <2>2, <2>3, PcNames DEF Inv, LockInv, Others, Kept
    <2>5. ClaimInv'
        BY <1>2, <1>5, <2>1, <2>3, ClaimsStay DEF Inv, Others, Worked
    <2> QED BY <1>5, <2>4, <2>5 DEF Preserved
<1>7. CASE Answer(r, "refused") /\ mem' = Unlocked
    <2>1. /\ Others(r) /\ req'[r].pc = "done"
          /\ req'[r].generation = req[r].generation /\ req'[r].answer = "refused"
        BY <1>7, AnswerMoves DEF Inv
    <2>2. mem'.lock = "free" /\ mem'.active = mem.active
        BY <1>1, <1>7 DEF Unlocked, Memory
    <2> QED BY <1>2, <1>5, <2>1, <2>2, OutsideKept DEF OutsideStep
<1> QED BY <1>3, <1>6, <1>7

\* No request has worked for a free key since the last purge.
LEMMA ClaimKeyKept ==
    ASSUME Inv, NEW r \in Requests, ClaimKey(r)
    PROVE  Preserved
<1>1. /\ store \in StoredStates /\ mem \in Memory /\ req \in [Requests -> RequestStates]
      /\ store.generation \in Nat /\ None \notin Requests
    BY InvTypes DEF Inv
<1>2. /\ req[r].pc = "claim" /\ req[r].pc \in AdmissionSteps /\ req[r].pc \notin BodySteps
      /\ UNCHANGED <<proc, op>> /\ mem.active = r /\ op.pc = "none"
      /\ req[r].generation = store.generation /\ mem.lock = "turn"
      /\ \A q \in Requests \ {r} : req[q].pc \notin AdmissionSteps \cup BodySteps
    BY <1>1, PcNames DEF ClaimKey, Inv, LockInv
<1>3. Keyed(r) /\ KeyOf[r] \in Keys /\ PrintOf[r] \in Prints
    BY <1>2, KeyOfType DEF Inv, TypeInv, KeysHeld
<1> DEFINE k == KeyOf[r]
           next == Claim(store, k, PrintOf[r])
<1>4. \/ /\ Written(CanClaim(store, k), next) /\ Goto(r, "body")
         /\ mem' = [Unlocked EXCEPT !.keyed = r]
      \/ /\ Thrown(CanClaim(store, k), next) /\ Answer(r, "refused")
         /\ mem' = [Unlocked EXCEPT !.active = None]
    BY DEF ClaimKey, Mutate
<1>5. CanClaim(store, k) => Kept(store, next) /\ next.receipts[k].state = "running"
    BY <1>1, <1>3, ClaimKept
<1> HIDE DEF next
<1>6. Kept(store, store')
    BY <1>1, <1>4, <1>5, WriteKept
<1>7. CASE /\ Written(CanClaim(store, k), next) /\ Goto(r, "body")
           /\ mem' = [Unlocked EXCEPT !.keyed = r]
    <2>1. /\ Others(r) /\ req'[r].pc = "body" /\ req'[r].pc \in BodySteps
          /\ req'[r].pc \notin AdmissionSteps
          /\ req'[r].generation = req[r].generation /\ req'[r].answer = req[r].answer
        BY <1>7, GotoMoves, PcNames DEF Inv
    <2>2. mem'.active = r
        BY <1>1, <1>2, <1>7 DEF Unlocked, Memory
    <2>3. /\ store.receipts[k].state = "free" /\ store'.receipts[k].state = "running"
          /\ store'.generation = store.generation
        BY <1>5, <1>6, <1>7 DEF Written, CanClaim, Kept
    <2>4. LockInv'
        BY <1>2, <2>1, <2>2, <2>3, PcNames DEF Inv, LockInv, Others
    <2>5. \A q \in Requests : /\ req'[q].generation = req[q].generation
                              /\ req'[q].answer = req[q].answer
                              /\ q # r => req'[q].pc = req[q].pc
        BY <2>1 DEF Others
    <2>6. \A q \in Requests \ {r} : Worked(q)' => Worked(q)
        BY <1>2, <2>5 DEF Worked
    <2>7. \A q \in Requests : Keyed(q) /\ KeyOf[q] = k /\ Worked(q)
                              => req[q].generation # store.generation
        BY <2>3 DEF Inv, ClaimInv
    <2>8. \A j \in Keys :
              /\ store.receipts[j].state # "free" => store'.receipts[j].state # "free"
              /\ store.receipts[j].state \in Decided => store'.receipts[j].state \in Decided
        BY <1>6, KeptDecided DEF Kept
    <2>9. ASSUME NEW q \in Requests, Keyed(q), Worked(q)', req[q].generation = store.generation
          PROVE  store'.receipts[KeyOf[q]].state # "free"
        <3>1. CASE q = r
            BY <2>3, <3>1
        <3>2. CASE q # r
            BY <2>6, <2>8, <2>9, <3>2, KeyOfType DEF Inv, ClaimInv
        <3> QED BY <3>1, <3>2
    <2>10. ASSUME NEW p \in Requests, NEW q \in Requests, p # q, Keyed(p), KeyOf[q] = KeyOf[p],
                  Worked(p)', Worked(q)'
           PROVE  req[p].generation # req[q].generation
        <3>1. Keyed(q)
            BY <2>10 DEF Keyed
        <3>2. CASE p = r
            BY <1>2, <2>6, <2>7, <2>10, <3>1, <3>2
        <3>3. CASE q = r
            BY <1>2, <2>6, <2>7, <2>10, <3>3
        <3>4. CASE p # r /\ q # r
            BY <2>6, <2>10, <3>4 DEF Inv, ClaimInv
        <3> QED BY <3>2, <3>3, <3>4
    <2>11. ASSUME NEW q \in Requests, Keyed(q), req[q].answer \in Verdicts,
                  req[q].generation = store.generation
           PROVE  store'.receipts[KeyOf[q]].state \in Decided
        BY <2>8, <2>11, KeyOfType DEF Inv, ClaimInv
    <2>12. \A q \in Requests : /\ req'[q].generation <= store'.generation
                               /\ req'[q].pc = "new" => proc'[q] = "none" /\ req'[q].answer = "none"
        BY <1>2, <2>1, <2>3, <2>5, PcNames DEF Inv, ClaimInv
    <2>13. ClaimInv'
        BY <2>3, <2>5, <2>9, <2>10, <2>11, <2>12 DEF ClaimInv, Keyed
    <2> QED BY <1>6, <2>4, <2>13 DEF Preserved
<1>8. CASE Answer(r, "refused") /\ mem' = [Unlocked EXCEPT !.active = None]
    <2>1. /\ Others(r) /\ req'[r].pc = "done"
          /\ req'[r].generation = req[r].generation /\ req'[r].answer = "refused"
        BY <1>8, AnswerMoves DEF Inv
    <2>2. mem'.lock = "free" /\ mem'.active = None
        BY <1>1, <1>8 DEF Unlocked, Memory
    <2> QED BY <1>2, <1>6, <2>1, <2>2, OutsideKept DEF OutsideStep
<1> QED BY <1>4, <1>7, <1>8

LEMMA ExitKept ==
    ASSUME Inv, NEW r \in Requests, Exit(r)
    PROVE  Preserved
<1>1. /\ store \in StoredStates /\ mem \in Memory
      /\ proc \in [Requests -> {"none", "alive", "dead"}]
    BY InvTypes DEF Inv
<1>2. /\ proc[r] = "alive" /\ proc' = [proc EXCEPT ![r] = "dead"]
      /\ mem'.lock = mem.lock /\ mem'.active = mem.active /\ UNCHANGED <<store, req, op>>
    BY <1>1 DEF Exit, Memory, NoMutation
<1>3. LockInv'
    BY <1>2 DEF Inv, LockInv
<1>4. \A q \in Requests : /\ Worked(q)' => Worked(q)
                          /\ req[q].pc = "new" => proc'[q] = proc[q]
    BY <1>1, <1>2 DEF Inv, ClaimInv, Worked
<1>5. Kept(store, store')
    BY <1>1, <1>2, RecordKept
<1>6. ClaimInv'
    BY <1>2, <1>4, <1>5, ClaimsStay DEF Inv
<1> QED BY <1>3, <1>5, <1>6 DEF Preserved

-----------------------------------------------------------------------------
(* The verbs. *)

\* What is left to show of a step of the verb that holds the lock.
LEMMA HolderMoves ==
    ASSUME Inv, op.pc # "none", NEW pc,
           (OpGoto(pc) /\ mem'.lock = mem.lock) \/ OpEnds,
           pc \in {"prove", "record", "remove", "unfence"} => mem.active = None,
           mem'.active = mem.active, Kept(store, store'), UNCHANGED <<req, proc>>
    PROVE  VerbStep
<1>1. mem.lock = "op" /\ op \in Operations
    BY InvTypes DEF Inv, LockInv
<1>2. (op'.pc = pc /\ mem'.lock = "op") \/ op'.pc = "none"
    BY <1>1 DEF OpGoto, OpEnds, NoOp, Operations
<1> QED BY <1>1, <1>2 DEF VerbStep

LEMMA StopSteps ==
    ASSUME Inv, StopBegin \/ StopResolveFence \/ DrainTimesOut \/ StopDrained \/ StopWrite
    PROVE  VerbStep
<1>1. /\ store \in StoredStates /\ store.session \in Sessions
      /\ mem \in Memory /\ op \in Operations
    BY InvTypes DEF Inv
<1>2. Kept(store, store)
    BY <1>1, RecordKept
<1>3. CASE StopBegin
    <2>1. /\ mem.lock = "free" /\ mem'.lock = "op" /\ mem'.active = mem.active
          /\ UNCHANGED <<store, req, proc>>
        BY <1>1, <1>3 DEF StopBegin, Free, NoMutation, Memory
    <2>2. op'.pc \in {"fence", "drain", "stopWrite"}
        BY <1>3 DEF StopBegin, NoOp
    <2> QED BY <1>2, <2>1, <2>2 DEF VerbStep
<1>4. CASE StopResolveFence
    <2>1. /\ (\E pc \in {"drain", "stopWrite"} : OpGoto(pc) /\ mem' = mem) \/ OpEnds
          /\ mem'.active = mem.active /\ op.pc = "fence" /\ UNCHANGED <<store, req, proc>>
        BY <1>1, <1>4 DEF StopResolveFence, Unlocked, NoMutation, Memory
    <2> QED BY <1>2, <2>1, HolderMoves
<1>5. CASE DrainTimesOut
    <2>1. /\ OpEnds /\ mem'.active = mem.active /\ op.pc = "drain"
          /\ UNCHANGED <<store, req, proc>>
        BY <1>1, <1>5 DEF DrainTimesOut, Unlocked, NoMutation, Memory
    <2> QED BY <1>2, <2>1, HolderMoves
<1>6. CASE StopDrained
    <2>1. /\ op.pc = "drain" /\ mem'.lock = mem.lock /\ mem'.active = mem.active
          /\ UNCHANGED <<store, req, proc>>
        BY <1>1, <1>6 DEF StopDrained, NoMutation, Memory
    <2>2. op'.pc \in {"fence", "stopWrite"}
        BY <1>1, <1>6 DEF StopDrained, OpGoto, Operations
    <2> QED BY <1>2, <2>1, <2>2 DEF VerbStep, Inv, LockInv
<1>7. CASE StopWrite
    <2> DEFINE session == IF Present(store) THEN StoppedSession(store.session) ELSE store.session
               next(k) == Settled(store, k, "error", session)
               stopped == Upsert(store, StoppedSession(store.session))
    <2>1. \A k \in KeysIn(store, "running") : Kept(store, next(k))
        <3>1. session \in Sessions
            BY <1>1, PatchTypes
        <3> HIDE DEF session
        <3> QED BY <1>1, <3>1, SettledKept DEF KeysIn
    <2>2. Kept(store, stopped)
        BY <1>1, RecordKept
    <2>3. \/ UNCHANGED store
          \/ \E k \in KeysIn(store, "running") : Written(TRUE, next(k)) \/ Thrown(TRUE, next(k))
          \/ Written(Mutable(store), stopped) \/ Thrown(Mutable(store), stopped)
        BY <1>7 DEF StopWrite, Mutate, NoMutation
    <2>4. StopSucceeds \/ StopFails
        BY <1>7 DEF StopWrite, Mutate
    <2>5. op.pc = "stopWrite" /\ UNCHANGED <<req, proc>>
        BY <1>7 DEF StopWrite
    <2> HIDE DEF session, next, stopped
    <2>6. Kept(store, store')
        BY <1>1, <1>2, <2>1, <2>2, <2>3, WriteKept
    <2>7. OpEnds /\ mem'.active = mem.active
        BY <1>1, <2>4 DEF StopSucceeds, StopFails, Unlocked, Memory
    <2> QED BY <2>5, <2>6, <2>7, HolderMoves
<1> QED BY <1>3, <1>4, <1>5, <1>6, <1>7

LEMMA ClosingSteps ==
    ASSUME Inv,
           \/ QuiesceBegin
           \/ \E verb \in {"purge", "gc"} :
                  PurgeAgain(verb) \/ PurgeUnknown(verb) \/ PurgeBegin(verb)
           \/ CloseDrained \/ ProveClosed \/ RecordClosed \/ PurgeUnfence
    PROVE  VerbStep
<1>1. /\ store \in StoredStates /\ store.session \in Sessions
      /\ mem \in Memory /\ op \in Operations
    BY InvTypes DEF Inv
<1>2. Kept(store, store)
    BY <1>1, RecordKept
<1>3. ASSUME NEW verb, NEW tracked, NEW next, BeginClosing(verb, tracked, next)
      PROVE  op'.pc = "drain" /\ mem'.lock = "op" /\ mem'.active = mem.active
    BY <1>1, <1>3 DEF BeginClosing, NoOp, Memory
<1>4. ASSUME NEW verb, PurgeReturns(verb)
      PROVE  mem'.lock = mem.lock /\ mem'.active = mem.active
    BY <1>1, <1>4 DEF PurgeReturns, Memory
<1>5. CASE QuiesceBegin
    <2> DEFINE next == Reserve(store, "external")
    <2>1. Written(CanReserve(store), next) \/ Thrown(CanReserve(store), next)
        BY <1>5 DEF QuiesceBegin, Mutate
    <2>2. BeginClosing("quiesce", Tracked, next) \/ UNCHANGED <<op, mem>>
        BY <1>5 DEF QuiesceBegin, Mutate
    <2>3. mem.lock = "free" /\ UNCHANGED <<req, proc>>
        BY <1>5 DEF QuiesceBegin, Free
    <2>4. Kept(store, next)
        BY <1>1, RecordKept
    <2> HIDE DEF next
    <2>5. Kept(store, store')
        BY <1>1, <2>1, <2>4, WriteKept
    <2> QED BY <1>3, <2>2, <2>3, <2>5 DEF VerbStep, SameLock
<1>6. ASSUME NEW verb \in {"purge", "gc"}, PurgeAgain(verb)
      PROVE  VerbStep
    <2>1. Written(TRUE, Release(store)) \/ Thrown(TRUE, Release(store))
        BY <1>6 DEF PurgeAgain, Mutate
    <2>2. Kept(store, store')
        BY <1>1, <2>1, RecordKept, WriteKept
    <2>3. mem'.lock = mem.lock /\ mem'.active = mem.active /\ UNCHANGED <<req, proc, op>>
        BY <1>1, <1>6 DEF PurgeAgain, Mutate, PurgeReturns, Memory
    <2> QED BY <2>2, <2>3 DEF VerbStep, SameLock
<1>7. ASSUME NEW verb \in {"purge", "gc"}, PurgeUnknown(verb)
      PROVE  VerbStep
    BY <1>2, <1>4, <1>7 DEF PurgeUnknown, NoMutation, VerbStep, SameLock
<1>8. ASSUME NEW verb \in {"purge", "gc"}, PurgeBegin(verb)
      PROVE  VerbStep
    <2> DEFINE next == Reserve(store, "purge")
    <2>1. Written(CanReserve(store), next) \/ Thrown(CanReserve(store), next)
        BY <1>8 DEF PurgeBegin, Mutate
    <2>2. \/ BeginClosing(verb, Tracked \/ Running(store), next)
          \/ PurgeReturns(verb) /\ UNCHANGED op
        BY <1>8 DEF PurgeBegin, Mutate
    <2>3. mem.lock = "free" /\ UNCHANGED <<req, proc>>
        BY <1>8 DEF PurgeBegin, Free
    <2>4. Kept(store, next)
        BY <1>1, RecordKept
    <2> HIDE DEF next
    <2>5. Kept(store, store')
        BY <1>1, <2>1, <2>4, WriteKept
    <2> QED BY <1>3, <1>4, <2>2, <2>3, <2>5 DEF VerbStep, SameLock
<1>9. CASE CloseDrained
    <2>1. /\ op.pc = "drain" /\ mem.active = None /\ mem'.active = mem.active
          /\ UNCHANGED <<store, req, proc>>
        BY <1>1, <1>9 DEF CloseDrained, Drained, Unlocked, NoMutation, Memory
    <2>2. \/ /\ mem'.lock = mem.lock
             /\ \/ OpGoto("prove") \/ OpGoto("remove")
                \/ op' = [op EXCEPT !.pc = "prove", !.seen = store.session, !.had = TRUE]
          \/ OpEnds
        BY <1>1, <1>9 DEF CloseDrained, Memory
    <2>3. \/ op'.pc \in {"prove", "remove"} /\ mem'.lock = mem.lock
          \/ op'.pc = "none"
        <3>1. (OpGoto("prove") => op'.pc = "prove") /\ (OpGoto("remove") => op'.pc = "remove")
            BY <1>1 DEF OpGoto, Operations
        <3>2. op' = [op EXCEPT !.pc = "prove", !.seen = store.session, !.had = TRUE]
              => op'.pc = "prove"
            BY <1>1 DEF Operations
        <3>3. OpEnds => op'.pc = "none"
            BY DEF OpEnds, NoOp
        <3> QED BY <2>2, <3>1, <3>2, <3>3
    <2> QED BY <1>2, <2>1, <2>3 DEF VerbStep, Inv, LockInv
<1>10. CASE ProveClosed
    <2>1. /\ (OpGoto("record") /\ mem'.lock = mem.lock) \/ OpEnds
          /\ op.pc = "prove" /\ mem'.active = mem.active /\ UNCHANGED <<store, req, proc>>
        BY <1>1, <1>10 DEF ProveClosed, Unlocked, NoMutation, Memory
    <2>2. mem.active = None
        BY <2>1 DEF Inv, LockInv
    <2> QED BY <1>2, <2>1, <2>2, HolderMoves
<1>11. CASE RecordClosed
    <2> DEFINE next == Upsert(store, QuiescedSession(store.session))
               allowed == CanPatchQuiesced(store, op.epoch)
    <2>1. Written(allowed, next) \/ Thrown(allowed, next)
        BY <1>11 DEF RecordClosed, Mutate
    <2>2. (OpGoto("remove") /\ mem'.lock = mem.lock) \/ OpEnds
        BY <1>11 DEF RecordClosed, Mutate
    <2>3. op.pc = "record" /\ mem'.active = mem.active /\ UNCHANGED <<req, proc>>
        BY <1>1, <1>11 DEF RecordClosed, Mutate, Unlocked, Memory
    <2>4. Kept(store, next)
        BY <1>1, RecordKept
    <2> HIDE DEF next, allowed
    <2>5. Kept(store, store')
        BY <1>1, <2>1, <2>4, WriteKept
    <2>6. mem.active = None
        BY <2>3 DEF Inv, LockInv
    <2> QED BY <2>2, <2>3, <2>5, <2>6, HolderMoves
<1>12. CASE PurgeUnfence
    <2> DEFINE allowed == CanRelease(store, op.epoch)
    <2>1. Written(allowed, Release(store)) \/ Thrown(allowed, Release(store))
        BY <1>12 DEF PurgeUnfence, Mutate
    <2>2. /\ op.pc = "unfence" /\ OpEnds /\ mem'.active = mem.active
          /\ UNCHANGED <<req, proc>>
        BY <1>1, <1>12 DEF PurgeUnfence, Mutate, Unlocked, Memory
    <2> HIDE DEF allowed
    <2>3. Kept(store, store')
        BY <1>1, <2>1, RecordKept, WriteKept
    <2> QED BY <2>2, <2>3, HolderMoves
<1> QED BY <1>5, <1>6, <1>7, <1>8, <1>9, <1>10, <1>11, <1>12

LEMMA ShortVerbSteps ==
    ASSUME Inv,
           \/ GcList \/ GcVisit \/ (\E e \in 1..MaxEpoch : ReleaseFence(e))
           \/ Resume \/ Suspend \/ FocusRead \/ FocusWrite \/ OtherNameQuiesces
    PROVE  VerbStep
<1>1. store \in StoredStates /\ mem \in Memory
    BY InvTypes DEF Inv
<1>2. Kept(store, store)
    BY <1>1, RecordKept
<1>3. ASSUME NEW STATE session, NEW STATE allowed,
             \/ Written(allowed, Upsert(store, session))
             \/ Thrown(allowed, Upsert(store, session))
      PROVE  Kept(store, store')
    BY <1>1, <1>3, RecordKept, WriteKept
<1>4. CASE GcList \/ GcVisit
    <2>1. /\ mem'.lock = mem.lock /\ mem'.active = mem.active
          /\ UNCHANGED <<store, req, proc, op>>
        BY <1>1, <1>4 DEF GcList, GcVisit, NoMutation, Memory
    <2> QED BY <1>2, <2>1 DEF VerbStep, SameLock
<1>5. ASSUME NEW e \in 1..MaxEpoch, ReleaseFence(e)
      PROVE  VerbStep
    <2>1. Written(TRUE, Release(store)) \/ Thrown(TRUE, Release(store))
        BY <1>5 DEF ReleaseFence, Mutate
    <2>2. Kept(store, store')
        BY <1>1, <2>1, RecordKept, WriteKept
    <2>3. mem'.lock = mem.lock /\ mem'.active = mem.active /\ UNCHANGED <<req, proc, op>>
        BY <1>1, <1>5 DEF ReleaseFence, Mutate, Memory
    <2> QED BY <2>2, <2>3 DEF VerbStep, SameLock
<1>6. CASE Resume
    <2>1. Kept(store, store')
        BY <1>3, <1>6 DEF Resume, Mutate
    <2> QED BY <1>6, <2>1 DEF Resume, VerbStep, SameLock
<1>7. CASE Suspend
    <2>1. Kept(store, store')
        BY <1>3, <1>7 DEF Suspend, Mutate
    <2> QED BY <1>7, <2>1 DEF Suspend, VerbStep, SameLock
<1>8. CASE FocusRead
    <2>1. /\ mem.lock = "free" /\ mem'.lock = "op" /\ mem'.active = mem.active
          /\ op'.pc = "focusWrite" /\ UNCHANGED <<store, req, proc>>
        BY <1>1, <1>8 DEF FocusRead, Lock, NoOp, NoMutation, Memory
    <2> QED BY <1>2, <2>1 DEF VerbStep
<1>9. CASE FocusWrite
    <2>1. Kept(store, store')
        BY <1>3, <1>9 DEF FocusWrite, Mutate
    <2>2. /\ op.pc = "focusWrite" /\ OpEnds /\ mem'.active = mem.active
          /\ UNCHANGED <<req, proc>>
        BY <1>1, <1>9 DEF FocusWrite, Unlocked, Memory
    <2> QED BY <2>1, <2>2, HolderMoves
<1>10. CASE OtherNameQuiesces
    BY <1>1, <1>10, RecordKept DEF OtherNameQuiesces, VerbStep, SameLock
<1> QED BY <1>4, <1>5, <1>6, <1>7, <1>8, <1>9, <1>10

\* A purge forgets the keys when no turn is inside, and every request called
\* before it is of an older generation.
LEMMA RemoveKept ==
    ASSUME Inv, PurgeRemove
    PROVE  Preserved
<1>1. /\ store \in StoredStates /\ mem \in Memory /\ op \in Operations
      /\ store.generation \in Nat /\ None \notin Requests
      /\ \A r \in Requests : req[r].generation \in Nat
    BY InvTypes DEF Inv
<1>2. /\ op.pc = "remove" /\ UNCHANGED <<req, proc>>
      /\ Written(CanRemove(store), Remove(store)) \/ Thrown(CanRemove(store), Remove(store))
    BY DEF PurgeRemove, Mutate
<1>3. /\ mem'.active = mem.active
      /\ \/ op'.pc = "unfence" /\ mem'.lock = mem.lock
         \/ op'.pc = "none"
    <2>1. /\ mem'.active = mem.active
          /\ (OpGoto("unfence") /\ mem'.lock = mem.lock) \/ OpEnds
        BY <1>1 DEF PurgeRemove, Mutate, Unlocked, Memory
    <2> QED BY <1>1, <2>1 DEF OpGoto, OpEnds, NoOp, Operations
<1>4. mem.lock = "op" /\ mem.active = None
    BY <1>2 DEF Inv, LockInv
<1>5. CASE store' = store
    <2>1. VerbStep
        BY <1>1, <1>2, <1>3, <1>4, <1>5, RecordKept DEF VerbStep
    <2> QED BY <2>1, VerbKept
<1>6. CASE store' = Remove(store)
    <2>1. store'.generation = store.generation + 1
        BY <1>1, <1>6 DEF Remove, StoredStates
    <2>2. \A r \in Requests : req[r].pc \notin AdmissionSteps \cup BodySteps
        BY <1>1, <1>4, PcNames DEF Inv, LockInv
    <2>3. LockInv'
        BY <1>2, <1>3, <1>4, <2>2, PcNames DEF LockInv
    <2>4. \A r \in Requests : /\ req'[r].generation # store'.generation
                              /\ req'[r].generation <= store'.generation
        BY <1>1, <1>2, <2>1 DEF Inv, ClaimInv
    <2>5. ClaimInv'
        BY <1>2, <2>4 DEF Inv, ClaimInv, Worked, Keyed
    <2>6. store'.generation # store.generation
        BY <1>1, <2>1
    <2> QED BY <2>3, <2>5, <2>6 DEF Preserved
<1>7. store' = store \/ store' = Remove(store)
    BY <1>2 DEF Written, Thrown
<1> QED BY <1>5, <1>6, <1>7

LEMMA CrashKept ==
    ASSUME Inv, Crash \/ Restart
    PROVE  Preserved
<1>1. store \in StoredStates /\ req \in [Requests -> RequestStates]
    BY InvTypes DEF Inv
<1>2. CASE Crash
    <2>1. /\ \A r \in Requests :
                /\ req'[r].generation = req[r].generation
                /\ \/ req[r].pc \in {"new", "done", "lost"} /\ req'[r] = req[r]
                   \/ req'[r].pc = "lost" /\ req'[r].answer = "none"
          /\ op'.pc = "none" /\ UNCHANGED <<store, proc>>
        BY <1>1, <1>2 DEF Crash, NoRequest, NoOp, NoMutation, RequestStates
    <2>2. \A r \in Requests : req'[r].pc \notin AdmissionSteps \cup BodySteps
        BY <2>1, PcNames
    <2>3. LockInv'
        BY <2>1, <2>2, PcNames DEF LockInv
    <2>4. Kept(store, store')
        BY <1>1, <2>1, RecordKept
    <2>5. \A r \in Requests : /\ Worked(r)' => Worked(r)
                              /\ req'[r].pc = "new" => req'[r] = req[r]
                              /\ req'[r].answer \in Verdicts => req'[r] = req[r]
        BY <2>1, <2>2 DEF Worked, Verdicts
    <2>6. ClaimInv'
        BY <2>1, <2>4, <2>5, ClaimsStay DEF Inv
    <2> QED BY <2>3, <2>4, <2>6 DEF Preserved
<1>3. CASE Restart
    <2>1. \/ UNCHANGED store
          \/ Written(TRUE, Reconciled(store)) \/ Thrown(TRUE, Reconciled(store))
        BY <1>3 DEF Restart, Mutate, NoMutation
    <2>2. Kept(store, store')
        BY <1>1, <2>1, RecordKept, ReconciledKept, WriteKept
    <2>3. VerbStep
        BY <1>3, <2>2 DEF Restart, VerbStep, SameLock
    <2> QED BY <2>3, VerbKept
<1> QED BY <1>2, <1>3

-----------------------------------------------------------------------------
(* The theorems. *)

LEMMA NextPreserved ==
    ASSUME Inv, [Next]_vars
    PROVE  Preserved
<1>1. CASE UNCHANGED vars
    <2>1. LockInv' /\ ClaimInv'
        BY <1>1 DEF vars, Inv, LockInv, ClaimInv, Worked, Keyed
    <2>2. Kept(store, store')
        BY <1>1, RecordKept, InvTypes DEF Inv, vars
    <2> QED BY <2>1, <2>2 DEF Preserved
<1>2. CASE \E r \in Requests : \E e \in 0..MaxEpoch : Call(r, e)
    BY <1>2, CallKept
<1>3. ASSUME NEW r \in Requests, Admission(r) \/ TurnStep(r) \/ Exit(r)
      PROVE  Preserved
    <2>1. CASE \/ Admission(r) \/ ReleaseRecoveryFence(r) \/ EnterTurn(r) \/ ClaimKey(r)
               \/ Wake(r) \/ Exit(r) \/ ReleaseTurn(r)
        BY <2>1, AdmitKept, EnterKept, ClaimKeyKept, ExitKept, ReleaseKept DEF Admission
    <2>2. CASE \/ Begin(r) \/ RefreshProvider(r) \/ Provision(r) \/ PrepareRuntime(r)
               \/ StartTurnOutput(r) \/ LinkTurn(r) \/ Spawn(r) \/ RecordPid(r)
               \/ ReadExit(r) \/ Finalize(r) \/ RecordThrow(r) \/ HandleStartThrow(r)
        BY <2>2, DispatchSteps, FinishSteps, BodyKept DEF Inv
    <2> QED BY <1>3, <2>1, <2>2 DEF TurnStep
<1>4. CASE OpBegin
    BY <1>4, StopSteps, ClosingSteps, ShortVerbSteps, VerbKept DEF OpBegin
<1>5. CASE OpStep
    BY <1>5, RemoveKept, StopSteps, ClosingSteps, ShortVerbSteps, VerbKept DEF OpStep
<1>6. CASE Crash \/ Restart
    BY <1>6, CrashKept
<1> QED BY <1>1, <1>2, <1>3, <1>4, <1>5, <1>6 DEF Next

\* The lock, the claims and the verdicts are in step in every reachable state.
THEOREM InvCorrect == Spec => []Inv
<1>1. Init => Inv
    BY InitType, InitInv DEF Inv
<1>2. Inv /\ [Next]_vars => Inv'
    BY NextType, NextPreserved DEF Inv, Preserved
<1> QED BY <1>1, <1>2, PTL DEF Spec

\* A turn of an earlier generation neither runs nor writes after a purge, and
\* the turn that runs is the one the manager knows (PurgeRemove, Admit).
THEOREM NoTurnAfterPurge == Spec => []NoTurnOutlivesPurge
<1>1. Inv => NoTurnOutlivesPurge
    BY DEF Inv, LockInv, NoTurnOutlivesPurge
<1> QED BY <1>1, InvCorrect, PTL

\* No key is dispatched twice between two purges, whatever crashes, fails or
\* interleaves (ClaimKey, Spawn, Reconciled).
THEOREM DispatchedOnce == Spec => []AtMostOneDispatchPerKey
<1>1. Inv => AtMostOneDispatchPerKey
    BY DEF Inv, ClaimInv, AtMostOneDispatchPerKey, Worked
<1> QED BY <1>1, InvCorrect, PTL

\* What a client was told about its key is on disk and stays so until a purge
\* (AdmitAnswered, Wake, ReleaseTurn).
THEOREM AnswersDurable == Spec => []AnswersAreDurable
<1>1. Inv => AnswersAreDurable
    BY DEF Inv, ClaimInv, AnswersAreDurable, Verdicts, Decided
<1> QED BY <1>1, InvCorrect, PTL

\* A verdict is never withdrawn, replaced or executed again until a purge
\* (Settled, Compacted, Claim, Reconciled).
THEOREM VerdictsFinal == Spec => VerdictIsFinal
<1>1. Inv /\ [Next]_vars =>
        [\A k \in Keys :
            /\ store.receipts[k].state \in {"settled", "tombstone"}
            /\ store'.generation = store.generation
            => \/ store'.receipts[k] = store.receipts[k]
               \/ store'.receipts[k].state = "tombstone"]_vars
    BY NextPreserved DEF Preserved, Kept, FinalFor, Decided
<1> QED BY <1>1, InvCorrect, PTL DEF Spec, VerdictIsFinal
=============================================================================
