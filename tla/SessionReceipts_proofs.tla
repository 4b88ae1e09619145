----------------------- MODULE SessionReceipts_proofs -----------------------
(***************************************************************************)
(* The receipts and the session record stay in step: when the schema never *)
(* has to refuse what the manager writes, and when a turn that has ended   *)
(* is never shown running again.                                           *)
(***************************************************************************)
EXTENDS SessionClosure_proofs

-----------------------------------------------------------------------------
(* What the store holds whoever writes it. *)

\* The order lists the settled keys, each once; while a receipt runs there is
\* room for its outcome.
OrderInv(s) ==
    /\ \A i \in 1..Len(s.order) : s.receipts[s.order[i]].state = "settled"
    /\ \A i, j \in 1..Len(s.order) : s.order[i] = s.order[j] => i = j
    /\ \A k \in KeysIn(s, "settled") : \E i \in 1..Len(s.order) : s.order[i] = k
    /\ Running(s) => Cardinality(KeysIn(s, "settled")) < MaxOutcomes

\* A running receipt has no outcome, a turn without an id is no turn, and an
\* absent session has neither a turn nor receipts linked to one.
RecordInv(s) ==
    /\ \A k \in KeysIn(s, "running") : s.receipts[k].outcome.kind = "none"
    /\ s.session.turn.id = None => s.session.turn.state = "none" /\ s.session.turn.key = None
    /\ ~Present(s) => s.session.turn.id = None /\ \A k \in Keys : s.receipts[k].turnId = None

StoreInv(s) == OrderInv(s) /\ RecordInv(s)

\* The session is rewritten, and its turn at most ended.
Patched(old, new) ==
    /\ new.turn.id = old.turn.id /\ new.turn.key = old.turn.key /\ new.turn.print = old.turn.print
    /\ \/ new.turn.state = old.turn.state
       \/ old.turn.id # None /\ new.turn.state \in TerminalTurnStates
    /\ old.state # "absent" => new.state # "absent"

Patches(s, t) ==
    t.receipts = s.receipts /\ t.order = s.order /\ Patched(s.session, t.session)

\* A running receipt is settled along with it.
Settles(s, t) ==
    /\ Patched(s.session, t.session)
    /\ \E k \in KeysIn(s, "running") :
          /\ t.order = Append(s.order, k)
          /\ t.receipts[k].state = "settled" /\ t.receipts[k].turnId = s.receipts[k].turnId
          /\ \A j \in Keys \ {k} : t.receipts[j] = s.receipts[j]

\* A turn is published: the session shows it, and the receipt k of a keyed turn
\* is linked to it.
Publishes(s, t) ==
    /\ t.order = s.order
    /\ t.session.state # "absent" /\ t.session.turn.id # None
    /\ \A k \in Keys : /\ t.receipts[k].state = s.receipts[k].state
                       /\ t.receipts[k].outcome = s.receipts[k].outcome

LEMMA PatchKeeps ==
    ASSUME NEW s \in StoredStates, NEW t \in StoredStates, StoreInv(s), Patches(s, t)
    PROVE  StoreInv(t)
<1>1. \A state : KeysIn(t, state) = KeysIn(s, state)
    BY DEF Patches, KeysIn
<1>2. OrderInv(t)
    BY <1>1 DEF StoreInv, OrderInv, Patches, Running
<1>3. RecordInv(t)
    BY <1>1 DEF StoreInv, RecordInv, Patches, Patched, Present
<1> QED BY <1>2, <1>3 DEF StoreInv

LEMMA SettleKeeps ==
    ASSUME NEW s \in StoredStates, NEW t \in StoredStates, StoreInv(s), Settles(s, t),
           \A j, k \in KeysIn(s, "running") : j = k
    PROVE  StoreInv(t)
<1>1. PICK k \in KeysIn(s, "running") :
          /\ t.order = Append(s.order, k)
          /\ t.receipts[k].state = "settled" /\ t.receipts[k].turnId = s.receipts[k].turnId
          /\ \A j \in Keys \ {k} : t.receipts[j] = s.receipts[j]
    BY DEF Settles
<1>2. k \in Keys /\ s.receipts[k].state = "running" /\ s.order \in Seq(Keys)
    BY DEF KeysIn, StoredStates
<1>3. KeysIn(t, "running") = {}
    BY <1>1, <1>2 DEF KeysIn
<1>4. /\ Len(t.order) = Len(s.order) + 1 /\ t.order[Len(s.order) + 1] = k
      /\ \A i \in 1..Len(s.order) : t.order[i] = s.order[i] /\ s.order[i] \in Keys
      /\ Len(s.order) \in Nat
    BY <1>1, <1>2
<1>5. \A i \in 1..Len(s.order) : s.order[i] # k
    BY <1>2 DEF StoreInv, OrderInv
<1>6. \A i \in 1..Len(t.order) : i \in 1..Len(s.order) \/ i = Len(s.order) + 1
    BY <1>4
<1>7. \A i \in 1..Len(t.order) : t.receipts[t.order[i]].state = "settled"
    BY <1>1, <1>4, <1>5, <1>6 DEF StoreInv, OrderInv
<1>8. \A i, j \in 1..Len(t.order) : t.order[i] = t.order[j] => i = j
    BY <1>4, <1>5, <1>6 DEF StoreInv, OrderInv
<1>9. ASSUME NEW j \in KeysIn(t, "settled")
      PROVE  \E i \in 1..Len(t.order) : t.order[i] = j
    <2>1. CASE j = k
        BY <1>4, <2>1
    <2>2. CASE j # k
        <3>1. j \in KeysIn(s, "settled")
            BY <1>1, <2>2 DEF KeysIn
        <3>2. PICK i \in 1..Len(s.order) : s.order[i] = j
            BY <3>1 DEF StoreInv, OrderInv
        <3> QED BY <1>4, <3>2
    <2> QED BY <2>1, <2>2
<1>10. OrderInv(t)
    BY <1>3, <1>7, <1>8, <1>9 DEF OrderInv, Running
<1>11. RecordInv(t)
    BY <1>1, <1>2, <1>3 DEF StoreInv, RecordInv, Settles, Patched, Present
<1> QED BY <1>10, <1>11 DEF StoreInv

LEMMA PublishKeeps ==
    ASSUME NEW s \in StoredStates, NEW t \in StoredStates, StoreInv(s), Publishes(s, t)
    PROVE  StoreInv(t)
<1>1. \A state : KeysIn(t, state) = KeysIn(s, state)
    BY DEF Publishes, KeysIn
<1>2. s.order \in Seq(Keys)
    BY DEF StoredStates
<1>3. OrderInv(t)
    BY <1>1, <1>2 DEF StoreInv, OrderInv, Publishes, Running
<1>4. RecordInv(t)
    BY <1>1 DEF StoreInv, RecordInv, Publishes, Present, KeysIn
<1> QED BY <1>3, <1>4 DEF StoreInv

LEMMA RemoveKeeps ==
    ASSUME NEW s \in StoredStates
    PROVE  StoreInv(Remove(s))
<1>1. /\ Remove(s).order = <<>> /\ Remove(s).session = NoSession
      /\ \A k \in Keys : Remove(s).receipts[k] = FreeReceipt
    BY DEF Remove, StoredStates
<1>2. \A state : state # "free" => KeysIn(Remove(s), state) = {}
    BY <1>1 DEF KeysIn, FreeReceipt
<1>3. OrderInv(Remove(s))
    BY <1>1, <1>2 DEF OrderInv, Running
<1>4. RecordInv(Remove(s))
    BY <1>1, <1>2 DEF RecordInv, NoSession, NoTurn, FreeReceipt, Present
<1> QED BY <1>3, <1>4 DEF StoreInv

\* A claim: the key runs and is linked to no turn, and the oldest outcome may be
\* forgotten to make room.
Claiming(s, t, k, print) ==
    /\ t.session = s.session
    /\ t.receipts[k] = [FreeReceipt EXCEPT !.state = "running", !.print = print]
    /\ \A j \in Keys \ {k} :
          \/ t.receipts[j] = s.receipts[j]
          \/ /\ s.receipts[j].state = "settled"
             /\ t.receipts[j] = [s.receipts[j] EXCEPT !.state = "tombstone", !.outcome = NoOutcome]

\* The order of the outcomes after a claim, which leaves room for one more.
MadeRoom(s, t) ==
    \/ /\ t.order = s.order /\ KeysIn(t, "settled") = KeysIn(s, "settled")
       /\ Cardinality(KeysIn(s, "settled")) < MaxOutcomes \/ s.order = <<>>
    \/ /\ s.order # <<>> /\ t.order = Tail(s.order)
       /\ KeysIn(t, "settled") = KeysIn(s, "settled") \ {Head(s.order)}

LEMMA ClaimEffect ==
    ASSUME NEW s \in StoredStates, OrderInv(s), NEW k \in Keys, NEW print \in Prints, CanClaim(s, k)
    PROVE  LET t == Claim(s, k, print) IN
           /\ Claiming(s, t, k, print) /\ MadeRoom(s, t)
           /\ KeysIn(t, "running") = {k}
           /\ KeysIn(t, "free") = KeysIn(s, "free") \ {k}
<1> DEFINE c == Compacted(s)
           t == Claim(s, k, print)
<1>1. /\ c \in StoredStates /\ s.order \in Seq(Keys)
      /\ s.receipts[k].state = "free" /\ KeysIn(s, "running") = {}
    BY CompactedType DEF StoredStates, CanClaim, Running
<1>2. /\ t.session = c.session /\ t.order = c.order
      /\ t.receipts[k] = [FreeReceipt EXCEPT !.state = "running", !.print = print]
      /\ \A j \in Keys \ {k} : t.receipts[j] = c.receipts[j]
    BY <1>1 DEF Claim, StoredStates
<1>3. t.receipts[k].state = "running"
    BY <1>2 DEF FreeReceipt
<1>4. c.session = s.session
    BY DEF Compacted, StoredStates
<1>5. CASE /\ c = s
           /\ Cardinality(KeysIn(s, "settled")) < MaxOutcomes \/ s.order = <<>>
    <2>1. Claiming(s, t, k, print)
        BY <1>2, <1>5 DEF Claiming
    <2> HIDE DEF t, c
    <2>3. \A j \in Keys : j # k => t.receipts[j].state = s.receipts[j].state
        BY <1>2, <1>5
    <2>4. \A j \in Keys : s.receipts[j].state # "running"
        BY <1>1 DEF KeysIn
    <2>2. /\ KeysIn(t, "settled") = KeysIn(s, "settled")
          /\ KeysIn(t, "running") = {k} /\ KeysIn(t, "free") = KeysIn(s, "free") \ {k}
        BY <1>1, <1>3, <2>3, <2>4 DEF KeysIn
    <2> QED BY <1>2, <1>5, <2>1, <2>2 DEF MadeRoom, t
<1>6. CASE /\ s.order # <<>>
           /\ c = [s EXCEPT !.order = Tail(@),
                            !.receipts[Head(s.order)].state = "tombstone",
                            !.receipts[Head(s.order)].outcome = NoOutcome]
    <2> DEFINE h == Head(s.order)
    <2>1. h \in Keys /\ s.receipts[h].state = "settled" /\ h # k
        <3>1. h = s.order[1] /\ 1 \in 1..Len(s.order) /\ h \in Keys
            BY <1>1, <1>6
        <3> QED BY <1>1, <3>1 DEF OrderInv
    <2>2. /\ c.order = Tail(s.order)
          /\ c.receipts[h] = [s.receipts[h] EXCEPT !.state = "tombstone", !.outcome = NoOutcome]
          /\ \A j \in Keys \ {h} : c.receipts[j] = s.receipts[j]
        <3> DEFINE receipt == [s.receipts[h] EXCEPT !.state = "tombstone", !.outcome = NoOutcome]
        <3>1. s.receipts \in [Keys -> Receipts]
            BY DEF StoredStates
        <3>2. c = [s EXCEPT !.order = Tail(s.order), !.receipts = [s.receipts EXCEPT ![h] = receipt]]
            BY <1>6, <2>1, <3>1 DEF StoredStates, Receipts
        <3> HIDE DEF receipt, c, h
        <3>3. c.order = Tail(s.order) /\ c.receipts = [s.receipts EXCEPT ![h] = receipt]
            BY <3>2 DEF StoredStates
        <3> QED BY <2>1, <3>1, <3>3 DEF receipt
    <2>3. c.receipts[h].state = "tombstone"
        BY <2>1, <2>2 DEF StoredStates, Receipts
    <2> HIDE DEF c, h, t
    <2>4. Claiming(s, t, k, print)
        BY <1>2, <1>4, <2>1, <2>2 DEF Claiming
    <2>5. /\ KeysIn(t, "settled") = KeysIn(s, "settled") \ {h}
          /\ KeysIn(t, "running") = {k} /\ KeysIn(t, "free") = KeysIn(s, "free") \ {k}
        <3>1. \A j \in Keys : j \notin {k, h} => t.receipts[j].state = s.receipts[j].state
            BY <1>2, <2>2
        <3>2. t.receipts[h].state = "tombstone"
            BY <1>2, <2>1, <2>3
        <3>3. \A j \in Keys : s.receipts[j].state # "running"
            BY <1>1 DEF KeysIn
        <3> QED BY <1>1, <1>3, <2>1, <3>1, <3>2, <3>3 DEF KeysIn
    <2> QED BY <1>2, <1>6, <2>2, <2>4, <2>5 DEF MadeRoom, t, h
<1> QED BY <1>5, <1>6 DEF Compacted

LEMMA KeysFinite ==
    ASSUME NEW s, NEW state
    PROVE  /\ IsFiniteSet(KeysIn(s, state)) /\ Cardinality(KeysIn(s, state)) \in Nat
           /\ IsFiniteSet(Keys \ KeysIn(s, state)) /\ Cardinality(Keys \ KeysIn(s, state)) \in Nat
<1>1. KeysIn(s, state) \subseteq Keys /\ Keys \ KeysIn(s, state) \subseteq Keys
    BY DEF KeysIn
<1> QED BY <1>1, KeysAssumption, FS_Subset, FS_CardinalityType

LEMMA RoomMade ==
    ASSUME NEW s \in StoredStates, NEW t, OrderInv(s), MadeRoom(s, t),
           Cardinality(KeysIn(s, "settled")) <= MaxOutcomes
    PROVE  Cardinality(KeysIn(t, "settled")) < MaxOutcomes
<1>1. MaxOutcomes \in Nat \ {0}
    BY LimitAssumption
<1>2. CASE /\ KeysIn(t, "settled") = KeysIn(s, "settled")
           /\ Cardinality(KeysIn(s, "settled")) < MaxOutcomes \/ s.order = <<>>
    <2>1. CASE s.order = <<>>
        <3>1. KeysIn(s, "settled") = {}
            BY <2>1 DEF OrderInv
        <3>2. Cardinality(KeysIn(t, "settled")) = 0
            BY <1>2, <3>1, FS_EmptySet
        <3> QED BY <1>1, <3>2
    <2> QED BY <1>2, <2>1
<1>3. CASE /\ s.order # <<>>
           /\ KeysIn(t, "settled") = KeysIn(s, "settled") \ {Head(s.order)}
    <2>1. Head(s.order) \in KeysIn(s, "settled")
        <3>1. Head(s.order) = s.order[1] /\ 1 \in 1..Len(s.order) /\ Head(s.order) \in Keys
            BY <1>3 DEF StoredStates
        <3> QED BY <3>1 DEF OrderInv, KeysIn
    <2>2. Cardinality(KeysIn(t, "settled")) = Cardinality(KeysIn(s, "settled")) - 1
        BY <1>3, <2>1, KeysFinite, FS_RemoveElement
    <2>3. Cardinality(KeysIn(s, "settled")) \in Nat
        BY KeysFinite
    <2> QED BY <1>1, <2>2, <2>3
<1> QED BY <1>2, <1>3 DEF MadeRoom

LEMMA ClaimKeeps ==
    ASSUME NEW s \in StoredStates, StoreInv(s), Valid(s), NEW k \in Keys, NEW print \in Prints,
           CanClaim(s, k)
    PROVE  StoreInv(Claim(s, k, print))
<1> DEFINE t == Claim(s, k, print)
<1>1. /\ Claiming(s, t, k, print) /\ MadeRoom(s, t) /\ KeysIn(t, "running") = {k}
    BY ClaimEffect DEF StoreInv
<1> HIDE DEF t
<1>8. t.receipts[k].outcome.kind = "none" /\ t.receipts[k].turnId = None
    <2>1. t.receipts[k] = [state |-> "running", print |-> print, turnId |-> None, outcome |-> NoOutcome]
        BY <1>1 DEF Claiming, FreeReceipt
    <2> QED BY <2>1 DEF NoOutcome
<1>2. Cardinality(KeysIn(t, "settled")) < MaxOutcomes
    BY <1>1, RoomMade DEF StoreInv, Valid
<1>3. s.order \in Seq(Keys)
    BY DEF StoredStates
<1>4. /\ \A i \in 1..Len(t.order) : t.order[i] \in KeysIn(t, "settled")
      /\ \A i, j \in 1..Len(t.order) : t.order[i] = t.order[j] => i = j
      /\ \A j \in KeysIn(t, "settled") : \E i \in 1..Len(t.order) : t.order[i] = j
    <2>1. \A i \in 1..Len(s.order) : s.order[i] \in KeysIn(s, "settled")
        BY <1>3 DEF StoreInv, OrderInv, KeysIn
    <2>2. CASE t.order = s.order /\ KeysIn(t, "settled") = KeysIn(s, "settled")
        BY <2>1, <2>2 DEF StoreInv, OrderInv
    <2>3. CASE /\ s.order # <<>> /\ t.order = Tail(s.order)
               /\ KeysIn(t, "settled") = KeysIn(s, "settled") \ {Head(s.order)}
        <3>1. /\ Len(s.order) \in Nat \ {0} /\ Len(t.order) = Len(s.order) - 1
              /\ Head(s.order) = s.order[1]
              /\ \A i \in 1..Len(t.order) : t.order[i] = s.order[i + 1]
            BY <1>3, <2>3
        <3>2. \A i \in 1..Len(t.order) : i + 1 \in 1..Len(s.order) /\ i + 1 # 1
            BY <3>1
        <3>3. 1 \in 1..Len(s.order)
            BY <3>1
        <3>4. \A i \in 1..Len(t.order) : t.order[i] \in KeysIn(t, "settled")
            BY <2>1, <2>3, <3>1, <3>2, <3>3 DEF StoreInv, OrderInv
        <3>5. \A i, j \in 1..Len(t.order) : t.order[i] = t.order[j] => i = j
            BY <3>1, <3>2 DEF StoreInv, OrderInv
        <3>6. ASSUME NEW j \in KeysIn(t, "settled") PROVE \E i \in 1..Len(t.order) : t.order[i] = j
            <4>1. PICK i \in 1..Len(s.order) : s.order[i] = j
                BY <2>3, <3>6 DEF StoreInv, OrderInv
            <4>2. i # 1
                BY <2>3, <3>1, <3>6, <4>1
            <4>3. i - 1 \in 1..Len(t.order) /\ (i - 1) + 1 = i
                BY <3>1, <4>2
            <4> QED BY <3>1, <4>1, <4>3
        <3> QED BY <3>4, <3>5, <3>6
    <2> QED BY <1>1, <2>2, <2>3 DEF MadeRoom
<1>5. OrderInv(t)
    BY <1>2, <1>4 DEF OrderInv, KeysIn
<1>6. \A j \in Keys : t.receipts[j].turnId = s.receipts[j].turnId \/ t.receipts[j].turnId = None
    <2> SUFFICES ASSUME NEW j \in Keys
                 PROVE  t.receipts[j].turnId = s.receipts[j].turnId \/ t.receipts[j].turnId = None
        OBVIOUS
    <2>1. s.receipts[j] \in Receipts
        BY DEF StoredStates
    <2>2. j # k => \/ t.receipts[j] = s.receipts[j]
                   \/ t.receipts[j] = [s.receipts[j] EXCEPT !.state = "tombstone", !.outcome = NoOutcome]
        BY <1>1 DEF Claiming
    <2> QED BY <1>8, <2>1, <2>2 DEF Receipts
<1>7. RecordInv(t)
    BY <1>1, <1>6, <1>8 DEF StoreInv, RecordInv, Claiming, Present
<1> QED BY <1>5, <1>7 DEF StoreInv, t

-----------------------------------------------------------------------------
(* What the schema finds in each of the mutators' results.                    *)

Unlinked(s) == \A k \in KeysIn(s, "running") : s.receipts[k].turnId = None

LEMMA FencesValid ==
    ASSUME NEW s, Valid(s), NEW t, t.session = s.session, t.receipts = s.receipts,
           FencesConsistent(t)
    PROVE  Valid(t)
<1>1. \A state : KeysIn(t, state) = KeysIn(s, state)
    BY DEF KeysIn
<1> QED BY <1>1 DEF Valid, LinkedReceiptHasTurn, SettledTurnNotRunning, OutcomesMatch,
    KeyedTurnHasReceipt

LEMMA FenceMovesValid ==
    ASSUME NEW s \in StoredStates, Valid(s)
    PROVE  /\ Valid(Release(s)) /\ Valid(Enter(s))
           /\ CanAllocateElsewhere(s) => Valid(AllocateElsewhere(s))
           /\ \A purpose \in {"external", "purge"} : CanReserve(s) => Valid(Reserve(s, purpose))
<1>1. /\ s.active \in Reservations /\ s.latest \in Nat /\ s.lastEpoch \in Nat
      /\ s.active.epoch \in Nat /\ FencesConsistent(s)
    BY LimitAssumption DEF StoredStates, Reservations, Valid
<1>2. /\ Release(s).session = s.session /\ Release(s).receipts = s.receipts
      /\ Enter(s) = Release(s) /\ FencesConsistent(Release(s))
    BY <1>1 DEF Release, Enter, FencesConsistent, NoReservation, StoredStates
<1>3. /\ AllocateElsewhere(s).session = s.session /\ AllocateElsewhere(s).receipts = s.receipts
      /\ FencesConsistent(AllocateElsewhere(s))
    BY <1>1 DEF AllocateElsewhere, FencesConsistent, StoredStates
<1>4. ASSUME NEW purpose \in {"external", "purge"}
      PROVE  LET t == Reserve(s, purpose) IN
             t.session = s.session /\ t.receipts = s.receipts /\ FencesConsistent(t)
    <2>1. CASE Mutable(s)
        BY <1>1, <2>1 DEF Reserve, FencesConsistent, StoredStates
    <2>2. CASE ~Mutable(s)
        BY <1>1, <2>2 DEF Reserve, FencesConsistent, StoredStates, Reservations, Mutable
    <2> QED BY <2>1, <2>2
<1> QED BY <1>2, <1>3, <1>4, FencesValid

\* A session may be rewritten; its turn may be ended when no receipt hangs on it.
LEMMA SessionValid ==
    ASSUME NEW s \in StoredStates, Valid(s), NEW session, Patched(s.session, session),
           session.turn.state = s.session.turn.state \/ Unlinked(s)
    PROVE  Valid(Upsert(s, session))
<1> DEFINE t == Upsert(s, session)
<1>1. /\ t.receipts = s.receipts /\ SameFences(s, t) /\ t.session = session
    BY DEF Upsert, StoredStates, SameFences
<1> HIDE DEF t
<1>2. \A state : KeysIn(t, state) = KeysIn(s, state)
    BY <1>1 DEF KeysIn
<1>3. LinkedReceiptHasTurn(t)
    BY <1>1 DEF Valid, LinkedReceiptHasTurn, Patched, Unlinked, KeysIn
<1>4. SettledTurnNotRunning(t)
    BY <1>1 DEF Valid, SettledTurnNotRunning, Patched, TerminalTurnStates
<1>5. OutcomesMatch(t)
    BY <1>1 DEF Valid, OutcomesMatch
<1>6. KeyedTurnHasReceipt(t)
    BY <1>1 DEF Valid, KeyedTurnHasReceipt, Patched, TerminalTurnStates
<1>7. FencesConsistent(t)
    BY <1>1 DEF Valid, FencesConsistent, SameFences
<1> QED BY <1>2, <1>3, <1>4, <1>5, <1>6, <1>7 DEF Valid, t

\* A receipt is settled with the turn it is linked to, which has ended.
LEMMA SettledValid ==
    ASSUME NEW s \in StoredStates, Valid(s), StoreInv(s), NEW k \in KeysIn(s, "running"),
           NEW kind \in {"success", "error"}, NEW session \in Sessions, Patched(s.session, session),
           s.receipts[k].turnId = None => kind = "error",
           s.receipts[k].turnId # None =>
               session.state # "running" /\ session.turn.state \in TerminalTurnStates
    PROVE  Valid(Settled(s, k, kind, session))
<1> DEFINE t == Settled(s, k, kind, session)
<1>1. /\ k \in Keys /\ s.receipts[k].state = "running" /\ s.receipts \in [Keys -> Receipts]
      /\ \A j \in KeysIn(s, "running") : j = k
    BY DEF KeysIn, StoredStates, Valid
<1>2. /\ SameFences(s, t) /\ t.session = session
      /\ \A j \in Keys \ {k} : t.receipts[j] = s.receipts[j]
    <2>1. SameFences(s, t)
        BY FencesSame
    <2>2. t.session = session /\ \A j \in Keys \ {k} : t.receipts[j] = s.receipts[j]
        BY <1>1 DEF Settled, StoredStates
    <2> QED BY <2>1, <2>2
<1>3. /\ t.receipts[k].state = "settled" /\ t.receipts[k].print = s.receipts[k].print
      /\ t.receipts[k].turnId = s.receipts[k].turnId
      /\ t.receipts[k].outcome =
            [kind |-> kind, snapshot |-> IF kind = "success" \/ s.receipts[k].turnId # None
                                         THEN Snapshot(session) ELSE NoOutcome.snapshot]
    BY <1>1 DEF Settled, StoredStates, Receipts
<1> HIDE DEF t
<1>4. /\ KeysIn(t, "running") = {} /\ KeysIn(t, "free") = KeysIn(s, "free")
      /\ KeysIn(t, "settled") = KeysIn(s, "settled") \cup {k}
    <2>1. \A j \in Keys : j # k => t.receipts[j].state = s.receipts[j].state
        BY <1>2
    <2>2. \A j \in Keys : j # k => s.receipts[j].state # "running"
        BY <1>1 DEF KeysIn
    <2> QED BY <1>1, <1>3, <2>1, <2>2 DEF KeysIn
<1>5. Cardinality(KeysIn(t, "settled")) <= MaxOutcomes
    <2>1. Cardinality(KeysIn(s, "settled")) < MaxOutcomes
        BY <1>1 DEF StoreInv, OrderInv, Running
    <2>2. Cardinality(KeysIn(s, "settled")) \in Nat /\ IsFiniteSet(KeysIn(s, "settled"))
        BY KeysFinite
    <2>3. Cardinality(KeysIn(t, "settled")) \in
              {Cardinality(KeysIn(s, "settled")), Cardinality(KeysIn(s, "settled")) + 1}
        BY <1>4, <2>2, FS_AddElement
    <2>4. MaxOutcomes \in Nat
        BY LimitAssumption
    <2> QED BY <2>1, <2>2, <2>3, <2>4
\* A linked receipt shows the turn of the session.
<1>6. s.receipts[k].turnId # None =>
          /\ s.session.turn.id = s.receipts[k].turnId
          /\ s.session.turn.key = k /\ s.session.turn.print = s.receipts[k].print
    BY <1>1 DEF Valid, LinkedReceiptHasTurn
<1>7. s.receipts[k].turnId = None => s.session.turn.key # k
    BY <1>1, NoneAssumption DEF Valid, KeyedTurnHasReceipt, StoreInv, RecordInv
<1>8. LinkedReceiptHasTurn(t)
    BY <1>4 DEF LinkedReceiptHasTurn, KeysIn
<1>9. SettledTurnNotRunning(t)
    <2> SUFFICES ASSUME NEW j \in Keys, t.receipts[j].state = "settled", t.receipts[j].turnId # None,
                        session.turn.id = t.receipts[j].turnId, session.turn.state = "running"
                 PROVE  FALSE
        BY <1>2 DEF SettledTurnNotRunning
    <2>1. s.session.turn.state = "running" /\ s.session.turn.id = session.turn.id
        BY DEF Patched, TerminalTurnStates
    <2>2. CASE j = k
        BY <1>3, <2>2 DEF TerminalTurnStates
    <2>3. CASE j # k
        BY <1>2, <2>1, <2>3 DEF Valid, SettledTurnNotRunning
    <2> QED BY <2>2, <2>3
<1>10. OutcomesMatch(t)
    <2>1. \A j \in Keys \ {k} : t.receipts[j] = s.receipts[j]
        BY <1>2
    <2>2. t.receipts[k].turnId # None => MatchesTerminal(Snapshot(session), k, t.receipts[k])
        BY <1>3, <1>6 DEF MatchesTerminal, Snapshot, Patched
    <2>3. t.receipts[k].outcome.kind = kind
        BY <1>3
    <2>4. t.receipts[k].turnId # None => t.receipts[k].outcome.snapshot = Snapshot(session)
        BY <1>3
    <2>5. kind = "success" => t.receipts[k].turnId # None
        BY <1>3
    <2> QED BY <2>1, <2>2, <2>3, <2>4, <2>5 DEF Valid, OutcomesMatch
<1>11. KeyedTurnHasReceipt(t)
    <2> SUFFICES ASSUME session.turn.key # None
                 PROVE  LET r == t.receipts[session.turn.key] IN
                        /\ r.state # "free" /\ r.print = session.turn.print
                        /\ r.turnId = session.turn.id
                        /\ session.turn.state = "running" => r.state = "running"
        BY <1>2 DEF KeyedTurnHasReceipt
    <2> DEFINE j == s.session.turn.key
    <2>1. /\ session.turn.key = j /\ session.turn.id = s.session.turn.id
          /\ session.turn.print = s.session.turn.print /\ j # None
          /\ session.turn.state = "running" => s.session.turn.state = "running"
        BY DEF Patched, TerminalTurnStates
    <2>2. j \in Keys
        BY <2>1 DEF StoredStates, Sessions, Turns
    <2>3. /\ s.receipts[j].state # "free" /\ s.receipts[j].print = session.turn.print
          /\ s.receipts[j].turnId = session.turn.id
          /\ s.session.turn.state = "running" => s.receipts[j].state = "running"
        BY <2>1 DEF Valid, KeyedTurnHasReceipt
    <2> HIDE DEF j
    <2>4. CASE j = k
        <3>1. s.receipts[k].turnId # None
            BY <1>7, <2>4 DEF j
        <3> QED BY <1>3, <2>1, <2>3, <2>4, <3>1 DEF TerminalTurnStates
    <2>5. CASE j # k
        <3>1. s.receipts[j].state # "running"
            BY <1>1, <2>2, <2>5 DEF KeysIn
        <3> QED BY <1>2, <2>1, <2>2, <2>3, <2>5, <3>1
    <2> QED BY <2>4, <2>5
<1>12. FencesConsistent(t)
    BY <1>2 DEF Valid, FencesConsistent, SameFences
<1>13. Cardinality(Keys \ KeysIn(t, "free")) <= MaxIdentities
    BY <1>4 DEF Valid
<1> QED BY <1>4, <1>5, <1>8, <1>9, <1>10, <1>11, <1>12, <1>13 DEF Valid, t

LEMMA ClaimValid ==
    ASSUME NEW s \in StoredStates, StoreInv(s), Valid(s), NEW k \in Keys, NEW print \in Prints,
           CanClaim(s, k)
    PROVE  Valid(Claim(s, k, print))
<1> DEFINE t == Claim(s, k, print)
<1>1. /\ Claiming(s, t, k, print) /\ MadeRoom(s, t) /\ KeysIn(t, "running") = {k}
      /\ KeysIn(t, "free") = KeysIn(s, "free") \ {k} /\ SameFences(s, t)
    BY ClaimEffect, FencesSame DEF StoreInv
<1> HIDE DEF t
<1>2. t.receipts[k] = [state |-> "running", print |-> print, turnId |-> None, outcome |-> NoOutcome]
    BY <1>1 DEF Claiming, FreeReceipt
<1>3. \A j \in Keys \ {k} :
          \/ t.receipts[j] = s.receipts[j]
          \/ /\ s.receipts[j].state = "settled" /\ t.receipts[j].state = "tombstone"
             /\ t.receipts[j].print = s.receipts[j].print
             /\ t.receipts[j].turnId = s.receipts[j].turnId
             /\ t.receipts[j].outcome = NoOutcome
    <2> SUFFICES ASSUME NEW j \in Keys \ {k}, t.receipts[j] # s.receipts[j]
                 PROVE  /\ s.receipts[j].state = "settled" /\ t.receipts[j].state = "tombstone"
                        /\ t.receipts[j].print = s.receipts[j].print
                        /\ t.receipts[j].turnId = s.receipts[j].turnId
                        /\ t.receipts[j].outcome = NoOutcome
        OBVIOUS
    <2>1. /\ s.receipts[j] \in Receipts /\ s.receipts[j].state = "settled"
          /\ t.receipts[j] = [s.receipts[j] EXCEPT !.state = "tombstone", !.outcome = NoOutcome]
        BY <1>1 DEF StoredStates, Claiming
    <2> QED BY <2>1 DEF Receipts
<1>4. Cardinality(KeysIn(t, "settled")) <= MaxOutcomes
    <2>1. Cardinality(KeysIn(t, "settled")) < MaxOutcomes
        BY <1>1, RoomMade DEF StoreInv, Valid
    <2>2. Cardinality(KeysIn(t, "settled")) \in Nat /\ MaxOutcomes \in Nat
        BY KeysFinite, LimitAssumption
    <2> QED BY <2>1, <2>2
<1>5. Cardinality(Keys \ KeysIn(t, "free")) <= MaxIdentities
    <2> DEFINE used == Keys \ KeysIn(s, "free")
    <2>1. Keys \ KeysIn(t, "free") = used \cup {k}
        BY <1>1
    <2>2. IsFiniteSet(used) /\ Cardinality(used) \in Nat /\ Cardinality(used) < MaxIdentities
        BY KeysFinite DEF CanClaim
    <2> HIDE DEF used
    <2>3. Cardinality(used \cup {k}) \in {Cardinality(used), Cardinality(used) + 1}
        BY <2>2, FS_AddElement
    <2>4. MaxIdentities \in Nat
        BY LimitAssumption
    <2> QED BY <2>1, <2>2, <2>3, <2>4
<1>6. \A i, j \in KeysIn(t, "running") : i = j
    BY <1>1
<1>7. NoOutcome.kind = "none"
    BY DEF NoOutcome
<1>8. LinkedReceiptHasTurn(t)
    <2>1. \A j \in Keys : t.receipts[j].state = "running" => j = k
        BY <1>1 DEF KeysIn
    <2> QED BY <1>2, <2>1 DEF LinkedReceiptHasTurn
<1>9. SettledTurnNotRunning(t)
    <2>1. t.session = s.session
        BY <1>1 DEF Claiming
    <2>2. \A j \in Keys : t.receipts[j].state = "settled" => t.receipts[j] = s.receipts[j]
        BY <1>2, <1>3
    <2> QED BY <2>1, <2>2 DEF Valid, SettledTurnNotRunning
<1>10. OutcomesMatch(t)
    <2> SUFFICES ASSUME NEW j \in Keys
                 PROVE  /\ t.receipts[j].outcome.kind = "success" =>
                               /\ t.receipts[j].turnId # None
                               /\ MatchesTerminal(t.receipts[j].outcome.snapshot, j, t.receipts[j])
                        /\ t.receipts[j].outcome.kind = "error" /\ t.receipts[j].turnId # None =>
                               MatchesTerminal(t.receipts[j].outcome.snapshot, j, t.receipts[j])
        BY DEF OutcomesMatch
    <2>1. CASE t.receipts[j] = s.receipts[j]
        BY <2>1 DEF Valid, OutcomesMatch
    <2>2. CASE t.receipts[j].outcome = NoOutcome
        BY <1>7, <2>2
    <2> QED BY <1>2, <1>3, <2>1, <2>2
<1>11. KeyedTurnHasReceipt(t)
    <2> DEFINE turn == s.session.turn
    <2> SUFFICES ASSUME turn.key # None
                 PROVE  LET r == t.receipts[turn.key] IN
                        /\ r.state # "free" /\ r.print = turn.print /\ r.turnId = turn.id
                        /\ turn.state = "running" => r.state = "running"
        BY <1>1 DEF KeyedTurnHasReceipt, Claiming
    <2>1. turn.key \in Keys
        BY DEF StoredStates, Sessions, Turns
    <2>2. LET r == s.receipts[turn.key] IN
          /\ r.state # "free" /\ r.print = turn.print /\ r.turnId = turn.id
          /\ turn.state = "running" => r.state = "running"
        BY DEF Valid, KeyedTurnHasReceipt
    <2>3. turn.key # k
        BY <2>2 DEF CanClaim
    <2> HIDE DEF turn
    <2> QED BY <1>3, <2>1, <2>2, <2>3
<1>12. FencesConsistent(t)
    BY <1>1 DEF Valid, FencesConsistent, SameFences
<1> QED BY <1>4, <1>5, <1>6, <1>8, <1>9, <1>10, <1>11, <1>12 DEF Valid, t

\* A removal leaves nothing the schema could object to.
LEMMA RemoveValid ==
    ASSUME NEW s \in StoredStates, Valid(s)
    PROVE  Valid(Remove(s))
<1> DEFINE t == Remove(s)
<1>1. /\ t.session = NoSession /\ SameFences(s, t) /\ t.receipts = [j \in Keys |-> FreeReceipt]
    BY FencesSame DEF Remove, StoredStates
<1> HIDE DEF t
<1>2. /\ KeysIn(t, "running") = {} /\ KeysIn(t, "settled") = {} /\ KeysIn(t, "free") = Keys
      /\ Keys \ Keys = {} /\ Cardinality({}) = 0
    BY <1>1, FS_EmptySet DEF KeysIn, FreeReceipt
<1>3. /\ LinkedReceiptHasTurn(t) /\ SettledTurnNotRunning(t)
      /\ OutcomesMatch(t) /\ KeyedTurnHasReceipt(t)
    BY <1>1 DEF LinkedReceiptHasTurn, SettledTurnNotRunning, OutcomesMatch, KeyedTurnHasReceipt,
       FreeReceipt, NoOutcome, NoSession, NoTurn
<1>4. FencesConsistent(t)
    BY <1>1 DEF Valid, FencesConsistent, SameFences
<1> QED BY <1>2, <1>3, <1>4, LimitAssumption DEF Valid, t

\* A keyed turn is linked under an id that no verdict has been given for.
LEMMA LinkValid ==
    ASSUME NEW s \in StoredStates, StoreInv(s), Valid(s), NEW k \in Keys, NEW print, NEW session,
           CanLink(s, k, print, session), session.turn.state = "running", session.turn.id # None,
           \A j \in Keys : s.receipts[j].state = "settled" => s.receipts[j].turnId # session.turn.id
    PROVE  Valid(Link(s, k, session))
<1> DEFINE t == Link(s, k, session)
<1>1. /\ t.session = session /\ SameFences(s, t)
      /\ t.receipts[k].state = s.receipts[k].state /\ t.receipts[k].print = s.receipts[k].print
      /\ t.receipts[k].outcome = s.receipts[k].outcome
      /\ t.receipts[k].turnId = session.turn.id
      /\ \A j \in Keys \ {k} : t.receipts[j] = s.receipts[j]
    <2>1. SameFences(s, t)
        BY FencesSame
    <2>2. /\ t.session = session /\ \A j \in Keys \ {k} : t.receipts[j] = s.receipts[j]
          /\ t.receipts[k].state = s.receipts[k].state /\ t.receipts[k].print = s.receipts[k].print
          /\ t.receipts[k].outcome = s.receipts[k].outcome
          /\ t.receipts[k].turnId = session.turn.id
        BY DEF Link, StoredStates, Receipts
    <2> QED BY <2>1, <2>2
<1> HIDE DEF t
<1>2. /\ s.receipts[k].state = "running" /\ s.receipts[k].print = print
      /\ session.turn.key = k /\ session.turn.print = print
    BY DEF CanLink, HoldsRunning
<1>3. /\ k \in KeysIn(s, "running") /\ s.receipts[k].outcome.kind = "none"
      /\ \A j \in Keys : s.receipts[j].state = "running" => j = k
    BY <1>2 DEF KeysIn, StoreInv, RecordInv, Valid
<1>4. \A state : KeysIn(t, state) = KeysIn(s, state)
    <2>1. \A j \in Keys : t.receipts[j].state = s.receipts[j].state
        BY <1>1
    <2> QED BY <2>1 DEF KeysIn
<1>5. LinkedReceiptHasTurn(t)
    BY <1>1, <1>2, <1>3 DEF LinkedReceiptHasTurn
<1>6. SettledTurnNotRunning(t)
    BY <1>1, <1>2 DEF SettledTurnNotRunning
<1>7. OutcomesMatch(t)
    <2>1. t.receipts[k].outcome.kind = "none"
        BY <1>1, <1>3
    <2> QED BY <1>1, <2>1 DEF Valid, OutcomesMatch
<1>8. KeyedTurnHasReceipt(t)
    BY <1>1, <1>2 DEF KeyedTurnHasReceipt
<1>9. FencesConsistent(t)
    BY <1>1 DEF Valid, FencesConsistent, SameFences
<1> QED BY <1>4, <1>5, <1>6, <1>7, <1>8, <1>9 DEF Valid, t

\* So is an unkeyed turn, when no receipt runs.
LEMMA UnkeyedValid ==
    ASSUME NEW s \in StoredStates, Valid(s), ~Running(s), NEW session, session.turn.key = None,
           \A k \in Keys : s.receipts[k].state = "settled" /\ s.receipts[k].turnId # None
               => s.receipts[k].turnId # session.turn.id \/ session.turn.state # "running"
    PROVE  Valid(Upsert(s, session))
<1> DEFINE t == Upsert(s, session)
<1>1. /\ t.receipts = s.receipts /\ t.active = s.active /\ t.latest = s.latest
      /\ t.lastEpoch = s.lastEpoch /\ t.session = session
    BY DEF Upsert, StoredStates
<1> HIDE DEF t
<1>2. \A state : KeysIn(t, state) = KeysIn(s, state)
    BY <1>1 DEF KeysIn
<1>3. LinkedReceiptHasTurn(t)
    BY <1>1 DEF LinkedReceiptHasTurn, Running, KeysIn
<1>4. SettledTurnNotRunning(t)
    BY <1>1 DEF SettledTurnNotRunning
<1>5. OutcomesMatch(t) /\ KeyedTurnHasReceipt(t) /\ FencesConsistent(t)
    BY <1>1 DEF Valid, OutcomesMatch, KeyedTurnHasReceipt, FencesConsistent
<1> QED BY <1>2, <1>3, <1>4, <1>5 DEF Valid, t

\* The manager's patches leave a turn as it is or end it.
LEMMA PatchesMake ==
    ASSUME NEW session \in Sessions,
           session.turn.id = None => session.turn.state = "none" /\ session.turn.key = None
    PROVE  /\ Patched(session, session)
           /\ Patched(session, FenceReleased(session)) /\ Patched(session, SessionFailed(session))
           /\ Patched(session, StoppedSession(session)) /\ Patched(session, QuiescedSession(session))
           /\ Patched(session, InterruptedSession(session)) /\ Patched(session, FencedSession(session))
           /\ session.turn.state \in {"running", "orphaned"} => Patched(session, OrphanedSession(session))
           /\ \A r \in Requests : Patched(session, SettledByThrow(session, r))
           /\ \A result \in {"idle", "failed"} : Patched(session, FinalSession(session, result))
           /\ \A pid : Patched(session, [session EXCEPT !.turn.pid = pid])
           /\ \A state \in {"idle", "running", "suspended", "failed"} :
                  Patched(session, [session EXCEPT !.state = state])
<1>1. session.turn.state \in TurnStates /\ session.turn \in Turns
    BY DEF Sessions, Turns
<1>2. /\ Patched(session, session)
      /\ Patched(session, FenceReleased(session)) /\ Patched(session, SessionFailed(session))
    BY <1>1 DEF Patched, FenceReleased, SessionFailed, Sessions, Turns, TurnStates, TerminalTurnStates
<1>3. Patched(session, StoppedSession(session)) /\ Patched(session, QuiescedSession(session))
    BY <1>1 DEF Patched, StoppedSession, QuiescedSession, Sessions, Turns, TurnStates, TerminalTurnStates
<1>4. /\ Patched(session, InterruptedSession(session)) /\ Patched(session, FencedSession(session))
      /\ session.turn.state \in {"running", "orphaned"} => Patched(session, OrphanedSession(session))
    BY <1>1 DEF Patched, InterruptedSession, FencedSession, OrphanedSession, Sessions, Turns,
       TurnStates, TerminalTurnStates
<1>5. ASSUME NEW r \in Requests PROVE Patched(session, SettledByThrow(session, r))
    BY <1>1 DEF Patched, SettledByThrow, Sessions, Turns, TurnStates, TerminalTurnStates
<1>6. ASSUME NEW result \in {"idle", "failed"} PROVE Patched(session, FinalSession(session, result))
    BY <1>1 DEF Patched, FinalSession, Sessions, Turns, TurnStates, TerminalTurnStates
<1>7. ASSUME NEW pid PROVE Patched(session, [session EXCEPT !.turn.pid = pid])
    BY <1>1 DEF Patched, Sessions, Turns
<1>8. ASSUME NEW state \in {"idle", "running", "suspended", "failed"}
      PROVE  Patched(session, [session EXCEPT !.state = state])
    BY <1>1 DEF Patched, Sessions
<1> QED BY <1>2, <1>3, <1>4, <1>5, <1>6, <1>7, <1>8

LEMMA WriteKinds ==
    ASSUME NEW s \in StoredStates
    PROVE  /\ \A session : Patched(s.session, session) => Patches(s, Upsert(s, session))
           /\ \A k \in KeysIn(s, "running") : \A kind, session :
                  Patched(s.session, session) => Settles(s, Settled(s, k, kind, session))
<1>1. \A session : /\ Upsert(s, session).receipts = s.receipts
                   /\ Upsert(s, session).order = s.order
                   /\ Upsert(s, session).session = session
    BY DEF Upsert, StoredStates
<1>2. ASSUME NEW k \in KeysIn(s, "running"), NEW kind, NEW session, Patched(s.session, session)
      PROVE  Settles(s, Settled(s, k, kind, session))
    <2>1. k \in Keys /\ s.receipts \in [Keys -> Receipts]
        BY DEF KeysIn, StoredStates
    <2> DEFINE t == Settled(s, k, kind, session)
    <2>2. /\ t.session = session /\ t.order = Append(s.order, k)
          /\ t.receipts[k].state = "settled" /\ t.receipts[k].turnId = s.receipts[k].turnId
          /\ \A i \in Keys \ {k} : t.receipts[i] = s.receipts[i]
        BY <2>1 DEF Settled, StoredStates, Receipts
    <2> QED BY <1>2, <2>2 DEF Settles
<1> QED BY <1>1, <1>2 DEF Patches

\* What the reconciliation of a restart does to the store, and that the schema
\* accepts it.
LEMMA ReconciledValid ==
    ASSUME NEW s \in StoredStates, Valid(s), StoreInv(s)
    PROVE  /\ Patches(s, Reconciled(s)) \/ Settles(s, Reconciled(s))
           /\ Valid(Reconciled(s))
<1> DEFINE k == CHOOSE k \in KeysIn(s, "running") : TRUE
<1>1. /\ s.session \in Sessions
      /\ s.session.turn.id = None => s.session.turn.state = "none" /\ s.session.turn.key = None
      /\ InterruptedSession(s.session) \in Sessions /\ OrphanedSession(s.session) \in Sessions
    BY PatchTypes DEF StoredStates, StoreInv, RecordInv
<1>2. Running(s) => k \in KeysIn(s, "running") /\ k \in Keys
    BY DEF Running, KeysIn
<1>3. Running(s) => \A j \in KeysIn(s, "running") : j = k
    BY <1>2 DEF Valid
<1>4. \A session : /\ Upsert(s, session).receipts = s.receipts
                   /\ Upsert(s, session).order = s.order
                   /\ Upsert(s, session).session = session
    BY DEF Upsert, StoredStates
<1>5. ASSUME NEW j \in KeysIn(s, "running"), NEW session, Patched(s.session, session)
      PROVE  Settles(s, Settled(s, j, "error", session))
    BY <1>5, WriteKinds
<1> HIDE DEF k
<1>6. CASE Interrupted(s)
    <2>1. Running(s) /\ k \in KeysIn(s, "running")
        BY <1>2, <1>6 DEF Interrupted
    <2>2. Unpublished(s) /\ s.receipts[k].turnId = None
        <3>1. ASSUME s.receipts[k].turnId # None PROVE FALSE
            <4>1. s.session.turn.state = "running" /\ s.session.turn.id = s.receipts[k].turnId
                BY <1>2, <2>1, <3>1 DEF Valid, LinkedReceiptHasTurn, KeysIn
            <4>2. Present(s)
                BY <1>2, <2>1, <3>1 DEF StoreInv, RecordInv
            <4> QED BY <1>3, <1>6, <2>1, <3>1, <4>1, <4>2 DEF Interrupted, Unpublished
        <3> QED BY <2>1, <3>1 DEF Unpublished
    <2>3. Reconciled(s) = Settled(s, k, "error", InterruptedSession(s.session))
        BY <1>6, <2>2 DEF Reconciled, k
    <2>4. Patched(s.session, InterruptedSession(s.session))
        BY <1>1, PatchesMake
    <2> QED BY <1>1, <1>5, <2>1, <2>2, <2>3, <2>4, SettledValid
<1>7. CASE ~Interrupted(s)
    <2>1. CASE ~Present(s) \/ ~NeedsReconciling(s.session)
        <3>1. Reconciled(s) = s
            BY <1>7, <2>1 DEF Reconciled
        <3>2. Patches(s, s)
            BY <1>1, PatchesMake DEF Patches
        <3> QED BY <3>1, <3>2
    <2>2. CASE Present(s) /\ NeedsReconciling(s.session) /\ ~Orphaned(s.session)
        <3>1. Reconciled(s) = Upsert(s, FencedSession(s.session))
            BY <1>7, <2>2 DEF Reconciled
        <3>2. Patched(s.session, FencedSession(s.session))
            BY <1>1, PatchesMake
        <3>3. FencedSession(s.session).turn = s.session.turn
            BY <1>1 DEF FencedSession, Sessions
        <3>4. Patches(s, Reconciled(s))
            BY <1>4, <3>1, <3>2 DEF Patches
        <3>5. Valid(Upsert(s, FencedSession(s.session)))
            BY <3>2, <3>3, SessionValid
        <3> QED BY <3>1, <3>4, <3>5
    <2>3. CASE Present(s) /\ NeedsReconciling(s.session) /\ Orphaned(s.session)
        <3>1. /\ s.session.turn.state \in {"running", "orphaned"}
              /\ OrphanedSession(s.session).state = "failed"
              /\ OrphanedSession(s.session).turn.state = "orphaned"
            BY <1>1, <2>3 DEF Orphaned, OrphanedSession, Sessions, Turns
        <3>2. Patched(s.session, OrphanedSession(s.session))
            BY <1>1, <3>1, PatchesMake
        <3>3. CASE Running(s)
            <4>1. Reconciled(s) = Settled(s, k, "error", OrphanedSession(s.session))
                BY <1>7, <2>3, <3>3 DEF Reconciled, k
            <4>2. Valid(Settled(s, k, "error", OrphanedSession(s.session)))
                BY <1>1, <1>2, <3>1, <3>2, <3>3, SettledValid DEF TerminalTurnStates
            <4> QED BY <1>2, <1>5, <3>2, <3>3, <4>1, <4>2
        <3>4. CASE ~Running(s)
            <4>1. Reconciled(s) = Upsert(s, OrphanedSession(s.session))
                BY <1>7, <2>3, <3>4 DEF Reconciled
            <4>2. Unlinked(s)
                BY <3>4 DEF Unlinked, Running
            <4>3. Valid(Upsert(s, OrphanedSession(s.session)))
                BY <3>2, <4>2, SessionValid
            <4> QED BY <1>4, <3>2, <4>1, <4>3 DEF Patches
        <3> QED BY <3>3, <3>4
    <2> QED BY <2>1, <2>2, <2>3
<1> QED BY <1>6, <1>7

-----------------------------------------------------------------------------
(* The invariant: receipts, session, turn and daemon agree.                   *)

\* A request that has drawn no turn id yet, and a turn that may have drawn one.
Unborn(r) ==
    \/ req[r].pc \in {"new", "queued", "waiting", "fence", "enter", "claim",
                      "body", "refresh", "provision", "runtime"}
    \/ req[r].pc = "link" /\ ~req[r].retried
Publishing(r) ==
    \/ req[r].pc \in {"linkWrite", "spawn", "pid", "run", "final", "failing"}
    \/ req[r].pc = "link" /\ req[r].retried

\* An id that was not drawn is nobody's.
Undrawn(r) ==
    /\ ~req[r].retried
    /\ mem.turnId # r /\ store.session.turn.id # r
    /\ \A k \in Keys : store.receipts[k].turnId # r

\* What an admitted turn can rely on while it writes: no receipt runs but its own,
\* the reading it builds a record on is what is stored, and its receipt is linked
\* under the id it holds, beside a running session, from the link on.
TurnOk(r) ==
    /\ IF Keyed(r)
       THEN \A k \in KeysIn(store, "running") :
                /\ k = KeyOf[r] /\ store.receipts[k].print = PrintOf[r]
                /\ store.receipts[k].turnId # None =>
                       store.receipts[k].turnId = mem.turnId /\ store.session.state = "running"
       ELSE ~Running(store)
    /\ req[r].pc \in {"refresh", "provision", "linkWrite"} => req[r].seen = store.session
    /\ req[r].pc \notin {"body", "provision", "epilogue"} => Present(store)
    /\ Publishing(r) /\ req[r].pc # "failing" => mem.turnId # None
    /\ Unborn(r) => Undrawn(r)
    /\ Keyed(r) /\ req[r].pc \in {"spawn", "pid", "run", "final"} =>
           store.receipts[KeyOf[r]].turnId # None
    /\ Keyed(r) /\ req[r].pc \in {"body", "refresh", "provision", "runtime"} =>
           store.receipts[KeyOf[r]].turnId = None

Coherent ==
    /\ StoreInv(store)
    /\ mem.keyed # None => mem.active = mem.keyed /\ req[mem.keyed].pc \in BodySteps
    /\ \A r \in Requests :
          /\ req[r].pc \in BodySteps => TurnOk(r) /\ (Keyed(r) => mem.keyed = r)
          /\ req[r].pc \in AdmissionSteps => ~Running(store)
          /\ Unborn(r) => Undrawn(r)
    /\ op.pc = "unfence" => ~Present(store)

\* The turn ids on record after a write: as before, or the one the daemon holds.
IdsKept ==
    /\ store'.session.turn.id \in {store.session.turn.id, mem.turnId, None}
    /\ \A k \in Keys : store'.receipts[k].turnId \in {store.receipts[k].turnId, mem.turnId, None}

\* Who is in, when a turn is.
LEMMA InTurn ==
    ASSUME Inv, Coherent, NEW r \in Requests, req[r].pc \in BodySteps
    PROVE  /\ mem.active = r /\ mem.keyed = (IF Keyed(r) THEN r ELSE None)
           /\ TurnOk(r) /\ op.pc # "unfence" /\ None \notin Requests
           /\ \A q \in Requests \ {r} : req[q].pc \notin AdmissionSteps \cup BodySteps
           /\ Keyed(r) => KeyOf[r] \in Keys
<1>1. mem.active = r /\ op.pc # "unfence" /\ None \notin Requests
    BY InvTypes DEF Inv, LockInv
<1>2. \A q \in Requests \ {r} : req[q].pc \notin AdmissionSteps \cup BodySteps
    BY <1>1, PcNames DEF Inv, LockInv
<1>3. mem.keyed \in Requests \cup {None} /\ (mem.keyed # None => Keyed(mem.keyed))
    BY InvTypes DEF Inv, TypeInv, KeysHeld, Keyed
<1> QED BY <1>1, <1>2, <1>3, KeyOfType DEF Coherent

\* What is left to show of a step of a turn.
LEMMA TurnKeeps ==
    ASSUME Inv, Coherent, NEW r \in Requests, BodyStep(r), mem'.keyed = mem.keyed,
           \/ IdsKept /\ mem'.turnId \in {mem.turnId, None}
           \/ store' = store /\ mem'.turnId = r,
           StoreInv(store'), TurnOk(r)'
    PROVE  Coherent'
<1>1. /\ mem.active = r /\ mem.keyed = (IF Keyed(r) THEN r ELSE None)
      /\ op.pc # "unfence" /\ None \notin Requests
      /\ \A q \in Requests \ {r} : req[q].pc \notin AdmissionSteps \cup BodySteps
    BY InTurn DEF BodyStep
<1>2. /\ req'[r].pc \in BodySteps /\ req'[r].pc \notin AdmissionSteps
      /\ mem'.active = mem.active /\ op' = op
      /\ \A q \in Requests \ {r} : req'[q] = req[q]
    BY PcNames DEF BodyStep, SameLock, Others
<1>3. ASSUME NEW q \in Requests, Unborn(q)' PROVE Undrawn(q)'
    <2>1. CASE q = r
        BY <1>3, <2>1 DEF TurnOk
    <2>2. CASE q # r
        <3>1. Unborn(q)
            BY <1>2, <1>3, <2>2 DEF Unborn
        <3>2. Undrawn(q)
            BY <3>1 DEF Coherent
        <3> QED BY <1>1, <1>2, <2>2, <3>2 DEF Undrawn, IdsKept
    <2> QED BY <2>1, <2>2
<1> QED BY <1>1, <1>2, <1>3 DEF Coherent

\* A step that writes nothing and draws no id.
LEMMA TurnGoes ==
    ASSUME Inv, Coherent, NEW r \in Requests, BodyStep(r), UNCHANGED <<store, mem.keyed>>,
           mem'.turnId = mem.turnId,
           req'[r].pc \in {"refresh", "provision", "linkWrite"} => req'[r].seen = store.session,
           req'[r].pc \notin {"body", "provision", "epilogue"} => Present(store),
           Publishing(r)' /\ req'[r].pc # "failing" => mem.turnId # None,
           Unborn(r)' => Unborn(r) /\ req'[r].retried = req[r].retried,
           Keyed(r) /\ req'[r].pc \in {"spawn", "pid", "run", "final"} =>
               store.receipts[KeyOf[r]].turnId # None,
           req'[r].pc \in {"body", "refresh", "provision", "runtime"} =>
               req[r].pc \in {"body", "refresh", "provision", "runtime"}
    PROVE  Coherent'
<1>1. TurnOk(r) /\ StoreInv(store) /\ IdsKept
    BY InTurn DEF BodyStep, Coherent, IdsKept
<1>2. TurnOk(r)'
    <2>1. /\ KeysIn(store', "running") = KeysIn(store, "running")
          /\ Running(store') = Running(store) /\ Present(store') = Present(store)
        BY DEF KeysIn
    <2>2. Unborn(r)' /\ Undrawn(r) => Undrawn(r)'
        BY DEF Undrawn
    <2> QED BY <1>1, <2>1, <2>2 DEF TurnOk
<1> QED BY <1>1, <1>2, TurnKeeps

\* A step that rewrites the session without settling anything, or writes nothing.
LEMMA TurnPatches ==
    ASSUME Inv, Coherent, NEW r \in Requests, BodyStep(r), store' \in StoredStates,
           Patches(store, store'), UNCHANGED mem,
           Keyed(r) /\ req[r].pc \notin {"body", "refresh", "provision", "runtime"} =>
               store'.session.state = store.session.state,
           req'[r].pc \in {"refresh", "provision", "linkWrite"} => req'[r].seen = store'.session,
           req'[r].pc \notin {"body", "provision", "epilogue"} => Present(store'),
           Publishing(r)' /\ req'[r].pc # "failing" => mem.turnId # None,
           Unborn(r)' => Unborn(r) /\ req'[r].retried = req[r].retried,
           Keyed(r) /\ req'[r].pc \in {"spawn", "pid", "run", "final"} =>
               store.receipts[KeyOf[r]].turnId # None,
           req'[r].pc \in {"body", "refresh", "provision", "runtime"} =>
               req[r].pc \in {"body", "refresh", "provision", "runtime"}
    PROVE  Coherent'
<1>1. /\ TurnOk(r) /\ store'.receipts = store.receipts /\ (Keyed(r) => KeyOf[r] \in Keys)
      /\ store'.session.turn.id = store.session.turn.id
    BY InTurn DEF BodyStep, Patches, Patched
<1>2. StoreInv(store') /\ IdsKept
    BY <1>1, PatchKeeps, InvTypes DEF Coherent, IdsKept, Inv
<1>3. TurnOk(r)'
    <2>1. /\ KeysIn(store', "running") = KeysIn(store, "running")
          /\ Running(store') = Running(store)
        BY <1>1 DEF KeysIn, Running
    <2>2. Unborn(r)' /\ Undrawn(r) => Undrawn(r)'
        BY <1>1 DEF Undrawn
    <2>3. ASSUME Keyed(r), NEW k \in KeysIn(store, "running"), store.receipts[k].turnId # None
          PROVE  store.receipts[k].turnId = mem.turnId /\ store'.session.state = "running"
        BY <1>1, <2>3 DEF TurnOk
    <2> QED BY <1>1, <2>1, <2>2, <2>3 DEF TurnOk
<1> QED BY <1>2, <1>3, TurnKeeps

\* The stored session and the readings of a turn are sessions.
LEMMA TurnTypes ==
    ASSUME Inv, Coherent, NEW r \in Requests, req[r].pc \in BodySteps
    PROVE  /\ store \in StoredStates /\ store.session \in Sessions /\ req[r].seen \in Sessions
           /\ mem \in Memory /\ mem.turnId \in Requests \cup {None} /\ TypeInv
           /\ req \in [Requests -> RequestStates]
           /\ store.session.turn.id = None =>
                  store.session.turn.state = "none" /\ store.session.turn.key = None
           /\ TurnOk(r) /\ mem.keyed = (IF Keyed(r) THEN r ELSE None)
BY InvTypes, InTurn DEF Inv, Coherent, StoreInv, RecordInv

LEMMA RetriedKept ==
    ASSUME TypeInv, NEW r \in Requests, NEW pc, NEW session,
           \/ Goto(r, pc)
           \/ req' = [req EXCEPT ![r].seen = session, ![r].pc = pc]
           \/ req' = [req EXCEPT ![r].pc = pc, ![r].seen = session]
    PROVE  req'[r].pc = pc /\ req'[r].retried = req[r].retried
<1>1. req \in [Requests -> RequestStates]
    BY InvTypes
<1> QED BY <1>1 DEF Goto, RequestStates

LEMMA CoherentDispatch ==
    ASSUME Inv, Coherent, store' \in StoredStates, NEW r \in Requests,
           Begin(r) \/ RefreshProvider(r) \/ Provision(r) \/ PrepareRuntime(r)
    PROVE  Coherent'
<1>1. BodyStep(r) /\ req[r].pc \in BodySteps
    BY DispatchSteps DEF Inv, BodyStep
<1>2. /\ store \in StoredStates /\ store.session \in Sessions /\ TypeInv
      /\ req \in [Requests -> RequestStates] /\ TurnOk(r)
      /\ store.session.turn.id = None =>
             store.session.turn.state = "none" /\ store.session.turn.key = None
      /\ Patches(store, store)
      /\ \A session : Patched(store.session, session) => Patches(store, Upsert(store, session))
    BY <1>1, TurnTypes, PatchesMake, WriteKinds DEF Patches
<1>3. \A session : Upsert(store, session).session = session
    BY <1>2 DEF Upsert, StoredStates
<1>4. CASE Begin(r)
    <2>1. UNCHANGED <<store, mem>> /\ req[r].pc = "body"
        BY <1>4 DEF Begin, NoMutation
    <2>2. \/ /\ req'[r].pc \in {"provision", "runtime"} /\ req'[r].seen = store.session
             /\ req'[r].pc = "runtime" => Present(store)
          \/ req'[r].pc = "refresh" /\ req'[r].seen = store.session /\ Present(store)
          \/ req'[r].pc = "epilogue"
        BY <1>2, <1>4, BodyGoto DEF Begin, RequestStates
    <2>3. req'[r].retried = req[r].retried
        BY <1>2, <1>4 DEF Begin, Goto, RequestStates
    <2> QED BY <1>1, <2>1, <2>2, <2>3, TurnGoes DEF Unborn, Publishing
<1>5. CASE RefreshProvider(r)
    <2>1. /\ UNCHANGED mem /\ req[r].pc = "refresh" /\ req[r].seen = store.session
          /\ Present(store)
          /\ store' = store \/ store' = Upsert(store, req[r].seen)
        BY <1>2, <1>5 DEF RefreshProvider, Mutate, Written, Thrown, TurnOk
    <2>2. req'[r].pc \in {"runtime", "epilogue"} /\ req'[r].retried = req[r].retried
        BY <1>2, <1>5, RetriedKept DEF RefreshProvider, Mutate
    <2>3. Patches(store, store') /\ store'.session = store.session
        BY <1>2, <1>3, <2>1, PatchesMake
    <2> QED BY <1>1, <2>1, <2>2, <2>3, TurnPatches DEF Unborn, Publishing, Present
<1>6. CASE Provision(r)
    <2> DEFINE provisional == [req[r].seen EXCEPT !.state = "running"]
    <2>1. /\ UNCHANGED mem /\ req[r].pc = "provision" /\ req[r].seen = store.session
        BY <1>2, <1>6 DEF Provision, TurnOk
    <2>2. Patched(store.session, provisional) /\ provisional.state = "running"
        BY <1>2, <2>1, PatchesMake DEF Sessions
    <2> HIDE DEF provisional
    <2>3. \/ store' = store /\ Goto(r, "epilogue")
          \/ /\ store' = Upsert(store, provisional)
             /\ req' = [req EXCEPT ![r].pc = "runtime", ![r].seen = provisional]
        BY <1>6 DEF Provision, Mutate, Written, Thrown, NoMutation, provisional
    <2>4. CASE store' = store /\ Goto(r, "epilogue")
        BY <1>1, <1>2, <2>1, <2>4, BodyGoto, TurnGoes DEF Unborn, Publishing
    <2>5. CASE /\ store' = Upsert(store, provisional)
               /\ req' = [req EXCEPT ![r].pc = "runtime", ![r].seen = provisional]
        <3>1. req'[r].pc = "runtime" /\ req'[r].retried = req[r].retried
            BY <1>2, <2>5, RetriedKept
        <3>2. Patches(store, store') /\ Present(store')
            BY <1>2, <1>3, <2>2, <2>5 DEF Present
        <3> QED BY <1>1, <2>1, <3>1, <3>2, TurnPatches DEF Unborn, Publishing
    <2> QED BY <2>3, <2>4, <2>5
<1>7. CASE PrepareRuntime(r)
    <2>1. /\ UNCHANGED mem /\ req[r].pc = "runtime" /\ Present(store)
          /\ store' = store \/ store' = Upsert(store, SessionFailed(store.session))
        BY <1>2, <1>7 DEF PrepareRuntime, Mutate, Written, Thrown, NoMutation, TurnOk
    <2>2. \/ Goto(r, "link") /\ store' = store
          \/ Goto(r, "epilogue") \/ Goto(r, "outer")
        BY <1>7 DEF PrepareRuntime, Mutate, NoMutation
    <2>3. /\ req'[r].pc \in {"link", "outer", "epilogue"} /\ req'[r].retried = req[r].retried
          /\ ~req[r].retried
        BY <1>2, <2>1, <2>2, RetriedKept DEF TurnOk, Unborn, Undrawn
    <2>4. Patches(store, store') /\ Present(store')
        <3>1. SessionFailed(store.session).state # "absent" /\ Patched(store.session, SessionFailed(store.session))
            BY <1>2, <2>1, PatchesMake, PatchedPresent DEF Present
        <3> QED BY <1>2, <1>3, <2>1, <3>1 DEF Present
    <2> QED BY <1>1, <2>1, <2>3, <2>4, TurnPatches DEF Unborn, Publishing
<1> QED BY <1>4, <1>5, <1>6, <1>7

\* What a published turn leaves: the store's session and, for a keyed turn, the
\* link of its receipt.
Published(r) ==
    /\ store' \in StoredStates /\ Publishes(store, store')
    /\ store'.session.state = "running"
    /\ store'.session.turn.id = mem.turnId /\ store'.session.turn.state = "running"
    /\ IF Keyed(r)
       THEN /\ \A k \in Keys \ {KeyOf[r]} : store'.receipts[k] = store.receipts[k]
            /\ store'.receipts[KeyOf[r]].turnId = mem.turnId
            /\ store'.receipts[KeyOf[r]].print = store.receipts[KeyOf[r]].print
       ELSE store'.receipts = store.receipts

LEMMA LinkEffect ==
    ASSUME Inv, Coherent, store' \in StoredStates, NEW r \in Requests, LinkTurn(r)
    PROVE  /\ UNCHANGED mem /\ Present(store) /\ mem.turnId \in Requests
           /\ \/ store' = store /\ Goto(r, "failing")
              \/ Published(r) /\ Goto(r, "spawn")
<1>1. BodyStep(r) /\ req[r].pc \in BodySteps /\ req[r].pc = "linkWrite"
    BY DispatchSteps DEF Inv, BodyStep, LinkTurn
<1>2. /\ store \in StoredStates /\ store.session \in Sessions /\ TurnOk(r)
      /\ req[r].seen = store.session
      /\ mem.turnId \in Requests /\ Present(store)
      /\ mem.keyed = (IF Keyed(r) THEN r ELSE None) /\ None \notin Requests
    BY <1>1, TurnTypes, InvTypes DEF TurnOk, Publishing, Inv
<1> DEFINE session == WithRunningTurn(store.session, r, mem.turnId)
<1>3. /\ session.state = "running" /\ session.turn.id = mem.turnId
      /\ session.turn.state = "running"
    BY <1>2 DEF WithRunningTurn, Sessions
<1> HIDE DEF session
<1>4. CASE mem.keyed = None
    <2>1. \/ store' = store /\ Goto(r, "failing")
          \/ store' = Upsert(store, session) /\ Goto(r, "spawn")
        BY <1>2, <1>4 DEF LinkTurn, Mutate, Written, Thrown, session
    <2>2. ASSUME store' = Upsert(store, session) PROVE Published(r)
        <3>1. /\ store'.session = session /\ store'.receipts = store.receipts
              /\ store'.order = store.order
            BY <1>2, <2>2 DEF Upsert, StoredStates
        <3> QED BY <1>2, <1>3, <1>4, <3>1 DEF Published, Publishes
    <2> QED BY <1>2, <2>1, <2>2 DEF LinkTurn
<1>5. CASE mem.keyed = r /\ Keyed(r)
    <2>1. \/ store' = store /\ Goto(r, "failing")
          \/ store' = Link(store, KeyOf[r], session) /\ Goto(r, "spawn")
        BY <1>2, <1>5 DEF LinkTurn, Mutate, Written, Thrown, session
    <2>2. ASSUME store' = Link(store, KeyOf[r], session) PROVE Published(r)
        <3>1. KeyOf[r] \in Keys
            BY <1>1, InTurn, <1>5
        <3>2. /\ store'.session = session /\ store'.order = store.order
              /\ \A k \in Keys \ {KeyOf[r]} : store'.receipts[k] = store.receipts[k]
              /\ store'.receipts[KeyOf[r]] = [store.receipts[KeyOf[r]] EXCEPT !.turnId = mem.turnId]
            BY <1>2, <1>3, <2>2, <3>1 DEF Link, StoredStates
        <3>3. /\ store'.receipts[KeyOf[r]].turnId = mem.turnId
              /\ store'.receipts[KeyOf[r]].print = store.receipts[KeyOf[r]].print
              /\ store'.receipts[KeyOf[r]].state = store.receipts[KeyOf[r]].state
              /\ store'.receipts[KeyOf[r]].outcome = store.receipts[KeyOf[r]].outcome
            BY <1>2, <3>1, <3>2 DEF StoredStates, Receipts
        <3>4. Publishes(store, store')
            BY <1>2, <1>3, <3>2, <3>3 DEF Publishes
        <3> QED BY <1>3, <1>5, <3>2, <3>3, <3>4 DEF Published
    <2> QED BY <1>2, <2>1, <2>2 DEF LinkTurn
<1> QED BY <1>2, <1>4, <1>5

LEMMA CoherentPublish ==
    ASSUME Inv, Coherent, store' \in StoredStates, NEW r \in Requests,
           StartTurnOutput(r) \/ LinkTurn(r) \/ Spawn(r) \/ RecordPid(r)
    PROVE  Coherent'
<1>1. BodyStep(r) /\ req[r].pc \in BodySteps
    BY DispatchSteps DEF Inv, BodyStep
<1>2. /\ store \in StoredStates /\ store.session \in Sessions /\ TypeInv
      /\ req \in [Requests -> RequestStates] /\ TurnOk(r) /\ mem \in Memory
      /\ store.session.turn.id = None =>
             store.session.turn.state = "none" /\ store.session.turn.key = None
      /\ Patches(store, store)
      /\ \A session : Patched(store.session, session) => Patches(store, Upsert(store, session))
      /\ None \notin Requests /\ StoreInv(store)
      /\ Keyed(r) => KeyOf[r] \in Keys
    BY <1>1, TurnTypes, PatchesMake, WriteKinds, InTurn DEF Patches, Coherent
<1>3. CASE StartTurnOutput(r)
    <2>1. store' = store /\ req[r].pc = "link" /\ Present(store)
        BY <1>2, <1>3 DEF StartTurnOutput, NoMutation, TurnOk
    <2>2. CASE Goto(r, "failing") /\ UNCHANGED mem
        BY <1>1, <1>2, <2>1, <2>2, BodyGoto, TurnGoes DEF Unborn, Publishing
    <2>3. CASE /\ mem' = [mem EXCEPT !.turnId = IF @ = None THEN r ELSE @]
               /\ req' = [req EXCEPT ![r].pc = "linkWrite",
                                     ![r].seen = IF Present(store) THEN store.session ELSE @]
        <3>1. /\ req'[r].pc = "linkWrite" /\ req'[r].seen = store.session
              /\ mem'.keyed = mem.keyed /\ mem'.turnId # None
              /\ mem'.turnId = IF mem.turnId = None THEN r ELSE mem.turnId
            BY <1>2, <2>1, <2>3 DEF RequestStates, Memory
        <3>2. TurnOk(r)'
            <4>1. /\ KeysIn(store', "running") = KeysIn(store, "running")
                  /\ Running(store') = Running(store) /\ Present(store')
                BY <2>1
            <4>2. ~Unborn(r)'
                BY <3>1 DEF Unborn
            <4> QED BY <1>2, <2>1, <3>1, <4>1, <4>2 DEF TurnOk
        <3>3. IdsKept
            BY <2>1 DEF IdsKept
        <3>4. StoreInv(store')
            BY <1>2, <2>1
        <3> QED BY <1>1, <2>1, <3>1, <3>2, <3>3, <3>4, TurnKeeps
    <2> QED BY <1>3, <2>2, <2>3 DEF StartTurnOutput
<1>4. CASE LinkTurn(r)
    <2>1. /\ UNCHANGED mem /\ Present(store) /\ mem.turnId \in Requests /\ req[r].pc = "linkWrite"
          /\ \/ store' = store /\ Goto(r, "failing")
             \/ Published(r) /\ Goto(r, "spawn")
        BY <1>4, LinkEffect DEF LinkTurn
    <2>2. CASE store' = store /\ Goto(r, "failing")
        BY <1>1, <1>2, <2>1, <2>2, BodyGoto, TurnGoes DEF Unborn, Publishing
    <2>3. CASE Published(r) /\ Goto(r, "spawn")
        <3>1. req'[r].pc = "spawn" /\ Present(store') /\ mem'.turnId # None
            BY <1>2, <2>1, <2>3, BodyGoto DEF Published, Present
        <3>2. StoreInv(store')
            BY <1>2, <2>3, PublishKeeps DEF Published
        <3>3. \A k \in Keys : store'.receipts[k].state = store.receipts[k].state
            BY <2>3 DEF Published, Publishes
        <3>4. KeysIn(store', "running") = KeysIn(store, "running")
            BY <3>3 DEF KeysIn
        <3>5. TurnOk(r)'
            <4>1. ~Unborn(r)'
                BY <3>1 DEF Unborn
            <4>2. Running(store') = Running(store)
                BY <3>4 DEF Running
            <4>3. ASSUME Keyed(r), NEW k \in KeysIn(store', "running")
                  PROVE  /\ k = KeyOf[r] /\ store'.receipts[k].print = PrintOf[r]
                         /\ store'.receipts[k].turnId = mem'.turnId
                         /\ store'.session.state = "running"
                BY <1>2, <2>1, <2>3, <3>4, <4>3 DEF TurnOk, Published
            <4>4. Keyed(r) => store'.receipts[KeyOf[r]].turnId # None
                BY <2>1, <2>3, <3>1 DEF Published
            <4> QED BY <1>2, <3>1, <4>1, <4>2, <4>3, <4>4 DEF TurnOk
        <3>6. IdsKept
            BY <1>2, <2>3 DEF IdsKept, Published
        <3> QED BY <1>1, <2>1, <3>2, <3>5, <3>6, TurnKeeps
    <2> QED BY <2>1, <2>2, <2>3
<1>5. CASE Spawn(r)
    <2>1. /\ store' = store /\ req[r].pc = "spawn" /\ Present(store)
          /\ mem'.keyed = mem.keyed /\ mem'.turnId = mem.turnId
          /\ req'[r].pc \in {"failing", "pid"}
        BY <1>2, <1>5, BodyGoto DEF Spawn, NoMutation, TurnOk, Memory
    <2> QED BY <1>1, <1>2, <2>1, TurnGoes DEF Unborn, Publishing, TurnOk
<1>6. CASE RecordPid(r)
    <2> DEFINE session == [store.session EXCEPT !.turn.pid = r]
    <2>1. session.state = store.session.state /\ Patched(store.session, session)
        BY <1>2, PatchesMake DEF Sessions
    <2> HIDE DEF session
    <2>2. /\ req[r].pc = "pid" /\ UNCHANGED mem /\ Present(store)
          /\ store' = store \/ store' = Upsert(store, session)
          /\ req'[r].pc \in {"run", "failing"}
        BY <1>2, <1>6, BodyGoto DEF RecordPid, Mutate, Written, Thrown, TurnOk, session
    <2>3. Upsert(store, session).session = session
        BY <1>2 DEF Upsert, StoredStates
    <2>4. Patches(store, store') /\ store'.session.state = store.session.state
        BY <1>2, <2>1, <2>2, <2>3
    <2> QED BY <1>1, <1>2, <2>2, <2>4, TurnPatches DEF Unborn, Publishing, TurnOk, Present
<1> QED BY <1>3, <1>4, <1>5, <1>6

\* The record of a turn's end: its session's, and the verdict of its receipt.
LEMMA FinalEffect ==
    ASSUME Inv, Coherent, NEW r \in Requests, req[r].pc \in BodySteps \ {"body", "provision", "epilogue"},
           NEW kind \in {"success", "error"}, NEW result \in {"idle", "failed"}, NEW next,
           PersistFinal(r, kind, result, next)
    PROVE  \/ store' = store /\ UNCHANGED mem /\ Goto(r, AfterThrow(r))
           \/ /\ mem' = TurnRecorded /\ Goto(r, next)
              /\ store'.session = FinalSession(store.session, result)
              /\ IF Keyed(r)
                 THEN /\ KeyOf[r] \in KeysIn(store, "running")
                      /\ store' = Settled(store, KeyOf[r], kind, store'.session)
                      /\ Settles(store, store')
                 ELSE store' = Upsert(store, store'.session) /\ Patches(store, store')
<1>1. /\ store \in StoredStates /\ store.session \in Sessions
      /\ mem.keyed = (IF Keyed(r) THEN r ELSE None) /\ None \notin Requests
      /\ Keyed(r) => KeyOf[r] \in Keys
      /\ store.session.turn.id = None =>
             store.session.turn.state = "none" /\ store.session.turn.key = None
    BY TurnTypes, InTurn
<1> DEFINE session == FinalSession(store.session, result)
<1>2. Patched(store.session, session)
    BY <1>1, PatchesMake
<1> HIDE DEF session
<1>3. CASE ~Keyed(r)
    <2>1. \/ store' = store /\ UNCHANGED mem /\ Goto(r, AfterThrow(r))
          \/ store' = Upsert(store, session) /\ mem' = TurnRecorded /\ Goto(r, next)
        BY <1>1, <1>3 DEF PersistFinal, Mutate, Written, Thrown, session
    <2>2. Upsert(store, session).session = session
        BY <1>1 DEF Upsert, StoredStates
    <2> QED BY <1>1, <1>2, <1>3, <2>1, <2>2, WriteKinds DEF session
<1>4. CASE Keyed(r)
    <2>1. \/ store' = store /\ UNCHANGED mem /\ Goto(r, AfterThrow(r))
          \/ /\ CanSettle(store, KeyOf[r], PrintOf[r])
             /\ store' = Settled(store, KeyOf[r], kind, session) /\ mem' = TurnRecorded /\ Goto(r, next)
        BY <1>1, <1>4 DEF PersistFinal, Mutate, Written, Thrown, session
    <2>2. CASE /\ CanSettle(store, KeyOf[r], PrintOf[r])
               /\ store' = Settled(store, KeyOf[r], kind, session) /\ mem' = TurnRecorded /\ Goto(r, next)
        <3>1. KeyOf[r] \in KeysIn(store, "running")
            BY <1>1, <1>4, <2>2 DEF CanSettle, HoldsRunning, KeysIn
        <3>2. store'.session = session
            BY <1>1, <2>2 DEF Settled, StoredStates
        <3>3. Settles(store, store')
            BY <1>1, <1>2, <2>2, <3>1, WriteKinds
        <3> QED BY <1>4, <2>2, <3>1, <3>2, <3>3 DEF session
    <2> QED BY <2>1, <2>2
<1> QED BY <1>3, <1>4

LEMMA CoherentFinal ==
    ASSUME Inv, Coherent, Valid(store), store' \in StoredStates, NEW r \in Requests,
           Finalize(r) \/ RecordThrow(r)
    PROVE  Coherent'
<1>1. BodyStep(r) /\ req[r].pc \in {"final", "failing"} /\ req[r].pc \in BodySteps
    BY FinishSteps DEF Inv, BodyStep, Finalize, RecordThrow
<1>2. /\ store \in StoredStates /\ TypeInv /\ mem \in Memory /\ TurnOk(r) /\ StoreInv(store)
      /\ Present(store) /\ None \notin Requests /\ req[r].result \in {"idle", "failed"}
    BY <1>1, TurnTypes, InTurn DEF TurnOk, Coherent, RequestStates
<1>3. PICK kind \in {"success", "error"}, result \in {"idle", "failed"},
           next \in {"outer", "epilogue"} : PersistFinal(r, kind, result, next)
    BY <1>2 DEF Finalize, RecordThrow, AfterThrow
<1>4. AfterThrow(r) \in {"outer", "epilogue"}
    BY DEF AfterThrow
<1>5. CASE store' = store /\ UNCHANGED mem /\ Goto(r, AfterThrow(r))
    BY <1>1, <1>2, <1>4, <1>5, BodyGoto, TurnGoes DEF Unborn, Publishing
<1>6. CASE /\ mem' = TurnRecorded /\ Goto(r, next)
           /\ IF Keyed(r) THEN KeyOf[r] \in KeysIn(store, "running") /\ Settles(store, store')
              ELSE Patches(store, store')
    <2>1. /\ mem'.keyed = mem.keyed /\ mem'.turnId = None
          /\ req'[r].pc \in {"outer", "epilogue"}
        BY <1>2, <1>6, BodyGoto DEF TurnRecorded, Memory
    <2>2. Present(store')
        BY <1>2, <1>6 DEF Patches, Settles, Patched, Present
    <2>3. ~Running(store') /\ StoreInv(store') /\ IdsKept
        <3>1. CASE Keyed(r)
            <4>1. \A j, k \in KeysIn(store, "running") : j = k
                BY DEF Valid
            <4>2. PICK k \in KeysIn(store, "running") :
                     /\ store'.receipts[k].state = "settled"
                     /\ store'.receipts[k].turnId = store.receipts[k].turnId
                     /\ \A j \in Keys \ {k} : store'.receipts[j] = store.receipts[j]
                BY <1>6, <3>1 DEF Settles
            <4>3. ~Running(store')
                BY <4>1, <4>2 DEF Running, KeysIn
            <4>4. StoreInv(store')
                BY <1>2, <1>6, <3>1, <4>1, SettleKeeps
            <4>5. IdsKept
                BY <1>6, <3>1, <4>2 DEF IdsKept, Settles, Patched
            <4> QED BY <4>3, <4>4, <4>5
        <3>2. CASE ~Keyed(r)
            <4>1. StoreInv(store') /\ store'.receipts = store.receipts
                BY <1>2, <1>6, <3>2, PatchKeeps DEF Patches
            <4>2. ~Running(store')
                BY <1>2, <3>2, <4>1 DEF TurnOk, Running, KeysIn
            <4> QED BY <1>6, <3>2, <4>1, <4>2 DEF IdsKept, Patches, Patched
        <3> QED BY <3>1, <3>2
    <2>4. TurnOk(r)'
        <3>1. KeysIn(store', "running") = {}
            BY <2>3 DEF Running
        <3> QED BY <2>1, <2>2, <2>3, <3>1 DEF TurnOk, Unborn, Publishing
    <2> QED BY <1>1, <2>1, <2>3, <2>4, TurnKeeps
<1> QED BY <1>1, <1>3, <1>5, <1>6, FinalEffect

LEMMA CoherentThrow ==
    ASSUME Inv, Coherent, store' \in StoredStates, NEW r \in Requests,
           ReadExit(r) \/ HandleStartThrow(r)
    PROVE  Coherent'
<1>1. BodyStep(r) /\ req[r].pc \in BodySteps
    BY FinishSteps DEF Inv, BodyStep
<1>2. /\ store \in StoredStates /\ store.session \in Sessions /\ TypeInv
      /\ req \in [Requests -> RequestStates] /\ TurnOk(r) /\ mem \in Memory
      /\ store.session.turn.id = None =>
             store.session.turn.state = "none" /\ store.session.turn.key = None
      /\ Patches(store, store) /\ mem.keyed = (IF Keyed(r) THEN r ELSE None) /\ None \notin Requests
    BY <1>1, TurnTypes, PatchesMake, InTurn DEF Patches
<1>3. CASE ReadExit(r)
    <2>1. /\ UNCHANGED <<store, mem>> /\ req[r].pc = "run" /\ Present(store) /\ mem.turnId # None
        BY <1>2, <1>3 DEF ReadExit, NoMutation, TurnOk, Publishing
    <2>2. \/ req'[r].pc \in {"final", "failing"}
          \/ req'[r].pc = "link" /\ req'[r].retried
        BY <1>2, <1>3, BodyGoto DEF ReadExit, RequestStates
    <2> QED BY <1>1, <1>2, <2>1, <2>2, TurnGoes DEF Unborn, Publishing, TurnOk
<1>4. CASE HandleStartThrow(r)
    <2> DEFINE session == [store.session EXCEPT !.state = "failed"]
    <2>1. Patched(store.session, session) /\ session.state = "failed"
        BY <1>2, PatchesMake DEF Sessions
    <2> HIDE DEF session
    <2>2. /\ UNCHANGED mem /\ req[r].pc = "outer" /\ Present(store)
          /\ req'[r].pc = "epilogue"
        BY <1>2, <1>4, BodyGoto DEF HandleStartThrow, TurnOk, Mutate
    <2>3. store' = store \/ (~Keyed(r) /\ store' = Upsert(store, session))
        BY <1>2, <1>4, <2>2 DEF HandleStartThrow, NoMutation, Mutate, Written, Thrown, session
    <2>4. Patches(store, store')
        BY <1>2, <2>1, <2>3, WriteKinds
    <2>5. Keyed(r) => store'.session.state = store.session.state
        BY <2>3
    <2> QED BY <1>1, <2>2, <2>4, <2>5, TurnPatches DEF Unborn, Publishing
<1> QED BY <1>3, <1>4

\* What is left to show of a step that leaves the records to the turn that is in.
LEMMA OthersKeep ==
    ASSUME Coherent, store'.session = store.session, store'.receipts = store.receipts,
           store'.order = store.order,
           mem'.keyed = mem.keyed, mem'.active = mem.active, mem'.turnId = mem.turnId,
           mem.keyed \in Requests \cup {None},
           \A q \in Requests :
               \/ req'[q] = req[q]
               \/ /\ req[q].pc \notin BodySteps /\ req'[q].pc \notin BodySteps
                  /\ req'[q].pc \in AdmissionSteps => ~Running(store)
                  /\ Unborn(q)' => Unborn(q) /\ req'[q].retried = req[q].retried,
           op'.pc = "unfence" => ~Present(store)
    PROVE  Coherent'
<1>1. /\ \A state : KeysIn(store', state) = KeysIn(store, state)
      /\ Running(store') = Running(store) /\ Present(store') = Present(store)
    BY DEF KeysIn, Running, Present
<1>2. StoreInv(store')
    BY <1>1 DEF Coherent, StoreInv, OrderInv, RecordInv
<1>3. ASSUME NEW q \in Requests, Unborn(q)' PROVE Undrawn(q)'
    <2>1. Unborn(q) /\ req'[q].retried = req[q].retried
        BY <1>3 DEF Unborn
    <2>2. Undrawn(q)
        BY <2>1 DEF Coherent
    <2> QED BY <2>1, <2>2 DEF Undrawn
<1>4. ASSUME NEW q \in Requests, req'[q].pc \in BodySteps PROVE TurnOk(q)' /\ (Keyed(q) => mem'.keyed = q)
    <2>1. req'[q] = req[q] /\ TurnOk(q) /\ (Keyed(q) => mem.keyed = q)
        BY <1>4 DEF Coherent
    <2>2. Undrawn(q) => Undrawn(q)'
        BY <2>1 DEF Undrawn
    <2> QED BY <1>1, <2>1, <2>2 DEF TurnOk, Unborn, Publishing
<1>5. \A q \in Requests : req'[q].pc \in AdmissionSteps => ~Running(store')
    BY <1>1 DEF Coherent
<1>6. mem'.keyed # None => mem'.active = mem'.keyed /\ req'[mem'.keyed].pc \in BodySteps
    BY DEF Coherent
<1> QED BY <1>1, <1>2, <1>3, <1>4, <1>5, <1>6 DEF Coherent

\* And of a step after which no turn is in.
LEMMA RestKeeps ==
    ASSUME Inv, Coherent, StoreInv(store'), IdsKept, mem'.keyed = None,
           mem'.turnId \in {mem.turnId, None},
           \A q \in Requests :
               /\ req'[q].pc \notin BodySteps
               /\ req'[q].pc \in AdmissionSteps => ~Running(store')
               /\ Unborn(q)' => Unborn(q) /\ req'[q].retried = req[q].retried,
           op'.pc = "unfence" => ~Present(store')
    PROVE  Coherent'
<1>1. None \notin Requests
    BY InvTypes DEF Inv
<1>2. ASSUME NEW q \in Requests, Unborn(q)' PROVE Undrawn(q)'
    <2>1. Undrawn(q) /\ req'[q].retried = req[q].retried
        BY <1>2 DEF Coherent
    <2> QED BY <1>1, <2>1 DEF Undrawn, IdsKept
<1> QED BY <1>2 DEF Coherent

\* Leaving the admission, or moving on in it.
LEMMA AdmitMoves ==
    ASSUME TypeInv, NEW r \in Requests, NEW pc, NEW answer, Goto(r, pc) \/ Answer(r, answer)
    PROVE  /\ \A q \in Requests \ {r} : req'[q] = req[q]
           /\ req'[r].pc \in {pc, "done"} /\ req'[r].retried = req[r].retried
           /\ Answer(r, answer) => req'[r].pc = "done"
           /\ Goto(r, pc) => req'[r].pc = pc
<1>1. req \in [Requests -> RequestStates] /\ req[r] \in RequestStates
    BY InvTypes
<1>2. CASE Goto(r, pc)
    BY <1>1, <1>2 DEF Goto, Answer, RequestStates
<1>3. CASE Answer(r, answer)
    BY <1>1, <1>3 DEF Goto, Answer, RequestStates
<1> QED BY <1>2, <1>3

LEMMA CoherentCalls ==
    ASSUME Inv, Coherent, NEW r \in Requests,
           Admission(r) \/ Wake(r) \/ Exit(r) \/ \E e \in 0..MaxEpoch : Call(r, e)
    PROVE  Coherent'
<1>1. /\ store' = store /\ op' = op /\ mem \in Memory /\ req \in [Requests -> RequestStates] /\ TypeInv
      /\ mem'.keyed = mem.keyed /\ mem'.active = mem.active /\ mem'.turnId = mem.turnId
      /\ mem.keyed \in Requests \cup {None}
    BY InvTypes DEF Inv, Memory, Admission, AdmitAnswered, Admit, Lock, Wake, Exit, Call, NoMutation
<1>2. CASE Exit(r)
    <2>1. req' = req
        BY <1>2 DEF Exit
    <2> QED BY <1>1, <2>1, OthersKeep DEF Coherent
<1>3. CASE Admission(r) \/ Wake(r) \/ \E e \in 0..MaxEpoch : Call(r, e)
    <2>1. /\ \A q \in Requests \ {r} : req'[q] = req[q]
          /\ req[r].pc \in {"new", "queued", "waiting"}
          /\ req'[r].pc \in {"queued", "waiting", "done"}
             \/ (req'[r].pc \in {"fence", "enter"} /\ ~Running(store))
          /\ req'[r].retried = req[r].retried
        <3>1. ASSUME NEW e \in 0..MaxEpoch, Call(r, e)
              PROVE  /\ \A q \in Requests \ {r} : req'[q] = req[q]
                     /\ req[r].pc = "new" /\ req'[r].pc = "queued"
                     /\ req'[r].retried = req[r].retried
            <4>1. req[r] \in RequestStates
                BY <1>1
            <4>2. /\ req[r].pc = "new"
                  /\ req' = [req EXCEPT ![r] = [@ EXCEPT !.pc = "queued", !.epoch = e,
                                                         !.generation = store.generation]]
                BY <3>1 DEF Call
            <4> QED BY <1>1, <4>1, <4>2 DEF RequestStates
        <3>2. CASE Admit(r)
            <4>1. /\ req[r].pc = "queued" /\ ~Running(store)
                  /\ Goto(r, "fence") \/ Goto(r, "enter")
                BY <3>2 DEF Admit
            <4> QED BY <1>1, <4>1, AdmitMoves
        <3>3. CASE AdmitAnswered(r) \/ Wake(r)
            <4>1. /\ req[r].pc \in {"queued", "waiting"}
                  /\ \/ \E answer : Answer(r, answer)
                     \/ \E other : req' = [req EXCEPT ![r].pc = "waiting", ![r].inFlight = other]
                BY <3>3 DEF AdmitAnswered, Wake
            <4>2. CASE \E answer : Answer(r, answer)
                BY <1>1, <4>1, <4>2, AdmitMoves
            <4>3. ASSUME NEW other, req' = [req EXCEPT ![r].pc = "waiting", ![r].inFlight = other]
                  PROVE  /\ \A q \in Requests \ {r} : req'[q] = req[q]
                         /\ req'[r].pc = "waiting" /\ req'[r].retried = req[r].retried
                BY <1>1, <4>3 DEF RequestStates
            <4> QED BY <4>1, <4>2, <4>3
        <3> QED BY <1>3, <3>1, <3>2, <3>3 DEF Admission
    <2> QED BY <1>1, <2>1, OthersKeep, PcNames DEF Coherent, Unborn
<1> QED BY <1>2, <1>3

LEMMA CoherentEnters ==
    ASSUME Inv, Coherent, store' \in StoredStates, NEW r \in Requests,
           ReleaseRecoveryFence(r) \/ EnterTurn(r)
    PROVE  Coherent'
<1>1. /\ store \in StoredStates /\ store.session \in Sessions /\ StoreInv(store)
      /\ mem \in Memory /\ req \in [Requests -> RequestStates] /\ TypeInv
      /\ mem.active = None /\ mem.keyed = None /\ None \notin Requests
      /\ req[r].pc \in {"fence", "enter"} /\ ~Running(store) /\ op' = op
      /\ \A q \in Requests : req[q].pc \notin BodySteps
    <2>1. /\ store \in StoredStates /\ store.session \in Sessions /\ StoreInv(store)
          /\ mem \in Memory /\ req \in [Requests -> RequestStates] /\ TypeInv
          /\ None \notin Requests /\ mem.keyed \in Requests \cup {None}
        BY InvTypes DEF Inv, Coherent
    <2>2. req[r].pc \in {"fence", "enter"} /\ op' = op
        BY DEF ReleaseRecoveryFence, EnterTurn
    <2>3. mem.active = None /\ ~Running(store)
        BY <2>2, PcNames DEF Inv, LockInv, Coherent
    <2> QED BY <2>1, <2>2, <2>3, PcNames DEF Inv, LockInv, Coherent
<1>2. /\ store.session.turn.id = None =>
             store.session.turn.state = "none" /\ store.session.turn.key = None
      /\ op.pc # "unfence"
    BY <1>1, PcNames DEF StoreInv, RecordInv, Inv, LockInv
<1>3. CASE ReleaseRecoveryFence(r)
    <2>1. store' = store \/ store' = Upsert(store, FenceReleased(store.session))
        BY <1>3 DEF ReleaseRecoveryFence, Mutate, Written, Thrown
    <2>2. Patches(store, store')
        <3>1. /\ Patched(store.session, store.session)
              /\ Patched(store.session, FenceReleased(store.session))
            BY <1>1, <1>2, PatchesMake
        <3> QED BY <1>1, <2>1, <3>1, WriteKinds DEF Patches
    <2>3. StoreInv(store') /\ IdsKept /\ ~Running(store')
        BY <1>1, <2>2, PatchKeeps DEF IdsKept, Patches, Patched, Running, KeysIn
    <2>4. /\ \A q \in Requests \ {r} : req'[q] = req[q]
          /\ req'[r].pc \in {"enter", "done"} /\ req'[r].retried = req[r].retried
          /\ mem'.keyed = None /\ mem'.turnId = mem.turnId
        <3>1. /\ Goto(r, "enter") \/ Answer(r, "refused")
              /\ mem' = mem \/ mem' = Unlocked
            BY <1>3 DEF ReleaseRecoveryFence, Mutate
        <3> QED BY <1>1, <3>1, AdmitMoves DEF Unlocked, Memory
    <2> QED BY <1>1, <1>2, <2>3, <2>4, RestKeeps, PcNames DEF Unborn
<1>4. CASE EnterTurn(r)
    <2>1. store' = store \/ store' = Enter(store)
        BY <1>4 DEF EnterTurn, Mutate, Written, Thrown
    <2>2. /\ store'.session = store.session /\ store'.receipts = store.receipts
          /\ store'.order = store.order
        BY <1>1, <2>1 DEF Enter, StoredStates
    <2>3. /\ \A state : KeysIn(store', state) = KeysIn(store, state)
          /\ ~Running(store')
        BY <1>1, <2>2 DEF KeysIn, Running
    <2>4. StoreInv(store') /\ IdsKept
        BY <1>1, <2>2, <2>3 DEF StoreInv, OrderInv, RecordInv, Present, IdsKept
    <2>5. /\ \A q \in Requests \ {r} : req'[q] = req[q]
          /\ req'[r].pc \in {"claim", "body", "done"} /\ req'[r].retried = req[r].retried
          /\ req'[r].pc = "body" => ~Keyed(r)
          /\ mem'.keyed = None /\ mem'.turnId = mem.turnId
        <3>1. /\ \/ Goto(r, "claim") \/ Answer(r, "refused")
                 \/ Goto(r, "body") /\ ~Keyed(r)
              /\ mem'.keyed = mem.keyed /\ mem'.turnId = mem.turnId
            BY <1>1, <1>4 DEF EnterTurn, Mutate, Unlocked, Memory
        <3> QED BY <1>1, <3>1, AdmitMoves
    <2>6. CASE req'[r].pc # "body"
        BY <1>1, <1>2, <2>3, <2>4, <2>5, <2>6, RestKeeps, PcNames DEF Unborn
    <2>7. CASE req'[r].pc = "body"
        <3>1. ASSUME NEW q \in Requests, Unborn(q)' PROVE Undrawn(q)'
            <4>1. Unborn(q) /\ req'[q].retried = req[q].retried
                <5>1. CASE q = r
                    BY <1>1, <2>5, <5>1 DEF Unborn
                <5>2. CASE q # r
                    BY <2>5, <3>1, <5>2 DEF Unborn
                <5> QED BY <5>1, <5>2
            <4> QED BY <2>2, <2>5, <4>1 DEF Coherent, Undrawn
        <3>2. TurnOk(r)'
            BY <2>3, <2>5, <2>7, <3>1 DEF TurnOk, Publishing
        <3> QED BY <1>1, <1>2, <2>3, <2>4, <2>5, <2>7, <3>1, <3>2, PcNames DEF Coherent
    <2> QED BY <2>6, <2>7
<1> QED BY <1>3, <1>4

LEMMA CoherentClaims ==
    ASSUME Inv, Coherent, Valid(store), store' \in StoredStates, NEW r \in Requests, ClaimKey(r)
    PROVE  Coherent'
<1>1. /\ store \in StoredStates /\ StoreInv(store) /\ mem \in Memory /\ TypeInv
      /\ req[r].pc = "claim" /\ op' = op /\ Keyed(r) /\ KeyOf[r] \in Keys /\ PrintOf[r] \in Prints
    BY InvTypes, KeyOfType DEF Inv, TypeInv, KeysHeld, Coherent, ClaimKey
<1>2. /\ mem.active = r /\ op.pc # "unfence" /\ None \notin Requests
      /\ \A q \in Requests : req[q].pc \notin BodySteps
      /\ \A q \in Requests \ {r} : req[q].pc \notin AdmissionSteps
    <2>1. mem.active = r /\ None \notin Requests /\ req[r].pc \in AdmissionSteps
        BY <1>1, InvTypes, PcNames DEF Inv, LockInv
    <2> QED BY <1>1, <2>1, PcNames DEF Inv, LockInv
<1>3. CASE /\ Thrown(CanClaim(store, KeyOf[r]), Claim(store, KeyOf[r], PrintOf[r]))
           /\ mem' = [Unlocked EXCEPT !.active = None] /\ Answer(r, "refused")
    <2>1. /\ store' = store /\ mem'.keyed = None /\ mem'.turnId = mem.turnId
        <3>1. mem.keyed = None
            BY <1>2, InvTypes DEF Coherent, Inv
        <3> QED BY <1>1, <1>3, <3>1 DEF Thrown, Unlocked, Memory
    <2>2. /\ \A q \in Requests \ {r} : req'[q] = req[q]
          /\ req'[r].pc = "done"
        BY <1>1, <1>3, AdmitMoves
    <2> QED BY <1>1, <1>2, <2>1, <2>2, RestKeeps, PcNames DEF IdsKept, Unborn
<1>4. CASE /\ Written(CanClaim(store, KeyOf[r]), Claim(store, KeyOf[r], PrintOf[r]))
           /\ mem' = [Unlocked EXCEPT !.keyed = r] /\ Goto(r, "body")
    <2> DEFINE k == KeyOf[r]
    <2>1. /\ CanClaim(store, k) /\ store' = Claim(store, k, PrintOf[r])
          /\ mem'.keyed = r /\ mem'.active = r /\ mem'.turnId = mem.turnId
        BY <1>1, <1>2, <1>4 DEF Written, Unlocked, Memory
    <2>2. Claiming(store, store', k, PrintOf[r]) /\ KeysIn(store', "running") = {k}
        BY <1>1, <2>1, ClaimEffect DEF StoreInv
    <2>3. StoreInv(store')
        BY <1>1, <2>1, ClaimKeeps
    <2>4. /\ store'.receipts[k].turnId = None /\ store'.receipts[k].print = PrintOf[r]
          /\ store'.session = store.session
        <3>1. store'.receipts[k] = [state |-> "running", print |-> PrintOf[r], turnId |-> None,
                                    outcome |-> NoOutcome]
            BY <2>2 DEF Claiming, FreeReceipt
        <3>2. store'.session = store.session
            BY <2>2 DEF Claiming
        <3> HIDE DEF k
        <3> QED BY <3>1, <3>2
    <2>5. ASSUME NEW j \in Keys PROVE store'.receipts[j].turnId \in {store.receipts[j].turnId, None}
        <3>1. store.receipts[j] \in Receipts
            BY <1>1 DEF StoredStates
        <3>2. j # k => \/ store'.receipts[j] = store.receipts[j]
                       \/ store'.receipts[j] = [store.receipts[j] EXCEPT !.state = "tombstone",
                                                                        !.outcome = NoOutcome]
            BY <2>2 DEF Claiming
        <3> QED BY <2>4, <3>1, <3>2 DEF Receipts
    <2>6. /\ \A q \in Requests \ {r} : req'[q] = req[q]
          /\ req'[r].pc = "body" /\ req'[r].retried = req[r].retried
        BY <1>1, <1>4, AdmitMoves
    <2>7. ASSUME NEW q \in Requests, Unborn(q)' PROVE Undrawn(q)'
        <3>1. Unborn(q) /\ req'[q].retried = req[q].retried
            <4>1. CASE q = r
                BY <1>1, <2>6, <4>1 DEF Unborn
            <4>2. CASE q # r
                BY <2>6, <2>7, <4>2 DEF Unborn
            <4> QED BY <4>1, <4>2
        <3>2. Undrawn(q)
            BY <3>1 DEF Coherent
        <3> QED BY <1>2, <2>1, <2>4, <2>5, <3>1, <3>2 DEF Undrawn
    <2>8. TurnOk(r)'
        BY <1>1, <2>2, <2>4, <2>6, <2>7 DEF TurnOk, Publishing
    <2>9. req'[r].pc \in BodySteps /\ \A q \in Requests : req'[q].pc \notin AdmissionSteps
        BY <1>2, <2>6, PcNames
    <2> QED BY <1>1, <1>2, <2>1, <2>3, <2>6, <2>7, <2>8, <2>9 DEF Coherent
<1> QED BY <1>3, <1>4 DEF ClaimKey, Mutate

LEMMA CoherentRelease ==
    ASSUME Inv, Coherent, Valid(store), store' \in StoredStates, NEW r \in Requests, ReleaseTurn(r)
    PROVE  Coherent'
<1>1. req[r].pc \in BodySteps /\ req[r].pc = "epilogue" /\ op' = op
    BY PcNames DEF ReleaseTurn
<1>2. /\ store \in StoredStates /\ store.session \in Sessions /\ TypeInv /\ mem \in Memory
      /\ StoreInv(store) /\ None \notin Requests /\ op.pc # "unfence"
      /\ (Keyed(r) => KeyOf[r] \in Keys)
      /\ \A q \in Requests \ {r} : req[q].pc \notin AdmissionSteps \cup BodySteps
      /\ store.session.turn.id = None =>
             store.session.turn.state = "none" /\ store.session.turn.key = None
    BY <1>1, TurnTypes, InTurn DEF Coherent
<1>3. /\ \A q \in Requests \ {r} : req'[q] = req[q]
      /\ req'[r].pc = "done"
      /\ mem'.keyed = None /\ mem'.turnId = mem.turnId
    <2>1. \E answer : Answer(r, answer)
        BY DEF ReleaseTurn, Mutate
    <2> QED BY <1>2, <2>1, AdmitMoves DEF ReleaseTurn, Memory
<1>4. StoreInv(store') /\ IdsKept
    <2> DEFINE session == SettledByThrow(store.session, r)
    <2>1. \/ store' = store
          \/ /\ Keyed(r) /\ CanSettleBehindFence(store, KeyOf[r], PrintOf[r])
             /\ store' = Settled(store, KeyOf[r], "error", session)
        BY DEF ReleaseTurn, Mutate, Written, Thrown, NoMutation, ReceiptState
    <2>2. Patched(store.session, session)
        BY <1>2, PatchesMake
    <2> HIDE DEF session
    <2>3. CASE /\ Keyed(r) /\ CanSettleBehindFence(store, KeyOf[r], PrintOf[r])
               /\ store' = Settled(store, KeyOf[r], "error", session)
        <3>1. KeyOf[r] \in KeysIn(store, "running")
            BY <1>2, <2>3 DEF CanSettleBehindFence, HoldsRunning, KeysIn
        <3>2. Settles(store, store')
            BY <1>2, <2>2, <2>3, <3>1, WriteKinds
        <3>3. StoreInv(store')
            BY <1>2, <3>2, SettleKeeps DEF Valid
        <3>4. IdsKept
            BY <3>2 DEF Settles, Patched, IdsKept
        <3> QED BY <3>3, <3>4
    <2> QED BY <1>2, <2>1, <2>3 DEF IdsKept
<1>5. ASSUME NEW q \in Requests, Unborn(q)' PROVE Unborn(q) /\ req'[q].retried = req[q].retried
    BY <1>3, <1>5 DEF Unborn
<1>6. \A q \in Requests : req'[q].pc \notin AdmissionSteps \cup BodySteps
    BY <1>2, <1>3, PcNames
<1> QED BY <1>1, <1>2, <1>3, <1>4, <1>5, <1>6, RestKeeps

-----------------------------------------------------------------------------
(* Which verbs are at work, and what each of them does to the records.        *)

\* Where a verb is after its step, and who called a verb that begins.
LEMMA OpMoves ==
    ASSUME op \in Operations, OpBegin \/ OpStep
    PROVE  \/ op' = op
           \/ op' = NoOp
           \/ /\ op'.verb = op.verb
              /\ op'.pc = "unfence" => PurgeRemove /\ store' = Remove(store)
           \/ /\ op'.pc # "unfence"
              /\ \/ StopBegin /\ op'.verb = "stop"
                 \/ QuiesceBegin /\ op'.verb = "quiesce"
                 \/ \E verb \in {"purge", "gc"} : PurgeBegin(verb) /\ op'.verb = verb
                 \/ FocusRead /\ op'.verb = "focus"
<1>1. ASSUME NEW pc, OpGoto(pc) PROVE op'.verb = op.verb /\ op'.pc = pc
    BY <1>1 DEF OpGoto, Operations
<1>2. CASE StopBegin
    BY <1>2 DEF StopBegin, NoOp
<1>3. CASE QuiesceBegin
    BY <1>3 DEF QuiesceBegin, BeginClosing, NoOp, Mutate
<1>4. ASSUME NEW verb \in {"purge", "gc"}, PurgeBegin(verb)
      PROVE  op' = op \/ (op'.pc # "unfence" /\ op'.verb = verb)
    BY <1>4 DEF PurgeBegin, BeginClosing, NoOp, Mutate
<1>5. CASE FocusRead
    BY <1>5 DEF FocusRead, NoOp
<1>6. CASE \/ (\E verb \in {"purge", "gc"} : PurgeAgain(verb) \/ PurgeUnknown(verb))
           \/ GcList \/ GcVisit \/ (\E e \in 1..MaxEpoch : ReleaseFence(e))
           \/ Resume \/ Suspend \/ OtherNameQuiesces
    BY <1>6 DEF PurgeAgain, PurgeUnknown, GcList, GcVisit, ReleaseFence, Resume, Suspend,
       OtherNameQuiesces
<1>7. CASE StopResolveFence \/ DrainTimesOut \/ StopWrite \/ ProveClosed \/ RecordClosed
           \/ PurgeUnfence \/ FocusWrite
    <2>1. op' = NoOp \/ OpGoto("drain") \/ OpGoto("stopWrite") \/ OpGoto("record") \/ OpGoto("remove")
        BY <1>7 DEF StopResolveFence, DrainTimesOut, StopWrite, StopSucceeds, StopFails, ProveClosed,
           RecordClosed, PurgeUnfence, FocusWrite, OpEnds, Mutate
    <2> QED BY <1>1, <2>1
<1>8. CASE StopDrained
    <2>1. \/ OpGoto("stopWrite")
          \/ op' = [op EXCEPT !.seen = store.session, !.had = FALSE,
                              !.pc = IF store.session.fence.on THEN "fence" ELSE "stopWrite"]
        BY <1>8 DEF StopDrained
    <2>2. ASSUME op' = [op EXCEPT !.seen = store.session, !.had = FALSE,
                                  !.pc = IF store.session.fence.on THEN "fence" ELSE "stopWrite"]
          PROVE  op'.verb = op.verb /\ op'.pc # "unfence"
        BY <2>2 DEF Operations
    <2> QED BY <1>1, <2>1, <2>2
<1>9. CASE CloseDrained
    <2>1. \/ OpGoto("prove") \/ OpGoto("remove") \/ op' = NoOp
          \/ op' = [op EXCEPT !.pc = "prove", !.seen = store.session, !.had = TRUE]
        BY <1>9 DEF CloseDrained, OpEnds
    <2>2. ASSUME op' = [op EXCEPT !.pc = "prove", !.seen = store.session, !.had = TRUE]
          PROVE  op'.verb = op.verb /\ op'.pc # "unfence"
        BY <2>2 DEF Operations
    <2> QED BY <1>1, <2>1, <2>2
<1>10. CASE PurgeRemove
    <2>1. op' = NoOp \/ (OpGoto("unfence") /\ store' = Remove(store))
        BY <1>10 DEF PurgeRemove, OpEnds, Mutate, Written
    <2> QED BY <1>1, <1>10, <2>1
<1> QED BY <1>2, <1>3, <1>4, <1>5, <1>6, <1>7, <1>8, <1>9, <1>10 DEF OpBegin, OpStep

\* A verb leaves the execution of keys and the turn id to the turns.
LEMMA VerbIds ==
    ASSUME mem \in Memory, OpBegin \/ OpStep
    PROVE  /\ mem'.keyed = mem.keyed /\ mem'.turnId = mem.turnId
           /\ mem'.gc \in {mem.gc, "idle"} \/ GcList \/ GcVisit
<1> DEFINE Same == mem'.keyed = mem.keyed /\ mem'.turnId = mem.turnId /\ mem'.gc \in {mem.gc, "idle"}
<1>1. CASE OpStep
    <2>1. \/ mem' = mem \/ mem' = Unlocked
          \/ \E stop : mem' = [mem EXCEPT !.stop = stop]
          \/ \E stop : mem' = [Unlocked EXCEPT !.stop = stop]
          \/ mem' = [mem EXCEPT !.child = None, !.stop = FALSE]
          \/ mem' = [Unlocked EXCEPT !.child = None, !.stop = FALSE]
        BY <1>1 DEF OpStep, StopResolveFence, DrainTimesOut, StopDrained, StopWrite, StopSucceeds,
           StopFails, CloseDrained, ProveClosed, RecordClosed, PurgeRemove, PurgeUnfence, FocusWrite,
           Mutate
    <2> QED BY <2>1 DEF Unlocked, Memory
<1>2. CASE OpBegin
    <2>1. ASSUME StopBegin \/ QuiesceBegin PROVE Same
        BY <2>1 DEF StopBegin, QuiesceBegin, BeginClosing, Mutate, Memory
    <2>2. ASSUME NEW verb \in {"purge", "gc"},
                 PurgeAgain(verb) \/ PurgeUnknown(verb) \/ PurgeBegin(verb)
          PROVE  Same
        BY <2>2 DEF PurgeAgain, PurgeUnknown, PurgeBegin, PurgeReturns, BeginClosing,
           Mutate, Memory
    <2>3. ASSUME \/ (\E e \in 1..MaxEpoch : ReleaseFence(e))
                 \/ Resume \/ Suspend \/ FocusRead \/ OtherNameQuiesces
          PROVE  Same
        BY <2>3 DEF ReleaseFence, Resume, Suspend, FocusRead, Lock, OtherNameQuiesces, Mutate, Memory
    <2>4. ASSUME GcList \/ GcVisit PROVE mem'.keyed = mem.keyed /\ mem'.turnId = mem.turnId
        BY <2>4 DEF GcList, GcVisit, Memory
    <2> QED BY <1>2, <2>1, <2>2, <2>3, <2>4 DEF OpBegin
<1> QED BY <1>1, <1>2

\* The steps of verbs that write neither the session nor a receipt.
LEMMA VerbKeeps ==
    ASSUME store \in StoredStates, OpBegin \/ OpStep,
           ~(StopWrite \/ RecordClosed \/ PurgeRemove \/ Resume \/ Suspend \/ FocusWrite)
    PROVE  store'.session = store.session /\ store'.receipts = store.receipts /\ store'.order = store.order
<1>1. CASE \/ StopBegin \/ GcList \/ GcVisit \/ FocusRead \/ StopResolveFence \/ DrainTimesOut
           \/ StopDrained \/ CloseDrained \/ ProveClosed
           \/ \E verb \in {"purge", "gc"} : PurgeUnknown(verb)
    BY <1>1 DEF StopBegin, GcList, GcVisit, FocusRead, StopResolveFence, DrainTimesOut, StopDrained,
       CloseDrained, ProveClosed, PurgeUnknown, NoMutation
<1>2. ASSUME NEW purpose, store' \in {store, Reserve(store, purpose), Release(store)}
      PROVE  store'.session = store.session /\ store'.receipts = store.receipts /\ store'.order = store.order
    BY <1>2 DEF Reserve, Release, StoredStates
<1>3. CASE \/ QuiesceBegin \/ PurgeUnfence \/ (\E e \in 1..MaxEpoch : ReleaseFence(e))
           \/ \E verb \in {"purge", "gc"} : PurgeAgain(verb) \/ PurgeBegin(verb)
    BY <1>2, <1>3 DEF QuiesceBegin, PurgeUnfence, ReleaseFence, PurgeAgain, PurgeBegin, Mutate,
       Written, Thrown
<1>4. CASE OtherNameQuiesces
    BY <1>4 DEF OtherNameQuiesces, AllocateElsewhere, StoredStates
<1> QED BY <1>1, <1>3, <1>4 DEF OpBegin, OpStep

\* Who sets a quiescence fence.
LEMMA VerbPurposes ==
    ASSUME store \in StoredStates, OpBegin \/ OpStep
    PROVE  \/ store'.active.purpose \in {store.active.purpose, "none"}
           \/ QuiesceBegin /\ store'.active.purpose = "external"
           \/ \E verb \in {"purge", "gc"} : PurgeBegin(verb) /\ store'.active.purpose = "purge"
<1>1. CASE \/ StopBegin \/ GcList \/ GcVisit \/ FocusRead \/ StopResolveFence \/ DrainTimesOut
           \/ StopDrained \/ CloseDrained \/ ProveClosed
           \/ \E verb \in {"purge", "gc"} : PurgeUnknown(verb)
    BY <1>1 DEF StopBegin, GcList, GcVisit, FocusRead, StopResolveFence, DrainTimesOut, StopDrained,
       CloseDrained, ProveClosed, PurgeUnknown, NoMutation
<1>2. ASSUME NEW purpose PROVE Reserve(store, purpose).active.purpose \in {store.active.purpose, purpose}
    BY DEF Reserve, StoredStates, Reservations
<1>3. Release(store).active.purpose = "none"
    BY DEF Release, StoredStates, NoReservation
<1>4. CASE QuiesceBegin
    BY <1>2, <1>4 DEF QuiesceBegin, Mutate, Written, Thrown
<1>5. ASSUME NEW verb \in {"purge", "gc"}, PurgeBegin(verb)
      PROVE  store'.active.purpose \in {store.active.purpose, "purge"}
    BY <1>2, <1>5 DEF PurgeBegin, Mutate, Written, Thrown
<1>6. CASE \/ PurgeUnfence \/ (\E e \in 1..MaxEpoch : ReleaseFence(e))
           \/ \E verb \in {"purge", "gc"} : PurgeAgain(verb)
    BY <1>3, <1>6 DEF PurgeUnfence, ReleaseFence, PurgeAgain, Mutate, Written, Thrown
<1>7. CASE OtherNameQuiesces
    BY <1>7 DEF OtherNameQuiesces, AllocateElsewhere, StoredStates
<1>8. CASE StopWrite \/ RecordClosed \/ PurgeRemove \/ Resume \/ Suspend \/ FocusWrite
    <2>1. \/ store' = store \/ (\E session : store' = Upsert(store, session)) \/ store' = Remove(store)
          \/ \E k, session : store' = Settled(store, k, "error", session)
        BY <1>8 DEF StopWrite, RecordClosed, PurgeRemove, Resume, Suspend, FocusWrite, Mutate, Written,
           Thrown, NoMutation
    <2> QED BY <2>1, FencesSame DEF SameFences
<1> QED BY <1>1, <1>4, <1>5, <1>6, <1>7, <1>8 DEF OpBegin, OpStep

\* A turn releases a fence, when it enters, and sets none.
LEMMA TurnPurposes ==
    ASSUME TypeInv, NEW r \in Requests,
           Admission(r) \/ TurnStep(r) \/ Exit(r) \/ \E e \in 0..MaxEpoch : Call(r, e)
    PROVE  /\ mem'.gc = mem.gc
           /\ SameFences(store, store') \/ (EnterTurn(r) /\ store' = Enter(store))
<1>1. store \in StoredStates /\ mem \in Memory
    BY InvTypes
<1>2. CASE \/ Admission(r) \/ Wake(r) \/ Begin(r) \/ StartTurnOutput(r) \/ Spawn(r) \/ ReadExit(r)
           \/ Exit(r) \/ \E e \in 0..MaxEpoch : Call(r, e)
    <2>1. store' = store
        BY <1>2 DEF Admission, AdmitAnswered, Admit, Wake, Begin, StartTurnOutput, Spawn, ReadExit, Exit,
           Call, NoMutation
    <2>2. mem'.gc = mem.gc
        BY <1>1, <1>2 DEF Admission, AdmitAnswered, Admit, Lock, Wake, Begin, StartTurnOutput, Spawn,
           ReadExit, Exit, Call, Memory
    <2> QED BY <1>1, <2>1, <2>2, FencesSame
<1>3. CASE ReleaseRecoveryFence(r) \/ RefreshProvider(r) \/ Provision(r) \/ PrepareRuntime(r)
           \/ RecordPid(r) \/ HandleStartThrow(r)
    <2>1. store' = store \/ \E session : store' = Upsert(store, session)
        BY <1>3 DEF ReleaseRecoveryFence, RefreshProvider, Provision, PrepareRuntime, RecordPid,
           HandleStartThrow, Mutate, Written, Thrown, NoMutation
    <2>2. mem' = mem \/ mem' = Unlocked
        BY <1>3 DEF ReleaseRecoveryFence, RefreshProvider, Provision, PrepareRuntime, RecordPid,
           HandleStartThrow, Mutate
    <2>3. mem'.gc = mem.gc
        BY <1>1, <2>2 DEF Unlocked, Memory
    <2> QED BY <1>1, <2>1, <2>3, FencesSame
<1>4. CASE LinkTurn(r)
    <2>1. store' = store \/ (\E session : store' = Upsert(store, session))
                         \/ \E k, session : store' = Link(store, k, session)
        BY <1>4 DEF LinkTurn, Mutate, Written, Thrown
    <2>2. mem' = mem
        BY <1>4 DEF LinkTurn
    <2> QED BY <1>1, <2>1, <2>2, FencesSame
<1>5. CASE Finalize(r) \/ RecordThrow(r)
    <2>1. PICK kind, result, next : PersistFinal(r, kind, result, next)
        BY <1>5 DEF Finalize, RecordThrow
    <2>2. store' = store \/ (\E session : store' = Upsert(store, session))
                         \/ \E k, session : store' = Settled(store, k, kind, session)
        BY <2>1 DEF PersistFinal, Mutate, Written, Thrown
    <2>3. mem' = mem \/ mem' = TurnRecorded
        BY <2>1 DEF PersistFinal, Mutate
    <2>4. mem'.gc = mem.gc
        BY <1>1, <2>3 DEF TurnRecorded, Memory
    <2> QED BY <1>1, <2>2, <2>4, FencesSame
<1>6. CASE ReleaseTurn(r)
    <2>1. store' = store \/ \E k, session : store' = Settled(store, k, "error", session)
        BY <1>6 DEF ReleaseTurn, Mutate, Written, Thrown, NoMutation
    <2>2. mem'.gc = mem.gc
        BY <1>1, <1>6 DEF ReleaseTurn, Memory
    <2> QED BY <1>1, <2>1, <2>2, FencesSame
<1>7. CASE EnterTurn(r)
    <2>1. store' = store \/ store' = Enter(store)
        BY <1>7 DEF EnterTurn, Mutate, Written, Thrown
    <2>2. mem'.gc = mem.gc
        BY <1>1, <1>7 DEF EnterTurn, Mutate, Unlocked, Memory
    <2> QED BY <1>1, <1>7, <2>1, <2>2, FencesSame
<1>8. CASE ClaimKey(r)
    <2>1. store' = store \/ store' = Claim(store, KeyOf[r], PrintOf[r])
        BY <1>8 DEF ClaimKey, Mutate, Written, Thrown
    <2>2. mem'.gc = mem.gc
        BY <1>1, <1>8 DEF ClaimKey, Mutate, Unlocked, Memory
    <2> QED BY <1>1, <2>1, <2>2, FencesSame
<1> QED BY <1>2, <1>3, <1>4, <1>5, <1>6, <1>7, <1>8 DEF TurnStep

\* Only a verb that is used is at work, and only it set the fence.
CalledInv ==
    /\ op.verb \in Verbs \cup {"none"}
    /\ mem.gc # "idle" => "gc" \in Verbs
    /\ store.active.purpose = "external" => "quiesce" \in Verbs
    /\ store.active.purpose = "purge" => Verbs \cap {"purge", "gc"} # {}

LEMMA CalledStays ==
    ASSUME Inv, CalledInv, [Next]_vars
    PROVE  CalledInv'
<1>1. store \in StoredStates /\ mem \in Memory /\ op \in Operations /\ TypeInv
    BY InvTypes DEF Inv
<1>2. CASE UNCHANGED vars
    BY <1>2 DEF vars, CalledInv
<1>3. ASSUME NEW r \in Requests,
             Admission(r) \/ TurnStep(r) \/ Exit(r) \/ \E e \in 0..MaxEpoch : Call(r, e)
      PROVE  CalledInv'
    <2>1. op' = op /\ mem'.gc = mem.gc /\ (SameFences(store, store') \/ store' = Enter(store))
        BY <1>1, <1>3, TurnPurposes, TurnsLeaveVerb
    <2>2. store'.active.purpose \in {store.active.purpose, "none"}
        BY <1>1, <2>1 DEF SameFences, Enter, StoredStates, NoReservation
    <2> QED BY <2>1, <2>2 DEF CalledInv
<1>4. CASE OpBegin \/ OpStep
    <2>1. QuiesceBegin => "quiesce" \in Verbs
        BY DEF QuiesceBegin
    <2>2. ASSUME NEW verb \in {"purge", "gc"}, PurgeBegin(verb)
          PROVE  verb \in Verbs /\ Verbs \cap {"purge", "gc"} # {}
        BY <2>2 DEF PurgeBegin, PurgeCalled, CalledInv
    <2>3. mem'.gc # "idle" => "gc" \in Verbs
        BY <1>1, <1>4, VerbIds DEF CalledInv, GcList, GcVisit
    <2>4. op'.verb \in Verbs \cup {"none"}
        <3>1. (StopBegin => "stop" \in Verbs) /\ (FocusRead => "focus" \in Verbs) /\ NoOp.verb = "none"
            BY DEF StopBegin, FocusRead, NoOp
        <3> QED BY <1>1, <1>4, <2>1, <2>2, <3>1, OpMoves DEF CalledInv
    <2> QED BY <1>1, <1>4, <2>1, <2>2, <2>3, <2>4, VerbPurposes DEF CalledInv
<1>5. CASE Crash \/ Restart
    <2>1. op'.verb \in {op.verb, "none"} /\ mem'.gc \in {mem.gc, "idle"}
        <3>1. (op' = NoOp /\ mem' = NoMemory) \/ (op' = op /\ mem' = mem)
            BY <1>5 DEF Crash, Restart
        <3>2. NoOp.verb = "none" /\ NoMemory.gc = "idle"
            BY DEF NoOp, NoMemory
        <3> QED BY <3>1, <3>2
    <2>2. SameFences(store, store')
        <3>1. store' = store \/ store' = Reconciled(store)
            BY <1>5 DEF Crash, Restart, Mutate, Written, Thrown, NoMutation
        <3> QED BY <1>1, <3>1, FencesSame
    <2> QED BY <2>1, <2>2 DEF CalledInv, SameFences
<1> QED BY <1>2, <1>3, <1>4, <1>5 DEF Next

\* A verb that writes the session finds no turn at work, and its patch ends the
\* running receipt or leaves the receipts alone.
VerbWrite == StopWrite \/ RecordClosed \/ PurgeRemove \/ Resume \/ Suspend

LEMMA VerbRests ==
    ASSUME Inv, Ground, VerbWrite
    PROVE  /\ mem.active = None /\ op.pc # "unfence"
           /\ \A q \in Requests : req[q].pc \notin AdmissionSteps \cup BodySteps
<1>1. None \notin Requests
    BY InvTypes DEF Inv
<1>2. mem.active = None /\ mem.lock # "turn" /\ op.pc # "unfence"
    BY DEF VerbWrite, StopWrite, RecordClosed, PurgeRemove, Resume, Suspend, Free, Tracked, Inv, LockInv,
       Ground, VerbInv
<1> QED BY <1>1, <1>2 DEF Inv, LockInv

LEMMA VerbEffect ==
    ASSUME Inv, Coherent, VerbWrite
    PROVE  Patches(store, store') \/ Settles(store, store') \/ store' = Remove(store)
<1>1. /\ store \in StoredStates /\ store.session \in Sessions
      /\ store.session.turn.id = None =>
             store.session.turn.state = "none" /\ store.session.turn.key = None
    BY InvTypes DEF Inv, Coherent, StoreInv, RecordInv
<1>2. \A session : Patched(store.session, session) => Patches(store, Upsert(store, session))
    BY <1>1, WriteKinds
<1>3. /\ Patched(store.session, store.session) /\ Patched(store.session, StoppedSession(store.session))
      /\ Patched(store.session, QuiescedSession(store.session))
      /\ Patched(store.session, [store.session EXCEPT !.state = "idle"])
      /\ Patched(store.session, [store.session EXCEPT !.state = "suspended"])
    BY <1>1, PatchesMake
<1>4. Patches(store, store)
    BY <1>3 DEF Patches
<1>5. CASE StopWrite
    <2>1. ASSUME NEW k \in KeysIn(store, "running"), NEW session,
                 Patched(store.session, session), store' = Settled(store, k, "error", session)
          PROVE  Settles(store, store')
        BY <1>1, <2>1, WriteKinds
    <2>2. \/ store' = store \/ store' = Upsert(store, StoppedSession(store.session))
          \/ \E k \in KeysIn(store, "running") :
                 store' = Settled(store, k, "error", IF Present(store) THEN StoppedSession(store.session)
                                                     ELSE store.session)
        BY <1>5 DEF StopWrite, Mutate, Written, Thrown, NoMutation
    <2> QED BY <1>2, <1>3, <1>4, <2>1, <2>2
<1>6. CASE RecordClosed
    BY <1>2, <1>3, <1>4, <1>6 DEF RecordClosed, Mutate, Written, Thrown
<1>7. CASE PurgeRemove
    BY <1>4, <1>7 DEF PurgeRemove, Mutate, Written, Thrown
<1>8. CASE Resume \/ Suspend
    BY <1>2, <1>3, <1>4, <1>8 DEF Resume, Suspend, Mutate, Written, Thrown
<1> QED BY <1>5, <1>6, <1>7, <1>8 DEF VerbWrite

\* What each kind of write keeps, of the records and of their ids.
LEMMA KindsKeep ==
    ASSUME store \in StoredStates, store' \in StoredStates, StoreInv(store), Valid(store),
           Patches(store, store') \/ Settles(store, store') \/ store' = Remove(store)
    PROVE  StoreInv(store') /\ IdsKept
<1>1. CASE Patches(store, store')
    BY <1>1, PatchKeeps DEF Patches, Patched, IdsKept
<1>2. CASE Settles(store, store')
    <2>1. \A j, k \in KeysIn(store, "running") : j = k
        BY DEF Valid
    <2> QED BY <1>2, <2>1, SettleKeeps DEF Settles, Patched, IdsKept
<1>3. CASE store' = Remove(store)
    <2>1. /\ store'.session.turn.id = None
          /\ \A k \in Keys : store'.receipts[k].turnId = None
        BY <1>3 DEF Remove, StoredStates, NoSession, NoTurn, FreeReceipt
    <2> QED BY <1>3, <2>1, RemoveKeeps DEF IdsKept
<1> QED BY <1>1, <1>2, <1>3

LEMMA CoherentVerbs ==
    ASSUME "focus" \notin Verbs, Inv, Ground, CalledInv, Coherent, store' \in StoredStates,
           OpBegin \/ OpStep
    PROVE  Coherent'
<1>1. /\ store \in StoredStates /\ StoreInv(store) /\ mem \in Memory /\ op \in Operations
      /\ Valid(store) /\ mem.keyed \in Requests \cup {None} /\ None \notin Requests
    BY InvTypes DEF Inv, Coherent, Ground, FenceInv
<1>2. /\ req' = req /\ mem'.active = mem.active /\ mem'.keyed = mem.keyed /\ mem'.turnId = mem.turnId
    BY <1>1, VerbMaps, VerbIds
<1>3. ~FocusWrite /\ NoOp.pc = "none"
    BY <1>1 DEF FocusWrite, Ground, VerbInv, CalledInv, NoOp
<1>4. op'.pc = "unfence" => op' = op \/ (PurgeRemove /\ store' = Remove(store))
    BY <1>1, <1>3, OpMoves
<1>5. CASE VerbWrite
    <2>1. /\ mem.active = None /\ op.pc # "unfence"
          /\ \A q \in Requests : req[q].pc \notin AdmissionSteps \cup BodySteps
        BY <1>5, VerbRests
    <2>2. StoreInv(store') /\ IdsKept
        BY <1>1, <1>5, VerbEffect, KindsKeep
    <2>3. mem'.keyed = None
        BY <1>1, <1>2, <2>1 DEF Coherent
    <2>4. op'.pc = "unfence" => ~Present(store')
        <3>1. op'.pc = "unfence" => store' = Remove(store)
            BY <1>4, <2>1
        <3>2. Remove(store).session.state = "absent"
            BY <1>1 DEF Remove, NoSession, StoredStates
        <3> QED BY <3>1, <3>2 DEF Present
    <2>5. \A q \in Requests : Unborn(q)' => Unborn(q)
        BY <1>2 DEF Unborn
    <2> QED BY <1>2, <2>1, <2>2, <2>3, <2>4, <2>5, RestKeeps
<1>6. CASE ~VerbWrite
    <2>1. store'.session = store.session /\ store'.receipts = store.receipts /\ store'.order = store.order
        BY <1>1, <1>3, <1>6, VerbKeeps DEF VerbWrite
    <2>2. op'.pc = "unfence" => ~Present(store)
        BY <1>4, <1>6 DEF Coherent, VerbWrite
    <2> QED BY <1>1, <1>2, <2>1, <2>2, OthersKeep
<1> QED BY <1>5, <1>6

LEMMA CoherentCrash ==
    ASSUME Inv, Ground, Coherent, store' \in StoredStates, Crash \/ Restart
    PROVE  Coherent'
<1>1. /\ store \in StoredStates /\ StoreInv(store) /\ Valid(store) /\ None \notin Requests
    BY InvTypes DEF Inv, Coherent, Ground, FenceInv
<1>2. /\ NoMemory.keyed = None /\ NoMemory.turnId = None /\ NoOp.pc = "none"
      /\ \A g : [NoRequest EXCEPT !.pc = "lost", !.generation = g].pc = "lost"
    BY DEF NoMemory, NoOp, NoRequest
<1>3. CASE Crash
    <2>1. store' = store /\ mem' = NoMemory /\ op' = NoOp
        BY <1>3 DEF Crash, NoMutation
    <2>2. ASSUME NEW q \in Requests
          PROVE  (req'[q] = req[q] /\ req[q].pc \in {"new", "done", "lost"}) \/ req'[q].pc = "lost"
        <3>1. req'[q] = IF req[q].pc \in {"new", "done", "lost"} THEN req[q]
                        ELSE [NoRequest EXCEPT !.pc = "lost", !.generation = req[q].generation]
            BY <1>3 DEF Crash
        <3> QED BY <1>2, <3>1
    <2>3. \A q \in Requests : /\ req'[q].pc \notin AdmissionSteps \cup BodySteps
                              /\ Unborn(q)' => Unborn(q) /\ req'[q].retried = req[q].retried
        BY <2>2, PcNames DEF Unborn
    <2>4. IdsKept
        BY <2>1 DEF IdsKept
    <2> QED BY <1>1, <1>2, <2>1, <2>3, <2>4, RestKeeps
<1>4. CASE Restart
    <2>1. /\ mem = NoMemory /\ op = NoOp /\ req' = req /\ mem' = mem /\ op' = op
          /\ \A r \in Requests : req[r].pc \notin AdmissionSteps \cup BodySteps
        BY <1>4 DEF Restart, Ground, DownInv
    <2>2. Patches(store, store') \/ Settles(store, store')
        <3>1. store' = store \/ store' = Reconciled(store)
            BY <1>4 DEF Restart, Mutate, Written, Thrown, NoMutation
        <3>2. Patches(store, store)
            BY <1>1, PatchesMake DEF Patches, StoreInv, RecordInv, StoredStates
        <3> QED BY <1>1, <3>1, <3>2, ReconciledValid
    <2>3. StoreInv(store') /\ IdsKept
        BY <1>1, <2>2, KindsKeep
    <2>4. \A q \in Requests : Unborn(q)' => Unborn(q)
        BY <2>1 DEF Unborn
    <2> QED BY <1>2, <2>1, <2>3, <2>4, RestKeeps
<1> QED BY <1>3, <1>4

LEMMA CoherentStays ==
    ASSUME "focus" \notin Verbs, Inv, Ground, CalledInv, Coherent, [Next]_vars
    PROVE  Coherent'
<1>1. store' \in StoredStates /\ TypeInv'
    BY NextType DEF Inv, TypeInv, TypeOK
<1>2. CASE UNCHANGED vars
    BY <1>2 DEF vars, Coherent, TurnOk, Unborn, Publishing, Undrawn
<1>3. ASSUME NEW r \in Requests,
             Admission(r) \/ TurnStep(r) \/ Exit(r) \/ \E e \in 0..MaxEpoch : Call(r, e)
      PROVE  Coherent'
    BY <1>1, <1>3, CoherentCalls, CoherentEnters, CoherentClaims, CoherentDispatch, CoherentPublish,
       CoherentFinal, CoherentThrow, CoherentRelease DEF TurnStep, Ground, FenceInv
<1>4. CASE OpBegin \/ OpStep
    BY <1>1, <1>4, CoherentVerbs
<1>5. CASE Crash \/ Restart
    BY <1>1, <1>5, CoherentCrash
<1> QED BY <1>2, <1>3, <1>4, <1>5 DEF Next

LEMMA CoherentInit == Init => Coherent /\ CalledInv
<1> SUFFICES ASSUME Init PROVE Coherent /\ CalledInv
    OBVIOUS
<1>1. /\ store = freshState /\ None \notin Requests
      /\ mem.keyed = None /\ mem.turnId = None /\ mem.gc = "idle" /\ op.pc = "none" /\ op.verb = "none"
      /\ \A r \in Requests : req[r].pc = "new" /\ ~req[r].retried
    BY NoneAssumption DEF Init, NoMemory, NoOp, NoRequest, Requests
<1>2. /\ store.session = NoSession /\ store.order = <<>> /\ store.active.purpose = "none"
      /\ \A k \in Keys : store.receipts[k] = FreeReceipt
    BY <1>1 DEF freshState, NoReservation
<1>3. StoreInv(store)
    <2>0. /\ KeysIn(store, "settled") = {} /\ KeysIn(store, "running") = {} /\ Len(store.order) = 0
          /\ \A k \in Keys : store.receipts[k].turnId = None
          /\ store.session.turn = NoTurn
        BY <1>2 DEF KeysIn, FreeReceipt, NoSession
    <2>1. OrderInv(store)
        BY <2>0 DEF OrderInv, Running
    <2>2. RecordInv(store)
        BY <2>0 DEF RecordInv, NoTurn
    <2> QED BY <2>1, <2>2 DEF StoreInv
<1>4. \A r \in Requests : Undrawn(r)
    BY <1>1, <1>2 DEF Undrawn, FreeReceipt, NoSession, NoTurn
<1>5. Coherent
    BY <1>1, <1>3, <1>4, PcNames DEF Coherent
<1> QED BY <1>1, <1>2, <1>5 DEF CalledInv

\* Which verbs can be at work, and who can have set a quiescence fence.
LEMMA CalledCorrect == Spec => []CalledInv
<1>1. Inv /\ CalledInv /\ [Next]_vars => CalledInv'
    BY CalledStays
<1> QED BY <1>1, CoherentInit, InvCorrect, PTL DEF Spec

\* The receipts, the session record and the turn in memory agree at every step of
\* every request, verb, crash and restart, whatever writes fail: an admitted turn
\* finds no running receipt but its own, builds on what is stored, and links its
\* receipt under the id it holds (runSessionTurn, startActiveTurnOutput,
\* claimTurnRequest, patchSessionAndSettleTurnRequest).  focus and unfocus are left
\* out: they write back a session read before the turn's own writes.
THEOREM CoherentCorrect ==
    ASSUME "focus" \notin Verbs
    PROVE  Spec => []Coherent
<1>1. Inv /\ Quiet /\ CalledInv /\ Coherent /\ [Next]_vars => Coherent'
    BY CoherentStays DEF Quiet
<1> QED BY <1>1, CoherentInit, CalledCorrect, InvCorrect, QuietCorrect, PTL DEF Spec

-----------------------------------------------------------------------------
(* The schema accepts what the manager writes.                                *)

\* The turn id the daemon holds, as long as nobody fenced its session, is that of a
\* running turn, and of no turn at all outside the steps that publish one.
Fresh ==
    mem.turnId # None /\ Mutable(store) =>
        /\ \A k \in Keys : store.receipts[k].turnId = mem.turnId => store.receipts[k].state = "running"
        /\ store.session.turn.id = mem.turnId => store.session.turn.state = "running"
        /\ (\A r \in Requests : ~Publishing(r)) =>
               /\ store.session.turn.id # mem.turnId
               /\ \A k \in Keys : store.receipts[k].turnId # mem.turnId

\* An ended turn is settled along with its receipt.
LEMMA EndValid ==
    ASSUME Inv, Coherent, Valid(store), NEW r \in Requests, req[r].pc \in BodySteps, Keyed(r),
           KeyOf[r] \in KeysIn(store, "running"),
           NEW kind \in {"success", "error"}, NEW session \in Sessions,
           Patched(store.session, session),
           kind = "success" => store.receipts[KeyOf[r]].turnId # None,
           store.receipts[KeyOf[r]].turnId # None =>
               session.state # "running" /\ session.turn.state \in TerminalTurnStates
    PROVE  Valid(Settled(store, KeyOf[r], kind, session))
<1>1. store \in StoredStates /\ StoreInv(store)
    BY InvTypes DEF Inv, Coherent
<1> QED BY <1>1, SettledValid

LEMMA FinalAccepted ==
    ASSUME Inv, Coherent, Valid(store), NEW r \in Requests,
           req[r].pc \in BodySteps \ {"body", "provision", "epilogue"},
           NEW kind \in {"success", "error"}, NEW result \in {"idle", "failed"}, NEW next,
           Keyed(r) /\ kind = "success" => store.receipts[KeyOf[r]].turnId # None,
           PersistFinal(r, kind, result, next)
    PROVE  /\ refused' = refused
           /\ \/ mem' = TurnRecorded
              \/ faults' = faults + 1
              \/ store' = store /\ ~(/\ Mutable(store) /\ Present(store)
                                     /\ Keyed(r) => HoldsRunning(store, KeyOf[r], PrintOf[r]))
<1> DEFINE session == FinalSession(store.session, result)
<1>1. /\ store \in StoredStates /\ store.session \in Sessions /\ TurnOk(r) /\ mem \in Memory
      /\ store.session.turn.id = None =>
             store.session.turn.state = "none" /\ store.session.turn.key = None
      /\ mem.keyed = (IF Keyed(r) THEN r ELSE None) /\ None \notin Requests
      /\ (Keyed(r) => KeyOf[r] \in Keys)
    BY TurnTypes, InTurn, KeyOfType
<1>2. session \in Sessions /\ session.state # "running"
    BY <1>1, FinalSessionType DEF FinalSession
<1>3. Patched(store.session, session)
    BY <1>1, PatchesMake
<1>4. /\ mem.turnId # None /\ store.session.turn.id = mem.turnId
      => session.turn.state \in TerminalTurnStates
    BY <1>1 DEF FinalSession, TerminalTurnStates, Sessions, Turns
<1> DEFINE PersistedAs(allowed, written) ==
               \/ Written(allowed, written) /\ mem' = TurnRecorded
               \/ Thrown(allowed, written)
<1>5. IF mem.keyed = None
      THEN PersistedAs(Mutable(store) /\ Present(store), Upsert(store, session))
      ELSE PersistedAs(CanSettle(store, KeyOf[mem.keyed], PrintOf[mem.keyed]) /\ Present(store),
                       Settled(store, KeyOf[mem.keyed], kind, session))
    BY DEF PersistFinal, Mutate
<1> HIDE DEF session
<1>6. CASE ~Keyed(r)
    <2>1. Unlinked(store)
        BY <1>1, <1>6 DEF TurnOk, Unlinked, Running
    <2>2. Valid(Upsert(store, session))
        BY <1>1, <1>3, <2>1, SessionValid
    <2> QED BY <1>1, <1>5, <1>6, <2>2 DEF Written, Thrown
<1>7. CASE Keyed(r)
    <2>1. ASSUME CanSettle(store, KeyOf[r], PrintOf[r])
          PROVE  Valid(Settled(store, KeyOf[r], kind, session))
        <3>1. KeyOf[r] \in KeysIn(store, "running")
            BY <1>1, <1>7, <2>1 DEF CanSettle, HoldsRunning, KeysIn
        <3>2. ASSUME store.receipts[KeyOf[r]].turnId # None
              PROVE  session.turn.state \in TerminalTurnStates
            <4>1. store.receipts[KeyOf[r]].turnId = mem.turnId
                BY <1>1, <1>7, <3>1, <3>2 DEF TurnOk
            <4>2. store.session.turn.id = mem.turnId
                BY <1>1, <1>7, <3>1, <3>2, <4>1 DEF Valid, LinkedReceiptHasTurn, KeysIn
            <4> QED BY <1>4, <3>2, <4>1, <4>2
        <3> QED BY <1>1, <1>2, <1>3, <1>7, <3>1, <3>2, EndValid
    <2> QED BY <1>1, <1>5, <1>7, <2>1 DEF Written, Thrown, CanSettle
<1> QED BY <1>6, <1>7

LEMMA LinkAccepted ==
    ASSUME Inv, Coherent, Valid(store), Fresh, NEW r \in Requests, LinkTurn(r)
    PROVE  refused' = refused
<1>1. req[r].pc = "linkWrite" /\ req[r].pc \in BodySteps
    BY PcNames DEF LinkTurn
<1>2. /\ store \in StoredStates /\ store.session \in Sessions /\ TurnOk(r) /\ StoreInv(store)
      /\ req[r].seen = store.session
      /\ mem.turnId \in Requests /\ Present(store)
      /\ mem.keyed = (IF Keyed(r) THEN r ELSE None) /\ None \notin Requests
      /\ (Keyed(r) => KeyOf[r] \in Keys)
    BY <1>1, TurnTypes, InTurn, InvTypes DEF TurnOk, Publishing, Inv, Coherent
<1> DEFINE session == WithRunningTurn(store.session, r, mem.turnId)
<1>3. /\ session.turn.id = mem.turnId /\ session.turn.state = "running"
      /\ mem.keyed = None => session.turn.key = None
    BY <1>2 DEF WithRunningTurn, Sessions
<1>4. IF mem.keyed = None
      THEN \/ Written(Mutable(store), Upsert(store, session))
           \/ Thrown(Mutable(store), Upsert(store, session))
      ELSE LET allowed == CanLink(store, KeyOf[mem.keyed], PrintOf[mem.keyed], session)
               linked == Link(store, KeyOf[mem.keyed], session)
           IN  Written(allowed, linked) \/ Thrown(allowed, linked)
    BY <1>2 DEF LinkTurn, Mutate
<1> HIDE DEF session
<1>5. Mutable(store) => \A k \in Keys : store.receipts[k].state = "settled"
                                        => store.receipts[k].turnId # session.turn.id
    BY <1>2, <1>3 DEF Fresh
<1>6. CASE ~Keyed(r)
    <2>1. ~Running(store)
        BY <1>2, <1>6 DEF TurnOk
    <2>2. Mutable(store) => Valid(Upsert(store, session))
        BY <1>2, <1>3, <1>5, <1>6, <2>1, UnkeyedValid
    <2> QED BY <1>2, <1>4, <1>6, <2>2 DEF Written, Thrown
<1>7. CASE Keyed(r)
    <2>1. CanLink(store, KeyOf[r], PrintOf[r], session) => Valid(Link(store, KeyOf[r], session))
        <3>1. CanLink(store, KeyOf[r], PrintOf[r], session) => Mutable(store)
            BY DEF CanLink
        <3> QED BY <1>2, <1>3, <1>5, <1>7, <3>1, LinkValid
    <2> QED BY <1>2, <1>4, <1>7, <2>1 DEF Written, Thrown
<1> QED BY <1>6, <1>7

LEMMA ReleaseAccepted ==
    ASSUME Inv, Coherent, Valid(store), NEW r \in Requests, ReleaseTurn(r)
    PROVE  refused' = refused
<1>1. req[r].pc = "epilogue" /\ req[r].pc \in BodySteps
    BY PcNames DEF ReleaseTurn
<1> DEFINE session == SettledByThrow(store.session, r)
<1>2. /\ store \in StoredStates /\ store.session \in Sessions /\ TurnOk(r)
      /\ session \in Sessions /\ Patched(store.session, session)
      /\ None \notin Requests
    BY <1>1, TurnTypes, InTurn, PatchTypes, PatchesMake
<1>3. \/ refused' = refused
      \/ /\ Keyed(r) /\ KeyOf[r] \in Keys /\ store.receipts[KeyOf[r]].state = "running"
         /\ LET allowed == CanSettleBehindFence(store, KeyOf[r], PrintOf[r])
                settled == Settled(store, KeyOf[r], "error", session)
            IN  Written(allowed, settled) \/ Thrown(allowed, settled)
    BY KeyOfType DEF ReleaseTurn, NoMutation, Mutate, ReceiptState
<1>4. ASSUME Keyed(r), KeyOf[r] \in Keys, store.receipts[KeyOf[r]].state = "running"
      PROVE  Valid(Settled(store, KeyOf[r], "error", session))
    <2>1. KeyOf[r] \in KeysIn(store, "running")
        BY <1>4 DEF KeysIn
    <2>2. ASSUME store.receipts[KeyOf[r]].turnId # None
          PROVE  session.state # "running" /\ session.turn.state \in TerminalTurnStates
        <3>1. store.session.state = "running" /\ store.receipts[KeyOf[r]].print = PrintOf[r]
            BY <1>2, <1>4, <2>1, <2>2 DEF TurnOk
        <3>2. /\ store.session.turn.state = "running" /\ store.session.turn.key = KeyOf[r]
              /\ store.session.turn.print = PrintOf[r]
            BY <1>4, <2>2, <3>1 DEF Valid, LinkedReceiptHasTurn
        <3> QED BY <1>2, <3>1, <3>2 DEF SettledByThrow, TerminalTurnStates, Sessions, Turns
    <2> HIDE DEF session
    <2> QED BY <1>1, <1>2, <1>4, <2>1, <2>2, EndValid
<1> HIDE DEF session
<1> QED BY <1>3, <1>4 DEF Written, Thrown

\* Every write of a turn is accepted; the publication of a turn rests on Fresh.
LEMMA TurnAccepted ==
    ASSUME Inv, Coherent, Valid(store), NEW r \in Requests, LinkTurn(r) => Fresh,
           Admission(r) \/ TurnStep(r) \/ Exit(r) \/ \E e \in 0..MaxEpoch : Call(r, e)
    PROVE  refused' = refused
<1>1. /\ store \in StoredStates /\ store.session \in Sessions /\ StoreInv(store)
      /\ store.session.turn.id = None =>
             store.session.turn.state = "none" /\ store.session.turn.key = None
    BY InvTypes DEF Inv, Coherent, StoreInv, RecordInv
<1>2. \A session : /\ Patched(store.session, session)
                   /\ session.turn.state = store.session.turn.state \/ Unlinked(store)
                   => Valid(Upsert(store, session))
    BY <1>1, SessionValid
<1>3. Patched(store.session, store.session)
    BY <1>1, PatchesMake
<1>4. CASE \/ Admission(r) \/ Wake(r) \/ Begin(r) \/ StartTurnOutput(r) \/ Spawn(r) \/ ReadExit(r)
           \/ Exit(r) \/ \E e \in 0..MaxEpoch : Call(r, e)
    BY <1>4 DEF Admission, AdmitAnswered, Admit, Wake, Begin, StartTurnOutput, Spawn, ReadExit, Exit,
       Call, NoMutation
<1>5. CASE ReleaseRecoveryFence(r)
    <2>1. ~Running(store)
        BY <1>5, PcNames DEF ReleaseRecoveryFence, Coherent
    <2>2. Valid(Upsert(store, FenceReleased(store.session)))
        BY <1>1, <1>2, <2>1, PatchesMake DEF Unlinked, Running
    <2> QED BY <1>5, <2>2 DEF ReleaseRecoveryFence, Mutate, Written, Thrown
<1>6. CASE EnterTurn(r)
    BY <1>1, <1>6, FenceMovesValid DEF EnterTurn, Mutate, Written, Thrown
<1>7. CASE ClaimKey(r)
    <2>1. KeyOf[r] \in Keys /\ PrintOf[r] \in Prints
        BY <1>7, KeyOfType DEF ClaimKey, Inv, TypeInv, KeysHeld
    <2>2. CanClaim(store, KeyOf[r]) => Valid(Claim(store, KeyOf[r], PrintOf[r]))
        BY <1>1, <2>1, ClaimValid
    <2> QED BY <1>7, <2>2 DEF ClaimKey, Mutate, Written, Thrown
<1>8. CASE RefreshProvider(r)
    <2>1. req[r].seen = store.session
        BY <1>8, PcNames DEF RefreshProvider, Coherent, TurnOk
    <2>2. Valid(Upsert(store, req[r].seen))
        BY <1>2, <1>3, <2>1
    <2> QED BY <1>8, <2>2 DEF RefreshProvider, Mutate, Written, Thrown
<1>9. CASE Provision(r)
    <2> DEFINE provisional == [req[r].seen EXCEPT !.state = "running"]
    <2>1. req[r].seen = store.session
        BY <1>9, PcNames DEF Provision, Coherent, TurnOk
    <2>2. Patched(store.session, provisional) /\ provisional.turn.state = store.session.turn.state
        BY <1>1, <2>1, PatchesMake DEF Sessions
    <2>3. \/ refused' = refused
          \/ Written(Mutable(store), Upsert(store, provisional))
          \/ Thrown(Mutable(store), Upsert(store, provisional))
        BY <1>9 DEF Provision, Mutate, NoMutation
    <2> HIDE DEF provisional
    <2>4. Valid(Upsert(store, provisional))
        BY <1>2, <2>2
    <2> QED BY <2>3, <2>4 DEF Written, Thrown
<1>10. CASE PrepareRuntime(r)
    <2>1. Patched(store.session, SessionFailed(store.session))
        BY <1>1, PatchesMake
    <2>2. SessionFailed(store.session).turn = store.session.turn
        BY <1>1 DEF SessionFailed, Sessions
    <2>3. Valid(Upsert(store, SessionFailed(store.session)))
        BY <1>2, <2>1, <2>2
    <2> QED BY <1>10, <2>3 DEF PrepareRuntime, Mutate, Written, Thrown, NoMutation
<1>11. CASE RecordPid(r)
    <2> DEFINE session == [store.session EXCEPT !.turn.pid = r]
               next == IF store.session.turn.id = mem.turnId THEN Upsert(store, session) ELSE store
    <2>1. Patched(store.session, session) /\ session.turn.state = store.session.turn.state
        BY <1>1, PatchesMake DEF Sessions, Turns
    <2>2. Written(Mutable(store), next) \/ Thrown(Mutable(store), next)
        BY <1>11 DEF RecordPid, Mutate
    <2> HIDE DEF session
    <2>3. Valid(next)
        BY <1>2, <2>1
    <2> HIDE DEF next
    <2> QED BY <2>2, <2>3 DEF Written, Thrown
<1>12. CASE HandleStartThrow(r)
    <2> DEFINE session == [store.session EXCEPT !.state = "failed"]
    <2>1. Patched(store.session, session) /\ session.turn.state = store.session.turn.state
        BY <1>1, PatchesMake DEF Sessions
    <2>2. Present(store)
        BY <1>12, PcNames DEF HandleStartThrow, Coherent, TurnOk
    <2>3. \/ refused' = refused
          \/ Written(TRUE, store) \/ Thrown(TRUE, store)
          \/ Written(TRUE, Upsert(store, session)) \/ Thrown(TRUE, Upsert(store, session))
        BY <1>12, <2>2 DEF HandleStartThrow, Mutate, NoMutation
    <2> HIDE DEF session
    <2>4. Valid(Upsert(store, session))
        BY <1>2, <2>1
    <2> QED BY <2>3, <2>4 DEF Written, Thrown
<1>13. CASE Finalize(r)
    <2>1. /\ req[r].pc = "final" /\ req[r].pc \in BodySteps \ {"body", "provision", "epilogue"}
          /\ PersistFinal(r, "success", req[r].result, "epilogue")
        BY <1>13, PcNames DEF Finalize
    <2>2. Keyed(r) => store.receipts[KeyOf[r]].turnId # None
        BY <2>1 DEF Coherent, TurnOk
    <2>3. req[r].result \in {"idle", "failed"}
        BY InvTypes DEF Inv, RequestStates
    <2> QED BY <2>1, <2>2, <2>3, FinalAccepted
<1>14. CASE RecordThrow(r)
    <2>1. /\ req[r].pc \in BodySteps \ {"body", "provision", "epilogue"}
          /\ PersistFinal(r, "error", "failed", AfterThrow(r))
        BY <1>14, PcNames DEF RecordThrow
    <2> QED BY <2>1, FinalAccepted
<1>15. CASE LinkTurn(r)
    BY <1>15, LinkAccepted
<1>16. CASE ReleaseTurn(r)
    BY <1>16, ReleaseAccepted
<1> QED BY <1>4, <1>5, <1>6, <1>7, <1>8, <1>9, <1>10, <1>11, <1>12, <1>13, <1>14, <1>15, <1>16
        DEF TurnStep

\* And so is every write of a verb; the record of a closed runtime rests on the end
\* of every execution before it.
LEMMA VerbAccepted ==
    ASSUME Inv, Ground, Coherent, OpBegin \/ OpStep, ~FocusWrite, RecordClosed => ~Running(store)
    PROVE  refused' = refused
<1>1. /\ store \in StoredStates /\ store.session \in Sessions /\ StoreInv(store) /\ Valid(store)
      /\ store.session.turn.id = None =>
             store.session.turn.state = "none" /\ store.session.turn.key = None
    BY InvTypes DEF Inv, Coherent, StoreInv, RecordInv, Ground, FenceInv
<1>2. \A session : /\ Patched(store.session, session)
                   /\ session.turn.state = store.session.turn.state \/ Unlinked(store)
                   => Valid(Upsert(store, session))
    BY <1>1, SessionValid
<1>3. /\ Valid(Release(store))
      /\ \A purpose \in {"external", "purge"} : CanReserve(store) => Valid(Reserve(store, purpose))
    BY <1>1, FenceMovesValid
<1>4. CASE \/ StopBegin \/ GcList \/ GcVisit \/ FocusRead \/ StopResolveFence \/ DrainTimesOut
           \/ StopDrained \/ CloseDrained \/ ProveClosed \/ OtherNameQuiesces
           \/ \E verb \in {"purge", "gc"} : PurgeUnknown(verb)
    BY <1>4 DEF StopBegin, GcList, GcVisit, FocusRead, StopResolveFence, DrainTimesOut, StopDrained,
       CloseDrained, ProveClosed, PurgeUnknown, OtherNameQuiesces, NoMutation
<1>5. CASE QuiesceBegin
    BY <1>3, <1>5 DEF QuiesceBegin, Mutate, Written, Thrown
<1>6. ASSUME NEW verb \in {"purge", "gc"}, PurgeAgain(verb) \/ PurgeBegin(verb) PROVE refused' = refused
    BY <1>3, <1>6 DEF PurgeAgain, PurgeBegin, Mutate, Written, Thrown
<1>7. CASE PurgeUnfence \/ \E e \in 1..MaxEpoch : ReleaseFence(e)
    BY <1>3, <1>7 DEF PurgeUnfence, ReleaseFence, Mutate, Written, Thrown
<1>8. CASE RecordClosed
    <2>1. Valid(Upsert(store, QuiescedSession(store.session)))
        BY <1>1, <1>8, ClosureValid
    <2> QED BY <1>8, <2>1 DEF RecordClosed, Mutate, Written, Thrown
<1>9. CASE PurgeRemove
    BY <1>1, <1>9, RemoveValid DEF PurgeRemove, Mutate, Written, Thrown
<1>10. CASE Resume \/ Suspend
    <2> DEFINE resumed == [store.session EXCEPT !.state = "idle"]
               suspended == [store.session EXCEPT !.state = "suspended"]
    <2>1. /\ Patched(store.session, resumed) /\ resumed.turn.state = store.session.turn.state
          /\ Patched(store.session, suspended) /\ suspended.turn.state = store.session.turn.state
        BY <1>1, PatchesMake DEF Sessions
    <2>2. \/ Written(TRUE, Upsert(store, resumed)) \/ Thrown(TRUE, Upsert(store, resumed))
          \/ Written(TRUE, Upsert(store, suspended)) \/ Thrown(TRUE, Upsert(store, suspended))
        BY <1>10 DEF Resume, Suspend, Mutate
    <2> HIDE DEF resumed, suspended
    <2>3. Valid(Upsert(store, resumed)) /\ Valid(Upsert(store, suspended))
        BY <1>2, <2>1
    <2> QED BY <2>2, <2>3 DEF Written, Thrown
<1>11. CASE StopWrite
    <2> DEFINE session == IF Present(store) THEN StoppedSession(store.session) ELSE store.session
    <2>1. ~Present(store) => \A k \in Keys : store.receipts[k].turnId = None
        BY <1>1 DEF StoreInv, RecordInv
    <2>2. session \in Sessions /\ Patched(store.session, session)
        BY <1>1, PatchTypes, PatchesMake
    <2>3. store.session.turn.state = "running" =>
              /\ StoppedSession(store.session).state = "stopped"
              /\ StoppedSession(store.session).turn.state = "stopped"
        BY <1>1 DEF StoppedSession, Sessions, Turns
    <2>4. Valid(Upsert(store, StoppedSession(store.session))) \/ Running(store)
        BY <1>1, <1>2, PatchesMake DEF Unlinked, Running
    <2>5. Running(store) => mem.keyed = None
        <3>1. mem.active = None /\ None \notin Requests /\ mem.keyed \in Requests \cup {None}
            BY <1>11, VerbRests, InvTypes DEF VerbWrite, Inv
        <3> QED BY <3>1 DEF Coherent
    <2>6. ASSUME NEW k \in KeysIn(store, "running") PROVE Valid(Settled(store, k, "error", session))
        <3>1. ASSUME store.receipts[k].turnId # None
              PROVE  session.state # "running" /\ session.turn.state \in TerminalTurnStates
            <4>1. store.session.turn.state = "running" /\ Present(store)
                BY <1>1, <2>1, <3>1 DEF Valid, LinkedReceiptHasTurn, KeysIn
            <4> QED BY <2>3, <4>1 DEF TerminalTurnStates
        <3> HIDE DEF session
        <3> QED BY <1>1, <2>2, <3>1, SettledValid
    <2>7. \/ refused' = refused
          \/ \E k \in KeysIn(store, "running") :
                 \/ Written(TRUE, Settled(store, k, "error", session))
                 \/ Thrown(TRUE, Settled(store, k, "error", session))
          \/ /\ ~Running(store) \/ mem.keyed # None
             /\ \/ Written(Mutable(store), Upsert(store, StoppedSession(store.session)))
                \/ Thrown(Mutable(store), Upsert(store, StoppedSession(store.session)))
        BY <1>11 DEF StopWrite, Mutate, NoMutation
    <2> HIDE DEF session
    <2> QED BY <2>4, <2>5, <2>6, <2>7 DEF Written, Thrown
<1> QED BY <1>4, <1>5, <1>6, <1>7, <1>8, <1>9, <1>10, <1>11 DEF OpBegin, OpStep

LEMMA CrashAccepted ==
    ASSUME Inv, Ground, Coherent, Crash \/ Restart
    PROVE  refused' = refused
<1>1. Valid(Reconciled(store))
    BY InvTypes, ReconciledValid DEF Inv, Coherent, Ground, FenceInv
<1> QED BY <1>1 DEF Crash, Restart, NoMutation, Mutate, Written, Thrown

-----------------------------------------------------------------------------
(* What a turn and a verb do to the records, and to the id the daemon holds.  *)

LEMMA TurnWrites ==
    ASSUME Inv, Coherent, store' \in StoredStates, NEW r \in Requests,
           Admission(r) \/ TurnStep(r) \/ Exit(r) \/ \E e \in 0..MaxEpoch : Call(r, e)
    PROVE  \/ Patches(store, store')
           \/ Settles(store, store')
           \/ ClaimKey(r) /\ Claiming(store, store', KeyOf[r], PrintOf[r])
           \/ LinkTurn(r) /\ Published(r)
<1>1. /\ store \in StoredStates /\ store.session \in Sessions /\ StoreInv(store)
      /\ store.session.turn.id = None =>
             store.session.turn.state = "none" /\ store.session.turn.key = None
    BY InvTypes DEF Inv, Coherent, StoreInv, RecordInv
<1>2. Patches(store, store)
    BY <1>1, PatchesMake DEF Patches
<1>3. \A session : Patched(store.session, session) => Patches(store, Upsert(store, session))
    BY <1>1, WriteKinds
<1>4. CASE \/ Admission(r) \/ Wake(r) \/ Begin(r) \/ StartTurnOutput(r) \/ Spawn(r) \/ ReadExit(r)
           \/ Exit(r) \/ \E e \in 0..MaxEpoch : Call(r, e)
    BY <1>2, <1>4 DEF Admission, AdmitAnswered, Admit, Wake, Begin, StartTurnOutput, Spawn, ReadExit,
       Exit, Call, NoMutation
<1>5. CASE ReleaseRecoveryFence(r)
    <2>1. Patched(store.session, FenceReleased(store.session))
        BY <1>1, PatchesMake
    <2> QED BY <1>2, <1>3, <1>5, <2>1 DEF ReleaseRecoveryFence, Mutate, Written, Thrown
<1>6. CASE EnterTurn(r)
    <2>1. Patches(store, Enter(store))
        BY <1>1, <1>2 DEF Enter, Patches, StoredStates
    <2> QED BY <1>2, <1>6, <2>1 DEF EnterTurn, Mutate, Written, Thrown
<1>7. CASE ClaimKey(r)
    <2>1. KeyOf[r] \in Keys /\ PrintOf[r] \in Prints
        BY <1>7, KeyOfType DEF ClaimKey, Inv, TypeInv, KeysHeld
    <2>2. CanClaim(store, KeyOf[r])
          => Claiming(store, Claim(store, KeyOf[r], PrintOf[r]), KeyOf[r], PrintOf[r])
        BY <1>1, <2>1, ClaimEffect DEF StoreInv
    <2> QED BY <1>2, <1>7, <2>2 DEF ClaimKey, Mutate, Written, Thrown
<1>8. CASE RefreshProvider(r)
    <2>1. req[r].seen = store.session
        BY <1>8, PcNames DEF RefreshProvider, Coherent, TurnOk
    <2>2. Patches(store, Upsert(store, req[r].seen))
        BY <1>1, <1>3, <2>1, PatchesMake
    <2> QED BY <1>2, <1>8, <2>2 DEF RefreshProvider, Mutate, Written, Thrown
<1>9. CASE Provision(r)
    <2> DEFINE provisional == [req[r].seen EXCEPT !.state = "running"]
    <2>1. req[r].seen = store.session
        BY <1>9, PcNames DEF Provision, Coherent, TurnOk
    <2>2. Patched(store.session, provisional)
        BY <1>1, <2>1, PatchesMake
    <2>3. store' = store \/ store' = Upsert(store, provisional)
        BY <1>9 DEF Provision, Mutate, Written, Thrown, NoMutation
    <2> HIDE DEF provisional
    <2> QED BY <1>2, <1>3, <2>2, <2>3
<1>10. CASE PrepareRuntime(r)
    <2>1. Patched(store.session, SessionFailed(store.session))
        BY <1>1, PatchesMake
    <2> QED BY <1>2, <1>3, <1>10, <2>1 DEF PrepareRuntime, Mutate, Written, Thrown, NoMutation
<1>11. CASE RecordPid(r)
    <2> DEFINE session == [store.session EXCEPT !.turn.pid = r]
    <2>1. Patched(store.session, session)
        BY <1>1, PatchesMake
    <2>2. store' = store \/ store' = Upsert(store, session)
        BY <1>11 DEF RecordPid, Mutate, Written, Thrown
    <2> HIDE DEF session
    <2> QED BY <1>2, <1>3, <2>1, <2>2
<1>12. CASE HandleStartThrow(r)
    <2> DEFINE session == [store.session EXCEPT !.state = "failed"]
    <2>1. Patched(store.session, session)
        BY <1>1, PatchesMake
    <2>2. Present(store)
        BY <1>12, PcNames DEF HandleStartThrow, Coherent, TurnOk
    <2>3. store' = store \/ store' = Upsert(store, session)
        BY <1>12, <2>2 DEF HandleStartThrow, Mutate, Written, Thrown, NoMutation
    <2> HIDE DEF session
    <2> QED BY <1>2, <1>3, <2>1, <2>3
<1>13. ASSUME Finalize(r) \/ RecordThrow(r) PROVE Patches(store, store') \/ Settles(store, store')
    <2>1. req[r].pc \in BodySteps \ {"body", "provision", "epilogue"}
        BY <1>13, PcNames DEF Finalize, RecordThrow
    <2>2. PICK kind \in {"success", "error"}, result \in {"idle", "failed"},
               next \in {"outer", "epilogue"} : PersistFinal(r, kind, result, next)
        BY <1>13, InvTypes DEF Inv, Finalize, RecordThrow, AfterThrow, RequestStates
    <2> QED BY <1>2, <2>1, <2>2, FinalEffect
<1>14. CASE LinkTurn(r)
    BY <1>2, <1>14, LinkEffect
<1>15. CASE ReleaseTurn(r)
    <2> DEFINE session == SettledByThrow(store.session, r)
    <2>1. Patched(store.session, session)
        BY <1>1, PatchesMake
    <2>2. \/ store' = store
          \/ /\ Keyed(r) /\ CanSettleBehindFence(store, KeyOf[r], PrintOf[r])
             /\ store' = Settled(store, KeyOf[r], "error", session)
        BY <1>15 DEF ReleaseTurn, Mutate, Written, Thrown, NoMutation, ReceiptState
    <2> HIDE DEF session
    <2>3. Keyed(r) /\ CanSettleBehindFence(store, KeyOf[r], PrintOf[r])
          => KeyOf[r] \in KeysIn(store, "running")
        BY KeyOfType DEF CanSettleBehindFence, HoldsRunning, KeysIn
    <2> QED BY <1>1, <1>2, <2>1, <2>2, <2>3, WriteKinds
<1> QED BY <1>4, <1>5, <1>6, <1>7, <1>8, <1>9, <1>10, <1>11, <1>12, <1>13, <1>14, <1>15 DEF TurnStep

\* A write that only patches, settles or claims brings no id on record.
LEMMA IdsStay ==
    ASSUME store \in StoredStates,
           \/ Patches(store, store') \/ Settles(store, store')
           \/ \E k \in Keys : \E print : Claiming(store, store', k, print)
    PROVE  /\ store'.session.turn.id = store.session.turn.id
           /\ \A k \in Keys : store'.receipts[k].turnId \in {store.receipts[k].turnId, None}
<1>1. CASE Patches(store, store') \/ Settles(store, store')
    BY <1>1 DEF Patches, Settles, Patched
<1>2. ASSUME NEW k \in Keys, NEW print, Claiming(store, store', k, print),
             NEW j \in Keys
      PROVE  store'.receipts[j].turnId \in {store.receipts[j].turnId, None}
    <2>1. store'.receipts[k] = [state |-> "running", print |-> print, turnId |-> None,
                                outcome |-> NoOutcome]
        BY <1>2 DEF Claiming, FreeReceipt
    <2>2. j # k => \/ store'.receipts[j] = store.receipts[j]
                   \/ store'.receipts[j] = [store.receipts[j] EXCEPT !.state = "tombstone",
                                                                    !.outcome = NoOutcome]
        BY <1>2 DEF Claiming
    <2>3. store'.receipts[k].turnId = None
        BY <2>1
    <2>4. store.receipts[j] \in Receipts
        BY DEF StoredStates
    <2>5. [store.receipts[j] EXCEPT !.state = "tombstone", !.outcome = NoOutcome].turnId
          = store.receipts[j].turnId
        BY <2>4 DEF Receipts
    <2> QED BY <2>2, <2>3, <2>5
<1>3. \A k \in Keys : \A print : Claiming(store, store', k, print) => store'.session = store.session
    BY DEF Claiming
<1> QED BY <1>1, <1>2, <1>3

\* What is left to show of a step that leaves the records of the held id alone,
LEMMA FreshKeeps ==
    ASSUME Fresh, mem'.turnId = mem.turnId, Mutable(store') => Mutable(store),
           store'.session.turn.id = store.session.turn.id,
           store'.session.turn.state = store.session.turn.state,
           store'.receipts = store.receipts,
           (\A q \in Requests : ~Publishing(q)') => \A q \in Requests : ~Publishing(q)
    PROVE  Fresh'
BY DEF Fresh

\* and of one taken where no turn publishes.
LEMMA FreshRests ==
    ASSUME Fresh, None \notin Requests, mem'.turnId = mem.turnId, Mutable(store') => Mutable(store),
           store'.session.turn.id \in {store.session.turn.id, None},
           \A k \in Keys : store'.receipts[k].turnId \in {store.receipts[k].turnId, None},
           \A q \in Requests : ~Publishing(q)
    PROVE  Fresh'
BY DEF Fresh

\* An id that is drawn now is on no record.
LEMMA FreshDraws ==
    ASSUME Inv, Coherent, Fresh, NEW r \in Requests, StartTurnOutput(r)
    PROVE  Fresh'
<1>1. BodyStep(r) /\ req[r].pc = "link" /\ req[r].pc \in BodySteps
    BY DispatchSteps DEF Inv, BodyStep, StartTurnOutput
<1>2. mem \in Memory /\ TypeInv /\ TurnOk(r) /\ req[r] \in RequestStates
    BY <1>1, TurnTypes
<1>3. store' = store /\ req'[r].pc \in {"failing", "linkWrite"}
    <2>1. \/ Goto(r, "failing")
          \/ \E session : req' = [req EXCEPT ![r].pc = "linkWrite", ![r].seen = session]
        BY DEF StartTurnOutput
    <2>2. req'[r].pc \in {"failing", "linkWrite"}
        BY <1>2, <2>1, RetriedKept
    <2> QED BY <2>2 DEF StartTurnOutput, NoMutation
<1>4. Publishing(r)'
    BY <1>3 DEF Publishing
<1>5. CASE mem'.turnId = mem.turnId
    BY <1>3, <1>4, <1>5, FreshKeeps
<1>6. CASE mem'.turnId # mem.turnId
    <2>1. mem.turnId = None /\ mem'.turnId = r
        BY <1>2, <1>6 DEF StartTurnOutput, Memory
    <2>2. Undrawn(r)
        BY <1>1, <1>2, <2>1 DEF TurnOk, Unborn, Publishing
    <2> QED BY <1>3, <1>4, <2>1, <2>2 DEF Fresh, Undrawn
<1> QED BY <1>5, <1>6

LEMMA OnePublishes ==
    ASSUME Inv, NEW r \in Requests, req[r].pc \in AdmissionSteps \cup BodySteps, ~Publishing(r)
    PROVE  \A q \in Requests : ~Publishing(q)
<1>1. None \notin Requests
    BY InvTypes DEF Inv
<1>2. ASSUME NEW q \in Requests, Publishing(q) PROVE q = r
    <2>1. req[q].pc \in BodySteps
        BY <1>2, PcNames DEF Publishing
    <2>2. req[r].pc \in {"fence", "enter"} \cup {"claim"} \cup BodySteps
        BY PcNames
    <2> QED BY <1>1, <2>1, <2>2 DEF Inv, LockInv
<1> QED BY <1>2

\* The record of a turn drops its id, unless a fence keeps it from being written.
LEMMA FreshFinal ==
    ASSUME Inv, ReceiptInv, Coherent, Valid(store), Fresh, faults' = faults,
           NEW r \in Requests, Finalize(r) \/ RecordThrow(r)
    PROVE  Fresh'
<1>1. /\ req[r].pc \in BodySteps \ {"body", "provision", "epilogue"}
      /\ req[r].pc \in Unfinished /\ req[r].pc \in BodySteps
      /\ Finalize(r) => req[r].pc = "final"
    BY PcNames DEF Finalize, RecordThrow, Unfinished
<1>2. /\ TypeInv /\ mem \in Memory /\ TurnOk(r) /\ Present(store) /\ None \notin Requests
      /\ (Keyed(r) => KeyOf[r] \in Keys)
      /\ faults \in Nat /\ req[r].result \in {"idle", "failed"}
    BY <1>1, TurnTypes, InTurn, RunAssumption DEF TurnOk, TypeInv, TypeOK, RequestStates
<1>3. Keyed(r) => HoldsRunning(store, KeyOf[r], PrintOf[r])
    <2>1. Keyed(r) => store.receipts[KeyOf[r]].state = "running"
        BY <1>1 DEF ReceiptInv
    <2> QED BY <1>2, <2>1 DEF TurnOk, HoldsRunning, KeysIn
<1>4. PICK kind \in {"success", "error"}, result \in {"idle", "failed"}, next \in {"outer", "epilogue"} :
         /\ PersistFinal(r, kind, result, next)
         /\ kind = "success" => Finalize(r)
    BY <1>2 DEF Finalize, RecordThrow, AfterThrow
<1>5. Keyed(r) /\ kind = "success" => store.receipts[KeyOf[r]].turnId # None
    BY <1>1, <1>2, <1>4 DEF TurnOk
<1>6. \/ mem' = TurnRecorded
      \/ faults' = faults + 1
      \/ store' = store /\ ~Mutable(store)
    BY <1>1, <1>2, <1>3, <1>4, <1>5, FinalAccepted
<1>7. CASE mem' = TurnRecorded
    BY <1>2, <1>7 DEF TurnRecorded, Memory, Fresh
<1> QED BY <1>2, <1>6, <1>7 DEF Fresh

\* A turn keeps the held id fresh, when only its own manager fences the session.
LEMMA FreshTurns ==
    ASSUME Inv, ReceiptInv, Coherent, Valid(store), Fresh, faults' = faults,
           store' \in StoredStates, store.active.purpose # "external", NEW r \in Requests,
           Admission(r) \/ TurnStep(r) \/ Exit(r) \/ \E e \in 0..MaxEpoch : Call(r, e)
    PROVE  Fresh'
<1>1. /\ store \in StoredStates /\ TypeInv /\ mem \in Memory /\ None \notin Requests
      /\ store.session \in Sessions
      /\ (\A q \in Requests : req[q].pc \in RequestSteps)
    BY InvTypes DEF Inv, RequestStates
<1>2. Mutable(store') => Mutable(store)
    <2>1. CASE SameFences(store, store')
        BY <2>1 DEF SameFences, Mutable
    <2>2. CASE EnterTurn(r)
        <3>1. store' = store \/ CanEnter(store, req[r].epoch)
            BY <2>2 DEF EnterTurn, Mutate, Written, Thrown
        <3>2. store.active.purpose \in {"none", "external", "purge"}
            BY <1>1 DEF StoredStates, Reservations
        <3> QED BY <3>1, <3>2 DEF CanEnter, Mutable
    <2> QED BY <1>1, <2>1, <2>2, TurnPurposes
<1>3. CASE Admission(r) \/ Wake(r) \/ Exit(r) \/ \E e \in 0..MaxEpoch : Call(r, e)
    <2>1. store' = store
        BY <1>3 DEF Admission, AdmitAnswered, Admit, Wake, Exit, Call, NoMutation
    <2>2. mem'.turnId = mem.turnId
        BY <1>1, <1>3 DEF Admission, AdmitAnswered, Admit, Wake, Exit, Call, Lock, Memory
    <2>3. (\A q \in Requests : ~Publishing(q)') => \A q \in Requests : ~Publishing(q)
        <3>1. CASE Exit(r)
            BY <3>1 DEF Exit, Publishing
        <3>2. CASE Admission(r) \/ Wake(r) \/ \E e \in 0..MaxEpoch : Call(r, e)
            <4>1. \A q \in Requests \ {r} : req'[q] = req[q]
                BY <3>2, AdmitRecords DEF Others
            <4>2. req[r].pc \in {"new", "queued", "waiting"}
                BY <3>2 DEF Admission, AdmitAnswered, Admit, Wake, Call
            <4> QED BY <4>1, <4>2 DEF Publishing
        <3> QED BY <1>3, <3>1, <3>2
    <2> QED BY <2>1, <2>2, <2>3, FreshKeeps
<1>4. CASE ReleaseRecoveryFence(r) \/ EnterTurn(r) \/ ClaimKey(r) \/ ReleaseTurn(r)
           \/ Begin(r) \/ RefreshProvider(r) \/ Provision(r) \/ PrepareRuntime(r) \/ HandleStartThrow(r)
    <2>1. /\ req[r].pc \in AdmissionSteps \cup BodySteps /\ ~Publishing(r)
          /\ ~LinkTurn(r) /\ (ClaimKey(r) => KeyOf[r] \in Keys)
        BY <1>1, <1>4, PcNames, KeyOfType DEF ReleaseRecoveryFence, EnterTurn, ClaimKey, ReleaseTurn,
           Begin, RefreshProvider, Provision, PrepareRuntime, HandleStartThrow, Publishing, LinkTurn,
           TypeInv, KeysHeld
    <2>2. \A q \in Requests : ~Publishing(q)
        BY <2>1, OnePublishes
    <2>3. mem'.turnId = mem.turnId
        <3>1. \/ mem' = mem \/ mem' = Unlocked \/ mem' = [Unlocked EXCEPT !.keyed = r]
              \/ mem' = [Unlocked EXCEPT !.active = None]
              \/ mem' = [mem EXCEPT !.active = None, !.keyed = None]
              \/ mem' = [mem EXCEPT !.active = r, !.stop = FALSE,
                                    !.lock = IF Keyed(r) THEN @ ELSE "free"]
            BY <1>4 DEF ReleaseRecoveryFence, EnterTurn, ClaimKey, ReleaseTurn, Begin, RefreshProvider,
               Provision, PrepareRuntime, HandleStartThrow, Mutate
        <3> QED BY <1>1, <3>1 DEF Unlocked, Memory
    <2>4. \/ Patches(store, store') \/ Settles(store, store')
          \/ \E k \in Keys : \E print : Claiming(store, store', k, print)
        BY <1>4, <2>1, TurnWrites DEF TurnStep
    <2> QED BY <1>1, <1>2, <2>2, <2>3, <2>4, IdsStay, FreshRests
<1>5. CASE StartTurnOutput(r)
    BY <1>5, FreshDraws
<1>6. CASE Finalize(r) \/ RecordThrow(r)
    BY <1>6, FreshFinal
<1>7. CASE Spawn(r) \/ RecordPid(r) \/ ReadExit(r)
    <2>1. /\ mem'.turnId = mem.turnId
        BY <1>1, <1>7 DEF Spawn, RecordPid, ReadExit, Memory
    <2>2. Publishing(r)'
        <3>1. CASE Spawn(r) \/ RecordPid(r)
            <4>1. Goto(r, "failing") \/ Goto(r, "pid") \/ Goto(r, "run")
                BY <3>1 DEF Spawn, RecordPid, Mutate
            <4> QED BY <1>1, <4>1, BodyGoto DEF Publishing
        <3>2. CASE ReadExit(r)
            BY <1>1, <3>2, BodyGoto, InvTypes DEF ReadExit, Publishing, RequestStates
        <3> QED BY <1>7, <3>1, <3>2
    <2>3. /\ store'.session.turn.id = store.session.turn.id
          /\ store'.session.turn.state = store.session.turn.state
          /\ store'.receipts = store.receipts
        <3> DEFINE session == [store.session EXCEPT !.turn.pid = r]
        <3>1. session.turn.id = store.session.turn.id /\ session.turn.state = store.session.turn.state
            BY <1>1 DEF Sessions, Turns
        <3>2. store' = store \/ store' = Upsert(store, session)
            BY <1>7 DEF Spawn, RecordPid, ReadExit, NoMutation, Mutate, Written, Thrown
        <3> HIDE DEF session
        <3> QED BY <1>1, <3>1, <3>2 DEF Upsert, StoredStates
    <2> QED BY <1>2, <2>1, <2>2, <2>3, FreshKeeps
<1>8. CASE LinkTurn(r)
    <2>1. /\ UNCHANGED mem /\ mem.turnId \in Requests
          /\ \/ store' = store /\ Goto(r, "failing")
             \/ Published(r) /\ Goto(r, "spawn")
        BY <1>8, LinkEffect
    <2>2. Publishing(r)'
        BY <1>1, <2>1, BodyGoto DEF Publishing
    <2>3. CASE store' = store
        BY <1>2, <2>1, <2>2, <2>3, FreshKeeps
    <2>4. CASE Published(r)
        <3>1. req[r].pc \in BodySteps /\ req[r].pc = "linkWrite" /\ req[r].pc \in Unfinished
            BY <1>8, PcNames DEF LinkTurn, Unfinished
        <3>2. /\ store'.session.turn.state = "running"
              /\ \A k \in Keys : store'.receipts[k].turnId = mem.turnId
                                 => store'.receipts[k].state = "running" \/ ~Mutable(store')
            <4>1. ASSUME Keyed(r)
                  PROVE  /\ \A k \in Keys \ {KeyOf[r]} : store'.receipts[k] = store.receipts[k]
                         /\ store'.receipts[KeyOf[r]].state = "running"
                <5>1. store.receipts[KeyOf[r]].state = "running" /\ KeyOf[r] \in Keys
                    BY <3>1, <4>1, KeyOfType DEF ReceiptInv
                <5> QED BY <2>4, <4>1, <5>1 DEF Published, Publishes
            <4>2. ~Keyed(r) => store'.receipts = store.receipts
                BY <2>4 DEF Published
            <4> QED BY <1>1, <1>2, <2>1, <2>4, <4>1, <4>2 DEF Published, Fresh
        <3> QED BY <2>1, <2>2, <3>2 DEF Fresh
    <2> QED BY <2>1, <2>3, <2>4
<1> QED BY <1>3, <1>4, <1>5, <1>6, <1>7, <1>8 DEF TurnStep

LEMMA VerbFences ==
    ASSUME store \in StoredStates, VerbWrite
    PROVE  SameFences(store, store')
<1>1. \/ store' = store \/ (\E session : store' = Upsert(store, session)) \/ store' = Remove(store)
      \/ \E k, session : store' = Settled(store, k, "error", session)
    BY DEF VerbWrite, StopWrite, RecordClosed, PurgeRemove, Resume, Suspend, Mutate, Written, Thrown,
       NoMutation
<1> QED BY <1>1, FencesSame

\* Who lifts a quiescence fence under the lock.
LEMMA VerbFrees ==
    ASSUME store \in StoredStates, OpBegin \/ OpStep, ~VerbWrite, ~FocusWrite,
           ~Mutable(store), Mutable(store')
    PROVE  \/ PurgeUnfence \/ (\E e \in 1..MaxEpoch : ReleaseFence(e))
           \/ \E verb \in {"purge", "gc"} : PurgeAgain(verb)
<1>1. CASE \/ StopBegin \/ GcList \/ GcVisit \/ FocusRead \/ StopResolveFence \/ DrainTimesOut
           \/ StopDrained \/ CloseDrained \/ ProveClosed
           \/ \E verb \in {"purge", "gc"} : PurgeUnknown(verb)
    BY <1>1 DEF StopBegin, GcList, GcVisit, FocusRead, StopResolveFence, DrainTimesOut, StopDrained,
       CloseDrained, ProveClosed, PurgeUnknown, NoMutation
<1>2. \A purpose \in {"external", "purge"} : ~Mutable(Reserve(store, purpose))
    BY DEF Reserve, Mutable, StoredStates, Reservations
<1>3. CASE QuiesceBegin \/ \E verb \in {"purge", "gc"} : PurgeBegin(verb)
    BY <1>2, <1>3 DEF QuiesceBegin, PurgeBegin, Mutate, Written, Thrown
<1>4. CASE OtherNameQuiesces
    BY <1>4 DEF OtherNameQuiesces, AllocateElsewhere, StoredStates, Mutable
<1> QED BY <1>1, <1>3, <1>4 DEF OpBegin, OpStep, VerbWrite

\* No focus and no quiesce, and the fence of a purge is lifted by the purge alone.
Ordinary ==
    /\ Verbs \cap {"focus", "quiesce"} = {}
    /\ "release" \in Verbs => Verbs \cap {"purge", "gc"} = {}

LEMMA FreshVerbs ==
    ASSUME Ordinary, Inv, Ground, CalledInv, Coherent, Fresh, store' \in StoredStates,
           OpBegin \/ OpStep
    PROVE  Fresh'
<1>1. /\ store \in StoredStates /\ mem \in Memory /\ op \in Operations /\ None \notin Requests
    BY InvTypes DEF Inv
<1>2. /\ \A q \in Requests : Publishing(q)' <=> Publishing(q)
      /\ mem'.turnId = mem.turnId
    BY <1>1, VerbMaps, VerbIds DEF Publishing
<1>3. CASE VerbWrite
    <2>1. \A q \in Requests : ~Publishing(q)
        <3>1. \A q \in Requests : req[q].pc \notin AdmissionSteps \cup BodySteps
            BY <1>3, VerbRests
        <3> QED BY <3>1, PcNames DEF Publishing
    <2>2. Mutable(store') => Mutable(store)
        BY <1>1, <1>3, VerbFences DEF SameFences, Mutable
    <2>3. CASE Patches(store, store') \/ Settles(store, store')
        BY <1>1, <1>2, <2>1, <2>2, <2>3, IdsStay, FreshRests
    <2>4. CASE store' = Remove(store)
        <3>1. /\ store'.session.turn.id = None
              /\ \A k \in Keys : store'.receipts[k].turnId = None
            BY <1>1, <2>4 DEF Remove, StoredStates, NoSession, NoTurn, FreeReceipt
        <3> QED BY <1>1, <1>2, <2>1, <2>2, <3>1, FreshRests
    <2> QED BY <1>3, <2>3, <2>4, VerbEffect
<1>4. CASE ~VerbWrite
    <2>1. ~FocusWrite
        BY <1>1 DEF FocusWrite, Ground, VerbInv, CalledInv, Ordinary
    <2>2. store'.session = store.session /\ store'.receipts = store.receipts
        BY <1>1, <1>4, <2>1, VerbKeeps DEF VerbWrite
    <2>3. CASE Mutable(store') => Mutable(store)
        BY <1>2, <2>2, <2>3, FreshKeeps
    <2>4. CASE Mutable(store') /\ ~Mutable(store)
        <3>1. \/ PurgeUnfence \/ (\E e \in 1..MaxEpoch : ReleaseFence(e))
              \/ \E verb \in {"purge", "gc"} : PurgeAgain(verb)
            BY <1>1, <1>4, <2>1, <2>4, VerbFrees
        <3>2. ~\E e \in 1..MaxEpoch : ReleaseFence(e)
            <4>1. store.active.purpose \in {"none", "external", "purge"}
                BY <1>1 DEF StoredStates, Reservations
            <4> QED BY <2>4, <4>1 DEF ReleaseFence, CalledInv, Ordinary, Mutable
        <3>3. ~Present(store)
            BY <3>1, <3>2 DEF PurgeUnfence, PurgeAgain, Coherent
        <3>4. store.session.turn.id = None /\ \A k \in Keys : store.receipts[k].turnId = None
            BY <3>3 DEF Coherent, StoreInv, RecordInv
        <3> QED BY <2>2, <3>4 DEF Fresh
    <2> QED BY <2>3, <2>4
<1> QED BY <1>3, <1>4

LEMMA FreshStays ==
    ASSUME Ordinary, Inv, Ground, ReceiptInv, CalledInv, Coherent, Fresh, [Next]_vars, faults' = faults
    PROVE  Fresh'
<1>1. store' \in StoredStates /\ Valid(store)
    BY NextType DEF Inv, TypeInv, TypeOK, Ground, FenceInv
<1>2. store.active.purpose # "external"
    BY DEF CalledInv, Ordinary
<1>3. CASE UNCHANGED vars
    BY <1>3 DEF vars, Fresh, Publishing
<1>4. ASSUME NEW r \in Requests,
             Admission(r) \/ TurnStep(r) \/ Exit(r) \/ \E e \in 0..MaxEpoch : Call(r, e)
      PROVE  Fresh'
    BY <1>1, <1>2, <1>4, FreshTurns
<1>5. CASE OpBegin \/ OpStep
    BY <1>1, <1>5, FreshVerbs
<1>6. CASE Crash \/ Restart
    <2>1. mem' = NoMemory
        BY <1>6 DEF Crash, Restart, Ground, DownInv
    <2> QED BY <2>1 DEF NoMemory, Fresh
<1> QED BY <1>3, <1>4, <1>5, <1>6 DEF Next

\* A failed write is never forgotten.
LEMMA NoFaultYet ==
    ASSUME TypeInv, [Next]_vars, faults' = 0
    PROVE  faults = 0 /\ faults' = faults
<1>1. faults \in Nat /\ faults' \in {faults, faults + 1}
    BY FaultsStay
<1> QED BY <1>1

LEMMA FreshCorrect ==
    ASSUME Ordinary
    PROVE  Spec => [](faults = 0 => Fresh)
<1>1. "focus" \notin Verbs
    BY DEF Ordinary
<1>2. Init => Fresh
    BY DEF Init, NoMemory, Fresh
<1>3. Inv /\ Quiet /\ ReceiptInv /\ CalledInv /\ Coherent /\ (faults = 0 => Fresh) /\ [Next]_vars
      => (faults = 0 => Fresh)'
    BY FreshStays, NoFaultYet DEF Inv, Quiet
<1>4. Spec => []Coherent
    BY <1>1, CoherentCorrect
<1> QED BY <1>2, <1>3, <1>4, CalledCorrect, InvCorrect, QuietCorrect, ReceiptsCorrect, PTL DEF Spec

-----------------------------------------------------------------------------
(* A running receipt is tended by the execution of its key, until a crash. *)

LEMMA ReleaseEnds ==
    ASSUME Inv, Coherent, Valid(store), NEW r \in Requests, ReleaseTurn(r), faults' = faults
    PROVE  ~Running(store')
<1>1. req[r].pc = "epilogue" /\ req[r].pc \in BodySteps
    BY PcNames DEF ReleaseTurn
<1> DEFINE session == SettledByThrow(store.session, r)
           settled == Settled(store, KeyOf[r], "error", session)
<1>0. faults \in Nat
    BY RunAssumption DEF Inv, TypeInv, TypeOK
<1>2. /\ store \in StoredStates /\ store.session \in Sessions /\ TurnOk(r)
      /\ session \in Sessions /\ Patched(store.session, session)
    BY <1>1, TurnTypes, PatchTypes, PatchesMake
<1>3. CASE ~Keyed(r) \/ store.receipts[KeyOf[r]].state # "running"
    <2>1. ReceiptState(r) # "running"
        BY <1>3 DEF ReceiptState
    <2>2. store' = store
        BY <2>1 DEF ReleaseTurn, NoMutation
    <2>3. ~Running(store)
        BY <1>2, <1>3 DEF TurnOk, Running, KeysIn
    <2> QED BY <2>2, <2>3
<1>4. CASE Keyed(r) /\ store.receipts[KeyOf[r]].state = "running"
    <2>1. KeyOf[r] \in KeysIn(store, "running") /\ KeyOf[r] \in Keys
        BY <1>4, KeyOfType DEF KeysIn
    <2>2. CanSettleBehindFence(store, KeyOf[r], PrintOf[r])
        BY <1>2, <1>4, <2>1 DEF TurnOk, CanSettleBehindFence, HoldsRunning
    <2>3. ASSUME store.receipts[KeyOf[r]].turnId # None
          PROVE  session.state # "running" /\ session.turn.state \in TerminalTurnStates
        <3>1. store.session.state = "running" /\ store.receipts[KeyOf[r]].print = PrintOf[r]
            BY <1>2, <1>4, <2>1, <2>3 DEF TurnOk
        <3>2. /\ store.session.turn.state = "running" /\ store.session.turn.key = KeyOf[r]
              /\ store.session.turn.print = PrintOf[r]
            BY <1>4, <2>1, <2>3, <3>1 DEF Valid, LinkedReceiptHasTurn
        <3> QED BY <1>2, <3>1, <3>2 DEF SettledByThrow, TerminalTurnStates, Sessions, Turns
    <2>4. \/ Written(CanSettleBehindFence(store, KeyOf[r], PrintOf[r]), settled)
          \/ Thrown(CanSettleBehindFence(store, KeyOf[r], PrintOf[r]), settled)
        BY <1>4 DEF ReleaseTurn, Mutate, ReceiptState
    <2> HIDE DEF session
    <2>5. Valid(settled)
        BY <1>1, <1>2, <1>4, <2>1, <2>3, EndValid
    <2>6. store' = settled
        BY <1>0, <2>2, <2>4, <2>5 DEF Written, Thrown
    <2>7. Settles(store, store')
        BY <1>2, <2>1, <2>6, WriteKinds
    <2>8. \A j, k \in KeysIn(store, "running") : j = k
        BY DEF Valid
    <2> HIDE DEF settled
    <2> QED BY <2>7, <2>8 DEF Settles, Running, KeysIn
<1> QED BY <1>3, <1>4

Tended == crashes = 0 /\ Running(store) => mem.keyed # None

LEMMA RunningStays ==
    ASSUME StatesKept(store, store') \/ SettlesOne(store, store'), Running(store')
    PROVE  Running(store)
BY DEF StatesKept, SettlesOne, Running, KeysIn

LEMMA TendedStays ==
    ASSUME Inv, Ground, ReceiptInv, Coherent, Coherent', Tended, [Next]_vars, faults' = faults
    PROVE  Tended'
<1>1. /\ store \in StoredStates /\ mem \in Memory /\ TypeInv /\ None \notin Requests /\ Valid(store)
      /\ crashes \in Nat
    BY InvTypes, RunAssumption DEF Inv, Ground, FenceInv, TypeInv, TypeOK
<1>2. CASE UNCHANGED vars
    BY <1>2 DEF vars, Tended
<1>3. ASSUME NEW r \in Requests, BodyStep(r) PROVE Tended'
    <2>1. TurnOk(r)' /\ (Keyed(r) => mem'.keyed = r)
        BY <1>3 DEF BodyStep, Coherent
    <2> QED BY <1>1, <2>1 DEF TurnOk, Tended
<1>4. ASSUME NEW r \in Requests,
             Admission(r) \/ Wake(r) \/ Exit(r) \/ \E e \in 0..MaxEpoch : Call(r, e)
      PROVE  Tended'
    <2>1. store' = store /\ crashes' = crashes
        BY <1>4 DEF Admission, AdmitAnswered, Admit, Wake, Exit, Call, NoMutation
    <2>2. mem'.keyed = mem.keyed
        BY <1>1, <1>4 DEF Admission, AdmitAnswered, Admit, Wake, Exit, Call, Lock, Memory
    <2> QED BY <2>1, <2>2 DEF Tended
<1>5. ASSUME NEW r \in Requests, ReleaseRecoveryFence(r) \/ EnterTurn(r) PROVE Tended'
    <2>1. ~Running(store)
        BY <1>5, PcNames DEF ReleaseRecoveryFence, EnterTurn, Coherent
    <2>2. StatesKept(store, store')
        BY <1>5, AdmitRecords
    <2> QED BY <2>1, <2>2, RunningStays DEF Tended
<1>6. ASSUME NEW r \in Requests, ClaimKey(r) PROVE Tended'
    <2>1. ~Running(store)
        BY <1>6, PcNames DEF ClaimKey, Coherent
    <2>2. store' = store \/ mem'.keyed = r
        BY <1>1, <1>6 DEF ClaimKey, Mutate, Thrown, Unlocked, Memory
    <2> QED BY <1>1, <2>1, <2>2 DEF Tended
<1>7. ASSUME NEW r \in Requests, ReleaseTurn(r) PROVE Tended'
    BY <1>1, <1>7, ReleaseEnds DEF Tended
<1>8. CASE OpBegin \/ OpStep
    <2>1. crashes' = crashes
        BY <1>8 DEF OpBegin, OpStep, StopBegin, QuiesceBegin, PurgeAgain, PurgeUnknown, PurgeBegin,
           GcList, GcVisit, ReleaseFence, Resume, Suspend, FocusRead, OtherNameQuiesces,
           StopResolveFence, DrainTimesOut, StopDrained, StopWrite, CloseDrained, ProveClosed,
           RecordClosed, PurgeRemove, PurgeUnfence, FocusWrite
    <2>2. mem'.keyed = mem.keyed
        BY <1>1, <1>8, VerbIds
    <2>3. Running(store') => Running(store)
        <3>1. CASE store' = Remove(store)
            BY <1>1, <3>1 DEF Remove, StoredStates, Running, KeysIn, FreeReceipt
        <3> QED BY <1>8, <3>1, OpRecords, RunningStays DEF VerbRecords
    <2> QED BY <2>1, <2>2, <2>3 DEF Tended
<1>9. CASE Crash
    <2>1. crashes' = crashes + 1
        BY <1>9 DEF Crash
    <2> QED BY <1>1, <2>1 DEF Tended
<1>10. CASE Restart
    <2>1. crashes' = crashes /\ mem' = mem
        BY <1>10 DEF Restart
    <2>2. Running(store') => Running(store)
        BY <1>10, CrashRecords, RunningStays
    <2> QED BY <2>1, <2>2 DEF Tended
<1>11. ASSUME NEW r \in Requests, TurnStep(r) PROVE Tended'
    BY <1>1, <1>3, <1>4, <1>5, <1>6, <1>7, <1>11, DispatchSteps, FinishSteps DEF TurnStep
<1> QED BY <1>2, <1>4, <1>8, <1>9, <1>10, <1>11 DEF Next

LEMMA TendedCorrect ==
    ASSUME "focus" \notin Verbs
    PROVE  Spec => [](faults = 0 => Tended)
<1>1. Init => Tended
    BY DEF Init, Tended, freshState, Running, KeysIn, FreeReceipt
<1>2. /\ Inv /\ Quiet /\ ReceiptInv /\ Coherent /\ Coherent' /\ (faults = 0 => Tended) /\ [Next]_vars
      => (faults = 0 => Tended)'
    BY TendedStays, NoFaultYet DEF Inv, Quiet
<1>3. Spec => []Coherent
    BY CoherentCorrect
<1> QED BY <1>1, <1>2, <1>3, InvCorrect, QuietCorrect, ReceiptsCorrect, PTL DEF Spec

-----------------------------------------------------------------------------
(* The theorems. *)

\* Where a purge closes only what its own manager ran: no crash has left it a
\* receipt that runs, or nothing is purged.
OwnReceipts == crashes = 0 \/ Verbs \cap {"purge", "gc"} = {}

LEMMA AcceptedStays ==
    ASSUME Ordinary, Inv, Ground, CalledInv, Coherent, Fresh, Tended, OwnReceipts, [Next]_vars
    PROVE  refused' = refused
<1>1. op \in Operations /\ Valid(store) /\ mem.keyed \in Requests \cup {None} /\ None \notin Requests
    BY InvTypes DEF Inv, Ground, FenceInv
<1>2. CASE UNCHANGED vars
    BY <1>2 DEF vars
<1>3. ASSUME NEW r \in Requests,
             Admission(r) \/ TurnStep(r) \/ Exit(r) \/ \E e \in 0..MaxEpoch : Call(r, e)
      PROVE  refused' = refused
    BY <1>1, <1>3, TurnAccepted
<1>4. CASE OpBegin \/ OpStep
    <2>1. ~FocusWrite
        BY <1>1 DEF FocusWrite, Ground, VerbInv, CalledInv, Ordinary
    <2>2. ASSUME RecordClosed PROVE ~Running(store)
        <3>1. op.pc = "record"
            BY <2>2 DEF RecordClosed
        <3>2. op.verb \in {"purge", "gc"} /\ mem.active = None
            BY <3>1 DEF Ground, VerbInv, AfterProof, Closing, CalledInv, Ordinary, Inv, LockInv
        <3>3. crashes = 0
            BY <3>2 DEF OwnReceipts, CalledInv
        <3>4. mem.keyed = None
            BY <1>1, <3>2 DEF Coherent
        <3> QED BY <3>3, <3>4 DEF Tended
    <2> QED BY <1>4, <2>1, <2>2, VerbAccepted
<1>5. CASE Crash \/ Restart
    BY <1>5, CrashAccepted
<1> QED BY <1>2, <1>3, <1>4, <1>5 DEF Next

\* As long as no write has failed, the schema refuses no write of the manager,
\* whichever turn, verb or restart makes it and whatever ran in between: the
\* receipts it settles are those of turns that ended, the turn it publishes is not
\* one that ended, and the closing of a runtime finds no receipt running (every
\* caller of store.mutate in acpx.ts).
THEOREM WritesAccepted ==
    ASSUME Ordinary
    PROVE  Spec => [](faults = 0 /\ OwnReceipts => NothingRefused)
<1>1. "focus" \notin Verbs
    BY DEF Ordinary
<1>2. Init => NothingRefused
    BY DEF Init, NothingRefused
<1>3. ASSUME Inv, [Next]_vars, OwnReceipts' PROVE OwnReceipts
    <2>1. crashes \in Nat /\ crashes' \in {crashes, crashes + 1}
        BY <1>3, FaultsStay DEF Inv
    <2> QED BY <1>3, <2>1 DEF OwnReceipts
<1>4. /\ Inv /\ Quiet /\ CalledInv /\ Coherent /\ (faults = 0 => Fresh) /\ (faults = 0 => Tended)
      /\ (faults = 0 /\ OwnReceipts => NothingRefused) /\ [Next]_vars
      => (faults = 0 /\ OwnReceipts => NothingRefused)'
    BY <1>3, AcceptedStays, NoFaultYet DEF Inv, Quiet, NothingRefused
<1>5. /\ Spec => []Coherent
      /\ Spec => [](faults = 0 => Fresh)
      /\ Spec => [](faults = 0 => Tended)
    BY <1>1, CoherentCorrect, FreshCorrect, TendedCorrect
<1> QED BY <1>2, <1>4, <1>5, CalledCorrect, InvCorrect, QuietCorrect, PTL DEF Spec

\* The bounds of the runs: without failed writes no write is ever refused, if what a
\* purge closes was run by the same daemon.
THEOREM NothingIsRefused ==
    ASSUME Ordinary, MaxFaults = 0, MaxCrashes = 0 \/ Verbs \cap {"purge", "gc"} = {}
    PROVE  Spec => []NothingRefused
<1>1. Inv => faults = 0 /\ OwnReceipts
    BY RunAssumption DEF Inv, TypeInv, TypeOK, OwnReceipts
<1>2. Spec => [](faults = 0 /\ OwnReceipts => NothingRefused)
    BY WritesAccepted
<1> QED BY <1>1, <1>2, InvCorrect, PTL

\* What TerminalTurnStaysTerminal says of a step that stores something.
TerminalStays ==
    /\ store.session.turn.state \in TerminalTurnStates
    /\ store'.session.turn.id = store.session.turn.id
    => store'.session.turn.state \in TerminalTurnStates

\* A write that patches the session, drops its turn or keeps it ends a turn at most.
LEMMA PatchedEnds ==
    ASSUME NEW s \in StoredStates, StoreInv(s),
           \/ Patched(s.session, store'.session)
           \/ store'.session.turn.id = None
           \/ store'.session.turn = s.session.turn,
           store = s
    PROVE  TerminalStays
BY DEF TerminalStays, Patched, StoreInv, RecordInv, TerminalTurnStates

\* No step shows an ended turn running: the id a turn publishes is fresh.
LEMMA TerminalNext ==
    ASSUME Ordinary, Inv, Ground, CalledInv, Coherent, Fresh, [Next]_vars
    PROVE  TerminalStays
<1>1. /\ store \in StoredStates /\ StoreInv(store) /\ Valid(store) /\ op \in Operations
      /\ store' \in StoredStates
    BY InvTypes, NextType DEF Inv, Coherent, Ground, FenceInv, TypeInv, TypeOK
<1>2. CASE UNCHANGED vars \/ Crash
    BY <1>2 DEF vars, Crash, NoMutation, TerminalStays
<1>3. CASE Patches(store, store') \/ Settles(store, store')
    BY <1>1, <1>3, PatchedEnds DEF Patches, Settles
<1>4. CASE Restart
    <2>1. store' = store \/ store' = Reconciled(store)
        BY <1>4 DEF Restart, Mutate, Written, Thrown, NoMutation
    <2> QED BY <1>1, <1>3, <2>1, ReconciledValid DEF TerminalStays
<1>5. CASE OpBegin \/ OpStep
    <2>1. ~FocusWrite
        BY <1>1 DEF FocusWrite, Ground, VerbInv, CalledInv, Ordinary
    <2>2. CASE VerbWrite
        <3>1. Remove(store).session.turn.id = None
            BY <1>1 DEF Remove, StoredStates, NoSession, NoTurn
        <3> QED BY <1>1, <1>3, <2>2, <3>1, VerbEffect, PatchedEnds
    <2>3. CASE ~VerbWrite
        <3>1. store'.session = store.session
            BY <1>1, <1>5, <2>1, <2>3, VerbKeeps DEF VerbWrite
        <3> QED BY <3>1 DEF TerminalStays
    <2> QED BY <2>2, <2>3
<1>6. ASSUME NEW r \in Requests,
             Admission(r) \/ TurnStep(r) \/ Exit(r) \/ \E e \in 0..MaxEpoch : Call(r, e)
      PROVE  TerminalStays
    <2>1. ASSUME Claiming(store, store', KeyOf[r], PrintOf[r]) PROVE TerminalStays
        BY <2>1 DEF Claiming, TerminalStays
    <2>2. ASSUME LinkTurn(r), Published(r) PROVE TerminalStays
        <3>1. store' = store \/ Mutable(store)
            BY <2>2 DEF LinkTurn, Mutate, Written, Thrown, CanLink
        <3>2. mem.turnId \in Requests /\ None \notin Requests
            BY <1>1, <2>2, LinkEffect, NoneAssumption DEF Requests
        <3>3. CASE store' = store
            BY <3>3 DEF TerminalStays
        <3>4. CASE Mutable(store)
            <4>1. store.session.turn.id = mem.turnId => store.session.turn.state = "running"
                BY <3>2, <3>4 DEF Fresh
            <4> QED BY <2>2, <4>1 DEF Published, TerminalStays, TerminalTurnStates
        <3> QED BY <3>1, <3>3, <3>4
    <2> QED BY <1>1, <1>3, <1>6, <2>1, <2>2, TurnWrites
<1> QED BY <1>2, <1>4, <1>5, <1>6 DEF Next

\* Once the store shows a turn ended, no step makes that turn run again, as long as
\* no write has failed: the late publication of a turn that a stop, a purge or its
\* own end overtook draws an id of its own (startActiveTurnOutput,
\* persistFinalTurnSession, stop and the restart's reconciliation in acpx.ts).
THEOREM EndedTurnStaysEnded ==
    ASSUME Ordinary
    PROVE  Spec => [][faults = 0 => TerminalStays]_vars
<1>1. /\ Inv /\ Quiet /\ CalledInv /\ Coherent /\ (faults = 0 => Fresh) /\ [Next]_vars
      => [faults = 0 => TerminalStays]_vars
    BY TerminalNext DEF Quiet
<1>2. "focus" \notin Verbs
    BY DEF Ordinary
<1>3. /\ Spec => []Coherent
      /\ Spec => [](faults = 0 => Fresh)
    BY <1>2, CoherentCorrect, FreshCorrect
<1> QED BY <1>1, <1>3, CalledCorrect, InvCorrect, QuietCorrect, PTL DEF Spec

\* The bounds of the runs: without failed writes a turn that ended stays ended.
THEOREM TerminalTurnCorrect ==
    ASSUME Ordinary, MaxFaults = 0
    PROVE  Spec => TerminalTurnStaysTerminal
<1>1. Inv => faults = 0
    BY RunAssumption DEF Inv, TypeInv, TypeOK
<1>2. [faults = 0 => TerminalStays]_vars /\ faults = 0 =>
          [store.session.turn.state \in TerminalTurnStates
           /\ store'.session.turn.id = store.session.turn.id
           => store'.session.turn.state \in TerminalTurnStates]_vars
    BY DEF TerminalStays
<1>3. Spec => [][faults = 0 => TerminalStays]_vars
    BY EndedTurnStaysEnded
<1> QED BY <1>1, <1>2, <1>3, InvCorrect, PTL DEF TerminalTurnStaysTerminal

-----------------------------------------------------------------------------
(* Without turn keys, no write is refused whatever fails, crashes or is        *)
(* written back late.                                                          *)

\* No receipt is in use, and no reading of the session shows a keyed turn.
Keyless ==
    /\ \A k \in Keys : store.receipts[k].state = "free"
    /\ store.session.turn.key = None /\ op.seen.turn.key = None
    /\ \A r \in Requests : req[r].seen.turn.key = None

\* What a step leaves of it, whoever takes it.
KeylessStep ==
    /\ refused' = refused
    /\ \A k \in Keys : store'.receipts[k].state = "free"
    /\ store'.session.turn.key = None

\* The readings a step takes.
SeenKept == \A r \in Requests : req'[r].seen.turn.key \in {req[r].seen.turn.key, None}

\* A session without a keyed turn may be written at any time.
LEMMA KeylessWrite ==
    ASSUME store \in StoredStates, Valid(store), Keyless, NEW allowed, NEW session,
           session.turn.key = None,
           \/ Written(allowed, Upsert(store, session)) \/ Thrown(allowed, Upsert(store, session))
           \/ Written(allowed, store) \/ Thrown(allowed, store)
    PROVE  KeylessStep
<1> DEFINE t == Upsert(store, session)
<1>1. t.receipts = store.receipts /\ t.session = session
    BY DEF Upsert, StoredStates
<1>2. ~Running(store)
    BY DEF Keyless, Running, KeysIn
<1>3. Valid(t)
    BY <1>2, UnkeyedValid DEF Keyless
<1>4. store' \in {store, t} /\ refused' = refused
    BY <1>3 DEF Written, Thrown
<1> HIDE DEF t
<1> QED BY <1>1, <1>4 DEF Keyless, KeylessStep

\* A fence may be moved at any time.
LEMMA KeylessFence ==
    ASSUME store \in StoredStates, Valid(store), Keyless, NEW allowed, NEW t, Valid(t),
           t.session = store.session, t.receipts = store.receipts,
           Written(allowed, t) \/ Thrown(allowed, t)
    PROVE  KeylessStep
<1>1. store' \in {store, t} /\ refused' = refused
    BY DEF Written, Thrown
<1> QED BY <1>1 DEF Keyless, KeylessStep

\* The sessions the manager builds show the turn they were built on.
LEMMA KeysShown ==
    ASSUME NEW session \in Sessions, session.turn.key = None
    PROVE  /\ FenceReleased(session).turn.key = None
           /\ SessionFailed(session).turn.key = None
           /\ StoppedSession(session).turn.key = None
           /\ QuiescedSession(session).turn.key = None
           /\ InterruptedSession(session).turn.key = None
           /\ OrphanedSession(session).turn.key = None
           /\ FencedSession(session).turn.key = None
           /\ \A state : [session EXCEPT !.state = state].turn.key = None
           /\ \A pid : [session EXCEPT !.turn.pid = pid].turn.key = None
           /\ \A result : FinalSession(session, result).turn.key = None
           /\ mem.keyed = None => \A r, id : WithRunningTurn(session, r, id).turn.key = None
<1>1. session.turn \in Turns
    BY DEF Sessions
<1>2. FenceReleased(session).turn.key = None
    BY <1>1 DEF FenceReleased, Sessions, Turns
<1>3. StoppedSession(session).turn.key = None
    BY <1>1 DEF StoppedSession, Sessions, Turns
<1>4. QuiescedSession(session).turn.key = None
    BY <1>1 DEF QuiescedSession, Sessions, Turns
<1>5. SessionFailed(session).turn.key = None /\ InterruptedSession(session).turn.key = None
    BY DEF SessionFailed, InterruptedSession, Sessions
<1>6. OrphanedSession(session).turn.key = None /\ FencedSession(session).turn.key = None
    BY <1>1 DEF OrphanedSession, FencedSession, Sessions, Turns
<1>7. /\ \A state : [session EXCEPT !.state = state].turn.key = None
      /\ \A pid : [session EXCEPT !.turn.pid = pid].turn.key = None
    BY <1>1 DEF Sessions, Turns
<1>8. \A result : FinalSession(session, result).turn.key = None
    <2> TAKE result
    <2>1. FinalSession(session, result).turn.key = session.turn.key
        BY <1>1 DEF FinalSession, Turns
    <2> QED BY <2>1
<1>9. mem.keyed = None => \A r, id : WithRunningTurn(session, r, id).turn.key = None
    BY <1>1 DEF WithRunningTurn, Sessions, Turns
<1> QED BY <1>2, <1>3, <1>4, <1>5, <1>6, <1>7, <1>8, <1>9

LEMMA SeenGoto ==
    ASSUME req \in [Requests -> RequestStates], NEW r \in Requests
    PROVE  /\ \A pc : Goto(r, pc) => SeenKept
           /\ \A answer : Answer(r, answer) => SeenKept
<1>1. ASSUME NEW pc, Goto(r, pc) PROVE SeenKept
    <2>1. \A q \in Requests : req'[q].seen = req[q].seen
        BY <1>1 DEF Goto, RequestStates
    <2> QED BY <2>1 DEF SeenKept
<1>2. ASSUME NEW answer, Answer(r, answer) PROVE SeenKept
    <2>1. \A q \in Requests : req'[q].seen \in {req[q].seen, NoSession}
        BY <1>2 DEF Answer, RequestStates
    <2> QED BY <2>1 DEF SeenKept, NoSession, NoTurn
<1> QED BY <1>1, <1>2

\* A turn without a key: every write it makes shows the turn it read or its own.
LEMMA KeylessTurns ==
    ASSUME Unkeyed, Inv, Valid(store), NothingClaimed, Keyless, NEW r \in Requests,
           Admission(r) \/ TurnStep(r) \/ Exit(r) \/ \E e \in 0..MaxEpoch : Call(r, e)
    PROVE  KeylessStep /\ SeenKept
<1>1. /\ store \in StoredStates /\ store.session \in Sessions /\ mem.keyed = None
      /\ req \in [Requests -> RequestStates] /\ req[r] \in RequestStates /\ req[r].seen \in Sessions
      /\ store.session.turn.key = None /\ req[r].seen.turn.key = None
    BY InvTypes DEF Inv, NothingClaimed, Keyless, RequestStates, StoredStates
<1>2. /\ \A pc : Goto(r, pc) => SeenKept
      /\ \A answer : Answer(r, answer) => SeenKept
    BY <1>1, SeenGoto
<1>3. req' = req => SeenKept
    BY DEF SeenKept
<1>4. NoMutation => KeylessStep
    BY DEF NoMutation, KeylessStep, Keyless
<1>5. \A allowed, session :
          /\ session.turn.key = None
          /\ \/ Written(allowed, Upsert(store, session)) \/ Thrown(allowed, Upsert(store, session))
             \/ Written(allowed, store) \/ Thrown(allowed, store)
          => KeylessStep
    BY <1>1, KeylessWrite
<1>6. ~Keyed(r)
    BY DEF Unkeyed
<1>7. CASE Admission(r)
    <2>1. ~AdmitAnswered(r) => Admit(r)
        BY <1>7 DEF Admission
    <2>2. ASSUME AdmitAnswered(r) PROVE KeylessStep /\ SeenKept
        <3>1. ~Claimed(r)
            BY <1>6 DEF Claimed
        <3> QED BY <1>2, <1>4, <2>2, <3>1 DEF AdmitAnswered
    <2> QED BY <1>2, <1>4, <2>1, <2>2 DEF Admit
<1>8. CASE Exit(r)
    BY <1>3, <1>4, <1>8 DEF Exit
<1>9. ASSUME NEW e \in 0..MaxEpoch, Call(r, e) PROVE KeylessStep /\ SeenKept
    <2>1. \A q \in Requests : req'[q].seen = req[q].seen
        BY <1>1, <1>9 DEF Call, RequestStates
    <2> QED BY <1>4, <1>9, <2>1 DEF Call, SeenKept
<1>10. CASE ReleaseRecoveryFence(r)
    <2> DEFINE session == FenceReleased(store.session)
    <2>1. session.turn.key = None
        BY <1>1, KeysShown
    <2>2. \E allowed : Written(allowed, Upsert(store, session)) \/ Thrown(allowed, Upsert(store, session))
        BY <1>10 DEF ReleaseRecoveryFence, Mutate
    <2>3. SeenKept
        BY <1>2, <1>10 DEF ReleaseRecoveryFence, Mutate
    <2> QED BY <1>5, <2>1, <2>2, <2>3
<1>11. CASE EnterTurn(r)
    <2>1. Valid(Enter(store)) /\ Enter(store).session = store.session /\ Enter(store).receipts = store.receipts
        BY <1>1, FenceMovesValid DEF Enter, StoredStates
    <2>2. \E allowed : Written(allowed, Enter(store)) \/ Thrown(allowed, Enter(store))
        BY <1>11 DEF EnterTurn, Mutate
    <2>3. SeenKept
        BY <1>2, <1>11 DEF EnterTurn, Mutate
    <2> QED BY <1>1, <2>1, <2>2, <2>3, KeylessFence
<1>12. ~ClaimKey(r)
    BY <1>6 DEF ClaimKey, Inv, TypeInv, KeysHeld
<1>13. CASE Wake(r) \/ Spawn(r)
    BY <1>2, <1>4, <1>13 DEF Wake, Spawn
<1>14. CASE Begin(r)
    <2>1. \/ \E pc : Goto(r, pc)
          \/ \A q \in Requests : req'[q].seen \in {req[q].seen, store.session}
        BY <1>1, <1>14 DEF Begin, RequestStates
    <2> QED BY <1>1, <1>2, <1>4, <1>14, <2>1 DEF Begin, SeenKept
<1>15. CASE RefreshProvider(r)
    <2>1. \E allowed : \/ Written(allowed, Upsert(store, req[r].seen))
                       \/ Thrown(allowed, Upsert(store, req[r].seen))
        BY <1>15 DEF RefreshProvider, Mutate
    <2>2. SeenKept
        BY <1>2, <1>15 DEF RefreshProvider, Mutate
    <2> QED BY <1>1, <1>5, <2>1, <2>2
<1>16. CASE Provision(r)
    <2> DEFINE provisional == [req[r].seen EXCEPT !.state = "running"]
    <2>1. provisional.turn.key = None
        BY <1>1, KeysShown
    <2>2. \/ NoMutation
          \/ \E allowed : \/ Written(allowed, Upsert(store, provisional))
                          \/ Thrown(allowed, Upsert(store, provisional))
        BY <1>16 DEF Provision, Mutate
    <2>3. \/ \E pc : Goto(r, pc)
          \/ req' = [req EXCEPT ![r].pc = "runtime", ![r].seen = provisional]
        BY <1>16 DEF Provision, Mutate
    <2> HIDE DEF provisional
    <2>4. SeenKept
        <3>1. CASE req' = [req EXCEPT ![r].pc = "runtime", ![r].seen = provisional]
            <4>1. \A q \in Requests : req'[q].seen \in {req[q].seen, provisional}
                BY <1>1, <3>1 DEF RequestStates
            <4> QED BY <2>1, <4>1 DEF SeenKept
        <3> QED BY <1>2, <2>3, <3>1
    <2> QED BY <1>4, <1>5, <2>1, <2>2, <2>4
<1>17. CASE PrepareRuntime(r)
    <2> DEFINE session == SessionFailed(store.session)
    <2>1. session.turn.key = None
        BY <1>1, KeysShown
    <2>2. \/ NoMutation
          \/ \E allowed : \/ Written(allowed, Upsert(store, session))
                          \/ Thrown(allowed, Upsert(store, session))
        BY <1>17 DEF PrepareRuntime, Mutate
    <2>3. SeenKept
        BY <1>2, <1>17 DEF PrepareRuntime, Mutate
    <2> QED BY <1>4, <1>5, <2>1, <2>2, <2>3
<1>18. CASE StartTurnOutput(r)
    <2>1. \/ \E pc : Goto(r, pc)
          \/ \A q \in Requests : req'[q].seen \in {req[q].seen, store.session}
        BY <1>1, <1>18 DEF StartTurnOutput, RequestStates
    <2> QED BY <1>1, <1>2, <1>4, <1>18, <2>1 DEF StartTurnOutput, SeenKept
<1>19. CASE LinkTurn(r)
    <2> DEFINE session == WithRunningTurn(req[r].seen, r, mem.turnId)
    <2>1. session.turn.key = None
        BY <1>1, KeysShown
    <2>2. \E allowed : Written(allowed, Upsert(store, session)) \/ Thrown(allowed, Upsert(store, session))
        BY <1>1, <1>19 DEF LinkTurn, Mutate
    <2>3. SeenKept
        BY <1>1, <1>2, <1>19 DEF LinkTurn, Mutate
    <2> QED BY <1>5, <2>1, <2>2, <2>3
<1>20. CASE RecordPid(r)
    <2> DEFINE session == [store.session EXCEPT !.turn.pid = r]
    <2>1. session.turn.key = None
        BY <1>1, KeysShown
    <2>2. \E allowed : \/ Written(allowed, Upsert(store, session)) \/ Thrown(allowed, Upsert(store, session))
                       \/ Written(allowed, store) \/ Thrown(allowed, store)
        BY <1>20 DEF RecordPid, Mutate
    <2>3. SeenKept
        BY <1>2, <1>20 DEF RecordPid, Mutate
    <2> QED BY <1>5, <2>1, <2>2, <2>3
<1>21. CASE ReadExit(r)
    <2>1. \/ \E pc : Goto(r, pc)
          \/ \A q \in Requests : req'[q].seen = req[q].seen
        BY <1>1, <1>21 DEF ReadExit, RequestStates
    <2> QED BY <1>2, <1>4, <1>21, <2>1 DEF ReadExit, SeenKept
<1>22. CASE Finalize(r) \/ RecordThrow(r)
    <2>1. PICK kind, result, next : PersistFinal(r, kind, result, next)
        BY <1>22 DEF Finalize, RecordThrow
    <2> DEFINE session == FinalSession(store.session, result)
    <2>2. session.turn.key = None
        BY <1>1, KeysShown
    <2>3. \E allowed : Written(allowed, Upsert(store, session)) \/ Thrown(allowed, Upsert(store, session))
        BY <1>1, <2>1 DEF PersistFinal, Mutate
    <2>4. SeenKept
        BY <1>1, <1>2, <2>1 DEF PersistFinal, Mutate
    <2> QED BY <1>5, <2>2, <2>3, <2>4
<1>23. CASE HandleStartThrow(r)
    <2> DEFINE session == [(IF Present(store) THEN store.session ELSE req[r].seen) EXCEPT !.state = "failed"]
    <2>1. session.turn.key = None
        BY <1>1, KeysShown
    <2>2. \/ NoMutation
          \/ \E allowed : \/ Written(allowed, Upsert(store, session)) \/ Thrown(allowed, Upsert(store, session))
                          \/ Written(allowed, store) \/ Thrown(allowed, store)
        BY <1>23 DEF HandleStartThrow, Mutate
    <2>3. SeenKept
        BY <1>2, <1>23 DEF HandleStartThrow, Mutate
    <2> QED BY <1>4, <1>5, <2>1, <2>2, <2>3
<1>24. CASE ReleaseTurn(r)
    BY <1>2, <1>4, <1>6, <1>24 DEF ReleaseTurn, ReceiptState
<1> QED BY <1>7, <1>8, <1>9, <1>10, <1>11, <1>12, <1>13, <1>14, <1>15, <1>16, <1>17, <1>18, <1>19,
        <1>20, <1>21, <1>22, <1>23, <1>24 DEF TurnStep

\* What a verb keeps in hand was read from a session without a keyed turn.
OpSeenKept == op'.seen.turn.key \in {op.seen.turn.key, store.session.turn.key, None}

LEMMA KeylessVerbs ==
    ASSUME Inv, Valid(store), NothingClaimed, Keyless, OpBegin \/ OpStep
    PROVE  KeylessStep /\ OpSeenKept
<1>1. /\ store \in StoredStates /\ store.session \in Sessions /\ ~Running(store)
      /\ op \in Operations /\ op.seen.turn.key = None /\ store.session.turn.key = None
      /\ KeysIn(store, "running") = {}
    BY InvTypes DEF Inv, NothingClaimed, Keyless, StoredStates, Running
<1>2. /\ NoOp.seen.turn.key = None
      /\ op' = op \/ op' = NoOp => OpSeenKept
      /\ \A pc : OpGoto(pc) => OpSeenKept
    BY <1>1 DEF OpSeenKept, OpGoto, Operations, NoOp, NoSession, NoTurn
<1>3. NoMutation => KeylessStep
    BY DEF NoMutation, KeylessStep, Keyless
<1>4. \A allowed, session :
          /\ session.turn.key = None
          /\ Written(allowed, Upsert(store, session)) \/ Thrown(allowed, Upsert(store, session))
          => KeylessStep
    BY <1>1, KeylessWrite
<1>5. \A allowed, t :
          /\ Valid(t) /\ t.session = store.session /\ t.receipts = store.receipts
          /\ Written(allowed, t) \/ Thrown(allowed, t)
          => KeylessStep
    BY <1>1, KeylessFence
<1>6. /\ Valid(Release(store))
      /\ Release(store).session = store.session /\ Release(store).receipts = store.receipts
    BY <1>1, FenceMovesValid DEF Release, StoredStates
<1>7. \A purpose \in {"external", "purge"} : LET t == Reserve(store, purpose) IN
          /\ CanReserve(store) => Valid(t)
          /\ t.session = store.session /\ t.receipts = store.receipts
    BY <1>1, FenceMovesValid DEF Reserve, StoredStates
<1>8. \A purpose \in {"external", "purge"} : LET t == Reserve(store, purpose) IN
          Written(CanReserve(store), t) \/ Thrown(CanReserve(store), t) => KeylessStep
    <2> TAKE purpose \in {"external", "purge"}
    <2> DEFINE t == Reserve(store, purpose)
    <2>1. ASSUME ~CanReserve(store), Thrown(CanReserve(store), t) PROVE KeylessStep
        BY <2>1 DEF Thrown, KeylessStep, Keyless
    <2>2. ~CanReserve(store) => ~Written(CanReserve(store), t)
        BY DEF Written
    <2> QED BY <1>5, <1>7, <2>1, <2>2
<1>9. CASE \/ StopBegin \/ StopDrained
    <2>1. KeylessStep
        BY <1>3, <1>9 DEF StopBegin, StopDrained
    <2>2. op'.seen \in {op.seen, store.session}
        BY <1>1, <1>9 DEF StopBegin, StopDrained, NoOp, Operations, OpGoto
    <2> QED BY <2>1, <2>2 DEF OpSeenKept
<1>10. CASE \/ GcList \/ GcVisit \/ StopResolveFence \/ DrainTimesOut \/ ProveClosed
            \/ \E verb \in {"purge", "gc"} : PurgeUnknown(verb)
    BY <1>2, <1>3, <1>10 DEF GcList, GcVisit, StopResolveFence, DrainTimesOut, ProveClosed,
       PurgeUnknown, OpEnds
<1>11. CASE FocusRead
    <2>1. op'.seen = store.session
        BY <1>11 DEF FocusRead, NoOp
    <2> QED BY <1>3, <1>11, <2>1 DEF FocusRead, OpSeenKept
<1>12. CASE CloseDrained
    <2>1. op'.seen \in {op.seen, store.session, NoSession}
        <3>1. \/ op' = [op EXCEPT !.pc = "prove", !.seen = store.session, !.had = TRUE]
              \/ op' = NoOp
              \/ \E pc : op' = [op EXCEPT !.pc = pc]
            BY <1>12 DEF CloseDrained, OpGoto, OpEnds
        <3>2. CASE op' = [op EXCEPT !.pc = "prove", !.seen = store.session, !.had = TRUE]
            BY <1>1, <3>2 DEF Operations
        <3>3. CASE op' = NoOp
            BY <3>3 DEF NoOp
        <3>4. ASSUME NEW pc, op' = [op EXCEPT !.pc = pc] PROVE op'.seen = op.seen
            BY <1>1, <3>4 DEF Operations
        <3> QED BY <3>1, <3>2, <3>3, <3>4
    <2> QED BY <1>3, <1>12, <2>1 DEF CloseDrained, OpSeenKept, NoSession, NoTurn
<1>13. CASE OtherNameQuiesces
    <2>1. /\ refused' = refused /\ op' = op /\ store'.session = store.session
          /\ store'.receipts = store.receipts
        BY <1>1, <1>13 DEF OtherNameQuiesces, AllocateElsewhere, StoredStates
    <2> QED BY <1>2, <2>1 DEF KeylessStep, Keyless
<1>14. CASE QuiesceBegin
    <2> DEFINE t == Reserve(store, "external")
    <2>1. Written(CanReserve(store), t) \/ Thrown(CanReserve(store), t)
        BY <1>14 DEF QuiesceBegin, Mutate
    <2>2. op' = op \/ op'.seen = store.session
        BY <1>14 DEF QuiesceBegin, Mutate, BeginClosing, NoOp
    <2> QED BY <1>2, <1>8, <2>1, <2>2 DEF OpSeenKept
<1>15. ASSUME NEW verb \in {"purge", "gc"}, PurgeBegin(verb) PROVE KeylessStep /\ OpSeenKept
    <2> DEFINE t == Reserve(store, "purge")
    <2>1. Written(CanReserve(store), t) \/ Thrown(CanReserve(store), t)
        BY <1>15 DEF PurgeBegin, Mutate
    <2>2. op' = op \/ op'.seen = store.session
        BY <1>15 DEF PurgeBegin, Mutate, BeginClosing, NoOp
    <2> QED BY <1>2, <1>8, <2>1, <2>2 DEF OpSeenKept
<1>16. CASE PurgeUnfence \/ (\E verb \in {"purge", "gc"} : PurgeAgain(verb))
            \/ \E e \in 1..MaxEpoch : ReleaseFence(e)
    <2>1. \E allowed : Written(allowed, Release(store)) \/ Thrown(allowed, Release(store))
        BY <1>16 DEF PurgeUnfence, PurgeAgain, ReleaseFence, Mutate
    <2>2. op' = op \/ op' = NoOp
        BY <1>16 DEF PurgeUnfence, PurgeAgain, ReleaseFence, Mutate, OpEnds
    <2> QED BY <1>2, <1>5, <1>6, <2>1, <2>2
<1>17. CASE StopWrite
    <2>1. StoppedSession(store.session).turn.key = None
        BY <1>1, KeysShown
    <2>2. \/ NoMutation
          \/ \E allowed : \/ Written(allowed, Upsert(store, StoppedSession(store.session)))
                          \/ Thrown(allowed, Upsert(store, StoppedSession(store.session)))
        BY <1>1, <1>17 DEF StopWrite, Mutate
    <2>3. op' = NoOp
        BY <1>1, <1>17 DEF StopWrite, Mutate, StopSucceeds, StopFails, OpEnds
    <2> QED BY <1>2, <1>3, <1>4, <2>1, <2>2, <2>3
<1>18. CASE RecordClosed
    <2>1. QuiescedSession(store.session).turn.key = None
        BY <1>1, KeysShown
    <2>2. \E allowed : \/ Written(allowed, Upsert(store, QuiescedSession(store.session)))
                       \/ Thrown(allowed, Upsert(store, QuiescedSession(store.session)))
        BY <1>18 DEF RecordClosed, Mutate
    <2>3. op' = NoOp \/ OpGoto("remove")
        BY <1>18 DEF RecordClosed, Mutate, OpEnds
    <2> QED BY <1>2, <1>4, <2>1, <2>2, <2>3
<1>19. CASE PurgeRemove
    <2>1. Written(CanRemove(store), Remove(store)) \/ Thrown(CanRemove(store), Remove(store))
        BY <1>19 DEF PurgeRemove, Mutate
    <2>2. Valid(Remove(store))
        BY <1>1, RemoveValid
    <2>3. store' \in {store, Remove(store)} /\ refused' = refused
        BY <2>1, <2>2 DEF Written, Thrown
    <2>4. /\ \A k \in Keys : Remove(store).receipts[k].state = "free"
          /\ Remove(store).session.turn.key = None
        BY <1>1 DEF Remove, StoredStates, FreeReceipt, NoSession, NoTurn
    <2>5. op' = NoOp \/ OpGoto("unfence")
        BY <1>19 DEF PurgeRemove, Mutate, OpEnds
    <2> QED BY <1>2, <2>3, <2>4, <2>5 DEF KeylessStep, Keyless
<1>20. CASE Resume \/ Suspend
    <2>1. \E state : \/ Written(TRUE, Upsert(store, [store.session EXCEPT !.state = state]))
                     \/ Thrown(TRUE, Upsert(store, [store.session EXCEPT !.state = state]))
        BY <1>20 DEF Resume, Suspend, Mutate
    <2>2. \A state : [store.session EXCEPT !.state = state].turn.key = None
        BY <1>1, KeysShown
    <2>3. op' = op
        BY <1>20 DEF Resume, Suspend
    <2> QED BY <1>2, <1>4, <2>1, <2>2, <2>3
<1>21. CASE FocusWrite
    <2>1. \E allowed : Written(allowed, Upsert(store, op.seen)) \/ Thrown(allowed, Upsert(store, op.seen))
        BY <1>21 DEF FocusWrite, Mutate
    <2>2. op' = NoOp
        BY <1>21 DEF FocusWrite, OpEnds
    <2> QED BY <1>1, <1>2, <1>4, <2>1, <2>2
<1> QED BY <1>9, <1>10, <1>11, <1>12, <1>13, <1>14, <1>15, <1>16, <1>17, <1>18, <1>19, <1>20, <1>21
        DEF OpBegin, OpStep

LEMMA KeylessCrash ==
    ASSUME Inv, Valid(store), NothingClaimed, Keyless, Crash \/ Restart
    PROVE  KeylessStep /\ OpSeenKept /\ SeenKept
<1>1. /\ store \in StoredStates /\ store.session \in Sessions /\ ~Running(store)
      /\ store.session.turn.key = None /\ req \in [Requests -> RequestStates]
      /\ NoOp.seen.turn.key = None /\ NoRequest.seen.turn.key = None
    BY InvTypes DEF Inv, NothingClaimed, Keyless, StoredStates, NoOp, NoRequest, NoSession, NoTurn
<1>2. CASE Crash
    <2>1. KeylessStep
        BY <1>2 DEF Crash, NoMutation, KeylessStep, Keyless
    <2>2. \A r \in Requests : req'[r].seen \in {req[r].seen, NoRequest.seen}
        BY <1>1, <1>2 DEF Crash, NoRequest
    <2>3. op' = NoOp
        BY <1>2 DEF Crash
    <2> QED BY <1>1, <2>1, <2>2, <2>3 DEF SeenKept, OpSeenKept
<1>3. CASE Restart
    <2>1. OpSeenKept /\ SeenKept
        BY <1>3 DEF Restart, SeenKept, OpSeenKept
    <2>2. \/ Reconciled(store) = store
          \/ Reconciled(store) = Upsert(store, FencedSession(store.session))
          \/ Reconciled(store) = Upsert(store, OrphanedSession(store.session))
        BY <1>1 DEF Reconciled, Interrupted
    <2>3. /\ FencedSession(store.session).turn.key = None
          /\ OrphanedSession(store.session).turn.key = None
        BY <1>1, KeysShown
    <2>4. \/ NoMutation
          \/ Written(TRUE, Reconciled(store)) \/ Thrown(TRUE, Reconciled(store))
        BY <1>3 DEF Restart, Mutate
    <2>5. NoMutation => KeylessStep
        BY DEF NoMutation, KeylessStep, Keyless
    <2> QED BY <1>1, <2>1, <2>2, <2>3, <2>4, <2>5, KeylessWrite
<1> QED BY <1>2, <1>3

LEMMA KeylessStays ==
    ASSUME Unkeyed, Inv, Ground, NothingClaimed, Keyless, [Next]_vars
    PROVE  Keyless' /\ refused' = refused
<1>1. Valid(store)
    BY DEF Ground, FenceInv
<1>2. KeylessStep /\ OpSeenKept /\ SeenKept => Keyless' /\ refused' = refused
    BY DEF KeylessStep, OpSeenKept, SeenKept, Keyless
<1>3. CASE UNCHANGED vars
    BY <1>3 DEF vars, Keyless
<1>4. ASSUME NEW r \in Requests,
             Admission(r) \/ TurnStep(r) \/ Exit(r) \/ \E e \in 0..MaxEpoch : Call(r, e)
      PROVE  KeylessStep /\ OpSeenKept /\ SeenKept
    BY <1>1, <1>4, KeylessTurns, TurnsLeaveVerb DEF OpSeenKept
<1>5. CASE OpBegin \/ OpStep
    <2>1. req' = req
        BY <1>5 DEF OpBegin, OpStep, StopBegin, QuiesceBegin, PurgeAgain, PurgeUnknown, PurgeBegin,
           GcList, GcVisit, ReleaseFence, Resume, Suspend, FocusRead, OtherNameQuiesces,
           StopResolveFence, DrainTimesOut, StopDrained, StopWrite, CloseDrained, ProveClosed,
           RecordClosed, PurgeRemove, PurgeUnfence, FocusWrite
    <2> QED BY <1>1, <1>2, <1>5, <2>1, KeylessVerbs DEF SeenKept
<1>6. CASE Crash \/ Restart
    BY <1>1, <1>2, <1>6, KeylessCrash
<1> QED BY <1>2, <1>3, <1>4, <1>5, <1>6 DEF Next

\* Where no request carries a key, the schema refuses nothing: not the session that
\* focus read before a turn ended, not what is written after a failed write, a fence
\* or a crash (store.upsertSession and store.patchSession; the schema's checks on
\* turn requests).
THEOREM UnkeyedNotRefused ==
    ASSUME Unkeyed
    PROVE  Spec => []NothingRefused
<1>1. Init => Keyless /\ NothingRefused
    BY DEF Init, Keyless, NothingRefused, freshState, FreeReceipt, NoSession, NoTurn, NoOp, NoRequest
<1>2. /\ Inv /\ Quiet /\ NothingClaimed /\ Keyless /\ NothingRefused /\ [Next]_vars
      => Keyless' /\ NothingRefused'
    BY KeylessStays DEF Quiet, NothingRefused
<1>3. Spec => []NothingClaimed
    BY UnkeyedCorrect
<1> QED BY <1>1, <1>2, <1>3, InvCorrect, QuietCorrect, PTL DEF Spec
=============================================================================
