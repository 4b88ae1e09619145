---------------------------- MODULE StoredState ----------------------------
(***************************************************************************)
(* The durable state of one session name in src/src/shared/store.ts: what  *)
(* state.json holds about it, the consistency the schema demands of it     *)
(* (Valid), and the store's mutators, each as a guard (the mutator does    *)
(* not throw) and a result (the state it hands to the schema check).       *)
(*                                                                         *)
(* Timestamps, transcripts, warnings and error texts are left out.  A turn *)
(* id is the request that drew it (randomUUID gives every request its own  *)
(* id), a print stands for a request's operation and fingerprint, and an   *)
(* epoch or a generation is a number below the code's largest integer,     *)
(* here MaxEpoch and MaxGeneration.                                        *)
(***************************************************************************)
EXTENDS Integers, FiniteSets, Sequences

CONSTANTS
    Keys,           \* turn keys clients use for this session
    Prints,         \* request fingerprints
    TurnIds,        \* ids of active turns, and of the processes they spawn
    None,           \* the absent key, print, id or pid
    MaxOutcomes,    \* MAX_TURN_REQUEST_OUTCOMES_PER_SESSION
    MaxIdentities,  \* MAX_TURN_REQUEST_IDENTITIES_PER_SESSION
    MaxEpoch,       \* Number.MAX_SAFE_INTEGER, for quiescence epochs
    MaxGeneration   \* Number.MAX_SAFE_INTEGER, for purge generations

ASSUME NoneAssumption == None \notin Keys \cup Prints \cup TurnIds
ASSUME KeysAssumption == IsFiniteSet(Keys)
ASSUME LimitAssumption == /\ MaxOutcomes \in Nat \ {0}
                          /\ MaxIdentities \in Nat \ {0}
                          /\ MaxEpoch \in Nat
                          /\ MaxGeneration \in Nat

-----------------------------------------------------------------------------
(* The records of the state. *)

\* "idle" stands for idle and waiting_input: no code below tells them apart.
SessionStates == {"absent", "idle", "running", "suspended", "failed", "stopped"}
TerminalTurnStates == {"completed", "failed", "stopped", "orphaned"}
TurnStates == {"none", "running"} \cup TerminalTurnStates

Turns == [id : TurnIds \cup {None}, key : Keys \cup {None},
          print : Prints \cup {None}, state : TurnStates,
          pid : TurnIds \cup {None}]
RecoveryFences == [on : BOOLEAN, pid : TurnIds \cup {None}]
Sessions == [state : SessionStates, turn : Turns, fence : RecoveryFences]
Snapshots == [state : SessionStates, turn : Turns]
Outcomes == [kind : {"none", "success", "error"}, snapshot : Snapshots]
Receipts == [state : {"free", "running", "settled", "tombstone"},
             print : Prints \cup {None}, turnId : TurnIds \cup {None},
             outcome : Outcomes]
Reservations == [epoch : 0..MaxEpoch, purpose : {"none", "external", "purge"}]

\* order lists the settled keys, oldest completion first; generation counts
\* purges; active is the quiescence fence and latest the last external epoch.
StoredStates == [session : Sessions, receipts : [Keys -> Receipts],
                 order : Seq(Keys), generation : 0..MaxGeneration,
                 active : Reservations, latest : 0..MaxEpoch,
                 lastEpoch : 0..MaxEpoch]

NoTurn == [id |-> None, key |-> None, print |-> None, state |-> "none", pid |-> None]
NoRecoveryFence == [on |-> FALSE, pid |-> None]
NoSession == [state |-> "absent", turn |-> NoTurn, fence |-> NoRecoveryFence]
NoOutcome == [kind |-> "none", snapshot |-> [state |-> "absent", turn |-> NoTurn]]
FreeReceipt == [state |-> "free", print |-> None, turnId |-> None, outcome |-> NoOutcome]
NoReservation == [epoch |-> 0, purpose |-> "none"]

freshState == [session |-> NoSession, receipts |-> [k \in Keys |-> FreeReceipt],
               order |-> <<>>, generation |-> 0, active |-> NoReservation,
               latest |-> 0, lastEpoch |-> 0]

-----------------------------------------------------------------------------
(* Reading the state. *)

KeysIn(s, state) == {k \in Keys : s.receipts[k].state = state}
Running(s) == KeysIn(s, "running") # {}
Present(s) == s.session.state # "absent"

\* Mutant: quiesce fences nothing.
MutableUnlessPurged(s) == s.active.purpose # "purge"

Mutable(s) == s.active.purpose = "none"

Snapshot(session) == [state |-> session.state, turn |-> session.turn]

\* The turn of a replayed outcome: terminal and the one its receipt names.
MatchesTerminal(snapshot, k, receipt) ==
    /\ snapshot.state # "running"
    /\ snapshot.turn.state \in TerminalTurnStates
    /\ snapshot.turn.id = receipt.turnId
    /\ snapshot.turn.key = k
    /\ snapshot.turn.print = receipt.print

-----------------------------------------------------------------------------
(* The schema's cross-record checks. *)

LinkedReceiptHasTurn(s) ==
    \A k \in Keys : LET r == s.receipts[k] IN
        r.state = "running" /\ r.turnId # None =>
            /\ s.session.turn.state = "running"
            /\ s.session.turn.id = r.turnId
            /\ s.session.turn.key = k
            /\ s.session.turn.print = r.print

SettledTurnNotRunning(s) ==
    \A k \in Keys : LET r == s.receipts[k] IN
        ~ (/\ r.state = "settled" /\ r.turnId # None
           /\ s.session.turn.id = r.turnId
           /\ s.session.turn.state = "running")

OutcomesMatch(s) ==
    \A k \in Keys : LET r == s.receipts[k] IN
        /\ r.outcome.kind = "success" =>
               r.turnId # None /\ MatchesTerminal(r.outcome.snapshot, k, r)
        /\ r.outcome.kind = "error" /\ r.turnId # None =>
               MatchesTerminal(r.outcome.snapshot, k, r)

KeyedTurnHasReceipt(s) ==
    LET t == s.session.turn IN
    t.key # None =>
        LET r == s.receipts[t.key] IN
        /\ r.state # "free"
        /\ r.print = t.print
        /\ r.turnId = t.id
        /\ t.state = "running" => r.state = "running"

FencesConsistent(s) ==
    /\ s.active.epoch <= s.lastEpoch
    /\ s.active.purpose = "external" => s.latest = s.active.epoch
    /\ s.active.purpose = "purge" => s.latest < s.active.epoch
    /\ s.latest <= s.lastEpoch

Valid(s) ==
    /\ Cardinality(KeysIn(s, "settled")) <= MaxOutcomes
    /\ Cardinality(Keys \ KeysIn(s, "free")) <= MaxIdentities
    /\ \A j, k \in KeysIn(s, "running") : j = k
    /\ LinkedReceiptHasTurn(s)
    /\ SettledTurnNotRunning(s)
    /\ OutcomesMatch(s)
    /\ KeyedTurnHasReceipt(s)
    /\ FencesConsistent(s)

-----------------------------------------------------------------------------
(* Turn receipts. *)

\* Mutant: the limit drops the identity with its outcome.
CompactedToNothing(s) ==
    IF Cardinality(KeysIn(s, "settled")) < MaxOutcomes \/ s.order = <<>> THEN s
    ELSE [s EXCEPT !.order = Tail(@), !.receipts[Head(s.order)] = FreeReceipt]

\* Mutant: the limit is left to the schema.
NotCompacted(s) == s

\* Claiming the identity past the outcome limit forgets the oldest outcome,
\* never the identity.
Compacted(s) ==
    IF Cardinality(KeysIn(s, "settled")) < MaxOutcomes \/ s.order = <<>> THEN s
    ELSE [s EXCEPT !.order = Tail(@),
                   !.receipts[Head(s.order)].state = "tombstone",
                   !.receipts[Head(s.order)].outcome = NoOutcome]

CanClaim(s, k) ==
    /\ Mutable(s)
    /\ s.receipts[k].state = "free"
    /\ ~Running(s)
    /\ Cardinality(Keys \ KeysIn(s, "free")) < MaxIdentities

Claim(s, k, print) ==
    [Compacted(s) EXCEPT !.receipts[k] = [FreeReceipt EXCEPT !.state = "running", !.print = print]]

HoldsRunning(s, k, print) == s.receipts[k].state = "running" /\ s.receipts[k].print = print

CanLink(s, k, print, session) ==
    /\ Mutable(s) /\ HoldsRunning(s, k, print)
    /\ session.turn.key = k /\ session.turn.print = print

Link(s, k, session) ==
    [s EXCEPT !.session = session, !.receipts[k].turnId = session.turn.id]

\* Mutant: an error frees the key for a retry.
ErrorForgotten(s, k, kind, session) ==
    [s EXCEPT !.session = session, !.receipts[k] = FreeReceipt]

\* The receipt's half of every settling mutation; an error keeps a snapshot
\* only when a turn was linked.
Settled(s, k, kind, session) ==
    [s EXCEPT !.session = session,
              !.order = Append(@, k),
              !.receipts[k].state = "settled",
              !.receipts[k].outcome =
                  [kind |-> kind,
                   snapshot |-> IF kind = "success" \/ s.receipts[k].turnId # None
                                THEN Snapshot(session) ELSE NoOutcome.snapshot]]

\* patchSessionAndSettleTurnRequest honours the fence; settleTurnRequestError
\* and settleTurnRequestDuringReconciliation do not.
CanSettle(s, k, print) == Mutable(s) /\ HoldsRunning(s, k, print)
CanSettleBehindFence(s, k, print) == HoldsRunning(s, k, print)

-----------------------------------------------------------------------------
(* The session record and its removal. *)

Upsert(s, session) == [s EXCEPT !.session = session]

\* Mutant: only an external fence may be written behind.
CanPatchExternal(s, epoch) == s.active.purpose = "external" /\ s.active.epoch = epoch

CanPatchQuiesced(s, epoch) == ~Mutable(s) /\ s.active.epoch = epoch

CanRemove(s) == s.generation < MaxGeneration

\* Mutant: a purge leaves the generation alone.
RemoveUncounted(s) ==
    [s EXCEPT !.session = NoSession, !.receipts = [k \in Keys |-> FreeReceipt], !.order = <<>>]

Remove(s) == [s EXCEPT !.session = NoSession,
                       !.receipts = [k \in Keys |-> FreeReceipt],
                       !.order = <<>>,
                       !.generation = @ + 1]

-----------------------------------------------------------------------------
(* Quiescence fences. *)

\* Mutant: epochs grow past the largest integer.
CanAlwaysReserve(s) == TRUE

CanReserve(s) == ~Mutable(s) \/ s.lastEpoch < MaxEpoch

Reserve(s, purpose) ==
    IF ~Mutable(s)
    THEN IF purpose = "external" /\ s.active.purpose = "purge"
         THEN [s EXCEPT !.active.purpose = "external", !.latest = s.active.epoch]
         ELSE s
    ELSE [s EXCEPT !.lastEpoch = @ + 1,
                   !.active = [epoch |-> s.lastEpoch + 1, purpose |-> purpose],
                   !.latest = IF purpose = "external" THEN s.lastEpoch + 1 ELSE @]

CanRelease(s, epoch) ==
    /\ epoch > 0
    /\ IF Mutable(s) THEN s.latest = epoch ELSE s.active.epoch = epoch
Release(s) == [s EXCEPT !.active = NoReservation]

\* Mutant: only an active fence asks for its epoch.
CanEnterLate(s, requested) ==
    /\ s.active.purpose # "purge"
    /\ Mutable(s) \/ s.active.epoch = requested

\* A turn enters with the epoch it was given (0: none) and, when it is the
\* latest one, releases the fence it matches.
CanEnter(s, requested) ==
    /\ s.active.purpose # "purge"
    /\ requested = s.latest
    /\ Mutable(s) \/ s.active.epoch = requested
Enter(s) == [s EXCEPT !.active = NoReservation]

\* The allocation of an epoch by a quiescence of another session name.
CanAllocateElsewhere(s) == s.lastEpoch < MaxEpoch
AllocateElsewhere(s) == [s EXCEPT !.lastEpoch = @ + 1]
=============================================================================
