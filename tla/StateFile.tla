----------------------------- MODULE StateFile -----------------------------
(***************************************************************************)
(* The directory that holds the session state, and the processes that open *)
(* it one after the other or at the same time: daemons, gateways, and      *)
(* those that follow a crashed one.  A process takes the owner lease (a    *)
(* file it creates exclusively), reads state.json, serves mutations of it, *)
(* and gives the lease back.  StoredState says what the mutations do; here *)
(* a state is the set of the mutations it has seen.                        *)
(*                                                                         *)
(* Each action is one operation on the file system.  mishaps records the   *)
(* disturbances a behaviour has met.                                       *)
(***************************************************************************)
EXTENDS Naturals, Sequences

CONSTANTS
    Procs,          \* processes that open the directory, each at most once
    Writes,         \* mutations, each asked for at most once
    Resets,         \* the operator's calls of resetRecovery
    Attempts,       \* tries for the lease; 8 in the code
    MaxTroubles,    \* bound on crashes, damage to the file and failing calls
    Nobody          \* the owner of a lease that does not exist

ASSUME StateFileAssumption ==
    /\ Attempts \in Nat \ {0} /\ MaxTroubles \in Nat
    /\ Nobody \notin Procs
    /\ Writes \cap Resets = {}

VARIABLES
    lease,      \* the lease file: its owner, and whether it is written whole
    pc,         \* where each process is
    seen,       \* the owner a process has read, or Nobody
    tries,      \* its tries for the lease
    copy,       \* the state a store keeps in memory
    readonly,   \* whether the store requires a recovery
    queue,      \* its mutations and resets that wait (mutationTail)
    closing,    \* whether close was called
    file,       \* state.json
    aside,      \* the states in quarantined files
    asked,      \* mutations and resets asked for so far
    acked,      \* mutations that were acknowledged and that no reset gave up
    mishaps,    \* the disturbances met so far
    troubles    \* counted up to MaxTroubles

vars == <<lease, pc, seen, tries, copy, readonly, queue, closing, file, aside,
          asked, acked, mishaps, troubles>>

owning == <<lease, seen, tries>>
stored == <<file, aside, acked>>
memory == <<copy, readonly, queue, closing, asked>>

Ops == Writes \cup Resets
NoLease == [owner |-> Nobody, whole |-> FALSE]

\* An opening process is at the call it makes next; a serving one is idle or
\* has renamed a new state.json into place; then it gives the lease back.
Opening == {"create", "write", "read", "judge", "move", "load", "quarantine"}
Serving == {"serve", "renamed"}
Leaving == {"check", "unlink"}
Ended == {"refused", "closed", "dead"}

Mishaps ==
    { "takeover",   \* a stale lease was read, and another one moved away
      "torn",       \* a process died while it wrote its lease
      "vanished" }  \* the lease that stood in the way was gone when it was read

TypeOK ==
    /\ lease \in [owner : Procs \cup {Nobody}, whole : BOOLEAN]
    /\ pc \in [Procs -> {"out"} \cup Opening \cup Serving \cup Leaving \cup Ended]
    /\ seen \in [Procs -> Procs \cup {Nobody}]
    /\ tries \in [Procs -> 0..Attempts]
    /\ copy \in [Procs -> SUBSET Writes]
    /\ readonly \in [Procs -> BOOLEAN]
    /\ queue \in [Procs -> Seq(Ops)]
    /\ closing \in [Procs -> BOOLEAN]
    /\ file \in [kind : {"absent", "good", "damaged"}, state : SUBSET Writes]
    /\ aside \subseteq SUBSET Writes
    /\ asked \subseteq Ops /\ acked \subseteq Writes
    /\ mishaps \subseteq Mishaps
    /\ troubles \in 0..MaxTroubles

Init ==
    /\ lease = NoLease
    /\ pc = [p \in Procs |-> "out"]
    /\ seen = [p \in Procs |-> Nobody]
    /\ tries = [p \in Procs |-> 0]
    /\ copy = [p \in Procs |-> {}]
    /\ readonly = [p \in Procs |-> FALSE]
    /\ queue = [p \in Procs |-> <<>>]
    /\ closing = [p \in Procs |-> FALSE]
    /\ file = [kind |-> "absent", state |-> {}]
    /\ aside = {} /\ asked = {} /\ acked = {} /\ mishaps = {} /\ troubles = 0

-----------------------------------------------------------------------------

Live(p) == pc[p] \in Opening \cup Serving \cup Leaving

\* The process counts as the owner of what it does next.
Holds(p) == pc[p] \in {"write", "load", "quarantine"} \cup Serving \cup Leaving

Goes(p, at) == pc' = [pc EXCEPT ![p] = at]

Trouble == troubles < MaxTroubles /\ troubles' = troubles + 1

Calm(disturbances) == mishaps \cap disturbances = {}

-----------------------------------------------------------------------------
(* acquireOwnerLease.                                                      *)

Start(p) ==
    /\ pc[p] = "out"
    /\ Goes(p, "create")
    /\ UNCHANGED <<owning, stored, memory, mishaps, troubles>>

\* The exclusive creation succeeds, finds a lease, or fails.
Create(p) ==
    /\ pc[p] = "create"
    /\ \/ /\ lease = NoLease
          /\ lease' = [owner |-> p, whole |-> FALSE]
          /\ Goes(p, "write") /\ UNCHANGED troubles
       \/ lease # NoLease /\ Goes(p, "read") /\ UNCHANGED <<lease, troubles>>
       \/ Trouble /\ Goes(p, "refused") /\ UNCHANGED lease
    /\ UNCHANGED <<seen, tries, stored, memory, mishaps>>

\* The content of the lease is written, wherever the file is by now; or what
\* has its name is removed again.
WriteLease(p) ==
    /\ pc[p] = "write"
    /\ \/ /\ lease' = IF lease.owner = p THEN [lease EXCEPT !.whole = TRUE] ELSE lease
          /\ Goes(p, "load")
          /\ UNCHANGED troubles
       \/ Trouble /\ lease' = NoLease /\ Goes(p, "refused")
    /\ UNCHANGED <<seen, tries, stored, memory, mishaps>>

\* readOwnerLease: a lease that is not there any more reads like one that is
\* not whole.
ReadLease(p) ==
    /\ pc[p] = "read"
    /\ IF lease.whole
         THEN seen' = [seen EXCEPT ![p] = lease.owner] /\ Goes(p, "judge")
         ELSE Goes(p, "refused") /\ UNCHANGED seen
    /\ mishaps' = mishaps \cup (IF lease = NoLease THEN {"vanished"} ELSE {})
    /\ UNCHANGED <<lease, tries, stored, memory, troubles>>

\* Mutant: a process counts as live only once it serves.
MayBeLiveOnceServing(q) == pc[q] \in Serving

\* ownerLeaseMayBeLive: the process of the lease, by its pid and start time
MayBeLive(q) == Live(q)

Judge(p) ==
    /\ pc[p] = "judge"
    /\ Goes(p, IF MayBeLive(seen[p]) THEN "refused" ELSE "move")
    /\ UNCHANGED <<owning, stored, memory, mishaps, troubles>>

\* Mutant: one try more than there are.
RetryTwice(p) ==
    /\ tries' = [tries EXCEPT ![p] = @ + 2]
    /\ Goes(p, IF tries[p] + 1 = Attempts THEN "refused" ELSE "create")

Retry(p) ==
    /\ tries' = [tries EXCEPT ![p] = @ + 1]
    /\ Goes(p, IF tries[p] + 1 = Attempts THEN "refused" ELSE "create")

\* Mutant: a lease that somebody else moved is taken for a new owner's.
MissingRefuses(p) == Goes(p, "refused") /\ UNCHANGED tries

Missing(p) == Retry(p)

\* The lease is renamed out of the way, whatever it is by now, or cannot be.
MoveLease(p) ==
    /\ pc[p] = "move"
    /\ \/ /\ lease' = NoLease
          /\ IF lease = NoLease THEN Missing(p) ELSE Retry(p)
          /\ mishaps' = mishaps \cup
               (IF lease.owner \notin {Nobody, seen[p]} THEN {"takeover"} ELSE {})
          /\ UNCHANGED troubles
       \/ Trouble /\ Goes(p, "refused") /\ UNCHANGED <<lease, tries, mishaps>>
    /\ UNCHANGED <<seen, stored, memory>>

-----------------------------------------------------------------------------
(* loadStoredState.                                                        *)

Opens(p, state, recovery) ==
    /\ Goes(p, "serve")
    /\ copy' = [copy EXCEPT ![p] = state]
    /\ readonly' = [readonly EXCEPT ![p] = recovery]

\* Mutant: a file that cannot be read is taken for none.
UnreadableFresh(p) == Opens(p, {}, FALSE)

\* A file that cannot be read stays where it is.
Unreadable(p) == Opens(p, {}, TRUE)

\* A file whose mode cannot be set is not opened, and the lease given back.
Unopened(p) == Goes(p, "check") /\ UNCHANGED <<copy, readonly>>

Load(p) ==
    /\ pc[p] = "load"
    /\ \/ file.kind = "absent" /\ Opens(p, {}, FALSE) /\ UNCHANGED troubles
       \/ file.kind = "good" /\ Opens(p, file.state, FALSE) /\ UNCHANGED troubles
       \/ /\ file.kind = "damaged"
          /\ Goes(p, "quarantine") /\ UNCHANGED <<copy, readonly, troubles>>
       \/ Trouble /\ file.kind # "absent" /\ (Unreadable(p) \/ Unopened(p))
    /\ UNCHANGED <<owning, stored, queue, closing, asked, mishaps>>

\* recoveryState: what is no state of this version is renamed out of the way,
\* or stays where that fails.
Quarantine(p) ==
    /\ pc[p] = "quarantine"
    /\ \/ /\ aside' = aside \cup {file.state}
          /\ file' = [kind |-> "absent", state |-> {}]
          /\ UNCHANGED troubles
       \/ Trouble /\ UNCHANGED <<aside, file>>
    /\ Opens(p, {}, TRUE)
    /\ UNCHANGED <<owning, acked, queue, closing, asked, mishaps>>

-----------------------------------------------------------------------------
(* The store.                                                              *)

\* A mutation is refused while a recovery is required; a reset is ignored
\* while none is.
Ask(p, op) ==
    /\ pc[p] \in Serving /\ ~closing[p] /\ op \notin asked
    /\ readonly[p] <=> op \in Resets
    /\ asked' = asked \cup {op}
    /\ queue' = [queue EXCEPT ![p] = Append(@, op)]
    /\ UNCHANGED <<owning, stored, pc, copy, readonly, closing, mishaps, troubles>>

\* What the operation at the head of the queue makes of the state
NextState(p) == IF Head(queue[p]) \in Resets THEN {} ELSE copy[p] \cup {Head(queue[p])}

\* writeJsonFileAtomic: the new file replaces the old one, or the operation
\* fails with the old one in place.  A reset gives up what was acknowledged.
Rename(p) ==
    /\ pc[p] = "serve" /\ queue[p] # <<>>
    /\ \/ /\ file' = [kind |-> "good", state |-> NextState(p)]
          /\ acked' = IF Head(queue[p]) \in Resets /\ readonly[p] THEN {} ELSE acked
          /\ Goes(p, "renamed")
          /\ UNCHANGED <<queue, troubles>>
       \/ /\ Trouble
          /\ queue' = [queue EXCEPT ![p] = Tail(@)]
          /\ UNCHANGED <<file, acked, pc>>
    /\ UNCHANGED <<owning, aside, copy, readonly, closing, asked, mishaps>>

\* The directory is synced, the state in memory replaced, the caller answered.
Acknowledge(p) ==
    /\ pc[p] = "renamed"
    /\ copy' = [copy EXCEPT ![p] = NextState(p)]
    /\ readonly' = [readonly EXCEPT ![p] = FALSE]
    /\ acked' = acked \cup ({Head(queue[p])} \cap Writes)
    /\ queue' = [queue EXCEPT ![p] = Tail(@)]
    /\ Goes(p, "serve")
    /\ UNCHANGED <<owning, file, aside, closing, asked, mishaps, troubles>>

\* close: the daemon shuts down, or the rest of its initialisation failed.
Close(p) ==
    /\ pc[p] \in Serving /\ ~closing[p]
    /\ closing' = [closing EXCEPT ![p] = TRUE]
    /\ UNCHANGED <<owning, stored, pc, copy, readonly, queue, asked, mishaps, troubles>>

Drain(p) ==
    /\ closing[p] /\ pc[p] = "serve" /\ queue[p] = <<>>
    /\ Goes(p, "check")
    /\ UNCHANGED <<owning, stored, memory, mishaps, troubles>>

\* releaseOwnerLease reads the lease, and removes it where it is its own.
CheckLease(p) ==
    /\ pc[p] = "check"
    /\ Goes(p, IF lease = [owner |-> p, whole |-> TRUE] THEN "unlink" ELSE "closed")
    /\ UNCHANGED <<owning, stored, memory, mishaps, troubles>>

UnlinkLease(p) ==
    /\ pc[p] = "unlink"
    /\ Goes(p, "closed")
    /\ \/ lease' = NoLease /\ UNCHANGED troubles
       \/ Trouble /\ UNCHANGED lease
    /\ UNCHANGED <<seen, tries, stored, memory, mishaps>>

-----------------------------------------------------------------------------
(* The outside.                                                            *)

Crash(p) ==
    /\ Live(p) /\ Trouble
    /\ Goes(p, "dead")
    /\ mishaps' = mishaps \cup (IF pc[p] = "write" THEN {"torn"} ELSE {})
    /\ UNCHANGED <<owning, stored, memory>>

\* While nobody is there, the file is cut short, or another version writes it.
Damage ==
    /\ \A p \in Procs : ~Live(p)
    /\ file.kind = "good" /\ Trouble
    /\ file' = [file EXCEPT !.kind = "damaged"]
    /\ UNCHANGED <<owning, pc, memory, aside, acked, mishaps>>

-----------------------------------------------------------------------------

Acquire(p) ==
    Start(p) \/ Create(p) \/ WriteLease(p) \/ ReadLease(p) \/ Judge(p) \/ MoveLease(p)

Serve(p) ==
    \/ Load(p) \/ Quarantine(p) \/ Rename(p) \/ Acknowledge(p)
    \/ \E op \in Ops : Ask(p, op)

Release(p) == Close(p) \/ Drain(p) \/ CheckLease(p) \/ UnlinkLease(p)

Next ==
    \/ \E p \in Procs : Acquire(p) \/ Serve(p) \/ Release(p) \/ Crash(p)
    \/ Damage

Spec == Init /\ [][Next]_vars

-----------------------------------------------------------------------------
(* Properties.                                                             *)

Exclusive == \A p, q \in Procs : Holds(p) /\ Holds(q) => p = q

\* No two processes are past the lease at the same time, whoever crashed in
\* between and in whatever order they judge the lease of a dead owner; unless
\* one of them moved away a lease it had not judged.
OneOwner == Calm({"takeover"}) => Exclusive

\* What a store acknowledged is in state.json or in a quarantined file, across
\* crashes, failed writes, damage, and stores that could not read the file;
\* only a reset by the operator gives it up.
NothingLost ==
    Calm({"takeover"}) => acked \subseteq file.state \cup UNION aside

\* Nobody is refused a directory that no other process is about to use: the
\* lease of a dead owner is always overcome.
RefusedRightly ==
    [][\A p \in Procs :
         (pc[p] \in {"read", "judge", "move"} /\ pc'[p] = "refused"
            /\ mishaps' \cap {"torn", "vanished"} = {} /\ troubles' = troubles)
           => \E q \in Procs \ {p} : Live(q)]_vars

=============================================================================
