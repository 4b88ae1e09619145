-------------------------- MODULE StateFile_proofs --------------------------
(***************************************************************************)
(* Proofs about the owner lease and the state file.                        *)
(***************************************************************************)
EXTENDS StateFile, FiniteSetTheorems, SequenceTheorems, TLAPS

USE StateFileAssumption

-----------------------------------------------------------------------------
(* The inductive invariant.                                                *)

\* A process that tries for the lease has a try left.
Trying ==
    \A p \in Procs :
      pc[p] \in {"out", "create", "write", "read", "judge", "move"} => tries[p] < Attempts

\* The owner of the lease has started, and what is judged stale has ended.
Judged ==
    /\ lease.owner = Nobody => ~lease.whole
    /\ lease.owner # Nobody => pc[lease.owner] # "out"
    /\ \A p \in Procs :
         /\ pc[p] \in {"judge", "move"} => seen[p] \in Procs /\ pc[seen[p]] # "out"
         /\ pc[p] = "move" => pc[seen[p]] \in Ended

\* Who is past the lease has it.
Owned == Calm({"takeover"}) => \A p \in Procs : Holds(p) => lease.owner = p

AllResets(s) == \A i \in 1..Len(s) : s[i] \in Resets

ResetsFirst(s) ==
    \A i \in 1..Len(s) : \A j \in 1..i : s[i] \in Resets => s[j] \in Resets

ResetNext(s) == s # <<>> /\ Head(s) \in Resets

\* What a store in service knows of the file, and what waits in its queue:
\* resets come before mutations, and one that is not needed any more finds
\* nothing to give up.
Stored(p) ==
    /\ pc[p] = "serve" /\ ~readonly[p] => file.state = copy[p]
    /\ pc[p] = "renamed" => file.state = NextState(p) /\ (readonly[p] => acked = {})
    /\ readonly[p] => AllResets(queue[p])
    /\ ResetsFirst(queue[p])
    /\ ~readonly[p] /\ ResetNext(queue[p]) => acked \subseteq UNION aside

Served ==
    Calm({"takeover"}) =>
      /\ acked \subseteq file.state \cup UNION aside
      /\ file.kind = "absent" => file.state = {}
      /\ \A p \in Procs : pc[p] \in Serving => Stored(p)

\* A store that opens has nothing to do yet, one that writes has something.
Queued ==
    \A p \in Procs :
      /\ pc[p] \in {"out"} \cup Opening => queue[p] = <<>>
      /\ pc[p] = "renamed" => queue[p] # <<>>

IInv == TypeOK /\ Trying /\ Judged /\ Owned /\ Queued /\ Served

-----------------------------------------------------------------------------
(* The types.                                                              *)

LEMMA MovesTyped ==
    ASSUME NEW p \in Procs, TypeOK, NEW at, Goes(p, at),
           at \in {"out"} \cup Opening \cup Serving \cup Leaving \cup Ended
    PROVE  /\ pc' \in [Procs -> {"out"} \cup Opening \cup Serving \cup Leaving \cup Ended]
           /\ pc'[p] = at
           /\ \A q \in Procs \ {p} : pc'[q] = pc[q]
    BY DEF TypeOK, Goes

Leases == [owner : Procs \cup {Nobody}, whole : BOOLEAN]

LEMMA NoLeaseTyped == NoLease \in Leases
    BY DEF NoLease, Leases

LEMMA OwnLeaseTyped ==
    ASSUME NEW p \in Procs, NEW whole \in BOOLEAN
    PROVE  [owner |-> p, whole |-> whole] \in Leases
    BY DEF Leases

LEMMA LeaseWritten ==
    ASSUME lease \in Leases PROVE [lease EXCEPT !.whole = TRUE] \in Leases
    BY DEF Leases

LEMMA TroubleTyped == TypeOK /\ Trouble => troubles' \in 0..MaxTroubles
    BY DEF TypeOK, Trouble

LEMMA AcquireTyped ==
    ASSUME TypeOK, Trying, NEW p \in Procs, Acquire(p)
    PROVE  TypeOK'
<1> USE DEF Opening, Serving, Leaving, Ended
<1>1. CASE Start(p)
    <2>1. Goes(p, "create") BY <1>1 DEF Start
    <2> QED BY <1>1, <2>1, MovesTyped DEF TypeOK, Start, owning, stored, memory
<1>2. CASE Create(p)
    <2>1. PICK at \in {"write", "read", "refused"} : Goes(p, at) BY <1>2 DEF Create
    <2>2. pc' \in [Procs -> {"out"} \cup Opening \cup Serving \cup Leaving \cup Ended]
        BY <2>1, MovesTyped
    <2>3. troubles' \in 0..MaxTroubles BY <1>2, TroubleTyped DEF Create, TypeOK
    <2>4. lease' = [owner |-> p, whole |-> FALSE] \/ lease' = lease
        BY <1>2 DEF Create
    <2>5. lease' \in Leases BY <2>4, OwnLeaseTyped DEF TypeOK, Leases
    <2> QED BY <1>2, <2>2, <2>3, <2>5 DEF TypeOK, Create, Leases, stored, memory
<1>3. CASE WriteLease(p)
    <2>1. PICK at \in {"load", "refused"} : Goes(p, at) BY <1>3 DEF WriteLease
    <2>2. pc' \in [Procs -> {"out"} \cup Opening \cup Serving \cup Leaving \cup Ended]
        BY <2>1, MovesTyped
    <2>3. troubles' \in 0..MaxTroubles BY <1>3, TroubleTyped DEF WriteLease, TypeOK
    <2>4. lease' \in {lease, NoLease, [lease EXCEPT !.whole = TRUE]}
        BY <1>3 DEF WriteLease
    <2>5. lease' \in Leases BY <2>4, NoLeaseTyped, LeaseWritten DEF TypeOK, Leases
    <2> QED BY <1>3, <2>2, <2>3, <2>5 DEF TypeOK, WriteLease, Leases, stored, memory
<1>4. CASE ReadLease(p)
    <2>1. PICK at \in {"judge", "refused"} : Goes(p, at) BY <1>4 DEF ReadLease
    <2>2. pc' \in [Procs -> {"out"} \cup Opening \cup Serving \cup Leaving \cup Ended]
        BY <2>1, MovesTyped
    <2>3. seen' \in [Procs -> Procs \cup {Nobody}] BY <1>4 DEF ReadLease, TypeOK
    <2>4. mishaps' \subseteq Mishaps BY <1>4 DEF ReadLease, TypeOK, Mishaps
    <2> QED BY <1>4, <2>2, <2>3, <2>4 DEF TypeOK, ReadLease, stored, memory
<1>5. CASE Judge(p)
    <2>1. PICK at \in {"refused", "move"} : Goes(p, at) BY <1>5 DEF Judge
    <2>2. pc' \in [Procs -> {"out"} \cup Opening \cup Serving \cup Leaving \cup Ended]
        BY <2>1, MovesTyped
    <2> QED BY <1>5, <2>2 DEF TypeOK, Judge, owning, stored, memory
<1>6. CASE MoveLease(p)
    <2>1. PICK at \in {"create", "refused"} : Goes(p, at)
        BY <1>6 DEF MoveLease, Missing, Retry
    <2>2. pc' \in [Procs -> {"out"} \cup Opening \cup Serving \cup Leaving \cup Ended]
        BY <2>1, MovesTyped
    <2>3. troubles' \in 0..MaxTroubles BY <1>6, TroubleTyped DEF MoveLease, TypeOK
    <2>4. lease' \in Leases BY <1>6, NoLeaseTyped DEF MoveLease, TypeOK, Leases
    <2>5. mishaps' \subseteq Mishaps BY <1>6 DEF MoveLease, TypeOK, Mishaps
    <2>6. tries' = tries \/ tries' = [tries EXCEPT ![p] = @ + 1]
        BY <1>6 DEF MoveLease, Missing, Retry
    <2>7. tries[p] \in 0..Attempts /\ tries[p] < Attempts
        BY <1>6 DEF MoveLease, Trying, TypeOK
    <2>8. tries[p] + 1 \in 0..Attempts BY <2>7
    <2>9. tries' \in [Procs -> 0..Attempts] BY <2>6, <2>8 DEF TypeOK
    <2> QED
        BY <1>6, <2>2, <2>3, <2>4, <2>5, <2>9 DEF TypeOK, MoveLease, stored, memory, Leases
<1> QED BY <1>1, <1>2, <1>3, <1>4, <1>5, <1>6 DEF Acquire

LEMMA QueueTyped ==
    ASSUME TypeOK, NEW p \in Procs, queue' = [queue EXCEPT ![p] = Tail(@)], queue[p] # <<>>
    PROVE  queue' \in [Procs -> Seq(Ops)]
<1>1. queue[p] \in Seq(Ops) BY DEF TypeOK
<1>2. Tail(queue[p]) \in Seq(Ops) BY <1>1, HeadTailProperties
<1> QED BY <1>2 DEF TypeOK

LEMMA NextStateTyped ==
    ASSUME TypeOK, NEW p \in Procs, queue[p] # <<>>
    PROVE  NextState(p) \in SUBSET Writes /\ Head(queue[p]) \in Ops
<1>1. queue[p] \in Seq(Ops) BY DEF TypeOK
<1>2. Head(queue[p]) \in Ops BY <1>1
<1>3. copy[p] \in SUBSET Writes BY DEF TypeOK
<1> QED BY <1>2, <1>3 DEF NextState, Ops

LEMMA OpensTyped ==
    ASSUME TypeOK, NEW p \in Procs, NEW state \in SUBSET Writes, NEW recovery \in BOOLEAN,
           Opens(p, state, recovery)
    PROVE  /\ copy' \in [Procs -> SUBSET Writes]
           /\ readonly' \in [Procs -> BOOLEAN]
           /\ pc' \in [Procs -> {"out"} \cup Opening \cup Serving \cup Leaving \cup Ended]
<1>1. Goes(p, "serve") BY DEF Opens
<1>2. pc' \in [Procs -> {"out"} \cup Opening \cup Serving \cup Leaving \cup Ended]
    BY <1>1, MovesTyped DEF Serving
<1> QED BY <1>2 DEF Opens, TypeOK

Files == [kind : {"absent", "good", "damaged"}, state : SUBSET Writes]

LEMMA FileTyped ==
    ASSUME NEW kind \in {"absent", "good", "damaged"}, NEW state \in SUBSET Writes
    PROVE  [kind |-> kind, state |-> state] \in Files
    BY DEF Files

LEMMA ServeTyped ==
    ASSUME TypeOK, Queued, NEW p \in Procs, Serve(p)
    PROVE  TypeOK'
<1> file.state \in SUBSET Writes BY DEF TypeOK
<1>1. CASE Load(p)
    <2>1. \/ Opens(p, {}, FALSE) \/ Opens(p, {}, TRUE) \/ Opens(p, file.state, FALSE)
          \/ Goes(p, "quarantine") /\ UNCHANGED <<copy, readonly>>
          \/ Goes(p, "check") /\ UNCHANGED <<copy, readonly>>
        BY <1>1 DEF Load, Unreadable, Unopened
    <2>2. /\ copy' \in [Procs -> SUBSET Writes]
          /\ readonly' \in [Procs -> BOOLEAN]
          /\ pc' \in [Procs -> {"out"} \cup Opening \cup Serving \cup Leaving \cup Ended]
        BY <2>1, OpensTyped, MovesTyped DEF TypeOK, Opening, Leaving
    <2>3. troubles' \in 0..MaxTroubles BY <1>1, TroubleTyped DEF Load, TypeOK
    <2> QED BY <1>1, <2>2, <2>3 DEF TypeOK, Load, owning, stored
<1>2. CASE Quarantine(p)
    <2>1. Opens(p, {}, TRUE) BY <1>2 DEF Quarantine
    <2>2. /\ copy' \in [Procs -> SUBSET Writes]
          /\ readonly' \in [Procs -> BOOLEAN]
          /\ pc' \in [Procs -> {"out"} \cup Opening \cup Serving \cup Leaving \cup Ended]
        BY <2>1, OpensTyped
    <2>3. troubles' \in 0..MaxTroubles BY <1>2, TroubleTyped DEF Quarantine, TypeOK
    <2>4. file' = file \/ file' = [kind |-> "absent", state |-> {}] BY <1>2 DEF Quarantine
    <2>5. file' \in Files BY <2>4, FileTyped DEF TypeOK, Files
    <2>6. aside' \subseteq SUBSET Writes BY <1>2 DEF Quarantine, TypeOK
    <2> QED BY <1>2, <2>2, <2>3, <2>5, <2>6 DEF TypeOK, Quarantine, owning, Files
<1>3. CASE Rename(p)
    <2>1. NextState(p) \in SUBSET Writes BY <1>3, NextStateTyped DEF Rename
    <2>2. pc' \in [Procs -> {"out"} \cup Opening \cup Serving \cup Leaving \cup Ended]
        BY <1>3, MovesTyped DEF Rename, Serving, TypeOK
    <2>3. troubles' \in 0..MaxTroubles BY <1>3, TroubleTyped DEF Rename, TypeOK
    <2>4. file' = file \/ file' = [kind |-> "good", state |-> NextState(p)]
        BY <1>3 DEF Rename
    <2>5. file' \in Files BY <2>1, <2>4, FileTyped DEF TypeOK, Files
    <2>6. queue' \in [Procs -> Seq(Ops)] BY <1>3, QueueTyped DEF Rename, TypeOK
    <2>7. acked' \subseteq Writes BY <1>3 DEF Rename, TypeOK
    <2> QED BY <1>3, <2>2, <2>3, <2>5, <2>6, <2>7 DEF TypeOK, Rename, owning, Files
<1>4. CASE Acknowledge(p)
    <2>1. queue[p] # <<>> BY <1>4 DEF Acknowledge, Queued
    <2>2. pc' \in [Procs -> {"out"} \cup Opening \cup Serving \cup Leaving \cup Ended]
        BY <1>4, MovesTyped DEF Acknowledge, Serving
    <2>3. queue' \in [Procs -> Seq(Ops)] BY <1>4, <2>1, QueueTyped DEF Acknowledge
    <2>4. copy' \in [Procs -> SUBSET Writes]
        BY <1>4, <2>1, NextStateTyped DEF Acknowledge, TypeOK
    <2>5. readonly' \in [Procs -> BOOLEAN] BY <1>4 DEF Acknowledge, TypeOK
    <2>6. acked' \subseteq Writes BY <1>4 DEF Acknowledge, TypeOK
    <2> QED BY <1>4, <2>2, <2>3, <2>4, <2>5, <2>6 DEF Acknowledge, TypeOK, owning
<1>5. CASE \E op \in Ops : Ask(p, op)
    <2>1. PICK op \in Ops : Ask(p, op) BY <1>5
    <2>2. Append(queue[p], op) \in Seq(Ops) BY DEF TypeOK
    <2>3. queue' \in [Procs -> Seq(Ops)] BY <2>1, <2>2 DEF Ask, TypeOK
    <2>4. asked' \subseteq Ops BY <2>1 DEF Ask, TypeOK
    <2> QED BY <2>1, <2>3, <2>4 DEF Ask, TypeOK, owning, stored
<1> QED BY <1>1, <1>2, <1>3, <1>4, <1>5 DEF Serve

LEMMA ReleaseTyped ==
    ASSUME TypeOK, NEW p \in Procs, Release(p)
    PROVE  TypeOK'
<1>1. CASE Close(p)
    BY <1>1 DEF Close, TypeOK, owning, stored
<1>2. CASE Drain(p)
    <2>1. pc' \in [Procs -> {"out"} \cup Opening \cup Serving \cup Leaving \cup Ended]
        BY <1>2, MovesTyped DEF Drain, Leaving
    <2> QED BY <1>2, <2>1 DEF Drain, TypeOK, owning, stored, memory
<1>3. CASE CheckLease(p)
    <2>1. PICK at \in {"unlink", "closed"} : Goes(p, at) BY <1>3 DEF CheckLease
    <2>2. pc' \in [Procs -> {"out"} \cup Opening \cup Serving \cup Leaving \cup Ended]
        BY <2>1, MovesTyped DEF Leaving, Ended
    <2> QED BY <1>3, <2>2 DEF CheckLease, TypeOK, owning, stored, memory
<1>4. CASE UnlinkLease(p)
    <2>1. pc' \in [Procs -> {"out"} \cup Opening \cup Serving \cup Leaving \cup Ended]
        BY <1>4, MovesTyped DEF UnlinkLease, Ended
    <2>2. lease' \in Leases BY <1>4, NoLeaseTyped DEF UnlinkLease, TypeOK, Leases
    <2>3. troubles' \in 0..MaxTroubles BY <1>4, TroubleTyped DEF UnlinkLease, TypeOK
    <2> QED BY <1>4, <2>1, <2>2, <2>3 DEF UnlinkLease, TypeOK, Leases, stored, memory
<1> QED BY <1>1, <1>2, <1>3, <1>4 DEF Release

LEMMA OutsideTyped ==
    ASSUME TypeOK, Damage \/ \E p \in Procs : Crash(p)
    PROVE  TypeOK'
<1>1. CASE Damage
    <2>1. file' \in Files BY <1>1 DEF Damage, TypeOK, Files
    <2>2. troubles' \in 0..MaxTroubles BY <1>1, TroubleTyped DEF Damage
    <2> QED BY <1>1, <2>1, <2>2 DEF Damage, TypeOK, owning, memory, Files
<1>2. CASE \E p \in Procs : Crash(p)
    <2>1. PICK p \in Procs : Crash(p) BY <1>2
    <2>2. pc' \in [Procs -> {"out"} \cup Opening \cup Serving \cup Leaving \cup Ended]
        BY <2>1, MovesTyped DEF Crash, Ended
    <2>3. troubles' \in 0..MaxTroubles BY <2>1, TroubleTyped DEF Crash
    <2>4. mishaps' \subseteq Mishaps BY <2>1 DEF Crash, TypeOK, Mishaps
    <2> QED BY <2>1, <2>2, <2>3, <2>4 DEF Crash, TypeOK, owning, stored, memory
<1> QED BY <1>1, <1>2

-----------------------------------------------------------------------------
(* What the step of one process leaves alone, and where it takes it.       *)

Step(p) == Acquire(p) \/ Serve(p) \/ Release(p) \/ Crash(p)

LEMMA OthersStay ==
    ASSUME TypeOK, NEW p \in Procs, Step(p), NEW q \in Procs, q # p
    PROVE  /\ pc'[q] = pc[q] /\ tries'[q] = tries[q] /\ seen'[q] = seen[q]
           /\ queue'[q] = queue[q] /\ copy'[q] = copy[q] /\ readonly'[q] = readonly[q]
<1> USE DEF TypeOK, Goes, owning, stored, memory
<1>1. CASE Acquire(p)
    BY <1>1 DEF Acquire, Start, Create, WriteLease, ReadLease, Judge, MoveLease, Missing, Retry
<1>2. CASE Serve(p)
    <2>1. CASE Load(p) BY <2>1 DEF Load, Opens, Unreadable, Unopened
    <2>2. CASE Quarantine(p) BY <2>2 DEF Quarantine, Opens
    <2>3. CASE Rename(p) BY <2>3 DEF Rename
    <2>4. CASE Acknowledge(p) BY <2>4 DEF Acknowledge
    <2>5. CASE \E op \in Ops : Ask(p, op) BY <2>5 DEF Ask
    <2> QED BY <1>2, <2>1, <2>2, <2>3, <2>4, <2>5 DEF Serve
<1>3. CASE Release(p)
    BY <1>3 DEF Release, Close, Drain, CheckLease, UnlinkLease
<1>4. CASE Crash(p)
    BY <1>4 DEF Crash
<1> QED BY <1>1, <1>2, <1>3, <1>4 DEF Step

\* The steps of a process by where they start and end
LEMMA Walks ==
    ASSUME TypeOK, NEW p \in Procs, Step(p)
    PROVE  \/ Start(p) /\ pc[p] = "out" /\ pc'[p] = "create"
           \/ Create(p) /\ pc[p] = "create" /\ pc'[p] \in {"write", "read", "refused"}
           \/ WriteLease(p) /\ pc[p] = "write" /\ pc'[p] \in {"load", "refused"}
           \/ ReadLease(p) /\ pc[p] = "read" /\ pc'[p] \in {"judge", "refused"}
           \/ Judge(p) /\ pc[p] = "judge" /\ pc'[p] \in {"move", "refused"}
           \/ MoveLease(p) /\ pc[p] = "move" /\ pc'[p] \in {"create", "refused"}
           \/ Load(p) /\ pc[p] = "load" /\ pc'[p] \in {"serve", "quarantine", "check"}
           \/ Quarantine(p) /\ pc[p] = "quarantine" /\ pc'[p] = "serve"
           \/ Rename(p) /\ pc[p] = "serve" /\ pc'[p] \in {"serve", "renamed"}
           \/ Acknowledge(p) /\ pc[p] = "renamed" /\ pc'[p] = "serve"
           \/ /\ (\E op \in Ops : Ask(p, op)) \/ Close(p)
              /\ pc[p] \in Serving /\ pc' = pc
           \/ Drain(p) /\ pc[p] = "serve" /\ pc'[p] = "check"
           \/ CheckLease(p) /\ pc[p] = "check" /\ pc'[p] \in {"unlink", "closed"}
           \/ UnlinkLease(p) /\ pc[p] = "unlink" /\ pc'[p] = "closed"
           \/ Crash(p) /\ Live(p) /\ pc'[p] = "dead"
<1> USE DEF TypeOK, Goes
<1>1. CASE Acquire(p)
    BY <1>1 DEF Acquire, Start, Create, WriteLease, ReadLease, Judge, MoveLease, Missing, Retry
<1>2. CASE Serve(p)
    <2>1. CASE Load(p) BY <2>1 DEF Load, Opens, Unreadable, Unopened
    <2>2. CASE Quarantine(p) BY <2>2 DEF Quarantine, Opens
    <2>3. CASE Rename(p) BY <2>3 DEF Rename
    <2>4. CASE Acknowledge(p) BY <2>4 DEF Acknowledge
    <2>5. CASE \E op \in Ops : Ask(p, op) BY <2>5 DEF Ask
    <2> QED BY <1>2, <2>1, <2>2, <2>3, <2>4, <2>5 DEF Serve
<1>3. CASE Release(p)
    BY <1>3 DEF Release, Close, Drain, CheckLease, UnlinkLease
<1>4. CASE Crash(p)
    BY <1>4 DEF Crash
<1> QED BY <1>1, <1>2, <1>3, <1>4 DEF Step

-----------------------------------------------------------------------------
(* The tries, the queues and the lease.                                    *)

LEMMA TryingKept ==
    ASSUME TypeOK, Trying, NEW p \in Procs, Step(p)
    PROVE  Trying'
<1> SUFFICES ASSUME NEW q \in Procs,
                    pc'[q] \in {"out", "create", "write", "read", "judge", "move"}
             PROVE  tries'[q] < Attempts
    BY DEF Trying
<1>1. CASE q # p
    BY <1>1, OthersStay DEF Trying
<1>2. CASE q = p
    <2>1. CASE MoveLease(p)
        <3>1. pc'[p] # "refused" BY <1>2
        <3>2. /\ tries' = [tries EXCEPT ![p] = @ + 1]
              /\ Goes(p, IF tries[p] + 1 = Attempts THEN "refused" ELSE "create")
            BY <2>1, <3>1 DEF MoveLease, Missing, Retry, Goes, TypeOK
        <3>3. tries[p] + 1 # Attempts BY <3>1, <3>2 DEF Goes, TypeOK
        <3>4. tries[p] \in 0..Attempts /\ tries[p] < Attempts
            BY <2>1 DEF MoveLease, Trying, TypeOK
        <3>5. tries'[p] = tries[p] + 1 BY <3>2 DEF TypeOK
        <3> QED BY <1>2, <3>3, <3>4, <3>5
    <2>2. CASE ~MoveLease(p)
        <3>1. /\ pc[p] \in {"out", "create", "write", "read", "judge", "move"}
              /\ Start(p) \/ Create(p) \/ ReadLease(p) \/ Judge(p)
            BY <1>2, <2>2, Walks DEF Serving
        <3>2. tries' = tries
            BY <3>1 DEF Start, Create, ReadLease, Judge, owning
        <3> QED BY <1>2, <3>1, <3>2 DEF Trying
    <2> QED BY <2>1, <2>2
<1> QED BY <1>1, <1>2

LEMMA QueuedKept ==
    ASSUME TypeOK, Queued, NEW p \in Procs, Step(p)
    PROVE  Queued'
<1> SUFFICES ASSUME NEW q \in Procs
             PROVE  /\ pc'[q] \in {"out"} \cup Opening => queue'[q] = <<>>
                    /\ pc'[q] = "renamed" => queue'[q] # <<>>
    BY DEF Queued
<1>1. CASE q # p
    BY <1>1, OthersStay DEF Queued
<1>2. CASE q = p
    <2>1. CASE pc'[p] \in {"out"} \cup Opening
        <3>1. pc[p] \in {"out"} \cup Opening /\ (Acquire(p) \/ Load(p))
            BY <2>1, Walks DEF Opening, Serving, Acquire
        <3>2. queue' = queue
            BY <3>1 DEF Acquire, Start, Create, WriteLease, ReadLease, Judge, MoveLease,
                        Load, memory
        <3> QED BY <1>2, <2>1, <3>1, <3>2 DEF Queued, Opening
    <2>2. CASE pc'[p] = "renamed"
        <3>1. \/ Rename(p)
              \/ /\ (\E op \in Ops : Ask(p, op)) \/ Close(p)
                 /\ pc[p] = "renamed"
            BY <2>2, Walks
        <3>2. CASE Rename(p) BY <1>2, <2>2, <3>2 DEF Rename, Opening
        <3>3. CASE pc[p] = "renamed" /\ \E op \in Ops : Ask(p, op)
            <4>1. PICK op \in Ops : queue' = [queue EXCEPT ![p] = Append(@, op)]
                BY <3>3 DEF Ask
            <4>2. queue'[p] = Append(queue[p], op) /\ queue[p] \in Seq(Ops)
                BY <4>1 DEF TypeOK
            <4>3. queue'[p] # <<>> BY <4>2, AppendProperties
            <4> QED BY <1>2, <2>2, <4>3 DEF Opening
        <3>4. CASE pc[p] = "renamed" /\ Close(p)
            BY <1>2, <3>4, <2>2 DEF Close, Queued, Opening
        <3> QED BY <3>1, <3>2, <3>3, <3>4
    <2> QED BY <1>2, <2>1, <2>2
<1> QED BY <1>1, <1>2

LEMMA StepTyped ==
    ASSUME TypeOK, Trying, Queued, NEW p \in Procs, Step(p)
    PROVE  TypeOK'
    BY AcquireTyped, ServeTyped, ReleaseTyped, OutsideTyped DEF Step

LEMMA MishapsGrow ==
    ASSUME NEW p \in Procs, Step(p)
    PROVE  mishaps \subseteq mishaps'
<1>1. CASE Acquire(p)
    BY <1>1 DEF Acquire, Start, Create, WriteLease, ReadLease, Judge, MoveLease
<1>2. CASE Serve(p)
    BY <1>2 DEF Serve, Load, Quarantine, Rename, Acknowledge, Ask
<1>3. CASE Release(p)
    BY <1>3 DEF Release, Close, Drain, CheckLease, UnlinkLease
<1>4. CASE Crash(p)
    BY <1>4 DEF Crash
<1> QED BY <1>1, <1>2, <1>3, <1>4 DEF Step

\* How the lease changes
LEMMA LeaseMoves ==
    ASSUME TypeOK, NEW p \in Procs, Step(p)
    PROVE  \/ lease' = lease
           \/ lease' = NoLease /\ (WriteLease(p) \/ MoveLease(p) \/ UnlinkLease(p))
           \/ Create(p) /\ lease = NoLease /\ lease'.owner = p
           \/ WriteLease(p) /\ lease.owner = p /\ lease'.owner = p
<1>1. CASE Acquire(p)
    <2>1. CASE Create(p) BY <2>1 DEF Create
    <2>2. CASE WriteLease(p)
        <3>1. CASE lease' = [lease EXCEPT !.whole = TRUE] /\ lease.owner = p
            <4>1. lease'.owner = lease.owner BY <3>1 DEF TypeOK
            <4> QED BY <2>2, <3>1, <4>1
        <3> QED BY <2>2, <3>1 DEF WriteLease
    <2>3. CASE MoveLease(p) BY <2>3 DEF MoveLease
    <2> QED BY <1>1, <2>1, <2>2, <2>3 DEF Acquire, Start, ReadLease, Judge, owning
<1>2. CASE Serve(p)
    BY <1>2 DEF Serve, Load, Quarantine, Rename, Acknowledge, Ask, owning
<1>3. CASE Release(p)
    BY <1>3 DEF Release, Close, Drain, CheckLease, UnlinkLease, owning
<1>4. CASE Crash(p)
    BY <1>4 DEF Crash, owning
<1> QED BY <1>1, <1>2, <1>3, <1>4 DEF Step

LEMMA OnlyOnce ==
    ASSUME TypeOK, NEW p \in Procs, Step(p), NEW q \in Procs
    PROVE  /\ pc[q] # "out" => pc'[q] # "out"
           /\ pc[q] \in Ended => q # p /\ pc'[q] = pc[q]
<1>1. CASE q # p BY <1>1, OthersStay
<1>2. CASE q = p BY <1>2, Walks DEF Ended, Live, Opening, Serving, Leaving
<1> QED BY <1>1, <1>2

LEMMA JudgedKept ==
    ASSUME TypeOK, Judged, NEW p \in Procs, Step(p)
    PROVE  Judged'
<1>1. lease'.owner = Nobody => ~lease'.whole
    <2>1. NoLease.owner = Nobody /\ ~NoLease.whole BY DEF NoLease
    <2> QED BY <2>1, LeaseMoves DEF Judged
<1>2. pc'[p] # "out"
    BY Walks DEF Serving
<1>3. lease'.owner # Nobody => pc'[lease'.owner] # "out"
    <2> SUFFICES ASSUME lease'.owner # Nobody PROVE pc'[lease'.owner] # "out"
        OBVIOUS
    <2>1. lease' # NoLease BY DEF NoLease
    <2>2. CASE lease'.owner = p BY <2>2, <1>2
    <2>3. CASE lease' = lease
        <3>1. lease.owner \in Procs BY <2>3 DEF TypeOK
        <3> QED BY <2>3, <3>1, OnlyOnce DEF Judged
    <2> QED BY <2>1, <2>2, <2>3, LeaseMoves
<1>4. ASSUME NEW q \in Procs, pc'[q] \in {"judge", "move"}
      PROVE  /\ seen'[q] \in Procs /\ pc'[seen'[q]] # "out"
             /\ pc'[q] = "move" => pc'[seen'[q]] \in Ended
    <2>1. CASE q # p
        <3>1. pc[q] = pc'[q] /\ seen'[q] = seen[q] BY <2>1, OthersStay
        <3>2. seen[q] \in Procs /\ pc[seen[q]] # "out" BY <1>4, <3>1 DEF Judged
        <3>3. pc[q] = "move" => pc[seen[q]] \in Ended BY DEF Judged
        <3> QED BY <3>1, <3>2, <3>3, OnlyOnce
    <2>2. CASE q = p /\ ReadLease(p)
        <3>1. pc'[p] = "judge" BY <1>4, <2>2, Walks DEF ReadLease, Live, Serving, Goes, TypeOK
        <3>2. lease.whole /\ seen'[p] = lease.owner
            BY <2>2, <3>1 DEF ReadLease, Goes, TypeOK
        <3>3. lease.owner \in Procs /\ pc[lease.owner] # "out"
            BY <3>2 DEF Judged, TypeOK
        <3> QED BY <2>2, <3>1, <3>2, <3>3, OnlyOnce
    <2>3. CASE q = p /\ ~ReadLease(p)
        <3>1. Judge(p) /\ pc[p] = "judge" /\ pc'[p] = "move"
            BY <1>4, <2>3, Walks DEF Serving
        <3>2. seen' = seen BY <3>1 DEF Judge, owning
        <3>3. ~Live(seen[p]) BY <3>1 DEF Judge, MayBeLive, Goes, TypeOK
        <3>4. seen[p] \in Procs /\ pc[seen[p]] # "out" BY <3>1 DEF Judged
        <3>5. pc[seen[p]] \in Ended BY <3>3, <3>4 DEF Live, TypeOK
        <3> QED BY <2>3, <3>2, <3>4, <3>5, OnlyOnce
    <2> QED BY <2>1, <2>2, <2>3
<1> QED BY <1>1, <1>3, <1>4 DEF Judged

LEMMA OwnedKept ==
    ASSUME TypeOK, Judged, Owned, NEW p \in Procs, Step(p)
    PROVE  Owned'
<1> SUFFICES ASSUME Calm({"takeover"})', NEW q \in Procs, Holds(q)'
             PROVE  lease'.owner = q
    BY DEF Owned
<1>1. Calm({"takeover"}) BY MishapsGrow DEF Calm
<1>2. NoLease.owner = Nobody BY DEF NoLease
<1>3. CASE q # p
    <2>1. Holds(q) BY <1>3, OthersStay DEF Holds
    <2>2. lease.owner = q BY <1>1, <2>1 DEF Owned
    <2>3. lease # NoLease BY <1>2, <2>2
    <2>4. ~WriteLease(p) /\ ~UnlinkLease(p)
        BY <1>1, <1>3, <2>2 DEF Owned, Holds, WriteLease, UnlinkLease, Leaving
    <2>5. CASE lease' = NoLease /\ MoveLease(p)
        <3>1. lease.owner \in {Nobody, seen[p]} \/ lease' = lease
            BY <2>5 DEF MoveLease, Calm
        <3>2. seen[p] = q BY <2>2, <2>3, <2>5, <3>1
        <3>3. pc[q] \in Ended BY <2>5, <3>2 DEF MoveLease, Judged
        <3> QED BY <2>1, <3>3 DEF Holds, Ended, Serving, Leaving
    <2> QED BY <1>3, <2>2, <2>3, <2>4, <2>5, LeaseMoves
<1>4. CASE q = p
    <2>1. CASE Create(p)
        <3>1. pc'[p] = "write"
            BY <1>4, <2>1 DEF Create, Goes, TypeOK, Holds, Serving, Leaving
        <3> QED BY <1>4, <2>1, <3>1 DEF Create, Goes, TypeOK
    <2>2. CASE ~Create(p)
        <3>1. Holds(p)
            BY <1>4, <2>2, Walks DEF Holds, Serving, Leaving
        <3>2. lease.owner = p BY <1>1, <3>1 DEF Owned
        <3>3. ~MoveLease(p) BY <3>1 DEF MoveLease, Holds, Serving, Leaving
        <3>4. ~UnlinkLease(p)
            BY <1>4 DEF UnlinkLease, Holds, Goes, TypeOK, Serving, Leaving
        <3>5. WriteLease(p) => lease' # NoLease
            <4> SUFFICES ASSUME WriteLease(p) PROVE lease' # NoLease
                OBVIOUS
            <4>1. lease' = [lease EXCEPT !.whole = TRUE]
                BY <1>4, <3>2 DEF WriteLease, Holds, Goes, TypeOK, Serving, Leaving
            <4>2. lease'.owner = p BY <3>2, <4>1 DEF TypeOK
            <4> QED BY <1>2, <4>2
        <3> QED BY <1>4, <2>2, <3>2, <3>3, <3>4, <3>5, LeaseMoves
    <2> QED BY <2>1, <2>2
<1> QED BY <1>3, <1>4

-----------------------------------------------------------------------------
(* The state.                                                              *)

LEMMA HeadIsFirst ==
    ASSUME NEW s \in Seq(Ops), s # <<>>
    PROVE  Head(s) = s[1] /\ Len(s) \in Nat \ {0}
    BY EmptySeq

LEMMA ResetsOfTail ==
    ASSUME NEW s \in Seq(Ops), s # <<>>
    PROVE  /\ AllResets(s) => AllResets(Tail(s)) /\ ResetNext(s)
           /\ ResetsFirst(s) => ResetsFirst(Tail(s))
           /\ ResetsFirst(s) /\ ResetNext(Tail(s)) => ResetNext(s)
<1> DEFINE t == Tail(s)
<1>1. /\ t \in Seq(Ops) /\ Len(t) = Len(s) - 1
      /\ \A i \in 1..Len(t) : t[i] = s[i + 1]
    BY HeadTailProperties
<1>2. Head(s) = s[1] /\ Len(s) \in Nat \ {0}
    BY HeadIsFirst
<1> HIDE DEF t
<1>3. \A i \in 1..Len(t) : i + 1 \in 1..Len(s)
    BY <1>1, <1>2
<1>4. AllResets(s) => AllResets(t) /\ ResetNext(s)
    BY <1>1, <1>2, <1>3 DEF AllResets, ResetNext
<1>5. ResetsFirst(s) => ResetsFirst(t)
    <2> SUFFICES ASSUME ResetsFirst(s), NEW i \in 1..Len(t), NEW j \in 1..i, t[i] \in Resets
                 PROVE  t[j] \in Resets
        BY DEF ResetsFirst
    <2>1. i + 1 \in 1..Len(s) /\ j + 1 \in 1..(i + 1) /\ j \in 1..Len(t)
        BY <1>1, <1>2
    <2>2. s[i + 1] \in Resets BY <1>1
    <2>3. s[j + 1] \in Resets BY <2>1, <2>2 DEF ResetsFirst
    <2> QED BY <1>1, <2>1, <2>3
<1>6. ResetsFirst(s) /\ ResetNext(t) => ResetNext(s)
    <2> SUFFICES ASSUME ResetsFirst(s), ResetNext(t) PROVE s[1] \in Resets
        BY <1>2 DEF ResetNext
    <2>1. Head(t) = t[1] /\ Len(t) \in Nat \ {0}
        BY <1>1, HeadIsFirst DEF ResetNext
    <2>2. 1 \in 1..Len(t) /\ 2 \in 1..Len(s) BY <1>1, <1>2, <2>1
    <2>3. t[1] = s[2] BY <1>1, <2>2
    <2>4. s[2] \in Resets BY <2>1, <2>3 DEF ResetNext
    <2> QED BY <2>2, <2>4 DEF ResetsFirst
<1> QED BY <1>4, <1>5, <1>6 DEF t

LEMMA ResetsOfAppend ==
    ASSUME NEW s \in Seq(Ops), NEW op \in Ops
    PROVE  /\ AllResets(s) /\ op \in Resets => AllResets(Append(s, op))
           /\ ResetsFirst(s) /\ (op \in Resets => AllResets(s)) => ResetsFirst(Append(s, op))
           /\ op \notin Resets /\ ResetNext(Append(s, op)) => ResetNext(s)
           /\ s # <<>> => Head(Append(s, op)) = Head(s)
<1> DEFINE t == Append(s, op)
<1>1. /\ Len(t) = Len(s) + 1 /\ Len(s) \in Nat
      /\ \A i \in 1..Len(s) : t[i] = s[i]
      /\ t[Len(s) + 1] = op
    BY AppendProperties
<1>2. Head(t) = IF s = <<>> THEN op ELSE Head(s)
    BY HeadTailAppend
<1> HIDE DEF t
<1>3. AllResets(s) /\ op \in Resets => AllResets(t)
    BY <1>1 DEF AllResets
<1>4. ResetsFirst(s) /\ (op \in Resets => AllResets(s)) => ResetsFirst(t)
    <2> SUFFICES ASSUME ResetsFirst(s), op \in Resets => AllResets(s),
                        NEW i \in 1..Len(t), NEW j \in 1..i, t[i] \in Resets
                 PROVE  t[j] \in Resets
        BY DEF ResetsFirst
    <2>1. CASE i = Len(s) + 1
        BY <1>1, <2>1 DEF AllResets
    <2>2. CASE i \in 1..Len(s)
        <3>1. j \in 1..Len(s) BY <1>1, <2>2
        <3>2. s[i] \in Resets BY <1>1, <2>2
        <3>3. s[j] \in Resets BY <2>2, <3>2 DEF ResetsFirst
        <3> QED BY <1>1, <3>1, <3>3
    <2> QED BY <1>1, <2>1, <2>2
<1> QED BY <1>2, <1>3, <1>4 DEF t, ResetNext

LEMMA EmptyQueue == AllResets(<<>>) /\ ResetsFirst(<<>>) /\ ~ResetNext(<<>>)
    BY DEF AllResets, ResetsFirst, ResetNext

\* A step of the owner that touches the state or its queue
Touches(p) ==
    \/ Load(p) \/ Quarantine(p) \/ Rename(p) \/ Acknowledge(p)
    \/ \E op \in Ops : Ask(p, op)

LEMMA LoadServes ==
    ASSUME TypeOK, Queued, Served, Calm({"takeover"}), NEW p \in Procs,
           Load(p) \/ Quarantine(p)
    PROVE  /\ acked' \subseteq file'.state \cup UNION aside'
           /\ file'.kind = "absent" => file'.state = {}
           /\ pc'[p] \in Serving => Stored(p)'
<1>1. queue[p] = <<>> /\ queue' = queue
    BY DEF Load, Quarantine, Queued, Opening
<1>2. acked' = acked /\ acked \subseteq file.state \cup UNION aside
    BY DEF Load, Quarantine, Served, stored
<1>3. CASE Load(p)
    <2>1. file' = file /\ aside' = aside BY <1>3 DEF Load, stored
    <2>2. pc'[p] \in Serving => pc'[p] = "serve" /\ (~readonly'[p] => copy'[p] = file.state)
        BY <1>3 DEF Load, Opens, Unreadable, Unopened, Goes, TypeOK, Served, Serving
    <2> QED BY <1>1, <1>2, <2>1, <2>2, EmptyQueue DEF Served, Stored
<1>4. CASE Quarantine(p)
    <2>1. \/ file' = file /\ aside' = aside
          \/ file' = [kind |-> "absent", state |-> {}] /\ aside' = aside \cup {file.state}
        BY <1>4 DEF Quarantine
    <2>2. pc'[p] = "serve" /\ readonly'[p] = TRUE
        BY <1>4 DEF Quarantine, Opens, Goes, TypeOK
    <2>3. /\ acked' \subseteq file'.state \cup UNION aside'
          /\ file'.kind = "absent" => file'.state = {}
        BY <1>2, <2>1 DEF Served
    <2> QED BY <1>1, <2>2, <2>3, EmptyQueue DEF Stored
<1> QED BY <1>3, <1>4

LEMMA RenameServes ==
    ASSUME TypeOK, Queued, Served, Calm({"takeover"}), NEW p \in Procs, Rename(p)
    PROVE  /\ acked' \subseteq file'.state \cup UNION aside'
           /\ file'.kind = "absent" => file'.state = {}
           /\ Stored(p)'
<1>1. /\ pc[p] = "serve" /\ queue[p] # <<>> /\ queue[p] \in Seq(Ops)
      /\ aside' = aside /\ copy' = copy /\ readonly' = readonly
    BY DEF Rename, TypeOK
<1>2. Stored(p) /\ acked \subseteq file.state \cup UNION aside
    BY <1>1 DEF Served, Serving
<1>3. readonly[p] => ResetNext(queue[p])
    BY <1>1, <1>2, ResetsOfTail DEF Stored
<1>4. CASE file' = [kind |-> "good", state |-> NextState(p)]
           /\ acked' = (IF Head(queue[p]) \in Resets /\ readonly[p] THEN {} ELSE acked)
           /\ Goes(p, "renamed") /\ queue' = queue
    <2>1. pc'[p] = "renamed" BY <1>4 DEF Goes, TypeOK
    <2>2. file'.state = NextState(p) /\ file'.kind = "good" BY <1>4
    <2>3. readonly[p] => acked' = {} BY <1>3, <1>4 DEF ResetNext
    <2>4. acked' \subseteq acked BY <1>4
    <2>5. acked' \subseteq NextState(p) \cup UNION aside
        <3>1. CASE readonly[p] BY <2>3, <3>1
        <3>2. CASE ~readonly[p] /\ Head(queue[p]) \in Resets
            BY <1>1, <1>2, <2>4, <3>2 DEF Stored, ResetNext
        <3>3. CASE ~readonly[p] /\ Head(queue[p]) \notin Resets
            <4>1. file.state \subseteq NextState(p)
                BY <1>1, <1>2, <3>3 DEF Stored, NextState
            <4> QED BY <1>2, <2>4, <4>1
        <3> QED BY <3>1, <3>2, <3>3
    <2>6. NextState(p)' = NextState(p) BY <1>1, <1>4 DEF NextState
    <2>7. ~readonly[p] /\ ResetNext(queue[p]) => acked' \subseteq UNION aside
        BY <1>2, <2>4 DEF Stored
    <2> QED BY <1>1, <1>2, <1>4, <2>1, <2>2, <2>3, <2>5, <2>6, <2>7 DEF Stored
<1>5. CASE queue' = [queue EXCEPT ![p] = Tail(@)] /\ UNCHANGED <<file, acked, pc>>
    <2>1. queue'[p] = Tail(queue[p]) BY <1>5 DEF TypeOK
    <2>2. /\ readonly[p] => AllResets(Tail(queue[p]))
          /\ ResetsFirst(Tail(queue[p]))
          /\ ~readonly[p] /\ ResetNext(Tail(queue[p])) => acked \subseteq UNION aside
        BY <1>1, <1>2, ResetsOfTail DEF Stored
    <2> QED BY <1>1, <1>2, <1>5, <2>1, <2>2 DEF Stored, Served
<1> QED BY <1>4, <1>5 DEF Rename

LEMMA AcknowledgeServes ==
    ASSUME TypeOK, Queued, Served, Calm({"takeover"}), NEW p \in Procs, Acknowledge(p)
    PROVE  /\ acked' \subseteq file'.state \cup UNION aside'
           /\ file'.kind = "absent" => file'.state = {}
           /\ Stored(p)'
<1>1. /\ pc[p] = "renamed" /\ queue[p] # <<>> /\ queue[p] \in Seq(Ops)
      /\ file' = file /\ aside' = aside
    BY DEF Acknowledge, TypeOK, Queued
<1>2. Stored(p) /\ acked \subseteq file.state \cup UNION aside
    BY <1>1 DEF Served, Serving
<1>3. /\ pc'[p] = "serve" /\ copy'[p] = NextState(p) /\ readonly'[p] = FALSE
      /\ queue'[p] = Tail(queue[p])
    BY DEF Acknowledge, Goes, TypeOK
<1>4. acked' = acked \cup ({Head(queue[p])} \cap Writes) BY DEF Acknowledge
<1>5. file.state = NextState(p) BY <1>1, <1>2 DEF Stored
<1>6. {Head(queue[p])} \cap Writes \subseteq NextState(p)
    BY DEF NextState
<1>7. ResetNext(Tail(queue[p])) => acked' \subseteq UNION aside
    <2> SUFFICES ASSUME ResetNext(Tail(queue[p])) PROVE acked' \subseteq UNION aside
        OBVIOUS
    <2>1. ResetNext(queue[p]) BY <1>1, <1>2, ResetsOfTail DEF Stored
    <2>2. acked' = acked BY <1>4, <2>1 DEF ResetNext
    <2> QED BY <1>1, <1>2, <2>1, <2>2 DEF Stored
<1>8. ResetsFirst(Tail(queue[p])) BY <1>1, <1>2, ResetsOfTail DEF Stored
<1>9. acked' \subseteq file'.state \cup UNION aside'
    BY <1>1, <1>2, <1>4, <1>5, <1>6
<1> QED BY <1>1, <1>3, <1>5, <1>7, <1>8, <1>9 DEF Stored, Served

LEMMA AskServes ==
    ASSUME TypeOK, Queued, Served, Calm({"takeover"}), NEW p \in Procs,
           NEW op \in Ops, Ask(p, op)
    PROVE  /\ acked' \subseteq file'.state \cup UNION aside'
           /\ file'.kind = "absent" => file'.state = {}
           /\ Stored(p)'
<1>1. /\ pc[p] \in Serving /\ queue[p] \in Seq(Ops) /\ pc' = pc /\ file' = file
      /\ aside' = aside /\ acked' = acked /\ copy' = copy /\ readonly' = readonly
      /\ readonly[p] <=> op \in Resets
    BY DEF Ask, TypeOK, stored
<1>2. Stored(p) BY <1>1 DEF Served
<1>3. queue'[p] = Append(queue[p], op) BY DEF Ask, TypeOK
<1>4. /\ readonly[p] => AllResets(queue'[p])
      /\ ResetsFirst(queue'[p])
      /\ ~readonly[p] /\ ResetNext(queue'[p]) => acked \subseteq UNION aside
    BY <1>1, <1>2, <1>3, ResetsOfAppend DEF Stored
<1>5. pc[p] = "renamed" => NextState(p)' = NextState(p)
    BY <1>1, <1>3, ResetsOfAppend DEF NextState, Queued
<1> QED BY <1>1, <1>2, <1>4, <1>5 DEF Stored, Served

LEMMA ServedKept ==
    ASSUME TypeOK, Queued, Owned, Served, NEW p \in Procs, Step(p)
    PROVE  Served'
<1> SUFFICES ASSUME Calm({"takeover"})'
             PROVE  /\ acked' \subseteq file'.state \cup UNION aside'
                    /\ file'.kind = "absent" => file'.state = {}
                    /\ \A q \in Procs : pc'[q] \in Serving => Stored(q)'
    BY DEF Served
<1>1. Calm({"takeover"}) BY MishapsGrow DEF Calm
<1>2. CASE Touches(p)
    <2>1. ASSUME NEW q \in Procs, q # p PROVE pc'[q] \notin Serving
        <3>1. pc[p] \in {"load", "quarantine"} \cup Serving
            BY <1>2 DEF Touches, Load, Quarantine, Rename, Acknowledge, Ask, Serving
        <3>2. pc'[q] = pc[q] BY <2>1, OthersStay
        <3> QED BY <1>1, <2>1, <3>1, <3>2 DEF Owned, Holds
    <2>2. /\ acked' \subseteq file'.state \cup UNION aside'
          /\ file'.kind = "absent" => file'.state = {}
          /\ pc'[p] \in Serving => Stored(p)'
        BY <1>1, <1>2, LoadServes, RenameServes, AcknowledgeServes, AskServes DEF Touches
    <2> QED BY <2>1, <2>2
<1>3. CASE ~Touches(p)
    <2>1. UNCHANGED <<file, aside, acked, copy, readonly, queue>>
        <3>1. CASE Acquire(p)
            BY <3>1 DEF Acquire, Start, Create, WriteLease, ReadLease, Judge, MoveLease,
                        stored, memory
        <3>2. CASE Release(p)
            BY <3>2 DEF Release, Close, Drain, CheckLease, UnlinkLease, stored, memory
        <3>3. CASE Crash(p) BY <3>3 DEF Crash, stored, memory
        <3> QED BY <1>3, <3>1, <3>2, <3>3 DEF Step, Serve, Touches
    <2>2. ASSUME NEW q \in Procs, pc'[q] \in Serving PROVE Stored(q)'
        <3>1. pc'[q] = pc[q]
            <4>1. CASE q # p BY <4>1, OthersStay
            <4>2. CASE q = p BY <1>3, <2>2, <4>2, Walks DEF Touches, Serving
            <4> QED BY <4>1, <4>2
        <3>2. Stored(q) BY <1>1, <2>2, <3>1 DEF Served
        <3>3. NextState(q)' = NextState(q) BY <2>1 DEF NextState
        <3> QED BY <2>1, <3>1, <3>2, <3>3 DEF Stored
    <2> QED BY <1>1, <2>1, <2>2 DEF Served
<1> QED BY <1>2, <1>3

LEMMA DamageKeeps ==
    ASSUME IInv, Damage
    PROVE  IInv'
<1>1. TypeOK' BY OutsideTyped DEF IInv
<1>2. /\ UNCHANGED <<lease, seen, tries, pc, acked, aside, mishaps>>
      /\ UNCHANGED <<copy, readonly, queue>>
      /\ \A p \in Procs : ~Live(p)
    BY DEF Damage, owning, memory
<1>3. Trying' /\ Judged' /\ Owned' /\ Queued'
    BY <1>2 DEF IInv, Trying, Judged, Owned, Queued, Holds, Calm
<1>4. file'.state = file.state /\ file'.kind = "damaged"
    BY DEF Damage, IInv, TypeOK
<1>5. \A p \in Procs : pc'[p] \notin Serving
    BY <1>2 DEF Live
<1>6. Served'
    BY <1>2, <1>4, <1>5 DEF IInv, Served, Calm
<1> QED BY <1>1, <1>3, <1>6 DEF IInv

LEMMA InitHolds == Init => IInv
<1> SUFFICES ASSUME Init PROVE IInv
    OBVIOUS
<1>1. TypeOK BY NoLeaseTyped DEF Init, TypeOK, Leases
<1>2. Trying /\ Queued BY DEF Init, Trying, Queued
<1>3. Judged BY DEF Init, Judged, NoLease
<1>4. Owned /\ Served BY DEF Init, Owned, Served, Holds, Serving, Leaving
<1> QED BY <1>1, <1>2, <1>3, <1>4 DEF IInv

LEMMA InvStep == IInv /\ [Next]_vars => IInv'
<1> SUFFICES ASSUME IInv, [Next]_vars PROVE IInv'
    OBVIOUS
<1>1. CASE Damage BY <1>1, DamageKeeps
<1>2. CASE \E p \in Procs : Step(p)
    <2>1. PICK p \in Procs : Step(p) BY <1>2
    <2>2. TypeOK /\ Trying /\ Judged /\ Owned /\ Queued /\ Served BY DEF IInv
    <2> QED
        BY <2>1, <2>2, StepTyped, TryingKept, JudgedKept, OwnedKept, QueuedKept, ServedKept
        DEF IInv
<1>3. CASE UNCHANGED vars
    <2>1. UNCHANGED <<lease, pc, seen, tries, copy, readonly, queue, closing>>
        BY <1>3 DEF vars
    <2>2. UNCHANGED <<file, aside, asked, acked, mishaps, troubles>>
        BY <1>3 DEF vars
    <2>3. \A p \in Procs : /\ Stored(p)' <=> Stored(p)
                           /\ Holds(p)' <=> Holds(p)
        BY <2>1, <2>2 DEF Stored, NextState, Holds
    <2> QED
        BY <2>1, <2>2, <2>3
        DEF IInv, TypeOK, Trying, Judged, Owned, Queued, Served, Calm
<1> QED BY <1>1, <1>2, <1>3 DEF Next, Step

\* The inductive invariant holds in every behaviour.
THEOREM InvCorrect == Spec => []IInv
<1>1. Init => IInv BY InitHolds
<1>2. IInv /\ [Next]_vars => IInv' BY InvStep
<1> QED BY <1>1, <1>2, PTL DEF Spec

\* Every variable keeps its type (store.ts), for any processes, mutations,
\* tries and troubles.
THEOREM StateTypeCorrect == Spec => []TypeOK
<1>1. IInv => TypeOK BY DEF IInv
<1> QED BY <1>1, InvCorrect, PTL

\* No two processes use the state directory at the same time
\* (acquireOwnerLease, releaseOwnerLease), however many open it and crash, as
\* long as none moves away a lease that it has not judged.
THEOREM OneOwnerAtATime == Spec => []OneOwner
<1>1. IInv => OneOwner
    BY DEF IInv, Owned, OneOwner, Exclusive
<1> QED BY <1>1, InvCorrect, PTL

\* What a store acknowledged stays in state.json or in a quarantined file
\* (mutate, resetRecovery, recoveryState) until an operator resets the state.
THEOREM AcknowledgedIsKept == Spec => []NothingLost
<1>1. IInv => NothingLost
    BY DEF IInv, Served, NothingLost
<1> QED BY <1>1, InvCorrect, PTL

-----------------------------------------------------------------------------
(* Why a process is refused.                                               *)

\* Who has yet to own the lease does not, and judges somebody else.
Foreign ==
    \A p \in Procs :
      /\ pc[p] \in {"out", "create", "read", "judge", "move"} => lease.owner # p
      /\ pc[p] \in {"judge", "move"} => seen[p] # p

\* A lease that is not whole is being written, unless its writer died.
Torn == Calm({"torn"}) => lease = NoLease \/ lease.whole \/ pc[lease.owner] = "write"

\* The others that have ended and own nothing any more
Gone(p) == {q \in Procs \ {p} : pc[q] \in Ended /\ lease.owner # q}

\* Each try has done with another owner.
Spent ==
    \A p \in Procs :
      tries[p] <= Cardinality(IF pc[p] \in {"judge", "move"} THEN Gone(p) \ {seen[p]} ELSE Gone(p))

RefusalInv == Foreign /\ Torn /\ Spent

LEMMA CardinalityGrows ==
    ASSUME NEW S, NEW T, IsFiniteSet(T), S \subseteq T
    PROVE  Cardinality(S) \in Nat /\ Cardinality(T) \in Nat /\ Cardinality(S) <= Cardinality(T)
<1>1. IsFiniteSet(S) /\ Cardinality(S) <= Cardinality(T)
    BY FS_Subset
<1> QED BY <1>1, FS_CardinalityType

LEMMA ForeignKept ==
    ASSUME TypeOK, Foreign, NEW p \in Procs, Step(p)
    PROVE  Foreign'
<1>1. NoLease.owner = Nobody BY DEF NoLease
<1> SUFFICES ASSUME NEW q \in Procs
             PROVE  /\ pc'[q] \in {"out", "create", "read", "judge", "move"} => lease'.owner # q
                    /\ pc'[q] \in {"judge", "move"} => seen'[q] # q
    BY DEF Foreign
<1>2. CASE q # p
    <2>1. pc'[q] = pc[q] /\ seen'[q] = seen[q] BY <1>2, OthersStay
    <2>2. lease'.owner \in {lease.owner, Nobody, p} BY <1>1, LeaseMoves
    <2> QED BY <1>2, <2>1, <2>2 DEF Foreign
<1>3. CASE q = p
    <2> SUFFICES ASSUME pc'[p] \in {"out", "create", "read", "judge", "move"}
                 PROVE  lease'.owner # p /\ (pc'[p] \in {"judge", "move"} => seen'[p] # p)
        BY <1>3
    <2>1. /\ pc[p] \in {"out", "create", "read", "judge", "move"}
          /\ Start(p) \/ (Create(p) /\ pc'[p] = "read") \/ ReadLease(p) \/ Judge(p) \/ MoveLease(p)
        BY Walks DEF Serving
    <2>2. lease.owner # p BY <2>1 DEF Foreign
    <2>3. lease'.owner # p
        <3>1. lease' = lease \/ lease' = NoLease
            BY <2>1 DEF Start, Create, ReadLease, Judge, MoveLease, owning, Goes, TypeOK
        <3> QED BY <1>1, <2>2, <3>1
    <2>4. pc'[p] \in {"judge", "move"} => seen'[p] # p
        <3> SUFFICES ASSUME pc'[p] \in {"judge", "move"} PROVE seen'[p] # p
            OBVIOUS
        <3>1. ReadLease(p) \/ Judge(p)
            BY <2>1, Walks DEF Serving, Start, ReadLease, Judge, MoveLease
        <3>2. CASE ReadLease(p)
            <4>1. seen'[p] = lease.owner BY <3>2 DEF ReadLease, Goes, TypeOK
            <4> QED BY <2>2, <4>1
        <3>3. CASE Judge(p)
            BY <3>3 DEF Judge, Foreign, owning
        <3> QED BY <3>1, <3>2, <3>3
    <2> QED BY <2>3, <2>4
<1> QED BY <1>2, <1>3

LEMMA TornKept ==
    ASSUME TypeOK, Torn, NEW p \in Procs, Step(p)
    PROVE  Torn'
<1> SUFFICES ASSUME Calm({"torn"})', lease' # NoLease, ~lease'.whole
             PROVE  pc'[lease'.owner] = "write"
    BY DEF Torn
<1>1. Calm({"torn"}) BY MishapsGrow DEF Calm
<1>2. CASE lease' = lease
    <2>1. pc[lease.owner] = "write" BY <1>1, <1>2 DEF Torn
    <2>2. CASE lease.owner = p
        <3>1. WriteLease(p) \/ Crash(p) BY <2>1, <2>2, Walks DEF Serving
        <3>2. ~Crash(p) BY <2>1, <2>2 DEF Crash, Calm
        <3>3. WriteLease(p) => lease'.whole \/ lease' = NoLease
            BY <2>2 DEF WriteLease, TypeOK
        <3> QED BY <3>1, <3>2, <3>3
    <2>3. CASE lease.owner # p
        <3>1. lease.owner \in Procs \/ lease.owner = Nobody BY DEF TypeOK
        <3>2. lease.owner \in Procs
            BY <2>1, <3>1, <1>2 DEF TypeOK, NoLease
        <3> QED BY <1>2, <2>1, <2>3, <3>2, OthersStay
    <2> QED BY <2>2, <2>3
<1>3. CASE Create(p) /\ lease = NoLease /\ lease'.owner = p
    <2>1. lease'.owner = p /\ pc'[p] = "write"
        BY <1>3 DEF Create, Goes, TypeOK
    <2> QED BY <2>1
<1>4. CASE WriteLease(p) /\ lease.owner = p
    BY <1>4 DEF WriteLease, TypeOK
<1> QED BY <1>2, <1>3, <1>4, LeaseMoves

LEMMA GoneGrows ==
    ASSUME TypeOK, NEW p \in Procs, Step(p), NEW q \in Procs
    PROVE  Gone(q) \subseteq Gone(q)'
<1>1. NoLease.owner = Nobody BY DEF NoLease
<1> SUFFICES ASSUME NEW e \in Gone(q) PROVE e \in Gone(q)'
    OBVIOUS
<1>2. e \in Procs \ {q} /\ pc[e] \in Ended /\ lease.owner # e BY DEF Gone
<1>3. pc'[e] \in Ended /\ e # p BY <1>2, OnlyOnce
<1>4. lease'.owner # e BY <1>1, <1>2, <1>3, LeaseMoves
<1> QED BY <1>2, <1>3, <1>4 DEF Gone

\* What a process has tried is no more than the owners it has done with.
LEMMA SpentKept ==
    ASSUME IsFiniteSet(Procs), TypeOK, Judged, Foreign, Spent, NEW p \in Procs, Step(p)
    PROVE  Spent'
<1> DEFINE Others(q) == IF pc[q] \in {"judge", "move"} THEN Gone(q) \ {seen[q]} ELSE Gone(q)
<1>1. ASSUME NEW q \in Procs PROVE IsFiniteSet(Gone(q)') /\ IsFiniteSet(Others(q))
    <2>1. Gone(q)' \in SUBSET Procs /\ Others(q) \in SUBSET Procs BY DEF Gone
    <2> QED BY <2>1, FS_Subset
<1>2. ASSUME NEW q \in Procs PROVE tries[q] \in Nat /\ tries[q] <= Cardinality(Others(q))
    <2>1. tries[q] \in 0..Attempts BY <1>2 DEF TypeOK
    <2>2. tries[q] <= Cardinality(Others(q)) BY <1>2 DEF Spent
    <2> QED BY <2>1, <2>2
<1>3. ASSUME NEW q \in Procs, tries'[q] = tries[q], Others(q) \subseteq Others(q)'
      PROVE  tries'[q] <= Cardinality(Others(q)')
    <2>1. IsFiniteSet(Others(q)')
        <3>1. Others(q)' \in SUBSET Procs BY DEF Gone
        <3> QED BY <3>1, FS_Subset
    <2>2. /\ Cardinality(Others(q)) \in Nat /\ Cardinality(Others(q)') \in Nat
          /\ Cardinality(Others(q)) <= Cardinality(Others(q)')
        BY <1>3, <2>1, CardinalityGrows
    <2> QED BY <1>2, <1>3, <2>2
<1> SUFFICES ASSUME NEW q \in Procs PROVE tries'[q] <= Cardinality(Others(q)')
    BY DEF Spent
<1>4. Gone(q) \subseteq Gone(q)' BY GoneGrows
<1>5. CASE q # p
    <2>1. pc'[q] = pc[q] /\ seen'[q] = seen[q] /\ tries'[q] = tries[q] BY <1>5, OthersStay
    <2> QED BY <1>3, <1>4, <2>1
<1>6. CASE q = p /\ MoveLease(p) /\ lease' = NoLease /\ tries' # tries
    <2>1. /\ pc[p] = "move" /\ pc'[p] \in {"create", "refused"}
          /\ tries'[p] = tries[p] + 1
        BY <1>6, Walks DEF MoveLease, Missing, Retry, Goes, TypeOK
    <2>2. seen[p] \in Procs /\ seen[p] # p /\ pc[seen[p]] \in Ended
        BY <2>1 DEF Judged, Foreign
    <2>3. seen[p] \in Gone(p)'
        <3>1. pc'[seen[p]] \in Ended BY <2>2, OnlyOnce
        <3>2. lease'.owner # seen[p] BY <1>6, <2>2 DEF NoLease
        <3> QED BY <2>2, <3>1, <3>2 DEF Gone
    <2>4. Others(p) = Gone(p) \ {seen[p]} /\ Others(p)' = Gone(p)'
        BY <2>1
    <2>5. Cardinality(Others(p)) + 1 = Cardinality(Others(p) \cup {seen[p]})
        BY <1>1, <2>4, FS_AddElement, FS_CardinalityType
    <2>6. Others(p) \cup {seen[p]} \subseteq Gone(p)' BY <1>4, <1>6, <2>3, <2>4
    <2>7. /\ Cardinality(Others(p) \cup {seen[p]}) <= Cardinality(Gone(p)')
          /\ Cardinality(Others(p) \cup {seen[p]}) \in Nat /\ Cardinality(Gone(p)') \in Nat
        BY <1>1, <2>6, CardinalityGrows
    <2>8. Cardinality(Others(p)) \in Nat BY <1>1, FS_CardinalityType
    <2> HIDE DEF Others
    <2> QED BY <1>2, <1>6, <2>1, <2>4, <2>5, <2>7, <2>8
<1>7. CASE q = p /\ tries' = tries
    <2>1. Others(p) \subseteq Others(p)'
        <3>1. CASE ReadLease(p) /\ pc'[p] = "judge"
            <4>1. pc[p] = "read" /\ seen'[p] = lease.owner /\ lease' = lease
                BY <3>1 DEF ReadLease, Goes, TypeOK
            <4>2. seen'[p] \notin Gone(p)' BY <4>1 DEF Gone
            <4> QED BY <1>4, <1>7, <3>1, <4>1, <4>2
        <3>2. CASE Judge(p) /\ pc'[p] = "move"
            <4>1. pc[p] = "judge" /\ seen' = seen BY <3>2 DEF Judge, owning
            <4> QED BY <1>4, <1>7, <3>2, <4>1
        <3>3. CASE pc'[p] \notin {"judge", "move"}
            BY <1>4, <1>7, <3>3
        <3>4. pc'[p] \in {"judge", "move"} =>
                (ReadLease(p) /\ pc'[p] = "judge") \/ (Judge(p) /\ pc'[p] = "move")
            BY Walks DEF Serving
        <3> QED BY <3>1, <3>2, <3>3, <3>4
    <2>2. tries'[p] = tries[p] BY <1>7
    <2> QED BY <1>3, <1>7, <2>1, <2>2
<1>8. tries' = tries \/ (MoveLease(p) /\ lease' = NoLease)
    <2>1. CASE MoveLease(p) BY <2>1 DEF MoveLease
    <2>2. CASE ~MoveLease(p)
        BY <2>2, Walks DEF Start, Create, WriteLease, ReadLease, Judge, Load, Quarantine, Rename,
             Acknowledge, Ask, Close, Drain, CheckLease, UnlinkLease, Crash, owning
    <2> QED BY <2>1, <2>2
<1> QED BY <1>5, <1>6, <1>7, <1>8

LEMMA RefusalInit ==
    ASSUME IsFiniteSet(Procs), Init
    PROVE  RefusalInv
<1>1. Foreign BY DEF Init, Foreign, NoLease
<1>2. Torn BY DEF Init, Torn
<1>3. Spent
    <2> SUFFICES ASSUME NEW p \in Procs PROVE 0 <= Cardinality(Gone(p))
        BY DEF Init, Spent
    <2>1. Gone(p) \in SUBSET Procs BY DEF Gone
    <2>2. Cardinality(Gone(p)) \in Nat BY <2>1, FS_Subset, FS_CardinalityType
    <2> QED BY <2>2
<1> QED BY <1>1, <1>2, <1>3 DEF RefusalInv

LEMMA RefusalStep ==
    ASSUME IsFiniteSet(Procs), IInv, RefusalInv, [Next]_vars
    PROVE  RefusalInv'
<1>1. CASE \E p \in Procs : Step(p)
    BY <1>1, ForeignKept, TornKept, SpentKept DEF IInv, RefusalInv
<1>2. CASE UNCHANGED <<lease, pc, seen, tries, mishaps>>
    BY <1>2 DEF RefusalInv, Foreign, Torn, Spent, Gone, Calm
<1>3. CASE Damage
    BY <1>2, <1>3 DEF Damage, owning
<1>4. CASE UNCHANGED vars
    BY <1>2, <1>4 DEF vars
<1> QED BY <1>1, <1>3, <1>4 DEF Next, Step

\* A refusal has another process behind it.
LEMMA RefusedByOther ==
    ASSUME IsFiniteSet(Procs), Cardinality(Procs) <= Attempts, IInv, RefusalInv, [Next]_vars,
           NEW p \in Procs, pc[p] \in {"read", "judge", "move"}, pc'[p] = "refused",
           Calm({"torn", "vanished"})', troubles' = troubles
    PROVE  \E q \in Procs \ {p} : Live(q)
<1>1. TypeOK /\ Judged /\ Foreign /\ Torn /\ Spent BY DEF IInv, RefusalInv
<1>2. Step(p)
    <2>1. pc' # pc BY DEF Damage
    <2>2. PICK q \in Procs : Step(q) BY <2>1 DEF Next, Step, Damage, vars
    <2>3. q = p BY <1>1, <2>2, OthersStay
    <2> QED BY <2>2, <2>3
<1>3. Calm({"torn"}) BY <1>2, MishapsGrow DEF Calm
<1>4. CASE ReadLease(p)
    <2>1. ~lease.whole /\ lease # NoLease
        BY <1>1, <1>4 DEF ReadLease, Goes, TypeOK, Calm
    <2>2. pc[lease.owner] = "write" BY <1>1, <1>3, <2>1 DEF Torn
    <2>3. lease.owner \in Procs BY <1>1, <2>1 DEF TypeOK, NoLease
    <2>4. lease.owner # p BY <1>4, <2>2 DEF ReadLease
    <2> QED BY <2>2, <2>3, <2>4 DEF Live, Opening
<1>5. CASE Judge(p)
    <2>1. Live(seen[p]) BY <1>1, <1>5 DEF Judge, MayBeLive, Goes, TypeOK
    <2>2. seen[p] \in Procs /\ seen[p] # p BY <1>1, <1>5 DEF Judge, Judged, Foreign
    <2> QED BY <2>1, <2>2
<1>6. CASE MoveLease(p)
    <2>1. tries[p] + 1 = Attempts
        BY <1>1, <1>6 DEF MoveLease, Trouble, Missing, Retry, Goes, TypeOK
    <2>2. seen[p] \in Procs /\ seen[p] # p BY <1>1, <1>6 DEF MoveLease, Judged, Foreign
    <2>3. tries[p] <= Cardinality(Gone(p) \ {seen[p]}) BY <1>1, <1>6 DEF MoveLease, Spent
    <2>4. Gone(p) \ {seen[p]} \subseteq (Procs \ {p}) \ {seen[p]} BY DEF Gone
    <2>5. IsFiniteSet(Procs \ {p}) /\ Cardinality(Procs \ {p}) = Cardinality(Procs) - 1
        BY FS_RemoveElement
    <2>6. /\ IsFiniteSet((Procs \ {p}) \ {seen[p]})
          /\ Cardinality((Procs \ {p}) \ {seen[p]}) = Cardinality(Procs \ {p}) - 1
        BY <2>2, <2>5, FS_RemoveElement
    <2>7. /\ Cardinality(Gone(p) \ {seen[p]}) <= Cardinality((Procs \ {p}) \ {seen[p]})
          /\ Cardinality(Gone(p) \ {seen[p]}) \in Nat
          /\ Cardinality((Procs \ {p}) \ {seen[p]}) \in Nat
        BY <2>4, <2>6, CardinalityGrows
    <2>8. Cardinality(Procs) \in Nat /\ tries[p] \in Nat /\ Attempts \in Nat
        BY <1>1, FS_CardinalityType DEF TypeOK
    <2> QED BY <2>1, <2>3, <2>5, <2>6, <2>7, <2>8
<1>7. ~Crash(p) BY <1>1 DEF Crash, Goes, TypeOK
<1> QED BY <1>1, <1>2, <1>4, <1>5, <1>6, <1>7, Walks DEF Serving

\* Only another process that may still use the directory makes one be refused
\* (acquireOwnerLease), as long as no lease is torn and no call fails, where
\* there are enough tries for the owners that may have died before it: each
\* try moves away the lease of another one.
THEOREM RefusedForOthersOnly ==
    ASSUME IsFiniteSet(Procs), Cardinality(Procs) <= Attempts
    PROVE  Spec => RefusedRightly
<1>1. IInv /\ RefusalInv /\ [Next]_vars =>
        [\A p \in Procs :
           (pc[p] \in {"read", "judge", "move"} /\ pc'[p] = "refused"
              /\ mishaps' \cap {"torn", "vanished"} = {} /\ troubles' = troubles)
             => \E q \in Procs \ {p} : Live(q)]_vars
    BY RefusedByOther DEF Calm
<1>2. IInv /\ RefusalInv /\ [Next]_vars => RefusalInv'
    BY RefusalStep
<1>3. Init => RefusalInv
    BY RefusalInit
<1> QED BY <1>1, <1>2, <1>3, InvCorrect, PTL DEF Spec, RefusedRightly

============================================================================
