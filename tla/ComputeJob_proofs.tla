------------------------- MODULE ComputeJob_proofs -------------------------
(***************************************************************************)
(* Theorems about ComputeJob for any number of calls, crashes and faults:  *)
(* a job's command is started at most once, and a job shown as orphaned    *)
(* has no process left.                                                    *)
(***************************************************************************)
EXTENDS ComputeJob, TLAPS

USE JobAssumption, NoneIsNoRecord

-----------------------------------------------------------------------------
(* The inductive invariant.                                                *)

Ever(s) == sup[s].pc # "none"

\* Past its first write of state.json, and not dead
Past(s) == sup[s].pc \notin {"none", "boot", "dead"}

AllDown == \A s \in Submissions : ~Up(s)

\* A call that waits at one of these holds a record.
Holding == {"record", "file", "probe", "orphan", "store", "match", "signal"}

Held ==
    /\ \A c \in Calls :
         /\ call[c].rec # None => row # None
         /\ call[c].pc \in Holding => call[c].rec # None
         /\ call[c].pc \in {"orphan", "store"} => call[c].rec.state = "orphaned"
    /\ \A s \in Submissions :
         /\ Ever(s) => row # None
         /\ sup[s].wall => Ever(s)
         /\ At(s, "record") => Ever(s)

\* A submission that prepares a supervisor is alone, and the first.
Alone ==
    Calm({"raced"}) =>
      /\ \A c \in Submissions : Preparing(c) => row = None
      /\ \A c, d \in Submissions : Preparing(c) /\ Preparing(d) => c = d
      /\ \A s, t \in Submissions : Ever(s) /\ Ever(t) => s = t

\* A record names a supervisor that was started, and calls orphaned only a
\* job without processes.
Sound(r) ==
    r # None => /\ r.by # None => Ever(r.by)
                /\ r.state = "orphaned" => AllDown

Judged ==
    Calm({"raced", "slow"}) =>
      /\ Sound(row) /\ Sound(file)
      /\ \A c \in Calls : Sound(call[c].rec)
      /\ file # None /\ row = None => file.state # "orphaned"
      /\ \A s \in Submissions : Past(s) => file # None /\ file.by = s
      /\ aged => /\ \A c \in Submissions : call[c].pc \notin {"spawn", "record"}
                 /\ \A s \in Submissions : sup[s].pc # "boot"
                 /\ \A c \in Calls :
                      At(c, "probe") /\ call[c].rec.by = None => AllDown

IInv == TypeOK /\ Held /\ Alone /\ Judged

-----------------------------------------------------------------------------
(* How calls move.                                                         *)

LEMMA WaitType ==
    ASSUME TypeOK, NEW c \in Calls, NEW pc \in CallPc, NEW r \in JobRecord \cup {None},
           Wait(c, pc, r)
    PROVE  /\ call' \in [Calls -> [pc : CallPc, rec : JobRecord \cup {None}]]
           /\ call'[c] = [pc |-> pc, rec |-> r]
           /\ \A d \in Calls : d # c => call'[d] = call[d]
BY DEF TypeOK, Wait

LEMMA FinishType ==
    ASSUME TypeOK, NEW c \in Calls, Finish(c)
    PROVE  /\ call' \in [Calls -> [pc : CallPc, rec : JobRecord \cup {None}]]
           /\ call'[c] \in {Idle, Done}
           /\ \A d \in Calls : d # c => call'[d] = call[d]
BY DEF TypeOK, Finish, Idle, Done, CallPc

LEMMA MergedType ==
    ASSUME TypeOK, NEW r \in JobRecord
    PROVE  /\ Merged(r) \in JobRecord
           /\ Merged(r).by # None => \/ Merged(r).by = r.by
                                     \/ file # None /\ Merged(r).by = file.by
           /\ file # None /\ file.by # None => Merged(r).by = file.by
           /\ Merged(r).state = "orphaned" => \/ r.state = "orphaned"
                                              \/ file # None /\ file.state = "orphaned"
<1>1. CASE file = None
    BY <1>1 DEF Merged
<1>2. CASE file # None
    BY <1>2 DEF TypeOK, Merged, JobRecord, Active
<1> QED BY <1>1, <1>2

\* A call at one of these holds a record of the job.
LEMMA HeldRecord ==
    ASSUME TypeOK, Held, NEW c \in Calls, call[c].pc \in Holding
    PROVE  call[c].rec \in JobRecord /\ row \in JobRecord
BY DEF TypeOK, Held

\* A reconciliation ends by storing its record; the call then rests, or goes
\* on to cancel with the same record.
LEMMA ReconciledType ==
    ASSUME TypeOK, NEW c \in Calls, NEW r \in JobRecord, Reconciled(c, r)
    PROVE  /\ row' = r
           /\ daemon' \in {"up", "opening", "down"}
           /\ call' \in [Calls -> [pc : CallPc, rec : JobRecord \cup {None}]]
           /\ call'[c] \in {Idle, Done, [pc |-> "match", rec |-> r]}
           /\ \A d \in Calls : d # c => call'[d] = call[d]
<1>1. row' = r /\ daemon' \in {"up", "opening", "down"}
    BY DEF Reconciled, TypeOK
<1>2. CASE Finish(c)
    BY <1>1, <1>2, FinishType
<1>3. CASE Wait(c, "match", r)
    BY ZenonT(60), <1>1, <1>3, WaitType DEF CallPc
<1> QED BY <1>2, <1>3 DEF Reconciled

-----------------------------------------------------------------------------
(* Type correctness, one action at a time.                                 *)

LEMMA FaultType ==
    ASSUME TypeOK, Fault
    PROVE  mishaps' \subseteq Mishaps /\ troubles' \in 0..MaxTroubles
BY DEF TypeOK, Fault, Trouble, Mishaps

LEMMA LookType ==
    ASSUME TypeOK, NEW c \in Calls, Look(c)
    PROVE  /\ call' \in [Calls -> [pc : CallPc, rec : JobRecord \cup {None}]]
           /\ mishaps' \subseteq Mishaps
BY DEF TypeOK, Look, Wait, CallPc, Mishaps

LEMMA DieType ==
    ASSUME TypeOK, NEW s \in Submissions, Die(s)
    PROVE  /\ sup' \in [Submissions -> SupRecord]
           /\ child' \in [Submissions -> {"none", "alive", "zero", "nonzero"}]
BY DEF TypeOK, Die, NoSupervisor, SupPc, SupRecord

LEMMA StopType ==
    ASSUME TypeOK, NEW s \in Submissions, NEW reason \in {"cancelled", "wall_time"},
           StopChild(s, reason)
    PROVE  /\ sup' \in [Submissions -> SupRecord]
           /\ child' \in [Submissions -> {"none", "alive", "zero", "nonzero"}]
<1> DEFINE x == [sup[s] EXCEPT !.reason = reason, !.kill = TRUE,
                             !.wall = IF reason = "wall_time" THEN FALSE ELSE @]
<1>1. x \in SupRecord
    BY ZenonT(60) DEF TypeOK, SupRecord
<1>2. sup' = [sup EXCEPT ![s] = x]
    BY DEF StopChild, TypeOK, SupRecord
<1> QED BY <1>1, <1>2 DEF StopChild, TypeOK

LEMMA GoesType ==
    ASSUME TypeOK, NEW s \in Submissions, NEW pc \in SupPc, NEW on \in BOOLEAN
    PROVE  /\ [sup EXCEPT ![s].pc = pc] \in [Submissions -> SupRecord]
           /\ [sup EXCEPT ![s].pc = pc, ![s].wall = on] \in [Submissions -> SupRecord]
<1>0. sup[s] \in SupRecord
    BY DEF TypeOK
<1>1. /\ [sup[s] EXCEPT !.pc = pc] \in SupRecord
      /\ [sup[s] EXCEPT !.pc = pc, !.wall = on] \in SupRecord
    BY <1>0 DEF SupRecord
<1>2. /\ [sup EXCEPT ![s].pc = pc] = [sup EXCEPT ![s] = [sup[s] EXCEPT !.pc = pc]]
      /\ [sup EXCEPT ![s].pc = pc, ![s].wall = on]
           = [sup EXCEPT ![s] = [sup[s] EXCEPT !.pc = pc, !.wall = on]]
    BY DEF TypeOK, SupRecord
<1> QED BY <1>1, <1>2 DEF TypeOK

LEMMA TimerType ==
    ASSUME TypeOK, NEW s \in Submissions, NEW on \in BOOLEAN
    PROVE  /\ [sup EXCEPT ![s].beat = on] \in [Submissions -> SupRecord]
           /\ [sup EXCEPT ![s].kill = on] \in [Submissions -> SupRecord]
<1>1. /\ [sup[s] EXCEPT !.beat = on] \in SupRecord
      /\ [sup[s] EXCEPT !.kill = on] \in SupRecord
    BY DEF TypeOK, SupRecord
<1>2. /\ [sup EXCEPT ![s].beat = on] = [sup EXCEPT ![s] = [sup[s] EXCEPT !.beat = on]]
      /\ [sup EXCEPT ![s].kill = on] = [sup EXCEPT ![s] = [sup[s] EXCEPT !.kill = on]]
    BY DEF TypeOK, SupRecord
<1> QED BY <1>1, <1>2 DEF TypeOK

LEMMA RecordTypes ==
    /\ \A state \in {"queued", "starting", "running", "succeeded", "failed", "cancelled"},
          by \in Submissions \cup {None} : [state |-> state, by |-> by] \in JobRecord
    /\ \A r \in JobRecord : /\ [r EXCEPT !.state = "orphaned"] \in JobRecord
                            /\ [r EXCEPT !.state = "cancelled"] \in JobRecord
BY DEF JobRecord, Active, Terminal

LEMMA DaemonTypes ==
    ASSUME TypeOK, Held, NEW c \in Calls,
           \/ Reconcile(c) \/ (c \in Submissions /\ Submit(c))
           \/ (c \in Pollers /\ Poll(c)) \/ (c \in Cancellations /\ Cancel(c))
    PROVE  TypeOK'
<1>1. CASE ReadFile(c)
    <2>1. call[c].rec \in JobRecord
        BY <1>1, HeldRecord DEF ReadFile, At, Holding
    <2>2. Merged(call[c].rec) \in JobRecord
        BY <2>1, MergedType
    <2>3. CASE Reconciled(c, Merged(call[c].rec)) /\ UNCHANGED <<mishaps, troubles>>
        BY <1>1, <2>2, <2>3, ReconciledType DEF ReadFile, processes, TypeOK
    <2>4. CASE /\ Wait(c, "probe", Merged(call[c].rec))
               /\ UNCHANGED <<row, daemon, mishaps, troubles>>
        BY <1>1, <2>2, <2>4, WaitType DEF ReadFile, processes, TypeOK, CallPc
    <2>5. CASE Fault /\ Reject(c) /\ UNCHANGED row
        <3>1. daemon' \in {"up", "opening", "down"}
            BY <2>5 DEF Reject, TypeOK
        <3> QED BY <1>1, <2>5, <3>1, FaultType, FinishType
               DEF ReadFile, Reject, processes, TypeOK
    <2> QED BY <1>1, <2>3, <2>4, <2>5 DEF ReadFile
<1>2. CASE Probe(c)
    <2>1. call[c].rec \in JobRecord
        BY <1>2, HeldRecord DEF Probe, At, Holding
    <2>2. CASE Reconciled(c, call[c].rec)
        BY <1>2, <2>1, <2>2, ReconciledType DEF Probe, processes, TypeOK
    <2>3. CASE /\ Wait(c, "orphan", [call[c].rec EXCEPT !.state = "orphaned"])
               /\ UNCHANGED <<row, daemon>>
        BY <1>2, <2>1, <2>3, WaitType, RecordTypes DEF Probe, processes, TypeOK, CallPc
    <2> QED BY <1>2, <2>2, <2>3 DEF Probe
<1>3. CASE WriteOrphan(c)
    <2>1. call[c].rec \in JobRecord
        BY <1>3, HeldRecord DEF WriteOrphan, At, Holding
    <2>2. CASE /\ file' = call[c].rec
               /\ Wait(c, "store", call[c].rec)
               /\ UNCHANGED <<daemon, mishaps, troubles>>
        BY <1>3, <2>1, <2>2, WaitType DEF WriteOrphan, processes, TypeOK, CallPc
    <2>3. CASE Fault /\ Reject(c) /\ UNCHANGED file
        <3>1. daemon' \in {"up", "opening", "down"}
            BY <2>3 DEF Reject, TypeOK
        <3> QED BY <1>3, <2>3, <3>1, FaultType, FinishType
               DEF WriteOrphan, Reject, processes, TypeOK
    <2> QED BY <1>3, <2>2, <2>3 DEF WriteOrphan
<1>4. CASE StoreOrphan(c)
    <2>1. call[c].rec \in JobRecord
        BY <1>4, HeldRecord DEF StoreOrphan, At, Holding
    <2> QED BY <1>4, <2>1, ReconciledType DEF StoreOrphan, processes, TypeOK
<1>5. CASE c \in Submissions /\ SubmitCall(c)
    <2>1. CASE Look(c)
        BY <1>5, <2>1, LookType DEF SubmitCall, stored, processes, TypeOK
    <2>2. CASE Wait(c, "write", None) /\ mishaps' \subseteq mishaps \cup {"raced"}
        BY <1>5, <2>2, WaitType DEF SubmitCall, stored, processes, TypeOK, CallPc, Mishaps
    <2> QED BY <1>5, <2>1, <2>2 DEF SubmitCall
<1>6. CASE c \in Submissions /\ SubmitWrite(c)
    <2>1. CASE Fault /\ Finish(c) /\ UNCHANGED <<file, aged>>
        BY <1>6, <2>1, FaultType, FinishType DEF SubmitWrite, processes, TypeOK
    <2>2. CASE /\ file' = [state |-> "queued", by |-> None]
               /\ aged' = FALSE
               /\ Wait(c, "spawn", None)
               /\ UNCHANGED <<mishaps, troubles>>
        BY <1>6, <2>2, WaitType, RecordTypes DEF SubmitWrite, processes, TypeOK, CallPc
    <2> QED BY <1>6, <2>1, <2>2 DEF SubmitWrite
<1>7. CASE c \in Submissions /\ SubmitSpawn(c)
    <2>1. row' \in JobRecord
        BY <1>7, RecordTypes DEF SubmitSpawn
    <2>2. sup' \in [Submissions -> SupRecord]
        BY <1>7, GoesType DEF SubmitSpawn, SupPc
    <2>3. call' \in [Calls -> [pc : CallPc, rec : JobRecord \cup {None}]]
        BY <1>7, <2>1, WaitType DEF SubmitSpawn, CallPc
    <2> QED BY <1>7, <2>1, <2>2, <2>3 DEF SubmitSpawn, TypeOK
<1>8. CASE c \in Submissions /\ SubmitRecord(c)
    BY <1>8, FinishType, RecordTypes DEF SubmitRecord, processes, TypeOK
<1>9. CASE c \in Pollers /\ Poll(c)
    BY <1>9, LookType DEF Poll, stored, processes, TypeOK
<1>10. CASE c \in Cancellations /\ CancelCall(c)
    BY <1>10, LookType, FinishType DEF CancelCall, stored, processes, TypeOK
<1>11. CASE c \in Cancellations /\ CancelMatch(c)
    <2>1. call[c].rec \in JobRecord
        BY <1>11, HeldRecord DEF CancelMatch, At, Holding
    <2>2. CASE Wait(c, "signal", call[c].rec) /\ UNCHANGED row
        BY <1>11, <2>1, <2>2, WaitType DEF CancelMatch, processes, TypeOK, CallPc
    <2>3. CASE row' = [call[c].rec EXCEPT !.state = "cancelled"] /\ Finish(c)
        BY <1>11, <2>1, <2>3, FinishType, RecordTypes DEF CancelMatch, processes, TypeOK
    <2> QED BY <1>11, <2>2, <2>3 DEF CancelMatch
<1>12. CASE c \in Cancellations /\ CancelSignal(c)
    <2>1. call[c].rec \in JobRecord
        BY <1>12, HeldRecord DEF CancelSignal, At, Holding
    <2>2. /\ sup' \in [Submissions -> SupRecord]
          /\ child' \in [Submissions -> {"none", "alive", "zero", "nonzero"}]
        <3>1. CASE SupervisorAlive(call[c].rec)
            <4>1. call[c].rec.by \in Submissions
                BY <2>1, <3>1 DEF SupervisorAlive, JobRecord
            <4> QED BY <1>12, <3>1, <4>1, DieType, StopType DEF CancelSignal, Terminate
        <3>2. CASE ~SupervisorAlive(call[c].rec)
            BY <1>12, <3>2 DEF CancelSignal, processes, TypeOK
        <3> QED BY <3>1, <3>2
    <2> QED BY <1>12, <2>2, FinishType DEF CancelSignal, stored, TypeOK
<1> QED BY <1>1, <1>2, <1>3, <1>4, <1>5, <1>6, <1>7, <1>8, <1>9, <1>10, <1>11, <1>12
        DEF Reconcile, Submit, Cancel

LEMMA SupervisorTypes ==
    ASSUME TypeOK, NEW s \in Submissions,
           Supervisor(s) \/ Timers(s) \/ ChildExits(s) \/ SupKilled(s)
    PROVE  TypeOK'
<1>1. CASE SupStart(s)
    <2>1. CASE Fault /\ Die(s) /\ UNCHANGED file
        BY <1>1, <2>1, FaultType, DieType DEF SupStart, TypeOK
    <2>2. CASE /\ Writes(s, "starting") /\ SupGoes(s, "booted")
               /\ UNCHANGED <<child, mishaps, troubles>>
        BY <1>1, <2>2, RecordTypes, GoesType DEF SupStart, Writes, SupGoes, TypeOK, SupPc
    <2> QED BY <1>1, <2>1, <2>2 DEF SupStart
<1>2. CASE SupArm(s)
    BY <1>2, GoesType DEF SupArm, SupGoes, stored, TypeOK, SupPc
<1>3. CASE SupLaunch(s)
    <2>1. CASE /\ SupGoes(s, "launching")
               /\ child' = [child EXCEPT ![s] = "alive"]
               /\ UNCHANGED <<mishaps, troubles>>
        BY <1>3, <2>1, GoesType DEF SupLaunch, SupGoes, stored, TypeOK, SupPc
    <2>2. CASE Fault /\ Die(s)
        BY <1>3, <2>2, FaultType, DieType DEF SupLaunch, stored, TypeOK
    <2>3. CASE Fault /\ SupGoes(s, "failing") /\ UNCHANGED child
        BY <1>3, <2>3, FaultType, GoesType DEF SupLaunch, SupGoes, stored, TypeOK, SupPc
    <2> QED BY <1>3, <2>1, <2>2, <2>3 DEF SupLaunch
<1>4. CASE SupListen(s)
    <2>1. CASE /\ Writes(s, "running")
               /\ sup' = [sup EXCEPT ![s].pc = "listening", ![s].wall = TRUE]
               /\ UNCHANGED <<child, mishaps, troubles>>
        BY <1>4, <2>1, RecordTypes, GoesType DEF SupListen, Writes, TypeOK, SupPc
    <2>2. CASE Writes(s, "running") /\ Die(s) /\ UNCHANGED <<mishaps, troubles>>
        BY <1>4, <2>2, RecordTypes, DieType DEF SupListen, Writes, TypeOK
    <2>3. CASE Fault /\ SupGoes(s, "failing") /\ UNCHANGED <<file, child>>
        BY <1>4, <2>3, FaultType, GoesType DEF SupListen, SupGoes, TypeOK, SupPc
    <2> QED BY <1>4, <2>1, <2>2, <2>3 DEF SupListen
<1>5. CASE SupVerdict(s)
    <2>1. CASE /\ Writes(s, Verdict(s))
               /\ sup' = [sup EXCEPT ![s].pc = "exiting", ![s].wall = FALSE]
               /\ UNCHANGED <<mishaps, troubles>>
        <3>1. file' \in JobRecord
            BY <2>1, RecordTypes DEF Writes, Verdict
        <3> QED BY <1>5, <2>1, <3>1, GoesType DEF SupVerdict, TypeOK, SupPc
    <2>2. CASE /\ Fault
               /\ sup' = [sup EXCEPT ![s].pc = "failing", ![s].wall = FALSE]
               /\ UNCHANGED file
        BY <1>5, <2>2, FaultType, GoesType DEF SupVerdict, TypeOK, SupPc
    <2> QED BY <1>5, <2>1, <2>2 DEF SupVerdict
<1>6. CASE SupFails(s)
    <2>1. sup' \in [Submissions -> SupRecord]
        BY <1>6, GoesType DEF SupFails, SupGoes, TypeOK, SupPc
    <2>2. CASE /\ Writes(s, IF sup[s].reason = "cancelled" THEN "cancelled" ELSE "failed")
               /\ UNCHANGED <<mishaps, troubles>>
        BY <1>6, <2>1, <2>2, RecordTypes DEF SupFails, Writes, TypeOK
    <2>3. CASE Fault /\ UNCHANGED file
        BY <1>6, <2>1, <2>3, FaultType DEF SupFails, TypeOK
    <2> QED BY <1>6, <2>2, <2>3 DEF SupFails
<1>7. CASE SupExit(s)
    BY <1>7, DieType DEF SupExit, stored, TypeOK
<1>8. CASE Beat(s)
    BY <1>8, TimerType DEF Beat, stored, TypeOK
<1>9. CASE BeatLands(s)
    <2>1. CASE /\ Writes(s, "running")
               /\ sup' = [sup EXCEPT ![s].beat = FALSE]
               /\ UNCHANGED <<child, mishaps, troubles>>
        BY <1>9, <2>1, RecordTypes, TimerType DEF BeatLands, Writes, TypeOK
    <2>2. CASE Fault /\ Die(s) /\ UNCHANGED file
        BY <1>9, <2>2, FaultType, DieType, GoesType DEF BeatLands, TypeOK
    <2> QED BY <1>9, <2>1, <2>2 DEF BeatLands
<1>10. CASE WallTime(s)
    BY <1>10, StopType DEF WallTime, stored, TypeOK
<1>11. CASE KillFires(s)
    BY <1>11, TimerType DEF KillFires, stored, TypeOK, Mishaps
<1>12. CASE ChildExits(s)
    BY <1>12 DEF ChildExits, stored, TypeOK
<1>13. CASE SupKilled(s)
    BY <1>13, DieType DEF SupKilled, Trouble, stored, TypeOK
<1> QED BY <1>1, <1>2, <1>3, <1>4, <1>5, <1>6, <1>7, <1>8, <1>9, <1>10, <1>11, <1>12, <1>13
        DEF Supervisor, Timers

LEMMA CrashTypes ==
    ASSUME TypeOK, Crash \/ Restart \/ Age
    PROVE  TypeOK'
<1>1. CASE Crash
    <2>1. row' \in JobRecord \cup {None}
        BY <1>1, RecordTypes DEF Crash, TypeOK
    <2>2. call' \in [Calls -> [pc : CallPc, rec : JobRecord \cup {None}]]
        BY <1>1 DEF Crash, Idle, Done, CallPc
    <2> QED BY <1>1, <2>1, <2>2 DEF Crash, Trouble, processes, TypeOK, Mishaps
<1>2. CASE Restart
    <2>1. Opener \in Calls
        BY DEF Calls
    <2>2. CASE daemon' = "opening" /\ Wait(Opener, "file", row)
        BY <1>2, <2>1, <2>2, WaitType DEF Restart, stored, processes, TypeOK, CallPc
    <2>3. CASE daemon' = "up" /\ UNCHANGED call
        BY <1>2, <2>3 DEF Restart, stored, processes, TypeOK
    <2> QED BY <1>2, <2>2, <2>3 DEF Restart
<1>3. CASE Age
    BY <1>3 DEF Age, stored, processes, TypeOK, Mishaps
<1> QED BY <1>1, <1>2, <1>3

-----------------------------------------------------------------------------
(* What a step of a supervisor, or of its timers, does to the invariant.   *)

Shift(s) ==
    /\ row' = row /\ aged' = aged /\ mishaps \subseteq mishaps'
    /\ \A c \in Calls : call'[c] \in {call[c], Idle, Done}
    /\ \A t \in Submissions \ {s} : sup'[t] = sup[t]
    /\ Ever(s) /\ Ever(s)'
    /\ sup[s].pc = "dead" => sup'[s].pc = "dead"
    /\ sup'[s].pc = "boot" => sup[s].pc = "boot"
    /\ \/ file' = file /\ (Past(s)' => Past(s))
       \/ /\ file' # None /\ file'.by = s /\ file'.state # "orphaned"
          /\ Up(s)

LEMMA ShiftKeeps ==
    ASSUME IInv, NEW s \in Submissions, Shift(s)
    PROVE  Held' /\ Alone' /\ Judged'
<1>1. \A t \in Submissions : (Ever(t)' <=> Ever(t)) /\ (Up(t)' => Up(t))
    BY DEF Shift, Ever, Up
<1>2. \A c \in Calls :
        \/ call'[c] = call[c]
        \/ /\ call'[c].rec = None
           /\ call'[c].pc \in {"idle", "done"}
    <2> TAKE c \in Calls
    <2>1. call'[c] \in {call[c], Idle, Done}
        BY DEF Shift
    <2>2. /\ Idle.rec = None /\ Idle.pc \in {"idle", "done"}
          /\ Done.rec = None /\ Done.pc \in {"idle", "done"}
        BY DEF Idle, Done
    <2> QED BY <2>1, <2>2
<1>3. Held'
    BY <1>1, <1>2 DEF IInv, Held, Shift, Holding, At, Calls
<1>4. Alone'
    <2>1. Calm({"raced"})' => Calm({"raced"})
        BY DEF Shift, Calm
    <2>2. \A c \in Submissions : Preparing(c)' => Preparing(c)
        BY <1>2 DEF Preparing, Calls
    <2> QED BY <1>1, <2>1, <2>2 DEF IInv, Alone, Shift
<1>5. Judged'
    <2> SUFFICES ASSUME Calm({"raced", "slow"})'
                 PROVE  Judged'
        BY DEF Judged
    <2>1. Calm({"raced", "slow"}) /\ Calm({"raced"})
        BY DEF Shift, Calm
    <2>2. /\ Sound(row) /\ Sound(file)
          /\ \A c \in Calls : Sound(call[c].rec)
          /\ file # None /\ row = None => file.state # "orphaned"
          /\ \A t \in Submissions : Past(t) => file # None /\ file.by = t
          /\ aged => /\ \A c \in Submissions : call[c].pc \notin {"spawn", "record"}
                     /\ \A t \in Submissions : sup[t].pc # "boot"
                     /\ \A c \in Calls :
                          At(c, "probe") /\ call[c].rec.by = None => AllDown
        BY <2>1 DEF IInv, Judged
    <2>3. /\ \A t \in Submissions : Ever(t) => t = s
          /\ row # None
        BY <2>1 DEF IInv, Alone, Held, Shift
    <2>4. AllDown => AllDown'
        BY <1>1 DEF AllDown
    <2>5. Sound(row)'
        <3>1. CASE row.by = None
            BY <2>2, <2>4, <3>1 DEF Shift, Sound
        <3>2. CASE row.by # None
            <4>1. row.by \in Submissions
                BY <2>3, <3>2 DEF IInv, TypeOK, JobRecord
            <4> QED BY <1>1, <2>2, <2>3, <2>4, <4>1 DEF Shift, Sound
        <3> QED BY <3>1, <3>2
    <2>6. Sound(file)'
        <3>1. CASE file' = file
            <4>1. file # None => file.by \in Submissions \cup {None}
                BY DEF IInv, TypeOK, JobRecord
            <4> QED BY <1>1, <2>2, <2>4, <3>1, <4>1 DEF Sound
        <3>2. CASE file'.by = s /\ file'.state # "orphaned"
            BY <3>2 DEF Sound, Shift
        <3> QED BY <3>1, <3>2 DEF Shift
    <2>7. \A c \in Calls : Sound(call[c].rec)'
        <3> TAKE c \in Calls
        <3>1. call[c].rec # None => call[c].rec.by \in Submissions \cup {None}
            BY DEF IInv, TypeOK, JobRecord
        <3> QED BY <1>1, <1>2, <2>2, <2>4, <3>1 DEF Sound
    <2>8. \A t \in Submissions : Past(t)' => file' # None /\ file'.by = t
        <3>1. \A t \in Submissions : Past(t)' => t = s
            BY <1>1, <2>3 DEF Past, Ever
        <3> QED BY <2>2, <3>1 DEF Shift
    <2>9. aged' => /\ \A c \in Submissions : call'[c].pc \notin {"spawn", "record"}
                   /\ \A t \in Submissions : sup'[t].pc # "boot"
                   /\ \A c \in Calls :
                        At(c, "probe")' /\ call'[c].rec.by = None => AllDown'
        BY <1>2, <2>2, <2>4 DEF Shift, At, Calls
    <2> QED BY <2>3, <2>5, <2>6, <2>7, <2>8, <2>9 DEF Judged, Shift
<1> QED BY <1>3, <1>4, <1>5

LEMMA DieShifts ==
    ASSUME TypeOK, NEW s \in Submissions, Die(s), Up(s),
           row' = row, file' = file, call' = call, aged' = aged, mishaps \subseteq mishaps'
    PROVE  Shift(s)
<1>1. sup'[s].pc = "dead" /\ \A t \in Submissions \ {s} : sup'[t] = sup[t]
    BY DEF Die, TypeOK, NoSupervisor
<1> QED BY <1>1 DEF Shift, Ever, Up, Past

LEMMA GoesShifts ==
    ASSUME TypeOK, NEW s \in Submissions, NEW pc \in SupPc, Up(s),
           sup[s].pc = "boot" => pc = "boot" \/ (file' # None /\ file'.by = s),
           pc \notin {"none", "dead"}, pc = "boot" => sup[s].pc = "boot",
           sup'[s].pc = pc, \A t \in Submissions \ {s} : sup'[t] = sup[t],
           row' = row, call' = call, aged' = aged, mishaps \subseteq mishaps',
           \/ file' = file /\ (sup[s].pc = "boot" => pc = "boot")
           \/ file' # None /\ file'.by = s /\ file'.state # "orphaned"
    PROVE  Shift(s)
BY DEF Shift, Ever, Up, Past

LEMMA WriteFact ==
    ASSUME NEW s \in Submissions, Writes(s, "starting") \/ Writes(s, "running")
                 \/ Writes(s, "succeeded") \/ Writes(s, "failed") \/ Writes(s, "cancelled")
    PROVE  file' # None /\ file'.by = s /\ file'.state # "orphaned"
BY RecordTypes DEF Writes

LEMMA SupervisorShifts ==
    ASSUME IInv, NEW s \in Submissions,
           Supervisor(s) \/ Timers(s) \/ SupKilled(s)
    PROVE  Shift(s)
<1> USE DEF IInv
<1>1. CASE SupStart(s)
    <2>1. CASE Fault /\ Die(s) /\ UNCHANGED file
        BY <1>1, <2>1, DieShifts DEF SupStart, SupAt, Up, Fault
    <2>2. CASE /\ Writes(s, "starting") /\ SupGoes(s, "booted")
               /\ UNCHANGED <<child, mishaps, troubles>>
        BY <1>1, <2>2, GoesShifts, WriteFact
           DEF SupStart, SupGoes, SupAt, Up, TypeOK, SupRecord, SupPc
    <2> QED BY <1>1, <2>1, <2>2 DEF SupStart
<1>2. CASE SupArm(s)
    BY <1>2, GoesShifts DEF SupArm, SupGoes, SupAt, Up, TypeOK, SupRecord, SupPc, stored
<1>3. CASE SupLaunch(s)
    <2>1. CASE Fault /\ Die(s)
        BY <1>3, <2>1, DieShifts DEF SupLaunch, SupAt, Up, Fault, stored
    <2>2. CASE SupGoes(s, "launching") /\ UNCHANGED mishaps
        BY <1>3, <2>2, GoesShifts
           DEF SupLaunch, SupGoes, SupAt, Up, TypeOK, SupRecord, SupPc, stored
    <2>3. CASE Fault /\ SupGoes(s, "failing")
        BY <1>3, <2>3, GoesShifts
           DEF SupLaunch, SupGoes, SupAt, Up, TypeOK, SupRecord, SupPc, stored, Fault
    <2> QED BY <1>3, <2>1, <2>2, <2>3 DEF SupLaunch
<1>4. CASE SupListen(s)
    <2>1. CASE /\ Writes(s, "running")
               /\ sup' = [sup EXCEPT ![s].pc = "listening", ![s].wall = TRUE]
               /\ UNCHANGED <<child, mishaps, troubles>>
        BY <1>4, <2>1, GoesShifts, WriteFact
           DEF SupListen, SupAt, Up, TypeOK, SupRecord, SupPc
    <2>2. CASE Writes(s, "running") /\ Die(s) /\ UNCHANGED <<mishaps, troubles>>
        <3>1. sup'[s].pc = "dead" /\ \A t \in Submissions \ {s} : sup'[t] = sup[t]
            BY <2>2 DEF Die, TypeOK, NoSupervisor
        <3> QED BY <1>4, <2>2, <3>1, WriteFact DEF SupListen, SupAt, Shift, Ever, Up
    <2>3. CASE Fault /\ SupGoes(s, "failing") /\ UNCHANGED <<file, child>>
        BY <1>4, <2>3, GoesShifts
           DEF SupListen, SupGoes, SupAt, Up, TypeOK, SupRecord, SupPc, Fault
    <2> QED BY <1>4, <2>1, <2>2, <2>3 DEF SupListen
<1>5. CASE SupVerdict(s)
    <2>1. CASE /\ Writes(s, Verdict(s))
               /\ sup' = [sup EXCEPT ![s].pc = "exiting", ![s].wall = FALSE]
               /\ UNCHANGED <<mishaps, troubles>>
        <3>1. file' # None /\ file'.by = s /\ file'.state # "orphaned"
            BY <2>1, WriteFact DEF Verdict
        <3> QED BY SMTT(30), <1>5, <2>1, <3>1, GoesShifts
               DEF SupVerdict, SupAt, Up, TypeOK, SupRecord, SupPc
    <2>2. CASE /\ Fault
               /\ sup' = [sup EXCEPT ![s].pc = "failing", ![s].wall = FALSE]
               /\ UNCHANGED file
        BY <1>5, <2>2, GoesShifts DEF SupVerdict, SupAt, Up, TypeOK, SupRecord, SupPc, Fault
    <2> QED BY <1>5, <2>1, <2>2 DEF SupVerdict
<1>6. CASE SupFails(s)
    <2>1. CASE /\ Writes(s, IF sup[s].reason = "cancelled" THEN "cancelled" ELSE "failed")
               /\ UNCHANGED <<mishaps, troubles>>
        <3>1. file' # None /\ file'.by = s /\ file'.state # "orphaned"
            BY <2>1, WriteFact
        <3> QED BY <1>6, <2>1, <3>1, GoesShifts
               DEF SupFails, SupGoes, SupAt, Up, TypeOK, SupRecord, SupPc
    <2>2. CASE Fault /\ UNCHANGED file
        BY <1>6, <2>2, GoesShifts
           DEF SupFails, SupGoes, SupAt, Up, TypeOK, SupRecord, SupPc, Fault
    <2> QED BY <1>6, <2>1, <2>2 DEF SupFails
<1>7. CASE SupExit(s)
    BY <1>7, DieShifts DEF SupExit, Up, stored
<1>8. CASE Beat(s)
    BY <1>8, GoesShifts DEF Beat, SupAt, Up, TypeOK, SupRecord, SupPc, stored
<1>9. CASE BeatLands(s)
    <2>1. CASE /\ Writes(s, "running")
               /\ sup' = [sup EXCEPT ![s].beat = FALSE]
               /\ UNCHANGED <<child, mishaps, troubles>>
        <3>1. sup'[s].pc = sup[s].pc /\ \A t \in Submissions \ {s} : sup'[t] = sup[t]
            BY <2>1 DEF TypeOK, SupRecord
        <3>2. sup[s].pc \in SupPc
            BY DEF TypeOK, SupRecord
        <3> QED BY <1>9, <2>1, <3>1, <3>2, GoesShifts, WriteFact DEF BeatLands, Up
    <2>2. CASE Fault /\ Die(s) /\ UNCHANGED file
        BY <1>9, <2>2, DieShifts DEF BeatLands, Fault
    <2> QED BY <1>9, <2>1, <2>2 DEF BeatLands
<1>10. CASE WallTime(s)
    <2>1. sup'[s].pc = sup[s].pc /\ \A t \in Submissions \ {s} : sup'[t] = sup[t]
        BY <1>10 DEF WallTime, StopChild, TypeOK, SupRecord
    <2> QED BY <1>10, <2>1 DEF WallTime, stored, Held, Shift, Ever, Past
<1>11. CASE KillFires(s)
    <2>1. sup'[s].pc = sup[s].pc /\ \A t \in Submissions \ {s} : sup'[t] = sup[t]
        BY <1>11 DEF KillFires, TypeOK, SupRecord
    <2> QED BY <1>11, <2>1 DEF KillFires, stored, Shift, Ever, Past, Up
<1>12. CASE SupKilled(s)
    BY <1>12, DieShifts DEF SupKilled, stored
<1> QED BY <1>1, <1>2, <1>3, <1>4, <1>5, <1>6, <1>7, <1>8, <1>9, <1>10, <1>11, <1>12
        DEF Supervisor, Timers

-----------------------------------------------------------------------------
(* What a step of a call does to the invariant.                            *)

\* A step in which the call c comes to x and no process changes keeps the
\* invariant if x and the records stored are in order.
Turn(c, x) ==
    /\ sup' = sup /\ mishaps \subseteq mishaps'
    /\ call'[c] = x
    /\ \A d \in Calls : d # c => call'[d] = call[d]

LEMMA TurnHeld ==
    ASSUME IInv, NEW c \in Calls, NEW x, Turn(c, x),
           row # None => row' # None,
           x.rec # None => row' # None,
           x.pc \in Holding => x.rec # None,
           x.pc \in {"orphan", "store"} => x.rec.state = "orphaned",
           x.pc # "record"
    PROVE  Held'
BY DEF IInv, Held, Turn, At, Ever, Calls

\* Outside a submission nothing begins to prepare, and the row is there.
LEMMA TurnAlone ==
    ASSUME IInv, NEW c \in Calls, NEW x, Turn(c, x),
           row' = row \/ row # None,
           x.pc \in {"write", "spawn"} => call[c].pc \in {"write", "spawn"}
    PROVE  Alone'
<1> SUFFICES ASSUME Calm({"raced"})'
             PROVE  Alone'
    BY DEF Alone
<1>1. Calm({"raced"})
    BY DEF Turn, Calm
<1>2. \A d \in Submissions : Preparing(d)' => Preparing(d)
    BY DEF Turn, Preparing, Calls
<1>3. \A d \in Submissions : Preparing(d) => row = None
    BY <1>1 DEF IInv, Alone
<1>4. \A d \in Submissions : Preparing(d)' => row' = None
    BY <1>2, <1>3
<1> QED BY <1>1, <1>2, <1>4 DEF IInv, Alone, Turn, Ever

LEMMA TurnJudged ==
    ASSUME IInv, NEW c \in Calls, NEW x, Turn(c, x),
           file' = file, aged' = aged,
           row = None => row' = None \/ row'.state # "orphaned",
           row # None => row' # None,
           Calm({"raced", "slow"}) =>
             /\ Sound(row') /\ Sound(x.rec)
             /\ aged => x.pc \notin {"spawn", "record"}
             /\ aged /\ x.pc = "probe" /\ x.rec.by = None => AllDown
    PROVE  Judged'
<1> SUFFICES ASSUME Calm({"raced", "slow"})'
             PROVE  Judged'
    BY DEF Judged
<1>1. Calm({"raced", "slow"})
    BY DEF Turn, Calm
<1>2. /\ Sound(row) /\ Sound(file)
      /\ \A d \in Calls : Sound(call[d].rec)
      /\ file # None /\ row = None => file.state # "orphaned"
      /\ \A s \in Submissions : Past(s) => file # None /\ file.by = s
      /\ aged => /\ \A d \in Submissions : call[d].pc \notin {"spawn", "record"}
                 /\ \A s \in Submissions : sup[s].pc # "boot"
                 /\ \A d \in Calls :
                      At(d, "probe") /\ call[d].rec.by = None => AllDown
    BY <1>1 DEF IInv, Judged
<1>3. /\ \A s : (Past(s)' <=> Past(s)) /\ (Ever(s)' <=> Ever(s))
      /\ AllDown' <=> AllDown
    BY DEF Turn, Past, Ever, AllDown, Up
<1>4. Sound(row)' /\ Sound(file)' /\ Sound(x.rec)
    BY <1>1, <1>2, <1>3 DEF Sound
<1>5. \A d \in Calls : Sound(call[d].rec)'
    BY <1>1, <1>2, <1>3 DEF Sound, Turn
<1>6. aged' => /\ \A d \in Submissions : call'[d].pc \notin {"spawn", "record"}
               /\ \A s \in Submissions : sup'[s].pc # "boot"
               /\ \A d \in Calls :
                    At(d, "probe")' /\ call'[d].rec.by = None => AllDown'
    BY <1>1, <1>2, <1>3 DEF Turn, At, Calls
<1> QED BY <1>2, <1>3, <1>4, <1>5, <1>6 DEF Judged

LEMMA RestedTurn ==
    ASSUME TypeOK, NEW c \in Calls, Finish(c), sup' = sup, mishaps \subseteq mishaps'
    PROVE  \E x : /\ Turn(c, x)
                  /\ x.rec = None
                  /\ x.pc \in {"idle", "done"}
BY FinishType DEF Turn, Idle, Done

\* The record a call holds is sound, and so is what the file makes of it.
LEMMA HeldSound ==
    ASSUME IInv, NEW c \in Calls, call[c].pc \in Holding, Calm({"raced", "slow"})
    PROVE  /\ Sound(call[c].rec)
           /\ Sound(Merged(call[c].rec))
           /\ aged /\ Merged(call[c].rec).by = None => AllDown
<1> DEFINE r == call[c].rec
<1>1. r \in JobRecord
    BY HeldRecord DEF IInv
<1>2. Sound(r) /\ Sound(file)
    BY DEF IInv, Judged
<1>3. Sound(Merged(r))
    BY <1>1, <1>2, MergedType DEF IInv, Sound
<1>4. ASSUME aged, Merged(r).by = None
      PROVE  AllDown
    <2>1. \A s \in Submissions : sup[s].pc # "boot" /\ (Past(s) => file # None /\ file.by = s)
        BY <1>4 DEF IInv, Judged
    <2>2. \A s \in Submissions : ~Past(s)
        BY <1>1, <1>4, <2>1, MergedType DEF IInv
    <2> QED BY <2>1, <2>2 DEF AllDown, Up, Past
<1> QED BY <1>2, <1>3, <1>4

\* A supervisor that was started and is dead was the only one.
LEMMA FoundDead ==
    ASSUME IInv, NEW r \in JobRecord, Sound(r), r.by # None, ~SupervisorAlive(r),
           Calm({"raced"})
    PROVE  AllDown
<1>1. r.by \in Submissions /\ Ever(r.by) /\ ~Up(r.by)
    BY DEF Sound, SupervisorAlive, JobRecord
<1>2. \A s \in Submissions : Up(s) => s = r.by
    BY <1>1 DEF IInv, Alone, Up, Ever
<1> QED BY <1>1, <1>2 DEF AllDown

LEMMA ReconciledKeeps ==
    ASSUME IInv, NEW c \in Calls, NEW r \in JobRecord, Reconciled(c, r),
           call[c].pc \in Holding,
           sup' = sup, file' = file, aged' = aged, mishaps' = mishaps,
           Calm({"raced", "slow"}) => Sound(r)
    PROVE  Held' /\ Alone' /\ Judged'
<1>1. row' = r /\ row # None /\ row' # None
    BY ReconciledType DEF IInv, Held
<1>2. PICK x : /\ Turn(c, x)
               /\ x.pc \in {"idle", "done", "match"}
               /\ x.pc = "match" => x.rec = r
               /\ x.pc # "match" => x.rec = None
    BY ReconciledType DEF Turn, Idle, Done, IInv
<1>3. Held'
    BY <1>1, <1>2, TurnHeld DEF Holding
<1>4. Alone'
    BY <1>1, <1>2, TurnAlone
<1>5. Sound(None)
    BY DEF Sound
<1>6. Judged'
    BY <1>1, <1>2, <1>5, TurnJudged
<1> QED BY <1>3, <1>4, <1>6

\* A call that rests, whatever it stored in the row
LEMMA RestKeeps ==
    ASSUME IInv, NEW c \in Calls, Finish(c),
           sup' = sup, file' = file, aged' = aged, mishaps \subseteq mishaps',
           \/ row' = row
           \/ row # None /\ row' # None /\ (Calm({"raced", "slow"}) => Sound(row'))
    PROVE  Held' /\ Alone' /\ Judged'
<1>1. PICK x : Turn(c, x) /\ x.rec = None /\ x.pc \in {"idle", "done"}
    BY RestedTurn DEF IInv
<1>2. Sound(None)
    BY DEF Sound
<1>3. Calm({"raced", "slow"}) => Sound(row)
    BY DEF IInv, Judged
<1>4. Held' /\ Alone'
    BY <1>1, TurnHeld, TurnAlone DEF Holding
<1>5. Judged'
    BY <1>1, <1>2, <1>3, TurnJudged
<1> QED BY <1>4, <1>5

LEMMA ReconcileKeeps ==
    ASSUME IInv, NEW c \in Calls, Reconcile(c)
    PROVE  Held' /\ Alone' /\ Judged'
<1> DEFINE r == call[c].rec
<1>0. ASSUME call[c].pc \in Holding
      PROVE  r \in JobRecord /\ row # None
    BY <1>0, HeldRecord DEF IInv
<1>1. CASE ReadFile(c)
    <2>0. call[c].pc = "file" /\ call[c].pc \in Holding
        BY <1>1 DEF ReadFile, At, Holding
    <2>1. Merged(r) \in JobRecord /\ row # None
        BY <1>0, <2>0, MergedType DEF IInv
    <2>2. Calm({"raced", "slow"}) => /\ Sound(Merged(r))
                                     /\ aged /\ Merged(r).by = None => AllDown
        BY <2>0, HeldSound
    <2>3. CASE Reconciled(c, Merged(r)) /\ UNCHANGED mishaps
        BY <1>1, <2>0, <2>1, <2>2, <2>3, ReconciledKeeps DEF ReadFile, processes
    <2>4. CASE Wait(c, "probe", Merged(r)) /\ UNCHANGED <<row, daemon, mishaps>>
        <3> DEFINE x == [pc |-> "probe", rec |-> Merged(r)]
        <3>1. Turn(c, x) /\ file' = file /\ aged' = aged /\ row' = row
            BY <1>1, <2>1, <2>4, WaitType DEF ReadFile, processes, Turn, CallPc, IInv
        <3>2. x.rec # None /\ x.pc = "probe" /\ x.rec = Merged(r)
            BY <2>1
        <3> HIDE DEF x
        <3>3. Held' /\ Alone'
            BY <2>1, <3>1, <3>2, TurnHeld, TurnAlone DEF Holding
        <3>4. Calm({"raced", "slow"}) => Sound(row)
            BY DEF IInv, Judged
        <3>5. Judged'
            BY <2>1, <2>2, <3>1, <3>2, <3>4, TurnJudged
        <3> QED BY <3>3, <3>5
    <2>5. CASE Fault /\ Reject(c) /\ UNCHANGED row
        BY <1>1, <2>5, RestKeeps DEF ReadFile, Reject, Fault, processes
    <2> QED BY <1>1, <2>3, <2>4, <2>5 DEF ReadFile
<1>2. CASE Probe(c)
    <2>0. call[c].pc = "probe" /\ call[c].pc \in Holding
        BY <1>2 DEF Probe, At, Holding
    <2>1. r \in JobRecord /\ row # None
        BY <1>0, <2>0
    <2>2. Calm({"raced", "slow"}) => Sound(r)
        BY <2>0, HeldSound
    <2>3. CASE Reconciled(c, r)
        BY <1>2, <2>0, <2>1, <2>2, <2>3, ReconciledKeeps DEF Probe, processes
    <2>4. CASE /\ ~SupervisorAlive(r) /\ aged
               /\ Wait(c, "orphan", [r EXCEPT !.state = "orphaned"])
               /\ UNCHANGED <<row, daemon>>
        <3> DEFINE o == [r EXCEPT !.state = "orphaned"]
                   x == [pc |-> "orphan", rec |-> o]
        <3>1. o \in JobRecord /\ o.state = "orphaned" /\ o.by = r.by
            BY <2>1, RecordTypes DEF JobRecord
        <3>2. Turn(c, x) /\ file' = file /\ aged' = aged /\ row' = row
            BY <1>2, <2>4, <3>1, WaitType DEF Probe, processes, Turn, CallPc, IInv
        <3>3. x.rec # None /\ x.pc = "orphan" /\ x.rec = o
            BY <3>1
        <3> HIDE DEF x, o
        <3>4. Held' /\ Alone'
            BY <2>1, <3>1, <3>2, <3>3, TurnHeld, TurnAlone DEF Holding
        <3>5. Calm({"raced", "slow"}) => AllDown
            <4> SUFFICES ASSUME Calm({"raced", "slow"})
                         PROVE  AllDown
                OBVIOUS
            <4>1. CASE r.by = None
                BY <2>0, <2>4, <4>1 DEF IInv, Judged, At
            <4>2. CASE r.by # None
                BY <2>1, <2>2, <2>4, <4>2, FoundDead DEF Calm
            <4> QED BY <4>1, <4>2
        <3>6. Calm({"raced", "slow"}) => Sound(row) /\ Sound(o)
            <4>1. Calm({"raced", "slow"}) => Sound(row)
                BY DEF IInv, Judged
            <4>2. Calm({"raced", "slow"}) => Sound(o)
                BY <2>1, <2>2, <3>1, <3>5 DEF Sound
            <4> QED BY <4>1, <4>2
        <3>7. Judged'
            BY <2>1, <3>2, <3>3, <3>6, TurnJudged
        <3> QED BY <3>4, <3>7
    <2> QED BY <1>2, <2>3, <2>4 DEF Probe, Missing
<1>3. CASE StoreOrphan(c)
    <2>0. call[c].pc \in Holding
        BY <1>3 DEF StoreOrphan, At, Holding
    <2>1. r \in JobRecord /\ (Calm({"raced", "slow"}) => Sound(r))
        BY <1>0, <2>0, HeldSound
    <2> QED BY <1>3, <2>0, <2>1, ReconciledKeeps DEF StoreOrphan, processes
<1>4. CASE WriteOrphan(c)
    <2>0. call[c].pc = "orphan" /\ call[c].pc \in Holding
        BY <1>4 DEF WriteOrphan, At, Holding
    <2>1. r \in JobRecord /\ row # None /\ r.state = "orphaned"
        BY <1>0, <2>0 DEF IInv, Held
    <2>2. Calm({"raced", "slow"}) => Sound(r) /\ Sound(row) /\ AllDown
        BY <2>0, <2>1, HeldSound DEF Sound, IInv, Judged
    <2>3. CASE /\ file' = r
               /\ Wait(c, "store", r)
               /\ UNCHANGED <<daemon, mishaps, troubles>>
        <3> DEFINE x == [pc |-> "store", rec |-> r]
        <3>1. Turn(c, x) /\ aged' = aged /\ row' = row
            BY <1>4, <2>1, <2>3, WaitType DEF WriteOrphan, processes, Turn, CallPc, IInv
        <3>2. x.rec = r /\ x.pc = "store" /\ r # None
            BY <2>1
        <3> HIDE DEF x
        <3>3. Held' /\ Alone'
            BY <2>1, <3>1, <3>2, TurnHeld, TurnAlone DEF Holding
        <3>4. Judged'
            <4> SUFFICES ASSUME Calm({"raced", "slow"})
                         PROVE  Judged'
                BY <2>3 DEF Judged, Calm
            <4>1. /\ \A s : (Past(s)' <=> Past(s)) /\ (Ever(s)' <=> Ever(s))
                  /\ AllDown' /\ AllDown
                BY <2>2, <3>1 DEF Turn, Past, Ever, AllDown, Up
            <4>2. Sound(row)' /\ Sound(file)'
                BY <2>2, <2>3, <3>1, <4>1 DEF Sound
            <4>3. \A d \in Calls : Sound(call[d].rec)
                BY DEF IInv, Judged
            <4>4. \A d \in Calls : Sound(call[d].rec)'
                BY <2>2, <3>1, <3>2, <4>1, <4>3 DEF Sound, Turn
            <4>5. \A s \in Submissions : ~Past(s)'
                BY <4>1 DEF AllDown, Up, Past
            <4>6. aged' => /\ \A d \in Submissions : call'[d].pc \notin {"spawn", "record"}
                           /\ \A s \in Submissions : sup'[s].pc # "boot"
                BY <3>1, <3>2 DEF IInv, Judged, Turn, Calls
            <4> QED BY <2>1, <3>1, <4>1, <4>2, <4>4, <4>5, <4>6 DEF Judged
        <3> QED BY <3>3, <3>4
    <2>4. CASE Fault /\ Reject(c) /\ UNCHANGED file
        BY <1>4, <2>4, RestKeeps DEF WriteOrphan, Reject, Fault, processes
    <2> QED BY <1>4, <2>3, <2>4 DEF WriteOrphan
<1> QED BY <1>1, <1>2, <1>3, <1>4 DEF Reconcile

LEMMA LookKeeps ==
    ASSUME IInv, NEW c \in Calls, Look(c), UNCHANGED <<stored, processes, aged>>
    PROVE  Held' /\ Alone' /\ Judged'
<1> DEFINE x == [pc |-> "file", rec |-> row]
<1>1. /\ Turn(c, x) /\ row # None
      /\ row' = row /\ file' = file /\ aged' = aged
    BY WaitType DEF Look, Turn, CallPc, IInv, stored, processes, TypeOK
<1>2. x.pc = "file" /\ x.rec = row
    OBVIOUS
<1> HIDE DEF x
<1>3. Held' /\ Alone'
    BY <1>1, <1>2, TurnHeld, TurnAlone DEF Holding
<1>4. Calm({"raced", "slow"}) => Sound(row)
    BY DEF IInv, Judged
<1>5. Judged'
    BY <1>1, <1>2, <1>4, TurnJudged
<1> QED BY <1>3, <1>5

\* A signal that reaches a supervisor.
LEMMA SignalShifts ==
    ASSUME IInv, NEW c \in Cancellations, CancelSignal(c), SupervisorAlive(call[c].rec)
    PROVE  \E s \in Submissions : Up(s) /\ Terminate(s) /\ Shift(s)
<1>0. c \in Calls
    BY DEF Calls
<1>a. call[c].rec \in JobRecord
    BY <1>0, HeldRecord DEF CancelSignal, At, Holding, IInv
<1>1. PICK s \in Submissions : Up(s) /\ Terminate(s)
    BY <1>a DEF CancelSignal, SupervisorAlive, JobRecord
<1>2. \A d \in Calls : call'[d] \in {call[d], Idle, Done}
    BY <1>0, FinishType DEF CancelSignal, IInv
<1>3. /\ sup'[s].pc \in {sup[s].pc, "dead"}
      /\ \A t \in Submissions \ {s} : sup'[t] = sup[t]
    <2>1. CASE Die(s)
        BY <1>1, <2>1 DEF Die, NoSupervisor, IInv, TypeOK
    <2>2. CASE StopChild(s, "cancelled")
        BY <1>1, <2>2 DEF StopChild, IInv, TypeOK, SupRecord
    <2> QED BY <1>1, <2>1, <2>2 DEF Terminate
<1>4. Shift(s)
    <2>1. UNCHANGED <<row, file, aged, mishaps>>
        BY DEF CancelSignal, stored
    <2>2. Ever(s) /\ Ever(s)'
        BY <1>1, <1>3 DEF Ever, Up
    <2>3. Past(s)' => Past(s)
        BY <1>3 DEF Past
    <2> QED BY <1>2, <1>3, <2>1, <2>2, <2>3 DEF Shift
<1> QED BY <1>1, <1>4

LEMMA CancelKeeps ==
    ASSUME IInv, NEW c \in Cancellations, Cancel(c)
    PROVE  Held' /\ Alone' /\ Judged'
<1>0. c \in Calls
    BY DEF Calls
<1>1. CASE CancelCall(c)
    BY <1>0, <1>1, LookKeeps, RestKeeps DEF CancelCall, stored, processes
<1>2. CASE CancelMatch(c)
    <2> DEFINE r == call[c].rec
    <2>0. call[c].pc \in Holding
        BY <1>2 DEF CancelMatch, At, Holding
    <2>1. /\ r \in JobRecord /\ row # None
          /\ Calm({"raced", "slow"}) => Sound(r)
        BY <1>0, <2>0, HeldRecord, HeldSound DEF IInv
    <2>2. CASE Wait(c, "signal", r) /\ UNCHANGED row
        <3> DEFINE x == [pc |-> "signal", rec |-> r]
        <3>1. Turn(c, x) /\ file' = file /\ aged' = aged /\ row' = row
            BY <1>0, <1>2, <2>1, <2>2, WaitType
               DEF CancelMatch, processes, Turn, CallPc, IInv
        <3>2. x.pc = "signal" /\ x.rec = r /\ r # None
            BY <2>1
        <3> HIDE DEF x
        <3>3. Held' /\ Alone'
            BY <1>0, <2>1, <3>1, <3>2, TurnHeld, TurnAlone DEF Holding
        <3>4. Calm({"raced", "slow"}) => Sound(row)
            BY DEF IInv, Judged
        <3>5. Judged'
            BY <1>0, <2>1, <3>1, <3>2, <3>4, TurnJudged
        <3> QED BY <3>3, <3>5
    <2>3. CASE row' = [r EXCEPT !.state = "cancelled"] /\ Finish(c)
        <3>1. row' # None /\ row'.state = "cancelled" /\ row'.by = r.by
            BY <2>1, <2>3, RecordTypes DEF JobRecord
        <3>2. Calm({"raced", "slow"}) => Sound(row')
            BY <2>1, <3>1 DEF Sound
        <3> QED BY <1>0, <1>2, <2>1, <2>3, <3>1, <3>2, RestKeeps DEF CancelMatch, processes
    <2> QED BY <1>2, <2>2, <2>3 DEF CancelMatch
<1>3. CASE CancelSignal(c)
    <2>2. CASE ~SupervisorAlive(call[c].rec)
        BY <1>0, <1>3, <2>2, RestKeeps DEF CancelSignal, stored, processes
    <2>3. CASE SupervisorAlive(call[c].rec)
        BY <1>3, <2>3, SignalShifts, ShiftKeeps
    <2> QED BY <2>2, <2>3
<1> QED BY <1>1, <1>2, <1>3 DEF Cancel

LEMMA SubmitKeeps ==
    ASSUME IInv, NEW c \in Submissions, Submit(c)
    PROVE  Held' /\ Alone' /\ Judged'
<1>0. c \in Calls /\ Sound(None)
    BY DEF Calls, Sound
<1>1. CASE SubmitCall(c)
    <2>1. CASE Look(c)
        BY <1>0, <1>1, <2>1, LookKeeps DEF SubmitCall
    <2>2. CASE /\ row = None /\ Wait(c, "write", None)
               /\ mishaps' = mishaps \cup
                    (IF \E d \in Submissions : Preparing(d) THEN {"raced"} ELSE {})
        <3> DEFINE x == [pc |-> "write", rec |-> None]
        <3>1. /\ Turn(c, x)
              /\ row' = row /\ file' = file /\ aged' = aged
            BY <1>0, <1>1, <2>2, WaitType
               DEF SubmitCall, Turn, CallPc, IInv, stored, processes
        <3>2. x.pc = "write" /\ x.rec = None
            OBVIOUS
        <3> HIDE DEF x
        <3>3. Held'
            BY <1>0, <3>1, <3>2, TurnHeld DEF Holding
        <3>4. Judged'
            <4>1. Calm({"raced", "slow"}) => Sound(row)
                BY DEF IInv, Judged
            <4> QED BY <1>0, <3>1, <3>2, <4>1, TurnJudged
        <3>5. Alone'
            <4> SUFFICES ASSUME Calm({"raced"})'
                         PROVE  Alone'
                BY DEF Alone
            <4>1. Calm({"raced"}) /\ \A d \in Submissions : ~Preparing(d)
                BY <2>2 DEF Calm
            <4>2. \A d \in Submissions : Preparing(d)' => d = c
                BY <3>1, <4>1 DEF Preparing, Turn, Calls
            <4>3. \A s \in Submissions : Ever(s)' <=> Ever(s)
                BY <3>1 DEF Turn, Ever
            <4> QED BY <2>2, <3>1, <4>1, <4>2, <4>3 DEF IInv, Alone
        <3> QED BY <3>3, <3>4, <3>5
    <2> QED BY <1>1, <2>1, <2>2 DEF SubmitCall
<1>2. CASE SubmitWrite(c)
    <2>1. CASE Fault /\ Finish(c) /\ UNCHANGED <<file, aged>>
        BY <1>0, <1>2, <2>1, RestKeeps DEF SubmitWrite, Fault, processes
    <2>2. CASE /\ file' = [state |-> "queued", by |-> None]
               /\ aged' = FALSE
               /\ Wait(c, "spawn", None)
               /\ UNCHANGED <<mishaps, troubles>>
        <3> DEFINE x == [pc |-> "spawn", rec |-> None]
        <3>1. Turn(c, x) /\ row' = row /\ At(c, "write")
            BY <1>0, <1>2, <2>2, WaitType DEF SubmitWrite, Turn, CallPc, IInv, processes
        <3>2. x.pc = "spawn" /\ x.rec = None
            OBVIOUS
        <3> HIDE DEF x
        <3>3. Held' /\ Alone'
            BY <1>0, <3>1, <3>2, TurnHeld, TurnAlone DEF Holding, At
        <3>4. Judged'
            <4> SUFFICES ASSUME Calm({"raced", "slow"})
                         PROVE  Judged'
                BY <2>2 DEF Judged, Calm
            <4>1. row = None
                BY <3>1 DEF IInv, Alone, Calm, Preparing, At
            <4>2. \A s \in Submissions : ~Ever(s) /\ ~Past(s)'
                BY <3>1, <4>1 DEF IInv, Held, Turn, Ever, Past
            <4>3. \A d \in Calls : call[d].rec = None /\ call'[d].rec = None
                BY <3>1, <3>2, <4>1 DEF IInv, Held, Turn
            <4>4. /\ file'.state = "queued" /\ file'.by = None
                  /\ Sound(None)' /\ Sound(file)'
                BY <2>2 DEF Sound
            <4> QED BY <2>2, <3>1, <4>1, <4>2, <4>3, <4>4 DEF Judged
        <3> QED BY <3>3, <3>4
    <2> QED BY <1>2, <2>1, <2>2 DEF SubmitWrite
<1>3. CASE SubmitSpawn(c)
    <2>1. /\ row' # None /\ row'.state = "queued" /\ row'.by = None
          /\ call'[c] = [pc |-> "record", rec |-> row']
          /\ \A d \in Calls : d # c => call'[d] = call[d]
          /\ At(c, "spawn") /\ file' = file /\ aged' = aged /\ mishaps' = mishaps
        BY <1>0, <1>3, WaitType, RecordTypes DEF SubmitSpawn, CallPc, IInv
    <2>2. /\ sup'[c].pc = "boot"
          /\ \A s \in Submissions \ {c} : sup'[s] = sup[s]
        BY <1>3 DEF SubmitSpawn, IInv, TypeOK, SupRecord
    <2>3. Held'
        BY <1>0, <2>1, <2>2 DEF IInv, Held, Holding, Ever, At, Calls
    <2>4. Calm({"raced"}) => /\ row = None
                             /\ \A s \in Submissions : ~Ever(s)
                             /\ \A d \in Submissions : Preparing(d) => d = c
        BY <2>1 DEF IInv, Alone, Held, Preparing, At
    <2>5. Alone'
        <3> SUFFICES ASSUME Calm({"raced"})
                     PROVE  Alone'
            BY <2>1 DEF Alone, Calm
        <3>1. \A d \in Submissions : ~Preparing(d)'
            BY <2>1, <2>4 DEF Preparing, Calls
        <3>2. \A s \in Submissions : Ever(s)' => s = c
            BY <2>2, <2>4 DEF Ever
        <3> QED BY <3>1, <3>2 DEF Alone
    <2>6. Judged'
        <3> SUFFICES ASSUME Calm({"raced", "slow"})
                     PROVE  Judged'
            BY <2>1 DEF Judged, Calm
        <3>1. row = None /\ \A s \in Submissions : ~Ever(s)
            BY <2>4 DEF Calm
        <3>2. \A d \in Calls : call[d].rec = None
            BY <3>1 DEF IInv, Held
        <3>3. \A d \in Calls : Sound(call[d].rec)'
            BY <2>1, <3>2 DEF Sound
        <3>4. Sound(row)'
            BY <2>1 DEF Sound
        <3>5. Sound(file)'
            <4>1. file = None \/ (file.by = None /\ file.state # "orphaned")
                BY <3>1 DEF IInv, Judged, Sound, TypeOK, JobRecord
            <4> QED BY <2>1, <4>1 DEF Sound
        <3>6. \A s \in Submissions : ~Past(s)'
            BY <2>2, <3>1 DEF Past, Ever
        <3>7. ~aged
            BY <2>1 DEF IInv, Judged, At
        <3> QED BY <2>1, <3>3, <3>4, <3>5, <3>6, <3>7 DEF Judged
    <2> QED BY <2>3, <2>5, <2>6
<1>4. CASE SubmitRecord(c)
    <2>1. row # None /\ Ever(c)
        BY <1>0, <1>4 DEF SubmitRecord, IInv, Held, Holding, At
    <2>2. row' # None /\ row'.by = c /\ row'.state = "starting"
        BY <1>4, RecordTypes DEF SubmitRecord
    <2>3. Sound(row')
        BY <2>1, <2>2 DEF Sound
    <2> QED BY <1>0, <1>4, <2>1, <2>2, <2>3, RestKeeps DEF SubmitRecord, processes
<1> QED BY <1>1, <1>2, <1>3, <1>4 DEF Submit

LEMMA CrashKeeps ==
    ASSUME IInv, Crash
    PROVE  Held' /\ Alone' /\ Judged'
<1>1. /\ \A d \in Calls : call'[d].rec = None /\ call'[d].pc \in {"idle", "done"}
      /\ sup' = sup /\ file' = file /\ aged' = aged /\ mishaps \subseteq mishaps'
    BY DEF Crash, Idle, Done, processes
<1>2. \/ row' = row
      \/ row' # None /\ row'.state = "queued" /\ row'.by = None
    BY RecordTypes DEF Crash
<1>3. Held'
    BY <1>1, <1>2 DEF IInv, Held, Ever, At, Calls, Holding
<1>4. Alone'
    <2> SUFFICES ASSUME Calm({"raced"})'
                 PROVE  Alone'
        BY DEF Alone
    <2>1. Calm({"raced"}) /\ \A d \in Submissions : ~Preparing(d)'
        BY <1>1 DEF Calm, Preparing, Calls
    <2> QED BY <1>1, <2>1 DEF IInv, Alone, Ever
<1>5. Judged'
    <2> SUFFICES ASSUME Calm({"raced", "slow"})'
                 PROVE  Judged'
        BY DEF Judged
    <2>1. /\ Sound(row) /\ Sound(file)
          /\ file # None /\ row = None => file.state # "orphaned"
          /\ \A s \in Submissions : Past(s) => file # None /\ file.by = s
          /\ aged => \A s \in Submissions : sup[s].pc # "boot"
        BY <1>1 DEF IInv, Judged, Calm
    <2>2. /\ \A s : (Past(s)' <=> Past(s)) /\ (Ever(s)' <=> Ever(s))
          /\ AllDown' <=> AllDown
        BY <1>1 DEF Past, Ever, AllDown, Up
    <2>3. Sound(file)' /\ Sound(row)' /\ Sound(None)'
        BY <1>1, <1>2, <2>1, <2>2 DEF Sound
    <2> QED BY <1>1, <1>2, <2>1, <2>2, <2>3 DEF Judged, At, Calls
<1> QED BY <1>3, <1>4, <1>5

LEMMA RestartKeeps ==
    ASSUME IInv, Restart
    PROVE  Held' /\ Alone' /\ Judged'
<1>0. Opener \in Calls
    BY DEF Calls
<1>1. CASE row # None /\ Wait(Opener, "file", row)
    <2> DEFINE x == [pc |-> "file", rec |-> row]
    <2>1. Turn(Opener, x) /\ row' = row /\ file' = file /\ aged' = aged
        BY <1>0, <1>1, WaitType DEF Restart, Turn, CallPc, IInv, stored, processes, TypeOK
    <2>2. x.pc = "file" /\ x.rec = row
        OBVIOUS
    <2> HIDE DEF x
    <2>3. Held' /\ Alone'
        BY <1>0, <1>1, <2>1, <2>2, TurnHeld, TurnAlone DEF Holding
    <2>4. Calm({"raced", "slow"}) => Sound(row)
        BY DEF IInv, Judged
    <2>5. Judged'
        BY <1>0, <1>1, <2>1, <2>2, <2>4, TurnJudged
    <2> QED BY <2>3, <2>5
<1>2. CASE UNCHANGED call
    BY <1>2 DEF Restart, stored, processes, IInv, Held, Alone, Judged, Calm, Sound, Ever,
                Past, AllDown, Up, At, Preparing
<1> QED BY <1>1, <1>2 DEF Restart

LEMMA AgeKeeps ==
    ASSUME IInv, Age
    PROVE  Held' /\ Alone' /\ Judged'
<1>1. UNCHANGED <<row, file, call, sup>> /\ mishaps \subseteq mishaps'
    BY DEF Age, stored, processes
<1>2. Held'
    BY <1>1 DEF IInv, Held, Ever, At
<1>3. Alone'
    BY <1>1 DEF IInv, Alone, Calm, Ever, Preparing
<1>4. Judged'
    <2> SUFFICES ASSUME Calm({"raced", "slow"})'
                 PROVE  Judged'
        BY DEF Judged
    <2>1. Calm({"raced", "slow"}) /\ ~Unfinished
        BY DEF Calm, Age
    <2>2. /\ \A c \in Submissions : call[c].pc \notin {"spawn", "record"}
          /\ \A s \in Submissions : sup[s].pc # "boot"
          /\ \A c \in Calls : ~(At(c, "probe") /\ call[c].rec.by = None)
        BY <2>1 DEF Unfinished, SupAt, Calls
    <2> QED BY <1>1, <2>1, <2>2 DEF IInv, Judged, Sound, Ever, AllDown, Up, Past, At
<1> QED BY <1>2, <1>3, <1>4

-----------------------------------------------------------------------------
(* The theorems.                                                           *)

LEMMA InitIInv == Init => IInv
<1> SUFFICES ASSUME Init
             PROVE  IInv
    OBVIOUS
<1>1. TypeOK
    <2>1. Idle \in [pc : CallPc, rec : JobRecord \cup {None}]
        BY DEF Idle, CallPc
    <2>2. NoSupervisor \in SupRecord
        BY DEF NoSupervisor, SupRecord, SupPc
    <2>3. /\ call \in [Calls -> [pc : CallPc, rec : JobRecord \cup {None}]]
          /\ sup \in [Submissions -> SupRecord]
          /\ child \in [Submissions -> {"none", "alive", "zero", "nonzero"}]
        BY <2>1, <2>2 DEF Init
    <2>4. mishaps \subseteq Mishaps
        BY DEF Init
    <2>5. troubles \in 0..MaxTroubles
        BY DEF Init
    <2>6. /\ daemon \in {"up", "opening", "down"} /\ aged \in BOOLEAN
          /\ row \in JobRecord \cup {None} /\ file \in JobRecord \cup {None}
        BY DEF Init
    <2> QED BY <2>3, <2>4, <2>5, <2>6 DEF TypeOK
<1>2. /\ \A c \in Calls : call[c].rec = None /\ call[c].pc = "idle"
      /\ \A s \in Submissions : sup[s].pc = "none" /\ sup[s].wall = FALSE
    BY DEF Init, Idle, NoSupervisor
<1>3. Held /\ Alone
    BY <1>2 DEF Init, Held, Holding, Alone, Ever, At, Preparing, Calls
<1>4. Judged
    BY <1>2 DEF Init, Judged, Sound, Past
<1> QED BY <1>1, <1>3, <1>4 DEF IInv

LEMMA NextIInv == IInv /\ [Next]_vars => IInv'
<1> SUFFICES ASSUME IInv, [Next]_vars
             PROVE  IInv'
    OBVIOUS
<1>1. ASSUME NEW c \in Calls, Reconcile(c)
      PROVE  IInv'
    BY <1>1, DaemonTypes, ReconcileKeeps DEF IInv
<1>2. ASSUME NEW c \in Submissions, Submit(c)
      PROVE  IInv'
    BY <1>2, DaemonTypes, SubmitKeeps DEF IInv, Calls
<1>3. ASSUME NEW c \in Pollers, Poll(c)
      PROVE  IInv'
    BY <1>3, DaemonTypes, LookKeeps DEF IInv, Calls, Poll
<1>4. ASSUME NEW c \in Cancellations, Cancel(c)
      PROVE  IInv'
    BY <1>4, DaemonTypes, CancelKeeps DEF IInv, Calls
<1>5. CASE Crash
    BY <1>5, CrashTypes, CrashKeeps DEF IInv
<1>6. CASE Restart
    BY <1>6, CrashTypes, RestartKeeps DEF IInv
<1>7. CASE Age
    BY <1>7, CrashTypes, AgeKeeps DEF IInv
<1>8. ASSUME NEW s \in Submissions, Supervisor(s) \/ Timers(s) \/ SupKilled(s)
      PROVE  IInv'
    <2>1. TypeOK'
        BY <1>8, SupervisorTypes DEF IInv
    <2> QED BY <1>8, <2>1, SupervisorShifts, ShiftKeeps DEF IInv
<1>9. ASSUME NEW s \in Submissions, ChildExits(s)
      PROVE  IInv'
    <2>1. TypeOK'
        BY <1>9, SupervisorTypes DEF IInv
    <2>2. Held' /\ Alone' /\ Judged'
        BY <1>9 DEF ChildExits, stored, IInv, Held, Alone, Judged, Calm, Sound, Ever, Past,
                    AllDown, Up, At, Preparing
    <2> QED BY <2>1, <2>2 DEF IInv
<1>10. CASE UNCHANGED vars
    <2>1. TypeOK'
        BY <1>10 DEF vars, IInv, TypeOK
    <2>2. Held' /\ Alone' /\ Judged'
        BY <1>10 DEF vars, IInv, Held, Alone, Judged, Calm, Sound, Ever, Past,
                     AllDown, Up, At, Preparing
    <2> QED BY <2>1, <2>2 DEF IInv
<1> QED BY <1>1, <1>2, <1>3, <1>4, <1>5, <1>6, <1>7, <1>8, <1>9, <1>10 DEF Next

\* The inductive invariant holds in every reachable state: whoever prepares a
\* supervisor is alone, records name supervisors that were started, and call
\* orphaned only a job without processes.
THEOREM JobInvCorrect == Spec => []IInv
BY InitIInv, NextIInv, PTL DEF Spec

\* Every variable keeps its type.
THEOREM JobTypeCorrect == Spec => []TypeOK
BY JobInvCorrect, PTL DEF IInv

\* For any number of submissions, crashes, killed supervisors and failed
\* writes, at most one supervisor is ever started for a job, unless two
\* submissions overlap (runtime.ts submit).
THEOREM StartedOnce == Spec => []RunsOnce
<1>1. IInv => RunsOnce
    BY DEF IInv, Alone, RunsOnce, Ever
<1> QED BY <1>1, JobInvCorrect, PTL

\* A job shown as orphaned has no live supervisor, whichever daemon judged it
\* and from however old a record (runtime.ts reconcile).
THEOREM OrphansAreGone == Spec => []OrphanedMeansGone
<1>1. IInv => OrphanedMeansGone
    BY DEF IInv, Judged, Sound, AllDown, OrphanedMeansGone
<1> QED BY <1>1, JobInvCorrect, PTL

-----------------------------------------------------------------------------
(* What an end that is shown says of the command, and what state.json says  *)
(* of a command that runs.  These rest on the order of a supervisor's life, *)
(* also where a timer is slow.                                              *)

\* While the daemon does not serve, no call but the reconciliation of its
\* start is under way; and that one only while it opens.
Served ==
    /\ daemon # "up" => \A c \in Calls \ {Opener} : call[c].pc \in {"idle", "done"}
    /\ call[Opener].pc # "idle" => daemon = "opening"

Names(r) == r # None /\ r.by # None => Ever(r.by)

Named ==
    /\ Names(row) /\ Names(file)
    /\ \A c \in Calls : Names(call[c].rec)

\* Without a failed write or spawn a command runs only between the spawn and
\* the verdict of its supervisor ...
Working ==
    Calm({"fault"}) =>
      \A s \in Submissions :
        /\ sup[s].pc # "failing" /\ sup[s].pc # "lingering"
        /\ child[s] = "alive" => sup[s].pc \in {"launching", "listening"}

\* ... and until that verdict the file is the supervisor's.
AtWork(s) == sup[s].pc \in {"booted", "armed", "launching", "listening"}

Reached ==
    Calm({"raced", "slow", "fault"}) =>
      \A s \in Submissions :
        AtWork(s) => file # None /\ file.by = s /\ file.state \in Active

\* Nothing runs for the job, and nothing will.
Over == /\ row # None
        /\ \A s \in Submissions : sup[s].pc \in {"none", "exiting", "dead"}

\* No supervisor was started, and none will be.
Unstarted == row # None /\ \A s \in Submissions : ~Ever(s)

Undisturbed == Calm({"raced", "early", "cut", "fault"})

\* A call that waits at one of these works on a record it read.
Reading == {"file", "probe", "orphan", "store", "match", "signal"}

Closed(r) == r # None /\ r.state \in Terminal => Over

\* A record without a supervisor is the one a submission is about to complete,
\* or of a job that never gets one.
Ended ==
    Undisturbed =>
      /\ row # None /\ row.by = None => Unrecorded \/ Unstarted
      /\ \A c \in Calls : call[c].pc \in Reading /\ call[c].rec.by = None => Unstarted
      /\ Closed(row) /\ Closed(file)
      /\ \A c \in Calls : Closed(call[c].rec)

\* A submission starts its supervisor once.
Fresh == \A c \in Submissions : call[c].pc \in {"idle", "write", "spawn"} => ~Ever(c)

EInv == Served /\ Fresh /\ Named /\ Working /\ Reached /\ Ended

\* What a supervisor's process does in one step, of its own or by a signal
Moves(s) ==
    /\ \A t \in Submissions \ {s} : sup'[t] = sup[t] /\ child'[t] = child[t]
    /\ mishaps \subseteq mishaps'
    /\ LET from == sup[s].pc
           to == sup'[s].pc
       IN Calm({"fault"})' =>
          \/ from = "failing"
          \/ /\ to = from /\ child'[s] \in {child[s], "zero", "nonzero"}
             /\ file' = file \/ file' = [state |-> "running", by |-> s]
          \/ /\ from = "boot" /\ to = "booted" /\ child'[s] = child[s]
             /\ file' = [state |-> "starting", by |-> s]
          \/ /\ from = "booted" /\ to = "armed" /\ child'[s] = child[s]
             /\ file' = file
          \/ /\ from = "armed" /\ to = "launching"
             /\ file' = file
          \/ /\ from = "launching" /\ to = "listening" /\ child'[s] = child[s]
             /\ file' = [state |-> "running", by |-> s]
          \/ /\ from = "listening" /\ to = "exiting" /\ child[s] # "alive"
             /\ child'[s] = child[s]
             /\ \E verdict \in {"cancelled", "succeeded", "failed"} :
                  file' = [state |-> verdict, by |-> s]
          \/ /\ to = "dead" /\ child'[s] # "alive"
             /\ file' = file \/ file' = [state |-> "running", by |-> s]

LEMMA DieMoves ==
    ASSUME TypeOK, NEW s \in Submissions, Die(s), mishaps \subseteq mishaps',
           file' = file \/ file' = [state |-> "running", by |-> s]
    PROVE  Moves(s)
<1>1. /\ sup'[s].pc = "dead" /\ child'[s] # "alive"
      /\ \A t \in Submissions \ {s} : sup'[t] = sup[t] /\ child'[t] = child[t]
    BY DEF Die, TypeOK, NoSupervisor
<1> QED BY <1>1 DEF Moves

LEMMA StopMoves ==
    ASSUME TypeOK, NEW s \in Submissions, NEW reason \in {"cancelled", "wall_time"},
           StopChild(s, reason), mishaps \subseteq mishaps', file' = file
    PROVE  Moves(s)
<1>1. /\ sup'[s].pc = sup[s].pc /\ child' = child
      /\ \A t \in Submissions \ {s} : sup'[t] = sup[t]
    BY DEF StopChild, TypeOK, SupRecord
<1> QED BY <1>1 DEF Moves

LEMMA SupervisorMoves ==
    ASSUME TypeOK, NEW s \in Submissions,
           Supervisor(s) \/ Timers(s) \/ ChildExits(s) \/ SupKilled(s)
    PROVE  Moves(s)
<1>0. /\ sup[s] \in SupRecord
      /\ \A pc \in SupPc : SupGoes(s, pc) => /\ sup'[s].pc = pc
                                            /\ \A t \in Submissions \ {s} : sup'[t] = sup[t]
    BY DEF TypeOK, SupGoes, SupRecord
<1>a. Fault => mishaps \subseteq mishaps' /\ ~Calm({"fault"})'
    BY DEF Fault, Calm
<1>1. CASE SupStart(s)
    <2>1. CASE Fault /\ Die(s) /\ UNCHANGED file
        BY <1>a, <2>1, DieMoves
    <2>2. CASE /\ Writes(s, "starting") /\ SupGoes(s, "booted")
               /\ UNCHANGED <<child, mishaps, troubles>>
        BY <1>0, <1>1, <2>2 DEF SupStart, SupAt, Writes, Moves, SupPc
    <2> QED BY <1>1, <2>1, <2>2 DEF SupStart
<1>2. CASE SupArm(s)
    BY <1>0, <1>2 DEF SupArm, SupAt, Moves, SupPc, stored
<1>3. CASE SupLaunch(s)
    <2>1. CASE Fault /\ Die(s)
        BY <1>a, <1>3, <2>1, DieMoves DEF SupLaunch, stored
    <2>2. CASE /\ SupGoes(s, "launching")
               /\ child' = [child EXCEPT ![s] = "alive"]
               /\ UNCHANGED <<mishaps, troubles>>
        <3>1. \A t \in Submissions \ {s} : child'[t] = child[t]
            BY <2>2 DEF TypeOK
        <3> QED BY <1>0, <1>3, <2>2, <3>1 DEF SupLaunch, SupAt, Moves, SupPc, stored
    <2>3. CASE Fault /\ SupGoes(s, "failing") /\ UNCHANGED child
        BY <1>0, <1>a, <1>3, <2>3 DEF Moves, SupPc
    <2> QED BY <1>3, <2>1, <2>2, <2>3 DEF SupLaunch
<1>4. CASE SupListen(s)
    <2>1. CASE /\ Writes(s, "running")
               /\ sup' = [sup EXCEPT ![s].pc = "listening", ![s].wall = TRUE]
               /\ UNCHANGED <<child, mishaps, troubles>>
        <3>1. /\ sup'[s].pc = "listening"
              /\ \A t \in Submissions \ {s} : sup'[t] = sup[t]
            BY <2>1 DEF TypeOK, SupRecord
        <3> QED BY <1>4, <2>1, <3>1 DEF SupListen, SupAt, Writes, Moves
    <2>2. CASE Writes(s, "running") /\ Die(s) /\ UNCHANGED <<mishaps, troubles>>
        BY <2>2, DieMoves DEF Writes
    <2>3. CASE Fault /\ SupGoes(s, "failing") /\ UNCHANGED <<file, child>>
        BY <1>0, <1>a, <2>3 DEF Moves, SupPc
    <2> QED BY <1>4, <2>1, <2>2, <2>3 DEF SupListen
<1>5. CASE SupVerdict(s)
    <2>1. CASE /\ Writes(s, Verdict(s))
               /\ sup' = [sup EXCEPT ![s].pc = "exiting", ![s].wall = FALSE]
               /\ UNCHANGED <<mishaps, troubles>>
        <3>1. /\ sup'[s].pc = "exiting"
              /\ \A t \in Submissions \ {s} : sup'[t] = sup[t]
            BY <2>1 DEF TypeOK, SupRecord
        <3>2. \E verdict \in {"cancelled", "succeeded", "failed"} :
                file' = [state |-> verdict, by |-> s]
            BY <2>1 DEF Writes, Verdict
        <3> QED BY <1>5, <2>1, <3>1, <3>2 DEF SupVerdict, SupAt, Moves
    <2>2. CASE /\ Fault
               /\ sup' = [sup EXCEPT ![s].pc = "failing", ![s].wall = FALSE]
               /\ UNCHANGED file
        <3>1. \A t \in Submissions \ {s} : sup'[t] = sup[t]
            BY <2>2 DEF TypeOK, SupRecord
        <3> QED BY <1>a, <1>5, <2>2, <3>1 DEF SupVerdict, Moves
    <2> QED BY <1>5, <2>1, <2>2 DEF SupVerdict
<1>6. CASE SupFails(s)
    <2>1. /\ \A t \in Submissions \ {s} : sup'[t] = sup[t]
          /\ child' = child /\ mishaps \subseteq mishaps'
        BY <1>0, <1>a, <1>6 DEF SupFails, SupPc
    <2> QED BY <1>6, <2>1 DEF SupFails, SupAt, Moves
<1>7. CASE SupExit(s)
    BY <1>7, DieMoves DEF SupExit, stored
<1>8. CASE Beat(s)
    <2>1. /\ sup'[s].pc = sup[s].pc
          /\ \A t \in Submissions \ {s} : sup'[t] = sup[t]
        BY <1>8 DEF Beat, TypeOK, SupRecord
    <2> QED BY <1>8, <2>1 DEF Beat, Moves, stored
<1>9. CASE BeatLands(s)
    <2>1. CASE /\ Writes(s, "running")
               /\ sup' = [sup EXCEPT ![s].beat = FALSE]
               /\ UNCHANGED <<child, mishaps, troubles>>
        <3>1. /\ sup'[s].pc = sup[s].pc
              /\ \A t \in Submissions \ {s} : sup'[t] = sup[t]
            BY <2>1 DEF TypeOK, SupRecord
        <3> QED BY <2>1, <3>1 DEF Writes, Moves
    <2>2. CASE Fault /\ Die(s) /\ UNCHANGED file
        BY <1>a, <2>2, DieMoves
    <2> QED BY <1>9, <2>1, <2>2 DEF BeatLands
<1>10. CASE WallTime(s)
    BY <1>10, StopMoves DEF WallTime, stored
<1>11. CASE KillFires(s)
    <2>1. /\ sup'[s].pc = sup[s].pc
          /\ \A t \in Submissions \ {s} : sup'[t] = sup[t] /\ child'[t] = child[t]
          /\ child'[s] \in {child[s], "nonzero"}
        BY <1>11 DEF KillFires, TypeOK, SupRecord
    <2> QED BY <1>11, <2>1 DEF KillFires, Moves, stored
<1>12. CASE ChildExits(s)
    <2>1. /\ \A t \in Submissions \ {s} : child'[t] = child[t]
          /\ child'[s] \in {"zero", "nonzero"}
        BY <1>12 DEF ChildExits, TypeOK
    <2> QED BY <1>12, <2>1 DEF ChildExits, Moves, stored
<1>13. CASE SupKilled(s)
    BY <1>13, DieMoves DEF SupKilled, stored
<1> QED BY <1>1, <1>2, <1>3, <1>4, <1>5, <1>6, <1>7, <1>8, <1>9, <1>10, <1>11, <1>12, <1>13
        DEF Supervisor, Timers

\* A step of a supervisor's process keeps what is said of the processes ...
LEMMA MovesWork ==
    ASSUME EInv, NEW s \in Submissions, Moves(s)
    PROVE  Working'
<1> SUFFICES ASSUME Calm({"fault"})', NEW t \in Submissions
             PROVE  (/\ sup[t].pc # "failing" /\ sup[t].pc # "lingering"
                     /\ child[t] = "alive" => sup[t].pc \in {"launching", "listening"})'
    BY DEF Working
<1>1. /\ sup[t].pc # "failing" /\ sup[t].pc # "lingering"
      /\ child[t] = "alive" => sup[t].pc \in {"launching", "listening"}
    BY DEF EInv, Working, Moves, Calm
<1>2. CASE t = s
    BY <1>1, <1>2 DEF Moves
<1>3. CASE t # s
    BY <1>1, <1>3 DEF Moves
<1> QED BY <1>2, <1>3

\* ... and of the file while the command runs.
LEMMA MovesReach ==
    ASSUME IInv, EInv, NEW s \in Submissions, Moves(s), Shift(s)
    PROVE  Reached'
<1> SUFFICES ASSUME Calm({"raced", "slow", "fault"})', NEW t \in Submissions, AtWork(t)'
             PROVE  file' # None /\ file'.by = t /\ file'.state \in Active
    BY DEF Reached
<1>1. /\ Calm({"raced", "slow", "fault"}) /\ Calm({"raced"}) /\ Calm({"fault"})'
    BY DEF Moves, Calm
<1>2. t = s
    <2>1. sup[t].pc # "none"
        BY DEF Shift, AtWork, Ever
    <2> QED BY <1>1, <2>1 DEF IInv, Alone, Shift, Ever
<1>3. sup[s].pc # "failing" /\ (AtWork(s) => file # None /\ file.by = s /\ file.state \in Active)
    BY <1>1 DEF EInv, Working, Reached, Calm
<1>4. \A state \in {"starting", "running"} :
        /\ [state |-> state, by |-> s] # None
        /\ [state |-> state, by |-> s].by = s /\ [state |-> state, by |-> s].state \in Active
    BY RecordTypes DEF Active
<1> QED BY <1>1, <1>2, <1>3, <1>4 DEF Moves, AtWork

\* The supervisor that moves is the one there is, so nothing is over but by
\* its verdict.
LEMMA MovesEnd ==
    ASSUME IInv, EInv, NEW s \in Submissions, Moves(s), Shift(s),
           \A c \in Submissions : call'[c] = call[c]
    PROVE  Ended' /\ Named'
<1>1. /\ row' = row /\ Ever(s) /\ Ever(s)'
      /\ \A t \in Submissions \ {s} : sup'[t] = sup[t]
      /\ \A c \in Calls : call'[c] = call[c] \/ (call'[c].rec = None /\ call'[c].pc \in {"idle", "done"})
      /\ file' = file \/ (file' # None /\ file'.by = s)
    BY DEF Shift, Idle, Done
<1>2. Named'
    <2>1. \A t : t \in Submissions => (Ever(t) => Ever(t)')
        BY <1>1 DEF Ever
    <2>2. /\ \A r \in JobRecord : r.by \in Submissions \cup {None}
          /\ row \in JobRecord \cup {None} /\ file \in JobRecord \cup {None}
          /\ \A c \in Calls : call[c].rec \in JobRecord \cup {None}
        BY DEF IInv, TypeOK, JobRecord
    <2> QED BY <1>1, <2>1, <2>2 DEF EInv, Named, Names
<1>3. ASSUME Undisturbed'
      PROVE  Ended'
    <2>1. Undisturbed /\ Calm({"raced"}) /\ Calm({"fault"})' /\ Calm({"fault"})
        BY <1>3 DEF Undisturbed, Calm, Moves
    <2>2. row # None /\ \A t \in Submissions : t # s => sup[t].pc = "none"
        BY <1>1, <2>1 DEF IInv, Held, Alone, Ever
    <2>3. ~Unstarted /\ sup[s].pc # "failing"
        BY <1>1, <2>1 DEF Unstarted, EInv, Working
    <2>4. Over => Over' /\ (file' = file \/ (file' # None /\ file'.state = "running"))
        BY <1>1, <2>1, <2>2, RecordTypes DEF Over, Moves
    <2>5. \/ file' = file \/ (file' # None /\ file'.state \notin Terminal)
          \/ Over'
        <3>1. \A state \in {"starting", "running"} :
                /\ [state |-> state, by |-> s] # None
                /\ [state |-> state, by |-> s].state \notin Terminal
            BY RecordTypes DEF Terminal
        <3>2. sup'[s].pc = "exiting" => Over'
            BY <1>1, <2>2 DEF Over
        <3> QED BY <2>1, <2>3, <3>1, <3>2 DEF Moves
    <2>6. /\ row # None /\ row.by = None => Unrecorded
          /\ \A c \in Calls : call[c].pc \in Reading => call[c].rec.by # None
          /\ Closed(row) /\ Closed(file)
          /\ \A c \in Calls : Closed(call[c].rec)
        BY <2>1, <2>3 DEF EInv, Ended
    <2>7. Unrecorded' <=> Unrecorded
        BY DEF Unrecorded, At
    <2>8. Closed(row)' /\ Closed(file)' /\ \A c \in Calls : Closed(call[c].rec)'
        BY <1>1, <2>4, <2>5, <2>6 DEF Closed
    <2>9. \A c \in Calls : call'[c].pc \in Reading => call'[c].rec.by # None
        BY <1>1, <2>6 DEF Reading
    <2> QED BY <1>1, <2>6, <2>7, <2>8, <2>9 DEF Ended
<1> QED BY <1>2, <1>3 DEF Ended

LEMMA ExitEnds ==
    ASSUME IInv, EInv, NEW s \in Submissions, ChildExits(s)
    PROVE  Named' /\ Reached' /\ Ended'
<1>1. UNCHANGED <<row, file, call, sup, mishaps>>
    BY DEF ChildExits, stored
<1>2. Named' /\ Reached'
    BY <1>1 DEF EInv, Named, Names, Ever, Reached, AtWork, Calm
<1>3. Ended'
    BY <1>1 DEF EInv, Ended, Undisturbed, Calm, Unrecorded, Unstarted, Ever, Closed, Over, At
<1> QED BY <1>2, <1>3

-----------------------------------------------------------------------------

\* A record is in order if it names a supervisor that was started, and says
\* that the job has ended, or names nobody, only for good.
Tidy(r) ==
    r # None => /\ Names(r)
                /\ Undisturbed => Closed(r) /\ (r.by = None => Unstarted)

LEMMA HeldTidy ==
    ASSUME IInv, EInv, NEW c \in Calls, call[c].pc \in Reading
    PROVE  /\ call[c].rec \in JobRecord /\ row # None
           /\ Tidy(call[c].rec)
           /\ Merged(call[c].rec) \in JobRecord /\ Tidy(Merged(call[c].rec))
<1> DEFINE r == call[c].rec
<1>1. r \in JobRecord /\ row # None
    BY HeldRecord DEF IInv, Reading, Holding
<1>2. Tidy(r)
    BY DEF EInv, Named, Ended, Tidy
<1>3. Merged(r) \in JobRecord
    BY <1>1, MergedType DEF IInv
<1>4. Names(Merged(r))
    BY <1>1, <1>2, MergedType DEF IInv, EInv, Named, Names, Tidy
<1>5. Merged(r).by = None => r.by = None
    BY <1>1 DEF Merged
<1>6. Merged(r).state \in Terminal
        => r.state \in Terminal \/ (file # None /\ file.state \in Terminal)
    <2>1. CASE file = None
        BY <2>1 DEF Merged
    <2>2. CASE file # None
        BY <2>2 DEF Merged, Terminal
    <2> QED BY <2>1, <2>2
<1>7. Tidy(Merged(r))
    BY <1>1, <1>2, <1>4, <1>5, <1>6 DEF Tidy, EInv, Ended, Closed
<1> QED BY <1>1, <1>2, <1>3, <1>7

\* A record whose supervisor is not there is of a job that is over.
LEMMA DeadMeansOver ==
    ASSUME IInv, EInv, NEW r \in JobRecord, Tidy(r), ~SupervisorAlive(r), row # None,
           Undisturbed
    PROVE  Over
<1>1. r # None /\ Calm({"raced"})
    BY RecordTypes, NoneIsNoRecord DEF Undisturbed, Calm
<1>2. CASE r.by = None
    BY <1>1, <1>2 DEF Tidy, Unstarted, Over, Ever
<1>3. CASE r.by # None
    <2>1. r.by \in Submissions /\ Ever(r.by) /\ ~Up(r.by)
        BY <1>1, <1>3 DEF Tidy, Names, SupervisorAlive, JobRecord
    <2>2. sup[r.by].pc = "dead"
        BY <2>1 DEF Ever, Up
    <2> QED BY <1>1, <2>1, <2>2 DEF IInv, Alone, Over, Ever
<1> QED BY <1>2, <1>3

\* A step of the call c that comes to x keeps what is said of ends, if what it
\* stores, writes and holds is in order.
LEMMA TurnEnds ==
    ASSUME IInv, EInv, NEW c \in Calls, NEW x, Turn(c, x),
           row # None => row' # None,
           row' = row \/ Tidy(row'),
           file' = file \/ (Names(file') /\ (Undisturbed => Closed(file'))),
           call[c].pc = "record" => row' # None /\ row'.by # None,
           Names(x.rec),
           Undisturbed' => /\ Closed(x.rec)
                           /\ x.pc \in Reading /\ x.rec.by = None => Unstarted
    PROVE  Named' /\ Ended'
<1>1. \A t : (Ever(t)' <=> Ever(t)) /\ sup' = sup
    BY DEF Turn, Ever
<1>2. \A r : (Names(r) => (r # None /\ r.by # None => Ever(r.by)'))
    BY <1>1 DEF Names
<1>3. Names(row)' /\ Names(file)'
    BY <1>1, <1>2 DEF EInv, Named, Tidy, Names
<1>4. \A d \in Calls : Names(call[d].rec)'
    BY <1>1 DEF EInv, Named, Names, Turn
<1>5. ASSUME Undisturbed'
      PROVE  Ended'
    <2>1. Undisturbed
        BY <1>5 DEF Undisturbed, Calm, Turn
    <2>2. (Over => Over') /\ (Unstarted => Unstarted')
        BY <1>1 DEF Over, Unstarted
    <2>3. Closed(row)' /\ Closed(file)'
        BY <2>1, <2>2 DEF EInv, Ended, Tidy, Closed
    <2>4. \A d \in Calls : Closed(call[d].rec)'
        BY <1>5, <2>1, <2>2 DEF EInv, Ended, Turn, Closed
    <2>5. \A d \in Calls : (call[d].pc \in Reading /\ call[d].rec.by = None => Unstarted)'
        BY <1>5, <2>1, <2>2 DEF EInv, Ended, Turn
    <2>6. (row # None /\ row.by = None => Unrecorded \/ Unstarted)'
        <3>1. CASE row' = row /\ call[c].pc # "record"
            <4>1. Unrecorded => Unrecorded'
                BY <3>1 DEF Unrecorded, At, Turn, Calls
            <4> QED BY <2>1, <2>2, <3>1, <4>1 DEF EInv, Ended
        <3>2. CASE call[c].pc = "record"
            BY <3>2
        <3>3. CASE Tidy(row')
            BY <2>1, <2>2, <3>3 DEF Tidy
        <3> QED BY <3>1, <3>2, <3>3
    <2> QED BY <2>3, <2>4, <2>5, <2>6 DEF Ended
<1> QED BY <1>3, <1>4, <1>5 DEF Named, Ended

\* No process moves, and the file stays as it is where one is at work.
LEMMA StillWorks ==
    ASSUME IInv, EInv, sup' = sup, child' = child, mishaps \subseteq mishaps',
           \/ file' = file
           \/ Calm({"raced", "slow", "fault"}) => \A s \in Submissions : ~AtWork(s)
    PROVE  Working' /\ Reached'
BY DEF EInv, Working, Reached, AtWork, Calm

\* A call that rests, having stored a record in order or none.
LEMMA RestEnds ==
    ASSUME IInv, EInv, NEW c \in Calls, Finish(c),
           sup' = sup, mishaps \subseteq mishaps',
           row # None => row' # None,
           row' = row \/ Tidy(row'),
           file' = file \/ (Names(file') /\ (Undisturbed => Closed(file'))),
           call[c].pc = "record" => row' # None /\ row'.by # None
    PROVE  Named' /\ Ended'
<1>1. PICK x : Turn(c, x) /\ x.rec = None /\ x.pc \in {"idle", "done"}
    BY RestedTurn DEF IInv
<1>2. x.pc \notin Reading
    BY <1>1 DEF Reading
<1> QED BY <1>1, <1>2, TurnEnds DEF Names, Closed

LEMMA ReconciledEnds ==
    ASSUME IInv, EInv, NEW c \in Calls, NEW r \in JobRecord, Reconciled(c, r), Tidy(r),
           sup' = sup, file' = file, mishaps' = mishaps,
           call[c].pc # "record"
    PROVE  Named' /\ Ended'
<1>0. r # None /\ row' = r
    BY NoneIsNoRecord, ReconciledType DEF IInv
<1>1. PICK x : /\ Turn(c, x)
               /\ x.pc \in {"idle", "done", "match"}
               /\ x.pc = "match" => x.rec = r
               /\ x.pc # "match" => x.rec = None
    BY ReconciledType DEF Turn, Idle, Done, IInv
<1>2. Names(x.rec)
    BY <1>0, <1>1 DEF Tidy, Names
<1>3. Undisturbed' => Undisturbed
    BY DEF Undisturbed, Calm
<1>4. Undisturbed' => Closed(x.rec) /\ (x.pc \in Reading /\ x.rec.by = None => Unstarted)
    BY <1>0, <1>1, <1>3 DEF Tidy, Closed, Reading
<1> QED BY <1>0, <1>1, <1>2, <1>4, TurnEnds

\* A call that goes on with a record in order.
LEMMA WaitEnds ==
    ASSUME IInv, EInv, NEW c \in Calls, NEW pc \in CallPc, NEW r \in JobRecord,
           Wait(c, pc, r), Tidy(r),
           sup' = sup, row' = row, mishaps \subseteq mishaps',
           file' = file \/ Tidy(file'),
           call[c].pc # "record"
    PROVE  Named' /\ Ended'
<1> DEFINE x == [pc |-> pc, rec |-> r]
<1>1. Turn(c, x)
    BY WaitType DEF Turn, IInv
<1>2. x.rec = r /\ x.pc = pc /\ r # None
    BY NoneIsNoRecord
<1> HIDE DEF x
<1>3. Undisturbed' => Undisturbed
    BY DEF Undisturbed, Calm
<1>4. file' = file \/ (Names(file') /\ (Undisturbed => Closed(file')))
    BY DEF Tidy, Names, Closed
<1> QED BY <1>1, <1>2, <1>3, <1>4, TurnEnds DEF Tidy

LEMMA ReconcileEnds ==
    ASSUME IInv, EInv, NEW c \in Calls, Reconcile(c)
    PROVE  Named' /\ Working' /\ Reached' /\ Ended'
<1> DEFINE r == call[c].rec
<1>0. /\ call[c].pc \in Reading /\ call[c].pc # "record"
      /\ sup' = sup /\ child' = child
    BY DEF Reconcile, ReadFile, Probe, WriteOrphan, StoreOrphan, At, Reading, processes
<1>a. /\ r \in JobRecord /\ row # None /\ Tidy(r) /\ r # None
      /\ Merged(r) \in JobRecord /\ Tidy(Merged(r))
    BY <1>0, HeldTidy, NoneIsNoRecord
<1> HIDE DEF r
<1>1. CASE ReadFile(c)
    <2>1. file' = file
        BY <1>1 DEF ReadFile
    <2>2. CASE Wait(c, "probe", Merged(r)) /\ UNCHANGED <<row, daemon, mishaps>>
        BY <1>0, <1>a, <2>1, <2>2, WaitEnds, StillWorks DEF CallPc
    <2>3. CASE Reconciled(c, Merged(r)) /\ UNCHANGED mishaps
        BY <1>0, <1>a, <2>1, <2>3, ReconciledEnds, StillWorks
    <2>4. CASE Fault /\ Reject(c) /\ UNCHANGED row
        BY <1>0, <2>1, <2>4, RestEnds, StillWorks DEF Fault, Reject
    <2> QED BY <1>1, <2>2, <2>3, <2>4 DEF ReadFile, r
<1>2. CASE Probe(c)
    <2>1. file' = file /\ mishaps' = mishaps
        BY <1>2 DEF Probe
    <2>2. CASE Reconciled(c, r)
        BY <1>0, <1>a, <2>1, <2>2, ReconciledEnds, StillWorks
    <2>3. CASE /\ ~SupervisorAlive(r)
               /\ Wait(c, "orphan", [r EXCEPT !.state = "orphaned"]) /\ UNCHANGED row
        <3> DEFINE o == [r EXCEPT !.state = "orphaned"]
        <3>1. o \in JobRecord /\ o.by = r.by
            BY <1>a, RecordTypes DEF JobRecord
        <3>2. Undisturbed => Over
            BY <1>a, <2>3, DeadMeansOver
        <3>3. Tidy(o)
            BY <1>a, <3>1, <3>2 DEF Tidy, Names, Closed
        <3> QED BY <1>0, <2>1, <2>3, <3>1, <3>3, WaitEnds, StillWorks DEF CallPc
    <2> QED BY <1>2, <2>2, <2>3 DEF Probe, Missing, r
<1>3. CASE StoreOrphan(c)
    BY <1>0, <1>a, <1>3, ReconciledEnds, StillWorks DEF StoreOrphan, r
<1>4. CASE WriteOrphan(c)
    <2>1. row' = row
        BY <1>4 DEF WriteOrphan
    <2>2. CASE file' = r /\ Wait(c, "store", r) /\ UNCHANGED <<daemon, mishaps, troubles>>
        <3>1. r.state = "orphaned"
            BY <1>4 DEF WriteOrphan, At, IInv, Held, r
        <3>2. Calm({"raced", "slow", "fault"}) => AllDown
            BY <1>a, <3>1 DEF IInv, Judged, Sound, Calm, r
        <3>3. Calm({"raced", "slow", "fault"}) => \A s \in Submissions : ~AtWork(s)
            BY <3>2 DEF AllDown, Up, AtWork
        <3> QED BY <1>0, <1>a, <2>1, <2>2, <3>3, WaitEnds, StillWorks DEF CallPc
    <2>3. CASE Fault /\ Reject(c) /\ UNCHANGED file
        BY <1>0, <2>1, <2>3, RestEnds, StillWorks DEF Fault, Reject
    <2> QED BY <1>4, <2>2, <2>3 DEF WriteOrphan, r
<1> QED BY <1>1, <1>2, <1>3, <1>4 DEF Reconcile

\* A call that finds the row while no submission is about to complete it.
LEMMA LookEnds ==
    ASSUME IInv, EInv, NEW c \in Calls, Look(c), At(c, "idle"),
           UNCHANGED <<stored, processes>>
    PROVE  Named' /\ Working' /\ Reached' /\ Ended'
<1> DEFINE x == [pc |-> "file", rec |-> row]
<1>1. /\ Turn(c, x) /\ row # None /\ call[c].pc # "record"
      /\ row' = row /\ file' = file /\ sup' = sup /\ child' = child
      /\ mishaps \subseteq mishaps'
    BY WaitType DEF Look, Turn, CallPc, IInv, stored, processes, TypeOK, At
<1>2. x.pc = "file" /\ x.rec = row
    OBVIOUS
<1> HIDE DEF x
<1>3. Undisturbed' => Undisturbed /\ ~Unrecorded
    BY DEF Look, Undisturbed, Calm
<1>4. Undisturbed' => Closed(row) /\ (row.by = None => Unstarted)
    BY <1>1, <1>3 DEF EInv, Ended
<1>5. Names(row)
    BY DEF EInv, Named
<1> QED BY <1>1, <1>2, <1>4, <1>5, TurnEnds, StillWorks

LEMMA CancelEnds ==
    ASSUME IInv, IInv', EInv, NEW c \in Cancellations, Cancel(c)
    PROVE  Named' /\ Working' /\ Reached' /\ Ended'
<1>0. c \in Calls
    BY DEF Calls
<1>1. CASE CancelCall(c)
    <2>1. CASE Look(c)
        BY <1>0, <1>1, <2>1, LookEnds DEF CancelCall
    <2>2. CASE row = None /\ Finish(c) /\ UNCHANGED mishaps
        BY <1>0, <1>1, <2>2, RestEnds, StillWorks DEF CancelCall, stored, processes, At
    <2> QED BY <1>1, <2>1, <2>2 DEF CancelCall
<1>2. CASE CancelMatch(c)
    <2> DEFINE r == call[c].rec
    <2>0. /\ call[c].pc \in Reading /\ call[c].pc # "record" /\ file' = file
          /\ sup' = sup /\ child' = child /\ mishaps' = mishaps
        BY <1>2 DEF CancelMatch, At, Reading, processes
    <2>1. r \in JobRecord /\ row # None /\ Tidy(r) /\ r # None
        BY <1>0, <2>0, HeldTidy, NoneIsNoRecord
    <2> HIDE DEF r
    <2>2. CASE Wait(c, "signal", r) /\ UNCHANGED row
        BY <1>0, <2>0, <2>1, <2>2, WaitEnds, StillWorks DEF CallPc
    <2>3. CASE ~SupervisorAlive(r) /\ row' = [r EXCEPT !.state = "cancelled"] /\ Finish(c)
        <3>1. row' \in JobRecord /\ row'.by = r.by /\ row' # None
            BY <2>1, <2>3, RecordTypes, NoneIsNoRecord DEF JobRecord
        <3>2. Undisturbed => Over
            BY <2>1, <2>3, DeadMeansOver
        <3>3. Tidy(row')
            BY <2>1, <3>1, <3>2 DEF Tidy, Names, Closed
        <3> QED BY <1>0, <2>0, <2>3, <3>1, <3>3, RestEnds, StillWorks
    <2> QED BY <1>2, <2>2, <2>3 DEF CancelMatch, r
<1>3. CASE CancelSignal(c)
    <2>0. /\ call[c].pc # "record" /\ Finish(c)
          /\ row' = row /\ file' = file /\ mishaps' = mishaps
        BY <1>3 DEF CancelSignal, At, stored
    <2>1. CASE ~SupervisorAlive(call[c].rec)
        BY <1>0, <1>3, <2>0, <2>1, RestEnds, StillWorks DEF CancelSignal, processes
    <2>2. CASE SupervisorAlive(call[c].rec)
        <3>1. PICK s \in Submissions : Terminate(s) /\ Shift(s)
            BY <1>3, <2>2, SignalShifts
        <3>2. Moves(s)
            BY <2>0, <3>1, DieMoves, StopMoves DEF Terminate, IInv
        <3>3. \A d \in Submissions : d # c /\ d \in Calls
            BY JobAssumption DEF Calls
        <3>4. \A d \in Submissions : call'[d] = call[d]
            BY <1>0, <2>0, <3>3, FinishType DEF IInv
        <3> QED BY <3>1, <3>2, <3>4, MovesWork, MovesReach, MovesEnd
    <2> QED BY <2>1, <2>2
<1> QED BY <1>1, <1>2, <1>3 DEF Cancel

LEMMA SubmitEnds ==
    ASSUME IInv, IInv', EInv, NEW c \in Submissions, Submit(c)
    PROVE  Named' /\ Working' /\ Reached' /\ Ended'
<1>0. /\ c \in Calls /\ c # None
      /\ \A state, by : [state |-> state, by |-> by].state = state
      /\ \A state, by : [state |-> state, by |-> by].by = by
      /\ Names(None) /\ Closed(None)
    BY JobAssumption DEF Calls, Names, Closed
<1>1. CASE SubmitCall(c)
    <2>1. CASE Look(c)
        BY <1>0, <1>1, <2>1, LookEnds DEF SubmitCall
    <2>2. CASE row = None /\ Wait(c, "write", None) /\ mishaps \subseteq mishaps'
        <3> DEFINE x == [pc |-> "write", rec |-> None]
        <3>1. /\ Turn(c, x) /\ row' = row /\ file' = file /\ child' = child
              /\ call[c].pc # "record"
            BY <1>0, <1>1, <2>2, WaitType
               DEF SubmitCall, Turn, CallPc, IInv, stored, processes, At
        <3>2. x.pc \notin Reading /\ x.rec = None
            BY DEF Reading
        <3> HIDE DEF x
        <3> QED BY <1>0, <2>2, <3>1, <3>2, TurnEnds, StillWorks DEF Turn
    <2> QED BY <1>1, <2>1, <2>2 DEF SubmitCall
<1>2. CASE SubmitWrite(c)
    <2>0. /\ sup' = sup /\ child' = child /\ row' = row /\ call[c].pc # "record"
        BY <1>2 DEF SubmitWrite, processes, At
    <2>1. CASE Fault /\ Finish(c) /\ UNCHANGED <<file, aged>>
        BY <1>0, <2>0, <2>1, RestEnds, StillWorks DEF Fault
    <2>2. CASE /\ file' = [state |-> "queued", by |-> None]
               /\ Wait(c, "spawn", None)
               /\ UNCHANGED <<mishaps, troubles>>
        <3> DEFINE x == [pc |-> "spawn", rec |-> None]
        <3>1. Turn(c, x)
            BY <1>0, <2>0, <2>2, WaitType DEF Turn, CallPc, IInv
        <3>2. x.pc \notin Reading /\ x.rec = None
            BY DEF Reading
        <3> HIDE DEF x
        <3>3. Names(file') /\ Closed(file')
            BY <1>0, <2>2 DEF Names, Closed, Terminal
        <3>4. Calm({"raced", "slow", "fault"}) => \A s \in Submissions : ~AtWork(s)
            <4>1. Calm({"raced"}) => row = None
                BY <1>2 DEF SubmitWrite, IInv, Alone, Preparing, At
            <4> QED BY <4>1 DEF IInv, Held, Calm, AtWork, Ever
        <3> QED BY <1>0, <2>0, <2>2, <3>1, <3>2, <3>3, <3>4, TurnEnds, StillWorks
    <2> QED BY <1>2, <2>1, <2>2 DEF SubmitWrite
<1>3. CASE SubmitSpawn(c)
    <2>1. /\ row' # None /\ row'.state = "queued" /\ row'.by = None
          /\ call'[c] = [pc |-> "record", rec |-> row']
          /\ \A d \in Calls : d # c => call'[d] = call[d]
          /\ At(c, "spawn") /\ file' = file /\ mishaps' = mishaps /\ child' = child
        BY <1>0, <1>3, WaitType, RecordTypes DEF SubmitSpawn, CallPc, IInv
    <2>2. /\ sup'[c].pc = "boot"
          /\ \A s \in Submissions \ {c} : sup'[s] = sup[s]
        BY <1>3 DEF SubmitSpawn, IInv, TypeOK, SupRecord
    <2>3. \A t : t \in Submissions => (Ever(t) => Ever(t)')
        BY <2>2 DEF Ever
    <2>4. Named'
        <3>1. /\ \A r \in JobRecord : r.by \in Submissions \cup {None}
              /\ file \in JobRecord \cup {None}
              /\ \A d \in Calls : call[d].rec \in JobRecord \cup {None}
            BY DEF IInv, TypeOK, JobRecord
        <3>2. Names(row)' /\ Names(file)'
            BY <2>1, <2>3, <3>1 DEF EInv, Named, Names
        <3>3. \A d \in Calls : Names(call[d].rec)'
            BY <1>0, <2>1, <2>3, <3>1 DEF EInv, Named, Names
        <3> QED BY <3>2, <3>3 DEF Named
    <2>5. Calm({"raced"}) => row = None /\ \A s \in Submissions : ~Ever(s)
        BY <2>1 DEF IInv, Alone, Held, Preparing, At
    <2>6. Reached'
        <3>1. Calm({"raced", "slow", "fault"})' => \A s \in Submissions : ~AtWork(s)'
            BY <2>1, <2>2, <2>5 DEF Calm, AtWork, Ever
        <3> QED BY <3>1 DEF Reached
    <2>7. Working'
        <3> SUFFICES ASSUME Calm({"fault"}), NEW s \in Submissions
                     PROVE  (/\ sup[s].pc # "failing" /\ sup[s].pc # "lingering"
                             /\ child[s] = "alive" => sup[s].pc \in {"launching", "listening"})'
            BY <2>1 DEF Working, Calm
        <3>1. /\ sup[s].pc # "failing" /\ sup[s].pc # "lingering"
              /\ child[s] = "alive" => sup[s].pc \in {"launching", "listening"}
            BY DEF EInv, Working
        <3>2. CASE s # c
            BY <2>1, <2>2, <3>1, <3>2
        <3>3. CASE s = c
            BY <2>1, <2>2, <3>1, <3>3 DEF EInv, Fresh, At, Ever
        <3> QED BY <3>2, <3>3
    <2>8. Ended'
        <3> SUFFICES ASSUME Undisturbed'
                     PROVE  Ended'
            BY DEF Ended
        <3>1. Undisturbed /\ row = None /\ \A s \in Submissions : ~Ever(s)
            BY <2>1, <2>5 DEF Undisturbed, Calm
        <3>2. \A d \in Calls : call[d].rec = None /\ call[d].pc \notin Reading
            BY <3>1 DEF IInv, Held, Reading, Holding
        <3>3. \A d \in Calls : (call[d].pc \in Reading => FALSE)'
            BY <2>1, <3>2 DEF Reading
        <3>4. Unrecorded'
            BY <2>1 DEF Unrecorded, At
        <3>5. ~(file # None /\ file.state \in Terminal)
            BY <3>1 DEF EInv, Ended, Closed, Over
        <3>6. Closed(row)' /\ Closed(file)'
            BY <2>1, <3>5 DEF Closed, Terminal
        <3>7. \A d \in Calls : Closed(call[d].rec)'
            BY <2>1, <3>2 DEF Closed, Terminal
        <3> QED BY <3>3, <3>4, <3>6, <3>7 DEF Ended
    <2> QED BY <2>4, <2>6, <2>7, <2>8
<1>4. CASE SubmitRecord(c)
    <2>1. /\ row # None /\ Ever(c)
          /\ sup' = sup /\ child' = child /\ file' = file /\ mishaps' = mishaps /\ Finish(c)
        BY <1>0, <1>4 DEF SubmitRecord, IInv, Held, Holding, At, processes
    <2>2. row' # None /\ row'.by = c /\ row'.state = "starting"
        BY <1>4, RecordTypes, NoneIsNoRecord DEF SubmitRecord
    <2>3. Tidy(row')
        BY <1>0, <2>1, <2>2 DEF Tidy, Names, Closed, Terminal
    <2> QED BY <1>0, <2>1, <2>2, <2>3, RestEnds, StillWorks
<1> QED BY <1>1, <1>2, <1>3, <1>4 DEF Submit

LEMMA CrashEnds ==
    ASSUME IInv, IInv', EInv, Crash
    PROVE  Named' /\ Working' /\ Reached' /\ Ended'
<1>1. /\ \A d \in Calls : call'[d].rec = None /\ call'[d].pc \in {"idle", "done"}
      /\ sup' = sup /\ file' = file /\ child' = child /\ mishaps \subseteq mishaps'
    BY DEF Crash, Idle, Done, processes
<1>2. \/ row' = row
      \/ /\ row' # None /\ row'.state = "queued" /\ row'.by = None
         /\ \E c \in Submissions : At(c, "spawn")
    BY RecordTypes DEF Crash
<1>3. Working' /\ Reached'
    BY <1>1, StillWorks
<1>4. Named'
    BY <1>1, <1>2 DEF EInv, Named, Names, Ever
<1>5. Ended'
    <2> SUFFICES ASSUME Undisturbed'
                 PROVE  Ended'
        BY DEF Ended
    <2>1. Undisturbed /\ ~Unrecorded /\ Calm({"raced"})
        BY DEF Undisturbed, Calm, Crash
    <2>2. \A d \in Calls : Closed(call[d].rec)' /\ call'[d].pc \notin Reading
        BY <1>1 DEF Closed, Reading
    <2>3. CASE row' = row
        <3>1. (Over <=> Over') /\ (Unstarted <=> Unstarted')
            BY <1>1, <2>3 DEF Over, Unstarted, Ever
        <3> QED BY <1>1, <2>1, <2>2, <2>3, <3>1 DEF EInv, Ended, Closed
    <2>4. CASE /\ row' # None /\ row'.state = "queued" /\ row'.by = None
               /\ \E c \in Submissions : At(c, "spawn")
        <3>1. row = None /\ \A s \in Submissions : ~Ever(s)
            BY <2>1, <2>4 DEF IInv, Alone, Held, Preparing, At
        <3>2. Unstarted'
            BY <1>1, <2>4, <3>1 DEF Unstarted, Ever
        <3>3. ~(file # None /\ file.state \in Terminal)
            BY <2>1, <3>1 DEF EInv, Ended, Closed, Over
        <3>4. Closed(row)' /\ Closed(file)'
            BY <1>1, <2>4, <3>3 DEF Closed, Terminal
        <3> QED BY <2>2, <3>2, <3>4 DEF Ended
    <2> QED BY <1>2, <2>3, <2>4
<1> QED BY <1>3, <1>4, <1>5

LEMMA RestartEnds ==
    ASSUME IInv, EInv, Restart
    PROVE  Named' /\ Working' /\ Reached' /\ Ended'
<1>0. /\ Opener \in Calls /\ daemon = "down"
      /\ UNCHANGED <<row, file, sup, child, mishaps>>
    BY DEF Restart, Calls, stored, processes
<1>1. CASE row # None /\ Wait(Opener, "file", row)
    <2> DEFINE x == [pc |-> "file", rec |-> row]
    <2>1. Turn(Opener, x)
        BY <1>0, <1>1, WaitType DEF Turn, CallPc, IInv, TypeOK
    <2>2. x.pc = "file" /\ x.rec = row
        OBVIOUS
    <2> HIDE DEF x
    <2>3. ~Unrecorded
        <3>1. \A c \in Submissions : c \in Calls \ {Opener}
            BY JobAssumption DEF Calls
        <3> QED BY <1>0, <3>1 DEF Unrecorded, EInv, Served, At
    <2>4. Undisturbed' => Closed(row) /\ (row.by = None => Unstarted)
        BY <1>0, <1>1, <2>3 DEF EInv, Ended, Undisturbed, Calm
    <2>5. Names(row) /\ call[Opener].pc # "record"
        BY <1>0 DEF EInv, Named, Served
    <2> QED BY <1>0, <1>1, <2>1, <2>2, <2>4, <2>5, TurnEnds, StillWorks
<1>2. CASE UNCHANGED call
    <2>1. Working' /\ Reached'
        BY <1>0, StillWorks
    <2> QED BY <1>0, <1>2, <2>1 DEF EInv, Ended, Undisturbed, Calm, Unrecorded, Unstarted, Ever,
                        Closed, Over, At, Named, Names
<1> QED BY <1>1, <1>2 DEF Restart

LEMMA AgeEnds ==
    ASSUME IInv, EInv, Age
    PROVE  Named' /\ Working' /\ Reached' /\ Ended'
<1>1. UNCHANGED <<row, file, call, sup, child>> /\ mishaps \subseteq mishaps'
    BY DEF Age, stored, processes
<1>2. Working' /\ Reached'
    BY <1>1, StillWorks
<1>3. Named'
    BY <1>1 DEF EInv, Named, Names, Ever
<1>4. Ended'
    <2>1. Undisturbed' => Undisturbed
        BY <1>1 DEF Undisturbed, Calm
    <2> QED BY <1>1, <2>1 DEF EInv, Ended, Unrecorded, Unstarted, Ever, Closed, Over, At
<1> QED BY <1>2, <1>3, <1>4

\* What a daemon's step makes of the places its calls wait at.
LEMMA FinishPc ==
    ASSUME TypeOK, NEW c \in Calls, Finish(c)
    PROVE  /\ call'[c].pc = IF c \in Pollers \cup {Opener} THEN "idle" ELSE "done"
           /\ \A d \in Calls : d # c => call'[d] = call[d]
BY DEF TypeOK, Finish, Idle, Done

LEMMA WaitPc ==
    ASSUME TypeOK, NEW c \in Calls, NEW pc, NEW r, Wait(c, pc, r)
    PROVE  call'[c].pc = pc /\ \A d \in Calls : d # c => call'[d] = call[d]
BY DEF TypeOK, Wait

LEMMA ReconcilePc ==
    ASSUME TypeOK, NEW c \in Calls, Reconcile(c)
    PROVE  /\ call[c].pc \in {"file", "probe", "orphan", "store"}
           /\ \A d \in Calls : d # c => call'[d] = call[d]
           /\ \/ call'[c].pc \in {"probe", "orphan", "store", "match"} /\ daemon' = daemon
                 /\ (call'[c].pc = "match" => c \in Cancellations)
              \/ /\ call'[c].pc = IF c \in Pollers \cup {Opener} THEN "idle" ELSE "done"
                 /\ daemon' = daemon \/ (c = Opener /\ daemon' \in {"up", "down"})
<1>1. call[c].pc \in {"file", "probe", "orphan", "store"}
    BY DEF Reconcile, ReadFile, Probe, WriteOrphan, StoreOrphan, At
<1>2. ASSUME NEW r, Reconciled(c, r)
      PROVE  /\ \A d \in Calls : d # c => call'[d] = call[d]
             /\ \/ call'[c].pc = "match" /\ c \in Cancellations /\ c # Opener
                \/ call'[c].pc = IF c \in Pollers \cup {Opener} THEN "idle" ELSE "done"
             /\ daemon' = daemon \/ (c = Opener /\ daemon' = "up")
    <2>1. CASE Wait(c, "match", r) /\ c \in Cancellations
        BY <1>2, <2>1, WaitPc, JobAssumption DEF Reconciled
    <2>2. CASE Finish(c)
        BY <1>2, <2>2, FinishPc DEF Reconciled
    <2> QED BY <1>2, <2>1, <2>2 DEF Reconciled
<1>3. ASSUME Reject(c)
      PROVE  /\ \A d \in Calls : d # c => call'[d] = call[d]
             /\ call'[c].pc = IF c \in Pollers \cup {Opener} THEN "idle" ELSE "done"
             /\ daemon' = daemon \/ (c = Opener /\ daemon' = "down")
    BY <1>3, FinishPc DEF Reject
<1>4. ASSUME NEW pc \in {"probe", "orphan", "store"}, NEW r, Wait(c, pc, r), daemon' = daemon
      PROVE  /\ \A d \in Calls : d # c => call'[d] = call[d]
             /\ call'[c].pc \in {"probe", "orphan", "store"} /\ daemon' = daemon
    BY <1>4, WaitPc
<1>5. CASE ReadFile(c)
    <2>1. CASE Wait(c, "probe", Merged(call[c].rec)) /\ UNCHANGED <<row, daemon>>
        BY <1>1, <1>4, <2>1
    <2>2. CASE Reconciled(c, Merged(call[c].rec))
        BY <1>1, <1>2, <2>2
    <2>3. CASE Reject(c)
        BY <1>1, <1>3, <2>3
    <2> QED BY <1>5, <2>1, <2>2, <2>3 DEF ReadFile
<1>6. CASE Probe(c)
    <2>1. CASE /\ Wait(c, "orphan", [call[c].rec EXCEPT !.state = "orphaned"])
               /\ UNCHANGED <<row, daemon>>
        BY <1>1, <1>4, <2>1
    <2>2. CASE Reconciled(c, call[c].rec)
        BY <1>1, <1>2, <2>2
    <2> QED BY <1>6, <2>1, <2>2 DEF Probe
<1>7. CASE WriteOrphan(c)
    <2>1. CASE Wait(c, "store", call[c].rec) /\ UNCHANGED daemon
        BY <1>1, <1>4, <2>1
    <2>2. CASE Reject(c)
        BY <1>1, <1>3, <2>2
    <2> QED BY <1>7, <2>1, <2>2 DEF WriteOrphan
<1>8. CASE StoreOrphan(c)
    BY <1>1, <1>2, <1>8 DEF StoreOrphan
<1> QED BY <1>5, <1>6, <1>7, <1>8 DEF Reconcile

\* A call other than the opening one moves only in a daemon that serves.
LEMMA CallServed ==
    ASSUME EInv, NEW c \in Calls, c # Opener, daemon' = daemon,
           daemon = "up" \/ call[c].pc \notin {"idle", "done"},
           \A d \in Calls : d # c => call'[d] = call[d]
    PROVE  Served'
<1>1. daemon = "up" /\ Opener \in Calls
    BY DEF EInv, Served, Calls
<1> QED BY <1>1 DEF EInv, Served

LEMMA ServedKeeps ==
    ASSUME IInv, EInv, Next
    PROVE  Served' /\ Fresh'
<1>0. /\ Opener \in Calls /\ Submissions \subseteq Calls
      /\ Opener \notin Submissions \cup Pollers \cup Cancellations
      /\ \A c \in Submissions : c \notin Pollers \cup Cancellations \cup {Opener}
    BY JobAssumption DEF Calls
<1>1. ASSUME NEW c \in Calls, Reconcile(c)
      PROVE  Served' /\ Fresh'
    <2>1. sup' = sup
        BY <1>1 DEF Reconcile, ReadFile, Probe, WriteOrphan, StoreOrphan, processes
    <2>2. Fresh'
        BY <1>0, <1>1, <2>1, ReconcilePc DEF IInv, EInv, Fresh, Ever
    <2>3. CASE c # Opener
        BY <1>1, <2>2, <2>3, ReconcilePc, CallServed DEF IInv
    <2>4. CASE c = Opener
        <3>1. daemon = "opening"
            BY <1>1, <2>4, ReconcilePc DEF IInv, EInv, Served
        <3> QED BY <1>0, <1>1, <2>2, <2>4, <3>1, ReconcilePc DEF IInv, EInv, Served
    <2> QED BY <2>3, <2>4
<1>2. ASSUME NEW c \in Calls, Look(c), At(c, "idle"), daemon = "up", c # Opener,
             UNCHANGED <<daemon, stored, processes>>
      PROVE  Served' /\ Fresh'
    <2>1. call'[c].pc = "file" /\ \A d \in Calls : d # c => call'[d] = call[d]
        BY <1>2, WaitPc DEF Look, IInv
    <2>2. Served'
        BY <1>2, <2>1, CallServed
    <2>3. Fresh'
        BY <1>0, <1>2, <2>1 DEF EInv, Fresh, Ever, processes
    <2> QED BY <2>2, <2>3
<1>3. ASSUME NEW c \in Submissions, Submit(c)
      PROVE  Served' /\ Fresh'
    <2>1. /\ c \in Calls /\ c # Opener /\ daemon' = daemon
          /\ daemon = "up" \/ call[c].pc \notin {"idle", "done"}
        BY <1>0, <1>3 DEF Submit, SubmitCall, SubmitWrite, SubmitSpawn, SubmitRecord, At
    <2>2. ASSUME NEW pc, NEW r, Wait(c, pc, r) \/ Finish(c),
                 pc \in {"write", "spawn"} => call[c].pc \in {"idle", "write"},
                 pc # "idle", sup' = sup
          PROVE  Served' /\ Fresh'
        <3>1. /\ \A d \in Calls : d # c => call'[d] = call[d]
              /\ call'[c].pc \in {pc, "done"}
            BY <1>0, <2>1, <2>2, WaitPc, FinishPc DEF IInv
        <3>2. Served'
            BY <2>1, <3>1, CallServed
        <3>3. Fresh'
            BY <1>0, <2>2, <3>1 DEF EInv, Fresh, Ever
        <3> QED BY <3>2, <3>3
    <2>3. CASE SubmitCall(c)
        <3>1. CASE Look(c)
            BY <1>2, <2>1, <2>3, <3>1 DEF SubmitCall
        <3>2. CASE Wait(c, "write", None)
            BY <2>2, <2>3, <3>2 DEF SubmitCall, processes, At
        <3> QED BY <2>3, <3>1, <3>2 DEF SubmitCall
    <2>4. CASE SubmitWrite(c)
        BY <2>2, <2>4 DEF SubmitWrite, processes, At
    <2>5. CASE SubmitSpawn(c)
        <3>1. /\ call'[c].pc = "record"
              /\ \A d \in Calls : d # c => call'[d] = call[d]
            BY <2>1, <2>5, WaitPc DEF SubmitSpawn, IInv
        <3>2. \A s \in Submissions \ {c} : sup'[s] = sup[s]
            BY <2>5 DEF SubmitSpawn, IInv, TypeOK
        <3>3. Served'
            BY <2>1, <3>1, CallServed
        <3>4. Fresh'
            BY <1>0, <3>1, <3>2 DEF EInv, Fresh, Ever
        <3> QED BY <3>3, <3>4
    <2>6. CASE SubmitRecord(c)
        BY <2>2, <2>6 DEF SubmitRecord, processes
    <2> QED BY <1>3, <2>3, <2>4, <2>5, <2>6 DEF Submit
<1>4. ASSUME NEW c \in Pollers, Poll(c)
      PROVE  Served' /\ Fresh'
    BY <1>0, <1>2, <1>4 DEF Poll, Calls
<1>5. ASSUME NEW s \in Submissions, Shift(s), daemon' = daemon,
             \/ call' = call
             \/ \E c \in Cancellations : Finish(c) /\ At(c, "signal")
      PROVE  Served' /\ Fresh'
    <2>1. \A t \in Submissions : Ever(t) <=> Ever(t)'
        BY <1>5 DEF Shift, Ever
    <2>2. CASE call' = call
        BY <1>5, <2>1, <2>2 DEF EInv, Served, Fresh
    <2>3. CASE \E c \in Cancellations : Finish(c) /\ At(c, "signal")
        <3>1. PICK c \in Cancellations : Finish(c) /\ At(c, "signal")
            BY <2>3
        <3>2. c \in Calls /\ c # Opener /\ \A d \in Calls : d # c => call'[d] = call[d]
            BY <1>0, <3>1, FinishPc DEF Calls, IInv
        <3>3. Served'
            BY <1>5, <3>1, <3>2, CallServed DEF At
        <3>4. Fresh'
            BY <1>0, <2>1, <3>1, <3>2 DEF EInv, Fresh
        <3> QED BY <3>3, <3>4
    <2> QED BY <1>5, <2>2, <2>3
<1>6. ASSUME NEW c \in Cancellations, Cancel(c)
      PROVE  Served' /\ Fresh'
    <2>0. c \in Calls /\ c # Opener /\ daemon' = daemon
        BY <1>0, <1>6 DEF Calls, Cancel, CancelCall, CancelMatch, CancelSignal
    <2>1. ASSUME NEW r, Wait(c, "signal", r) \/ Finish(c), sup' = sup,
                 daemon = "up" \/ call[c].pc \notin {"idle", "done"}
          PROVE  Served' /\ Fresh'
        <3>1. \A d \in Calls : d # c => call'[d] = call[d]
            BY <2>0, <2>1, WaitPc, FinishPc DEF IInv
        <3>2. Served'
            BY <2>0, <2>1, <3>1, CallServed
        <3>3. Fresh'
            BY <1>0, <2>1, <3>1 DEF EInv, Fresh, Ever
        <3> QED BY <3>2, <3>3
    <2>2. CASE CancelCall(c)
        <3>1. CASE Look(c)
            BY <1>2, <2>0, <2>2, <3>1 DEF CancelCall
        <3>2. CASE Finish(c)
            BY <2>1, <2>2, <3>2 DEF CancelCall, processes
        <3> QED BY <2>2, <3>1, <3>2 DEF CancelCall
    <2>3. CASE CancelMatch(c)
        BY <2>1, <2>3 DEF CancelMatch, processes, At
    <2>4. CASE CancelSignal(c)
        <3>1. CASE SupervisorAlive(call[c].rec)
            BY <1>5, <2>0, <2>4, <3>1, SignalShifts DEF CancelSignal
        <3>2. CASE ~SupervisorAlive(call[c].rec)
            BY <2>1, <2>4, <3>2 DEF CancelSignal, processes, At
        <3> QED BY <3>1, <3>2
    <2> QED BY <1>6, <2>2, <2>3, <2>4 DEF Cancel
<1>7. CASE Crash
    <2>1. \A c \in Calls : /\ call'[c].pc \in {"idle", "done"}
                           /\ c = Opener => call'[c].pc = "idle"
                           /\ c \in Submissions /\ call'[c].pc = "idle" => call[c].pc = "idle"
        BY <1>0, <1>7 DEF Crash, Idle, Done, At
    <2>2. sup' = sup
        BY <1>7 DEF Crash, processes
    <2>3. Served'
        BY <1>0, <2>1 DEF Served
    <2>4. Fresh'
        BY <1>0, <2>1, <2>2 DEF EInv, Fresh, Ever
    <2> QED BY <2>3, <2>4
<1>8. CASE Restart
    <2>1. sup' = sup /\ daemon = "down"
        BY <1>8 DEF Restart, processes
    <2>2. CASE daemon' = "opening" /\ Wait(Opener, "file", row)
        <3>1. \A d \in Calls : d # Opener => call'[d] = call[d]
            BY <1>0, <2>2, WaitPc DEF IInv
        <3> QED BY <1>0, <2>1, <2>2, <3>1 DEF EInv, Served, Fresh, Ever
    <2>3. CASE daemon' = "up" /\ UNCHANGED call
        BY <2>1, <2>3 DEF EInv, Served, Fresh, Ever
    <2> QED BY <1>8, <2>2, <2>3 DEF Restart
<1>9. CASE Age
    BY <1>9 DEF Age, processes, EInv, Served, Fresh, Ever
<1>10. ASSUME NEW s \in Submissions, Supervisor(s) \/ Timers(s) \/ SupKilled(s)
      PROVE  Served' /\ Fresh'
    <2>1. daemon' = daemon /\ call' = call
        BY <1>10 DEF Supervisor, SupStart, SupArm, SupLaunch, SupListen, SupVerdict, SupFails,
                     SupExit, Timers, Beat, BeatLands, WallTime, KillFires, SupKilled
    <2> QED BY <1>5, <1>10, <2>1, SupervisorShifts
<1>11. ASSUME NEW s \in Submissions, ChildExits(s)
      PROVE  Served' /\ Fresh'
    BY <1>11 DEF ChildExits, EInv, Served, Fresh, Ever
<1> QED BY <1>1, <1>3, <1>4, <1>6, <1>7, <1>8, <1>9, <1>10, <1>11 DEF Next

LEMMA InitEInv == Init => EInv
<1> SUFFICES ASSUME Init
             PROVE  EInv
    OBVIOUS
<1>1. /\ \A c \in Calls : call[c].rec = None /\ call[c].pc = "idle"
      /\ \A s \in Submissions : sup[s].pc = "none" /\ child[s] = "none"
      /\ Opener \in Calls
    BY DEF Init, Idle, NoSupervisor, Calls
<1> QED BY <1>1 DEF Init, EInv, Served, Fresh, Named, Names, Working, Reached, AtWork, Ended,
                    Closed, Reading, Ever

LEMMA NextEInv == IInv /\ IInv' /\ EInv /\ [Next]_vars => EInv'
<1> SUFFICES ASSUME IInv, IInv', EInv, [Next]_vars
             PROVE  EInv'
    OBVIOUS
<1>1. CASE UNCHANGED vars
    BY <1>1 DEF vars, EInv, Served, Fresh, Named, Names, Working, Reached, AtWork, Ended,
                Undisturbed, Calm, Unrecorded, Unstarted, Ever, Closed, Over, At
<1>2. CASE Next
    <2>0. Served' /\ Fresh'
        BY <1>2, ServedKeeps
    <2>1. ASSUME NEW c \in Calls, Reconcile(c)
          PROVE  EInv'
        BY <2>0, <2>1, ReconcileEnds DEF EInv
    <2>2. ASSUME NEW c \in Submissions, Submit(c)
          PROVE  EInv'
        BY <2>0, <2>2, SubmitEnds DEF EInv
    <2>3. ASSUME NEW c \in Pollers, Poll(c)
          PROVE  EInv'
        BY <2>0, <2>3, LookEnds DEF EInv, Poll, Calls
    <2>4. ASSUME NEW c \in Cancellations, Cancel(c)
          PROVE  EInv'
        BY <2>0, <2>4, CancelEnds DEF EInv
    <2>5. CASE Crash
        BY <2>0, <2>5, CrashEnds DEF EInv
    <2>6. CASE Restart
        BY <2>0, <2>6, RestartEnds DEF EInv
    <2>7. CASE Age
        BY <2>0, <2>7, AgeEnds DEF EInv
    <2>8. ASSUME NEW s \in Submissions, Supervisor(s) \/ Timers(s) \/ SupKilled(s)
          PROVE  EInv'
        <3>1. call' = call
            BY <2>8 DEF Supervisor, SupStart, SupArm, SupLaunch, SupListen, SupVerdict,
                        SupFails, SupExit, Timers, Beat, BeatLands, WallTime, KillFires,
                        SupKilled
        <3>2. Moves(s) /\ Shift(s)
            BY <2>8, SupervisorMoves, SupervisorShifts DEF IInv
        <3> QED BY <2>0, <3>1, <3>2, MovesWork, MovesReach, MovesEnd DEF EInv
    <2>9. ASSUME NEW s \in Submissions, ChildExits(s)
          PROVE  EInv'
        <3>1. Moves(s)
            BY <2>9, SupervisorMoves DEF IInv
        <3> QED BY <2>0, <2>9, <3>1, MovesWork, ExitEnds DEF EInv
    <2> QED BY <1>2, <2>1, <2>2, <2>3, <2>4, <2>5, <2>6, <2>7, <2>8, <2>9 DEF Next
<1> QED BY <1>1, <1>2

LEMMA JobEndsCorrect == Spec => []EInv
BY InitEInv, NextEInv, JobInvCorrect, PTL DEF Spec

\* A job that a caller can see ended runs no command and will run none,
\* whoever wrote the end and from however old a record, also where a timer or
\* a step is slow (runtime.ts reconcile, cancel; supervisor-cli.ts).
THEOREM EndsAreReal == Spec => []EndedMeansGone
<1>1. EInv => EndedMeansGone
    <2> SUFFICES ASSUME EInv, Undisturbed, row # None, row.state \in Terminal,
                        NEW s \in Submissions
                 PROVE  child[s] # "alive"
        BY DEF EndedMeansGone, Undisturbed
    <2>1. Over
        BY DEF EInv, Ended, Closed
    <2>2. Calm({"fault"})
        BY DEF Undisturbed, Calm
    <2> QED BY <2>1, <2>2 DEF EInv, Working, Over
<1> QED BY <1>1, JobEndsCorrect, PTL

\* While the command runs, state.json calls the job active and names the
\* supervisor to signal, whatever reconciliations, crashed daemons and late
\* heartbeats wrote before (supervisor-cli.ts, runtime.ts reconcile).
THEOREM RunningIsReachable == Spec => []LiveJobIsReachable
<1>1. EInv => LiveJobIsReachable
    <2> SUFFICES ASSUME EInv, Calm({"raced", "slow", "fault"}),
                        NEW s \in Submissions, child[s] = "alive"
                 PROVE  file.by = s /\ file.state \in Active
        BY DEF LiveJobIsReachable
    <2>1. Calm({"fault"})
        BY DEF Calm
    <2>2. AtWork(s)
        BY <2>1 DEF EInv, Working, AtWork
    <2> QED BY <2>2 DEF EInv, Reached
<1> QED BY <1>1, JobEndsCorrect, PTL
=============================================================================
