----------------------------- MODULE ComputeJob -----------------------------
(***************************************************************************)
(* One compute job id, between the daemon that answers requests about it   *)
(* and the detached supervisor process that runs its command.  The two     *)
(* share no lock: the daemon keeps a row in SQLite, the supervisor         *)
(* rewrites state.json, and a reconciliation in the daemon copies the file *)
(* into the row, or judges the supervisor missing and writes "orphaned"    *)
(* into both.                                                              *)
(*                                                                         *)
(* Every action ends at an await of the code, so calls interleave there.   *)
(* mishaps records the disturbances a behaviour has met; a property names  *)
(* those it does not survive, and survives all the others.                 *)
(***************************************************************************)
EXTENDS Naturals

CONSTANTS
    Submissions,    \* the submit calls made for this job id; each names the
                    \* supervisor it starts
    Pollers,        \* callers that ask for the job (or its logs) repeatedly
    Cancellations,  \* the cancel calls made for this job id
    Opener,         \* the reconciliation a daemon makes when it starts
    None,           \* no record; no supervisor
    MaxTroubles     \* bound on daemon crashes, killed supervisors, failed
                    \* writes of state.json and failed spawns, together

Calls == Submissions \cup Pollers \cup Cancellations \cup {Opener}

ASSUME JobAssumption ==
    /\ Submissions \cap (Pollers \cup Cancellations \cup {Opener}) = {}
    /\ Pollers \cap (Cancellations \cup {Opener}) = {}
    /\ Opener \notin Cancellations
    /\ None \notin Submissions
    /\ MaxTroubles \in Nat

Active == {"queued", "starting", "running"}
Terminal == {"succeeded", "failed", "cancelled", "orphaned"}

\* What row and state.json keep of a job: its state and its supervisor, the
\* pid together with the start ticks that tell it from a later process.
JobRecord == [state : Active \cup Terminal, by : Submissions \cup {None}]

ASSUME NoneIsNoRecord == None \notin JobRecord

VARIABLES
    daemon,     \* "up", "opening" or "down"
    row,        \* the job's row in compute.sqlite
    file,       \* the job's state.json
    call,       \* each call: where it waits, and the record it holds
    sup,        \* each supervisor process and its timers
    child,      \* the command each supervisor runs
    aged,       \* more than 5 s have passed since the file's submittedAt
    mishaps,    \* the disturbances met so far
    troubles    \* counted up to MaxTroubles

vars == <<daemon, row, file, call, sup, child, aged, mishaps, troubles>>

stored == <<row, file>>
processes == <<sup, child>>

Mishaps ==
    { "raced",    \* a second submission passed its check before the first
                  \* one had stored the row
      "early",    \* a call found the row before its submission had recorded
                  \* the supervisor in it
      "cut",      \* the daemon died between spawning a supervisor and
                  \* recording it
      "slow",     \* a step of the program took as long as a 5 s timer
      "fault" }   \* a write or a spawn failed

CallPc == {"idle", "write", "spawn", "record", "file", "probe", "orphan",
           "store", "match", "signal", "done"}
SupPc == {"none", "boot", "booted", "armed", "launching", "listening",
          "failing", "exiting", "lingering", "dead"}

Idle == [pc |-> "idle", rec |-> None]
Done == [pc |-> "done", rec |-> None]
NoSupervisor == [pc |-> "none", reason |-> "none", wall |-> FALSE,
                 kill |-> FALSE, beat |-> FALSE]

SupRecord == [pc : SupPc, reason : {"none", "cancelled", "wall_time"},
              wall : BOOLEAN, kill : BOOLEAN, beat : BOOLEAN]

TypeOK ==
    /\ daemon \in {"up", "opening", "down"}
    /\ row \in JobRecord \cup {None}
    /\ file \in JobRecord \cup {None}
    /\ call \in [Calls -> [pc : CallPc, rec : JobRecord \cup {None}]]
    /\ sup \in [Submissions -> SupRecord]
    /\ child \in [Submissions -> {"none", "alive", "zero", "nonzero"}]
    /\ aged \in BOOLEAN
    /\ mishaps \subseteq Mishaps
    /\ troubles \in 0..MaxTroubles

Init ==
    /\ daemon = "up"
    /\ row = None
    /\ file = None
    /\ call = [c \in Calls |-> Idle]
    /\ sup = [s \in Submissions |-> NoSupervisor]
    /\ child = [s \in Submissions |-> "none"]
    /\ aged = FALSE
    /\ mishaps = {}
    /\ troubles = 0

-----------------------------------------------------------------------------
(* Shared pieces.                                                          *)

Up(s) == sup[s].pc \notin {"none", "dead"}

\* processIdentityMatches on the supervisor of a record
SupervisorAlive(r) == r.by # None /\ Up(r.by)

At(c, pc) == call[c].pc = pc

Wait(c, pc, r) == call' = [call EXCEPT ![c] = [pc |-> pc, rec |-> r]]

Finish(c) ==
    call' = [call EXCEPT ![c] = IF c \in Pollers \cup {Opener} THEN Idle ELSE Done]

\* An error leaves the call; thrown while opening it keeps the daemon down.
Reject(c) ==
    /\ Finish(c)
    /\ daemon' = IF c = Opener THEN "down" ELSE daemon

Trouble ==
    /\ troubles < MaxTroubles
    /\ troubles' = troubles + 1

Fault == Trouble /\ mishaps' = mishaps \cup {"fault"}

Preparing(c) == call[c].pc \in {"write", "spawn"}
Unrecorded == \E c \in Submissions : At(c, "record")

-----------------------------------------------------------------------------
(* The daemon: submit.                                                     *)

\* A call that finds the row goes on to reconcile it.
Look(c) ==
    /\ row # None
    /\ Wait(c, "file", row)
    /\ mishaps' = mishaps \cup (IF Unrecorded THEN {"early"} ELSE {})

SubmitCall(c) ==
    /\ daemon = "up" /\ At(c, "idle")
    /\ \/ Look(c)
       \/ /\ row = None
          /\ Wait(c, "write", None)
          /\ mishaps' = mishaps \cup
               (IF \E d \in Submissions : Preparing(d) THEN {"raced"} ELSE {})
    /\ UNCHANGED <<daemon, stored, processes, aged, troubles>>

\* state.json is written first, with a new submittedAt.
SubmitWrite(c) ==
    /\ At(c, "write")
    /\ \/ /\ file' = [state |-> "queued", by |-> None]
          /\ aged' = FALSE
          /\ Wait(c, "spawn", None)
          /\ UNCHANGED <<mishaps, troubles>>
       \/ /\ Fault
          /\ Finish(c)
          /\ UNCHANGED <<file, aged>>
    /\ UNCHANGED <<daemon, row, processes>>

\* Mutant: the row is stored once the supervisor is known.
SubmitSpawnUnstored(c) ==
    /\ At(c, "spawn")
    /\ sup' = [sup EXCEPT ![c].pc = "boot"]
    /\ Wait(c, "record", [state |-> "queued", by |-> None])
    /\ UNCHANGED <<daemon, stored, child, aged, mishaps, troubles>>

\* upsert and spawn, with no await between them
SubmitSpawn(c) ==
    /\ At(c, "spawn")
    /\ row' = [state |-> "queued", by |-> None]
    /\ sup' = [sup EXCEPT ![c].pc = "boot"]
    /\ Wait(c, "record", row')
    /\ UNCHANGED <<daemon, file, child, aged, mishaps, troubles>>

\* The second upsert follows an await, and takes no look at the row.
SubmitRecord(c) ==
    /\ At(c, "record")
    /\ row' = [state |-> "starting", by |-> c]
    /\ Finish(c)
    /\ UNCHANGED <<daemon, file, processes, aged, mishaps, troubles>>

-----------------------------------------------------------------------------
(* The daemon: get, logs, and the reconciliation every call passes.        *)

Poll(c) ==
    /\ daemon = "up" /\ At(c, "idle")
    /\ Look(c)
    /\ UNCHANGED <<daemon, stored, processes, aged, troubles>>

\* The record the reconciliation works on: the file's, with the stored
\* supervisor where the file has none.
Merged(r) ==
    IF file = None THEN r
    ELSE [state |-> IF file.state = "queued" /\ r.state = "starting"
                      THEN "starting" ELSE file.state,
          by    |-> IF file.by # None THEN file.by ELSE r.by]

\* The reconciliation ends with an upsert; a cancel of an active job goes on.
Reconciled(c, r) ==
    /\ row' = r
    /\ daemon' = IF c = Opener THEN "up" ELSE daemon
    /\ IF c \in Cancellations /\ r.state \in Active
         THEN Wait(c, "match", r)
         ELSE Finish(c)

\* A file that cannot be read ends the call.
ReadFile(c) ==
    /\ At(c, "file")
    /\ \/ /\ LET current == Merged(call[c].rec) IN
                IF current.state \in Active
                  THEN Wait(c, "probe", current) /\ UNCHANGED <<row, daemon>>
                  ELSE Reconciled(c, current)
          /\ UNCHANGED <<mishaps, troubles>>
       \/ Fault /\ Reject(c) /\ UNCHANGED row
    /\ UNCHANGED <<file, processes, aged>>

\* Mutant: a job is missing from its first moment.
MissingAtOnce(r) == ~SupervisorAlive(r)

\* Mutant: only a supervisor that was recorded can be missing.
MissingIfNamed(r) == r.by # None /\ ~SupervisorAlive(r) /\ aged

Missing(r) == ~SupervisorAlive(r) /\ aged

Probe(c) ==
    /\ At(c, "probe")
    /\ LET current == call[c].rec IN
         IF Missing(current)
           THEN /\ Wait(c, "orphan", [current EXCEPT !.state = "orphaned"])
                /\ UNCHANGED <<row, daemon>>
           ELSE Reconciled(c, current)
    /\ UNCHANGED <<file, processes, aged, mishaps, troubles>>

WriteOrphan(c) ==
    /\ At(c, "orphan")
    /\ \/ /\ file' = call[c].rec
          /\ Wait(c, "store", call[c].rec)
          /\ UNCHANGED <<daemon, mishaps, troubles>>
       \/ /\ Fault
          /\ Reject(c)
          /\ UNCHANGED file
    /\ UNCHANGED <<row, processes, aged>>

StoreOrphan(c) ==
    /\ At(c, "store")
    /\ Reconciled(c, call[c].rec)
    /\ UNCHANGED <<file, processes, aged, mishaps, troubles>>

-----------------------------------------------------------------------------
(* The supervisor's end, by itself or by a signal.                         *)

\* Mutant: the command outlives its supervisor.
DieAlone(s) ==
    /\ sup' = [sup EXCEPT ![s] = [NoSupervisor EXCEPT !.pc = "dead"]]
    /\ UNCHANGED child

\* The command dies with its supervisor (bwrap --die-with-parent).
Die(s) ==
    /\ sup' = [sup EXCEPT ![s] = [NoSupervisor EXCEPT !.pc = "dead"]]
    /\ child' = [child EXCEPT ![s] = IF @ = "alive" THEN "nonzero" ELSE @]

\* Mutant: no SIGKILL follows the SIGTERM.
StopChildGently(s, reason) ==
    /\ sup' = [sup EXCEPT ![s].reason = reason,
                          ![s].wall = IF reason = "wall_time" THEN FALSE ELSE @]
    /\ UNCHANGED child

\* stopChild: SIGTERM now, SIGKILL by a timer; the reason is overwritten.
StopChild(s, reason) ==
    /\ sup' = [sup EXCEPT ![s].reason = reason, ![s].kill = TRUE,
                          ![s].wall = IF reason = "wall_time" THEN FALSE ELSE @]
    /\ UNCHANGED child

\* SIGTERM ends a supervisor that has not yet installed its handlers.
Terminate(s) ==
    IF sup[s].pc \in {"boot", "booted"} THEN Die(s) ELSE StopChild(s, "cancelled")

-----------------------------------------------------------------------------
(* The daemon: cancel.                                                     *)

CancelCall(c) ==
    /\ daemon = "up" /\ At(c, "idle")
    /\ \/ Look(c)
       \/ row = None /\ Finish(c) /\ UNCHANGED mishaps
    /\ UNCHANGED <<daemon, stored, processes, aged, troubles>>

\* Without a live supervisor the row alone is marked cancelled.
CancelMatch(c) ==
    /\ At(c, "match")
    /\ IF SupervisorAlive(call[c].rec)
         THEN Wait(c, "signal", call[c].rec) /\ UNCHANGED row
         ELSE /\ row' = [call[c].rec EXCEPT !.state = "cancelled"]
              /\ Finish(c)
    /\ UNCHANGED <<daemon, file, processes, aged, mishaps, troubles>>

\* Mutant: a signalled job counts as cancelled at once.
CancelSignalAtOnce(c) ==
    /\ At(c, "signal")
    /\ IF SupervisorAlive(call[c].rec)
         THEN /\ Terminate(call[c].rec.by)
              /\ row' = [call[c].rec EXCEPT !.state = "cancelled"]
         ELSE UNCHANGED <<processes, row>>
    /\ Finish(c)
    /\ UNCHANGED <<daemon, file, aged, mishaps, troubles>>

\* A supervisor that is gone by now makes the call fail.
CancelSignal(c) ==
    /\ At(c, "signal")
    /\ IF SupervisorAlive(call[c].rec)
         THEN Terminate(call[c].rec.by)
         ELSE UNCHANGED processes
    /\ Finish(c)
    /\ UNCHANGED <<daemon, stored, aged, mishaps, troubles>>

-----------------------------------------------------------------------------
(* The daemon dies and starts again; supervisors are detached and live on. *)

Crash ==
    /\ daemon # "down"
    /\ Trouble
    /\ daemon' = "down"
    /\ call' = [c \in Calls |->
                  IF At(c, "idle") \/ c \in Pollers \cup {Opener} THEN Idle ELSE Done]
    /\ mishaps' = mishaps \cup (IF Unrecorded THEN {"cut"} ELSE {})
    \* it may die between the upsert of a submission and the spawn
    /\ \/ UNCHANGED row
       \/ /\ \E c \in Submissions : At(c, "spawn")
          /\ row' = [state |-> "queued", by |-> None]
    /\ UNCHANGED <<file, processes, aged>>

\* open: reconcileAll before anything is served
Restart ==
    /\ daemon = "down"
    /\ IF row # None /\ row.state \in Active
         THEN daemon' = "opening" /\ Wait(Opener, "file", row)
         ELSE daemon' = "up" /\ UNCHANGED call
    /\ UNCHANGED <<stored, processes, aged, mishaps, troubles>>

-----------------------------------------------------------------------------
(* The supervisor.                                                         *)

SupAt(s, pc) == sup[s].pc = pc
SupGoes(s, pc) == sup' = [sup EXCEPT ![s].pc = pc]
Writes(s, state) == file' = [state |-> state, by |-> s]

SupStart(s) ==
    /\ SupAt(s, "boot")
    /\ \/ /\ Writes(s, "starting")
          /\ SupGoes(s, "booted")
          /\ UNCHANGED <<child, mishaps, troubles>>
       \/ Fault /\ Die(s) /\ UNCHANGED file
    /\ UNCHANGED <<daemon, row, call, aged>>

SupArm(s) ==
    /\ SupAt(s, "booted")
    /\ SupGoes(s, "armed")
    /\ UNCHANGED <<daemon, stored, call, child, aged, mishaps, troubles>>

\* The command is started; a log file that cannot be opened or a missing
\* bwrap ends the supervisor, a spawn that throws is caught.
SupLaunch(s) ==
    /\ SupAt(s, "armed")
    /\ \/ /\ SupGoes(s, "launching")
          /\ child' = [child EXCEPT ![s] = "alive"]
          /\ UNCHANGED <<mishaps, troubles>>
       \/ Fault /\ Die(s)
       \/ Fault /\ SupGoes(s, "failing") /\ UNCHANGED child
    /\ UNCHANGED <<daemon, stored, call, aged>>

\* The exit listener and the wall timer follow the awaited write of
\* "running".  An exit before that may go unheard: then nothing keeps the
\* process alive and it ends without a verdict.
SupListen(s) ==
    /\ SupAt(s, "launching")
    /\ \/ /\ Writes(s, "running")
          /\ sup' = [sup EXCEPT ![s].pc = "listening", ![s].wall = TRUE]
          /\ UNCHANGED <<child, mishaps, troubles>>
       \/ /\ child[s] # "alive"
          /\ Writes(s, "running")
          /\ Die(s)
          /\ UNCHANGED <<mishaps, troubles>>
       \/ Fault /\ SupGoes(s, "failing") /\ UNCHANGED <<file, child>>
    /\ UNCHANGED <<daemon, row, call, aged>>

\* A heartbeat takes its record now and writes it later, not awaited.
Beat(s) ==
    /\ SupAt(s, "listening") /\ ~sup[s].beat
    /\ sup' = [sup EXCEPT ![s].beat = TRUE]
    /\ UNCHANGED <<daemon, stored, call, child, aged, mishaps, troubles>>

\* One that fails is an unhandled rejection.
BeatLands(s) ==
    /\ Up(s) /\ sup[s].beat
    /\ \/ /\ Writes(s, "running")
          /\ sup' = [sup EXCEPT ![s].beat = FALSE]
          /\ UNCHANGED <<child, mishaps, troubles>>
       \/ Fault /\ Die(s) /\ UNCHANGED file
    /\ UNCHANGED <<daemon, row, call, aged>>

WallTime(s) ==
    /\ sup[s].wall
    /\ StopChild(s, "wall_time")
    /\ UNCHANGED <<daemon, stored, call, aged, mishaps, troubles>>

\* The SIGKILL timer of stopChild; it finds no child if the spawn is later.
KillFires(s) ==
    /\ Up(s) /\ sup[s].kill
    /\ sup' = [sup EXCEPT ![s].kill = FALSE]
    /\ child' = [child EXCEPT ![s] = IF @ = "alive" THEN "nonzero" ELSE @]
    /\ mishaps' = mishaps \cup (IF SupAt(s, "armed") THEN {"slow"} ELSE {})
    /\ UNCHANGED <<daemon, stored, call, aged, troubles>>

ChildExits(s) ==
    /\ child[s] = "alive"
    /\ \E code \in {"zero", "nonzero"} : child' = [child EXCEPT ![s] = code]
    /\ UNCHANGED <<daemon, stored, call, sup, aged, mishaps, troubles>>

\* Mutant: a command ended by a timer is shown as interrupted.
VerdictInterrupted(s) ==
    IF sup[s].reason # "none" THEN "interrupted"
    ELSE IF child[s] = "zero" THEN "succeeded" ELSE "failed"

Verdict(s) ==
    IF sup[s].reason = "cancelled" THEN "cancelled"
    ELSE IF child[s] = "zero" THEN "succeeded" ELSE "failed"

SupVerdict(s) ==
    /\ SupAt(s, "listening") /\ child[s] # "alive"
    /\ \/ /\ Writes(s, Verdict(s))
          /\ sup' = [sup EXCEPT ![s].pc = "exiting", ![s].wall = FALSE]
          /\ UNCHANGED <<mishaps, troubles>>
       \/ /\ Fault
          /\ sup' = [sup EXCEPT ![s].pc = "failing", ![s].wall = FALSE]
          /\ UNCHANGED file
    /\ UNCHANGED <<daemon, row, call, child, aged>>

\* The catch block writes a verdict of its own and stops no child.
SupFails(s) ==
    /\ SupAt(s, "failing")
    /\ SupGoes(s, "lingering")
    /\ \/ /\ Writes(s, IF sup[s].reason = "cancelled" THEN "cancelled" ELSE "failed")
          /\ UNCHANGED <<mishaps, troubles>>
       \/ Fault /\ UNCHANGED file
    /\ UNCHANGED <<daemon, row, call, child, aged>>

\* The process ends when nothing is left for its event loop.
SupExit(s) ==
    /\ sup[s].pc \in {"exiting", "lingering"}
    /\ child[s] # "alive" /\ ~sup[s].beat
    /\ Die(s)
    /\ UNCHANGED <<daemon, stored, call, aged, mishaps, troubles>>

\* Somebody else kills the supervisor (the system, at a reboot or for memory).
SupKilled(s) ==
    /\ Up(s)
    /\ Trouble
    /\ Die(s)
    /\ UNCHANGED <<daemon, stored, call, aged, mishaps>>

\* Five seconds after submission.  What the program does in well under that
\* time should be over by now.
Unfinished ==
    \/ \E c \in Calls : call[c].pc \in {"spawn", "record"}
    \/ \E c \in Calls : At(c, "probe") /\ call[c].rec.by = None
    \/ \E s \in Submissions : SupAt(s, "boot")

Age ==
    /\ file # None /\ ~aged
    /\ aged' = TRUE
    /\ mishaps' = mishaps \cup (IF Unfinished THEN {"slow"} ELSE {})
    /\ UNCHANGED <<daemon, stored, call, processes, troubles>>

-----------------------------------------------------------------------------

Reconcile(c) == ReadFile(c) \/ Probe(c) \/ WriteOrphan(c) \/ StoreOrphan(c)

Submit(c) == SubmitCall(c) \/ SubmitWrite(c) \/ SubmitSpawn(c) \/ SubmitRecord(c)

Cancel(c) == CancelCall(c) \/ CancelMatch(c) \/ CancelSignal(c)

Supervisor(s) ==
    \/ SupStart(s) \/ SupArm(s) \/ SupLaunch(s) \/ SupListen(s)
    \/ SupVerdict(s) \/ SupFails(s) \/ SupExit(s)

Timers(s) == Beat(s) \/ BeatLands(s) \/ WallTime(s) \/ KillFires(s)

Next ==
    \/ \E c \in Calls : Reconcile(c)
    \/ \E c \in Submissions : Submit(c)
    \/ \E c \in Pollers : Poll(c)
    \/ \E c \in Cancellations : Cancel(c)
    \/ Crash \/ Restart \/ Age
    \/ \E s \in Submissions :
         Supervisor(s) \/ Timers(s) \/ ChildExits(s) \/ SupKilled(s)

Spec == Init /\ [][Next]_vars

\* What a call does next, once it is made
Advance(c) ==
    \/ Reconcile(c)
    \/ c \in Submissions /\ (SubmitWrite(c) \/ SubmitSpawn(c) \/ SubmitRecord(c))
    \/ c \in Cancellations /\ (CancelMatch(c) \/ CancelSignal(c))
    \/ c \in Pollers /\ Poll(c)

\* Programs and timers go on, a daemon that died is started again, and
\* somebody asks for the job now and then.  Nothing obliges the command to
\* end, a caller to cancel, or a heartbeat to be sent.
Fairness ==
    /\ WF_vars(Restart) /\ WF_vars(Age)
    /\ \A c \in Calls : WF_vars(Advance(c))
    /\ \A s \in Submissions :
         /\ WF_vars(Supervisor(s))
         /\ WF_vars(BeatLands(s))
         /\ WF_vars(WallTime(s))
         /\ WF_vars(KillFires(s))

FairSpec == Spec /\ Fairness

-----------------------------------------------------------------------------
(* Properties.                                                             *)

Calm(disturbances) == mishaps \cap disturbances = {}

\* The command of a job is started at most once, also when the daemon dies in
\* the middle of a submission and the client submits the job id again: the row
\* is stored before the supervisor is spawned and ends every later submission
\* (runtime.ts submit).  Only two submissions that overlap break this.
RunsOnce ==
    Calm({"raced"}) =>
      \A s, t \in Submissions :
        sup[s].pc # "none" /\ sup[t].pc # "none" => s = t

\* A job is shown as orphaned only when nothing of it runs any more, although
\* the daemon judges from a record it read earlier, perhaps another daemon's
\* (runtime.ts reconcile).
OrphanedMeansGone ==
    Calm({"raced", "slow"}) =>
      (row # None /\ row.state = "orphaned" => \A s \in Submissions : ~Up(s))

\* A job that a caller can see ended runs no command, whoever wrote the end:
\* the supervisor, a reconciliation, or a cancel that touched the row alone.
EndedMeansGone ==
    Calm({"raced", "early", "cut", "fault"}) =>
      (row # None /\ row.state \in Terminal
         => \A s \in Submissions : child[s] # "alive")

\* As long as the command runs, state.json names its supervisor and calls the
\* job active, so that this daemon or a later one can still cancel it.
LiveJobIsReachable ==
    Calm({"raced", "slow", "fault"}) =>
      \A s \in Submissions :
        child[s] = "alive" => file.by = s /\ file.state \in Active

\* A signal that reached the supervisor ends the job and the supervisor, also
\* if the command ignores it and whatever fails then (supervisor-cli.ts
\* stopChild), unless the timer ran out before the command was started.
CancelEndsJob ==
    \A s \in Submissions :
      sup[s].reason = "cancelled" ~> (~Up(s) \/ "slow" \in mishaps)

\* A stored job is eventually shown as ended for good, also when its verdict
\* was lost: the wall time ends the command and the reconciliation finds what
\* is left, across crashes and killed supervisors.
EveryJobEnds ==
    <>("fault" \in mishaps) \/ <>[](row = None \/ row.state \in Terminal)
=============================================================================
