---------------------------- MODULE SiteSessions ----------------------------
(***************************************************************************)
(* The sessions of one daemon together: what SessionLifecycle leaves out   *)
(* because it follows one name.  The manager admits a bounded number of    *)
(* connected runtimes and suspends an idle one to make room, a fork holds  *)
(* two names' locks, and the daemon's account routes quiesce or purge      *)
(* every session of an owner while its clients keep calling.               *)
(*                                                                         *)
(* A call is one request to the manager or to an account route.  Taking a  *)
(* name's lifecycle lock and what follows up to the next await is a step.  *)
(* Sessions here are persistent runtimes: a one-shot session is charged to *)
(* no capacity.  Turn keys, crashes and failed writes are                  *)
(* SessionLifecycle's, so a turn here carries no key and a write succeeds. *)
(***************************************************************************)
EXTENDS Integers, FiniteSets

CONSTANTS
    Names,          \* session names; forks lock them in the order of <
    Owners,         \* ownerKeys
    None,
    Max,            \* maxSessions
    Calls,          \* the requests
    Scenarios,      \* what the requests ask for: a set of functions on Calls
    Sites           \* the sessions the daemon may start with

\* A request: its verb, its session (a fork's target, an account route's None),
\* the fork's source, the ownerKey, the route's operationKey and sessionNames,
\* and whether a turn brings the name's current lifecycle epoch.
TurnVerbs == {"start", "send"}
RouteVerbs == {"quiesceOwner", "purgeOwner"}
Verbs == TurnVerbs \cup RouteVerbs \cup {"resume", "suspend", "stop", "focus", "purge", "fork"}
Keys == {"k1", "k2"}
Requests ==
    {r \in [verb : Verbs, name : Names \cup {None}, source : Names \cup {None},
            owner : Owners \cup {None}, key : Keys, adopts : SUBSET Names, knows : BOOLEAN] :
        /\ IF r.verb \in RouteVerbs THEN r.owner \in Owners ELSE r.name \in Names
        /\ r.verb = "fork" => r.source \in Names \ {r.name} }

SessionStates == {"absent", "connected", "suspended", "ended"}
Fences == {"none", "purge", "external"}

\* focus: a focus lease is running.  epoch: the name was quiesced, so a turn must
\* bring its epoch.
Sessions == [state : SessionStates, owner : Owners \cup {None}, focus : BOOLEAN,
             fence : Fences, epoch : BOOLEAN]

ASSUME SiteAssumption ==
    /\ Names \subseteq Nat /\ None \notin Names \cup Owners \cup Calls
    /\ Max \in Nat \ {0}
    /\ Scenarios \subseteq [Calls -> Requests]
    /\ Sites \subseteq [Names -> Sessions]

VARIABLES
    asks,       \* the scenario
    sess,       \* state.json: sessions, sessionOwners and quiescence of each name
    cleanup,    \* state.json: ownerCleanup.scopes
    lock,       \* lifecycleTails: who holds each name's lock
    admission,  \* admissionTail: who holds the admission lock
    routes,     \* ownerCleanupTails: who holds each owner's lock
    active,     \* activeTurns
    stopping,   \* stopRequests
    reserved,   \* capacityReservations
    claims,     \* forkTargetClaims
    call        \* where each request is

vars == <<asks, sess, cleanup, lock, admission, routes, active, stopping, reserved, claims, call>>

manager == <<lock, admission, active, stopping, reserved, claims>>

Steps == {"new", "body", "admission", "evict", "closing", "publish", "run", "failing",
          "release", "relock", "connect", "drain", "first", "second", "visit", "done"}
Answers == {"none", "ok", "failed", "refused"}

Scopes == {"none", "quiesced", "purging", "purged"}
NoCleanup == [state |-> "none", key |-> "k1"]

\* at is the session a call works on (a victim, a route's current session), held
\* a resume's capacityReserved, todo the sessions a route has still to visit.
NoCall == [pc |-> "new", at |-> None, held |-> FALSE, owner |-> None, todo |-> {},
           answer |-> "none"]

Init ==
    /\ asks \in Scenarios
    /\ sess \in Sites
    /\ cleanup = [o \in Owners |-> NoCleanup]
    /\ lock = [n \in Names |-> None]
    /\ admission = None
    /\ routes = [o \in Owners |-> None]
    /\ active = [n \in Names |-> None]
    /\ stopping = [n \in Names |-> FALSE]
    /\ reserved = [n \in Names |-> 0]
    /\ claims = {}
    /\ call = [c \in Calls |-> NoCall]

-----------------------------------------------------------------------------
Verb(c) == asks[c].verb
Name(c) == asks[c].name
At(c, pc) == call[c].pc = pc
Goto(c, pc) == call' = [call EXCEPT ![c].pc = pc]
Answer(c, answer) ==
    call' = [call EXCEPT ![c] = [NoCall EXCEPT !.pc = "done", !.answer = answer]]

\* The answer of a route gives its owner's lock back.
Leave(c, answer) ==
    /\ Answer(c, answer)
    /\ routes' = [o \in Owners |-> IF routes[o] = c THEN None ELSE routes[o]]

Present(n) == sess[n].state # "absent"
Connected(n) == sess[n].state = "connected"
Fenced(n) == sess[n].fence # "none"
Owned(o) == {n \in Names : Present(n) /\ sess[n].owner = o}
SetState(n, state) == sess' = [sess EXCEPT ![n].state = state]
Disconnect(n, state) == sess' = [sess EXCEPT ![n].state = state, ![n].focus = FALSE]

Free(n) == lock[n] = None
Hold(c, n) == lock' = [lock EXCEPT ![n] = c]
Unlock(n) == lock' = [lock EXCEPT ![n] = None]

Reserve(n) == [reserved EXCEPT ![n] = @ + 1]
Unreserve(n) == [reserved EXCEPT ![n] = IF @ <= 1 THEN 0 ELSE @ - 1]

\* A turn that fails, or is refused, once it is active still has to be released.
Abandon(c) == Goto(c, "release")

-----------------------------------------------------------------------------
(* Turns. *)

\* The epoch rule of the store: a purge's fence refuses every turn, and a name
\* that was quiesced wants its epoch, which lifts the fence.
MayEnter(n, knows) == sess[n].fence # "purge" /\ (sess[n].epoch => knows)

AdmitTurn(c) ==
    LET n == Name(c) IN
    /\ Verb(c) \in TurnVerbs /\ At(c, "new") /\ Free(n)
    /\ \/ /\ active[n] = None /\ MayEnter(n, asks[c].knows)
          /\ sess' = [sess EXCEPT ![n].fence = "none"]
          /\ active' = [active EXCEPT ![n] = c]
          /\ stopping' = [stopping EXCEPT ![n] = FALSE]
          /\ call' = [call EXCEPT ![c].pc = "body", ![c].owner = asks[c].owner]
       \/ /\ active[n] # None \/ ~MayEnter(n, asks[c].knows)
          /\ Answer(c, "refused")
          /\ UNCHANGED <<sess, active, stopping>>
    /\ UNCHANGED <<asks, cleanup, lock, admission, routes, reserved, claims>>

\* The body's first look at the session: a fork runs startTurn as well.
Begin(c) ==
    LET n == Name(c) IN
    /\ At(c, "body")
    /\ CASE Verb(c) = "send" /\ ~Present(n) -> Abandon(c)
         [] Verb(c) # "send" /\ Present(n) /\ call[c].owner \notin {None, sess[n].owner} ->
                Abandon(c)
         [] OTHER -> Goto(c, IF Connected(n) THEN "publish" ELSE "admission")
    /\ UNCHANGED <<asks, sess, cleanup, routes, manager>>

\* Mutant: the write asks for the owner and not for the fence of its scope.
MayWriteUnscoped(n, owner) ==
    ~Fenced(n) /\ sess[n].owner \in {None, owner}

\* upsertSession: the write that makes the session a connected one.
MayWrite(n, owner) ==
    /\ ~Fenced(n)
    /\ IF Present(n) THEN owner \in {None, sess[n].owner}
       ELSE /\ sess[n].owner \in {None, owner}
            /\ owner # None => cleanup[owner].state = "none"

Publish(c) ==
    LET n == Name(c)
        owner == call[c].owner
    IN
    /\ At(c, "publish")
    /\ \/ /\ ~stopping[n] /\ MayWrite(n, owner)
          /\ sess' = [sess EXCEPT ![n].state = "connected",
                                  ![n].owner = IF owner # None THEN owner ELSE @]
          /\ Goto(c, "run")
       \/ Abandon(c) /\ UNCHANGED sess    \* refused, stopped, or the skills did not install
       \/ /\ Verb(c) = "send" /\ Present(n) /\ ~Fenced(n)   \* the runtime did not come up
          /\ SetState(n, "ended") /\ Abandon(c)
    /\ UNCHANGED <<asks, cleanup, routes, manager>>

\* The turn ends: the session awaits input, or has completed, failed or was stopped.
FinishTurn(c) ==
    LET n == Name(c) IN
    /\ At(c, "run")
    /\ \E state \in {"connected", "ended"} :
          /\ stopping[n] => state = "ended"
          /\ IF Present(n) THEN SetState(n, state) ELSE UNCHANGED sess
          /\ \/ Goto(c, "release")
             \/ Verb(c) # "send" /\ state = "ended" /\ Goto(c, "failing")
    /\ UNCHANGED <<asks, cleanup, routes, manager>>

\* A start that throws, its failure recorded or not, writes current ??
\* provisionalSession: the one write of a turn that would bring a removed session back.
FailStart(c) ==
    LET n == Name(c) IN
    /\ At(c, "failing") \/ (Verb(c) # "send" /\ At(c, "run"))
    /\ IF Fenced(n) THEN UNCHANGED sess ELSE SetState(n, "ended")
    /\ Goto(c, "release")
    /\ UNCHANGED <<asks, cleanup, routes, manager>>

\* releaseSessionTurn gives back a reservation by name, whoever made it.
ReleaseTurn(c) ==
    LET n == Name(c) IN
    /\ At(c, "release")
    /\ active' = [active EXCEPT ![n] = None]
    /\ reserved' = Unreserve(n)
    /\ claims' = IF Verb(c) = "fork" THEN claims \ {n} ELSE claims
    /\ Answer(c, "ok")
    /\ UNCHANGED <<asks, sess, cleanup, lock, admission, routes, stopping>>

-----------------------------------------------------------------------------
(* Capacity: ensureConnectedCapacity, called with no lifecycle lock held.   *)

Charged == {n \in Names : Connected(n) \/ reserved[n] > 0}
Evictable(n) == Connected(n) /\ active[n] = None /\ ~sess[n].focus
AfterAdmission(c) == IF Verb(c) = "resume" THEN "relock" ELSE "publish"

\* The candidate is the least recently used one; here it is any.
Admit(c) ==
    LET n == Name(c)
        victims == {v \in Names \ {n} : Evictable(v)}
        Done(held) == call' = [call EXCEPT ![c].pc = AfterAdmission(c), ![c].held = held]
    IN
    /\ At(c, "admission") /\ admission \in {None, c}
    /\ \/ /\ Connected(n)
          /\ Done(FALSE) /\ admission' = None /\ UNCHANGED <<reserved>>
       \/ /\ ~Connected(n) /\ (reserved[n] > 0 \/ Cardinality(Charged) < Max)
          /\ Done(TRUE) /\ admission' = None /\ reserved' = Reserve(n)
       \/ /\ ~Connected(n) /\ reserved[n] = 0 /\ Cardinality(Charged) >= Max
          /\ victims = {}
          /\ IF Verb(c) = "resume" THEN Answer(c, "failed") ELSE Abandon(c)
          /\ admission' = None /\ UNCHANGED reserved
       \/ /\ ~Connected(n) /\ reserved[n] = 0 /\ Cardinality(Charged) >= Max
          /\ \E v \in victims : call' = [call EXCEPT ![c].pc = "evict", ![c].at = v]
          /\ admission' = c /\ UNCHANGED reserved
    /\ UNCHANGED <<asks, sess, cleanup, lock, routes, active, stopping, claims>>

\* Holding the admission lock it waits for the victim's, and looks again.
Evict(c) ==
    LET v == call[c].at IN
    /\ At(c, "evict") /\ Free(v)
    /\ IF Evictable(v) THEN Hold(c, v) /\ Goto(c, "closing")
       ELSE Goto(c, "admission") /\ UNCHANGED lock
    /\ UNCHANGED <<asks, sess, cleanup, admission, routes, active, stopping, reserved, claims>>

\* suspendTrackedSession after its close command; a fence left by a cleanup that
\* failed refuses the write, and the admission with it.
Evicted(c) ==
    LET v == call[c].at IN
    /\ Verb(c) # "suspend" /\ At(c, "closing")
    /\ IF Fenced(v)
       THEN /\ IF Verb(c) = "resume" THEN Answer(c, "failed") ELSE Abandon(c)
            /\ UNCHANGED <<sess, reserved>>
       ELSE /\ Disconnect(v, "suspended")
            /\ reserved' = Reserve(Name(c))
            /\ call' = [call EXCEPT ![c].pc = AfterAdmission(c), ![c].held = TRUE,
                                    ![c].at = None]
    /\ Unlock(v) /\ admission' = None
    /\ UNCHANGED <<asks, cleanup, routes, active, stopping, claims>>

-----------------------------------------------------------------------------
(* Verbs of one session. *)

\* The look before the lock, which may reserve capacity; then the look under it.
Resume(c) ==
    LET n == Name(c) IN
    /\ Verb(c) = "resume" /\ At(c, "new")
    /\ IF ~Present(n) THEN Answer(c, "refused")
       ELSE Goto(c, IF Connected(n) \/ call[c].held THEN "relock" ELSE "admission")
    /\ UNCHANGED <<asks, sess, cleanup, routes, manager>>

GiveBack(c) == IF call[c].held THEN Unreserve(Name(c)) ELSE reserved

Relock(c) ==
    LET n == Name(c)
        refused == Fenced(n) \/ ~Present(n) \/ active[n] # None
    IN
    /\ At(c, "relock") /\ Free(n)
    /\ \/ /\ refused
          /\ Answer(c, "refused") /\ reserved' = GiveBack(c) /\ UNCHANGED lock
       \/ /\ ~refused /\ ~call[c].held /\ ~Connected(n)
          /\ Goto(c, "new") /\ UNCHANGED <<lock, reserved>>
       \/ /\ ~refused /\ (call[c].held \/ Connected(n))
          /\ Hold(c, n) /\ Goto(c, "connect") /\ UNCHANGED reserved
    /\ UNCHANGED <<asks, sess, cleanup, admission, routes, active, stopping, claims>>

Resumed(c) ==
    LET n == Name(c) IN
    /\ At(c, "connect")
    /\ \/ SetState(n, "connected") /\ Answer(c, "ok")
       \/ Answer(c, "failed") /\ UNCHANGED sess     \* the runtime did not come up
    /\ Unlock(n) /\ reserved' = GiveBack(c)
    /\ UNCHANGED <<asks, cleanup, admission, routes, active, stopping, claims>>

Suspend(c) ==
    LET n == Name(c) IN
    /\ Verb(c) = "suspend" /\ At(c, "new") /\ Free(n)
    /\ CASE Fenced(n) \/ ~Present(n) \/ active[n] # None -> Answer(c, "refused") /\ UNCHANGED lock
         [] OTHER -> IF Connected(n) THEN Hold(c, n) /\ Goto(c, "closing")
                     ELSE Answer(c, "ok") /\ UNCHANGED lock
    /\ UNCHANGED <<asks, sess, cleanup, admission, routes, active, stopping, reserved, claims>>

Suspended(c) ==
    /\ Verb(c) = "suspend" /\ At(c, "closing")
    /\ Disconnect(Name(c), "suspended") /\ Unlock(Name(c)) /\ Answer(c, "ok")
    /\ UNCHANGED <<asks, cleanup, admission, routes, active, stopping, reserved, claims>>

\* A focus lease, which spares a session from eviction until it expires.
Focus(c) ==
    LET n == Name(c) IN
    /\ Verb(c) = "focus" /\ At(c, "new") /\ Free(n)
    /\ IF Fenced(n) \/ ~Present(n) THEN Answer(c, "refused") /\ UNCHANGED sess
       ELSE Answer(c, "ok") /\ sess' = [sess EXCEPT ![n].focus = TRUE]
    /\ UNCHANGED <<asks, cleanup, routes, manager>>

LeaseExpires(n) ==
    /\ sess[n].focus /\ sess' = [sess EXCEPT ![n].focus = FALSE]
    /\ UNCHANGED <<asks, cleanup, routes, manager, call>>

Stop(c) ==
    LET n == Name(c) IN
    /\ Verb(c) = "stop" /\ At(c, "new") /\ Free(n)
    /\ IF Fenced(n) \/ (~Present(n) /\ active[n] = None)
       THEN Answer(c, "refused") /\ UNCHANGED <<lock, stopping>>
       ELSE /\ Hold(c, n) /\ Goto(c, "drain")
            /\ stopping' = [stopping EXCEPT ![n] = TRUE]
    /\ UNCHANGED <<asks, sess, cleanup, admission, routes, active, reserved, claims>>

Stopped(c) ==
    LET n == Name(c) IN
    /\ Verb(c) = "stop" /\ At(c, "drain") /\ active[n] = None
    /\ IF Present(n) THEN Disconnect(n, "ended") ELSE UNCHANGED sess
    /\ Unlock(n) /\ Answer(c, "ok")
    /\ UNCHANGED <<asks, cleanup, admission, routes, active, stopping, reserved, claims>>

\* Mutant: the wait has no deadline.
DrainForever(c) == FALSE /\ Leave(c, "failed")

\* waitForActiveTurnDrain has a deadline, whatever keeps the turn from ending.
DrainExpires(c) ==
    LET n == IF Verb(c) = "stop" THEN Name(c) ELSE call[c].at IN
    /\ At(c, "drain") /\ active[n] # None
    /\ Unlock(n) /\ Leave(c, "failed")
    /\ UNCHANGED <<asks, sess, cleanup, admission, active, stopping, reserved, claims>>

-----------------------------------------------------------------------------
(* Forks. *)

Source(c) == asks[c].source
Target(c) == asks[c].name
Earlier(c) == IF Source(c) < Target(c) THEN Source(c) ELSE Target(c)
Later(c) == IF Source(c) < Target(c) THEN Target(c) ELSE Source(c)

\* The target is claimed under the admission lock.
ClaimTarget(c) ==
    /\ Verb(c) = "fork" /\ At(c, "new") /\ admission = None
    /\ IF Target(c) \in claims THEN Answer(c, "refused") /\ UNCHANGED claims
       ELSE claims' = claims \cup {Target(c)} /\ Goto(c, "first")
    /\ UNCHANGED <<asks, sess, cleanup, lock, admission, routes, active, stopping, reserved>>

\* Once the source's turn is over it takes both locks in the order of names.
LockEarlier(c) ==
    /\ At(c, "first") /\ active[Source(c)] = None /\ Free(Earlier(c))
    /\ Hold(c, Earlier(c)) /\ Goto(c, "second")
    /\ UNCHANGED <<asks, sess, cleanup, admission, routes, active, stopping, reserved, claims>>

\* A turn of the source that began meanwhile sends it back to wait.  Otherwise the
\* target's turn is entered under both locks, for the source's owner.
PrepareFork(c) ==
    LET s == Source(c)
        t == Target(c)
        able == /\ ~Fenced(s) /\ ~Fenced(t) /\ Present(s) /\ ~Present(t)
                /\ active[t] = None /\ MayEnter(t, FALSE)
    IN
    /\ At(c, "second") /\ Free(Later(c))
    /\ Unlock(Earlier(c))
    /\ \/ /\ active[s] # None
          /\ Goto(c, "first") /\ UNCHANGED <<active, stopping, claims>>
       \/ /\ active[s] = None /\ able
          /\ active' = [active EXCEPT ![t] = c]
          /\ stopping' = [stopping EXCEPT ![t] = FALSE]
          /\ call' = [call EXCEPT ![c].pc = "body", ![c].owner = sess[s].owner]
          /\ UNCHANGED claims
       \/ /\ active[s] = None /\ ~able
          /\ Answer(c, "refused") /\ claims' = claims \ {t} /\ UNCHANGED <<active, stopping>>
    /\ UNCHANGED <<asks, sess, cleanup, admission, routes, reserved>>

-----------------------------------------------------------------------------
(* Account routes. *)

Owner(c) == asks[c].owner

\* Under the owner's lock: another operation's scope, a name that is another
\* owner's or that nobody can vouch for, or the fence; a purge then promotes it.
Foreign(n, o) == sess[n].owner \notin {None, o}
Unproven(n) == sess[n].owner = None /\ ~Present(n)

BeginRoute(c) ==
    LET o == Owner(c)
        refused == \/ cleanup[o].state # "none" /\ cleanup[o].key # asks[c].key
                   \/ \E n \in asks[c].adopts : Foreign(n, o) \/ Unproven(n)
        adopted == [n \in Names |-> IF n \in asks[c].adopts THEN [sess[n] EXCEPT !.owner = o]
                                    ELSE sess[n]]
        next == CASE Verb(c) = "purgeOwner" /\ cleanup[o].state # "purged" -> "purging"
                  [] cleanup[o].state = "none" -> "quiesced"
                  [] OTHER -> cleanup[o].state
    IN
    /\ Verb(c) \in RouteVerbs /\ At(c, "new") /\ routes[o] = None
    /\ IF refused
       THEN Answer(c, "refused") /\ UNCHANGED <<sess, cleanup, routes>>
       ELSE /\ sess' = adopted
            /\ cleanup' = [cleanup EXCEPT ![o] = [state |-> next, key |-> asks[c].key]]
            /\ routes' = [routes EXCEPT ![o] = c]
            /\ call' = [call EXCEPT ![c].pc = "visit",
                           ![c].todo = {n \in Names : Present(n) /\ adopted[n].owner = o}]
    /\ UNCHANGED <<asks, manager>>

\* A purge of one session, an operator's or the garbage collector's.
Purge(c) ==
    /\ Verb(c) = "purge" /\ At(c, "new")
    /\ call' = [call EXCEPT ![c].pc = "visit", ![c].todo = {Name(c)}]
    /\ UNCHANGED <<asks, sess, cleanup, routes, manager>>

Purges(c) == Verb(c) \in {"purge", "purgeOwner"}

\* manager.purge or manager.quiesce of the next session, under its lock.
Visit(c) ==
    \E n \in call[c].todo :
    LET purge == Purges(c)
        idle == ~Present(n) /\ active[n] = None
    IN
    /\ At(c, "visit") /\ Free(n)
    /\ \/ /\ purge /\ ~Present(n) /\ sess[n].fence = "purge"
          /\ sess' = [sess EXCEPT ![n].fence = "none"]
          /\ stopping' = [stopping EXCEPT ![n] = FALSE]
          /\ call' = [call EXCEPT ![c].todo = @ \ {n}]
          /\ UNCHANGED <<lock, routes>>
       \/ /\ purge /\ idle /\ sess[n].fence # "purge"
          /\ Leave(c, "failed")
          /\ UNCHANGED <<sess, stopping, lock>>
       \/ /\ ~purge /\ idle
          /\ sess' = [sess EXCEPT ![n].fence = "external", ![n].epoch = TRUE]
          /\ call' = [call EXCEPT ![c].todo = @ \ {n}]
          /\ UNCHANGED <<stopping, lock, routes>>
       \/ /\ ~idle /\ ~(purge /\ ~Present(n) /\ sess[n].fence = "purge")
          /\ sess' = IF purge
                     THEN [sess EXCEPT ![n].fence = IF @ = "none" THEN "purge" ELSE @]
                     ELSE [sess EXCEPT ![n].fence = "external", ![n].epoch = TRUE]
          /\ stopping' = [stopping EXCEPT ![n] = TRUE]
          /\ Hold(c, n)
          /\ call' = [call EXCEPT ![c].pc = "drain", ![c].at = n]
          /\ UNCHANGED routes
    /\ UNCHANGED <<asks, cleanup, admission, active, reserved, claims>>

\* The turn drained and the runtime is proved closed; or it is not, and the route
\* reports itself incomplete with the fences in place.
Closed(c) ==
    LET n == call[c].at IN
    /\ Verb(c) # "stop" /\ At(c, "drain") /\ active[n] = None
    /\ Unlock(n)
    /\ \/ /\ Present(n)
          /\ Leave(c, "failed") /\ UNCHANGED <<sess, stopping>>
       \/ /\ sess' = IF Purges(c)
                     THEN [sess EXCEPT ![n].state = "absent",
                                       ![n].focus = FALSE,
                                       ![n].fence = IF @ = "purge" THEN "none" ELSE @]
                     ELSE [sess EXCEPT ![n].state = IF Present(n) THEN "ended" ELSE @,
                                       ![n].focus = FALSE]
          /\ stopping' = IF Purges(c) THEN [stopping EXCEPT ![n] = FALSE]
                         ELSE stopping
          /\ call' = [call EXCEPT ![c].pc = "visit", ![c].at = None, ![c].todo = @ \ {n}]
          /\ UNCHANGED routes
    /\ UNCHANGED <<asks, cleanup, admission, active, reserved, claims>>

\* A purge looks at the owner's sessions once more before it promotes the scope.
EndVisits(c) ==
    LET o == Owner(c) IN
    /\ At(c, "visit") /\ call[c].todo = {}
    /\ IF Verb(c) = "purgeOwner"
       THEN IF Owned(o) = {}
            THEN Leave(c, "ok") /\ cleanup' = [cleanup EXCEPT ![o].state = "purged"]
            ELSE Leave(c, "failed") /\ UNCHANGED cleanup
       ELSE Leave(c, "ok") /\ UNCHANGED cleanup
    /\ UNCHANGED <<asks, sess, manager>>

-----------------------------------------------------------------------------
TurnSteps(c) == AdmitTurn(c) \/ Begin(c) \/ Publish(c) \/ FinishTurn(c) \/ FailStart(c)
                \/ ReleaseTurn(c)
CapacitySteps(c) == Admit(c) \/ Evict(c) \/ Evicted(c)
VerbSteps(c) == Resume(c) \/ Relock(c) \/ Resumed(c) \/ Suspend(c) \/ Suspended(c)
                \/ Focus(c) \/ Stop(c) \/ Stopped(c) \/ DrainExpires(c)
ForkSteps(c) == ClaimTarget(c) \/ LockEarlier(c) \/ PrepareFork(c)
RouteSteps(c) == BeginRoute(c) \/ Purge(c) \/ Visit(c) \/ Closed(c) \/ EndVisits(c)

Step(c) == TurnSteps(c) \/ CapacitySteps(c) \/ VerbSteps(c) \/ ForkSteps(c) \/ RouteSteps(c)
Next == (\E c \in Calls : Step(c)) \/ (\E n \in Names : LeaseExpires(n))

\* Every call is a chain of promises: the event loop runs what is ready, a turn's
\* process ends, and the locks are FIFO tails.
Spec == Init /\ [][Next]_vars /\ \A c \in Calls : WF_vars(Step(c))

-----------------------------------------------------------------------------
\* Every call is answered.  An eviction holds the admission lock while it waits for
\* its victim's lifecycle lock; a stop or a cleanup that holds that lock waits for the
\* victim's turn; and that turn may be waiting for the admission lock.
CallsAnswered == \A c \in Calls : <>(At(c, "done"))

\* Once an owner's cleanup has begun, no session of the owner comes into being,
\* not from a turn that was under way nor from the write of one that failed; and
\* the scope becomes "purged" only in a state with no session of the owner.
ScopeStaysClosed ==
    [][\A o \in Owners :
          /\ cleanup[o].state # "none" =>
                \A n \in Names : ~Present(n) /\ Present(n)' => sess'[n].owner # o
          /\ cleanup[o].state # "purged" /\ cleanup'[o].state = "purged" => Owned(o) = {}]_vars
=============================================================================
