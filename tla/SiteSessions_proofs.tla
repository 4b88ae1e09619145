------------------------ MODULE SiteSessions_proofs ------------------------
(***************************************************************************)
(* Proofs about the sessions of one daemon: an owner's scope, once its     *)
(* cleanup has begun, gains no session.                                    *)
(***************************************************************************)
EXTENDS SiteSessions, TLAPS

-----------------------------------------------------------------------------
(* The inductive invariant: who is in a turn is the name's active turn, who  *)
(* works under a lock has it, and what such a call relies on is there.       *)

CallRecords == [pc : Steps, at : Names \cup {None}, held : BOOLEAN, owner : Owners \cup {None},
                todo : SUBSET Names, answer : Answers]

Typed ==
    /\ asks \in [Calls -> Requests]
    /\ sess \in [Names -> Sessions]
    /\ cleanup \in [Owners -> [state : Scopes, key : Keys]]
    /\ lock \in [Names -> Calls \cup {None}]
    /\ active \in [Names -> Calls \cup {None}]
    /\ call \in [Calls -> CallRecords]

Turners == TurnVerbs \cup {"fork"}

\* Each verb goes through its own steps.
InCourse(c) ==
    /\ call[c].pc \in {"body", "publish", "run", "failing", "release"} => Verb(c) \in Turners
    /\ call[c].pc \in {"admission", "evict"} => Verb(c) \in Turners \cup {"resume"}
    /\ call[c].pc = "closing" => Verb(c) \in Turners \cup {"resume", "suspend"}
    /\ call[c].pc \in {"relock", "connect"} => Verb(c) = "resume"
    /\ call[c].pc = "drain" => Verb(c) \in RouteVerbs \cup {"stop", "purge"}
    /\ call[c].pc = "visit" => Verb(c) \in RouteVerbs \cup {"purge"}
    /\ call[c].pc \in {"first", "second"} => Verb(c) = "fork"

\* A turn is active from its admission to its release, and has a session while it runs.
InTurn(c) ==
    /\ Verb(c) \in Turners
       /\ call[c].pc \in {"body", "admission", "evict", "closing", "publish", "run",
                          "failing", "release"}
       => active[Name(c)] = c
    /\ call[c].pc \in {"run", "failing"} => Present(Name(c))

\* The session a call closes, and the one whose turn it waits for.
Victim(c) == IF Verb(c) = "suspend" THEN Name(c) ELSE call[c].at
Drained(c) == IF Verb(c) = "stop" THEN Name(c) ELSE call[c].at

UnderLock(c) ==
    /\ call[c].pc = "evict" => call[c].at \in Names
    /\ call[c].pc = "closing" =>
          Victim(c) \in Names /\ lock[Victim(c)] = c /\ Present(Victim(c))
    /\ call[c].pc = "connect" => lock[Name(c)] = c /\ Present(Name(c))
    /\ call[c].pc = "drain" => Drained(c) \in Names /\ lock[Drained(c)] = c
    /\ call[c].pc = "second" => lock[Earlier(c)] = c

InOrder(c) == InCourse(c) /\ InTurn(c) /\ UnderLock(c)

IInv == Typed /\ \A c \in Calls : InOrder(c)

-----------------------------------------------------------------------------
(* What a step leaves to the other calls: their place, their locks and turns, *)
(* and the sessions these protect.                                           *)

Apart(c) ==
    /\ call' \in [Calls -> CallRecords]
    /\ \A d \in Calls \ {c} : call'[d] = call[d]

Locks(c) ==
    /\ lock' \in [Names -> Calls \cup {None}]
    /\ \A d \in Calls \ {c}, n \in Names : lock[n] = d => lock'[n] = d

Turns(c) ==
    /\ active' \in [Names -> Calls \cup {None}]
    /\ \A d \in Calls \ {c}, n \in Names : active[n] = d => active'[n] = d

Protects(c) ==
    /\ sess' \in [Names -> Sessions]
    /\ \A d \in Calls \ {c}, n \in Names :
          Present(n) /\ (lock[n] = d \/ active[n] = d) => Present(n)'

\* Most steps bring no session and remove none.
Steady ==
    /\ sess' \in [Names -> Sessions]
    /\ \A n \in Names : Present(n)' <=> Present(n)

Orderly(c) ==
    /\ asks' = asks /\ cleanup' \in [Owners -> [state : Scopes, key : Keys]]
    /\ Apart(c) /\ Locks(c) /\ Turns(c) /\ Protects(c) /\ InOrder(c)'

\* The action of ScopeStaysClosed
ScopeStep ==
    \A o \in Owners :
       /\ cleanup[o].state # "none" =>
             \A n \in Names : ~Present(n) /\ Present(n)' => sess'[n].owner # o
       /\ cleanup[o].state # "purged" /\ cleanup'[o].state = "purged" => Owned(o) = {}

\* What the invariant says of one call
LEMMA Facts ==
  ASSUME IInv, NEW c \in Calls
  PROVE  /\ Typed /\ InCourse(c) /\ InTurn(c) /\ UnderLock(c)
         /\ call[c] \in CallRecords
         /\ Verb(c) \in Verbs /\ asks[c].adopts \subseteq Names
         /\ Verb(c) \notin RouteVerbs => Name(c) \in Names
         /\ Verb(c) \in RouteVerbs => Owner(c) \in Owners
         /\ asks[c].key \in Keys /\ asks[c].owner \in Owners \cup {None}
         /\ Verb(c) = "fork" => /\ Source(c) \in Names /\ Target(c) \in Names
                                /\ Earlier(c) \in Names /\ Later(c) \in Names
<1>1. Typed /\ InOrder(c)
  BY DEF IInv
<1>2. asks[c] \in Requests /\ call[c] \in CallRecords
  BY <1>1 DEF Typed
<1>3. /\ Verb(c) \in Verbs /\ asks[c].adopts \subseteq Names
      /\ Verb(c) \notin RouteVerbs => Name(c) \in Names
      /\ Verb(c) \in RouteVerbs => Owner(c) \in Owners
      /\ asks[c].key \in Keys /\ asks[c].owner \in Owners \cup {None}
      /\ Verb(c) = "fork" => Source(c) \in Names /\ Target(c) \in Names
  BY <1>2 DEF Requests, Verb, Name, Owner, Source, Target, RouteVerbs
<1> QED  BY <1>1, <1>2, <1>3 DEF InOrder, Earlier, Later

\* A step that is orderly keeps the invariant.
LEMMA OrderKept ==
  ASSUME IInv, NEW c \in Calls, Orderly(c)
  PROVE  IInv'
<1>1. Typed'
  BY DEF IInv, Typed, Orderly, Apart, Locks, Turns, Protects
<1>2. ASSUME NEW d \in Calls, d # c
      PROVE  InOrder(d)'
  <2>1. call'[d] = call[d] /\ asks' = asks
    BY <1>2 DEF Orderly, Apart
  <2>2. /\ Verb(d)' = Verb(d) /\ Name(d)' = Name(d) /\ Earlier(d)' = Earlier(d)
        /\ Victim(d)' = Victim(d) /\ Drained(d)' = Drained(d)
    BY <2>1 DEF Verb, Name, Earlier, Source, Target, Victim, Drained
  <2>3. \A n \in Names : /\ lock[n] = d => lock'[n] = d
                         /\ active[n] = d => active'[n] = d
                         /\ Present(n) /\ (lock[n] = d \/ active[n] = d) => Present(n)'
    BY <1>2 DEF Orderly, Locks, Turns, Protects
  <2>4. InCourse(d)'
    BY <2>1, <2>2, Facts DEF InCourse
  <2>5. InTurn(d)'
    <3>1. Verb(d) \in Turners => Name(d) \in Names
      BY Facts DEF Turners, TurnVerbs, RouteVerbs
    <3>2. InTurn(d) /\ InCourse(d)
      BY Facts
    <3> QED  BY <2>1, <2>2, <2>3, <3>1, <3>2 DEF InTurn, InCourse
  <2>6. UnderLock(d)'
    <3>1. UnderLock(d) /\ InCourse(d)
      BY Facts
    <3>2. /\ Verb(d) = "resume" => Name(d) \in Names
          /\ Verb(d) = "fork" => Earlier(d) \in Names
      BY Facts DEF RouteVerbs
    <3> QED  BY <2>1, <2>2, <2>3, <3>1, <3>2 DEF UnderLock, InCourse
  <2> QED  BY <2>4, <2>5, <2>6 DEF InOrder
<1> QED  BY <1>1, <1>2 DEF IInv, Orderly

\* A step that is steady protects every call, and leaves every scope as it is.
LEMMA SteadyOrderly ==
  ASSUME IInv, NEW c \in Calls, asks' = asks, cleanup' = cleanup,
         Apart(c), Steady, Locks(c), Turns(c), InOrder(c)'
  PROVE  Orderly(c) /\ ScopeStep
<1>1. Protects(c)
  BY DEF Steady, Protects
<1>2. ScopeStep
  BY DEF Steady, ScopeStep
<1> QED  BY <1>1, <1>2 DEF Orderly, IInv, Typed

-----------------------------------------------------------------------------
(* What one assignment keeps. *)

\* The call is somewhere else, and the others are where they were.
Moved(c, pc, at) == Apart(c) /\ call'[c].pc = pc /\ call'[c].at = at

LEMMA RecordMoves ==
  ASSUME Typed, NEW c \in Calls, NEW r \in CallRecords, call' = [call EXCEPT ![c] = r]
  PROVE  Moved(c, r.pc, r.at)
BY DEF Typed, Moved, Apart

LEMMA GotoMoves ==
  ASSUME Typed, NEW c \in Calls, NEW pc \in Steps, Goto(c, pc)
  PROVE  Moved(c, pc, call[c].at)
<1> DEFINE r == [call[c] EXCEPT !.pc = pc]
<1>1. call[c] \in CallRecords
  BY DEF Typed
<1>2. r \in CallRecords /\ r.pc = pc /\ r.at = call[c].at
  BY <1>1 DEF CallRecords
<1>3. call' = [call EXCEPT ![c] = r]
  BY DEF Goto
<1> QED  BY <1>2, <1>3, RecordMoves

LEMMA AnswerMoves ==
  ASSUME Typed, NEW c \in Calls, NEW answer \in Answers, Answer(c, answer)
  PROVE  Moved(c, "done", None)
<1> DEFINE r == [NoCall EXCEPT !.pc = "done", !.answer = answer]
<1>1. r \in CallRecords /\ r.pc = "done" /\ r.at = None
  BY DEF CallRecords, NoCall, Steps, Answers
<1>2. call' = [call EXCEPT ![c] = r]
  BY DEF Answer
<1> QED  BY <1>1, <1>2, RecordMoves

LEMMA HoldLocks ==
  ASSUME Typed, SiteAssumption, NEW c \in Calls, NEW n \in Names, Free(n), Hold(c, n)
  PROVE  Locks(c) /\ lock'[n] = c
BY DEF Typed, Free, Hold, Locks, SiteAssumption

LEMMA UnlockLocks ==
  ASSUME Typed, NEW c \in Calls, NEW n \in Names, lock[n] = c, Unlock(n)
  PROVE  Locks(c)
BY DEF Typed, Unlock, Locks

LEMMA SameLocks ==
  ASSUME Typed, NEW c \in Calls
  PROVE  /\ UNCHANGED lock => Locks(c)
         /\ UNCHANGED active => Turns(c)
         /\ UNCHANGED sess => Steady
BY DEF Typed, Locks, Turns, Steady, Present

\* A session that is edited is there afterwards if it was there before.
LEMMA EditSteady ==
  ASSUME Typed, NEW n \in Names, NEW r \in Sessions,
         r.state = "absent" <=> ~Present(n), sess' = [sess EXCEPT ![n] = r]
  PROVE  Steady
BY DEF Typed, Steady, Present

LEMMA StateSteady ==
  ASSUME Typed, NEW n \in Names, Present(n), NEW state \in SessionStates, state # "absent",
         SetState(n, state) \/ Disconnect(n, state)
  PROVE  Steady
<1>1. sess[n] \in Sessions
  BY DEF Typed
<1>2. CASE SetState(n, state)
  <2> DEFINE r == [sess[n] EXCEPT !.state = state]
  <2>1. r \in Sessions /\ r.state = state
    BY <1>1 DEF Sessions
  <2>2. sess' = [sess EXCEPT ![n] = r]
    BY <1>2 DEF SetState
  <2> QED  BY <2>1, <2>2, EditSteady
<1>3. CASE Disconnect(n, state)
  <2> DEFINE r == [sess[n] EXCEPT !.state = state, !.focus = FALSE]
  <2>1. r \in Sessions /\ r.state = state
    BY <1>1 DEF Sessions
  <2>2. sess' = [sess EXCEPT ![n] = r]
    BY <1>3 DEF Disconnect
  <2> QED  BY <2>1, <2>2, EditSteady
<1> QED  BY <1>2, <1>3

\* A call that has been answered, or waits for nothing, is in order.
LEMMA RestInOrder ==
  ASSUME NEW c \in Calls, NEW pc \in {"new", "done"}, call'[c].pc = pc
  PROVE  InOrder(c)'
BY DEF InOrder, InCourse, InTurn, UnderLock

\* So is a turn that goes on.
LEMMA TurnInOrder ==
  ASSUME NEW c \in Calls, asks' = asks, Verb(c) \in Turners, active'[Name(c)] = c,
         NEW pc \in {"body", "admission", "publish", "release"}, call'[c].pc = pc
  PROVE  InOrder(c)'
BY DEF InOrder, InCourse, InTurn, UnderLock, Verb, Name

-----------------------------------------------------------------------------
(* Turns and capacity. *)

LEMMA AdmitTurnKept ==
  ASSUME IInv, SiteAssumption, NEW c \in Calls, AdmitTurn(c)
  PROVE  Orderly(c) /\ ScopeStep
<1> DEFINE n == Name(c)
<1>1. Typed /\ call[c] \in CallRecords /\ n \in Names /\ Verb(c) \in Turners
      /\ asks[c].owner \in Owners \cup {None}
  BY Facts DEF AdmitTurn, Turners, TurnVerbs, RouteVerbs
<1>2. asks' = asks /\ cleanup' = cleanup /\ lock' = lock
  BY DEF AdmitTurn
<1>3. CASE Answer(c, "refused") /\ UNCHANGED <<sess, active, stopping>>
  <2>1. Moved(c, "done", None)
    BY <1>1, <1>3, AnswerMoves DEF Answers
  <2> QED  BY <1>1, <1>2, <1>3, <2>1, RestInOrder, SameLocks, SteadyOrderly DEF Moved
<1>4. CASE /\ active[n] = None
           /\ sess' = [sess EXCEPT ![n].fence = "none"]
           /\ active' = [active EXCEPT ![n] = c]
           /\ call' = [call EXCEPT ![c].pc = "body", ![c].owner = asks[c].owner]
  <2> DEFINE r == [call[c] EXCEPT !.pc = "body", !.owner = asks[c].owner]
             x == [sess[n] EXCEPT !.fence = "none"]
  <2>1. r \in CallRecords /\ r.pc = "body"
    BY <1>1 DEF CallRecords, Steps
  <2>2. Apart(c) /\ call'[c].pc = "body"
    <3>1. call' = [call EXCEPT ![c] = r]
      BY <1>1, <1>4 DEF Typed, CallRecords
    <3> QED  BY <1>1, <2>1, <3>1, RecordMoves DEF Moved
  <2>3. x \in Sessions /\ (x.state = "absent" <=> ~Present(n))
    BY <1>1 DEF Typed, Sessions, Fences, Present
  <2>4. Steady
    BY <1>1, <1>4, <2>3, EditSteady
  <2>5. Turns(c) /\ active'[n] = c
    BY <1>1, <1>4 DEF Typed, Turns, SiteAssumption
  <2> QED  BY <1>1, <1>2, <2>2, <2>4, <2>5, TurnInOrder, SameLocks, SteadyOrderly
<1> QED  BY <1>3, <1>4 DEF AdmitTurn

LEMMA BeginKept ==
  ASSUME IInv, NEW c \in Calls, Begin(c)
  PROVE  Orderly(c) /\ ScopeStep
<1>1. Typed /\ Verb(c) \in Turners /\ active[Name(c)] = c
  BY Facts DEF Begin, At, InCourse, InTurn
<1>2. asks' = asks /\ cleanup' = cleanup /\ lock' = lock /\ active' = active /\ sess' = sess
  BY DEF Begin, manager
<1>3. Goto(c, "release") \/ Goto(c, "publish") \/ Goto(c, "admission")
  BY DEF Begin, Abandon
<1>4. \E pc \in {"release", "publish", "admission"} : Moved(c, pc, call[c].at)
  BY <1>1, <1>3, GotoMoves DEF Steps
<1> QED  BY <1>1, <1>2, <1>4, TurnInOrder, SameLocks, SteadyOrderly DEF Moved

\* The write that can bring a session: its owner's scope is open, or it is there already.
LEMMA PublishKept ==
  ASSUME IInv, SiteAssumption, NEW c \in Calls, Publish(c)
  PROVE  Orderly(c) /\ ScopeStep
<1> DEFINE n == Name(c)
           owner == call[c].owner
<1>1. Typed /\ Verb(c) \in Turners /\ active[n] = c /\ n \in Names /\ call[c] \in CallRecords
  BY Facts DEF Publish, At, InCourse, InTurn, Turners, TurnVerbs, RouteVerbs
<1>2. asks' = asks /\ cleanup' = cleanup /\ lock' = lock /\ active' = active
  BY DEF Publish, manager
<1>3. CASE Abandon(c) /\ UNCHANGED sess
  <2>1. Moved(c, "release", call[c].at)
    BY <1>1, <1>3, GotoMoves DEF Steps, Abandon
  <2> QED  BY <1>1, <1>2, <1>3, <2>1, TurnInOrder, SameLocks, SteadyOrderly DEF Moved
<1>4. CASE Present(n) /\ SetState(n, "ended") /\ Abandon(c)
  <2>1. Moved(c, "release", call[c].at)
    BY <1>1, <1>4, GotoMoves DEF Steps, Abandon
  <2>2. Steady
    BY <1>1, <1>4, StateSteady DEF SessionStates
  <2> QED  BY <1>1, <1>2, <2>1, <2>2, TurnInOrder, SameLocks, SteadyOrderly DEF Moved
<1>5. CASE /\ MayWrite(n, owner)
           /\ sess' = [sess EXCEPT ![n].state = "connected",
                                   ![n].owner = IF owner # None THEN owner ELSE @]
           /\ Goto(c, "run")
  <2> DEFINE r == [sess[n] EXCEPT !.state = "connected",
                                  !.owner = IF owner # None THEN owner ELSE @]
  <2>1. Moved(c, "run", call[c].at)
    BY <1>1, <1>5, GotoMoves DEF Steps
  <2>2. sess[n] \in Sessions /\ owner \in Owners \cup {None}
    BY <1>1 DEF Typed, CallRecords
  <2>3. /\ r \in Sessions /\ r.state = "connected"
        /\ r.owner = IF owner # None THEN owner ELSE sess[n].owner
    BY <2>2 DEF Sessions, SessionStates
  <2>4. sess' = [sess EXCEPT ![n] = r]
    BY <1>5
  <2> HIDE DEF r
  <2>5. /\ sess' \in [Names -> Sessions] /\ sess'[n] = r
        /\ \A m \in Names \ {n} : sess'[m] = sess[m]
    BY <1>1, <2>3, <2>4 DEF Typed
  <2>6. sess'[n].state # "absent"
    BY <2>3, <2>5
  <2>7. Protects(c)
    BY <1>1, <2>5, <2>6 DEF Protects, Present
  <2>8. ScopeStep
    <3>1. ~Present(n) => /\ sess[n].owner \in {None, owner}
                         /\ owner # None => cleanup[owner].state = "none"
      BY <1>5 DEF MayWrite
    <3>2. None \notin Owners
      BY DEF SiteAssumption
    <3>3. ASSUME NEW o \in Owners, cleanup[o].state # "none", NEW m \in Names,
                 ~Present(m), Present(m)'
          PROVE  sess'[m].owner # o
      <4>1. m = n
        BY <3>3, <2>5 DEF Present
      <4> QED  BY <2>3, <2>5, <3>1, <3>2, <3>3, <4>1
    <3> QED  BY <1>2, <3>3 DEF ScopeStep
  <2>9. InOrder(c)'
    <3>1. call'[c].pc = "run" /\ Verb(c)' = Verb(c) /\ Name(c)' = Name(c)
      BY <1>2, <2>1 DEF Moved, Verb, Name
    <3> QED  BY <1>1, <1>2, <2>6, <3>1 DEF InOrder, InCourse, InTurn, UnderLock, Present
  <2> QED  BY <1>1, <1>2, <2>1, <2>7, <2>8, <2>9, SameLocks DEF Orderly, Moved, Typed
<1> QED  BY <1>3, <1>4, <1>5 DEF Publish

LEMMA FinishTurnKept ==
  ASSUME IInv, NEW c \in Calls, FinishTurn(c)
  PROVE  Orderly(c) /\ ScopeStep
<1> DEFINE n == Name(c)
<1>1. /\ Typed /\ active[n] = c /\ n \in Names /\ Present(n)
      /\ Verb(c) \in Turners
  BY Facts DEF FinishTurn, At, InCourse, InTurn, Turners, TurnVerbs, RouteVerbs
<1>2. asks' = asks /\ cleanup' = cleanup /\ lock' = lock /\ active' = active
  BY DEF FinishTurn, manager
<1>3. Steady
  BY <1>1, StateSteady DEF FinishTurn, SessionStates
<1>4. Goto(c, "release") \/ Goto(c, "failing")
  BY DEF FinishTurn
<1>5. \E pc \in {"release", "failing"} : Moved(c, pc, call[c].at)
  BY <1>1, <1>4, GotoMoves DEF Steps
<1>6. Present(n)' /\ Verb(c)' = Verb(c) /\ Name(c)' = Name(c)
  BY <1>1, <1>2, <1>3 DEF Steady, Verb, Name
<1>7. InOrder(c)'
  BY <1>1, <1>2, <1>5, <1>6 DEF Moved, InOrder, InCourse, InTurn, UnderLock
<1> QED  BY <1>1, <1>2, <1>3, <1>5, <1>7, SameLocks, SteadyOrderly DEF Moved

LEMMA FailStartKept ==
  ASSUME IInv, NEW c \in Calls, FailStart(c)
  PROVE  Orderly(c) /\ ScopeStep
<1> DEFINE n == Name(c)
<1>1. /\ Typed /\ active[n] = c /\ n \in Names /\ Present(n)
      /\ Verb(c) \in Turners
  BY Facts DEF FailStart, At, InCourse, InTurn, Turners, TurnVerbs, RouteVerbs
<1>2. asks' = asks /\ cleanup' = cleanup /\ lock' = lock /\ active' = active
  BY DEF FailStart, manager
<1>3. Steady
  BY <1>1, StateSteady, SameLocks DEF FailStart, SessionStates
<1>4. Moved(c, "release", call[c].at)
  BY <1>1, GotoMoves DEF Steps, FailStart
<1> QED  BY <1>1, <1>2, <1>3, <1>4, TurnInOrder, SameLocks, SteadyOrderly DEF Moved

LEMMA ReleaseTurnKept ==
  ASSUME IInv, SiteAssumption, NEW c \in Calls, ReleaseTurn(c)
  PROVE  Orderly(c) /\ ScopeStep
<1> DEFINE n == Name(c)
<1>1. Typed /\ active[n] = c /\ n \in Names
  BY Facts DEF ReleaseTurn, At, InCourse, InTurn, Turners, TurnVerbs, RouteVerbs
<1>2. asks' = asks /\ cleanup' = cleanup /\ lock' = lock /\ sess' = sess
  BY DEF ReleaseTurn
<1>3. Moved(c, "done", None)
  BY <1>1, AnswerMoves DEF Answers, ReleaseTurn
<1>4. Turns(c)
  BY <1>1 DEF ReleaseTurn, Typed, Turns
<1> QED  BY <1>1, <1>2, <1>3, <1>4, RestInOrder, SameLocks, SteadyOrderly DEF Moved

\* Who waits for capacity is in a turn, or a resume.
LEMMA AdmissionInOrder ==
  ASSUME NEW c \in Calls, asks' = asks, Verb(c) \in Turners \cup {"resume"},
         Verb(c) \in Turners => active'[Name(c)] = c,
         call'[c].pc = AfterAdmission(c) \/ call'[c].pc = "admission"
         \/ (call'[c].pc = "evict" /\ call'[c].at \in Names)
  PROVE  InOrder(c)'
<1>1. Verb(c)' = Verb(c) /\ Name(c)' = Name(c)
  BY DEF Verb, Name
<1>2. Verb(c) = "resume" => Verb(c) \notin Turners
  BY DEF Turners, TurnVerbs
<1> QED  BY <1>1, <1>2 DEF AfterAdmission, InOrder, InCourse, InTurn, UnderLock

LEMMA AdmitKept ==
  ASSUME IInv, NEW c \in Calls, Admit(c)
  PROVE  Orderly(c) /\ ScopeStep
<1>1. /\ Typed /\ Verb(c) \in Turners \cup {"resume"} /\ call[c] \in CallRecords
      /\ Verb(c) \in Turners => active[Name(c)] = c
  BY Facts DEF Admit, At, InCourse, InTurn
<1>2. /\ asks' = asks /\ cleanup' = cleanup /\ lock' = lock /\ active' = active
      /\ sess' = sess
  BY DEF Admit
<1>3. Apart(c) /\ InOrder(c)'
  <2>1. ASSUME NEW held \in BOOLEAN,
               call' = [call EXCEPT ![c].pc = AfterAdmission(c), ![c].held = held]
        PROVE  Apart(c) /\ InOrder(c)'
    <3> DEFINE r == [call[c] EXCEPT !.pc = AfterAdmission(c), !.held = held]
    <3>1. r \in CallRecords /\ r.pc = AfterAdmission(c)
      BY <1>1 DEF CallRecords, AfterAdmission, Steps
    <3>2. call' = [call EXCEPT ![c] = r]
      BY <1>1, <2>1 DEF Typed, CallRecords
    <3>3. Apart(c) /\ call'[c].pc = AfterAdmission(c)
      BY <1>1, <3>1, <3>2, RecordMoves DEF Moved
    <3> QED  BY <1>1, <1>2, <3>3, AdmissionInOrder
  <2>2. ASSUME NEW v \in Names, call' = [call EXCEPT ![c].pc = "evict", ![c].at = v]
        PROVE  Apart(c) /\ InOrder(c)'
    <3> DEFINE r == [call[c] EXCEPT !.pc = "evict", !.at = v]
    <3>1. r \in CallRecords /\ r.pc = "evict" /\ r.at = v
      BY <1>1 DEF CallRecords, Steps
    <3>2. call' = [call EXCEPT ![c] = r]
      BY <1>1, <2>2 DEF Typed, CallRecords
    <3>3. Apart(c) /\ call'[c].pc = "evict" /\ call'[c].at = v
      BY <1>1, <3>1, <3>2, RecordMoves DEF Moved
    <3> QED  BY <1>1, <1>2, <3>3, AdmissionInOrder
  <2>3. CASE Answer(c, "failed")
    BY <1>1, <2>3, AnswerMoves, RestInOrder DEF Answers, Moved
  <2>4. CASE Verb(c) # "resume" /\ Abandon(c)
    <3>1. Moved(c, "release", call[c].at)
      BY <1>1, <2>4, GotoMoves DEF Steps, Abandon
    <3> QED  BY <1>1, <1>2, <2>4, <3>1, TurnInOrder DEF Moved
  <2> QED  BY <2>1, <2>2, <2>3, <2>4 DEF Admit
<1> QED  BY <1>1, <1>2, <1>3, SameLocks, SteadyOrderly

LEMMA EvictKept ==
  ASSUME IInv, SiteAssumption, NEW c \in Calls, Evict(c)
  PROVE  Orderly(c) /\ ScopeStep
<1> DEFINE v == call[c].at
<1>1. /\ Typed /\ Verb(c) \in Turners \cup {"resume"} /\ v \in Names
      /\ Verb(c) \in Turners => active[Name(c)] = c
  BY Facts DEF Evict, At, InCourse, InTurn, UnderLock
<1>2. asks' = asks /\ cleanup' = cleanup /\ active' = active /\ sess' = sess
  BY DEF Evict
<1>3. CASE Goto(c, "admission") /\ UNCHANGED lock
  <2>1. Moved(c, "admission", v)
    BY <1>1, <1>3, GotoMoves DEF Steps
  <2>2. InOrder(c)'
    BY <1>1, <1>2, <2>1, AdmissionInOrder DEF Moved
  <2> QED  BY <1>1, <1>2, <1>3, <2>1, <2>2, SameLocks, SteadyOrderly DEF Moved
<1>4. CASE Evictable(v) /\ Hold(c, v) /\ Goto(c, "closing")
  <2>1. Moved(c, "closing", v)
    BY <1>1, <1>4, GotoMoves DEF Steps
  <2>2. Locks(c) /\ lock'[v] = c
    BY <1>1, <1>4, HoldLocks DEF Evict
  <2>3. sess'[v].state # "absent" /\ Verb(c)' = Verb(c) /\ Name(c)' = Name(c)
    BY <1>2, <1>4 DEF Evictable, Connected, Verb, Name
  <2>4. Verb(c) # "suspend"
    BY <1>1 DEF Turners, TurnVerbs
  <2>5. InOrder(c)'
    BY <1>1, <1>2, <2>1, <2>2, <2>3, <2>4
       DEF Moved, InOrder, InCourse, InTurn, UnderLock, Victim, Present
  <2> QED  BY <1>1, <1>2, <2>1, <2>2, <2>5, SameLocks, SteadyOrderly DEF Moved
<1> QED  BY <1>3, <1>4 DEF Evict

LEMMA EvictedKept ==
  ASSUME IInv, NEW c \in Calls, Evicted(c)
  PROVE  Orderly(c) /\ ScopeStep
<1> DEFINE v == call[c].at
<1>1. /\ Typed /\ Verb(c) \in Turners \cup {"resume"} /\ call[c] \in CallRecords
      /\ Verb(c) \in Turners => active[Name(c)] = c
      /\ v \in Names /\ lock[v] = c /\ Present(v)
  BY Facts DEF Evicted, At, InCourse, InTurn, UnderLock, Victim
<1>2. asks' = asks /\ cleanup' = cleanup /\ active' = active
  BY DEF Evicted
<1>3. Locks(c)
  BY <1>1, UnlockLocks DEF Evicted
<1>4. Steady
  BY <1>1, StateSteady, SameLocks DEF Evicted, SessionStates
<1>5. Apart(c) /\ InOrder(c)'
  <2>1. CASE call' = [call EXCEPT ![c].pc = AfterAdmission(c), ![c].held = TRUE, ![c].at = None]
    <3> DEFINE r == [call[c] EXCEPT !.pc = AfterAdmission(c), !.held = TRUE, !.at = None]
    <3>1. r \in CallRecords /\ r.pc = AfterAdmission(c)
      BY <1>1 DEF CallRecords, AfterAdmission, Steps
    <3>2. call' = [call EXCEPT ![c] = r]
      BY <1>1, <2>1 DEF Typed, CallRecords
    <3>3. Apart(c) /\ call'[c].pc = AfterAdmission(c)
      BY <1>1, <3>1, <3>2, RecordMoves DEF Moved
    <3> QED  BY <1>1, <1>2, <3>3, AdmissionInOrder
  <2>2. CASE Answer(c, "failed")
    BY <1>1, <2>2, AnswerMoves, RestInOrder DEF Answers, Moved
  <2>3. CASE Verb(c) # "resume" /\ Abandon(c)
    <3>1. Moved(c, "release", call[c].at)
      BY <1>1, <2>3, GotoMoves DEF Steps, Abandon
    <3> QED  BY <1>1, <1>2, <2>3, <3>1, TurnInOrder DEF Moved
  <2> QED  BY <2>1, <2>2, <2>3 DEF Evicted
<1> QED  BY <1>1, <1>2, <1>3, <1>4, <1>5, SameLocks, SteadyOrderly

-----------------------------------------------------------------------------
(* Verbs of one session. *)

LEMMA ResumeKept ==
  ASSUME IInv, NEW c \in Calls, Resume(c)
  PROVE  Orderly(c) /\ ScopeStep
<1>1. Typed /\ Verb(c) = "resume"
  BY Facts DEF Resume
<1>2. /\ asks' = asks /\ cleanup' = cleanup /\ lock' = lock /\ active' = active
      /\ sess' = sess
  BY DEF Resume, manager
<1>3. CASE Answer(c, "refused")
  <2>1. Moved(c, "done", None)
    BY <1>1, <1>3, AnswerMoves DEF Answers
  <2> QED  BY <1>1, <1>2, <2>1, RestInOrder, SameLocks, SteadyOrderly DEF Moved
<1>4. CASE Goto(c, "relock") \/ Goto(c, "admission")
  <2>1. \E pc \in {"relock", "admission"} : Moved(c, pc, call[c].at)
    BY <1>1, <1>4, GotoMoves DEF Steps
  <2>2. InOrder(c)'
    BY <1>1, <1>2, <2>1, AdmissionInOrder DEF Moved, AfterAdmission, Turners, TurnVerbs
  <2> QED  BY <1>1, <1>2, <2>1, <2>2, SameLocks, SteadyOrderly DEF Moved
<1> QED  BY <1>3, <1>4 DEF Resume

LEMMA RelockKept ==
  ASSUME IInv, SiteAssumption, NEW c \in Calls, Relock(c)
  PROVE  Orderly(c) /\ ScopeStep
<1> DEFINE n == Name(c)
<1>1. Typed /\ Verb(c) = "resume" /\ n \in Names
  BY Facts DEF Relock, At, InCourse, RouteVerbs
<1>2. asks' = asks /\ cleanup' = cleanup /\ active' = active /\ sess' = sess
  BY DEF Relock
<1>3. CASE Answer(c, "refused") /\ UNCHANGED lock
  <2>1. Moved(c, "done", None)
    BY <1>1, <1>3, AnswerMoves DEF Answers
  <2> QED  BY <1>1, <1>2, <1>3, <2>1, RestInOrder, SameLocks, SteadyOrderly DEF Moved
<1>4. CASE Goto(c, "new") /\ UNCHANGED lock
  <2>1. Moved(c, "new", call[c].at)
    BY <1>1, <1>4, GotoMoves DEF Steps
  <2> QED  BY <1>1, <1>2, <1>4, <2>1, RestInOrder, SameLocks, SteadyOrderly DEF Moved
<1>5. CASE Present(n) /\ Hold(c, n) /\ Goto(c, "connect")
  <2>1. Moved(c, "connect", call[c].at)
    BY <1>1, <1>5, GotoMoves DEF Steps
  <2>2. Locks(c) /\ lock'[n] = c
    BY <1>1, <1>5, HoldLocks DEF Relock
  <2>3. sess'[n].state # "absent" /\ Verb(c)' = Verb(c) /\ Name(c)' = n
    BY <1>2, <1>5 DEF Present, Verb, Name
  <2>4. InOrder(c)'
    BY <1>1, <2>1, <2>2, <2>3 DEF Moved, InOrder, InCourse, InTurn, UnderLock, Present
  <2> QED  BY <1>1, <1>2, <2>1, <2>2, <2>4, SameLocks, SteadyOrderly DEF Moved
<1> QED  BY <1>3, <1>4, <1>5 DEF Relock

LEMMA ResumedKept ==
  ASSUME IInv, NEW c \in Calls, Resumed(c)
  PROVE  Orderly(c) /\ ScopeStep
<1>1. /\ Typed /\ Verb(c) = "resume" /\ Name(c) \in Names
      /\ lock[Name(c)] = c /\ Present(Name(c))
  BY Facts DEF Resumed, At, InCourse, UnderLock, RouteVerbs
<1>2. asks' = asks /\ cleanup' = cleanup /\ active' = active
  BY DEF Resumed
<1>3. Moved(c, "done", None)
  BY <1>1, AnswerMoves DEF Resumed, Answers
<1>4. Locks(c)
  BY <1>1, UnlockLocks DEF Resumed
<1>5. Steady
  BY <1>1, StateSteady, SameLocks DEF Resumed, SessionStates
<1> QED  BY <1>1, <1>2, <1>3, <1>4, <1>5, RestInOrder, SameLocks, SteadyOrderly DEF Moved

LEMMA SuspendKept ==
  ASSUME IInv, SiteAssumption, NEW c \in Calls, Suspend(c)
  PROVE  Orderly(c) /\ ScopeStep
<1> DEFINE n == Name(c)
<1>1. Typed /\ Verb(c) = "suspend" /\ n \in Names
  BY Facts DEF Suspend, RouteVerbs
<1>2. asks' = asks /\ cleanup' = cleanup /\ active' = active /\ sess' = sess
  BY DEF Suspend
<1>3. CASE (Answer(c, "refused") \/ Answer(c, "ok")) /\ UNCHANGED lock
  <2>1. Moved(c, "done", None)
    BY <1>1, <1>3, AnswerMoves DEF Answers
  <2> QED  BY <1>1, <1>2, <1>3, <2>1, RestInOrder, SameLocks, SteadyOrderly DEF Moved
<1>4. CASE Connected(n) /\ Hold(c, n) /\ Goto(c, "closing")
  <2>1. Moved(c, "closing", call[c].at)
    BY <1>1, <1>4, GotoMoves DEF Steps
  <2>2. Locks(c) /\ lock'[n] = c
    BY <1>1, <1>4, HoldLocks DEF Suspend
  <2>3. sess'[n].state # "absent" /\ Verb(c)' = Verb(c) /\ Name(c)' = n
    BY <1>2, <1>4 DEF Connected, Verb, Name
  <2>4. InOrder(c)'
    BY <1>1, <2>1, <2>2, <2>3
       DEF Moved, InOrder, InCourse, InTurn, UnderLock, Victim, Present, Turners, TurnVerbs
  <2> QED  BY <1>1, <1>2, <2>1, <2>2, <2>4, SameLocks, SteadyOrderly DEF Moved
<1> QED  BY <1>3, <1>4 DEF Suspend

LEMMA SuspendedKept ==
  ASSUME IInv, NEW c \in Calls, Suspended(c)
  PROVE  Orderly(c) /\ ScopeStep
<1>1. Typed /\ Name(c) \in Names /\ lock[Name(c)] = c /\ Present(Name(c))
  BY Facts DEF Suspended, At, UnderLock, Victim
<1>2. asks' = asks /\ cleanup' = cleanup /\ active' = active
  BY DEF Suspended
<1>3. Moved(c, "done", None)
  BY <1>1, AnswerMoves DEF Suspended, Answers
<1>4. Locks(c)
  BY <1>1, UnlockLocks DEF Suspended
<1>5. Steady
  BY <1>1, StateSteady DEF Suspended, SessionStates
<1> QED  BY <1>1, <1>2, <1>3, <1>4, <1>5, RestInOrder, SameLocks, SteadyOrderly DEF Moved

LEMMA FocusSteady ==
  ASSUME Typed, NEW n \in Names, NEW on \in BOOLEAN, sess' = [sess EXCEPT ![n].focus = on]
  PROVE  Steady
<1> DEFINE r == [sess[n] EXCEPT !.focus = on]
<1>1. r \in Sessions /\ r.state = sess[n].state
  BY DEF Typed, Sessions
<1> QED  BY <1>1, EditSteady DEF Present

LEMMA FocusKept ==
  ASSUME IInv, NEW c \in Calls, Focus(c)
  PROVE  Orderly(c) /\ ScopeStep
<1>1. Typed /\ Name(c) \in Names
  BY Facts DEF Focus, RouteVerbs
<1>2. asks' = asks /\ cleanup' = cleanup /\ lock' = lock /\ active' = active
  BY DEF Focus, manager
<1>3. Moved(c, "done", None)
  BY <1>1, AnswerMoves DEF Focus, Answers
<1>4. Steady
  BY <1>1, FocusSteady, SameLocks DEF Focus
<1> QED  BY <1>1, <1>2, <1>3, <1>4, RestInOrder, SameLocks, SteadyOrderly DEF Moved

LEMMA StopKept ==
  ASSUME IInv, SiteAssumption, NEW c \in Calls, Stop(c)
  PROVE  Orderly(c) /\ ScopeStep
<1> DEFINE n == Name(c)
<1>1. Typed /\ Verb(c) = "stop" /\ n \in Names
  BY Facts DEF Stop, RouteVerbs
<1>2. asks' = asks /\ cleanup' = cleanup /\ active' = active /\ sess' = sess
  BY DEF Stop
<1>3. CASE Answer(c, "refused") /\ UNCHANGED lock
  <2>1. Moved(c, "done", None)
    BY <1>1, <1>3, AnswerMoves DEF Answers
  <2> QED  BY <1>1, <1>2, <1>3, <2>1, RestInOrder, SameLocks, SteadyOrderly DEF Moved
<1>4. CASE Hold(c, n) /\ Goto(c, "drain")
  <2>1. Moved(c, "drain", call[c].at)
    BY <1>1, <1>4, GotoMoves DEF Steps
  <2>2. Locks(c) /\ lock'[n] = c
    BY <1>1, <1>4, HoldLocks DEF Stop
  <2>3. Verb(c)' = Verb(c) /\ Name(c)' = n
    BY <1>2 DEF Verb, Name
  <2>4. InOrder(c)'
    BY <1>1, <2>1, <2>2, <2>3
       DEF Moved, InOrder, InCourse, InTurn, UnderLock, Drained, Turners, TurnVerbs
  <2> QED  BY <1>1, <1>2, <2>1, <2>2, <2>4, SameLocks, SteadyOrderly DEF Moved
<1> QED  BY <1>3, <1>4 DEF Stop

LEMMA StoppedKept ==
  ASSUME IInv, NEW c \in Calls, Stopped(c)
  PROVE  Orderly(c) /\ ScopeStep
<1>1. Typed /\ Name(c) \in Names /\ lock[Name(c)] = c
  BY Facts DEF Stopped, At, UnderLock, Drained
<1>2. asks' = asks /\ cleanup' = cleanup /\ active' = active
  BY DEF Stopped
<1>3. Moved(c, "done", None)
  BY <1>1, AnswerMoves DEF Stopped, Answers
<1>4. Locks(c)
  BY <1>1, UnlockLocks DEF Stopped
<1>5. Steady
  BY <1>1, StateSteady, SameLocks DEF Stopped, SessionStates
<1> QED  BY <1>1, <1>2, <1>3, <1>4, <1>5, RestInOrder, SameLocks, SteadyOrderly DEF Moved

LEMMA DrainExpiresKept ==
  ASSUME IInv, NEW c \in Calls, DrainExpires(c)
  PROVE  Orderly(c) /\ ScopeStep
<1>1. Typed /\ Drained(c) \in Names /\ lock[Drained(c)] = c
  BY Facts DEF DrainExpires, At, UnderLock
<1>2. asks' = asks /\ cleanup' = cleanup /\ active' = active /\ sess' = sess
  BY DEF DrainExpires
<1>3. Moved(c, "done", None)
  BY <1>1, AnswerMoves DEF DrainExpires, Leave, Answers
<1>4. Locks(c)
  BY <1>1, UnlockLocks DEF DrainExpires, Drained
<1> QED  BY <1>1, <1>2, <1>3, <1>4, RestInOrder, SameLocks, SteadyOrderly DEF Moved

-----------------------------------------------------------------------------
(* Forks. *)

LEMMA ForkInOrder ==
  ASSUME NEW c \in Calls, asks' = asks, Verb(c) = "fork",
         call'[c].pc = "first" \/ (call'[c].pc = "second" /\ lock'[Earlier(c)] = c)
  PROVE  InOrder(c)'
<1>1. Verb(c)' = Verb(c) /\ Earlier(c)' = Earlier(c)
  BY DEF Verb, Earlier, Source, Target
<1> QED  BY <1>1 DEF InOrder, InCourse, InTurn, UnderLock

LEMMA ClaimTargetKept ==
  ASSUME IInv, NEW c \in Calls, ClaimTarget(c)
  PROVE  Orderly(c) /\ ScopeStep
<1>1. Typed /\ Verb(c) = "fork"
  BY Facts DEF ClaimTarget
<1>2. /\ asks' = asks /\ cleanup' = cleanup /\ lock' = lock /\ active' = active
      /\ sess' = sess
  BY DEF ClaimTarget
<1>3. CASE Answer(c, "refused")
  <2>1. Moved(c, "done", None)
    BY <1>1, <1>3, AnswerMoves DEF Answers
  <2> QED  BY <1>1, <1>2, <2>1, RestInOrder, SameLocks, SteadyOrderly DEF Moved
<1>4. CASE Goto(c, "first")
  <2>1. Moved(c, "first", call[c].at)
    BY <1>1, <1>4, GotoMoves DEF Steps
  <2> QED  BY <1>1, <1>2, <2>1, ForkInOrder, SameLocks, SteadyOrderly DEF Moved
<1> QED  BY <1>3, <1>4 DEF ClaimTarget

LEMMA LockEarlierKept ==
  ASSUME IInv, SiteAssumption, NEW c \in Calls, LockEarlier(c)
  PROVE  Orderly(c) /\ ScopeStep
<1>1. Typed /\ Verb(c) = "fork" /\ Earlier(c) \in Names
  BY Facts DEF LockEarlier, At, InCourse
<1>2. asks' = asks /\ cleanup' = cleanup /\ active' = active /\ sess' = sess
  BY DEF LockEarlier
<1>3. Moved(c, "second", call[c].at)
  BY <1>1, GotoMoves DEF LockEarlier, Steps
<1>4. Locks(c) /\ lock'[Earlier(c)] = c
  BY <1>1, HoldLocks DEF LockEarlier
<1> QED  BY <1>1, <1>2, <1>3, <1>4, ForkInOrder, SameLocks, SteadyOrderly DEF Moved

LEMMA PrepareForkKept ==
  ASSUME IInv, SiteAssumption, NEW c \in Calls, PrepareFork(c)
  PROVE  Orderly(c) /\ ScopeStep
<1> DEFINE s == Source(c)
           t == Target(c)
<1>1. /\ Typed /\ Verb(c) = "fork" /\ s \in Names /\ t \in Names
      /\ Earlier(c) \in Names /\ lock[Earlier(c)] = c /\ call[c] \in CallRecords
  BY Facts DEF PrepareFork, At, InCourse, UnderLock
<1>2. asks' = asks /\ cleanup' = cleanup /\ sess' = sess
  BY DEF PrepareFork
<1>3. Locks(c)
  BY <1>1, UnlockLocks DEF PrepareFork
<1>4. CASE Goto(c, "first") /\ UNCHANGED active
  <2>1. Moved(c, "first", call[c].at)
    BY <1>1, <1>4, GotoMoves DEF Steps
  <2> QED  BY <1>1, <1>2, <1>3, <1>4, <2>1, ForkInOrder, SameLocks, SteadyOrderly DEF Moved
<1>5. CASE Answer(c, "refused") /\ UNCHANGED active
  <2>1. Moved(c, "done", None)
    BY <1>1, <1>5, AnswerMoves DEF Answers
  <2> QED  BY <1>1, <1>2, <1>3, <1>5, <2>1, RestInOrder, SameLocks, SteadyOrderly DEF Moved
<1>6. CASE /\ active[t] = None
           /\ active' = [active EXCEPT ![t] = c]
           /\ call' = [call EXCEPT ![c].pc = "body", ![c].owner = sess[s].owner]
  <2> DEFINE r == [call[c] EXCEPT !.pc = "body", !.owner = sess[s].owner]
  <2>1. sess[s].owner \in Owners \cup {None}
    BY <1>1 DEF Typed, Sessions
  <2>2. r \in CallRecords /\ r.pc = "body"
    BY <1>1, <2>1 DEF CallRecords, Steps
  <2>3. call' = [call EXCEPT ![c] = r]
    BY <1>1, <1>6 DEF Typed, CallRecords
  <2>4. Apart(c) /\ call'[c].pc = "body"
    BY <1>1, <2>2, <2>3, RecordMoves DEF Moved
  <2>5. Turns(c) /\ active'[Name(c)] = c
    BY <1>1, <1>6 DEF Typed, Turns, SiteAssumption, Target, Name
  <2>6. Verb(c) \in Turners
    BY <1>1 DEF Turners
  <2> QED  BY <1>1, <1>2, <1>3, <2>4, <2>5, <2>6, TurnInOrder, SameLocks, SteadyOrderly
<1> QED  BY <1>4, <1>5, <1>6 DEF PrepareFork

-----------------------------------------------------------------------------
(* Account routes. *)

\* A call between two visits, or waiting for a turn under its lock
LEMMA VisitInOrder ==
  ASSUME NEW c \in Calls, asks' = asks, Verb(c) \in RouteVerbs \cup {"purge"},
         \/ call'[c].pc = "visit"
         \/ /\ call'[c].pc = "drain" /\ call'[c].at \in Names
            /\ lock'[call'[c].at] = c
  PROVE  InOrder(c)'
<1>1. Verb(c)' = Verb(c) /\ Verb(c) \notin Turners \cup {"stop"}
  BY DEF Verb, Turners, TurnVerbs, RouteVerbs
<1> QED  BY <1>1 DEF InOrder, InCourse, InTurn, UnderLock, Drained

LEMMA LeaveMoves ==
  ASSUME Typed, NEW c \in Calls, NEW answer \in Answers, Leave(c, answer)
  PROVE  Moved(c, "done", None)
BY AnswerMoves DEF Leave

\* The fence: names are adopted, and the scope is no longer open.
LEMMA BeginRouteKept ==
  ASSUME IInv, NEW c \in Calls, BeginRoute(c)
  PROVE  Orderly(c) /\ ScopeStep
<1> DEFINE o == Owner(c)
<1>1. /\ Typed /\ Verb(c) \in RouteVerbs /\ o \in Owners /\ asks[c].key \in Keys
      /\ call[c] \in CallRecords
  BY Facts DEF BeginRoute
<1>2. asks' = asks /\ lock' = lock /\ active' = active
  BY DEF BeginRoute, manager
<1>3. CASE Answer(c, "refused") /\ UNCHANGED <<sess, cleanup, routes>>
  <2>1. Moved(c, "done", None)
    BY <1>1, <1>3, AnswerMoves DEF Answers
  <2> QED  BY <1>1, <1>2, <1>3, <2>1, RestInOrder, SameLocks, SteadyOrderly DEF Moved
<1>4. ASSUME NEW next \in Scopes, NEW todo \in SUBSET Names,
             next = "purged" => cleanup[o].state = "purged",
             sess' = [n \in Names |-> IF n \in asks[c].adopts
                                      THEN [sess[n] EXCEPT !.owner = o] ELSE sess[n]],
             cleanup' = [cleanup EXCEPT ![o] = [state |-> next, key |-> asks[c].key]],
             call' = [call EXCEPT ![c].pc = "visit", ![c].todo = todo]
      PROVE  Orderly(c) /\ ScopeStep
  <2> DEFINE r == [call[c] EXCEPT !.pc = "visit", !.todo = todo]
  <2>1. r \in CallRecords /\ r.pc = "visit"
    BY <1>1 DEF CallRecords, Steps
  <2>2. call' = [call EXCEPT ![c] = r]
    BY <1>1, <1>4 DEF Typed, CallRecords
  <2>3. Apart(c) /\ call'[c].pc = "visit"
    BY <1>1, <2>1, <2>2, RecordMoves DEF Moved
  <2>4. \A n \in Names : /\ [sess[n] EXCEPT !.owner = o] \in Sessions
                         /\ [sess[n] EXCEPT !.owner = o].state = sess[n].state
    BY <1>1 DEF Typed, Sessions
  <2>5. Steady
    BY <1>1, <1>4, <2>4 DEF Typed, Steady, Present
  <2>6. /\ cleanup' \in [Owners -> [state : Scopes, key : Keys]]
        /\ \A p \in Owners : cleanup'[p].state = "purged" => cleanup[p].state = "purged"
    BY <1>1, <1>4 DEF Typed
  <2>7. Protects(c) /\ ScopeStep
    BY <2>5, <2>6 DEF Steady, Protects, ScopeStep
  <2>8. InOrder(c)'
    BY <1>1, <1>2, <2>3, VisitInOrder
  <2> QED  BY <1>1, <1>2, <2>3, <2>6, <2>7, <2>8, SameLocks DEF Orderly
<1>5. CASE ~(Answer(c, "refused") /\ UNCHANGED <<sess, cleanup, routes>>)
  <2>1. PICK next, todo :
          /\ next = (CASE Verb(c) = "purgeOwner" /\ cleanup[o].state # "purged" -> "purging"
                       [] cleanup[o].state = "none" -> "quiesced"
                       [] OTHER -> cleanup[o].state)
          /\ todo \in SUBSET Names
          /\ sess' = [n \in Names |-> IF n \in asks[c].adopts
                                      THEN [sess[n] EXCEPT !.owner = o] ELSE sess[n]]
          /\ cleanup' = [cleanup EXCEPT ![o] = [state |-> next, key |-> asks[c].key]]
          /\ call' = [call EXCEPT ![c].pc = "visit", ![c].todo = todo]
    BY <1>5 DEF BeginRoute
  <2>2. cleanup[o].state \in Scopes
    BY <1>1 DEF Typed
  <2>3. next \in Scopes /\ (next = "purged" => cleanup[o].state = "purged")
    BY <2>1, <2>2 DEF Scopes
  <2> QED  BY <1>4, <2>1, <2>3
<1> QED  BY <1>3, <1>5

LEMMA PurgeKept ==
  ASSUME IInv, NEW c \in Calls, Purge(c)
  PROVE  Orderly(c) /\ ScopeStep
<1>1. Typed /\ Verb(c) = "purge" /\ Name(c) \in Names /\ call[c] \in CallRecords
  BY Facts DEF Purge, RouteVerbs
<1>2. /\ asks' = asks /\ cleanup' = cleanup /\ lock' = lock /\ active' = active
      /\ sess' = sess
  BY DEF Purge, manager
<1>3. Apart(c) /\ call'[c].pc = "visit"
  <2> DEFINE r == [call[c] EXCEPT !.pc = "visit", !.todo = {Name(c)}]
  <2>1. r \in CallRecords /\ r.pc = "visit"
    BY <1>1 DEF CallRecords, Steps
  <2>2. call' = [call EXCEPT ![c] = r]
    BY <1>1 DEF Purge, Typed, CallRecords
  <2> QED  BY <1>1, <2>1, <2>2, RecordMoves DEF Moved
<1> QED  BY <1>1, <1>2, <1>3, VisitInOrder, SameLocks, SteadyOrderly

LEMMA FenceSteady ==
  ASSUME Typed, NEW n \in Names, NEW fence \in Fences, NEW epoch \in BOOLEAN,
         sess' = [sess EXCEPT ![n].fence = fence, ![n].epoch = epoch]
         \/ sess' = [sess EXCEPT ![n].fence = fence]
  PROVE  Steady
<1> DEFINE r == [sess[n] EXCEPT !.fence = fence, !.epoch = epoch]
           x == [sess[n] EXCEPT !.fence = fence]
<1>1. /\ r \in Sessions /\ r.state = sess[n].state
      /\ x \in Sessions /\ x.state = sess[n].state
  <2>1. sess[n] \in Sessions
    BY DEF Typed
  <2> QED  BY <2>1 DEF Sessions
<1>2. sess' = [sess EXCEPT ![n].fence = fence, ![n].epoch = epoch]
      => sess' = [sess EXCEPT ![n] = r]
  BY DEF Typed, Sessions
<1>3. sess' = [sess EXCEPT ![n].fence = fence] => sess' = [sess EXCEPT ![n] = x]
  OBVIOUS
<1> HIDE DEF r, x
<1> QED  BY <1>1, <1>2, <1>3, EditSteady DEF Present

LEMMA VisitKept ==
  ASSUME IInv, SiteAssumption, NEW c \in Calls, Visit(c)
  PROVE  Orderly(c) /\ ScopeStep
<1>1. /\ Typed /\ Verb(c) \in RouteVerbs \cup {"purge"} /\ call[c] \in CallRecords
  BY Facts DEF Visit, At, InCourse
<1>2. asks' = asks /\ cleanup' = cleanup /\ active' = active
  BY DEF Visit
<1>3. PICK n \in call[c].todo :
        /\ Free(n)
        /\ \/ /\ sess' = [sess EXCEPT ![n].fence = "none"]
              /\ call' = [call EXCEPT ![c].todo = @ \ {n}]
              /\ UNCHANGED lock
           \/ Leave(c, "failed") /\ UNCHANGED <<sess, lock>>
           \/ /\ sess' = [sess EXCEPT ![n].fence = "external", ![n].epoch = TRUE]
              /\ call' = [call EXCEPT ![c].todo = @ \ {n}]
              /\ UNCHANGED lock
           \/ /\ \/ sess' = [sess EXCEPT ![n].fence = IF @ = "none" THEN "purge" ELSE @]
                 \/ sess' = [sess EXCEPT ![n].fence = "external", ![n].epoch = TRUE]
              /\ Hold(c, n)
              /\ call' = [call EXCEPT ![c].pc = "drain", ![c].at = n]
  BY DEF Visit
<1>4. n \in Names /\ call[c].pc = "visit"
  BY <1>1 DEF CallRecords, Visit, At
<1>5. Steady
  <2>1. sess[n].fence \in Fences /\ {"none", "purge", "external"} \subseteq Fences
    BY <1>1, <1>4 DEF Typed, Sessions, Fences
  <2>2. \/ \E fence \in Fences : sess' = [sess EXCEPT ![n].fence = fence]
        \/ sess' = [sess EXCEPT ![n].fence = "external", ![n].epoch = TRUE]
        \/ UNCHANGED sess
    BY <1>3, <2>1
  <2> QED  BY <1>1, <1>4, <2>1, <2>2, FenceSteady, SameLocks
<1>6. CASE call' = [call EXCEPT ![c].todo = @ \ {n}] /\ UNCHANGED lock
  <2> DEFINE r == [call[c] EXCEPT !.todo = @ \ {n}]
  <2>1. r \in CallRecords /\ r.pc = "visit"
    BY <1>1, <1>4 DEF CallRecords
  <2>2. call' = [call EXCEPT ![c] = r]
    BY <1>1, <1>6 DEF Typed, CallRecords
  <2>3. Apart(c) /\ call'[c].pc = "visit"
    BY <1>1, <2>1, <2>2, RecordMoves DEF Moved
  <2> QED  BY <1>1, <1>2, <1>5, <1>6, <2>3, VisitInOrder, SameLocks, SteadyOrderly
<1>7. CASE Leave(c, "failed") /\ UNCHANGED lock
  <2>1. Moved(c, "done", None)
    BY <1>1, <1>7, LeaveMoves DEF Answers
  <2> QED  BY <1>1, <1>2, <1>5, <1>7, <2>1, RestInOrder, SameLocks, SteadyOrderly DEF Moved
<1>8. CASE Hold(c, n) /\ call' = [call EXCEPT ![c].pc = "drain", ![c].at = n]
  <2> DEFINE r == [call[c] EXCEPT !.pc = "drain", !.at = n]
  <2>1. r \in CallRecords /\ r.pc = "drain" /\ r.at = n
    BY <1>1, <1>4 DEF CallRecords, Steps
  <2>2. call' = [call EXCEPT ![c] = r]
    BY <1>1, <1>8 DEF Typed, CallRecords
  <2>3. Apart(c) /\ call'[c].pc = "drain" /\ call'[c].at = n
    BY <1>1, <2>1, <2>2, RecordMoves DEF Moved
  <2>4. Locks(c) /\ lock'[n] = c
    BY <1>1, <1>3, <1>4, <1>8, HoldLocks
  <2>5. InOrder(c)'
    BY <1>1, <1>2, <1>4, <2>3, <2>4, VisitInOrder
  <2> QED  BY <1>1, <1>2, <1>5, <2>3, <2>4, <2>5, SameLocks, SteadyOrderly
<1> QED  BY <1>3, <1>6, <1>7, <1>8

\* The one removal: the session is under the call's lock and in nobody's turn.
LEMMA ClosedKept ==
  ASSUME IInv, SiteAssumption, NEW c \in Calls, Closed(c)
  PROVE  Orderly(c) /\ ScopeStep
<1>1. PICK n \in Names : n = call[c].at /\ lock[n] = c
  BY Facts DEF Closed, At, UnderLock, Drained
<1>2. /\ Typed /\ Verb(c) \in RouteVerbs \cup {"purge"} /\ call[c] \in CallRecords
      /\ active[n] = None
  BY <1>1, Facts DEF Closed, At, InCourse
<1>3. asks' = asks /\ cleanup' = cleanup /\ active' = active
  BY DEF Closed
<1>4. Locks(c)
  BY <1>1, <1>2, UnlockLocks DEF Closed
<1>5. CASE Leave(c, "failed") /\ UNCHANGED sess
  <2>1. Moved(c, "done", None)
    BY <1>2, <1>5, LeaveMoves DEF Answers
  <2> QED  BY <1>2, <1>3, <1>4, <1>5, <2>1, RestInOrder, SameLocks, SteadyOrderly DEF Moved
<1>6. CASE /\ \/ sess' = [sess EXCEPT ![n].state = "absent", ![n].focus = FALSE,
                                      ![n].fence = IF @ = "purge" THEN "none" ELSE @]
              \/ sess' = [sess EXCEPT ![n].state = IF Present(n) THEN "ended" ELSE @,
                                      ![n].focus = FALSE]
           /\ call' = [call EXCEPT ![c].pc = "visit", ![c].at = None, ![c].todo = @ \ {n}]
  <2> DEFINE r == [call[c] EXCEPT !.pc = "visit", !.at = None, !.todo = @ \ {n}]
             gone == [sess[n] EXCEPT !.state = "absent", !.focus = FALSE,
                                     !.fence = IF @ = "purge" THEN "none" ELSE @]
             ended == [sess[n] EXCEPT !.state = IF Present(n) THEN "ended" ELSE @,
                                      !.focus = FALSE]
  <2>1. r \in CallRecords /\ r.pc = "visit"
    BY <1>2 DEF CallRecords, Steps
  <2>2. call' = [call EXCEPT ![c] = r]
    BY <1>2, <1>6 DEF Typed, CallRecords
  <2>3. Apart(c) /\ call'[c].pc = "visit"
    BY <1>2, <2>1, <2>2, RecordMoves DEF Moved
  <2>4. InOrder(c)'
    BY <1>2, <1>3, <2>3, VisitInOrder
  <2>5. sess[n] \in Sessions
    BY <1>2 DEF Typed
  <2>6. /\ gone \in Sessions /\ gone.state = "absent"
        /\ ended \in Sessions /\ (ended.state = "absent" <=> ~Present(n))
    BY <2>5 DEF Sessions, SessionStates, Fences, Present
  <2>7. sess' = [sess EXCEPT ![n] = gone] \/ sess' = [sess EXCEPT ![n] = ended]
    BY <1>2, <1>6, <2>5 DEF Typed, Sessions
  <2> HIDE DEF gone, ended
  <2>8. CASE sess' = [sess EXCEPT ![n] = ended]
    <3>1. Steady
      BY <1>2, <2>6, <2>8, EditSteady
    <3> QED  BY <1>2, <1>3, <1>4, <2>3, <2>4, <3>1, SameLocks, SteadyOrderly
  <2>9. CASE sess' = [sess EXCEPT ![n] = gone]
    <3>1. /\ sess' \in [Names -> Sessions] /\ sess'[n].state = "absent"
          /\ \A m \in Names \ {n} : sess'[m] = sess[m]
      BY <1>2, <2>6, <2>9 DEF Typed
    <3>2. Protects(c)
      BY <1>1, <1>2, <3>1 DEF Protects, Present, SiteAssumption
    <3>3. ScopeStep
      BY <1>3, <3>1 DEF ScopeStep, Present
    <3> QED  BY <1>2, <1>3, <1>4, <2>3, <2>4, <3>2, <3>3, SameLocks DEF Orderly, Typed
  <2> QED  BY <2>7, <2>8, <2>9
<1> QED  BY <1>1, <1>5, <1>6 DEF Closed

LEMMA EndVisitsKept ==
  ASSUME IInv, NEW c \in Calls, EndVisits(c)
  PROVE  Orderly(c) /\ ScopeStep
<1>1. Typed
  BY Facts
<1>2. asks' = asks /\ lock' = lock /\ active' = active /\ sess' = sess
  BY DEF EndVisits, manager
<1>3. Moved(c, "done", None)
  BY <1>1, LeaveMoves DEF EndVisits, Answers
<1>4. CASE UNCHANGED cleanup
  BY <1>1, <1>2, <1>3, <1>4, RestInOrder, SameLocks, SteadyOrderly DEF Moved
<1>5. CASE /\ Verb(c) = "purgeOwner" /\ Owned(Owner(c)) = {}
           /\ cleanup' = [cleanup EXCEPT ![Owner(c)].state = "purged"]
  <2>1. Owner(c) \in Owners
    BY <1>5, Facts DEF RouteVerbs
  <2>2. /\ cleanup' \in [Owners -> [state : Scopes, key : Keys]]
        /\ \A o \in Owners \ {Owner(c)} : cleanup'[o] = cleanup[o]
    BY <1>1, <1>5, <2>1 DEF Typed, Scopes
  <2>3. Steady
    BY <1>1, <1>2, SameLocks
  <2>4. Protects(c)
    BY <2>3 DEF Steady, Protects
  <2>5. ScopeStep
    BY <1>5, <2>2, <2>3 DEF Steady, ScopeStep
  <2> QED  BY <1>1, <1>2, <1>3, <2>2, <2>4, <2>5, RestInOrder, SameLocks DEF Orderly, Moved
<1> QED  BY <1>4, <1>5 DEF EndVisits

-----------------------------------------------------------------------------
(* The theorem. *)

LEMMA StepKept ==
  ASSUME IInv, SiteAssumption, NEW c \in Calls, Step(c)
  PROVE  IInv' /\ ScopeStep
<1>1. ASSUME TurnSteps(c) PROVE Orderly(c) /\ ScopeStep
  BY <1>1, AdmitTurnKept, BeginKept, PublishKept, FinishTurnKept, FailStartKept,
     ReleaseTurnKept DEF TurnSteps
<1>2. ASSUME CapacitySteps(c) PROVE Orderly(c) /\ ScopeStep
  BY <1>2, AdmitKept, EvictKept, EvictedKept DEF CapacitySteps
<1>3. ASSUME VerbSteps(c) PROVE Orderly(c) /\ ScopeStep
  BY <1>3, ResumeKept, RelockKept, ResumedKept, SuspendKept, SuspendedKept, FocusKept,
     StopKept, StoppedKept, DrainExpiresKept DEF VerbSteps
<1>4. ASSUME ForkSteps(c) PROVE Orderly(c) /\ ScopeStep
  BY <1>4, ClaimTargetKept, LockEarlierKept, PrepareForkKept DEF ForkSteps
<1>5. ASSUME RouteSteps(c) PROVE Orderly(c) /\ ScopeStep
  BY <1>5, BeginRouteKept, PurgeKept, VisitKept, ClosedKept, EndVisitsKept DEF RouteSteps
<1> QED  BY <1>1, <1>2, <1>3, <1>4, <1>5, OrderKept DEF Step

LEMMA LeaseKept ==
  ASSUME IInv, NEW n \in Names, LeaseExpires(n)
  PROVE  IInv' /\ ScopeStep
<1>1. Steady
  BY FocusSteady DEF IInv, LeaseExpires
<1>2. UNCHANGED <<asks, cleanup, lock, active, call>>
  BY DEF LeaseExpires, manager
<1>3. ASSUME NEW c \in Calls PROVE InOrder(c)'
  <2>1. /\ Verb(c)' = Verb(c) /\ Name(c)' = Name(c) /\ Earlier(c)' = Earlier(c)
        /\ Victim(c)' = Victim(c) /\ Drained(c)' = Drained(c)
    BY <1>2 DEF Verb, Name, Earlier, Source, Target, Victim, Drained
  <2>2. InCourse(c) /\ InTurn(c) /\ UnderLock(c)
    BY Facts
  <2>3. /\ call[c].pc \in {"run", "failing"} => Name(c) \in Names
        /\ call[c].pc = "connect" => Name(c) \in Names
    BY Facts DEF InCourse, Turners, TurnVerbs, RouteVerbs
  <2> QED  BY <1>1, <1>2, <2>1, <2>2, <2>3 DEF Steady, InOrder, InCourse, InTurn, UnderLock
<1> QED  BY <1>1, <1>2, <1>3 DEF IInv, Typed, Steady, ScopeStep

LEMMA Inductive ==
  ASSUME SiteAssumption
  PROVE  (Init => IInv) /\ (IInv /\ [Next]_vars => IInv' /\ (ScopeStep \/ UNCHANGED vars))
<1>1. ASSUME Init PROVE IInv
  <2>1. Typed
    BY <1>1 DEF Init, Typed, SiteAssumption, NoCleanup, Scopes, Keys, NoCall, CallRecords,
                Steps, Answers
  <2>2. \A c \in Calls : call[c].pc = "new"
    BY <1>1 DEF Init, NoCall
  <2> QED  BY <2>1, <2>2 DEF IInv, InOrder, InCourse, InTurn, UnderLock
<1>2. ASSUME IInv, UNCHANGED vars PROVE IInv'
  BY <1>2 DEF vars, IInv, Typed, InOrder, InCourse, InTurn, UnderLock, Verb, Name, Earlier,
              Source, Target, Victim, Drained, Present
<1> QED  BY <1>1, <1>2, StepKept, LeaseKept DEF Next

\* Once the cleanup of an owner has begun no session of the owner comes into being,
\* and a scope is purged only when none is left, whatever the number of sessions,
\* owners and requests (ScopeStaysClosed, the closed scopes of store.ts).
THEOREM ScopeClosed == Spec => ScopeStaysClosed
<1>1. Init => IInv
  BY SiteAssumption, Inductive
<1>2. IInv /\ [Next]_vars => IInv'
  BY SiteAssumption, Inductive
<1>3. IInv /\ [Next]_vars => [ScopeStep]_vars
  BY SiteAssumption, Inductive
<1> QED  BY <1>1, <1>2, <1>3, PTL DEF Spec, ScopeStaysClosed, ScopeStep

=============================================================================
