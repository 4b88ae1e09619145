--------------------------- MODULE MCSiteSessions ---------------------------
(* Three names on a daemon with room for one connected session, and four calls *)
(* at once.                                                                    *)
EXTENDS SiteSessions, TLC

CONSTANTS c1, c2, c3, c4, o1, o2

MCCalls == {c1, c2, c3, c4}

Ask(verb, name) ==
    [verb |-> verb, name |-> name, source |-> None, owner |-> None, key |-> "k1",
     adopts |-> {}, knows |-> FALSE]
For(owner, ask) == [ask EXCEPT !.owner = owner]
Fork(source, target) == [Ask("fork", target) EXCEPT !.source = source]
Route(verb, owner, adopts) == [For(owner, Ask(verb, None)) EXCEPT !.adopts = adopts]

Knowing(ask) == [ask EXCEPT !.knows = TRUE]

Four(a, b, c, d) == (c1 :> a) @@ (c2 :> b) @@ (c3 :> c) @@ (c4 :> d)

\* Room for a new session while the victim is suspended, stopped and used again.
Rooms == {
    Four(Ask("suspend", 1), Ask("send", 1), Ask("stop", 1), For(o2, Ask("start", 3))),
    Four(For(o1, Ask("start", 1)), Ask("resume", 1), Ask("focus", 1), For(o2, Ask("start", 3))),
    Four(Ask("resume", 2), Ask("suspend", 1), Ask("focus", 3), Ask("stop", 3)) }

\* Forks of one source, towards one target, and across a turn of the source.
Forks == {
    Four(Fork(1, 3), Fork(1, 3), Ask("send", 1), Ask("stop", 1)),
    Four(Fork(2, 1), Fork(1, 3), Ask("send", 2), Ask("stop", 1)) }

\* An account route among the starts, forks and purges of its sessions.
Routes == {
    Four(For(o1, Ask("start", 3)), Ask("send", 1), Ask("resume", 2), Route("purgeOwner", o1, {2})),
    Four(Knowing(Ask("send", 1)), For(o1, Ask("start", 1)), Route("quiesceOwner", o1, {}),
         Route("purgeOwner", o1, {2})),
    Four(Ask("purge", 1), Ask("suspend", 1), Route("quiesceOwner", o1, {}), Fork(1, 3)),
    Four(Ask("purge", 1), Route("purgeOwner", o1, {}), Knowing(Ask("send", 1)), Fork(1, 3)),
    Four(Fork(1, 3), For(o1, Ask("start", 3)), Ask("suspend", 1), Route("purgeOwner", o1, {})),
    Four(For(o1, Ask("start", 3)), Ask("purge", 3), Ask("purge", 3), Ask("stop", 3)),
    Four(Route("purgeOwner", o2, {1}), Route("purgeOwner", o1, {}),
         [Route("quiesceOwner", o1, {}) EXCEPT !.key = "k2"], Ask("send", 2)) }

MCScenarios == Rooms \cup Forks \cup Routes

Session(state, owner) ==
    [state |-> state, owner |-> owner, focus |-> FALSE, fence |-> "none", epoch |-> FALSE]
MCSites ==
    { <<Session("connected", o1), Session("suspended", None), Session("absent", owner)>> :
      owner \in {None, o1} }
    \cup { <<Session("absent", None), Session("connected", o1), Session("ended", o2)>> }
=============================================================================
