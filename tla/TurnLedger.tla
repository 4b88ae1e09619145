----------------------------- MODULE TurnLedger -----------------------------
(***************************************************************************)
(* What AcpxSessionManager promises about the turn keys of a session name, *)
(* whatever its clients, its operator and its crashes do: a claimed key    *)
(* dispatches at most one piece of provider work, its verdict is reached   *)
(* once and kept, the keys of a name take their turns one at a time, and   *)
(* they are forgotten together, when nothing dispatched still runs.        *)
(***************************************************************************)
CONSTANT Keys

VARIABLES
    status,      \* of each key: "free", "running" or "settled"
    dispatched,  \* the keys whose work was handed to a provider
    live         \* the keys whose work a provider is doing now

vars == <<status, dispatched, live>>

Init ==
    /\ status = [k \in Keys |-> "free"]
    /\ dispatched = {}
    /\ live = {}

Claim(k) ==
    /\ status[k] = "free"
    /\ \A other \in Keys : status[other] # "running"
    /\ status' = [status EXCEPT ![k] = "running"]
    /\ UNCHANGED <<dispatched, live>>

\* Reconnecting takes the same work up again; it is not a second dispatch.
Dispatch(k) ==
    /\ status[k] = "running"
    /\ live' = live \cup {k}
    /\ dispatched' = dispatched \cup {k}
    /\ UNCHANGED status

WorkEnds(k) ==
    /\ k \in live
    /\ live' = live \ {k}
    /\ UNCHANGED <<status, dispatched>>

Settle(k) ==
    /\ status[k] = "running"
    /\ status' = [status EXCEPT ![k] = "settled"]
    /\ UNCHANGED <<dispatched, live>>

Forget ==
    /\ live = {}
    /\ status' = [k \in Keys |-> "free"]
    /\ dispatched' = {}
    /\ UNCHANGED live

Next ==
    \/ Forget
    \/ \E k \in Keys : Claim(k) \/ Dispatch(k) \/ WorkEnds(k) \/ Settle(k)

Spec == Init /\ [][Next]_vars
=============================================================================
