------------------------ MODULE MCSessionLifecycle ------------------------
(***************************************************************************)
(* Instances of SessionLifecycle for TLC: who asks for what under which    *)
(* key.                                                                    *)
(***************************************************************************)
EXTENDS SessionLifecycle, TLC

CONSTANTS r1, r2, k1, k2, p1, p2

\* Two clients (or one retrying) send the same keyed request.
SameKey == (r1 :> k1) @@ (r2 :> k1)
SamePrint == (r1 :> p1) @@ (r2 :> p1)
BothStart == (r1 :> "start") @@ (r2 :> "start")

\* An unkeyed start and an unkeyed send.
NoKeys == (r1 :> None) @@ (r2 :> None)
StartThenSend == (r1 :> "start") @@ (r2 :> "send")

\* A keyed start, then another key.
TwoKeys == (r1 :> k1) @@ (r2 :> k2)
===========================================================================
