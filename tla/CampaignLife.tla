---------------------------- MODULE CampaignLife ----------------------------
(***************************************************************************)
(* What a campaign promises to those who see nothing but its state: an end *)
(* is final, a cancellation leads nowhere but to "cancelled" or into the   *)
(* hands of an operator, and only an approval takes a campaign past a      *)
(* gate.  Two known weaknesses of the program void the promise; from then  *)
(* on the state is "disturbed".                                            *)
(***************************************************************************)

VARIABLE state

Init == state = "running"

Go(from, to) == state \in from /\ state' \in to

Advance == Go({"running"}, {"waiting_approval", "completed", "failed"})

Approve == Go({"waiting_approval"}, {"running"})

Cancel == Go({"running", "waiting_approval"}, {"cancelling"})

Confirm == Go({"cancelling"}, {"cancelled"})

HandOver == Go({"running", "cancelling"}, {"recovery_required"})

Disturb == Go({"running", "cancelling", "cancelled", "completed", "failed",
               "waiting_approval", "recovery_required"}, {"disturbed"})

Next == Advance \/ Approve \/ Cancel \/ Confirm \/ HandOver \/ Disturb

Spec == Init /\ [][Next]_state
=============================================================================
