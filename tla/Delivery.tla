------------------------------ MODULE Delivery ------------------------------
(***************************************************************************)
(* What the outbox promises about every event (engineering.md 3.5.2,        *)
(* "guaranteed delivery"): once written it is delivered before it counts as *)
(* published, or it is given up in the open; it is never dropped, and an    *)
(* event whose writer did not commit is never delivered.  Delivery is at    *)
(* least once, also after the event was settled.                           *)
(***************************************************************************)
EXTENDS Naturals

CONSTANT Events

VARIABLES outcome, delivered

Outcomes == {"unwritten", "pending", "published", "failed"}

Init ==
  /\ outcome = [e \in Events |-> "unwritten"]
  /\ delivered = [e \in Events |-> 0]

Write(e) ==
  /\ outcome[e] = "unwritten"
  /\ outcome' = [outcome EXCEPT ![e] = "pending"]
  /\ UNCHANGED delivered

Deliver(e) ==
  /\ outcome[e] # "unwritten"
  /\ delivered' = [delivered EXCEPT ![e] = @ + 1]
  /\ UNCHANGED outcome

\* Another process may publish what one has just given up.
Settle(e) ==
  /\ outcome[e] \in {"pending", "failed"}
  /\ delivered[e] > 0
  /\ outcome' = [outcome EXCEPT ![e] = "published"]
  /\ UNCHANGED delivered

GiveUp(e) ==
  /\ outcome[e] = "pending"
  /\ outcome' = [outcome EXCEPT ![e] = "failed"]
  /\ UNCHANGED delivered

Next == \E e \in Events : Write(e) \/ Deliver(e) \/ Settle(e) \/ GiveUp(e)

Spec == Init /\ [][Next]_<<outcome, delivered>>
=============================================================================
