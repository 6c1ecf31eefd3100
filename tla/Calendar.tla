------------------------------ MODULE Calendar ------------------------------
(***************************************************************************)
(* What the scheduling context promises of a branch's calendar: visits are  *)
(* booked, moved while they have not begun, and go through the statuses of *)
(* engineering.md 2.7; two visits that occupy a master or a bay never      *)
(* overlap.                                                                *)
(***************************************************************************)
EXTENDS Integers

CONSTANTS
  Visits,   \* ids
  Spans,    \* [master, bay, start, stop]
  NoBay, NoVisit

VARIABLE booked  \* booked[v]: NoVisit or [status, slot]

Occupying == {"PENDING_CONFIRMATION", "CONFIRMED", "IN_PROGRESS"}

Clash(s, t) ==
  /\ s.master = t.master \/ (s.bay = t.bay /\ s.bay # NoBay)
  /\ s.start < t.stop
  /\ t.start < s.stop

Occupies(v) == booked[v] # NoVisit /\ booked[v].status \in Occupying

FreeFor(v, slot) ==
  \A w \in Visits \ {v} : Occupies(w) => ~Clash(booked[w].slot, slot)

Init == booked = [v \in Visits |-> NoVisit]

Book(v) ==
  /\ booked[v] = NoVisit
  /\ \E slot \in Spans, status \in {"PENDING_CONFIRMATION", "CONFIRMED"} :
       /\ FreeFor(v, slot)
       /\ booked' = [booked EXCEPT ![v] = [status |-> status, slot |-> slot]]

Move(v) ==
  /\ booked[v] # NoVisit
  /\ booked[v].status \in {"PENDING_CONFIRMATION", "CONFIRMED"}
  /\ \E slot \in Spans :
       /\ FreeFor(v, slot)
       /\ booked' = [booked EXCEPT ![v].slot = slot]

Progress(v) ==
  /\ booked[v] # NoVisit
  /\ \/ /\ booked[v].status = "PENDING_CONFIRMATION"
        /\ \E s \in {"CONFIRMED", "CANCELLED"} : booked' = [booked EXCEPT ![v].status = s]
     \/ /\ booked[v].status = "CONFIRMED"
        /\ \E s \in {"IN_PROGRESS", "CANCELLED", "NO_SHOW"} :
             booked' = [booked EXCEPT ![v].status = s]
     \/ /\ booked[v].status = "IN_PROGRESS"
        /\ booked' = [booked EXCEPT ![v].status = "COMPLETED"]

Next == \E v \in Visits : Book(v) \/ Move(v) \/ Progress(v)

Spec == Init /\ [][Next]_booked
=============================================================================
