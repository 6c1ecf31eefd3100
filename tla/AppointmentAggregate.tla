------------------------ MODULE AppointmentAggregate ------------------------
(***************************************************************************)
(* The Appointment aggregate (libs/backend/scheduling/domain): a booking of *)
(* a master, and perhaps a bay, for a span of time.  As in                 *)
(* WorkOrderAggregate a method is a guard and an operator on the record.   *)
(* The services are kept as the minutes they take together.                *)
(***************************************************************************)
EXTENDS Availability

Statuses == {"PENDING_CONFIRMATION", "CONFIRMED", "IN_PROGRESS", "COMPLETED",
             "CANCELLED", "NO_SHOW"}

\* Statuses that occupy the master and the bay.
Active == {"PENDING_CONFIRMATION", "CONFIRMED", "IN_PROGRESS"}

Requested == {"NONE", "PENDING", "APPROVED", "REJECTED"}

AllowedTransitions(s) ==
  CASE s = "PENDING_CONFIRMATION" -> {"CONFIRMED", "CANCELLED"}
    [] s = "CONFIRMED"            -> {"IN_PROGRESS", "CANCELLED", "NO_SHOW"}
    [] s = "IN_PROGRESS"          -> {"COMPLETED"}
    [] OTHER                      -> {}

Overlap(a, b) == a.start < b.stop /\ b.start < a.stop

\* validateSlotDuration
FitsServices(slot, minutes) == slot.stop - slot.start >= minutes * Minute

\* Guests wait for a confirmation.
Create(slot, minutes, guest) ==
  [status  |-> IF guest THEN "PENDING_CONFIRMATION" ELSE "CONFIRMED",
   master  |-> slot.master, bay |-> slot.bay, start |-> slot.start, stop |-> slot.stop,
   minutes |-> minutes, request |-> "NONE"]

CanReschedule(a, slot) ==
  a.status \in {"PENDING_CONFIRMATION", "CONFIRMED"} /\ FitsServices(slot, a.minutes)

Reschedule(a, slot) ==
  [a EXCEPT !.master = slot.master, !.bay = slot.bay,
            !.start = slot.start, !.stop = slot.stop]

CanGo(a, s) == s \in AllowedTransitions(a.status)
Go(a, s)    == [a EXCEPT !.status = s]

CanCancel(a) == a.status \in {"PENDING_CONFIRMATION", "CONFIRMED"}

\* A new request replaces the one there is, decided or not.
CanRequestCancellation(a) == a.status = "CONFIRMED"
RequestCancellation(a)    == [a EXCEPT !.request = "PENDING"]

\* Only the request is looked at, not the status.
CanDecide(a) == a.request = "PENDING"

\* Faulty: only a confirmed visit is cancelled.
ApproveCancellation_IfConfirmed(a) ==
  [a EXCEPT !.request = "APPROVED",
            !.status = IF @ = "CONFIRMED" THEN "CANCELLED" ELSE @]

ApproveCancellation(a) == [a EXCEPT !.request = "APPROVED", !.status = "CANCELLED"]
RejectCancellation(a)  == [a EXCEPT !.request = "REJECTED"]
=============================================================================
