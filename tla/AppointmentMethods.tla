------------------------- MODULE AppointmentMethods -------------------------
(***************************************************************************)
(* One appointment and every sequence of calls of its methods, as a handler *)
(* per method would make them.  Most methods have no handler yet: Booking  *)
(* has the ones that do.                                                   *)
(***************************************************************************)
EXTENDS AppointmentAggregate

CONSTANTS
  Slots,   \* the slots asked for: [master, bay, start, stop]
  Works,   \* minutes of service of an appointment
  NoAppt

VARIABLE appt

Appt == [status : Statuses, master : {s.master : s \in Slots}, bay : {s.bay : s \in Slots},
         start : {s.start : s \in Slots}, stop : {s.stop : s \in Slots},
         minutes : Works, request : Requested]

TypeOK == appt \in Appt \cup {NoAppt}

Init == appt = NoAppt

Exists == appt # NoAppt

CreateAppointment ==
  /\ ~Exists
  /\ \E slot \in Slots, minutes \in Works, guest \in BOOLEAN :
       /\ FitsServices(slot, minutes)
       /\ appt' = Create(slot, minutes, guest)

Confirm    == Exists /\ CanGo(appt, "CONFIRMED")   /\ appt' = Go(appt, "CONFIRMED")
StartWork  == Exists /\ CanGo(appt, "IN_PROGRESS") /\ appt' = Go(appt, "IN_PROGRESS")
Complete   == Exists /\ CanGo(appt, "COMPLETED")   /\ appt' = Go(appt, "COMPLETED")
MarkNoShow == Exists /\ CanGo(appt, "NO_SHOW")     /\ appt' = Go(appt, "NO_SHOW")
Cancel     == Exists /\ CanCancel(appt)            /\ appt' = Go(appt, "CANCELLED")

Move ==
  /\ Exists
  /\ \E slot \in Slots : CanReschedule(appt, slot) /\ appt' = Reschedule(appt, slot)

Ask     == Exists /\ CanRequestCancellation(appt) /\ appt' = RequestCancellation(appt)
Approve == Exists /\ CanDecide(appt) /\ appt' = ApproveCancellation(appt)
Reject  == Exists /\ CanDecide(appt) /\ appt' = RejectCancellation(appt)

Next == \/ CreateAppointment \/ Confirm \/ Move \/ Cancel \/ Ask \/ Approve \/ Reject
        \/ StartWork \/ Complete \/ MarkNoShow

Spec == Init /\ [][Next]_appt

(***************************************************************************)
(* Properties.                                                             *)
(***************************************************************************)
\* A cancellation once granted has taken effect, whatever is called before it is
\* decided (the visit started, the visit over) and after.
ApprovedIsCancelled == Exists /\ appt.request = "APPROVED" => appt.status = "CANCELLED"

=============================================================================
