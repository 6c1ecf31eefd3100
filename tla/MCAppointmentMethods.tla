------------------------ MODULE MCAppointmentMethods ------------------------
(***************************************************************************)
(* Slots of two to four minutes for AppointmentMethods.                    *)
(***************************************************************************)
EXTENDS AppointmentMethods

CONSTANTS m1, m2, NoBay

ShortSlots ==
  {s \in [master : {m1, m2}, bay : {NoBay}, start : 1..3, stop : 3..6] :
     s.stop - s.start \in 2..4}
=============================================================================
