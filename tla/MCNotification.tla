--------------------------- MODULE MCNotification ---------------------------
(***************************************************************************)
(* The event of the first notification is delivered up to twice, that of   *)
(* the second never: both must settle.                                     *)
(***************************************************************************)
EXTENDS Notification

TwiceOnce == [n \in Ids |-> IF n = 1 THEN 2 ELSE 0]
=============================================================================
