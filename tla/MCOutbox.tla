------------------------------ MODULE MCOutbox ------------------------------
(***************************************************************************)
(* An instance of Outbox for TLC: two events, in the order they occurred.   *)
(***************************************************************************)
EXTENDS Outbox, TLC

CONSTANTS e1, e2, q1, q2

Times2 == (e1 :> 1) @@ (e2 :> 2)
=============================================================================
