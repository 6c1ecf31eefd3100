--------------------------- MODULE OrderLifecycle ---------------------------
(***************************************************************************)
(* What a client of a work order is promised about its status: it moves     *)
(* along the documented transitions only (product.md FR-5.6.3, ADR-0015),   *)
(* every move raises the version, and nothing moves a cancelled order.      *)
(* Where a whole request is one transaction the step from work to CLOSED    *)
(* is a single one, through a CLOSING nobody sees.                          *)
(***************************************************************************)
EXTENDS Integers

CONSTANT InitStatuses

VARIABLES status, version

Moves(s) ==
  CASE s = "NONE"            -> {"OPEN"}
    [] s = "OPEN"            -> {"IN_PROGRESS", "CANCELLED"}
    [] s = "IN_PROGRESS"     -> {"AWAITING_REVIEW", "CLOSING", "CLOSED", "CANCELLED"}
    [] s = "AWAITING_REVIEW" -> {"IN_PROGRESS", "CLOSING", "CLOSED", "CANCELLED"}
    [] s = "CLOSING"         -> {"CLOSED", "IN_PROGRESS", "CANCELLED"}
    [] s = "CLOSED"          -> {"IN_PROGRESS"}
    [] OTHER                 -> {}

Init == status \in InitStatuses /\ version = 1

\* The row is inserted with version 1.
Open == status = "NONE" /\ status' = "OPEN" /\ version' = version

Move ==
  /\ status # "NONE"
  /\ status' \in Moves(status)
  /\ version' = IF status \in {"IN_PROGRESS", "AWAITING_REVIEW"} /\ status' = "CLOSED"
                  THEN version + 2 ELSE version + 1

Next == Open \/ Move

Spec == Init /\ [][Next]_<<status, version>>
=============================================================================
