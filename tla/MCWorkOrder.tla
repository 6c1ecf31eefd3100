---------------------------- MODULE MCWorkOrder ----------------------------
(***************************************************************************)
(* Instances of WorkOrder for TLC.  One order, two requests at a time.      *)
(***************************************************************************)
EXTENDS WorkOrder, TLC

CONSTANTS p1, p2, l1, l2, l3, f1, f2, f3

MCProcs == {p1, p2}
MCSym   == Permutations(MCProcs)

\* Two norm lines, of one SKU each, and one id for a line added by the master
\* for the SKU of l2.
MCSku  == [l \in {l1, l2, l3} |-> IF l = l1 THEN "wax" ELSE "foam"]
MCNorm == [l \in {l1} |-> 1]

NoRow == {NoOrder}

WorkCommands == Names \ {"none", "Close", "Reopen", "ReturnToInProgress"}
ClosingCommands == {"Close", "Reopen", "Cancel", "SubmitForReview", "ReturnToInProgress"}
RequestCommands == ClosingCommands \cup {"RemovePhoto"}

\* An order a master has worked on: the norm line consumed as planned, a line
\* of his own with a reason, one photo of each kind.
Worked(s) ==
  [status |-> s,
   lines |-> [l \in Lines |->
     IF l = l1 THEN [sku |-> MCSku[l], qty |-> 1, norm |-> 1, reason |-> FALSE]
     ELSE IF l = l2 THEN [sku |-> MCSku[l], qty |-> 1, norm |-> 0, reason |-> TRUE]
     ELSE NoLine],
   before |-> {f1}, after |-> {f2}]

WorkedOrders == {Worked("IN_PROGRESS"), Worked("AWAITING_REVIEW")}

\* No row yet, or an order in work with nothing entered.
Fresh == {NoOrder, [NoOrder EXCEPT !.status = "IN_PROGRESS"]}
=============================================================================
