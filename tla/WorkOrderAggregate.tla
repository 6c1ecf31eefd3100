------------------------- MODULE WorkOrderAggregate -------------------------
(***************************************************************************)
(* The WorkOrder aggregate (libs/backend/work-order/domain): the job sheet *)
(* of one car, its consumption lines and its photos, and the methods that  *)
(* change it.  Everything here is a pure operator: a method is a guard     *)
(* CanX(o) (where the code throws, the guard is false) and an operator     *)
(* that returns the order the method leaves behind.                        *)
(*                                                                         *)
(* Quantities are small naturals and a SKU has one unit, so that a norm    *)
(* and an actual amount are always comparable.  A line keeps the sku, the  *)
(* actual quantity, the norm and whether a deviation reason was given.     *)
(***************************************************************************)
EXTENDS Integers, FiniteSets

CONSTANTS
  Lines,      \* ids a consumption line can be given, each used once
  Photos,     \* ids a photo can be given, each used once
  SkuOf,      \* SkuOf[l]: the SKU the line l is about
  NormOf,     \* NormOf[l]: norm of the line l, for the lines drafted at opening
  MaxQty,     \* largest quantity a user enters
  MaxPhotos,  \* MAX_PHOTOS_PER_TYPE, 20 in the code
  NoLine      \* "there is no such line"

Statuses == {"NONE", "OPEN", "IN_PROGRESS", "AWAITING_REVIEW",
             "CLOSING", "CLOSED", "CANCELLED"}

Skus       == {SkuOf[l] : l \in Lines}
NormLines  == DOMAIN NormOf
Quantities == 0..MaxQty

Line  == [sku : Skus, qty : Quantities, norm : Quantities, reason : BOOLEAN]
Order == [status : Statuses, lines : [Lines -> Line \cup {NoLine}],
          before : SUBSET Photos, after : SUBSET Photos]

ASSUME AggregateAssumption ==
  /\ MaxQty \in Nat
  /\ MaxPhotos \in Nat
  /\ NormLines \subseteq Lines
  /\ \A l \in NormLines : NormOf[l] \in Quantities
  /\ NoLine \notin Line

\* There is no row for the appointment yet.
NoOrder == [status |-> "NONE", lines |-> [l \in Lines |-> NoLine],
            before |-> {}, after |-> {}]

LinesOf(o)  == {l \in Lines : o.lines[l] # NoLine}
WrittenOff(o) == {l \in LinesOf(o) : o.lines[l].qty > 0}

(***************************************************************************)
(* Opening, photos and consumption lines.                                  *)
(***************************************************************************)
OpenFromAppointment ==
  [status |-> "OPEN",
   lines  |-> [l \in Lines |->
                 IF l \in NormLines
                   THEN [sku |-> SkuOf[l], qty |-> 0, norm |-> NormOf[l], reason |-> FALSE]
                   ELSE NoLine],
   before |-> {}, after |-> {}]

Editable(o) == o.status \in {"OPEN", "IN_PROGRESS", "AWAITING_REVIEW"}

\* The first fact entered on an open order starts the work.
Started(o) == IF o.status = "OPEN" THEN "IN_PROGRESS" ELSE o.status

\* Faulty: the limit is off by one.
CanAddBefore_OneMore(o) == Editable(o) /\ Cardinality(o.before) <= MaxPhotos

CanAddBefore(o) == Editable(o) /\ Cardinality(o.before) < MaxPhotos
AddBefore(o, f) == [o EXCEPT !.before = @ \cup {f}, !.status = Started(o)]

CanAddAfter(o) == Editable(o) /\ Cardinality(o.after) < MaxPhotos

AddAfter(o, f) == [o EXCEPT !.after = @ \cup {f}, !.status = Started(o)]

CanRemovePhoto(o, f) == Editable(o) /\ f \in o.before \cup o.after

\* Faulty: the second album is not searched.
RemovePhoto_BeforeOnly(o, f) == [o EXCEPT !.before = @ \ {f}]

RemovePhoto(o, f) == [o EXCEPT !.before = @ \ {f}, !.after = @ \ {f}]

\* ConsumptionLine.update: a reason once given stays unless replaced.
Update(line, q, r) == [line EXCEPT !.qty = q, !.reason = @ \/ r]

CanAddConsumption(o) == o.status \in {"OPEN", "IN_PROGRESS"}

\* The line the code updates instead of creating one: any line of that SKU.
LinesOfSku(o, sku) == {l \in LinesOf(o) : o.lines[l].sku = sku}

AddToLine(o, l, q, r) ==
  [o EXCEPT !.lines[l] = Update(@, q, r), !.status = Started(o)]

\* A line outside the norms is created with norm zero.
AddNewLine(o, l, q, r) ==
  [o EXCEPT !.lines[l] = [sku |-> SkuOf[l], qty |-> q, norm |-> 0, reason |-> r],
            !.status = Started(o)]

CanUpdateConsumption(o, l)      == Editable(o) /\ l \in LinesOf(o)
UpdateConsumption(o, l, q, r)   == [o EXCEPT !.lines[l] = Update(@, q, r)]

CanRemoveConsumption(o, l) == Editable(o) /\ l \in LinesOf(o)
RemoveConsumption(o, l)    == [o EXCEPT !.lines[l] = NoLine]

(***************************************************************************)
(* Status changes.                                                         *)
(***************************************************************************)
\* The transition table the methods with assertTransition consult.
AllowedTransitions(s) ==
  CASE s = "OPEN"            -> {"IN_PROGRESS", "CANCELLED"}
    [] s = "IN_PROGRESS"     -> {"AWAITING_REVIEW", "CANCELLED"}
    [] s = "AWAITING_REVIEW" -> {"CLOSING", "IN_PROGRESS", "CANCELLED"}
    [] s = "CLOSING"         -> {"CLOSED", "IN_PROGRESS", "CANCELLED"}
    [] s = "CLOSED"          -> {"IN_PROGRESS"}
    [] OTHER                 -> {}

To(o, s) == [o EXCEPT !.status = s]

CanSubmit(o) == "AWAITING_REVIEW" \in AllowedTransitions(o.status)

CanReturn(o) == /\ "IN_PROGRESS" \in AllowedTransitions(o.status)
                /\ o.status = "AWAITING_REVIEW"

CanReopen(o) == /\ "IN_PROGRESS" \in AllowedTransitions(o.status)
                /\ o.status = "CLOSED"

\* Faulty: a closed order can be cancelled too.
CanCancel_Closed(o) == o.status # "CANCELLED" /\ o.status # "NONE"

CanCancel(o) == o.status \in {"OPEN", "IN_PROGRESS", "AWAITING_REVIEW", "CLOSING"}

\* NormDeviationCalculator: more than 15 per cent off the norm, or anything
\* at all where the norm is zero.
Exceeds(line) ==
  IF line.norm = 0 THEN line.qty > 0
  ELSE LET off == IF line.qty > line.norm THEN line.qty - line.norm
                                          ELSE line.norm - line.qty
       IN  100 * off > 15 * line.norm

\* ClosingValidator.validate finds nothing.  Its NEGATIVE_QUANTITY branch is
\* out of reach: Quantity.of rejects a negative amount before.
ClosingValid(o) ==
  /\ o.before # {}
  /\ o.after # {}
  /\ \A l \in LinesOf(o) : Exceeds(o.lines[l]) => o.lines[l].reason

CanStartClosing(o) == /\ o.status \in {"IN_PROGRESS", "AWAITING_REVIEW"}
                      /\ ClosingValid(o)
=============================================================================
