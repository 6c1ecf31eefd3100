--------------------------- MODULE StockAggregate ---------------------------
(***************************************************************************)
(* The Stock aggregate of the inventory context: the batches of one SKU in *)
(* one branch, and what its methods make of them.  Costs, units, suppliers *)
(* and the stock's own events are left out.                                *)
(***************************************************************************)
EXTENDS Integers, FiniteSets, FiniteSetsExt, SequencesExt

CONSTANTS
  Docs,      \* documents; a batch names the receipt it came with
  NoDoc,     \* source of the batches of adjustments and transfers
  Strategy   \* "FEFO" or "FIFO"

ASSUME StrategyAssumption == Strategy \in {"FEFO", "FIFO"} /\ NoDoc \notin Docs

\* Instant that is never reached: the batch has no expiry date.
Never == 1000

Batch == [id : Nat, source : Docs \cup {NoDoc}, remaining : Nat,
          expires : Nat, received : Nat]

NewBatch(id, source, quantity, expires, at) ==
  [id |-> id, source |-> source, remaining |-> quantity,
   expires |-> expires, received |-> at]

Ids(batches) == {b.id : b \in batches}

TotalQuantity(batches) == MapThenSumSet(LAMBDA b : b.remaining, batches)

IsExpired(b, at) == b.expires # Never /\ at >= b.expires

(***************************************************************************)
(* Choosing batches.                                                       *)
(***************************************************************************)
Available(batches, at) == {b \in batches : ~IsExpired(b, at) /\ b.remaining > 0}

\* What each strategy goes by: the date of expiry or the date of receipt.
Sooner(a, b) ==
  IF Strategy = "FEFO" THEN a.expires < b.expires ELSE a.received < b.received

\* Faulty: the comparison of the sort is turned round.
GoesFirst_Last(a, b) == Sooner(b, a) \/ (~Sooner(a, b) /\ a.id < b.id)

\* The order of the sort.  The sort is stable, so equal batches stay in the
\* order the database returned them, which here is that of their ids.
GoesFirst(a, b) ==
  LET keys == IF Strategy = "FEFO"
              THEN <<<<a.expires, b.expires>>, <<a.received, b.received>>, <<a.id, b.id>>>>
              ELSE <<<<a.received, b.received>>, <<a.id, b.id>>>>
  IN  \E i \in DOMAIN keys :
        /\ keys[i][1] < keys[i][2]
        /\ \A j \in 1 .. i - 1 : keys[j][1] = keys[j][2]

\* What a write-off of amount takes from batch b: what is left to take once the
\* batches that go first are used up.  Nothing is refused when the available
\* batches do not suffice.
TakenFrom(batches, b, amount, at) ==
  LET available == Available(batches, at)
      first == TotalQuantity({c \in available : GoesFirst(c, b)})
      left  == amount - first
  IN  IF b \notin available \/ left <= 0 THEN 0
      ELSE IF left < b.remaining THEN left ELSE b.remaining

\* The batches a write-off takes from, and the place of each in the order they go.
Selected(batches, amount, at) == {b \in batches : TakenFrom(batches, b, amount, at) > 0}
Place(chosen, b) == Cardinality({c \in chosen : GoesFirst(c, b)})

(***************************************************************************)
(* The methods.  They return the batches after the call.                   *)
(***************************************************************************)
\* decrement on every allocated batch, then removeDepleted.
WriteOff(batches, amount, at) ==
  {b \in {[b EXCEPT !.remaining = @ - TakenFrom(batches, b, amount, at)] : b \in batches} :
     b.remaining # 0}

CanWriteOff(batches, amount) == amount <= TotalQuantity(batches)

Receive(batches, id, source, quantity, expires, at) ==
  batches \cup {NewBatch(id, source, quantity, expires, at)}

CanAdjust(batches, delta) == delta < 0 => CanWriteOff(batches, -delta)

Adjust(batches, id, delta, at) ==
  IF delta > 0 THEN Receive(batches, id, NoDoc, delta, Never, at)
  ELSE IF delta < 0 THEN WriteOff(batches, -delta, at)
  ELSE batches

\* What transferOut hands over: quantity and expiry of each allocation.
Allocations(batches, amount, at) ==
  LET chosen == Selected(batches, amount, at)
  IN  {[place |-> Place(chosen, b), quantity |-> TakenFrom(batches, b, amount, at),
        expires |-> b.expires] : b \in chosen}

\* A batch for every allocation, with ids from first on.
TransferIn(batches, first, allocations, at) ==
  batches \cup {NewBatch(first + a.place, NoDoc, a.quantity, a.expires, at) : a \in allocations}

RemoveBatchesBySourceDoc(batches, doc) == {b \in batches : b.source # doc}
=============================================================================
