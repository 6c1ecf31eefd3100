------------------------------ MODULE Inventory ------------------------------
(***************************************************************************)
(* The inventory context: the commands on its documents (receipts,         *)
(* transfers, adjustments, stock takings) and the event handlers that      *)
(* apply a decided document to the stocks.                                 *)
(*                                                                         *)
(* A command loads a document, works on its copy and saves it together     *)
(* with its event.  The outbox hands every event to its handler at least   *)
(* once, and handlers of several events run at the same time, because the  *)
(* poller does not wait for them.  A handler awaits the idempotency port,  *)
(* every read and every save; each of these is a step.  A handler that     *)
(* throws or dies is given up at the step it is in.                        *)
(*                                                                         *)
(* The ports (idempotency, batch usage, stock snapshot) are modelled by    *)
(* what the application asks of them.                                      *)
(***************************************************************************)
EXTENDS StockAggregate

CONSTANTS
  KindOf,         \* kind of each document
  Skus, Branches,
  NoBranch,       \* the empty branch id
  LineNames,      \* ids of lines; a line of a SKU may be named after it
  Clients,        \* requests being handled at the same time
  Handlers,       \* event handlers running at the same time
  Forms,          \* sequences of lines that receipts and transfers are given
  Changes,        \* sequences of lines that adjustments are given
  Counts,         \* quantities counted in a stock taking
  InitStates      \* [docs, stock, clients, faults] the behaviours start from

VARIABLES
  docs,       \* rows of the documents in play, with their lines
  stock,      \* row and batches of each stock
  outbox,     \* events in the order they were committed
  delivered,  \* how often each event was handed over
  processed,  \* keys marked at the idempotency port
  request,    \* the document a client's command has loaded and changed
  work,       \* state of each event handler
  faults,     \* bound: repeated deliveries and failures that may still occur
  applied,    \* history: how often the effect of a key was saved
  causes,     \* history: what could make the effect of a key be repeated
  booked,     \* history: what the saved documents add up to, per stock
  troubled,   \* history: stocks saved from a stale copy or written off short
  moved       \* history: receipts some batch of which was written off

docVars == <<docs, outbox, request, delivered>>
stockVars == <<stock, booked, troubled, moved>>
vars == <<docs, outbox, request, delivered, processed, work, faults,
          applied, causes, stock, booked, troubled, moved>>

Kinds == {"receipt", "transfer", "adjustment", "taking"}
BranchIds == Branches \cup {NoBranch}
Stocks == Skus \X BranchIds

EventKinds == {"ReceiptPosted", "ReceiptCancelled", "TransferPosted",
               "AdjustmentApproved", "StockTakingPosted"}

\* Keys of the idempotency port: of a line, or of the whole document.
Keys == EventKinds \X Docs \X (Skus \cup {"all"})

NotCounted == -1

\* A line: the quantity is that received, moved, adjusted by or expected; actual
\* is what was counted.
LineRow == [id : LineNames, sku : Skus, qty : Int, expires : Nat,
            actual : Nat \cup {NotCounted}]

Decided == {"POSTED", "CANCELLED", "APPROVED", "REJECTED"}

Row == [status : {"NONE", "DRAFT", "PENDING", "STARTED"} \cup Decided,
        branch : BranchIds, to : BranchIds, lines : Seq(LineRow)]

\* Quantities are not negative, but those of adjustments; a document that is made
\* with lines has some.
QuantityLine == {l \in LineRow : l.qty \in Nat}
RowOf(d) ==
  {r \in Row : /\ KindOf[d] \in {"receipt", "transfer"} => r.lines \in Seq(QuantityLine)
               /\ KindOf[d] \in {"transfer", "adjustment"} /\ r.status # "NONE" => r.lines # <<>>}

ASSUME InventoryAssumption ==
  /\ KindOf \in [Docs -> Kinds]
  /\ IsFiniteSet(Handlers) /\ IsFiniteSet(Skus) /\ IsFiniteSet(Branches)
  /\ Skus \subseteq LineNames /\ "all" \notin Skus
  /\ Forms \subseteq Seq(QuantityLine) /\ Changes \subseteq Seq(LineRow) /\ Counts \subseteq Nat
  /\ \A s \in InitStates :
       /\ DOMAIN s.docs \subseteq Docs /\ s.docs \in [DOMAIN s.docs -> Row]
       /\ \A d \in DOMAIN s.docs : s.docs[d] \in RowOf(d)
       /\ s.stock \in [Stocks -> [row : BOOLEAN, batches : SUBSET Batch]]
       /\ \A k \in Stocks :   \* ids of batches are keys
            /\ IsFiniteSet(s.stock[k].batches)
            /\ \A a, b \in s.stock[k].batches : a.id = b.id => a = b
       /\ s.clients \subseteq Clients /\ s.faults \in Nat

NoRow == [row |-> FALSE, batches |-> {}]
NoCopy == [was |-> NoRow, batches |-> {}]
NoEvent == [kind |-> "none", doc |-> NoDoc]
NoWork == [event |-> NoEvent, stage |-> "idle", todo |-> <<>>, own |-> NoCopy, other |-> NoCopy]
NoRequest == [doc |-> NoDoc]
Stages == {"idle", "look", "reread", "load", "loadTo", "save", "saveTo", "create", "mark"}

Init ==
  /\ \E s \in InitStates :
       /\ docs = s.docs /\ stock = s.stock
       /\ request = [c \in s.clients |-> NoRequest]
       /\ faults = s.faults
  /\ outbox = <<>> /\ delivered = <<>> /\ processed = {}
  /\ work = [h \in Handlers |-> NoWork]
  /\ applied = [k \in Keys |-> 0] /\ causes = [k \in Keys |-> 0]
  /\ booked = [k \in Stocks |-> TotalQuantity(stock[k].batches)]
  /\ troubled = {} /\ moved = {}

(***************************************************************************)
(* Documents.                                                              *)
(***************************************************************************)
\* Time advances with the events.
Now == Len(outbox) + 1

Event(kind, d, row, lines) ==
  [kind |-> kind, doc |-> d, branch |-> row.branch, to |-> row.to,
   lines |-> lines, at |-> Now]

Announce(events) ==
  /\ outbox' = outbox \o events
  /\ delivered' = delivered \o [i \in DOMAIN events |-> 0]

Is(d, kind, status) == KindOf[d] = kind /\ docs[d].status = status

LineIds(lines) == {lines[i].id : i \in DOMAIN lines}

\* A new row; line ids made of document and SKU collide when a SKU repeats.
Insert(d, row, events) ==
  /\ docs' = [docs EXCEPT ![d] = row]
  /\ Announce(events)

Unique(lines) == Cardinality(LineIds(lines)) = Len(lines)

CreateReceipt(d, b) ==
  /\ Is(d, "receipt", "NONE")
  /\ Insert(d, [status |-> "DRAFT", branch |-> b, to |-> b, lines |-> <<>>], <<>>)
  /\ UNCHANGED <<request, processed, work, faults, applied, causes, stockVars>>

CreateTransfer(d, from, to, lines) ==
  /\ Is(d, "transfer", "NONE")
  /\ from # to /\ lines # <<>> /\ Unique(lines)
  /\ Insert(d, [status |-> "DRAFT", branch |-> from, to |-> to, lines |-> lines], <<>>)
  /\ UNCHANGED <<request, processed, work, faults, applied, causes, stockVars>>

\* The first save of an adjustment or a stock taking writes an empty branch
\* over the one just mapped.
Erased(row) == [status |-> row.status, branch |-> NoBranch, to |-> NoBranch,
                lines |-> row.lines]

\* small: the amount is below the threshold up to which nobody has to approve.
InsertAdjustment(d, b, lines, small) ==
  LET row == [status |-> IF small THEN "APPROVED" ELSE "PENDING",
              branch |-> b, to |-> b, lines |-> lines]
  IN  /\ Is(d, "adjustment", "NONE")
      /\ lines # <<>> /\ Unique(lines)
      /\ Insert(d, Erased(row),
                IF small THEN <<Event("AdjustmentApproved", d, row, lines)>> ELSE <<>>)

CreateAdjustment(d, b, lines, small) ==
  /\ InsertAdjustment(d, b, lines, small)
  /\ UNCHANGED <<request, processed, work, faults, applied, causes, stockVars>>

\* The snapshot has a line for every SKU with a stock in the branch.
SnapshotForBranch(b) ==
  LET held == SetToSeq({s \in Skus : stock[<<s, b>>].row})
  IN  [i \in DOMAIN held |->
         [id |-> held[i], sku |-> held[i], qty |-> TotalQuantity(stock[<<held[i], b>>].batches),
          expires |-> Never, actual |-> NotCounted]]

StartStockTaking(d, b) ==
  /\ Is(d, "taking", "NONE")
  /\ Insert(d, Erased([status |-> "STARTED", branch |-> b, to |-> b,
                       lines |-> SnapshotForBranch(b)]), <<>>)
  /\ UNCHANGED <<request, processed, work, faults, applied, causes, stockVars>>

(***************************************************************************)
(* Commands on a loaded document.  The load and the methods are one step,  *)
(* the save is another.                                                    *)
(***************************************************************************)
Begin(c, d, row, events) ==
  /\ request[c] = NoRequest
  /\ request' = [request EXCEPT ![c] =
       [doc |-> d, was |-> docs[d], row |-> row, events |-> events]]
  /\ UNCHANGED <<docs, outbox, delivered, processed, work, faults,
                 applied, causes, stockVars>>

Decide(c, d, status, events) == Begin(c, d, [docs[d] EXCEPT !.status = status], events)

\* The lines of a sequence that are in a set, in their order.
Only(set, lines) ==
  FoldLeft(LAMBDA kept, l : IF l \in set THEN Append(kept, l) ELSE kept, <<>>, lines)

\* Lines that stay are replaced in place, new ones are appended.
UpdatedLines(lines, given) ==
  LET kept == Only({l \in LineRow : l.id \in LineIds(given)}, lines)
      new  == Only({l \in LineRow : l.id \notin LineIds(lines)}, given)
      same(l) == CHOOSE g \in Range(given) : g.id = l.id
  IN  [i \in DOMAIN kept |-> same(kept[i])] \o new

UpdateReceipt(c, d, given) ==
  /\ Is(d, "receipt", "DRAFT")
  /\ Unique(given)
  /\ Begin(c, d, [docs[d] EXCEPT !.lines = UpdatedLines(@, given)], <<>>)

PostReceipt(c, d) ==
  /\ Is(d, "receipt", "DRAFT")
  /\ docs[d].lines # <<>>
  /\ Decide(c, d, "POSTED", <<Event("ReceiptPosted", d, docs[d], docs[d].lines)>>)

\* The usage port is asked after the load; a batch once moved stays so.
AreBatchesUntouched(d) == d \notin moved

CancelReceipt(c, d) ==
  /\ Is(d, "receipt", "POSTED")
  /\ AreBatchesUntouched(d)
  /\ Decide(c, d, "CANCELLED", <<Event("ReceiptCancelled", d, docs[d], <<>>)>>)

PostTransfer(c, d) ==
  /\ Is(d, "transfer", "DRAFT")
  /\ Decide(c, d, "POSTED", <<Event("TransferPosted", d, docs[d], docs[d].lines)>>)

ApproveAdjustment(c, d) ==
  /\ Is(d, "adjustment", "PENDING")
  /\ Decide(c, d, "APPROVED", <<Event("AdjustmentApproved", d, docs[d], docs[d].lines)>>)

RejectAdjustment(c, d) ==
  /\ Is(d, "adjustment", "PENDING")
  /\ Decide(c, d, "REJECTED", <<>>)

RecordMeasurement(c, d, s, q) ==
  /\ Is(d, "taking", "STARTED")
  /\ \E i \in DOMAIN docs[d].lines :
       /\ docs[d].lines[i].sku = s
       /\ Begin(c, d, [docs[d] EXCEPT !.lines[i].actual = q], <<>>)

\* Only counted lines that differ from the snapshot are announced.
Deltas(lines) ==
  LET counted == Only({l \in LineRow : l.actual # NotCounted /\ l.actual # l.qty}, lines)
  IN  [i \in DOMAIN counted |-> [counted[i] EXCEPT !.qty = counted[i].actual - @]]

PostStockTaking(c, d) ==
  /\ Is(d, "taking", "STARTED")
  /\ Decide(c, d, "POSTED", <<Event("StockTakingPosted", d, docs[d], Deltas(docs[d].lines))>>)

CancelStockTaking(c, d) ==
  /\ Is(d, "taking", "STARTED")
  /\ Decide(c, d, "CANCELLED", <<>>)

\* Faulty: the whole row is written.
SavedStatus_Always(r) == r.row.status

\* Only changed columns are written.
SavedStatus(r) == IF r.row.status = r.was.status THEN docs[r.doc].status ELSE r.row.status

\* The lines the copy was loaded with are deleted and the copy's inserted;
\* lines inserted by others in between stay.
SavedLines(r) ==
  LET others == {l \in LineRow : l.id \notin LineIds(r.was.lines)}
  IN  Only(others, docs[r.doc].lines) \o r.row.lines

Save(c) ==
  LET r == request[c] IN
  /\ r # NoRequest
  /\ IF Unique(SavedLines(r))
     THEN /\ docs' = [docs EXCEPT ![r.doc].status = SavedStatus(r),
                                  ![r.doc].lines = SavedLines(r)]
          /\ Announce(r.events)
     ELSE UNCHANGED <<docs, outbox, delivered>>   \* duplicate key
  /\ request' = [request EXCEPT ![c] = NoRequest]
  /\ UNCHANGED <<processed, work, faults, applied, causes, stockVars>>

Command(c) ==
  \E d \in DOMAIN docs :
    \/ \E f \in Forms : UpdateReceipt(c, d, f)
    \/ PostReceipt(c, d)
    \/ CancelReceipt(c, d)
    \/ PostTransfer(c, d)
    \/ ApproveAdjustment(c, d)
    \/ RejectAdjustment(c, d)
    \/ \E s \in Skus, q \in Counts : RecordMeasurement(c, d, s, q)
    \/ PostStockTaking(c, d)
    \/ CancelStockTaking(c, d)

Create ==
  \E d \in DOMAIN docs, b \in Branches :
    \/ CreateReceipt(d, b)
    \/ \E to \in Branches, f \in Forms : CreateTransfer(d, b, to, f)
    \/ \E f \in Changes, small \in BOOLEAN : CreateAdjustment(d, b, f, small)
    \/ StartStockTaking(d, b)

(***************************************************************************)
(* Event handlers.  A handler holds its event, the lines it still has to   *)
(* apply, and its copies of one or two stocks.                             *)
(***************************************************************************)
E(h) == work[h].event
Todo(h) == work[h].todo
Line(h) == Head(Todo(h))
At(h, stage) == work[h].stage = stage
Handles(h, kind) == E(h).kind = kind

\* Receipts and adjustments are marked line by line, the others as a whole.
PerLine(kind) == kind \in {"ReceiptPosted", "AdjustmentApproved"}

Key(h) == <<E(h).kind, E(h).doc, IF PerLine(E(h).kind) THEN Line(h).sku ELSE "all">>

Go(h, stage, todo, own, other) ==
  work' = [work EXCEPT ![h] = [event |-> E(h), stage |-> stage, todo |-> todo,
                               own |-> own, other |-> other]]
Done(h) == work' = [work EXCEPT ![h] = NoWork]

\* The next line, or the last step when there is none.
Onward(h, stage, last) ==
  IF Len(Todo(h)) > 1 THEN Go(h, stage, Tail(Todo(h)), NoCopy, NoCopy) ELSE last

\* The event bus hands an event to its handler and does not wait for it.
Deliver(h, i) ==
  /\ At(h, "idle")
  /\ IF delivered[i] = 0 THEN faults' = faults
     ELSE faults > 0 /\ faults' = faults - 1
  /\ delivered' = [delivered EXCEPT ![i] = @ + 1]
  /\ work' = [work EXCEPT ![h] = [event |-> outbox[i], stage |-> "look",
                                  todo |-> outbox[i].lines, own |-> NoCopy, other |-> NoCopy]]
  /\ UNCHANGED <<docs, outbox, request, processed, applied, causes, stockVars>>

\* Handlers past the check of a key and not done with it.
Busy(k) == {h \in Handlers : work[h].stage \notin {"idle", "look"} /\ Key(h) = k}

\* hasProcessed says yes: the line, or the event, is done.
LookMarked(h) ==
  /\ At(h, "look") /\ Key(h) \in processed
  /\ IF PerLine(E(h).kind) THEN Onward(h, "look", Done(h)) ELSE Done(h)
  /\ UNCHANGED <<docVars, processed, faults, applied, causes, stockVars>>

FirstStage(h) ==
  CASE Handles(h, "ReceiptCancelled")  -> "reread"
    [] Handles(h, "StockTakingPosted") -> IF Todo(h) = <<>> THEN "mark" ELSE "create"
    [] OTHER                           -> "load"

\* Faulty: the key is not looked up.
LookUnmarked_Always(h) ==
  /\ At(h, "look")
  /\ causes' = [causes EXCEPT ![Key(h)] = IF Busy(Key(h)) = {} THEN @ ELSE @ + 1]
  /\ Go(h, FirstStage(h), Todo(h), NoCopy, NoCopy)
  /\ UNCHANGED <<docVars, processed, faults, applied, stockVars>>

LookUnmarked(h) ==
  /\ At(h, "look") /\ Key(h) \notin processed
  /\ causes' = [causes EXCEPT ![Key(h)] = IF Busy(Key(h)) = {} THEN @ ELSE @ + 1]
  /\ Go(h, FirstStage(h), Todo(h), NoCopy, NoCopy)
  /\ UNCHANGED <<docVars, processed, faults, applied, stockVars>>

From(h) == <<Line(h).sku, E(h).branch>>
To(h)   == <<Line(h).sku, E(h).to>>

\* A copy of the stock, empty when there is no row yet.
Copy(k, batches) == [was |-> stock[k], batches |-> batches]
Held(k) == stock[k].batches

\* Ids are random: a new one is held by no batch and no copy.
InCopies == UNION {work[h].own.was.batches \cup work[h].own.batches
                   \cup work[h].other.was.batches \cup work[h].other.batches : h \in Handlers}
InStocks == UNION {Held(k) : k \in Stocks}
NextBatch == 1 + Max({0} \cup Ids(InStocks \cup InCopies))

ApplyReceiptLine(h) ==
  /\ At(h, "load") /\ Handles(h, "ReceiptPosted")
  /\ Go(h, "save", Todo(h),
        Copy(From(h), Receive(Held(From(h)), NextBatch, E(h).doc, Line(h).qty,
                              Line(h).expires, E(h).at)), NoCopy)
  /\ UNCHANGED <<docVars, processed, faults, applied, causes, stockVars>>

ApplyAdjustmentLine(h) ==
  /\ At(h, "load") /\ Handles(h, "AdjustmentApproved")
  /\ CanAdjust(Held(From(h)), Line(h).qty)
  /\ Go(h, "save", Todo(h),
        Copy(From(h), Adjust(Held(From(h)), NextBatch, Line(h).qty, E(h).at)), NoCopy)
  /\ UNCHANGED <<docVars, processed, faults, applied, causes, stockVars>>

ApplyTransferOut(h) ==
  /\ At(h, "load") /\ Handles(h, "TransferPosted")
  /\ CanWriteOff(Held(From(h)), Line(h).qty)
  /\ Go(h, "loadTo", Todo(h),
        Copy(From(h), WriteOff(Held(From(h)), Line(h).qty, E(h).at)), NoCopy)
  /\ UNCHANGED <<docVars, processed, faults, applied, causes, stockVars>>

ApplyTransferIn(h) ==
  LET parts == Allocations(work[h].own.was.batches, Line(h).qty, E(h).at) IN
  /\ At(h, "loadTo")
  /\ Go(h, "save", Todo(h), work[h].own,
        Copy(To(h), TransferIn(Held(To(h)), NextBatch, parts, E(h).at)))
  /\ UNCHANGED <<docVars, processed, faults, applied, causes, stockVars>>

\* Faulty: the error is caught and the line marked.
Refuse_Swallowed(h) ==
  /\ At(h, "load") /\ Handles(h, "AdjustmentApproved")
  /\ ~CanAdjust(Held(From(h)), Line(h).qty)
  /\ Go(h, "mark", Todo(h), NoCopy, NoCopy)
  /\ UNCHANGED <<docVars, processed, faults, applied, causes, stockVars>>

\* InsufficientStockError: nothing of this line, or of those after it, is saved.
Refuse(h) ==
  /\ At(h, "load")
  /\ \/ Handles(h, "AdjustmentApproved") /\ ~CanAdjust(Held(From(h)), Line(h).qty)
     \/ Handles(h, "TransferPosted") /\ ~CanWriteOff(Held(From(h)), Line(h).qty)
  /\ Done(h)
  /\ UNCHANGED <<docVars, processed, faults, applied, causes, stockVars>>

\* The cancellation reads the lines from the receipt's row.
Reread(h) ==
  LET lines == docs[E(h).doc].lines IN
  /\ At(h, "reread")
  /\ Go(h, IF lines = <<>> THEN "mark" ELSE "load", lines, NoCopy, NoCopy)
  /\ UNCHANGED <<docVars, processed, faults, applied, causes, stockVars>>

RemoveBatches(h) ==
  /\ At(h, "load") /\ Handles(h, "ReceiptCancelled")
  /\ IF stock[From(h)].row
     THEN Go(h, "save", Todo(h),
             Copy(From(h), RemoveBatchesBySourceDoc(Held(From(h)), E(h).doc)), NoCopy)
     ELSE Onward(h, "load", Go(h, "mark", <<>>, NoCopy, NoCopy))
  /\ UNCHANGED <<docVars, processed, faults, applied, causes, stockVars>>

\* Faulty: the rows the copy was loaded with are not deleted first.
Others_Kept(k, copy) ==
  {b \in Held(k) : b.id \notin Ids(copy.batches)}

\* Batches that stay when a copy is saved: those put in since it was loaded.  A
\* stock that had no row then reads its row, and all its batches, at the save.
Others(k, copy) ==
  IF copy.was.row THEN {b \in Held(k) : b.id \notin Ids(copy.was.batches)} ELSE {}

Stored(k, copy) == [row |-> TRUE, batches |-> Others(k, copy) \cup copy.batches]

Delta(h) ==
  CASE Handles(h, "TransferPosted") -> -Line(h).qty
    [] Handles(h, "ReceiptCancelled") ->
         TotalQuantity(work[h].own.batches) - TotalQuantity(work[h].own.was.batches)
    [] OTHER -> Line(h).qty

WritesOff(h) == Delta(h) < 0 /\ ~Handles(h, "ReceiptCancelled")

\* Expired batches count as stock but are not written off.
Short(h) ==
  /\ WritesOff(h)
  /\ TotalQuantity(Available(work[h].own.was.batches, E(h).at)) < -Delta(h)

\* One flush: the row, its batches, the history of what that amounts to.
Store(h, k, copy, delta) ==
  /\ stock' = [stock EXCEPT ![k] = Stored(k, copy)]
  /\ booked' = [booked EXCEPT ![k] = @ + delta]
  /\ troubled' = IF copy.was # stock[k] \/ Short(h) THEN troubled \cup {k} ELSE troubled

Count(k) == applied' = [applied EXCEPT ![k] = @ + 1]

SaveStock(h) ==
  /\ At(h, "save")
  /\ Store(h, From(h), work[h].own, Delta(h))
  /\ moved' = IF WritesOff(h)
              THEN moved \cup {b.source : b \in work[h].own.was.batches \ work[h].own.batches}
              ELSE moved
  /\ IF PerLine(E(h).kind)
     THEN Count(Key(h)) /\ Go(h, "mark", Todo(h), NoCopy, NoCopy)
     ELSE /\ UNCHANGED applied
          /\ IF Handles(h, "TransferPosted")
             THEN Go(h, "saveTo", Todo(h), work[h].own, work[h].other)
             ELSE Onward(h, "load", Go(h, "mark", <<>>, NoCopy, NoCopy))
  /\ UNCHANGED <<docVars, processed, faults, causes>>

SaveTo(h) ==
  /\ At(h, "saveTo")
  /\ Store(h, To(h), work[h].other, Line(h).qty)
  /\ Count(<<"TransferPosted", E(h).doc, Line(h).sku>>)
  /\ Onward(h, "load", Go(h, "mark", <<>>, NoCopy, NoCopy))
  /\ UNCHANGED <<docVars, processed, faults, causes, moved>>

\* The differences of a stock taking cost nothing, so their adjustment needs no
\* approval.
CreateFromTaking(h) ==
  /\ At(h, "create")
  /\ \E d \in DOMAIN docs : InsertAdjustment(d, E(h).branch, Todo(h), TRUE)
  /\ Count(Key(h))
  /\ Go(h, "mark", Todo(h), NoCopy, NoCopy)
  /\ UNCHANGED <<request, processed, faults, causes, stockVars>>

Mark(h) ==
  /\ At(h, "mark")
  /\ processed' = processed \cup {Key(h)}
  /\ IF PerLine(E(h).kind) THEN Onward(h, "look", Done(h)) ELSE Done(h)
  /\ UNCHANGED <<docVars, faults, applied, causes, stockVars>>

\* An awaited call rejects, or the process dies.
Abort(h) ==
  /\ ~At(h, "idle")
  /\ faults > 0
  /\ faults' = faults - 1
  /\ Done(h)
  /\ causes' = IF At(h, "mark") THEN [causes EXCEPT ![Key(h)] = @ + 1] ELSE causes
  /\ UNCHANGED <<docVars, processed, applied, stockVars>>

Handle(h) ==
  \/ \E i \in DOMAIN outbox : Deliver(h, i)
  \/ LookMarked(h) \/ LookUnmarked(h)
  \/ ApplyReceiptLine(h) \/ ApplyAdjustmentLine(h) \/ ApplyTransferOut(h) \/ ApplyTransferIn(h) \/ Refuse(h)
  \/ Reread(h) \/ RemoveBatches(h)
  \/ SaveStock(h) \/ SaveTo(h) \/ CreateFromTaking(h)
  \/ Mark(h) \/ Abort(h)

Next ==
  \/ Create
  \/ \E c \in DOMAIN request : Command(c) \/ Save(c)
  \/ \E h \in Handlers : Handle(h)

Spec == Init /\ [][Next]_vars

(***************************************************************************)
(* Properties.                                                             *)
(***************************************************************************)
\* Types: a stock is never negative, whatever copies are saved over each other.
TypeOK ==
  /\ DOMAIN docs \subseteq Docs
  /\ \A d \in DOMAIN docs : docs[d] \in Row
  /\ DOMAIN stock = Stocks
  /\ \A k \in Stocks : stock[k].row \in BOOLEAN /\ Held(k) \subseteq Batch
  /\ processed \subseteq Keys
  /\ \A h \in Handlers : work[h].stage \in Stages
  /\ applied \in [Keys -> Nat] /\ causes \in [Keys -> Nat]
  /\ booked \in [Stocks -> Int]

\* Keys whose effect is saved once for every time it is looked up unmarked.
Counted == {k \in Keys : PerLine(k[1]) \/ (k[1] = "StockTakingPosted" /\ k[3] = "all")}

\* A line of a receipt or an adjustment is booked once, and a stock taking
\* makes one adjustment, but for each time a handler stops between the save and
\* the mark and each time two handlers look at the key before one has marked it.
RepeatsHaveACause == \A k \in Counted : applied[k] <= 1 + causes[k]

\* A line whose key is marked is in the books: redelivery may skip it.
MarkedMeansBooked ==
  \A k \in Counted \cap processed : PerLine(k[1]) => applied[k] >= 1

\* The batches of a stock add up to what the applied documents say, unless a
\* handler saved a copy older than the stock or had to write off expired goods.
BooksBalance ==
  \A k \in Stocks \ troubled : TotalQuantity(Held(k)) = booked[k]

\* A write-off leaves what has expired alone, and takes from a batch only when
\* all usable ones that go before it under the strategy, by receipt or by expiry,
\* are used up, however old the stock and whatever was received meanwhile.
\* Empty batches, expired or not, it removes.
EarliestGoesFirst ==
  [][\A h \in Handlers :
       At(h, "save") /\ WritesOff(h) /\ SaveStock(h) /\ work[h].own.was = stock[From(h)]
         => LET was == Held(From(h))
                now == stock'[From(h)].batches
                usable(b) == ~IsExpired(b, E(h).at)
            IN  \A b \in was \ now : b.remaining > 0 =>
                  /\ usable(b)
                  /\ \A a \in was : usable(a) /\ Sooner(a, b) => a.id \notin Ids(now)]_vars

\* No save brings a decided document back to where it could be decided again,
\* however old the copy it writes.
DecisionIsFinal ==
  [][\A d \in DOMAIN docs : docs[d].status \in Decided => docs'[d].status \in Decided]_vars

\* Stock lies in a branch.  It does not once an adjustment is approved after its
\* first save, or made from a stock taking.
StockHasABranch == \A k \in Stocks : stock[k].row => k[2] \in Branches

\* ADR-0010: the saga is idempotent, safe to retry on transient failures.
TransferMovesOnce ==
  \A d \in Docs, s \in Skus : applied[<<"TransferPosted", d, s>>] <= 1
=============================================================================
