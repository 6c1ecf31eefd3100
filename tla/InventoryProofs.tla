-------------------------- MODULE InventoryProofs --------------------------
(***************************************************************************)
(* Theorems about the inventory's documents and event handlers, for any    *)
(* documents, forms and stocks, any finite number of handlers and any      *)
(* number of faults.                                                       *)
(*                                                                         *)
(* Keys.  What a handler does to a key is one of five moves (Effect): it   *)
(* leaves the key alone, enters, saves, marks, or is dropped.  Each move   *)
(* keeps the count of the key, and each action is shown to be one of them. *)
(*                                                                         *)
(* Decisions.  What a request is about to save decides its document or     *)
(* leaves its status alone (DInv).                                         *)
(*                                                                         *)
(* Stocks.  A theory of the total of a set of batches (TotalOfElement,     *)
(* ImgAdd) gives what each method of a stock does to its total; StockInv   *)
(* says what the copies in the handlers' hands have become of the stocks   *)
(* they were loaded from, and that ids of new batches are nobody else's.   *)
(* A handler's step either leaves the stocks alone (QuietStep) or saves a  *)
(* copy (SaveStep).                                                        *)
(***************************************************************************)
EXTENDS Inventory, WellFoundedInduction, FiniteSetTheorems, SequenceTheorems, TLAPS

\* The key a handler in state w works on, and whether it is past the check of
\* key k and has yet to save.
KeyIn(w) == <<w.event.kind, w.event.doc,
              IF PerLine(w.event.kind) THEN Head(w.todo).sku ELSE "all">>
Works(w, k) == w.stage \notin {"idle", "look"} /\ KeyIn(w) = k
Saves(w, k) == Works(w, k) /\ w.stage # "mark"

Working(k) == {h \in Handlers : Works(work[h], k)}
Saving(k)  == {h \in Handlers : Saves(work[h], k)}

(***************************************************************************)
(* The inductive invariant.                                                *)
(***************************************************************************)
\* Before the key is marked, every save and every handler about to save has a
\* cause of its own, but for one while somebody works on the key; marking it
\* uses that one up.
CountOK(k) ==
  /\ applied[k] + Cardinality(Saving(k)) <= 1 + causes[k]
  /\ k \notin processed /\ Working(k) = {}
       => applied[k] + Cardinality(Saving(k)) <= causes[k]

\* Whoever is about to mark a line has saved it.
MarkOK(k) ==
  PerLine(k[1]) /\ (k \in processed \/ Saving(k) # Working(k)) => applied[k] >= 1

\* The stages of a handler belong to the kind of its event.
StageOK(w) ==
  /\ w.stage = "reread" => w.event.kind = "ReceiptCancelled"
  /\ w.stage \in {"loadTo", "saveTo"} => w.event.kind = "TransferPosted"
  /\ w.stage = "create" => w.event.kind = "StockTakingPosted"
  /\ w.stage = "save" => PerLine(w.event.kind)
                          \/ w.event.kind \in {"TransferPosted", "ReceiptCancelled"}

HistoryOK ==
  /\ work = [h \in Handlers |-> work[h]]
  /\ applied \in [Keys -> Nat]
  /\ causes \in [Keys -> Nat]

IInv ==
  /\ HistoryOK
  /\ \A h \in Handlers : StageOK(work[h])
  /\ \A k \in Counted : CountOK(k) /\ MarkOK(k)

(***************************************************************************)
(* The moves.                                                              *)
(***************************************************************************)
Kept(k) == applied'[k] = applied[k] /\ (k \in processed' <=> k \in processed)

Stay(v, w, k) ==
  /\ Works(w, k) <=> Works(v, k)
  /\ Saves(w, k) <=> Saves(v, k)
  /\ Kept(k) /\ causes'[k] = causes[k]

Enter(v, w, k) ==
  /\ ~Works(v, k) /\ Works(w, k)
  /\ PerLine(k[1]) => Saves(w, k)
  /\ Kept(k) /\ k \notin processed
  /\ causes'[k] = IF Working(k) = {} THEN causes[k] ELSE causes[k] + 1

Book(v, w, k) ==
  /\ Saves(v, k) /\ Works(w, k) /\ ~Saves(w, k)
  /\ applied'[k] = applied[k] + 1 /\ causes'[k] = causes[k]
  /\ k \in processed' <=> k \in processed

Leave(v, w, k) ==
  /\ Works(v, k) /\ ~Saves(v, k) /\ ~Works(w, k)
  /\ applied'[k] = applied[k] /\ causes'[k] = causes[k]
  /\ k \in processed'

Drop(v, w, k) ==
  /\ Works(v, k) /\ ~Works(w, k)
  /\ Kept(k)
  /\ causes'[k] = IF Saves(v, k) THEN causes[k] ELSE causes[k] + 1

Effect(h, w, k) ==
  \/ Stay(work[h], w, k) \/ Enter(work[h], w, k) \/ Book(work[h], w, k)
  \/ Leave(work[h], w, k) \/ Drop(work[h], w, k)

LEMMA BusyIsWorking == \A k : Busy(k) = Working(k)
  BY DEF Busy, Working, Works, Key, KeyIn, E, Line, Todo

\* One handler moves: the sets change by that handler only.
LEMMA OneMoves ==
  ASSUME HistoryOK, NEW h \in Handlers, NEW w, work' = [work EXCEPT ![h] = w], NEW k
  PROVE  /\ work'[h] = w
         /\ work' = [g \in Handlers |-> work'[g]]
         /\ \A g \in Handlers : g # h => work'[g] = work[g]
         /\ Working(k)' = (Working(k) \ {h}) \cup (IF Works(w, k) THEN {h} ELSE {})
         /\ Saving(k)' = (Saving(k) \ {h}) \cup (IF Saves(w, k) THEN {h} ELSE {})
<1>1. /\ work'[h] = w
      /\ work' = [g \in Handlers |-> work'[g]]
      /\ \A g \in Handlers : g # h => work'[g] = work[g]
  BY DEF HistoryOK
<1>2. /\ Working(k)' = {g \in Handlers : Works(work'[g], k)}
      /\ Saving(k)' = {g \in Handlers : Saves(work'[g], k)}
  BY DEF Working, Saving, Works, Saves, KeyIn, PerLine
<1>3. Working(k)' = (Working(k) \ {h}) \cup (IF Works(w, k) THEN {h} ELSE {})
  <2> HIDE DEF Works
  <2> QED BY <1>1, <1>2, Zenon DEF Working
<1>4. Saving(k)' = (Saving(k) \ {h}) \cup (IF Saves(w, k) THEN {h} ELSE {})
  <2> HIDE DEF Saves
  <2> QED BY <1>1, <1>2, Zenon DEF Saving
<1> QED BY <1>1, <1>3, <1>4

LEMMA FiniteSets_ ==
  \A k : /\ IsFiniteSet(Working(k)) /\ IsFiniteSet(Saving(k))
         /\ Cardinality(Saving(k)) \in Nat
         /\ Saving(k) \subseteq Working(k)
<1> TAKE k
<1>1. IsFiniteSet(Handlers)
  BY InventoryAssumption
<1>2. IsFiniteSet(Working(k)) /\ IsFiniteSet(Saving(k))
  BY <1>1, FS_Subset DEF Working, Saving
<1>3. Saving(k) \subseteq Working(k)
  BY DEF Working, Saving, Saves
<1> QED BY <1>2, <1>3, FS_CardinalityType

\* Every move keeps the counts of its key.
LEMMA MoveKeepsCount ==
  ASSUME HistoryOK, NEW h \in Handlers, NEW w, work' = [work EXCEPT ![h] = w],
         NEW k \in Counted, CountOK(k), MarkOK(k), Effect(h, w, k)
  PROVE  CountOK(k)' /\ MarkOK(k)'
<1>1. /\ Working(k)' = (Working(k) \ {h}) \cup (IF Works(w, k) THEN {h} ELSE {})
      /\ Saving(k)' = (Saving(k) \ {h}) \cup (IF Saves(w, k) THEN {h} ELSE {})
  BY OneMoves
<1>2. /\ IsFiniteSet(Saving(k)) /\ Cardinality(Saving(k)) \in Nat
      /\ Saving(k) \subseteq Working(k)
  BY FiniteSets_
<1>3. /\ h \in Working(k) <=> Works(work[h], k)
      /\ h \in Saving(k) <=> Saves(work[h], k)
  BY DEF Working, Saving
<1>4. /\ h \in Saving(k) => Cardinality(Saving(k) \ {h}) = Cardinality(Saving(k)) - 1
      /\ h \notin Saving(k) => Cardinality(Saving(k) \cup {h}) = Cardinality(Saving(k)) + 1
  BY <1>2, FS_RemoveElement, FS_AddElement
<1>5. applied[k] \in Nat /\ causes[k] \in Nat
  BY DEF HistoryOK, Counted
<1>6. Saves(w, k) => Works(w, k)
  BY DEF Saves
<1>7. CASE Stay(work[h], w, k)
  <2>1. Working(k)' = Working(k) /\ Saving(k)' = Saving(k)
    BY <1>1, <1>3, <1>7 DEF Stay
  <2> QED BY <2>1, <1>7 DEF Stay, Kept, CountOK, MarkOK
<1>8. CASE Enter(work[h], w, k)
  <2>1. h \notin Working(k) /\ h \notin Saving(k) /\ h \in Working(k)'
    BY <1>1, <1>2, <1>3, <1>8 DEF Enter
  <2>2. Working(k)' = Working(k) \cup {h}
    BY <1>1, <1>8, <2>1 DEF Enter
  <2>3. Saving(k)' = IF Saves(w, k) THEN Saving(k) \cup {h} ELSE Saving(k)
    BY <1>1, <2>1
  <2>4. Cardinality(Saving(k)') <= Cardinality(Saving(k)) + 1 /\ Cardinality(Saving(k)') \in Nat
    BY <2>1, <2>3, <1>2, <1>4
  <2>5. CountOK(k)'
    BY <2>1, <2>4, <1>2, <1>5, <1>8 DEF Enter, Kept, CountOK
  <2>6. PerLine(k[1]) /\ Saving(k) = Working(k) => Saving(k)' = Working(k)'
    BY <2>2, <2>3, <1>8 DEF Enter
  <2>7. MarkOK(k)'
    BY <2>6, <1>8, <1>5 DEF Enter, Kept, MarkOK
  <2> QED BY <2>5, <2>7
<1>9. CASE Book(work[h], w, k)
  <2>1. Working(k)' = Working(k) /\ Saving(k)' = Saving(k) \ {h} /\ h \in Saving(k)
    BY <1>1, <1>2, <1>3, <1>9 DEF Book
  <2> QED BY <2>1, <1>2, <1>4, <1>5, <1>9 DEF Book, CountOK, MarkOK
<1>10. CASE Leave(work[h], w, k)
  <2>1. /\ Saving(k)' = Saving(k)
        /\ h \in Working(k) /\ h \notin Saving(k)
    BY <1>1, <1>3, <1>6, <1>10 DEF Leave
  <2> QED BY <2>1, <1>2, <1>5, <1>10 DEF Leave, CountOK, MarkOK
<1>11. CASE Drop(work[h], w, k)
  <2>1. /\ Working(k)' = Working(k) \ {h}
        /\ Saving(k)' = Saving(k) \ {h}
        /\ h \in Working(k)
    BY <1>1, <1>3, <1>6, <1>11 DEF Drop
  <2>2. CASE h \in Saving(k)
    <3>1. causes'[k] = causes[k]
      BY <2>2, <1>3, <1>11 DEF Drop
    <3>2. Saving(k)' # Working(k)' => Saving(k) # Working(k)
      BY <2>1
    <3> QED BY <2>1, <2>2, <3>1, <3>2, <1>2, <1>4, <1>5, <1>11 DEF Drop, Kept, CountOK, MarkOK
  <2>3. CASE h \notin Saving(k)
    <3>1. causes'[k] = causes[k] + 1 /\ Saving(k)' = Saving(k) /\ Saving(k) # Working(k)
      BY <2>1, <2>3, <1>3, <1>11 DEF Drop
    <3> QED BY <3>1, <1>2, <1>5, <1>11 DEF Drop, Kept, CountOK, MarkOK
  <2> QED BY <2>2, <2>3
<1> QED BY <1>7, <1>8, <1>9, <1>10, <1>11 DEF Effect

(***************************************************************************)
(* Every action of a handler is one of the moves.                          *)
(***************************************************************************)
\* What a step of handler h comes to, w being its state after the step.
Moved(h, w) ==
  /\ work' = [work EXCEPT ![h] = w]
  /\ StageOK(w)
  /\ \A k \in Counted : Effect(h, w, k)
  /\ applied' \in [Keys -> Nat] /\ causes' \in [Keys -> Nat]

LEMMA CountedKinds ==
  \A k \in Counted : /\ k \in Keys
                     /\ PerLine(k[1]) \/ k[1] = "StockTakingPosted"
                     /\ k[1] \notin {"TransferPosted", "ReceiptCancelled", "none"}
BY DEF Counted, PerLine

LEMMA KeyOfEvent ==
  ASSUME NEW w, NEW k, Works(w, k)
  PROVE  k[1] = w.event.kind
BY DEF Works, KeyIn

\* A handler that works on no counted key, before and after, leaves all alone.
LEMMA Aside ==
  ASSUME NEW h \in Handlers, NEW w,
         w.stage \in {"idle", "look"} \/ ~(PerLine(w.event.kind) \/ w.event.kind = "StockTakingPosted"),
         \/ work[h].stage \in {"idle", "look"}
         \/ ~(PerLine(work[h].event.kind) \/ work[h].event.kind = "StockTakingPosted"),
         \A k \in Counted : Kept(k) /\ causes'[k] = causes[k]
  PROVE  \A k \in Counted : Effect(h, w, k)
<1> TAKE k \in Counted
<1>1. ~Works(w, k)
  BY CountedKinds, KeyOfEvent DEF Works
<1>2. ~Works(work[h], k)
  BY CountedKinds, KeyOfEvent DEF Works
<1> QED BY <1>1, <1>2 DEF Effect, Stay, Saves

\* The same event and line, before the save and still before it.
LEMMA Onwards ==
  ASSUME NEW h \in Handlers, NEW w,
         w.event = work[h].event, w.todo = work[h].todo,
         w.stage \notin {"idle", "look", "mark"},
         work[h].stage \notin {"idle", "look", "mark"},
         \A k \in Counted : Kept(k) /\ causes'[k] = causes[k]
  PROVE  \A k \in Counted : Effect(h, w, k)
BY DEF Effect, Stay, Saves, Works, KeyIn

LEMMA KeyIs == \A h \in Handlers : Key(h) = KeyIn(work[h])
BY DEF Key, KeyIn, E, Line, Todo

\* Counting a key keeps the type of a history, whether it is a key or not.
LEMMA CountType ==
  ASSUME NEW f \in [Keys -> Nat], NEW k
  PROVE  [f EXCEPT ![k] = @ + 1] \in [Keys -> Nat]
<1>1. CASE k \in Keys
  BY <1>1
<1>2. CASE k \notin Keys
  BY <1>2
<1> QED BY <1>1, <1>2

LEMMA DeliverMoves ==
  ASSUME HistoryOK, NEW h \in Handlers, NEW i \in DOMAIN outbox, Deliver(h, i)
  PROVE  \E w : Moved(h, w)
<1> DEFINE w == [event |-> outbox[i], stage |-> "look", todo |-> outbox[i].lines,
                 own |-> NoCopy, other |-> NoCopy]
<1>1. work' = [work EXCEPT ![h] = w] /\ work[h].stage = "idle"
  BY DEF Deliver, At
<1>2. UNCHANGED <<processed, applied, causes>>
  BY DEF Deliver
<1>3. \A k \in Counted : Effect(h, w, k)
  BY <1>1, <1>2, Aside DEF Kept
<1>4. StageOK(w)
  BY DEF StageOK
<1> QED BY <1>1, <1>2, <1>3, <1>4 DEF Moved, HistoryOK

LEMMA LookMarkedMoves ==
  ASSUME HistoryOK, NEW h \in Handlers, LookMarked(h)
  PROVE  \E w : Moved(h, w)
<1>1. /\ work[h].stage = "look"
      /\ UNCHANGED <<processed, applied, causes>>
  BY DEF LookMarked, At
<1>2. PICK w : work' = [work EXCEPT ![h] = w] /\ w.stage \in {"look", "idle"}
  <2>1. \/ work' = [work EXCEPT ![h] = [event |-> work[h].event, stage |-> "look",
                      todo |-> Tail(Todo(h)), own |-> NoCopy, other |-> NoCopy]]
        \/ work' = [work EXCEPT ![h] = NoWork]
    BY DEF LookMarked, Onward, Go, Done, E
  <2>2. ASSUME NEW v, work' = [work EXCEPT ![h] = v], v.stage \in {"look", "idle"}
        PROVE  \E w : work' = [work EXCEPT ![h] = w] /\ w.stage \in {"look", "idle"}
    BY <2>2
  <2>3. NoWork.stage = "idle"
    BY DEF NoWork
  <2> QED BY <2>1, <2>2, <2>3
<1>3. \A k \in Counted : Effect(h, w, k)
  BY <1>1, <1>2, Aside DEF Kept
<1>4. StageOK(w)
  BY <1>2 DEF StageOK
<1> QED BY <1>1, <1>2, <1>3, <1>4 DEF Moved, HistoryOK

LEMMA LookUnmarkedMoves ==
  ASSUME HistoryOK, NEW h \in Handlers, LookUnmarked(h)
  PROVE  \E w : Moved(h, w)
<1> DEFINE w == [event |-> work[h].event, stage |-> FirstStage(h), todo |-> work[h].todo,
                 own |-> NoCopy, other |-> NoCopy]
<1>1. /\ work' = [work EXCEPT ![h] = w]
      /\ work[h].stage = "look"
      /\ Key(h) \notin processed
      /\ UNCHANGED <<processed, applied>>
      /\ causes' = [causes EXCEPT ![Key(h)] = IF Busy(Key(h)) = {} THEN @ ELSE @ + 1]
  BY DEF LookUnmarked, At, Go, E, Todo
<1>2. /\ FirstStage(h) \in {"reread", "mark", "create", "load"}
      /\ FirstStage(h) = "reread" => work[h].event.kind = "ReceiptCancelled"
      /\ FirstStage(h) \in {"create", "mark"} => work[h].event.kind = "StockTakingPosted"
      /\ FirstStage(h) = "load" => work[h].event.kind # "StockTakingPosted"
  BY DEF FirstStage, Handles, E, Todo
<1>3. StageOK(w)
  BY <1>2 DEF StageOK
<1>4. causes' \in [Keys -> Nat]
  <2>1. CASE Busy(Key(h)) = {}
    BY <1>1, <2>1 DEF HistoryOK
  <2>2. CASE Busy(Key(h)) # {}
    <3>1. causes' = [causes EXCEPT ![Key(h)] = @ + 1]
      BY <1>1, <2>2
    <3> QED BY <3>1, CountType DEF HistoryOK
  <2> QED BY <2>1, <2>2
<1>5. ASSUME NEW k \in Counted PROVE Effect(h, w, k)
  <2>1. Works(w, k) <=> k = Key(h)
    BY <1>2, KeyIs DEF Works, KeyIn
  <2>2. ~Works(work[h], k) /\ Kept(k)
    BY <1>1 DEF Works, Kept
  <2>3. CASE k = Key(h)
    <3>1. causes'[k] = IF Working(k) = {} THEN causes[k] ELSE causes[k] + 1
      BY <1>1, <2>3, BusyIsWorking DEF HistoryOK, Counted
    <3>2. PerLine(k[1]) => Saves(w, k)
      <4>1. k[1] = work[h].event.kind
        BY <2>1, <2>3, KeyOfEvent
      <4>2. PerLine(k[1]) => k[1] # "StockTakingPosted"
        BY DEF PerLine
      <4> QED BY <4>1, <4>2, <2>1, <2>3, <1>2 DEF Saves
    <3> QED BY <3>1, <3>2, <2>1, <2>2, <2>3, <1>1 DEF Effect, Enter
  <2>4. CASE k # Key(h)
    <3>1. causes'[k] = causes[k]
      BY <1>1, <2>4 DEF HistoryOK, Counted
    <3> QED BY <3>1, <2>1, <2>2, <2>4 DEF Effect, Stay, Saves
  <2> QED BY <2>3, <2>4
<1> QED BY <1>1, <1>3, <1>4, <1>5 DEF Moved, HistoryOK

\* A step of a handler before its save, to a stage that is still before it.
LEMMA WithinMoves ==
  ASSUME HistoryOK, NEW h \in Handlers, NEW stage, NEW own, NEW other,
         Go(h, stage, Todo(h), own, other), UNCHANGED <<processed, applied, causes>>,
         stage \in {"loadTo", "save"},
         work[h].stage \in {"load", "loadTo"},
         PerLine(work[h].event.kind) \/ work[h].event.kind = "TransferPosted",
         stage = "loadTo" => work[h].event.kind = "TransferPosted"
  PROVE  \E w : Moved(h, w)
<1> DEFINE w == [event |-> work[h].event, stage |-> stage, todo |-> work[h].todo,
                 own |-> own, other |-> other]
<1>1. work' = [work EXCEPT ![h] = w]
  BY DEF Go, E, Todo
<1>2. \A k \in Counted : Effect(h, w, k)
  BY Onwards DEF Kept
<1>3. StageOK(w)
  BY DEF StageOK
<1> QED BY <1>1, <1>2, <1>3 DEF Moved, HistoryOK

LEMMA LoadMoves ==
  ASSUME HistoryOK, NEW h \in Handlers, StageOK(work[h]),
         \/ ApplyReceiptLine(h) \/ ApplyAdjustmentLine(h)
         \/ ApplyTransferOut(h) \/ ApplyTransferIn(h)
  PROVE  \E w : Moved(h, w)
<1>1. CASE ApplyReceiptLine(h)
  BY <1>1, WithinMoves DEF ApplyReceiptLine, At, Handles, E, PerLine
<1>2. CASE ApplyAdjustmentLine(h)
  BY <1>2, WithinMoves DEF ApplyAdjustmentLine, At, Handles, E, PerLine
<1>3. CASE ApplyTransferOut(h)
  BY <1>3, WithinMoves DEF ApplyTransferOut, At, Handles, E
<1>4. CASE ApplyTransferIn(h)
  BY <1>4, WithinMoves DEF ApplyTransferIn, At, StageOK
<1> QED BY <1>1, <1>2, <1>3, <1>4

\* A step of a handler of a transfer or a cancellation, whose keys are not counted.
LEMMA UncountedMoves ==
  ASSUME HistoryOK, NEW h \in Handlers, NEW w, work' = [work EXCEPT ![h] = w],
         work[h].event.kind \in {"TransferPosted", "ReceiptCancelled"},
         w.event = work[h].event, w.stage \in {"load", "save", "saveTo", "mark"},
         w.stage = "saveTo" => work[h].event.kind = "TransferPosted",
         \A k \in Counted : applied'[k] = applied[k],
         applied' \in [Keys -> Nat],
         UNCHANGED <<processed, causes>>
  PROVE  Moved(h, w)
<1>1. \A k \in Counted : Effect(h, w, k)
  BY Aside DEF Kept, PerLine
<1>2. StageOK(w)
  BY DEF StageOK
<1> QED BY <1>1, <1>2 DEF Moved, HistoryOK

LEMMA CancellationMoves ==
  ASSUME HistoryOK, NEW h \in Handlers, StageOK(work[h]),
         Reread(h) \/ RemoveBatches(h)
  PROVE  \E w : Moved(h, w)
<1>1. /\ work[h].event.kind = "ReceiptCancelled"
      /\ UNCHANGED <<processed, applied, causes>>
  BY DEF Reread, RemoveBatches, At, Handles, E, StageOK
<1>2. PICK w : /\ work' = [work EXCEPT ![h] = w]
               /\ w.event = work[h].event
               /\ w.stage \in {"load", "save", "mark"}
  <2>1. ASSUME NEW stage \in {"load", "save", "mark"}, NEW todo, NEW own, NEW other,
               Go(h, stage, todo, own, other)
        PROVE  \E w : /\ work' = [work EXCEPT ![h] = w]
                      /\ w.event = work[h].event
                      /\ w.stage \in {"load", "save", "mark"}
    <3> DEFINE v == [event |-> work[h].event, stage |-> stage, todo |-> todo,
                     own |-> own, other |-> other]
    <3>1. work' = [work EXCEPT ![h] = v]
      BY <2>1 DEF Go, E
    <3>2. v.event = work[h].event /\ v.stage \in {"load", "save", "mark"}
      OBVIOUS
    <3> QED BY <3>1, <3>2
  <2>2. CASE Reread(h)
    BY <2>1, <2>2 DEF Reread
  <2>3. CASE RemoveBatches(h)
    BY <2>1, <2>3 DEF RemoveBatches, Onward
  <2> QED BY <2>2, <2>3
<1> QED BY <1>1, <1>2, UncountedMoves DEF HistoryOK

\* The save of what a key stands for.
LEMMA BookMoves ==
  ASSUME HistoryOK, NEW h \in Handlers,
         Count(Key(h)), Go(h, "mark", Todo(h), NoCopy, NoCopy),
         work[h].stage \in {"save", "create"},
         UNCHANGED <<processed, causes>>
  PROVE  \E w : Moved(h, w)
<1> DEFINE w == [event |-> work[h].event, stage |-> "mark", todo |-> work[h].todo,
                 own |-> NoCopy, other |-> NoCopy]
<1>1. work' = [work EXCEPT ![h] = w]
  BY DEF Go, E, Todo
<1>2. applied' = [applied EXCEPT ![Key(h)] = @ + 1]
  BY DEF Count
<1>3. ASSUME NEW k \in Counted PROVE Effect(h, w, k)
  <2>1. /\ Works(w, k) <=> k = Key(h)
        /\ Works(work[h], k) <=> k = Key(h)
        /\ Saves(work[h], k) <=> k = Key(h)
        /\ ~Saves(w, k)
    BY KeyIs DEF Works, Saves, KeyIn
  <2>2. CASE k = Key(h)
    <3>1. applied'[k] = applied[k] + 1
      BY <1>2, <2>2 DEF HistoryOK, Counted
    <3> QED BY <2>1, <2>2, <3>1 DEF Effect, Book
  <2>3. CASE k # Key(h)
    <3>1. applied'[k] = applied[k]
      BY <1>2, <2>3 DEF HistoryOK, Counted
    <3> QED BY <2>1, <2>3, <3>1 DEF Effect, Stay, Kept
  <2> QED BY <2>2, <2>3
<1>4. applied' \in [Keys -> Nat]
  BY <1>2, CountType DEF HistoryOK
<1>5. StageOK(w)
  BY DEF StageOK
<1> QED BY <1>1, <1>3, <1>4, <1>5 DEF Moved, HistoryOK

LEMMA SaveMoves ==
  ASSUME HistoryOK, NEW h \in Handlers, StageOK(work[h]), SaveStock(h)
  PROVE  \E w : Moved(h, w)
<1>1. work[h].stage = "save" /\ UNCHANGED <<processed, causes>>
  BY DEF SaveStock, At
<1>2. CASE PerLine(work[h].event.kind)
  BY <1>1, <1>2, BookMoves DEF SaveStock, E
<1>3. CASE ~PerLine(work[h].event.kind)
  <2>1. work[h].event.kind \in {"TransferPosted", "ReceiptCancelled"}
    BY <1>1, <1>3 DEF StageOK
  <2>2. applied' = applied
    BY <1>3 DEF SaveStock, E
  <2>3. PICK w : /\ work' = [work EXCEPT ![h] = w]
                 /\ w.event = work[h].event
                 /\ w.stage \in {"load", "saveTo", "mark"}
                 /\ w.stage = "saveTo" => work[h].event.kind = "TransferPosted"
    <3>1. ASSUME NEW stage \in {"load", "saveTo", "mark"}, NEW todo, NEW own, NEW other,
                 Go(h, stage, todo, own, other),
                 stage = "saveTo" => work[h].event.kind = "TransferPosted"
          PROVE  \E w : /\ work' = [work EXCEPT ![h] = w]
                        /\ w.event = work[h].event
                        /\ w.stage \in {"load", "saveTo", "mark"}
                        /\ w.stage = "saveTo" => work[h].event.kind = "TransferPosted"
      <4> DEFINE v == [event |-> work[h].event, stage |-> stage, todo |-> todo,
                       own |-> own, other |-> other]
      <4>1. work' = [work EXCEPT ![h] = v]
        BY <3>1 DEF Go, E
      <4>2. /\ v.event = work[h].event /\ v.stage \in {"load", "saveTo", "mark"}
            /\ v.stage = "saveTo" => work[h].event.kind = "TransferPosted"
        BY <3>1
      <4> QED BY <4>1, <4>2
    <3> QED BY <3>1, <1>3 DEF SaveStock, Onward, E, Handles
  <2> QED BY <1>1, <2>1, <2>2, <2>3, UncountedMoves DEF HistoryOK
<1> QED BY <1>2, <1>3

LEMMA SaveToMoves ==
  ASSUME HistoryOK, NEW h \in Handlers, StageOK(work[h]), SaveTo(h)
  PROVE  \E w : Moved(h, w)
<1> DEFINE key == <<"TransferPosted", E(h).doc, Line(h).sku>>
<1>1. /\ work[h].event.kind = "TransferPosted"
      /\ UNCHANGED <<processed, causes>>
      /\ applied' = [applied EXCEPT ![key] = @ + 1]
  BY DEF SaveTo, At, StageOK, Count
<1>2. applied' \in [Keys -> Nat]
  BY <1>1, CountType DEF HistoryOK
<1>3. ASSUME NEW k \in Counted PROVE applied'[k] = applied[k]
  <2>1. k # key
    BY CountedKinds
  <2> HIDE DEF key
  <2> QED BY <1>1, <2>1 DEF HistoryOK, Counted
<1>4. PICK w : /\ work' = [work EXCEPT ![h] = w]
               /\ w.event = work[h].event
               /\ w.stage \in {"load", "mark"}
  <2>1. ASSUME NEW stage \in {"load", "mark"}, NEW todo, Go(h, stage, todo, NoCopy, NoCopy)
        PROVE  \E w : /\ work' = [work EXCEPT ![h] = w]
                      /\ w.event = work[h].event
                      /\ w.stage \in {"load", "mark"}
    <3> DEFINE v == [event |-> work[h].event, stage |-> stage, todo |-> todo,
                     own |-> NoCopy, other |-> NoCopy]
    <3>1. work' = [work EXCEPT ![h] = v]
      BY <2>1 DEF Go, E
    <3>2. v.event = work[h].event /\ v.stage \in {"load", "mark"}
      OBVIOUS
    <3> HIDE DEF v
    <3> QED BY <3>1, <3>2
  <2> QED BY <2>1 DEF SaveTo, Onward
<1> QED BY <1>1, <1>2, <1>3, <1>4, UncountedMoves

LEMMA CreateMoves ==
  ASSUME HistoryOK, NEW h \in Handlers, CreateFromTaking(h)
  PROVE  \E w : Moved(h, w)
BY BookMoves DEF CreateFromTaking, At

LEMMA MarkMoves ==
  ASSUME HistoryOK, NEW h \in Handlers, Mark(h)
  PROVE  \E w : Moved(h, w)
<1>1. /\ work[h].stage = "mark"
      /\ processed' = processed \cup {Key(h)}
      /\ UNCHANGED <<applied, causes>>
  BY DEF Mark, At
<1>2. PICK w : work' = [work EXCEPT ![h] = w] /\ w.stage \in {"look", "idle"}
  <2>1. \/ work' = [work EXCEPT ![h] = [event |-> work[h].event, stage |-> "look",
                      todo |-> Tail(Todo(h)), own |-> NoCopy, other |-> NoCopy]]
        \/ work' = [work EXCEPT ![h] = NoWork]
    BY DEF Mark, Onward, Go, Done, E
  <2>2. ASSUME NEW v, work' = [work EXCEPT ![h] = v], v.stage \in {"look", "idle"}
        PROVE  \E w : work' = [work EXCEPT ![h] = w] /\ w.stage \in {"look", "idle"}
    BY <2>2
  <2>3. NoWork.stage = "idle"
    BY DEF NoWork
  <2> QED BY <2>1, <2>2, <2>3
<1>3. ASSUME NEW k \in Counted PROVE Effect(h, w, k)
  <2>1. /\ Works(work[h], k) <=> k = Key(h)
        /\ ~Saves(work[h], k) /\ ~Works(w, k) /\ ~Saves(w, k)
    BY <1>1, <1>2, KeyIs DEF Works, Saves
  <2> QED BY <1>1, <2>1 DEF Effect, Leave, Stay, Kept
<1>4. StageOK(w)
  BY <1>2 DEF StageOK
<1> QED BY <1>1, <1>2, <1>3, <1>4 DEF Moved, HistoryOK

\* A handler is given up: by an error of the stock, or for any other reason.
LEMMA DropMoves ==
  ASSUME HistoryOK, NEW h \in Handlers, Refuse(h) \/ Abort(h)
  PROVE  \E w : Moved(h, w)
<1>1. /\ work' = [work EXCEPT ![h] = NoWork]
      /\ UNCHANGED <<processed, applied>>
      /\ causes' = IF work[h].stage = "mark" THEN [causes EXCEPT ![Key(h)] = @ + 1] ELSE causes
  BY DEF Refuse, Abort, Done, At
<1>2. NoWork.stage = "idle" /\ StageOK(NoWork)
  BY DEF NoWork, StageOK
<1>3. causes' \in [Keys -> Nat]
  BY <1>1, CountType DEF HistoryOK
<1>4. ASSUME NEW k \in Counted PROVE Effect(h, NoWork, k)
  <2>1. ~Works(NoWork, k) /\ ~Saves(NoWork, k)
    BY <1>2 DEF Works, Saves
  <2>2. CASE Works(work[h], k)
    <3>1. k = Key(h)
      BY <2>2, KeyIs DEF Works
    <3>2. Saves(work[h], k) <=> work[h].stage # "mark"
      BY <2>2 DEF Saves
    <3>3. causes'[k] = IF Saves(work[h], k) THEN causes[k] ELSE causes[k] + 1
      BY <1>1, <3>1, <3>2 DEF HistoryOK, Counted
    <3> QED BY <1>1, <2>1, <2>2, <3>3 DEF Effect, Drop, Kept
  <2>3. CASE ~Works(work[h], k)
    <3>1. work[h].stage = "mark" => k # Key(h)
      BY <2>3, KeyIs DEF Works
    <3>2. causes'[k] = causes[k]
      BY <1>1, <3>1 DEF HistoryOK, Counted
    <3> QED BY <1>1, <2>1, <2>3, <3>2 DEF Effect, Stay, Saves, Kept
  <2> QED BY <2>2, <2>3
<1> QED BY <1>1, <1>2, <1>3, <1>4 DEF Moved, HistoryOK

LEMMA HandleMoves ==
  ASSUME IInv, NEW h \in Handlers, Handle(h)
  PROVE  \E w : Moved(h, w)
<1>1. HistoryOK /\ StageOK(work[h])
  BY DEF IInv
<1>2. CASE \E i \in DOMAIN outbox : Deliver(h, i)
  BY <1>1, <1>2, DeliverMoves
<1>3. CASE LookMarked(h) \/ LookUnmarked(h)
  BY <1>1, <1>3, LookMarkedMoves, LookUnmarkedMoves
<1>4. CASE \/ ApplyReceiptLine(h) \/ ApplyAdjustmentLine(h)
           \/ ApplyTransferOut(h) \/ ApplyTransferIn(h)
  BY <1>1, <1>4, LoadMoves
<1>5. CASE Reread(h) \/ RemoveBatches(h)
  BY <1>1, <1>5, CancellationMoves
<1>6. CASE SaveStock(h) \/ SaveTo(h)
  BY <1>1, <1>6, SaveMoves, SaveToMoves
<1>7. CASE CreateFromTaking(h) \/ Mark(h)
  BY <1>1, <1>7, CreateMoves, MarkMoves
<1>8. CASE Refuse(h) \/ Abort(h)
  BY <1>1, <1>8, DropMoves
<1> QED BY <1>2, <1>3, <1>4, <1>5, <1>6, <1>7, <1>8 DEF Handle

(***************************************************************************)
(* The invariant holds.                                                    *)
(***************************************************************************)
LEMMA InitInv == Init => IInv
<1> SUFFICES ASSUME Init PROVE IInv
  OBVIOUS
<1>1. /\ work = [h \in Handlers |-> NoWork]
      /\ applied = [k \in Keys |-> 0] /\ causes = [k \in Keys |-> 0]
      /\ processed = {}
  BY DEF Init
<1>2. HistoryOK
  BY <1>1 DEF HistoryOK
<1>3. NoWork.stage = "idle"
  BY DEF NoWork
<1>4. \A h \in Handlers : work[h].stage = "idle"
  BY <1>1, <1>3
<1>5. \A h \in Handlers : StageOK(work[h])
  BY <1>4 DEF StageOK
<1>6. ASSUME NEW k \in Counted PROVE CountOK(k) /\ MarkOK(k)
  <2>1. Working(k) = {} /\ Saving(k) = {}
    BY <1>4 DEF Working, Saving, Works, Saves
  <2>2. applied[k] = 0 /\ causes[k] = 0
    BY <1>1 DEF Counted
  <2> QED BY <2>1, <2>2, <1>1, FS_EmptySet DEF CountOK, MarkOK
<1> QED BY <1>2, <1>5, <1>6 DEF IInv

\* Requests touch nothing that the invariant is about.
LEMMA RequestKeeps ==
  ASSUME IInv, UNCHANGED <<work, applied, causes, processed>>
  PROVE  IInv'
BY DEF IInv, HistoryOK, StageOK, CountOK, MarkOK, Working, Saving, Works, Saves, KeyIn,
       PerLine, Counted, Keys

LEMMA StepInv == IInv /\ [Next]_vars => IInv'
<1> SUFFICES ASSUME IInv, [Next]_vars PROVE IInv'
  OBVIOUS
<1>1. CASE UNCHANGED vars
  BY <1>1, RequestKeeps DEF vars
<1>2. CASE Create
  <2>1. UNCHANGED <<work, applied, causes, processed>>
    BY <1>2 DEF Create, CreateReceipt, CreateTransfer, CreateAdjustment, StartStockTaking
  <2> QED BY <2>1, RequestKeeps
<1>3. CASE \E c \in DOMAIN request : Command(c) \/ Save(c)
  <2>1. UNCHANGED <<work, applied, causes, processed>>
    BY <1>3 DEF Command, Save, UpdateReceipt, PostReceipt, CancelReceipt, PostTransfer,
                ApproveAdjustment, RejectAdjustment, RecordMeasurement, PostStockTaking,
                CancelStockTaking, Decide, Begin
  <2> QED BY <2>1, RequestKeeps
<1>4. CASE \E h \in Handlers : Handle(h)
  <2>1. PICK h \in Handlers : Handle(h)
    BY <1>4
  <2>2. PICK w : Moved(h, w)
    BY <2>1, HandleMoves
  <2>3. work' = [work EXCEPT ![h] = w] /\ HistoryOK
    BY <2>2 DEF Moved, IInv
  <2>4. /\ work'[h] = w /\ work' = [g \in Handlers |-> work'[g]]
        /\ \A g \in Handlers : g # h => work'[g] = work[g]
    BY <2>3 DEF HistoryOK
  <2>5. HistoryOK'
    BY <2>2, <2>4 DEF Moved, HistoryOK, Keys
  <2>6. \A g \in Handlers : StageOK(work[g])'
    <3> TAKE g \in Handlers
    <3>1. CASE g = h
      BY <3>1, <2>2, <2>4 DEF Moved, StageOK, PerLine
    <3>2. CASE g # h
      BY <3>2, <2>4 DEF IInv, StageOK, PerLine
    <3> QED BY <3>1, <3>2
  <2>7. ASSUME NEW k \in Counted PROVE CountOK(k)' /\ MarkOK(k)'
    BY <2>2, <2>3, MoveKeepsCount DEF Moved, IInv
  <2>8. Counted' = Counted
    BY DEF Counted, Keys, PerLine, EventKinds
  <2> QED BY <2>5, <2>6, <2>7, <2>8 DEF IInv
<1> QED BY <1>1, <1>2, <1>3, <1>4 DEF Next

\* The inductive invariant: the work of every handler fits its event, and the
\* saves of a key are counted by its causes.
THEOREM Invariance == Spec => []IInv
BY InitInv, StepInv, PTL DEF Spec

\* Each line of a receipt or an adjustment is booked once, and each stock taking
\* makes one adjustment, but for the causes named, whatever is redelivered,
\* interrupted or handled at the same time.
THEOREM BoundedRepeats == Spec => []RepeatsHaveACause
<1>1. IInv => RepeatsHaveACause
  <2> SUFFICES ASSUME IInv, NEW k \in Counted PROVE applied[k] <= 1 + causes[k]
    BY DEF RepeatsHaveACause
  <2>1. applied[k] + Cardinality(Saving(k)) <= 1 + causes[k] /\ applied[k] \in Nat /\ causes[k] \in Nat
    BY DEF IInv, CountOK, HistoryOK, Counted
  <2> QED BY <2>1, FiniteSets_
<1> QED BY <1>1, Invariance, PTL

\* A redelivered event skips only lines that are in the books.
THEOREM MarkedLinesAreBooked == Spec => []MarkedMeansBooked
<1>1. IInv => MarkedMeansBooked
  BY DEF IInv, MarkOK, MarkedMeansBooked
<1> QED BY <1>1, Invariance, PTL

(***************************************************************************)
(* Decisions.  What a request is about to save decides its document or      *)
(* leaves its status alone, and a status left alone is not written.        *)
(***************************************************************************)
IsRow(r) == r = [status |-> r.status, branch |-> r.branch, to |-> r.to, lines |-> r.lines]

Decides(r) == r = NoRequest \/ r.row.status \in Decided \cup {r.was.status}

DInv ==
  /\ docs = [d \in DOMAIN docs |-> docs[d]]
  /\ \A d \in DOMAIN docs : IsRow(docs[d])
  /\ request = [c \in DOMAIN request |-> request[c]]
  /\ \A c \in DOMAIN request : Decides(request[c])

\* What a step may do to the documents.
DocStep ==
  /\ DInv'
  /\ \A d \in DOMAIN docs : docs[d].status \in Decided => docs'[d].status \in Decided

LEMMA DocsUnchanged == DInv /\ UNCHANGED <<docs, request>> => DocStep
BY DEF DInv, DocStep, IsRow, Decides

\* One request is replaced, by what satisfies the condition on requests.
LEMMA RequestReplaced ==
  ASSUME DInv, NEW c \in DOMAIN request, NEW v, Decides(v),
         request' = [request EXCEPT ![c] = v]
  PROVE  /\ request' = [e \in DOMAIN request' |-> request'[e]]
         /\ \A e \in DOMAIN request' : Decides(request'[e])
<1>1. request' = [e \in DOMAIN request |-> IF e = c THEN v ELSE request[e]]
  BY DEF DInv
<1>2. DOMAIN request' = DOMAIN request
  BY <1>1
<1>3. \A e \in DOMAIN request : request'[e] = IF e = c THEN v ELSE request[e]
  BY <1>1
<1>4. request' = [e \in DOMAIN request' |-> request'[e]]
  BY <1>1, <1>2, <1>3
<1>5. ASSUME NEW e \in DOMAIN request PROVE Decides(request'[e])
  <2>1. CASE e = c
    BY <2>1, <1>3
  <2>2. CASE e # c
    <3>1. request'[e] = request[e]
      BY <2>2, <1>3
    <3>2. Decides(request[e])
      BY DEF DInv
    <3> QED BY <3>1, <3>2
  <2> QED BY <2>1, <2>2
<1> QED BY <1>2, <1>4, <1>5

\* A row that was not there is put in.
LEMMA InsertSteps ==
  ASSUME DInv, NEW d \in DOMAIN docs, NEW row, IsRow(row),
         docs[d].status = "NONE", docs' = [docs EXCEPT ![d] = row], UNCHANGED request
  PROVE  DocStep
<1>1. /\ DOMAIN docs' = DOMAIN docs /\ docs' = [e \in DOMAIN docs' |-> docs'[e]]
      /\ docs'[d] = row
      /\ \A e \in DOMAIN docs : e # d => docs'[e] = docs[e]
  BY DEF DInv
<1>2. DInv'
  BY <1>1 DEF DInv, IsRow, Decides
<1>3. "NONE" \notin Decided
  BY DEF Decided
<1> QED BY <1>1, <1>2, <1>3 DEF DocStep, Decided

\* A request loads a document and decides it, or changes its lines.
LEMMA BeginSteps ==
  ASSUME DInv, NEW c \in DOMAIN request, NEW d \in DOMAIN docs, NEW row, NEW events,
         Begin(c, d, row, events), row.status \in Decided \cup {docs[d].status}
  PROVE  DocStep
<1> DEFINE r == [doc |-> d, was |-> docs[d], row |-> row, events |-> events]
<1>1. request' = [request EXCEPT ![c] = r] /\ UNCHANGED docs
  BY DEF Begin
<1>2. Decides(r)
  BY DEF Decides
<1> HIDE DEF r
<1>3. /\ request' = [e \in DOMAIN request' |-> request'[e]]
      /\ \A e \in DOMAIN request' : Decides(request'[e])
  BY <1>1, <1>2, RequestReplaced
<1> QED BY <1>1, <1>3 DEF DInv, DocStep, IsRow, Decides

LEMMA CommandSteps ==
  ASSUME DInv, NEW c \in DOMAIN request, Command(c)
  PROVE  DocStep
<1>1. PICK d \in DOMAIN docs :
        \/ \E f \in Forms : UpdateReceipt(c, d, f)
        \/ PostReceipt(c, d)
        \/ CancelReceipt(c, d)
        \/ PostTransfer(c, d)
        \/ ApproveAdjustment(c, d)
        \/ RejectAdjustment(c, d)
        \/ \E s \in Skus, q \in Counts : RecordMeasurement(c, d, s, q)
        \/ PostStockTaking(c, d)
        \/ CancelStockTaking(c, d)
  BY DEF Command
<1>2. IsRow(docs[d])
  BY DEF DInv
<1>3. ASSUME NEW status \in Decided, NEW events, Decide(c, d, status, events)
      PROVE  DocStep
  <2> DEFINE row == [docs[d] EXCEPT !.status = status]
  <2>1. row.status = status
    BY <1>2 DEF IsRow
  <2>2. Begin(c, d, row, events)
    BY <1>3 DEF Decide
  <2> HIDE DEF row
  <2> QED BY <2>1, <2>2, BeginSteps
<1>4. CASE \/ PostReceipt(c, d) \/ CancelReceipt(c, d) \/ PostTransfer(c, d)
           \/ ApproveAdjustment(c, d) \/ RejectAdjustment(c, d)
           \/ PostStockTaking(c, d) \/ CancelStockTaking(c, d)
  <2>1. {"POSTED", "CANCELLED", "APPROVED", "REJECTED"} = Decided
    BY DEF Decided
  <2> QED BY <1>3, <1>4, <2>1 DEF PostReceipt, CancelReceipt, PostTransfer, ApproveAdjustment,
             RejectAdjustment, PostStockTaking, CancelStockTaking
<1>5. ASSUME NEW f \in Forms, UpdateReceipt(c, d, f)
      PROVE  DocStep
  <2> DEFINE row == [docs[d] EXCEPT !.lines = UpdatedLines(@, f)]
  <2>1. row.status = docs[d].status
    BY <1>2 DEF IsRow
  <2>2. Begin(c, d, row, <<>>)
    BY <1>5 DEF UpdateReceipt
  <2> HIDE DEF row
  <2> QED BY <2>1, <2>2, BeginSteps
<1>6. ASSUME NEW s \in Skus, NEW q \in Counts, RecordMeasurement(c, d, s, q)
      PROVE  DocStep
  <2>1. PICK i \in DOMAIN docs[d].lines :
          Begin(c, d, [docs[d] EXCEPT !.lines[i].actual = q], <<>>)
    BY <1>6 DEF RecordMeasurement
  <2> DEFINE row == [docs[d] EXCEPT !.lines[i].actual = q]
  <2>2. row.status = docs[d].status
    BY <1>2 DEF IsRow
  <2>3. Begin(c, d, row, <<>>)
    BY <2>1
  <2> HIDE DEF row
  <2> QED BY <2>2, <2>3, BeginSteps
<1> QED BY <1>1, <1>4, <1>5, <1>6

LEMMA SaveSteps ==
  ASSUME DInv, NEW c \in DOMAIN request, Save(c)
  PROVE  DocStep
<1> DEFINE r == request[c]
<1>1. /\ r # NoRequest
      /\ \/ docs' = [docs EXCEPT ![r.doc].status = SavedStatus(r), ![r.doc].lines = SavedLines(r)]
         \/ docs' = docs
      /\ request' = [request EXCEPT ![c] = NoRequest]
  BY DEF Save
<1>2. r.row.status \in Decided \cup {r.was.status}
  BY <1>1 DEF DInv, Decides
<1>3. r.doc \in DOMAIN docs => SavedStatus(r) \in Decided \cup {docs[r.doc].status}
  BY <1>2 DEF SavedStatus
<1>4. /\ request' = [e \in DOMAIN request' |-> request'[e]]
      /\ \A e \in DOMAIN request' : Decides(request'[e])
  <2>1. Decides(NoRequest)
    BY DEF Decides
  <2> QED BY <1>1, <2>1, RequestReplaced
<1>5. CASE docs' = docs
  BY <1>4, <1>5 DEF DInv, DocStep, IsRow, Decides
<1>6. CASE docs' = [docs EXCEPT ![r.doc].status = SavedStatus(r), ![r.doc].lines = SavedLines(r)]
  <2> DEFINE d == r.doc
             status == SavedStatus(r)
             lines == SavedLines(r)
  <2>1. docs' = [docs EXCEPT ![d] = [[@ EXCEPT !.status = status] EXCEPT !.lines = lines]]
    BY <1>6 DEF DInv
  <2>2. d \in DOMAIN docs => status \in Decided \cup {docs[d].status}
    BY <1>3
  <2> HIDE DEF d, status, lines
  <2>3. /\ DOMAIN docs' = DOMAIN docs
        /\ docs' = [e \in DOMAIN docs' |-> docs'[e]]
        /\ \A e \in DOMAIN docs : e # d => docs'[e] = docs[e]
        /\ d \in DOMAIN docs => docs'[d] = [[docs[d] EXCEPT !.status = status] EXCEPT !.lines = lines]
    BY <2>1 DEF DInv
  <2>4. d \in DOMAIN docs => IsRow(docs'[d]) /\ docs'[d].status = status
    BY <2>3 DEF DInv, IsRow
  <2>5. \A e \in DOMAIN docs' : IsRow(docs'[e])
    BY <2>3, <2>4 DEF DInv
  <2> QED BY <2>2, <2>3, <2>4, <2>5, <1>4 DEF DInv, DocStep, IsRow, Decides
<1> QED BY <1>1, <1>5, <1>6

LEMMA ErasedIsRow ==
  ASSUME NEW row
  PROVE  IsRow(Erased(row))
BY DEF IsRow, Erased

LEMMA AdjustmentSteps ==
  ASSUME DInv, NEW d \in DOMAIN docs, NEW b, NEW lines, NEW small,
         InsertAdjustment(d, b, lines, small), UNCHANGED request
  PROVE  DocStep
<1> DEFINE row == [status |-> IF small THEN "APPROVED" ELSE "PENDING",
                   branch |-> b, to |-> b, lines |-> lines]
<1>1. docs[d].status = "NONE" /\ docs' = [docs EXCEPT ![d] = Erased(row)]
  BY DEF InsertAdjustment, Insert, Is
<1>2. IsRow(Erased(row))
  BY ErasedIsRow
<1> QED BY <1>1, <1>2, InsertSteps

LEMMA CreateSteps ==
  ASSUME DInv, Create
  PROVE  DocStep
<1>1. PICK d \in DOMAIN docs, b \in Branches :
        \/ CreateReceipt(d, b)
        \/ \E to \in Branches, f \in Forms : CreateTransfer(d, b, to, f)
        \/ \E f \in Changes, small \in BOOLEAN : CreateAdjustment(d, b, f, small)
        \/ StartStockTaking(d, b)
  BY DEF Create
<1>2. ASSUME NEW status, NEW to, NEW lines,
             Insert(d, [status |-> status, branch |-> b, to |-> to, lines |-> lines], <<>>),
             docs[d].status = "NONE", UNCHANGED request
      PROVE  DocStep
  <2> DEFINE row == [status |-> status, branch |-> b, to |-> to, lines |-> lines]
  <2>1. IsRow(row) /\ docs' = [docs EXCEPT ![d] = row]
    BY <1>2 DEF Insert, IsRow
  <2> QED BY <2>1, <1>2, InsertSteps
<1>3. CASE CreateReceipt(d, b)
  BY <1>2, <1>3 DEF CreateReceipt, Is
<1>4. CASE \E to \in Branches, f \in Forms : CreateTransfer(d, b, to, f)
  BY <1>2, <1>4 DEF CreateTransfer, Is
<1>5. CASE \E f \in Changes, small \in BOOLEAN : CreateAdjustment(d, b, f, small)
  BY <1>5, AdjustmentSteps DEF CreateAdjustment
<1>6. CASE StartStockTaking(d, b)
  <2> DEFINE row == [status |-> "STARTED", branch |-> b, to |-> b, lines |-> SnapshotForBranch(b)]
  <2>1. /\ docs[d].status = "NONE" /\ docs' = [docs EXCEPT ![d] = Erased(row)]
        /\ UNCHANGED request
    BY <1>6 DEF StartStockTaking, Insert, Is
  <2>2. IsRow(Erased(row))
    BY ErasedIsRow
  <2> QED BY <2>1, <2>2, InsertSteps
<1> QED BY <1>1, <1>3, <1>4, <1>5, <1>6

LEMMA HandleSteps ==
  ASSUME DInv, NEW h \in Handlers, Handle(h)
  PROVE  DocStep
<1>1. CASE CreateFromTaking(h)
  BY <1>1, AdjustmentSteps DEF CreateFromTaking
<1>2. CASE ~CreateFromTaking(h)
  <2>1. UNCHANGED <<docs, request>>
    BY <1>2 DEF Handle, docVars, Deliver, LookMarked, LookUnmarked, ApplyReceiptLine,
                ApplyAdjustmentLine, ApplyTransferOut, ApplyTransferIn, Refuse, Reread,
                RemoveBatches, SaveStock, SaveTo, Mark, Abort
  <2> QED BY <2>1, DocsUnchanged
<1> QED BY <1>1, <1>2

LEMMA DocStepAlways == DInv /\ [Next]_vars => DocStep
<1> SUFFICES ASSUME DInv, [Next]_vars PROVE DocStep
  OBVIOUS
<1>1. CASE UNCHANGED vars
  BY <1>1, DocsUnchanged DEF vars
<1> QED BY <1>1, CreateSteps, CommandSteps, SaveSteps, HandleSteps DEF Next

LEMMA InitDocs == Init => DInv
<1> SUFFICES ASSUME Init PROVE DInv
  OBVIOUS
<1>1. PICK s \in InitStates : docs = s.docs /\ request = [c \in s.clients |-> NoRequest]
  BY DEF Init
<1>2. docs \in [DOMAIN docs -> Row]
  BY <1>1, InventoryAssumption
<1>3. \A d \in DOMAIN docs : IsRow(docs[d])
  BY <1>2 DEF Row, IsRow
<1> QED BY <1>1, <1>2, <1>3 DEF DInv, Decides

\* A decided document stays decided, for any number of requests saving copies
\* of any age.
THEOREM DecidedForGood == Spec => DecisionIsFinal
<1>1. DInv /\ [Next]_vars => DInv'
  BY DocStepAlways DEF DocStep
<1>2. DInv /\ [Next]_vars
        => [\A d \in DOMAIN docs : docs[d].status \in Decided => docs'[d].status \in Decided]_vars
  BY DocStepAlways DEF DocStep
<1> QED BY InitDocs, <1>1, <1>2, PTL DEF Spec, DecisionIsFinal

(***************************************************************************)
(* Induction over finite sets.                                             *)
(***************************************************************************)
LEMMA LeastNumber ==
  ASSUME NEW T, T \subseteq Nat, T # {}
  PROVE  \E x \in T : \A y \in T : x <= y
<1> DEFINE R == {p \in Nat \X Nat : p[1] < p[2]}
<1>1. IsWellFoundedOn(R, Nat)
  BY NatLessThanWellFounded, Zenon DEF OpToRel
<1>2. PICK x \in T : \A y \in T : ~(<<y, x>> \in R)
  <2> HIDE DEF R
  <2> QED BY <1>1, WFMin
<1>3. ASSUME NEW y \in T PROVE x <= y
  <2>1. ~(<<y, x>>[1] < <<y, x>>[2])
    BY <1>2
  <2>2. x \in Nat /\ y \in Nat
    BY <1>2
  <2> QED BY <2>1, <2>2
<1> QED BY <1>2, <1>3

\* Induction over the subsets of a finite set; G are those with the property.
LEMMA SubsetInduction ==
  ASSUME NEW B, IsFiniteSet(B), NEW G, {} \in G,
         \A s \in SUBSET B : s # {} /\ (\A x \in s : s \ {x} \in G) => s \in G
  PROVE  \A s \in SUBSET B : s \in G
<1> SUFFICES ASSUME NEW b \in SUBSET B, b \notin G PROVE FALSE
  OBVIOUS
<1> DEFINE Bad == {s \in SUBSET B : s \notin G}
           T == {Cardinality(s) : s \in Bad}
<1>1. \A s \in SUBSET B : IsFiniteSet(s) /\ Cardinality(s) \in Nat
  BY FS_Subset, FS_CardinalityType
<1>2. T \subseteq Nat /\ T # {}
  BY <1>1
<1>3. PICK n \in T : \A y \in T : n <= y
  <2> HIDE DEF T
  <2> QED BY <1>2, LeastNumber
<1>4. PICK s \in Bad : Cardinality(s) = n
  BY <1>3
<1>5. s # {}
  BY <1>4
<1>6. PICK x \in s : s \ {x} \notin G
  BY <1>4, <1>5
<1>7. Cardinality(s \ {x}) = Cardinality(s) - 1
  BY <1>1, <1>4, <1>6, FS_RemoveElement
<1>8. Cardinality(s \ {x}) \in T
  BY <1>4, <1>6
<1>9. n <= Cardinality(s \ {x}) /\ n \in Nat
  BY <1>2, <1>3, <1>8
<1> QED BY <1>4, <1>7, <1>9

(***************************************************************************)
(* The total of a set of batches.  TotalQuantity folds over the set in an  *)
(* order CHOOSE picks; a finite set has such a fold (SumsExist), and the   *)
(* order makes no difference (TotalOfElement).                             *)
(***************************************************************************)
Picked(s) == CHOOSE x \in s : TRUE

SumOver(B, f) ==
  f = [s \in SUBSET B |-> IF s = {} THEN 0 ELSE Picked(s).remaining + f[s \ {Picked(s)}]]

LEMMA TotalIsSum == \A B : TotalQuantity(B) = (CHOOSE f : SumOver(B, f))[B]
BY DEF TotalQuantity, MapThenSumSet, MapThenFoldSet, SumOver, Picked

LEMMA SumStep ==
  ASSUME NEW B, NEW f, SumOver(B, f), NEW s \in SUBSET B
  PROVE  f[s] = IF s = {} THEN 0 ELSE Picked(s).remaining + f[s \ {Picked(s)}]
BY DEF SumOver

LEMMA PickedIn == \A s : s # {} => Picked(s) \in s
BY DEF Picked

\* Two folds agree on the sets both are over.
LEMMA SumsAgree ==
  ASSUME NEW B, IsFiniteSet(B), NEW C, NEW D, B \subseteq C, B \subseteq D,
         NEW f, NEW g, SumOver(C, f), SumOver(D, g)
  PROVE  f[B] = g[B]
<1> DEFINE G == {s \in SUBSET B : f[s] = g[s]}
<1>1. \A s \in SUBSET B :
        /\ f[s] = IF s = {} THEN 0 ELSE Picked(s).remaining + f[s \ {Picked(s)}]
        /\ g[s] = IF s = {} THEN 0 ELSE Picked(s).remaining + g[s \ {Picked(s)}]
  BY SumStep
<1>2. {} \in G
  BY <1>1
<1>3. ASSUME NEW s \in SUBSET B, s # {}, \A x \in s : s \ {x} \in G
      PROVE  s \in G
  BY <1>1, <1>3, PickedIn
<1>4. \A s \in SUBSET B : s \in G
  <2> HIDE DEF G
  <2> QED BY <1>2, <1>3, SubsetInduction
<1> QED BY <1>4

\* A fold over a set is one over each of its subsets.
LEMMA SumWithin ==
  ASSUME NEW C, NEW f, SumOver(C, f), NEW B \in SUBSET C
  PROVE  SumOver(B, [s \in SUBSET B |-> f[s]])
<1>1. \A s \in SUBSET B :
        f[s] = IF s = {} THEN 0 ELSE Picked(s).remaining + f[s \ {Picked(s)}]
  <2> TAKE s \in SUBSET B
  <2>1. s \in SUBSET C
    OBVIOUS
  <2> QED BY <2>1 DEF SumOver
<1>2. \A s \in SUBSET B : s # {} => s \ {Picked(s)} \in SUBSET B
  OBVIOUS
<1> QED BY <1>1, <1>2 DEF SumOver

\* The total of a set is read off any fold over a larger one.
LEMMA TotalFromSum ==
  ASSUME NEW B, IsFiniteSet(B), NEW C, B \subseteq C, NEW f, SumOver(C, f)
  PROVE  TotalQuantity(B) = f[B]
<1> DEFINE g == CHOOSE g : SumOver(B, g)
<1>1. SumOver(B, g)
  <2>1. SumOver(B, [s \in SUBSET B |-> f[s]])
    BY SumWithin
  <2> QED BY <2>1
<1>2. TotalQuantity(B) = g[B]
  BY TotalIsSum
<1> HIDE DEF g
<1> QED BY <1>1, <1>2, SumsAgree

\* A finite set has a fold.
LEMMA SumsExist ==
  ASSUME NEW B, IsFiniteSet(B)
  PROVE  \E f : SumOver(B, f)
<1> DEFINE G == {s \in SUBSET B : \E f : SumOver(s, f)}
<1>1. {} \in G
  <2> DEFINE f == [s \in SUBSET {} |-> 0]
  <2>1. SumOver({}, f)
    BY DEF SumOver
  <2> QED BY <2>1
<1>2. ASSUME NEW s \in SUBSET B, s # {}, \A x \in s : s \ {x} \in G
      PROVE  s \in G
  <2> DEFINE g == [t \in SUBSET s |-> IF t = {} THEN 0
                     ELSE Picked(t).remaining + TotalQuantity(t \ {Picked(t)})]
  <2>1. ASSUME NEW t \in SUBSET s, t # s PROVE TotalQuantity(t) = g[t]
    <3>1. PICK x \in s : x \notin t
      BY <2>1
    <3>2. PICK f : SumOver(s \ {x}, f)
      BY <1>2
    <3>3. \A u \in SUBSET t : TotalQuantity(u) = f[u]
      <4> TAKE u \in SUBSET t
      <4>1. IsFiniteSet(u) /\ u \subseteq s \ {x}
        BY <3>1, FS_Subset
      <4> QED BY <4>1, <3>2, TotalFromSum
    <3>4. f[t] = IF t = {} THEN 0 ELSE Picked(t).remaining + f[t \ {Picked(t)}]
      <4>1. t \in SUBSET (s \ {x})
        BY <3>1
      <4> QED BY <4>1, <3>2, SumStep
    <3> QED BY <3>3, <3>4
  <2>2. ASSUME NEW t \in SUBSET s, t # {}
        PROVE  g[t] = Picked(t).remaining + g[t \ {Picked(t)}]
    <3>1. t \ {Picked(t)} \in SUBSET s /\ t \ {Picked(t)} # s
      BY <2>2, PickedIn
    <3>2. TotalQuantity(t \ {Picked(t)}) = g[t \ {Picked(t)}]
      BY <3>1, <2>1
    <3> QED BY <2>2, <3>2
  <2>3. SumOver(s, g)
    <3>1. g = [t \in SUBSET s |-> g[t]] /\ g[{}] = 0
      OBVIOUS
    <3> HIDE DEF g
    <3>2. \A t \in SUBSET s : g[t] = IF t = {} THEN 0 ELSE Picked(t).remaining + g[t \ {Picked(t)}]
      BY <2>2, <3>1
    <3> QED BY <3>1, <3>2 DEF SumOver
  <2> QED BY <2>3
<1>3. \A s \in SUBSET B : s \in G
  <2> HIDE DEF G
  <2> QED BY <1>1, <1>2, SubsetInduction
<1> QED BY <1>3

\* The total takes away one batch after the other.
LEMMA TotalStep ==
  ASSUME NEW B, IsFiniteSet(B)
  PROVE  TotalQuantity(B) = IF B = {} THEN 0
                            ELSE Picked(B).remaining + TotalQuantity(B \ {Picked(B)})
<1>1. PICK f : SumOver(B, f)
  BY SumsExist
<1>2. \A s \in SUBSET B : TotalQuantity(s) = f[s]
  <2> TAKE s \in SUBSET B
  <2>1. IsFiniteSet(s)
    BY FS_Subset
  <2> QED BY <1>1, <2>1, TotalFromSum
<1>3. f[B] = IF B = {} THEN 0 ELSE Picked(B).remaining + f[B \ {Picked(B)}]
  BY <1>1, SumStep
<1> QED BY <1>2, <1>3

LEMMA TotalEmpty == TotalQuantity({}) = 0
<1>1. IsFiniteSet({})
  BY FS_EmptySet
<1> QED BY <1>1, TotalStep

\* Whichever batch is taken first, the total is its quantity and that of the others.
LEMMA TotalOfElement ==
  ASSUME NEW B, IsFiniteSet(B), \A b \in B : b.remaining \in Int
  PROVE  /\ TotalQuantity(B) \in Int
         /\ \A b \in B : TotalQuantity(B) = b.remaining + TotalQuantity(B \ {b})
<1> DEFINE OK(s) == /\ TotalQuantity(s) \in Int
                    /\ \A b \in s : TotalQuantity(s) = b.remaining + TotalQuantity(s \ {b})
           G == {s \in SUBSET B : \A t \in SUBSET s : OK(t)}
<1>0. \A s \in SUBSET B : IsFiniteSet(s)
  BY FS_Subset
<1>1. {} \in G
  <2>1. OK({})
    BY TotalEmpty
  <2>2. \A t \in SUBSET {} : t = {}
    OBVIOUS
  <2> HIDE DEF OK
  <2> QED BY <2>1, <2>2
<1>2. ASSUME NEW s \in SUBSET B, s # {}, \A x \in s : s \ {x} \in G
      PROVE  s \in G
  <2> DEFINE p == Picked(s)
  <2>0. \A t \in SUBSET s : t # s => OK(t)
    <3> TAKE t \in SUBSET s
    <3> HAVE t # s
    <3>1. PICK x \in s : x \notin t
      OBVIOUS
    <3>2. t \in SUBSET (s \ {x})
      BY <3>1
    <3> QED BY <1>2, <3>2
  <2> HIDE DEF OK
  <2>1. p \in s /\ TotalQuantity(s) = p.remaining + TotalQuantity(s \ {p}) /\ p.remaining \in Int
    BY <1>0, <1>2, TotalStep, PickedIn
  <2> HIDE DEF p
  <2>2. OK(s \ {p})
    BY <2>0, <2>1
  <2>3. TotalQuantity(s) \in Int
    BY <2>1, <2>2 DEF OK
  <2>4. ASSUME NEW b \in s PROVE TotalQuantity(s) = b.remaining + TotalQuantity(s \ {b})
    <3>1. CASE b = p
      BY <2>1, <3>1
    <3>2. CASE b # p
      <4>1. TotalQuantity(s \ {p}) = b.remaining + TotalQuantity((s \ {p}) \ {b})
        BY <2>2, <3>2 DEF OK
      <4>2. TotalQuantity(s \ {b}) = p.remaining + TotalQuantity((s \ {b}) \ {p})
        <5>1. OK(s \ {b})
          BY <2>0
        <5> QED BY <2>1, <3>2, <5>1 DEF OK
      <4>3. (s \ {p}) \ {b} = (s \ {b}) \ {p}
        OBVIOUS
      <4>4. OK((s \ {p}) \ {b})
        <5>1. (s \ {p}) \ {b} \in SUBSET s /\ (s \ {p}) \ {b} # s
          OBVIOUS
        <5> QED BY <2>0, <5>1
      <4>5. b.remaining \in Int /\ p.remaining \in Int /\ TotalQuantity((s \ {p}) \ {b}) \in Int
        BY <2>1, <4>4 DEF OK
      <4> DEFINE rest == TotalQuantity((s \ {p}) \ {b})
                 but_p == TotalQuantity(s \ {p})
                 but_b == TotalQuantity(s \ {b})
      <4>6. /\ TotalQuantity(s) = p.remaining + but_p /\ but_p = b.remaining + rest
            /\ but_b = p.remaining + rest /\ rest \in Int
        BY <2>1, <4>1, <4>2, <4>3, <4>5
      <4> HIDE DEF rest, but_p, but_b
      <4>7. TotalQuantity(s) = b.remaining + but_b
        BY <4>5, <4>6
      <4> QED BY <4>7 DEF but_b
    <3> QED BY <3>1, <3>2
  <2>5. OK(s)
    BY <2>3, <2>4 DEF OK
  <2> QED BY <2>0, <2>5
<1>3. \A s \in SUBSET B : s \in G
  <2> HIDE DEF G
  <2> QED BY <1>1, <1>2, SubsetInduction
<1> QED BY <1>3

(***************************************************************************)
(* Totals of images.  A function on batches that is one-to-one carries     *)
(* over sums: what each of a set of batches becomes is added up.           *)
(***************************************************************************)
Img(f, P) == {f[s] : s \in P}

OneToOne(f, S) == /\ \A s, t \in S : f[s] = f[t] => s = t
                  /\ \A s \in S : f[s].remaining \in Int

LEMMA ImgFinite ==
  ASSUME NEW f, NEW P, IsFiniteSet(P)
  PROVE  IsFiniteSet(Img(f, P))
<1> DEFINE g == [s \in P |-> f[s]]
<1>1. g \in Surjection(P, Img(f, P))
  BY DEF Surjection, Img
<1> QED BY <1>1, FS_Surjection DEF ExistsSurjection

\* What one more batch becomes is added.
LEMMA ImgStep ==
  ASSUME NEW S, NEW f, OneToOne(f, S), NEW P \in SUBSET S, IsFiniteSet(P), NEW x \in P
  PROVE  /\ TotalQuantity(Img(f, P)) \in Int
         /\ TotalQuantity(Img(f, P \ {x})) \in Int
         /\ TotalQuantity(Img(f, P)) = f[x].remaining + TotalQuantity(Img(f, P \ {x}))
<1>1. IsFiniteSet(Img(f, P)) /\ IsFiniteSet(Img(f, P \ {x}))
  BY ImgFinite, FS_Subset
<1>2. (\A b \in Img(f, P) : b.remaining \in Int) /\ (\A b \in Img(f, P \ {x}) : b.remaining \in Int)
  BY DEF Img, OneToOne
<1>3. f[x] \in Img(f, P) /\ Img(f, P) \ {f[x]} = Img(f, P \ {x})
  BY DEF Img, OneToOne
<1> QED BY <1>1, <1>2, <1>3, TotalOfElement

LEMMA ImgEmpty == \A f : TotalQuantity(Img(f, {})) = 0
<1> TAKE f
<1>1. Img(f, {}) = {}
  BY DEF Img
<1> QED BY <1>1, TotalEmpty

\* What is left and what is taken add up to what there was.
LEMMA ImgAdd ==
  ASSUME NEW S, IsFiniteSet(S), NEW f, NEW g, NEW e,
         OneToOne(f, S), OneToOne(g, S), OneToOne(e, S),
         \A s \in S : e[s].remaining = f[s].remaining + g[s].remaining
  PROVE  TotalQuantity(Img(e, S)) = TotalQuantity(Img(f, S)) + TotalQuantity(Img(g, S))
<1> DEFINE G == {P \in SUBSET S :
                   TotalQuantity(Img(e, P)) = TotalQuantity(Img(f, P)) + TotalQuantity(Img(g, P))}
<1>1. {} \in G
  BY ImgEmpty
<1>2. ASSUME NEW P \in SUBSET S, P # {}, \A x \in P : P \ {x} \in G
      PROVE  P \in G
  <2>1. PICK x \in P : TRUE
    BY <1>2
  <2>2. IsFiniteSet(P)
    BY FS_Subset
  <2> DEFINE ef == TotalQuantity(Img(e, P \ {x}))
             ff == TotalQuantity(Img(f, P \ {x}))
             gf == TotalQuantity(Img(g, P \ {x}))
  <2>3. /\ TotalQuantity(Img(e, P)) = e[x].remaining + ef /\ ef \in Int
        /\ TotalQuantity(Img(f, P)) = f[x].remaining + ff /\ ff \in Int
        /\ TotalQuantity(Img(g, P)) = g[x].remaining + gf /\ gf \in Int
    BY <2>2, ImgStep
  <2>4. ef = ff + gf
    BY <1>2
  <2>5. /\ e[x].remaining = f[x].remaining + g[x].remaining
        /\ f[x].remaining \in Int /\ g[x].remaining \in Int
    BY DEF OneToOne
  <2> HIDE DEF ef, ff, gf
  <2>6. TotalQuantity(Img(e, P)) = TotalQuantity(Img(f, P)) + TotalQuantity(Img(g, P))
    BY <2>3, <2>4, <2>5
  <2> QED BY <2>6
<1>3. \A P \in SUBSET S : P \in G
  <2> HIDE DEF G
  <2> QED BY <1>1, <1>2, SubsetInduction
<1> QED BY <1>3

\* Images of the same quantities have the same total.
LEMMA ImgSame ==
  ASSUME NEW S, IsFiniteSet(S), NEW f, NEW g, OneToOne(f, S), OneToOne(g, S),
         \A s \in S : f[s].remaining = g[s].remaining
  PROVE  TotalQuantity(Img(f, S)) = TotalQuantity(Img(g, S))
<1> DEFINE G == {P \in SUBSET S : TotalQuantity(Img(f, P)) = TotalQuantity(Img(g, P))}
<1>1. {} \in G
  BY ImgEmpty
<1>2. ASSUME NEW P \in SUBSET S, P # {}, \A x \in P : P \ {x} \in G
      PROVE  P \in G
  <2>1. PICK x \in P : TRUE
    BY <1>2
  <2>2. IsFiniteSet(P)
    BY FS_Subset
  <2>3. /\ TotalQuantity(Img(f, P)) = f[x].remaining + TotalQuantity(Img(f, P \ {x}))
        /\ TotalQuantity(Img(g, P)) = g[x].remaining + TotalQuantity(Img(g, P \ {x}))
    BY <2>2, ImgStep
  <2>4. TotalQuantity(Img(f, P \ {x})) = TotalQuantity(Img(g, P \ {x}))
    BY <1>2
  <2>5. f[x].remaining = g[x].remaining
    OBVIOUS
  <2> QED BY <2>3, <2>4, <2>5
<1>3. \A P \in SUBSET S : P \in G
  <2> HIDE DEF G
  <2> QED BY <1>1, <1>2, SubsetInduction
<1> QED BY <1>3

\* Empty batches add nothing.
LEMMA ImgZero ==
  ASSUME NEW S, IsFiniteSet(S), NEW f, OneToOne(f, S), NEW Q \in SUBSET S,
         \A s \in S \ Q : f[s].remaining = 0
  PROVE  TotalQuantity(Img(f, S)) = TotalQuantity(Img(f, Q))
<1> DEFINE G == {P \in SUBSET S : TotalQuantity(Img(f, P)) = TotalQuantity(Img(f, P \cap Q))}
<1>1. {} \in G
  BY ImgEmpty
<1>2. ASSUME NEW P \in SUBSET S, P # {}, \A x \in P : P \ {x} \in G
      PROVE  P \in G
  <2>1. PICK x \in P : TRUE
    BY <1>2
  <2>2. IsFiniteSet(P) /\ IsFiniteSet(P \cap Q)
    BY FS_Subset
  <2>3. /\ TotalQuantity(Img(f, P)) = f[x].remaining + TotalQuantity(Img(f, P \ {x}))
        /\ TotalQuantity(Img(f, P \ {x})) \in Int
    BY <2>2, ImgStep
  <2>4. TotalQuantity(Img(f, P \ {x})) = TotalQuantity(Img(f, (P \ {x}) \cap Q))
    BY <1>2
  <2>5. CASE x \in Q
    <3>1. TotalQuantity(Img(f, P \cap Q))
            = f[x].remaining + TotalQuantity(Img(f, (P \cap Q) \ {x}))
      BY <2>2, <2>5, ImgStep
    <3>2. (P \cap Q) \ {x} = (P \ {x}) \cap Q
      OBVIOUS
    <3> QED BY <2>3, <2>4, <3>1, <3>2
  <2>6. CASE x \notin Q
    <3>1. f[x].remaining = 0 /\ (P \ {x}) \cap Q = P \cap Q
      BY <2>6
    <3>2. TotalQuantity(Img(f, P)) = TotalQuantity(Img(f, P \ {x}))
      BY <2>3, <3>1
    <3> QED BY <2>4, <3>1, <3>2
  <2> QED BY <2>5, <2>6
<1>3. \A P \in SUBSET S : P \in G
  <2> HIDE DEF G
  <2> QED BY <1>1, <1>2, SubsetInduction
<1>4. S \cap Q = Q
  OBVIOUS
<1> QED BY <1>3, <1>4

(***************************************************************************)
(* The order batches go in, and what a write-off takes.                    *)
(***************************************************************************)
\* Batches whose ids tell them apart.
Clean(B) == /\ B \subseteq Batch /\ IsFiniteSet(B)
            /\ \A a, b \in B : a.id = b.id => a = b

\* Some of the batches of a stock are as tidy as all of them.
LEMMA CleanSubset == ASSUME NEW B, Clean(B), NEW A \in SUBSET B PROVE Clean(A)
BY FS_Subset DEF Clean

\* The order, key by key.
LEMMA GoesFirstIs ==
  ASSUME NEW a, NEW b
  PROVE  GoesFirst(a, b) <=>
           LET later == \/ a.received < b.received
                        \/ a.received = b.received /\ a.id < b.id
           IN  IF Strategy = "FEFO"
               THEN a.expires < b.expires \/ (a.expires = b.expires /\ later)
               ELSE later
<1>1. CASE Strategy = "FEFO"
  <2> DEFINE keys == <<<<a.expires, b.expires>>, <<a.received, b.received>>, <<a.id, b.id>>>>
  <2>1. GoesFirst(a, b) <=> \E i \in 1 .. 3 : /\ keys[i][1] < keys[i][2]
                                             /\ \A j \in 1 .. i - 1 : keys[j][1] = keys[j][2]
    BY <1>1 DEF GoesFirst
  <2>2. /\ keys[1][1] = a.expires /\ keys[1][2] = b.expires
        /\ keys[2][1] = a.received /\ keys[2][2] = b.received
        /\ keys[3][1] = a.id /\ keys[3][2] = b.id
    OBVIOUS
  <2> HIDE DEF keys
  <2>3. 1 .. 3 = {1, 2, 3} /\ 1 .. 1 - 1 = {} /\ 1 .. 2 - 1 = {1} /\ 1 .. 3 - 1 = {1, 2}
    OBVIOUS
  <2> QED BY <1>1, <2>1, <2>2, <2>3
<1>2. CASE Strategy = "FIFO"
  <2> DEFINE keys == <<<<a.received, b.received>>, <<a.id, b.id>>>>
  <2>1. GoesFirst(a, b) <=> \E i \in 1 .. 2 : /\ keys[i][1] < keys[i][2]
                                             /\ \A j \in 1 .. i - 1 : keys[j][1] = keys[j][2]
    BY <1>2 DEF GoesFirst
  <2>2. /\ keys[1][1] = a.received /\ keys[1][2] = b.received
        /\ keys[2][1] = a.id /\ keys[2][2] = b.id
    OBVIOUS
  <2> HIDE DEF keys
  <2>3. 1 .. 2 = {1, 2} /\ 1 .. 1 - 1 = {} /\ 1 .. 2 - 1 = {1}
    OBVIOUS
  <2> QED BY <1>2, <2>1, <2>2, <2>3
<1> QED BY <1>1, <1>2, StrategyAssumption

\* On batches with ids of their own the order is strict and total.
LEMMA GoesFirstOrders ==
  ASSUME NEW B, Clean(B)
  PROVE  /\ \A a \in B : ~GoesFirst(a, a)
         /\ \A a, b \in B : GoesFirst(a, b) => ~GoesFirst(b, a)
         /\ \A a, b \in B : a # b => GoesFirst(a, b) \/ GoesFirst(b, a)
         /\ \A a, b, c \in B : GoesFirst(a, b) /\ GoesFirst(b, c) => GoesFirst(a, c)
<1>1. \A a \in B : a.expires \in Nat /\ a.received \in Nat /\ a.id \in Nat
  BY DEF Clean, Batch
<1>2. \A a, b \in B : a # b => a.id # b.id
  BY DEF Clean
<1>3. \A a \in B : ~GoesFirst(a, a)
  BY <1>1, GoesFirstIs
<1>4. \A a, b \in B : GoesFirst(a, b) => ~GoesFirst(b, a)
  BY <1>1, GoesFirstIs
<1>5. \A a, b \in B : a # b => GoesFirst(a, b) \/ GoesFirst(b, a)
  BY <1>1, <1>2, GoesFirstIs
<1>6. \A a, b, c \in B : GoesFirst(a, b) /\ GoesFirst(b, c) => GoesFirst(a, c)
  BY <1>1, GoesFirstIs
<1> QED BY <1>3, <1>4, <1>5, <1>6

\* One batch goes after all others.
LEMMA LastBatch ==
  ASSUME NEW B, Clean(B), B # {}
  PROVE  \E m \in B : \A b \in B \ {m} : GoesFirst(b, m)
<1> DEFINE G == {P \in SUBSET B : P = {} \/ \E m \in P : \A b \in P \ {m} : GoesFirst(b, m)}
<1>1. {} \in G /\ IsFiniteSet(B)
  BY DEF Clean
<1>2. ASSUME NEW P \in SUBSET B, P # {}, \A x \in P : P \ {x} \in G
      PROVE  P \in G
  <2>1. PICK x \in P : TRUE
    BY <1>2
  <2>2. CASE P \ {x} = {}
    BY <2>2
  <2>3. CASE P \ {x} # {}
    <3>1. PICK m \in P \ {x} : \A b \in (P \ {x}) \ {m} : GoesFirst(b, m)
      BY <1>2, <2>3
    <3>2. CASE GoesFirst(x, m)
      BY <3>1, <3>2
    <3>3. CASE GoesFirst(m, x)
      <4>1. \A b \in P \ {x} : GoesFirst(b, x)
        BY <3>1, <3>3, GoesFirstOrders
      <4> QED BY <4>1
    <3> QED BY <3>1, <3>2, <3>3, GoesFirstOrders
  <2> QED BY <2>2, <2>3
<1>3. \A P \in SUBSET B : P \in G
  <2> HIDE DEF G
  <2> QED BY <1>1, <1>2, SubsetInduction
<1> QED BY <1>3

LEMMA CleanTotal ==
  ASSUME NEW B, Clean(B)
  PROVE  /\ TotalQuantity(B) \in Int
         /\ \A b \in B : /\ TotalQuantity(B) = b.remaining + TotalQuantity(B \ {b})
                         /\ b.remaining \in Nat
BY TotalOfElement DEF Clean, Batch

\* A part of the batches holds no more than all of them.
LEMMA TotalMonotone ==
  ASSUME NEW B, Clean(B), NEW A \in SUBSET B
  PROVE  TotalQuantity(A) \in Nat /\ TotalQuantity(A) <= TotalQuantity(B)
<1> DEFINE G == {P \in SUBSET B : /\ TotalQuantity(P) \in Nat
                                  /\ \A Q \in SUBSET P : TotalQuantity(Q) \in Nat
                                                         /\ TotalQuantity(Q) <= TotalQuantity(P)}
<1>1. {} \in G /\ IsFiniteSet(B)
  BY TotalEmpty DEF Clean
<1>2. ASSUME NEW P \in SUBSET B, P # {}, \A x \in P : P \ {x} \in G
      PROVE  P \in G
  <2>1. Clean(P)
    BY CleanSubset
  <2>2. \A x \in P : /\ TotalQuantity(P) = x.remaining + TotalQuantity(P \ {x})
                     /\ x.remaining \in Nat
                     /\ TotalQuantity(P \ {x}) \in Nat
    BY <1>2, <2>1, CleanTotal
  <2>3. PICK x \in P : TRUE
    BY <1>2
  <2>4. TotalQuantity(P) \in Nat
    <3> DEFINE rest == TotalQuantity(P \ {x})
    <3>1. TotalQuantity(P) = x.remaining + rest /\ x.remaining \in Nat /\ rest \in Nat
      BY <2>2, <2>3
    <3> HIDE DEF rest
    <3> QED BY <3>1
  <2>5. ASSUME NEW Q \in SUBSET P
        PROVE  TotalQuantity(Q) \in Nat /\ TotalQuantity(Q) <= TotalQuantity(P)
    <3>1. CASE Q = P
      BY <2>4, <3>1
    <3>2. CASE Q # P
      <4>1. PICK y \in P : y \notin Q
        BY <3>2
      <4>2. TotalQuantity(Q) \in Nat /\ TotalQuantity(Q) <= TotalQuantity(P \ {y})
        BY <1>2, <4>1
      <4> QED BY <2>2, <4>2
    <3> QED BY <3>1, <3>2
  <2> QED BY <2>4, <2>5
<1>3. \A P \in SUBSET B : P \in G
  <2> HIDE DEF G
  <2> QED BY <1>1, <1>2, SubsetInduction
<1> QED BY <1>3

\* What a write-off takes from the batches, and what it leaves.
Takes(B, amount, at) == [b \in B |-> [b EXCEPT !.remaining = TakenFrom(B, b, amount, at)]]
Leaves(B, amount, at) == [b \in B |-> [b EXCEPT !.remaining = @ - TakenFrom(B, b, amount, at)]]

\* No more is taken from a batch than it holds, and only from an available one.
LEMMA TakenBounds ==
  ASSUME NEW B, Clean(B), NEW amount \in Int, NEW at \in Nat, NEW b \in B
  PROVE  /\ TakenFrom(B, b, amount, at) \in 0 .. b.remaining
         /\ TakenFrom(B, b, amount, at) > 0 => b \in Available(B, at)
<1>1. b.remaining \in Nat
  BY DEF Clean, Batch
<1>2. {c \in Available(B, at) : GoesFirst(c, b)} \in SUBSET B
  BY DEF Available
<1> DEFINE first == TotalQuantity({c \in Available(B, at) : GoesFirst(c, b)})
<1>3. first \in Nat
  BY <1>2, TotalMonotone
<1>4. TakenFrom(B, b, amount, at) =
        IF b \notin Available(B, at) \/ amount - first <= 0 THEN 0
        ELSE IF amount - first < b.remaining THEN amount - first ELSE b.remaining
  BY DEF TakenFrom
<1> HIDE DEF first
<1> QED BY <1>1, <1>3, <1>4

\* Batches keep their ids, so none is lost by becoming another's twin.
LEMMA RecordsOneToOne ==
  ASSUME NEW B, Clean(B), NEW amount \in Int, NEW at \in Nat
  PROVE  /\ OneToOne(Takes(B, amount, at), B)
         /\ OneToOne(Leaves(B, amount, at), B)
         /\ OneToOne([b \in B |-> b], B)
         /\ \A b \in B : /\ Takes(B, amount, at)[b].remaining = TakenFrom(B, b, amount, at)
                         /\ Leaves(B, amount, at)[b].remaining
                              = b.remaining - TakenFrom(B, b, amount, at)
                         /\ Leaves(B, amount, at)[b] \in Batch
                         /\ Leaves(B, amount, at)[b].id = b.id
<1>1. \A b \in B : /\ b \in Batch /\ b.remaining \in Nat
                   /\ TakenFrom(B, b, amount, at) \in 0 .. b.remaining
  BY TakenBounds DEF Clean, Batch
<1>2. ASSUME NEW b \in B
      PROVE  /\ Takes(B, amount, at)[b].remaining = TakenFrom(B, b, amount, at)
             /\ Takes(B, amount, at)[b].id = b.id
             /\ Leaves(B, amount, at)[b].remaining = b.remaining - TakenFrom(B, b, amount, at)
             /\ Leaves(B, amount, at)[b].id = b.id
             /\ Leaves(B, amount, at)[b] \in Batch
  <2> DEFINE taken == TakenFrom(B, b, amount, at)
  <2>1. /\ Takes(B, amount, at)[b] = [b EXCEPT !.remaining = taken]
        /\ Leaves(B, amount, at)[b] = [b EXCEPT !.remaining = b.remaining - taken]
    BY DEF Takes, Leaves
  <2>2. taken \in Nat /\ b.remaining - taken \in Nat /\ b \in Batch
    BY <1>1
  <2> HIDE DEF taken
  <2>3. /\ [b EXCEPT !.remaining = b.remaining - taken].remaining = b.remaining - taken
        /\ [b EXCEPT !.remaining = taken].remaining = taken
        /\ [b EXCEPT !.remaining = b.remaining - taken].id = b.id
        /\ [b EXCEPT !.remaining = taken].id = b.id
        /\ [b EXCEPT !.remaining = b.remaining - taken] \in Batch
    BY <2>2 DEF Batch
  <2> QED BY <2>1, <2>3 DEF taken
<1>3. \A a, b \in B : a.id = b.id => a = b
  BY DEF Clean
<1>4. OneToOne(Takes(B, amount, at), B)
  BY <1>1, <1>2, <1>3 DEF OneToOne
<1>5. OneToOne(Leaves(B, amount, at), B)
  BY <1>1, <1>2, <1>3 DEF OneToOne
<1>6. OneToOne([b \in B |-> b], B)
  BY <1>1 DEF OneToOne
<1> QED BY <1>2, <1>4, <1>5, <1>6

\* From batches that go before all other available ones, as much is taken as
\* they hold, up to the amount.
LEMMA TakenFromFirst ==
  ASSUME NEW B, Clean(B), NEW amount \in Nat, NEW at \in Nat,
         NEW P \in SUBSET Available(B, at),
         \A b \in P, c \in Available(B, at) : GoesFirst(c, b) => c \in P
  PROVE  TotalQuantity(Img(Takes(B, amount, at), P))
           = IF TotalQuantity(P) < amount THEN TotalQuantity(P) ELSE amount
<1> DEFINE A == Available(B, at)
           f == Takes(B, amount, at)
           Down(Q) == \A b \in Q, c \in A : GoesFirst(c, b) => c \in Q
           Fits(Q) == TotalQuantity(Img(f, Q))
                        = IF TotalQuantity(Q) < amount THEN TotalQuantity(Q) ELSE amount
           G == {Q \in SUBSET A : Down(Q) => Fits(Q)}
<1>1. A \subseteq B /\ IsFiniteSet(A) /\ Clean(A)
  <2>1. A \in SUBSET B
    BY DEF Available
  <2> QED BY <2>1, CleanSubset DEF Clean
<1>2. /\ OneToOne(f, B)
      /\ \A b \in B : f[b].remaining = TakenFrom(B, b, amount, at)
  <2>1. amount \in Int
    OBVIOUS
  <2>2. /\ OneToOne(Takes(B, amount, at), B)
        /\ \A b \in B : Takes(B, amount, at)[b].remaining = TakenFrom(B, b, amount, at)
    BY <2>1, RecordsOneToOne
  <2> QED BY <2>2
<1>3. \A Q \in SUBSET A : TotalQuantity(Q) \in Nat
  BY <1>1, TotalMonotone
<1> HIDE DEF f
<1>4. {} \in G
  BY ImgEmpty, TotalEmpty
<1>5. ASSUME NEW Q \in SUBSET A, Q # {}, \A x \in Q : Q \ {x} \in G
      PROVE  Q \in G
  <2> SUFFICES ASSUME Down(Q) PROVE Fits(Q)
    OBVIOUS
  <2>1. Clean(Q) /\ IsFiniteSet(Q) /\ Q \in SUBSET B
    BY <1>1, CleanSubset DEF Clean
  <2>2. PICK m \in Q : \A b \in Q \ {m} : GoesFirst(b, m)
    BY <1>5, <2>1, LastBatch
  <2> DEFINE rest == Q \ {m}
  <2>3. {c \in A : GoesFirst(c, m)} = rest
    <3>1. \A c \in A : GoesFirst(c, m) => c \in Q /\ c # m
      BY <1>1, GoesFirstOrders
    <3> QED BY <2>2, <3>1
  <2>4. Down(rest)
    <3> SUFFICES ASSUME NEW b \in rest, NEW c \in A, GoesFirst(c, b) PROVE c \in rest
      OBVIOUS
    <3>1. c \in Q
      OBVIOUS
    <3>2. c # m
      BY <1>1, <2>2, GoesFirstOrders
    <3> QED BY <3>1, <3>2
  <2>5. Fits(rest)
    BY <1>5, <2>4
  <2> DEFINE before == TotalQuantity(rest)
             taken == TotalQuantity(Img(f, rest))
  <2>6. m \in A /\ m \in B /\ m.remaining \in Nat
    BY <1>1, <2>1 DEF Clean, Batch
  <2>7. f[m].remaining = IF amount - before <= 0 THEN 0
                         ELSE IF amount - before < m.remaining THEN amount - before ELSE m.remaining
    BY <1>2, <2>3, <2>6 DEF TakenFrom
  <2>8. TotalQuantity(Img(f, Q)) = f[m].remaining + taken /\ taken \in Int
    BY <1>2, <2>1, ImgStep
  <2>9. TotalQuantity(Q) = m.remaining + before /\ before \in Nat
    BY <1>3, <2>1, CleanTotal
  <2>10. taken = IF before < amount THEN before ELSE amount
    BY <2>5
  <2> HIDE DEF before, taken, rest
  <2> QED BY <2>6, <2>7, <2>8, <2>9, <2>10
<1>6. \A Q \in SUBSET A : Q \in G
  <2> HIDE DEF G, A
  <2> QED BY <1>1, <1>4, <1>5, SubsetInduction
<1> QED BY <1>6 DEF f

LEMMA LeftRecord ==
  ASSUME NEW B, Clean(B), NEW amount \in Int, NEW at \in Nat, NEW b \in B
  PROVE  /\ Leaves(B, amount, at)[b].remaining = b.remaining - TakenFrom(B, b, amount, at)
         /\ Leaves(B, amount, at)[b] \in Batch
         /\ Leaves(B, amount, at)[b].id = b.id
<1>1. Leaves(B, amount, at)[b] = [b EXCEPT !.remaining = b.remaining - TakenFrom(B, b, amount, at)]
  BY DEF Leaves
<1> DEFINE taken == TakenFrom(B, b, amount, at)
<1>2. b \in Batch /\ b.remaining \in Nat /\ taken \in 0 .. b.remaining
  BY TakenBounds DEF Clean, Batch
<1> HIDE DEF taken
<1>3. /\ [b EXCEPT !.remaining = b.remaining - taken].remaining = b.remaining - taken
      /\ [b EXCEPT !.remaining = b.remaining - taken].id = b.id
      /\ [b EXCEPT !.remaining = b.remaining - taken] \in Batch
  BY <1>2 DEF Batch
<1> QED BY <1>1, <1>3 DEF taken

\* A covered amount is taken in full.
LEMMA AllTaken ==
  ASSUME NEW B, Clean(B), NEW amount \in Nat, NEW at \in Nat,
         amount <= TotalQuantity(Available(B, at))
  PROVE  TotalQuantity(Img(Takes(B, amount, at), B)) = amount
<1> DEFINE A == Available(B, at)
           f == Takes(B, amount, at)
<1>1. A \in SUBSET B /\ IsFiniteSet(B) /\ amount \in Int
  BY DEF Available, Clean
<1>2. /\ OneToOne(f, B)
      /\ \A b \in B : f[b].remaining = TakenFrom(B, b, amount, at)
  BY <1>1, RecordsOneToOne
<1>3. \A b \in B \ A : f[b].remaining = 0
  BY <1>2 DEF TakenFrom
<1>4. TotalQuantity(Img(f, A)) = IF TotalQuantity(A) < amount THEN TotalQuantity(A) ELSE amount
  BY TakenFromFirst
<1>5. TotalQuantity(A) \in Nat
  BY <1>1, TotalMonotone
<1>6. TotalQuantity(Img(f, B)) = TotalQuantity(Img(f, A))
  <2> HIDE DEF A, f
  <2> QED BY <1>1, <1>2, <1>3, ImgZero
<1> QED BY <1>4, <1>5, <1>6

LEMMA WriteOffIs ==
  ASSUME NEW B, NEW amount, NEW at
  PROVE  WriteOff(B, amount, at) = {c \in Img(Leaves(B, amount, at), B) : c.remaining # 0}
<1>1. Img(Leaves(B, amount, at), B)
        = {[b EXCEPT !.remaining = @ - TakenFrom(B, b, amount, at)] : b \in B}
  BY DEF Img, Leaves
<1> QED BY <1>1 DEF WriteOff

\* A write-off makes up no batch.
LEMMA WriteOffClean ==
  ASSUME NEW B, Clean(B), NEW amount \in Int, NEW at \in Nat
  PROVE  Clean(WriteOff(B, amount, at)) /\ Ids(WriteOff(B, amount, at)) \subseteq Ids(B)
<1> DEFINE f == Leaves(B, amount, at)
<1>1. \A b \in B : f[b] \in Batch /\ f[b].id = b.id
  <2> TAKE b \in B
  <2>1. Leaves(B, amount, at)[b] \in Batch /\ Leaves(B, amount, at)[b].id = b.id
    BY LeftRecord
  <2> QED BY <2>1
<1>2. IsFiniteSet(Img(f, B)) /\ WriteOff(B, amount, at) \in SUBSET Img(f, B)
  BY ImgFinite, WriteOffIs DEF Clean
<1> HIDE DEF f
<1>3. Clean(Img(f, B)) /\ Ids(Img(f, B)) = Ids(B)
  BY <1>1, <1>2 DEF Clean, Img, Ids
<1>4. Clean(WriteOff(B, amount, at))
  BY <1>2, <1>3, CleanSubset
<1> QED BY <1>2, <1>3, <1>4 DEF Ids

\* A write-off the available batches cover takes its amount.
LEMMA WriteOffTotal ==
  ASSUME NEW B, Clean(B), NEW amount \in Nat, NEW at \in Nat,
         amount <= TotalQuantity(Available(B, at))
  PROVE  TotalQuantity(WriteOff(B, amount, at)) = TotalQuantity(B) - amount
<1> DEFINE f == Leaves(B, amount, at)
           g == Takes(B, amount, at)
           e == [b \in B |-> b]
           Q == {b \in B : f[b].remaining # 0}
<1>1. IsFiniteSet(B) /\ amount \in Int /\ (\A b \in B : b.remaining \in Nat)
  BY DEF Clean, Batch
<1>2. /\ OneToOne(f, B) /\ OneToOne(g, B) /\ OneToOne(e, B)
      /\ \A b \in B : /\ f[b].remaining = b.remaining - TakenFrom(B, b, amount, at)
                      /\ g[b].remaining = TakenFrom(B, b, amount, at)
  BY <1>1, RecordsOneToOne
<1>3. \A b \in B : e[b].remaining = f[b].remaining + g[b].remaining
  <2> TAKE b \in B
  <2>1. e[b].remaining = b.remaining /\ b.remaining \in Nat /\ g[b].remaining \in Int
    BY <1>1, <1>2 DEF OneToOne
  <2>2. f[b].remaining = b.remaining - g[b].remaining
    BY <1>2
  <2> HIDE DEF e, f, g
  <2> QED BY <2>1, <2>2
<1>4. TotalQuantity(Img(g, B)) = amount
  BY AllTaken
<1>5. Img(e, B) = B
  BY DEF Img
<1>6. WriteOff(B, amount, at) = Img(f, Q)
  <2>1. WriteOff(B, amount, at) = {c \in Img(f, B) : c.remaining # 0}
    BY WriteOffIs
  <2> HIDE DEF f
  <2> QED BY <2>1 DEF Img
<1> HIDE DEF f, g, e
<1>7. TotalQuantity(Img(f, B)) = TotalQuantity(Img(f, Q))
  BY <1>1, <1>2, ImgZero
<1>8. TotalQuantity(Img(e, B)) = TotalQuantity(Img(f, B)) + TotalQuantity(Img(g, B))
  BY <1>1, <1>2, <1>3, ImgAdd
<1>9. TotalQuantity(Img(f, B)) \in Int
  <2>1. IsFiniteSet(Img(f, B)) /\ \A b \in Img(f, B) : b.remaining \in Int
    BY <1>1, <1>2, ImgFinite DEF Img, OneToOne
  <2> QED BY <2>1, TotalOfElement
<1> QED BY <1>4, <1>5, <1>6, <1>7, <1>8, <1>9

\* A batch is touched only once the usable ones that go sooner are used up.
LEMMA WriteOffOrder ==
  ASSUME NEW B, Clean(B), NEW amount \in Int, NEW at \in Nat,
         NEW b \in B, b \notin WriteOff(B, amount, at), b.remaining > 0
  PROVE  /\ ~IsExpired(b, at)
         /\ \A a \in B : ~IsExpired(a, at) /\ Sooner(a, b)
              => a.id \notin Ids(WriteOff(B, amount, at))
<1> DEFINE f == Leaves(B, amount, at)
           A == Available(B, at)
           first(x) == TotalQuantity({c \in A : GoesFirst(c, x)})
<1>1. \A x \in B : /\ f[x].remaining = x.remaining - TakenFrom(B, x, amount, at)
                   /\ f[x].id = x.id
  BY LeftRecord
<1>2. WriteOff(B, amount, at) = {c \in Img(f, B) : c.remaining # 0}
  BY WriteOffIs
<1>3. \A x \in B : /\ x \in Batch /\ x.remaining \in Nat
                   /\ TakenFrom(B, x, amount, at) \in 0 .. x.remaining
                   /\ TakenFrom(B, x, amount, at) > 0 => x \in A
  BY TakenBounds DEF Clean, Batch
<1>4. \A x \in B : first(x) \in Nat
  <2> TAKE x \in B
  <2>1. {c \in A : GoesFirst(c, x)} \in SUBSET B
    BY DEF Available
  <2> QED BY <2>1, TotalMonotone
<1>5. \A x \in B : TakenFrom(B, x, amount, at) =
        IF x \notin A \/ amount - first(x) <= 0 THEN 0
        ELSE IF amount - first(x) < x.remaining THEN amount - first(x) ELSE x.remaining
  BY DEF TakenFrom
<1>6. A \subseteq B /\ Clean(A)
  <2>1. A \in SUBSET B
    BY DEF Available
  <2> QED BY <2>1, CleanSubset
<1> HIDE DEF f
<1>7. TakenFrom(B, b, amount, at) > 0
  <2> SUFFICES ASSUME TakenFrom(B, b, amount, at) = 0 PROVE FALSE
    BY <1>3
  <2>1. f[b] = [b EXCEPT !.remaining = b.remaining]
    <3>1. Leaves(B, amount, at)[b] = [b EXCEPT !.remaining = b.remaining - TakenFrom(B, b, amount, at)]
      BY DEF Leaves
    <3>2. b.remaining - TakenFrom(B, b, amount, at) = b.remaining
      BY <1>3
    <3> QED BY <3>1, <3>2 DEF f
  <2>2. f[b] = b
    BY <2>1, <1>3 DEF Batch
  <2>3. b \in Img(f, B) /\ b.remaining # 0
    BY <2>2, <1>3 DEF Img
  <2> QED BY <2>3, <1>2
<1>8. b \in A /\ amount > first(b)
  BY <1>3, <1>4, <1>5, <1>7
<1>9. ASSUME NEW a \in B, ~IsExpired(a, at), Sooner(a, b)
      PROVE  a.id \notin Ids(WriteOff(B, amount, at))
  <2>1. f[a].remaining = 0
    <3>0. /\ a.remaining \in Nat /\ TakenFrom(B, a, amount, at) \in 0 .. a.remaining
          /\ f[a].remaining = a.remaining - TakenFrom(B, a, amount, at)
      BY <1>1, <1>3
    <3>1. CASE a.remaining = 0
      BY <3>0, <3>1
    <3>2. CASE a.remaining > 0
      <4>1. a \in A
        BY <1>9, <3>2 DEF Available
      <4>2. GoesFirst(a, b)
        BY <1>9, GoesFirstIs, StrategyAssumption DEF Sooner
      <4> DEFINE up == {c \in A : GoesFirst(c, b)}
                 below == {c \in A : GoesFirst(c, a)}
      <4>3. a \in up /\ below \subseteq up \ {a}
        BY <1>6, <4>1, <4>2, <1>8, GoesFirstOrders
      <4>4. Clean(up)
        <5>1. up \in SUBSET A
          OBVIOUS
        <5> QED BY <5>1, <1>6, CleanSubset
      <4>5. Clean(up \ {a})
        <5>1. up \ {a} \in SUBSET up
          OBVIOUS
        <5> HIDE DEF up
        <5> QED BY <5>1, <4>4, CleanSubset
      <4>6. first(b) = TotalQuantity(up) /\ first(a) = TotalQuantity(below)
        OBVIOUS
      <4> HIDE DEF up, below
      <4> DEFINE rest == TotalQuantity(up \ {a})
      <4>7. TotalQuantity(up) = a.remaining + rest
        BY <4>3, <4>4, CleanTotal
      <4>8. TotalQuantity(below) <= rest /\ rest \in Nat
        BY <4>3, <4>5, TotalMonotone
      <4> HIDE DEF rest
      <4> DEFINE fa == first(a)
                 fb == first(b)
      <4>9. fa \in Nat /\ fb \in Nat /\ fb = a.remaining + rest /\ fa <= rest /\ amount > fb
        BY <1>4, <1>8, <4>6, <4>7, <4>8
      <4>10. TakenFrom(B, a, amount, at) =
               IF a \notin A \/ amount - fa <= 0 THEN 0
               ELSE IF amount - fa < a.remaining THEN amount - fa ELSE a.remaining
        BY <1>5
      <4> HIDE DEF fa, fb
      <4>11. TakenFrom(B, a, amount, at) = a.remaining
        BY <4>1, <4>8, <4>9, <4>10, <3>2, <1>3
      <4> QED BY <4>11, <3>0
    <3> QED BY <3>1, <3>2, <1>3
  <2>2. \A c \in B : f[c].id = a.id => c = a
    <3>1. \A c \in B : f[c].id = c.id
      BY <1>1
    <3> QED BY <3>1 DEF Clean
  <2> QED BY <1>2, <2>1, <2>2 DEF Ids, Img
<1>10. ~IsExpired(b, at)
  BY <1>8 DEF Available
<1> QED BY <1>9, <1>10

(***************************************************************************)
(* What is put into a stock.                                               *)
(***************************************************************************)
LEMMA TotalUnion ==
  ASSUME NEW B, IsFiniteSet(B), \A b \in B : b.remaining \in Int,
         NEW C, IsFiniteSet(C), \A b \in C : b.remaining \in Int,
         B \cap C = {}
  PROVE  TotalQuantity(B \cup C) = TotalQuantity(B) + TotalQuantity(C)
<1> DEFINE G == {P \in SUBSET C : TotalQuantity(B \cup P) = TotalQuantity(B) + TotalQuantity(P)}
<1>1. TotalQuantity(B) \in Int
  BY TotalOfElement
<1>2. {} \in G
  <2>1. B \cup {} = B
    OBVIOUS
  <2> QED BY <1>1, <2>1, TotalEmpty
<1>3. ASSUME NEW P \in SUBSET C, P # {}, \A x \in P : P \ {x} \in G
      PROVE  P \in G
  <2>1. PICK x \in P : TRUE
    BY <1>3
  <2>2. IsFiniteSet(P) /\ IsFiniteSet(P \ {x}) /\ IsFiniteSet(B \cup P)
    BY FS_Subset, FS_Union
  <2>3. (B \cup P) \ {x} = B \cup (P \ {x})
    OBVIOUS
  <2>4. \A b \in B \cup P : b.remaining \in Int
    OBVIOUS
  <2>5. TotalQuantity(B \cup P) = x.remaining + TotalQuantity(B \cup (P \ {x}))
    BY <2>2, <2>3, <2>4, TotalOfElement
  <2>6. TotalQuantity(P) = x.remaining + TotalQuantity(P \ {x})
    BY <2>2, <2>4, TotalOfElement
  <2>7. TotalQuantity(B \cup (P \ {x})) = TotalQuantity(B) + TotalQuantity(P \ {x})
    BY <1>3
  <2>8. TotalQuantity(P \ {x}) \in Int /\ x.remaining \in Int
    BY <2>2, <2>4, TotalOfElement
  <2>9. TotalQuantity(B \cup P) = TotalQuantity(B) + TotalQuantity(P)
    BY <1>1, <2>5, <2>6, <2>7, <2>8
  <2> QED BY <2>9
<1>4. \A P \in SUBSET C : P \in G
  <2> HIDE DEF G
  <2> QED BY <1>2, <1>3, SubsetInduction
<1> QED BY <1>4

\* Totals of batches with different ids add up.
LEMMA TotalOfCleanUnion ==
  ASSUME NEW B, Clean(B), NEW C, Clean(C), Ids(B) \cap Ids(C) = {}
  PROVE  Clean(B \cup C) /\ TotalQuantity(B \cup C) = TotalQuantity(B) + TotalQuantity(C)
<1>1. /\ \A b \in B : b.remaining \in Int /\ b.id \in Ids(B)
      /\ \A b \in C : b.remaining \in Int /\ b.id \in Ids(C)
      /\ IsFiniteSet(B) /\ IsFiniteSet(C)
  BY DEF Clean, Batch, Ids
<1>2. B \cap C = {}
  BY <1>1
<1>3. TotalQuantity(B \cup C) = TotalQuantity(B) + TotalQuantity(C)
  BY <1>1, <1>2, TotalUnion
<1>4. IsFiniteSet(B \cup C)
  BY <1>1, FS_Union
<1>5. \A a, b \in B \cup C : a.id = b.id => a = b
  BY <1>1 DEF Clean
<1> QED BY <1>3, <1>4, <1>5 DEF Clean

LEMMA IdsOfUnion == \A B, C : Ids(B \cup C) = Ids(B) \cup Ids(C)
BY DEF Ids

LEMMA OneBatch ==
  ASSUME NEW b \in Batch
  PROVE  Clean({b}) /\ TotalQuantity({b}) = b.remaining /\ Ids({b}) = {b.id}
<1>1. Clean({b})
  BY FS_Singleton DEF Clean
<1>2. TotalQuantity({b}) = b.remaining + TotalQuantity({b} \ {b}) /\ b.remaining \in Nat
  BY <1>1, CleanTotal
<1>3. {b} \ {b} = {}
  OBVIOUS
<1> QED BY <1>1, <1>2, <1>3, TotalEmpty DEF Ids

\* A receipt adds its quantity.
LEMMA ReceiveAdds ==
  ASSUME NEW B, Clean(B), NEW n \in Nat, n \notin Ids(B), NEW source \in Docs \cup {NoDoc},
         NEW quantity \in Nat, NEW expires \in Nat, NEW at \in Nat
  PROVE  LET now == Receive(B, n, source, quantity, expires, at)
         IN  /\ Clean(now) /\ Ids(now) = Ids(B) \cup {n}
             /\ TotalQuantity(now) = TotalQuantity(B) + quantity
<1> DEFINE b == NewBatch(n, source, quantity, expires, at)
<1>1. b \in Batch /\ b.remaining = quantity /\ b.id = n
  BY DEF NewBatch, Batch
<1> HIDE DEF b
<1>2. Clean({b}) /\ TotalQuantity({b}) = quantity /\ Ids({b}) = {n}
  BY <1>1, OneBatch
<1>3. Ids(B) \cap Ids({b}) = {}
  BY <1>2
<1>4. Clean(B \cup {b}) /\ TotalQuantity(B \cup {b}) = TotalQuantity(B) + quantity
  BY <1>2, <1>3, TotalOfCleanUnion
<1>5. Ids(B \cup {b}) = Ids(B) \cup {n}
  BY <1>2, IdsOfUnion
<1> QED BY <1>4, <1>5 DEF Receive, b

\* An adjustment changes the total by its amount, if there is enough to take.
LEMMA AdjustCleans ==
  ASSUME NEW B, Clean(B), NEW n \in Nat, n \notin Ids(B), NEW delta \in Int, NEW at \in Nat
  PROVE  LET now == Adjust(B, n, delta, at)
         IN  /\ Clean(now) /\ Ids(now) \subseteq Ids(B) \cup {n}
             /\ (delta < 0 => -delta <= TotalQuantity(Available(B, at)))
                  => TotalQuantity(now) = TotalQuantity(B) + delta
<1> DEFINE now == Adjust(B, n, delta, at)
<1>0. TotalQuantity(B) \in Int
  BY CleanTotal
<1>1. CASE delta > 0
  <2>1. delta \in Nat /\ NoDoc \in Docs \cup {NoDoc} /\ Never \in Nat
    BY <1>1 DEF Never
  <2>2. now = Receive(B, n, NoDoc, delta, Never, at)
    BY <1>1 DEF Adjust
  <2> HIDE DEF now
  <2>3. /\ Clean(now) /\ Ids(now) = Ids(B) \cup {n}
        /\ TotalQuantity(now) = TotalQuantity(B) + delta
    BY <2>1, <2>2, ReceiveAdds
  <2> QED BY <2>3 DEF now
<1>2. CASE delta < 0
  <2>1. -delta \in Nat /\ -delta \in Int /\ -(-delta) = delta
    BY <1>2
  <2>2. now = WriteOff(B, -delta, at)
    BY <1>2 DEF Adjust
  <2>3. Clean(now) /\ Ids(now) \subseteq Ids(B)
    BY <2>1, <2>2, WriteOffClean
  <2>4. -delta <= TotalQuantity(Available(B, at))
          => TotalQuantity(now) = TotalQuantity(B) - (-delta)
    BY <2>1, <2>2, WriteOffTotal
  <2> HIDE DEF now
  <2>5. -delta <= TotalQuantity(Available(B, at))
          => TotalQuantity(now) = TotalQuantity(B) + delta
    BY <1>0, <2>4
  <2> QED BY <1>2, <2>3, <2>5 DEF now
<1>3. CASE delta = 0
  <2>1. now = B
    BY <1>3 DEF Adjust
  <2> QED BY <1>0, <1>3, <2>1
<1> QED BY <1>1, <1>2, <1>3

\* The batches an amount taken elsewhere becomes.
Arrivals(A, amount, at, first) ==
  LET chosen == Selected(A, amount, at)
  IN  [b \in chosen |-> NewBatch(first + Place(chosen, b), NoDoc,
                                 TakenFrom(A, b, amount, at), b.expires, at)]

\* No two batches are at the same place of the order, so new ids are not given twice.
LEMMA PlacesDiffer ==
  ASSUME NEW A, Clean(A), NEW a \in A, NEW b \in A, a # b
  PROVE  Place(A, a) \in Nat /\ Place(A, b) \in Nat /\ Place(A, a) # Place(A, b)
<1> DEFINE before(x) == {c \in A : GoesFirst(c, x)}
<1>1. \A x \in A : /\ IsFiniteSet(before(x)) /\ Cardinality(before(x)) \in Nat
                   /\ Place(A, x) = Cardinality(before(x))
  <2> TAKE x \in A
  <2>1. IsFiniteSet(A) /\ before(x) \subseteq A
    BY DEF Clean
  <2> QED BY <2>1, FS_Subset, FS_CardinalityType DEF Place
<1>2. \A x, y \in A : GoesFirst(x, y) => before(x) \subseteq before(y) /\ before(x) # before(y)
  BY GoesFirstOrders
<1>3. GoesFirst(a, b) \/ GoesFirst(b, a)
  BY GoesFirstOrders
<1> HIDE DEF before
<1>4. before(a) # before(b) /\ (before(a) \subseteq before(b) \/ before(b) \subseteq before(a))
  BY <1>2, <1>3
<1>5. Cardinality(before(a)) # Cardinality(before(b))
  BY <1>1, <1>4, FS_Subset
<1> QED BY <1>1, <1>5

LEMMA TransferInIs ==
  ASSUME NEW B, NEW A, NEW amount, NEW at, NEW first
  PROVE  TransferIn(B, first, Allocations(A, amount, at), at)
           = B \cup Img(Arrivals(A, amount, at, first), Selected(A, amount, at))
<1> DEFINE chosen == Selected(A, amount, at)
           rec(b) == [place |-> Place(chosen, b), quantity |-> TakenFrom(A, b, amount, at),
                      expires |-> b.expires]
<1>1. Allocations(A, amount, at) = {rec(b) : b \in chosen}
  BY DEF Allocations
<1>2. TransferIn(B, first, Allocations(A, amount, at), at)
        = B \cup {NewBatch(first + a.place, NoDoc, a.quantity, a.expires, at)
                    : a \in {rec(b) : b \in chosen}}
  BY <1>1 DEF TransferIn
<1>3. \A b \in chosen : /\ rec(b).place = Place(chosen, b) /\ rec(b).expires = b.expires
                        /\ rec(b).quantity = TakenFrom(A, b, amount, at)
  OBVIOUS
<1>4. \A b \in chosen : Arrivals(A, amount, at, first)[b]
        = NewBatch(first + rec(b).place, NoDoc, rec(b).quantity, rec(b).expires, at)
  BY DEF Arrivals
<1> HIDE DEF rec, chosen
<1>5. {NewBatch(first + a.place, NoDoc, a.quantity, a.expires, at) : a \in {rec(b) : b \in chosen}}
        = {Arrivals(A, amount, at, first)[b] : b \in chosen}
  BY <1>4
<1> QED BY <1>2, <1>5 DEF Img, chosen

LEMMA ArrivalIs ==
  ASSUME NEW A, Clean(A), NEW amount \in Int, NEW at \in Nat, NEW first \in Nat,
         NEW b \in Selected(A, amount, at)
  PROVE  LET arrival == Arrivals(A, amount, at, first)[b]
         IN  /\ arrival \in Batch
             /\ arrival.id = first + Place(Selected(A, amount, at), b)
             /\ arrival.remaining = TakenFrom(A, b, amount, at)
<1> DEFINE chosen == Selected(A, amount, at)
           i == first + Place(chosen, b)
           taken == TakenFrom(A, b, amount, at)
<1>1. Arrivals(A, amount, at, first)[b] = NewBatch(i, NoDoc, taken, b.expires, at)
  BY DEF Arrivals
<1>2. chosen \in SUBSET A /\ IsFiniteSet(chosen)
  BY FS_Subset DEF Selected, Clean
<1>3. i \in Nat
  <2>1. Place(chosen, b) \in Nat
    <3>1. {c \in chosen : GoesFirst(c, b)} \subseteq chosen
      OBVIOUS
    <3> HIDE DEF chosen
    <3> QED BY <1>2, <3>1, FS_Subset, FS_CardinalityType DEF Place
  <2> QED BY <2>1
<1>4. b \in A /\ b.remaining \in Nat /\ b.expires \in Nat
  BY <1>2 DEF Clean, Batch
<1>5. taken \in Nat
  BY <1>4, TakenBounds
<1> HIDE DEF i, taken
<1>6. NewBatch(i, NoDoc, taken, b.expires, at) \in Batch
  BY <1>3, <1>4, <1>5 DEF NewBatch, Batch
<1>7. /\ NewBatch(i, NoDoc, taken, b.expires, at).id = i
      /\ NewBatch(i, NoDoc, taken, b.expires, at).remaining = taken
  BY DEF NewBatch
<1> QED BY <1>1, <1>6, <1>7 DEF i, taken

\* What arrives is what was taken elsewhere.
LEMMA TransferInAdds ==
  ASSUME NEW B, Clean(B), NEW A, Clean(A), NEW amount \in Nat, NEW at \in Nat,
         NEW first \in Nat, \A i \in Ids(B) : i < first
  PROVE  LET now == TransferIn(B, first, Allocations(A, amount, at), at)
         IN  /\ Clean(now) /\ (\A i \in Ids(now) : i \in Ids(B) \/ i >= first)
             /\ amount <= TotalQuantity(Available(A, at))
                  => TotalQuantity(now) = TotalQuantity(B) + amount
<1> DEFINE chosen == Selected(A, amount, at)
           f == Arrivals(A, amount, at, first)
           g == Takes(A, amount, at)
           new == Img(f, chosen)
<1>1. chosen \in SUBSET A /\ Clean(chosen) /\ IsFiniteSet(chosen) /\ IsFiniteSet(A) /\ amount \in Int
  <2>1. chosen \in SUBSET A
    BY DEF Selected
  <2>2. Clean(chosen)
    BY <2>1, CleanSubset
  <2> QED BY <2>1, <2>2 DEF Clean
<1>2. \A b \in chosen : /\ f[b] \in Batch /\ f[b].id = first + Place(chosen, b)
                        /\ f[b].remaining = TakenFrom(A, b, amount, at)
                        /\ Place(chosen, b) \in Nat
  <2> TAKE b \in chosen
  <2>1. {c \in chosen : GoesFirst(c, b)} \subseteq chosen
    OBVIOUS
  <2>2. Place(chosen, b) \in Nat
    <3> HIDE DEF chosen
    <3> QED BY <1>1, <2>1, FS_Subset, FS_CardinalityType DEF Place
  <2>3. /\ Arrivals(A, amount, at, first)[b] \in Batch
        /\ Arrivals(A, amount, at, first)[b].id = first + Place(Selected(A, amount, at), b)
        /\ Arrivals(A, amount, at, first)[b].remaining = TakenFrom(A, b, amount, at)
    BY <1>1, ArrivalIs
  <2> QED BY <2>2, <2>3
<1>3. OneToOne(g, A) /\ \A b \in A : g[b].remaining = TakenFrom(A, b, amount, at)
  BY <1>1, RecordsOneToOne
<1>4. \A b \in A : TakenFrom(A, b, amount, at) \in Nat /\ (b \notin chosen => TakenFrom(A, b, amount, at) = 0)
  <2> TAKE b \in A
  <2>1. TakenFrom(A, b, amount, at) \in 0 .. b.remaining /\ b.remaining \in Nat
    BY <1>1, TakenBounds DEF Clean, Batch
  <2> QED BY <2>1 DEF Selected
<1>5. TransferIn(B, first, Allocations(A, amount, at), at) = B \cup new
  BY TransferInIs
<1>6. amount <= TotalQuantity(Available(A, at)) => TotalQuantity(Img(g, A)) = amount
  BY AllTaken
<1> HIDE DEF chosen, f, g
<1>7. \A a, b \in chosen : a # b => f[a].id # f[b].id
  <2> SUFFICES ASSUME NEW a \in chosen, NEW b \in chosen, a # b PROVE f[a].id # f[b].id
    OBVIOUS
  <2>1. Place(chosen, a) \in Nat /\ Place(chosen, b) \in Nat /\ Place(chosen, a) # Place(chosen, b)
    BY <1>1, PlacesDiffer
  <2> DEFINE p == Place(chosen, a)
             q == Place(chosen, b)
             i == f[a].id
             j == f[b].id
  <2>2. i = first + p /\ j = first + q /\ p \in Nat /\ q \in Nat /\ p # q
    BY <1>2, <2>1
  <2> HIDE DEF p, q, i, j
  <2>3. i # j
    BY <2>2
  <2> QED BY <2>3 DEF i, j
<1>8. OneToOne(f, chosen) /\ OneToOne(g, chosen)
      /\ \A b \in chosen : f[b].remaining = g[b].remaining
  BY <1>1, <1>2, <1>3, <1>4, <1>7 DEF OneToOne
<1>9. TotalQuantity(new) = TotalQuantity(Img(g, A))
  <2>1. TotalQuantity(Img(f, chosen)) = TotalQuantity(Img(g, chosen))
    BY <1>1, <1>8, ImgSame
  <2>2. TotalQuantity(Img(g, A)) = TotalQuantity(Img(g, chosen))
    <3>1. \A b \in A \ chosen : g[b].remaining = 0
      BY <1>3, <1>4
    <3> QED BY <1>1, <1>3, <3>1, ImgZero
  <2> QED BY <2>1, <2>2
<1>10. Clean(new) /\ \A i \in Ids(new) : i >= first
  <2>1. IsFiniteSet(new)
    BY <1>1, ImgFinite
  <2>2. new \subseteq Batch
    BY <1>2 DEF Img
  <2>3. \A a, b \in new : a.id = b.id => a = b
    BY <1>7 DEF Img
  <2>4. \A i \in Ids(new) : i >= first
    BY <1>2 DEF Ids, Img
  <2> QED BY <2>1, <2>2, <2>3, <2>4 DEF Clean
<1> HIDE DEF new
<1>11. Ids(B) \cap Ids(new) = {}
  <2>1. \A i \in Ids(B) \cap Ids(new) : i < first /\ i >= first /\ i \in Nat
    BY <1>10 DEF Clean, Batch, Ids
  <2> QED BY <2>1
<1>12. Clean(B \cup new) /\ TotalQuantity(B \cup new) = TotalQuantity(B) + TotalQuantity(new)
  BY <1>10, <1>11, TotalOfCleanUnion
<1>13. \A i \in Ids(B \cup new) : i \in Ids(B) \/ i >= first
  BY <1>10, IdsOfUnion
<1> QED BY <1>5, <1>6, <1>9, <1>12, <1>13

\* A cancellation makes up no batch.
LEMMA RemoveLeaves ==
  ASSUME NEW B, Clean(B), NEW doc
  PROVE  LET now == RemoveBatchesBySourceDoc(B, doc)
         IN  Clean(now) /\ Ids(now) \subseteq Ids(B)
<1>1. RemoveBatchesBySourceDoc(B, doc) \in SUBSET B
  BY DEF RemoveBatchesBySourceDoc
<1> QED BY <1>1, CleanSubset DEF Ids

\* A new id is above all that are in use.
LEMMA LargestIn ==
  ASSUME NEW S, IsFiniteSet(S), S \subseteq Nat, S # {}
  PROVE  \E m \in S : \A n \in S : n <= m
<1> DEFINE G == {P \in SUBSET S : P = {} \/ \E m \in P : \A n \in P : n <= m}
<1>1. {} \in G
  OBVIOUS
<1>2. ASSUME NEW P \in SUBSET S, P # {}, \A x \in P : P \ {x} \in G
      PROVE  P \in G
  <2>1. PICK x \in P : TRUE
    BY <1>2
  <2>2. CASE P \ {x} = {}
    BY <2>2
  <2>3. CASE P \ {x} # {}
    <3>1. PICK m \in P \ {x} : \A n \in P \ {x} : n <= m
      BY <1>2, <2>3
    <3>2. \E y \in P : \A n \in P : n <= y
      <4>1. CASE x <= m
        BY <3>1, <4>1
      <4>2. CASE m < x
        <5>1. \A n \in P : n <= x
          BY <3>1, <4>2
        <5> QED BY <5>1
      <4> QED BY <4>1, <4>2
    <3> QED BY <3>2
  <2> QED BY <2>2, <2>3
<1>3. \A P \in SUBSET S : P \in G
  <2> HIDE DEF G
  <2> QED BY <1>1, <1>2, SubsetInduction
<1> QED BY <1>3

LEMMA MaxAbove ==
  ASSUME NEW S, IsFiniteSet(S), S \subseteq Nat, S # {}
  PROVE  Max(S) \in Nat /\ \A n \in S : n <= Max(S)
<1>1. \E m \in S : \A n \in S : n <= m
  BY LargestIn
<1>2. Max(S) = CHOOSE m \in S : \A n \in S : m >= n
  BY DEF Max
<1> QED BY <1>1, <1>2

(***************************************************************************)
(* Stocks.  The inductive invariant behind the balance of the books: what  *)
(* the documents, requests and events hold, what the handlers' copies are, *)
(* and that the ids of new batches are nobody else's.                      *)
(***************************************************************************)
\* Events about documents of D.
Events(D) ==
  {e \in [kind : EventKinds, doc : D, branch : BranchIds, to : BranchIds,
          lines : Seq(LineRow), at : Nat] :
     /\ e.kind \in {"ReceiptPosted", "TransferPosted"} => e.lines \in Seq(QuantityLine)
     /\ e.kind \in {"ReceiptPosted", "TransferPosted", "AdjustmentApproved"} => e.lines # <<>>}

RequestOK(D, r) ==
  \/ r = NoRequest
  \/ /\ r.doc \in D /\ r.was \in RowOf(r.doc) /\ r.row \in RowOf(r.doc)
     /\ r.row.status # "NONE" /\ r.events \in Seq(Events(D))

PapersOK ==
  /\ DOMAIN docs \subseteq Docs /\ docs = [d \in DOMAIN docs |-> docs[d]]
  /\ \A d \in DOMAIN docs : docs[d] \in RowOf(d)
  /\ request = [c \in DOMAIN request |-> request[c]]
  /\ \A c \in DOMAIN request : RequestOK(DOMAIN docs, request[c])
  /\ outbox \in Seq(Events(DOMAIN docs))

CopyOK(c) ==
  c.was.row \in BOOLEAN /\ Clean(c.was.batches) /\ Clean(c.batches)

\* What a handler in state w has in hand.
HandOK(D, w) ==
  /\ w.stage \in Stages
  /\ w.stage = "idle" \/ w.event \in Events(D)
  /\ w.todo \in Seq(LineRow)
  /\ w.event.kind \in {"ReceiptPosted", "TransferPosted"} => w.todo \in Seq(QuantityLine)
  /\ PerLine(w.event.kind) /\ w.stage # "idle" => w.todo # <<>>
  /\ w.event.kind = "TransferPosted" /\ w.stage = "look" => w.todo # <<>>
  /\ w.stage \in {"load", "loadTo", "save", "saveTo", "create"} => w.todo # <<>>
  /\ StageOK(w)
  /\ w.stage = "load" => w.event.kind # "StockTakingPosted"

Holding(w) == w.stage \in {"loadTo", "save", "saveTo"}
Moving(w) == w.event.kind = "TransferPosted" /\ w.stage \in {"save", "saveTo"}

Covered(batches, amount, at) == amount <= TotalQuantity(Available(batches, at))

\* What its copies have become of the stocks they were loaded from.
CopiesOK(w) ==
  LET line == Head(w.todo)
      was  == w.own.was.batches
  IN  /\ CopyOK(w.own) /\ CopyOK(w.other)
      /\ ~Holding(w) => w.own = NoCopy
      /\ ~Moving(w) => w.other = NoCopy
      /\ Holding(w) /\ w.event.kind = "ReceiptPosted" =>
           TotalQuantity(w.own.batches) = TotalQuantity(was) + line.qty
      /\ Holding(w) /\ w.event.kind = "AdjustmentApproved" =>
           /\ line.qty < 0 => w.own.batches = WriteOff(was, -line.qty, w.event.at)
           /\ (line.qty < 0 => Covered(was, -line.qty, w.event.at))
                => TotalQuantity(w.own.batches) = TotalQuantity(was) + line.qty
      /\ Holding(w) /\ w.event.kind = "TransferPosted" =>
           w.own.batches = WriteOff(was, line.qty, w.event.at)
      /\ Moving(w) /\ Covered(was, line.qty, w.event.at) =>
           TotalQuantity(w.other.batches) = TotalQuantity(w.other.was.batches) + line.qty

\* The ids a handler knows, and those it made up.
Known(w) == Ids(w.own.was.batches) \cup Ids(w.own.batches)
            \cup Ids(w.other.was.batches) \cup Ids(w.other.batches)
NewIn(c) == Ids(c.batches) \ Ids(c.was.batches)
New(w) == NewIn(w.own) \cup NewIn(w.other)

Used == UNION {Ids(Held(k)) : k \in Stocks}

Fresh ==
  \A h \in Handlers :
    /\ New(work[h]) \cap Used = {}
    /\ \A g \in Handlers \ {h} : New(work[h]) \cap Known(work[g]) = {}
    /\ NewIn(work[h].other) \cap Ids(work[h].own.batches) = {}

StocksOK ==
  /\ stock \in [Stocks -> [row : BOOLEAN, batches : SUBSET Batch]]
  /\ \A k \in Stocks : Clean(Held(k))
  /\ booked \in [Stocks -> Int]

StockInv ==
  /\ PapersOK
  /\ work = [h \in Handlers |-> work[h]]
  /\ \A h \in Handlers : HandOK(DOMAIN docs, work[h]) /\ CopiesOK(work[h])
  /\ StocksOK
  /\ Fresh
  /\ BooksBalance
  /\ processed \subseteq Keys

(***************************************************************************)
(* Lines.  Only(set, lines) folds over the lines from the last one down;   *)
(* the fold exists, and what it collects is in the set.                    *)
(***************************************************************************)
Indices(S) == IsFiniteSet(S) /\ S \subseteq Nat

\* What the fold f makes of the indices in s.
Folded(set, lines, f, s) ==
  IF s = {} THEN <<>>
  ELSE IF lines[Max(s)] \in set THEN Append(f[s \ {Max(s)}], lines[Max(s)])
  ELSE f[s \ {Max(s)}]

KeepsOver(S, set, lines, f) == f = [s \in SUBSET S |-> Folded(set, lines, f, s)]

KeptOf(S, set, lines) == (CHOOSE f : KeepsOver(S, set, lines, f))[S]

LEMMA OnlyIsKept == \A set, lines : Only(set, lines) = KeptOf(DOMAIN lines, set, lines)
BY DEF Only, FoldLeft, MapThenFoldSet, KeepsOver, KeptOf, Folded

LEMMA KeepsStep ==
  ASSUME NEW S, NEW set, NEW lines, NEW f, KeepsOver(S, set, lines, f), NEW s \in SUBSET S
  PROVE  f[s] = Folded(set, lines, f, s)
BY DEF KeepsOver

LEMMA MaxIn ==
  ASSUME NEW S, Indices(S), NEW s \in SUBSET S, s # {}
  PROVE  Max(s) \in s
<1>1. \E m \in s : \A n \in s : n <= m
  <2>1. IsFiniteSet(s) /\ s \subseteq Nat
    BY FS_Subset DEF Indices
  <2> QED BY <2>1, LargestIn
<1>2. \E m \in s : \A n \in s : m >= n
  BY <1>1
<1> QED BY <1>2 DEF Max

LEMMA FoldedSame ==
  ASSUME NEW set, NEW lines, NEW f, NEW g, NEW s,
         s # {} => f[s \ {Max(s)}] = g[s \ {Max(s)}]
  PROVE  Folded(set, lines, f, s) = Folded(set, lines, g, s)
BY DEF Folded

\* Two folds agree on the sets both are over.
LEMMA KeepsAgree ==
  ASSUME NEW B, Indices(B), NEW C, NEW D, B \subseteq C, B \subseteq D,
         NEW set, NEW lines, NEW f, NEW g,
         KeepsOver(C, set, lines, f), KeepsOver(D, set, lines, g)
  PROVE  f[B] = g[B]
<1> DEFINE G == {s \in SUBSET B : f[s] = g[s]}
<1>1. ASSUME NEW s \in SUBSET B
      PROVE  f[s] = Folded(set, lines, f, s) /\ g[s] = Folded(set, lines, g, s)
  <2>1. s \in SUBSET C /\ KeepsOver(C, set, lines, f)
    OBVIOUS
  <2>2. f[s] = Folded(set, lines, f, s)
    BY <2>1, KeepsStep
  <2>3. s \in SUBSET D /\ KeepsOver(D, set, lines, g)
    OBVIOUS
  <2>4. g[s] = Folded(set, lines, g, s)
    BY <2>3, KeepsStep
  <2> QED BY <2>2, <2>4
<1>2. {} \in G
  <2>1. {} \in SUBSET B
    OBVIOUS
  <2>2. Folded(set, lines, f, {}) = Folded(set, lines, g, {})
    BY FoldedSame
  <2> QED BY <1>1, <2>1, <2>2
<1>3. ASSUME NEW s \in SUBSET B, s # {}, \A x \in s : s \ {x} \in G
      PROVE  s \in G
  <2>1. Max(s) \in s
    BY <1>3, MaxIn
  <2>2. f[s \ {Max(s)}] = g[s \ {Max(s)}]
    BY <1>3, <2>1
  <2>3. Folded(set, lines, f, s) = Folded(set, lines, g, s)
    BY <2>2, FoldedSame
  <2> QED BY <1>1, <2>3
<1>4. \A s \in SUBSET B : s \in G
  <2> HIDE DEF G
  <2> QED BY <1>2, <1>3, SubsetInduction DEF Indices
<1> QED BY <1>4

LEMMA KeepsWithin ==
  ASSUME NEW C, NEW set, NEW lines, NEW f, KeepsOver(C, set, lines, f), NEW B \in SUBSET C
  PROVE  \E g : KeepsOver(B, set, lines, g)
<1> DEFINE g == [s \in SUBSET B |-> f[s]]
<1>1. ASSUME NEW s \in SUBSET B PROVE f[s] = Folded(set, lines, g, s)
  <2>1. s \in SUBSET C /\ s \ {Max(s)} \in SUBSET B
    OBVIOUS
  <2>2. f[s] = Folded(set, lines, f, s)
    BY <2>1, KeepsStep
  <2>3. g[s \ {Max(s)}] = f[s \ {Max(s)}]
    BY <2>1
  <2> QED BY <2>2, <2>3, FoldedSame
<1>2. g = [s \in SUBSET B |-> Folded(set, lines, g, s)]
  BY <1>1
<1> HIDE DEF g
<1>3. KeepsOver(B, set, lines, g)
  BY <1>2 DEF KeepsOver
<1> QED BY <1>3

\* What is kept is read off any fold over a larger set of indices.
LEMMA KeptFrom ==
  ASSUME NEW C, Indices(C), NEW B \in SUBSET C, NEW set, NEW lines,
         NEW f, KeepsOver(C, set, lines, f)
  PROVE  KeptOf(B, set, lines) = f[B]
<1> DEFINE g == CHOOSE g : KeepsOver(B, set, lines, g)
<1>1. KeepsOver(B, set, lines, g)
  <2>1. \E e : KeepsOver(B, set, lines, e)
    BY KeepsWithin
  <2> QED BY <2>1
<1>2. KeptOf(B, set, lines) = g[B]
  BY DEF KeptOf
<1> HIDE DEF g
<1>4. g[B] = f[B]
  <2>1. Indices(B)
    BY FS_Subset DEF Indices
  <2>2. B \subseteq B /\ B \subseteq C
    OBVIOUS
  <2> QED BY <1>1, <2>1, <2>2, KeepsAgree
<1> QED BY <1>2, <1>4

\* A finite set of indices has a fold.
LEMMA KeepsExist ==
  ASSUME NEW B, Indices(B), NEW set, NEW lines
  PROVE  \E f : KeepsOver(B, set, lines, f)
<1> DEFINE G == {s \in SUBSET B : \E f : KeepsOver(s, set, lines, f)}
<1>1. {} \in G
  <2> DEFINE f == [s \in SUBSET {} |-> <<>>]
  <2>1. KeepsOver({}, set, lines, f)
    BY DEF KeepsOver, Folded
  <2> QED BY <2>1
<1>2. ASSUME NEW s \in SUBSET B, s # {}, \A x \in s : s \ {x} \in G
      PROVE  s \in G
  <2> DEFINE kept == [t \in SUBSET s |-> KeptOf(t, set, lines)]
             g == [t \in SUBSET s |-> Folded(set, lines, kept, t)]
  <2>1. ASSUME NEW t \in SUBSET s, t # s PROVE kept[t] = g[t]
    <3>1. PICK x \in s : x \notin t
      BY <2>1
    <3>2. PICK f : KeepsOver(s \ {x}, set, lines, f)
      BY <1>2
    <3>3. ASSUME NEW u \in SUBSET t PROVE kept[u] = f[u]
      <4>1. Indices(s \ {x}) /\ u \in SUBSET (s \ {x})
        BY <3>1, FS_Subset DEF Indices
      <4>2. KeptOf(u, set, lines) = f[u]
        BY <4>1, <3>2, KeptFrom
      <4> QED BY <4>2
    <3>4. t \in SUBSET (s \ {x}) /\ t \ {Max(t)} \in SUBSET t /\ t \in SUBSET t
      BY <3>1
    <3>5. f[t] = Folded(set, lines, f, t)
      BY <3>2, <3>4, KeepsStep
    <3>6. kept[t \ {Max(t)}] = f[t \ {Max(t)}] /\ kept[t] = f[t]
      BY <3>3, <3>4
    <3> HIDE DEF kept
    <3>7. Folded(set, lines, f, t) = Folded(set, lines, kept, t)
      BY <3>6, FoldedSame
    <3> QED BY <3>5, <3>6, <3>7
  <2>2. ASSUME NEW t \in SUBSET s
        PROVE  Folded(set, lines, kept, t) = Folded(set, lines, g, t)
    <3>1. CASE t = {}
      <4> HIDE DEF kept, g
      <4> QED BY <3>1, FoldedSame
    <3>2. CASE t # {}
      <4>1. Max(t) \in t
        <5>1. t \in SUBSET B
          OBVIOUS
        <5> QED BY <3>2, <5>1, MaxIn
      <4>2. t \ {Max(t)} \in SUBSET s /\ t \ {Max(t)} # s
        BY <4>1
      <4>3. kept[t \ {Max(t)}] = g[t \ {Max(t)}]
        BY <2>1, <4>2
      <4> HIDE DEF kept, g
      <4> QED BY <4>3, FoldedSame
    <3> QED BY <3>1, <3>2
  <2>3. g = [t \in SUBSET s |-> Folded(set, lines, g, t)]
    BY <2>2
  <2> HIDE DEF g
  <2>4. KeepsOver(s, set, lines, g)
    BY <2>3 DEF KeepsOver
  <2> QED BY <2>4
<1>3. \A s \in SUBSET B : s \in G
  <2> HIDE DEF G
  <2> QED BY <1>1, <1>2, SubsetInduction DEF Indices
<1> QED BY <1>3

\* What is kept of lines of a kind are lines of that kind in the set.
LEMMA OnlyKeeps ==
  ASSUME NEW S, NEW lines \in Seq(S), NEW set
  PROVE  Only(set, lines) \in Seq(set \cap S)
<1> DEFINE D == DOMAIN lines
           T == set \cap S
<1>1. IsFiniteSet(D) /\ Indices(D) /\ \A i \in D : lines[i] \in S
  <2>1. D = 1 .. Len(lines) /\ Len(lines) \in Nat
    OBVIOUS
  <2>2. IsFiniteSet(1 .. Len(lines))
    BY <2>1, FS_Interval
  <2> QED BY <2>1, <2>2 DEF Indices
<1>2. PICK f : KeepsOver(D, set, lines, f)
  BY <1>1, KeepsExist
<1>3. Only(set, lines) = f[D]
  <2>1. D \in SUBSET D
    OBVIOUS
  <2> QED BY <1>1, <1>2, <2>1, KeptFrom, OnlyIsKept
<1> DEFINE G == {s \in SUBSET D : f[s] \in Seq(T)}
<1>4. ASSUME NEW s \in SUBSET D PROVE f[s] = Folded(set, lines, f, s)
  <2> HIDE DEF D
  <2> QED BY <1>2, KeepsStep
<1> HIDE DEF D, T
<1>5. {} \in G
  <2>1. f[{}] = <<>>
    BY <1>4 DEF Folded
  <2>2. <<>> \in Seq(T)
    OBVIOUS
  <2> QED BY <2>1, <2>2
<1>6. ASSUME NEW s \in SUBSET D, s # {}, \A x \in s : s \ {x} \in G
      PROVE  s \in G
  <2>0. Max(s) \in s
    BY <1>1, <1>6, MaxIn
  <2>1. Max(s) \in D /\ f[s \ {Max(s)}] \in Seq(T)
    BY <1>6, <2>0
  <2>2. CASE lines[Max(s)] \in set
    <3>1. lines[Max(s)] \in T /\ f[s] = Append(f[s \ {Max(s)}], lines[Max(s)])
      BY <1>1, <1>4, <1>6, <2>1, <2>2 DEF T, Folded
    <3>2. Append(f[s \ {Max(s)}], lines[Max(s)]) \in Seq(T)
      BY <2>1, <3>1
    <3> QED BY <3>1, <3>2
  <2>3. CASE lines[Max(s)] \notin set
    BY <1>4, <1>6, <2>1, <2>3 DEF Folded
  <2> QED BY <2>2, <2>3
<1>7. \A s \in SUBSET D : s \in G
  <2> HIDE DEF G
  <2> QED BY <1>1, <1>5, <1>6, SubsetInduction
<1> QED BY <1>3, <1>7 DEF D, T

\* A finite set can be listed.
LEMMA SequenceOf ==
  ASSUME NEW S, IsFiniteSet(S)
  PROVE  SetToSeq(S) \in Seq(S)
<1>1. Cardinality(S) \in Nat /\ ExistsBijection(1 .. Cardinality(S), S)
  BY FS_CardinalityType
<1>2. PICK f \in Bijection(1 .. Cardinality(S), S) : TRUE
  BY <1>1 DEF ExistsBijection
<1>3. f \in [1 .. Cardinality(S) -> S] /\ IsInjective(f)
  BY <1>2 DEF Bijection, Injection, IsInjective
<1>4. SetToSeq(S) \in [1 .. Cardinality(S) -> S]
  BY <1>3 DEF SetToSeq
<1> QED BY <1>1, <1>4

(***************************************************************************)
(* Documents, requests and events stay well formed.                        *)
(***************************************************************************)
PapersStep == PapersOK' /\ DOMAIN docs' = DOMAIN docs

\* A row, column by column.
LEMMA RowParts ==
  ASSUME NEW d, NEW r
  PROVE  r \in RowOf(d) <=>
           /\ r = [status |-> r.status, branch |-> r.branch, to |-> r.to, lines |-> r.lines]
           /\ r.status \in {"NONE", "DRAFT", "PENDING", "STARTED"} \cup Decided
           /\ r.branch \in BranchIds /\ r.to \in BranchIds /\ r.lines \in Seq(LineRow)
           /\ KindOf[d] \in {"receipt", "transfer"} => r.lines \in Seq(QuantityLine)
           /\ KindOf[d] \in {"transfer", "adjustment"} /\ r.status # "NONE" => r.lines # <<>>
BY DEF RowOf, Row

\* A row with another status, or with other lines.
LEMMA RowWith ==
  ASSUME NEW d, NEW r \in RowOf(d), NEW status \in {"NONE", "DRAFT", "PENDING", "STARTED"} \cup Decided,
         NEW lines \in Seq(LineRow),
         KindOf[d] \in {"receipt", "transfer"} => lines \in Seq(QuantityLine),
         KindOf[d] \in {"transfer", "adjustment"} /\ status # "NONE" => lines # <<>>
  PROVE  /\ [[r EXCEPT !.status = status] EXCEPT !.lines = lines] \in RowOf(d)
         /\ [[r EXCEPT !.status = status] EXCEPT !.lines = lines].status = status
         /\ [[r EXCEPT !.status = status] EXCEPT !.lines = lines]
              = [status |-> status, branch |-> r.branch, to |-> r.to, lines |-> lines]
<1> DEFINE w == [status |-> status, branch |-> r.branch, to |-> r.to, lines |-> lines]
<1>1. r = [status |-> r.status, branch |-> r.branch, to |-> r.to, lines |-> r.lines]
      /\ r.branch \in BranchIds /\ r.to \in BranchIds
  BY RowParts
<1> DEFINE v == [status |-> status, branch |-> r.branch, to |-> r.to, lines |-> r.lines]
<1>0. [r EXCEPT !.status = status] = v
  BY <1>1
<1>2. [[r EXCEPT !.status = status] EXCEPT !.lines = lines] = w
  <2>1. [v EXCEPT !.lines = lines] = w
    OBVIOUS
  <2> HIDE DEF v, w
  <2> QED BY <1>0, <2>1
<1>3. /\ w.status = status /\ w.branch = r.branch /\ w.to = r.to /\ w.lines = lines
      /\ w = [status |-> w.status, branch |-> w.branch, to |-> w.to, lines |-> w.lines]
  OBVIOUS
<1> HIDE DEF w
<1>4. w \in RowOf(d)
  BY <1>1, <1>3, RowParts
<1> QED BY <1>2, <1>3, <1>4 DEF w

LEMMA StatusSet ==
  ASSUME NEW d, NEW r \in RowOf(d), r.status # "NONE", NEW status \in Decided
  PROVE  /\ [r EXCEPT !.status = status] \in RowOf(d)
         /\ [r EXCEPT !.status = status].status # "NONE"
<1> DEFINE w == [status |-> status, branch |-> r.branch, to |-> r.to, lines |-> r.lines]
<1>1. /\ r = [status |-> r.status, branch |-> r.branch, to |-> r.to, lines |-> r.lines]
      /\ r.branch \in BranchIds /\ r.to \in BranchIds /\ r.lines \in Seq(LineRow)
      /\ KindOf[d] \in {"receipt", "transfer"} => r.lines \in Seq(QuantityLine)
      /\ KindOf[d] \in {"transfer", "adjustment"} => r.lines # <<>>
  BY RowParts
<1>2. [r EXCEPT !.status = status] = w
  BY <1>1
<1>3. /\ w.status = status /\ w.branch = r.branch /\ w.to = r.to /\ w.lines = r.lines
      /\ w = [status |-> w.status, branch |-> w.branch, to |-> w.to, lines |-> w.lines]
  OBVIOUS
<1>4. status # "NONE" /\ status \in {"NONE", "DRAFT", "PENDING", "STARTED"} \cup Decided
  BY DEF Decided
<1> HIDE DEF w
<1>5. w \in RowOf(d)
  BY <1>1, <1>3, <1>4, RowParts
<1> QED BY <1>2, <1>3, <1>4, <1>5

LEMMA LinesSet ==
  ASSUME NEW d, NEW r \in RowOf(d), NEW lines \in Seq(LineRow),
         KindOf[d] \in {"receipt", "transfer"} => lines \in Seq(QuantityLine),
         KindOf[d] \notin {"transfer", "adjustment"}
  PROVE  /\ [r EXCEPT !.lines = lines] \in RowOf(d)
         /\ [r EXCEPT !.lines = lines].status = r.status
<1> DEFINE w == [status |-> r.status, branch |-> r.branch, to |-> r.to, lines |-> lines]
<1>1. /\ r = [status |-> r.status, branch |-> r.branch, to |-> r.to, lines |-> r.lines]
      /\ r.status \in {"NONE", "DRAFT", "PENDING", "STARTED"} \cup Decided
      /\ r.branch \in BranchIds /\ r.to \in BranchIds
  BY RowParts
<1>2. [r EXCEPT !.lines = lines] = w
  BY <1>1
<1>3. /\ w.status = r.status /\ w.branch = r.branch /\ w.to = r.to /\ w.lines = lines
      /\ w = [status |-> w.status, branch |-> w.branch, to |-> w.to, lines |-> w.lines]
  OBVIOUS
<1> HIDE DEF w
<1>4. w \in RowOf(d)
  BY <1>1, <1>3, RowParts
<1> QED BY <1>2, <1>3, <1>4

LEMMA OneLong == ASSUME NEW S, NEW e \in S PROVE <<e>> \in Seq(S)
OBVIOUS

\* Events of a document in play are well formed.
LEMMA EventIn ==
  ASSUME PapersOK, NEW d \in DOMAIN docs, NEW kind \in EventKinds, NEW row,
         row.branch \in BranchIds, row.to \in BranchIds, NEW lines \in Seq(LineRow),
         kind \in {"ReceiptPosted", "TransferPosted"} => lines \in Seq(QuantityLine),
         kind \in {"ReceiptPosted", "TransferPosted", "AdjustmentApproved"} => lines # <<>>
  PROVE  <<Event(kind, d, row, lines)>> \in Seq(Events(DOMAIN docs))
<1> DEFINE e == Event(kind, d, row, lines)
<1>1. Now \in Nat
  BY DEF Now, PapersOK
<1>2. e \in Events(DOMAIN docs)
  BY <1>1 DEF Event, Events
<1> QED BY <1>2, OneLong

LEMMA Announced ==
  ASSUME PapersOK, NEW events \in Seq(Events(DOMAIN docs)), Announce(events)
  PROVE  outbox' \in Seq(Events(DOMAIN docs))
<1>1. outbox' = outbox \o events /\ outbox \in Seq(Events(DOMAIN docs))
  BY DEF PapersOK, Announce
<1> QED BY <1>1, ConcatProperties

\* One request is replaced by one that is well formed.
LEMMA RequestSet ==
  ASSUME PapersOK, NEW c \in DOMAIN request, NEW v, RequestOK(DOMAIN docs, v),
         request' = [request EXCEPT ![c] = v]
  PROVE  /\ request' = [e \in DOMAIN request' |-> request'[e]]
         /\ \A e \in DOMAIN request' : RequestOK(DOMAIN docs, request'[e])
<1>1. request' = [e \in DOMAIN request |-> IF e = c THEN v ELSE request[e]]
  BY DEF PapersOK
<1>2. DOMAIN request' = DOMAIN request
      /\ \A e \in DOMAIN request : request'[e] = IF e = c THEN v ELSE request[e]
  BY <1>1
<1>3. request' = [e \in DOMAIN request' |-> request'[e]]
  BY <1>1, <1>2
<1>4. ASSUME NEW e \in DOMAIN request PROVE RequestOK(DOMAIN docs, request'[e])
  <2>1. CASE e = c
    BY <2>1, <1>2
  <2>2. CASE e # c
    <3>1. request'[e] = request[e]
      BY <2>2, <1>2
    <3>2. RequestOK(DOMAIN docs, request[e])
      BY DEF PapersOK
    <3> QED BY <3>1, <3>2
  <2> QED BY <2>1, <2>2
<1> QED BY <1>2, <1>3, <1>4

\* One document is replaced by one that is well formed.
LEMMA DocSet ==
  ASSUME PapersOK, NEW d \in DOMAIN docs, NEW row \in RowOf(d), docs' = [docs EXCEPT ![d] = row]
  PROVE  /\ DOMAIN docs' = DOMAIN docs
         /\ DOMAIN docs' \subseteq Docs /\ docs' = [e \in DOMAIN docs' |-> docs'[e]]
         /\ \A e \in DOMAIN docs' : docs'[e] \in RowOf(e)
<1>1. docs' = [e \in DOMAIN docs |-> IF e = d THEN row ELSE docs[e]]
  BY DEF PapersOK
<1>2. DOMAIN docs' = DOMAIN docs
      /\ \A e \in DOMAIN docs : docs'[e] = IF e = d THEN row ELSE docs[e]
  BY <1>1
<1>3. \A e \in DOMAIN docs : docs[e] \in RowOf(e)
  BY DEF PapersOK
<1>4. docs' = [e \in DOMAIN docs' |-> docs'[e]]
  BY <1>1, <1>2
<1> QED BY <1>2, <1>3, <1>4 DEF PapersOK

LEMMA PapersUnchanged == PapersOK /\ UNCHANGED <<docs, request, outbox>> => PapersStep
BY DEF PapersOK, PapersStep, RequestOK, RowOf, Events

LEMMA PapersFrom ==
  ASSUME PapersOK, DOMAIN docs' = DOMAIN docs,
         docs' = [e \in DOMAIN docs' |-> docs'[e]], \A e \in DOMAIN docs' : docs'[e] \in RowOf(e),
         request' = [e \in DOMAIN request' |-> request'[e]],
         \A e \in DOMAIN request' : RequestOK(DOMAIN docs, request'[e]),
         outbox' \in Seq(Events(DOMAIN docs))
  PROVE  PapersStep
<1>1. PapersOK'
  <2>1. DOMAIN docs' \subseteq Docs
    BY DEF PapersOK
  <2>2. \A e \in DOMAIN request' : RequestOK(DOMAIN docs', request'[e])
    OBVIOUS
  <2>3. outbox' \in Seq(Events(DOMAIN docs'))
    OBVIOUS
  <2> QED BY <2>1, <2>2, <2>3 DEF PapersOK, RequestOK, Events, RowOf
<1> QED BY <1>1 DEF PapersStep

LEMMA BeginPapers ==
  ASSUME PapersOK, NEW c \in DOMAIN request, NEW d \in DOMAIN docs, NEW row \in RowOf(d),
         row.status # "NONE", NEW events \in Seq(Events(DOMAIN docs)),
         Begin(c, d, row, events)
  PROVE  PapersStep
<1> DEFINE r == [doc |-> d, was |-> docs[d], row |-> row, events |-> events]
<1>1. request' = [request EXCEPT ![c] = r] /\ UNCHANGED <<docs, outbox>>
  BY DEF Begin
<1>2. RequestOK(DOMAIN docs, r)
  BY DEF RequestOK, PapersOK
<1> HIDE DEF r
<1>3. /\ request' = [e \in DOMAIN request' |-> request'[e]]
      /\ \A e \in DOMAIN request' : RequestOK(DOMAIN docs, request'[e])
  BY <1>1, <1>2, RequestSet
<1>4. /\ DOMAIN docs' = DOMAIN docs
      /\ docs' = [e \in DOMAIN docs' |-> docs'[e]]
      /\ \A e \in DOMAIN docs' : docs'[e] \in RowOf(e)
      /\ outbox' \in Seq(Events(DOMAIN docs))
  BY <1>1 DEF PapersOK
<1> QED BY <1>3, <1>4, PapersFrom

\* The lines a receipt is updated to have quantities.
LEMMA UpdatedLinesIn ==
  ASSUME NEW lines \in Seq(QuantityLine), NEW given \in Seq(QuantityLine)
  PROVE  UpdatedLines(lines, given) \in Seq(QuantityLine)
<1> DEFINE stay == {l \in LineRow : l.id \in LineIds(given)}
           come == {l \in LineRow : l.id \notin LineIds(lines)}
           kept == Only(stay, lines)
           new == Only(come, given)
           same(l) == CHOOSE g \in Range(given) : g.id = l.id
           mapped == [i \in DOMAIN kept |-> same(kept[i])]
<1>1. kept \in Seq(stay \cap QuantityLine) /\ new \in Seq(come \cap QuantityLine)
  <2> HIDE DEF stay, come
  <2> QED BY OnlyKeeps
<1>2. \A l \in stay : same(l) \in QuantityLine
  <2> TAKE l \in stay
  <2>1. PICK i \in DOMAIN given : given[i].id = l.id
    BY DEF LineIds
  <2>2. given[i] \in Range(given) /\ Range(given) \subseteq QuantityLine
    BY <2>1 DEF Range
  <2> QED BY <2>1, <2>2
<1>3. new \in Seq(QuantityLine)
  <2> HIDE DEF come, new
  <2>1. come \cap QuantityLine \subseteq QuantityLine
    OBVIOUS
  <2> QED BY <1>1, <2>1
<1>4. mapped \in Seq(QuantityLine)
  <2> HIDE DEF stay, same, kept
  <2>1. DOMAIN kept = 1 .. Len(kept) /\ Len(kept) \in Nat /\ \A i \in 1 .. Len(kept) : kept[i] \in stay
    BY <1>1
  <2>2. mapped \in [1 .. Len(kept) -> QuantityLine]
    BY <1>2, <2>1
  <2> HIDE DEF mapped
  <2> QED BY <2>1, <2>2
<1>5. UpdatedLines(lines, given) = mapped \o new
  BY DEF UpdatedLines
<1> HIDE DEF mapped, new
<1> QED BY <1>3, <1>4, <1>5

\* Differences counted in a stock taking are lines.
LEMMA DeltasIn ==
  ASSUME NEW lines \in Seq(LineRow)
  PROVE  Deltas(lines) \in Seq(LineRow)
<1> DEFINE differ == {l \in LineRow : l.actual # NotCounted /\ l.actual # l.qty}
           counted == Only(differ, lines)
           change(l) == [l EXCEPT !.qty = l.actual - @]
           mapped == [i \in DOMAIN counted |-> change(counted[i])]
<1>1. counted \in Seq(differ \cap LineRow)
  <2> HIDE DEF differ
  <2> QED BY OnlyKeeps
<1>2. \A l \in LineRow : change(l) \in LineRow
  BY DEF LineRow, NotCounted
<1>3. DOMAIN counted = 1 .. Len(counted) /\ Len(counted) \in Nat
      /\ \A i \in 1 .. Len(counted) : counted[i] \in LineRow
  <2> HIDE DEF counted, differ
  <2> QED BY <1>1
<1>4. Deltas(lines) = mapped
  BY DEF Deltas
<1>5. mapped \in Seq(LineRow)
  <2> HIDE DEF change, counted
  <2>1. mapped \in [1 .. Len(counted) -> LineRow]
    BY <1>2, <1>3
  <2> HIDE DEF mapped
  <2> QED BY <1>3, <2>1
<1> QED BY <1>4, <1>5

LEMMA DocIn ==
  ASSUME PapersOK, NEW d \in DOMAIN docs
  PROVE  /\ docs[d] \in RowOf(d) /\ docs[d].lines \in Seq(LineRow)
         /\ docs[d].branch \in BranchIds /\ docs[d].to \in BranchIds
         /\ KindOf[d] \in {"receipt", "transfer"} => docs[d].lines \in Seq(QuantityLine)
         /\ KindOf[d] \in {"transfer", "adjustment"} /\ docs[d].status # "NONE"
              => docs[d].lines # <<>>
<1>1. docs[d] \in RowOf(d)
  BY DEF PapersOK
<1> QED BY <1>1, RowParts

LEMMA DecidePapers ==
  ASSUME PapersOK, NEW c \in DOMAIN request, NEW d \in DOMAIN docs, NEW status \in Decided,
         docs[d].status # "NONE", NEW events \in Seq(Events(DOMAIN docs)),
         Decide(c, d, status, events)
  PROVE  PapersStep
<1> DEFINE row == [docs[d] EXCEPT !.status = status]
<1>1. row \in RowOf(d) /\ row.status # "NONE"
  BY DocIn, StatusSet
<1>2. Begin(c, d, row, events)
  BY DEF Decide
<1> HIDE DEF row
<1> QED BY <1>1, <1>2, BeginPapers

\* A command loads a document and makes a well-formed row of it.
LEMMA CommandPapers ==
  ASSUME PapersOK, NEW c \in DOMAIN request, Command(c)
  PROVE  PapersStep
<1>1. PICK d \in DOMAIN docs :
        \/ \E f \in Forms : UpdateReceipt(c, d, f)
        \/ PostReceipt(c, d)
        \/ CancelReceipt(c, d)
        \/ PostTransfer(c, d)
        \/ ApproveAdjustment(c, d)
        \/ RejectAdjustment(c, d)
        \/ \E s \in Skus, q \in Counts : RecordMeasurement(c, d, s, q)
        \/ PostStockTaking(c, d)
        \/ CancelStockTaking(c, d)
  BY DEF Command
<1> DEFINE D == DOMAIN docs
           lines == docs[d].lines
<1>2. /\ docs[d] \in RowOf(d) /\ lines \in Seq(LineRow)
      /\ docs[d].branch \in BranchIds /\ docs[d].to \in BranchIds
      /\ KindOf[d] \in {"receipt", "transfer"} => lines \in Seq(QuantityLine)
      /\ KindOf[d] \in {"transfer", "adjustment"} /\ docs[d].status # "NONE" => lines # <<>>
  BY DocIn
<1>3. {"POSTED", "CANCELLED", "APPROVED", "REJECTED"} = Decided
  BY DEF Decided
<1>4. <<>> \in Seq(Events(D))
  OBVIOUS
<1>5. CASE PostReceipt(c, d)
  <2> DEFINE events == <<Event("ReceiptPosted", d, docs[d], docs[d].lines)>>
  <2>1. /\ KindOf[d] = "receipt" /\ docs[d].status = "DRAFT" /\ lines # <<>>
        /\ Decide(c, d, "POSTED", events)
    BY <1>5 DEF PostReceipt, Is
  <2>2. events \in Seq(Events(D))
    BY <1>2, <2>1, EventIn DEF EventKinds
  <2> HIDE DEF events
  <2> QED BY <1>3, <2>1, <2>2, DecidePapers
<1>6. CASE CancelReceipt(c, d)
  <2> DEFINE events == <<Event("ReceiptCancelled", d, docs[d], <<>>)>>
  <2>1. docs[d].status = "POSTED" /\ Decide(c, d, "CANCELLED", events)
    BY <1>6 DEF CancelReceipt, Is
  <2>2. <<>> \in Seq(LineRow) /\ "ReceiptCancelled" \in EventKinds
    BY DEF EventKinds
  <2>3. events \in Seq(Events(D))
    BY <1>2, <2>2, EventIn
  <2> HIDE DEF events
  <2> QED BY <1>3, <2>1, <2>3, DecidePapers
<1>7. CASE PostTransfer(c, d)
  <2> DEFINE events == <<Event("TransferPosted", d, docs[d], docs[d].lines)>>
  <2>1. /\ KindOf[d] = "transfer" /\ docs[d].status = "DRAFT"
        /\ Decide(c, d, "POSTED", events)
    BY <1>7 DEF PostTransfer, Is
  <2>2. events \in Seq(Events(D))
    BY <1>2, <2>1, EventIn DEF EventKinds
  <2> HIDE DEF events
  <2> QED BY <1>3, <2>1, <2>2, DecidePapers
<1>8. CASE ApproveAdjustment(c, d)
  <2> DEFINE events == <<Event("AdjustmentApproved", d, docs[d], docs[d].lines)>>
  <2>1. /\ KindOf[d] = "adjustment" /\ docs[d].status = "PENDING"
        /\ Decide(c, d, "APPROVED", events)
    BY <1>8 DEF ApproveAdjustment, Is
  <2>2. events \in Seq(Events(D))
    BY <1>2, <2>1, EventIn DEF EventKinds
  <2> HIDE DEF events
  <2> QED BY <1>3, <2>1, <2>2, DecidePapers
<1>9. CASE RejectAdjustment(c, d)
  <2>1. docs[d].status = "PENDING" /\ Decide(c, d, "REJECTED", <<>>)
    BY <1>9 DEF RejectAdjustment, Is
  <2> QED BY <1>3, <1>4, <2>1, DecidePapers
<1>10. CASE PostStockTaking(c, d)
  <2> DEFINE events == <<Event("StockTakingPosted", d, docs[d], Deltas(docs[d].lines))>>
  <2>1. docs[d].status = "STARTED" /\ Decide(c, d, "POSTED", events)
    BY <1>10 DEF PostStockTaking, Is
  <2>2. Deltas(lines) \in Seq(LineRow) /\ "StockTakingPosted" \in EventKinds
    BY <1>2, DeltasIn DEF EventKinds
  <2>3. events \in Seq(Events(D))
    BY <1>2, <2>2, EventIn
  <2> HIDE DEF events
  <2> QED BY <1>3, <2>1, <2>3, DecidePapers
<1>11. CASE CancelStockTaking(c, d)
  <2>1. docs[d].status = "STARTED" /\ Decide(c, d, "CANCELLED", <<>>)
    BY <1>11 DEF CancelStockTaking, Is
  <2> QED BY <1>3, <1>4, <2>1, DecidePapers
<1>12. ASSUME NEW f \in Forms, UpdateReceipt(c, d, f)
       PROVE  PapersStep
  <2> DEFINE now == UpdatedLines(docs[d].lines, f)
             row == [docs[d] EXCEPT !.lines = now]
  <2>1. KindOf[d] = "receipt" /\ docs[d].status = "DRAFT" /\ Begin(c, d, row, <<>>)
    BY <1>12 DEF UpdateReceipt, Is
  <2>2. f \in Seq(QuantityLine)
    BY InventoryAssumption
  <2>3. now \in Seq(QuantityLine)
    BY <1>2, <2>1, <2>2, UpdatedLinesIn
  <2>4. now \in Seq(LineRow)
    BY <2>3 DEF QuantityLine
  <2> HIDE DEF now
  <2>5. row \in RowOf(d) /\ row.status = docs[d].status
    BY <1>2, <2>1, <2>3, <2>4, LinesSet
  <2> HIDE DEF row
  <2> QED BY <1>4, <2>1, <2>5, BeginPapers
<1>13. ASSUME NEW s \in Skus, NEW q \in Counts, RecordMeasurement(c, d, s, q)
       PROVE  PapersStep
  <2>1. KindOf[d] = "taking" /\ docs[d].status = "STARTED"
    BY <1>13 DEF RecordMeasurement, Is
  <2>2. PICK i \in DOMAIN docs[d].lines :
          Begin(c, d, [docs[d] EXCEPT !.lines[i].actual = q], <<>>)
    BY <1>13 DEF RecordMeasurement
  <2> DEFINE now == [docs[d].lines EXCEPT ![i].actual = q]
             row == [docs[d] EXCEPT !.lines = now]
  <2>3. Begin(c, d, row, <<>>)
    BY <2>2
  <2>4. now \in Seq(LineRow)
    <3>1. q \in Nat
      BY InventoryAssumption
    <3>2. i \in 1 .. Len(lines) /\ lines[i] \in LineRow
      BY <1>2
    <3> DEFINE line == [lines[i] EXCEPT !.actual = q]
    <3>3. line \in LineRow
      BY <3>1, <3>2 DEF LineRow
    <3>4. now = [lines EXCEPT ![i] = line]
      OBVIOUS
    <3> HIDE DEF line, lines
    <3> QED BY <1>2, <3>2, <3>3, <3>4, ExceptSeq
  <2> HIDE DEF now
  <2>5. row \in RowOf(d) /\ row.status = docs[d].status
    BY <1>2, <2>1, <2>4, LinesSet
  <2> HIDE DEF row
  <2> QED BY <1>4, <2>1, <2>3, <2>5, BeginPapers
<1> QED BY <1>1, <1>5, <1>6, <1>7, <1>8, <1>9, <1>10, <1>11, <1>12, <1>13

\* Merging the lines of a copy with those others put in keeps the row well formed.
LEMMA SavePapers ==
  ASSUME PapersOK, NEW c \in DOMAIN request, Save(c)
  PROVE  PapersStep
<1> DEFINE r == request[c]
           d == r.doc
           status == SavedStatus(r)
           lines == SavedLines(r)
<1>1. /\ r # NoRequest
      /\ \/ docs' = [docs EXCEPT ![d].status = status, ![d].lines = lines] /\ Announce(r.events)
         \/ docs' = docs /\ outbox' = outbox
      /\ request' = [request EXCEPT ![c] = NoRequest]
  BY DEF Save
<1>2. /\ d \in DOMAIN docs /\ r.row \in RowOf(d) /\ r.row.status # "NONE"
      /\ r.events \in Seq(Events(DOMAIN docs))
  BY <1>1 DEF PapersOK, RequestOK
<1>3. /\ docs[d] \in RowOf(d) /\ docs[d].lines \in Seq(LineRow)
      /\ KindOf[d] \in {"receipt", "transfer"} => docs[d].lines \in Seq(QuantityLine)
  BY <1>2, DocIn
<1>4. /\ r.row.status \in {"NONE", "DRAFT", "PENDING", "STARTED"} \cup Decided
      /\ docs[d].status \in {"NONE", "DRAFT", "PENDING", "STARTED"} \cup Decided
      /\ r.row.lines \in Seq(LineRow)
      /\ KindOf[d] \in {"receipt", "transfer"} => r.row.lines \in Seq(QuantityLine)
      /\ KindOf[d] \in {"transfer", "adjustment"} => r.row.lines # <<>>
  BY <1>2, <1>3, RowParts
<1>5. /\ request' = [e \in DOMAIN request' |-> request'[e]]
      /\ \A e \in DOMAIN request' : RequestOK(DOMAIN docs, request'[e])
  <2>1. RequestOK(DOMAIN docs, NoRequest)
    BY DEF RequestOK
  <2> QED BY <1>1, <2>1, RequestSet
<1>6. CASE docs' = docs /\ outbox' = outbox
  BY <1>5, <1>6, PapersFrom DEF PapersOK
<1>7. CASE /\ docs' = [docs EXCEPT ![d].status = status, ![d].lines = lines]
           /\ Announce(r.events)
  <2> DEFINE now == [[docs[d] EXCEPT !.status = status] EXCEPT !.lines = lines]
             others == Only({l \in LineRow : l.id \notin LineIds(r.was.lines)}, docs[d].lines)
  <2>1. docs' = [docs EXCEPT ![d] = now]
    BY <1>2, <1>7 DEF PapersOK
  <2>2. status \in {"NONE", "DRAFT", "PENDING", "STARTED"} \cup Decided
    BY <1>4 DEF SavedStatus
  <2>3. /\ others \in Seq(LineRow)
        /\ KindOf[d] \in {"receipt", "transfer"} => others \in Seq(QuantityLine)
    <3> DEFINE set == {l \in LineRow : l.id \notin LineIds(r.was.lines)}
    <3> HIDE DEF set
    <3>1. Only(set, docs[d].lines) \in Seq(set \cap LineRow)
      BY <1>3, OnlyKeeps
    <3>2. KindOf[d] \in {"receipt", "transfer"}
            => Only(set, docs[d].lines) \in Seq(set \cap QuantityLine)
      BY <1>3, OnlyKeeps
    <3>3. Only(set, docs[d].lines) \in Seq(LineRow)
      <4>1. set \cap LineRow \subseteq LineRow
        OBVIOUS
      <4> QED BY <3>1, <4>1
    <3>4. KindOf[d] \in {"receipt", "transfer"} => Only(set, docs[d].lines) \in Seq(QuantityLine)
      <4>1. set \cap QuantityLine \subseteq QuantityLine
        OBVIOUS
      <4> QED BY <3>2, <4>1
    <3> QED BY <3>3, <3>4 DEF set
  <2>4. lines = others \o r.row.lines
    BY DEF SavedLines
  <2> HIDE DEF others
  <2>5. /\ lines \in Seq(LineRow)
        /\ KindOf[d] \in {"receipt", "transfer"} => lines \in Seq(QuantityLine)
        /\ KindOf[d] \in {"transfer", "adjustment"} => lines # <<>>
    <3> DEFINE mine == r.row.lines
    <3>1. /\ lines = others \o mine
          /\ others \in Seq(LineRow) /\ mine \in Seq(LineRow)
          /\ KindOf[d] \in {"receipt", "transfer"}
               => others \in Seq(QuantityLine) /\ mine \in Seq(QuantityLine)
          /\ KindOf[d] \in {"transfer", "adjustment"} => mine # <<>>
      BY <1>4, <2>3, <2>4
    <3> HIDE DEF lines, mine
    <3>2. others \o mine \in Seq(LineRow)
      BY <3>1
    <3>3. KindOf[d] \in {"receipt", "transfer"} => others \o mine \in Seq(QuantityLine)
      BY <3>1
    <3>4. KindOf[d] \in {"transfer", "adjustment"} => others \o mine # <<>>
      BY <3>1
    <3> QED BY <3>1, <3>2, <3>3, <3>4
  <2> HIDE DEF lines, status
  <2>6. now \in RowOf(d)
    BY <1>3, <2>2, <2>5, RowWith
  <2> HIDE DEF now
  <2>7. /\ DOMAIN docs' = DOMAIN docs
        /\ docs' = [e \in DOMAIN docs' |-> docs'[e]]
        /\ \A e \in DOMAIN docs' : docs'[e] \in RowOf(e)
    BY <1>2, <2>1, <2>6, DocSet
  <2>8. outbox' \in Seq(Events(DOMAIN docs))
    BY <1>2, <1>7, Announced
  <2> QED BY <1>5, <2>7, <2>8, PapersFrom
<1> QED BY <1>1, <1>6, <1>7

LEMMA InsertPapers ==
  ASSUME PapersOK, NEW d \in DOMAIN docs, NEW row \in RowOf(d),
         NEW events \in Seq(Events(DOMAIN docs)), Insert(d, row, events), UNCHANGED request
  PROVE  PapersStep
<1>1. docs' = [docs EXCEPT ![d] = row] /\ Announce(events)
  BY DEF Insert
<1>2. /\ DOMAIN docs' = DOMAIN docs
      /\ docs' = [e \in DOMAIN docs' |-> docs'[e]]
      /\ \A e \in DOMAIN docs' : docs'[e] \in RowOf(e)
  BY <1>1, DocSet
<1>3. outbox' \in Seq(Events(DOMAIN docs))
  BY <1>1, Announced
<1>4. /\ request' = [e \in DOMAIN request' |-> request'[e]]
      /\ \A e \in DOMAIN request' : RequestOK(DOMAIN docs, request'[e])
  BY DEF PapersOK
<1> QED BY <1>2, <1>3, <1>4, PapersFrom

LEMMA AdjustmentPapers ==
  ASSUME PapersOK, NEW d \in DOMAIN docs, NEW b \in BranchIds, NEW lines \in Seq(LineRow),
         NEW small \in BOOLEAN, InsertAdjustment(d, b, lines, small), UNCHANGED request
  PROVE  PapersStep
<1> DEFINE status == IF small THEN "APPROVED" ELSE "PENDING"
           row == [status |-> status, branch |-> b, to |-> b, lines |-> lines]
           event == <<Event("AdjustmentApproved", d, row, lines)>>
           events == IF small THEN event ELSE <<>>
           saved == [status |-> status, branch |-> NoBranch, to |-> NoBranch, lines |-> lines]
<1>1. KindOf[d] = "adjustment" /\ lines # <<>> /\ Insert(d, Erased(row), events)
  BY DEF InsertAdjustment, Is
<1>2. /\ Erased(row) = saved /\ row.branch = b /\ row.to = b
      /\ saved.status = status /\ saved.branch = NoBranch /\ saved.to = NoBranch
      /\ saved.lines = lines
      /\ saved = [status |-> saved.status, branch |-> saved.branch, to |-> saved.to,
                  lines |-> saved.lines]
  BY DEF Erased
<1>3. NoBranch \in BranchIds /\ status \in {"NONE", "DRAFT", "PENDING", "STARTED"} \cup Decided
      /\ "AdjustmentApproved" \in EventKinds
  BY DEF BranchIds, Decided, EventKinds
<1> HIDE DEF status, row, saved
<1>4. saved \in RowOf(d)
  BY <1>1, <1>2, <1>3, RowParts
<1>5. event \in Seq(Events(DOMAIN docs))
  BY <1>1, <1>2, <1>3, EventIn
<1>6. <<>> \in Seq(Events(DOMAIN docs))
  OBVIOUS
<1> HIDE DEF event
<1>7. events \in Seq(Events(DOMAIN docs))
  BY <1>5, <1>6
<1> QED BY <1>1, <1>2, <1>4, <1>7, InsertPapers

\* The snapshot of a branch is a sequence of lines.
LEMMA SnapshotIn ==
  ASSUME StocksOK, NEW b \in BranchIds
  PROVE  SnapshotForBranch(b) \in Seq(LineRow)
<1> DEFINE here == {s \in Skus : stock[<<s, b>>].row}
           held == SetToSeq(here)
           line(s) == [id |-> s, sku |-> s, qty |-> TotalQuantity(stock[<<s, b>>].batches),
                       expires |-> Never, actual |-> NotCounted]
<1>1. held \in Seq(here)
  <2>1. IsFiniteSet(here)
    BY InventoryAssumption, FS_Subset
  <2> HIDE DEF here
  <2> QED BY <2>1, SequenceOf
<1>2. \A s \in Skus : line(s) \in LineRow
  <2> TAKE s \in Skus
  <2>1. <<s, b>> \in Stocks /\ Clean(stock[<<s, b>>].batches)
    BY DEF Stocks, StocksOK, Held
  <2>2. TotalQuantity(stock[<<s, b>>].batches) \in Int
    BY <2>1, CleanTotal
  <2>3. s \in LineNames
    BY InventoryAssumption
  <2> QED BY <2>2, <2>3 DEF LineRow, Never, NotCounted
<1>3. DOMAIN held = 1 .. Len(held) /\ Len(held) \in Nat
      /\ \A i \in 1 .. Len(held) : held[i] \in Skus
  <2>1. here \subseteq Skus
    OBVIOUS
  <2> HIDE DEF here, held
  <2> QED BY <1>1, <2>1
<1> DEFINE mapped == [i \in DOMAIN held |-> line(held[i])]
<1>4. SnapshotForBranch(b) = mapped
  BY DEF SnapshotForBranch
<1>5. mapped \in Seq(LineRow)
  <2> HIDE DEF line, held
  <2>1. mapped \in [1 .. Len(held) -> LineRow]
    BY <1>2, <1>3
  <2> HIDE DEF mapped
  <2> QED BY <1>3, <2>1
<1> QED BY <1>4, <1>5

\* Documents are put in well formed.
LEMMA CreatePapers ==
  ASSUME PapersOK, StocksOK, Create
  PROVE  PapersStep
<1>1. PICK d \in DOMAIN docs, b \in Branches :
        \/ CreateReceipt(d, b)
        \/ \E to \in Branches, f \in Forms : CreateTransfer(d, b, to, f)
        \/ \E f \in Changes, small \in BOOLEAN : CreateAdjustment(d, b, f, small)
        \/ StartStockTaking(d, b)
  BY DEF Create
<1>2. <<>> \in Seq(Events(DOMAIN docs)) /\ b \in BranchIds /\ NoBranch \in BranchIds
  BY DEF BranchIds
<1>3. ASSUME NEW row, row = [status |-> row.status, branch |-> row.branch, to |-> row.to,
                             lines |-> row.lines],
             row.status \in {"DRAFT", "STARTED"}, row.branch \in BranchIds, row.to \in BranchIds,
             row.lines \in Seq(LineRow),
             KindOf[d] \in {"receipt", "transfer"} => row.lines \in Seq(QuantityLine),
             KindOf[d] \in {"transfer", "adjustment"} => row.lines # <<>>,
             Insert(d, row, <<>>), UNCHANGED request
      PROVE  PapersStep
  <2>1. row \in RowOf(d)
    BY <1>3, RowParts
  <2> QED BY <1>2, <1>3, <2>1, InsertPapers
<1>4. CASE CreateReceipt(d, b)
  <2> DEFINE row == [status |-> "DRAFT", branch |-> b, to |-> b, lines |-> <<>>]
  <2>1. KindOf[d] = "receipt" /\ Insert(d, row, <<>>) /\ UNCHANGED request
    BY <1>4 DEF CreateReceipt, Is
  <2>2. /\ row.status = "DRAFT" /\ row.branch = b /\ row.to = b /\ row.lines = <<>>
        /\ row = [status |-> row.status, branch |-> row.branch, to |-> row.to,
                  lines |-> row.lines]
    OBVIOUS
  <2>3. <<>> \in Seq(LineRow) /\ <<>> \in Seq(QuantityLine)
    OBVIOUS
  <2> HIDE DEF row
  <2> QED BY <1>2, <1>3, <2>1, <2>2, <2>3
<1>5. ASSUME NEW to \in Branches, NEW f \in Forms, CreateTransfer(d, b, to, f)
      PROVE  PapersStep
  <2> DEFINE row == [status |-> "DRAFT", branch |-> b, to |-> to, lines |-> f]
  <2>1. KindOf[d] = "transfer" /\ f # <<>> /\ Insert(d, row, <<>>) /\ UNCHANGED request
    BY <1>5 DEF CreateTransfer, Is
  <2>2. /\ row.status = "DRAFT" /\ row.branch = b /\ row.to = to /\ row.lines = f
        /\ row = [status |-> row.status, branch |-> row.branch, to |-> row.to,
                  lines |-> row.lines]
    OBVIOUS
  <2>3. f \in Seq(QuantityLine) /\ f \in Seq(LineRow) /\ to \in BranchIds
    BY InventoryAssumption DEF QuantityLine, BranchIds
  <2> HIDE DEF row
  <2> QED BY <1>2, <1>3, <2>1, <2>2, <2>3
<1>6. ASSUME NEW f \in Changes, NEW small \in BOOLEAN, CreateAdjustment(d, b, f, small)
      PROVE  PapersStep
  <2>1. f \in Seq(LineRow)
    BY InventoryAssumption
  <2>2. InsertAdjustment(d, b, f, small) /\ UNCHANGED request
    BY <1>6 DEF CreateAdjustment
  <2> QED BY <1>2, <2>1, <2>2, AdjustmentPapers
<1>7. CASE StartStockTaking(d, b)
  <2> DEFINE taken == [status |-> "STARTED", branch |-> b, to |-> b,
                       lines |-> SnapshotForBranch(b)]
             row == [status |-> "STARTED", branch |-> NoBranch, to |-> NoBranch,
                     lines |-> SnapshotForBranch(b)]
  <2>1. KindOf[d] = "taking" /\ Insert(d, Erased(taken), <<>>) /\ UNCHANGED request
    BY <1>7 DEF StartStockTaking, Is
  <2>2. /\ Erased(taken) = row
        /\ row.status = "STARTED" /\ row.branch = NoBranch /\ row.to = NoBranch
        /\ row.lines = SnapshotForBranch(b)
        /\ row = [status |-> row.status, branch |-> row.branch, to |-> row.to,
                  lines |-> row.lines]
    BY DEF Erased
  <2>3. SnapshotForBranch(b) \in Seq(LineRow)
    BY <1>2, SnapshotIn
  <2> HIDE DEF row, taken
  <2> QED BY <1>2, <1>3, <2>1, <2>2, <2>3
<1> QED BY <1>1, <1>4, <1>5, <1>6, <1>7

(***************************************************************************)
(* What the handlers have in hand stays well formed.                       *)
(***************************************************************************)
\* Stages and lines that are right for the event of a handler in state v.
Fits(v, stage, todo) ==
  /\ stage \in Stages \ {"idle"}
  /\ todo \in Seq(LineRow)
  /\ v.event.kind \in {"ReceiptPosted", "TransferPosted"} => todo \in Seq(QuantityLine)
  /\ PerLine(v.event.kind) => todo # <<>>
  /\ v.event.kind = "TransferPosted" /\ stage = "look" => todo # <<>>
  /\ stage \in {"load", "loadTo", "save", "saveTo", "create"} => todo # <<>>
  /\ stage = "reread" => v.event.kind = "ReceiptCancelled"
  /\ stage \in {"loadTo", "saveTo"} => v.event.kind = "TransferPosted"
  /\ stage = "create" => v.event.kind = "StockTakingPosted"
  /\ stage \in {"load", "save"} => v.event.kind # "StockTakingPosted"

\* Handler h comes to state w.
Took(h, w) == work' = [work EXCEPT ![h] = w] /\ HandOK(DOMAIN docs, w)

\* It has no copies.
Bare(w) == w.own = NoCopy /\ w.other = NoCopy /\ ~Holding(w)

\* A step to a stage that fits the event.
LEMMA GoTakes ==
  ASSUME NEW h \in Handlers, HandOK(DOMAIN docs, work[h]), work[h].stage # "idle",
         NEW stage, NEW todo, NEW own, NEW other,
         Go(h, stage, todo, own, other), Fits(work[h], stage, todo)
  PROVE  \E w : /\ Took(h, w) /\ w.event = work[h].event /\ w.stage = stage /\ w.todo = todo
                /\ w.own = own /\ w.other = other
<1> DEFINE w == [event |-> work[h].event, stage |-> stage, todo |-> todo,
                 own |-> own, other |-> other]
<1>1. work' = [work EXCEPT ![h] = w]
  BY DEF Go, E
<1>2. /\ w.event = work[h].event /\ w.stage = stage /\ w.todo = todo
      /\ w.own = own /\ w.other = other
  OBVIOUS
<1> HIDE DEF w
<1>3. StageOK(w)
  <2>1. work[h].event.kind \in EventKinds
    BY DEF HandOK, Events
  <2> QED BY <1>2, <2>1 DEF StageOK, Fits, EventKinds, PerLine
<1>4. HandOK(DOMAIN docs, w)
  BY <1>2, <1>3 DEF HandOK, Fits
<1> QED BY <1>1, <1>2, <1>4 DEF Took

\* A handler that has nothing in hand.
LEMMA IdleOK == \A D : HandOK(D, NoWork) /\ Bare(NoWork)
<1>1. /\ NoWork.event = NoEvent /\ NoWork.stage = "idle" /\ NoWork.todo = <<>>
      /\ NoWork.own = NoCopy /\ NoWork.other = NoCopy
      /\ NoEvent.kind = "none"
  BY DEF NoWork, NoEvent
<1>2. <<>> \in Seq(LineRow)
  OBVIOUS
<1> QED BY <1>1, <1>2 DEF HandOK, Bare, Holding, Stages, StageOK, PerLine

LEMMA DoneTakes ==
  ASSUME NEW h \in Handlers, Done(h)
  PROVE  Took(h, NoWork) /\ Bare(NoWork)
BY IdleOK DEF Done, Took

LEMMA TailIn ==
  ASSUME NEW S, NEW s \in Seq(S), Len(s) > 1
  PROVE  Tail(s) \in Seq(S) /\ Tail(s) # <<>>
<1>1. s # <<>> /\ Len(s) \in Nat
  OBVIOUS
<1>2. Tail(s) \in Seq(S) /\ Len(Tail(s)) = Len(s) - 1
  BY <1>1, HeadTailProperties
<1>3. ASSUME NEW t, Len(t) = Len(s) - 1 PROVE t # <<>>
  BY <1>1, <1>3
<1> QED BY <1>2, <1>3

\* The kind of the event of a handler that has one.
LEMMA KindIn ==
  ASSUME NEW D, NEW v, HandOK(D, v), v.stage # "idle"
  PROVE  v.event.kind \in EventKinds
BY DEF HandOK, Events

\* To the next line or to the last step.
LEMMA OnwardTakes ==
  ASSUME NEW h \in Handlers, HandOK(DOMAIN docs, work[h]), work[h].stage # "idle",
         NEW stage \in {"look", "load"}, NEW last, Onward(h, stage, last),
         stage = "load" => work[h].event.kind # "StockTakingPosted",
         last => \E w : Took(h, w) /\ Bare(w)
  PROVE  \E w : Took(h, w) /\ Bare(w)
<1>1. CASE Len(Todo(h)) > 1
  <2> DEFINE rest == Tail(work[h].todo)
  <2>1. Go(h, stage, rest, NoCopy, NoCopy) /\ Len(work[h].todo) > 1
    BY <1>1 DEF Onward, Todo
  <2>2. /\ rest \in Seq(LineRow) /\ rest # <<>>
        /\ work[h].event.kind \in {"ReceiptPosted", "TransferPosted"} => rest \in Seq(QuantityLine)
    BY <2>1, TailIn DEF HandOK
  <2> HIDE DEF rest
  <2>3. Fits(work[h], stage, rest)
    BY <2>2 DEF Fits, Stages
  <2>4. PICK w : /\ Took(h, w) /\ w.stage = stage /\ w.own = NoCopy /\ w.other = NoCopy
    BY <2>1, <2>3, GoTakes
  <2> QED BY <2>4 DEF Bare, Holding
<1>2. CASE ~(Len(Todo(h)) > 1)
  BY <1>2 DEF Onward
<1> QED BY <1>1, <1>2

\* To the mark of the whole event.
LEMMA MarkTakes ==
  ASSUME NEW h \in Handlers, HandOK(DOMAIN docs, work[h]), work[h].stage # "idle",
         ~PerLine(work[h].event.kind), Go(h, "mark", <<>>, NoCopy, NoCopy)
  PROVE  \E w : Took(h, w) /\ Bare(w)
<1>1. <<>> \in Seq(LineRow) /\ <<>> \in Seq(QuantityLine)
  OBVIOUS
<1>2. Fits(work[h], "mark", <<>>)
  BY <1>1 DEF Fits, Stages
<1>3. PICK w : Took(h, w) /\ w.stage = "mark" /\ w.own = NoCopy /\ w.other = NoCopy
  BY <1>2, GoTakes
<1> QED BY <1>3 DEF Bare, Holding

LEMMA DeliverTakes ==
  ASSUME PapersOK, NEW h \in Handlers, NEW i \in DOMAIN outbox, Deliver(h, i)
  PROVE  \E w : Took(h, w) /\ Bare(w)
<1> DEFINE e == outbox[i]
           w == [event |-> e, stage |-> "look", todo |-> e.lines, own |-> NoCopy,
                 other |-> NoCopy]
<1>1. work' = [work EXCEPT ![h] = w]
  BY DEF Deliver
<1>2. e \in Events(DOMAIN docs)
  <2>1. outbox \in Seq(Events(DOMAIN docs))
    BY DEF PapersOK
  <2> QED BY <2>1
<1>3. /\ w.event = e /\ w.stage = "look" /\ w.todo = e.lines /\ w.own = NoCopy
      /\ w.other = NoCopy
  OBVIOUS
<1>4. /\ e.lines \in Seq(LineRow)
      /\ e.kind \in {"ReceiptPosted", "TransferPosted"} => e.lines \in Seq(QuantityLine)
      /\ e.kind \in {"ReceiptPosted", "TransferPosted", "AdjustmentApproved"} => e.lines # <<>>
  BY <1>2 DEF Events
<1> HIDE DEF w, e
<1>5. HandOK(DOMAIN docs, w)
  BY <1>2, <1>3, <1>4 DEF HandOK, StageOK, Stages, PerLine
<1> QED BY <1>1, <1>3, <1>5 DEF Took, Bare, Holding

LEMMA LookTakes ==
  ASSUME NEW h \in Handlers, HandOK(DOMAIN docs, work[h]), LookMarked(h) \/ LookUnmarked(h)
  PROVE  \E w : Took(h, w) /\ Bare(w)
<1>1. work[h].stage = "look"
  BY DEF LookMarked, LookUnmarked, At
<1>2. CASE LookMarked(h)
  <2>1. \/ PerLine(work[h].event.kind) /\ Onward(h, "look", Done(h))
        \/ Done(h)
    BY <1>2 DEF LookMarked, E
  <2>2. Done(h) => \E w : Took(h, w) /\ Bare(w)
    BY DoneTakes
  <2> QED BY <1>1, <2>1, <2>2, OnwardTakes
<1>3. CASE LookUnmarked(h)
  <2> DEFINE stage == FirstStage(h)
             todo == work[h].todo
  <2>1. Go(h, stage, todo, NoCopy, NoCopy)
    BY <1>3 DEF LookUnmarked, Todo
  <2>2. /\ stage \in {"reread", "mark", "create", "load"}
        /\ stage = "reread" <=> work[h].event.kind = "ReceiptCancelled"
        /\ stage = "create" => work[h].event.kind = "StockTakingPosted" /\ todo # <<>>
        /\ stage = "mark" => work[h].event.kind = "StockTakingPosted"
        /\ stage = "load" => work[h].event.kind \notin {"StockTakingPosted", "ReceiptCancelled"}
    BY DEF FirstStage, Handles, E, Todo
  <2>3. work[h].event.kind \in EventKinds
    BY <1>1, KindIn
  <2>4. stage = "load" => todo # <<>>
    BY <1>1, <2>2, <2>3 DEF EventKinds, HandOK, PerLine
  <2>5. Fits(work[h], stage, todo)
    <3> HIDE DEF stage
    <3> QED BY <1>1, <2>2, <2>4 DEF Fits, HandOK, Stages
  <2>6. PICK w : Took(h, w) /\ w.stage = stage /\ w.own = NoCopy /\ w.other = NoCopy
    BY <1>1, <2>1, <2>5, GoTakes
  <2> HIDE DEF stage
  <2> QED BY <2>2, <2>6 DEF Bare, Holding
<1> QED BY <1>2, <1>3

LEMMA RereadTakes ==
  ASSUME PapersOK, NEW h \in Handlers, HandOK(DOMAIN docs, work[h]), Reread(h)
  PROVE  \E w : Took(h, w) /\ Bare(w)
<1> DEFINE d == work[h].event.doc
           lines == docs[d].lines
           stage == IF lines = <<>> THEN "mark" ELSE "load"
<1>1. /\ work[h].stage = "reread" /\ Go(h, stage, lines, NoCopy, NoCopy)
      /\ work[h].event.kind = "ReceiptCancelled"
  BY DEF Reread, At, E, HandOK, StageOK
<1>2. d \in DOMAIN docs
  BY <1>1 DEF HandOK, Events
<1>3. lines \in Seq(LineRow)
  BY <1>2, DocIn
<1>4. /\ stage \in {"mark", "load"}
      /\ stage = "load" => lines # <<>>
      /\ ~PerLine(work[h].event.kind)
  BY <1>1 DEF PerLine
<1> HIDE DEF stage, lines
<1>5. Fits(work[h], stage, lines)
  BY <1>1, <1>3, <1>4 DEF Fits, Stages
<1>6. PICK w : Took(h, w) /\ w.stage = stage /\ w.own = NoCopy /\ w.other = NoCopy
  BY <1>1, <1>5, GoTakes
<1> QED BY <1>4, <1>6 DEF Bare, Holding

\* No stock for the line of a cancellation.
LEMMA SkipTakes ==
  ASSUME NEW h \in Handlers, HandOK(DOMAIN docs, work[h]), work[h].stage # "idle",
         work[h].event.kind \in {"ReceiptCancelled", "TransferPosted"},
         Onward(h, "load", Go(h, "mark", <<>>, NoCopy, NoCopy))
  PROVE  \E w : Took(h, w) /\ Bare(w)
<1>1. ~PerLine(work[h].event.kind) /\ work[h].event.kind # "StockTakingPosted"
  BY DEF PerLine
<1>2. Go(h, "mark", <<>>, NoCopy, NoCopy) => \E w : Took(h, w) /\ Bare(w)
  BY <1>1, MarkTakes
<1> QED BY <1>1, <1>2, OnwardTakes

LEMMA SavedTakes ==
  ASSUME NEW h \in Handlers, HandOK(DOMAIN docs, work[h]),
         work[h].stage \in {"save", "create"}, Go(h, "mark", Todo(h), NoCopy, NoCopy)
  PROVE  \E w : Took(h, w) /\ Bare(w)
<1>1. Go(h, "mark", work[h].todo, NoCopy, NoCopy)
  BY DEF Todo
<1>2. Fits(work[h], "mark", work[h].todo)
  BY DEF Fits, HandOK, Stages
<1>3. PICK w : Took(h, w) /\ w.stage = "mark" /\ w.own = NoCopy /\ w.other = NoCopy
  BY <1>1, <1>2, GoTakes
<1> QED BY <1>3 DEF Bare, Holding

LEMMA MarkedTakes ==
  ASSUME PapersOK, NEW h \in Handlers, HandOK(DOMAIN docs, work[h]), Mark(h), processed \subseteq Keys
  PROVE  (\E w : Took(h, w) /\ Bare(w)) /\ processed' \subseteq Keys
<1>1. /\ work[h].stage = "mark"
      /\ processed' = processed \cup {Key(h)}
      /\ \/ PerLine(work[h].event.kind) /\ Onward(h, "look", Done(h))
         \/ Done(h)
  BY DEF Mark, At, E
<1>2. Done(h) => \E w : Took(h, w) /\ Bare(w)
  BY DoneTakes
<1>3. \E w : Took(h, w) /\ Bare(w)
  BY <1>1, <1>2, OnwardTakes
<1>4. work[h].event \in Events(DOMAIN docs)
  BY <1>1 DEF HandOK
<1>5. work[h].event.kind \in EventKinds /\ work[h].event.doc \in Docs
  BY <1>4 DEF Events, PapersOK
<1>6. PerLine(work[h].event.kind) => Head(work[h].todo).sku \in Skus
  <2> SUFFICES ASSUME PerLine(work[h].event.kind) PROVE Head(work[h].todo).sku \in Skus
    OBVIOUS
  <2>1. work[h].todo \in Seq(LineRow) /\ work[h].todo # <<>>
    BY <1>1 DEF HandOK
  <2>2. Head(work[h].todo) \in LineRow
    BY <2>1
  <2> QED BY <2>2 DEF LineRow
<1>7. Key(h) \in Keys
  BY <1>5, <1>6 DEF Key, Keys, E, Line, Todo
<1> QED BY <1>1, <1>3, <1>7

(***************************************************************************)
(* New ids.                                                                *)
(***************************************************************************)
Above == {n \in Nat : n >= NextBatch}

LEMMA IdsFinite ==
  ASSUME NEW B, B \subseteq Batch, IsFiniteSet(B)
  PROVE  IsFiniteSet(Ids(B)) /\ Ids(B) \subseteq Nat
<1> DEFINE f == [b \in B |-> b.id]
<1>1. Ids(B) = Img(f, B)
  BY DEF Ids, Img
<1>2. IsFiniteSet(Img(f, B))
  BY ImgFinite
<1>3. Ids(B) \subseteq Nat
  BY DEF Ids, Batch
<1> QED BY <1>1, <1>2, <1>3

\* The batches a handler holds copies of.
InHand(w) == w.own.was.batches \cup w.own.batches \cup w.other.was.batches \cup w.other.batches

\* Copies are finite sets of batches.
LEMMA InHandFinite ==
  ASSUME NEW w, CopiesOK(w)
  PROVE  InHand(w) \subseteq Batch /\ IsFiniteSet(InHand(w))
<1>1. /\ Clean(w.own.was.batches) /\ Clean(w.own.batches)
      /\ Clean(w.other.was.batches) /\ Clean(w.other.batches)
  BY DEF CopiesOK, CopyOK
<1>2. InHand(w) \subseteq Batch
  BY <1>1 DEF InHand, Clean
<1>3. /\ IsFiniteSet(w.own.was.batches) /\ IsFiniteSet(w.own.batches)
      /\ IsFiniteSet(w.other.was.batches) /\ IsFiniteSet(w.other.batches)
  BY <1>1 DEF Clean
<1>4. IsFiniteSet(InHand(w))
  BY <1>3, FS_Union DEF InHand
<1> QED BY <1>2, <1>4

LEMMA KnownInHand == \A w : Known(w) = Ids(InHand(w))
BY DEF Known, InHand, Ids

LEMMA UnionOf ==
  ASSUME NEW S, IsFiniteSet(S), NEW f, \A s \in S : f[s] \subseteq Batch /\ IsFiniteSet(f[s])
  PROVE  UNION Img(f, S) \subseteq Batch /\ IsFiniteSet(UNION Img(f, S))
<1>1. IsFiniteSet(Img(f, S))
  BY ImgFinite
<1>2. \A T \in Img(f, S) : T \subseteq Batch /\ IsFiniteSet(T)
  BY DEF Img
<1>3. IsFiniteSet(UNION Img(f, S))
  BY <1>1, <1>2, FS_UNION
<1>4. UNION Img(f, S) \subseteq Batch
  BY <1>2
<1> QED BY <1>3, <1>4

LEMMA StocksFinite == IsFiniteSet(Stocks)
<1>1. IsFiniteSet(Skus) /\ IsFiniteSet(Branches)
  BY InventoryAssumption
<1>2. IsFiniteSet(BranchIds)
  BY <1>1, FS_AddElement DEF BranchIds
<1> QED BY <1>1, <1>2, FS_Product DEF Stocks

\* The id of the next new batch is above all that are in use.
LEMMA NextAbove ==
  ASSUME StocksOK, \A h \in Handlers : CopiesOK(work[h])
  PROVE  /\ NextBatch \in Nat
         /\ \A n \in Used : n \in Nat /\ n < NextBatch
         /\ \A h \in Handlers : \A n \in Known(work[h]) : n \in Nat /\ n < NextBatch
<1> DEFINE f == [k \in Stocks |-> Held(k)]
           g == [h \in Handlers |-> InHand(work[h])]
           U == UNION Img(f, Stocks)
           V == UNION Img(g, Handlers)
           W == Ids(U \cup V)
<1>1. U \subseteq Batch /\ IsFiniteSet(U)
  <2>1. \A k \in Stocks : f[k] \subseteq Batch /\ IsFiniteSet(f[k])
    BY DEF StocksOK, Clean
  <2> HIDE DEF f
  <2> QED BY <2>1, StocksFinite, UnionOf
<1>2. V \subseteq Batch /\ IsFiniteSet(V)
  <2>1. \A h \in Handlers : g[h] \subseteq Batch /\ IsFiniteSet(g[h])
    BY InHandFinite
  <2>2. IsFiniteSet(Handlers)
    BY InventoryAssumption
  <2> HIDE DEF g
  <2> QED BY <2>1, <2>2, UnionOf
<1>3. W \subseteq Nat /\ IsFiniteSet(W)
  <2>1. IsFiniteSet(U \cup V) /\ U \cup V \subseteq Batch
    BY <1>1, <1>2, FS_Union
  <2> HIDE DEF U, V
  <2> QED BY <2>1, IdsFinite
<1>4. NextBatch = 1 + Max({0} \cup W)
  <2>1. U = InStocks
    BY DEF Img, InStocks
  <2>2. V = InCopies
    BY DEF Img, InCopies, InHand
  <2> HIDE DEF U, V
  <2> QED BY <2>1, <2>2 DEF NextBatch
<1>5. Max({0} \cup W) \in Nat /\ \A n \in {0} \cup W : n <= Max({0} \cup W)
  <2> DEFINE Z == {0} \cup W
  <2>1. IsFiniteSet(Z) /\ Z \subseteq Nat /\ Z # {}
    <3> HIDE DEF W
    <3>1. IsFiniteSet(Z)
      BY <1>3, FS_Singleton, FS_Union
    <3>2. Z \subseteq Nat /\ Z # {}
      BY <1>3
    <3> QED BY <3>1, <3>2
  <2> HIDE DEF Z
  <2>2. Max(Z) \in Nat /\ \A n \in Z : n <= Max(Z)
    BY <2>1, MaxAbove
  <2> QED BY <2>2 DEF Z
<1>6. Used \subseteq W
  BY DEF Used, Ids, Img
<1>7. \A h \in Handlers : Known(work[h]) \subseteq W
  BY KnownInHand DEF Ids, Img
<1>8. NextBatch \in Nat /\ \A n \in W : n \in Nat /\ n < NextBatch
  <2> DEFINE m == Max({0} \cup W)
  <2> HIDE DEF W
  <2>1. m \in Nat /\ \A n \in W : n \in Nat /\ n <= m
    BY <1>3, <1>5
  <2>2. NextBatch = 1 + m
    BY <1>4
  <2> HIDE DEF m
  <2> QED BY <2>1, <2>2
<1> QED BY <1>6, <1>7, <1>8

\* The facts a step of handler h needs of the stocks and of what it holds.
LEMMA LineFacts ==
  ASSUME PapersOK, NEW v, HandOK(DOMAIN docs, v), v.stage \in {"load", "loadTo", "save", "saveTo"}
  PROVE  LET line == Head(v.todo)
         IN  /\ line.sku \in Skus /\ line.qty \in Int /\ line.expires \in Nat
             /\ v.event.kind \in {"ReceiptPosted", "TransferPosted"} => line.qty \in Nat
             /\ v.event.at \in Nat /\ v.event.doc \in Docs
             /\ <<line.sku, v.event.branch>> \in Stocks /\ <<line.sku, v.event.to>> \in Stocks
<1> DEFINE line == Head(v.todo)
<1>1. v.todo \in Seq(LineRow) /\ v.todo # <<>> /\ v.event \in Events(DOMAIN docs)
      /\ (v.event.kind \in {"ReceiptPosted", "TransferPosted"} => v.todo \in Seq(QuantityLine))
  BY DEF HandOK
<1>2. line \in LineRow
  BY <1>1
<1>3. v.event.kind \in {"ReceiptPosted", "TransferPosted"} => line \in QuantityLine
  BY <1>1
<1>4. v.event.branch \in BranchIds /\ v.event.to \in BranchIds /\ v.event.at \in Nat
      /\ v.event.doc \in Docs
  BY <1>1 DEF Events, PapersOK
<1> HIDE DEF line
<1>5. line.sku \in Skus /\ line.qty \in Int /\ line.expires \in Nat
  BY <1>2 DEF LineRow
<1>6. v.event.kind \in {"ReceiptPosted", "TransferPosted"} => line.qty \in Nat
  BY <1>3 DEF QuantityLine
<1> QED BY <1>4, <1>5, <1>6 DEF Stocks, line

\* A copy of a stock as it is.
LEMMA CopyOf ==
  ASSUME StocksOK, NEW k \in Stocks, NEW B, Clean(B)
  PROVE  /\ CopyOK(Copy(k, B)) /\ Copy(k, B).was.batches = Held(k) /\ Copy(k, B).batches = B
         /\ Clean(Held(k)) /\ Ids(Held(k)) \subseteq Used
<1>1. stock[k].row \in BOOLEAN /\ Clean(Held(k))
  BY DEF StocksOK
<1>2. Ids(Held(k)) \subseteq Used
  BY DEF Used
<1> QED BY <1>1, <1>2 DEF CopyOK, Copy, Held

LEMMA NoCopyFacts ==
  /\ CopyOK(NoCopy) /\ Ids(NoCopy.batches) = {} /\ Ids(NoCopy.was.batches) = {}
  /\ NewIn(NoCopy) = {}
<1>1. NoCopy.batches = {} /\ NoCopy.was.batches = {} /\ NoCopy.was.row = FALSE
  BY DEF NoCopy, NoRow
<1>2. Clean({})
  BY FS_EmptySet DEF Clean
<1> QED BY <1>1, <1>2 DEF CopyOK, Ids, NewIn

(***************************************************************************)
(* Loads: what a handler makes of the stocks it reads.                     *)
(***************************************************************************)
\* The ids in a state w that handler h comes to were in use, were its own, or
\* are new to all.
FreshIn(h, w) ==
  /\ Known(w) \subseteq Used \cup Known(work[h]) \cup Above
  /\ New(w) \subseteq New(work[h]) \cup Above
  /\ NewIn(w.other) \cap Ids(w.own.batches) = {}

Loads(h, w) == Took(h, w) /\ CopiesOK(w) /\ FreshIn(h, w)

LEMMA BareLoads ==
  ASSUME NEW h, NEW w, Took(h, w), Bare(w)
  PROVE  Loads(h, w)
<1>1. CopiesOK(w)
  BY NoCopyFacts DEF Bare, CopiesOK, Holding, Moving
<1>2. Known(w) = {} /\ New(w) = {} /\ NewIn(w.other) = {}
  BY NoCopyFacts DEF Bare, Known, New
<1> QED BY <1>1, <1>2 DEF FreshIn, Loads

\* A handler with one copy, just loaded, holds ids in use or new ones.
LEMMA OwnFresh ==
  ASSUME StocksOK, NEW h, NEW k \in Stocks, NEW w, w.own.was.batches = Held(k),
         Ids(w.own.batches) \subseteq Ids(Held(k)) \cup Above, w.other = NoCopy
  PROVE  FreshIn(h, w)
<1>1. Ids(Held(k)) \subseteq Used
  BY DEF Used
<1>2. NewIn(w.other) = {} /\ Ids(w.other.was.batches) = {} /\ Ids(w.other.batches) = {}
  BY NoCopyFacts
<1>3. Known(w) \subseteq Used \cup Above
  BY <1>1, <1>2 DEF Known
<1>4. New(w) \subseteq Above
  BY <1>2 DEF New, NewIn
<1> QED BY <1>2, <1>3, <1>4 DEF FreshIn

\* The hypotheses of the lemmas on loads.
CanLoad(h) ==
  /\ PapersOK /\ StocksOK
  /\ HandOK(DOMAIN docs, work[h])
  /\ \A g \in Handlers : CopiesOK(work[g])

LEMMA NextIsAbove ==
  ASSUME NEW h, CanLoad(h), NEW k \in Stocks
  PROVE  /\ NextBatch \in Nat /\ NextBatch \in Above /\ NextBatch \notin Ids(Held(k))
         /\ \A i \in Ids(Held(k)) : i < NextBatch
<1>1. /\ NextBatch \in Nat
      /\ \A n \in Used : n \in Nat /\ n < NextBatch
  BY NextAbove DEF CanLoad
<1>2. Ids(Held(k)) \subseteq Used
  BY DEF Used
<1> QED BY <1>1, <1>2 DEF Above

\* The receipt's new batch.
LEMMA ReceiptLoads ==
  ASSUME NEW h \in Handlers, CanLoad(h), ApplyReceiptLine(h)
  PROVE  \E w : Loads(h, w)
<1> DEFINE v == work[h]
           line == Head(v.todo)
           k == <<line.sku, v.event.branch>>
           B == Receive(Held(k), NextBatch, v.event.doc, line.qty, line.expires, v.event.at)
<1>1. /\ v.stage = "load" /\ v.event.kind = "ReceiptPosted"
      /\ Go(h, "save", v.todo, Copy(k, B), NoCopy)
  BY DEF ApplyReceiptLine, At, Handles, E, Todo, Line, From
<1>2. /\ PapersOK /\ StocksOK /\ HandOK(DOMAIN docs, v)
  BY DEF CanLoad
<1>3. /\ line.qty \in Nat /\ line.expires \in Nat /\ v.event.at \in Nat
      /\ v.event.doc \in Docs /\ k \in Stocks
  BY <1>1, <1>2, LineFacts
<1>4. Fits(v, "save", v.todo)
  BY <1>1, <1>2 DEF Fits, HandOK, Stages
<1> HIDE DEF k
<1>5. Clean(Held(k)) /\ NextBatch \in Nat /\ NextBatch \in Above /\ NextBatch \notin Ids(Held(k))
  BY <1>2, <1>3, NextIsAbove DEF StocksOK
<1>6. /\ Clean(B) /\ Ids(B) = Ids(Held(k)) \cup {NextBatch}
      /\ TotalQuantity(B) = TotalQuantity(Held(k)) + line.qty
  BY <1>3, <1>5, ReceiveAdds
<1> HIDE DEF B
<1>7. PICK w : /\ Took(h, w) /\ w.event = v.event /\ w.stage = "save" /\ w.todo = v.todo
               /\ w.own = Copy(k, B) /\ w.other = NoCopy
  BY <1>1, <1>2, <1>4, GoTakes
<1>8. CopyOK(w.own) /\ w.own.was.batches = Held(k) /\ w.own.batches = B
  BY <1>2, <1>3, <1>6, <1>7, CopyOf
<1>9. CopiesOK(w)
  BY <1>1, <1>6, <1>7, <1>8, NoCopyFacts DEF CopiesOK, Holding, Moving
<1>10. FreshIn(h, w)
  BY <1>2, <1>3, <1>5, <1>6, <1>7, <1>8, OwnFresh
<1> QED BY <1>7, <1>9, <1>10 DEF Loads

\* The adjusted stock.
LEMMA AdjustmentLoads ==
  ASSUME NEW h \in Handlers, CanLoad(h), ApplyAdjustmentLine(h)
  PROVE  \E w : Loads(h, w)
<1> DEFINE v == work[h]
           line == Head(v.todo)
           k == <<line.sku, v.event.branch>>
           B == Adjust(Held(k), NextBatch, line.qty, v.event.at)
<1>1. /\ v.stage = "load" /\ v.event.kind = "AdjustmentApproved"
      /\ Go(h, "save", v.todo, Copy(k, B), NoCopy)
  BY DEF ApplyAdjustmentLine, At, Handles, E, Todo, Line, From
<1>2. /\ PapersOK /\ StocksOK /\ HandOK(DOMAIN docs, v)
  BY DEF CanLoad
<1>3. line.qty \in Int /\ v.event.at \in Nat /\ k \in Stocks
  BY <1>1, <1>2, LineFacts
<1>4. Fits(v, "save", v.todo)
  BY <1>1, <1>2 DEF Fits, HandOK, Stages
<1> HIDE DEF k
<1>5. Clean(Held(k)) /\ NextBatch \in Nat /\ NextBatch \in Above /\ NextBatch \notin Ids(Held(k))
  BY <1>2, <1>3, NextIsAbove DEF StocksOK
<1>6. /\ Clean(B) /\ Ids(B) \subseteq Ids(Held(k)) \cup {NextBatch}
      /\ (line.qty < 0 => -line.qty <= TotalQuantity(Available(Held(k), v.event.at)))
           => TotalQuantity(B) = TotalQuantity(Held(k)) + line.qty
  BY <1>3, <1>5, AdjustCleans
<1>7. line.qty < 0 => B = WriteOff(Held(k), -line.qty, v.event.at)
  BY <1>3 DEF Adjust
<1> HIDE DEF B
<1>8. PICK w : /\ Took(h, w) /\ w.event = v.event /\ w.stage = "save" /\ w.todo = v.todo
               /\ w.own = Copy(k, B) /\ w.other = NoCopy
  BY <1>1, <1>2, <1>4, GoTakes
<1>9. CopyOK(w.own) /\ w.own.was.batches = Held(k) /\ w.own.batches = B
  BY <1>2, <1>3, <1>6, <1>8, CopyOf
<1>10. CopiesOK(w)
  BY <1>1, <1>6, <1>7, <1>8, <1>9, NoCopyFacts DEF CopiesOK, Holding, Moving, Covered
<1>11. FreshIn(h, w)
  BY <1>2, <1>3, <1>5, <1>6, <1>8, <1>9, OwnFresh
<1> QED BY <1>8, <1>10, <1>11 DEF Loads

\* The stock transferred from, written off.
LEMMA TransferOutLoads ==
  ASSUME NEW h \in Handlers, CanLoad(h), ApplyTransferOut(h)
  PROVE  \E w : Loads(h, w)
<1> DEFINE v == work[h]
           line == Head(v.todo)
           k == <<line.sku, v.event.branch>>
           B == WriteOff(Held(k), line.qty, v.event.at)
<1>1. /\ v.stage = "load" /\ v.event.kind = "TransferPosted"
      /\ Go(h, "loadTo", v.todo, Copy(k, B), NoCopy)
  BY DEF ApplyTransferOut, At, Handles, E, Todo, Line, From
<1>2. /\ PapersOK /\ StocksOK /\ HandOK(DOMAIN docs, v)
  BY DEF CanLoad
<1>3. line.qty \in Int /\ v.event.at \in Nat /\ k \in Stocks
  BY <1>1, <1>2, LineFacts
<1>4. Fits(v, "loadTo", v.todo)
  BY <1>1, <1>2 DEF Fits, HandOK, Stages, PerLine
<1> HIDE DEF k
<1>5. Clean(Held(k))
  BY <1>2, <1>3 DEF StocksOK
<1>6. Clean(B) /\ Ids(B) \subseteq Ids(Held(k))
  BY <1>3, <1>5, WriteOffClean
<1>7. B = WriteOff(Held(k), line.qty, v.event.at)
  OBVIOUS
<1> HIDE DEF B
<1>8. PICK w : /\ Took(h, w) /\ w.event = v.event /\ w.stage = "loadTo" /\ w.todo = v.todo
               /\ w.own = Copy(k, B) /\ w.other = NoCopy
  BY <1>1, <1>2, <1>4, GoTakes
<1>9. CopyOK(w.own) /\ w.own.was.batches = Held(k) /\ w.own.batches = B
  BY <1>2, <1>3, <1>6, <1>8, CopyOf
<1>10. CopiesOK(w)
  BY <1>1, <1>7, <1>8, <1>9, NoCopyFacts DEF CopiesOK, Holding, Moving
<1>11. FreshIn(h, w)
  BY <1>2, <1>3, <1>6, <1>8, <1>9, OwnFresh
<1> QED BY <1>8, <1>10, <1>11 DEF Loads

\* The stock transferred to: its total grows by what the other copy has lost.
LEMMA TransferInLoads ==
  ASSUME NEW h \in Handlers, CanLoad(h), ApplyTransferIn(h)
  PROVE  \E w : Loads(h, w)
<1> DEFINE v == work[h]
           line == Head(v.todo)
           k == <<line.sku, v.event.to>>
           A == v.own.was.batches
           parts == Allocations(A, line.qty, v.event.at)
           B == TransferIn(Held(k), NextBatch, parts, v.event.at)
<1>1. v.stage = "loadTo" /\ Go(h, "save", v.todo, v.own, Copy(k, B))
  BY DEF ApplyTransferIn, At, E, Todo, Line, To
<1>2. /\ PapersOK /\ StocksOK /\ HandOK(DOMAIN docs, v) /\ CopiesOK(v)
  BY DEF CanLoad
<1>3. v.event.kind = "TransferPosted"
  BY <1>1, <1>2 DEF HandOK, StageOK
<1>4. line.qty \in Nat /\ v.event.at \in Nat /\ k \in Stocks
  BY <1>1, <1>2, <1>3, LineFacts
<1>5. Fits(v, "save", v.todo)
  BY <1>1, <1>2, <1>3 DEF Fits, HandOK, Stages, PerLine
<1> HIDE DEF k
<1>6. /\ Clean(Held(k)) /\ NextBatch \in Nat
      /\ \A i \in Ids(Held(k)) : i < NextBatch
  BY <1>2, <1>4, NextIsAbove DEF StocksOK
<1>7. /\ CopyOK(v.own) /\ Clean(A)
      /\ v.own.batches = WriteOff(A, line.qty, v.event.at)
  BY <1>1, <1>2, <1>3 DEF CopiesOK, CopyOK, Holding
<1>8. Ids(v.own.batches) \subseteq Ids(A)
  BY <1>4, <1>7, WriteOffClean
<1>9. /\ Clean(B) /\ (\A i \in Ids(B) : i \in Ids(Held(k)) \/ i >= NextBatch)
      /\ line.qty <= TotalQuantity(Available(A, v.event.at))
           => TotalQuantity(B) = TotalQuantity(Held(k)) + line.qty
  <2> DEFINE qty == line.qty
             at == v.event.at
             now == TransferIn(Held(k), NextBatch, Allocations(A, qty, at), at)
  <2>1. qty \in Nat /\ at \in Nat
    BY <1>4
  <2>2. B = now
    OBVIOUS
  <2> HIDE DEF A, qty, at
  <2>3. /\ Clean(now) /\ (\A i \in Ids(now) : i \in Ids(Held(k)) \/ i >= NextBatch)
        /\ qty <= TotalQuantity(Available(A, at))
             => TotalQuantity(now) = TotalQuantity(Held(k)) + qty
    BY <1>6, <1>7, <2>1, TransferInAdds
  <2> HIDE DEF now, B
  <2> QED BY <2>2, <2>3 DEF qty, at, A
<1> HIDE DEF B
<1>10. Ids(B) \subseteq Ids(Held(k)) \cup Above
  <2>1. Ids(B) \subseteq Nat
    BY <1>9 DEF Clean, Ids, Batch
  <2> QED BY <1>9, <2>1 DEF Above
<1>11. PICK w : /\ Took(h, w) /\ w.event = v.event /\ w.stage = "save" /\ w.todo = v.todo
                /\ w.own = v.own /\ w.other = Copy(k, B)
  BY <1>1, <1>2, <1>5, GoTakes
<1>12. CopyOK(w.other) /\ w.other.was.batches = Held(k) /\ w.other.batches = B
  BY <1>2, <1>4, <1>9, <1>11, CopyOf
<1>13. CopiesOK(w)
  BY <1>3, <1>7, <1>9, <1>11, <1>12 DEF CopiesOK, Holding, Moving, Covered
<1>14. FreshIn(h, w)
  <2>1. Ids(Held(k)) \subseteq Used
    BY <1>4 DEF Used
  <2>2. Known(w) \subseteq Used \cup Known(v) \cup Above
    BY <1>10, <1>11, <1>12, <2>1 DEF Known
  <2>3. New(w) \subseteq New(v) \cup Above
    BY <1>10, <1>11, <1>12 DEF New, NewIn
  <2>4. NewIn(w.other) \cap Ids(w.own.batches) = {}
    <3>1. NewIn(w.other) \subseteq Above
      BY <1>10, <1>12 DEF NewIn
    <3>2. Ids(w.own.batches) \subseteq Known(v)
      BY <1>11 DEF Known
    <3>3. \A n \in Known(v) : n \in Nat /\ n < NextBatch
      BY NextAbove DEF CanLoad
    <3>4. Above \cap Known(v) = {}
      BY <1>6, <3>3 DEF Above
    <3> QED BY <3>1, <3>2, <3>4
  <2> QED BY <2>2, <2>3, <2>4 DEF FreshIn
<1> QED BY <1>11, <1>13, <1>14 DEF Loads

\* The stock without the batches of the cancelled receipt.
LEMMA CancellationLoads ==
  ASSUME NEW h \in Handlers, CanLoad(h), RemoveBatches(h)
  PROVE  \E w : Loads(h, w)
<1> DEFINE v == work[h]
           line == Head(v.todo)
           k == <<line.sku, v.event.branch>>
           B == RemoveBatchesBySourceDoc(Held(k), v.event.doc)
<1>1. /\ v.stage = "load" /\ v.event.kind = "ReceiptCancelled"
      /\ \/ Go(h, "save", v.todo, Copy(k, B), NoCopy)
         \/ Onward(h, "load", Go(h, "mark", <<>>, NoCopy, NoCopy))
  BY DEF RemoveBatches, At, Handles, E, Todo, Line, From
<1>2. /\ PapersOK /\ StocksOK /\ HandOK(DOMAIN docs, v)
  BY DEF CanLoad
<1>3. CASE Onward(h, "load", Go(h, "mark", <<>>, NoCopy, NoCopy))
  BY <1>1, <1>2, <1>3, SkipTakes, BareLoads
<1>4. CASE Go(h, "save", v.todo, Copy(k, B), NoCopy)
  <2>1. k \in Stocks
    BY <1>1, <1>2, LineFacts
  <2>2. Fits(v, "save", v.todo)
    BY <1>1, <1>2 DEF Fits, HandOK, Stages, PerLine
  <2> HIDE DEF k
  <2>3. Clean(Held(k))
    BY <1>2, <2>1 DEF StocksOK
  <2>4. Clean(B) /\ Ids(B) \subseteq Ids(Held(k))
    BY <2>3, RemoveLeaves
  <2> HIDE DEF B
  <2>5. PICK w : /\ Took(h, w) /\ w.event = v.event /\ w.stage = "save" /\ w.todo = v.todo
                 /\ w.own = Copy(k, B) /\ w.other = NoCopy
    BY <1>1, <1>2, <1>4, <2>2, GoTakes
  <2>6. CopyOK(w.own) /\ w.own.was.batches = Held(k) /\ w.own.batches = B
    BY <1>2, <2>1, <2>4, <2>5, CopyOf
  <2>7. CopiesOK(w)
    BY <1>1, <2>5, <2>6, NoCopyFacts DEF CopiesOK, Holding, Moving
  <2>8. FreshIn(h, w)
    BY <1>2, <2>1, <2>4, <2>5, <2>6, OwnFresh
  <2> QED BY <2>5, <2>7, <2>8 DEF Loads
<1> QED BY <1>1, <1>3, <1>4

(***************************************************************************)
(* Ids that are new stay new, and a save keeps the books.                  *)
(***************************************************************************)
LEMMA NewIsKnown == \A w : New(w) \subseteq Known(w)
BY DEF New, NewIn, Known

\* Handler h moves; X are the ids it puts into a stock.
LEMMA FreshStep ==
  ASSUME Fresh, StocksOK, \A g \in Handlers : CopiesOK(work[g]),
         NEW h \in Handlers, NEW w, FreshIn(h, w),
         work = [g \in Handlers |-> work[g]], work' = [work EXCEPT ![h] = w],
         NEW X, X \subseteq Known(work[h]), New(w) \cap X = {}, Used' \subseteq Used \cup X
  PROVE  Fresh'
<1>1. /\ work'[h] = w
      /\ \A g \in Handlers \ {h} : work'[g] = work[g]
  OBVIOUS
<1>2. \A g \in Handlers : Above \cap Known(work[g]) = {} /\ Above \cap New(work[g]) = {}
  <2> TAKE g \in Handlers
  <2>1. NextBatch \in Nat /\ \A n \in Known(work[g]) : n \in Nat /\ n < NextBatch
    BY NextAbove
  <2>2. Above \cap Known(work[g]) = {}
    BY <2>1 DEF Above
  <2> QED BY <2>2, NewIsKnown
<1>3. Above \cap Used = {}
  <2>1. NextBatch \in Nat /\ \A n \in Used : n \in Nat /\ n < NextBatch
    BY NextAbove
  <2> QED BY <2>1 DEF Above
<1>4. /\ New(w) \subseteq New(work[h]) \cup Above
      /\ Known(w) \subseteq Used \cup Known(work[h]) \cup Above
      /\ NewIn(w.other) \cap Ids(w.own.batches) = {}
  BY DEF FreshIn
<1>5. \A g \in Handlers :
        /\ New(work[g]) \cap Used = {}
        /\ \A f \in Handlers \ {g} : New(work[g]) \cap Known(work[f]) = {}
        /\ NewIn(work[g].other) \cap Ids(work[g].own.batches) = {}
  BY DEF Fresh
<1>6. New(w) \cap Used' = {}
  BY <1>3, <1>4, <1>5
<1>7. ASSUME NEW g \in Handlers, g # h
      PROVE  /\ New(work[g]) \cap Used' = {}
             /\ New(work[g]) \cap Known(w) = {}
             /\ New(w) \cap Known(work[g]) = {}
  <2>1. New(work[g]) \cap Known(work[h]) = {} /\ New(work[g]) \cap Used = {}
    BY <1>5, <1>7
  <2>2. New(work[h]) \cap Known(work[g]) = {}
    BY <1>5, <1>7
  <2> QED BY <1>2, <1>4, <2>1, <2>2
<1>8. ASSUME NEW g \in Handlers
      PROVE  /\ New(work'[g]) \cap Used' = {}
             /\ \A f \in Handlers \ {g} : New(work'[g]) \cap Known(work'[f]) = {}
             /\ NewIn(work'[g].other) \cap Ids(work'[g].own.batches) = {}
  <2>1. CASE g = h
    <3>1. ASSUME NEW f \in Handlers \ {g} PROVE New(work'[g]) \cap Known(work'[f]) = {}
      BY <1>1, <1>7, <2>1
    <3> QED BY <1>1, <1>4, <1>6, <2>1, <3>1
  <2>2. CASE g # h
    <3>1. ASSUME NEW f \in Handlers \ {g} PROVE New(work'[g]) \cap Known(work'[f]) = {}
      <4>1. CASE f = h
        BY <1>1, <1>7, <2>2, <4>1
      <4>2. CASE f # h
        BY <1>1, <1>5, <2>2, <4>2
      <4> QED BY <4>1, <4>2
    <3> QED BY <1>1, <1>5, <1>7, <2>2, <3>1
  <2> QED BY <2>1, <2>2
<1> QED BY <1>8 DEF Fresh

\* All handlers have in hand what they should.
AllHands ==
  /\ work = [h \in Handlers |-> work[h]]
  /\ \A h \in Handlers : HandOK(DOMAIN docs, work[h]) /\ CopiesOK(work[h])

\* One handler moves, the others keep what they have in hand.
LEMMA HandsStep ==
  ASSUME AllHands, NEW h \in Handlers, NEW w, Took(h, w), CopiesOK(w), DOMAIN docs' = DOMAIN docs
  PROVE  AllHands'
<1>1. work' = [work EXCEPT ![h] = w] /\ HandOK(DOMAIN docs, w)
  BY DEF Took
<1>2. /\ work' = [g \in Handlers |-> work'[g]]
      /\ \A g \in Handlers : work'[g] = IF g = h THEN w ELSE work[g]
  BY <1>1 DEF AllHands
<1>3. ASSUME NEW g \in Handlers
      PROVE  HandOK(DOMAIN docs', work'[g]) /\ CopiesOK(work'[g])
  <2>1. CASE g = h
    BY <1>1, <1>2, <2>1
  <2>2. CASE g # h
    <3>1. work'[g] = work[g]
      BY <1>2, <2>2
    <3> QED BY <3>1 DEF AllHands
  <2> QED BY <2>1, <2>2
<1> QED BY <1>2, <1>3 DEF AllHands

LEMMA StockInvParts ==
  StockInv <=> /\ PapersOK /\ AllHands /\ StocksOK /\ Fresh /\ BooksBalance
               /\ processed \subseteq Keys
BY DEF StockInv, AllHands

\* A step that leaves the stocks alone.
LEMMA QuietStep ==
  ASSUME StockInv, NEW h \in Handlers, NEW w, Loads(h, w), PapersStep,
         UNCHANGED stockVars, processed' \subseteq Keys
  PROVE  StockInv'
<1>1. /\ Took(h, w) /\ CopiesOK(w) /\ FreshIn(h, w) /\ work' = [work EXCEPT ![h] = w]
  BY DEF Loads, Took
<1>2. UNCHANGED <<stock, booked, troubled>>
  BY DEF stockVars
<1>3. Fresh /\ StocksOK /\ AllHands /\ BooksBalance
  BY StockInvParts
<1>4. AllHands'
  BY <1>1, <1>3, HandsStep DEF PapersStep
<1>5. Used' = Used
  BY <1>2 DEF Used, Held
<1>6. Fresh'
  <2>1. work = [g \in Handlers |-> work[g]] /\ \A g \in Handlers : CopiesOK(work[g])
    BY <1>3 DEF AllHands
  <2>2. {} \subseteq Known(work[h]) /\ New(w) \cap {} = {} /\ Used' \subseteq Used \cup {}
    BY <1>5
  <2> QED BY <1>1, <1>3, <2>1, <2>2, FreshStep
<1>7. StocksOK' /\ BooksBalance'
  BY <1>2, <1>3 DEF StocksOK, BooksBalance, Held
<1>8. PapersOK'
  BY DEF PapersStep
<1> QED BY <1>4, <1>6, <1>7, <1>8 DEF StockInv, AllHands

\* What is stored when a copy is saved: the copy, and what came in since it was
\* loaded.
LEMMA StoredClean ==
  ASSUME StocksOK, NEW k \in Stocks, NEW copy, CopyOK(copy), NewIn(copy) \cap Used = {}
  PROVE  /\ Stored(k, copy) \in [row : BOOLEAN, batches : SUBSET Batch]
         /\ Clean(Stored(k, copy).batches)
         /\ Ids(Stored(k, copy).batches) \subseteq Used \cup Ids(copy.batches)
         /\ copy.was = stock[k] => Stored(k, copy).batches = copy.batches
<1> DEFINE rest == Others(k, copy)
<1>1. rest \in SUBSET Held(k) /\ Clean(Held(k)) /\ Ids(Held(k)) \subseteq Used
  BY DEF Others, StocksOK, Used
<1>2. Clean(copy.batches) /\ Clean(rest)
  BY <1>1, CleanSubset DEF CopyOK
<1>3. Ids(rest) \cap Ids(copy.batches) = {}
  <2>1. copy.was.row => Ids(rest) \cap Ids(copy.was.batches) = {}
    BY DEF Others, Ids
  <2>2. ~copy.was.row => Ids(rest) = {}
    BY DEF Others, Ids
  <2>3. Ids(rest) \subseteq Used
    BY <1>1 DEF Ids
  <2>4. Ids(copy.batches) \subseteq Ids(copy.was.batches) \cup NewIn(copy)
    BY DEF NewIn
  <2> QED BY <2>1, <2>2, <2>3, <2>4
<1>4. Stored(k, copy) = [row |-> TRUE, batches |-> rest \cup copy.batches]
  BY DEF Stored
<1>5. copy.was = stock[k] => rest = {}
  BY DEF Others, Held, Ids
<1>6. Ids(rest) \subseteq Used
  BY <1>1 DEF Ids
<1> HIDE DEF rest
<1>7. Clean(rest \cup copy.batches)
  BY <1>2, <1>3, TotalOfCleanUnion
<1>8. Ids(rest \cup copy.batches) = Ids(rest) \cup Ids(copy.batches)
  BY IdsOfUnion
<1>9. rest \cup copy.batches \subseteq Batch
  BY <1>7 DEF Clean
<1> QED BY <1>4, <1>5, <1>6, <1>7, <1>8, <1>9

\* The balance of the stock that is saved.
LEMMA StoreKeeps ==
  ASSUME StocksOK, BooksBalance, NEW h, NEW k \in Stocks, NEW copy, NEW delta \in Int,
         CopyOK(copy), NewIn(copy) \cap Used = {}, Store(h, k, copy, delta),
         ~Short(h) => TotalQuantity(copy.batches) = TotalQuantity(copy.was.batches) + delta
  PROVE  StocksOK' /\ BooksBalance' /\ Used' \subseteq Used \cup Ids(copy.batches)
<1> DEFINE now == Stored(k, copy)
<1>1. /\ now \in [row : BOOLEAN, batches : SUBSET Batch]
      /\ Clean(now.batches)
      /\ Ids(now.batches) \subseteq Used \cup Ids(copy.batches)
      /\ copy.was = stock[k] => now.batches = copy.batches
  BY StoredClean
<1>2. /\ stock' = [stock EXCEPT ![k] = now]
      /\ booked' = [booked EXCEPT ![k] = @ + delta]
      /\ troubled' = IF copy.was # stock[k] \/ Short(h) THEN troubled \cup {k} ELSE troubled
  BY DEF Store
<1> HIDE DEF now
<1>3. stock \in [Stocks -> [row : BOOLEAN, batches : SUBSET Batch]] /\ booked \in [Stocks -> Int]
      /\ \A l \in Stocks : Clean(stock[l].batches)
  BY DEF StocksOK, Held
<1>4. /\ stock' \in [Stocks -> [row : BOOLEAN, batches : SUBSET Batch]]
      /\ stock'[k] = now /\ \A l \in Stocks \ {k} : stock'[l] = stock[l]
  BY <1>1, <1>2, <1>3
<1>5. /\ booked' \in [Stocks -> Int]
      /\ booked'[k] = booked[k] + delta /\ \A l \in Stocks \ {k} : booked'[l] = booked[l]
  BY <1>2, <1>3
<1>6. \A l \in Stocks : Clean(stock'[l].batches)
  BY <1>1, <1>3, <1>4
<1>7. StocksOK'
  BY <1>4, <1>5, <1>6 DEF StocksOK, Held
<1>8. Used' \subseteq Used \cup Ids(copy.batches)
  <2>1. \A l \in Stocks : Ids(stock'[l].batches) \subseteq Used \cup Ids(copy.batches)
    <3>1. \A l \in Stocks : Ids(stock[l].batches) \subseteq Used
      BY DEF Used, Held
    <3> QED BY <1>1, <1>4, <3>1
  <2>2. Used' = UNION {Ids(stock'[l].batches) : l \in Stocks}
    BY DEF Used, Held
  <2> QED BY <2>1, <2>2
<1>9. ASSUME NEW l \in Stocks, l \notin troubled'
      PROVE  TotalQuantity(stock'[l].batches) = booked'[l]
  <2>1. l \notin troubled
    BY <1>2, <1>9
  <2>2. TotalQuantity(stock[l].batches) = booked[l]
    BY <2>1 DEF BooksBalance, Held
  <2>3. CASE l # k
    BY <1>4, <1>5, <2>2, <2>3
  <2>4. CASE l = k
    <3>1. copy.was = stock[k] /\ ~Short(h)
      BY <1>2, <1>9, <2>4
    <3>2. TotalQuantity(copy.batches) = booked[k] + delta
      BY <2>2, <2>4, <3>1
    <3> QED BY <1>1, <1>4, <1>5, <2>4, <3>1, <3>2
  <2> QED BY <2>3, <2>4
<1>10. BooksBalance'
  BY <1>9 DEF BooksBalance, Held
<1> QED BY <1>7, <1>8, <1>10

\* A step that saves a copy.
LEMMA SaveStep ==
  ASSUME StockInv, NEW h \in Handlers, NEW w, Loads(h, w), PapersStep, processed' \subseteq Keys,
         NEW k \in Stocks, NEW copy, NEW delta \in Int, Store(h, k, copy, delta),
         CopyOK(copy), NewIn(copy) \subseteq New(work[h]), Ids(copy.batches) \subseteq Known(work[h]),
         New(w) \cap Ids(copy.batches) = {},
         ~Short(h) => TotalQuantity(copy.batches) = TotalQuantity(copy.was.batches) + delta
  PROVE  StockInv'
<1>1. /\ Took(h, w) /\ CopiesOK(w) /\ FreshIn(h, w) /\ work' = [work EXCEPT ![h] = w]
  BY DEF Loads, Took
<1>2. Fresh /\ StocksOK /\ AllHands /\ BooksBalance
  BY StockInvParts
<1>3. AllHands'
  BY <1>1, <1>2, HandsStep DEF PapersStep
<1>4. NewIn(copy) \cap Used = {}
  BY <1>2 DEF Fresh
<1>5. StocksOK' /\ BooksBalance' /\ Used' \subseteq Used \cup Ids(copy.batches)
  BY <1>2, <1>4, StoreKeeps
<1>6. Fresh'
  <2>1. work = [g \in Handlers |-> work[g]] /\ \A g \in Handlers : CopiesOK(work[g])
    BY <1>2 DEF AllHands
  <2> QED BY <1>1, <1>2, <1>5, <2>1, FreshStep
<1>7. PapersOK'
  BY DEF PapersStep
<1> QED BY <1>3, <1>5, <1>6, <1>7 DEF StockInv, AllHands

\* What a handler about to save holds.
LEMMA SavesWhat ==
  ASSUME StockInv, NEW h \in Handlers, work[h].stage \in {"save", "saveTo"}
  PROVE  LET v == work[h]
             line == Head(v.todo)
         IN  /\ HandOK(DOMAIN docs, v) /\ CopiesOK(v) /\ CopyOK(v.own) /\ CopyOK(v.other)
             /\ line.qty \in Int /\ v.event.at \in Nat
             /\ v.event.kind \in {"ReceiptPosted", "TransferPosted"} => line.qty \in Nat
             /\ <<line.sku, v.event.branch>> \in Stocks /\ <<line.sku, v.event.to>> \in Stocks
             /\ NewIn(v.own) \subseteq New(v) /\ NewIn(v.other) \subseteq New(v)
             /\ Ids(v.own.batches) \subseteq Known(v) /\ Ids(v.other.batches) \subseteq Known(v)
             /\ v.event.kind = "TransferPosted" => NewIn(v.own) = {}
             /\ NewIn(v.other) \cap Ids(v.own.batches) = {}
             /\ v.event.kind \in {"ReceiptPosted", "AdjustmentApproved", "TransferPosted",
                                  "ReceiptCancelled"}
<1> DEFINE v == work[h]
           line == Head(v.todo)
<1>1. PapersOK /\ HandOK(DOMAIN docs, v) /\ CopiesOK(v) /\ Fresh
  BY DEF StockInv
<1>2. /\ line.qty \in Int /\ v.event.at \in Nat
      /\ v.event.kind \in {"ReceiptPosted", "TransferPosted"} => line.qty \in Nat
      /\ <<line.sku, v.event.branch>> \in Stocks /\ <<line.sku, v.event.to>> \in Stocks
  BY <1>1, LineFacts
<1>3. CopyOK(v.own) /\ CopyOK(v.other)
  BY <1>1 DEF CopiesOK
<1>4. /\ NewIn(v.own) \subseteq New(v) /\ NewIn(v.other) \subseteq New(v)
      /\ Ids(v.own.batches) \subseteq Known(v) /\ Ids(v.other.batches) \subseteq Known(v)
  BY DEF New, Known
<1>5. v.event.kind = "TransferPosted" => NewIn(v.own) = {}
  <2> SUFFICES ASSUME v.event.kind = "TransferPosted" PROVE NewIn(v.own) = {}
    OBVIOUS
  <2>1. v.own.batches = WriteOff(v.own.was.batches, line.qty, v.event.at)
    BY <1>1 DEF CopiesOK, Holding
  <2>2. Clean(v.own.was.batches)
    BY <1>3 DEF CopyOK
  <2>3. Ids(v.own.batches) \subseteq Ids(v.own.was.batches)
    BY <1>2, <2>1, <2>2, WriteOffClean
  <2> QED BY <2>3 DEF NewIn
<1>6. NewIn(v.other) \cap Ids(v.own.batches) = {}
  BY <1>1 DEF Fresh
<1>7. v.event.kind \in {"ReceiptPosted", "AdjustmentApproved", "TransferPosted",
                        "ReceiptCancelled"}
  BY <1>1 DEF HandOK, StageOK, PerLine
<1> QED BY <1>1, <1>2, <1>3, <1>4, <1>5, <1>6, <1>7

\* The total changes by what is booked, unless the handler has to write off
\* what is expired.
LEMMA DeltaIs ==
  ASSUME StockInv, NEW h \in Handlers, work[h].stage \in {"save", "saveTo"}
  PROVE  LET own == work[h].own
         IN  /\ Delta(h) \in Int
             /\ ~Short(h) => TotalQuantity(own.batches) = TotalQuantity(own.was.batches) + Delta(h)
             /\ ~Short(h) /\ work[h].event.kind = "TransferPosted"
                  => Covered(own.was.batches, Head(work[h].todo).qty, work[h].event.at)
<1> DEFINE v == work[h]
           qty == Head(v.todo).qty
           at == v.event.at
           kind == v.event.kind
           was == v.own.was.batches
           now == TotalQuantity(v.own.batches)
           before == TotalQuantity(was)
           usable == TotalQuantity(Available(was, at))
<1>1. /\ CopiesOK(v) /\ qty \in Int /\ at \in Nat
      /\ kind \in {"ReceiptPosted", "TransferPosted"} => qty \in Nat
      /\ kind \in {"ReceiptPosted", "AdjustmentApproved", "TransferPosted", "ReceiptCancelled"}
      /\ Clean(was) /\ Clean(v.own.batches)
  BY SavesWhat DEF CopyOK
<1>2. now \in Int /\ before \in Int /\ usable \in Nat
  <2>1. Available(was, at) \in SUBSET was
    BY DEF Available
  <2> QED BY <1>1, <2>1, CleanTotal, TotalMonotone
<1>3. Holding(v)
  BY DEF Holding
<1>4. /\ Delta(h) = IF kind = "TransferPosted" THEN -qty
                    ELSE IF kind = "ReceiptCancelled" THEN now - before ELSE qty
      /\ Short(h) <=> WritesOff(h) /\ usable < -Delta(h)
      /\ WritesOff(h) <=> Delta(h) < 0 /\ kind # "ReceiptCancelled"
  BY DEF Delta, Handles, E, Line, Todo, Short, WritesOff
<1>5. /\ kind = "ReceiptPosted" => now = before + qty
      /\ kind = "AdjustmentApproved" /\ (qty < 0 => -qty <= usable) => now = before + qty
      /\ kind = "TransferPosted" => v.own.batches = WriteOff(was, qty, at)
  BY <1>1, <1>3 DEF CopiesOK, Covered
<1>6. kind = "TransferPosted" /\ qty <= usable => now = before - qty
  <2> SUFFICES ASSUME kind = "TransferPosted", qty <= usable PROVE now = before - qty
    OBVIOUS
  <2>1. qty \in Nat /\ v.own.batches = WriteOff(was, qty, at)
    BY <1>1, <1>5
  <2> QED BY <1>1, <2>1, WriteOffTotal
<1> DEFINE d == Delta(h)
<1>7. d \in Int
  <2> HIDE DEF qty, now, before, kind, d
  <2> QED BY <1>1, <1>2, <1>4 DEF d
<1>8. ~Short(h) => now = before + d
  <2> HIDE DEF qty, now, before, kind, usable
  <2> QED BY <1>1, <1>2, <1>4, <1>5, <1>6
<1>9. ~Short(h) /\ kind = "TransferPosted" => qty <= usable
  <2> HIDE DEF qty, now, before, kind, usable
  <2> QED BY <1>1, <1>2, <1>4
<1> QED BY <1>7, <1>8, <1>9 DEF Covered

\* The save of the stock of a line.
LEMMA SaveStockKeeps ==
  ASSUME StockInv, NEW h \in Handlers, SaveStock(h), PapersStep
  PROVE  StockInv'
<1> DEFINE v == work[h]
           line == Head(v.todo)
           k == <<line.sku, v.event.branch>>
<1>1. /\ v.stage = "save" /\ processed' = processed
      /\ Store(h, k, v.own, Delta(h))
  BY DEF SaveStock, At, From, Line, Todo, E
<1>2. /\ HandOK(DOMAIN docs, v) /\ CopiesOK(v) /\ CopyOK(v.own) /\ k \in Stocks
      /\ NewIn(v.own) \subseteq New(v) /\ Ids(v.own.batches) \subseteq Known(v)
      /\ v.event.kind = "TransferPosted" => NewIn(v.own) = {}
      /\ NewIn(v.other) \cap Ids(v.own.batches) = {}
      /\ v.event.kind \in {"ReceiptPosted", "AdjustmentApproved", "TransferPosted",
                           "ReceiptCancelled"}
  BY <1>1, SavesWhat
<1>3. /\ Delta(h) \in Int
      /\ ~Short(h) => TotalQuantity(v.own.batches) = TotalQuantity(v.own.was.batches) + Delta(h)
  BY <1>1, DeltaIs
<1>4. PICK w : Loads(h, w) /\ New(w) \cap Ids(v.own.batches) = {}
  <2>1. ASSUME \E w : Took(h, w) /\ Bare(w)
        PROVE  \E w : Loads(h, w) /\ New(w) \cap Ids(v.own.batches) = {}
    <3>1. PICK w : Took(h, w) /\ Bare(w)
      BY <2>1
    <3>2. New(w) = {}
      BY <3>1, NoCopyFacts DEF Bare, New
    <3> QED BY <3>1, <3>2, BareLoads
  <2>2. CASE PerLine(v.event.kind)
    <3>1. Go(h, "mark", Todo(h), NoCopy, NoCopy)
      BY <2>2 DEF SaveStock, E
    <3> QED BY <1>1, <1>2, <2>1, <3>1, SavedTakes
  <2>3. CASE v.event.kind = "ReceiptCancelled"
    <3>1. Onward(h, "load", Go(h, "mark", <<>>, NoCopy, NoCopy))
      BY <2>3 DEF SaveStock, E, Handles, PerLine
    <3> QED BY <1>1, <1>2, <2>1, <2>3, <3>1, SkipTakes
  <2>4. CASE v.event.kind = "TransferPosted"
    <3>1. Go(h, "saveTo", v.todo, v.own, v.other)
      BY <2>4 DEF SaveStock, E, Handles, PerLine, Todo
    <3>2. Fits(v, "saveTo", v.todo)
      BY <1>1, <1>2, <2>4 DEF Fits, HandOK, Stages, PerLine
    <3>3. PICK w : /\ Took(h, w) /\ w.event = v.event /\ w.stage = "saveTo" /\ w.todo = v.todo
                   /\ w.own = v.own /\ w.other = v.other
      BY <1>1, <1>2, <3>1, <3>2, GoTakes
    <3>4. CopiesOK(w)
      BY <1>1, <1>2, <2>4, <3>3 DEF CopiesOK, Holding, Moving
    <3>5. Known(w) = Known(v) /\ New(w) = New(v)
      BY <3>3 DEF Known, New
    <3>6. FreshIn(h, w)
      BY <1>2, <3>3, <3>5 DEF FreshIn
    <3>7. New(w) \cap Ids(v.own.batches) = {}
      BY <1>2, <2>4, <3>3 DEF New
    <3> QED BY <3>3, <3>4, <3>6, <3>7 DEF Loads
  <2> QED BY <1>2, <2>2, <2>3, <2>4 DEF PerLine
<1>5. processed' \subseteq Keys
  BY <1>1 DEF StockInv
<1> DEFINE own == v.own
           delta == Delta(h)
<1>6. /\ delta \in Int /\ Store(h, k, own, delta) /\ CopyOK(own) /\ NewIn(own) \subseteq New(work[h])
      /\ Ids(own.batches) \subseteq Known(work[h]) /\ New(w) \cap Ids(own.batches) = {}
      /\ ~Short(h) => TotalQuantity(own.batches) = TotalQuantity(own.was.batches) + delta
  BY <1>1, <1>2, <1>3, <1>4
<1>7. k \in Stocks /\ Loads(h, w)
  BY <1>2, <1>4
<1> HIDE DEF own, delta, k
<1> QED BY <1>5, <1>6, <1>7, SaveStep

\* The save of the stock transferred to.
LEMMA SaveToKeeps ==
  ASSUME StockInv, NEW h \in Handlers, SaveTo(h), PapersStep
  PROVE  StockInv'
<1> DEFINE v == work[h]
           line == Head(v.todo)
           k == <<line.sku, v.event.to>>
           copy == v.other
           delta == line.qty
<1>1. /\ v.stage = "saveTo" /\ processed' = processed
      /\ Store(h, k, copy, delta)
      /\ Onward(h, "load", Go(h, "mark", <<>>, NoCopy, NoCopy))
  BY DEF SaveTo, At, To, Line, Todo, E
<1>2. /\ HandOK(DOMAIN docs, v) /\ CopiesOK(v) /\ CopyOK(copy) /\ k \in Stocks /\ delta \in Int
      /\ NewIn(copy) \subseteq New(v) /\ Ids(copy.batches) \subseteq Known(v)
  BY <1>1, SavesWhat
<1>3. v.event.kind = "TransferPosted"
  BY <1>1, <1>2 DEF HandOK, StageOK
<1>4. ~Short(h) => TotalQuantity(copy.batches) = TotalQuantity(copy.was.batches) + delta
  <2>1. ~Short(h) => Covered(v.own.was.batches, delta, v.event.at)
    BY <1>1, <1>3, DeltaIs
  <2> QED BY <1>1, <1>2, <1>3, <2>1 DEF CopiesOK, Moving
<1>5. PICK w : Loads(h, w) /\ New(w) = {}
  <2>1. PICK w : Took(h, w) /\ Bare(w)
    BY <1>1, <1>2, <1>3, SkipTakes
  <2>2. New(w) = {}
    BY <2>1, NoCopyFacts DEF Bare, New
  <2> QED BY <2>1, <2>2, BareLoads
<1>6. processed' \subseteq Keys
  BY <1>1 DEF StockInv
<1>7. /\ NewIn(copy) \subseteq New(work[h]) /\ Ids(copy.batches) \subseteq Known(work[h])
      /\ New(w) \cap Ids(copy.batches) = {}
  BY <1>2, <1>5
<1> HIDE DEF copy, delta, k
<1> QED BY <1>1, <1>2, <1>4, <1>5, <1>6, <1>7, SaveStep

\* Only the handler of a stock taking puts in a document.
LEMMA HandlePapers ==
  ASSUME StockInv, NEW h \in Handlers, Handle(h)
  PROVE  PapersStep
<1>1. PapersOK /\ HandOK(DOMAIN docs, work[h])
  BY DEF StockInv
<1>2. CASE CreateFromTaking(h)
  <2>1. PICK d \in DOMAIN docs : InsertAdjustment(d, work[h].event.branch, work[h].todo, TRUE)
    BY <1>2 DEF CreateFromTaking, E, Todo
  <2>2. work[h].stage = "create" /\ UNCHANGED request
    BY <1>2 DEF CreateFromTaking, At
  <2>3. work[h].event.branch \in BranchIds /\ work[h].todo \in Seq(LineRow)
    BY <1>1, <2>2 DEF HandOK, Events
  <2> QED BY <1>1, <2>1, <2>2, <2>3, AdjustmentPapers
<1>3. CASE ~CreateFromTaking(h)
  <2>1. UNCHANGED <<docs, request, outbox>>
    BY <1>3 DEF Handle, docVars, Deliver, LookMarked, LookUnmarked, ApplyReceiptLine,
                ApplyAdjustmentLine, ApplyTransferOut, ApplyTransferIn, Refuse, Reread,
                RemoveBatches, SaveStock, SaveTo, Mark, Abort
  <2> QED BY <1>1, <2>1, PapersUnchanged
<1> QED BY <1>2, <1>3

\* Every step of a handler keeps the invariant.
LEMMA HandleKeeps ==
  ASSUME StockInv, NEW h \in Handlers, Handle(h)
  PROVE  StockInv'
<1>1. PapersStep
  BY HandlePapers
<1>2. /\ PapersOK /\ StocksOK /\ HandOK(DOMAIN docs, work[h]) /\ processed \subseteq Keys
      /\ \A g \in Handlers : CopiesOK(work[g])
  BY DEF StockInv
<1>3. CanLoad(h)
  BY <1>2 DEF CanLoad
<1>4. ASSUME \E w : Took(h, w) /\ Bare(w), UNCHANGED stockVars, processed' \subseteq Keys
      PROVE  StockInv'
  <2>1. PICK w : Loads(h, w)
    BY <1>4, BareLoads
  <2> QED BY <1>1, <1>4, <2>1, QuietStep
<1>5. CASE \E i \in DOMAIN outbox : Deliver(h, i)
  BY <1>2, <1>4, <1>5, DeliverTakes DEF Deliver
<1>6. CASE LookMarked(h) \/ LookUnmarked(h)
  BY <1>2, <1>4, <1>6, LookTakes DEF LookMarked, LookUnmarked
<1>7. CASE \/ ApplyReceiptLine(h) \/ ApplyAdjustmentLine(h) \/ ApplyTransferOut(h)
           \/ ApplyTransferIn(h) \/ RemoveBatches(h)
  <2>1. PICK w : Loads(h, w)
    BY <1>3, <1>7, ReceiptLoads, AdjustmentLoads, TransferOutLoads, TransferInLoads,
       CancellationLoads
  <2>2. UNCHANGED stockVars /\ processed' \subseteq Keys
    BY <1>2, <1>7 DEF ApplyReceiptLine, ApplyAdjustmentLine, ApplyTransferOut, ApplyTransferIn,
                      RemoveBatches
  <2> QED BY <1>1, <2>1, <2>2, QuietStep
<1>8. CASE Reread(h)
  BY <1>2, <1>4, <1>8, RereadTakes DEF Reread
<1>9. CASE Refuse(h) \/ Abort(h)
  <2>1. Done(h) /\ UNCHANGED <<stockVars, processed>>
    BY <1>9 DEF Refuse, Abort
  <2>2. Took(h, NoWork) /\ Bare(NoWork)
    BY <2>1, DoneTakes
  <2> QED BY <1>2, <1>4, <2>1, <2>2
<1>10. CASE SaveStock(h)
  BY <1>1, <1>10, SaveStockKeeps
<1>11. CASE SaveTo(h)
  BY <1>1, <1>11, SaveToKeeps
<1>12. CASE CreateFromTaking(h)
  <2>1. /\ work[h].stage = "create" /\ Go(h, "mark", Todo(h), NoCopy, NoCopy)
        /\ UNCHANGED <<stockVars, processed>>
    BY <1>12 DEF CreateFromTaking, At
  <2>2. \E w : Took(h, w) /\ Bare(w)
    BY <1>2, <2>1, SavedTakes
  <2> QED BY <1>2, <1>4, <2>1, <2>2
<1>13. CASE Mark(h)
  <2>1. UNCHANGED stockVars
    BY <1>13 DEF Mark
  <2> QED BY <1>2, <1>4, <1>13, <2>1, MarkedTakes
<1> QED BY <1>5, <1>6, <1>7, <1>8, <1>9, <1>10, <1>11, <1>12, <1>13 DEF Handle

\* Steps of the documents leave the stocks and the handlers alone.
LEMMA PapersKeep ==
  ASSUME StockInv, PapersStep, UNCHANGED <<work, stock, booked, troubled, processed>>
  PROVE  StockInv'
<1>1. PapersOK' /\ DOMAIN docs' = DOMAIN docs
  BY DEF PapersStep
<1>2. \A h \in Handlers : HandOK(DOMAIN docs', work'[h]) /\ CopiesOK(work'[h])
  BY <1>1 DEF StockInv
<1>3. Fresh'
  <2>1. Used' = Used
    BY DEF Used, Held
  <2>2. \A h \in Handlers : work'[h] = work[h]
    OBVIOUS
  <2>3. Fresh
    BY DEF StockInv
  <2> QED BY <2>1, <2>2, <2>3 DEF Fresh
<1>4. StocksOK' /\ BooksBalance' /\ processed' \subseteq Keys
      /\ work' = [h \in Handlers |-> work'[h]]
  BY DEF StockInv, StocksOK, BooksBalance, Held
<1> QED BY <1>1, <1>2, <1>3, <1>4 DEF StockInv

LEMMA StepStock == StockInv /\ [Next]_vars => StockInv'
<1> SUFFICES ASSUME StockInv, [Next]_vars PROVE StockInv'
  OBVIOUS
<1>1. PapersOK /\ StocksOK
  BY DEF StockInv
<1>2. CASE UNCHANGED vars
  BY <1>1, <1>2, PapersUnchanged, PapersKeep DEF vars
<1>3. CASE Create
  <2>1. UNCHANGED <<work, stock, booked, troubled, processed>>
    BY <1>3 DEF Create, CreateReceipt, CreateTransfer, CreateAdjustment, StartStockTaking, stockVars
  <2> QED BY <1>1, <1>3, <2>1, CreatePapers, PapersKeep
<1>4. ASSUME NEW c \in DOMAIN request, Command(c)
      PROVE  StockInv'
  <2>1. UNCHANGED <<work, stock, booked, troubled, processed>>
    BY <1>4 DEF Command, UpdateReceipt, PostReceipt, CancelReceipt, PostTransfer,
       ApproveAdjustment, RejectAdjustment, RecordMeasurement, PostStockTaking,
       CancelStockTaking, Decide, Begin, stockVars
  <2> QED BY <1>1, <1>4, <2>1, CommandPapers, PapersKeep
<1>5. ASSUME NEW c \in DOMAIN request, Save(c)
      PROVE  StockInv'
  <2>1. UNCHANGED <<work, stock, booked, troubled, processed>>
    BY <1>5 DEF Save, stockVars
  <2> QED BY <1>1, <1>5, <2>1, SavePapers, PapersKeep
<1> QED BY <1>2, <1>3, <1>4, <1>5, HandleKeeps DEF Next

LEMMA InitStock == Init => StockInv
<1> SUFFICES ASSUME Init PROVE StockInv
  OBVIOUS
<1>1. PICK s \in InitStates : /\ docs = s.docs /\ stock = s.stock
                              /\ request = [c \in s.clients |-> NoRequest]
  BY DEF Init
<1>2. /\ DOMAIN docs \subseteq Docs /\ docs \in [DOMAIN docs -> Row]
      /\ \A d \in DOMAIN docs : docs[d] \in RowOf(d)
      /\ stock \in [Stocks -> [row : BOOLEAN, batches : SUBSET Batch]]
      /\ \A k \in Stocks : /\ IsFiniteSet(stock[k].batches)
                           /\ \A a, b \in stock[k].batches : a.id = b.id => a = b
  BY <1>1, InventoryAssumption
<1>3. PapersOK
  <2>1. outbox \in Seq(Events(DOMAIN docs))
    BY DEF Init
  <2>2. \A c \in DOMAIN request : RequestOK(DOMAIN docs, request[c])
    BY <1>1 DEF RequestOK
  <2>3. docs = [d \in DOMAIN docs |-> docs[d]] /\ request = [c \in DOMAIN request |-> request[c]]
    BY <1>1, <1>2
  <2> QED BY <1>2, <2>1, <2>2, <2>3 DEF PapersOK
<1>4. \A k \in Stocks : Clean(stock[k].batches)
  BY <1>2 DEF Clean
<1>5. StocksOK /\ BooksBalance
  <2>1. booked = [k \in Stocks |-> TotalQuantity(stock[k].batches)]
    BY DEF Init
  <2>2. \A k \in Stocks : TotalQuantity(stock[k].batches) \in Int
    BY <1>4, CleanTotal
  <2> QED BY <1>2, <1>4, <2>1, <2>2 DEF StocksOK, BooksBalance, Held
<1>6. work = [h \in Handlers |-> NoWork] /\ processed = {}
  BY DEF Init
<1>7. HandOK(DOMAIN docs, NoWork) /\ Bare(NoWork)
  BY IdleOK
<1>8. CopiesOK(NoWork) /\ New(NoWork) = {} /\ NewIn(NoWork.other) = {}
  BY <1>7, NoCopyFacts DEF Bare, CopiesOK, Holding, Moving, New
<1>9. Fresh
  BY <1>6, <1>8 DEF Fresh
<1> QED BY <1>3, <1>5, <1>6, <1>7, <1>8, <1>9 DEF StockInv

\* The books balance with the stocks: no handler, whatever others save or die
\* in between, changes the total of a stock by anything but what the document
\* it applies says, as long as the copies it saves are of the stock as it is
\* and it does not write off what has expired.
THEOREM StocksBalance == Spec => []BooksBalance
<1>1. StockInv => BooksBalance
  BY DEF StockInv
<1> QED BY InitStock, StepStock, <1>1, PTL DEF Spec

\* Batches never have a negative quantity, documents keep their form, and marks
\* are made of keys.
THEOREM TypeCorrect == Spec => []TypeOK
<1>1. IInv /\ StockInv => TypeOK
  <2> SUFFICES ASSUME IInv, StockInv PROVE TypeOK
    OBVIOUS
  <2>1. DOMAIN docs \subseteq Docs /\ \A d \in DOMAIN docs : docs[d] \in Row
    BY DEF StockInv, PapersOK, RowOf
  <2>2. /\ stock \in [Stocks -> [row : BOOLEAN, batches : SUBSET Batch]]
        /\ booked \in [Stocks -> Int] /\ processed \subseteq Keys
    BY DEF StockInv, StocksOK
  <2>3. \A h \in Handlers : work[h].stage \in Stages
    BY DEF StockInv, HandOK
  <2>4. applied \in [Keys -> Nat] /\ causes \in [Keys -> Nat]
    BY DEF IInv, HistoryOK
  <2> QED BY <2>1, <2>2, <2>3, <2>4 DEF TypeOK, Held
<1> QED BY InitInv, StepInv, InitStock, StepStock, <1>1, PTL DEF Spec

\* The order of write-offs, under either strategy: nothing expired is taken, and
\* a batch only after every usable one that goes sooner, whatever the stock holds.
THEOREM EarliestFirst == Spec => EarliestGoesFirst
<1> DEFINE Order(h) ==
      LET was == Held(From(h))
          now == stock'[From(h)].batches
          usable(b) == ~IsExpired(b, E(h).at)
      IN  \A b \in was \ now : b.remaining > 0 =>
            /\ usable(b)
            /\ \A a \in was : usable(a) /\ Sooner(a, b) => a.id \notin Ids(now)
    Applies(h) == At(h, "save") /\ WritesOff(h) /\ SaveStock(h) /\ work[h].own.was = stock[From(h)]
<1>1. ASSUME StockInv, NEW h \in Handlers, Applies(h)
      PROVE  Order(h)
  <2> DEFINE v == work[h]
             line == Head(v.todo)
             k == <<line.sku, v.event.branch>>
             at == v.event.at
             amount == -Delta(h)
  <2>1. /\ v.stage = "save" /\ Store(h, k, v.own, Delta(h)) /\ v.own.was = stock[k]
        /\ WritesOff(h)
    BY <1>1 DEF SaveStock, At, From, Line, Todo, E
  <2>2. /\ CopiesOK(v) /\ CopyOK(v.own) /\ k \in Stocks /\ line.qty \in Int /\ at \in Nat
        /\ v.event.kind \in {"ReceiptPosted", "TransferPosted"} => line.qty \in Nat
        /\ NewIn(v.own) \subseteq New(v)
        /\ v.event.kind \in {"ReceiptPosted", "AdjustmentApproved", "TransferPosted",
                             "ReceiptCancelled"}
    BY <1>1, <2>1, SavesWhat
  <2>3. Delta(h) \in Int
    BY <1>1, <2>1, DeltaIs
  <2>4. v.own.batches = WriteOff(Held(k), amount, at)
    <3>1. /\ Delta(h) < 0 /\ v.event.kind # "ReceiptCancelled"
          /\ v.event.kind = "TransferPosted" => Delta(h) = -line.qty
          /\ v.event.kind \in {"ReceiptPosted", "AdjustmentApproved"} => Delta(h) = line.qty
      BY <2>1 DEF WritesOff, Delta, Handles, E, Line, Todo
    <3>2. Holding(v) /\ v.own.was.batches = Held(k)
      BY <2>1 DEF Holding, Held
    <3>3. CASE v.event.kind = "TransferPosted"
      <4>1. amount = line.qty
        BY <2>2, <3>1, <3>3
      <4> QED BY <2>2, <3>2, <3>3, <4>1 DEF CopiesOK
    <3>4. CASE v.event.kind = "AdjustmentApproved"
      BY <2>2, <3>1, <3>2, <3>4 DEF CopiesOK
    <3>5. v.event.kind # "ReceiptPosted"
      BY <2>2, <3>1
    <3> QED BY <2>2, <3>1, <3>3, <3>4, <3>5
  <2>5. StocksOK /\ Clean(Held(k)) /\ NewIn(v.own) \cap Used = {}
    BY <1>1, <2>2 DEF StockInv, StocksOK, Fresh
  <2>6. stock'[k].batches = v.own.batches
    <3>1. Stored(k, v.own).batches = v.own.batches
      BY <2>1, <2>2, <2>5, StoredClean
    <3>2. stock'[k] = Stored(k, v.own)
      BY <2>1, <2>2, <2>5 DEF Store, StocksOK
    <3> QED BY <3>1, <3>2
  <2>7. amount \in Int
    BY <2>3
  <2> DEFINE was == Held(k)
             now == WriteOff(was, amount, at)
  <2>8. ASSUME NEW b \in was, b \notin now, b.remaining > 0
        PROVE  /\ ~IsExpired(b, at)
               /\ \A a \in was : ~IsExpired(a, at) /\ Sooner(a, b) => a.id \notin Ids(now)
    <3> HIDE DEF was, amount, at
    <3> QED BY <2>2, <2>5, <2>7, <2>8, WriteOffOrder DEF was
  <2>9. From(h) = k /\ E(h).at = at /\ stock'[k].batches = now
    BY <2>4, <2>6 DEF From, Line, Todo, E
  <2> HIDE DEF k, at, now
  <2> QED BY <2>8, <2>9
<1>2. StockInv /\ [Next]_vars
        => [\A h \in Handlers : Applies(h) => Order(h)]_vars
  BY <1>1
<1>3. EarliestGoesFirst <=> [][\A h \in Handlers : Applies(h) => Order(h)]_vars
  BY DEF EarliestGoesFirst
<1> QED BY InitStock, StepStock, <1>2, <1>3, PTL DEF Spec
=============================================================================
