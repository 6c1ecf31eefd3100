------------------------------ MODULE WorkOrder ------------------------------
(***************************************************************************)
(* The command handlers of the work-order context, running concurrently    *)
(* over one row of wo_work_order with its lines and photos, the photo       *)
(* storage and the inventory stock port.                                   *)
(*                                                                         *)
(* A handler loads the aggregate, works on its copy across awaits and saves *)
(* it.  Every await after the load is a step of its own here, so handlers  *)
(* interleave as the event loop and the database let them.  A step at      *)
(* which the code throws gives the handler up; a command the loaded         *)
(* aggregate rejects changes nothing and is not a step.                    *)
(*                                                                         *)
(* Scope says when a save is committed.  "request": the API's               *)
(* TransactionalInterceptor keeps one transaction open around the whole     *)
(* handler.  "save": there is no transaction around the handler and every  *)
(* flush commits by itself, as ADR-0015 describes and the tests run it.     *)
(***************************************************************************)
EXTENDS WorkOrderAggregate

CONSTANTS
  Procs,       \* requests being handled at the same time
  NoProc,
  Scope,       \* "request" or "save"
  Commands,    \* the commands that are issued
  Aborts,      \* TRUE: a handler may die, or an awaited call may reject
  InitOrders,  \* rows the behaviours start from
  MaxVersion   \* bound: no handler starts from a row with a higher version

VARIABLES
  db,       \* the committed order (row, lines, photos)
  version,  \* version column of the committed row
  lock,     \* the handler whose open transaction has updated the row
  txn,      \* handler state
  used,     \* ids handed out by the id generator
  objects,  \* photos present in the object storage
  issued    \* quantity of each line written off and not given back

vars == <<db, version, lock, txn, used, objects, issued>>

Steps == {"idle", "upload", "save", "delete", "commit",
          "start", "preflight", "consume", "undo"}

Names == {"none", "Open", "AddPhoto", "RemovePhoto", "AddConsumption",
          "UpdateConsumption", "RemoveConsumption", "SubmitForReview",
          "ReturnToInProgress", "Close", "Reopen", "Cancel"}

ASSUME HandlerAssumption ==
  /\ NoProc \notin Procs
  /\ Scope \in {"request", "save"}
  /\ Commands \subseteq Names \ {"none"}
  /\ Aborts \in BOOLEAN
  /\ MaxVersion \in Nat
  /\ InitOrders \subseteq Order
  /\ \A o \in InitOrders :
       o.status \in {"NONE", "OPEN", "IN_PROGRESS", "AWAITING_REVIEW"}

\* What the bound on overlapping uploads rests on: the albums the behaviours start
\* from are within the limit, and requests are handled finitely many at a time.
ASSUME PhotoAssumption ==
  /\ IsFiniteSet(Procs) /\ Procs # {}
  /\ \A o \in InitOrders : /\ IsFiniteSet(o.before) /\ Cardinality(o.before) <= MaxPhotos
                          /\ IsFiniteSet(o.after) /\ Cardinality(o.after) <= MaxPhotos

\* base: the order as loaded; order: the handler's copy; ver: the version it
\* expects; todo/done: lines still to send to the port, lines consumed;
\* before: which of the two albums an uploaded photo is for.
Handler == [step : Steps, name : Names, base : Order, order : Order, ver : Nat,
            todo : SUBSET Lines, done : SUBSET Lines, photo : SUBSET Photos,
            before : BOOLEAN]

Idle == [step |-> "idle", name |-> "none", base |-> NoOrder, order |-> NoOrder,
         ver |-> 0, todo |-> {}, done |-> {}, photo |-> {}, before |-> FALSE]

TypeOK ==
  /\ db \in Order
  /\ version \in Nat
  /\ lock \in Procs \cup {NoProc}
  /\ txn \in [Procs -> Handler]
  /\ used \subseteq Lines \cup Photos
  /\ objects \subseteq Photos
  /\ issued \in [Lines -> Nat]

Init ==
  /\ db \in InitOrders
  /\ version = 1
  /\ lock = NoProc
  /\ txn = [p \in Procs |-> Idle]
  /\ used = NormLines \cup LinesOf(db) \cup db.before \cup db.after
  /\ objects = db.before \cup db.after
  /\ issued = [l \in Lines |-> 0]

(***************************************************************************)
(* The unit of work.                                                       *)
(***************************************************************************)
\* MikroORM updates the row only when one of its own columns changed; lines
\* and photos are rows of their own and do not touch it.
RowChanged(t) == t.order.status # t.base.status

\* Faulty: the table has no version column.
Conflict_Unversioned(t) == FALSE

\* UPDATE ... WHERE id = ? AND version = ? finds no row.
Conflict(t) == RowChanged(t) /\ t.ver # version

\* A line is written column by column where the copy differs from what was
\* loaded; an update of a line that is gone changes nothing.
MergedLine(t, l) ==
  LET was == t.base.lines[l]
      own == t.order.lines[l]
      row == db.lines[l]
  IN  IF own = was THEN row
      ELSE IF own = NoLine \/ was = NoLine THEN own
      ELSE IF row = NoLine THEN NoLine
      ELSE [row EXCEPT !.qty = IF own.qty = was.qty THEN @ ELSE own.qty,
                       !.reason = IF own.reason = was.reason THEN @ ELSE own.reason]

MergedSet(was, own, row) == (row \ (was \ own)) \cup (own \ was)

\* The committed order once the handler's changes are in.
Merged(t) ==
  [status |-> IF RowChanged(t) THEN t.order.status ELSE db.status,
   lines  |-> [l \in Lines |-> MergedLine(t, l)],
   before |-> MergedSet(t.base.before, t.order.before, db.before),
   after  |-> MergedSet(t.base.after, t.order.after, db.after)]

Step(p) == txn[p].step
GiveUp(p) == txn' = [txn EXCEPT ![p] = Idle]
Release(p) == lock' = IF lock = p THEN NoProc ELSE lock

\* Faulty: the row is not locked by the update before.
RowFree_Unlocked(p) == TRUE

\* An update of the row waits for the transaction that updated it before.
RowFree(p) == RowChanged(txn[p]) => lock \in {NoProc, p}

(***************************************************************************)
(* Loading: repo.findById, and the aggregate method of the handlers that    *)
(* call it before their first await.                                       *)
(***************************************************************************)
Copy(step, name, order) ==
  [step |-> step, name |-> name, base |-> db, order |-> order, ver |-> version,
   todo |-> {}, done |-> {}, photo |-> {}, before |-> FALSE]

Saving(name, order) == Copy("save", name, order)

Load(p, h) ==
  /\ Step(p) = "idle"
  /\ h.name \in Commands
  /\ version < MaxVersion
  /\ txn' = [txn EXCEPT ![p] = h]

\* findByAppointmentId found nothing.
BeginOpen(p) ==
  /\ db.status = "NONE"
  /\ Load(p, Saving("Open", OpenFromAppointment))
  /\ UNCHANGED <<db, version, lock, used, objects, issued>>

BeginAddConsumption(p) ==
  /\ CanAddConsumption(db)
  /\ \E sku \in Skus, q \in Quantities, r \in BOOLEAN :
       LET found == LinesOfSku(db, sku) IN
       \/ /\ \E l \in found : Load(p, Saving("AddConsumption", AddToLine(db, l, q, r)))
          /\ UNCHANGED used
       \/ /\ found = {}
          /\ \E l \in Lines \ used :
               /\ SkuOf[l] = sku
               /\ Load(p, Saving("AddConsumption", AddNewLine(db, l, q, r)))
               /\ used' = used \cup {l}
  /\ UNCHANGED <<db, version, lock, objects, issued>>

BeginUpdateConsumption(p) ==
  /\ \E l \in Lines, q \in Quantities, r \in BOOLEAN :
       /\ CanUpdateConsumption(db, l)
       /\ Load(p, Saving("UpdateConsumption", UpdateConsumption(db, l, q, r)))
  /\ UNCHANGED <<db, version, lock, used, objects, issued>>

BeginRemoveConsumption(p) ==
  /\ \E l \in Lines :
       /\ CanRemoveConsumption(db, l)
       /\ Load(p, Saving("RemoveConsumption", RemoveConsumption(db, l)))
  /\ UNCHANGED <<db, version, lock, used, objects, issued>>

BeginRemovePhoto(p) ==
  /\ \E f \in Photos :
       /\ CanRemovePhoto(db, f)
       /\ Load(p, [Saving("RemovePhoto", RemovePhoto(db, f)) EXCEPT !.photo = {f}])
  /\ UNCHANGED <<db, version, lock, used, objects, issued>>

\* The photo id is generated after the load and the file is uploaded before
\* the aggregate is asked, so any existing order is accepted here.
BeginAddPhoto(p) ==
  /\ db.status # "NONE"
  /\ \E f \in Photos \ used, b \in BOOLEAN :
       /\ used' = used \cup {f}
       /\ Load(p, [Copy("upload", "AddPhoto", db) EXCEPT !.photo = {f}, !.before = b])
  /\ UNCHANGED <<db, version, lock, objects, issued>>

BeginSubmitForReview(p) ==
  /\ CanSubmit(db)
  /\ Load(p, Saving("SubmitForReview", To(db, "AWAITING_REVIEW")))
  /\ UNCHANGED <<db, version, lock, used, objects, issued>>

BeginReturnToInProgress(p) ==
  /\ CanReturn(db)
  /\ Load(p, Saving("ReturnToInProgress", To(db, "IN_PROGRESS")))
  /\ UNCHANGED <<db, version, lock, used, objects, issued>>

\* Faulty: the write-offs of the close are left standing.
BeginReopen_KeepsStock(p) ==
  /\ CanReopen(db)
  /\ Load(p, Saving("Reopen", To(db, "IN_PROGRESS")))
  /\ UNCHANGED <<db, version, lock, used, objects, issued>>

BeginReopen(p) ==
  /\ CanReopen(db)
  /\ Load(p, [Saving("Reopen", To(db, "IN_PROGRESS")) EXCEPT !.todo = WrittenOff(db)])
  /\ UNCHANGED <<db, version, lock, used, objects, issued>>

\* Only a cancellation that finds the order closing gives stock back.
BeginCancel(p) ==
  /\ CanCancel(db)
  /\ Load(p, [Saving("Cancel", To(db, "CANCELLED")) EXCEPT
                !.todo = IF db.status = "CLOSING" THEN WrittenOff(db) ELSE {}])
  /\ UNCHANGED <<db, version, lock, used, objects, issued>>

\* A closed order is left as it is: the handler returns.
BeginClose(p) ==
  /\ CanStartClosing(db)
  /\ Load(p, [Copy("start", "Close", To(db, "CLOSING")) EXCEPT !.todo = WrittenOff(db)])
  /\ UNCHANGED <<db, version, lock, used, objects, issued>>

(***************************************************************************)
(* Handlers with one save.                                                 *)
(***************************************************************************)
\* storage.upload, then addPhotoBefore/addPhotoAfter on the loaded copy.  A
\* rejection leaves the object behind.
Upload(p) ==
  LET t == txn[p] IN
  /\ t.step = "upload"
  /\ objects' = objects \cup t.photo
  /\ \E f \in t.photo :
       IF (IF t.before THEN CanAddBefore(t.base) ELSE CanAddAfter(t.base))
         THEN txn' = [txn EXCEPT ![p].step = "save",
                                 ![p].order = IF t.before THEN AddBefore(t.base, f)
                                                          ELSE AddAfter(t.base, f)]
         ELSE GiveUp(p)
  /\ UNCHANGED <<db, version, lock, used, issued>>

\* Reopen and Cancel give back what they listed, line by line, before saving.
GiveBack(p) ==
  /\ Step(p) = "save"
  /\ \E l \in txn[p].todo :
       /\ issued' = [issued EXCEPT ![l] = 0]
       /\ txn' = [txn EXCEPT ![p].todo = @ \ {l}]
  /\ UNCHANGED <<db, version, lock, used, objects>>

\* repo.save: the unique index on appointment_id stops a second insert, the
\* version a stale update.  A removed photo's object goes after the save, and
\* in the scope of a request the commit comes after both.
Save(p) ==
  LET t == txn[p] IN
  /\ t.step = "save"
  /\ t.todo = {}
  /\ RowFree(p)
  /\ IF \/ Conflict(t)
        \/ t.name = "Open" /\ db.status # "NONE"
       THEN GiveUp(p) /\ UNCHANGED <<db, version>>
       ELSE IF t.name = "RemovePhoto"
         THEN /\ txn' = [txn EXCEPT ![p].step = "delete"]
              /\ db' = IF Scope = "save" THEN Merged(t) ELSE db
              /\ UNCHANGED version
         ELSE /\ db' = Merged(t)
              /\ version' = IF RowChanged(t) /\ t.name # "Open" THEN version + 1 ELSE version
              /\ GiveUp(p)
  /\ UNCHANGED <<lock, used, objects, issued>>

\* storage.delete is best effort.
DeleteObject(p) ==
  /\ Step(p) = "delete"
  /\ objects' \in {objects, objects \ txn[p].photo}
  /\ IF Scope = "save"
       THEN GiveUp(p)
       ELSE txn' = [txn EXCEPT ![p].step = "commit"]
  /\ UNCHANGED <<db, version, lock, used, issued>>

CommitRemoval(p) ==
  /\ Step(p) = "commit"
  /\ db' = Merged(txn[p])
  /\ GiveUp(p)
  /\ UNCHANGED <<version, lock, used, objects, issued>>

(***************************************************************************)
(* CloseWorkOrderHandler: CLOSING, preflight, one consume per line, CLOSED; *)
(* a refusal undoes the consumed lines and puts the order back in work.     *)
(***************************************************************************)
StartClosing(p) ==
  LET t == txn[p] IN
  /\ t.step = "start"
  /\ RowFree(p)
  /\ IF Conflict(t)
       THEN GiveUp(p) /\ UNCHANGED <<db, version, lock>>
       ELSE /\ txn' = [txn EXCEPT ![p].step = "preflight", ![p].ver = t.ver + 1,
                                  ![p].base = IF Scope = "save" THEN t.order ELSE @]
            /\ IF Scope = "save"
                 THEN db' = Merged(t) /\ version' = version + 1 /\ UNCHANGED lock
                 ELSE lock' = p /\ UNCHANGED <<db, version>>
  /\ UNCHANGED <<used, objects, issued>>

\* canConsume for every line; any "no" reverts before anything is consumed.
Preflight(p) ==
  /\ Step(p) = "preflight"
  /\ \E next \in {"consume", "undo"} :
       /\ next = "undo" => txn[p].todo # {}
       /\ txn' = [txn EXCEPT ![p].step = next]
  /\ UNCHANGED <<db, version, lock, used, objects, issued>>

\* The port answers ok: the quantity the handler loaded is written off.
Consume(p) ==
  LET t == txn[p] IN
  /\ t.step = "consume"
  /\ \E l \in t.todo :
       /\ issued' = [issued EXCEPT ![l] = @ + t.base.lines[l].qty]
       /\ txn' = [txn EXCEPT ![p].todo = @ \ {l}, ![p].done = @ \cup {l}]
  /\ UNCHANGED <<db, version, lock, used, objects>>

\* Faulty: the lines consumed before the refused one are not undone.
Refuse_Forgets(p) ==
  /\ Step(p) = "consume"
  /\ txn[p].todo # {}
  /\ txn' = [txn EXCEPT ![p].step = "undo", ![p].done = {}]
  /\ UNCHANGED <<db, version, lock, used, objects, issued>>

\* The port refuses a line.
Refuse(p) ==
  /\ Step(p) = "consume"
  /\ txn[p].todo # {}
  /\ txn' = [txn EXCEPT ![p].step = "undo"]
  /\ UNCHANGED <<db, version, lock, used, objects, issued>>

Undo(p) ==
  /\ Step(p) = "undo"
  /\ \E l \in txn[p].done :
       /\ issued' = [issued EXCEPT ![l] = 0]
       /\ txn' = [txn EXCEPT ![p].done = @ \ {l}]
  /\ UNCHANGED <<db, version, lock, used, objects>>

\* Faulty: the reverted order is not saved.
RevertClosing_Unsaved(p) ==
  /\ Step(p) = "undo"
  /\ txn[p].done = {}
  /\ GiveUp(p)
  /\ Release(p)
  /\ UNCHANGED <<db, version, used, objects, issued>>

\* revertClosing, save, throw.  In the scope of a request the exception rolls
\* the whole handler back, the revert included.
RevertClosing(p) ==
  LET t == [txn[p] EXCEPT !.order.status = "IN_PROGRESS"] IN
  /\ t.step = "undo"
  /\ t.done = {}
  /\ IF Scope = "save" /\ ~Conflict(t)
       THEN db' = Merged(t) /\ version' = version + 1
       ELSE UNCHANGED <<db, version>>
  /\ GiveUp(p)
  /\ Release(p)
  /\ UNCHANGED <<used, objects, issued>>

\* finalizeClose and the second save; a request commits here, both saves at
\* once, holding the row since the first.
FinalizeClose(p) ==
  LET t == [txn[p] EXCEPT !.order.status = "CLOSED"] IN
  /\ t.step = "consume"
  /\ t.todo = {}
  /\ IF Scope = "save" /\ Conflict(t)
       THEN UNCHANGED <<db, version>>
       ELSE db' = Merged(t) /\ version' = t.ver + 1
  /\ GiveUp(p)
  /\ Release(p)
  /\ UNCHANGED <<used, objects, issued>>

\* The process dies or an awaited call rejects: what was committed stays, an
\* open transaction is rolled back, and nobody calls the port again.
Abort(p) ==
  /\ Aborts
  /\ Step(p) # "idle"
  /\ GiveUp(p)
  /\ Release(p)
  /\ UNCHANGED <<db, version, used, objects, issued>>

Begin(p) ==
  \/ BeginOpen(p) \/ BeginAddConsumption(p) \/ BeginUpdateConsumption(p)
  \/ BeginRemoveConsumption(p) \/ BeginAddPhoto(p) \/ BeginRemovePhoto(p)
  \/ BeginSubmitForReview(p) \/ BeginReturnToInProgress(p)
  \/ BeginClose(p) \/ BeginReopen(p) \/ BeginCancel(p)

Continue(p) ==
  \/ Upload(p) \/ GiveBack(p) \/ Save(p) \/ DeleteObject(p) \/ CommitRemoval(p)
  \/ StartClosing(p) \/ Preflight(p) \/ Consume(p) \/ Refuse(p) \/ Undo(p)
  \/ RevertClosing(p) \/ FinalizeClose(p)

Next == \E p \in Procs : Begin(p) \/ Continue(p) \/ Abort(p)

Spec == Init /\ [][Next]_vars

\* A started handler goes on: the event loop resumes it once the awaited call
\* has answered.
FairSpec == Spec /\ \A p \in Procs : WF_vars(Continue(p))
(***************************************************************************)
(* Properties.                                                             *)
(***************************************************************************)
\* The handler is between its first and its last save of a close.
Closing(p) == Step(p) \in {"preflight", "consume", "undo"}

\* At most one close is under way: the version (or the row lock of the first
\* close's transaction) keeps a second CloseWorkOrderHandler that loaded the
\* same order from ever reaching the stock port.
OneCloser == \A p, q \in Procs : Closing(p) /\ Closing(q) => p = q

\* A line is written off only when nothing of it is outstanding: handlers that run
\* to their end, however closes, refusals, cancellations and reopenings overlap and
\* whichever of them comes too late for its save, never consume the same line twice
\* without giving it back in between.  A line edited beside a close breaks it, and
\* so does a handler that dies in a request: its row forgets what the port wrote off.
NoDoubleWriteOff ==
  [][\A l \in Lines : issued'[l] > issued[l] => issued[l] = 0]_vars

\* An order that is neither closed nor being closed holds no written-off stock:
\* a refused close, a reopening and a cancellation gave everything back.
NothingOutstanding ==
  db.status # "CLOSED" /\ (\A p \in Procs : ~Closing(p))
    => \A l \in Lines : issued[l] = 0

\* Every photo row has its object in the storage, whatever uploads and removals
\* overlap: only while a removal is between storage.delete and its commit can a
\* client be given a link to a deleted file.
PhotoHasObject ==
  \A f \in (db.before \cup db.after) \ objects :
    \E p \in Procs : Step(p) = "commit" /\ f \in txn[p].photo

\* Uploads that overlap can pass MAX_PHOTOS_PER_TYPE, since the count is that of
\* the loaded copy, but by fewer photos than there are requests at a time.
PhotoOverrun ==
  /\ Cardinality(db.before) < MaxPhotos + Cardinality(Procs)
  /\ Cardinality(db.after) < MaxPhotos + Cardinality(Procs)

\* A committed CLOSING does not stay: the close finalizes or reverts it, or a
\* cancellation takes the order.
ClosingResolves == db.status = "CLOSING" ~> db.status # "CLOSING"

\* product.md FR-5.6.2, engineering.md 2.8.2: a closed order has photos of both
\* kinds.
ClosedHasPhotos == db.status = "CLOSED" => db.before # {} /\ db.after # {}

\* product.md FR-5.6.3, "CLOSED: materials are written off": every line of a
\* closed order is, in the quantity the order shows, once no request is running.
ClosedMeansConsumed ==
  db.status = "CLOSED" /\ (\A p \in Procs : Step(p) = "idle")
    => \A l \in LinesOf(db) : issued[l] = db.lines[l].qty

\* product.md FR-5.6.7, "on cancellation materials are NOT written off".
CancelledMeansNothingConsumed ==
  db.status = "CANCELLED" /\ (\A p \in Procs : ~Closing(p))
    => \A l \in Lines : issued[l] = 0

\* ADR-0015, step 6: a refused close commits the revert to IN_PROGRESS.
RefusedCloseReverts ==
  [][\A p \in Procs : Step(p) = "undo" /\ Step(p)' = "idle"
                        => db'.status = "IN_PROGRESS"]_vars

Lifecycle == INSTANCE OrderLifecycle
  WITH InitStatuses <- {o.status : o \in InitOrders}, status <- db.status

\* The handlers implement the promised lifecycle: no interleaving, stale copy or
\* abort commits a transition outside it or skips a version.
LifecycleSpec == Lifecycle!Spec
=============================================================================
