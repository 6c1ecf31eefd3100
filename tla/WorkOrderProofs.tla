--------------------------- MODULE WorkOrderProofs ---------------------------
(***************************************************************************)
(* Theorems about the concurrent work-order handlers, for any number of     *)
(* requests, lines and photos; in both commit scopes, with or without      *)
(* aborts, unless the theorem says otherwise.                              *)
(***************************************************************************)
EXTENDS WorkOrder, FiniteSetTheorems, TLAPS

(***************************************************************************)
(* The aggregate's methods return orders.                                  *)
(***************************************************************************)
\* A row not inserted yet and a freshly opened order are orders: the drafted
\* lines of openFromAppointment have the norms' quantities.
LEMMA FreshOrders == NoOrder \in Order /\ OpenFromAppointment \in Order
<1> USE AggregateAssumption
<1>1. 0 \in Quantities  BY DEF Quantities
<1>2. NoOrder \in Order
  BY DEF NoOrder, Order, Statuses
<1>3. ASSUME NEW l \in NormLines
      PROVE  [sku |-> SkuOf[l], qty |-> 0, norm |-> NormOf[l], reason |-> FALSE] \in Line
  BY <1>1 DEF Line, Skus
<1>4. OpenFromAppointment.lines \in [Lines -> Line \cup {NoLine}]
  BY <1>3 DEF OpenFromAppointment
<1>5. OpenFromAppointment \in Order
  BY <1>4 DEF OpenFromAppointment, Order, Statuses
<1> QED BY <1>2, <1>5

\* The edits of photos keep the order well formed.
LEMMA PhotoEdits ==
  ASSUME NEW o \in Order, NEW f \in Photos
  PROVE  /\ AddBefore(o, f) \in Order /\ AddAfter(o, f) \in Order
         /\ RemovePhoto(o, f) \in Order
BY DEF AddBefore, AddAfter, RemovePhoto, Started, Order, Statuses

\* The edits of consumption lines keep the order well formed.
LEMMA LineEdits ==
  ASSUME NEW o \in Order, NEW l \in Lines, NEW q \in Quantities, NEW r \in BOOLEAN
  PROVE  /\ l \in LinesOf(o) => /\ AddToLine(o, l, q, r) \in Order
                                /\ UpdateConsumption(o, l, q, r) \in Order
         /\ AddNewLine(o, l, q, r) \in Order
         /\ RemoveConsumption(o, l) \in Order
<1> USE AggregateAssumption
<1>1. 0 \in Quantities  BY DEF Quantities
<1>2. Started(o) \in Statuses  BY DEF Started, Order, Statuses
<1>3. ASSUME l \in LinesOf(o)
      PROVE  AddToLine(o, l, q, r) \in Order /\ UpdateConsumption(o, l, q, r) \in Order
  <2>1. o.lines[l] \in Line  BY <1>3 DEF LinesOf, Order
  <2>2. Update(o.lines[l], q, r) \in Line  BY <2>1 DEF Update, Line
  <2> QED BY <1>2, <2>2 DEF AddToLine, UpdateConsumption, Order
<1>4. [sku |-> SkuOf[l], qty |-> q, norm |-> 0, reason |-> r] \in Line
  BY <1>1 DEF Line, Skus
<1>5. AddNewLine(o, l, q, r) \in Order  BY <1>2, <1>4 DEF AddNewLine, Order
<1>6. RemoveConsumption(o, l) \in Order  BY DEF RemoveConsumption, Order
<1> QED BY <1>3, <1>5, <1>6

\* A status change keeps the order well formed.
LEMMA StatusEdits ==
  ASSUME NEW o \in Order, NEW s \in Statuses
  PROVE  To(o, s) \in Order
BY DEF To, Order

(***************************************************************************)
(* The inductive invariant.                                                *)
(***************************************************************************)
\* The status changes a handler with one save can have made on its copy.
SaveMove(from, to) ==
  \/ from = to
  \/ from = "OPEN" /\ to \in {"IN_PROGRESS", "CANCELLED"}
  \/ from = "IN_PROGRESS" /\ to \in {"AWAITING_REVIEW", "CANCELLED"}
  \/ from = "AWAITING_REVIEW" /\ to \in {"IN_PROGRESS", "CANCELLED"}
  \/ from = "CLOSING" /\ to = "CANCELLED"
  \/ from = "CLOSED" /\ to = "IN_PROGRESS"

ClosingSteps == {"preflight", "consume", "undo"}

\* What a handler's own record says, whatever the others do.
LocalOK(t) ==
  /\ t.step \in {"start", "preflight", "consume"} => t.todo \subseteq LinesOf(t.base)
  /\ t.step \in {"start", "preflight"} => t.order.lines = t.base.lines
  /\ t.step = "upload" => t.name = "AddPhoto" /\ t.base.status # "NONE"
  /\ t.step \in {"delete", "commit"} => t.name = "RemovePhoto"
  /\ t.name = "RemovePhoto" => t.order.status = t.base.status
  /\ t.step \in ClosingSteps \cup {"start"} => t.order.status = "CLOSING"
  /\ t.step = "start" => t.base.status \in {"IN_PROGRESS", "AWAITING_REVIEW"}
  /\ t.step \in ClosingSteps =>
       IF Scope = "save" THEN t.base.status = "CLOSING"
                         ELSE t.base.status \in {"IN_PROGRESS", "AWAITING_REVIEW"}
  /\ t.step = "save" =>
       IF t.name = "Open" THEN t.base.status = "NONE" /\ t.order.status = "OPEN"
                          ELSE t.base.status # "NONE" /\ SaveMove(t.base.status, t.order.status)

\* What the version a handler expects says about the committed row.
VersionOK(p) ==
  IF Scope = "request" /\ Closing(p)
    THEN /\ txn[p].ver = version + 1
         /\ lock = p
         /\ txn[p].base.status = db.status
    ELSE /\ txn[p].ver <= version
         /\ txn[p].ver = version /\ txn[p].base.status # "NONE"
              => txn[p].base.status = db.status

RowOK ==
  /\ lock # NoProc => Scope = "request" /\ \E p \in Procs : lock = p /\ Closing(p)
  /\ \A p \in Procs : Scope = "save" /\ Closing(p) => db.status \in {"CLOSING", "CANCELLED"}

IInv ==
  /\ TypeOK
  /\ \A p \in Procs : LocalOK(txn[p])
  /\ \A p \in Procs : Step(p) # "idle" => VersionOK(p)
  /\ RowOK
  /\ OneCloser

\* A handler record built from well-typed parts is well typed.
LEMMA HandlerType ==
  ASSUME NEW s \in Steps, NEW n \in Names, NEW b \in Order, NEW o \in Order,
         NEW v \in Nat, NEW t \in SUBSET Lines, NEW d \in SUBSET Lines,
         NEW f \in SUBSET Photos, NEW h \in BOOLEAN
  PROVE  [step |-> s, name |-> n, base |-> b, order |-> o, ver |-> v,
          todo |-> t, done |-> d, photo |-> f, before |-> h] \in Handler
BY DEF Handler

\* A handler that is not running is well typed.
LEMMA IdleType == Idle \in Handler
BY FreshOrders, HandlerType DEF Idle, Steps, Names

\* A handler that loaded the row: its copy is a legal change of what it loaded.
LEMMA CopyType ==
  ASSUME TypeOK, NEW s \in Steps, NEW n \in Names, NEW o \in Order
  PROVE  /\ Copy(s, n, o) \in Handler
         /\ \A t \in SUBSET Lines : [Copy(s, n, o) EXCEPT !.todo = t] \in Handler
         /\ \A f \in SUBSET Photos : [Copy(s, n, o) EXCEPT !.photo = f] \in Handler
         /\ \A f \in SUBSET Photos, b \in BOOLEAN :
              [Copy(s, n, o) EXCEPT !.photo = f, !.before = b] \in Handler
BY DEF Copy, Handler, TypeOK

\* Merging a handler's changes into a well-formed row keeps it well formed.
LEMMA MergedType ==
  ASSUME NEW t \in Handler, db \in Order
  PROVE  Merged(t) \in Order
<1>1. t.base \in Order /\ t.order \in Order  BY DEF Handler
<1>2. ASSUME NEW l \in Lines
      PROVE  MergedLine(t, l) \in Line \cup {NoLine}
  <2>1. /\ t.base.lines[l] \in Line \cup {NoLine}
        /\ t.order.lines[l] \in Line \cup {NoLine}
        /\ db.lines[l] \in Line \cup {NoLine}
    BY <1>1 DEF Order
  <2>2. CASE t.order.lines[l] = t.base.lines[l]
    BY <2>1, <2>2 DEF MergedLine
  <2>3. CASE /\ t.order.lines[l] # t.base.lines[l]
             /\ t.order.lines[l] = NoLine \/ t.base.lines[l] = NoLine
    BY <2>1, <2>3 DEF MergedLine
  <2>4. CASE /\ t.order.lines[l] # NoLine /\ t.base.lines[l] # NoLine
             /\ db.lines[l] = NoLine
    BY <2>1, <2>4 DEF MergedLine
  <2>5. CASE /\ t.order.lines[l] # t.base.lines[l]
             /\ t.order.lines[l] # NoLine /\ t.base.lines[l] # NoLine
             /\ db.lines[l] # NoLine
    <3>1. /\ db.lines[l] \in Line /\ t.order.lines[l] \in Line
      BY <2>1, <2>5
    <3> QED BY <2>5, <3>1 DEF MergedLine, Line
  <2> QED BY <2>2, <2>3, <2>4, <2>5
<1>3. Merged(t).lines \in [Lines -> Line \cup {NoLine}]
  BY <1>2 DEF Merged
<1>4. /\ Merged(t).status \in Statuses
      /\ Merged(t).before \in SUBSET Photos
      /\ Merged(t).after \in SUBSET Photos
  BY <1>1 DEF Merged, MergedSet, Order
<1> QED BY <1>3, <1>4 DEF Merged, Order

\* What the first step of any command leaves behind.
LEMMA BeginFresh ==
  ASSUME TypeOK, NEW p \in Procs, Begin(p)
  PROVE  /\ Step(p) = "idle"
         /\ \E h \in Handler :
              /\ txn' = [txn EXCEPT ![p] = h]
              /\ h.base = db /\ h.ver = version
              /\ h.step \in {"save", "upload", "start"}
              /\ LocalOK(h)
         /\ UNCHANGED <<db, version, lock, objects, issued>>
         /\ used' \subseteq Lines \cup Photos
<1> DEFINE Fresh(h) == /\ h \in Handler
                       /\ h.base = db /\ h.ver = version
                       /\ h.step \in {"save", "upload", "start"}
                       /\ LocalOK(h)
<1>1. db \in Order /\ used \subseteq Lines \cup Photos  BY DEF TypeOK
<1>2. ASSUME NEW h, Load(p, h), Fresh(h),
             UNCHANGED <<db, version, lock, objects, issued>>,
             used' \subseteq Lines \cup Photos
      PROVE  /\ Step(p) = "idle"
             /\ \E k \in Handler : txn' = [txn EXCEPT ![p] = k] /\ Fresh(k)
  BY <1>2 DEF Load
<1>3. ASSUME NEW n \in Names, n # "Open", n # "RemovePhoto", NEW o \in Order,
             db.status # "NONE", SaveMove(db.status, o.status)
      PROVE  Fresh(Saving(n, o))
  <2>1. Saving(n, o) \in Handler  BY CopyType, <1>3 DEF Saving, Steps
  <2>2. LocalOK(Saving(n, o))  BY <1>3 DEF LocalOK, Saving, Copy, ClosingSteps
  <2> QED BY <2>1, <2>2 DEF Saving, Copy
<1>4. CASE BeginOpen(p)
  <2> DEFINE h == Saving("Open", OpenFromAppointment)
  <2>1. h \in Handler  BY CopyType, FreshOrders DEF Saving, Steps, Names
  <2>2. LocalOK(h)
    BY <1>4 DEF BeginOpen, LocalOK, Saving, Copy, ClosingSteps, OpenFromAppointment
  <2>3. Fresh(h)  BY <2>1, <2>2 DEF Saving, Copy
  <2> QED BY <1>1, <1>2, <1>4, <2>3 DEF BeginOpen
<1>5. CASE BeginAddConsumption(p)
  <2>1. PICK sku \in Skus, q \in Quantities, r \in BOOLEAN :
          \/ /\ \E l \in LinesOfSku(db, sku) :
                  Load(p, Saving("AddConsumption", AddToLine(db, l, q, r)))
             /\ UNCHANGED used
          \/ \E l \in Lines \ used :
               /\ Load(p, Saving("AddConsumption", AddNewLine(db, l, q, r)))
               /\ used' = used \cup {l}
    BY <1>5 DEF BeginAddConsumption
  <2>2. /\ db.status \in {"OPEN", "IN_PROGRESS"}
        /\ UNCHANGED <<db, version, lock, objects, issued>>
    BY <1>5 DEF BeginAddConsumption, CanAddConsumption
  <2>3. ASSUME NEW l \in LinesOfSku(db, sku)
        PROVE  Fresh(Saving("AddConsumption", AddToLine(db, l, q, r)))
    <3>1. l \in LinesOf(db) /\ l \in Lines  BY DEF LinesOfSku, LinesOf
    <3>2. AddToLine(db, l, q, r) \in Order  BY <1>1, <3>1, LineEdits
    <3>3. SaveMove(db.status, AddToLine(db, l, q, r).status)
      BY <1>1, <2>2 DEF SaveMove, AddToLine, Started, Order
    <3> QED BY <1>3, <2>2, <3>2, <3>3 DEF Names
  <2>4. ASSUME NEW l \in Lines
        PROVE  Fresh(Saving("AddConsumption", AddNewLine(db, l, q, r)))
    <3>1. AddNewLine(db, l, q, r) \in Order  BY <1>1, LineEdits
    <3>2. SaveMove(db.status, AddNewLine(db, l, q, r).status)
      BY <1>1, <2>2 DEF SaveMove, AddNewLine, Started, Order
    <3> QED BY <1>3, <2>2, <3>1, <3>2 DEF Names
  <2> QED BY <1>1, <1>2, <2>1, <2>2, <2>3, <2>4
<1>6. CASE BeginUpdateConsumption(p)
  <2>1. PICK l \in Lines, q \in Quantities, r \in BOOLEAN :
          /\ CanUpdateConsumption(db, l)
          /\ Load(p, Saving("UpdateConsumption", UpdateConsumption(db, l, q, r)))
    BY <1>6 DEF BeginUpdateConsumption
  <2>2. UpdateConsumption(db, l, q, r) \in Order
    BY <1>1, <2>1, LineEdits DEF CanUpdateConsumption
  <2>3. /\ db.status # "NONE"
        /\ SaveMove(db.status, UpdateConsumption(db, l, q, r).status)
    BY <1>1, <2>1 DEF CanUpdateConsumption, Editable, SaveMove, UpdateConsumption, Order
  <2>4. Fresh(Saving("UpdateConsumption", UpdateConsumption(db, l, q, r)))
    BY <1>3, <2>2, <2>3 DEF Names
  <2> QED BY <1>1, <1>2, <1>6, <2>1, <2>4 DEF BeginUpdateConsumption
<1>7. CASE BeginRemoveConsumption(p)
  <2>1. PICK l \in Lines :
          /\ CanRemoveConsumption(db, l)
          /\ Load(p, Saving("RemoveConsumption", RemoveConsumption(db, l)))
    BY <1>7 DEF BeginRemoveConsumption
  <2>q. \E q \in Quantities : TRUE  BY AggregateAssumption DEF Quantities
  <2>2. RemoveConsumption(db, l) \in Order
    BY <1>1 DEF RemoveConsumption, Order
  <2>3. /\ db.status # "NONE"
        /\ SaveMove(db.status, RemoveConsumption(db, l).status)
    BY <1>1, <2>1 DEF CanRemoveConsumption, Editable, SaveMove, RemoveConsumption, Order
  <2>4. Fresh(Saving("RemoveConsumption", RemoveConsumption(db, l)))
    BY <1>3, <2>2, <2>3 DEF Names
  <2> QED BY <1>1, <1>2, <1>7, <2>1, <2>4 DEF BeginRemoveConsumption
<1>8. CASE BeginAddPhoto(p)
  <2>1. PICK f \in Photos \ used, b \in BOOLEAN :
          /\ used' = used \cup {f}
          /\ Load(p, [Copy("upload", "AddPhoto", db) EXCEPT !.photo = {f}, !.before = b])
    BY <1>8 DEF BeginAddPhoto
  <2> DEFINE h == [Copy("upload", "AddPhoto", db) EXCEPT !.photo = {f}, !.before = b]
  <2>2. h \in Handler
    <3>1. "upload" \in Steps /\ "AddPhoto" \in Names /\ {f} \in SUBSET Photos
      BY DEF Steps, Names
    <3>2. \A g \in SUBSET Photos, c \in BOOLEAN :
            [Copy("upload", "AddPhoto", db) EXCEPT !.photo = g, !.before = c] \in Handler
      BY <1>1, <3>1, CopyType
    <3> QED BY <3>1, <3>2
  <2>3. LocalOK(h)  BY <1>8 DEF BeginAddPhoto, LocalOK, Copy, ClosingSteps
  <2>4. Fresh(h)  BY <2>2, <2>3 DEF Copy
  <2> QED BY <1>1, <1>2, <1>8, <2>1, <2>4 DEF BeginAddPhoto
<1>9. CASE BeginRemovePhoto(p)
  <2>1. PICK f \in Photos :
          /\ CanRemovePhoto(db, f)
          /\ Load(p, [Saving("RemovePhoto", RemovePhoto(db, f)) EXCEPT !.photo = {f}])
    BY <1>9 DEF BeginRemovePhoto
  <2> DEFINE h == [Saving("RemovePhoto", RemovePhoto(db, f)) EXCEPT !.photo = {f}]
  <2>2. h \in Handler
    <3>1. "save" \in Steps /\ "RemovePhoto" \in Names /\ {f} \in SUBSET Photos
      BY DEF Steps, Names
    <3>2. RemovePhoto(db, f) \in Order  BY <1>1, PhotoEdits
    <3>3. \A g \in SUBSET Photos :
            [Copy("save", "RemovePhoto", RemovePhoto(db, f)) EXCEPT !.photo = g] \in Handler
      BY <3>1, <3>2, CopyType
    <3> QED BY <3>1, <3>3 DEF Saving
  <2>3. LocalOK(h)
    BY <1>1, <2>1 DEF LocalOK, Saving, Copy, ClosingSteps, CanRemovePhoto, Editable,
                      RemovePhoto, SaveMove, Order
  <2>4. Fresh(h)  BY <2>2, <2>3 DEF Saving, Copy
  <2> QED BY <1>1, <1>2, <1>9, <2>1, <2>4 DEF BeginRemovePhoto
<1>10. ASSUME NEW s \in Statuses
       PROVE  To(db, s) \in Order /\ To(db, s).status = s
  BY <1>1, StatusEdits DEF To, Order
<1>11. CASE BeginSubmitForReview(p)
  <2>1. db.status = "IN_PROGRESS"
    BY <1>1, <1>11 DEF BeginSubmitForReview, CanSubmit, AllowedTransitions
  <2>2. Fresh(Saving("SubmitForReview", To(db, "AWAITING_REVIEW")))
    BY <1>3, <1>10, <2>1 DEF SaveMove, Names, Statuses
  <2> QED BY <1>1, <1>2, <1>11, <2>2 DEF BeginSubmitForReview
<1>12. CASE BeginReturnToInProgress(p)
  <2>1. db.status = "AWAITING_REVIEW"
    BY <1>12 DEF BeginReturnToInProgress, CanReturn
  <2>2. Fresh(Saving("ReturnToInProgress", To(db, "IN_PROGRESS")))
    BY <1>3, <1>10, <2>1 DEF SaveMove, Names, Statuses
  <2> QED BY <1>1, <1>2, <1>12, <2>2 DEF BeginReturnToInProgress
<1>13. ASSUME NEW n \in Names, n # "Open", n # "RemovePhoto", NEW o \in Order,
              db.status # "NONE", SaveMove(db.status, o.status), NEW t \in SUBSET Lines
       PROVE  Fresh([Saving(n, o) EXCEPT !.todo = t])
  <2>1. [Saving(n, o) EXCEPT !.todo = t] \in Handler  BY CopyType, <1>13 DEF Saving, Steps
  <2>2. LocalOK([Saving(n, o) EXCEPT !.todo = t])
    BY <1>13 DEF LocalOK, Saving, Copy, ClosingSteps
  <2> QED BY <2>1, <2>2 DEF Saving, Copy
<1>14. WrittenOff(db) \in SUBSET Lines /\ WrittenOff(db) \subseteq LinesOf(db)
  BY DEF WrittenOff, LinesOf
<1>15. CASE BeginReopen(p)
  <2>1. db.status = "CLOSED"
    BY <1>15 DEF BeginReopen, CanReopen
  <2>2. Fresh([Saving("Reopen", To(db, "IN_PROGRESS")) EXCEPT !.todo = WrittenOff(db)])
    BY <1>10, <1>13, <1>14, <2>1 DEF SaveMove, Names, Statuses
  <2> QED BY <1>1, <1>2, <1>15, <2>2 DEF BeginReopen
<1>16. CASE BeginCancel(p)
  <2> DEFINE t == IF db.status = "CLOSING" THEN WrittenOff(db) ELSE {}
  <2>1. db.status \in {"OPEN", "IN_PROGRESS", "AWAITING_REVIEW", "CLOSING"}
    BY <1>16 DEF BeginCancel, CanCancel
  <2>2. t \in SUBSET Lines  BY <1>14
  <2>3. Fresh([Saving("Cancel", To(db, "CANCELLED")) EXCEPT !.todo = t])
    BY <1>10, <1>13, <2>1, <2>2 DEF SaveMove, Names, Statuses
  <2> QED BY <1>1, <1>2, <1>16, <2>3 DEF BeginCancel
<1>17. CASE BeginClose(p)
  <2> DEFINE h == [Copy("start", "Close", To(db, "CLOSING")) EXCEPT !.todo = WrittenOff(db)]
  <2>1. h \in Handler
    BY <1>10, <1>14, CopyType DEF Steps, Names, Statuses
  <2>2. LocalOK(h)
    BY <1>1, <1>14, <1>17 DEF BeginClose, CanStartClosing, LocalOK, Copy, ClosingSteps, To, Order
  <2>3. Fresh(h)  BY <2>1, <2>2 DEF Copy
  <2> QED BY <1>1, <1>2, <1>17, <2>3 DEF BeginClose
<1> QED BY <1>4, <1>5, <1>6, <1>7, <1>8, <1>9, <1>11, <1>12, <1>15, <1>16, <1>17 DEF Begin

(***************************************************************************)
(* Steps keep the invariant.                                               *)
(***************************************************************************)
\* A step of p that changes neither the status nor the version nor the lock, and
\* leaves p idle or with the copy and the version it had.
LEMMA QuietStep ==
  ASSUME IInv, TypeOK', NEW p \in Procs, NEW h \in Handler,
         txn' = [txn EXCEPT ![p] = h],
         db'.status = db.status, UNCHANGED <<version, lock>>,
         LocalOK(h),
         h.step \in ClosingSteps <=> Closing(p),
         h.step # "idle" => h.base = txn[p].base /\ h.ver = txn[p].ver /\ Step(p) # "idle"
  PROVE  IInv'
<1>1. txn \in [Procs -> Handler] /\ version \in Nat  BY DEF IInv, TypeOK
<1>2. txn'[p] = h /\ \A q \in Procs \ {p} : txn'[q] = txn[q]  BY <1>1
<1>4. \A q \in Procs : LocalOK(txn[q])'
  BY <1>2 DEF IInv, LocalOK
<1>5. \A q \in Procs : Closing(q)' <=> Closing(q)
  BY <1>2 DEF Closing, Step, ClosingSteps
<1>6. ASSUME NEW q \in Procs, Step(q)' # "idle"
      PROVE  VersionOK(q)'
  BY <1>2, <1>5, <1>6 DEF IInv, VersionOK, Step
<1>7. RowOK'  BY <1>5 DEF IInv, RowOK
<1>8. OneCloser'  BY <1>5 DEF IInv, OneCloser
<1> QED BY <1>4, <1>6, <1>7, <1>8 DEF IInv

\* A step with which p's handler ends: the row keeps its status and version, or
\* is inserted, or gets a new version while no other close is at work on it
\* unless the order is cancelled under it.
LEMMA FinishStep ==
  ASSUME IInv, TypeOK', NEW p \in Procs,
         GiveUp(p), Release(p),
         \/ db'.status = db.status /\ version' = version
         \/ db.status = "NONE" /\ version' = version
         \/ /\ version' > version
            /\ \A q \in Procs \ {p} :
                 Closing(q) => Scope = "save" /\ db'.status \in {"CLOSING", "CANCELLED"}
  PROVE  IInv'
<1>1. /\ txn \in [Procs -> Handler] /\ version \in Nat /\ version' \in Nat
      /\ lock \in Procs \cup {NoProc}
  BY DEF IInv, TypeOK
<1>2. txn'[p] = Idle /\ \A q \in Procs \ {p} : txn'[q] = txn[q]  BY <1>1 DEF GiveUp
<1>3. \A q \in Procs : txn[q].ver \in Nat  BY <1>1 DEF Handler
<1>4. \A q \in Procs : LocalOK(txn[q])'
  BY <1>2 DEF IInv, LocalOK, Idle, ClosingSteps
<1>5. /\ ~Closing(p)'
      /\ \A q \in Procs \ {p} : Closing(q)' <=> Closing(q)
  BY <1>2 DEF Closing, Step, Idle
<1>6. ASSUME NEW q \in Procs, Step(q)' # "idle"
      PROVE  VersionOK(q)'
  <2>1. q # p /\ txn'[q] = txn[q] /\ (Closing(q)' <=> Closing(q)) /\ Step(q) # "idle"
    BY <1>2, <1>5, <1>6 DEF Step, Idle
  <2>2. VersionOK(q)  BY <2>1 DEF IInv
  <2>3. CASE db'.status = db.status /\ version' = version
    <3>1. Scope = "request" /\ Closing(q) => lock' = lock
      BY <2>1, <2>2 DEF VersionOK, Release
    <3> QED BY <2>1, <2>2, <2>3, <3>1 DEF VersionOK
  <2>4. CASE db.status = "NONE" /\ version' = version
    <3>1. ~(Scope = "request" /\ Closing(q))
      BY <2>2, <2>4 DEF VersionOK, IInv, LocalOK, Closing, Step, ClosingSteps
    <3> QED BY <2>1, <2>2, <2>4, <3>1 DEF VersionOK
  <2>5. CASE /\ version' > version
             /\ \A r \in Procs \ {p} :
                  Closing(r) => Scope = "save" /\ db'.status \in {"CLOSING", "CANCELLED"}
    <3>1. ~(Scope = "request" /\ Closing(q))  BY <2>1, <2>5
    <3>2. txn[q].ver <= version /\ txn[q].ver < version'
      BY <1>1, <1>3, <2>2, <2>5, <3>1 DEF VersionOK
    <3> QED BY <1>1, <1>3, <2>1, <3>1, <3>2 DEF VersionOK
  <2> QED BY <2>3, <2>4, <2>5
<1>7. RowOK'
  <2>1. lock' # NoProc => Scope = "request" /\ \E q \in Procs : lock' = q /\ Closing(q)'
    BY <1>1, <1>5 DEF IInv, RowOK, Release
  <2>2. ASSUME NEW q \in Procs, Scope = "save", Closing(q)'
        PROVE  db'.status \in {"CLOSING", "CANCELLED"}
    <3>1. q # p /\ Closing(q)  BY <1>5, <2>2
    <3>2. db.status \in {"CLOSING", "CANCELLED"}  BY <2>2, <3>1 DEF IInv, RowOK
    <3> QED BY <3>1, <3>2
  <2> QED BY <2>1, <2>2 DEF RowOK
<1>8. OneCloser'  BY <1>5 DEF IInv, OneCloser
<1> QED BY <1>4, <1>6, <1>7, <1>8 DEF IInv

\* A handler that is not in a close does not hold the row.
LEMMA LockHolder ==
  ASSUME IInv, NEW p \in Procs, ~Closing(p)
  PROVE  lock # p
BY HandlerAssumption DEF IInv, RowOK

\* Every first step keeps the invariant: the copy has the committed version.
LEMMA BeginStep ==
  ASSUME IInv, NEW p \in Procs, Begin(p)
  PROVE  IInv'
<1>1. TypeOK  BY DEF IInv
<1>2. /\ Step(p) = "idle"
      /\ UNCHANGED <<db, version, lock, objects, issued>>
      /\ used' \subseteq Lines \cup Photos
  BY <1>1, BeginFresh
<1>3. PICK h \in Handler :
        /\ txn' = [txn EXCEPT ![p] = h]
        /\ h.base = db /\ h.ver = version
        /\ h.step \in {"save", "upload", "start"}
        /\ LocalOK(h)
  BY <1>1, BeginFresh
<1>4. txn \in [Procs -> Handler] /\ version \in Nat  BY <1>1 DEF TypeOK
<1>5. txn'[p] = h /\ \A q \in Procs \ {p} : txn'[q] = txn[q]  BY <1>3, <1>4
<1>6. TypeOK'  BY <1>1, <1>2, <1>3 DEF TypeOK
<1>7. \A q \in Procs : LocalOK(txn[q])'
  BY <1>3, <1>5 DEF IInv, LocalOK
<1>8. \A q \in Procs : Closing(q)' <=> Closing(q)
  BY <1>2, <1>3, <1>5 DEF Closing, Step
<1>9. ASSUME NEW q \in Procs, Step(q)' # "idle"
      PROVE  VersionOK(q)'
  <2>1. CASE q = p
    BY <1>2, <1>3, <1>4, <1>5, <1>8, <2>1 DEF VersionOK, Closing, Step
  <2>2. CASE q # p
    BY <1>2, <1>5, <1>8, <1>9, <2>2 DEF IInv, VersionOK, Step
  <2> QED BY <2>1, <2>2
<1>10. RowOK'  BY <1>2, <1>8 DEF IInv, RowOK
<1>11. OneCloser'  BY <1>8 DEF IInv, OneCloser
<1> QED BY <1>6, <1>7, <1>9, <1>10, <1>11 DEF IInv

\* repo.save of a handler with one save.
LEMMA SaveStep ==
  ASSUME IInv, NEW p \in Procs, Save(p)
  PROVE  IInv'
<1> DEFINE t == txn[p]
<1>1. /\ TypeOK /\ t \in Handler /\ LocalOK(t) /\ VersionOK(p) /\ ~Closing(p)
      /\ t.step = "save" /\ RowFree(p)
      /\ UNCHANGED <<lock, used, objects, issued>>
  BY DEF IInv, TypeOK, Save, Closing, Step
<1>2. /\ db \in Order /\ version \in Nat /\ txn \in [Procs -> Handler] /\ t.ver \in Nat
      /\ Merged(t) \in Order /\ Idle \in Handler
  BY <1>1, MergedType, IdleType DEF TypeOK, Handler
<1>3. lock # p  BY <1>1, LockHolder
<1>4. Release(p)  BY <1>1, <1>3 DEF Release
<1>5. ~RowChanged(t) => Merged(t).status = db.status  BY DEF Merged
<1>6. RowChanged(t) => Merged(t).status = t.order.status  BY DEF Merged
<1>7. CASE \/ Conflict(t)
           \/ t.name = "Open" /\ db.status # "NONE"
  <2>1. GiveUp(p) /\ UNCHANGED <<db, version>>  BY <1>7 DEF Save
  <2>2. TypeOK'  BY <1>1, <1>2, <2>1 DEF TypeOK, GiveUp
  <2> QED BY <1>4, <2>1, <2>2, FinishStep
<1>8. CASE ~Conflict(t) /\ t.name = "RemovePhoto"
  <2> DEFINE h == [t EXCEPT !.step = "delete"]
  <2>1. /\ txn' = [txn EXCEPT ![p] = h]
        /\ db' \in {db, Merged(t)}
        /\ UNCHANGED version
    BY <1>2, <1>8 DEF Save
  <2>2. h \in Handler  BY <1>1 DEF Handler, Steps
  <2>3. TypeOK'  BY <1>1, <1>2, <2>1, <2>2 DEF TypeOK
  <2>4. ~RowChanged(t)  BY <1>1, <1>8 DEF LocalOK, RowChanged
  <2>5. db'.status = db.status  BY <1>5, <2>1, <2>4
  <2>6. /\ LocalOK(h) /\ h.base = t.base /\ h.ver = t.ver /\ h.step = "delete"
    BY <1>1, <1>8 DEF LocalOK, ClosingSteps, Handler
  <2> QED BY <1>1, <2>1, <2>2, <2>3, <2>5, <2>6, QuietStep DEF Closing, ClosingSteps, Step
<1>9. CASE /\ ~Conflict(t) /\ t.name # "RemovePhoto"
           /\ ~(t.name = "Open" /\ db.status # "NONE")
  <2>1. /\ db' = Merged(t)
        /\ version' = IF RowChanged(t) /\ t.name # "Open" THEN version + 1 ELSE version
        /\ GiveUp(p)
    BY <1>9 DEF Save
  <2>2. TypeOK'  BY <1>1, <1>2, <2>1 DEF TypeOK, GiveUp
  <2>3. CASE ~RowChanged(t)
    BY <1>4, <1>5, <2>1, <2>2, <2>3, FinishStep
  <2>4. CASE RowChanged(t) /\ t.name = "Open"
    BY <1>4, <1>9, <2>1, <2>2, <2>4, FinishStep
  <2>5. CASE RowChanged(t) /\ t.name # "Open"
    <3>1. /\ t.ver = version
          /\ t.base.status # "NONE" /\ SaveMove(t.base.status, t.order.status)
          /\ t.base.status # t.order.status
      BY <1>1, <1>9, <2>5 DEF Conflict, LocalOK, RowChanged
    <3>2. t.base.status = db.status
      BY <1>1, <1>2, <3>1 DEF VersionOK
    <3>3. version' > version  BY <1>2, <2>1, <2>5
    <3>4. ASSUME NEW q \in Procs \ {p}, Closing(q)
          PROVE  Scope = "save" /\ db'.status \in {"CLOSING", "CANCELLED"}
      <4>1. VersionOK(q)  BY <3>4 DEF IInv, Closing, Step
      <4>2. lock \in {NoProc, p}  BY <1>1, <2>5 DEF RowFree
      <4>3. Scope = "save"
        BY <3>4, <4>1, <4>2, HandlerAssumption DEF VersionOK
      <4>4. db.status \in {"CLOSING", "CANCELLED"}  BY <3>4, <4>3 DEF IInv, RowOK
      <4>5. t.order.status = "CANCELLED"  BY <3>1, <3>2, <4>4 DEF SaveMove
      <4> QED BY <1>6, <2>1, <2>5, <4>3, <4>5
    <3> QED BY <1>4, <2>1, <2>2, <3>3, <3>4, FinishStep
  <2> QED BY <2>3, <2>4, <2>5
<1> QED BY <1>7, <1>8, <1>9

\* The first save of a close: committed in the scope of a save, under the row
\* lock in the scope of a request.
LEMMA StartStep ==
  ASSUME IInv, NEW p \in Procs, StartClosing(p)
  PROVE  IInv'
<1> DEFINE t == txn[p]
<1>1. /\ TypeOK /\ t \in Handler /\ LocalOK(t) /\ VersionOK(p) /\ ~Closing(p)
      /\ t.step = "start" /\ RowFree(p)
      /\ UNCHANGED <<used, objects, issued>>
  BY DEF IInv, TypeOK, StartClosing, Closing, Step
<1>2. /\ db \in Order /\ version \in Nat /\ txn \in [Procs -> Handler] /\ t.ver \in Nat
      /\ Merged(t) \in Order /\ Idle \in Handler /\ lock \in Procs \cup {NoProc}
      /\ t.order \in Order
  BY <1>1, MergedType, IdleType DEF TypeOK, Handler
<1>3. lock # p  BY <1>1, LockHolder
<1>4. /\ RowChanged(t) /\ Merged(t).status = "CLOSING"
      /\ t.base.status \in {"IN_PROGRESS", "AWAITING_REVIEW"}
      /\ t.order.status = "CLOSING"
  BY <1>1 DEF RowChanged, LocalOK, Merged, ClosingSteps
<1>5. lock = NoProc  BY <1>1, <1>3, <1>4 DEF RowFree
<1>6. CASE Conflict(t)
  <2>1. GiveUp(p) /\ UNCHANGED <<db, version, lock>>  BY <1>6 DEF StartClosing
  <2>2. TypeOK'  BY <1>1, <1>2, <2>1 DEF TypeOK, GiveUp
  <2>3. Release(p)  BY <1>3, <2>1 DEF Release
  <2> QED BY <2>1, <2>2, <2>3, FinishStep
<1>7. CASE ~Conflict(t)
  <2> DEFINE h == [t EXCEPT !.step = "preflight", !.ver = t.ver + 1,
                            !.base = IF Scope = "save" THEN t.order ELSE t.base]
  <2>1. txn' = [txn EXCEPT ![p] = h]  BY <1>2, <1>7 DEF StartClosing
  <2>2. /\ t.ver = version /\ t.base.status = db.status
    BY <1>1, <1>4, <1>7 DEF Conflict, VersionOK
  <2>3. h \in Handler
    <3>1. t.ver + 1 \in Nat /\ (IF Scope = "save" THEN t.order ELSE t.base) \in Order
      BY <1>1, <1>2 DEF Handler
    <3> QED BY <1>1, <3>1 DEF Handler, Steps
  <2>4. /\ h.step = "preflight" /\ h.ver = version + 1
        /\ h.base = (IF Scope = "save" THEN t.order ELSE t.base)
        /\ h.order = t.order /\ h.todo = t.todo /\ h.name = t.name
    BY <1>1, <2>2 DEF Handler
  <2> HIDE DEF h
  <2>5. LocalOK(h)
    BY <1>1, <1>4, <2>4 DEF LocalOK, ClosingSteps, LinesOf
  <2>6. txn'[p] = h /\ \A q \in Procs \ {p} : txn'[q] = txn[q]
    BY <1>2, <2>1
  <2>7. \A q \in Procs : LocalOK(txn[q])'
    BY <2>5, <2>6 DEF IInv, LocalOK
  <2>8. \A q \in Procs \ {p} : (Closing(q)' <=> Closing(q)) /\ (Step(q)' = Step(q))
    BY <2>6 DEF Closing, Step
  <2>9. Closing(p)'  BY <2>4, <2>6 DEF Closing, Step
  <2>10. \A q \in Procs : ~Closing(q)
    <3>1. ASSUME NEW q \in Procs, Closing(q)
          PROVE  FALSE
      <4>1. Step(q) # "idle"  BY <3>1 DEF Closing
      <4>2. VersionOK(q)  BY <4>1 DEF IInv
      <4>3. Scope # "request"
        BY <1>5, <3>1, <4>2, HandlerAssumption DEF VersionOK
      <4>4. Scope = "save"  BY <4>3, HandlerAssumption
      <4>5. db.status \in {"CLOSING", "CANCELLED"}  BY <3>1, <4>4 DEF IInv, RowOK
      <4> QED BY <1>4, <2>2, <4>5
    <3> QED BY <3>1
  <2>11. OneCloser'  BY <2>8, <2>9, <2>10 DEF OneCloser
  <2>12. CASE Scope = "save"
    <3>1. db' = Merged(t) /\ version' = version + 1 /\ UNCHANGED lock
      BY <1>7, <2>12 DEF StartClosing
    <3>2. TypeOK'  BY <1>1, <1>2, <2>1, <2>3, <3>1 DEF TypeOK
    <3>3. RowOK'  BY <1>4, <1>5, <3>1 DEF RowOK
    <3>4. ASSUME NEW q \in Procs, Step(q)' # "idle"
          PROVE  VersionOK(q)'
      <4>1. CASE q = p
        BY <1>2, <1>4, <2>2, <2>4, <2>6, <2>12, <3>1, <4>1 DEF VersionOK
      <4>2. CASE q # p
        <5>1. txn[q].ver \in Nat  BY <1>2 DEF Handler
        <5>2. txn[q].ver <= version
          BY <2>8, <2>10, <3>4, <4>2 DEF IInv, VersionOK
        <5> QED BY <1>2, <2>6, <2>12, <3>1, <4>2, <5>1, <5>2 DEF VersionOK
      <4> QED BY <4>1, <4>2
    <3> QED BY <2>7, <2>11, <3>2, <3>3, <3>4 DEF IInv
  <2>13. CASE Scope = "request"
    <3>1. lock' = p /\ UNCHANGED <<db, version>>
      BY <1>7, <2>13 DEF StartClosing
    <3>2. TypeOK'  BY <1>1, <1>2, <2>1, <2>3, <3>1 DEF TypeOK
    <3>3. RowOK'  BY <2>9, <2>13, <3>1 DEF RowOK
    <3>4. ASSUME NEW q \in Procs, Step(q)' # "idle"
          PROVE  VersionOK(q)'
      <4>1. CASE q = p
        BY <2>2, <2>4, <2>6, <2>9, <2>13, <3>1, <4>1 DEF VersionOK
      <4>2. CASE q # p
        BY <2>6, <2>8, <2>10, <3>1, <3>4, <4>2 DEF IInv, VersionOK
      <4> QED BY <4>1, <4>2
    <3> QED BY <2>7, <2>11, <3>2, <3>3, <3>4 DEF IInv
  <2> QED BY <2>12, <2>13, HandlerAssumption
<1> QED BY <1>6, <1>7

\* The other steps of the handlers with one save, and of removing a photo.
LEMMA PhotoAndStockStep ==
  ASSUME IInv, NEW p \in Procs,
         Upload(p) \/ GiveBack(p) \/ DeleteObject(p) \/ CommitRemoval(p)
  PROVE  IInv'
<1> DEFINE t == txn[p]
<1>1. /\ TypeOK /\ t \in Handler /\ LocalOK(t) /\ Step(p) = t.step
      /\ db \in Order /\ version \in Nat /\ txn \in [Procs -> Handler]
      /\ t.base \in Order /\ t.photo \in SUBSET Photos /\ t.todo \in SUBSET Lines
      /\ Idle \in Handler
  BY IdleType DEF IInv, TypeOK, Step, Handler
<1>2. CASE Upload(p)
  <2>1. t.step = "upload" /\ UNCHANGED <<db, version, lock, used, issued>>
    BY <1>2 DEF Upload
  <2>2. objects' \subseteq Photos  BY <1>1, <1>2 DEF Upload, TypeOK
  <2>3. PICK f \in t.photo :
          IF (IF t.before THEN CanAddBefore(t.base) ELSE CanAddAfter(t.base))
            THEN txn' = [txn EXCEPT ![p].step = "save",
                                    ![p].order = IF t.before THEN AddBefore(t.base, f)
                                                             ELSE AddAfter(t.base, f)]
            ELSE GiveUp(p)
    BY <1>2 DEF Upload
  <2>4. CASE GiveUp(p)
    <3>1. txn' = [txn EXCEPT ![p] = Idle]  BY <2>4 DEF GiveUp
    <3>2. TypeOK'  BY <1>1, <2>1, <2>2, <3>1 DEF TypeOK
    <3>3. LocalOK(Idle)  BY DEF LocalOK, Idle, ClosingSteps
    <3>4. Idle.step = "idle" /\ ~Closing(p)
      BY <1>1, <2>1 DEF Idle, Closing
    <3> QED BY <1>1, <2>1, <3>1, <3>2, <3>3, <3>4, QuietStep DEF ClosingSteps
  <2>5. CASE /\ IF t.before THEN CanAddBefore(t.base) ELSE CanAddAfter(t.base)
             /\ txn' = [txn EXCEPT ![p].step = "save",
                                   ![p].order = IF t.before THEN AddBefore(t.base, f)
                                                            ELSE AddAfter(t.base, f)]
    <3> DEFINE o == IF t.before THEN AddBefore(t.base, f) ELSE AddAfter(t.base, f)
               h == [t EXCEPT !.step = "save", !.order = o]
    <3>1. txn' = [txn EXCEPT ![p] = h]  BY <1>1, <2>5
    <3>2. Editable(t.base)  BY <2>5 DEF CanAddBefore, CanAddAfter
    <3>3. o \in Order
      <4>1. f \in Photos  BY <1>1
      <4> QED BY <1>1, <4>1, PhotoEdits
    <3>4. SaveMove(t.base.status, o.status)
      BY <1>1, <3>2 DEF SaveMove, AddBefore, AddAfter, Started, Editable, Order
    <3> HIDE DEF o
    <3>5. h \in Handler  BY <1>1, <3>3 DEF Handler, Steps
    <3>6. /\ h.step = "save" /\ h.order = o /\ h.base = t.base /\ h.ver = t.ver
          /\ h.name = t.name
      BY <1>1 DEF Handler
    <3> HIDE DEF h
    <3>7. LocalOK(h)
      BY <1>1, <2>1, <3>2, <3>4, <3>6 DEF LocalOK, ClosingSteps, Editable
    <3>8. TypeOK'  BY <1>1, <2>1, <2>2, <3>1, <3>5 DEF TypeOK
    <3> QED BY <1>1, <2>1, <3>1, <3>5, <3>6, <3>7, <3>8, QuietStep
            DEF ClosingSteps, Closing
  <2> QED BY <2>3, <2>4, <2>5
<1>3. CASE GiveBack(p)
  <2>1. t.step = "save" /\ UNCHANGED <<db, version, lock, used, objects>>
    BY <1>1, <1>3 DEF GiveBack
  <2>2. PICK l \in t.todo : /\ issued' = [issued EXCEPT ![l] = 0]
                            /\ txn' = [txn EXCEPT ![p].todo = @ \ {l}]
    BY <1>3 DEF GiveBack
  <2> DEFINE h == [t EXCEPT !.todo = @ \ {l}]
  <2>3. txn' = [txn EXCEPT ![p] = h]  BY <1>1, <2>2
  <2>4. h \in Handler  BY <1>1 DEF Handler
  <2>5. /\ h.step = "save" /\ h.order = t.order /\ h.base = t.base /\ h.ver = t.ver
        /\ h.name = t.name
    BY <1>1, <2>1 DEF Handler
  <2> HIDE DEF h
  <2>6. LocalOK(h)  BY <1>1, <2>1, <2>5 DEF LocalOK, ClosingSteps
  <2>7. TypeOK'  BY <1>1, <2>1, <2>2, <2>3, <2>4 DEF TypeOK
  <2> QED BY <1>1, <2>1, <2>3, <2>4, <2>5, <2>6, <2>7, QuietStep DEF ClosingSteps, Closing
<1>4. CASE DeleteObject(p)
  <2>1. t.step = "delete" /\ UNCHANGED <<db, version, lock, used, issued>>
    BY <1>1, <1>4 DEF DeleteObject
  <2>2. objects' \subseteq Photos  BY <1>1, <1>4 DEF DeleteObject, TypeOK
  <2>3. CASE GiveUp(p)
    <3>1. txn' = [txn EXCEPT ![p] = Idle]  BY <2>3 DEF GiveUp
    <3>2. TypeOK'  BY <1>1, <2>1, <2>2, <3>1 DEF TypeOK
    <3>3. LocalOK(Idle)  BY DEF LocalOK, Idle, ClosingSteps
    <3>4. Idle.step = "idle" /\ ~Closing(p)
      BY <1>1, <2>1 DEF Idle, Closing
    <3> QED BY <1>1, <2>1, <3>1, <3>2, <3>3, <3>4, QuietStep DEF ClosingSteps
  <2>4. CASE txn' = [txn EXCEPT ![p].step = "commit"]
    <3> DEFINE h == [t EXCEPT !.step = "commit"]
    <3>1. txn' = [txn EXCEPT ![p] = h]  BY <1>1, <2>4
    <3>2. h \in Handler  BY <1>1 DEF Handler, Steps
    <3>3. /\ h.step = "commit" /\ h.order = t.order /\ h.base = t.base /\ h.ver = t.ver
          /\ h.name = t.name
      BY <1>1 DEF Handler
    <3> HIDE DEF h
    <3>4. LocalOK(h)  BY <1>1, <2>1, <3>3 DEF LocalOK, ClosingSteps
    <3>5. TypeOK'  BY <1>1, <2>1, <2>2, <3>1, <3>2 DEF TypeOK
    <3> QED BY <1>1, <2>1, <3>1, <3>2, <3>3, <3>4, <3>5, QuietStep DEF ClosingSteps, Closing
  <2> QED BY <1>4, <2>3, <2>4 DEF DeleteObject
<1>5. CASE CommitRemoval(p)
  <2>1. /\ t.step = "commit" /\ db' = Merged(t) /\ GiveUp(p)
        /\ UNCHANGED <<version, lock, used, objects, issued>>
    BY <1>1, <1>5 DEF CommitRemoval
  <2>2. Merged(t) \in Order  BY <1>1, MergedType
  <2>3. TypeOK'  BY <1>1, <2>1, <2>2 DEF TypeOK, GiveUp
  <2>4. db'.status = db.status
    BY <1>1, <2>1 DEF LocalOK, Merged, RowChanged
  <2>5. ~Closing(p)  BY <1>1, <2>1 DEF Closing
  <2>6. Release(p)  BY <2>1, <2>5, LockHolder DEF Release
  <2> QED BY <2>1, <2>3, <2>4, <2>6, FinishStep
<1> QED BY <1>2, <1>3, <1>4, <1>5

\* The steps of a close between its two saves.
LEMMA ConsumeStep ==
  ASSUME IInv, NEW p \in Procs,
         Preflight(p) \/ Consume(p) \/ Refuse(p) \/ Undo(p)
  PROVE  IInv'
<1> DEFINE t == txn[p]
<1>1. /\ TypeOK /\ t \in Handler /\ LocalOK(t) /\ Step(p) = t.step
      /\ version \in Nat /\ txn \in [Procs -> Handler]
      /\ t.base \in Order /\ t.todo \in SUBSET Lines /\ t.done \in SUBSET Lines
      /\ issued \in [Lines -> Nat]
  BY DEF IInv, TypeOK, Step, Handler
<1>2. /\ t.step \in ClosingSteps
      /\ UNCHANGED <<db, version, lock, used, objects>>
  BY <1>1 DEF Preflight, Consume, Refuse, Undo, ClosingSteps
<1>3. ASSUME NEW h \in Handler, txn' = [txn EXCEPT ![p] = h],
             issued' \in [Lines -> Nat],
             h.step \in ClosingSteps, h.base = t.base, h.order = t.order,
             h.ver = t.ver, h.name = t.name,
             h.step \in {"preflight", "consume"} =>
               h.todo \subseteq t.todo /\ t.step \in {"preflight", "consume"},
             h.step # "preflight"
      PROVE  IInv'
  <2>1. TypeOK'  BY <1>1, <1>2, <1>3 DEF TypeOK
  <2>2. LocalOK(h)  BY <1>1, <1>2, <1>3 DEF LocalOK, ClosingSteps
  <2>3. Closing(p) /\ Step(p) # "idle"  BY <1>1, <1>2 DEF Closing, ClosingSteps
  <2> QED BY <1>2, <1>3, <2>1, <2>2, <2>3, QuietStep
<1>4. CASE Preflight(p)
  <2>1. PICK n \in {"consume", "undo"} : txn' = [txn EXCEPT ![p].step = n]
    BY <1>4 DEF Preflight
  <2> DEFINE h == [t EXCEPT !.step = n]
  <2>2. txn' = [txn EXCEPT ![p] = h]  BY <1>1, <2>1
  <2>3. h \in Handler  BY <1>1 DEF Handler, Steps
  <2>4. /\ h.step \in ClosingSteps /\ h.step # "preflight" /\ h.base = t.base
        /\ h.order = t.order /\ h.ver = t.ver /\ h.name = t.name /\ h.todo = t.todo
    BY <1>1 DEF Handler, ClosingSteps
  <2>5. t.step = "preflight" /\ UNCHANGED issued  BY <1>1, <1>4 DEF Preflight
  <2> HIDE DEF h
  <2> QED BY <1>1, <1>3, <2>2, <2>3, <2>4, <2>5
<1>5. CASE Consume(p)
  <2>1. t.step = "consume"  BY <1>5 DEF Consume
  <2>2. PICK l \in t.todo :
          /\ issued' = [issued EXCEPT ![l] = @ + t.base.lines[l].qty]
          /\ txn' = [txn EXCEPT ![p].todo = @ \ {l}, ![p].done = @ \cup {l}]
    BY <1>5 DEF Consume
  <2> DEFINE h == [t EXCEPT !.todo = @ \ {l}, !.done = @ \cup {l}]
  <2>3. txn' = [txn EXCEPT ![p] = h]  BY <1>1, <2>2
  <2>4. h \in Handler  BY <1>1 DEF Handler
  <2>5. /\ h.step = "consume" /\ h.base = t.base /\ h.order = t.order
        /\ h.ver = t.ver /\ h.name = t.name /\ h.todo \subseteq t.todo
    BY <1>1, <2>1 DEF Handler
  <2>6. t.base.lines[l].qty \in Nat
    <3>1. l \in LinesOf(t.base)  BY <1>1, <2>1 DEF LocalOK
    <3>2. t.base.lines[l] \in Line  BY <1>1, <3>1 DEF LinesOf, Order
    <3> QED BY <3>2, AggregateAssumption DEF Line, Quantities
  <2>7. issued' \in [Lines -> Nat]
    <3>1. issued[l] + t.base.lines[l].qty \in Nat  BY <1>1, <2>6
    <3> QED BY <1>1, <2>2, <3>1
  <2> HIDE DEF h
  <2> QED BY <1>3, <2>1, <2>3, <2>4, <2>5, <2>7 DEF ClosingSteps
<1>6. CASE Refuse(p)
  <2>1. t.step = "consume" /\ UNCHANGED issued /\ txn' = [txn EXCEPT ![p].step = "undo"]
    BY <1>1, <1>6 DEF Refuse
  <2> DEFINE h == [t EXCEPT !.step = "undo"]
  <2>2. txn' = [txn EXCEPT ![p] = h]  BY <1>1, <2>1
  <2>3. h \in Handler  BY <1>1 DEF Handler, Steps
  <2>4. /\ h.step = "undo" /\ h.base = t.base /\ h.order = t.order
        /\ h.ver = t.ver /\ h.name = t.name
    BY <1>1 DEF Handler
  <2> HIDE DEF h
  <2> QED BY <1>1, <1>3, <2>1, <2>2, <2>3, <2>4 DEF ClosingSteps
<1>7. CASE Undo(p)
  <2>1. t.step = "undo"  BY <1>1, <1>7 DEF Undo
  <2>2. PICK l \in t.done : /\ issued' = [issued EXCEPT ![l] = 0]
                            /\ txn' = [txn EXCEPT ![p].done = @ \ {l}]
    BY <1>7 DEF Undo
  <2> DEFINE h == [t EXCEPT !.done = @ \ {l}]
  <2>3. txn' = [txn EXCEPT ![p] = h]  BY <1>1, <2>2
  <2>4. h \in Handler  BY <1>1 DEF Handler
  <2>5. /\ h.step = "undo" /\ h.base = t.base /\ h.order = t.order
        /\ h.ver = t.ver /\ h.name = t.name
    BY <1>1, <2>1 DEF Handler
  <2>6. issued' \in [Lines -> Nat]  BY <1>1, <2>2
  <2> HIDE DEF h
  <2> QED BY <1>3, <2>3, <2>4, <2>5, <2>6 DEF ClosingSteps
<1> QED BY <1>4, <1>5, <1>6, <1>7

\* The last save of a close, its revert, and a handler cut short.
LEMMA LastStep ==
  ASSUME IInv, NEW p \in Procs,
         RevertClosing(p) \/ FinalizeClose(p) \/ Abort(p)
  PROVE  IInv'
<1>1. /\ TypeOK /\ LocalOK(txn[p]) /\ txn[p] \in Handler
      /\ db \in Order /\ version \in Nat /\ txn[p].ver \in Nat
      /\ txn \in [Procs -> Handler] /\ Idle \in Handler
      /\ lock \in Procs \cup {NoProc}
  BY IdleType DEF IInv, TypeOK, Handler
<1>2. GiveUp(p) /\ Release(p) /\ UNCHANGED <<used, objects, issued>>
  BY DEF RevertClosing, FinalizeClose, Abort
<1>3. ASSUME db' \in Order, version' \in Nat
      PROVE  TypeOK'
  BY <1>1, <1>2, <1>3 DEF TypeOK, GiveUp, Release
<1>4. CASE UNCHANGED <<db, version>>
  BY <1>1, <1>2, <1>3, <1>4, FinishStep
<1>5. ASSUME Closing(p), NEW t \in Handler, t.base = txn[p].base, t.ver = txn[p].ver,
             db' = Merged(t), version' = t.ver + 1,
             Scope = "save" => t.ver = version
      PROVE  IInv'
  <2>1. Merged(t) \in Order  BY <1>1, MergedType
  <2>2. TypeOK'  BY <1>1, <1>3, <1>5, <2>1
  <2>3. VersionOK(p)  BY <1>5 DEF IInv, Closing
  <2>4. version' > version
    <3>1. CASE Scope = "save"  BY <1>1, <1>5, <3>1
    <3>2. CASE Scope = "request"  BY <1>1, <1>5, <2>3, <3>2 DEF VersionOK
    <3> QED BY <3>1, <3>2, HandlerAssumption
  <2>5. \A q \in Procs \ {p} : ~Closing(q)  BY <1>5 DEF IInv, OneCloser
  <2> QED BY <1>2, <2>2, <2>4, <2>5, FinishStep
<1>6. CASE RevertClosing(p) /\ ~(UNCHANGED <<db, version>>)
  <2> DEFINE t == [txn[p] EXCEPT !.order.status = "IN_PROGRESS"]
  <2>1. /\ Closing(p) /\ Scope = "save" /\ ~Conflict(t)
        /\ db' = Merged(t) /\ version' = version + 1
    BY <1>1, <1>6 DEF RevertClosing, Closing, Step, Handler
  <2>2. t \in Handler /\ t.base = txn[p].base /\ t.ver = txn[p].ver
        /\ t.order.status = "IN_PROGRESS"
    BY <1>1 DEF Handler, Order, Statuses
  <2>3. t.base.status = "CLOSING"
    BY <1>1, <2>1, <2>2 DEF LocalOK, Closing, Step, ClosingSteps
  <2> HIDE DEF t
  <2>4. t.ver = version  BY <2>1, <2>2, <2>3 DEF Conflict, RowChanged
  <2> QED BY <1>5, <2>1, <2>2, <2>4
<1>7. CASE FinalizeClose(p) /\ ~(UNCHANGED <<db, version>>)
  <2> DEFINE t == [txn[p] EXCEPT !.order.status = "CLOSED"]
  <2>1. /\ Closing(p) /\ ~(Scope = "save" /\ Conflict(t))
        /\ db' = Merged(t) /\ version' = t.ver + 1
    BY <1>1, <1>7 DEF FinalizeClose, Closing, Step, Handler
  <2>2. t \in Handler /\ t.base = txn[p].base /\ t.ver = txn[p].ver
        /\ t.order.status = "CLOSED"
    BY <1>1 DEF Handler, Order, Statuses
  <2>3. Scope = "save" => t.base.status = "CLOSING"
    BY <1>1, <2>1, <2>2 DEF LocalOK, Closing, Step, ClosingSteps
  <2> HIDE DEF t
  <2>4. Scope = "save" => t.ver = version
    BY <2>1, <2>2, <2>3 DEF Conflict, RowChanged
  <2> QED BY <1>5, <2>1, <2>2, <2>4
<1>8. CASE Abort(p)
  BY <1>4, <1>8 DEF Abort
<1> QED BY <1>4, <1>6, <1>7, <1>8

(***************************************************************************)
(* The theorems.                                                           *)
(***************************************************************************)
\* The rows a behaviour starts from satisfy the inductive invariant: nobody is
\* handling a command and no committed row is CLOSING.
LEMMA InitInv == Init => IInv
<1> SUFFICES ASSUME Init PROVE IInv
  OBVIOUS
<1>1. db \in Order /\ version \in Nat /\ Idle \in Handler
  BY HandlerAssumption, IdleType DEF Init
<1>2. TypeOK
  BY <1>1, AggregateAssumption DEF Init, TypeOK, LinesOf, Order
<1>3. \A p \in Procs : txn[p] = Idle /\ Step(p) = "idle"
  BY DEF Init, Step, Idle
<1>4. \A p \in Procs : LocalOK(txn[p])
  BY <1>3 DEF LocalOK, Idle, ClosingSteps
<1>5. \A p \in Procs : ~Closing(p)  BY <1>3 DEF Closing
<1> QED BY <1>2, <1>3, <1>4, <1>5 DEF IInv, RowOK, OneCloser, Init

\* Every step of every handler keeps the inductive invariant.
LEMMA NextInv == IInv /\ [Next]_vars => IInv'
<1> SUFFICES ASSUME IInv, [Next]_vars PROVE IInv'
  OBVIOUS
<1>1. CASE UNCHANGED vars
  BY <1>1 DEF vars, IInv, TypeOK, LocalOK, VersionOK, RowOK, OneCloser, Closing, Step
<1>2. ASSUME NEW p \in Procs, Begin(p) \/ Continue(p) \/ Abort(p)
      PROVE  IInv'
  BY <1>2, BeginStep, PhotoAndStockStep, SaveStep, StartStep, ConsumeStep, LastStep
     DEF Continue
<1> QED BY <1>1, <1>2 DEF Next

\* Every reachable state satisfies the inductive invariant: who holds the row
\* lock, which version each handler in a close expects, and that no two handlers
\* are between the two saves of a close.
THEOREM Invariance == Spec => []IInv
BY InitInv, NextInv, PTL DEF Spec

\* Every reachable state is well typed, whatever the constants.
THEOREM TypeCorrect == Spec => []TypeOK
<1>1. IInv => TypeOK  BY DEF IInv
<1> QED BY <1>1, Invariance, PTL

\* At most one close is under way on an order, for any number of requests, with
\* aborts and in both commit scopes.
THEOREM MutualExclusionOfCloses == Spec => []OneCloser
<1>1. IInv => OneCloser  BY DEF IInv
<1> QED BY <1>1, Invariance, PTL

(***************************************************************************)
(* The handlers implement OrderLifecycle.                                  *)
(***************************************************************************)
\* Every step of the handlers is a transition of the lifecycle, or none.
LEMMA StepRefines ==
  IInv /\ [Next]_vars => [Lifecycle!Next]_<<db.status, version>>
<1> SUFFICES ASSUME IInv, [Next]_vars PROVE [Lifecycle!Next]_<<db.status, version>>
  OBVIOUS
<1> USE DEF Lifecycle!Next, Lifecycle!Open, Lifecycle!Move
<1>1. CASE UNCHANGED vars
  BY <1>1 DEF vars
<1>2. ASSUME NEW p \in Procs, Begin(p) \/ Continue(p) \/ Abort(p)
      PROVE  [Lifecycle!Next]_<<db.status, version>>
  <2> DEFINE t == txn[p]
  <2>1. /\ TypeOK /\ LocalOK(t) /\ t \in Handler /\ version \in Nat /\ t.ver \in Nat
        /\ db \in Order /\ t.order \in Order /\ t.base \in Order
    BY DEF IInv, TypeOK, Handler
  <2>2. Step(p) # "idle" => VersionOK(p)  BY DEF IInv
  <2>3. CASE Begin(p)
    BY <2>1, <2>3, BeginFresh
  <2>4. CASE \/ Upload(p) \/ GiveBack(p) \/ DeleteObject(p) \/ Abort(p)
             \/ Preflight(p) \/ Consume(p) \/ Refuse(p) \/ Undo(p)
    BY <2>4 DEF Upload, GiveBack, DeleteObject, Abort, Preflight, Consume, Refuse, Undo
  <2>5. CASE CommitRemoval(p)
    <3>1. t.step = "commit" /\ db' = Merged(t) /\ UNCHANGED version
      BY <2>5 DEF CommitRemoval, Step
    <3> QED BY <2>1, <3>1 DEF LocalOK, Merged, RowChanged
  <2>6. CASE Save(p)
    <3>1. t.step = "save" /\ VersionOK(p) /\ ~Closing(p)
      BY <2>2, <2>6 DEF Save, Closing, Step
    <3>2. CASE UNCHANGED <<db, version>>
      BY <3>2
    <3>3. CASE t.name = "RemovePhoto" /\ db' = Merged(t) /\ UNCHANGED version
      BY <2>1, <3>3 DEF LocalOK, Merged, RowChanged
    <3>4. CASE /\ ~Conflict(t) /\ ~(t.name = "Open" /\ db.status # "NONE")
               /\ db' = Merged(t)
               /\ version' = IF RowChanged(t) /\ t.name # "Open" THEN version + 1 ELSE version
      <4>1. CASE ~RowChanged(t)
        BY <3>4, <4>1 DEF Merged
      <4>2. CASE RowChanged(t) /\ t.name = "Open"
        BY <2>1, <3>1, <3>4, <4>2 DEF Merged, LocalOK
      <4>3. CASE RowChanged(t) /\ t.name # "Open"
        <5>1. /\ t.ver = version /\ t.base.status # "NONE"
              /\ SaveMove(t.base.status, t.order.status)
              /\ t.base.status # t.order.status
          BY <2>1, <3>1, <3>4, <4>3 DEF Conflict, LocalOK, RowChanged
        <5>2. t.base.status = db.status  BY <2>1, <3>1, <5>1 DEF VersionOK
        <5>3. db'.status = t.order.status /\ version' = version + 1
          BY <3>4, <4>3 DEF Merged
        <5>4. /\ t.order.status \in Lifecycle!Moves(db.status)
              /\ t.order.status # "CLOSED"
          BY <5>1, <5>2 DEF SaveMove, Lifecycle!Moves
        <5> QED BY <5>1, <5>2, <5>3, <5>4
      <4> QED BY <4>1, <4>2, <4>3
    <3> QED BY <2>6, <3>2, <3>3, <3>4 DEF Save
  <2>7. CASE StartClosing(p)
    <3>1. CASE UNCHANGED <<db, version>>
      BY <3>1
    <3>2. CASE ~Conflict(t) /\ db' = Merged(t) /\ version' = version + 1
      <4>1. t.step = "start" /\ VersionOK(p) /\ ~Closing(p)
        BY <2>2, <2>7 DEF StartClosing, Closing, Step
      <4>2. /\ t.order.status = "CLOSING" /\ RowChanged(t)
            /\ t.base.status \in {"IN_PROGRESS", "AWAITING_REVIEW"}
        BY <2>1, <4>1 DEF LocalOK, ClosingSteps, RowChanged
      <4>3. t.base.status = db.status
        BY <2>1, <3>2, <4>1, <4>2 DEF Conflict, VersionOK
      <4>4. db'.status = "CLOSING"  BY <3>2, <4>2 DEF Merged
      <4> QED BY <3>2, <4>2, <4>3, <4>4 DEF Lifecycle!Moves
    <3> QED BY <2>7, <3>1, <3>2 DEF StartClosing
  <2>8. CASE RevertClosing(p)
    <3> DEFINE r == [t EXCEPT !.order.status = "IN_PROGRESS"]
    <3>1. CASE UNCHANGED <<db, version>>
      BY <3>1
    <3>2. CASE Scope = "save" /\ ~Conflict(r) /\ db' = Merged(r) /\ version' = version + 1
      <4>1. Step(p) = "undo"  BY <2>1, <2>8 DEF RevertClosing, Step, Handler
      <4>2. VersionOK(p) /\ t.base.status = "CLOSING"
        BY <2>1, <2>2, <3>2, <4>1 DEF LocalOK, ClosingSteps, Step
      <4>3. r.base = t.base /\ r.ver = t.ver /\ r.order.status = "IN_PROGRESS"
        BY <2>1 DEF Handler, Order
      <4> HIDE DEF r
      <4>4. RowChanged(r) /\ t.ver = version  BY <3>2, <4>2, <4>3 DEF Conflict, RowChanged
      <4>5. db.status = "CLOSING"  BY <3>2, <4>2, <4>4, HandlerAssumption DEF VersionOK
      <4>6. db'.status = "IN_PROGRESS"  BY <3>2, <4>3, <4>4 DEF Merged
      <4> QED BY <3>2, <4>5, <4>6 DEF Lifecycle!Moves
    <3> QED BY <2>8, <3>1, <3>2 DEF RevertClosing
  <2>9. CASE FinalizeClose(p)
    <3> DEFINE r == [t EXCEPT !.order.status = "CLOSED"]
    <3>1. CASE UNCHANGED <<db, version>>
      BY <3>1
    <3>2. CASE /\ ~(Scope = "save" /\ Conflict(r))
               /\ db' = Merged(r) /\ version' = r.ver + 1
      <4>1. Step(p) = "consume"  BY <2>1, <2>9 DEF FinalizeClose, Step, Handler
      <4>2. /\ VersionOK(p) /\ Closing(p)
            /\ IF Scope = "save" THEN t.base.status = "CLOSING"
                 ELSE t.base.status \in {"IN_PROGRESS", "AWAITING_REVIEW"}
        BY <2>1, <2>2, <4>1 DEF LocalOK, ClosingSteps, Step, Closing
      <4>3. r.base = t.base /\ r.ver = t.ver /\ r.order.status = "CLOSED"
        BY <2>1 DEF Handler, Order
      <4> HIDE DEF r
      <4>4. RowChanged(r)  BY <4>2, <4>3 DEF RowChanged
      <4>5. db'.status = "CLOSED"  BY <3>2, <4>3, <4>4 DEF Merged
      <4>6. CASE Scope = "save"
        <5>1. t.ver = version  BY <3>2, <4>3, <4>4, <4>6 DEF Conflict
        <5>2. db.status = "CLOSING"  BY <4>2, <4>6, <5>1 DEF VersionOK
        <5> QED BY <3>2, <4>3, <4>5, <5>1, <5>2 DEF Lifecycle!Moves
      <4>7. CASE Scope = "request"
        <5>1. t.ver = version + 1 /\ db.status \in {"IN_PROGRESS", "AWAITING_REVIEW"}
          BY <4>2, <4>7 DEF VersionOK
        <5>2. version' = version + 2  BY <2>1, <3>2, <4>3, <5>1
        <5> QED BY <4>5, <5>1, <5>2 DEF Lifecycle!Moves
      <4> QED BY <4>6, <4>7, HandlerAssumption
    <3> QED BY <2>9, <3>1, <3>2 DEF FinalizeClose
  <2> QED BY <1>2, <2>3, <2>4, <2>5, <2>6, <2>7, <2>8, <2>9 DEF Continue
<1> QED BY <1>1, <1>2 DEF Next

\* The handlers implement the promised lifecycle: whatever requests overlap and
\* wherever they are cut short, the committed status moves along the documented
\* transitions only and never without a new version.
THEOREM Refinement == Spec => LifecycleSpec
<1>1. Init => Lifecycle!Init
  BY DEF Init, Lifecycle!Init
<1> QED BY <1>1, StepRefines, Invariance, PTL DEF Spec, LifecycleSpec, Lifecycle!Spec

(***************************************************************************)
(* Photos and their files.                                                 *)
(***************************************************************************)
PhotosOf(o) == o.before \cup o.after

\* Nobody else knows the photo an upload is for: its id is new to the row and to
\* the other handlers; its file is there before the row is written.
UploadOK(p) ==
  /\ Step(p) \in {"upload", "save"}
  /\ txn[p].photo \cap PhotosOf(db) = {}
  /\ \A q \in Procs \ {p} : Step(q) # "idle" => txn[q].photo \cap txn[p].photo = {}
  /\ Step(p) = "save" => /\ txn[p].photo \subseteq objects
                         /\ txn[p].order.before \subseteq txn[p].base.before \cup txn[p].photo
                         /\ txn[p].order.after \subseteq txn[p].base.after \cup txn[p].photo

\* A removal knows the album its photo is in, as long as it is in one.
RemovalOK(p) ==
  /\ Step(p) \in {"save", "delete", "commit"}
  /\ txn[p].photo \cap PhotosOf(txn[p].order) = {}
  /\ txn[p].photo \cap db.before \subseteq txn[p].base.before
  /\ txn[p].photo \cap db.after \subseteq txn[p].base.after
  /\ Step(p) = "delete" /\ Scope = "save" => txn[p].photo \cap PhotosOf(db) = {}
  /\ Step(p) = "commit" => Scope = "request"

\* No other handler adds a photo.
AddsNone(t) == t.order.before \subseteq t.base.before /\ t.order.after \subseteq t.base.after

PhotosOK(p) ==
  /\ txn[p].photo \subseteq used
  /\ txn[p].name = "AddPhoto" => UploadOK(p)
  /\ txn[p].name = "RemovePhoto" => RemovalOK(p)
  /\ txn[p].name # "AddPhoto" => AddsNone(txn[p])

PhotoInv ==
  /\ PhotosOf(db) \subseteq used
  /\ \A p \in Procs : Step(p) # "idle" => PhotosOK(p)
  /\ PhotoHasObject

\* What a handler that adds no photo commits has no photo the row did not have.
LEMMA MergeAddsNone ==
  ASSUME NEW t, AddsNone(t)
  PROVE  Merged(t).before \subseteq db.before /\ Merged(t).after \subseteq db.after
BY DEF AddsNone, Merged, MergedSet

\* A step of p leaves alone what the other handlers know of their photos, if the
\* photos it puts into the row, takes from the storage or takes up are not theirs.
LEMMA OthersPhotos ==
  ASSUME IInv, PhotoInv, NEW p \in Procs, NEW h \in Handler,
         txn' = [txn EXCEPT ![p] = h], used \subseteq used',
         NEW new, NEW gone,
         db'.before \subseteq db.before \cup new, db'.after \subseteq db.after \cup new,
         objects \subseteq objects' \cup gone,
         \A q \in Procs \ {p} : Step(q) # "idle" =>
            /\ txn[q].photo \cap new = {}
            /\ txn[q].name = "AddPhoto" => /\ txn[q].photo \cap gone = {}
                                           /\ h.step # "idle" => txn[q].photo \cap h.photo = {}
  PROVE  \A q \in Procs \ {p} : Step(q)' # "idle" => PhotosOK(q)'
<1>1. txn \in [Procs -> Handler]  BY DEF IInv, TypeOK
<1>2. txn'[p] = h /\ \A q \in Procs \ {p} : txn'[q] = txn[q]  BY <1>1
<1>3. SUFFICES ASSUME NEW q \in Procs \ {p}, Step(q) # "idle"
               PROVE  PhotosOK(q)'
  BY <1>2 DEF Step
<1>4. PhotosOK(q) /\ txn'[q] = txn[q] /\ Step(q)' = Step(q)
  BY <1>2, <1>3 DEF PhotoInv, Step
<1>5. txn'[q].photo \subseteq used'  BY <1>4 DEF PhotosOK
<1>6. CASE txn[q].name = "AddPhoto"
  <2>1. UploadOK(q)  BY <1>4, <1>6 DEF PhotosOK
  <2>2. UploadOK(q)'
    <3>1. \A r \in Procs \ {q} : Step(r)' # "idle" => txn'[r].photo \cap txn'[q].photo = {}
      BY <1>2, <1>3, <1>4, <1>6, <2>1 DEF UploadOK, Step
    <3>2. txn'[q].photo \cap PhotosOf(db)' = {}
      BY <1>3, <1>4, <2>1 DEF UploadOK, PhotosOf
    <3>3. txn[q].photo \cap gone = {}  BY <1>3, <1>6
    <3> QED BY <1>4, <2>1, <3>1, <3>2, <3>3 DEF UploadOK
  <2> QED BY <1>4, <1>5, <1>6, <2>2 DEF PhotosOK
<1>7. CASE txn[q].name = "RemovePhoto"
  <2>1. RemovalOK(q) /\ AddsNone(txn[q])  BY <1>4, <1>7 DEF PhotosOK
  <2>2. /\ txn[q].photo \cap db'.before \subseteq db.before
        /\ txn[q].photo \cap db'.after \subseteq db.after
    BY <1>3
  <2>3. RemovalOK(q)'  BY <1>4, <2>1, <2>2 DEF RemovalOK, PhotosOf
  <2> QED BY <1>4, <1>5, <1>7, <2>1, <2>3 DEF PhotosOK
<1>8. CASE txn[q].name \notin {"AddPhoto", "RemovePhoto"}
  BY <1>4, <1>5, <1>8 DEF PhotosOK
<1> QED BY <1>6, <1>7, <1>8

\* A step after which p is done, or has the photos it had, and after which the
\* row has no new photo and the storage has lost none.
LEMMA PhotoStay ==
  ASSUME IInv, PhotoInv, NEW p \in Procs, NEW h \in Handler, Step(p) # "idle",
         txn' = [txn EXCEPT ![p] = h], used' = used, objects \subseteq objects',
         db'.before \subseteq db.before, db'.after \subseteq db.after,
         Step(p) # "commit",
         \/ h.step = "idle"
         \/ /\ h.name = txn[p].name /\ h.photo = txn[p].photo /\ h.order = txn[p].order
            /\ h.base = txn[p].base \/ h.base = txn[p].order
            /\ h.name \in {"AddPhoto", "RemovePhoto"}
                 => h.base = txn[p].base /\ h.step = txn[p].step
  PROVE  PhotoInv'
<1>1. txn \in [Procs -> Handler]  BY DEF IInv, TypeOK
<1>2. txn'[p] = h /\ \A q \in Procs \ {p} : txn'[q] = txn[q]  BY <1>1
<1>3. \A q \in Procs \ {p} : Step(q)' # "idle" => PhotosOK(q)'
  <2>1. ASSUME NEW q \in Procs \ {p}, Step(q) # "idle", txn[q].name = "AddPhoto", h.step # "idle"
        PROVE  txn[q].photo \cap h.photo = {}
    BY <2>1 DEF PhotoInv, PhotosOK, UploadOK
  <2>2. \A q \in Procs \ {p} : Step(q) # "idle" =>
          /\ txn[q].photo \cap {} = {}
          /\ txn[q].name = "AddPhoto" => /\ txn[q].photo \cap {} = {}
                                         /\ h.step # "idle" => txn[q].photo \cap h.photo = {}
    BY <2>1
  <2>3. /\ db'.before \subseteq db.before \cup {} /\ db'.after \subseteq db.after \cup {}
        /\ objects \subseteq objects' \cup {} /\ used \subseteq used'
    OBVIOUS
  <2> QED BY <2>2, <2>3, OthersPhotos
<1>4. ASSUME h.step # "idle" PROVE PhotosOK(p)'
  <2>1. PhotosOK(p)  BY DEF PhotoInv
  <2>2. txn'[p].photo \subseteq used'  BY <1>2, <1>4, <2>1 DEF PhotosOK
  <2>3. CASE txn[p].name = "AddPhoto"
    <3>1. UploadOK(p)  BY <2>1, <2>3 DEF PhotosOK
    <3>2. UploadOK(p)'  BY <1>2, <1>4, <2>3, <3>1 DEF UploadOK, Step, PhotosOf
    <3> QED BY <1>2, <1>4, <2>2, <2>3, <3>2 DEF PhotosOK
  <2>4. CASE txn[p].name = "RemovePhoto"
    <3>1. RemovalOK(p) /\ AddsNone(txn[p])  BY <2>1, <2>4 DEF PhotosOK
    <3>2. RemovalOK(p)'  BY <1>2, <1>4, <2>4, <3>1 DEF RemovalOK, Step, PhotosOf
    <3> QED BY <1>2, <1>4, <2>2, <2>4, <3>1, <3>2 DEF PhotosOK, AddsNone
  <2>5. CASE txn[p].name \notin {"AddPhoto", "RemovePhoto"}
    BY <1>2, <1>4, <2>1, <2>2, <2>5 DEF PhotosOK, AddsNone
  <2> QED BY <2>3, <2>4, <2>5
<1>5. PhotosOf(db)' \subseteq used'  BY DEF PhotoInv, PhotosOf
<1>6. PhotoHasObject'
  <2>1. ASSUME NEW f \in PhotosOf(db)' \ objects'
        PROVE  \E q \in Procs : Step(q)' = "commit" /\ f \in txn'[q].photo
    <3>1. f \in PhotosOf(db) \ objects  BY <2>1 DEF PhotosOf
    <3>2. PICK q \in Procs : Step(q) = "commit" /\ f \in txn[q].photo
      BY <3>1 DEF PhotoInv, PhotoHasObject, PhotosOf
    <3> QED BY <1>2, <3>2 DEF Step
  <2> QED BY <2>1 DEF PhotoHasObject, PhotosOf
<1> QED BY <1>2, <1>3, <1>4, <1>5, <1>6 DEF PhotoInv, Step

\* What a handler that has just loaded the row knows of its photos.
LEMMA BeginPhotos ==
  ASSUME TypeOK, NEW p \in Procs, Begin(p)
  PROVE  /\ txn'[p].base = db
         /\ used \subseteq used'
         /\ \/ /\ txn'[p].name \notin {"AddPhoto", "RemovePhoto"}
               /\ txn'[p].photo = {} /\ AddsNone(txn'[p])
            \/ /\ txn'[p].name = "RemovePhoto" /\ txn'[p].step = "save"
               /\ txn'[p].photo \subseteq PhotosOf(db)
               /\ txn'[p].photo \cap PhotosOf(txn'[p].order) = {}
               /\ AddsNone(txn'[p])
            \/ /\ txn'[p].name = "AddPhoto" /\ txn'[p].step = "upload"
               /\ txn'[p].photo \cap used = {} /\ txn'[p].photo \subseteq used'
               /\ AddsNone(txn'[p])
<1>1. ASSUME NEW h, Load(p, h) PROVE txn'[p] = h
  BY <1>1 DEF Load, TypeOK
<1>3. db \in Order  BY DEF TypeOK
<1>4. \A s : To(db, s).before = db.before /\ To(db, s).after = db.after
  BY <1>3 DEF To, Order
<1>5. CASE BeginOpen(p)
  BY <1>1, <1>5 DEF BeginOpen, Saving, Copy, OpenFromAppointment, AddsNone
<1>6. CASE BeginAddConsumption(p)
  <2>1. PICK o : /\ \E l, q, r : o = AddToLine(db, l, q, r) \/ o = AddNewLine(db, l, q, r)
                 /\ Load(p, Saving("AddConsumption", o))
    BY <1>6 DEF BeginAddConsumption
  <2>2. o.before = db.before /\ o.after = db.after
    BY <1>3, <2>1 DEF AddToLine, AddNewLine, Order
  <2>3. used \subseteq used'  BY <1>6 DEF BeginAddConsumption
  <2> QED BY <1>1, <2>1, <2>2, <2>3 DEF Saving, Copy, AddsNone
<1>7. CASE BeginUpdateConsumption(p)
  BY <1>1, <1>3, <1>7 DEF BeginUpdateConsumption, Saving, Copy, UpdateConsumption, AddsNone, Order
<1>8. CASE BeginRemoveConsumption(p)
  BY <1>1, <1>3, <1>8 DEF BeginRemoveConsumption, Saving, Copy, RemoveConsumption, AddsNone, Order
<1>9. CASE BeginAddPhoto(p)
  <2>1. PICK f \in Photos \ used, b \in BOOLEAN :
          /\ used' = used \cup {f}
          /\ Load(p, [Copy("upload", "AddPhoto", db) EXCEPT !.photo = {f}, !.before = b])
    BY <1>9 DEF BeginAddPhoto
  <2>2. txn'[p] = [Copy("upload", "AddPhoto", db) EXCEPT !.photo = {f}, !.before = b]
    BY <1>1, <2>1
  <2> QED BY <2>1, <2>2 DEF Copy, AddsNone
<1>10. CASE BeginRemovePhoto(p)
  <2>1. PICK f \in Photos :
          /\ CanRemovePhoto(db, f)
          /\ Load(p, [Saving("RemovePhoto", RemovePhoto(db, f)) EXCEPT !.photo = {f}])
    BY <1>10 DEF BeginRemovePhoto
  <2>2. txn'[p] = [Saving("RemovePhoto", RemovePhoto(db, f)) EXCEPT !.photo = {f}]
    BY <1>1, <2>1
  <2>3. /\ txn'[p].base = db /\ txn'[p].order = RemovePhoto(db, f) /\ txn'[p].photo = {f}
        /\ txn'[p].name = "RemovePhoto" /\ txn'[p].step = "save"
    BY <2>2 DEF Saving, Copy
  <2>4. /\ RemovePhoto(db, f).before = db.before \ {f}
        /\ RemovePhoto(db, f).after = db.after \ {f}
    BY <1>3 DEF RemovePhoto, Order
  <2>5. f \in PhotosOf(db)  BY <2>1 DEF CanRemovePhoto, PhotosOf
  <2>6. UNCHANGED used  BY <1>10 DEF BeginRemovePhoto
  <2> QED BY <2>3, <2>4, <2>5, <2>6 DEF PhotosOf, AddsNone
<1>11. CASE BeginSubmitForReview(p)
  BY <1>1, <1>4, <1>11 DEF BeginSubmitForReview, Saving, Copy, AddsNone
<1>12. CASE BeginReturnToInProgress(p)
  BY <1>1, <1>4, <1>12 DEF BeginReturnToInProgress, Saving, Copy, AddsNone
<1>13. CASE BeginReopen(p)
  BY <1>1, <1>4, <1>13 DEF BeginReopen, Saving, Copy, AddsNone
<1>14. CASE BeginCancel(p)
  BY <1>1, <1>4, <1>14 DEF BeginCancel, Saving, Copy, AddsNone
<1>15. CASE BeginClose(p)
  BY <1>1, <1>4, <1>15 DEF BeginClose, Copy, AddsNone
<1> QED BY <1>5, <1>6, <1>7, <1>8, <1>9, <1>10, <1>11, <1>12, <1>13, <1>14, <1>15 DEF Begin

\* Loading an order keeps what is known of photos.
LEMMA BeginPhotoStep ==
  ASSUME IInv, PhotoInv, NEW p \in Procs, Begin(p)
  PROVE  PhotoInv'
<1>1. /\ TypeOK /\ txn \in [Procs -> Handler]
      /\ Step(p) = "idle" /\ UNCHANGED <<db, objects>>
  BY BeginFresh DEF IInv, TypeOK
<1>2. PICK h \in Handler : /\ txn' = [txn EXCEPT ![p] = h]
                           /\ h.step \in {"save", "upload", "start"}
  BY <1>1, BeginFresh
<1>3. txn'[p] = h /\ \A q \in Procs \ {p} : txn'[q] = txn[q]  BY <1>1, <1>2
<1>4. /\ h.base = db
      /\ used \subseteq used'
      /\ \/ /\ h.name \notin {"AddPhoto", "RemovePhoto"}
            /\ h.photo = {} /\ AddsNone(h)
         \/ /\ h.name = "RemovePhoto" /\ h.step = "save"
            /\ h.photo \subseteq PhotosOf(db)
            /\ h.photo \cap PhotosOf(h.order) = {}
            /\ AddsNone(h)
         \/ /\ h.name = "AddPhoto" /\ h.step = "upload"
            /\ h.photo \cap used = {} /\ h.photo \subseteq used'
  BY <1>1, <1>3, BeginPhotos
<1>5. PhotosOf(db) \subseteq used /\ PhotosOf(db)' = PhotosOf(db)
  BY <1>1 DEF PhotoInv, PhotosOf
<1>6. ASSUME NEW q \in Procs \ {p}, Step(q) # "idle"
      PROVE  /\ txn[q].photo \subseteq used
             /\ txn[q].name = "AddPhoto" => txn[q].photo \cap h.photo = {}
  <2>1. PhotosOK(q)  BY <1>6 DEF PhotoInv
  <2> QED BY <1>4, <2>1 DEF PhotosOK, UploadOK
<1>7. \A q \in Procs \ {p} : Step(q)' # "idle" => PhotosOK(q)'
  <2>1. \A q \in Procs \ {p} : Step(q) # "idle" =>
          /\ txn[q].photo \cap {} = {}
          /\ txn[q].name = "AddPhoto" => /\ txn[q].photo \cap {} = {}
                                         /\ h.step # "idle" => txn[q].photo \cap h.photo = {}
    BY <1>6
  <2>2. /\ db'.before \subseteq db.before \cup {} /\ db'.after \subseteq db.after \cup {}
        /\ objects \subseteq objects' \cup {} /\ used \subseteq used'
    BY <1>1, <1>4
  <2> QED BY <1>2, <2>1, <2>2, OthersPhotos
<1>8. PhotosOK(p)'
  <2>1. CASE h.name \notin {"AddPhoto", "RemovePhoto"}
    BY <1>3, <1>4, <2>1 DEF PhotosOK
  <2>2. CASE h.name = "RemovePhoto"
    <3>1. h.photo \subseteq used' /\ AddsNone(h) /\ h.step = "save"
      BY <1>4, <1>5, <2>2
    <3>2. RemovalOK(p)'  BY <1>1, <1>3, <1>4, <2>2 DEF RemovalOK, Step, PhotosOf
    <3> QED BY <1>3, <2>2, <3>1, <3>2 DEF PhotosOK
  <2>3. CASE h.name = "AddPhoto"
    <3>1. h.photo \subseteq used' /\ h.step = "upload" /\ h.photo \cap used = {}
      BY <1>4, <2>3
    <3>2. \A q \in Procs \ {p} : Step(q)' # "idle" => txn'[q].photo \cap txn'[p].photo = {}
      BY <1>3, <1>6, <3>1 DEF Step
    <3>3. UploadOK(p)'
      BY <1>1, <1>3, <1>5, <3>1, <3>2 DEF UploadOK, Step, PhotosOf
    <3> QED BY <1>3, <2>3, <3>1, <3>3 DEF PhotosOK
  <2> QED BY <2>1, <2>2, <2>3
<1>9. PhotoHasObject'
  BY <1>1, <1>3 DEF PhotoInv, PhotoHasObject, Step
<1> QED BY <1>3, <1>4, <1>5, <1>7, <1>8, <1>9 DEF PhotoInv

\* A handler that ends keeps what is known of photos, unless it was a removal
\* about to commit.
LEMMA PhotoGiveUp ==
  ASSUME IInv, PhotoInv, NEW p \in Procs, Step(p) \notin {"idle", "commit"},
         GiveUp(p), used' = used, objects \subseteq objects',
         db'.before \subseteq db.before, db'.after \subseteq db.after
  PROVE  PhotoInv'
<1>1. Idle \in Handler /\ Idle.step = "idle"  BY IdleType DEF Idle
<1>2. txn' = [txn EXCEPT ![p] = Idle]  BY DEF GiveUp
<1> QED BY <1>1, <1>2, PhotoStay

\* The commit of a removal takes its photo out of whichever album has it.
LEMMA RemovalMerges ==
  ASSUME NEW p \in Procs, RemovalOK(p), AddsNone(txn[p])
  PROVE  txn[p].photo \cap PhotosOf(Merged(txn[p])) = {}
<1> DEFINE t == txn[p]
<1>1. /\ Merged(t).before = (db.before \ (t.base.before \ t.order.before))
                             \cup (t.order.before \ t.base.before)
      /\ Merged(t).after = (db.after \ (t.base.after \ t.order.after))
                             \cup (t.order.after \ t.base.after)
  BY DEF Merged, MergedSet
<1>2. /\ t.order.before \ t.base.before = {} /\ t.order.after \ t.base.after = {}
  BY DEF AddsNone
<1>3. ASSUME NEW f \in t.photo PROVE f \notin Merged(t).before /\ f \notin Merged(t).after
  BY <1>1, <1>2, <1>3 DEF RemovalOK, PhotosOf
<1> QED BY <1>3 DEF PhotosOf

\* The steps of a close touch no photo.
LEMMA ClosePhotoStep ==
  ASSUME IInv, PhotoInv, NEW p \in Procs,
         \/ StartClosing(p) \/ Preflight(p) \/ Consume(p) \/ Refuse(p) \/ Undo(p)
         \/ RevertClosing(p) \/ FinalizeClose(p)
  PROVE  PhotoInv'
<1> DEFINE t == txn[p]
<1>1. /\ txn \in [Procs -> Handler] /\ t \in Handler /\ LocalOK(t) /\ Step(p) = t.step
      /\ t.step \in ClosingSteps \cup {"start"} /\ UNCHANGED <<used, objects>>
  BY DEF IInv, TypeOK, Step, StartClosing, Preflight, Consume, Refuse, Undo,
         RevertClosing, FinalizeClose, ClosingSteps, Handler
<1>2. PhotosOK(p) /\ t.step \notin {"idle", "commit", "save", "upload", "delete"}
  BY <1>1 DEF PhotoInv, ClosingSteps
<1>3. t.name \notin {"AddPhoto", "RemovePhoto"} /\ AddsNone(t)
  BY <1>1, <1>2 DEF PhotosOK, UploadOK, RemovalOK
<1>4. ASSUME NEW s \in Statuses
      PROVE  LET m == Merged([t EXCEPT !.order.status = s])
             IN  m.before \subseteq db.before /\ m.after \subseteq db.after
  <2>1. AddsNone([t EXCEPT !.order.status = s])
    BY <1>1, <1>3 DEF AddsNone, Handler, Order
  <2> QED BY <2>1, MergeAddsNone
<1>5. ASSUME GiveUp(p), \/ UNCHANGED db
                        \/ \E s \in Statuses : db' = Merged([t EXCEPT !.order.status = s])
      PROVE  PhotoInv'
  <2>1. db'.before \subseteq db.before /\ db'.after \subseteq db.after
    BY <1>4, <1>5
  <2> QED BY <1>1, <1>2, <1>5, <2>1, PhotoGiveUp
<1>6. ASSUME NEW h \in Handler, txn' = [txn EXCEPT ![p] = h], h.name = t.name, h.photo = t.photo,
             h.order = t.order, h.base = t.base \/ h.base = t.order,
             db' = db \/ db' = Merged(t)
      PROVE  PhotoInv'
  <2>1. db'.before \subseteq db.before /\ db'.after \subseteq db.after
    BY <1>3, <1>6, MergeAddsNone
  <2> QED BY <1>1, <1>2, <1>3, <1>6, <2>1, PhotoStay
<1>7. CASE StartClosing(p)
  <2>1. CASE Conflict(t)
    BY <1>5, <1>7, <2>1 DEF StartClosing
  <2>2. CASE ~Conflict(t)
    <3> DEFINE b == IF Scope = "save" THEN t.order ELSE t.base
               h == [t EXCEPT !.step = "preflight", !.ver = t.ver + 1, !.base = b]
    <3>1. txn' = [txn EXCEPT ![p] = h]  BY <1>1, <1>7, <2>2 DEF StartClosing
    <3>2. h \in Handler
      <4>1. b \in Order /\ t.ver + 1 \in Nat /\ "preflight" \in Steps  BY <1>1 DEF Handler, Steps
      <4> HIDE DEF b
      <4> QED BY <1>1, <4>1 DEF Handler
    <3>3. /\ h.name = t.name /\ h.photo = t.photo /\ h.order = t.order
          /\ h.base = t.base \/ h.base = t.order
      BY <1>1 DEF Handler
    <3>4. db' = db \/ db' = Merged(t)  BY <1>7, <2>2 DEF StartClosing
    <3> HIDE DEF h
    <3> QED BY <1>6, <3>1, <3>2, <3>3, <3>4
  <2> QED BY <2>1, <2>2
<1>8. CASE Preflight(p) \/ Refuse(p)
  <2>1. PICK n \in {"consume", "undo"} : txn' = [txn EXCEPT ![p].step = n] /\ db' = db
    BY <1>8 DEF Preflight, Refuse
  <2> DEFINE h == [t EXCEPT !.step = n]
  <2>2. txn' = [txn EXCEPT ![p] = h]  BY <1>1, <2>1
  <2>3. h \in Handler  BY <1>1 DEF Handler, Steps
  <2>4. h.name = t.name /\ h.photo = t.photo /\ h.order = t.order /\ h.base = t.base
    BY <1>1 DEF Handler
  <2> HIDE DEF h
  <2> QED BY <1>6, <2>1, <2>2, <2>3, <2>4
<1>9. CASE Consume(p) \/ Undo(p)
  <2>1. PICK a \in SUBSET Lines, d \in SUBSET Lines :
          txn' = [txn EXCEPT ![p] = [t EXCEPT !.todo = a, !.done = d]] /\ db' = db
    <3>1. CASE Consume(p)
      <4>1. PICK l \in t.todo : txn' = [txn EXCEPT ![p].todo = @ \ {l}, ![p].done = @ \cup {l}]
        BY <3>1 DEF Consume
      <4>2. txn' = [txn EXCEPT ![p] = [t EXCEPT !.todo = t.todo \ {l}, !.done = t.done \cup {l}]]
        BY <1>1, <4>1
      <4>3. t.todo \ {l} \in SUBSET Lines /\ t.done \cup {l} \in SUBSET Lines
        BY <1>1 DEF Handler
      <4> QED BY <3>1, <4>2, <4>3 DEF Consume
    <3>2. CASE Undo(p)
      <4>1. PICK l \in t.done : txn' = [txn EXCEPT ![p].done = @ \ {l}]
        BY <3>2 DEF Undo
      <4>2. txn' = [txn EXCEPT ![p] = [t EXCEPT !.todo = t.todo, !.done = t.done \ {l}]]
        BY <1>1, <4>1 DEF Handler
      <4>3. t.todo \in SUBSET Lines /\ t.done \ {l} \in SUBSET Lines
        BY <1>1 DEF Handler
      <4> QED BY <3>2, <4>2, <4>3 DEF Undo
    <3> QED BY <1>9, <3>1, <3>2
  <2> DEFINE h == [t EXCEPT !.todo = a, !.done = d]
  <2>2. h \in Handler  BY <1>1 DEF Handler
  <2>3. h.name = t.name /\ h.photo = t.photo /\ h.order = t.order /\ h.base = t.base
    BY <1>1 DEF Handler
  <2>4. txn' = [txn EXCEPT ![p] = h] /\ db' = db  BY <2>1
  <2> HIDE DEF h
  <2> QED BY <1>6, <2>2, <2>3, <2>4
<1>10. CASE RevertClosing(p)
  BY <1>5, <1>10 DEF RevertClosing, Statuses
<1>11. CASE FinalizeClose(p)
  BY <1>5, <1>11 DEF FinalizeClose, Statuses
<1> QED BY <1>7, <1>8, <1>9, <1>10, <1>11

\* The steps of the handlers that give stock back, upload and delete.
LEMMA FilePhotoStep ==
  ASSUME IInv, PhotoInv, NEW p \in Procs,
         GiveBack(p) \/ Upload(p) \/ DeleteObject(p) \/ CommitRemoval(p)
  PROVE  PhotoInv'
<1> DEFINE t == txn[p]
<1>1. /\ txn \in [Procs -> Handler] /\ t \in Handler /\ LocalOK(t) /\ Step(p) = t.step
      /\ Step(p) # "idle" /\ Step(p)' = txn'[p].step
  BY DEF IInv, TypeOK, Step, GiveBack, Upload, DeleteObject, CommitRemoval
<1>2. PhotosOK(p)  BY <1>1 DEF PhotoInv
<1>3. ASSUME NEW q \in Procs \ {p}, Step(q) # "idle", txn[q].name = "AddPhoto"
      PROVE  txn[q].photo \cap t.photo = {}
  BY <1>1, <1>3 DEF PhotoInv, PhotosOK, UploadOK
<1>4. CASE GiveBack(p)
  <2>1. PICK l \in t.todo : txn' = [txn EXCEPT ![p].todo = @ \ {l}]
    BY <1>4 DEF GiveBack
  <2>2. t.step = "save" /\ UNCHANGED <<db, used, objects>>  BY <1>1, <1>4 DEF GiveBack
  <2> DEFINE h == [t EXCEPT !.todo = @ \ {l}]
  <2>3. txn' = [txn EXCEPT ![p] = h]  BY <1>1, <2>1
  <2>4. h \in Handler  BY <1>1 DEF Handler
  <2>5. /\ h.name = t.name /\ h.photo = t.photo /\ h.order = t.order /\ h.base = t.base
        /\ h.step = t.step
    BY <1>1 DEF Handler
  <2> HIDE DEF h
  <2> QED BY <1>1, <2>2, <2>3, <2>4, <2>5, PhotoStay
<1>5. CASE Upload(p)
  <2>1. /\ t.step = "upload" /\ t.name = "AddPhoto" /\ objects' = objects \cup t.photo
        /\ UNCHANGED <<db, used>>
    BY <1>1, <1>5 DEF Upload, LocalOK
  <2>2. PICK f \in t.photo :
          \/ GiveUp(p)
          \/ txn' = [txn EXCEPT ![p].step = "save",
                                ![p].order = IF t.before THEN AddBefore(t.base, f)
                                                         ELSE AddAfter(t.base, f)]
    BY <1>5 DEF Upload
  <2>3. CASE GiveUp(p)
    BY <1>1, <2>1, <2>3, PhotoGiveUp
  <2>4. CASE txn' = [txn EXCEPT ![p].step = "save",
                                ![p].order = IF t.before THEN AddBefore(t.base, f)
                                                         ELSE AddAfter(t.base, f)]
    <3> DEFINE o == IF t.before THEN AddBefore(t.base, f) ELSE AddAfter(t.base, f)
               h == [t EXCEPT !.step = "save", !.order = o]
    <3>1. txn' = [txn EXCEPT ![p] = h]  BY <1>1, <2>4
    <3>2. t.base \in Order /\ f \in Photos  BY <1>1 DEF Handler
    <3>3. /\ o \in Order
          /\ o.before \subseteq t.base.before \cup t.photo
          /\ o.after \subseteq t.base.after \cup t.photo
      BY <3>2, PhotoEdits DEF AddBefore, AddAfter, Order
    <3> HIDE DEF o
    <3>4. h \in Handler  BY <1>1, <3>3 DEF Handler, Steps
    <3>5. /\ h.step = "save" /\ h.order = o /\ h.base = t.base /\ h.name = t.name
          /\ h.photo = t.photo
      BY <1>1 DEF Handler
    <3> HIDE DEF h
    <3>6. \A q \in Procs \ {p} : Step(q) # "idle" =>
            /\ txn[q].photo \cap {} = {}
            /\ txn[q].name = "AddPhoto" => /\ txn[q].photo \cap {} = {}
                                           /\ h.step # "idle" => txn[q].photo \cap h.photo = {}
      BY <1>3, <3>5
    <3>7. /\ db'.before \subseteq db.before \cup {} /\ db'.after \subseteq db.after \cup {}
          /\ objects \subseteq objects' \cup {} /\ used \subseteq used'
      BY <2>1
    <3>8. \A q \in Procs \ {p} : Step(q)' # "idle" => PhotosOK(q)'
      BY <3>1, <3>4, <3>6, <3>7, OthersPhotos
    <3>9. txn'[p] = h /\ \A q \in Procs \ {p} : txn'[q] = txn[q]  BY <1>1, <3>1
    <3>10. PhotosOK(p)'
      <4>1. UploadOK(p)  BY <1>2, <2>1 DEF PhotosOK
      <4>2. \A q \in Procs \ {p} : Step(q)' # "idle" => txn'[q].photo \cap txn'[p].photo = {}
        BY <3>5, <3>9, <4>1 DEF UploadOK, Step
      <4>3. UploadOK(p)'
        BY <1>1, <2>1, <3>3, <3>5, <3>9, <4>1, <4>2 DEF UploadOK, PhotosOf
      <4> QED BY <1>2, <2>1, <3>5, <3>9, <4>3 DEF PhotosOK
    <3>11. PhotoHasObject'
      <4>1. ASSUME NEW g \in (db.before \cup db.after) \ objects
            PROVE  \E q \in Procs : Step(q)' = "commit" /\ g \in txn'[q].photo
        <5>1. PICK q \in Procs : Step(q) = "commit" /\ g \in txn[q].photo
          BY <4>1 DEF PhotoInv, PhotoHasObject
        <5> QED BY <1>1, <2>1, <3>9, <5>1 DEF Step
      <4> QED BY <2>1, <4>1 DEF PhotoHasObject
    <3> QED BY <2>1, <3>8, <3>10, <3>11 DEF PhotoInv, PhotosOf
  <2> QED BY <2>2, <2>3, <2>4
<1>6. CASE DeleteObject(p)
  <2>1. /\ t.step = "delete" /\ t.name = "RemovePhoto" /\ objects \subseteq objects' \cup t.photo
        /\ UNCHANGED <<db, used>>
    BY <1>1, <1>6 DEF DeleteObject, LocalOK
  <2>2. RemovalOK(p) /\ AddsNone(t)  BY <1>2, <2>1 DEF PhotosOK
  <2>3. PICK h \in Handler :
          /\ txn' = [txn EXCEPT ![p] = h]
          /\ \/ Scope = "save" /\ h.step = "idle"
             \/ /\ Scope = "request" /\ h.step = "commit" /\ h.order = t.order /\ h.base = t.base
                /\ h.name = t.name /\ h.photo = t.photo
    <3>1. CASE Scope = "save"
      <4>1. Idle \in Handler /\ Idle.step = "idle"  BY IdleType DEF Idle
      <4> QED BY <1>6, <3>1, <4>1 DEF DeleteObject, GiveUp
    <3>2. CASE Scope = "request"
      <4> DEFINE k == [t EXCEPT !.step = "commit"]
      <4>1. txn' = [txn EXCEPT ![p] = k]  BY <1>1, <1>6, <3>2 DEF DeleteObject
      <4>2. k \in Handler  BY <1>1 DEF Handler, Steps
      <4>3. /\ k.step = "commit" /\ k.order = t.order /\ k.base = t.base /\ k.name = t.name
            /\ k.photo = t.photo
        BY <1>1 DEF Handler
      <4> HIDE DEF k
      <4> QED BY <3>2, <4>1, <4>2, <4>3
    <3> QED BY <3>1, <3>2, HandlerAssumption
  <2>4. \A q \in Procs \ {p} : Step(q)' # "idle" => PhotosOK(q)'
    <3>1. PICK gone : gone = t.photo  OBVIOUS
    <3>2. PICK new : new = {}  OBVIOUS
    <3>3. /\ db'.before \subseteq db.before \cup new /\ db'.after \subseteq db.after \cup new
          /\ objects \subseteq objects' \cup gone /\ used \subseteq used'
      BY <2>1, <3>1
    <3>4. \A q \in Procs \ {p} : Step(q) # "idle" =>
            /\ txn[q].photo \cap new = {}
            /\ txn[q].name = "AddPhoto" => /\ txn[q].photo \cap gone = {}
                                           /\ h.step # "idle" => txn[q].photo \cap h.photo = {}
      BY <1>3, <2>3, <3>1, <3>2
    <3> QED BY <2>3, <3>3, <3>4, OthersPhotos
  <2>7. txn'[p] = h /\ \A q \in Procs \ {p} : txn'[q] = txn[q]  BY <1>1, <2>3
  <2>8. ASSUME h.step # "idle" PROVE PhotosOK(p)'
    <3>1. RemovalOK(p)'
      BY <1>1, <2>1, <2>2, <2>3, <2>7, <2>8 DEF RemovalOK, PhotosOf
    <3> QED BY <1>2, <2>1, <2>3, <2>7, <2>8, <3>1 DEF PhotosOK, AddsNone
  <2>9. ASSUME NEW f \in (db.before \cup db.after) \ objects'
        PROVE  \E q \in Procs : Step(q)' = "commit" /\ f \in txn'[q].photo
    <3>1. CASE f \in t.photo
      <4>1. Scope # "save"  BY <1>1, <2>1, <2>2, <2>9, <3>1 DEF RemovalOK, PhotosOf
      <4> QED BY <1>1, <2>3, <2>7, <3>1, <4>1
    <3>2. CASE f \notin t.photo
      <4>1. PICK q \in Procs : Step(q) = "commit" /\ f \in txn[q].photo
        BY <2>1, <2>9, <3>2 DEF PhotoInv, PhotoHasObject
      <4> QED BY <2>7, <3>2, <4>1 DEF Step
    <3> QED BY <3>1, <3>2
  <2>10. PhotoHasObject'  BY <2>1, <2>9 DEF PhotoHasObject
  <2> QED BY <1>1, <2>1, <2>4, <2>7, <2>8, <2>10 DEF PhotoInv, PhotosOf
<1>7. CASE CommitRemoval(p)
  <2>1. /\ t.step = "commit" /\ t.name = "RemovePhoto" /\ db' = Merged(t)
        /\ GiveUp(p) /\ UNCHANGED <<objects, used>>
    BY <1>1, <1>7 DEF CommitRemoval, LocalOK
  <2>2. RemovalOK(p) /\ AddsNone(t)  BY <1>2, <2>1 DEF PhotosOK
  <2>3. Idle \in Handler /\ Idle.step = "idle" /\ txn' = [txn EXCEPT ![p] = Idle]
    BY <2>1, IdleType DEF Idle, GiveUp
  <2>4. \A q \in Procs \ {p} : Step(q) # "idle" =>
          /\ txn[q].photo \cap {} = {}
          /\ txn[q].name = "AddPhoto" => /\ txn[q].photo \cap {} = {}
                                         /\ Idle.step # "idle" => txn[q].photo \cap Idle.photo = {}
    BY <2>3
  <2>5. /\ db'.before \subseteq db.before \cup {} /\ db'.after \subseteq db.after \cup {}
        /\ objects \subseteq objects' \cup {} /\ used \subseteq used'
    BY <2>1, <2>2, MergeAddsNone
  <2>6. \A q \in Procs \ {p} : Step(q)' # "idle" => PhotosOK(q)'
    BY <2>3, <2>4, <2>5, OthersPhotos
  <2>7. txn'[p] = Idle /\ \A q \in Procs \ {p} : txn'[q] = txn[q]  BY <1>1, <2>3
  <2>8. t.photo \cap PhotosOf(db)' = {}
    BY <2>1, <2>2, RemovalMerges DEF PhotosOf
  <2>9. ASSUME NEW f \in (db'.before \cup db'.after) \ objects
        PROVE  \E q \in Procs : Step(q)' = "commit" /\ f \in txn'[q].photo
    <3>1. f \in db.before \cup db.after  BY <2>5
    <3>2. PICK q \in Procs : Step(q) = "commit" /\ f \in txn[q].photo
      BY <2>9, <3>1 DEF PhotoInv, PhotoHasObject
    <3>3. q # p  BY <2>8, <2>9, <3>2 DEF PhotosOf
    <3> QED BY <2>7, <3>2, <3>3 DEF Step
  <2>10. PhotoHasObject'  BY <2>1, <2>9 DEF PhotoHasObject
  <2>11. PhotosOf(db)' \subseteq used'  BY <2>1, <2>5 DEF PhotoInv, PhotosOf
  <2> QED BY <1>1, <2>3, <2>6, <2>7, <2>10, <2>11 DEF PhotoInv
<1> QED BY <1>4, <1>5, <1>6, <1>7

\* A save puts into the row the photo of the upload, whose file is there, and
\* takes from it the photo of the removal before its file goes.
LEMMA SavePhotoStep ==
  ASSUME IInv, PhotoInv, NEW p \in Procs, Save(p)
  PROVE  PhotoInv'
<1> DEFINE t == txn[p]
<1>1. /\ txn \in [Procs -> Handler] /\ t \in Handler /\ Step(p) = "save" /\ t.step = "save"
      /\ UNCHANGED <<used, objects>>
  BY DEF IInv, TypeOK, Step, Save
<1>2. PhotosOK(p)  BY <1>1 DEF PhotoInv
<1>3. ASSUME NEW q \in Procs \ {p}, Step(q) # "idle", txn[q].name = "AddPhoto"
      PROVE  txn[q].photo \cap t.photo = {}
  BY <1>1, <1>3 DEF PhotoInv, PhotosOK, UploadOK
<1>4. CASE GiveUp(p) /\ db' = db
  BY <1>1, <1>4, PhotoGiveUp
<1>5. CASE GiveUp(p) /\ db' = Merged(t) /\ t.name # "AddPhoto"
  BY <1>1, <1>2, <1>5, MergeAddsNone, PhotoGiveUp DEF PhotosOK
<1>6. CASE GiveUp(p) /\ db' = Merged(t) /\ t.name = "AddPhoto"
  <2>1. UploadOK(p)  BY <1>2, <1>6 DEF PhotosOK
  <2>2. /\ db'.before \subseteq db.before \cup t.photo
        /\ db'.after \subseteq db.after \cup t.photo
    BY <1>1, <1>6, <2>1 DEF UploadOK, Merged, MergedSet
  <2>3. PICK h \in Handler : h.step = "idle" /\ txn' = [txn EXCEPT ![p] = h]
    BY <1>6, IdleType DEF Idle, GiveUp
  <2>4. \A q \in Procs \ {p} : Step(q) # "idle" =>
          /\ txn[q].photo \cap t.photo = {}
          /\ txn[q].name = "AddPhoto" => /\ txn[q].photo \cap {} = {}
                                         /\ h.step # "idle" => txn[q].photo \cap h.photo = {}
    BY <2>1, <2>3 DEF UploadOK
  <2>5. objects \subseteq objects' \cup {} /\ used \subseteq used'  BY <1>1
  <2>6. \A q \in Procs \ {p} : Step(q)' # "idle" => PhotosOK(q)'
    BY <2>2, <2>3, <2>4, <2>5, OthersPhotos
  <2>7. txn'[p] = h /\ \A q \in Procs \ {p} : txn'[q] = txn[q]  BY <1>1, <2>3
  <2>8. ASSUME NEW f \in (db'.before \cup db'.after) \ objects
        PROVE  \E q \in Procs : Step(q)' = "commit" /\ f \in txn'[q].photo
    <3>1. f \in db.before \cup db.after  BY <1>1, <2>1, <2>2, <2>8 DEF UploadOK
    <3>2. PICK q \in Procs : Step(q) = "commit" /\ f \in txn[q].photo
      BY <2>8, <3>1 DEF PhotoInv, PhotoHasObject
    <3> QED BY <1>1, <2>7, <3>2 DEF Step
  <2>9. PhotoHasObject'  BY <1>1, <2>8 DEF PhotoHasObject
  <2>10. PhotosOf(db)' \subseteq used'
    BY <1>1, <1>2, <2>2 DEF PhotoInv, PhotosOf, PhotosOK
  <2>11. Step(p)' = "idle"  BY <2>3, <2>7 DEF Step
  <2> QED BY <2>6, <2>9, <2>10, <2>11 DEF PhotoInv
<1>7. CASE /\ t.name = "RemovePhoto" /\ txn' = [txn EXCEPT ![p].step = "delete"]
           /\ db' = IF Scope = "save" THEN Merged(t) ELSE db
  <2>1. RemovalOK(p) /\ AddsNone(t)  BY <1>2, <1>7 DEF PhotosOK
  <2> DEFINE h == [t EXCEPT !.step = "delete"]
  <2>2. txn' = [txn EXCEPT ![p] = h]  BY <1>1, <1>7
  <2>3. h \in Handler  BY <1>1 DEF Handler, Steps
  <2>4. /\ h.step = "delete" /\ h.order = t.order /\ h.base = t.base /\ h.name = t.name
        /\ h.photo = t.photo
    BY <1>1 DEF Handler
  <2> HIDE DEF h
  <2>5. /\ db'.before \subseteq db.before \cup {} /\ db'.after \subseteq db.after \cup {}
        /\ objects \subseteq objects' \cup {} /\ used \subseteq used'
    BY <1>1, <1>7, <2>1, MergeAddsNone
  <2>6. \A q \in Procs \ {p} : Step(q) # "idle" =>
          /\ txn[q].photo \cap {} = {}
          /\ txn[q].name = "AddPhoto" => /\ txn[q].photo \cap {} = {}
                                         /\ h.step # "idle" => txn[q].photo \cap h.photo = {}
    BY <1>3, <2>4
  <2>7. \A q \in Procs \ {p} : Step(q)' # "idle" => PhotosOK(q)'
    BY <2>2, <2>3, <2>5, <2>6, OthersPhotos
  <2>8. txn'[p] = h /\ \A q \in Procs \ {p} : txn'[q] = txn[q]  BY <1>1, <2>2
  <2>9. PhotosOK(p)'
    <3>1. Scope = "save" => txn'[p].photo \cap PhotosOf(db)' = {}
      BY <1>7, <2>1, <2>4, <2>8, RemovalMerges DEF PhotosOf
    <3>2. Step(p)' = "delete"  BY <2>4, <2>8 DEF Step
    <3>3. RemovalOK(p)'
      BY <2>1, <2>4, <2>5, <2>8, <3>1, <3>2 DEF RemovalOK, PhotosOf
    <3> QED BY <1>1, <1>2, <1>7, <2>1, <2>4, <2>8, <3>3 DEF PhotosOK, AddsNone
  <2>10. ASSUME NEW f \in (db'.before \cup db'.after) \ objects
        PROVE  \E q \in Procs : Step(q)' = "commit" /\ f \in txn'[q].photo
    <3>1. f \in db.before \cup db.after  BY <2>5
    <3>2. PICK q \in Procs : Step(q) = "commit" /\ f \in txn[q].photo
      BY <2>10, <3>1 DEF PhotoInv, PhotoHasObject
    <3> QED BY <1>1, <2>8, <3>2 DEF Step
  <2>11. PhotoHasObject'  BY <1>1, <2>10 DEF PhotoHasObject
  <2>12. PhotosOf(db)' \subseteq used'  BY <1>1, <2>5 DEF PhotoInv, PhotosOf
  <2> QED BY <2>7, <2>9, <2>11, <2>12 DEF PhotoInv
<1> QED BY <1>4, <1>5, <1>6, <1>7 DEF Save

\* Every photo of the row has its file in the storage: for any number of
\* uploads, removals and closes that overlap, in both scopes, the only exception
\* is a removal that has deleted the file and is about to commit.  With a commit
\* per request the handlers must not die: a removal that dies right there leaves
\* a photo without a file.
THEOREM PhotosHaveObjects == (Scope = "save" \/ ~Aborts) => (Spec => []PhotoHasObject)
<1> SUFFICES ASSUME Scope = "save" \/ ~Aborts PROVE Spec => []PhotoHasObject
  OBVIOUS
<1>1. Init => PhotoInv
  BY DEF Init, PhotoInv, PhotosOf, PhotoHasObject, Step, Idle
<1>2. IInv /\ PhotoInv /\ [Next]_vars => PhotoInv'
  <2> SUFFICES ASSUME IInv, PhotoInv, [Next]_vars PROVE PhotoInv'
    OBVIOUS
  <2>1. CASE UNCHANGED vars
    BY <2>1 DEF vars, PhotoInv, PhotosOf, PhotosOK, UploadOK, RemovalOK, AddsNone,
                PhotoHasObject, Step
  <2>2. ASSUME NEW p \in Procs, Begin(p) PROVE PhotoInv'
    BY <2>2, BeginPhotoStep
  <2>3. ASSUME NEW p \in Procs, Continue(p) PROVE PhotoInv'
    BY <2>3, ClosePhotoStep, FilePhotoStep, SavePhotoStep DEF Continue
  <2>4. ASSUME NEW p \in Procs, Abort(p) PROVE PhotoInv'
    <3>1. /\ Aborts /\ Step(p) # "idle" /\ GiveUp(p) /\ UNCHANGED <<db, used, objects>>
      BY <2>4 DEF Abort
    <3>2. LocalOK(txn[p]) /\ PhotosOK(p)  BY <3>1 DEF IInv, PhotoInv
    <3>3. Step(p) # "commit"
      BY <3>1, <3>2 DEF LocalOK, PhotosOK, RemovalOK, Step
    <3> QED BY <3>1, <3>3, PhotoGiveUp
  <2> QED BY <2>1, <2>2, <2>3, <2>4 DEF Next
<1>3. PhotoInv => PhotoHasObject  BY DEF PhotoInv
<1> QED BY <1>1, <1>2, <1>3, Invariance, PTL DEF Spec

(***************************************************************************)
(* Overlapping uploads.                                                    *)
(***************************************************************************)
\* The handler may still put a photo into the album.
AddsBefore(t) ==
  \/ t.step = "upload" /\ t.before /\ CanAddBefore(t.base)
  \/ t.step = "save" /\ ~(t.order.before \subseteq t.base.before)

AddsAfter(t) ==
  \/ t.step = "upload" /\ ~t.before /\ CanAddAfter(t.base)
  \/ t.step = "save" /\ ~(t.order.after \subseteq t.base.after)

\* A handler adds at most one photo, and only the save of an upload adds it.
AddsOne(t) ==
  /\ \E f : /\ t.order.before \subseteq t.base.before \cup {f}
            /\ t.order.after \subseteq t.base.after \cup {f}
  /\ t.step # "save" \/ t.name # "AddPhoto" => AddsNone(t)

\* An album, with the photos on their way into it, is within the limit but for
\* one photo per request beside the first.
Within(album, adders) ==
  /\ IsFiniteSet(album)
  /\ Cardinality(album) + Cardinality(adders) < MaxPhotos + Cardinality(Procs)

OverrunInv ==
  /\ \A p \in Procs : Step(p) # "idle" => AddsOne(txn[p])
  /\ Within(db.before, {p \in Procs : AddsBefore(txn[p])})
  /\ Within(db.after, {p \in Procs : AddsAfter(txn[p])})

\* The album and the uploads on their way may shrink, an upload may arrive, and one
\* may join when the album is below the limit.
LEMMA WithinStep ==
  ASSUME NEW S, NEW A \in SUBSET Procs, Within(S, A), NEW S2, NEW A2 \in SUBSET Procs,
         \/ S2 \subseteq S /\ A2 \subseteq A
         \/ \E f, p : S2 \subseteq S \cup {f} /\ p \in A /\ A2 \subseteq A \ {p}
         \/ S2 \subseteq S /\ Cardinality(S) < MaxPhotos
  PROVE  Within(S2, A2)
<1>1. /\ IsFiniteSet(S) /\ IsFiniteSet(Procs) /\ MaxPhotos \in Nat
      /\ IsFiniteSet(A) /\ IsFiniteSet(A2)
      /\ Cardinality(A2) <= Cardinality(Procs)
  BY FS_Subset, PhotoAssumption, AggregateAssumption DEF Within
<1>2. /\ Cardinality(S) \in Nat /\ Cardinality(Procs) \in Nat /\ Cardinality(A) \in Nat
      /\ Cardinality(A2) \in Nat
      /\ Cardinality(S) + Cardinality(A) < MaxPhotos + Cardinality(Procs)
  BY <1>1, FS_CardinalityType DEF Within
<1>3. ASSUME S2 \subseteq S
      PROVE  IsFiniteSet(S2) /\ Cardinality(S2) \in Nat /\ Cardinality(S2) <= Cardinality(S)
  BY <1>1, <1>3, FS_Subset, FS_CardinalityType
<1>4. CASE S2 \subseteq S /\ A2 \subseteq A
  <2>1. Cardinality(A2) <= Cardinality(A)  BY <1>1, <1>4, FS_Subset
  <2> QED BY <1>1, <1>2, <1>3, <1>4, <2>1 DEF Within
<1>5. ASSUME NEW f, NEW p, S2 \subseteq S \cup {f}, p \in A, A2 \subseteq A \ {p}
      PROVE  Within(S2, A2)
  <2>1. /\ IsFiniteSet(S \cup {f}) /\ Cardinality(S \cup {f}) \in Nat
        /\ Cardinality(S \cup {f}) <= Cardinality(S) + 1
    <3>1. /\ IsFiniteSet(S \cup {f})
          /\ \/ Cardinality(S \cup {f}) = Cardinality(S)
             \/ Cardinality(S \cup {f}) = Cardinality(S) + 1
      BY <1>1, FS_AddElement
    <3> QED BY <1>2, <3>1
  <2>2. IsFiniteSet(S2) /\ Cardinality(S2) \in Nat /\ Cardinality(S2) <= Cardinality(S \cup {f})
    BY <1>5, <2>1, FS_Subset, FS_CardinalityType
  <2>3. IsFiniteSet(A \ {p}) /\ Cardinality(A \ {p}) = Cardinality(A) - 1
    BY <1>1, <1>5, FS_RemoveElement
  <2>4. Cardinality(A2) <= Cardinality(A \ {p})  BY <1>5, <2>3, FS_Subset
  <2>5. Cardinality(S2) <= Cardinality(S) + 1  BY <1>2, <2>1, <2>2
  <2>6. Cardinality(A2) <= Cardinality(A) - 1  BY <2>3, <2>4
  <2>7. Cardinality(S2) + Cardinality(A2) < MaxPhotos + Cardinality(Procs)
    BY <1>1, <1>2, <2>2, <2>5, <2>6
  <2> QED BY <2>2, <2>7 DEF Within
<1>6. CASE S2 \subseteq S /\ Cardinality(S) < MaxPhotos
  BY <1>1, <1>2, <1>3, <1>6 DEF Within
<1> QED BY <1>4, <1>5, <1>6

\* A step of p that puts a photo into an album only where p was about to, and
\* makes p about to only where the album is below the limit.
LEMMA OverrunStep ==
  ASSUME IInv, OverrunInv, NEW p \in Procs, NEW h,
         txn' = [txn EXCEPT ![p] = h], h.step # "idle" => AddsOne(h),
         \/ db'.before \subseteq db.before /\ (AddsBefore(h) => AddsBefore(txn[p]))
         \/ /\ AddsBefore(txn[p]) /\ ~AddsBefore(h)
            /\ \E f : db'.before \subseteq db.before \cup {f}
         \/ db'.before \subseteq db.before /\ Cardinality(db.before) < MaxPhotos,
         \/ db'.after \subseteq db.after /\ (AddsAfter(h) => AddsAfter(txn[p]))
         \/ /\ AddsAfter(txn[p]) /\ ~AddsAfter(h)
            /\ \E f : db'.after \subseteq db.after \cup {f}
         \/ db'.after \subseteq db.after /\ Cardinality(db.after) < MaxPhotos
  PROVE  OverrunInv'
<1>1. txn'[p] = h /\ \A q \in Procs \ {p} : txn'[q] = txn[q]  BY DEF IInv, TypeOK
<1>2. \A q \in Procs : Step(q)' # "idle" => AddsOne(txn[q])'
  BY <1>1 DEF OverrunInv, Step, AddsOne, AddsNone
<1> DEFINE B == {q \in Procs : AddsBefore(txn[q])}
           B2 == {q \in Procs : AddsBefore(txn'[q])}
           A == {q \in Procs : AddsAfter(txn[q])}
           A2 == {q \in Procs : AddsAfter(txn'[q])}
<1>3. B \in SUBSET Procs /\ B2 \in SUBSET Procs /\ A \in SUBSET Procs /\ A2 \in SUBSET Procs
  OBVIOUS
<1>4. Within(db.before, B) /\ Within(db.after, A)  BY DEF OverrunInv
<1>5. /\ (AddsBefore(h) => AddsBefore(txn[p])) => B2 \subseteq B
      /\ AddsBefore(txn[p]) /\ ~AddsBefore(h) => p \in B /\ B2 \subseteq B \ {p}
      /\ (AddsAfter(h) => AddsAfter(txn[p])) => A2 \subseteq A
      /\ AddsAfter(txn[p]) /\ ~AddsAfter(h) => p \in A /\ A2 \subseteq A \ {p}
  BY <1>1
<1> HIDE DEF A, A2, B, B2
<1>6. Within(db'.before, B2)
  BY <1>3, <1>4, <1>5, WithinStep
<1>7. Within(db'.after, A2)
  BY <1>3, <1>4, <1>5, WithinStep
<1>8. Within(db.before, {q \in Procs : AddsBefore(txn[q])})'
  BY <1>6 DEF B2, Within, AddsBefore, CanAddBefore
<1>9. Within(db.after, {q \in Procs : AddsAfter(txn[q])})'
  BY <1>7 DEF A2, Within, AddsAfter, CanAddAfter
<1> QED BY <1>2, <1>8, <1>9 DEF OverrunInv

\* A handler that ends without adding a photo.
LEMMA OverrunGiveUp ==
  ASSUME IInv, OverrunInv, NEW p \in Procs, GiveUp(p),
         db'.before \subseteq db.before, db'.after \subseteq db.after
  PROVE  OverrunInv'
<1>1. ~AddsBefore(Idle) /\ ~AddsAfter(Idle) /\ Idle.step = "idle"
  BY DEF Idle, AddsBefore, AddsAfter
<1>2. txn' = [txn EXCEPT ![p] = Idle]  BY DEF GiveUp
<1> QED BY <1>1, <1>2, OverrunStep

\* An upload joins those on their way into an album if it loads the album below
\* the limit.
LEMMA BeginOverrunStep ==
  ASSUME IInv, OverrunInv, NEW p \in Procs, Begin(p)
  PROVE  OverrunInv'
<1>1. /\ TypeOK /\ txn \in [Procs -> Handler]
      /\ Step(p) = "idle" /\ UNCHANGED db
  BY BeginFresh DEF IInv, TypeOK
<1>2. PICK h \in Handler : /\ txn' = [txn EXCEPT ![p] = h]
                           /\ h.base = db /\ h.step \in {"save", "upload", "start"} /\ LocalOK(h)
  BY <1>1, BeginFresh
<1>3. txn'[p] = h  BY <1>1, <1>2
<1>4. AddsNone(h)
  BY <1>1, <1>3, BeginPhotos
<1>5. AddsOne(h)  BY <1>4 DEF AddsOne, AddsNone
<1>6. h.step # "upload" => ~AddsBefore(h) /\ ~AddsAfter(h)
  BY <1>2, <1>4 DEF AddsBefore, AddsAfter, AddsNone
<1>7. CASE h.step # "upload"
  BY <1>1, <1>2, <1>5, <1>6, <1>7, OverrunStep
<1>8. CASE h.step = "upload"
  <2>1. /\ AddsBefore(h) => Cardinality(db.before) < MaxPhotos
        /\ AddsAfter(h) => Cardinality(db.after) < MaxPhotos
    BY <1>2, <1>8 DEF AddsBefore, AddsAfter, CanAddBefore, CanAddAfter
  <2> QED BY <1>1, <1>2, <1>5, <2>1, OverrunStep
<1> QED BY <1>7, <1>8

\* The steps of a close put no photo into an album.
LEMMA CloseOverrunStep ==
  ASSUME IInv, OverrunInv, NEW p \in Procs,
         \/ StartClosing(p) \/ Preflight(p) \/ Consume(p) \/ Refuse(p) \/ Undo(p)
         \/ RevertClosing(p) \/ FinalizeClose(p)
  PROVE  OverrunInv'
<1> DEFINE t == txn[p]
<1>1. /\ txn \in [Procs -> Handler] /\ t \in Handler /\ Step(p) = t.step
      /\ t.step \in ClosingSteps \cup {"start"} /\ AddsOne(t)
  BY DEF IInv, OverrunInv, TypeOK, Step, StartClosing, Preflight, Consume, Refuse, Undo,
         RevertClosing, FinalizeClose, ClosingSteps, Handler
<1>2. AddsNone(t)  BY <1>1 DEF AddsOne, ClosingSteps
<1>3. ASSUME GiveUp(p), \/ UNCHANGED db
                        \/ \E s \in Statuses : db' = Merged([t EXCEPT !.order.status = s])
      PROVE  OverrunInv'
  <2>1. ASSUME NEW s \in Statuses PROVE AddsNone([t EXCEPT !.order.status = s])
    BY <1>1, <1>2 DEF AddsNone, Handler, Order
  <2>2. db'.before \subseteq db.before /\ db'.after \subseteq db.after
    BY <1>3, <2>1, MergeAddsNone
  <2> QED BY <1>3, <2>2, OverrunGiveUp
<1>4. ASSUME NEW h, txn' = [txn EXCEPT ![p] = h], h.step \in ClosingSteps, AddsNone(h),
             db' = db \/ db' = Merged(t)
      PROVE  OverrunInv'
  <2>1. db'.before \subseteq db.before /\ db'.after \subseteq db.after
    BY <1>2, <1>4, MergeAddsNone
  <2>2. ~AddsBefore(h) /\ ~AddsAfter(h)  BY <1>4 DEF AddsBefore, AddsAfter, ClosingSteps
  <2>3. AddsOne(h)  BY <1>4 DEF AddsOne, AddsNone
  <2> QED BY <1>4, <2>1, <2>2, <2>3, OverrunStep
<1>5. CASE StartClosing(p)
  <2>1. CASE Conflict(t)
    BY <1>3, <1>5, <2>1 DEF StartClosing
  <2>2. CASE ~Conflict(t)
    <3> DEFINE h == [t EXCEPT !.step = "preflight", !.ver = t.ver + 1,
                              !.base = IF Scope = "save" THEN t.order ELSE t.base]
    <3>1. txn' = [txn EXCEPT ![p] = h]  BY <1>1, <1>5, <2>2 DEF StartClosing
    <3>2. h.step = "preflight" /\ h.order = t.order /\ (h.base = t.base \/ h.base = t.order)
      BY <1>1 DEF Handler
    <3>3. AddsNone(h)  BY <1>2, <3>2 DEF AddsNone
    <3>4. db' = db \/ db' = Merged(t)  BY <1>5, <2>2 DEF StartClosing
    <3> HIDE DEF h
    <3> QED BY <1>4, <3>1, <3>2, <3>3, <3>4 DEF ClosingSteps
  <2> QED BY <2>1, <2>2
<1>6. CASE Preflight(p) \/ Consume(p) \/ Refuse(p) \/ Undo(p)
  <2>1. PICK h : /\ txn' = [txn EXCEPT ![p] = h] /\ db' = db /\ h.step \in ClosingSteps
                 /\ h.order = t.order /\ h.base = t.base
    <3>1. ASSUME Preflight(p) \/ Refuse(p),
                 NEW n \in ClosingSteps, txn' = [txn EXCEPT ![p].step = n]
          PROVE  /\ txn' = [txn EXCEPT ![p] = [t EXCEPT !.step = n]]
                 /\ [t EXCEPT !.step = n].step = n
                 /\ [t EXCEPT !.step = n].order = t.order /\ [t EXCEPT !.step = n].base = t.base
      BY <1>1, <3>1 DEF Handler
    <3>2. CASE Preflight(p) \/ Refuse(p)
      BY <3>1, <3>2 DEF Preflight, Refuse, ClosingSteps
    <3>3. CASE Consume(p)
      <4>1. PICK l \in t.todo : txn' = [txn EXCEPT ![p].todo = @ \ {l}, ![p].done = @ \cup {l}]
        BY <3>3 DEF Consume
      <4> DEFINE h == [t EXCEPT !.todo = t.todo \ {l}, !.done = t.done \cup {l}]
      <4>2. txn' = [txn EXCEPT ![p] = h]  BY <1>1, <4>1
      <4>3. h.step = "consume" /\ h.order = t.order /\ h.base = t.base
        BY <1>1, <3>3 DEF Handler, Consume
      <4> HIDE DEF h
      <4> QED BY <3>3, <4>2, <4>3 DEF Consume, ClosingSteps
    <3>4. CASE Undo(p)
      <4>1. PICK l \in t.done : txn' = [txn EXCEPT ![p].done = @ \ {l}]
        BY <3>4 DEF Undo
      <4> DEFINE h == [t EXCEPT !.done = t.done \ {l}]
      <4>2. txn' = [txn EXCEPT ![p] = h]  BY <1>1, <4>1
      <4>3. h.step = "undo" /\ h.order = t.order /\ h.base = t.base
        BY <1>1, <3>4 DEF Handler, Undo
      <4> HIDE DEF h
      <4> QED BY <3>4, <4>2, <4>3 DEF Undo, ClosingSteps
    <3> QED BY <1>6, <3>2, <3>3, <3>4
  <2>2. AddsNone(h)  BY <1>2, <2>1 DEF AddsNone
  <2> QED BY <1>4, <2>1, <2>2
<1>7. CASE RevertClosing(p)
  BY <1>3, <1>7 DEF RevertClosing, Statuses
<1>8. CASE FinalizeClose(p)
  BY <1>3, <1>8 DEF FinalizeClose, Statuses
<1> QED BY <1>5, <1>6, <1>7, <1>8

\* An upload puts its one photo into the album it was on its way into; the other
\* handlers with one save put none anywhere.
LEMMA FileOverrunStep ==
  ASSUME IInv, OverrunInv, NEW p \in Procs,
         GiveBack(p) \/ Upload(p) \/ Save(p) \/ DeleteObject(p) \/ CommitRemoval(p)
  PROVE  OverrunInv'
<1> DEFINE t == txn[p]
<1>1. /\ txn \in [Procs -> Handler] /\ t \in Handler /\ LocalOK(t) /\ Step(p) = t.step
      /\ AddsOne(t)
  BY DEF IInv, OverrunInv, TypeOK, Step, GiveBack, Upload, Save, DeleteObject, CommitRemoval
<1>2. CASE GiveBack(p)
  <2>1. PICK l \in t.todo : txn' = [txn EXCEPT ![p].todo = @ \ {l}]
    BY <1>2 DEF GiveBack
  <2> DEFINE h == [t EXCEPT !.todo = @ \ {l}]
  <2>2. txn' = [txn EXCEPT ![p] = h] /\ db' = db  BY <1>1, <1>2, <2>1 DEF GiveBack
  <2>3. /\ h.step = t.step /\ h.order = t.order /\ h.base = t.base /\ h.name = t.name
        /\ h.before = t.before
    BY <1>1 DEF Handler
  <2> HIDE DEF h
  <2>4. /\ AddsOne(h)
        /\ AddsBefore(h) => AddsBefore(t)
        /\ AddsAfter(h) => AddsAfter(t)
    BY <1>1, <2>3 DEF AddsOne, AddsNone, AddsBefore, AddsAfter
  <2> QED BY <2>2, <2>4, OverrunStep
<1>3. CASE Upload(p)
  <2>1. t.step = "upload" /\ t.name = "AddPhoto" /\ UNCHANGED db /\ AddsNone(t)
    BY <1>1, <1>3 DEF Upload, LocalOK, AddsOne
  <2>2. PICK f \in t.photo :
          IF (IF t.before THEN CanAddBefore(t.base) ELSE CanAddAfter(t.base))
            THEN txn' = [txn EXCEPT ![p].step = "save",
                                    ![p].order = IF t.before THEN AddBefore(t.base, f)
                                                             ELSE AddAfter(t.base, f)]
            ELSE GiveUp(p)
    BY <1>3 DEF Upload
  <2>3. CASE GiveUp(p)
    BY <2>1, <2>3, OverrunGiveUp
  <2>4. CASE /\ IF t.before THEN CanAddBefore(t.base) ELSE CanAddAfter(t.base)
             /\ txn' = [txn EXCEPT ![p].step = "save",
                                   ![p].order = IF t.before THEN AddBefore(t.base, f)
                                                            ELSE AddAfter(t.base, f)]
    <3> DEFINE o == IF t.before THEN AddBefore(t.base, f) ELSE AddAfter(t.base, f)
               h == [t EXCEPT !.step = "save", !.order = o]
    <3>1. txn' = [txn EXCEPT ![p] = h]  BY <1>1, <2>4
    <3>2. t.base \in Order /\ t.before \in BOOLEAN  BY <1>1 DEF Handler
    <3>3. IF t.before
            THEN o.before = t.base.before \cup {f} /\ o.after = t.base.after
            ELSE o.before = t.base.before /\ o.after = t.base.after \cup {f}
      BY <3>2 DEF AddBefore, AddAfter, Order
    <3> HIDE DEF o
    <3>4. /\ h.step = "save" /\ h.order = o /\ h.base = t.base /\ h.name = t.name
      BY <1>1 DEF Handler
    <3> HIDE DEF h
    <3>5. AddsOne(h)
      <4>1. /\ h.order.before \subseteq h.base.before \cup {f}
            /\ h.order.after \subseteq h.base.after \cup {f}
        BY <3>2, <3>3, <3>4
      <4> QED BY <2>1, <3>4, <4>1 DEF AddsOne
    <3>6. /\ AddsBefore(h) => AddsBefore(t)
          /\ AddsAfter(h) => AddsAfter(t)
      BY <2>1, <2>4, <3>2, <3>3, <3>4 DEF AddsBefore, AddsAfter
    <3> QED BY <2>1, <3>1, <3>5, <3>6, OverrunStep
  <2> QED BY <2>2, <2>3, <2>4
<1>4. CASE Save(p)
  <2>1. t.step = "save"  BY <1>1, <1>4 DEF Save
  <2>2. CASE GiveUp(p) /\ db' = db
    BY <2>2, OverrunGiveUp
  <2>3. CASE GiveUp(p) /\ db' = Merged(t)
    <3>1. PICK f : /\ t.order.before \subseteq t.base.before \cup {f}
                   /\ t.order.after \subseteq t.base.after \cup {f}
      BY <1>1 DEF AddsOne
    <3>2. /\ db'.before \subseteq db.before \cup {f}
          /\ db'.after \subseteq db.after \cup {f}
          /\ t.order.before \subseteq t.base.before => db'.before \subseteq db.before
          /\ t.order.after \subseteq t.base.after => db'.after \subseteq db.after
      BY <2>3, <3>1 DEF Merged, MergedSet
    <3>3. ~AddsBefore(Idle) /\ ~AddsAfter(Idle) /\ Idle.step = "idle"
      BY DEF Idle, AddsBefore, AddsAfter
    <3>4. txn' = [txn EXCEPT ![p] = Idle]  BY <2>3 DEF GiveUp
    <3>5. /\ AddsBefore(t) \/ db'.before \subseteq db.before
          /\ AddsAfter(t) \/ db'.after \subseteq db.after
      BY <2>1, <3>2 DEF AddsBefore, AddsAfter
    <3> QED BY <3>2, <3>3, <3>4, <3>5, OverrunStep
  <2>4. CASE /\ t.name = "RemovePhoto" /\ txn' = [txn EXCEPT ![p].step = "delete"]
             /\ db' = db \/ db' = Merged(t)
    <3>1. AddsNone(t)  BY <1>1, <2>4 DEF AddsOne
    <3>2. db'.before \subseteq db.before /\ db'.after \subseteq db.after
      BY <2>4, <3>1, MergeAddsNone
    <3> DEFINE h == [t EXCEPT !.step = "delete"]
    <3>3. txn' = [txn EXCEPT ![p] = h]  BY <1>1, <2>4
    <3>4. h.step = "delete" /\ h.order = t.order /\ h.base = t.base
      BY <1>1 DEF Handler
    <3> HIDE DEF h
    <3>5. AddsOne(h) /\ ~AddsBefore(h) /\ ~AddsAfter(h)
      BY <3>1, <3>4 DEF AddsOne, AddsNone, AddsBefore, AddsAfter
    <3> QED BY <3>2, <3>3, <3>5, OverrunStep
  <2> QED BY <1>4, <2>2, <2>3, <2>4 DEF Save
<1>5. CASE DeleteObject(p)
  <2>1. t.step = "delete" /\ db' = db  BY <1>1, <1>5 DEF DeleteObject
  <2>2. AddsNone(t)  BY <1>1, <2>1 DEF AddsOne
  <2>3. CASE GiveUp(p)
    BY <2>1, <2>3, OverrunGiveUp
  <2>4. CASE txn' = [txn EXCEPT ![p].step = "commit"]
    <3> DEFINE h == [t EXCEPT !.step = "commit"]
    <3>1. txn' = [txn EXCEPT ![p] = h]  BY <1>1, <2>4
    <3>2. h.step = "commit" /\ h.order = t.order /\ h.base = t.base
      BY <1>1 DEF Handler
    <3> HIDE DEF h
    <3>3. AddsOne(h) /\ ~AddsBefore(h) /\ ~AddsAfter(h)
      BY <2>2, <3>2 DEF AddsOne, AddsNone, AddsBefore, AddsAfter
    <3> QED BY <2>1, <3>1, <3>3, OverrunStep
  <2> QED BY <1>5, <2>3, <2>4 DEF DeleteObject
<1>6. CASE CommitRemoval(p)
  <2>1. t.step = "commit" /\ db' = Merged(t) /\ GiveUp(p)  BY <1>1, <1>6 DEF CommitRemoval
  <2>2. AddsNone(t)  BY <1>1, <2>1 DEF AddsOne
  <2> QED BY <2>1, <2>2, MergeAddsNone, OverrunGiveUp
<1> QED BY <1>2, <1>3, <1>4, <1>5, <1>6

\* Uploads that overlap pass MAX_PHOTOS_PER_TYPE by fewer photos than there are
\* requests at a time, for any limit and any number of requests, with or without
\* aborts, in both scopes: every photo beyond the limit was let in by a request of
\* its own that had counted before.
THEOREM BoundedOverrun == Spec => []PhotoOverrun
<1>1. Init => OverrunInv
  <2> SUFFICES ASSUME Init PROVE OverrunInv
    OBVIOUS
  <2>1. /\ IsFiniteSet(db.before) /\ Cardinality(db.before) <= MaxPhotos
        /\ IsFiniteSet(db.after) /\ Cardinality(db.after) <= MaxPhotos
        /\ IsFiniteSet(Procs) /\ Procs # {}
    BY PhotoAssumption DEF Init
  <2>2. /\ Cardinality(db.before) \in Nat /\ Cardinality(db.after) \in Nat
        /\ Cardinality(Procs) \in Nat /\ Cardinality(Procs) > 0 /\ MaxPhotos \in Nat
    BY <2>1, FS_CardinalityType, FS_EmptySet, AggregateAssumption
  <2>3. \A p \in Procs : Step(p) = "idle" /\ ~AddsBefore(txn[p]) /\ ~AddsAfter(txn[p])
    BY DEF Init, Step, Idle, AddsBefore, AddsAfter
  <2>4. /\ {p \in Procs : AddsBefore(txn[p])} = {} /\ {p \in Procs : AddsAfter(txn[p])} = {}
        /\ Cardinality({}) = 0
    BY <2>3, FS_EmptySet
  <2> QED BY <2>1, <2>2, <2>3, <2>4 DEF OverrunInv, Within
<1>2. IInv /\ OverrunInv /\ [Next]_vars => OverrunInv'
  <2> SUFFICES ASSUME IInv, OverrunInv, [Next]_vars PROVE OverrunInv'
    OBVIOUS
  <2>1. CASE UNCHANGED vars
    <3>1. db' = db /\ txn' = txn  BY <2>1 DEF vars
    <3> QED BY <3>1 DEF OverrunInv, Within, Step, AddsOne, AddsNone, AddsBefore, AddsAfter,
                        CanAddBefore, CanAddAfter, Editable
  <2>2. ASSUME NEW p \in Procs, Begin(p) \/ Continue(p) \/ Abort(p) PROVE OverrunInv'
    BY <2>2, BeginOverrunStep, CloseOverrunStep, FileOverrunStep, OverrunGiveUp
       DEF Continue, Abort
  <2> QED BY <2>1, <2>2 DEF Next
<1>3. IInv /\ OverrunInv => PhotoOverrun
  <2> SUFFICES ASSUME OverrunInv PROVE PhotoOverrun
    OBVIOUS
  <2>1. /\ IsFiniteSet(Procs) /\ MaxPhotos \in Nat  BY PhotoAssumption, AggregateAssumption
  <2>2. ASSUME NEW S, NEW A \in SUBSET Procs, Within(S, A)
        PROVE  Cardinality(S) < MaxPhotos + Cardinality(Procs)
    <3>1. /\ Cardinality(A) \in Nat /\ Cardinality(S) \in Nat /\ Cardinality(Procs) \in Nat
      BY <2>1, <2>2, FS_Subset, FS_CardinalityType DEF Within
    <3> QED BY <2>1, <2>2, <3>1 DEF Within
  <2> QED BY <2>2 DEF OverrunInv, PhotoOverrun
<1> QED BY <1>1, <1>2, <1>3, Invariance, PTL DEF Spec

(***************************************************************************)
(* A committed CLOSING has its close.                                      *)
(***************************************************************************)
\* The close that committed CLOSING is still under way and owns the row's version.
CloserAlive ==
  Scope = "save" /\ db.status = "CLOSING"
    => \E p \in Procs : Closing(p) /\ txn[p].ver = version

\* A step that leaves status and version alone, and p's close going if it has one.
LEMMA CloserKept ==
  ASSUME TypeOK, CloserAlive, NEW p \in Procs, NEW h,
         txn' = [txn EXCEPT ![p] = h], version' = version, db'.status = db.status,
         Closing(p) /\ txn[p].ver = version => h.step \in ClosingSteps /\ h.ver = txn[p].ver
  PROVE  CloserAlive'
<1> SUFFICES ASSUME Scope = "save", db.status = "CLOSING"
             PROVE  \E q \in Procs : Closing(q)' /\ txn'[q].ver = version'
  BY DEF CloserAlive
<1>1. PICK q \in Procs : Closing(q) /\ txn[q].ver = version  BY DEF CloserAlive
<1>2. txn'[p] = h /\ \A r \in Procs \ {p} : txn'[r] = txn[r]  BY DEF TypeOK
<1>3. Closing(q)' /\ txn'[q].ver = version'
  BY <1>1, <1>2 DEF Closing, Step, ClosingSteps
<1> QED BY <1>3

\* Only the close itself, or a cancellation, takes the order out of CLOSING.
LEMMA CloserStep ==
  ASSUME IInv, CloserAlive, NEW p \in Procs, Begin(p) \/ Continue(p)
  PROVE  CloserAlive'
<1> DEFINE t == txn[p]
<1> SUFFICES ASSUME Scope = "save" PROVE CloserAlive'
  BY DEF CloserAlive
<1>1. /\ TypeOK /\ t \in Handler /\ LocalOK(t) /\ Step(p) = t.step /\ version \in Nat
      /\ txn \in [Procs -> Handler] /\ t.ver \in Nat /\ t.order \in Order
  BY DEF IInv, TypeOK, Step, Handler
<1>2. ASSUME db'.status # "CLOSING" PROVE CloserAlive'
  BY <1>2 DEF CloserAlive
<1>3. CASE Begin(p)
  <2>1. PICK h \in Handler : txn' = [txn EXCEPT ![p] = h]  BY <1>1, <1>3, BeginFresh
  <2>2. ~Closing(p) /\ UNCHANGED <<db, version>>
    BY <1>1, <1>3, BeginFresh DEF Closing
  <2> QED BY <1>1, <2>1, <2>2, CloserKept
<1>4. CASE Upload(p) \/ GiveBack(p) \/ DeleteObject(p) \/ CommitRemoval(p)
  <2>1. ~Closing(p) /\ UNCHANGED version
    BY <1>4 DEF Upload, GiveBack, DeleteObject, CommitRemoval, Closing, Step
  <2>2. db'.status = db.status
    <3>1. CASE CommitRemoval(p)
      <4>1. t.order.status = t.base.status /\ db' = Merged(t)
        BY <1>1, <3>1 DEF CommitRemoval, LocalOK
      <4> QED BY <4>1 DEF Merged, RowChanged
    <3> QED BY <1>4, <3>1 DEF Upload, GiveBack, DeleteObject
  <2>3. \E h : txn' = [txn EXCEPT ![p] = h]
    BY <1>1, <1>4 DEF Upload, GiveBack, DeleteObject, CommitRemoval, GiveUp
  <2> QED BY <1>1, <2>1, <2>2, <2>3, CloserKept
<1>5. CASE Save(p)
  <2>1. ~Closing(p) /\ t.step = "save"  BY <1>5 DEF Save, Closing, Step
  <2>2. \E h : txn' = [txn EXCEPT ![p] = h]
    BY <1>1, <1>5 DEF Save, GiveUp
  <2>3. CASE db' = db /\ version' = version
    BY <1>1, <2>1, <2>2, <2>3, CloserKept
  <2>4. CASE /\ db' = Merged(t)
             /\ \/ version' = version /\ t.name = "RemovePhoto"
                \/ version' = IF RowChanged(t) /\ t.name # "Open" THEN version + 1 ELSE version
    <3>1. CASE RowChanged(t)
      <4>1. t.order.status # "CLOSING"
        BY <1>1, <2>1, <3>1 DEF LocalOK, SaveMove, RowChanged
      <4> QED BY <1>2, <2>4, <3>1, <4>1 DEF Merged
    <3>2. CASE ~RowChanged(t)
      <4>1. db'.status = db.status /\ version' = version
        BY <2>4, <3>2 DEF Merged
      <4> QED BY <1>1, <2>1, <2>2, <4>1, CloserKept
    <3> QED BY <3>1, <3>2
  <2> QED BY <1>5, <2>3, <2>4 DEF Save
<1>6. CASE StartClosing(p)
  <2>1. CASE Conflict(t)
    <3>1. /\ GiveUp(p) /\ UNCHANGED <<db, version>> /\ ~Closing(p)
      BY <1>6, <2>1 DEF StartClosing, Closing, Step
    <3> QED BY <1>1, <3>1, CloserKept DEF GiveUp
  <2>2. CASE ~Conflict(t)
    <3>1. t.ver = version
      BY <1>1, <1>6, <2>2 DEF StartClosing, LocalOK, Conflict, RowChanged
    <3>2. txn'[p].step = "preflight" /\ txn'[p].ver = t.ver + 1 /\ version' = version + 1
      BY <1>1, <1>6, <2>2 DEF StartClosing, Handler
    <3>3. Closing(p)' /\ txn'[p].ver = version'
      BY <3>1, <3>2 DEF Closing, Step
    <3> QED BY <3>3 DEF CloserAlive
  <2> QED BY <2>1, <2>2
<1>7. CASE Preflight(p) \/ Consume(p) \/ Refuse(p) \/ Undo(p)
  <2>1. UNCHANGED <<db, version>>
    BY <1>7 DEF Preflight, Consume, Refuse, Undo
  <2>2. \E s, T, D :
          /\ s \in ClosingSteps
          /\ txn' = [txn EXCEPT ![p].step = s, ![p].todo = T, ![p].done = D]
    <3>1. \A s : [t EXCEPT !.step = s] = [t EXCEPT !.step = s, !.todo = t.todo, !.done = t.done]
      BY <1>1 DEF Handler
    <3>2. ASSUME NEW T, NEW D
          PROVE  [t EXCEPT !.todo = T, !.done = D]
                   = [t EXCEPT !.step = t.step, !.todo = T, !.done = D]
      BY <1>1 DEF Handler
    <3>3. \A D : [t EXCEPT !.done = D] = [t EXCEPT !.step = t.step, !.todo = t.todo, !.done = D]
      BY <1>1 DEF Handler
    <3>4. CASE Preflight(p) \/ Refuse(p)
      <4>1. PICK s \in ClosingSteps : txn' = [txn EXCEPT ![p].step = s]
        BY <3>4 DEF Preflight, Refuse, ClosingSteps
      <4> WITNESS s, t.todo, t.done
      <4> QED BY <1>1, <3>1, <4>1
    <3>5. CASE Consume(p)
      <4>1. PICK l \in t.todo :
              txn' = [txn EXCEPT ![p].todo = @ \ {l}, ![p].done = @ \cup {l}]
        BY <3>5 DEF Consume
      <4>2. t.step \in ClosingSteps  BY <3>5 DEF Consume, ClosingSteps
      <4> WITNESS t.step, t.todo \ {l}, t.done \cup {l}
      <4> QED BY <1>1, <3>2, <4>1, <4>2
    <3>6. CASE Undo(p)
      <4>1. PICK l \in t.done : txn' = [txn EXCEPT ![p].done = @ \ {l}]
        BY <3>6 DEF Undo
      <4>2. t.step \in ClosingSteps  BY <3>6 DEF Undo, ClosingSteps, Step
      <4> WITNESS t.step, t.todo, t.done \ {l}
      <4> QED BY <1>1, <3>3, <4>1, <4>2
    <3> QED BY <1>7, <3>4, <3>5, <3>6
  <2>3. PICK s, T, D :
          /\ s \in ClosingSteps
          /\ txn' = [txn EXCEPT ![p].step = s, ![p].todo = T, ![p].done = D]
    BY <2>2
  <2> DEFINE h == [t EXCEPT !.step = s, !.todo = T, !.done = D]
  <2>4. txn' = [txn EXCEPT ![p] = h]  BY <1>1, <2>3
  <2>5. h.step \in ClosingSteps /\ h.ver = t.ver  BY <1>1, <2>3 DEF Handler
  <2> HIDE DEF h
  <2> QED BY <1>1, <2>1, <2>4, <2>5, CloserKept
<1>8. ASSUME NEW c, c.ver = t.ver, c.order.status \in {"IN_PROGRESS", "CLOSED"}, c.base = t.base,
             Closing(p), GiveUp(p),
             IF Conflict(c) THEN UNCHANGED <<db, version>> ELSE db' = Merged(c)
      PROVE  CloserAlive'
  <2>1. RowChanged(c)
    BY <1>1, <1>8 DEF RowChanged, LocalOK, Closing, ClosingSteps
  <2>2. CASE Conflict(c)
    <3>1. t.ver # version  BY <1>8, <2>2 DEF Conflict
    <3> QED BY <1>1, <1>8, <2>2, <3>1, CloserKept DEF GiveUp
  <2>3. CASE ~Conflict(c)
    <3>1. db'.status = c.order.status  BY <1>8, <2>1, <2>3 DEF Merged
    <3> QED BY <1>2, <1>8, <3>1
  <2> QED BY <2>2, <2>3
<1>9. CASE RevertClosing(p)
  <2> DEFINE c == [t EXCEPT !.order.status = "IN_PROGRESS"]
  <2>1. c.ver = t.ver /\ c.order.status = "IN_PROGRESS" /\ c.base = t.base
    BY <1>1 DEF Handler, Order
  <2>2. /\ Closing(p) /\ GiveUp(p)
        /\ IF Conflict(c) THEN UNCHANGED <<db, version>> ELSE db' = Merged(c)
    BY <1>9 DEF RevertClosing, Closing, Step
  <2> HIDE DEF c
  <2> QED BY <1>8, <2>1, <2>2
<1>10. CASE FinalizeClose(p)
  <2> DEFINE c == [t EXCEPT !.order.status = "CLOSED"]
  <2>1. c.ver = t.ver /\ c.order.status = "CLOSED" /\ c.base = t.base
    BY <1>1 DEF Handler, Order
  <2>2. /\ Closing(p) /\ GiveUp(p)
        /\ IF Conflict(c) THEN UNCHANGED <<db, version>> ELSE db' = Merged(c)
    BY <1>10 DEF FinalizeClose, Closing, Step
  <2> HIDE DEF c
  <2> QED BY <1>8, <2>1, <2>2
<1> QED BY <1>3, <1>4, <1>5, <1>6, <1>7, <1>9, <1>10 DEF Continue

\* While no handler dies, a committed CLOSING is never left without the close that
\* will finalize or revert it, whatever cancels, reopens or edits the order meanwhile.
THEOREM CloseGoesOn == ~Aborts => (Spec => []CloserAlive)
<1> SUFFICES ASSUME ~Aborts PROVE Spec => []CloserAlive
  OBVIOUS
<1>1. Init => CloserAlive
  BY HandlerAssumption DEF Init, CloserAlive
<1>2. IInv /\ CloserAlive /\ [Next]_vars => CloserAlive'
  <2>1. ASSUME IInv, CloserAlive, UNCHANGED vars PROVE CloserAlive'
    BY <2>1 DEF vars, CloserAlive, Closing, Step
  <2>2. ASSUME IInv, CloserAlive, NEW p \in Procs, Begin(p) \/ Continue(p) \/ Abort(p)
        PROVE CloserAlive'
    BY <2>2, CloserStep DEF Abort
  <2> QED BY <2>1, <2>2 DEF Next
<1> QED BY <1>1, <1>2, Invariance, PTL DEF Spec

(***************************************************************************)
(* Closing and the stock port.                                             *)
(***************************************************************************)
LineCommands == {"AddConsumption", "UpdateConsumption", "RemoveConsumption"}

\* A CloseWorkOrderHandler is running.
InClose(p) == Step(p) \in ClosingSteps \cup {"start"}

\* The lines of an order change only while it is in work and no close of it is
\* running: nothing in the code sees to that, since an edit of a line neither checks
\* nor raises the version of the row.
EditsInTime ==
  db.status # "NONE" /\ db'.lines # db.lines
    => Editable(db) /\ \A p \in Procs : ~InClose(p)

\* What is written off and not given back.
Outstanding == {l \in Lines : issued[l] > 0}

\* The statuses in which something can be outstanding with no close under way: a
\* request commits its close as a whole; where every save commits, a cancellation
\* can overtake the close, which consumes on, and a close that dies stays behind.
HeldIn ==
  {"CLOSED"} \cup (IF Scope = "request" THEN {}
                   ELSE {"CANCELLED"} \cup (IF Aborts THEN {"CLOSING"} ELSE {}))

\* A handler of any other command than those on lines leaves the lines it loaded.
LinesOK(t) ==
  /\ t.name \in Commands
  /\ t.name \in LineCommands \cup {"Open"} => t.step = "save"
  /\ t.name \notin LineCommands \cup {"Open"} => t.order.lines = t.base.lines

LinesInv == \A p \in Procs : Step(p) # "idle" => LinesOK(txn[p])

\* What a handler knows of the stock: a close works on the lines of the row and has
\* consumed whatever is outstanding; a reopening that is not too late has listed it.
StockOK(p) ==
  LET t == txn[p] IN
  /\ t.name # "Open" => db.status # "NONE"
  /\ InClose(p) => t.base.lines = db.lines
  /\ t.step \in {"start", "preflight"} => t.done = {}
  /\ t.step \in {"start", "preflight", "consume"} => t.todo \cap t.done = {}
  /\ t.step \in ClosingSteps => Outstanding \subseteq t.done
  /\ t.step = "save" /\ t.base.status = "CLOSED" /\ RowChanged(t) /\ t.ver = version
       => Outstanding \subseteq t.todo

StockInv ==
  /\ Outstanding \subseteq WrittenOff(db)
  /\ \A p \in Procs : Step(p) # "idle" => StockOK(p)
  /\ db.status \notin HeldIn /\ (\A p \in Procs : ~Closing(p)) => Outstanding = {}

\* A handler that edits no line commits the lines of the row.
LEMMA MergedLines ==
  ASSUME TypeOK, NEW t, t.order.lines = t.base.lines
  PROVE  Merged(t).lines = db.lines
<1>1. \A l \in Lines : MergedLine(t, l) = db.lines[l]  BY DEF MergedLine
<1> QED BY <1>1 DEF Merged, TypeOK, Order

\* What a handler that has just loaded the row knows of its lines.
LEMMA BeginLines ==
  ASSUME TypeOK, NEW p \in Procs, Begin(p)
  PROVE  LET t == txn'[p] IN
         /\ LinesOK(t)
         /\ t.base = db /\ t.done = {}
         /\ t.name = "Open" => db.status = "NONE"
         /\ t.name # "Open" => db.status # "NONE"
         /\ t.step = "save" /\ db.status = "CLOSED" => t.todo = WrittenOff(db)
         /\ t.step = "save" /\ t.todo # {}
              => RowChanged(t) /\ t.base.status \in {"CLOSING", "CLOSED"}
         /\ t.step = "save" /\ t.todo # {} => t.name = "Reopen" \/ db.status = "CLOSING"
         /\ t.step = "start" => t.todo = WrittenOff(db)
         /\ t.step = "upload" => t.todo = {}
         /\ t.name \in LineCommands => Editable(db)
<1>1. ASSUME NEW h, Load(p, h) PROVE txn'[p] = h /\ h.name \in Commands
  BY <1>1 DEF Load, TypeOK
<1>2. db \in Order  BY DEF TypeOK
<1>3. \A s : To(db, s).lines = db.lines /\ To(db, s).status = s
  BY <1>2 DEF To, Order
<1>4. CASE BeginOpen(p)
  <2> DEFINE h == Saving("Open", OpenFromAppointment)
  <2>1. txn'[p] = h /\ h.name \in Commands /\ db.status = "NONE"
    BY <1>1, <1>4 DEF BeginOpen
  <2>2. /\ h.name = "Open" /\ h.step = "save" /\ h.base = db /\ h.todo = {} /\ h.done = {}
        /\ h.name \notin LineCommands
    BY DEF Saving, Copy, LineCommands
  <2> HIDE DEF h
  <2> QED BY <2>1, <2>2 DEF LinesOK
<1>5. CASE BeginAddConsumption(p)
  <2>1. PICK o : Load(p, Saving("AddConsumption", o))
    BY <1>5 DEF BeginAddConsumption
  <2>2. db.status \in {"OPEN", "IN_PROGRESS"}
    BY <1>5 DEF BeginAddConsumption, CanAddConsumption
  <2> QED BY <1>1, <2>1, <2>2 DEF Saving, Copy, LinesOK, LineCommands, Editable
<1>6. CASE BeginUpdateConsumption(p)
  <2>1. PICK o : Load(p, Saving("UpdateConsumption", o))
    BY <1>6 DEF BeginUpdateConsumption
  <2>2. db.status \notin {"NONE", "CLOSED"} /\ Editable(db)
    BY <1>6 DEF BeginUpdateConsumption, CanUpdateConsumption, Editable
  <2> QED BY <1>1, <2>1, <2>2 DEF Saving, Copy, LinesOK, LineCommands
<1>7. CASE BeginRemoveConsumption(p)
  <2>1. PICK o : Load(p, Saving("RemoveConsumption", o))
    BY <1>7 DEF BeginRemoveConsumption
  <2>2. db.status \notin {"NONE", "CLOSED"} /\ Editable(db)
    BY <1>7 DEF BeginRemoveConsumption, CanRemoveConsumption, Editable
  <2> QED BY <1>1, <2>1, <2>2 DEF Saving, Copy, LinesOK, LineCommands
<1>9. CASE BeginAddPhoto(p)
  <2>1. PICK f \in Photos \ used, b \in BOOLEAN :
          Load(p, [Copy("upload", "AddPhoto", db) EXCEPT !.photo = {f}, !.before = b])
    BY <1>9 DEF BeginAddPhoto
  <2> DEFINE h == [Copy("upload", "AddPhoto", db) EXCEPT !.photo = {f}, !.before = b]
  <2>2. txn'[p] = h /\ h.name \in Commands  BY <1>1, <2>1
  <2>3. h.name = "AddPhoto" /\ h.step = "upload" /\ h.base = db /\ h.order = db /\ h.done = {}
        /\ h.todo = {}
    BY DEF Copy
  <2> QED BY <1>9, <2>2, <2>3 DEF BeginAddPhoto, LinesOK, LineCommands
<1>10. CASE BeginRemovePhoto(p)
  <2>1. PICK f \in Photos :
          /\ CanRemovePhoto(db, f)
          /\ Load(p, [Saving("RemovePhoto", RemovePhoto(db, f)) EXCEPT !.photo = {f}])
    BY <1>10 DEF BeginRemovePhoto
  <2> DEFINE h == [Saving("RemovePhoto", RemovePhoto(db, f)) EXCEPT !.photo = {f}]
  <2>2. txn'[p] = h /\ h.name \in Commands  BY <1>1, <2>1
  <2>3. h.name = "RemovePhoto" /\ h.base = db /\ h.order.lines = db.lines /\ h.done = {}
        /\ h.todo = {} /\ h.step = "save"
    BY <1>2 DEF Saving, Copy, RemovePhoto, Order
  <2> QED BY <2>1, <2>2, <2>3 DEF CanRemovePhoto, Editable, LinesOK, LineCommands
<1>11. CASE BeginSubmitForReview(p)
  BY <1>1, <1>2, <1>3, <1>11 DEF BeginSubmitForReview, CanSubmit, AllowedTransitions,
                                     Order, Statuses, Saving, Copy, LinesOK, LineCommands
<1>12. CASE BeginReturnToInProgress(p)
  BY <1>1, <1>3, <1>12 DEF BeginReturnToInProgress, CanReturn, Saving, Copy, LinesOK, LineCommands
<1>13. CASE BeginReopen(p)
  BY <1>1, <1>3, <1>13 DEF BeginReopen, CanReopen, Saving, Copy, LinesOK, LineCommands,
                              RowChanged
<1>14. CASE BeginCancel(p)
  BY <1>1, <1>3, <1>14 DEF BeginCancel, CanCancel, Saving, Copy, LinesOK, LineCommands,
                              RowChanged
<1>15. CASE BeginClose(p)
  BY <1>1, <1>3, <1>15 DEF BeginClose, CanStartClosing, Copy, LinesOK, LineCommands
<1> QED BY <1>4, <1>5, <1>6, <1>7, <1>9, <1>10, <1>11, <1>12, <1>13, <1>14, <1>15 DEF Begin

\* The lines a handler holds are those of its last step.
LEMMA LinesStay ==
  ASSUME TypeOK, LinesInv, NEW p \in Procs, NEW h,
         txn' = [txn EXCEPT ![p] = h],
         h.step = "idle" \/ LinesOK(h)
  PROVE  LinesInv'
<1>1. txn'[p] = h /\ \A q \in Procs \ {p} : txn'[q] = txn[q]  BY DEF TypeOK
<1>2. (txn[p])' = h  BY <1>1
<1>3. Step(p)' # "idle" => LinesOK(txn[p])'
  BY <1>2 DEF Step, LinesOK
<1>4. ASSUME NEW q \in Procs \ {p} PROVE Step(q)' # "idle" => LinesOK(txn[q])'
  <2>1. (txn[q])' = txn[q]  BY <1>1
  <2> QED BY <2>1 DEF LinesInv, Step, LinesOK
<1> QED BY <1>3, <1>4 DEF LinesInv

\* A handler that goes on leaves the lines it holds, and goes on with the command it
\* was called for.
LEMMA LinesStep ==
  ASSUME IInv, LinesInv, NEW p \in Procs, Begin(p) \/ Continue(p) \/ Abort(p)
  PROVE  LinesInv'
<1> DEFINE t == txn[p]
<1>1. /\ TypeOK /\ t \in Handler /\ LocalOK(t) /\ Step(p) = t.step
      /\ txn \in [Procs -> Handler] /\ t.base \in Order /\ t.order \in Order
  BY DEF IInv, TypeOK, Step, Handler
<1>2. ASSUME GiveUp(p) PROVE LinesInv'
  BY <1>1, <1>2, LinesStay DEF GiveUp, Idle
<1>3. CASE Begin(p)
  <2>1. PICK h \in Handler : txn' = [txn EXCEPT ![p] = h]  BY <1>1, <1>3, BeginFresh
  <2>2. txn'[p] = h  BY <1>1, <2>1
  <2>3. LinesOK(h)  BY <1>1, <1>3, <2>2, BeginLines
  <2> QED BY <1>1, <2>1, <2>3, LinesStay
<1>4. ASSUME NEW h, txn' = [txn EXCEPT ![p] = h], t.step # "idle",
             h.name = t.name, h.order.lines = t.order.lines, h.base.lines = t.base.lines,
             h.name \in LineCommands \cup {"Open"} => h.step = "save"
      PROVE  LinesInv'
  <2>1. LinesOK(t)  BY <1>1, <1>4 DEF LinesInv
  <2>2. LinesOK(h)  BY <1>4, <2>1 DEF LinesOK
  <2> QED BY <1>1, <1>4, <2>2, LinesStay
<1>5. ASSUME NEW n, txn' = [txn EXCEPT ![p].step = n], t.step \notin {"idle", "save"}
      PROVE  LinesInv'
  <2> DEFINE h == [t EXCEPT !.step = n]
  <2>1. txn' = [txn EXCEPT ![p] = h]  BY <1>1, <1>5
  <2>2. h.name = t.name /\ h.order = t.order /\ h.base = t.base  BY <1>1 DEF Handler
  <2> HIDE DEF h
  <2>3. t.name \notin LineCommands \cup {"Open"}  BY <1>1, <1>5 DEF LinesInv, LinesOK
  <2> QED BY <1>4, <1>5, <2>1, <2>2, <2>3
<1>6. CASE Upload(p)
  <2>1. PICK f \in t.photo :
          IF (IF t.before THEN CanAddBefore(t.base) ELSE CanAddAfter(t.base))
            THEN txn' = [txn EXCEPT ![p].step = "save",
                                    ![p].order = IF t.before THEN AddBefore(t.base, f)
                                                             ELSE AddAfter(t.base, f)]
            ELSE GiveUp(p)
    BY <1>6 DEF Upload
  <2>2. CASE GiveUp(p)  BY <1>2, <2>2
  <2>3. CASE txn' = [txn EXCEPT ![p].step = "save",
                                ![p].order = IF t.before THEN AddBefore(t.base, f)
                                                         ELSE AddAfter(t.base, f)]
    <3> DEFINE o == IF t.before THEN AddBefore(t.base, f) ELSE AddAfter(t.base, f)
               h == [t EXCEPT !.step = "save", !.order = o]
    <3>1. txn' = [txn EXCEPT ![p] = h]  BY <1>1, <2>3
    <3>2. t.step = "upload" /\ t.name = "AddPhoto" /\ LinesOK(t)
      BY <1>1, <1>6 DEF Upload, LocalOK, LinesInv
    <3>3. o.lines = t.base.lines /\ t.base.lines = t.order.lines
      BY <1>1, <3>2 DEF AddBefore, AddAfter, Order, LinesOK, LineCommands
    <3> HIDE DEF o
    <3>4. h.step = "save" /\ h.order = o /\ h.base = t.base /\ h.name = t.name
      BY <1>1 DEF Handler
    <3> HIDE DEF h
    <3> QED BY <1>4, <3>1, <3>2, <3>3, <3>4
  <2> QED BY <2>1, <2>2, <2>3
<1>7. CASE GiveBack(p)
  <2>1. PICK l \in t.todo : txn' = [txn EXCEPT ![p].todo = @ \ {l}]
    BY <1>7 DEF GiveBack
  <2> DEFINE h == [t EXCEPT !.todo = t.todo \ {l}]
  <2>2. txn' = [txn EXCEPT ![p] = h]  BY <1>1, <2>1
  <2>3. /\ t.step = "save" /\ h.step = t.step
        /\ h.order = t.order /\ h.base = t.base /\ h.name = t.name
    BY <1>1, <1>7 DEF GiveBack, Handler
  <2> HIDE DEF h
  <2> QED BY <1>4, <2>2, <2>3
<1>8. CASE Save(p)
  <2>1. GiveUp(p) \/ (t.name = "RemovePhoto" /\ txn' = [txn EXCEPT ![p].step = "delete"])
    BY <1>8 DEF Save
  <2>2. CASE t.name = "RemovePhoto" /\ txn' = [txn EXCEPT ![p].step = "delete"]
    <3> DEFINE h == [t EXCEPT !.step = "delete"]
    <3>1. txn' = [txn EXCEPT ![p] = h]  BY <1>1, <2>2
    <3>2. t.step = "save" /\ h.name = t.name /\ h.order = t.order /\ h.base = t.base
      BY <1>1, <1>8 DEF Save, Handler
    <3> HIDE DEF h
    <3> QED BY <1>4, <2>2, <3>1, <3>2 DEF LineCommands
  <2> QED BY <1>2, <2>1, <2>2
<1>9. CASE DeleteObject(p) \/ CommitRemoval(p)
  <2>1. t.step = "delete" \/ GiveUp(p)
    BY <1>1, <1>9 DEF DeleteObject, CommitRemoval
  <2>2. GiveUp(p) \/ (t.step = "delete" /\ txn' = [txn EXCEPT ![p].step = "commit"])
    BY <1>1, <1>9 DEF DeleteObject, CommitRemoval
  <2> QED BY <1>2, <1>5, <2>2
<1>10. CASE StartClosing(p)
  <2>1. GiveUp(p) \/ txn' = [txn EXCEPT ![p].step = "preflight", ![p].ver = t.ver + 1,
                               ![p].base = IF Scope = "save" THEN t.order ELSE @]
    BY <1>10 DEF StartClosing
  <2>2. CASE txn' = [txn EXCEPT ![p].step = "preflight", ![p].ver = t.ver + 1,
                              ![p].base = IF Scope = "save" THEN t.order ELSE @]
    <3> DEFINE b == IF Scope = "save" THEN t.order ELSE t.base
               h == [t EXCEPT !.step = "preflight", !.ver = t.ver + 1, !.base = b]
    <3>1. txn' = [txn EXCEPT ![p] = h]  BY <1>1, <2>2
    <3>2. t.step = "start"  BY <1>10 DEF StartClosing
    <3>3. b.lines = t.base.lines  BY <1>1, <3>2 DEF LocalOK
    <3> HIDE DEF b
    <3>4. h.name = t.name /\ h.order = t.order /\ h.base = b
      BY <1>1 DEF Handler
    <3> HIDE DEF h
    <3>5. t.name \notin LineCommands \cup {"Open"}  BY <1>1, <3>2 DEF LinesInv, LinesOK
    <3> QED BY <1>4, <3>1, <3>2, <3>3, <3>4, <3>5
  <2> QED BY <1>2, <2>1, <2>2
<1>11. CASE Preflight(p) \/ Refuse(p)
  <2>1. /\ \E n : txn' = [txn EXCEPT ![p].step = n]
        /\ t.step \in {"preflight", "consume"}
    BY <1>1, <1>11 DEF Preflight, Refuse
  <2> QED BY <1>5, <2>1
<1>12. CASE Consume(p) \/ Undo(p)
  <2>1. \E T, D : txn' = [txn EXCEPT ![p].todo = T, ![p].done = D]
    <3>1. CASE Consume(p)
      <4>1. PICK l \in t.todo :
              txn' = [txn EXCEPT ![p].todo = @ \ {l}, ![p].done = @ \cup {l}]
        BY <3>1 DEF Consume
      <4> WITNESS t.todo \ {l}, t.done \cup {l}
      <4> QED BY <1>1, <4>1
    <3>2. CASE Undo(p)
      <4>1. PICK l \in t.done : txn' = [txn EXCEPT ![p].done = @ \ {l}]
        BY <3>2 DEF Undo
      <4> WITNESS t.todo, t.done \ {l}
      <4>2. [t EXCEPT !.todo = t.todo, !.done = t.done \ {l}] = [t EXCEPT !.done = t.done \ {l}]
        BY <1>1 DEF Handler
      <4> QED BY <1>1, <4>1, <4>2
    <3> QED BY <1>12, <3>1, <3>2
  <2>2. PICK T, D : txn' = [txn EXCEPT ![p].todo = T, ![p].done = D]  BY <2>1
  <2> DEFINE h == [t EXCEPT !.todo = T, !.done = D]
  <2>3. txn' = [txn EXCEPT ![p] = h]  BY <1>1, <2>2
  <2>4. h.name = t.name /\ h.order = t.order /\ h.base = t.base /\ h.step = t.step
    BY <1>1 DEF Handler
  <2> HIDE DEF h
  <2>5. t.step \in {"consume", "undo"}  BY <1>1, <1>12 DEF Consume, Undo
  <2>6. t.name \notin LineCommands \cup {"Open"}  BY <1>1, <2>5 DEF LinesInv, LinesOK
  <2> QED BY <1>4, <2>3, <2>4, <2>5, <2>6
<1>13. CASE RevertClosing(p) \/ FinalizeClose(p) \/ Abort(p)
  BY <1>2, <1>13 DEF RevertClosing, FinalizeClose, Abort
<1> QED BY <1>3, <1>6, <1>7, <1>8, <1>9, <1>10, <1>11, <1>12, <1>13 DEF Continue

LEMMA LinesInvariance == Spec => []LinesInv
<1>1. Init => LinesInv
  BY DEF Init, LinesInv, Step, Idle
<1>2. IInv /\ LinesInv /\ [Next]_vars => LinesInv'
  <2> SUFFICES ASSUME IInv, LinesInv, [Next]_vars PROVE LinesInv'
    OBVIOUS
  <2>1. CASE UNCHANGED vars
    BY <2>1 DEF vars, LinesInv, LinesOK, Step
  <2> QED BY <2>1, LinesStep DEF Next
<1> QED BY <1>1, <1>2, Invariance, PTL DEF Spec

\* What the other handlers know of the stock survives a step of p that changes lines
\* only while no close is running, consumes nothing another close has not, and
\* consumes nothing of a closed order unless the row gets a new version.
LEMMA OthersStock ==
  ASSUME IInv, StockInv, NEW p \in Procs, NEW h,
         txn' = [txn EXCEPT ![p] = h], version' \in Nat,
         db.status # "NONE" => db'.status # "NONE",
         db'.lines = db.lines \/ \A q \in Procs : ~InClose(q),
         Outstanding' \subseteq Outstanding \/ Closing(p),
         \/ version' > version
         \/ version' = version /\ (Outstanding' \subseteq Outstanding \/ db.status # "CLOSED")
  PROVE  \A q \in Procs \ {p} : Step(q)' # "idle" => StockOK(q)'
<1>1. txn \in [Procs -> Handler] /\ version \in Nat  BY DEF IInv, TypeOK
<1>2. \A q \in Procs \ {p} : txn'[q] = txn[q]  BY <1>1
<1>3. SUFFICES ASSUME NEW q \in Procs \ {p}, Step(q) # "idle"
               PROVE  StockOK(q)'
  BY <1>2 DEF Step
<1> DEFINE t == txn[q]
<1>4. StockOK(q) /\ txn'[q] = t /\ VersionOK(q) /\ t.step = Step(q) /\ t.ver \in Nat
  BY <1>1, <1>2, <1>3 DEF StockInv, IInv, Step, Handler
<1>5. /\ t.name # "Open" => db'.status # "NONE"
      /\ InClose(q) => t.base.lines = db'.lines
  BY <1>4 DEF StockOK
<1>6. t.step \in ClosingSteps => Outstanding' \subseteq t.done
  <2>1. t.step \in ClosingSteps => Outstanding \subseteq t.done  BY <1>4 DEF StockOK
  <2>2. t.step \in ClosingSteps => ~Closing(p)
    BY <1>4 DEF IInv, OneCloser, Closing, ClosingSteps
  <2> QED BY <2>1, <2>2
<1>7. t.step = "save" /\ t.base.status = "CLOSED" /\ RowChanged(t) /\ t.ver = version'
        => Outstanding' \subseteq t.todo
  <2>1. SUFFICES ASSUME t.step = "save", t.base.status = "CLOSED", RowChanged(t), t.ver = version'
                 PROVE  Outstanding' \subseteq t.todo
    OBVIOUS
  <2>2. /\ t.ver <= version
        /\ t.ver = version => db.status = "CLOSED"
    BY <1>4, <2>1 DEF VersionOK, Closing
  <2>3. version' = version  BY <1>1, <1>4, <2>1, <2>2
  <2>4. Outstanding' \subseteq Outstanding  BY <1>1, <2>1, <2>2, <2>3
  <2> QED BY <1>4, <2>1, <2>3, <2>4 DEF StockOK
<1>8. RowChanged(t)' = RowChanged(t)  BY <1>2 DEF RowChanged
<1> HIDE DEF t
<1>9. StockOK(q)'
  <2>1. (txn[q])' = t  BY <1>4
  <2>2. InClose(q)' <=> InClose(q)  BY <1>4, <2>1 DEF InClose, Step
  <2> QED BY <1>4, <1>5, <1>6, <1>7, <2>1, <2>2 DEF StockOK, RowChanged
<1> QED BY <1>9

\* No close is under way on a closed order.
LEMMA ClosingIsNotClosed ==
  ASSUME IInv, NEW p \in Procs, Closing(p)
  PROVE  db.status # "CLOSED"
<1>1. VersionOK(p) /\ LocalOK(txn[p]) /\ RowOK  BY DEF IInv, Closing
<1> QED BY <1>1, HandlerAssumption DEF VersionOK, LocalOK, RowOK, Closing, ClosingSteps, Step

\* In a request no close is under way when a handler may change the row.
LEMMA RowFreeNoCloser ==
  ASSUME IInv, Scope = "request", NEW p \in Procs, ~Closing(p), RowFree(p), RowChanged(txn[p])
  PROVE  \A q \in Procs : ~Closing(q)
<1>1. lock = NoProc  BY LockHolder DEF RowFree
<1>2. ASSUME NEW q \in Procs, Closing(q) PROVE FALSE
  <2>1. VersionOK(q)  BY <1>2 DEF IInv, Closing
  <2> QED BY <1>1, <1>2, <2>1, HandlerAssumption DEF VersionOK
<1> QED BY <1>2

\* A handler that ends with nothing consumed or given back and the row as it was.
LEMMA StockGiveUp ==
  ASSUME IInv, StockInv, NEW p \in Procs, GiveUp(p),
         Closing(p) => db.status \in HeldIn \/ Outstanding = {},
         UNCHANGED <<version, issued>>, db'.lines = db.lines, db'.status = db.status
  PROVE  StockInv'
<1>1. txn \in [Procs -> Handler] /\ version \in Nat  BY DEF IInv, TypeOK
<1>2. txn' = [txn EXCEPT ![p] = Idle] /\ Idle.step = "idle"  BY DEF GiveUp, Idle
<1>3. txn'[p] = Idle /\ \A q \in Procs \ {p} : txn'[q] = txn[q]  BY <1>1, <1>2
<1>4. Outstanding' = Outstanding /\ WrittenOff(db)' = WrittenOff(db)
  BY DEF Outstanding, WrittenOff, LinesOf
<1>5. \A q \in Procs \ {p} : Step(q)' # "idle" => StockOK(q)'
  <2>1. version' \in Nat /\ Outstanding' \subseteq Outstanding /\ version' = version
    BY <1>1, <1>4
  <2>2. db.status # "NONE" => db'.status # "NONE"  OBVIOUS
  <2> QED BY <1>2, <2>1, <2>2, OthersStock
<1>6. \A q \in Procs \ {p} : Closing(q)' <=> Closing(q)  BY <1>3 DEF Closing, Step
<1>7. db'.status \notin HeldIn /\ (\A q \in Procs : ~Closing(q)') => Outstanding' = {}
  BY <1>4, <1>6 DEF StockInv
<1>9. Step(p)' = "idle"  BY <1>2, <1>3 DEF Step
<1>10. Outstanding' \subseteq WrittenOff(db)'  BY <1>4 DEF StockInv
<1>11. HeldIn' = HeldIn  BY DEF HeldIn
<1> QED BY <1>5, <1>7, <1>9, <1>10, <1>11 DEF StockInv

\* Loading an order keeps what is known of its stock.
LEMMA BeginStockStep ==
  ASSUME IInv, StockInv, NEW p \in Procs, Begin(p)
  PROVE  StockInv'
<1>1. /\ TypeOK /\ txn \in [Procs -> Handler] /\ version \in Nat
      /\ Step(p) = "idle" /\ UNCHANGED <<db, version, issued>>
  BY BeginFresh DEF IInv, TypeOK
<1>2. PICK h \in Handler : /\ txn' = [txn EXCEPT ![p] = h]
                           /\ h.step \in {"save", "upload", "start"}
  BY <1>1, BeginFresh
<1>3. txn'[p] = h /\ \A q \in Procs \ {p} : txn'[q] = txn[q]  BY <1>1, <1>2
<1>4. /\ h.base = db /\ h.done = {}
      /\ h.name # "Open" => db.status # "NONE"
      /\ h.step = "save" /\ db.status = "CLOSED" => h.todo = WrittenOff(db)
  BY <1>1, <1>3, BeginLines
<1>5. Outstanding' = Outstanding /\ WrittenOff(db)' = WrittenOff(db)
  BY <1>1 DEF Outstanding, WrittenOff, LinesOf
<1>6. /\ db.status # "NONE" => db'.status # "NONE"
      /\ db'.lines = db.lines /\ version' \in Nat /\ version' = version
  BY <1>1
<1>7. \A q \in Procs \ {p} : Step(q)' # "idle" => StockOK(q)'
  BY <1>1, <1>2, <1>5, <1>6, OthersStock
<1>8. StockOK(p)'
  BY <1>1, <1>2, <1>3, <1>4, <1>5 DEF StockInv, StockOK, ClosingSteps
<1>9. \A q \in Procs : Closing(q)' <=> Closing(q)
  BY <1>1, <1>2, <1>3 DEF Closing, Step
<1>11. HeldIn' = HeldIn  BY DEF HeldIn
<1>12. Outstanding' \subseteq WrittenOff(db)'  BY <1>5 DEF StockInv
<1>13. db'.status \notin HeldIn /\ (\A q \in Procs : ~Closing(q)') => Outstanding' = {}
  BY <1>1, <1>5, <1>9 DEF StockInv
<1> QED BY <1>7, <1>8, <1>11, <1>12, <1>13 DEF StockInv

\* The handler goes on with the command and the lines it has.
GoesOn(t, h) ==
  /\ h.name = t.name /\ h.step \notin {"idle", "start"}
  /\ h.step \in ClosingSteps => t.step \in ClosingSteps \cup {"start"}
  /\ h.base.lines = t.base.lines
  /\ h.step = "preflight" => h.done = {}
  /\ h.step \in {"preflight", "consume"} => h.todo \cap h.done = {}
  /\ t.step \in ClosingSteps => h.step \in ClosingSteps

\* A step of p that leaves lines and status alone and consumes at most what p's close
\* lists as consumed.
LEMMA StockStay ==
  ASSUME IInv, StockInv, NEW p \in Procs, Step(p) # "idle", NEW h,
         txn' = [txn EXCEPT ![p] = h], version' = version,
         db'.lines = db.lines, db'.status = db.status,
         GoesOn(txn[p], h),
         h.step \in ClosingSteps => Outstanding' \subseteq h.done,
         h.step = "save" /\ h.base.status = "CLOSED" /\ RowChanged(h) /\ h.ver = version
           => Outstanding' \subseteq h.todo,
         \/ Outstanding' \subseteq Outstanding
         \/ Closing(p) /\ Outstanding' \subseteq WrittenOff(db)
  PROVE  StockInv'
<1>1. txn \in [Procs -> Handler] /\ version \in Nat  BY DEF IInv, TypeOK
<1>2. txn'[p] = h /\ \A q \in Procs \ {p} : txn'[q] = txn[q]  BY <1>1
<1>0. /\ h.name = txn[p].name /\ h.step \notin {"idle", "start"}
      /\ h.step \in ClosingSteps => InClose(p)
      /\ h.base.lines = txn[p].base.lines
      /\ h.step = "preflight" => h.done = {}
      /\ h.step \in {"preflight", "consume"} => h.todo \cap h.done = {}
      /\ Closing(p) => h.step \in ClosingSteps
  BY DEF GoesOn, Closing, InClose, Step, ClosingSteps
<1>3. StockOK(p)  BY DEF StockInv
<1>4. WrittenOff(db)' = WrittenOff(db)  BY DEF WrittenOff, LinesOf
<1>5. Closing(p) => db.status # "CLOSED"  BY ClosingIsNotClosed
<1>6. \A q \in Procs \ {p} : Step(q)' # "idle" => StockOK(q)'
  <2>1. db.status # "NONE" => db'.status # "NONE"
    OBVIOUS
  <2>2. Outstanding' \subseteq Outstanding \/ Closing(p)  OBVIOUS
  <2>3. version' = version /\ (Outstanding' \subseteq Outstanding \/ db.status # "CLOSED")
    BY <1>5
  <2>4. version' \in Nat  BY <1>1
  <2> QED BY <2>1, <2>2, <2>3, <2>4, OthersStock
<1>7. StockOK(p)'
  <2>1. /\ h.name # "Open" => db'.status # "NONE"
        /\ h.step \in ClosingSteps => h.base.lines = db'.lines
    BY <1>3, <1>0 DEF StockOK
  <2>2. (txn[p])' = h  BY <1>2
  <2>3. InClose(p)' => h.step \in ClosingSteps
    BY <1>0, <2>2 DEF InClose, Step
  <2> QED BY <1>0, <2>1, <2>2, <2>3 DEF StockOK, RowChanged
<1>8. /\ \A q \in Procs \ {p} : Closing(q)' <=> Closing(q)
      /\ Closing(p) => Closing(p)'
  BY <1>2, <1>0 DEF Closing, Step, ClosingSteps
<1>9. db'.status \notin HeldIn /\ (\A q \in Procs : ~Closing(q)') => Outstanding' = {}
  <2>1. SUFFICES ASSUME db'.status \notin HeldIn, \A q \in Procs : ~Closing(q)'
                 PROVE  Outstanding' = {}
    OBVIOUS
  <2>2. Outstanding = {}  BY <1>8, <2>1 DEF StockInv
  <2>3. Outstanding' \subseteq Outstanding  BY <1>8, <2>1
  <2> QED BY <2>2, <2>3
<1>10. Outstanding' \subseteq WrittenOff(db)'  BY <1>4 DEF StockInv
<1>11. HeldIn' = HeldIn  BY DEF HeldIn
<1> QED BY <1>6, <1>7, <1>9, <1>10, <1>11 DEF StockInv

\* An edit of lines that is in time, like the insert of the order, finds the order in
\* work and no close of it running.
LEMMA EditFindsWork ==
  ASSUME LinesInv, StockInv, EditsInTime, db'.lines # db.lines
  PROVE  /\ \A q \in Procs : ~InClose(q)
         /\ db.status \notin {"CLOSING", "CLOSED", "CANCELLED"}
<1>1. CASE db.status = "NONE"
  <2>1. ASSUME NEW q \in Procs, InClose(q) PROVE FALSE
    <3>1. StockOK(q) /\ LinesOK(txn[q])
      BY <2>1 DEF StockInv, LinesInv, InClose, ClosingSteps
    <3> QED BY <1>1, <2>1, <3>1 DEF StockOK, LinesOK, InClose, ClosingSteps, Step
  <2> QED BY <1>1, <2>1
<1>2. CASE db.status # "NONE"
  BY <1>2 DEF EditsInTime, Editable
<1> QED BY <1>1, <1>2

\* A close consumes a line nothing is outstanding of, in the quantity of the row.
LEMMA ConsumeWrites ==
  ASSUME IInv, LinesInv, StockInv, NEW p \in Procs, Consume(p)
  PROVE  \E l \in txn[p].todo :
           /\ l \in LinesOf(db) /\ db.lines[l].qty \in Nat /\ issued[l] = 0
           /\ issued' = [issued EXCEPT ![l] = db.lines[l].qty]
           /\ txn' = [txn EXCEPT ![p].todo = @ \ {l}, ![p].done = @ \cup {l}]
<1> DEFINE t == txn[p]
<1>1. /\ t.step = "consume" /\ Step(p) # "idle" /\ issued \in [Lines -> Nat]
      /\ LocalOK(t) /\ t.base \in Order /\ t.todo \in SUBSET Lines /\ StockOK(p) /\ InClose(p)
  BY DEF Consume, IInv, TypeOK, Step, Handler, StockInv, InClose, ClosingSteps
<1>2. PICK l \in t.todo :
        /\ issued' = [issued EXCEPT ![l] = @ + t.base.lines[l].qty]
        /\ txn' = [txn EXCEPT ![p].todo = @ \ {l}, ![p].done = @ \cup {l}]
  BY DEF Consume
<1>3. t.todo \cap t.done = {} /\ Outstanding \subseteq t.done /\ t.base.lines = db.lines
  BY <1>1 DEF StockOK, ClosingSteps
<1>4. l \in Lines /\ issued[l] = 0  BY <1>1, <1>2, <1>3 DEF Outstanding
<1>5. l \in LinesOf(db) /\ db.lines[l].qty \in Nat
  <2>1. l \in LinesOf(t.base)  BY <1>1, <1>2 DEF LocalOK
  <2>2. t.base.lines[l] \in Line  BY <1>1, <2>1 DEF LinesOf, Order
  <2> QED BY <1>3, <2>1, <2>2, AggregateAssumption DEF Line, Quantities, LinesOf
<1>6. issued' = [issued EXCEPT ![l] = db.lines[l].qty]
  <2>1. t.base.lines[l].qty = db.lines[l].qty  BY <1>3
  <2>2. issued[l] + t.base.lines[l].qty = db.lines[l].qty  BY <1>4, <1>5, <2>1
  <2> QED BY <1>2, <2>2
<1> QED BY <1>2, <1>4, <1>5, <1>6

\* The handlers with one save, up to it and after it: an upload, a line given
\* back, a removed photo's file.
LEMMA FileStockStep ==
  ASSUME IInv, LinesInv, StockInv, NEW p \in Procs,
         Upload(p) \/ GiveBack(p) \/ DeleteObject(p) \/ CommitRemoval(p)
  PROVE  StockInv'
<1> DEFINE t == txn[p]
<1>1. /\ TypeOK /\ t \in Handler /\ LocalOK(t) /\ Step(p) = t.step /\ Step(p) # "idle"
      /\ txn \in [Procs -> Handler] /\ issued \in [Lines -> Nat] /\ t.todo \in SUBSET Lines
      /\ t.base \in Order
  BY DEF IInv, TypeOK, Step, Upload, GiveBack, DeleteObject, CommitRemoval, Handler
<1>2. StockOK(p) /\ ~Closing(p) /\ LinesOK(t)
  BY <1>1 DEF StockInv, LinesInv, Closing, Upload, GiveBack, DeleteObject, CommitRemoval
<1>3. CASE Upload(p)
  <2>1. t.step = "upload" /\ UNCHANGED <<db, version, issued>>
    BY <1>1, <1>3 DEF Upload
  <2>2. PICK f \in t.photo :
          IF (IF t.before THEN CanAddBefore(t.base) ELSE CanAddAfter(t.base))
            THEN txn' = [txn EXCEPT ![p].step = "save",
                                    ![p].order = IF t.before THEN AddBefore(t.base, f)
                                                             ELSE AddAfter(t.base, f)]
            ELSE GiveUp(p)
    BY <1>3 DEF Upload
  <2>3. CASE GiveUp(p)
    BY <1>2, <2>1, <2>3, StockGiveUp
  <2>4. CASE /\ IF t.before THEN CanAddBefore(t.base) ELSE CanAddAfter(t.base)
             /\ txn' = [txn EXCEPT ![p].step = "save",
                                   ![p].order = IF t.before THEN AddBefore(t.base, f)
                                                            ELSE AddAfter(t.base, f)]
    <3> DEFINE o == IF t.before THEN AddBefore(t.base, f) ELSE AddAfter(t.base, f)
               h == [t EXCEPT !.step = "save", !.order = o]
    <3>1. txn' = [txn EXCEPT ![p] = h]  BY <1>1, <2>4
    <3>2. t.base.status # "CLOSED"  BY <2>4 DEF CanAddBefore, CanAddAfter, Editable
    <3> HIDE DEF o
    <3>4. h.step = "save" /\ h.base = t.base /\ h.name = t.name
      BY <1>1 DEF Handler
    <3> HIDE DEF h
    <3>5. Outstanding' = Outstanding  BY <2>1 DEF Outstanding
    <3>6. GoesOn(t, h)  BY <1>1, <2>1, <3>4 DEF GoesOn, ClosingSteps
    <3>7. /\ h.step \notin ClosingSteps /\ h.base.status # "CLOSED"
          /\ Outstanding' \subseteq Outstanding /\ version' = version
          /\ db'.lines = db.lines /\ db'.status = db.status
      BY <2>1, <3>2, <3>4, <3>5 DEF ClosingSteps
    <3> QED BY <1>1, <3>1, <3>6, <3>7, StockStay
  <2> QED BY <2>2, <2>3, <2>4
<1>4. CASE GiveBack(p)
  <2>1. PICK l \in t.todo : /\ issued' = [issued EXCEPT ![l] = 0]
                            /\ txn' = [txn EXCEPT ![p].todo = @ \ {l}]
    BY <1>4 DEF GiveBack
  <2>2. t.step = "save" /\ UNCHANGED <<db, version>>  BY <1>1, <1>4 DEF GiveBack
  <2> DEFINE h == [t EXCEPT !.todo = t.todo \ {l}]
  <2>3. txn' = [txn EXCEPT ![p] = h]  BY <1>1, <2>1
  <2>4. /\ h.step = "save" /\ h.order = t.order /\ h.base = t.base /\ h.name = t.name
        /\ h.ver = t.ver /\ h.todo = t.todo \ {l}
    BY <1>1, <2>2 DEF Handler
  <2> HIDE DEF h
  <2>5. Outstanding' \subseteq Outstanding \ {l}
    BY <1>1, <2>1 DEF Outstanding
  <2>6. h.base.status = "CLOSED" /\ RowChanged(h) /\ h.ver = version
          => Outstanding' \subseteq h.todo
    BY <1>2, <2>2, <2>4, <2>5 DEF StockOK, RowChanged
  <2>7. GoesOn(t, h)  BY <1>1, <2>2, <2>4 DEF GoesOn, ClosingSteps
  <2>8. /\ h.step \notin ClosingSteps /\ Outstanding' \subseteq Outstanding
        /\ version' = version /\ db'.lines = db.lines /\ db'.status = db.status
    BY <2>2, <2>4, <2>5 DEF ClosingSteps
  <2> QED BY <1>1, <2>3, <2>6, <2>7, <2>8, StockStay
<1>5. CASE DeleteObject(p)
  <2>1. t.step = "delete" /\ UNCHANGED <<db, version, issued>>
    BY <1>1, <1>5 DEF DeleteObject
  <2>2. CASE GiveUp(p)
    BY <1>2, <2>1, <2>2, StockGiveUp
  <2>3. CASE txn' = [txn EXCEPT ![p].step = "commit"]
    <3> DEFINE h == [t EXCEPT !.step = "commit"]
    <3>1. txn' = [txn EXCEPT ![p] = h]  BY <1>1, <2>3
    <3>2. h.step = "commit" /\ h.base = t.base /\ h.name = t.name
      BY <1>1, <2>1 DEF Handler
    <3> HIDE DEF h
    <3>3. Outstanding' = Outstanding  BY <2>1 DEF Outstanding
    <3>4. GoesOn(t, h)  BY <1>1, <2>1, <3>2 DEF GoesOn, ClosingSteps
    <3>5. /\ h.step \notin ClosingSteps /\ h.step # "save" /\ Outstanding' \subseteq Outstanding
          /\ version' = version /\ db'.lines = db.lines /\ db'.status = db.status
      BY <2>1, <3>2, <3>3 DEF ClosingSteps
    <3> QED BY <1>1, <3>1, <3>4, <3>5, StockStay
  <2> QED BY <1>5, <2>2, <2>3 DEF DeleteObject
<1>6. CASE CommitRemoval(p)
  <2>1. /\ t.step = "commit" /\ db' = Merged(t) /\ GiveUp(p)
        /\ UNCHANGED <<version, issued>>
    BY <1>1, <1>6 DEF CommitRemoval
  <2>2. t.name = "RemovePhoto" /\ t.order.status = t.base.status
    BY <1>1, <2>1 DEF LocalOK
  <2>3. t.order.lines = t.base.lines  BY <1>2, <2>2 DEF LinesOK, LineCommands
  <2>4. db'.lines = db.lines  BY <1>1, <2>1, <2>3, MergedLines
  <2>5. db'.status = db.status  BY <2>1, <2>2 DEF Merged, RowChanged
  <2> QED BY <1>2, <2>1, <2>4, <2>5, StockGiveUp
<1> QED BY <1>3, <1>4, <1>5, <1>6

\* A save that takes the order out of CLOSED has given back all that was
\* outstanding; a save that changes lines finds nothing outstanding; any other that
\* finds something outstanding cancels the order.
LEMMA SaveStockStep ==
  ASSUME IInv, LinesInv, StockInv, EditsInTime, NEW p \in Procs, Save(p)
  PROVE  StockInv'
<1> DEFINE t == txn[p]
<1>1. /\ TypeOK /\ t \in Handler /\ LocalOK(t) /\ t.step = "save" /\ Step(p) = "save"
      /\ VersionOK(p) /\ t.todo = {} /\ RowFree(p) /\ UNCHANGED <<lock, issued>>
      /\ txn \in [Procs -> Handler] /\ version \in Nat /\ t.ver \in Nat
  BY DEF IInv, TypeOK, Step, Save, Handler
<1>2. StockOK(p) /\ ~Closing(p) /\ LinesOK(t) /\ Outstanding' = Outstanding
  BY <1>1 DEF StockInv, LinesInv, Closing, Outstanding
<1>3. CASE GiveUp(p) /\ UNCHANGED <<db, version>>
  BY <1>1, <1>2, <1>3, StockGiveUp
<1>4. CASE /\ t.name = "RemovePhoto" /\ txn' = [txn EXCEPT ![p].step = "delete"]
           /\ db' = IF Scope = "save" THEN Merged(t) ELSE db
           /\ version' = version
  <2> DEFINE h == [t EXCEPT !.step = "delete"]
  <2>1. txn' = [txn EXCEPT ![p] = h]  BY <1>1, <1>4
  <2>2. h.step = "delete" /\ h.base = t.base /\ h.name = t.name
    BY <1>1 DEF Handler
  <2> HIDE DEF h
  <2>3. GoesOn(t, h)  BY <1>1, <1>4, <2>2 DEF GoesOn, ClosingSteps
  <2>4. t.order.lines = t.base.lines /\ t.order.status = t.base.status
    BY <1>1, <1>2, <1>4 DEF LinesOK, LineCommands, LocalOK
  <2>5. db'.lines = db.lines /\ db'.status = db.status
    BY <1>1, <1>4, <2>4, MergedLines DEF Merged, RowChanged
  <2>6. /\ h.step \notin ClosingSteps /\ h.step # "save" /\ Outstanding' \subseteq Outstanding
        /\ Step(p) # "idle" /\ version' = version
    BY <1>1, <1>2, <1>4, <2>2 DEF ClosingSteps
  <2> QED BY <2>1, <2>3, <2>5, <2>6, StockStay
<1>5. CASE /\ GiveUp(p) /\ db' = Merged(t) /\ ~Conflict(t)
           /\ version' = IF RowChanged(t) /\ t.name # "Open" THEN version + 1 ELSE version
           /\ t.name = "Open" => db.status = "NONE"
  <2>1. CASE ~RowChanged(t) /\ db'.lines = db.lines
    <3>1. t.name # "Open"  BY <1>1, <2>1 DEF LocalOK, RowChanged
    <3>2. db'.status = db.status /\ version' = version
      BY <1>5, <2>1 DEF Merged
    <3> QED BY <1>1, <1>2, <1>5, <2>1, <3>2, StockGiveUp
  <2>2. db'.status = IF RowChanged(t) THEN t.order.status ELSE db.status
    BY <1>5 DEF Merged
  <2>3. RowChanged(t) => /\ t.base.status = db.status
                         /\ t.order.status \notin {"NONE", "CLOSING"}
                         /\ db.status \in {"CLOSING", "CANCELLED"} => t.order.status = "CANCELLED"
    <3>1. CASE t.name = "Open"  BY <1>1, <1>5, <3>1 DEF LocalOK
    <3>2. CASE t.name # "Open" /\ RowChanged(t)
      <4>1. t.ver = version /\ t.base.status # "NONE"
        BY <1>1, <1>5, <3>2 DEF Conflict, LocalOK
      <4>2. t.base.status = db.status  BY <1>1, <1>2, <4>1 DEF VersionOK
      <4> QED BY <1>1, <3>2, <4>2 DEF LocalOK, SaveMove, RowChanged
    <3> QED BY <3>1, <3>2
  <2>4. CASE ~(~RowChanged(t) /\ db'.lines = db.lines)
    <3>1. db'.lines # db.lines => /\ \A q \in Procs : ~InClose(q)
                                  /\ db.status \notin {"CLOSING", "CLOSED", "CANCELLED"}
      BY EditFindsWork
    <3>2. \A q \in Procs : Closing(q) => InClose(q)
      BY DEF Closing, InClose, ClosingSteps
    <3>3. Outstanding = {} \/ db'.status = "CANCELLED"
      <4>1. CASE db'.lines # db.lines
        BY <3>1, <3>2, <4>1 DEF StockInv, HeldIn
      <4>2. CASE RowChanged(t) /\ db.status = "CLOSED"
        <5>1. t.name # "Open" /\ t.ver = version
          BY <1>5, <4>2 DEF Conflict
        <5> QED BY <1>1, <1>2, <2>3, <4>2, <5>1 DEF StockOK
      <4>3. CASE RowChanged(t) /\ db.status \in {"CLOSING", "CANCELLED"}
        BY <2>2, <2>3, <4>3
      <4>4. CASE RowChanged(t) /\ db.status \notin {"CLOSED", "CLOSING", "CANCELLED"}
        <5>1. db.status \notin HeldIn  BY <4>4 DEF HeldIn
        <5>2. \A q \in Procs : ~Closing(q)
          <6>1. CASE Scope = "request"  BY <1>1, <1>2, <4>4, <6>1, RowFreeNoCloser
          <6>2. CASE Scope = "save"  BY <4>4, <6>2 DEF IInv, RowOK
          <6> QED BY <6>1, <6>2, HandlerAssumption
        <5> QED BY <5>1, <5>2 DEF StockInv
      <4> QED BY <2>4, <4>1, <4>2, <4>3, <4>4
    <3>4. txn' = [txn EXCEPT ![p] = Idle] /\ Idle.step = "idle"
      BY <1>5 DEF GiveUp, Idle
    <3>5. /\ version' \in Nat
          /\ version' > version \/ version' = version
      BY <1>1, <1>5
    <3>6. /\ db.status # "NONE" => db'.status # "NONE"
          /\ db'.lines = db.lines \/ \A q \in Procs : ~InClose(q)
      BY <2>2, <2>3, <3>1
    <3>7. Outstanding' \subseteq Outstanding  BY <1>2
    <3>8. \A q \in Procs \ {p} : Step(q)' # "idle" => StockOK(q)'
      BY <3>4, <3>5, <3>6, <3>7, OthersStock
    <3>9. Step(p)' = "idle"  BY <1>1, <3>4 DEF Step
    <3>11. db'.status \notin HeldIn /\ (\A q \in Procs : ~Closing(q)') => Outstanding' = {}
      <4>1. CASE Outstanding = {}  BY <1>2, <4>1
      <4>2. CASE db'.status = "CANCELLED" /\ Scope = "save"  BY <4>2 DEF HeldIn
      <4>3. CASE db'.status = "CANCELLED" /\ Scope = "request" /\ RowChanged(t)
        <5>1. \A q \in Procs : ~Closing(q)  BY <1>1, <1>2, <4>3, RowFreeNoCloser
        <5>2. db.status # "CLOSED"
          BY <1>1, <2>2, <2>3, <4>3 DEF LocalOK, SaveMove
        <5>3. db.status \notin HeldIn  BY <4>3, <5>2 DEF HeldIn
        <5> QED BY <1>2, <5>1, <5>3 DEF StockInv
      <4>4. CASE db'.status = "CANCELLED" /\ ~RowChanged(t)
        BY <2>2, <2>4, <3>1, <4>4
      <4> QED BY <3>3, <4>1, <4>2, <4>3, <4>4, HandlerAssumption
    <3>12. HeldIn' = HeldIn  BY DEF HeldIn
    <3>13. Outstanding' \subseteq WrittenOff(db)'
      <4>1. CASE db'.lines = db.lines
        BY <1>2, <4>1 DEF StockInv, WrittenOff, LinesOf
      <4>2. CASE db'.lines # db.lines
        BY <1>2, <3>1, <3>2, <4>2 DEF StockInv, HeldIn
      <4> QED BY <4>1, <4>2
    <3> QED BY <3>8, <3>9, <3>11, <3>12, <3>13 DEF StockInv
  <2> QED BY <2>1, <2>4
<1> QED BY <1>1, <1>3, <1>4, <1>5 DEF Save

\* A close starts with nothing outstanding and takes down each line it consumes
\* and each it gives back.
LEMMA CloseStockStep ==
  ASSUME IInv, LinesInv, StockInv, NEW p \in Procs,
         StartClosing(p) \/ Preflight(p) \/ Consume(p) \/ Refuse(p) \/ Undo(p)
  PROVE  StockInv'
<1> DEFINE t == txn[p]
<1>1. /\ TypeOK /\ t \in Handler /\ LocalOK(t) /\ Step(p) = t.step /\ Step(p) # "idle"
      /\ txn \in [Procs -> Handler] /\ issued \in [Lines -> Nat] /\ t.todo \in SUBSET Lines
      /\ t.done \in SUBSET Lines /\ version \in Nat /\ t.ver \in Nat
      /\ t.base \in Order /\ t.order \in Order /\ VersionOK(p) /\ StockOK(p) /\ LinesOK(t)
  BY DEF IInv, StockInv, LinesInv, TypeOK, Step, StartClosing, Preflight, Consume, Refuse, Undo,
         Handler
<1>2. /\ t.name # "Open" /\ (Closing(p) <=> t.step \in ClosingSteps)
      /\ InClose(p) /\ t.base.lines = db.lines /\ t.order.lines = t.base.lines
  BY <1>1 DEF LinesOK, LineCommands, StockOK, Closing, ClosingSteps, InClose, StartClosing,
              Preflight, Consume, Refuse, Undo
<1>3. CASE StartClosing(p)
  <2>1. t.step = "start" /\ ~Closing(p) /\ UNCHANGED issued /\ RowFree(p)
    BY <1>1, <1>3 DEF StartClosing, Closing
  <2>2. CASE Conflict(t)
    <3>1. GiveUp(p) /\ UNCHANGED <<db, version>>  BY <1>3, <2>2 DEF StartClosing
    <3> QED BY <2>1, <3>1, StockGiveUp
  <2>3. CASE ~Conflict(t)
    <3>1. /\ RowChanged(t) /\ t.ver = version
          /\ t.base.status \in {"IN_PROGRESS", "AWAITING_REVIEW"} /\ t.order.status = "CLOSING"
      BY <1>1, <2>1, <2>3 DEF LocalOK, RowChanged, Conflict
    <3>2. db.status \in {"IN_PROGRESS", "AWAITING_REVIEW"}
      BY <1>1, <2>1, <3>1 DEF VersionOK
    <3>3. \A q \in Procs : ~Closing(q)
      <4>1. CASE Scope = "request"  BY <2>1, <3>1, <4>1, RowFreeNoCloser
      <4>2. CASE Scope = "save"  BY <3>2, <4>2 DEF IInv, RowOK
      <4> QED BY <4>1, <4>2, HandlerAssumption
    <3>4. Outstanding = {}  BY <3>2, <3>3 DEF StockInv, HeldIn
    <3>5. Outstanding' = {}  BY <2>1, <3>4 DEF Outstanding
    <3> DEFINE b == IF Scope = "save" THEN t.order ELSE t.base
               h == [t EXCEPT !.step = "preflight", !.ver = t.ver + 1, !.base = b]
    <3>6. txn' = [txn EXCEPT ![p] = h]
      BY <1>1, <1>3, <2>3 DEF StartClosing
    <3>7. b.lines = db.lines  BY <1>2
    <3> HIDE DEF b
    <3>8. /\ h.step = "preflight" /\ h.order = t.order /\ h.base = b /\ h.name = t.name
          /\ h.todo = t.todo /\ h.done = t.done /\ h.ver = t.ver + 1
      BY <1>1 DEF Handler
    <3> HIDE DEF h
    <3>9. h.done = {} /\ h.todo \cap h.done = {}  BY <1>1, <2>1, <3>8 DEF StockOK
    <3>10. CASE Scope = "request"
      <4>1. UNCHANGED <<db, version>>
        BY <1>3, <2>3, <3>10 DEF StartClosing
      <4>2. GoesOn(t, h)  BY <1>2, <2>1, <3>7, <3>8, <3>9 DEF GoesOn, ClosingSteps
      <4>3. /\ Outstanding' \subseteq h.done /\ h.step # "save"
            /\ Outstanding' \subseteq Outstanding
            /\ version' = version /\ db'.lines = db.lines /\ db'.status = db.status
        BY <3>5, <3>8, <4>1
      <4> QED BY <1>1, <3>6, <4>2, <4>3, StockStay
    <3>11. CASE Scope = "save"
      <4>1. db' = Merged(t) /\ version' = version + 1
        BY <1>3, <2>3, <3>11 DEF StartClosing
      <4>2. db'.lines = db.lines  BY <1>1, <1>2, <4>1, MergedLines
      <4>3. db'.status = "CLOSING"  BY <3>1, <4>1 DEF Merged
      <4>4. \A q \in Procs \ {p} : Step(q)' # "idle" => StockOK(q)'
        <5>1. version' \in Nat /\ version' > version  BY <1>1, <4>1
        <5>2. Outstanding' \subseteq Outstanding  BY <3>5
        <5>3. db.status # "NONE" => db'.status # "NONE"  BY <4>3
        <5> QED BY <3>6, <4>2, <5>1, <5>2, <5>3, OthersStock
      <4>5. (txn[p])' = h /\ txn'[p] = h  BY <1>1, <3>6
      <4>6. StockOK(p)'
        BY <3>5, <3>7, <3>8, <3>9, <4>2, <4>3, <4>5 DEF StockOK
      <4>9. HeldIn' = HeldIn  BY DEF HeldIn
      <4>10. Outstanding' \subseteq WrittenOff(db)'  BY <3>5
      <4> QED BY <3>5, <4>4, <4>6, <4>9, <4>10 DEF StockInv
    <3> QED BY <3>10, <3>11, HandlerAssumption
  <2> QED BY <2>2, <2>3
<1>4. CASE Preflight(p) \/ Refuse(p)
  <2>1. PICK n \in {"consume", "undo"} :
          /\ txn' = [txn EXCEPT ![p].step = n] /\ UNCHANGED <<db, version, issued>>
          /\ n = "consume" => t.step = "preflight"
    BY <1>1, <1>4 DEF Preflight, Refuse
  <2>2. t.step \in ClosingSteps  BY <1>1, <1>4 DEF Preflight, Refuse, ClosingSteps
  <2> DEFINE h == [t EXCEPT !.step = n]
  <2>3. txn' = [txn EXCEPT ![p] = h]  BY <1>1, <2>1
  <2>4. /\ h.step = n /\ h.order = t.order /\ h.base = t.base /\ h.name = t.name
        /\ h.todo = t.todo /\ h.done = t.done /\ h.ver = t.ver
    BY <1>1 DEF Handler
  <2> HIDE DEF h
  <2>5. Outstanding' = Outstanding  BY <2>1 DEF Outstanding
  <2>6. /\ Outstanding' \subseteq h.done
        /\ h.step = "consume" => h.todo \cap h.done = {}
    BY <1>1, <2>1, <2>2, <2>4, <2>5 DEF StockOK
  <2>7. GoesOn(t, h)  BY <2>1, <2>2, <2>4, <2>6 DEF GoesOn, ClosingSteps
  <2>8. /\ h.step # "save" /\ Outstanding' \subseteq Outstanding /\ version' = version
        /\ db'.lines = db.lines /\ db'.status = db.status
    BY <2>1, <2>4, <2>5
  <2> QED BY <1>1, <2>3, <2>6, <2>7, <2>8, StockStay
<1>5. CASE Consume(p)
  <2>1. t.step = "consume" /\ UNCHANGED <<db, version>>  BY <1>5 DEF Consume
  <2>2. PICK l \in t.todo :
          /\ l \in LinesOf(db) /\ db.lines[l].qty \in Nat /\ issued[l] = 0
          /\ issued' = [issued EXCEPT ![l] = db.lines[l].qty]
          /\ txn' = [txn EXCEPT ![p].todo = @ \ {l}, ![p].done = @ \cup {l}]
    BY <1>5, ConsumeWrites
  <2> DEFINE h == [t EXCEPT !.todo = t.todo \ {l}, !.done = t.done \cup {l}]
  <2>3. txn' = [txn EXCEPT ![p] = h]  BY <1>1, <2>2
  <2>4. /\ h.step = "consume" /\ h.order = t.order /\ h.base = t.base /\ h.name = t.name
        /\ h.todo = t.todo \ {l} /\ h.done = t.done \cup {l} /\ h.ver = t.ver
    BY <1>1, <2>1 DEF Handler
  <2> HIDE DEF h
  <2>5. t.todo \cap t.done = {} /\ Outstanding \subseteq t.done
    BY <1>1, <2>1 DEF StockOK, ClosingSteps
  <2>9. Outstanding' \subseteq Outstanding \cup {l} /\ (l \in Outstanding' => db.lines[l].qty > 0)
    BY <1>1, <2>2 DEF Outstanding
  <2>10. Outstanding' \subseteq WrittenOff(db)
    BY <2>2, <2>9 DEF StockInv, WrittenOff
  <2>11. Outstanding' \subseteq h.done /\ h.todo \cap h.done = {}
    BY <2>4, <2>5, <2>9
  <2>12. GoesOn(t, h) /\ Closing(p) /\ h.step # "save"
    BY <1>2, <2>1, <2>4, <2>11 DEF GoesOn, ClosingSteps
  <2>13. version' = version /\ db'.lines = db.lines /\ db'.status = db.status  BY <2>1
  <2> QED BY <1>1, <2>3, <2>10, <2>11, <2>12, <2>13, StockStay
<1>6. CASE Undo(p)
  <2>1. t.step = "undo" /\ UNCHANGED <<db, version>>  BY <1>1, <1>6 DEF Undo
  <2>2. PICK l \in t.done : /\ issued' = [issued EXCEPT ![l] = 0]
                            /\ txn' = [txn EXCEPT ![p].done = @ \ {l}]
    BY <1>6 DEF Undo
  <2> DEFINE h == [t EXCEPT !.done = t.done \ {l}]
  <2>3. txn' = [txn EXCEPT ![p] = h]  BY <1>1, <2>2
  <2>4. /\ h.step = "undo" /\ h.order = t.order /\ h.base = t.base /\ h.name = t.name
        /\ h.done = t.done \ {l} /\ h.ver = t.ver
    BY <1>1, <2>1 DEF Handler
  <2> HIDE DEF h
  <2>5. Outstanding' \subseteq Outstanding \ {l}  BY <1>1, <2>2 DEF Outstanding
  <2>6. Outstanding \subseteq t.done  BY <1>1, <2>1 DEF StockOK, ClosingSteps
  <2>7. GoesOn(t, h)  BY <2>1, <2>4 DEF GoesOn, ClosingSteps
  <2>8. /\ Outstanding' \subseteq h.done /\ h.step # "save" /\ Outstanding' \subseteq Outstanding
        /\ version' = version /\ db'.lines = db.lines /\ db'.status = db.status
    BY <2>1, <2>4, <2>5, <2>6
  <2> QED BY <1>1, <2>3, <2>7, <2>8, StockStay
<1> QED BY <1>3, <1>4, <1>5, <1>6

\* A close ends with everything given back, with the order closed, or overtaken by a
\* cancellation.
LEMMA EndStockStep ==
  ASSUME IInv, ~Aborts => CloserAlive, LinesInv, StockInv, NEW p \in Procs,
         RevertClosing(p) \/ FinalizeClose(p)
  PROVE  StockInv'
<1> DEFINE t == txn[p]
<1>1. /\ TypeOK /\ t \in Handler /\ Step(p) = t.step /\ t.step \in {"undo", "consume"}
      /\ txn \in [Procs -> Handler] /\ version \in Nat /\ VersionOK(p) /\ StockOK(p) /\ Closing(p)
      /\ t.order \in Order /\ t.ver \in Nat /\ GiveUp(p) /\ UNCHANGED issued
      /\ LocalOK(t) /\ LinesOK(t)
  BY DEF IInv, StockInv, LinesInv, TypeOK, Step, RevertClosing, FinalizeClose, Handler, Closing
<1>2. t.order.lines = t.base.lines /\ t.base.status \notin {"NONE", "CLOSED"}
  BY <1>1 DEF LinesOK, LineCommands, LocalOK, ClosingSteps
<1>3. Outstanding \subseteq t.done  BY <1>1 DEF StockOK, ClosingSteps
<1>4. txn' = [txn EXCEPT ![p] = Idle] /\ Idle.step = "idle"  BY <1>1 DEF GiveUp, Idle
<1>5. Step(p)' = "idle"  BY <1>1, <1>4 DEF Step
<1>6. Outstanding' = Outstanding  BY <1>1 DEF Outstanding
\* What the end of the close leaves when it moves the row.
<1>7. ASSUME NEW s \in {"IN_PROGRESS", "CLOSED"}, NEW c,
             c.order.status = s, c.order.lines = t.order.lines, c.base = t.base,
             db' = Merged(c), version' \in Nat, version' > version, t.base.status # s,
             s = "IN_PROGRESS" => Outstanding = {}
      PROVE  StockInv'
  <2>1. db'.lines = db.lines  BY <1>1, <1>2, <1>7, MergedLines
  <2>2. db'.status = s  BY <1>7 DEF Merged, RowChanged
  <2>3. WrittenOff(db)' = WrittenOff(db)  BY <2>1 DEF WrittenOff, LinesOf
  <2>4. \A q \in Procs \ {p} : Step(q)' # "idle" => StockOK(q)'
    <3>1. Outstanding' \subseteq Outstanding  BY <1>6
    <3>2. db.status # "NONE" => db'.status # "NONE"  BY <2>2
    <3> QED BY <1>4, <1>7, <2>1, <3>1, <3>2, OthersStock
  <2>6. HeldIn' = HeldIn /\ "CLOSED" \in HeldIn  BY DEF HeldIn
  <2>7. db'.status \notin HeldIn' => Outstanding' = {}  BY <1>6, <1>7, <2>2, <2>6
  <2>8. Outstanding' \subseteq WrittenOff(db)'  BY <1>6, <2>3 DEF StockInv
  <2> QED BY <1>5, <2>4, <2>7, <2>8 DEF StockInv
\* What it leaves when it does not: only a cancellation keeps it from that, unless
\* handlers die.
<1>8. ASSUME UNCHANGED <<db, version>>, Scope = "save" => t.ver # version,
             Scope = "request" => Outstanding = {}
      PROVE  StockInv'
  <2>1. Scope = "save" => db.status \in HeldIn
    <3>1. SUFFICES ASSUME Scope = "save", db.status = "CLOSING", ~Aborts PROVE FALSE
      BY <1>1 DEF IInv, RowOK, HeldIn
    <3>2. PICK q \in Procs : Closing(q) /\ txn[q].ver = version
      BY <3>1 DEF CloserAlive
    <3>3. q = p  BY <1>1, <3>2 DEF IInv, OneCloser
    <3> QED BY <1>8, <3>1, <3>2, <3>3
  <2>2. Closing(p) => db.status \in HeldIn \/ Outstanding = {}
    BY <1>8, <2>1, HandlerAssumption
  <2> QED BY <1>1, <1>8, <2>2, StockGiveUp
<1>9. CASE RevertClosing(p)
  <2> DEFINE c == [t EXCEPT !.order.status = "IN_PROGRESS"]
  <2>1. t.step = "undo" /\ t.done = {}  BY <1>9 DEF RevertClosing
  <2>2. Outstanding = {}  BY <1>3, <2>1
  <2>3. c.order.status = "IN_PROGRESS" /\ c.order.lines = t.order.lines /\ c.base = t.base
        /\ c.ver = t.ver
    BY <1>1 DEF Handler, Order
  <2>4. IF Scope = "save" /\ ~Conflict(c)
          THEN db' = Merged(c) /\ version' = version + 1
          ELSE UNCHANGED <<db, version>>
    BY <1>9 DEF RevertClosing
  <2> HIDE DEF c
  <2>5. CASE Scope = "save" /\ ~Conflict(c)
    <3>1. t.base.status = "CLOSING"  BY <1>1, <2>5 DEF LocalOK, ClosingSteps
    <3>2. version' \in Nat /\ version' > version  BY <1>1, <2>4, <2>5
    <3> QED BY <1>7, <2>2, <2>3, <2>4, <2>5, <3>1, <3>2
  <2>6. CASE ~(Scope = "save" /\ ~Conflict(c))
    <3>1. Scope = "save" => t.ver # version  BY <2>3, <2>6 DEF Conflict
    <3> QED BY <1>8, <2>2, <2>4, <2>6, <3>1
  <2> QED BY <2>5, <2>6
<1>10. CASE FinalizeClose(p)
  <2> DEFINE c == [t EXCEPT !.order.status = "CLOSED"]
  <2>1. c.order.status = "CLOSED" /\ c.order.lines = t.order.lines /\ c.base = t.base
        /\ c.ver = t.ver
    BY <1>1 DEF Handler, Order
  <2>2. IF Scope = "save" /\ Conflict(c)
          THEN UNCHANGED <<db, version>>
          ELSE db' = Merged(c) /\ version' = c.ver + 1
    BY <1>10 DEF FinalizeClose
  <2> HIDE DEF c
  <2>3. CASE Scope = "save" /\ Conflict(c)
    <3>1. t.ver # version /\ Scope # "request"  BY <2>1, <2>3 DEF Conflict
    <3> QED BY <1>8, <2>2, <2>3, <3>1
  <2>4. CASE ~(Scope = "save" /\ Conflict(c))
    <3>1. c.ver >= version
      <4>1. CASE Scope = "request"  BY <1>1, <2>1, <4>1 DEF VersionOK
      <4>2. CASE Scope = "save"
        <5>1. RowChanged(c)  BY <1>2, <2>1 DEF RowChanged
        <5> QED BY <1>1, <2>1, <2>4, <4>2, <5>1 DEF Conflict
      <4> QED BY <4>1, <4>2, HandlerAssumption
    <3>2. version' \in Nat /\ version' > version  BY <1>1, <2>1, <2>2, <2>4, <3>1
    <3> QED BY <1>2, <1>7, <2>1, <2>2, <2>4, <3>2
  <2> QED BY <2>3, <2>4
<1> QED BY <1>9, <1>10

\* A handler that dies where each save commits leaves goods outstanding only in an
\* order that stays closing or was cancelled.
LEMMA AbortStockStep ==
  ASSUME IInv, StockInv, Scope = "save", NEW p \in Procs, Abort(p)
  PROVE  StockInv'
<1>1. /\ Aborts /\ GiveUp(p) /\ UNCHANGED <<db, version, issued>>
  BY DEF Abort
<1>2. Closing(p) => db.status \in HeldIn
  BY <1>1 DEF IInv, RowOK, HeldIn
<1> QED BY <1>1, <1>2, StockGiveUp

\* Unless requests that roll back are cut short, and while lines are edited in time,
\* what is outstanding belongs to the row as written off, to the close under way, or
\* to the reopening that is giving it back.
LEMMA StockInvariance ==
  Scope = "save" \/ ~Aborts => (Spec /\ [][EditsInTime]_vars => []StockInv)
<1> SUFFICES ASSUME Scope = "save" \/ ~Aborts
             PROVE  Spec /\ [][EditsInTime]_vars => []StockInv
  OBVIOUS
<1>1. Init => StockInv
  <2> SUFFICES ASSUME Init PROVE StockInv
    OBVIOUS
  <2>1. Outstanding = {} /\ \A p \in Procs : Step(p) = "idle"
    BY DEF Init, Outstanding, Step, Idle
  <2> QED BY <2>1 DEF StockInv
<1>2. IInv /\ (~Aborts => CloserAlive) /\ LinesInv /\ StockInv /\ [Next]_vars /\ [EditsInTime]_vars
        => StockInv'
  <2> SUFFICES ASSUME IInv, ~Aborts => CloserAlive, LinesInv, StockInv,
                      [Next]_vars, [EditsInTime]_vars
               PROVE  StockInv'
    OBVIOUS
  <2>1. CASE UNCHANGED vars
    BY <2>1 DEF vars, StockInv, StockOK, RowChanged, Outstanding, WrittenOff, LinesOf, Closing,
                Step, InClose, HeldIn
  <2>2. CASE Next /\ EditsInTime
    <3>1. ASSUME NEW p \in Procs, Begin(p) PROVE StockInv'
      BY <3>1, BeginStockStep
    <3>2. ASSUME NEW p \in Procs, Continue(p) PROVE StockInv'
      BY <2>2, <3>2, FileStockStep, SaveStockStep, CloseStockStep, EndStockStep DEF Continue
    <3>3. ASSUME NEW p \in Procs, Abort(p) PROVE StockInv'
      BY <3>3, AbortStockStep DEF Abort
    <3> QED BY <2>2, <3>1, <3>2, <3>3 DEF Next
  <2> QED BY <2>1, <2>2
<1>3. Spec => [](~Aborts => CloserAlive)
  <2>1. CASE Aborts
    <3>1. ~Aborts => CloserAlive  BY <2>1
    <3> QED BY <3>1, PTL
  <2>2. CASE ~Aborts
    <3>1. Spec => []CloserAlive  BY <2>2, CloseGoesOn
    <3>2. CloserAlive => (~Aborts => CloserAlive)  OBVIOUS
    <3> QED BY <3>1, <3>2, PTL
  <2> QED BY <2>1, <2>2
<1> QED BY <1>1, <1>2, <1>3, Invariance, LinesInvariance, PTL DEF Spec

\* Where each request commits as a whole and runs to its end, an order that is neither
\* closed nor being closed holds no written-off stock, for any number of lines and
\* requests: the refused closes, the reopenings and the cancellations gave everything
\* back.  That lines are edited in time is needed: a line edited while the order is
\* closed is not given back as it was written off.
THEOREM NothingStaysOutstanding ==
  Scope = "request" /\ ~Aborts => (Spec /\ [][EditsInTime]_vars => []NothingOutstanding)
<1> SUFFICES ASSUME Scope = "request", ~Aborts
             PROVE  Spec /\ [][EditsInTime]_vars => []NothingOutstanding
  OBVIOUS
<1>1. IInv /\ StockInv => NothingOutstanding
  BY DEF IInv, TypeOK, StockInv, NothingOutstanding, Outstanding, HeldIn
<1> QED BY <1>1, Invariance, StockInvariance, PTL

\* With no close under way nothing is written off in a status outside HeldIn.
HeldNowhereElse ==
  db.status \notin HeldIn /\ (\A p \in Procs : ~Closing(p)) => \A l \in Lines : issued[l] = 0

\* Of either way to commit: with no close under way only a closed order has goods
\* written off or, where each save commits, one that was cancelled (the close it
\* overtook consumes on) or whose close died.  So no close of an order in work finds
\* any, whatever refusals, cancellations, late reopenings and deaths went before.
THEOREM StockHeldNowhereElse ==
  Scope = "save" \/ ~Aborts => (Spec /\ [][EditsInTime]_vars => []HeldNowhereElse)
<1> SUFFICES ASSUME Scope = "save" \/ ~Aborts
             PROVE  Spec /\ [][EditsInTime]_vars => []HeldNowhereElse
  OBVIOUS
<1>1. IInv /\ StockInv => HeldNowhereElse
  BY DEF IInv, TypeOK, StockInv, HeldNowhereElse, Outstanding
<1> QED BY <1>1, Invariance, StockInvariance, PTL

\* No line is consumed while some of it is outstanding, whatever closes, refusals,
\* cancellations and reopenings overlap, however they commit and, where each save
\* commits, wherever they are cut short.
THEOREM ConsumedOnce ==
  Scope = "save" \/ ~Aborts => (Spec /\ [][EditsInTime]_vars => NoDoubleWriteOff)
<1> SUFFICES ASSUME Scope = "save" \/ ~Aborts
             PROVE  Spec /\ [][EditsInTime]_vars => NoDoubleWriteOff
  OBVIOUS
<1>1. Spec /\ [][EditsInTime]_vars => []IInv /\ []StockInv /\ [][Next]_vars
  BY Invariance, StockInvariance, PTL DEF Spec
<1>2. IInv /\ StockInv /\ [Next]_vars
        => [\A l \in Lines : issued'[l] > issued[l] => issued[l] = 0]_vars
  <2> SUFFICES ASSUME IInv, StockInv, Next, NEW l \in Lines, issued'[l] > issued[l]
               PROVE  issued[l] = 0
    OBVIOUS
  <2>1. issued \in [Lines -> Nat]  BY DEF IInv, TypeOK
  <2>2. PICK p \in Procs : Begin(p) \/ Continue(p) \/ Abort(p)  BY DEF Next
  <2>3. issued' # issued  BY <2>1
  <2>4. ~Begin(p)  BY <2>3, BeginFresh DEF IInv
  <2>5. Consume(p) \/ GiveBack(p) \/ Undo(p)
    BY <2>2, <2>3, <2>4 DEF Continue, Abort, Upload, Save, DeleteObject, CommitRemoval,
       StartClosing, Preflight, Refuse, RevertClosing, FinalizeClose
  <2>6. ASSUME NEW k, issued' = [issued EXCEPT ![k] = 0] PROVE FALSE
    BY <2>1, <2>6
  <2>7. CASE Consume(p)
    <3>1. PICK k \in txn[p].todo : issued' = [issued EXCEPT ![k] = @ + txn[p].base.lines[k].qty]
      BY <2>7 DEF Consume
    <3>2. k = l  BY <2>1, <3>1
    <3>3. StockOK(p) /\ txn[p].step = "consume"
      BY <2>7 DEF StockInv, Consume, Step
    <3>4. l \notin Outstanding  BY <3>1, <3>2, <3>3 DEF StockOK, ClosingSteps
    <3> QED BY <2>1, <3>4 DEF Outstanding
  <2> QED BY <2>5, <2>6, <2>7 DEF GiveBack, Undo
<1> QED BY <1>1, <1>2, PTL DEF NoDoubleWriteOff

\* Only the save of a command on lines changes the lines of an order.
LEMMA EditIsSaved ==
  ASSUME IInv, LinesInv, Next, db.status # "NONE", db'.lines # db.lines
  PROVE  \E p \in Procs : Step(p) = "save" /\ txn[p].name \in LineCommands \cap Commands
<1>1. PICK p \in Procs : Begin(p) \/ Continue(p) \/ Abort(p)  BY DEF Next
<1> DEFINE t == txn[p]
<1>2. TypeOK /\ t \in Handler /\ Step(p) = t.step /\ t.order \in Order
  BY DEF IInv, TypeOK, Handler, Step
<1>3. ASSUME NEW s PROVE [t EXCEPT !.order.status = s].order.lines = t.order.lines
                         /\ [t EXCEPT !.order.status = s].base = t.base
  BY <1>2 DEF Handler, Order
<1>4. ASSUME NEW c, c.order.lines = t.order.lines, c.base = t.base, db' = Merged(c),
             Step(p) # "idle", t.name # "Open"
      PROVE  Step(p) = "save" /\ t.name \in LineCommands \cap Commands
  <2>1. t.order.lines # t.base.lines  BY <1>2, <1>4, MergedLines
  <2> QED BY <1>2, <1>4, <2>1 DEF LinesInv, LinesOK
<1>5. CASE Begin(p)  BY <1>2, <1>5, BeginFresh
<1>6. CASE Save(p)
  <2>1. db' = db \/ (db' = Merged(t) /\ t.name # "Open")
    BY <1>6 DEF Save
  <2> QED BY <1>4, <1>6, <2>1 DEF Save, Step
<1>7. CASE CommitRemoval(p)
  <2>1. t.step = "commit" /\ db' = Merged(t)  BY <1>2, <1>7 DEF CommitRemoval
  <2> QED BY <1>2, <1>4, <2>1 DEF LinesInv, LinesOK
<1>8. CASE StartClosing(p) \/ RevertClosing(p) \/ FinalizeClose(p)
  <2>1. t.name # "Open" /\ Step(p) # "idle"
    BY <1>2, <1>8 DEF StartClosing, RevertClosing, FinalizeClose, LinesInv, LinesOK
  <2>2. CASE db' = Merged(t)  BY <1>4, <2>1, <2>2
  <2>3. CASE \E s : db' = Merged([t EXCEPT !.order.status = s])
    <3>1. PICK s : db' = Merged([t EXCEPT !.order.status = s])  BY <2>3
    <3> DEFINE c == [t EXCEPT !.order.status = s]
    <3>2. c.order.lines = t.order.lines /\ c.base = t.base /\ db' = Merged(c)
      BY <1>3, <3>1
    <3> HIDE DEF c
    <3> QED BY <1>4, <2>1, <3>2
  <2> QED BY <1>8, <2>2, <2>3 DEF StartClosing, RevertClosing, FinalizeClose
<1>9. CASE Upload(p) \/ GiveBack(p) \/ DeleteObject(p) \/ Preflight(p) \/ Consume(p)
           \/ Refuse(p) \/ Undo(p) \/ Abort(p)
  BY <1>9 DEF Upload, GiveBack, DeleteObject, Preflight, Consume, Refuse, Undo, Abort
<1> QED BY <1>1, <1>5, <1>6, <1>7, <1>8, <1>9 DEF Continue

\* Requests that edit no line are in time: only an edit of lines, or the insert of a
\* new order, changes them.
LEMMA NoEditsInTime == Commands \cap LineCommands = {} => (Spec => [][EditsInTime]_vars)
<1> SUFFICES ASSUME Commands \cap LineCommands = {} PROVE Spec => [][EditsInTime]_vars
  OBVIOUS
<1>1. IInv /\ LinesInv /\ [Next]_vars => [EditsInTime]_vars
  BY EditIsSaved DEF EditsInTime
<1> QED BY <1>1, Invariance, LinesInvariance, PTL DEF Spec

(***************************************************************************)
(* A closed order is written off as it stands.                             *)
(***************************************************************************)
\* A line is given back only by a handler that is not too late for its save and, where
\* each save commits, never beside a close (a cancellation that found the order
\* closing): nothing in the code sees to that, since the port is called before the
\* version is checked.
BackInTime ==
  \A p \in Procs : GiveBack(p) =>
    /\ txn[p].ver = version
    /\ Scope = "save" => \A q \in Procs : ~Closing(q)

\* What handler t does with the lines of order o when i is written off.
ExactOK(t, o, i) ==
  /\ t.step \in {"start", "preflight", "consume"} => t.todo = WrittenOff(t.base) \ t.done
  /\ t.step \in ClosingSteps => \A l \in t.done : i[l] = o.lines[l].qty
  /\ t.step = "save" /\ t.todo # {}
       => RowChanged(t) /\ t.base.status \in {"CLOSING", "CLOSED"}
  /\ t.step = "upload" => t.todo = {}

\* p is reopening the order as it is.
TakesBack(p) ==
  /\ txn[p].step = "save" /\ txn[p].base.status = "CLOSED"
  /\ RowChanged(txn[p]) /\ txn[p].ver = version

ExactHandlers == \A p \in Procs : Step(p) # "idle" => ExactOK(txn[p], db, issued)

ExactRow ==
  db.status = "CLOSED" =>
    \A l \in WrittenOff(db) : \/ issued[l] = db.lines[l].qty
                              \/ \E p \in Procs : TakesBack(p) /\ l \notin txn[p].todo

\* A step of p keeps what the others know if it leaves lines and stock alone, or if no
\* other close is running.
LEMMA ExactOthers ==
  ASSUME TypeOK, ExactHandlers, NEW p \in Procs, NEW h,
         txn' = [txn EXCEPT ![p] = h],
         \/ issued' = issued /\ db'.lines = db.lines
         \/ \A q \in Procs \ {p} : ~Closing(q),
         h.step = "idle" \/ ExactOK(h, db', issued')
  PROVE  ExactHandlers'
<1>1. txn'[p] = h /\ \A q \in Procs \ {p} : txn'[q] = txn[q]  BY DEF TypeOK
<1>2. ASSUME NEW q \in Procs \ {p}, txn[q].step # "idle"
      PROVE  ExactOK(txn[q], db', issued')
  <2>1. ExactOK(txn[q], db, issued)  BY <1>2 DEF ExactHandlers, Step
  <2>2. Closing(q) <=> txn[q].step \in ClosingSteps  BY DEF Closing, Step, ClosingSteps
  <2> QED BY <2>1, <2>2 DEF ExactOK
<1>3. ASSUME NEW q \in Procs, txn'[q].step # "idle"
      PROVE  ExactOK(txn'[q], db', issued')
  BY <1>1, <1>2, <1>3
<1> QED BY <1>3 DEF ExactHandlers, Step, ExactOK, RowChanged

\* The account of a closed order stands while the row and the stock do and no
\* reopening that gave lines back gives up.
LEMMA ExactRowStays ==
  ASSUME TypeOK, ExactRow, NEW p \in Procs, NEW h,
         txn' = [txn EXCEPT ![p] = h], issued' = issued,
         db'.status = "CLOSED" => /\ db.status = "CLOSED" /\ db'.lines = db.lines
                                  /\ version' = version /\ ~TakesBack(p)
  PROVE  ExactRow'
<1>1. \A q \in Procs \ {p} : txn'[q] = txn[q]  BY DEF TypeOK
<1>2. SUFFICES ASSUME db'.status = "CLOSED", NEW l \in WrittenOff(db)',
                      issued'[l] # db'.lines[l].qty
               PROVE  \E q \in Procs : TakesBack(q)' /\ l \notin txn'[q].todo
  BY DEF ExactRow
<1>3. l \in WrittenOff(db) /\ issued[l] # db.lines[l].qty
  BY <1>2 DEF WrittenOff, LinesOf
<1>4. PICK q \in Procs : TakesBack(q) /\ l \notin txn[q].todo
  BY <1>2, <1>3 DEF ExactRow
<1>5. q # p /\ txn'[q] = txn[q]  BY <1>1, <1>2, <1>4
<1>6. TakesBack(q)'  BY <1>2, <1>4, <1>5 DEF TakesBack, RowChanged
<1> QED BY <1>4, <1>5, <1>6

LEMMA BeginExactStep ==
  ASSUME IInv, ExactHandlers, ExactRow, NEW p \in Procs, Begin(p)
  PROVE  ExactHandlers' /\ ExactRow'
<1>1. /\ TypeOK /\ txn \in [Procs -> Handler]
      /\ Step(p) = "idle" /\ UNCHANGED <<db, version, issued>>
  BY BeginFresh DEF IInv, TypeOK
<1>2. PICK h \in Handler : /\ txn' = [txn EXCEPT ![p] = h]
                           /\ h.step \in {"save", "upload", "start"}
  BY <1>1, BeginFresh
<1>3. txn'[p] = h  BY <1>1, <1>2
<1>4. /\ h.base = db /\ h.done = {}
      /\ h.step = "save" /\ h.todo # {}
           => RowChanged(h) /\ h.base.status \in {"CLOSING", "CLOSED"}
      /\ h.step = "start" => h.todo = WrittenOff(db)
      /\ h.step = "upload" => h.todo = {}
  BY <1>1, <1>3, BeginLines
<1>5. ExactOK(h, db', issued')
  BY <1>2, <1>4 DEF ExactOK, ClosingSteps
<1>6. ~TakesBack(p)  BY <1>1 DEF TakesBack, Step
<1> QED BY <1>1, <1>2, <1>5, <1>6, ExactOthers, ExactRowStays

\* A handler that ends without moving a closed row.
LEMMA ExactGiveUp ==
  ASSUME TypeOK, ExactHandlers, ExactRow, NEW p \in Procs, GiveUp(p), issued' = issued,
         db'.lines = db.lines \/ \A q \in Procs : ~Closing(q),
         db'.status = "CLOSED" => /\ db.status = "CLOSED" /\ db'.lines = db.lines
                                  /\ version' = version /\ ~TakesBack(p)
  PROVE  ExactHandlers' /\ ExactRow'
<1>1. txn' = [txn EXCEPT ![p] = Idle] /\ Idle.step = "idle"  BY DEF GiveUp, Idle
<1> QED BY <1>1, ExactOthers, ExactRowStays

\* A handler with one save gives lines back only for the row as it is, and a save of
\* one that did takes the order out of CLOSED.
LEMMA FileExactStep ==
  ASSUME IInv, LinesInv, StockInv, ExactHandlers, ExactRow, EditsInTime, BackInTime,
         NEW p \in Procs,
         Upload(p) \/ GiveBack(p) \/ Save(p) \/ DeleteObject(p) \/ CommitRemoval(p)
  PROVE  ExactHandlers' /\ ExactRow'
<1> DEFINE t == txn[p]
<1>1. /\ TypeOK /\ t \in Handler /\ LocalOK(t) /\ Step(p) = t.step /\ Step(p) # "idle"
      /\ txn \in [Procs -> Handler] /\ issued \in [Lines -> Nat] /\ t.todo \in SUBSET Lines
      /\ t.base \in Order /\ VersionOK(p) /\ version \in Nat /\ t.ver \in Nat
  BY DEF IInv, TypeOK, Step, Upload, GiveBack, Save, DeleteObject, CommitRemoval, Handler
<1>2. ExactOK(t, db, issued) /\ LinesOK(t) /\ t.step \notin ClosingSteps /\ ~Closing(p)
  BY <1>1 DEF ExactHandlers, LinesInv, Closing, ClosingSteps, Upload, GiveBack, Save,
              DeleteObject, CommitRemoval
<1>3. CASE Upload(p)
  <2>1. t.step = "upload" /\ UNCHANGED <<db, version, issued>> /\ ~TakesBack(p)
    BY <1>1, <1>3 DEF Upload, TakesBack
  <2>2. PICK f \in t.photo :
          IF (IF t.before THEN CanAddBefore(t.base) ELSE CanAddAfter(t.base))
            THEN txn' = [txn EXCEPT ![p].step = "save",
                                    ![p].order = IF t.before THEN AddBefore(t.base, f)
                                                             ELSE AddAfter(t.base, f)]
            ELSE GiveUp(p)
    BY <1>3 DEF Upload
  <2>3. CASE GiveUp(p)  BY <1>1, <2>1, <2>3, ExactGiveUp
  <2>4. CASE txn' = [txn EXCEPT ![p].step = "save",
                                ![p].order = IF t.before THEN AddBefore(t.base, f)
                                                         ELSE AddAfter(t.base, f)]
    <3> DEFINE o == IF t.before THEN AddBefore(t.base, f) ELSE AddAfter(t.base, f)
               h == [t EXCEPT !.step = "save", !.order = o]
    <3>1. txn' = [txn EXCEPT ![p] = h]  BY <1>1, <2>4
    <3> HIDE DEF o
    <3>2. h.step = "save" /\ h.todo = t.todo  BY <1>1 DEF Handler
    <3> HIDE DEF h
    <3>3. ExactOK(h, db', issued')  BY <1>2, <2>1, <3>2 DEF ExactOK, ClosingSteps
    <3> QED BY <1>1, <2>1, <3>1, <3>3, ExactOthers, ExactRowStays
  <2> QED BY <2>2, <2>3, <2>4
<1>4. CASE GiveBack(p)
  <2>1. PICK l \in t.todo : /\ issued' = [issued EXCEPT ![l] = 0]
                            /\ txn' = [txn EXCEPT ![p].todo = @ \ {l}]
    BY <1>4 DEF GiveBack
  <2>2. t.step = "save" /\ UNCHANGED <<db, version>>  BY <1>1, <1>4 DEF GiveBack
  <2>3. RowChanged(t) /\ t.base.status \in {"CLOSING", "CLOSED"}
    BY <1>2, <2>1, <2>2 DEF ExactOK
  <2>4. t.ver = version /\ (\A q \in Procs : ~Closing(q))
    <3>1. t.ver = version /\ (Scope = "save" => \A q \in Procs : ~Closing(q))
      BY <1>4 DEF BackInTime
    <3>2. db.status \in {"CLOSING", "CLOSED"}
      BY <1>1, <1>2, <2>3, <3>1 DEF VersionOK
    <3>3. ASSUME NEW q \in Procs, Closing(q), Scope = "request" PROVE FALSE
      <4>1. VersionOK(q) /\ LocalOK(txn[q])  BY <3>3 DEF IInv, Closing
      <4> QED BY <3>2, <3>3, <4>1, HandlerAssumption
            DEF VersionOK, LocalOK, Closing, ClosingSteps, Step
    <3> QED BY <3>1, <3>3, HandlerAssumption
  <2> DEFINE h == [t EXCEPT !.todo = t.todo \ {l}]
  <2>5. txn' = [txn EXCEPT ![p] = h]  BY <1>1, <2>1
  <2>6. /\ h.step = "save" /\ h.order = t.order /\ h.base = t.base /\ h.name = t.name
        /\ h.ver = t.ver /\ h.todo = t.todo \ {l}
    BY <1>1, <2>2 DEF Handler
  <2> HIDE DEF h
  <2>7. ExactOK(h, db', issued')
    BY <2>3, <2>6 DEF ExactOK, ClosingSteps, RowChanged
  <2>8. ExactHandlers'  BY <1>1, <2>4, <2>5, <2>7, ExactOthers
  <2>9. ExactRow'
    <3>1. SUFFICES ASSUME db.status = "CLOSED", NEW k \in WrittenOff(db),
                          issued'[k] # db.lines[k].qty
                   PROVE  \E q \in Procs : TakesBack(q)' /\ k \notin txn'[q].todo
      BY <2>2 DEF ExactRow, WrittenOff, LinesOf
    <3>2. txn'[p] = h /\ \A q \in Procs \ {p} : txn'[q] = txn[q]  BY <1>1, <2>5
    <3>3. t.base.status = "CLOSED"
      BY <1>1, <1>2, <2>2, <2>4, <2>3, <3>1 DEF LocalOK, RowChanged, VersionOK
    <3>4. TakesBack(p)'
      BY <2>2, <2>4, <2>3, <2>6, <3>2, <3>3 DEF TakesBack, RowChanged
    <3>5. CASE k = l  BY <2>6, <3>2, <3>4, <3>5
    <3>6. CASE k # l
      <4>1. issued[k] # db.lines[k].qty
        BY <1>1, <2>1, <3>1, <3>6 DEF WrittenOff, LinesOf
      <4>2. PICK q \in Procs : TakesBack(q) /\ k \notin txn[q].todo
        BY <3>1, <4>1 DEF ExactRow
      <4>3. CASE q = p  BY <2>6, <3>2, <3>4, <4>2, <4>3
      <4>4. CASE q # p
        <5>1. TakesBack(q)'  BY <2>2, <3>2, <4>2, <4>4 DEF TakesBack, RowChanged
        <5> QED BY <3>2, <4>2, <4>4, <5>1
      <4> QED BY <4>3, <4>4
    <3> QED BY <3>5, <3>6
  <2> QED BY <2>8, <2>9
<1>5. CASE Save(p)
  <2>1. /\ t.step = "save" /\ t.todo = {} /\ UNCHANGED issued
    BY <1>1, <1>5 DEF Save
  <2>2. CASE GiveUp(p) /\ UNCHANGED <<db, version>>
            /\ (Conflict(t) \/ (t.name = "Open" /\ db.status # "NONE"))
    <3>1. ~TakesBack(p)  BY <1>1, <2>1, <2>2 DEF TakesBack, Conflict, LocalOK
    <3> QED BY <1>1, <2>1, <2>2, <3>1, ExactGiveUp
  <2>3. CASE /\ t.name = "RemovePhoto" /\ txn' = [txn EXCEPT ![p].step = "delete"]
             /\ db' = IF Scope = "save" THEN Merged(t) ELSE db
             /\ version' = version
    <3> DEFINE h == [t EXCEPT !.step = "delete"]
    <3>1. txn' = [txn EXCEPT ![p] = h]  BY <1>1, <2>3
    <3>2. h.step = "delete"  BY <1>1 DEF Handler
    <3> HIDE DEF h
    <3>3. t.order.lines = t.base.lines /\ t.order.status = t.base.status
      BY <1>1, <1>2, <2>1, <2>3 DEF LinesOK, LineCommands, LocalOK
    <3>4. db'.lines = db.lines /\ db'.status = db.status
      BY <1>1, <2>3, <3>3, MergedLines DEF Merged, RowChanged
    <3>5. ~TakesBack(p)  BY <3>3 DEF TakesBack, RowChanged
    <3>6. ExactOK(h, db', issued')  BY <3>2 DEF ExactOK, ClosingSteps
    <3> QED BY <1>1, <2>1, <2>3, <3>1, <3>4, <3>5, <3>6, ExactOthers, ExactRowStays
  <2>4. CASE /\ GiveUp(p) /\ db' = Merged(t) /\ ~Conflict(t)
             /\ version' = IF RowChanged(t) /\ t.name # "Open" THEN version + 1 ELSE version
    <3>1. db'.lines = db.lines \/ (db.status # "CLOSED" /\ \A q \in Procs : ~Closing(q))
      <4>1. \A q \in Procs : Closing(q) => InClose(q)
        BY DEF Closing, InClose, ClosingSteps
      <4> QED BY <4>1, EditFindsWork
    <3>2. RowChanged(t) => db'.status # "CLOSED"
      BY <1>1, <2>1, <2>4 DEF Merged, LocalOK, SaveMove, RowChanged
    <3>3. ~RowChanged(t) => /\ db'.status = db.status /\ version' = version
                            /\ ~TakesBack(p)
      BY <2>4 DEF Merged, TakesBack
    <3> QED BY <1>1, <2>1, <2>4, <3>1, <3>2, <3>3, ExactGiveUp
  <2> QED BY <1>5, <2>2, <2>3, <2>4 DEF Save
<1>6. CASE DeleteObject(p)
  <2>1. t.step = "delete" /\ UNCHANGED <<db, version, issued>> /\ ~TakesBack(p)
    BY <1>1, <1>6 DEF DeleteObject, TakesBack
  <2>2. CASE GiveUp(p)  BY <1>1, <2>1, <2>2, ExactGiveUp
  <2>3. CASE txn' = [txn EXCEPT ![p].step = "commit"]
    <3> DEFINE h == [t EXCEPT !.step = "commit"]
    <3>1. txn' = [txn EXCEPT ![p] = h]  BY <1>1, <2>3
    <3>2. h.step = "commit"  BY <1>1 DEF Handler
    <3> HIDE DEF h
    <3>3. ExactOK(h, db', issued')  BY <3>2 DEF ExactOK, ClosingSteps
    <3> QED BY <1>1, <2>1, <3>1, <3>3, ExactOthers, ExactRowStays
  <2> QED BY <1>6, <2>2, <2>3 DEF DeleteObject
<1>7. CASE CommitRemoval(p)
  <2>1. /\ t.step = "commit" /\ db' = Merged(t) /\ GiveUp(p)
        /\ UNCHANGED <<version, issued>> /\ ~TakesBack(p)
    BY <1>1, <1>7 DEF CommitRemoval, TakesBack
  <2>2. t.name = "RemovePhoto" /\ t.order.status = t.base.status
    BY <1>1, <2>1 DEF LocalOK
  <2>3. t.order.lines = t.base.lines  BY <1>2, <2>1, <2>2 DEF LinesOK, LineCommands
  <2>4. db'.lines = db.lines  BY <1>1, <2>1, <2>3, MergedLines
  <2>5. db'.status = db.status  BY <2>1, <2>2 DEF Merged, RowChanged
  <2> QED BY <1>1, <2>1, <2>4, <2>5, ExactGiveUp
<1> QED BY <1>3, <1>4, <1>5, <1>6, <1>7

\* A close lists every line the row has to be written off and takes each down in the
\* quantity of the row; it closes the order with none left.
LEMMA CloseExactStep ==
  ASSUME IInv, LinesInv, StockInv, ExactHandlers, ExactRow, NEW p \in Procs,
         \/ StartClosing(p) \/ Preflight(p) \/ Consume(p) \/ Refuse(p) \/ Undo(p)
         \/ RevertClosing(p) \/ FinalizeClose(p)
  PROVE  ExactHandlers' /\ ExactRow'
<1> DEFINE t == txn[p]
<1>1. /\ TypeOK /\ t \in Handler /\ LocalOK(t) /\ Step(p) = t.step /\ Step(p) # "idle"
      /\ txn \in [Procs -> Handler] /\ issued \in [Lines -> Nat] /\ t.todo \in SUBSET Lines
      /\ t.done \in SUBSET Lines /\ t.base \in Order /\ t.order \in Order
      /\ StockOK(p) /\ LinesOK(t) /\ ExactOK(t, db, issued)
      /\ t.step \in {"start", "preflight", "consume", "undo"} /\ ~TakesBack(p)
  BY DEF IInv, StockInv, LinesInv, ExactHandlers, TypeOK, Step, StartClosing, Preflight,
         Consume, Refuse, Undo, RevertClosing, FinalizeClose, Handler, TakesBack
<1>2. t.base.lines = db.lines /\ t.order.lines = t.base.lines
  BY <1>1 DEF LinesOK, LineCommands, StockOK, ClosingSteps, InClose
<1>3. CASE StartClosing(p)
  <2>1. t.step = "start" /\ UNCHANGED issued
    BY <1>1, <1>3 DEF StartClosing
  <2>2. CASE Conflict(t)
    <3>1. GiveUp(p) /\ UNCHANGED <<db, version>>  BY <1>3, <2>2 DEF StartClosing
    <3> QED BY <1>1, <2>1, <3>1, ExactGiveUp
  <2>3. CASE ~Conflict(t)
    <3> DEFINE b == IF Scope = "save" THEN t.order ELSE t.base
               h == [t EXCEPT !.step = "preflight", !.ver = t.ver + 1, !.base = b]
    <3>1. txn' = [txn EXCEPT ![p] = h]  BY <1>1, <1>3, <2>3 DEF StartClosing
    <3>2. b.lines = t.base.lines  BY <1>2
    <3> HIDE DEF b
    <3>3. h.step = "preflight" /\ h.base = b /\ h.todo = t.todo /\ h.done = t.done
      BY <1>1 DEF Handler
    <3> HIDE DEF h
    <3>4. WrittenOff(h.base) = WrittenOff(t.base)
      BY <3>2, <3>3 DEF WrittenOff, LinesOf
    <3>5. t.todo = WrittenOff(t.base) \ t.done /\ t.done = {}
      BY <1>1, <2>1 DEF ExactOK, StockOK
    <3>6. ExactOK(h, db', issued')
      BY <3>3, <3>4, <3>5 DEF ExactOK, ClosingSteps
    <3>7. db'.lines = db.lines /\ (UNCHANGED <<db, version>> \/ db'.status = "CLOSING")
      <4>1. CASE Scope = "save"
        <5>1. db' = Merged(t)  BY <1>3, <2>3, <4>1 DEF StartClosing
        <5>2. t.order.status = "CLOSING" /\ RowChanged(t)
          BY <1>1, <2>1 DEF LocalOK, RowChanged
        <5> QED BY <1>1, <1>2, <5>1, <5>2, MergedLines DEF Merged
      <4>2. CASE Scope # "save"
        BY <1>3, <2>3, <4>2 DEF StartClosing
      <4> QED BY <4>1, <4>2
    <3>8. db'.status = "CLOSED" => /\ db.status = "CLOSED" /\ db'.lines = db.lines
                                   /\ version' = version /\ ~TakesBack(p)
      BY <1>1, <3>7
    <3> QED BY <1>1, <2>1, <3>1, <3>6, <3>7, <3>8, ExactOthers, ExactRowStays
  <2> QED BY <2>2, <2>3
<1>4. CASE Preflight(p) \/ Refuse(p)
  <2>1. PICK n \in {"consume", "undo"} :
          /\ txn' = [txn EXCEPT ![p].step = n] /\ UNCHANGED <<db, version, issued>>
          /\ t.step \in {"preflight", "consume"}
    BY <1>1, <1>4 DEF Preflight, Refuse
  <2> DEFINE h == [t EXCEPT !.step = n]
  <2>2. txn' = [txn EXCEPT ![p] = h]  BY <1>1, <2>1
  <2>3. h.step = n /\ h.base = t.base /\ h.todo = t.todo /\ h.done = t.done
    BY <1>1 DEF Handler
  <2> HIDE DEF h
  <2>4. ExactOK(h, db', issued')  BY <1>1, <2>1, <2>3 DEF ExactOK, ClosingSteps
  <2> QED BY <1>1, <2>1, <2>2, <2>4, ExactOthers, ExactRowStays
<1>5. CASE Consume(p) \/ Undo(p)
  <2>1. PICK l \in Lines, n \in Nat, T \in SUBSET Lines, D \in SUBSET Lines :
          /\ issued' = [issued EXCEPT ![l] = n]
          /\ txn' = [txn EXCEPT ![p].todo = T, ![p].done = D]
          /\ D \ {l} \subseteq t.done /\ (l \in D => n = db.lines[l].qty)
          /\ t.step = "consume" => T = t.todo \ {l} /\ D = t.done \cup {l}
    <3>1. CASE Consume(p)
      <4>1. PICK l \in t.todo :
              /\ l \in LinesOf(db) /\ db.lines[l].qty \in Nat /\ issued[l] = 0
              /\ issued' = [issued EXCEPT ![l] = db.lines[l].qty]
              /\ txn' = [txn EXCEPT ![p].todo = @ \ {l}, ![p].done = @ \cup {l}]
        BY <3>1, ConsumeWrites
      <4>2. txn' = [txn EXCEPT ![p].todo = t.todo \ {l}, ![p].done = t.done \cup {l}]
        BY <1>1, <4>1
      <4>3. t.step = "consume"  BY <3>1 DEF Consume
      <4>4. l \in Lines /\ t.todo \ {l} \in SUBSET Lines /\ t.done \cup {l} \in SUBSET Lines
        BY <1>1, <4>1
      <4> USE <1>1, <4>1, <4>4
      <4> WITNESS l \in Lines, db.lines[l].qty \in Nat, t.todo \ {l} \in SUBSET Lines,
                  t.done \cup {l} \in SUBSET Lines
      <4> QED BY <4>1, <4>2, <4>3
    <3>2. CASE Undo(p)
      <4>1. t.step = "undo"  BY <3>2 DEF Undo, Step
      <4>2. PICK l \in t.done : /\ issued' = [issued EXCEPT ![l] = 0]
                                /\ txn' = [txn EXCEPT ![p].done = @ \ {l}]
        BY <3>2 DEF Undo
      <4>3. [t EXCEPT !.todo = t.todo, !.done = t.done \ {l}] = [t EXCEPT !.done = t.done \ {l}]
        BY <1>1 DEF Handler
      <4>4. txn' = [txn EXCEPT ![p].todo = t.todo, ![p].done = t.done \ {l}]
        BY <1>1, <4>2, <4>3
      <4>5. l \in Lines /\ t.done \ {l} \in SUBSET Lines
        BY <1>1, <4>2
      <4> USE <1>1, <4>5
      <4> WITNESS l \in Lines, 0 \in Nat, t.todo \in SUBSET Lines,
                  t.done \ {l} \in SUBSET Lines
      <4> QED BY <4>1, <4>2, <4>4
    <3> QED BY <1>5, <3>1, <3>2
  <2>2. /\ UNCHANGED <<db, version>> /\ Closing(p) /\ t.step \in {"consume", "undo"}
    BY <1>1, <1>5 DEF Consume, Undo, Closing
  <2> DEFINE h == [t EXCEPT !.todo = T, !.done = D]
  <2>3. txn' = [txn EXCEPT ![p] = h]  BY <1>1, <2>1
  <2>4. h.step = t.step /\ h.base = t.base /\ h.todo = T /\ h.done = D
    BY <1>1 DEF Handler
  <2> HIDE DEF h
  <2>5. \A k \in h.done : issued'[k] = db'.lines[k].qty
    <3>1. \A k \in t.done : issued[k] = db.lines[k].qty
      BY <1>1, <2>2 DEF ExactOK, ClosingSteps
    <3> QED BY <1>1, <2>1, <2>2, <2>4, <3>1
  <2>6. h.step = "consume" => h.todo = WrittenOff(h.base) \ h.done
    BY <1>1, <2>1, <2>4 DEF ExactOK
  <2>7. ExactOK(h, db', issued')
    BY <2>2, <2>4, <2>5, <2>6 DEF ExactOK, ClosingSteps
  <2>8. \A q \in Procs \ {p} : ~Closing(q)  BY <2>2 DEF IInv, OneCloser
  <2>9. db.status # "CLOSED"  BY <2>2, ClosingIsNotClosed
  <2>10. ExactHandlers'  BY <1>1, <2>3, <2>7, <2>8, ExactOthers
  <2> QED BY <2>2, <2>9, <2>10 DEF ExactRow
<1>6. ASSUME NEW s \in {"IN_PROGRESS", "CLOSED"}, NEW c, GiveUp(p), UNCHANGED issued,
             c.order.lines = t.order.lines, c.base = t.base, c.order.status = s,
             UNCHANGED <<db, version>> \/ (db' = Merged(c) /\ t.base.status # s),
             s = "CLOSED" => t.step = "consume" /\ t.todo = {}
      PROVE  ExactHandlers' /\ ExactRow'
  <2>1. CASE UNCHANGED <<db, version>>
    BY <1>1, <1>6, <2>1, ExactGiveUp
  <2>2. CASE db' = Merged(c) /\ t.base.status # s
    <3>1. db'.lines = db.lines  BY <1>1, <1>2, <1>6, <2>2, MergedLines
    <3>2. db'.status = s  BY <1>6, <2>2 DEF Merged, RowChanged
    <3>3. CASE s = "IN_PROGRESS"
      BY <1>1, <1>6, <3>1, <3>2, <3>3, ExactGiveUp
    <3>4. CASE s = "CLOSED"
      <4>1. txn' = [txn EXCEPT ![p] = Idle] /\ Idle.step = "idle"
        BY <1>6 DEF GiveUp, Idle
      <4>2. ExactHandlers'  BY <1>1, <1>6, <3>1, <4>1, ExactOthers
      <4>3. ASSUME NEW l \in WrittenOff(db)' PROVE issued'[l] = db'.lines[l].qty
        <5>1. l \in WrittenOff(t.base)  BY <1>2, <3>1 DEF WrittenOff, LinesOf
        <5>2. l \in t.done  BY <1>1, <1>6, <3>4, <5>1 DEF ExactOK
        <5>3. issued[l] = db.lines[l].qty
          BY <1>1, <1>6, <3>4, <5>2 DEF ExactOK, ClosingSteps
        <5> QED BY <1>6, <3>1, <5>3
      <4> QED BY <4>2, <4>3 DEF ExactRow
    <3> QED BY <3>3, <3>4
  <2> QED BY <1>6, <2>1, <2>2
<1>7. ASSUME NEW s \in {"IN_PROGRESS", "CLOSED"}
      PROVE  LET c == [t EXCEPT !.order.status = s] IN
             /\ c.order.lines = t.order.lines /\ c.base = t.base /\ c.order.status = s
             /\ c.ver = t.ver
  BY <1>1 DEF Handler, Order
<1>8. CASE RevertClosing(p)
  <2> DEFINE c == [t EXCEPT !.order.status = "IN_PROGRESS"]
  <2>1. /\ c.order.lines = t.order.lines /\ c.base = t.base /\ c.order.status = "IN_PROGRESS"
        /\ c.ver = t.ver
    BY <1>7
  <2>2. /\ t.step = "undo" /\ GiveUp(p) /\ UNCHANGED issued
        /\ IF Scope = "save" /\ ~Conflict(c)
             THEN db' = Merged(c) /\ version' = version + 1
             ELSE UNCHANGED <<db, version>>
    BY <1>8 DEF RevertClosing
  <2> HIDE DEF c
  <2>3. Scope = "save" => t.base.status = "CLOSING"
    BY <1>1, <2>2 DEF LocalOK, ClosingSteps
  <2>4. UNCHANGED <<db, version>> \/ (db' = Merged(c) /\ t.base.status # "IN_PROGRESS")
    BY <2>2, <2>3
  <2> QED BY <1>6, <2>1, <2>2, <2>4
<1>9. CASE FinalizeClose(p)
  <2> DEFINE c == [t EXCEPT !.order.status = "CLOSED"]
  <2>1. /\ c.order.lines = t.order.lines /\ c.base = t.base /\ c.order.status = "CLOSED"
        /\ c.ver = t.ver
    BY <1>7
  <2>2. /\ t.step = "consume" /\ t.todo = {} /\ GiveUp(p) /\ UNCHANGED issued
        /\ IF Scope = "save" /\ Conflict(c)
             THEN UNCHANGED <<db, version>>
             ELSE db' = Merged(c) /\ version' = c.ver + 1
    BY <1>9 DEF FinalizeClose
  <2> HIDE DEF c
  <2>3. t.base.status # "CLOSED"
    BY <1>1, <2>2 DEF LocalOK, ClosingSteps
  <2>4. UNCHANGED <<db, version>> \/ (db' = Merged(c) /\ t.base.status # "CLOSED")
    BY <2>2, <2>3
  <2> QED BY <1>6, <2>1, <2>2, <2>4
<1> QED BY <1>1, <1>3, <1>4, <1>5, <1>8, <1>9

\* What a closed order needs to be written off line by line in the quantities it
\* shows once no request is running: handlers that run to their end, lines edited in
\* time and given back in time.  A reopening whose save comes too late breaks it: it
\* has given the lines back of an order meanwhile reopened and closed again.
LEMMA ClosedInTime ==
  ~Aborts => (Spec /\ [][EditsInTime /\ BackInTime]_vars => []ClosedMeansConsumed)
<1> SUFFICES ASSUME ~Aborts
             PROVE  Spec /\ [][EditsInTime /\ BackInTime]_vars => []ClosedMeansConsumed
  OBVIOUS
<1>1. Init => ExactHandlers /\ ExactRow
  <2> SUFFICES ASSUME Init PROVE ExactHandlers /\ ExactRow
    OBVIOUS
  <2>1. db.status # "CLOSED" /\ \A p \in Procs : Step(p) = "idle"
    BY HandlerAssumption DEF Init, Step, Idle
  <2> QED BY <2>1 DEF ExactHandlers, ExactRow
<1>2. /\ IInv /\ LinesInv /\ StockInv /\ ExactHandlers /\ ExactRow
      /\ [Next]_vars /\ [EditsInTime /\ BackInTime]_vars
      => ExactHandlers' /\ ExactRow'
  <2> SUFFICES ASSUME IInv, LinesInv, StockInv, ExactHandlers, ExactRow,
                      [Next]_vars, [EditsInTime /\ BackInTime]_vars
               PROVE  ExactHandlers' /\ ExactRow'
    OBVIOUS
  <2>1. CASE UNCHANGED vars
    BY <2>1 DEF vars, ExactHandlers, ExactRow, ExactOK, TakesBack, RowChanged, WrittenOff,
                LinesOf, Step
  <2>2. CASE Next /\ EditsInTime /\ BackInTime
    <3>1. ASSUME NEW p \in Procs, Begin(p) PROVE ExactHandlers' /\ ExactRow'
      BY <3>1, BeginExactStep
    <3>2. ASSUME NEW p \in Procs, Continue(p) PROVE ExactHandlers' /\ ExactRow'
      BY <2>2, <3>2, FileExactStep, CloseExactStep DEF Continue
    <3>3. ASSUME NEW p \in Procs PROVE ~Abort(p)
      BY DEF Abort
    <3> QED BY <2>2, <3>1, <3>2, <3>3 DEF Next
  <2> QED BY <2>1, <2>2
<1>3. IInv /\ StockInv /\ ExactRow => ClosedMeansConsumed
  <2> SUFFICES ASSUME IInv, StockInv, ExactRow, db.status = "CLOSED",
                      \A p \in Procs : Step(p) = "idle", NEW l \in LinesOf(db)
               PROVE  issued[l] = db.lines[l].qty
    BY DEF ClosedMeansConsumed
  <2>1. ASSUME NEW p \in Procs PROVE ~TakesBack(p)
    BY DEF TakesBack, Step
  <2>2. CASE l \in WrittenOff(db)  BY <2>1, <2>2 DEF ExactRow
  <2>3. CASE l \notin WrittenOff(db)
    <3>1. db.lines[l] \in Line /\ l \in Lines /\ issued[l] \in Nat
      BY DEF IInv, TypeOK, Order, LinesOf
    <3>2. db.lines[l].qty \in Nat  BY <3>1, AggregateAssumption DEF Line, Quantities
    <3>3. db.lines[l].qty = 0  BY <2>3, <3>2 DEF WrittenOff
    <3>4. issued[l] = 0  BY <2>3, <3>1 DEF StockInv, Outstanding
    <3> QED BY <3>3, <3>4
  <2> QED BY <2>2, <2>3
<1>4. Scope = "save" \/ ~Aborts  OBVIOUS
<1>5. Spec /\ [][EditsInTime]_vars => []StockInv  BY <1>4, StockInvariance
<1>6. [EditsInTime /\ BackInTime]_vars => [EditsInTime]_vars  OBVIOUS
<1> QED BY <1>1, <1>2, <1>3, <1>5, <1>6, Invariance, LinesInvariance, PTL DEF Spec

\* Requests that do not overlap save over the row they loaded.
Alone ==
  \A p \in Procs :
    /\ Step(p) \in {"save", "upload"} => txn[p].ver = version
    /\ Step(p) = "save" /\ txn[p].name \in LineCommands => Editable(txn[p].base)

\* No request has anything to give back: the only command that would is not issued.
NoneBack ==
  /\ db.status # "CLOSING"
  /\ \A p \in Procs : Step(p) \in {"save", "upload"} => txn[p].todo = {}

\* Handlers on their way to their save.
LEMMA OnlyBeginsSave ==
  ASSUME IInv, NEW p \in Procs, Continue(p), Step(p)' \in {"save", "upload"}
  PROVE  /\ Step(p) \in {"save", "upload"}
         /\ txn'[p].ver = txn[p].ver /\ txn'[p].name = txn[p].name
         /\ txn'[p].base = txn[p].base /\ txn'[p].todo \subseteq txn[p].todo
         /\ Step(p) = "upload" => txn[p].name = "AddPhoto"
         /\ UNCHANGED <<db, version>>
<1> DEFINE t == txn[p]
<1>1. TypeOK /\ t \in Handler /\ LocalOK(t) /\ Step(p) = t.step  BY DEF IInv, TypeOK, Step
<1>2. ASSUME NEW h, txn' = [txn EXCEPT ![p] = h] PROVE txn'[p] = h /\ Step(p)' = h.step
  BY <1>1, <1>2 DEF TypeOK, Step
<1>3. Idle.step = "idle"  BY DEF Idle
<1>4. ASSUME GiveUp(p) PROVE FALSE
  BY <1>2, <1>3, <1>4 DEF GiveUp
<1>5. CASE Upload(p)
  <2>1. PICK o : txn' = [txn EXCEPT ![p].step = "save", ![p].order = o]
    BY <1>4, <1>5 DEF Upload
  <2>2. txn'[p] = [t EXCEPT !.step = "save", !.order = o]
    BY <1>1, <2>1 DEF TypeOK
  <2>3. /\ txn'[p].ver = t.ver /\ txn'[p].name = t.name /\ txn'[p].base = t.base
        /\ txn'[p].todo = t.todo
    BY <1>1, <2>2 DEF Handler
  <2> QED BY <1>1, <1>5, <2>3 DEF Upload, LocalOK
<1>6. CASE GiveBack(p)
  <2>1. PICK l \in t.todo : txn' = [txn EXCEPT ![p].todo = @ \ {l}]
    BY <1>6 DEF GiveBack
  <2>2. txn'[p] = [t EXCEPT !.todo = t.todo \ {l}]
    BY <1>1, <2>1 DEF TypeOK
  <2>3. /\ txn'[p].ver = t.ver /\ txn'[p].name = t.name /\ txn'[p].base = t.base
        /\ txn'[p].todo = t.todo \ {l}
    BY <1>1, <2>2 DEF Handler
  <2> QED BY <1>6, <2>3 DEF GiveBack
<1>7. ASSUME NEW s, s \in {"delete", "preflight", "commit", "consume", "undo"},
             \E h : txn' = [txn EXCEPT ![p] = h] /\ h.step = s
      PROVE  FALSE
  BY <1>2, <1>7
<1>8. CASE Save(p) \/ DeleteObject(p) \/ CommitRemoval(p) \/ RevertClosing(p) \/ FinalizeClose(p)
  <2>1. CASE txn' = [txn EXCEPT ![p].step = "delete"] \/ txn' = [txn EXCEPT ![p].step = "commit"]
    <3>1. txn'[p].step \in {"delete", "commit"}  BY <1>1, <2>1 DEF TypeOK, Handler
    <3> QED BY <3>1 DEF Step
  <2> QED BY <1>4, <1>8, <2>1 DEF Save, DeleteObject, CommitRemoval, RevertClosing, FinalizeClose
<1>9. CASE StartClosing(p)
  <2>1. PICK b, v : txn' = [txn EXCEPT ![p].step = "preflight", ![p].ver = v, ![p].base = b]
    BY <1>4, <1>9 DEF StartClosing
  <2>2. txn'[p].step = "preflight"  BY <1>1, <2>1 DEF TypeOK, Handler
  <2> QED BY <2>2 DEF Step
<1>10. CASE Preflight(p) \/ Consume(p) \/ Refuse(p) \/ Undo(p)
  <2>0. txn \in [Procs -> Handler]  BY <1>1 DEF TypeOK
  <2>1. txn'[p].step \in {"consume", "undo"}
    <3>1. CASE Preflight(p)
      <4>1. PICK s \in {"consume", "undo"} : txn' = [txn EXCEPT ![p].step = s]
        BY <3>1 DEF Preflight
      <4> QED BY <2>0, <4>1 DEF Handler
    <3>2. CASE Consume(p)
      <4>1. t.step = "consume" /\ \E a, b : txn' = [txn EXCEPT ![p].todo = a, ![p].done = b]
        BY <3>2, <2>0 DEF Consume
      <4> QED BY <2>0, <4>1 DEF Handler
    <3>3. CASE Refuse(p)
      <4>1. txn' = [txn EXCEPT ![p].step = "undo"]  BY <3>3 DEF Refuse
      <4> QED BY <2>0, <4>1 DEF Handler
    <3>4. CASE Undo(p)
      <4>1. t.step = "undo" /\ \E a : txn' = [txn EXCEPT ![p].done = a]
        BY <1>1, <2>0, <3>4 DEF Undo
      <4> QED BY <2>0, <4>1 DEF Handler
    <3> QED BY <1>10, <3>1, <3>2, <3>3, <3>4
  <2> QED BY <2>1 DEF Step
<1> QED BY <1>5, <1>6, <1>8, <1>9, <1>10 DEF Continue

\* With no more than one request at a time: after any sequence of commands, refusals
\* and reopenings a closed order is written off line by line in the quantities it
\* shows, either way to commit.  What breaks product.md's sentence is overlap or a
\* handler that dies.
THEOREM ClosedIsConsumedExactly ==
  ~Aborts /\ (\A p, q \in Procs : p = q) => (Spec => []ClosedMeansConsumed)
<1> SUFFICES ASSUME ~Aborts, \A p, q \in Procs : p = q
             PROVE  Spec => []ClosedMeansConsumed
  OBVIOUS
<1>1. Init => Alone
  BY DEF Init, Alone, Step, Idle
<1>2. IInv /\ LinesInv /\ Alone /\ [Next]_vars => Alone'
  <2> SUFFICES ASSUME IInv, LinesInv, Alone, [Next]_vars PROVE Alone'
    OBVIOUS
  <2>1. CASE UNCHANGED vars  BY <2>1 DEF vars, Alone, Step
  <2>2. CASE Next
    <3>1. PICK p \in Procs : Begin(p) \/ Continue(p)  BY <2>2 DEF Next, Abort
    <3>2. SUFFICES /\ Step(p)' \in {"save", "upload"} => txn'[p].ver = version'
                   /\ Step(p)' = "save" /\ txn'[p].name \in LineCommands
                        => Editable(txn'[p].base)
      BY DEF Alone, Step
    <3>3. CASE Begin(p)
      <4>1. TypeOK  BY DEF IInv
      <4>2. PICK h \in Handler : txn' = [txn EXCEPT ![p] = h] /\ h.ver = version
        BY <3>3, <4>1, BeginFresh
      <4>3. txn'[p].ver = version /\ version' = version
        BY <3>3, <4>1, <4>2, BeginFresh DEF TypeOK
      <4>4. txn'[p].base = db /\ (txn'[p].name \in LineCommands => Editable(db))
        BY <3>3, <4>1, BeginLines
      <4> QED BY <4>3, <4>4
    <3>4. CASE Continue(p)
      <4>1. "AddPhoto" \notin LineCommands  BY DEF LineCommands
      <4> QED BY <3>4, <4>1, OnlyBeginsSave DEF Alone
    <3> QED BY <3>1, <3>3, <3>4
  <2> QED BY <2>1, <2>2
<1>3. IInv /\ LinesInv /\ Alone /\ [Next]_vars => [EditsInTime /\ BackInTime]_vars
  <2> SUFFICES ASSUME IInv, LinesInv, Alone, Next PROVE EditsInTime /\ BackInTime
    OBVIOUS
  <2>1. ASSUME db.status # "NONE", db'.lines # db.lines
        PROVE  Editable(db) /\ \A p \in Procs : ~InClose(p)
    <3>1. PICK p \in Procs : Step(p) = "save" /\ txn[p].name \in LineCommands
      BY <2>1, EditIsSaved
    <3>2. Editable(txn[p].base) /\ txn[p].ver = version  BY <3>1 DEF Alone
    <3>3. VersionOK(p) /\ ~Closing(p) /\ ~InClose(p)
      BY <3>1 DEF IInv, Closing, InClose, ClosingSteps
    <3>4. txn[p].base.status = db.status
      BY <3>2, <3>3 DEF VersionOK, Editable
    <3> QED BY <3>2, <3>3, <3>4 DEF Editable
  <2>2. ASSUME NEW p \in Procs, GiveBack(p)
        PROVE  txn[p].ver = version /\ \A q \in Procs : ~Closing(q)
    BY <2>2 DEF GiveBack, Alone, Closing
  <2> QED BY <2>1, <2>2 DEF EditsInTime, BackInTime
<1> QED BY <1>1, <1>2, <1>3, Invariance, LinesInvariance, ClosedInTime, PTL DEF Spec

\* The same for any number of overlapping requests that commit as a whole and run to
\* their end, as long as no order is reopened and no line edited: of closes, refusals,
\* cancellations, reviews and photo edits none makes a closed order's account wrong.
THEOREM ClosedOnceIsConsumed ==
  /\ Scope = "request" /\ ~Aborts
  /\ Commands \cap (LineCommands \cup {"Reopen"}) = {}
  => (Spec => []ClosedMeansConsumed)
<1> SUFFICES ASSUME Scope = "request", ~Aborts,
                    Commands \cap (LineCommands \cup {"Reopen"}) = {}
             PROVE  Spec => []ClosedMeansConsumed
  OBVIOUS
<1>1. Init => NoneBack
  BY HandlerAssumption DEF Init, NoneBack, Step, Idle
<1>2. IInv /\ LinesInv /\ NoneBack /\ [Next]_vars => NoneBack'
  <2> SUFFICES ASSUME IInv, LinesInv, NoneBack, [Next]_vars PROVE NoneBack'
    OBVIOUS
  <2>1. CASE UNCHANGED vars  BY <2>1 DEF vars, NoneBack, Step
  <2>2. CASE Next
    <3>1. PICK p \in Procs : Begin(p) \/ Continue(p)  BY <2>2 DEF Next, Abort
    <3> DEFINE t == txn[p]
    <3>2. TypeOK /\ t \in Handler /\ t.order \in Order /\ LocalOK(t) /\ Step(p) = t.step
      BY DEF IInv, TypeOK, Handler, Step
    <3>3. \A q \in Procs \ {p} : txn'[q] = txn[q]
      <4>1. \E h : txn' = [txn EXCEPT ![p] = h]
        <5>1. CASE Begin(p)  BY <5>1, <3>2, BeginFresh
        <5>2. CASE Continue(p)
          BY <5>2 DEF Continue, Upload, GiveBack, Save, DeleteObject, CommitRemoval, StartClosing,
                      Preflight, Consume, Refuse, Undo, RevertClosing, FinalizeClose, GiveUp
        <5> QED BY <3>1, <5>1, <5>2
      <4> QED BY <3>2, <4>1 DEF TypeOK
    <3>4. Step(p)' \in {"save", "upload"} => txn'[p].todo = {}
      <4>1. CASE Begin(p)
        BY <3>2, <4>1, BeginLines DEF NoneBack, LinesOK, Step
      <4>2. CASE Continue(p)
        <5> SUFFICES ASSUME Step(p)' \in {"save", "upload"} PROVE txn'[p].todo = {}
          OBVIOUS
        <5>1. Step(p) \in {"save", "upload"} /\ txn'[p].todo \subseteq txn[p].todo
          BY <4>2, OnlyBeginsSave
        <5>2. txn[p].todo = {}  BY <5>1 DEF NoneBack
        <5> QED BY <5>1, <5>2
      <4> QED BY <3>1, <4>1, <4>2
    <3>5. db'.status # "CLOSING"
      <4>1. ASSUME NEW s, s # "CLOSING"
            PROVE  Merged([t EXCEPT !.order.status = s]).status # "CLOSING"
        <5>1. ASSUME NEW c, c.order.status = s PROVE Merged(c).status # "CLOSING"
          BY <4>1, <5>1 DEF Merged, NoneBack
        <5>2. [t EXCEPT !.order.status = s].order.status = s
          BY <3>2 DEF Handler, Order
        <5> QED BY <5>1, <5>2
      <4>2. ASSUME t.order.status # "CLOSING" \/ t.order.status = t.base.status
            PROVE  Merged(t).status # "CLOSING"
        BY <4>2 DEF Merged, RowChanged, NoneBack
      <4>3. CASE Begin(p)  BY <3>2, <4>3, BeginFresh DEF NoneBack
      <4>4. CASE Save(p) \/ CommitRemoval(p)
        <5>1. t.order.status # "CLOSING" \/ t.order.status = t.base.status
          <6>1. CASE t.step = "save"
            <7>1. t.order.status = "OPEN" \/ SaveMove(t.base.status, t.order.status)
              BY <3>2, <6>1 DEF LocalOK
            <7> HIDE DEF t
            <7> QED BY <7>1 DEF SaveMove
          <6>2. CASE t.step = "commit"
            BY <3>2, <6>2 DEF LocalOK
          <6>3. t.step \in {"save", "commit"}
            BY <3>2, <4>4 DEF Save, CommitRemoval
          <6> QED BY <6>1, <6>2, <6>3
        <5> QED BY <4>2, <4>4, <5>1 DEF Save, CommitRemoval, NoneBack
      <4>5. CASE RevertClosing(p) \/ StartClosing(p)
        BY <4>5 DEF RevertClosing, StartClosing, NoneBack
      <4>6. CASE FinalizeClose(p)
        BY <4>1, <4>6 DEF FinalizeClose
      <4>7. CASE Upload(p) \/ GiveBack(p) \/ DeleteObject(p) \/ Preflight(p) \/ Consume(p)
                 \/ Refuse(p) \/ Undo(p)
        BY <4>7 DEF Upload, GiveBack, DeleteObject, Preflight, Consume, Refuse, Undo, NoneBack
      <4> QED BY <3>1, <4>3, <4>4, <4>5, <4>6, <4>7 DEF Continue
    <3> QED BY <3>3, <3>4, <3>5 DEF NoneBack, Step
  <2> QED BY <2>1, <2>2
<1>3. NoneBack /\ [Next]_vars => [BackInTime]_vars
  BY DEF NoneBack, BackInTime, GiveBack
<1>4. Spec => [][EditsInTime]_vars
  BY NoEditsInTime
<1>5. [EditsInTime]_vars /\ [BackInTime]_vars => [EditsInTime /\ BackInTime]_vars
  OBVIOUS
<1> QED BY <1>1, <1>2, <1>3, <1>4, <1>5, Invariance, LinesInvariance, ClosedInTime, PTL DEF Spec
=============================================================================
