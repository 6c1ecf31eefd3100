---------------------------- MODULE BookingProofs ----------------------------
(***************************************************************************)
(* Theorems about the appointment handlers, for any commands handled at the *)
(* same time, any appointments, slots and schedules.                       *)
(***************************************************************************)
EXTENDS Booking, FiniteSetTheorems, WellFoundedInduction, TLAPS

(***************************************************************************)
(* The inductive invariant.                                                *)
(***************************************************************************)
\* What a handler asks for is known until it saves.
RequestOK(p) ==
  LET t == txn[p] IN
  t.step # "idle" =>
    /\ t.name \in {"Create", "Reschedule", "StartWork", "Complete"}
    /\ t.name \in {"Create", "Reschedule"} => t.slot \in Slots /\ t.minutes \in Works
    /\ t.name \in {"StartWork", "Complete"} => t.step = "save"

\* The row a handler loaded is still there, and is the committed one as long as
\* the version it loaded is; StartWork and Complete loaded one that may go on,
\* and Reschedule takes its minutes from it.
CopyOK(p) ==
  LET t == txn[p] IN
  t.step # "idle" /\ t.name # "Create" =>
    /\ t.id \in Rows /\ t.row \in Row
    /\ t.ver <= version[t.id]
    /\ version[t.id] = t.ver => appts[t.id] = t.row
    /\ t.name \in {"StartWork", "Complete"} => CanGo(t.row, t.to)
    /\ t.name = "Reschedule" => t.minutes = t.row.minutes

IInv ==
  /\ TypeOK
  /\ \A p \in Procs : RequestOK(p)
  /\ \A p \in Procs : CopyOK(p)
  /\ NoDoubleBooking

(***************************************************************************)
(* Steps that leave the table alone, and steps that write it.              *)
(***************************************************************************)
\* A row of another form: the slot asked for, booked as it is.
LEMMA NewRows ==
  ASSUME NEW slot \in Slots, NEW minutes \in Works, NEW guest \in BOOLEAN
  PROVE  /\ Create(slot, minutes, guest) \in Row
         /\ Create(slot, minutes, guest).status \in {"PENDING_CONFIRMATION", "CONFIRMED"}
         /\ SlotOf(Create(slot, minutes, guest)) = slot
BY BookingAssumption
   DEF Create, Row, Statuses, Masters, Requested, SlotOf

\* Moving a row takes the slot and keeps the rest.
LEMMA MovedRows ==
  ASSUME NEW row \in Row, NEW slot \in Slots
  PROVE  /\ Reschedule(row, slot) \in Row
         /\ Reschedule(row, slot).status = row.status
         /\ SlotOf(Reschedule(row, slot)) = slot
BY BookingAssumption DEF Reschedule, Row, Masters, SlotOf

\* A change of status keeps the slot, and ends in a status.
LEMMA ProgressedRows ==
  ASSUME NEW row \in Row, NEW to \in Statuses
  PROVE  /\ Go(row, to) \in Row
         /\ Go(row, to).status = to
         /\ SlotOf(Go(row, to)) = SlotOf(row)
BY DEF Go, Row, SlotOf

\* What a handler may write: a new visit, a move of one that has not begun, or a
\* change of status along the transitions.
Lawful(v, row) ==
  \/ /\ v \notin Rows /\ SlotOf(row) \in Slots
     /\ row.status \in {"PENDING_CONFIRMATION", "CONFIRMED"}
  \/ /\ v \in Rows /\ SlotOf(row) \in Slots
     /\ row.status = appts[v].status
     /\ row.status \in {"PENDING_CONFIRMATION", "CONFIRMED"}
  \/ /\ v \in Rows /\ SlotOf(row) = SlotOf(appts[v])
     /\ CanGo(appts[v], row.status)

\* The time of what is written is the one asked for, or the one there was.
Timed(p, v, row) ==
  LET t == txn[p] IN
  \/ /\ t.step = "save" /\ t.name \in {"Create", "Reschedule"}
     /\ row.master = t.slot.master /\ row.start = t.slot.start /\ row.minutes = t.minutes
  \/ /\ v \in Rows
     /\ row.master = appts[v].master /\ row.start = appts[v].start
     /\ row.minutes = appts[v].minutes

\* What is written is what a method of the aggregate makes of the committed row.
Called(v, row) ==
  \/ /\ v \notin Rows
     /\ \E slot \in Slots, minutes \in Works, guest \in BOOLEAN :
          FitsServices(slot, minutes) /\ row = Create(slot, minutes, guest)
  \/ /\ v \in Rows
     /\ \E slot \in Slots : CanReschedule(appts[v], slot) /\ row = Reschedule(appts[v], slot)
  \/ /\ v \in Rows
     /\ \E to \in Statuses : CanGo(appts[v], to) /\ row = Go(appts[v], to)

Writes(p, v, row) ==
  /\ Lawful(v, row) /\ Timed(p, v, row) /\ Called(v, row)
  /\ ~Excluded(row, v)
  /\ appts' = [appts EXCEPT ![v] = row]
  /\ \E n \in Nat : /\ version' = [version EXCEPT ![v] = n]
                    /\ v \in Rows => n = version[v] + 1
  /\ Finish(p, "ok")
  /\ UNCHANGED <<schedule, now>>

\* The update of a loaded row writes it, if at all, over the row it was loaded
\* from.
LEMMA Updates ==
  ASSUME IInv, NEW p \in Procs, NEW row \in Row, NEW onStale \in Answers,
         txn[p].step # "idle", txn[p].name # "Create",
         \/ Lawful(txn[p].id, row) /\ Timed(p, txn[p].id, row) /\ Called(txn[p].id, row)
         \/ appts[txn[p].id] # txn[p].row,
         Update(p, row, onStale)
  PROVE  \/ \E a \in Answers : Refused(p, a)
         \/ \E v \in Visits : Writes(p, v, row)
<1>1. /\ CopyOK(p) /\ {"ok", "overlap"} \subseteq Answers
      /\ Rows \subseteq Visits /\ version \in [Visits -> Nat]
  BY DEF IInv, TypeOK, Answers, Rows
<1>2. PICK v \in Visits : v = txn[p].id
  BY <1>1 DEF CopyOK
<1>3. CASE row = txn[p].row \/ Stale(txn[p]) \/ Excluded(row, v)
  BY <1>1, <1>2, <1>3 DEF Update
<1>4. CASE ~(row = txn[p].row \/ Stale(txn[p]) \/ Excluded(row, v))
  <2>1. /\ appts' = [appts EXCEPT ![v] = row]
        /\ version' = [version EXCEPT ![v] = @ + 1]
        /\ Finish(p, "ok") /\ UNCHANGED <<schedule, now>>
    BY <1>2, <1>4 DEF Update
  <2>2. version[v] = txn[p].ver  BY <1>2, <1>4 DEF Stale
  <2>3. Lawful(v, row) /\ Timed(p, v, row) /\ Called(v, row)  BY <1>1, <1>2, <2>2 DEF CopyOK
  <2>4. version[v] + 1 \in Nat /\ version' = [version EXCEPT ![v] = version[v] + 1]
    BY <1>1, <2>1
  <2> QED BY <1>4, <2>1, <2>3, <2>4 DEF Writes
<1> QED BY <1>3, <1>4

\* A save answers without writing, or writes a row nobody is in the way of.
LEMMA Saves ==
  ASSUME IInv, NEW p \in Procs, SaveNew(p) \/ SaveMoved(p) \/ SaveStatus(p)
  PROVE  \/ \E a \in Answers : Refused(p, a)
         \/ \E v \in Visits, row \in Row : Writes(p, v, row)
<1> DEFINE t == txn[p]
<1>1. /\ TypeOK /\ RequestOK(p) /\ CopyOK(p) /\ t \in Handler
      /\ {"rejected", "overlap", "conflict", "stale"} \subseteq Answers
  BY DEF IInv, TypeOK, Answers
<1>2. CASE SaveNew(p)
  <2>1. t.slot \in Slots /\ t.minutes \in Works
    BY <1>1, <1>2 DEF SaveNew, RequestOK
  <2>2. CASE ~FitsServices(t.slot, t.minutes)
    BY <1>1, <1>2, <2>2 DEF SaveNew
  <2>3. CASE FitsServices(t.slot, t.minutes)
    <3>1. PICK v \in Visits \ Rows, guest \in BOOLEAN :
            LET row == Create(t.slot, t.minutes, guest) IN
            IF Excluded(row, v) THEN Refused(p, "overlap")
            ELSE /\ appts' = [appts EXCEPT ![v] = row]
                 /\ version' = [version EXCEPT ![v] = 1]
                 /\ Finish(p, "ok")
                 /\ UNCHANGED <<schedule, now>>
      BY <1>2, <2>3 DEF SaveNew
    <3>2. PICK row \in Row : row = Create(t.slot, t.minutes, guest)
      BY <2>1, NewRows
    <3>3. Lawful(v, row)  BY <2>1, <3>2, NewRows DEF Lawful
    <3>4. Timed(p, v, row)  BY <1>2, <3>2 DEF Timed, SaveNew, Create
    <3>5. Called(v, row)  BY <2>1, <2>3, <3>2 DEF Called
    <3> QED BY <1>1, <3>1, <3>2, <3>3, <3>4, <3>5 DEF Writes
  <2> QED BY <2>2, <2>3
<1>3. CASE SaveMoved(p)
  <2>1. t.slot \in Slots /\ t.row \in Row /\ t.id \in Rows
    BY <1>1, <1>3 DEF SaveMoved, RequestOK, CopyOK
  <2>2. CASE ~CanReschedule(t.row, t.slot)
    BY <1>1, <1>3, <2>2 DEF SaveMoved
  <2>3. CASE CanReschedule(t.row, t.slot)
    <3>1. PICK row \in Row : row = Reschedule(t.row, t.slot)
      BY <2>1, MovedRows
    <3>2. SlotOf(row) \in Slots /\ row.status = t.row.status
      BY <2>1, <3>1, MovedRows
    <3>3. Lawful(t.id, row) \/ appts[t.id] # t.row
      BY <2>1, <2>3, <3>2 DEF Lawful, CanReschedule
    <3>4. Update(p, row, "conflict") /\ t.step # "idle" /\ t.name # "Create"
      BY <1>3, <2>3, <3>1 DEF SaveMoved
    <3>5. Timed(p, t.id, row)
      <4>1. t.minutes = t.row.minutes  BY <1>1, <1>3 DEF SaveMoved, CopyOK
      <4>2. /\ row.master = t.slot.master /\ row.start = t.slot.start
            /\ row.minutes = t.row.minutes
        BY <2>1, <3>1 DEF Reschedule, Row
      <4> QED BY <1>3, <4>1, <4>2 DEF Timed, SaveMoved
    <3>6. Called(t.id, row) \/ appts[t.id] # t.row
      BY <2>1, <2>3, <3>1 DEF Called
    <3> QED BY <1>1, <3>3, <3>4, <3>5, <3>6, Updates
  <2> QED BY <2>2, <2>3
<1>4. CASE SaveStatus(p)
  <2>1. t.row \in Row /\ t.id \in Rows /\ CanGo(t.row, t.to) /\ t.to \in Statuses
    BY <1>1, <1>4 DEF SaveStatus, CopyOK, Handler
  <2>2. PICK row \in Row : row = Go(t.row, t.to)
    BY <2>1, ProgressedRows
  <2>3. SlotOf(row) = SlotOf(t.row) /\ row.status = t.to
    BY <2>1, <2>2, ProgressedRows
  <2>4. Lawful(t.id, row) \/ appts[t.id] # t.row
    BY <2>1, <2>3 DEF Lawful
  <2>5. Update(p, row, "stale") /\ t.step # "idle" /\ t.name # "Create"
    BY <1>4, <2>2 DEF SaveStatus
  <2>6. Timed(p, t.id, row) \/ appts[t.id] # t.row
    BY <2>1, <2>2 DEF Timed, Go, Row
  <2>7. Called(t.id, row) \/ appts[t.id] # t.row
    BY <2>1, <2>2 DEF Called
  <2> QED BY <1>1, <2>4, <2>5, <2>6, <2>7, Updates
<1> QED BY <1>2, <1>3, <1>4

\* A handler that answers and goes idle.
LEMMA Finished ==
  ASSUME TypeOK, NEW p \in Procs, NEW a \in Answers, Finish(p, a)
  PROVE  /\ txn' \in [Procs -> Handler] /\ answer' \in [Procs -> Answers]
         /\ \A q \in Procs \ {p} : txn'[q] = txn[q]
         /\ RequestOK(p)' /\ CopyOK(p)'
<1>1. Idle \in Handler
  BY DEF Idle, Handler, Steps, Names, Statuses
<1>2. txn' = [txn EXCEPT ![p] = Idle]  BY DEF Finish
<1>3. txn'[p] = Idle  BY <1>2 DEF TypeOK
<1> QED BY <1>1, <1>2, <1>3 DEF TypeOK, Finish, RequestOK, CopyOK, Idle

\* A handler that begins has loaded the row it works on.
LEMMA Begun ==
  ASSUME IInv, NEW p \in Procs,
         BeginCreate(p) \/ BeginReschedule(p) \/ BeginStartWork(p) \/ BeginComplete(p)
  PROVE  /\ txn' \in [Procs -> Handler] /\ answer' \in [Procs -> Answers]
         /\ \A q \in Procs \ {p} : txn'[q] = txn[q]
         /\ UNCHANGED <<appts, version, schedule, now>>
         /\ RequestOK(p)' /\ CopyOK(p)'
<1>1. /\ TypeOK /\ Rows \subseteq Visits /\ \A v \in Rows : appts[v] \in Row
      /\ "none" \in Answers
  BY DEF IInv, TypeOK, Rows, Answers
<1>2. ASSUME NEW h \in Handler, Begin(p, h), h.step # "idle",
             h.name \in {"Create", "Reschedule", "StartWork", "Complete"},
             h.name \in {"Create", "Reschedule"} => h.slot \in Slots /\ h.minutes \in Works,
             h.name \in {"StartWork", "Complete"} => h.step = "save" /\ CanGo(h.row, h.to),
             h.name # "Create" =>
               h.id \in Rows /\ h.row = appts[h.id] /\ h.ver = version[h.id],
             h.name = "Reschedule" => h.minutes = h.row.minutes
      PROVE  /\ txn' \in [Procs -> Handler] /\ answer' \in [Procs -> Answers]
             /\ \A q \in Procs \ {p} : txn'[q] = txn[q]
             /\ UNCHANGED <<appts, version, schedule, now>>
             /\ RequestOK(p)' /\ CopyOK(p)'
  <2>1. /\ txn' = [txn EXCEPT ![p] = h] /\ UNCHANGED <<appts, version, schedule, now>>
        /\ answer' = [answer EXCEPT ![p] = "none"]
    BY <1>2 DEF Begin
  <2>2. txn'[p] = h /\ Rows' = Rows  BY <1>1, <2>1 DEF TypeOK, Rows
  <2>3. RequestOK(p)'  BY <1>2, <2>2 DEF RequestOK
  <2>4. CopyOK(p)'
    <3>1. h.name # "Create" =>
            /\ h.id \in Rows' /\ h.row \in Row /\ h.ver <= version'[h.id]
            /\ appts'[h.id] = h.row
      BY <1>1, <1>2, <2>1, <2>2 DEF TypeOK
    <3> QED BY <1>2, <2>2, <3>1 DEF CopyOK
  <2> QED BY <1>1, <2>1, <2>3, <2>4 DEF TypeOK
<1>3. CASE BeginCreate(p)
  <2>1. PICK slot \in Slots, minutes \in Works :
          Begin(p, [Idle EXCEPT !.step = "branch", !.name = "Create", !.slot = slot,
                                !.minutes = minutes])
    BY <1>3 DEF BeginCreate
  <2> DEFINE h == [Idle EXCEPT !.step = "branch", !.name = "Create", !.slot = slot,
                               !.minutes = minutes]
  <2>2. h \in Handler  BY DEF Idle, Handler, Steps, Names, Statuses
  <2>3. h.step = "branch" /\ h.name = "Create" /\ h.slot = slot /\ h.minutes = minutes
    BY DEF Idle
  <2> HIDE DEF h
  <2> QED BY <1>2, <2>1, <2>2, <2>3 DEF h
<1>4. CASE BeginReschedule(p)
  <2>1. PICK v \in Rows, slot \in Slots, client \in ByClient :
          Begin(p, [Idle EXCEPT !.step = "branch", !.name = "Reschedule", !.id = v,
                                !.row = appts[v], !.ver = version[v], !.slot = slot,
                                !.minutes = appts[v].minutes, !.client = client])
    BY <1>4 DEF BeginReschedule
  <2> DEFINE h == [Idle EXCEPT !.step = "branch", !.name = "Reschedule", !.id = v,
                               !.row = appts[v], !.ver = version[v], !.slot = slot,
                               !.minutes = appts[v].minutes, !.client = client]
  <2>2. appts[v] \in Row /\ version[v] \in Nat /\ client \in BOOLEAN /\ v \in Visits
    BY <1>1, BookingAssumption DEF TypeOK
  <2>3. appts[v].minutes \in Works  BY <2>2 DEF Row
  <2>4. h \in Handler  BY <2>2, <2>3 DEF Idle, Handler, Steps, Names, Statuses
  <2>5. /\ h.step = "branch" /\ h.name = "Reschedule" /\ h.slot = slot
        /\ h.minutes = appts[v].minutes
        /\ h.id = v /\ h.row = appts[v] /\ h.ver = version[v]
    BY DEF Idle
  <2> HIDE DEF h
  <2> QED BY <1>2, <2>1, <2>3, <2>4, <2>5 DEF h
<1>5. ASSUME NEW name \in {"StartWork", "Complete"}, NEW to \in Statuses,
             BeginStatus(p, name, to)
      PROVE  /\ txn' \in [Procs -> Handler] /\ answer' \in [Procs -> Answers]
             /\ \A q \in Procs \ {p} : txn'[q] = txn[q]
             /\ UNCHANGED <<appts, version, schedule, now>>
             /\ RequestOK(p)' /\ CopyOK(p)'
  <2>1. PICK v \in Rows :
          /\ CanGo(appts[v], to)
          /\ Begin(p, [Idle EXCEPT !.step = "save", !.name = name, !.id = v, !.row = appts[v],
                                   !.ver = version[v], !.to = to])
    BY <1>5 DEF BeginStatus
  <2> DEFINE h == [Idle EXCEPT !.step = "save", !.name = name, !.id = v, !.row = appts[v],
                               !.ver = version[v], !.to = to]
  <2>2. appts[v] \in Row /\ version[v] \in Nat /\ v \in Visits
    BY <1>1 DEF TypeOK
  <2>3. h \in Handler  BY <2>2 DEF Idle, Handler, Steps, Names, Statuses
  <2>4. /\ h.step = "save" /\ h.name = name /\ h.to = to
        /\ h.id = v /\ h.row = appts[v] /\ h.ver = version[v]
    BY DEF Idle
  <2> HIDE DEF h
  <2> QED BY <1>2, <2>1, <2>3, <2>4 DEF h
<1>6. {"IN_PROGRESS", "COMPLETED"} \subseteq Statuses  BY DEF Statuses
<1> QED BY <1>3, <1>4, <1>5, <1>6 DEF BeginStartWork, BeginComplete

\* A handler that reads or checks goes on with what it has, or refuses.
LEMMA Checked ==
  ASSUME IInv, NEW p \in Procs,
         ReadBranchSchedule(p) \/ ReadMasterSchedule(p) \/ CheckSlots(p) \/ CheckBay(p)
  PROVE  /\ txn' \in [Procs -> Handler] /\ answer' \in [Procs -> Answers]
         /\ \A q \in Procs \ {p} : txn'[q] = txn[q]
         /\ UNCHANGED <<appts, version, schedule, now>>
         /\ RequestOK(p)' /\ CopyOK(p)'
<1> DEFINE t == txn[p]
<1>1. /\ TypeOK /\ RequestOK(p) /\ CopyOK(p) /\ t \in Handler
      /\ t.step # "idle" /\ t.step # "save" /\ "conflict" \in Answers
  BY DEF IInv, TypeOK, ReadBranchSchedule, ReadMasterSchedule, CheckSlots, CheckBay, Step,
         Answers
<1>2. ASSUME NEW h \in Handler, txn' = [txn EXCEPT ![p] = h],
             h.step \in {"master", "slots", "bay", "save"},
             UNCHANGED <<appts, version, schedule, answer, now>>,
             h.name = t.name, h.slot = t.slot, h.minutes = t.minutes, h.id = t.id,
             h.row = t.row, h.ver = t.ver, h.to = t.to
      PROVE  /\ txn' \in [Procs -> Handler] /\ answer' \in [Procs -> Answers]
             /\ \A q \in Procs \ {p} : txn'[q] = txn[q]
             /\ RequestOK(p)' /\ CopyOK(p)'
  <2>1. txn'[p] = h /\ Rows' = Rows  BY <1>1, <1>2 DEF TypeOK, Rows
  <2>2. RequestOK(p)'  BY <1>1, <1>2, <2>1 DEF RequestOK
  <2>3. CopyOK(p)'  BY <1>1, <1>2, <2>1 DEF CopyOK
  <2> QED BY <1>1, <1>2, <2>2, <2>3 DEF TypeOK
<1>3. CASE ReadBranchSchedule(p)
  <2> DEFINE h == [t EXCEPT !.step = "master", !.branch = schedule.branch]
  <2>1. h \in Handler  BY <1>1 DEF TypeOK, Handler, Steps
  <2>2. txn' = [txn EXCEPT ![p] = h]  BY <1>3 DEF ReadBranchSchedule
  <2> QED BY <1>1, <1>2, <1>3, <2>1, <2>2 DEF ReadBranchSchedule, Handler
<1>4. CASE ReadMasterSchedule(p)
  <2> DEFINE h == [t EXCEPT !.step = "slots", !.master = schedule.masters[t.slot.master]]
  <2>1. t.slot.master \in Masters
    BY <1>1 DEF RequestOK, Masters
  <2>2. schedule.masters[t.slot.master]
          \in UNION {{s.masters[m] : m \in Masters} : s \in Schedules}
    BY <1>1, <2>1 DEF TypeOK
  <2>3. h \in Handler  BY <1>1, <2>2 DEF Handler, Steps
  <2>4. txn' = [txn EXCEPT ![p] = h]  BY <1>4 DEF ReadMasterSchedule
  <2> QED BY <1>1, <1>2, <1>4, <2>3, <2>4 DEF ReadMasterSchedule, Handler
<1>5. CASE Refused(p, "conflict")
  BY <1>1, <1>5, Finished DEF Refused
<1>6. CASE CheckSlots(p) /\ ~Refused(p, "conflict")
  <2> DEFINE h == [t EXCEPT !.step = IF t.slot.bay = NoBay THEN "save" ELSE "bay",
                            !.branch = NoVisit, !.master = NoVisit]
  <2>1. h \in Handler  BY <1>1 DEF Handler, Steps
  <2>2. /\ txn' = [txn EXCEPT ![p] = h] /\ UNCHANGED <<appts, version, schedule, answer, now>>
    BY <1>6 DEF CheckSlots
  <2>3. h.step \in {"bay", "save"}  BY <1>1 DEF Handler
  <2>4. /\ h.name = t.name /\ h.slot = t.slot /\ h.minutes = t.minutes /\ h.id = t.id
        /\ h.row = t.row /\ h.ver = t.ver /\ h.to = t.to
    BY <1>1 DEF Handler
  <2> HIDE DEF h
  <2> QED BY <1>2, <2>1, <2>2, <2>3, <2>4
<1>7. CASE CheckBay(p) /\ ~Refused(p, "conflict")
  <2> DEFINE h == [t EXCEPT !.step = "save"]
  <2>1. h \in Handler  BY <1>1 DEF Handler, Steps
  <2>2. /\ txn' = [txn EXCEPT ![p] = h] /\ UNCHANGED <<appts, version, schedule, answer, now>>
    BY <1>7 DEF CheckBay
  <2> QED BY <1>1, <1>2, <2>1, <2>2 DEF Handler
<1> QED BY <1>3, <1>4, <1>5, <1>6, <1>7

\* Every step of a handler keeps the types, leaves the other handlers alone and
\* its own memory in order.
LEMMA Handled ==
  ASSUME IInv, NEW p \in Procs, Handle(p)
  PROVE  /\ txn' \in [Procs -> Handler] /\ answer' \in [Procs -> Answers]
         /\ \A q \in Procs \ {p} : txn'[q] = txn[q]
         /\ UNCHANGED <<schedule, now>>
         /\ RequestOK(p)' /\ CopyOK(p)'
         /\ \/ UNCHANGED <<appts, version>>
            \/ \E v \in Visits, row \in Row : Writes(p, v, row)
<1>1. CASE BeginCreate(p) \/ BeginReschedule(p) \/ BeginStartWork(p) \/ BeginComplete(p)
  BY <1>1, Begun
<1>2. CASE ReadBranchSchedule(p) \/ ReadMasterSchedule(p) \/ CheckSlots(p) \/ CheckBay(p)
  BY <1>2, Checked
<1>3. CASE SaveNew(p) \/ SaveMoved(p) \/ SaveStatus(p)
  <2>1. TypeOK /\ "ok" \in Answers  BY DEF IInv, Answers
  <2>2. CASE \E a \in Answers : Refused(p, a)
    BY <2>1, <2>2, Finished DEF Refused
  <2>3. CASE \E v \in Visits, row \in Row : Writes(p, v, row)
    BY <2>1, <2>3, Finished DEF Writes
  <2> QED BY <1>3, <2>2, <2>3, Saves
<1> QED BY <1>1, <1>2, <1>3 DEF Handle

\* What is written is a row, and a handler that loaded another version of it
\* still knows that it did.
LEMMA Written ==
  ASSUME IInv, NEW p \in Procs, NEW v \in Visits, NEW row \in Row, Writes(p, v, row)
  PROVE  /\ appts' \in [Visits -> Row \cup {NoVisit}] /\ version' \in [Visits -> Nat]
         /\ appts'[v] = row /\ \A w \in Visits \ {v} : appts'[w] = appts[w]
         /\ Rows' = Rows \cup {v}
         /\ \A q \in Procs : txn'[q] = txn[q] => CopyOK(q)'
         /\ NoDoubleBooking'
<1>1. TypeOK /\ NoDoubleBooking /\ \A q \in Procs : CopyOK(q)  BY DEF IInv
<1>2. PICK n \in Nat : /\ version' = [version EXCEPT ![v] = n]
                       /\ v \in Rows => n = version[v] + 1
  BY DEF Writes
<1>3. appts' = [appts EXCEPT ![v] = row]  BY DEF Writes
<1>4. /\ appts' \in [Visits -> Row \cup {NoVisit}] /\ version' \in [Visits -> Nat]
      /\ appts'[v] = row /\ \A w \in Visits \ {v} : appts'[w] = appts[w]
      /\ version'[v] = n /\ \A w \in Visits \ {v} : version'[w] = version[w]
  BY <1>1, <1>2, <1>3 DEF TypeOK
<1>5. Rows' = Rows \cup {v}  BY <1>4, BookingAssumption DEF Rows
<1>6. ASSUME NEW q \in Procs, txn'[q] = txn[q] PROVE CopyOK(q)'
  <2> SUFFICES ASSUME txn[q].step # "idle", txn[q].name # "Create"
               PROVE  /\ txn[q].id \in Rows' /\ txn[q].row \in Row
                      /\ txn[q].ver <= version'[txn[q].id]
                      /\ version'[txn[q].id] = txn[q].ver => appts'[txn[q].id] = txn[q].row
                      /\ txn[q].name \in {"StartWork", "Complete"}
                           => CanGo(txn[q].row, txn[q].to)
                      /\ txn[q].name = "Reschedule" => txn[q].minutes = txn[q].row.minutes
    BY <1>6 DEF CopyOK
  <2>1. /\ txn[q].id \in Rows /\ txn[q].row \in Row /\ txn[q].ver <= version[txn[q].id]
        /\ version[txn[q].id] = txn[q].ver => appts[txn[q].id] = txn[q].row
        /\ txn[q].name \in {"StartWork", "Complete"} => CanGo(txn[q].row, txn[q].to)
        /\ txn[q].name = "Reschedule" => txn[q].minutes = txn[q].row.minutes
        /\ txn[q].ver \in Nat /\ version \in [Visits -> Nat]
    BY <1>1 DEF CopyOK, TypeOK, Handler
  <2>2. CASE txn[q].id = v  BY <1>2, <1>4, <1>5, <2>1, <2>2
  <2>3. CASE txn[q].id # v  BY <1>4, <1>5, <2>1, <2>3 DEF Rows
  <2> QED BY <2>2, <2>3
<1>7. NoDoubleBooking'
  <2> SUFFICES ASSUME NEW a \in Rows', NEW b \in Rows', a # b,
                      appts'[a].status \in Active, appts'[b].status \in Active,
                      \/ appts'[a].master = appts'[b].master
                      \/ appts'[a].bay = appts'[b].bay /\ appts'[a].bay # NoBay,
                      Overlap(appts'[a], appts'[b])
               PROVE  FALSE
    BY DEF NoDoubleBooking
  <2>1. a \in Visits /\ b \in Visits  BY DEF Rows
  <2>2. CASE a # v /\ b # v
    BY <1>1, <1>4, <1>5, <2>1, <2>2 DEF NoDoubleBooking
  <2>3. ~Excluded(row, v)  BY DEF Writes
  <2>4. CASE a = v
    BY <1>4, <1>5, <2>1, <2>3, <2>4 DEF Excluded, Overlap
  <2>5. CASE b = v
    BY <1>4, <1>5, <2>1, <2>3, <2>5 DEF Excluded, Overlap
  <2> QED BY <2>2, <2>4, <2>5
<1> QED BY <1>4, <1>5, <1>6, <1>7

\* An empty calendar with idle handlers satisfies the invariant.
LEMMA InitInv == Init => IInv
<1> SUFFICES ASSUME Init PROVE IInv
  OBVIOUS
<1>1. Idle \in Handler  BY DEF Idle, Handler, Steps, Names, Statuses
<1>2. TypeOK  BY <1>1, BookingAssumption DEF Init, TypeOK, Answers
<1>3. \A p \in Procs : RequestOK(p) /\ CopyOK(p)
  BY DEF Init, Idle, RequestOK, CopyOK
<1>4. Rows = {}  BY DEF Init, Rows
<1> QED BY <1>2, <1>3, <1>4 DEF IInv, NoDoubleBooking

\* Every step keeps the invariant.
LEMMA NextInv == IInv /\ [Next]_vars => IInv'
<1> SUFFICES ASSUME IInv, [Next]_vars PROVE IInv'
  OBVIOUS
<1>1. TypeOK /\ NoDoubleBooking /\ \A q \in Procs : RequestOK(q) /\ CopyOK(q)
  BY DEF IInv
<1>2. ASSUME NEW q \in Procs, txn'[q] = txn[q] PROVE RequestOK(q)'
  BY <1>1, <1>2 DEF RequestOK
<1>3. ASSUME NEW q \in Procs, txn'[q] = txn[q], UNCHANGED <<appts, version>>
      PROVE  CopyOK(q)'
  BY <1>1, <1>3 DEF CopyOK, Rows
<1>4. ASSUME UNCHANGED appts PROVE NoDoubleBooking'
  BY <1>1, <1>4 DEF NoDoubleBooking, Rows
<1>5. CASE SetSchedule \/ Tick \/ UNCHANGED vars
  <2>1. UNCHANGED <<appts, version, txn, answer>> /\ TypeOK'
    BY <1>1, <1>5, BookingAssumption DEF SetSchedule, Tick, vars, TypeOK
  <2> QED BY <1>2, <1>3, <1>4, <2>1 DEF IInv
<1>6. ASSUME NEW p \in Procs, Handle(p) PROVE IInv'
  <2>1. /\ txn' \in [Procs -> Handler] /\ answer' \in [Procs -> Answers]
        /\ \A q \in Procs \ {p} : txn'[q] = txn[q]
        /\ UNCHANGED <<schedule, now>> /\ RequestOK(p)' /\ CopyOK(p)'
    BY <1>6, Handled
  <2>2. \A q \in Procs : RequestOK(q)'  BY <1>2, <2>1
  <2>3. CASE UNCHANGED <<appts, version>>
    <3>1. TypeOK'  BY <1>1, <2>1, <2>3 DEF TypeOK
    <3> QED BY <1>3, <1>4, <2>1, <2>2, <2>3, <3>1 DEF IInv
  <2>4. ASSUME NEW v \in Visits, NEW row \in Row, Writes(p, v, row) PROVE IInv'
    <3>1. /\ appts' \in [Visits -> Row \cup {NoVisit}] /\ version' \in [Visits -> Nat]
          /\ \A q \in Procs : txn'[q] = txn[q] => CopyOK(q)'
          /\ NoDoubleBooking'
      BY <2>4, Written
    <3>2. TypeOK'  BY <1>1, <2>1, <3>1 DEF TypeOK
    <3> QED BY <2>1, <2>2, <3>1, <3>2 DEF IInv
  <2> QED BY <1>6, <2>3, <2>4, Handled
<1> QED BY <1>5, <1>6 DEF Next

(***************************************************************************)
(* The theorems.                                                           *)
(***************************************************************************)
\* Rows, versions and the copies of the handlers fit together, in every
\* interleaving of the commands with each other and with schedule changes.
THEOREM Invariance == Spec => []IInv
BY InitInv, NextInv, PTL DEF Spec

\* Every reachable state of the appointment handlers is well typed.
THEOREM TypeCorrect == Spec => []TypeOK
<1>1. IInv => TypeOK  BY DEF IInv
<1> QED BY <1>1, Invariance, PTL

\* ADR-0014 for any number of concurrent bookings and moves: two visits that
\* occupy a master, or a bay, never overlap.
THEOREM MastersAndBaysAreExclusive == Spec => []NoDoubleBooking
<1>1. IInv => NoDoubleBooking  BY DEF IInv
<1> QED BY <1>1, Invariance, PTL

(***************************************************************************)
(* The handlers implement Calendar.                                        *)
(***************************************************************************)
\* A row that is written books, moves or progresses a visit as promised.
LEMMA WritesAreKept ==
  ASSUME IInv, NEW p \in Procs, NEW v \in Visits, NEW row \in Row, Writes(p, v, row)
  PROVE  Promise!Next
<1> DEFINE booked == [w \in Visits |-> Booked(w)]
           new == [status |-> row.status, slot |-> SlotOf(row)]
<1> USE DEF Promise!Next
<1>1. /\ TypeOK /\ row # NoVisit
      /\ appts'[v] = row /\ \A w \in Visits \ {v} : appts'[w] = appts[w]
  BY Written, BookingAssumption DEF IInv
<1>2. booked' = [booked EXCEPT ![v] = new]
  <2>1. booked' = [w \in Visits |-> Booked(w)']  OBVIOUS
  <2>2. Booked(v)' = [status |-> row.status, slot |-> SlotOf(row)]  BY <1>1 DEF Booked, SlotOf
  <2>3. \A w \in Visits \ {v} : Booked(w)' = Booked(w)  BY <1>1 DEF Booked, SlotOf
  <2> QED BY <2>1, <2>2, <2>3
<1>3. \A w \in Visits : w \in Rows =>
        /\ booked[w] \in Visit /\ booked[w] # NoVisit
        /\ booked[w] = [status |-> appts[w].status, slot |-> SlotOf(appts[w])]
  <2>1. \A w \in Visits : w \in Rows => appts[w] \in Row  BY <1>1 DEF TypeOK, Rows
  <2>2. \A r \in Row : [status |-> r.status, slot |-> SlotOf(r)] \in Visit
    BY DEF Row, Visit, SlotOf
  <2>3. \A w \in Visits : w \in Rows =>
          booked[w] = [status |-> appts[w].status, slot |-> SlotOf(appts[w])]
    BY DEF Rows, Booked
  <2> QED BY <2>1, <2>2, <2>3, BookingAssumption
<1>4. \A w \in Visits : w \notin Rows => booked[w] = NoVisit
  BY DEF Rows, Booked
<1>5. ASSUME row.status \in Active PROVE Promise!FreeFor(v, SlotOf(row))
  <2> SUFFICES ASSUME NEW w \in Visits \ {v}, Promise!Occupies(w),
                      Promise!Clash(booked[w].slot, SlotOf(row))
               PROVE  FALSE
    BY DEF Promise!FreeFor
  <2>1. w \in Rows  BY <1>4 DEF Promise!Occupies
  <2>2. /\ appts[w].status \in Active /\ Overlap(appts[w], row)
        /\ appts[w].master = row.master \/ (appts[w].bay = row.bay /\ row.bay # NoBay)
    BY <1>3, <2>1
       DEF Promise!Occupies, Promise!Occupying, Promise!Clash, SlotOf, Active, Overlap
  <2> QED BY <1>5, <2>1, <2>2 DEF Writes, Excluded
<1> HIDE DEF booked, new
<1>6. v \in Rows => /\ booked[v] # NoVisit
                   /\ booked[v] = [status |-> appts[v].status, slot |-> SlotOf(appts[v])]
  BY <1>3, Zenon
<1>7. CASE /\ v \notin Rows /\ SlotOf(row) \in Slots
           /\ row.status \in {"PENDING_CONFIRMATION", "CONFIRMED"}
  <2>1. Promise!FreeFor(v, SlotOf(row))  BY <1>5, <1>7 DEF Active
  <2>2. Promise!Book(v)  BY <1>2, <1>4, <1>7, <2>1 DEF Promise!Book, booked, new
  <2> QED BY <2>2
<1>8. CASE /\ v \in Rows /\ SlotOf(row) \in Slots
           /\ row.status = appts[v].status
           /\ row.status \in {"PENDING_CONFIRMATION", "CONFIRMED"}
  <2>1. Promise!FreeFor(v, SlotOf(row))  BY <1>5, <1>8 DEF Active
  <2>2. [booked[v] EXCEPT !.slot = SlotOf(row)] = new  BY <1>6, <1>8 DEF new
  <2>3. booked' = [booked EXCEPT ![v].slot = SlotOf(row)]  BY <1>2, <2>2
  <2>4. booked[v] # NoVisit /\ booked[v].status \in {"PENDING_CONFIRMATION", "CONFIRMED"}
    BY <1>6, <1>8
  <2>5. Promise!Move(v)
    BY <1>8, <2>1, <2>3, <2>4, Zenon DEF Promise!Move, booked
  <2> QED BY <2>5
<1>9. CASE /\ v \in Rows /\ SlotOf(row) = SlotOf(appts[v])
           /\ CanGo(appts[v], row.status)
  <2>1. [booked[v] EXCEPT !.status = row.status] = new  BY <1>6, <1>9 DEF new
  <2>2. booked' = [booked EXCEPT ![v].status = row.status]  BY <1>2, <2>1
  <2>3. booked[v] # NoVisit /\ booked[v].status = appts[v].status  BY <1>6, <1>9
  <2>4. \/ /\ booked[v].status = "PENDING_CONFIRMATION"
           /\ row.status \in {"CONFIRMED", "CANCELLED"}
        \/ /\ booked[v].status = "CONFIRMED"
           /\ row.status \in {"IN_PROGRESS", "CANCELLED", "NO_SHOW"}
        \/ booked[v].status = "IN_PROGRESS" /\ row.status = "COMPLETED"
    BY <1>9, <2>3 DEF CanGo, AllowedTransitions
  <2>5. Promise!Progress(v)
    BY <2>2, <2>3, <2>4, Zenon DEF Promise!Progress, booked
  <2> QED BY <2>5
<1> QED BY <1>7, <1>8, <1>9 DEF Writes, Lawful

\* The handlers keep the promised calendar, whatever stale copies they hold:
\* nobody moves a visit that has begun, revives one or takes an occupied span.
THEOREM Refinement == Spec => CalendarSpec
<1>1. Init => Promise!Init
  BY DEF Init, Promise!Init, Booked
<1>2. IInv /\ [Next]_vars => [Promise!Next]_[v \in Visits |-> Booked(v)]
  <2> SUFFICES ASSUME IInv, [Next]_vars
               PROVE  [Promise!Next]_[v \in Visits |-> Booked(v)]
    OBVIOUS
  <2>1. CASE UNCHANGED appts
    BY <2>1 DEF Booked, SlotOf
  <2>2. CASE \E p \in Procs, v \in Visits, row \in Row : Writes(p, v, row)
    BY <2>2, WritesAreKept
  <2> QED BY <2>1, <2>2, Handled DEF Next, SetSchedule, Tick, vars
<1> QED BY <1>1, <1>2, Invariance, PTL DEF Spec, CalendarSpec, Promise!Spec

(***************************************************************************)
(* Each row goes through the methods of its aggregate.                     *)
(***************************************************************************)
CONSTANT visit   \* any one id

Calls == INSTANCE AppointmentMethods WITH NoAppt <- NoVisit, appt <- appts[visit]

\* The methods are those Booking calls.
LEMMA SameMethods ==
  /\ \A slot, minutes : Calls!FitsServices(slot, minutes) <=> FitsServices(slot, minutes)
  /\ \A slot, minutes, guest : Calls!Create(slot, minutes, guest) = Create(slot, minutes, guest)
  /\ \A a, slot : /\ Calls!CanReschedule(a, slot) <=> CanReschedule(a, slot)
                  /\ Calls!Reschedule(a, slot) = Reschedule(a, slot)
  /\ \A a, to : (Calls!CanGo(a, to) <=> CanGo(a, to)) /\ Calls!Go(a, to) = Go(a, to)
  /\ \A a : Calls!CanCancel(a) <=> CanCancel(a)
  /\ Calls!Appt = Row
<1>1. \A slot, minutes : Calls!FitsServices(slot, minutes) <=> FitsServices(slot, minutes)
  BY DEF Calls!FitsServices, FitsServices
<1>2. \A slot, minutes, guest : Calls!Create(slot, minutes, guest) = Create(slot, minutes, guest)
  BY DEF Calls!Create, Create
<1>3. \A a, slot : /\ Calls!CanReschedule(a, slot) <=> CanReschedule(a, slot)
                  /\ Calls!Reschedule(a, slot) = Reschedule(a, slot)
  BY <1>1 DEF Calls!CanReschedule, CanReschedule, Calls!Reschedule, Reschedule
<1>4. \A a, to : (Calls!CanGo(a, to) <=> CanGo(a, to)) /\ Calls!Go(a, to) = Go(a, to)
  BY DEF Calls!CanGo, CanGo, Calls!AllowedTransitions, AllowedTransitions, Calls!Go, Go
<1>5. \A a : Calls!CanCancel(a) <=> CanCancel(a)
  BY DEF Calls!CanCancel, CanCancel
<1>6. Calls!Appt = Row
  BY DEF Calls!Appt, Row, Masters, Calls!Statuses, Statuses, Calls!Requested, Requested
<1> QED BY <1>1, <1>2, <1>3, <1>4, <1>5, <1>6

\* What is written to the row of the visit is a call of a method.
LEMMA WritesAreCalls ==
  ASSUME IInv, NEW row \in Row, Called(visit, row), visit \in Visits, appts'[visit] = row
  PROVE  Calls!Next
<1>1. CASE visit \notin Rows
  <2>1. appts[visit] = NoVisit
    BY <1>1 DEF Rows
  <2>2. PICK slot \in Slots, minutes \in Works, guest \in BOOLEAN :
          FitsServices(slot, minutes) /\ row = Create(slot, minutes, guest)
    BY <1>1 DEF Called
  <2> QED BY <2>1, <2>2, SameMethods DEF Calls!Next, Calls!CreateAppointment, Calls!Exists
<1>2. CASE visit \in Rows /\ \E slot \in Slots : /\ CanReschedule(appts[visit], slot)
                                                /\ row = Reschedule(appts[visit], slot)
  BY <1>2, SameMethods DEF Calls!Next, Calls!Move, Calls!Exists, Rows
<1>3. ASSUME visit \in Rows, NEW to \in Statuses, CanGo(appts[visit], to),
             row = Go(appts[visit], to)
      PROVE  Calls!Next
  <2>1. Calls!Exists
    BY <1>3 DEF Calls!Exists, Rows
  <2>2. to # "PENDING_CONFIRMATION" /\ (to = "CANCELLED" => CanCancel(appts[visit]))
    BY <1>3 DEF CanGo, AllowedTransitions, CanCancel
  <2> QED BY <1>3, <2>1, <2>2, SameMethods
          DEF Statuses, Calls!Next, Calls!Confirm, Calls!StartWork, Calls!Complete,
              Calls!MarkNoShow, Calls!Cancel
<1> QED BY <1>1, <1>2, <1>3 DEF Called

\* Whatever stale copies are saved, each row is what some sequence of calls of the
\* aggregate's methods has made of it: no change of another handler is undone.
THEOREM RowsAreCalled == visit \in Visits => (Spec => Calls!Spec)
<1> SUFFICES ASSUME visit \in Visits PROVE Spec => Calls!Spec
  OBVIOUS
<1>1. Init => Calls!Init
  BY DEF Init, Calls!Init
<1>2. IInv /\ [Next]_vars => [Calls!Next]_(appts[visit])
  <2> SUFFICES ASSUME IInv, [Next]_vars, appts'[visit] # appts[visit]
               PROVE  Calls!Next
    OBVIOUS
  <2>1. appts' # appts
    OBVIOUS
  <2>2. PICK p \in Procs, v \in Visits, row \in Row : Writes(p, v, row)
    BY <2>1, Handled DEF Next, SetSchedule, Tick, vars
  <2>3. appts'[v] = row /\ \A w \in Visits \ {v} : appts'[w] = appts[w]
    BY <2>2, Written
  <2>4. v = visit
    BY <2>3
  <2> QED BY <2>2, <2>3, <2>4, WritesAreCalls DEF Writes
<1> QED BY <1>1, <1>2, Invariance, PTL DEF Spec, Calls!Spec

\* A cancellation once granted has taken effect, after every sequence of calls.
THEOREM GrantedMeansCancelled == Calls!Spec => []Calls!ApprovedIsCancelled
<1> DEFINE a == appts[visit]
           I == Calls!TypeOK /\ Calls!ApprovedIsCancelled
<1>1. Calls!Init => I
  BY DEF Calls!Init, Calls!TypeOK, Calls!ApprovedIsCancelled, Calls!Exists
<1>2. I /\ [Calls!Next]_a => I'
  <2> SUFFICES ASSUME I, [Calls!Next]_a PROVE I'
    OBVIOUS
  <2>1. CASE UNCHANGED a
    BY <2>1 DEF Calls!TypeOK, Calls!ApprovedIsCancelled, Calls!Exists
  <2>2. CASE Calls!CreateAppointment
    <3>1. PICK slot \in Slots, minutes \in Works, guest \in BOOLEAN :
            a' = Create(slot, minutes, guest)
      BY <2>2, SameMethods DEF Calls!CreateAppointment
    <3>2. a' \in Row /\ a'.request = "NONE"
      BY <3>1, NewRows DEF Create
    <3> QED BY <3>2, SameMethods DEF Calls!TypeOK, Calls!ApprovedIsCancelled
  <2>3. CASE Calls!Exists /\ ~Calls!CreateAppointment
    <3>1. a \in Row
      BY <2>3, SameMethods DEF Calls!TypeOK, Calls!Exists
    <3>2. CASE Calls!Move
      <4>1. PICK slot \in Slots : CanReschedule(a, slot) /\ a' = Reschedule(a, slot)
        BY <3>2, SameMethods DEF Calls!Move
      <4>2. a' \in Row /\ a'.status = a.status /\ a'.request = a.request
        BY <3>1, <4>1, MovedRows DEF Reschedule, Row
      <4> QED BY <2>3, <3>1, <4>2, SameMethods, BookingAssumption
              DEF Calls!TypeOK, Calls!ApprovedIsCancelled
    <3>3. CASE \/ Calls!Confirm \/ Calls!StartWork \/ Calls!Complete \/ Calls!MarkNoShow
               \/ Calls!Cancel
      <4>1. PICK to \in Statuses : a' = Go(a, to) /\ a.status # "CANCELLED"
        BY <3>3, SameMethods DEF Calls!Confirm, Calls!StartWork, Calls!Complete, Calls!MarkNoShow,
                    Calls!Cancel, CanGo, AllowedTransitions, CanCancel, Statuses
      <4>2. a' \in Row /\ a'.request = a.request
        BY <3>1, <4>1, ProgressedRows DEF Go, Row
      <4> QED BY <2>3, <3>1, <4>1, <4>2, SameMethods
              DEF Calls!TypeOK, Calls!ApprovedIsCancelled
    <3>4. CASE Calls!Ask \/ Calls!Approve \/ Calls!Reject
      <4>1. /\ a' \in Row
            /\ a'.request = "APPROVED" => a'.status = "CANCELLED"
        BY <2>3, <3>1, <3>4
           DEF Calls!Ask, Calls!Approve, Calls!Reject, Calls!RequestCancellation,
               Calls!ApproveCancellation, Calls!RejectCancellation, Calls!CanDecide,
               Calls!CanRequestCancellation, Calls!ApprovedIsCancelled, Row, Statuses, Requested
      <4> QED BY <4>1, SameMethods DEF Calls!TypeOK, Calls!ApprovedIsCancelled
    <3> QED BY <2>3, <3>2, <3>3, <3>4, <2>1 DEF Calls!Next
  <2> QED BY <2>1, <2>2, <2>3
          DEF Calls!Next, Calls!CreateAppointment, Calls!Confirm, Calls!StartWork, Calls!Complete,
              Calls!MarkNoShow, Calls!Cancel, Calls!Move, Calls!Ask, Calls!Approve, Calls!Reject
<1>3. I => Calls!ApprovedIsCancelled
  OBVIOUS
<1> QED BY <1>1, <1>2, <1>3, PTL DEF Calls!Spec

(***************************************************************************)
(* Induction over the subsets of a finite set.                             *)
(***************************************************************************)
\* A set of natural numbers has a least one.
LEMMA LeastNumber ==
  ASSUME NEW T, T \subseteq Nat, T # {}
  PROVE  \E x \in T : \A y \in T : x <= y
<1> DEFINE R == {p \in Nat \X Nat : p[1] < p[2]}
<1>1. IsWellFoundedOn(R, Nat)
  BY NatLessThanWellFounded, Zenon DEF OpToRel
<1>2. PICK x \in T : \A y \in T : ~(<<y, x>> \in R)
  <2> HIDE DEF R
  <2> QED BY <1>1, WFMin
<1>3. ASSUME NEW y \in T PROVE x <= y
  <2>1. ~(<<y, x>>[1] < <<y, x>>[2])
    BY <1>2
  <2>2. x \in Nat /\ y \in Nat
    BY <1>2
  <2> QED BY <2>1, <2>2
<1> QED BY <1>2, <1>3

\* Induction over the subsets of a finite set; G are those with the property.
LEMMA SubsetInduction ==
  ASSUME NEW B, IsFiniteSet(B), NEW G, {} \in G,
         \A s \in SUBSET B : s # {} /\ (\A x \in s : s \ {x} \in G) => s \in G
  PROVE  \A s \in SUBSET B : s \in G
<1> SUFFICES ASSUME NEW b \in SUBSET B, b \notin G PROVE FALSE
  OBVIOUS
<1> DEFINE Bad == {s \in SUBSET B : s \notin G}
           T == {Cardinality(s) : s \in Bad}
<1>1. \A s \in SUBSET B : IsFiniteSet(s) /\ Cardinality(s) \in Nat
  BY FS_Subset, FS_CardinalityType
<1>2. T \subseteq Nat /\ T # {}
  BY <1>1
<1>3. PICK n \in T : \A y \in T : n <= y
  <2> HIDE DEF T
  <2> QED BY <1>2, LeastNumber
<1>4. PICK s \in Bad : Cardinality(s) = n
  BY <1>3
<1>5. s # {}
  BY <1>4
<1>6. PICK x \in s : s \ {x} \notin G
  BY <1>4, <1>5
<1>7. Cardinality(s \ {x}) = Cardinality(s) - 1
  BY <1>1, <1>4, <1>6, FS_RemoveElement
<1>8. Cardinality(s \ {x}) \in T
  BY <1>4, <1>6
<1>9. n <= Cardinality(s \ {x}) /\ n \in Nat
  BY <1>2, <1>3, <1>8
<1> QED BY <1>4, <1>7, <1>9

(***************************************************************************)
(* Cutting holes out of a window.  Cut folds over the holes from the one    *)
(* that starts first; a finite set of holes has such a fold (CutsExist).   *)
(***************************************************************************)
Holes(S) == IsFiniteSet(S) /\ S \subseteq [lo : Int, hi : Int]

\* What the fold f makes of the holes in s.
CutStep(w, f, s) ==
  IF s = {} THEN [cursor |-> w.lo, out |-> {}]
  ELSE CutOff(w, Latest(s), f[s \ {Latest(s)}])

CutsOver(S, w, f) == f = [s \in SUBSET S |-> CutStep(w, f, s)]

\* The fold's value for all the holes in S.
CutTo(S, w) == (CHOOSE f : CutsOver(S, w, f))[S]

\* Cut is the fold over the whole set of holes, and what is left behind them.
LEMMA CutIsCutTo ==
  \A w, H : Cut(w, H) = CutTo(H, w).out \cup
                        (IF CutTo(H, w).cursor < w.hi
                         THEN {[lo |-> CutTo(H, w).cursor, hi |-> w.hi]} ELSE {})
BY DEF Cut, MapThenFoldSet, CutsOver, CutTo, CutStep

\* A fold cuts off the hole that starts last from what it made of the others.
LEMMA CutsStep ==
  ASSUME NEW S, NEW w, NEW f, CutsOver(S, w, f), NEW s \in SUBSET S
  PROVE  f[s] = CutStep(w, f, s)
BY DEF CutsOver

\* Of finitely many holes one starts last.
LEMMA LatestIn ==
  ASSUME NEW S, Holes(S), NEW s \in SUBSET S, s # {}
  PROVE  Latest(s) \in s /\ \A h \in s : h.lo <= Latest(s).lo
<1> DEFINE G == {P \in SUBSET S : P = {} \/ \E m \in P : \A n \in P : n.lo <= m.lo}
<1>0. \A h \in S : h.lo \in Int
  BY DEF Holes
<1>1. {} \in G
  OBVIOUS
<1>2. ASSUME NEW P \in SUBSET S, P # {}, \A x \in P : P \ {x} \in G
      PROVE  P \in G
  <2>1. PICK x \in P : TRUE
    BY <1>2
  <2>2. CASE P \ {x} = {}
    <3>1. \A n \in P : n.lo <= x.lo
      BY <1>0, <2>2
    <3> QED BY <3>1
  <2>3. CASE P \ {x} # {}
    <3>1. PICK m \in P \ {x} : \A n \in P \ {x} : n.lo <= m.lo
      BY <1>2, <2>3
    <3>2. \E y \in P : \A n \in P : n.lo <= y.lo
      <4>1. CASE x.lo <= m.lo
        BY <3>1, <4>1
      <4>2. CASE m.lo < x.lo
        <5>1. \A n \in P : n.lo <= x.lo
          BY <1>0, <3>1, <4>2
        <5> QED BY <5>1
      <4> QED BY <1>0, <4>1, <4>2
    <3> QED BY <3>2
  <2> QED BY <2>2, <2>3
<1>3. \A P \in SUBSET S : P \in G
  <2> HIDE DEF G
  <2> QED BY <1>1, <1>2, SubsetInduction DEF Holes
<1>4. \E m \in s : \A n \in s : n.lo <= m.lo
  BY <1>3
<1> QED BY <1>4 DEF Latest

\* A step looks at one value of the fold only.
LEMMA CutStepSame ==
  ASSUME NEW w, NEW f, NEW g, NEW s,
         s # {} => f[s \ {Latest(s)}] = g[s \ {Latest(s)}]
  PROVE  CutStep(w, f, s) = CutStep(w, g, s)
BY DEF CutStep

\* Two folds agree on the sets both are over.
LEMMA CutsAgree ==
  ASSUME NEW B, Holes(B), NEW C, NEW D, B \subseteq C, B \subseteq D,
         NEW w, NEW f, NEW g,
         CutsOver(C, w, f), CutsOver(D, w, g)
  PROVE  f[B] = g[B]
<1> DEFINE G == {s \in SUBSET B : f[s] = g[s]}
<1>1. ASSUME NEW s \in SUBSET B
      PROVE  f[s] = CutStep(w, f, s) /\ g[s] = CutStep(w, g, s)
  <2>1. s \in SUBSET C /\ CutsOver(C, w, f)
    OBVIOUS
  <2>2. f[s] = CutStep(w, f, s)
    BY <2>1, CutsStep
  <2>3. s \in SUBSET D /\ CutsOver(D, w, g)
    OBVIOUS
  <2>4. g[s] = CutStep(w, g, s)
    BY <2>3, CutsStep
  <2> QED BY <2>2, <2>4
<1>2. {} \in G
  <2>1. {} \in SUBSET B
    OBVIOUS
  <2>2. CutStep(w, f, {}) = CutStep(w, g, {})
    BY CutStepSame
  <2> QED BY <1>1, <2>1, <2>2
<1>3. ASSUME NEW s \in SUBSET B, s # {}, \A x \in s : s \ {x} \in G
      PROVE  s \in G
  <2>1. Latest(s) \in s
    BY <1>3, LatestIn
  <2>2. f[s \ {Latest(s)}] = g[s \ {Latest(s)}]
    BY <1>3, <2>1
  <2>3. CutStep(w, f, s) = CutStep(w, g, s)
    BY <2>2, CutStepSame
  <2> QED BY <1>1, <2>3
<1>4. \A s \in SUBSET B : s \in G
  <2> HIDE DEF G
  <2> QED BY <1>2, <1>3, SubsetInduction DEF Holes
<1> QED BY <1>4

\* A fold restricted to the subsets of a set is one over that set.
LEMMA CutsWithin ==
  ASSUME NEW C, NEW w, NEW f, CutsOver(C, w, f), NEW B \in SUBSET C
  PROVE  \E g : CutsOver(B, w, g)
<1> DEFINE g == [s \in SUBSET B |-> f[s]]
<1>1. ASSUME NEW s \in SUBSET B PROVE f[s] = CutStep(w, g, s)
  <2>1. s \in SUBSET C /\ s \ {Latest(s)} \in SUBSET B
    OBVIOUS
  <2>2. f[s] = CutStep(w, f, s)
    BY <2>1, CutsStep
  <2>3. g[s \ {Latest(s)}] = f[s \ {Latest(s)}]
    BY <2>1
  <2> QED BY <2>2, <2>3, CutStepSame
<1>2. g = [s \in SUBSET B |-> CutStep(w, g, s)]
  BY <1>1
<1> HIDE DEF g
<1>3. CutsOver(B, w, g)
  BY <1>2 DEF CutsOver
<1> QED BY <1>3

\* What is kept is read off any fold over a larger set of holes.
LEMMA CutFrom ==
  ASSUME NEW C, Holes(C), NEW B \in SUBSET C, NEW w,
         NEW f, CutsOver(C, w, f)
  PROVE  CutTo(B, w) = f[B]
<1> DEFINE g == CHOOSE g : CutsOver(B, w, g)
<1>1. CutsOver(B, w, g)
  <2>1. \E e : CutsOver(B, w, e)
    BY CutsWithin
  <2> QED BY <2>1
<1>2. CutTo(B, w) = g[B]
  BY DEF CutTo
<1> HIDE DEF g
<1>4. g[B] = f[B]
  <2>1. Holes(B)
    BY FS_Subset DEF Holes
  <2>2. B \subseteq B /\ B \subseteq C
    OBVIOUS
  <2> QED BY <1>1, <2>1, <2>2, CutsAgree
<1> QED BY <1>2, <1>4

\* A finite set of holes has a fold.
LEMMA CutsExist ==
  ASSUME NEW B, Holes(B), NEW w
  PROVE  \E f : CutsOver(B, w, f)
<1> DEFINE G == {s \in SUBSET B : \E f : CutsOver(s, w, f)}
<1>1. {} \in G
  <2> DEFINE f == [s \in SUBSET {} |-> [cursor |-> w.lo, out |-> {}]]
  <2>1. CutsOver({}, w, f)
    BY DEF CutsOver, CutStep
  <2> QED BY <2>1
<1>2. ASSUME NEW s \in SUBSET B, s # {}, \A x \in s : s \ {x} \in G
      PROVE  s \in G
  <2> DEFINE kept == [t \in SUBSET s |-> CutTo(t, w)]
             g == [t \in SUBSET s |-> CutStep(w, kept, t)]
  <2>1. ASSUME NEW t \in SUBSET s, t # s PROVE kept[t] = g[t]
    <3>1. PICK x \in s : x \notin t
      BY <2>1
    <3>2. PICK f : CutsOver(s \ {x}, w, f)
      BY <1>2
    <3>3. ASSUME NEW u \in SUBSET t PROVE kept[u] = f[u]
      <4>1. Holes(s \ {x}) /\ u \in SUBSET (s \ {x})
        BY <3>1, FS_Subset DEF Holes
      <4>2. CutTo(u, w) = f[u]
        BY <4>1, <3>2, CutFrom
      <4> QED BY <4>2
    <3>4. t \in SUBSET (s \ {x}) /\ t \ {Latest(t)} \in SUBSET t /\ t \in SUBSET t
      BY <3>1
    <3>5. f[t] = CutStep(w, f, t)
      BY <3>2, <3>4, CutsStep
    <3>6. kept[t \ {Latest(t)}] = f[t \ {Latest(t)}] /\ kept[t] = f[t]
      BY <3>3, <3>4
    <3> HIDE DEF kept
    <3>7. CutStep(w, f, t) = CutStep(w, kept, t)
      BY <3>6, CutStepSame
    <3> QED BY <3>5, <3>6, <3>7
  <2>2. ASSUME NEW t \in SUBSET s
        PROVE  CutStep(w, kept, t) = CutStep(w, g, t)
    <3>1. CASE t = {}
      <4> HIDE DEF kept, g
      <4> QED BY <3>1, CutStepSame
    <3>2. CASE t # {}
      <4>1. Latest(t) \in t
        <5>1. t \in SUBSET B
          OBVIOUS
        <5> QED BY <3>2, <5>1, LatestIn
      <4>2. t \ {Latest(t)} \in SUBSET s /\ t \ {Latest(t)} # s
        BY <4>1
      <4>3. kept[t \ {Latest(t)}] = g[t \ {Latest(t)}]
        BY <2>1, <4>2
      <4> HIDE DEF kept, g
      <4> QED BY <4>3, CutStepSame
    <3> QED BY <3>1, <3>2
  <2>3. g = [t \in SUBSET s |-> CutStep(w, g, t)]
    BY <2>2
  <2> HIDE DEF g
  <2>4. CutsOver(s, w, g)
    BY <2>3 DEF CutsOver
  <2> QED BY <2>4
<1>3. \A s \in SUBSET B : s \in G
  <2> HIDE DEF G
  <2> QED BY <1>1, <1>2, SubsetInduction DEF Holes
<1> QED BY <1>3

(***************************************************************************)
(* What is left is inside the window and outside the holes.                *)
(***************************************************************************)
\* The larger and the smaller of two numbers.
LEMMA TwoNumbers ==
  \A a, b \in Int : /\ Max({a, b}) = IF a >= b THEN a ELSE b
                    /\ Min({a, b}) = IF a <= b THEN a ELSE b
<1> SUFFICES ASSUME NEW a \in Int, NEW b \in Int
             PROVE  /\ Max({a, b}) = IF a >= b THEN a ELSE b
                    /\ Min({a, b}) = IF a <= b THEN a ELSE b
  OBVIOUS
<1>1. Max({a, b}) \in {a, b} /\ \A y \in {a, b} : Max({a, b}) >= y
  <2>1. \E x \in {a, b} : \A y \in {a, b} : x >= y
    OBVIOUS
  <2> QED BY <2>1 DEF Max
<1>2. Min({a, b}) \in {a, b} /\ \A y \in {a, b} : Min({a, b}) <= y
  <2>1. \E x \in {a, b} : \A y \in {a, b} : x <= y
    OBVIOUS
  <2> QED BY <2>1 DEF Min
<1> QED BY <1>1, <1>2

\* A piece inside a window; a piece and a hole without a common minute.
Inside(i, w) == i \in [lo : Int, hi : Int] /\ w.lo <= i.lo /\ i.hi <= w.hi
Apart(i, h) == \A x \in Int : ~(i.lo <= x /\ x < i.hi /\ h.lo <= x /\ x < h.hi)

\* A piece lies between holes, and the holes behind the cursor are done with.
CutOK(w, s, c) ==
  /\ c.cursor \in Int /\ w.lo <= c.cursor
  /\ \A i \in c.out : /\ Inside(i, w)
                      /\ \E h \in s : i.hi <= h.lo
                      /\ \A h \in s : Apart(i, h)
  /\ \A h \in s : h.hi <= c.cursor \/ h.lo >= w.hi \/ w.hi <= c.cursor

\* Cutting off the hole that starts last keeps the pieces apart from all the holes.
LEMMA CutOffOK ==
  ASSUME NEW w \in [lo : Int, hi : Int], NEW s, NEW x \in s, NEW c,
         s \subseteq [lo : Int, hi : Int], \A h \in s : h.lo <= x.lo, CutOK(w, s \ {x}, c)
  PROVE  CutOK(w, s, CutOff(w, x, c))
<1> DEFINE r == s \ {x}
           t == CutOff(w, x, c)
<1>1. /\ c.cursor \in Int /\ w.lo <= c.cursor /\ w.lo \in Int /\ w.hi \in Int
      /\ \A h \in s : h.lo \in Int /\ h.hi \in Int
  BY DEF CutOK
<1>2. \A i \in c.out : /\ Inside(i, w)
                       /\ \E h \in s : i.hi <= h.lo
                       /\ \A h \in s : Apart(i, h)
  <2> SUFFICES ASSUME NEW i \in c.out
               PROVE  /\ Inside(i, w)
                      /\ \E h \in s : i.hi <= h.lo
                      /\ \A h \in s : Apart(i, h)
    OBVIOUS
  <2>1. Inside(i, w) /\ i.lo \in Int /\ i.hi \in Int /\ \A h \in r : Apart(i, h)
    BY DEF CutOK, Inside
  <2>2. PICK g \in r : i.hi <= g.lo
    BY DEF CutOK
  <2>3. i.hi <= x.lo
    BY <1>1, <2>1, <2>2
  <2>4. Apart(i, x)
    BY <1>1, <2>1, <2>3 DEF Apart
  <2> QED BY <2>1, <2>2, <2>4
<1>3. CASE x.hi <= c.cursor \/ x.lo >= w.hi
  <2>1. t = c
    BY <1>3 DEF CutOff
  <2>2. \A h \in s : h.hi <= c.cursor \/ h.lo >= w.hi \/ w.hi <= c.cursor
    BY <1>3 DEF CutOK
  <2> QED BY <1>1, <1>2, <2>1, <2>2 DEF CutOK
<1>4. CASE ~(x.hi <= c.cursor \/ x.lo >= w.hi)
  <2> DEFINE until == IF x.lo >= w.lo THEN x.lo ELSE w.lo
             end == IF x.hi <= w.hi THEN x.hi ELSE w.hi
             next == IF c.cursor >= end THEN c.cursor ELSE end
             piece == [lo |-> c.cursor, hi |-> until]
             new == IF c.cursor < until THEN {piece} ELSE {}
  <2>1. until = Max({x.lo, w.lo}) /\ end = Min({x.hi, w.hi}) /\ end \in Int
    BY <1>1, TwoNumbers
  <2>2. next = Max({c.cursor, end})
    BY <1>1, <2>1, TwoNumbers
  <2>3. t = [cursor |-> next, out |-> c.out \cup new]
    BY <1>4, <2>1, <2>2 DEF CutOff
  <2>4. t.cursor = next /\ t.out = c.out \cup new
    BY <2>3
  <2>5. next \in Int /\ c.cursor <= next /\ (x.hi <= next \/ w.hi <= next)
    BY <1>1, <2>1
  <2>6. \A h \in s : h.hi <= next \/ h.lo >= w.hi \/ w.hi <= next
    <3>1. \A h \in r : h.hi <= c.cursor \/ h.lo >= w.hi \/ w.hi <= c.cursor
      BY DEF CutOK
    <3> HIDE DEF next
    <3> QED BY <1>1, <2>5, <3>1
  <2>7. ASSUME c.cursor < until
        PROVE  /\ Inside(piece, w)
               /\ \E h \in s : piece.hi <= h.lo
               /\ \A h \in s : Apart(piece, h)
    <3>1. until = x.lo /\ x.lo < w.hi
      BY <1>1, <1>4, <2>7
    <3>2. ASSUME NEW h \in r PROVE h.hi <= c.cursor \/ h.lo >= until
      <4>1. h.hi <= c.cursor \/ h.lo >= w.hi \/ w.hi <= c.cursor
        BY DEF CutOK
      <4> QED BY <1>1, <2>7, <3>1, <4>1
    <3> HIDE DEF until
    <3>3. \A h \in s : h.hi <= c.cursor \/ h.lo >= until
      BY <1>1, <3>1, <3>2
    <3>4. \A h \in s : Apart(piece, h)
      BY <1>1, <3>1, <3>3 DEF Apart
    <3> QED BY <1>1, <3>1, <3>4 DEF Inside
  <2> HIDE DEF until, end, next, piece
  <2>8. \A i \in t.out : /\ Inside(i, w)
                         /\ \E h \in s : i.hi <= h.lo
                         /\ \A h \in s : Apart(i, h)
    BY <1>2, <2>4, <2>7
  <2>9. w.lo <= next
    BY <1>1, <2>5
  <2> HIDE DEF t, new
  <2>10. CutOK(w, s, t)
    BY <2>4, <2>5, <2>6, <2>8, <2>9 DEF CutOK
  <2> QED BY <2>10 DEF t
<1> QED BY <1>3, <1>4

\* What is cut out of a window lies in the window and keeps off the holes, however
\* they overlap.
LEMMA CutSound ==
  ASSUME NEW w \in [lo : Int, hi : Int], NEW H, Holes(H), NEW i \in Cut(w, H)
  PROVE  Inside(i, w) /\ \A h \in H : Apart(i, h)
<1>1. PICK f : CutsOver(H, w, f)
  BY CutsExist
<1>2. CutTo(H, w) = f[H]
  <2>1. H \in SUBSET H
    OBVIOUS
  <2> QED BY <1>1, <2>1, CutFrom
<1> DEFINE G == {s \in SUBSET H : CutOK(w, s, f[s])}
<1>3. ASSUME NEW s \in SUBSET H PROVE f[s] = CutStep(w, f, s)
  BY <1>1, CutsStep
<1>4. {} \in G
  <2>1. f[{}] = [cursor |-> w.lo, out |-> {}]
    BY <1>3 DEF CutStep
  <2> QED BY <2>1 DEF CutOK
<1>5. ASSUME NEW s \in SUBSET H, s # {}, \A x \in s : s \ {x} \in G
      PROVE  s \in G
  <2> DEFINE x == Latest(s)
  <2>1. x \in s /\ \A h \in s : h.lo <= x.lo
    BY <1>5, LatestIn
  <2>2. CutOK(w, s \ {x}, f[s \ {x}])
    BY <1>5, <2>1
  <2>3. f[s] = CutOff(w, x, f[s \ {x}])
    BY <1>3, <1>5 DEF CutStep
  <2>4. s \subseteq [lo : Int, hi : Int]
    BY DEF Holes
  <2> HIDE DEF x
  <2>5. CutOK(w, s, CutOff(w, x, f[s \ {x}]))
    BY <2>1, <2>2, <2>4, CutOffOK
  <2> QED BY <2>3, <2>5
<1>6. \A s \in SUBSET H : s \in G
  <2> HIDE DEF G
  <2> QED BY <1>4, <1>5, SubsetInduction DEF Holes
<1> DEFINE c == f[H]
<1>7. CutOK(w, H, c)
  <2>1. H \in G
    <3>1. H \in SUBSET H
      OBVIOUS
    <3> HIDE DEF G
    <3> QED BY <1>6, <3>1
  <2> QED BY <2>1
<1>8. \/ i \in c.out
      \/ c.cursor < w.hi /\ i = [lo |-> c.cursor, hi |-> w.hi]
  <2>1. CutTo(H, w) = c
    BY <1>2
  <2> HIDE DEF c
  <2>2. Cut(w, H) = c.out \cup (IF c.cursor < w.hi
                                THEN {[lo |-> c.cursor, hi |-> w.hi]} ELSE {})
    BY <2>1, CutIsCutTo
  <2> QED BY <2>2
<1> HIDE DEF c, G
<1>9. CASE i \in c.out
  BY <1>7, <1>9 DEF CutOK
<1>10. CASE c.cursor < w.hi /\ i = [lo |-> c.cursor, hi |-> w.hi]
  <2>1. c.cursor \in Int /\ w.lo <= c.cursor /\ w.hi \in Int
    BY <1>7 DEF CutOK
  <2>2. \A h \in H : h.hi <= c.cursor \/ h.lo >= w.hi
    BY <1>7, <1>10, <2>1 DEF CutOK
  <2>3. \A h \in H : h.lo \in Int /\ h.hi \in Int
    BY DEF Holes
  <2>4. \A h \in H : Apart(i, h)
    BY <1>10, <2>1, <2>2, <2>3 DEF Apart
  <2> QED BY <1>10, <2>1, <2>4 DEF Inside
<1> QED BY <1>8, <1>9, <1>10

(***************************************************************************)
(* Days, minutes and ticks.                                                *)
(***************************************************************************)
\* Division rounds down.
LEMMA Division ==
  \A a \in Int, b \in Nat \ {0} :
    a \div b \in Int /\ (a \div b) * b <= a /\ a < (a \div b) * b + b
OBVIOUS

\* Division keeps the order.
LEMMA DivMonotone ==
  ASSUME NEW a \in Int, NEW c \in Int, NEW b \in Nat \ {0}, a <= c
  PROVE  a \div b <= c \div b
OBVIOUS

\* Multiplication by a positive number keeps and reflects the order.
LEMMA Times ==
  ASSUME NEW a \in Int, NEW c \in Int, NEW b \in Nat \ {0}
  PROVE  a * b \in Int /\ (a <= c => a * b <= c * b) /\ (a * b < c * b => a < c)
OBVIOUS

\* A day takes a time.
LEMMA DayIsPositive == Day \in Nat \ {0}
BY AvailabilityAssumption DEF Day

\* Every day is one of the seven of a week.
LEMMA WeekdayOf == \A d \in Int : Weekday(d) \in 1..7
<1>1. \A d \in Int : (d + 4) % 7 \in 0..6
  OBVIOUS
<1> QED BY <1>1 DEF Weekday

\* Branch and master have hours of a working day on every day.
LEMMA HoursOfADay ==
  ASSUME NEW s \in Schedules, NEW m \in Masters, NEW d \in Int
  PROVE  DayHours(WorkingHours(s.branch, d)) /\ DayHours(s.masters[m].week[Weekday(d)])
BY WeekdayOf, ScheduleAssumption DEF WorkingHours

\* A tick between two minutes of a day is of that day, and its minute is between
\* them.
LEMMA TickOfDay ==
  ASSUME NEW d \in Int, NEW lo \in Int, NEW hi \in Int, 0 <= lo, hi <= DayMinutes,
         NEW t \in Int, At(d, lo) <= t, t < At(d, hi)
  PROVE  /\ DayOf(t) = d /\ t - At(d, 0) \in Int
         /\ (t - At(d, 0)) \div Minute \in Int
         /\ lo <= (t - At(d, 0)) \div Minute /\ (t - At(d, 0)) \div Minute < hi
<1> DEFINE k == t - d * Day
<1>1. Day \in Nat \ {0} /\ Minute \in Nat \ {0} /\ DayMinutes \in Nat \ {0}
  BY DayIsPositive, AvailabilityAssumption
<1>2. d * Day \in Int /\ lo * Minute \in Int /\ hi * Minute \in Int
  BY <1>1
<1>3. k \in Int /\ lo * Minute <= k /\ k < hi * Minute
  BY <1>1, <1>2 DEF At
<1>4. 0 <= lo * Minute
  BY <1>1
<1>5. hi * Minute <= Day
  <2>1. hi * Minute <= DayMinutes * Minute
    BY <1>1, Times
  <2> QED BY <2>1 DEF Day
<1>6. t - At(d, 0) = k
  BY <1>1, <1>2 DEF At
<1>7. t = d * Day + k
  BY <1>2
<1> HIDE DEF k
<1>8. DayOf(t) = d
  <2>1. \A b \in Nat \ {0}, j \in Int : 0 <= j /\ j < b => (d * b + j) \div b = d
    OBVIOUS
  <2>2. 0 <= k /\ k < Day
    BY <1>1, <1>2, <1>3, <1>4, <1>5
  <2> QED BY <1>1, <1>3, <1>7, <2>1, <2>2 DEF DayOf
<1>9. /\ k \div Minute \in Int /\ (k \div Minute) * Minute <= k
      /\ k < (k \div Minute) * Minute + Minute
  BY <1>1, <1>3, Division
<1>10. lo <= k \div Minute /\ k \div Minute < hi
  <2> DEFINE x == k \div Minute
  <2>1. x \in Int /\ x * Minute <= k /\ k < x * Minute + Minute
    BY <1>9
  <2> HIDE DEF x
  <2>2. (x + 1) * Minute = x * Minute + Minute /\ x * Minute \in Int
    BY <1>1, <2>1
  <2>3. lo * Minute < (x + 1) * Minute /\ x * Minute < hi * Minute
    BY <1>1, <1>2, <1>3, <2>1, <2>2
  <2>4. lo < x + 1 /\ x < hi
    BY <1>1, <2>1, <2>3, Times
  <2> QED BY <2>1, <2>4 DEF x
<1> QED BY <1>3, <1>6, <1>8, <1>9, <1>10

(***************************************************************************)
(* The windows the calculator finds.                                       *)
(***************************************************************************)
\* The image of a set under a function.
Img(f, S) == {f[x] : x \in S}

\* The image of a finite set is finite.
LEMMA ImgFinite ==
  ASSUME NEW f, NEW P, IsFiniteSet(P)
  PROVE  IsFiniteSet(Img(f, P))
<1> DEFINE g == [s \in P |-> f[s]]
<1>1. g \in Surjection(P, Img(f, P))
  BY DEF Surjection, Img
<1> QED BY <1>1, FS_Surjection DEF ExistsSurjection

\* What the calculator is given: spans of visits, finitely many.
Spans(booked) == IsFiniteSet(booked) /\ \A b \in booked : b.start \in Int /\ b.stop \in Int

\* The holes of a master's unavailabilities are finitely many.
LEMMA AwayHoles ==
  ASSUME NEW s \in Schedules, NEW m \in Masters, NEW d \in Int,
         NEW away \in SUBSET s.masters[m].away
  PROVE  Holes({AwayHole(u, d) : u \in away})
<1> DEFINE f == [u \in away |-> AwayHole(u, d)]
<1>1. IsFiniteSet(away)
  BY ScheduleAssumption, FS_Subset
<1>2. {AwayHole(u, d) : u \in away} = Img(f, away)
  BY DEF Img
<1>3. \A u \in away : AwayHole(u, d) \in [lo : Int, hi : Int]
  <2> TAKE u \in away
  <2>1. u.from \in Int /\ u.to \in Int
    BY ScheduleAssumption
  <2>2. At(d, 0) \in Int /\ Minute \in Nat \ {0}
    BY DayIsPositive, AvailabilityAssumption DEF At
  <2>3. (u.from - At(d, 0)) \div Minute \in Int /\ (u.to - At(d, 0)) \div Minute \in Int
    BY <2>1, <2>2, Division
  <2> QED BY <2>3 DEF AwayHole
<1> HIDE DEF f
<1> QED BY <1>1, <1>2, <1>3, ImgFinite DEF Holes

\* The hole of one visit.
BusyHole(b, d) ==
  [lo |-> (Max({b.start, At(d, 0)}) - At(d, 0)) \div Minute,
   hi |-> -((At(d, 0) - Min({b.stop, At(d + 1, 0)})) \div Minute)]

\* So are those of the visits.
LEMMA BusyHolesOK ==
  ASSUME NEW booked, Spans(booked), NEW d \in Int
  PROVE  Holes(BusyHoles(booked, d))
<1> DEFINE B == {c \in booked : c.start < At(d + 1, 0) /\ c.stop > At(d, 0)}
           f == [b \in B |-> BusyHole(b, d)]
<1>1. IsFiniteSet(B)
  BY FS_Subset DEF Spans
<1>2. BusyHoles(booked, d) = Img(f, B)
  BY DEF Img, BusyHoles, BusyHole
<1>3. \A b \in B : BusyHole(b, d) \in [lo : Int, hi : Int]
  <2> TAKE b \in B
  <2>1. b.start \in Int /\ b.stop \in Int
    BY DEF Spans
  <2>2. At(d, 0) \in Int /\ At(d + 1, 0) \in Int /\ Minute \in Nat \ {0}
    BY DayIsPositive, AvailabilityAssumption DEF At
  <2>3. Max({b.start, At(d, 0)}) \in Int /\ Min({b.stop, At(d + 1, 0)}) \in Int
    BY <2>1, <2>2, TwoNumbers
  <2>4. /\ (Max({b.start, At(d, 0)}) - At(d, 0)) \div Minute \in Int
        /\ (At(d, 0) - Min({b.stop, At(d + 1, 0)})) \div Minute \in Int
    BY <2>2, <2>3, Division
  <2> QED BY <2>4 DEF BusyHole
<1>4. \A h \in Img(f, B) : h \in [lo : Int, hi : Int]
  BY <1>3 DEF Img
<1> HIDE DEF f, B
<1> QED BY <1>1, <1>2, <1>4, ImgFinite DEF Holes

\* A free window lies in the hours of the branch and in those of the master, and
\* keeps off the times the master is away and the visits.
LEMMA WindowIsFree ==
  ASSUME NEW s \in Schedules, NEW m \in Masters, NEW d \in Int, NEW booked, Spans(booked),
         NEW w \in FreeWindows(s.branch, s.masters[m], booked, d)
  PROVE  /\ \E a \in WorkingHours(s.branch, d) : Inside(w, a) /\ a \in DayRange
         /\ \E b \in s.masters[m].week[Weekday(d)] : Inside(w, b) /\ b \in DayRange
         /\ \A u \in s.masters[m].away :
              u.from < At(d + 1, 0) /\ u.to > At(d, 0) => Apart(w, AwayHole(u, d))
         /\ \A h \in BusyHoles(booked, d) : Apart(w, h)
<1> DEFINE master == s.masters[m]
           away == {u \in master.away : u.from < At(d + 1, 0) /\ u.to > At(d, 0)}
<1>1. PICK i \in Intersect(WorkingHours(s.branch, d), WorkingRanges(master, d)) :
           w \in Cut(i, BusyHoles(booked, d))
  BY DEF FreeWindows
<1>2. PICK a \in WorkingHours(s.branch, d), c \in WorkingRanges(master, d) :
           i = [lo |-> Max({a.lo, c.lo}), hi |-> Min({a.hi, c.hi})]
  BY <1>1 DEF Intersect
<1>3. PICK b \in master.week[Weekday(d)] : c \in Cut(b, {AwayHole(u, d) : u \in away})
  BY <1>2 DEF WorkingRanges
<1>4. a \in DayRange
  <2>1. WorkingHours(s.branch, d) \in SUBSET DayRange
    BY HoursOfADay DEF DayHours
  <2> QED BY <1>2, <2>1
<1>5. b \in DayRange
  <2>1. master.week[Weekday(d)] \in SUBSET DayRange
    BY HoursOfADay DEF DayHours
  <2> QED BY <1>3, <2>1
<1>6. a \in [lo : Int, hi : Int] /\ b \in [lo : Int, hi : Int]
  BY <1>4, <1>5, AvailabilityAssumption DEF DayRange
<1>7. Inside(c, b) /\ \A u \in away : Apart(c, AwayHole(u, d))
  <2> DEFINE H == {AwayHole(u, d) : u \in away}
  <2>1. Holes(H)
    BY AwayHoles
  <2>2. \A u \in away : AwayHole(u, d) \in H
    OBVIOUS
  <2>3. c \in Cut(b, H)
    BY <1>3
  <2> HIDE DEF H
  <2>4. Inside(c, b) /\ \A h \in H : Apart(c, h)
    BY <1>6, <2>1, <2>3, CutSound
  <2> QED BY <2>2, <2>4
<1>8. /\ i \in [lo : Int, hi : Int]
      /\ a.lo <= i.lo /\ c.lo <= i.lo /\ i.hi <= a.hi /\ i.hi <= c.hi
  <2>1. a.lo \in Int /\ a.hi \in Int /\ c.lo \in Int /\ c.hi \in Int
    BY <1>6, <1>7 DEF Inside
  <2>2. /\ Max({a.lo, c.lo}) = IF a.lo >= c.lo THEN a.lo ELSE c.lo
        /\ Min({a.hi, c.hi}) = IF a.hi <= c.hi THEN a.hi ELSE c.hi
    BY <2>1, TwoNumbers
  <2> QED BY <1>2, <2>1, <2>2
<1>9. Inside(w, i) /\ \A h \in BusyHoles(booked, d) : Apart(w, h)
  <2>1. Holes(BusyHoles(booked, d))
    BY BusyHolesOK
  <2> QED BY <1>1, <1>8, <2>1, CutSound
<1>10. Inside(w, a) /\ Inside(w, c) /\ Inside(w, b)
  <2>1. /\ w.lo \in Int /\ w.hi \in Int /\ i.lo \in Int /\ i.hi \in Int
        /\ a.lo \in Int /\ a.hi \in Int /\ b.lo \in Int /\ b.hi \in Int
        /\ c.lo \in Int /\ c.hi \in Int
    BY <1>6, <1>7, <1>8, <1>9 DEF Inside
  <2> QED BY <1>7, <1>8, <1>9, <2>1 DEF Inside
<1>11. ASSUME NEW u \in master.away, u.from < At(d + 1, 0) /\ u.to > At(d, 0)
       PROVE  Apart(w, AwayHole(u, d))
  <2>1. Apart(c, AwayHole(u, d))
    BY <1>7, <1>11
  <2>2. c.lo <= w.lo /\ w.hi <= c.hi /\ w.lo \in Int /\ w.hi \in Int /\ c.lo \in Int /\ c.hi \in Int
    BY <1>7, <1>10 DEF Inside
  <2> QED BY <2>1, <2>2 DEF Apart
<1> QED BY <1>2, <1>3, <1>4, <1>5, <1>9, <1>10, <1>11

\* The calculator rounds the end of an unavailability down to a minute.
WholeMinutes ==
  \A s \in Schedules, m \in Masters : \A u \in s.masters[m].away : u.to % Minute = 0

\* An offered start is a minute of a free window with room for the work after it.
LEMMA OfferInWindow ==
  ASSUME NEW branch, NEW master, NEW booked, NEW from \in Int, NEW to \in Int, NEW minutes \in Nat,
         NEW x \in Calculate(branch, master, booked, from, to, minutes)
  PROVE  \E d \in Int : \E w \in FreeWindows(branch, master, booked, d) :
           \E k \in GridStarts(w, minutes) : x = At(d, k)
<1>1. DayOf(from) \in Int /\ DayOf(to - 1) \in Int
  BY DayIsPositive, Division DEF DayOf
<1>2. SearchDays(from, to) \subseteq Int
  BY <1>1 DEF SearchDays
<1> QED BY <1>2 DEF Calculate

\* Later minutes of a day are later instants.
LEMMA AtMonotone ==
  ASSUME NEW d \in Int, NEW a \in Int, NEW b \in Int, a <= b
  PROVE  At(d, a) \in Int /\ At(d, b) \in Int /\ At(d, a) <= At(d, b)
<1>1. Minute \in Nat \ {0} /\ d * Day \in Int
  BY DayIsPositive, AvailabilityAssumption
<1>2. a * Minute \in Int /\ b * Minute \in Int /\ a * Minute <= b * Minute
  BY <1>1, Times
<1> QED BY <1>1, <1>2 DEF At

\* The end of a day is the midnight of the next.
LEMMA NextDay == \A d \in Int : At(d, DayMinutes) = At(d + 1, 0)
<1> TAKE d \in Int
<1>1. Day \in Nat /\ DayMinutes * Minute = Day
  BY DayIsPositive DEF Day
<1>2. (d + 1) * Day = d * Day + Day /\ d * Day \in Int
  BY <1>1
<1>3. 0 * Minute = 0
  BY AvailabilityAssumption
<1> QED BY <1>1, <1>2, <1>3 DEF At

\* A tick that is inside a time is, as a minute, inside its hole: rounded as the
\* calculator does for visits, and for an unavailability that ends with a minute.
LEMMA MinuteInHole ==
  ASSUME NEW M \in Nat \ {0}, NEW k \in Int, NEW from \in Int, NEW to \in Int, from <= k, k < to
  PROVE  /\ from \div M <= k \div M
         /\ k \div M < -((0 - to) \div M)
         /\ to = (to \div M) * M => k \div M < to \div M
<1>1. k \div M \in Int /\ (k \div M) * M <= k
  BY Division
<1>2. from \div M <= k \div M
  BY DivMonotone
<1>3. k \div M < -((0 - to) \div M)
  <2> DEFINE q == (0 - to) \div M
             x == k \div M
  <2>1. 0 - to \in Int
    OBVIOUS
  <2>2. q \in Int /\ q * M <= 0 - to /\ x \in Int /\ x * M <= k
    BY <1>1, <2>1, Division
  <2> HIDE DEF q, x
  <2>3. (-q) * M = -(q * M) /\ q * M \in Int /\ x * M \in Int /\ -q \in Int
    BY <2>2
  <2>4. x * M < (-q) * M
    BY <2>2, <2>3
  <2>5. x < -q
    BY <2>2, <2>3, <2>4, Times
  <2> QED BY <2>5 DEF q, x
<1>4. ASSUME to = (to \div M) * M PROVE k \div M < to \div M
  <2>1. (k \div M) * M < (to \div M) * M /\ to \div M \in Int
    BY <1>1, <1>4, Division
  <2> QED BY <1>1, <2>1, Times
<1> QED BY <1>2, <1>3, <1>4

\* A whole minute is a whole number of minutes from every midnight.
LEMMA WholeFromMidnight ==
  ASSUME NEW t \in Int, t % Minute = 0, NEW d \in Int
  PROVE  t - At(d, 0) = ((t - At(d, 0)) \div Minute) * Minute
<1>1. Minute \in Nat \ {0} /\ DayMinutes \in Nat
  BY AvailabilityAssumption
<1> DEFINE q == t \div Minute
           z == d * DayMinutes
<1>2. q \in Int /\ t = q * Minute
  <2>1. \A a \in Int, b \in Nat \ {0} : a % b = 0 => a \div b \in Int /\ a = (a \div b) * b
    OBVIOUS
  <2> QED BY <1>1, <2>1
<1>3. z \in Int /\ At(d, 0) = z * Minute
  <2>1. d * (DayMinutes * Minute) = (d * DayMinutes) * Minute /\ 0 * Minute = 0
        /\ d * (DayMinutes * Minute) \in Int /\ d * DayMinutes \in Int
    BY <1>1
  <2> QED BY <2>1 DEF At, Day
<1> HIDE DEF q, z
<1>4. q * Minute - z * Minute = (q - z) * Minute /\ q - z \in Int
  BY <1>1, <1>2, <1>3
<1>5. \A a \in Int, b \in Nat \ {0} : (a * b) \div b = a
  OBVIOUS
<1>6. ((q - z) * Minute) \div Minute = q - z
  BY <1>1, <1>4, <1>5
<1> QED BY <1>2, <1>3, <1>4, <1>6

\* At every instant of a free window the branch is open, the master works and is
\* not away, and no visit the calculator was given takes place.
LEMMA WindowIsOpen ==
  ASSUME NEW s \in Schedules, NEW m \in Masters, NEW booked, Spans(booked), Offset = 0,
         WholeMinutes, NEW d \in Int, NEW w \in FreeWindows(s.branch, s.masters[m], booked, d),
         NEW t \in Int, At(d, w.lo) <= t, t < At(d, w.hi)
  PROVE  /\ DayOf(t) = d
         /\ OpenAt(s.branch, s.masters[m], t)
         /\ \A b \in booked : ~(b.start <= t /\ t < b.stop)
<1> DEFINE master == s.masters[m]
<1>0. Minute \in Nat \ {0} /\ DayMinutes \in Nat \ {0} /\ Day \in Nat \ {0}
  BY DayIsPositive, AvailabilityAssumption
<1>1. /\ \E a \in WorkingHours(s.branch, d) : Inside(w, a) /\ a \in DayRange
      /\ \E b \in master.week[Weekday(d)] : Inside(w, b) /\ b \in DayRange
      /\ \A u \in master.away :
           u.from < At(d + 1, 0) /\ u.to > At(d, 0) => Apart(w, AwayHole(u, d))
      /\ \A h \in BusyHoles(booked, d) : Apart(w, h)
  BY WindowIsFree
<1>2. PICK a \in WorkingHours(s.branch, d) : Inside(w, a) /\ a \in DayRange
  BY <1>1
<1>3. PICK b \in master.week[Weekday(d)] : Inside(w, b) /\ b \in DayRange
  BY <1>1
<1>4. /\ w.lo \in Int /\ w.hi \in Int /\ 0 <= w.lo /\ w.hi <= DayMinutes
      /\ a.lo \in Int /\ a.hi \in Int /\ b.lo \in Int /\ b.hi \in Int
      /\ a.lo <= w.lo /\ w.hi <= a.hi /\ b.lo <= w.lo /\ w.hi <= b.hi
  BY <1>0, <1>2, <1>3 DEF Inside, DayRange
<1>5. At(d, w.lo) <= t /\ t < At(d, w.hi)
  OBVIOUS
<1> DEFINE j == t - At(d, 0)
           y == j \div Minute
<1>6. DayOf(t) = d /\ j \in Int /\ y \in Int /\ w.lo <= y /\ y < w.hi
  BY <1>4, <1>5, TickOfDay
<1>7. /\ At(d, 0) \in Int /\ At(d + 1, 0) \in Int
       /\ At(d, 0) <= t /\ t < At(d + 1, 0)
  <2>1. At(d, 0) <= At(d, w.lo) /\ At(d, w.hi) <= At(d, DayMinutes) /\ At(d, 0) \in Int
        /\ At(d, w.lo) \in Int /\ At(d, w.hi) \in Int /\ At(d, DayMinutes) \in Int
    <3>1. 0 \in Int /\ DayMinutes \in Int
      BY <1>0
    <3> QED BY <1>4, <3>1, AtMonotone
  <2> QED BY <1>5, <2>1, NextDay
<1>8. ASSUME NEW r \in {a, b} PROVE At(d, r.lo) <= t /\ t < At(d, r.hi)
  <2>1. r.lo \in Int /\ r.hi \in Int /\ r.lo <= w.lo /\ w.hi <= r.hi
    BY <1>4
  <2>2. At(d, r.lo) <= At(d, w.lo) /\ At(d, w.hi) <= At(d, r.hi)
        /\ At(d, r.lo) \in Int /\ At(d, r.hi) \in Int /\ At(d, w.lo) \in Int /\ At(d, w.hi) \in Int
    BY <1>4, <2>1, AtMonotone
  <2> QED BY <1>5, <2>2
<1>9. ASSUME NEW u \in master.away, u.from <= t, t < u.to PROVE FALSE
  <2>1. u.from \in Int /\ u.to \in Int /\ u.to % Minute = 0
    BY ScheduleAssumption DEF WholeMinutes
  <2>2. Apart(w, AwayHole(u, d))
    BY <1>1, <1>7, <1>9, <2>1
  <2>3. u.to - At(d, 0) = ((u.to - At(d, 0)) \div Minute) * Minute
    BY <2>1, WholeFromMidnight
  <2>4. /\ u.from - At(d, 0) \in Int /\ u.to - At(d, 0) \in Int
        /\ u.from - At(d, 0) <= j /\ j < u.to - At(d, 0)
    BY <1>7, <1>9, <2>1
  <2> HIDE DEF j
  <2>5. (u.from - At(d, 0)) \div Minute <= y /\ y < (u.to - At(d, 0)) \div Minute
    BY <1>0, <1>6, <2>3, <2>4, MinuteInHole
  <2> QED BY <1>6, <2>2, <2>5 DEF Apart, AwayHole
<1>10. ASSUME NEW c \in booked, c.start <= t, t < c.stop PROVE FALSE
  <2>1. c.start \in Int /\ c.stop \in Int
    BY DEF Spans
  <2> DEFINE first == Max({c.start, At(d, 0)})
             last == Min({c.stop, At(d + 1, 0)})
             hole == BusyHole(c, d)
  <2>2. first \in Int /\ last \in Int /\ first <= t /\ t < last
    <3>1. /\ first = IF c.start >= At(d, 0) THEN c.start ELSE At(d, 0)
          /\ last = IF c.stop <= At(d + 1, 0) THEN c.stop ELSE At(d + 1, 0)
      BY <1>7, <2>1, TwoNumbers
    <3> HIDE DEF first, last
    <3> QED BY <1>7, <1>10, <2>1, <3>1
  <2>3. hole = [lo |-> (first - At(d, 0)) \div Minute, hi |-> -((At(d, 0) - last) \div Minute)]
    BY DEF BusyHole
  <2>4. hole \in BusyHoles(booked, d)
    <3>1. c.start < At(d + 1, 0) /\ c.stop > At(d, 0)
      BY <1>7, <1>10, <2>1
    <3> QED BY <3>1 DEF BusyHoles, BusyHole
  <2>5. Apart(w, hole)
    BY <1>1, <2>4
  <2> HIDE DEF first, last, hole
  <2>6. /\ first - At(d, 0) \in Int /\ last - At(d, 0) \in Int
        /\ first - At(d, 0) <= j /\ j < last - At(d, 0)
        /\ At(d, 0) - last = 0 - (last - At(d, 0))
    BY <1>7, <2>2
  <2> HIDE DEF j
  <2>7. (first - At(d, 0)) \div Minute <= y /\ y < -((At(d, 0) - last) \div Minute)
    BY <1>0, <1>6, <2>6, MinuteInHole
  <2>8. hole.lo <= y /\ y < hole.hi
    BY <2>3, <2>7
  <2> QED BY <1>6, <2>5, <2>8 DEF Apart
<1>11. t + Offset * Minute = t
  BY <1>0
<1> HIDE DEF j, y
<1>12. OpenAt(s.branch, master, t)
  BY <1>2, <1>3, <1>6, <1>8, <1>9, <1>11 DEF OpenAt
<1> QED BY <1>6, <1>10, <1>12

\* While the work at an offered start lasts, the branch is open, the master works
\* and is not away, and no visit the calculator was given takes place.
LEMMA OfferIsFree ==
  ASSUME NEW s \in Schedules, NEW m \in Masters, NEW booked, Spans(booked),
         NEW from \in Int, NEW to \in Int, NEW minutes \in Nat, Offset = 0, WholeMinutes,
         NEW x \in Calculate(s.branch, s.masters[m], booked, from, to, minutes),
         NEW t \in Int, x <= t, t < x + minutes * Minute
  PROVE  /\ OpenAt(s.branch, s.masters[m], t)
         /\ \A b \in booked : ~(b.start <= t /\ t < b.stop)
<1> DEFINE master == s.masters[m]
<1>0. Minute \in Nat \ {0} /\ DayMinutes \in Nat \ {0} /\ Day \in Nat \ {0}
  BY DayIsPositive, AvailabilityAssumption
<1>1. PICK d \in Int : \E w \in FreeWindows(s.branch, master, booked, d) :
        \E k \in GridStarts(w, minutes) : x = At(d, k)
  BY OfferInWindow
<1>2. PICK w \in FreeWindows(s.branch, master, booked, d) :
        \E k \in GridStarts(w, minutes) : x = At(d, k)
  BY <1>1
<1>3. PICK k \in GridStarts(w, minutes) : x = At(d, k)
  BY <1>2
<1>4. w.lo \in Int /\ w.hi \in Int
  <2>1. \E b \in master.week[Weekday(d)] : Inside(w, b) /\ b \in DayRange
    BY WindowIsFree
  <2> QED BY <2>1 DEF Inside
<1>5. k \in Int /\ w.lo <= k /\ k + minutes <= w.hi
  BY <1>4 DEF GridStarts
<1>6. At(d, w.lo) <= t /\ t < At(d, w.hi)
  <2>1. At(d, w.lo) <= At(d, k) /\ At(d, k + minutes) <= At(d, w.hi) /\ At(d, w.lo) \in Int
        /\ At(d, k) \in Int /\ At(d, w.hi) \in Int /\ At(d, k + minutes) \in Int
    <3>1. k + minutes \in Int
      BY <1>5
    <3> QED BY <1>4, <1>5, <3>1, AtMonotone
  <2>2. At(d, k + minutes) = At(d, k) + minutes * Minute
    <3>1. (k + minutes) * Minute = k * Minute + minutes * Minute
          /\ k * Minute \in Int /\ minutes * Minute \in Int /\ d * Day \in Int
      BY <1>0, <1>5
    <3> QED BY <3>1 DEF At
  <2> QED BY <1>3, <2>1, <2>2
<1> QED BY <1>6, WindowIsOpen

(***************************************************************************)
(* What the calculator is given, and what it accepts.                      *)
(***************************************************************************)
\* A row keeps to one of the slots that are asked for.
SlotsKept == \A v \in Rows : SlotOf(appts[v]) \in Slots

\* A row has a master, a time and minutes of work.
LEMMA RowsHaveTimes ==
  ASSUME IInv, NEW v \in Rows
  PROVE  /\ appts[v] \in Row /\ appts[v].master \in Masters
         /\ appts[v].start \in Nat /\ appts[v].stop \in Nat /\ appts[v].minutes \in Nat \ {0}
         /\ SlotsKept => appts[v].start < appts[v].stop
<1>1. appts[v] \in Row
  BY DEF IInv, TypeOK, Rows
<1> QED BY <1>1, BookingAssumption DEF Row, SlotsKept, SlotOf

\* The visits the handlers give to the calculator are such spans.
LEMMA VisitsAreSpans ==
  ASSUME IInv, NEW S \in SUBSET Rows
  PROVE  Spans({appts[v] : v \in S})
<1>1. IsFiniteSet(S)
  BY BookingAssumption, FS_Subset DEF Rows
<1>2. {appts[v] : v \in S} = Img(appts, S)
  BY DEF Img
<1>3. \A v \in S : appts[v].start \in Int /\ appts[v].stop \in Int
  BY RowsHaveTimes
<1> QED BY <1>1, <1>2, <1>3, ImgFinite DEF Spans

\* A start the calculator finds in today's schedule leaves the work within the hours.
LEMMA FoundIsOpen ==
  ASSUME IInv, Offset = 0, WholeMinutes, NEW m \in Masters, NEW S \in SUBSET Rows,
         NEW minutes \in Works, NEW from \in Int, NEW to \in Int,
         NEW x \in Calculate(schedule.branch, schedule.masters[m], {appts[v] : v \in S},
                             from, to, minutes)
  PROVE  /\ x \in Int
         /\ OpenThroughout(m, x, x + minutes * Minute)
         /\ SlotsKept =>
              \A v \in S : ~Overlap(appts[v], [start |-> x, stop |-> x + minutes * Minute])
<1> DEFINE booked == {appts[v] : v \in S}
<1>1. schedule \in Schedules /\ minutes \in Nat \ {0} /\ Spans(booked)
  BY VisitsAreSpans, BookingAssumption DEF IInv, TypeOK
<1>2. x \in Int
  <2>0. x \in Calculate(schedule.branch, schedule.masters[m], booked, from, to, minutes)
    OBVIOUS
  <2> HIDE DEF booked
  <2>1. PICK d \in Int : \E w \in FreeWindows(schedule.branch, schedule.masters[m], booked, d) :
          \E k \in GridStarts(w, minutes) : x = At(d, k)
    BY <1>1, <2>0, OfferInWindow
  <2>2. PICK w \in FreeWindows(schedule.branch, schedule.masters[m], booked, d) :
          \E k \in GridStarts(w, minutes) : x = At(d, k)
    BY <2>1
  <2>3. PICK k \in GridStarts(w, minutes) : x = At(d, k)
    BY <2>2
  <2>4. w.lo \in Int /\ w.hi \in Int
    <3>1. \E b \in schedule.masters[m].week[Weekday(d)] : Inside(w, b)
      BY <1>1, WindowIsFree
    <3> QED BY <3>1 DEF Inside
  <2>5. k \in Int /\ k <= k
    <3>1. k \in w.lo..(w.hi - minutes)
      BY <2>3 DEF GridStarts
    <3> QED BY <1>1, <2>4, <3>1
  <2> QED BY <2>3, <2>5, AtMonotone
<1> DEFINE end == x + minutes * Minute
<1>3. end \in Int /\ x < end
  BY <1>1, <1>2, AvailabilityAssumption
<1>4. \A t \in Int : x <= t /\ t < end =>
        /\ OpenAt(schedule.branch, schedule.masters[m], t)
        /\ \A b \in booked : ~(b.start <= t /\ t < b.stop)
  <2> TAKE t \in Int
  <2> HAVE x <= t /\ t < end
  <2>1. x \in Calculate(schedule.branch, schedule.masters[m], booked, from, to, minutes)
    OBVIOUS
  <2> HIDE DEF booked
  <2> QED BY <1>1, <2>1, OfferIsFree
<1> HIDE DEF end
<1>5. OpenThroughout(m, x, end)
  <2>1. \A t \in x..(end - 1) : t \in Int /\ x <= t /\ t < end
    BY <1>2, <1>3
  <2> QED BY <1>4, <2>1 DEF OpenThroughout
<1>6. ASSUME SlotsKept, NEW v \in S, Overlap(appts[v], [start |-> x, stop |-> end]) PROVE FALSE
  <2>1. appts[v] \in booked /\ appts[v].start \in Int /\ appts[v].stop \in Int
    BY RowsHaveTimes
  <2>2. appts[v].start < end /\ x < appts[v].stop
    BY <1>6 DEF Overlap
  <2>3. appts[v].start < appts[v].stop
    BY <1>6, RowsHaveTimes
  <2>4. CASE appts[v].start <= x
    BY <1>2, <1>3, <1>4, <2>1, <2>2, <2>4
  <2>5. CASE x < appts[v].start
    BY <1>2, <1>3, <1>4, <2>1, <2>2, <2>3, <2>5
  <2> QED BY <1>2, <2>1, <2>4, <2>5
<1> QED BY <1>2, <1>5, <1>6 DEF end

(***************************************************************************)
(* A visit stays within the hours it was booked in.                        *)
(***************************************************************************)
\* Schedules that stay, of a branch in UTC, with unavailabilities that end with a
\* minute: a new schedule moves no visit, the calculator counts the minutes of a
\* schedule from the UTC midnight, and rounds the end of an unavailability down.
SteadyHours == "SetSchedule" \notin Commands /\ Offset = 0 /\ WholeMinutes

\* A handler has read today's schedules, and goes on from the check of the slots
\* with work that keeps the hours.
ReadOK(p) ==
  LET t == txn[p] IN
  t.name \in {"Create", "Reschedule"} =>
    /\ t.step \in {"master", "slots"} => t.branch = schedule.branch
    /\ t.step = "slots" => t.master = schedule.masters[t.slot.master]
    /\ t.step \in {"bay", "save"} =>
         OpenThroughout(t.slot.master, t.slot.start, t.slot.start + t.minutes * Minute)

HoursInv == WorkWithinHours /\ \A p \in Procs : ReadOK(p)

\* A handler that reads nothing it has to keep to.
LEMMA FreshRead ==
  ASSUME IInv, NEW p \in Procs, NEW h, txn' = [txn EXCEPT ![p] = h],
         h.step \in {"idle", "branch"} \/ h.name \notin {"Create", "Reschedule"}
  PROVE  ReadOK(p)'
<1>1. txn'[p] = h
  BY DEF IInv, TypeOK
<1> QED BY <1>1 DEF ReadOK

\* Reading and checking keeps to the hours.
LEMMA ReadsKeepHours ==
  ASSUME IInv, SteadyHours, NEW p \in Procs, ReadOK(p), UNCHANGED schedule,
         ReadBranchSchedule(p) \/ ReadMasterSchedule(p) \/ CheckSlots(p) \/ CheckBay(p)
  PROVE  ReadOK(p)'
<1> DEFINE t == txn[p]
<1>1. /\ TypeOK /\ RequestOK(p) /\ CopyOK(p) /\ t \in Handler /\ t.step \notin {"idle", "save"}
  BY DEF IInv, TypeOK, ReadBranchSchedule, ReadMasterSchedule, CheckSlots, CheckBay, Step
<1>2. /\ t.name \in {"Create", "Reschedule"} /\ t.slot \in Slots /\ t.minutes \in Works
  BY <1>1 DEF RequestOK
<1>3. CASE Refused(p, "conflict")
  BY <1>1, <1>3, FreshRead DEF Refused, Finish, Idle
<1>4. CASE ReadBranchSchedule(p)
  <2>1. /\ txn'[p].step = "master" /\ txn'[p].branch = schedule'.branch
    BY <1>1, <1>4 DEF ReadBranchSchedule, TypeOK, Handler
  <2> QED BY <2>1 DEF ReadOK
<1>5. CASE ReadMasterSchedule(p)
  <2>1. /\ txn'[p].step = "slots" /\ txn'[p].branch = t.branch /\ txn'[p].slot = t.slot
        /\ txn'[p].master = schedule.masters[t.slot.master]
    BY <1>1, <1>5 DEF ReadMasterSchedule, TypeOK, Handler
  <2>2. t.branch = schedule.branch
    BY <1>2, <1>5 DEF ReadOK, ReadMasterSchedule, Step
  <2> QED BY <2>1, <2>2 DEF ReadOK
<1>6. CASE CheckSlots(p) /\ ~Refused(p, "conflict")
  <2> DEFINE S == ForMaster(t.slot, t.id)
             work == t.slot.start + t.minutes * Minute
  <2>1. t.branch = schedule.branch /\ t.master = schedule.masters[t.slot.master]
    BY <1>2, <1>6 DEF ReadOK, CheckSlots
  <2>2. /\ t.slot.start \in Calculate(schedule.branch, schedule.masters[t.slot.master],
                                      {appts[v] : v \in S}, t.slot.start - Grid * Minute,
                                      t.slot.stop + Grid * Minute, t.minutes)
        /\ txn' = [txn EXCEPT ![p].step = IF t.slot.bay = NoBay THEN "save" ELSE "bay",
                              ![p].branch = NoVisit, ![p].master = NoVisit]
    BY <1>6, <2>1 DEF CheckSlots, StartIsAvailable
  <2>3. /\ S \in SUBSET Rows /\ t.slot.master \in Masters
        /\ t.slot.start - Grid * Minute \in Int /\ t.slot.stop + Grid * Minute \in Int
    BY <1>2, BookingAssumption, AvailabilityAssumption DEF ForMaster, Blocking, Masters
  <2> HIDE DEF S
  <2>4. OpenThroughout(t.slot.master, t.slot.start, t.slot.start + t.minutes * Minute)
    BY <1>2, <2>2, <2>3, FoundIsOpen DEF SteadyHours
  <2>5. /\ txn'[p].slot = t.slot /\ txn'[p].minutes = t.minutes
        /\ txn'[p].step \in {"bay", "save"}
    BY <1>1, <2>2 DEF TypeOK, Handler
  <2> QED BY <2>4, <2>5 DEF ReadOK, OpenThroughout
<1>7. CASE CheckBay(p) /\ ~Refused(p, "conflict")
  <2>1. /\ t.step = "bay" /\ txn'[p].step = "save" /\ txn'[p].name = t.name
        /\ txn'[p].slot = t.slot /\ txn'[p].minutes = t.minutes
    BY <1>1, <1>7 DEF CheckBay, Step, TypeOK, Handler
  <2> QED BY <1>2, <2>1 DEF ReadOK, OpenThroughout
<1> QED BY <1>3, <1>4, <1>5, <1>6, <1>7

\* Every step of a handler keeps to the hours.
LEMMA HoursStep ==
  ASSUME IInv, HoursInv, SteadyHours, NEW p \in Procs, Handle(p)
  PROVE  HoursInv'
<1>1. TypeOK /\ UNCHANGED schedule /\ \A q \in Procs \ {p} : txn'[q] = txn[q]
  BY Handled DEF IInv
<1>2. \A q \in Procs \ {p} : ReadOK(q)'
  BY <1>1 DEF HoursInv, ReadOK, OpenThroughout
<1>3. ASSUME UNCHANGED appts PROVE WorkWithinHours'
  BY <1>1, <1>3 DEF HoursInv, WorkWithinHours, OpenThroughout, Rows
<1>4. CASE BeginCreate(p) \/ BeginReschedule(p) \/ BeginStartWork(p) \/ BeginComplete(p)
  <2>1. ReadOK(p)'
    BY <1>4, FreshRead
       DEF BeginCreate, BeginReschedule, BeginStartWork, BeginComplete, BeginStatus, Begin, Idle
  <2> QED BY <1>2, <1>3, <1>4, <2>1, Begun DEF HoursInv
<1>5. CASE ReadBranchSchedule(p) \/ ReadMasterSchedule(p) \/ CheckSlots(p) \/ CheckBay(p)
  <2>1. ReadOK(p)'
    BY <1>1, <1>5, ReadsKeepHours DEF HoursInv
  <2> QED BY <1>2, <1>3, <1>5, <2>1, Checked DEF HoursInv
<1>6. CASE \E a \in Answers : Refused(p, a)
  <2>1. ReadOK(p)' /\ UNCHANGED appts
    BY <1>6, FreshRead DEF Refused, Finish, Idle
  <2> QED BY <1>2, <1>3, <2>1 DEF HoursInv
<1>7. ASSUME NEW v \in Visits, NEW row \in Row, Writes(p, v, row) PROVE HoursInv'
  <2>1. ReadOK(p)'
    BY <1>7, FreshRead DEF Writes, Finish, Idle
  <2>2. /\ appts'[v] = row /\ \A w \in Visits \ {v} : appts'[w] = appts[w]
        /\ Rows' = Rows \cup {v} /\ Rows \subseteq Visits
    BY <1>7, Written DEF Rows
  <2>3. OpenThroughout(row.master, row.start, row.start + row.minutes * Minute)
    BY <1>7 DEF Writes, Timed, HoursInv, ReadOK, WorkWithinHours
  <2>4. WorkWithinHours'
    BY <1>1, <2>2, <2>3 DEF HoursInv, WorkWithinHours, OpenThroughout
  <2> QED BY <1>2, <2>1, <2>4 DEF HoursInv
<1> QED BY <1>4, <1>5, <1>6, <1>7, Saves DEF Handle

\* engineering.md 2.7: while the schedules stay, no visit is worked on while the
\* branch is closed, or its master off duty or away; neither the moves of
\* visits nor a copy that has gone stale takes one out of the hours.
THEOREM VisitsStayWithinHours == SteadyHours => (Spec => []WorkWithinHours)
<1> SUFFICES ASSUME SteadyHours PROVE Spec => []WorkWithinHours
  OBVIOUS
<1>1. Init => HoursInv
  BY DEF Init, HoursInv, WorkWithinHours, ReadOK, Rows, Idle
<1>2. IInv /\ HoursInv /\ [Next]_vars => HoursInv'
  <2> SUFFICES ASSUME IInv, HoursInv, [Next]_vars PROVE HoursInv'
    OBVIOUS
  <2>1. CASE Tick \/ UNCHANGED vars
    BY <2>1 DEF Tick, vars, HoursInv, WorkWithinHours, ReadOK, OpenThroughout, Rows
  <2> QED BY <2>1, HoursStep DEF Next, SetSchedule, SteadyHours
<1>3. HoursInv => WorkWithinHours
  BY DEF HoursInv
<1> QED BY <1>1, <1>2, <1>3, Invariance, PTL DEF Spec

(***************************************************************************)
(* What is offered.                                                        *)
(***************************************************************************)
SearchInv == SlotsKept /\ now \in (StartsAt..MaxNow) \cup {StartsAt}

\* Rows keep to the slots asked for, and the clock to its bounds.
LEMMA SearchInvariance == Spec => []SearchInv
<1>1. Init => SearchInv
  BY DEF Init, SearchInv, SlotsKept, Rows
<1>2. IInv /\ SearchInv /\ [Next]_vars => SearchInv'
  <2> SUFFICES ASSUME IInv, SearchInv, [Next]_vars PROVE SearchInv'
    OBVIOUS
  <2>1. ASSUME UNCHANGED appts PROVE SlotsKept'
    BY <2>1 DEF SearchInv, SlotsKept, Rows, SlotOf
  <2>2. CASE SetSchedule \/ UNCHANGED vars
    BY <2>1, <2>2 DEF SetSchedule, vars, SearchInv
  <2>3. CASE Tick
    BY <2>1, <2>3, BookingAssumption DEF Tick, SearchInv
  <2>4. ASSUME NEW p \in Procs, Handle(p) PROVE SearchInv'
    <3>1. UNCHANGED now
      BY <2>4, Handled
    <3>2. ASSUME NEW v \in Visits, NEW row \in Row, Writes(p, v, row) PROVE SlotsKept'
      <4>1. /\ appts'[v] = row /\ \A w \in Visits \ {v} : appts'[w] = appts[w]
            /\ Rows' = Rows \cup {v} /\ Rows \subseteq Visits
        BY <3>2, Written DEF Rows
      <4>2. SlotOf(row) \in Slots
        BY <3>2 DEF Writes, Lawful, SearchInv, SlotsKept
      <4> QED BY <4>1, <4>2 DEF SearchInv, SlotsKept, SlotOf
    <3> QED BY <2>1, <2>4, <3>1, <3>2, Handled DEF SearchInv
  <2> QED BY <2>2, <2>3, <2>4 DEF Next
<1> QED BY <1>1, <1>2, Invariance, PTL DEF Spec

\* Of what is offered, the part within the search meets no visit.
OfferedInSearchIsFree ==
  \A m \in Masters, minutes \in Works : \A s \in Offered(m, minutes) :
    /\ OpenThroughout(m, s, s + minutes * Minute)
    /\ now <= s /\ s + minutes * Minute <= now + Lookahead
         => ~Taken(m, s, s + minutes * Minute)

\* The visits the handler asks for are those in the search.
LEMMA OffersMeetNoVisit ==
  ASSUME IInv, SlotsKept, Offset = 0, WholeMinutes, NEW m \in Masters, NEW minutes \in Works,
         NEW s \in Offered(m, minutes)
  PROVE  /\ s \in Int /\ OpenThroughout(m, s, s + minutes * Minute)
         /\ \A v \in Rows :
              /\ appts[v].master = m /\ appts[v].status \in Active
              /\ Overlap(appts[v], [start |-> s, stop |-> s + minutes * Minute])
              => ~Overlap(appts[v], [start |-> now, stop |-> now + Lookahead])
<1> DEFINE span == [master |-> m, start |-> now, stop |-> now + Lookahead]
           S == ForMaster(span, NoVisit)
<1>1. now \in Int /\ now + Lookahead \in Int
  BY BookingAssumption DEF IInv, TypeOK
<1>2. S \in SUBSET Rows
  BY DEF ForMaster, Blocking
<1>3. s \in Calculate(schedule.branch, schedule.masters[m], {appts[v] : v \in S},
                      now, now + Lookahead, minutes)
  BY DEF Offered
<1>4. \A v \in Rows :
        /\ appts[v].master = m /\ appts[v].status \in Active
        /\ Overlap(appts[v], [start |-> now, stop |-> now + Lookahead])
        => v \in S
  <2>1. NoVisit \notin Rows
    BY BookingAssumption DEF Rows
  <2> QED BY <2>1 DEF ForMaster, Blocking, Overlap
<1> HIDE DEF S
<1> QED BY <1>1, <1>2, <1>3, <1>4, FoundIsOpen

\* product.md FR-5.5.3, whatever the schedules become: an offered slot keeps the hours
\* of branch and master as they are, and meets none of the master's visits if it
\* is within the search.
THEOREM OffersAreFreeInSearch ==
  Offset = 0 /\ WholeMinutes => (Spec => []OfferedInSearchIsFree)
<1> SUFFICES ASSUME Offset = 0, WholeMinutes PROVE Spec => []OfferedInSearchIsFree
  OBVIOUS
<1>1. IInv /\ SearchInv => OfferedInSearchIsFree
  <2> SUFFICES ASSUME IInv, SearchInv, NEW m \in Masters, NEW minutes \in Works,
                      NEW s \in Offered(m, minutes)
               PROVE  /\ OpenThroughout(m, s, s + minutes * Minute)
                      /\ now <= s /\ s + minutes * Minute <= now + Lookahead
                           => ~Taken(m, s, s + minutes * Minute)
    BY DEF OfferedInSearchIsFree
  <2> DEFINE end == s + minutes * Minute
  <2>1. /\ s \in Int /\ OpenThroughout(m, s, end)
        /\ \A v \in Rows :
             /\ appts[v].master = m /\ appts[v].status \in Active
             /\ Overlap(appts[v], [start |-> s, stop |-> end])
             => ~Overlap(appts[v], [start |-> now, stop |-> now + Lookahead])
    BY OffersMeetNoVisit DEF SearchInv
  <2>2. end \in Int /\ now \in Int /\ Lookahead \in Int
    BY <2>1, BookingAssumption, AvailabilityAssumption DEF IInv, TypeOK
  <2>3. \A v \in Rows : appts[v].start \in Int /\ appts[v].stop \in Int
    BY RowsHaveTimes
  <2> HIDE DEF end
  <2>4. ASSUME now <= s, end <= now + Lookahead PROVE ~Taken(m, s, end)
    BY <2>1, <2>2, <2>3, <2>4 DEF Taken, Overlap
  <2> QED BY <2>1, <2>4 DEF end
<1> QED BY <1>1, Invariance, SearchInvariance, PTL

\* The slots asked for end after the clock has stopped and begin within every search:
\* the search asks for no visit that is over, and none beyond its end.
VisitsInSearch ==
  \A s \in Slots : MaxNow < s.stop /\ StartsAt < s.stop /\ s.start < StartsAt + Lookahead

\* Where every visit is within the search, whatever is offered is free.
THEOREM OffersAreFree ==
  Offset = 0 /\ WholeMinutes /\ VisitsInSearch => (Spec => []OfferedIsFree)
<1> SUFFICES ASSUME Offset = 0, WholeMinutes, VisitsInSearch PROVE Spec => []OfferedIsFree
  OBVIOUS
<1>1. IInv /\ SearchInv => OfferedIsFree
  <2> SUFFICES ASSUME IInv, SearchInv, NEW m \in Masters, NEW minutes \in Works,
                      NEW s \in Offered(m, minutes)
               PROVE  /\ OpenThroughout(m, s, s + minutes * Minute)
                      /\ ~Taken(m, s, s + minutes * Minute)
    BY DEF OfferedIsFree
  <2>1. \A v \in Rows : Overlap(appts[v], [start |-> now, stop |-> now + Lookahead])
    <3> TAKE v \in Rows
    <3>1. SlotOf(appts[v]) \in Slots /\ now \in (StartsAt..MaxNow) \cup {StartsAt}
      BY DEF SearchInv, SlotsKept
    <3>2. /\ MaxNow < appts[v].stop /\ StartsAt < appts[v].stop
          /\ appts[v].start < StartsAt + Lookahead
      BY <3>1 DEF VisitsInSearch, SlotOf
    <3>3. appts[v].start \in Int /\ appts[v].stop \in Int
      BY RowsHaveTimes
    <3> QED BY <3>1, <3>2, <3>3, BookingAssumption DEF Overlap
  <2> QED BY <2>1, OffersMeetNoVisit DEF SearchInv, Taken
<1> QED BY <1>1, Invariance, SearchInvariance, PTL

(***************************************************************************)
(* Every free stretch lies in a window.                                    *)
(***************************************************************************)
\* A hole that is no part of the stretch from x to y.
Beside(h, x, y) == h.hi <= x \/ h.lo >= y

\* The stretch is behind the cursor in a piece, or still ahead of it.
CutKeeps(x, y, c) ==
  /\ c.cursor \in Int
  /\ c.cursor <= x \/ \E i \in c.out : i.lo <= x /\ y <= i.hi

LEMMA CutOffKeeps ==
  ASSUME NEW w \in [lo : Int, hi : Int], NEW h \in [lo : Int, hi : Int], NEW c,
         NEW x \in Int, NEW y \in Int, x < y, w.lo <= x, y <= w.hi,
         Beside(h, x, y), CutKeeps(x, y, c)
  PROVE  CutKeeps(x, y, CutOff(w, h, c))
<1> DEFINE t == CutOff(w, h, c)
<1>1. /\ c.cursor \in Int /\ h.lo \in Int /\ h.hi \in Int /\ w.lo \in Int /\ w.hi \in Int
  BY DEF CutKeeps
<1>2. CASE h.hi <= c.cursor \/ h.lo >= w.hi
  BY <1>2 DEF CutOff
<1>3. CASE ~(h.hi <= c.cursor \/ h.lo >= w.hi)
  <2> DEFINE until == IF h.lo >= w.lo THEN h.lo ELSE w.lo
             end == IF h.hi <= w.hi THEN h.hi ELSE w.hi
             next == IF c.cursor >= end THEN c.cursor ELSE end
             piece == [lo |-> c.cursor, hi |-> until]
  <2>1. until = Max({h.lo, w.lo}) /\ end = Min({h.hi, w.hi}) /\ end \in Int
    <3>1. until = Max({h.lo, w.lo})
      BY <1>1, TwoNumbers
    <3>2. end = Min({h.hi, w.hi})
      <4> DEFINE p == h.hi
                 q == w.hi
      <4>1. p \in Int /\ q \in Int
        BY <1>1
      <4> HIDE DEF p, q
      <4>2. Min({p, q}) = IF p <= q THEN p ELSE q
        BY <4>1, TwoNumbers
      <4> QED BY <4>2 DEF p, q
    <3>3. end \in Int
      BY <1>1
    <3> QED BY <3>1, <3>2, <3>3
  <2>2. next = Max({c.cursor, end})
    BY <1>1, <2>1, TwoNumbers
  <2>3. t = [cursor |-> next, out |-> c.out \cup (IF c.cursor < until THEN {piece} ELSE {})]
    BY <1>3, <2>1, <2>2 DEF CutOff
  <2>4. /\ t.cursor = next /\ next \in Int /\ c.out \subseteq t.out
        /\ c.cursor < until => piece \in t.out
    <3>1. next \in Int
      BY <1>1, <2>1
    <3> HIDE DEF next, piece, until
    <3> QED BY <2>3, <3>1
  <2>5. CASE \E i \in c.out : i.lo <= x /\ y <= i.hi
    BY <2>4, <2>5 DEF CutKeeps
  <2>6. CASE c.cursor <= x /\ h.hi <= x
    <3>1. next <= x
      BY <1>1, <2>6
    <3> HIDE DEF next
    <3> QED BY <2>4, <3>1 DEF CutKeeps
  <2>7. CASE c.cursor <= x /\ h.lo >= y
    <3>1. c.cursor < until /\ y <= until
      BY <1>1, <2>7
    <3>2. piece.lo <= x /\ y <= piece.hi
      BY <2>7, <3>1
    <3> HIDE DEF next, piece
    <3> QED BY <2>4, <3>1, <3>2 DEF CutKeeps
  <2> QED BY <2>5, <2>6, <2>7 DEF CutKeeps, Beside
<1> QED BY <1>2, <1>3

\* A stretch of a window beside all the holes is left in one piece.
LEMMA CutComplete ==
  ASSUME NEW w \in [lo : Int, hi : Int], NEW H, Holes(H),
         NEW x \in Int, NEW y \in Int, x < y, w.lo <= x, y <= w.hi,
         \A h \in H : Beside(h, x, y)
  PROVE  \E i \in Cut(w, H) : i.lo <= x /\ y <= i.hi
<1>1. PICK f : CutsOver(H, w, f)
  BY CutsExist
<1>2. CutTo(H, w) = f[H]
  <2>1. H \in SUBSET H
    OBVIOUS
  <2> QED BY <1>1, <2>1, CutFrom
<1> DEFINE G == {s \in SUBSET H : CutKeeps(x, y, f[s])}
<1>3. ASSUME NEW s \in SUBSET H PROVE f[s] = CutStep(w, f, s)
  BY <1>1, CutsStep
<1>4. {} \in G
  <2>1. f[{}] = [cursor |-> w.lo, out |-> {}]
    BY <1>3 DEF CutStep
  <2> QED BY <2>1 DEF CutKeeps
<1>5. ASSUME NEW s \in SUBSET H, s # {}, \A h \in s : s \ {h} \in G
      PROVE  s \in G
  <2> DEFINE h == Latest(s)
  <2>1. h \in s
    BY <1>5, LatestIn
  <2>2. CutKeeps(x, y, f[s \ {h}])
    BY <1>5, <2>1
  <2>3. f[s] = CutOff(w, h, f[s \ {h}])
    BY <1>3, <1>5 DEF CutStep
  <2>4. h \in [lo : Int, hi : Int] /\ Beside(h, x, y)
    BY <2>1 DEF Holes
  <2> HIDE DEF h
  <2>5. CutKeeps(x, y, CutOff(w, h, f[s \ {h}]))
    BY <2>2, <2>4, CutOffKeeps
  <2> QED BY <2>3, <2>5
<1>6. \A s \in SUBSET H : s \in G
  <2> HIDE DEF G
  <2> QED BY <1>4, <1>5, SubsetInduction DEF Holes
<1> DEFINE c == f[H]
<1>7. CutKeeps(x, y, c)
  <2>1. H \in G
    <3>1. H \in SUBSET H
      OBVIOUS
    <3> HIDE DEF G
    <3> QED BY <1>6, <3>1
  <2> QED BY <2>1
<1>8. Cut(w, H) = c.out \cup (IF c.cursor < w.hi THEN {[lo |-> c.cursor, hi |-> w.hi]} ELSE {})
  <2>1. CutTo(H, w) = c
    BY <1>2
  <2> HIDE DEF c
  <2> QED BY <2>1, CutIsCutTo
<1> HIDE DEF c, G
<1>9. CASE \E i \in c.out : i.lo <= x /\ y <= i.hi
  BY <1>8, <1>9
<1>10. CASE c.cursor <= x
  <2>1. [lo |-> c.cursor, hi |-> w.hi] \in Cut(w, H)
    BY <1>7, <1>8, <1>10 DEF CutKeeps
  <2> QED BY <1>10, <2>1
<1> QED BY <1>7, <1>9, <1>10 DEF CutKeeps

\* So is a stretch of the working time of the branch and the master.
LEMMA WindowsComplete ==
  ASSUME NEW s \in Schedules, NEW m \in Masters, NEW d \in Int, NEW booked, Spans(booked),
         NEW x \in Int, NEW y \in Int, x < y,
         NEW a \in WorkingHours(s.branch, d), a.lo <= x, y <= a.hi,
         NEW b \in s.masters[m].week[Weekday(d)], b.lo <= x, y <= b.hi,
         \A u \in s.masters[m].away :
           u.from < At(d + 1, 0) /\ u.to > At(d, 0) => Beside(AwayHole(u, d), x, y),
         \A h \in BusyHoles(booked, d) : Beside(h, x, y)
  PROVE  \E w \in FreeWindows(s.branch, s.masters[m], booked, d) : w.lo <= x /\ y <= w.hi
<1> DEFINE away == {u \in s.masters[m].away : u.from < At(d + 1, 0) /\ u.to > At(d, 0)}
           H == {AwayHole(u, d) : u \in away}
<1>1. a \in [lo : Int, hi : Int] /\ b \in [lo : Int, hi : Int]
  <2>1. a \in DayRange /\ b \in DayRange
    BY HoursOfADay DEF DayHours
  <2> QED BY <2>1, AvailabilityAssumption DEF DayRange
<1>2. PICK c \in Cut(b, H) : c.lo <= x /\ y <= c.hi
  <2>1. Holes(H) /\ \A h \in H : Beside(h, x, y)
    BY AwayHoles
  <2> HIDE DEF H
  <2> QED BY <1>1, <2>1, CutComplete
<1>3. c \in WorkingRanges(s.masters[m], d)
  BY <1>2 DEF WorkingRanges
<1>4. c.lo \in Int /\ c.hi \in Int
  <2>1. Holes(H)
    BY AwayHoles
  <2> HIDE DEF H
  <2> QED BY <1>1, <1>2, <2>1, CutSound DEF Inside
<1> DEFINE i == [lo |-> Max({a.lo, c.lo}), hi |-> Min({a.hi, c.hi})]
<1>5. i.lo \in Int /\ i.hi \in Int /\ i.lo <= x /\ y <= i.hi
  <2>1. /\ i.lo = IF a.lo >= c.lo THEN a.lo ELSE c.lo
        /\ i.hi = IF a.hi <= c.hi THEN a.hi ELSE c.hi
    BY <1>1, <1>4, TwoNumbers
  <2> HIDE DEF i
  <2> QED BY <1>1, <1>2, <1>4, <2>1
<1>6. i \in Intersect(WorkingHours(s.branch, d), WorkingRanges(s.masters[m], d))
  <2> DEFINE A == WorkingHours(s.branch, d)
             R == WorkingRanges(s.masters[m], d)
  <2>1. a \in A /\ c \in R
    BY <1>3
  <2>2. i.lo < i.hi
    <3> DEFINE l == i.lo
               g == i.hi
    <3>1. l \in Int /\ g \in Int /\ l <= x /\ y <= g
      BY <1>5
    <3> HIDE DEF l, g
    <3>2. l < g
      BY <3>1
    <3> QED BY <3>2 DEF l, g
  <2> DEFINE Both(p, q) == [lo |-> Max({p.lo, q.lo}), hi |-> Min({p.hi, q.hi})]
  <2>3. i \in {Both(p, q) : p \in A, q \in R}
    <3>1. i = Both(a, c)
      OBVIOUS
    <3> HIDE DEF A, R, Both, i
    <3> QED BY <2>1, <3>1
  <2> HIDE DEF A, R
  <2>4. Intersect(A, R) = {j \in {Both(p, q) : p \in A, q \in R} : j.lo < j.hi}
    BY DEF Intersect
  <2> HIDE DEF i, Both
  <2>5. i \in Intersect(A, R)
    BY <2>2, <2>3, <2>4
  <2> QED BY <2>5 DEF A, R
<1>7. i \in [lo : Int, hi : Int]
  BY <1>5
<1> HIDE DEF i
<1>8. PICK w \in Cut(i, BusyHoles(booked, d)) : w.lo <= x /\ y <= w.hi
  <2>1. Holes(BusyHoles(booked, d))
    BY BusyHolesOK
  <2> QED BY <1>5, <1>7, <2>1, CutComplete
<1>9. w \in FreeWindows(s.branch, s.masters[m], booked, d)
  <2> DEFINE I == Intersect(WorkingHours(s.branch, d), WorkingRanges(s.masters[m], d))
             B == BusyHoles(booked, d)
  <2>1. i \in I /\ w \in Cut(i, B)
    BY <1>6, <1>8
  <2> HIDE DEF I, B
  <2>2. w \in UNION {Cut(r, B) : r \in I}
    BY <2>1
  <2> QED BY <2>2 DEF FreeWindows, I, B
<1> QED BY <1>8, <1>9

\* Earlier instants are of earlier minutes of a day.
LEMMA AtReflects ==
  ASSUME NEW d \in Int, NEW a \in Int, NEW b \in Int
  PROVE  /\ At(d, a) < At(d, b) => a < b
         /\ At(d, a) <= At(d, b) => a <= b
<1>1. Minute \in Nat \ {0} /\ d * Day \in Int
  BY DayIsPositive, AvailabilityAssumption
<1>2. At(d, a) < At(d, b) => a < b
  <2>1. a * Minute \in Int /\ b * Minute \in Int /\ (a * Minute < b * Minute => a < b)
    BY <1>1, Times
  <2> QED BY <1>1, <2>1 DEF At
<1>3. At(d, a) <= At(d, b) => a <= b
  <2>1. a * Minute \in Int /\ b * Minute \in Int /\ (b + 1) * Minute = b * Minute + Minute
    BY <1>1
  <2>2. a * Minute < (b + 1) * Minute => a < b + 1
    BY <1>1, Times
  <2> QED BY <1>1, <2>1, <2>2 DEF At
<1> QED BY <1>2, <1>3

\* The minutes a time covers, of which no instant is in a stretch, lie beside it.
LEMMA NothingWithin ==
  ASSUME NEW d \in Int, NEW x \in Int, NEW y \in Int, x < y, NEW f \in Int, NEW g \in Int, f < g,
         \A t \in Int : At(d, x) <= t /\ t < At(d, y) => ~(f <= t /\ t < g)
  PROVE  g <= At(d, x) \/ At(d, y) <= f
<1>1. At(d, x) \in Int /\ At(d, y) \in Int /\ At(d, x) <= At(d, y)
  BY AtMonotone
<1>2. At(d, x) < At(d, y)
  <2>1. At(d, y) <= At(d, x) => y <= x
    BY AtReflects
  <2> QED BY <1>1, <2>1
<1>3. ~(f <= At(d, x) /\ At(d, x) < g)
  BY <1>1, <1>2
<1>4. At(d, x) <= f /\ f < At(d, y) => FALSE
  BY <1>1
<1> QED BY <1>1, <1>3, <1>4

\* The minute of an instant not before, or not after, a whole minute.
LEMMA MinuteOfInstant ==
  ASSUME NEW d \in Int, NEW k \in Int, NEW t \in Int
  PROVE  /\ t <= At(d, k) =>
              /\ (t - At(d, 0)) \div Minute <= k
              /\ -((At(d, 0) - t) \div Minute) <= k
         /\ At(d, k) <= t => k <= (t - At(d, 0)) \div Minute
<1>1. Minute \in Nat \ {0} /\ At(d, 0) \in Int /\ k * Minute \in Int
      /\ At(d, k) = At(d, 0) + k * Minute
  <2>1. Minute \in Nat \ {0} /\ d * Day \in Int
    BY DayIsPositive, AvailabilityAssumption
  <2> QED BY <2>1 DEF At
<1>2. \A a \in Int, b \in Nat \ {0} : (a * b) \div b = a
  OBVIOUS
<1> DEFINE j == t - At(d, 0)
<1>3. j \in Int /\ At(d, 0) - t = -j
  BY <1>1
<1>4. (t <= At(d, k) => j <= k * Minute) /\ (At(d, k) <= t => k * Minute <= j)
  BY <1>1
<1> HIDE DEF j
<1>5. (k * Minute) \div Minute = k /\ ((-k) * Minute) \div Minute = -k
  <2>1. -k \in Int
    OBVIOUS
  <2> QED BY <1>1, <1>2, <2>1
<1>6. ASSUME t <= At(d, k) PROVE j \div Minute <= k /\ -((-j) \div Minute) <= k
  <2>1. j \div Minute <= k
    BY <1>1, <1>3, <1>4, <1>5, <1>6, DivMonotone
  <2>2. (-k) * Minute <= -j /\ (-k) * Minute \in Int /\ -j \in Int
    <3>1. (-k) * Minute = -(k * Minute)
      BY <1>1
    <3> QED BY <1>1, <1>3, <1>4, <1>6, <3>1
  <2>3. ((-k) * Minute) \div Minute <= (-j) \div Minute
    BY <1>1, <2>2, DivMonotone
  <2>4. (-j) \div Minute \in Int
    BY <1>1, <2>2, Division
  <2> QED BY <1>5, <2>1, <2>3, <2>4
<1>7. ASSUME At(d, k) <= t PROVE k <= j \div Minute
  BY <1>1, <1>3, <1>4, <1>5, <1>7, DivMonotone
<1> QED BY <1>3, <1>6, <1>7 DEF j

\* A stretch all of whose instants are in the ranges of a day lies in one of them:
\* between two ranges there is a break.
LEMMA InOneRange ==
  ASSUME NEW R, DayHours(R), NEW d \in Int, NEW x \in Int, NEW y \in Int, x < y,
         \A t \in Int : At(d, x) <= t /\ t < At(d, y) =>
           \E i \in R : At(d, i.lo) <= t /\ t < At(d, i.hi)
  PROVE  \E a \in R : a.lo <= x /\ y <= a.hi
<1>1. \A i \in R : i.lo \in Int /\ i.hi \in Int /\ i.lo < i.hi
  BY AvailabilityAssumption DEF DayHours, DayRange
<1>2. \A k \in x..(y - 1) : \E i \in R : i.lo <= k /\ k < i.hi
  <2> TAKE k \in x..(y - 1)
  <2>1. k \in Int /\ x <= k /\ k < y
    OBVIOUS
  <2>2. At(d, k) \in Int /\ At(d, x) <= At(d, k)
    BY <2>1, AtMonotone
  <2>3. At(d, k) < At(d, y)
    <3>1. At(d, y) \in Int /\ (At(d, y) <= At(d, k) => y <= k)
      BY <2>1, AtReflects, AtMonotone
    <3> QED BY <2>1, <2>2, <3>1
  <2>4. PICK i \in R : At(d, i.lo) <= At(d, k) /\ At(d, k) < At(d, i.hi)
    BY <2>2, <2>3
  <2> QED BY <1>1, <2>1, <2>4, AtReflects
<1>3. PICK a \in R : a.lo <= x /\ x < a.hi
  BY <1>2
<1>4. ASSUME a.hi < y PROVE FALSE
  <2>1. PICK b \in R : b.lo <= a.hi /\ a.hi < b.hi
    BY <1>1, <1>2, <1>3, <1>4
  <2>2. a = b \/ a.hi < b.lo \/ b.hi < a.lo
    BY DEF DayHours
  <2> QED BY <1>1, <1>3, <2>1, <2>2
<1> QED BY <1>1, <1>3, <1>4

\* A stretch of a day in which the branch is open, the master works and is not away,
\* and none of the visits takes place lies in a window.
LEMMA StretchInWindow ==
  ASSUME NEW s \in Schedules, NEW m \in Masters, NEW booked, Spans(booked), Offset = 0,
         \A b \in booked : b.start < b.stop,
         NEW d \in Int, NEW x \in Int, NEW y \in Int, 0 <= x, x < y, y <= DayMinutes,
         \A t \in Int : At(d, x) <= t /\ t < At(d, y) =>
           /\ OpenAt(s.branch, s.masters[m], t)
           /\ \A b \in booked : ~(b.start <= t /\ t < b.stop)
  PROVE  \E w \in FreeWindows(s.branch, s.masters[m], booked, d) : w.lo <= x /\ y <= w.hi
<1> DEFINE master == s.masters[m]
<1>1. ASSUME NEW t \in Int, At(d, x) <= t, t < At(d, y)
      PROVE  /\ \E i \in WorkingHours(s.branch, d) : At(d, i.lo) <= t /\ t < At(d, i.hi)
             /\ \E i \in master.week[Weekday(d)] : At(d, i.lo) <= t /\ t < At(d, i.hi)
             /\ \A u \in master.away : ~(u.from <= t /\ t < u.to)
  <2>1. DayOf(t) = d
    BY <1>1, TickOfDay
  <2>2. OpenAt(s.branch, s.masters[m], t)
    BY <1>1
  <2>3. t + Offset * Minute = t
    BY AvailabilityAssumption
  <2> QED BY <2>1, <2>2, <2>3 DEF OpenAt
<1>2. PICK a \in WorkingHours(s.branch, d) : a.lo <= x /\ y <= a.hi
  <2>1. DayHours(WorkingHours(s.branch, d))
    BY HoursOfADay
  <2> QED BY <1>1, <2>1, InOneRange
<1>3. PICK b \in master.week[Weekday(d)] : b.lo <= x /\ y <= b.hi
  <2>1. DayHours(master.week[Weekday(d)])
    BY HoursOfADay
  <2> QED BY <1>1, <2>1, InOneRange
<1>4. ASSUME NEW u \in master.away PROVE Beside(AwayHole(u, d), x, y)
  <2>1. u.from \in Int /\ u.to \in Int /\ u.from < u.to
    BY ScheduleAssumption
  <2>2. u.to <= At(d, x) \/ At(d, y) <= u.from
    <3>1. \A t \in Int : At(d, x) <= t /\ t < At(d, y) => ~(u.from <= t /\ t < u.to)
      BY <1>1
    <3> QED BY <2>1, <3>1, NothingWithin
  <2>3. (u.to - At(d, 0)) \div Minute <= x \/ y <= (u.from - At(d, 0)) \div Minute
    BY <2>1, <2>2, MinuteOfInstant
  <2>4. /\ AwayHole(u, d).hi = (u.to - At(d, 0)) \div Minute
        /\ AwayHole(u, d).lo = (u.from - At(d, 0)) \div Minute
    BY DEF AwayHole
  <2> HIDE DEF master
  <2>5. AwayHole(u, d).hi <= x \/ y <= AwayHole(u, d).lo
    BY <2>3, <2>4
  <2>6. (u.from - At(d, 0)) \div Minute \in Int
    <3>1. At(d, 0) \in Int /\ Minute \in Nat \ {0}
      BY DayIsPositive, AvailabilityAssumption DEF At
    <3>2. u.from - At(d, 0) \in Int
      BY <2>1, <3>1
    <3> QED BY <3>1, <3>2, Division
  <2> QED BY <2>4, <2>5, <2>6 DEF Beside
<1>5. ASSUME NEW h \in BusyHoles(booked, d) PROVE Beside(h, x, y)
  <2>1. PICK c \in booked : h = BusyHole(c, d)
    BY DEF BusyHoles, BusyHole
  <2>2. c.start \in Int /\ c.stop \in Int /\ c.start < c.stop
    BY DEF Spans
  <2>3. c.stop <= At(d, x) \/ At(d, y) <= c.start
    <3>1. \A t \in Int : At(d, x) <= t /\ t < At(d, y) => ~(c.start <= t /\ t < c.stop)
      OBVIOUS
    <3> QED BY <2>2, <3>1, NothingWithin
  <2> DEFINE first == Max({c.start, At(d, 0)})
             last == Min({c.stop, At(d + 1, 0)})
  <2>4. first \in Int /\ last \in Int /\ c.start <= first /\ last <= c.stop
    <3>1. At(d, 0) \in Int /\ At(d + 1, 0) \in Int
      BY DayIsPositive, AvailabilityAssumption DEF At
    <3>2. /\ first = IF c.start >= At(d, 0) THEN c.start ELSE At(d, 0)
          /\ last = IF c.stop <= At(d + 1, 0) THEN c.stop ELSE At(d + 1, 0)
      BY <2>2, <3>1, TwoNumbers
    <3> HIDE DEF first, last
    <3> QED BY <2>2, <3>1, <3>2
  <2>5. /\ h.lo = (first - At(d, 0)) \div Minute
        /\ h.hi = -((At(d, 0) - last) \div Minute)
    BY <2>1 DEF BusyHole
  <2> HIDE DEF first, last
  <2>6. At(d, x) \in Int /\ At(d, y) \in Int
    BY AtMonotone
  <2>7. last <= At(d, x) \/ At(d, y) <= first
    BY <2>2, <2>3, <2>4, <2>6
  <2>8. h.hi <= x \/ y <= h.lo
    BY <2>4, <2>5, <2>7, MinuteOfInstant
  <2>9. h.lo \in Int
    <3>1. Holes(BusyHoles(booked, d))
      BY BusyHolesOK
    <3> QED BY <3>1 DEF Holes
  <2> QED BY <2>8, <2>9 DEF Beside
<1> QED BY <1>2, <1>3, <1>4, <1>5, WindowsComplete

\* The search of a master, the visits it asks for, and its free instants.
SearchSpan(m)   == [master |-> m, start |-> now, stop |-> now + Lookahead]
AskedFor(m)     == {appts[v] : v \in ForMaster(SearchSpan(m), NoVisit)}
FreeInstants(m) == {t \in now..(now + Lookahead - 1) : Free(m, t)}

\* The visits asked for have times.
LEMMA AskedForAreSpans ==
  ASSUME IInv, SlotsKept, NEW m \in Masters
  PROVE  /\ Spans(AskedFor(m))
         /\ \A b \in AskedFor(m) : \E v \in Rows : b = appts[v] /\ b.start < b.stop
<1> DEFINE S == ForMaster(SearchSpan(m), NoVisit)
<1>1. S \in SUBSET Rows
  BY DEF ForMaster, Blocking
<1>2. AskedFor(m) = {appts[v] : v \in S}
  BY DEF AskedFor
<1>3. \A v \in S : v \in Rows /\ appts[v].start < appts[v].stop
  BY <1>1, RowsHaveTimes
<1> HIDE DEF S
<1> QED BY <1>1, <1>2, <1>3, VisitsAreSpans

\* An instant of the search is free when the hours are open and no visit asked for
\* takes place: the others of the master are beyond the search.
LEMMA FreeIsOpen ==
  ASSUME IInv, SlotsKept, NEW m \in Masters, NEW t \in now..(now + Lookahead - 1)
  PROVE  t \in FreeInstants(m) <=>
           /\ OpenAt(schedule.branch, schedule.masters[m], t)
           /\ \A b \in AskedFor(m) : ~(b.start <= t /\ t < b.stop)
<1>1. now \in Int /\ Lookahead \in Int /\ t \in Int /\ now <= t /\ t < now + Lookahead
  BY BookingAssumption DEF IInv, TypeOK
<1>2. OpenThroughout(m, t, t + 1) <=> OpenAt(schedule.branch, schedule.masters[m], t)
  <2>1. t..(t + 1 - 1) = {t}
    BY <1>1
  <2> QED BY <2>1 DEF OpenThroughout
<1>3. Taken(m, t, t + 1) <=> \E b \in AskedFor(m) : b.start <= t /\ t < b.stop
  <2>1. \A v \in Rows : appts[v].start \in Int /\ appts[v].stop \in Int
    BY RowsHaveTimes
  <2>2. ASSUME NEW v \in Rows
        PROVE  Overlap(appts[v], [start |-> t, stop |-> t + 1])
                 <=> appts[v].start <= t /\ t < appts[v].stop
    BY <1>1, <2>1 DEF Overlap
  <2>3. ASSUME NEW v \in Rows, appts[v].start <= t, t < appts[v].stop
        PROVE  v \in ForMaster(SearchSpan(m), NoVisit)
                 <=> appts[v].master = m /\ appts[v].status \in Active
    <3>1. NoVisit \notin Rows
      BY BookingAssumption DEF Rows
    <3>2. Overlap(appts[v], SearchSpan(m))
      BY <1>1, <2>1, <2>3 DEF Overlap, SearchSpan
    <3>3. SearchSpan(m).master = m
      BY DEF SearchSpan
    <3> QED BY <3>1, <3>2, <3>3 DEF ForMaster, Blocking
  <2>4. ForMaster(SearchSpan(m), NoVisit) \subseteq Rows
    BY DEF ForMaster, Blocking
  <2>5. ASSUME Taken(m, t, t + 1) PROVE \E b \in AskedFor(m) : b.start <= t /\ t < b.stop
    <3>1. PICK v \in Rows : /\ appts[v].master = m /\ appts[v].status \in Active
                            /\ Overlap(appts[v], [start |-> t, stop |-> t + 1])
      BY <2>5 DEF Taken
    <3>2. appts[v] \in AskedFor(m) /\ appts[v].start <= t /\ t < appts[v].stop
      BY <2>2, <2>3, <3>1 DEF AskedFor
    <3> QED BY <3>2
  <2>6. ASSUME NEW b \in AskedFor(m), b.start <= t, t < b.stop PROVE Taken(m, t, t + 1)
    <3>1. PICK v \in ForMaster(SearchSpan(m), NoVisit) : b = appts[v]
      BY DEF AskedFor
    <3>2. v \in Rows /\ Overlap(appts[v], [start |-> t, stop |-> t + 1])
      BY <2>2, <2>4, <2>6, <3>1
    <3>3. appts[v].master = m /\ appts[v].status \in Active
      BY <2>3, <2>6, <3>1, <3>2
    <3> QED BY <3>2, <3>3 DEF Taken
  <2> QED BY <2>5, <2>6
<1> QED BY <1>2, <1>3 DEF FreeInstants, Free

\* The visits end with a minute.
WholeStops == \A s \in Slots : s.stop % Minute = 0

\* A free stretch of a day begins with a minute.
LEMMA BeginsWithMinute ==
  ASSUME IInv, SlotsKept, Offset = 0, WholeMinutes, WholeStops, now = At(DayOf(now), 0),
         NEW m \in Masters, NEW from \in FreeInstants(m),
         from - 1 \notin FreeInstants(m) \/ DayOf(from - 1) # DayOf(from)
  PROVE  \E k \in Int : from = At(DayOf(from), k)
<1> DEFINE d == DayOf(from)
           last == from - 1
<1>1. /\ now \in Int /\ Lookahead \in Int /\ from \in Int /\ last \in Int /\ last = from - 1
      /\ from \in now..(now + Lookahead - 1) /\ schedule \in Schedules
      /\ Day \in Nat \ {0} /\ Minute \in Nat \ {0} /\ d \in Int
  <2>1. now \in Int /\ Lookahead \in Int /\ schedule \in Schedules
    BY BookingAssumption DEF IInv, TypeOK
  <2>2. from \in now..(now + Lookahead - 1)
    BY DEF FreeInstants
  <2> QED BY <2>1, <2>2, DayIsPositive, AvailabilityAssumption, Division DEF DayOf
<1> HIDE DEF last
<1>2. ASSUME from % Minute = 0 PROVE \E k \in Int : from = At(d, k)
  <2> DEFINE k == (from - At(d, 0)) \div Minute
  <2>1. At(d, 0) \in Int
    BY <1>1 DEF At
  <2>2. k \in Int
    <3>1. from - At(d, 0) \in Int
      BY <1>1, <2>1
    <3> QED BY <1>1, <3>1, Division
  <2>3. from - At(d, 0) = k * Minute
    BY <1>1, <1>2, WholeFromMidnight
  <2>4. k * Minute \in Int /\ At(d, k) = At(d, 0) + k * Minute
    <3> HIDE DEF k, d
    <3>1. d * Day \in Int /\ k * Minute \in Int
      BY <1>1, <2>2
    <3> QED BY <3>1, <1>1 DEF At
  <2>5. from = At(d, k)
    <3> DEFINE z == At(d, 0)
    <3>1. from - z = k * Minute /\ At(d, k) = z + k * Minute /\ z \in Int
      BY <2>1, <2>3, <2>4
    <3> HIDE DEF z, k
    <3> QED BY <1>1, <2>4, <3>1
  <2> QED BY <2>2, <2>5
<1>3. CASE DayOf(last) # d
  <2>1. d * Day \in Int /\ d * Day <= from /\ from < d * Day + Day
    BY <1>1, Division DEF DayOf
  <2>2. \A b \in Nat \ {0}, j \in Int : 0 <= j /\ j < b => (d * b + j) \div b = d
    BY <1>1
  <2> DEFINE j == from - d * Day - 1
  <2>3. j \in Int /\ last = d * Day + j /\ j < Day
    BY <1>1, <2>1
  <2> HIDE DEF j
  <2>4. ~(0 <= j)
    BY <1>1, <1>3, <2>2, <2>3 DEF DayOf
  <2>5. from = d * Day
    BY <1>1, <2>1, <2>3, <2>4
  <2>6. from = At(d, 0)
    BY <1>1, <2>1, <2>5 DEF At
  <2> QED BY <2>6
<1>4. CASE from = now
  BY <1>4
<1>5. CASE DayOf(last) = d /\ from # now
  <2>1. last \in now..(now + Lookahead - 1) /\ last \notin FreeInstants(m)
    BY <1>1, <1>5 DEF last
  <2>2. OpenAt(schedule.branch, schedule.masters[m], from)
        /\ \A b \in AskedFor(m) : ~(b.start <= from /\ from < b.stop)
    BY <1>1, FreeIsOpen
  <2>3. ~OpenAt(schedule.branch, schedule.masters[m], last)
        \/ \E b \in AskedFor(m) : b.start <= last /\ last < b.stop
    BY <2>1, FreeIsOpen
  <2>4. CASE \E b \in AskedFor(m) : b.start <= last /\ last < b.stop
    <3>1. PICK v \in Rows : /\ appts[v].start <= last /\ last < appts[v].stop
                            /\ ~(appts[v].start <= from /\ from < appts[v].stop)
      BY <2>2, <2>4, AskedForAreSpans
    <3>2. appts[v].start \in Int /\ appts[v].stop \in Int
      BY RowsHaveTimes
    <3>3. from = appts[v].stop
      BY <1>1, <3>1, <3>2
    <3>4. SlotOf(appts[v]) \in Slots
      BY DEF SlotsKept
    <3>5. SlotOf(appts[v]).stop % Minute = 0
      BY <3>4 DEF WholeStops
    <3>6. from % Minute = 0
      BY <3>3, <3>5 DEF SlotOf
    <3> QED BY <1>2, <3>6
  <2>5. CASE ~OpenAt(schedule.branch, schedule.masters[m], last)
    <3>1. last + Offset * Minute = last /\ from + Offset * Minute = from
      BY <1>1
    <3>2. PICK a \in WorkingHours(schedule.branch, d), c \in schedule.masters[m].week[Weekday(d)] :
            /\ At(d, a.lo) <= from /\ from < At(d, a.hi)
            /\ At(d, c.lo) <= from /\ from < At(d, c.hi)
      BY <2>2, <3>1 DEF OpenAt
    <3>3. /\ a.lo \in Int /\ c.lo \in Int /\ At(d, a.lo) \in Int /\ At(d, a.hi) \in Int
          /\ At(d, c.lo) \in Int /\ At(d, c.hi) \in Int
      <4>1. a \in DayRange /\ c \in DayRange
        BY <1>1, HoursOfADay DEF DayHours
      <4>2. a.lo \in Int /\ a.hi \in Int /\ c.lo \in Int /\ c.hi \in Int
        BY <4>1, AvailabilityAssumption DEF DayRange
      <4>3. \A k \in Int : At(d, k) \in Int
        BY <1>1 DEF At
      <4> QED BY <4>2, <4>3
    <3>4. \/ ~(At(d, a.lo) <= last /\ last < At(d, a.hi))
          \/ ~(At(d, c.lo) <= last /\ last < At(d, c.hi))
          \/ \E u \in schedule.masters[m].away : u.from <= last /\ last < u.to
      BY <1>5, <2>5, <3>1 DEF OpenAt
    <3>5. CASE ~(At(d, a.lo) <= last /\ last < At(d, a.hi))
      <4>1. from = At(d, a.lo)
        BY <1>1, <3>2, <3>3, <3>5
      <4> QED BY <3>3, <4>1
    <3>6. CASE ~(At(d, c.lo) <= last /\ last < At(d, c.hi))
      <4>1. from = At(d, c.lo)
        BY <1>1, <3>2, <3>3, <3>6
      <4> QED BY <3>3, <4>1
    <3>7. CASE \E u \in schedule.masters[m].away : u.from <= last /\ last < u.to
      <4>1. PICK u \in schedule.masters[m].away : u.from <= last /\ last < u.to
        BY <3>7
      <4>2. u.from \in Int /\ u.to \in Int /\ u.to % Minute = 0
        BY <1>1, ScheduleAssumption DEF WholeMinutes
      <4>3. ~(u.from <= from /\ from < u.to)
        BY <2>2 DEF OpenAt
      <4>4. from = u.to
        BY <1>1, <4>1, <4>2, <4>3
      <4> QED BY <1>2, <4>2, <4>4
    <3> QED BY <3>4, <3>5, <3>6, <3>7
  <2> QED BY <2>3, <2>4, <2>5
<1> QED BY <1>3, <1>4, <1>5 DEF last

\* A start on the grid of a free stretch of a day that leaves room for the work is
\* offered.
LEMMA FreeIsFound ==
  ASSUME IInv, SlotsKept, Offset = 0, WholeMinutes, WholeStops, now = At(DayOf(now), 0),
         NEW m \in Masters, NEW minutes \in Works,
         NEW from \in FreeInstants(m), NEW s \in FreeInstants(m),
         from - 1 \notin FreeInstants(m) \/ DayOf(from - 1) # DayOf(from),
         from <= s, (s - from) % (Grid * Minute) = 0,
         NEW end, end = s + minutes * Minute, DayOf(from) = DayOf(end - 1),
         from..(end - 1) \subseteq FreeInstants(m)
  PROVE  s \in Offered(m, minutes)
<1> DEFINE d == DayOf(from)
<1>1. /\ now \in Int /\ Lookahead \in Int /\ from \in Int /\ s \in Int
      /\ from \in now..(now + Lookahead - 1) /\ schedule \in Schedules /\ minutes \in Nat \ {0}
      /\ Day \in Nat \ {0} /\ Minute \in Nat \ {0} /\ Grid \in Nat \ {0} /\ d \in Int
      /\ DayMinutes \in Nat \ {0}
  <2>1. now \in Int /\ Lookahead \in Int /\ schedule \in Schedules /\ minutes \in Nat \ {0}
    BY BookingAssumption DEF IInv, TypeOK
  <2>2. from \in now..(now + Lookahead - 1) /\ s \in now..(now + Lookahead - 1)
    BY DEF FreeInstants
  <2> QED BY <2>1, <2>2, DayIsPositive, AvailabilityAssumption, Division DEF DayOf
<1>2. PICK x \in Int : from = At(d, x)
  BY BeginsWithMinute
<1>0. d = DayOf(from) /\ d = DayOf(end - 1) /\ from = At(d, x)
  BY <1>2
<1> HIDE DEF d
<1>3. PICK q \in Nat : s - from = q * (Grid * Minute)
  <2> DEFINE b == Grid * Minute
             j == s - from
  <2>1. b \in Nat \ {0} /\ j \in Nat /\ j % b = 0
    BY <1>1
  <2>2. \A e \in Nat, c \in Nat \ {0} : e % c = 0 => e \div c \in Nat /\ e = (e \div c) * c
    OBVIOUS
  <2> HIDE DEF b, j
  <2>3. j = (j \div b) * b /\ j \div b \in Nat
    BY <2>1, <2>2
  <2> QED BY <2>3 DEF b, j
<1> DEFINE k == x + q * Grid
           y == k + minutes
<1>4. /\ k \in Int /\ y \in Int /\ x <= k /\ k < y /\ k = y - minutes
      /\ s = At(d, k) /\ s + minutes * Minute = At(d, y)
  <2>1. q * Grid \in Nat /\ q * (Grid * Minute) = (q * Grid) * Minute
    BY <1>1
  <2>2. /\ k * Minute = x * Minute + (q * Grid) * Minute
        /\ y * Minute = k * Minute + minutes * Minute
        /\ x * Minute \in Int /\ (q * Grid) * Minute \in Int /\ minutes * Minute \in Int
        /\ k \in Int /\ y \in Int /\ d * Day \in Int
    BY <1>1, <2>1
  <2>3. from = d * Day + x * Minute /\ At(d, k) = d * Day + k * Minute
        /\ At(d, y) = d * Day + y * Minute
    BY <1>0 DEF At
  <2>4. x <= k /\ k < y /\ k = y - minutes
    BY <1>1, <2>1
  <2> HIDE DEF k, y
  <2> QED BY <1>1, <1>3, <2>1, <2>2, <2>3, <2>4
<1> HIDE DEF y, k
<1>5. end \in Int /\ end - 1 \in Int /\ end = At(d, y) /\ s < end
  <2>1. minutes * Minute \in Nat \ {0}
    BY <1>1
  <2> QED BY <1>1, <1>4, <2>1
<1>6. 0 <= x /\ x < y /\ y <= DayMinutes
  <2>1. \A t \in Int : d = DayOf(t) => At(d, 0) <= t /\ t < At(d + 1, 0)
    <3> TAKE t \in Int
    <3> HAVE d = DayOf(t)
    <3>1. d * Day <= t /\ t < d * Day + Day
      BY <1>1, Division DEF DayOf
    <3> QED BY <1>1, <3>1 DEF At
  <2>2. At(d, 0) <= At(d, x)
    BY <1>1, <1>0, <2>1
  <2>3. d = DayOf(end - 1)
    BY <1>0
  <2>4. end <= At(d, DayMinutes)
    <3>1. end - 1 < At(d + 1, 0)
      BY <1>5, <2>1, <2>3
    <3>2. At(d + 1, 0) \in Int
      BY <1>1 DEF At
    <3> QED BY <1>1, <1>5, <3>1, <3>2, NextDay
  <2>5. 0 <= x
    BY <1>1, <2>2, AtReflects
  <2>6. y <= DayMinutes
    BY <1>1, <1>4, <1>5, <2>4, AtReflects
  <2> QED BY <1>1, <1>4, <2>5, <2>6
<1>7. \A t \in Int : At(d, x) <= t /\ t < At(d, y) =>
        /\ OpenAt(schedule.branch, schedule.masters[m], t)
        /\ \A b \in AskedFor(m) : ~(b.start <= t /\ t < b.stop)
  <2> TAKE t \in Int
  <2> HAVE At(d, x) <= t /\ t < At(d, y)
  <2>1. t \in from..(end - 1)
    BY <1>1, <1>0, <1>5
  <2>2. t \in FreeInstants(m)
    BY <2>1
  <2>3. t \in now..(now + Lookahead - 1)
    BY <2>2 DEF FreeInstants
  <2> QED BY <2>2, <2>3, FreeIsOpen
<1>8. Spans(AskedFor(m)) /\ \A b \in AskedFor(m) : b.start < b.stop
  BY AskedForAreSpans
<1>9. PICK w \in FreeWindows(schedule.branch, schedule.masters[m], AskedFor(m), d) :
        w.lo <= x /\ y <= w.hi
  BY <1>1, <1>4, <1>6, <1>7, <1>8, StretchInWindow
<1>10. w.lo \in Int /\ w.hi \in Int /\ 0 <= w.lo
  <2>1. \E a \in WorkingHours(schedule.branch, d) : Inside(w, a) /\ a \in DayRange
    BY <1>1, <1>8, WindowIsFree
  <2> QED BY <1>1, <2>1 DEF Inside, DayRange
<1>11. w.lo = x
  <2> SUFFICES ASSUME w.lo < x PROVE FALSE
    BY <1>0, <1>9, <1>10
  <2> DEFINE last == from - 1
  <2>1. last \in Int /\ last < from /\ from = last + 1
    BY <1>1
  <2> HIDE DEF last
  <2>2. At(d, w.lo) <= last /\ last < At(d, w.hi)
    <3>1. At(d, w.lo) \in Int /\ (At(d, x) <= At(d, w.lo) => x <= w.lo)
      BY <1>1, <1>0, <1>9, <1>10, AtMonotone, AtReflects
    <3>2. w.lo < x /\ x <= w.hi
      BY <1>0, <1>4, <1>6, <1>9, <1>10
    <3>3. At(d, w.hi) \in Int /\ At(d, x) <= At(d, w.hi)
      BY <1>1, <1>0, <1>10, <3>2, AtMonotone
    <3> QED BY <1>1, <1>0, <1>10, <2>1, <3>1, <3>2, <3>3
  <2>3. /\ DayOf(last) = d
        /\ OpenAt(schedule.branch, schedule.masters[m], last)
        /\ \A b \in AskedFor(m) : ~(b.start <= last /\ last < b.stop)
    BY <1>1, <1>8, <2>1, <2>2, WindowIsOpen
  <2>4. now <= last
    <3>1. At(d, 0) <= At(d, w.lo) /\ At(d, 0) \in Int /\ At(d, w.lo) \in Int
      <4>1. 0 \in Int
        OBVIOUS
      <4> QED BY <1>1, <1>10, <4>1, AtMonotone
    <3>2. DayOf(now) <= d /\ DayOf(now) \in Int
      <4>1. now <= from
        BY <1>1
      <4>2. now \div Day <= from \div Day /\ now \div Day \in Int
        BY <1>1, <4>1, DivMonotone, Division
      <4> QED BY <1>0, <4>2 DEF DayOf
    <3>3. At(DayOf(now), 0) <= At(d, 0)
      <4>1. DayOf(now) * Day <= d * Day /\ DayOf(now) * Day \in Int /\ d * Day \in Int
        BY <1>1, <3>2, Times
      <4> QED BY <1>1, <4>1 DEF At
    <3> QED BY <1>1, <2>1, <2>2, <3>1, <3>3
  <2>5. last \in now..(now + Lookahead - 1)
    BY <1>1, <2>1, <2>4
  <2>6. last \in FreeInstants(m)
    BY <2>3, <2>5, FreeIsOpen
  <2> QED BY <1>0, <2>3, <2>6 DEF last
<1>12. k \in GridStarts(w, minutes)
  <2>1. k \in w.lo..(w.hi - minutes)
    BY <1>1, <1>0, <1>4, <1>9, <1>10, <1>11
  <2>2. k - w.lo = q * Grid
    BY <1>1, <1>0, <1>11 DEF k
  <2>3. \A e \in Nat, c \in Nat \ {0} : (e * c) % c = 0
    OBVIOUS
  <2> QED BY <1>1, <2>1, <2>2, <2>3 DEF GridStarts
<1>13. d \in SearchDays(now, now + Lookahead)
  <2>1. /\ now <= from /\ from <= now + Lookahead - 1 /\ now + Lookahead - 1 \in Int
    BY <1>1
  <2>2. DayOf(now) <= d /\ d <= DayOf(now + Lookahead - 1)
    <3>1. now \div Day <= from \div Day /\ from \div Day <= (now + Lookahead - 1) \div Day
      BY <1>1, <2>1, DivMonotone
    <3> QED BY <1>0, <3>1 DEF DayOf
  <2>3. DayOf(now) \in Int /\ DayOf(now + Lookahead - 1) \in Int
    BY <1>1, <2>1, Division DEF DayOf
  <2> QED BY <1>1, <2>2, <2>3 DEF SearchDays
<1>14. s \in Calculate(schedule.branch, schedule.masters[m], AskedFor(m), now, now + Lookahead,
                       minutes)
  <2> QED BY <1>4, <1>9, <1>12, <1>13 DEF Calculate
<1> QED BY <1>14 DEF Offered, AskedFor, SearchSpan

\* FR-5.5.3 the other way round: at the beginning of a day, every start on the grid of
\* a free stretch that leaves room for the services is offered, whatever was booked,
\* moved and rescheduled before.
THEOREM WhatIsFreeIsOffered ==
  Offset = 0 /\ WholeMinutes /\ WholeStops => (Spec => []FreeIsOffered)
<1> SUFFICES ASSUME Offset = 0, WholeMinutes, WholeStops PROVE Spec => []FreeIsOffered
  OBVIOUS
<1>1. IInv /\ SearchInv => FreeIsOffered
  <2> SUFFICES ASSUME IInv, SearchInv, NEW m \in Masters, NEW minutes \in Works,
                      NEW from \in FreeInstants(m), NEW s \in FreeInstants(m),
                      from - 1 \notin FreeInstants(m) \/ DayOf(from - 1) # DayOf(from),
                      from <= s, (s - from) % (Grid * Minute) = 0,
                      DayOf(from) = DayOf(s + minutes * Minute - 1),
                      from..(s + minutes * Minute - 1) \subseteq FreeInstants(m),
                      now = At(DayOf(now), 0)
               PROVE  s \in Offered(m, minutes)
    BY DEF FreeIsOffered, FreeInstants
  <2> DEFINE end == s + minutes * Minute
  <2>1. end = s + minutes * Minute /\ end - 1 = s + minutes * Minute - 1
    <3>1. s \in Int /\ minutes * Minute \in Int
      BY BookingAssumption, AvailabilityAssumption DEF FreeInstants, IInv, TypeOK
    <3> QED BY <3>1
  <2>2. DayOf(from) = DayOf(end - 1) /\ from..(end - 1) \subseteq FreeInstants(m)
    BY <2>1
  <2> HIDE DEF end
  <2> QED BY <2>1, <2>2, FreeIsFound DEF SearchInv
<1> QED BY <1>1, Invariance, SearchInvariance, PTL
=============================================================================
