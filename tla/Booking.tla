------------------------------- MODULE Booking -------------------------------
(***************************************************************************)
(* The appointment command handlers of the scheduling context, running      *)
(* concurrently over sch_appointment: create, reschedule, start work and   *)
(* complete, with AppointmentHotPathService and the overlap constraints of  *)
(* the table.                                                              *)
(*                                                                         *)
(* A handler flushes once, as its last statement, so its commit is its     *)
(* save; every await before is a step.  A command that is refused before   *)
(* its first read of shared state is not a step.                           *)
(***************************************************************************)
EXTENDS AppointmentAggregate

CONSTANTS
  Procs,       \* commands being handled at the same time
  Visits,      \* ids an appointment can be given
  NoVisit,     \* "there is no such row"
  NoBay,       \* an appointment without a bay
  Slots,       \* the slots asked for: [master, bay, start, stop]
  Works,       \* minutes of service asked for
  Commands,    \* the commands that are issued
  Schedules,   \* [branch, masters]: the schedules there can be
  ByClient,    \* reschedulings come from a client (subset of BOOLEAN)
  Lookahead,   \* how far GetAvailableSlots looks, in ticks: 14 days in the code
  Offset,      \* minutes the branch's local time is ahead of UTC
  Window,      \* CLIENT_RESCHEDULE_WINDOW_HOURS, in ticks
  StartsAt,    \* the clock when the behaviour begins
  MaxNow,      \* bound: the clock stops here
  MaxVersion   \* bound: no handler starts from a row with a higher version

VARIABLES
  appts,     \* committed rows
  version,   \* version column of each row
  schedule,  \* the branch's and the masters' schedules
  txn,       \* handler state
  answer,    \* what the last command of a handler answered
  now        \* IClock.now, in ticks

vars == <<appts, version, schedule, txn, answer, now>>

Masters == {s.master : s \in Slots}

Names   == {"none", "Create", "Reschedule", "StartWork", "Complete", "SetSchedule"}
Steps   == {"idle", "branch", "master", "slots", "bay", "save"}
Answers == {"none", "ok", "conflict", "rejected", "stale", "overlap"}

Row == [status : Statuses, master : Masters, bay : {s.bay : s \in Slots},
        start : {s.start : s \in Slots}, stop : {s.stop : s \in Slots},
        minutes : Works, request : Requested]

\* What of a row matters to others.
Visit == [status : Statuses,
          slot : [master : Masters, bay : {s.bay : s \in Slots},
                  start : {s.start : s \in Slots}, stop : {s.stop : s \in Slots}]]

ASSUME BookingAssumption ==
  /\ NoVisit \notin Row \cup Visit
  /\ IsFiniteSet(Visits) /\ NoVisit \notin Visits
  /\ Commands \subseteq Names
  /\ Schedules # {}
  /\ Works \subseteq Nat \ {0}
  /\ ByClient \subseteq BOOLEAN
  /\ \A s \in Slots :
       /\ s = [master |-> s.master, bay |-> s.bay, start |-> s.start, stop |-> s.stop]
       /\ s.start \in Nat /\ s.stop \in Nat /\ s.start < s.stop
  /\ Lookahead \in Nat \ {0} /\ Offset \in Int
  /\ Window \in Nat /\ StartsAt \in Nat /\ MaxNow \in Nat /\ MaxVersion \in Nat

\* A range of working hours in minutes of a day (TimeRange.from).
DayRange == {r \in [lo : 0..DayMinutes, hi : 0..DayMinutes] : r.lo < r.hi}

\* The ranges of a working day, one or two around a break, or none (WorkingDay.from).
DayHours(ranges) ==
  /\ ranges \subseteq DayRange
  /\ \A a, b \in ranges : a = b \/ a.hi < b.lo \/ b.hi < a.lo

\* Schedules are made of such days; an unavailability is a time, not an instant
\* (Unavailability.from).
ASSUME ScheduleAssumption ==
  \A s \in Schedules :
    /\ \A w \in 1..7 : DayHours(s.branch.week[w])
    /\ \A d \in DOMAIN s.branch.exceptions : DayHours(s.branch.exceptions[d])
    /\ \A m \in Masters :
         /\ \A w \in 1..7 : DayHours(s.masters[m].week[w])
         /\ IsFiniteSet(s.masters[m].away)
         /\ \A u \in s.masters[m].away : u.from \in Int /\ u.to \in Int /\ u.from < u.to

\* row, ver: the appointment as loaded; slot: what is asked for; branch, master:
\* the schedules read; to: the status StartWork and Complete lead to.
Idle == [step |-> "idle", name |-> "none", id |-> NoVisit, row |-> NoVisit, ver |-> 0,
         slot |-> NoVisit, minutes |-> 0, to |-> "CONFIRMED", client |-> FALSE,
         branch |-> NoVisit, master |-> NoVisit]

Handler ==
  [step : Steps, name : Names, id : Visits \cup {NoVisit}, row : Row \cup {NoVisit},
   ver : Nat, slot : Slots \cup {NoVisit}, minutes : Works \cup {0}, to : Statuses,
   client : BOOLEAN, branch : {s.branch : s \in Schedules} \cup {NoVisit},
   master : (UNION {{s.masters[m] : m \in Masters} : s \in Schedules}) \cup {NoVisit}]

TypeOK ==
  /\ appts \in [Visits -> Row \cup {NoVisit}]
  /\ version \in [Visits -> Nat]
  /\ schedule \in Schedules
  /\ txn \in [Procs -> Handler]
  /\ answer \in [Procs -> Answers]
  /\ now \in Nat

Init ==
  /\ appts = [v \in Visits |-> NoVisit]
  /\ version = [v \in Visits |-> 0]
  /\ schedule \in Schedules
  /\ txn = [p \in Procs |-> Idle]
  /\ answer = [p \in Procs |-> "none"]
  /\ now = StartsAt

Step(p) == txn[p].step

Finish(p, a) ==
  /\ txn' = [txn EXCEPT ![p] = Idle]
  /\ answer' = [answer EXCEPT ![p] = a]

Begin(p, h) ==
  /\ Step(p) = "idle"
  /\ h.name \in Commands
  /\ txn' = [txn EXCEPT ![p] = h]
  /\ answer' = [answer EXCEPT ![p] = "none"]
  /\ UNCHANGED <<appts, version, schedule, now>>

Refused(p, a) ==
  /\ Finish(p, a)
  /\ UNCHANGED <<appts, version, schedule, now>>

Rows == {v \in Visits : appts[v] # NoVisit}

\* Rows findOverlapping selects: they occupy their time and meet the slot.
Blocking(slot, self) ==
  {v \in Rows \ {self} : appts[v].status \in Active /\ Overlap(appts[v], slot)}

ForMaster(slot, self) == {v \in Blocking(slot, self) : appts[v].master = slot.master}
ForBay(slot, self)    == {v \in Blocking(slot, self) : appts[v].bay = slot.bay}

(***************************************************************************)
(* The first read of each handler.                                         *)
(***************************************************************************)
\* buildAppointmentServices asks the CRM and the catalog, whose answer is the
\* minutes of the services.
BeginCreate(p) ==
  \E slot \in Slots, minutes \in Works :
    Begin(p, [Idle EXCEPT !.step = "branch", !.name = "Create", !.slot = slot,
                          !.minutes = minutes])

\* isInsideClientRescheduleWindow looks at the new slot only.
LateForClient(slot) == slot.start - now < Window

BeginReschedule(p) ==
  \E v \in Rows, slot \in Slots, client \in ByClient :
    /\ version[v] < MaxVersion
    /\ ~ (client /\ appts[v].status = "CONFIRMED" /\ LateForClient(slot))
    /\ Begin(p, [Idle EXCEPT !.step = "branch", !.name = "Reschedule", !.id = v,
                             !.row = appts[v], !.ver = version[v], !.slot = slot,
                             !.minutes = appts[v].minutes, !.client = client])

\* StartWork and Complete: a repeated one finds the work done and answers ok.
BeginStatus(p, name, to) ==
  \E v \in Rows :
    /\ CanGo(appts[v], to)
    /\ Begin(p, [Idle EXCEPT !.step = "save", !.name = name, !.id = v, !.row = appts[v],
                             !.ver = version[v], !.to = to])

BeginStartWork(p) == BeginStatus(p, "StartWork", "IN_PROGRESS")
BeginComplete(p)  == BeginStatus(p, "Complete", "COMPLETED")

(***************************************************************************)
(* AppointmentHotPathService.assertSlotAvailable                           *)
(***************************************************************************)
ReadBranchSchedule(p) ==
  /\ Step(p) = "branch"
  /\ txn' = [txn EXCEPT ![p].step = "master", ![p].branch = schedule.branch]
  /\ UNCHANGED <<appts, version, schedule, answer, now>>

ReadMasterSchedule(p) ==
  /\ Step(p) = "master"
  /\ txn' = [txn EXCEPT ![p].step = "slots",
                        ![p].master = schedule.masters[txn[p].slot.master]]
  /\ UNCHANGED <<appts, version, schedule, answer, now>>

\* Some slot the calculator finds around the one asked for starts when it does.
StartIsAvailable(branch, master, booked, slot, minutes) ==
  slot.start \in Calculate(branch, master, booked, slot.start - Grid * Minute,
                           slot.stop + Grid * Minute, minutes)

CheckSlots(p) ==
  LET t == txn[p]
      booked == {appts[v] : v \in ForMaster(t.slot, t.id)}
  IN  /\ t.step = "slots"
      /\ IF StartIsAvailable(t.branch, t.master, booked, t.slot, t.minutes)
           THEN /\ txn' = [txn EXCEPT ![p].step = IF t.slot.bay = NoBay THEN "save" ELSE "bay",
                                      ![p].branch = NoVisit, ![p].master = NoVisit]
                /\ UNCHANGED <<appts, version, schedule, answer, now>>
           ELSE Refused(p, "conflict")

CheckBay(p) ==
  /\ Step(p) = "bay"
  /\ IF ForBay(txn[p].slot, txn[p].id) = {}
       THEN /\ txn' = [txn EXCEPT ![p].step = "save"]
            /\ UNCHANGED <<appts, version, schedule, answer, now>>
       ELSE Refused(p, "conflict")

(***************************************************************************)
(* Saving.                                                                 *)
(***************************************************************************)
\* Faulty: an appointment waiting for its confirmation excludes nobody.
Excluded_Confirmed(row, v) ==
  \E w \in Rows \ {v} :
    /\ row.status \in Active /\ appts[w].status \in Active \ {"PENDING_CONFIRMATION"}
    /\ Overlap(appts[w], row)
    /\ appts[w].master = row.master \/ (appts[w].bay = row.bay /\ row.bay # NoBay)

\* sch_appointment_master_no_overlap and sch_appointment_bay_no_overlap.
Excluded(row, v) ==
  \E w \in Rows \ {v} :
    /\ row.status \in Active /\ appts[w].status \in Active
    /\ Overlap(appts[w], row)
    /\ appts[w].master = row.master \/ (appts[w].bay = row.bay /\ row.bay # NoBay)

\* Appointment.create and the insert.
SaveNew(p) ==
  LET t == txn[p] IN
  /\ t.step = "save" /\ t.name = "Create"
  /\ IF ~FitsServices(t.slot, t.minutes) THEN Refused(p, "rejected")
     ELSE \E v \in Visits \ Rows, guest \in BOOLEAN :
            LET row == Create(t.slot, t.minutes, guest) IN
            IF Excluded(row, v) THEN Refused(p, "overlap")
            ELSE /\ appts' = [appts EXCEPT ![v] = row]
                 /\ version' = [version EXCEPT ![v] = 1]
                 /\ Finish(p, "ok")
                 /\ UNCHANGED <<schedule, now>>

\* Faulty: the row has no version column.
Stale_Unversioned(t) == FALSE

\* UPDATE ... WHERE id = ? AND version = ? finds no row.
Stale(t) == version[t.id] # t.ver

\* The row is updated only when a column of its own changes.
Update(p, row, onStale) ==
  LET t == txn[p] IN
  IF row = t.row THEN Refused(p, "ok")
  ELSE IF Stale(t) THEN Refused(p, onStale)
  ELSE IF Excluded(row, t.id) THEN Refused(p, "overlap")
  ELSE /\ appts' = [appts EXCEPT ![t.id] = row]
       /\ version' = [version EXCEPT ![t.id] = @ + 1]
       /\ Finish(p, "ok")
       /\ UNCHANGED <<schedule, now>>

\* Reschedule answers a conflict when it lost the race for the version.
SaveMoved(p) ==
  LET t == txn[p] IN
  /\ t.step = "save" /\ t.name = "Reschedule"
  /\ IF CanReschedule(t.row, t.slot)
       THEN Update(p, Reschedule(t.row, t.slot), "conflict")
       ELSE Refused(p, "rejected")

\* StartWork and Complete rethrow the OptimisticLockError.
SaveStatus(p) ==
  LET t == txn[p] IN
  /\ t.step = "save" /\ t.name \in {"StartWork", "Complete"}
  /\ Update(p, Go(t.row, t.to), "stale")

(***************************************************************************)
(* The environment: the schedule commands and the clock.                   *)
(***************************************************************************)
SetSchedule ==
  /\ "SetSchedule" \in Commands
  /\ schedule' \in Schedules
  /\ UNCHANGED <<appts, version, txn, answer, now>>

Tick ==
  /\ now < MaxNow
  /\ now' = now + 1
  /\ UNCHANGED <<appts, version, schedule, txn, answer>>

Handle(p) ==
  \/ BeginCreate(p) \/ BeginReschedule(p) \/ BeginStartWork(p) \/ BeginComplete(p)
  \/ ReadBranchSchedule(p) \/ ReadMasterSchedule(p) \/ CheckSlots(p) \/ CheckBay(p)
  \/ SaveNew(p) \/ SaveMoved(p) \/ SaveStatus(p)

Next == (\E p \in Procs : Handle(p)) \/ SetSchedule \/ Tick

Spec == Init /\ [][Next]_vars

(***************************************************************************)
(* GetAvailableSlotsHandler, for one master, asked without a range.        *)
(***************************************************************************)
Offered(m, minutes) ==
  LET span   == [master |-> m, start |-> now, stop |-> now + Lookahead]
      booked == {appts[v] : v \in ForMaster(span, NoVisit)}
  IN  Calculate(schedule.branch, schedule.masters[m], booked,
                span.start, span.stop, minutes)

(***************************************************************************)
(* Properties.                                                             *)
(***************************************************************************)
\* ADR-0014: two visits that occupy a master, or a bay, never overlap, however
\* checks and saves of concurrent bookings and moves interleave.
NoDoubleBooking ==
  \A v, w \in Rows :
    /\ v # w
    /\ appts[v].status \in Active /\ appts[w].status \in Active
    /\ appts[v].master = appts[w].master \/ (appts[v].bay = appts[w].bay /\ appts[v].bay # NoBay)
    => ~Overlap(appts[v], appts[w])

SlotOf(row) == [master |-> row.master, bay |-> row.bay, start |-> row.start, stop |-> row.stop]

Booked(v) ==
  IF appts[v] = NoVisit THEN NoVisit
  ELSE [status |-> appts[v].status, slot |-> SlotOf(appts[v])]

Promise == INSTANCE Calendar WITH Spans <- Slots, booked <- [v \in Visits |-> Booked(v)]

\* The handlers keep the promised calendar: nobody's stale copy moves a visit
\* that has begun, revives one or takes an occupied span.
CalendarSpec == Promise!Spec

\* At the instant t the branch is open and the master works, by the local time
\* of the branch, and the master is not away.
OpenAt(branch, master, t) ==
  LET local == t + Offset * Minute
      open(ranges) == \E i \in ranges : /\ At(DayOf(local), i.lo) <= local
                                        /\ local < At(DayOf(local), i.hi)
  IN  /\ open(WorkingHours(branch, DayOf(local)))
      /\ open(master.week[Weekday(DayOf(local))])
      /\ \A u \in master.away : ~(u.from <= t /\ t < u.to)

OpenThroughout(m, from, to) ==
  \A t \in from..(to - 1) : OpenAt(schedule.branch, schedule.masters[m], t)

\* engineering.md 2.7, "the slot does not leave the working hours of the branch
\* and the master": the time the services take does not.
WorkWithinHours ==
  \A v \in Rows : OpenThroughout(appts[v].master, appts[v].start,
                                 appts[v].start + appts[v].minutes * Minute)

Taken(m, from, to) ==
  \E v \in Rows : /\ appts[v].master = m /\ appts[v].status \in Active
                  /\ Overlap(appts[v], [start |-> from, stop |-> to])

\* product.md FR-5.5.3: an offered slot is inside the hours of branch and master
\* and meets none of the master's visits.
OfferedIsFree ==
  \A m \in Masters, minutes \in Works : \A s \in Offered(m, minutes) :
    /\ OpenThroughout(m, s, s + minutes * Minute)
    /\ ~Taken(m, s, s + minutes * Minute)

Free(m, t) == OpenThroughout(m, t, t + 1) /\ ~Taken(m, t, t + 1)

\* FR-5.5.3 the other way round, asked at the beginning of a day: on the grid that
\* begins with a free stretch of a day, every start that leaves room for the
\* services is offered.
FreeIsOffered ==
  \A m \in Masters, minutes \in Works :
    LET Span    == now..(now + Lookahead - 1)
        free    == {t \in Span : Free(m, t)}
        begins  == {t \in free : t - 1 \notin free \/ DayOf(t - 1) # DayOf(t)}
        offered == Offered(m, minutes)
    IN  \A from \in begins, s \in free :
          LET end == s + minutes * Minute - 1 IN
          /\ from <= s /\ (s - from) % (Grid * Minute) = 0
          /\ DayOf(from) = DayOf(end) /\ from..end \subseteq free
          /\ now = At(DayOf(now), 0)
          => s \in offered

\* FR-5.5.5: a slot that is offered, and free, can be booked: nothing having
\* changed in between, the check of CreateAppointment accepts its start.
OfferedIsBookable ==
  \A m \in Masters, minutes \in Works : \A s \in Offered(m, minutes) :
    LET slot == [master |-> m, start |-> s, stop |-> s + minutes * Minute] IN
    StartIsAvailable(schedule.branch, schedule.masters[m],
                     {appts[v] : v \in ForMaster(slot, NoVisit)}, slot, minutes)

\* ADR-0014: a booking that loses the race is told of a conflict.
LostRaceIsConflict == \A p \in Procs : answer[p] # "overlap"

=============================================================================
