# A TLA+ model of the detailing-studio backend

detailing-studio is the management system of a car-detailing studio: a NestJS
monorepo of DDD contexts (work orders, scheduling, inventory, billing, CRM, IAM,
catalog, notifications) over one PostgreSQL database through MikroORM, with
BullMQ workers beside the HTTP API. Domain events travel through a transactional
outbox. This directory holds the TLA+ modules that model its core logic, the TLC
instances that check them, and the TLAPS proofs about them.

Paths are relative to the repository; `libs/…` stands for `libs/backend/…`.

## 1. Inventory

| Component | State | Operations | How it interacts | What makes it correct |
|---|---|---|---|---|
| Work orders (`libs/work-order`) | one row with a version column, line and photo rows of their own, photo files in the object storage, stock written off at the inventory port | open, add/update/remove consumption, add/remove photo, submit, return, close, reopen, cancel | opened from an appointment; close calls the inventory port line by line and compensates | one close at a time; no line written off twice; a refused close gives everything back; only documented transitions |
| Scheduling (`libs/scheduling`) | appointment rows with a version and two exclusion constraints, schedules of branches and masters, branches, bays | create, reschedule, start, complete (handlers); confirm, cancel, request/decide a cancellation, no-show (aggregate methods); schedule commands; available slots (query) | reads CRM and catalog through ports; sagas start and complete visits with work orders | no double booking; offers are free, free time is offered; work inside the hours; documented transitions |
| Outbox (`libs/shared/outbox`, `apps/backend/scheduler`) | `outbox_events` rows (published, retry count, retry time, failed) | append, poll a batch, publish, mark, count a failure, give up, delete what is old | every repository appends in its own transaction; the poller feeds Nest's event bus and so the sagas | nothing lost, nothing marked before it is delivered, repeats only for a cause, everything settles |
| Inventory (`libs/inventory`) | stocks with batches, receipts, transfers, stock takings and adjustments with their lines, processed keys at the idempotency port | create, update, post, cancel, approve, reject, measure (commands); five sagas that apply decided documents to the stocks | sagas run on outbox events, all at once, each save a flush of its own | each line booked once but for a cause; what is marked is booked; batches add up to the documents; first expired, first out; a decision stands |
| Billing (`libs/billing`, `apps/backend/scheduler`) | one subscription per owner, invoices (unique per period), payments; no versions | trial, activation and plan change (HTTP), cancel, monthly invoice, payment by the owner, autopay and the catch-up job | cron and BullMQ jobs of the scheduler, a gateway stub, the outbox, two sagas | a period has one invoice; service never runs ahead of money; no save undoes a newer decision; every trial ends |
| Notifications (`libs/notifications`, `apps/backend/notifications-worker`) | notification rows with a status and no version, BullMQ jobs known by the id of the notification | issue (suppressed when the key was used lately), relay into the queue, send, record, retry by hand, expire, delete | the event of an issue, delivered at least once, makes the relay add a job; the worker and two cron jobs work on the rows | nobody is told twice; no dispatch without a record; what is over stays; everything settles |
| IAM (`libs/iam`) | users (versioned), invitations, one-time codes, refresh sessions | register, login, refresh, logout, code, verify, invite, accept, block, change of password | each an HTTP request in its own transaction; guards of the API use the tokens | a token handed out stays known; what is used once is used for something; what has ended stays ended |
| CRM (`libs/crm`) | clients (versioned), vehicles, consents, anonymisation forms | register as guest or in full, change of profile, upgrade, vehicles, consents, request/perform/cancel an anonymisation | HTTP requests, each one transaction; read by scheduling and work orders through ports | a forgotten client stays forgotten, and its vehicles go with it; a form is completed with an anonymisation; every client has consented |
| Catalog (`libs/catalog`) | services with prices and norms, categories | CRUD, the service under optimistic locking | read by scheduling and work orders | mostly validation |
| `apps/backend/api` | none | one transaction per request (`transactional.interceptor.ts`), migrations | around every command of the API | decides when a save commits |

What is hard here: commands interleave at every `await`; a save is an optimistic
update whose version guards the row's own columns only; a request commits at its
end, a saga or a job commits each save by itself; outbox events come late, out
of order and more than once; minutes and days are rounded in the availability
calculator. PROJECT.json lists each such place as a hazard.

## 2. Modules

| Module | Models | State and actions |
|---|---|---|
| `WorkOrderAggregate` | `work-order.aggregate.ts`, the consumption line, `closing-validator.ts`, norm deviation | an order is a record; every method is a guard (`Can…`) and an operator |
| `WorkOrder` | the eleven command handlers, repository and mapper, the request transaction, the photo storage, the stock port | `db`, `version` = the committed row; `lock` = the open transaction that holds it; `txn[p]` = a handler with what it loaded and its copy; `objects` = files; `issued` = what each line has written off. One action per stretch of code between two awaits |
| `OrderLifecycle` | abstract: what a client is promised of status and version | implemented by `WorkOrder` (`LifecycleSpec`) |
| `WorkOrderProofs` | the theorems of section 5 | |
| `Availability` | `availability-calculator.ts` and the reading of branch and master schedules | pure operators; what the holes leave of an interval is a fold over them, the one that starts last done last, as the code's loop over the sorted holes |
| `AppointmentAggregate`, `AppointmentMethods` | `appointment.aggregate.ts`, all methods; every order of calls | `appointment` record; one action per method |
| `Booking` | create, reschedule, start, complete with `AppointmentHotPathService`, the repository, the exclusion constraints; `GetAvailableSlots` | `appts`, `version` = rows; `schedule`; `txn[p]` = a handler with what it read; `answer[p]`; `now` = the clock |
| `Calendar` | abstract: visits booked, moved, progressed, never clashing | implemented by `Booking` (`CalendarSpec`) |
| `Outbox` | `outbox.service.ts`, `outbox-poller.service.ts`, `retention.cron.ts` | `rows`; `pollers[q]` = the batch a process holds and its stale copies; histories `written`, `delivered`, `tries`, `faults` |
| `Delivery` | abstract: written, delivered at least once before "published", or given up | implemented by `Outbox` (`DeliverySpec`) |
| `StockAggregate` | `stock.aggregate.ts`, `batch.entity.ts`, `batch-selection.service.ts` | sets of batches; a method is an operator that returns the batches after the call |
| `Inventory` | thirteen commands, five sagas, the repositories' saves | `docs`, `stock` = rows; `outbox`; `processed` = keys; `request[c]` = the copy a command has changed; `work[h]` = a handler with its event, the lines left and its copies of stocks; histories `applied`, `causes`, `booked`, `troubled`, `moved`, `delivered` |
| `InventoryProofs` | the theorems of section 5 about the inventory | |
| `BookingProofs` | the theorems of section 5 about the appointment handlers and the calculator | |
| `OutboxProofs` | the theorems of section 5 about the outbox | |
| `Billing`, `BillingProofs` | subscription and invoice aggregates, the HTTP commands, the scheduler's cron and jobs, autopay, `MarkInvoicePaid` with its two saves, the repositories | `sub`, `inv[i]` = rows; `at[p]`, `copy[p]`, `target[p]` = a request or job with what it loaded; `due[j]` = what the queue asks for; histories `paidTo`, `raced`, `chosen` |
| `Notification`, `NotificationProofs` | aggregate and its transition table, issuing with deduplication, the outbox relay, the BullMQ job and the worker's processor, both cron jobs | `row`, `job`, `relay[r]`, `issuing[c]` = where a run stands; `now` = the clock; histories `sends`, `raced`, `overwritten` |
| `Iam`, `IamProofs` | ten commands over users, invitations, codes and sessions, with the held rows, the unique indexes and the columns an UPDATE writes | the four tables; `at[r]`, `about[r]`, `loaded[r]` … = a request; histories `given`, `overlapped` |
| `Clients`, `ClientsProofs` | every command of the CRM at its reads, the repository's second read and the commit | `client`, `vehicle`, `consent`, `form` = tables; `at[r]` = where a request stands, `copy[r]` = the client as loaded, `draft[r]` = the aggregate to save, `found[r]` = vehicles and consents as read again; histories `raced`, `doneFor` |
| `MC…` | instances for TLC | |

Things to know when reading:

- A command that the loaded aggregate rejects, or that finds nothing, changes
  nothing and is not a step.
- `WorkOrder.Scope` is `"request"` for the API, whose interceptor commits when
  the handler is done (`CommitRemoval`, `FinalizeClose` and `RevertClosing` are
  that commit), and `"save"` when every flush commits, as in the handlers'
  tests and in ADR-0015.
- Line and photo rows are merged column by column into the committed row
  (`Merged`); only a change of the order's own columns meets the version
  (`Conflict`).
- The stock port is external: the API's adapter is a stub, so it is modelled by
  the contract the close handler relies on (`issued` per line, give back by line).
- `Availability` measures in ticks (`Minute` of them a minute) so that instants
  inside a minute exist. `Booking`'s `Update` is the flush of one row, with the
  version check and then the exclusion constraints.
- In `Outbox`, times are kept as far as the code compares them (a retry is due
  now or later, a publication fresh or old). A flush writes the columns that
  differ from what its process read, so two processes write their counts over
  each other, as the code does.
- In `Inventory`, the load of a document and the methods called on it are one step
  and the save another; a handler's awaits (look-up of the key, load, save,
  mark) are steps. A save reads the row again and flushes in one step, so the
  version column of a stock never sees another writer. A save deletes the
  children the copy was loaded with and inserts the copy's; a duplicate line id
  fails it. `NoBranch` is the empty string that the first save of an adjustment
  or a stock taking writes over its branch (`Erased`).
- `Strategy` is a constant, as it is one of the `BatchSelectionService`: the one
  `BATCH_SELECTOR` injected serves every SKU and every document. product.md asks for
  more (:662-663 FEFO or FIFO by whether the SKU tracks expiry for work orders, :670
  FIFO for negative adjustments, :677 FIFO for transfers) and the module wires a stub
  that selects nothing, so no one strategy is the code's. The write-offs modelled are
  those of adjustments and transfers; the runs therefore take FIFO, and the theorems
  hold for both. Under FEFO the same code would contradict :670 and :677.
- The choice of batches is a set (`Selected`, in the order of `Place`): what the
  code makes of its sorted list does not depend on more. A receipt may bring a
  quantity of zero (`@Min(0)`); the empty batch is removed by the next write-off,
  expired or not, which `EarliestGoesFirst` therefore leaves out.
- `Inventory` takes ports by contract where the module wires stubs (a key once
  marked is found, the selector is the domain's, usage and snapshot are answered
  from the stocks), takes ids as opaque where the migration's `uuid` columns
  would refuse composed ids such as `sku::branch` or an empty branch, takes
  events as the values that were announced, expiry dates as dates, and one unit
  of measure (the mappers read every receipt and adjustment line as pieces).
- `Billing` has one tenant (the controller takes the user's id for the tenant's).
  A month is `Month` ticks. `AutoPay` FALSE leaves an issued invoice to the owner.
  The scheduler's jobs save outside a transaction, each save on its own; a
  request commits at its end. An update writes the columns that differ from the
  loaded copy (`Flush`). `markPastDue`, `startActive` and `markVoided` have no caller.
- In `Notification` each handler reads afresh and each save commits on its own,
  with the status of the loaded copy (`Saved`, `Refused`). BullMQ is modelled as
  the code configures it: a job id is known for good, one attempt, a stalled job
  handed out once more. `overwritten` names the rows a save went over that the
  aggregate's table would have refused on the row as it was by then. `Fresh` and
  `First` take the next free identity, which are interchangeable.
- In `Iam` the UPDATE of a row holds it until the request commits (`SessionHeld`,
  `InvitationHeld`, `OtpHeld`); users alone have a version; `Lapse` lets what
  expires expire. Wrong codes throw before the save and so change nothing.
- In `Clients` every command saves the whole aggregate. The client's row comes from
  the identity map, so its columns are compared with what was loaded and its version
  guards them. Vehicles and consents are read again by the save (`Reread`, into
  `found`), and the mapper then assigns every column of the copy: what differs from
  the rows as read again is written, also what the request itself never changed
  (`Vehicles`, `Consents`), and no version is compared. An anonymisation is two
  flushes in one transaction; a form's client is the caller's. The consents ticked
  at a registration are inserted with the client (`Places`).
- Every run of a handler has an entity manager of its own with a fresh identity map:
  the API registers a request context, and the poller forks. The scheduler and the
  notifications worker set `registerRequestContext: false`
  (`scheduler.module.ts:39`, `worker.module.ts:48`) and hand their jobs the global
  manager, whose use MikroORM refuses by default; were it allowed, copies would be
  shared between the jobs of a process. `Billing` and `Notification` model the jobs
  with a context of their own, which is what their code is written for.
- Names such as `Conflict_Unversioned`, headed "Faulty", are not part of any
  specification: they are the plausible bugs each property is tried against.

## 3. Runs

| Run | What it asks | Instance and why it is enough |
|---|---|---|
| `wo_work` | editing commands interleaved, saves of their own, handlers cut short | 2 handlers, 1 norm line, 3 photos with a limit of 1 (so an overrun by one and the refusal of two are both reached), version up to 2: every pair of commands meets on one load |
| `wo_close` | closes, refusals, reopenings, cancellations and photo removals in request transactions | 2 handlers, 2 lines (one consumed, one still to consume when the port refuses), versions up to 6: a close, a reopening and a second close, which each cost two or one |
| `wo_save` | the same under saves of their own, with liveness | 2 handlers, 2 lines, versions up to 7 |
| `bk_race` | bookings, moves, starts and completions of two visits while the schedule is replaced | 2 handlers, 2 visits, slots that clash by master, clash by bay, or only touch; rows up to version 3 |
| `bk_offers` | offers against a reference that looks at each minute, and work within the hours | all calendars of two visits over slots around the break, at the end of the day and on the second day, of two or three minutes; exceptions and unavailabilities; the clock runs past the first day; the search ends at a midnight (what happens otherwise is `BK_v_offered_taken`) |
| `am_calls` | every sequence of calls on one appointment | all statuses and requests |
| `ob_deliver` | delivery, giving up, order, repeats, settling | 2 events, 2 processes, 2 retries, 2 faults; `BatchSize` 2, so a batch is limited by what is there |
| `inv_apply` | documents decided, raced and applied; events redelivered, handlers interrupted | stories of one or two documents in two branches with two SKUs: one request at a time, two handlers and up to two faults, or two requests at a time and no fault; batches that keep, that expire before the event and after it, one that came empty and has expired, write-offs of one batch, of two, and of more than is usable; one transfer of two lines, adjustments of two lines |
| `bl_bill` | invoices and payments raced by jobs and requests, a crash between the saves of one | 2 requests, both jobs, 3 invoices (the trial's and two months), a month of 2 and a clock up to 5: the first period is billed, paid and followed by the next; one crash |
| `nt_send` | issues that race, an event delivered twice, a worker that dies, late cron jobs, liveness | 2 notifications of one key or none, 2 runs of the command, 2 of the relay, lives and windows of 1 with a clock up to 3, so that each expires and leaves its window; 1 crash, after which a job is handed out again |
| `iam_requests` | ten commands raced four at a time | 2 users, 2 sessions, 2 codes, 2 invitations, 3 e-mails, 2 phones, over a new installation, one with an invitation, one with two owners: two requests race on a row while a third ends it and a fourth begins |
| `crm_clients` | every command raced three at a time | 2 clients, 2 vehicles, 3 consents of 2 kinds, 1 form, 2 phones, over three initial tables: an anonymisation, what it races with, and what comes after with a copy loaded before |

Requests of `iam_requests` and `crm_clients` and those of `bl_bill` are
interchangeable; the first two use TLC's symmetry over them (none has a liveness
property; where there is one, no symmetry is used).

Every bound is a named constant (`MaxVersion`, `MaxQty`, `MaxPhotos`, `MaxNow`,
`MaxRetry`, `MaxFaults`, `MaxCrashes`, `MaxDeliveries`, `MaxTargets`, and the
faults each initial state of `Inventory` allows). `MaxVersion` and `MaxNow` end
behaviours that would go on; in `Iam` and `Clients` each request is made once.
That is why the runs turn the deadlock check off, as do finished systems
(everything closed, everything published).

### Disagreements

Where the code disagrees with what a document or comment of the repository says,
the property is stated in the module and a configuration shows the counterexample.
They are kept beside the runs, to be run by hand (`tlc -config X.cfg M`):

| Configuration | Property | What it shows |
|---|---|---|
| `INV_v_transfer` | `TransferMovesOnce` | ADR-0010 «The saga is idempotent … safe to retry»: a saga stopped after the first of two lines books it again on the next event |
| `WO_v_late_reopen` | `ClosedMeansConsumed` | product.md «`CLOSED`: … материалы списаны»: a reopening that loses the version race has already given the stock of a later close back (the theorems `ClosedIsConsumedExactly` and `ClosedOnceIsConsumed` say without what it holds) |
| `BK_v_local_time` | `WorkWithinHours` | product.md's time zone of the branch: hours are counted from the UTC midnight |
| `WO_v_closed_photos` | `ClosedHasPhotos` | a photo removed while the order closes leaves it CLOSED without (product.md FR-5.6.2) |
| `WO_v_cancel_leak` | `CancelledMeansNothingConsumed` | a close cut short in `CLOSING`, then cancelled, leaves stock written off (FR-5.6.7) |
| `WO_v_rollback` | `RefusedCloseReverts` | the transaction of the request rolls the revert of ADR-0015 step 6 back with the exception |
| `BK_v_offered_taken` | `OfferedIsFree` | visits are read up to the end of the search, offers run to the end of its day (product.md:774) |
| `BK_v_offered_refused` | `OfferedIsBookable` | the check before a booking computes another grid than the offer |
| `BK_v_lost_race` | `LostRaceIsConflict` | a violated exclusion constraint is not mapped to a conflict (ADR-0014) |
| `INV_v_branch` | `StockHasABranch` | an adjustment approved after its first save, or made from a stock taking, is booked into no branch |
| `BL_v_paid_once` | `PaidOnce` | two payments of one invoice that overlap are both recorded, where `subscription.controller.ts:196` answers 409 «Счёт уже оплачен» |
| `IAM_v_owner` | `AnOwnerIsActive` | owners are counted with the blocked ones, before the block is saved (engineering.md:322 «В системе всегда есть ≥ 1 активный `OWNER`») |
| `CRM_v_late` | `ForgottenGetsNothing` | a vehicle is put in for a client forgotten meanwhile (engineering.md:592 «новые записи на него запрещены») |
| `CRM_v_stale` | `WithdrawnStaysWithdrawn` | a save of a copy loaded before brings a deactivated vehicle back into use, or a withdrawn consent back in force, though no command does either (product.md:723 «можно деактивировать и создать новое»; `Vehicle.reactivate` has no caller) |

Observed and not run:

- Work orders and inventory: `updateConsumption` enters a fact without starting
  the work (FR-5.6.3); the wired inventory ports are stubs and its migration's
  uuid columns refuse the ids the repositories compose; a receipt with two lines
  of one SKU books the first only (the key names the SKU); a receipt cancelled
  before its posting is applied leaves its batches; a write-off of more than the
  unexpired batches hold writes off less and says nothing; between the two saves
  of a transfer its goods are nowhere (ADR-0010 forbids it); ADR-0015's background
  job for orders left in CLOSING does not exist; two AddConsumption of one SKU at
  once create two lines of it; a RemovePhoto aborted between `storage.delete` and
  its commit leaves a photo row without a file.
- Scheduling: a cancellation requested before the visit begins is approved after
  it (engineering.md:659); only the services are checked against the hours, the
  slot may be longer (engineering.md:657); the end of an unavailability is rounded
  down to a minute; slots earlier today are offered; the client's window is
  checked against the new slot; no module provides the port that opens a work order
  from a visit.
- Outbox: the poller runs only in the scheduler, which knows the event types of
  billing only (`apps/backend/scheduler/src/scheduler.module.ts`), so other
  contexts' events are given up after five tries; Nest's event bus does not hand a
  rejected handler's error to the poller.
- Billing: the first invoice covers the trial and the next overlaps it; a run that
  is made again bills the next period too; a run bills whatever period is current;
  an invoice left ISSUED by a crash is never paid automatically; a trial loaded
  before a cancellation brings the subscription back when its payment is settled
  (`subscription.aggregate.spec.ts:256` calls a cancellation final; `CancelledStays`
  names the exception); a plan's limit counts as kept when it is reached
  (`limit.policy.ts:45`).
- Notifications: a worker that takes its job before the relay has saved finds
  PENDING, throws, and nothing sends the notification any more (three tries are
  promised, product.md:967); the second recipient or channel of one command is
  suppressed by the first; a worker that dies in SENDING leaves the row for good; a
  repeated event puts a sent notification back to QUEUED; the handlers of
  scheduling's and inventory's events are not registered with the bus, the contact
  port of the worker answers nothing, PUSH is not dispatched.
- IAM: a wrong code throws before the save, so the attempts left never change and
  FAILED is not reached; an invitation past its term stays PENDING and cannot be
  issued anew (product.md:505); two invitations of one e-mail at once are both
  PENDING; two refreshes with one token forget the token of the first; two
  verifications of one code give two sessions; unblock, archive, the branches of a
  user and the revocation of an invitation have no caller.
- CRM: a description, a profile or a consent saved across an anonymisation writes the
  vehicles back as they were loaded, in use (`NothingOutlives` names them `raced`);
  a consent to personal data cannot be withdrawn; the form a request completes is not checked to be of the
  client; a cancellation of a completed form writes over it; two requests give one
  consent twice; plate and VIN of a forgotten client's vehicles stay
  (product.md:733); the visit history's projector has no caller.

## 4. Fairness

- `WorkOrder.FairSpec`: a started handler goes on (`WF` of its next step): the
  event loop resumes it when the awaited call answers. Nobody has to issue a
  command. It is used without aborts; a handler that dies leaves CLOSING behind.
- `Outbox.FairSpec`: each process reads what is there (the repeatable BullMQ job
  ticks again and again), works on its batch, and retry times pass. Crashes and
  failed flushes are finitely many (`MaxFaults`). Nothing is assumed of writers,
  of the retention job, or of handlers succeeding.
- `Billing.Fairness`: time passes, the API starts, a run that is due is made
  (BullMQ's repeatable job, the start of the process), and jobs and transactions
  that began go on. Nobody has to make a request. `TrialEnds` also needs that the
  scheduler never dies, and says so.
- `Notification.Fairness`: time passes, the cron job that expires runs, and the
  worker takes jobs and goes on with them. Nothing is assumed of issuers, of
  relays (their event may never come), or of the retention.
- `Inventory` has none: an event whose handler fails is not tried again by the
  poller, which does not wait for the bus, so nothing eventual is promised.
- The other specifications have no fairness and only safety is checked of them.

## 5. Proofs

`WorkOrderProofs`, for every set of handlers, lines and photos and both scopes,
with handlers cut short anywhere unless said otherwise:

- `Invariance`: the inductive invariant `IInv`. `OneCloser` alone is not
  inductive: it needs that a loaded copy is a legal change of what was loaded
  (`LocalOK`), that a copy's version is never ahead of the row's and, when equal,
  that the status loaded is the status committed (`VersionOK`), and that a
  handler past its first save of a close holds the row's lock, or the row is in
  CLOSING at its version (`RowOK`).
- `TypeCorrect`, `MutualExclusionOfCloses` (`OneCloser`) and `Refinement`
  (`LifecycleSpec`) follow from it.
- `PhotosHaveObjects` (`PhotoHasObject`), if each save commits by itself or no
  handler dies: a removal that dies after `storage.delete` in a request that rolls
  back leaves a row without its file. Its invariant (`PhotoInv`) says for each
  handler on its way where its file is and whether the row knows it, that only
  uploads add photos, and that the row has no photo nobody took up.
- `BoundedOverrun` (`PhotoOverrun`), by counting: each handler that loaded an
  album below its limit may still add one photo, so the album and those handlers
  together never pass the limit by more than there are handlers. `PhotoAssumption`
  (finitely many handlers, an order that starts with no more photos than allowed).
- `CloseGoesOn`, if no handler dies: where each save commits, a committed CLOSING has
  a close under way at the version of the row (`CloserAlive`). It is the safety half
  of `ClosingResolves`: with it, only that a started handler goes on is left to
  fairness.
- The stock. Three theorems rest on one invariant (`StockInv`): what is outstanding
  are lines the row has to write off; a close under way works on the lines of the
  row and has consumed all that is outstanding itself; a reopening that is not too
  late has listed it; and with no close under way goods are outstanding only in the
  statuses `HeldIn`. `LinesInv` adds who can change lines at all.
  - `ConsumedOnce` (`NoDoubleWriteOff`) and `StockHeldNowhereElse`, for both ways to
    commit, and where each save commits with handlers cut short anywhere.
    `HeldIn` is CLOSED and, where each save commits, CANCELLED (the cancellation
    overtakes the close, which consumes on) and CLOSING if handlers die.
  - `NothingStaysOutstanding` (`NothingOutstanding`), where requests commit as a
    whole and none dies.

  All ask that lines are edited in time (`EditsInTime`): while the order is in work and
  no close of it runs. The code does not see to it, because the row of a line has no
  version, and does need it: TLC finds `NoDoubleWriteOff` violated by a line added or
  changed late, either way to commit. Without commands on lines it always holds
  (`NoEditsInTime`), so the theorems cover `wo_close` as it is. A handler that dies in
  a request that rolls back is excluded for the same reason: the row forgets what the
  port has written off.
- `ClosedMeansConsumed`, product.md's sentence that a closed order is written off, is
  not a property of the code: the port is called before the version is checked, and
  TLC refutes it (`WO_v_late_reopen`). Two theorems say what the code does keep if no
  handler dies. `ClosedIsConsumedExactly`: with requests that do not overlap it holds
  after any sequence of any commands, either way to commit (`Alone`: each saves over
  the row it loaded). `ClosedOnceIsConsumed`: with any overlap it holds for requests
  that commit as a whole, if neither reopenings nor commands on lines are issued
  (`NoneBack`: then no handler has anything to give back).
  Both rest on the lemma `ClosedInTime`, which assumes of the behaviour that lines are
  edited in time (`EditsInTime`) and given back in time (`BackInTime`: by no handler
  that is too late for its save nor, where each save commits, by a cancellation beside
  the close it found). The code ensures neither under overlap; the lemma only
  delimits the gap. Its invariant (`ExactHandlers`, `ExactRow`): a close has on its
  list, or has consumed in the quantity of the row, every line to write off, and a
  line of a closed order that is not written off has been given back by a reopening
  that is going to be saved.

`BookingProofs`, for any number of commands at once, any appointments, slots,
schedules and clock:

- `Invariance`: its inductive invariant says that what a handler asks for stays
  known until it saves (`RequestOK`), and that the row it loaded is still there,
  at a version not behind its own, and is the committed row exactly as long as
  the versions agree (`CopyOK`). `NoDoubleBooking` is inductive without it: only
  the exclusion constraints are needed. The refinement is not: that a stale copy
  never moves a visit that has begun rests on the version.
- `TypeCorrect`, `MastersAndBaysAreExclusive` (`NoDoubleBooking`) and `Refinement`
  (`CalendarSpec`) follow. What the calculator answers does not matter to any of
  these three: its checks only decide who is refused early.
- `RowsAreCalled`: whatever the handlers do at once, each row changes only as by a
  sequence of calls of its aggregate's methods, so `Booking` implements
  `AppointmentMethods` row by row (`visit` is any one of them). `GrantedMeansCancelled`
  (`ApprovedIsCancelled`) is proved of those sequences.
- The calculator. `CutSound` says what cutting holes out of an interval leaves lies in
  the interval and meets no hole, `CutComplete` that a stretch beside all the holes
  is left in one piece. Both go over the holes that are cut so far by an induction
  over the subsets of a finite set (`SubsetInduction`, from the well-founded order of
  the cardinality), which needs no induction over data. `WindowIsOpen` carries the
  first through the rounding to minutes and the days: at every instant of a free
  window the branch is open, the master works and is not away, and no visit takes
  place. `StretchInWindow` carries the second: a stretch of a day with these
  properties is in one window, because between two ranges of a working day there is
  a break (`DayHours`).
- `VisitsStayWithinHours` (`WorkWithinHours`), where `SteadyHours`: no command
  replaces a schedule (a new schedule moves no visit, so one that was within the old
  hours may be outside the new ones), the branch is in UTC (the calculator counts a
  schedule's minutes from the UTC midnight; `BK_v_local_time`),
  and unavailabilities end with a minute (the calculator rounds their ends down and
  offers the rest of that minute). Its invariant (`HoursInv`) says what a handler has
  read is today's schedule and that once the slots are checked the time asked for is
  within the hours, whichever way the row goes meanwhile.
- `OffersAreFree` (`OfferedIsFree`) lets schedules change and asks instead that visits
  be within the search (`VisitsInSearch`): the handler reads the visits up to the end
  of its search but offers starts on the whole last day (`BK_v_offered_taken`), and
  starts earlier today.
  `OffersAreFreeInSearch` says what holds without that: the hours are kept by every
  offer, and one within the search meets no visit.
- `WhatIsFreeIsOffered` (`FreeIsOffered`), schedules changing, in UTC, with
  unavailabilities and visits that end with a minute (`WholeStops`; a stretch that
  begins inside a minute is offered from the next one on). A free stretch begins with
  a minute (`BeginsWithMinute`), lies in a window by `StretchInWindow`, and begins with
  it, since the instant before, were it in the window, would be free. `bk_offers`
  satisfies the hypotheses of all of these.

`OutboxProofs`, for any events, any finite number of processes, any batch size,
retry limit and number of crashes and failed flushes:

- `Invariance`: its inductive invariant says that what a row claims is backed by
  the history of its event (`RowOK`), that the copies a process works on are not
  ahead of the attempts made and that what it is about to mark was delivered
  (`PollerOK`), that what is earlier than the rest of a batch is in it or was
  tried (`OrderOK`), and who accounts for each delivery (`CountOK`: while the
  row is unpublished, the processes about to mark it; later, those that no
  longer hold it). The last part is what `RepeatsHaveACause` lacks: a process
  that marks and reads again would otherwise be counted twice.
- `TypeCorrect`, `NeverGivenUpEarly` (`GivenUpAfterAllTries`), `BoundedRepeats`
  (`RepeatsHaveACause`), `NoOvertaking` (`OvertakesOnlyFailing`) and `Refinement`
  (`DeliverySpec`) follow; only the liveness of the outbox stays with TLC.

`InventoryProofs`, for any documents, SKUs, branches, forms and faults, any
number of requests and any finite number of handlers:

- `Invariance`: its inductive invariant counts, for every key, the saves made,
  the handlers that will still save it and those between save and mark, against
  `1 + causes` and the mark (`CountOK`, `MarkOK`). `RepeatsHaveACause` alone lacks the
  handlers on their way. Each action is classified by what it does to one key
  (stay, enter, book, leave, drop) and one lemma carries the count over all five.
- `BoundedRepeats` (`RepeatsHaveACause`) and `MarkedLinesAreBooked`
  (`MarkedMeansBooked`) follow. `DecidedForGood` (`DecisionIsFinal`) has its own
  small invariant: a copy about to be saved decides the document or has the status
  it was loaded with, which the save then does not write.
- `StockInv` is the invariant about the batches. Sums over them only make sense if
  the sets are finite and the ids are keys, so it says that of every stock and of
  every copy (`StocksOK`, `CopiesOK`), that a batch a handler has made and not yet
  saved has an id nobody else knows (`Fresh`), what a handler holds at each stage (`HandOK`), and that no
  document brings less than nothing but an adjustment (`PapersOK`). Lemmas about
  the total of a set of batches (a batch added, removed, replaced, a set split in
  two) and about what a write-off takes carry it over the steps. `TypeCorrect`,
  `StocksBalance` (`BooksBalance`, which exempts stocks a stale copy was saved over)
  and `EarliestFirst` (`EarliestGoesFirst`, for either strategy) follow, for any
  finite number of SKUs, branches and handlers.

`BillingProofs`, for any requests, invoices, plans, lengths of trial and month, and
number of crashes:

- `Invariance`: `NextWithinPaid` alone is not inductive, because settlements add to
  copies that may be stale. What is: the billing date of every copy, with what its
  holder is about to add to it, is within the money recorded (`CopyOK`); an agent
  between two steps holds the copy and the invoice its next step works on
  (`HoldsOK`); and the row is within the money and has the plan last chosen
  (`RowsOK`).
- `TypeCorrect`, `ServiceWithinMoney` (`NextWithinPaid`), `PeriodBilledOnce`
  (`OneInvoicePerPeriod`), `PlanSurvives` (`PlanIsTheChosen`) and
  `CancellationStays` (`CancelledStays`).
- `OnlyAccidentsStick` (`StuckNeedsAnAccident`) has an invariant of its own for as
  long as no accident has happened (`AccidentInv`): no copy was loaded from a later
  period than the row's, no invoice bills one, and the invoice of the present
  period is paid only with its settlement still on its way.

`NotificationProofs`, for any notifications, runs, keys, deliveries, crashes and
lengths of life and window:

- `Invariance`: the rows change under their readers, so the invariant says what a
  reader may still rely on. A row moves in four ways only (`Move`: it stays,
  begins, goes, or changes its status as the table allows or by a save that
  `overwritten` records); what a relay knows (`RelayOK`) and what an issue has let
  pass (`IssueOK`) survives every move; and the worker knows the status of the row
  it works on (`RowOK`), which ties dispatches to recorded attempts.
- `TypeCorrect`, `ToldOnce` (`OncePerWindow`), `DispatchesAreRecorded`
  (`EveryDispatchIsRecorded`) and `OverIsOver` (`TerminalStays`).

`ClientsProofs`, for any clients, vehicles, consents, forms and requests:

- `Invariance`: a copy a request loaded is not ahead of the row, is the row as
  long as the versions agree, and is anonymised only if the row is (`Loaded`), so
  that the version refuses every late save of a client; the aggregate in hand has
  rows of its client and mandatory consents in force (`Drafted`); a request that
  forgets a client has all its vehicles in hand and out of use, and what it missed
  or would not write is `raced` (`TakesAll`, `MissedIsRaced`). A step leaves the
  other requests alone and the rows only grow (`Grows`): none disappears, a forgotten
  row stays, a changed client gets a new version, a mandatory consent stays in force,
  and a vehicle that comes into use across an anonymisation is noted. One lemma
  (`Kept`) carries what a request knows across such a step.
- `TypeCorrect`, `VehiclesGoWithTheirClient` (`NothingOutlives`),
  `FormsTellTheTruth` (`CompletedIsDone`: the client that the completing request was
  about is forgotten; the form itself may be of another), `EveryClientConsented`
  (`EveryoneConsented`) and `ForgottenForGood` (`ForgottenStaysForgotten`).

`IamProofs`, for any users, invitations, codes, sessions and requests:

- `Invariance`: a session a request loaded is as old as the token in it: as long as
  the token is the row's, so is the list of tokens rotated out (`SessionLoaded`); a
  copy of a user is the row as long as the versions agree (`UserLoaded`); and a
  token that was generated and not yet handed out is in no session, no copy and no
  other request (`FreshOK`). Each action is described by the one request it moves
  and by what it does to the rows (`Moves`, `Takes`); two lemmas carry what every
  other request knows across such a step (`Kept`, `FreshKept`).
- `TypeCorrect`, `TokensStayKnown` (`TokensAreKnown`), `NothingIsSpentInVain`
  (`SpentForSomething`), `AddressesAreUnique` (`UniqueContacts`, which no run
  checks) and `EndedForGood` (`EndedStaysEnded`).

The assumptions are those the modules name (`AggregateAssumption`,
`HandlerAssumption`, `PhotoAssumption`, `AvailabilityAssumption`, `BookingAssumption`,
`ScheduleAssumption`, `OutboxAssumption`, `StrategyAssumption`, `InventoryAssumption`,
`BillingAssumption`, `NotificationAssumption`, `IamAssumption`, `ClientsAssumption`, and
that the tokens for "no row" are no rows); TLC evaluates them on each run. `InventoryAssumption`
asks of the initial stocks what the database's keys ensure (batches with distinct
ids), and of the forms what their DTOs do (only an adjustment has negative lines).

`BookingAssumption` has an appointment take at least a minute (`Appointment.create`
refuses one without services, `Service.validateDuration` one of no length);
`ScheduleAssumption` says of every schedule what `WorkingDay.from` and
`Unavailability.from` enforce.

Only model-checked are the liveness properties (`ClosingResolves`, `TrialEnds`, and
those of the outbox and the notifications), which no prover here can do; of the
first, `CloseGoesOn` proves that the close which resolves it is there.

## 6. Not modelled

Catalog (a service is one row saved under a version, its prices and norms replaced
whole; categories have no version; what could race is one save), SKUs and suppliers
(single saves), the visit history (no caller). HTTP interfaces, DTOs, read models,
the querying library, guards, migrations and seeders hold no state of their own;
the kernel and the contracts are types. In the modelled components, left out are:
texts, cost, comments and photo metadata; the services' child rows of an
appointment; `Stock.consume` and `changeReorderLevel`, which nothing calls; average
costs and units; the length of backoffs; the payload of events; templates,
preferences and contacts of notifications; the attempts of a code, which never
change; the names, addresses and documents of clients; reminders, which are not
wired.

Of scheduling, the commands on branches, bays and schedules are one action of
`Booking` that replaces what the calculator reads. Each is a load, a check and one
save of a row without a version: nothing orders two that overlap, and the check that
nobody uses a branch or bay before it is deactivated holds nothing back. The saga
that completes a visit once its work order is closed runs `Booking`'s completion;
the one that opens a work order when a visit starts returns at once, because no
module provides its port. `Booking` and `WorkOrder` are therefore not composed.

## 7. What is left

1. Schedule commands with their own interleavings (a master's schedule has no
   version); the start-work and close sagas that join work orders and scheduling
   over the outbox.
2. Theorems: what the calculator still offers inside the last minute of an
   unavailability; the hours of a branch whose schedule changes, for the visits
   booked since.
3. Catalog with its price entries, once a reader depends on their history.

Runs stay few: as a module comes, the runs of a part that asks the least give way.
