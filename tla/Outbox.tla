------------------------------- MODULE Outbox -------------------------------
(***************************************************************************)
(* The transactional outbox: a repository inserts the events of an          *)
(* aggregate in the transaction that saves it, and OutboxPollerService      *)
(* reads, publishes and marks them, one batch at a time in each process     *)
(* that runs it.  The retention job deletes what was published long ago.    *)
(* A process that is shut down finishes its batch and then is like one that *)
(* rests; one that crashes loses it.                                       *)
(*                                                                         *)
(* Times are kept only as far as the code compares them: a retry is due     *)
(* "now" or "later", a publication is "fresh" or "old".  The length of the  *)
(* backoff is left out.                                                    *)
(***************************************************************************)
EXTENDS Integers, FiniteSets

CONSTANTS
  Events,
  Pollers,    \* processes that run the poller
  NoRow, NoEvent,
  OccurredAt, \* the time an event carries; its row is visible from its commit
  Known,      \* the events whose type the poller's registry has
  BatchSize,
  MaxRetry,   \* options.maxRetryCount
  MaxFaults   \* bound: crashes and failed flushes

ASSUME OutboxAssumption ==
  /\ OccurredAt \in [Events -> Nat]
  /\ Known \subseteq Events
  /\ IsFiniteSet(Pollers)
  /\ NoEvent \notin Events
  /\ BatchSize \in Nat \ {0}
  /\ MaxRetry \in Nat \ {0}
  /\ MaxFaults \in Nat

VARIABLES
  rows,      \* outbox_events
  pollers,   \* the memory of each process
  written,   \* history: events whose writer committed
  delivered, \* history: how often the bus took the event
  tries,     \* history: failed attempts on the event
  faults     \* history: crashes and failed flushes so far

vars == <<rows, pollers, written, delivered, tries, faults>>

Row == [published : {"no", "fresh", "old"}, retries : 0..MaxRetry,
        due : {"now", "later"}, failed : BOOLEAN]

ASSUME NoRowAssumption == NoRow \notin Row

NewRow == [published |-> "no", retries |-> 0, due |-> "now", failed |-> FALSE]

\* batch: still to process; copy: retryCount as read; current: the event being
\* processed; marked: publishedAt is set on the copy; seen: what was unsettled
\* and not backing off when the batch was read.
Process == [step : {"idle", "publish", "mark", "fail"},
            batch : SUBSET Events, seen : SUBSET Events,
            copy : [Events -> 0..MaxRetry], current : Events \cup {NoEvent},
            marked : BOOLEAN]

Resting == [step |-> "idle", batch |-> {}, seen |-> {},
            copy |-> [e \in Events |-> 0], current |-> NoEvent, marked |-> FALSE]

TypeOK ==
  /\ rows \in [Events -> Row \cup {NoRow}]
  /\ pollers \in [Pollers -> Process]
  /\ written \subseteq Events
  /\ delivered \in [Events -> Nat]
  /\ tries \in [Events -> 0..MaxRetry]
  /\ faults \in 0..MaxFaults

Init ==
  /\ rows = [e \in Events |-> NoRow]
  /\ pollers = [q \in Pollers |-> Resting]
  /\ written = {}
  /\ delivered = [e \in Events |-> 0]
  /\ tries = [e \in Events |-> 0]
  /\ faults = 0

Exists(e) == rows[e] # NoRow

(***************************************************************************)
(* OutboxService.append: the row comes with the writer's commit, which may  *)
(* be later than that of an event that occurred after it.                  *)
(***************************************************************************)
Append(e) ==
  /\ e \notin written
  /\ rows' = [rows EXCEPT ![e] = NewRow]
  /\ written' = written \cup {e}
  /\ UNCHANGED <<pollers, delivered, tries, faults>>

\* Counted up to MaxRetry: more makes no difference.
Tried(e) == [tries EXCEPT ![e] = IF @ < MaxRetry THEN @ + 1 ELSE @]

(***************************************************************************)
(* OutboxPollerService.runBatch.                                           *)
(***************************************************************************)
\* Faulty: a published event is read again.
Eligible_Published(e) ==
  Exists(e) /\ ~rows[e].failed /\ rows[e].due = "now"

\* Faulty: only events without a retry time are read.
Eligible_NeverRetried(e) ==
  /\ Exists(e) /\ rows[e].published = "no" /\ ~rows[e].failed
  /\ rows[e].retries = 0

\* published_at and failed_at null, retry_after_at null or past.
Eligible(e) ==
  /\ Exists(e)
  /\ rows[e].published = "no"
  /\ ~rows[e].failed
  /\ rows[e].due = "now"

\* Faulty: the newest first.
Before_Newest(e, f) == OccurredAt[e] >= OccurredAt[f]

\* ORDER BY occurred_at ASC; equal times come in any order.
Before(e, f) == OccurredAt[e] <= OccurredAt[f]

ReadBatch(q) ==
  LET eligible == {e \in Events : Eligible(e)} IN
  /\ pollers[q].step = "idle"
  /\ eligible # {}
  /\ \E batch \in SUBSET eligible :
       /\ Cardinality(batch) = BatchSize \/ batch = eligible
       /\ Cardinality(batch) <= BatchSize
       /\ \A e \in batch, f \in eligible \ batch : Before(e, f)
       /\ pollers' = [pollers EXCEPT
            ![q] = [Resting EXCEPT
                      !.step = "publish", !.batch = batch, !.seen = eligible,
                      !.copy = [e \in Events |-> IF e \in batch THEN rows[e].retries ELSE 0]]]
  /\ UNCHANGED <<rows, written, delivered, tries, faults>>

\* The loop takes the batch in the order it was read.
Turn(q, e) ==
  /\ pollers[q].step = "publish"
  /\ e \in pollers[q].batch
  /\ \A f \in pollers[q].batch : Before(e, f)

At(q, step, e) ==
  pollers' = [pollers EXCEPT ![q].step = step, ![q].current = e, ![q].batch = @ \ {e}]

\* registry.deserialize and eventBus.publish succeed.
Publish(q, e) ==
  /\ Turn(q, e)
  /\ e \in Known
  /\ delivered' = [delivered EXCEPT ![e] = @ + 1]
  /\ At(q, "mark", e)
  /\ UNCHANGED <<rows, written, tries, faults>>

\* The type is unknown to the registry, or the bus throws.
Throw(q, e) ==
  /\ Turn(q, e)
  /\ tries' = Tried(e)
  /\ At(q, "fail", e)
  /\ UNCHANGED <<rows, written, delivered, faults>>

\* On to the next event of the batch.
Onward(q) ==
  pollers' = [pollers EXCEPT
    ![q] = IF @.batch = {} THEN Resting
           ELSE [@ EXCEPT !.step = "publish", !.current = NoEvent, !.marked = FALSE]]

\* A flush writes the columns that differ from the row as it was read, whatever
\* another process wrote meanwhile; an update of a deleted row does nothing.
Flush(e, row) == rows' = [rows EXCEPT ![e] = IF @ = NoRow THEN NoRow ELSE row]

\* retry_after_at is set to null: a change only where it was not.
DueAfterReset(q, e) == IF pollers[q].copy[e] > 0 THEN "now" ELSE rows[e].due

PublishedRow(q, e) ==
  [rows[e] EXCEPT !.published = "fresh", !.due = DueAfterReset(q, e)]

MarkPublished(q) ==
  LET e == pollers[q].current IN
  /\ pollers[q].step = "mark"
  /\ Flush(e, PublishedRow(q, e))
  /\ Onward(q)
  /\ UNCHANGED <<written, delivered, tries, faults>>

\* The flush of a publication that took place rejects: to handlePublishError.
MarkRejected(q) ==
  LET e == pollers[q].current IN
  /\ pollers[q].step = "mark"
  /\ faults < MaxFaults
  /\ faults' = faults + 1
  /\ tries' = Tried(e)
  /\ pollers' = [pollers EXCEPT ![q].step = "fail", ![q].marked = TRUE]
  /\ UNCHANGED <<rows, written, delivered>>

\* Faulty: one attempt too few.
GivesUpAt_Early(retries) == retries + 1 >= MaxRetry

GivesUpAt(retries) == retries >= MaxRetry

\* publishedAt, if it was set on the copy, goes with it.
FailedRow(q, e) ==
  LET retries == pollers[q].copy[e] + 1
      last    == GivesUpAt(retries)
  IN  [rows[e] EXCEPT
         !.published = IF pollers[q].marked THEN "fresh" ELSE @,
         !.retries = retries,
         !.failed = @ \/ last,
         !.due = IF last THEN DueAfterReset(q, e) ELSE "later"]

HandlePublishError(q) ==
  LET e == pollers[q].current IN
  /\ pollers[q].step = "fail"
  /\ Flush(e, FailedRow(q, e))
  /\ Onward(q)
  /\ UNCHANGED <<written, delivered, tries, faults>>

\* Its flush rejects too: the batch is given up, the rest of it unread.
HandlePublishErrorRejected(q) ==
  /\ pollers[q].step = "fail"
  /\ faults < MaxFaults
  /\ faults' = faults + 1
  /\ pollers' = [pollers EXCEPT ![q] = Resting]
  /\ UNCHANGED <<rows, written, delivered, tries>>

(***************************************************************************)
(* Crashes, time and the retention job.                                    *)
(***************************************************************************)
Crash(q) ==
  /\ pollers[q].step # "idle"
  /\ faults < MaxFaults
  /\ faults' = faults + 1
  /\ pollers' = [pollers EXCEPT ![q] = Resting]
  /\ UNCHANGED <<rows, written, delivered, tries>>

\* A retry time passes.
Elapse(e) ==
  /\ Exists(e)
  /\ rows[e].due = "later"
  /\ rows' = [rows EXCEPT ![e].due = "now"]
  /\ UNCHANGED <<pollers, written, delivered, tries, faults>>

\* A publication is past the retention.
Age(e) ==
  /\ Exists(e)
  /\ rows[e].published = "fresh"
  /\ rows' = [rows EXCEPT ![e].published = "old"]
  /\ UNCHANGED <<pollers, written, delivered, tries, faults>>

\* Faulty: what could not be published is cleaned up as well.
Expired_Failed(e) == Exists(e) /\ (rows[e].published = "old" \/ rows[e].failed)

Expired(e) == Exists(e) /\ rows[e].published = "old"

\* RetentionCron.cleanPublishedOutboxEvents: one DELETE.
CleanPublishedOutboxEvents ==
  /\ \E e \in Events : Expired(e)
  /\ rows' = [e \in Events |-> IF Expired(e) THEN NoRow ELSE rows[e]]
  /\ UNCHANGED <<pollers, written, delivered, tries, faults>>

Work(q) ==
  \/ \E e \in Events : Publish(q, e) \/ Throw(q, e)
  \/ MarkPublished(q) \/ MarkRejected(q)
  \/ HandlePublishError(q) \/ HandlePublishErrorRejected(q)

Next ==
  \/ \E e \in Events : Append(e) \/ Elapse(e) \/ Age(e)
  \/ \E q \in Pollers : ReadBatch(q) \/ Work(q) \/ Crash(q)
  \/ CleanPublishedOutboxEvents

Spec == Init /\ [][Next]_vars

\* BullMQ's repeatable job ticks again and again, so a process reads what is
\* there; a batch goes on, and retry times pass.
FairSpec ==
  /\ Spec
  /\ \A q \in Pollers : WF_vars(ReadBatch(q)) /\ WF_vars(Work(q))
  /\ \A e \in Events : WF_vars(Elapse(e))

(***************************************************************************)
(* Properties.                                                             *)
(***************************************************************************)
Outcome(e) ==
  IF e \notin written THEN "unwritten"
  ELSE IF ~Exists(e) \/ rows[e].published # "no" THEN "published"
  ELSE IF rows[e].failed THEN "failed" ELSE "pending"

Promise == INSTANCE Delivery WITH outcome <- [e \in Events |-> Outcome(e)]

\* The poller, with its crashes, failed flushes and stale copies, and the
\* retention job keep the outbox's promise: no row says "published" and none is
\* deleted before the bus has taken the event.
DeliverySpec == Promise!Spec

\* An event is delivered more than once only for a cause: another process had
\* read it too, or a crash or a failed flush kept its row from being marked.
RepeatsHaveACause ==
  \A e \in Events : delivered[e] <= Cardinality(Pollers) + faults

\* No event is given up before maxRetryCount attempts on it have failed, though
\* processes overwrite each other's count.
GivenUpAfterAllTries ==
  \A e \in Events : Exists(e) =>
    /\ rows[e].retries <= tries[e]
    /\ rows[e].failed => tries[e] >= MaxRetry

\* An event comes before an earlier one of the same batch's reading only if an
\* attempt on the earlier one has failed, or its process has left it behind.
OvertakesOnlyFailing ==
  [][\A q \in Pollers, e \in Events :
       Turn(q, e) /\ delivered'[e] > delivered[e] =>
         \A f \in pollers[q].seen :
           OccurredAt[f] < OccurredAt[e] => delivered[f] > 0 \/ tries[f] > 0]_vars

Settled(e) == ~Exists(e) \/ rows[e].published # "no" \/ rows[e].failed

\* Every event that was written is published or given up at last, whatever
\* fails on the way (finitely often) and whichever process counts.
EveryEventSettles == \A e \in Events : e \in written ~> Settled(e)
=============================================================================
