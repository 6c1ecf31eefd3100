---------------------------- MODULE OutboxProofs ----------------------------
(***************************************************************************)
(* Theorems about the outbox, for any events, any finite number of          *)
(* processes that poll, any batch size, any number of retries and any       *)
(* number of crashes and failed flushes.                                    *)
(***************************************************************************)
EXTENDS Outbox, FiniteSetTheorems, TLAPS

(***************************************************************************)
(* The inductive invariant.                                                *)
(***************************************************************************)
\* What a row says is backed by what has happened to its event.
RowOK(e) ==
  /\ Exists(e) => e \in written
  /\ e \in written => Exists(e) \/ delivered[e] > 0
  /\ e \notin written => delivered[e] = 0
  /\ Exists(e) =>
       /\ rows[e].published # "no" => delivered[e] > 0
       /\ rows[e].retries <= tries[e]
       /\ rows[e].failed => tries[e] = MaxRetry
       /\ ~rows[e].failed => rows[e].retries < MaxRetry

\* What a process holds is backed as well: its batch was written, its copies of
\* the retry counts are not ahead of the attempts, and what it is about to mark
\* has been delivered.
PollerOK(q) ==
  LET p == pollers[q] IN
  /\ p.batch \subseteq written
  /\ \A e \in Events : p.copy[e] <= tries[e] /\ p.copy[e] < MaxRetry
  /\ p.marked => p.step = "fail"
  /\ p.step \in {"mark", "fail"} => p.current \in written \ p.batch
  /\ p.step = "mark" \/ p.marked => delivered[p.current] > 0
  /\ p.step = "fail" => p.copy[p.current] < tries[p.current]

\* What was read together and is earlier than something still in the batch is in
\* the batch as well, or was tried.
OrderOK(q) ==
  \A e \in pollers[q].batch, f \in pollers[q].seen :
    OccurredAt[f] < OccurredAt[e]
      => f \in pollers[q].batch \/ delivered[f] > 0 \/ tries[f] > 0

Marking(e) == {q \in Pollers : pollers[q].step = "mark" /\ pollers[q].current = e}
Past(e)    == {q \in Pollers : e \notin pollers[q].batch}

\* Deliveries are counted by faults and processes: while a row is not published,
\* by the processes about to mark it; later by those that no longer hold it.
CountOK(e) ==
  /\ Exists(e) /\ rows[e].published = "no"
       => delivered[e] <= faults + Cardinality(Marking(e))
  /\ delivered[e] <= faults + Cardinality(Past(e))

IInv ==
  /\ TypeOK
  /\ \A e \in Events : RowOK(e)
  /\ \A q \in Pollers : PollerOK(q)
  /\ \A q \in Pollers : OrderOK(q)
  /\ \A e \in Events : CountOK(e)

(***************************************************************************)
(* Types.                                                                  *)
(***************************************************************************)
\* Resting is a state of a process, and so is a process at the next event, with
\* or without one in hand.
LEMMA ProcessTypes ==
  ASSUME TypeOK, NEW q \in Pollers
  PROVE  /\ Resting \in Process
         /\ \A s \in {"publish", "mark", "fail"}, e \in Events :
              At(q, s, e) => pollers' \in [Pollers -> Process]
         /\ Onward(q) => pollers' \in [Pollers -> Process]
<1> USE OutboxAssumption
<1>1. Resting \in Process  BY DEF Resting, Process
<1>2. pollers[q] \in Process /\ pollers \in [Pollers -> Process]  BY DEF TypeOK
<1>3. ASSUME NEW s \in {"publish", "mark", "fail"}, NEW e \in Events, At(q, s, e)
      PROVE  pollers' \in [Pollers -> Process]
  <2>1. [pollers[q] EXCEPT !.step = s, !.current = e, !.batch = @ \ {e}] \in Process
    BY <1>2 DEF Process
  <2> QED BY <1>2, <1>3, <2>1 DEF At
<1>4. ASSUME Onward(q) PROVE pollers' \in [Pollers -> Process]
  <2>1. [pollers[q] EXCEPT !.step = "publish", !.current = NoEvent, !.marked = FALSE]
          \in Process
    BY <1>2 DEF Process
  <2> QED BY <1>1, <1>2, <1>4, <2>1 DEF Onward
<1> QED BY <1>1, <1>3, <1>4

\* A row that is flushed leaves a row, or none.
LEMMA FlushType ==
  ASSUME TypeOK, NEW e \in Events, NEW row, Exists(e) => row \in Row, Flush(e, row)
  PROVE  rows' \in [Events -> Row \cup {NoRow}]
BY DEF TypeOK, Flush, Exists

\* One more attempt is a count of attempts.
LEMMA TriedType ==
  ASSUME TypeOK, NEW e \in Events
  PROVE  /\ Tried(e) \in [Events -> 0..MaxRetry]
         /\ \A f \in Events : tries[f] <= Tried(e)[f]
         /\ \A n \in 0..(MaxRetry - 1) : n <= tries[e] => n < Tried(e)[e]
BY OutboxAssumption DEF TypeOK, Tried

\* What the two flushes of a process write.
LEMMA WrittenRows ==
  ASSUME IInv, NEW q \in Pollers, NEW e \in Events, Exists(e)
  PROVE  /\ PublishedRow(q, e) \in Row
         /\ PublishedRow(q, e).published = "fresh"
         /\ PublishedRow(q, e).retries = rows[e].retries
         /\ PublishedRow(q, e).failed = rows[e].failed
         /\ FailedRow(q, e) \in Row
         /\ FailedRow(q, e).published
              = IF pollers[q].marked THEN "fresh" ELSE rows[e].published
         /\ FailedRow(q, e).retries = pollers[q].copy[e] + 1
         /\ FailedRow(q, e).failed
              = (rows[e].failed \/ GivesUpAt(pollers[q].copy[e] + 1))
<1> DEFINE last == GivesUpAt(pollers[q].copy[e] + 1)
<1>1. /\ rows[e] \in Row
      /\ pollers[q].copy[e] + 1 \in 0..MaxRetry
  BY OutboxAssumption DEF IInv, TypeOK, PollerOK, Process, Exists
<1>2. DueAfterReset(q, e) \in {"now", "later"}  BY <1>1 DEF DueAfterReset, Row
<1>3. /\ PublishedRow(q, e) \in Row
      /\ PublishedRow(q, e).published = "fresh"
      /\ PublishedRow(q, e).retries = rows[e].retries
      /\ PublishedRow(q, e).failed = rows[e].failed
  BY <1>1, <1>2 DEF PublishedRow, Row
<1>4. FailedRow(q, e) = [rows[e] EXCEPT
          !.published = IF pollers[q].marked THEN "fresh" ELSE @,
          !.retries = pollers[q].copy[e] + 1,
          !.failed = @ \/ last,
          !.due = IF last THEN DueAfterReset(q, e) ELSE "later"]
  BY DEF FailedRow
<1> HIDE DEF last
<1>5. (rows[e].failed \/ last) \in BOOLEAN  OBVIOUS
<1>6. (IF pollers[q].marked THEN "fresh" ELSE rows[e].published) \in {"no", "fresh", "old"}
  BY <1>1 DEF Row
<1>7. (IF last THEN DueAfterReset(q, e) ELSE "later") \in {"now", "later"}
  BY <1>2
<1>8. /\ FailedRow(q, e) \in Row
      /\ FailedRow(q, e).published
           = IF pollers[q].marked THEN "fresh" ELSE rows[e].published
      /\ FailedRow(q, e).retries = pollers[q].copy[e] + 1
      /\ FailedRow(q, e).failed = (rows[e].failed \/ last)
  BY <1>1, <1>4, <1>5, <1>6, <1>7 DEF Row
<1> QED BY <1>3, <1>8 DEF last

\* Every step keeps the types.
LEMMA TypeStep == IInv /\ [Next]_vars => TypeOK'
<1> SUFFICES ASSUME IInv, [Next]_vars PROVE TypeOK'
  OBVIOUS
<1> USE OutboxAssumption, NoRowAssumption
<1>1. TypeOK /\ \A q \in Pollers : PollerOK(q)  BY DEF IInv
<1>2. CASE UNCHANGED vars
  BY <1>1, <1>2 DEF vars, TypeOK
<1>3. ASSUME NEW e \in Events, Append(e) \/ Elapse(e) \/ Age(e)
      PROVE  TypeOK'
  <2>1. NewRow \in Row  BY DEF NewRow, Row
  <2>2. Exists(e) => /\ [rows[e] EXCEPT !.due = "now"] \in Row
                     /\ [rows[e] EXCEPT !.published = "old"] \in Row
    BY <1>1 DEF TypeOK, Row, Exists
  <2> QED BY <1>1, <1>3, <2>1, <2>2 DEF Append, Elapse, Age, TypeOK, Exists
<1>4. CASE CleanPublishedOutboxEvents
  BY <1>1, <1>4 DEF CleanPublishedOutboxEvents, TypeOK
<1>5. ASSUME NEW q \in Pollers, ReadBatch(q)
      PROVE  TypeOK'
  <2>1. PICK batch \in SUBSET {e \in Events : Eligible(e)} :
          pollers' = [pollers EXCEPT
            ![q] = [Resting EXCEPT
                      !.step = "publish", !.batch = batch,
                      !.seen = {e \in Events : Eligible(e)},
                      !.copy = [e \in Events |-> IF e \in batch THEN rows[e].retries ELSE 0]]]
    BY <1>5 DEF ReadBatch
  <2>2. [e \in Events |-> IF e \in batch THEN rows[e].retries ELSE 0] \in [Events -> 0..MaxRetry]
    BY <1>1 DEF TypeOK, Row, Eligible, Exists
  <2>3. pollers'[q] \in Process
    BY <1>1, <2>1, <2>2 DEF TypeOK, Resting, Process
  <2> QED BY <1>1, <1>5, <2>1, <2>3 DEF ReadBatch, TypeOK
<1>6. ASSUME NEW q \in Pollers, Crash(q) \/ HandlePublishErrorRejected(q)
      PROVE  TypeOK'
  BY <1>1, <1>6, ProcessTypes DEF Crash, HandlePublishErrorRejected, TypeOK
<1>7. ASSUME NEW q \in Pollers, NEW e \in Events, Publish(q, e) \/ Throw(q, e)
      PROVE  TypeOK'
  <2>1. pollers' \in [Pollers -> Process]  BY <1>1, <1>7, ProcessTypes DEF Publish, Throw
  <2> QED BY <1>1, <1>7, <2>1, TriedType DEF Publish, Throw, TypeOK
<1>8. ASSUME NEW q \in Pollers, MarkPublished(q) \/ MarkRejected(q) \/ HandlePublishError(q)
      PROVE  TypeOK'
  <2> DEFINE p == pollers[q]
             e == p.current
  <2>1. e \in Events /\ p \in Process
    BY <1>1, <1>8 DEF MarkPublished, MarkRejected, HandlePublishError, PollerOK, TypeOK
  <2>2. CASE MarkPublished(q)
    <3>1. rows' \in [Events -> Row \cup {NoRow}]
      BY <1>1, <2>1, <2>2, WrittenRows, FlushType DEF MarkPublished
    <3> QED BY <1>1, <2>2, <3>1, ProcessTypes DEF MarkPublished, TypeOK
  <2>3. CASE MarkRejected(q)
    <3>1. [p EXCEPT !.step = "fail", !.marked = TRUE] \in Process  BY <2>1 DEF Process
    <3> QED BY <1>1, <2>1, <2>3, <3>1, TriedType DEF MarkRejected, TypeOK
  <2>4. CASE HandlePublishError(q)
    <3>1. rows' \in [Events -> Row \cup {NoRow}]
      BY <1>1, <2>1, <2>4, WrittenRows, FlushType DEF HandlePublishError
    <3> QED BY <1>1, <2>4, <3>1, ProcessTypes DEF HandlePublishError, TypeOK
  <2> QED BY <1>8, <2>2, <2>3, <2>4
<1> QED BY <1>2, <1>3, <1>4, <1>5, <1>6, <1>7, <1>8 DEF Next, Work

(***************************************************************************)
(* Rows and processes.                                                     *)
(***************************************************************************)
\* What was written stays written; deliveries and attempts are only added to.
LEMMA HistoryGrows ==
  ASSUME IInv, [Next]_vars
  PROVE  /\ written \subseteq written'
         /\ \A e \in Events : delivered[e] <= delivered'[e] /\ tries[e] <= tries'[e]
<1>1. TypeOK  BY DEF IInv
<1>2. CASE UNCHANGED vars
  BY <1>1, <1>2 DEF vars, TypeOK
<1>3. ASSUME NEW q \in Pollers, NEW e \in Events, Publish(q, e)
      PROVE  UNCHANGED <<written, tries>> /\ delivered' = [delivered EXCEPT ![e] = @ + 1]
  BY <1>3 DEF Publish
<1>4. ASSUME NEW q \in Pollers, NEW e \in Events, Throw(q, e)
      PROVE  UNCHANGED <<written, delivered>> /\ tries' = Tried(e)
  BY <1>4 DEF Throw
<1>5. ASSUME NEW q \in Pollers, MarkRejected(q)
      PROVE  UNCHANGED <<written, delivered>> /\ tries' = Tried(pollers[q].current)
  BY <1>5 DEF MarkRejected
<1>6. \A e : \A f \in Events : tries[f] <= Tried(e)[f]
  BY <1>1, OutboxAssumption DEF TypeOK, Tried
<1>7. ASSUME NEW q \in Pollers, ReadBatch(q) \/ Crash(q) \/ MarkPublished(q)
                \/ HandlePublishError(q) \/ HandlePublishErrorRejected(q)
      PROVE  UNCHANGED <<written, delivered, tries>>
  BY <1>7 DEF ReadBatch, Crash, MarkPublished, HandlePublishError, HandlePublishErrorRejected
<1>8. ASSUME NEW e \in Events, Append(e) \/ Elapse(e) \/ Age(e)
      PROVE  written \subseteq written' /\ UNCHANGED <<delivered, tries>>
  BY <1>8 DEF Append, Elapse, Age
<1>9. CASE CleanPublishedOutboxEvents
  BY <1>1, <1>9 DEF CleanPublishedOutboxEvents, TypeOK
<1> QED BY <1>1, <1>2, <1>3, <1>4, <1>5, <1>6, <1>7, <1>8, <1>9 DEF Next, Work, TypeOK

\* A process that did nothing is as well backed as before.
LEMMA Bystander ==
  ASSUME IInv, [Next]_vars, NEW q \in Pollers, pollers'[q] = pollers[q]
  PROVE  PollerOK(q)'
<1>1. TypeOK /\ TypeOK' /\ PollerOK(q) /\ pollers[q] \in Process
  BY TypeStep DEF IInv, TypeOK
<1>2. /\ written \subseteq written' /\ written' \subseteq Events
      /\ \A e \in Events : delivered[e] <= delivered'[e] /\ tries[e] <= tries'[e]
      /\ \A e \in Events : /\ delivered[e] \in Nat /\ delivered'[e] \in Nat
                           /\ tries[e] \in Nat /\ tries'[e] \in Nat
                           /\ pollers[q].copy[e] \in Nat
  BY <1>1, HistoryGrows DEF TypeOK, Process
<1> QED BY <1>1, <1>2 DEF PollerOK, TypeOK

\* A process without a batch is backed.
LEMMA RestingOK ==
  ASSUME TypeOK', NEW q \in Pollers, pollers'[q] = Resting
  PROVE  PollerOK(q)'
BY OutboxAssumption DEF PollerOK, Resting, TypeOK

\* So is one that goes on to its next event.
LEMMA OnwardOK ==
  ASSUME IInv, [Next]_vars, NEW q \in Pollers, Onward(q)
  PROVE  PollerOK(q)'
<1>1. TypeOK /\ TypeOK' /\ PollerOK(q) /\ pollers[q] \in Process
  BY TypeStep DEF IInv, TypeOK
<1>2. CASE pollers[q].batch = {}
  BY <1>1, <1>2, RestingOK DEF Onward, TypeOK
<1>3. CASE pollers[q].batch # {}
  <2>1. pollers'[q] = [pollers[q] EXCEPT !.step = "publish", !.current = NoEvent,
                                         !.marked = FALSE]
    BY <1>1, <1>3 DEF Onward, TypeOK
  <2>2. \A e \in Events : /\ tries[e] <= tries'[e]
                          /\ tries[e] \in Nat /\ tries'[e] \in Nat
                          /\ pollers[q].copy[e] \in Nat
    BY <1>1, HistoryGrows DEF TypeOK, Process
  <2>3. written \subseteq written'  BY HistoryGrows
  <2>4. /\ pollers'[q].batch = pollers[q].batch /\ pollers'[q].copy = pollers[q].copy
        /\ pollers'[q].step = "publish" /\ pollers'[q].marked = FALSE
    BY <1>1, <2>1 DEF Process
  <2> QED BY <1>1, <2>2, <2>3, <2>4, OutboxAssumption DEF PollerOK
<1> QED BY <1>2, <1>3

\* Every step leaves each process with memories that are backed.
LEMMA PollerStep == IInv /\ [Next]_vars => \A q \in Pollers : PollerOK(q)'
<1> SUFFICES ASSUME IInv, [Next]_vars PROVE \A q \in Pollers : PollerOK(q)'
  OBVIOUS
<1> USE OutboxAssumption
<1>1. /\ TypeOK /\ TypeOK' /\ \A q \in Pollers : PollerOK(q)
      /\ \A e \in Events : RowOK(e)
  BY TypeStep DEF IInv
<1>2. CASE UNCHANGED pollers
  BY <1>2, Bystander
<1>3. ASSUME NEW q \in Pollers, PollerOK(q)',
             \A r \in Pollers \ {q} : pollers'[r] = pollers[r]
      PROVE  \A r \in Pollers : PollerOK(r)'
  <2> TAKE r \in Pollers
  <2>1. CASE r = q  BY <1>3, <2>1
  <2>2. CASE r # q  BY <1>3, <2>2, Bystander
  <2> QED BY <2>1, <2>2
<1>4. ASSUME NEW q \in Pollers, ReadBatch(q)
      PROVE  \A r \in Pollers : PollerOK(r)'
  <2>1. PICK batch \in SUBSET {e \in Events : Eligible(e)} :
          pollers' = [pollers EXCEPT
            ![q] = [Resting EXCEPT
                      !.step = "publish", !.batch = batch,
                      !.seen = {e \in Events : Eligible(e)},
                      !.copy = [e \in Events |-> IF e \in batch THEN rows[e].retries ELSE 0]]]
    BY <1>4 DEF ReadBatch
  <2>2. /\ pollers'[q].step = "publish" /\ pollers'[q].batch = batch
        /\ pollers'[q].copy = [e \in Events |-> IF e \in batch THEN rows[e].retries ELSE 0]
        /\ pollers'[q].marked = FALSE
    BY <1>1, <2>1 DEF Resting, TypeOK
  <2>3. UNCHANGED <<written, delivered, tries>>  BY <1>4 DEF ReadBatch
  <2>4. \A e \in batch : /\ e \in written /\ rows[e].retries <= tries[e]
                         /\ rows[e].retries < MaxRetry
    BY <1>1 DEF RowOK, Eligible
  <2>5. PollerOK(q)'
    BY <1>1, <2>2, <2>3, <2>4 DEF PollerOK, TypeOK
  <2> QED BY <1>1, <1>3, <2>1, <2>5 DEF TypeOK
<1>5. ASSUME NEW q \in Pollers, Crash(q) \/ HandlePublishErrorRejected(q)
      PROVE  \A r \in Pollers : PollerOK(r)'
  <2>1. pollers' = [pollers EXCEPT ![q] = Resting]
    BY <1>5 DEF Crash, HandlePublishErrorRejected
  <2> QED BY <1>1, <1>3, <2>1, RestingOK DEF TypeOK
<1>6. ASSUME NEW q \in Pollers, NEW e \in Events, Publish(q, e) \/ Throw(q, e)
      PROVE  \A r \in Pollers : PollerOK(r)'
  <2> DEFINE p == pollers[q]
  <2>1. /\ p \in Process /\ PollerOK(q) /\ e \in p.batch /\ p.step = "publish"
        /\ ~p.marked /\ e \in written /\ UNCHANGED written
        /\ p.copy[e] \in 0..(MaxRetry - 1) /\ p.copy[e] <= tries[e]
    BY <1>1, <1>6 DEF Publish, Throw, Turn, PollerOK, TypeOK, Process
  <2>2. \A f \in Events : tries[f] <= tries'[f]  BY HistoryGrows
  <2>3. CASE Publish(q, e)
    <3>1. pollers'[q] = [p EXCEPT !.step = "mark", !.current = e, !.batch = @ \ {e}]
      BY <1>1, <2>3 DEF Publish, At, TypeOK
    <3>2. delivered'[e] > 0  BY <1>1, <2>3 DEF Publish, TypeOK
    <3>3. UNCHANGED tries  BY <2>3 DEF Publish
    <3>4. PollerOK(q)'
      BY <1>1, <2>1, <3>1, <3>2, <3>3 DEF PollerOK, TypeOK, Process
    <3> QED BY <1>1, <1>3, <2>3, <3>4 DEF Publish, At, TypeOK
  <2>4. CASE Throw(q, e)
    <3>1. pollers'[q] = [p EXCEPT !.step = "fail", !.current = e, !.batch = @ \ {e}]
      BY <1>1, <2>4 DEF Throw, At, TypeOK
    <3>2. p.copy[e] < tries'[e]
      BY <1>1, <2>1, <2>4, TriedType DEF Throw
    <3>3. \A f \in Events : p.copy[f] <= tries'[f] /\ p.copy[f] < MaxRetry
      BY <1>1, <2>1, <2>2 DEF PollerOK, TypeOK, Process
    <3>4. PollerOK(q)'
      BY <1>1, <2>1, <3>1, <3>2, <3>3 DEF PollerOK, TypeOK, Process
    <3> QED BY <1>1, <1>3, <2>4, <3>4 DEF Throw, At, TypeOK
  <2> QED BY <1>6, <2>3, <2>4
<1>7. ASSUME NEW q \in Pollers, MarkPublished(q) \/ HandlePublishError(q)
      PROVE  \A r \in Pollers : PollerOK(r)'
  <2>1. Onward(q)  BY <1>7 DEF MarkPublished, HandlePublishError
  <2>2. \A r \in Pollers \ {q} : pollers'[r] = pollers[r]
    BY <1>1, <2>1 DEF Onward, TypeOK
  <2> QED BY <1>3, <2>1, <2>2, OnwardOK
<1>8. ASSUME NEW q \in Pollers, MarkRejected(q)
      PROVE  \A r \in Pollers : PollerOK(r)'
  <2> DEFINE p == pollers[q]
             e == p.current
  <2>1. /\ p \in Process /\ PollerOK(q) /\ e \in written \ p.batch /\ delivered[e] > 0
        /\ e \in Events /\ p.copy[e] \in 0..(MaxRetry - 1) /\ p.copy[e] <= tries[e]
    BY <1>1, <1>8 DEF MarkRejected, PollerOK, TypeOK, Process
  <2>2. p.copy[e] < tries'[e]  BY <1>1, <1>8, <2>1, TriedType DEF MarkRejected
  <2>3. \A f \in Events : p.copy[f] <= tries'[f] /\ p.copy[f] < MaxRetry
    BY <1>1, <2>1, HistoryGrows DEF PollerOK, TypeOK, Process
  <2>4. pollers'[q] = [p EXCEPT !.step = "fail", !.marked = TRUE]
    BY <1>1, <1>8 DEF MarkRejected, TypeOK
  <2>5. /\ pollers'[q].step = "fail" /\ pollers'[q].batch = p.batch
        /\ pollers'[q].current = e /\ pollers'[q].copy = p.copy
    BY <2>1, <2>4 DEF Process
  <2>6. UNCHANGED <<written, delivered>>  BY <1>8 DEF MarkRejected
  <2>7. PollerOK(q)'
    BY <2>1, <2>2, <2>3, <2>5, <2>6 DEF PollerOK
  <2> QED BY <1>1, <1>3, <1>8, <2>7 DEF MarkRejected, TypeOK
<1>9. ASSUME NEW e \in Events, Append(e) \/ Elapse(e) \/ Age(e)
      PROVE  \A q \in Pollers : PollerOK(q)'
  BY <1>2, <1>9 DEF Append, Elapse, Age
<1>10. CASE CleanPublishedOutboxEvents
  BY <1>2, <1>10 DEF CleanPublishedOutboxEvents
<1> QED BY <1>2, <1>4, <1>5, <1>6, <1>7, <1>8, <1>9, <1>10 DEF Next, Work, vars

\* A row nothing was done to is as well backed as before.
LEMMA RowKept ==
  ASSUME IInv, [Next]_vars, NEW e \in Events, rows'[e] = rows[e],
         e \in written' => e \in written,
         e \notin written => delivered'[e] = delivered[e]
  PROVE  RowOK(e)'
<1>1. /\ TypeOK /\ TypeOK' /\ RowOK(e) /\ written \subseteq written'
      /\ delivered[e] <= delivered'[e] /\ tries[e] <= tries'[e]
  BY TypeStep, HistoryGrows DEF IInv
<1>2. /\ delivered[e] \in Nat /\ delivered'[e] \in Nat
      /\ tries[e] \in 0..MaxRetry /\ tries'[e] \in 0..MaxRetry
      /\ Exists(e) => rows[e].retries \in 0..MaxRetry
  BY <1>1 DEF TypeOK, Row, Exists
<1> QED BY <1>1, <1>2, OutboxAssumption DEF RowOK, Exists

\* A flush keeps the row backed when what it writes is.
LEMMA FlushOK ==
  ASSUME IInv, [Next]_vars, UNCHANGED <<written, delivered, tries>>,
         NEW e \in Events, NEW row \in Row, Flush(e, row),
         row.published # "no" => delivered[e] > 0,
         row.retries <= tries[e],
         row.failed => tries[e] = MaxRetry,
         ~row.failed => row.retries < MaxRetry
  PROVE  \A f \in Events : RowOK(f)'
<1>1. TypeOK /\ \A f \in Events : RowOK(f)  BY DEF IInv
<1> TAKE f \in Events
<1>2. CASE f # e \/ ~Exists(e)
  BY <1>1, <1>2, RowKept DEF Flush, TypeOK, Exists
<1>3. CASE f = e /\ Exists(e)
  <2>1. rows'[e] = row  BY <1>1, <1>3 DEF Flush, TypeOK, Exists
  <2> QED BY <1>1, <1>3, <2>1, NoRowAssumption DEF RowOK, Exists
<1> QED BY <1>2, <1>3

\* Every step leaves each row backed by what happened to its event.
LEMMA RowStep == IInv /\ [Next]_vars => \A e \in Events : RowOK(e)'
<1> SUFFICES ASSUME IInv, [Next]_vars PROVE \A e \in Events : RowOK(e)'
  OBVIOUS
<1> USE OutboxAssumption, NoRowAssumption
<1>1. /\ TypeOK /\ TypeOK' /\ \A q \in Pollers : PollerOK(q)
      /\ \A e \in Events : RowOK(e)
  BY TypeStep DEF IInv
<1>2. CASE UNCHANGED <<rows, written, delivered>>
  BY <1>2, RowKept
<1>3. ASSUME NEW e \in Events, Append(e)
      PROVE  \A f \in Events : RowOK(f)'
  <2> TAKE f \in Events
  <2>1. CASE f # e
    BY <1>1, <1>3, <2>1, RowKept DEF Append, TypeOK
  <2>2. CASE f = e
    <3>1. /\ rows'[e] = NewRow /\ e \in written' /\ delivered'[e] = delivered[e]
          /\ tries'[e] = tries[e] /\ tries[e] \in 0..MaxRetry
      BY <1>1, <1>3 DEF Append, TypeOK
    <3>2. NewRow # NoRow
      <4>1. NewRow \in Row  BY DEF NewRow, Row
      <4> QED BY <4>1
    <3>3. /\ NewRow.published = "no" /\ NewRow.retries = 0 /\ NewRow.failed = FALSE
      BY DEF NewRow
    <3> QED BY <2>2, <3>1, <3>2, <3>3 DEF RowOK, Exists
  <2> QED BY <2>1, <2>2
<1>4. ASSUME NEW e \in Events, Elapse(e) \/ Age(e)
      PROVE  \A f \in Events : RowOK(f)'
  <2> TAKE f \in Events
  <2>1. CASE f # e
    BY <1>1, <1>4, <2>1, RowKept DEF Elapse, Age, TypeOK
  <2>2. CASE f = e
    <3>1. rows[e] \in Row /\ rows'[e] \in Row /\ RowOK(e)
      BY <1>1, <1>4 DEF Elapse, Age, TypeOK, Exists, Row
    <3>2. /\ rows'[e].retries = rows[e].retries /\ rows'[e].failed = rows[e].failed
          /\ rows'[e].published # "no" => rows[e].published # "no"
          /\ UNCHANGED <<written, delivered, tries>>
      BY <1>1, <1>4, <3>1 DEF Elapse, Age, TypeOK, Row
    <3> QED BY <2>2, <3>1, <3>2 DEF RowOK, Exists
  <2> QED BY <2>1, <2>2
<1>5. CASE CleanPublishedOutboxEvents
  BY <1>1, <1>5 DEF CleanPublishedOutboxEvents, Expired, RowOK, Exists
<1>6. ASSUME NEW q \in Pollers, NEW e \in Events, Publish(q, e)
      PROVE  \A f \in Events : RowOK(f)'
  <2>1. e \in written  BY <1>1, <1>6 DEF Publish, Turn, PollerOK
  <2> QED BY <1>1, <1>6, <2>1, RowKept DEF Publish, TypeOK
<1>7. ASSUME NEW q \in Pollers, MarkPublished(q)
      PROVE  \A f \in Events : RowOK(f)'
  <2> DEFINE e == pollers[q].current
  <2>1. /\ e \in Events /\ delivered[e] > 0 /\ RowOK(e) /\ Flush(e, PublishedRow(q, e))
        /\ UNCHANGED <<written, delivered, tries>>
    BY <1>1, <1>7 DEF MarkPublished, PollerOK, TypeOK
  <2>2. CASE ~Exists(e)
    BY <1>1, <1>2, <2>1, <2>2 DEF Flush, TypeOK, Exists
  <2>3. CASE Exists(e)
    BY <2>1, <2>3, WrittenRows, FlushOK DEF RowOK
  <2> QED BY <2>2, <2>3
<1>8. ASSUME NEW q \in Pollers, HandlePublishError(q)
      PROVE  \A f \in Events : RowOK(f)'
  <2> DEFINE p   == pollers[q]
             e   == p.current
             row == FailedRow(q, e)
  <2>1. /\ p \in Process /\ e \in Events /\ RowOK(e) /\ Flush(e, row)
        /\ p.marked => delivered[e] > 0
        /\ p.copy[e] < tries[e] /\ p.copy[e] < MaxRetry
        /\ p.copy[e] \in Nat /\ tries[e] \in 0..MaxRetry
        /\ UNCHANGED <<written, delivered, tries>>
    BY <1>1, <1>8 DEF HandlePublishError, PollerOK, TypeOK, Process
  <2>2. CASE ~Exists(e)
    BY <1>1, <1>2, <2>1, <2>2 DEF Flush, TypeOK, Exists
  <2>3. CASE Exists(e)
    <3> HIDE DEF row
    <3>1. /\ row \in Row /\ row.retries = p.copy[e] + 1
          /\ row.published = IF p.marked THEN "fresh" ELSE rows[e].published
          /\ row.failed = (rows[e].failed \/ GivesUpAt(p.copy[e] + 1))
      BY <2>1, <2>3, WrittenRows DEF row
    <3>2. GivesUpAt(p.copy[e] + 1) => tries[e] = MaxRetry
      BY <2>1 DEF GivesUpAt
    <3>3. ~GivesUpAt(p.copy[e] + 1) => p.copy[e] + 1 < MaxRetry
      BY <2>1 DEF GivesUpAt
    <3>4. row.failed => tries[e] = MaxRetry
      BY <2>1, <2>3, <3>1, <3>2 DEF RowOK
    <3>5. ~row.failed => row.retries < MaxRetry
      BY <3>1, <3>3
    <3>6. row.published # "no" => delivered[e] > 0
      BY <2>1, <2>3, <3>1 DEF RowOK
    <3>7. row.retries <= tries[e]  BY <2>1, <3>1
    <3> QED BY <2>1, <3>1, <3>4, <3>5, <3>6, <3>7, FlushOK
  <2> QED BY <2>2, <2>3
<1>9. ASSUME NEW q \in Pollers, NEW e \in Events, Throw(q, e)
      PROVE  \A f \in Events : RowOK(f)'
  BY <1>2, <1>9 DEF Throw
<1>10. ASSUME NEW q \in Pollers, ReadBatch(q) \/ Crash(q) \/ MarkRejected(q)
                                 \/ HandlePublishErrorRejected(q)
      PROVE  \A f \in Events : RowOK(f)'
  BY <1>2, <1>10 DEF ReadBatch, Crash, MarkRejected, HandlePublishErrorRejected
<1> QED BY <1>2, <1>3, <1>4, <1>5, <1>6, <1>7, <1>8, <1>9, <1>10 DEF Next, Work, vars

(***************************************************************************)
(* Order.                                                                  *)
(***************************************************************************)
\* A process that reads nothing new, and whose batch only loses what has been
\* tried, keeps the order.
LEMMA OrderKept ==
  ASSUME IInv, [Next]_vars, NEW q \in Pollers,
         pollers'[q].seen \subseteq pollers[q].seen,
         pollers'[q].batch \subseteq pollers[q].batch,
         \A f \in pollers[q].batch \ pollers'[q].batch :
           pollers'[q].batch = {} \/ delivered'[f] > 0 \/ tries'[f] > 0
  PROVE  OrderOK(q)'
<1>1. TypeOK /\ TypeOK' /\ OrderOK(q) /\ pollers[q] \in Process
  BY TypeStep DEF IInv, TypeOK
<1>2. \A f \in Events : /\ delivered[f] > 0 => delivered'[f] > 0
                        /\ tries[f] > 0 => tries'[f] > 0
  <2> TAKE f \in Events
  <2>1. /\ delivered[f] \in Nat /\ delivered'[f] \in Nat
        /\ tries[f] \in Nat /\ tries'[f] \in Nat
    BY <1>1 DEF TypeOK
  <2> QED BY <2>1, HistoryGrows
<1> QED BY <1>1, <1>2 DEF OrderOK, Process

\* Every step keeps the order in which a batch is worked.
LEMMA OrderStep == IInv /\ [Next]_vars => \A q \in Pollers : OrderOK(q)'
<1> SUFFICES ASSUME IInv, [Next]_vars, NEW r \in Pollers PROVE OrderOK(r)'
  OBVIOUS
<1>1. /\ TypeOK /\ TypeOK' /\ pollers \in [Pollers -> Process]
      /\ OutboxAssumption
  BY TypeStep, OutboxAssumption DEF IInv, TypeOK
<1>2. CASE pollers'[r] = pollers[r]
  BY <1>2, OrderKept
<1>3. CASE pollers'[r] = Resting
  BY <1>1, <1>3, OrderKept DEF Resting
<1>4. CASE ReadBatch(r)
  <2> DEFINE eligible == {e \in Events : Eligible(e)}
  <2>1. PICK batch \in SUBSET eligible :
          /\ \A e \in batch, f \in eligible \ batch : Before(e, f)
          /\ pollers' = [pollers EXCEPT
               ![r] = [Resting EXCEPT
                         !.step = "publish", !.batch = batch, !.seen = eligible,
                         !.copy = [e \in Events |-> IF e \in batch THEN rows[e].retries ELSE 0]]]
    BY <1>4 DEF ReadBatch
  <2>2. pollers'[r].batch = batch /\ pollers'[r].seen = eligible
    BY <1>1, <2>1 DEF Resting
  <2>3. \A e \in batch, f \in eligible \ batch : ~(OccurredAt[f] < OccurredAt[e])
    BY <1>1, <2>1 DEF Before
  <2> QED BY <2>2, <2>3 DEF OrderOK
<1>5. ASSUME NEW e \in Events, Publish(r, e) \/ Throw(r, e)
      PROVE  OrderOK(r)'
  <2>1. /\ pollers'[r].batch = pollers[r].batch \ {e}
        /\ pollers'[r].seen = pollers[r].seen
    BY <1>1, <1>5 DEF Publish, Throw, At, Process
  <2>2. delivered'[e] > 0 \/ tries'[e] > 0
    <3>1. CASE Publish(r, e)
      BY <1>1, <3>1 DEF Publish, TypeOK
    <3>2. CASE Throw(r, e)
      <4>1. tries[e] \in 0..MaxRetry /\ tries' = Tried(e)
        BY <1>1, <3>2 DEF Throw, TypeOK
      <4> QED BY <1>1, <4>1, OutboxAssumption DEF Tried, TypeOK
    <3> QED BY <1>5, <3>1, <3>2
  <2> QED BY <2>1, <2>2, OrderKept
<1>6. CASE MarkRejected(r)
  <2>1. /\ pollers'[r].batch = pollers[r].batch
        /\ pollers'[r].seen = pollers[r].seen
    BY <1>1, <1>6 DEF MarkRejected, Process
  <2> QED BY <2>1, OrderKept
<1>7. CASE Onward(r)
  <2>1. CASE pollers[r].batch = {}
    BY <1>1, <1>3, <1>7, <2>1 DEF Onward
  <2>2. CASE pollers[r].batch # {}
    <3>1. /\ pollers'[r].batch = pollers[r].batch
          /\ pollers'[r].seen = pollers[r].seen
      BY <1>1, <1>7, <2>2 DEF Onward, Process
    <3> QED BY <3>1, OrderKept
  <2> QED BY <2>1, <2>2
<1>8. ASSUME NEW q \in Pollers, q # r,
             \/ ReadBatch(q) \/ Crash(q) \/ HandlePublishErrorRejected(q) \/ MarkRejected(q)
             \/ Onward(q) \/ \E e \in Events : Publish(q, e) \/ Throw(q, e)
      PROVE  pollers'[r] = pollers[r]
  BY <1>1, <1>8 DEF ReadBatch, Crash, HandlePublishErrorRejected, MarkRejected, Onward,
                    Publish, Throw, At
<1>9. CASE Crash(r) \/ HandlePublishErrorRejected(r)
  BY <1>1, <1>3, <1>9 DEF Crash, HandlePublishErrorRejected
<1>10. ASSUME NEW q \in Pollers, ReadBatch(q) \/ Work(q) \/ Crash(q)
       PROVE  OrderOK(r)'
  <2>1. CASE q = r
    BY <1>4, <1>5, <1>6, <1>7, <1>9, <1>10, <2>1 DEF Work, MarkPublished, HandlePublishError
  <2>2. CASE q # r
    BY <1>2, <1>8, <1>10, <2>2 DEF Work, MarkPublished, HandlePublishError
  <2> QED BY <2>1, <2>2
<1>11. CASE UNCHANGED pollers
  BY <1>2, <1>11
<1> QED BY <1>10, <1>11
        DEF Next, vars, Append, Elapse, Age, CleanPublishedOutboxEvents

(***************************************************************************)
(* Counting deliveries.                                                    *)
(***************************************************************************)
\* The processes about to mark an event, and those past it, are finitely many.
LEMMA Finite ==
  \A e \in Events :
    /\ IsFiniteSet(Marking(e)) /\ Cardinality(Marking(e)) \in Nat
    /\ IsFiniteSet(Past(e)) /\ Cardinality(Past(e)) \in Nat
    /\ Cardinality(Past(e)) <= Cardinality(Pollers)
<1> TAKE e \in Events
<1>1. Marking(e) \subseteq Pollers /\ Past(e) \subseteq Pollers  BY DEF Marking, Past
<1> QED BY <1>1, OutboxAssumption, FS_Subset, FS_CardinalityType

\* The same after a step.
LEMMA FiniteNext ==
  \A e \in Events :
    /\ IsFiniteSet(Marking(e)') /\ Cardinality(Marking(e)') \in Nat
    /\ IsFiniteSet(Past(e)') /\ Cardinality(Past(e)') \in Nat
<1> TAKE e \in Events
<1>1. Marking(e)' \subseteq Pollers /\ Past(e)' \subseteq Pollers  BY DEF Marking, Past
<1> QED BY <1>1, OutboxAssumption, FS_Subset, FS_CardinalityType

\* How the sizes of two sets compare that differ by an element or less.
LEMMA SmallerSet ==
  ASSUME NEW S, NEW T, NEW x, IsFiniteSet(S), IsFiniteSet(T)
  PROVE  /\ S \subseteq T => Cardinality(S) <= Cardinality(T)
         /\ S \ {x} \subseteq T => Cardinality(S) <= Cardinality(T) + 1
         /\ S \subseteq T /\ x \in T \ S => Cardinality(S) + 1 <= Cardinality(T)
<1>1. /\ IsFiniteSet(S \cup {x}) /\ IsFiniteSet(S \ {x})
      /\ x \notin S => Cardinality(S \cup {x}) = Cardinality(S) + 1
      /\ Cardinality(S \ {x}) = IF x \in S THEN Cardinality(S) - 1 ELSE Cardinality(S)
      /\ Cardinality(S) \in Nat /\ Cardinality(T) \in Nat
  BY FS_AddElement, FS_RemoveElement, FS_CardinalityType
<1>2. S \subseteq T => Cardinality(S) <= Cardinality(T)  BY FS_Subset
<1>3. S \ {x} \subseteq T => Cardinality(S \ {x}) <= Cardinality(T)  BY <1>1, FS_Subset
<1>4. S \cup {x} \subseteq T => Cardinality(S \cup {x}) <= Cardinality(T)
  BY <1>1, FS_Subset
<1> QED BY <1>1, <1>2, <1>3, <1>4

\* Whoever marks an event no longer holds it in the batch.
LEMMA MarkingIsPast ==
  ASSUME IInv, NEW e \in Events
  PROVE  Cardinality(Marking(e)) <= Cardinality(Past(e))
<1>1. Marking(e) \subseteq Past(e)  BY DEF IInv, PollerOK, Marking, Past
<1> QED BY <1>1, Finite, SmallerSet

\* No row becomes unpublished, except that of a new event.
LEMMA StillUnpublished ==
  ASSUME IInv, [Next]_vars, NEW e \in Events,
         Exists(e)', rows'[e].published = "no", delivered[e] > 0
  PROVE  Exists(e) /\ rows[e].published = "no"
<1>1. TypeOK /\ RowOK(e)  BY DEF IInv
<1>2. CASE UNCHANGED rows
  BY <1>2 DEF Exists
<1>3. ASSUME NEW f \in Events, Append(f)
      PROVE  Exists(e) /\ rows[e].published = "no"
  BY <1>1, <1>3 DEF Append, RowOK, TypeOK, Exists
<1>4. ASSUME NEW f \in Events, Elapse(f) \/ Age(f)
      PROVE  Exists(e) /\ rows[e].published = "no"
  BY <1>1, <1>4 DEF Elapse, Age, TypeOK, Exists, Row
<1>5. CASE CleanPublishedOutboxEvents
  BY <1>1, <1>5 DEF CleanPublishedOutboxEvents, TypeOK, Exists
<1>6. ASSUME NEW q \in Pollers, MarkPublished(q) \/ HandlePublishError(q)
      PROVE  Exists(e) /\ rows[e].published = "no"
  <2> DEFINE c == pollers[q].current
  <2>1. PICK row : Flush(c, row) /\ (Exists(c) => row.published \in {rows[c].published, "fresh"})
    <3>1. c \in Events
      BY <1>1, <1>6 DEF IInv, PollerOK, MarkPublished, HandlePublishError, TypeOK
    <3> QED BY <1>6, <3>1, WrittenRows DEF MarkPublished, HandlePublishError
  <2>2. c \in Events  BY <1>1, <1>6 DEF IInv, PollerOK, MarkPublished, HandlePublishError, TypeOK
  <2> QED BY <1>1, <2>1, <2>2 DEF Flush, TypeOK, Exists
<1> QED BY <1>2, <1>3, <1>4, <1>5, <1>6
        DEF Next, Work, vars, ReadBatch, Publish, Throw, MarkRejected,
            HandlePublishErrorRejected, Crash

\* A step that delivers nothing, and at which at most one process stops marking
\* and a fault is counted for it.
LEMMA QuietCount ==
  ASSUME IInv, [Next]_vars, NEW e \in Events, NEW q,
         delivered'[e] = delivered[e],
         Past(e) \subseteq Past(e)',
         \/ faults' = faults /\ (Marking(e) \subseteq Marking(e)')
         \/ faults' = faults /\ ~(Exists(e)' /\ rows'[e].published = "no")
         \/ faults' = faults + 1 /\ Marking(e) \ {q} \subseteq Marking(e)'
  PROVE  CountOK(e)'
<1>1. /\ TypeOK /\ TypeOK' /\ CountOK(e)  BY TypeStep DEF IInv
<1>2. /\ IsFiniteSet(Marking(e)) /\ IsFiniteSet(Past(e))
      /\ Cardinality(Marking(e)) \in Nat /\ Cardinality(Past(e)) \in Nat
  BY Finite
<1>3. /\ IsFiniteSet(Marking(e)') /\ IsFiniteSet(Past(e)')
      /\ Cardinality(Marking(e)') \in Nat /\ Cardinality(Past(e)') \in Nat
  BY FiniteNext
<1>4. Cardinality(Past(e)) <= Cardinality(Past(e)')
  BY <1>2, <1>3, SmallerSet
<1>5. /\ Marking(e) \subseteq Marking(e)' => Cardinality(Marking(e)) <= Cardinality(Marking(e)')
      /\ Marking(e) \ {q} \subseteq Marking(e)'
           => Cardinality(Marking(e)) <= Cardinality(Marking(e)') + 1
  BY <1>2, <1>3, SmallerSet
<1>6. faults \in Nat /\ faults' \in Nat /\ delivered[e] \in Nat
  BY <1>1, OutboxAssumption DEF TypeOK
<1>7. delivered'[e] <= faults' + Cardinality(Past(e)')
  BY <1>1, <1>2, <1>3, <1>4, <1>6 DEF CountOK
<1>8. Exists(e)' /\ rows'[e].published = "no"
        => delivered'[e] <= faults' + Cardinality(Marking(e)')
  BY <1>1, <1>2, <1>3, <1>5, <1>6, StillUnpublished DEF CountOK
<1> QED BY <1>7, <1>8 DEF CountOK

\* Every step keeps the count of deliveries.
LEMMA CountStep == IInv /\ [Next]_vars => \A e \in Events : CountOK(e)'
<1> SUFFICES ASSUME IInv, [Next]_vars, NEW f \in Events PROVE CountOK(f)'
  OBVIOUS
<1>1. /\ TypeOK /\ TypeOK' /\ \A q \in Pollers : PollerOK(q)
      /\ \A e \in Events : RowOK(e) /\ CountOK(e)
      /\ pollers \in [Pollers -> Process]
  BY TypeStep DEF IInv, TypeOK
<1>2. CASE UNCHANGED <<pollers, delivered, faults>>
  <2>1. Marking(f)' = Marking(f) /\ Past(f)' = Past(f)  BY <1>2 DEF Marking, Past
  <2> QED BY <1>2, <2>1, QuietCount
<1>3. ASSUME NEW q \in Pollers, Crash(q) \/ HandlePublishErrorRejected(q)
      PROVE  CountOK(f)'
  <2>1. /\ pollers' = [pollers EXCEPT ![q] = Resting] /\ faults' = faults + 1
        /\ UNCHANGED delivered
    BY <1>3 DEF Crash, HandlePublishErrorRejected
  <2>2. Past(f) \subseteq Past(f)' /\ Marking(f) \ {q} \subseteq Marking(f)'
    BY <1>1, <2>1 DEF Past, Marking, Resting
  <2> QED BY <2>1, <2>2, QuietCount
<1>4. ASSUME NEW q \in Pollers, MarkRejected(q)
      PROVE  CountOK(f)'
  <2>1. /\ pollers' = [pollers EXCEPT ![q].step = "fail", ![q].marked = TRUE]
        /\ faults' = faults + 1 /\ UNCHANGED delivered
    BY <1>4 DEF MarkRejected
  <2>2. Past(f) \subseteq Past(f)' /\ Marking(f) \ {q} \subseteq Marking(f)'
    BY <1>1, <2>1 DEF Past, Marking, Process
  <2> QED BY <2>1, <2>2, QuietCount
<1>5. ASSUME NEW q \in Pollers, NEW e \in Events, Throw(q, e)
      PROVE  CountOK(f)'
  <2>1. /\ pollers' = [pollers EXCEPT ![q].step = "fail", ![q].current = e, ![q].batch = @ \ {e}]
        /\ UNCHANGED <<faults, delivered>> /\ pollers[q].step = "publish"
    BY <1>5 DEF Throw, Turn, At
  <2>2. Past(f) \subseteq Past(f)' /\ Marking(f) \subseteq Marking(f)'
    BY <1>1, <2>1 DEF Past, Marking, Process
  <2> QED BY <2>1, <2>2, QuietCount
<1>6. ASSUME NEW q \in Pollers, Onward(q)
      PROVE  /\ Past(f) \subseteq Past(f)'
             /\ f # pollers[q].current \/ pollers[q].step # "mark"
                  => Marking(f) \subseteq Marking(f)'
  <2>1. \A r \in Pollers \ {q} : pollers'[r] = pollers[r]  BY <1>1, <1>6 DEF Onward
  <2>2. pollers'[q].batch \subseteq pollers[q].batch
    BY <1>1, <1>6 DEF Onward, Process, Resting
  <2> QED BY <2>1, <2>2 DEF Past, Marking
<1>7. ASSUME NEW q \in Pollers, HandlePublishError(q)
      PROVE  CountOK(f)'
  <2>1. Onward(q) /\ pollers[q].step = "fail" /\ UNCHANGED <<delivered, faults>>
    BY <1>7 DEF HandlePublishError
  <2> QED BY <1>6, <2>1, QuietCount
<1>8. ASSUME NEW q \in Pollers, MarkPublished(q)
      PROVE  CountOK(f)'
  <2> DEFINE e == pollers[q].current
  <2>1. Onward(q) /\ UNCHANGED <<delivered, faults>>
    BY <1>8 DEF MarkPublished
  <2>2. CASE f # e
    BY <1>6, <2>1, <2>2, QuietCount
  <2>3. CASE f = e
    <3>1. ~(Exists(f)' /\ rows'[f].published = "no")
      <4>1. rows'[f] = IF rows[f] = NoRow THEN NoRow ELSE PublishedRow(q, f)
        BY <1>1, <1>8, <2>3 DEF MarkPublished, Flush, TypeOK
      <4> QED BY <4>1, WrittenRows DEF Exists
    <3> QED BY <1>6, <2>1, <3>1, QuietCount
  <2> QED BY <2>2, <2>3
<1>9. /\ IsFiniteSet(Marking(f)) /\ Cardinality(Marking(f)) \in Nat
      /\ IsFiniteSet(Past(f)) /\ Cardinality(Past(f)) \in Nat
      /\ IsFiniteSet(Marking(f)') /\ Cardinality(Marking(f)') \in Nat
      /\ IsFiniteSet(Past(f)') /\ Cardinality(Past(f)') \in Nat
  BY Finite, FiniteNext
<1>10. ASSUME NEW q \in Pollers, NEW e \in Events, Publish(q, e)
      PROVE  CountOK(f)'
  <2>1. /\ pollers' = [pollers EXCEPT ![q].step = "mark", ![q].current = e, ![q].batch = @ \ {e}]
        /\ UNCHANGED <<rows, faults>> /\ delivered' = [delivered EXCEPT ![e] = @ + 1]
        /\ pollers[q].step = "publish" /\ e \in pollers[q].batch
    BY <1>10 DEF Publish, Turn, At
  <2>2. Past(f) \subseteq Past(f)' /\ Marking(f) \subseteq Marking(f)'
    BY <1>1, <2>1 DEF Past, Marking, Process
  <2>3. CASE f # e
    BY <1>1, <2>1, <2>2, <2>3, QuietCount DEF TypeOK
  <2>4. CASE f = e
    <3>1. q \in Past(f)' \ Past(f) /\ q \in Marking(f)' \ Marking(f)
      BY <1>1, <2>1, <2>4 DEF Past, Marking, Process
    <3>2. /\ Cardinality(Past(f)) + 1 <= Cardinality(Past(f)')
          /\ Cardinality(Marking(f)) + 1 <= Cardinality(Marking(f)')
      BY <1>9, <2>2, <3>1, SmallerSet
    <3>3. delivered'[f] = delivered[f] + 1 /\ delivered[f] \in Nat /\ faults \in Nat
      BY <1>1, <2>1, <2>4, OutboxAssumption DEF TypeOK
    <3> QED BY <1>1, <1>9, <2>1, <3>2, <3>3 DEF CountOK, Exists
  <2> QED BY <2>3, <2>4
<1>11. ASSUME NEW q \in Pollers, ReadBatch(q)
      PROVE  CountOK(f)'
  <2>1. PICK batch \in SUBSET {e \in Events : Eligible(e)} :
          pollers' = [pollers EXCEPT
            ![q] = [Resting EXCEPT
                      !.step = "publish", !.batch = batch,
                      !.seen = {e \in Events : Eligible(e)},
                      !.copy = [e \in Events |-> IF e \in batch THEN rows[e].retries ELSE 0]]]
    BY <1>11 DEF ReadBatch
  <2>2. /\ UNCHANGED <<rows, delivered, faults>> /\ pollers[q].step = "idle"
    BY <1>11 DEF ReadBatch
  <2>3. pollers'[q].batch = batch /\ \A r \in Pollers \ {q} : pollers'[r] = pollers[r]
    BY <1>1, <2>1 DEF Resting
  <2>4. Marking(f) \subseteq Marking(f)'  BY <2>2, <2>3 DEF Marking
  <2>5. CASE f \notin batch
    <3>1. Past(f) \subseteq Past(f)'  BY <2>3, <2>5 DEF Past
    <3> QED BY <2>2, <2>4, <3>1, QuietCount
  <2>6. CASE f \in batch
    <3>1. Exists(f) /\ rows[f].published = "no"  BY <2>6 DEF Eligible
    <3>2. Marking(f) \subseteq Past(f)'
      BY <1>1, <2>2, <2>3 DEF Marking, Past, PollerOK
    <3>3. /\ Cardinality(Marking(f)) <= Cardinality(Marking(f)')
          /\ Cardinality(Marking(f)) <= Cardinality(Past(f)')
      BY <1>9, <2>4, <3>2, SmallerSet
    <3>4. delivered[f] \in Nat /\ faults \in Nat
      BY <1>1, OutboxAssumption DEF TypeOK
    <3> QED BY <1>1, <1>9, <2>2, <3>1, <3>3, <3>4 DEF CountOK, Exists
  <2> QED BY <2>5, <2>6
<1>12. ASSUME NEW e \in Events, Append(e) \/ Elapse(e) \/ Age(e)
      PROVE  CountOK(f)'
  BY <1>2, <1>12 DEF Append, Elapse, Age
<1>13. CASE CleanPublishedOutboxEvents
  BY <1>2, <1>13 DEF CleanPublishedOutboxEvents
<1> QED BY <1>2, <1>3, <1>4, <1>5, <1>7, <1>8, <1>10, <1>11, <1>12, <1>13
        DEF Next, Work, vars

(***************************************************************************)
(* The theorems.                                                           *)
(***************************************************************************)
\* An empty outbox with resting processes satisfies the invariant.
LEMMA InitInv == Init => IInv
<1> SUFFICES ASSUME Init PROVE IInv
  OBVIOUS
<1> USE OutboxAssumption
<1>1. Resting \in Process  BY DEF Resting, Process
<1>2. TypeOK  BY <1>1 DEF Init, TypeOK
<1>3. \A e \in Events : RowOK(e)  BY DEF Init, RowOK, Exists
<1>4. \A q \in Pollers : PollerOK(q)  BY DEF Init, PollerOK, Resting
<1>5. ASSUME NEW e \in Events PROVE CountOK(e)
  <2>1. delivered[e] = 0 /\ faults = 0 /\ ~Exists(e)  BY DEF Init, Exists
  <2> QED BY <2>1, Finite DEF CountOK
<1>6. \A q \in Pollers : OrderOK(q)  BY DEF Init, OrderOK, Resting
<1> QED BY <1>2, <1>3, <1>4, <1>5, <1>6 DEF IInv

\* Rows, the memories of the processes and the histories stay in step, whatever
\* crashes, fails to flush or is read twice.
THEOREM Invariance == Spec => []IInv
<1>1. IInv /\ [Next]_vars => IInv'
  BY TypeStep, RowStep, PollerStep, OrderStep, CountStep DEF IInv
<1> QED BY <1>1, InitInv, PTL DEF Spec

\* Every reachable state of the outbox is well typed: in particular no count of
\* retries passes maxRetryCount, though processes write each other's over.
THEOREM TypeCorrect == Spec => []TypeOK
<1>1. IInv => TypeOK  BY DEF IInv
<1> QED BY <1>1, Invariance, PTL

\* No event is given up before all its attempts have failed, for any number of
\* processes, crashes and failed flushes.
THEOREM NeverGivenUpEarly == Spec => []GivenUpAfterAllTries
<1>1. IInv => GivenUpAfterAllTries
  BY OutboxAssumption DEF IInv, RowOK, GivenUpAfterAllTries, TypeOK
<1> QED BY <1>1, Invariance, PTL

\* An event is delivered at most once per process and once more per crash or
\* failed flush, for any numbers of them and any size of a batch.
THEOREM BoundedRepeats == Spec => []RepeatsHaveACause
<1>1. IInv => RepeatsHaveACause
  <2> SUFFICES ASSUME IInv, NEW e \in Events
               PROVE  delivered[e] <= Cardinality(Pollers) + faults
    BY DEF RepeatsHaveACause
  <2>1. /\ delivered[e] \in Nat /\ faults \in Nat /\ CountOK(e)
        /\ Cardinality(Pollers) \in Nat
    BY OutboxAssumption, FS_CardinalityType DEF IInv, TypeOK
  <2> QED BY <2>1, Finite DEF CountOK
<1> QED BY <1>1, Invariance, PTL

\* No event is published before an earlier one its process read with it, unless
\* an attempt on the earlier one has failed or it was delivered already.
THEOREM NoOvertaking == Spec => OvertakesOnlyFailing
<1>1. ASSUME IInv, [Next]_vars, NEW q \in Pollers, NEW e \in Events,
             Turn(q, e), NEW f \in pollers[q].seen, OccurredAt[f] < OccurredAt[e]
      PROVE  delivered[f] > 0 \/ tries[f] > 0
  <2>1. OrderOK(q) /\ f \in Events
    BY <1>1 DEF IInv, TypeOK, Process
  <2>2. OccurredAt[f] \in Nat /\ OccurredAt[e] \in Nat
    BY <2>1, OutboxAssumption
  <2>3. f \notin pollers[q].batch
    BY <1>1, <2>2 DEF Turn, Before
  <2> QED BY <1>1, <2>1, <2>3 DEF OrderOK, Turn
<1>2. IInv /\ [Next]_vars
        => [\A q \in Pollers, e \in Events :
              Turn(q, e) /\ delivered'[e] > delivered[e] =>
                \A f \in pollers[q].seen :
                  OccurredAt[f] < OccurredAt[e] => delivered[f] > 0 \/ tries[f] > 0]_vars
  BY <1>1
<1> QED BY <1>2, Invariance, PTL DEF Spec, OvertakesOnlyFailing

(***************************************************************************)
(* The outbox implements Delivery.                                         *)
(***************************************************************************)
\* A step at which one event at most changes its outcome, along the promised
\* moves, and nothing is delivered.
LEMMA OneMoves ==
  ASSUME IInv, NEW e \in Events, UNCHANGED delivered,
         \A f \in Events \ {e} : Outcome(f)' = Outcome(f),
         \/ Outcome(e)' = Outcome(e)
         \/ Outcome(e) = "unwritten" /\ Outcome(e)' = "pending"
         \/ Outcome(e) = "pending" /\ Outcome(e)' = "failed"
         \/ /\ Outcome(e) \in {"pending", "failed"} /\ Outcome(e)' = "published"
            /\ delivered[e] > 0
  PROVE  [Promise!Next]_<<[f \in Events |-> Outcome(f)], delivered>>
<1> DEFINE outcome == [f \in Events |-> Outcome(f)]
<1> USE DEF Promise!Next, Promise!Write, Promise!Deliver, Promise!Settle, Promise!GiveUp
<1>1. outcome' = [f \in Events |-> Outcome(f)']  OBVIOUS
<1>2. outcome' = [outcome EXCEPT ![e] = Outcome(e)']  BY <1>1
<1> HIDE DEF outcome
<1>3. outcome[e] = Outcome(e)  BY DEF outcome
<1>4. CASE Outcome(e)' = Outcome(e)
  BY <1>4, <1>1 DEF outcome
<1>5. CASE Outcome(e) = "unwritten" /\ Outcome(e)' = "pending"
  <2>1. Promise!Write(e)  BY <1>2, <1>3, <1>5 DEF outcome
  <2> QED BY <2>1
<1>6. CASE Outcome(e) = "pending" /\ Outcome(e)' = "failed"
  <2>1. Promise!GiveUp(e)  BY <1>2, <1>3, <1>6 DEF outcome
  <2> QED BY <2>1
<1>7. CASE /\ Outcome(e) \in {"pending", "failed"} /\ Outcome(e)' = "published"
           /\ delivered[e] > 0
  <2>1. Promise!Settle(e)  BY <1>2, <1>3, <1>7 DEF outcome
  <2> QED BY <2>1
<1> QED BY <1>4, <1>5, <1>6, <1>7

\* Every step of the outbox is a promised step, or none.
LEMMA StepRefines ==
  IInv /\ [Next]_vars
    => [Promise!Next]_<<[e \in Events |-> Outcome(e)], delivered>>
<1> SUFFICES ASSUME IInv, [Next]_vars
             PROVE  [Promise!Next]_<<[e \in Events |-> Outcome(e)], delivered>>
  OBVIOUS
<1>1. /\ TypeOK /\ \A q \in Pollers : PollerOK(q)
      /\ \A e \in Events : RowOK(e)
  BY DEF IInv
<1>2. ASSUME UNCHANGED delivered, \A e \in Events : Outcome(e)' = Outcome(e)
      PROVE  [Promise!Next]_<<[e \in Events |-> Outcome(e)], delivered>>
  BY <1>2
<1>3. CASE UNCHANGED <<rows, written, delivered>>
  BY <1>2, <1>3 DEF Outcome, Exists
<1>4. ASSUME NEW e \in Events, Append(e)
      PROVE  [Promise!Next]_<<[f \in Events |-> Outcome(f)], delivered>>
  <2>1. UNCHANGED delivered /\ e \notin written /\ written' = written \cup {e}
    BY <1>4 DEF Append
  <2>2. rows'[e] = NewRow /\ \A f \in Events \ {e} : rows'[f] = rows[f]
    BY <1>1, <1>4 DEF Append, TypeOK
  <2>3. NewRow # NoRow
    <3>1. NewRow \in Row  BY OutboxAssumption DEF NewRow, Row
    <3> QED BY <3>1, NoRowAssumption
  <2>4. Outcome(e) = "unwritten" /\ Outcome(e)' = "pending"
    BY <2>1, <2>2, <2>3 DEF Outcome, Exists, NewRow
  <2>5. \A f \in Events \ {e} : Outcome(f)' = Outcome(f)
    BY <2>1, <2>2 DEF Outcome, Exists
  <2> QED BY <2>1, <2>4, <2>5, OneMoves
<1>5. ASSUME NEW e \in Events, Elapse(e) \/ Age(e)
      PROVE  [Promise!Next]_<<[f \in Events |-> Outcome(f)], delivered>>
  <2>1. UNCHANGED <<written, delivered>>  BY <1>5 DEF Elapse, Age
  <2>2. \A f \in Events \ {e} : rows'[f] = rows[f]
    BY <1>1, <1>5 DEF Elapse, Age, TypeOK
  <2>3. /\ Exists(e) /\ rows[e] \in Row /\ rows'[e] \in Row
        /\ rows'[e].failed = rows[e].failed
        /\ rows'[e].published = "no" <=> rows[e].published = "no"
    BY <1>1, <1>5 DEF Elapse, Age, TypeOK, Exists, Row
  <2>4. \A f \in Events : Outcome(f)' = Outcome(f)
    BY <2>1, <2>2, <2>3, NoRowAssumption DEF Outcome, Exists
  <2> QED BY <1>2, <2>1, <2>4
<1>6. CASE CleanPublishedOutboxEvents
  <2>1. UNCHANGED <<written, delivered>>
    BY <1>6 DEF CleanPublishedOutboxEvents
  <2>2. \A e \in Events : rows'[e] = rows[e] \/ (rows'[e] = NoRow /\ Expired(e))
    BY <1>6 DEF CleanPublishedOutboxEvents
  <2>3. \A e \in Events : Outcome(e)' = Outcome(e)
    BY <2>1, <2>2 DEF Outcome, Exists, Expired
  <2> QED BY <1>2, <2>1, <2>3
<1>7. ASSUME NEW q \in Pollers, NEW e \in Events, Publish(q, e)
      PROVE  [Promise!Next]_<<[f \in Events |-> Outcome(f)], delivered>>
  <2>1. /\ e \in written /\ UNCHANGED <<rows, written>>
        /\ delivered' = [delivered EXCEPT ![e] = @ + 1]
    BY <1>1, <1>7 DEF Publish, Turn, PollerOK
  <2>2. Outcome(e) # "unwritten" /\ \A f \in Events : Outcome(f)' = Outcome(f)
    BY <2>1 DEF Outcome, Exists
  <2>3. Promise!Deliver(e)  BY <2>1, <2>2 DEF Promise!Deliver
  <2> QED BY <2>3 DEF Promise!Next
<1>8. ASSUME NEW q \in Pollers, MarkPublished(q) \/ HandlePublishError(q)
      PROVE  [Promise!Next]_<<[f \in Events |-> Outcome(f)], delivered>>
  <2> DEFINE p == pollers[q]
  <2>0. PICK e \in Events : e = p.current
    BY <1>1, <1>8 DEF MarkPublished, HandlePublishError, PollerOK, TypeOK
  <2>1. /\ UNCHANGED <<written, delivered>> /\ e \in written
        /\ p.step = "mark" \/ p.marked => delivered[e] > 0
    BY <1>1, <1>8, <2>0 DEF MarkPublished, HandlePublishError, PollerOK
  <2>2. \A f \in Events \ {e} : rows'[f] = rows[f]
    BY <1>1, <1>8, <2>0 DEF MarkPublished, HandlePublishError, Flush, TypeOK
  <2>3. \A f \in Events \ {e} : Outcome(f)' = Outcome(f)
    BY <2>1, <2>2 DEF Outcome, Exists
  <2>4. CASE ~Exists(e)
    <3>1. rows'[e] = NoRow
      BY <1>1, <1>8, <2>0, <2>4 DEF MarkPublished, HandlePublishError, Flush, TypeOK, Exists
    <3>2. Outcome(e)' = Outcome(e)  BY <2>1, <2>4, <3>1 DEF Outcome, Exists
    <3> QED BY <1>2, <2>1, <2>3, <3>2
  <2>5. CASE MarkPublished(q) /\ Exists(e)
    <3>1. rows'[e] = PublishedRow(q, e) /\ p.step = "mark"
      BY <1>1, <2>0, <2>5 DEF MarkPublished, Flush, TypeOK, Exists
    <3>2. Outcome(e)' = "published"
      BY <2>1, <2>5, <3>1, WrittenRows, NoRowAssumption DEF Outcome, Exists
    <3>3. Outcome(e) \in {"pending", "failed", "published"}
      BY <2>1 DEF Outcome
    <3> QED BY <2>1, <2>3, <3>1, <3>2, <3>3, OneMoves
  <2>6. CASE HandlePublishError(q) /\ Exists(e)
    <3>1. rows'[e] = FailedRow(q, e) /\ rows'[e] # NoRow
      BY <1>1, <2>0, <2>6, WrittenRows, NoRowAssumption
         DEF HandlePublishError, Flush, TypeOK, Exists
    <3>2. /\ rows'[e].published = IF p.marked THEN "fresh" ELSE rows[e].published
          /\ rows[e].failed => rows'[e].failed
      BY <2>6, <3>1, WrittenRows
    <3>3. CASE Outcome(e) = "published"
      BY <1>2, <2>1, <2>3, <2>6, <3>1, <3>2, <3>3 DEF Outcome, Exists
    <3>4. CASE Outcome(e) # "published"
      <4>1. /\ rows[e].published = "no"
            /\ Outcome(e) = IF rows[e].failed THEN "failed" ELSE "pending"
        BY <2>1, <2>6, <3>4 DEF Outcome
      <4>2. Outcome(e)' = IF p.marked THEN "published"
                          ELSE IF rows'[e].failed THEN "failed" ELSE "pending"
        BY <2>1, <3>1, <3>2, <4>1 DEF Outcome, Exists
      <4> QED BY <2>1, <2>3, <3>2, <4>1, <4>2, OneMoves
    <3> QED BY <3>3, <3>4
  <2> QED BY <1>8, <2>4, <2>5, <2>6
<1>9. ASSUME NEW q \in Pollers, \/ \E e \in Events : Throw(q, e)
                                \/ ReadBatch(q) \/ Crash(q) \/ MarkRejected(q)
                                \/ HandlePublishErrorRejected(q)
      PROVE  UNCHANGED <<rows, written, delivered>>
  BY <1>9 DEF Throw, ReadBatch, Crash, MarkRejected, HandlePublishErrorRejected
<1> QED BY <1>3, <1>4, <1>5, <1>6, <1>7, <1>8, <1>9 DEF Next, Work, vars

\* The outbox keeps its promise: what was written is delivered before it counts
\* as published or is deleted, or is given up in the open, and nothing else is
\* delivered; whatever crashes, overlaps or fails.
THEOREM Refinement == Spec => DeliverySpec
<1>1. Init => Promise!Init  BY DEF Init, Promise!Init, Outcome
<1> QED BY <1>1, StepRefines, Invariance, PTL DEF Spec, DeliverySpec, Promise!Spec
=============================================================================
