------------------------- MODULE NotificationProofs -------------------------
(***************************************************************************)
(* Theorems about the delivery of notifications, for any keys, windows and *)
(* clock, and any number of notifications, runs, deliveries and crashes.   *)
(*                                                                         *)
(* What any step does to a row is one of four moves (Move): the row stays, *)
(* begins, goes, or changes its status the way the aggregate allows or by  *)
(* a save over a newer status.  What runs of the command and of the relay  *)
(* remember of rows survives every move.                                   *)
(***************************************************************************)
EXTENDS Notification, TLAPS

(***************************************************************************)
(* The inductive invariant.                                                *)
(***************************************************************************)
RowOK(n) ==
  /\ row[n] = None => sends[n] = 0 /\ job[n] = "none"
  /\ Exists(n) /\ n \notin overwritten =>
        /\ job[n] \in {"sending"} \cup Outcomes => row[n].status = "SENDING"
        /\ job[n] = "loaded" => row[n].status \in {"QUEUED", "EXPIRED"}
        /\ job[n] = "expiring" => row[n].status \in {"PENDING", "QUEUED", "EXPIRED"}
        /\ row[n].status = "SENDING" /\ job[n] # "sending" => sends[n] <= row[n].attempts + 1
        /\ row[n].status # "SENDING" \/ job[n] = "sending" => sends[n] <= row[n].attempts
  /\ Exists(n) /\ job[n] \in InWork => row[n].status # "DEDUPED"

\* A relay that will save found its notification pending.
RelayOK(r) ==
  /\ relay[r].pc \in {"add", "save"} => relay[r].id \in Ids /\ row[relay[r].id] # None
  /\ relay[r].pc = "save" => relay[r].pending
  /\ (relay[r].pc \in {"add", "save"} /\ relay[r].pending /\ Exists(relay[r].id))
        => row[relay[r].id].status # "DEDUPED"

\* What a run of the command has seen and let pass is over.
Dead == {"FAILED", "DEDUPED", "EXPIRED"}
IssueOK(c) ==
  /\ \A n \in issuing[c].seen : row[n] # None
  /\ (issuing[c].pc = "save" /\ ~issuing[c].dup) =>
        \A n \in issuing[c].seen : Exists(n) => n \in overwritten \/ row[n].status \in Dead

IInv ==
  /\ TypeOK
  /\ OncePerWindow
  /\ \A n \in Ids : RowOK(n)
  /\ \A r \in Relays : RelayOK(r)
  /\ \A c \in Issuers : IssueOK(c)

(***************************************************************************)
(* The moves of a row.                                                     *)
(***************************************************************************)
Begins(n) == row[n] = None /\ row'[n] \in Notification /\ row'[n].attempts = 0
Changes(n) ==
  /\ Exists(n) /\ row'[n] \in Notification
  /\ row'[n].key = row[n].key /\ row'[n].created = row[n].created
  /\ row'[n].status # "DEDUPED"
  /\ n \in overwritten' \/ row[n].status \notin Dead
Move(n) ==
  \/ row'[n] = row[n]
  \/ Begins(n)
  \/ Exists(n) /\ row'[n] = Gone
  \/ Changes(n)
Moves == /\ \A n \in Ids : Move(n)
         /\ overwritten \subseteq overwritten' /\ raced \subseteq raced'

LEMMA RowFacts ==
  ASSUME TypeOK, NEW n \in Ids
  PROVE  /\ Exists(n) <=> row[n] \in Notification
         /\ row[n] \in Notification \cup {None, Gone}
         /\ None \notin Notification /\ Gone \notin Notification /\ None # Gone
BY NoRows DEF TypeOK, Exists

\* A row that will be there is there now, or begins.
LEMMA MoveBack ==
  ASSUME TypeOK, NEW n \in Ids, Move(n), Exists(n)'
  PROVE  \/ Begins(n)
         \/ /\ Exists(n) /\ row'[n].key = row[n].key /\ row'[n].created = row[n].created
            /\ row[n].status \in Dead => n \in overwritten' \/ row'[n].status \in Dead
            /\ row'[n].status = "DEDUPED" => row[n].status = "DEDUPED"
BY RowFacts, NoRows DEF Move, Changes, Begins, Exists

LEMMA IssueKept ==
  ASSUME IInv, Moves, NEW c \in Issuers, issuing'[c] = issuing[c]
  PROVE  IssueOK(c)'
<1>0. /\ TypeOK /\ IssueOK(c) /\ issuing[c].seen \subseteq Ids
      /\ \A n \in Ids : Move(n)
      /\ overwritten \subseteq overwritten'
  BY DEF IInv, TypeOK, Moves
<1>1. ASSUME NEW n \in issuing[c].seen
      PROVE  row'[n] # None
  <2>1. row[n] # None /\ Move(n) /\ n \in Ids
    BY <1>0 DEF IssueOK
  <2> QED BY <1>0, <2>1, RowFacts, NoRows DEF Move, Changes, Begins
<1>2. ASSUME issuing[c].pc = "save", ~issuing[c].dup, NEW n \in issuing[c].seen, Exists(n)'
      PROVE  n \in overwritten' \/ row'[n].status \in Dead
  <2>1. row[n] # None /\ Move(n) /\ n \in Ids
    BY <1>0 DEF IssueOK
  <2>2. /\ Exists(n)
        /\ row[n].status \in Dead => n \in overwritten' \/ row'[n].status \in Dead
    BY <1>0, <1>2, <2>1, MoveBack DEF Begins
  <2> QED BY <1>0, <1>2, <2>2 DEF IssueOK
<1> QED BY <1>1, <1>2 DEF IssueOK

LEMMA RelayKept ==
  ASSUME IInv, Moves, NEW r \in Relays, relay'[r] = relay[r]
  PROVE  RelayOK(r)'
<1>1. TypeOK /\ RelayOK(r)
  BY DEF IInv
<1>2. CASE relay[r].pc \in {"add", "save"}
  <2>1. relay[r].id \in Ids /\ row[relay[r].id] # None /\ Move(relay[r].id)
    BY <1>1, <1>2 DEF RelayOK, Moves
  <2>2. row'[relay[r].id] # None
    BY <1>1, <2>1, RowFacts, NoRows DEF Move, Changes, Begins
  <2>3. Exists(relay[r].id)' =>
          Exists(relay[r].id) /\ (row'[relay[r].id].status = "DEDUPED" => row[relay[r].id].status = "DEDUPED")
    BY <1>1, <2>1, MoveBack DEF Begins
  <2> QED BY <1>1, <1>2, <2>1, <2>2, <2>3 DEF RelayOK, Exists
<1>3. CASE relay[r].pc \notin {"add", "save"}
  BY <1>3 DEF RelayOK
<1> QED BY <1>2, <1>3

\* Two rows that were there keep the window between them.
LEMMA PairKept ==
  ASSUME IInv, Moves, NEW n \in Ids, NEW k \in Ids, n # k, ~Begins(n), ~Begins(k),
         Exists(n)', Exists(k)',
         {row'[n].status, row'[k].status} \subseteq {"PENDING", "QUEUED", "SENDING", "SENT"},
         row'[n].key = row'[k].key, row'[n].key # NoKey,
         row'[n].created <= row'[k].created, row'[k].created <= row'[n].created + Window
  PROVE  {n, k} \cap (raced' \cup overwritten') # {}
<1>1. /\ TypeOK /\ OncePerWindow /\ Move(n) /\ Move(k)
      /\ overwritten \subseteq overwritten' /\ raced \subseteq raced'
  BY DEF IInv, Moves
<1>2. /\ Exists(n) /\ row'[n].key = row[n].key /\ row'[n].created = row[n].created
      /\ row[n].status \in Dead => n \in overwritten' \/ row'[n].status \in Dead
  BY <1>1, MoveBack
<1>3. /\ Exists(k) /\ row'[k].key = row[k].key /\ row'[k].created = row[k].created
      /\ row[k].status \in Dead => k \in overwritten' \/ row'[k].status \in Dead
  BY <1>1, MoveBack
<1>4. row[n].status \in Statuses /\ row[k].status \in Statuses
  BY <1>1, <1>2, <1>3, RowFacts DEF Notification
<1>5. CASE row[n].status \in Dead
  BY <1>2, <1>5 DEF Dead
<1>6. CASE row[k].status \in Dead
  BY <1>3, <1>6 DEF Dead
<1>7. CASE row[n].status \notin Dead /\ row[k].status \notin Dead
  <2>1. {row[n].status, row[k].status} \subseteq {"PENDING", "QUEUED", "SENDING", "SENT"}
    BY <1>4, <1>7 DEF Statuses, Dead
  <2>2. {n, k} \cap (raced \cup overwritten) # {}
    BY <1>1, <1>2, <1>3, <2>1 DEF OncePerWindow
  <2> QED BY <1>1, <2>2
<1> QED BY <1>5, <1>6, <1>7

LEMMA WindowKept ==
  ASSUME IInv, Moves, \A n \in Ids : ~Begins(n)
  PROVE  OncePerWindow'
BY PairKept DEF OncePerWindow

(***************************************************************************)
(* Steps that leave the rows alone.                                        *)
(***************************************************************************)
LEMMA StillMoves ==
  ASSUME UNCHANGED <<row, raced, overwritten>>
  PROVE  Moves /\ (TypeOK => \A n \in Ids : ~Begins(n))
<1>1. TypeOK => \A n \in Ids : ~Begins(n)
  BY RowFacts DEF Begins
<1> QED BY <1>1 DEF Moves, Move

\* A step that leaves the rows alone, and the runs of the command and the relay.
LEMMA WorkerOnly ==
  ASSUME IInv, UNCHANGED <<row, raced, overwritten, issuing, relay>>, TypeOK',
         \A n \in Ids : RowOK(n)'
  PROVE  IInv'
<1>1. Moves /\ \A n \in Ids : ~Begins(n)
  BY StillMoves DEF IInv
<1>2. \A r \in Relays : RelayOK(r)'
  BY <1>1, RelayKept
<1>3. \A c \in Issuers : IssueOK(c)'
  BY <1>1, IssueKept
<1> QED BY <1>1, <1>2, <1>3, WindowKept DEF IInv

LEMMA TickKeeps ==
  ASSUME IInv, Tick
  PROVE  IInv'
<1>1. TypeOK'
  BY DEF IInv, TypeOK, Tick, histories
<1>2. \A n \in Ids : RowOK(n)'
  BY DEF IInv, RowOK, Exists, Tick, histories
<1> QED BY <1>1, <1>2, WorkerOnly DEF Tick, histories

\* The worker's steps that do not save.
LEMMA TakeKeeps ==
  ASSUME IInv, NEW n \in Ids, Take(n)
  PROVE  IInv'
<1>0. TypeOK
  BY DEF IInv
<1>1. PICK s \in {"expiring", "over", "loaded"} :
         /\ Job(n, s)
         /\ s = "expiring" => Exists(n) /\ CanTransition(row[n].status, "EXPIRED")
         /\ s = "loaded" => Exists(n) /\ CanTransition(row[n].status, "SENDING")
  <2>1. CASE ~Exists(n)
    BY <2>1 DEF Take
  <2>2. CASE Exists(n) /\ row[n].status \in Terminal
    BY <2>2 DEF Take
  <2>3. CASE Exists(n) /\ row[n].status \notin Terminal /\ IsExpired(row[n])
    BY <2>3 DEF Take
  <2>4. CASE Exists(n) /\ row[n].status \notin Terminal /\ ~IsExpired(row[n])
    BY <2>4 DEF Take
  <2> QED BY <2>1, <2>2, <2>3, <2>4
<1>2. /\ job[n] = "waiting" /\ job'[n] = s
      /\ \A k \in Ids \ {n} : job'[k] = job[k]
      /\ job' \in [Ids -> {"none", "waiting", "over"} \cup InWork]
  BY <1>0, <1>1 DEF Take, Job, TypeOK, InWork
<1>3. TypeOK'
  BY <1>0, <1>2 DEF TypeOK, Take, histories
<1>4. s \in {"expiring", "loaded"} => row[n].status \in Statuses
  BY <1>0, <1>1, RowFacts DEF Notification
<1>5. /\ s = "expiring" => row[n].status \in {"PENDING", "QUEUED"}
      /\ s = "loaded" => row[n].status = "QUEUED"
  BY <1>1, <1>4 DEF CanTransition, AllowedTransitions, Statuses
<1>6. RowOK(n)'
  BY <1>1, <1>2, <1>5 DEF IInv, RowOK, Exists, Take, histories, Outcomes, InWork
<1>7. \A k \in Ids \ {n} : RowOK(k)'
  BY <1>2 DEF IInv, RowOK, Exists, Take, histories
<1> QED BY <1>3, <1>6, <1>7, WorkerOnly DEF Take, histories

LEMMA DispatchKeeps ==
  ASSUME IInv, NEW n \in Ids, Dispatch(n)
  PROVE  IInv'
<1>0. TypeOK
  BY DEF IInv
<1>1. PICK o \in Outcomes : Job(n, o)
  BY DEF Dispatch
<1>2. /\ job[n] = "sending" /\ job'[n] = o /\ sends'[n] = sends[n] + 1
      /\ \A k \in Ids \ {n} : job'[k] = job[k] /\ sends'[k] = sends[k]
      /\ job' \in [Ids -> {"none", "waiting", "over"} \cup InWork]
      /\ sends' \in [Ids -> Nat]
  BY <1>0, <1>1 DEF Dispatch, Job, TypeOK, InWork
<1>3. TypeOK'
  BY <1>0, <1>2 DEF TypeOK, Dispatch
<1>4. RowOK(n)'
  <2>1. Exists(n) => row[n].attempts \in Nat
    BY <1>0, RowFacts DEF Notification
  <2> QED BY <1>0, <1>2, <2>1 DEF IInv, RowOK, Exists, Dispatch, Outcomes, InWork, TypeOK
<1>5. \A k \in Ids \ {n} : RowOK(k)'
  BY <1>2 DEF IInv, RowOK, Exists, Dispatch
<1> QED BY <1>3, <1>4, <1>5, WorkerOnly DEF Dispatch

LEMMA FinishKeeps ==
  ASSUME IInv, NEW n \in Ids, Finish(n)
  PROVE  IInv'
<1>0. TypeOK
  BY DEF IInv
<1>1. /\ job[n] = "recorded" /\ job'[n] = "over"
      /\ \A k \in Ids \ {n} : job'[k] = job[k]
      /\ job' \in [Ids -> {"none", "waiting", "over"} \cup InWork]
  BY <1>0 DEF Finish, Job, TypeOK
<1>2. TypeOK'
  BY <1>0, <1>1 DEF TypeOK, Finish, histories
<1>3. \A k \in Ids : RowOK(k)'
  BY <1>1 DEF IInv, RowOK, Exists, Finish, histories, Outcomes, InWork
<1> QED BY <1>2, <1>3, WorkerOnly DEF Finish, histories

LEMMA CrashKeeps ==
  ASSUME IInv, Crash
  PROVE  IInv'
<1>0. TypeOK
  BY DEF IInv
<1>1. \A n \in Ids : \/ job[n] \notin InWork /\ job'[n] = job[n]
                     \/ job[n] \in InWork /\ job'[n] \in {"waiting", "over"}
  BY <1>0 DEF Crash, TypeOK
<1>2. TypeOK'
  <2>1. job' \in [Ids -> {"none", "waiting", "over"} \cup InWork]
    BY <1>0 DEF Crash, TypeOK
  <2>2. stalls' \in [Ids -> {0, 1}]
    BY <1>0 DEF Crash, TypeOK
  <2> QED BY <1>0, <2>1, <2>2 DEF TypeOK, Crash, histories
<1>3. ASSUME NEW n \in Ids
      PROVE  RowOK(n)'
  <2>0. RowOK(n) /\ UNCHANGED <<row, sends, overwritten>>
    BY DEF IInv, Crash, histories
  <2>1. CASE job'[n] = job[n]
    BY <2>0, <2>1 DEF RowOK, Exists
  <2>2. CASE job[n] \in InWork /\ job'[n] \in {"waiting", "over"}
    <3>1. row[n] # None
      BY <2>0, <2>2 DEF RowOK, InWork, Outcomes
    <3>2. Exists(n) => row[n].attempts \in Nat /\ sends[n] \in Nat
      BY <1>0, RowFacts DEF Notification, TypeOK
    <3> QED BY <2>0, <2>2, <3>1, <3>2 DEF RowOK, Exists, InWork, Outcomes
  <2> QED BY <1>1, <2>1, <2>2
<1> QED BY <1>2, <1>3, WorkerOnly DEF Crash, histories

(***************************************************************************)
(* The command.                                                            *)
(***************************************************************************)
IssueRecord == [pc: {"idle", "check", "save"}, key: Keys \cup {NoKey}, time: Nat,
                left: Nat, seen: SUBSET Ids, dup: BOOLEAN]

\* A step of one run of the command that leaves the rows alone.
LEMMA CommandOnly ==
  ASSUME IInv, NEW c \in Issuers, NEW rec \in IssueRecord, Issuing(c, rec), IssueOK(c)',
         UNCHANGED <<now, row, deliveries, relay, job, stalls, crashes, histories>>
  PROVE  IInv'
<1>0. TypeOK
  BY DEF IInv
<1>1. /\ issuing' \in [Issuers -> IssueRecord]
      /\ \A d \in Issuers \ {c} : issuing'[d] = issuing[d]
  BY <1>0 DEF Issuing, TypeOK, IssueRecord
<1>2. TypeOK'
  BY <1>0, <1>1 DEF TypeOK, histories, IssueRecord
<1>3. Moves /\ \A n \in Ids : ~Begins(n)
  BY <1>0, StillMoves DEF histories
<1>4. \A d \in Issuers : IssueOK(d)'
  BY <1>1, <1>3, IssueKept
<1>5. \A r \in Relays : RelayOK(r)'
  BY <1>3, RelayKept
<1>6. \A n \in Ids : RowOK(n)'
  BY DEF IInv, RowOK, Exists, histories
<1> QED BY <1>2, <1>3, <1>4, <1>5, <1>6, WindowKept DEF IInv

LEMMA BeginKeeps ==
  ASSUME IInv, NEW c \in Issuers, NEW k \in Keys \cup {NoKey}, NEW t \in 1..MaxTargets,
         BeginIssue(c, k, t)
  PROVE  IInv'
<1> DEFINE rec == [pc |-> "check", key |-> k, time |-> now, left |-> t, seen |-> {}, dup |-> FALSE]
<1>1. rec \in IssueRecord
  BY NotificationAssumption DEF IssueRecord, IInv, TypeOK
<1>2. Issuing(c, rec)
  BY DEF BeginIssue
<1>3. issuing'[c] = rec /\ rec.pc # "save" /\ rec.seen = {}
  BY <1>2 DEF Issuing, IInv, TypeOK
<1>4. IssueOK(c)'
  BY <1>3 DEF IssueOK
<1> HIDE DEF rec
<1> QED BY <1>1, <1>2, <1>4, CommandOnly DEF BeginIssue

LEMMA CheckKeeps ==
  ASSUME IInv, NEW c \in Issuers, CheckDedup(c)
  PROVE  IInv'
<1> DEFINE k == issuing[c].key
           recent == IF k = NoKey THEN {} ELSE FindByDedupKey(k, issuing[c].time - Window)
           saw == IF ShouldSuppress(k, recent) THEN {} ELSE recent
           dup == ShouldSuppress(k, recent)
           rec == [pc |-> "save", key |-> k, time |-> issuing[c].time, left |-> issuing[c].left,
                   seen |-> saw, dup |-> dup]
<1>0. TypeOK
  BY DEF IInv
<1>1. issuing[c] \in IssueRecord
  BY <1>0 DEF TypeOK, IssueRecord
<1>2. recent \in SUBSET Ids /\ dup \in BOOLEAN /\ \A n \in recent : row[n] # None
  BY DEF FindByDedupKey, ShouldSuppress, Exists
<1>3. rec \in IssueRecord
  BY <1>1, <1>2 DEF IssueRecord
<1>4. Issuing(c, rec)
  BY DEF CheckDedup
<1>5. issuing'[c] = rec
  BY <1>0, <1>4 DEF Issuing, TypeOK
<1>6. ~dup => \A n \in saw : Exists(n) => row[n].status \in Dead
  <2> SUFFICES ASSUME ~dup, NEW n \in saw, Exists(n)
               PROVE  row[n].status \in Dead
    OBVIOUS
  <2>1. n \in recent /\ k # NoKey /\ n \in Ids
    BY <1>2
  <2>2. row[n].status \notin ActiveStatuses
    BY <2>1 DEF ShouldSuppress
  <2>3. row[n].status \in Statuses
    BY <1>0, <2>1, RowFacts DEF Notification
  <2> QED BY <2>2, <2>3 DEF ActiveStatuses, Statuses, Dead
<1>7. rec.seen = saw /\ rec.dup = dup /\ \A n \in saw : row[n] # None
  BY <1>2
<1>8. IssueOK(c)'
  <2> HIDE DEF saw, dup, rec
  <2> QED BY <1>5, <1>6, <1>7 DEF IssueOK, Exists, CheckDedup, histories
<1> HIDE DEF rec
<1> QED BY <1>3, <1>4, <1>8, CommandOnly DEF CheckDedup

\* A notification is issued: n begins and nothing else happens to rows.
LEMMA BornKeeps ==
  ASSUME IInv, NEW n \in Ids, NEW new \in Notification, row[n] = None, new.attempts = 0,
         new.status \in {"PENDING", "DEDUPED"}, row' = [row EXCEPT ![n] = new],
         UNCHANGED <<deliveries, relay, job, stalls, crashes, sends, overwritten>>,
         raced \subseteq raced'
  PROVE  /\ Moves
         /\ row' \in [Ids -> Notification \cup {None, Gone}]
         /\ row'[n] = new /\ \A m \in Ids \ {n} : row'[m] = row[m]
         /\ \A m \in Ids : RowOK(m)'
         /\ \A r \in Relays : RelayOK(r)'
         /\ \A c \in Issuers : issuing'[c] = issuing[c] => IssueOK(c)'
<1>0. TypeOK
  BY DEF IInv
<1>1. /\ row' \in [Ids -> Notification \cup {None, Gone}]
      /\ row'[n] = new /\ \A m \in Ids \ {n} : row'[m] = row[m]
  BY <1>0 DEF TypeOK
<1>2. Moves
  BY <1>1 DEF Moves, Move, Begins
<1>3. RowOK(n)'
  <2>1. sends[n] = 0 /\ job[n] = "none" /\ new.attempts = 0
    BY DEF IInv, RowOK
  <2> QED BY <1>1, <2>1, NoRows DEF RowOK, Exists, InWork, Outcomes
<1>4. \A m \in Ids \ {n} : RowOK(m)'
  BY <1>1 DEF IInv, RowOK, Exists
<1>5. \A r \in Relays : RelayOK(r)'
  BY <1>2, RelayKept
<1> QED BY <1>1, <1>2, <1>3, <1>4, <1>5, IssueKept

\* A notification saved with none of its key active that its run has seen, or
\* past one it has not seen.
LEMMA SaveIssuedKeeps ==
  ASSUME IInv, NEW c \in Issuers, SaveIssued(c)
  PROVE  IInv'
<1> DEFINE k == issuing[c].key
           t == issuing[c].time
           blank == Issue(k, t)
           rest == [pc |-> "check", key |-> k, time |-> t, left |-> issuing[c].left - 1,
                    seen |-> {}, dup |-> FALSE]
<1>0. TypeOK /\ IssueOK(c) /\ OncePerWindow
  BY DEF IInv
<1>1. issuing[c] \in IssueRecord
  BY <1>0 DEF TypeOK, IssueRecord
<1>2. PICK n \in Ids :
         /\ row[n] = None
         /\ row' = [row EXCEPT ![n] = IF issuing[c].dup THEN MarkDeduped(blank) ELSE blank]
         /\ raced' = IF k # NoKey /\ ~issuing[c].dup /\ Unseen(c) # {} THEN raced \cup {n} ELSE raced
  BY DEF SaveIssued, Fresh, First
<1>3. PICK new : /\ new = (IF issuing[c].dup THEN MarkDeduped(blank) ELSE blank)
                 /\ row' = [row EXCEPT ![n] = new]
  BY <1>2
<1>4. /\ new \in Notification /\ new.attempts = 0 /\ new.key = k /\ new.created = t
      /\ new.status = IF issuing[c].dup THEN "DEDUPED" ELSE "PENDING"
  BY <1>1, <1>3 DEF MarkDeduped, WithStatus, Issue, Notification, IssueRecord, Statuses
<1>5. /\ Moves
      /\ row' \in [Ids -> Notification \cup {None, Gone}]
      /\ row'[n] = new /\ \A m \in Ids \ {n} : row'[m] = row[m]
      /\ \A m \in Ids : RowOK(m)'
      /\ \A r \in Relays : RelayOK(r)'
      /\ \A d \in Issuers : issuing'[d] = issuing[d] => IssueOK(d)'
  <2>1. raced \subseteq raced'
    BY <1>2
  <2>2. new.status \in {"PENDING", "DEDUPED"}
    BY <1>4
  <2> QED BY <1>2, <1>3, <1>4, <2>1, <2>2, BornKeeps DEF SaveIssued
<1>6. /\ issuing' \in [Issuers -> IssueRecord]
      /\ issuing'[c].pc # "save" /\ issuing'[c].seen = {}
      /\ \A d \in Issuers \ {c} : issuing'[d] = issuing[d]
  <2>1. rest \in IssueRecord \/ ~(issuing[c].left > 1)
    BY <1>1 DEF IssueRecord
  <2>2. NotIssuing \in IssueRecord
    BY DEF NotIssuing, IssueRecord
  <2>3. PICK rec : /\ rec = (IF issuing[c].left > 1 THEN rest ELSE NotIssuing)
                   /\ Issuing(c, rec)
    BY DEF SaveIssued
  <2>4. rec \in IssueRecord /\ rec.pc # "save" /\ rec.seen = {}
    BY <2>1, <2>2, <2>3 DEF NotIssuing
  <2> QED BY <1>0, <2>3, <2>4 DEF Issuing, TypeOK, IssueRecord
<1>7. \A d \in Issuers : IssueOK(d)'
  BY <1>5, <1>6 DEF IssueOK
<1>8. raced' \subseteq Ids
  BY <1>0, <1>2 DEF TypeOK
<1>9. TypeOK'
  BY <1>0, <1>5, <1>6, <1>8 DEF TypeOK, SaveIssued, IssueRecord
<1> HIDE DEF k, t, blank, rest
<1>10. ASSUME NEW m \in Ids \ {n}, Exists(m),
              row[m].status \in {"PENDING", "QUEUED", "SENDING", "SENT"},
              row[m].key = k, k # NoKey, ~issuing[c].dup, row[m].created >= t - Window
       PROVE  {n, m} \cap (raced' \cup overwritten') # {}
  <2>1. m \in FindByDedupKey(issuing[c].key, issuing[c].time - Window)
    BY <1>10 DEF FindByDedupKey, k, t
  <2>2. CASE m \in Unseen(c)
    BY <1>2, <1>10, <2>2
  <2>3. CASE m \notin Unseen(c)
    <3>1. m \in issuing[c].seen
      BY <1>10, <2>1, <2>3 DEF Unseen
    <3>2. m \in overwritten
      BY <1>0, <1>10, <3>1 DEF IssueOK, Dead, SaveIssued
    <3> QED BY <3>2 DEF SaveIssued
  <2> QED BY <2>2, <2>3
<1>11. OncePerWindow'
  <2> SUFFICES ASSUME NEW i \in Ids, NEW j \in Ids, i # j, Exists(i)', Exists(j)',
                      {row'[i].status, row'[j].status} \subseteq {"PENDING", "QUEUED", "SENDING", "SENT"},
                      row'[i].key = row'[j].key, row'[i].key # NoKey,
                      row'[i].created <= row'[j].created, row'[j].created <= row'[i].created + Window
               PROVE  {i, j} \cap (raced' \cup overwritten') # {}
    BY DEF OncePerWindow
  <2>1. CASE i = n
    <3>1. row'[j] = row[j] /\ Exists(j) /\ row[j] \in Notification
      BY <1>0, <1>5, <2>1, RowFacts DEF Exists
    <3>2. row[j].created >= t - Window
      BY <1>1, <1>4, <1>5, <2>1, <3>1, NotificationAssumption DEF Notification, IssueRecord, t
    <3> QED BY <1>4, <1>5, <1>10, <2>1, <3>1, <3>2
  <2>2. CASE j = n
    <3>1. row'[i] = row[i] /\ Exists(i) /\ row[i] \in Notification
      BY <1>0, <1>5, <2>2, RowFacts DEF Exists
    <3>2. row[i].created >= t - Window
      BY <1>1, <1>4, <1>5, <2>2, <3>1, NotificationAssumption DEF Notification, IssueRecord, t
    <3>3. {n, i} \cap (raced' \cup overwritten') # {}
      BY <1>4, <1>5, <1>10, <2>2, <3>1, <3>2
    <3> QED BY <2>2, <3>3
  <2>3. CASE i # n /\ j # n
    <3>1. ~Begins(i) /\ ~Begins(j)
      BY <1>0, <1>5, <2>3, RowFacts DEF Begins
    <3> QED BY <1>5, <3>1, PairKept
  <2> QED BY <2>1, <2>2, <2>3
<1> QED BY <1>5, <1>7, <1>9, <1>11 DEF IInv

LEMMA RetryKeeps ==
  ASSUME IInv, NEW n \in Ids, RetryFailed(n)
  PROVE  IInv'
<1>0. TypeOK /\ OncePerWindow
  BY DEF IInv
<1> DEFINE new == Issue(NoKey, now)
<1>1. PICK k \in Ids : row[k] = None /\ row' = [row EXCEPT ![k] = new]
  BY DEF RetryFailed, Fresh, First
<1>2. new \in Notification /\ new.attempts = 0 /\ new.status = "PENDING" /\ new.key = NoKey
  BY <1>0 DEF Issue, Notification, Statuses, TypeOK
<1> HIDE DEF new
<1>3. /\ Moves
      /\ row' \in [Ids -> Notification \cup {None, Gone}]
      /\ row'[k] = new /\ \A m \in Ids \ {k} : row'[m] = row[m]
      /\ \A m \in Ids : RowOK(m)'
      /\ \A r \in Relays : RelayOK(r)'
      /\ \A d \in Issuers : issuing'[d] = issuing[d] => IssueOK(d)'
  BY <1>1, <1>2, BornKeeps DEF RetryFailed, histories
<1>4. TypeOK'
  BY <1>0, <1>3 DEF TypeOK, RetryFailed, histories
<1>5. OncePerWindow'
  <2> SUFFICES ASSUME NEW i \in Ids, NEW j \in Ids, i # j, Exists(i)', Exists(j)',
                      {row'[i].status, row'[j].status} \subseteq {"PENDING", "QUEUED", "SENDING", "SENT"},
                      row'[i].key = row'[j].key, row'[i].key # NoKey,
                      row'[i].created <= row'[j].created, row'[j].created <= row'[i].created + Window
               PROVE  {i, j} \cap (raced' \cup overwritten') # {}
    BY DEF OncePerWindow
  <2>1. i # k /\ j # k
    BY <1>2, <1>3
  <2>2. ~Begins(i) /\ ~Begins(j)
    BY <1>0, <1>3, <2>1, RowFacts DEF Begins
  <2> QED BY <1>3, <2>2, PairKept
<1>6. \A d \in Issuers : issuing'[d] = issuing[d]
  BY DEF RetryFailed
<1> QED BY <1>3, <1>4, <1>5, <1>6 DEF IInv

(***************************************************************************)
(* The relay.                                                              *)
(***************************************************************************)
RelayRecord == [pc: {"idle", "add", "save"}, id: Ids \cup {None}, pending: BOOLEAN]

LEMMA RelayLoadKeeps ==
  ASSUME IInv, NEW r \in Relays, NEW n \in Ids, RelayLoad(r, n)
  PROVE  IInv'
<1>0. TypeOK
  BY DEF IInv
<1> DEFINE rec == [pc |-> "add", id |-> n, pending |-> CanTransition(row[n].status, "QUEUED")]
<1>1. row[n] # None /\ (Relaying(r, rec) \/ Relaying(r, NotRelaying))
      /\ deliveries' \in [Ids -> Nat]
  BY <1>0 DEF RelayLoad, TypeOK
<1>2. rec \in RelayRecord /\ NotRelaying \in RelayRecord
  BY DEF RelayRecord, NotRelaying, CanTransition
<1>3. rec.pending /\ Exists(n) => row[n].status # "DEDUPED"
  <2>1. rec.pending => CanTransition(row[n].status, "QUEUED")
    OBVIOUS
  <2>2. ~CanTransition("DEDUPED", "QUEUED")
    BY DEF CanTransition, AllowedTransitions
  <2> QED BY <2>1, <2>2
<1>4. /\ relay' \in [Relays -> RelayRecord]
      /\ relay'[r] = rec \/ relay'[r] = NotRelaying
      /\ \A q \in Relays \ {r} : relay'[q] = relay[q]
  BY <1>0, <1>1, <1>2 DEF Relaying, TypeOK, RelayRecord
<1>5. rec.pc = "add" /\ rec.id = n /\ NotRelaying.pc = "idle"
  BY DEF NotRelaying
<1> HIDE DEF rec
<1>6. TypeOK'
  BY <1>0, <1>1, <1>4 DEF TypeOK, RelayLoad, histories, RelayRecord
<1>7. Moves /\ \A m \in Ids : ~Begins(m)
  BY <1>0, StillMoves DEF RelayLoad, histories
<1>8. RelayOK(r)'
  BY <1>1, <1>3, <1>4, <1>5 DEF RelayOK, Exists, RelayLoad
<1>9. \A q \in Relays : RelayOK(q)'
  BY <1>4, <1>7, <1>8, RelayKept
<1>10. \A c \in Issuers : IssueOK(c)'
  BY <1>7, IssueKept DEF RelayLoad
<1>11. \A m \in Ids : RowOK(m)'
  BY DEF IInv, RowOK, Exists, RelayLoad, histories
<1> QED BY <1>6, <1>7, <1>9, <1>10, <1>11, WindowKept DEF IInv

LEMMA RelayAddKeeps ==
  ASSUME IInv, NEW r \in Relays, RelayAdd(r)
  PROVE  IInv'
<1>0. TypeOK /\ RelayOK(r)
  BY DEF IInv
<1> DEFINE n == relay[r].id
           rec == [pc |-> "save", id |-> n, pending |-> TRUE]
<1>1. n \in Ids /\ row[n] # None
  BY <1>0 DEF RelayOK, RelayAdd
<1>2. /\ job' \in [Ids -> {"none", "waiting", "over"} \cup InWork]
      /\ \A m \in Ids : job'[m] = job[m] \/ (m = n /\ job'[m] = "waiting")
  BY <1>0, <1>1 DEF RelayAdd, TypeOK
<1>3. rec \in RelayRecord /\ NotRelaying \in RelayRecord /\ NotRelaying.pc = "idle"
  BY <1>1 DEF RelayRecord, NotRelaying
<1>4. /\ relay' \in [Relays -> RelayRecord]
      /\ \/ relay'[r] = rec /\ relay[r].pending
         \/ relay'[r] = NotRelaying
      /\ \A q \in Relays \ {r} : relay'[q] = relay[q]
  BY <1>0, <1>3 DEF RelayAdd, Relaying, TypeOK, RelayRecord
<1>5. TypeOK'
  BY <1>0, <1>2, <1>4 DEF TypeOK, RelayAdd, histories, RelayRecord
<1>6. Moves /\ \A m \in Ids : ~Begins(m)
  BY <1>0, StillMoves DEF RelayAdd, histories
<1>7. RelayOK(r)'
  BY <1>0, <1>1, <1>3, <1>4 DEF RelayOK, Exists, RelayAdd
<1>8. \A q \in Relays : RelayOK(q)'
  BY <1>4, <1>6, <1>7, RelayKept
<1>9. \A c \in Issuers : IssueOK(c)'
  BY <1>6, IssueKept DEF RelayAdd
<1>10. ASSUME NEW m \in Ids
       PROVE  RowOK(m)'
  <2>1. RowOK(m) /\ UNCHANGED <<row, sends, overwritten>>
    BY DEF IInv, RelayAdd, histories
  <2>2. CASE job'[m] = job[m]
    BY <2>1, <2>2 DEF RowOK, Exists
  <2>3. CASE m = n /\ job'[m] = "waiting"
    <3>1. Exists(m) => row[m].attempts \in Nat /\ sends[m] \in Nat
      BY <1>0, RowFacts DEF Notification, TypeOK
    <3> HIDE DEF n
    <3> QED BY <1>1, <2>1, <2>3, <3>1 DEF RowOK, Exists, InWork, Outcomes
  <2> QED BY <1>2, <2>2, <2>3
<1> QED BY <1>5, <1>6, <1>8, <1>9, <1>10, WindowKept DEF IInv

(***************************************************************************)
(* Saves of a status.                                                      *)
(***************************************************************************)
\* A save of n by the relay or the worker: what it writes is what the aggregate
\* allows, or goes over what it does not know of.
LEMMA StatusSaved ==
  ASSUME IInv, NEW n \in Ids, NEW new, Exists(n) => new \in Notification,
         new.key = row[n].key, new.created = row[n].created, new.status # "DEDUPED",
         row' = Saved(n, new), UNCHANGED <<issuing, raced>>,
         overwritten \subseteq overwritten', overwritten' \subseteq overwritten \cup {n},
         Exists(n) /\ row[n].status \in Dead => n \in overwritten',
         \A m \in Ids \ {n} : job'[m] = job[m] /\ sends'[m] = sends[m]
  PROVE  /\ row' \in [Ids -> Notification \cup {None, Gone}]
         /\ overwritten' \subseteq Ids
         /\ OncePerWindow'
         /\ \A m \in Ids \ {n} : RowOK(m)'
         /\ \A r \in Relays : relay'[r] = relay[r] => RelayOK(r)'
         /\ \A c \in Issuers : IssueOK(c)'
         /\ Exists(n) => row'[n] = new /\ Exists(n)'
         /\ ~Exists(n) => row'[n] = row[n] /\ ~Exists(n)'
<1>0. TypeOK
  BY DEF IInv
<1>1. /\ row' \in [Ids -> Notification \cup {None, Gone}]
      /\ \A m \in Ids \ {n} : row'[m] = row[m]
      /\ Exists(n) => row'[n] = new
      /\ ~Exists(n) => row'[n] = row[n]
  BY <1>0 DEF Saved, TypeOK
<1>2. Moves
  BY <1>1 DEF Moves, Move, Changes
<1>3. \A m \in Ids : ~Begins(m)
  BY <1>0, <1>1, RowFacts DEF Begins
<1>4. \A m \in Ids \ {n} : RowOK(m)'
  BY <1>1 DEF IInv, RowOK, Exists
<1>5. overwritten' \subseteq Ids
  BY <1>0 DEF TypeOK
<1>6. /\ Exists(n) => Exists(n)'
      /\ ~Exists(n) => ~Exists(n)'
  BY <1>0, <1>1, RowFacts, NoRows DEF Exists
<1> QED BY <1>1, <1>2, <1>3, <1>4, <1>5, <1>6, WindowKept, RelayKept, IssueKept

\* What Refused adds.
LEMMA RefusedIs ==
  ASSUME TypeOK, NEW n \in Ids, NEW to \in Statuses, overwritten' = Refused(n, to)
  PROVE  /\ overwritten \subseteq overwritten' /\ overwritten' \subseteq overwritten \cup {n}
         /\ Exists(n) /\ n \notin overwritten' => CanTransition(row[n].status, to) /\ n \notin overwritten
         /\ Exists(n) /\ row[n].status \in Dead => n \in overwritten'
<1>1. \A s \in Dead : ~CanTransition(s, to)
  BY DEF Dead, CanTransition, AllowedTransitions
<1> QED BY <1>1 DEF Refused

\* A status with the columns of a row.
LEMMA StatusType ==
  ASSUME NEW x \in Notification, NEW s \in Statuses
  PROVE  /\ WithStatus(x, s) \in Notification /\ Attempted(x, s) \in Notification
         /\ WithStatus(x, s).attempts = x.attempts /\ Attempted(x, s).attempts = x.attempts + 1
BY DEF WithStatus, Attempted, Notification

LEMMA FromStatus ==
  /\ \A s \in Statuses : CanTransition(s, "QUEUED") => s = "PENDING"
  /\ \A s \in Statuses : CanTransition(s, "SENDING") => s = "QUEUED"
  /\ \A s \in Statuses : CanTransition(s, "EXPIRED") => s \in {"PENDING", "QUEUED"}
  /\ \A s \in Statuses : CanTransition(s, "SENT") => s = "SENDING"
BY DEF CanTransition, AllowedTransitions, Statuses

LEMMA RelaySaveKeeps ==
  ASSUME IInv, NEW r \in Relays, RelaySave(r)
  PROVE  IInv'
<1>0. TypeOK /\ RelayOK(r)
  BY DEF IInv
<1>1. PICK n \in Ids : n = relay[r].id
  BY <1>0 DEF RelaySave, RelayOK
<1>2. PICK new : new = Enqueue(row[n])
  OBVIOUS
<1>3. /\ row' = Saved(n, new) /\ overwritten' = Refused(n, "QUEUED")
      /\ UNCHANGED <<now, issuing, deliveries, job, stalls, crashes, sends, raced>>
      /\ Relaying(r, NotRelaying)
  BY <1>1, <1>2 DEF RelaySave
<1>4. /\ new.key = row[n].key /\ new.created = row[n].created /\ new.status = "QUEUED"
      /\ new.attempts = row[n].attempts
      /\ Exists(n) => new \in Notification /\ row[n] \in Notification
  BY <1>0, <1>2, RowFacts, StatusType DEF Enqueue, WithStatus, Statuses
<1>5. /\ overwritten \subseteq overwritten' /\ overwritten' \subseteq overwritten \cup {n}
      /\ Exists(n) /\ n \notin overwritten' => CanTransition(row[n].status, "QUEUED") /\ n \notin overwritten
      /\ Exists(n) /\ row[n].status \in Dead => n \in overwritten'
  BY <1>0, <1>3, RefusedIs DEF Statuses
<1>6. /\ relay' \in [Relays -> RelayRecord]
      /\ relay'[r].pc = "idle"
      /\ \A q \in Relays \ {r} : relay'[q] = relay[q]
  BY <1>0, <1>3 DEF Relaying, TypeOK, RelayRecord, NotRelaying
<1>7. /\ row' \in [Ids -> Notification \cup {None, Gone}]
      /\ overwritten' \subseteq Ids
      /\ OncePerWindow'
      /\ \A m \in Ids \ {n} : RowOK(m)'
      /\ \A q \in Relays : relay'[q] = relay[q] => RelayOK(q)'
      /\ \A c \in Issuers : IssueOK(c)'
      /\ Exists(n) => row'[n] = new /\ Exists(n)'
      /\ ~Exists(n) => row'[n] = row[n] /\ ~Exists(n)'
  <2>1. \A m \in Ids \ {n} : job'[m] = job[m] /\ sends'[m] = sends[m]
    BY <1>3
  <2> QED BY <1>3, <1>4, <1>5, <2>1, StatusSaved
<1>8. TypeOK'
  BY <1>0, <1>3, <1>6, <1>7 DEF TypeOK, RelayRecord
<1>9. RelayOK(r)'
  BY <1>6 DEF RelayOK
<1>10. RowOK(n)'
  <2>1. RowOK(n) /\ sends[n] \in Nat
    BY <1>0 DEF IInv, TypeOK
  <2>2. CASE ~Exists(n)
    BY <1>3, <1>7, <2>1, <2>2 DEF RowOK
  <2>3. CASE Exists(n)
    <3>1. row'[n] # None /\ row'[n] = new
      BY <1>7, <2>3 DEF Exists
    <3>2. CASE n \in overwritten'
      BY <1>4, <3>1, <3>2 DEF RowOK
    <3>3. CASE n \notin overwritten'
      <4>1. row[n].status = "PENDING" /\ n \notin overwritten
        BY <1>4, <1>5, <2>3, <3>3, FromStatus DEF Notification
      <4> QED BY <1>3, <1>4, <2>1, <2>3, <3>1, <4>1 DEF RowOK, Outcomes
    <3> QED BY <3>2, <3>3
  <2> QED BY <2>2, <2>3
<1> QED BY <1>6, <1>7, <1>8, <1>9, <1>10 DEF IInv

(***************************************************************************)
(* Saves of the worker.                                                    *)
(***************************************************************************)
\* A save of n by the worker: what is left to show is that it leaves n right.
LEMMA WorkerSaved ==
  ASSUME IInv, NEW n \in Ids, NEW new, NEW to \in Statuses, NEW j \in {"over"} \cup InWork,
         Exists(n) => new \in Notification,
         new.key = row[n].key, new.created = row[n].created, new.status # "DEDUPED",
         job[n] # "none", row' = Saved(n, new), overwritten' = Refused(n, to), Job(n, j),
         UNCHANGED <<now, issuing, deliveries, relay, stalls, crashes, sends, raced>>
  PROVE  /\ Exists(n) => row'[n] = new /\ row'[n] # None /\ job'[n] = j
         /\ Exists(n) /\ n \notin overwritten' => CanTransition(row[n].status, to) /\ n \notin overwritten
         /\ (Exists(n) => RowOK(n)') => IInv'
<1>0. TypeOK
  BY DEF IInv
<1>1. /\ overwritten \subseteq overwritten' /\ overwritten' \subseteq overwritten \cup {n}
      /\ Exists(n) /\ n \notin overwritten' => CanTransition(row[n].status, to) /\ n \notin overwritten
      /\ Exists(n) /\ row[n].status \in Dead => n \in overwritten'
  BY <1>0, RefusedIs
<1>2. /\ job' \in [Ids -> {"none", "waiting", "over"} \cup InWork]
      /\ job'[n] = j
      /\ \A m \in Ids \ {n} : job'[m] = job[m] /\ sends'[m] = sends[m]
  BY <1>0 DEF TypeOK, Job
<1>3. /\ row' \in [Ids -> Notification \cup {None, Gone}]
      /\ overwritten' \subseteq Ids
      /\ OncePerWindow'
      /\ \A m \in Ids \ {n} : RowOK(m)'
      /\ \A q \in Relays : relay'[q] = relay[q] => RelayOK(q)'
      /\ \A c \in Issuers : IssueOK(c)'
      /\ Exists(n) => row'[n] = new /\ Exists(n)'
      /\ ~Exists(n) => row'[n] = row[n] /\ ~Exists(n)'
  BY <1>1, <1>2, StatusSaved
<1>4. TypeOK'
  BY <1>0, <1>2, <1>3 DEF TypeOK
<1>5. ASSUME ~Exists(n) PROVE RowOK(n)'
  <2>1. RowOK(n)
    BY DEF IInv
  <2> QED BY <1>3, <1>5, <2>1 DEF RowOK
<1>6. Exists(n) => row'[n] # None
  BY <1>3 DEF Exists
<1> QED BY <1>1, <1>2, <1>3, <1>4, <1>5, <1>6 DEF IInv

LEMMA SaveExpiredKeeps ==
  ASSUME IInv, NEW n \in Ids, SaveExpired(n)
  PROVE  IInv'
<1>0. TypeOK /\ RowOK(n) /\ sends[n] \in Nat
  BY DEF IInv, TypeOK
<1>1. PICK new : new = MarkExpired(row[n])
  OBVIOUS
<1>2. /\ new.key = row[n].key /\ new.created = row[n].created /\ new.status = "EXPIRED"
      /\ new.attempts = row[n].attempts
      /\ Exists(n) => new \in Notification /\ row[n] \in Notification
  BY <1>0, <1>1, RowFacts, StatusType DEF MarkExpired, WithStatus, Statuses
<1>3. /\ Exists(n) => row'[n] = new /\ row'[n] # None /\ job'[n] = "over"
      /\ Exists(n) /\ n \notin overwritten' => CanTransition(row[n].status, "EXPIRED") /\ n \notin overwritten
      /\ (Exists(n) => RowOK(n)') => IInv'
  BY <1>1, <1>2, WorkerSaved DEF SaveExpired, Statuses
<1>4. ASSUME Exists(n) PROVE RowOK(n)'
  <2>1. n \notin overwritten' => n \notin overwritten /\ row[n].status \in {"PENDING", "QUEUED"}
    BY <1>2, <1>3, <1>4, FromStatus DEF Notification
  <2> QED BY <1>0, <1>2, <1>3, <1>4, <2>1 DEF RowOK, SaveExpired, Outcomes, InWork
<1> QED BY <1>3, <1>4

LEMMA SaveSendingKeeps ==
  ASSUME IInv, NEW n \in Ids, SaveSending(n)
  PROVE  IInv'
<1>0. TypeOK /\ RowOK(n) /\ sends[n] \in Nat
  BY DEF IInv, TypeOK
<1>1. PICK new : new = MarkSending(row[n])
  OBVIOUS
<1>2. /\ new.key = row[n].key /\ new.created = row[n].created /\ new.status = "SENDING"
      /\ new.attempts = row[n].attempts
      /\ Exists(n) => new \in Notification /\ row[n] \in Notification
  BY <1>0, <1>1, RowFacts, StatusType DEF MarkSending, WithStatus, Statuses
<1>3. /\ Exists(n) => row'[n] = new /\ row'[n] # None /\ job'[n] = "sending"
      /\ Exists(n) /\ n \notin overwritten' => CanTransition(row[n].status, "SENDING") /\ n \notin overwritten
      /\ (Exists(n) => RowOK(n)') => IInv'
  BY <1>1, <1>2, WorkerSaved DEF SaveSending, Statuses, InWork
<1>4. ASSUME Exists(n) PROVE RowOK(n)'
  <2>1. n \notin overwritten' => n \notin overwritten /\ row[n].status = "QUEUED"
    BY <1>2, <1>3, <1>4, FromStatus DEF Notification
  <2> QED BY <1>0, <1>2, <1>3, <1>4, <2>1 DEF RowOK, SaveSending, Outcomes, InWork
<1> QED BY <1>3, <1>4

\* What Record writes, whichever way the dispatch went.
LEMMA Recorded ==
  ASSUME TypeOK, NEW n \in Ids, Record(n)
  PROVE  \E new : /\ row' = Saved(n, new)
                  /\ new.key = row[n].key /\ new.created = row[n].created
                  /\ new.status \in {"SENT", "PENDING", "FAILED"}
                  /\ Exists(n) => new \in Notification /\ new.attempts = row[n].attempts + 1
<1>1. Exists(n) => row[n] \in Notification
  BY RowFacts
<1>2. PICK s \in {"SENT", "PENDING", "FAILED"} : row' = Saved(n, Attempted(row[n], s))
  BY DEF Record, MarkSent, MarkRetryable, MarkFailed
<1>3. /\ Attempted(row[n], s).key = row[n].key /\ Attempted(row[n], s).created = row[n].created
      /\ Attempted(row[n], s).status = s
      /\ Attempted(row[n], s).attempts = row[n].attempts + 1
  BY DEF Attempted
<1>4. Exists(n) => Attempted(row[n], s) \in Notification
  BY <1>1, StatusType DEF Statuses
<1> QED BY <1>2, <1>3, <1>4

LEMMA RecordKeeps ==
  ASSUME IInv, NEW n \in Ids, Record(n)
  PROVE  IInv'
<1>0. TypeOK /\ RowOK(n) /\ sends[n] \in Nat
  BY DEF IInv, TypeOK
<1>1. PICK new : /\ row' = Saved(n, new)
                 /\ new.key = row[n].key /\ new.created = row[n].created
                 /\ new.status \in {"SENT", "PENDING", "FAILED"}
                 /\ Exists(n) => new \in Notification /\ new.attempts = row[n].attempts + 1
  BY <1>0, Recorded
<1>2. /\ Exists(n) => row'[n] = new /\ row'[n] # None /\ job'[n] = "recorded"
      /\ Exists(n) /\ n \notin overwritten' => CanTransition(row[n].status, "SENT") /\ n \notin overwritten
      /\ (Exists(n) => RowOK(n)') => IInv'
  BY <1>1, WorkerSaved DEF Record, Statuses, InWork, Outcomes
<1>3. ASSUME Exists(n) PROVE RowOK(n)'
  <2>1. row[n].attempts \in Nat
    BY <1>0, <1>3, RowFacts DEF Notification
  <2> QED BY <1>0, <1>1, <1>2, <1>3, <2>1 DEF RowOK, Record, Outcomes, InWork
<1> QED BY <1>2, <1>3

(***************************************************************************)
(* The cron jobs.                                                          *)
(***************************************************************************)
\* A step that only moves rows that were there, and begins none.
LEMMA SweepKeeps ==
  ASSUME IInv, Moves, row' \in [Ids -> Notification \cup {None, Gone}],
         UNCHANGED <<now, issuing, deliveries, relay, job, stalls, crashes, histories>>,
         \A n \in Ids : \/ row'[n] = row[n]
                        \/ Exists(n) /\ row'[n] = Gone
                        \/ /\ Exists(n) /\ row'[n] = MarkExpired(row[n])
                           /\ row[n].status \in {"PENDING", "QUEUED"}
  PROVE  IInv'
<1>0. TypeOK /\ \A n \in Ids : RowOK(n)
  BY DEF IInv
<1>1. TypeOK'
  BY <1>0 DEF TypeOK, histories
<1>2. \A n \in Ids : ~Begins(n)
  BY <1>0, RowFacts DEF Begins
<1>3. \A r \in Relays : RelayOK(r)'
  BY RelayKept
<1>4. \A c \in Issuers : IssueOK(c)'
  BY IssueKept
<1>5. ASSUME NEW n \in Ids
      PROVE  RowOK(n)'
  <2>1. RowOK(n) /\ job'[n] = job[n] /\ sends'[n] = sends[n] /\ overwritten' = overwritten /\ sends[n] \in Nat
    BY <1>0 DEF histories, TypeOK
  <2>2. CASE row'[n] = row[n]
    BY <2>1, <2>2 DEF RowOK, Exists
  <2>3. CASE Exists(n) /\ row'[n] = Gone
    BY <2>1, <2>3, NoRows DEF RowOK, Exists
  <2>4. CASE Exists(n) /\ row'[n] = MarkExpired(row[n]) /\ row[n].status \in {"PENDING", "QUEUED"}
    <3>1. row'[n].status = "EXPIRED" /\ row'[n].attempts = row[n].attempts
      BY <2>4 DEF MarkExpired, WithStatus
    <3>2. row'[n] \in Notification /\ row'[n] # None
      BY <1>0, <2>4, RowFacts, StatusType DEF MarkExpired, Statuses
    <3> QED BY <2>1, <2>4, <3>1, <3>2 DEF RowOK, Exists, InWork, Outcomes
  <2> QED BY <2>2, <2>3, <2>4
<1> QED BY <1>1, <1>2, <1>3, <1>4, <1>5, WindowKept DEF IInv

LEMMA ExpiredCleanupKeeps ==
  ASSUME IInv, ExpiredCleanup
  PROVE  IInv'
<1>0. TypeOK
  BY DEF IInv
<1>1. ASSUME NEW n \in Ids
      PROVE  \/ row'[n] = row[n]
             \/ /\ Exists(n) /\ row'[n] = MarkExpired(row[n])
                /\ row[n].status \in {"PENDING", "QUEUED"}
  BY DEF ExpiredCleanup, Expirable
<1>2. ASSUME NEW n \in Ids, Exists(n)
      PROVE  MarkExpired(row[n]) \in Notification
  BY <1>0, <1>2, RowFacts, StatusType DEF MarkExpired, Statuses
<1>3. row' \in [Ids -> Notification \cup {None, Gone}]
  <2>1. \A n \in Ids : row'[n] \in Notification \cup {None, Gone}
    BY <1>0, <1>1, <1>2 DEF TypeOK
  <2>2. \E F : row' = [n \in Ids |-> F[n]]
    <3>1. row' = [n \in Ids |-> row'[n]]
      BY DEF ExpiredCleanup
    <3> QED BY <3>1
  <2> QED BY <2>1, <2>2
<1>4. Moves
  <2>1. ASSUME NEW n \in Ids PROVE Move(n)
    <3>1. CASE row'[n] = row[n]
      BY <3>1 DEF Move
    <3>2. CASE row'[n] # row[n]
      <4>1. /\ Exists(n) /\ row'[n] = MarkExpired(row[n]) /\ row'[n] \in Notification
            /\ row[n].status \notin Dead
        BY <1>1, <1>2, <3>2 DEF Dead
      <4> QED BY <4>1 DEF Move, Changes, MarkExpired, WithStatus
    <3> QED BY <3>1, <3>2
  <2> QED BY <2>1 DEF Moves, ExpiredCleanup, histories
<1> QED BY <1>1, <1>3, <1>4, SweepKeeps DEF ExpiredCleanup

LEMMA RetentionCleanupKeeps ==
  ASSUME IInv, RetentionCleanup
  PROVE  IInv'
<1>0. TypeOK
  BY DEF IInv
<1>1. ASSUME NEW n \in Ids
      PROVE  row'[n] = row[n] \/ (Exists(n) /\ row'[n] = Gone)
  BY DEF RetentionCleanup
<1>2. row' \in [Ids -> Notification \cup {None, Gone}]
  BY <1>0 DEF RetentionCleanup, TypeOK
<1>3. Moves
  BY <1>1 DEF Moves, Move, RetentionCleanup, histories
<1> QED BY <1>1, <1>2, <1>3, SweepKeeps DEF RetentionCleanup

(***************************************************************************)
(* The theorems.                                                           *)
(***************************************************************************)
LEMMA InitHolds == Init => IInv
<1> SUFFICES ASSUME Init PROVE IInv
  OBVIOUS
<1>0. /\ NotIssuing \in IssueRecord
      /\ NotRelaying \in RelayRecord
  BY DEF NotIssuing, IssueRecord, NotRelaying, RelayRecord
<1>1. TypeOK
  BY <1>0 DEF Init, TypeOK, IssueRecord, RelayRecord
<1>2. \A n \in Ids : ~Exists(n) /\ RowOK(n)
  BY DEF Init, Exists, RowOK
<1>3. \A r \in Relays : RelayOK(r)
  BY DEF Init, RelayOK, NotRelaying
<1>4. \A c \in Issuers : IssueOK(c)
  BY DEF Init, IssueOK, NotIssuing
<1> QED BY <1>1, <1>2, <1>3, <1>4 DEF IInv, OncePerWindow

LEMMA StutterKeeps ==
  ASSUME IInv, UNCHANGED vars
  PROVE  IInv'
<1>1. TypeOK'
  BY DEF IInv, TypeOK, vars, histories
<1>2. \A n \in Ids : RowOK(n)'
  BY DEF IInv, RowOK, Exists, vars
<1> QED BY <1>1, <1>2, WorkerOnly DEF vars

LEMMA StepKeeps == IInv /\ [Next]_vars => IInv'
<1> SUFFICES ASSUME IInv, [Next]_vars PROVE IInv'
  OBVIOUS
<1>1. CASE Tick \/ Crash \/ ExpiredCleanup \/ RetentionCleanup
  BY <1>1, TickKeeps, CrashKeeps, ExpiredCleanupKeeps, RetentionCleanupKeeps
<1>2. ASSUME NEW c \in Issuers,
             (\E k \in Keys \cup {NoKey}, t \in 1..MaxTargets : BeginIssue(c, k, t)) \/ IssueStep(c)
      PROVE  IInv'
  BY <1>2, BeginKeeps, CheckKeeps, SaveIssuedKeeps DEF IssueStep
<1>3. ASSUME NEW r \in Relays, (\E n \in Ids : RelayLoad(r, n)) \/ RelayStep(r)
      PROVE  IInv'
  BY <1>3, RelayLoadKeeps, RelayAddKeeps, RelaySaveKeeps DEF RelayStep
<1>4. ASSUME NEW n \in Ids, WorkerStep(n) \/ RetryFailed(n)
      PROVE  IInv'
  BY <1>4, TakeKeeps, SaveExpiredKeeps, SaveSendingKeeps, DispatchKeeps, RecordKeeps, FinishKeeps,
     RetryKeeps DEF WorkerStep
<1>5. CASE UNCHANGED vars
  BY <1>5, StutterKeeps
<1> QED BY <1>1, <1>2, <1>3, <1>4, <1>5 DEF Next

\* The inductive invariant holds in every state.
THEOREM Invariance == Spec => []IInv
BY InitHolds, StepKeeps, PTL DEF Spec

\* Every variable keeps to its type.
THEOREM TypeCorrect == Spec => []TypeOK
<1>1. IInv => TypeOK
  BY DEF IInv
<1> QED BY <1>1, Invariance, PTL

\* Of two active notifications of a key within its window, one was issued by a
\* run that could not see the other, or brought back by a stale save.
THEOREM ToldOnce == Spec => []OncePerWindow
<1>1. IInv => OncePerWindow
  BY DEF IInv
<1> QED BY <1>1, Invariance, PTL

\* However jobs, events and the worker's crashes repeat, no dispatch goes
\* without its record but the one in progress.
THEOREM DispatchesAreRecorded == Spec => []EveryDispatchIsRecorded
<1>1. IInv => EveryDispatchIsRecorded
  <2> SUFFICES ASSUME IInv, NEW n \in Ids, Exists(n), n \notin overwritten
               PROVE  sends[n] <= row[n].attempts + (IF row[n].status = "SENDING" THEN 1 ELSE 0)
    BY DEF EveryDispatchIsRecorded
  <2>1. RowOK(n) /\ row[n].attempts \in Nat /\ sends[n] \in Nat
    BY RowFacts DEF IInv, TypeOK, Notification
  <2>2. CASE row[n].status = "SENDING" /\ job[n] = "sending"
    BY <2>1, <2>2 DEF RowOK
  <2>3. CASE row[n].status = "SENDING" /\ job[n] # "sending"
    BY <2>1, <2>3 DEF RowOK
  <2>4. CASE row[n].status # "SENDING"
    BY <2>1, <2>4 DEF RowOK
  <2> QED BY <2>2, <2>3, <2>4
<1> QED BY <1>1, Invariance, PTL

(***************************************************************************)
(* What is over stays as it is.                                            *)
(***************************************************************************)
Returns(n) ==
  /\ row[n].status # "DEDUPED"
  /\ \/ \E r \in Relays : relay[r].pc = "save" /\ relay[r].id = n
     \/ job[n] = "loaded" /\ row[n].status = "EXPIRED"
     \/ n \in overwritten
Stays(n) == Exists(n) /\ row[n].status \in Terminal => row'[n] \in {row[n], Gone} \/ Returns(n)

\* A save of n leaves the other rows alone.
LEMMA OthersStay ==
  ASSUME TypeOK, NEW n \in Ids, NEW new, row' = Saved(n, new)
  PROVE  /\ \A m \in Ids \ {n} : Stays(m)
         /\ Exists(n) => row'[n] = new
BY DEF TypeOK, Saved, Stays

LEMMA RelayStays ==
  ASSUME IInv, NEW r \in Relays, RelaySave(r), NEW n \in Ids
  PROVE  Stays(n)
<1>0. TypeOK /\ RelayOK(r)
  BY DEF IInv
<1>1. PICK m \in Ids : m = relay[r].id
  BY <1>0 DEF RelaySave, RelayOK
<1>2. PICK new : new = Enqueue(row[m])
  OBVIOUS
<1>3. row' = Saved(m, new)
  BY <1>1, <1>2 DEF RelaySave
<1>4. Exists(m) => row[m].status # "DEDUPED"
  BY <1>0, <1>1 DEF RelaySave, RelayOK
<1>5. CASE n = m
  BY <1>1, <1>4, <1>5 DEF Stays, Returns, RelaySave
<1> QED BY <1>0, <1>3, <1>5, OthersStay

LEMMA WorkerStays ==
  ASSUME IInv, NEW m \in Ids, SaveExpired(m) \/ SaveSending(m) \/ Record(m), NEW n \in Ids
  PROVE  Stays(n)
<1>0. TypeOK /\ RowOK(m)
  BY DEF IInv
<1>1. PICK new : row' = Saved(m, new) /\ (SaveExpired(m) => new = MarkExpired(row[m]))
  BY DEF SaveExpired, SaveSending, Record
<1>2. job[m] \in InWork
  BY DEF SaveExpired, SaveSending, Record, InWork
<1>3. ASSUME Exists(m), row[m].status \in Terminal
      PROVE  row'[m] = row[m] \/ Returns(m)
  <2>1. row[m].status # "DEDUPED" /\ row[m] \in Notification
    BY <1>0, <1>2, <1>3, RowFacts DEF RowOK
  <2>2. CASE m \in overwritten
    BY <2>1, <2>2 DEF Returns
  <2>3. CASE SaveExpired(m) /\ m \notin overwritten
    <3>1. row[m].status = "EXPIRED"
      BY <1>0, <1>3, <2>3 DEF RowOK, SaveExpired, Terminal
    <3>2. MarkExpired(row[m]) = row[m]
      BY <2>1, <3>1 DEF MarkExpired, WithStatus, Notification
    <3> QED BY <1>0, <1>1, <1>3, <2>3, <3>2, OthersStay
  <2>4. CASE SaveSending(m) /\ m \notin overwritten
    <3>1. row[m].status = "EXPIRED" /\ job[m] = "loaded"
      BY <1>0, <1>3, <2>4 DEF RowOK, SaveSending, Terminal
    <3> QED BY <2>1, <3>1 DEF Returns
  <2>5. CASE Record(m) /\ m \notin overwritten
    <3>1. row[m].status = "SENDING"
      BY <1>0, <1>3, <2>5 DEF RowOK, Record
    <3> QED BY <1>3, <3>1 DEF Terminal
  <2> QED BY <2>2, <2>3, <2>4, <2>5
<1>4. CASE n = m
  BY <1>3, <1>4 DEF Stays
<1> QED BY <1>0, <1>1, <1>4, OthersStay

\* A notification that is over keeps its row, or goes with the retention; only
\* a relay or a worker that loaded it before writes over it, and nothing ever
\* writes over a suppressed one.
THEOREM OverIsOver == Spec => TerminalStays
<1>1. ASSUME IInv, Next, NEW n \in Ids
      PROVE  Stays(n)
  <2>0. TypeOK
    BY <1>1 DEF IInv
  <2>2. CASE ExpiredCleanup
    BY <2>2 DEF ExpiredCleanup, Stays, Expirable, Terminal
  <2>3. CASE RetentionCleanup
    BY <2>3 DEF RetentionCleanup, Stays
  <2>4. ASSUME NEW c \in Issuers, SaveIssued(c)
        PROVE  Stays(n)
    <3>1. PICK k \in Fresh : \E new : row' = [row EXCEPT ![k] = new]
      BY <2>4 DEF SaveIssued
    <3>2. k \in Ids /\ row[k] = None
      BY <3>1 DEF Fresh, First
    <3> QED BY <2>0, <3>1, <3>2 DEF Stays, Exists, TypeOK
  <2>5. ASSUME NEW m \in Ids, RetryFailed(m)
        PROVE  Stays(n)
    <3>1. PICK k \in Fresh : row' = [row EXCEPT ![k] = Issue(NoKey, now)]
      BY <2>5 DEF RetryFailed
    <3>2. k \in Ids /\ row[k] = None
      BY <3>1 DEF Fresh, First
    <3> QED BY <2>0, <3>1, <3>2 DEF Stays, Exists, TypeOK
  <2>6. CASE UNCHANGED row
    BY <2>6 DEF Stays
  <2> QED
    BY <1>1, <2>2, <2>3, <2>4, <2>5, <2>6, RelayStays, WorkerStays
    DEF Next, Tick, Crash, BeginIssue, IssueStep, CheckDedup, RelayLoad, RelayStep, RelayAdd,
        WorkerStep, Take, Dispatch, Finish
<1>2. IInv /\ [Next]_vars => [\A n \in Ids : Stays(n)]_vars
  BY <1>1
<1>3. [\A n \in Ids : Stays(n)]_vars
        <=> [\A n \in Ids : (Exists(n) /\ row[n].status \in Terminal)
               => \/ row'[n] \in {row[n], Gone}
                  \/ /\ row[n].status # "DEDUPED"
                     /\ \/ \E r \in Relays : relay[r].pc = "save" /\ relay[r].id = n
                        \/ job[n] = "loaded" /\ row[n].status = "EXPIRED"
                        \/ n \in overwritten]_vars
  BY DEF Stays, Returns
<1> QED BY <1>2, <1>3, Invariance, PTL DEF Spec, TerminalStays
=============================================================================
