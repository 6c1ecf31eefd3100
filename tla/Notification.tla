---------------------------- MODULE Notification ----------------------------
(***************************************************************************)
(* The delivery of notifications.  A command issues one notification per   *)
(* channel and recipient, suppressing the ones whose key was used lately;  *)
(* the event of the issue, delivered at least once, makes a relay put a    *)
(* job into the queue and mark the notification as queued; a worker takes  *)
(* the job, dispatches and records the result; two cron jobs expire and    *)
(* delete rows.  No row has a version and none of these handlers runs in a *)
(* transaction: each repository save commits on its own, and writes the    *)
(* status of the copy it was loaded from whatever the row is by then.      *)
(***************************************************************************)
EXTENDS Integers, FiniteSets

CONSTANTS Ids,           \* identities of notifications, numbers
          Issuers,       \* runs of IssueNotificationHandler, numbers
          Relays,        \* runs of the relay of NotificationIssued, numbers
          Keys, NoKey,   \* deduplication keys, and the absence of one
          Ttl,           \* life of a notification, in the unit of the clock
          Window,        \* window of a key
          Keep,          \* retention of rows that are over
          MaxNow,        \* bound on the clock
          MaxTargets,    \* bound on the channels and recipients of a command
          MaxDeliveries, \* MaxDeliveries[n]: bound on the deliveries of the event of n
          MaxCrashes,    \* bound on the crashes of the worker
          None, Gone     \* no row yet, a row deleted

ASSUME NotificationAssumption ==
    /\ Ids \subseteq Nat /\ Issuers \subseteq Nat /\ Relays \subseteq Nat
    /\ NoKey \notin Keys
    /\ Ttl \in Nat /\ Window \in Nat /\ Keep \in Nat
    /\ MaxNow \in Nat /\ MaxTargets \in Nat
    /\ MaxDeliveries \in [Ids -> Nat] /\ MaxCrashes \in Nat
    /\ None \notin Ids

VARIABLES now,        \* the clock
          row,        \* row[n]: the row of ntf_notification, None before and Gone after
          issuing,    \* issuing[c]: where a run of the issuing command stands
          deliveries, \* deliveries[n]: how often the event of n was handed out
          relay,      \* relay[r]: where a run of the relay stands
          job,        \* job[n]: the job of n in the queue
          stalls,     \* stalls[n]: how often that job was found stalled
          crashes,    \* crashes of the worker so far
          sends,      \* sends[n]: dispatches to the provider (history)
          raced,      \* issued past an active notification of the key it had not seen (history)
          overwritten \* a save went over a status the aggregate does not leave so (history)

vars == <<now, row, issuing, deliveries, relay, job, stalls, crashes, sends, raced, overwritten>>
histories == <<sends, raced, overwritten>>

AllowedTransitions_SendAgain ==
    [PENDING |-> {"QUEUED", "DEDUPED", "EXPIRED"}, QUEUED |-> {"SENDING", "EXPIRED"},
     SENDING |-> {"SENDING", "SENT", "PENDING", "FAILED"},
     SENT |-> {}, FAILED |-> {}, DEDUPED |-> {}, EXPIRED |-> {}]
AllowedTransitions ==
    [PENDING |-> {"QUEUED", "DEDUPED", "EXPIRED"}, QUEUED |-> {"SENDING", "EXPIRED"},
     SENDING |-> {"SENT", "PENDING", "FAILED"},
     SENT |-> {}, FAILED |-> {}, DEDUPED |-> {}, EXPIRED |-> {}]
Statuses == {"PENDING", "QUEUED", "SENDING", "SENT", "FAILED", "DEDUPED", "EXPIRED"}
Terminal == {"SENT", "FAILED", "DEDUPED", "EXPIRED"}
CanTransition(from, to) == to \in AllowedTransitions[from]

Notification == [status: Statuses, attempts: Nat, key: Keys \cup {NoKey}, created: Nat]
ASSUME NoRows == None # Gone /\ {None, Gone} \cap Notification = {}

Exists(n) == row[n] \notin {None, Gone}

----------------------------------------------------------------------------
(* The aggregate, and what its saves write. *)

Issue(k, t) == [status |-> "PENDING", attempts |-> 0, key |-> k, created |-> t]
WithStatus(x, s) == [status |-> s, attempts |-> x.attempts, key |-> x.key, created |-> x.created]
Attempted(x, s) == [status |-> s, attempts |-> x.attempts + 1, key |-> x.key, created |-> x.created]
MarkDeduped(x) == WithStatus(x, "DEDUPED")
Enqueue(x) == WithStatus(x, "QUEUED")
MarkSending(x) == WithStatus(x, "SENDING")
MarkExpired(x) == WithStatus(x, "EXPIRED")
MarkSent(x) == Attempted(x, "SENT")
MarkRetryable(x) == Attempted(x, "PENDING")
MarkFailed(x) == Attempted(x, "FAILED")
IsExpired(x) == now > x.created + Ttl

\* A save of a copy of n: nothing but the changed columns, into the row if there is one.
Saved(n, new) == IF Exists(n) THEN [row EXCEPT ![n] = new] ELSE row

Refused(n, to) == IF Exists(n) /\ ~CanTransition(row[n].status, to)
                  THEN overwritten \cup {n} ELSE overwritten

----------------------------------------------------------------------------
(* DeduplicationService. *)

ActiveStatuses_Unsent == {"PENDING", "QUEUED", "SENT"}
ActiveStatuses == {"PENDING", "QUEUED", "SENDING", "SENT"}
FindByDedupKey(k, since) == {n \in Ids : Exists(n) /\ row[n].key = k /\ row[n].created >= since}
ShouldSuppress(k, recent) == k # NoKey /\ \E n \in recent : row[n].status \in ActiveStatuses

\* The next identity, and the next free run: they are interchangeable, so which
\* one is taken makes no difference.
First(S) == {n \in S : \A k \in S : n <= k}
Fresh == First({n \in Ids : row[n] = None})

----------------------------------------------------------------------------
NotIssuing == [pc |-> "idle", key |-> NoKey, time |-> 0, left |-> 0, seen |-> {}, dup |-> FALSE]
NotRelaying == [pc |-> "idle", id |-> None, pending |-> FALSE]

Init ==
    /\ now = 0
    /\ row = [n \in Ids |-> None]
    /\ issuing = [c \in Issuers |-> NotIssuing]
    /\ deliveries = [n \in Ids |-> 0]
    /\ relay = [r \in Relays |-> NotRelaying]
    /\ job = [n \in Ids |-> "none"]
    /\ stalls = [n \in Ids |-> 0]
    /\ crashes = 0
    /\ sends = [n \in Ids |-> 0]
    /\ raced = {}
    /\ overwritten = {}

Tick ==
    /\ now < MaxNow
    /\ now' = now + 1
    /\ UNCHANGED <<row, issuing, deliveries, relay, job, stalls, crashes, histories>>

----------------------------------------------------------------------------
(* IssueNotificationHandler: the clock is read once; template, preferences *)
(* and contacts only say how many notifications there will be.             *)

Issuing(c, rec) == issuing' = [issuing EXCEPT ![c] = rec]

BeginIssue(c, k, targets) ==
    /\ c \in First({d \in Issuers : issuing[d].pc = "idle"})
    /\ targets + Cardinality({d \in Issuers : issuing[d].pc # "idle"}) <= Cardinality({n \in Ids : row[n] = None})
    /\ Issuing(c, [pc |-> "check", key |-> k, time |-> now, left |-> targets, seen |-> {}, dup |-> FALSE])
    /\ UNCHANGED <<now, row, deliveries, relay, job, stalls, crashes, histories>>

CheckDedup(c) ==
    /\ issuing[c].pc = "check"
    /\ LET k == issuing[c].key
           recent == IF k = NoKey THEN {} ELSE FindByDedupKey(k, issuing[c].time - Window)
       IN  Issuing(c, [pc |-> "save", key |-> k, time |-> issuing[c].time, left |-> issuing[c].left,
                       seen |-> IF ShouldSuppress(k, recent) THEN {} ELSE recent,
                       dup |-> ShouldSuppress(k, recent)])
    /\ UNCHANGED <<now, row, deliveries, relay, job, stalls, crashes, histories>>

\* Another run of the key got between the look and the save.
Unseen(c) == {n \in FindByDedupKey(issuing[c].key, issuing[c].time - Window) :
                n \notin issuing[c].seen /\ row[n].status # "DEDUPED"}
SaveIssued(c) ==
    /\ issuing[c].pc = "save"
    /\ \E n \in Fresh :
          LET new == Issue(issuing[c].key, issuing[c].time)
          IN  /\ row' = [row EXCEPT ![n] = IF issuing[c].dup THEN MarkDeduped(new) ELSE new]
              /\ raced' = IF issuing[c].key # NoKey /\ ~issuing[c].dup /\ Unseen(c) # {}
                           THEN raced \cup {n} ELSE raced
    /\ Issuing(c, IF issuing[c].left > 1
                  THEN [pc |-> "check", key |-> issuing[c].key, time |-> issuing[c].time,
                        left |-> issuing[c].left - 1, seen |-> {}, dup |-> FALSE]
                  ELSE NotIssuing)
    /\ UNCHANGED <<now, deliveries, relay, job, stalls, crashes, sends, overwritten>>

\* RetryFailedNotificationHandler: a failed notification is issued anew, without a key.
RetryFailed(n) ==
    /\ Exists(n) /\ row[n].status = "FAILED"
    /\ \E k \in Fresh : row' = [row EXCEPT ![k] = Issue(NoKey, now)]
    /\ UNCHANGED <<now, issuing, deliveries, relay, job, stalls, crashes, histories>>

----------------------------------------------------------------------------
(* NotificationIssuedOutboxRelay. *)

Relaying(r, rec) == relay' = [relay EXCEPT ![r] = rec]

RelayLoad(r, n) ==
    /\ r \in First({q \in Relays : relay[q].pc = "idle"})
    /\ row[n] # None /\ deliveries[n] < MaxDeliveries[n]
    /\ deliveries' = [deliveries EXCEPT ![n] = @ + 1]
    /\ Relaying(r, IF Exists(n)
                   THEN [pc |-> "add", id |-> n, pending |-> CanTransition(row[n].status, "QUEUED")]
                   ELSE NotRelaying)
    /\ UNCHANGED <<now, row, issuing, job, stalls, crashes, histories>>

\* A job whose id is known to the queue, even a completed one, is not added again.
RelayAdd(r) ==
    /\ relay[r].pc = "add"
    /\ job' = [job EXCEPT ![relay[r].id] = IF @ = "none" THEN "waiting" ELSE @]
    /\ Relaying(r, IF relay[r].pending
                   THEN [pc |-> "save", id |-> relay[r].id, pending |-> TRUE]
                   ELSE NotRelaying)
    /\ UNCHANGED <<now, row, issuing, deliveries, stalls, crashes, histories>>

RelaySave(r) ==
    /\ relay[r].pc = "save"
    /\ LET n == relay[r].id
       IN  /\ row' = Saved(n, Enqueue(row[n]))
           /\ overwritten' = Refused(n, "QUEUED")
    /\ Relaying(r, NotRelaying)
    /\ UNCHANGED <<now, issuing, deliveries, job, stalls, crashes, sends, raced>>

----------------------------------------------------------------------------
(* SendNotificationProcessor; one attempt per job. *)

Job(n, s) == job' = [job EXCEPT ![n] = s]

\* The row is loaded and decided on: nothing to do, an exception, too late, or to be sent.
Take(n) ==
    /\ job[n] = "waiting"
    /\ Job(n, CASE ~Exists(n) -> "over"
                [] Exists(n) /\ row[n].status \in Terminal -> "over"
                [] Exists(n) /\ row[n].status \notin Terminal /\ IsExpired(row[n]) ->
                      IF CanTransition(row[n].status, "EXPIRED") THEN "expiring" ELSE "over"
                [] OTHER -> IF CanTransition(row[n].status, "SENDING") THEN "loaded" ELSE "over")
    /\ UNCHANGED <<now, row, issuing, deliveries, relay, stalls, crashes, histories>>

SaveExpired(n) ==
    /\ job[n] = "expiring"
    /\ row' = Saved(n, MarkExpired(row[n]))
    /\ Job(n, "over")
    /\ overwritten' = Refused(n, "EXPIRED")
    /\ UNCHANGED <<now, issuing, deliveries, relay, stalls, crashes, sends, raced>>

SaveSending(n) ==
    /\ job[n] = "loaded"
    /\ row' = Saved(n, MarkSending(row[n]))
    /\ Job(n, "sending")
    /\ overwritten' = Refused(n, "SENDING")
    /\ UNCHANGED <<now, issuing, deliveries, relay, stalls, crashes, sends, raced>>

Outcomes == {"sent", "retryable", "fatal"}
Dispatch(n) ==
    /\ job[n] = "sending"
    /\ sends' = [sends EXCEPT ![n] = @ + 1]
    /\ \E o \in Outcomes : Job(n, o)
    /\ UNCHANGED <<now, row, issuing, deliveries, relay, stalls, crashes, raced, overwritten>>

MaxAttempts == 3
Record(n) ==
    /\ job[n] \in Outcomes
    /\ CASE job[n] = "sent" -> row' = Saved(n, MarkSent(row[n]))
         [] job[n] = "retryable" /\ Exists(n) /\ row[n].attempts < MaxAttempts -> row' = Saved(n, MarkRetryable(row[n]))
         [] OTHER -> row' = Saved(n, MarkFailed(row[n]))
    /\ Job(n, "recorded")
    /\ overwritten' = Refused(n, "SENT")
    /\ UNCHANGED <<now, issuing, deliveries, relay, stalls, crashes, sends, raced>>

\* The queue learns that the job is over, done or failed.
Finish(n) ==
    /\ job[n] = "recorded"
    /\ Job(n, "over")
    /\ UNCHANGED <<now, row, issuing, deliveries, relay, stalls, crashes, histories>>

\* The worker dies.  The jobs it worked on are found stalled: the queue hands
\* each out once more, and fails it the second time.
InWork == {"loaded", "expiring", "sending", "recorded"} \cup Outcomes
Crash ==
    /\ crashes < MaxCrashes
    /\ crashes' = crashes + 1
    /\ job' = [n \in Ids |-> IF job[n] \notin InWork THEN job[n]
                             ELSE IF stalls[n] = 0 THEN "waiting" ELSE "over"]
    /\ stalls' = [n \in Ids |-> IF job[n] \in InWork THEN 1 ELSE stalls[n]]
    /\ UNCHANGED <<now, row, issuing, deliveries, relay, histories>>

----------------------------------------------------------------------------
(* The two cron jobs, each one statement. *)

Expirable_Pending == {"PENDING"}
Expirable_Failed == {"PENDING", "QUEUED", "FAILED"}
Expirable == {"PENDING", "QUEUED"}
ExpiredCleanup ==
    LET old == {n \in Ids : Exists(n) /\ row[n].status \in Expirable /\ IsExpired(row[n])}
    IN  /\ old # {}
        /\ row' = [n \in Ids |-> IF n \in old THEN MarkExpired(row[n]) ELSE row[n]]
        /\ UNCHANGED <<now, issuing, deliveries, relay, job, stalls, crashes, histories>>

RetentionCleanup ==
    LET old == {n \in Ids : Exists(n) /\ row[n].status \in Terminal /\ now > row[n].created + Keep}
    IN  /\ old # {}
        /\ row' = [n \in Ids |-> IF n \in old THEN Gone ELSE row[n]]
        /\ UNCHANGED <<now, issuing, deliveries, relay, job, stalls, crashes, histories>>

----------------------------------------------------------------------------
IssueStep(c) == CheckDedup(c) \/ SaveIssued(c)
RelayStep(r) == RelayAdd(r) \/ RelaySave(r)
WorkerStep(n) == \/ Take(n) \/ SaveExpired(n) \/ SaveSending(n)
                 \/ Dispatch(n) \/ Record(n) \/ Finish(n)

Next == \/ Tick \/ Crash \/ ExpiredCleanup \/ RetentionCleanup
        \/ \E c \in Issuers : \/ \E k \in Keys \cup {NoKey}, t \in 1..MaxTargets : BeginIssue(c, k, t)
                              \/ IssueStep(c)
        \/ \E r \in Relays : \/ \E n \in Ids : RelayLoad(r, n)
                             \/ RelayStep(r)
        \/ \E n \in Ids : WorkerStep(n) \/ RetryFailed(n)

\* The clock and the cron job of every five minutes go on, the worker takes
\* jobs and goes on with them.  Nothing is assumed of issuers and relays.
Fairness == /\ WF_vars(Tick) /\ WF_vars(ExpiredCleanup)
            /\ \A n \in Ids : WF_vars(WorkerStep(n))

Spec == Init /\ [][Next]_vars /\ Fairness

----------------------------------------------------------------------------
TypeOK ==
    /\ now \in Nat
    /\ row \in [Ids -> Notification \cup {None, Gone}]
    /\ issuing \in [Issuers -> [pc: {"idle", "check", "save"}, key: Keys \cup {NoKey}, time: Nat,
                                left: Nat, seen: SUBSET Ids, dup: BOOLEAN]]
    /\ deliveries \in [Ids -> Nat]
    /\ relay \in [Relays -> [pc: {"idle", "add", "save"}, id: Ids \cup {None}, pending: BOOLEAN]]
    /\ job \in [Ids -> {"none", "waiting", "over"} \cup InWork]
    /\ stalls \in [Ids -> {0, 1}]
    /\ crashes \in Nat
    /\ sends \in [Ids -> Nat]
    /\ raced \subseteq Ids
    /\ overwritten \subseteq Ids

\* Nobody is told one thing twice within the window of its key: one of two
\* such notifications was over when the other was issued, unless both runs
\* looked before either saved, or a stale save brought one back.
OncePerWindow ==
    \A n, k \in Ids :
       (/\ n # k /\ Exists(n) /\ Exists(k)
        /\ {row[n].status, row[k].status} \subseteq {"PENDING", "QUEUED", "SENDING", "SENT"}
        /\ row[n].key = row[k].key /\ row[n].key # NoKey
        /\ row[n].created <= row[k].created /\ row[k].created <= row[n].created + Window)
         => {n, k} \cap (raced \cup overwritten) # {}

\* However the worker crashes, the queue repeats its job and the event its
\* relay, a notification is dispatched again only after a failed attempt was
\* recorded; a stale save of the status is the one exception.
EveryDispatchIsRecorded ==
    \A n \in Ids :
       (Exists(n) /\ n \notin overwritten)
         => sends[n] <= row[n].attempts + (IF row[n].status = "SENDING" THEN 1 ELSE 0)

\* What is over stays as it is, unless it was over between a load and a save:
\* the relay of a repeated event puts it back into the queue, and a worker that
\* loaded it in time sends it after the cron job has expired it.  A suppressed
\* notification, which gets a job as any other, never comes back.
TerminalStays ==
    [][\A n \in Ids : (Exists(n) /\ row[n].status \in Terminal)
          => \/ row'[n] \in {row[n], Gone}
             \/ /\ row[n].status # "DEDUPED"
                /\ \/ \E r \in Relays : relay[r].pc = "save" /\ relay[r].id = n
                   \/ job[n] = "loaded" /\ row[n].status = "EXPIRED"
                   \/ n \in overwritten]_vars

\* Every notification is sent, refused, suppressed or expired in the end,
\* whatever its event, its relay and its job met; only a worker that died while
\* sending leaves one behind, in SENDING, which no job and no cron looks at.
Settles ==
    \A n \in Ids :
       <>[](\/ ~Exists(n)
            \/ row[n].status \in Terminal
            \/ row[n].status = "SENDING" /\ stalls[n] > 0
            \/ row[n].created + Ttl >= MaxNow)
=============================================================================
