------------------------------- MODULE Billing -------------------------------
(***************************************************************************)
(* The subscription of the studio and its monthly invoices.  Two jobs of   *)
(* the scheduler generate invoices and, in the demo, pay them at once; they *)
(* run outside any transaction, so each repository save commits on its own *)
(* and a crash can fall between two of them.  The owner's HTTP requests    *)
(* pay an invoice, cancel the subscription or change its plan, each in one *)
(* transaction of the API.  No row has a version: a save writes the        *)
(* columns in which the aggregate differs from the copy it was loaded from. *)
(***************************************************************************)
EXTENDS Integers, FiniteSets

CONSTANTS Requests,    \* HTTP requests of the owner, each made at most once
          Invoices,    \* identities of invoices, numbers
          Plans,       \* codes of the tariffs
          Starter,     \* the plan a trial begins with
          Tenant,      \* DEFAULT_TENANT_ID
          OwnerId,     \* id of the signed-in owner, which the API takes for the tenant
          AutoPay,     \* DEMO_BILLING_AUTO_PAY
          TrialLen,    \* length of the trial, in the unit of the clock
          Month,       \* length of a month, in the unit of the clock
          MaxNow,      \* bound on the clock
          MaxCrashes,  \* bound on the crashes of the scheduler
          None         \* no row, no copy

ASSUME BillingAssumption ==
    /\ Starter \in Plans
    /\ Invoices \subseteq Nat
    /\ AutoPay \in BOOLEAN
    /\ TrialLen \in Nat \ {0}
    /\ Month \in Nat \ {0}
    /\ MaxNow \in Nat
    /\ MaxCrashes \in Nat

Jobs == {"monthly", "catchup"}
ASSUME JobsAreNotRequests == Requests \cap Jobs = {}

VARIABLES now,      \* the clock
          sub,      \* the row of bil_subscription, or None
          inv,      \* inv[i]: the row of bil_invoice, or None
          at,       \* at[p]: where job or request p stands
          copy,     \* copy[p]: the subscription as p loaded it
          target,   \* target[p]: the invoice p settles
          due,      \* due[j]: the run of job j the queue, or the start of the process, asks for
          crashes,  \* crashes of the scheduler so far
          paidTo,   \* the end of the trial plus a month per recorded payment (history)
          raced,    \* a payment was settled on a subscription billed on meanwhile (history)
          chosen    \* the plan of the last committed choice (history)

vars == <<now, sub, inv, at, copy, target, due, crashes, paidTo, raced, chosen>>

Agents == Requests \cup Jobs
NoTime == -1
SubStatus == {"TRIAL", "ACTIVE", "PAST_DUE", "CANCELLED"}
Subscription == [status: SubStatus, plan: Plans, start: Nat, next: Nat,
                 trialEnds: Nat \cup {NoTime}]
Invoice == [start: Nat, end: Nat, status: {"ISSUED", "PAID"}]

ASSUME NoneIsNoRow == None \notin Subscription /\ None \notin Invoice

JobSteps == {"idle", "read", "check", "insert", "settle", "advance"}
RequestSteps == {"new", "pay", "paying", "cancel", "plan", "done"}

----------------------------------------------------------------------------
(* The aggregates. *)

StartTrial(t) == [status |-> "TRIAL", plan |-> Starter, start |-> t, next |-> t + TrialLen,
                  trialEnds |-> t + TrialLen]

\* markActivated of a trial: the next billing moves, the period does not begin anew.
Activated(s) == [status |-> "ACTIVE", plan |-> s.plan, start |-> s.start,
                 next |-> s.next + Month, trialEnds |-> NoTime]
Reactivated(s, paidUntil) == [status |-> "ACTIVE", plan |-> s.plan, start |-> s.start,
                              next |-> paidUntil, trialEnds |-> s.trialEnds]
PeriodAdvanced(s) == [status |-> s.status, plan |-> s.plan, start |-> s.next,
                      next |-> s.next + Month, trialEnds |-> s.trialEnds]
Cancelled(s) == [status |-> "CANCELLED", plan |-> s.plan, start |-> s.start,
                 next |-> s.next, trialEnds |-> s.trialEnds]
PlanChanged(s, p) == [status |-> s.status, plan |-> p, start |-> s.start,
                      next |-> s.next, trialEnds |-> s.trialEnds]

\* What a recorded payment of an invoice ending at "end" does to the subscription.
Settled_NoElse(s, end) ==
    CASE s.status = "PAST_DUE"  -> Reactivated(s, end)
      [] s.status = "ACTIVE"    -> PeriodAdvanced(s)
      [] s.status = "TRIAL"     -> PeriodAdvanced(Activated(s))
      [] s.status = "CANCELLED" -> s
Settled_TrialOnly(s, end) ==
    CASE s.status = "PAST_DUE"  -> Reactivated(s, end)
      [] s.status = "TRIAL"     -> Activated(s)
      [] OTHER                  -> s
Settled(s, end) ==
    CASE s.status = "PAST_DUE"  -> Reactivated(s, end)
      [] s.status = "ACTIVE"    -> PeriodAdvanced(s)
      [] s.status = "TRIAL"     -> Activated(s)
      [] s.status = "CANCELLED" -> s

\* The invoice of the subscription's current period.
Issued(s) == [start |-> s.start, end |-> s.next, status |-> "ISSUED"]

\* markPaid, whose guard the callers hold on the copy they loaded.
Paid(row) == [start |-> row.start, end |-> row.end, status |-> "PAID"]

\* The UPDATE of a flush: only the columns that differ from the loaded copy.
Column(row, loaded, new) == IF new # loaded THEN new ELSE row
Flush_Whole(row, loaded, new) == new
Flush(row, loaded, new) ==
    [status    |-> Column(row.status, loaded.status, new.status),
     plan      |-> Column(row.plan, loaded.plan, new.plan),
     start     |-> Column(row.start, loaded.start, new.start),
     next      |-> Column(row.next, loaded.next, new.next),
     trialEnds |-> Column(row.trialEnds, loaded.trialEnds, new.trialEnds)]

InvoiceFor(s) == {i \in Invoices : inv[i] # None /\ inv[i].start = s.start /\ inv[i].end = s.next}

\* The next free identity.  Identities are interchangeable: which one a new
\* invoice takes makes no difference.
Fresh == {i \in Invoices : inv[i] = None /\ \A k \in Invoices : inv[k] = None => i <= k}

\* An UPDATE of an invoice in an open transaction holds its row.
Locked(i) == \E r \in Requests : at[r] = "paying" /\ target[r] = i

\* A run that is over, and a request that was answered, forget what they loaded.
Over(j) == /\ at' = [at EXCEPT ![j] = "idle"]
           /\ copy' = [copy EXCEPT ![j] = None]
Answered(r) == /\ at' = [at EXCEPT ![r] = "done"]
               /\ copy' = [copy EXCEPT ![r] = None]
               /\ target' = [target EXCEPT ![r] = None]

----------------------------------------------------------------------------
\* The migration seeds the tenant's trial, unless the installation names another tenant.
Init ==
    /\ now = 0
    /\ sub \in {None, StartTrial(0)}
    /\ inv = [i \in Invoices |-> None]
    /\ at = [p \in Agents |-> IF p \in Jobs THEN "idle" ELSE "new"]
    /\ copy = [p \in Agents |-> None]
    /\ target = [p \in Agents |-> None]
    /\ due = [j \in Jobs |-> j = "catchup"]
    /\ crashes = 0
    /\ paidTo = TrialLen
    /\ raced = FALSE
    /\ chosen = Starter

\* The repeatable job falls due on the first of each month.
Tick ==
    /\ now < MaxNow
    /\ now' = now + 1
    /\ due' = [due EXCEPT !["monthly"] = @ \/ now' % Month = 0]
    /\ UNCHANGED <<sub, inv, at, copy, target, crashes, paidTo, raced, chosen>>

\* BillingBootstrapService of the API: the unique index on the tenant makes
\* the existence check and the insert one step.
Bootstrap ==
    /\ sub = None
    /\ sub' = StartTrial(now)
    /\ paidTo' = now + TrialLen
    /\ UNCHANGED <<now, inv, at, copy, target, due, crashes, raced, chosen>>

MonthlyRun ==
    /\ due["monthly"] /\ at["monthly"] = "idle"
    /\ due' = [due EXCEPT !["monthly"] = FALSE]
    /\ at' = [at EXCEPT !["monthly"] = "read"]
    /\ UNCHANGED <<now, sub, inv, copy, target, crashes, paidTo, raced, chosen>>

\* The check five seconds after the start of the process.
CatchUp ==
    /\ due["catchup"] /\ at["catchup"] = "idle"
    /\ due' = [due EXCEPT !["catchup"] = FALSE]
    /\ LET missed == /\ sub # None
                     /\ sub.status \in {"ACTIVE", "PAST_DUE"}
                     /\ now > sub.next
       IN  at' = [at EXCEPT !["catchup"] = IF missed THEN "read" ELSE "idle"]
    /\ UNCHANGED <<now, sub, inv, copy, target, crashes, paidTo, raced, chosen>>

----------------------------------------------------------------------------
(* GenerateMonthlyInvoiceHandler, between whose awaits others run. *)

\* The subscription is loaded; nothing to bill ends the run, and so does an
\* exception: the job logs it and goes on to the next tenant.
Billable_PaidOnly(s) == /\ s # None
                        /\ s.status \in {"ACTIVE", "PAST_DUE"}
                        /\ s.start < s.next
Billable(s) == /\ s # None
               /\ s.status # "CANCELLED"
               /\ ~(s.status = "TRIAL" /\ s.trialEnds # NoTime /\ now < s.trialEnds)
               /\ s.start < s.next
GenRead(j) ==
    /\ at[j] = "read"
    /\ at' = [at EXCEPT ![j] = IF Billable(sub) THEN "check" ELSE "idle"]
    /\ copy' = [copy EXCEPT ![j] = IF Billable(sub) THEN sub ELSE None]
    /\ UNCHANGED <<now, sub, inv, target, due, crashes, paidTo, raced, chosen>>

GenCheck(j) ==
    /\ at[j] = "check"
    /\ IF InvoiceFor(copy[j]) = {} THEN at' = [at EXCEPT ![j] = "insert"] /\ UNCHANGED copy
                                    ELSE Over(j)
    /\ UNCHANGED <<now, sub, inv, target, due, crashes, paidTo, raced, chosen>>

\* The INSERT, which the unique index on the period refuses the second time.
GenInsert_NoIndex(j) ==
    /\ at[j] = "insert"
    /\ IF copy[j].start >= copy[j].next
       THEN Over(j) /\ UNCHANGED <<inv, target>>
       ELSE \E i \in Fresh :
            /\ inv' = [inv EXCEPT ![i] = Issued(copy[j])]
            /\ IF AutoPay THEN /\ at' = [at EXCEPT ![j] = "settle"]
                               /\ target' = [target EXCEPT ![j] = i]
                               /\ UNCHANGED copy
                          ELSE Over(j) /\ UNCHANGED target
    /\ UNCHANGED <<now, sub, due, crashes, paidTo, raced, chosen>>
GenInsert(j) ==
    /\ at[j] = "insert"
    /\ IF InvoiceFor(copy[j]) # {}
       THEN Over(j) /\ UNCHANGED <<inv, target>>
       ELSE \E i \in Fresh :
            /\ inv' = [inv EXCEPT ![i] = Issued(copy[j])]
            /\ IF AutoPay THEN /\ at' = [at EXCEPT ![j] = "settle"]
                               /\ target' = [target EXCEPT ![j] = i]
                               /\ UNCHANGED copy
                          ELSE Over(j) /\ UNCHANGED target
    /\ UNCHANGED <<now, sub, due, crashes, paidTo, raced, chosen>>

(* MarkInvoicePaidHandler run by a job: the invoice and the subscription it
   works on are the ones it already holds, and each save commits alone. *)
SettleInvoice(j) ==
    /\ at[j] = "settle"
    /\ ~Locked(target[j])
    /\ inv' = [inv EXCEPT ![target[j]] = Paid(@)]
    /\ paidTo' = paidTo + Month
    /\ at' = [at EXCEPT ![j] = "advance"]
    /\ UNCHANGED <<now, sub, copy, target, due, crashes, raced, chosen>>

SettleSubscription(j) ==
    /\ at[j] = "advance"
    /\ sub' = Flush(sub, copy[j], Settled(copy[j], inv[target[j]].end))
    /\ raced' = (raced \/ sub.next # copy[j].next)
    /\ Over(j)
    /\ target' = [target EXCEPT ![j] = None]
    /\ UNCHANGED <<now, inv, due, crashes, paidTo, chosen>>

\* The process dies and starts again: a run it was making is stalled, so the
\* queue hands it out once more, and the check at the start is due.
Crash ==
    /\ crashes < MaxCrashes
    /\ crashes' = crashes + 1
    /\ due' = [j \in Jobs |-> j = "catchup" \/ due[j] \/ at[j] # "idle"]
    /\ at' = [p \in Agents |-> IF p \in Jobs THEN "idle" ELSE at[p]]
    /\ copy' = [p \in Agents |-> IF p \in Jobs THEN None ELSE copy[p]]
    /\ target' = [p \in Agents |-> IF p \in Jobs THEN None ELSE target[p]]
    /\ UNCHANGED <<now, sub, inv, paidTo, raced, chosen>>

----------------------------------------------------------------------------
(* The owner's requests. *)

\* PayInvoiceHandler: a paid invoice is a 409; the copy of an issued one is
\* what MarkInvoicePaid works on.
PayRead(r, i) ==
    /\ at[r] = "new" /\ AutoPay
    /\ inv[i] # None /\ inv[i].status = "ISSUED"
    /\ at' = [at EXCEPT ![r] = "pay"]
    /\ target' = [target EXCEPT ![r] = i]
    /\ UNCHANGED <<now, sub, inv, copy, due, crashes, paidTo, raced, chosen>>

\* The UPDATE of the invoice takes its row until the commit; the subscription is read after it.
PayLock(r) ==
    /\ at[r] = "pay"
    /\ ~Locked(target[r])
    /\ at' = [at EXCEPT ![r] = "paying"]
    /\ copy' = [copy EXCEPT ![r] = sub]
    /\ UNCHANGED <<now, sub, inv, target, due, crashes, paidTo, raced, chosen>>

PayCommit(r) ==
    /\ at[r] = "paying"
    /\ inv' = [inv EXCEPT ![target[r]] = Paid(@)]
    /\ paidTo' = paidTo + Month
    /\ sub' = Flush(sub, copy[r], Settled(copy[r], inv[target[r]].end))
    /\ raced' = (raced \/ sub.next # copy[r].next)
    /\ Answered(r)
    /\ UNCHANGED <<now, due, crashes, chosen>>

\* The subscription of the tenant the controller names: the user's own id.
Loaded(r, step) ==
    /\ at[r] = "new"
    /\ OwnerId = Tenant
    /\ sub # None /\ sub.status # "CANCELLED"
    /\ at' = [at EXCEPT ![r] = step]
    /\ copy' = [copy EXCEPT ![r] = sub]
    /\ UNCHANGED <<now, sub, inv, target, due, crashes, paidTo, raced, chosen>>

Saved(r, new) ==
    /\ sub' = Flush(sub, copy[r], new)
    /\ Answered(r)
    /\ UNCHANGED <<now, inv, due, crashes, paidTo, raced>>

CancelRead(r) == Loaded(r, "cancel")
CancelCommit(r) == at[r] = "cancel" /\ Saved(r, Cancelled(copy[r])) /\ UNCHANGED chosen

ChangePlanRead(r) == Loaded(r, "plan")
ChangePlanCommit(r) ==
    /\ at[r] = "plan"
    /\ \E p \in Plans \ {copy[r].plan} :
          Saved(r, PlanChanged(copy[r], p)) /\ chosen' = p

----------------------------------------------------------------------------
JobStep(j) == \/ GenRead(j) \/ GenCheck(j) \/ GenInsert(j)
              \/ SettleInvoice(j) \/ SettleSubscription(j)
PayStep(r) == PayLock(r) \/ PayCommit(r)
RequestStep(r) == \/ \E i \in Invoices : PayRead(r, i)
                  \/ PayStep(r)
                  \/ CancelRead(r) \/ CancelCommit(r)
                  \/ ChangePlanRead(r) \/ ChangePlanCommit(r)

Next == \/ Tick \/ Bootstrap \/ MonthlyRun \/ CatchUp \/ Crash
        \/ \E j \in Jobs : JobStep(j)
        \/ \E r \in Requests : RequestStep(r)

\* The clock goes on, the API starts, a due run is made, a run and a
\* transaction that began go on to their end; nobody has to make a request.
Fairness == /\ WF_vars(Tick) /\ WF_vars(Bootstrap)
            /\ WF_vars(MonthlyRun) /\ WF_vars(CatchUp)
            /\ \A j \in Jobs : WF_vars(JobStep(j))
            /\ \A r \in Requests : WF_vars(PayStep(r))

Spec == Init /\ [][Next]_vars /\ Fairness

----------------------------------------------------------------------------
TypeOK ==
    /\ now \in Nat
    /\ sub \in Subscription \cup {None}
    /\ inv \in [Invoices -> Invoice \cup {None}]
    /\ at \in [Agents -> JobSteps \cup RequestSteps]
    /\ copy \in [Agents -> Subscription \cup {None}]
    /\ target \in [Agents -> Invoices \cup {None}]
    /\ due \in [Jobs -> BOOLEAN]
    /\ crashes \in Nat
    /\ paidTo \in Nat
    /\ raced \in BOOLEAN
    /\ chosen \in Plans

----------------------------------------------------------------------------
(* What the bookkeeping promises. *)

\* The service never runs ahead of the money: however payments race, the next
\* billing date is at most one month per recorded payment past the end of the
\* trial (markActivated and advancePeriod, applied to copies that may be stale).
NextWithinPaid == sub # None => sub.next <= paidTo

\* A period is invoiced once, although the monthly run and the catch-up both
\* look for its invoice before either inserts one (uq_invoice_period).
OneInvoicePerPeriod ==
    \A i, k \in Invoices :
       (i # k /\ inv[i] # None /\ inv[k] # None)
          => <<inv[i].start, inv[i].end>> # <<inv[k].start, inv[k].end>>

\* A change of plan survives every settlement and cancellation that loaded the
\* subscription before it and saves it after.
PlanIsTheChosen == sub # None => sub.plan = chosen

\* A cancelled subscription comes back only by the settlement of a payment
\* that loaded it while it was still a trial.
CancelledStays ==
    [][(sub # None /\ sub.status = "CANCELLED")
          => \/ sub'.status = "CANCELLED"
             \/ \E p \in Agents : /\ at[p] \in {"paying", "advance"}
                                  /\ copy[p].status = "TRIAL"]_vars

\* The period being billed is not paid already, unless a payment is on its way
\* to the subscription: a subscription whose period is paid is never billed
\* again (GenCheck finds the invoice) and nobody can move it on (its invoice
\* is a 409).  Only two accidents leave it so: the scheduler died between the
\* two saves of a payment, or a payment was settled on a copy of a
\* subscription that another payment had moved on.
StuckNeedsAnAccident ==
    (/\ sub # None /\ sub.status # "CANCELLED"
     /\ crashes = 0 /\ ~raced
     /\ \A p \in Agents : at[p] \notin {"paying", "advance"})
       => \A i \in InvoiceFor(sub) : inv[i].status = "ISSUED"

\* A trial that is over turns into something else in the end: a paying
\* subscription or a cancelled one, if the scheduler never dies.
TrialEnds ==
    (sub # None /\ sub.status = "TRIAL" /\ now >= sub.next /\ now + Month <= MaxNow)
       ~> ((sub # None /\ sub.status # "TRIAL") \/ crashes > 0 \/ ~AutoPay)

\* A payment is recorded once: it turns an issued invoice into a paid one.
PaidOnce ==
    [][paidTo' > paidTo /\ sub # None
          => \E i \in Invoices : inv[i] # None /\ inv[i].status = "ISSUED"
                                               /\ inv'[i].status = "PAID"]_vars
============================================================================
