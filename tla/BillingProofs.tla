--------------------------- MODULE BillingProofs ---------------------------
(***************************************************************************)
(* Theorems about the billing of one tenant, for any number of requests,   *)
(* invoices and crashes and for a clock of any bound.                      *)
(*                                                                         *)
(* Every step leaves all agents but one alone, and what it does to the     *)
(* rows is little: rows never disappear and, once there is a subscription, *)
(* the money recorded never shrinks (Grows).  An agent that is left alone  *)
(* by such a step keeps its part of the invariant (AgentKept), so each     *)
(* action is left with the agent that takes it.  The last part proves,     *)
(* with an invariant of its own, that only an accident leaves a paid       *)
(* period unbilled.                                                        *)
(***************************************************************************)
EXTENDS Billing, TLAPS

(***************************************************************************)
(* The inductive invariant.                                                *)
(***************************************************************************)
\* A copy was loaded from a row, and what its holder will add to the next
\* billing date is paid for.  markPastDue has no caller.
CopyOK(p) ==
  copy[p] # None => /\ sub # None
                    /\ copy[p].status # "PAST_DUE"
                    /\ copy[p].next <= paidTo
                    /\ at[p] = "advance" => copy[p].next + Month <= paidTo

\* An agent between two of its steps holds what the next one works on.
HoldsOK(p) ==
  /\ at[p] \in {"check", "insert", "settle", "advance", "paying", "cancel", "plan"}
       => copy[p] # None
  /\ at[p] \in {"settle", "advance", "pay", "paying"}
       => target[p] \in Invoices /\ inv[target[p]] # None

RowsOK ==
  /\ sub # None => sub.status # "PAST_DUE" /\ sub.next <= paidTo /\ sub.plan = chosen
  /\ sub = None => chosen = Starter /\ \A i \in Invoices : inv[i] = None

IInv ==
  /\ TypeOK
  /\ RowsOK
  /\ OneInvoicePerPeriod
  /\ \A p \in Agents : CopyOK(p) /\ HoldsOK(p)

(***************************************************************************)
(* What a settlement and a flush do to a subscription.                     *)
(***************************************************************************)
LEMMA SettledOK ==
  ASSUME NEW s \in Subscription, NEW end \in Nat, s.status # "PAST_DUE"
  PROVE  /\ Settled(s, end) \in Subscription
         /\ Settled(s, end).status # "PAST_DUE"
         /\ Settled(s, end).plan = s.plan
         /\ Settled(s, end).next \in {s.next, s.next + Month}
         /\ s.status # "TRIAL" => Settled(s, end).status = s.status
BY BillingAssumption DEF Settled, Reactivated, PeriodAdvanced, Activated,
   Subscription, SubStatus, NoTime

LEMMA FlushType ==
  ASSUME NEW row \in Subscription, NEW loaded \in Subscription, NEW new \in Subscription
  PROVE  Flush(row, loaded, new) \in Subscription
BY DEF Flush, Column, Subscription

\* A flush of a copy whose plan was not touched leaves the plan of the row.
LEMMA FlushSettled ==
  ASSUME NEW row \in Subscription, NEW loaded \in Subscription, NEW end \in Nat,
         NEW paid \in Nat, row.status # "PAST_DUE", loaded.status # "PAST_DUE",
         row.next <= paid, loaded.next + Month <= paid
  PROVE  LET f == Flush(row, loaded, Settled(loaded, end))
         IN  /\ f \in Subscription
             /\ f.status # "PAST_DUE"
             /\ f.next <= paid
             /\ f.plan = row.plan
             /\ row.status = "CANCELLED" /\ f.status # "CANCELLED" => loaded.status = "TRIAL"
<1> DEFINE n == Settled(loaded, end)
<1>1. /\ n \in Subscription /\ n.status # "PAST_DUE" /\ n.plan = loaded.plan
      /\ n.next \in {loaded.next, loaded.next + Month}
      /\ loaded.status # "TRIAL" => n.status = loaded.status
  BY SettledOK
<1> HIDE DEF n
<1>2. Flush(row, loaded, n) \in Subscription
  BY <1>1, FlushType
<1>3. /\ Flush(row, loaded, n).status \in {row.status, n.status}
      /\ Flush(row, loaded, n).status = n.status => n.status # loaded.status \/ row.status = n.status
      /\ Flush(row, loaded, n).plan = row.plan
  BY <1>1 DEF Flush, Column
<1>4. Flush(row, loaded, n).next <= paid
  BY <1>1, BillingAssumption DEF Flush, Column, Subscription
<1> QED
  BY <1>1, <1>2, <1>3, <1>4 DEF n

(***************************************************************************)
(* What a step leaves alone.                                               *)
(***************************************************************************)
Quiet(p) == at'[p] = at[p] /\ copy'[p] = copy[p] /\ target'[p] = target[p]

Grows == /\ sub # None => sub' # None /\ paidTo <= paidTo'
         /\ \A i \in Invoices : inv[i] # None => inv'[i] # None

LEMMA AgentKept ==
  ASSUME TypeOK, TypeOK', Grows, NEW p \in Agents, Quiet(p), CopyOK(p), HoldsOK(p)
  PROVE  CopyOK(p)' /\ HoldsOK(p)'
<1>1. ASSUME copy[p] # None
      PROVE  /\ sub # None /\ paidTo <= paidTo' /\ copy'[p] = copy[p] /\ at'[p] = at[p]
             /\ copy[p].next \in Nat /\ paidTo \in Nat /\ paidTo' \in Nat
  BY <1>1 DEF TypeOK, Grows, Quiet, CopyOK, Subscription
<1>2. CopyOK(p)'
  BY <1>1, BillingAssumption DEF CopyOK, Grows, Quiet
<1>3. HoldsOK(p)'
  BY DEF HoldsOK, Grows, Quiet
<1> QED
  BY <1>2, <1>3

\* A step that leaves the rows and the money alone.
LEMMA RowsKept ==
  ASSUME RowsOK, OneInvoicePerPeriod, UNCHANGED <<sub, inv, paidTo, chosen>>
  PROVE  RowsOK' /\ OneInvoicePerPeriod' /\ (TypeOK => Grows)
BY DEF RowsOK, OneInvoicePerPeriod, Grows, TypeOK

LEMMA InitOK == Init => IInv
<1> SUFFICES ASSUME Init PROVE IInv
  OBVIOUS
<1>1. StartTrial(0) \in Subscription
  BY BillingAssumption DEF StartTrial, Subscription, SubStatus
<1>2. TypeOK
  BY <1>1, BillingAssumption DEF Init, TypeOK, JobSteps, RequestSteps
<1>3. RowsOK
  BY BillingAssumption DEF Init, RowsOK, StartTrial
<1>4. OneInvoicePerPeriod
  BY DEF Init, OneInvoicePerPeriod
<1>5. \A p \in Agents : CopyOK(p) /\ HoldsOK(p)
  BY DEF Init, CopyOK, HoldsOK
<1> QED
  BY <1>2, <1>3, <1>4, <1>5 DEF IInv

(***************************************************************************)
(* One lemma for each action or group of actions.                          *)
(***************************************************************************)
LEMMA ClockOK == IInv /\ (Tick \/ MonthlyRun \/ CatchUp) => IInv'
<1> SUFFICES ASSUME IInv, Tick \/ MonthlyRun \/ CatchUp PROVE IInv'
  OBVIOUS
<1> USE DEF IInv
<1>1. UNCHANGED <<sub, inv, copy, target, paidTo, chosen>>
  BY DEF Tick, MonthlyRun, CatchUp
<1>2. \A p \in Agents : at'[p] = at[p] \/ at'[p] \in {"idle", "read"}
  BY DEF Tick, MonthlyRun, CatchUp, TypeOK
<1>3. TypeOK'
  <2>1. CASE Tick
    <3>1. (due["monthly"] \/ now' % Month = 0) \in BOOLEAN
      BY Zenon
    <3>2. PICK m \in BOOLEAN : due' = [due EXCEPT !["monthly"] = m]
      BY <2>1, <3>1, Zenon DEF Tick
    <3>3. now' = now + 1 /\ UNCHANGED <<sub, inv, at, copy, target, crashes, paidTo, raced, chosen>>
      BY <2>1 DEF Tick
    <3>4. due' \in [Jobs -> BOOLEAN]
      BY <3>2 DEF TypeOK
    <3>5. now' \in Nat
      BY <3>3 DEF TypeOK
    <3> QED
      BY <3>3, <3>4, <3>5 DEF TypeOK
  <2>2. CASE MonthlyRun
    BY <2>2 DEF MonthlyRun, TypeOK, JobSteps
  <2>3. CASE CatchUp
    BY <2>3 DEF CatchUp, TypeOK, JobSteps
  <2> QED
    BY <2>1, <2>2, <2>3
<1>4. RowsOK' /\ OneInvoicePerPeriod'
  BY <1>1, RowsKept
<1>5. ASSUME NEW p \in Agents PROVE CopyOK(p)' /\ HoldsOK(p)'
  BY <1>1, <1>2 DEF CopyOK, HoldsOK
<1> QED
  BY <1>3, <1>4, <1>5

LEMMA BootstrapOK == IInv /\ Bootstrap => IInv'
<1> SUFFICES ASSUME IInv, Bootstrap PROVE IInv'
  OBVIOUS
<1> USE DEF IInv
<1>1. StartTrial(now) \in Subscription
  BY BillingAssumption DEF TypeOK, StartTrial, Subscription, SubStatus, NoTime
<1>2. TypeOK'
  BY <1>1, BillingAssumption DEF Bootstrap, TypeOK
<1>3. RowsOK' /\ OneInvoicePerPeriod'
  BY <1>1, NoneIsNoRow, BillingAssumption
     DEF Bootstrap, RowsOK, OneInvoicePerPeriod, StartTrial, TypeOK
<1>4. ASSUME NEW p \in Agents PROVE CopyOK(p)' /\ HoldsOK(p)'
  BY DEF Bootstrap, CopyOK, HoldsOK
<1> QED
  BY <1>2, <1>3, <1>4

LEMMA GenReadOK == ASSUME NEW j \in Jobs PROVE IInv /\ GenRead(j) => IInv'
<1> SUFFICES ASSUME IInv, GenRead(j) PROVE IInv'
  OBVIOUS
<1> USE DEF IInv
<1>0. j \in Agents
  BY DEF Agents
<1>1. UNCHANGED <<sub, inv, target, paidTo, chosen>>
  BY DEF GenRead
<1>2. TypeOK'
  BY <1>0 DEF GenRead, TypeOK, JobSteps, Billable
<1>3. RowsOK' /\ OneInvoicePerPeriod' /\ Grows
  BY <1>1, RowsKept
<1>4. CopyOK(j)' /\ HoldsOK(j)'
  BY <1>0 DEF GenRead, CopyOK, HoldsOK, Billable, RowsOK, TypeOK
<1>5. ASSUME NEW p \in Agents \ {j} PROVE CopyOK(p)' /\ HoldsOK(p)'
  <2>1. Quiet(p)
    BY <1>0 DEF GenRead, TypeOK, Quiet
  <2> QED
    BY <2>1, <1>2, <1>3, AgentKept
<1> QED
  BY <1>2, <1>3, <1>4, <1>5

LEMMA GenCheckOK == ASSUME NEW j \in Jobs PROVE IInv /\ GenCheck(j) => IInv'
<1> SUFFICES ASSUME IInv, GenCheck(j) PROVE IInv'
  OBVIOUS
<1> USE DEF IInv
<1>0. j \in Agents
  BY DEF Agents
<1>1. UNCHANGED <<sub, inv, target, paidTo, chosen>>
  BY DEF GenCheck
<1>2. TypeOK'
  BY <1>0 DEF GenCheck, Over, TypeOK, JobSteps
<1>3. RowsOK' /\ OneInvoicePerPeriod' /\ Grows
  BY <1>1, RowsKept
<1>4. CopyOK(j)' /\ HoldsOK(j)'
  BY <1>0 DEF GenCheck, Over, CopyOK, HoldsOK, TypeOK
<1>5. ASSUME NEW p \in Agents \ {j} PROVE CopyOK(p)' /\ HoldsOK(p)'
  <2>1. Quiet(p)
    BY <1>0 DEF GenCheck, Over, TypeOK, Quiet
  <2> QED
    BY <2>1, <1>2, <1>3, AgentKept
<1> QED
  BY <1>2, <1>3, <1>4, <1>5

LEMMA GenInsertOK == ASSUME NEW j \in Jobs PROVE IInv /\ GenInsert(j) => IInv'
<1> SUFFICES ASSUME IInv, GenInsert(j) PROVE IInv'
  OBVIOUS
<1> USE DEF IInv
<1>0. j \in Agents /\ copy[j] # None /\ copy[j] \in Subscription /\ sub # None
  BY DEF Agents, GenInsert, HoldsOK, CopyOK, TypeOK
<1>1. UNCHANGED <<sub, paidTo, chosen>>
  BY DEF GenInsert
<1>2. TypeOK' /\ Grows /\ OneInvoicePerPeriod' /\ CopyOK(j)' /\ HoldsOK(j)'
  <2>1. CASE InvoiceFor(copy[j]) # {}
    <3>1. at' = [at EXCEPT ![j] = "idle"] /\ copy' = [copy EXCEPT ![j] = None]
          /\ UNCHANGED <<now, sub, inv, target, due, crashes, paidTo, raced, chosen>>
      BY <2>1 DEF GenInsert, Over
    <3> QED
      BY <1>0, <3>1, RowsKept DEF TypeOK, JobSteps, CopyOK, HoldsOK
  <2>2. CASE InvoiceFor(copy[j]) = {}
    <3> DEFINE row == Issued(copy[j])
    <3>1. PICK i \in Fresh :
            /\ inv' = [inv EXCEPT ![i] = row]
            /\ IF AutoPay THEN /\ at' = [at EXCEPT ![j] = "settle"]
                               /\ target' = [target EXCEPT ![j] = i]
                               /\ UNCHANGED copy
                          ELSE Over(j) /\ UNCHANGED target
      BY <2>2 DEF GenInsert
    <3>2. UNCHANGED <<now, sub, due, crashes, paidTo, raced, chosen>>
      BY DEF GenInsert
    <3>3. row \in Invoice /\ row # None
      BY <1>0, NoneIsNoRow DEF Issued, Invoice, Subscription
    <3>3a. row.start = copy[j].start /\ row.end = copy[j].next
      BY DEF Issued
    <3>4. i \in Invoices /\ inv[i] = None
      BY DEF Fresh
    <3> HIDE DEF row
    <3>5. inv' \in [Invoices -> Invoice \cup {None}]
      BY <3>1, <3>3, <3>4 DEF TypeOK
    <3>6. TypeOK'
      BY <1>0, <3>1, <3>2, <3>4, <3>5 DEF Over, TypeOK, JobSteps
    <3>7. Grows
      BY <3>1, <3>2, <3>3, <3>4, BillingAssumption DEF Grows, TypeOK
    <3>8. OneInvoicePerPeriod'
      <4>1. \A k \in Invoices : inv[k] # None => <<inv[k].start, inv[k].end>> # <<row.start, row.end>>
        BY <2>2, <3>3a DEF InvoiceFor
      <4> QED
        BY <4>1, <3>1, <3>3, <3>4 DEF OneInvoicePerPeriod, TypeOK
    <3>9. CopyOK(j)' /\ HoldsOK(j)'
      BY <1>0, <3>1, <3>2, <3>3, <3>4 DEF Over, CopyOK, HoldsOK, TypeOK
    <3> QED
      BY <3>6, <3>7, <3>8, <3>9
  <2> QED
    BY <2>1, <2>2
<1>3. RowsOK'
  BY <1>0, <1>1 DEF RowsOK
<1>5. ASSUME NEW p \in Agents \ {j} PROVE CopyOK(p)' /\ HoldsOK(p)'
  <2>1. Quiet(p)
    BY <1>0 DEF GenInsert, Over, TypeOK, Quiet
  <2> QED
    BY <2>1, <1>2, AgentKept
<1> QED
  BY <1>2, <1>3, <1>5

\* The payment of an invoice keeps its period, and so the periods apart.
LEMMA PaidOK ==
  ASSUME TypeOK, OneInvoicePerPeriod, NEW i \in Invoices, inv[i] # None,
         inv' = [inv EXCEPT ![i] = Paid(inv[i])]
  PROVE  /\ inv' \in [Invoices -> Invoice \cup {None}]
         /\ \A k \in Invoices : inv[k] # None <=> inv'[k] # None
         /\ OneInvoicePerPeriod'
<1>1. Paid(inv[i]) \in Invoice /\ Paid(inv[i]) # None
  BY NoneIsNoRow DEF TypeOK, Paid, Invoice
<1>2. Paid(inv[i]).start = inv[i].start /\ Paid(inv[i]).end = inv[i].end
  BY DEF Paid
<1> QED
  BY <1>1, <1>2 DEF TypeOK, OneInvoicePerPeriod

LEMMA SettleInvoiceOK == ASSUME NEW j \in Jobs PROVE IInv /\ SettleInvoice(j) => IInv'
<1> SUFFICES ASSUME IInv, SettleInvoice(j) PROVE IInv'
  OBVIOUS
<1> USE DEF IInv
<1>0. /\ j \in Agents /\ copy[j] # None /\ copy[j] \in Subscription /\ sub # None
      /\ target[j] \in Invoices /\ inv[target[j]] # None
  BY DEF Agents, SettleInvoice, HoldsOK, CopyOK, TypeOK
<1>1. /\ UNCHANGED <<now, sub, copy, target, due, crashes, raced, chosen>>
      /\ paidTo' = paidTo + Month
      /\ at' = [at EXCEPT ![j] = "advance"]
      /\ inv' = [inv EXCEPT ![target[j]] = Paid(inv[target[j]])]
  BY <1>0 DEF SettleInvoice, TypeOK
<1>2. /\ inv' \in [Invoices -> Invoice \cup {None}]
      /\ \A k \in Invoices : inv[k] # None <=> inv'[k] # None
      /\ OneInvoicePerPeriod'
  BY <1>0, <1>1, PaidOK
<1>3. TypeOK' /\ Grows
  BY <1>0, <1>1, <1>2, BillingAssumption DEF TypeOK, Grows, JobSteps
<1>4. RowsOK'
  BY <1>0, <1>1, <1>2, BillingAssumption DEF RowsOK, TypeOK, Subscription
<1>5. CopyOK(j)' /\ HoldsOK(j)'
  <2>1. copy'[j] = copy[j] /\ copy[j].next <= paidTo /\ copy[j].status # "PAST_DUE"
    BY <1>0, <1>1 DEF CopyOK
  <2>2. copy[j].next + Month <= paidTo' /\ copy[j].next <= paidTo'
    BY <1>0, <1>1, <2>1, BillingAssumption DEF TypeOK, Subscription
  <2>3. CopyOK(j)'
    BY <1>0, <1>1, <2>1, <2>2 DEF CopyOK
  <2>4. HoldsOK(j)'
    BY <1>0, <1>1, <1>2 DEF HoldsOK, TypeOK
  <2> QED
    BY <2>3, <2>4
<1>6. ASSUME NEW p \in Agents \ {j} PROVE CopyOK(p)' /\ HoldsOK(p)'
  <2>1. Quiet(p)
    BY <1>0, <1>1 DEF TypeOK, Quiet
  <2> QED
    BY <2>1, <1>3, AgentKept
<1> QED
  BY <1>2, <1>3, <1>4, <1>5, <1>6

LEMMA SettleSubscriptionOK == ASSUME NEW j \in Jobs PROVE IInv /\ SettleSubscription(j) => IInv'
<1> SUFFICES ASSUME IInv, SettleSubscription(j) PROVE IInv'
  OBVIOUS
<1> USE DEF IInv
<1>0. /\ j \in Agents /\ copy[j] # None /\ copy[j] \in Subscription
      /\ sub # None /\ sub \in Subscription
      /\ target[j] \in Invoices /\ inv[target[j]] \in Invoice
  BY DEF Agents, SettleSubscription, HoldsOK, CopyOK, TypeOK
<1>1. /\ sub' \in Subscription /\ sub' # None
      /\ sub'.status # "PAST_DUE" /\ sub'.next <= paidTo /\ sub'.plan = sub.plan
  <2>1. inv[target[j]].end \in Nat /\ paidTo \in Nat
    BY <1>0 DEF Invoice, TypeOK
  <2>2. /\ sub.status # "PAST_DUE" /\ copy[j].status # "PAST_DUE" /\ sub.next <= paidTo
        /\ copy[j].next + Month <= paidTo
    BY <1>0 DEF RowsOK, CopyOK, SettleSubscription
  <2>3. sub' = Flush(sub, copy[j], Settled(copy[j], inv[target[j]].end))
    BY DEF SettleSubscription
  <2> QED
    BY <1>0, <2>1, <2>2, <2>3, FlushSettled, NoneIsNoRow
<1>2. /\ at' = [at EXCEPT ![j] = "idle"] /\ copy' = [copy EXCEPT ![j] = None]
      /\ target' = [target EXCEPT ![j] = None]
      /\ UNCHANGED <<now, inv, due, crashes, paidTo, chosen>>
      /\ raced' = (raced \/ sub.next # copy[j].next)
  BY DEF SettleSubscription, Over
<1>3a. raced' \in BOOLEAN
  BY <1>2 DEF TypeOK
<1>3. TypeOK' /\ Grows
  BY <1>0, <1>1, <1>2, <1>3a DEF TypeOK, Grows, JobSteps
<1>4. RowsOK' /\ OneInvoicePerPeriod'
  BY <1>0, <1>1, <1>2 DEF RowsOK, OneInvoicePerPeriod
<1>5. CopyOK(j)' /\ HoldsOK(j)'
  BY <1>0, <1>2 DEF CopyOK, HoldsOK, TypeOK
<1>6. ASSUME NEW p \in Agents \ {j} PROVE CopyOK(p)' /\ HoldsOK(p)'
  <2>1. Quiet(p)
    BY <1>0, <1>2 DEF TypeOK, Quiet
  <2> QED
    BY <2>1, <1>3, AgentKept
<1> QED
  BY <1>3, <1>4, <1>5, <1>6

LEMMA CrashOK == IInv /\ Crash => IInv'
<1> SUFFICES ASSUME IInv, Crash PROVE IInv'
  OBVIOUS
<1> USE DEF IInv
<1>1. UNCHANGED <<now, sub, inv, paidTo, raced, chosen>>
  BY DEF Crash
<1>2. TypeOK'
  BY DEF Crash, TypeOK, JobSteps, Agents
<1>3. RowsOK' /\ OneInvoicePerPeriod' /\ Grows
  BY <1>1, RowsKept
<1>4. ASSUME NEW p \in Agents PROVE CopyOK(p)' /\ HoldsOK(p)'
  <2>1. CASE p \in Jobs
    BY <2>1 DEF Crash, CopyOK, HoldsOK, Agents
  <2>2. CASE p \notin Jobs
    <3>1. Quiet(p)
      BY <2>2 DEF Crash, Quiet
    <3> QED
      BY <3>1, <1>2, <1>3, AgentKept
  <2> QED
    BY <2>1, <2>2
<1> QED
  BY <1>2, <1>3, <1>4

\* The first halves of the requests: a row or two is read, nothing is written.
LEMMA ReadsOK ==
  ASSUME NEW r \in Requests,
         IInv, (\E i \in Invoices : PayRead(r, i)) \/ PayLock(r) \/ CancelRead(r) \/ ChangePlanRead(r)
  PROVE  IInv'
<1> USE DEF IInv
<1>0. r \in Agents
  BY DEF Agents
<1>1. UNCHANGED <<now, sub, inv, due, crashes, paidTo, raced, chosen>>
  BY DEF PayRead, PayLock, CancelRead, ChangePlanRead, Loaded
<1>2. RowsOK' /\ OneInvoicePerPeriod' /\ Grows
  BY <1>1, RowsKept
<1>3. TypeOK' /\ CopyOK(r)' /\ HoldsOK(r)' /\ \A p \in Agents \ {r} : Quiet(p)
  <2>1. ASSUME NEW i \in Invoices, PayRead(r, i)
        PROVE  TypeOK' /\ CopyOK(r)' /\ HoldsOK(r)' /\ \A p \in Agents \ {r} : Quiet(p)
    BY <1>0, <2>1 DEF PayRead, TypeOK, RequestSteps, CopyOK, HoldsOK, Quiet
  <2>2. CASE PayLock(r)
    BY <1>0, <2>2 DEF PayLock, TypeOK, RequestSteps, CopyOK, HoldsOK, Quiet, RowsOK
  <2>3. ASSUME NEW step \in {"cancel", "plan"}, Loaded(r, step)
        PROVE  TypeOK' /\ CopyOK(r)' /\ HoldsOK(r)' /\ \A p \in Agents \ {r} : Quiet(p)
    BY <1>0, <2>3 DEF Loaded, TypeOK, RequestSteps, CopyOK, HoldsOK, Quiet, RowsOK
  <2> QED
    BY <2>1, <2>2, <2>3 DEF CancelRead, ChangePlanRead
<1>4. ASSUME NEW p \in Agents \ {r} PROVE CopyOK(p)' /\ HoldsOK(p)'
  BY <1>2, <1>3, AgentKept
<1> QED
  BY <1>2, <1>3, <1>4

\* What all the second halves have in common.
LEMMA AnsweredOK ==
  ASSUME NEW r \in Requests, IInv, Answered(r), Grows,
         sub' \in Subscription, UNCHANGED <<now, due, crashes>>,
         inv' \in [Invoices -> Invoice \cup {None}],
         paidTo' \in Nat, raced' \in BOOLEAN, chosen' \in Plans
  PROVE  TypeOK' /\ \A p \in Agents : CopyOK(p)' /\ HoldsOK(p)'
<1> USE DEF IInv
<1>0. r \in Agents
  BY DEF Agents
<1>1. TypeOK'
  BY <1>0 DEF Answered, TypeOK, RequestSteps
<1>2. CopyOK(r)' /\ HoldsOK(r)'
  BY <1>0 DEF Answered, CopyOK, HoldsOK, TypeOK
<1>3. ASSUME NEW p \in Agents \ {r} PROVE CopyOK(p)' /\ HoldsOK(p)'
  <2>1. Quiet(p)
    BY <1>0 DEF Answered, TypeOK, Quiet
  <2> QED
    BY <2>1, <1>1, AgentKept
<1> QED
  BY <1>1, <1>2, <1>3

LEMMA PayCommitOK == ASSUME NEW r \in Requests PROVE IInv /\ PayCommit(r) => IInv'
<1> SUFFICES ASSUME IInv, PayCommit(r) PROVE IInv'
  OBVIOUS
<1> USE DEF IInv
<1>0. /\ r \in Agents /\ copy[r] # None /\ copy[r] \in Subscription
      /\ sub # None /\ sub \in Subscription
      /\ target[r] \in Invoices /\ inv[target[r]] # None /\ inv[target[r]] \in Invoice
  BY DEF Agents, PayCommit, HoldsOK, CopyOK, TypeOK
<1>1. /\ UNCHANGED <<now, due, crashes, chosen>> /\ Answered(r)
      /\ paidTo' = paidTo + Month
      /\ inv' = [inv EXCEPT ![target[r]] = Paid(inv[target[r]])]
      /\ sub' = Flush(sub, copy[r], Settled(copy[r], inv[target[r]].end))
      /\ raced' = (raced \/ sub.next # copy[r].next)
  BY <1>0 DEF PayCommit, TypeOK
<1>2. /\ inv' \in [Invoices -> Invoice \cup {None}]
      /\ \A k \in Invoices : inv[k] # None <=> inv'[k] # None
      /\ OneInvoicePerPeriod'
  BY <1>0, <1>1, PaidOK
<1>3. /\ sub' \in Subscription /\ sub' # None /\ paidTo' \in Nat /\ paidTo <= paidTo'
      /\ sub'.status # "PAST_DUE" /\ sub'.next <= paidTo' /\ sub'.plan = sub.plan
  <2>1. inv[target[r]].end \in Nat /\ paidTo' \in Nat /\ paidTo <= paidTo'
    BY <1>0, <1>1, BillingAssumption DEF Invoice, TypeOK
  <2>2. /\ sub.status # "PAST_DUE" /\ copy[r].status # "PAST_DUE"
        /\ sub.next <= paidTo' /\ copy[r].next + Month <= paidTo'
    BY <1>0, <1>1, <2>1, BillingAssumption DEF RowsOK, CopyOK, Subscription, TypeOK
  <2> QED
    BY <1>0, <1>1, <2>1, <2>2, FlushSettled, NoneIsNoRow
<1>4. raced' \in BOOLEAN
  BY <1>1 DEF TypeOK
<1>5. Grows
  BY <1>2, <1>3 DEF Grows
<1>6. RowsOK'
  BY <1>0, <1>1, <1>2, <1>3 DEF RowsOK
<1>7. TypeOK' /\ \A p \in Agents : CopyOK(p)' /\ HoldsOK(p)'
  <2>1. chosen' \in Plans
    BY <1>1 DEF TypeOK
  <2> QED
    BY <1>1, <1>2, <1>3, <1>4, <1>5, <2>1, AnsweredOK
<1> QED
  BY <1>2, <1>6, <1>7

LEMMA SavedOK ==
  ASSUME NEW r \in Requests, NEW new \in Subscription, IInv, copy[r] # None,
         Saved(r, new), new.status # "PAST_DUE", new.next = copy[r].next,
         chosen' = IF new.plan = copy[r].plan THEN chosen ELSE new.plan
  PROVE  IInv'
<1> USE DEF IInv
<1>0. /\ r \in Agents /\ copy[r] \in Subscription /\ sub # None /\ sub \in Subscription
  BY DEF Agents, CopyOK, TypeOK
<1>1. /\ UNCHANGED <<now, inv, due, crashes, paidTo, raced>> /\ Answered(r)
      /\ sub' = Flush(sub, copy[r], new)
      /\ chosen' \in Plans
  BY DEF Saved, TypeOK, Subscription
<1>2. sub' \in Subscription /\ sub' # None
  BY <1>0, <1>1, FlushType, NoneIsNoRow
<1>3. sub'.status # "PAST_DUE" /\ sub'.next <= paidTo /\ sub'.plan = chosen'
  BY <1>0, <1>1 DEF Flush, Column, RowsOK
<1>4. Grows
  BY <1>0, <1>1, <1>2 DEF Grows, TypeOK
<1>5. RowsOK' /\ OneInvoicePerPeriod'
  BY <1>0, <1>1, <1>2, <1>3 DEF RowsOK, OneInvoicePerPeriod
<1>6. TypeOK' /\ \A p \in Agents : CopyOK(p)' /\ HoldsOK(p)'
  <2>1. /\ inv' \in [Invoices -> Invoice \cup {None}]
        /\ paidTo' \in Nat /\ raced' \in BOOLEAN
    BY <1>1 DEF TypeOK
  <2> QED
    BY <1>1, <1>2, <1>4, <2>1, AnsweredOK
<1> QED
  BY <1>5, <1>6

LEMMA CancelCommitOK == ASSUME NEW r \in Requests PROVE IInv /\ CancelCommit(r) => IInv'
<1> SUFFICES ASSUME IInv, CancelCommit(r) PROVE IInv'
  OBVIOUS
<1>1. copy[r] # None /\ copy[r] \in Subscription /\ copy[r].plan \in Plans /\ chosen \in Plans
  BY DEF IInv, CancelCommit, HoldsOK, TypeOK, Agents, Subscription
<1>2. /\ Cancelled(copy[r]) \in Subscription /\ Cancelled(copy[r]).status # "PAST_DUE"
      /\ Cancelled(copy[r]).next = copy[r].next /\ Cancelled(copy[r]).plan = copy[r].plan
  BY <1>1 DEF Cancelled, Subscription, SubStatus
<1>3. Saved(r, Cancelled(copy[r])) /\ chosen' = chosen
  BY DEF CancelCommit
<1> QED
  BY <1>1, <1>2, <1>3, SavedOK

LEMMA ChangePlanCommitOK == ASSUME NEW r \in Requests PROVE IInv /\ ChangePlanCommit(r) => IInv'
<1> SUFFICES ASSUME IInv, ChangePlanCommit(r) PROVE IInv'
  OBVIOUS
<1>1. copy[r] # None /\ copy[r] \in Subscription /\ copy[r].status # "PAST_DUE"
  BY DEF IInv, ChangePlanCommit, HoldsOK, CopyOK, TypeOK, Agents
<1>2. PICK q \in Plans \ {copy[r].plan} : Saved(r, PlanChanged(copy[r], q)) /\ chosen' = q
  BY DEF ChangePlanCommit
<1>3. /\ PlanChanged(copy[r], q) \in Subscription
      /\ PlanChanged(copy[r], q).status # "PAST_DUE"
      /\ PlanChanged(copy[r], q).next = copy[r].next /\ PlanChanged(copy[r], q).plan = q
  BY <1>1 DEF PlanChanged, Subscription
<1> QED
  BY <1>1, <1>2, <1>3, SavedOK

LEMMA NextOK == IInv /\ [Next]_vars => IInv'
<1> SUFFICES ASSUME IInv, [Next]_vars PROVE IInv'
  OBVIOUS
<1>1. CASE UNCHANGED vars
  BY <1>1 DEF vars, IInv, TypeOK, RowsOK, OneInvoicePerPeriod, CopyOK, HoldsOK
<1>2. ASSUME NEW j \in Jobs, JobStep(j) PROVE IInv'
  BY <1>2, GenReadOK, GenCheckOK, GenInsertOK, SettleInvoiceOK, SettleSubscriptionOK DEF JobStep
<1>3. ASSUME NEW r \in Requests, RequestStep(r) PROVE IInv'
  BY <1>3, ReadsOK, PayCommitOK, CancelCommitOK, ChangePlanCommitOK DEF RequestStep, PayStep
<1> QED
  BY <1>1, <1>2, <1>3, ClockOK, BootstrapOK, CrashOK DEF Next

THEOREM Invariance == Spec => []IInv
  BY InitOK, NextOK, PTL DEF Spec

(***************************************************************************)
(* The results.                                                            *)
(***************************************************************************)
\* Every variable keeps its type: no race of two payments leaves a column that
\* is not a value of it.
THEOREM TypeCorrect == Spec => []TypeOK
<1>1. IInv => TypeOK
  BY DEF IInv
<1> QED
  BY Invariance, <1>1, PTL

\* However payments race and wherever the scheduler dies, the next billing
\* date is at most a month per recorded payment past the trial's end.
THEOREM ServiceWithinMoney == Spec => []NextWithinPaid
<1>1. IInv => NextWithinPaid
  BY DEF IInv, RowsOK, NextWithinPaid
<1> QED
  BY Invariance, <1>1, PTL

\* A period has one invoice, whoever generates invoices at the same time.
THEOREM PeriodBilledOnce == Spec => []OneInvoicePerPeriod
<1>1. IInv => OneInvoicePerPeriod
  BY DEF IInv
<1> QED
  BY Invariance, <1>1, PTL

\* No settlement or cancellation saves an old plan over a chosen one.
THEOREM PlanSurvives == Spec => []PlanIsTheChosen
<1>1. IInv => PlanIsTheChosen
  BY DEF IInv, RowsOK, PlanIsTheChosen
<1> QED
  BY Invariance, <1>1, PTL

\* Only the settlement of a payment that loaded a trial brings a cancelled
\* subscription back.
THEOREM CancellationStays == Spec => CancelledStays
<1> DEFINE OnlyTrials ==
      (sub # None /\ sub.status = "CANCELLED")
         => \/ sub'.status = "CANCELLED"
            \/ \E p \in Agents : /\ at[p] \in {"paying", "advance"}
                                 /\ copy[p].status = "TRIAL"
<1>1. IInv /\ [Next]_vars => [OnlyTrials]_vars
  <2> SUFFICES ASSUME IInv, Next, sub # None, sub.status = "CANCELLED", sub'.status # "CANCELLED"
               PROVE  \E p \in Agents : at[p] \in {"paying", "advance"} /\ copy[p].status = "TRIAL"
    BY DEF vars
  <2>1. \E p \in Agents :
           /\ at[p] \in {"paying", "advance"}
           /\ sub' = Flush(sub, copy[p], Settled(copy[p], inv[target[p]].end))
    <3>1. sub' # sub
      OBVIOUS
    <3>2. ~(Tick \/ Bootstrap \/ MonthlyRun \/ CatchUp \/ Crash)
      BY <3>1 DEF Tick, Bootstrap, MonthlyRun, CatchUp, Crash
    <3>3. ASSUME NEW j \in Jobs, JobStep(j) PROVE SettleSubscription(j)
      BY <3>1, <3>3 DEF JobStep, GenRead, GenCheck, GenInsert, SettleInvoice
    <3>4. ASSUME NEW r \in Requests, RequestStep(r) PROVE PayCommit(r)
      <4>1. ASSUME NEW new, Saved(r, new), new.status \in {copy[r].status, "CANCELLED"} PROVE FALSE
        BY <4>1 DEF Saved, Flush, Column
      <4>2. ~CancelCommit(r)
        <5>1. Cancelled(copy[r]).status = "CANCELLED"
          BY DEF Cancelled
        <5> QED
          BY <4>1, <5>1 DEF CancelCommit
      <4>3. ~ChangePlanCommit(r)
        <5>1. \A q : PlanChanged(copy[r], q).status = copy[r].status
          BY DEF PlanChanged
        <5> QED
          BY <4>1, <5>1 DEF ChangePlanCommit
      <4>4. ~(CancelRead(r) \/ ChangePlanRead(r) \/ PayLock(r) \/ \E i \in Invoices : PayRead(r, i))
        BY <3>1 DEF CancelRead, ChangePlanRead, Loaded, PayLock, PayRead
      <4> QED
        BY <3>4, <4>2, <4>3, <4>4 DEF RequestStep, PayStep
    <3> QED
      BY <3>2, <3>3, <3>4 DEF Next, SettleSubscription, PayCommit, Agents
  <2>2. PICK p \in Agents :
           /\ at[p] \in {"paying", "advance"}
           /\ sub' = Flush(sub, copy[p], Settled(copy[p], inv[target[p]].end))
    BY <2>1
  <2>3. copy[p] \in Subscription /\ copy[p].status # "PAST_DUE" /\ inv[target[p]].end \in Nat
    BY <2>2 DEF IInv, TypeOK, CopyOK, HoldsOK, Invoice
  <2>4. CASE copy[p].status = "TRIAL"
    BY <2>2, <2>4
  <2>5. CASE copy[p].status # "TRIAL"
    <3>1. Settled(copy[p], inv[target[p]].end).status = copy[p].status
      BY <2>3, <2>5, SettledOK
    <3> QED
      BY <2>2, <3>1 DEF Flush, Column
  <2> QED
    BY <2>4, <2>5
<1> QED
  BY Invariance, <1>1, PTL DEF Spec, CancelledStays

(***************************************************************************)
(* While the scheduler never died and no payment was settled on a          *)
(* subscription billed on meanwhile, nothing is ahead of the next billing  *)
(* date: no copy was loaded from a later period and no invoice bills one,  *)
(* and the invoice of the present period is paid only with the settlement  *)
(* of the subscription still to come.                                      *)
(***************************************************************************)
LoadedBefore(p) ==
  copy[p] # None => /\ copy[p].next <= sub.next
                    /\ copy[p].status = "CANCELLED" /\ copy[p].next = sub.next
                         => sub.status = "CANCELLED"

OnItsWay(i) == \E j \in Jobs : at[j] = "advance" /\ target[j] = i

BilledBefore(i) ==
  inv[i] # None => /\ inv[i].end <= sub.next
                   /\ inv[i].status = "PAID" /\ inv[i].end = sub.next /\ sub.status # "CANCELLED"
                        => OnItsWay(i)

\* A job's copy was billable.
BilledCopy(j) == copy[j] # None => copy[j].status # "CANCELLED"

OnTime ==
  /\ \A p \in Agents : LoadedBefore(p)
  /\ \A i \in Invoices : BilledBefore(i)
  /\ \A j \in Jobs : BilledCopy(j)

AccidentInv == crashes = 0 /\ ~raced => OnTime

\* A step that reads: the rows stay, and a copy is kept, dropped or taken of the row.
LEMMA ReadOnTime ==
  ASSUME IInv, OnTime, UNCHANGED <<sub, inv>>,
         \A p \in Agents : copy'[p] \in {copy[p], None, sub},
         \A j \in Jobs : copy'[j] \in {copy[j], None} \/ sub.status # "CANCELLED",
         \A j \in Jobs : at[j] = "advance" => at'[j] = "advance" /\ target'[j] = target[j]
  PROVE  OnTime'
<1>1. ASSUME NEW p \in Agents PROVE LoadedBefore(p)'
  <2>1. copy'[p] # None => sub # None
    BY DEF IInv, CopyOK
  <2>2. sub # None => sub.next \in Nat
    BY DEF IInv, TypeOK, Subscription
  <2> QED
    BY <2>1, <2>2 DEF OnTime, LoadedBefore
<1>2. ASSUME NEW i \in Invoices PROVE BilledBefore(i)'
  BY DEF OnTime, BilledBefore, OnItsWay
<1>3. ASSUME NEW j \in Jobs PROVE BilledCopy(j)'
  <2>1. j \in Agents
    BY DEF Agents
  <2> QED
    BY <2>1 DEF OnTime, BilledCopy
<1> QED
  BY <1>1, <1>2, <1>3 DEF OnTime

\* A new invoice bills the period of a copy.
LEMMA InsertOnTime ==
  ASSUME NEW j \in Jobs, IInv, OnTime, GenInsert(j)
  PROVE  OnTime'
<1>0. /\ j \in Agents /\ copy[j] # None /\ copy[j] \in Subscription /\ sub # None
      /\ sub \in Subscription
  BY DEF IInv, Agents, GenInsert, HoldsOK, CopyOK, TypeOK
<1>1. /\ UNCHANGED sub
      /\ \A p \in Agents : copy'[p] \in {copy[p], None}
      /\ \A k \in Jobs : at[k] = "advance" => at'[k] = "advance" /\ target'[k] = target[k]
  BY <1>0 DEF GenInsert, Over, IInv, TypeOK, Agents
<1>2. \/ UNCHANGED inv
      \/ \E i \in Invoices : inv' = [inv EXCEPT ![i] = Issued(copy[j])]
  BY DEF GenInsert, Fresh
<1>3. CASE UNCHANGED inv
  <2>1. /\ UNCHANGED <<sub, inv>>
        /\ \A p \in Agents : copy'[p] \in {copy[p], None, sub}
        /\ \A k \in Jobs : copy'[k] \in {copy[k], None} \/ sub.status # "CANCELLED"
    BY <1>1, <1>3 DEF Agents
  <2> QED
    BY <1>1, <2>1, ReadOnTime
<1>4. ASSUME NEW i \in Invoices, inv' = [inv EXCEPT ![i] = Issued(copy[j])]
      PROVE  OnTime'
  <2>1. Issued(copy[j]).end = copy[j].next /\ Issued(copy[j]).status = "ISSUED"
    BY DEF Issued
  <2>2. copy[j].next <= sub.next
    BY <1>0 DEF OnTime, LoadedBefore
  <2>3. ASSUME NEW k \in Invoices PROVE BilledBefore(k)'
    BY <1>1, <1>4, <2>1, <2>2 DEF OnTime, BilledBefore, OnItsWay, IInv, TypeOK
  <2>4. ASSUME NEW p \in Agents PROVE LoadedBefore(p)'
    BY <1>1 DEF OnTime, LoadedBefore
  <2>5. ASSUME NEW k \in Jobs PROVE BilledCopy(k)'
    BY <1>1 DEF OnTime, BilledCopy, Agents
  <2> QED
    BY <2>3, <2>4, <2>5 DEF OnTime
<1> QED
  BY <1>2, <1>3, <1>4

\* The job's payment of an invoice leaves the settlement on its way.
LEMMA SettleInvoiceOnTime ==
  ASSUME NEW j \in Jobs, IInv, OnTime, SettleInvoice(j)
  PROVE  OnTime'
<1>0. j \in Agents /\ target[j] \in Invoices /\ inv[target[j]] # None
  BY DEF IInv, Agents, SettleInvoice, HoldsOK
<1>1. /\ UNCHANGED <<sub, copy, target>>
      /\ at' = [at EXCEPT ![j] = "advance"]
      /\ inv' = [inv EXCEPT ![target[j]] = Paid(inv[target[j]])]
  BY <1>0 DEF SettleInvoice, IInv, TypeOK
<1>2. OnItsWay(target[j])'
  BY <1>0, <1>1 DEF OnItsWay, IInv, TypeOK
<1>3. ASSUME NEW i \in Invoices PROVE BilledBefore(i)'
  <2>1. OnItsWay(i) => OnItsWay(i)'
    BY <1>0, <1>1 DEF OnItsWay, IInv, TypeOK, Agents
  <2>2. CASE i = target[j]
    <3>1. Paid(inv[i]).end = inv[i].end
      BY DEF Paid
    <3> QED
      BY <1>0, <1>1, <1>2, <2>2, <3>1 DEF OnTime, BilledBefore, IInv, TypeOK
  <2>3. CASE i # target[j]
    BY <1>0, <1>1, <2>1, <2>3 DEF OnTime, BilledBefore, IInv, TypeOK
  <2> QED
    BY <2>2, <2>3
<1>4. ASSUME NEW p \in Agents PROVE LoadedBefore(p)'
  BY <1>1 DEF OnTime, LoadedBefore
<1>5. ASSUME NEW k \in Jobs PROVE BilledCopy(k)'
  BY <1>1 DEF OnTime, BilledCopy
<1> QED
  BY <1>3, <1>4, <1>5 DEF OnTime

\* Settling a copy of the present period moves the subscription a month on,
\* unless it is cancelled; then it stays as it is.
LEMMA SettledMoves ==
  ASSUME NEW row \in Subscription, NEW loaded \in Subscription, NEW end \in Nat,
         loaded.status # "PAST_DUE", loaded.next = row.next
  PROVE  LET f == Flush(row, loaded, Settled(loaded, end))
         IN  IF loaded.status = "CANCELLED" THEN f = row ELSE f.next = row.next + Month
<1>1. CASE loaded.status = "CANCELLED"
  <2>1. Settled(loaded, end) = loaded
    BY <1>1 DEF Settled
  <2> QED
    BY <1>1, <2>1 DEF Flush, Column, Subscription
<1>2. CASE loaded.status \in {"TRIAL", "ACTIVE"}
  <2>1. Settled(loaded, end).next = loaded.next + Month
    BY <1>2 DEF Settled, PeriodAdvanced, Activated
  <2>2. loaded.next + Month # loaded.next
    BY BillingAssumption DEF Subscription
  <2> QED
    BY <1>2, <2>1, <2>2 DEF Flush, Column
<1> QED
  BY <1>1, <1>2 DEF Subscription, SubStatus

\* A settlement: of the copy of agent p, whose invoice is paid by now.
LEMMA SettlementOnTime ==
  ASSUME NEW p \in Agents, IInv, OnTime, copy[p] # None, copy[p].next = sub.next,
         NEW end \in Nat, sub' = Flush(sub, copy[p], Settled(copy[p], end)),
         \A q \in Agents : copy'[q] \in {copy[q], None},
         \A k \in Invoices : inv[k] = None => inv'[k] = None,
         \A k \in Invoices : inv[k] # None => inv'[k].end = inv[k].end,
         copy[p].status = "CANCELLED"
           => /\ \A k \in Invoices : OnItsWay(k) => OnItsWay(k)'
              /\ sub.status = "CANCELLED"
  PROVE  OnTime'
<1>0. /\ copy[p] \in Subscription /\ copy[p].status # "PAST_DUE"
      /\ sub # None /\ sub \in Subscription /\ sub.next \in Nat
  BY DEF IInv, CopyOK, TypeOK, Subscription
<1>1. \A i \in Invoices : inv[i] # None => inv[i].end \in Nat
  BY DEF IInv, TypeOK, Invoice
<1>2. \A q \in Agents : copy[q] # None => copy[q].next \in Nat
  BY DEF IInv, TypeOK, Subscription
<1>3. ASSUME NEW k \in Jobs PROVE BilledCopy(k)'
  BY DEF OnTime, BilledCopy, Agents
<1>4. CASE copy[p].status = "CANCELLED"
  <2>1. sub' = sub
    BY <1>0, <1>4, SettledMoves
  <2>2. ASSUME NEW q \in Agents PROVE LoadedBefore(q)'
    BY <2>1 DEF OnTime, LoadedBefore
  <2>3. ASSUME NEW i \in Invoices PROVE BilledBefore(i)'
    BY <1>4, <2>1 DEF OnTime, BilledBefore
  <2> QED
    BY <1>3, <2>2, <2>3 DEF OnTime
<1>5. CASE copy[p].status # "CANCELLED"
  <2>1. sub'.next = sub.next + Month
    BY <1>0, <1>5, SettledMoves
  <2>2. sub.next < sub'.next /\ sub'.next \in Nat
    BY <1>0, <2>1, BillingAssumption
  <2>3. ASSUME NEW q \in Agents PROVE LoadedBefore(q)'
    BY <1>0, <1>2, <2>2 DEF OnTime, LoadedBefore
  <2>4. ASSUME NEW i \in Invoices PROVE BilledBefore(i)'
    BY <1>0, <1>1, <2>2 DEF OnTime, BilledBefore
  <2> QED
    BY <1>3, <2>3, <2>4 DEF OnTime
<1> QED
  BY <1>4, <1>5

LEMMA SettleSubscriptionOnTime ==
  ASSUME NEW j \in Jobs, IInv, OnTime, SettleSubscription(j), ~raced'
  PROVE  OnTime'
<1>0. /\ j \in Agents /\ copy[j] # None /\ target[j] \in Invoices
      /\ inv[target[j]].end \in Nat
  BY DEF IInv, Agents, SettleSubscription, HoldsOK, TypeOK, Invoice
<1>1. /\ sub' = Flush(sub, copy[j], Settled(copy[j], inv[target[j]].end))
      /\ copy[j].next = sub.next /\ UNCHANGED inv
      /\ \A q \in Agents : copy'[q] \in {copy[q], None}
  BY <1>0 DEF SettleSubscription, Over, IInv, TypeOK
<1>2. copy[j].status # "CANCELLED"
  BY <1>0 DEF OnTime, BilledCopy
<1> QED
  BY <1>0, <1>1, <1>2, SettlementOnTime

LEMMA PayCommitOnTime ==
  ASSUME NEW r \in Requests, IInv, OnTime, PayCommit(r), ~raced'
  PROVE  OnTime'
<1>0. /\ r \in Agents /\ copy[r] # None /\ target[r] \in Invoices
      /\ inv[target[r]] # None /\ inv[target[r]].end \in Nat
  BY DEF IInv, Agents, PayCommit, HoldsOK, TypeOK, Invoice
<1>1. /\ sub' = Flush(sub, copy[r], Settled(copy[r], inv[target[r]].end))
      /\ copy[r].next = sub.next
      /\ inv' = [inv EXCEPT ![target[r]] = Paid(inv[target[r]])]
      /\ \A q \in Agents : copy'[q] \in {copy[q], None}
      /\ \A k \in Jobs : at'[k] = at[k] /\ target'[k] = target[k]
  BY <1>0, JobsAreNotRequests DEF PayCommit, Answered, IInv, TypeOK, Agents
<1>2. Paid(inv[target[r]]).end = inv[target[r]].end
  BY DEF Paid
<1>3. /\ \A k \in Invoices : inv[k] = None => inv'[k] = None
      /\ \A k \in Invoices : inv[k] # None => inv'[k].end = inv[k].end
  BY <1>0, <1>1, <1>2 DEF IInv, TypeOK
<1>4. copy[r].status = "CANCELLED" => sub.status = "CANCELLED"
  BY <1>0, <1>1 DEF OnTime, LoadedBefore
<1>5. \A k \in Invoices : OnItsWay(k) => OnItsWay(k)'
  BY <1>1 DEF OnItsWay
<1> QED
  BY <1>0, <1>1, <1>3, <1>4, <1>5, SettlementOnTime

\* A cancellation and a change of plan leave the date, and do not bring a
\* cancelled subscription back.
LEMMA SavedOnTime ==
  ASSUME NEW r \in Requests, NEW new, IInv, OnTime, copy[r] # None, Saved(r, new),
         new.next = copy[r].next, new.status \in {copy[r].status, "CANCELLED"}
  PROVE  OnTime'
<1>0. r \in Agents
  BY DEF Agents
<1>1. /\ UNCHANGED inv
      /\ \A q \in Agents : copy'[q] \in {copy[q], None}
      /\ \A k \in Jobs : at'[k] = at[k] /\ target'[k] = target[k]
  BY <1>0, JobsAreNotRequests DEF Saved, Answered, IInv, TypeOK, Agents
<1>2. /\ sub'.next = sub.next
      /\ sub.status = "CANCELLED" => sub'.status = "CANCELLED"
  BY DEF Saved, Flush, Column
<1>3. ASSUME NEW q \in Agents PROVE LoadedBefore(q)'
  BY <1>1, <1>2 DEF OnTime, LoadedBefore
<1>4. ASSUME NEW i \in Invoices PROVE BilledBefore(i)'
  BY <1>1, <1>2 DEF OnTime, BilledBefore, OnItsWay
<1>5. ASSUME NEW k \in Jobs PROVE BilledCopy(k)'
  BY <1>1 DEF OnTime, BilledCopy, Agents
<1> QED
  BY <1>3, <1>4, <1>5 DEF OnTime

LEMMA AccidentStep == IInv /\ AccidentInv /\ [Next]_vars => AccidentInv'
<1> SUFFICES ASSUME IInv, AccidentInv, [Next]_vars, crashes' = 0, ~raced' PROVE OnTime'
  BY DEF AccidentInv
<1>1. ~Crash
  BY DEF Crash, IInv, TypeOK
<1>2. crashes' = crashes /\ ~raced
  <2>1. ASSUME NEW j \in Jobs, JobStep(j) PROVE crashes' = crashes /\ ~raced
    <3>1. CASE SettleSubscription(j)
      BY <3>1 DEF SettleSubscription
    <3>2. CASE GenRead(j) \/ GenCheck(j) \/ GenInsert(j) \/ SettleInvoice(j)
      <4>1. UNCHANGED <<crashes, raced>>
        BY <3>2 DEF GenRead, GenCheck, GenInsert, SettleInvoice
      <4> QED
        BY <4>1
    <3> QED
      BY <2>1, <3>1, <3>2 DEF JobStep
  <2>2. ASSUME NEW r \in Requests, RequestStep(r) PROVE crashes' = crashes /\ ~raced
    <3>1. CASE PayCommit(r)
      BY <3>1 DEF PayCommit
    <3>2. ASSUME UNCHANGED <<crashes, raced>> PROVE crashes' = crashes /\ ~raced
      BY <3>2
    <3>3. CancelCommit(r) \/ ChangePlanCommit(r) => UNCHANGED <<crashes, raced>>
      BY DEF CancelCommit, ChangePlanCommit, Saved
    <3>4. CancelRead(r) \/ ChangePlanRead(r) \/ PayLock(r) => UNCHANGED <<crashes, raced>>
      BY DEF CancelRead, ChangePlanRead, Loaded, PayLock
    <3>5. (\E i \in Invoices : PayRead(r, i)) => UNCHANGED <<crashes, raced>>
      BY DEF PayRead
    <3> QED
      BY <2>2, <3>1, <3>2, <3>3, <3>4, <3>5 DEF RequestStep, PayStep
  <2>3. UNCHANGED vars \/ Tick \/ Bootstrap \/ MonthlyRun \/ CatchUp
           => UNCHANGED <<crashes, raced>>
    BY DEF vars, Tick, Bootstrap, MonthlyRun, CatchUp
  <2>4. UNCHANGED <<crashes, raced>> => crashes' = crashes /\ ~raced
    OBVIOUS
  <2> QED
    BY <1>1, <2>1, <2>2, <2>3, <2>4 DEF Next
<1>3. OnTime
  BY <1>2 DEF AccidentInv
<1>4. CASE UNCHANGED vars
  BY <1>3, <1>4, ReadOnTime DEF vars
<1>5. CASE Tick \/ MonthlyRun \/ CatchUp
  <2>1. /\ UNCHANGED <<sub, inv, copy, target>>
        /\ \A j \in Jobs : at[j] = "advance" => at'[j] = "advance"
    <3>1. UNCHANGED <<sub, inv, copy, target>>
      BY <1>5 DEF Tick, MonthlyRun, CatchUp
    <3>2. \/ at' = at
          \/ at["monthly"] = "idle" /\ \E v : at' = [at EXCEPT !["monthly"] = v]
          \/ at["catchup"] = "idle" /\ \E v : at' = [at EXCEPT !["catchup"] = v]
      BY <1>5, Zenon DEF Tick, MonthlyRun, CatchUp
    <3> QED
      BY <3>1, <3>2 DEF IInv, TypeOK, Agents
  <2> QED
    BY <1>3, <2>1, ReadOnTime
<1>6. CASE Bootstrap
  <2>1. \A p \in Agents : copy[p] = None
    BY <1>6 DEF Bootstrap, IInv, CopyOK
  <2>2. \A i \in Invoices : inv[i] = None
    BY <1>6 DEF Bootstrap, IInv, RowsOK
  <2> QED
    BY <1>6, <2>1, <2>2 DEF Bootstrap, OnTime, LoadedBefore, BilledBefore, BilledCopy, Agents
<1>7. ASSUME NEW j \in Jobs, GenRead(j) \/ GenCheck(j) PROVE OnTime'
  <2>0. j \in Agents
    BY DEF Agents
  <2>1. UNCHANGED <<sub, inv, target>>
    BY <1>7 DEF GenRead, GenCheck
  <2>2. /\ \A p \in Agents : copy'[p] \in {copy[p], None, sub}
        /\ \A k \in Jobs : copy'[k] \in {copy[k], None} \/ sub.status # "CANCELLED"
        /\ \A k \in Jobs : at[k] = "advance" => at'[k] = "advance"
    BY <1>7, <2>0 DEF GenRead, GenCheck, Over, Billable, IInv, TypeOK, Agents
  <2> QED
    BY <1>3, <2>1, <2>2, ReadOnTime
<1>8. ASSUME NEW j \in Jobs, JobStep(j) PROVE OnTime'
  BY <1>3, <1>7, <1>8, InsertOnTime, SettleInvoiceOnTime, SettleSubscriptionOnTime DEF JobStep
<1>9. ASSUME NEW r \in Requests,
             (\E i \in Invoices : PayRead(r, i)) \/ PayLock(r) \/ CancelRead(r) \/ ChangePlanRead(r)
      PROVE  OnTime'
  <2>0. r \in Agents
    BY DEF Agents
  <2>1. UNCHANGED <<sub, inv>>
    BY <1>9 DEF PayRead, PayLock, CancelRead, ChangePlanRead, Loaded
  <2>2. /\ \A p \in Agents : copy'[p] \in {copy[p], None, sub}
        /\ \A k \in Jobs : copy'[k] = copy[k] /\ at'[k] = at[k] /\ target'[k] = target[k]
    BY <1>9, <2>0, JobsAreNotRequests
       DEF PayRead, PayLock, CancelRead, ChangePlanRead, Loaded, IInv, TypeOK, Agents
  <2> QED
    BY <1>3, <2>1, <2>2, ReadOnTime
<1>10. ASSUME NEW r \in Requests, CancelCommit(r) \/ ChangePlanCommit(r) PROVE OnTime'
  <2>1. copy[r] # None
    BY <1>10 DEF CancelCommit, ChangePlanCommit, IInv, HoldsOK, Agents
  <2>2. ASSUME CancelCommit(r) PROVE OnTime'
    <3>1. /\ Cancelled(copy[r]).next = copy[r].next
          /\ Cancelled(copy[r]).status = "CANCELLED"
      BY DEF Cancelled
    <3> QED
      BY <1>3, <2>1, <2>2, <3>1, SavedOnTime DEF CancelCommit
  <2>3. ASSUME ChangePlanCommit(r) PROVE OnTime'
    <3>1. PICK q \in Plans : Saved(r, PlanChanged(copy[r], q))
      BY <2>3 DEF ChangePlanCommit
    <3>2. /\ PlanChanged(copy[r], q).next = copy[r].next
          /\ PlanChanged(copy[r], q).status = copy[r].status
      BY DEF PlanChanged
    <3> QED
      BY <1>3, <2>1, <3>1, <3>2, SavedOnTime
  <2> QED
    BY <1>10, <2>2, <2>3
<1>11. ASSUME NEW r \in Requests, RequestStep(r) PROVE OnTime'
  BY <1>3, <1>9, <1>10, <1>11, PayCommitOnTime DEF RequestStep, PayStep
<1> QED
  BY <1>1, <1>4, <1>5, <1>6, <1>8, <1>11 DEF Next

\* A subscription whose present period is paid, with no settlement under way,
\* is the mark of one of two accidents: a scheduler that died between the two
\* saves of a payment, or a payment settled on a copy another one had
\* overtaken.  Nothing else can leave the owner stuck.
THEOREM OnlyAccidentsStick == Spec => []StuckNeedsAnAccident
<1>1. Init => AccidentInv
  BY DEF Init, AccidentInv, OnTime, LoadedBefore, BilledBefore, BilledCopy, Agents
<1>2. IInv /\ AccidentInv => StuckNeedsAnAccident
  <2> SUFFICES ASSUME IInv, AccidentInv, sub # None, sub.status # "CANCELLED",
                      crashes = 0, ~raced,
                      \A p \in Agents : at[p] \notin {"paying", "advance"},
                      NEW i \in InvoiceFor(sub)
               PROVE  inv[i].status = "ISSUED"
    BY DEF StuckNeedsAnAccident
  <2>1. i \in Invoices /\ inv[i] # None /\ inv[i].end = sub.next /\ inv[i] \in Invoice
    BY DEF InvoiceFor, IInv, TypeOK
  <2>2. ~OnItsWay(i)
    BY DEF OnItsWay, Agents
  <2>3. inv[i].status # "PAID"
    BY <2>1, <2>2 DEF AccidentInv, OnTime, BilledBefore
  <2> QED
    BY <2>1, <2>3 DEF Invoice
<1> QED
  BY Invariance, <1>1, <1>2, AccidentStep, PTL DEF Spec
=============================================================================
