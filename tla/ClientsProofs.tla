---------------------------- MODULE ClientsProofs ----------------------------
(***************************************************************************)
(* Theorems about clients, for any number of requests, clients, vehicles,  *)
(* consents and forms.                                                     *)
(*                                                                         *)
(* A step leaves all requests but one alone, and the rows only grow        *)
(* (Grows): none disappears, a forgotten client stays so, a client that    *)
(* changes gets a new version, a mandatory consent stays in force, and a   *)
(* vehicle that comes into use while its client is being forgotten is      *)
(* noted.  A request left alone by such a step keeps its part of the       *)
(* invariant (Kept).                                                       *)
(***************************************************************************)
EXTENDS Clients, TLAPS

(***************************************************************************)
(* The inductive invariant.                                                *)
(***************************************************************************)
Aggregates == Changes \cup {"anonymize"}
Busy(r, whats) == at[r] \in {"read", "held", "save"} /\ command[r] \in whats
Holds(r, whats) == at[r] \in {"held", "save"} /\ command[r] \in whats

\* What a request loaded is not ahead of the row, and is the row as long as the
\* versions agree.
Loaded(r) ==
  /\ about[r] \in ClientIds /\ client[about[r]] # None
  /\ copy[r] \in ClientRow
  /\ copy[r].version <= client[about[r]].version
  /\ copy[r].version = client[about[r]].version => copy[r] = client[about[r]]
  /\ copy[r].status = "ANONYMIZED" => client[about[r]].status = "ANONYMIZED"

\* The aggregate in hand has rows of its client, and mandatory consents in force.
Drafted(r) ==
  /\ draft[r] \in Aggregate
  /\ \A v \in VehicleIds : draft[r].vehicles[v] # None =>
        vehicle[v] # None /\ vehicle[v].client = about[r]
  /\ \A k \in ConsentIds : draft[r].consents[k] # None =>
        /\ consent[k] # None
        /\ consent[k].type = Mandatory => draft[r].consents[k].active

\* What the save read again covers what is in hand.
Covers(r) ==
  /\ found[r] \in Children
  /\ \A v \in VehicleIds : draft[r].vehicles[v] # None => found[r].vehicles[v] # None

\* A request that forgets a client takes all its vehicles out of use, or they
\* came into use across it; of a client already forgotten it brings back none.
TakesAll(r) ==
  \A v \in VehicleIds :
    /\ (draft[r].vehicles[v] # None /\ draft[r].vehicles[v].active) =>
          copy[r].status = "ANONYMIZED" /\ v \in raced
    /\ (draft[r].vehicles[v] = None /\ InUse(vehicle[v]) /\ vehicle[v].client = about[r])
          => v \in raced
MissedIsRaced(r) ==
  \A v \in VehicleIds :
    (draft[r].vehicles[v] # None /\ InUse(vehicle[v]) /\ ~ found[r].vehicles[v].active)
       => v \in raced

RequestOK(r) ==
  /\ at[r] = "held" => command[r] \in Aggregates
  /\ Busy(r, Aggregates) => Loaded(r)
  /\ Busy(r, Changes) => copy[r].status = "ACTIVE"
  /\ Holds(r, Aggregates) => Drafted(r)
  /\ Saving(r, Aggregates) => Covers(r)
  /\ Holds(r, Changes) => draft[r].client.status = "ACTIVE"
  /\ Holds(r, {"anonymize"}) => draft[r].client = Anonymized(copy[r]) /\ TakesAll(r)
  /\ Saving(r, {"anonymize"}) => MissedIsRaced(r)
  /\ Busy(r, {"anonymize"}) => input[r] \in Forms \cup {None}
  /\ Holds(r, {"give"}) => input[r] \in Types \cup {None}
  /\ Saving(r, {"register"}) => /\ copy[r] \in ClientRow /\ copy[r].status = "ACTIVE"
                                /\ input[r] \in SUBSET Types /\ Mandatory \in input[r]
  /\ Saving(r, {"cancel"}) => input[r] \in Forms /\ form[input[r]] # None

\* Vehicles are of clients there are; mandatory consents are in force; a
\* completed form names who it was done for.
RowsOK ==
  /\ \A v \in VehicleIds : vehicle[v] # None => client[vehicle[v].client] # None
  /\ \A k \in ConsentIds : (consent[k] # None /\ consent[k].type = Mandatory) => consent[k].active
  /\ \A q \in Forms : (form[q] # None /\ form[q].status = "COMPLETED")
        => doneFor[q] \in ClientIds /\ client[doneFor[q]] # None

RowInv == TypeOK /\ RowsOK /\ NothingOutlives /\ CompletedIsDone /\ EveryoneConsented
IInv == RowInv /\ \A r \in Requests : RequestOK(r)

(***************************************************************************)
(* What every step does to the rows and to the requests that do not take   *)
(* it.                                                                     *)
(***************************************************************************)
Grows ==
  /\ \A c \in ClientIds : client[c] # None =>
        /\ client'[c] # None
        /\ client[c].status = "ANONYMIZED" => client'[c] = client[c]
        /\ client'[c] # client[c] => client'[c].version = client[c].version + 1
  /\ \A v \in VehicleIds : vehicle[v] # None =>
        vehicle'[v] # None /\ vehicle'[v].client = vehicle[v].client
  /\ \A v \in VehicleIds : (InUse(vehicle'[v]) /\ ~ InUse(vehicle[v])) =>
        /\ \A q \in Requests : (Holds(q, {"anonymize"}) /\ about[q] = vehicle'[v].client)
                                  => v \in raced'
        /\ (client[vehicle'[v].client] # None
              /\ client[vehicle'[v].client].status = "ANONYMIZED") => v \in raced'
  /\ \A k \in ConsentIds : consent[k] # None =>
        /\ consent'[k] # None
        /\ consent'[k].client = consent[k].client /\ consent'[k].type = consent[k].type
        /\ consent[k].type = Mandatory => consent'[k].active
  /\ \A q \in Forms : form[q] # None => form'[q] # None
  /\ raced \subseteq raced'

Quiet(q) ==
  /\ at'[q] = at[q] /\ command'[q] = command[q] /\ about'[q] = about[q]
  /\ copy'[q] = copy[q] /\ draft'[q] = draft[q] /\ found'[q] = found[q] /\ input'[q] = input[q]

LEMMA Kept ==
  ASSUME IInv, Grows, NEW q \in Requests, Quiet(q)
  PROVE  RequestOK(q)'
<1>0. RequestOK(q) /\ TypeOK
  BY DEF IInv, RowInv
<1>1. ASSUME Loaded(q)
      PROVE  Loaded(q)'
  <2>1. /\ about'[q] \in ClientIds /\ about'[q] = about[q] /\ copy'[q] = copy[q]
        /\ client[about[q]] # None /\ client[about[q]] \in ClientRow
    BY <1>0, <1>1 DEF Loaded, Quiet, TypeOK
  <2>2. /\ client'[about[q]] # None
        /\ client[about[q]].status = "ANONYMIZED" => client'[about[q]] = client[about[q]]
        /\ client'[about[q]] # client[about[q]]
              => client'[about[q]].version = client[about[q]].version + 1
    BY <2>1 DEF Grows
  <2>3. client[about[q]].version \in Nat /\ copy[q].version \in Nat
    BY <1>1, <2>1 DEF ClientRow, Loaded
  <2> QED BY <1>1, <2>1, <2>2, <2>3 DEF Loaded
<1>2. Drafted(q) => Drafted(q)'
  BY DEF Drafted, Grows, Quiet
<1>3. Covers(q) => Covers(q)'
  BY DEF Covers, Quiet
<1>4. ASSUME Holds(q, {"anonymize"}), Drafted(q), TakesAll(q)
      PROVE  TakesAll(q)'
  <2> SUFFICES ASSUME NEW v \in VehicleIds
               PROVE  /\ (draft'[q].vehicles[v] # None /\ draft'[q].vehicles[v].active) =>
                            copy'[q].status = "ANONYMIZED" /\ v \in raced'
                      /\ (draft'[q].vehicles[v] = None /\ InUse(vehicle'[v])
                            /\ vehicle'[v].client = about'[q]) => v \in raced'
    BY DEF TakesAll, InUse
  <2>1. (draft'[q].vehicles[v] # None /\ draft'[q].vehicles[v].active) =>
            copy'[q].status = "ANONYMIZED" /\ v \in raced'
    BY <1>4 DEF TakesAll, Grows, Quiet
  <2>2. ASSUME draft'[q].vehicles[v] = None, InUse(vehicle'[v]), vehicle'[v].client = about'[q]
        PROVE  v \in raced'
    <3>1. CASE InUse(vehicle[v])
      <4>1. vehicle'[v].client = vehicle[v].client
        BY <3>1 DEF Grows, InUse
      <4>2. v \in raced
        BY <1>4, <2>2, <3>1, <4>1 DEF TakesAll, Quiet
      <4> QED BY <4>2 DEF Grows
    <3>2. CASE ~ InUse(vehicle[v])
      BY <1>4, <2>2, <3>2 DEF Grows, Quiet
    <3> QED BY <3>1, <3>2
  <2> QED BY <2>1, <2>2
<1>5. ASSUME Holds(q, {"anonymize"}), Drafted(q), MissedIsRaced(q)
      PROVE  MissedIsRaced(q)'
  <2> SUFFICES ASSUME NEW v \in VehicleIds, draft'[q].vehicles[v] # None, InUse(vehicle'[v]),
                      ~ found'[q].vehicles[v].active
               PROVE  v \in raced'
    BY DEF MissedIsRaced, InUse
  <2>1. CASE InUse(vehicle[v])
    BY <1>5, <2>1 DEF MissedIsRaced, Grows, Quiet
  <2>2. CASE ~ InUse(vehicle[v])
    <3>1. vehicle'[v].client = about[q]
      BY <1>5 DEF Drafted, Grows, Quiet
    <3> QED BY <1>5, <2>2, <3>1 DEF Grows
  <2> QED BY <2>1, <2>2
<1>6. \A S : /\ Busy(q, S)' <=> Busy(q, S)
             /\ Holds(q, S)' <=> Holds(q, S)
             /\ Saving(q, S)' <=> Saving(q, S)
  BY DEF Busy, Saving, Holds, Quiet
<1>7. Saving(q, {"anonymize"}) => Holds(q, {"anonymize"})
  BY DEF Saving, Holds
<1>8. Holds(q, {"anonymize"}) => Holds(q, Aggregates)
  BY DEF Holds, Aggregates
<1>9. /\ Busy(q, Aggregates)' => Loaded(q)'
      /\ Busy(q, Changes)' => copy'[q].status = "ACTIVE"
      /\ Holds(q, Aggregates)' => Drafted(q)'
      /\ Saving(q, Aggregates)' => Covers(q)'
      /\ Holds(q, Changes)' => draft'[q].client.status = "ACTIVE"
  BY <1>0, <1>1, <1>2, <1>3, <1>6 DEF RequestOK, Quiet
<1>10. /\ Holds(q, {"anonymize"})' => draft'[q].client = Anonymized(copy'[q]) /\ TakesAll(q)'
       /\ Saving(q, {"anonymize"})' => MissedIsRaced(q)'
  BY <1>0, <1>4, <1>5, <1>6, <1>7, <1>8 DEF RequestOK, Quiet
<1>11. /\ Busy(q, {"anonymize"})' => input'[q] \in Forms \cup {None}
       /\ Holds(q, {"give"})' => input'[q] \in Types \cup {None}
       /\ Saving(q, {"register"})' => /\ copy'[q] \in ClientRow /\ copy'[q].status = "ACTIVE"
                                      /\ input'[q] \in SUBSET Types /\ Mandatory \in input'[q]
       /\ Saving(q, {"cancel"})' => input'[q] \in Forms /\ form'[input'[q]] # None
  BY <1>0, <1>6 DEF RequestOK, Quiet, Grows
<1>12. at'[q] = "held" => command'[q] \in Aggregates
  BY <1>0 DEF RequestOK, Quiet
<1> QED BY <1>9, <1>10, <1>11, <1>12 DEF RequestOK, Anonymized

(***************************************************************************)
(* A step is safe for r when it grows the rows, keeps the parts of the     *)
(* invariant that are about rows, and leaves r in order.                   *)
(***************************************************************************)
LEMMA Together ==
  ASSUME IInv, NEW r \in Requests, Grows, RowInv', RequestOK(r)',
         \A q \in Requests \ {r} : Quiet(q)
  PROVE  IInv'
<1>1. \A q \in Requests \ {r} : RequestOK(q)'
  BY Kept
<1> QED BY <1>1 DEF IInv

(***************************************************************************)
(* A read leaves the rows alone.                                           *)
(***************************************************************************)
LEMMA AtOK ==
  ASSUME TypeOK, NEW r \in Requests, NEW step \in {"read", "save"}, NEW what \in Commands,
         NEW id \in ClientIds \cup {None}, NEW row \in ClientRow \cup {None}, NEW x,
         At(r, step, what, id, row, x), UNCHANGED <<tables, draft, found, histories>>
  PROVE  /\ TypeOK'
         /\ at'[r] = step /\ command'[r] = what /\ about'[r] = id /\ copy'[r] = row /\ input'[r] = x
         /\ \A q \in Requests \ {r} : Quiet(q)
<1>1. input = [q \in Requests |-> input[q]]
  BY DEF TypeOK
<1>2. DOMAIN input = Requests
  BY <1>1
<1>3. /\ input' = [q \in Requests |-> input'[q]] /\ input'[r] = x
      /\ \A q \in Requests \ {r} : input'[q] = input[q]
  BY <1>1, <1>2 DEF At
<1>4. /\ at' \in [Requests -> {"new", "read", "held", "save", "done"}]
      /\ command' \in [Requests -> Commands \cup {None}]
      /\ about' \in [Requests -> ClientIds \cup {None}]
      /\ copy' \in [Requests -> ClientRow \cup {None}]
      /\ at'[r] = step /\ command'[r] = what /\ about'[r] = id /\ copy'[r] = row
      /\ \A q \in Requests \ {r} : /\ at'[q] = at[q] /\ command'[q] = command[q]
                                   /\ about'[q] = about[q] /\ copy'[q] = copy[q]
  BY DEF At, TypeOK
<1> QED BY <1>3, <1>4 DEF TypeOK, Quiet, tables, histories

LEMMA ReadKeeps ==
  ASSUME IInv, NEW r \in Requests, UNCHANGED <<tables, histories>>, TypeOK',
         RequestOK(r)', \A q \in Requests \ {r} : Quiet(q)
  PROVE  IInv'
<1>0. RowInv
  BY DEF IInv
<1>1. Grows
  <2>1. \A k \in ConsentIds : (consent[k] # None /\ consent[k].type = Mandatory) => consent[k].active
    BY <1>0 DEF RowInv, RowsOK
  <2> QED BY <2>1 DEF Grows, tables, histories
<1>2. RowInv'
  <2>2. (RowsOK /\ NothingOutlives /\ CompletedIsDone /\ EveryoneConsented)'
    BY <1>0 DEF RowInv, RowsOK, NothingOutlives, CompletedIsDone, EveryoneConsented, Consented,
       InUse, tables, histories
  <2> QED BY <2>2 DEF RowInv
<1> QED BY <1>1, <1>2, Together

\* The client is loaded: the copy is the row.
LEMMA ReadClientKeeps ==
  ASSUME IInv, NEW r \in Requests, NEW c \in ClientIds, NEW what \in Commands, what \in Aggregates,
         NEW x, client[c] # None, what \in Changes => client[c].status = "ACTIVE",
         what = "anonymize" => x \in Forms \cup {None},
         At(r, "read", what, c, client[c], x), UNCHANGED <<tables, draft, found, histories>>
  PROVE  IInv'
<1>0. TypeOK /\ client[c] \in ClientRow
  BY DEF IInv, RowInv, TypeOK
<1>1. /\ TypeOK'
      /\ at'[r] = "read" /\ command'[r] = what /\ about'[r] = c /\ copy'[r] = client[c] /\ input'[r] = x
      /\ \A q \in Requests \ {r} : Quiet(q)
  BY <1>0, AtOK
<1>2. client[c].version \in Nat
  BY <1>0 DEF ClientRow
<1>3. Loaded(r)'
  BY <1>0, <1>1, <1>2 DEF Loaded, tables
<1>4. RequestOK(r)'
  BY <1>1, <1>3 DEF RequestOK, Busy, Holds, Saving
<1> QED BY <1>1, <1>4, ReadKeeps DEF tables, histories

LEMMA RegisterReadKeeps ==
  ASSUME IInv, NEW r \in Requests, NEW n \in Names, NEW ph \in Phones,
         NEW t \in {"GUEST", "REGULAR"}, NEW ticked \in SUBSET Types,
         RegisterRead(r, n, ph, t, ticked)
  PROVE  IInv'
<1>0. TypeOK
  BY DEF IInv, RowInv
<1>1. Registered(n, ph, t) \in ClientRow /\ Registered(n, ph, t).status = "ACTIVE"
  BY DEF Registered, ClientRow
<1>2. /\ "register" \in Commands /\ Mandatory \in ticked
      /\ At(r, "save", "register", None, Registered(n, ph, t), ticked)
      /\ UNCHANGED <<tables, draft, found, histories>>
  BY DEF RegisterRead, Asked, CanRegister
<1>3. /\ TypeOK'
      /\ at'[r] = "save" /\ command'[r] = "register"
      /\ copy'[r] = Registered(n, ph, t) /\ input'[r] = ticked
      /\ \A q \in Requests \ {r} : Quiet(q)
  BY <1>0, <1>1, <1>2, AtOK
<1>4. RequestOK(r)'
  BY <1>1, <1>2, <1>3 DEF RequestOK, Busy, Holds, Saving, Aggregates, Changes
<1> QED BY <1>2, <1>3, <1>4, ReadKeeps DEF tables, histories

LEMMA CancelReadKeeps ==
  ASSUME IInv, NEW r \in Requests, NEW o \in Forms, CancelRead(r, o)
  PROVE  IInv'
<1>0. TypeOK
  BY DEF IInv, RowInv
<1>1. /\ "cancel" \in Commands /\ form[o] # None
      /\ At(r, "save", "cancel", None, None, o)
      /\ UNCHANGED <<tables, draft, found, histories>>
  BY DEF CancelRead, Asked
<1>2. /\ TypeOK'
      /\ at'[r] = "save" /\ command'[r] = "cancel" /\ input'[r] = o
      /\ \A q \in Requests \ {r} : Quiet(q)
  BY <1>0, <1>1, AtOK
<1>3. RequestOK(r)'
  BY <1>1, <1>2 DEF RequestOK, Busy, Holds, Saving, Aggregates, Changes, tables
<1> QED BY <1>1, <1>2, <1>3, ReadKeeps DEF tables, histories

LEMMA ReadStepKeeps ==
  ASSUME IInv, NEW r \in Requests, ReadStep(r)
  PROVE  IInv'
<1>1. ASSUME NEW n \in Names, NEW ph \in Phones, NEW t \in {"GUEST", "REGULAR"},
             NEW ticked \in SUBSET Types, RegisterRead(r, n, ph, t, ticked)
      PROVE  IInv'
  BY <1>1, RegisterReadKeeps
<1>2. ASSUME NEW c \in ClientIds, NEW what \in Changes, ChangeRead(r, c, what)
      PROVE  IInv'
  <2>1. /\ what \in Commands /\ what \in Aggregates /\ client[c] # None
        /\ At(r, "read", what, c, client[c], None)
        /\ UNCHANGED <<tables, draft, found, histories>>
    BY <1>2 DEF ChangeRead, Asked, Aggregates
  <2>2. client[c].status = "ACTIVE"
    <3>1. client[c] \in ClientRow /\ client[c].status # "ANONYMIZED"
      BY <1>2, <2>1 DEF ChangeRead, CanUpgrade, CanChange, IInv, RowInv, TypeOK
    <3> QED BY <3>1 DEF ClientRow
  <2>3. what = "anonymize" => None \in Forms \cup {None}
    OBVIOUS
  <2> QED BY <2>1, <2>2, <2>3, ReadClientKeeps
<1>3. ASSUME NEW c \in ClientIds, NEW q \in Forms \cup {None}, AnonymizeRead(r, c, q)
      PROVE  IInv'
  <2>1. /\ "anonymize" \in Commands /\ "anonymize" \in Aggregates /\ client[c] # None
        /\ At(r, "read", "anonymize", c, client[c], q)
        /\ UNCHANGED <<tables, draft, found, histories>>
    BY <1>3 DEF AnonymizeRead, Asked, Aggregates
  <2>2. "anonymize" \in Changes => client[c].status = "ACTIVE"
    BY DEF Changes
  <2> QED BY <2>1, <2>2, ReadClientKeeps
<1>4. ASSUME NEW q \in Forms, CancelRead(r, q)
      PROVE  IInv'
  BY <1>4, CancelReadKeeps
<1> QED BY <1>1, <1>2, <1>3, <1>4 DEF ReadStep

(***************************************************************************)
(* A load makes the draft, of the rows as they are; the save reads them    *)
(* again.                                                                  *)
(***************************************************************************)
LEMMA VehiclesOfOK ==
  ASSUME TypeOK, NEW c \in ClientIds
  PROVE  /\ VehiclesOf(c) \in VehicleRows
         /\ \A v \in VehicleIds :
              /\ (vehicle[v] # None /\ vehicle[v].client = c) => VehiclesOf(c)[v] = vehicle[v]
              /\ VehiclesOf(c)[v] # None =>
                    vehicle[v] # None /\ vehicle[v].client = c /\ VehiclesOf(c)[v] = vehicle[v]
BY DEF VehiclesOf, VehicleRows, TypeOK

LEMMA ConsentsOfOK ==
  ASSUME TypeOK, NEW c \in ClientIds
  PROVE  /\ ConsentsOf(c) \in ConsentRows
         /\ \A k \in ConsentIds : ConsentsOf(c)[k] # None =>
              consent[k] # None /\ consent[k].client = c /\ ConsentsOf(c)[k] = consent[k]
BY DEF ConsentsOf, ConsentRows, TypeOK

LEMMA DraftKeeps ==
  ASSUME IInv, NEW r \in Requests, NEW what \in Aggregates, Loading(r, what),
         NEW x \in ClientRow, NEW vs \in VehicleRows, NEW ks \in ConsentRows, Drafts(r, x, vs, ks),
         input' = [q \in Requests |-> input'[q]],
         \A q \in Requests \ {r} : input'[q] = input[q],
         what # "give" => input'[r] = input[r],
         what = "give" => input'[r] \in Types \cup {None},
         what \in Changes => x.status = "ACTIVE",
         \A v \in VehicleIds : vs[v] # None <=> VehiclesOf(about[r])[v] # None,
         \A k \in ConsentIds : ks[k] # None =>
            /\ ConsentsOf(about[r])[k] # None
            /\ consent[k].type = Mandatory => ks[k].active,
         what = "anonymize" =>
            /\ x = Anonymized(copy[r])
            /\ \A v \in VehicleIds : (vs[v] # None /\ vs[v].active) =>
                  copy[r].status = "ANONYMIZED" /\ InUse(vehicle[v])
  PROVE  IInv'
<1>0. /\ TypeOK /\ NothingOutlives /\ RequestOK(r) /\ None \notin VehicleRow
      /\ at[r] = "read" /\ command[r] = what
  BY NoRow DEF IInv, RowInv, Loading
<1>1. Loaded(r)
  BY <1>0 DEF RequestOK, Busy
<1>2. [client |-> x, vehicles |-> vs, consents |-> ks] \in Aggregate
  BY DEF Aggregate
<1>3. /\ at' = [at EXCEPT ![r] = "held"]
      /\ draft' = [draft EXCEPT ![r] = [client |-> x, vehicles |-> vs, consents |-> ks]]
      /\ UNCHANGED <<client, vehicle, consent, form, command, about, copy, found, raced, doneFor>>
  BY DEF Drafts, tables, histories
<1>4. TypeOK'
  BY <1>0, <1>2, <1>3 DEF TypeOK
<1>5. at'[r] = "held" /\ command'[r] = what /\ draft'[r].client = x
      /\ draft'[r].vehicles = vs /\ draft'[r].consents = ks /\ draft'[r] \in Aggregate
  BY <1>0, <1>2, <1>3 DEF TypeOK
<1>6. \A q \in Requests \ {r} : Quiet(q)
  BY <1>0, <1>3 DEF Quiet, TypeOK
<1>7. Loaded(r)'
  BY <1>1, <1>3 DEF Loaded
<1>8. /\ \A v \in VehicleIds : VehiclesOf(about[r])[v] # None =>
            vehicle[v] # None /\ vehicle[v].client = about[r]
      /\ \A v \in VehicleIds : (vehicle[v] # None /\ vehicle[v].client = about[r])
            => VehiclesOf(about[r])[v] = vehicle[v]
      /\ \A k \in ConsentIds : ConsentsOf(about[r])[k] # None => consent[k] # None
  <2>1. about[r] \in ClientIds
    BY <1>1 DEF Loaded
  <2> QED BY <1>0, <2>1, VehiclesOfOK, ConsentsOfOK
<1>9. Drafted(r)'
  BY <1>3, <1>5, <1>8 DEF Drafted
<1>10. ASSUME what = "anonymize"
       PROVE  draft'[r].client = Anonymized(copy'[r]) /\ TakesAll(r)'
  <2>1. draft'[r].client = Anonymized(copy[r]) /\ copy'[r] = copy[r]
    BY <1>3, <1>5, <1>10
  <2>2. ASSUME NEW v \in VehicleIds, vs[v] # None, vs[v].active
        PROVE  copy[r].status = "ANONYMIZED" /\ v \in raced
    <3>1. copy[r].status = "ANONYMIZED" /\ InUse(vehicle[v])
      BY <1>10, <2>2
    <3>2. vehicle[v].client = about[r] /\ client[about[r]].status = "ANONYMIZED"
      BY <1>1, <1>8, <2>2, <3>1 DEF Loaded
    <3> QED BY <1>0, <3>1, <3>2 DEF NothingOutlives
  <2>3. ASSUME NEW v \in VehicleIds, vs[v] = None, InUse(vehicle[v]), vehicle[v].client = about[r]
        PROVE  FALSE
    BY <1>8, <2>3 DEF InUse
  <2>4. TakesAll(r)'
    BY <1>3, <1>5, <2>2, <2>3 DEF TakesAll, InUse
  <2> QED BY <2>1, <2>4 DEF Anonymized
<1>11. /\ Busy(r, Changes)' => copy'[r].status = "ACTIVE"
       /\ Holds(r, Changes)' => draft'[r].client.status = "ACTIVE"
       /\ Busy(r, {"anonymize"})' => input'[r] \in Forms \cup {None}
       /\ Holds(r, {"give"})' => input'[r] \in Types \cup {None}
       /\ Holds(r, {"anonymize"})' => what = "anonymize"
  BY <1>0, <1>3, <1>5 DEF RequestOK, Busy, Holds, Changes
<1>12. \A S : ~ Saving(r, S)'
  BY <1>5 DEF Saving
<1>13. RequestOK(r)'
  BY <1>5, <1>7, <1>9, <1>10, <1>11, <1>12 DEF RequestOK, Anonymized
<1> QED BY <1>3, <1>4, <1>6, <1>13, ReadKeeps DEF tables, histories

\* The rows a change leaves as they were loaded.
LEMMA AsLoaded ==
  ASSUME IInv, NEW r \in Requests, NEW what \in Aggregates, Loading(r, what)
  PROVE  /\ TypeOK /\ Loaded(r) /\ about[r] \in ClientIds /\ copy[r] \in ClientRow
         /\ what \in Changes => copy[r].status = "ACTIVE"
         /\ VehiclesOf(about[r]) \in VehicleRows /\ ConsentsOf(about[r]) \in ConsentRows
         /\ \A v \in VehicleIds : Has(r, v) => VehiclesOf(about[r])[v] = vehicle[v]
         /\ \A v \in VehicleIds : VehiclesOf(about[r])[v] # None =>
               VehiclesOf(about[r])[v] = vehicle[v] /\ vehicle[v] \in VehicleRow
         /\ \A k \in ConsentIds : ConsentsOf(about[r])[k] # None =>
               /\ consent[k] \in ConsentRow /\ ConsentsOf(about[r])[k] = consent[k]
               /\ consent[k].type = Mandatory => ConsentsOf(about[r])[k].active
<1>1. TypeOK /\ RowsOK /\ RequestOK(r)
  BY DEF IInv, RowInv
<1>2. Loaded(r) /\ (what \in Changes => copy[r].status = "ACTIVE")
  BY <1>1 DEF RequestOK, Loading, Busy
<1>3. about[r] \in ClientIds /\ copy[r] \in ClientRow
  BY <1>2 DEF Loaded
<1> QED BY <1>1, <1>2, <1>3, VehiclesOfOK, ConsentsOfOK DEF Has, RowsOK, TypeOK, VehicleRows, ConsentRows

LEMMA InputKept ==
  ASSUME TypeOK, NEW r \in Requests, NEW x, UNCHANGED input \/ input' = [input EXCEPT ![r] = x]
  PROVE  /\ input' = [q \in Requests |-> input'[q]]
         /\ \A q \in Requests \ {r} : input'[q] = input[q]
         /\ UNCHANGED input => input'[r] = input[r]
         /\ input' = [input EXCEPT ![r] = x] => input'[r] = x
<1>1. input = [q \in Requests |-> input[q]]
  BY DEF TypeOK
<1>2. DOMAIN input = Requests
  BY <1>1
<1> QED BY <1>1, <1>2

\* A change of the client and of no row that hangs on it.
LEMMA OwnDraftKeeps ==
  ASSUME IInv, NEW r \in Requests, NEW what \in Changes, what # "give", Loading(r, what),
         NEW x \in ClientRow, x.status = "ACTIVE",
         Drafts(r, x, VehiclesOf(about[r]), ConsentsOf(about[r])), NoInput
  PROVE  IInv'
<1>1. what \in Aggregates /\ what # "anonymize"
  BY DEF Aggregates, Changes
<1>2. /\ TypeOK /\ VehiclesOf(about[r]) \in VehicleRows /\ ConsentsOf(about[r]) \in ConsentRows
      /\ \A k \in ConsentIds : ConsentsOf(about[r])[k] # None =>
           /\ consent[k].type = Mandatory => ConsentsOf(about[r])[k].active
  BY <1>1, AsLoaded
<1>3. /\ input' = [q \in Requests |-> input'[q]]
      /\ \A q \in Requests \ {r} : input'[q] = input[q]
      /\ input'[r] = input[r]
  BY <1>2, InputKept DEF NoInput
<1>4. \A v \in VehicleIds : VehiclesOf(about[r])[v] # None <=> VehiclesOf(about[r])[v] # None
  OBVIOUS
<1> QED BY <1>1, <1>2, <1>3, <1>4, DraftKeeps

\* A change of one vehicle.
LEMMA VehicleDraftKeeps ==
  ASSUME IInv, NEW r \in Requests, NEW what \in Changes, what # "give", Loading(r, what),
         NEW v \in VehicleIds, Has(r, v), NEW y \in VehicleRow,
         Drafts(r, copy[r], [VehiclesOf(about[r]) EXCEPT ![v] = y], ConsentsOf(about[r])), NoInput
  PROVE  IInv'
<1> DEFINE vs == [VehiclesOf(about[r]) EXCEPT ![v] = y]
<1>1. what \in Aggregates /\ what # "anonymize"
  BY DEF Aggregates, Changes
<1>2. /\ TypeOK /\ VehiclesOf(about[r]) \in VehicleRows /\ ConsentsOf(about[r]) \in ConsentRows
      /\ copy[r] \in ClientRow /\ copy[r].status = "ACTIVE"
      /\ VehiclesOf(about[r])[v] = vehicle[v]
      /\ \A k \in ConsentIds : ConsentsOf(about[r])[k] # None =>
           /\ consent[k].type = Mandatory => ConsentsOf(about[r])[k].active
  BY <1>1, AsLoaded
<1>3. /\ input' = [q \in Requests |-> input'[q]]
      /\ \A q \in Requests \ {r} : input'[q] = input[q]
      /\ input'[r] = input[r]
  BY <1>2, InputKept DEF NoInput
<1>4. /\ vs \in VehicleRows
      /\ \A w \in VehicleIds : vs[w] # None <=> VehiclesOf(about[r])[w] # None
  <2>1. vehicle[v] # None /\ y # None
    BY NoRow DEF Has
  <2> QED BY <1>2, <2>1 DEF VehicleRows
<1>5. Drafts(r, copy[r], vs, ConsentsOf(about[r]))
  OBVIOUS
<1> HIDE DEF vs
<1> QED BY <1>1, <1>2, <1>3, <1>4, <1>5, DraftKeeps

LEMMA GiveLoadKeeps ==
  ASSUME IInv, NEW r \in Requests, NEW t \in Types, GiveLoad(r, t)
  PROVE  IInv'
<1> DEFINE what == "give"
<1>1. what \in Aggregates /\ what # "anonymize" /\ what \in Changes /\ Loading(r, what)
  BY DEF Aggregates, Changes, GiveLoad
<1>2. /\ TypeOK /\ VehiclesOf(about[r]) \in VehicleRows /\ ConsentsOf(about[r]) \in ConsentRows
      /\ copy[r] \in ClientRow /\ copy[r].status = "ACTIVE"
      /\ \A k \in ConsentIds : ConsentsOf(about[r])[k] # None =>
           /\ consent[k].type = Mandatory => ConsentsOf(about[r])[k].active
  BY <1>1, AsLoaded
<1>3. PICK x \in Types \cup {None} : input' = [input EXCEPT ![r] = x]
  BY DEF GiveLoad
<1>4. /\ input' = [q \in Requests |-> input'[q]]
      /\ \A q \in Requests \ {r} : input'[q] = input[q]
      /\ input'[r] \in Types \cup {None}
  BY <1>2, <1>3, InputKept
<1>5. Drafts(r, copy[r], VehiclesOf(about[r]), ConsentsOf(about[r]))
  BY DEF GiveLoad
<1>6. \A v \in VehicleIds : VehiclesOf(about[r])[v] # None <=> VehiclesOf(about[r])[v] # None
  OBVIOUS
<1> QED BY <1>1, <1>2, <1>4, <1>5, <1>6, DraftKeeps

LEMMA RevokeLoadKeeps ==
  ASSUME IInv, NEW r \in Requests, NEW t \in Types, RevokeLoad(r, t)
  PROVE  IInv'
<1> DEFINE what == "revoke"
<1>1. what \in Aggregates /\ what # "anonymize" /\ what \in Changes /\ what # "give" /\ Loading(r, what)
  BY DEF Aggregates, Changes, RevokeLoad
<1>2. /\ TypeOK /\ VehiclesOf(about[r]) \in VehicleRows /\ ConsentsOf(about[r]) \in ConsentRows
      /\ copy[r] \in ClientRow /\ copy[r].status = "ACTIVE"
      /\ \A k \in ConsentIds : ConsentsOf(about[r])[k] # None =>
           /\ consent[k] \in ConsentRow /\ ConsentsOf(about[r])[k] = consent[k]
           /\ consent[k].type = Mandatory => ConsentsOf(about[r])[k].active
  BY <1>1, AsLoaded
<1>3. /\ input' = [q \in Requests |-> input'[q]]
      /\ \A q \in Requests \ {r} : input'[q] = input[q]
      /\ input'[r] = input[r]
  BY <1>2, InputKept DEF NoInput, RevokeLoad
<1>4. PICK k \in Having(about[r], t) :
         Drafts(r, copy[r], VehiclesOf(about[r]), [ConsentsOf(about[r]) EXCEPT ![k] = Withdrawn(@)])
  BY DEF RevokeLoad, First
<1> DEFINE ks == [ConsentsOf(about[r]) EXCEPT ![k] = Withdrawn(@)]
<1>5. k \in ConsentIds /\ consent[k] \in ConsentRow /\ consent[k].type # Mandatory
      /\ ConsentsOf(about[r])[k] = consent[k]
  BY <1>2, <1>4, NoRow DEF Having, RevokeLoad, CanRevoke, TypeOK, ConsentRows, ConsentsOf
<1>6. Withdrawn(consent[k]) \in ConsentRow
  BY <1>5 DEF Withdrawn, ConsentRow
<1>7. /\ ks \in ConsentRows
      /\ \A l \in ConsentIds : ks[l] # None =>
           /\ ConsentsOf(about[r])[l] # None
           /\ consent[l].type = Mandatory => ks[l].active
  <2>1. ks[k] = Withdrawn(consent[k]) /\ \A l \in ConsentIds \ {k} : ks[l] = ConsentsOf(about[r])[l]
    BY <1>2, <1>5 DEF ConsentRows
  <2>2. ConsentsOf(about[r])[k] # None
    BY <1>5, NoRow
  <2>3. ks \in ConsentRows
    BY <1>2, <1>5, <1>6 DEF ConsentRows
  <2> HIDE DEF ks
  <2> QED BY <1>2, <1>5, <2>1, <2>2, <2>3
<1>8. Drafts(r, copy[r], VehiclesOf(about[r]), ks)
  BY <1>4
<1>9. \A v \in VehicleIds : VehiclesOf(about[r])[v] # None <=> VehiclesOf(about[r])[v] # None
  OBVIOUS
<1> HIDE DEF ks
<1> QED BY <1>1, <1>2, <1>3, <1>7, <1>8, <1>9, DraftKeeps

LEMMA AnonymizeLoadKeeps ==
  ASSUME IInv, NEW r \in Requests, AnonymizeLoad(r)
  PROVE  IInv'
<1> DEFINE what == "anonymize"
           vs == OutOfUse(copy[r], VehiclesOf(about[r]))
           x == Anonymized(copy[r])
<1>1. what \in Aggregates /\ what \notin Changes /\ what # "give" /\ Loading(r, what)
  BY DEF Aggregates, Changes, AnonymizeLoad
<1>2. /\ TypeOK /\ VehiclesOf(about[r]) \in VehicleRows /\ ConsentsOf(about[r]) \in ConsentRows
      /\ copy[r] \in ClientRow
      /\ \A v \in VehicleIds : VehiclesOf(about[r])[v] # None =>
               VehiclesOf(about[r])[v] = vehicle[v] /\ vehicle[v] \in VehicleRow
      /\ \A k \in ConsentIds : ConsentsOf(about[r])[k] # None =>
           /\ consent[k].type = Mandatory => ConsentsOf(about[r])[k].active
  BY <1>1, AsLoaded
<1>3. /\ input' = [q \in Requests |-> input'[q]]
      /\ \A q \in Requests \ {r} : input'[q] = input[q]
      /\ input'[r] = input[r]
  BY <1>2, InputKept DEF NoInput, AnonymizeLoad
<1>4. x \in ClientRow
  BY <1>2 DEF Anonymized, ClientRow
<1>5. /\ vs \in VehicleRows
      /\ \A v \in VehicleIds :
           /\ vs[v] # None <=> VehiclesOf(about[r])[v] # None
           /\ (vs[v] # None /\ vs[v].active) => copy[r].status = "ANONYMIZED" /\ InUse(vehicle[v])
  <2>1. \A v \in VehicleIds :
          IF copy[r].status = "ANONYMIZED" \/ VehiclesOf(about[r])[v] = None
          THEN vs[v] = VehiclesOf(about[r])[v]
          ELSE vs[v] = Deactivated(vehicle[v])
    BY <1>2 DEF OutOfUse
  <2>2. ASSUME NEW v \in VehicleIds, VehiclesOf(about[r])[v] # None
        PROVE  /\ Deactivated(vehicle[v]) \in VehicleRow /\ ~ Deactivated(vehicle[v]).active
               /\ Deactivated(vehicle[v]) # None
    <3>1. vehicle[v] \in VehicleRow
      BY <1>2, <2>2
    <3>2. Deactivated(vehicle[v]) \in VehicleRow /\ ~ Deactivated(vehicle[v]).active
      BY <3>1 DEF Deactivated, VehicleRow
    <3> QED BY <3>2, NoRow
  <2>3. vs = [v \in VehicleIds |-> vs[v]]
    BY DEF OutOfUse
  <2>4. \A v \in VehicleIds : VehiclesOf(about[r])[v] \in VehicleRow \cup {None}
    BY <1>2 DEF VehicleRows
  <2> HIDE DEF vs
  <2>5. vs \in VehicleRows
    BY <2>1, <2>2, <2>3, <2>4 DEF VehicleRows
  <2> QED BY <1>2, <2>1, <2>2, <2>5 DEF InUse
<1>6. Drafts(r, x, vs, ConsentsOf(about[r]))
  BY DEF AnonymizeLoad
<1>7. x = Anonymized(copy[r])
  OBVIOUS
<1> HIDE DEF vs, x
<1> QED BY <1>1, <1>2, <1>3, <1>4, <1>5, <1>6, <1>7, DraftKeeps

LEMMA RereadKeeps ==
  ASSUME IInv, NEW r \in Requests, Reread(r)
  PROVE  IInv'
<1> DEFINE fresh == [vehicles |-> VehiclesOf(about[r]), consents |-> ConsentsOf(about[r])]
<1>0. TypeOK /\ RequestOK(r) /\ at[r] = "held" /\ command[r] \in Aggregates
  BY DEF IInv, RowInv, Reread, RequestOK
<1>1. Loaded(r) /\ Drafted(r)
  BY <1>0 DEF RequestOK, Busy, Holds
<1>2. about[r] \in ClientIds
  BY <1>1 DEF Loaded
<1>3. /\ fresh \in Children
      /\ \A v \in VehicleIds : (vehicle[v] # None /\ vehicle[v].client = about[r])
            => fresh.vehicles[v] = vehicle[v]
  BY <1>0, <1>2, VehiclesOfOK, ConsentsOfOK DEF Children
<1>4. /\ at' = [at EXCEPT ![r] = "save"] /\ found' = [found EXCEPT ![r] = fresh]
      /\ UNCHANGED <<client, vehicle, consent, form, command, about, copy, draft, input, raced, doneFor>>
  BY DEF Reread, tables, histories
<1> HIDE DEF fresh
<1>5. at'[r] = "save" /\ found'[r] = fresh
  BY <1>0, <1>4 DEF TypeOK
<1>6. TypeOK'
  BY <1>0, <1>3, <1>4 DEF TypeOK
<1>7. \A q \in Requests \ {r} : Quiet(q)
  BY <1>0, <1>4 DEF Quiet, TypeOK
<1>8. Loaded(r)' /\ Drafted(r)'
  BY <1>1, <1>4 DEF Loaded, Drafted
<1>9. Covers(r)' /\ MissedIsRaced(r)'
  BY <1>1, <1>3, <1>4, <1>5 DEF Covers, MissedIsRaced, Drafted, InUse
<1>10. TakesAll(r) => TakesAll(r)'
  BY <1>4 DEF TakesAll, InUse
<1>11. /\ Busy(r, Changes)' => copy'[r].status = "ACTIVE"
       /\ Holds(r, Changes)' => draft'[r].client.status = "ACTIVE"
       /\ Holds(r, {"anonymize"})' => draft'[r].client = Anonymized(copy'[r]) /\ TakesAll(r)'
       /\ Busy(r, {"anonymize"})' => input'[r] \in Forms \cup {None}
       /\ Holds(r, {"give"})' => input'[r] \in Types \cup {None}
  BY <1>0, <1>4, <1>10 DEF RequestOK, Busy, Holds, Anonymized
<1>12. ~ Saving(r, {"register", "cancel"})'
  BY <1>0, <1>4 DEF Saving, Aggregates, Changes
<1>13. RequestOK(r)'
  BY <1>5, <1>8, <1>9, <1>11, <1>12 DEF RequestOK, Saving, Anonymized
<1> QED BY <1>4, <1>6, <1>7, <1>13, ReadKeeps DEF tables, histories

LEMMA LoadStepKeeps ==
  ASSUME IInv, NEW r \in Requests, LoadStep(r)
  PROVE  IInv'
<1>1. ASSUME NEW n \in Names, NEW ph \in Phones, ProfileLoad(r, n, ph)
      PROVE  IInv'
  <2>1. /\ "profile" \in Changes /\ "profile" # "give" /\ Loading(r, "profile") /\ NoInput
        /\ Drafts(r, ProfileUpdated(copy[r], n, ph), VehiclesOf(about[r]), ConsentsOf(about[r]))
    BY <1>1 DEF ProfileLoad, Changes
  <2>2. copy[r] \in ClientRow /\ copy[r].status = "ACTIVE"
    BY <2>1, AsLoaded DEF Aggregates
  <2>3. ProfileUpdated(copy[r], n, ph) \in ClientRow /\ ProfileUpdated(copy[r], n, ph).status = "ACTIVE"
    BY <2>2 DEF ProfileUpdated, ClientRow
  <2> QED BY <2>1, <2>3, OwnDraftKeeps
<1>2. ASSUME UpgradeLoad(r)
      PROVE  IInv'
  <2>1. /\ "upgrade" \in Changes /\ "upgrade" # "give" /\ Loading(r, "upgrade") /\ NoInput
        /\ Drafts(r, Upgraded(copy[r]), VehiclesOf(about[r]), ConsentsOf(about[r]))
    BY <1>2 DEF UpgradeLoad, Changes
  <2>2. copy[r] \in ClientRow /\ copy[r].status = "ACTIVE"
    BY <2>1, AsLoaded DEF Aggregates
  <2>3. Upgraded(copy[r]) \in ClientRow /\ Upgraded(copy[r]).status = "ACTIVE"
    BY <2>2 DEF Upgraded, ClientRow
  <2> QED BY <2>1, <2>3, OwnDraftKeeps
<1>3. ASSUME AddLoad(r)
      PROVE  IInv'
  <2>1. /\ "add" \in Changes /\ "add" # "give" /\ Loading(r, "add") /\ NoInput
        /\ Drafts(r, copy[r], VehiclesOf(about[r]), ConsentsOf(about[r]))
    BY <1>3 DEF AddLoad, Changes
  <2>2. copy[r] \in ClientRow /\ copy[r].status = "ACTIVE"
    BY <2>1, AsLoaded DEF Aggregates
  <2> QED BY <2>1, <2>2, OwnDraftKeeps
<1>4. ASSUME NEW v \in VehicleIds, NEW m \in Makes, DescribeLoad(r, v, m)
      PROVE  IInv'
  <2>1. /\ "describe" \in Changes /\ "describe" # "give" /\ Loading(r, "describe") /\ NoInput /\ Has(r, v)
        /\ Drafts(r, copy[r], [VehiclesOf(about[r]) EXCEPT ![v] = Described(@, m)], ConsentsOf(about[r]))
    BY <1>4 DEF DescribeLoad, Changes
  <2>2. /\ VehiclesOf(about[r])[v] = vehicle[v] /\ vehicle[v] \in VehicleRow
        /\ VehiclesOf(about[r]) \in VehicleRows
    BY <2>1, AsLoaded DEF Aggregates, Has, TypeOK, VehicleRows
  <2>3. Described(vehicle[v], m) \in VehicleRow
    BY <2>2 DEF Described, VehicleRow
  <2>4. Drafts(r, copy[r], [VehiclesOf(about[r]) EXCEPT ![v] = Described(vehicle[v], m)],
               ConsentsOf(about[r]))
    <3>1. [VehiclesOf(about[r]) EXCEPT ![v] = Described(@, m)]
             = [VehiclesOf(about[r]) EXCEPT ![v] = Described(vehicle[v], m)]
      BY <2>2
    <3> QED BY <2>1, <3>1
  <2> QED BY <2>1, <2>3, <2>4, VehicleDraftKeeps
<1>5. ASSUME NEW v \in VehicleIds, DeactivateLoad(r, v)
      PROVE  IInv'
  <2>1. /\ "deactivate" \in Changes /\ "deactivate" # "give" /\ Loading(r, "deactivate") /\ NoInput
        /\ Has(r, v)
        /\ Drafts(r, copy[r], [VehiclesOf(about[r]) EXCEPT ![v] = Deactivated(@)], ConsentsOf(about[r]))
    BY <1>5 DEF DeactivateLoad, Changes
  <2>2. /\ VehiclesOf(about[r])[v] = vehicle[v] /\ vehicle[v] \in VehicleRow
        /\ VehiclesOf(about[r]) \in VehicleRows
    BY <2>1, AsLoaded DEF Aggregates, Has, TypeOK, VehicleRows
  <2>3. Deactivated(vehicle[v]) \in VehicleRow
    BY <2>2 DEF Deactivated, VehicleRow
  <2>4. Drafts(r, copy[r], [VehiclesOf(about[r]) EXCEPT ![v] = Deactivated(vehicle[v])],
               ConsentsOf(about[r]))
    <3>1. [VehiclesOf(about[r]) EXCEPT ![v] = Deactivated(@)]
             = [VehiclesOf(about[r]) EXCEPT ![v] = Deactivated(vehicle[v])]
      BY <2>2
    <3> QED BY <2>1, <3>1
  <2> QED BY <2>1, <2>3, <2>4, VehicleDraftKeeps
<1> QED BY <1>1, <1>2, <1>3, <1>4, <1>5, GiveLoadKeeps, RevokeLoadKeeps, AnonymizeLoadKeeps, RereadKeeps
        DEF LoadStep

(***************************************************************************)
(* What the UPDATEs of a save leave of the rows.                           *)
(***************************************************************************)
LEMMA InHand ==
  ASSUME IInv, NEW r \in Requests, Saving(r, Aggregates)
  PROVE  /\ TypeOK /\ RowInv /\ RequestOK(r) /\ Loaded(r) /\ Drafted(r) /\ Covers(r)
         /\ about[r] \in ClientIds /\ client[about[r]] \in ClientRow
         /\ draft[r].client \in ClientRow /\ copy[r] \in ClientRow
         /\ draft[r].vehicles \in VehicleRows /\ draft[r].consents \in ConsentRows
<1>1. TypeOK /\ RowInv /\ RequestOK(r)
  BY DEF IInv, RowInv
<1>2. Loaded(r) /\ Drafted(r) /\ Covers(r)
  BY <1>1 DEF RequestOK, Saving, Busy, Holds
<1> QED BY <1>1, <1>2 DEF Loaded, Drafted, Aggregate, TypeOK

LEMMA VehiclesOK ==
  ASSUME IInv, NEW r \in Requests, Saving(r, Aggregates)
  PROVE  /\ Vehicles(r) \in VehicleRows
         /\ \A v \in VehicleIds :
              /\ vehicle[v] = None => Vehicles(r)[v] = None
              /\ vehicle[v] # None => Vehicles(r)[v] # None /\ Vehicles(r)[v].client = vehicle[v].client
              /\ (InUse(Vehicles(r)[v]) /\ ~ InUse(vehicle[v])) =>
                    /\ vehicle[v].client = about[r]
                    /\ draft[r].vehicles[v] # None /\ draft[r].vehicles[v].active
              /\ (draft[r].vehicles[v] # None /\ InUse(vehicle[v]) /\ InUse(Vehicles(r)[v])) =>
                    draft[r].vehicles[v].active \/ ~ found[r].vehicles[v].active
<1>1. /\ vehicle \in VehicleRows /\ draft[r].vehicles \in VehicleRows /\ found[r].vehicles \in VehicleRows
      /\ Drafted(r) /\ Covers(r)
  BY InHand DEF TypeOK, Covers, Children
<1>2. ASSUME NEW v \in VehicleIds
      PROVE  /\ Vehicles(r)[v] \in VehicleRow \cup {None}
             /\ vehicle[v] = None => Vehicles(r)[v] = None
             /\ vehicle[v] # None => Vehicles(r)[v] # None /\ Vehicles(r)[v].client = vehicle[v].client
             /\ (InUse(Vehicles(r)[v]) /\ ~ InUse(vehicle[v])) =>
                   /\ vehicle[v].client = about[r]
                   /\ draft[r].vehicles[v] # None /\ draft[r].vehicles[v].active
             /\ (draft[r].vehicles[v] # None /\ InUse(vehicle[v]) /\ InUse(Vehicles(r)[v])) =>
                   draft[r].vehicles[v].active \/ ~ found[r].vehicles[v].active
  <2>1. vehicle[v] \in VehicleRow \cup {None}
    BY <1>1 DEF VehicleRows
  <2>2. CASE draft[r].vehicles[v] = None
    <3>1. Vehicles(r)[v] = vehicle[v]
      BY <2>2 DEF Vehicles
    <3> QED BY <2>1, <2>2, <3>1
  <2>3. CASE draft[r].vehicles[v] # None
    <3> DEFINE row == vehicle[v]
               old == found[r].vehicles[v]
               new == draft[r].vehicles[v]
    <3>1. row \in VehicleRow /\ row.client = about[r] /\ row # None
      BY <1>1, <2>1, <2>3 DEF Drafted
    <3>2. new \in VehicleRow /\ old \in VehicleRow
      BY <1>1, <2>3 DEF VehicleRows, Covers
    <3>3. Vehicles(r)[v] = FlushedVehicle(row, old, new)
      BY <2>3 DEF Vehicles
    <3> HIDE DEF row, old, new
    <3>4. /\ row.client \in ClientIds /\ row.make \in Makes /\ row.active \in BOOLEAN
          /\ old.make \in Makes /\ old.active \in BOOLEAN
          /\ new.make \in Makes /\ new.active \in BOOLEAN
      BY <3>1, <3>2 DEF VehicleRow
    <3>5. FlushedVehicle(row, old, new) \in VehicleRow
      BY <3>4 DEF FlushedVehicle, Column, VehicleRow
    <3>6. Vehicles(r)[v] # None
      BY <3>3, <3>5, NoRow
    <3>7. /\ FlushedVehicle(row, old, new).client = row.client
          /\ (FlushedVehicle(row, old, new).active /\ ~ row.active) => new.active
          /\ (FlushedVehicle(row, old, new).active /\ row.active) => new.active \/ ~ old.active
      BY <3>4 DEF FlushedVehicle, Column
    <3> QED BY <2>3, <3>1, <3>3, <3>5, <3>6, <3>7 DEF InUse, row, old, new
  <2> QED BY <2>2, <2>3
<1>3. Vehicles(r) = [v \in VehicleIds |-> Vehicles(r)[v]]
  BY DEF Vehicles
<1>4. Vehicles(r) \in VehicleRows
  BY <1>2, <1>3 DEF VehicleRows
<1> QED BY <1>2, <1>4

LEMMA ConsentsOK ==
  ASSUME IInv, NEW r \in Requests, Saving(r, Aggregates)
  PROVE  /\ Consents(r) \in ConsentRows
         /\ \A k \in ConsentIds :
              /\ consent[k] = None => Consents(r)[k] = None
              /\ consent[k] # None =>
                    /\ Consents(r)[k] # None
                    /\ Consents(r)[k].client = consent[k].client
                    /\ Consents(r)[k].type = consent[k].type
                    /\ consent[k].type = Mandatory => Consents(r)[k].active
<1>1. /\ consent \in ConsentRows /\ draft[r].consents \in ConsentRows /\ Drafted(r) /\ RowsOK
  BY InHand DEF TypeOK, RowInv
<1>2. ASSUME NEW k \in ConsentIds
      PROVE  /\ Consents(r)[k] \in ConsentRow \cup {None}
             /\ consent[k] = None => Consents(r)[k] = None
             /\ consent[k] # None =>
                    /\ Consents(r)[k] # None
                    /\ Consents(r)[k].client = consent[k].client
                    /\ Consents(r)[k].type = consent[k].type
                    /\ consent[k].type = Mandatory => Consents(r)[k].active
  <2>1. /\ consent[k] \in ConsentRow \cup {None}
        /\ (consent[k] # None /\ consent[k].type = Mandatory) => consent[k].active
    BY <1>1 DEF ConsentRows, RowsOK
  <2>2. CASE draft[r].consents[k] = None
    <3>1. Consents(r)[k] = consent[k]
      BY <2>2 DEF Consents
    <3> QED BY <2>1, <2>2, <3>1
  <2>3. CASE draft[r].consents[k] # None
    <3> DEFINE row == consent[k]
               old == found[r].consents[k]
               new == draft[r].consents[k]
    <3>1. row \in ConsentRow /\ row # None /\ (row.type = Mandatory => row.active)
      BY <1>1, <2>1, <2>3 DEF Drafted
    <3>2. new \in ConsentRow /\ (row.type = Mandatory => new.active)
      BY <1>1, <2>3 DEF ConsentRows, Drafted
    <3>3. Consents(r)[k] = FlushedConsent(row, old, new)
      BY <2>3 DEF Consents
    <3> HIDE DEF row, old, new
    <3>4. /\ row.client \in ClientIds /\ row.type \in Types
          /\ row.active \in BOOLEAN /\ new.active \in BOOLEAN
      BY <3>1, <3>2 DEF ConsentRow
    <3>5. Column(row.active, old.active, new.active) \in BOOLEAN
      BY <3>4 DEF Column
    <3>6. FlushedConsent(row, old, new) \in ConsentRow
      BY <3>4, <3>5 DEF FlushedConsent, ConsentRow
    <3>7. Consents(r)[k] # None
      BY <3>3, <3>6, NoRow
    <3>8. /\ FlushedConsent(row, old, new).client = row.client
          /\ FlushedConsent(row, old, new).type = row.type
          /\ row.type = Mandatory => FlushedConsent(row, old, new).active
      BY <3>1, <3>2 DEF FlushedConsent, Column
    <3> QED BY <3>1, <3>3, <3>6, <3>7, <3>8 DEF row
  <2> QED BY <2>2, <2>3
<1>3. Consents(r) = [k \in ConsentIds |-> Consents(r)[k]]
  BY DEF Consents
<1>4. Consents(r) \in ConsentRows
  BY <1>2, <1>3 DEF ConsentRows
<1> QED BY <1>2, <1>4

\* The client's row is written only as it was loaded.
LEMMA ClientsOK ==
  ASSUME IInv, NEW r \in Requests, Saving(r, Aggregates), ~ Refused(r)
  PROVE  /\ Clients(r) \in [ClientIds -> ClientRow \cup {None}]
         /\ \A c \in ClientIds \ {about[r]} : Clients(r)[c] = client[c]
         /\ Clients(r)[about[r]] # None
         /\ client[about[r]].status = "ANONYMIZED" => Clients(r)[about[r]] = client[about[r]]
         /\ Clients(r)[about[r]] # client[about[r]] =>
               Clients(r)[about[r]].version = client[about[r]].version + 1
         /\ command[r] = "anonymize" => Clients(r)[about[r]].status = "ANONYMIZED"
         /\ command[r] \in Changes =>
               (Clients(r)[about[r]].status = "ANONYMIZED" => client[about[r]].status = "ANONYMIZED")
<1>1. /\ TypeOK /\ RequestOK(r) /\ Loaded(r)
      /\ about[r] \in ClientIds /\ client[about[r]] \in ClientRow
      /\ draft[r].client \in ClientRow /\ copy[r] \in ClientRow /\ client[about[r]] # None
  BY InHand, NoRow
<1>2. /\ command[r] \in Changes => copy[r].status = "ACTIVE" /\ draft[r].client.status = "ACTIVE"
      /\ command[r] = "anonymize" => draft[r].client = Anonymized(copy[r])
      /\ at[r] = "save" /\ command[r] \in Changes \cup {"anonymize"}
  BY <1>1 DEF RequestOK, Saving, Busy, Holds, Aggregates
<1>3. CASE draft[r].client = copy[r]
  <2>1. Clients(r) = client
    BY <1>3 DEF Clients
  <2>2. command[r] = "anonymize" => client[about[r]].status = "ANONYMIZED"
    <3>1. command[r] = "anonymize" => copy[r].status = "ANONYMIZED"
      BY <1>2, <1>3 DEF Anonymized
    <3> QED BY <1>1, <3>1 DEF Loaded
  <2> QED BY <1>1, <2>1, <2>2 DEF TypeOK
<1>4. CASE draft[r].client # copy[r]
  <2> DEFINE row == client[about[r]]
             new == FlushedClient(row, copy[r], draft[r].client)
  <2>1. row = copy[r] /\ row \in ClientRow /\ row.version \in Nat
    <3>1. row.version = copy[r].version
      BY <1>4 DEF Refused, Stale
    <3> QED BY <1>1, <3>1 DEF Loaded, ClientRow
  <2>2. row.status # "ANONYMIZED"
    BY <1>2, <1>4, <2>1 DEF Anonymized
  <2>3. Clients(r) = [client EXCEPT ![about[r]] = new]
    BY <1>4 DEF Clients
  <2>4. new \in ClientRow /\ new.version = row.version + 1 /\ new.status = draft[r].client.status
    <3>1. /\ row.version + 1 \in Nat /\ copy[r] \in ClientRow /\ draft[r].client \in ClientRow
      BY <1>1, <2>1
    <3> QED BY <2>1, <3>1 DEF FlushedClient, Column, ClientRow
  <2>5. command[r] = "anonymize" => draft[r].client.status = "ANONYMIZED"
    BY <1>2 DEF Anonymized
  <2> HIDE DEF new
  <2>6. Clients(r)[about[r]] = new /\ \A c \in ClientIds \ {about[r]} : Clients(r)[c] = client[c]
    BY <1>1, <2>3 DEF TypeOK
  <2>7. Clients(r) \in [ClientIds -> ClientRow \cup {None}]
    BY <1>1, <2>3, <2>4 DEF TypeOK
  <2>8. new # None
    BY <2>4, NoRow
  <2> QED BY <1>2, <2>2, <2>4, <2>5, <2>6, <2>7, <2>8
<1> QED BY <1>3, <1>4

(***************************************************************************)
(* A commit answers the request, writes rows that only grow, and forgets   *)
(* no client whose vehicles stay in use.                                   *)
(***************************************************************************)
StaysForgotten ==
  \A c \in ClientIds : (client[c] # None /\ client[c].status = "ANONYMIZED")
     => client'[c] = client[c]

LEMMA GrowsForgets ==
  ASSUME Grows
  PROVE  StaysForgotten
BY DEF Grows, StaysForgotten

LEMMA AnsweredOK ==
  ASSUME TypeOK, NEW r \in Requests, Answered(r),
         client' \in [ClientIds -> ClientRow \cup {None}], vehicle' \in VehicleRows,
         consent' \in ConsentRows, form' \in [Forms -> FormRow \cup {None}],
         raced' \subseteq VehicleIds, doneFor' \in [Forms -> ClientIds \cup {None}]
  PROVE  TypeOK' /\ RequestOK(r)' /\ \A q \in Requests \ {r} : Quiet(q)
<1>1. input = [q \in Requests |-> input[q]]
  BY DEF TypeOK
<1>2. DOMAIN input = Requests
  BY <1>1
<1>3. At(r, "done", None, None, None, None)
  BY DEF Answered
<1>4. /\ input' = [q \in Requests |-> input'[q]]
      /\ \A q \in Requests \ {r} : input'[q] = input[q]
  BY <1>1, <1>2, <1>3 DEF At
<1>5. /\ at' \in [Requests -> {"new", "read", "held", "save", "done"}]
      /\ command' \in [Requests -> Commands \cup {None}]
      /\ about' \in [Requests -> ClientIds \cup {None}]
      /\ copy' \in [Requests -> ClientRow \cup {None}]
      /\ draft' \in [Requests -> Aggregate \cup {None}]
      /\ found' \in [Requests -> Children \cup {None}]
      /\ at'[r] = "done"
      /\ \A q \in Requests \ {r} : /\ at'[q] = at[q] /\ command'[q] = command[q]
                                   /\ about'[q] = about[q] /\ copy'[q] = copy[q]
                                   /\ draft'[q] = draft[q] /\ found'[q] = found[q]
  BY <1>3 DEF At, Answered, TypeOK
<1>6. RequestOK(r)'
  BY <1>5 DEF RequestOK, Busy, Holds, Saving
<1>7. TypeOK'
  BY <1>4, <1>5 DEF TypeOK
<1> QED BY <1>4, <1>5, <1>6, <1>7 DEF Quiet

Forgets(c) == /\ client'[c] # None /\ client'[c].status = "ANONYMIZED"
              /\ ~ (client[c] # None /\ client[c].status = "ANONYMIZED")

LEMMA CommitKeeps ==
  ASSUME IInv, NEW r \in Requests, Answered(r), Grows,
         client' \in [ClientIds -> ClientRow \cup {None}], vehicle' \in VehicleRows,
         consent' \in ConsentRows, form' \in [Forms -> FormRow \cup {None}],
         raced' \subseteq VehicleIds, doneFor' \in [Forms -> ClientIds \cup {None}],
         \A v \in VehicleIds : (vehicle[v] = None /\ vehicle'[v] # None)
            => client'[vehicle'[v].client] # None,
         \A k \in ConsentIds : (consent[k] = None /\ consent'[k] # None) => consent'[k].active,
         \A c \in ClientIds : (client[c] = None /\ client'[c] # None) => Consented(c, consent'),
         \A v \in VehicleIds : (InUse(vehicle'[v]) /\ Forgets(vehicle'[v].client)) => v \in raced',
         \A q \in Forms : (form'[q] # None /\ form'[q].status = "COMPLETED") =>
            \/ form'[q] = form[q] /\ doneFor'[q] = doneFor[q]
            \/ /\ doneFor'[q] \in ClientIds /\ client'[doneFor'[q]] # None
               /\ client'[doneFor'[q]].status = "ANONYMIZED"
  PROVE  IInv' /\ StaysForgotten
<1>0. TypeOK /\ RowsOK /\ NothingOutlives /\ CompletedIsDone /\ EveryoneConsented
  BY DEF IInv, RowInv
<1>1. TypeOK' /\ RequestOK(r)' /\ \A q \in Requests \ {r} : Quiet(q)
  BY <1>0, AnsweredOK
<1>2. ASSUME NEW q \in Forms, form'[q] # None, form'[q].status = "COMPLETED"
      PROVE  /\ doneFor'[q] \in ClientIds /\ client'[doneFor'[q]] # None
             /\ client'[doneFor'[q]].status = "ANONYMIZED"
  <2>1. CASE form'[q] = form[q] /\ doneFor'[q] = doneFor[q]
    <3>1. /\ doneFor[q] \in ClientIds /\ client[doneFor[q]] # None
          /\ client[doneFor[q]].status = "ANONYMIZED"
      BY <1>0, <1>2, <2>1 DEF RowsOK, CompletedIsDone
    <3> QED BY <2>1, <3>1 DEF Grows
  <2> QED BY <1>2, <2>1
<1>3. RowsOK'
  <2>1. ASSUME NEW v \in VehicleIds, vehicle'[v] # None
        PROVE  client'[vehicle'[v].client] # None
    <3>1. CASE vehicle[v] # None
      <4>1. client[vehicle[v].client] # None /\ vehicle[v].client \in ClientIds
        BY <1>0, <3>1 DEF RowsOK, TypeOK, VehicleRows, VehicleRow
      <4> QED BY <3>1, <4>1 DEF Grows
    <3> QED BY <2>1, <3>1
  <2>2. ASSUME NEW k \in ConsentIds, consent'[k] # None, consent'[k].type = Mandatory
        PROVE  consent'[k].active
    BY <2>2 DEF Grows
  <2> QED BY <1>2, <2>1, <2>2 DEF RowsOK
<1>4. NothingOutlives'
  <2> SUFFICES ASSUME NEW v \in VehicleIds, InUse(vehicle'[v]),
                      client'[vehicle'[v].client].status = "ANONYMIZED"
               PROVE  v \in raced'
    BY DEF NothingOutlives, InUse
  <2> DEFINE c == vehicle'[v].client
  <2>1. c \in ClientIds /\ client'[c] # None /\ client'[c].status = "ANONYMIZED"
    BY <1>3, NoRow DEF RowsOK, InUse, VehicleRows, VehicleRow
  <2>2. CASE Forgets(c)
    BY <2>2
  <2>3. CASE ~ Forgets(c)
    <3>1. client[c] # None /\ client[c].status = "ANONYMIZED"
      BY <2>1, <2>3 DEF Forgets
    <3>2. CASE InUse(vehicle[v])
      <4>1. vehicle[v].client = c
        BY <3>2 DEF InUse, Grows
      <4>2. v \in raced
        BY <1>0, <3>1, <3>2, <4>1 DEF NothingOutlives
      <4> QED BY <4>2 DEF Grows
    <3>3. CASE ~ InUse(vehicle[v])
      BY <3>1, <3>3 DEF Grows
    <3> QED BY <3>2, <3>3
  <2> QED BY <2>2, <2>3
<1>5. CompletedIsDone'
  BY <1>2 DEF CompletedIsDone
<1>6. EveryoneConsented'
  <2> SUFFICES ASSUME NEW c \in ClientIds, client'[c] # None
               PROVE  Consented(c, consent')
    BY DEF EveryoneConsented, Consented
  <2>1. CASE client[c] = None
    BY <2>1
  <2>2. CASE client[c] # None
    <3>1. PICK k \in ConsentIds : consent[k] # None /\ consent[k].client = c
                                    /\ consent[k].type = Mandatory /\ consent[k].active
      BY <1>0, <2>2 DEF EveryoneConsented, Consented
    <3>2. consent'[k] # None /\ consent'[k].client = c /\ consent'[k].type = Mandatory
            /\ consent'[k].active
      BY <3>1 DEF Grows
    <3> QED BY <3>2 DEF Consented
  <2> QED BY <2>1, <2>2
<1>7. IInv'
  <2>1. RowInv'
    BY <1>1, <1>3, <1>4, <1>5, <1>6 DEF RowInv
  <2> QED BY <1>1, <2>1, Together
<1> QED BY <1>7, GrowsForgets

LEMMA RolledBack ==
  ASSUME IInv, NEW r \in Requests, Answered(r), UNCHANGED <<tables, histories>>
  PROVE  IInv' /\ StaysForgotten
<1>0. TypeOK /\ RowsOK
  BY DEF IInv, RowInv
<1>1. TypeOK' /\ RequestOK(r)' /\ \A q \in Requests \ {r} : Quiet(q)
  BY <1>0, AnsweredOK DEF TypeOK, tables, histories
<1>2. StaysForgotten
  BY DEF StaysForgotten, tables
<1> QED BY <1>1, <1>2, ReadKeeps

(***************************************************************************)
(* The saves of an aggregate.                                              *)
(***************************************************************************)
LEMMA SavedKeeps ==
  ASSUME IInv, NEW r \in Requests, Saving(r, Aggregates), Answered(r), Races(r),
         client' = client \/ (~ Refused(r) /\ client' = Clients(r)),
         command[r] = "anonymize" => ~ Refused(r) /\ client' = Clients(r),
         vehicle' \in VehicleRows, consent' \in ConsentRows,
         \A v \in VehicleIds :
            /\ vehicle[v] # None => vehicle'[v] = Vehicles(r)[v]
            /\ (vehicle[v] = None /\ vehicle'[v] # None) =>
                  vehicle'[v].client = about[r] /\ command[r] \in Changes,
         \A k \in ConsentIds :
            /\ consent[k] # None => consent'[k] = Consents(r)[k]
            /\ (consent[k] = None /\ consent'[k] # None) => consent'[k].active,
         form' \in [Forms -> FormRow \cup {None}], \A q \in Forms : form[q] # None => form'[q] # None,
         doneFor' \in [Forms -> ClientIds \cup {None}],
         \A q \in Forms : (form'[q] # None /\ form'[q].status = "COMPLETED") =>
            \/ form'[q] = form[q] /\ doneFor'[q] = doneFor[q]
            \/ command[r] = "anonymize" /\ doneFor'[q] = about[r]
  PROVE  IInv' /\ StaysForgotten
<1>0. /\ TypeOK /\ RowInv /\ RequestOK(r) /\ Loaded(r) /\ Drafted(r)
      /\ about[r] \in ClientIds /\ client[about[r]] # None
  BY InHand DEF Loaded
<1>1. /\ client' \in [ClientIds -> ClientRow \cup {None}]
      /\ \A c \in ClientIds \ {about[r]} : client'[c] = client[c]
      /\ client'[about[r]] # None
      /\ client[about[r]].status = "ANONYMIZED" => client'[about[r]] = client[about[r]]
      /\ client'[about[r]] # client[about[r]] =>
            client'[about[r]].version = client[about[r]].version + 1
      /\ command[r] = "anonymize" => client'[about[r]].status = "ANONYMIZED"
      /\ command[r] \in Changes =>
            (client'[about[r]].status = "ANONYMIZED" => client[about[r]].status = "ANONYMIZED")
  <2>1. CASE client' = client /\ command[r] # "anonymize"
    BY <1>0, <2>1 DEF TypeOK
  <2>2. CASE ~ Refused(r) /\ client' = Clients(r)
    BY <2>2, ClientsOK
  <2> QED BY <2>1, <2>2
<1>2. at[r] = "save" /\ command[r] \in Changes \cup {"anonymize"}
  BY DEF Saving, Aggregates
<1>3. /\ command[r] \in Changes => copy[r].status = "ACTIVE"
      /\ command[r] = "anonymize" => TakesAll(r) /\ MissedIsRaced(r) /\ Holds(r, {"anonymize"})
      /\ command[r] \in Changes => ~ Holds(r, {"anonymize"})
  BY <1>0, <1>2 DEF RequestOK, Busy, Holds, Saving, Changes
<1>4. raced \subseteq raced' /\ raced' \subseteq VehicleIds
  BY <1>0 DEF Races, TypeOK
<1>5. ASSUME NEW v \in VehicleIds, InUse(vehicle'[v]), ~ InUse(vehicle[v])
      PROVE  /\ vehicle'[v].client = about[r]
             /\ command[r] = "anonymize" => v \in raced
  <2>1. CASE vehicle[v] = None
    BY <1>2, <1>5, <2>1 DEF InUse, Changes
  <2>2. CASE vehicle[v] # None
    <3>1. vehicle'[v] = Vehicles(r)[v]
      BY <2>2
    <3>2. /\ Vehicles(r)[v].client = vehicle[v].client /\ vehicle[v].client = about[r]
          /\ draft[r].vehicles[v] # None /\ draft[r].vehicles[v].active
      BY <1>5, <2>2, <3>1, VehiclesOK
    <3> QED BY <1>3, <3>1, <3>2 DEF TakesAll
  <2> QED BY <2>1, <2>2
<1>6. ASSUME NEW v \in VehicleIds, InUse(vehicle'[v]), ~ InUse(vehicle[v])
      PROVE  /\ \A q \in Requests : (Holds(q, {"anonymize"}) /\ about[q] = vehicle'[v].client)
                                       => v \in raced'
             /\ (client[vehicle'[v].client] # None
                   /\ client[vehicle'[v].client].status = "ANONYMIZED") => v \in raced'
  <2>1. CASE command[r] = "anonymize"
    BY <1>4, <1>5, <1>6, <2>1
  <2>2. CASE command[r] \in Changes
    <3>1. ASSUME NEW q \in Requests, Holds(q, {"anonymize"}), about[q] = about[r]
          PROVE  v \in raced'
      <4>1. ForgottenMeanwhile(r)
        BY <1>3, <2>2, <3>1 DEF ForgottenMeanwhile, Holds
      <4> QED BY <1>6, <4>1 DEF Races
    <3>2. ASSUME client[about[r]].status = "ANONYMIZED"
          PROVE  v \in raced'
      <4>1. ForgottenMeanwhile(r)
        BY <1>3, <2>2, <3>2 DEF ForgottenMeanwhile
      <4> QED BY <1>6, <4>1 DEF Races
    <3> QED BY <1>5, <1>6, <3>1, <3>2
  <2> QED BY <1>2, <2>1, <2>2
<1>7. Grows
  <2>1. ASSUME NEW c \in ClientIds, client[c] # None
        PROVE  /\ client'[c] # None
               /\ client[c].status = "ANONYMIZED" => client'[c] = client[c]
               /\ client'[c] # client[c] => client'[c].version = client[c].version + 1
    BY <1>1, <2>1
  <2>2. ASSUME NEW v \in VehicleIds, vehicle[v] # None
        PROVE  vehicle'[v] # None /\ vehicle'[v].client = vehicle[v].client
    BY <2>2, VehiclesOK
  <2>3. ASSUME NEW k \in ConsentIds, consent[k] # None
        PROVE  /\ consent'[k] # None
               /\ consent'[k].client = consent[k].client /\ consent'[k].type = consent[k].type
               /\ consent[k].type = Mandatory => consent'[k].active
    BY <2>3, ConsentsOK
  <2> QED BY <1>4, <1>6, <2>1, <2>2, <2>3 DEF Grows
<1>8. ASSUME NEW v \in VehicleIds, InUse(vehicle'[v]), Forgets(vehicle'[v].client)
      PROVE  v \in raced'
  <2>1. vehicle'[v].client = about[r] /\ command[r] = "anonymize"
    <3>1. vehicle'[v].client \in ClientIds
      BY <1>8, NoRow DEF InUse, VehicleRows, VehicleRow
    <3> QED BY <1>0, <1>1, <1>2, <1>8, <3>1 DEF Forgets
  <2>2. CASE ~ InUse(vehicle[v])
    BY <1>4, <1>5, <1>8, <2>1, <2>2
  <2>3. CASE InUse(vehicle[v])
    <3>1. vehicle[v] # None /\ vehicle'[v] = Vehicles(r)[v] /\ vehicle[v].client = about[r]
      BY <2>1, <2>3, VehiclesOK DEF InUse
    <3>2. CASE draft[r].vehicles[v] = None
      BY <1>3, <1>4, <2>1, <2>3, <3>1, <3>2 DEF TakesAll
    <3>3. CASE draft[r].vehicles[v] # None
      <4>1. draft[r].vehicles[v].active \/ ~ found[r].vehicles[v].active
        BY <1>8, <2>3, <3>1, <3>3, VehiclesOK
      <4> QED BY <1>3, <1>4, <2>1, <2>3, <3>3, <4>1 DEF TakesAll, MissedIsRaced
    <3> QED BY <3>2, <3>3
  <2> QED BY <2>2, <2>3
<1>9. \A v \in VehicleIds : (vehicle[v] = None /\ vehicle'[v] # None)
         => client'[vehicle'[v].client] # None
  BY <1>1
<1>10. \A c \in ClientIds : (client[c] = None /\ client'[c] # None) => Consented(c, consent')
  BY <1>0, <1>1
<1>11. \A q \in Forms : (form'[q] # None /\ form'[q].status = "COMPLETED") =>
            \/ form'[q] = form[q] /\ doneFor'[q] = doneFor[q]
            \/ /\ doneFor'[q] \in ClientIds /\ client'[doneFor'[q]] # None
               /\ client'[doneFor'[q]].status = "ANONYMIZED"
  BY <1>0, <1>1
<1>12. \A k \in ConsentIds : (consent[k] = None /\ consent'[k] # None) => consent'[k].active
  OBVIOUS
<1> QED BY <1>1, <1>4, <1>7, <1>8, <1>9, <1>10, <1>11, <1>12, CommitKeeps

LEMMA SaveCommitKeeps ==
  ASSUME IInv, NEW r \in Requests, SaveCommit(r)
  PROVE  IInv' /\ StaysForgotten
<1>0. /\ Answered(r) /\ UNCHANGED <<form, doneFor>> /\ TypeOK
      /\ Saving(r, Aggregates) /\ command[r] # "anonymize"
  BY DEF SaveCommit, Saving, Aggregates, Changes, IInv, RowInv
<1>1. CASE Refused(r)
  BY <1>0, <1>1, RolledBack DEF SaveCommit, tables, histories
<1>2. CASE ~ Refused(r)
  <2>1. /\ client' = Clients(r) /\ vehicle' = Vehicles(r) /\ consent' = Consents(r) /\ Races(r)
    BY <1>2 DEF SaveCommit
  <2>2. /\ vehicle' \in VehicleRows /\ consent' \in ConsentRows
        /\ \A v \in VehicleIds :
            /\ vehicle[v] # None => vehicle'[v] = Vehicles(r)[v]
            /\ (vehicle[v] = None /\ vehicle'[v] # None) =>
                  vehicle'[v].client = about[r] /\ command[r] \in Changes
        /\ \A k \in ConsentIds :
            /\ consent[k] # None => consent'[k] = Consents(r)[k]
            /\ (consent[k] = None /\ consent'[k] # None) => consent'[k].active
    BY <1>0, <2>1, VehiclesOK, ConsentsOK
  <2>3. /\ form' \in [Forms -> FormRow \cup {None}] /\ doneFor' \in [Forms -> ClientIds \cup {None}]
        /\ \A q \in Forms : form[q] # None => form'[q] # None
        /\ \A q \in Forms : (form'[q] # None /\ form'[q].status = "COMPLETED") =>
            \/ form'[q] = form[q] /\ doneFor'[q] = doneFor[q]
            \/ command[r] = "anonymize" /\ doneFor'[q] = about[r]
    BY <1>0 DEF TypeOK
  <2> QED BY <1>0, <1>2, <2>1, <2>2, <2>3, SavedKeeps
<1> QED BY <1>1, <1>2

LEMMA AddCommitKeeps ==
  ASSUME IInv, NEW r \in Requests, NEW m \in Makes, AddCommit(r, m)
  PROVE  IInv' /\ StaysForgotten
<1>0. /\ Answered(r) /\ UNCHANGED <<client, form, doneFor>> /\ TypeOK /\ consent' = Consents(r) /\ Races(r)
      /\ Saving(r, Aggregates) /\ command[r] # "anonymize" /\ command[r] \in Changes
  BY DEF AddCommit, Saving, Aggregates, Changes, IInv, RowInv
<1>1. PICK n \in Fresh(vehicle, VehicleIds) :
         vehicle' = [Vehicles(r) EXCEPT ![n] = Added(about[r], m)]
  BY DEF AddCommit
<1>2. n \in VehicleIds /\ vehicle[n] = None
  BY DEF Fresh, First
<1>3. about[r] \in ClientIds
  BY <1>0, InHand
<1>4. Added(about[r], m) \in VehicleRow /\ Added(about[r], m).client = about[r]
  BY <1>3 DEF Added, VehicleRow
<1>5. /\ Vehicles(r) \in VehicleRows /\ consent' \in ConsentRows
      /\ \A v \in VehicleIds : vehicle[v] = None => Vehicles(r)[v] = None
      /\ \A k \in ConsentIds :
            /\ consent[k] # None => consent'[k] = Consents(r)[k]
            /\ (consent[k] = None /\ consent'[k] # None) => consent'[k].active
  BY <1>0, VehiclesOK, ConsentsOK
<1>6. /\ vehicle' \in VehicleRows
      /\ vehicle'[n] = Added(about[r], m) /\ \A v \in VehicleIds \ {n} : vehicle'[v] = Vehicles(r)[v]
  BY <1>1, <1>2, <1>4, <1>5 DEF VehicleRows
<1>7. \A v \in VehicleIds :
            /\ vehicle[v] # None => vehicle'[v] = Vehicles(r)[v]
            /\ (vehicle[v] = None /\ vehicle'[v] # None) =>
                  vehicle'[v].client = about[r] /\ command[r] \in Changes
  BY <1>0, <1>2, <1>4, <1>5, <1>6
<1>8. /\ form' \in [Forms -> FormRow \cup {None}] /\ doneFor' \in [Forms -> ClientIds \cup {None}]
      /\ \A q \in Forms : form[q] # None => form'[q] # None
      /\ \A q \in Forms : (form'[q] # None /\ form'[q].status = "COMPLETED") =>
            \/ form'[q] = form[q] /\ doneFor'[q] = doneFor[q]
            \/ command[r] = "anonymize" /\ doneFor'[q] = about[r]
  BY <1>0 DEF TypeOK
<1> QED BY <1>0, <1>5, <1>6, <1>7, <1>8, SavedKeeps

LEMMA GiveCommitKeeps ==
  ASSUME IInv, NEW r \in Requests, GiveCommit(r)
  PROVE  IInv' /\ StaysForgotten
<1>0. /\ Answered(r) /\ UNCHANGED <<client, form, doneFor>> /\ TypeOK /\ vehicle' = Vehicles(r) /\ Races(r)
      /\ Saving(r, Aggregates) /\ command[r] # "anonymize" /\ RequestOK(r) /\ Holds(r, {"give"})
  BY DEF GiveCommit, Saving, Holds, Aggregates, Changes, IInv, RowInv
<1>1. about[r] \in ClientIds /\ input[r] \in Types \cup {None}
  BY <1>0, InHand DEF RequestOK
<1>2. /\ Consents(r) \in ConsentRows
      /\ \A k \in ConsentIds : consent[k] = None => Consents(r)[k] = None
  BY <1>0, ConsentsOK
<1>3. /\ consent' \in ConsentRows
      /\ \A k \in ConsentIds :
            /\ consent[k] # None => consent'[k] = Consents(r)[k]
            /\ (consent[k] = None /\ consent'[k] # None) => consent'[k].active
  <2>1. CASE input[r] = None
    BY <1>2, <2>1 DEF GiveCommit
  <2>2. CASE input[r] # None
    <3>1. PICK n \in Fresh(consent, ConsentIds) :
             consent' = [Consents(r) EXCEPT ![n] = Given(about[r], input[r])]
      BY <2>2 DEF GiveCommit
    <3>2. n \in ConsentIds /\ consent[n] = None
      BY DEF Fresh, First
    <3>3. Given(about[r], input[r]) \in ConsentRow /\ Given(about[r], input[r]).active
      BY <1>1, <2>2 DEF Given, ConsentRow
    <3>4. /\ consent' \in ConsentRows /\ consent'[n] = Given(about[r], input[r])
          /\ \A k \in ConsentIds \ {n} : consent'[k] = Consents(r)[k]
      BY <1>2, <3>1, <3>2, <3>3 DEF ConsentRows
    <3> QED BY <1>2, <3>2, <3>3, <3>4
  <2> QED BY <2>1, <2>2
<1>4. /\ vehicle' \in VehicleRows
      /\ \A v \in VehicleIds :
            /\ vehicle[v] # None => vehicle'[v] = Vehicles(r)[v]
            /\ (vehicle[v] = None /\ vehicle'[v] # None) =>
                  vehicle'[v].client = about[r] /\ command[r] \in Changes
  BY <1>0, VehiclesOK
<1>5. /\ form' \in [Forms -> FormRow \cup {None}] /\ doneFor' \in [Forms -> ClientIds \cup {None}]
      /\ \A q \in Forms : form[q] # None => form'[q] # None
      /\ \A q \in Forms : (form'[q] # None /\ form'[q].status = "COMPLETED") =>
            \/ form'[q] = form[q] /\ doneFor'[q] = doneFor[q]
            \/ command[r] = "anonymize" /\ doneFor'[q] = about[r]
  BY <1>0 DEF TypeOK
<1> QED BY <1>0, <1>3, <1>4, <1>5, SavedKeeps

LEMMA AnonymizeCommitKeeps ==
  ASSUME IInv, NEW r \in Requests, AnonymizeCommit(r)
  PROVE  IInv' /\ StaysForgotten
<1>0. /\ Answered(r) /\ TypeOK /\ RequestOK(r) /\ Saving(r, Aggregates) /\ Saving(r, {"anonymize"})
      /\ command[r] = "anonymize" /\ Busy(r, {"anonymize"})
  BY DEF AnonymizeCommit, Saving, Busy, Aggregates, Changes, IInv, RowInv
<1>1. CASE Refused(r) \/ NoSuchForm(r)
  BY <1>0, <1>1, RolledBack DEF AnonymizeCommit
<1>2. CASE ~ (Refused(r) \/ NoSuchForm(r))
  <2>1. /\ client' = Clients(r) /\ vehicle' = Vehicles(r) /\ consent' = Consents(r) /\ Races(r)
        /\ Completes(r) /\ ~ Refused(r) /\ ~ NoSuchForm(r)
    BY <1>2 DEF AnonymizeCommit
  <2>2. /\ vehicle' \in VehicleRows /\ consent' \in ConsentRows
        /\ \A v \in VehicleIds :
            /\ vehicle[v] # None => vehicle'[v] = Vehicles(r)[v]
            /\ (vehicle[v] = None /\ vehicle'[v] # None) =>
                  vehicle'[v].client = about[r] /\ command[r] \in Changes
        /\ \A k \in ConsentIds :
            /\ consent[k] # None => consent'[k] = Consents(r)[k]
            /\ (consent[k] = None /\ consent'[k] # None) => consent'[k].active
    BY <1>0, <2>1, VehiclesOK, ConsentsOK
  <2>3. about[r] \in ClientIds /\ input[r] \in Forms \cup {None}
    BY <1>0, InHand DEF RequestOK
  <2>4. /\ form' \in [Forms -> FormRow \cup {None}] /\ doneFor' \in [Forms -> ClientIds \cup {None}]
        /\ \A q \in Forms : form[q] # None => form'[q] # None
        /\ \A q \in Forms : (form'[q] # None /\ form'[q].status = "COMPLETED") =>
            \/ form'[q] = form[q] /\ doneFor'[q] = doneFor[q]
            \/ command[r] = "anonymize" /\ doneFor'[q] = about[r]
    <3>1. CASE input[r] = None
      BY <1>0, <2>1, <3>1 DEF Completes, TypeOK
    <3>2. CASE input[r] # None
      <4> DEFINE q0 == input[r]
                 done == [client |-> form[q0].client, status |-> "COMPLETED"]
      <4>1. q0 \in Forms /\ form[q0] # None /\ form[q0] \in FormRow
        BY <1>0, <2>1, <2>3, <3>2 DEF NoSuchForm, TypeOK
      <4>2. done \in FormRow /\ done # None
        <5>1. done \in FormRow
          BY <4>1 DEF FormRow
        <5> QED BY <5>1, NoRow
      <4>3. form' = [form EXCEPT ![q0] = done] /\ doneFor' = [doneFor EXCEPT ![q0] = about[r]]
        BY <2>1, <3>2 DEF Completes
      <4> HIDE DEF q0, done
      <4> QED BY <1>0, <2>3, <4>1, <4>2, <4>3 DEF TypeOK
    <3> QED BY <3>1, <3>2
  <2> QED BY <1>0, <2>1, <2>2, <2>4, SavedKeeps
<1> QED BY <1>1, <1>2

(***************************************************************************)
(* The steps that save no aggregate that was loaded.                       *)
(***************************************************************************)
LEMMA RegisterCommitKeeps ==
  ASSUME IInv, NEW r \in Requests, RegisterCommit(r)
  PROVE  IInv' /\ StaysForgotten
<1>0. /\ Answered(r) /\ UNCHANGED <<vehicle, form, raced, doneFor>> /\ TypeOK /\ RowsOK
      /\ RequestOK(r) /\ Saving(r, {"register"})
  BY DEF RegisterCommit, Saving, IInv, RowInv, histories
<1>1. /\ copy[r] \in ClientRow /\ copy[r].status = "ACTIVE"
      /\ input[r] \subseteq Types /\ Mandatory \in input[r]
  BY <1>0 DEF RequestOK
<1>2. CASE UNCHANGED <<client, consent>>
  BY <1>0, <1>2, RolledBack DEF tables, histories
<1>3. CASE ~ UNCHANGED <<client, consent>>
  <2>1. PICK c \in Fresh(client, ClientIds), f \in Places(input[r]) :
           /\ client' = [client EXCEPT ![c] = copy[r]]
           /\ consent' = [k \in ConsentIds |-> IF k \in DOMAIN f THEN Given(c, f[k]) ELSE consent[k]]
    BY <1>3 DEF RegisterCommit
  <2>2. c \in ClientIds /\ client[c] = None
    BY DEF Fresh, First
  <2>3. PICK K \in SUBSET {k \in ConsentIds : consent[k] = None} : f \in [K -> input[r]]
    BY DEF Places
  <2>4. DOMAIN f = K /\ \A k \in DOMAIN f : k \in ConsentIds /\ consent[k] = None /\ f[k] \in Types
    BY <1>1, <2>3
  <2>5. PICK m \in DOMAIN f : f[m] = Mandatory
    BY <1>1 DEF Places
  <2>6. ASSUME NEW k \in DOMAIN f
        PROVE  /\ consent'[k] = Given(c, f[k]) /\ consent'[k] \in ConsentRow /\ consent'[k] # None
               /\ consent'[k].client = c /\ consent'[k].type = f[k] /\ consent'[k].active
    <3>1. consent'[k] = Given(c, f[k])
      BY <2>1, <2>4
    <3>2. Given(c, f[k]) \in ConsentRow
      BY <2>2, <2>4 DEF Given, ConsentRow
    <3>3. Given(c, f[k]).client = c /\ Given(c, f[k]).type = f[k] /\ Given(c, f[k]).active
      BY DEF Given
    <3>4. Given(c, f[k]) # None
      BY <3>2, NoRow
    <3> QED BY <3>1, <3>2, <3>3, <3>4
  <2>7. \A k \in ConsentIds : k \notin DOMAIN f => consent'[k] = consent[k]
    BY <2>1
  <2>8. consent' \in ConsentRows
    <3>1. \A k \in ConsentIds : consent'[k] \in ConsentRow \cup {None}
      BY <1>0, <2>6, <2>7 DEF TypeOK, ConsentRows
    <3>2. consent' = [k \in ConsentIds |-> consent'[k]]
      BY <2>1
    <3> QED BY <3>1, <3>2 DEF ConsentRows
  <2>9. /\ client' \in [ClientIds -> ClientRow \cup {None}]
        /\ client'[c] = copy[r] /\ \A d \in ClientIds \ {c} : client'[d] = client[d]
    BY <1>0, <1>1, <2>1, <2>2 DEF TypeOK
  <2>10. \A k \in ConsentIds : (consent[k] = None /\ consent'[k] # None) => consent'[k].active
    BY <2>6, <2>7
  <2>11. Consented(c, consent')
    BY <2>4, <2>5, <2>6 DEF Consented
  <2>12. Grows
    <3>1. ASSUME NEW d \in ClientIds, client[d] # None
          PROVE  client'[d] # None /\ client'[d] = client[d]
      BY <2>2, <2>9, <3>1
    <3>2. ASSUME NEW k \in ConsentIds, consent[k] # None
          PROVE  /\ consent'[k] # None
                 /\ consent'[k].client = consent[k].client /\ consent'[k].type = consent[k].type
                 /\ consent[k].type = Mandatory => consent'[k].active
      <4>1. consent'[k] = consent[k]
        BY <2>4, <2>7, <3>2
      <4> QED BY <1>0, <3>2, <4>1 DEF RowsOK
    <3> QED BY <1>0, <3>1, <3>2 DEF Grows
  <2>13. \A v \in VehicleIds : (InUse(vehicle'[v]) /\ Forgets(vehicle'[v].client)) => v \in raced'
    <3> SUFFICES ASSUME NEW v \in VehicleIds, InUse(vehicle[v]), Forgets(vehicle[v].client)
                 PROVE  FALSE
      BY <1>0
    <3>1. client[vehicle[v].client] # None /\ vehicle[v].client \in ClientIds
      BY <1>0 DEF RowsOK, InUse, TypeOK, VehicleRows, VehicleRow
    <3> QED BY <2>2, <2>9, <3>1 DEF Forgets
  <2>14. /\ vehicle' \in VehicleRows /\ form' \in [Forms -> FormRow \cup {None}]
         /\ raced' \subseteq VehicleIds /\ doneFor' \in [Forms -> ClientIds \cup {None}]
         /\ \A v \in VehicleIds : (vehicle[v] = None /\ vehicle'[v] # None)
               => client'[vehicle'[v].client] # None
         /\ \A q \in Forms : (form'[q] # None /\ form'[q].status = "COMPLETED") =>
               \/ form'[q] = form[q] /\ doneFor'[q] = doneFor[q]
               \/ /\ doneFor'[q] \in ClientIds /\ client'[doneFor'[q]] # None
                  /\ client'[doneFor'[q]].status = "ANONYMIZED"
    BY <1>0 DEF TypeOK
  <2>15. \A d \in ClientIds : (client[d] = None /\ client'[d] # None) => Consented(d, consent')
    BY <2>9, <2>11
  <2> QED BY <1>0, <2>8, <2>9, <2>10, <2>12, <2>13, <2>14, <2>15, CommitKeeps
<1> QED BY <1>2, <1>3

\* A step that writes nothing but one form.
LEMMA FormCommitKeeps ==
  ASSUME IInv, NEW r \in Requests, Answered(r), UNCHANGED <<client, vehicle, consent, histories>>,
         NEW q \in Forms, NEW row \in FormRow, row.status # "COMPLETED",
         form' = [form EXCEPT ![q] = row]
  PROVE  IInv' /\ StaysForgotten
<1>0. TypeOK /\ RowsOK
  BY DEF IInv, RowInv
<1>1. /\ form' \in [Forms -> FormRow \cup {None}] /\ form'[q] = row /\ row # None
      /\ \A p \in Forms \ {q} : form'[p] = form[p]
  BY <1>0, NoRow DEF TypeOK
<1>2. Grows
  BY <1>0, <1>1 DEF Grows, RowsOK, histories
<1>3. \A v \in VehicleIds : (InUse(vehicle'[v]) /\ Forgets(vehicle'[v].client)) => v \in raced'
  BY DEF Forgets
<1>4. /\ client' \in [ClientIds -> ClientRow \cup {None}] /\ vehicle' \in VehicleRows
      /\ consent' \in ConsentRows
      /\ raced' \subseteq VehicleIds /\ doneFor' \in [Forms -> ClientIds \cup {None}]
      /\ \A v \in VehicleIds : (vehicle[v] = None /\ vehicle'[v] # None)
            => client'[vehicle'[v].client] # None
      /\ \A k \in ConsentIds : (consent[k] = None /\ consent'[k] # None) => consent'[k].active
      /\ \A c \in ClientIds : (client[c] = None /\ client'[c] # None) => Consented(c, consent')
  BY <1>0 DEF TypeOK, histories
<1>5. \A p \in Forms : (form'[p] # None /\ form'[p].status = "COMPLETED") =>
         \/ form'[p] = form[p] /\ doneFor'[p] = doneFor[p]
         \/ /\ doneFor'[p] \in ClientIds /\ client'[doneFor'[p]] # None
            /\ client'[doneFor'[p]].status = "ANONYMIZED"
  BY <1>1 DEF histories
<1> QED BY <1>1, <1>2, <1>3, <1>4, <1>5, CommitKeeps

LEMMA CommitStepKeeps ==
  ASSUME IInv, NEW r \in Requests, CommitStep(r)
  PROVE  IInv' /\ StaysForgotten
<1>1. ASSUME NEW c \in ClientIds, RequestAnonymization(r, c)
      PROVE  IInv' /\ StaysForgotten
  <2>1. PICK q \in Fresh(form, Forms) : form' = [form EXCEPT ![q] = [client |-> c, status |-> "PENDING"]]
    BY <1>1 DEF RequestAnonymization
  <2>2. q \in Forms /\ [client |-> c, status |-> "PENDING"] \in FormRow
    BY DEF Fresh, First, FormRow
  <2>3. [client |-> c, status |-> "PENDING"].status # "COMPLETED"
    OBVIOUS
  <2>4. Answered(r) /\ UNCHANGED <<client, vehicle, consent, histories>>
    BY <1>1 DEF RequestAnonymization
  <2> QED BY <2>1, <2>2, <2>3, <2>4, FormCommitKeeps
<1>2. ASSUME CancelCommit(r)
      PROVE  IInv' /\ StaysForgotten
  <2> DEFINE q == input[r]
             row == [client |-> form[q].client, status |-> "CANCELLED"]
  <2>1. q \in Forms /\ form[q] # None /\ form[q] \in FormRow
    BY <1>2 DEF CancelCommit, IInv, RowInv, RequestOK, TypeOK
  <2>2. row \in FormRow /\ row.status # "COMPLETED"
    BY <2>1 DEF FormRow
  <2>3. Answered(r) /\ UNCHANGED <<client, vehicle, consent, histories>> /\ form' = [form EXCEPT ![q] = row]
    BY <1>2 DEF CancelCommit
  <2> HIDE DEF q, row
  <2> QED BY <2>1, <2>2, <2>3, FormCommitKeeps
<1> QED BY <1>1, <1>2, RegisterCommitKeeps, SaveCommitKeeps, AddCommitKeeps, GiveCommitKeeps,
           AnonymizeCommitKeeps DEF CommitStep

(***************************************************************************)
(* The theorems.                                                           *)
(***************************************************************************)
LEMMA InitHolds == Init => IInv
<1> SUFFICES ASSUME Init PROVE IInv
  OBVIOUS
<1>1. PICK t \in InitTables :
         client = t.client /\ vehicle = t.vehicle /\ consent = t.consent /\ form = t.form
  BY DEF Init
<1>2. /\ t.client \in [ClientIds -> [name: Names, phone: Phones, type: {"GUEST", "REGULAR"},
                                     status: {"ACTIVE"}, version: Nat] \cup {None}]
      /\ t.vehicle \in VehicleRows
      /\ t.consent \in ConsentRows
      /\ t.form \in [Forms -> [client: ClientIds, status: {"PENDING"}] \cup {None}]
      /\ \A v \in VehicleIds : t.vehicle[v] # None => t.client[t.vehicle[v].client] # None
      /\ \A c \in ClientIds : t.client[c] # None => Consented(c, t.consent)
      /\ \A k \in ConsentIds :
            (t.consent[k] # None /\ t.consent[k].type = Mandatory) => t.consent[k].active
  BY InitAssumption
<1>3. /\ client \in [ClientIds -> ClientRow \cup {None}]
      /\ \A c \in ClientIds : client[c] # None => client[c].status = "ACTIVE"
  BY <1>1, <1>2 DEF ClientRow
<1>4. /\ form \in [Forms -> FormRow \cup {None}]
      /\ \A q \in Forms : form[q] # None => form[q].status = "PENDING"
  BY <1>1, <1>2 DEF FormRow
<1>5. TypeOK
  BY <1>1, <1>2, <1>3, <1>4 DEF Init, TypeOK
<1>6. \A r \in Requests : RequestOK(r)
  BY DEF Init, RequestOK, Busy, Holds, Saving
<1>7. NothingOutlives
  BY <1>1, <1>2, <1>3, NoRow DEF NothingOutlives, InUse, VehicleRows, VehicleRow
<1>8. EveryoneConsented
  BY <1>1, <1>2 DEF EveryoneConsented, Consented
<1>9. RowsOK /\ CompletedIsDone
  BY <1>1, <1>2, <1>4 DEF RowsOK, CompletedIsDone
<1> QED BY <1>5, <1>6, <1>7, <1>8, <1>9 DEF IInv, RowInv

LEMMA StutterKeeps == IInv /\ UNCHANGED vars => IInv'
<1> SUFFICES ASSUME IInv, UNCHANGED vars PROVE IInv'
  OBVIOUS
<1>1. RowInv'
  BY DEF IInv, RowInv, vars, TypeOK, RowsOK, NothingOutlives, CompletedIsDone, EveryoneConsented,
         Consented, InUse
<1>2. ASSUME NEW r \in Requests
      PROVE  RequestOK(r)'
  <2>1. RequestOK(r)
    BY DEF IInv
  <2> QED BY <2>1 DEF vars, RequestOK, Busy, Holds, Saving, Loaded, Drafted, Covers, TakesAll,
                      MissedIsRaced, InUse, Anonymized
<1> QED BY <1>1, <1>2 DEF IInv

\* The inductive invariant holds in every reachable state.
THEOREM Invariance == Spec => []IInv
<1>1. IInv /\ [Next]_vars => IInv'
  BY ReadStepKeeps, LoadStepKeeps, CommitStepKeeps, StutterKeeps DEF Next
<1> QED BY <1>1, InitHolds, PTL DEF Spec

\* Every variable keeps its type.
THEOREM TypeCorrect == Spec => []TypeOK
<1>1. IInv => TypeOK
  BY DEF IInv, RowInv
<1> QED BY <1>1, Invariance, PTL

\* A vehicle of a forgotten client is out of use unless it came into use across the
\* request that forgot the client, although every save writes all the vehicles.
THEOREM VehiclesGoWithTheirClient == Spec => []NothingOutlives
<1>1. IInv => NothingOutlives
  BY DEF IInv, RowInv
<1> QED BY <1>1, Invariance, PTL

\* A form is never completed without an anonymisation: the client that the completing
\* request was about is forgotten.
THEOREM FormsTellTheTruth == Spec => []CompletedIsDone
<1>1. IInv => CompletedIsDone
  BY DEF IInv, RowInv
<1> QED BY <1>1, Invariance, PTL

\* There is no client, registered by whichever request and saved by whichever, without
\* a consent to the processing of personal data in force.
THEOREM EveryClientConsented == Spec => []EveryoneConsented
<1>1. IInv => EveryoneConsented
  BY DEF IInv, RowInv
<1> QED BY <1>1, Invariance, PTL

\* A forgotten client's row never changes again, whatever copies are saved.
THEOREM ForgottenForGood == Spec => ForgottenStaysForgotten
<1>1. ASSUME NEW r \in Requests, ReadStep(r) \/ LoadStep(r)
      PROVE  StaysForgotten
  <2>1. UNCHANGED client
    BY <1>1 DEF ReadStep, LoadStep, RegisterRead, ChangeRead, AnonymizeRead, CancelRead, ProfileLoad,
       DeactivateLoad, DescribeLoad, GiveLoad, RevokeLoad, UpgradeLoad, AddLoad, AnonymizeLoad,
       Reread, Drafts, tables
  <2> QED BY <2>1 DEF StaysForgotten
<1>2. IInv /\ [Next]_vars => [StaysForgotten]_vars
  BY <1>1, CommitStepKeeps DEF Next
<1>3. [StaysForgotten]_vars
        <=> [\A c \in ClientIds : (client[c] # None /\ client[c].status = "ANONYMIZED")
                => client'[c] = client[c]]_vars
  BY DEF StaysForgotten
<1> QED BY <1>2, <1>3, Invariance, PTL DEF Spec, ForgottenStaysForgotten
=============================================================================
