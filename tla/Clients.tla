------------------------------- MODULE Clients -------------------------------
(***************************************************************************)
(* Clients, their vehicles and consents, and their right to be forgotten.  *)
(* Every command is one HTTP request in one transaction (READ COMMITTED):  *)
(* it loads the row of the client, then its vehicles and consents, calls   *)
(* one method of the aggregate and saves all of it.  The save reads the    *)
(* vehicles and consents again and then writes every column of the         *)
(* aggregate that differs from what it has just read, whatever was changed *)
(* since the load.  Only the client's own row, which is not read again,    *)
(* has a version, and it is compared when a column of that row changes.    *)
(***************************************************************************)
EXTENDS Integers, FiniteSets

CONSTANTS Requests,            \* HTTP requests, each made at most once
          ClientIds, VehicleIds, ConsentIds, Forms, \* identities, numbers
          Names, Erased,       \* full names, and the one of a forgotten client
          Phones, Placeholder, \* phone numbers, and the one of a forgotten client
          Makes,               \* what is said of a vehicle
          Types, Mandatory,    \* kinds of consent, and PERSONAL_DATA_PROCESSING
          Commands,            \* the commands that are asked for
          InitTables,          \* what the tables hold to begin with
          None                 \* no value

ASSUME ClientsAssumption ==
    /\ \A S \in {ClientIds, VehicleIds, ConsentIds, Forms} : S \subseteq Nat
    /\ Erased \notin Names /\ Placeholder \notin Phones /\ Mandatory \in Types
    /\ None \notin Forms \cup ClientIds \cup Types

VARIABLES client,   \* client[c]: the row of crm_client, or None
          vehicle,  \* vehicle[v]: the row of crm_vehicle, or None
          consent,  \* consent[k]: the row of crm_consent, or None
          form,     \* form[q]: the row of crm_anonymization_request, or None
          at,       \* at[r]: where request r stands
          command,  \* command[r]: what it asks for
          about,    \* about[r]: the client it works on
          copy,     \* copy[r]: the client's row as r loaded it
          draft,    \* draft[r]: the aggregate r will save
          found,    \* found[r]: its vehicles and consents as the save read them again
          input,    \* input[r]: what r was given besides
          raced,    \* vehicles that came into use across an anonymisation (history)
          doneFor   \* doneFor[q]: the client whose anonymisation completed q (history)

vars == <<client, vehicle, consent, form, at, command, about, copy, draft, found, input, raced, doneFor>>
tables == <<client, vehicle, consent, form>>
histories == <<raced, doneFor>>

ClientRow == [name: Names \cup {Erased}, phone: Phones \cup {Placeholder},
              type: {"GUEST", "REGULAR"}, status: {"ACTIVE", "ANONYMIZED"}, version: Nat]
VehicleRow == [client: ClientIds, make: Makes, active: BOOLEAN]
ConsentRow == [client: ClientIds, type: Types, active: BOOLEAN]
FormRow == [client: ClientIds, status: {"PENDING", "COMPLETED", "CANCELLED"}]
VehicleRows == [VehicleIds -> VehicleRow \cup {None}]
ConsentRows == [ConsentIds -> ConsentRow \cup {None}]
Aggregate == [client: ClientRow, vehicles: VehicleRows, consents: ConsentRows]
Children == [vehicles: VehicleRows, consents: ConsentRows]
ASSUME NoRow ==
    None \notin ClientRow \cup VehicleRow \cup ConsentRow \cup FormRow \cup Aggregate \cup Children

\* Who is a client has consented to the processing of the data.
Consented(c, rows) ==
    \E k \in ConsentIds : rows[k] # None /\ rows[k].client = c /\ rows[k].type = Mandatory /\ rows[k].active

ASSUME InitAssumption ==
    \A t \in InitTables :
       /\ t.client \in [ClientIds -> [name: Names, phone: Phones, type: {"GUEST", "REGULAR"},
                                     status: {"ACTIVE"}, version: Nat] \cup {None}]
       /\ t.vehicle \in VehicleRows
       /\ t.consent \in ConsentRows
       /\ t.form \in [Forms -> [client: ClientIds, status: {"PENDING"}] \cup {None}]
       /\ \A v \in VehicleIds : t.vehicle[v] # None => t.client[t.vehicle[v].client] # None
       /\ \A c \in ClientIds : t.client[c] # None => Consented(c, t.consent)
       /\ \A k \in ConsentIds :
             (t.consent[k] # None /\ t.consent[k].type = Mandatory) => t.consent[k].active

First(S) == {n \in S : \A k \in S : n <= k}
Fresh(table, Ids) == First({n \in Ids : table[n] = None})

----------------------------------------------------------------------------
(* The aggregate.                                                          *)

Registered(n, ph, t) == [name |-> n, phone |-> ph, type |-> t, status |-> "ACTIVE", version |-> 1]
CanRegister(consents) == Mandatory \in consents
CanChange(x) == x.status # "ANONYMIZED"
CanUpgrade(x) == CanChange(x) /\ x.type = "GUEST"
Upgraded(x) == [name |-> x.name, phone |-> x.phone, type |-> "REGULAR", status |-> x.status,
                version |-> x.version]
ProfileUpdated(x, n, ph) == [name |-> n, phone |-> ph, type |-> x.type, status |-> x.status,
                             version |-> x.version]
\* Of a client already forgotten, the same client.
Anonymized(x) == IF x.status = "ANONYMIZED" THEN x
                 ELSE [name |-> Erased, phone |-> Placeholder, type |-> x.type,
                       status |-> "ANONYMIZED", version |-> x.version]
Added(c, m) == [client |-> c, make |-> m, active |-> TRUE]
Deactivated(x) == [client |-> x.client, make |-> x.make, active |-> FALSE]
OutOfUse(x, vs) == [v \in VehicleIds |-> IF x.status = "ANONYMIZED" \/ vs[v] = None
                                         THEN vs[v] ELSE Deactivated(vs[v])]
Described(x, m) == [client |-> x.client, make |-> m, active |-> x.active]
Given(c, t) == [client |-> c, type |-> t, active |-> TRUE]
CanRevoke_Any(t) == TRUE
CanRevoke(t) == t # Mandatory
Withdrawn(x) == [client |-> x.client, type |-> x.type, active |-> FALSE]

----------------------------------------------------------------------------
(* The repository.                                                         *)

FindByPhone(ph) == {c \in ClientIds : client[c] # None /\ client[c].phone = ph
                                        /\ client[c].status # "ANONYMIZED"}
VehiclesOf(c) == [v \in VehicleIds |-> IF vehicle[v] # None /\ vehicle[v].client = c
                                       THEN vehicle[v] ELSE None]
ConsentsOf(c) == [k \in ConsentIds |-> IF consent[k] # None /\ consent[k].client = c
                                       THEN consent[k] ELSE None]
Having(c, t) == {k \in ConsentIds : consent[k] # None /\ consent[k].client = c
                                      /\ consent[k].type = t /\ consent[k].active}

\* The partial unique index on the phones of active clients.
PhoneTaken(c, x) == x.status = "ACTIVE" /\ \E d \in ClientIds \ {c} :
                       client[d] # None /\ client[d].status = "ACTIVE" /\ client[d].phone = x.phone

\* The UPDATE of a client compares the version, if there is a column to write.
Stale_Unversioned(c, old) == FALSE
Stale(c, old) == client[c].version # old.version
Refused(r) == /\ draft[r].client # copy[r]
              /\ Stale(about[r], copy[r]) \/ PhoneTaken(about[r], draft[r].client)

\* A column is written when the new value is not the one that was read.
Column(row, old, new) == IF new # old THEN new ELSE row
FlushedClient(row, old, new) ==
    [name    |-> Column(row.name, old.name, new.name),
     phone   |-> Column(row.phone, old.phone, new.phone),
     type    |-> Column(row.type, old.type, new.type),
     status  |-> Column(row.status, old.status, new.status),
     version |-> row.version + 1]
FlushedVehicle(row, old, new) ==
    [client |-> row.client,
     make   |-> Column(row.make, old.make, new.make),
     active |-> Column(row.active, old.active, new.active)]
FlushedConsent(row, old, new) ==
    [client |-> row.client, type |-> row.type, active |-> Column(row.active, old.active, new.active)]

\* The UPDATEs of r: the client against its row as loaded, its vehicles and
\* consents against theirs as read again.
Clients(r) ==
    IF draft[r].client = copy[r] THEN client
    ELSE [client EXCEPT ![about[r]] = FlushedClient(@, copy[r], draft[r].client)]
Vehicles(r) ==
    [v \in VehicleIds |-> IF draft[r].vehicles[v] = None THEN vehicle[v]
                          ELSE FlushedVehicle(vehicle[v], found[r].vehicles[v], draft[r].vehicles[v])]
Consents(r) ==
    [k \in ConsentIds |-> IF draft[r].consents[k] = None THEN consent[k]
                          ELSE FlushedConsent(consent[k], found[r].consents[k], draft[r].consents[k])]

----------------------------------------------------------------------------
Init ==
    /\ \E t \in InitTables :
          client = t.client /\ vehicle = t.vehicle /\ consent = t.consent /\ form = t.form
    /\ at = [r \in Requests |-> "new"]
    /\ command = [r \in Requests |-> None]
    /\ about = [r \in Requests |-> None]
    /\ copy = [r \in Requests |-> None]
    /\ draft = [r \in Requests |-> None]
    /\ found = [r \in Requests |-> None]
    /\ input = [r \in Requests |-> None]
    /\ raced = {}
    /\ doneFor = [q \in Forms |-> None]

Asked(r, what) == at[r] = "new" /\ what \in Commands
At(r, step, what, id, row, x) ==
    /\ at' = [at EXCEPT ![r] = step]
    /\ command' = [command EXCEPT ![r] = what]
    /\ about' = [about EXCEPT ![r] = id]
    /\ copy' = [copy EXCEPT ![r] = row]
    /\ input' = [input EXCEPT ![r] = x]
\* The answer, or the exception: nothing of what r knew is needed any more.
Answered(r) ==
    /\ At(r, "done", None, None, None, None)
    /\ draft' = [draft EXCEPT ![r] = None]
    /\ found' = [found EXCEPT ![r] = None]

----------------------------------------------------------------------------
(* Registration, with the consents that were ticked.                       *)

RegisterRead(r, n, ph, t, ticked) ==
    /\ Asked(r, "register")
    /\ FindByPhone(ph) = {} /\ CanRegister(ticked)
    /\ At(r, "save", "register", None, Registered(n, ph, t), ticked)
    /\ UNCHANGED <<tables, draft, found, histories>>

\* New rows of crm_consent, one for each kind.
Places(kinds) ==
    {f \in UNION {[K -> kinds] : K \in SUBSET {k \in ConsentIds : consent[k] = None}} :
       /\ \A k, l \in DOMAIN f : f[k] = f[l] => k = l
       /\ \A t \in kinds : \E k \in DOMAIN f : f[k] = t}

RegisterCommit(r) ==
    /\ at[r] = "save" /\ command[r] = "register"
    /\ IF PhoneTaken(None, copy[r])
       THEN UNCHANGED <<client, consent>>
       ELSE \E c \in Fresh(client, ClientIds), f \in Places(input[r]) :
               /\ client' = [client EXCEPT ![c] = copy[r]]
               /\ consent' = [k \in ConsentIds |-> IF k \in DOMAIN f THEN Given(c, f[k]) ELSE consent[k]]
    /\ Answered(r)
    /\ UNCHANGED <<vehicle, form, histories>>

----------------------------------------------------------------------------
(* The other commands load the row of the client, then the rows that hang  *)
(* on it, and make the change in memory.                                   *)

Changes == {"upgrade", "profile", "add", "describe", "deactivate", "give", "revoke"}
ChangeRead_Unguarded(r, c, what) ==
    /\ what \in Changes /\ Asked(r, what)
    /\ client[c] # None
    /\ what = "upgrade" => CanUpgrade(client[c])
    /\ what = "profile" => CanChange(client[c])
    /\ At(r, "read", what, c, client[c], None)
    /\ UNCHANGED <<tables, draft, found, histories>>
ChangeRead(r, c, what) ==
    /\ what \in Changes /\ Asked(r, what)
    /\ client[c] # None
    /\ IF what = "upgrade" THEN CanUpgrade(client[c]) ELSE CanChange(client[c])
    /\ At(r, "read", what, c, client[c], None)
    /\ UNCHANGED <<tables, draft, found, histories>>

\* The request may name any form, or none.
AnonymizeRead(r, c, q) ==
    /\ Asked(r, "anonymize")
    /\ client[c] # None
    /\ At(r, "read", "anonymize", c, client[c], q)
    /\ UNCHANGED <<tables, draft, found, histories>>

Loading(r, what) == at[r] = "read" /\ command[r] = what
Drafts(r, x, vs, ks) ==
    /\ at' = [at EXCEPT ![r] = "held"]
    /\ draft' = [draft EXCEPT ![r] = [client |-> x, vehicles |-> vs, consents |-> ks]]
    /\ UNCHANGED <<tables, command, about, copy, found, histories>>
Has(r, v) == vehicle[v] # None /\ vehicle[v].client = about[r]
NoInput == UNCHANGED input

UpgradeLoad(r) ==
    /\ Loading(r, "upgrade")
    /\ Drafts(r, Upgraded(copy[r]), VehiclesOf(about[r]), ConsentsOf(about[r])) /\ NoInput
ProfileLoad(r, n, ph) ==
    /\ Loading(r, "profile")
    /\ Drafts(r, ProfileUpdated(copy[r], n, ph), VehiclesOf(about[r]), ConsentsOf(about[r])) /\ NoInput
AddLoad(r) ==
    /\ Loading(r, "add")
    /\ Drafts(r, copy[r], VehiclesOf(about[r]), ConsentsOf(about[r])) /\ NoInput
DescribeLoad(r, v, m) ==
    /\ Loading(r, "describe") /\ Has(r, v)
    /\ Drafts(r, copy[r], [VehiclesOf(about[r]) EXCEPT ![v] = Described(@, m)], ConsentsOf(about[r]))
    /\ NoInput
DeactivateLoad(r, v) ==
    /\ Loading(r, "deactivate") /\ Has(r, v) /\ vehicle[v].active
    /\ Drafts(r, copy[r], [VehiclesOf(about[r]) EXCEPT ![v] = Deactivated(@)], ConsentsOf(about[r]))
    /\ NoInput
\* A consent that is there is not given again, but all is saved.
GiveLoad(r, t) ==
    /\ Loading(r, "give")
    /\ Drafts(r, copy[r], VehiclesOf(about[r]), ConsentsOf(about[r]))
    /\ input' = [input EXCEPT ![r] = IF Having(about[r], t) = {} THEN t ELSE None]
RevokeLoad(r, t) ==
    /\ Loading(r, "revoke") /\ CanRevoke(t)
    /\ \E k \in First(Having(about[r], t)) :
          Drafts(r, copy[r], VehiclesOf(about[r]), [ConsentsOf(about[r]) EXCEPT ![k] = Withdrawn(@)])
    /\ NoInput
AnonymizeLoad(r) ==
    /\ Loading(r, "anonymize")
    /\ Drafts(r, Anonymized(copy[r]), OutOfUse(copy[r], VehiclesOf(about[r])), ConsentsOf(about[r]))
    /\ NoInput

----------------------------------------------------------------------------
(* The save: the vehicles and consents are read again, then all is flushed *)
(* and committed, or the transaction is rolled back.                       *)

Reread(r) ==
    /\ at[r] = "held"
    /\ at' = [at EXCEPT ![r] = "save"]
    /\ found' = [found EXCEPT ![r] = [vehicles |-> VehiclesOf(about[r]), consents |-> ConsentsOf(about[r])]]
    /\ UNCHANGED <<tables, command, about, copy, draft, input, histories>>

\* The client was loaded before it was forgotten, and is forgotten by now or
\* by a request that has loaded the vehicles before what r writes.
ForgottenMeanwhile(r) ==
    /\ copy[r].status = "ACTIVE"
    /\ \/ client[about[r]].status = "ANONYMIZED"
       \/ \E q \in Requests : at[q] \in {"held", "save"} /\ command[q] = "anonymize" /\ about[q] = about[r]
InUse(row) == row # None /\ row.active
Races(r) ==
    raced' = raced \cup {v \in VehicleIds : /\ InUse(vehicle'[v]) /\ ~InUse(vehicle[v])
                                            /\ ForgottenMeanwhile(r)}

Saving(r, whats) == at[r] = "save" /\ command[r] \in whats
SaveCommit(r) ==
    /\ Saving(r, {"upgrade", "profile", "describe", "deactivate", "revoke"})
    /\ IF Refused(r)
       THEN UNCHANGED <<client, vehicle, consent, raced>>
       ELSE client' = Clients(r) /\ vehicle' = Vehicles(r) /\ consent' = Consents(r) /\ Races(r)
    /\ Answered(r)
    /\ UNCHANGED <<form, doneFor>>

AddCommit(r, m) ==
    /\ Saving(r, {"add"})
    /\ \E v \in Fresh(vehicle, VehicleIds) :
          vehicle' = [Vehicles(r) EXCEPT ![v] = Added(about[r], m)]
    /\ consent' = Consents(r) /\ Races(r)
    /\ Answered(r)
    /\ UNCHANGED <<client, form, doneFor>>

GiveCommit(r) ==
    /\ Saving(r, {"give"})
    /\ vehicle' = Vehicles(r) /\ Races(r)
    /\ IF input[r] = None
       THEN consent' = Consents(r)
       ELSE \E k \in Fresh(consent, ConsentIds) :
               consent' = [Consents(r) EXCEPT ![k] = Given(about[r], input[r])]
    /\ Answered(r)
    /\ UNCHANGED <<client, form, doneFor>>

Completes(r) ==
    IF input[r] = None THEN UNCHANGED <<form, doneFor>>
    ELSE /\ form' = [form EXCEPT ![input[r]] = [client |-> @.client, status |-> "COMPLETED"]]
         /\ doneFor' = [doneFor EXCEPT ![input[r]] = about[r]]
NoSuchForm(r) == input[r] # None /\ form[input[r]] = None

\* The client with its vehicles, and the form, in two flushes of one transaction.
AnonymizeCommit_Apart(r) ==
    /\ Saving(r, {"anonymize"})
    /\ IF NoSuchForm(r) THEN UNCHANGED <<form, doneFor>> ELSE Completes(r)
    /\ IF Refused(r)
       THEN UNCHANGED <<client, vehicle, consent, raced>>
       ELSE client' = Clients(r) /\ vehicle' = Vehicles(r) /\ consent' = Consents(r) /\ Races(r)
    /\ Answered(r)
AnonymizeCommit(r) ==
    /\ Saving(r, {"anonymize"})
    /\ IF Refused(r) \/ NoSuchForm(r)
       THEN UNCHANGED <<tables, histories>>
       ELSE /\ client' = Clients(r) /\ vehicle' = Vehicles(r) /\ consent' = Consents(r) /\ Races(r)
            /\ Completes(r)
    /\ Answered(r)

----------------------------------------------------------------------------
(* Forms on which a client asks to be forgotten.                           *)

RequestAnonymization(r, c) ==
    /\ Asked(r, "request")
    /\ client[c] # None
    /\ \E q \in Fresh(form, Forms) : form' = [form EXCEPT ![q] = [client |-> c, status |-> "PENDING"]]
    /\ Answered(r)
    /\ UNCHANGED <<client, vehicle, consent, histories>>

CancelRead(r, q) ==
    /\ Asked(r, "cancel")
    /\ form[q] # None /\ form[q].status = "PENDING"
    /\ At(r, "save", "cancel", None, None, q)
    /\ UNCHANGED <<tables, draft, found, histories>>

\* The form that was found pending is cancelled whatever it is by now.
CancelCommit(r) ==
    /\ Saving(r, {"cancel"})
    /\ form' = [form EXCEPT ![input[r]] = [client |-> @.client, status |-> "CANCELLED"]]
    /\ Answered(r)
    /\ UNCHANGED <<client, vehicle, consent, histories>>

----------------------------------------------------------------------------
ReadStep(r) ==
    \/ \E n \in Names, ph \in Phones, t \in {"GUEST", "REGULAR"}, ticked \in SUBSET Types :
          RegisterRead(r, n, ph, t, ticked)
    \/ \E c \in ClientIds : \/ \E what \in Changes : ChangeRead(r, c, what)
                            \/ \E q \in Forms \cup {None} : AnonymizeRead(r, c, q)
    \/ \E q \in Forms : CancelRead(r, q)
LoadStep(r) ==
    \/ \E n \in Names, ph \in Phones : ProfileLoad(r, n, ph)
    \/ \E v \in VehicleIds : DeactivateLoad(r, v) \/ \E m \in Makes : DescribeLoad(r, v, m)
    \/ \E t \in Types : GiveLoad(r, t) \/ RevokeLoad(r, t)
    \/ UpgradeLoad(r) \/ AddLoad(r) \/ AnonymizeLoad(r)
    \/ Reread(r)
CommitStep(r) ==
    \/ \E m \in Makes : AddCommit(r, m)
    \/ \E c \in ClientIds : RequestAnonymization(r, c)
    \/ RegisterCommit(r) \/ SaveCommit(r) \/ GiveCommit(r) \/ AnonymizeCommit(r) \/ CancelCommit(r)

Next == \E r \in Requests : ReadStep(r) \/ LoadStep(r) \/ CommitStep(r)
Spec == Init /\ [][Next]_vars

----------------------------------------------------------------------------
TypeOK ==
    /\ client \in [ClientIds -> ClientRow \cup {None}]
    /\ vehicle \in VehicleRows
    /\ consent \in ConsentRows
    /\ form \in [Forms -> FormRow \cup {None}]
    /\ at \in [Requests -> {"new", "read", "held", "save", "done"}]
    /\ command \in [Requests -> Commands \cup {None}]
    /\ about \in [Requests -> ClientIds \cup {None}]
    /\ copy \in [Requests -> ClientRow \cup {None}]
    /\ draft \in [Requests -> Aggregate \cup {None}]
    /\ found \in [Requests -> Children \cup {None}]
    /\ input = [r \in Requests |-> input[r]]
    /\ raced \subseteq VehicleIds
    /\ doneFor \in [Forms -> ClientIds \cup {None}]

\* A forgotten client's row never changes again, although profiles and types
\* are saved by requests that loaded the client before.
ForgottenStaysForgotten ==
    [][\A c \in ClientIds : (client[c] # None /\ client[c].status = "ANONYMIZED")
          => client'[c] = client[c]]_vars

\* No vehicle of a forgotten client is in use, except one that a request put in,
\* or wrote back from its copy, that had loaded the client before it was forgotten
\* and saved after the vehicles were loaded to be deactivated.  What was in use
\* when the client was forgotten is out of use, and no request that comes later
\* brings it back, even if it saves the client and its vehicles again.
NothingOutlives ==
    \A v \in VehicleIds :
       (InUse(vehicle[v]) /\ client[vehicle[v].client].status = "ANONYMIZED") => v \in raced

\* A completed form was completed together with an anonymisation that took
\* place: the client that request was about is forgotten.  (The form itself may
\* be another client's; the request names any form.)
CompletedIsDone ==
    \A q \in Forms : (form[q] # None /\ form[q].status = "COMPLETED")
       => client[doneFor[q]].status = "ANONYMIZED"

\* Nobody is a client without a consent to the processing of personal data in
\* force: it is put in with the client or neither is, nobody can withdraw it,
\* and no save of an old copy takes it away.
EveryoneConsented == \A c \in ClientIds : client[c] # None => Consented(c, consent)

\* engineering.md 2.6.1: a forgotten client gets nothing new.
ForgottenGetsNothing ==
    [][\A v \in VehicleIds : (vehicle[v] = None /\ vehicle'[v] # None)
          => client[vehicle'[v].client].status # "ANONYMIZED"]_vars

\* A vehicle that was taken out of use stays so (product.md:723: it is deactivated
\* and a new one made), and so does a consent that was withdrawn: there is no
\* command that brings either back.
WithdrawnStaysWithdrawn ==
    [][/\ \A v \in VehicleIds : (vehicle[v] # None /\ ~InUse(vehicle[v])) => ~InUse(vehicle'[v])
       /\ \A k \in ConsentIds : (consent[k] # None /\ ~InUse(consent[k])) => ~InUse(consent'[k])]_vars
=============================================================================
