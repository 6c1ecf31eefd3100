-------------------------------- MODULE Iam --------------------------------
(***************************************************************************)
(* Users, invitations, one-time codes and refresh sessions.  Every command *)
(* is one HTTP request in one transaction of the API: what it writes is    *)
(* seen by nobody before its commit and forgotten when it throws.  The     *)
(* UPDATE of a row holds the row until then.  Only users have a version;   *)
(* the other rows are updated column by column from the copy a request     *)
(* loaded.  The end of all sessions of a user commits by itself.           *)
(***************************************************************************)
EXTENDS Integers, FiniteSets

CONSTANTS Requests,     \* HTTP requests, each made at most once
          Users,        \* identities of users, numbers
          Invitations,  \* identities of invitations, numbers
          Codes,        \* identities of OTP requests, numbers in the order of their creation
          Sessions,     \* identities of sessions, numbers
          Emails, Phones,
          Commands,     \* the commands that are asked for
          InitTables,   \* what there is to begin with: the tables and the tokens issued
          NoPhone, None \* no value

ASSUME IamAssumption ==
    /\ \A S \in {Users, Invitations, Codes, Sessions} : S \subseteq Nat /\ IsFiniteSet(S)
    /\ NoPhone \notin Phones

VARIABLES user,       \* user[i]: the row of iam_user, or None
          invitation, \* invitation[k]: the row of iam_invitation, or None
          otp,        \* otp[o]: the row of iam_otp_request, or None
          session,    \* session[s]: the row of iam_refresh_session, or None
          lapsed,     \* what is past its expiry, as <<table, id>>
          at,         \* at[r]: where request r stands
          about,      \* about[r]: the row it works on
          loaded,     \* loaded[r]: that session or user as r loaded it
          contact,    \* contact[r]: e-mail and phone r was given
          token,      \* token[r]: the token r was given, or has generated
          issued,     \* tokens generated so far
          given,      \* <<session, token>> of every answer (history)
          overlapped  \* sessions rotated over another rotation (history)

vars == <<user, invitation, otp, session, lapsed, at, about, loaded, contact, token,
          issued, given, overlapped>>
tables == <<user, invitation, otp, session>>
request == <<at, about, loaded, contact, token>>
histories == <<issued, given, overlapped>>

UserRow == [email: Emails, phone: Phones, owner: BOOLEAN, status: {"ACTIVE", "BLOCKED"}, version: Nat]
InvitationRow == [email: Emails, status: {"PENDING", "ACCEPTED"}]
OtpRow == [phone: Phones, status: {"PENDING", "VERIFIED"}]
SessionStatus == {"ACTIVE", "REVOKED", "COMPROMISED"}
SessionRow == [user: Users, token: Nat, rotated: SUBSET Nat, status: SessionStatus]
ASSUME NoRow == None \notin UserRow \cup InvitationRow \cup OtpRow \cup SessionRow

\* No two users share an address.
Distinct(us) ==
    \A i, j \in Users : (i # j /\ us[i] # None /\ us[j] # None)
       => us[i].email # us[j].email /\ us[i].phone # us[j].phone
\* What was used has its user, or its session.
InvitationSpent(x, us) ==
    (x # None /\ x.status = "ACCEPTED") => \E i \in Users : us[i] # None /\ us[i].email = x.email
CodeSpent(x, us, ss) ==
    (x # None /\ x.status = "VERIFIED")
       => \E s \in Sessions : ss[s] # None /\ us[ss[s].user].phone = x.phone
SessionFounded(x, us, n) == x # None => us[x.user] # None /\ x.token <= n

ASSUME InitAssumption ==
    \A t \in InitTables :
       /\ t.user \in [Users -> UserRow \cup {None}]
       /\ t.invitation \in [Invitations -> InvitationRow \cup {None}]
       /\ t.otp \in [Codes -> OtpRow \cup {None}]
       /\ t.session \in [Sessions -> SessionRow \cup {None}]
       /\ t.issued \in Nat
       /\ Distinct(t.user)
       /\ \A k \in Invitations : InvitationSpent(t.invitation[k], t.user)
       /\ \A o \in Codes : CodeSpent(t.otp[o], t.user, t.session)
       /\ \A s \in Sessions : SessionFounded(t.session[s], t.user, t.issued)

First(S) == {n \in S : \A k \in S : n <= k}
Fresh(table, Ids) == First({n \in Ids : table[n] = None})
NoContact == [email |-> None, phone |-> NoPhone]

----------------------------------------------------------------------------
(* The aggregates. *)

NewUser(e, ph, isOwner) == [email |-> e, phone |-> ph, owner |-> isOwner, status |-> "ACTIVE", version |-> 1]
Blocked(u) == [email |-> u.email, phone |-> u.phone, owner |-> u.owner, status |-> "BLOCKED",
               version |-> u.version]
IssuedSession(i, t) == [user |-> i, token |-> t, rotated |-> {}, status |-> "ACTIVE"]
Rotated_LastOnly(x, t) == [user |-> x.user, token |-> t, rotated |-> {x.token}, status |-> x.status]
Rotated(x, t) == [user |-> x.user, token |-> t, rotated |-> x.rotated \cup {x.token}, status |-> x.status]
Revoked(x) == [user |-> x.user, token |-> x.token, rotated |-> x.rotated, status |-> "REVOKED"]
Compromised(x) == [user |-> x.user, token |-> x.token, rotated |-> x.rotated, status |-> "COMPROMISED"]

\* An UPDATE writes only the columns that differ from the loaded copy.
Column(row, copy, new) == IF new # copy THEN new ELSE row
Flush_Whole(row, copy, new) == new
Flush(row, copy, new) ==
    [user    |-> row.user,
     token   |-> Column(row.token, copy.token, new.token),
     rotated |-> Column(row.rotated, copy.rotated, new.rotated),
     status  |-> Column(row.status, copy.status, new.status)]
FlushUser(row, copy, new) ==
    [email |-> row.email, phone |-> row.phone, owner |-> row.owner,
     status  |-> Column(row.status, copy.status, new.status),
     version |-> row.version + 1]

----------------------------------------------------------------------------
(* The repositories. *)

FindByTokenHash(t) == {s \in Sessions : session[s] # None /\ session[s].status = "ACTIVE" /\ session[s].token = t}
FindByRotatedTokenHash(t) ==
    {s \in Sessions : session[s] # None /\ session[s].status = "ACTIVE" /\ t \in session[s].rotated}
ActiveOf(i) == {s \in Sessions : session[s] # None /\ session[s].status = "ACTIVE" /\ session[s].user = i}
FindPending(ph) ==
    LET pending == {o \in Codes : otp[o] # None /\ otp[o].phone = ph /\ otp[o].status = "PENDING"}
    IN  {o \in pending : \A q \in pending : q <= o}
ExistsByEmail(e) == \E i \in Users : user[i] # None /\ user[i].email = e
ExistsByPhone(ph) == \E i \in Users : user[i] # None /\ user[i].phone = ph
FindByPhone(ph) == {i \in Users : user[i] # None /\ user[i].phone = ph}
CountOwners == Cardinality({i \in Users : user[i] # None /\ user[i].owner})
PendingFor(e) == {k \in Invitations : invitation[k] # None /\ invitation[k].email = e
                                                          /\ invitation[k].status = "PENDING"}

\* The two partial unique indexes of iam_user.
Duplicate_Unindexed(e, ph) == FALSE
Duplicate(e, ph) == ExistsByEmail(e) \/ ExistsByPhone(ph)

\* Rows held by an UPDATE that has not been committed.
SessionHeld(s) == \E r \in Requests : at[r] = "rotated" /\ about[r] = s
InvitationHeld(k) == \E r \in Requests : at[r] \in {"accepted", "activate"} /\ about[r] = k
OtpHeld(o) == \E r \in Requests : at[r] = "verified" /\ about[r] = o

Asked(r, c) == at[r] = "new" /\ c \in Commands
Goes(r, step, row, copy) ==
    /\ at' = [at EXCEPT ![r] = step]
    /\ about' = [about EXCEPT ![r] = row]
    /\ loaded' = [loaded EXCEPT ![r] = copy]
\* The answer, or the exception, after which the transaction is over.
Answered(r) ==
    /\ Goes(r, "done", None, None)
    /\ contact' = [contact EXCEPT ![r] = NoContact]
    /\ token' = [token EXCEPT ![r] = 0]

----------------------------------------------------------------------------
Init ==
    /\ \E t \in InitTables : /\ user = t.user /\ invitation = t.invitation
                            /\ otp = t.otp /\ session = t.session /\ issued = t.issued
    /\ lapsed = {}
    /\ at = [r \in Requests |-> "new"]
    /\ about = [r \in Requests |-> None]
    /\ loaded = [r \in Requests |-> None]
    /\ contact = [r \in Requests |-> NoContact]
    /\ token = [r \in Requests |-> 0]
    /\ given = {<<s, session[s].token>> : s \in {x \in Sessions : session[x] # None}}
    /\ overlapped = {}

\* Time passes for a row that expires.
Lapse ==
    /\ \/ \E s \in Sessions : session[s] # None /\ lapsed' = lapsed \cup {<<"session", s>>}
       \/ \E o \in Codes : otp[o] # None /\ lapsed' = lapsed \cup {<<"otp", o>>}
       \/ \E k \in Invitations : invitation[k] # None /\ lapsed' = lapsed \cup {<<"invitation", k>>}
    /\ UNCHANGED <<tables, request, histories>>

----------------------------------------------------------------------------
(* Sessions. *)

\* The session a login ends with, in the transaction of the login.
NewSession(i) ==
    \E s \in Fresh(session, Sessions) :
       /\ session' = [session EXCEPT ![s] = IssuedSession(i, issued + 1)]
       /\ issued' = issued + 1
       /\ given' = given \cup {<<s, issued + 1>>}

LoginRead(r, i) ==
    /\ Asked(r, "login")
    /\ user[i] # None /\ user[i].status = "ACTIVE"
    /\ Goes(r, "login", i, None)
    /\ UNCHANGED <<tables, lapsed, contact, token, histories>>

LoginCommit(r) ==
    /\ at[r] = "login"
    /\ NewSession(about[r])
    /\ Answered(r)
    /\ UNCHANGED <<user, invitation, otp, lapsed, overlapped>>

RefreshRead(r, t) ==
    /\ Asked(r, "refresh")
    /\ IF FindByTokenHash(t) = {}
       THEN Goes(r, "reuse", None, None) /\ token' = [token EXCEPT ![r] = t] /\ UNCHANGED contact
       ELSE \E s \in FindByTokenHash(t) :
            IF <<"session", s>> \in lapsed
            THEN Answered(r)
            ELSE Goes(r, "rotate", s, session[s]) /\ UNCHANGED <<contact, token>>
    /\ UNCHANGED <<tables, lapsed, histories>>

\* The UPDATE, which waits for the row.
RefreshRotate(r) ==
    /\ at[r] = "rotate" /\ ~SessionHeld(about[r])
    /\ at' = [at EXCEPT ![r] = "rotated"]
    /\ token' = [token EXCEPT ![r] = issued + 1]
    /\ issued' = issued + 1
    /\ UNCHANGED <<tables, lapsed, about, loaded, contact, given, overlapped>>

\* The user is looked at after the rotation was flushed; a blocked one throws it away.
RefreshAnswer(r) ==
    /\ at[r] = "rotated"
    /\ LET s == about[r]
       IN  IF user[loaded[r].user].status = "ACTIVE"
           THEN /\ session' = [session EXCEPT ![s] = Flush(@, loaded[r], Rotated(loaded[r], token[r]))]
                /\ given' = given \cup {<<s, token[r]>>}
                /\ overlapped' = IF session[s].token # loaded[r].token THEN overlapped \cup {s} ELSE overlapped
           ELSE UNCHANGED <<session, given, overlapped>>
    /\ Answered(r)
    /\ UNCHANGED <<user, invitation, otp, lapsed, issued>>

\* A token that is not current: one that was replaced ends every session of its user.
ReuseRead(r) ==
    /\ at[r] = "reuse"
    /\ IF FindByRotatedTokenHash(token[r]) = {}
       THEN Answered(r)
       ELSE \E s \in FindByRotatedTokenHash(token[r]) :
               Goes(r, "compromise", session[s].user, None) /\ UNCHANGED <<contact, token>>
    /\ UNCHANGED <<tables, lapsed, histories>>

CompromiseAll(r) ==
    /\ at[r] = "compromise"
    /\ \A s \in ActiveOf(about[r]) : ~SessionHeld(s)
    /\ session' = [s \in Sessions |-> IF s \in ActiveOf(about[r]) THEN Compromised(session[s]) ELSE session[s]]
    /\ Answered(r)
    /\ UNCHANGED <<user, invitation, otp, lapsed, histories>>

LogoutRead(r, t) ==
    /\ Asked(r, "logout")
    /\ \E s \in FindByTokenHash(t) : Goes(r, "revoke", s, session[s])
    /\ UNCHANGED <<tables, lapsed, contact, token, histories>>

LogoutCommit(r) ==
    /\ at[r] = "revoke" /\ ~SessionHeld(about[r])
    /\ session' = [session EXCEPT ![about[r]] = Flush(@, loaded[r], Revoked(loaded[r]))]
    /\ Answered(r)
    /\ UNCHANGED <<user, invitation, otp, lapsed, histories>>

----------------------------------------------------------------------------
(* One-time codes. *)

\* The row is committed once the message is on its way.
RequestOtp(r, ph) ==
    /\ Asked(r, "code")
    /\ \E o \in Fresh(otp, Codes) : otp' = [otp EXCEPT ![o] = [phone |-> ph, status |-> "PENDING"]]
    /\ Answered(r)
    /\ UNCHANGED <<user, invitation, session, lapsed, histories>>

\* The newest pending code.  A wrong or late one throws before anything is saved.
VerifyRead(r, ph) ==
    /\ Asked(r, "verify")
    /\ \E o \in FindPending(ph) :
          /\ <<"otp", o>> \notin lapsed
          /\ Goes(r, "verify", o, None)
    /\ UNCHANGED <<tables, lapsed, contact, token, histories>>

VerifyFlush(r) ==
    /\ at[r] = "verify" /\ ~OtpHeld(about[r])
    /\ at' = [at EXCEPT ![r] = "verified"]
    /\ UNCHANGED <<tables, lapsed, about, loaded, contact, token, histories>>

Verified(row) == [phone |-> row.phone, status |-> "VERIFIED"]
VerifyAnswer_Early(r) ==
    /\ at[r] = "verified"
    /\ otp' = [otp EXCEPT ![about[r]] = Verified(@)]
    /\ IF \E i \in FindByPhone(otp[about[r]].phone) : user[i].status = "ACTIVE"
       THEN \E i \in FindByPhone(otp[about[r]].phone) : NewSession(i)
       ELSE UNCHANGED <<session, issued, given>>
    /\ Answered(r)
    /\ UNCHANGED <<user, invitation, lapsed, overlapped>>
VerifyAnswer(r) ==
    /\ at[r] = "verified"
    /\ LET owners == {i \in FindByPhone(otp[about[r]].phone) : user[i].status = "ACTIVE"}
       IN  IF owners = {}
           THEN UNCHANGED <<otp, session, issued, given>>
           ELSE /\ otp' = [otp EXCEPT ![about[r]] = Verified(@)]
                /\ \E i \in owners : NewSession(i)
    /\ Answered(r)
    /\ UNCHANGED <<user, invitation, lapsed, overlapped>>

----------------------------------------------------------------------------
(* Users and invitations. *)

RegisterRead(r, e, ph) ==
    /\ Asked(r, "register")
    /\ ~ExistsByEmail(e) /\ ~ExistsByPhone(ph)
    /\ Goes(r, "register", None, None)
    /\ contact' = [contact EXCEPT ![r] = [email |-> e, phone |-> ph]]
    /\ UNCHANGED <<tables, lapsed, token, histories>>

\* The INSERT and the login of the new owner.
RegisterCommit(r) ==
    /\ at[r] = "register"
    /\ IF Duplicate(contact[r].email, contact[r].phone)
       THEN UNCHANGED <<user, session, issued, given>>
       ELSE \E i \in Fresh(user, Users) :
               /\ user' = [user EXCEPT ![i] = NewUser(contact[r].email, contact[r].phone, TRUE)]
               /\ NewSession(i)
    /\ Answered(r)
    /\ UNCHANGED <<invitation, otp, lapsed, overlapped>>

InviteRead(r, e) ==
    /\ Asked(r, "invite")
    /\ \E i \in Users : user[i] # None /\ user[i].owner
    /\ ~ExistsByEmail(e) /\ PendingFor(e) = {}
    /\ Goes(r, "invite", None, None)
    /\ contact' = [contact EXCEPT ![r] = [email |-> e, phone |-> NoPhone]]
    /\ UNCHANGED <<tables, lapsed, token, histories>>

InviteCommit(r) ==
    /\ at[r] = "invite"
    /\ \E k \in Fresh(invitation, Invitations) :
          invitation' = [invitation EXCEPT ![k] = [email |-> contact[r].email, status |-> "PENDING"]]
    /\ Answered(r)
    /\ UNCHANGED <<user, otp, session, lapsed, histories>>

\* AcceptInvitationHandler and ActivateUserFromInvitationHandler, one request.
AcceptRead(r, k, ph) ==
    /\ Asked(r, "accept")
    /\ invitation[k] # None /\ invitation[k].status = "PENDING"
    /\ <<"invitation", k>> \notin lapsed
    /\ Goes(r, "accept", k, None)
    /\ contact' = [contact EXCEPT ![r] = [email |-> invitation[k].email, phone |-> ph]]
    /\ UNCHANGED <<tables, lapsed, token, histories>>

AcceptFlush(r) ==
    /\ at[r] = "accept" /\ ~InvitationHeld(about[r])
    /\ at' = [at EXCEPT ![r] = "accepted"]
    /\ UNCHANGED <<tables, lapsed, about, loaded, contact, token, histories>>

ActivateRead(r) ==
    /\ at[r] = "accepted"
    /\ IF ExistsByEmail(contact[r].email) \/ ExistsByPhone(contact[r].phone)
       THEN Answered(r)
       ELSE Goes(r, "activate", about[r], None) /\ UNCHANGED <<contact, token>>
    /\ UNCHANGED <<tables, lapsed, histories>>

Accepted(row) == [email |-> row.email, status |-> "ACCEPTED"]
ActivateCommit_Early(r) ==
    /\ at[r] = "activate"
    /\ invitation' = [invitation EXCEPT ![about[r]] = Accepted(@)]
    /\ IF Duplicate(contact[r].email, contact[r].phone)
       THEN UNCHANGED user
       ELSE \E i \in Fresh(user, Users) :
               user' = [user EXCEPT ![i] = NewUser(contact[r].email, contact[r].phone, FALSE)]
    /\ Answered(r)
    /\ UNCHANGED <<otp, session, lapsed, histories>>
ActivateCommit(r) ==
    /\ at[r] = "activate"
    /\ IF Duplicate(contact[r].email, contact[r].phone)
       THEN UNCHANGED <<user, invitation>>
       ELSE /\ invitation' = [invitation EXCEPT ![about[r]] = Accepted(@)]
            /\ \E i \in Fresh(user, Users) :
                  user' = [user EXCEPT ![i] = NewUser(contact[r].email, contact[r].phone, FALSE)]
    /\ Answered(r)
    /\ UNCHANGED <<otp, session, lapsed, histories>>

\* The owners are counted before the block is saved.
BlockRead(r, i) ==
    /\ Asked(r, "block")
    /\ user[i] # None /\ user[i].status = "ACTIVE"
    /\ ~(user[i].owner /\ CountOwners <= 1)
    /\ Goes(r, "block", i, user[i])
    /\ UNCHANGED <<tables, lapsed, contact, token, histories>>

PasswordRead(r, i) ==
    /\ Asked(r, "password")
    /\ user[i] # None /\ user[i].status = "ACTIVE"
    /\ Goes(r, "password", i, user[i])
    /\ UNCHANGED <<tables, lapsed, contact, token, histories>>

\* The UPDATE compares the version.  (The hash of the password, which always
\* differs, is no column of the model.)
Stale(r) == user[about[r]].version # loaded[r].version
SaveUser(r, new) ==
    /\ user' = IF Stale(r) THEN user ELSE [user EXCEPT ![about[r]] = FlushUser(@, loaded[r], new)]
    /\ Answered(r)
    /\ UNCHANGED <<invitation, otp, session, lapsed, histories>>
BlockCommit(r) == at[r] = "block" /\ SaveUser(r, Blocked(loaded[r]))
PasswordCommit(r) == at[r] = "password" /\ SaveUser(r, loaded[r])

----------------------------------------------------------------------------
SessionStep(r) ==
    \/ \E i \in Users : LoginRead(r, i)
    \/ LoginCommit(r)
    \/ \E t \in 1..issued : RefreshRead(r, t) \/ LogoutRead(r, t)
    \/ RefreshRotate(r) \/ RefreshAnswer(r) \/ ReuseRead(r) \/ CompromiseAll(r) \/ LogoutCommit(r)
CodeStep(r) ==
    \/ \E ph \in Phones : RequestOtp(r, ph) \/ VerifyRead(r, ph)
    \/ VerifyFlush(r) \/ VerifyAnswer(r)
UserStep(r) ==
    \/ \E e \in Emails : \/ \E ph \in Phones : RegisterRead(r, e, ph)
                         \/ InviteRead(r, e)
    \/ \E k \in Invitations, ph \in Phones : AcceptRead(r, k, ph)
    \/ \E i \in Users : BlockRead(r, i) \/ PasswordRead(r, i)
    \/ RegisterCommit(r) \/ InviteCommit(r) \/ AcceptFlush(r) \/ ActivateRead(r) \/ ActivateCommit(r)
    \/ BlockCommit(r) \/ PasswordCommit(r)

Next == Lapse \/ \E r \in Requests : SessionStep(r) \/ CodeStep(r) \/ UserStep(r)
Spec == Init /\ [][Next]_vars

----------------------------------------------------------------------------
Steps == {"new", "login", "rotate", "rotated", "reuse", "compromise", "revoke", "verify", "verified",
          "register", "invite", "accept", "accepted", "activate", "block", "password", "done"}
TypeOK ==
    /\ user \in [Users -> UserRow \cup {None}]
    /\ invitation \in [Invitations -> InvitationRow \cup {None}]
    /\ otp \in [Codes -> OtpRow \cup {None}]
    /\ session \in [Sessions -> SessionRow \cup {None}]
    /\ at \in [Requests -> Steps]
    /\ about \in [Requests -> Nat \cup {None}]
    /\ loaded \in [Requests -> UserRow \cup SessionRow \cup {None}]
    /\ contact \in [Requests -> [email: Emails \cup {None}, phone: Phones \cup {NoPhone}]]
    /\ token \in [Requests -> Nat]
    /\ issued \in Nat

\* A token the API has handed out stays known: it is the current one of its
\* session or one its reuse is noticed by, unless two refreshes of the session
\* overlapped, of which the second forgets the token of the first.
TokensAreKnown ==
    \A g \in given : g[1] \in overlapped \/ g[2] \in {session[g[1]].token} \cup session[g[1]].rotated

\* A session that was ended by a logout or by the reuse of a token does not
\* come back, although a refresh that loaded it before is saved after.
EndedStaysEnded ==
    [][\A s \in Sessions : (session[s] # None /\ session[s].status # "ACTIVE")
          => session'[s].status # "ACTIVE"]_vars

\* What can be used once is spent only for something, however many requests use
\* it at once and whatever becomes of the second half of each: an accepted
\* invitation has made its user, and a verified code a session of its user.
SpentForSomething ==
    /\ \A k \in Invitations : InvitationSpent(invitation[k], user)
    /\ \A o \in Codes : CodeSpent(otp[o], user, session)

\* Two registrations or activations that both found an address free leave one user with it.
UniqueContacts == Distinct(user)

\* engineering.md 2.3.2: there is always an active owner, once there is one.
AnOwnerIsActive ==
    (\E i \in Users : user[i] # None /\ user[i].owner)
       => \E i \in Users : user[i] # None /\ user[i].owner /\ user[i].status = "ACTIVE"
=============================================================================
