------------------------------ MODULE IamProofs ------------------------------
(***************************************************************************)
(* Theorems about users, invitations, codes and sessions, for any number   *)
(* of each and of requests.                                                *)
(*                                                                         *)
(* A step leaves all requests but one alone, rows never disappear, and a   *)
(* session's token changes only into the one that request has generated    *)
(* (Moves).  A request left alone by such a step keeps what it knows (Kept *)
(* and FreshKept), so each action is left with the request that takes it.  *)
(***************************************************************************)
EXTENDS Iam, TLAPS

(***************************************************************************)
(* The inductive invariant.                                                *)
(***************************************************************************)
\* A request that holds a session: what it loaded is as old as the token in it.
Held(r) == at[r] \in {"rotate", "rotated", "revoke"}
SessionLoaded(r) ==
  /\ about[r] \in Sessions /\ session[about[r]] # None
  /\ loaded[r] \in SessionRow
  /\ loaded[r].user = session[about[r]].user
  /\ loaded[r].token <= issued
  /\ loaded[r].token = session[about[r]].token => loaded[r].rotated = session[about[r]].rotated

\* A request that changes a user loaded one that was active, and it is the row
\* as long as the versions agree.
UserLoaded(r) ==
  /\ about[r] \in Users /\ user[about[r]] # None
  /\ loaded[r] \in UserRow /\ loaded[r].status = "ACTIVE"
  /\ loaded[r].version <= user[about[r]].version
  /\ loaded[r].version = user[about[r]].version => loaded[r] = user[about[r]]

InvitationKnown(r) ==
  /\ about[r] \in Invitations /\ invitation[about[r]] # None
  /\ contact[r].email = invitation[about[r]].email /\ contact[r].phone \in Phones

RequestOK(r) ==
  /\ at[r] = "login" => about[r] \in Users /\ user[about[r]] # None
  /\ Held(r) => SessionLoaded(r)
  /\ at[r] \in {"verify", "verified"} => about[r] \in Codes /\ otp[about[r]] # None
  /\ at[r] \in {"accept", "accepted", "activate"} => InvitationKnown(r)
  /\ at[r] = "register" => contact[r].email \in Emails /\ contact[r].phone \in Phones
  /\ at[r] = "invite" => contact[r].email \in Emails
  /\ at[r] \in {"block", "password"} => UserLoaded(r)

\* A token that was generated and not handed out yet is in no session, no copy
\* and no other request.
FreshOK(r) ==
  at[r] = "rotated" =>
     /\ token[r] <= issued
     /\ \A s \in Sessions : session[s] # None => session[s].token # token[r]
     /\ \A q \in Requests : Held(q) => loaded[q].token # token[r]
     /\ \A q \in Requests \ {r} : at[q] = "rotated" => token[q] # token[r]

Founded(s) == SessionFounded(session[s], user, issued)
GivenOK == \A g \in given : g[1] \in Sessions /\ session[g[1]] # None

IInv ==
  /\ TypeOK
  /\ UniqueContacts
  /\ SpentForSomething
  /\ TokensAreKnown
  /\ GivenOK
  /\ \A s \in Sessions : Founded(s)
  /\ \A r \in Requests : RequestOK(r) /\ FreshOK(r)

(***************************************************************************)
(* What a step of request p does to the rows and the other requests.       *)
(***************************************************************************)
Moves(p) ==
  /\ \A i \in Users : user[i] # None =>
        /\ user'[i] # None /\ user'[i].email = user[i].email /\ user'[i].phone = user[i].phone
        /\ user'[i] # user[i] => user'[i].version = user[i].version + 1
  /\ \A k \in Invitations : invitation[k] # None =>
        invitation'[k] # None /\ invitation'[k].email = invitation[k].email
  /\ \A o \in Codes : otp[o] # None => otp'[o] # None /\ otp'[o].phone = otp[o].phone
  /\ \A s \in Sessions : session[s] # None =>
        /\ session'[s] # None /\ session'[s].user = session[s].user
        /\ \/ session'[s].token = session[s].token /\ session'[s].rotated = session[s].rotated
           \/ at[p] = "rotated" /\ session'[s].token = token[p]
  /\ \A s \in Sessions : session[s] = None /\ session'[s] # None => session'[s].token = issued + 1
  /\ issued' \in Nat /\ issued <= issued'

Quiet(q) ==
  /\ at'[q] = at[q] /\ about'[q] = about[q] /\ loaded'[q] = loaded[q]
  /\ contact'[q] = contact[q] /\ token'[q] = token[q]

\* The tokens p takes into its hands.
Takes(p) ==
  /\ Held(p)' => \/ Held(p) /\ loaded'[p] = loaded[p]
                 \/ \E s \in Sessions : session[s] # None /\ loaded'[p] = session[s]
  /\ at'[p] = "rotated" => token'[p] = issued + 1

RequestsTyped ==
  /\ at \in [Requests -> Steps]
  /\ about \in [Requests -> Nat \cup {None}]
  /\ loaded \in [Requests -> UserRow \cup SessionRow \cup {None}]
  /\ contact \in [Requests -> [email: Emails \cup {None}, phone: Phones \cup {NoPhone}]]
  /\ token \in [Requests -> Nat]
TablesTyped ==
  /\ user \in [Users -> UserRow \cup {None}]
  /\ invitation \in [Invitations -> InvitationRow \cup {None}]
  /\ otp \in [Codes -> OtpRow \cup {None}]
  /\ session \in [Sessions -> SessionRow \cup {None}]
  /\ issued \in Nat

LEMMA TypeSplit == TypeOK <=> TablesTyped /\ RequestsTyped
BY DEF TypeOK, TablesTyped, RequestsTyped

LEMMA RowFacts ==
  ASSUME TablesTyped
  PROVE  /\ \A i \in Users : user[i] # None => user[i] \in UserRow
         /\ \A s \in Sessions : session[s] # None => session[s] \in SessionRow
         /\ \A k \in Invitations : invitation[k] # None => invitation[k] \in InvitationRow
         /\ \A o \in Codes : otp[o] # None => otp[o] \in OtpRow
BY DEF TablesTyped

LEMMA Kept ==
  ASSUME IInv, NEW p \in Requests, Moves(p), NEW q \in Requests \ {p}, Quiet(q)
  PROVE  RequestOK(q)'
<1>0. RequestOK(q) /\ FreshOK(p) /\ TablesTyped
  BY TypeSplit DEF IInv
<1>1. ASSUME SessionLoaded(q), Held(q)
      PROVE  SessionLoaded(q)'
  <2>1. /\ about'[q] = about[q] /\ about[q] \in Sessions /\ loaded'[q] = loaded[q]
        /\ session[about[q]] # None /\ session'[about[q]] # None
        /\ session'[about[q]].user = session[about[q]].user
        /\ \/ /\ session'[about[q]].token = session[about[q]].token
              /\ session'[about[q]].rotated = session[about[q]].rotated
           \/ at[p] = "rotated" /\ session'[about[q]].token = token[p]
    BY <1>1 DEF SessionLoaded, Moves, Quiet
  <2>2. at[p] = "rotated" => loaded[q].token # token[p]
    BY <1>0, <1>1 DEF FreshOK
  <2>3. loaded[q].token <= issued'
    <3>1. loaded[q].token \in Nat /\ issued \in Nat /\ issued' \in Nat
      BY <1>0, <1>1 DEF SessionLoaded, SessionRow, TablesTyped, Moves
    <3>2. loaded[q].token <= issued /\ issued <= issued'
      BY <1>1 DEF SessionLoaded, Moves
    <3> QED BY <3>1, <3>2
  <2> QED BY <1>1, <2>1, <2>2, <2>3 DEF SessionLoaded
<1>2. ASSUME UserLoaded(q)
      PROVE  UserLoaded(q)'
  <2>1. /\ about'[q] = about[q] /\ about[q] \in Users /\ loaded'[q] = loaded[q]
        /\ user[about[q]] # None /\ user'[about[q]] # None
        /\ user'[about[q]] # user[about[q]] => user'[about[q]].version = user[about[q]].version + 1
    BY <1>2 DEF UserLoaded, Moves, Quiet
  <2>2. user[about[q]].version \in Nat /\ loaded[q].version \in Nat
    BY <1>0, <1>2, <2>1, RowFacts DEF UserLoaded, UserRow
  <2> QED BY <1>2, <2>1, <2>2 DEF UserLoaded
<1>3. InvitationKnown(q) => InvitationKnown(q)'
  BY DEF InvitationKnown, Moves, Quiet
<1>4. Held(q)' <=> Held(q)
  BY DEF Held, Quiet
<1>5. at'[q] = at[q] /\ about'[q] = about[q] /\ contact'[q] = contact[q]
  BY DEF Quiet
<1>6. /\ \A i \in Users : user[i] # None => user'[i] # None
      /\ \A o \in Codes : otp[o] # None => otp'[o] # None
  BY DEF Moves
<1> QED BY <1>0, <1>1, <1>2, <1>3, <1>4, <1>5, <1>6 DEF RequestOK

LEMMA FreshKept ==
  ASSUME IInv, NEW p \in Requests, Moves(p), Takes(p), \A q \in Requests \ {p} : Quiet(q),
         NEW q \in Requests \ {p}
  PROVE  FreshOK(q)'
<1> SUFFICES ASSUME at[q] = "rotated" PROVE FreshOK(q)'
  BY DEF FreshOK, Quiet
<1>0. /\ FreshOK(q) /\ issued' \in Nat /\ issued <= issued' /\ token'[q] = token[q]
      /\ token[q] \in Nat /\ token[q] <= issued /\ issued \in Nat
  BY DEF IInv, TypeOK, FreshOK, Moves, Quiet
<1>1. at[p] = "rotated" => token[p] # token[q]
  BY <1>0 DEF FreshOK
<1>2. ASSUME NEW s \in Sessions, session'[s] # None
      PROVE  session'[s].token # token[q]
  <2>1. \/ session[s] # None /\ session'[s].token = session[s].token
        \/ at[p] = "rotated" /\ session'[s].token = token[p]
        \/ session'[s].token = issued + 1
    BY <1>2 DEF Moves
  <2> QED BY <1>0, <1>1, <2>1 DEF FreshOK
<1>3. ASSUME NEW x \in Requests, Held(x)'
      PROVE  loaded'[x].token # token[q]
  <2>1. CASE x # p
    BY <1>0, <1>3, <2>1 DEF Quiet, Held, FreshOK
  <2>2. CASE x = p
    BY <1>0, <1>3, <2>2 DEF Takes, FreshOK
  <2> QED BY <2>1, <2>2
<1>4. ASSUME NEW x \in Requests \ {q}, at'[x] = "rotated"
      PROVE  token'[x] # token[q]
  <2>1. CASE x # p
    BY <1>0, <1>4, <2>1 DEF Quiet, FreshOK
  <2>2. CASE x = p
    BY <1>0, <1>4, <2>2 DEF Takes
  <2> QED BY <2>1, <2>2
<1>5. token[q] <= issued'
  BY <1>0
<1> QED BY <1>0, <1>2, <1>3, <1>4, <1>5 DEF FreshOK

(***************************************************************************)
(* Steps that leave the tables alone.                                      *)
(***************************************************************************)
LEMMA GoesIs ==
  ASSUME RequestsTyped, NEW p \in Requests, NEW step \in Steps, NEW x \in Nat \cup {None},
         NEW copy \in UserRow \cup SessionRow \cup {None}, Goes(p, step, x, copy)
  PROVE  /\ at' \in [Requests -> Steps] /\ about' \in [Requests -> Nat \cup {None}]
         /\ loaded' \in [Requests -> UserRow \cup SessionRow \cup {None}]
         /\ at'[p] = step /\ about'[p] = x /\ loaded'[p] = copy
         /\ \A q \in Requests \ {p} : at'[q] = at[q] /\ about'[q] = about[q] /\ loaded'[q] = loaded[q]
BY DEF RequestsTyped, Goes

LEMMA AnsweredIs ==
  ASSUME RequestsTyped, NEW p \in Requests, Answered(p)
  PROVE  /\ RequestsTyped' /\ \A q \in Requests \ {p} : Quiet(q)
         /\ at'[p] = "done" /\ RequestOK(p)' /\ FreshOK(p)' /\ Takes(p)
<1>1. /\ at' \in [Requests -> Steps] /\ about' \in [Requests -> Nat \cup {None}]
      /\ loaded' \in [Requests -> UserRow \cup SessionRow \cup {None}]
      /\ at'[p] = "done"
      /\ \A q \in Requests \ {p} : at'[q] = at[q] /\ about'[q] = about[q] /\ loaded'[q] = loaded[q]
  BY GoesIs DEF Answered, Steps
<1>2. /\ contact' \in [Requests -> [email: Emails \cup {None}, phone: Phones \cup {NoPhone}]]
      /\ token' \in [Requests -> Nat]
      /\ \A q \in Requests \ {p} : contact'[q] = contact[q] /\ token'[q] = token[q]
  BY DEF RequestsTyped, Answered, NoContact
<1> QED BY <1>1, <1>2 DEF RequestsTyped, Quiet, RequestOK, FreshOK, Takes, Held

\* What is left to show of a step of p.
LEMMA Together ==
  ASSUME IInv, NEW p \in Requests, Moves(p), Takes(p), TablesTyped', RequestsTyped',
         \A q \in Requests \ {p} : Quiet(q), RequestOK(p)', FreshOK(p)',
         UniqueContacts', SpentForSomething', TokensAreKnown', GivenOK',
         \A s \in Sessions : Founded(s)'
  PROVE  IInv'
<1>1. TypeOK'
  BY TypeSplit DEF TypeOK, TablesTyped, RequestsTyped
<1>2. \A q \in Requests : RequestOK(q)' /\ FreshOK(q)'
  BY Kept, FreshKept
<1> QED BY <1>1, <1>2 DEF IInv

\* A step that leaves the tables alone.
LEMMA ReadKeeps ==
  ASSUME IInv, NEW p \in Requests, UNCHANGED <<tables, given, overlapped>>,
         issued' \in Nat, issued <= issued', Takes(p), RequestsTyped',
         \A q \in Requests \ {p} : Quiet(q), RequestOK(p)', FreshOK(p)'
  PROVE  IInv'
<1>0. UNCHANGED <<user, invitation, otp, session, given, overlapped>>
  BY DEF tables
<1>1. TablesTyped'
  BY <1>0, TypeSplit DEF IInv, TablesTyped
<1>2. Moves(p)
  BY <1>0 DEF Moves
<1>3. UniqueContacts' /\ SpentForSomething' /\ TokensAreKnown' /\ GivenOK'
  <2>1. UniqueContacts'
    BY <1>0 DEF IInv, UniqueContacts, Distinct
  <2>2. SpentForSomething'
    BY <1>0 DEF IInv, SpentForSomething, InvitationSpent, CodeSpent
  <2>3. TokensAreKnown' /\ GivenOK'
    BY <1>0 DEF IInv, TokensAreKnown, GivenOK
  <2> QED BY <2>1, <2>2, <2>3
<1>4. ASSUME NEW s \in Sessions
      PROVE  Founded(s)'
  <2>1. Founded(s) /\ (session[s] # None => session[s].token \in Nat) /\ issued \in Nat
    BY RowFacts, TypeSplit DEF IInv, SessionRow, TablesTyped
  <2> QED BY <1>0, <2>1 DEF Founded, SessionFounded
<1> QED BY <1>1, <1>2, <1>3, <1>4, Together

\* A request that goes on to a step, with a row and a copy, and generates nothing.
LEMMA GoesKeeps ==
  ASSUME IInv, NEW p \in Requests, NEW step \in Steps, NEW x \in Nat \cup {None},
         NEW copy \in UserRow \cup SessionRow \cup {None}, Goes(p, step, x, copy), step # "rotated",
         UNCHANGED <<tables, issued, given, overlapped>>,
         contact' \in [Requests -> [email: Emails \cup {None}, phone: Phones \cup {NoPhone}]],
         token' \in [Requests -> Nat],
         \A q \in Requests \ {p} : contact'[q] = contact[q] /\ token'[q] = token[q],
         step \in {"rotate", "revoke"} => \E s \in Sessions : session[s] # None /\ copy = session[s],
         at'[p] = step /\ about'[p] = x /\ loaded'[p] = copy => RequestOK(p)'
  PROVE  IInv'
<1>0. RequestsTyped /\ issued \in Nat
  BY TypeSplit DEF IInv, TypeOK
<1>1. /\ at' \in [Requests -> Steps] /\ about' \in [Requests -> Nat \cup {None}]
      /\ loaded' \in [Requests -> UserRow \cup SessionRow \cup {None}]
      /\ at'[p] = step /\ about'[p] = x /\ loaded'[p] = copy
      /\ \A q \in Requests \ {p} : at'[q] = at[q] /\ about'[q] = about[q] /\ loaded'[q] = loaded[q]
  BY <1>0, GoesIs
<1>2. RequestsTyped' /\ \A q \in Requests \ {p} : Quiet(q)
  BY <1>1 DEF RequestsTyped, Quiet
<1>3. Takes(p) /\ FreshOK(p)'
  BY <1>1 DEF Takes, FreshOK, Held
<1> QED BY <1>0, <1>1, <1>2, <1>3, ReadKeeps

LEMMA AnsweredKeeps ==
  ASSUME IInv, NEW p \in Requests, Answered(p), UNCHANGED <<tables, histories>>
  PROVE  IInv'
<1>1. RequestsTyped /\ issued \in Nat
  BY TypeSplit DEF IInv, TypeOK
<1> QED BY <1>1, AnsweredIs, ReadKeeps DEF histories

\* The reads of a login, a password, a block and a logout, whose contact and
\* token stay as they are.
LEMMA KeepsContact ==
  ASSUME IInv, NEW p \in Requests, UNCHANGED <<contact, token>>
  PROVE  /\ contact' \in [Requests -> [email: Emails \cup {None}, phone: Phones \cup {NoPhone}]]
         /\ token' \in [Requests -> Nat]
         /\ \A q \in Requests \ {p} : contact'[q] = contact[q] /\ token'[q] = token[q]
BY DEF IInv, TypeOK

LEMMA LoginReadKeeps ==
  ASSUME IInv, NEW p \in Requests, NEW i \in Users, LoginRead(p, i)
  PROVE  IInv'
<1>1. at'[p] = "login" /\ about'[p] = i => RequestOK(p)'
  BY DEF LoginRead, RequestOK, Held, tables
<1>2. i \in Nat
  BY IamAssumption
<1> QED BY <1>1, <1>2, KeepsContact, GoesKeeps DEF LoginRead, histories, Steps

LEMMA SessionReadOK ==
  ASSUME IInv, NEW p \in Requests, NEW s \in Sessions, session[s] # None,
         UNCHANGED <<session, issued>>, at'[p] \in {"rotate", "revoke"}, about'[p] = s, loaded'[p] = session[s]
  PROVE  RequestOK(p)' /\ s \in Nat /\ session[s] \in SessionRow
<1>1. Founded(s) /\ session[s] \in SessionRow
  BY TypeSplit, RowFacts DEF IInv
<1>2. SessionLoaded(p)'
  BY <1>1 DEF SessionLoaded, Founded, SessionFounded
<1> QED BY <1>1, <1>2, IamAssumption DEF RequestOK, Held

LEMMA RefreshReadKeeps ==
  ASSUME IInv, NEW p \in Requests, NEW t \in 1..issued, RefreshRead(p, t)
  PROVE  IInv'
<1>1. CASE Answered(p)
  BY <1>1, AnsweredKeeps DEF RefreshRead
<1>2. ASSUME NEW s \in FindByTokenHash(t), Goes(p, "rotate", s, session[s]), UNCHANGED <<contact, token>>
      PROVE  IInv'
  <2>1. s \in Sessions /\ session[s] # None
    BY DEF FindByTokenHash
  <2>2. s \in Nat /\ session[s] \in SessionRow
    BY <2>1, TypeSplit, RowFacts, IamAssumption DEF IInv
  <2>3. at'[p] = "rotate" /\ about'[p] = s /\ loaded'[p] = session[s] => RequestOK(p)'
    BY <2>1, SessionReadOK DEF RefreshRead, tables, histories
  <2> QED BY <1>2, <2>1, <2>2, <2>3, KeepsContact, GoesKeeps DEF RefreshRead, histories, Steps
<1>3. CASE Goes(p, "reuse", None, None) /\ token' = [token EXCEPT ![p] = t] /\ UNCHANGED contact
  <2>1. /\ contact' \in [Requests -> [email: Emails \cup {None}, phone: Phones \cup {NoPhone}]]
        /\ token' \in [Requests -> Nat]
        /\ \A q \in Requests \ {p} : contact'[q] = contact[q] /\ token'[q] = token[q]
    BY <1>3 DEF IInv, TypeOK
  <2>2. at'[p] = "reuse" => RequestOK(p)'
    BY DEF RequestOK, Held
  <2> QED BY <1>3, <2>1, <2>2, GoesKeeps DEF RefreshRead, histories, Steps
<1> QED BY <1>1, <1>2, <1>3 DEF RefreshRead

LEMMA ReuseReadKeeps ==
  ASSUME IInv, NEW p \in Requests, ReuseRead(p)
  PROVE  IInv'
<1>1. CASE Answered(p)
  BY <1>1, AnsweredKeeps DEF ReuseRead
<1>2. ASSUME NEW s \in FindByRotatedTokenHash(token[p]), Goes(p, "compromise", session[s].user, None),
             UNCHANGED <<contact, token>>
      PROVE  IInv'
  <2>1. session[s].user \in Nat
    BY TypeSplit, RowFacts, IamAssumption DEF IInv, FindByRotatedTokenHash, SessionRow
  <2>2. at'[p] = "compromise" => RequestOK(p)'
    BY DEF RequestOK, Held
  <2> QED BY <1>2, <2>1, <2>2, KeepsContact, GoesKeeps DEF ReuseRead, histories, Steps
<1> QED BY <1>1, <1>2 DEF ReuseRead

LEMMA LogoutReadKeeps ==
  ASSUME IInv, NEW p \in Requests, NEW t \in 1..issued, LogoutRead(p, t)
  PROVE  IInv'
<1>1. PICK s \in FindByTokenHash(t) : Goes(p, "revoke", s, session[s])
  BY DEF LogoutRead
<1>2. s \in Sessions /\ session[s] # None
  BY DEF FindByTokenHash
<1>3. s \in Nat /\ session[s] \in SessionRow
  BY <1>2, TypeSplit, RowFacts, IamAssumption DEF IInv
<1>4. at'[p] = "revoke" /\ about'[p] = s /\ loaded'[p] = session[s] => RequestOK(p)'
  BY <1>2, SessionReadOK DEF LogoutRead, tables, histories
<1> QED BY <1>1, <1>2, <1>3, <1>4, KeepsContact, GoesKeeps DEF LogoutRead, histories, Steps

LEMMA VerifyReadKeeps ==
  ASSUME IInv, NEW p \in Requests, NEW ph \in Phones, VerifyRead(p, ph)
  PROVE  IInv'
<1>1. PICK o \in FindPending(ph) : Goes(p, "verify", o, None)
  BY DEF VerifyRead
<1>2. o \in Codes /\ otp[o] # None /\ o \in Nat
  BY IamAssumption DEF FindPending
<1>3. at'[p] = "verify" /\ about'[p] = o => RequestOK(p)'
  BY <1>2 DEF VerifyRead, RequestOK, Held, tables
<1> QED BY <1>1, <1>2, <1>3, KeepsContact, GoesKeeps DEF VerifyRead, histories, Steps

\* The UPDATE of a row that is then held: the request goes on with what it has.
LEMMA FlushKeeps ==
  ASSUME IInv, NEW p \in Requests, NEW from \in {"verify", "accept"},
         at[p] = from, at' = [at EXCEPT ![p] = IF from = "verify" THEN "verified" ELSE "accepted"],
         UNCHANGED <<tables, about, loaded, contact, token, histories>>
  PROVE  IInv'
<1>1. RequestsTyped /\ RequestOK(p) /\ issued \in Nat
  BY TypeSplit DEF IInv, TypeOK
<1>2. /\ at'[p] \in {"verified", "accepted"}
      /\ at'[p] = "verified" => at[p] = "verify"
      /\ at'[p] = "accepted" => at[p] = "accept"
      /\ at' \in [Requests -> Steps]
      /\ \A q \in Requests \ {p} : at'[q] = at[q]
  BY <1>1 DEF RequestsTyped, Steps
<1>3. RequestsTyped' /\ \A q \in Requests \ {p} : Quiet(q)
  BY <1>1, <1>2 DEF RequestsTyped, Quiet
<1>4. Takes(p) /\ FreshOK(p)'
  BY <1>2 DEF Takes, FreshOK, Held
<1>5. RequestOK(p)'
  BY <1>1, <1>2 DEF RequestOK, InvitationKnown, Held, tables
<1> QED BY <1>1, <1>3, <1>4, <1>5, ReadKeeps DEF histories

LEMMA RotateKeeps ==
  ASSUME IInv, NEW p \in Requests, RefreshRotate(p)
  PROVE  IInv'
<1>1. /\ RequestsTyped /\ RequestOK(p) /\ issued \in Nat /\ at[p] = "rotate"
      /\ issued' = issued + 1 /\ UNCHANGED <<user, invitation, otp, session, about, loaded, contact>>
  BY TypeSplit DEF IInv, TypeOK, RefreshRotate, tables
<1>2. /\ at'[p] = "rotated" /\ token'[p] = issued + 1
      /\ at' \in [Requests -> Steps] /\ token' \in [Requests -> Nat]
      /\ \A q \in Requests \ {p} : at'[q] = at[q] /\ token'[q] = token[q]
  BY <1>1 DEF RequestsTyped, Steps, RefreshRotate
<1>3. RequestsTyped' /\ \A q \in Requests \ {p} : Quiet(q)
  BY <1>1, <1>2 DEF RequestsTyped, Quiet
<1>4. Takes(p)
  BY <1>1, <1>2 DEF Takes, Held
<1>5. RequestOK(p)'
  <2>1. SessionLoaded(p) /\ loaded[p].token \in Nat
    BY <1>1 DEF RequestOK, Held, SessionLoaded, SessionRow
  <2>2. SessionLoaded(p)'
    BY <1>1, <2>1 DEF SessionLoaded
  <2> QED BY <1>2, <2>2 DEF RequestOK
<1>6. FreshOK(p)'
  <2>1. ASSUME NEW s \in Sessions, session'[s] # None
        PROVE  session'[s].token # token'[p]
    <3>1. Founded(s) /\ session[s].token \in Nat
      BY <1>1, <2>1, TypeSplit, RowFacts DEF IInv, SessionRow
    <3> QED BY <1>1, <1>2, <2>1, <3>1 DEF Founded, SessionFounded
  <2>2. ASSUME NEW q \in Requests, Held(q)'
        PROVE  loaded'[q].token # token'[p]
    <3>1. Held(q)
      BY <1>1, <1>2, <2>2 DEF Held
    <3>2. loaded[q].token <= issued /\ loaded[q].token \in Nat
      BY <3>1 DEF IInv, RequestOK, SessionLoaded, SessionRow
    <3> QED BY <1>1, <1>2, <3>2
  <2>3. ASSUME NEW q \in Requests \ {p}, at'[q] = "rotated"
        PROVE  token'[q] # token'[p]
    <3>1. token[q] <= issued /\ token[q] \in Nat
      BY <1>1, <1>2, <2>3 DEF IInv, FreshOK, RequestsTyped
    <3> QED BY <1>1, <1>2, <3>1
  <2> QED BY <1>1, <1>2, <2>1, <2>2, <2>3 DEF FreshOK
<1> QED BY <1>1, <1>3, <1>4, <1>5, <1>6, ReadKeeps DEF RefreshRotate

\* The reads that note an e-mail and a phone.
LEMMA NotesContact ==
  ASSUME IInv, NEW p \in Requests, NEW e \in Emails, NEW ph \in Phones \cup {NoPhone},
         contact' = [contact EXCEPT ![p] = [email |-> e, phone |-> ph]], UNCHANGED token
  PROVE  /\ contact' \in [Requests -> [email: Emails \cup {None}, phone: Phones \cup {NoPhone}]]
         /\ contact'[p].email = e /\ contact'[p].phone = ph
         /\ token' \in [Requests -> Nat]
         /\ \A q \in Requests \ {p} : contact'[q] = contact[q] /\ token'[q] = token[q]
BY DEF IInv, TypeOK

LEMMA RegisterReadKeeps ==
  ASSUME IInv, NEW p \in Requests, NEW e \in Emails, NEW ph \in Phones, RegisterRead(p, e, ph)
  PROVE  IInv'
<1>1. /\ contact' \in [Requests -> [email: Emails \cup {None}, phone: Phones \cup {NoPhone}]]
      /\ contact'[p].email = e /\ contact'[p].phone = ph
      /\ token' \in [Requests -> Nat]
      /\ \A q \in Requests \ {p} : contact'[q] = contact[q] /\ token'[q] = token[q]
  BY NotesContact DEF RegisterRead
<1>2. at'[p] = "register" => RequestOK(p)'
  BY <1>1 DEF RequestOK, Held
<1> QED BY <1>1, <1>2, GoesKeeps DEF RegisterRead, histories, Steps

LEMMA InviteReadKeeps ==
  ASSUME IInv, NEW p \in Requests, NEW e \in Emails, InviteRead(p, e)
  PROVE  IInv'
<1>1. /\ contact' \in [Requests -> [email: Emails \cup {None}, phone: Phones \cup {NoPhone}]]
      /\ contact'[p].email = e
      /\ token' \in [Requests -> Nat]
      /\ \A q \in Requests \ {p} : contact'[q] = contact[q] /\ token'[q] = token[q]
  BY NotesContact DEF InviteRead
<1>2. at'[p] = "invite" => RequestOK(p)'
  BY <1>1 DEF RequestOK, Held
<1> QED BY <1>1, <1>2, GoesKeeps DEF InviteRead, histories, Steps

LEMMA AcceptReadKeeps ==
  ASSUME IInv, NEW p \in Requests, NEW k \in Invitations, NEW ph \in Phones, AcceptRead(p, k, ph)
  PROVE  IInv'
<1>0. invitation[k] # None /\ invitation[k].email \in Emails /\ k \in Nat
  BY TypeSplit, RowFacts, IamAssumption DEF IInv, AcceptRead, InvitationRow
<1>1. /\ contact' \in [Requests -> [email: Emails \cup {None}, phone: Phones \cup {NoPhone}]]
      /\ contact'[p].email = invitation[k].email /\ contact'[p].phone = ph
      /\ token' \in [Requests -> Nat]
      /\ \A q \in Requests \ {p} : contact'[q] = contact[q] /\ token'[q] = token[q]
  BY <1>0, NotesContact DEF AcceptRead
<1>2. at'[p] = "accept" /\ about'[p] = k => RequestOK(p)'
  BY <1>0, <1>1 DEF RequestOK, InvitationKnown, Held, AcceptRead, tables
<1> QED BY <1>0, <1>1, <1>2, GoesKeeps DEF AcceptRead, histories, Steps

LEMMA ActivateReadKeeps ==
  ASSUME IInv, NEW p \in Requests, ActivateRead(p)
  PROVE  IInv'
<1>1. CASE Answered(p)
  BY <1>1, AnsweredKeeps DEF ActivateRead
<1>2. CASE Goes(p, "activate", about[p], None) /\ UNCHANGED <<contact, token>>
  <2>1. InvitationKnown(p) /\ about[p] \in Nat
    BY IamAssumption DEF IInv, RequestOK, ActivateRead, InvitationKnown
  <2>2. at'[p] = "activate" /\ about'[p] = about[p] => RequestOK(p)'
    BY <1>2, <2>1 DEF RequestOK, InvitationKnown, Held, ActivateRead, tables
  <2> QED BY <1>2, <2>1, <2>2, KeepsContact, GoesKeeps DEF ActivateRead, histories, Steps
<1> QED BY <1>1, <1>2 DEF ActivateRead

LEMMA ChangeReadKeeps ==
  ASSUME IInv, NEW p \in Requests, NEW i \in Users, BlockRead(p, i) \/ PasswordRead(p, i)
  PROVE  IInv'
<1>1. user[i] # None /\ user[i].status = "ACTIVE" /\ user[i] \in UserRow /\ i \in Nat
  BY TypeSplit, RowFacts, IamAssumption DEF IInv, BlockRead, PasswordRead
<1>2. PICK step \in {"block", "password"} : Goes(p, step, i, user[i])
  BY DEF BlockRead, PasswordRead
<1>3. UNCHANGED <<tables, lapsed, contact, token, histories>>
  BY DEF BlockRead, PasswordRead
<1>4. user[i].version \in Nat
  BY <1>1 DEF UserRow
<1>5. at'[p] = step /\ about'[p] = i /\ loaded'[p] = user[i] => UserLoaded(p)'
  BY <1>1, <1>3, <1>4 DEF UserLoaded, tables
<1>6. at'[p] = step /\ about'[p] = i /\ loaded'[p] = user[i] => RequestOK(p)'
  BY <1>5 DEF RequestOK, Held
<1> QED BY <1>1, <1>2, <1>3, <1>6, KeepsContact, GoesKeeps DEF histories, Steps

(***************************************************************************)
(* What a commit leaves as it was.                                         *)
(***************************************************************************)
LEMMA FoundedKept ==
  ASSUME IInv, NEW p \in Requests, Moves(p), NEW s \in Sessions, session[s] # None
  PROVE  Founded(s)'
<1>1. Founded(s) /\ FreshOK(p) /\ session[s] \in SessionRow /\ issued \in Nat /\ token[p] \in Nat
  BY TypeSplit, RowFacts DEF IInv, TablesTyped, RequestsTyped
<1>2. session[s].user \in Users /\ user[session[s].user] # None /\ session[s].token <= issued /\ session[s].token \in Nat
  BY <1>1 DEF Founded, SessionFounded, SessionRow
<1>3. /\ session'[s] # None /\ session'[s].user = session[s].user
      /\ user'[session[s].user] # None
      /\ session'[s].token = session[s].token \/ (at[p] = "rotated" /\ session'[s].token = token[p])
      /\ issued' \in Nat /\ issued <= issued'
  BY <1>2 DEF Moves
<1>4. session'[s].token <= issued'
  BY <1>1, <1>2, <1>3 DEF FreshOK
<1> QED BY <1>3, <1>4 DEF Founded, SessionFounded

LEMMA InvitationKept ==
  ASSUME IInv, NEW p \in Requests, Moves(p), NEW k \in Invitations, invitation'[k] = invitation[k]
  PROVE  InvitationSpent(invitation'[k], user')
BY DEF IInv, SpentForSomething, InvitationSpent, Moves

LEMMA CodeKept ==
  ASSUME IInv, NEW p \in Requests, Moves(p), NEW o \in Codes, otp'[o] = otp[o]
  PROVE  CodeSpent(otp'[o], user', session')
<1> SUFFICES ASSUME otp[o] # None, otp[o].status = "VERIFIED"
             PROVE  \E s \in Sessions : session'[s] # None /\ user'[session'[s].user].phone = otp[o].phone
  BY DEF CodeSpent
<1>1. PICK s \in Sessions : session[s] # None /\ user[session[s].user].phone = otp[o].phone
  BY DEF IInv, SpentForSomething, CodeSpent
<1>2. session[s].user \in Users /\ user[session[s].user] # None
  BY <1>1, TypeSplit, RowFacts DEF IInv, Founded, SessionFounded, SessionRow
<1>3. /\ session'[s] # None /\ session'[s].user = session[s].user
      /\ user'[session[s].user].phone = user[session[s].user].phone
  BY <1>1, <1>2 DEF Moves
<1> QED BY <1>1, <1>3

\* The tokens a step knows besides, when the sessions keep theirs.
LEMMA TokensKept ==
  ASSUME IInv, UNCHANGED <<given, overlapped>>,
         \A s \in Sessions : session[s] # None =>
            session'[s] # None /\ session'[s].token = session[s].token /\ session'[s].rotated = session[s].rotated
  PROVE  TokensAreKnown' /\ GivenOK'
BY DEF IInv, TokensAreKnown, GivenOK

(***************************************************************************)
(* The commits.                                                            *)
(***************************************************************************)
\* A new session, by itself.
LEMMA NewSessionIs ==
  ASSUME IInv, NEW i \in Users, NewSession(i), UNCHANGED overlapped
  PROVE  /\ session' \in [Sessions -> SessionRow \cup {None}] /\ issued' = issued + 1
         /\ \A s \in Sessions : session[s] # None => session'[s] = session[s]
         /\ \A s \in Sessions : session[s] = None /\ session'[s] # None =>
               session'[s].user = i /\ session'[s].token = issued + 1
         /\ \E s \in Sessions : session'[s] # None /\ session'[s].user = i
         /\ TokensAreKnown' /\ GivenOK'
<1>0. TypeOK /\ TablesTyped /\ issued \in Nat
  BY TypeSplit DEF IInv, TypeOK
<1>1. PICK s \in Sessions : /\ session[s] = None
                            /\ session' = [session EXCEPT ![s] = IssuedSession(i, issued + 1)]
                            /\ issued' = issued + 1
                            /\ given' = given \cup {<<s, issued + 1>>}
  BY DEF NewSession, Fresh, First
<1>2. /\ IssuedSession(i, issued + 1) \in SessionRow
      /\ IssuedSession(i, issued + 1).user = i /\ IssuedSession(i, issued + 1).token = issued + 1
      /\ IssuedSession(i, issued + 1) # None
  BY <1>0, NoRow DEF IssuedSession, SessionRow, SessionStatus
<1>3. /\ session' \in [Sessions -> SessionRow \cup {None}]
      /\ session'[s] = IssuedSession(i, issued + 1)
      /\ \A x \in Sessions \ {s} : session'[x] = session[x]
  BY <1>0, <1>1, <1>2 DEF TypeOK
<1>4. TokensAreKnown'
  <2> SUFFICES ASSUME NEW g \in given'
               PROVE  g[1] \in overlapped \/ g[2] \in {session'[g[1]].token} \cup session'[g[1]].rotated
    BY DEF TokensAreKnown
  <2>1. CASE g \in given
    <3>1. g[1] \in Sessions \ {s}
      BY <1>1, <2>1 DEF IInv, GivenOK
    <3>2. session'[g[1]] = session[g[1]]
      BY <1>3, <3>1
    <3> QED BY <2>1, <3>2 DEF IInv, TokensAreKnown
  <2>2. CASE g = <<s, issued + 1>>
    BY <1>2, <1>3, <2>2
  <2> QED BY <1>1, <2>1, <2>2
<1>5. GivenOK'
  <2> SUFFICES ASSUME NEW g \in given' PROVE g[1] \in Sessions /\ session'[g[1]] # None
    BY DEF GivenOK
  <2>1. CASE g \in given
    BY <1>1, <1>3, <2>1 DEF IInv, GivenOK
  <2>2. CASE g = <<s, issued + 1>>
    BY <1>2, <1>3, <2>2
  <2> QED BY <1>1, <2>1, <2>2
<1> QED BY <1>1, <1>2, <1>3, <1>4, <1>5

\* A commit of p after which it is over.
LEMMA CommitKeeps ==
  ASSUME IInv, NEW p \in Requests, Answered(p), Moves(p), TablesTyped',
         UniqueContacts', SpentForSomething', TokensAreKnown', GivenOK',
         \A s \in Sessions : session[s] = None => Founded(s)'
  PROVE  IInv'
<1>1. RequestsTyped
  BY TypeSplit DEF IInv
<1>2. \A s \in Sessions : Founded(s)'
  BY FoundedKept
<1> QED BY <1>1, <1>2, AnsweredIs, Together

\* A commit that begins a session for user i, and may begin rows of users and
\* change codes.
LEMMA SessionCommitKeeps ==
  ASSUME IInv, NEW p \in Requests, Answered(p), NEW i \in Users, NewSession(i), UNCHANGED overlapped,
         Moves(p), user' \in [Users -> UserRow \cup {None}], user'[i] # None,
         UNCHANGED invitation, otp' \in [Codes -> OtpRow \cup {None}], UniqueContacts',
         \A o \in Codes : CodeSpent(otp'[o], user', session')
  PROVE  IInv'
<1>0. TablesTyped
  BY TypeSplit DEF IInv
<1>1. /\ session' \in [Sessions -> SessionRow \cup {None}] /\ issued' = issued + 1
      /\ \A s \in Sessions : session[s] = None /\ session'[s] # None =>
            session'[s].user = i /\ session'[s].token = issued + 1
      /\ TokensAreKnown' /\ GivenOK'
  BY NewSessionIs
<1>2. TablesTyped'
  BY <1>0, <1>1 DEF TablesTyped
<1>3. SpentForSomething'
  BY InvitationKept DEF SpentForSomething
<1>4. \A s \in Sessions : session[s] = None => Founded(s)'
  BY <1>0, <1>1 DEF Founded, SessionFounded, TablesTyped
<1> QED BY <1>1, <1>2, <1>3, <1>4, CommitKeeps

\* What a new session moves.
LEMMA SessionMoves ==
  ASSUME IInv, NEW p \in Requests, NEW i \in Users, NewSession(i), UNCHANGED <<invitation, overlapped>>,
         \A x \in Users : user[x] # None => user'[x] = user[x],
         \A o \in Codes : otp[o] # None => otp'[o] # None /\ otp'[o].phone = otp[o].phone
  PROVE  Moves(p)
<1>1. /\ issued' = issued + 1 /\ issued \in Nat
      /\ \A s \in Sessions : session[s] # None => session'[s] = session[s]
      /\ \A s \in Sessions : session[s] = None /\ session'[s] # None => session'[s].token = issued + 1
  BY NewSessionIs DEF IInv, TypeOK
<1> QED BY <1>1 DEF Moves

LEMMA LoginCommitKeeps ==
  ASSUME IInv, NEW p \in Requests, LoginCommit(p)
  PROVE  IInv'
<1>1. PICK i \in Users : i = about[p] /\ user[i] # None
  BY DEF IInv, RequestOK, LoginCommit
<1>2. /\ NewSession(i) /\ Answered(p) /\ UNCHANGED <<user, invitation, otp, overlapped>>
  BY <1>1 DEF LoginCommit
<1>3. Moves(p)
  BY <1>2, SessionMoves
<1>4. UniqueContacts' /\ \A o \in Codes : CodeSpent(otp'[o], user', session')
  BY <1>2, <1>3, CodeKept DEF IInv, UniqueContacts
<1>5. user' \in [Users -> UserRow \cup {None}] /\ otp' \in [Codes -> OtpRow \cup {None}]
  BY <1>2 DEF IInv, TypeOK
<1> QED BY <1>1, <1>2, <1>3, <1>4, <1>5, SessionCommitKeeps

LEMMA VerifyAnswerKeeps ==
  ASSUME IInv, NEW p \in Requests, VerifyAnswer(p)
  PROVE  IInv'
<1>0. /\ Answered(p) /\ UNCHANGED <<user, invitation, overlapped>> /\ TypeOK
      /\ about[p] \in Codes /\ otp[about[p]] # None /\ otp[about[p]] \in OtpRow
  BY TypeSplit, RowFacts DEF IInv, RequestOK, VerifyAnswer
<1>1. CASE UNCHANGED <<otp, session, issued, given>>
  BY <1>0, <1>1, AnsweredKeeps DEF tables, histories
<1>2. ASSUME NEW i \in FindByPhone(otp[about[p]].phone), NewSession(i),
             otp' = [otp EXCEPT ![about[p]] = Verified(otp[about[p]])]
      PROVE  IInv'
  <2>1. i \in Users /\ user[i] # None /\ user[i].phone = otp[about[p]].phone
    BY <1>2 DEF FindByPhone
  <2>2. /\ Verified(otp[about[p]]) \in OtpRow /\ Verified(otp[about[p]]) # None
        /\ Verified(otp[about[p]]).phone = otp[about[p]].phone
    BY <1>0, NoRow DEF Verified, OtpRow
  <2>3. /\ otp' \in [Codes -> OtpRow \cup {None}]
        /\ otp'[about[p]] = Verified(otp[about[p]])
        /\ \A o \in Codes \ {about[p]} : otp'[o] = otp[o]
    BY <1>0, <1>2, <2>2 DEF TypeOK
  <2>4. Moves(p)
    BY <1>0, <1>2, <2>1, <2>2, <2>3, SessionMoves
  <2>5. PICK s \in Sessions : session'[s] # None /\ session'[s].user = i
    BY <1>0, <1>2, <2>1, NewSessionIs
  <2>6. ASSUME NEW o \in Codes
        PROVE  CodeSpent(otp'[o], user', session')
    <3>1. CASE o # about[p]
      BY <2>3, <2>4, <3>1, CodeKept
    <3>2. CASE o = about[p]
      <4>1. user'[session'[s].user].phone = otp'[o].phone
        BY <1>0, <2>1, <2>2, <2>3, <2>5, <3>2
      <4> QED BY <2>5, <4>1 DEF CodeSpent
    <3> QED BY <3>1, <3>2
  <2>7. UniqueContacts' /\ user' \in [Users -> UserRow \cup {None}] /\ user'[i] # None
    BY <1>0, <2>1 DEF IInv, UniqueContacts, TypeOK
  <2> QED BY <1>0, <1>2, <2>1, <2>3, <2>4, <2>6, <2>7, SessionCommitKeeps
<1> QED BY <1>0, <1>1, <1>2 DEF VerifyAnswer

\* A new user, whose address nobody has.
LEMMA NewUserIs ==
  ASSUME IInv, NEW e \in Emails, NEW ph \in Phones, NEW isOwner \in BOOLEAN, ~Duplicate(e, ph),
         NEW i \in Users, user[i] = None, user' = [user EXCEPT ![i] = NewUser(e, ph, isOwner)]
  PROVE  /\ user' \in [Users -> UserRow \cup {None}]
         /\ user'[i] # None /\ user'[i].email = e
         /\ \A x \in Users : user[x] # None => user'[x] = user[x]
         /\ UniqueContacts'
<1>1. /\ NewUser(e, ph, isOwner) \in UserRow /\ NewUser(e, ph, isOwner) # None
      /\ NewUser(e, ph, isOwner).email = e /\ NewUser(e, ph, isOwner).phone = ph
  BY NoRow DEF NewUser, UserRow
<1>2. /\ user' \in [Users -> UserRow \cup {None}]
      /\ user'[i] = NewUser(e, ph, isOwner)
      /\ \A x \in Users \ {i} : user'[x] = user[x]
  BY <1>1 DEF IInv, TypeOK
<1>3. \A x \in Users : user[x] # None => user[x].email # e /\ user[x].phone # ph
  BY DEF Duplicate, ExistsByEmail, ExistsByPhone
<1>4. UniqueContacts'
  <2> SUFFICES ASSUME NEW x \in Users, NEW y \in Users, x # y, user'[x] # None, user'[y] # None
               PROVE  user'[x].email # user'[y].email /\ user'[x].phone # user'[y].phone
    BY DEF UniqueContacts, Distinct
  <2>1. CASE x # i /\ y # i
    <3>1. user'[x] = user[x] /\ user'[y] = user[y]
      BY <1>2, <2>1
    <3> QED BY <3>1 DEF IInv, UniqueContacts, Distinct
  <2>2. CASE x = i
    <3>1. user'[y] = user[y]
      BY <1>2, <2>2
    <3> QED BY <1>1, <1>2, <1>3, <2>2, <3>1
  <2>3. CASE y = i
    <3>1. user'[x] = user[x]
      BY <1>2, <2>3
    <3> QED BY <1>1, <1>2, <1>3, <2>3, <3>1
  <2> QED BY <2>1, <2>2, <2>3
<1> QED BY <1>1, <1>2, <1>4

LEMMA RegisterCommitKeeps ==
  ASSUME IInv, NEW p \in Requests, RegisterCommit(p)
  PROVE  IInv'
<1>0. /\ Answered(p) /\ UNCHANGED <<invitation, otp, overlapped>>
      /\ contact[p].email \in Emails /\ contact[p].phone \in Phones
  BY DEF IInv, RequestOK, RegisterCommit
<1>1. CASE UNCHANGED <<user, session, issued, given>>
  BY <1>0, <1>1, AnsweredKeeps DEF tables, histories
<1>2. ASSUME ~Duplicate(contact[p].email, contact[p].phone), NEW i \in Fresh(user, Users),
             user' = [user EXCEPT ![i] = NewUser(contact[p].email, contact[p].phone, TRUE)], NewSession(i)
      PROVE  IInv'
  <2>1. i \in Users /\ user[i] = None
    BY <1>2 DEF Fresh, First
  <2>2. /\ user' \in [Users -> UserRow \cup {None}] /\ user'[i] # None
        /\ \A x \in Users : user[x] # None => user'[x] = user[x]
        /\ UniqueContacts'
    BY <1>0, <1>2, <2>1, NewUserIs
  <2>3. Moves(p)
    BY <1>0, <1>2, <2>1, <2>2, SessionMoves
  <2>4. \A o \in Codes : CodeSpent(otp'[o], user', session')
    BY <1>0, <2>3, CodeKept
  <2>5. otp' \in [Codes -> OtpRow \cup {None}]
    BY <1>0 DEF IInv, TypeOK
  <2> QED BY <1>0, <1>2, <2>1, <2>2, <2>3, <2>4, <2>5, SessionCommitKeeps
<1> QED BY <1>1, <1>2 DEF RegisterCommit

\* A commit that leaves sessions and codes alone.
LEMMA UserCommitKeeps ==
  ASSUME IInv, NEW p \in Requests, Answered(p), UNCHANGED <<session, histories>>, Moves(p),
         user' \in [Users -> UserRow \cup {None}],
         invitation' \in [Invitations -> InvitationRow \cup {None}],
         otp' \in [Codes -> OtpRow \cup {None}],
         UniqueContacts', \A k \in Invitations : InvitationSpent(invitation'[k], user'),
         \A o \in Codes : CodeSpent(otp'[o], user', session')
  PROVE  IInv'
<1>1. TablesTyped'
  BY TypeSplit DEF IInv, TablesTyped, histories
<1>2. TokensAreKnown' /\ GivenOK'
  BY TokensKept DEF histories
<1>3. \A s \in Sessions : session[s] = None => Founded(s)'
  BY DEF Founded, SessionFounded
<1> QED BY <1>1, <1>2, <1>3, CommitKeeps DEF SpentForSomething

LEMMA InviteCommitKeeps ==
  ASSUME IInv, NEW p \in Requests, InviteCommit(p)
  PROVE  IInv'
<1>0. /\ Answered(p) /\ UNCHANGED <<user, otp, session, histories>>
      /\ contact[p].email \in Emails /\ TypeOK
  BY DEF IInv, RequestOK, InviteCommit
<1>1. PICK row : row = [email |-> contact[p].email, status |-> "PENDING"]
  OBVIOUS
<1>2. PICK k \in Invitations : invitation[k] = None /\ invitation' = [invitation EXCEPT ![k] = row]
  BY <1>1 DEF InviteCommit, Fresh, First
<1>3. row \in InvitationRow /\ row.status = "PENDING"
  BY <1>0, <1>1 DEF InvitationRow
<1>4. /\ invitation' \in [Invitations -> InvitationRow \cup {None}]
      /\ invitation'[k] = row /\ \A x \in Invitations \ {k} : invitation'[x] = invitation[x]
  BY <1>0, <1>2, <1>3 DEF TypeOK
<1>5. Moves(p)
  BY <1>0, <1>2, <1>4 DEF Moves, histories, TypeOK
<1>6. \A x \in Invitations : InvitationSpent(invitation'[x], user')
  <2>1. InvitationSpent(invitation'[k], user')
    BY <1>3, <1>4 DEF InvitationSpent
  <2> QED BY <1>4, <1>5, <2>1, InvitationKept
<1>7. \A o \in Codes : CodeSpent(otp'[o], user', session')
  BY <1>0, <1>5, CodeKept
<1>8. UniqueContacts' /\ user' \in [Users -> UserRow \cup {None}] /\ otp' \in [Codes -> OtpRow \cup {None}]
  BY <1>0 DEF IInv, UniqueContacts, TypeOK
<1> QED BY <1>0, <1>4, <1>5, <1>6, <1>7, <1>8, UserCommitKeeps

LEMMA RequestOtpKeeps ==
  ASSUME IInv, NEW p \in Requests, NEW ph \in Phones, RequestOtp(p, ph)
  PROVE  IInv'
<1>0. Answered(p) /\ UNCHANGED <<user, invitation, session, histories>> /\ TypeOK
  BY DEF IInv, RequestOtp
<1>1. PICK row : row = [phone |-> ph, status |-> "PENDING"]
  OBVIOUS
<1>2. PICK o \in Codes : otp[o] = None /\ otp' = [otp EXCEPT ![o] = row]
  BY <1>1 DEF RequestOtp, Fresh, First
<1>3. row \in OtpRow /\ row.status = "PENDING"
  BY <1>1 DEF OtpRow
<1>4. /\ otp' \in [Codes -> OtpRow \cup {None}]
      /\ otp'[o] = row /\ \A x \in Codes \ {o} : otp'[x] = otp[x]
  BY <1>0, <1>2, <1>3 DEF TypeOK
<1>5. Moves(p)
  BY <1>0, <1>2, <1>4 DEF Moves, histories, TypeOK
<1>6. \A x \in Codes : CodeSpent(otp'[x], user', session')
  <2>1. CodeSpent(otp'[o], user', session')
    BY <1>3, <1>4 DEF CodeSpent
  <2> QED BY <1>4, <1>5, <2>1, CodeKept
<1>7. \A k \in Invitations : InvitationSpent(invitation'[k], user')
  BY <1>0, <1>5, InvitationKept
<1>8. /\ UniqueContacts' /\ user' \in [Users -> UserRow \cup {None}]
      /\ invitation' \in [Invitations -> InvitationRow \cup {None}]
  BY <1>0 DEF IInv, UniqueContacts, TypeOK
<1> QED BY <1>0, <1>4, <1>5, <1>6, <1>7, <1>8, UserCommitKeeps

LEMMA ActivateCommitKeeps ==
  ASSUME IInv, NEW p \in Requests, ActivateCommit(p)
  PROVE  IInv'
<1>0. /\ Answered(p) /\ UNCHANGED <<otp, session, histories>> /\ TypeOK
      /\ about[p] \in Invitations /\ invitation[about[p]] # None /\ invitation[about[p]] \in InvitationRow
      /\ contact[p].email = invitation[about[p]].email /\ contact[p].phone \in Phones
  BY TypeSplit, RowFacts DEF IInv, RequestOK, InvitationKnown, ActivateCommit
<1>1. CASE UNCHANGED <<user, invitation>>
  BY <1>0, <1>1, AnsweredKeeps DEF tables
<1>2. ASSUME ~Duplicate(contact[p].email, contact[p].phone), NEW i \in Fresh(user, Users),
             user' = [user EXCEPT ![i] = NewUser(contact[p].email, contact[p].phone, FALSE)],
             invitation' = [invitation EXCEPT ![about[p]] = Accepted(invitation[about[p]])]
      PROVE  IInv'
  <2>0. i \in Users /\ user[i] = None /\ contact[p].email \in Emails
    BY <1>0, <1>2 DEF Fresh, First, InvitationRow
  <2>1. /\ user' \in [Users -> UserRow \cup {None}] /\ user'[i] # None
        /\ user'[i].email = contact[p].email
        /\ \A x \in Users : user[x] # None => user'[x] = user[x]
        /\ UniqueContacts'
    BY <1>0, <1>2, <2>0, NewUserIs
  <2>2. /\ Accepted(invitation[about[p]]) \in InvitationRow
        /\ Accepted(invitation[about[p]]).email = contact[p].email
        /\ Accepted(invitation[about[p]]) # None
    BY <1>0, NoRow DEF Accepted, InvitationRow
  <2>3. /\ invitation' \in [Invitations -> InvitationRow \cup {None}]
        /\ invitation'[about[p]] = Accepted(invitation[about[p]])
        /\ \A k \in Invitations \ {about[p]} : invitation'[k] = invitation[k]
    BY <1>0, <1>2, <2>2 DEF TypeOK
  <2>4. Moves(p)
    <3>1. ASSUME NEW k \in Invitations, invitation[k] # None
          PROVE  invitation'[k] # None /\ invitation'[k].email = invitation[k].email
      BY <1>0, <2>2, <2>3, <3>1
    <3> QED BY <1>0, <2>1, <3>1 DEF Moves, histories, TypeOK
  <2>5. \A k \in Invitations : InvitationSpent(invitation'[k], user')
    <3>1. InvitationSpent(invitation'[about[p]], user')
      BY <2>0, <2>1, <2>2, <2>3 DEF InvitationSpent
    <3> QED BY <2>3, <2>4, <3>1, InvitationKept
  <2>6. /\ \A o \in Codes : CodeSpent(otp'[o], user', session')
        /\ otp' \in [Codes -> OtpRow \cup {None}]
    BY <1>0, <2>4, CodeKept DEF TypeOK
  <2> QED BY <1>0, <2>1, <2>3, <2>4, <2>5, <2>6, UserCommitKeeps
<1> QED BY <1>1, <1>2 DEF ActivateCommit

LEMMA SaveUserKeeps ==
  ASSUME IInv, NEW p \in Requests, NEW new \in UserRow, at[p] \in {"block", "password"},
         SaveUser(p, new)
  PROVE  IInv'
<1>0. /\ Answered(p) /\ UNCHANGED <<invitation, otp, session, histories>> /\ TypeOK /\ UserLoaded(p)
  BY DEF IInv, RequestOK, SaveUser
<1>1. CASE Stale(p)
  BY <1>0, <1>1, AnsweredKeeps DEF SaveUser, tables
<1>2. CASE ~Stale(p)
  <2> DEFINE row == FlushUser(user[about[p]], loaded[p], new)
  <2>1. /\ about[p] \in Users /\ user[about[p]] # None /\ user[about[p]] \in UserRow
        /\ user' = [user EXCEPT ![about[p]] = row]
    BY <1>0, <1>2 DEF UserLoaded, SaveUser, TypeOK
  <2>2. /\ row \in UserRow /\ row.email = user[about[p]].email /\ row.phone = user[about[p]].phone
        /\ row.version = user[about[p]].version + 1
    BY <2>1 DEF FlushUser, Column, UserRow
  <2> HIDE DEF row
  <2>8. /\ user' \in [Users -> UserRow \cup {None}]
        /\ user'[about[p]] = row /\ row # None
        /\ \A i \in Users \ {about[p]} : user'[i] = user[i]
    BY <1>0, <2>1, <2>2, NoRow DEF TypeOK
  <2>3. \A i \in Users : /\ user[i] # None => user'[i] # None /\ user'[i].email = user[i].email
                                                             /\ user'[i].phone = user[i].phone
                         /\ user[i] = None => user'[i] = None
                         /\ user'[i] # user[i] => user'[i].version = user[i].version + 1
    BY <2>1, <2>2, <2>8
  <2>4. Moves(p)
    BY <1>0, <2>3 DEF Moves, histories, TypeOK
  <2>5. UniqueContacts'
    BY <2>3 DEF IInv, UniqueContacts, Distinct
  <2>6. /\ \A k \in Invitations : InvitationSpent(invitation'[k], user')
        /\ \A o \in Codes : CodeSpent(otp'[o], user', session')
    BY <1>0, <2>4, InvitationKept, CodeKept
  <2>7. /\ invitation' \in [Invitations -> InvitationRow \cup {None}]
        /\ otp' \in [Codes -> OtpRow \cup {None}]
    BY <1>0 DEF TypeOK
  <2> QED BY <1>0, <2>8, <2>4, <2>5, <2>6, <2>7, UserCommitKeeps
<1> QED BY <1>1, <1>2

LEMMA BlockCommitKeeps ==
  ASSUME IInv, NEW p \in Requests, BlockCommit(p) \/ PasswordCommit(p)
  PROVE  IInv'
<1>1. loaded[p] \in UserRow /\ at[p] \in {"block", "password"}
  BY DEF IInv, RequestOK, UserLoaded, BlockCommit, PasswordCommit
<1>2. Blocked(loaded[p]) \in UserRow
  BY <1>1 DEF Blocked, UserRow
<1> QED BY <1>1, <1>2, SaveUserKeeps DEF BlockCommit, PasswordCommit

\* A commit that changes sessions and nothing else.
LEMMA SessionsCommitKeep ==
  ASSUME IInv, NEW p \in Requests, Answered(p), UNCHANGED <<user, invitation, otp, issued>>,
         session' \in [Sessions -> SessionRow \cup {None}],
         \A s \in Sessions : session[s] = None => session'[s] = None,
         \A s \in Sessions : session[s] # None =>
            /\ session'[s] # None /\ session'[s].user = session[s].user
            /\ \/ session'[s].token = session[s].token /\ session'[s].rotated = session[s].rotated
               \/ at[p] = "rotated" /\ session'[s].token = token[p],
         TokensAreKnown', GivenOK'
  PROVE  IInv'
<1>1. TablesTyped'
  BY TypeSplit DEF IInv, TablesTyped
<1>2. Moves(p)
  BY DEF Moves, IInv, TypeOK
<1>3. SpentForSomething'
  BY <1>2, InvitationKept, CodeKept DEF SpentForSomething
<1>4. UniqueContacts'
  BY DEF IInv, UniqueContacts
<1>5. \A s \in Sessions : session[s] = None => Founded(s)'
  BY DEF Founded, SessionFounded
<1> QED BY <1>1, <1>2, <1>3, <1>4, <1>5, CommitKeeps

LEMMA CompromiseKeeps ==
  ASSUME IInv, NEW p \in Requests, CompromiseAll(p)
  PROVE  IInv'
<1>0. /\ Answered(p) /\ UNCHANGED <<user, invitation, otp, histories>> /\ TypeOK
  BY DEF IInv, CompromiseAll
<1>1. ASSUME NEW s \in Sessions
      PROVE  \/ session'[s] = session[s]
             \/ session[s] # None /\ session'[s] = Compromised(session[s])
  BY DEF CompromiseAll, ActiveOf
<1>2. ASSUME NEW s \in Sessions, session[s] # None
      PROVE  /\ Compromised(session[s]) \in SessionRow /\ Compromised(session[s]) # None
             /\ Compromised(session[s]).user = session[s].user
             /\ Compromised(session[s]).token = session[s].token
             /\ Compromised(session[s]).rotated = session[s].rotated
  <2>1. session[s] \in SessionRow
    BY <1>0, <1>2 DEF TypeOK
  <2> QED BY <2>1, NoRow DEF Compromised, SessionRow, SessionStatus
<1>3. session' \in [Sessions -> SessionRow \cup {None}]
  <2>1. \A s \in Sessions : session'[s] \in SessionRow \cup {None}
    BY <1>0, <1>1, <1>2 DEF TypeOK
  <2>2. session' = [s \in Sessions |-> session'[s]]
    BY DEF CompromiseAll
  <2> QED BY <2>1, <2>2
<1>4. \A s \in Sessions :
         /\ session[s] = None => session'[s] = None
         /\ session[s] # None => /\ session'[s] # None /\ session'[s].user = session[s].user
                                 /\ session'[s].token = session[s].token
                                 /\ session'[s].rotated = session[s].rotated
  BY <1>1, <1>2
<1>5. TokensAreKnown' /\ GivenOK'
  BY <1>0, <1>4, TokensKept DEF histories
<1> QED BY <1>0, <1>3, <1>4, <1>5, SessionsCommitKeep DEF histories

LEMMA LogoutKeeps ==
  ASSUME IInv, NEW p \in Requests, LogoutCommit(p)
  PROVE  IInv'
<1>0. /\ Answered(p) /\ UNCHANGED <<user, invitation, otp, histories>> /\ TypeOK /\ SessionLoaded(p)
  BY DEF IInv, RequestOK, Held, LogoutCommit
<1>1. PICK s \in Sessions : s = about[p] /\ session[s] # None /\ session[s] \in SessionRow /\ loaded[p] \in SessionRow
  BY <1>0, TypeSplit, RowFacts DEF SessionLoaded
<1>2. PICK new : new = Flush(session[s], loaded[p], Revoked(loaded[p]))
  OBVIOUS
<1>3. /\ new \in SessionRow /\ new # None
      /\ new.user = session[s].user /\ new.token = session[s].token /\ new.rotated = session[s].rotated
  BY <1>1, <1>2, NoRow DEF Flush, Column, Revoked, SessionRow, SessionStatus
<1>4. /\ session' \in [Sessions -> SessionRow \cup {None}]
      /\ session'[s] = new /\ \A x \in Sessions \ {s} : session'[x] = session[x]
  BY <1>0, <1>1, <1>2, <1>3 DEF LogoutCommit, TypeOK
<1>5. \A x \in Sessions :
         /\ session[x] = None => session'[x] = None
         /\ session[x] # None => /\ session'[x] # None /\ session'[x].user = session[x].user
                                 /\ session'[x].token = session[x].token
                                 /\ session'[x].rotated = session[x].rotated
  BY <1>1, <1>3, <1>4
<1>6. TokensAreKnown' /\ GivenOK'
  BY <1>0, <1>5, TokensKept DEF histories
<1> QED BY <1>0, <1>4, <1>5, <1>6, SessionsCommitKeep DEF histories

\* What the UPDATE of a rotation leaves in the row.
LEMMA RotationIs ==
  ASSUME NEW x \in SessionRow, NEW copy \in SessionRow, NEW t \in Nat, copy.token # t,
         copy.token = x.token => copy.rotated = x.rotated
  PROVE  LET f == Flush(x, copy, Rotated(copy, t))
         IN  /\ f \in SessionRow /\ f.user = x.user /\ f.token = t /\ f.status = x.status
             /\ copy.token = x.token => f.rotated = x.rotated \cup {x.token}
<1>1. /\ Rotated(copy, t) = [user |-> copy.user, token |-> t, rotated |-> copy.rotated \cup {copy.token},
                             status |-> copy.status]
      /\ copy.rotated \cup {copy.token} \in SUBSET Nat
  BY DEF Rotated, SessionRow
<1>2. PICK rotated : rotated = Column(x.rotated, copy.rotated, copy.rotated \cup {copy.token})
  OBVIOUS
<1>3. rotated \in SUBSET Nat /\ (copy.token = x.token => rotated = x.rotated \cup {x.token})
  BY <1>1, <1>2 DEF Column, SessionRow
<1>4. Flush(x, copy, Rotated(copy, t))
        = [user |-> x.user, token |-> t, rotated |-> rotated, status |-> x.status]
  BY <1>1, <1>2 DEF Flush, Column
<1> QED BY <1>3, <1>4 DEF SessionRow

LEMMA RefreshAnswerKeeps ==
  ASSUME IInv, NEW p \in Requests, RefreshAnswer(p)
  PROVE  IInv'
<1>0. /\ Answered(p) /\ UNCHANGED <<user, invitation, otp, issued>> /\ TypeOK
      /\ SessionLoaded(p) /\ FreshOK(p) /\ at[p] = "rotated" /\ token[p] \in Nat
  BY DEF IInv, TypeOK, RequestOK, Held, RefreshAnswer
<1>1. CASE UNCHANGED <<session, given, overlapped>>
  BY <1>0, <1>1, AnsweredKeeps DEF tables, histories
<1>2. CASE ~UNCHANGED <<session, given, overlapped>>
  <2>1. PICK s \in Sessions : s = about[p] /\ session[s] # None /\ session[s] \in SessionRow
    BY <1>0, TypeSplit, RowFacts DEF SessionLoaded
  <2>2. PICK new : new = Flush(session[s], loaded[p], Rotated(loaded[p], token[p]))
    OBVIOUS
  <2>3. /\ session' = [session EXCEPT ![s] = new]
        /\ given' = given \cup {<<s, token[p]>>}
        /\ overlapped' = IF session[s].token # loaded[p].token THEN overlapped \cup {s} ELSE overlapped
    BY <1>2, <2>1, <2>2 DEF RefreshAnswer
  <2>4. loaded[p] \in SessionRow /\ loaded[p].token # token[p]
    BY <1>0 DEF SessionLoaded, FreshOK, Held
  <2>5. /\ new \in SessionRow /\ new # None /\ new.user = session[s].user /\ new.token = token[p]
        /\ loaded[p].token = session[s].token => new.rotated = session[s].rotated \cup {session[s].token}
    BY <1>0, <2>1, <2>2, <2>4, RotationIs, NoRow DEF SessionLoaded
  <2>6. /\ session' \in [Sessions -> SessionRow \cup {None}]
        /\ session'[s] = new /\ \A x \in Sessions \ {s} : session'[x] = session[x]
    BY <1>0, <2>3, <2>5 DEF TypeOK
  <2>7. \A x \in Sessions :
           /\ session[x] = None => session'[x] = None
           /\ session[x] # None =>
                /\ session'[x] # None /\ session'[x].user = session[x].user
                /\ \/ session'[x].token = session[x].token /\ session'[x].rotated = session[x].rotated
                   \/ at[p] = "rotated" /\ session'[x].token = token[p]
    BY <1>0, <2>1, <2>5, <2>6
  <2>8. GivenOK'
    <3> SUFFICES ASSUME NEW g \in given' PROVE g[1] \in Sessions /\ session'[g[1]] # None
      BY DEF GivenOK
    <3>1. CASE g \in given
      BY <2>7, <3>1 DEF IInv, GivenOK
    <3>2. CASE g = <<s, token[p]>>
      BY <2>5, <2>6, <3>2
    <3> QED BY <2>3, <3>1, <3>2
  <2>9. TokensAreKnown'
    <3> SUFFICES ASSUME NEW g \in given', g[1] \notin overlapped'
                 PROVE  g[2] \in {session'[g[1]].token} \cup session'[g[1]].rotated
      BY DEF TokensAreKnown
    <3>1. CASE g = <<s, token[p]>>
      BY <2>5, <2>6, <3>1
    <3>2. CASE g \in given /\ g[1] # s
      <4>1. session'[g[1]] = session[g[1]] /\ g[1] \notin overlapped
        BY <2>3, <2>6, <3>2 DEF IInv, GivenOK
      <4> QED BY <3>2, <4>1 DEF IInv, TokensAreKnown
    <3>3. CASE g \in given /\ g[1] = s
      <4>1. session[s].token = loaded[p].token /\ s \notin overlapped
        BY <2>3, <3>3
      <4>2. g[2] \in {session[s].token} \cup session[s].rotated
        BY <3>3, <4>1 DEF IInv, TokensAreKnown
      <4> QED BY <2>5, <2>6, <3>3, <4>1, <4>2
    <3> QED BY <2>3, <3>1, <3>2, <3>3
  <2> QED BY <1>0, <2>6, <2>7, <2>8, <2>9, SessionsCommitKeep
<1> QED BY <1>1, <1>2

(***************************************************************************)
(* The theorems.                                                           *)
(***************************************************************************)
LEMMA StillKeeps ==
  ASSUME IInv, UNCHANGED <<tables, request, histories>>
  PROVE  IInv'
<1>0. /\ UNCHANGED <<user, invitation, otp, session>>
      /\ UNCHANGED <<at, about, loaded, contact, token>>
      /\ UNCHANGED <<issued, given, overlapped>>
  BY DEF tables, request, histories
<1>1. TypeOK'
  BY <1>0 DEF IInv, TypeOK
<1>2. UniqueContacts' /\ SpentForSomething'
  BY <1>0 DEF IInv, UniqueContacts, Distinct, SpentForSomething, InvitationSpent, CodeSpent
<1>3. TokensAreKnown' /\ GivenOK' /\ \A s \in Sessions : Founded(s)'
  BY <1>0 DEF IInv, TokensAreKnown, GivenOK, Founded, SessionFounded
<1>4. ASSUME NEW r \in Requests
      PROVE  RequestOK(r)' /\ FreshOK(r)'
  <2>1. RequestOK(r) /\ FreshOK(r)
    BY DEF IInv
  <2>2. RequestOK(r)'
    BY <1>0, <2>1 DEF RequestOK, Held, SessionLoaded, UserLoaded, InvitationKnown
  <2>3. FreshOK(r)'
    BY <1>0, <2>1 DEF FreshOK, Held
  <2> QED BY <2>2, <2>3
<1> QED BY <1>1, <1>2, <1>3, <1>4 DEF IInv

LEMMA InitHolds == Init => IInv
<1> SUFFICES ASSUME Init PROVE IInv
  OBVIOUS
<1>0. PICK t \in InitTables : /\ user = t.user /\ invitation = t.invitation
                              /\ otp = t.otp /\ session = t.session /\ issued = t.issued
  BY DEF Init
<1>1. TablesTyped
  BY <1>0, InitAssumption DEF TablesTyped
<1>2. RequestsTyped
  BY DEF Init, RequestsTyped, Steps, NoContact
<1>3. UniqueContacts /\ SpentForSomething /\ \A s \in Sessions : Founded(s)
  BY <1>0, InitAssumption DEF UniqueContacts, SpentForSomething, Founded
<1>4. TokensAreKnown /\ GivenOK
  BY DEF Init, TokensAreKnown, GivenOK
<1>5. \A r \in Requests : RequestOK(r) /\ FreshOK(r)
  BY DEF Init, RequestOK, FreshOK, Held
<1> QED BY <1>1, <1>2, <1>3, <1>4, <1>5, TypeSplit DEF IInv

LEMMA StepKeeps == IInv /\ [Next]_vars => IInv'
<1> SUFFICES ASSUME IInv, [Next]_vars PROVE IInv'
  OBVIOUS
<1>1. ASSUME NEW r \in Requests, SessionStep(r)
      PROVE  IInv'
  BY <1>1, LoginReadKeeps, LoginCommitKeeps, RefreshReadKeeps, LogoutReadKeeps, RotateKeeps,
     RefreshAnswerKeeps, ReuseReadKeeps, CompromiseKeeps, LogoutKeeps DEF SessionStep
<1>2. ASSUME NEW r \in Requests, CodeStep(r)
      PROVE  IInv'
  <2>1. CASE VerifyFlush(r)
    BY <2>1, FlushKeeps DEF VerifyFlush
  <2> QED BY <1>2, <2>1, RequestOtpKeeps, VerifyReadKeeps, VerifyAnswerKeeps DEF CodeStep
<1>3. ASSUME NEW r \in Requests, UserStep(r)
      PROVE  IInv'
  <2>1. CASE AcceptFlush(r)
    BY <2>1, FlushKeeps DEF AcceptFlush
  <2> QED BY <1>3, <2>1, RegisterReadKeeps, InviteReadKeeps, AcceptReadKeeps, ChangeReadKeeps,
             RegisterCommitKeeps, InviteCommitKeeps, ActivateReadKeeps, ActivateCommitKeeps,
             BlockCommitKeeps DEF UserStep
<1>4. CASE Lapse
  BY <1>4, StillKeeps DEF Lapse
<1>5. CASE UNCHANGED vars
  BY <1>5, StillKeeps DEF vars, tables, request, histories
<1> QED BY <1>1, <1>2, <1>3, <1>4, <1>5 DEF Next

\* The inductive invariant holds in every state.
THEOREM Invariance == Spec => []IInv
BY InitHolds, StepKeeps, PTL DEF Spec

\* Every variable keeps to its type.
THEOREM TypeCorrect == Spec => []TypeOK
<1>1. IInv => TypeOK
  BY DEF IInv
<1> QED BY <1>1, Invariance, PTL

\* A token that was handed out is the current one of its session or one whose
\* reuse is noticed, unless two refreshes of the session overlapped.
THEOREM TokensStayKnown == Spec => []TokensAreKnown
<1>1. IInv => TokensAreKnown
  BY DEF IInv
<1> QED BY <1>1, Invariance, PTL

\* An accepted invitation has made its user, a verified code a session of its user.
THEOREM NothingIsSpentInVain == Spec => []SpentForSomething
<1>1. IInv => SpentForSomething
  BY DEF IInv
<1> QED BY <1>1, Invariance, PTL

\* Registrations and activations that race leave each address with one user.
THEOREM AddressesAreUnique == Spec => []UniqueContacts
<1>1. IInv => UniqueContacts
  BY DEF IInv
<1> QED BY <1>1, Invariance, PTL

(***************************************************************************)
(* What has ended stays ended.                                             *)
(***************************************************************************)
Ended(s) == session[s] # None /\ session[s].status # "ACTIVE" => session'[s].status # "ACTIVE"

LEMMA NewSessionEnds ==
  ASSUME TypeOK, NEW i \in Users, NewSession(i), NEW s \in Sessions
  PROVE  Ended(s)
<1>1. PICK x \in Sessions : session[x] = None /\ \E new : session' = [session EXCEPT ![x] = new]
  BY DEF NewSession, Fresh, First
<1> QED BY <1>1 DEF Ended, TypeOK

\* A late save of a copy leaves the status of an ended session, or ends it once more.
LEMMA SaveEnds ==
  ASSUME TypeOK, NEW p \in Requests, RefreshAnswer(p) \/ LogoutCommit(p), NEW s \in Sessions
  PROVE  Ended(s)
<1>1. CASE UNCHANGED session
  BY <1>1 DEF Ended
<1>2. ASSUME NEW new, new \in {Rotated(loaded[p], token[p]), Revoked(loaded[p])},
             session' = [session EXCEPT ![about[p]] = Flush(session[about[p]], loaded[p], new)]
      PROVE  Ended(s)
  <2>1. CASE s # about[p]
    BY <1>2, <2>1 DEF TypeOK, Ended
  <2>2. CASE s = about[p]
    <3>1. session'[s] = Flush(session[s], loaded[p], new)
      BY <1>2, <2>2 DEF TypeOK
    <3>2. Flush(session[s], loaded[p], new).status = Column(session[s].status, loaded[p].status, new.status)
      BY DEF Flush
    <3>3. new.status \in {loaded[p].status, "REVOKED"}
      BY <1>2 DEF Rotated, Revoked
    <3> QED BY <3>1, <3>2, <3>3 DEF Column, Ended
  <2> QED BY <2>1, <2>2
<1> QED BY <1>1, <1>2 DEF RefreshAnswer, LogoutCommit

\* A session that was logged out or compromised does not come back.
THEOREM EndedForGood == Spec => EndedStaysEnded
<1>1. ASSUME IInv, Next, NEW s \in Sessions
      PROVE  Ended(s)
  <2>0. TypeOK
    BY <1>1 DEF IInv
  <2>1. CASE UNCHANGED session
    BY <2>1 DEF Ended
  <2>2. CASE \E i \in Users : NewSession(i)
    BY <2>0, <2>2, NewSessionEnds
  <2>3. ASSUME NEW r \in Requests, CompromiseAll(r)
        PROVE  Ended(s)
    BY <2>3 DEF CompromiseAll, ActiveOf, Ended
  <2>4. ASSUME NEW r \in Requests, SessionStep(r)
        PROVE  Ended(s)
    <3>1. ASSUME LoginCommit(r) PROVE \E i \in Users : NewSession(i)
      BY <1>1, <3>1 DEF IInv, RequestOK, LoginCommit
    <3> QED BY <2>0, <2>1, <2>2, <2>3, <2>4, <3>1, SaveEnds
        DEF SessionStep, LoginRead, RefreshRead, LogoutRead, RefreshRotate, ReuseRead, tables
  <2>5. ASSUME NEW r \in Requests, CodeStep(r)
        PROVE  Ended(s)
    <3>1. ASSUME VerifyAnswer(r) PROVE UNCHANGED session \/ \E i \in Users : NewSession(i)
      BY <3>1 DEF VerifyAnswer, FindByPhone
    <3> QED BY <2>1, <2>2, <2>5, <3>1 DEF CodeStep, RequestOtp, VerifyRead, VerifyFlush, tables
  <2>6. ASSUME NEW r \in Requests, UserStep(r)
        PROVE  Ended(s)
    <3>1. ASSUME RegisterCommit(r) PROVE UNCHANGED session \/ \E i \in Users : NewSession(i)
      BY <3>1 DEF RegisterCommit, Fresh, First
    <3> QED BY <2>1, <2>2, <2>6, <3>1
        DEF UserStep, RegisterRead, InviteRead, AcceptRead, BlockRead, PasswordRead, InviteCommit,
            AcceptFlush, ActivateRead, ActivateCommit, BlockCommit, PasswordCommit, SaveUser, tables
  <2>7. CASE Lapse
    BY <2>1, <2>7 DEF Lapse, tables
  <2> QED BY <1>1, <2>4, <2>5, <2>6, <2>7 DEF Next
<1>2. IInv /\ [Next]_vars => [\A s \in Sessions : Ended(s)]_vars
  BY <1>1
<1>3. [\A s \in Sessions : Ended(s)]_vars
        <=> [\A s \in Sessions : (session[s] # None /\ session[s].status # "ACTIVE")
               => session'[s].status # "ACTIVE"]_vars
  BY DEF Ended
<1> QED BY <1>2, <1>3, Invariance, PTL DEF Spec, EndedStaysEnded
=============================================================================
