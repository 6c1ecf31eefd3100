------------------------------- MODULE MCIam -------------------------------
(***************************************************************************)
(* An installation with one owner, one with an invitation, and one with    *)
(* two owners of whom one has a session.                                   *)
(***************************************************************************)
EXTENDS Iam, Sequences, TLC

CONSTANTS e1, e2, e3, f1, f2, r1, r2, r3, r4

Owner1 == NewUser(e1, f1, TRUE)
Owner2 == NewUser(e2, f2, TRUE)
Rows(S, first) == [i \in S |-> IF i \in DOMAIN first THEN first[i] ELSE None]
Tables(us, is, ss) == [user |-> Rows(Users, us), invitation |-> Rows(Invitations, is),
                       otp |-> Rows(Codes, << >>), session |-> Rows(Sessions, ss),
                       issued |-> Len(ss)]
Early == {Tables(<<Owner1>>, << >>, << >>),
          Tables(<<Owner1>>, <<[email |-> e2, status |-> "PENDING"]>>, << >>),
          Tables(<<Owner1, Owner2>>, << >>, <<IssuedSession(1, 1)>>)}
AllCommands == {"login", "refresh", "logout", "code", "verify", "register", "invite", "accept", "block", "password"}
JustBlock == {"login", "block", "password"}
Interchangeable == Permutations(Requests)
=============================================================================
