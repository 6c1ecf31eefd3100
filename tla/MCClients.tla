------------------------------ MODULE MCClients ------------------------------
(***************************************************************************)
(* A few requests over an empty base, one with two clients, a vehicle and  *)
(* a form, and one with a client, a vehicle and two consents.              *)
(***************************************************************************)
EXTENDS Clients, TLC

CONSTANTS r1, r2, r3, n1, f1, f2, a1, a2, t0, t1

AllCommands == {"register", "upgrade", "profile", "add", "describe", "deactivate", "give", "revoke",
                "request", "anonymize", "cancel"}
Rows(S, first) == [i \in S |-> IF i \in DOMAIN first THEN first[i] ELSE None]
Tables(cs, vs, ks, qs) == [client |-> Rows(ClientIds, cs), vehicle |-> Rows(VehicleIds, vs),
                           consent |-> Rows(ConsentIds, ks), form |-> Rows(Forms, qs)]
Guest(n, ph) == Registered(n, ph, "GUEST")
Vehicle1 == Added(1, a1)
\* Nobody; two clients, a vehicle and a form; a client with a vehicle and a consent to withdraw.
Early == {Tables(<< >>, << >>, << >>, << >>),
          Tables(<<Guest(n1, f1), Guest(n1, f2)>>, <<Vehicle1>>, <<Given(1, t0), Given(2, t0)>>,
                 <<[client |-> 1, status |-> "PENDING"]>>),
          Tables(<<Guest(n1, f1)>>, <<Vehicle1>>, <<Given(1, t0), Given(1, t1)>>, << >>)}
Interchangeable == Permutations(Requests)
=============================================================================
