--------------------------- MODULE MCRegistration ---------------------------
(***************************************************************************)
(* A trunk client and the one that replaces it, and another vendor's phone  *)
(* on the same account.                                                     *)
(***************************************************************************)
EXTENDS Registration

MCClients == {"first", "second", "phone"}
MCContactOf == [c \in MCClients |-> IF c = "phone" THEN "desk" ELSE "trunk"]
MCReplaces == {<<"second", "first">>}
MCWildcards == {"phone"}
Setup(c, f, e, r) ==
    [clients |-> c, bounds |-> [faults |-> f, edits |-> e, refreshes |-> r]]
MCSetups ==
    {Setup({"first"}, 2, 1, 1), Setup({"first"}, 1, 2, 0),
     Setup({"first", "second"}, 1, 1, 1),
     Setup({"first", "phone"}, 1, 0, 0)}
MCPasswords == {1, 2}
MCNoAccount == 0
=============================================================================
