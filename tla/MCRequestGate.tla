---------------------------- MODULE MCRequestGate ----------------------------
(* Instances of RequestGate for TLC. *)
EXTENDS RequestGate, TLC

CONSTANTS ana, bia, mail   \* bia's token carries no email

MCEmailOf == (ana :> mail) @@ (bia :> NoEmail)
MCLimit   == [p \in Policies |-> IF p = "user" THEN 2 ELSE 1]

Interchangeable == Permutations(Calls) \cup Permutations(Accounts)
=============================================================================
