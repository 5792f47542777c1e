---------------------------- MODULE MCIdeaCuration ----------------------------
(* Instances of IdeaCuration for TLC. *)
EXTENDS IdeaCuration, TLC

Interchangeable ==
    Permutations(Ideas) \cup Permutations(Versions) \cup Permutations(Texts) \cup Permutations(Calls)
=============================================================================
