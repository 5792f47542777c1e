-------------------------- MODULE MCPromptCuration ---------------------------
(* Instances of PromptCuration for TLC. *)
EXTENDS PromptCuration, TLC

Interchangeable ==
    Permutations(Users \ Retiring) \cup Permutations(Calls) \cup Permutations(Contents \ Incomplete)
=============================================================================
