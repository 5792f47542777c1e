--------------------------- MODULE MCIdeaDiscussion ---------------------------
(* Instances of IdeaDiscussion for TLC. *)
EXTENDS IdeaDiscussion, TLC

Interchangeable == Permutations(Ideas) \cup Permutations(Comments) \cup Permutations(Calls)
=============================================================================
