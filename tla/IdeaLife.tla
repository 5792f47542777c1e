------------------------------- MODULE IdeaLife -------------------------------
(***************************************************************************)
(* What curation promises the rest of the portal about ideas: an idea      *)
(* appears hidden, is shown and hidden any number of times, and once       *)
(* erased never returns; that it was ever shown is not forgotten.          *)
(***************************************************************************)
CONSTANT Ideas

VARIABLES
    phase,  \* "none", "hidden", "public" or "gone", of each idea
    shown   \* ideas that have been public

Init == phase = [i \in Ideas |-> "none"] /\ shown = {}

Move(i, from, to) == phase[i] \in from /\ phase' = [phase EXCEPT ![i] = to]

Appear(i) == Move(i, {"none"}, "hidden") /\ UNCHANGED shown
Show(i)   == Move(i, {"hidden"}, "public") /\ shown' = shown \cup {i}
Hide(i)   == Move(i, {"public"}, "hidden") /\ UNCHANGED shown
Vanish(i) == Move(i, {"hidden", "public"}, "gone") /\ UNCHANGED shown

Next == \E i \in Ideas : Appear(i) \/ Show(i) \/ Hide(i) \/ Vanish(i)

Spec == Init /\ [][Next]_<<phase, shown>>
=============================================================================
