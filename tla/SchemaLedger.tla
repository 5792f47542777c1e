----------------------------- MODULE SchemaLedger -----------------------------
(***************************************************************************)
(* What the migrations of a database promise: each comes into force after  *)
(* every older one was recorded, and is recorded once it is in force.  A   *)
(* schema that was restored from elsewhere is recorded as a whole.         *)
(***************************************************************************)
EXTENDS Naturals

CONSTANT Newest  \* the migrations are numbered 1..Newest in the order of their names

VARIABLES
    inForce,  \* migrations applied from their first statement to their last
    recorded  \* migrations named in _migrations

Older(f) == 1..(f - 1)

Init ==
    /\ \E top \in 0..Newest : inForce = 1..top
    /\ recorded = {}

Apply(f) ==
    /\ Older(f) \subseteq recorded
    /\ f \notin inForce
    /\ inForce' = inForce \cup {f}
    /\ UNCHANGED recorded

Record(f) ==
    /\ f \in inForce \ recorded
    /\ Older(f) \subseteq recorded
    /\ recorded' = recorded \cup {f}
    /\ UNCHANGED inForce

RecordAll ==
    /\ recorded' = inForce
    /\ UNCHANGED inForce

Next == (\E f \in 1..Newest : Apply(f) \/ Record(f)) \/ RecordAll

Spec == Init /\ [][Next]_<<inForce, recorded>>
=============================================================================
