---------------------------- MODULE VersionLedger ----------------------------
(***************************************************************************)
(* What the approvals of a prompt promise: the version grows by one with   *)
(* each approval, in the same step as its snapshot is written.  A snapshot *)
(* an approval did not write, of a version published by an administrator,  *)
(* may be added later.                                                     *)
(***************************************************************************)
EXTENDS Naturals

CONSTANT Contents

VARIABLES
    version,   \* prompts.version
    snapshots  \* prompt_versions up to the version

Init == version = 1 /\ snapshots = {}

Approve(text) ==
    /\ version' = version + 1
    /\ snapshots' = snapshots \cup {[number |-> version + 1, content |-> text]}

Backfill(text) ==
    /\ \E number \in 1..version :
        /\ \A s \in snapshots : s.number # number
        /\ snapshots' = snapshots \cup {[number |-> number, content |-> text]}
    /\ UNCHANGED version

Next == \E text \in Contents : Approve(text) \/ Backfill(text)

Spec == Init /\ [][Next]_<<version, snapshots>>
=============================================================================
