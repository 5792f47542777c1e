--------------------------- MODULE MigrationsProofs ---------------------------
(***************************************************************************)
(* Proofs about Migrations, for any files, units and numbers of runs,      *)
(* failures and crashes.                                                   *)
(***************************************************************************)
EXTENDS Migrations, TLAPS

\* A run has taken up what was pending: the files it does not hold are
\* recorded, and the units before the one it is at are in force.
WorkInv ==
    /\ \A f \in Files : applied[f] > 0 => f \in Deployed
    /\ \A r \in Runs : todo[r] = {} => pc[r] = "idle"
    /\ \A r \in Runs : pc[r] = "idle" => todo[r] = {}
    /\ \A r \in Runs : pc[r] # "idle" => Deployed \subseteq recorded \cup todo[r]
    /\ \A r \in Runs, f \in Files : At(r, f) =>
        /\ pc[r] = "run" => unit[r] <= Units[f] /\ applied[f] >= unit[r] - 1
        /\ pc[r] = "record" => InForce(f)

Inv == TypeOK /\ WorkInv /\ RecordedInForce /\ NoGaps

\* Until two overlap, the one run under way holds only what is not recorded.
LoneInv == ~overlapped =>
    /\ \A r, q \in Runs : Busy(r) /\ Busy(q) => r = q
    /\ \A r \in Runs : todo[r] \cap recorded = {}

\* What is recorded are files.
LEMMA KnownFiles == TypeOK => Deployed \subseteq Files /\ recorded \subseteq Files
<1> SUFFICES ASSUME TypeOK PROVE Deployed \subseteq Files /\ recorded \subseteq Deployed
  OBVIOUS
<1>1. deployed \in Nat /\ deployed <= Newest /\ Newest \in Nat
  BY NewestAssumption DEF TypeOK, Files
<1>2. recorded \subseteq Deployed
  BY DEF TypeOK
<1>3. Deployed \subseteq Files
  BY <1>1 DEF Deployed, Files
<1> QED BY <1>2, <1>3

\* A run is at one file at most, and the files before it are not its work.
LEMMA AtOne ==
  ASSUME TypeOK, NEW r \in Runs, NEW f \in Files, At(r, f)
  PROVE  /\ \A g \in Files : At(r, g) => g = f
         /\ \A g \in Files : g < f => g \notin todo[r]
         /\ f \in todo[r] /\ f \in Deployed
  BY NewestAssumption DEF TypeOK, At, Files, Deployed

THEOREM InitInv == Init => Inv
<1> SUFFICES ASSUME Init PROVE Inv
  OBVIOUS
<1> USE NewestAssumption, UnitsAssumption
<1>1. applied \in [Files -> Nat] /\ \A f \in Files : applied[f] <= Units[f]
  <2>1. CASE applied = [f \in Files |-> 0]
    BY <2>1
  <2>2. CASE applied = [f \in Files |-> IF f <= deployed THEN Units[f] ELSE 0]
    BY <2>2
  <2> QED BY <2>1, <2>2 DEF Init
<1>2. TypeOK
  <2>1. deployed \in Files
    BY DEF Init
  <2>2. recorded \subseteq Deployed /\ todo \in [Runs -> SUBSET Deployed]
    BY DEF Init
  <2>3. pc \in [Runs -> {"idle", "run", "record"}] /\ unit \in [Runs -> Nat \ {0}]
    BY DEF Init
  <2>4. /\ up \in BOOLEAN /\ interrupted \in BOOLEAN /\ overlapped \in BOOLEAN
        /\ failures \in Nat /\ crashes \in Nat
    BY DEF Init
  <2> QED BY <1>1, <2>1, <2>2, <2>3, <2>4 DEF TypeOK
<1>3. WorkInv
  <2>1. \A f \in Files : applied[f] > 0 => f \in Deployed
    BY DEF Init, Files, Deployed
  <2>2. /\ \A r \in Runs : todo[r] = {} /\ pc[r] = "idle"
        /\ \A r \in Runs, f \in Files : ~At(r, f)
    BY DEF Init, At
  <2> QED BY <2>1, <2>2 DEF WorkInv
<1>4. RecordedInForce /\ NoGaps
  <2>1. CASE applied = [f \in Files |-> 0]
    BY <2>1 DEF Init, RecordedInForce, NoGaps
  <2>2. CASE applied = [f \in Files |-> IF f <= deployed THEN Units[f] ELSE 0]
    <3>1. \A f, g \in Files : f <= deployed /\ g < f => g <= deployed
      BY DEF Init, Files
    <3> QED
      BY <2>2, <3>1 DEF Init, RecordedInForce, NoGaps, InForce
  <2> QED
    BY <2>1, <2>2 DEF Init
<1> QED BY <1>2, <1>3, <1>4 DEF Inv

-----------------------------------------------------------------------------
(* What each step keeps of the invariant. *)

LEMMA StartInv ==
  ASSUME Inv, NEW r \in Runs, Start(r)
  PROVE  Inv'
<1> USE DEF Inv, schema, counters
<1>1. UNCHANGED <<deployed, applied, recorded, failures, crashes>>
  BY DEF Start
<1>2. CASE Deployed \subseteq recorded
  <2>1. Return(r)
    BY <1>2 DEF Start
  <2>2. TypeOK'
    BY <1>1, <2>1 DEF TypeOK, Return, Start, Files, Deployed
  <2>3. WorkInv'
    BY <1>1, <2>1 DEF TypeOK, WorkInv, Return, At, InForce, Deployed
  <2>4. RecordedInForce' /\ NoGaps'
    BY <1>1 DEF RecordedInForce, NoGaps, InForce
  <2> QED BY <2>2, <2>3, <2>4
<1>3. CASE ~(Deployed \subseteq recorded)
  <2>1. /\ pc' = [pc EXCEPT ![r] = "run"]
        /\ todo' = [todo EXCEPT ![r] = Deployed \ recorded]
        /\ unit' = [unit EXCEPT ![r] = 1]
        /\ UNCHANGED up
    BY <1>3 DEF Start
  <2>2. TypeOK'
    BY <1>1, <2>1 DEF TypeOK, Start, Files, Deployed
  <2>3. WorkInv'
    <3>1. Deployed' = Deployed
      BY <1>1 DEF Deployed
    <3>2. \A f \in Files : applied[f] > 0 => f \in Deployed
      BY DEF WorkInv
    <3>3. \A q \in Runs : todo'[q] = {} => pc'[q] = "idle"
      BY <1>3, <2>1 DEF TypeOK, WorkInv
    <3>4. \A q \in Runs : pc'[q] = "idle" => todo'[q] = {}
      BY <2>1 DEF TypeOK, WorkInv
    <3>5. \A q \in Runs : pc'[q] # "idle" => Deployed \subseteq recorded \cup todo'[q]
      BY <2>1 DEF TypeOK, WorkInv
    <3>6. ASSUME NEW q \in Runs, NEW f \in Files, At(q, f)'
          PROVE  /\ pc'[q] = "run" => unit'[q] <= Units[f] /\ applied[f] >= unit'[q] - 1
                 /\ pc'[q] = "record" => InForce(f)
      <4>1. CASE q = r
        BY <2>1, <4>1, UnitsAssumption DEF TypeOK
      <4>2. CASE q # r
        <5>1. At(q, f)
          BY <2>1, <3>6, <4>2 DEF TypeOK, At
        <5> QED BY <2>1, <4>2, <5>1 DEF TypeOK, WorkInv
      <4> QED BY <4>1, <4>2
    <3> QED BY <1>1, <3>1, <3>2, <3>3, <3>4, <3>5, <3>6 DEF WorkInv, InForce
  <2>4. RecordedInForce' /\ NoGaps'
    BY <1>1 DEF RecordedInForce, NoGaps, InForce
  <2> QED BY <2>2, <2>3, <2>4
<1> QED BY <1>2, <1>3

\* A run that returns leaves the schema as it is.
LEMMA ReturnInv ==
  ASSUME Inv, NEW r \in Runs, Return(r), UNCHANGED schema,
         failures' \in Nat, crashes' \in Nat, interrupted' \in BOOLEAN, overlapped' \in BOOLEAN
  PROVE  Inv'
<1> USE DEF Inv, schema
<1>1. TypeOK'
  BY DEF TypeOK, Return, Files, Deployed
<1>2. WorkInv'
  BY DEF TypeOK, WorkInv, Return, At, InForce, Deployed
<1>3. RecordedInForce' /\ NoGaps'
  BY DEF RecordedInForce, NoGaps, InForce
<1> QED BY <1>1, <1>2, <1>3

LEMMA RunInv ==
  ASSUME Inv, NEW r \in Runs, Run(r)
  PROVE  Inv'
<1> USE DEF Inv
<1> PICK f \in Files :
      /\ pc[r] = "run" /\ At(r, f)
      /\ applied' = [applied EXCEPT ![f] = IF @ < unit[r] THEN unit[r] ELSE @]
      /\ IF unit[r] < Units[f]
         THEN unit' = [unit EXCEPT ![r] = @ + 1] /\ UNCHANGED pc
         ELSE pc' = [pc EXCEPT ![r] = "record"] /\ UNCHANGED unit
      /\ UNCHANGED <<deployed, recorded, up, todo, counters, interrupted, overlapped>>
  BY DEF Run
<1>1. /\ f \in Deployed /\ f \in todo[r]
      /\ \A g \in Files : g < f => g \notin todo[r]
      /\ \A g \in Files : At(r, g) => g = f
  BY AtOne
<1>2. unit[r] <= Units[f] /\ applied[f] >= unit[r] - 1 /\ Units[f] \in Nat \ {0} /\ unit[r] \in Nat \ {0}
  BY UnitsAssumption DEF WorkInv, TypeOK
<1>3. \A g \in Files : applied[g] \in Nat /\ applied[g] <= Units[g] /\ Units[g] \in Nat
  BY UnitsAssumption DEF TypeOK
<1>4. /\ applied' \in [Files -> Nat] /\ \A g \in Files : applied'[g] <= Units[g]
      /\ \A g \in Files : applied'[g] >= applied[g]
      /\ \A g \in Files : g # f => applied'[g] = applied[g]
      /\ applied'[f] >= unit[r]
  BY <1>2, <1>3 DEF TypeOK
<1>5. TypeOK'
  <2>1. pc' \in [Runs -> {"idle", "run", "record"}] /\ unit' \in [Runs -> Nat \ {0}]
    BY <1>2 DEF TypeOK
  <2> QED BY <1>4, <2>1 DEF TypeOK, counters, Deployed
<1>6. WorkInv'
  <2>1. \A g \in Files : applied'[g] > 0 => g \in Deployed
    BY <1>1, <1>4 DEF WorkInv
  <2>2. \A q \in Runs : pc'[q] = "idle" <=> pc[q] = "idle"
    BY DEF TypeOK
  <2>3. ASSUME NEW q \in Runs, NEW g \in Files, At(q, g)'
        PROVE  /\ pc'[q] = "run" => unit'[q] <= Units[g] /\ applied'[g] >= unit'[q] - 1
               /\ pc'[q] = "record" => applied'[g] = Units[g]
    <3>1. At(q, g)
      BY <2>3 DEF At
    <3>2. CASE q # r
      <4>1. unit'[q] = unit[q] /\ pc'[q] = pc[q] /\ unit[q] \in Nat
        BY <3>2 DEF TypeOK
      <4>2. /\ pc[q] = "run" => unit[q] <= Units[g] /\ applied[g] >= unit[q] - 1
            /\ pc[q] = "record" => applied[g] = Units[g]
        BY <3>1 DEF WorkInv, InForce
      <4>3. applied[g] \in Nat /\ applied'[g] \in Nat /\ applied'[g] >= applied[g] /\ applied'[g] <= Units[g]
        BY <1>3, <1>4
      <4> QED BY <1>3, <4>1, <4>2, <4>3
    <3>3. CASE q = r /\ unit[r] < Units[f]
      <4>1. g = f /\ unit'[q] = unit[r] + 1 /\ pc'[q] = "run"
        BY <1>1, <3>1, <3>3 DEF TypeOK
      <4> QED BY <1>2, <1>4, <3>3, <4>1
    <3>4. CASE q = r /\ ~(unit[r] < Units[f])
      <4>1. g = f /\ pc'[q] = "record"
        BY <1>1, <3>1, <3>4 DEF TypeOK
      <4>2. applied'[f] \in Nat
        BY <1>4
      <4> QED BY <1>2, <1>4, <3>4, <4>1, <4>2
    <3> QED BY <3>2, <3>3, <3>4
  <2> QED BY <2>1, <2>2, <2>3 DEF WorkInv, Deployed, InForce
<1>7. RecordedInForce'
  <2>1. \A g \in Files : InForce(g) => applied'[g] = Units[g]
    BY <1>3, <1>4 DEF InForce
  <2>2. \A g \in recorded : applied'[g] = Units[g]
    <3>1. recorded \subseteq Files
      BY KnownFiles
    <3>2. \A g \in recorded : InForce(g)
      BY DEF RecordedInForce
    <3> QED BY <2>1, <3>1, <3>2
  <2>3. ASSUME NEW g \in Files, NEW h \in Files, applied'[g] > 0, h < g
        PROVE  applied'[h] = Units[h]
    <3>1. CASE g = f
      <4>1. h \in Deployed /\ h \notin todo[r]
        BY <1>1, <2>3, <3>1 DEF Deployed, Files, TypeOK
      <4>2. h \in recorded
        BY <4>1 DEF WorkInv
      <4> QED BY <2>2, <4>2
    <3>2. CASE g # f
      BY <1>4, <2>1, <2>3, <3>2 DEF RecordedInForce
    <3> QED BY <3>1, <3>2
  <2> QED BY <2>2, <2>3 DEF RecordedInForce, InForce
<1>8. NoGaps'
  BY DEF NoGaps
<1> QED BY <1>5, <1>6, <1>7, <1>8

LEMMA RecordInv ==
  ASSUME Inv, NEW r \in Runs, Record(r)
  PROVE  Inv'
<1> USE DEF Inv
<1> PICK f \in Files :
      /\ pc[r] = "record" /\ At(r, f) /\ f \notin recorded
      /\ recorded' = recorded \cup {f}
      /\ IF todo[r] = {f}
         THEN Return(r)
         ELSE /\ pc' = [pc EXCEPT ![r] = "run"]
              /\ todo' = [todo EXCEPT ![r] = @ \ {f}]
              /\ unit' = [unit EXCEPT ![r] = 1]
              /\ UNCHANGED up
      /\ UNCHANGED <<deployed, applied, counters, interrupted, overlapped>>
  BY DEF Record
<1>1. /\ f \in Deployed /\ f \in todo[r]
      /\ \A g \in Files : g < f => g \notin todo[r]
  BY AtOne
<1>2. InForce(f)
  BY DEF WorkInv
<1>3. TypeOK'
  <2>1. CASE todo[r] = {f}
    BY <1>1, <2>1 DEF TypeOK, Return, counters, Deployed
  <2>2. CASE todo[r] # {f}
    BY <1>1, <2>2 DEF TypeOK, counters, Deployed
  <2> QED BY <2>1, <2>2
<1>4. WorkInv'
  <2>1. todo'[r] = todo[r] \ {f} /\ \A q \in Runs : q # r => todo'[q] = todo[q] /\ pc'[q] = pc[q] /\ unit'[q] = unit[q]
    BY DEF TypeOK, Return
  <2>2. pc'[r] = IF todo'[r] = {} THEN "idle" ELSE "run"
    BY <1>1, <2>1 DEF TypeOK, Return
  <2>3. unit'[r] = 1
    BY DEF TypeOK, Return
  <2>4. Deployed' = Deployed
    BY DEF Deployed
  <2>5. \A q \in Runs : todo'[q] = {} => pc'[q] = "idle"
    BY <2>1, <2>2 DEF WorkInv
  <2>6. \A q \in Runs : pc'[q] = "idle" => todo'[q] = {}
    BY <2>1, <2>2 DEF WorkInv
  <2>7. \A q \in Runs : pc'[q] # "idle" => Deployed \subseteq recorded' \cup todo'[q]
    BY <2>1, <2>2 DEF WorkInv
  <2>8. ASSUME NEW q \in Runs, NEW g \in Files, At(q, g)'
        PROVE  /\ pc'[q] = "run" => unit'[q] <= Units[g] /\ applied[g] >= unit'[q] - 1
               /\ pc'[q] = "record" => InForce(g)
    <3>1. CASE q = r
      BY <2>2, <2>3, <3>1, UnitsAssumption DEF TypeOK
    <3>2. CASE q # r
      <4>1. At(q, g)
        BY <2>1, <2>8, <3>2 DEF At
      <4> QED BY <2>1, <3>2, <4>1 DEF WorkInv
    <3> QED BY <3>1, <3>2
  <2> QED BY <2>4, <2>5, <2>6, <2>7, <2>8 DEF WorkInv, InForce
<1>5. RecordedInForce'
  BY <1>2 DEF RecordedInForce, InForce
<1>6. NoGaps'
  <2>1. ASSUME NEW g \in Files, g < f PROVE g \in recorded
    <3>1. g \in Deployed
      BY <1>1, <2>1 DEF Deployed, Files, TypeOK
    <3> QED BY <1>1, <2>1, <3>1 DEF WorkInv
  <2> QED BY <2>1 DEF NoGaps
<1> QED BY <1>3, <1>4, <1>5, <1>6

\* The server that stops takes its runs with it.
LEMMA StopInv ==
  ASSUME Inv, Stop, UNCHANGED <<applied, recorded, overlapped, interrupted>>,
         deployed' \in Files, deployed' >= deployed, failures' \in Nat, crashes' \in Nat
  PROVE  Inv'
<1> USE DEF Inv
<1>1. Deployed \subseteq Deployed'
  BY DEF TypeOK, Deployed, Files
<1>2. TypeOK'
  <2>1. recorded' \subseteq Deployed'
    BY <1>1 DEF TypeOK
  <2>2. todo' \in [Runs -> SUBSET Deployed'] /\ unit' \in [Runs -> Nat \ {0}]
    BY DEF Stop
  <2>3. pc' \in [Runs -> {"idle", "run", "record"}] /\ up' \in BOOLEAN
    BY DEF Stop
  <2> QED BY <2>1, <2>2, <2>3 DEF TypeOK
<1>3. WorkInv'
  BY <1>1 DEF WorkInv, Stop, At
<1>4. RecordedInForce' /\ NoGaps'
  BY DEF RecordedInForce, NoGaps, InForce
<1> QED BY <1>2, <1>3, <1>4

LEMMA BaselineInv ==
  ASSUME Inv, Baseline
  PROVE  Inv'
<1> USE DEF Inv, runners, counters
<1>1. TypeOK'
  BY DEF TypeOK, Baseline, Deployed
<1>2. WorkInv'
  BY DEF WorkInv, Baseline, Deployed, At, InForce
<1>3. RecordedInForce'
  BY DEF RecordedInForce, Baseline, InForce
<1>4. NoGaps'
  BY NewestAssumption DEF NoGaps, Baseline, Deployed, Files, TypeOK
<1> QED BY <1>1, <1>2, <1>3, <1>4

THEOREM NextInv == Inv /\ [Next]_vars => Inv'
<1> SUFFICES ASSUME Inv, [Next]_vars PROVE Inv'
  OBVIOUS
<1>1. ASSUME NEW r \in Runs, Start(r) PROVE Inv'
  BY <1>1, StartInv
<1>2. ASSUME NEW r \in Runs, Run(r) PROVE Inv'
  BY <1>2, RunInv
<1>3. ASSUME NEW r \in Runs, Refused(r) \/ Duplicate(r) \/ Fail(r) PROVE Inv'
  <2>1. Return(r) /\ UNCHANGED schema
    BY <1>3 DEF Refused, Duplicate, Fail
  <2>2. failures' \in Nat /\ crashes' \in Nat
    <3>1. failures' \in {failures, failures + 1} /\ crashes' = crashes
      BY <1>3 DEF Refused, Duplicate, Fail, counters
    <3> QED BY <3>1 DEF Inv, TypeOK
  <2>3. interrupted' \in BOOLEAN /\ overlapped' \in BOOLEAN
    BY <1>3 DEF Refused, Duplicate, Fail, Inv, TypeOK
  <2> QED BY <2>1, <2>2, <2>3, ReturnInv
<1>4. ASSUME NEW r \in Runs, Record(r) PROVE Inv'
  BY <1>4, RecordInv
<1>5. CASE Crash
  <2>1. crashes' \in Nat /\ failures' \in Nat /\ deployed' \in Files /\ deployed' >= deployed
    BY <1>5 DEF Crash, Inv, TypeOK, schema, Files
  <2> QED BY <1>5, <2>1, StopInv DEF Crash, schema
<1>6. CASE Deploy
  <2>1. crashes' \in Nat /\ failures' \in Nat /\ deployed' \in Files /\ deployed' >= deployed
    BY <1>6, NewestAssumption DEF Deploy, Inv, TypeOK, counters, Files
  <2> QED BY <1>6, <2>1, StopInv DEF Deploy
<1>7. CASE Baseline
  BY <1>7, BaselineInv
<1>8. CASE UNCHANGED vars
  BY <1>8 DEF vars, schema, runners, counters, Inv, TypeOK, WorkInv, RecordedInForce, NoGaps,
              InForce, At, Deployed
<1> QED BY <1>1, <1>2, <1>3, <1>4, <1>5, <1>6, <1>7, <1>8 DEF Next

LEMMA AlwaysInv == Spec => []Inv
BY InitInv, NextInv, PTL DEF Spec

\* Every variable keeps its type, whatever the files, the runs and their deaths.
THEOREM TypeCorrect == Spec => []TypeOK
BY AlwaysInv, PTL DEF Inv

\* What is recorded is in force, and what has begun stands on what is in force.
THEOREM RecordsHold == Spec => []RecordedInForce
BY AlwaysInv, PTL DEF Inv

\* The recorded names are the first ones.
THEOREM NamesInOrder == Spec => []NoGaps
BY AlwaysInv, PTL DEF Inv
-----------------------------------------------------------------------------
(* What is recorded does not run again. *)

LEMMA LoneStep == Inv /\ LoneInv /\ [Next]_vars => LoneInv'
<1> SUFFICES ASSUME Inv, LoneInv, [Next]_vars, ~overlapped' PROVE LoneInv'
  BY DEF LoneInv
<1> USE DEF Inv
<1>1. ~overlapped
  BY DEF Next, Start, Run, Refused, Record, Duplicate, Fail, Crash, Deploy, Baseline, vars
<1>2. /\ \A r, q \in Runs : Busy(r) /\ Busy(q) => r = q
      /\ \A r \in Runs : todo[r] \cap recorded = {}
  BY <1>1 DEF LoneInv
<1>3. ASSUME NEW r \in Runs, Start(r) PROVE LoneInv'
  <2>1. Idle /\ UNCHANGED recorded
    BY <1>1, <1>3 DEF Start, schema
  <2>2. /\ \A q \in Runs : q # r => pc'[q] = "idle" /\ todo'[q] = {}
        /\ todo'[r] \cap recorded = {}
    BY <1>3, <2>1 DEF Start, Return, Idle, Busy, TypeOK, WorkInv
  <2> QED BY <2>1, <2>2 DEF LoneInv, Busy
<1>4. ASSUME NEW r \in Runs, Run(r) PROVE LoneInv'
  <2>1. /\ pc[r] = "run" /\ UNCHANGED <<recorded, todo>>
        /\ \A q \in Runs : q # r => pc'[q] = pc[q]
    BY <1>4 DEF Run, TypeOK
  <2> QED BY <1>2, <2>1 DEF LoneInv, Busy
<1>5. ASSUME NEW r \in Runs, Refused(r) \/ Duplicate(r) \/ Fail(r) PROVE LoneInv'
  <2>1. Return(r) /\ UNCHANGED recorded
    BY <1>5 DEF Refused, Duplicate, Fail, schema
  <2>2. \A q \in Runs : /\ pc'[q] # "idle" => pc[q] # "idle"
                        /\ todo'[q] \subseteq todo[q]
    BY <2>1 DEF Return, TypeOK
  <2> QED BY <1>2, <2>1, <2>2 DEF LoneInv, Busy
<1>6. ASSUME NEW r \in Runs, Record(r) PROVE LoneInv'
  <2> PICK f \in Files :
        /\ pc[r] = "record" /\ recorded' = recorded \cup {f}
        /\ todo'[r] = todo[r] \ {f}
        /\ \A q \in Runs : q # r => pc'[q] = pc[q] /\ todo'[q] = todo[q]
    <3> PICK f \in Files :
          /\ pc[r] = "record" /\ At(r, f) /\ f \notin recorded
          /\ recorded' = recorded \cup {f}
          /\ IF todo[r] = {f}
             THEN Return(r)
             ELSE /\ pc' = [pc EXCEPT ![r] = "run"]
                  /\ todo' = [todo EXCEPT ![r] = @ \ {f}]
                  /\ unit' = [unit EXCEPT ![r] = 1]
                  /\ UNCHANGED up
          /\ UNCHANGED <<deployed, applied, counters, interrupted, overlapped>>
      BY <1>6 DEF Record
    <3>1. CASE todo[r] = {f}
      BY <3>1 DEF Return, TypeOK
    <3>2. CASE todo[r] # {f}
      BY <3>2 DEF TypeOK
    <3> QED BY <3>1, <3>2
  <2>1. \A q \in Runs : q # r => pc'[q] = "idle" /\ todo'[q] = {}
    BY <1>2 DEF Busy, WorkInv
  <2>2. \A q \in Runs : todo'[q] \cap recorded' = {}
    BY <1>2, <2>1
  <2> QED BY <2>1, <2>2 DEF LoneInv, Busy
<1>7. CASE Crash \/ Deploy
  <2>1. Stop /\ UNCHANGED recorded
    BY <1>7 DEF Crash, Deploy, schema
  <2> QED BY <2>1 DEF LoneInv, Stop, Busy
<1>8. CASE Baseline
  <2>1. Idle /\ UNCHANGED <<pc, todo>>
    BY <1>1, <1>8 DEF Baseline, runners
  <2>2. \A q \in Runs : pc[q] = "idle" /\ todo[q] = {}
    BY <2>1 DEF Idle, Busy, WorkInv
  <2> QED BY <2>1, <2>2 DEF LoneInv, Busy
<1>9. CASE UNCHANGED vars
  BY <1>2, <1>9 DEF vars, schema, runners, LoneInv, Busy
<1> QED BY <1>3, <1>4, <1>5, <1>6, <1>7, <1>8, <1>9 DEF Next

\* A run whose file another has recorded keeps what it holds or returns.
LEMMA OvertakenKeeps ==
  ASSUME Inv, [Next]_vars, NEW r \in Runs, NEW f \in recorded, At(r, f)
  PROVE  todo'[r] \in {todo[r], {}}
<1> USE DEF Inv
<1>1. f \in Files /\ f \in todo[r] /\ pc[r] # "idle"
  BY KnownFiles DEF At, WorkInv
<1>2. ASSUME NEW q \in Runs, Return(q) PROVE todo'[r] \in {todo[r], {}}
  BY <1>2 DEF Return, TypeOK
<1>3. ASSUME NEW q \in Runs, Start(q) PROVE todo'[r] = todo[r] \/ Return(q)
  BY <1>1, <1>3 DEF Start, Busy, TypeOK
<1>4. ASSUME NEW q \in Runs, Record(q) PROVE todo'[r] = todo[r] \/ Return(q)
  <2>1. PICK g \in Files :
          /\ At(q, g) /\ g \notin recorded
          /\ Return(q) \/ todo' = [todo EXCEPT ![q] = @ \ {g}]
    BY <1>4 DEF Record
  <2>2. q # r
    BY <1>1, <2>1, AtOne
  <2> QED BY <2>1, <2>2 DEF TypeOK
<1>5. ASSUME NEW q \in Runs, Run(q) PROVE UNCHANGED todo
  BY <1>5 DEF Run
<1>6. ASSUME NEW q \in Runs, Refused(q) \/ Duplicate(q) \/ Fail(q) PROVE Return(q)
  BY <1>6 DEF Refused, Duplicate, Fail
<1>7. CASE Crash \/ Deploy
  BY <1>7 DEF Crash, Deploy, Stop
<1>8. CASE Baseline \/ UNCHANGED vars
  BY <1>8 DEF Baseline, vars, runners
<1> QED BY <1>2, <1>3, <1>4, <1>5, <1>6, <1>7, <1>8 DEF Next

\* A recorded file runs again only in a run that two under way together overtook,
\* which goes on to no other: whatever fails, dies, is deployed or is baselined.
THEOREM RecordedAreOver == Spec => RecordedIsOver
<1> DEFINE Over == \A r \in Runs : \A f \in recorded :
        At(r, f) => overlapped /\ todo'[r] \in {todo[r], {}}
<1>1. Init => LoneInv
  BY DEF Init, LoneInv, Busy
<1>2. ASSUME Inv, LoneInv, [Next]_vars PROVE Over
  <2> SUFFICES ASSUME NEW r \in Runs, NEW f \in recorded, At(r, f)
               PROVE  overlapped /\ todo'[r] \in {todo[r], {}}
    OBVIOUS
  <2>1. overlapped
    BY <1>2 DEF LoneInv, At
  <2> QED BY <1>2, <2>1, OvertakenKeeps
<1>3. Inv /\ LoneInv /\ [Next]_vars => [Over]_vars
  BY <1>2
<1> QED BY AlwaysInv, LoneStep, <1>1, <1>3, PTL DEF Spec, RecordedIsOver

-----------------------------------------------------------------------------
(* What racing runs leave behind. *)

\* While runs that nothing interrupts are under way and files are pending, one
\* of them holds none that another has recorded: it is ahead of the others.
Ahead(r) == Busy(r) /\ todo[r] \cap recorded = {}
AheadInv == ~interrupted /\ (up \/ ~Idle) => UpToDate \/ Held \/ \E r \in Runs : Ahead(r)

\* The files before the one a run is at are recorded.
LEMMA OlderRecorded ==
  ASSUME Inv, NEW r \in Runs, NEW f \in Files, At(r, f)
  PROVE  f \in Deployed /\ \A g \in Files : g < f => g \in recorded
<1> USE DEF Inv
<1>1. f \in Deployed /\ f \in todo[r] /\ \A g \in Files : g < f => g \notin todo[r]
  BY AtOne
<1>2. ASSUME NEW g \in Files, g < f PROVE g \in Deployed
  BY <1>1, <1>2 DEF Deployed, Files, TypeOK
<1> QED BY <1>1, <1>2 DEF WorkInv

\* A run at an unrecorded file is ahead.
LEMMA AtUnrecorded ==
  ASSUME Inv, NEW r \in Runs, NEW f \in Files, At(r, f), f \notin recorded
  PROVE  Ahead(r)
<1> USE DEF Inv
<1>1. todo[r] \subseteq Files /\ recorded \subseteq Files
  BY KnownFiles DEF TypeOK
<1>2. ASSUME NEW g \in todo[r], g \in recorded PROVE FALSE
  <2>1. f <= g /\ f # g /\ f \in Nat /\ g \in Nat
    BY <1>1, <1>2, NewestAssumption DEF At, Files
  <2>2. f < g
    BY <2>1
  <2> QED BY <1>2, <2>2 DEF NoGaps
<1>3. Busy(r)
  BY DEF At, Busy, WorkInv
<1> QED BY <1>2, <1>3 DEF Ahead

LEMMA AheadStep == Inv /\ AheadInv /\ [Next]_vars => AheadInv'
<1> SUFFICES ASSUME Inv, AheadInv, [Next]_vars, ~interrupted', up' \/ ~Idle'
             PROVE  UpToDate' \/ Held' \/ \E r \in Runs : Ahead(r)'
  BY DEF AheadInv
<1> USE DEF Inv
<1>1. ASSUME NEW r \in Runs, Start(r) PROVE UpToDate' \/ Ahead(r)'
  <2>1. CASE Deployed \subseteq recorded
    BY <1>1, <2>1 DEF Start, schema, UpToDate, Deployed
  <2>2. CASE ~(Deployed \subseteq recorded)
    BY <1>1, <2>2 DEF Start, schema, Ahead, Busy, TypeOK
  <2> QED BY <2>1, <2>2
<1>2. ASSUME NEW r \in Runs, Record(r) PROVE UpToDate' \/ Ahead(r)'
  <2> PICK f \in Files :
        /\ pc[r] = "record" /\ At(r, f) /\ f \notin recorded
        /\ recorded' = recorded \cup {f}
        /\ todo[r] # {f} => /\ pc' = [pc EXCEPT ![r] = "run"]
                            /\ todo' = [todo EXCEPT ![r] = @ \ {f}]
        /\ UNCHANGED deployed
    BY <1>2 DEF Record
  <2>1. todo[r] \cap recorded = {}
    BY AtUnrecorded DEF Ahead
  <2>2. CASE todo[r] = {f}
    BY <2>2 DEF WorkInv, UpToDate, Deployed
  <2>3. CASE todo[r] # {f}
    BY <2>1, <2>3 DEF Ahead, Busy, TypeOK
  <2> QED BY <2>2, <2>3
<1>3. CASE Baseline
  BY <1>3 DEF Baseline, UpToDate, Deployed
<1>4. CASE Crash \/ Deploy
  BY <1>4 DEF Crash, Deploy, Stop, Idle, Busy
<1> SUFFICES ASSUME ~interrupted /\ (up \/ ~Idle),
                    UNCHANGED <<deployed, recorded>>,
                    \A f \in Files : applied'[f] >= applied[f],
                    \/ \E r \in Runs : Run(r) \/ Refused(r) \/ Duplicate(r)
                    \/ UNCHANGED vars
             PROVE  UpToDate' \/ Held' \/ \E r \in Runs : Ahead(r)'
  <2>1. ASSUME NEW r \in Runs, Run(r)
        PROVE  /\ Busy(r) /\ UNCHANGED <<deployed, recorded, interrupted>>
               /\ \A f \in Files : applied'[f] >= applied[f]
    <3>1. Busy(r) /\ UNCHANGED <<deployed, recorded, interrupted>>
      BY <2>1 DEF Run, Busy
    <3>2. PICK f \in Files :
            applied' = [applied EXCEPT ![f] = IF @ < unit[r] THEN unit[r] ELSE @]
      BY <2>1 DEF Run
    <3>3. \A g \in Files : applied[g] \in Nat /\ unit[r] \in Nat
      BY DEF TypeOK
    <3>4. \A g \in Files : applied'[g] = IF g = f /\ applied[f] < unit[r] THEN unit[r] ELSE applied[g]
      BY <3>2 DEF TypeOK
    <3> QED BY <3>1, <3>3, <3>4
  <2>2. ASSUME NEW r \in Runs, Refused(r) \/ Duplicate(r)
        PROVE  Busy(r) /\ UNCHANGED <<deployed, recorded, applied, interrupted>>
    BY <2>2 DEF Refused, Duplicate, Busy, schema
  <2>3. CASE UNCHANGED vars
    <3>1. UNCHANGED <<deployed, recorded, applied, up, pc, interrupted>>
      BY <2>3 DEF vars, schema, runners
    <3> QED BY <2>3, <3>1 DEF Idle, Busy, TypeOK
  <2>4. ASSUME NEW r \in Runs, Fail(r) PROVE FALSE
    BY <2>4 DEF Fail
  <2>5. \A f \in Files : applied[f] >= applied[f]
    BY DEF TypeOK
  <2> QED BY <1>1, <1>2, <1>3, <1>4, <2>1, <2>2, <2>3, <2>4, <2>5 DEF Next, Idle
<1>5. UpToDate => UpToDate'
  BY DEF UpToDate, Deployed
<1>6. ASSUME Held PROVE Held'
  <2> PICK f \in Deployed \ recorded :
        /\ \A g \in Files : g < f => g \in recorded
        /\ \E k \in 1..applied[f] : <<f, k>> \notin Repeatable
    BY <1>6 DEF Held
  <2> PICK k \in 1..applied[f] : <<f, k>> \notin Repeatable
    OBVIOUS
  <2>1. f \in Files /\ applied[f] \in Nat /\ applied'[f] >= applied[f]
    BY KnownFiles DEF TypeOK
  <2>2. applied'[f] \in Nat
    BY <2>1, NextInv DEF TypeOK
  <2>3. k \in 1..applied'[f]
    BY <2>1, <2>2
  <2> QED BY <2>3 DEF Held, Deployed
<1>7. ASSUME NEW w \in Runs, Ahead(w)
      PROVE  Held' \/ \E r \in Runs : Ahead(r)'
  <2>1. ASSUME NEW r \in Runs, Run(r) PROVE Ahead(w)'
    <3>1. UNCHANGED todo /\ (pc' = pc \/ pc' = [pc EXCEPT ![r] = "record"])
      BY <2>1 DEF Run
    <3> QED BY <1>7, <3>1 DEF Ahead, Busy, TypeOK
  <2>2. ASSUME NEW r \in Runs, r # w, Return(r) PROVE Ahead(w)'
    BY <1>7, <2>2 DEF Ahead, Busy, Return, TypeOK
  <2>3. ASSUME NEW r \in Runs, Duplicate(r) PROVE Ahead(w)'
    <3>1. r # w
      BY <1>7, <2>3 DEF Duplicate, Ahead, At
    <3> QED BY <2>2, <2>3, <3>1 DEF Duplicate
  <2>4. ASSUME NEW r \in Runs, Refused(r) PROVE Held' \/ \E q \in Runs : Ahead(q)'
    <3> PICK f \in Files :
          /\ At(r, f) /\ applied[f] >= unit[r] /\ Return(r)
          /\ <<f, unit[r]>> \notin Repeatable \/ \E q \in Runs \ {r} : At(q, f)
          /\ UNCHANGED schema
      BY <2>4 DEF Refused
    <3>1. CASE r # w
      BY <2>2, <3>1
    <3>2. CASE r = w /\ \E q \in Runs \ {r} : At(q, f)
      <4>1. PICK q \in Runs \ {r} : At(q, f)
        BY <3>2
      <4>2. f \notin recorded
        BY <1>7, <3>2 DEF Ahead, At
      <4>3. Ahead(q)
        BY <4>1, <4>2, AtUnrecorded
      <4> QED BY <4>1, <4>3 DEF Ahead, Busy, Return, TypeOK
    <3>3. CASE r = w /\ <<f, unit[r]>> \notin Repeatable
      <4>1. f \in Deployed \ recorded /\ \A g \in Files : g < f => g \in recorded
        BY <1>7, <3>3, OlderRecorded DEF Ahead, At
      <4>2. unit[r] \in 1..applied[f]
        BY DEF TypeOK
      <4>3. Held
        BY <3>3, <4>1, <4>2 DEF Held
      <4> QED BY <1>6, <4>3
    <3> QED BY <3>1, <3>2, <3>3
  <2>5. CASE UNCHANGED vars
    BY <1>7, <2>5 DEF vars, schema, runners, Ahead, Busy
  <2> QED BY <2>1, <2>3, <2>4, <2>5
<1> QED BY <1>5, <1>6, <1>7 DEF AheadInv

\* Runs that nothing interrupts leave nothing pending, or a next file that is in
\* force in part and does not repeat, however they raced.
THEOREM RacesComplete == Spec => []CompleteOrHeld
<1>1. Init => AheadInv
  BY DEF Init, AheadInv, Idle, Busy
<1>2. Inv /\ AheadInv => CompleteOrHeld
  BY DEF AheadInv, CompleteOrHeld, Ahead, Idle
<1> QED BY AlwaysInv, AheadStep, <1>1, <1>2, PTL DEF Spec

-----------------------------------------------------------------------------
(* The refinement. *)

LEMMA LedgerInit == Init => Ledger!Init
<1> SUFFICES ASSUME Init PROVE Ledger!Init
  OBVIOUS
<1> USE NewestAssumption, UnitsAssumption
<1>1. CASE applied = [f \in Files |-> 0]
  <2>1. {f \in Files : InForce(f)} = 1..0
    BY <1>1 DEF InForce, Files
  <2> QED BY <2>1 DEF Init, Ledger!Init
<1>2. CASE applied = [f \in Files |-> IF f <= deployed THEN Units[f] ELSE 0]
  <2>1. \A f \in Files : InForce(f) <=> f <= deployed
    BY <1>2 DEF InForce
  <2>2. {f \in Files : InForce(f)} = 1..deployed /\ deployed \in 0..Newest
    BY <2>1 DEF Init, Files
  <2> QED BY <2>2 DEF Init, Ledger!Init
<1> QED BY <1>1, <1>2 DEF Init

LEMMA LedgerStep == Inv /\ [Next]_vars => [Ledger!Next]_<<{f \in Files : InForce(f)}, recorded>>
<1> SUFFICES ASSUME Inv, [Next]_vars
             PROVE  Ledger!Next \/ UNCHANGED <<{f \in Files : InForce(f)}, recorded>>
  OBVIOUS
<1> USE DEF Inv
<1> DEFINE Whole == {f \in Files : InForce(f)}
<1>1. ASSUME UNCHANGED applied PROVE UNCHANGED Whole
  BY <1>1 DEF InForce
<1>2. ASSUME NEW r \in Runs, NEW f \in Files, pc[r] # "idle", At(r, f)
      PROVE  1..(f - 1) \subseteq recorded
  <2>1. ASSUME NEW g \in 1..(f - 1) PROVE g \in recorded
    <3>1. f \in Deployed /\ \A h \in Files : h < f => h \notin todo[r]
      BY <1>2, AtOne
    <3>2. g \in Deployed /\ g \in Nat /\ g < f
      BY <3>1 DEF Deployed, Files, TypeOK
    <3>3. g \notin todo[r]
      BY <3>1, <3>2, KnownFiles
    <3> QED BY <1>2, <3>2, <3>3 DEF WorkInv
  <2> QED BY <2>1
<1>3. ASSUME NEW r \in Runs, Run(r) PROVE Ledger!Next \/ UNCHANGED <<Whole, recorded>>
  <2> PICK f \in Files :
        /\ pc[r] = "run" /\ At(r, f)
        /\ applied' = [applied EXCEPT ![f] = IF @ < unit[r] THEN unit[r] ELSE @]
        /\ UNCHANGED recorded
    BY <1>3 DEF Run
  <2>1. \A g \in Files : applied'[g] = IF g = f /\ applied[f] < unit[r] THEN unit[r] ELSE applied[g]
    BY DEF TypeOK
  <2>2. unit[r] <= Units[f] /\ unit[r] \in Nat /\ applied[f] \in Nat /\ Units[f] \in Nat
    BY UnitsAssumption DEF WorkInv, TypeOK
  <2>3. CASE ~InForce(f) /\ unit[r] = Units[f]
    <3>1. applied[f] < unit[r]
      BY <2>2, <2>3 DEF InForce, TypeOK
    <3>2. Whole' = Whole \cup {f} /\ f \notin Whole
      BY <2>1, <2>3, <3>1 DEF InForce
    <3>3. Ledger!Apply(f)
      BY <1>2, <3>2 DEF Ledger!Apply, Ledger!Older
    <3> QED BY <3>3 DEF Ledger!Next, Files
  <2>4. CASE InForce(f) \/ unit[r] # Units[f]
    <3>1. \A g \in Files : (applied'[g] = Units[g]) <=> (applied[g] = Units[g])
      BY <2>1, <2>2, <2>4 DEF InForce
    <3> QED BY <3>1 DEF InForce
  <2> QED BY <2>3, <2>4
<1>4. ASSUME NEW r \in Runs, Record(r) PROVE Ledger!Next
  <2> PICK f \in Files : /\ pc[r] = "record" /\ At(r, f) /\ f \notin recorded
                        /\ recorded' = recorded \cup {f} /\ UNCHANGED applied
    BY <1>4 DEF Record
  <2>1. f \in Whole \ recorded
    BY DEF WorkInv
  <2>2. Ledger!Record(f)
    BY <1>1, <1>2, <2>1 DEF Ledger!Record, Ledger!Older
  <2> QED BY <2>2 DEF Ledger!Next, Files
<1>5. CASE Baseline
  <2>1. Whole = Deployed
    BY <1>5, KnownFiles, UnitsAssumption DEF Baseline, InForce, WorkInv
  <2>2. recorded' = Deployed /\ UNCHANGED applied
    BY <1>5 DEF Baseline, TypeOK
  <2>3. Ledger!RecordAll
    BY <1>1, <2>1, <2>2 DEF Ledger!RecordAll
  <2> QED BY <2>3 DEF Ledger!Next
<1>6. ASSUME UNCHANGED <<applied, recorded>> PROVE UNCHANGED <<Whole, recorded>>
  BY <1>1, <1>6
<1>7. ASSUME NEW r \in Runs, Start(r) \/ Refused(r) \/ Duplicate(r) \/ Fail(r)
      PROVE  UNCHANGED <<applied, recorded>>
  BY <1>7 DEF Start, Refused, Duplicate, Fail, schema
<1>8. CASE Crash \/ Deploy \/ UNCHANGED vars
  BY <1>6, <1>8 DEF Crash, Deploy, vars, schema
<1> QED BY <1>3, <1>4, <1>5, <1>6, <1>7, <1>8 DEF Next

\* Whatever runs race, fail or die, files come into force and are recorded in
\* the order of their names, one after the other.
THEOREM ImplementsTheLedger == Spec => ImplementsLedger
BY LedgerInit, LedgerStep, AlwaysInv, PTL DEF Spec, ImplementsLedger, Ledger!Spec
=============================================================================
