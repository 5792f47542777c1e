--------------------------- MODULE RequestGateProofs ---------------------------
(* Theorems about RequestGate, for every set of people, accounts and calls. *)
EXTENDS RequestGate, TLAPS

Waiting(c) == At(c, "expire")
Finding(c) == req[c].step \in {"email", "insert", "new_insert"}

\* A call that is about to send EXPIRE is the only one for its key, which it created.
ExpiryIsOwn ==
    \A c \in Calls : Waiting(c) =>
        /\ count[KeyOf(c)] > 0 /\ KeyOf(c) \notin lasting
        /\ \A d \in Calls : Waiting(d) /\ KeyOf(d) = KeyOf(c) => d = c

\* What a window counts and lets through.
Counted == \A k \in Keys : passed[k] <= count[k]

Windows == ExpiryIsOwn /\ Counted /\ WithinLimit /\ WindowsEnd

\* A call that has found no account, where there is one now, has been raced.
RaceIsKnown == \A c \in Calls : Finding(c) /\ CodeTaken(req[c].person) => req[c].person \in raced

Singles == RaceIsKnown /\ OneAccountUnlessRaced

Inv == TypeOK /\ Windows /\ Singles

-----------------------------------------------------------------------------
(* Types *)

LEMMA PolicyIsOne == \A kind, p : Policy(kind, p) \in Policies
  BY DEF Policy, Policies

LEMMA ArrivingIsRequest ==
  ASSUME NEW step \in Steps, NEW kind \in Kinds, NEW p \in People
  PROVE  /\ Arriving(step, kind, p) \in Request
         /\ Arriving(step, kind, p).step = step
         /\ Arriving(step, kind, p).person = p
         /\ Arriving(step, kind, p).policy = Policy(kind, p)
<1>1. Policy(kind, p) \in Policies
  BY PolicyIsOne
<1>2. EmailOf[p] \in Emails \cup {NoEmail}
  BY EmailAssumption
<1> QED
  BY <1>1, <1>2 DEF Arriving, Idle, Request, Policies

LEMMA IdleIsRequest == Idle \in Request /\ Idle.step = "idle"
  BY DEF Idle, Request, Policies, Steps

LEMMA KeyIsKey ==
  ASSUME TypeOK, NEW c \in Calls, req[c].step # "idle"
  PROVE  KeyOf(c) \in Keys /\ req[c].person \in People
<1>1. req[c] \in Request /\ req[c].person # NoOne
  BY DEF TypeOK
<1> QED
  BY <1>1 DEF Request, KeyOf, Keys

\* A call's memory after a step, and that of the others.
LEMMA EnterMoves ==
  ASSUME TypeOK, NEW c \in Calls, NEW r \in Request,
         r.step # "idle" => r.person # NoOne, req' = [req EXCEPT ![c] = r]
  PROVE  /\ req' \in [Calls -> Request]
         /\ req'[c] = r
         /\ \A d \in Calls \ {c} : req'[d] = req[d]
         /\ \A d \in Calls : req'[d].step # "idle" => req'[d].person # NoOne
<1>1. req \in [Calls -> Request] /\ \A d \in Calls : req[d].step # "idle" => req[d].person # NoOne
  BY DEF TypeOK
<1>2. req' \in [Calls -> Request] /\ req'[c] = r /\ \A d \in Calls \ {c} : req'[d] = req[d]
  BY <1>1
<1> QED
  BY <1>1, <1>2

LEMMA AnswerMoves ==
  ASSUME TypeOK, NEW c \in Calls, Answer(c)
  PROVE  /\ req' \in [Calls -> Request]
         /\ req'[c] = Idle
         /\ \A d \in Calls \ {c} : req'[d] = req[d]
         /\ \A d \in Calls : req'[d].step # "idle" => req'[d].person # NoOne
  BY IdleIsRequest, EnterMoves DEF Answer

LEMMA GotoMoves ==
  ASSUME TypeOK, NEW c \in Calls, NEW step \in Steps, req[c].step # "idle", Goto(c, step)
  PROVE  /\ req' \in [Calls -> Request]
         /\ req'[c].step = step /\ req'[c].person = req[c].person
         /\ \A d \in Calls \ {c} : req'[d] = req[d]
         /\ \A d \in Calls : req'[d].step # "idle" => req'[d].person # NoOne
<1> DEFINE r == [req[c] EXCEPT !.step = step]
<1>1. req[c] \in Request /\ req[c].person # NoOne
  BY DEF TypeOK
<1>2. r \in Request /\ r.step = step /\ r.person = req[c].person
  BY <1>1 DEF Request
<1>3. req' = [req EXCEPT ![c] = r]
  BY DEF Goto
<1> QED
  BY <1>1, <1>2, <1>3, EnterMoves

LEMMA ServedMoves ==
  ASSUME TypeOK, NEW c \in Calls, NEW a \in Accounts, req[c].step # "idle",
         req' = [req EXCEPT ![c].step = "serve", ![c].account = a]
  PROVE  /\ req' \in [Calls -> Request]
         /\ req'[c].step = "serve"
         /\ \A d \in Calls \ {c} : req'[d] = req[d]
         /\ \A d \in Calls : req'[d].step # "idle" => req'[d].person # NoOne
<1> DEFINE r == [req[c] EXCEPT !.step = "serve", !.account = a]
<1>1. req[c] \in Request /\ req[c].person # NoOne
  BY DEF TypeOK
<1>2. r \in Request /\ r.step = "serve" /\ r.person = req[c].person
  BY <1>1 DEF Request, Steps
<1>3. req' = [req EXCEPT ![c] = r]
  BY <1>1 DEF TypeOK, Request
<1> QED
  BY <1>1, <1>2, <1>3, EnterMoves

-----------------------------------------------------------------------------
(* The windows of the rate limit *)

\* A step that touches no counter and leaves those that wait for EXPIRE.
LEMMA WindowsKept ==
  ASSUME TypeOK, Windows, UNCHANGED redis,
         \A d \in Calls : Waiting(d) \/ Waiting(d)' => req'[d] = req[d]
  PROVE  Windows'
<1>1. \A d \in Calls : Waiting(d)' <=> Waiting(d)
  BY DEF Waiting, At
<1>2. \A d \in Calls : Waiting(d) => KeyOf(d)' = KeyOf(d)
  BY DEF KeyOf
<1>3. count' = count /\ lasting' = lasting /\ passed' = passed /\ lost' = lost
  BY DEF redis
<1>4. ExpiryIsOwn'
  BY <1>1, <1>2, <1>3 DEF Windows, ExpiryIsOwn
<1>5. Counted' /\ WithinLimit'
  BY <1>3 DEF Windows, Counted, WithinLimit
<1>6. WindowsEnd'
  BY <1>1, <1>2, <1>3 DEF Windows, WindowsEnd, Waiting
<1> QED
  BY <1>4, <1>5, <1>6 DEF Windows

\* One call that waited no longer does, its key having a lifetime or being lost.
LEMMA WindowsSettled ==
  ASSUME TypeOK, Windows, NEW c \in Calls, Waiting(c), ~Waiting(c)',
         count' = count, passed' = passed,
         \A d \in Calls \ {c} : req'[d] = req[d],
         \/ lasting' = lasting \cup {KeyOf(c)} /\ lost' = lost
         \/ lasting' = lasting /\ lost' = lost \cup {KeyOf(c)}
  PROVE  Windows' /\ \A k \in lasting' : count'[k] > 0
<1>1. \A d \in Calls \ {c} : (Waiting(d)' <=> Waiting(d)) /\ KeyOf(d)' = KeyOf(d)
  BY DEF Waiting, At, KeyOf
<1>2. ExpiryIsOwn
  BY DEF Windows
<1>3. \A d \in Calls : Waiting(d)' => d # c
  OBVIOUS
<1>4. ExpiryIsOwn'
  <2> SUFFICES ASSUME NEW d \in Calls, Waiting(d)'
               PROVE  /\ count'[KeyOf(d)'] > 0 /\ KeyOf(d)' \notin lasting'
                      /\ \A x \in Calls : Waiting(x)' /\ KeyOf(x)' = KeyOf(d)' => x = d
    BY DEF ExpiryIsOwn
  <2>1. d # c /\ Waiting(d) /\ KeyOf(d)' = KeyOf(d)
    BY <1>1, <1>3
  <2>2. KeyOf(d) # KeyOf(c)
    BY <1>2, <2>1 DEF ExpiryIsOwn
  <2>3. count[KeyOf(d)] > 0 /\ KeyOf(d) \notin lasting
    BY <1>2, <2>1 DEF ExpiryIsOwn
  <2>4. \A x \in Calls : Waiting(x)' /\ KeyOf(x)' = KeyOf(d)' => x = d
    BY <1>1, <1>2, <1>3, <2>1 DEF ExpiryIsOwn
  <2> QED
    BY <2>1, <2>2, <2>3, <2>4
<1>5. Counted' /\ WithinLimit'
  BY DEF Windows, Counted, WithinLimit
<1>6. WindowsEnd'
  <2> SUFFICES ASSUME NEW k \in Keys, count[k] > 0, k \notin lost', k \notin lasting'
               PROVE  \E d \in Calls : Waiting(d)' /\ KeyOf(d)' = k
    BY DEF WindowsEnd, Waiting
  <2>1. k \notin lost /\ k \notin lasting /\ k # KeyOf(c)
    OBVIOUS
  <2>2. PICK d \in Calls : Waiting(d) /\ KeyOf(d) = k
    BY <2>1 DEF Windows, WindowsEnd, Waiting
  <2> QED
    BY <1>1, <2>1, <2>2
<1>7. \A k \in lasting' : count'[k] > 0
  BY <1>2 DEF TypeOK, ExpiryIsOwn
<1> QED
  BY <1>4, <1>5, <1>6, <1>7 DEF Windows

-----------------------------------------------------------------------------
(* The accounts *)

\* A step that touches no account and starts no call past its search but where there
\* was nothing to find.
LEMMA SinglesKept ==
  ASSUME Singles, user' = user, raced' = raced,
         \A d \in Calls : Finding(d)' => \/ Finding(d) /\ req'[d].person = req[d].person
                                         \/ ~CodeTaken(req'[d].person)
  PROVE  Singles'
<1>1. \A p : CodeTaken(p)' <=> CodeTaken(p)
  BY DEF CodeTaken
<1>2. RaceIsKnown'
  BY <1>1 DEF Singles, RaceIsKnown, CodeTaken
<1>3. OneAccountUnlessRaced'
  BY DEF Singles, OneAccountUnlessRaced, Stored
<1> QED
  BY <1>2, <1>3 DEF Singles

\* The insertion that a call makes, having found no account.
LEMMA InsertKeeps ==
  ASSUME TypeOK, Singles, NEW c \in Calls, Finding(c), NEW a \in Accounts,
         NEW e \in Emails \cup {NoEmail}, Insert(c, req[c].person, e, a),
         ~Finding(c)', \A d \in Calls \ {c} : req'[d] = req[d]
  PROVE  Singles' /\ user' \in [Accounts -> Row] /\ raced' \subseteq People
<1> DEFINE p == req[c].person
           row == [code |-> p, email |-> e, active |-> TRUE]
<1>1. p \in People
  BY KeyIsKey DEF Finding
<1>2. row \in Row
  BY <1>1 DEF Row
<1>3. user' = [user EXCEPT ![a] = row] /\ ~Stored(a) /\ user \in [Accounts -> Row]
  BY DEF Insert, TypeOK
<1>4. user' \in [Accounts -> Row] /\ user'[a] = row /\ \A b \in Accounts \ {a} : user'[b] = user[b]
  BY <1>2, <1>3
<1>5. raced' \subseteq People /\ raced \subseteq raced' /\ (Rivals(c, p) => p \in raced')
  BY <1>1 DEF Insert, TypeOK
<1>6. CodeTaken(p) => p \in raced
  BY DEF Singles, RaceIsKnown
<1>7. RaceIsKnown'
  <2> SUFFICES ASSUME NEW d \in Calls, Finding(d)', CodeTaken(req[d].person)'
               PROVE  req'[d].person \in raced'
    BY DEF RaceIsKnown
  <2>1. d # c /\ req'[d] = req[d] /\ Finding(d)
    BY DEF Finding
  <2>2. CASE req[d].person = p
    <3>1. Rivals(c, p)
      BY <2>1, <2>2 DEF Rivals, Finding
    <3> QED
      BY <1>5, <2>1, <2>2, <3>1
  <2>3. CASE req[d].person # p
    <3>1. PICK b \in Accounts : user'[b].code = req[d].person
      BY <2>1 DEF CodeTaken
    <3>2. b # a
      BY <1>4, <2>3, <3>1
    <3>3. CodeTaken(req[d].person)
      BY <1>4, <3>1, <3>2 DEF CodeTaken
    <3> QED
      BY <1>5, <2>1, <3>3 DEF Singles, RaceIsKnown
  <2> QED
    BY <2>2, <2>3
<1>8. OneAccountUnlessRaced'
  <2> SUFFICES ASSUME NEW x \in Accounts, NEW y \in Accounts,
                      user'[x].code # NoOne, user'[x].code = user'[y].code, x # y
               PROVE  user'[x].code \in raced'
    BY DEF OneAccountUnlessRaced, Stored
  <2>1. CASE x # a /\ y # a
    BY <1>4, <1>5, <2>1 DEF Singles, OneAccountUnlessRaced, Stored
  <2>2. CASE x = a \/ y = a
    <3>1. PICK b \in Accounts \ {a} : user'[b].code = user'[a].code /\ user'[x].code = user'[a].code
      BY <2>2
    <3>2. user[b].code = p /\ user'[x].code = p
      BY <1>4, <3>1
    <3>3. p \in raced
      BY <1>6, <3>2 DEF CodeTaken
    <3> QED
      BY <1>5, <3>2, <3>3
  <2> QED
    BY <2>1, <2>2
<1> QED
  BY <1>4, <1>5, <1>7, <1>8 DEF Singles
-----------------------------------------------------------------------------
(* The steps *)

THEOREM InitInv == Init => Inv
<1> SUFFICES ASSUME Init PROVE Inv
  OBVIOUS
<1>1. NoRow \in Row /\ NoRow.code = NoOne
  BY DEF NoRow, Row
<1>2. \A c \in Calls : req[c] = Idle
  BY DEF Init
<1>3. TypeOK
  BY <1>1, IdleIsRequest DEF Init, TypeOK
<1>4. \A c \in Calls : ~Waiting(c) /\ ~Finding(c)
  BY <1>2, IdleIsRequest DEF Waiting, At, Finding
<1>5. \A k \in Keys : k[1] \in Policies
  BY DEF Keys
<1>6. Windows
  BY <1>4, <1>5, LimitAssumption DEF Init, Windows, ExpiryIsOwn, Counted, WithinLimit, WindowsEnd
<1>7. Singles
  BY <1>1, <1>4 DEF Init, Singles, RaceIsKnown, OneAccountUnlessRaced, Stored
<1> QED
  BY <1>3, <1>6, <1>7 DEF Inv

LEMMA CountStep ==
  ASSUME Inv, NEW c \in Calls, Count(c)
  PROVE  Inv'
<1>1. PICK kind \in Kinds, p \in People :
        LET k       == <<Policy(kind, p), p>>
            current == count[k] + 1
            through == current <= Limit[Policy(kind, p)]
        IN /\ count' = [count EXCEPT ![k] = current]
           /\ passed' = [passed EXCEPT ![k] = IF through THEN @ + 1 ELSE @]
           /\ IF through THEN Enter(c, Arriving(IF current = 1 THEN "expire" ELSE "code", kind, p))
                         ELSE UNCHANGED req
  BY DEF Count
<1> DEFINE k == <<Policy(kind, p), p>>
           through == count[k] + 1 <= Limit[k[1]]
           r == Arriving(IF count[k] + 1 = 1 THEN "expire" ELSE "code", kind, p)
<1>2. k \in Keys /\ Policy(kind, p) \in Policies
  BY PolicyIsOne DEF Keys
<1>3. r \in Request /\ r.person = p /\ r.policy = Policy(kind, p) /\ p # NoOne
      /\ r.step = (IF count[k] + 1 = 1 THEN "expire" ELSE "code")
  BY ArrivingIsRequest, NullAssumption DEF Steps
<1>4. UNCHANGED <<lasting, lost, user, failures, raced>> /\ requests' = requests + 1 /\ At(c, "idle")
  BY DEF Count
<1>5. TypeOK /\ count[k] \in Nat /\ passed[k] \in Nat /\ Limit[k[1]] \in Nat \ {0}
  BY <1>2, LimitAssumption DEF Inv, TypeOK
<1>6. /\ count' \in [Keys -> Nat] /\ count'[k] = count[k] + 1
      /\ \A x \in Keys \ {k} : count'[x] = count[x]
  BY <1>1, <1>2, <1>5 DEF TypeOK
<1>7. /\ passed' \in [Keys -> Nat] /\ passed'[k] = (IF through THEN passed[k] + 1 ELSE passed[k])
      /\ \A x \in Keys \ {k} : passed'[x] = passed[x]
  BY <1>1, <1>2, <1>5 DEF TypeOK
<1>8. IF through THEN req' = [req EXCEPT ![c] = r] ELSE req' = req
  BY <1>1 DEF Enter
<1>9. /\ req' \in [Calls -> Request]
      /\ \A d \in Calls \ {c} : req'[d] = req[d]
      /\ \A d \in Calls : req'[d].step # "idle" => req'[d].person # NoOne
      /\ IF through THEN req'[c] = r ELSE req'[c] = req[c]
  <2>1. CASE through
    BY <1>3, <1>5, <1>8, <2>1, EnterMoves
  <2>2. CASE ~through
    BY <1>5, <1>8, <2>2 DEF TypeOK
  <2> QED
    BY <2>1, <2>2
<1> HIDE DEF k, through, r
<1>10. \A x \in lasting : count[x] > 0 /\ x \in Keys
  BY <1>5 DEF TypeOK
<1>11. TypeOK'
  <2>1. requests' \in Nat /\ failures' \in Nat
    BY <1>4, <1>5 DEF TypeOK
  <2>2. \A x \in lasting' : count'[x] > 0
    BY <1>4, <1>5, <1>6, <1>10
  <2> QED
    BY <1>4, <1>5, <1>6, <1>7, <1>9, <2>1, <2>2 DEF TypeOK
<1>12. Waiting(c)' <=> through /\ count[k] = 0
  BY <1>3, <1>4, <1>5, <1>9 DEF Waiting, At
<1>13. Waiting(c)' => KeyOf(c)' = k
  BY <1>3, <1>9, <1>12 DEF KeyOf, k
<1>14. \A d \in Calls \ {c} : (Waiting(d)' <=> Waiting(d)) /\ KeyOf(d)' = KeyOf(d)
  BY <1>9 DEF Waiting, At, KeyOf
<1>15. ~Waiting(c)
  BY <1>4 DEF Waiting, At
<1>16. \A d \in Calls : Waiting(d) => KeyOf(d) \in Keys /\ count[KeyOf(d)] > 0 /\ KeyOf(d) \notin lasting
  BY <1>5, KeyIsKey DEF Inv, Windows, ExpiryIsOwn, Waiting, At
<1>17. ExpiryIsOwn'
  <2> SUFFICES ASSUME NEW d \in Calls, Waiting(d)'
               PROVE  /\ count'[KeyOf(d)'] > 0 /\ KeyOf(d)' \notin lasting'
                      /\ \A x \in Calls : Waiting(x)' /\ KeyOf(x)' = KeyOf(d)' => x = d
    BY DEF ExpiryIsOwn
  <2>1. CASE d = c
    <3>1. KeyOf(d)' = k /\ count[k] = 0
      BY <1>12, <1>13, <2>1
    <3>2. \A x \in Calls \ {c} : Waiting(x)' => KeyOf(x)' # k
      BY <1>14, <1>16, <3>1
    <3>3. k \notin lasting'
      BY <1>4, <1>10, <3>1
    <3> QED
      BY <1>5, <1>6, <2>1, <3>1, <3>2, <3>3
  <2>2. CASE d # c
    <3>1. Waiting(d) /\ KeyOf(d)' = KeyOf(d) /\ KeyOf(d) \in Keys
          /\ count[KeyOf(d)] > 0 /\ KeyOf(d) \notin lasting
      BY <1>14, <1>16, <2>2
    <3>2. count'[KeyOf(d)] > 0
      BY <1>5, <1>6, <3>1
    <3>3. \A x \in Calls : Waiting(x)' /\ KeyOf(x)' = KeyOf(d) => x = d
      <4> SUFFICES ASSUME NEW x \in Calls, Waiting(x)', KeyOf(x)' = KeyOf(d) PROVE x = d
        OBVIOUS
      <4>1. x # c
        BY <1>12, <1>13, <3>1
      <4> QED
        BY <1>14, <3>1, <4>1 DEF Inv, Windows, ExpiryIsOwn
    <3> QED
      BY <1>4, <3>1, <3>2, <3>3
  <2> QED
    BY <2>1, <2>2
<1>18. Counted' /\ WithinLimit'
  <2>1. passed[k] <= count[k]
    BY <1>2, <1>5 DEF Inv, Windows, Counted, k
  <2>2. passed'[k] <= count'[k] /\ passed'[k] <= Limit[k[1]]
    <3>1. passed[k] <= Limit[k[1]]
      BY <1>2 DEF Inv, Windows, WithinLimit, k
    <3> QED
      BY <1>5, <1>6, <1>7, <2>1, <3>1 DEF through
  <2>3. \A x \in Keys \ {k} : passed'[x] <= count'[x] /\ passed'[x] <= Limit[x[1]]
    BY <1>6, <1>7 DEF Inv, Windows, Counted, WithinLimit
  <2> QED
    BY <2>2, <2>3 DEF Counted, WithinLimit
<1>19. WindowsEnd'
  <2> SUFFICES ASSUME NEW x \in Keys, count'[x] > 0, x \notin lost', x \notin lasting'
               PROVE  \E d \in Calls : Waiting(d)' /\ KeyOf(d)' = x
    BY DEF WindowsEnd, Waiting
  <2>1. CASE count[x] > 0
    <3>1. PICK d \in Calls : Waiting(d) /\ KeyOf(d) = x
      BY <1>4, <2>1 DEF Inv, Windows, WindowsEnd, Waiting
    <3> QED
      BY <1>14, <1>15, <3>1
  <2>2. CASE ~(count[x] > 0)
    <3>1. x = k
      BY <1>6, <2>2
    <3>2. count[k] = 0
      BY <1>5, <2>2, <3>1
    <3>3. through
      BY <1>5, <3>2 DEF through
    <3> QED
      BY <1>12, <1>13, <3>1, <3>2, <3>3
  <2> QED
    BY <2>1, <2>2
<1>20. Singles'
  <2>1. \A d \in Calls : Finding(d)' => Finding(d) /\ req'[d].person = req[d].person
    BY <1>3, <1>9 DEF Finding
  <2> QED
    BY <1>4, <2>1, SinglesKept DEF Inv
<1> QED
  BY <1>11, <1>17, <1>18, <1>19, <1>20 DEF Inv, Windows

\* A step of one call that neither waited for EXPIRE nor does now, and that leaves the
\* counters and the accounts.
LEMMA LookingStep ==
  ASSUME Inv, NEW c \in Calls, UNCHANGED <<redis, user, raced>>,
         requests' \in Nat, failures' \in Nat,
         req' \in [Calls -> Request], ~Waiting(c), ~Waiting(c)',
         \A d \in Calls \ {c} : req'[d] = req[d],
         \A d \in Calls : req'[d].step # "idle" => req'[d].person # NoOne,
         Finding(c)' => \/ Finding(c) /\ req'[c].person = req[c].person
                        \/ ~CodeTaken(req'[c].person)
  PROVE  Inv'
<1>1. TypeOK'
  BY DEF Inv, TypeOK, redis
<1>2. \A d \in Calls : Waiting(d) \/ Waiting(d)' => req'[d] = req[d]
  OBVIOUS
<1>3. Windows'
  BY <1>2, WindowsKept DEF Inv
<1>4. \A d \in Calls \ {c} : Finding(d)' => Finding(d)
  BY DEF Finding
<1>5. Singles'
  BY <1>4, SinglesKept DEF Inv
<1> QED
  BY <1>1, <1>3, <1>5 DEF Inv

LEMMA CountFailsStep ==
  ASSUME Inv, NEW c \in Calls, CountFails(c)
  PROVE  Inv'
<1>1. PICK kind \in Kinds, p \in People : Enter(c, Arriving("code", kind, p))
  BY DEF CountFails
<1> DEFINE r == Arriving("code", kind, p)
<1>2. r \in Request /\ r.step = "code" /\ r.person # NoOne
  BY ArrivingIsRequest, NullAssumption DEF Steps
<1>3. req' = [req EXCEPT ![c] = r] /\ TypeOK /\ At(c, "idle")
  BY <1>1 DEF Enter, Inv, CountFails
<1> HIDE DEF r
<1>4. /\ req' \in [Calls -> Request] /\ req'[c] = r
      /\ \A d \in Calls \ {c} : req'[d] = req[d]
      /\ \A d \in Calls : req'[d].step # "idle" => req'[d].person # NoOne
  BY <1>2, <1>3, EnterMoves
<1>5. ~Waiting(c) /\ ~Waiting(c)' /\ ~Finding(c)'
  BY <1>2, <1>3, <1>4 DEF Waiting, At, Finding
<1>6. UNCHANGED <<redis, user, raced>> /\ requests' \in Nat /\ failures' \in Nat
  BY <1>3 DEF CountFails, TypeOK
<1> QED
  BY <1>4, <1>5, <1>6, LookingStep

LEMMA SettlingStep ==
  ASSUME Inv, NEW c \in Calls, At(c, "expire"), count' = count, passed' = passed,
         UNCHANGED <<user, requests, raced>>, failures' \in Nat,
         \/ lasting' = lasting \cup {KeyOf(c)} /\ lost' = lost
         \/ lasting' = lasting /\ lost' = lost \cup {KeyOf(c)},
         Goto(c, "code") \/ Answer(c)
  PROVE  Inv'
<1>1. TypeOK /\ KeyOf(c) \in Keys
  BY KeyIsKey DEF Inv, At
<1>2. /\ req' \in [Calls -> Request] /\ req'[c].step \in {"code", "idle"}
      /\ \A d \in Calls \ {c} : req'[d] = req[d]
      /\ \A d \in Calls : req'[d].step # "idle" => req'[d].person # NoOne
  <2>1. CASE Goto(c, "code")
    BY <1>1, <2>1, GotoMoves DEF At, Steps
  <2>2. CASE Answer(c)
    BY <1>1, <2>2, AnswerMoves, IdleIsRequest
  <2> QED
    BY <2>1, <2>2
<1>3. Waiting(c) /\ ~Waiting(c)' /\ ~Finding(c)'
  BY <1>2 DEF Waiting, At, Finding
<1>4. Windows' /\ \A k \in lasting' : count'[k] > 0
  BY <1>1, <1>2, <1>3, WindowsSettled DEF Inv
<1>5. TypeOK'
  BY <1>1, <1>2, <1>4 DEF TypeOK
<1>6. \A d \in Calls : Finding(d)' => Finding(d) /\ req'[d].person = req[d].person
  BY <1>2, <1>3 DEF Finding
<1>7. Singles'
  BY <1>6, SinglesKept DEF Inv
<1> QED
  BY <1>4, <1>5, <1>7 DEF Inv

LEMMA WindowEndsStep ==
  ASSUME Inv, NEW k \in Keys, WindowEnds(k)
  PROVE  Inv'
<1>1. TypeOK /\ k \in lasting /\ Windows
  BY DEF Inv, WindowEnds
<1>2. /\ count' \in [Keys -> Nat] /\ count'[k] = 0 /\ passed' \in [Keys -> Nat] /\ passed'[k] = 0
      /\ \A x \in Keys \ {k} : count'[x] = count[x] /\ passed'[x] = passed[x]
      /\ lasting' = lasting \ {k}
      /\ UNCHANGED <<lost, user, req, requests, failures, raced>>
  BY <1>1 DEF TypeOK, WindowEnds
<1>3. \A x \in lasting' : count'[x] > 0
  BY <1>1, <1>2 DEF TypeOK
<1>4. TypeOK'
  BY <1>1, <1>2, <1>3 DEF TypeOK
<1>5. \A d \in Calls : (Waiting(d)' <=> Waiting(d)) /\ KeyOf(d)' = KeyOf(d)
  BY <1>2 DEF Waiting, At, KeyOf
<1>6. \A d \in Calls : Waiting(d) => KeyOf(d) \in Keys \ {k} /\ count[KeyOf(d)] > 0
                                     /\ KeyOf(d) \notin lasting
  BY <1>1, KeyIsKey DEF Windows, ExpiryIsOwn, Waiting, At
<1>7. ExpiryIsOwn'
  BY <1>1, <1>2, <1>5, <1>6 DEF Windows, ExpiryIsOwn
<1>8. Counted' /\ WithinLimit'
  <2>1. Limit[k[1]] >= 0 /\ Limit[k[1]] \in Nat
    BY LimitAssumption DEF Keys
  <2> QED
    BY <1>1, <1>2, <2>1 DEF Windows, Counted, WithinLimit
<1>9. WindowsEnd'
  BY <1>1, <1>2, <1>5 DEF Windows, WindowsEnd, Waiting
<1>10. Singles'
  BY <1>2, SinglesKept DEF Inv, Finding
<1> QED
  BY <1>4, <1>7, <1>8, <1>9, <1>10 DEF Inv, Windows

\* An account that was found admits its call or has it answered 401.
LEMMA AdmitStep ==
  ASSUME Inv, NEW c \in Calls, NEW a \in Accounts, Admit(c, a), Looking,
         req[c].step # "idle", ~Waiting(c)
  PROVE  Inv'
<1>1. /\ req' \in [Calls -> Request] /\ req'[c].step \in {"serve", "idle"}
      /\ \A d \in Calls \ {c} : req'[d] = req[d]
      /\ \A d \in Calls : req'[d].step # "idle" => req'[d].person # NoOne
  <2>1. CASE user[a].active
    BY <2>1, ServedMoves DEF Admit, Inv
  <2>2. CASE ~user[a].active
    BY <2>2, AnswerMoves, IdleIsRequest DEF Admit, Inv
  <2> QED
    BY <2>1, <2>2
<1>2. ~Waiting(c)' /\ ~Finding(c)'
  BY <1>1 DEF Waiting, At, Finding
<1>3. UNCHANGED <<redis, user, raced>> /\ requests' \in Nat /\ failures' \in Nat
  BY DEF Looking, Inv, TypeOK
<1> QED
  BY <1>1, <1>2, <1>3, LookingStep

\* A call goes on to another statement, having found no account or searching on.
LEMMA SearchStep ==
  ASSUME Inv, NEW c \in Calls, NEW step \in Steps, Goto(c, step), Looking,
         req[c].step \in {"code", "email", "new_code"}, step # "expire",
         ~CodeTaken(req[c].person) \/ Finding(c)
  PROVE  Inv'
<1>1. /\ req' \in [Calls -> Request] /\ req'[c].step = step /\ req'[c].person = req[c].person
      /\ \A d \in Calls \ {c} : req'[d] = req[d]
      /\ \A d \in Calls : req'[d].step # "idle" => req'[d].person # NoOne
  BY GotoMoves DEF Inv
<1>2. ~Waiting(c) /\ ~Waiting(c)'
  BY <1>1 DEF Waiting, At
<1>3. UNCHANGED <<redis, user, raced>> /\ requests' \in Nat /\ failures' \in Nat
  BY DEF Looking, Inv, TypeOK
<1> QED
  BY <1>1, <1>2, <1>3, LookingStep

LEMMA AnswerStep ==
  ASSUME Inv, NEW c \in Calls, Answer(c), UNCHANGED <<redis, user, raced>>,
         requests' \in Nat, failures' \in Nat, ~Waiting(c)
  PROVE  Inv'
<1>1. /\ req' \in [Calls -> Request] /\ req'[c].step = "idle"
      /\ \A d \in Calls \ {c} : req'[d] = req[d]
      /\ \A d \in Calls : req'[d].step # "idle" => req'[d].person # NoOne
  BY AnswerMoves, IdleIsRequest DEF Inv
<1>2. ~Waiting(c)' /\ ~Finding(c)'
  BY <1>1 DEF Waiting, At, Finding
<1> QED
  BY <1>1, <1>2, LookingStep

LEMMA LoginSteps ==
  ASSUME Inv, NEW c \in Calls, LoginStep(c)
  PROVE  Inv'
<1> DEFINE p == req[c].person
<1>1. TypeOK
  BY DEF Inv
<1>2. ASSUME FindByCode(c) PROVE Inv'
  <2>1. req[c].step = "code" /\ Looking
    BY <1>2 DEF FindByCode, At
  <2>2. ~Waiting(c)
    BY <2>1 DEF Waiting, At
  <2>3. CASE \E a \in Accounts : user[a].code = p /\ Admit(c, a)
    BY <2>1, <2>2, <2>3, AdmitStep
  <2>4. CASE ~CodeTaken(p) /\ Goto(c, "email")
    BY <2>1, <2>4, SearchStep DEF Steps
  <2>5. CASE ~CodeTaken(p) /\ Goto(c, "insert")
    BY <2>1, <2>5, SearchStep DEF Steps
  <2> QED
    BY <1>2, <2>3, <2>4, <2>5 DEF FindByCode
<1>3. ASSUME FindByEmail(c) PROVE Inv'
  <2>1. req[c].step = "email" /\ Looking
    BY <1>3 DEF FindByEmail, At
  <2>2. ~Waiting(c) /\ Finding(c)
    BY <2>1 DEF Waiting, At, Finding
  <2>3. CASE \E a \in Accounts : Admit(c, a)
    BY <2>1, <2>2, <2>3, AdmitStep
  <2>4. CASE Goto(c, "insert")
    BY <2>1, <2>2, <2>4, SearchStep DEF Steps
  <2> QED
    BY <1>3, <2>3, <2>4 DEF FindByEmail
<1>4. ASSUME Provision(c) PROVE Inv'
  <2>1. req[c].step = "insert" /\ UNCHANGED <<redis, requests, failures>>
    BY <1>4 DEF Provision, At
  <2>2. ~Waiting(c) /\ Finding(c)
    BY <2>1 DEF Waiting, At, Finding
  <2>3. ASSUME NEW a \in Accounts, Insert(c, p, EmailOf[p], a),
               req' = [req EXCEPT ![c].step = "serve", ![c].account = a]
        PROVE  Inv'
    <3>1. /\ req' \in [Calls -> Request] /\ req'[c].step = "serve"
          /\ \A d \in Calls \ {c} : req'[d] = req[d]
          /\ \A d \in Calls : req'[d].step # "idle" => req'[d].person # NoOne
      BY <1>1, <2>1, <2>3, ServedMoves
    <3>2. ~Waiting(c)' /\ ~Finding(c)'
      BY <3>1 DEF Waiting, At, Finding
    <3>3. EmailOf[p] \in Emails \cup {NoEmail}
      BY <1>1, <2>1, KeyIsKey, EmailAssumption
    <3>4. Singles' /\ user' \in [Accounts -> Row] /\ raced' \subseteq People
      BY <1>1, <2>2, <2>3, <3>1, <3>2, <3>3, InsertKeeps DEF Inv
    <3>5. \A d \in Calls : Waiting(d) \/ Waiting(d)' => req'[d] = req[d]
      BY <2>2, <3>1, <3>2
    <3>6. Windows'
      BY <1>1, <2>1, <3>5, WindowsKept DEF Inv
    <3>7. TypeOK'
      BY <1>1, <2>1, <3>1, <3>4 DEF TypeOK, redis
    <3> QED
      BY <3>4, <3>6, <3>7 DEF Inv
  <2>4. CASE Answer(c) /\ UNCHANGED <<user, raced>>
    BY <1>1, <2>1, <2>2, <2>4, AnswerStep DEF TypeOK
  <2> QED
    BY <1>4, <2>3, <2>4 DEF Provision
<1>5. ASSUME Serve(c) PROVE Inv'
  <2>1. ~Waiting(c)
    BY <1>5 DEF Serve, Waiting, At
  <2> QED
    BY <1>1, <1>5, <2>1, AnswerStep DEF Serve, Looking, TypeOK
<1> QED
  BY <1>2, <1>3, <1>4, <1>5 DEF LoginStep

LEMMA AdminSteps ==
  ASSUME Inv, NEW c \in Calls, AdminStep(c)
  PROVE  Inv'
<1>1. TypeOK
  BY DEF Inv
<1>2. ASSUME NewByEmail(c) PROVE Inv'
  <2>1. PICK p \in People, e \in Emails \cup {NoEmail} :
          Enter(c, [Idle EXCEPT !.step = "new_code", !.person = p, !.email = e])
    BY <1>2 DEF NewByEmail
  <2> DEFINE r == [Idle EXCEPT !.step = "new_code", !.person = p, !.email = e]
  <2>2. r \in Request /\ r.step = "new_code" /\ r.person # NoOne
    BY NullAssumption DEF Idle, Request, Steps, Policies
  <2>3. req' = [req EXCEPT ![c] = r]
    BY <2>1 DEF Enter
  <2> HIDE DEF r
  <2>4. /\ req' \in [Calls -> Request] /\ req'[c] = r
        /\ \A d \in Calls \ {c} : req'[d] = req[d]
        /\ \A d \in Calls : req'[d].step # "idle" => req'[d].person # NoOne
    BY <1>1, <2>2, <2>3, EnterMoves
  <2>5. ~Waiting(c) /\ ~Waiting(c)' /\ ~Finding(c)'
    BY <1>2, <2>2, <2>4 DEF NewByEmail, Waiting, At, Finding
  <2>6. UNCHANGED <<redis, user, raced>> /\ requests' \in Nat /\ failures' \in Nat
    BY <1>1, <1>2 DEF NewByEmail, Looking, TypeOK
  <2> QED
    BY <2>4, <2>5, <2>6, LookingStep
<1>3. ASSUME NewByCode(c) PROVE Inv'
  <2>1. req[c].step = "new_code" /\ Looking
    BY <1>3 DEF NewByCode, At
  <2>2. ~Waiting(c)
    BY <2>1 DEF Waiting, At
  <2>3. CASE Answer(c)
    BY <1>1, <2>1, <2>2, <2>3, AnswerStep DEF Looking, TypeOK
  <2>4. CASE ~CodeTaken(req[c].person) /\ Goto(c, "new_insert")
    BY <2>1, <2>4, SearchStep DEF Steps
  <2> QED
    BY <1>3, <2>3, <2>4 DEF NewByCode
<1>4. ASSUME New(c) PROVE Inv'
  <2>1. req[c].step = "new_insert" /\ UNCHANGED <<redis, requests, failures>> /\ Answer(c)
    BY <1>4 DEF New, At
  <2>2. ~Waiting(c) /\ Finding(c)
    BY <2>1 DEF Waiting, At, Finding
  <2>3. ASSUME NEW a \in Accounts, Insert(c, req[c].person, req[c].email, a)
        PROVE  Inv'
    <3>1. /\ req' \in [Calls -> Request] /\ req'[c].step = "idle"
          /\ \A d \in Calls \ {c} : req'[d] = req[d]
          /\ \A d \in Calls : req'[d].step # "idle" => req'[d].person # NoOne
      BY <1>1, <2>1, AnswerMoves, IdleIsRequest
    <3>2. ~Waiting(c)' /\ ~Finding(c)'
      BY <3>1 DEF Waiting, At, Finding
    <3>3. req[c].email \in Emails \cup {NoEmail}
      BY <1>1 DEF TypeOK, Request
    <3>4. Singles' /\ user' \in [Accounts -> Row] /\ raced' \subseteq People
      BY <1>1, <2>2, <2>3, <3>1, <3>2, <3>3, InsertKeeps DEF Inv
    <3>5. \A d \in Calls : Waiting(d) \/ Waiting(d)' => req'[d] = req[d]
      BY <2>2, <3>1, <3>2
    <3>6. Windows'
      BY <1>1, <2>1, <3>5, WindowsKept DEF Inv
    <3>7. TypeOK'
      BY <1>1, <2>1, <3>1, <3>4 DEF TypeOK, redis
    <3> QED
      BY <3>4, <3>6, <3>7 DEF Inv
  <2>4. CASE UNCHANGED <<user, raced>>
    BY <1>1, <2>1, <2>2, <2>4, AnswerStep DEF TypeOK
  <2> QED
    BY <1>4, <2>3, <2>4 DEF New
<1> QED
  BY <1>2, <1>3, <1>4 DEF AdminStep

LEMMA ChangeStep ==
  ASSUME Inv, NEW a \in Accounts, Change(a)
  PROVE  Inv'
<1>1. TypeOK /\ UNCHANGED <<redis, req, requests, failures, raced>>
  BY DEF Inv, Change
<1>2. user' \in [Accounts -> Row] /\ \A b \in Accounts : user'[b].code = user[b].code
  <2>1. CASE \E e \in Emails : user' = [user EXCEPT ![a].email = e]
    BY <1>1, <2>1 DEF TypeOK, Row
  <2>2. CASE user' = [user EXCEPT ![a].active = ~@]
    <3>1. user[a] \in Row
      BY <1>1 DEF TypeOK
    <3>2. [user[a] EXCEPT !.active = ~@] \in Row /\ [user[a] EXCEPT !.active = ~@].code = user[a].code
      BY <3>1 DEF Row
    <3>3. user' = [user EXCEPT ![a] = [user[a] EXCEPT !.active = ~@]]
      BY <2>2
    <3> QED
      BY <1>1, <3>2, <3>3 DEF TypeOK
  <2> QED
    BY <2>1, <2>2 DEF Change
<1>3. TypeOK'
  BY <1>1, <1>2 DEF TypeOK, redis
<1>4. Windows'
  BY <1>1, WindowsKept DEF Inv
<1>5. Singles'
  BY <1>1, <1>2 DEF Inv, Singles, RaceIsKnown, OneAccountUnlessRaced, Finding, CodeTaken, Stored
<1> QED
  BY <1>3, <1>4, <1>5 DEF Inv

LEMMA CrashStep ==
  ASSUME Inv, NEW c \in Calls, Crash(c)
  PROVE  Inv'
<1>1. TypeOK /\ Answer(c) /\ failures' \in Nat
  BY DEF Inv, TypeOK, Crash
<1>2. CASE At(c, "expire")
  BY <1>1, <1>2, SettlingStep DEF Crash
<1>3. CASE ~At(c, "expire")
  BY <1>1, <1>3, AnswerStep DEF Crash, Waiting, redis, TypeOK
<1> QED
  BY <1>2, <1>3

THEOREM NextInv == Inv /\ [Next]_vars => Inv'
<1> SUFFICES ASSUME Inv, [Next]_vars PROVE Inv'
  OBVIOUS
<1>1. ASSUME NEW c \in Calls, RateStep(c) PROVE Inv'
  <2>1. CASE Count(c)
    BY <2>1, CountStep
  <2>2. CASE CountFails(c)
    BY <2>2, CountFailsStep
  <2>3. CASE SetExpiry(c)
    BY <2>3, SettlingStep DEF SetExpiry, Inv, TypeOK
  <2>4. CASE ExpiryFails(c)
    BY <2>4, SettlingStep DEF ExpiryFails, Inv, TypeOK
  <2> QED
    BY <1>1, <2>1, <2>2, <2>3, <2>4 DEF RateStep
<1>2. CASE UNCHANGED vars
  <2>1. TypeOK'
    BY <1>2 DEF Inv, TypeOK, vars, redis
  <2>2. Windows'
    BY <1>2, WindowsKept DEF Inv, vars, redis
  <2>3. Singles'
    BY <1>2, SinglesKept DEF Inv, vars, Finding
  <2> QED
    BY <2>1, <2>2, <2>3 DEF Inv
<1> QED
  BY <1>1, <1>2, LoginSteps, AdminSteps, CrashStep, WindowEndsStep, ChangeStep DEF Next

THEOREM Invariant == Spec => []Inv
  BY InitInv, NextInv, PTL DEF Spec

-----------------------------------------------------------------------------

\* Every variable keeps its type, a key with a lifetime has counted something, and a
\* call under way knows whom it is for.
THEOREM TypeCorrect == Spec => []TypeOK
<1>1. Inv => TypeOK
  BY DEF Inv
<1> QED
  BY <1>1, Invariant, PTL

\* The limit of a window holds whatever commands to Redis fail and whoever else calls.
THEOREM LimitHolds == Spec => []WithinLimit
<1>1. Inv => WithinLimit
  BY DEF Inv, Windows
<1> QED
  BY <1>1, Invariant, PTL

\* Every counter has a lifetime or is about to get one, unless its one EXPIRE was lost.
THEOREM EveryWindowEnds == Spec => []WindowsEnd
<1>1. Inv => WindowsEnd
  BY DEF Inv, Windows
<1> QED
  BY <1>1, Invariant, PTL

\* Two accounts of one person are always the work of calls that overlapped.
THEOREM OneAccount == Spec => []OneAccountUnlessRaced
<1>1. Inv => OneAccountUnlessRaced
  BY DEF Inv, Singles
<1> QED
  BY <1>1, Invariant, PTL
=============================================================================
