--------------------------- MODULE CatalogueProofs ---------------------------
(***************************************************************************)
(* What TLAPS proves of the use of the catalogues (CatalogueUse) and of    *)
(* the benchmark of a model (Benchmarking), for any sets of items, users,  *)
(* models and calls.                                                       *)
(***************************************************************************)
EXTENDS CatalogueUse, Benchmarking, FiniteSetTheorems, TLAPS

\* The reviews of one item.
Rows == [Users -> Review \cup {NoReview}]

\* What a call may rely on between two of its statements, whatever others do.
Held(q) ==
    /\ q.step # "idle" => q.item \in Items
    /\ q.step \in {"favour", "unfavour", "moderate", "commit"} => q.user \in Users
    /\ q.step = "use" => q.item \in Prompts
    /\ q.step = "erase" => q.item \in Servers /\ item[q.item] \in {"hidden", "gone"}
    /\ q.step = "moderate" /\ q.valid => review[q.item][q.user] # NoReview
    /\ q.step = "commit" => Exists(q.item)

\* Every call holds what it relies on, and only items that exist have reviews.
Linked ==
    /\ \A c \in Calls : Held(req[c])
    /\ \A i \in Items, u \in Users : review[i][u] # NoReview => Exists(i)

\* The tally under way is that of the rows as they will be, unless overtaken.
Foretold(q) ==
    q.step = "commit" /\ q.fresh
        => q.tally = Tally([review[q.item] EXCEPT ![q.user] = q.row])

\* The mean of a tally is between the least and the greatest rating.
Scaled(t) == t.count <= t.sum /\ t.sum <= 5 * t.count

\* The inductive invariant behind RatingIsCurrent.
RatingInv ==
    /\ \A i \in alone : rating[i] = Tally(review[i])
    /\ \A c \in Calls : Foretold(req[c])

\* So are the means stored beside the items, and those that calls are about to store.
MeanInScale ==
    /\ \A i \in Items : Scaled(rating[i])
    /\ \A c \in Calls : Scaled(req[c].tally)

\* What a review under way will show is what is meant by it.
Intended(q) ==
    q.step = "commit" /\ q.row # NoReview /\ q.means # "crossed"
        => (q.row.approved <=> q.means = "shown")

\* The inductive invariant behind ModeratedAsMeant.
MeantInv == ModeratedAsMeant /\ \A c \in Calls : Intended(req[c])

-----------------------------------------------------------------------------
(* The sum of a set of ratings *)

\* The user whose rating is added last.
Pick(s) == CHOOSE u \in s : TRUE

\* f sums the ratings in rows over the subsets of S, as MapThenSumSet does.
Sums(f, rows, S) ==
    f = [s \in SUBSET S |->
            IF s = {} THEN 0 ELSE rows[Pick(s)].rating + f[s \ {Pick(s)}]]

\* Total is the last value of such a function.
LEMMA TotalIsSums ==
    \A rows, S : Total(rows, S) = (CHOOSE f : Sums(f, rows, S))[S]
  BY DEF Total, MapThenSumSet, MapThenFoldSet, Sums, Pick

\* A set of subsets of a finite set has a smallest one: induction, without an operator.
LEMMA Smallest ==
  ASSUME NEW S, IsFiniteSet(S), NEW Q, Q \subseteq SUBSET S, Q # {}
  PROVE  \E s \in Q : \A t \in Q : t \subseteq s => t = s
<1>1. Q \subseteq FiniteSubsetsOf(S)
  BY FS_FiniteSubsetsOfFinite
<1>2. PICK s \in Q : \A t \in Q : <<t, s>> \notin StrictSubsetOrdering(S)
  BY <1>1, FS_StrictSubsetOrderingWellFounded, WFMin
<1>3. ASSUME NEW t \in Q, t \subseteq s PROVE t = s
  BY <1>2, <1>3 DEF StrictSubsetOrdering
<1> QED BY <1>3

\* Two such functions agree where both are defined.
LEMMA SumsAgree ==
  ASSUME NEW rows, NEW S, IsFiniteSet(S), NEW R, NEW f, NEW g,
         Sums(f, rows, S), Sums(g, rows, R), NEW s, s \subseteq S, s \subseteq R
  PROVE  f[s] = g[s]
<1> DEFINE Q == {t \in SUBSET S : t \subseteq R /\ f[t] # g[t]}
<1>1. SUFFICES ASSUME Q # {} PROVE FALSE
  OBVIOUS
<1>2. PICK t \in Q : \A u \in Q : u \subseteq t => u = t
  <2>1. Q \subseteq SUBSET S
    OBVIOUS
  <2> HIDE DEF Q
  <2> QED BY <1>1, <2>1, Smallest
<1>3. CASE t = {}
  BY <1>3 DEF Sums
<1>4. CASE t # {}
  <2>1. Pick(t) \in t
    BY <1>4 DEF Pick
  <2>2. t \ {Pick(t)} \notin Q
    BY <1>2, <2>1
  <2>3. f[t \ {Pick(t)}] = g[t \ {Pick(t)}]
    BY <2>2
  <2>4. f[t] = rows[Pick(t)].rating + f[t \ {Pick(t)}]
    BY <1>4 DEF Sums
  <2>5. g[t] = rows[Pick(t)].rating + g[t \ {Pick(t)}]
    BY <1>4 DEF Sums
  <2> QED BY <2>3, <2>4, <2>5
<1> QED BY <1>3, <1>4

\* There is one for every finite set.
LEMMA SumsExist ==
  ASSUME NEW rows, NEW S, IsFiniteSet(S)
  PROVE  \E f : Sums(f, rows, S)
<1> DEFINE Q == {t \in SUBSET S : ~ \E f : Sums(f, rows, t)}
<1>1. SUFFICES ASSUME Q # {} PROVE FALSE
  OBVIOUS
<1>2. PICK t \in Q : \A u \in Q : u \subseteq t => u = t
  <2>1. Q \subseteq SUBSET S
    OBVIOUS
  <2> HIDE DEF Q
  <2> QED BY <1>1, <2>1, Smallest
<1> DEFINE V(u) == Total(rows, u)
           F == [u \in SUBSET t |->
                    IF u = {} THEN 0 ELSE rows[Pick(u)].rating + V(u \ {Pick(u)})]
<1>3. ASSUME NEW u \in SUBSET t, u # t PROVE Sums(CHOOSE f : Sums(f, rows, u), rows, u)
  <2>1. u \notin Q
    BY <1>2, <1>3
  <2>2. \E f : Sums(f, rows, u)
    BY <2>1
  <2> QED BY <2>2
<1>4. ASSUME NEW u \in SUBSET t, u # t PROVE V(u) = F[u]
  <2> DEFINE g == CHOOSE f : Sums(f, rows, u)
  <2>1. V(u) = g[u] /\ Sums(g, rows, u)
    BY <1>3, <1>4, TotalIsSums
  <2>2. CASE u = {}
    BY <2>1, <2>2 DEF Sums
  <2>3. CASE u # {}
    <3> DEFINE w == u \ {Pick(u)}
               h == CHOOSE f : Sums(f, rows, w)
    <3>1. Pick(u) \in u
      BY <2>3 DEF Pick
    <3>2. w \in SUBSET t /\ w # t
      BY <1>4, <3>1
    <3>3. V(w) = h[w] /\ Sums(h, rows, w)
      BY <1>3, <3>2, TotalIsSums
    <3>4. IsFiniteSet(u)
      BY FS_Subset
    <3>5. g[w] = h[w]
      <4> HIDE DEF w, g, h
      <4>1. w \subseteq u
        BY DEF w
      <4> QED BY <2>1, <3>3, <3>4, <4>1, SumsAgree
    <3>6. g[u] = rows[Pick(u)].rating + g[w]
      BY <2>1, <2>3 DEF Sums
    <3> HIDE DEF g, h, V
    <3> QED BY <2>1, <2>3, <3>3, <3>5, <3>6
  <2> QED BY <2>2, <2>3
<1>5. Sums(F, rows, t)
  <2> SUFFICES ASSUME NEW u \in SUBSET t, u # {}
               PROVE  V(u \ {Pick(u)}) = F[u \ {Pick(u)}]
    BY DEF Sums
  <2>1. Pick(u) \in u
    BY DEF Pick
  <2> HIDE DEF F, V
  <2> QED BY <1>4, <2>1
<1> HIDE DEF F
<1> QED BY <1>2, <1>5

\* So the total is what its recursive definition says.
LEMMA TotalStep ==
  ASSUME NEW rows, NEW S, IsFiniteSet(S), NEW t \in SUBSET S
  PROVE  Total(rows, t) =
            IF t = {} THEN 0 ELSE rows[Pick(t)].rating + Total(rows, t \ {Pick(t)})
<1> DEFINE w == t \ {Pick(t)}
           g == CHOOSE f : Sums(f, rows, t)
           h == CHOOSE f : Sums(f, rows, w)
<1>1. IsFiniteSet(t) /\ IsFiniteSet(w)
  BY FS_Subset
<1>2. Total(rows, t) = g[t] /\ Sums(g, rows, t)
  BY <1>1, SumsExist, TotalIsSums
<1>3. Total(rows, w) = h[w] /\ Sums(h, rows, w)
  BY <1>1, SumsExist, TotalIsSums
<1>4. g[w] = h[w]
  <2> HIDE DEF g, h, w
  <2>1. w \subseteq t
    BY DEF w
  <2> QED BY <1>1, <1>2, <1>3, <2>1, SumsAgree
<1>5. g[t] = IF t = {} THEN 0 ELSE rows[Pick(t)].rating + g[w]
  BY <1>2 DEF Sums
<1> HIDE DEF g, h
<1> QED BY <1>2, <1>3, <1>4, <1>5

\* Between one and five for each of the ratings.
LEMMA TotalBounds ==
  ASSUME NEW rows, NEW S, IsFiniteSet(S), \A u \in S : rows[u].rating \in 1..5
  PROVE  /\ Total(rows, S) \in Nat
         /\ Cardinality(S) <= Total(rows, S) /\ Total(rows, S) <= 5 * Cardinality(S)
<1> DEFINE Holds(t) == /\ Total(rows, t) \in Nat
                       /\ Cardinality(t) <= Total(rows, t)
                       /\ Total(rows, t) <= 5 * Cardinality(t)
           Q == {t \in SUBSET S : ~Holds(t)}
<1>1. SUFFICES ASSUME Q # {} PROVE FALSE
  OBVIOUS
<1>2. PICK t \in Q : \A u \in Q : u \subseteq t => u = t
  <2>1. Q \subseteq SUBSET S
    OBVIOUS
  <2> HIDE DEF Q
  <2> QED BY <1>1, <2>1, Smallest
<1>3. CASE t = {}
  <2>1. Total(rows, t) = 0 /\ Cardinality(t) = 0
    BY <1>3, TotalStep, FS_EmptySet
  <2> QED BY <2>1, <1>2
<1>4. CASE t # {}
  <2> DEFINE x == Pick(t)
             w == t \ {x}
  <2>1. x \in t /\ w \subseteq t /\ w # t
    BY <1>4 DEF Pick
  <2>2. Holds(w)
    BY <1>2, <2>1
  <2>3. IsFiniteSet(t) /\ Cardinality(t) \in Nat /\ Cardinality(w) = Cardinality(t) - 1
    BY <2>1, FS_Subset, FS_CardinalityType, FS_RemoveElement
  <2>4. Cardinality(w) \in Nat
    BY <2>1, <2>3, FS_Subset, FS_CardinalityType
  <2>5. Total(rows, t) = rows[x].rating + Total(rows, w)
    BY <1>4, TotalStep
  <2>6. rows[x].rating \in 1..5
    BY <2>1
  <2>7. Holds(t)
    <3> HIDE DEF x, w
    <3> QED BY <2>2, <2>3, <2>4, <2>5, <2>6
  <2> QED BY <1>2, <2>7
<1> QED BY <1>3, <1>4

-----------------------------------------------------------------------------
(* Types *)

\* What the triggers compute of any table has its type, and a mean in the scale.
LEMMA TallyType ==
  ASSUME NEW rows \in Rows
  PROVE  Tally(rows) \in Tallies /\ Scaled(Tally(rows))
<1> DEFINE given == {u \in Users : rows[u] # NoReview /\ rows[u].approved}
<1>1. IsFiniteSet(given)
  BY UserAssumption, FS_Subset
<1>2. Cardinality(given) \in Nat
  BY <1>1, FS_CardinalityType
<1>3. \A u \in given : rows[u].rating \in 1..5
  BY NumberAssumption DEF Rows, Review
<1>4. /\ Total(rows, given) \in Nat
      /\ Cardinality(given) <= Total(rows, given)
      /\ Total(rows, given) <= 5 * Cardinality(given)
  <2> HIDE DEF given
  <2> QED BY <1>1, <1>3, TotalBounds
<1>5. Tally(rows) = [count |-> Cardinality(given), sum |-> Total(rows, given)]
  BY DEF Tally
<1> HIDE DEF given
<1> QED BY <1>2, <1>4, <1>5 DEF Tallies, Scaled

\* The tally of an empty table.
LEMMA TallyOfNone == Tally([u \in Users |-> NoReview]) = Zero
<1> DEFINE rows == [u \in Users |-> NoReview]
<1>1. {u \in Users : rows[u] # NoReview /\ rows[u].approved} = {}
  OBVIOUS
<1>2. Cardinality({}) = 0 /\ Total(rows, {}) = 0
  BY FS_EmptySet, TotalStep
<1> HIDE DEF rows
<1>3. Tally(rows) = Zero
  BY <1>1, <1>2 DEF Tally, Zero
<1> QED BY <1>3 DEF rows

\* The requests of calls have their type.
LEMMA ServingType ==
  ASSUME NEW step \in Steps, NEW i \in Items \cup {NoItem}, NEW u \in Users \cup {NoUser}
  PROVE  /\ Serving(step, i, u) \in Request
         /\ Serving(step, i, u).step = step
         /\ Serving(step, i, u).item = i
         /\ Serving(step, i, u).user = u
         /\ Serving(step, i, u).tally = Zero
  BY DEF Serving, Idle, Request, Zero, Tallies

\* So has that of a call that does nothing.
LEMMA IdleType == Idle \in Request /\ Idle.step = "idle" /\ Idle.tally = Zero
  BY DEF Idle, Request, Zero, Tallies, Steps

\* The call goes on with r, the review of i by u that it is about to commit.
Proposes(c, r, i, u, row, means) ==
    /\ Enter(c, r) /\ UNCHANGED <<item, part, opinion, usage>>
    /\ r.step = "commit" /\ r.item = i /\ r.user = u
    /\ r.row = row /\ r.means = means /\ r.fresh
    /\ r.tally = Tally([review[i] EXCEPT ![u] = row])

\* Whatever row is written, the call goes on to commit it.
LEMMA WriteType ==
  ASSUME TypeOK, NEW c \in Calls, NEW i \in Items, NEW u \in Users,
         NEW row \in Review \cup {NoReview}, NEW means \in {"shown", "hidden", "crossed"},
         Write(c, i, u, row, means)
  PROVE  \E r \in Request : Proposes(c, r, i, u, row, means)
<1> DEFINE t == Tally([review[i] EXCEPT ![u] = row])
           r == [Serving("commit", i, u) EXCEPT !.row = row, !.means = means, !.tally = t]
<1>1. t \in Tallies
  <2>1. [review[i] EXCEPT ![u] = row] \in Rows
    BY DEF TypeOK, Rows
  <2> QED BY <2>1, TallyType
<1>2. Enter(c, r) /\ UNCHANGED <<item, part, opinion, usage>>
  BY DEF Write
<1> HIDE DEF t
<1>3. /\ r \in Request
      /\ r.step = "commit" /\ r.item = i /\ r.user = u
      /\ r.row = row /\ r.means = means /\ r.fresh /\ r.tally = t
  BY <1>1 DEF Serving, Idle, Request, Steps
<1> HIDE DEF r
<1> QED BY <1>2, <1>3 DEF t, Proposes

\* Each way to write a review writes one of an item that exists, and does with it what
\* its author or moderator means.
LEMMA Writes ==
  ASSUME TypeOK, Linked, NEW c \in Calls, NEW kind \in SUBSET Items,
         Submit(c, kind) \/ Toggle(c, kind) \/ ApproveReview(c) \/ Delete(c, kind)
  PROVE  \E i \in Items, u \in Users, row \in Review \cup {NoReview},
            means \in {"shown", "hidden", "crossed"} :
            /\ Exists(i) /\ Write(c, i, u, row, means)
            /\ ModeratedAsMeant /\ row # NoReview /\ means # "crossed"
                 => (row.approved <=> means = "shown")
<1> DEFINE Writing(i, u, row, means) ==
            /\ Exists(i) /\ Write(c, i, u, row, means)
            /\ ModeratedAsMeant /\ row # NoReview /\ means # "crossed"
                 => (row.approved <=> means = "shown")
<1>1. CASE Submit(c, kind)
  <2>1. PICK i \in kind, u \in Users, n \in Ratings :
          /\ Exists(i)
          /\ IF review[i][u] = NoReview
             THEN Write(c, i, u, [rating |-> n, approved |-> TRUE], "shown")
             ELSE Write(c, i, u, [review[i][u] EXCEPT !.rating = n], meant[i][u])
    BY <1>1 DEF Submit
  <2>2. CASE review[i][u] = NoReview
    <3>1. [rating |-> n, approved |-> TRUE] \in Review
      BY DEF Review
    <3>2. Writing(i, u, [rating |-> n, approved |-> TRUE], "shown")
      BY <2>1, <2>2
    <3> QED BY <3>1, <3>2
  <2>3. CASE review[i][u] # NoReview
    <3>1. review[i][u] \in Review /\ meant[i][u] \in {"shown", "hidden", "crossed"}
      BY <2>3 DEF TypeOK
    <3>2. /\ [review[i][u] EXCEPT !.rating = n] \in Review
          /\ [review[i][u] EXCEPT !.rating = n].approved = review[i][u].approved
      BY <3>1 DEF Review
    <3>3. Writing(i, u, [review[i][u] EXCEPT !.rating = n], meant[i][u])
      BY <2>1, <2>3, <3>2 DEF ModeratedAsMeant
    <3> QED BY <3>1, <3>2, <3>3
  <2> QED BY <2>2, <2>3
<1> DEFINE q == req[c]
           r == review[q.item][q.user]
<1>2. ASSUME At(c, "moderate"), req[c].valid
      PROVE  /\ q.item \in Items /\ q.user \in Users
             /\ r \in Review /\ Exists(q.item) /\ q.saw \in BOOLEAN
  <2>1. q.item \in Items /\ q.user \in Users /\ r # NoReview
    BY <1>2 DEF Linked, Held, At
  <2>2. q.saw \in BOOLEAN
    BY DEF TypeOK, Request
  <2> QED BY <2>1, <2>2 DEF TypeOK, Linked
<1>3. CASE Toggle(c, kind)
  <2> DEFINE means == IF q.saw # r.approved THEN "crossed"
                      ELSE IF q.saw THEN "hidden" ELSE "shown"
             row == [r EXCEPT !.approved = ~ @]
  <2>1. Write(c, q.item, q.user, row, means)
    BY <1>3 DEF Toggle
  <2>2. r \in Review /\ q.item \in Items /\ q.user \in Users /\ Exists(q.item) /\ q.saw \in BOOLEAN
    BY <1>2, <1>3 DEF Toggle, Moderating
  <2>3. row \in Review /\ row.approved = ~ r.approved /\ r.approved \in BOOLEAN
    BY <2>2 DEF Review
  <2>4. means # "crossed" => (row.approved <=> means = "shown")
    BY <2>2, <2>3
  <2>5. means \in {"shown", "hidden", "crossed"}
    OBVIOUS
  <2> HIDE DEF means, row, q
  <2>6. Writing(q.item, q.user, row, means)
    BY <2>1, <2>2, <2>4
  <2> QED BY <2>2, <2>3, <2>5, <2>6
<1>4. CASE ApproveReview(c)
  <2> DEFINE row == [r EXCEPT !.approved = TRUE]
  <2>1. Write(c, q.item, q.user, row, "shown")
    BY <1>4 DEF ApproveReview
  <2>2. r \in Review /\ q.item \in Items /\ q.user \in Users /\ Exists(q.item)
    BY <1>2, <1>4 DEF ApproveReview, Moderating
  <2>3. row \in Review /\ row.approved
    BY <2>2 DEF Review
  <2> HIDE DEF row, q
  <2>4. Writing(q.item, q.user, row, "shown")
    BY <2>1, <2>2, <2>3
  <2> QED BY <2>2, <2>3, <2>4
<1>5. CASE Delete(c, kind)
  <2>1. Write(c, q.item, q.user, NoReview, "shown")
    BY <1>5 DEF Delete
  <2>2. q.item \in Items /\ q.user \in Users /\ Exists(q.item)
    BY <1>2, <1>5 DEF Delete, Moderating
  <2> HIDE DEF q
  <2>3. Writing(q.item, q.user, NoReview, "shown")
    BY <2>1, <2>2
  <2> QED BY <2>2, <2>3
<1> QED BY <1>1, <1>3, <1>4, <1>5

\* A step of a call that stores nothing and goes on with r.
LEMMA EntersType ==
  ASSUME TypeOK, NEW c \in Calls, NEW r \in Request, Enter(c, r),
         UNCHANGED <<item, part, opinion, usage>>
  PROVE  TypeOK'
<1>1. req' \in [Calls -> Request]
  BY DEF TypeOK, Enter
<1> QED BY <1>1 DEF TypeOK, opinion, usage

\* The flags of histories change no type.
LEMMA RequestKept ==
  ASSUME NEW r \in Request
  PROVE  [r EXCEPT !.fresh = FALSE] \in Request /\ [r EXCEPT !.valid = FALSE] \in Request
  BY DEF Request

\* The writing of a review, by its author or a moderator.
LEMMA WritesType ==
  ASSUME TypeOK, Linked, NEW c \in Calls, NEW kind \in SUBSET Items,
         Submit(c, kind) \/ Toggle(c, kind) \/ ApproveReview(c) \/ Delete(c, kind)
  PROVE  TypeOK'
<1>1. PICK i \in Items, u \in Users, row \in Review \cup {NoReview},
           means \in {"shown", "hidden", "crossed"} : Write(c, i, u, row, means)
  BY Writes
<1>2. PICK r \in Request : Proposes(c, r, i, u, row, means)
  BY <1>1, WriteType
<1> QED BY <1>2, EntersType DEF Proposes

\* Its commit, together with the rating its trigger computed.
LEMMA CommitType ==
  ASSUME TypeOK, Linked, NEW c \in Calls, Commit(c)
  PROVE  TypeOK'
<1> DEFINE q == req[c]
<1>1. /\ q.item \in Items /\ q.user \in Users
      /\ q.row \in Review \cup {NoReview} /\ q.tally \in Tallies
      /\ q.means \in {"shown", "hidden", "crossed"}
  BY DEF Commit, Linked, Held, At, TypeOK, Request
<1>2. review' \in [Items -> [Users -> Review \cup {NoReview}]]
  BY <1>1 DEF Commit, TypeOK
<1>3. rating' \in [Items -> Tallies] /\ alone' \subseteq Items
  BY <1>1 DEF Commit, TypeOK
<1>4. meant' \in [Items -> [Users -> {"shown", "hidden", "crossed"}]]
  BY <1>1 DEF Commit, TypeOK
<1>5. req' \in [Calls -> Request]
  <2>1. \A d \in Calls : /\ [req[d] EXCEPT !.fresh = FALSE] \in Request
                         /\ [req[d] EXCEPT !.valid = FALSE] \in Request
    BY RequestKept DEF TypeOK
  <2>2. \A d \in Calls : req'[d] \in {Idle, req[d], [req[d] EXCEPT !.fresh = FALSE],
                                      [req[d] EXCEPT !.valid = FALSE]}
    BY DEF Commit
  <2>3. \A d \in Calls : req'[d] \in Request
    BY <2>1, <2>2, IdleType DEF TypeOK
  <2>4. req' = [d \in Calls |-> req'[d]]
    BY DEF Commit
  <2> QED BY <2>3, <2>4
<1> QED BY <1>2, <1>3, <1>4, <1>5 DEF Commit, TypeOK, usage

\* The erasure of a server and of all below it.
LEMMA EraseType ==
  ASSUME TypeOK, Linked, NEW c \in Calls, EraseRow(c)
  PROVE  TypeOK'
<1> DEFINE s == req[c].item
<1>1. s \in Servers /\ s \in Items
  BY DEF EraseRow, Linked, Held, At, Items
<1>2. CASE ~ Exists(s)
  <2>1. Answer(c) /\ UNCHANGED <<item, part, opinion, usage>>
    BY <1>2 DEF EraseRow, usage
  <2> QED BY <2>1, IdleType, EntersType DEF Answer
<1>3. CASE Exists(s)
  <2>1. /\ item' = [item EXCEPT ![s] = "gone"]
        /\ part' = [part EXCEPT ![s] = [t \in Tables |-> {}]]
        /\ review' = [review EXCEPT ![s] = [u \in Users |-> NoReview]]
        /\ rating' = [rating EXCEPT ![s] = Zero]
        /\ favourite' = [favourite EXCEPT ![s] = {}]
        /\ installed' = [installed EXCEPT ![s] = {}]
        /\ counter' = [counter EXCEPT ![s] = 0]
        /\ meant' = [meant EXCEPT ![s] = [u \in Users |-> "shown"]]
        /\ alone' = alone \cup {s}
        /\ req' = [d \in Calls |->
                      IF d = c THEN Idle
                      ELSE IF d \in Outdated(s, Users) THEN [req[d] EXCEPT !.valid = FALSE]
                      ELSE req[d]]
        /\ UNCHANGED used
    BY <1>3 DEF EraseRow
  <2>2. req' \in [Calls -> Request]
    <3>1. \A d \in Calls : [req[d] EXCEPT !.valid = FALSE] \in Request
      BY RequestKept DEF TypeOK
    <3> QED BY <2>1, <3>1, IdleType DEF TypeOK
  <2>3. /\ item' \in [Items -> {"none", "shown", "hidden", "gone"}]
        /\ part' \in [Servers -> [Tables -> SUBSET Parts]]
        /\ review' \in [Items -> [Users -> Review \cup {NoReview}]]
    BY <1>1, <2>1 DEF TypeOK
  <2>4. /\ rating' \in [Items -> Tallies]
        /\ favourite' \in [Items -> SUBSET Users]
        /\ installed' \in [Servers -> SUBSET Users]
        /\ used' \in [Prompts -> Nat] /\ counter' \in [Items -> Nat]
    BY <1>1, <2>1 DEF TypeOK, Zero, Tallies
  <2>5. alone' \subseteq Items /\ meant' \in [Items -> [Users -> {"shown", "hidden", "crossed"}]]
    BY <1>1, <2>1 DEF TypeOK
  <2> QED BY <2>2, <2>3, <2>4, <2>5 DEF TypeOK
<1> QED BY <1>2, <1>3

\* Every step keeps the types, given what the calls rely on.
LEMMA TypeStep ==
  ASSUME TypeOK, Linked, [Next]_vars
  PROVE  TypeOK'
<1>1. ASSUME NEW p \in Prompts, CreatePrompt(p) \/ UpdatePrompt(p) PROVE TypeOK'
  BY <1>1 DEF CreatePrompt, UpdatePrompt, TypeOK, opinion, usage
<1>2. ASSUME NEW s \in Servers, CreateServer(s) \/ UpdateServer(s) \/ DeleteServer(s)
      PROVE  TypeOK'
  BY <1>2 DEF CreateServer, UpdateServer, DeleteServer, TypeOK, opinion, usage
<1>3. ASSUME NEW s \in Servers, NEW t \in Tables, EditParts(t, s) PROVE TypeOK'
  <2>1. part' \in [Servers -> [Tables -> SUBSET Parts]]
    <3>1. part[s][t] \subseteq Parts
      BY DEF TypeOK
    <3>2. PICK x \in Parts \cup part[s][t] :
            \/ part' = [part EXCEPT ![s][t] = @ \cup {x}]
            \/ part' = [part EXCEPT ![s][t] = @ \ {x}]
      BY <1>3 DEF EditParts
    <3>3. CASE part' = [part EXCEPT ![s][t] = @ \cup {x}]
      <4>1. part[s][t] \cup {x} \in SUBSET Parts
        BY <3>1
      <4> QED BY <3>3, <4>1 DEF TypeOK
    <3>4. CASE part' = [part EXCEPT ![s][t] = @ \ {x}]
      <4>1. part[s][t] \ {x} \in SUBSET Parts
        BY <3>1
      <4> QED BY <3>4, <4>1 DEF TypeOK
    <3> QED BY <3>2, <3>3, <3>4
  <2> QED BY <1>3, <2>1 DEF EditParts, TypeOK, opinion, usage
<1>4. ASSUME NEW s \in Servers, NEW u \in Users, Install(s, u) \/ Uninstall(s, u) PROVE TypeOK'
  <2>1. s \in Items
    BY DEF Items
  <2>2. UNCHANGED <<item, part, opinion, favourite, used, req>>
    BY <1>4 DEF Install, Uninstall
  <2>3. \/ installed' = [installed EXCEPT ![s] = @ \cup {u}]
        \/ installed' = [installed EXCEPT ![s] = @ \ {u}]
    BY <1>4 DEF Install, Uninstall
  <2>4. installed' \in [Servers -> SUBSET Users]
    BY <2>3 DEF TypeOK
  <2>5. counter' \in [Items -> Nat]
    <3>1. \E n \in Nat : counter' = [counter EXCEPT ![s] = n]
      BY <1>4, <2>1 DEF Install, Uninstall, TypeOK
    <3> QED BY <3>1 DEF TypeOK
  <2> QED BY <2>2, <2>4, <2>5 DEF TypeOK, opinion
<1>5. ASSUME NEW c \in Calls, NEW kind \in SUBSET Items, FavouriteRead(c, kind) PROVE TypeOK'
  <2>1. PICK i \in kind, u \in Users :
          Enter(c, Serving(IF u \in favourite[i] THEN "unfavour" ELSE "favour", i, u))
    BY <1>5 DEF FavouriteRead
  <2>2. Serving(IF u \in favourite[i] THEN "unfavour" ELSE "favour", i, u) \in Request
    BY ServingType DEF Steps
  <2> QED BY <1>5, <2>1, <2>2, EntersType DEF FavouriteRead
<1>6. ASSUME NEW c \in Calls, FavouriteAdd(c) \/ FavouriteRemove(c) PROVE TypeOK'
  <2>1. req[c].item \in Items /\ req[c].user \in Users
    BY <1>6 DEF FavouriteAdd, FavouriteRemove, Linked, Held, At
  <2>2. favourite' \in [Items -> SUBSET Users]
    BY <1>6, <2>1 DEF FavouriteAdd, FavouriteRemove, TypeOK
  <2>3. req' \in [Calls -> Request]
    BY <1>6, IdleType DEF FavouriteAdd, FavouriteRemove, Answer, Enter, TypeOK
  <2> QED BY <1>6, <2>2, <2>3 DEF FavouriteAdd, FavouriteRemove, TypeOK, opinion
<1>7. ASSUME NEW c \in Calls, UseRead(c) PROVE TypeOK'
  <2>1. PICK p \in Prompts, u \in Users : Enter(c, Serving("use", p, u))
    BY <1>7 DEF UseRead, Listed
  <2>2. Serving("use", p, u) \in Request
    BY ServingType DEF Steps, Items
  <2> QED BY <1>7, <2>1, <2>2, EntersType DEF UseRead
<1>8. ASSUME NEW c \in Calls, UseInsert(c) PROVE TypeOK'
  <2>1. req[c].item \in Prompts /\ req[c].item \in Items
    BY <1>8 DEF UseInsert, Linked, Held, At, Items
  <2>2. used' \in [Prompts -> Nat] /\ counter' \in [Items -> Nat]
    BY <1>8, <2>1 DEF UseInsert, TypeOK
  <2>3. req' \in [Calls -> Request]
    BY <1>8, IdleType DEF UseInsert, Answer, Enter, TypeOK
  <2> QED BY <1>8, <2>2, <2>3 DEF UseInsert, TypeOK, opinion
<1>9. ASSUME NEW c \in Calls, EraseRead(c) PROVE TypeOK'
  <2>1. PICK s \in Servers : Enter(c, Serving("erase", s, NoUser))
    BY <1>9 DEF EraseRead
  <2>2. Serving("erase", s, NoUser) \in Request
    BY ServingType DEF Steps, Items
  <2> QED BY <1>9, <2>1, <2>2, EntersType DEF EraseRead
<1>10. ASSUME NEW c \in Calls, EraseRow(c) PROVE TypeOK'
  BY <1>10, EraseType
<1>11. ASSUME NEW c \in Calls, NEW kind \in SUBSET Items,
              Submit(c, kind) \/ Toggle(c, kind) \/ ApproveReview(c) \/ Delete(c, kind)
       PROVE  TypeOK'
  BY <1>11, WritesType
<1>12. ASSUME NEW c \in Calls, NEW kind \in SUBSET Items, ModerateRead(c, kind) PROVE TypeOK'
  <2>1. PICK i \in kind, u \in Users :
          /\ review[i][u] # NoReview
          /\ Enter(c, [Serving("moderate", i, u) EXCEPT !.saw = review[i][u].approved])
    BY <1>12 DEF ModerateRead
  <2>2. review[i][u].approved \in BOOLEAN
    BY <2>1 DEF TypeOK, Review
  <2>3. Serving("moderate", i, u) \in Request
    BY ServingType DEF Steps
  <2>4. [Serving("moderate", i, u) EXCEPT !.saw = review[i][u].approved] \in Request
    BY <2>2, <2>3 DEF Request
  <2> QED BY <1>12, <2>1, <2>4, EntersType DEF ModerateRead
<1>13. ASSUME NEW c \in Calls, ModerateGone(c) \/ Crash(c) PROVE TypeOK'
  BY <1>13, IdleType, EntersType DEF ModerateGone, Crash, Answer
<1>14. ASSUME NEW c \in Calls, Commit(c) PROVE TypeOK'
  BY <1>14, CommitType
<1>15. CASE UNCHANGED vars
  BY <1>15 DEF vars, opinion, usage, TypeOK
<1>16. /\ {"tools", "agents", "resources", "snippets"} = Tables
       /\ {Prompts, Servers} \subseteq SUBSET Items
  BY DEF Tables, Items
<1> QED
  BY <1>1, <1>2, <1>3, <1>4, <1>5, <1>6, <1>7, <1>8, <1>9, <1>10, <1>11, <1>12, <1>13,
     <1>14, <1>15, <1>16
  DEF Next, Tools, Agents, Resources, Snippets, FavouritePrompt, FavouriteServer,
      SubmitReview, UpsertReview, PromptReviews, ServerReviews, TogglePrompt, ToggleServer,
      DeletePromptReview, DeleteServerReview

-----------------------------------------------------------------------------
(* The kinds of step *)

\* An item that exists goes on to, and a server deactivated or erased stays so.
Lasting ==
    /\ \A i \in Items : Exists(i) => Exists(i)'
    /\ \A s \in Servers : item[s] \in {"hidden", "gone"} => item'[s] \in {"hidden", "gone"}

\* The call goes on with r, and neither reviews nor items change.
Advances(c, r) ==
    /\ Enter(c, r) /\ UNCHANGED <<item, opinion>>
    /\ r.step # "commit" /\ r.tally = Zero /\ Held(r)

\* For reviews a step is of one of five kinds: beside them, the next statement of a call,
\* the writing of a review, its commit, or the erasure of a server.
LEMMA Moves ==
  ASSUME TypeOK, Linked, [Next]_vars
  PROVE  \/ UNCHANGED <<opinion, req>> /\ Lasting
         \/ \E c \in Calls, r \in Request : Advances(c, r)
         \/ \E c \in Calls, kind \in SUBSET Items :
                Submit(c, kind) \/ Toggle(c, kind) \/ ApproveReview(c) \/ Delete(c, kind)
         \/ \E c \in Calls : Commit(c)
         \/ \E c \in Calls : EraseRow(c) /\ Exists(req[c].item)
<1> DEFINE Goal ==
         \/ UNCHANGED <<opinion, req>> /\ Lasting
         \/ \E c \in Calls, r \in Request : Advances(c, r)
         \/ \E c \in Calls, kind \in SUBSET Items :
                Submit(c, kind) \/ Toggle(c, kind) \/ ApproveReview(c) \/ Delete(c, kind)
         \/ \E c \in Calls : Commit(c)
         \/ \E c \in Calls : EraseRow(c) /\ Exists(req[c].item)
<1>1. ASSUME NEW p \in Prompts, CreatePrompt(p) \/ UpdatePrompt(p) PROVE Goal
  <2>1. UNCHANGED <<opinion, req>>
    BY <1>1 DEF CreatePrompt, UpdatePrompt
  <2>2. p \notin Servers
    BY KindAssumption
  <2>3. Lasting
    BY <1>1, <2>2 DEF CreatePrompt, UpdatePrompt, Lasting, Exists, TypeOK, Items
  <2> QED BY <2>1, <2>3
<1>2. ASSUME NEW s \in Servers, CreateServer(s) \/ UpdateServer(s) \/ DeleteServer(s)
      PROVE  Goal
  <2>1. UNCHANGED <<opinion, req>>
    BY <1>2 DEF CreateServer, UpdateServer, DeleteServer
  <2>2. Lasting
    BY <1>2 DEF CreateServer, UpdateServer, DeleteServer, Lasting, Exists, TypeOK, Items
  <2> QED BY <2>1, <2>2
<1>3. ASSUME UNCHANGED <<item, opinion, req>> PROVE Goal
  BY <1>3 DEF Lasting, Exists
<1>4. ASSUME NEW c \in Calls, NEW kind \in SUBSET Items, FavouriteRead(c, kind) PROVE Goal
  <2>1. PICK i \in kind, u \in Users :
          Enter(c, Serving(IF u \in favourite[i] THEN "unfavour" ELSE "favour", i, u))
    BY <1>4 DEF FavouriteRead
  <2> DEFINE step == IF u \in favourite[i] THEN "unfavour" ELSE "favour"
             r == Serving(step, i, u)
  <2>2. r \in Request /\ r.step = step /\ r.item = i /\ r.user = u /\ r.tally = Zero
    BY ServingType DEF Steps
  <2>3. UNCHANGED <<item, opinion>>
    BY <1>4 DEF FavouriteRead
  <2> HIDE DEF r
  <2>4. Held(r) /\ r.step # "commit"
    BY <2>2 DEF Held
  <2> QED BY <2>1, <2>2, <2>3, <2>4 DEF Advances, r
<1>5. ASSUME NEW c \in Calls, Answer(c), UNCHANGED <<item, opinion>> PROVE Goal
  <2>1. Held(Idle) /\ Idle.step # "commit"
    BY IdleType DEF Held
  <2> QED BY <1>5, <2>1, IdleType DEF Advances, Answer
<1>6. ASSUME NEW c \in Calls, UseRead(c) PROVE Goal
  <2>1. PICK p \in Prompts, u \in Users : Enter(c, Serving("use", p, u))
    BY <1>6 DEF UseRead, Listed
  <2> DEFINE r == Serving("use", p, u)
  <2>2. r \in Request /\ r.step = "use" /\ r.item = p /\ r.tally = Zero
    BY ServingType DEF Steps, Items
  <2>3. UNCHANGED <<item, opinion>>
    BY <1>6 DEF UseRead
  <2> HIDE DEF r
  <2>4. Held(r)
    BY <2>2 DEF Held, Items
  <2> QED BY <2>1, <2>2, <2>3, <2>4 DEF Advances, r
<1>7. ASSUME NEW c \in Calls, EraseRead(c) PROVE Goal
  <2>1. PICK s \in Servers : item[s] = "hidden" /\ Enter(c, Serving("erase", s, NoUser))
    BY <1>7 DEF EraseRead
  <2> DEFINE r == Serving("erase", s, NoUser)
  <2>2. r \in Request /\ r.step = "erase" /\ r.item = s /\ r.tally = Zero
    BY ServingType DEF Steps, Items
  <2>3. UNCHANGED <<item, opinion>>
    BY <1>7 DEF EraseRead
  <2> HIDE DEF r
  <2>4. Held(r)
    BY <2>1, <2>2 DEF Held, Items
  <2> QED BY <2>1, <2>2, <2>3, <2>4 DEF Advances, r
<1>8. ASSUME NEW c \in Calls, EraseRow(c) PROVE Goal
  <2>1. CASE Exists(req[c].item)
    BY <1>8, <2>1
  <2>2. CASE ~ Exists(req[c].item)
    BY <1>5, <1>8, <2>2 DEF EraseRow
  <2> QED BY <2>1, <2>2
<1>9. ASSUME NEW c \in Calls, NEW kind \in SUBSET Items, ModerateRead(c, kind) PROVE Goal
  <2>1. PICK i \in kind, u \in Users :
          /\ review[i][u] # NoReview
          /\ Enter(c, [Serving("moderate", i, u) EXCEPT !.saw = review[i][u].approved])
    BY <1>9 DEF ModerateRead
  <2> DEFINE r == [Serving("moderate", i, u) EXCEPT !.saw = review[i][u].approved]
  <2>2. review[i][u].approved \in BOOLEAN
    BY <2>1 DEF TypeOK, Review
  <2>3. Serving("moderate", i, u) \in Request
    BY ServingType DEF Steps
  <2>4. /\ r \in Request /\ r.step = "moderate" /\ r.item = i /\ r.user = u
        /\ r.tally = Zero
    BY <2>2, <2>3, ServingType DEF Request, Steps
  <2>5. UNCHANGED <<item, opinion>>
    BY <1>9 DEF ModerateRead
  <2> HIDE DEF r
  <2>6. Held(r)
    BY <2>1, <2>4 DEF Held
  <2> QED BY <2>1, <2>4, <2>5, <2>6 DEF Advances, r
<1>10. ASSUME NEW s \in Servers, \/ \E t \in Tables : EditParts(t, s)
                                 \/ \E u \in Users : Install(s, u) \/ Uninstall(s, u)
       PROVE  Goal
  BY <1>3, <1>10 DEF EditParts, Install, Uninstall
<1>11. ASSUME NEW c \in Calls, \/ FavouriteAdd(c) \/ FavouriteRemove(c) \/ UseInsert(c)
                               \/ ModerateGone(c) \/ Crash(c)
       PROVE  Goal
  BY <1>5, <1>11 DEF FavouriteAdd, FavouriteRemove, UseInsert, ModerateGone, Crash
<1>12. CASE UNCHANGED vars
  BY <1>3, <1>12 DEF vars
<1>13. /\ {"tools", "agents", "resources", "snippets"} = Tables
       /\ {Prompts, Servers} \subseteq SUBSET Items
  BY DEF Tables, Items
<1> QED
  BY <1>1, <1>2, <1>4, <1>6, <1>7, <1>8, <1>9, <1>10, <1>11, <1>12, <1>13
  DEF Next, Tools, Agents, Resources, Snippets, FavouritePrompt, FavouriteServer,
      SubmitReview, UpsertReview, PromptReviews, ServerReviews, TogglePrompt, ToggleServer,
      DeletePromptReview, DeleteServerReview

\* What the erasure of a server that exists does to reviews and calls.
Erased(s) ==
    /\ item' = [item EXCEPT ![s] = "gone"] /\ item[s] = "hidden"
    /\ review' = [review EXCEPT ![s] = [u \in Users |-> NoReview]]
    /\ rating' = [rating EXCEPT ![s] = Zero]
    /\ meant' = [meant EXCEPT ![s] = [u \in Users |-> "shown"]]
    /\ alone' = alone \cup {s}
    /\ Reviewing(s) = {}
    /\ \A d \in Calls :
        \/ req'[d] = Idle
        \/ req'[d] = [req[d] EXCEPT !.valid = FALSE]
        \/ /\ req'[d] = req[d]
           /\ ~ (At(d, "moderate") /\ req[d].item = s /\ req[d].user \in Users)

\* permanent_delete_server erases a server that is deactivated.
LEMMA Erasure ==
  ASSUME TypeOK, Linked, NEW c \in Calls, EraseRow(c), Exists(req[c].item)
  PROVE  \E s \in Servers : Erased(s)
<1> DEFINE s == req[c].item
<1>1. s \in Servers /\ item[s] = "hidden"
  BY DEF EraseRow, Linked, Held, At, Exists
<1>2. \A d \in Calls :
        req'[d] = IF d = c THEN Idle
                  ELSE IF d \in Outdated(s, Users) THEN [req[d] EXCEPT !.valid = FALSE]
                  ELSE req[d]
  BY DEF EraseRow
<1>3. \A d \in Calls :
        \/ req'[d] = Idle
        \/ req'[d] = [req[d] EXCEPT !.valid = FALSE]
        \/ /\ req'[d] = req[d]
           /\ ~ (At(d, "moderate") /\ req[d].item = s /\ req[d].user \in Users)
  BY <1>2 DEF Outdated
<1>4. /\ item' = [item EXCEPT ![s] = "gone"]
      /\ review' = [review EXCEPT ![s] = [u \in Users |-> NoReview]]
      /\ rating' = [rating EXCEPT ![s] = Zero]
      /\ meant' = [meant EXCEPT ![s] = [u \in Users |-> "shown"]]
      /\ alone' = alone \cup {s}
      /\ Reviewing(s) = {}
  BY DEF EraseRow
<1> QED BY <1>1, <1>3, <1>4 DEF Erased

\* What the commit of the review of i by u does to reviews and calls.
Committed(c, i, u) ==
    LET q == req[c] IN
    /\ At(c, "commit") /\ q.item = i /\ q.user = u /\ Exists(i) /\ UNCHANGED item
    /\ q.row \in Review \cup {NoReview} /\ q.tally \in Tallies
    /\ review' = [review EXCEPT ![i][u] = q.row]
    /\ rating' = [rating EXCEPT ![i] = q.tally]
    /\ meant' = [meant EXCEPT ![i][u] = q.means]
    /\ alone' = IF q.fresh THEN alone \cup {i} ELSE alone \ {i}
    /\ \A d \in Calls :
        \/ req'[d] = Idle
        \/ req'[d] = [req[d] EXCEPT !.fresh = FALSE] /\ At(d, "commit")
        \/ req'[d] = [req[d] EXCEPT !.valid = FALSE] /\ At(d, "moderate")
        \/ /\ req'[d] = req[d]
           /\ ~ (At(d, "commit") /\ req[d].item = i)
           /\ ~ (/\ q.row = NoReview /\ At(d, "moderate")
                 /\ req[d].item = i /\ req[d].user = u)

\* What a call commits is the review of an item that exists.
LEMMA Committing ==
  ASSUME TypeOK, Linked, NEW c \in Calls, Commit(c)
  PROVE  \E i \in Items, u \in Users : Committed(c, i, u)
<1> DEFINE q == req[c]
<1>1. /\ q.item \in Items /\ q.user \in Users /\ Exists(q.item)
      /\ q.row \in Review \cup {NoReview} /\ q.tally \in Tallies
  BY DEF Commit, Linked, Held, At, TypeOK, Request
<1>2. \A d \in Calls :
        req'[d] = IF d = c THEN Idle
                  ELSE IF d \in Reviewing(q.item) THEN [req[d] EXCEPT !.fresh = FALSE]
                  ELSE IF q.row = NoReview /\ d \in Outdated(q.item, {q.user})
                       THEN [req[d] EXCEPT !.valid = FALSE]
                  ELSE req[d]
  BY DEF Commit
<1>3. \A d \in Calls :
        \/ req'[d] = Idle
        \/ req'[d] = [req[d] EXCEPT !.fresh = FALSE] /\ At(d, "commit")
        \/ req'[d] = [req[d] EXCEPT !.valid = FALSE] /\ At(d, "moderate")
        \/ /\ req'[d] = req[d]
           /\ ~ (At(d, "commit") /\ req[d].item = q.item)
           /\ ~ (/\ q.row = NoReview /\ At(d, "moderate")
                 /\ req[d].item = q.item /\ req[d].user = q.user)
  BY <1>2 DEF Outdated, Reviewing
<1>4. /\ At(c, "commit") /\ UNCHANGED item
      /\ review' = [review EXCEPT ![q.item][q.user] = q.row]
      /\ rating' = [rating EXCEPT ![q.item] = q.tally]
      /\ meant' = [meant EXCEPT ![q.item][q.user] = q.means]
      /\ alone' = IF q.fresh THEN alone \cup {q.item} ELSE alone \ {q.item}
  BY DEF Commit
<1> QED BY <1>1, <1>3, <1>4 DEF Committed

\* A request of which only the flags of histories changed.
LEMMA RequestFields ==
  ASSUME NEW r \in Request
  PROVE  /\ [r EXCEPT !.fresh = FALSE].step = r.step
         /\ [r EXCEPT !.fresh = FALSE].item = r.item
         /\ [r EXCEPT !.fresh = FALSE].user = r.user
         /\ [r EXCEPT !.fresh = FALSE].row = r.row
         /\ [r EXCEPT !.fresh = FALSE].tally = r.tally
         /\ [r EXCEPT !.fresh = FALSE].valid = r.valid
         /\ [r EXCEPT !.fresh = FALSE].means = r.means
         /\ [r EXCEPT !.fresh = FALSE].fresh = FALSE
         /\ [r EXCEPT !.valid = FALSE].step = r.step
         /\ [r EXCEPT !.valid = FALSE].item = r.item
         /\ [r EXCEPT !.valid = FALSE].user = r.user
         /\ [r EXCEPT !.valid = FALSE].row = r.row
         /\ [r EXCEPT !.valid = FALSE].tally = r.tally
         /\ [r EXCEPT !.valid = FALSE].fresh = r.fresh
         /\ [r EXCEPT !.valid = FALSE].means = r.means
         /\ [r EXCEPT !.valid = FALSE].valid = FALSE
  BY DEF Request

-----------------------------------------------------------------------------
(* What calls rely on, and the type invariant *)

\* No step takes from a call what it relies on: the item it read is not erased under a
\* review, no server comes back to life, and the page of a moderator loses its review only
\* as the model records.
LEMMA LinkStep ==
  ASSUME TypeOK, Linked, [Next]_vars
  PROVE  Linked'
<1>1. CASE UNCHANGED <<opinion, req>> /\ Lasting
  BY <1>1 DEF Linked, Held, Lasting, opinion, TypeOK
<1>2. ASSUME NEW c \in Calls, NEW r \in Request, Advances(c, r) PROVE Linked'
  <2>1. UNCHANGED <<item, review>> /\ \A d \in Calls : req'[d] = IF d = c THEN r ELSE req[d]
    BY <1>2 DEF Advances, Enter, opinion, TypeOK
  <2>2. \A d \in Calls : Held(req'[d])
    BY <1>2, <2>1 DEF Advances, Linked
  <2> QED BY <2>1, <2>2 DEF Linked, Held, Exists
<1>3. ASSUME NEW c \in Calls, NEW kind \in SUBSET Items,
             Submit(c, kind) \/ Toggle(c, kind) \/ ApproveReview(c) \/ Delete(c, kind)
      PROVE  Linked'
  <2>1. PICK i \in Items, u \in Users, row \in Review \cup {NoReview},
             means \in {"shown", "hidden", "crossed"} :
             Exists(i) /\ Write(c, i, u, row, means)
    BY <1>3, Writes
  <2>2. PICK r \in Request : Proposes(c, r, i, u, row, means)
    BY <2>1, WriteType
  <2>3. UNCHANGED <<item, review>> /\ \A d \in Calls : req'[d] = IF d = c THEN r ELSE req[d]
    BY <2>2 DEF Proposes, Enter, opinion, TypeOK
  <2>4. Held(r)
    BY <2>1, <2>2 DEF Proposes, Held
  <2>5. \A d \in Calls : Held(req'[d])
    BY <2>3, <2>4 DEF Linked
  <2> QED BY <2>3, <2>5 DEF Linked, Held, Exists
<1>4. ASSUME NEW c \in Calls, Commit(c) PROVE Linked'
  <2> DEFINE q == req[c]
  <2>1. PICK i \in Items, u \in Users : Committed(c, i, u)
    BY <1>4, Committing
  <2>2. \A j \in Items, v \in Users :
          review'[j][v] = IF j = i /\ v = u THEN q.row ELSE review[j][v]
    BY <2>1 DEF Committed, TypeOK
  <2>3. \A j \in Items, v \in Users : review'[j][v] # NoReview => Exists(j)'
    BY <2>1, <2>2 DEF Committed, Linked, Exists
  <2>4. ASSUME NEW d \in Calls PROVE Held(req[d])'
    <3>1. Held(req[d]) /\ req[d] \in Request
      BY DEF Linked, TypeOK
    <3>2. CASE req'[d] = Idle
      BY <3>2, IdleType DEF Held
    <3>3. CASE req'[d] = [req[d] EXCEPT !.valid = FALSE]
      BY <2>1, <3>1, <3>3, RequestFields DEF Committed, Held, Exists
    <3>4. CASE req'[d] = [req[d] EXCEPT !.fresh = FALSE] /\ At(d, "commit")
      BY <2>1, <3>1, <3>4, RequestFields DEF Committed, Held, Exists, At
    <3>5. CASE /\ req'[d] = req[d]
               /\ ~ (/\ q.row = NoReview /\ At(d, "moderate")
                     /\ req[d].item = i /\ req[d].user = u)
      BY <2>1, <2>2, <3>1, <3>5 DEF Committed, Held, Exists, At
    <3> QED BY <2>1, <3>2, <3>3, <3>4, <3>5 DEF Committed
  <2> QED BY <2>3, <2>4 DEF Linked
<1>5. ASSUME NEW c \in Calls, EraseRow(c), Exists(req[c].item) PROVE Linked'
  <2>1. PICK s \in Servers : Erased(s)
    BY <1>5, Erasure
  <2>2. s \in Items
    BY DEF Items
  <2>3. \A j \in Items, v \in Users :
          /\ review'[j][v] = IF j = s THEN NoReview ELSE review[j][v]
          /\ item'[j] = IF j = s THEN "gone" ELSE item[j]
    BY <2>1, <2>2 DEF Erased, TypeOK
  <2>4. ASSUME NEW d \in Calls PROVE Held(req[d])'
    <3>1. Held(req[d]) /\ req[d] \in Request
      BY DEF Linked, TypeOK
    <3>2. ~ (At(d, "commit") /\ req[d].item = s)
      BY <2>1 DEF Erased, Reviewing
    <3>3. CASE req'[d] = Idle
      BY <3>3, IdleType DEF Held
    <3>4. CASE req'[d] = [req[d] EXCEPT !.valid = FALSE]
      BY <2>1, <2>2, <2>3, <3>1, <3>2, <3>4, RequestFields DEF Erased, Held, Exists, At, Items
    <3>5. CASE /\ req'[d] = req[d]
               /\ ~ (At(d, "moderate") /\ req[d].item = s /\ req[d].user \in Users)
      BY <2>1, <2>2, <2>3, <3>1, <3>2, <3>5 DEF Erased, Held, Exists, At, Items
    <3> QED BY <2>1, <3>3, <3>4, <3>5 DEF Erased
  <2>5. \A j \in Items, v \in Users : review'[j][v] # NoReview => Exists(j)'
    BY <2>3 DEF Linked, Exists
  <2> QED BY <2>4, <2>5 DEF Linked
<1> QED BY <1>1, <1>2, <1>3, <1>4, <1>5, Moves

\* The invariant that all of the results below start from.
LEMMA LinkInvariant == Spec => [](TypeOK /\ Linked)
<1>1. Init => TypeOK /\ Linked
  <2> SUFFICES ASSUME Init PROVE TypeOK /\ Linked
    OBVIOUS
  <2>1. TypeOK
    BY IdleType DEF Init, TypeOK, Zero, Tallies
  <2>2. Linked
    BY IdleType DEF Init, Linked, Held
  <2> QED BY <2>1, <2>2
<1>2. TypeOK /\ Linked /\ [Next]_vars => (TypeOK /\ Linked)'
  BY TypeStep, LinkStep
<1> QED BY <1>1, <1>2, PTL DEF Spec

\* Every step of CatalogueUse keeps its variables in their types; the sums of ratings
\* are natural numbers because the triggers sum over the users there are.
THEOREM TypeCorrect == Spec => []TypeOK
  BY LinkInvariant, PTL

-----------------------------------------------------------------------------
(* Ratings *)

\* A rating and a tally under way are kept as long as their rows are.
LEMMA RatingStep ==
  ASSUME TypeOK, Linked, RatingInv, [Next]_vars
  PROVE  RatingInv'
<1>1. CASE UNCHANGED <<opinion, req>> /\ Lasting
  BY <1>1 DEF RatingInv, Foretold, opinion
<1>2. ASSUME NEW c \in Calls, NEW r \in Request, Advances(c, r) PROVE RatingInv'
  <2>1. /\ UNCHANGED <<review, rating, alone>>
        /\ \A d \in Calls : req'[d] = IF d = c THEN r ELSE req[d]
    BY <1>2 DEF Advances, Enter, opinion, TypeOK
  <2>2. \A d \in Calls : Foretold(req'[d])
    BY <1>2, <2>1 DEF Advances, RatingInv, Foretold
  <2> QED BY <2>1, <2>2 DEF RatingInv, Foretold
<1>3. ASSUME NEW c \in Calls, NEW kind \in SUBSET Items,
             Submit(c, kind) \/ Toggle(c, kind) \/ ApproveReview(c) \/ Delete(c, kind)
      PROVE  RatingInv'
  <2>1. PICK i \in Items, u \in Users, row \in Review \cup {NoReview},
             means \in {"shown", "hidden", "crossed"} : Write(c, i, u, row, means)
    BY <1>3, Writes
  <2>2. PICK r \in Request : Proposes(c, r, i, u, row, means)
    BY <2>1, WriteType
  <2>3. /\ UNCHANGED <<review, rating, alone>>
        /\ \A d \in Calls : req'[d] = IF d = c THEN r ELSE req[d]
    BY <2>2 DEF Proposes, Enter, opinion, TypeOK
  <2>4. Foretold(r)
    BY <2>2 DEF Proposes, Foretold
  <2>5. \A d \in Calls : Foretold(req'[d])
    BY <2>3, <2>4 DEF RatingInv
  <2> QED BY <2>3, <2>5 DEF RatingInv, Foretold
<1>4. ASSUME NEW c \in Calls, Commit(c) PROVE RatingInv'
  <2> DEFINE q == req[c]
  <2>1. PICK i \in Items, u \in Users : Committed(c, i, u)
    BY <1>4, Committing
  <2>2. /\ \A j \in Items \ {i} : review'[j] = review[j] /\ rating'[j] = rating[j]
        /\ review'[i] = [review[i] EXCEPT ![u] = q.row]
        /\ rating'[i] = q.tally
    BY <2>1 DEF Committed, TypeOK
  <2>3. ASSUME NEW j \in alone' PROVE rating'[j] = Tally(review'[j])
    <3>1. j \in Items
      BY <2>1, <2>3 DEF Committed, TypeOK
    <3>2. CASE j = i
      <4>1. q.fresh /\ q.step = "commit" /\ q.item = i /\ q.user = u
        BY <2>1, <2>3, <3>2 DEF Committed, At
      <4>2. q.tally = Tally([review[i] EXCEPT ![u] = q.row])
        BY <4>1 DEF RatingInv, Foretold
      <4> QED BY <2>2, <3>2, <4>2
    <3>3. CASE j # i
      <4>1. j \in alone
        BY <2>1, <2>3, <3>3 DEF Committed
      <4> QED BY <2>2, <3>1, <3>3, <4>1 DEF RatingInv
    <3> QED BY <3>2, <3>3
  <2>4. ASSUME NEW d \in Calls PROVE Foretold(req[d])'
    <3>1. Foretold(req[d]) /\ Held(req[d]) /\ req[d] \in Request
      BY DEF RatingInv, Linked, TypeOK
    <3>2. CASE req'[d] = Idle
      BY <3>2, IdleType DEF Foretold
    <3>3. CASE req'[d] = [req[d] EXCEPT !.fresh = FALSE]
      BY <3>1, <3>3, RequestFields DEF Foretold
    <3>4. CASE req'[d] = [req[d] EXCEPT !.valid = FALSE] /\ At(d, "moderate")
      BY <3>1, <3>4, RequestFields DEF Foretold, At
    <3>5. CASE req'[d] = req[d] /\ ~ (At(d, "commit") /\ req[d].item = i)
      <4>1. req[d].step = "commit" => req[d].item \in Items \ {i}
        BY <3>1, <3>5 DEF Held, At
      <4> QED BY <2>2, <3>1, <3>5, <4>1 DEF Foretold
    <3> QED BY <2>1, <3>2, <3>3, <3>4, <3>5 DEF Committed
  <2> QED BY <2>3, <2>4 DEF RatingInv
<1>5. ASSUME NEW c \in Calls, EraseRow(c), Exists(req[c].item) PROVE RatingInv'
  <2>1. PICK s \in Servers : Erased(s)
    BY <1>5, Erasure
  <2>2. s \in Items
    BY DEF Items
  <2>3. /\ \A j \in Items \ {s} : review'[j] = review[j] /\ rating'[j] = rating[j]
        /\ review'[s] = [u \in Users |-> NoReview]
        /\ rating'[s] = Zero
    BY <2>1, <2>2 DEF Erased, TypeOK
  <2>4. ASSUME NEW j \in alone' PROVE rating'[j] = Tally(review'[j])
    <3>1. CASE j = s
      BY <2>3, <3>1, TallyOfNone
    <3>2. CASE j # s
      <4>1. j \in alone /\ j \in Items
        BY <2>1, <2>4, <3>2 DEF Erased, TypeOK
      <4> QED BY <2>3, <3>2, <4>1 DEF RatingInv
    <3> QED BY <3>1, <3>2
  <2>5. ASSUME NEW d \in Calls PROVE Foretold(req[d])'
    <3>1. Foretold(req[d]) /\ Held(req[d]) /\ req[d] \in Request
      BY DEF RatingInv, Linked, TypeOK
    <3>2. req[d].step = "commit" => req[d].item \in Items \ {s}
      BY <2>1, <3>1 DEF Erased, Reviewing, Held, At
    <3>3. CASE req'[d] = Idle
      BY <3>3, IdleType DEF Foretold
    <3>4. CASE req'[d] = [req[d] EXCEPT !.valid = FALSE]
      BY <2>3, <3>1, <3>2, <3>4, RequestFields DEF Foretold
    <3>5. CASE req'[d] = req[d]
      BY <2>3, <3>1, <3>2, <3>5 DEF Foretold
    <3> QED BY <2>1, <3>3, <3>4, <3>5 DEF Erased
  <2> QED BY <2>4, <2>5 DEF RatingInv
<1> QED BY <1>1, <1>2, <1>3, <1>4, <1>5, Moves

\* The mean and the count beside an item are those of the reviews shown of it, unless
\* the review stored last was overtaken by another: what a trigger counted while no
\* other review of the item was committed is right when it stores it.
THEOREM RatingCurrent == Spec => []RatingIsCurrent
<1>1. Init => RatingInv
  <2> SUFFICES ASSUME Init PROVE RatingInv
    OBVIOUS
  <2>1. \A i \in alone : rating[i] = Tally(review[i])
    BY TallyOfNone DEF Init
  <2>2. \A c \in Calls : Foretold(req[c])
    BY IdleType DEF Init, Foretold
  <2> QED BY <2>1, <2>2 DEF RatingInv
<1>2. TypeOK /\ Linked /\ RatingInv /\ [Next]_vars => RatingInv'
  BY RatingStep
<1>3. TypeOK /\ RatingInv => RatingIsCurrent
  <2> SUFFICES ASSUME TypeOK, RatingInv, NEW i \in alone
               PROVE  rating[i] = [count |-> Cardinality(Displayed(i)),
                                   sum |-> Total(review[i], Displayed(i))]
    BY DEF RatingIsCurrent
  <2>1. {u \in Users : review[i][u] # NoReview /\ review[i][u].approved} = Displayed(i)
    <3> SUFFICES ASSUME NEW u \in Users
                 PROVE  (review[i][u] # NoReview /\ review[i][u].approved)
                        <=> review[i][u] \in [rating : Ratings, approved : {TRUE}]
      BY DEF Displayed
    <3>1. review[i][u] \in Review \cup {NoReview}
      BY DEF TypeOK
    <3> QED BY <3>1, NullAssumption DEF Review
  <2>2. rating[i] = Tally(review[i])
    BY DEF RatingInv
  <2> QED BY <2>1, <2>2 DEF Tally
<1> QED BY <1>1, <1>2, <1>3, LinkInvariant, PTL DEF Spec

\* The mean stored beside any item, overtaken or not, is that of ratings from 1 to 5, so
\* that rating_avg, a DECIMAL(3,2), always holds it.
THEOREM MeanFits == Spec => []MeanInScale
<1>0. Scaled(Zero)
  BY DEF Scaled, Zero
<1>1. Init => MeanInScale
  BY <1>0, IdleType DEF Init, MeanInScale
<1>2. ASSUME TypeOK, Linked, MeanInScale, [Next]_vars PROVE MeanInScale'
  <2>1. CASE UNCHANGED <<opinion, req>> /\ Lasting
    BY <1>2, <2>1 DEF MeanInScale, opinion
  <2>2. ASSUME NEW c \in Calls, NEW r \in Request, Advances(c, r) PROVE MeanInScale'
    <3>1. UNCHANGED rating /\ \A d \in Calls : req'[d] = IF d = c THEN r ELSE req[d]
      BY <1>2, <2>2 DEF Advances, Enter, opinion, TypeOK
    <3>2. Scaled(r.tally)
      BY <1>0, <2>2 DEF Advances
    <3> QED BY <1>2, <3>1, <3>2 DEF MeanInScale
  <2>3. ASSUME NEW c \in Calls, NEW kind \in SUBSET Items,
               Submit(c, kind) \/ Toggle(c, kind) \/ ApproveReview(c) \/ Delete(c, kind)
        PROVE  MeanInScale'
    <3>1. PICK i \in Items, u \in Users, row \in Review \cup {NoReview},
               means \in {"shown", "hidden", "crossed"} : Write(c, i, u, row, means)
      BY <1>2, <2>3, Writes
    <3>2. PICK r \in Request : Proposes(c, r, i, u, row, means)
      BY <1>2, <3>1, WriteType
    <3>3. UNCHANGED rating /\ \A d \in Calls : req'[d] = IF d = c THEN r ELSE req[d]
      BY <1>2, <3>2 DEF Proposes, Enter, opinion, TypeOK
    <3>4. [review[i] EXCEPT ![u] = row] \in Rows
      BY <1>2 DEF TypeOK, Rows
    <3>5. Scaled(r.tally)
      BY <3>2, <3>4, TallyType DEF Proposes
    <3> QED BY <1>2, <3>3, <3>5 DEF MeanInScale
  <2>4. ASSUME NEW c \in Calls, Commit(c) PROVE MeanInScale'
    <3>1. PICK i \in Items, u \in Users : Committed(c, i, u)
      BY <1>2, <2>4, Committing
    <3>2. \A j \in Items : rating'[j] = IF j = i THEN req[c].tally ELSE rating[j]
      BY <1>2, <3>1 DEF Committed, TypeOK
    <3>3. ASSUME NEW d \in Calls PROVE req'[d].tally \in {Zero, req[d].tally}
      <4>1. req[d] \in Request
        BY <1>2 DEF TypeOK
      <4>2. \/ req'[d] = Idle
            \/ req'[d] = [req[d] EXCEPT !.fresh = FALSE]
            \/ req'[d] = [req[d] EXCEPT !.valid = FALSE]
            \/ req'[d] = req[d]
        BY <3>1 DEF Committed
      <4> QED BY <4>1, <4>2, IdleType, RequestFields
    <3> QED BY <1>0, <1>2, <3>2, <3>3 DEF MeanInScale
  <2>5. ASSUME NEW c \in Calls, EraseRow(c), Exists(req[c].item) PROVE MeanInScale'
    <3>1. PICK s \in Servers : Erased(s)
      BY <1>2, <2>5, Erasure
    <3>2. \A j \in Items : rating'[j] = IF j = s THEN Zero ELSE rating[j]
      BY <1>2, <3>1 DEF Erased, TypeOK
    <3>3. ASSUME NEW d \in Calls PROVE req'[d].tally \in {Zero, req[d].tally}
      <4>1. req[d] \in Request
        BY <1>2 DEF TypeOK
      <4>2. \/ req'[d] = Idle
            \/ req'[d] = [req[d] EXCEPT !.valid = FALSE]
            \/ req'[d] = req[d]
        BY <3>1 DEF Erased
      <4> QED BY <4>1, <4>2, IdleType, RequestFields
    <3> QED BY <1>0, <1>2, <3>2, <3>3 DEF MeanInScale
  <2> QED BY <1>2, <2>1, <2>2, <2>3, <2>4, <2>5, Moves
<1> QED BY <1>1, <1>2, LinkInvariant, PTL DEF Spec

-----------------------------------------------------------------------------
(* Moderation *)

\* The flags of histories are not what a review means.
LEMMA IntendedField ==
  ASSUME NEW r \in Request, Intended(r)
  PROVE  Intended([r EXCEPT !.fresh = FALSE]) /\ Intended([r EXCEPT !.valid = FALSE])
<1>1. CASE r.step = "commit" /\ r.row # NoReview /\ r.means # "crossed"
  <2>1. r.row.approved <=> r.means = "shown"
    BY <1>1 DEF Intended
  <2> QED BY <2>1, RequestFields DEF Intended
<1>2. CASE ~ (r.step = "commit" /\ r.row # NoReview /\ r.means # "crossed")
  BY <1>2, RequestFields DEF Intended
<1> QED BY <1>1, <1>2

\* A review is shown or hidden as its last moderator meant, and so is one under way.
LEMMA MeantStep ==
  ASSUME TypeOK, Linked, MeantInv, [Next]_vars
  PROVE  MeantInv'
<1> USE DEF MeantInv
<1>1. CASE UNCHANGED <<opinion, req>> /\ Lasting
  BY <1>1 DEF ModeratedAsMeant, Intended, opinion
<1>2. ASSUME NEW c \in Calls, NEW r \in Request, Advances(c, r) PROVE MeantInv'
  <2>1. UNCHANGED <<review, meant>> /\ \A d \in Calls : req'[d] = IF d = c THEN r ELSE req[d]
    BY <1>2 DEF Advances, Enter, opinion, TypeOK
  <2>2. \A d \in Calls : Intended(req'[d])
    BY <1>2, <2>1 DEF Advances, Intended
  <2> QED BY <2>1, <2>2 DEF ModeratedAsMeant, Intended
<1>3. ASSUME NEW c \in Calls, NEW kind \in SUBSET Items,
             Submit(c, kind) \/ Toggle(c, kind) \/ ApproveReview(c) \/ Delete(c, kind)
      PROVE  MeantInv'
  <2>1. PICK i \in Items, u \in Users, row \in Review \cup {NoReview},
             means \in {"shown", "hidden", "crossed"} :
          /\ Exists(i) /\ Write(c, i, u, row, means)
          /\ ModeratedAsMeant /\ row # NoReview /\ means # "crossed"
               => (row.approved <=> means = "shown")
    BY <1>3, Writes
  <2>2. PICK r \in Request : Proposes(c, r, i, u, row, means)
    BY <2>1, WriteType
  <2>3. UNCHANGED <<review, meant>> /\ \A d \in Calls : req'[d] = IF d = c THEN r ELSE req[d]
    BY <2>2 DEF Proposes, Enter, opinion, TypeOK
  <2>4. Intended(r)
    BY <2>1, <2>2 DEF Proposes, Intended
  <2>5. \A d \in Calls : Intended(req'[d])
    BY <2>3, <2>4
  <2> QED BY <2>3, <2>5 DEF ModeratedAsMeant, Intended
<1>4. ASSUME NEW c \in Calls, Commit(c) PROVE MeantInv'
  <2> DEFINE q == req[c]
  <2>1. PICK i \in Items, u \in Users : Committed(c, i, u)
    BY <1>4, Committing
  <2>2. \A j \in Items, v \in Users :
          /\ review'[j][v] = IF j = i /\ v = u THEN q.row ELSE review[j][v]
          /\ meant'[j][v] = IF j = i /\ v = u THEN q.means ELSE meant[j][v]
    BY <2>1 DEF Committed, TypeOK
  <2>3. q.row # NoReview /\ q.means # "crossed" => (q.row.approved <=> q.means = "shown")
    BY <2>1 DEF Committed, Intended, At
  <2>4. ModeratedAsMeant'
    BY <2>2, <2>3 DEF ModeratedAsMeant
  <2>5. ASSUME NEW d \in Calls PROVE Intended(req[d])'
    <3>1. Intended(req[d]) /\ req[d] \in Request
      BY DEF TypeOK
    <3>2. CASE req'[d] = Idle
      BY <3>2, IdleType DEF Intended
    <3>3. CASE req'[d] = [req[d] EXCEPT !.fresh = FALSE]
      BY <3>1, <3>3, IntendedField
    <3>4. CASE req'[d] = [req[d] EXCEPT !.valid = FALSE]
      BY <3>1, <3>4, IntendedField
    <3>5. CASE req'[d] = req[d]
      BY <3>1, <3>5 DEF Intended
    <3> QED BY <2>1, <3>2, <3>3, <3>4, <3>5 DEF Committed
  <2> QED BY <2>4, <2>5
<1>5. ASSUME NEW c \in Calls, EraseRow(c), Exists(req[c].item) PROVE MeantInv'
  <2>1. PICK s \in Servers : Erased(s)
    BY <1>5, Erasure
  <2>2. \A j \in Items, v \in Users :
          /\ review'[j][v] = IF j = s THEN NoReview ELSE review[j][v]
          /\ meant'[j][v] = IF j = s THEN "shown" ELSE meant[j][v]
    BY <2>1 DEF Erased, TypeOK
  <2>3. ModeratedAsMeant'
    BY <2>2 DEF ModeratedAsMeant
  <2>4. ASSUME NEW d \in Calls PROVE Intended(req[d])'
    <3>1. Intended(req[d]) /\ req[d] \in Request
      BY DEF TypeOK
    <3>2. CASE req'[d] = Idle
      BY <3>2, IdleType DEF Intended
    <3>3. CASE req'[d] = [req[d] EXCEPT !.valid = FALSE]
      BY <3>1, <3>3, IntendedField
    <3>4. CASE req'[d] = req[d]
      BY <3>1, <3>4 DEF Intended
    <3> QED BY <2>1, <3>2, <3>3, <3>4 DEF Erased
  <2> QED BY <2>3, <2>4
<1> QED BY <1>1, <1>2, <1>3, <1>4, <1>5, Moves

\* What a moderator decided on a review stands, whatever its author writes meanwhile,
\* unless the moderator's page was outdated by another's.
THEOREM ModerationStands == Spec => []ModeratedAsMeant
<1>1. Init => MeantInv
  BY IdleType DEF Init, MeantInv, ModeratedAsMeant, Intended
<1>2. TypeOK /\ Linked /\ MeantInv /\ [Next]_vars => MeantInv'
  BY MeantStep
<1>3. MeantInv => ModeratedAsMeant
  BY DEF MeantInv
<1> QED BY <1>1, <1>2, <1>3, LinkInvariant, PTL DEF Spec

-----------------------------------------------------------------------------
(* Rows and counters *)

\* Each step keeps the counters and the rows together, and adds none below an erased server.
LEMMA RowsStep ==
  ASSUME TypeOK, Linked, Linked', RowsAccountedFor, [Next]_vars
  PROVE  RowsAccountedFor'
<1> USE DEF RowsAccountedFor
<1>1. ASSUME UNCHANGED <<part, opinion, usage>>, Lasting PROVE RowsAccountedFor'
  <2>1. CountersAgree'
    BY <1>1 DEF CountersAgree, usage
  <2>2. NothingDangles'
    BY <1>1 DEF NothingDangles, Lasting, usage, opinion, Items
  <2> QED BY <2>1, <2>2
<1>2. ASSUME NEW p \in Prompts, CreatePrompt(p) \/ UpdatePrompt(p) PROVE RowsAccountedFor'
  <2>1. UNCHANGED <<part, opinion, usage>>
    BY <1>2 DEF CreatePrompt, UpdatePrompt
  <2>2. p \notin Servers
    BY KindAssumption
  <2>3. Lasting
    BY <1>2, <2>2 DEF CreatePrompt, UpdatePrompt, Lasting, Exists, TypeOK, Items
  <2> QED BY <1>1, <2>1, <2>3
<1>3. ASSUME NEW s \in Servers, CreateServer(s) \/ UpdateServer(s) \/ DeleteServer(s)
      PROVE  RowsAccountedFor'
  <2>1. UNCHANGED <<part, opinion, usage>>
    BY <1>3 DEF CreateServer, UpdateServer, DeleteServer
  <2>2. Lasting
    BY <1>3 DEF CreateServer, UpdateServer, DeleteServer, Lasting, Exists, TypeOK, Items
  <2> QED BY <1>1, <2>1, <2>2
<1>4. ASSUME UNCHANGED <<item, part, opinion, usage>> PROVE RowsAccountedFor'
  BY <1>1, <1>4 DEF Lasting, Exists
<1>5. ASSUME UNCHANGED <<item, part, usage>> PROVE RowsAccountedFor'
  <2>1. CountersAgree'
    BY <1>5 DEF CountersAgree, usage
  <2>2. \A s \in Servers : Exists(s)' <=> Exists(s)
    BY <1>5 DEF Exists
  <2>3. \A s \in Servers, u \in Users : ~ Exists(s)' => review'[s][u] = NoReview
    BY DEF Linked, Items
  <2>4. NothingDangles'
    BY <1>5, <2>2, <2>3 DEF NothingDangles, usage
  <2> QED BY <2>1, <2>4
<1>6. ASSUME NEW s \in Servers, NEW t \in Tables, EditParts(t, s) PROVE RowsAccountedFor'
  <2>1. UNCHANGED <<item, opinion, usage>>
    BY <1>6 DEF EditParts
  <2>2. CountersAgree'
    BY <2>1 DEF CountersAgree, usage
  <2>3. part \in [Servers -> [Tables -> SUBSET Parts]]
    BY DEF TypeOK
  <2>4. \A z \in Servers, k \in Tables : ~ Exists(z) => part'[z][k] = {}
    <3>1. \A z \in Servers, k \in Tables : ~ Exists(z) => part[z][k] = {}
      BY DEF NothingDangles
    <3>2. CASE Exists(s)
      BY <1>6, <2>3, <3>1, <3>2 DEF EditParts
    <3>3. CASE ~ Exists(s)
      BY <1>6, <3>1, <3>3 DEF EditParts
    <3> QED BY <3>2, <3>3
  <2>5. NothingDangles'
    BY <2>1, <2>4 DEF NothingDangles, usage, opinion, Exists
  <2> QED BY <2>2, <2>5
<1>7. ASSUME NEW s \in Servers, NEW u \in Users, Install(s, u) \/ Uninstall(s, u)
      PROVE  RowsAccountedFor'
  <2>1. UNCHANGED <<item, part, opinion, favourite, used, req>>
    BY <1>7 DEF Install, Uninstall
  <2>2. s \in Items /\ \A p \in Prompts : p # s
    BY KindAssumption DEF Items
  <2>3. IsFiniteSet(installed[s]) /\ Cardinality(installed[s]) \in Nat
    <3>1. installed[s] \in SUBSET Users
      BY DEF TypeOK
    <3> QED BY <3>1, UserAssumption, FS_Subset, FS_CardinalityType
  <2>4. counter[s] = Cardinality(installed[s])
    BY DEF CountersAgree
  <2>5. CASE Install(s, u)
    <3>1. Cardinality(installed[s] \cup {u}) =
            IF u \in installed[s] THEN counter[s] ELSE counter[s] + 1
      BY <2>3, <2>4, FS_AddElement
    <3>2. /\ installed' = [installed EXCEPT ![s] = installed[s] \cup {u}]
          /\ counter' = [counter EXCEPT ![s] = Cardinality(installed[s] \cup {u})]
      BY <2>5, <3>1 DEF Install
    <3>3. CountersAgree'
      BY <2>1, <2>2, <3>2 DEF CountersAgree, TypeOK, Items
    <3>4. NothingDangles'
      BY <2>1, <2>5, <3>2 DEF NothingDangles, Install, opinion, Exists, TypeOK
    <3> QED BY <3>3, <3>4
  <2>6. CASE Uninstall(s, u)
    <3>1. u \in installed[s]
      BY <2>6 DEF Uninstall
    <3>2. Cardinality(installed[s] \ {u}) = counter[s] - 1 /\ counter[s] # 0
      <4>1. Cardinality(installed[s]) # 0
        BY <2>3, <3>1, FS_EmptySet
      <4> QED BY <2>3, <2>4, <3>1, <4>1, FS_RemoveElement
    <3>3. /\ installed' = [installed EXCEPT ![s] = installed[s] \ {u}]
          /\ counter' = [counter EXCEPT ![s] = Cardinality(installed[s] \ {u})]
      <4>1. Cardinality(installed[s] \ {u}) = IF counter[s] > 0 THEN counter[s] - 1 ELSE 0
        BY <2>3, <2>4, <3>2
      <4> QED BY <2>6, <4>1 DEF Uninstall
    <3>4. CountersAgree'
      BY <2>1, <2>2, <3>3 DEF CountersAgree, TypeOK, Items
    <3>5. NothingDangles'
      BY <2>1, <3>3 DEF NothingDangles, opinion, Exists, TypeOK
    <3> QED BY <3>4, <3>5
  <2> QED BY <1>7, <2>5, <2>6
<1>8. ASSUME NEW c \in Calls, FavouriteAdd(c) \/ FavouriteRemove(c) PROVE RowsAccountedFor'
  <2>1. UNCHANGED <<item, part, opinion, installed, used, counter>>
    BY <1>8 DEF FavouriteAdd, FavouriteRemove
  <2>2. CountersAgree'
    BY <2>1 DEF CountersAgree
  <2>3. \A s \in Servers : ~ Exists(s) => favourite'[s] = {}
    <3>1. \A s \in Servers : s \in Items /\ (~ Exists(s) => favourite[s] = {})
      BY DEF NothingDangles, Items
    <3>2. CASE FavouriteAdd(c)
      BY <3>1, <3>2 DEF FavouriteAdd, TypeOK
    <3>3. CASE FavouriteRemove(c)
      BY <3>1, <3>3 DEF FavouriteRemove, TypeOK
    <3> QED BY <1>8, <3>2, <3>3
  <2>4. NothingDangles'
    BY <2>1, <2>3 DEF NothingDangles, opinion, Exists
  <2> QED BY <2>2, <2>4
<1>9. ASSUME NEW c \in Calls, UseInsert(c) PROVE RowsAccountedFor'
  <2>1. UNCHANGED <<item, part, opinion, favourite, installed>>
    BY <1>9 DEF UseInsert
  <2>2. req[c].item \in Prompts /\ req[c].item \in Items /\ \A s \in Servers : s # req[c].item
    BY <1>9, KindAssumption DEF UseInsert, Linked, Held, At, Items
  <2>3. CountersAgree'
    BY <1>9, <2>1, <2>2 DEF UseInsert, CountersAgree, TypeOK, Items
  <2>4. NothingDangles'
    BY <2>1 DEF NothingDangles, opinion, Exists
  <2> QED BY <2>3, <2>4
<1>10. ASSUME NEW c \in Calls, EraseRow(c) PROVE RowsAccountedFor'
  <2> DEFINE s == req[c].item
  <2>1. s \in Servers /\ s \in Items /\ \A p \in Prompts : p # s
    BY <1>10, KindAssumption DEF EraseRow, Linked, Held, At, Items
  <2>2. CASE ~ Exists(s)
    BY <1>4, <1>10, <2>2 DEF EraseRow, usage
  <2>3. CASE Exists(s)
    <3>1. /\ item' = [item EXCEPT ![s] = "gone"]
          /\ part' = [part EXCEPT ![s] = [t \in Tables |-> {}]]
          /\ review' = [review EXCEPT ![s] = [u \in Users |-> NoReview]]
          /\ favourite' = [favourite EXCEPT ![s] = {}]
          /\ installed' = [installed EXCEPT ![s] = {}]
          /\ counter' = [counter EXCEPT ![s] = 0]
          /\ UNCHANGED used
      BY <1>10, <2>3 DEF EraseRow
    <3>2. CountersAgree'
      BY <2>1, <3>1, FS_EmptySet DEF CountersAgree, TypeOK, Items
    <3>3. NothingDangles'
      BY <2>1, <3>1 DEF NothingDangles, Exists, TypeOK, Items
    <3> QED BY <3>2, <3>3
  <2> QED BY <2>2, <2>3
<1>11. ASSUME NEW c \in Calls, Commit(c) PROVE RowsAccountedFor'
  BY <1>5, <1>11 DEF Commit
<1>12. ASSUME NEW c \in Calls, NEW kind \in SUBSET Items,
              Submit(c, kind) \/ Toggle(c, kind) \/ ApproveReview(c) \/ Delete(c, kind)
       PROVE  RowsAccountedFor'
  <2>1. \E i \in Items, u \in Users, row \in Review \cup {NoReview},
           means \in {"shown", "hidden", "crossed"} : Write(c, i, u, row, means)
    BY <1>12, Writes
  <2> QED BY <1>4, <2>1 DEF Write
<1>13. ASSUME NEW c \in Calls, NEW kind \in SUBSET Items,
              \/ FavouriteRead(c, kind) \/ ModerateRead(c, kind) \/ UseRead(c)
              \/ EraseRead(c) \/ ModerateGone(c) \/ Crash(c)
       PROVE  RowsAccountedFor'
  BY <1>4, <1>13 DEF FavouriteRead, ModerateRead, UseRead, EraseRead, ModerateGone, Crash
<1>14. CASE UNCHANGED vars
  BY <1>4, <1>14 DEF vars
<1>15. /\ {"tools", "agents", "resources", "snippets"} = Tables
       /\ {Prompts, Servers} \subseteq SUBSET Items
  BY DEF Tables, Items
<1> QED
  BY <1>2, <1>3, <1>6, <1>7, <1>8, <1>9, <1>10, <1>11, <1>12, <1>13, <1>14, <1>15
  DEF Next, Tools, Agents, Resources, Snippets, FavouritePrompt, FavouriteServer,
      SubmitReview, UpsertReview, PromptReviews, ServerReviews, TogglePrompt, ToggleServer,
      DeletePromptReview, DeleteServerReview

\* The counters are those of the rows below an item, and no row is left below a server
\* that was erased, whatever calls had read it before.
THEOREM RowsAccounted == Spec => []RowsAccountedFor
<1>1. Init => RowsAccountedFor
  BY FS_EmptySet DEF Init, RowsAccountedFor, CountersAgree, NothingDangles, Items
<1>2. TypeOK /\ Linked /\ Linked' /\ RowsAccountedFor /\ [Next]_vars => RowsAccountedFor'
  BY RowsStep
<1> QED BY <1>1, <1>2, LinkInvariant, PTL DEF Spec

\* A server is erased only while deactivated: of the server that permanent_delete_server
\* read, nothing activates it again before its DELETE.
THEOREM ErasedInactive == Spec => ErasedWasInactive
<1> DEFINE Kept == \A s \in Servers : item'[s] = "gone" => item[s] \in {"hidden", "gone"}
<1>1. ASSUME TypeOK, Linked, [Next]_vars PROVE [Kept]_vars
  <2>1. ASSUME UNCHANGED item PROVE Kept
    BY <2>1
  <2>2. ASSUME NEW p \in Prompts, CreatePrompt(p) \/ UpdatePrompt(p) PROVE Kept
    <3>1. p \notin Servers
      BY KindAssumption
    <3>2. \A s \in Servers : item'[s] = item[s]
      BY <1>1, <2>2, <3>1 DEF CreatePrompt, UpdatePrompt, TypeOK, Items
    <3>3. \A s \in Servers : item'[s] = "gone" => item[s] = "gone"
      BY <3>2
    <3> QED BY <3>3
  <2>3. ASSUME NEW s \in Servers, CreateServer(s) \/ UpdateServer(s) \/ DeleteServer(s) PROVE Kept
    BY <1>1, <2>3 DEF CreateServer, UpdateServer, DeleteServer, TypeOK, Items
  <2>4. ASSUME NEW c \in Calls, EraseRow(c) PROVE Kept
    <3>1. req[c].item \in Servers /\ item[req[c].item] \in {"hidden", "gone"}
      BY <1>1, <2>4 DEF EraseRow, Linked, Held, At
    <3>2. CASE Exists(req[c].item)
      BY <1>1, <2>4, <3>1, <3>2 DEF EraseRow, TypeOK, Items
    <3>3. CASE ~ Exists(req[c].item)
      BY <2>1, <2>4, <3>3 DEF EraseRow
    <3> QED BY <3>2, <3>3
  <2>5. ASSUME NEW s \in Servers, \/ \E t \in Tables : EditParts(t, s)
                                  \/ \E u \in Users : Install(s, u) \/ Uninstall(s, u)
        PROVE  Kept
    BY <2>1, <2>5 DEF EditParts, Install, Uninstall
  <2>6. ASSUME NEW c \in Calls, NEW kind \in SUBSET Items,
               \/ FavouriteRead(c, kind) \/ FavouriteAdd(c) \/ FavouriteRemove(c)
               \/ UseRead(c) \/ UseInsert(c) \/ EraseRead(c) \/ ModerateRead(c, kind)
               \/ ModerateGone(c) \/ Commit(c) \/ Crash(c)
        PROVE  Kept
    BY <2>1, <2>6 DEF FavouriteRead, FavouriteAdd, FavouriteRemove, UseRead, UseInsert,
       EraseRead, ModerateRead, ModerateGone, Commit, Crash
  <2>7. ASSUME NEW c \in Calls, NEW kind \in SUBSET Items,
               Submit(c, kind) \/ Toggle(c, kind) \/ ApproveReview(c) \/ Delete(c, kind)
        PROVE  Kept
    <3>1. \E i \in Items, u \in Users, row \in Review \cup {NoReview},
             means \in {"shown", "hidden", "crossed"} : Write(c, i, u, row, means)
      BY <1>1, <2>7, Writes
    <3> QED BY <2>1, <3>1 DEF Write
  <2>8. /\ {"tools", "agents", "resources", "snippets"} = Tables
        /\ {Prompts, Servers} \subseteq SUBSET Items
    BY DEF Tables, Items
  <2> HIDE DEF Kept
  <2> QED
    BY <1>1, <2>2, <2>3, <2>4, <2>5, <2>6, <2>7, <2>8
    DEF Next, Tools, Agents, Resources, Snippets, FavouritePrompt, FavouriteServer,
        SubmitReview, UpsertReview, PromptReviews, ServerReviews, TogglePrompt, ToggleServer,
        DeletePromptReview, DeleteServerReview
<1> QED BY <1>1, LinkInvariant, PTL DEF Spec, ErasedWasInactive

-----------------------------------------------------------------------------
(* The benchmark of a model *)

\* A run was claimed as many times as its status says: the conditional UPDATE of
\* claim_pending_run is the only way out of 'pending', and only a call that
\* claimed a run is about to fail it.
ClaimsMatchRuns ==
    /\ \A m \in Models : claims[m] = IF run[m] \in Started THEN 1 ELSE 0
    /\ \A c \in BenchCalls : pc[c] = "fail" => run[model[c]] = "running"
    /\ \A c, d \in BenchCalls :
        pc[c] = "fail" /\ pc[d] = "fail" /\ model[c] = model[d] => c = d

\* Every step of Benchmarking keeps its variables in their types.
THEOREM BenchTypeCorrect == BenchSpec => []BenchTypeOK
<1>1. BenchInit => BenchTypeOK
  BY SeedAssumption, NoModelAssumption DEF BenchInit, BenchTypeOK, Statuses, CallSteps
<1>2. BenchTypeOK /\ [BenchNext]_benchVars => BenchTypeOK'
  <2> SUFFICES ASSUME BenchTypeOK, [BenchNext]_benchVars PROVE BenchTypeOK'
    OBVIOUS
  <2> USE NoModelAssumption DEF BenchTypeOK, Statuses, CallSteps, losses
  <2>1. ASSUME NEW c \in BenchCalls, CreateModel(c) PROVE BenchTypeOK'
    BY <2>1 DEF CreateModel, Start
  <2>2. ASSUME NEW c \in BenchCalls, ProcessModel(c) PROVE BenchTypeOK'
    BY <2>2 DEF ProcessModel, Start
  <2>3. ASSUME NEW c \in BenchCalls, ProcessQuestion(c) PROVE BenchTypeOK'
    BY <2>3 DEF ProcessQuestion, Start
  <2>4. ASSUME NEW c \in BenchCalls, RegisterCreated(c) PROVE BenchTypeOK'
    BY <2>4 DEF RegisterCreated, Register, Goto
  <2>5. ASSUME NEW c \in BenchCalls, ReadRun(c) PROVE BenchTypeOK'
    <3>1. UNCHANGED <<created, run, claims, losses>> /\ pc[c] = "read"
      BY <2>5 DEF ReadRun
    <3>2. \/ Goto(c, "register")
          \/ Goto(c, "claim")
          \/ Raise(c)
      BY <2>5 DEF ReadRun
    <3>3. CASE Goto(c, "register")
      BY <3>1, <3>3 DEF Goto
    <3>4. CASE Goto(c, "claim")
      BY <3>1, <3>4 DEF Goto
    <3>5. CASE Raise(c)
      BY <3>1, <3>5 DEF Raise, End
    <3> QED
      BY <3>2, <3>3, <3>4, <3>5
  <2>6. ASSUME NEW c \in BenchCalls, RegisterRun(c) PROVE BenchTypeOK'
    BY <2>6 DEF RegisterRun, Register, Goto
  <2>7. ASSUME NEW c \in BenchCalls, Claim(c) PROVE BenchTypeOK'
    <3>1. UNCHANGED <<created, losses>> /\ pc[c] = "claim"
      BY <2>7 DEF Claim
    <3>2. CASE run[model[c]] = "pending"
      BY <2>7, <3>1, <3>2 DEF Claim, Goto
    <3>3. CASE run[model[c]] # "pending"
      <4>1. Raise(c) /\ UNCHANGED <<run, claims>>
        BY <2>7, <3>3 DEF Claim
      <4> QED
        BY <3>1, <4>1 DEF Raise, End
    <3> QED
      BY <3>2, <3>3
  <2>8. ASSUME NEW c \in BenchCalls, Fail(c) PROVE BenchTypeOK'
    BY <2>8 DEF Fail, Raise, End
  <2>9. ASSUME NEW c \in BenchCalls, RegisterQuestion(c) PROVE BenchTypeOK'
    BY <2>9 DEF RegisterQuestion, Register, Raise, End
  <2>10. ASSUME NEW c \in BenchCalls, StatementFails(c) PROVE BenchTypeOK'
    BY <2>10 DEF StatementFails, Raise, End
  <2>11. CASE Restart
    BY <2>11 DEF Restart
  <2>12. CASE UNCHANGED benchVars
    BY <2>12 DEF benchVars, call
  <2> QED
    BY <2>1, <2>2, <2>3, <2>4, <2>5, <2>6, <2>7, <2>8, <2>9, <2>10, <2>11, <2>12
    DEF BenchNext, Resume
<1> QED
  BY <1>1, <1>2, PTL DEF BenchSpec

\* Each step keeps the count of claims and the status of a run together.
LEMMA ClaimsStep ==
  ASSUME BenchTypeOK, ClaimsMatchRuns, [BenchNext]_benchVars
  PROVE  ClaimsMatchRuns'
<1> USE NoModelAssumption DEF BenchTypeOK, Statuses, CallSteps, ClaimsMatchRuns, Started
<1>1. ASSUME NEW c \in BenchCalls, CreateModel(c) PROVE ClaimsMatchRuns'
  BY <1>1 DEF CreateModel, Start
<1>2. ASSUME NEW c \in BenchCalls, ProcessModel(c) PROVE ClaimsMatchRuns'
  BY <1>2 DEF ProcessModel, Start
<1>3. ASSUME NEW c \in BenchCalls, ProcessQuestion(c) PROVE ClaimsMatchRuns'
  BY <1>3 DEF ProcessQuestion, Start
<1>4. ASSUME NEW c \in BenchCalls, RegisterCreated(c) PROVE ClaimsMatchRuns'
  BY <1>4 DEF RegisterCreated, Register, Goto
<1>5. ASSUME NEW c \in BenchCalls, ReadRun(c) PROVE ClaimsMatchRuns'
  BY <1>5 DEF ReadRun, Goto, Raise, End
<1>6. ASSUME NEW c \in BenchCalls, RegisterRun(c) PROVE ClaimsMatchRuns'
  BY <1>6 DEF RegisterRun, Register, Goto
<1>7. ASSUME NEW c \in BenchCalls, Claim(c) PROVE ClaimsMatchRuns'
  BY <1>7 DEF Claim, Goto, Raise, End
<1>8. ASSUME NEW c \in BenchCalls, Fail(c) PROVE ClaimsMatchRuns'
  BY <1>8 DEF Fail, Raise, End
<1>9. ASSUME NEW c \in BenchCalls, RegisterQuestion(c) PROVE ClaimsMatchRuns'
  BY <1>9 DEF RegisterQuestion, Register, Raise, End
<1>10. ASSUME NEW c \in BenchCalls, StatementFails(c) PROVE ClaimsMatchRuns'
  BY <1>10 DEF StatementFails, Raise, End
<1>11. CASE Restart
  BY <1>11 DEF Restart
<1>12. CASE UNCHANGED benchVars
  BY <1>12 DEF benchVars, call, losses
<1> QED
  BY <1>1, <1>2, <1>3, <1>4, <1>5, <1>6, <1>7, <1>8, <1>9, <1>10, <1>11, <1>12
  DEF BenchNext, Resume

\* The invariant behind both results below.
LEMMA ClaimsInvariant == BenchSpec => []ClaimsMatchRuns
<1>1. BenchInit => ClaimsMatchRuns
  BY SeedAssumption DEF BenchInit, ClaimsMatchRuns, Started
<1> QED
  BY <1>1, ClaimsStep, BenchTypeCorrect, PTL DEF BenchSpec

\* A model's run is claimed at most once, however many calls race for it.
THEOREM ClaimedAtMostOnce == BenchSpec => []ClaimedOnce
<1>1. ASSUME ClaimsMatchRuns PROVE ClaimedOnce
  <2> SUFFICES ASSUME NEW m \in Models PROVE claims[m] <= 1
    BY DEF ClaimedOnce
  <2>1. claims[m] = 0 \/ claims[m] = 1
    BY <1>1 DEF ClaimsMatchRuns
  <2> QED
    BY <2>1
<1> QED
  BY <1>1, ClaimsInvariant, PTL

\* A claimed run is never put back and a finished one never changes: fail_run
\* writes without a guard, which only a claimer can do.
THEOREM NeverReopens == BenchSpec => RunNeverReopens
<1> DEFINE Kept == \A m \in Models :
        /\ run[m] \in Started => run'[m] \in Started
        /\ run[m] \in Finished => run'[m] = run[m]
<1>1. ASSUME BenchTypeOK, ClaimsMatchRuns, [BenchNext]_benchVars PROVE [Kept]_benchVars
  <2> USE <1>1 DEF BenchTypeOK, ClaimsMatchRuns, Started, Finished
  <2>1. ASSUME NEW c \in BenchCalls, CreateModel(c) PROVE Kept
    BY <2>1 DEF CreateModel
  <2>2. ASSUME NEW c \in BenchCalls, ProcessModel(c) PROVE Kept
    BY <2>2 DEF ProcessModel
  <2>3. ASSUME NEW c \in BenchCalls, ProcessQuestion(c) PROVE Kept
    BY <2>3 DEF ProcessQuestion
  <2>4. ASSUME NEW c \in BenchCalls, RegisterCreated(c) PROVE Kept
    BY <2>4 DEF RegisterCreated, Register
  <2>5. ASSUME NEW c \in BenchCalls, ReadRun(c) PROVE Kept
    BY <2>5 DEF ReadRun
  <2>6. ASSUME NEW c \in BenchCalls, RegisterRun(c) PROVE Kept
    BY <2>6 DEF RegisterRun, Register
  <2>7. ASSUME NEW c \in BenchCalls, Claim(c) PROVE Kept
    BY <2>7 DEF Claim
  <2>8. ASSUME NEW c \in BenchCalls, Fail(c) PROVE Kept
    BY <2>8 DEF Fail
  <2>9. ASSUME NEW c \in BenchCalls, RegisterQuestion(c) PROVE Kept
    BY <2>9 DEF RegisterQuestion, Register
  <2>10. ASSUME NEW c \in BenchCalls, StatementFails(c) PROVE Kept
    BY <2>10 DEF StatementFails
  <2>11. CASE Restart
    BY <2>11 DEF Restart
  <2> QED
    BY <2>1, <2>2, <2>3, <2>4, <2>5, <2>6, <2>7, <2>8, <2>9, <2>10, <2>11
    DEF BenchNext, Resume
<1> QED
  BY <1>1, BenchTypeCorrect, ClaimsInvariant, PTL DEF BenchSpec, RunNeverReopens

\* Only an inserted model has a run and the unfinished run of a model created through
\* the API is in the hands of a call that goes on with it, unless a call on that very
\* model failed at a statement or died: the failures and restarts that befall the calls
\* on other models leave nothing behind here.
RunInHand ==
    /\ \A m \in Models \ created : run[m] = "none"
    /\ \A m \in created \ (Seeded \cup dropped) :
        /\ run[m] = "none" => \E c \in BenchCalls : model[c] = m /\ pc[c] = "register_created"
        /\ run[m] = "pending" => \E c \in BenchCalls :
                model[c] = m /\ pc[c] \in {"register_created", "read", "claim"}
        /\ run[m] = "running" => \E c \in BenchCalls : model[c] = m /\ pc[c] = "fail"

\* Whatever call moves a run on, one that will move it further has hold of it.
LEMMA RunInHandStep ==
  ASSUME BenchTypeOK, RunInHand, [BenchNext]_benchVars
  PROVE  RunInHand'
<1> USE NoModelAssumption DEF BenchTypeOK, CallSteps, RunInHand, losses
<1>1. ASSUME NEW c \in BenchCalls, CreateModel(c) PROVE RunInHand'
  <2>1. PICK m \in Models \ created : created' = created \cup {m} /\ Start(c, "register_created", m)
    BY <1>1 DEF CreateModel
  <2>2. UNCHANGED <<run, losses>> /\ pc[c] = "idle"
    BY <1>1 DEF CreateModel
  <2>3. model'[c] = m /\ pc'[c] = "register_created" /\ run'[m] = "none"
    BY <2>1, <2>2 DEF Start
  <2>4. \A d \in BenchCalls : pc[d] # "idle" => model'[d] = model[d] /\ pc'[d] = pc[d]
    BY <2>1, <2>2 DEF Start
  <2> QED BY <2>1, <2>2, <2>3, <2>4
<1>2. ASSUME NEW c \in BenchCalls, ProcessModel(c) PROVE RunInHand'
  BY <1>2 DEF ProcessModel, Start
<1>3. ASSUME NEW c \in BenchCalls, ProcessQuestion(c) PROVE RunInHand'
  BY <1>3 DEF ProcessQuestion, Start
<1>4. ASSUME NEW c \in BenchCalls, RegisterCreated(c) PROVE RunInHand'
  BY <1>4 DEF RegisterCreated, Register, Goto
<1>5. ASSUME NEW c \in BenchCalls, ReadRun(c) PROVE RunInHand'
  BY <1>5 DEF ReadRun, Goto, Raise, End
<1>6. ASSUME NEW c \in BenchCalls, RegisterRun(c) PROVE RunInHand'
  BY <1>6 DEF RegisterRun, Register, Goto
<1>7. ASSUME NEW c \in BenchCalls, Claim(c) PROVE RunInHand'
  BY <1>7 DEF Claim, Goto, Raise, End
<1>8. ASSUME NEW c \in BenchCalls, Fail(c) PROVE RunInHand'
  BY <1>8 DEF Fail, Raise, End
<1>9. ASSUME NEW c \in BenchCalls, RegisterQuestion(c) PROVE RunInHand'
  BY <1>9 DEF RegisterQuestion, Register, Raise, End
<1>10. ASSUME NEW c \in BenchCalls, StatementFails(c) PROVE RunInHand'
  BY <1>10 DEF StatementFails, Raise, End
<1>11. CASE Restart
  BY <1>11 DEF Restart
<1>12. CASE UNCHANGED benchVars
  BY <1>12 DEF benchVars, call, losses
<1> QED
  BY <1>1, <1>2, <1>3, <1>4, <1>5, <1>6, <1>7, <1>8, <1>9, <1>10, <1>11, <1>12
  DEF BenchNext, Resume

\* What CreatedIsRun rests on: through any number of statements that fail and restarts,
\* no unfinished run of a created model is left alone by anything but a loss on that
\* model, however many calls race for it.
THEOREM CreatedInHand == BenchSpec => []RunInHand
<1>1. BenchInit => RunInHand
  BY DEF BenchInit, RunInHand
<1> QED BY <1>1, RunInHandStep, BenchTypeCorrect, PTL DEF BenchSpec
=============================================================================
