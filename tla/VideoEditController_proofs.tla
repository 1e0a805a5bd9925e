--------------------- MODULE VideoEditController_proofs ---------------------
(***************************************************************************)
(* The editor, for every duration of the movie, every minSpace, every      *)
(* number of spans and every distance that a finger moves: the window of   *)
(* the slider, the types of the editor's state, and what it promises of a  *)
(* lesson with at most one span.                                           *)
(***************************************************************************)
EXTENDS VideoEditController, FiniteSetTheorems, WellFoundedInduction, TLAPS

\* What LimitedStart and LimitedEnd keep: the handles, wherever they are put.
LEMMA StartLimited ==
    ASSUME SliderWindow, NEW p \in Int
    PROVE  LET start == S!LimitedStart(S!Within(p, 0, Duration))
           IN  /\ start \in S!Positions
               /\ start + S!Least(MinSpace, Duration) <= endPercentage
  BY EditorAssumption DEF SliderWindow, S!SliderWindow, S!Positions, S!LimitedStart,
                          S!Within, S!Least, S!Greatest

LEMMA EndLimited ==
    ASSUME SliderWindow, NEW p \in Int
    PROVE  LET end == S!LimitedEnd(S!Within(p, 0, Duration))
           IN  /\ end \in S!Positions
               /\ startPercentage + S!Least(MinSpace, Duration) <= end
  BY EditorAssumption DEF SliderWindow, S!SliderWindow, S!Positions, S!LimitedEnd,
                          S!Within, S!Least, S!Greatest

\* The three drags that move a handle.
LEMMA HandlesDragged ==
    ASSUME SliderWindow, NEW dx \in Drags, NEW state,
           \/ S!StartDragged(dx, state)
           \/ S!EndDragged(dx, state)
           \/ S!ViewDragged(dx, state)
    PROVE  SliderWindow'
<1>1. CASE S!StartDragged(dx, state)
  <2>1. startPercentage + dx \in Int
    BY EditorAssumption DEF SliderWindow, S!SliderWindow, S!Positions
  <2> QED
    BY <1>1, <2>1, StartLimited DEF SliderWindow, S!SliderWindow, S!StartDragged,
       S!Positions, S!Least
<1>2. CASE S!EndDragged(dx, state)
  <2>1. endPercentage + dx \in Int
    BY EditorAssumption DEF SliderWindow, S!SliderWindow, S!Positions
  <2> QED
    BY <1>2, <2>1, EndLimited DEF SliderWindow, S!SliderWindow, S!EndDragged,
       S!Positions, S!Least
<1>3. CASE S!ViewDragged(dx, state)
  BY <1>3, EditorAssumption DEF SliderWindow, S!SliderWindow, S!ViewDragged,
     S!Positions, S!Least
<1> QED BY <1>1, <1>2, <1>3

\* The handles keep their distance and stay on the slider (processHandleDrag and
\* viewDragged), whatever the editor, the player and the animators do in between.
THEOREM HandlesKeepWindow == Spec => []SliderWindow
<1>1. Init => SliderWindow
  BY EditorAssumption DEF Init, S!Init, SliderWindow, S!SliderWindow, S!Positions, S!Least
<1>2. SliderWindow /\ [Next]_vars => SliderWindow'
  <2> SUFFICES ASSUME SliderWindow, [Next]_vars PROVE SliderWindow'
    OBVIOUS
  <2>1. ASSUME UNCHANGED <<startPercentage, endPercentage>> PROVE SliderWindow'
    BY <2>1 DEF SliderWindow, S!SliderWindow, S!Positions, S!Least
  <2>2. CASE ViewDidAppear
    BY <2>1, <2>2 DEF ViewDidAppear, slider
  <2>3. CASE Drag
    <3>1. PICK state \in {"began", "changed", "ended", "cancelled"} :
              \/ \E dx \in Drags : \/ StartDragged(dx, state) \/ EndDragged(dx, state)
                                   \/ ViewDragged(dx, state) \/ ProgressDragged(dx, state)
              \/ HandlePan(state)
      BY <2>3 DEF Drag
    <3>2. CASE HandlePan(state)
      BY <2>1, <3>2 DEF HandlePan, slider
    <3>3. ASSUME NEW dx \in Drags, ProgressDragged(dx, state) PROVE SliderWindow'
      BY <2>1, <3>3 DEF ProgressDragged, S!ProgressDragged, S!handles
    <3>4. ASSUME NEW dx \in Drags,
                 StartDragged(dx, state) \/ EndDragged(dx, state) \/ ViewDragged(dx, state)
          PROVE  SliderWindow'
      BY <3>4, HandlesDragged DEF StartDragged, EndDragged, ViewDragged
    <3> QED BY <3>1, <3>2, <3>3, <3>4
  <2>4. CASE HandlePlayButton
    BY <2>1, <2>4 DEF HandlePlayButton, slider
  <2>5. CASE HandleDoneButton
    BY <2>1, <2>5 DEF HandleDoneButton, slider
  <2>6. ASSUME NEW time \in Times, PlayerObserved(time) PROVE SliderWindow'
    BY <2>1, <2>6 DEF PlayerObserved, S!UpdateProgressIndicator, S!handles
  <2>7. ASSUME NEW i \in Indices, AnimatorEnds(i) PROVE SliderWindow'
    BY <2>1, <2>7 DEF AnimatorEnds, slider
  <2>8. CASE Trapped \/ UNCHANGED vars
    BY <2>1, <2>8 DEF Trapped, vars, slider
  <2> QED BY <2>2, <2>3, <2>4, <2>5, <2>6, <2>7, <2>8 DEF Next
<1> QED BY <1>1, <1>2, PTL DEF Spec

-----------------------------------------------------------------------------
(***************************************************************************)
(* What the loop of indicatorDidChangePosition does to the active list.    *)
(* InsertDue is a fold over the indices, and a fold is a recursive         *)
(* function on sets of them: that the function exists, and what it keeps   *)
(* at each index, is shown by the least index at which it would fail.      *)
(***************************************************************************)
\* A set of naturals has a least element.
LEMMA LeastNat ==
    ASSUME NEW T \in SUBSET Nat, T # {}
    PROVE  \E x \in T : \A y \in T : x <= y
<1> DEFINE R == {p \in Nat \X Nat : p[1] < p[2]}
<1>1. OpToRel(<, Nat) = R
  BY DEF OpToRel
<1>2. IsWellFoundedOn(R, Nat)
  BY <1>1, NatLessThanWellFounded
<1>3. \E x \in T : \A y \in T : <<y, x>> \notin R
  <2> HIDE DEF R
  <2> QED BY <1>2, WFMin
<1>4. PICK x \in T : \A y \in T : <<y, x>> \notin R
  BY <1>3
<1>5. ASSUME NEW y \in T PROVE x <= y
  <2>1. <<y, x>> \notin R
    BY <1>4
  <2>2. ~(y < x)
    BY <2>1
  <2> QED BY <2>2
<1> QED BY <1>5

\* Max returns the greatest element, where there is one.
LEMMA MaxIs ==
    ASSUME NEW s \in SUBSET Int, NEW x \in s, \A y \in s : y <= x
    PROVE  Max(s) = x
<1>1. \A y \in s : x >= y
  OBVIOUS
<1>2. Max(s) \in s /\ \A y \in s : Max(s) >= y
  BY <1>1 DEF Max
<1>3. Max(s) >= x /\ x >= Max(s) /\ Max(s) \in Int
  BY <1>1, <1>2
<1> QED BY <1>3

\* One turn of the loop, for index i; the loop over the indices in s, where f holds what
\* it does over fewer of them; f is that loop over every set of indices up to n.
Insertion(position, active, i) ==
    IF i \notin Starts(position) \/ active = OutOfRange THEN active
    ELSE IF i > Len(active) + 1 THEN OutOfRange
    ELSE InsertAt(active, i, i)

Insertions(position, f, s) ==
    IF s = {} THEN widgetAnimationsActive
    ELSE Insertion(position, f[s \ {Max(s)}], Max(s))

IsFold(position, f, n) == f = [s \in SUBSET (1..n) |-> Insertions(position, f, s)]

\* A set of indices has a greatest element.
LEMMA MaxIn ==
    ASSUME NEW k \in Nat, NEW s \in SUBSET (1..k), s # {}
    PROVE  Max(s) \in s /\ \A y \in s : y <= Max(s)
<1> DEFINE Above == {m \in Nat : \A y \in s : y <= m}
<1>1. k \in Above
  OBVIOUS
<1>2. PICK m \in Above : \A x \in Above : m <= x
  BY <1>1, LeastNat
<1>3. m \in s
  <2> SUFFICES ASSUME m \notin s PROVE FALSE
    OBVIOUS
  <2>1. \A y \in s : y \in 1..k /\ y <= m /\ y # m
    BY <1>2
  <2>2. m \in Nat /\ m # 0
    <3>1. PICK y \in s : TRUE
      OBVIOUS
    <3> QED BY <2>1, <3>1
  <2>3. \A y \in s : y <= m - 1
    BY <2>1, <2>2
  <2>4. m - 1 \in Above
    BY <2>2, <2>3
  <2> QED BY <2>2, <2>4, <1>2
<1> QED BY <1>2, <1>3, MaxIs

\* There is such a function for every number of spans.
LEMMA FoldsExist ==
    ASSUME NEW position, NEW n \in Nat
    PROVE  \E f : IsFold(position, f, n)
<1> DEFINE Without == {k \in Nat : ~\E f : IsFold(position, f, k)}
<1> SUFFICES ASSUME Without # {} PROVE FALSE
  OBVIOUS
<1>1. PICK k \in Without : \A y \in Without : k <= y
  BY LeastNat
<1>2. CASE k = 0
  <2> DEFINE f == [s \in SUBSET (1..0) |-> widgetAnimationsActive]
  <2>1. IsFold(position, f, 0)
    BY DEF IsFold, Insertions
  <2> QED BY <1>2, <2>1
<1>3. CASE k # 0
  <2>1. PICK j \in Nat : k = j + 1
    BY <1>3
  <2>2. PICK f : IsFold(position, f, j)
    BY <1>1, <2>1
  <2> DEFINE g == [s \in SUBSET (1..k) |->
                      IF k \in s THEN Insertion(position, f[s \ {k}], k) ELSE f[s]]
  <2>3. ASSUME NEW s \in SUBSET (1..k) PROVE g[s] = Insertions(position, g, s)
    <3>1. CASE k \in s
      <4>1. Max(s) = k
        BY <3>1, <2>1, MaxIs
      <4>2. s \ {k} \in SUBSET (1..k) /\ k \notin s \ {k}
        OBVIOUS
      <4>3. g[s \ {k}] = f[s \ {k}]
        BY <4>2
      <4>4. g[s] = Insertion(position, g[s \ {k}], k)
        BY <3>1, <4>3
      <4> QED BY <3>1, <4>1, <4>4 DEF Insertions
    <3>2. CASE k \notin s
      <4>1. s \in SUBSET (1..j)
        BY <2>1, <3>2
      <4>2. g[s] = f[s]
        BY <3>2
      <4>3. f[s] = Insertions(position, f, s)
        BY <2>2, <4>1 DEF IsFold
      <4>4. CASE s = {}
        BY <4>2, <4>3, <4>4 DEF Insertions
      <4>5. CASE s # {}
        <5>1. s \ {Max(s)} \in SUBSET (1..k) /\ k \notin s \ {Max(s)}
          BY <3>2
        <5>2. g[s \ {Max(s)}] = f[s \ {Max(s)}]
          BY <5>1
        <5> QED BY <4>2, <4>3, <4>5, <5>2 DEF Insertions
      <4> QED BY <4>4, <4>5
    <3> QED BY <3>1, <3>2
  <2>4. g = [s \in SUBSET (1..k) |-> Insertions(position, g, s)]
    <3> DEFINE h == [s \in SUBSET (1..k) |-> Insertions(position, g, s)]
    <3>1. \A s \in SUBSET (1..k) : g[s] = h[s]
      BY <2>3
    <3> QED BY <3>1
  <2>5. IsFold(position, g, k)
    BY <2>4 DEF IsFold
  <2> QED BY <2>5
<1> QED BY <1>2, <1>3

\* InsertDue is its value for all the indices.
LEMMA InsertDueFolds ==
    ASSUME NEW position, NEW n \in Nat, Indices = 1..n
    PROVE  \E f : IsFold(position, f, n) /\ InsertDue(position) = f[1..n]
<1> DEFINE own == [i \in Indices |-> i]
           step(f, s) == IF s = {} THEN widgetAnimationsActive
                         ELSE Insertion(position, f[s \ {Max(s)}], own[Max(s)])
           IsIter(f) == f = [s \in SUBSET (1..n) |-> step(f, s)]
           iter == CHOOSE f : IsIter(f)
<1>1. DOMAIN own = 1..n
  OBVIOUS
<1>2. InsertDue(position) = iter[1..n]
  BY <1>1 DEF InsertDue, FoldLeft, MapThenFoldSet, Insertion
<1>3. \A f : \A s \in SUBSET (1..n) : step(f, s) = Insertions(position, f, s)
  BY MaxIn DEF Insertions
<1>4. \A f : IsIter(f) <=> IsFold(position, f, n)
  <2> HIDE DEF step
  <2> QED BY <1>3 DEF IsFold
<1>5. IsFold(position, iter, n)
  <2> HIDE DEF IsIter
  <2> QED BY <1>4, FoldsExist
<1> QED BY <1>2, <1>5

\* insert(at:) adds an entry, remove(at:) takes one.
LEMMA Inserted ==
    ASSUME NEW Entries, NEW active \in Seq(Entries), NEW e \in Entries,
           NEW i \in 1..(Len(active) + 1)
    PROVE  /\ InsertAt(active, i, e) \in Seq(Entries)
           /\ Len(InsertAt(active, i, e)) = Len(active) + 1
<1> DEFINE before == SubSeq(active, 1, i - 1)
           after == SubSeq(active, i, Len(active))
<1>1. before \in Seq(Entries) /\ Len(before) = i - 1
  OBVIOUS
<1>2. after \in Seq(Entries) /\ Len(after) = Len(active) - i + 1
  OBVIOUS
<1>3. <<e>> \in Seq(Entries) /\ Len(<<e>>) = 1
  OBVIOUS
<1>4. InsertAt(active, i, e) = (before \o <<e>>) \o after
  BY DEF InsertAt
<1> HIDE DEF before, after
<1>5. before \o <<e>> \in Seq(Entries) /\ Len(before \o <<e>>) = i
  BY <1>1, <1>3
<1>6. /\ (before \o <<e>>) \o after \in Seq(Entries)
      /\ Len((before \o <<e>>) \o after) = Len(active) + 1
  BY <1>2, <1>5
<1> QED BY <1>4, <1>6

LEMMA Removed ==
    ASSUME NEW Entries, NEW active \in Seq(Entries), NEW i \in 1..Len(active)
    PROVE  /\ RemoveAt(active, i) \in Seq(Entries)
           /\ Len(RemoveAt(active, i)) = Len(active) - 1
<1> DEFINE before == SubSeq(active, 1, i - 1)
           after == SubSeq(active, i + 1, Len(active))
<1>1. before \in Seq(Entries) /\ Len(before) = i - 1
  OBVIOUS
<1>2. after \in Seq(Entries) /\ Len(after) = Len(active) - i
  OBVIOUS
<1>3. before \o after \in Seq(Entries) /\ Len(before \o after) = Len(active) - 1
  <2> HIDE DEF before, after
  <2> QED BY <1>1, <1>2
<1> QED BY <1>3 DEF RemoveAt

\* When every index was in the array, the active list has gained one entry for each
\* animator that was started, and all its entries are indices.
LEMMA InsertDueKeeps ==
    ASSUME NEW position, NEW n \in Nat, Indices = 1..n,
           widgetAnimationsActive \in Seq(Indices), InsertDue(position) # OutOfRange
    PROVE  /\ InsertDue(position) \in Seq(Indices)
           /\ Len(InsertDue(position)) =
                  Len(widgetAnimationsActive) + Cardinality(Starts(position))
<1>1. PICK f : IsFold(position, f, n) /\ InsertDue(position) = f[1..n]
  BY InsertDueFolds
<1> DEFINE Upto(k) == Starts(position) \cap (1..k)
           Good(k) == /\ f[1..k] \in Seq(Indices)
                      /\ Len(f[1..k]) = Len(widgetAnimationsActive) + Cardinality(Upto(k))
           Bad == {k \in 0..n : f[1..k] # OutOfRange /\ ~Good(k)}
<1>2. Starts(position) \subseteq 1..n
  BY DEF Starts, Due
<1>3. ASSUME NEW k \in Nat PROVE IsFiniteSet(Upto(k)) /\ Cardinality(Upto(k)) \in Nat
  <2>1. IsFiniteSet(1..k) /\ Upto(k) \in SUBSET (1..k)
    BY FS_Interval
  <2> QED BY <2>1, FS_Subset, FS_CardinalityType
<1>4. Good(0) /\ f[1..0] = widgetAnimationsActive
  <2>1. 1..0 \in SUBSET (1..n) /\ 1..0 = {}
    OBVIOUS
  <2>2. f[1..0] = widgetAnimationsActive
    BY <1>1, <2>1 DEF IsFold, Insertions
  <2>3. Cardinality(Upto(0)) = 0
    BY <2>1, FS_EmptySet
  <2> QED BY <2>2, <2>3
<1>5. ASSUME NEW j \in Nat, NEW k \in 1..n, k = j + 1,
             Good(j) \/ f[1..j] = OutOfRange, f[1..k] # OutOfRange
      PROVE  Good(k)
  <2>1. k \in 1..k /\ k \in Nat \ {0} /\ \A y \in 1..k : y \in Int /\ y <= k
    OBVIOUS
  <2>2. 1..k \in SUBSET (1..n) /\ 1..k # {}
    <3>1. \A y \in 1..k : y \in 1..n
      OBVIOUS
    <3> QED BY <2>1, <3>1
  <2>3. (1..k) \ {k} = 1..j
    BY <1>5
  <2>4. Max(1..k) = k
    BY <2>1, MaxIs
  <2>5. f[1..k] = Insertion(position, f[1..j], k)
    BY <1>1, <2>2, <2>3, <2>4 DEF IsFold, Insertions
  <2>6. f[1..j] # OutOfRange
    BY <1>5, <2>5 DEF Insertion
  <2>7. Good(j)
    BY <1>5, <2>6
  <2>8. CASE k \notin Starts(position)
    <3>1. f[1..k] = f[1..j]
      BY <2>5, <2>8 DEF Insertion
    <3>2. Upto(k) = Upto(j)
      BY <2>3, <2>8
    <3> QED BY <2>7, <3>1, <3>2
  <2>9. CASE k \in Starts(position)
    <3>1. ~(k > Len(f[1..j]) + 1) /\ f[1..k] = InsertAt(f[1..j], k, k)
      BY <1>5, <2>5, <2>6, <2>9 DEF Insertion
    <3>2. Len(f[1..j]) \in Nat /\ k <= Len(f[1..j]) + 1
      BY <2>7, <3>1
    <3>3. f[1..k] \in Seq(Indices) /\ Len(f[1..k]) = Len(f[1..j]) + 1
      <4>1. PICK active \in Seq(Indices) : active = f[1..j]
        BY <2>7
      <4>2. k \in Indices /\ k \in 1..(Len(active) + 1)
        BY <2>1, <3>2, <4>1
      <4>3. /\ InsertAt(active, k, k) \in Seq(Indices)
            /\ Len(InsertAt(active, k, k)) = Len(active) + 1
        BY <4>2, Inserted, Zenon
      <4> QED BY <3>1, <4>1, <4>3
    <3>4. Upto(k) = Upto(j) \cup {k} /\ k \notin Upto(j)
      BY <2>1, <2>3, <2>9
    <3>5. Cardinality(Upto(k)) = Cardinality(Upto(j)) + 1
      <4>1. IsFiniteSet(Upto(j))
        BY <1>3
      <4> QED BY <3>4, <4>1, FS_AddElement
    <3>6. Cardinality(Upto(j)) \in Nat
      BY <1>3
    <3>7. Len(widgetAnimationsActive) \in Nat
      OBVIOUS
    <3> HIDE DEF Upto
    <3>8. Len(f[1..k]) = Len(widgetAnimationsActive) + Cardinality(Upto(k))
      BY <2>7, <3>3, <3>5, <3>6, <3>7
    <3> QED BY <3>3, <3>8
  <2> QED BY <2>8, <2>9
<1>6. Bad = {}
  <2> SUFFICES ASSUME Bad # {} PROVE FALSE
    OBVIOUS
  <2>1. PICK k \in Bad : \A y \in Bad : k <= y
    <3>1. Bad \in SUBSET Nat
      OBVIOUS
    <3> HIDE DEF Bad
    <3> QED BY <3>1, LeastNat
  <2>2. k \in 0..n /\ f[1..k] # OutOfRange /\ ~Good(k)
    BY <2>1
  <2> HIDE DEF Good
  <2>3. k # 0
    BY <1>4, <2>2
  <2>4. PICK j \in Nat : k = j + 1 /\ j \in 0..n
    BY <2>2, <2>3
  <2>5. j \notin Bad
    BY <2>1, <2>4
  <2> QED BY <1>5, <2>2, <2>3, <2>4, <2>5
<1>7. Good(n)
  <2>1. n \in 0..n
    OBVIOUS
  <2> HIDE DEF Good
  <2> QED BY <1>1, <1>6, <2>1
<1>8. Upto(n) = Starts(position)
  BY <1>2
<1> QED BY <1>1, <1>7, <1>8

\* A bounded sequence is a sequence, and bounded.
LEMMA Bounded ==
    ASSUME NEW Entries, NEW n \in Nat, NEW s
    PROVE  s \in BoundedSeq(Entries, n) <=> s \in Seq(Entries) /\ Len(s) <= n
<1>1. ASSUME s \in BoundedSeq(Entries, n) PROVE s \in Seq(Entries) /\ Len(s) <= n
  <2>1. PICK m \in 0..n : s \in [1..m -> Entries]
    BY <1>1 DEF BoundedSeq, SeqOf
  <2>2. s \in Seq(Entries) /\ Len(s) = m
    BY <2>1
  <2> QED BY <2>2
<1>2. ASSUME s \in Seq(Entries), Len(s) <= n PROVE s \in BoundedSeq(Entries, n)
  <2>1. Len(s) \in 0..n /\ s \in [1..Len(s) -> Entries]
    BY <1>2
  <2> QED BY <2>1 DEF BoundedSeq, SeqOf
<1> QED BY <1>1, <1>2

\* With one span the loop inserts at the front, which is always in the array.
LEMMA OneSpanInserts ==
    ASSUME NEW position, NEW n \in 0..1, Indices = 1..n,
           widgetAnimationsActive \in Seq(Indices)
    PROVE  InsertDue(position) # OutOfRange
<1>1. PICK f : IsFold(position, f, n) /\ InsertDue(position) = f[1..n]
  BY InsertDueFolds
<1>2. widgetAnimationsActive # OutOfRange
  BY DEF OutOfRange
<1>3. CASE n = 0
  <2>1. 1..n \in SUBSET (1..n) /\ 1..n = {}
    BY <1>3
  <2> QED BY <1>1, <1>2, <2>1 DEF IsFold, Insertions
<1>4. CASE n = 1
  <2>1. 1..n \in SUBSET (1..n) /\ {} \in SUBSET (1..n) /\ 1..n = {1}
    BY <1>4
  <2>2. Max({1}) = 1
    BY MaxIs
  <2>3. f[{}] = widgetAnimationsActive
    BY <1>1, <2>1 DEF IsFold, Insertions
  <2>4. {1} \ {1} = {} /\ {1} # {}
    OBVIOUS
  <2>5. f[{1}] = Insertion(position, widgetAnimationsActive, 1)
    BY <1>1, <2>1, <2>2, <2>3, <2>4 DEF IsFold, Insertions
  <2>6. 1 \in 1..(Len(widgetAnimationsActive) + 1) /\ 1 \in Indices
    BY <1>4
  <2>7. InsertAt(widgetAnimationsActive, 1, 1) \in Seq(Indices)
    BY <2>6, Inserted, Zenon
  <2>8. InsertAt(widgetAnimationsActive, 1, 1) # OutOfRange
    BY <2>7 DEF OutOfRange
  <2>9. ~(1 > Len(widgetAnimationsActive) + 1)
    OBVIOUS
  <2> QED BY <1>1, <1>2, <2>1, <2>5, <2>8, <2>9 DEF Insertion
<1> QED BY <1>3, <1>4

-----------------------------------------------------------------------------
(***************************************************************************)
(* The inductive invariant.  A trap or a paused animation is only ruled    *)
(* out by what the active list holds: the completion of an animator that   *)
(* runs must find an entry to remove, and play must find the animator that *)
(* was paused (ActiveInv).  That no animator is missing is known from the  *)
(* export session, which setupVideoEdit makes last (SetUp).                *)
(***************************************************************************)
\* The indicator is not past the end of the window; below its start it may be by as
\* much as the slider is long.
IndicatorInv ==
    startPercentage - Duration <= progressPercentage /\ progressPercentage <= endPercentage

\* The slider, the controls, the animators.
SliderInv == S!TypeOK /\ SliderWindow /\ IndicatorInv

ControlTypes ==
    /\ allDetectedTimestamps \in SpanLists /\ detected \subseteq Times
    /\ {playable, appeared, isPlaying, isHolding} \subseteq BOOLEAN
    /\ export \in {"nil", "ready", "started"} /\ pan \in Pans

AnimationTypes ==
    /\ trap \in {"none", "points", "index", "standby", "export"}
    /\ playerTime \in Times
    /\ animator \in [Indices -> {"none", "inactive", "running", "paused"}]
    /\ completes \in [Indices -> BOOLEAN]
    /\ widgetAnimationsActive \in BoundedSeq(Indices, MaxActive)

\* An editor with an export session has an animator for every span.
SetUp == export # "nil" => appeared /\ \A i \in Indices : animator[i] # "none"

\* The animator of an only span is in the active list while it runs or is paused.
ActiveInv ==
    OneSpan => \A i \in Indices : animator[i] \in {"running", "paused"} => InActive(i)

AnimationInv == AnimationTypes /\ SetUp /\ ActiveInv /\ EditorSafe /\ PlayResumesAll

EditorInv == ControlTypes /\ SliderInv /\ AnimationInv

\* The properties are parts of the invariant.
LEMMA EditorInvImplies == EditorInv => TypeOK /\ EditorSafe /\ PlayResumesAll
  BY DEF EditorInv, ControlTypes, SliderInv, AnimationInv, AnimationTypes, TypeOK

\* The slider under each of its operations.
LEMMA SliderInvDragged ==
    ASSUME SliderInv, NEW dx \in Drags, NEW state,
           \/ S!StartDragged(dx, state) \/ S!EndDragged(dx, state)
           \/ S!ViewDragged(dx, state) \/ S!ProgressDragged(dx, state)
    PROVE  SliderInv'
<1> USE EditorAssumption
<1>1. isReceivingGesture' \in BOOLEAN
  BY DEF S!StartDragged, S!EndDragged, S!ViewDragged, S!ProgressDragged,
         S!UpdateGestureStatus, SliderInv, S!TypeOK
<1>2. dx \in Int
  OBVIOUS
<1>3. SliderWindow'
  <2>1. CASE S!ProgressDragged(dx, state)
    BY <2>1 DEF SliderInv, S!ProgressDragged, S!handles, SliderWindow, S!SliderWindow
  <2> QED BY <2>1, HandlesDragged DEF SliderInv
<1> USE DEF SliderWindow, S!SliderWindow, IndicatorInv, S!TypeOK, S!Positions
<1>4. startPercentage' \in 0..Duration /\ endPercentage' \in 0..Duration
      /\ startPercentage' <= endPercentage'
  <2>1. S!Least(MinSpace, Duration) \in Nat
    BY DEF S!Least
  <2> QED BY <1>3, <2>1
<1>5. IndicatorInv' /\ progressPercentage' \in Int
  <2>1. CASE S!StartDragged(dx, state)
    BY <2>1, <1>4 DEF S!StartDragged
  <2>2. CASE S!EndDragged(dx, state)
    BY <2>2, <1>4 DEF S!EndDragged
  <2>3. CASE S!ViewDragged(dx, state)
    BY <2>3, <1>2, <1>4 DEF S!ViewDragged, SliderInv
  <2>4. CASE S!ProgressDragged(dx, state)
    BY <2>4, <1>2, <1>4 DEF S!ProgressDragged, S!handles, S!Within, S!Least, S!Greatest,
       SliderInv
  <2> QED BY <2>1, <2>2, <2>3, <2>4
<1>6. progressPercentage' \in (-Duration)..Duration
  <2>1. PICK start \in 0..Duration, end \in 0..Duration, p \in Int :
            p = progressPercentage' /\ start - Duration <= p /\ p <= end
    BY <1>4, <1>5
  <2>2. p \in (-Duration)..Duration
    BY <2>1
  <2> QED BY <2>1, <2>2
<1> QED BY <1>1, <1>3, <1>4, <1>6, <1>5 DEF SliderInv

LEMMA SliderInvObserved ==
    ASSUME SliderInv, NEW time \in Times, S!UpdateProgressIndicator(time)
    PROVE  SliderInv'
  BY EditorAssumption DEF SliderInv, S!UpdateProgressIndicator, S!PassedEnd, S!handles,
                          SliderWindow, S!SliderWindow, IndicatorInv, S!TypeOK,
                          S!Positions, Times, S!Least

LEMMA SliderInvKept ==
    ASSUME SliderInv, UNCHANGED slider
    PROVE  SliderInv'
  BY DEF slider, SliderInv, SliderWindow, S!SliderWindow, IndicatorInv, S!TypeOK

\* The spans are numbered from one.
LEMMA IndicesAre ==
    ASSUME ControlTypes
    PROVE  \E n \in Nat : Indices = 1..n /\ n = Len(allDetectedTimestamps)
<1>1. allDetectedTimestamps \in Seq(Spans)
  BY Bounded, EditorAssumption DEF ControlTypes, SpanLists
<1> QED BY <1>1 DEF Indices

\* Where the animators are after the indicator has moved.
LEMMA IndicatorMoves ==
    ASSUME ControlTypes, AnimationInv, Ready, NEW position \in Int, NEW now \in Times,
           IndicatorDidChangePosition(position, now),
           UNCHANGED <<lesson, appeared, export, isPlaying>>
    PROVE  AnimationInv'
<1> USE EditorAssumption
<1>1. PICK n \in Nat : Indices = 1..n /\ n = Len(allDetectedTimestamps)
  BY IndicesAre
<1>2. Indices' = Indices /\ (OneSpan' <=> OneSpan)
  BY DEF lesson, Indices, OneSpan
<1>3. playerTime' \in Times
  BY DEF IndicatorDidChangePosition, S!Within, S!Least, S!Greatest, Times
<1>4. widgetAnimationsActive \in Seq(Indices)
  BY Bounded DEF AnimationInv, AnimationTypes
<1>5. trap = "none"
  BY DEF Ready
<1>6. CASE (\E i \in Due(position) : animator[i] = "none") /\ trap' = "standby"
           /\ UNCHANGED animations
  <2>1. export = "nil"
    BY <1>6 DEF AnimationInv, SetUp, Due
  <2> QED BY <1>2, <1>3, <1>6, <2>1 DEF animations, AnimationInv, AnimationTypes, SetUp,
         ActiveInv, InActive, EditorSafe, PlayResumesAll
<1>7. CASE InsertDue(position) = OutOfRange /\ trap' = "index" /\ UNCHANGED animations
  <2>1. ~OneSpan
    BY <1>1, <1>4, <1>7, OneSpanInserts DEF OneSpan
  <2> QED BY <1>2, <1>3, <1>7, <2>1 DEF animations, AnimationInv, AnimationTypes, SetUp,
         ActiveInv, EditorSafe, PlayResumesAll
<1>8. CASE /\ InsertDue(position) # OutOfRange /\ Room(position)
           /\ widgetAnimationsActive' = InsertDue(position)
           /\ animator' = [i \in Indices |-> IF i \in Starts(position) THEN "running"
                                             ELSE animator[i]]
           /\ UNCHANGED <<trap, completes>>
  <2> DEFINE due == Cardinality(Starts(position))
  <2>1. /\ widgetAnimationsActive' \in Seq(Indices)
        /\ Len(widgetAnimationsActive') = Len(widgetAnimationsActive) + due
    BY <1>1, <1>4, <1>8, InsertDueKeeps
  <2>2. IsFiniteSet(Starts(position))
    <3>1. Starts(position) \in SUBSET Indices
      BY DEF Starts, Due
    <3>2. IsFiniteSet(Indices)
      BY <1>1, FS_Interval
    <3> QED BY <3>1, <3>2, FS_Subset
  <2>3. due \in Nat /\ (Starts(position) # {} => due > 0)
    BY <2>2, FS_CardinalityType, FS_EmptySet
  <2>4. widgetAnimationsActive' \in BoundedSeq(Indices, MaxActive)
    BY <1>8, <2>1, <2>3, Bounded DEF Room
  <2>5. AnimationTypes'
    BY <1>2, <1>3, <1>8, <2>4 DEF AnimationInv, AnimationTypes
  <2>6. SetUp'
    BY <1>2, <1>8 DEF AnimationInv, SetUp
  <2>7. ASSUME OneSpan, NEW i \in Indices, animator'[i] \in {"running", "paused"}
        PROVE  InActive(i)'
    <3>1. Indices = {1}
      BY <1>1, <2>7 DEF OneSpan
    <3>2. Len(widgetAnimationsActive') > 0
      <4>1. CASE i \in Starts(position)
        BY <1>4, <2>1, <2>3, <4>1
      <4>2. CASE i \notin Starts(position)
        <5>1. InActive(i)
          BY <1>8, <2>7, <4>2 DEF AnimationInv, ActiveInv
        <5>2. Len(widgetAnimationsActive) > 0
          BY <1>4, <5>1 DEF InActive, Range
        <5> QED BY <1>4, <2>1, <2>3, <5>2
      <4> QED BY <4>1, <4>2
    <3>3. 1 \in DOMAIN widgetAnimationsActive' /\ widgetAnimationsActive'[1] = i
      BY <2>1, <2>7, <3>1, <3>2
    <3> QED BY <3>3 DEF InActive, Range
  <2>8. ActiveInv'
    BY <1>2, <2>7 DEF ActiveInv
  <2>9. EditorSafe'
    BY <1>2, <1>5, <1>8 DEF EditorSafe
  <2>10. PlayResumesAll'
    BY <1>2, <1>8 DEF AnimationInv, PlayResumesAll
  <2> QED BY <2>5, <2>6, <2>8, <2>9, <2>10 DEF AnimationInv
<1> QED BY <1>6, <1>7, <1>8 DEF IndicatorDidChangePosition

\* Where they are when the slider tells the editor nothing.
LEMMA AnimationInvKept ==
    ASSUME AnimationInv, UNCHANGED <<lesson, appeared, export, isPlaying>>, Unnotified
    PROVE  AnimationInv'
  BY DEF Unnotified, animations, lesson, AnimationInv, AnimationTypes, SetUp, ActiveInv,
         InActive, EditorSafe, PlayResumesAll, OneSpan, Indices

-----------------------------------------------------------------------------
(***************************************************************************)
(* The invariant holds at first, and every action keeps it.                *)
(***************************************************************************)
\* Before viewDidAppear there is no animator.
LEMMA EditorInvInit == Init => EditorInv
<1> SUFFICES ASSUME Init PROVE EditorInv
  OBVIOUS
<1> USE EditorAssumption DEF Init
<1>1. PICK n \in Nat : Indices = 1..n
  BY Bounded DEF SpanLists, Indices
<1>2. detected \subseteq Times
  <2>1. allDetectedTimestamps \in Seq(Spans)
    BY Bounded DEF SpanLists
  <2>2. \A s \in Range(allDetectedTimestamps) : s \in Spans
    BY <2>1 DEF Range
  <2> QED BY <2>2 DEF Spans
<1>3. ControlTypes
  BY <1>2 DEF ControlTypes, Pans
<1>4. SliderInv
  <2>1. /\ startPercentage = 0 /\ endPercentage = Duration /\ progressPercentage = 0
        /\ isReceivingGesture = FALSE
    BY DEF S!Init
  <2>2. 0 \in (-Duration)..Duration /\ 0 \in 0..Duration /\ Duration \in 0..Duration
    OBVIOUS
  <2>3. S!TypeOK
    BY <2>1, <2>2 DEF S!TypeOK, S!Positions
  <2>4. SliderWindow
    BY <2>1, <2>2 DEF SliderWindow, S!SliderWindow, S!Positions, S!Least
  <2>5. IndicatorInv
    BY <2>1 DEF IndicatorInv
  <2> QED BY <2>3, <2>4, <2>5 DEF SliderInv
<1>5. widgetAnimationsActive \in BoundedSeq(Indices, MaxActive)
  <2>1. <<>> \in Seq(Indices) /\ Len(<<>>) <= MaxActive
    OBVIOUS
  <2> QED BY <2>1, Bounded
<1>6. AnimationInv
  BY <1>5 DEF AnimationInv, AnimationTypes, Times, SetUp, ActiveInv, EditorSafe,
              PlayResumesAll
<1> QED BY <1>3, <1>4, <1>6 DEF EditorInv

\* Every drag of a part of the slider.
LEMMA EditorInvDragged ==
    ASSUME EditorInv, NEW dx \in Drags,
           NEW state \in {"began", "changed", "ended", "cancelled"},
           \/ StartDragged(dx, state) \/ EndDragged(dx, state)
           \/ ViewDragged(dx, state) \/ ProgressDragged(dx, state)
    PROVE  EditorInv'
<1> USE DEF EditorInv
<1>1. /\ UNCHANGED <<lesson, appeared, export, isPlaying, isHolding>> /\ Ready
      /\ pan' \in Pans
  BY DEF StartDragged, EndDragged, ViewDragged, ProgressDragged, PanStep, Pans
<1>2. ControlTypes'
  BY <1>1 DEF ControlTypes, lesson
<1>3. SliderInv'
  BY SliderInvDragged DEF StartDragged, EndDragged, ViewDragged, ProgressDragged
<1>4. playerTime \in Times
  BY DEF AnimationInv, AnimationTypes
<1>5. /\ progressPercentage \in Int
      /\ progressPercentage' \in Int
  BY <1>3, EditorAssumption DEF SliderInv, S!TypeOK
<1>6. AnimationInv'
  <2>1. ASSUME NEW position \in Int, IndicatorDidChangePosition(position, playerTime)
        PROVE  AnimationInv'
    BY <1>1, <1>4, <2>1, IndicatorMoves
  <2>2. CASE Unnotified
    BY <1>1, <2>2, AnimationInvKept
  <2>3. CASE NotifyIfMoved
    BY <1>5, <2>1, <2>2, <2>3 DEF NotifyIfMoved
  <2>4. CASE ProgressDragged(dx, state)
    BY <1>5, <2>1, <2>4 DEF ProgressDragged
  <2> QED BY <2>3, <2>4 DEF StartDragged, EndDragged, ViewDragged
<1> QED BY <1>2, <1>3, <1>6

\* setupVideoEdit, to its end or not.
LEMMA EditorInvAppears ==
    ASSUME EditorInv, ViewDidAppear
    PROVE  EditorInv'
<1> USE DEF EditorInv
<1>1. export = "nil" /\ trap = "none" /\ appeared'
  BY DEF ViewDidAppear, AnimationInv, SetUp
<1>2. /\ UNCHANGED <<lesson, isPlaying, isHolding, playerTime, pan, widgetAnimationsActive>>
      /\ UNCHANGED slider
  BY DEF ViewDidAppear
<1>3. Indices' = Indices /\ (OneSpan' <=> OneSpan)
  BY <1>2 DEF lesson, Indices, OneSpan
<1>4. SliderInv'
  BY <1>2, SliderInvKept
<1>5. export' \in {"nil", "ready", "started"}
  BY DEF ViewDidAppear, ControlTypes
<1>6. ControlTypes'
  BY <1>2, <1>5 DEF ViewDidAppear, ControlTypes, lesson
<1>7. CASE UNCHANGED <<export, animator, completes>> /\ trap' \in {"none", "points"}
  BY <1>1, <1>2, <1>3, <1>4, <1>6, <1>7 DEF AnimationInv, AnimationTypes, SetUp,
         ActiveInv, InActive, EditorSafe, PlayResumesAll
<1>8. CASE /\ animator' = [i \in Indices |-> "inactive"]
           /\ completes' = [i \in Indices |-> TRUE] /\ trap' = trap
  <2>1. AnimationTypes'
    BY <1>2, <1>3, <1>8 DEF AnimationInv, AnimationTypes
  <2>2. SetUp' /\ ActiveInv' /\ PlayResumesAll'
    BY <1>1, <1>3, <1>8 DEF SetUp, ActiveInv, PlayResumesAll
  <2>3. EditorSafe'
    BY <1>1, <1>8 DEF EditorSafe
  <2> QED BY <1>4, <1>6, <2>1, <2>2, <2>3 DEF AnimationInv
<1> QED BY <1>1, <1>7, <1>8 DEF ViewDidAppear

\* pause and play reach the animators in the active list.
LEMMA EditorInvPlays ==
    ASSUME EditorInv, HandlePlayButton
    PROVE  EditorInv'
<1> USE DEF EditorInv
<1>1. UNCHANGED <<lesson, appeared, trap, export, isHolding, playerTime, pan, completes,
                  widgetAnimationsActive>> /\ UNCHANGED slider
  BY DEF HandlePlayButton
<1>2. Indices' = Indices /\ (OneSpan' <=> OneSpan) /\ \A i : InActive(i)' <=> InActive(i)
  BY <1>1 DEF lesson, Indices, OneSpan, InActive
<1>3. SliderInv'
  BY <1>1, SliderInvKept
<1>4. isPlaying' \in BOOLEAN
  BY DEF HandlePlayButton, Pause, Play
<1>5. ControlTypes'
  BY <1>1, <1>4 DEF ControlTypes, lesson
<1>6. EditorSafe'
  BY <1>1, <1>2 DEF AnimationInv, EditorSafe
<1>7. CASE Pause
  <2>1. ~isPlaying'
    BY <1>7 DEF Pause
  <2>2. animator' = [i \in Indices |-> IF InActive(i) THEN "paused" ELSE animator[i]]
    BY <1>7 DEF Pause
  <2>3. AnimationTypes'
    BY <1>1, <1>2, <2>2 DEF AnimationInv, AnimationTypes
  <2>4. SetUp' /\ ActiveInv' /\ PlayResumesAll'
    BY <1>1, <1>2, <2>1, <2>2 DEF AnimationInv, SetUp, ActiveInv, PlayResumesAll
  <2> QED BY <1>3, <1>5, <1>6, <2>3, <2>4 DEF AnimationInv
<1>8. CASE Play
  <2>1. animator' = [i \in Indices |-> IF InActive(i) /\ animator[i] = "paused"
                                       THEN "running" ELSE animator[i]]
    BY <1>8 DEF Play
  <2>2. AnimationTypes'
    BY <1>1, <1>2, <2>1 DEF AnimationInv, AnimationTypes
  <2>3. SetUp' /\ ActiveInv'
    BY <1>1, <1>2, <2>1 DEF AnimationInv, SetUp, ActiveInv
  <2>4. PlayResumesAll'
    BY <1>2, <2>1 DEF AnimationInv, ActiveInv, PlayResumesAll
  <2> QED BY <1>3, <1>5, <1>6, <2>2, <2>3, <2>4 DEF AnimationInv
<1> QED BY <1>7, <1>8 DEF HandlePlayButton

\* The end of an animation, and its completion.
LEMMA EditorInvAnimatorEnds ==
    ASSUME EditorInv, NEW i \in Indices, AnimatorEnds(i)
    PROVE  EditorInv'
<1> USE EditorAssumption DEF EditorInv
<1>1. PICK n \in Nat : Indices = 1..n /\ n = Len(allDetectedTimestamps)
  BY IndicesAre
<1>2. /\ UNCHANGED <<lesson, appeared, export, isPlaying, isHolding, playerTime, pan>>
      /\ UNCHANGED slider
      /\ animator' = [animator EXCEPT ![i] = "inactive"]
      /\ completes' = [completes EXCEPT ![i] = FALSE]
      /\ trap = "none" /\ animator[i] = "running"
  BY DEF AnimatorEnds, Ready
<1>3. Indices' = Indices /\ (OneSpan' <=> OneSpan)
  BY <1>2 DEF lesson, Indices, OneSpan
<1>4. SliderInv' /\ ControlTypes'
  BY <1>2, SliderInvKept DEF ControlTypes, lesson
<1>5. widgetAnimationsActive \in Seq(Indices) /\ Len(widgetAnimationsActive) <= MaxActive
  BY Bounded DEF AnimationInv, AnimationTypes
<1>6. widgetAnimationsActive' \in Seq(Indices) /\ Len(widgetAnimationsActive') <= MaxActive
  <2>1. CASE i <= Len(widgetAnimationsActive)
             /\ widgetAnimationsActive' = RemoveAt(widgetAnimationsActive, i)
    <3>1. i \in 1..Len(widgetAnimationsActive)
      BY <1>1, <1>5, <2>1
    <3>2. /\ widgetAnimationsActive' \in Seq(Indices)
          /\ Len(widgetAnimationsActive') = Len(widgetAnimationsActive) - 1
      BY <1>5, <2>1, <3>1, Removed, Zenon
    <3> QED BY <1>5, <3>2
  <2>2. CASE widgetAnimationsActive' = widgetAnimationsActive
    BY <1>5, <2>2
  <2> QED BY <2>1, <2>2 DEF AnimatorEnds, RemoveAtOwnIndex
<1>7. AnimationTypes'
  <2>1. trap' \in {"none", "index"}
    BY <1>2 DEF AnimatorEnds
  <2>2. widgetAnimationsActive' \in BoundedSeq(Indices, MaxActive)
    BY <1>6, Bounded
  <2> QED BY <1>2, <1>3, <2>1, <2>2 DEF AnimationInv, AnimationTypes
<1>8. SetUp' /\ PlayResumesAll'
  BY <1>2, <1>3 DEF AnimationInv, AnimationTypes, SetUp, PlayResumesAll
<1>9. ASSUME OneSpan PROVE trap' = "none" /\ \A j \in Indices : animator'[j] = "inactive"
  <2>1. Indices = {1} /\ i = 1
    BY <1>1, <1>9 DEF OneSpan
  <2>2. InActive(1)
    BY <1>2, <1>9, <2>1 DEF AnimationInv, ActiveInv
  <2>3. 1 <= Len(widgetAnimationsActive)
    BY <1>5, <2>2 DEF InActive, Range
  <2>4. trap' = "none"
    BY <1>2, <2>1, <2>3 DEF AnimatorEnds, RemoveAtOwnIndex
  <2> QED BY <1>2, <2>1, <2>4 DEF AnimationInv, AnimationTypes
<1>10. ActiveInv'
  BY <1>3, <1>9 DEF ActiveInv
<1>11. EditorSafe'
  <2>1. trap' \in {"none", "index"}
    BY <1>2 DEF AnimatorEnds
  <2> QED BY <1>3, <1>9, <2>1 DEF EditorSafe
<1> QED BY <1>4, <1>7, <1>8, <1>10, <1>11 DEF AnimationInv

\* Every step of the editor.
LEMMA EditorInvNext ==
    ASSUME EditorInv, [Next]_vars
    PROVE  EditorInv'
<1> USE DEF EditorInv
<1>1. ASSUME NEW time \in Times, PlayerObserved(time) PROVE EditorInv'
  <2>1. /\ UNCHANGED <<lesson, appeared, export, isPlaying, isHolding, pan>>
        /\ Ready /\ S!UpdateProgressIndicator(time)
    BY <1>1 DEF PlayerObserved
  <2>2. ControlTypes' /\ SliderInv'
    BY <2>1, SliderInvObserved DEF ControlTypes, lesson
  <2>3. CASE IndicatorDidChangePosition(startPercentage, time)
    <3>1. startPercentage \in Int
      BY DEF SliderInv, S!TypeOK, S!Positions
    <3> QED BY <2>1, <2>2, <2>3, <3>1, IndicatorMoves
  <2>4. CASE playerTime' = time /\ UNCHANGED <<trap, animations>>
    BY <2>1, <2>2, <2>4 DEF animations, lesson, AnimationInv, AnimationTypes, SetUp,
                            ActiveInv, InActive, EditorSafe, PlayResumesAll, OneSpan,
                            Indices
  <2> QED BY <1>1, <2>3, <2>4 DEF PlayerObserved
<1>2. ASSUME NEW state \in {"began", "changed", "ended", "cancelled"}, HandlePan(state)
      PROVE  EditorInv'
  <2>1. /\ UNCHANGED <<lesson, appeared, export, isPlaying>>
        /\ UNCHANGED slider /\ Unnotified
        /\ pan' \in Pans
    BY <1>2 DEF HandlePan, PanStep, Pans
  <2>2. isHolding' \in BOOLEAN
    BY <1>2 DEF HandlePan, ControlTypes
  <2>3. ControlTypes'
    BY <2>1, <2>2 DEF ControlTypes, lesson
  <2>4. SliderInv' /\ AnimationInv'
    BY <2>1, SliderInvKept, AnimationInvKept
  <2> QED BY <2>3, <2>4
<1>3. CASE HandleDoneButton
  <2>1. UNCHANGED <<lesson, appeared, isPlaying, isHolding, playerTime, pan, animations>>
        /\ UNCHANGED slider /\ trap = "none"
    BY <1>3 DEF HandleDoneButton, Ready
  <2>2. export' \in {"nil", "started"}
    BY <1>3 DEF HandleDoneButton
  <2>3. ControlTypes' /\ SliderInv'
    BY <2>1, <2>2, SliderInvKept DEF ControlTypes, lesson
  <2>4. \/ export = "nil" /\ export' = "nil" /\ trap' = "export"
        \/ export # "nil" /\ trap' = "none"
    BY <1>3, <2>1 DEF HandleDoneButton
  <2>5. AnimationInv'
    BY <2>1, <2>4 DEF animations, lesson, AnimationInv, AnimationTypes, SetUp, ActiveInv,
                      InActive, EditorSafe, PlayResumesAll, OneSpan, Indices
  <2> QED BY <2>3, <2>5
<1>4. CASE UNCHANGED vars
  <2>1. /\ UNCHANGED <<lesson, appeared, export, isPlaying, isHolding, pan>>
        /\ UNCHANGED slider /\ Unnotified
    BY <1>4 DEF vars, Unnotified
  <2> QED BY <2>1, SliderInvKept, AnimationInvKept DEF ControlTypes, lesson
<1> QED BY <1>1, <1>2, <1>3, <1>4, EditorInvAppears, EditorInvDragged, EditorInvPlays,
           EditorInvAnimatorEnds DEF Next, Drag, Trapped

-----------------------------------------------------------------------------
\* The invariant holds of every run of the editor (VideoEditController.swift).
THEOREM EditorInvariant == Spec => []EditorInv
  BY EditorInvInit, EditorInvNext, PTL DEF Spec

\* The editor's state is type correct: the indicator stays on the slider, the player
\* within the movie, and the active list holds animators only, however many times the
\* loop of indicatorDidChangePosition has inserted into it.
THEOREM EditorTypeOK == Spec => []TypeOK
  BY EditorInvariant, EditorInvImplies, PTL

\* An editor that was set up to the end and has at most one span never traps, and an index
\* is wrong only with several spans (indicatorDidChangePosition, setupVideoEdit).
THEOREM OneSpanIsSafe == Spec => []EditorSafe
  BY EditorInvariant, EditorInvImplies, PTL

\* While the movie plays, the animation of an only span is not left paused (play).
THEOREM OneSpanResumes == Spec => []PlayResumesAll
  BY EditorInvariant, EditorInvImplies, PTL

\* Pause stops the animation of an only span, one included that a drag started while the
\* movie was paused (pause).
THEOREM OneSpanPauses == Spec => PauseStopsAll
<1>1. EditorInv /\ [Next]_vars =>
          [OneSpan /\ isPlaying /\ ~isPlaying' =>
               \A i \in Indices : animator'[i] # "running"]_vars
  <2> SUFFICES ASSUME EditorInv, Next, OneSpan, isPlaying, ~isPlaying', NEW i \in Indices
               PROVE  animator'[i] # "running"
    OBVIOUS
  <2>1. Pause
    BY DEF Next, Drag, ViewDidAppear, StartDragged, EndDragged, ViewDragged,
           ProgressDragged, HandlePan, HandlePlayButton, Play, HandleDoneButton,
           PlayerObserved, AnimatorEnds, Trapped, vars
  <2> QED BY <2>1 DEF Pause, EditorInv, AnimationInv, ActiveInv
<1> QED BY <1>1, EditorInvariant, PTL DEF Spec, PauseStopsAll
=============================================================================
