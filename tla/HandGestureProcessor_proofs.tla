--------------------- MODULE HandGestureProcessor_proofs ---------------------
(***************************************************************************)
(* For every evidence trigger: the gesture state is type correct, and is   *)
(* backed by exactly the evidence it claims, which in turn is what the     *)
(* last frames showed.                                                     *)
(***************************************************************************)
EXTENDS MCHandGestureProcessor, TLAPS

\* One more frame of evidence stays within the trigger, is never none, and
\* reaches the trigger or not: the comparison in processPoints.
LEMMA MoreEvidenceBound ==
    ASSUME NEW n \in 0..Trigger
    PROVE  /\ MoreEvidence(n) \in 0..Trigger
           /\ MoreEvidence(n) # 0
           /\ MoreEvidence(n) >= Trigger <=> MoreEvidence(n) = Trigger
  BY TriggerAssumption DEF MoreEvidence

\* Types and evidence are inductive together.
Backed == TypeOK /\ EvidenceBacksState

LEMMA BackedInit == Init => Backed
  BY TriggerAssumption DEF Init, Backed, TypeOK, EvidenceBacksState, States

LEMMA BackedNext == Backed /\ [Next]_vars => Backed'
<1> SUFFICES ASSUME TypeOK, EvidenceBacksState, [Next]_vars
             PROVE  (TypeOK /\ EvidenceBacksState)'
  BY DEF Backed
<1>1. CASE Reset
  BY <1>1, TriggerAssumption DEF Reset, TypeOK, EvidenceBacksState, States
<1>2. CASE OpenEvidence
  <2>1. openPalmEvidence \in 0..Trigger
    BY DEF TypeOK
  <2>2. QED
    BY <1>2, <2>1, MoreEvidenceBound, TriggerAssumption
       DEF OpenEvidence, TypeOK, EvidenceBacksState, States
<1>3. CASE SideEvidence
  <2>1. sidePalmEvidence \in 0..Trigger
    BY DEF TypeOK
  <2>2. QED
    BY <1>3, <2>1, MoreEvidenceBound, TriggerAssumption
       DEF SideEvidence, TypeOK, EvidenceBacksState, States
<1>4. CASE UNCHANGED vars
  BY <1>4 DEF vars, TypeOK, EvidenceBacksState
<1>5. QED
  BY <1>1, <1>2, <1>3, <1>4 DEF Next, ProcessPoints

\* Every state the processor reaches is of its type and backed by its evidence:
\* in particular a palm is only confirmed on Trigger frames of evidence for it and
\* none for the other (processPoints and reset).
THEOREM GestureBacked == Spec => [](TypeOK /\ EvidenceBacksState)
<1>1. Backed => TypeOK /\ EvidenceBacksState
  BY DEF Backed
<1>2. QED
  BY <1>1, BackedInit, BackedNext, PTL DEF Spec

\* The processor's state is type correct, for every trigger: evidence stops at it
\* (processPoints).
THEOREM GestureTypeOK == Spec => []TypeOK
  BY GestureBacked, PTL

-----------------------------------------------------------------------------
(***************************************************************************)
(* The counters against the frames: each is the length of the run of its   *)
(* shape that the history ends with.                                       *)
(***************************************************************************)
Inputs == Shapes \cup {"reset"}

\* The history ends with exactly n frames of this shape.
EndsWith(shape, n) ==
    /\ n \in 0..Len(seen)
    /\ \A i \in 1..Len(seen) : i > Len(seen) - n => seen[i] = shape
    /\ n < Len(seen) => seen[Len(seen) - n] # shape

SeenInv ==
    /\ seen \in Seq(Inputs) /\ Len(seen) <= Trigger
    /\ EndsWith("open", openPalmEvidence)
    /\ EndsWith("side", sidePalmEvidence)
    /\ state = "possibleOpenPalm" <=> openPalmEvidence \in 1..(Trigger - 1)

\* What the history becomes: its last frames move up once it is full.
LEMMA Remembered ==
    ASSUME seen \in Seq(Inputs), Len(seen) <= Trigger, NEW input \in Inputs, Remember(input)
    PROVE  /\ seen' \in Seq(Inputs) /\ Len(seen) \in Nat
           /\ Len(seen') = IF Len(seen) < Trigger THEN Len(seen) + 1 ELSE Trigger
           /\ seen'[Len(seen')] = input
           /\ \A i \in 1..(Len(seen') - 1) :
                 seen'[i] = seen[IF Len(seen) < Trigger THEN i ELSE i + 1]
<1> DEFINE all == Append(seen, input)
<1>1. /\ all \in Seq(Inputs) /\ Len(all) = Len(seen) + 1 /\ Len(seen) \in Nat
      /\ all[Len(seen) + 1] = input /\ \A i \in 1..Len(seen) : all[i] = seen[i]
  OBVIOUS
<1> HIDE DEF all
<1>2. CASE Len(seen) < Trigger
  <2>1. seen' = all
    BY <1>1, <1>2, TriggerAssumption DEF Remember, all
  <2>2. QED
    BY <1>1, <1>2, <2>1, TriggerAssumption
<1>3. CASE Len(seen) = Trigger
  <2>1. seen' = Tail(all)
    BY <1>1, <1>3, TriggerAssumption DEF Remember, all
  <2>2. /\ Tail(all) \in Seq(Inputs) /\ Len(Tail(all)) = Len(all) - 1
        /\ \A i \in 1..(Len(all) - 1) : Tail(all)[i] = all[i + 1]
    BY <1>1
  <2>3. QED
    BY <1>1, <1>3, <2>1, <2>2, TriggerAssumption
<1>4. QED
  BY <1>1, <1>2, <1>3, TriggerAssumption

\* One more frame of the shape makes the run longer, up to the trigger; any other input
\* ends it.
LEMMA RunGrows ==
    ASSUME seen \in Seq(Inputs), Len(seen) <= Trigger, NEW input \in Inputs, Remember(input),
           NEW shape, NEW n, EndsWith(shape, n)
    PROVE  /\ input = shape => EndsWith(shape, MoreEvidence(n))'
           /\ input # shape => EndsWith(shape, 0)'
<1>1. /\ Len(seen) \in Nat /\ n \in 0..Len(seen)
      /\ Len(seen') = IF Len(seen) < Trigger THEN Len(seen) + 1 ELSE Trigger
      /\ seen'[Len(seen')] = input
      /\ \A i \in 1..(Len(seen') - 1) :
            seen'[i] = seen[IF Len(seen) < Trigger THEN i ELSE i + 1]
  BY Remembered DEF EndsWith
<1>2. CASE input # shape
  <2>1. Len(seen') \in Nat /\ Len(seen') - 0 = Len(seen')
    BY <1>1, TriggerAssumption
  <2>2. seen'[Len(seen') - 0] # shape
    BY <1>1, <1>2, <2>1
  <2>3. \A i \in 1..Len(seen') : ~(i > Len(seen') - 0)
    BY <2>1
  <2>4. QED
    BY <1>2, <2>1, <2>2, <2>3 DEF EndsWith
<1>3. CASE input = shape
  <2> DEFINE m == MoreEvidence(n)
  <2>1. m \in 0..Len(seen') /\ m > 0
    BY <1>1, TriggerAssumption DEF MoreEvidence
  <2>2. ASSUME NEW i \in 1..Len(seen'), i > Len(seen') - m PROVE seen'[i] = shape
    <3>1. CASE i = Len(seen')
      BY <1>1, <1>3, <3>1
    <3>2. CASE i # Len(seen') /\ Len(seen) < Trigger
      <4>1. i \in 1..Len(seen) /\ i > Len(seen) - n /\ seen'[i] = seen[i]
        BY <1>1, <2>2, <3>2, TriggerAssumption DEF MoreEvidence
      <4>2. QED
        BY <4>1 DEF EndsWith
    <3>3. CASE i # Len(seen') /\ Len(seen) = Trigger
      <4>1. i + 1 \in 1..Len(seen) /\ i + 1 > Len(seen) - n /\ seen'[i] = seen[i + 1]
        BY <1>1, <2>2, <3>3, TriggerAssumption DEF MoreEvidence
      <4>2. QED
        BY <4>1 DEF EndsWith
    <3>4. QED
      BY <1>1, <3>1, <3>2, <3>3, TriggerAssumption
  <2>3. ASSUME m < Len(seen') PROVE seen'[Len(seen') - m] # shape
    <3>1. CASE Len(seen) < Trigger
      <4>1. n < Len(seen) /\ seen'[Len(seen') - m] = seen[Len(seen) - n]
        BY <1>1, <2>3, <3>1, TriggerAssumption DEF MoreEvidence
      <4>2. QED
        BY <4>1 DEF EndsWith
    <3>2. CASE Len(seen) = Trigger
      <4>1. n < Len(seen) /\ seen'[Len(seen') - m] = seen[Len(seen) - n]
        BY <1>1, <2>3, <3>2, TriggerAssumption DEF MoreEvidence
      <4>2. QED
        BY <4>1 DEF EndsWith
    <3>3. QED
      BY <1>1, <3>1, <3>2, TriggerAssumption
  <2>4. QED
    BY <1>3, <2>1, <2>2, <2>3 DEF EndsWith
<1>4. QED
  BY <1>2, <1>3

LEMMA SeenInit == MCInit => SeenInv
  BY TriggerAssumption DEF MCInit, Init, SeenInv, EndsWith

LEMMA SeenNext == Backed /\ SeenInv /\ [MCNext]_<<vars, seen>> => SeenInv'
<1> SUFFICES ASSUME Backed, SeenInv, [MCNext]_<<vars, seen>> PROVE SeenInv'
  OBVIOUS
<1>1. openPalmEvidence \in 0..Trigger /\ sidePalmEvidence \in 0..Trigger
  BY DEF Backed, TypeOK
<1>2. CASE UNCHANGED <<vars, seen>>
  BY <1>2 DEF vars, SeenInv, EndsWith
<1>3. ASSUME NEW input \in Inputs, Remember(input)
      PROVE  /\ seen' \in Seq(Inputs) /\ Len(seen') <= Trigger
             /\ \A n : n = openPalmEvidence =>
                   /\ input = "open" => EndsWith("open", MoreEvidence(n))'
                   /\ input # "open" => EndsWith("open", 0)'
             /\ \A n : n = sidePalmEvidence =>
                   /\ input = "side" => EndsWith("side", MoreEvidence(n))'
                   /\ input # "side" => EndsWith("side", 0)'
  <2>1. seen' \in Seq(Inputs) /\ Len(seen') <= Trigger
    BY <1>3, Remembered, TriggerAssumption DEF SeenInv
  <2>2. \A n : n = openPalmEvidence => EndsWith("open", n)
    BY DEF SeenInv
  <2>3. \A n : n = sidePalmEvidence => EndsWith("side", n)
    BY DEF SeenInv
  <2>4. seen \in Seq(Inputs) /\ Len(seen) <= Trigger
    BY DEF SeenInv
  <2>5. QED
    BY <1>3, <2>1, <2>2, <2>3, <2>4, RunGrows
<1>4. CASE Reset /\ Remember("reset")
  <2>1. "reset" \in Inputs
    BY DEF Inputs
  <2>2. QED
    BY <1>3, <1>4, <2>1 DEF SeenInv, Reset, EndsWith
<1>5. ASSUME NEW shape \in Shapes, ProcessPoints(shape), Remember(shape) PROVE SeenInv'
  <2>1. shape \in Inputs
    BY DEF Inputs
  <2>2. CASE shape = "open" /\ OpenEvidence
    <3>1. PICK n \in 0..Trigger : n = openPalmEvidence
      BY <1>1
    <3>2. EndsWith("open", MoreEvidence(n))' /\ EndsWith("side", 0)'
      BY <1>3, <1>5, <2>1, <2>2, <3>1
    <3>3. EndsWith("open", openPalmEvidence)' /\ EndsWith("side", sidePalmEvidence)'
      BY <2>2, <3>1, <3>2 DEF OpenEvidence, EndsWith
    <3>4. state' = "possibleOpenPalm" <=> openPalmEvidence' \in 1..(Trigger - 1)
      BY <2>2, <3>1, MoreEvidenceBound, TriggerAssumption DEF OpenEvidence
    <3>5. QED
      BY <1>3, <1>5, <2>1, <3>3, <3>4 DEF SeenInv
  <2>3. CASE shape = "side" /\ SideEvidence
    <3>1. PICK n \in 0..Trigger : n = sidePalmEvidence
      BY <1>1
    <3>2. EndsWith("side", MoreEvidence(n))' /\ EndsWith("open", 0)'
      BY <1>3, <1>5, <2>1, <2>3, <3>1
    <3>3. EndsWith("open", openPalmEvidence)' /\ EndsWith("side", sidePalmEvidence)'
      BY <2>3, <3>1, <3>2 DEF SideEvidence, EndsWith
    <3>4. state' # "possibleOpenPalm" /\ openPalmEvidence' = 0
      BY <2>3 DEF SideEvidence
    <3>5. QED
      BY <1>3, <1>5, <2>1, <3>3, <3>4, TriggerAssumption DEF SeenInv
  <2>4. CASE shape = "other" /\ Reset
    BY <1>3, <1>5, <2>1, <2>4 DEF SeenInv, Reset, EndsWith
  <2>5. QED
    BY <1>5, <2>2, <2>3, <2>4 DEF ProcessPoints
<1>6. QED
  BY <1>2, <1>4, <1>5 DEF MCNext

\* A full run is the whole history.
LEMMA FullRun ==
    ASSUME SeenInv, NEW shape, NEW n, EndsWith(shape, n)
    PROVE  n = Trigger <=> LastAll(shape)
<1>1. /\ Len(seen) \in Nat /\ Len(seen) <= Trigger /\ n \in 0..Len(seen)
      /\ ToSet(seen) = {seen[i] : i \in 1..Len(seen)}
  BY DEF SeenInv, EndsWith, ToSet
<1>2. ASSUME n = Trigger PROVE LastAll(shape)
  <2>1. Len(seen) = Trigger /\ \A i \in 1..Len(seen) : seen[i] = shape
    BY <1>1, <1>2, TriggerAssumption DEF EndsWith
  <2>2. 1 \in 1..Len(seen)
    BY <2>1, TriggerAssumption
  <2>3. QED
    BY <1>1, <2>1, <2>2 DEF LastAll
<1>3. ASSUME LastAll(shape) PROVE n = Trigger
  <2>1. Len(seen) = Trigger /\ \A i \in 1..Len(seen) : seen[i] = shape
    BY <1>1, <1>3 DEF LastAll
  <2>2. QED
    BY <1>1, <2>1, TriggerAssumption DEF EndsWith
<1>4. QED
  BY <1>2, <1>3

\* For every trigger, a palm is reported exactly when the last Trigger frames all showed
\* it and nothing reset the processor in between, and a possible palm when the last frame
\* showed one but not yet all of them did (processPoints and reset, over every sequence of
\* frames and resets).
THEOREM ConfirmedExactly == MCSpec => []ConfirmedIffSeen
<1>1. MCInit => Backed /\ SeenInv
  BY BackedInit, SeenInit DEF MCInit
<1>2. Backed /\ SeenInv /\ [MCNext]_<<vars, seen>> => (Backed /\ SeenInv)'
  <2>1. [MCNext]_<<vars, seen>> => [Next]_vars
    BY DEF MCNext, Next
  <2>2. QED
    BY <2>1, BackedNext, SeenNext
<1>3. Backed /\ SeenInv => ConfirmedIffSeen
  <2> SUFFICES ASSUME Backed, SeenInv PROVE ConfirmedIffSeen
    OBVIOUS
  <2>1. /\ openPalmEvidence = Trigger <=> LastAll("open")
        /\ sidePalmEvidence = Trigger <=> LastAll("side")
    BY FullRun DEF SeenInv
  <2>2. ASSUME state = "possibleOpenPalm"
        PROVE  seen # <<>> /\ Last(seen) = "open" /\ ~LastAll("open")
    <3>1. openPalmEvidence \in 1..(Trigger - 1) /\ Len(seen) \in Nat
      BY <2>2 DEF SeenInv
    <3>2. Len(seen) > 0 /\ seen[Len(seen)] = "open"
      BY <3>1, TriggerAssumption DEF SeenInv, EndsWith
    <3>3. QED
      BY <2>1, <3>1, <3>2, TriggerAssumption DEF Last
  <2>3. QED
    BY <2>1, <2>2 DEF ConfirmedIffSeen, Backed, EvidenceBacksState
<1>4. QED
  BY <1>1, <1>2, <1>3, PTL DEF MCSpec
=============================================================================
