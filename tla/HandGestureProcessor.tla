------------------------ MODULE HandGestureProcessor ------------------------
(***************************************************************************)
(* Camera/HandGestureProcessor.swift: the classifier that turns one hand   *)
(* pose per camera frame into a debounced gesture state.  A palm is only   *)
(* "possible" until the same shape has been seen Trigger times in a row.   *)
(*                                                                         *)
(* The geometry of a frame is abstracted to the branch it takes in         *)
(* processPoints: "open" (all four fingers straight), "side" (only the     *)
(* little finger straight) or "other".                                     *)
(***************************************************************************)
EXTENDS Naturals

CONSTANT Trigger          \* evidenceCounterStateTrigger

ASSUME TriggerAssumption == Trigger \in Nat \ {0}

VARIABLES
    state,                \* state: the enum State
    openPalmEvidence,     \* openPalmEvidenceCounter, saturated at Trigger
    sidePalmEvidence      \* sidePalmEvidenceCounter, saturated at Trigger

vars == <<state, openPalmEvidence, sidePalmEvidence>>

Shapes == {"open", "side", "other"}
States == {"possibleOpenPalm", "openPalm", "possibleSidePalm", "sidePalm", "unknown"}

TypeOK ==
    /\ state \in States
    /\ openPalmEvidence \in 0..Trigger
    /\ sidePalmEvidence \in 0..Trigger

Init ==
    /\ state = "unknown"
    /\ openPalmEvidence = 0
    /\ sidePalmEvidence = 0

\* Mutant of MoreEvidence: the evidence is never capped.
UncappedEvidence(n) == n + 1

\* The counters of the code grow without bound; the only thing ever asked of
\* them is whether they reached the trigger, so they stop there.
MoreEvidence(n) == IF n < Trigger THEN n + 1 ELSE n

\* Mutant of Reset: the counters keep their evidence.
ResetStateOnly ==
    /\ state' = "unknown"
    /\ UNCHANGED <<openPalmEvidence, sidePalmEvidence>>

\* The whole of reset(): state first, whose didSet observer runs before the
\* counters are cleared.  The observer does not read the counters, and both run
\* on the main thread, so the three assignments are one step.
Reset ==
    /\ state' = "unknown"
    /\ openPalmEvidence' = 0
    /\ sidePalmEvidence' = 0

\* All four fingers are straight.
OpenEvidence ==
    /\ openPalmEvidence' = MoreEvidence(openPalmEvidence)
    /\ sidePalmEvidence' = 0
    /\ state' = IF openPalmEvidence' >= Trigger THEN "openPalm" ELSE "possibleOpenPalm"

\* Mutant of SideEvidence: the evidence of an open palm survives a side palm.
SideKeepsOpenEvidence ==
    /\ openPalmEvidence' = openPalmEvidence
    /\ sidePalmEvidence' = MoreEvidence(sidePalmEvidence)
    /\ state' = IF sidePalmEvidence' >= Trigger THEN "sidePalm" ELSE "possibleSidePalm"

\* Only the little finger is straight.
SideEvidence ==
    /\ openPalmEvidence' = 0
    /\ sidePalmEvidence' = MoreEvidence(sidePalmEvidence)
    /\ state' = IF sidePalmEvidence' >= Trigger THEN "sidePalm" ELSE "possibleSidePalm"

ProcessPoints(shape) ==
    \/ shape = "open" /\ OpenEvidence
    \/ shape = "side" /\ SideEvidence
    \/ shape = "other" /\ Reset

Next == Reset \/ \E shape \in Shapes : ProcessPoints(shape)

Spec == Init /\ [][Next]_vars

-----------------------------------------------------------------------------

\* The evidence of the two palms is exclusive, and each state is backed by the
\* evidence it claims: processPoints and reset never confirm a palm on evidence
\* left over from another palm or from before an interruption.
EvidenceBacksState ==
    /\ openPalmEvidence = 0 \/ sidePalmEvidence = 0
    /\ state = "openPalm" <=> openPalmEvidence = Trigger
    /\ state = "sidePalm" <=> sidePalmEvidence = Trigger
    /\ state = "unknown" <=> openPalmEvidence = 0 /\ sidePalmEvidence = 0
=============================================================================
