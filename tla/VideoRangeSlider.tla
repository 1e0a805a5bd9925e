-------------------------- MODULE VideoRangeSlider --------------------------
(***************************************************************************)
(* ABVideoRangeSlider.swift, the slider under the movie in the editor: two *)
(* handles around a window of the movie and an indicator of its progress.  *)
(*                                                                         *)
(* Percentages, positions and seconds are the same scale here, cut into    *)
(* whole seconds.  The editor leaves maxSpace at 0, so that the branch on  *)
(* it is never taken.                                                      *)
(***************************************************************************)
EXTENDS Integers

CONSTANTS
    Duration,        \* of the movie, in seconds
    MinSpace         \* minSpace: seconds between the handles

VARIABLES
    startPercentage, endPercentage,   \* the handles
    progressPercentage,               \* the indicator
    isReceivingGesture

handles == <<startPercentage, endPercentage>>
vars == <<startPercentage, endPercentage, progressPercentage, isReceivingGesture>>

Positions == 0..Duration

TypeOK ==
    /\ startPercentage \in Positions /\ endPercentage \in Positions
    /\ progressPercentage \in (-Duration)..Duration
    /\ isReceivingGesture \in BOOLEAN

Init ==
    /\ startPercentage = 0 /\ endPercentage = Duration
    /\ progressPercentage = 0
    /\ isReceivingGesture = FALSE

-----------------------------------------------------------------------------
Least(a, b) == IF a < b THEN a ELSE b
Greatest(a, b) == IF a > b THEN a ELSE b

\* Mutant of Within: the far edge of the slider is not looked at.
NotBelow(p, low, high) == Greatest(p, low)
Within(p, low, high) == Least(Greatest(p, low), high)

\* The states of a pan gesture.  One that the system cancels is not an end.
UpdateGestureStatus(pan) ==
    isReceivingGesture' = IF pan = "began" THEN TRUE
                          ELSE IF pan = "ended" THEN FALSE ELSE isReceivingGesture

\* A handle stops at the edges and keeps its distance from the other one; in a
\* movie shorter than that distance it stays at its edge.
\* Mutant of LimitedStart: the distance is not kept.
UnlimitedStart(p) == IF Duration < MinSpace THEN 0 ELSE Least(p, Duration)
LimitedStart(p) ==
    IF Duration < MinSpace THEN 0 ELSE Least(p, endPercentage - MinSpace)
LimitedEnd(p) ==
    IF Duration < MinSpace THEN Duration ELSE Greatest(p, startPercentage + MinSpace)

StartDragged(dx, pan) ==
    /\ UpdateGestureStatus(pan)
    /\ startPercentage' = LimitedStart(Within(startPercentage + dx, 0, Duration))
    /\ progressPercentage' = startPercentage'
    /\ UNCHANGED endPercentage

\* The indicator goes with the handle, and back to the start when it is let go.
EndDragged(dx, pan) ==
    /\ UpdateGestureStatus(pan)
    /\ endPercentage' = LimitedEnd(Within(endPercentage + dx, 0, Duration))
    /\ progressPercentage' = IF pan = "ended" THEN startPercentage ELSE endPercentage'
    /\ UNCHANGED startPercentage

ProgressDragged(dx, pan) ==
    /\ UpdateGestureStatus(pan)
    /\ progressPercentage' = Within(progressPercentage + dx, startPercentage, endPercentage)
    /\ UNCHANGED handles

\* The window as a whole: at an edge, the handle there stops and the rest returns to
\* where it was.
ViewDragged(dx, pan) ==
    /\ UpdateGestureStatus(pan)
    /\ \/ /\ startPercentage + dx < 0
          /\ startPercentage' = 0
          /\ UNCHANGED <<endPercentage, progressPercentage>>
       \/ /\ startPercentage + dx >= 0 /\ endPercentage + dx > Duration
          /\ endPercentage' = Duration
          /\ UNCHANGED <<startPercentage, progressPercentage>>
       \/ /\ startPercentage + dx >= 0 /\ endPercentage + dx <= Duration
          /\ startPercentage' = startPercentage + dx
          /\ endPercentage' = endPercentage + dx
          /\ progressPercentage' = progressPercentage + dx

\* updateProgressIndicator: the indicator follows the player, and returns to the
\* start of the window when the player has passed its end.
PassedEnd(seconds) == ~isReceivingGesture /\ seconds >= endPercentage

UpdateProgressIndicator(seconds) ==
    /\ progressPercentage' = IF isReceivingGesture THEN progressPercentage
                             ELSE IF PassedEnd(seconds) THEN startPercentage
                             ELSE seconds
    /\ UNCHANGED <<handles, isReceivingGesture>>

-----------------------------------------------------------------------------
\* The handles keep minSpace seconds between them, and stay on the slider, whichever
\* of the three is dragged however far (processHandleDrag, viewDragged).
SliderWindow ==
    /\ startPercentage \in Positions /\ endPercentage \in Positions
    /\ startPercentage + Least(MinSpace, Duration) <= endPercentage
=============================================================================
