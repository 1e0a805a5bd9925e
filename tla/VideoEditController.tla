------------------------- MODULE VideoEditController -------------------------
(***************************************************************************)
(* Controllers/VideoEditController.swift: the editor, which is given a     *)
(* lesson's movie and spans by the camera (handleMoveToEdit) and lays one  *)
(* animator over each span.  Everything here runs on the main thread; the  *)
(* order of taps, drags, the player's observer and the animators'          *)
(* completions is free.                                                    *)
(***************************************************************************)
EXTENDS Integers, Sequences, SequencesExt, FiniteSets

CONSTANTS
    Duration,        \* of the movie, in seconds
    MinSpace,        \* the slider's minSpace
    MaxSpans,        \* bound: spans of a lesson
    MaxActive,       \* bound: entries of widgetAnimationsActive
    Drags            \* distances that a finger moves between two events

ASSUME EditorAssumption ==
    /\ Duration \in Nat /\ MinSpace \in Nat
    /\ MaxSpans \in Nat /\ MaxActive \in Nat
    /\ Drags \subseteq Int

VARIABLES
    \* What the camera hands over.
    allDetectedTimestamps,   \* sequence of <<start, end>>
    detected,                \* the starts that have points
    playable,                \* the movie has a video track
    \* The editor.
    appeared,                \* viewDidAppear has run
    trap,                    \* what ended the application, or "none"
    export,                  \* the export session: "nil", "ready" or "started"
    isPlaying, isHolding,
    playerTime,              \* the player's time
    pan,                     \* the pan gesture in progress, by its recognizer
    \* The animators.
    animator,                \* animator[i]: state of widgetAnimationsStandBy[i]
    completes,               \* completes[i]: its completion has yet to run
    widgetAnimationsActive,  \* indices of the animators in it
    \* The slider.
    startPercentage, endPercentage, progressPercentage, isReceivingGesture

S == INSTANCE VideoRangeSlider

slider == <<startPercentage, endPercentage, progressPercentage, isReceivingGesture>>
animations == <<animator, completes, widgetAnimationsActive>>
lesson == <<allDetectedTimestamps, detected, playable>>
vars == <<lesson, appeared, trap, export, isPlaying, isHolding, playerTime, pan,
          animations, slider>>

Times == 0..Duration
Spans == {s \in Times \X Times : s[1] <= s[2]}

\* In the order in which the camera closed them.
SpanLists ==
    {list \in BoundedSeq(Spans, MaxSpans) :
        \A i, j \in DOMAIN list :
            i < j => list[i][1] <= list[j][1] /\ list[i][2] <= list[j][2]}
Indices == DOMAIN allDetectedTimestamps
Pans == {"none", "start", "end", "progress", "view", "editor"}

TypeOK ==
    /\ allDetectedTimestamps \in SpanLists
    /\ detected \subseteq Times
    /\ {playable, appeared, isPlaying, isHolding} \subseteq BOOLEAN
    /\ trap \in {"none", "points", "index", "standby", "export"}
    /\ export \in {"nil", "ready", "started"}
    /\ playerTime \in Times
    /\ pan \in Pans
    /\ animator \in [Indices -> {"none", "inactive", "running", "paused"}]
    /\ completes \in [Indices -> BOOLEAN]
    /\ widgetAnimationsActive \in BoundedSeq(Indices, MaxActive)
    /\ S!TypeOK

Init ==
    /\ allDetectedTimestamps \in SpanLists
    /\ detected \in SUBSET {s[1] : s \in Range(allDetectedTimestamps)}
    /\ playable \in BOOLEAN
    /\ appeared = FALSE /\ trap = "none" /\ export = "nil"
    /\ isPlaying = FALSE /\ isHolding = FALSE
    /\ playerTime = 0 /\ pan = "none"
    /\ animator = [i \in Indices |-> "none"]
    /\ completes = [i \in Indices |-> FALSE]
    /\ widgetAnimationsActive = <<>>
    /\ S!Init

Ready == appeared /\ trap = "none"

-----------------------------------------------------------------------------
\* setupVideoEdit: without a video track it returns before it makes an animator; it
\* unwraps the points of every span; it may return without an export session.
ViewDidAppear ==
    /\ ~appeared /\ trap = "none"
    /\ appeared' = TRUE
    /\ \/ /\ ~playable
          /\ UNCHANGED <<trap, export, animator, completes>>
       \/ /\ playable /\ \E s \in Range(allDetectedTimestamps) : s[1] \notin detected
          /\ trap' = "points"
          /\ UNCHANGED <<export, animator, completes>>
       \/ /\ playable /\ \A s \in Range(allDetectedTimestamps) : s[1] \in detected
          /\ animator' = [i \in Indices |-> "inactive"]
          /\ completes' = [i \in Indices |-> TRUE]
          /\ export' \in {"nil", "ready"}
          /\ UNCHANGED trap
    /\ UNCHANGED <<lesson, isPlaying, isHolding, playerTime, pan, widgetAnimationsActive,
                   slider>>

-----------------------------------------------------------------------------
(***************************************************************************)
(* indicatorDidChangePosition starts the animators of the spans that begin *)
(* at or after the position, and inserts each at its own index.            *)
(***************************************************************************)
Due(position) ==
    {i \in Indices : /\ allDetectedTimestamps[i][1] >= position
                     /\ position <= allDetectedTimestamps[i][2]}
Starts(position) == {i \in Due(position) : animator[i] # "running"}

\* Mutant of InsertDue: an animator is started but not entered.
InsertNone(position) == widgetAnimationsActive

\* The insertions in the order of the loop; <<0>> after one past the end of the array.
OutOfRange == <<0>>
InsertDue(position) ==
    LET InsertAtOwnIndex(active, i) ==
            IF i \notin Starts(position) \/ active = OutOfRange THEN active
            ELSE IF i > Len(active) + 1 THEN OutOfRange
            ELSE InsertAt(active, i, i)
    IN  FoldLeft(InsertAtOwnIndex, widgetAnimationsActive,
                 [i \in Indices |-> i])

\* Bound: there is room for the entries.
Room(position) == Len(widgetAnimationsActive) + Cardinality(Starts(position)) <= MaxActive

\* The player stands at now, unless the finger is still down and it seeks.
IndicatorDidChangePosition(position, now) ==
    /\ playerTime' = IF isHolding THEN S!Within(position, 0, Duration) ELSE now
    /\ \/ /\ \E i \in Due(position) : animator[i] = "none"
          /\ trap' = "standby" /\ UNCHANGED animations
       \/ /\ \A i \in Due(position) : animator[i] # "none"
          /\ InsertDue(position) = OutOfRange
          /\ trap' = "index" /\ UNCHANGED animations
       \/ /\ \A i \in Due(position) : animator[i] # "none"
          /\ InsertDue(position) # OutOfRange /\ Room(position)
          /\ widgetAnimationsActive' = InsertDue(position)
          /\ animator' = [i \in Indices |-> IF i \in Starts(position) THEN "running"
                                            ELSE animator[i]]
          /\ UNCHANGED <<trap, completes>>

Unnotified == UNCHANGED <<playerTime, trap, animations>>

-----------------------------------------------------------------------------
(***************************************************************************)
(* Drags.  One pan recognizer recognizes a drag: the slider's own on one   *)
(* of its four parts, or the one the editor adds to the whole slider.      *)
(***************************************************************************)
\* began, changed*, then ended or cancelled.
PanStep(recognizer, state) ==
    /\ Ready
    /\ pan = IF state = "began" THEN "none" ELSE recognizer
    /\ pan' = IF state \in {"ended", "cancelled"} THEN "none" ELSE recognizer

\* The slider tells the editor where the indicator is now, if it moved.
NotifyIfMoved ==
    \/ progressPercentage' # progressPercentage
       /\ IndicatorDidChangePosition(progressPercentage', playerTime)
    \/ progressPercentage' = progressPercentage /\ Unnotified

StartDragged(dx, state) ==
    /\ PanStep("start", state) /\ S!StartDragged(dx, state) /\ NotifyIfMoved
    /\ UNCHANGED <<lesson, appeared, export, isPlaying, isHolding>>

EndDragged(dx, state) ==
    /\ PanStep("end", state) /\ S!EndDragged(dx, state) /\ NotifyIfMoved
    /\ UNCHANGED <<lesson, appeared, export, isPlaying, isHolding>>

ViewDragged(dx, state) ==
    /\ PanStep("view", state) /\ S!ViewDragged(dx, state) /\ NotifyIfMoved
    /\ UNCHANGED <<lesson, appeared, export, isPlaying, isHolding>>

\* Here the slider tells where the indicator was before this drag.
ProgressDragged(dx, state) ==
    /\ PanStep("progress", state) /\ S!ProgressDragged(dx, state)
    /\ IndicatorDidChangePosition(progressPercentage, playerTime)
    /\ UNCHANGED <<lesson, appeared, export, isPlaying, isHolding>>

HandlePan(state) ==
    /\ PanStep("editor", state)
    /\ isHolding' = IF state = "changed" THEN TRUE
                    ELSE IF state = "began" THEN isHolding ELSE FALSE
    /\ UNCHANGED <<lesson, appeared, export, isPlaying, slider>> /\ Unnotified

Drag ==
    \E state \in {"began", "changed", "ended", "cancelled"} :
        \/ \E dx \in Drags : \/ StartDragged(dx, state) \/ EndDragged(dx, state)
                             \/ ViewDragged(dx, state) \/ ProgressDragged(dx, state)
        \/ HandlePan(state)

-----------------------------------------------------------------------------
(***************************************************************************)
(* Playing, the animators' ends, and the export.                           *)
(***************************************************************************)
InActive(i) == i \in Range(widgetAnimationsActive)

\* Mutant of Pause: the animations go on.
PauseMovie ==
    /\ isPlaying /\ isPlaying' = FALSE
    /\ UNCHANGED animator

\* pauseAnimation activates an animator that was inactive.
Pause ==
    /\ isPlaying /\ isPlaying' = FALSE
    /\ animator' = [i \in Indices |-> IF InActive(i) THEN "paused" ELSE animator[i]]

\* Mutant of Play: only the movie goes on.
PlayMovie ==
    /\ ~isPlaying /\ isPlaying' = TRUE
    /\ UNCHANGED animator

Play ==
    /\ ~isPlaying /\ isPlaying' = TRUE
    /\ animator' = [i \in Indices |-> IF InActive(i) /\ animator[i] = "paused"
                                      THEN "running" ELSE animator[i]]

HandlePlayButton ==
    /\ Ready
    /\ Pause \/ Play
    /\ UNCHANGED <<lesson, appeared, trap, export, isHolding, playerTime, pan, completes,
                   widgetAnimationsActive, slider>>

\* The player's periodic observer: during playback, when it starts or stops, and
\* after a seek.
Observed == {playerTime} \cup (IF isPlaying THEN {playerTime + 1} ELSE {})

PlayerObserved(time) ==
    /\ Ready
    /\ time \in Observed \cap Times
    /\ S!UpdateProgressIndicator(time)
    /\ \/ /\ S!PassedEnd(time) /\ IndicatorDidChangePosition(startPercentage, time)
       \/ /\ ~S!PassedEnd(time) /\ playerTime' = time
          /\ UNCHANGED <<trap, animations>>
    /\ UNCHANGED <<lesson, appeared, export, isPlaying, isHolding, pan>>

\* Mutant of RemoveAtOwnIndex: the index counts from one.
RemoveAtNextIndex(i) == i + 1 <= Len(widgetAnimationsActive)

\* remove(at: i) has an element to remove.
RemoveAtOwnIndex(i) == i <= Len(widgetAnimationsActive)

\* An animator reaches its end.  Its completion runs the first time; whether UIKit
\* keeps the completion for a later run is left open.
AnimatorEnds(i) ==
    /\ Ready /\ animator[i] = "running"
    /\ animator' = [animator EXCEPT ![i] = "inactive"]
    /\ completes' = [completes EXCEPT ![i] = FALSE]
    /\ \/ /\ RemoveAtOwnIndex(i)
          /\ widgetAnimationsActive' = RemoveAt(widgetAnimationsActive, i)
          /\ UNCHANGED trap
       \/ /\ ~RemoveAtOwnIndex(i) /\ trap' = "index"
          /\ UNCHANGED widgetAnimationsActive
       \/ /\ ~completes[i]
          /\ UNCHANGED <<trap, widgetAnimationsActive>>
    /\ UNCHANGED <<lesson, appeared, export, isPlaying, isHolding, playerTime, pan, slider>>

HandleDoneButton ==
    /\ Ready
    /\ \/ export = "nil" /\ trap' = "export" /\ UNCHANGED export
       \/ export # "nil" /\ export' = "started" /\ UNCHANGED trap
    /\ UNCHANGED <<lesson, appeared, isPlaying, isHolding, playerTime, pan, animations,
                   slider>>

\* A trap ends the application.
Trapped == trap # "none" /\ UNCHANGED vars

Next ==
    \/ ViewDidAppear \/ Drag \/ HandlePlayButton \/ HandleDoneButton \/ Trapped
    \/ \E time \in Times : PlayerObserved(time)
    \/ \E i \in Indices : AnimatorEnds(i)

Spec == Init /\ [][Next]_vars

-----------------------------------------------------------------------------
OneSpan == Len(allDetectedTimestamps) <= 1

\* An editor that was set up to the end (a movie with a track, points for its span, an
\* export session) and has at most one span never traps, in whatever order the user
\* drags, plays and pauses and the animation ends; only several spans make an index
\* wrong (setupVideoEdit, indicatorDidChangePosition, handleDoneButton).
EditorSafe ==
    /\ OneSpan /\ export # "nil" => trap = "none"
    /\ trap = "index" => ~OneSpan

\* Pause stops every animation of such a lesson, those included that a drag started
\* while the movie was paused (pause reaches the animators in the active list only).
PauseStopsAll ==
    [][OneSpan /\ isPlaying /\ ~isPlaying' => \A i \in Indices : animator'[i] # "running"]_vars

\* While the movie plays no animation of such a lesson is left paused (play).
PlayResumesAll ==
    OneSpan /\ isPlaying => \A i \in Indices : animator[i] # "paused"

\* The window of the slider, whatever part of it is dragged how far.
SliderWindow == S!SliderWindow

\* Every index the editor inserts or removes an animator at is in the array, as
\* insert(at:) and remove(at:) require (VideoEditController.swift:221, 338).
AnimatorIndexHolds == trap # "index"
=============================================================================
