-------------------------- MODULE CameraController --------------------------
(***************************************************************************)
(* Controllers/CameraViewController.swift with what it shares with the     *)
(* main menu: the movie files and the catalogue of lessons.                *)
(*                                                                         *)
(* Three threads run the controller and share its fields without a lock:   *)
(*   - the main thread (taps, the 0.1 s timer, gestures, presentations),   *)
(*   - the camera queue (captureOutput, once per frame, in separate reads  *)
(*     and writes of the three recording flags),                           *)
(*   - the completion handler of a writer's finishWriting.                 *)
(* The user may also quit and relaunch the application at any time.        *)
(***************************************************************************)
EXTENDS Naturals, FiniteSets

CONSTANTS
    Files,          \* fresh UUIDs: one movie file for each recording
    None,           \* nil, or no entry
    Observations,   \* what Vision may find in a frame
    Trigger,        \* evidenceCounterStateTrigger of the gesture processor
    HoldTicks,      \* timer ticks up to the 3 seconds a palm must be held
    ResetGap,       \* clock ticks of the 2 seconds of line 135
    MaxTime,        \* bound of the clock
    PatientUser,    \* the user taps only when the last tap has taken effect
    FinishMayFail   \* finishWriting may end without a movie

AllObservations == {"error", "none", "partial", "open", "side", "other"}

ASSUME ConstantsAssumption ==
    /\ Observations \subseteq AllObservations
    /\ Trigger \in Nat \ {0}
    /\ HoldTicks \in Nat \ {0}
    /\ ResetGap \in Nat
    /\ MaxTime \in Nat
    /\ None \notin Nat \cup Files
    /\ PatientUser \in BOOLEAN
    /\ FinishMayFail \in BOOLEAN

VARIABLES
    \* The application.
    screen,                \* the controller in front; "crashed" after a trap
    alert,                 \* the error alert: "none", "queued" or "shown"
    handed,                \* what handleMoveToEdit gave the editor, or None
    \* Progress of the threads.
    main,                  \* a tap half way: "idle", "starting", "stopping"
    queue,                 \* where captureOutput is, or "idle"
    hand,                  \* Vision's result for this frame
    running,               \* cameraFeedSession is running
    \* The flags through which a tap reaches the camera queue.
    isStartRecording, isRecording, isDoneRecording,
    \* The recording.
    time,                  \* time: presentation time of the last frame
    startTimestamp,        \* startTimestamp
    currentFilename,       \* currentFilename, and the writer open on it
    videoURL,              \* videoURL
    \* The device's storage, which survives the application.
    disk,                  \* disk[f]: "absent", "partial" or a playable "movie"
    length,                \* length[f]: presentation time of its last frame
    catalogue,             \* UserDefaults "dataKey": Duration of each lesson
    \* The completion handlers of finishWriting.
    completion,            \* completion[f]: see Completions
    loaded,                \* loaded[f]: the handler's locals strings and time
    editQueue,             \* handleMoveToEdit calls queued on the main thread
    \* Tracking of a held palm.
    hasStartedTimer, counter, isHolding, isDetecting, startDetectTimestamp,
    detected,              \* keys of detected: starts that have points noted
    allDetectedTimestamps, \* the set of <<start, end>>
    \* The gesture processor.
    gesture, openPalmEvidence, sidePalmEvidence

flags == <<isStartRecording, isRecording, isDoneRecording>>
recording == <<startTimestamp, currentFilename, videoURL>>
storage == <<disk, length, catalogue>>
completions == <<completion, loaded, editQueue>>
tracking == <<hasStartedTimer, counter, isHolding, isDetecting,
              startDetectTimestamp, detected, allDetectedTimestamps>>
palm == <<gesture, openPalmEvidence, sidePalmEvidence>>
app == <<screen, alert, handed>>
elsewhere == <<app, main, hand, running, tracking, palm>>
vars == <<app, main, queue, hand, running, flags, time, recording, storage,
          completions, tracking, palm>>

G == INSTANCE HandGestureProcessor WITH state <- gesture

-----------------------------------------------------------------------------
Times == 0..MaxTime
Counts == 0..(HoldTicks + 1)   \* the last one stands for "more than 3 seconds"
Lessons == [Files -> Times \cup {None}]
Spans == Times \X Times
Completions == {"none", "finishing", "loaded", "stored"}
QueueSteps == {"idle", "open", "clearStart", "clearDone", "testRecording",
               "testDone", "vision", "sync"}

TypeOK ==
    /\ screen \in {"launch", "menu", "camera", "edit", "crashed"}
    /\ alert \in {"none", "queued", "shown"}
    /\ handed \in [url : Files \cup {None}, spans : SUBSET Spans, points : SUBSET Times]
                      \cup {None}
    /\ main \in {"idle", "starting", "stopping"}
    /\ queue \in QueueSteps
    /\ hand \in AllObservations
    /\ running \in BOOLEAN
    /\ {isStartRecording, isRecording, isDoneRecording} \subseteq BOOLEAN
    /\ time \in Times /\ startTimestamp \in Times
    /\ currentFilename \in Files \cup {None} /\ videoURL \in Files \cup {None}
    /\ disk \in [Files -> {"absent", "partial", "movie"}]
    /\ length \in [Files -> Times]
    /\ catalogue \in Lessons
    /\ completion \in [Files -> Completions]
    /\ loaded \in [Files -> [lessons : Lessons, duration : Times]]
    /\ editQueue \subseteq Files
    /\ {hasStartedTimer, isHolding, isDetecting} \subseteq BOOLEAN
    /\ counter \in Counts
    /\ startDetectTimestamp \in Times \cup {None}
    /\ detected \subseteq Times
    /\ allDetectedTimestamps \subseteq Spans
    /\ G!TypeOK

NothingLoaded ==
    [f \in Files |-> [lessons |-> [g \in Files |-> None], duration |-> 0]]

Init ==
    /\ screen = "launch" /\ alert = "none" /\ handed = None
    /\ main = "idle" /\ queue = "idle" /\ hand = "none" /\ running = FALSE
    /\ isStartRecording = FALSE /\ isRecording = FALSE /\ isDoneRecording = FALSE
    /\ time = 0 /\ startTimestamp = 0 /\ currentFilename = None /\ videoURL = None
    /\ completion = [f \in Files |-> "none"] /\ loaded = NothingLoaded /\ editQueue = {}
    /\ hasStartedTimer = FALSE /\ counter = 0 /\ isHolding = FALSE /\ isDetecting = FALSE
    /\ startDetectTimestamp = None /\ detected = {} /\ allDetectedTimestamps = {}
    /\ G!Init
    /\ disk = [f \in Files |-> "absent"]
    /\ length = [f \in Files |-> 0]
    /\ catalogue = [f \in Files |-> None]

\* The application is killed, or has crashed, and is launched again: only the
\* storage survives.
Relaunch ==
    /\ screen # "launch"
    /\ screen' = "launch" /\ alert' = "none" /\ handed' = None
    /\ main' = "idle" /\ queue' = "idle" /\ hand' = "none" /\ running' = FALSE
    /\ isStartRecording' = FALSE /\ isRecording' = FALSE /\ isDoneRecording' = FALSE
    /\ time' = 0 /\ startTimestamp' = 0 /\ currentFilename' = None /\ videoURL' = None
    /\ completion' = [f \in Files |-> "none"] /\ loaded' = NothingLoaded /\ editQueue' = {}
    /\ hasStartedTimer' = FALSE /\ counter' = 0 /\ isHolding' = FALSE /\ isDetecting' = FALSE
    /\ startDetectTimestamp' = None /\ detected' = {} /\ allDetectedTimestamps' = {}
    /\ G!Reset
    /\ UNCHANGED storage

Alive == screen # "crashed"

-----------------------------------------------------------------------------
(***************************************************************************)
(* The main menu: Photo.allPhotos and onNewLessonClick.                    *)
(***************************************************************************)
\* Photo.init unwraps the thumbnail of every catalogued file.
Thumbnails == \A f \in Files : catalogue[f] # None => disk[f] = "movie"

ShowMenu ==
    /\ screen = "launch"
    /\ screen' = IF Thumbnails THEN "menu" ELSE "crashed"
    /\ UNCHANGED <<alert, handed, main, queue, hand, running, flags, time, recording,
                   storage, completions, tracking, palm>>

\* viewDidAppear starts the session, or shows why it could not.
OnNewLessonClick ==
    /\ screen = "menu"
    /\ screen' = "camera"
    /\ running' \in BOOLEAN
    /\ alert' = IF running' THEN "none" ELSE "shown"
    /\ UNCHANGED <<handed, main, queue, hand, flags, time, recording, storage,
                   completions, tracking, palm>>

-----------------------------------------------------------------------------
(***************************************************************************)
(* The record button, on the main thread.  The fields are not locked, so   *)
(* the camera queue may run between two of its assignments.                *)
(***************************************************************************)
\* Bound: a file is left for every start that may still be pending.
SpareFile ==
    Cardinality({f \in Files : disk[f] = "absent"}) > (IF isStartRecording THEN 1 ELSE 0)

\* No earlier tap is still on its way, and what is being recorded has a frame.
Settled ==
    /\ ~isStartRecording /\ ~isDoneRecording
    /\ editQueue = {} /\ \A f \in Files : completion[f] \in {"none", "stored"}
    /\ isRecording => currentFilename # None /\ length[currentFilename] > 0

\* The branch is taken on isRecording as read here.  The stopping branch also
\* clears the tracking flags and isRecording in this step: no other thread sets
\* any of them differently in between.
HandleRecord ==
    /\ screen = "camera" /\ alert # "shown" /\ main = "idle"
    /\ PatientUser => Settled
    /\ \/ ~isRecording /\ SpareFile /\ main' = "starting"
          /\ UNCHANGED <<isRecording, isHolding, isDetecting>>
       \/ isRecording /\ main' = "stopping"
          /\ isRecording' = FALSE /\ isHolding' = FALSE /\ isDetecting' = FALSE
    /\ UNCHANGED <<app, queue, hand, running, isStartRecording, isDoneRecording, time,
                   recording, storage, completions, hasStartedTimer, counter,
                   startDetectTimestamp, detected, allDetectedTimestamps, palm>>

\* Mutant of StartRecording: the tap itself declares the recording begun.
StartRecordingAtOnce ==
    /\ Alive /\ main = "starting"
    /\ main' = "idle" /\ isStartRecording' = TRUE /\ isRecording' = TRUE
    /\ UNCHANGED <<app, queue, hand, running, isDoneRecording, time, recording, storage,
                   completions, tracking, palm>>

StartRecording ==
    /\ Alive /\ main = "starting"
    /\ main' = "idle" /\ isStartRecording' = TRUE
    /\ UNCHANGED <<app, queue, hand, running, isRecording, isDoneRecording, time,
                   recording, storage, completions, tracking, palm>>

StopRecording ==
    /\ Alive /\ main = "stopping"
    /\ main' = "idle" /\ isDoneRecording' = TRUE
    /\ UNCHANGED <<app, queue, hand, running, isStartRecording, isRecording, time,
                   recording, storage, completions, tracking, palm>>

\* Mutant of Tick: the bound of the counter is off by one.
TickTooFar(c) == IF c <= HoldTicks + 1 THEN c + 1 ELSE c

Tick(c) == IF c <= HoldTicks THEN c + 1 ELSE c

\* The 0.1 s timer, which runs from startTimer until it is invalidated.
UpdateTimer ==
    /\ Alive /\ main = "idle"
    /\ hasStartedTimer /\ counter' = Tick(counter)
    /\ UNCHANGED <<app, main, queue, hand, running, flags, time, recording, storage,
                   completions, hasStartedTimer, isHolding, isDetecting,
                   startDetectTimestamp, detected, allDetectedTimestamps, palm>>

-----------------------------------------------------------------------------
(***************************************************************************)
(* captureOutput, on the camera queue: one frame at a time.  Each read and *)
(* write of a recording flag is a step; the writer is used by this queue   *)
(* only.                                                                   *)
(***************************************************************************)
Elapsed == time - startTimestamp

\* Bound: the clock stops at MaxTime, frames do not.
FrameArrives ==
    /\ Alive /\ running /\ queue = "idle"
    /\ time' = IF time < MaxTime THEN time + 1 ELSE time
    /\ queue' = IF isStartRecording THEN "open" ELSE "testRecording"
    /\ UNCHANGED <<elsewhere, flags, recording, storage, completions>>

OpenWriter ==
    /\ Alive /\ queue = "open"
    /\ \E f \in Files :
          /\ disk[f] = "absent"
          /\ disk' = [disk EXCEPT ![f] = "partial"]
          /\ currentFilename' = f
    /\ isRecording' = TRUE
    /\ queue' = "clearStart"
    /\ UNCHANGED <<elsewhere, isStartRecording, isDoneRecording, time, startTimestamp,
                   videoURL, length, catalogue, completions>>

ClearStart ==
    /\ Alive /\ queue = "clearStart"
    /\ isStartRecording' = FALSE
    /\ queue' = "clearDone"
    /\ UNCHANGED <<elsewhere, isRecording, isDoneRecording, time, recording, storage,
                   completions>>

ClearDone ==
    /\ Alive /\ queue = "clearDone"
    /\ isDoneRecording' = FALSE
    /\ startTimestamp' = time
    /\ queue' = "vision"
    /\ UNCHANGED <<elsewhere, isStartRecording, isRecording, time, currentFilename,
                   videoURL, storage, completions>>

\* The input of the open writer may be ready for a sample: it never is once it
\* was marked as finished.
MayBeReady == currentFilename # None /\ completion[currentFilename] = "none"

\* The frame is appended if the input is ready, and dropped otherwise.
Append ==
    \/ MayBeReady /\ length' = [length EXCEPT ![currentFilename] = Elapsed]
    \/ length' = length

TestRecording ==
    /\ Alive /\ queue = "testRecording"
    /\ \/ isRecording /\ Append /\ queue' = "vision"
       \/ ~isRecording /\ queue' = "testDone" /\ length' = length
    /\ UNCHANGED <<elsewhere, flags, time, recording, disk, catalogue, completions>>

\* Mutant of FinishRecording: the lesson is entered without waiting for the writer.
FinishRecordingAtOnce ==
    /\ Alive /\ queue = "testDone" /\ isDoneRecording /\ MayBeReady
    /\ isRecording' = FALSE /\ isDoneRecording' = FALSE
    /\ videoURL' = currentFilename
    /\ completion' = [completion EXCEPT ![currentFilename] = "loaded"]
    /\ loaded' = [loaded EXCEPT ![currentFilename] =
                     [lessons |-> catalogue, duration |-> Elapsed]]
    /\ queue' = "vision"
    /\ UNCHANGED <<elsewhere, isStartRecording, time, startTimestamp, currentFilename,
                   storage, editQueue>>

\* The stop has taken effect: mark the input as finished and finish the writer.
FinishRecording ==
    /\ Alive /\ queue = "testDone" /\ isDoneRecording /\ MayBeReady
    /\ isRecording' = FALSE /\ isDoneRecording' = FALSE
    /\ videoURL' = currentFilename
    /\ completion' = [completion EXCEPT ![currentFilename] = "finishing"]
    /\ queue' = "vision"
    /\ UNCHANGED <<elsewhere, isStartRecording, time, startTimestamp, currentFilename,
                   storage, loaded, editQueue>>

\* Mutant of SkipFinish: a stop that finds the writer busy is dropped.
SkipFinishForGood ==
    /\ Alive /\ queue = "testDone"
    /\ queue' = "vision" /\ isDoneRecording' = FALSE
    /\ UNCHANGED <<elsewhere, isStartRecording, isRecording, time, recording, storage,
                   completions>>

\* Nothing to finish: on to Vision.  Not ready or failed: captureOutput returns
\* above its defer, so this frame reaches neither Vision nor the gestures.
SkipFinish ==
    /\ Alive /\ queue = "testDone"
    /\ queue' = IF isDoneRecording THEN "idle" ELSE "vision"
    /\ UNCHANGED <<elsewhere, flags, time, recording, storage, completions>>

-----------------------------------------------------------------------------
(***************************************************************************)
(* Hand tracking.  A palm held until the timer passes 3 seconds starts a   *)
(* span; losing the palm ends it, or abandons the hold.                    *)
(***************************************************************************)
StopTimer ==
    /\ hasStartedTimer' = FALSE
    /\ counter' = 0

\* On the camera queue the reset races the timer's counter = counter + 0.1 on
\* the main thread, whose read and write may come before and after it, or both after
\* it and before the timer is invalidated.
RacingTicks == IF hasStartedTimer /\ main = "idle" THEN {Tick(counter), Tick(0)} ELSE {}

RacingStopTimer ==
    /\ hasStartedTimer' = FALSE
    /\ counter' \in {0} \cup RacingTicks

Holds == isHolding \/ isDetecting

\* The keyed lookup of the notes, and the span, unwrap startDetectTimestamp.
NilStart == startDetectTimestamp = None
Noted == detected \cup {startDetectTimestamp}
Unnoted == detected \ {startDetectTimestamp}

\* Mutants of WithSpan: the ends are swapped; the end is not relative to the start
\* of the recording.
WithSpanReversed == allDetectedTimestamps \cup {<<Elapsed, startDetectTimestamp>>}
WithSpanAbsolute == allDetectedTimestamps \cup {<<startDetectTimestamp, time>>}

WithSpan == allDetectedTimestamps \cup {<<startDetectTimestamp, Elapsed>>}

\* .possibleOpenPalm, .possibleSidePalm: note where the finger is.
PalmPossible ==
    /\ detected' = IF hasStartedTimer /\ Holds THEN Noted ELSE detected
    /\ UNCHANGED <<hasStartedTimer, counter, isHolding, isDetecting,
                   startDetectTimestamp, allDetectedTimestamps>>

\* .openPalm, .sidePalm, while no timer runs: startTimer.
StartTimer ==
    /\ isRecording /\ ~hasStartedTimer
    /\ hasStartedTimer' = ~isHolding
    /\ UNCHANGED <<counter, isHolding, isDetecting, startDetectTimestamp, detected,
                   allDetectedTimestamps>>

\* The palm is held from the first tick of the timer on, and detected once the
\* timer has passed 3 seconds.
BeginHold ==
    /\ counter \in 1..HoldTicks /\ ~isHolding
    /\ isHolding' = TRUE /\ startDetectTimestamp' = Elapsed
    /\ UNCHANGED isDetecting

\* Mutant of BeginDetect: isHolding is not cleared.
BeginDetectStillHolding ==
    /\ counter > HoldTicks /\ ~isDetecting
    /\ isDetecting' = TRUE
    /\ UNCHANGED <<isHolding, startDetectTimestamp>>

BeginDetect ==
    /\ counter > HoldTicks /\ ~isDetecting
    /\ isDetecting' = TRUE /\ isHolding' = FALSE
    /\ UNCHANGED startDetectTimestamp

KeepHold ==
    /\ counter \in 1..HoldTicks => isHolding
    /\ counter > HoldTicks => isDetecting
    /\ UNCHANGED <<isHolding, isDetecting, startDetectTimestamp>>

\* .openPalm, .sidePalm, while the timer runs.
HoldPalm ==
    /\ isRecording /\ hasStartedTimer
    /\ detected' = IF Holds THEN Noted ELSE detected
    /\ BeginHold \/ BeginDetect \/ KeepHold
    /\ UNCHANGED <<hasStartedTimer, counter, allDetectedTimestamps>>

PalmSeen ==
    \/ StartTimer
    \/ HoldPalm
    \/ ~isRecording /\ UNCHANGED tracking

\* .unknown: a hold fails and its notes are dropped, a detected span ends.
FailHold ==
    /\ isHolding /\ ~isDetecting
    /\ StopTimer
    /\ isHolding' = FALSE /\ detected' = Unnoted
    /\ UNCHANGED <<isDetecting, startDetectTimestamp, allDetectedTimestamps>>

EndSpan ==
    /\ isDetecting
    /\ StopTimer
    /\ allDetectedTimestamps' = WithSpan
    /\ isDetecting' = FALSE /\ isHolding' = FALSE
    /\ UNCHANGED <<startDetectTimestamp, detected>>

PalmLost ==
    \/ hasStartedTimer /\ isRecording /\ (FailHold \/ EndSpan)
    \/ ~(hasStartedTimer /\ isRecording /\ Holds) /\ UNCHANGED tracking

\* handleGestureStateChange, the observer of the gesture processor's state.
Possible == {"possibleOpenPalm", "possibleSidePalm"}
Confirmed == {"openPalm", "sidePalm"}
Traps(s) == NilStart /\ hasStartedTimer /\ Holds /\ (isRecording \/ s \in Possible)

HandleGestureStateChange(s) ==
    \/ Traps(s) /\ screen' = "crashed" /\ UNCHANGED tracking
    \/ /\ ~Traps(s)
       /\ UNCHANGED screen
       /\ \/ s \in Possible /\ PalmPossible
          \/ s \in Confirmed /\ PalmSeen
          \/ s = "unknown" /\ PalmLost

\* A joint is missing or uncertain: captureOutput itself, on the camera queue,
\* gives up what is being tracked.
AbortTracking ==
    \/ NilStart /\ Holds /\ screen' = "crashed" /\ UNCHANGED tracking
    \/ ~Holds /\ UNCHANGED <<screen, tracking>>
    \/ /\ Holds /\ ~NilStart
       /\ RacingStopTimer
       /\ detected' = IF isHolding THEN Unnoted ELSE detected
       /\ allDetectedTimestamps' = IF isDetecting THEN WithSpan ELSE allDetectedTimestamps
       /\ isHolding' = FALSE /\ isDetecting' = FALSE
       /\ UNCHANGED <<screen, startDetectTimestamp>>

\* Vision looks for a hand; when it throws, the session is stopped and an alert
\* is queued on the main thread.
Vision(o) ==
    /\ Alive /\ queue = "vision"
    /\ queue' = "sync" /\ hand' = o
    /\ \/ o = "error" /\ running' = FALSE /\ alert' = "queued"
       \/ o # "error" /\ UNCHANGED <<running, alert>>
    /\ \/ o = "partial" /\ AbortTracking
       \/ o # "partial" /\ UNCHANGED <<screen, tracking>>
    /\ UNCHANGED <<handed, main, flags, time, recording, storage, completions, palm>>

\* The deferred block of captureOutput, run on the main thread while the camera
\* queue waits: processPoints.  Without points the gesture processor is reset,
\* but only once the controller is older than 2 seconds: the field of line 135
\* is never written after its initialisation.
Deliver ==
    /\ Alive /\ queue = "sync" /\ main = "idle"
    /\ queue' = "idle" /\ hand' = "none"
    /\ \/ G!ProcessPoints(hand) /\ HandleGestureStateChange(gesture')
       \/ /\ hand \notin G!Shapes /\ time > ResetGap
          /\ G!Reset /\ HandleGestureStateChange("unknown")
       \/ /\ hand \notin G!Shapes /\ time <= ResetGap
          /\ UNCHANGED <<screen, tracking, palm>>
    /\ UNCHANGED <<alert, handed, main, running, flags, time, recording, storage,
                   completions>>

-----------------------------------------------------------------------------
(***************************************************************************)
(* The completion handler of finishWriting, and the way to the editor.     *)
(***************************************************************************)
\* The writer is done with the file, which is playable if it holds a frame and
\* nothing failed.
MovieWritten(f) ==
    \/ length[f] > 0 /\ disk' = [disk EXCEPT ![f] = "movie"]
    \/ (length[f] = 0 \/ FinishMayFail) /\ disk' = disk

\* The handler does not ask how it ended: it takes the recording's duration and a
\* copy of the catalogue.
CompletionLoad(f) ==
    /\ Alive /\ completion[f] = "finishing"
    /\ MovieWritten(f)
    /\ completion' = [completion EXCEPT ![f] = "loaded"]
    /\ loaded' = [loaded EXCEPT ![f] = [lessons |-> catalogue, duration |-> Elapsed]]
    /\ UNCHANGED <<elsewhere, queue, flags, time, recording, length, catalogue,
                   editQueue>>

\* Mutants of WithLesson: the duration is lost; the other lessons are.
WithLessonUntimed(f) == [loaded[f].lessons EXCEPT ![currentFilename] = 0]
WithLessonOnly(f) ==
    [NothingLoaded[f].lessons EXCEPT ![currentFilename] = loaded[f].duration]

\* It enters the lesson in its copy, under the controller's current file name,
\* and writes the copy back.
WithLesson(f) == [loaded[f].lessons EXCEPT ![currentFilename] = loaded[f].duration]

CompletionStore(f) ==
    /\ Alive /\ completion[f] = "loaded"
    /\ catalogue' = WithLesson(f)
    /\ completion' = [completion EXCEPT ![f] = "stored"]
    /\ loaded' = [loaded EXCEPT ![f] = NothingLoaded[f]]
    /\ editQueue' = editQueue \cup {f}
    /\ UNCHANGED <<elsewhere, queue, flags, time, recording, disk, length>>

\* UIKit ignores a presentation over another one.
CanPresent == screen = "camera" /\ alert # "shown"

\* Mutant of Handover: the editor is given no movie.
HandoverWithoutURL == [url |-> None, spans |-> allDetectedTimestamps, points |-> detected]

Handover == [url |-> videoURL, spans |-> allDetectedTimestamps, points |-> detected]

MoveToEdit(f) ==
    /\ Alive /\ main = "idle" /\ f \in editQueue
    /\ editQueue' = editQueue \ {f}
    /\ \/ CanPresent /\ screen' = "edit" /\ handed' = Handover
       \/ ~CanPresent /\ UNCHANGED <<screen, handed>>
    /\ UNCHANGED <<alert, main, queue, hand, running, flags, time, recording, storage,
                   completion, loaded, tracking, palm>>

\* viewWillDisappear, once the editor covers the camera.
LeaveCamera ==
    /\ screen = "edit" /\ main = "idle" /\ running
    /\ running' = FALSE
    /\ UNCHANGED <<app, main, queue, hand, flags, time, recording, storage, completions,
                   tracking, palm>>

ShowAlert ==
    /\ Alive /\ main = "idle" /\ alert = "queued"
    /\ alert' = IF screen = "camera" THEN "shown" ELSE "none"
    /\ UNCHANGED <<screen, handed, main, queue, hand, running, flags, time, recording,
                   storage, completions, tracking, palm>>

DismissAlert ==
    /\ Alive /\ main = "idle" /\ alert = "shown"
    /\ alert' = "none"
    /\ UNCHANGED <<screen, handed, main, queue, hand, running, flags, time, recording,
                   storage, completions, tracking, palm>>

-----------------------------------------------------------------------------
CaptureOutput ==
    \/ FrameArrives \/ OpenWriter \/ ClearStart \/ ClearDone \/ TestRecording
    \/ FinishRecording \/ SkipFinish
    \/ \E o \in Observations : Vision(o)
    \/ Deliver

Completion == \E f \in Files : CompletionLoad(f) \/ CompletionStore(f) \/ MoveToEdit(f)

User == Relaunch \/ OnNewLessonClick \/ HandleRecord \/ DismissAlert

MainThread ==
    ShowMenu \/ StartRecording \/ StopRecording \/ UpdateTimer \/ LeaveCamera \/ ShowAlert

Next == User \/ MainThread \/ CaptureOutput \/ Completion

Spec == Init /\ [][Next]_vars

\* The threads run; the user does what he likes.  Frames keep coming while the
\* session runs, a queued block is run, and a writer that is asked again and
\* again whether it is ready says so in the end (strong fairness).
Fairness ==
    /\ WF_vars(StartRecording \/ StopRecording)
    /\ WF_vars(FrameArrives)
    /\ WF_vars(OpenWriter \/ ClearStart \/ ClearDone \/ TestRecording \/ SkipFinish)
    /\ WF_vars(\E o \in Observations : Vision(o))
    /\ WF_vars(Deliver)
    /\ SF_vars(FinishRecording)
    /\ WF_vars(Completion)

FairSpec == Spec /\ Fairness
=============================================================================
