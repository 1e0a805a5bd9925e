----------------------- MODULE CameraController_proofs -----------------------
(***************************************************************************)
(* For every set of files, every bound and every kind of user: the state   *)
(* of the camera controller is type correct, the flags that make the       *)
(* camera queue use a writer find one, and holding and detecting exclude   *)
(* each other.                                                             *)
(***************************************************************************)
EXTENDS CameraProperties, TLAPS

\* The recording started no later than the last frame: Elapsed is a time.
ClockInv == startTimestamp <= time

TypeInv == TypeOK /\ ClockInv

LEMMA ElapsedType ==
    ASSUME TypeInv
    PROVE  Elapsed \in Times
  BY ConstantsAssumption DEF TypeInv, TypeOK, ClockInv, Elapsed, Times

LEMMA TickType ==
    ASSUME NEW c \in Counts
    PROVE  0 \in Counts /\ Tick(c) \in Counts
  BY ConstantsAssumption DEF Tick, Counts

\* The gesture processor's own steps keep its type.
LEMMA GestureType ==
    ASSUME G!TypeOK
    PROVE  /\ G!Reset => G!TypeOK'
           /\ \A shape : G!ProcessPoints(shape) => G!TypeOK'
<1>1. \A n \in 0..Trigger : G!MoreEvidence(n) \in 0..Trigger
  BY ConstantsAssumption DEF G!MoreEvidence
<1>2. QED
  BY <1>1, ConstantsAssumption
     DEF G!TypeOK, G!Reset, G!ProcessPoints, G!OpenEvidence, G!SideEvidence, G!States

\* The part of the type invariant about a palm being tracked.
TrackingType ==
    /\ {hasStartedTimer, isHolding, isDetecting} \subseteq BOOLEAN
    /\ counter \in Counts
    /\ startDetectTimestamp \in Times \cup {None}
    /\ detected \subseteq Times
    /\ allDetectedTimestamps \subseteq Spans

TrackInv == TrackingType /\ HoldXorDetect

\* What a trap leaves of the screen.
ScreenKeptOrCrashed == screen' = screen \/ screen' = "crashed"

\* The gesture handler keeps the tracking well formed, in every state it is told.
LEMMA HandlerTracks ==
    ASSUME TypeInv, TrackInv, NEW s, HandleGestureStateChange(s)
    PROVE  TrackInv' /\ ScreenKeptOrCrashed
<1> USE ConstantsAssumption DEF TrackInv, TrackingType, HoldXorDetect, Counts, Holds
<1>1. Elapsed \in Times
  BY ElapsedType
<1>2. ScreenKeptOrCrashed
  BY DEF HandleGestureStateChange, ScreenKeptOrCrashed
<1>3. CASE UNCHANGED tracking
  BY <1>2, <1>3 DEF tracking
<1>4. CASE ~Traps(s) /\ s \in Possible /\ PalmPossible
  BY <1>2, <1>4 DEF Traps, NilStart, PalmPossible, Noted
<1>5. CASE StartTimer
  BY <1>2, <1>5 DEF StartTimer
<1>6. CASE ~Traps(s) /\ HoldPalm
  <2>1. /\ detected' \subseteq Times /\ counter' = counter
        /\ hasStartedTimer' = hasStartedTimer
        /\ allDetectedTimestamps' = allDetectedTimestamps
    BY <1>6 DEF HoldPalm, Traps, NilStart, Noted
  <2>2. CASE BeginHold
    BY <1>1, <1>2, <2>1, <2>2 DEF BeginHold, Times
  <2>3. CASE BeginDetect
    BY <1>2, <2>1, <2>3 DEF BeginDetect
  <2>4. CASE KeepHold
    BY <1>2, <2>1, <2>4 DEF KeepHold
  <2>5. QED
    BY <1>6, <2>2, <2>3, <2>4 DEF HoldPalm
<1>7. CASE FailHold
  <2>1. counter' \in Counts /\ hasStartedTimer' = FALSE /\ isHolding' = FALSE
        /\ isDetecting' = isDetecting /\ isDetecting = FALSE
    BY <1>7, ConstantsAssumption DEF FailHold, StopTimer
  <2>2. detected' \subseteq Times /\ startDetectTimestamp' = startDetectTimestamp
        /\ allDetectedTimestamps' = allDetectedTimestamps
    BY <1>7 DEF FailHold, Unnoted
  <2>3. TrackingType'
    BY <2>1, <2>2
  <2>4. HoldXorDetect'
    BY <2>1
  <2>5. QED
    BY <1>2, <2>3, <2>4
<1>8. CASE ~Traps(s) /\ hasStartedTimer /\ isRecording /\ EndSpan
  <2>1. counter' \in Counts /\ hasStartedTimer' = FALSE /\ isHolding' = FALSE
        /\ isDetecting' = FALSE
    BY <1>8 DEF EndSpan, StopTimer
  <2>2. startDetectTimestamp \in Times
    BY <1>8 DEF EndSpan, Traps, NilStart
  <2>3. allDetectedTimestamps' \subseteq Spans
    BY <1>1, <1>8, <2>2 DEF EndSpan, WithSpan, Spans
  <2>4. detected' = detected /\ startDetectTimestamp' = startDetectTimestamp
    BY <1>8 DEF EndSpan
  <2>5. TrackingType'
    BY <2>1, <2>3, <2>4
  <2>6. HoldXorDetect'
    BY <2>1
  <2>7. QED
    BY <1>2, <2>5, <2>6
<1>9. QED
  BY <1>3, <1>4, <1>5, <1>6, <1>7, <1>8
     DEF HandleGestureStateChange, PalmSeen, PalmLost

\* So does the camera queue when it gives up a palm, whichever thread wins the race
\* for the counter.
LEMMA AbortTracks ==
    ASSUME TypeInv, TrackInv, AbortTracking
    PROVE  TrackInv' /\ ScreenKeptOrCrashed
<1> USE ConstantsAssumption DEF TrackInv, TrackingType, HoldXorDetect, Counts, Holds
<1>1. Elapsed \in Times
  BY ElapsedType
<1>2. ScreenKeptOrCrashed
  BY DEF AbortTracking, ScreenKeptOrCrashed
<1>3. CASE UNCHANGED tracking
  BY <1>2, <1>3 DEF tracking
<1>4. CASE Holds /\ ~NilStart /\ RacingStopTimer /\ ~UNCHANGED tracking
  <2>1. counter' \in Counts /\ hasStartedTimer' = FALSE
    BY <1>4, TickType DEF RacingStopTimer, RacingTicks
  <2>2. isHolding' = FALSE /\ isDetecting' = FALSE
        /\ startDetectTimestamp' = startDetectTimestamp
    BY <1>4 DEF AbortTracking
  <2>3. detected' \subseteq Times /\ allDetectedTimestamps' \subseteq Spans
    BY <1>1, <1>4 DEF AbortTracking, NilStart, Unnoted, WithSpan, Spans
  <2>4. QED
    BY <1>2, <2>1, <2>2, <2>3
<1>5. QED
  BY <1>3, <1>4 DEF AbortTracking

-----------------------------------------------------------------------------
(***************************************************************************)
(* The inductive invariant: types by the part of the state they are about, *)
(* the clock, the tracking flags, and which files writers were opened on.  *)
(***************************************************************************)
AppType ==
    /\ screen \in {"launch", "menu", "camera", "edit", "crashed"}
    /\ alert \in {"none", "queued", "shown"}
    /\ handed \in [url : Files \cup {None}, spans : SUBSET Spans, points : SUBSET Times]
                      \cup {None}

ThreadType ==
    /\ main \in {"idle", "starting", "stopping"}
    /\ queue \in QueueSteps
    /\ hand \in AllObservations
    /\ running \in BOOLEAN

FlagType == {isStartRecording, isRecording, isDoneRecording} \subseteq BOOLEAN

RecordingType ==
    /\ time \in Times /\ startTimestamp \in Times
    /\ currentFilename \in Files \cup {None} /\ videoURL \in Files \cup {None}
    /\ ClockInv

StorageType ==
    /\ disk \in [Files -> {"absent", "partial", "movie"}]
    /\ length \in [Files -> Times]
    /\ catalogue \in Lessons

CompletionType ==
    /\ completion \in [Files -> Completions]
    /\ loaded \in [Files -> [lessons : Lessons, duration : Times]]
    /\ editQueue \subseteq Files

\* A writer, once opened, has a file on the disk.
WriterHasFile ==
    \A f \in Files : f = currentFilename \/ completion[f] # "none" => disk[f] # "absent"

LEMMA TypeParts ==
    TypeInv <=> /\ AppType /\ ThreadType /\ FlagType /\ RecordingType /\ StorageType
                /\ CompletionType /\ TrackingType /\ G!TypeOK
  BY DEF TypeInv, TypeOK, AppType, ThreadType, FlagType, RecordingType, StorageType,
         CompletionType, TrackingType

CameraInv ==
    /\ AppType /\ ThreadType /\ FlagType /\ RecordingType /\ StorageType
    /\ CompletionType /\ TrackInv /\ G!TypeOK
    /\ FlagsNameWriter /\ WriterHasFile

\* What a completion handler has before it reads anything.
LEMMA NothingLoadedType ==
    NothingLoaded \in [Files -> [lessons : Lessons, duration : Times]]
<1>1. 0 \in Times /\ [g \in Files |-> None] \in Lessons
  BY ConstantsAssumption DEF Times, Lessons
<1>2. QED
  BY <1>1 DEF NothingLoaded

\* The application starts with no recording, no lesson and nothing tracked.
LEMMA CameraInvInit == Init => CameraInv
<1> SUFFICES ASSUME Init PROVE CameraInv
  OBVIOUS
<1> USE ConstantsAssumption DEF Init
<1>1. AppType /\ ThreadType
  BY DEF AppType, ThreadType, QueueSteps, AllObservations
<1>2. FlagType /\ RecordingType
  <2>1. FlagType
    BY DEF FlagType
  <2>2. RecordingType
    BY DEF RecordingType, ClockInv, Times
  <2>3. QED
    BY <2>1, <2>2
<1>3. StorageType /\ CompletionType
  BY NothingLoadedType DEF StorageType, CompletionType, Lessons, Times, Completions
<1>4. TrackingType
  <2>1. counter \in Counts
    BY DEF Counts
  <2>2. detected \subseteq Times /\ allDetectedTimestamps \subseteq Spans
    OBVIOUS
  <2>3. {hasStartedTimer, isHolding, isDetecting} \subseteq BOOLEAN
    OBVIOUS
  <2>4. QED
    BY <2>1, <2>2, <2>3 DEF TrackingType
<1>5. G!TypeOK
  BY DEF G!Init, G!TypeOK, G!States
<1>6. HoldXorDetect /\ FlagsNameWriter /\ WriterHasFile
  BY DEF HoldXorDetect, FlagsNameWriter, WriterHasFile
<1>7. QED
  BY <1>1, <1>2, <1>3, <1>4, <1>5, <1>6 DEF CameraInv, TrackInv

-----------------------------------------------------------------------------
(***************************************************************************)
(* One lemma for each part of the program.                                 *)
(***************************************************************************)
\* What the parts need to know of a step that leaves them alone.
LEMMA SameTracking ==
    ASSUME TrackInv, UNCHANGED tracking
    PROVE  TrackInv'
  BY DEF tracking, TrackInv, TrackingType, HoldXorDetect

LEMMA SameGesture ==
    ASSUME G!TypeOK, UNCHANGED palm
    PROVE  G!TypeOK'
  BY DEF palm, G!TypeOK

LEMMA SameStorage ==
    ASSUME StorageType, UNCHANGED storage
    PROVE  StorageType'
  BY DEF storage, StorageType

LEMMA SameCompletions ==
    ASSUME CompletionType, UNCHANGED completions
    PROVE  CompletionType'
  BY DEF completions, CompletionType

LEMMA SameApp ==
    ASSUME AppType, UNCHANGED app
    PROVE  AppType'
  BY DEF app, AppType

LEMMA SameFlags ==
    ASSUME FlagType, UNCHANGED flags
    PROVE  FlagType'
  BY DEF flags, FlagType

LEMMA SameRecording ==
    ASSUME RecordingType, UNCHANGED <<time, recording>>
    PROVE  RecordingType'
  BY DEF recording, RecordingType, ClockInv

\* Neither a writer nor a file is touched.
LEMMA SameWriter ==
    ASSUME FlagsNameWriter, WriterHasFile, UNCHANGED <<currentFilename, completion, disk>>,
           isRecording' => isRecording,
           isDoneRecording' \/ main' = "stopping"
             => isDoneRecording \/ main = "stopping" \/ isRecording
    PROVE  FlagsNameWriter' /\ WriterHasFile'
  BY DEF FlagsNameWriter, WriterHasFile, MayBeReady

\* An action at a time (the last conjuncts of each action say which parts it leaves alone).
LEMMA CameraElapsed ==
    ASSUME CameraInv
    PROVE  TypeInv /\ Elapsed \in Times
<1>1. TypeInv
  BY TypeParts DEF CameraInv, TrackInv
<1>2. QED
  BY <1>1, ElapsedType

\* Whatever Vision finds, and whatever the processor makes of it.
LEMMA VisionTracks ==
    ASSUME CameraInv, NEW o, Vision(o)
    PROVE  TrackInv' /\ ScreenKeptOrCrashed
  BY CameraElapsed, AbortTracks, SameTracking DEF Vision, CameraInv, ScreenKeptOrCrashed

LEMMA DeliverTracks ==
    ASSUME CameraInv, Deliver
    PROVE  TrackInv' /\ ScreenKeptOrCrashed
  BY CameraElapsed, HandlerTracks, SameTracking DEF Deliver, CameraInv, ScreenKeptOrCrashed

LEMMA ShowMenuKeeps ==
    ASSUME CameraInv, ShowMenu
    PROVE  CameraInv'
<1> USE DEF CameraInv
<1>1. ThreadType'
  BY DEF ShowMenu, ThreadType, QueueSteps, AllObservations, elsewhere
<1>2. FlagType' /\ RecordingType' /\ StorageType' /\ CompletionType' /\
        TrackInv' /\ G!TypeOK' /\ FlagsNameWriter' /\ WriterHasFile'
  BY SameFlags, SameRecording, SameStorage, SameCompletions, SameTracking,
     SameGesture, SameWriter DEF ShowMenu, flags, recording, storage, completions
<1>3. AppType'
  BY DEF ShowMenu, AppType
<1>4. QED
  BY <1>1, <1>2, <1>3

LEMMA OnNewLessonClickKeeps ==
    ASSUME CameraInv, OnNewLessonClick
    PROVE  CameraInv'
<1> USE DEF CameraInv
<1>1. ThreadType'
  BY DEF OnNewLessonClick, ThreadType, QueueSteps, AllObservations, elsewhere
<1>2. FlagType' /\ RecordingType' /\ StorageType' /\ CompletionType' /\
        TrackInv' /\ G!TypeOK' /\ FlagsNameWriter' /\ WriterHasFile'
  BY SameFlags, SameRecording, SameStorage, SameCompletions, SameTracking,
     SameGesture, SameWriter DEF OnNewLessonClick, flags, recording, storage, completions
<1>3. AppType'
  BY DEF OnNewLessonClick, AppType
<1>4. QED
  BY <1>1, <1>2, <1>3

LEMMA HandleRecordKeeps ==
    ASSUME CameraInv, HandleRecord
    PROVE  CameraInv'
<1> USE DEF CameraInv
<1>1. ThreadType'
  BY DEF HandleRecord, ThreadType, QueueSteps, AllObservations, elsewhere
<1>2. AppType' /\ RecordingType' /\ StorageType' /\ CompletionType' /\ G!TypeOK'
        /\ FlagsNameWriter' /\ WriterHasFile'
  BY SameApp, SameRecording, SameStorage, SameCompletions, SameGesture, SameWriter
     DEF HandleRecord, recording, storage, completions
<1>3. FlagType'
  BY DEF HandleRecord, FlagType
<1>4. TrackInv'
  <2>1. /\ UNCHANGED <<hasStartedTimer, counter, startDetectTimestamp, detected,
                        allDetectedTimestamps>>
        /\ \/ UNCHANGED <<isHolding, isDetecting>>
           \/ isHolding' = FALSE /\ isDetecting' = FALSE
    BY DEF HandleRecord
  <2>2. CASE UNCHANGED <<isHolding, isDetecting>>
    BY <2>1, <2>2, SameTracking DEF tracking
  <2>3. CASE isHolding' = FALSE /\ isDetecting' = FALSE
    BY <2>1, <2>3 DEF TrackInv, TrackingType, HoldXorDetect
  <2>4. QED
    BY <2>1, <2>2, <2>3
<1>5. QED
  BY <1>1, <1>2, <1>3, <1>4

LEMMA StartRecordingKeeps ==
    ASSUME CameraInv, StartRecording
    PROVE  CameraInv'
<1> USE DEF CameraInv
<1>1. ThreadType'
  BY DEF StartRecording, ThreadType, QueueSteps, AllObservations, elsewhere
<1>2. AppType' /\ RecordingType' /\ StorageType' /\ CompletionType' /\ TrackInv'
        /\ G!TypeOK' /\ FlagsNameWriter' /\ WriterHasFile'
  BY SameApp, SameRecording, SameStorage, SameCompletions, SameTracking,
     SameGesture, SameWriter DEF StartRecording, recording, storage, completions
<1>3. FlagType'
  BY DEF StartRecording, FlagType
<1>4. QED
  BY <1>1, <1>2, <1>3

LEMMA StopRecordingKeeps ==
    ASSUME CameraInv, StopRecording
    PROVE  CameraInv'
<1> USE DEF CameraInv
<1>1. ThreadType'
  BY DEF StopRecording, ThreadType, QueueSteps, AllObservations, elsewhere
<1>2. AppType' /\ RecordingType' /\ StorageType' /\ CompletionType' /\ TrackInv'
        /\ G!TypeOK' /\ FlagsNameWriter' /\ WriterHasFile'
  BY SameApp, SameRecording, SameStorage, SameCompletions, SameTracking,
     SameGesture, SameWriter DEF StopRecording, recording, storage, completions
<1>3. FlagType'
  BY DEF StopRecording, FlagType
<1>4. QED
  BY <1>1, <1>2, <1>3

LEMMA UpdateTimerKeeps ==
    ASSUME CameraInv, UpdateTimer
    PROVE  CameraInv'
<1> USE DEF CameraInv
<1>1. ThreadType'
  BY DEF UpdateTimer, ThreadType, QueueSteps, AllObservations, elsewhere
<1>2. AppType' /\ FlagType' /\ RecordingType' /\ StorageType' /\ CompletionType'
        /\ G!TypeOK' /\ FlagsNameWriter' /\ WriterHasFile'
  BY SameApp, SameFlags, SameRecording, SameStorage, SameCompletions, SameGesture,
     SameWriter DEF UpdateTimer, flags, recording, storage, completions
<1>3. TrackInv'
  <2>1. counter' \in Counts /\ (counter > HoldTicks => counter' > HoldTicks)
    BY ConstantsAssumption DEF UpdateTimer, TrackInv, TrackingType, Tick, Counts
  <2>2. QED
    BY <2>1 DEF UpdateTimer, TrackInv, TrackingType, HoldXorDetect
<1>4. QED
  BY <1>1, <1>2, <1>3

LEMMA FrameArrivesKeeps ==
    ASSUME CameraInv, FrameArrives
    PROVE  CameraInv'
<1> USE DEF CameraInv
<1>1. ThreadType'
  BY DEF FrameArrives, ThreadType, QueueSteps, AllObservations, elsewhere
<1>2. AppType' /\ FlagType' /\ StorageType' /\ CompletionType' /\ TrackInv' /\
        G!TypeOK' /\ FlagsNameWriter' /\ WriterHasFile'
  BY SameApp, SameFlags, SameStorage, SameCompletions, SameTracking, SameGesture,
     SameWriter DEF FrameArrives, elsewhere, flags, recording, storage, completions
<1>3. RecordingType'
  BY ConstantsAssumption DEF FrameArrives, recording, RecordingType, ClockInv, Times
<1>4. QED
  BY <1>1, <1>2, <1>3

LEMMA OpenWriterKeeps ==
    ASSUME CameraInv, OpenWriter
    PROVE  CameraInv'
<1> USE DEF CameraInv
<1>1. ThreadType'
  BY DEF OpenWriter, ThreadType, QueueSteps, AllObservations, elsewhere
<1>2. AppType' /\ CompletionType' /\ TrackInv' /\ G!TypeOK'
  BY SameApp, SameCompletions, SameTracking, SameGesture DEF OpenWriter, elsewhere
<1>3. FlagType'
  BY DEF OpenWriter, FlagType
<1>4. RecordingType'
  BY DEF OpenWriter, RecordingType, ClockInv
<1>5. StorageType'
  BY DEF OpenWriter, StorageType
<1>6. FlagsNameWriter' /\ WriterHasFile'
  <2>1. PICK f \in Files : /\ disk[f] = "absent"
                           /\ disk' = [disk EXCEPT ![f] = "partial"]
                           /\ currentFilename' = f
    BY DEF OpenWriter
  <2>2. completion' = completion /\ completion[f] = "none" /\ f # None
    BY <2>1, ConstantsAssumption DEF OpenWriter, completions, WriterHasFile
  <2>3. FlagsNameWriter'
    BY <2>1, <2>2 DEF FlagsNameWriter, MayBeReady
  <2>4. \A g \in Files : disk[g] # "absent" => disk'[g] # "absent"
    BY <2>1 DEF StorageType
  <2>5. disk'[f] # "absent"
    BY <2>1 DEF StorageType
  <2>6. WriterHasFile'
    BY <2>1, <2>2, <2>4, <2>5 DEF WriterHasFile
  <2>7. QED
    BY <2>3, <2>6
<1>7. QED
  BY <1>1, <1>2, <1>3, <1>4, <1>5, <1>6

LEMMA ClearStartKeeps ==
    ASSUME CameraInv, ClearStart
    PROVE  CameraInv'
<1> USE DEF CameraInv
<1>1. ThreadType'
  BY DEF ClearStart, ThreadType, QueueSteps, AllObservations, elsewhere
<1>2. AppType' /\ RecordingType' /\ StorageType' /\ CompletionType' /\ TrackInv'
        /\ G!TypeOK' /\ FlagsNameWriter' /\ WriterHasFile'
  BY SameApp, SameRecording, SameStorage, SameCompletions, SameTracking,
     SameGesture, SameWriter DEF ClearStart, elsewhere, recording, storage, completions
<1>3. FlagType'
  BY DEF ClearStart, FlagType
<1>4. QED
  BY <1>1, <1>2, <1>3

LEMMA ClearDoneKeeps ==
    ASSUME CameraInv, ClearDone
    PROVE  CameraInv'
<1> USE DEF CameraInv
<1>1. ThreadType'
  BY DEF ClearDone, ThreadType, QueueSteps, AllObservations, elsewhere
<1>2. AppType' /\ StorageType' /\ CompletionType' /\ TrackInv' /\ G!TypeOK' /\
        FlagsNameWriter' /\ WriterHasFile'
  BY SameApp, SameStorage, SameCompletions, SameTracking, SameGesture, SameWriter
     DEF ClearDone, elsewhere, storage, completions
<1>3. FlagType'
  BY DEF ClearDone, FlagType
<1>4. RecordingType'
  BY ConstantsAssumption DEF ClearDone, RecordingType, ClockInv, Times
<1>5. QED
  BY <1>1, <1>2, <1>3, <1>4

LEMMA TestRecordingKeeps ==
    ASSUME CameraInv, TestRecording
    PROVE  CameraInv'
<1> USE DEF CameraInv
<1>1. ThreadType'
  BY DEF TestRecording, ThreadType, QueueSteps, AllObservations, elsewhere
<1>2. AppType' /\ FlagType' /\ RecordingType' /\ CompletionType' /\ TrackInv' /\
        G!TypeOK' /\ FlagsNameWriter' /\ WriterHasFile'
  BY SameApp, SameFlags, SameRecording, SameCompletions, SameTracking, SameGesture,
     SameWriter DEF TestRecording, elsewhere, flags, recording, completions
<1>3. StorageType'
  BY CameraElapsed DEF TestRecording, Append, StorageType
<1>4. QED
  BY <1>1, <1>2, <1>3

LEMMA FinishRecordingKeeps ==
    ASSUME CameraInv, FinishRecording
    PROVE  CameraInv'
<1> USE DEF CameraInv
<1>1. ThreadType'
  BY DEF FinishRecording, ThreadType, QueueSteps, AllObservations, elsewhere
<1>2. AppType' /\ StorageType' /\ TrackInv' /\ G!TypeOK'
  BY SameApp, SameStorage, SameTracking, SameGesture DEF FinishRecording, elsewhere
<1>3. FlagType'
  BY DEF FinishRecording, FlagType
<1>4. RecordingType'
  BY DEF FinishRecording, RecordingType, ClockInv
<1>5. CompletionType'
  BY DEF FinishRecording, CompletionType, Completions
<1>6. FlagsNameWriter' /\ WriterHasFile'
  BY DEF FinishRecording, storage, FlagsNameWriter, WriterHasFile
<1>7. QED
  BY <1>1, <1>2, <1>3, <1>4, <1>5, <1>6

LEMMA SkipFinishKeeps ==
    ASSUME CameraInv, SkipFinish
    PROVE  CameraInv'
<1> USE DEF CameraInv
<1>1. ThreadType'
  BY DEF SkipFinish, ThreadType, QueueSteps, AllObservations, elsewhere
<1>2. AppType' /\ FlagType' /\ RecordingType' /\ StorageType' /\ CompletionType'
        /\ TrackInv' /\ G!TypeOK' /\ FlagsNameWriter' /\ WriterHasFile'
  BY SameApp, SameFlags, SameRecording, SameStorage, SameCompletions, SameTracking,
     SameGesture, SameWriter DEF SkipFinish, elsewhere, flags, recording, storage,
         completions
<1>3. QED
  BY <1>1, <1>2

LEMMA VisionKeeps ==
    ASSUME CameraInv, NEW o \in Observations, Vision(o)
    PROVE  CameraInv'
<1> USE DEF CameraInv
<1>1. ThreadType'
  BY ConstantsAssumption DEF Vision, ThreadType, QueueSteps, AllObservations, elsewhere
<1>2. FlagType' /\ RecordingType' /\ StorageType' /\ CompletionType' /\
        G!TypeOK' /\ FlagsNameWriter' /\ WriterHasFile'
  BY SameFlags, SameRecording, SameStorage, SameCompletions, SameGesture, SameWriter
     DEF Vision, flags, recording, storage, completions
<1>3. AppType'
  BY VisionTracks DEF Vision, AppType, ScreenKeptOrCrashed
<1>4. TrackInv'
  BY VisionTracks
<1>5. QED
  BY <1>1, <1>2, <1>3, <1>4

LEMMA DeliverKeeps ==
    ASSUME CameraInv, Deliver
    PROVE  CameraInv'
<1> USE DEF CameraInv
<1>1. ThreadType'
  BY DEF Deliver, ThreadType, QueueSteps, AllObservations, elsewhere
<1>2. FlagType' /\ RecordingType' /\ StorageType' /\ CompletionType' /\
        FlagsNameWriter' /\ WriterHasFile'
  BY SameFlags, SameRecording, SameStorage, SameCompletions, SameWriter DEF Deliver,
         flags, recording, storage, completions
<1>3. AppType'
  BY DeliverTracks DEF Deliver, AppType, ScreenKeptOrCrashed
<1>4. TrackInv'
  BY DeliverTracks
<1>5. G!TypeOK'
  BY GestureType, SameGesture DEF Deliver
<1>6. QED
  BY <1>1, <1>2, <1>3, <1>4, <1>5

LEMMA CompletionLoadKeeps ==
    ASSUME CameraInv, NEW f \in Files, CompletionLoad(f)
    PROVE  CameraInv'
<1> USE DEF CameraInv
<1>1. ThreadType'
  BY DEF CompletionLoad, ThreadType, QueueSteps, AllObservations, elsewhere
<1>2. AppType' /\ FlagType' /\ RecordingType' /\ TrackInv' /\ G!TypeOK'
  BY SameApp, SameFlags, SameRecording, SameTracking, SameGesture DEF
     CompletionLoad, elsewhere
<1>3. StorageType'
  BY DEF CompletionLoad, MovieWritten, StorageType
<1>4. CompletionType'
  BY CameraElapsed DEF CompletionLoad, CompletionType, Completions, StorageType
<1>5. FlagsNameWriter' /\ WriterHasFile'
  <2>1. \A g \in Files : completion[g] # "none" <=> completion'[g] # "none"
    BY DEF CompletionLoad, CompletionType
  <2>2. \A g \in Files : disk[g] # "absent" => disk'[g] # "absent"
    BY DEF CompletionLoad, MovieWritten, StorageType
  <2>3. UNCHANGED <<isRecording, isDoneRecording, main, currentFilename>>
    BY DEF CompletionLoad, elsewhere, flags, recording
  <2>4. FlagsNameWriter'
    BY <2>1, <2>3 DEF FlagsNameWriter, MayBeReady, RecordingType
  <2>5. WriterHasFile'
    BY <2>1, <2>2, <2>3 DEF WriterHasFile
  <2>6. QED
    BY <2>4, <2>5
<1>6. QED
  BY <1>1, <1>2, <1>3, <1>4, <1>5

LEMMA CompletionStoreKeeps ==
    ASSUME CameraInv, NEW f \in Files, CompletionStore(f)
    PROVE  CameraInv'
<1> USE DEF CameraInv
<1>1. ThreadType'
  BY DEF CompletionStore, ThreadType, QueueSteps, AllObservations, elsewhere
<1>2. AppType' /\ FlagType' /\ RecordingType' /\ TrackInv' /\ G!TypeOK'
  BY SameApp, SameFlags, SameRecording, SameTracking, SameGesture DEF
     CompletionStore, elsewhere
<1>3. StorageType'
  BY DEF CompletionStore, WithLesson, StorageType, CompletionType, Lessons
<1>4. CompletionType'
  BY NothingLoadedType DEF CompletionStore, CompletionType, Completions
<1>5. FlagsNameWriter' /\ WriterHasFile'
  <2>1. \A g \in Files : completion[g] # "none" <=> completion'[g] # "none"
    BY DEF CompletionStore, CompletionType
  <2>2. UNCHANGED <<isRecording, isDoneRecording, main, currentFilename, disk>>
    BY DEF CompletionStore, elsewhere, flags, recording
  <2>3. FlagsNameWriter'
    BY <2>1, <2>2 DEF FlagsNameWriter, MayBeReady, RecordingType
  <2>4. WriterHasFile'
    BY <2>1, <2>2 DEF WriterHasFile
  <2>5. QED
    BY <2>3, <2>4
<1>6. QED
  BY <1>1, <1>2, <1>3, <1>4, <1>5

LEMMA MoveToEditKeeps ==
    ASSUME CameraInv, NEW f \in Files, MoveToEdit(f)
    PROVE  CameraInv'
<1> USE DEF CameraInv
<1>1. ThreadType'
  BY DEF MoveToEdit, ThreadType, QueueSteps, AllObservations, elsewhere
<1>2. FlagType' /\ RecordingType' /\ StorageType' /\ TrackInv' /\ G!TypeOK' /\
        FlagsNameWriter' /\ WriterHasFile'
  BY SameFlags, SameRecording, SameStorage, SameTracking, SameGesture, SameWriter
     DEF MoveToEdit, flags, recording, storage
<1>3. AppType'
  BY DEF MoveToEdit, Handover, AppType, RecordingType, TrackInv, TrackingType
<1>4. CompletionType'
  BY DEF MoveToEdit, CompletionType
<1>5. QED
  BY <1>1, <1>2, <1>3, <1>4

LEMMA LeaveCameraKeeps ==
    ASSUME CameraInv, LeaveCamera
    PROVE  CameraInv'
<1> USE DEF CameraInv
<1>1. ThreadType'
  BY DEF LeaveCamera, ThreadType, QueueSteps, AllObservations, elsewhere
<1>2. AppType' /\ FlagType' /\ RecordingType' /\ StorageType' /\ CompletionType'
        /\ TrackInv' /\ G!TypeOK' /\ FlagsNameWriter' /\ WriterHasFile'
  BY SameApp, SameFlags, SameRecording, SameStorage, SameCompletions, SameTracking,
     SameGesture, SameWriter DEF LeaveCamera, flags, recording, storage, completions
<1>3. QED
  BY <1>1, <1>2

LEMMA ShowAlertKeeps ==
    ASSUME CameraInv, ShowAlert
    PROVE  CameraInv'
<1> USE DEF CameraInv
<1>1. ThreadType'
  BY DEF ShowAlert, ThreadType, QueueSteps, AllObservations, elsewhere
<1>2. FlagType' /\ RecordingType' /\ StorageType' /\ CompletionType' /\
        TrackInv' /\ G!TypeOK' /\ FlagsNameWriter' /\ WriterHasFile'
  BY SameFlags, SameRecording, SameStorage, SameCompletions, SameTracking,
     SameGesture, SameWriter DEF ShowAlert, flags, recording, storage, completions
<1>3. AppType'
  BY DEF ShowAlert, AppType
<1>4. QED
  BY <1>1, <1>2, <1>3

LEMMA DismissAlertKeeps ==
    ASSUME CameraInv, DismissAlert
    PROVE  CameraInv'
<1> USE DEF CameraInv
<1>1. ThreadType'
  BY DEF DismissAlert, ThreadType, QueueSteps, AllObservations, elsewhere
<1>2. FlagType' /\ RecordingType' /\ StorageType' /\ CompletionType' /\
        TrackInv' /\ G!TypeOK' /\ FlagsNameWriter' /\ WriterHasFile'
  BY SameFlags, SameRecording, SameStorage, SameCompletions, SameTracking,
     SameGesture, SameWriter DEF DismissAlert, flags, recording, storage, completions
<1>3. AppType'
  BY DEF DismissAlert, AppType
<1>4. QED
  BY <1>1, <1>2, <1>3

\* A relaunch forgets everything but the storage, where every writer had its file.
LEMMA RelaunchKeeps ==
    ASSUME CameraInv, Relaunch
    PROVE  CameraInv'
<1> USE ConstantsAssumption DEF CameraInv, Relaunch
<1>1. AppType' /\ ThreadType'
  BY DEF AppType, ThreadType, QueueSteps, AllObservations
<1>2. FlagType'
  BY DEF FlagType
<1>3. RecordingType'
  BY DEF RecordingType, ClockInv, Times
<1>4. StorageType'
  BY SameStorage
<1>5. CompletionType'
  BY NothingLoadedType DEF CompletionType, Completions, NothingLoaded, Lessons, Times
<1>6. TrackInv'
  <2>1. counter' \in Counts
    BY DEF Counts
  <2>2. detected' \subseteq Times /\ allDetectedTimestamps' \subseteq Spans
    OBVIOUS
  <2>3. {hasStartedTimer', isHolding', isDetecting'} \subseteq BOOLEAN
    OBVIOUS
  <2>4. HoldXorDetect'
    BY DEF HoldXorDetect
  <2>5. QED
    BY <2>1, <2>2, <2>3, <2>4 DEF TrackInv, TrackingType
<1>7. G!TypeOK'
  BY GestureType
<1>8. FlagsNameWriter' /\ WriterHasFile'
  BY DEF FlagsNameWriter, WriterHasFile
<1>9. QED
  BY <1>1, <1>2, <1>3, <1>4, <1>5, <1>6, <1>7, <1>8

LEMMA StutterKeeps ==
    ASSUME CameraInv, UNCHANGED vars
    PROVE  CameraInv'
<1> USE DEF CameraInv
<1>1. ThreadType'
  BY DEF ThreadType, vars
<1>2. AppType' /\ FlagType' /\ RecordingType' /\ StorageType' /\ CompletionType'
        /\ TrackInv' /\ G!TypeOK' /\ FlagsNameWriter' /\ WriterHasFile'
  BY SameApp, SameFlags, SameRecording, SameStorage, SameCompletions, SameTracking,
     SameGesture, SameWriter DEF vars, flags, recording, storage, completions
<1>3. QED
  BY <1>1, <1>2

-----------------------------------------------------------------------------
(***************************************************************************)
(* The theorems.                                                           *)
(***************************************************************************)
\* No step of any thread, in any order, breaks the inductive invariant.
LEMMA CameraInvNext == CameraInv /\ [Next]_vars => CameraInv'
<1> SUFFICES ASSUME CameraInv, [Next]_vars PROVE CameraInv'
  OBVIOUS
<1>1. CASE User
  BY <1>1, RelaunchKeeps, OnNewLessonClickKeeps, HandleRecordKeeps, DismissAlertKeeps
     DEF User
<1>2. CASE MainThread
  BY <1>2, ShowMenuKeeps, StartRecordingKeeps, StopRecordingKeeps, UpdateTimerKeeps,
     LeaveCameraKeeps, ShowAlertKeeps DEF MainThread
<1>3. CASE CaptureOutput
  BY <1>3, FrameArrivesKeeps, OpenWriterKeeps, ClearStartKeeps, ClearDoneKeeps,
     TestRecordingKeeps, FinishRecordingKeeps, SkipFinishKeeps, VisionKeeps,
     DeliverKeeps DEF CaptureOutput
<1>4. CASE Completion
  BY <1>4, CompletionLoadKeeps, CompletionStoreKeeps, MoveToEditKeeps DEF Completion
<1>5. CASE UNCHANGED vars
  BY <1>5, StutterKeeps
<1>6. QED
  BY <1>1, <1>2, <1>3, <1>4, <1>5 DEF Next

\* The inductive invariant holds in every state the controller reaches.
THEOREM CameraInvariant == Spec => []CameraInv
  BY CameraInvInit, CameraInvNext, PTL DEF Spec

\* Every field of the controller, of its movies and of the catalogue has the type
\* the code declares: the spans are pairs of times, what the editor is handed
\* included, and no recording starts in the future, so that no Elapsed time is
\* negative, for every set of files and every user, patient or not.
THEOREM CameraTypeOK == Spec => []TypeOK
<1>1. CameraInv => TypeOK
  BY CameraElapsed DEF TypeInv
<1>2. QED
  BY <1>1, CameraInvariant, PTL

\* A palm is being held or is detected, never both, and detected only past the full
\* hold: the handler on the main thread, AbortTracking on the camera queue, the
\* racing write of the counter and a tap on record keep it so in every interleaving.
THEOREM HoldingExcludesDetecting == Spec => []HoldXorDetect
<1>1. CameraInv => HoldXorDetect
  BY DEF CameraInv, TrackInv
<1>2. QED
  BY <1>1, CameraInvariant, PTL

\* In every interleaving of taps and frames, impatient taps included, captureOutput
\* finds an open, unfinished writer when isRecording sends it to append, and a
\* writer to ask whether it is ready when isDoneRecording sends it to finish.
THEOREM WriterThere == Spec => []FlagsNameWriter
<1>1. CameraInv => FlagsNameWriter
  BY DEF CameraInv
<1>2. QED
  BY <1>1, CameraInvariant, PTL

-----------------------------------------------------------------------------
(***************************************************************************)
(* The spans of a first recording.  A second one would restart the clock   *)
(* under a palm that is still held; before any other file was opened, a    *)
(* start that is noted was noted after startTimestamp was set.             *)
(***************************************************************************)
\* No more than one file was ever opened.
FirstRecording ==
    \A f, g \in Files : disk[f] # "absent" /\ disk[g] # "absent" => f = g

\* Nothing is tracked before startTimestamp is set, and what is tracked lies between
\* it and the last frame.
SpansStarted ==
    /\ queue \in {"clearStart", "clearDone"} \/ currentFilename = None =>
          startDetectTimestamp = None /\ allDetectedTimestamps = {}
    /\ startDetectTimestamp # None => startDetectTimestamp <= Elapsed
    /\ SpansOrdered

\* Tracking on the main thread and on the camera queue, while the clock stands still.
LEMMA TrackingStarts ==
    ASSUME CameraInv, SpansStarted,
           queue \notin {"clearStart", "clearDone"}, queue' \notin {"clearStart", "clearDone"},
           UNCHANGED <<time, startTimestamp, currentFilename>>,
           AbortTracking \/ \E s : HandleGestureStateChange(s)
    PROVE  SpansStarted'
<1>1. Elapsed' = Elapsed /\ Elapsed \in Times /\ \A t \in Times : t <= t
  BY CameraElapsed DEF Elapsed, Times
<1>2. None \notin Times /\ (isRecording => currentFilename # None)
  BY ConstantsAssumption DEF Times, CameraInv, FlagsNameWriter, MayBeReady
<1>3. CASE UNCHANGED <<startDetectTimestamp, allDetectedTimestamps>>
  BY <1>1, <1>3 DEF SpansStarted, SpansOrdered
<1>4. CASE /\ isRecording /\ startDetectTimestamp' = Elapsed
           /\ allDetectedTimestamps' = allDetectedTimestamps
  BY <1>1, <1>2, <1>4 DEF SpansStarted, SpansOrdered
<1>5. CASE /\ startDetectTimestamp # None /\ allDetectedTimestamps' = WithSpan
           /\ startDetectTimestamp' = startDetectTimestamp
  <2>1. currentFilename # None /\ startDetectTimestamp <= Elapsed
    BY <1>5 DEF SpansStarted
  <2>2. SpansOrdered'
    BY <1>5, <2>1 DEF SpansStarted, SpansOrdered, WithSpan
  <2>3. QED
    BY <1>1, <1>5, <2>1, <2>2 DEF SpansStarted
<1>6. CASE AbortTracking
  BY <1>3, <1>5, <1>6 DEF AbortTracking, NilStart, tracking
<1>7. ASSUME NEW s, HandleGestureStateChange(s) PROVE SpansStarted'
  <2>1. CASE UNCHANGED tracking
    BY <1>3, <2>1 DEF tracking
  <2>2. CASE PalmPossible \/ StartTimer \/ FailHold
    BY <1>3, <2>2 DEF PalmPossible, StartTimer, FailHold
  <2>3. CASE HoldPalm
    BY <1>3, <1>4, <2>3 DEF HoldPalm, BeginHold, BeginDetect, KeepHold
  <2>4. CASE ~Traps(s) /\ hasStartedTimer /\ isRecording /\ EndSpan
    BY <1>5, <2>4 DEF EndSpan, Traps, NilStart, Holds
  <2>5. QED
    BY <1>7, <2>1, <2>2, <2>3, <2>4 DEF HandleGestureStateChange, PalmSeen, PalmLost
<1>8. QED
  BY <1>6, <1>7

\* Every other step leaves the spans alone; a writer on a second file ends the first
\* recording.
LEMMA FirstSpansStep ==
    ASSUME CameraInv, FirstRecording => SpansStarted, [Next]_vars, FirstRecording'
    PROVE  FirstRecording /\ SpansStarted'
<1> USE DEF SpansStarted
<1>1. /\ time \in Nat /\ startTimestamp \in Nat /\ startTimestamp <= time
      /\ startDetectTimestamp # None => startDetectTimestamp \in Nat
  BY DEF CameraInv, RecordingType, ClockInv, TrackInv, TrackingType, Times
<1>2. CASE Relaunch
  BY <1>2 DEF Relaunch, storage, FirstRecording, SpansOrdered
<1>3. ASSUME UNCHANGED <<disk, startDetectTimestamp, allDetectedTimestamps, currentFilename>>,
             UNCHANGED <<time, startTimestamp>>,
             queue' \in {"clearStart", "clearDone"} => queue \in {"clearStart", "clearDone"}
      PROVE  FirstRecording /\ SpansStarted'
  BY <1>3 DEF FirstRecording, SpansOrdered, Elapsed
<1>4. CASE OnNewLessonClick \/ HandleRecord \/ DismissAlert \/ MainThread
  BY <1>3, <1>4
     DEF OnNewLessonClick, HandleRecord, DismissAlert, MainThread, ShowMenu,
         StartRecording, StopRecording, UpdateTimer, LeaveCamera, ShowAlert, storage,
         recording, tracking
<1>5. CASE ClearStart \/ TestRecording \/ FinishRecording \/ SkipFinish
  BY <1>3, <1>5
     DEF ClearStart, TestRecording, FinishRecording, SkipFinish, storage, recording,
         elsewhere, tracking
<1>6. CASE FrameArrives
  <2>1. FirstRecording /\ SpansOrdered'
    BY <1>6 DEF FrameArrives, FirstRecording, storage, elsewhere, tracking, SpansOrdered
  <2>2. /\ UNCHANGED <<startDetectTimestamp, allDetectedTimestamps, currentFilename>>
        /\ queue' \notin {"clearStart", "clearDone"} /\ startTimestamp' = startTimestamp
        /\ time' = time \/ time' = time + 1
    BY <1>6 DEF FrameArrives, recording, elsewhere, tracking
  <2>3. \A d \in Nat : d <= Elapsed => d <= Elapsed'
    BY <1>1, <2>2 DEF Elapsed
  <2>4. QED
    BY <1>1, <2>1, <2>2, <2>3
<1>7. CASE OpenWriter
  <2>1. PICK f \in Files : /\ disk[f] = "absent" /\ currentFilename' = f
                           /\ disk' = [disk EXCEPT ![f] = "partial"]
    BY <1>7 DEF OpenWriter
  <2>2. \A g \in Files : disk[g] # "absent" => disk'[g] # "absent" /\ g # f
    BY <2>1 DEF CameraInv, StorageType
  <2>3. disk'[f] # "absent"
    BY <2>1 DEF CameraInv, StorageType
  <2>4. \A g \in Files : disk[g] = "absent"
    BY <2>2, <2>3 DEF FirstRecording
  <2>5. currentFilename = None
    BY <2>4 DEF CameraInv, WriterHasFile, RecordingType
  <2>6. startDetectTimestamp = None /\ allDetectedTimestamps = {}
    BY <2>4, <2>5 DEF FirstRecording
  <2>7. QED
    BY <1>7, <2>4, <2>6 DEF OpenWriter, FirstRecording, elsewhere, tracking, SpansOrdered
<1>8. CASE ClearDone
  <2>1. FirstRecording /\ UNCHANGED <<startDetectTimestamp, allDetectedTimestamps>>
    BY <1>8 DEF ClearDone, FirstRecording, storage, elsewhere, tracking
  <2>2. startDetectTimestamp = None /\ allDetectedTimestamps = {}
    BY <1>8, <2>1 DEF ClearDone
  <2>3. QED
    BY <2>1, <2>2 DEF SpansOrdered
<1>9. ASSUME Deliver \/ \E o \in Observations : Vision(o)
      PROVE  FirstRecording /\ SpansStarted'
  <2>1. /\ FirstRecording /\ UNCHANGED <<time, startTimestamp, currentFilename>>
        /\ queue \notin {"clearStart", "clearDone"} /\ queue' \notin {"clearStart", "clearDone"}
    BY <1>9 DEF Deliver, Vision, FirstRecording, storage, recording
  <2>2. CASE UNCHANGED tracking
    BY <2>1, <2>2, <1>3, <1>9 DEF Deliver, Vision, storage, tracking
  <2>3. CASE AbortTracking \/ \E s : HandleGestureStateChange(s)
    BY <2>1, <2>3, TrackingStarts
  <2>4. QED
    BY <1>9, <2>2, <2>3 DEF Deliver, Vision
<1>10. CASE Completion
  <2>1. PICK f \in Files : CompletionLoad(f) \/ CompletionStore(f) \/ MoveToEdit(f)
    BY <1>10 DEF Completion
  <2>2. CASE CompletionLoad(f)
    <3>1. disk' = disk \/ disk' = [disk EXCEPT ![f] = "movie"]
      BY <2>2 DEF CompletionLoad, MovieWritten
    <3>2. \A g \in Files : disk[g] # "absent" => disk'[g] # "absent"
      BY <3>1 DEF CameraInv, StorageType
    <3>3. QED
      BY <2>2, <3>2
         DEF CompletionLoad, FirstRecording, elsewhere, tracking, recording, Elapsed,
             SpansOrdered
  <2>3. CASE CompletionStore(f) \/ MoveToEdit(f)
    BY <1>3, <2>3
       DEF CompletionStore, MoveToEdit, elsewhere, tracking, recording, storage
  <2>4. QED
    BY <2>1, <2>2, <2>3
<1>11. CASE UNCHANGED vars
  BY <1>3, <1>11 DEF vars, storage, recording, tracking
<1>12. QED
  BY <1>2, <1>4, <1>5, <1>6, <1>7, <1>8, <1>9, <1>10, <1>11
     DEF Next, User, CaptureOutput, MainThread

\* As long as no more than one movie was ever opened, every span ends after it
\* started, for every user, patient or not: handleGestureStateChange and captureOutput,
\* which open and close spans from two threads, read the clock in the order of the
\* frames.
THEOREM FirstSpansOrdered == Spec => [](FirstRecording => SpansOrdered)
<1>1. Init => (FirstRecording => SpansStarted)
  BY DEF Init, SpansStarted, SpansOrdered
<1>2. CameraInv /\ (FirstRecording => SpansStarted) /\ [Next]_vars
        => (FirstRecording => SpansStarted)'
  BY FirstSpansStep
<1>3. (FirstRecording => SpansStarted) => (FirstRecording => SpansOrdered)
  BY DEF SpansStarted
<1>4. QED
  BY <1>1, <1>2, <1>3, CameraInvariant, PTL DEF Spec
=============================================================================
