------------------------- MODULE PatientCamera_proofs -------------------------
(***************************************************************************)
(* What the camera controller guarantees to a user who waits for a tap to  *)
(* take effect before the next one, when no writer fails to finish: for    *)
(* every set of files, every bound and whatever Vision finds, errors       *)
(* included, the catalogue names playable movies and covers them, it loses *)
(* no lesson, the editor gets a movie and spans inside it, and every step  *)
(* of the three threads is one of the abstract library or none.            *)
(***************************************************************************)
EXTENDS CameraController_proofs

\* The hypotheses of this module.
Patient == PatientUser /\ ~FinishMayFail

-----------------------------------------------------------------------------
(***************************************************************************)
(* The inductive invariant.  Between two launches there is one recording   *)
(* at most: it is opened, recorded, closed and handed to the editor, and   *)
(* after the editor came up, or an alert kept it away, no frame opens      *)
(* another one.                                                            *)
(***************************************************************************)
\* A recording was opened since the launch.
Used == currentFilename # None

\* The camera queue is between reading isStartRecording and setting startTimestamp.
Opening == queue \in {"open", "clearStart", "clearDone"}

\* A stop is on its way from the tap to the editor.
Closing ==
    \/ main = "stopping" \/ isDoneRecording
    \/ \E f \in Files : completion[f] \in {"finishing", "loaded"}
    \/ editQueue # {}

\* The flags of the taps and the position of the camera queue agree.
TapInv ==
    /\ Opening => main = "idle" /\ ~Closing
    /\ queue = "open" => isStartRecording /\ ~Used
    /\ queue = "clearStart" => isStartRecording /\ isRecording
    /\ queue = "clearDone" => ~isStartRecording /\ isRecording
    /\ isStartRecording \/ main = "starting" => ~Closing
    /\ isStartRecording \/ isDoneRecording => main = "idle"
    /\ isRecording => ~Closing /\ main = "idle"
    /\ isRecording /\ isStartRecording => queue = "clearStart"

\* Nothing that could start a second recording of this launch.
OnceInv ==
    /\ Used /\ running /\ screen = "camera" /\ ~isRecording => Closing
    /\ screen = "edit" => ~isStartRecording /\ main # "starting"
    /\ alert # "none" => ~running
    /\ screen \in {"launch", "menu"} =>
          ~Used /\ ~running /\ ~isStartRecording /\ main = "idle" /\ queue = "idle"

\* Only the file of this launch's recording has a handler, which runs after the
\* writer has a frame and leaves a movie.
HandlerInv ==
    /\ \A f \in Files : completion[f] # "none" => f = currentFilename /\ f = videoURL
    /\ isDoneRecording \/ main = "stopping" => completion[currentFilename] = "none"
    /\ isDoneRecording \/ main = "stopping" => length[currentFilename] > 0
    /\ \A f \in Files : completion[f] # "none" => length[f] > 0
    /\ \A f \in Files : completion[f] \in {"loaded", "stored"} => disk[f] = "movie"
    /\ \A f \in editQueue : completion[f] = "stored"

\* The catalogue, against the files and against the handler's copy of it.
CatalogueInv ==
    /\ \A f \in Files : catalogue[f] # None => disk[f] = "movie" /\ length[f] <= catalogue[f]
    /\ \A f \in Files : f = currentFilename =>
          (catalogue[f] # None <=> completion[f] = "stored")
    /\ \A f \in Files : completion[f] = "loaded" =>
          loaded[f].lessons = catalogue /\ length[f] <= loaded[f].duration

\* A file has frames only once a writer opened it, none while it is being opened,
\* and none later than the clock.
FrameInv ==
    /\ \A f \in Files : disk[f] = "absent" => length[f] = 0
    /\ Opening /\ Used => length[currentFilename] = 0
    /\ Used => length[currentFilename] <= Elapsed

\* The spans: within the recording's clock, and within what the handler read of it.
SpanInv ==
    /\ Holds => isRecording
    /\ startDetectTimestamp # None => Used /\ ~Opening /\ startDetectTimestamp <= Elapsed
    /\ allDetectedTimestamps # {} => Used /\ ~Opening
    /\ \A s \in allDetectedTimestamps :
          /\ s[1] <= s[2] /\ s[2] <= Elapsed
          /\ \A f \in Files :
                /\ completion[f] = "loaded" => s[2] <= loaded[f].duration
                /\ completion[f] = "stored" => s[2] <= catalogue[f]

\* The editor has the recording of this launch, and is in front of the camera.
EditorInv ==
    handed # None =>
        /\ Used /\ handed.url = currentFilename /\ screen # "camera"
        /\ completion[currentFilename] = "stored"
        /\ handed.spans \subseteq allDetectedTimestamps

PatientInv ==
    TapInv /\ OnceInv /\ HandlerInv /\ CatalogueInv /\ FrameInv /\ SpanInv /\ EditorInv

-----------------------------------------------------------------------------
(***************************************************************************)
(* What each part needs to know of a step that leaves it alone.            *)
(***************************************************************************)
LEMMA TapKept ==
    ASSUME TapInv, UNCHANGED <<main, isStartRecording, isRecording, isDoneRecording>>,
           UNCHANGED <<currentFilename, completion, editQueue>>,
           Opening \/ Opening' => queue' = queue
    PROVE  TapInv'
  BY DEF TapInv, Opening, Closing, Used

LEMMA OnceKept ==
    ASSUME OnceInv, UNCHANGED <<main, isStartRecording, isRecording, isDoneRecording>>,
           UNCHANGED <<currentFilename, completion, editQueue>>,
           running' => running, screen' \in {screen, "crashed"},
           alert' = "none" \/ alert # "none" \/ ~running',
           queue' = queue \/ queue # "idle" \/ running
    PROVE  OnceInv'
  BY DEF OnceInv, Closing, Used

LEMMA HandlerKept ==
    ASSUME HandlerInv, UNCHANGED <<currentFilename, videoURL, completion, editQueue>>,
           UNCHANGED <<disk, length>>,
           isDoneRecording' \/ main' = "stopping" => isDoneRecording \/ main = "stopping"
    PROVE  HandlerInv'
  BY DEF HandlerInv

LEMMA CatalogueKept ==
    ASSUME CatalogueInv, UNCHANGED <<currentFilename, completion, loaded>>,
           UNCHANGED <<disk, length, catalogue>>
    PROVE  CatalogueInv'
  BY DEF CatalogueInv

LEMMA FrameKept ==
    ASSUME FrameInv, UNCHANGED <<disk, length, currentFilename, time, startTimestamp>>,
           Opening' => Opening
    PROVE  FrameInv'
  BY DEF FrameInv, Used, Elapsed

LEMMA SpanKept ==
    ASSUME SpanInv, UNCHANGED <<startDetectTimestamp, allDetectedTimestamps>>,
           UNCHANGED <<currentFilename, time, startTimestamp, completion, loaded, catalogue>>,
           Holds' => Holds, Holds /\ isRecording => isRecording' \/ ~Holds',
           Opening' => Opening
    PROVE  SpanInv'
  BY DEF SpanInv, Used, Elapsed

LEMMA EditorKept ==
    ASSUME EditorInv, UNCHANGED <<handed, currentFilename, completion>>,
           allDetectedTimestamps \subseteq allDetectedTimestamps',
           screen' = "camera" => screen = "camera"
    PROVE  EditorInv'
  BY DEF EditorInv, Used

\* The initial state: no recording was opened.
LEMMA PatientInit == Init => PatientInv
<1> SUFFICES ASSUME Init PROVE PatientInv
  OBVIOUS
<1> USE ConstantsAssumption DEF Init
<1>1. TapInv /\ OnceInv
  BY DEF TapInv, OnceInv, Opening, Closing, Used
<1>2. HandlerInv /\ CatalogueInv
  BY DEF HandlerInv, CatalogueInv
<1>3. FrameInv /\ SpanInv /\ EditorInv
  BY DEF FrameInv, SpanInv, EditorInv, Holds, Used, Opening
<1>4. QED
  BY <1>1, <1>2, <1>3 DEF PatientInv


\* While the camera queue records, opens or is about to be told to stop, no writer of
\* this launch is finishing or has finished.
LEMMA NoHandler ==
    ASSUME CameraInv, PatientInv
    PROVE  /\ isRecording => Used
           /\ Used => currentFilename \in Files
           /\ isRecording \/ ~Used \/ isDoneRecording \/ main = "stopping" =>
                 \A f \in Files : completion[f] = "none"
  BY ConstantsAssumption
     DEF CameraInv, PatientInv, HandlerInv, FlagsNameWriter, MayBeReady, Used, RecordingType

LEMMA ShowMenuPatient ==
    ASSUME CameraInv, PatientInv, ShowMenu
    PROVE  PatientInv'
<1> USE DEF CameraInv, PatientInv
<1>1. TapInv' /\ HandlerInv' /\ CatalogueInv' /\ FrameInv' /\ SpanInv' /\ EditorInv'
  BY TapKept, HandlerKept, CatalogueKept, FrameKept, SpanKept, EditorKept
     DEF ShowMenu, flags, recording, storage, completions, tracking, Opening, Holds
<1>2. OnceInv'
  BY ConstantsAssumption DEF ShowMenu, flags, recording, OnceInv, Used
<1>3. QED
  BY <1>1, <1>2

LEMMA OnNewLessonClickPatient ==
    ASSUME CameraInv, PatientInv, OnNewLessonClick
    PROVE  PatientInv'
<1> USE DEF CameraInv, PatientInv
<1>1. TapInv' /\ HandlerInv' /\ CatalogueInv' /\ FrameInv' /\ SpanInv'
  BY TapKept, HandlerKept, CatalogueKept, FrameKept, SpanKept
     DEF OnNewLessonClick, flags, recording, storage, completions, tracking, Opening, Holds
<1>2. OnceInv'
  BY ConstantsAssumption DEF OnNewLessonClick, recording, OnceInv, Used
<1>3. EditorInv'
  BY DEF OnNewLessonClick, EditorInv, OnceInv
<1>4. QED
  BY <1>1, <1>2, <1>3

LEMMA HandleRecordPatient ==
    ASSUME CameraInv, PatientInv, Patient, HandleRecord
    PROVE  PatientInv'
<1> USE DEF CameraInv, PatientInv
<1>1. CatalogueInv' /\ FrameInv' /\ EditorInv'
  BY CatalogueKept, FrameKept, EditorKept
     DEF HandleRecord, app, recording, storage, completions, Opening
<1>2. ~Closing /\ ~isStartRecording /\ ~Opening /\ main = "idle"
  BY DEF HandleRecord, Patient, Settled, Closing, Opening, FrameInv, TapInv, Used
<1>3. TapInv'
  BY <1>2 DEF HandleRecord, TapInv, Opening, Closing, completions
<1>4. OnceInv'
  BY <1>2 DEF HandleRecord, OnceInv, Closing, Used, app, recording
<1>5. HandlerInv'
  <2>1. isRecording => completion[currentFilename] = "none" /\ length[currentFilename] > 0
    BY DEF HandleRecord, Patient, Settled, FlagsNameWriter, MayBeReady
  <2>2. ~(isDoneRecording' \/ main' = "stopping") \/ isRecording
    BY <1>2 DEF HandleRecord, Closing
  <2>3. UNCHANGED <<completion, currentFilename, videoURL, length, disk, editQueue>>
    BY DEF HandleRecord, completions, recording, storage
  <2>4. QED
    BY <2>1, <2>2, <2>3 DEF HandlerInv
<1>6. SpanInv'
  <2>1. Holds' => Holds /\ isRecording'
    BY DEF HandleRecord, Holds, SpanInv
  <2>2. QED
    BY <2>1, SpanKept DEF HandleRecord, recording, storage, completions, Opening
<1>7. QED
  BY <1>1, <1>3, <1>4, <1>5, <1>6

LEMMA StartRecordingPatient ==
    ASSUME CameraInv, PatientInv, StartRecording
    PROVE  PatientInv'
<1> USE DEF CameraInv, PatientInv
<1>1. HandlerInv' /\ CatalogueInv' /\ FrameInv' /\ SpanInv' /\ EditorInv'
  BY HandlerKept, CatalogueKept, FrameKept, SpanKept, EditorKept
     DEF StartRecording, app, recording, storage, completions, tracking, Opening, Holds
<1>2. TapInv'
  BY ConstantsAssumption DEF StartRecording, completions, TapInv, Closing
<1>3. OnceInv'
  BY ConstantsAssumption DEF StartRecording, app, recording, completions, OnceInv,
                             Closing, Used
<1>4. QED
  BY <1>1, <1>2, <1>3

LEMMA StopRecordingPatient ==
    ASSUME CameraInv, PatientInv, StopRecording
    PROVE  PatientInv'
<1> USE DEF CameraInv, PatientInv
<1>1. CatalogueInv' /\ FrameInv' /\ SpanInv' /\ EditorInv'
  BY CatalogueKept, FrameKept, SpanKept, EditorKept
     DEF StopRecording, app, recording, storage, completions, tracking, Opening, Holds
<1>2. TapInv'
  BY ConstantsAssumption DEF StopRecording, TapInv, Opening
<1>3. OnceInv'
  BY ConstantsAssumption DEF StopRecording, app, OnceInv, Closing
<1>4. HandlerInv'
  BY ConstantsAssumption DEF StopRecording, recording, storage, completions, HandlerInv
<1>5. QED
  BY <1>1, <1>2, <1>3, <1>4

LEMMA UpdateTimerPatient ==
    ASSUME CameraInv, PatientInv, UpdateTimer
    PROVE  PatientInv'
<1> USE DEF CameraInv, PatientInv
<1>1. TapInv' /\ OnceInv' /\ HandlerInv' /\ CatalogueInv' /\ FrameInv' /\ SpanInv' /\ EditorInv'
  BY TapKept, OnceKept, HandlerKept, CatalogueKept, FrameKept, SpanKept, EditorKept
     DEF UpdateTimer, app, flags, recording, storage, completions, Opening, Holds
<1>2. QED
  BY <1>1

LEMMA FrameArrivesPatient ==
    ASSUME CameraInv, PatientInv, FrameArrives
    PROVE  PatientInv'
<1> USE DEF CameraInv, PatientInv
<1>1. OnceInv' /\ HandlerInv' /\ CatalogueInv' /\ EditorInv'
  BY OnceKept, HandlerKept, CatalogueKept, EditorKept
     DEF FrameArrives, elsewhere, app, flags, recording, storage, completions, tracking
<1>2. isStartRecording => ~Used
  BY DEF FrameArrives, Alive, OnceInv, TapInv, AppType
<1>3. UNCHANGED <<main, flags, recording, storage, completions, tracking>>
  BY DEF FrameArrives, elsewhere
<1>4. queue = "idle" /\ queue' = (IF isStartRecording THEN "open" ELSE "testRecording")
  BY DEF FrameArrives
<1>5. TapInv'
  BY <1>2, <1>3, <1>4 DEF TapInv, Opening, Closing, Used, flags, recording, completions
<1>6. Elapsed <= Elapsed' /\ Elapsed \in Nat /\ Elapsed' \in Nat
  <2>1. /\ time \in Nat /\ startTimestamp \in Nat /\ startTimestamp <= time
        /\ time' \in {time, time + 1} /\ startTimestamp' = startTimestamp
    BY <1>3 DEF FrameArrives, RecordingType, ClockInv, Times, recording
  <2>2. \A t, b \in Nat : b <= t => /\ t - b \in Nat /\ t + 1 - b \in Nat
                                    /\ t - b <= t - b /\ t - b <= t + 1 - b
    OBVIOUS
  <2>3. CASE time' = time
    BY <2>1, <2>2, <2>3 DEF Elapsed
  <2>4. CASE time' = time + 1
    BY <2>1, <2>2, <2>4 DEF Elapsed
  <2>5. QED
    BY <2>1, <2>3, <2>4
<1>7. FrameInv'
  <2>1. \A f \in Files : length[f] \in Nat
    BY DEF StorageType, Times
  <2>2. Used => length'[currentFilename'] <= Elapsed'
    BY <1>3, <1>6, <2>1, NoHandler DEF FrameInv, recording, storage
  <2>3. QED
    BY <1>2, <1>3, <1>4, <2>2 DEF FrameInv, Opening, Used, recording, storage
<1>8. SpanInv'
  <2>1. \A s \in allDetectedTimestamps : s[2] \in Nat
    BY DEF TrackInv, TrackingType, Spans, Times
  <2>2. startDetectTimestamp # None => startDetectTimestamp <= Elapsed'
    BY <1>6 DEF TrackInv, TrackingType, SpanInv, Times
  <2>3. \A s \in allDetectedTimestamps : s[2] <= Elapsed'
    BY <1>6, <2>1 DEF SpanInv
  <2>4. Used => ~Opening'
    BY <1>2, <1>4 DEF Opening
  <2>5. QED
    BY <1>3, <2>2, <2>3, <2>4
       DEF SpanInv, Holds, Used, flags, recording, storage, completions, tracking
<1>9. QED
  BY <1>1, <1>5, <1>7, <1>8

LEMMA OpenWriterPatient ==
    ASSUME CameraInv, PatientInv, OpenWriter
    PROVE  PatientInv'
<1> USE DEF CameraInv, PatientInv
<1>1. PICK f \in Files : /\ disk[f] = "absent"
                         /\ disk' = [disk EXCEPT ![f] = "partial"]
                         /\ currentFilename' = f
  BY DEF OpenWriter
<1>2. /\ UNCHANGED <<main, running, screen, alert, handed, tracking>>
      /\ UNCHANGED <<isStartRecording, isDoneRecording, time, startTimestamp>>
      /\ UNCHANGED <<videoURL, length, catalogue, completion, loaded, editQueue>>
      /\ isRecording' = TRUE /\ queue = "open" /\ queue' = "clearStart"
  BY DEF OpenWriter, elsewhere, app, completions
<1>3. /\ ~Used /\ ~isRecording /\ isStartRecording /\ main = "idle" /\ ~Closing
      /\ screen \notin {"launch", "menu"}
  BY <1>2, NoHandler DEF TapInv, OnceInv, Opening, RecordingType
<1>4. \A g \in Files : completion[g] = "none"
  BY <1>3, NoHandler
<1>5. length[f] = 0 /\ catalogue[f] = None
  BY <1>1 DEF FrameInv, CatalogueInv
<1>6. \A g \in Files : /\ disk[g] = "movie" => disk'[g] = "movie"
                       /\ disk'[g] = "absent" => disk[g] = "absent"
  BY <1>1 DEF StorageType
<1>7. TapInv'
  BY <1>2, <1>3 DEF TapInv, Opening, Closing
<1>8. OnceInv'
  BY <1>2, <1>3 DEF OnceInv
<1>9. HandlerInv'
  BY <1>2, <1>3, <1>4 DEF HandlerInv, Closing
<1>10. CatalogueInv'
  BY <1>1, <1>2, <1>4, <1>5, <1>6 DEF CatalogueInv
<1>11. FrameInv'
  BY <1>1, <1>2, <1>5, <1>6, CameraElapsed DEF FrameInv, Elapsed, Times
<1>12. SpanInv'
  BY <1>2, <1>3 DEF SpanInv, Holds, tracking
<1>13. EditorInv'
  BY <1>2, <1>3 DEF EditorInv
<1>14. QED
  BY <1>7, <1>8, <1>9, <1>10, <1>11, <1>12, <1>13

LEMMA ClearStartPatient ==
    ASSUME CameraInv, PatientInv, ClearStart
    PROVE  PatientInv'
<1> USE DEF CameraInv, PatientInv
<1>1. HandlerInv' /\ CatalogueInv' /\ EditorInv'
  BY HandlerKept, CatalogueKept, EditorKept
     DEF ClearStart, elsewhere, app, recording, storage, completions, tracking
<1>2. TapInv'
  BY ConstantsAssumption DEF ClearStart, elsewhere, completions, TapInv, Closing
<1>3. OnceInv'
  BY ConstantsAssumption DEF ClearStart, elsewhere, app, recording, completions, OnceInv,
                             Closing, Used
<1>4. FrameInv'
  BY FrameKept DEF ClearStart, elsewhere, app, recording, storage, Opening
<1>5. SpanInv'
  BY ConstantsAssumption DEF ClearStart, elsewhere, tracking, SpanInv, Opening, Holds
<1>6. QED
  BY <1>1, <1>2, <1>3, <1>4, <1>5

LEMMA ClearDonePatient ==
    ASSUME CameraInv, PatientInv, ClearDone
    PROVE  PatientInv'
<1> USE DEF CameraInv, PatientInv
<1>1. HandlerInv' /\ CatalogueInv' /\ EditorInv'
  BY HandlerKept, CatalogueKept, EditorKept
     DEF ClearDone, elsewhere, app, storage, completions, tracking
<1>2. TapInv'
  BY ConstantsAssumption DEF ClearDone, elsewhere, completions, TapInv, Closing
<1>3. OnceInv'
  BY OnceKept DEF ClearDone, elsewhere, app, completions, TapInv, Closing, FlagType
<1>4. FrameInv'
  <2>1. Elapsed' = 0 /\ queue = "clearDone" /\ UNCHANGED <<length, disk, currentFilename>>
    BY DEF ClearDone, Elapsed, RecordingType, Times, elsewhere, storage
  <2>2. QED
    BY <2>1 DEF FrameInv, Opening, Used
<1>5. SpanInv'
  BY ConstantsAssumption DEF ClearDone, elsewhere, tracking, SpanInv, Opening, Holds
<1>6. QED
  BY <1>1, <1>2, <1>3, <1>4, <1>5

LEMMA TestRecordingPatient ==
    ASSUME CameraInv, PatientInv, TestRecording
    PROVE  PatientInv'
<1> USE DEF CameraInv, PatientInv
<1>1. TapInv' /\ OnceInv' /\ SpanInv' /\ EditorInv'
  BY TapKept, OnceKept, SpanKept, EditorKept
     DEF TestRecording, elsewhere, app, flags, recording, completions, tracking, Opening,
         Holds
<1>2. CASE length' = length
  BY <1>1, <1>2, HandlerKept, CatalogueKept, FrameKept
     DEF TestRecording, elsewhere, flags, recording, completions, Opening
<1>3. CASE isRecording /\ MayBeReady
           /\ length' = [length EXCEPT ![currentFilename] = Elapsed]
  <2>1. /\ UNCHANGED <<main, isDoneRecording, disk, catalogue, completion, loaded>>
        /\ UNCHANGED <<editQueue, time, startTimestamp, currentFilename, videoURL>>
        /\ queue' = "vision"
    BY <1>3 DEF TestRecording, elsewhere, flags, recording, completions
  <2>2. \A g \in Files : completion[g] = "none"
    BY <1>3, NoHandler
  <2>3. /\ currentFilename \in Files /\ catalogue[currentFilename] = None
        /\ disk[currentFilename] # "absent" /\ ~isDoneRecording /\ main # "stopping"
    BY <1>3, <2>2, NoHandler DEF CatalogueInv, WriterHasFile, TapInv, Closing
  <2>4. \A g \in Files : length'[g] = IF g = currentFilename THEN Elapsed ELSE length[g]
    BY <1>3, <2>3 DEF StorageType
  <2>5. HandlerInv'
    BY <2>1, <2>2, <2>3 DEF HandlerInv
  <2>6. CatalogueInv'
    BY <2>1, <2>2, <2>3, <2>4 DEF CatalogueInv
  <2>7. FrameInv'
    <3>1. \A g \in Files : disk'[g] = "absent" => length'[g] = 0
      BY <2>1, <2>3, <2>4 DEF FrameInv
    <3>2. length'[currentFilename'] <= Elapsed' /\ ~Opening'
      BY <2>1, <2>3, <2>4, CameraElapsed DEF Elapsed, Times, Opening
    <3>3. QED
      BY <3>1, <3>2 DEF FrameInv
  <2>8. QED
    BY <1>1, <2>5, <2>6, <2>7
<1>4. QED
  BY <1>2, <1>3 DEF TestRecording, Append

LEMMA FinishRecordingPatient ==
    ASSUME CameraInv, PatientInv, FinishRecording
    PROVE  PatientInv'
<1> USE DEF CameraInv, PatientInv
<1>1. /\ isDoneRecording /\ queue = "testDone" /\ Used /\ currentFilename \in Files
      /\ \A f \in Files : completion[f] = "none"
  BY NoHandler DEF FinishRecording, MayBeReady, Used
<1>2. /\ ~isStartRecording /\ ~isRecording /\ main # "starting"
      /\ screen \notin {"launch", "menu"}
  BY <1>1 DEF TapInv, Closing, OnceInv
<1>3. completion' = [completion EXCEPT ![currentFilename] = "finishing"]
  BY DEF FinishRecording
<1>4. /\ UNCHANGED <<main, running, screen, alert, handed, tracking, storage>>
      /\ UNCHANGED <<isStartRecording, time, startTimestamp, currentFilename>>
      /\ UNCHANGED <<loaded, editQueue>>
      /\ ~isRecording' /\ ~isDoneRecording' /\ queue' = "vision"
      /\ videoURL' = currentFilename
  BY DEF FinishRecording, elsewhere, app
<1>5. /\ completion'[currentFilename] = "finishing"
      /\ \A f \in Files : f # currentFilename => completion'[f] = "none"
  BY <1>1, <1>3 DEF CompletionType
<1>6. TapInv'
  BY <1>2, <1>4 DEF TapInv, Opening
<1>7. OnceInv'
  BY <1>1, <1>2, <1>4, <1>5 DEF OnceInv, Closing, Used
<1>8. HandlerInv'
  <2>1. editQueue = {} /\ length[currentFilename] > 0
    BY <1>1 DEF HandlerInv, CompletionType
  <2>2. main # "stopping"
    BY <1>1 DEF TapInv
  <2>3. QED
    BY <1>4, <1>5, <2>1, <2>2 DEF HandlerInv, storage
<1>9. CatalogueInv'
  BY <1>1, <1>4, <1>5 DEF CatalogueInv, storage
<1>10. FrameInv'
  BY <1>4, FrameKept DEF Opening, storage
<1>11. SpanInv'
  BY <1>2, <1>1, <1>4, <1>5 DEF SpanInv, Holds, Used, Opening, Elapsed, tracking
<1>12. EditorInv'
  BY <1>1, <1>4 DEF EditorInv
<1>13. QED
  BY <1>6, <1>7, <1>8, <1>9, <1>10, <1>11, <1>12

LEMMA SkipFinishPatient ==
    ASSUME CameraInv, PatientInv, SkipFinish
    PROVE  PatientInv'
<1> USE DEF CameraInv, PatientInv
<1>1. TapInv' /\ OnceInv' /\ HandlerInv' /\ CatalogueInv' /\ FrameInv' /\ SpanInv' /\ EditorInv'
  BY TapKept, OnceKept, HandlerKept, CatalogueKept, FrameKept, SpanKept, EditorKept
     DEF SkipFinish, elsewhere, app, flags, recording, storage, completions, tracking,
         Opening, Holds
<1>2. QED
  BY <1>1

\* What a frame may do to the tracking while a recording is made, and that it does
\* nothing when none is.
SpansGrow ==
    /\ Holds' => isRecording
    /\ \/ startDetectTimestamp' = startDetectTimestamp
       \/ isRecording /\ startDetectTimestamp' = Elapsed
    /\ \/ allDetectedTimestamps' = allDetectedTimestamps
       \/ isRecording /\ ~NilStart /\ allDetectedTimestamps' = WithSpan

LEMMA HandlerSpans ==
    ASSUME SpanInv, NEW s, HandleGestureStateChange(s)
    PROVE  SpansGrow
<1> USE DEF SpansGrow, SpanInv, Holds
<1>1. CASE UNCHANGED tracking
  BY <1>1 DEF tracking
<1>2. CASE PalmPossible
  BY <1>2 DEF PalmPossible
<1>3. CASE StartTimer
  BY <1>3 DEF StartTimer
<1>4. CASE HoldPalm
  BY <1>4 DEF HoldPalm, BeginHold, BeginDetect, KeepHold
<1>5. CASE FailHold
  BY <1>5 DEF FailHold
<1>6. CASE ~Traps(s) /\ hasStartedTimer /\ isRecording /\ EndSpan
  BY <1>6 DEF EndSpan, Traps
<1>7. QED
  BY <1>1, <1>2, <1>3, <1>4, <1>5, <1>6
     DEF HandleGestureStateChange, PalmSeen, PalmLost

LEMMA AbortSpans ==
    ASSUME SpanInv, AbortTracking
    PROVE  SpansGrow
  BY DEF SpansGrow, SpanInv, AbortTracking, Holds, tracking

\* A frame's spans lie within the recording's clock, and none is added once a
\* completion handler has read it.
LEMMA SpansGrown ==
    ASSUME CameraInv, PatientInv, SpansGrow, ScreenKeptOrCrashed, ~Opening, ~Opening',
           UNCHANGED <<flags, time, recording, storage, completions, handed>>
    PROVE  SpanInv' /\ EditorInv'
<1> USE DEF CameraInv, PatientInv
<1>1. /\ UNCHANGED <<isRecording, time, startTimestamp, currentFilename, catalogue>>
      /\ UNCHANGED <<completion, loaded, handed>>
  BY DEF flags, recording, storage, completions
<1>2. Elapsed' = Elapsed /\ Elapsed \in Nat /\ Elapsed <= Elapsed
  BY <1>1, CameraElapsed DEF Elapsed, Times
<1>3. isRecording => Used /\ \A f \in Files : completion[f] = "none"
  BY NoHandler
<1>4. \A s \in allDetectedTimestamps' \ allDetectedTimestamps :
        /\ isRecording /\ s = <<startDetectTimestamp, Elapsed>>
        /\ startDetectTimestamp # None
  BY DEF SpansGrow, WithSpan, NilStart
<1>5. allDetectedTimestamps \subseteq allDetectedTimestamps'
  BY DEF SpansGrow, WithSpan
<1>6. Holds' => isRecording'
  BY <1>1 DEF SpansGrow
<1>7. startDetectTimestamp' # None =>
        Used /\ startDetectTimestamp' <= Elapsed
  BY <1>2, <1>3 DEF SpansGrow, SpanInv
<1>8. allDetectedTimestamps' # {} => Used
  BY <1>3, <1>4 DEF SpanInv
<1>9. ASSUME NEW s \in allDetectedTimestamps'
      PROVE  /\ s[1] <= s[2] /\ s[2] <= Elapsed
             /\ \A f \in Files :
                   /\ completion[f] = "loaded" => s[2] <= loaded[f].duration
                   /\ completion[f] = "stored" => s[2] <= catalogue[f]
  <2>1. CASE s \in allDetectedTimestamps
    BY <2>1 DEF SpanInv
  <2>2. CASE s \notin allDetectedTimestamps
    BY <1>2, <1>3, <1>4, <2>2 DEF SpanInv
  <2>3. QED
    BY <2>1, <2>2
<1>10. SpanInv'
  BY <1>1, <1>2, <1>6, <1>7, <1>8, <1>9 DEF SpanInv, Used
<1>11. EditorInv'
  BY <1>1, <1>5, EditorKept DEF ScreenKeptOrCrashed
<1>12. QED
  BY <1>10, <1>11

LEMMA VisionPatient ==
    ASSUME CameraInv, PatientInv, NEW o, Vision(o)
    PROVE  PatientInv'
<1> USE DEF CameraInv, PatientInv
<1>1. TapInv' /\ HandlerInv' /\ CatalogueInv' /\ FrameInv'
  BY TapKept, HandlerKept, CatalogueKept, FrameKept
     DEF Vision, flags, recording, storage, completions, Opening
<1>2. OnceInv'
  <2>1. screen' \in {screen, "crashed"}
    BY VisionTracks DEF ScreenKeptOrCrashed
  <2>2. running' => running
    BY DEF Vision
  <2>3. alert' = "none" \/ alert # "none" \/ ~running'
    BY DEF Vision
  <2>4. UNCHANGED <<main, flags, recording, completions>> /\ queue = "vision"
    BY DEF Vision
  <2>5. QED
    BY <2>1, <2>2, <2>3, <2>4, OnceKept DEF flags, recording, completions
<1>3. SpansGrow
  <2>1. CASE o = "partial"
    BY <2>1, AbortSpans DEF Vision
  <2>2. CASE UNCHANGED tracking
    BY <2>2 DEF SpansGrow, SpanInv, Holds, tracking
  <2>3. QED
    BY <2>1, <2>2 DEF Vision
<1>4. SpanInv' /\ EditorInv'
  BY <1>3, SpansGrown, VisionTracks DEF Vision, Opening
<1>5. QED
  BY <1>1, <1>2, <1>4

LEMMA DeliverPatient ==
    ASSUME CameraInv, PatientInv, Deliver
    PROVE  PatientInv'
<1> USE DEF CameraInv, PatientInv
<1>1. TapInv' /\ OnceInv' /\ HandlerInv' /\ CatalogueInv' /\ FrameInv'
  BY TapKept, OnceKept, HandlerKept, CatalogueKept, FrameKept, DeliverTracks
     DEF Deliver, flags, recording, storage, completions, Opening, ScreenKeptOrCrashed
<1>2. SpansGrow
  <2>1. CASE \E s : HandleGestureStateChange(s)
    BY <2>1, HandlerSpans
  <2>2. CASE UNCHANGED tracking
    BY <2>2 DEF SpansGrow, SpanInv, Holds, tracking
  <2>3. QED
    BY <2>1, <2>2 DEF Deliver
<1>3. SpanInv' /\ EditorInv'
  BY <1>2, SpansGrown, DeliverTracks DEF Deliver, Opening
<1>4. QED
  BY <1>1, <1>3

LEMMA CompletionLoadPatient ==
    ASSUME CameraInv, PatientInv, Patient, NEW f \in Files, CompletionLoad(f)
    PROVE  PatientInv'
<1> USE DEF CameraInv, PatientInv
<1>1. completion[f] = "finishing" /\ f = currentFilename /\ f = videoURL
  BY DEF CompletionLoad, HandlerInv
<1>2. /\ UNCHANGED <<main, running, screen, alert, handed, tracking, flags, queue>>
      /\ UNCHANGED <<time, startTimestamp, currentFilename, videoURL>>
      /\ UNCHANGED <<length, catalogue, editQueue>>
  BY DEF CompletionLoad, elsewhere, app, recording
<1>3. /\ completion' = [completion EXCEPT ![f] = "loaded"]
      /\ loaded' = [loaded EXCEPT ![f] = [lessons |-> catalogue, duration |-> Elapsed]]
      /\ disk' = [disk EXCEPT ![f] = "movie"]
  BY <1>1 DEF CompletionLoad, MovieWritten, Patient, HandlerInv, StorageType, Times
<1>4. /\ completion'[f] = "loaded"
      /\ \A g \in Files : g # f => completion'[g] = "none" /\ completion[g] = "none"
  BY <1>1, <1>3 DEF CompletionType, HandlerInv
<1>5. loaded'[f].lessons = catalogue /\ loaded'[f].duration = Elapsed
  BY <1>3 DEF CompletionType
<1>6. disk'[f] = "movie" /\ \A g \in Files : g # f => disk'[g] = disk[g]
  BY <1>3 DEF StorageType
<1>7. Closing /\ Closing' /\ ~isRecording /\ ~isDoneRecording /\ main # "stopping"
  <2>1. Closing /\ Closing'
    BY <1>1, <1>4 DEF Closing
  <2>2. ~isRecording /\ ~isDoneRecording /\ main # "stopping"
    BY <1>1, NoHandler
  <2>3. QED
    BY <2>1, <2>2
<1>8. TapInv'
  BY <1>2, <1>7 DEF TapInv, Opening, Used, flags
<1>9. OnceInv'
  BY <1>2, <1>7 DEF OnceInv, Used, flags
<1>10. HandlerInv'
  BY <1>1, <1>2, <1>4, <1>6, <1>7 DEF HandlerInv, CompletionType, flags
<1>11. CatalogueInv'
  <2>1. length[f] <= Elapsed
    BY <1>1, NoHandler, ConstantsAssumption DEF FrameInv, Used
  <2>2. \A g \in Files : catalogue[g] # None => disk'[g] = "movie"
    BY <1>6 DEF CatalogueInv
  <2>3. QED
    BY <1>1, <1>2, <1>4, <1>5, <2>1, <2>2 DEF CatalogueInv
<1>12. FrameInv'
  BY <1>2, <1>6 DEF FrameInv, Opening, Used, Elapsed
<1>13. SpanInv'
  <2>1. Elapsed' = Elapsed
    BY <1>2 DEF Elapsed
  <2>2. UNCHANGED <<isHolding, isDetecting, startDetectTimestamp, allDetectedTimestamps>>
    BY <1>2 DEF tracking
  <2>3. \A s \in allDetectedTimestamps, g \in Files :
          /\ completion'[g] = "loaded" => s[2] <= loaded'[g].duration
          /\ completion'[g] # "stored"
    BY <1>4, <1>5 DEF SpanInv
  <2>4. QED
    BY <1>2, <2>1, <2>2, <2>3 DEF SpanInv, Holds, Used, Opening, flags
<1>14. EditorInv'
  BY <1>1, <1>2 DEF EditorInv
<1>15. QED
  BY <1>8, <1>9, <1>10, <1>11, <1>12, <1>13, <1>14

LEMMA CompletionStorePatient ==
    ASSUME CameraInv, PatientInv, NEW f \in Files, CompletionStore(f)
    PROVE  PatientInv'
<1> USE DEF CameraInv, PatientInv
<1>1. completion[f] = "loaded" /\ f = currentFilename /\ f = videoURL
  BY DEF CompletionStore, HandlerInv
<1>2. /\ UNCHANGED <<main, running, screen, alert, handed, tracking, flags, queue>>
      /\ UNCHANGED <<time, startTimestamp, currentFilename, videoURL, disk, length>>
  BY DEF CompletionStore, elsewhere, app, recording
<1>3. catalogue' = [catalogue EXCEPT ![f] = loaded[f].duration]
  BY <1>1 DEF CompletionStore, WithLesson, CatalogueInv
<1>4. /\ completion'[f] = "stored" /\ editQueue' = editQueue \cup {f}
      /\ \A g \in Files : g # f => completion'[g] = "none" /\ completion[g] = "none"
  BY <1>1 DEF CompletionStore, CompletionType, HandlerInv
<1>5. /\ catalogue'[f] = loaded[f].duration /\ loaded[f].duration # None
      /\ \A g \in Files : g # f => catalogue'[g] = catalogue[g]
  BY <1>3, ConstantsAssumption DEF StorageType, CompletionType, Lessons, Times
<1>6. Closing /\ Closing' /\ ~isRecording /\ ~isDoneRecording /\ main # "stopping"
  <2>1. Closing /\ Closing'
    BY <1>1, <1>4 DEF Closing
  <2>2. ~isRecording /\ ~isDoneRecording /\ main # "stopping"
    BY <1>1, NoHandler
  <2>3. QED
    BY <2>1, <2>2
<1>7. TapInv'
  BY <1>2, <1>6 DEF TapInv, Opening, Used, flags
<1>8. OnceInv'
  BY <1>2, <1>6 DEF OnceInv, Used, flags
<1>9. HandlerInv'
  BY <1>1, <1>2, <1>4, <1>6 DEF HandlerInv, CompletionType, flags
<1>10. CatalogueInv'
  <2>1. disk[f] = "movie" /\ length[f] <= loaded[f].duration
    BY <1>1 DEF HandlerInv, CatalogueInv
  <2>2. QED
    BY <1>1, <1>2, <1>4, <1>5, <2>1 DEF CatalogueInv
<1>11. FrameInv'
  BY <1>2, FrameKept DEF Opening
<1>12. SpanInv'
  <2>1. Elapsed' = Elapsed
    BY <1>2 DEF Elapsed
  <2>2. UNCHANGED <<isHolding, isDetecting, startDetectTimestamp, allDetectedTimestamps>>
    BY <1>2 DEF tracking
  <2>3. \A s \in allDetectedTimestamps, g \in Files :
          /\ completion'[g] # "loaded"
          /\ completion'[g] = "stored" => s[2] <= catalogue'[g]
    BY <1>1, <1>4, <1>5 DEF SpanInv
  <2>4. QED
    BY <1>2, <2>1, <2>2, <2>3 DEF SpanInv, Holds, Used, Opening, flags
<1>13. EditorInv'
  BY <1>1, <1>2 DEF EditorInv
<1>14. QED
  BY <1>7, <1>8, <1>9, <1>10, <1>11, <1>12, <1>13

LEMMA MoveToEditPatient ==
    ASSUME CameraInv, PatientInv, NEW f \in Files, MoveToEdit(f)
    PROVE  PatientInv'
<1> USE DEF CameraInv, PatientInv
<1>1. CatalogueInv' /\ FrameInv' /\ SpanInv'
  BY CatalogueKept, FrameKept, SpanKept
     DEF MoveToEdit, flags, recording, storage, tracking, Opening, Holds
<1>2. TapInv'
  BY ConstantsAssumption DEF MoveToEdit, flags, TapInv, Opening, Closing
<1>3. OnceInv'
  <2>1. Closing /\ main = "idle" /\ ~isStartRecording /\ screen \notin {"launch", "menu"}
    BY NoHandler DEF MoveToEdit, Closing, TapInv, OnceInv, HandlerInv
  <2>2. UNCHANGED <<currentFilename, running, isStartRecording, main, queue, alert>>
    BY DEF MoveToEdit, flags, recording
  <2>3. CASE screen' = "edit"
    BY <2>1, <2>2, <2>3 DEF OnceInv
  <2>4. CASE ~CanPresent /\ screen' = screen
    BY <2>1, <2>2, <2>4 DEF OnceInv, CanPresent
  <2>5. QED
    BY <2>3, <2>4 DEF MoveToEdit
<1>4. HandlerInv'
  BY ConstantsAssumption DEF MoveToEdit, flags, recording, storage, HandlerInv
<1>5. EditorInv'
  <2>1. Used /\ videoURL = currentFilename /\ completion[currentFilename] = "stored"
    BY ConstantsAssumption DEF MoveToEdit, HandlerInv, Used
  <2>2. UNCHANGED <<currentFilename, completion, allDetectedTimestamps>>
    BY DEF MoveToEdit, recording, tracking
  <2>3. CASE screen' = "edit" /\ handed' = Handover
    BY <2>1, <2>2, <2>3 DEF EditorInv, Handover, Used
  <2>4. CASE UNCHANGED <<screen, handed>>
    BY <2>2, <2>4 DEF EditorInv, Used
  <2>5. QED
    BY <2>3, <2>4 DEF MoveToEdit
<1>6. QED
  BY <1>1, <1>2, <1>3, <1>4, <1>5

LEMMA LeaveCameraPatient ==
    ASSUME CameraInv, PatientInv, LeaveCamera
    PROVE  PatientInv'
<1> USE DEF CameraInv, PatientInv
<1>1. TapInv' /\ HandlerInv' /\ CatalogueInv' /\ FrameInv' /\ SpanInv' /\ EditorInv'
  BY TapKept, HandlerKept, CatalogueKept, FrameKept, SpanKept, EditorKept
     DEF LeaveCamera, app, flags, recording, storage, completions, tracking, Opening, Holds
<1>2. OnceInv'
  BY ConstantsAssumption DEF LeaveCamera, app, flags, OnceInv
<1>3. QED
  BY <1>1, <1>2

LEMMA ShowAlertPatient ==
    ASSUME CameraInv, PatientInv, ShowAlert
    PROVE  PatientInv'
<1> USE DEF CameraInv, PatientInv
<1>1. TapInv' /\ OnceInv' /\ HandlerInv' /\ CatalogueInv' /\ FrameInv' /\ SpanInv' /\ EditorInv'
  BY TapKept, OnceKept, HandlerKept, CatalogueKept, FrameKept, SpanKept, EditorKept
     DEF ShowAlert, flags, recording, storage, completions, tracking, Opening, Holds
<1>2. QED
  BY <1>1

LEMMA DismissAlertPatient ==
    ASSUME CameraInv, PatientInv, DismissAlert
    PROVE  PatientInv'
<1> USE DEF CameraInv, PatientInv
<1>1. TapInv' /\ OnceInv' /\ HandlerInv' /\ CatalogueInv' /\ FrameInv' /\ SpanInv' /\ EditorInv'
  BY TapKept, OnceKept, HandlerKept, CatalogueKept, FrameKept, SpanKept, EditorKept
     DEF DismissAlert, flags, recording, storage, completions, tracking, Opening, Holds
<1>2. QED
  BY <1>1
\* A relaunch at any moment: the storage keeps its promises without the recording.
LEMMA RelaunchPatient ==
    ASSUME CameraInv, PatientInv, Relaunch
    PROVE  PatientInv'
<1> USE ConstantsAssumption DEF CameraInv, PatientInv, Relaunch
<1>1. currentFilename' = None /\ editQueue' = {} /\ \A f \in Files : completion'[f] = "none"
  OBVIOUS
<1>2. TapInv' /\ OnceInv'
  BY DEF TapInv, OnceInv, Opening, Closing, Used
<1>3. HandlerInv'
  BY <1>1 DEF HandlerInv
<1>4. CatalogueInv'
  BY <1>1 DEF CatalogueInv, storage
<1>5. FrameInv'
  BY <1>1 DEF FrameInv, Opening, Used, storage
<1>6. SpanInv'
  BY <1>1 DEF SpanInv, Holds
<1>7. EditorInv'
  BY DEF EditorInv
<1>8. QED
  BY <1>2, <1>3, <1>4, <1>5, <1>6, <1>7

LEMMA StutterPatient ==
    ASSUME CameraInv, PatientInv, UNCHANGED vars
    PROVE  PatientInv'
<1> USE DEF CameraInv, PatientInv, vars, app, flags, recording, storage, completions,
            tracking
<1>1. TapInv' /\ OnceInv' /\ HandlerInv' /\ CatalogueInv'
  BY TapKept, OnceKept, HandlerKept, CatalogueKept
<1>2. FrameInv' /\ SpanInv' /\ EditorInv'
  BY FrameKept, SpanKept, EditorKept DEF Opening, Holds
<1>3. QED
  BY <1>1, <1>2

LEMMA PatientNext ==
    ASSUME Patient
    PROVE  CameraInv /\ PatientInv /\ [Next]_vars => PatientInv'
<1> SUFFICES ASSUME CameraInv, PatientInv, [Next]_vars PROVE PatientInv'
  OBVIOUS
<1>1. CASE User
  BY <1>1, RelaunchPatient, OnNewLessonClickPatient, HandleRecordPatient,
     DismissAlertPatient DEF User
<1>2. CASE MainThread
  BY <1>2, ShowMenuPatient, StartRecordingPatient, StopRecordingPatient,
     UpdateTimerPatient, LeaveCameraPatient, ShowAlertPatient DEF MainThread
<1>3. CASE CaptureOutput
  BY <1>3, FrameArrivesPatient, OpenWriterPatient, ClearStartPatient, ClearDonePatient,
     TestRecordingPatient, FinishRecordingPatient, SkipFinishPatient, VisionPatient,
     DeliverPatient DEF CaptureOutput
<1>4. CASE Completion
  BY <1>4, CompletionLoadPatient, CompletionStorePatient, MoveToEditPatient
     DEF Completion
<1>5. CASE UNCHANGED vars
  BY <1>5, StutterPatient
<1>6. QED
  BY <1>1, <1>2, <1>3, <1>4, <1>5 DEF Next

-----------------------------------------------------------------------------
(***************************************************************************)
(* The theorems about states.                                              *)
(***************************************************************************)
\* The inductive invariant: between two launches one recording at most is opened,
\* closed and handed over, whatever the order of the steps of the threads.
THEOREM PatientInvariant ==
    ASSUME Patient
    PROVE  Spec => [](CameraInv /\ PatientInv)
<1>1. Init => CameraInv /\ PatientInv
  BY CameraInvInit, PatientInit
<1>2. CameraInv /\ PatientInv /\ [Next]_vars => (CameraInv /\ PatientInv)'
  BY CameraInvNext, PatientNext
<1>3. QED
  BY <1>1, <1>2, PTL DEF Spec

\* Photo.allPhotos never unwraps a missing thumbnail: every catalogued lesson is a
\* playable movie, across relaunches at any moment.
THEOREM CatalogueIsPlayable ==
    ASSUME Patient
    PROVE  Spec => []CatalogueNamesMovies
<1>1. PatientInv => CatalogueNamesMovies
  BY DEF PatientInv, CatalogueInv, CatalogueNamesMovies, Thumbnails
<1>2. QED
  BY <1>1, PatientInvariant, PTL

\* The Duration that the completion handler enters in the catalogue covers every
\* frame the camera queue appended to the movie.
THEOREM DurationIsLongEnough ==
    ASSUME Patient
    PROVE  Spec => []DurationCoversMovie
<1>1. PatientInv => DurationCoversMovie
  BY DEF PatientInv, CatalogueInv, DurationCoversMovie
<1>2. QED
  BY <1>1, PatientInvariant, PTL

\* handleMoveToEdit gives the editor the movie just finished.
THEOREM EditorGetsMovie ==
    ASSUME Patient
    PROVE  Spec => []EditorHasMovie
<1>1. CameraInv /\ PatientInv => EditorHasMovie
  BY NoHandler DEF PatientInv, EditorInv, HandlerInv, EditorHasMovie, Used
<1>2. QED
  BY <1>1, PatientInvariant, PTL

\* Every span ends no earlier than it starts, on the clock of the one recording.
THEOREM SpansAreOrdered ==
    ASSUME Patient
    PROVE  Spec => []SpansOrdered
<1>1. PatientInv => SpansOrdered
  BY DEF PatientInv, SpanInv, SpansOrdered
<1>2. QED
  BY <1>1, PatientInvariant, PTL

\* The spans given to the editor are ordered and end within the lesson's Duration.
THEOREM EditorSpansFitLesson ==
    ASSUME Patient
    PROVE  Spec => []SpansWithinLesson
<1>1. CameraInv /\ PatientInv => SpansWithinLesson
  <2> SUFFICES ASSUME CameraInv, PatientInv, handed # None, NEW s \in handed.spans
               PROVE  /\ s[1] <= s[2]
                      /\ catalogue[handed.url] # None /\ s[2] <= catalogue[handed.url]
    BY DEF SpansWithinLesson
  <2>1. /\ Used /\ handed.url = currentFilename /\ currentFilename \in Files
        /\ completion[currentFilename] = "stored" /\ s \in allDetectedTimestamps
    BY NoHandler DEF PatientInv, EditorInv
  <2>2. QED
    BY <2>1 DEF PatientInv, SpanInv, CatalogueInv
<1>2. QED
  BY <1>1, PatientInvariant, PTL

-----------------------------------------------------------------------------
(***************************************************************************)
(* The theorems about steps: the catalogue and the abstract library.       *)
(***************************************************************************)
\* What the library sees of the controller.
seen == <<catalogue, completion, disk, currentFilename, editQueue, handed>>

\* All other steps are silent: taps, frames, the timer, Vision, alerts.
LEMMA SilentSteps ==
    ASSUME [Next]_vars
    PROVE  \/ UNCHANGED seen
           \/ OpenWriter \/ FinishRecording \/ Relaunch
           \/ \E f \in Files : CompletionLoad(f) \/ CompletionStore(f) \/ MoveToEdit(f)
<1> USE DEF seen, elsewhere, app, recording, storage, completions
<1>1. CASE User
  BY <1>1 DEF User, OnNewLessonClick, HandleRecord, DismissAlert
<1>2. CASE MainThread
  BY <1>2 DEF MainThread, ShowMenu, StartRecording, StopRecording, UpdateTimer,
              LeaveCamera, ShowAlert
<1>3. CASE CaptureOutput
  <2>1. ASSUME NEW o, Vision(o) PROVE UNCHANGED seen
    BY <2>1 DEF Vision
  <2>2. Deliver => UNCHANGED seen
    BY DEF Deliver
  <2>3. FrameArrives \/ ClearStart \/ ClearDone \/ TestRecording \/ SkipFinish
          => UNCHANGED seen
    BY DEF FrameArrives, ClearStart, ClearDone, TestRecording, SkipFinish
  <2>4. QED
    BY <1>3, <2>1, <2>2, <2>3 DEF CaptureOutput
<1>4. CASE Completion
  BY <1>4 DEF Completion
<1>5. CASE UNCHANGED vars
  BY <1>5 DEF vars
<1>6. QED
  BY <1>1, <1>2, <1>3, <1>4, <1>5 DEF Next

\* CompletionStore writes back its copy, which is the catalogue, with one new entry.
LEMMA StoreAdds ==
    ASSUME CameraInv, PatientInv, NEW f \in Files, CompletionStore(f)
    PROVE  /\ f = currentFilename /\ catalogue[f] = None /\ catalogue'[f] # None
           /\ \A g \in Files : g # f => catalogue'[g] = catalogue[g]
<1> USE DEF CameraInv, PatientInv
<1>1. completion[f] = "loaded" /\ f = currentFilename /\ loaded[f].lessons = catalogue
  BY DEF CompletionStore, HandlerInv, CatalogueInv
<1>2. catalogue[f] = None
  BY <1>1 DEF CatalogueInv
<1>3. catalogue' = [catalogue EXCEPT ![f] = loaded[f].duration]
  BY <1>1 DEF CompletionStore, WithLesson
<1>4. loaded[f].duration # None
  BY ConstantsAssumption DEF CompletionType, Times
<1>5. QED
  BY <1>1, <1>2, <1>3, <1>4 DEF StorageType, Lessons

\* No step of the controller changes or loses an entry of the catalogue: the
\* completion handler's read and write of the whole dictionary have no other writer
\* between them.
THEOREM CatalogueIsKept ==
    ASSUME Patient
    PROVE  Spec => CatalogueKeeps
<1> DEFINE Kept == \A f \in Files : catalogue[f] # None => catalogue'[f] = catalogue[f]
<1>1. CameraInv /\ PatientInv /\ [Next]_vars => Kept
  <2> SUFFICES ASSUME CameraInv, PatientInv, [Next]_vars PROVE Kept
    OBVIOUS
  <2>1. CASE UNCHANGED seen
    BY <2>1 DEF seen
  <2>2. CASE OpenWriter \/ FinishRecording \/ Relaunch
    BY <2>2 DEF OpenWriter, FinishRecording, Relaunch, storage
  <2>3. CASE \E f \in Files : CompletionLoad(f) \/ MoveToEdit(f)
    BY <2>3 DEF CompletionLoad, MoveToEdit, storage
  <2>4. CASE \E f \in Files : CompletionStore(f)
    BY <2>4, StoreAdds
  <2>5. QED
    BY <2>1, <2>2, <2>3, <2>4, SilentSteps
<1>2. QED
  BY <1>1, PatientInvariant, PTL DEF Spec, CatalogueKeeps

-----------------------------------------------------------------------------
\* Where a lesson is in its life, before and after a step.
LifeOf(f, l) ==
    /\ catalogue[f] # None => l = "listed"
    /\ catalogue[f] = None /\ disk[f] = "absent" /\ completion[f] = "none" => l = "new"
    /\ catalogue[f] = None /\ disk[f] # "absent" =>
          /\ completion[f] # "none" => l = "stopped"
          /\ completion[f] = "none" => l = IF currentFilename = f THEN "recording" ELSE "lost"

LEMMA LifeIs ==
    /\ Life = [f \in Files |-> Life[f]] /\ Life' = [f \in Files |-> Life'[f]]
    /\ \A f \in Files : LifeOf(f, Life[f]) /\ LifeOf(f, Life[f])'
<1>1. Life = [f \in Files |-> Life[f]]
  BY DEF Life
<1>2. Life' = [f \in Files |-> Life'[f]]
  BY DEF Life
<1>3. ASSUME NEW f \in Files PROVE LifeOf(f, Life[f])
  BY <1>3 DEF Life, LifeOf
<1>4. ASSUME NEW f \in Files PROVE LifeOf(f, Life[f])'
  BY <1>4 DEF Life, LifeOf
<1>5. QED
  BY <1>1, <1>2, <1>3, <1>4

\* The map of a function whose value changes in one place.
LEMMA LifeChanges ==
    ASSUME NEW f \in Files, NEW l, Life'[f] = l,
           \A g \in Files : g # f => Life'[g] = Life[g]
    PROVE  Life' = [Life EXCEPT ![f] = l]
  BY LifeIs

LEMMA SilentForLibrary ==
    ASSUME UNCHANGED seen
    PROVE  UNCHANGED Library!vars
  BY DEF seen, Library!vars, Life, Offered, Editing

\* Opening a writer records a new lesson.
LEMMA OpenWriterRecords ==
    ASSUME CameraInv, PatientInv, OpenWriter
    PROVE  \E f \in Files : Library!Record(f)
<1> USE DEF CameraInv, PatientInv
<1>1. PICK f \in Files : /\ disk[f] = "absent"
                         /\ disk' = [disk EXCEPT ![f] = "partial"]
                         /\ currentFilename' = f
  BY DEF OpenWriter
<1>2. /\ UNCHANGED <<catalogue, completion, editQueue, handed>>
      /\ ~Used /\ \A g \in Files : completion[g] = "none"
  BY NoHandler DEF OpenWriter, TapInv, elsewhere, app, completions
<1>3. editQueue = {} /\ handed = None
  BY <1>2 DEF HandlerInv, CompletionType, EditorInv
<1>4. Offered = None /\ Editing = None /\ UNCHANGED <<Offered, Editing>>
  BY <1>2, <1>3 DEF Offered, Editing
<1>5. catalogue[f] = None
  BY <1>1 DEF CatalogueInv
<1>6. Life[f] = "new" /\ \A g \in Files : Life[g] \in {"new", "listed", "lost"}
  <2>1. Life[f] = "new"
    BY <1>1, <1>2, <1>5, LifeIs DEF LifeOf
  <2>2. ASSUME NEW g \in Files PROVE Life[g] \in {"new", "listed", "lost"}
    <3>1. currentFilename # g /\ completion[g] = "none" /\ LifeOf(g, Life[g])
      BY <1>2, LifeIs, ConstantsAssumption DEF Used
    <3>2. QED
      BY <3>1 DEF LifeOf
  <2>3. QED
    BY <2>1, <2>2
<1>7. disk'[f] = "partial" /\ \A g \in Files : g # f => disk'[g] = disk[g]
  BY <1>1 DEF StorageType
<1>8. Life'[f] = "recording"
  BY <1>1, <1>2, <1>5, <1>7, LifeIs DEF LifeOf
<1>9. \A g \in Files : g # f => Life'[g] = Life[g]
  BY <1>1, <1>2, <1>7, LifeIs, ConstantsAssumption DEF LifeOf, Used
<1>10. Life' = [Life EXCEPT ![f] = "recording"]
  BY <1>8, <1>9, LifeChanges
<1>11. Library!Record(f)
  BY <1>4, <1>6, <1>10 DEF Library!Record, Library!Unlisted
<1>12. QED
  BY <1>11

\* A stop that reaches the camera queue stops the lesson being recorded.
LEMMA FinishRecordingStops ==
    ASSUME CameraInv, PatientInv, FinishRecording
    PROVE  \E f \in Files : Library!Stop(f)
<1> USE DEF CameraInv, PatientInv
<1> DEFINE f == currentFilename
<1>1. /\ f \in Files /\ completion[f] = "none" /\ catalogue[f] = None
      /\ disk[f] # "absent"
  BY NoHandler DEF FinishRecording, MayBeReady, Used, CatalogueInv, WriterHasFile
<1>2. UNCHANGED <<catalogue, disk, currentFilename, editQueue, handed>>
  BY DEF FinishRecording, elsewhere, app, storage
<1>3. completion' = [completion EXCEPT ![f] = "finishing"]
  BY DEF FinishRecording
<1>4. completion'[f] = "finishing" /\ \A g \in Files : g # f => completion'[g] = completion[g]
  BY <1>1, <1>3 DEF CompletionType
<1>5. Life[f] = "recording" /\ Life'[f] = "stopped"
  BY <1>1, <1>2, <1>4, LifeIs DEF LifeOf
<1>6. \A g \in Files : g # f => Life'[g] = Life[g]
  <2> SUFFICES ASSUME NEW g \in Files, g # f PROVE Life'[g] = Life[g]
    OBVIOUS
  <2>1. UNCHANGED <<catalogue, disk, currentFilename>> /\ completion'[g] = completion[g]
    BY <1>2, <1>4
  <2>2. QED
    BY <2>1 DEF Life
<1> HIDE DEF f
<1>7. Life' = [Life EXCEPT ![f] = "stopped"]
  BY <1>1, <1>5, <1>6, LifeChanges
<1>8. UNCHANGED <<Offered, Editing>>
  BY <1>2 DEF Offered, Editing
<1>9. Library!Stop(f)
  BY <1>5, <1>7, <1>8 DEF Library!Stop
<1>10. QED
  BY <1>1, <1>9

\* The completion handler's first half is silent, its second lists the lesson.
LEMMA CompletionLoadSilent ==
    ASSUME CameraInv, PatientInv, NEW f \in Files, CompletionLoad(f)
    PROVE  UNCHANGED Library!vars
<1> USE DEF CameraInv, PatientInv
<1>1. UNCHANGED <<catalogue, currentFilename, editQueue, handed>>
  BY DEF CompletionLoad, elsewhere, app, recording
<1>2. \A g \in Files : g # f => disk'[g] = disk[g] /\ completion'[g] = completion[g]
  BY DEF CompletionLoad, MovieWritten, StorageType, CompletionType
<1>3. completion[f] = "finishing" /\ completion'[f] = "loaded"
      /\ disk[f] # "absent" /\ disk'[f] # "absent"
  BY DEF CompletionLoad, MovieWritten, StorageType, CompletionType, WriterHasFile
<1>4. \A g \in Files : Life'[g] = Life[g]
  <2>1. ASSUME NEW g \in Files, g # f PROVE Life'[g] = Life[g]
    BY <1>1, <1>2, <2>1 DEF Life
  <2>2. Life'[f] = Life[f]
    BY <1>1, <1>3, LifeIs DEF LifeOf
  <2>3. QED
    BY <2>1, <2>2
<1>5. Life' = Life
  BY <1>4, LifeIs
<1>6. UNCHANGED <<Offered, Editing>>
  BY <1>1 DEF Offered, Editing
<1>7. QED
  BY <1>5, <1>6 DEF Library!vars

LEMMA CompletionStoreLists ==
    ASSUME CameraInv, PatientInv, NEW f \in Files, CompletionStore(f)
    PROVE  Library!List(f)
<1> USE DEF CameraInv, PatientInv
<1>1. /\ f = currentFilename /\ catalogue[f] = None /\ catalogue'[f] # None
      /\ \A g \in Files : g # f => catalogue'[g] = catalogue[g]
  BY StoreAdds
<1>2. UNCHANGED <<disk, currentFilename, handed>>
  BY DEF CompletionStore, elsewhere, app, recording
<1>3. /\ completion[f] = "loaded" /\ disk[f] # "absent"
      /\ \A g \in Files : g # f => completion'[g] = completion[g]
  BY DEF CompletionStore, CompletionType, WriterHasFile
<1>4. editQueue = {} /\ editQueue' = {f}
  <2>1. editQueue \subseteq {f} /\ f \notin editQueue
    BY <1>1, <1>3 DEF HandlerInv, CompletionType
  <2>2. QED
    BY <2>1 DEF CompletionStore
<1>5. Life[f] = "stopped" /\ Life'[f] = "listed"
  BY <1>1, <1>3, LifeIs DEF LifeOf
<1>6. \A g \in Files : g # f => Life'[g] = Life[g]
  <2> SUFFICES ASSUME NEW g \in Files, g # f PROVE Life'[g] = Life[g]
    OBVIOUS
  <2>1. UNCHANGED <<disk, currentFilename>> /\ completion'[g] = completion[g]
        /\ catalogue'[g] = catalogue[g]
    BY <1>1, <1>2, <1>3
  <2>2. QED
    BY <2>1 DEF Life
<1>7. Life' = [Life EXCEPT ![f] = "listed"]
  BY <1>5, <1>6, LifeChanges
<1>8. Offered' = f /\ Editing' = Editing
  BY <1>2, <1>4 DEF Offered, Editing
<1>9. QED
  BY <1>5, <1>7, <1>8 DEF Library!List

\* handleMoveToEdit takes the offer.
LEMMA MoveToEditOffers ==
    ASSUME CameraInv, PatientInv, NEW f \in Files, MoveToEdit(f)
    PROVE  Library!Offer
<1> USE DEF CameraInv, PatientInv
<1>1. UNCHANGED <<catalogue, completion, disk, currentFilename>>
  BY DEF MoveToEdit, recording, storage
<1>2. f = currentFilename /\ f = videoURL /\ f # None /\ f \in editQueue
  BY ConstantsAssumption DEF MoveToEdit, HandlerInv
<1>3. editQueue = {f} /\ editQueue' = {}
  <2>1. editQueue \subseteq {f}
    BY <1>2 DEF HandlerInv, CompletionType
  <2>2. QED
    BY <1>2, <2>1 DEF MoveToEdit
<1>4. Offered = f /\ Offered' = None
  BY <1>3 DEF Offered
<1>5. Editing' \in {f, Editing}
  <2>1. CASE handed' = handed
    BY <2>1 DEF Editing
  <2>2. CASE CanPresent /\ handed' = Handover
    <3>1. handed = None
      BY <2>2 DEF CanPresent, EditorInv
    <3>2. Handover.url = f
      BY <1>2 DEF Handover
    <3>3. QED
      BY <2>2, <3>1, <3>2 DEF Editing
  <2>3. QED
    BY <2>1, <2>2 DEF MoveToEdit
<1>6. Life' = Life
  BY <1>1 DEF Life
<1>7. QED
  BY <1>2, <1>4, <1>5, <1>6 DEF Library!Offer

\* Quitting loses the lesson that is recorded or stopped, and no other.
LEMMA RelaunchQuits ==
    ASSUME CameraInv, PatientInv, Relaunch
    PROVE  Library!Quit
<1> USE ConstantsAssumption DEF CameraInv, PatientInv
<1>1. /\ UNCHANGED <<catalogue, disk>> /\ currentFilename' = None /\ editQueue' = {}
      /\ handed' = None /\ \A f \in Files : completion'[f] = "none"
  BY DEF Relaunch, storage
<1>2. ASSUME NEW f \in Files
      PROVE  Life'[f] = IF Life[f] \in Library!Unlisted THEN "lost" ELSE Life[f]
  <2>1. completion[f] # "none" \/ currentFilename = f => disk[f] # "absent"
    BY DEF WriterHasFile
  <2>2. UNCHANGED <<catalogue, disk>> /\ currentFilename' # f /\ completion'[f] = "none"
    BY <1>1
  <2>3. QED
    BY <2>1, <2>2, LifeIs DEF LifeOf, Library!Unlisted
<1>3. Life' = [f \in Files |-> IF Life[f] \in Library!Unlisted THEN "lost" ELSE Life[f]]
  BY <1>2, LifeIs
<1>4. Offered' = None /\ Editing' = None
  BY <1>1 DEF Offered, Editing
<1>5. QED
  BY <1>3, <1>4 DEF Library!Quit

LEMMA LibraryInit == Init => Library!Init
<1> SUFFICES ASSUME Init PROVE Library!Init
  OBVIOUS
<1>1. \A f \in Files : Life[f] = "new"
  BY LifeIs DEF Init, LifeOf
<1>2. Offered = None /\ Editing = None
  BY DEF Init, Offered, Editing
<1>3. QED
  BY <1>1, <1>2, LifeIs DEF Library!Init

LEMMA LibraryNext ==
    CameraInv /\ PatientInv /\ [Next]_vars => [Library!Next]_(Library!vars)
<1> SUFFICES ASSUME CameraInv, PatientInv, [Next]_vars
             PROVE  [Library!Next]_(Library!vars)
  OBVIOUS
<1>1. CASE UNCHANGED seen
  BY <1>1, SilentForLibrary
<1>2. CASE OpenWriter
  BY <1>2, OpenWriterRecords DEF Library!Next
<1>3. CASE FinishRecording
  BY <1>3, FinishRecordingStops DEF Library!Next
<1>4. CASE Relaunch
  BY <1>4, RelaunchQuits DEF Library!Next
<1>5. ASSUME NEW f \in Files, CompletionLoad(f) PROVE [Library!Next]_(Library!vars)
  BY <1>5, CompletionLoadSilent
<1>6. ASSUME NEW f \in Files, CompletionStore(f) PROVE [Library!Next]_(Library!vars)
  BY <1>6, CompletionStoreLists DEF Library!Next
<1>7. ASSUME NEW f \in Files, MoveToEdit(f) PROVE [Library!Next]_(Library!vars)
  BY <1>7, MoveToEditOffers DEF Library!Next
<1>8. QED
  BY <1>1, <1>2, <1>3, <1>4, <1>5, <1>6, <1>7, SilentSteps

\* Seen as lessons, every run of the three threads and their user is a run of the
\* abstract library: recorded one at a time, listed after they stopped, offered once
\* listed, and only the unlisted one lost by quitting.
THEOREM CameraImplementsLibrary ==
    ASSUME Patient
    PROVE  Spec => ImplementsLibrary
<1>1. Spec => [](CameraInv /\ PatientInv)
  BY PatientInvariant
<1>2. QED
  BY <1>1, LibraryInit, LibraryNext, PTL DEF Spec, ImplementsLibrary, Library!Spec
=============================================================================
