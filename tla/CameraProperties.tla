-------------------------- MODULE CameraProperties --------------------------
(***************************************************************************)
(* What CameraController is meant to guarantee.                            *)
(***************************************************************************)
EXTENDS CameraController

-----------------------------------------------------------------------------
(***************************************************************************)
(* Whatever the user does.                                                 *)
(***************************************************************************)
\* A recording in progress has an open, unfinished writer, and a stop that the
\* camera queue has yet to see has a writer to ask: neither a tap nor the order in
\* which taps and frames interleave makes captureOutput append to a finished
\* movie or unwrap a missing writer.
FlagsNameWriter ==
    /\ isRecording => MayBeReady
    /\ isDoneRecording \/ main = "stopping" => currentFilename # None

\* A palm is being held or is detected, never both; it is detected only while the
\* timer stands past the full hold, and a hold has a known start.  The two threads
\* that clear these flags, and the race for the counter, keep it so.
HoldXorDetect ==
    /\ ~(isHolding /\ isDetecting)
    /\ isDetecting => counter > HoldTicks
    /\ isHolding => startDetectTimestamp # None

\* Until a second file is opened, relaunches included, every span ends no earlier than
\* it started (handleGestureStateChange and captureOutput close spans).
SpansOrdered == \A s \in allDetectedTimestamps : s[1] <= s[2]

-----------------------------------------------------------------------------
(***************************************************************************)
(* When the user waits for a tap to take effect before the next one.       *)
(***************************************************************************)
\* The main menu can show every lesson: what the completion handler of
\* finishWriting enters in the catalogue is a playable movie, and stays one across
\* a relaunch at any moment.
CatalogueNamesMovies == Thumbnails

\* The editor is given a movie it can play (handleMoveToEdit after finishWriting).
EditorHasMovie == handed # None => handed.url # None /\ disk[handed.url] = "movie"

\* The spans given to the editor are ordered and lie within the lesson as the
\* catalogue times it, although three threads read the clock for them.
SpansWithinLesson ==
    handed # None => \A s \in handed.spans :
        /\ s[1] <= s[2]
        /\ catalogue[handed.url] # None /\ s[2] <= catalogue[handed.url]

\* The catalogue's Duration of a lesson covers every frame of its movie, although
\* the clock is read again after the last one.
DurationCoversMovie ==
    \A f \in Files : catalogue[f] # None => length[f] <= catalogue[f]

\* A lesson once in the catalogue stays there as it was: the completion handler's
\* read and write of the whole dictionary lose none.
CatalogueKeeps ==
    [][\A f \in Files : catalogue[f] # None => catalogue'[f] = catalogue[f]]_vars

\* A stop leads to the editor, unless the user quits: it is not lost between the
\* flags, and no frame comes too early or too late for it.
LessonSaved == isDoneRecording ~> screen \in {"edit", "launch"}

-----------------------------------------------------------------------------
(***************************************************************************)
(* The abstract library that the camera and the menu implement for such a  *)
(* user.                                                                   *)
(***************************************************************************)
Life ==
    [f \in Files |->
        CASE catalogue[f] # None -> "listed"
          [] catalogue[f] = None /\ disk[f] = "absent" -> "new"
          [] catalogue[f] = None /\ completion[f] # "none" -> "stopped"
          [] catalogue[f] = None /\ disk[f] # "absent" /\ completion[f] = "none" ->
                IF currentFilename = f THEN "recording" ELSE "lost"]

Offered == IF editQueue = {} THEN None ELSE CHOOSE f \in Files : f \in editQueue
Editing == IF handed = None THEN None ELSE handed.url

Library ==
    INSTANCE LessonLibrary WITH
        Lessons <- Files, life <- Life, offered <- Offered, editing <- Editing

\* Seen as lessons, every run of the camera and the menu is one of the library: lessons
\* are recorded one at a time, none is listed that was not recorded and stopped, the
\* editor gets the lesson just listed, and quitting between any two steps of the
\* threads loses the unlisted lesson only (captureOutput, the completion handler,
\* handleMoveToEdit, Photo.allPhotos).
ImplementsLibrary == Library!Spec

-----------------------------------------------------------------------------
(***************************************************************************)
(* What the code takes for granted with a forced unwrap, and does not hold.*)
(***************************************************************************)
\* startDetectTimestamp! has a value where handleGestureStateChange and
\* captureOutput unwrap it: whenever a palm is held or detected.
StartIsKnown == Holds => ~NilStart
=============================================================================
