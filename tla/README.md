# TeachMe in TLA+

TeachMe is an iOS application with which a teacher records a lesson in front of
the camera. While a lesson is recorded, every frame is searched for a hand; a palm
held for three seconds starts a *detected span*, in which the editor will later lay
an animation over the movie. Recorded lessons are listed in the main menu, which is
reached by signing in or by joining. A small set of cloud functions creates users and
gives each of them a class ID.

This directory holds a specification of that program, its model-checking
configurations and machine-checked proofs. Paths below are relative to
`src/ios/TeachMe/TeachMe/` unless they start with `src/`.

## 1. Inventory

| Component | Source | State | Operations | Status |
|---|---|---|---|---|
| Camera controller | `Controllers/CameraViewController.swift` | three recording flags, the writer and its file, the clock of the last frame, the hold timer, notes and spans | `handleRecord`, `captureOutput`, `processPoints`, `handleGestureStateChange`, `updateTimer`, the completion handler of `finishWriting`, `handleMoveToEdit` | modelled |
| Gesture processor | `Camera/HandGestureProcessor.swift` | `state`, two evidence counters | `processPoints`, `reset` | state machine modelled, geometry not |
| Lesson catalogue, main menu | `Models/Photo.swift`, `Controllers/MainMenuController.swift` | `UserDefaults["dataKey"]`, movie files | `Photo.allPhotos`, `onNewLessonClick` | modelled with the camera |
| Cloud functions | `src/node/functions/index.js` | Firestore `users/*`, the counter `users/_classID` | `createUser`, `createDoc`, `getClassID`, `moveFile` | modelled |
| Video editor | `Controllers/VideoEditController.swift` | player, stand-by and active animators, export session | `viewDidAppear`, play, pause, `handlePan`, the observer, the slider's callback, Done | modelled |
| Range slider | `Pods/ABVideoRangeSlider-SWIFT-5/…/ABVideoRangeSlider.swift` | two handles, the progress indicator, `isReceivingGesture` | four drags, `updateProgressIndicator` | what the editor uses of it is modelled |
| Sign-in and navigation | `Controllers/{JoinViewClass,Signin,Signup}*.swift`, `Globals.swift` | the stack of controllers, the listeners' handles, `Globals.user` | taps, `viewDidLoad`, `viewDidAppear`, `viewDidDisappear`, listener and completion callbacks | modelled |
| FIRAuth | `Pods/FirebaseAuth/…/FIRAuth.m` | `_currentUser`, the keychain, listeners and their `previousUserID` | load at launch, sign in or up, `updateCurrentUser`, notification, listener calls | what the application uses of it is modelled |
| Alerts, life cycle | `AppDelegate.swift`, `SceneDelegate.swift` | the alert in front | `displayInViewController` | the alert's effect on presentations is modelled |
| Views, widgets, rules, vendored pods | see `PROJECT.json` | drawing, configuration, third-party code | | not modelled |

### How the parts interact

The camera controller runs on three threads that share its fields without a lock.

* The **main thread** takes taps, runs the 0.1 s timer, presents controllers and
  executes the block that `captureOutput` defers with `DispatchQueue.main.sync`.
* The **camera queue** runs `captureOutput`, one frame at a time. It opens the
  writer when it sees `isStartRecording`, appends while `isRecording`, and finishes
  the writer when it sees `isDoneRecording`; then it looks for a hand and waits for
  the main thread to process it.
* The **completion handler** of `finishWriting` runs on a queue of its own. It reads
  the clock, the catalogue and `currentFilename`, writes the catalogue back and
  queues `handleMoveToEdit` on the main thread.

The **editor** gets the movie and the spans from `handleMoveToEdit` and runs on the
main thread alone, but four sources call it in any order: taps, the pan recognizers
of the slider and its own, the player's observer and the animators' completions. The
observer moves the slider, and the slider calls the editor back.

**Navigation** works on two queues. FIRAuth's serial work queue saves a user in the
keychain and then makes it the current one; the main queue runs, in the order of
their dispatch, the first call of each new listener, the notification of a changed
user and the completion of a sign-in, in between taps and animated presentations.
`auth.currentUser` waits for the work queue; the first call of a listener does not.

A tap reaches the camera queue only through the flags. The gesture processor is
called on the main thread and calls the controller back when its state is assigned.
What survives the application is the catalogue and the files; the main menu unwraps
a thumbnail for every catalogue entry. The cloud functions share one document, the
counter, read and written in separate requests by every running handler.

### What is hard

* the interleaving of taps with a frame half way through `captureOutput`;
* a completion handler that runs after the fields it reads were reused;
* the whole catalogue read, changed and written back;
* a palm lost at each point of the hold, on either thread, with the timer racing its
  own reset;
* an exit at any moment, after which the menu must still be able to start;
* indices into an array of active animators that were taken when nothing was active;
* animations that a drag starts while the movie is paused, and drags that race the
  player's observer for the indicator;
* a listener that must follow the screen through presentations still being animated,
  a notification and a completion that together must give the menu its user, an exit
  between the keychain's write and its consequences;
* events delivered twice, handlers lost between two requests, handlers that overlap.

`PROJECT.json` lists each of these at its line under `hazards`, with the properties
that cover it or the reason why none does.

## 2. Modules

| Module | Role |
|---|---|
| `HandGestureProcessor` | the debouncing classifier, parameterised by `Trigger` |
| `MCHandGestureProcessor` | adds the history of the frames, a reference definition of "seen `Trigger` times in a row" |
| `CameraController` | the three threads, the storage, relaunch; composes the classifier by `INSTANCE HandGestureProcessor WITH state <- gesture` |
| `CameraProperties` | what the controller guarantees, always or to a patient user, and the refinement mapping to `LessonLibrary` |
| `LessonLibrary` | abstract: lessons are recorded, stopped, listed, offered to the editor; quitting loses the unlisted one |
| `MCCamera` | the symmetry of the files |
| `MCCameraHistory` | adds the time of the last frame with a hand |
| `MCCameraSteady` | the camera at the pace of the device: a frame is processed between two ticks of the timer |
| `ClassRegistry` | the cloud functions, with the platform's deliveries and failures |
| `ClassRegistryHistory` | adds what each running handler read in the counter, and whether one has written over a value it did not read |
| `MCClassRegistry` | the symmetry of the accounts |
| `VideoRangeSlider` | the slider's handles and indicator |
| `VideoEditController` | the editor; composes the slider by `S == INSTANCE VideoRangeSlider` |
| `MCVideoEdit` | the distances of a drag |
| `AppNavigation` | controllers, listeners, `Globals.user` and FIRAuth; checked as it is by `MCNavigation.cfg` |
| `*_proofs` | theorems and proofs about the module they are named after |
| `PatientCamera_proofs` | theorems about the camera with a patient user: the catalogue, the editor's input, and the step-by-step refinement of `LessonLibrary` |
| `NavigationUser_proofs` | theorems about `Globals.user` when the main menu is presented |

Operators named *Mutant of X* stand next to the definition they are a plausible bug
of. No specification uses them; they serve to show that every checked property fails
when the code is changed that way.

### CameraController and the code

Variables carry the names of the code's fields. The others are `screen`, `alert` and
`handed` (what is in front, and what the editor was given), `main` and `queue` (the
program counters of the main thread within a tap and of the camera queue within a
frame), `hand` (Vision's result), `disk`, `length` and `catalogue` (storage),
`completion`, `loaded` and `editQueue` (the handlers and the block they queue).

| Code | Actions |
|---|---|
| `handleRecord` → `startRecording`/`stopRecording` (298–319) | `HandleRecord`, then `StartRecording` or `StopRecording`: the branch and the flag are two steps, with frames in between |
| `updateTimer` (336) | `UpdateTimer` |
| `captureOutput` (354–531) | `FrameArrives`, then `OpenWriter`, `ClearStart`, `ClearDone`, or `TestRecording`, `FinishRecording`/`SkipFinish`; then `Vision(o)` and `Deliver`. In the first half of the handler every read and write of a shared flag is a step; a frame that finds the writer not ready returns above the `defer` and skips Vision |
| `processPoints` (131–174), `handleGestureStateChange` (177–296) | `Deliver`, one branch of which traps where the code unwraps a nil |
| a missing or uncertain joint (460–500) | `AbortTracking` within `Vision`, on the camera queue |
| completion handler (407–434) | `CompletionLoad` (writer done, reads), `CompletionStore` (writes, queues), `MoveToEdit` |
| `viewDidAppear`, `viewWillDisappear` | `OnNewLessonClick`, `LeaveCamera` |
| `Photo.allPhotos` | `ShowMenu` |
| the alert | `ShowAlert`, `DismissAlert` |
| exit and relaunch at any time | `Relaunch` |

A race on a field is a choice over its outcomes. While the camera queue stops the timer
(`RacingStopTimer`), the main thread may write the counter it had read before the reset,
or fire once between the reset and `invalidate`, or do neither. Apart from that race
`AbortTracking` is one step (lines 463–477 and 484–498), although it clears three fields
in turn. What is hidden is the moment in which the counter is back at 0 and
`isDetecting` still set. In it the main thread can only fire the timer, whose ticks are
the outcomes above; take a tap, which at most clears the two flags as the handler does
and comes out as a tap before or after it; or hand over to the editor, which reads once
the one collection that the handler changes. The state after the handler is the same.

Abstractions. A frame is the branch it takes: `error` (Vision throws), `none` (no
observation), `partial` (a joint missing or uncertain), or the shape of the hand. The
counter counts ticks up to `HoldTicks` and one more, "past three seconds", which is
all that is asked of it: added up in doubles, thirty tenths are not exactly 3, so the gap between
`< 3` and `> 3` is never hit. The timer's ticks and the frames' clock advance
independently: a trace may pass three seconds of the timer between two frames, which is
more than the code meets and safe for what is shown to hold. `HoldNeverStarted`, which
shows a defect, runs at the pace of the device (`MCCameraSteady`): the camera delivers
30 frames a second and the timer fires 10 times, so that a frame is processed between
two ticks. `detected` is reduced to its keys, since every use asks
whether a start has points.

Two constants describe the environment.

* `PatientUser`: the user taps only when the previous tap has taken effect
  (`Settled`): no flag is pending, no handler is running, and a recording has a frame.
* `FinishMayFail`: `finishWriting` may end without a playable movie.

**The abstract library.** `LessonLibrary` has one lesson per file. `Life` maps the
catalogue, the disk, the current file and the running handlers to the life of a
lesson: a file that is being written is `recording`, one whose handler has begun is
`stopped`, one in the catalogue is `listed`, a file on the disk that is none of these
is `lost`. `StartRecording`, which only sets a flag, is a stutter; `OpenWriter` is
`Record`, `FinishRecording` is `Stop`, `CompletionStore` is `List`, `MoveToEdit` is
`Offer`, `Relaunch` is `Quit`; everything the gesture tracking does is a stutter.

### VideoEditController, VideoRangeSlider and the code

Slider positions, percentages and seconds are one scale, in whole seconds.

| Code | Actions |
|---|---|
| `viewDidAppear` with `setupVideoEdit` (65–92, 172–259) | `ViewDidAppear`: no track, a span without points (trap), or the animators with or without an export session |
| `startDragged`, `endDragged`, `progressDragged`, `viewDragged` (pod, 254–439) | the actions of the same name: the slider's part in `VideoRangeSlider`, the callback as `NotifyIfMoved` |
| `indicatorDidChangePosition` (330–343) | `IndicatorDidChangePosition`, its loop as the fold `InsertDue` |
| `handlePan` (98–108) | `HandlePan` |
| `handlePlayButton`, `play`, `pause` (110–155) | `HandlePlayButton`, `Play`, `Pause` |
| the periodic observer (78), `updateProgressIndicator`, `resetProgressPosition` | `PlayerObserved` |
| an animator's completion (219–223) | `AnimatorEnds` |
| `handleDoneButton` (157) | `HandleDoneButton`; a second tap on a session that has started changes nothing that is modelled |

`Init` admits every list of spans in the order in which the camera closes them in one
recording, any set of starts with points and a movie with or without a track: a
superset of what the first recording of a camera controller hands over. (When an alert
kept the editor from opening, a second recording also hands over the first one's
spans, which need not be in order with its own; two spans are enough for a wrong index
in any order.) UIKit's behaviour enters at three places. Of the recognizers on the
slider one recognizes a given drag (`pan`). Pausing an animator that has not started
activates it. The keyframes are added outside the animator (line 271), which is left
with its duration only; it is taken to run, to be paused and to end all the same.
Whether an animator that is started again still has its completion is
not documented, so `AnimatorEnds` leaves it open.

### AppNavigation and the code

| Code | Actions |
|---|---|
| `onJoinPressed`, `onSignInButtonPressed`, `onSignUpButtonPressed` that lead to another scene | `Tap`, with `Present`; it runs `viewDidLoad` of the sign-in scene (`UserAfterLoad`) |
| `viewDidAppear` of the new and `viewDidDisappear` of the old controller | `FinishTransition`, when the animation ends |
| the buttons that sign in or up | `Submit` |
| the decorated callback, `updateCurrentUser`, `saveUser` (FIRAuth.m 1928–1984) | `RequestFails`, or `SaveUser` then `AssignUser`: an exit can come between the two |
| loading at launch (FIRAuth.m 503–544) | `LoadUser` |
| the blocks on the main queue | `RunInitial`, `RunNotify`, `RunInvoke`, `RunDone` |

A listener runs in two halves because the value it is called with and
`auth.currentUser` that it then reads may differ: `RunInitial` and `RunNotify` put an
`invoke` at the head of the queue, `RunInvoke` runs it. `handles` is the set of
controllers whose `handle` is not nil, and `trap = "handle"` the forced unwrap of
line 67 finding nil. Two choices are made in `Init`: `patient`, as for the camera, and
`identified`. In `Main.storyboard` of this commit the sign-up scene has no identifier
(line 235), so that `instantiateViewController` would end the application
(`identified = FALSE`), and the buttons of the sign-in and sign-up scenes are not
connected to their actions. The model takes the controllers' code at its word and
covers both storyboards.

### ClassRegistry and the code

Each `await` of `createDoc` and `generateClassID` is a step: `CreateDoc`, `ReadLast`,
`UpdateLast`, `SetDoc`; `Fail` loses a handler between any two, whenever it likes. A
delivery is a pair of an account and a number up to `MaxDeliveries`; any number of
handlers run at once, as the code sets no limit. Nothing in the repository creates
`users/_classID`: `FirstLast` is what somebody wrote in it by hand.

`ClassRegistryHistory` says when this is enough. `generateClassID` reads the counter in
one request and writes it in another; `seen` is what each running handler read, and
`overtaken` becomes true when one writes the counter over a value that it did not read.
No action is restricted: the history only observes.

## 3. Runs

| Run | Instance | Shows |
|---|---|---|
| `MCHandGestureProcessor` | `Trigger = 4` | a palm is confirmed exactly when the last frames all showed it |
| `MCCameraTracking` | 1 file, every kind of frame, any taps, failures, `MaxTime = 5` | `TypeOK`, `FlagsNameWriter` (no order of taps and frames makes the queue use a missing or finished writer), `HoldXorDetect`, `SpansOrdered`, through crashes, alerts, races and relaunches |
| `MCCameraLessons` | 2 files, patient user, no failure, fairness | catalogue, movies and spans agree (`CatalogueNamesMovies`, `EditorHasMovie`, `SpansWithinLesson`, `DurationCoversMovie`), no lesson is lost or changed (`CatalogueKeeps`), every stop leads to the editor (`LessonSaved`), and the whole implements the abstract library (`ImplementsLibrary`) |
| `MCVideoEdit` | a movie of 2 seconds, 2 spans, 2 active entries, drags of −1, 0 and 1 | `EditorSafe` (a complete editor with one span never traps), `PauseStopsAll`, `PlayResumesAll`, `SliderWindow` |
| `MCNavigation` | 2 accounts, 5 controllers, 2 sign-ins in flight, fairness | `ListenerOnScreen`, `MenuHasUser`, `MenuUserIsCurrent`, `StoredIsCurrent`, `SignedInLeads` |
| `MCClassRegistryUnique` | 2 accounts, 2 deliveries each, handlers overlapping and lost at will | `UniqueUnlessOvertaken` (the only way to a shared class ID is a counter written over an unread value), `ToldIsTheirsAlone` (until then, a told ID is nobody else's, although a second delivery may have replaced it) |
| `MCClassRegistryServed` | 2 accounts, 1 delivery each, handlers overlapping and lost at will, fairness | `EveryUserGetsClassID`: only the loss of a user's own handler keeps the user without a class ID |

Five runs end in a counterexample; they are the findings of section 5.

### Bounds, and why they suffice

* **Files.** One per recording. Two let a handler of the first recording run into the
  second. In `MCCameraTracking` one file is enough for `FlagsNameWriter`, which is
  proved for any number. `SpareFile` keeps a file for a start that is pending.
* **MaxTime** bounds the clock; frames go on arriving at the last instant, so that
  nothing stops because time ended. Three instants let a span open and close within
  one recording of several frames; five and more let a failed hold, its successor and
  the grace period follow one another.
* **Trigger = 1** inside the camera runs: the classifier is checked for itself at 4
  and proved for every value, and a larger trigger only repeats frames here.
* **HoldTicks = 1**: the phases that the code tells apart are no tick, some ticks,
  past the hold. `HoldNeverStarted` takes 2: it needs a tick while the palm is lost and one
  more when it is shown again.
* **ResetGap** is put below, at and above the instants that matter for the run.
* **Duration = 2, MinSpace = 1**: the handles can be as close as they may get, and the
  window can be at either edge or between. **MaxSpans = 2** is the least at which an
  index goes wrong; **MaxActive** bounds the entries, of which an animator may have
  several once UIKit has dropped a completion. `Drags` of one second reach every
  position in several steps, including past both edges; `HandlesKeepWindow` is proved
  for any distance.
* **MaxDepth = 5**: join, sign-in, sign-up, sign-in, menu, so that a scene covers
  another one of its kind. **MaxRequests = 2**: a second sign-in is submitted before
  the first is answered. **MaxBlocks = 1**: a sign-in is submitted while the first
  call of a listener, or the completion of the other sign-in, is still queued; the
  queue itself grows past it.
* **MaxDeliveries = 2**: at least once means once, or once and again. It is 1 in
  `MCClassRegistryServed`, whose graph with 2 is too large for the liveness check; a
  second delivery is one more chance of a document and one more handler that may be lost.
  `ClassIDNotUnique` needs one delivery only. Handlers that run at once have no bound of
  their own.
* **FirstLast = 0**: only differences of IDs matter; the theorems hold for every value.

Files and accounts are interchangeable; their symmetry is used in safety runs only.
Deadlock is checked in every run.

### Fairness, and why the code justifies it

Weak fairness on the steps of a running handler, on frames while the session runs, on
queued blocks and completion handlers: the operating system runs its queues. Strong
fairness on `FinishRecording`: `isReadyForMoreMediaData` may be false at any frame,
and the code simply asks again at the next; an input that is asked for ever and never
ready is a failed writer. Nothing is assumed of the user. In `AppNavigation`,
`FairSpec` is weak fairness on the end of an animation, on FIRAuth's work queue, on
the main queue, and on the answer to each request, which its timeout turns into a
failure at the latest; taps, submissions and relaunches have none. `SignedInLeads`
therefore says that a user who has been signed in is led on without a further tap.
`Relaunch` has no fairness, so `LessonSaved` allows the user to quit but does not
count on it. In the registry, calls run, an event is
delivered once at least, and a handler that is not lost runs to its end; losses and
second deliveries have no fairness.

## 4. Proofs

Checked by TLAPS for every value of the constants that satisfies
`ConstantsAssumption`, `TriggerAssumption`, `RegistryAssumption`, `EditorAssumption`
and `NavigationAssumption`.

| Theorem | Says |
|---|---|
| `WriterThere` | `Spec => []FlagsNameWriter` |
| `HoldingExcludesDetecting` | `Spec => []HoldXorDetect` |
| `CameraTypeOK` | `Spec => []TypeOK` of `CameraController` |
| `FirstSpansOrdered` | any user: `SpansOrdered` until a second file is opened, relaunches included |
| `SpansAreOrdered` | patient user: `SpansOrdered`, always |
| `CatalogueIsPlayable`, `DurationIsLongEnough` | patient user: `CatalogueNamesMovies`, `DurationCoversMovie` |
| `EditorGetsMovie`, `EditorSpansFitLesson` | patient user: `EditorHasMovie`, `SpansWithinLesson` |
| `CatalogueIsKept` | patient user: the action property `CatalogueKeeps` |
| `CameraImplementsLibrary` | patient user: `Spec => ImplementsLibrary`, the refinement |
| `GestureTypeOK`, `GestureBacked` | `TypeOK` and `EvidenceBacksState` of the classifier |
| `ConfirmedExactly` | `MCSpec => []ConfirmedIffSeen`, against the history of the frames |
| `RegistryTypeOK` | `Spec => []TypeOK` of `ClassRegistry` |
| `OnlyOvertakingShares` | `HistorySpec => []UniqueUnlessOvertaken`, for any number of handlers, deliveries and losses |
| `ToldIsNotReused` | `HistorySpec => []ToldIsTheirsAlone`, likewise |
| `HandlesKeepWindow` | `Spec => []SliderWindow` of the editor, for every length of the movie and every drag |
| `EditorTypeOK` | `Spec => []TypeOK` of the editor, for every number of spans |
| `OneSpanIsSafe`, `OneSpanResumes`, `OneSpanPauses` | `EditorSafe`, `PlayResumesAll` and `PauseStopsAll` |
| `ListenerFollowsScreen` | `Spec => []ListenerOnScreen` |
| `RelaunchFindsUser` | `Spec => []StoredIsCurrent` |
| `NavigationTypes` | `Spec => []TypeOK` of `AppNavigation` |
| `MenuKnowsUser` | `Spec => []MenuHasUser` |
| `PatientMenuIsCurrent` | `Spec => []MenuUserIsCurrent` |

Every invariant and every action property that a passing run checks is now a theorem.
"Patient user" is the hypothesis `PatientUser /\ ~FinishMayFail`, on the two constants
that describe the camera's environment; `MCCameraLessons` runs under the same two
values, and the finding `LessonNotPlayable` shows that without the first the catalogue
is not playable. The theorems on the registry have no hypothesis on the platform; their
`~overtaken` is a state of the history that the code does not prevent, as
`ClassIDNotUnique` shows. `OneSpan` is part of the editor's properties; with
two spans `AnimatorIndex` shows the trap.

**Camera.** None of the three invariants is inductive. `TypeOK` needs
`startTimestamp <= time` (`ClockInv`), without which an elapsed time could be
negative. `FlagsNameWriter` needs `WriterHasFile`: the file of the current writer, and
of every writer that was finished, is on the disk, so that a new writer gets a file
for which no completion handler was started. `HoldXorDetect` needs the types of the
tracking fields, and that a tick never takes the counter back below the hold.
`CameraInv` is their conjunction, split by the part of the state each conjunct is
about. There is one lemma for each action, and in it one step for each part that the
action can disturb; the parts it leaves alone follow from the `Same...` lemmas.
`HandlerTracks` and `AbortTracks` prove the two long handlers for themselves.
`FirstSpansOrdered` adds that a start that is remembered is not later than the
recording's clock (`SpansStarted`). It holds until a second recording resets that clock
under a hold still in progress, which an impatient user can bring about.

**Camera, patient user.** What the user waits for gives the proof its shape: between
two launches there is one recording at most, which is opened, recorded, closed and
handed over in this order. `PatientInv` says so in seven parts. `TapInv` and `OnceInv`
place the flags, the camera queue and the screen within that order; `HandlerInv` says
that only this recording's file has a handler, on a file that has frames; then
`CatalogueInv` can say that the copy of the catalogue which the handler has loaded is
still the catalogue when it is written back. `FrameInv` and `SpanInv` keep frames and
spans within the clock and, once the handler has read it, within the duration it read;
`EditorInv` says what the editor was given. None of the parts is inductive without the
others: the catalogue's needs the handler's, that one the order of the taps. The
`...Kept` lemmas say what each part reads, so that an action needs a proof only for
the parts it can disturb.

**Refinement.** `CameraImplementsLibrary` shows first that initial states map to initial
states, then, for each action, that it maps to the one step of `LessonLibrary` named in
section 2 or to a stutter. The steps rest on `PatientInv`: a `CompletionStore` is `List`
of its own file and of no other because the handler's copy of the catalogue is current,
and an `OpenWriter` is `Record` because its file is new
and no other lesson is between its recording and the catalogue. The checked
`ImplementsLibrary` has no fairness, so nothing of it is left to TLC.

**Registry.** Neither property is inductive: it must be known that no document, and no
other running handler, has the ID that a handler is about to write. `HistoryInv` says
so, as long as nobody was overtaken. Every ID in a document, in an answer or held after
the update was issued by the counter (`Issued`); a handler that has read holds the
successor of what it saw, and saw no more than the counter now has (`ReadBelow`); an ID held after
the update is in no document, is not the ID of another such handler, and was told to nobody
(`HeldAlone`); `UniqueClassID` and `ToldAlone` are the two properties
without their premise. The step that matters is `UpdateLast`: either the handler saw
the current counter, and its ID is above all that was issued, or `overtaken` becomes
true. `GetClassID` may tell a client an ID that a second delivery then replaces; it is
not given to anybody else. What remains open is any client that goes on using the
replaced ID: no code of the repository compares IDs.

**Classifier.** `TypeOK` and `EvidenceBacksState` are inductive together. For
`ConfirmedIffSeen` the counters are related to the history of the frames: each is the
length of the run of its shape with which the history ends (`EndsWith`, `SeenInv`),
capped where the history is. The theorem is about the module with the history.

**Editor.** `SliderWindow` is inductive for the drags; each action of the editor moves
the handles as one action of the slider does or leaves them alone. For the animators
the invariant says that the animator of an only span is in the active list while it
runs or is paused (`ActiveInv`): this is what its completion needs in order to find an
entry to remove, and what `pause` and `play` need in order to reach it. `SetUp` says
that an export session, which `setupVideoEdit` makes last, comes with an animator for
every span, and `IndicatorInv` bounds the indicator by the window, from below by the
window's distance to the end of the slider: `viewDragged` moves both together.

`EditorTypeOK` has to know what the loop of `indicatorDidChangePosition` does to the
active list for any number of spans. `InsertDue` is a fold, that is, a recursive
function on sets of indices. The induction theorems of the library cannot be
instantiated by the installed provers, so both facts about it are shown with the least
index at which they would fail (`LeastNat`): that the recursive function exists
(`FoldsExist`), and that up to each index it has kept the types of the list and added
one entry for each animator that was started (`InsertDueKeeps`).

**Navigation.** `ListenerOnScreen` must know which controllers have a handle:
`ScreenInv` adds that the controller on screen, or the one still being covered, has
one if it listens, and that the stack has room as long as the menu is not on it.
`OriginInv` says that what is in flight (requests, the work queue, completions in the
main queue) belongs to a sign-in or sign-up controller on the stack; since the stack
only grows it goes on doing so (`StackGrows`). Without it a completion could present a
second menu over the first. `UserInv` says that nobody is signed in until the keychain
has been read, and that a user who is saved and not yet current is the stored one.
There is one lemma for each action. The theorems are about `Init /\ [][Next]_vars`,
which the checked `FairSpec` implies. `NavigationAssumption` keeps apart the values that
the code keeps apart by type: no account is `None`, and none is the mark `"never"` of a
listener that has not been called.

**Globals.user.** The menu is presented by the completion of a sign-in, `Globals.user`
is set by a listener. `ToldInv` says why the second comes first: a successful
completion in the main queue either finds the user set, or is behind a block that will
lead to it, or belongs to a controller that something else has covered, for which it
presents nothing. A listener that has already been told of a user drops a notification,
but then it has set the user. `FrontInv` says that what is in flight came from a
controller that was on screen, so that no completion is ever ahead of its screen. For a
patient user `PatientInv` adds that at most one sign-in is in flight (`AloneInv`), that
the completion of one that succeeded is the last block and the listener in front has
been called with the new user or is about to be (`LeadInv`), and that somebody signed
in has left the sign-in scene or is about to (`SceneInv`); then the user who is set is
the one who is current.

Each inductive invariant was checked by TLC on the instances of section 3 before it
was proved.

Model-checked only: liveness (`LessonSaved`, `EveryUserGetsClassID`, `SignedInLeads`),
which under fairness is outside what the prover handles. The counterexamples of the
five violation runs are TLC's as well.

## 5. Findings

Each is a run whose trace leads from the initial state to the violation.

* **LessonNotPlayable** (`Models/Photo.swift:46`). A stop tapped before the first
  frame was appended, or a start tapped before the completion handler ran, enters in
  the catalogue a file that is no movie. The main menu unwraps its thumbnail, so the
  application traps at every launch from then on.
* **HoldNeverStarted** (`CameraViewController.swift:204`). When the palm is lost after
  the timer was started and before the hold began, the timer is left running: in the
  trace an open palm starts it, the next frames show another hand (`.unknown`, line
  270), the timer passes three seconds, and the next open palm is detected at once, with
  no start; the frame after it, or the stop, unwraps nil. A frame is processed between
  any two ticks.
* **AnimatorIndex** (`VideoEditController.swift:338`, and 221). An animator is inserted
  at its own index into the array of active ones. With two spans and the indicator
  past the first, index 1 of an empty array is inserted at.
* **ResetTooEarly** (`CameraViewController.swift:135`). `lastObservationTimestamp` is
  never updated, so the two seconds are counted from the controller's creation.
* **ClassIDNotUnique** (`src/node/functions/index.js:39`). Two handlers read the
  counter before either writes it.

Seen while modelling, without a run of their own:

* A hold that fails leaves `startDetectTimestamp`, so that a detection without a hold
  of its own (`HoldNeverStarted`) may also start at the time of that earlier hold,
  whose points were removed; the editor unwraps them (`VideoEditController.swift:217`).
  In the model this is `trap = "points"`.
* `moveFile` (`src/node/functions/index.js:59`) reads `fileName`, which is declared
  nowhere, and never answers the request (`MoveFileRuns`).
* `VideoEditController.swift:336` starts the animation of every span that lies *ahead*
  of the position (`start >= currentTime`), not of the one around it. `Due` follows the
  code.
* An editor whose `setupVideoEdit` returned early traps at the slider's next callback
  (line 337) or at Done (line 158); `EditorSafe` is about a complete one.
* A drag of the slider's indicator reports the position before the drag (pod, line
  380), and a cancelled gesture leaves `isReceivingGesture` set (line 491), after which
  the indicator no longer follows the player.
* A user who submits two sign-ins without waiting may reach the menu with the other
  one's `Globals.user`; `MenuUserIsCurrent` is therefore about a patient user.

## 6. Not modelled, and why

* Pixels, layer geometry, labels, the text of a catalogue entry: no property is about
  them. The collinearity test is the choice of a shape.
* More than one camera controller in a process: the editor leads nowhere, so the next
  lesson needs a relaunch.
* The data race on the dictionary and array that `handleMoveToEdit` copies: the
  language gives it no outcome. `SpansWithinLesson` shows that after a settled stop
  neither changes any more.
* The collinearity test and the other helpers on `CGPoint`: pure arithmetic on doubles,
  of which the classifier uses only the branch.
* Of the range slider, layout, thumbnails, setters that nothing calls, and `maxSpace`.
  Of FIRAuth, token refresh, other providers, access groups and sign-out. A refreshed
  token posts the same notification for the same user, which the listeners' filter
  drops.
* The vendored pods (Firebase, Firestore, gRPC, BoringSSL, leveldb, abseil). They are
  nearly all of the repository's lines, some 550 thousand in C, C++ and Objective-C,
  against some two thousand of the application itself, and they are third-party code
  with projects of their own. The modules cover the application's code; measured over
  the whole repository, the share of lines they cover is close to zero and will stay so.
* Whether `stopRunning` on the main thread waits for a camera queue that waits for the
  main thread: that is the framework's behaviour; the model lets it return.

## 7. Plan

1. Lemmas that the safety part of `LessonSaved` and `SignedInLeads` would rest on: what
   a stop in progress, or a signed-in user, rules out until the goal is reached.
2. Shorter leaves in `PatientCamera_proofs` where a lemma on the history of one
   recording could replace a case analysis.
3. The sign-in listener when a token is refreshed, and a larger stack, should the
   storyboard connect the remaining buttons.
