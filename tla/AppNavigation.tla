--------------------------- MODULE AppNavigation ---------------------------
(***************************************************************************)
(* From the launch to the main menu: JoinViewClassController, Signin- and  *)
(* SignupViewController, Globals.user, and FIRAuth as far as they use it.  *)
(*                                                                         *)
(* Controllers are only ever presented, never dismissed, so that they form *)
(* a growing stack.  Two queues work on it: the main queue, which runs the *)
(* blocks that FIRAuth dispatches in their order, and FIRAuth's own serial *)
(* work queue, which stores a user in the keychain and then makes it the   *)
(* current one.                                                            *)
(***************************************************************************)
EXTENDS Naturals, Sequences, FiniteSets

CONSTANTS
    Users,          \* accounts
    None,           \* nil
    MaxDepth,       \* bound: controllers on the stack
    MaxRequests,    \* bound: sign-ins in flight
    MaxBlocks       \* bound: blocks in the main queue when one is sent

Scenes == {"join", "signin", "signup", "menu"}
AuthScenes == {"signin", "signup"}   \* those that listen to FIRAuth

ASSUME NavigationAssumption ==
    /\ None \notin Users /\ "never" \notin Users
    /\ MaxDepth \in Nat \ {0, 1} /\ MaxRequests \in Nat /\ MaxBlocks \in Nat

VARIABLES
    patient,        \* this user taps only when the last tap has taken effect
    identified,     \* the storyboard gives the sign-up scene its identifier
    trap,           \* what ended the application, or "none"
    \* The controllers.
    stack,          \* the scenes presented so far
    transition,     \* the last presentation is still being animated
    handles,        \* controllers whose handle is not nil
    user,           \* Globals.user
    mainQueue,      \* blocks dispatched to the main queue
    \* FIRAuth.
    listeners,      \* controllers whose listener is registered
    previousUserID, \* of each listener; "never" before its first invocation
    requests,       \* requests[r]: the controller a sign-in in flight came from, or 0
    work,           \* the step the work queue is at, and for whom
    currentUser,    \* _currentUser
    stored          \* the user in the keychain, which survives the application

screens == <<stack, transition, handles>>
heard == <<listeners, previousUserID>>
auth == <<requests, work, currentUser, stored>>
given == <<patient, identified>>
vars == <<given, trap, screens, user, mainQueue, heard, auth>>

Levels == 1..MaxDepth
Top == Len(stack)
UserOrNone == Users \cup {None}
Blocks ==
    [block : {"initial"}, of : Levels]                            \* first call of a listener
        \cup [block : {"notify"}]                                 \* posts the notification
        \cup [block : {"invoke"}, of : Levels, user : UserOrNone] \* half way in a listener
        \cup [block : {"done"}, of : Levels, error : BOOLEAN]     \* completion of a sign-in
Works ==
    [step : {"load", "idle"}] \cup [step : {"saved"}, user : Users, of : Levels]

TypeOK ==
    /\ {patient, identified} \subseteq BOOLEAN
    /\ trap \in {"none", "identifier", "handle"}
    /\ stack \in Seq(Scenes) /\ Top \in Levels
    /\ transition \in BOOLEAN
    /\ handles \subseteq Levels /\ listeners \subseteq Levels
    /\ user \in UserOrNone /\ currentUser \in UserOrNone /\ stored \in UserOrNone
    /\ mainQueue \in Seq(Blocks)
    /\ previousUserID \in [Levels -> UserOrNone \cup {"never"}]
    /\ requests \in [1..MaxRequests -> 0..MaxDepth]
    /\ work \in Works

Init ==
    /\ patient \in BOOLEAN /\ identified \in BOOLEAN
    /\ trap = "none"
    /\ stack = <<"join">> /\ transition = FALSE /\ handles = {}
    /\ user = None /\ mainQueue = <<>>
    /\ listeners = {} /\ previousUserID = [i \in Levels |-> "never"]
    /\ requests = [r \in 1..MaxRequests |-> 0]
    /\ work = [step |-> "load"] /\ currentUser = None
    /\ stored \in UserOrNone

\* The application is killed, or has crashed, and is launched again: the keychain stays.
Relaunch ==
    /\ trap' = "none"
    /\ stack' = <<"join">> /\ transition' = FALSE /\ handles' = {}
    /\ user' = None /\ mainQueue' = <<>>
    /\ listeners' = {} /\ previousUserID' = [i \in Levels |-> "never"]
    /\ requests' = [r \in 1..MaxRequests |-> 0]
    /\ work' = [step |-> "load"] /\ currentUser' = None
    /\ UNCHANGED <<given, stored>>

Alive == trap = "none"

\* The main thread is not half way in a block.
MainFree == Alive /\ (mainQueue # <<>> => Head(mainQueue).block # "invoke")

\* auth.currentUser waits for the work queue to finish its block.
Readable == work.step = "idle"

-----------------------------------------------------------------------------
(***************************************************************************)
(* Presentations.                                                          *)
(***************************************************************************)
\* UIKit ignores present on a controller that is not in front.
CanPresent(from) == from = Top /\ ~transition

\* viewDidLoad of the sign-in scene takes over a user that is signed in already.  It
\* also presents the menu, which is ignored: the scene is not yet in front.
UserAfterLoad(scene) ==
    IF scene = "signin" /\ currentUser # None THEN currentUser ELSE user

Present(from, scene) ==
    /\ scene = "signin" => Readable
    /\ \/ /\ scene = "signup" /\ ~identified
          /\ trap' = "identifier"
          /\ UNCHANGED <<stack, transition, user>>
       \/ /\ scene = "signup" => identified
          /\ CanPresent(from)
          /\ stack' = Append(stack, scene) /\ transition' = TRUE
          /\ user' = UserAfterLoad(scene)
          /\ UNCHANGED trap
       \/ /\ scene = "signup" => identified
          /\ ~CanPresent(from)
          /\ UNCHANGED <<trap, stack, transition, user>>

\* Nothing that a tap began is still on its way.
Settled ==
    /\ mainQueue = <<>> /\ Readable /\ \A r \in 1..MaxRequests : requests[r] = 0

\* Bound: a tap leaves room for the main menu on the stack.
Tap(scene, next) ==
    /\ MainFree /\ ~transition /\ (patient => Settled)
    /\ stack[Top] = scene /\ Top + (IF next = "menu" THEN 1 ELSE 2) <= MaxDepth
    /\ Present(Top, next)
    /\ UNCHANGED <<given, handles, mainQueue, heard, auth>>

OnJoinPressed == Tap("join", "menu")
OnSignInButtonPressed == Tap("join", "signin") \/ Tap("signup", "signin")
OnSignUpButtonPressed == Tap("signin", "signup")

\* Mutants of PresentsMenu: the sign-in scene leaves it to viewDidLoad; every scene
\* does it.
LeavesMenuToLoad(scene) == FALSE
AlwaysPresentsMenu(scene) == currentUser # None

\* The sign-in scene presents the menu when it appears with a user.
PresentsMenu(scene) == scene = "signin" /\ currentUser # None

\* Mutant of RemovedWith: the listener of a covered controller stays.
NoneRemovedWith(i) == {}

\* The listener that viewDidDisappear removes.
RemovedWith(i) == IF stack[i] \in AuthScenes THEN {i} ELSE {}

\* The end of a presentation: viewDidAppear of the new controller, then
\* viewDidDisappear of the old one, which unwraps its handle.
FinishTransition ==
    /\ MainFree /\ transition /\ (stack[Top] = "signin" => Readable)
    /\ stack' = IF PresentsMenu(stack[Top]) THEN Append(stack, "menu") ELSE stack
    /\ transition' = PresentsMenu(stack[Top])
    /\ user' = IF PresentsMenu(stack[Top]) THEN currentUser ELSE user
    /\ \/ /\ stack[Top] \in AuthScenes
          /\ listeners' = (listeners \ RemovedWith(Top - 1)) \cup {Top}
          /\ handles' = handles \cup {Top}
          /\ mainQueue' = Append(mainQueue, [block |-> "initial", of |-> Top])
       \/ /\ stack[Top] \notin AuthScenes
          /\ listeners' = listeners \ RemovedWith(Top - 1)
          /\ UNCHANGED <<handles, mainQueue>>
    /\ trap' = IF stack[Top - 1] \in AuthScenes /\ Top - 1 \notin handles THEN "handle"
               ELSE trap
    /\ UNCHANGED <<given, previousUserID, auth>>

-----------------------------------------------------------------------------
(***************************************************************************)
(* Signing in or up, on FIRAuth's work queue.                              *)
(***************************************************************************)
\* onSignInButtonPressed of the sign-in scene, onSignUpButtonPressed of the other.
Submit(r) ==
    /\ MainFree /\ ~transition /\ (patient => Settled)
    /\ stack[Top] \in AuthScenes
    /\ requests[r] = 0 /\ Len(mainQueue) <= MaxBlocks
    /\ requests' = [requests EXCEPT ![r] = Top]
    /\ UNCHANGED <<given, trap, screens, user, mainQueue, heard, work, currentUser, stored>>

Done(i, error) == [block |-> "done", of |-> i, error |-> error]

\* The service refuses, or the keychain fails.
RequestFails(r) ==
    /\ Alive /\ Readable /\ requests[r] # 0
    /\ requests' = [requests EXCEPT ![r] = 0]
    /\ mainQueue' = Append(mainQueue, Done(requests[r], TRUE))
    /\ UNCHANGED <<given, trap, screens, user, heard, work, currentUser, stored>>

\* Mutant of SaveUser: the user becomes the current one whether it was saved or not.
SaveUserByForce(r, u) ==
    /\ Alive /\ Readable /\ requests[r] # 0
    /\ requests' = [requests EXCEPT ![r] = 0]
    /\ stored' \in {u, stored}
    /\ work' = [step |-> "saved", user |-> u, of |-> requests[r]]
    /\ UNCHANGED <<given, trap, screens, user, mainQueue, heard, currentUser>>

\* updateCurrentUser: the user is saved first,
SaveUser(r, u) ==
    /\ Alive /\ Readable /\ requests[r] # 0
    /\ requests' = [requests EXCEPT ![r] = 0]
    /\ stored' = u
    /\ work' = [step |-> "saved", user |-> u, of |-> requests[r]]
    /\ UNCHANGED <<given, trap, screens, user, mainQueue, heard, currentUser>>

\* Mutant of Dispatched: the completion runs before the notification.
DispatchedInReverse == <<Done(work.of, FALSE), [block |-> "notify"]>>

Dispatched == <<[block |-> "notify"], Done(work.of, FALSE)>>

\* ... then it becomes the current one.  Its token is new, so that a notification is
\* posted; the completion is dispatched after it.
AssignUser ==
    /\ Alive /\ work.step = "saved"
    /\ currentUser' = work.user
    /\ mainQueue' = mainQueue \o Dispatched
    /\ work' = [step |-> "idle"]
    /\ UNCHANGED <<given, trap, screens, user, heard, requests, stored>>

\* At launch the stored user becomes the current one, if the keychain can be read.
LoadUser ==
    /\ Alive /\ work.step = "load" /\ work' = [step |-> "idle"]
    /\ \/ stored # None /\ currentUser' = stored
          /\ mainQueue' = Append(mainQueue, [block |-> "notify"])
       \/ UNCHANGED <<currentUser, mainQueue>>
    /\ UNCHANGED <<given, trap, screens, user, heard, requests, stored>>

-----------------------------------------------------------------------------
(***************************************************************************)
(* The main queue.                                                         *)
(***************************************************************************)
HeadIs(block) == Alive /\ mainQueue # <<>> /\ Head(mainQueue).block = block

Replaced(block) == <<block>> \o Tail(mainQueue)
Invoke(i) == [block |-> "invoke", of |-> i, user |-> currentUser]

\* The first invocation of a listener reads _currentUser directly, even while the
\* work queue is about to assign it.  It runs although the listener may be removed.
RunInitial ==
    /\ HeadIs("initial")
    /\ mainQueue' = Replaced(Invoke(Head(mainQueue).of))
    /\ UNCHANGED <<given, trap, screens, user, heard, auth>>

RunNotify ==
    /\ HeadIs("notify") /\ Readable
    /\ \/ \E i \in listeners : mainQueue' = Replaced(Invoke(i))
       \/ listeners = {} /\ mainQueue' = Tail(mainQueue)
    /\ UNCHANGED <<given, trap, screens, user, heard, auth>>

\* Mutant of ShouldCallListener: only the first invocation reaches the listener.
FirstOnly(i, u) == previousUserID[i] = "never"

ShouldCallListener(i, u) == previousUserID[i] # u

\* The listener of both scenes: it reads the current user once more.
RunInvoke ==
    /\ HeadIs("invoke") /\ Readable
    /\ LET i == Head(mainQueue).of
           u == Head(mainQueue).user
       IN  /\ previousUserID' = [previousUserID EXCEPT ![i] = u]
           /\ user' = IF ShouldCallListener(i, u) /\ currentUser # None THEN currentUser
                      ELSE user
    /\ mainQueue' = Tail(mainQueue)
    /\ UNCHANGED <<given, trap, screens, listeners, auth>>

RunDone ==
    /\ HeadIs("done")
    /\ mainQueue' = Tail(mainQueue)
    /\ \/ Head(mainQueue).error /\ UNCHANGED <<trap, stack, transition, user>>
       \/ ~Head(mainQueue).error /\ Present(Head(mainQueue).of, "menu")
    /\ UNCHANGED <<given, handles, heard, auth>>

-----------------------------------------------------------------------------
RunBlock == RunInitial \/ RunNotify \/ RunInvoke \/ RunDone

Respond(r) == RequestFails(r) \/ \E u \in Users : SaveUser(r, u)

Taps == OnJoinPressed \/ OnSignInButtonPressed \/ OnSignUpButtonPressed

Next ==
    \/ Relaunch \/ Taps \/ FinishTransition \/ AssignUser \/ LoadUser \/ RunBlock
    \/ \E r \in 1..MaxRequests : Submit(r) \/ Respond(r)

\* The system runs its queues and its animations, and a request is answered.
FairSpec ==
    /\ Init /\ [][Next]_vars
    /\ WF_vars(FinishTransition) /\ WF_vars(AssignUser) /\ WF_vars(LoadUser)
    /\ WF_vars(RunBlock)
    /\ \A r \in 1..MaxRequests : WF_vars(Respond(r))

-----------------------------------------------------------------------------
\* FIRAuth calls back exactly the sign-in or sign-up controller that is on screen, or
\* was until a presentation still being animated ends, and viewDidDisappear always
\* finds its handle.
OnScreen == IF transition THEN Top - 1 ELSE Top

ListenerOnScreen ==
    /\ trap # "handle"
    /\ listeners = {i \in {OnScreen} : stack[i] \in AuthScenes}

\* A main menu that was reached by signing in or up knows a user, although the
\* listener that sets it and the completion that presents the menu are two blocks.
SignedInAtMenu == stack[Top] = "menu" /\ stack[Top - 1] \in AuthScenes

MenuHasUser == SignedInAtMenu => user # None

\* ... and for a user who waits for each tap, it is the one that is signed in.
MenuUserIsCurrent == patient /\ SignedInAtMenu => user = currentUser

\* A user that is signed in is the one that a relaunch at this moment would find.
StoredIsCurrent == Readable /\ currentUser # None => stored = currentUser

\* Once there is a current user, a patient user does not stay on the sign-in or
\* sign-up scene.
SignedInLeads ==
    (patient /\ currentUser # None /\ stack[Top] \in AuthScenes)
        ~> stack[Top] \notin AuthScenes
=============================================================================
