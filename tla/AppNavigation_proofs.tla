------------------------ MODULE AppNavigation_proofs ------------------------
(***************************************************************************)
(* What AppNavigation guarantees for any set of accounts, any depth of the *)
(* stack and any number of sign-ins in flight.                             *)
(***************************************************************************)
EXTENDS AppNavigation, TLAPS

Spec == Init /\ [][Next]_vars

ScreenInv ==
    /\ trap \in {"none", "identifier", "handle"}
    /\ stack \in Seq(Scenes) /\ Top \in Levels
    /\ transition \in BOOLEAN /\ (transition => Top > 1)
    /\ stack[Top] # "menu" => Top < MaxDepth
    /\ handles \subseteq Levels
    /\ stack[OnScreen] \in AuthScenes => OnScreen \in handles
    /\ ListenerOnScreen

QueueInv ==
    /\ mainQueue \in Seq(Blocks)
    /\ previousUserID \in [Levels -> UserOrNone \cup {"never"}]
    /\ requests \in [1..MaxRequests -> 0..MaxDepth]

\* Nobody is signed in until the keychain has been read; while a user is saved and not
\* yet the current one, it is the stored one.
UserInv ==
    /\ user \in UserOrNone /\ currentUser \in UserOrNone /\ stored \in UserOrNone
    /\ work \in Works
    /\ work.step = "load" => currentUser = None
    /\ work.step = "saved" => stored = work.user
    /\ StoredIsCurrent

GivenInv == {patient, identified} \subseteq BOOLEAN

-----------------------------------------------------------------------------
LEMMA InitScreen == Init => ScreenInv
<1> SUFFICES ASSUME Init PROVE ScreenInv
  OBVIOUS
<1>1. stack = <<"join">> /\ stack \in Seq(Scenes) /\ Top = 1 /\ stack[1] = "join"
  BY DEF Init, Top, Scenes
<1>2. ListenerOnScreen /\ stack[OnScreen] \notin AuthScenes
  BY <1>1 DEF Init, ListenerOnScreen, OnScreen, AuthScenes
<1>3. 1 \in Levels /\ 1 < MaxDepth
  BY NavigationAssumption DEF Levels
<1>4. trap = "none" /\ transition = FALSE /\ handles = {}
  BY DEF Init
<1> QED
  BY <1>1, <1>2, <1>3, <1>4 DEF ScreenInv

LEMMA SameScreen ==
    ASSUME ScreenInv, UNCHANGED <<trap, stack, transition, handles, listeners>>
    PROVE  ScreenInv'
  BY DEF ScreenInv, Top, Levels, OnScreen, ListenerOnScreen

LEMMA PresentScreen ==
    ASSUME ScreenInv, NavigationAssumption,
           NEW from, NEW scene \in {"signin", "signup", "menu"},
           scene # "menu" => Top + 2 <= MaxDepth,
           scene = "menu" => (CanPresent(from) => stack[Top] # "menu"),
           Present(from, scene), UNCHANGED <<handles, listeners>>
    PROVE  ScreenInv'
<1>1. CASE UNCHANGED <<stack, transition>>
  BY <1>1 DEF ScreenInv, Present, Top, Levels, OnScreen, ListenerOnScreen
<1>2. CASE /\ CanPresent(from) /\ stack' = Append(stack, scene) /\ transition' = TRUE
           /\ UNCHANGED trap
  <2>1. /\ stack' \in Seq(Scenes) /\ Top' = Top + 1
        /\ \A i \in 1..Top : stack'[i] = stack[i]
        /\ stack'[Top'] = scene
    BY <1>2 DEF ScreenInv, Top, Scenes, Levels
  <2>2. Top' \in Levels /\ Top' > 1 /\ (scene # "menu" => Top' < MaxDepth)
    BY <1>2, <2>1, NavigationAssumption DEF ScreenInv, Levels
  <2>3. OnScreen' = Top /\ OnScreen = Top
    BY <1>2, <2>1 DEF OnScreen, CanPresent, ScreenInv, Levels
  <2>4. stack'[OnScreen'] = stack[OnScreen]
    BY <2>1, <2>3 DEF ScreenInv, Levels
  <2> QED
    BY <1>2, <2>1, <2>2, <2>3, <2>4 DEF ScreenInv, ListenerOnScreen, Levels
<1> QED BY <1>1, <1>2 DEF Present

LEMMA FinishScreen ==
    ASSUME ScreenInv, NavigationAssumption, FinishTransition
    PROVE  ScreenInv'
<1> DEFINE new == stack[Top]
<1>0. /\ Top \in Levels /\ Top > 1 /\ Top - 1 \in Levels /\ OnScreen = Top - 1
      /\ new \in Scenes /\ stack[Top - 1] \in Scenes
  BY NavigationAssumption DEF FinishTransition, ScreenInv, OnScreen, Levels, Top
<1>1. trap' = trap
  BY <1>0 DEF FinishTransition, ScreenInv
<1>2. /\ listeners' = {i \in {Top} : new \in AuthScenes}
      /\ new \in AuthScenes => Top \in handles'
      /\ handles' \subseteq Levels
  BY <1>0 DEF FinishTransition, ScreenInv, ListenerOnScreen, RemovedWith
<1>3. CASE PresentsMenu(new)
  <2>0. stack' = Append(stack, "menu") /\ new = "signin"
    BY <1>3 DEF FinishTransition, PresentsMenu
  <2>1. /\ stack' \in Seq(Scenes) /\ Top' = Top + 1
        /\ stack'[Top] = stack[Top] /\ stack'[Top'] = "menu" /\ Top < MaxDepth
    BY <1>0, <2>0 DEF ScreenInv, Top, Scenes, Levels
  <2>t. transition' = TRUE
    BY <1>3, Zenon DEF FinishTransition
  <2>2. OnScreen' = Top /\ Top' \in Levels /\ Top' > 1
    BY <1>0, <2>1, <2>t, NavigationAssumption DEF OnScreen, Levels
  <2> QED
    BY <1>0, <1>1, <1>2, <2>1, <2>t, <2>2 DEF ScreenInv, ListenerOnScreen
<1>4. CASE ~PresentsMenu(new)
  <2>0. PresentsMenu(new) = FALSE
    BY <1>4 DEF PresentsMenu
  <2>t. transition' = FALSE
    BY <2>0, Zenon DEF FinishTransition
  <2>1. stack' = stack /\ Top' = Top /\ OnScreen' = Top
    BY <1>0, <1>4, <2>t DEF FinishTransition, Top, OnScreen
  <2> QED
    BY <1>0, <1>1, <1>2, <2>1, <2>t DEF ScreenInv, ListenerOnScreen
<1> QED BY <1>3, <1>4

-----------------------------------------------------------------------------
\* What comes back from FIRAuth belongs to a sign-in or sign-up controller.
IsAuth(i) == i \in 1..Top /\ stack[i] \in AuthScenes

OriginInv ==
    /\ \A r \in 1..MaxRequests : requests[r] # 0 => IsAuth(requests[r])
    /\ work.step = "saved" => IsAuth(work.of)
    /\ \A j \in 1..Len(mainQueue) :
          mainQueue[j].block = "done" => IsAuth(mainQueue[j].of)

\* The stack only grows, so that it goes on belonging to it.
LEMMA StackGrows ==
    ASSUME ScreenInv, stack' = stack \/ \E scene \in Scenes : stack' = Append(stack, scene)
    PROVE  \A i : IsAuth(i) => IsAuth(i)'
  BY DEF ScreenInv, IsAuth, Top, Levels, Scenes

LEMMA OriginGrows ==
    ASSUME ScreenInv, OriginInv, UNCHANGED <<requests, work, mainQueue>>,
           stack' = stack \/ \E scene \in Scenes : stack' = Append(stack, scene)
    PROVE  OriginInv'
  BY StackGrows DEF OriginInv

\* What Append gives.
LEMMA AppendGives ==
    ASSUME NEW S, NEW q \in Seq(S), NEW b \in S
    PROVE  /\ Append(q, b) \in Seq(S)
           /\ Len(q) \in Nat /\ Len(Append(q, b)) = Len(q) + 1
           /\ \A j \in 1..Len(q) : Append(q, b)[j] = q[j]
           /\ Append(q, b)[Len(q) + 1] = b
  OBVIOUS

\* Blocks leave the queue at its head, or become another one there.
LEMMA OriginOfTail ==
    ASSUME ScreenInv, QueueInv, OriginInv, mainQueue # <<>>, mainQueue' = Tail(mainQueue),
           UNCHANGED <<requests, work>>,
           stack' = stack \/ \E scene \in Scenes : stack' = Append(stack, scene)
    PROVE  OriginInv'
<1>1. /\ Len(mainQueue') = Len(mainQueue) - 1 /\ Len(mainQueue) \in Nat
      /\ \A j \in 1..Len(mainQueue') : mainQueue'[j] = mainQueue[j + 1]
  BY DEF QueueInv
<1> QED
  BY <1>1, StackGrows DEF OriginInv

\* Blocks are added at the end of the queue.
LEMMA OriginOfAppend ==
    ASSUME ScreenInv, QueueInv, OriginInv, NEW b,
           mainQueue' = Append(mainQueue, b), b.block = "done" => IsAuth(b.of)',
           UNCHANGED work,
           \A r \in 1..MaxRequests : requests'[r] \in {0, requests[r]},
           stack' = stack \/ \E scene \in Scenes : stack' = Append(stack, scene)
    PROVE  OriginInv'
<1>1. /\ Len(mainQueue') = Len(mainQueue) + 1 /\ Len(mainQueue) \in Nat
      /\ \A j \in 1..Len(mainQueue) : mainQueue'[j] = mainQueue[j]
      /\ mainQueue'[Len(mainQueue) + 1] = b
  BY DEF QueueInv
<1>2. \A j \in 1..Len(mainQueue') : j \in 1..Len(mainQueue) \/ j = Len(mainQueue) + 1
  BY <1>1
<1> QED
  BY <1>1, <1>2, StackGrows DEF OriginInv

\* The same when the stack stays.
LEMMA QueueGains ==
    ASSUME ScreenInv, QueueInv, OriginInv, UNCHANGED stack, NEW b \in Blocks,
           mainQueue' = Append(mainQueue, b), b.block = "done" => IsAuth(b.of),
           UNCHANGED work,
           \A r \in 1..MaxRequests : requests'[r] \in {0, requests[r]}
    PROVE  OriginInv'
<1>1. mainQueue \in Seq(Blocks)
  BY DEF QueueInv
<1>2. \A j \in 1..Len(mainQueue') : j \in 1..Len(mainQueue) \/ j = Len(mainQueue) + 1
  BY <1>1, AppendGives
<1>3. \A i : IsAuth(i) => i \in 1..Top' /\ stack'[i] \in AuthScenes
  BY DEF IsAuth, Top
<1>4. /\ \A j \in 1..Len(mainQueue) : mainQueue'[j] = mainQueue[j]
      /\ mainQueue'[Len(mainQueue) + 1] = b
  BY <1>1, AppendGives
<1> QED
  BY <1>2, <1>3, <1>4 DEF OriginInv, IsAuth

\* The block at the head of the queue.
LEMMA HeadBlock ==
    ASSUME QueueInv, mainQueue # <<>>
    PROVE  /\ Head(mainQueue) \in Blocks /\ Head(mainQueue) = mainQueue[1]
           /\ 1 \in 1..Len(mainQueue) /\ Tail(mainQueue) \in Seq(Blocks)
  BY DEF QueueInv

LEMMA HeadOf ==
    ASSUME QueueInv, mainQueue # <<>>, Head(mainQueue).block # "notify"
    PROVE  Head(mainQueue).of \in Levels
  BY HeadBlock DEF Blocks

-----------------------------------------------------------------------------
NavInv == GivenInv /\ ScreenInv /\ QueueInv /\ OriginInv /\ UserInv

LEMMA SameQueue ==
    ASSUME QueueInv, UNCHANGED <<mainQueue, previousUserID, requests>>
    PROVE  QueueInv'
  BY DEF QueueInv

LEMMA SameUser ==
    ASSUME UserInv, UNCHANGED <<user, currentUser, stored, work>>
    PROVE  UserInv'
  BY DEF UserInv, StoredIsCurrent, Readable

LEMMA SameOrigin ==
    ASSUME OriginInv, UNCHANGED <<requests, work, mainQueue, stack>>
    PROVE  OriginInv'
  BY DEF OriginInv, IsAuth, Top

LEMMA RelaunchStep ==
    ASSUME NavInv, Relaunch
    PROVE  NavInv'
<1>1. GivenInv'
  BY DEF NavInv, GivenInv, Relaunch, given
<1>2. ScreenInv'
  <2>1. stack' = <<"join">> /\ stack' \in Seq(Scenes) /\ Top' = 1 /\ stack'[1] = "join"
    BY DEF Relaunch, Top, Scenes
  <2>2. ListenerOnScreen' /\ stack'[OnScreen'] \notin AuthScenes
    BY <2>1 DEF Relaunch, ListenerOnScreen, OnScreen, AuthScenes
  <2>3. 1 \in Levels /\ 1 < MaxDepth
    BY NavigationAssumption DEF Levels
  <2>4. trap' = "none" /\ transition' = FALSE /\ handles' = {}
    BY DEF Relaunch
  <2> QED
    BY <2>1, <2>2, <2>3, <2>4 DEF ScreenInv
<1>3. QueueInv'
  BY NavigationAssumption DEF QueueInv, Relaunch
<1>4. OriginInv'
  BY DEF OriginInv, Relaunch
<1>5. UserInv'
  BY DEF NavInv, UserInv, Relaunch, UserOrNone, Works, StoredIsCurrent
<1> QED BY <1>1, <1>2, <1>3, <1>4, <1>5 DEF NavInv

LEMMA InitInv == Init => NavInv
<1> SUFFICES ASSUME Init PROVE NavInv
  OBVIOUS
<1>1. QueueInv
  BY NavigationAssumption DEF QueueInv, Init
<1>2. OriginInv
  BY DEF OriginInv, Init
<1>3. UserInv
  BY DEF UserInv, Init, UserOrNone, Works, StoredIsCurrent, Readable
<1> QED BY InitScreen, <1>1, <1>2, <1>3 DEF NavInv, GivenInv, Init

LEMMA PresentUser ==
    ASSUME UserInv, NEW from, NEW scene, Present(from, scene),
           UNCHANGED <<currentUser, stored, work>>
    PROVE  UserInv'
  BY DEF UserInv, Present, UserAfterLoad, StoredIsCurrent, Readable

LEMMA TapStep ==
    ASSUME NavInv, Taps
    PROVE  NavInv'
<1>1. PICK scene \in {"join", "signin", "signup"}, next \in {"menu", "signin", "signup"} :
          Tap(scene, next)
  BY DEF Taps, OnJoinPressed, OnSignInButtonPressed, OnSignUpButtonPressed
<1>2. /\ Present(Top, next) /\ UNCHANGED <<given, handles, mainQueue, heard, auth>>
      /\ stack[Top] # "menu" /\ (next # "menu" => Top + 2 <= MaxDepth)
  BY <1>1 DEF Tap
<1>3. stack' = stack \/ stack' = Append(stack, next)
  BY <1>2 DEF Present
<1>4. ScreenInv'
  BY <1>2, PresentScreen, NavigationAssumption DEF NavInv, heard
<1>5. OriginInv'
  BY <1>2, <1>3, OriginGrows DEF NavInv, auth, Scenes
<1>6. UserInv'
  BY <1>2, PresentUser DEF NavInv, auth
<1>7. QueueInv'
  BY <1>2, SameQueue DEF NavInv, auth, heard
<1> QED BY <1>2, <1>4, <1>5, <1>6, <1>7 DEF NavInv, GivenInv, given

LEMMA FinishStep ==
    ASSUME NavInv, FinishTransition
    PROVE  NavInv'
<1>1. ScreenInv'
  BY FinishScreen, NavigationAssumption DEF NavInv
<1>2. stack' = stack \/ stack' = Append(stack, "menu")
  BY DEF FinishTransition
<1>3. UserInv'
  BY DEF NavInv, UserInv, FinishTransition, StoredIsCurrent, Readable, auth
<1>4. CASE mainQueue' = Append(mainQueue, [block |-> "initial", of |-> Top])
  <2>1. [block |-> "initial", of |-> Top] \in Blocks
    BY DEF NavInv, ScreenInv, Blocks
  <2>2. QueueInv'
    BY <1>4, <2>1 DEF NavInv, QueueInv, FinishTransition, auth
  <2>3. OriginInv'
    BY <1>2, <1>4, OriginOfAppend DEF NavInv, FinishTransition, auth, Scenes
  <2> QED BY <1>1, <1>3, <2>2, <2>3 DEF NavInv, GivenInv, FinishTransition, given
<1>5. CASE UNCHANGED mainQueue
  <2>1. QueueInv'
    BY <1>5, SameQueue DEF NavInv, FinishTransition, auth
  <2>2. OriginInv'
    BY <1>2, <1>5, OriginGrows DEF NavInv, FinishTransition, auth, Scenes
  <2> QED BY <1>1, <1>3, <2>1, <2>2 DEF NavInv, GivenInv, FinishTransition, given
<1> QED BY <1>4, <1>5 DEF FinishTransition

LEMMA SubmitStep ==
    ASSUME NavInv, NEW r \in 1..MaxRequests, Submit(r)
    PROVE  NavInv'
<1>1. ScreenInv'
  BY SameScreen DEF NavInv, Submit, screens, heard
<1>2. UserInv'
  BY SameUser DEF NavInv, Submit
<1>3. requests' = [requests EXCEPT ![r] = Top] /\ Top \in 0..MaxDepth
  BY NavigationAssumption DEF NavInv, ScreenInv, Levels, Submit
<1>4. QueueInv'
  BY <1>3 DEF NavInv, QueueInv, Submit, heard
<1>5. IsAuth(Top)
  BY DEF NavInv, ScreenInv, Submit, IsAuth, Levels
<1>6. OriginInv'
  BY <1>3, <1>5 DEF NavInv, OriginInv, Submit, IsAuth, Top, screens
<1> QED BY <1>1, <1>2, <1>4, <1>6 DEF NavInv, GivenInv, Submit, given

LEMMA RespondStep ==
    ASSUME NavInv, NEW r \in 1..MaxRequests, Respond(r)
    PROVE  NavInv'
<1>1. /\ ScreenInv' /\ requests[r] # 0 /\ requests[r] \in Levels
      /\ IsAuth(requests[r]) /\ stack' = stack
      /\ requests' = [requests EXCEPT ![r] = 0]
      /\ GivenInv'
  <2>1. /\ UNCHANGED <<given, trap, screens, heard>> /\ requests[r] # 0
        /\ requests' = [requests EXCEPT ![r] = 0]
    BY DEF Respond, RequestFails, SaveUser
  <2>2. ScreenInv' /\ GivenInv'
    BY <2>1, SameScreen DEF NavInv, screens, heard, GivenInv, given
  <2>3. requests[r] \in Levels
    BY <2>1, NavigationAssumption DEF NavInv, QueueInv, Levels
  <2>4. IsAuth(requests[r])
    BY <2>1 DEF NavInv, OriginInv
  <2>5. stack' = stack
    BY <2>1 DEF screens
  <2> QED
    BY <2>1, <2>2, <2>3, <2>4, <2>5
<1>2. /\ requests' \in [1..MaxRequests -> 0..MaxDepth]
      /\ \A q \in 1..MaxRequests : requests'[q] \in {0, requests[q]}
  BY <1>1, NavigationAssumption DEF NavInv, QueueInv
<1>3. CASE RequestFails(r)
  <2>1. Done(requests[r], TRUE) \in Blocks
    BY <1>1 DEF Done, Blocks
  <2>2. mainQueue' = Append(mainQueue, Done(requests[r], TRUE))
    BY <1>3 DEF RequestFails
  <2>3. mainQueue' \in Seq(Blocks)
    BY <2>1, <2>2, AppendGives DEF NavInv, QueueInv
  <2>4. QueueInv'
    BY <1>2, <1>3, <2>3 DEF NavInv, QueueInv, RequestFails, heard
  <2>5. OriginInv'
    <3> DEFINE b == Done(requests[r], TRUE)
    <3>1. b.of = requests[r]
      BY DEF Done
    <3>2. UNCHANGED work
      BY <1>3 DEF RequestFails
    <3> QED
      BY <1>1, <1>2, <2>1, <2>2, <3>1, <3>2, QueueGains DEF NavInv
  <2>6. UserInv'
    BY <1>3, SameUser DEF NavInv, RequestFails
  <2> QED BY <1>1, <2>4, <2>5, <2>6 DEF NavInv
<1>4. ASSUME NEW u \in Users, SaveUser(r, u) PROVE NavInv'
  <2>1. QueueInv'
    BY <1>2, <1>4 DEF NavInv, QueueInv, SaveUser, heard
  <2>2. OriginInv'
    BY <1>1, <1>2, <1>4 DEF NavInv, OriginInv, SaveUser, IsAuth, Top, screens
  <2>3. UserInv'
    BY <1>1, <1>4 DEF NavInv, UserInv, SaveUser, UserOrNone, Works, StoredIsCurrent,
                      Readable
  <2> QED BY <1>1, <2>1, <2>2, <2>3 DEF NavInv
<1> QED BY <1>3, <1>4 DEF Respond

\* The notification and the completion enter the queue together, in this order.
LEMMA AssignGives ==
    ASSUME NavInv, AssignUser
    PROVE  /\ Len(mainQueue) \in Nat /\ Len(mainQueue') = Len(mainQueue) + 2
           /\ \A j \in 1..Len(mainQueue) : mainQueue'[j] = mainQueue[j]
           /\ mainQueue'[Len(mainQueue) + 1] = [block |-> "notify"]
           /\ mainQueue'[Len(mainQueue) + 2] = Done(work.of, FALSE)
           /\ work.user \in Users /\ IsAuth(work.of)
<1>1. work.user \in Users /\ work.of \in Levels /\ IsAuth(work.of)
  BY DEF NavInv, UserInv, OriginInv, Works, AssignUser
<1>2. /\ mainQueue \in Seq(Blocks) /\ [block |-> "notify"] \in Blocks
      /\ Done(work.of, FALSE) \in Blocks
  BY <1>1 DEF NavInv, QueueInv, Blocks, Done
<1>3. \A b, c \in Blocks : mainQueue' = mainQueue \o <<b, c>> =>
          /\ Len(mainQueue) \in Nat /\ Len(mainQueue') = Len(mainQueue) + 2
          /\ \A j \in 1..Len(mainQueue) : mainQueue'[j] = mainQueue[j]
          /\ mainQueue'[Len(mainQueue) + 1] = b
          /\ mainQueue'[Len(mainQueue) + 2] = c
  BY <1>2
<1>4. mainQueue' = mainQueue \o <<[block |-> "notify"], Done(work.of, FALSE)>>
  BY DEF AssignUser, Dispatched
<1>5. QED
  BY <1>1, <1>2, <1>3, <1>4

LEMMA AssignStep ==
    ASSUME NavInv, AssignUser
    PROVE  NavInv'
<1> DEFINE n == Len(mainQueue)
<1>1. ScreenInv' /\ GivenInv'
  BY SameScreen DEF NavInv, AssignUser, screens, heard, GivenInv, given
<1>2. /\ n \in Nat /\ Len(mainQueue') = n + 2
      /\ \A j \in 1..n : mainQueue'[j] = mainQueue[j]
      /\ mainQueue'[n + 1] = [block |-> "notify"]
      /\ mainQueue'[n + 2] = Done(work.of, FALSE)
      /\ work.user \in Users /\ IsAuth(work.of)
  BY AssignGives
<1>3. UserInv'
  BY <1>2 DEF NavInv, UserInv, AssignUser, Works, StoredIsCurrent
<1>4. QueueInv'
  <2>1. work.of \in Levels
    BY DEF NavInv, UserInv, Works, AssignUser
  <2>2. Dispatched \in Seq(Blocks)
    BY <2>1 DEF Dispatched, Done, Blocks
  <2>3. QED
    BY <2>2 DEF NavInv, QueueInv, AssignUser, heard
<1>5. OriginInv'
  <2>1. \A j \in 1..Len(mainQueue') : j \in 1..n \/ j = n + 1 \/ j = n + 2
    BY <1>2
  <2>2. ASSUME NEW j \in 1..Len(mainQueue'), mainQueue'[j].block = "done"
        PROVE  IsAuth(mainQueue'[j].of)
    <3>1. CASE j \in 1..n
      BY <1>2, <2>2, <3>1 DEF NavInv, OriginInv
    <3>2. CASE j = n + 1
      BY <1>2, <2>2, <3>2
    <3>3. CASE j = n + 2
      BY <1>2, <3>3 DEF Done
    <3>4. QED
      BY <2>1, <3>1, <3>2, <3>3
  <2>3. QED
    BY <2>2 DEF NavInv, OriginInv, AssignUser, IsAuth, Top, screens
<1>6. QED
  BY <1>1, <1>3, <1>4, <1>5 DEF NavInv

LEMMA LoadStep ==
    ASSUME NavInv, LoadUser
    PROVE  NavInv'
<1>1. ScreenInv' /\ GivenInv'
  BY SameScreen DEF NavInv, LoadUser, screens, heard, GivenInv, given
<1>2. UserInv'
  <2>1. work' = [step |-> "idle"] /\ UNCHANGED <<user, stored>>
    BY DEF LoadUser
  <2>2. work' \in Works /\ work'.step = "idle"
    BY <2>1 DEF Works
  <2>3. currentUser' = stored \/ currentUser' = None
    BY DEF NavInv, UserInv, LoadUser
  <2> QED
    BY <2>1, <2>2, <2>3 DEF NavInv, UserInv, UserOrNone, StoredIsCurrent
<1>3. work'.step # "saved" /\ UNCHANGED <<requests, stack, previousUserID>>
  BY DEF LoadUser, screens, heard
<1>4. CASE UNCHANGED mainQueue
  <2>1. OriginInv'
    BY <1>3, <1>4 DEF NavInv, OriginInv, IsAuth, Top
  <2> QED BY <1>1, <1>2, <1>3, <1>4, <2>1, SameQueue DEF NavInv
<1>5. CASE mainQueue' = Append(mainQueue, [block |-> "notify"])
  <2>1. [block |-> "notify"] \in Blocks /\ mainQueue \in Seq(Blocks)
    BY DEF Blocks, NavInv, QueueInv
  <2>2. QueueInv'
    BY <1>3, <1>5, <2>1, AppendGives DEF NavInv, QueueInv
  <2>3. ASSUME NEW j \in 1..Len(mainQueue'), mainQueue'[j].block = "done"
        PROVE  j \in 1..Len(mainQueue) /\ mainQueue'[j] = mainQueue[j]
    <3>1. j \in 1..Len(mainQueue) \/ j = Len(mainQueue) + 1
      BY <1>5, <2>1, AppendGives
    <3>2. mainQueue'[Len(mainQueue) + 1] = [block |-> "notify"]
      BY <1>5, <2>1, AppendGives
    <3>3. j # Len(mainQueue) + 1
      BY <2>3, <3>2
    <3> QED BY <1>5, <2>1, <3>1, <3>3, AppendGives
  <2>4. OriginInv'
    BY <1>3, <2>3 DEF NavInv, OriginInv, IsAuth, Top
  <2> QED BY <1>1, <1>2, <2>2, <2>4 DEF NavInv
<1> QED BY <1>4, <1>5 DEF LoadUser

\* A listener is invoked in two halves, of which the first stays at the head.
LEMMA ReplacedStep ==
    ASSUME NavInv, NEW i \in Levels, mainQueue # <<>>, mainQueue' = Replaced(Invoke(i)),
           UNCHANGED <<given, trap, screens, user, heard, auth>>
    PROVE  NavInv'
<1> DEFINE b == Invoke(i)
<1>1. b \in Blocks /\ b.block = "invoke"
  BY DEF Invoke, Blocks, NavInv, UserInv
<1>2. mainQueue \in Seq(Blocks) /\ Len(mainQueue) \in Nat
  BY DEF NavInv, QueueInv
<1> HIDE DEF b
<1>3. mainQueue' = <<b>> \o Tail(mainQueue)
  BY DEF Replaced, b
<1>4. /\ mainQueue' \in Seq(Blocks) /\ Len(mainQueue') = Len(mainQueue)
      /\ mainQueue'[1] = b
      /\ \A j \in 2..Len(mainQueue) : mainQueue'[j] = mainQueue[j]
  BY <1>1, <1>2, <1>3
<1>5. QueueInv'
  BY <1>4 DEF NavInv, QueueInv, heard, auth
<1>6. ASSUME NEW j \in 1..Len(mainQueue'), mainQueue'[j].block = "done"
      PROVE  j \in 1..Len(mainQueue) /\ mainQueue'[j] = mainQueue[j]
  <2>1. j # 1
    BY <1>1, <1>4, <1>6
  <2> QED BY <1>2, <1>4, <2>1
<1>7. OriginInv'
  BY <1>6 DEF NavInv, OriginInv, IsAuth, Top, screens, auth
<1>8. ScreenInv' /\ UserInv' /\ GivenInv'
  BY SameScreen, SameUser DEF NavInv, GivenInv, given, screens, heard, auth
<1> QED BY <1>5, <1>7, <1>8 DEF NavInv

LEMMA RunInitialStep ==
    ASSUME NavInv, RunInitial
    PROVE  NavInv'
  BY HeadOf, ReplacedStep DEF NavInv, RunInitial, HeadIs

LEMMA RunNotifyStep ==
    ASSUME NavInv, RunNotify
    PROVE  NavInv'
<1>1. CASE \E i \in listeners : mainQueue' = Replaced(Invoke(i))
  <2>1. listeners \subseteq Levels
    BY NavigationAssumption DEF NavInv, ScreenInv, ListenerOnScreen, OnScreen, Levels
  <2> QED BY <1>1, <2>1, ReplacedStep DEF RunNotify, HeadIs
<1>2. CASE mainQueue' = Tail(mainQueue)
  <2>1. mainQueue # <<>> /\ UNCHANGED <<given, trap, screens, user, heard, auth>>
    BY DEF RunNotify, HeadIs
  <2>2. OriginInv'
    BY <1>2, <2>1, OriginOfTail DEF NavInv, screens, auth
  <2>3. QueueInv'
    BY <1>2, <2>1, HeadBlock DEF NavInv, QueueInv, heard, auth
  <2> QED
    BY <2>1, <2>2, <2>3, SameScreen, SameUser
    DEF NavInv, GivenInv, given, screens, heard, auth
<1> QED BY <1>1, <1>2 DEF RunNotify

LEMMA RunInvokeStep ==
    ASSUME NavInv, RunInvoke
    PROVE  NavInv'
<1>1. /\ mainQueue # <<>> /\ Head(mainQueue).block = "invoke"
      /\ mainQueue' = Tail(mainQueue)
      /\ UNCHANGED <<given, trap, screens, listeners, auth>>
  BY DEF RunInvoke, HeadIs
<1>2. /\ previousUserID' = [previousUserID EXCEPT
              ![Head(mainQueue).of] = Head(mainQueue).user]
      /\ user' \in {user, currentUser}
  BY DEF RunInvoke
<1>3. Head(mainQueue).user \in UserOrNone
  BY <1>1, HeadBlock DEF NavInv, Blocks
<1>4. QueueInv'
  BY <1>1, <1>2, <1>3, HeadBlock DEF NavInv, QueueInv, auth
<1>5. OriginInv'
  BY <1>1, OriginOfTail DEF NavInv, screens, auth
<1>6. UserInv'
  BY <1>1, <1>2 DEF NavInv, UserInv, auth, StoredIsCurrent, Readable
<1>7. ScreenInv' /\ GivenInv'
  BY <1>1, SameScreen DEF NavInv, GivenInv, given, screens
<1> QED BY <1>4, <1>5, <1>6, <1>7 DEF NavInv

\* The completion of a sign-in presents the menu only from a scene in front, and what
\* it belongs to is a sign-in or sign-up controller: the stack stays within its bound.
LEMMA RunDoneStep ==
    ASSUME NavInv, RunDone
    PROVE  NavInv'
<1> DEFINE i == Head(mainQueue).of
<1>1. /\ mainQueue # <<>> /\ Head(mainQueue).block = "done"
      /\ mainQueue' = Tail(mainQueue)
      /\ UNCHANGED <<given, handles, heard, auth>>
  BY DEF RunDone, HeadIs
<1>2. IsAuth(i)
  BY <1>1, HeadBlock DEF NavInv, OriginInv
<1>3. QueueInv'
  BY <1>1, HeadBlock DEF NavInv, QueueInv, heard, auth
<1>4. CASE UNCHANGED <<trap, stack, transition, user>>
  <2>1. OriginInv'
    BY <1>1, <1>4, OriginOfTail DEF NavInv, auth
  <2> QED
    BY <1>1, <1>3, <1>4, <2>1, SameScreen, SameUser DEF NavInv, GivenInv, given, heard, auth
<1>5. CASE Present(i, "menu")
  <2>1. CanPresent(i) => stack[Top] # "menu"
    BY <1>2 DEF CanPresent, IsAuth, AuthScenes
  <2>2. ScreenInv'
    BY <1>1, <1>5, <2>1, PresentScreen, NavigationAssumption DEF NavInv, heard
  <2>3. stack' = stack \/ stack' = Append(stack, "menu")
    BY <1>5 DEF Present
  <2>4. OriginInv'
    BY <1>1, <2>3, OriginOfTail DEF NavInv, auth, Scenes
  <2>5. UserInv'
    BY <1>1, <1>5, PresentUser DEF NavInv, auth
  <2> QED BY <1>1, <1>3, <2>2, <2>4, <2>5 DEF NavInv, GivenInv, given
<1> QED BY <1>4, <1>5 DEF RunDone

LEMMA NavStep == NavInv /\ [Next]_vars => NavInv'
<1> SUFFICES ASSUME NavInv, [Next]_vars PROVE NavInv'
  OBVIOUS
<1>1. CASE Relaunch
  BY <1>1, RelaunchStep
<1>2. CASE Taps
  BY <1>2, TapStep
<1>3. CASE FinishTransition
  BY <1>3, FinishStep
<1>4. CASE AssignUser
  BY <1>4, AssignStep
<1>5. CASE LoadUser
  BY <1>5, LoadStep
<1>6. CASE RunBlock
  BY <1>6, RunInitialStep, RunNotifyStep, RunInvokeStep, RunDoneStep DEF RunBlock
<1>7. ASSUME NEW r \in 1..MaxRequests, Submit(r) \/ Respond(r) PROVE NavInv'
  BY <1>7, SubmitStep, RespondStep
<1>8. CASE UNCHANGED vars
  BY <1>8, SameScreen, SameQueue, SameUser, SameOrigin
  DEF vars, given, screens, heard, auth, NavInv, GivenInv
<1> QED BY <1>1, <1>2, <1>3, <1>4, <1>5, <1>6, <1>7, <1>8 DEF Next

LEMMA NavAlways == Spec => []NavInv
  BY InitInv, NavStep, PTL DEF Spec

-----------------------------------------------------------------------------
\* Every variable keeps its type; that listeners are levels of the stack follows from
\* ListenerOnScreen.
THEOREM NavigationTypes == Spec => []TypeOK
<1>1. NavInv => TypeOK
  BY NavigationAssumption
  DEF NavInv, GivenInv, ScreenInv, QueueInv, UserInv, TypeOK, ListenerOnScreen
<1> QED BY <1>1, NavAlways, PTL

\* However deep the stack gets and however taps, animations and answers interleave,
\* FIRAuth calls back the controller on screen alone, and viewDidDisappear never
\* unwraps a handle that viewDidAppear has not set.
THEOREM ListenerFollowsScreen == Spec => []ListenerOnScreen
<1>1. NavInv => ListenerOnScreen
  BY DEF NavInv, ScreenInv
<1> QED BY <1>1, NavAlways, PTL

\* Whenever auth.currentUser can be read, a user that is signed in is the one in the
\* keychain: a relaunch at that moment finds the same user.
THEOREM RelaunchFindsUser == Spec => []StoredIsCurrent
<1>1. NavInv => StoredIsCurrent
  BY DEF NavInv, UserInv
<1> QED BY <1>1, NavAlways, PTL
=============================================================================
