------------------------ MODULE NavigationUser_proofs ------------------------
(***************************************************************************)
(* Who the main menu says is signed in, for any set of accounts, depth of  *)
(* the stack, number of sign-ins in flight and length of the main queue.   *)
(*                                                                         *)
(* Globals.user is set by a listener, and the menu is presented by the     *)
(* completion of the sign-in: two blocks of the main queue, between which  *)
(* anything may run that was dispatched before.                            *)
(***************************************************************************)
EXTENDS AppNavigation_proofs

-----------------------------------------------------------------------------
(***************************************************************************)
(* The inductive invariant for any user.                                   *)
(***************************************************************************)
\* The completion of a sign-in that succeeded: it presents the menu.
Succeeds(b) == b.block = "done" /\ ~b.error

\* A block that leads to Globals.user being set, if a sign-in controller is on screen.
Announces(b) == b.block = "notify" \/ (b.block = "invoke" /\ b.user # None)

\* What is in flight came from a controller that is or was on screen, never from one
\* that is still being presented.
FrontInv ==
    /\ \A r \in 1..MaxRequests : requests[r] <= OnScreen
    /\ work.step = "saved" => work.of <= OnScreen
    /\ \A j \in 1..Len(mainQueue) :
          mainQueue[j].block = "done" => mainQueue[j].of <= OnScreen

\* A listener that was told of a user has set Globals.user, and a completion that finds
\* it unset either is late, its controller being covered for good, or comes after the
\* block that will have it set.
ToldInv ==
    /\ \A i \in Levels : previousUserID[i] \in Users => user # None /\ currentUser # None
    /\ \A j \in 1..Len(mainQueue) :
          mainQueue[j].block = "invoke" /\ mainQueue[j].user # None => currentUser # None
    /\ \A j \in 1..Len(mainQueue) : Succeeds(mainQueue[j]) =>
          /\ currentUser # None
          /\ \/ user # None \/ mainQueue[j].of < OnScreen
             \/ \E k \in 1..(j - 1) : Announces(mainQueue[k])

MenuInv == FrontInv /\ ToldInv /\ MenuHasUser

-----------------------------------------------------------------------------
(***************************************************************************)
(* How a step changes the screen and the main queue.                       *)
(***************************************************************************)
LEMMA PresentOnScreen ==
    ASSUME ScreenInv, NEW from, NEW scene, Present(from, scene)
    PROVE  /\ OnScreen' = OnScreen /\ OnScreen \in Nat
           /\ user' = user \/ (scene = "signin" /\ user' = currentUser /\ currentUser # None)
<1>1. /\ Top \in Nat /\ (stack' = Append(stack, scene) => Top' = Top + 1)
      /\ transition => Top > 1
  BY DEF ScreenInv, Top, Levels
<1>2. OnScreen' = OnScreen
  BY <1>1 DEF Present, CanPresent, OnScreen, Top
<1>3. OnScreen \in Nat
  BY <1>1 DEF OnScreen
<1>4. QED
  BY <1>2, <1>3 DEF Present, UserAfterLoad

LEMMA FinishOnScreen ==
    ASSUME NavInv, FinishTransition
    PROVE  /\ OnScreen' = OnScreen + 1 /\ OnScreen \in Nat
           /\ user' = user \/ (user' = currentUser /\ currentUser # None)
<1>1. Top \in Nat /\ Top > 1 /\ OnScreen = Top - 1
  BY DEF NavInv, ScreenInv, Levels, FinishTransition, OnScreen
<1>2. CASE PresentsMenu(stack[Top])
  <2>1. Top' = Top + 1
    BY <1>2 DEF FinishTransition, NavInv, ScreenInv, Top, Scenes
  <2>2. transition' = TRUE
    BY <1>2, Zenon DEF FinishTransition
  <2>3. user' = currentUser /\ currentUser # None
    BY <1>2 DEF FinishTransition, PresentsMenu
  <2>4. QED
    BY <1>1, <2>1, <2>2, <2>3 DEF OnScreen
<1>3. CASE ~PresentsMenu(stack[Top])
  <2>1. PresentsMenu(stack[Top]) = FALSE
    BY <1>3 DEF PresentsMenu
  <2>2. transition' = FALSE
    BY <2>1, Zenon DEF FinishTransition
  <2>3. Top' = Top /\ user' = user
    BY <1>3 DEF FinishTransition, Top
  <2>4. QED
    BY <1>1, <2>2, <2>3 DEF OnScreen
<1>4. QED
  BY <1>2, <1>3

\* What neither presents nor uncovers a controller leaves the screen as it is.
LEMMA SameOnScreen ==
    ASSUME NavInv, UNCHANGED <<stack, transition>>
    PROVE  /\ OnScreen' = OnScreen /\ OnScreen \in Nat /\ Top' = Top
           /\ SignedInAtMenu' = SignedInAtMenu
<1>1. Top \in Nat /\ (transition => Top > 1)
  BY DEF NavInv, ScreenInv, Levels
<1>2. QED
  BY <1>1 DEF OnScreen, Top, SignedInAtMenu

\* The queue keeps its blocks, and gains none that a user hangs on.
Extended ==
    /\ \A j \in 1..Len(mainQueue) :
          j \in 1..Len(mainQueue') /\ mainQueue'[j] = mainQueue[j]
    /\ \A j \in 1..Len(mainQueue') : j \in 1..Len(mainQueue) \/
          (mainQueue'[j].block # "invoke" /\ ~Succeeds(mainQueue'[j]))

LEMMA ExtendedBySame ==
    ASSUME UNCHANGED mainQueue
    PROVE  Extended
  BY DEF Extended

LEMMA ExtendedByOne ==
    ASSUME QueueInv, NEW b \in Blocks, mainQueue' = Append(mainQueue, b),
           b.block # "invoke", ~Succeeds(b)
    PROVE  /\ Extended /\ Len(mainQueue) \in Nat /\ Len(mainQueue') = Len(mainQueue) + 1
           /\ mainQueue'[Len(mainQueue) + 1] = b
<1>1. mainQueue \in Seq(Blocks)
  BY DEF QueueInv
<1>2. /\ Len(mainQueue) \in Nat /\ Len(mainQueue') = Len(mainQueue) + 1
      /\ \A j \in 1..Len(mainQueue) : mainQueue'[j] = mainQueue[j]
      /\ mainQueue'[Len(mainQueue) + 1] = b
  BY <1>1, AppendGives
<1>3. \A j \in 1..Len(mainQueue') : j \in 1..Len(mainQueue) \/ j = Len(mainQueue) + 1
  BY <1>2
<1>4. \A j \in 1..Len(mainQueue) : j \in 1..Len(mainQueue')
  BY <1>2
<1>5. QED
  BY <1>2, <1>3, <1>4 DEF Extended

LEMMA TailGives ==
    ASSUME QueueInv, mainQueue # <<>>, mainQueue' = Tail(mainQueue)
    PROVE  \A j \in 1..Len(mainQueue') :
              j + 1 \in 1..Len(mainQueue) /\ mainQueue'[j] = mainQueue[j + 1] /\ j \in Nat
  BY DEF QueueInv

LEMMA ReplacedGives ==
    ASSUME NavInv, mainQueue # <<>>, NEW i \in Levels, mainQueue' = Replaced(Invoke(i))
    PROVE  /\ Len(mainQueue) \in Nat \ {0} /\ Len(mainQueue') = Len(mainQueue)
           /\ mainQueue'[1] = Invoke(i)
           /\ \A j \in 1..Len(mainQueue) : j # 1 => mainQueue'[j] = mainQueue[j]
<1>1. mainQueue \in Seq(Blocks) /\ Invoke(i) \in Blocks
  BY DEF NavInv, QueueInv, UserInv, Invoke, Blocks
<1>2. \A b \in Blocks : mainQueue' = <<b>> \o Tail(mainQueue) =>
          /\ Len(mainQueue) \in Nat \ {0} /\ Len(mainQueue') = Len(mainQueue)
          /\ mainQueue'[1] = b
          /\ \A j \in 1..Len(mainQueue) : j # 1 => mainQueue'[j] = mainQueue[j]
  BY <1>1
<1>3. QED
  BY <1>1, <1>2 DEF Replaced

-----------------------------------------------------------------------------
(***************************************************************************)
(* Steps that keep the blocks of the main queue.                           *)
(***************************************************************************)
LEMMA ToldExtended ==
    ASSUME ToldInv, Extended, UNCHANGED previousUserID,
           user # None => user' # None, currentUser # None => currentUser' # None,
           OnScreen \in Nat, OnScreen' \in {OnScreen, OnScreen + 1},
           \A j \in 1..Len(mainQueue) : mainQueue[j].block = "done" => mainQueue[j].of \in Nat
    PROVE  ToldInv'
<1>1. ASSUME NEW j \in 1..Len(mainQueue'), Succeeds(mainQueue'[j])
      PROVE  /\ currentUser' # None
             /\ \/ user' # None \/ mainQueue'[j].of < OnScreen'
                \/ \E k \in 1..(j - 1) : Announces(mainQueue'[k])
  <2>1. j \in 1..Len(mainQueue) /\ mainQueue'[j] = mainQueue[j] /\ Succeeds(mainQueue[j])
    BY <1>1 DEF Extended
  <2>2. currentUser # None
    BY <2>1 DEF ToldInv
  <2>3. CASE user # None
    BY <2>2, <2>3
  <2>4. CASE mainQueue[j].of < OnScreen
    BY <2>1, <2>2, <2>4 DEF Succeeds
  <2>5. CASE \E k \in 1..(j - 1) : Announces(mainQueue[k])
    <3>1. PICK k \in 1..(j - 1) : Announces(mainQueue[k])
      BY <2>5
    <3>2. k \in 1..Len(mainQueue)
      BY <2>1
    <3>3. Announces(mainQueue'[k])
      BY <3>1, <3>2 DEF Extended
    <3>4. QED
      BY <2>2, <3>3
  <2>6. QED
    BY <2>1, <2>3, <2>4, <2>5 DEF ToldInv
<1>2. ASSUME NEW j \in 1..Len(mainQueue'), mainQueue'[j].block = "invoke",
             mainQueue'[j].user # None
      PROVE  currentUser' # None
  BY <1>2 DEF Extended, ToldInv
<1>3. QED
  BY <1>1, <1>2 DEF ToldInv

LEMMA FrontExtended ==
    ASSUME NavInv, FrontInv, Extended, OnScreen \in Nat, OnScreen' \in {OnScreen, OnScreen + 1},
           \A r \in 1..MaxRequests : requests'[r] = requests[r] \/ requests'[r] <= OnScreen',
           work' = work \/ (work'.step = "saved" => work'.of <= OnScreen'),
           \A j \in 1..Len(mainQueue') : j \notin 1..Len(mainQueue) =>
               (mainQueue'[j].block = "done" => mainQueue'[j].of <= OnScreen')
    PROVE  FrontInv'
<1>1. \A i \in Nat : i <= OnScreen => i <= OnScreen'
  OBVIOUS
<1>2. \A r \in 1..MaxRequests : requests[r] \in Nat
  BY NavigationAssumption DEF NavInv, QueueInv
<1>3. work.step = "saved" => work.of \in Nat
  BY DEF NavInv, OriginInv, IsAuth
<1>4. \A j \in 1..Len(mainQueue) : mainQueue[j].block = "done" => mainQueue[j].of \in Nat
  BY DEF NavInv, OriginInv, IsAuth
<1>5. QED
  BY <1>1, <1>2, <1>3, <1>4 DEF FrontInv, Extended

\* Completions belong to levels of the stack.
LEMMA OriginNat ==
    ASSUME NavInv
    PROVE  \A j \in 1..Len(mainQueue) : mainQueue[j].block = "done" => mainQueue[j].of \in Nat
  BY DEF NavInv, OriginInv, IsAuth

LEMMA TapMenu ==
    ASSUME NavInv, MenuInv, Taps
    PROVE  MenuInv'
<1>1. PICK scene \in {"join", "signin", "signup"}, next \in {"menu", "signin", "signup"} :
          Tap(scene, next) /\ (next = "menu" => scene = "join")
  BY DEF Taps, OnJoinPressed, OnSignInButtonPressed, OnSignUpButtonPressed
<1>2. /\ Present(Top, next) /\ UNCHANGED <<mainQueue, previousUserID, currentUser, requests, work>>
      /\ stack[Top] = scene /\ ~transition
  BY <1>1 DEF Tap, heard, auth
<1>3. OnScreen' = OnScreen /\ OnScreen \in Nat /\ (user # None => user' # None) /\ Extended
  BY <1>2, PresentOnScreen, ExtendedBySame DEF NavInv
<1>4. FrontInv' /\ ToldInv'
  BY <1>2, <1>3, FrontExtended, ToldExtended, OriginNat DEF MenuInv
<1>5. MenuHasUser'
  <2>1. CASE UNCHANGED <<stack, transition>>
    BY <1>3, <2>1, SameOnScreen DEF MenuInv, MenuHasUser
  <2>2. CASE stack' = Append(stack, next)
    <3>1. Top' = Top + 1 /\ stack'[Top'] = next /\ stack'[Top' - 1] = scene
      BY <1>2, <2>2 DEF NavInv, ScreenInv, Top, Levels, Scenes
    <3>2. ~SignedInAtMenu'
      BY <1>1, <3>1 DEF SignedInAtMenu, AuthScenes
    <3>3. QED
      BY <3>2 DEF MenuHasUser
  <2>3. QED
    BY <1>2, <2>1, <2>2 DEF Present
<1>6. QED
  BY <1>4, <1>5 DEF MenuInv

LEMMA FinishMenu ==
    ASSUME NavInv, MenuInv, FinishTransition
    PROVE  MenuInv'
<1>1. /\ OnScreen' = OnScreen + 1 /\ OnScreen \in Nat
      /\ user' = user \/ (user' = currentUser /\ currentUser # None)
      /\ UNCHANGED <<currentUser, requests, work, previousUserID>>
  BY FinishOnScreen DEF FinishTransition, auth
<1>2. \/ UNCHANGED mainQueue
      \/ mainQueue' = Append(mainQueue, [block |-> "initial", of |-> Top])
  BY DEF FinishTransition
<1>3. [block |-> "initial", of |-> Top] \in Blocks
  BY DEF NavInv, ScreenInv, Blocks
<1>4. /\ Extended
      /\ \A j \in 1..Len(mainQueue') : j \notin 1..Len(mainQueue) => mainQueue'[j].block # "done"
  <2>1. CASE UNCHANGED mainQueue
    BY <2>1, ExtendedBySame
  <2>2. CASE mainQueue' = Append(mainQueue, [block |-> "initial", of |-> Top])
    <3>1. /\ Extended /\ Len(mainQueue) \in Nat /\ Len(mainQueue') = Len(mainQueue) + 1
          /\ mainQueue'[Len(mainQueue) + 1] = [block |-> "initial", of |-> Top]
      BY <1>3, <2>2, ExtendedByOne DEF NavInv, Succeeds
    <3>2. \A j \in 1..Len(mainQueue') : j \notin 1..Len(mainQueue) => j = Len(mainQueue) + 1
      BY <3>1
    <3>3. QED
      BY <3>1, <3>2
  <2>3. QED
    BY <1>2, <2>1, <2>2
<1>5. FrontInv' /\ ToldInv'
  BY <1>1, <1>4, FrontExtended, ToldExtended, OriginNat DEF MenuInv
<1>6. MenuHasUser'
  <2>1. CASE UNCHANGED stack
    BY <1>1, <2>1 DEF MenuInv, MenuHasUser, SignedInAtMenu, Top
  <2>2. CASE PresentsMenu(stack[Top])
    BY <2>2 DEF FinishTransition, PresentsMenu, MenuHasUser
  <2>3. QED
    BY <2>1, <2>2 DEF FinishTransition
<1>7. QED
  BY <1>5, <1>6 DEF MenuInv

LEMMA SubmitMenu ==
    ASSUME NavInv, MenuInv, NEW r \in 1..MaxRequests, Submit(r)
    PROVE  MenuInv'
<1>1. UNCHANGED <<stack, transition, user, mainQueue, previousUserID, work, currentUser>>
  BY DEF Submit, screens, heard
<1>2. /\ OnScreen' = OnScreen /\ OnScreen \in Nat /\ SignedInAtMenu' = SignedInAtMenu
      /\ OnScreen = Top
  BY <1>1, SameOnScreen DEF Submit, OnScreen
<1>3. \A q \in 1..MaxRequests : requests'[q] = requests[q] \/ requests'[q] <= OnScreen'
  BY <1>2 DEF Submit, NavInv, QueueInv
<1>4. FrontInv' /\ ToldInv'
  BY <1>1, <1>2, <1>3, ExtendedBySame, FrontExtended, ToldExtended, OriginNat DEF MenuInv
<1>5. QED
  BY <1>1, <1>2, <1>4 DEF MenuInv, MenuHasUser

LEMMA RespondMenu ==
    ASSUME NavInv, MenuInv, NEW r \in 1..MaxRequests, Respond(r)
    PROVE  MenuInv'
<1>1. /\ UNCHANGED <<stack, transition, user, previousUserID, currentUser>>
      /\ requests[r] # 0 /\ requests' = [requests EXCEPT ![r] = 0]
  BY DEF Respond, RequestFails, SaveUser, screens, heard
<1>2. OnScreen' = OnScreen /\ OnScreen \in Nat /\ SignedInAtMenu' = SignedInAtMenu
  BY <1>1, SameOnScreen
<1>3. /\ \A q \in 1..MaxRequests : requests'[q] = requests[q] \/ requests'[q] <= OnScreen'
      /\ requests[r] <= OnScreen' /\ requests[r] \in Levels
  BY <1>1, <1>2, NavigationAssumption DEF NavInv, QueueInv, MenuInv, FrontInv, Levels
<1>4. FrontInv' /\ ToldInv'
  <2>1. CASE RequestFails(r)
    <3> DEFINE b == Done(requests[r], TRUE)
    <3>1. /\ b \in Blocks /\ b.block = "done" /\ ~Succeeds(b) /\ b.of = requests[r]
          /\ mainQueue' = Append(mainQueue, b) /\ work' = work
      BY <1>3, <2>1 DEF RequestFails, Done, Blocks, Succeeds
    <3> HIDE DEF b
    <3>2. /\ Extended /\ Len(mainQueue) \in Nat /\ Len(mainQueue') = Len(mainQueue) + 1
          /\ mainQueue'[Len(mainQueue) + 1] = b
      BY <3>1, ExtendedByOne DEF NavInv
    <3>3. \A j \in 1..Len(mainQueue') : j \notin 1..Len(mainQueue) =>
              mainQueue'[j].of <= OnScreen'
      <4>1. \A j \in 1..Len(mainQueue') : j \notin 1..Len(mainQueue) => j = Len(mainQueue) + 1
        BY <3>2
      <4>2. QED
        BY <1>3, <3>1, <3>2, <4>1
    <3>4. QED
      BY <1>1, <1>2, <1>3, <3>1, <3>2, <3>3, FrontExtended, ToldExtended, OriginNat DEF
         MenuInv
  <2>2. ASSUME NEW u \in Users, SaveUser(r, u) PROVE FrontInv' /\ ToldInv'
    <3>1. UNCHANGED mainQueue /\ work'.of = requests[r]
      BY <2>2 DEF SaveUser
    <3>2. QED
      BY <1>1, <1>2, <1>3, <3>1, ExtendedBySame, FrontExtended, ToldExtended, OriginNat
         DEF MenuInv
  <2>3. QED
    BY <2>1, <2>2 DEF Respond
<1>5. QED
  BY <1>1, <1>2, <1>4 DEF MenuInv, MenuHasUser

LEMMA LoadMenu ==
    ASSUME NavInv, MenuInv, LoadUser
    PROVE  MenuInv'
<1>1. /\ UNCHANGED <<stack, transition, user, previousUserID, requests>> /\ work'.step = "idle"
      /\ currentUser # None => currentUser' # None
  BY DEF LoadUser, screens, heard
<1>2. OnScreen' = OnScreen /\ OnScreen \in Nat /\ SignedInAtMenu' = SignedInAtMenu
  BY <1>1, SameOnScreen
<1>3. /\ Extended
      /\ \A j \in 1..Len(mainQueue') : j \notin 1..Len(mainQueue) => mainQueue'[j].block # "done"
  <2>1. CASE UNCHANGED mainQueue
    BY <2>1, ExtendedBySame
  <2>2. CASE mainQueue' = Append(mainQueue, [block |-> "notify"])
    <3>0. [block |-> "notify"] \in Blocks
      BY DEF Blocks
    <3>1. /\ Extended /\ Len(mainQueue) \in Nat /\ Len(mainQueue') = Len(mainQueue) + 1
          /\ mainQueue'[Len(mainQueue) + 1] = [block |-> "notify"]
      BY <3>0, <2>2, ExtendedByOne DEF NavInv, Succeeds
    <3>2. \A j \in 1..Len(mainQueue') : j \notin 1..Len(mainQueue) => j = Len(mainQueue) + 1
      BY <3>1
    <3>3. QED
      BY <3>1, <3>2
  <2>3. QED
    BY <2>1, <2>2 DEF LoadUser
<1>4. FrontInv' /\ ToldInv'
  BY <1>1, <1>2, <1>3, FrontExtended, ToldExtended, OriginNat DEF MenuInv
<1>5. QED
  BY <1>1, <1>2, <1>4 DEF MenuInv, MenuHasUser

-----------------------------------------------------------------------------
(***************************************************************************)
(* The blocks that lead to the menu: they enter the queue together, and    *)
(* the announcement is run first.                                          *)
(***************************************************************************)
LEMMA AssignMenu ==
    ASSUME NavInv, MenuInv, AssignUser
    PROVE  MenuInv'
<1> DEFINE n == Len(mainQueue)
<1>1. /\ UNCHANGED <<stack, transition, user, previousUserID, requests>> /\ work'.step = "idle"
      /\ currentUser' = work.user /\ work.step = "saved"
  BY DEF AssignUser, screens, heard
<1>2. OnScreen' = OnScreen /\ OnScreen \in Nat /\ SignedInAtMenu' = SignedInAtMenu
  BY <1>1, SameOnScreen
<1>3. /\ n \in Nat /\ Len(mainQueue') = n + 2 /\ currentUser' # None
      /\ \A j \in 1..n : mainQueue'[j] = mainQueue[j]
      /\ mainQueue'[n + 1] = [block |-> "notify"]
      /\ mainQueue'[n + 2] = Done(work.of, FALSE)
  BY <1>1, AssignGives, NavigationAssumption
<1>4. \A j \in 1..Len(mainQueue') : j \in 1..n \/ j = n + 1 \/ j = n + 2
  BY <1>3
<1> HIDE DEF n
<1>5. FrontInv'
  <2>1. ASSUME NEW j \in 1..Len(mainQueue'), mainQueue'[j].block = "done"
        PROVE  mainQueue'[j].of <= OnScreen
    <3>1. CASE j \in 1..n
      BY <1>3, <2>1, <3>1 DEF MenuInv, FrontInv, n
    <3>2. CASE j = n + 1
      BY <1>3, <2>1, <3>2
    <3>3. CASE j = n + 2
      <4>1. mainQueue'[j].of = work.of
        BY <1>3, <3>3 DEF Done
      <4>2. QED
        BY <1>1, <4>1 DEF MenuInv, FrontInv
    <3>4. QED
      BY <1>4, <3>1, <3>2, <3>3
  <2>2. QED
    BY <1>1, <1>2, <2>1 DEF MenuInv, FrontInv
<1>6. ToldInv'
  <2>1. ASSUME NEW j \in 1..Len(mainQueue'), Succeeds(mainQueue'[j])
        PROVE  \/ user' # None \/ mainQueue'[j].of < OnScreen'
               \/ \E k \in 1..(j - 1) : Announces(mainQueue'[k])
    <3>1. CASE j \in 1..n
      <4>1. Succeeds(mainQueue[j]) /\ mainQueue'[j] = mainQueue[j]
        BY <1>3, <2>1, <3>1
      <4>2. \A k \in 1..(j - 1) : k \in 1..n
        BY <1>3, <3>1
      <4>3. \/ user # None \/ mainQueue[j].of < OnScreen
            \/ \E k \in 1..(j - 1) : Announces(mainQueue[k])
        BY <3>1, <4>1 DEF MenuInv, ToldInv, n
      <4>4. QED
        BY <1>1, <1>2, <1>3, <4>1, <4>2, <4>3
    <3>2. CASE j = n + 1
      BY <1>3, <2>1, <3>2 DEF Succeeds
    <3>3. CASE j = n + 2
      <4>1. n + 1 \in 1..(j - 1)
        BY <1>3, <3>3
      <4>2. Announces(mainQueue'[n + 1])
        BY <1>3 DEF Announces
      <4>3. QED
        BY <4>1, <4>2
    <3>4. QED
      BY <1>4, <3>1, <3>2, <3>3
  <2>2. \A i \in Levels : previousUserID'[i] \in Users => user' # None /\ currentUser' # None
    BY <1>1, <1>3 DEF MenuInv, ToldInv
  <2>3. QED
    BY <1>3, <2>1, <2>2 DEF ToldInv
<1>7. QED
  BY <1>1, <1>2, <1>5, <1>6 DEF MenuInv, MenuHasUser

\* A listener is about to be invoked: what the block announced, the invocation does,
\* unless no controller on screen listens; then the completion is late.
LEMMA ReplacedMenu ==
    ASSUME NavInv, MenuInv, NEW i \in Levels, mainQueue # <<>>,
           mainQueue' = Replaced(Invoke(i)), Head(mainQueue).block \in {"initial", "notify"},
           UNCHANGED <<given, trap, screens, user, heard, auth>>
    PROVE  MenuInv'
<1>1. UNCHANGED <<stack, transition, user, previousUserID, requests, work, currentUser>>
  BY DEF screens, heard, auth
<1>2. OnScreen' = OnScreen /\ OnScreen \in Nat /\ SignedInAtMenu' = SignedInAtMenu
  BY <1>1, SameOnScreen
<1>3. /\ Len(mainQueue) \in Nat \ {0} /\ Len(mainQueue') = Len(mainQueue)
      /\ mainQueue'[1] = Invoke(i) /\ mainQueue[1].block \in {"initial", "notify"}
      /\ \A j \in 1..Len(mainQueue) : j # 1 => mainQueue'[j] = mainQueue[j]
  BY ReplacedGives, HeadBlock DEF NavInv
<1>4. Invoke(i).block = "invoke" /\ Invoke(i).user = currentUser
  BY DEF Invoke
<1>5. FrontInv'
  BY <1>1, <1>2, <1>3, <1>4 DEF MenuInv, FrontInv
<1>6. ToldInv'
  <2>1. ASSUME NEW j \in 1..Len(mainQueue'), Succeeds(mainQueue'[j])
        PROVE  /\ currentUser # None
               /\ \/ user # None \/ mainQueue'[j].of < OnScreen
                  \/ \E k \in 1..(j - 1) : Announces(mainQueue'[k])
    <3>1. j # 1 /\ mainQueue'[j] = mainQueue[j] /\ j \in 1..Len(mainQueue)
      BY <1>3, <1>4, <2>1 DEF Succeeds
    <3>2. currentUser # None
      BY <2>1, <3>1 DEF MenuInv, ToldInv
    <3>3. ASSUME NEW k \in 1..(j - 1), Announces(mainQueue[k])
          PROVE  Announces(mainQueue'[k])
      <4>1. CASE k = 1
        BY <1>3, <1>4, <3>2, <4>1 DEF Announces
      <4>2. CASE k # 1
        BY <1>3, <3>1, <3>3, <4>2
      <4>3. QED
        BY <4>1, <4>2
    <3>4. QED
      BY <2>1, <3>1, <3>2, <3>3 DEF MenuInv, ToldInv
  <2>2. ASSUME NEW j \in 1..Len(mainQueue'), mainQueue'[j].block = "invoke",
               mainQueue'[j].user # None
        PROVE  currentUser # None
    <3>1. CASE j = 1
      BY <1>3, <1>4, <2>2, <3>1
    <3>2. CASE j # 1
      BY <1>3, <2>2, <3>2 DEF MenuInv, ToldInv
    <3>3. QED
      BY <3>1, <3>2
  <2>3. QED
    BY <1>1, <1>2, <2>1, <2>2 DEF MenuInv, ToldInv
<1>7. QED
  BY <1>1, <1>2, <1>5, <1>6 DEF MenuInv, MenuHasUser

\* A block leaves the queue; what it announced has come true.
LEMMA ToldOfTail ==
    ASSUME NavInv, ToldInv, mainQueue # <<>>, mainQueue' = Tail(mainQueue),
           OnScreen' = OnScreen, user # None => user' # None, currentUser' = currentUser,
           \A i \in Levels : previousUserID'[i] \in Users => user' # None /\ currentUser # None,
           \A j \in 1..Len(mainQueue) : Succeeds(mainQueue[j]) /\ Announces(Head(mainQueue)) =>
               user' # None \/ mainQueue[j].of < OnScreen
    PROVE  ToldInv'
<1>1. \A j \in 1..Len(mainQueue') :
          j + 1 \in 1..Len(mainQueue) /\ mainQueue'[j] = mainQueue[j + 1] /\ j \in Nat
  BY TailGives DEF NavInv
<1>2. Head(mainQueue) = mainQueue[1]
  BY HeadBlock DEF NavInv
<1>3. ASSUME NEW j \in 1..Len(mainQueue'), Succeeds(mainQueue'[j])
      PROVE  /\ currentUser # None
             /\ \/ user' # None \/ mainQueue'[j].of < OnScreen
                \/ \E k \in 1..(j - 1) : Announces(mainQueue'[k])
  <2>1. Succeeds(mainQueue[j + 1]) /\ mainQueue'[j] = mainQueue[j + 1] /\ j \in Nat
        /\ j + 1 \in 1..Len(mainQueue)
    BY <1>1, <1>3
  <2>2. currentUser # None
    BY <2>1 DEF ToldInv
  <2>3. ASSUME NEW k \in 1..j, Announces(mainQueue[k])
        PROVE  \/ user' # None \/ mainQueue'[j].of < OnScreen
               \/ \E l \in 1..(j - 1) : Announces(mainQueue'[l])
    <3>1. CASE k = 1
      BY <1>2, <2>1, <2>3, <3>1
    <3>2. CASE k # 1
      <4>1. k - 1 \in 1..(j - 1) /\ k - 1 \in 1..Len(mainQueue') /\ (k - 1) + 1 = k
        BY <2>1, <3>2, <1>3
      <4>2. mainQueue'[k - 1] = mainQueue[k]
        BY <1>1, <4>1
      <4>3. QED
        BY <2>3, <4>1, <4>2
    <3>3. QED
      BY <3>1, <3>2
  <2>4. (j + 1) - 1 = j
    BY <2>1
  <2>5. \/ user # None \/ mainQueue[j + 1].of < OnScreen
        \/ \E k \in 1..j : Announces(mainQueue[k])
    BY <2>1, <2>4 DEF ToldInv
  <2>6. QED
    BY <2>1, <2>2, <2>3, <2>5
<1>4. ASSUME NEW j \in 1..Len(mainQueue'), mainQueue'[j].block = "invoke",
             mainQueue'[j].user # None
      PROVE  currentUser # None
  BY <1>1, <1>4 DEF ToldInv
<1>5. QED
  BY <1>3, <1>4 DEF ToldInv

LEMMA FrontOfTail ==
    ASSUME NavInv, FrontInv, mainQueue # <<>>, mainQueue' = Tail(mainQueue),
           OnScreen' = OnScreen, UNCHANGED <<requests, work>>
    PROVE  FrontInv'
<1>1. \A j \in 1..Len(mainQueue') :
          j + 1 \in 1..Len(mainQueue) /\ mainQueue'[j] = mainQueue[j + 1]
  BY TailGives DEF NavInv
<1>2. QED
  BY <1>1 DEF FrontInv

\* Nobody on screen listens: a sign-in controller whose completion is still queued is
\* covered.
LEMMA RunNotifyMenu ==
    ASSUME NavInv, MenuInv, RunNotify
    PROVE  MenuInv'
<1>1. /\ mainQueue # <<>> /\ Head(mainQueue).block = "notify"
      /\ UNCHANGED <<given, trap, screens, user, heard, auth>>
  BY DEF RunNotify, HeadIs
<1>2. CASE \E i \in listeners : mainQueue' = Replaced(Invoke(i))
  <2>1. listeners \subseteq Levels
    BY NavigationAssumption DEF NavInv, ScreenInv, ListenerOnScreen, OnScreen, Levels
  <2>2. QED
    BY <1>1, <1>2, <2>1, ReplacedMenu
<1>3. CASE listeners = {} /\ mainQueue' = Tail(mainQueue)
  <2>1. UNCHANGED <<stack, transition, user, previousUserID, requests, work, currentUser>>
    BY <1>1 DEF screens, heard, auth
  <2>2. OnScreen' = OnScreen /\ OnScreen \in Nat /\ SignedInAtMenu' = SignedInAtMenu
    BY <2>1, SameOnScreen
  <2>3. stack[OnScreen] \notin AuthScenes
    BY <1>3 DEF NavInv, ScreenInv, ListenerOnScreen
  <2>4. ASSUME NEW j \in 1..Len(mainQueue), Succeeds(mainQueue[j])
        PROVE  mainQueue[j].of < OnScreen
    <3>1. IsAuth(mainQueue[j].of) /\ mainQueue[j].of <= OnScreen
      BY <2>4 DEF NavInv, OriginInv, MenuInv, FrontInv, Succeeds
    <3>2. mainQueue[j].of # OnScreen /\ mainQueue[j].of \in Nat
      BY <2>3, <3>1 DEF IsAuth
    <3>3. QED
      BY <2>2, <3>1, <3>2
  <2>5. \A i \in Levels : previousUserID'[i] \in Users => user' # None /\ currentUser # None
    BY <2>1 DEF MenuInv, ToldInv
  <2>6. FrontInv' /\ ToldInv'
    BY <1>1, <1>3, <2>1, <2>2, <2>4, <2>5, FrontOfTail, ToldOfTail DEF MenuInv
  <2>7. QED
    BY <2>1, <2>2, <2>6 DEF MenuInv, MenuHasUser
<1>4. QED
  BY <1>2, <1>3 DEF RunNotify

LEMMA RunInvokeMenu ==
    ASSUME NavInv, MenuInv, RunInvoke
    PROVE  MenuInv'
<1> DEFINE i == Head(mainQueue).of
           u == Head(mainQueue).user
<1>1. /\ mainQueue # <<>> /\ Head(mainQueue).block = "invoke" /\ mainQueue' = Tail(mainQueue)
      /\ UNCHANGED <<stack, transition, requests, work, currentUser>>
  BY DEF RunInvoke, HeadIs, screens, auth
<1>2. OnScreen' = OnScreen /\ OnScreen \in Nat /\ SignedInAtMenu' = SignedInAtMenu
  BY <1>1, SameOnScreen
<1>3. /\ previousUserID' = [previousUserID EXCEPT ![i] = u]
      /\ ShouldCallListener(i, u) /\ currentUser # None => user' = currentUser
      /\ ~(ShouldCallListener(i, u) /\ currentUser # None) => user' = user
  BY DEF RunInvoke
<1>4. u # None => currentUser # None
  BY <1>1, HeadBlock DEF NavInv, MenuInv, ToldInv
<1>5. i \in Levels /\ u \in UserOrNone /\ None \notin Users
  BY <1>1, HeadBlock, NavigationAssumption DEF NavInv, Blocks
<1>6. user # None => user' # None
  BY <1>3
<1>7. u # None => user' # None
  <2>1. CASE ShouldCallListener(i, u)
    BY <1>3, <1>4, <2>1
  <2>2. CASE ~ShouldCallListener(i, u)
    BY <1>3, <1>5, <2>2 DEF ShouldCallListener, MenuInv, ToldInv, UserOrNone
  <2>3. QED
    BY <2>1, <2>2
<1>8. \A l \in Levels : previousUserID'[l] \in Users => user' # None /\ currentUser # None
  BY <1>3, <1>4, <1>5, <1>6, <1>7 DEF NavInv, QueueInv, MenuInv, ToldInv
<1>9. Announces(Head(mainQueue)) => user' # None
  BY <1>1, <1>7 DEF Announces
<1>10. FrontInv' /\ ToldInv'
  BY <1>1, <1>2, <1>6, <1>8, <1>9, FrontOfTail, ToldOfTail DEF MenuInv
<1>11. QED
  BY <1>2, <1>6, <1>10 DEF MenuInv, MenuHasUser

\* The completion presents the menu from the controller on screen only, and then there
\* is no earlier block left for the user to wait for.
LEMMA RunDoneMenu ==
    ASSUME NavInv, MenuInv, RunDone
    PROVE  MenuInv'
<1> DEFINE b == Head(mainQueue)
<1>1. /\ mainQueue # <<>> /\ b.block = "done" /\ mainQueue' = Tail(mainQueue) /\ ~Announces(b)
      /\ UNCHANGED <<previousUserID, requests, work, currentUser>>
      /\ b = mainQueue[1] /\ 1 \in 1..Len(mainQueue)
  BY HeadBlock DEF RunDone, HeadIs, heard, auth, Announces, NavInv
<1>2. /\ OnScreen' = OnScreen /\ OnScreen \in Nat /\ (user # None => user' # None)
  <2>1. CASE UNCHANGED <<trap, stack, transition, user>>
    BY <2>1, SameOnScreen
  <2>2. CASE Present(b.of, "menu")
    BY <2>2, PresentOnScreen DEF NavInv
  <2>3. QED
    BY <2>1, <2>2 DEF RunDone
<1>3. \A l \in Levels : previousUserID'[l] \in Users => user' # None /\ currentUser # None
  BY <1>1, <1>2 DEF MenuInv, ToldInv
<1>4. FrontInv' /\ ToldInv'
  BY <1>1, <1>2, <1>3, FrontOfTail, ToldOfTail DEF MenuInv
<1>5. MenuHasUser'
  <2>1. CASE UNCHANGED <<stack, transition>>
    BY <1>2, <2>1, SameOnScreen DEF MenuInv, MenuHasUser
  <2>2. CASE ~b.error /\ CanPresent(b.of)
    <3>1. Succeeds(b) /\ b.of = OnScreen
      BY <1>1, <2>2 DEF Succeeds, CanPresent, OnScreen
    <3>2. \A k \in 1..(1 - 1) : FALSE
      OBVIOUS
    <3>3. user # None
      BY <1>1, <1>2, <3>1, <3>2 DEF MenuInv, ToldInv
    <3>4. QED
      BY <1>2, <3>3 DEF MenuHasUser
  <2>3. QED
    BY <2>1, <2>2 DEF RunDone, Present
<1>6. QED
  BY <1>4, <1>5 DEF MenuInv

-----------------------------------------------------------------------------
LEMMA FreshMenu ==
    ASSUME stack = <<"join">>, transition = FALSE, mainQueue = <<>>, work = [step |-> "load"],
           previousUserID = [i \in Levels |-> "never"],
           requests = [r \in 1..MaxRequests |-> 0]
    PROVE  MenuInv
<1>1. OnScreen = 1 /\ ~SignedInAtMenu
  BY DEF OnScreen, SignedInAtMenu, Top
<1>2. \A j \in 1..Len(mainQueue) : FALSE
  OBVIOUS
<1>3. QED
  BY <1>1, <1>2, NavigationAssumption DEF MenuInv, MenuHasUser, FrontInv, ToldInv

LEMMA RelaunchMenu ==
    ASSUME Relaunch
    PROVE  MenuInv'
<1> USE DEF Relaunch
<1>1. OnScreen' = 1 /\ ~SignedInAtMenu'
  BY DEF OnScreen, SignedInAtMenu, Top
<1>2. \A j \in 1..Len(mainQueue') : FALSE
  OBVIOUS
<1>3. QED
  BY <1>1, <1>2, NavigationAssumption DEF MenuInv, MenuHasUser, FrontInv, ToldInv

LEMMA StutterMenu ==
    ASSUME NavInv, MenuInv, UNCHANGED vars
    PROVE  MenuInv'
<1>1. UNCHANGED <<stack, transition, mainQueue, previousUserID, requests, work, user, currentUser>>
  BY DEF vars, screens, heard, auth
<1>2. QED
  BY <1>1, SameOnScreen DEF MenuInv, MenuHasUser, FrontInv, ToldInv

LEMMA MenuStep == NavInv /\ MenuInv /\ [Next]_vars => MenuInv'
<1> SUFFICES ASSUME NavInv, MenuInv, [Next]_vars PROVE MenuInv'
  OBVIOUS
<1>1. CASE RunBlock
  <2>1. CASE RunInitial
    <3>1. Head(mainQueue).of \in Levels
      BY <2>1, HeadOf DEF RunInitial, HeadIs, NavInv
    <3>2. QED
      BY <2>1, <3>1, ReplacedMenu DEF RunInitial, HeadIs
  <2>2. QED
    BY <1>1, <2>1, RunNotifyMenu, RunInvokeMenu, RunDoneMenu DEF RunBlock
<1>2. ASSUME NEW r \in 1..MaxRequests, Submit(r) \/ Respond(r) PROVE MenuInv'
  BY <1>2, SubmitMenu, RespondMenu
<1>3. QED
  BY <1>1, <1>2, RelaunchMenu, TapMenu, FinishMenu, AssignMenu, LoadMenu, StutterMenu DEF
         Next

LEMMA MenuAlways == Spec => []MenuInv
<1>1. Init => MenuInv
  BY FreshMenu DEF Init
<1>2. QED
  BY <1>1, MenuStep, NavAlways, PTL DEF Spec

\* However sign-ins, listeners, completions and animations interleave, and whoever
\* else signs in meanwhile: a main menu that was reached from a sign-in or sign-up scene
\* has a user in Globals.user.  The notification that lets the listener set it is
\* dispatched before the completion that presents the menu, and a completion whose
\* controller nobody listens to any more presents nothing.
THEOREM MenuKnowsUser == Spec => []MenuHasUser
<1>1. MenuInv => MenuHasUser
  BY DEF MenuInv
<1>2. QED
  BY <1>1, MenuAlways, PTL

-----------------------------------------------------------------------------
(***************************************************************************)
(* A user who waits for each tap signs in once at most between two         *)
(* launches, and while he does nothing else is under way.                  *)
(***************************************************************************)
InFlight == work.step = "saved" \/ \E r \in 1..MaxRequests : requests[r] # 0

\* A sign-in in flight is the only one, from the scene in front, and nobody is signed in.
AloneInv ==
    InFlight =>
        /\ mainQueue = <<>> /\ ~transition /\ currentUser = None /\ stack[Top] \in AuthScenes
        /\ work.step = "saved" => work.of = Top /\ \A r \in 1..MaxRequests : requests[r] = 0
        /\ \A r \in 1..MaxRequests : requests[r] \in {0, Top}
        /\ \A r, s \in 1..MaxRequests : requests[r] # 0 /\ requests[s] # 0 => r = s

\* When it succeeded, its completion is the last block, and the listener of the scene in
\* front has been called with the new user, is being called, or is about to be.
LeadInv ==
    \A j \in 1..Len(mainQueue) : Succeeds(mainQueue[j]) =>
        /\ ~InFlight /\ work.step = "idle" /\ ~transition /\ currentUser # None
        /\ mainQueue[j].of = Top /\ stack[Top] \in AuthScenes
        /\ j = Len(mainQueue)
        /\ \/ j = 1 /\ user = currentUser
           \/ /\ j = 2 /\ \A i \in Levels : previousUserID[i] \notin Users
              /\ \/ mainQueue[1].block = "notify"
                 \/ mainQueue[1] = [block |-> "invoke", of |-> Top, user |-> currentUser]

\* With a user signed in, the sign-in and sign-up scenes are left.
SceneInv ==
    /\ work.step = "load" => stack[Top] = "join"
    /\ currentUser # None /\ stack[Top] \in AuthScenes =>
          \/ transition /\ stack[Top] = "signin"
          \/ \E j \in 1..Len(mainQueue) : Succeeds(mainQueue[j])
    /\ SignedInAtMenu => user = currentUser

PatientInv == AloneInv /\ LeadInv /\ SceneInv

\* The three parts when no success waits in the main queue.
NoSuccess == \A j \in 1..Len(mainQueue) : ~Succeeds(mainQueue[j])

LEMMA SettledPatient ==
    ASSUME Settled
    PROVE  ~InFlight /\ NoSuccess /\ work.step = "idle"
  BY DEF Settled, InFlight, NoSuccess, Readable

LEMMA NoSuccessKept ==
    ASSUME NoSuccess, Extended
    PROVE  NoSuccess'
  BY DEF NoSuccess, Extended

LEMMA NoSuccessOfTail ==
    ASSUME NavInv, NoSuccess, mainQueue # <<>>, mainQueue' = Tail(mainQueue)
    PROVE  NoSuccess'
  BY TailGives DEF NavInv, NoSuccess

LEMMA LeadAt ==
    ASSUME LeadInv, NEW j \in 1..Len(mainQueue), Succeeds(mainQueue[j])
    PROVE  /\ ~InFlight /\ work.step = "idle" /\ ~transition /\ currentUser # None
           /\ mainQueue[j].of = Top /\ stack[Top] \in AuthScenes /\ j = Len(mainQueue)
           /\ \/ j = 1 /\ user = currentUser
              \/ /\ j = 2 /\ \A i \in Levels : previousUserID[i] \notin Users
                 /\ \/ mainQueue[1].block = "notify"
                    \/ mainQueue[1] = [block |-> "invoke", of |-> Top, user |-> currentUser]
  BY DEF LeadInv

LEMMA TapPatient ==
    ASSUME NavInv, PatientInv, patient, Taps
    PROVE  PatientInv'
<1>1. PICK scene \in {"join", "signin", "signup"}, next \in {"menu", "signin", "signup"} :
          /\ Tap(scene, next) /\ (next = "menu" => scene = "join")
          /\ next = "signup" => scene = "signin"
  BY DEF Taps, OnJoinPressed, OnSignInButtonPressed, OnSignUpButtonPressed
<1>2. /\ Present(Top, next) /\ UNCHANGED <<mainQueue, currentUser, requests, work>>
      /\ stack[Top] = scene /\ ~transition /\ Settled
  BY <1>1 DEF Tap, auth
<1>3. ~InFlight' /\ NoSuccess /\ NoSuccess' /\ work'.step = "idle"
  BY <1>2, SettledPatient DEF InFlight, NoSuccess
<1>4. AloneInv' /\ LeadInv'
  BY <1>3 DEF AloneInv, LeadInv, NoSuccess
<1>5. SceneInv'
  <2>1. CASE UNCHANGED <<stack, transition, user>>
    BY <1>2, <1>3, <2>1 DEF PatientInv, SceneInv, SignedInAtMenu, Top, NoSuccess
  <2>2. CASE stack' = Append(stack, next) /\ transition' = TRUE
    <3>1. stack'[Top'] = next /\ stack'[Top' - 1] = scene
      BY <1>2, <2>2 DEF NavInv, ScreenInv, Top, Levels, Scenes
    <3>2. ~SignedInAtMenu'
      BY <1>1, <3>1 DEF SignedInAtMenu, AuthScenes
    <3>3. currentUser # None => scene \notin AuthScenes
      BY <1>2, <1>3 DEF PatientInv, SceneInv, NoSuccess
    <3>4. QED
      BY <1>1, <1>2, <1>3, <2>2, <3>1, <3>2, <3>3 DEF SceneInv, AuthScenes
  <2>3. CanPresent(Top)
    BY <1>2 DEF CanPresent
  <2>4. QED
    BY <1>2, <2>1, <2>2, <2>3 DEF Present
<1>6. QED
  BY <1>4, <1>5 DEF PatientInv

LEMMA FinishPatient ==
    ASSUME NavInv, PatientInv, FinishTransition
    PROVE  PatientInv'
<1>1. /\ UNCHANGED <<currentUser, requests, work>> /\ transition
      /\ stack[Top] = "signin" => Readable
  BY DEF FinishTransition, auth
<1>2. ~InFlight' /\ NoSuccess
  BY <1>1 DEF PatientInv, AloneInv, LeadInv, InFlight, NoSuccess
<1>3. Extended
  <2>1. [block |-> "initial", of |-> Top] \in Blocks
    BY DEF NavInv, ScreenInv, Blocks
  <2>2. QED
    BY <2>1, ExtendedBySame, ExtendedByOne DEF FinishTransition, NavInv, Succeeds
<1>4. NoSuccess'
  BY <1>2, <1>3, NoSuccessKept
<1>5. AloneInv' /\ LeadInv'
  BY <1>2, <1>4 DEF AloneInv, LeadInv, NoSuccess
<1>6. CASE PresentsMenu(stack[Top])
  <2>1. stack' = Append(stack, "menu") /\ user' = currentUser /\ stack[Top] = "signin"
    BY <1>6 DEF FinishTransition, PresentsMenu
  <2>2. stack'[Top'] = "menu"
    BY <2>1 DEF NavInv, ScreenInv, Top, Levels, Scenes
  <2>3. QED
    BY <1>1, <1>5, <2>1, <2>2 DEF PatientInv, SceneInv, AuthScenes, Readable
<1>7. CASE ~PresentsMenu(stack[Top])
  <2>1. UNCHANGED <<stack, user>> /\ Top' = Top
    BY <1>7 DEF FinishTransition, Top
  <2>2. currentUser = None \/ stack[Top] \notin AuthScenes
    BY <1>2, <1>7 DEF PatientInv, SceneInv, NoSuccess, PresentsMenu
  <2>3. QED
    BY <1>1, <1>5, <2>1, <2>2 DEF PatientInv, SceneInv, SignedInAtMenu
<1>8. QED
  BY <1>6, <1>7

LEMMA SubmitPatient ==
    ASSUME NavInv, PatientInv, patient, NEW r \in 1..MaxRequests, Submit(r)
    PROVE  PatientInv'
<1>1. /\ UNCHANGED <<stack, transition, user, mainQueue, work, currentUser>> /\ Top' = Top
      /\ stack[Top] \in AuthScenes /\ ~transition /\ Settled
      /\ requests' = [requests EXCEPT ![r] = Top]
  BY DEF Submit, screens, Top
<1>2. NoSuccess /\ NoSuccess' /\ work.step = "idle" /\ mainQueue = <<>>
      /\ \A q \in 1..MaxRequests : requests[q] = 0
  BY <1>1, SettledPatient DEF NoSuccess, Settled
<1>3. currentUser = None
  BY <1>1, <1>2 DEF PatientInv, SceneInv, NoSuccess
<1>4. \A q \in 1..MaxRequests : requests'[q] = IF q = r THEN Top ELSE 0
  BY <1>1, <1>2 DEF NavInv, QueueInv
<1>5. AloneInv'
  BY <1>1, <1>2, <1>3, <1>4 DEF AloneInv
<1>6. LeadInv' /\ SceneInv'
  BY <1>1, <1>2, <1>3 DEF PatientInv, LeadInv, SceneInv, NoSuccess, SignedInAtMenu
<1>7. QED
  BY <1>5, <1>6 DEF PatientInv

LEMMA RespondPatient ==
    ASSUME NavInv, PatientInv, NEW r \in 1..MaxRequests, Respond(r)
    PROVE  PatientInv'
<1>1. /\ UNCHANGED <<stack, transition, user, currentUser>> /\ Top' = Top
      /\ requests[r] # 0 /\ requests' = [requests EXCEPT ![r] = 0] /\ work.step = "idle"
  BY DEF Respond, RequestFails, SaveUser, screens, Top, Readable
<1>2. /\ mainQueue = <<>> /\ ~transition /\ currentUser = None /\ stack[Top] \in AuthScenes
      /\ requests[r] = Top /\ \A q \in 1..MaxRequests : requests[q] # 0 => q = r
  BY <1>1 DEF PatientInv, AloneInv, InFlight
<1>3. \A q \in 1..MaxRequests : requests'[q] = 0
  BY <1>1, <1>2 DEF NavInv, QueueInv
<1>4. NoSuccess
  BY <1>2 DEF NoSuccess
<1>5. ~SignedInAtMenu' /\ stack'[Top'] \in AuthScenes
  BY <1>1, <1>2 DEF SignedInAtMenu, AuthScenes
<1>6. CASE RequestFails(r)
  <2>1. /\ mainQueue' = Append(mainQueue, Done(requests[r], TRUE)) /\ work' = work
        /\ requests[r] \in Levels
    BY <1>1, <1>6, NavigationAssumption DEF RequestFails, NavInv, QueueInv, Levels
  <2>2. Done(requests[r], TRUE) \in Blocks
    BY <2>1 DEF Done, Blocks
  <2>3. NoSuccess'
    BY <1>4, <2>1, <2>2, ExtendedByOne, NoSuccessKept DEF NavInv, Succeeds, Done
  <2>4. ~InFlight'
    BY <1>1, <1>3, <2>1 DEF InFlight
  <2>5. QED
    BY <1>1, <1>2, <1>5, <2>1, <2>3, <2>4
       DEF PatientInv, AloneInv, LeadInv, SceneInv, NoSuccess
<1>7. ASSUME NEW u \in Users, SaveUser(r, u) PROVE PatientInv'
  <2>1. mainQueue' = <<>> /\ work'.step = "saved" /\ work'.of = Top
    BY <1>2, <1>7 DEF SaveUser
  <2>2. AloneInv'
    BY <1>1, <1>2, <1>3, <2>1 DEF AloneInv
  <2>3. LeadInv' /\ SceneInv'
    BY <1>1, <1>2, <1>5, <2>1 DEF LeadInv, SceneInv
  <2>4. QED
    BY <2>2, <2>3 DEF PatientInv
<1>8. QED
  BY <1>6, <1>7 DEF Respond

LEMMA AssignPatient ==
    ASSUME NavInv, ToldInv, PatientInv, AssignUser
    PROVE  PatientInv'
<1>1. /\ UNCHANGED <<stack, transition, user, previousUserID, requests>> /\ Top' = Top
      /\ work'.step = "idle" /\ currentUser' = work.user /\ InFlight /\ work.step = "saved"
  BY DEF AssignUser, screens, heard, Top, InFlight
<1>2. /\ mainQueue = <<>> /\ ~transition /\ currentUser = None /\ stack[Top] \in AuthScenes
      /\ work.of = Top /\ \A r \in 1..MaxRequests : requests[r] = 0
  BY <1>1 DEF PatientInv, AloneInv
<1>3. /\ Len(mainQueue') = 2 /\ currentUser' # None
      /\ mainQueue'[1] = [block |-> "notify"] /\ mainQueue'[2] = Done(Top, FALSE)
  <2>1. Len(mainQueue) = 0
    BY <1>2
  <2>2. /\ Len(mainQueue') = 2 /\ mainQueue'[1] = [block |-> "notify"]
        /\ mainQueue'[2] = Done(work.of, FALSE) /\ work.user \in Users
    <3>1. Len(mainQueue) + 1 = 1 /\ Len(mainQueue) + 2 = 2
      BY <2>1
    <3>2. QED
      BY <3>1, AssignGives
  <2>3. QED
    BY <1>1, <1>2, <2>2, NavigationAssumption
<1>4. ~InFlight'
  BY <1>1, <1>2 DEF InFlight
<1>5. \A i \in Levels : previousUserID'[i] \notin Users
  BY <1>1, <1>2 DEF ToldInv
<1>6. \A j \in 1..Len(mainQueue') : j = 1 \/ j = 2
  BY <1>3
<1>7. LeadInv'
  <2>1. ~Succeeds(mainQueue'[1]) /\ mainQueue'[2].of = Top /\ mainQueue'[1].block = "notify"
    BY <1>3 DEF Succeeds, Done
  <2>2. QED
    BY <1>1, <1>2, <1>3, <1>4, <1>5, <1>6, <2>1 DEF LeadInv
<1>8. SceneInv'
  <2>1. Succeeds(mainQueue'[2]) /\ 2 \in 1..Len(mainQueue')
    BY <1>3 DEF Succeeds, Done
  <2>2. QED
    BY <1>1, <1>2, <2>1 DEF SceneInv, SignedInAtMenu, AuthScenes
<1>9. QED
  BY <1>4, <1>7, <1>8 DEF PatientInv, AloneInv

LEMMA LoadPatient ==
    ASSUME NavInv, PatientInv, LoadUser
    PROVE  PatientInv'
<1>1. /\ UNCHANGED <<stack, transition, requests>> /\ Top' = Top
      /\ work'.step = "idle" /\ work.step = "load"
  BY DEF LoadUser, screens, Top
<1>2. stack[Top] = "join" /\ ~InFlight /\ ~InFlight' /\ NoSuccess
  BY <1>1 DEF PatientInv, SceneInv, AloneInv, LeadInv, NoSuccess, InFlight, AuthScenes
<1>3. Extended
  <2>1. [block |-> "notify"] \in Blocks
    BY DEF Blocks
  <2>2. QED
    BY <2>1, ExtendedBySame, ExtendedByOne DEF LoadUser, NavInv, Succeeds
<1>4. NoSuccess'
  BY <1>2, <1>3, NoSuccessKept
<1>5. QED
  BY <1>1, <1>2, <1>4
     DEF PatientInv, AloneInv, LeadInv, SceneInv, NoSuccess, SignedInAtMenu, AuthScenes

\* The listener that is called is that of the scene in front.
LEMMA ReplacedPatient ==
    ASSUME NavInv, PatientInv, NEW i \in Levels, mainQueue # <<>>,
           mainQueue' = Replaced(Invoke(i)), Head(mainQueue).block \in {"initial", "notify"},
           Head(mainQueue).block = "notify" => i = OnScreen,
           UNCHANGED <<given, trap, screens, user, heard, auth>>
    PROVE  PatientInv'
<1>1. /\ UNCHANGED <<stack, transition, user, previousUserID, requests, work, currentUser>>
      /\ Top' = Top /\ SignedInAtMenu' = SignedInAtMenu
  BY SameOnScreen DEF screens, heard, auth
<1>2. ~InFlight /\ ~InFlight'
  BY <1>1 DEF PatientInv, AloneInv, InFlight
<1>3. /\ Len(mainQueue) \in Nat \ {0} /\ Len(mainQueue') = Len(mainQueue)
      /\ mainQueue'[1] = Invoke(i) /\ mainQueue[1].block = Head(mainQueue).block
      /\ \A j \in 1..Len(mainQueue) : j # 1 => mainQueue'[j] = mainQueue[j]
      /\ ~Succeeds(mainQueue[1]) /\ ~Succeeds(mainQueue'[1])
  BY ReplacedGives, HeadBlock DEF NavInv, Succeeds, Invoke
<1>4. ASSUME NEW j \in 1..Len(mainQueue), Succeeds(mainQueue[j])
      PROVE  /\ j = 2 /\ ~transition /\ i = Top
             /\ mainQueue'[1] = [block |-> "invoke", of |-> Top, user |-> currentUser]
  <2>1. /\ j = 2 /\ ~transition
        /\ \/ mainQueue[1].block = "notify"
           \/ mainQueue[1] = [block |-> "invoke", of |-> Top, user |-> currentUser]
    BY <1>3, <1>4 DEF PatientInv, LeadInv
  <2>2. Head(mainQueue).block = "notify"
    BY <1>3, <2>1
  <2>3. i = Top
    BY <2>1, <2>2 DEF OnScreen
  <2>4. QED
    BY <1>3, <2>1, <2>3 DEF Invoke
<1>5. \A j \in 1..Len(mainQueue) : /\ j \in 1..Len(mainQueue')
                                   /\ Succeeds(mainQueue'[j]) <=> Succeeds(mainQueue[j])
  BY <1>3
<1>6. LeadInv'
  <2>1. ASSUME NEW j \in 1..Len(mainQueue'), Succeeds(mainQueue'[j])
        PROVE  /\ Succeeds(mainQueue[j]) /\ j \in 1..Len(mainQueue) /\ j = 2
               /\ mainQueue'[j] = mainQueue[j]
               /\ mainQueue'[1] = [block |-> "invoke", of |-> Top, user |-> currentUser]
    BY <1>3, <1>4, <1>5, <2>1
  <2>2. QED
    BY <1>1, <1>2, <1>3, <2>1 DEF PatientInv, LeadInv
<1>7. SceneInv'
  BY <1>1, <1>5 DEF PatientInv, SceneInv
<1>8. QED
  BY <1>2, <1>6, <1>7 DEF PatientInv, AloneInv

LEMMA RunNotifyPatient ==
    ASSUME NavInv, PatientInv, RunNotify
    PROVE  PatientInv'
<1>1. /\ mainQueue # <<>> /\ Head(mainQueue).block = "notify"
      /\ UNCHANGED <<given, trap, screens, user, heard, auth>>
  BY DEF RunNotify, HeadIs
<1>2. CASE \E i \in listeners : mainQueue' = Replaced(Invoke(i))
  <2>1. \A i \in listeners : i \in Levels /\ i = OnScreen
    BY NavigationAssumption DEF NavInv, ScreenInv, ListenerOnScreen, OnScreen, Levels
  <2>2. QED
    BY <1>1, <1>2, <2>1, ReplacedPatient
<1>3. CASE listeners = {} /\ mainQueue' = Tail(mainQueue)
  <2>1. /\ UNCHANGED <<stack, transition, user, requests, work, currentUser>>
        /\ Top' = Top /\ SignedInAtMenu' = SignedInAtMenu
    BY <1>1, SameOnScreen DEF screens, heard, auth
  <2>2. ~InFlight'
    BY <1>1, <2>1 DEF PatientInv, AloneInv, InFlight
  <2>3. NoSuccess
    BY <1>3 DEF NoSuccess, PatientInv, LeadInv, NavInv, ScreenInv, ListenerOnScreen,
                OnScreen
  <2>4. NoSuccess'
    BY <1>1, <1>3, <2>3, NoSuccessOfTail
  <2>5. QED
    BY <2>1, <2>2, <2>3, <2>4
       DEF PatientInv, AloneInv, LeadInv, SceneInv, NoSuccess
<1>4. QED
  BY <1>2, <1>3 DEF RunNotify

\* The listener has not been told of a user before, so that it takes this one over.
LEMMA RunInvokePatient ==
    ASSUME NavInv, PatientInv, RunInvoke
    PROVE  PatientInv'
<1> DEFINE i == Head(mainQueue).of
           u == Head(mainQueue).user
<1>1. /\ mainQueue # <<>> /\ Head(mainQueue).block = "invoke" /\ mainQueue' = Tail(mainQueue)
      /\ UNCHANGED <<stack, transition, requests, work, currentUser>>
  BY DEF RunInvoke, HeadIs, screens, auth
<1>2. Top' = Top /\ SignedInAtMenu' = SignedInAtMenu /\ ~InFlight' /\ ~InFlight
  BY <1>1, SameOnScreen DEF PatientInv, AloneInv, InFlight
<1>3. user' = user \/ user' = currentUser
  BY DEF RunInvoke
<1>4. mainQueue[1] = Head(mainQueue) /\ ~Succeeds(mainQueue[1]) /\ Len(mainQueue) \in Nat
      /\ Len(mainQueue') = Len(mainQueue) - 1
  BY <1>1, HeadBlock DEF NavInv, Succeeds, QueueInv
<1>5. CASE NoSuccess
  <2>1. NoSuccess'
    BY <1>1, <1>5, NoSuccessOfTail
  <2>2. QED
    BY <1>1, <1>2, <1>3, <1>5, <2>1 DEF PatientInv, AloneInv, LeadInv, SceneInv, NoSuccess
<1>6. CASE ~NoSuccess
  <2>1. PICK j \in 1..Len(mainQueue) : Succeeds(mainQueue[j])
    BY <1>6 DEF NoSuccess
  <2>2. /\ work.step = "idle" /\ ~transition /\ currentUser # None
        /\ mainQueue[2].of = Top /\ stack[Top] \in AuthScenes /\ Succeeds(mainQueue[2])
        /\ Len(mainQueue) = 2 /\ \A l \in Levels : previousUserID[l] \notin Users
        /\ i = Top /\ u = currentUser
    <3>1. j # 1
      BY <1>4, <2>1
    <3>2. j = 2
      BY <2>1, <3>1 DEF PatientInv, LeadInv
    <3>3. mainQueue[1] = [block |-> "invoke", of |-> Top, user |-> currentUser]
      BY <1>1, <1>4, <2>1, <3>1 DEF PatientInv, LeadInv
    <3>4. i = Top /\ u = currentUser
      BY <1>4, <3>3
    <3>5. /\ work.step = "idle" /\ ~transition /\ currentUser # None
          /\ mainQueue[j].of = Top /\ stack[Top] \in AuthScenes /\ j = Len(mainQueue)
          /\ \A l \in Levels : previousUserID[l] \notin Users
      BY <2>1, <3>1, LeadAt DEF PatientInv
    <3>6. QED
      BY <2>1, <3>2, <3>4, <3>5
  <2>3. Top \in Levels /\ currentUser \in Users
    BY <2>2 DEF NavInv, ScreenInv, UserInv, UserOrNone
  <2>4. ShouldCallListener(i, u)
    BY <2>2, <2>3 DEF ShouldCallListener
  <2>5. user' = currentUser
    BY <2>2, <2>4 DEF RunInvoke
  <2>6. /\ Len(mainQueue') = 1
        /\ \A l \in 1..Len(mainQueue') : l = 1 /\ mainQueue'[l] = mainQueue[2]
    <3>1. \A l \in 1..Len(mainQueue') :
              l + 1 \in 1..Len(mainQueue) /\ mainQueue'[l] = mainQueue[l + 1] /\ l \in Nat
      BY <1>1, TailGives DEF NavInv
    <3>2. Len(mainQueue') = 1
      BY <1>4, <2>2
    <3>3. \A l \in 1..1 : l = 1
      OBVIOUS
    <3>4. QED
      BY <3>1, <3>2, <3>3
  <2>7. LeadInv'
    BY <1>1, <1>2, <2>2, <2>5, <2>6 DEF LeadInv
  <2>8. SceneInv'
    <3>1. 1 \in 1..Len(mainQueue') /\ Succeeds(mainQueue'[1])
      BY <2>2, <2>6
    <3>2. QED
      BY <1>1, <1>2, <2>2, <2>5, <3>1 DEF SceneInv, SignedInAtMenu, AuthScenes
  <2>9. QED
    BY <1>2, <2>7, <2>8 DEF PatientInv, AloneInv
<1>7. QED
  BY <1>5, <1>6

LEMMA RunDonePatient ==
    ASSUME NavInv, PatientInv, RunDone
    PROVE  PatientInv'
<1> DEFINE b == Head(mainQueue)
<1>1. /\ mainQueue # <<>> /\ b.block = "done" /\ mainQueue' = Tail(mainQueue)
      /\ UNCHANGED <<requests, work, currentUser>>
      /\ b = mainQueue[1] /\ 1 \in 1..Len(mainQueue)
  BY HeadBlock DEF RunDone, HeadIs, heard, auth, NavInv
<1>2. ~InFlight'
  BY <1>1 DEF PatientInv, AloneInv, InFlight
<1>3. CASE b.error
  <2>1. NoSuccess
    BY <1>1, <1>3 DEF NoSuccess, PatientInv, LeadInv, Succeeds
  <2>2. NoSuccess'
    BY <1>1, <2>1, NoSuccessOfTail
  <2>3. UNCHANGED <<stack, transition, user>> /\ Top' = Top /\ SignedInAtMenu' = SignedInAtMenu
    BY <1>3, SameOnScreen DEF RunDone
  <2>4. QED
    BY <1>1, <1>2, <2>1, <2>2, <2>3 DEF PatientInv, AloneInv, LeadInv, SceneInv, NoSuccess
<1>4. CASE ~b.error
  <2>1. /\ work.step = "idle" /\ ~transition /\ b.of = Top /\ Len(mainQueue) = 1
        /\ user = currentUser
    <3>1. Succeeds(mainQueue[1])
      BY <1>1, <1>4 DEF Succeeds
    <3>2. 1 # 2
      OBVIOUS
    <3>3. QED
      BY <1>1, <3>1, <3>2, LeadAt DEF PatientInv
  <2>2. /\ stack' = Append(stack, "menu") /\ user' = user
    BY <1>4, <2>1 DEF RunDone, Present, CanPresent, UserAfterLoad
  <2>3. stack'[Top'] = "menu"
    BY <2>2 DEF NavInv, ScreenInv, Top, Levels, Scenes
  <2>4. NoSuccess'
    <3>1. Len(mainQueue') = 0
      BY <1>1, <2>1 DEF NavInv, QueueInv
    <3>2. QED
      BY <3>1 DEF NoSuccess
  <2>5. QED
    BY <1>1, <1>2, <2>1, <2>2, <2>3, <2>4
       DEF PatientInv, AloneInv, LeadInv, SceneInv, NoSuccess, AuthScenes
<1>5. QED
  BY <1>3, <1>4

LEMMA RelaunchPatient ==
    ASSUME Relaunch
    PROVE  PatientInv'
<1> USE DEF Relaunch
<1>1. ~InFlight' /\ stack'[Top'] = "join"
  BY DEF InFlight, Top
<1>2. \A j \in 1..Len(mainQueue') : FALSE
  OBVIOUS
<1>3. QED
  BY <1>1, <1>2 DEF PatientInv, AloneInv, LeadInv, SceneInv, SignedInAtMenu

LEMMA InitPatient ==
    ASSUME Init
    PROVE  PatientInv
<1> USE DEF Init
<1>1. ~InFlight /\ stack[Top] = "join"
  BY DEF InFlight, Top
<1>2. \A j \in 1..Len(mainQueue) : FALSE
  OBVIOUS
<1>3. QED
  BY <1>1, <1>2 DEF PatientInv, AloneInv, LeadInv, SceneInv, SignedInAtMenu

LEMMA StutterPatient ==
    ASSUME NavInv, PatientInv, UNCHANGED vars
    PROVE  PatientInv'
<1>1. /\ UNCHANGED <<stack, transition, mainQueue, previousUserID, requests, work, user>>
      /\ UNCHANGED currentUser
  BY DEF vars, screens, heard, auth
<1>2. Top' = Top /\ SignedInAtMenu' = SignedInAtMenu
  BY <1>1, SameOnScreen
<1>3. InFlight' = InFlight
  BY <1>1 DEF InFlight
<1>4. QED
  BY <1>1, <1>2, <1>3 DEF PatientInv, AloneInv, LeadInv, SceneInv

LEMMA PatientStep ==
    ASSUME NavInv, MenuInv, patient => PatientInv, [Next]_vars, patient'
    PROVE  PatientInv'
<1>1. CASE Relaunch
  BY <1>1, RelaunchPatient
<1>2. CASE ~Relaunch
  <2>1. patient
    BY <1>2
       DEF Next, Taps, OnJoinPressed, OnSignInButtonPressed, OnSignUpButtonPressed, Tap,
           FinishTransition, AssignUser, LoadUser, RunBlock, RunInitial, RunNotify,
           RunInvoke, RunDone, Submit, Respond, RequestFails, SaveUser, given, vars
  <2>2. PatientInv /\ ToldInv
    BY <2>1 DEF MenuInv
  <2>3. CASE RunBlock
    <3>1. CASE RunInitial
      <4>1. Head(mainQueue).of \in Levels
        BY <3>1, HeadOf DEF RunInitial, HeadIs, NavInv
      <4>2. QED
        BY <2>2, <3>1, <4>1, ReplacedPatient DEF RunInitial, HeadIs
    <3>2. QED
      BY <2>2, <2>3, <3>1, RunNotifyPatient, RunInvokePatient, RunDonePatient DEF RunBlock
  <2>4. ASSUME NEW r \in 1..MaxRequests, Submit(r) \/ Respond(r) PROVE PatientInv'
    BY <2>1, <2>2, <2>4, SubmitPatient, RespondPatient
  <2>5. QED
    BY <1>2, <2>1, <2>2, <2>3, <2>4, TapPatient, FinishPatient, AssignPatient, LoadPatient,
       StutterPatient DEF Next
<1>3. QED
  BY <1>1, <1>2

\* For a user who waits until a tap has taken effect before the next one, the menu shows
\* the user that is signed in: Globals.user, which listeners, viewDidLoad and viewDidAppear
\* assign, and FIRAuth's current user, which the work queue assigns, agree whenever a
\* main menu was reached from a sign-in or sign-up scene.
THEOREM PatientMenuIsCurrent == Spec => []MenuUserIsCurrent
<1>1. Init => (patient => PatientInv)
  BY InitPatient
<1>2. NavInv /\ MenuInv /\ (patient => PatientInv) /\ [Next]_vars => (patient => PatientInv)'
  BY PatientStep
<1>3. (patient => PatientInv) => MenuUserIsCurrent
  BY DEF PatientInv, SceneInv, MenuUserIsCurrent
<1>4. QED
  BY <1>1, <1>2, <1>3, NavAlways, MenuAlways, PTL DEF Spec
=============================================================================
