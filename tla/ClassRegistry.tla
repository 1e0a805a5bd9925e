---------------------------- MODULE ClassRegistry ----------------------------
(***************************************************************************)
(* node/functions/index.js: the cloud functions that create users and give *)
(* each of them a class ID.                                                *)
(*                                                                         *)
(* createDoc runs once for every delivery of an onCreate event.  The       *)
(* platform delivers an event at least once, runs any number of handlers   *)
(* at the same time, and may lose one between two awaits; each await is a  *)
(* request to Firestore, which serves one request at a time.               *)
(***************************************************************************)
EXTENDS Naturals

CONSTANTS
    Accounts,        \* the users that may sign up
    None,            \* no document, or no answer
    FirstLast,       \* users/_classID as somebody wrote it before the first user
    MaxDeliveries    \* bound: times the platform delivers an event

ASSUME RegistryAssumption ==
    /\ None \notin Nat
    /\ FirstLast \in Nat
    /\ MaxDeliveries \in Nat \ {0}

VARIABLES
    signup,     \* signup[a]: progress of the call of createUser
    handler,    \* handler[d]: where createDoc is for delivery d
    num,        \* num[d]: generateClassID's local num, 0 when it has none
    last,       \* the field last of the document users/_classID
    docs,       \* docs[a]: classID of the document users/a, or None
    told,       \* told[a]: the class ID getClassID last answered, or None
    move        \* move[a]: progress of the user's call of moveFile

vars == <<signup, handler, num, last, docs, told, move>>

Deliveries == Accounts \X (1..MaxDeliveries)
InFlight == {d \in Deliveries : handler[d] \in {"started", "read", "updated"}}
Registered(a) == signup[a] \in {"created", "answered"}

TypeOK ==
    /\ signup \in [Accounts -> {"none", "requested", "created", "answered", "rejected"}]
    /\ handler \in [Deliveries -> {"none", "started", "read", "updated", "done", "failed"}]
    /\ num \in [Deliveries -> Nat]
    /\ last \in Nat
    /\ docs \in [Accounts -> Nat \cup {None}]
    /\ told \in [Accounts -> Nat \cup {None}]
    /\ move \in [Accounts -> {"none", "requested", "threw", "moved"}]

Init ==
    /\ signup = [a \in Accounts |-> "none"]
    /\ handler = [d \in Deliveries |-> "none"]
    /\ num = [d \in Deliveries |-> 0]
    /\ last = FirstLast
    /\ docs = [a \in Accounts |-> None]
    /\ told = [a \in Accounts |-> None]
    /\ move = [a \in Accounts |-> "none"]

-----------------------------------------------------------------------------
(***************************************************************************)
(* createUser: the call, Authentication's verdict, the answer.             *)
(***************************************************************************)
SignUp(a, from, to) ==
    /\ signup[a] = from
    /\ signup' = [signup EXCEPT ![a] = to]
    /\ UNCHANGED <<handler, num, last, docs, told, move>>

CreateUser(a) == SignUp(a, "none", "requested")
CreateUserSucceeds(a) == SignUp(a, "requested", "created")
CreateUserFails(a) == SignUp(a, "requested", "rejected")
CreateUserAnswers(a) == SignUp(a, "created", "answered")

-----------------------------------------------------------------------------
(***************************************************************************)
(* createDoc and generateClassID, one delivery d = <<account, nth>>.       *)
(***************************************************************************)
Step(d, from, to) ==
    /\ handler[d] = from
    /\ handler' = [handler EXCEPT ![d] = to]

CreateDoc(d) ==
    /\ Registered(d[1])
    /\ Step(d, "none", "started")
    /\ UNCHANGED <<signup, num, last, docs, told, move>>

\* Mutants of NextID: the counter has no field last; the + 1 is missing.
NoNextID == None
SameID == last

\* const num = (await ID.get()).data().last + 1
NextID == last + 1

ReadLast(d) ==
    /\ Step(d, "started", "read")
    /\ num' = [num EXCEPT ![d] = NextID]
    /\ UNCHANGED <<signup, last, docs, told, move>>

\* Mutant of UpdateLast: createDoc returns once the counter is written.
UpdateLastAndReturn(d) ==
    /\ Step(d, "read", "done")
    /\ last' = num[d]
    /\ UNCHANGED <<signup, num, docs, told, move>>

\* await ID.update({last: num})
UpdateLast(d) ==
    /\ Step(d, "read", "updated")
    /\ last' = num[d]
    /\ UNCHANGED <<signup, num, docs, told, move>>

\* doc(`users/${user.uid}`).set(userData)
SetDoc(d) ==
    /\ Step(d, "updated", "done")
    /\ docs' = [docs EXCEPT ![d[1]] = num[d]]
    /\ num' = [num EXCEPT ![d] = 0]
    /\ UNCHANGED <<signup, last, told, move>>

\* A request fails, or the platform loses the handler; the trigger is not retried.
Fail(d) ==
    /\ d \in InFlight
    /\ handler' = [handler EXCEPT ![d] = "failed"]
    /\ num' = [num EXCEPT ![d] = 0]
    /\ UNCHANGED <<signup, last, docs, told, move>>

-----------------------------------------------------------------------------
\* Mutant of GetClassID: it answers the counter.
GetClassIDFromCounter(a) ==
    /\ told' = [told EXCEPT ![a] = last]
    /\ UNCHANGED <<signup, handler, num, last, docs, move>>

\* getClassID: without a document doc.data() is undefined, and the answer an
\* error.
GetClassID(a) ==
    /\ told' = [told EXCEPT ![a] = docs[a]]
    /\ UNCHANGED <<signup, handler, num, last, docs, move>>

MoveFile(a) ==
    /\ move[a] = "none"
    /\ move' = [move EXCEPT ![a] = "requested"]
    /\ UNCHANGED <<signup, handler, num, last, docs, told>>

\* Building newFileName reads fileName, which nothing declares: the handler
\* rejects before it renames anything and before it answers.
MoveFileRuns(a) ==
    /\ move[a] = "requested"
    /\ move' = [move EXCEPT ![a] = "threw"]
    /\ UNCHANGED <<signup, handler, num, last, docs, told>>

-----------------------------------------------------------------------------
Client(a) == CreateUser(a) \/ GetClassID(a) \/ MoveFile(a)

Call(a) ==
    \/ CreateUserSucceeds(a)
    \/ CreateUserFails(a)
    \/ CreateUserAnswers(a)
    \/ MoveFileRuns(a)

Run(d) == ReadLast(d) \/ UpdateLast(d) \/ SetDoc(d)

Next ==
    \/ \E a \in Accounts : Client(a) \/ Call(a)
    \/ \E d \in Deliveries : CreateDoc(d) \/ Run(d) \/ Fail(d)

Spec == Init /\ [][Next]_vars

\* Calls run, an event is delivered at least once, and a handler that is not lost
\* runs to its end.
FairSpec ==
    /\ Spec
    /\ \A a \in Accounts : WF_vars(Call(a)) /\ WF_vars(CreateDoc(<<a, 1>>))
    /\ \A d \in Deliveries : WF_vars(Run(d))

-----------------------------------------------------------------------------
\* No two users have the same class ID (generateClassID, by the comment above it).
UniqueClassID ==
    \A a, b \in Accounts : a # b /\ docs[a] # None => docs[a] # docs[b]

\* Every user that was created gets a document with a class ID, unless a handler of
\* this very user is lost: other users' handlers, lost or running at the same time,
\* keep nobody from it (createDoc).
LostHandler(a) == \E d \in Deliveries : d[1] = a /\ handler[d] = "failed"
EveryUserGetsClassID ==
    \A a \in Accounts : Registered(a) ~> docs[a] # None \/ LostHandler(a)
=============================================================================
