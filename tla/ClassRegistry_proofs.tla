------------------------ MODULE ClassRegistry_proofs ------------------------
(***************************************************************************)
(* For every set of accounts, any number of handlers that run at once, of  *)
(* repeated deliveries and of lost handlers: class IDs are shared only     *)
(* after a handler has written the counter over a value it had not read.   *)
(***************************************************************************)
EXTENDS ClassRegistryHistory, TLAPS

LEMMA TypeOKNext ==
    ASSUME TypeOK, [Next]_vars
    PROVE  TypeOK'
<1> USE DEF TypeOK
<1>1. CASE \E a \in Accounts : Client(a) \/ Call(a)
  BY <1>1 DEF Client, Call, CreateUser, CreateUserSucceeds, CreateUserFails,
              CreateUserAnswers, SignUp, GetClassID, MoveFile, MoveFileRuns
<1>2. CASE \E d \in Deliveries : CreateDoc(d) \/ Run(d) \/ Fail(d)
  <2> PICK d \in Deliveries : CreateDoc(d) \/ Run(d) \/ Fail(d)
    BY <1>2
  <2>1. d[1] \in Accounts
    BY DEF Deliveries
  <2>2. CASE CreateDoc(d)
    BY <2>2 DEF CreateDoc, Step
  <2>3. CASE ReadLast(d)
    BY <2>3 DEF ReadLast, Step, NextID
  <2>4. CASE UpdateLast(d)
    BY <2>4 DEF UpdateLast, Step
  <2>5. CASE SetDoc(d)
    BY <2>5, <2>1 DEF SetDoc, Step
  <2>6. CASE Fail(d)
    BY <2>6 DEF Fail
  <2>7. QED
    BY <2>2, <2>3, <2>4, <2>5, <2>6 DEF Run
<1>3. CASE UNCHANGED vars
  BY <1>3 DEF vars
<1>4. QED
  BY <1>1, <1>2, <1>3 DEF Next

\* The registry is type correct, whatever runs at once (index.js).
THEOREM RegistryTypeOK == Spec => []TypeOK
<1>1. Init => TypeOK
  BY RegistryAssumption DEF Init, TypeOK
<1>2. TypeOK /\ [Next]_vars => TypeOK'
  BY TypeOKNext
<1>3. QED
  BY <1>1, <1>2, PTL DEF Spec

-----------------------------------------------------------------------------
(***************************************************************************)
(* The inductive invariant.  Uniqueness alone is not inductive: it must be *)
(* known where the IDs that running handlers hold stand to the counter, to *)
(* each other and to the IDs in documents and with clients.                *)
(***************************************************************************)
\* What a client was told came from a document, and every ID there from the counter.
Issued ==
    \A a \in Accounts :
        /\ docs[a] # None => docs[a] <= last
        /\ told[a] # None => told[a] <= last

\* A handler between the two requests holds the successor of what it has read, which
\* the counter has not fallen below.
ReadBelow == \A d \in Deliveries : handler[d] = "read" => num[d] = seen[d] + 1 /\ seen[d] <= last

\* The ID of a handler that has written the counter is its own.
HeldAlone ==
    \A d \in Deliveries : handler[d] = "updated" =>
        /\ num[d] <= last
        /\ \A e \in Deliveries : handler[e] = "updated" /\ e # d => num[e] # num[d]
        /\ \A a \in Accounts : docs[a] # num[d] /\ told[a] # num[d]

ToldAlone ==
    \A a, b \in Accounts : a # b /\ told[a] # None => told[a] # docs[b] /\ told[a] # told[b]

IDsInOrder == Issued /\ ReadBelow /\ HeldAlone /\ UniqueClassID /\ ToldAlone

HistoryInv ==
    /\ TypeOK
    /\ seen \in [Deliveries -> Nat]
    /\ overtaken \in BOOLEAN
    /\ ~overtaken => IDsInOrder

LEMMA HistoryInvInit == HistoryInit => HistoryInv
<1> SUFFICES ASSUME HistoryInit PROVE HistoryInv
  OBVIOUS
<1> USE RegistryAssumption
<1>1. TypeOK /\ seen \in [Deliveries -> Nat] /\ overtaken \in BOOLEAN
  BY DEF HistoryInit, Init, TypeOK
<1>2. Issued /\ UniqueClassID /\ ToldAlone
  BY DEF HistoryInit, Init, Issued, UniqueClassID, ToldAlone
<1>3. ReadBelow /\ HeldAlone
  BY DEF HistoryInit, Init, ReadBelow, HeldAlone
<1>4. QED
  BY <1>1, <1>2, <1>3 DEF HistoryInv, IDsInOrder

-----------------------------------------------------------------------------
(***************************************************************************)
(* What each step does to the IDs.  seen[d] matters while d has read.      *)
(***************************************************************************)
LEMMA SameIDs ==
    ASSUME IDsInOrder, UNCHANGED <<handler, num, last, docs, told>>,
           \A e \in Deliveries : handler[e] = "read" => seen'[e] = seen[e]
    PROVE  IDsInOrder'
  BY DEF IDsInOrder, Issued, ReadBelow, HeldAlone, UniqueClassID, ToldAlone

LEMMA GetClassIDKeeps ==
    ASSUME HistoryInv, IDsInOrder, NEW a \in Accounts, GetClassID(a),
           \A e \in Deliveries : handler[e] = "read" => seen'[e] = seen[e]
    PROVE  IDsInOrder'
<1> USE RegistryAssumption DEF HistoryInv, TypeOK, IDsInOrder, GetClassID
<1>1. Issued' /\ ReadBelow' /\ UniqueClassID'
  BY DEF Issued, ReadBelow, UniqueClassID
<1>2. HeldAlone'
  BY DEF HeldAlone
<1>3. ToldAlone'
  BY DEF ToldAlone, UniqueClassID
<1>4. QED
  BY <1>1, <1>2, <1>3

\* A handler that starts, or is lost, takes its ID with it.
LEMMA OutsideKeeps ==
    ASSUME HistoryInv, IDsInOrder, NEW d \in Deliveries,
           handler'[d] \notin {"read", "updated"}, UNCHANGED <<last, docs, told>>,
           \A e \in Deliveries : e # d => /\ handler'[e] = handler[e] /\ num'[e] = num[e]
                                          /\ handler[e] = "read" => seen'[e] = seen[e]
    PROVE  IDsInOrder'
<1> USE DEF IDsInOrder
<1>1. Issued' /\ UniqueClassID' /\ ToldAlone'
  BY DEF Issued, UniqueClassID, ToldAlone
<1>2. ReadBelow'
  BY DEF ReadBelow
<1>3. HeldAlone'
  BY DEF HeldAlone
<1>4. QED
  BY <1>1, <1>2, <1>3

LEMMA ReadLastKeeps ==
    ASSUME HistoryInv, IDsInOrder, NEW d \in Deliveries, ReadLast(d), seen'[d] = last,
           \A e \in Deliveries : e # d /\ handler[e] = "read" => seen'[e] = seen[e]
    PROVE  IDsInOrder'
<1> USE DEF HistoryInv, TypeOK, IDsInOrder, ReadLast, Step
<1>1. Issued' /\ UniqueClassID' /\ ToldAlone'
  BY DEF Issued, UniqueClassID, ToldAlone
<1>2. ReadBelow'
  BY DEF ReadBelow, NextID
<1>3. HeldAlone'
  BY DEF HeldAlone
<1>4. QED
  BY <1>1, <1>2, <1>3

\* The counter is as the handler has read it: its ID is above all others.
LEMMA UpdateLastKeeps ==
    ASSUME HistoryInv, IDsInOrder, NEW d \in Deliveries, UpdateLast(d), seen[d] = last,
           \A e \in Deliveries : e # d /\ handler[e] = "read" => seen'[e] = seen[e]
    PROVE  IDsInOrder'
<1> USE RegistryAssumption DEF HistoryInv, TypeOK, IDsInOrder, UpdateLast, Step
<1>1. num[d] = last + 1 /\ last' = last + 1
  BY DEF ReadBelow
<1>2. Issued' /\ UniqueClassID' /\ ToldAlone'
  BY <1>1 DEF Issued, UniqueClassID, ToldAlone
<1>3. ReadBelow'
  BY <1>1 DEF ReadBelow
<1>4. HeldAlone'
  <2>1. \A a \in Accounts : docs[a] # num[d] /\ told[a] # num[d]
    BY <1>1 DEF Issued
  <2>2. \A e \in Deliveries : handler[e] = "updated" => num[e] <= last /\ num[e] # num[d]
    BY <1>1 DEF HeldAlone
  <2>3. QED
    BY <1>1, <2>1, <2>2 DEF HeldAlone
<1>5. QED
  BY <1>2, <1>3, <1>4

LEMMA SetDocKeeps ==
    ASSUME HistoryInv, IDsInOrder, NEW d \in Deliveries, SetDoc(d),
           \A e \in Deliveries : e # d /\ handler[e] = "read" => seen'[e] = seen[e]
    PROVE  IDsInOrder'
<1> USE RegistryAssumption DEF HistoryInv, TypeOK, IDsInOrder, SetDoc, Step
<1>1. d[1] \in Accounts
  BY DEF Deliveries
<1>2. /\ num[d] <= last
      /\ \A a \in Accounts : docs[a] # num[d] /\ told[a] # num[d]
      /\ \A e \in Deliveries : handler[e] = "updated" /\ e # d => num[e] # num[d]
  BY DEF HeldAlone
<1>3. Issued' /\ UniqueClassID' /\ ToldAlone'
  BY <1>1, <1>2 DEF Issued, UniqueClassID, ToldAlone
<1>4. ReadBelow'
  BY DEF ReadBelow
<1>5. HeldAlone'
  BY <1>1, <1>2 DEF HeldAlone
<1>6. QED
  BY <1>3, <1>4, <1>5

LEMMA HistoryInvNext ==
    ASSUME HistoryInv, [HistoryNext]_historyVars
    PROVE  HistoryInv'
<1> USE DEF HistoryInv
<1>1. TypeOK'
  BY TypeOKNext DEF HistoryNext, historyVars, vars
<1>2. seen' \in [Deliveries -> Nat] /\ overtaken' \in BOOLEAN
  <2>1. CASE UNCHANGED historyVars
    BY <2>1 DEF historyVars
  <2>2. CASE HistoryNext
    <3>1. \A d \in Deliveries : seen'[d] \in Nat
      BY <2>2 DEF HistoryNext, TypeOK
    <3>2. QED
      BY <2>2, <3>1 DEF HistoryNext
  <2>3. QED
    BY <2>1, <2>2
<1>3. ASSUME ~overtaken' PROVE IDsInOrder'
  <2>1. CASE UNCHANGED historyVars
    BY <1>3, <2>1, SameIDs DEF historyVars, vars
  <2>2. CASE HistoryNext
    <3>1. IDsInOrder /\ \A d \in Deliveries : WritesLast(d) => seen[d] = last
      BY <1>3, <2>2 DEF HistoryNext
    <3>2. \A d \in Deliveries :
             seen'[d] = IF handler'[d] # "read" THEN 0
                        ELSE IF handler[d] # "read" THEN last ELSE seen[d]
      BY <2>2 DEF HistoryNext
    <3>3. ASSUME NEW a \in Accounts, Client(a) \/ Call(a) PROVE IDsInOrder'
      <4>1. CASE GetClassID(a)
        BY <3>1, <3>2, <4>1, GetClassIDKeeps DEF GetClassID
      <4>2. CASE UNCHANGED <<handler, num, last, docs, told>>
        BY <3>1, <3>2, <4>2, SameIDs
      <4>3. QED
        BY <3>3, <4>1, <4>2 DEF Client, Call, CreateUser, CreateUserSucceeds,
              CreateUserFails, CreateUserAnswers, SignUp, MoveFile, MoveFileRuns
    <3>4. ASSUME NEW d \in Deliveries, CreateDoc(d) \/ Run(d) \/ Fail(d) PROVE IDsInOrder'
      <4>1. \A e \in Deliveries : e # d => handler'[e] = handler[e]
        BY <3>4 DEF CreateDoc, Run, ReadLast, UpdateLast, SetDoc, Fail, Step, TypeOK
      <4>2. \A e \in Deliveries : e # d /\ handler[e] = "read" => seen'[e] = seen[e]
        BY <3>2, <4>1
      <4>3. CASE CreateDoc(d) \/ Fail(d)
        <5>1. /\ handler'[d] \notin {"read", "updated"} /\ UNCHANGED <<last, docs, told>>
              /\ \A e \in Deliveries : e # d => num'[e] = num[e]
          BY <4>3 DEF CreateDoc, Fail, Step, TypeOK
        <5>2. QED
          BY <3>1, <4>1, <4>2, <5>1, OutsideKeeps
      <4>4. CASE ReadLast(d)
        <5>1. handler[d] = "started" /\ handler'[d] = "read"
          BY <4>4 DEF ReadLast, Step, TypeOK
        <5>2. seen'[d] = last
          BY <3>2, <5>1
        <5>3. QED
          BY <3>1, <4>2, <4>4, <5>2, ReadLastKeeps
      <4>5. CASE UpdateLast(d)
        <5>1. WritesLast(d)
          BY <4>5 DEF UpdateLast, Step, WritesLast, TypeOK
        <5>2. QED
          BY <3>1, <4>2, <4>5, <5>1, UpdateLastKeeps
      <4>6. CASE SetDoc(d)
        BY <3>1, <4>2, <4>6, SetDocKeeps
      <4>7. QED
        BY <3>4, <4>3, <4>4, <4>5, <4>6 DEF Run
    <3>5. QED
      BY <2>2, <3>3, <3>4 DEF HistoryNext, Next
  <2>3. QED
    BY <2>1, <2>2
<1>4. QED
  BY <1>1, <1>2, <1>3

LEMMA HistoryInvariant == HistorySpec => []HistoryInv
<1>1. HistoryInv /\ [HistoryNext]_historyVars => HistoryInv'
  BY HistoryInvNext
<1>2. QED
  BY <1>1, HistoryInvInit, PTL DEF HistorySpec

\* However many users sign up, handlers run at once, are lost or repeated: until a
\* handler writes the counter over a value it has not read, no two users have the same
\* class ID (createDoc and generateClassID).
THEOREM OnlyOvertakingShares == HistorySpec => []UniqueUnlessOvertaken
<1>1. HistoryInv => UniqueUnlessOvertaken
  BY DEF HistoryInv, IDsInOrder, UniqueUnlessOvertaken
<1>2. QED
  BY <1>1, HistoryInvariant, PTL

\* Until then a class ID that getClassID has told is never told to, nor in the document
\* of, another user, although a second delivery may have replaced it.
THEOREM ToldIsNotReused == HistorySpec => []ToldIsTheirsAlone
<1>1. HistoryInv => ToldIsTheirsAlone
  BY DEF HistoryInv, IDsInOrder, ToldAlone, ToldIsTheirsAlone
<1>2. QED
  BY <1>1, HistoryInvariant, PTL
=============================================================================
