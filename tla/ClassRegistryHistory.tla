------------------------ MODULE ClassRegistryHistory ------------------------
(***************************************************************************)
(* ClassRegistry with what is needed to say when class IDs are unique:     *)
(* what each running handler of createDoc read in the counter, and whether *)
(* one has written the counter after somebody else had changed it.         *)
(***************************************************************************)
EXTENDS ClassRegistry

VARIABLES
    seen,        \* seen[d]: the value of last that the handler of d has read
    overtaken    \* a handler wrote last over a value that it had not read

historyVars == <<vars, seen, overtaken>>

HistoryInit ==
    /\ Init
    /\ seen = [d \in Deliveries |-> 0]
    /\ overtaken = FALSE

WritesLast(d) == handler[d] = "read" /\ handler'[d] = "updated"

HistoryNext ==
    /\ Next
    /\ seen' = [d \in Deliveries |->
                   IF handler'[d] # "read" THEN 0
                   ELSE IF handler[d] # "read" THEN last ELSE seen[d]]
    /\ overtaken' = (overtaken \/ \E d \in Deliveries : WritesLast(d) /\ seen[d] # last)

HistorySpec == HistoryInit /\ [][HistoryNext]_historyVars

-----------------------------------------------------------------------------
\* The step from ID.get to ID.update is the only weak spot of generateClassID: until a
\* handler writes the counter over a value that it has not read, class IDs are unique,
\* however many handlers run at once in all other steps, wherever they are lost, and
\* although a second delivery gives the same user another ID.
UniqueUnlessOvertaken == ~overtaken => UniqueClassID

\* A class ID that getClassID has told a client was never told to, and is in no document
\* of, another user, even if a second delivery of the event has replaced it since.
ToldIsTheirsAlone ==
    ~overtaken => \A a, b \in Accounts :
        a # b /\ told[a] # None => told[a] # docs[b] /\ told[a] # told[b]
=============================================================================
