---------------------------- MODULE LessonLibrary ----------------------------
(***************************************************************************)
(* What the camera and the main menu are together: a library of lessons.   *)
(* One lesson at a time is recorded, stopped and listed; the lesson just   *)
(* listed is offered to the editor.  Quitting, at any moment, loses the    *)
(* lesson that is not yet listed and no other.                             *)
(***************************************************************************)
CONSTANTS Lessons, None

VARIABLES
    life,      \* life[l]: where the lesson is in its life
    offered,   \* the lesson just listed, until the editor takes it, or None
    editing    \* the lesson in the editor, or None

vars == <<life, offered, editing>>

TypeOK ==
    /\ life \in [Lessons -> {"new", "recording", "stopped", "listed", "lost"}]
    /\ offered \in Lessons \cup {None} /\ editing \in Lessons \cup {None}

Init ==
    /\ life = [l \in Lessons |-> "new"]
    /\ offered = None /\ editing = None

Unlisted == {"recording", "stopped"}

Record(l) ==
    /\ offered = None /\ editing = None
    /\ \A other \in Lessons : life[other] \notin Unlisted
    /\ life[l] = "new" /\ life' = [life EXCEPT ![l] = "recording"]
    /\ UNCHANGED <<offered, editing>>

Stop(l) ==
    /\ life[l] = "recording" /\ life' = [life EXCEPT ![l] = "stopped"]
    /\ UNCHANGED <<offered, editing>>

List(l) ==
    /\ life[l] = "stopped" /\ life' = [life EXCEPT ![l] = "listed"]
    /\ offered' = l
    /\ UNCHANGED editing

\* The editor takes the lesson, unless an alert is in the way.
Offer ==
    /\ offered # None /\ offered' = None
    /\ editing' \in {offered, editing}
    /\ UNCHANGED life

Quit ==
    /\ life' = [l \in Lessons |-> IF life[l] \in Unlisted THEN "lost" ELSE life[l]]
    /\ offered' = None /\ editing' = None

Next ==
    \/ Offer \/ Quit
    \/ \E l \in Lessons : Record(l) \/ Stop(l) \/ List(l)

Spec == Init /\ [][Next]_vars
=============================================================================
