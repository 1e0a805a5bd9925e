--------------------------- MODULE MCCameraHistory ---------------------------
(***************************************************************************)
(* CameraController with the time of the last frame that showed a hand, to *)
(* compare the resets of the gesture processor with the comment on them.   *)
(***************************************************************************)
EXTENDS CameraController

VARIABLE lastHand   \* time of the last frame handed to processPoints with points

MCInit == Init /\ lastHand = 0

MCNext ==
    /\ Next
    /\ lastHand' = IF screen' = "launch" THEN 0
                   ELSE IF queue = "sync" /\ hand \in G!Shapes THEN time ELSE lastHand

MCSpec == MCInit /\ [][MCNext]_<<vars, lastHand>>

FrameWithoutHand == Deliver /\ hand = "none"

\* processPoints resets the gesture for want of a hand only when there has been no
\* hand for more than 2 seconds, by the comment above the test.
ResetAfterGap ==
    [][FrameWithoutHand /\ gesture # "unknown" /\ gesture' = "unknown"
           => time - lastHand > ResetGap]_<<vars, lastHand>>
=============================================================================
