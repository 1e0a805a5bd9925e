--------------------------- MODULE MCCameraSteady ---------------------------
(***************************************************************************)
(* CameraController at the pace of the device: the camera takes 30 frames  *)
(* a second and the timer fires 10 times, so that a frame is processed     *)
(* between two ticks.                                                      *)
(***************************************************************************)
EXTENDS CameraProperties

VARIABLE ticked    \* the timer has fired since the last frame was processed

Fires == counter' > counter
Processed == queue = "sync" /\ queue' = "idle"

SteadyInit == Init /\ ticked = FALSE

SteadyNext ==
    /\ Next
    /\ ticked => ~Fires
    /\ ticked' = (screen' # "launch" /\ ~Processed /\ (ticked \/ Fires))

SteadySpec == SteadyInit /\ [][SteadyNext]_<<vars, ticked>>
=============================================================================
