----------------------------- MODULE MCVideoEdit -----------------------------
(***************************************************************************)
(* Model checking of VideoEditController: a finger moves up to a second    *)
(* of the slider between two events.                                       *)
(***************************************************************************)
EXTENDS VideoEditController

MCDrags == -1..1
=============================================================================
