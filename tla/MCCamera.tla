------------------------------ MODULE MCCamera ------------------------------
(***************************************************************************)
(* Model checking of CameraController: lessons are interchangeable, so     *)
(* that safety runs may use the symmetry of their files.                   *)
(***************************************************************************)
EXTENDS CameraProperties, TLC

Symmetry == Permutations(Files)
=============================================================================
