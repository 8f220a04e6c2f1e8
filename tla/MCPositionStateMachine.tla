------------------------ MODULE MCPositionStateMachine ------------------------
(***************************************************************************)
(* Instances of PositionStateMachine for TLC.                              *)
(***************************************************************************)
EXTENDS PositionStateMachine

CONSTANTS c1, c2

MCCallers == {c1, c2}
MCDeltas == {0, 1}
===============================================================================
