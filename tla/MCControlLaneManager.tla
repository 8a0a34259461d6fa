------------------------ MODULE MCControlLaneManager ------------------------
(* Instances of ControlLaneManager for model checking. *)
EXTENDS ControlLaneManager

CONSTANTS m1, m2, m3, a1, a2, s1, s2
=============================================================================
