------------------------- MODULE MCTextSupervision -------------------------
(* Instances of TextSupervision for model checking. *)
EXTENDS TextSupervision

CONSTANTS j1, j2, j3, j4, p1, a, b, m1, m2, m3
=============================================================================
