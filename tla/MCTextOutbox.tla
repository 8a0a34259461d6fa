---------------------------- MODULE MCTextOutbox ----------------------------
(* Instances of TextOutbox for model checking. *)
EXTENDS TextOutbox

CONSTANTS p1, p2, m1, m2, m3
=============================================================================
