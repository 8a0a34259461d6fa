--------------------------- MODULE MCRuntimeAttach ---------------------------
(* Instances of RuntimeAttach for model checking. *)
EXTENDS RuntimeAttach

CONSTANTS j1, j2, j3, p1, p2, a, b
=============================================================================
