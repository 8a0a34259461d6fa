--------------------------- MODULE MCMlsDelivery ---------------------------
(***************************************************************************)
(* Instances of MlsDelivery for TLC.                                        *)
(***************************************************************************)
EXTENDS MlsDelivery
=============================================================================
