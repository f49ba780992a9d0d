------------------------------ MODULE MCFinales ------------------------------
(* Small instance of Finales for TLC.                                      *)
EXTENDS Finales
==============================================================================
