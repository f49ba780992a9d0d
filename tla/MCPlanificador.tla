--------------------------- MODULE MCPlanificador ---------------------------
(* Small instance of Planificador for TLC.                                    *)
EXTENDS Planificador
=============================================================================
