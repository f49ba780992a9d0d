----------------------------- MODULE MCArranque -----------------------------
(* Small instance of Arranque for TLC.                                        *)
EXTENDS Arranque
=============================================================================
