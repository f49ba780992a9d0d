------------------------------ MODULE MCSistema ------------------------------
(* Small instances of Sistema for TLC.                                     *)
EXTENDS Sistema, TLC

(* Applications are interchangeable in the safety runs.                    *)
Simetria == Permutations(Carpinchos)
=============================================================================
