----------------------------- MODULE Direcciones -----------------------------
(***************************************************************************)
(* The arithmetic of Memoria's logical addresses.                          *)
(***************************************************************************)
EXTENDS Integers

CONSTANTS
    TamPagina,     \* TAMANIO_PAG
    Medio          \* 2^31: half of the values of an uint32_t

ASSUME TamPaginaPositivo == TamPagina \in Nat \ {0}
ASSUME MedioGrande == Medio \in Nat /\ Medio > 34

Modulo == 2 * Medio
UInt32 == 0 .. Modulo - 1
Int32 == -Medio .. Medio - 1

SinPrevio == Modulo - 1        \* (uint32_t) -1

ComoInt32(n) == IF n < Medio THEN n ELSE n - Modulo

(* prev is unsigned, so prev - 9 wraps below 9 before it becomes signed.   *)
CalcularDireccionLogica(prev) ==
    IF prev = SinPrevio THEN 25 ELSE ComoInt32((prev - 9) % Modulo)

(* C truncates towards zero.                                               *)
ObtenerPagDirLogica(dir) ==
    IF dir >= 0 THEN dir \div TamPagina ELSE -((-dir) \div TamPagina)

ObtenerOffsetDirLogica(dir) ==
    IF dir >= 0 THEN dir % TamPagina ELSE -((-dir) % TamPagina)
=============================================================================
