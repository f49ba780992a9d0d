------------------------------ MODULE Paquetes ------------------------------
(***************************************************************************)
(* The two packet formats that travel between the carpinchos, the Kernel   *)
(* and Memoria (Shared/src/serializacion.c), at the granularity of the     *)
(* four-byte words the sockets carry.                                      *)
(*                                                                         *)
(*   carpincho format   code, size, size bytes, pid, memoria_a_alocar      *)
(*   plain format       code, size, size bytes                             *)
(*                                                                         *)
(* The carpincho format is in the repository.  The plain one is written    *)
(* and read by Shared/src/utils.c, a file the repository does not contain: *)
(* it is modelled from its callers.  t_buffer, which both formats share,   *)
(* has the pid and memoria_a_alocar fields, and callers of the plain       *)
(* reader do look at the pid, so both readings of the missing file are     *)
(* kept: PlanoConPid says whether its packets carry the two trailing words.*)
(*                                                                         *)
(* A payload word is opaque: buffer_create_carpincho copies the bytes of   *)
(* the pointer it is given, never what the pointer points to.              *)
(***************************************************************************)
EXTENDS Integers, Sequences

CONSTANTS
    PlanoConPid,   \* does a plain packet end with pid and memoria_a_alocar?
    Dato,          \* a word of payload: half of a pointer of the sender
    Indef          \* a word nobody wrote: an uninitialised variable

ASSUME PlanoConPidEsBool == PlanoConPid \in BOOLEAN
ASSUME IndefNoEsNumero == Indef \notin Int

(* Operation codes: Shared/include/main.h and the ERROR of utils.h.        *)
MATELIB == 0
KERNEL == 1
ERROR == 33
KERNEL_OK == 203
ALOCAR_EN_MEMORIA == 401
LIBERAR_MEMORIA == 402
LEER_EN_MEMORIA == 403
ESCRIBIR_EN_MEMORIA == 404
TODO_OK == 506
CARPINCHO_NEW == 507

Palabra == Int \cup {Dato, Indef}
Formatos == {"carpincho", "plano"}
TamPalabra == 4

(* Definitions called Mut... are not the code: each is the definition after *)
(* it with a plausible mistake in it, which some property has to notice.    *)
MutPunteroVacio == <<>>

(* sizeof(stream), a pointer: the payload every sender of Memoria's        *)
(* protocol announces, whatever the length of its text.                    *)
Puntero == <<Dato, Dato>>

-----------------------------------------------------------------------------
(* Writing *)

Cuerpo(cod, datos) == <<cod, TamPalabra * Len(datos)>> \o datos

MutTramaInvertida(cod, datos, pid, memo) == Cuerpo(cod, datos) \o <<memo, pid>>

TramaCarpincho(cod, datos, pid, memo) == Cuerpo(cod, datos) \o <<pid, memo>>

TramaPlana(cod, datos) ==
    Cuerpo(cod, datos) \o (IF PlanoConPid THEN <<Indef, Indef>> ELSE <<>>)

-----------------------------------------------------------------------------
(* Reading.  A reader issues one blocking recv(MSG_WAITALL) per field, so  *)
(* it takes its packet once enough words are there, and otherwise waits    *)
(* until they are or the peer closes.                                      *)

TieneCola(fmt) == fmt = "carpincho" \/ PlanoConPid

Largo(fmt, tam) == 2 + (tam \div TamPalabra) + (IF TieneCola(fmt) THEN 2 ELSE 0)

Completo(fmt, ws) ==
    /\ Len(ws) >= 2
    /\ ws[2] \in Nat
    /\ Len(ws) >= Largo(fmt, ws[2])

(* A recv of zero bytes returns zero, which the reader takes for a failure:*)
(* a packet with an empty payload is always an ERROR.                      *)
CodigoLeido(cod, tam) == IF tam = 0 THEN ERROR ELSE cod

Lee(fmt, ws) ==
    LET l == Largo(fmt, ws[2])
    IN  [cod   |-> CodigoLeido(ws[1], ws[2]),
         pid   |-> IF TieneCola(fmt) THEN ws[l - 1] ELSE Indef,
         memo  |-> IF TieneCola(fmt) THEN ws[l] ELSE Indef,
         resto |-> SubSeq(ws, l + 1, Len(ws))]

(* The peer closed before the last field: that field keeps the value of an *)
(* uninitialised local and the code is ERROR.                              *)
LeeCortado == [cod |-> ERROR, pid |-> Indef, memo |-> Indef, resto |-> <<>>]

MutLegibleSinFin(fmt, ws, eof) == Completo(fmt, ws)

Legible(fmt, ws, eof) == Completo(fmt, ws) \/ eof

Recibe(fmt, ws) == IF Completo(fmt, ws) THEN Lee(fmt, ws) ELSE LeeCortado

Paquete == [cod : Palabra, pid : Palabra, memo : Palabra, resto : Seq(Palabra)]
=============================================================================
