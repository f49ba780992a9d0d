-------------------------------- MODULE Swap --------------------------------
(***************************************************************************)
(* The Swap server (Swap/swap.c) and its TCP connections.  A run of Swap   *)
(* accepts one client, is greeted by it, tells it how many pages it has,   *)
(* serves its requests one by one and ends.  The user may start it again.  *)
(*                                                                         *)
(* A client is one run of Memoria.  The files and the frame tables hold    *)
(* nothing anybody reads in this version: a page is opaque payload.        *)
(***************************************************************************)
EXTENDS Paquetes, FiniteSets

CONSTANTS
    Memorias,      \* the runs of Memoria
    Nulo,          \* nobody, nothing yet
    CantPaginas,   \* tamanio_swap / tamanio_pag
    MaxVidas       \* bound: runs of Swap

ASSUME CantPaginasNat == CantPaginas \in Nat /\ MaxVidas \in Nat
ASSUME NuloAparte == Nulo \notin Memorias /\ Nulo \notin Int

(* Shared/include/main.h *)
MEMORIA == 2
ASIGNACION_FIJA == 405
ASIGNACION_GLOBAL == 406
CANT_PAGS_MAXIMAS == 407
PEDIR_PAGINA == 501
LEER_PAGINA == 502
ESCRIBIR_PAGINA == 503
BORRAR_PAGINA == 504
FINALIZAR_SWAP == 505
CARPINCHO_KILL == 508

(* Definitions called Mut... are not the code: each is the definition after *)
(* it as a plausible bug would have it.                                    *)

VARIABLES
    aSwap, aMem,   \* words sent and not yet read, in each direction
    cli,           \* the client's end: "sin", "abierta", "cerrada"
    srv,           \* Swap's end: "sin", "espera" (backlog), "abierta", "cerrada"
    cola,          \* the backlog of server_fd
    sPc,           \* where Swap is
    sActual,       \* cliente_fd
    vida,          \* runs of Swap so far
    saludo         \* history: the run of Swap that answered each greeting, or 0

conexiones == <<aSwap, aMem, cli, srv, cola>>
swap == <<sPc, sActual, vida, saludo>>

SwapTypeOK ==
    /\ aSwap \in [Memorias -> Seq(Palabra)] /\ aMem \in [Memorias -> Seq(Palabra)]
    /\ cli \in [Memorias -> {"sin", "abierta", "cerrada"}]
    /\ srv \in [Memorias -> {"sin", "espera", "abierta", "cerrada"}]
    /\ cola \in Seq(Memorias)
    /\ sPc \in {"fuera", "aceptar", "saludo", "pedido", "terminar"}
    /\ sActual \in Memorias \cup {Nulo}
    /\ vida \in 0 .. MaxVidas
    /\ saludo \in [Memorias -> 0 .. MaxVidas]

SwapInit ==
    /\ aSwap = [m \in Memorias |-> <<>>] /\ aMem = [m \in Memorias |-> <<>>]
    /\ cli = [m \in Memorias |-> "sin"] /\ srv = [m \in Memorias |-> "sin"]
    /\ cola = <<>>
    /\ sPc = "fuera" /\ sActual = Nulo
    /\ vida = 0
    /\ saludo = [m \in Memorias |-> 0]

-----------------------------------------------------------------------------
(* What the peer will never read is dropped.                               *)
HaciaSwap(m, ws) == IF srv[m] = "cerrada" THEN aSwap ELSE [aSwap EXCEPT ![m] = @ \o ws]
HaciaMem(m, ws) == IF cli[m] = "cerrada" THEN aMem ELSE [aMem EXCEPT ![m] = @ \o ws]

SwapLegible(fmt) == Legible(fmt, aSwap[sActual], cli[sActual] = "cerrada")

(* main up to iniciar_servidor. *)
Arranca ==
    /\ sPc = "fuera" /\ vida < MaxVidas
    /\ sPc' = "aceptar"
    /\ vida' = vida + 1
    /\ UNCHANGED <<conexiones, sActual, saludo>>

SwapAcepta ==
    /\ sPc = "aceptar" /\ cola # <<>>
    /\ sActual' = Head(cola)
    /\ cola' = Tail(cola)
    /\ srv' = [srv EXCEPT ![Head(cola)] = "abierta"]
    /\ sPc' = "saludo"
    /\ UNCHANGED <<aSwap, aMem, cli, vida, saludo>>

MutAsignacionConocida(x) == x = ASIGNACION_GLOBAL

AsignacionConocida(x) == x \in {ASIGNACION_FIJA, ASIGNACION_GLOBAL}

MutTrasElHilo == "aceptar"

(* pthread_exit: main goes on to terminarSwap.                             *)
TrasElHilo == "terminar"

(* The greeting and inicializar_asignacion, which answers nothing to an    *)
(* assignment it does not know.                                            *)
SwapSaludo ==
    /\ sPc = "saludo"
    /\ SwapLegible("plano")
    /\ LET m == sActual
           ws == aSwap[m]
           p == Recibe("plano", ws)
           seguir == p.cod = MEMORIA
           responder == seguir /\ AsignacionConocida(ws[3])
       IN  /\ aSwap' = [aSwap EXCEPT ![m] = p.resto]
           /\ sPc' = IF seguir THEN "pedido" ELSE TrasElHilo
           /\ aMem' = IF responder THEN HaciaMem(m, TramaPlana(CANT_PAGS_MAXIMAS, <<CantPaginas, Dato>>))
                                   ELSE aMem
           /\ saludo' = IF responder THEN [saludo EXCEPT ![m] = vida] ELSE saludo
    /\ UNCHANGED <<cli, srv, cola, sActual, vida>>

-----------------------------------------------------------------------------
(* The loop over the requests *)

MutFormatoPedido == "plano"

FormatoPedido == "carpincho"

MutPaginaLeida == TramaCarpincho(LEER_PAGINA, <<>>, 12, 2)

(* leer_pagina: the eight bytes of an uninitialised pointer.               *)
PaginaLeida == TramaCarpincho(LEER_PAGINA, Puntero, 12, 2)

(* The answers.  pedir_pagina sends a packet nobody filled in, and         *)
(* borrar_pagina the request, whose payload is freed by then.              *)
Respuesta(p) ==
    CASE p.cod = LEER_PAGINA -> PaginaLeida
      [] p.cod = BORRAR_PAGINA -> TramaCarpincho(BORRAR_PAGINA, <<Indef, Indef>>, p.pid, p.memo)
      [] p.cod = PEDIR_PAGINA -> <<Indef, Indef>>
      [] OTHER -> <<>>

MutSigue(cod) == cod \in {PEDIR_PAGINA, BORRAR_PAGINA, CARPINCHO_NEW, CARPINCHO_KILL}

(* The codes after which the loop goes on: neither FINALIZAR_SWAP, nor     *)
(* PAQUETES, nor an unknown one or an ERROR.                               *)
Sigue(cod) == cod \in {PEDIR_PAGINA, LEER_PAGINA, BORRAR_PAGINA, CARPINCHO_NEW, CARPINCHO_KILL}

(* The end of the process closes every socket of Swap.  If words of a      *)
(* client were still unread the connection is reset, and what the client   *)
(* had not read may be lost too.                                           *)
Corta ==
    /\ srv' = [m \in Memorias |-> IF srv[m] = "sin" THEN "sin" ELSE "cerrada"]
    /\ aSwap' = [m \in Memorias |-> <<>>]
    /\ \/ UNCHANGED aMem
       \/ aMem' = [m \in Memorias |-> IF aSwap[m] # <<>> THEN <<>> ELSE aMem[m]]
    /\ cola' = <<>>
    /\ sPc' = "fuera"
    /\ sActual' = Nulo
    /\ UNCHANGED <<cli, vida, saludo>>

(* escribir_pagina never returns: elegir_archivo looks at six files, and   *)
(* the configurations name three at most.                                  *)
EscrituraFalla(cod) == cod = ESCRIBIR_PAGINA

SwapPedido ==
    /\ sPc = "pedido"
    /\ SwapLegible(FormatoPedido)
    /\ LET m == sActual
           p == Recibe(FormatoPedido, aSwap[m])
       IN  IF EscrituraFalla(p.cod)
           THEN Corta
           ELSE /\ aSwap' = [aSwap EXCEPT ![m] = p.resto]
                /\ aMem' = HaciaMem(m, Respuesta(p))
                /\ sPc' = IF Sigue(p.cod) THEN "pedido" ELSE TrasElHilo
                /\ srv' = IF p.cod = FINALIZAR_SWAP THEN [srv EXCEPT ![m] = "cerrada"] ELSE srv
                /\ UNCHANGED <<cli, cola, sActual, vida, saludo>>

(* terminarSwap. *)
SwapTermina == sPc = "terminar" /\ Corta

(* SIGINT, or a crash on one of the packets Swap frees twice.              *)
SwapCae == sPc # "fuera" /\ Corta

PasoSwap == SwapAcepta \/ SwapSaludo \/ SwapPedido \/ SwapTermina
=============================================================================
