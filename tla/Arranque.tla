------------------------------ MODULE Arranque ------------------------------
(***************************************************************************)
(* The start of Memoria: main, before it listens to anybody, runs          *)
(* conectarSwap and waits for it.  Memoria asks Swap for its number of     *)
(* pages and for one page, says goodbye, and only then serves (that is     *)
(* module Sistema).  Memoria and Swap may be started, killed and started   *)
(* again in any order.                                                     *)
(***************************************************************************)
EXTENDS Swap

VARIABLES
    est,           \* where each run of Memoria is
    paginas,       \* config_memoria->cant_paginas_maximas
    leido,         \* the code of the answer to LEER_PAGINA
    cortadas       \* history: runs whose Swap was absent, or ended too early

memorias == <<est, paginas, leido, cortadas>>
vars == <<conexiones, swap, memorias>>

Esperando == {"esperaPaginas", "esperaPagina"}

TypeOK ==
    /\ SwapTypeOK
    /\ est \in [Memorias -> {"fuera", "sirve", "muerta"} \cup Esperando]
    /\ paginas \in [Memorias -> Nat \cup {Indef, Nulo}]
    /\ leido \in [Memorias -> Palabra \cup {Nulo}]
    /\ cortadas \subseteq Memorias

Init ==
    /\ SwapInit
    /\ est = [m \in Memorias |-> "fuera"]
    /\ paginas = [m \in Memorias |-> Nulo]
    /\ leido = [m \in Memorias |-> Nulo]
    /\ cortadas = {}

-----------------------------------------------------------------------------
MemLegible(fmt, m) == Legible(fmt, aMem[m], srv[m] = "cerrada")

(* crear_conexion and paquete(): ASIGNACION_FIJA whatever the              *)
(* configuration says.                                                     *)
PideAsignacion(m) ==
    /\ est[m] = "fuera" /\ sPc # "fuera"
    /\ cli' = [cli EXCEPT ![m] = "abierta"]
    /\ srv' = [srv EXCEPT ![m] = "espera"]
    /\ cola' = Append(cola, m)
    /\ aSwap' = [aSwap EXCEPT ![m] = TramaPlana(MEMORIA, <<ASIGNACION_FIJA, Dato>>)]
    /\ est' = [est EXCEPT ![m] = "esperaPaginas"]
    /\ UNCHANGED <<aMem, swap, paginas, leido, cortadas>>

(* Nobody listens and nothing looks at the result: send() and recv() on    *)
(* the useless descriptor kill Memoria or fail, one after the other.       *)
SinSwap(m) ==
    /\ est[m] = "fuera" /\ sPc = "fuera"
    /\ \/ /\ est' = [est EXCEPT ![m] = "sirve"]
          /\ paginas' = [paginas EXCEPT ![m] = Indef]
          /\ leido' = [leido EXCEPT ![m] = ERROR]
       \/ est' = [est EXCEPT ![m] = "muerta"] /\ UNCHANGED <<paginas, leido>>
    /\ cortadas' = cortadas \cup {m}
    /\ UNCHANGED <<conexiones, swap>>

MutPaginasDe(ws) == IF Completo("plano", ws) THEN ws[4] ELSE Indef

(* atoi of the payload, whatever the code of the packet.                   *)
PaginasDe(ws) == IF Completo("plano", ws) THEN ws[3] ELSE Indef

RecibePaginas(m) ==
    /\ est[m] = "esperaPaginas"
    /\ MemLegible("plano", m)
    /\ paginas' = [paginas EXCEPT ![m] = PaginasDe(aMem[m])]
    /\ aMem' = [aMem EXCEPT ![m] = Recibe("plano", aMem[m]).resto]
    /\ aSwap' = HaciaSwap(m, TramaCarpincho(LEER_PAGINA, Puntero, 995, 365))
    /\ est' = [est EXCEPT ![m] = "esperaPagina"]
    /\ UNCHANGED <<cli, srv, cola, swap, leido, cortadas>>

(* Goodbye, and the start of conexionesMemoria.  The connection with Swap  *)
(* is not closed.                                                          *)
RecibePagina(m) ==
    /\ est[m] = "esperaPagina"
    /\ MemLegible("carpincho", m)
    /\ leido' = [leido EXCEPT ![m] = Recibe("carpincho", aMem[m]).cod]
    /\ aMem' = [aMem EXCEPT ![m] = Recibe("carpincho", @).resto]
    /\ aSwap' = HaciaSwap(m, TramaCarpincho(FINALIZAR_SWAP, Puntero, 995, 365))
    /\ est' = [est EXCEPT ![m] = "sirve"]
    /\ UNCHANGED <<cli, srv, cola, swap, paginas, cortadas>>

(* SIGINT, SIGPIPE, or the end of Memoria later on.                        *)
MemMuere(m) ==
    /\ est[m] \notin {"fuera", "muerta"}
    /\ est' = [est EXCEPT ![m] = "muerta"]
    /\ cli' = [cli EXCEPT ![m] = IF @ = "abierta" THEN "cerrada" ELSE @]
    /\ aMem' = [aMem EXCEPT ![m] = <<>>]
    /\ UNCHANGED <<aSwap, srv, cola, swap, paginas, leido, cortadas>>

-----------------------------------------------------------------------------
PasoMem(m) == RecibePaginas(m) \/ RecibePagina(m)

(* A run of Memoria that still waits when its Swap ends is cut short.      *)
NextSwap ==
    /\ Arranca \/ PasoSwap \/ SwapCae
    /\ cortadas' = cortadas \cup
         (IF sPc' = "fuera" THEN {m \in Memorias : est[m] \in Esperando} ELSE {})
    /\ UNCHANGED <<est, paginas, leido>>

Next ==
    \/ NextSwap
    \/ \E m \in Memorias : PideAsignacion(m) \/ SinSwap(m) \/ PasoMem(m) \/ MemMuere(m)

Spec == Init /\ [][Next]_vars

(* Swap's thread and main, and a Memoria that is starting, keep running.   *)
(* Nobody has to start or to kill anything.                                *)
Justicia ==
    /\ WF_vars(NextSwap /\ PasoSwap)
    /\ \A m \in Memorias : WF_vars(PasoMem(m))

SpecJusta == Spec /\ Justicia

-----------------------------------------------------------------------------
(* Properties *)

(* conectarSwap mixes both packet formats on one connection and looks at   *)
(* no code.  Unless Swap was absent or ended while Memoria waited, Memoria *)
(* starts with the number of pages of Swap and with the page it asked for. *)
ArranqueCompleto ==
    \A m \in Memorias : est[m] = "sirve" /\ m \notin cortadas =>
        paginas[m] = CantPaginas /\ leido[m] = LEER_PAGINA

(* A run of Swap answers the greeting of one run of Memoria at most: a     *)
(* Memoria that is started again needs a Swap that is started again.       *)
UnaMemoriaPorSwap ==
    \A m, n \in Memorias : saludo[m] # 0 /\ saludo[m] = saludo[n] => m = n

(* Swap's server thread does not leave while the Memoria it serves still   *)
(* waits for it.                                                           *)
SwapNoAbandona ==
    sPc = "terminar" => est[sActual] = "sirve" \/ cli[sActual] = "cerrada"

(* The start of Memoria never hangs: not on a Swap that ends, nor on one   *)
(* that is busy with another run of Memoria.                               *)
ArranqueTermina == \A m \in Memorias : est[m] \in Esperando ~> est[m] \notin Esperando

(* Swap ends once the Memoria it accepted has started or died, although    *)
(* nobody closes the connection on Memoria's side.                         *)
SwapSeDespide ==
    \A m \in Memorias : sActual = m /\ est[m] \notin Esperando ~> sPc = "fuera"
=============================================================================
