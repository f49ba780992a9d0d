------------------------------- MODULE Memoria -------------------------------
(***************************************************************************)
(* The server of Memoria/conexionesMemoria.c and the request it serves in  *)
(* Memoria/funciones_Kernel.c.  One thread accepts one session at a time,  *)
(* greets it, serves one request and goes back to accept().                *)
(*                                                                         *)
(* ejecutarKernel ends with close(conexion), where conexion is a global    *)
(* nobody assigns: descriptor 0.  What descriptor 0 is decides which       *)
(* connection that closes and where primer_alloc sends the packet meant    *)
(* for Swap, so fd0 is part of the state.                                  *)
(***************************************************************************)
EXTENDS Canales

CONSTANTS
    Nadie, Stdin,  \* descriptor 0 closed; descriptor 0 as the process got it
    TamMemoria,    \* TAMANIO of the configuration
    ONLINE         \* slots of cliente_memoria

ASSUME DescriptoresDistintos == Nadie # Stdin /\ {Nadie, Stdin, Nulo} \cap Sesiones = {}
ASSUME MemoriaNaturales == TamMemoria \in Nat /\ ONLINE \in Nat

VARIABLES
    pc,            \* where the server thread is
    k,             \* index of the current slot of cliente_memoria
    actual,        \* the session in that slot
    fd0,           \* what descriptor 0 is: Stdin, Nadie or a session
    pidPedido,     \* pid of the request that waits for Swap
    procesos,      \* pids in lista_procesos
    heaps,         \* lista_de_heaps: "vacia", or "colgante" with freed nodes
    concesion      \* history: what mem_alloc answered to each session

memoria == <<pc, k, actual, fd0, pidPedido, procesos, heaps, concesion>>

DirPrimera == 25       \* calcular_direccion_logica(-1)
SinEspacio == -3       \* primer_alloc without room

Concesion == [pid : Palabra, dir : Palabra]

ASSUME NuloNoEsConcesion == Nulo \notin Concesion

MemoriaTypeOK ==
    /\ pc \in {"aceptar", "saludo", "pedido", "swap", "confirmar", "fin"}
    /\ k \in Nat
    /\ actual \in Sesiones \cup {Nulo}
    /\ fd0 \in Sesiones \cup {Nadie, Stdin}
    /\ pidPedido \in Palabra \cup {Nulo}
    /\ procesos \subseteq Palabra
    /\ heaps \in {"vacia", "colgante"}
    /\ concesion \in [Sesiones -> Concesion \cup {Nulo}]

MemoriaInit ==
    /\ pc = "aceptar"
    /\ k = 0
    /\ actual = Nulo
    /\ fd0 = Stdin
    /\ pidPedido = Nulo
    /\ procesos = {}
    /\ heaps = "vacia"
    /\ concesion = [s \in Sesiones |-> Nulo]

(* Definitions called Mut... are not the code: each is the definition after *)
(* it with a plausible mistake in it, which some property has to notice.    *)
MutFdNoReusado(s) == fd0

(* accept() returns the lowest free descriptor, so a session accepted      *)
(* after a close(0) becomes descriptor 0.                                  *)
FdAceptado(s) == IF fd0 = Nadie THEN s ELSE fd0

Acepta ==
    /\ pc = "aceptar"
    /\ cola # <<>>
    /\ actual' = Head(cola)
    /\ cola' = Tail(cola)
    /\ srv' = [srv EXCEPT ![Head(cola)] = "abierta"]
    /\ fd0' = FdAceptado(Head(cola))
    /\ pc' = "saludo"
    /\ UNCHANGED <<k, pidPedido, procesos, heaps, concesion, aSrv, aCli, cli>>

MutFormatoUnico(i) == "carpincho"

(* The first session is greeted with recibir_mensaje_carpincho before the  *)
(* loop, every later one with recibir_mensaje at the end of its body.      *)
FormatoSaludo(i) == IF i = 0 THEN "carpincho" ELSE "plano"

MutLeeSaludoCallado ==
    /\ pc = "saludo"
    /\ LegibleSrv(FormatoSaludo(k), actual)
    /\ LET p == Recibe(FormatoSaludo(k), aSrv[actual])
       IN  /\ p.cod \in {KERNEL, MATELIB}
           /\ aSrv' = [aSrv EXCEPT ![actual] = p.resto]
    /\ pc' = "pedido"
    /\ UNCHANGED <<k, actual, fd0, pidPedido, procesos, heaps, concesion, aCli, cli, srv, cola>>

LeeSaludo ==
    /\ pc = "saludo"
    /\ LegibleSrv(FormatoSaludo(k), actual)
    /\ LET p == Recibe(FormatoSaludo(k), aSrv[actual])
       IN  /\ p.cod \in {KERNEL, MATELIB}
           /\ aSrv' = [aSrv EXCEPT ![actual] = p.resto]
    /\ aCli' = HaciaCli(actual, TramaCarpincho(TODO_OK, Puntero, 0, 0))
    /\ pc' = "pedido"
    /\ UNCHANGED <<k, actual, fd0, pidPedido, procesos, heaps, concesion, cli, srv, cola>>

Termina ==
    /\ pc' = "fin"
    /\ CaenConexiones
    /\ UNCHANGED <<k, actual, fd0, pidPedido, procesos, heaps, concesion, aCli, cli>>

(* Any other greeting ends the server thread, which main joins to end the  *)
(* process.                                                                *)
SaludoDesconocido ==
    /\ pc = "saludo"
    /\ LegibleSrv(FormatoSaludo(k), actual)
    /\ Recibe(FormatoSaludo(k), aSrv[actual]).cod \notin {KERNEL, MATELIB}
    /\ Termina

-----------------------------------------------------------------------------
(* mem_alloc *)

MutAjusteRepetido == DirPrimera

(* first_fit: the first allocation of all goes at 25 and leaves only freed *)
(* nodes in lista_de_heaps; later ones search those, and return a local    *)
(* nobody set or no value at all (or crash: Cae).                          *)
PrimerAjuste == IF heaps = "vacia" THEN DirPrimera ELSE Indef

(* hay_espacio_segun_tamanio; cant_bytes_libres never changes.             *)
Entra(n) == n <= TamMemoria

MutRespondeInvertida(pid, dir) ==
    HaciaCli(actual, TramaCarpincho(ALOCAR_EN_MEMORIA, Puntero, dir, pid))

(* enviar_mem_alloc(cliente, rta->buffer->pid, direccion, NULL)            *)
RespondeAlloc(pid, dir) ==
    HaciaCli(actual, TramaCarpincho(ALOCAR_EN_MEMORIA, Puntero, pid, dir))

Otorga(s, pid, dir) == concesion' = [concesion EXCEPT ![s] = [pid |-> pid, dir |-> dir]]

MutOlvidaProceso(pid) == procesos

(* actualizar_estructuras: the process joins lista_procesos.               *)
ConProceso(pid) == procesos \cup {pid}

(* A pid mem_alloc already knows gets the uninitialised direccion.         *)
AllocConocido(pid, memo) ==
    /\ pid \in procesos
    /\ Otorga(actual, pid, Indef)
    /\ aCli' = RespondeAlloc(pid, Indef)
    /\ pc' = "confirmar"
    /\ UNCHANGED <<procesos, heaps, pidPedido>>

AllocNuevo(pid, memo) ==
    /\ pid \notin procesos /\ Entra(memo)
    /\ procesos' = ConProceso(pid)
    /\ heaps' = "colgante"
    /\ Otorga(actual, pid, PrimerAjuste)
    /\ aCli' = RespondeAlloc(pid, PrimerAjuste)
    /\ pc' = "confirmar"
    /\ UNCHANGED pidPedido

(* primer_alloc without room relabels the request CARPINCHO_NEW, sends it  *)
(* on descriptor 0 and reads the answer there.                             *)
AllocSinEspacio(pid, memo) ==
    /\ pid \notin procesos /\ ~Entra(memo)
    /\ aCli' = IF fd0 \in Sesiones
               THEN HaciaCli(fd0, TramaCarpincho(CARPINCHO_NEW, Puntero, pid, memo))
               ELSE aCli
    /\ pidPedido' = pid
    /\ pc' = "swap"
    /\ UNCHANGED <<procesos, heaps, concesion>>

(* ejecutarKernel after its greeting, the request ALOCAR_EN_MEMORIA.       *)
LeePedidoAlocar ==
    /\ pc = "pedido"
    /\ LegibleSrv("carpincho", actual)
    /\ LET p == Recibe("carpincho", aSrv[actual])
       IN  /\ p.cod = ALOCAR_EN_MEMORIA
           /\ aSrv' = [aSrv EXCEPT ![actual] = p.resto]
           /\ \/ AllocConocido(p.pid, p.memo)
              \/ AllocNuevo(p.pid, p.memo)
              \/ AllocSinEspacio(p.pid, p.memo)
    /\ UNCHANGED <<k, actual, fd0, cli, srv, cola>>

(* The rest of primer_alloc and mem_alloc: whatever came back, the address *)
(* is -3, the pid answered is read from the packet eliminar_paquete freed, *)
(* and only now is the process added to lista_procesos.                    *)
EsperaSwap ==
    /\ pc = "swap"
    /\ \/ /\ fd0 \notin Sesiones
          /\ UNCHANGED aSrv
       \/ /\ fd0 \in Sesiones
          /\ LegibleSrv("carpincho", fd0)
          /\ aSrv' = [aSrv EXCEPT ![fd0] = Recibe("carpincho", @).resto]
    /\ procesos' = ConProceso(pidPedido)
    /\ Otorga(actual, pidPedido, SinEspacio)
    /\ aCli' = RespondeAlloc(Indef, SinEspacio)
    /\ pidPedido' = Nulo
    /\ pc' = "confirmar"
    /\ UNCHANGED <<k, actual, fd0, heaps, cli, srv, cola>>

-----------------------------------------------------------------------------
(* close(conexion), that is close(0), and k++ before the next accept().    *)
CierraFd0(recibido) ==
    /\ fd0' = Nadie
    /\ IF fd0 \in Sesiones
       THEN /\ srv' = [srv EXCEPT ![fd0] = "cerrada"]
            /\ aSrv' = [recibido EXCEPT ![fd0] = <<>>]
       ELSE /\ aSrv' = recibido
            /\ UNCHANGED srv

MutIndiceDoble(i) == i + 2

MutIndiceAtras(i) == i - 1

ProximoIndice(i) == i + 1

VuelveAAceptar(recibido) ==
    /\ CierraFd0(recibido)
    /\ k' = ProximoIndice(k)
    /\ pc' = "aceptar"
    /\ UNCHANGED <<actual, pidPedido, procesos, heaps, concesion, cli, cola>>

(* The operations answered with a bare KERNEL_OK and nothing else.         *)
SoloConfirma == {LIBERAR_MEMORIA, LEER_EN_MEMORIA, ESCRIBIR_EN_MEMORIA}

MutOtroSinCerrar ==
    /\ pc = "pedido"
    /\ LegibleSrv("carpincho", actual)
    /\ LET p == Recibe("carpincho", aSrv[actual])
       IN  /\ p.cod # ALOCAR_EN_MEMORIA
           /\ aCli' = IF p.cod \in SoloConfirma
                      THEN HaciaCli(actual, TramaPlana(KERNEL_OK, Puntero))
                      ELSE aCli
           /\ aSrv' = [aSrv EXCEPT ![actual] = p.resto]
    /\ k' = ProximoIndice(k)
    /\ pc' = "aceptar"
    /\ UNCHANGED <<actual, fd0, pidPedido, procesos, heaps, concesion, cli, srv, cola>>

(* Requests other than ALOCAR_EN_MEMORIA, unknown codes and failures: the  *)
(* default branch answers nothing.                                         *)
LeePedidoOtro ==
    /\ pc = "pedido"
    /\ LegibleSrv("carpincho", actual)
    /\ LET p == Recibe("carpincho", aSrv[actual])
       IN  /\ p.cod # ALOCAR_EN_MEMORIA
           /\ aCli' = IF p.cod \in SoloConfirma
                      THEN HaciaCli(actual, TramaPlana(KERNEL_OK, Puntero))
                      ELSE aCli
           /\ VuelveAAceptar([aSrv EXCEPT ![actual] = p.resto])

Confirma ==
    /\ pc = "confirmar"
    /\ aCli' = HaciaCli(actual, TramaPlana(KERNEL_OK, Puntero))
    /\ VuelveAAceptar(aSrv)

(* The process ends at any other moment: CTRL+C, whose handler closes and  *)
(* exits, a SIGPIPE, or one of the double frees and uses of freed memory   *)
(* of the request path.                                                    *)
Cae == pc # "fin" /\ Termina

PasoMemoria ==
    \/ Acepta \/ LeeSaludo \/ SaludoDesconocido
    \/ LeePedidoAlocar \/ LeePedidoOtro \/ EsperaSwap \/ Confirma
=============================================================================
