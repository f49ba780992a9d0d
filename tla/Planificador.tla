---------------------------- MODULE Planificador ----------------------------
(***************************************************************************)
(* Kernel/src/procesar_carpinchos.c: the Kernel accepts clients and gives  *)
(* each one a detached thread, procesar_conexion, which admits carpinchos  *)
(* into COLA_NEW and moves them to COLA_READY.  The accepting loop is the  *)
(* one Kernel/main.c:35 keeps commented out, the clients are the senders   *)
(* of Shared/src/protocolo.c.                                              *)
(*                                                                         *)
(* A thread is named by the client it was created for.  What it reads      *)
(* depends on its descriptor number: rcv_mate_init2 may close it, the      *)
(* thread goes on, and accept() may hand the number out again.             *)
(*                                                                         *)
(* The queues are the commons library's and nothing locks them (there are  *)
(* only //mutexlock comments).  A call on a queue that overlaps a call of  *)
(* another thread on the same queue may have its effect, lose it, or crash *)
(* the process.                                                            *)
(***************************************************************************)
EXTENDS Integers, Sequences, FiniteSets

CONSTANTS
    Clientes,
    Nulo, Indef,   \* no connection; a word nobody wrote
    MaxPalabras,   \* bound: words a client sends
    MaxPcbs        \* bound: calls of generar_estructuras; entries of COLA_READY
                   \* up to which a pop may be lost

ASSUME ClientesFinito == IsFiniteSet(Clientes) /\ Nulo \notin Clientes
ASSUME CotasNaturales == MaxPalabras \in Nat /\ MaxPcbs \in Nat
ASSUME IndefNoEsNumero == Indef \notin Int

(* op_code of Shared/include/utils.h, and the status NEW of protocolo.h     *)
(* (NEW alone is a keyword).                                               *)
MATE_INIT == 1
MENSAJES == 2
DEBUG == 69
ESTADO_NEW == 0

Codigos == {MATE_INIT, MENSAJES, DEBUG}
Palabra == Codigos \cup {ESTADO_NEW}
Fds == 1 .. Cardinality(Clientes)

(* Definitions called Mut... are not the code: each is the definition after *)
(* it as a plausible bug would have it, to show that a run would notice.   *)

VARIABLES
    cli,           \* the client's end: "sin", "abierta", "cerrada"
    fase,          \* what the client sends next: "codigo" or, after MATE_INIT, "estado"
    env,           \* words sent by each client and not yet read
    enviadas,      \* words each client has sent
    fds,           \* the connection behind each descriptor, or Nulo
    pc,            \* where each thread is
    fd,            \* cliente_socket of each thread
    con,           \* the connection each thread's blocked recv() reads, or Nulo
    cop,           \* cop of each thread
    pcb,           \* the carpincho each thread has in hand, or 0
    creador,       \* history: the thread that created each carpincho
    colaNew, colaReady,
    carrera,       \* threads in a queue call that has overlapped another's
    caido          \* the process crashed

clientes == <<cli, fase, env, enviadas>>
colas == <<colaNew, colaReady>>
hilos == <<fds, pc, fd, con, cop, pcb, creador, colas, carrera, caido>>
vars == <<clientes, hilos>>

EnLlamada == {"push_new", "pop_new", "push_ready"}
Planificando == EnLlamada \cup {"probar", "sacar"}

TypeOK ==
    /\ cli \in [Clientes -> {"sin", "abierta", "cerrada"}]
    /\ fase \in [Clientes -> {"codigo", "estado"}]
    /\ env \in [Clientes -> Seq(Palabra)]
    /\ enviadas \in [Clientes -> 0 .. MaxPalabras]
    /\ fds \in [Fds -> Clientes \cup {Nulo}]
    /\ pc \in [Clientes -> {"sin", "cop", "en_cop", "estado", "en_estado", "crear", "fin"}
                           \cup Planificando]
    /\ fd \in [Clientes -> Fds \cup {Nulo}]
    /\ con \in [Clientes -> Clientes \cup {Nulo}]
    /\ cop \in [Clientes -> Palabra \cup {Indef}]
    /\ pcb \in [Clientes -> Nat]
    /\ creador \in Seq(Clientes)
    /\ colaNew \in Seq(Nat) /\ colaReady \in Seq(Nat)
    /\ carrera \subseteq Clientes
    /\ caido \in BOOLEAN

Init ==
    /\ cli = [c \in Clientes |-> "sin"]
    /\ fase = [c \in Clientes |-> "codigo"]
    /\ env = [c \in Clientes |-> <<>>]
    /\ enviadas = [c \in Clientes |-> 0]
    /\ fds = [f \in Fds |-> Nulo]
    /\ pc = [c \in Clientes |-> "sin"]
    /\ fd = [c \in Clientes |-> Nulo]
    /\ con = [c \in Clientes |-> Nulo]
    /\ cop = [c \in Clientes |-> Indef]
    /\ pcb = [c \in Clientes |-> 0]
    /\ creador = <<>>
    /\ colaNew = <<>> /\ colaReady = <<>>
    /\ carrera = {}
    /\ caido = FALSE

-----------------------------------------------------------------------------
(* Clients *)

Conecta(c) ==
    /\ cli[c] = "sin"
    /\ cli' = [cli EXCEPT ![c] = "abierta"]
    /\ UNCHANGED <<fase, env, enviadas, hilos>>

(* send_codigo_op (and send_debug) when no MATE_INIT is open, send_mate_init*)
(* after the code MATE_INIT.                                               *)
Manda(c, w) ==
    /\ cli[c] = "abierta"
    /\ enviadas[c] < MaxPalabras
    /\ env' = [env EXCEPT ![c] = Append(@, w)]
    /\ enviadas' = [enviadas EXCEPT ![c] = @ + 1]
    /\ UNCHANGED <<cli, hilos>>

MandaCodigo(c) ==
    /\ fase[c] = "codigo"
    /\ \E w \in Codigos :
          /\ Manda(c, w)
          /\ fase' = [fase EXCEPT ![c] = IF w = MATE_INIT THEN "estado" ELSE "codigo"]

MandaEstado(c) ==
    /\ fase[c] = "estado"
    /\ Manda(c, ESTADO_NEW)
    /\ fase' = [fase EXCEPT ![c] = "codigo"]

(* By close() or by the end of the client's process, at any point.         *)
Cierra(c) ==
    /\ cli[c] = "abierta"
    /\ cli' = [cli EXCEPT ![c] = "cerrada"]
    /\ UNCHANGED <<fase, env, enviadas, hilos>>

-----------------------------------------------------------------------------
(* The accepting loop *)

(* accept() returns the lowest free descriptor.                            *)
Acepta(c) ==
    /\ cli[c] # "sin" /\ pc[c] = "sin"
    /\ \E f \in Fds :
          /\ fds[f] = Nulo /\ \A g \in Fds : g < f => fds[g] # Nulo
          /\ fds' = [fds EXCEPT ![f] = c]
          /\ fd' = [fd EXCEPT ![c] = f]
    /\ pc' = [pc EXCEPT ![c] = "cop"]
    /\ UNCHANGED <<clientes, con, cop, pcb, creador, colas, carrera, caido>>

-----------------------------------------------------------------------------
(* procesar_conexion *)

Va(t, p) == pc' = [pc EXCEPT ![t] = p]

(* Where the switch on an operation code leads.  DEBUG is only logged, an  *)
(* unknown code ends the thread.                                           *)
Destinos(w) ==
    CASE w = MATE_INIT -> {"estado"}
      [] w = DEBUG -> {"cop"}
      [] w = Indef -> {"estado", "cop", "fin"}
      [] OTHER -> {"fin"}

(* recv() on a closed descriptor returns -1 at once, which the loop does   *)
(* not look at: the code of the round before is served again.              *)
LlamaCop(t) ==
    /\ pc[t] = "cop"
    /\ IF fds[fd[t]] = Nulo
       THEN (\E p \in Destinos(cop[t]) : Va(t, p)) /\ UNCHANGED con
       ELSE Va(t, "en_cop") /\ con' = [con EXCEPT ![t] = fds[fd[t]]]
    /\ UNCHANGED <<clientes, fds, fd, cop, pcb, creador, colas, carrera, caido>>

Toma(c) == env[c] # <<>> /\ env' = [env EXCEPT ![c] = Tail(@)]
Agotada(c) == env[c] = <<>> /\ cli[c] = "cerrada"

LeeCop(t) ==
    /\ pc[t] = "en_cop"
    /\ Toma(con[t])
    /\ cop' = [cop EXCEPT ![t] = Head(env[con[t]])]
    /\ \E p \in Destinos(Head(env[con[t]])) : Va(t, p)
    /\ con' = [con EXCEPT ![t] = Nulo]
    /\ UNCHANGED <<cli, fase, enviadas, fds, fd, pcb, creador, colas, carrera, caido>>

MutCierraSinDevolver(f) == [fds EXCEPT ![f] = Indef]

(* close(fd) closes what the number stands for by now.                     *)
CierraFd(f) == [fds EXCEPT ![f] = Nulo]

(* As after rcv_mate_init2: the descriptor is closed and the thread goes on.*)
MutDesconectaYSigue(t) ==
    /\ pc[t] = "en_cop"
    /\ Agotada(con[t])
    /\ fds' = CierraFd(fd[t])
    /\ Va(t, "cop")
    /\ con' = [con EXCEPT ![t] = Nulo]
    /\ UNCHANGED <<clientes, fd, cop, pcb, creador, colas, carrera, caido>>

(* recv() = 0: the thread ends, and leaves its descriptor open.            *)
Desconecta(t) ==
    /\ pc[t] = "en_cop"
    /\ Agotada(con[t])
    /\ Va(t, "fin")
    /\ con' = [con EXCEPT ![t] = Nulo]
    /\ UNCHANGED <<clientes, fds, fd, cop, pcb, creador, colas, carrera, caido>>

(* rcv_mate_init2: an error of recv() returns the uninitialised n_status.  *)
LlamaEstado(t) ==
    /\ pc[t] = "estado"
    /\ IF fds[fd[t]] = Nulo
       THEN (Va(t, "cop") \/ Va(t, "crear")) /\ UNCHANGED con
       ELSE Va(t, "en_estado") /\ con' = [con EXCEPT ![t] = fds[fd[t]]]
    /\ UNCHANGED <<clientes, fds, fd, cop, pcb, creador, colas, carrera, caido>>

MutAdmiteNew(a) == a = ESTADO_NEW

(* if(a): the status NEW of a correct MATE_INIT is 0.                      *)
Admite(a) == a # ESTADO_NEW

LeeEstado(t) ==
    /\ pc[t] = "en_estado"
    /\ Toma(con[t])
    /\ Va(t, IF Admite(Head(env[con[t]])) THEN "crear" ELSE "cop")
    /\ con' = [con EXCEPT ![t] = Nulo]
    /\ UNCHANGED <<cli, fase, enviadas, fds, fd, cop, pcb, creador, colas, carrera, caido>>

(* The client closed between the code and the status: rcv_mate_init2       *)
(* closes the descriptor and returns -1, which is not 0.                   *)
CortaEstado(t) ==
    /\ pc[t] = "en_estado"
    /\ Agotada(con[t])
    /\ fds' = CierraFd(fd[t])
    /\ Va(t, "crear")
    /\ con' = [con EXCEPT ![t] = Nulo]
    /\ UNCHANGED <<clientes, fd, cop, pcb, creador, colas, carrera, caido>>

-----------------------------------------------------------------------------
(* generar_estructuras and planificar_nuevo_cpncho_FIFO *)

(* A thread enters a call on a queue: it races with the threads inside one *)
(* on the same queue.                                                      *)
Entra(t, p, llamadas) ==
    LET otros == {u \in Clientes \ {t} : pc[u] \in llamadas}
    IN  /\ Va(t, p)
        /\ carrera' = IF otros = {} THEN carrera \ {t} ELSE carrera \cup otros \cup {t}

(* queue_push returns to the test of COLA_NEW.                             *)
Sale(t) ==
    /\ Va(t, "probar")
    /\ pcb' = [pcb EXCEPT ![t] = 0]
    /\ carrera' = carrera \ {t}

SobreNew == {"push_new", "pop_new"}
SobreReady == {"push_ready"}

GeneraEstructuras(t) ==
    /\ pc[t] = "crear"
    /\ Len(creador) < MaxPcbs
    /\ creador' = Append(creador, t)
    /\ pcb' = [pcb EXCEPT ![t] = Len(creador) + 1]
    /\ Entra(t, "push_new", SobreNew)
    /\ UNCHANGED <<clientes, fds, fd, con, cop, colas, caido>>

PushNew(t) ==
    /\ pc[t] = "push_new"
    /\ \/ colaNew' = Append(colaNew, pcb[t])
       \/ t \in carrera /\ UNCHANGED colaNew
    /\ Sale(t)
    /\ UNCHANGED <<clientes, fds, fd, con, cop, creador, colaReady, caido>>

MutPruebaAlReves == colaNew = <<>>

MutPruebaDeMas == Len(colaNew) >= 0

HayNuevos == colaNew # <<>>

(* while(!queue_is_empty(COLA_NEW)); when it is, back to the loop over the *)
(* connection.                                                             *)
PruebaNew(t) ==
    /\ pc[t] = "probar"
    /\ Va(t, IF HayNuevos THEN "sacar" ELSE "cop")
    /\ UNCHANGED <<clientes, fds, fd, con, cop, pcb, creador, colas, carrera, caido>>

SacaNew(t) ==
    /\ pc[t] = "sacar"
    /\ Entra(t, "pop_new", SobreNew)
    /\ UNCHANGED <<clientes, fds, fd, con, cop, pcb, creador, colas, caido>>

(* queue_pop, the change of status to READY, and the call of queue_push.   *)
PopNew(t) ==
    /\ pc[t] = "pop_new"
    /\ colaNew # <<>>
    /\ pcb' = [pcb EXCEPT ![t] = Head(colaNew)]
    /\ \/ colaNew' = Tail(colaNew)
       \/ t \in carrera /\ Len(colaReady) < MaxPcbs /\ UNCHANGED colaNew
    /\ Entra(t, "push_ready", SobreReady)
    /\ UNCHANGED <<clientes, fds, fd, con, cop, creador, colaReady, caido>>

MutPushAdelante(q, x) == <<x>> \o q

Encola(q, x) == Append(q, x)

PushReady(t) ==
    /\ pc[t] = "push_ready"
    /\ \/ colaReady' = Encola(colaReady, pcb[t])
       \/ t \in carrera /\ UNCHANGED colaReady
    /\ Sale(t)
    /\ UNCHANGED <<clientes, fds, fd, con, cop, creador, colaNew, caido>>

(* The carpincho popped from an empty queue is NULL, and its status is     *)
(* written; a queue two threads changed at once may be broken.             *)
Cae(t) ==
    /\ pc[t] \in EnLlamada
    /\ t \in carrera \/ (pc[t] = "pop_new" /\ colaNew = <<>>)
    /\ caido' = TRUE
    /\ UNCHANGED <<clientes, fds, pc, fd, con, cop, pcb, creador, colas, carrera>>

-----------------------------------------------------------------------------
PasoCliente(c) == Conecta(c) \/ MandaCodigo(c) \/ MandaEstado(c) \/ Cierra(c)

PasoHilo(t) ==
    \/ LlamaCop(t) \/ LeeCop(t) \/ Desconecta(t)
    \/ LlamaEstado(t) \/ LeeEstado(t) \/ CortaEstado(t)
    \/ GeneraEstructuras(t) \/ PushNew(t) \/ PruebaNew(t)
    \/ SacaNew(t) \/ PopNew(t) \/ PushReady(t) \/ Cae(t)

Next == ~caido /\ \E c \in Clientes : PasoCliente(c) \/ Acepta(c) \/ PasoHilo(c)

Spec == Init /\ [][Next]_vars

(* The accepting loop and the threads keep running while they can; clients *)
(* do what they like.                                                      *)
Justicia ==
    \A c \in Clientes : /\ WF_vars(~caido /\ Acepta(c))
                        /\ WF_vars(~caido /\ PasoHilo(c))

SpecJusta == Spec /\ Justicia

-----------------------------------------------------------------------------
(* Properties *)

(* A client that closed between the code MATE_INIT and its status.         *)
Cortado(c) == cli[c] = "cerrada" /\ fase[c] = "estado"
SinCortes == \A c \in Clientes : ~Cortado(c)

(* rcv_mate_init2 and the test of its result: a carpincho is admitted only *)
(* if some client broke off its MATE_INIT, however many threads there are, *)
(* whatever codes the clients send and whoever reads them.                 *)
AdmisionPorCorte == SinCortes => creador = <<>>

(* While no MATE_INIT was broken off, nobody reads the words of a client   *)
(* but its own thread: descriptors are closed, and reused, only then.      *)
LecturaPropia ==
    SinCortes => \A t \in Clientes : pc[t] \in {"en_cop", "en_estado"} => con[t] = t

(* The missing lock and the test of queue_is_empty before queue_pop bring  *)
(* the process down only when two threads have admitted carpinchos.        *)
CaidaPideDos == caido => \E i, j \in DOMAIN creador : creador[i] # creador[j]

(* With a single thread admitting, every carpincho created is exactly once *)
(* in READY, in hand or in NEW, and in the order of its creation.          *)
EnMano(p) == IF \E t \in Clientes : pc[t] = p
             THEN <<pcb[CHOOSE t \in Clientes : pc[t] = p]>> ELSE <<>>
UnHiloEnOrden ==
    (\A i, j \in DOMAIN creador : creador[i] = creador[j]) =>
        colaReady \o EnMano("push_ready") \o colaNew \o EnMano("push_new")
            = [i \in DOMAIN creador |-> i]

(* The thread of a client that disconnected between two packets ends, as   *)
(* long as nobody breaks off a MATE_INIT.                                  *)
DesconexionTermina ==
    \A c \in Clientes : cli[c] = "cerrada" ~> pc[c] = "fin" \/ ~SinCortes

(* No carpincho stays in COLA_NEW for ever, whichever thread put it there  *)
(* and whichever takes it out, unless two calls on the queues overlapped.  *)
EnNew(p) == \E i \in DOMAIN colaNew : colaNew[i] = p
NewSeVacia == \A p \in 1 .. MaxPcbs : EnNew(p) ~> ~EnNew(p) \/ carrera # {} \/ caido

(* The comment over the loop of procesar_conexion: "Mientras la conexion   *)
(* este abierta".                                                          *)
MientrasAbierta == \A t \in Clientes : pc[t] = "cop" => fds[fd[t]] = t

(* The message of the branch that does not admit, "error al recibir el     *)
(* mate init": a status that did arrive is no error.                       *)
ErrorSoloSiFalla == [][\A t \in Clientes : LeeEstado(t) => pc'[t] = "crear"]_vars
=============================================================================
