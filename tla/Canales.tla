------------------------------- MODULE Canales -------------------------------
(***************************************************************************)
(* Memoria's TCP connections, one per session.  A session is one connect() *)
(* of a client: each mate_instance makes one, the Kernel makes two (K1 and *)
(* then K2).  Each direction is a sequence of words sent and not yet read. *)
(* The kernel keeps the order of the words of a connection and accepts     *)
(* connections in the order of their connect().                            *)
(***************************************************************************)
EXTENDS Paquetes, FiniteSets

CONSTANTS
    Carpinchos,    \* the mate_instances of the applications
    K1, K2,        \* the two connections of the Kernel process
    Nulo           \* no value yet

Kerneles == {K1, K2}
Sesiones == Carpinchos \cup Kerneles

ASSUME SesionesDistintas == K1 # K2 /\ K1 \notin Carpinchos /\ K2 \notin Carpinchos
ASSUME CarpinchosFinito == IsFiniteSet(Carpinchos)
ASSUME NuloNoEsPalabra == Nulo \notin Palabra

VARIABLES
    aSrv,          \* [Sesiones -> Seq(Palabra)] sent to Memoria, unread
    aCli,          \* [Sesiones -> Seq(Palabra)] sent to the client, unread
    cli,           \* the client's end: "sin" (no connect yet), "abierta", "cerrada"
    srv,           \* Memoria's end: "sin", "espera" (backlog), "abierta", "cerrada"
    cola           \* the backlog of the listening socket, oldest first

canales == <<aSrv, aCli, cli, srv, cola>>

CanalesTypeOK ==
    /\ aSrv \in [Sesiones -> Seq(Palabra)]
    /\ aCli \in [Sesiones -> Seq(Palabra)]
    /\ cli \in [Sesiones -> {"sin", "abierta", "cerrada"}]
    /\ srv \in [Sesiones -> {"sin", "espera", "abierta", "cerrada"}]
    /\ cola \in Seq(Sesiones)

CanalesInit ==
    /\ aSrv = [s \in Sesiones |-> <<>>]
    /\ aCli = [s \in Sesiones |-> <<>>]
    /\ cli = [s \in Sesiones |-> "sin"]
    /\ srv = [s \in Sesiones |-> "sin"]
    /\ cola = <<>>

(* connect() succeeds as soon as the listening socket has queued the       *)
(* connection; Memoria need not have called accept().                      *)
Conecta(s) ==
    /\ srv[s] = "sin"
    /\ cli' = [cli EXCEPT ![s] = "abierta"]
    /\ srv' = [srv EXCEPT ![s] = "espera"]
    /\ cola' = Append(cola, s)
    /\ UNCHANGED <<aSrv, aCli>>

(* Memoria has ended: nobody listens any more (see CaenConexiones).        *)
Rechazada(s) == srv[s] = "cerrada"

(* What the peer will never read is dropped.                               *)
HaciaSrv(s, ws) ==
    IF srv[s] = "cerrada" THEN aSrv ELSE [aSrv EXCEPT ![s] = @ \o ws]
HaciaCli(s, ws) ==
    IF cli[s] = "cerrada" THEN aCli ELSE [aCli EXCEPT ![s] = @ \o ws]

LegibleSrv(fmt, s) == Legible(fmt, aSrv[s], cli[s] = "cerrada")
LegibleCli(s) == Legible("carpincho", aCli[s], srv[s] = "cerrada")

(* The end of every connection of a process that exits or is killed.       *)
CierraClientes(S) ==
    /\ cli' = [s \in Sesiones |-> IF s \in S /\ cli[s] = "abierta" THEN "cerrada" ELSE cli[s]]
    /\ aCli' = [s \in Sesiones |-> IF s \in S THEN <<>> ELSE aCli[s]]

CaenConexiones ==
    /\ srv' = [s \in Sesiones |-> "cerrada"]
    /\ aSrv' = [s \in Sesiones |-> <<>>]
    /\ cola' = <<>>
=============================================================================
