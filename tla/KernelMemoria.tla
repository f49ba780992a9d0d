---------------------------- MODULE KernelMemoria ----------------------------
(***************************************************************************)
(* Kernel/kernel.c: main runs conectarMemoria twice, the first time in a   *)
(* thread it joins at once, then ends.  Each run connects, greets, reads   *)
(* one packet, asks for memory on behalf of the carpincho 101 and reads    *)
(* one more packet; it looks at neither, and it never closes its socket,   *)
(* so both connections live until the process ends.                        *)
(***************************************************************************)
EXTENDS Canales

CONSTANTS PidKernel, TamKernel      \* enviar_mem_alloc(conexion,101,42,stream)

ASSUME KernelNaturales == PidKernel \in Nat /\ TamKernel \in Nat

VARIABLES
    kpc,           \* where conectarMemoria is
    kcon           \* the connection of the current run of it

kernel == <<kpc, kcon>>

KernelTypeOK ==
    /\ kpc \in {"conectar", "saludar", "esperarOk", "esperarDir", "fin"}
    /\ kcon \in Kerneles

KernelInit == kpc = "conectar" /\ kcon = K1

KConecta ==
    /\ kpc = "conectar"
    /\ Conecta(kcon)
    /\ kpc' = "saludar"
    /\ UNCHANGED kcon

KSaluda ==
    /\ kpc = "saludar"
    /\ aSrv' = HaciaSrv(kcon, TramaCarpincho(KERNEL, Puntero, 0, 0))
    /\ kpc' = "esperarOk"
    /\ UNCHANGED <<kcon, aCli, cli, srv, cola>>

(* Any answer will do; the request follows at once.                        *)
KRecibeOk ==
    /\ kpc = "esperarOk"
    /\ LegibleCli(kcon)
    /\ aCli' = [aCli EXCEPT ![kcon] = Recibe("carpincho", @).resto]
    /\ aSrv' = HaciaSrv(kcon, TramaCarpincho(ALOCAR_EN_MEMORIA, Puntero, PidKernel, TamKernel))
    /\ kpc' = "esperarDir"
    /\ UNCHANGED <<kcon, cli, srv, cola>>

(* The first run returns to main, which starts the second on a connection  *)
(* of its own while the first one stays open.                              *)
KRecibeDir ==
    /\ kpc = "esperarDir"
    /\ kcon = K1
    /\ LegibleCli(kcon)
    /\ aCli' = [aCli EXCEPT ![kcon] = Recibe("carpincho", @).resto]
    /\ kcon' = K2
    /\ kpc' = "conectar"
    /\ UNCHANGED <<aSrv, cli, srv, cola>>

(* The end of main: by the return of the second run, because there is no   *)
(* Memoria to connect to (the send that follows kills the process), or     *)
(* because it is killed.                                                   *)
KTermina ==
    /\ kpc # "fin"
    /\ kpc' = "fin"
    /\ CierraClientes(Kerneles)
    /\ UNCHANGED <<kcon, aSrv, srv, cola>>

KFinNormal == kpc = "esperarDir" /\ kcon = K2 /\ LegibleCli(kcon) /\ KTermina
KSinMemoria == kpc = "conectar" /\ Rechazada(kcon) /\ KTermina

PasoKernel == KConecta \/ KSaluda \/ KRecibeOk \/ KRecibeDir \/ KFinNormal \/ KSinMemoria
=============================================================================
