------------------------------- MODULE Matelib -------------------------------
(***************************************************************************)
(* matelib/matelib.c: the library an application (a carpincho) links, here *)
(* against Memoria.  A session of Carpinchos is one mate_instance, used by *)
(* one thread of an application, which calls mate_init, then mate_memalloc *)
(* as often as it likes, then mate_close.                                  *)
(*                                                                         *)
(* The instance blocks inside its calls: "saludando" is mate_init waiting  *)
(* in conectarMatelib for the answer to its greeting, "esperando" is       *)
(* mate_memalloc waiting for its address.                                  *)
(***************************************************************************)
EXTENDS Canales

CONSTANTS
    Epoca,         \* time(NULL) when the system starts
    MaxReloj,      \* bound: last second of the clock
    Tamanios,      \* the sizes applications ask mate_memalloc for
    MaxAlloc       \* bound: calls of mate_memalloc per instance

ASSUME RelojEnEnteros == Epoca \in Nat /\ MaxReloj \in Nat /\ Epoca <= MaxReloj
ASSUME TamaniosNaturales == Tamanios \subseteq Nat
ASSUME MaxAllocNatural == MaxAlloc \in Nat

VARIABLES
    reloj,         \* time(NULL), in seconds
    est,           \* where each instance is
    mid,           \* lib_ref->mid
    retorno,       \* what mate_init returned
    ptr,           \* what the last mate_memalloc returned
    pedidos        \* calls of mate_memalloc so far

matelib == <<reloj, est, mid, retorno, ptr, pedidos>>

Vivos == {"conectado", "saludando", "lista", "esperando", "fallida"}

MatelibTypeOK ==
    /\ reloj \in Epoca .. MaxReloj
    /\ est \in [Carpinchos -> Vivos \cup {"fuera", "cerrada", "muerta"}]
    /\ mid \in [Carpinchos -> Nat \cup {Nulo}]
    /\ retorno \in [Carpinchos -> {0, Nulo}]
    /\ ptr \in [Carpinchos -> Palabra \cup {Nulo}]
    /\ pedidos \in [Carpinchos -> 0 .. MaxAlloc]

MatelibInit ==
    /\ reloj = Epoca
    /\ est = [s \in Carpinchos |-> "fuera"]
    /\ mid = [s \in Carpinchos |-> Nulo]
    /\ retorno = [s \in Carpinchos |-> Nulo]
    /\ ptr = [s \in Carpinchos |-> Nulo]
    /\ pedidos = [s \in Carpinchos |-> 0]

Tic ==
    /\ reloj < MaxReloj
    /\ reloj' = reloj + 1
    /\ UNCHANGED <<est, mid, retorno, ptr, pedidos, canales>>

(* mate_init up to the connect() of conectarMatelib: the instance takes    *)
(* the second of the clock as its identity.                                *)
MateInit(s) ==
    /\ est[s] = "fuera"
    /\ Conecta(s)
    /\ mid' = [mid EXCEPT ![s] = reloj]
    /\ est' = [est EXCEPT ![s] = "conectado"]
    /\ UNCHANGED <<reloj, retorno, ptr, pedidos>>

(* mate_init with nobody listening: every send and recv of conectarMatelib *)
(* fails, it answers ALGO_SALIO_MAL, and mate_init returns 0 all the same. *)
MateInitRechazado(s) ==
    /\ est[s] = "fuera"
    /\ Rechazada(s)
    /\ mid' = [mid EXCEPT ![s] = reloj]
    /\ est' = [est EXCEPT ![s] = "fallida"]
    /\ retorno' = [retorno EXCEPT ![s] = 0]
    /\ UNCHANGED <<reloj, ptr, pedidos, canales>>

Saluda(s) ==
    /\ est[s] = "conectado"
    /\ aSrv' = HaciaSrv(s, TramaCarpincho(MATELIB, Puntero, mid[s], 0))
    /\ est' = [est EXCEPT ![s] = "saludando"]
    /\ UNCHANGED <<reloj, mid, retorno, ptr, pedidos, aCli, cli, srv, cola>>

(* After a failure mate_close closes the descriptor -5: the connection     *)
(* stays open until the process ends.                                      *)
RespuestaSaludo(s) ==
    /\ est[s] = "saludando"
    /\ LegibleCli(s)
    /\ LET p == Recibe("carpincho", aCli[s])
       IN  /\ est' = [est EXCEPT ![s] = IF p.cod = TODO_OK THEN "lista" ELSE "fallida"]
           /\ aCli' = [aCli EXCEPT ![s] = p.resto]
    /\ retorno' = [retorno EXCEPT ![s] = 0]
    /\ UNCHANGED <<reloj, mid, ptr, pedidos, aSrv, cli, srv, cola>>

MateMemalloc(s) ==
    /\ est[s] = "lista"
    /\ pedidos[s] < MaxAlloc
    /\ \E n \in Tamanios :
          aSrv' = HaciaSrv(s, TramaCarpincho(ALOCAR_EN_MEMORIA, Puntero, mid[s], n))
    /\ est' = [est EXCEPT ![s] = "esperando"]
    /\ pedidos' = [pedidos EXCEPT ![s] = @ + 1]
    /\ UNCHANGED <<reloj, mid, retorno, ptr, aCli, cli, srv, cola>>

(* The code of the answer is never looked at.                              *)
RespuestaMemalloc(s) ==
    /\ est[s] = "esperando"
    /\ LegibleCli(s)
    /\ LET p == Recibe("carpincho", aCli[s])
       IN  /\ ptr' = [ptr EXCEPT ![s] = p.memo]
           /\ aCli' = [aCli EXCEPT ![s] = p.resto]
    /\ est' = [est EXCEPT ![s] = "lista"]
    /\ UNCHANGED <<reloj, mid, retorno, pedidos, aSrv, cli, srv, cola>>

MateClose(s) ==
    /\ est[s] = "lista"
    /\ CierraClientes({s})
    /\ est' = [est EXCEPT ![s] = "cerrada"]
    /\ UNCHANGED <<reloj, mid, retorno, ptr, pedidos, aSrv, srv, cola>>

(* The application may be killed, or crash, anywhere: also by the SIGPIPE  *)
(* of a send to a dead Memoria, or by the use of the freed lib_ref after a *)
(* failed mate_init.                                                       *)
Muere(s) ==
    /\ est[s] \in Vivos
    /\ CierraClientes({s})
    /\ est' = [est EXCEPT ![s] = "muerta"]
    /\ UNCHANGED <<reloj, mid, retorno, ptr, pedidos, aSrv, srv, cola>>

(* What the library does by itself, and what the application does.         *)
PasoBiblioteca(s) == Saluda(s) \/ RespuestaSaludo(s) \/ RespuestaMemalloc(s)
UsaOCierra(s) == MateMemalloc(s) \/ MateClose(s)

PasoCarpincho(s) ==
    \/ MateInit(s) \/ MateInitRechazado(s) \/ Saluda(s) \/ RespuestaSaludo(s)
    \/ MateMemalloc(s) \/ RespuestaMemalloc(s) \/ MateClose(s) \/ Muere(s)
=============================================================================
