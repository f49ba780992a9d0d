------------------------------- MODULE Sistema -------------------------------
(***************************************************************************)
(* Memoria serving the carpinchos and the Kernel: every process takes its  *)
(* steps on its own, and they meet only in the words and the ends of the   *)
(* connections.                                                            *)
(***************************************************************************)
EXTENDS Matelib, KernelMemoria, Memoria

vars == <<canales, matelib, kernel, memoria>>

TypeOK == CanalesTypeOK /\ MatelibTypeOK /\ KernelTypeOK /\ MemoriaTypeOK

Init == CanalesInit /\ MatelibInit /\ KernelInit /\ MemoriaInit

KMuere == KTermina

NextCarpincho(s) == PasoCarpincho(s) /\ UNCHANGED <<kernel, memoria>>
NextKernel == (PasoKernel \/ KMuere) /\ UNCHANGED <<matelib, memoria>>
NextMemoria == (PasoMemoria \/ Cae) /\ UNCHANGED <<matelib, kernel>>
NextReloj == Tic /\ UNCHANGED <<kernel, memoria>>

Next ==
    \/ \E s \in Carpinchos : NextCarpincho(s)
    \/ NextKernel
    \/ NextMemoria
    \/ NextReloj

Spec == Init /\ [][Next]_vars

(***************************************************************************)
(* Fairness.  The server thread, the library inside one of its calls and   *)
(* the Kernel's main are sequential code the scheduler keeps running, so   *)
(* what they can do they eventually do.  An application goes on after      *)
(* mate_init: it allocates or closes, as test/test_carpincho.c does.  The  *)
(* clock, the start of an application and every death are not fair.        *)
(***************************************************************************)
Justicia ==
    /\ WF_vars(PasoMemoria /\ UNCHANGED <<matelib, kernel>>)
    /\ WF_vars(PasoKernel /\ UNCHANGED <<matelib, memoria>>)
    /\ \A s \in Carpinchos :
          /\ WF_vars(PasoBiblioteca(s) /\ UNCHANGED <<kernel, memoria>>)
          /\ WF_vars(UsaOCierra(s) /\ UNCHANGED <<kernel, memoria>>)

SpecJusta == Spec /\ Justicia

-----------------------------------------------------------------------------
(* Safety *)

Atendiendo == pc \in {"saludo", "pedido", "swap", "confirmar"}

(* close(conexion) closes whatever descriptor 0 is by then.  It never cuts *)
(* a session that is not the one just served: only the end of the process  *)
(* closes others.                                                          *)
CierreNoAjeno ==
    [][\A s \in Sesiones :
          srv[s] = "abierta" /\ srv'[s] = "cerrada" => s = actual \/ pc' = "fin"]_vars

(* That same stray close is all that keeps the server from leaking one     *)
(* descriptor per client: besides the session being served, at most one    *)
(* (the first) stays open for ever.                                        *)
Fugadas == {s \in Sesiones : srv[s] = "abierta" /\ (Atendiendo => s # actual)}
SinFuga == \A s, t \in Fugadas : s = t

(* cliente_memoria[k] stays inside its ONLINE slots as long as no more     *)
(* sessions than that ever connect: k counts the sessions served.          *)
IndiceEnRango == Cardinality(Sesiones) <= ONLINE => (Atendiendo => k < ONLINE)

(* The server thread ends by itself only because the client it was         *)
(* greeting closed too early, never because it misread a greeting.         *)
SoloTerminaPorCorte == [][SaludoDesconocido => cli[actual] = "cerrada"]_vars

(* With the plain format read without its trailing words, every session    *)
(* after the first loses the alignment of its packets at the greeting:     *)
(* mem_alloc runs for one session at most in the life of the process.      *)
UnaSolaAtencion ==
    \A s, t \in Sesiones : concesion[s] # Nulo /\ concesion[t] # Nulo => s = t

(* The only address first_fit computes is handed out once.                 *)
Recibio25(s) == concesion[s] # Nulo /\ concesion[s].dir = DirPrimera
UnaDireccion == \A s, t \in Sesiones : Recibio25(s) /\ Recibio25(t) => s = t

(* Two sessions with one pid (two mate_init in the same second) never both *)
(* get an answer mem_alloc computed: the second one is always undefined.   *)
Definida(s) == concesion[s] # Nulo /\ concesion[s].dir # Indef
RegistroUnico ==
    \A s, t \in Sesiones :
        Definida(s) /\ Definida(t) /\ concesion[s].pid = concesion[t].pid => s = t

(* Whatever the alignment of the packets, mem_alloc works on the identity  *)
(* the client chose for itself.                                            *)
PidPropio ==
    \A s \in Sesiones : concesion[s] # Nulo =>
        concesion[s].pid = IF s \in Carpinchos THEN mid[s] ELSE PidKernel

(* mate_memalloc does not look at the code of the answer, but an           *)
(* application that holds the address 25 was granted it, and the only      *)
(* other numbers it can take for an address are the refusal and, when      *)
(* Memoria talks to it as if it were Swap, a size it asked for itself.     *)
PunteroOtorgado ==
    \A s \in Carpinchos :
        /\ ptr[s] = DirPrimera => Recibio25(s)
        /\ ptr[s] \in {Nulo, Indef, DirPrimera, SinEspacio} \cup Tamanios

(* The answers of mem_alloc are those of the abstract allocator.           *)
Asignaciones == INSTANCE Asignador WITH
    Pids <- Palabra,
    Direccion <- DirPrimera,
    SinLugar <- SinEspacio,
    registrados <- procesos

CumpleAsignador == Asignaciones!Spec

-----------------------------------------------------------------------------
(* Liveness *)

(* mate_init never hangs: its greeting is answered, or Memoria is gone.    *)
SaludoTermina == \A s \in Carpinchos : est[s] = "saludando" ~> est[s] # "saludando"

(* The first mate_memalloc of an instance returns, whoever asked before it *)
(* and whatever Memoria made of the request.  (A second one may not.)      *)
PrimerAllocTermina ==
    \A s \in Carpinchos :
        est[s] = "esperando" /\ pedidos[s] = 1 ~> est[s] # "esperando"

(* The only server thread is never captured by a session: it comes back to *)
(* accept(), also when it waits on a client for an answer meant for Swap.  *)
ServidorVuelve == Atendiendo ~> pc \in {"aceptar", "fin"}

-----------------------------------------------------------------------------
(* What the documentation says and the code does not do.                   *)

(* matelib/README.md: the status of mate_init tells that something failed. *)
InitAvisaFallo == \A s \in Carpinchos : est[s] = "fallida" => retorno[s] # 0

(* matelib/README.md: the identification of an instance tells it from the  *)
(* other instances.                                                        *)
IdentificacionUnica ==
    \A s, t \in Carpinchos : s # t /\ mid[s] # Nulo /\ mid[t] # Nulo => mid[s] # mid[t]
=============================================================================
