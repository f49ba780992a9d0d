------------------------------- MODULE Finales -------------------------------
(***************************************************************************)
(* How Memoria, Swap and the Kernel of Kernel/main.c end: what main        *)
(* creates, the threads it starts and joins, what it releases, and SIGINT, *)
(* whose handler releases the same things on top of whatever thread it     *)
(* interrupts while the other one goes on, until a second SIGINT takes     *)
(* that one too.                                                           *)
(*                                                                         *)
(* The state is the life of each global structure.  Using one that does    *)
(* not exist yet is a NULL pointer and ends the process.  Using or freeing *)
(* a released one damages the heap: the process may end at any moment from *)
(* then on, or go on.                                                      *)
(***************************************************************************)
EXTENDS Integers, Sequences

CONSTANT MaxProcesos   \* bound: carpinchos that Memoria registers

ASSUME MaxProcesosNat == MaxProcesos \in Nat

Programas == {"memoria", "swap", "kernel"}

(* config is the structure with the values, config_file the t_config they  *)
(* come from; entradas are the elements of tabla_de_marcos_fija.           *)
Estructuras ==
    {"logger", "config_file", "config", "lista_procesos", "frames_memoria", "lista_tlb",
     "tabla_de_marcos_fija", "entradas", "colas"}

VARIABLES
    prog,          \* the program this process runs
    vida,          \* the life of each structure: "sin", "viva", "libre"
    principal,     \* main: its phase, and the step or the thread it is at
    servidor,      \* the other thread: hiloSwap or hiloConexion
    manejador,     \* the handler of SIGINT on each thread
    senal,         \* where SIGINT found each thread, or SinSenal
    recorrido,     \* the walk of lista_procesos that each handler is in
    asignacion,    \* Swap: config_swap->asignacion
    procesos,      \* Memoria: the carpinchos in lista_procesos
    totales,       \* tlb_miss_totales and tlb_hit_totales
    danio,         \* who used or freed what after its release
    nulas,         \* who used what before it existed
    fin            \* how the process ended: "no" (it has not), "exit", "roto"

hilos == <<principal, servidor, manejador, senal, recorrido>>
datos == <<asignacion, procesos, totales>>
vars == <<prog, vida, hilos, datos, danio, nulas, fin>>

(* The threads SIGINT can find, and what runs: each one's own code, and    *)
(* the handler on top of it.                                               *)
Hebras == {"principal", "servidor"}
Manejador(h) == IF h = "principal" THEN "manejador_principal" ELSE "manejador_servidor"
Flujos == Hebras \cup {"manejador_principal", "manejador_servidor"}
FasesPrincipal == {"crea", "lanza", "une", "libera", "fuera"}
FasesServidor == {"no", "conversa", "acepta", "busca", "crea", "agrega", "pedidos", "salio"}
FasesManejador == {"no", "aviso", "miss", "hit", "libera", "fuera"}
SinSenal == [fase |-> "no", alloc |-> FALSE, registrados |-> 0]

(* A walk: the records counted, those the list had when its end was last   *)
(* looked at, and the total that was read and is not written back yet.     *)
SinLeer == -1
Basura == -2           \* any total: a freed record was added to it
Inicio(n) == [van |-> 0, visto |-> n, leido |-> SinLeer]

-----------------------------------------------------------------------------
(* Definitions called Mut... are not the code: each is the definition      *)
(* after it as a plausible bug would have it.                              *)

MutCrea ==
    [memoria |-> <<{"logger"}, {"config_file"}, {"config"}, {"lista_procesos", "frames_memoria"}>>,
     swap    |-> <<{"logger"}, {"config_file"}, {"config"}>>,
     kernel  |-> <<{"logger"}, {"config"}, {"colas"}>>]

(* What each step of main creates.                                         *)
Crea ==
    [memoria |-> <<{"logger"}, {"config_file"}, {"config"},
                   {"lista_procesos", "frames_memoria"}, {"lista_tlb"}>>,
     swap    |-> <<{"logger"}, {"config_file"}, {"config"}>>,
     kernel  |-> <<{"logger"}, {"config"}, {"colas"}>>]

(* The threads main starts and joins, one after the other.                 *)
Hilos ==
    [memoria |-> <<"conectarSwap", "conexionesMemoria">>,
     swap    |-> <<"conexionesSwamp2">>,
     kernel  |-> <<>>]

Paso(usa, libera, repite) == [usa |-> usa, libera |-> libera, repite |-> repite]

MutFinTabla == {"tabla_de_marcos_fija", "entradas"}

MutFinSinTabla == {}

(* list_destroy: the elements, freed when they were put in, are left       *)
(* alone.  (The call that also destroyed them is commented out.)           *)
FinTabla == {"tabla_de_marcos_fija"}

(* terminar_programa, terminarSwap and cerrar_programa, step by step.      *)
(* repite: the step hands free() a pointer it must not have, whatever else *)
(* happens.  liberar_memoria frees the global marco once per frame;        *)
(* liberar_t_config frees dump, and liberar_configuracion tipo_asignacion, *)
(* which nobody set, and archivos after string_array_destroy did; and      *)
(* config_destroy frees the ip that the values share with the file.        *)
Libera ==
    [memoria |-> <<Paso({"config"}, {"frames_memoria"}, TRUE),
                   Paso({"logger"}, {"lista_procesos"}, FALSE),
                   Paso({"logger"}, {"lista_tlb"}, FALSE),
                   Paso({}, {"logger"}, FALSE),
                   Paso({}, {"config"}, TRUE),
                   Paso({}, {"config_file"}, TRUE)>>,
     swap    |-> <<Paso({}, FinTabla, FALSE),
                   Paso({}, {"config"}, TRUE),
                   Paso({}, {"config_file"}, TRUE),
                   Paso({}, {"logger"}, FALSE)>>,
     kernel  |-> <<Paso({}, {"logger"}, FALSE),
                   Paso({}, {"colas"}, FALSE),
                   Paso({}, {"config"}, FALSE)>>]

TypeOK ==
    /\ prog \in Programas
    /\ vida \in [Estructuras -> {"sin", "viva", "libre"}]
    /\ principal \in [fase : FasesPrincipal, i : 1 .. 6]
    /\ servidor \in FasesServidor
    /\ manejador \in [Hebras -> [fase : FasesManejador, i : 1 .. 6]]
    /\ senal \in [Hebras -> [fase : FasesPrincipal \cup FasesServidor,
                             alloc : BOOLEAN, registrados : 0 .. MaxProcesos]]
    /\ recorrido \in [Hebras -> [van : 0 .. MaxProcesos, visto : 0 .. MaxProcesos,
                                 leido : Nat \cup {SinLeer, Basura}]]
    /\ asignacion \in {"ninguna", "fija", "global"}
    /\ procesos \in 0 .. MaxProcesos
    /\ totales \in [miss : Nat \cup {Basura}, hit : Nat \cup {Basura}]
    /\ danio \subseteq [hilo : Flujos, que : Estructuras \cup {"repetido"}]
    /\ nulas \subseteq [hilo : Flujos, que : Estructuras]
    /\ fin \in {"no", "exit", "roto"}

(* startSigHandlers has run; the Kernel has no handler.                    *)
Init ==
    /\ prog \in Programas
    /\ vida = [e \in Estructuras |-> "sin"]
    /\ principal = [fase |-> "crea", i |-> 1]
    /\ servidor = "no"
    /\ manejador = [h \in Hebras |-> [fase |-> "no", i |-> 1]]
    /\ senal = [h \in Hebras |-> SinSenal]
    /\ recorrido = [h \in Hebras |-> Inicio(0)]
    /\ asignacion = "ninguna"
    /\ procesos = 0
    /\ totales = [miss |-> 0, hit |-> 0]
    /\ danio = {} /\ nulas = {}
    /\ fin = "no"

-----------------------------------------------------------------------------
Tocadas(quien, es, como) == {[hilo |-> quien, que |-> e] : e \in {x \in es : vida[x] = como}}

(* quien uses some structures.                                             *)
Usa(quien, es) ==
    /\ nulas' = nulas \cup Tocadas(quien, es, "sin")
    /\ danio' = danio \cup Tocadas(quien, es, "libre")

(* A NULL pointer ends the process at once.                                *)
Sigue == fin' = IF nulas' # nulas THEN "roto" ELSE "no"

(* The handler ends in exit(): a thread it interrupted never goes on.      *)
Corre(h) == fin = "no" /\ manejador[h].fase = "no"

Avanza(p, n, luego) ==
    IF p.i < n THEN [p EXCEPT !.i = @ + 1] ELSE [fase |-> luego, i |-> 1]

-----------------------------------------------------------------------------
(* main *)

PCrea ==
    /\ principal.fase = "crea"
    /\ vida' = [e \in Estructuras |-> IF e \in Crea[prog][principal.i] THEN "viva" ELSE vida[e]]
    /\ principal' = Avanza(principal, Len(Crea[prog]), IF Hilos[prog] = <<>> THEN "libera" ELSE "lanza")
    /\ UNCHANGED <<servidor, danio, nulas, fin>>

PLanza ==
    /\ principal.fase = "lanza"
    /\ servidor' = IF Hilos[prog][principal.i] = "conectarSwap" THEN "conversa" ELSE "acepta"
    /\ principal' = [principal EXCEPT !.fase = "une"]
    /\ UNCHANGED <<vida, danio, nulas, fin>>

MutEspera == TRUE

(* pthread_join.                                                           *)
Espera == servidor = "salio"

PUne ==
    /\ principal.fase = "une"
    /\ Espera
    /\ principal' = IF principal.i < Len(Hilos[prog])
                    THEN [fase |-> "lanza", i |-> principal.i + 1]
                    ELSE [fase |-> "libera", i |-> 1]
    /\ UNCHANGED <<vida, servidor, danio, nulas, fin>>

MutSalida(i) == "no"

(* After the last step main returns, and the handler calls exit().         *)
Salida(i) == IF i = Len(Libera[prog]) THEN "exit" ELSE "no"

Termina(quien, i) ==
    LET p == Libera[prog][i]
        es == p.usa \cup p.libera
        repetido == IF p.repite THEN {[hilo |-> quien, que |-> "repetido"]} ELSE {}
    IN  /\ nulas' = nulas \cup Tocadas(quien, es, "sin")
        /\ danio' = danio \cup Tocadas(quien, es, "libre") \cup repetido
        /\ vida' = [e \in Estructuras |-> IF e \in p.libera THEN "libre" ELSE vida[e]]
        /\ fin' = IF nulas' # nulas THEN "roto" ELSE Salida(i)

PLibera ==
    /\ principal.fase = "libera"
    /\ Termina("principal", principal.i)
    /\ principal' = Avanza(principal, Len(Libera[prog]), "fuera")
    /\ UNCHANGED servidor

PasoPrincipal ==
    /\ Corre("principal")
    /\ PCrea \/ PLanza \/ PUne \/ PLibera
    /\ UNCHANGED <<prog, manejador, senal, recorrido, datos>>

-----------------------------------------------------------------------------
(* The server threads.  What they say to their peers is modules Sistema    *)
(* and Arranque; here only which structures they use.                      *)

(* conectarSwap.                                                           *)
MConversa ==
    /\ servidor = "conversa"
    /\ Usa("servidor", {"config", "logger"})
    /\ servidor' = "salio"
    /\ UNCHANGED <<vida, datos>>

(* conexionesMemoria: iniciar_servidor, then mem_alloc or a code it does   *)
(* not know.  (Only the first time does it read config, as the search that *)
(* follows may do any time.)                                               *)
MAcepta ==
    /\ prog = "memoria" /\ servidor = "acepta"
    /\ Usa("servidor", {"config", "logger"})
    /\ servidor' \in {"busca", "salio"}
    /\ UNCHANGED <<vida, datos>>

(* buscar_carpincho: a registered pid, or a new one.                       *)
MBusca ==
    /\ servidor = "busca"
    /\ Usa("servidor", {"lista_procesos", "logger"})
    /\ \/ procesos > 0 /\ servidor' = "acepta"
       \/ procesos < MaxProcesos /\ servidor' = "crea"
    /\ UNCHANGED <<vida, datos>>

(* inicializar_proceso and primer_alloc: the record belongs to nobody yet. *)
MCrea ==
    /\ servidor = "crea"
    /\ Usa("servidor", {"lista_procesos", "config", "logger"})
    /\ servidor' = "agrega"
    /\ UNCHANGED <<vida, datos>>

HitAlCrear == 25

MutMissAlRegistrar == 30

MutMissSinIniciar == -1

(* The first miss is counted before the record enters the list, so these   *)
(* are the misses, and the hits above, of every carpincho in it.           *)
MissAlRegistrar == 30 + 1

(* actualizar_estructuras, and what mem_alloc logs around it.              *)
MAgrega ==
    /\ servidor = "agrega"
    /\ Usa("servidor", {"lista_procesos", "config", "logger"})
    /\ procesos' = procesos + 1
    /\ servidor' = "acepta"
    /\ UNCHANGED <<vida, asignacion, totales>>

(* inicializar_asignacion.  The fixed assignment makes the table, and      *)
(* eliminar_carpincho frees every element as soon as it is in.             *)
SAsigna ==
    /\ prog = "swap" /\ servidor = "acepta"
    /\ Usa("servidor", {"config", "logger"})
    /\ asignacion' \in {"fija", "global", "ninguna"}
    /\ vida' = IF asignacion' = "fija"
               THEN [vida EXCEPT !.tabla_de_marcos_fija = "viva", !.entradas = "libre"]
               ELSE vida
    /\ servidor' = "pedidos"
    /\ UNCHANGED <<procesos, totales>>

(* A greeting that is not MEMORIA's.                                       *)
SRechaza ==
    /\ prog = "swap" /\ servidor = "acepta"
    /\ Usa("servidor", {"logger"})
    /\ servidor' = "salio"
    /\ UNCHANGED <<vida, datos>>

SPedido ==
    /\ servidor = "pedidos"
    /\ Usa("servidor", {"config", "logger"})
    /\ servidor' \in {"pedidos", "salio"}
    /\ UNCHANGED <<vida, datos>>

PasoServidor ==
    /\ Corre("servidor")
    /\ MConversa \/ MAcepta \/ MBusca \/ MCrea \/ MAgrega \/ SAsigna \/ SRechaza \/ SPedido
    /\ Sigue
    /\ UNCHANGED <<prog, principal, manejador, senal, recorrido>>

-----------------------------------------------------------------------------
(* SIGINT goes to any thread that does not block it, and interrupts it     *)
(* wherever it is: alloc, if it holds a lock there, of malloc or of        *)
(* stdout, as pthread_join never does.  signal() blocks it for as long as  *)
(* the handler runs, but only in the thread that runs it.                  *)
Lugar(h) == IF h = "principal" THEN principal.fase ELSE servidor

Sigint(h) ==
    /\ fin = "no" /\ prog # "kernel" /\ manejador[h].fase = "no"
    /\ Lugar(h) \notin {"fuera", "no", "salio"}
    /\ \E a \in BOOLEAN :
        /\ a => Lugar(h) # "une"
        /\ senal' = [senal EXCEPT ![h] = [fase |-> Lugar(h), alloc |-> a, registrados |-> procesos]]
    /\ manejador' = [manejador EXCEPT ![h] = [fase |-> "aviso", i |-> 1]]
    /\ UNCHANGED <<prog, vida, principal, servidor, recorrido, datos, danio, nulas, fin>>

(* An interrupted thread keeps its locks, and a handler that needs one of  *)
(* them, its own or the other's, waits for ever.                           *)
Trabado == \E h \in Hebras : senal[h].alloc

(* The walks of metricas: the closure reads the total and writes it back,  *)
(* while the server adds to the list and the other handler, if there is    *)
(* one, adds to the same total.                                            *)
PorCarpincho == [miss |-> MissAlRegistrar, hit |-> HitAlCrear]

ListaLibre == vida["lista_procesos"] = "libre"

HAvisa(h) ==
    /\ manejador[h].fase = "aviso"
    /\ Usa(Manejador(h), {"logger"} \cup IF prog = "memoria" THEN {"lista_procesos"} ELSE {})
    /\ manejador' = [manejador EXCEPT ![h].fase = IF prog = "memoria" THEN "miss" ELSE "libera"]
    /\ recorrido' = [recorrido EXCEPT ![h] = Inicio(procesos)]
    /\ Sigue
    /\ UNCHANGED <<vida, totales>>

HLee(h) ==
    LET fase == manejador[h].fase
    IN  /\ fase \in {"miss", "hit"}
        /\ recorrido[h].leido = SinLeer /\ recorrido[h].van < recorrido[h].visto
        /\ Usa(Manejador(h), {"lista_procesos", "logger"})
        /\ recorrido' = [recorrido EXCEPT ![h].leido = totales[fase], ![h].visto = procesos]
        /\ Sigue
        /\ UNCHANGED <<vida, manejador, totales>>

HSuma(h) ==
    LET fase == manejador[h].fase
        leido == recorrido[h].leido
    IN  /\ leido # SinLeer
        /\ Usa(Manejador(h), {"lista_procesos"})
        /\ totales' = [totales EXCEPT ![fase] =
                          IF ListaLibre \/ leido = Basura THEN Basura ELSE leido + PorCarpincho[fase]]
        /\ recorrido' = [recorrido EXCEPT ![h].van = @ + 1, ![h].leido = SinLeer]
        /\ Sigue
        /\ UNCHANGED <<vida, manejador>>

(* A freed list ends anywhere.                                             *)
HRecorrio(h) ==
    LET fase == manejador[h].fase
    IN  /\ fase \in {"miss", "hit"}
        /\ recorrido[h].leido = SinLeer
        /\ recorrido[h].van = recorrido[h].visto \/ ListaLibre
        /\ Usa(Manejador(h), IF fase = "miss" THEN {"lista_procesos"} ELSE {"logger"})
        /\ manejador' = [manejador EXCEPT ![h].fase = IF fase = "miss" THEN "hit" ELSE "libera"]
        /\ recorrido' = [recorrido EXCEPT ![h] = Inicio(IF fase = "miss" THEN procesos ELSE 0)]
        /\ Sigue
        /\ UNCHANGED <<vida, totales>>

HLibera(h) ==
    /\ manejador[h].fase = "libera"
    /\ Termina(Manejador(h), manejador[h].i)
    /\ manejador' = [manejador EXCEPT ![h] = Avanza(@, Len(Libera[prog]), "fuera")]
    /\ UNCHANGED <<recorrido, totales>>

PasoManejador(h) ==
    /\ fin = "no"
    /\ HAvisa(h) \/ HLee(h) \/ HSuma(h) \/ HRecorrio(h) \/ HLibera(h)
    /\ UNCHANGED <<prog, principal, servidor, senal, asignacion, procesos>>

(* The damaged heap is noticed.                                            *)
Aborta ==
    /\ fin = "no" /\ danio # {}
    /\ fin' = "roto"
    /\ UNCHANGED <<prog, vida, hilos, datos, danio, nulas>>

-----------------------------------------------------------------------------
Next ==
    \/ PasoPrincipal \/ PasoServidor \/ Aborta
    \/ \E h \in Hebras : Sigint(h) \/ PasoManejador(h)

Spec == Init /\ [][Next]_vars

(* main and the handlers are runnable until they wait, a handler as long   *)
(* as no interrupted thread keeps a lock from it.  The server waits for    *)
(* peers that may never speak, and nobody has to press CTRL+C.             *)
SpecJusta ==
    /\ Spec
    /\ WF_vars(PasoPrincipal)
    /\ \A h \in Hebras : WF_vars(PasoManejador(h) /\ ~Trabado)

-----------------------------------------------------------------------------
Interrumpida(h) == manejador[h].fase # "no"

(* The server thread uses what is released only after SIGINT took main out *)
(* of the pthread_join that otherwise keeps every release away from it;    *)
(* and then the handler on main is what released it.                       *)
ServidorUsaVivo ==
    \A d \in danio : d.hilo = "servidor" =>
        /\ senal["principal"].fase = "une"
        /\ manejador["principal"].fase \in {"libera", "fuera"}

(* Apart from the wrong frees that a step of the end makes by itself, main *)
(* and the handlers release one thing twice, or use it too late, in two    *)
(* cases only: SIGINT came while main was releasing, and a second CTRL+C   *)
(* went to the other thread, so that two handlers release everything.  One *)
(* signal that finds main in its join never does it; in particular Swap's  *)
(* table, whose elements were freed when they were put in, is torn down    *)
(* without freeing them again.                                             *)
UnaLiberacion ==
    \A d \in danio : d.hilo # "servidor" /\ d.que # "repetido" =>
        \/ d.hilo = Manejador("principal") /\ senal["principal"].fase = "libera"
        \/ \A h \in Hebras : Interrumpida(h) /\ d.hilo # h

(* The end of a program meets something that was never created in two      *)
(* ways only: SIGINT before main has created everything, and Swap's table  *)
(* of the fixed assignment when nobody has asked for that assignment.      *)
NuloTemprano ==
    \A n \in nulas :
        \/ n.hilo = Manejador("principal") /\ senal["principal"].fase = "crea"
        \/ n.que = "tabla_de_marcos_fija" /\ asignacion # "fija"

(* terminarSwap is reached by every peer that leaves, and by SIGINT, yet   *)
(* it reaches its end only if Memoria has asked for the fixed assignment:  *)
(* list_destroy does not accept a table that is not there.                 *)
SwapSaleSoloFija == prog = "swap" /\ fin = "exit" => asignacion = "fija"

(* As long as no handler walks a list that is already released, metricas   *)
(* is right about two moments after a single signal: the misses of its     *)
(* first walk are of a prefix of the carpinchos counted in the second one, *)
(* all that were registered when the signal came are in both, and each of  *)
(* them has its first miss.  A second signal makes two handlers add to the *)
(* same totals, and they never reach more than twice what is registered.   *)
ListaSana == \A h \in Hebras : [hilo |-> Manejador(h), que |-> "lista_procesos"] \notin danio

MetricasDe(h) ==
    manejador[h].fase \in {"libera", "fuera"} /\ (\A o \in Hebras \ {h} : ~Interrumpida(o)) =>
        \E m, k \in senal[h].registrados .. procesos :
            m <= k /\ totales = [miss |-> 31 * m, hit |-> 25 * k]

MetricasCoherentes ==
    prog = "memoria" /\ ListaSana =>
        /\ \A h \in Hebras : MetricasDe(h)
        /\ totales.miss <= 31 * (2 * procesos) /\ totales.hit <= 25 * (2 * procesos)

(* CTRL+C ends Memoria and Swap, whatever the other thread does and        *)
(* however often it is pressed, unless it interrupted a thread that holds  *)
(* a lock.                                                                 *)
SigintTermina == (\E h \in Hebras : manejador[h].fase = "aviso") ~> fin # "no" \/ Trabado

(* When its last thread has ended a program ends too; the Kernel always    *)
(* does.  Only a SIGINT that hits main inside the allocator prevents it.   *)
FinTrasHilo ==
    prog = "kernel" \/ (principal = [fase |-> "une", i |-> Len(Hilos[prog])] /\ servidor = "salio")
        ~> fin # "no" \/ senal["principal"].alloc
=============================================================================
