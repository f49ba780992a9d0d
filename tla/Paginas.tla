------------------------------- MODULE Paginas -------------------------------
(***************************************************************************)
(* What Memoria knows of each carpincho: its record in lista_procesos, its *)
(* page table, the TLB, and the look-ups over the three.  Records are made *)
(* by mem_alloc and by prueba; the look-ups, esta_cargada_marco and what   *)
(* it calls, are an interface nobody calls yet.                            *)
(*                                                                         *)
(* A record that was freed stays in lista_procesos.  Reading it finds      *)
(* anything: any pid, any page table.                                      *)
(***************************************************************************)
EXTENDS Direcciones, Sequences

CONSTANTS
    Pids,              \* pids that ask for memory
    CantPaginas,       \* cant_paginas_maximas
    CantEntradasTlb,   \* CANTIDAD_ENTRADAS_TLB
    Marcos,            \* the frames an entry of a freed page table may read as
    MaxProcesos        \* bound: records in lista_procesos

ASSUME PidsValidos == Pids \subseteq Nat
ASSUME MarcosEnteros == Marcos \subseteq Int
ASSUME CantidadesNaturales == CantPaginas \in Nat /\ CantEntradasTlb \in Nat /\ MaxProcesos \in Nat

Verdadero == 1         \* true, as an int
PROCESO_NO_MEMO == 605
PAGINA_NO_TP == 607

VARIABLES
    procesos,      \* lista_procesos
    consulta,      \* the look-up in progress: its pid, its page, and where it is
    respuestas,    \* history: what the look-ups have answered
    danio,         \* something freed was freed again, or written
    fin            \* "no", "nulo" (a NULL pointer), "roto" (the damage was noticed)

vars == <<procesos, consulta, respuestas, danio, fin>>

PidsPosibles == Pids \cup {1, 2, -1}
PaginasPosibles == -1 .. CantPaginas
Ninguna == [pid |-> 0, pag |-> 0, fase |-> "ninguna"]

Registro == [pid : PidsPosibles, hit : Nat, miss : Nat, libre : BOOLEAN]

TypeOK ==
    /\ procesos \in Seq(Registro)
    /\ Len(procesos) <= MaxProcesos
    /\ consulta \in [pid : PidsPosibles, pag : PaginasPosibles, fase : {"tlb", "tabla"}]
                    \cup {Ninguna}
    /\ respuestas \subseteq {Verdadero, PROCESO_NO_MEMO, PAGINA_NO_TP} \cup Marcos
    /\ danio \in BOOLEAN
    /\ fin \in {"no", "nulo", "roto"}

Init ==
    /\ procesos = <<>>
    /\ consulta = Ninguna
    /\ respuestas = {}
    /\ danio = FALSE
    /\ fin = "no"

-----------------------------------------------------------------------------
(* Definitions called Mut... are not the code: each is the definition      *)
(* after it as a plausible bug would have it.                              *)

(* list_find: the first record that has the pid.                           *)
Puede(i, pid) == procesos[i].libre \/ procesos[i].pid = pid
PuedeNo(i, pid) == procesos[i].libre \/ procesos[i].pid # pid

Halla(pid, i) ==
    /\ i \in DOMAIN procesos /\ Puede(i, pid)
    /\ \A j \in 1 .. i - 1 : PuedeNo(j, pid)

NoHalla(pid) == \A i \in DOMAIN procesos : PuedeNo(i, pid)

Quieto == fin = "no" /\ consulta = Ninguna

MutPidInicial(pid) == {pid}

(* inicializar_proceso gives a pid that is taken the pid -1, and goes on.  *)
PidInicial(pid) ==
    {p \in {pid, -1} : IF p = pid THEN NoHalla(pid) ELSE \E i \in DOMAIN procesos : Halla(pid, i)}

MutMissInicial == -1

MissInicial == 30

Proceso(pid, miss) == [pid |-> pid, hit |-> 25, miss |-> miss, libre |-> FALSE]

(* mem_alloc for a pid it does not find.                                   *)
Registra(pid) ==
    /\ Quieto /\ Len(procesos) < MaxProcesos
    /\ NoHalla(pid)
    /\ \E p \in PidInicial(pid) :
        procesos' = Append(procesos, Proceso(p, MissInicial + 1))
    /\ UNCHANGED <<consulta, respuestas, danio, fin>>

(* prueba, which main no longer calls, looks at nothing.                   *)
Prueba ==
    /\ Quieto /\ Len(procesos) + 2 <= MaxProcesos
    /\ \E p \in PidInicial(1), q \in PidInicial(2) :
        procesos' = procesos \o <<Proceso(p, MissInicial), Proceso(q, MissInicial)>>
    /\ UNCHANGED <<consulta, respuestas, danio, fin>>

-----------------------------------------------------------------------------
(* esta_cargada_marco *)

(* inicializar_tlb; nothing ever writes an entry.                          *)
EntradaTlb == [pid |-> -1, pagina |-> -1]

MutTlb == [i \in 1 .. CantEntradasTlb |-> EntradaTlb]

Tlb == [i \in 0 .. CantEntradasTlb |-> EntradaTlb]

(* inicializar_tablas_paginas; nothing ever sets a presentBit.             *)
Tabla == [pag \in 0 .. CantPaginas - 1 |-> [presentBit |-> 0, frame |-> -1]]

Liberado(r) == [r EXCEPT !.libre = TRUE]

Contado(r, esta) ==
    [r EXCEPT !.hit = IF esta THEN @ + 1 ELSE @, !.miss = IF esta THEN @ ELSE @ + 1]

Consulta(pid, pag) ==
    /\ Quieto
    /\ consulta' = [pid |-> pid, pag |-> pag, fase |-> "tlb"]
    /\ UNCHANGED <<procesos, respuestas, danio, fin>>

Responde(r) == respuestas' = respuestas \cup {r} /\ consulta' = Ninguna

EnTlb(pid) == \E i \in DOMAIN Tlb : Tlb[i].pid = pid
PaginaEnTlb(pid, pag) == \E i \in DOMAIN Tlb : Tlb[i] = [pid |-> pid, pagina |-> pag]

MutSuma(i, esta) == procesos' = [procesos EXCEPT ![i] = Contado(@, esta)]

(* sumarHit and sumarMiss count on the record and free it.  What they      *)
(* write on one that is already free is on nobody's counter.               *)
Suma(i, esta) ==
    procesos' = [procesos EXCEPT ![i] = IF @.libre THEN @ ELSE Liberado(Contado(@, esta))]

(* buscar_pagina_tlb.  A process in the TLB is counted on the record that  *)
(* sumarHit or sumarMiss finds, and liberar_proceso does not accept NULL.  *)
BuscaTlb ==
    /\ fin = "no" /\ consulta.fase = "tlb"
    /\ ~EnTlb(consulta.pid)
    /\ consulta' = [consulta EXCEPT !.fase = "tabla"]
    /\ UNCHANGED <<procesos, respuestas, danio, fin>>

CuentaTlb ==
    /\ fin = "no" /\ consulta.fase = "tlb"
    /\ EnTlb(consulta.pid)
    /\ LET esta == PaginaEnTlb(consulta.pid, consulta.pag)
       IN  \E i \in DOMAIN procesos :
            /\ Halla(consulta.pid, i)
            /\ Suma(i, esta)
            /\ danio' = (danio \/ procesos[i].libre)
            /\ IF esta THEN Responde(Verdadero)
               ELSE consulta' = [consulta EXCEPT !.fase = "tabla"] /\ UNCHANGED respuestas
    /\ UNCHANGED fin

Nulo ==
    /\ fin' = "nulo"
    /\ UNCHANGED <<procesos, consulta, respuestas, danio>>

CuentaNadie ==
    /\ fin = "no" /\ consulta.fase = "tlb"
    /\ EnTlb(consulta.pid) /\ NoHalla(consulta.pid)
    /\ Nulo

(* buscar_tabla_pagina *)
SinProceso ==
    /\ fin = "no" /\ consulta.fase = "tabla"
    /\ NoHalla(consulta.pid)
    /\ Responde(PROCESO_NO_MEMO)
    /\ UNCHANGED <<procesos, danio, fin>>

MutTrasBuscar(i) == UNCHANGED <<procesos, danio>>

(* The entry is freed, and with the record that owns it once more.         *)
TrasBuscar(i) == procesos' = [procesos EXCEPT ![i] = Liberado(@)] /\ danio' = TRUE

PaginaAusente ==
    /\ fin = "no" /\ consulta.fase = "tabla"
    /\ \E i \in DOMAIN procesos :
        /\ Halla(consulta.pid, i)
        /\ procesos[i].libre \/
               (consulta.pag \in DOMAIN Tabla /\ Tabla[consulta.pag].presentBit # 1)
        /\ TrasBuscar(i)
    /\ Responde(PAGINA_NO_TP)
    /\ UNCHANGED fin

(* Nothing sets a presentBit, so only the table of a freed record reads    *)
(* this way, and then the answer is whatever its frame reads as.  sumarMiss*)
(* looks for the process again: it may find another record, which it frees,*)
(* or none, which liberar_proceso does not accept.                         *)
PaginaPresente ==
    /\ fin = "no" /\ consulta.fase = "tabla"
    /\ \E i \in DOMAIN procesos : Halla(consulta.pid, i) /\ procesos[i].libre
    /\ \/ /\ \E j \in DOMAIN procesos : Halla(consulta.pid, j) /\ Suma(j, FALSE)
          /\ \E marco \in Marcos : Responde(marco)
          /\ danio' = TRUE
          /\ UNCHANGED fin
       \/ NoHalla(consulta.pid) /\ Nulo

(* list_find returns NULL and nobody looks.                                *)
PaginaFuera ==
    /\ fin = "no" /\ consulta.fase = "tabla"
    /\ \E i \in DOMAIN procesos :
        /\ Halla(consulta.pid, i)
        /\ procesos[i].libre \/ consulta.pag \notin DOMAIN Tabla
    /\ Nulo

(* The damaged heap is noticed.                                            *)
Aborta ==
    /\ fin = "no" /\ danio
    /\ fin' = "roto"
    /\ UNCHANGED <<procesos, consulta, respuestas, danio>>

-----------------------------------------------------------------------------
Next ==
    \/ \E pid \in Pids : Registra(pid)
    \/ Prueba
    \/ \E pid \in PidsPosibles, pag \in PaginasPosibles : Consulta(pid, pag)
    \/ BuscaTlb \/ CuentaTlb \/ CuentaNadie
    \/ SinProceso \/ PaginaAusente \/ PaginaPresente \/ PaginaFuera
    \/ Aborta

Spec == Init /\ [][Next]_vars

-----------------------------------------------------------------------------
Colgantes == {i \in DOMAIN procesos : procesos[i].libre}

(* A look-up meets NULL, before any record was freed, for two reasons: the *)
(* page is none of the process's, or the process is -1, whose entries fill *)
(* the TLB from the start though no record has that pid.                   *)
NuloPorLimite ==
    fin = "nulo" /\ Colgantes = {} =>
        \/ consulta.pag \notin 0 .. CantPaginas - 1
        \/ consulta.pid = -1 /\ \A i \in DOMAIN procesos : procesos[i].pid # -1

(* A look-up is safe for processes Memoria does not know and for no other: *)
(* whoever finds one leaves a freed record in lista_procesos, or ends      *)
(* Memoria with a page the process does not have.  With a process of pid   *)
(* -1, whom the TLB always knows, the miss alone frees it, and the look-up *)
(* may still answer that there is no such process.                         *)
HallarCuelga ==
    /\ Colgantes = {} => respuestas \subseteq {PROCESO_NO_MEMO}
    /\ Colgantes # {} => \/ ~(respuestas \subseteq {PROCESO_NO_MEMO})
                         \/ \E i \in DOMAIN procesos : procesos[i].pid = -1
    /\ NuloPorLimite

(* The hits and the misses that metricas adds up at the end are those the  *)
(* records were born with, however many look-ups were counted: a counter   *)
(* that has moved is in a freed record.                                    *)
ContadoresIniciales ==
    \A i \in DOMAIN procesos \ Colgantes : procesos[i].hit = 25 /\ procesos[i].miss \in {30, 31}

(* As long as no record was freed, no pid but -1 is in the list twice,     *)
(* although prueba and mem_alloc add to it on their own.                   *)
RegistrosDistintos ==
    Colgantes = {} =>
        \A i, j \in DOMAIN procesos : procesos[i].pid = procesos[j].pid /\ i # j => procesos[i].pid = -1

(* inicializar_tlb makes one entry more than it was asked for, so even a   *)
(* TLB of no entries knows the process -1: nobody looks that one up        *)
(* without freeing a record or ending Memoria.                             *)
MenosUnoSiempreCuenta ==
    [][consulta.fase = "tlb" /\ consulta.pid = -1 => fin' # "no" \/ Colgantes' # {}]_vars
=============================================================================
