---------------------------- MODULE Paginas_proofs ----------------------------
(***************************************************************************)
(* The properties of Paginas for every number of pages, of TLB entries and *)
(* of records, and facts about the addresses of Direcciones.               *)
(***************************************************************************)
EXTENDS Paginas, SequenceTheorems, TLAPS

LEMMA RegistroLiberado ==
    ASSUME NEW r \in Registro
    PROVE  Liberado(r) \in Registro /\ Liberado(r).libre /\ Liberado(r).pid = r.pid
  BY DEF Registro, Liberado

LEMMA RegistroContado ==
    ASSUME NEW r \in Registro, NEW esta \in BOOLEAN
    PROVE  Contado(r, esta) \in Registro /\ Contado(r, esta).pid = r.pid
  <1>1. CASE esta
    <2>1. Contado(r, esta) = [r EXCEPT !.hit = @ + 1]
      BY <1>1 DEF Registro, Contado
    <2> QED BY <2>1 DEF Registro
  <1>2. CASE ~esta
    <2>1. Contado(r, esta) = [r EXCEPT !.miss = @ + 1]
      BY <1>2 DEF Registro, Contado
    <2> QED BY <2>1 DEF Registro
  <1> QED BY <1>1, <1>2

(* What the counting step and the freeing one do to the list: the record i *)
(* keeps its pid and is free, the others are as they were.                 *)
Suelta(i) ==
    /\ procesos' \in Seq(Registro)
    /\ DOMAIN procesos' = DOMAIN procesos /\ Len(procesos') = Len(procesos)
    /\ procesos'[i].libre
    /\ \A j \in DOMAIN procesos : procesos'[j].pid = procesos[j].pid
    /\ \A j \in DOMAIN procesos : j # i => procesos'[j] = procesos[j]

LEMMA ReemplazoSuelta ==
    ASSUME procesos \in Seq(Registro), NEW i \in DOMAIN procesos, NEW r \in Registro,
           r.libre, r.pid = procesos[i].pid,
           procesos' = [procesos EXCEPT ![i] = r]
    PROVE  Suelta(i)
  <1>1. DOMAIN procesos = 1 .. Len(procesos)
    BY LenProperties
  <1>2. /\ procesos' \in Seq(Registro)
        /\ Len(procesos') = Len(procesos)
        /\ \A j \in DOMAIN procesos : procesos'[j] = IF j = i THEN r ELSE procesos[j]
    BY <1>1, ExceptSeq
  <1>3. DOMAIN procesos' = 1 .. Len(procesos')
    BY <1>2, LenProperties
  <1> QED BY <1>1, <1>2, <1>3 DEF Suelta

LEMMA SumaSuelta ==
    ASSUME procesos \in Seq(Registro), NEW i \in DOMAIN procesos,
           NEW esta \in BOOLEAN, Suma(i, esta)
    PROVE  Suelta(i)
  <1>1. procesos[i] \in Registro
    BY ElementOfSeq, LenProperties
  <1> DEFINE r == IF procesos[i].libre THEN procesos[i]
                  ELSE Liberado(Contado(procesos[i], esta))
  <1>2. procesos' = [procesos EXCEPT ![i] = r]
    BY DEF Suma
  <1>3. r \in Registro /\ r.libre /\ r.pid = procesos[i].pid
    <2>1. CASE procesos[i].libre
      BY <1>1, <2>1
    <2>2. CASE ~procesos[i].libre
      BY <1>1, <2>2, RegistroContado, RegistroLiberado
    <2> QED BY <2>1, <2>2
  <1> QED BY <1>2, <1>3, ReemplazoSuelta

LEMMA TrasBuscarSuelta ==
    ASSUME procesos \in Seq(Registro), NEW i \in DOMAIN procesos, TrasBuscar(i)
    PROVE  Suelta(i)
  <1>1. procesos[i] \in Registro
    BY ElementOfSeq, LenProperties
  <1>2. procesos' = [procesos EXCEPT ![i] = Liberado(procesos[i])]
    BY DEF TrasBuscar
  <1>3. /\ Liberado(procesos[i]) \in Registro
        /\ Liberado(procesos[i]).libre /\ Liberado(procesos[i]).pid = procesos[i].pid
    BY <1>1, RegistroLiberado
  <1> QED BY <1>2, <1>3, ReemplazoSuelta

(* Only the process -1 is in the TLB, and it always is.                    *)
LEMMA EnTlbMenosUno == \A pid : EnTlb(pid) <=> pid = -1
  BY CantidadesNaturales DEF EnTlb, Tlb, EntradaTlb

-----------------------------------------------------------------------------
(* Types *)

LEMMA ProcesoEsRegistro ==
    ASSUME NEW pid \in PidsPosibles, NEW miss \in {30, 31}
    PROVE  /\ Proceso(pid, miss) \in Registro
           /\ ~Proceso(pid, miss).libre /\ Proceso(pid, miss).pid = pid
           /\ Proceso(pid, miss).hit = 25 /\ Proceso(pid, miss).miss = miss
  BY DEF Proceso, Registro

LEMMA PidInicialPosible ==
    ASSUME NEW pid \in PidsPosibles
    PROVE  PidInicial(pid) \subseteq PidsPosibles
  BY DEF PidInicial, PidsPosibles

(* What mem_alloc and prueba do to the list.                               *)
Crece(nuevos) ==
    /\ nuevos \in Seq(Registro)
    /\ procesos' = procesos \o nuevos
    /\ \A n \in DOMAIN nuevos : ~nuevos[n].libre /\ nuevos[n].hit = 25 /\ nuevos[n].miss \in {30, 31}

LEMMA CreceMedidas ==
    ASSUME procesos \in Seq(Registro), NEW nuevos, Crece(nuevos)
    PROVE  /\ procesos' \in Seq(Registro)
           /\ Len(procesos') = Len(procesos) + Len(nuevos)
           /\ DOMAIN procesos = 1 .. Len(procesos)
           /\ DOMAIN procesos' = 1 .. Len(procesos) + Len(nuevos)
           /\ \A i \in DOMAIN procesos : procesos'[i] = procesos[i]
           /\ \A i \in DOMAIN procesos' \ DOMAIN procesos :
                 i - Len(procesos) \in DOMAIN nuevos /\ procesos'[i] = nuevos[i - Len(procesos)]
  <1>1. /\ procesos \o nuevos \in Seq(Registro)
        /\ Len(procesos \o nuevos) = Len(procesos) + Len(nuevos)
        /\ \A i \in 1 .. Len(procesos) + Len(nuevos) : (procesos \o nuevos)[i] =
              IF i <= Len(procesos) THEN procesos[i] ELSE nuevos[i - Len(procesos)]
    BY ConcatProperties DEF Crece
  <1>2. /\ Len(procesos) \in Nat /\ DOMAIN procesos = 1 .. Len(procesos)
        /\ Len(nuevos) \in Nat /\ DOMAIN nuevos = 1 .. Len(nuevos)
        /\ DOMAIN procesos' = 1 .. Len(procesos')
    BY <1>1, LenProperties DEF Crece
  <1> QED BY <1>1, <1>2 DEF Crece

LEMMA RegistraCrece ==
    ASSUME TypeOK, NEW pid \in Pids, Registra(pid)
    PROVE  \E p \in PidInicial(pid) : Crece(<<Proceso(p, 31)>>)
  <1>1. PICK p \in PidInicial(pid) : procesos' = Append(procesos, Proceso(p, 31))
    BY DEF Registra, MissInicial
  <1>2. p \in PidsPosibles
    BY PidInicialPosible DEF PidsPosibles
  <1> DEFINE r == Proceso(p, 31)
  <1>3. r \in Registro /\ ~r.libre /\ r.hit = 25 /\ r.miss \in {30, 31}
    BY <1>2, ProcesoEsRegistro
  <1> HIDE DEF r
  <1>4. procesos' = procesos \o <<r>>
    BY <1>1, <1>3, AppendIsConcat DEF TypeOK, r
  <1>5. <<r>> \in Seq(Registro) /\ \A n \in DOMAIN <<r>> : <<r>>[n] = r
    BY <1>3
  <1>6. Crece(<<r>>)
    BY <1>3, <1>4, <1>5 DEF Crece
  <1> QED BY <1>6 DEF r

LEMMA PruebaCrece ==
    ASSUME TypeOK, Prueba
    PROVE  \E p \in PidInicial(1), q \in PidInicial(2) : Crece(<<Proceso(p, 30), Proceso(q, 30)>>)
  <1>1. PICK p \in PidInicial(1), q \in PidInicial(2) :
          procesos' = procesos \o <<Proceso(p, 30), Proceso(q, 30)>>
    BY DEF Prueba, MissInicial
  <1>2. p \in PidsPosibles /\ q \in PidsPosibles
    BY PidInicialPosible DEF PidsPosibles
  <1> DEFINE r == Proceso(p, 30)
             t == Proceso(q, 30)
  <1>3. /\ r \in Registro /\ ~r.libre /\ r.hit = 25 /\ r.miss \in {30, 31}
        /\ t \in Registro /\ ~t.libre /\ t.hit = 25 /\ t.miss \in {30, 31}
    BY <1>2, ProcesoEsRegistro
  <1>4. procesos' = procesos \o <<r, t>>
    BY <1>1
  <1> HIDE DEF r, t
  <1>5. <<r, t>> \in Seq(Registro) /\ \A n \in DOMAIN <<r, t>> : <<r, t>>[n] \in {r, t}
    BY <1>3
  <1>6. Crece(<<r, t>>)
    BY <1>3, <1>4, <1>5 DEF Crece
  <1> QED BY <1>6 DEF r, t

(* A finished look-up answers one of three things, or a stray frame.       *)
Respondibles == {Verdadero, PROCESO_NO_MEMO, PAGINA_NO_TP} \cup Marcos

LEMMA RespuestaTipo ==
    ASSUME TypeOK, NEW r \in Respondibles, Responde(r)
    PROVE  /\ respuestas' \subseteq Respondibles
           /\ consulta' = Ninguna
  BY DEF TypeOK, Responde, Respondibles

(* A presentBit is only read as set in a record that is already free, and  *)
(* the miss frees one more, or meets NULL.                                 *)
LEMMA PresenteSuelta ==
    ASSUME TypeOK, PaginaPresente
    PROVE  /\ Colgantes # {}
           /\ \/ Nulo
              \/ /\ \E i \in DOMAIN procesos : Suelta(i)
                 /\ \E r \in Respondibles : Responde(r)
                 /\ danio' = TRUE /\ fin' = fin
  <1>1. Colgantes # {}
    BY DEF PaginaPresente, Colgantes
  <1>2. CASE Nulo
    BY <1>1, <1>2
  <1>3. CASE ~Nulo
    <2>1. /\ \E j \in DOMAIN procesos : Suma(j, FALSE)
          /\ \E marco \in Marcos : Responde(marco)
          /\ danio' = TRUE /\ fin' = fin
      BY <1>3 DEF PaginaPresente
    <2>2. \E j \in DOMAIN procesos : Suelta(j)
      BY <2>1, SumaSuelta DEF TypeOK
    <2>3. \E r \in Respondibles : Responde(r)
      BY <2>1 DEF Respondibles
    <2> QED BY <1>1, <2>1, <2>2, <2>3
  <1> QED BY <1>2, <1>3

LEMMA ATablaTipo ==
    ASSUME TypeOK, consulta.fase = "tlb", consulta' = [consulta EXCEPT !.fase = "tabla"]
    PROVE  consulta' \in [pid : PidsPosibles, pag : PaginasPosibles, fase : {"tlb", "tabla"}]
  BY DEF TypeOK, Ninguna

LEMMA TiposIniciales == Init => TypeOK
  <1> SUFFICES ASSUME Init PROVE TypeOK
    OBVIOUS
  <1>1. procesos \in Seq(Registro) /\ Len(procesos) = 0
    BY EmptySeq DEF Init
  <1>2. Len(procesos) <= MaxProcesos
    BY <1>1, CantidadesNaturales
  <1> QED BY <1>1, <1>2 DEF Init, TypeOK

LEMMA TiposPaso == TypeOK /\ [Next]_vars => TypeOK'
  <1> SUFFICES ASSUME TypeOK, [Next]_vars PROVE TypeOK'
    OBVIOUS
  <1> DEFINE Resto == /\ consulta' \in [pid : PidsPosibles, pag : PaginasPosibles, fase : {"tlb", "tabla"}]
                                      \cup {Ninguna}
                      /\ respuestas' \subseteq Respondibles
                      /\ danio' \in BOOLEAN
                      /\ fin' \in {"no", "nulo", "roto"}
             Lista == procesos' \in Seq(Registro) /\ Len(procesos') <= MaxProcesos
  <1> SUFFICES Resto /\ Lista
    BY DEF TypeOK, Respondibles
  <1>r. respuestas \subseteq Respondibles
    BY DEF TypeOK, Respondibles
  <1>v. {Verdadero, PROCESO_NO_MEMO, PAGINA_NO_TP} \subseteq Respondibles
    BY DEF Respondibles
  <1>0. Len(procesos) \in Nat
    BY LenProperties DEF TypeOK
  <1>1. ASSUME NEW pid \in Pids, Registra(pid) PROVE Resto /\ Lista
    <2>1. PICK p \in PidInicial(pid) : Crece(<<Proceso(p, 31)>>)
      BY <1>1, RegistraCrece
    <2> DEFINE nuevos == <<Proceso(p, 31)>>
    <2>3. Len(nuevos) = 1
      OBVIOUS
    <2> HIDE DEF nuevos
    <2>2. procesos' \in Seq(Registro) /\ Len(procesos') = Len(procesos) + 1
      BY <2>1, <2>3, CreceMedidas DEF TypeOK, nuevos
    <2> QED BY <1>0, <1>r, <1>1, <2>2, CantidadesNaturales DEF Registra, TypeOK
  <1>2. CASE Prueba
    <2>1. PICK p \in PidInicial(1), q \in PidInicial(2) : Crece(<<Proceso(p, 30), Proceso(q, 30)>>)
      BY <1>2, PruebaCrece
    <2> DEFINE nuevos == <<Proceso(p, 30), Proceso(q, 30)>>
    <2>3. Len(nuevos) = 2
      OBVIOUS
    <2> HIDE DEF nuevos
    <2>2. procesos' \in Seq(Registro) /\ Len(procesos') = Len(procesos) + 2
      BY <2>1, <2>3, CreceMedidas DEF TypeOK, nuevos
    <2> QED BY <1>0, <1>r, <1>2, <2>2, CantidadesNaturales DEF Prueba, TypeOK
  <1>3. ASSUME NEW pid \in PidsPosibles, NEW pag \in PaginasPosibles, Consulta(pid, pag)
        PROVE Resto /\ Lista
    BY <1>r, <1>3 DEF Consulta, TypeOK
  <1>4. CASE BuscaTlb
    BY <1>r, <1>4, ATablaTipo DEF BuscaTlb, TypeOK
  <1>5. CASE CuentaTlb
    <2> DEFINE esta == PaginaEnTlb(consulta.pid, consulta.pag)
    <2>1. PICK i \in DOMAIN procesos :
            /\ Suma(i, esta) /\ danio' = (danio \/ procesos[i].libre)
            /\ IF esta THEN Responde(Verdadero)
               ELSE consulta' = [consulta EXCEPT !.fase = "tabla"] /\ UNCHANGED respuestas
      BY <1>5 DEF CuentaTlb
    <2>2. esta \in BOOLEAN
      BY DEF PaginaEnTlb
    <2>3. Suelta(i)
      BY <2>1, <2>2, SumaSuelta DEF TypeOK
    <2>4. consulta.fase = "tlb" /\ fin' = fin
      BY <1>5 DEF CuentaTlb
    <2>5. Lista
      BY <2>3 DEF Suelta, TypeOK
    <2> DEFINE Charla ==
                 /\ consulta' \in [pid : PidsPosibles, pag : PaginasPosibles, fase : {"tlb", "tabla"}]
                                 \cup {Ninguna}
                 /\ respuestas' \subseteq Respondibles
    <2>6. ASSUME esta PROVE Charla
      <3>1. Responde(Verdadero)
        BY <2>1, <2>6
      <3> QED BY <1>v, <3>1, RespuestaTipo
    <2>7. ASSUME ~esta PROVE Charla
      <3>1. consulta' = [consulta EXCEPT !.fase = "tabla"] /\ UNCHANGED respuestas
        BY <2>1, <2>7
      <3> QED BY <1>r, <3>1, <2>4, ATablaTipo DEF TypeOK
    <2>8. danio' \in BOOLEAN
      BY <2>1
    <2>9. Charla
      <3> HIDE DEF Charla, esta
      <3> QED BY <2>6, <2>7
    <2> QED BY <2>4, <2>5, <2>8, <2>9 DEF TypeOK
  <1>6. CASE CuentaNadie
    BY <1>r, <1>6 DEF CuentaNadie, Nulo, TypeOK
  <1>7. CASE SinProceso
    BY <1>v, <1>7, RespuestaTipo DEF SinProceso, TypeOK
  <1>8. CASE PaginaAusente
    <2>1. PICK i \in DOMAIN procesos : TrasBuscar(i)
      BY <1>8 DEF PaginaAusente
    <2>2. Suelta(i) /\ danio' = TRUE
      BY <2>1, TrasBuscarSuelta DEF TypeOK, TrasBuscar
    <2> QED BY <1>v, <1>8, <2>2, RespuestaTipo DEF PaginaAusente, Suelta, TypeOK
  <1>9. CASE PaginaFuera
    BY <1>r, <1>9 DEF PaginaFuera, Nulo, TypeOK
  <1>10. CASE Aborta
    BY <1>r, <1>10 DEF Aborta, TypeOK
  <1>11. CASE UNCHANGED vars
    BY <1>r, <1>11 DEF vars, TypeOK
  <1>12. CASE PaginaPresente
    <2>1. CASE Nulo
      BY <1>r, <2>1 DEF Nulo, TypeOK
    <2>2. CASE ~Nulo
      <3>1. PICK i \in DOMAIN procesos : Suelta(i)
        BY <1>12, <2>2, PresenteSuelta
      <3>2. PICK r \in Respondibles : Responde(r)
        BY <1>12, <2>2, PresenteSuelta
      <3>3. danio' = TRUE /\ fin' = fin
        BY <1>12, <2>2, PresenteSuelta
      <3> QED BY <3>1, <3>2, <3>3, RespuestaTipo DEF Suelta, TypeOK
    <2> QED BY <2>1, <2>2
  <1> QED BY <1>1, <1>2, <1>3, <1>4, <1>5, <1>6, <1>7, <1>8, <1>9, <1>10, <1>11, <1>12 DEF Next

(* Whatever is registered and looked up, the records are well formed and   *)
(* every look-up in progress has a pid and a page.                         *)
THEOREM TiposPaginas == Spec => []TypeOK
  BY TiposIniciales, TiposPaso, PTL DEF Spec

-----------------------------------------------------------------------------
(* The six things a step may do to lista_procesos.                         *)
LEMMA ListaPaso ==
    ASSUME TypeOK, [Next]_vars
    PROVE  \/ \E pid \in Pids : Registra(pid)
           \/ Prueba
           \/ /\ CuentaTlb /\ consulta.pid = -1
              /\ \E i \in DOMAIN procesos : Halla(-1, i) /\ Suelta(i)
           \/ PaginaAusente /\ \E i \in DOMAIN procesos : Suelta(i)
           \/ /\ Colgantes # {} /\ respuestas \subseteq respuestas'
              /\ \E i \in DOMAIN procesos : Suelta(i)
           \/ /\ UNCHANGED procesos
              /\ ~CuentaTlb /\ ~PaginaAusente
              /\ respuestas' \subseteq respuestas \cup {PROCESO_NO_MEMO}
              /\ respuestas \subseteq respuestas'
  <1>1. CASE CuentaTlb
    <2>1. consulta.pid = -1
      BY <1>1, EnTlbMenosUno DEF CuentaTlb
    <2>2. PICK i \in DOMAIN procesos :
            Halla(consulta.pid, i) /\ Suma(i, PaginaEnTlb(consulta.pid, consulta.pag))
      BY <1>1 DEF CuentaTlb
    <2>3. PaginaEnTlb(consulta.pid, consulta.pag) \in BOOLEAN
      BY DEF PaginaEnTlb
    <2>4. Suelta(i)
      BY <2>2, <2>3, SumaSuelta DEF TypeOK
    <2> QED BY <1>1, <2>1, <2>2, <2>4
  <1>2. CASE PaginaAusente
    <2>1. PICK i \in DOMAIN procesos : TrasBuscar(i)
      BY <1>2 DEF PaginaAusente
    <2>2. Suelta(i)
      BY <2>1, TrasBuscarSuelta DEF TypeOK
    <2> QED BY <1>2, <2>2
  <1>7. CASE PaginaPresente /\ ~Nulo
    <2>1. Colgantes # {} /\ \E i \in DOMAIN procesos : Suelta(i)
      BY <1>7, PresenteSuelta
    <2>2. respuestas \subseteq respuestas'
      BY <1>7, PresenteSuelta DEF Responde
    <2> QED BY <2>1, <2>2
  <1>3. CASE ~CuentaTlb /\ ~PaginaAusente /\ UNCHANGED <<procesos, respuestas>>
    BY <1>3
  <1>4. CASE ~CuentaTlb /\ ~PaginaAusente /\ SinProceso
    BY <1>4 DEF SinProceso, Responde
  <1>5. ASSUME NEW pid \in PidsPosibles, NEW pag \in PaginasPosibles, Consulta(pid, pag)
        PROVE UNCHANGED <<procesos, respuestas>>
    BY <1>5 DEF Consulta
  <1>6. BuscaTlb \/ CuentaNadie \/ PaginaFuera \/ Nulo \/ Aborta \/ UNCHANGED vars
        => UNCHANGED <<procesos, respuestas>>
    BY DEF BuscaTlb, CuentaNadie, PaginaFuera, Aborta, Nulo, vars
  <1> QED BY <1>1, <1>2, <1>3, <1>4, <1>5, <1>6, <1>7 DEF Next

(* Registering frees nothing and renames nobody.                           *)
LEMMA CreceCuelga ==
    ASSUME procesos \in Seq(Registro), NEW nuevos, Crece(nuevos)
    PROVE  /\ Colgantes' = Colgantes
           /\ ContadoresIniciales => ContadoresIniciales'
           /\ (\E i \in DOMAIN procesos : procesos[i].pid = -1)
                 => \E i \in DOMAIN procesos' : procesos'[i].pid = -1
  <1>1. /\ DOMAIN procesos \subseteq DOMAIN procesos'
        /\ \A i \in DOMAIN procesos : procesos'[i] = procesos[i]
        /\ \A i \in DOMAIN procesos' \ DOMAIN procesos :
              /\ ~procesos'[i].libre
              /\ procesos'[i].hit = 25 /\ procesos'[i].miss \in {30, 31}
    <2>1. DOMAIN procesos \subseteq DOMAIN procesos'
      <3>1. Len(procesos) \in Nat /\ Len(nuevos) \in Nat
        BY LenProperties DEF Crece
      <3> QED BY <3>1, CreceMedidas
    <2> QED BY <2>1, CreceMedidas DEF Crece
  <1> QED BY <1>1 DEF Colgantes, ContadoresIniciales

LEMMA SueltaCuelga ==
    ASSUME NEW i \in DOMAIN procesos, Suelta(i)
    PROVE  /\ Colgantes' = Colgantes \cup {i}
           /\ ContadoresIniciales => ContadoresIniciales'
           /\ (\E j \in DOMAIN procesos : procesos[j].pid = -1)
                 => \E j \in DOMAIN procesos' : procesos'[j].pid = -1
  BY DEF Suelta, Colgantes, ContadoresIniciales

LEMMA ContadoresPaso == TypeOK /\ ContadoresIniciales /\ [Next]_vars => ContadoresIniciales'
  <1> SUFFICES ASSUME TypeOK, ContadoresIniciales, [Next]_vars PROVE ContadoresIniciales'
    OBVIOUS
  <1>1. ASSUME NEW pid \in Pids, Registra(pid) PROVE ContadoresIniciales'
    BY <1>1, RegistraCrece, CreceCuelga DEF TypeOK
  <1>2. CASE Prueba
    BY <1>2, PruebaCrece, CreceCuelga DEF TypeOK
  <1>3. CASE \E i \in DOMAIN procesos : Suelta(i)
    BY <1>3, SueltaCuelga
  <1>4. CASE UNCHANGED procesos
    BY <1>4 DEF ContadoresIniciales, Colgantes
  <1> QED BY <1>1, <1>2, <1>3, <1>4, ListaPaso

(* However many look-ups are counted, metricas adds up the hits and misses *)
(* the records were born with, or reads freed memory.                      *)
THEOREM ContadoresDeNacimiento == Spec => []ContadoresIniciales
  <1>1. Init => ContadoresIniciales
    BY DEF Init, ContadoresIniciales
  <1> QED BY <1>1, ContadoresPaso, TiposPaginas, PTL DEF Spec

(* When a look-up meets NULL it changes nothing else.                      *)
LEMMA NuloPaso == NuloPorLimite /\ [Next]_vars => NuloPorLimite'
  <1> SUFFICES ASSUME NuloPorLimite, [Next]_vars, fin' = "nulo", Colgantes' = {}
               PROVE  NuloPorLimite'
    BY DEF NuloPorLimite
  <1>1. CASE CuentaNadie
    <2>1. UNCHANGED <<procesos, consulta>> /\ NoHalla(consulta.pid) /\ consulta.pid = -1
      BY <1>1, EnTlbMenosUno DEF CuentaNadie, Nulo
    <2>2. Colgantes = {}
      BY <2>1 DEF Colgantes
    <2> QED BY <2>1, <2>2 DEF NuloPorLimite, NoHalla, PuedeNo, Colgantes
  <1>2. CASE PaginaFuera
    <2>1. UNCHANGED <<procesos, consulta>>
      BY <1>2 DEF PaginaFuera, Nulo
    <2>2. Colgantes = {}
      BY <2>1 DEF Colgantes
    <2>3. consulta.pag \notin DOMAIN Tabla
      BY <1>2, <2>2 DEF PaginaFuera, Colgantes
    <2> QED BY <2>1, <2>3 DEF NuloPorLimite, Tabla
  <1>3. CASE UNCHANGED vars
    BY <1>3 DEF vars, NuloPorLimite, Colgantes
  <1>4. ASSUME NEW pid \in Pids, Registra(pid) PROVE FALSE
    BY <1>4 DEF Registra, Quieto
  <1>5. ASSUME NEW pid \in PidsPosibles, NEW pag \in PaginasPosibles, Consulta(pid, pag) PROVE FALSE
    BY <1>5 DEF Consulta, Quieto
  <1>7. CASE PaginaPresente
    <2>1. Colgantes # {}
      BY <1>7 DEF PaginaPresente, Colgantes
    <2>2. fin = "no" /\ (Nulo => Colgantes' = Colgantes)
      BY <1>7 DEF PaginaPresente, Nulo, Colgantes
    <2>3. ~Nulo => fin' = fin
      BY <1>7 DEF PaginaPresente
    <2> QED BY <2>1, <2>2, <2>3
  <1>6. ~Prueba /\ ~BuscaTlb /\ ~CuentaTlb /\ ~SinProceso /\ ~PaginaAusente /\ ~Aborta
    BY DEF Prueba, Quieto, BuscaTlb, CuentaTlb, SinProceso, PaginaAusente, Aborta
  <1> QED BY <1>1, <1>2, <1>3, <1>4, <1>5, <1>6, <1>7 DEF Next

LEMMA HallarPaso == TypeOK /\ HallarCuelga /\ [Next]_vars => HallarCuelga'
  <1> DEFINE Hallado ==
               /\ Colgantes = {} => respuestas \subseteq {PROCESO_NO_MEMO}
               /\ Colgantes # {} => \/ ~(respuestas \subseteq {PROCESO_NO_MEMO})
                                    \/ \E i \in DOMAIN procesos : procesos[i].pid = -1
  <1> SUFFICES ASSUME TypeOK, Hallado, NuloPorLimite, [Next]_vars PROVE Hallado'
    BY NuloPaso DEF HallarCuelga
  <1>1. ASSUME NEW pid \in Pids, Registra(pid) PROVE Hallado'
    <2>1. UNCHANGED respuestas
      BY <1>1 DEF Registra
    <2> QED BY <1>1, <2>1, RegistraCrece, CreceCuelga DEF TypeOK
  <1>2. CASE Prueba
    <2>1. UNCHANGED respuestas
      BY <1>2 DEF Prueba
    <2> QED BY <1>2, <2>1, PruebaCrece, CreceCuelga DEF TypeOK
  <1>3. CASE /\ CuentaTlb /\ consulta.pid = -1
             /\ \E i \in DOMAIN procesos : Halla(-1, i) /\ Suelta(i)
    <2>1. PICK i \in DOMAIN procesos : Halla(-1, i) /\ Suelta(i)
      BY <1>3
    <2>2. respuestas \subseteq respuestas'
      BY <1>3 DEF CuentaTlb, Responde
    <2>3. i \in Colgantes \/ procesos[i].pid = -1
      BY <2>1 DEF Halla, Puede, Colgantes
    <2> QED BY <2>1, <2>2, <2>3, SueltaCuelga
  <1>4. CASE PaginaAusente /\ \E i \in DOMAIN procesos : Suelta(i)
    <2>1. PAGINA_NO_TP \in respuestas'
      BY <1>4 DEF PaginaAusente, Responde
    <2>2. Colgantes' # {}
      BY <1>4, SueltaCuelga
    <2> QED BY <2>1, <2>2 DEF PAGINA_NO_TP, PROCESO_NO_MEMO
  <1>5. CASE /\ UNCHANGED procesos
             /\ respuestas' \subseteq respuestas \cup {PROCESO_NO_MEMO}
             /\ respuestas \subseteq respuestas'
    <2>1. Colgantes' = Colgantes
      BY <1>5 DEF Colgantes
    <2> QED BY <1>5, <2>1
  <1>6. CASE /\ Colgantes # {} /\ respuestas \subseteq respuestas'
             /\ \E i \in DOMAIN procesos : Suelta(i)
    BY <1>6, SueltaCuelga
  <1> QED BY <1>1, <1>2, <1>3, <1>4, <1>5, <1>6, ListaPaso

(* Looking up a process that Memoria knows leaves a freed record in        *)
(* lista_procesos, or ends Memoria; nothing else does.                     *)
THEOREM HallarSiempreCuelga == Spec => []HallarCuelga
  <1>1. Init => HallarCuelga
    BY DEF Init, HallarCuelga, NuloPorLimite, Colgantes
  <1> QED BY <1>1, HallarPaso, TiposPaginas, PTL DEF Spec

-----------------------------------------------------------------------------
(* New records with new pids, or with the pid -1, keep the list distinct.  *)
LEMMA CreceDistintos ==
    ASSUME procesos \in Seq(Registro), NEW nuevos, Crece(nuevos),
           Colgantes = {}, RegistrosDistintos,
           \A n \in DOMAIN nuevos : nuevos[n].pid = -1 \/
                \A i \in DOMAIN procesos : procesos[i].pid # nuevos[n].pid,
           \A m, n \in DOMAIN nuevos : nuevos[m].pid = nuevos[n].pid /\ m # n => nuevos[m].pid = -1
    PROVE  RegistrosDistintos'
  <1>1. SUFFICES ASSUME NEW i \in DOMAIN procesos', NEW j \in DOMAIN procesos',
                        procesos'[i].pid = procesos'[j].pid, i # j, procesos'[i].pid # -1
                 PROVE  FALSE
    BY DEF RegistrosDistintos
  <1>2. /\ Len(procesos) \in Nat /\ DOMAIN procesos' = 1 .. Len(procesos) + Len(nuevos)
        /\ Len(nuevos) \in Nat
    BY LenProperties, CreceMedidas DEF Crece
  <1>3. \A n \in DOMAIN procesos' : n \in DOMAIN procesos => procesos'[n] = procesos[n]
    BY CreceMedidas
  <1>4. \A n \in DOMAIN procesos' : n \notin DOMAIN procesos =>
           n - Len(procesos) \in DOMAIN nuevos /\ procesos'[n] = nuevos[n - Len(procesos)]
    BY CreceMedidas
  <1>5. CASE i \in DOMAIN procesos /\ j \in DOMAIN procesos
    BY <1>1, <1>3, <1>5 DEF RegistrosDistintos
  <1>6. CASE i \in DOMAIN procesos /\ j \notin DOMAIN procesos
    BY <1>1, <1>3, <1>4, <1>6
  <1>7. CASE i \notin DOMAIN procesos /\ j \in DOMAIN procesos
    BY <1>1, <1>3, <1>4, <1>7
  <1>8. CASE i \notin DOMAIN procesos /\ j \notin DOMAIN procesos
    <2>1. i - Len(procesos) # j - Len(procesos)
      BY <1>1, <1>2
    <2> QED BY <1>1, <1>4, <1>8, <2>1
  <1> QED BY <1>5, <1>6, <1>7, <1>8

(* inicializar_proceso gives the pid asked for only when nobody has it.    *)
LEMMA PidInicialNuevo ==
    ASSUME NEW pid, NEW p \in PidInicial(pid), Colgantes = {}
    PROVE  p = -1 \/ (p = pid /\ \A i \in DOMAIN procesos : procesos[i].pid # p)
  BY DEF PidInicial, NoHalla, PuedeNo, Colgantes

LEMMA DistintosPaso == TypeOK /\ RegistrosDistintos /\ [Next]_vars => RegistrosDistintos'
  <1> SUFFICES ASSUME TypeOK, RegistrosDistintos, [Next]_vars, Colgantes' = {}
               PROVE  RegistrosDistintos'
    BY DEF RegistrosDistintos
  <1>1. ASSUME NEW pid \in Pids, Registra(pid) PROVE RegistrosDistintos'
    <2>1. PICK p \in PidInicial(pid) : Crece(<<Proceso(p, 31)>>)
      BY <1>1, RegistraCrece
    <2>2. Colgantes = {}
      BY <2>1, CreceCuelga DEF TypeOK
    <2> DEFINE nuevos == <<Proceso(p, 31)>>
    <2>3. \A n \in DOMAIN nuevos : n = 1 /\ nuevos[n].pid = p
      BY DEF Proceso
    <2>4. p = -1 \/ \A i \in DOMAIN procesos : procesos[i].pid # p
      BY <2>2, PidInicialNuevo
    <2> HIDE DEF nuevos
    <2>5. Crece(nuevos)
      BY <2>1 DEF nuevos
    <2> QED BY <2>2, <2>3, <2>4, <2>5, CreceDistintos DEF TypeOK
  <1>2. CASE Prueba
    <2>1. PICK p \in PidInicial(1), q \in PidInicial(2) : Crece(<<Proceso(p, 30), Proceso(q, 30)>>)
      BY <1>2, PruebaCrece
    <2>2. Colgantes = {}
      BY <2>1, CreceCuelga DEF TypeOK
    <2> DEFINE nuevos == <<Proceso(p, 30), Proceso(q, 30)>>
    <2>3. DOMAIN nuevos = {1, 2} /\ nuevos[1].pid = p /\ nuevos[2].pid = q
      BY DEF Proceso
    <2>4. /\ p = -1 \/ (p = 1 /\ \A i \in DOMAIN procesos : procesos[i].pid # p)
          /\ q = -1 \/ (q = 2 /\ \A i \in DOMAIN procesos : procesos[i].pid # q)
      BY <2>2, PidInicialNuevo
    <2> HIDE DEF nuevos
    <2>5. Crece(nuevos)
      BY <2>1 DEF nuevos
    <2>6. p = q => p = -1
      BY <2>4
    <2> QED BY <2>2, <2>3, <2>4, <2>5, <2>6, CreceDistintos DEF TypeOK
  <1>3. CASE \E i \in DOMAIN procesos : Suelta(i)
    BY <1>3, SueltaCuelga
  <1>4. CASE UNCHANGED procesos
    BY <1>4 DEF RegistrosDistintos, Colgantes
  <1> QED BY <1>1, <1>2, <1>3, <1>4, ListaPaso

(* While no record was freed, mem_alloc and prueba together never give two *)
(* records one pid other than -1.                                          *)
THEOREM PidsDistintos == Spec => []RegistrosDistintos
  <1>1. Init => RegistrosDistintos
    BY DEF Init, RegistrosDistintos
  <1> QED BY <1>1, DistintosPaso, TiposPaginas, PTL DEF Spec

-----------------------------------------------------------------------------
(* However few entries the TLB has, looking up the process -1 frees a      *)
(* record or ends Memoria.                                                 *)
THEOREM MenosUnoCuenta == Spec => MenosUnoSiempreCuenta
  <1> DEFINE Cuenta == consulta.fase = "tlb" /\ consulta.pid = -1 => fin' # "no" \/ Colgantes' # {}
  <1>1. TypeOK /\ [Next]_vars => [Cuenta]_vars
    <2> SUFFICES ASSUME TypeOK, Next, consulta.fase = "tlb", consulta.pid = -1
                 PROVE  fin' # "no" \/ Colgantes' # {}
      OBVIOUS
    <2>1. consulta # Ninguna /\ EnTlb(consulta.pid)
      BY EnTlbMenosUno DEF Ninguna
    <2>2. CASE CuentaTlb
      <3>1. PICK i \in DOMAIN procesos : Suelta(i)
        BY <2>2, ListaPaso DEF Registra, Prueba, Quieto, Ninguna, PaginaAusente
      <3> QED BY <3>1, SueltaCuelga
    <2>3. CuentaNadie \/ PaginaFuera \/ Aborta => fin' # "no"
      BY DEF CuentaNadie, PaginaFuera, Aborta, Nulo
    <2>4. ~BuscaTlb /\ ~SinProceso /\ ~PaginaAusente /\ ~PaginaPresente /\ ~Prueba
      BY <2>1 DEF BuscaTlb, SinProceso, PaginaAusente, PaginaPresente, Prueba, Quieto
    <2>5. ASSUME NEW pid \in Pids, Registra(pid) PROVE FALSE
      BY <2>1, <2>5 DEF Registra, Quieto
    <2>6. ASSUME NEW pid \in PidsPosibles, NEW pag \in PaginasPosibles, Consulta(pid, pag) PROVE FALSE
      BY <2>1, <2>6 DEF Consulta, Quieto
    <2> QED BY <2>2, <2>3, <2>4, <2>5, <2>6 DEF Next
  <1> QED BY <1>1, TiposPaginas, PTL DEF Spec, MenosUnoSiempreCuenta

-----------------------------------------------------------------------------
(* The arithmetic of logical addresses.                                    *)

(* What it computes, without the wrap: an allocation whose predecessor is  *)
(* in the first nine bytes has a negative address.                         *)
LEMMA DireccionPorTramos ==
    ASSUME NEW prev \in UInt32
    PROVE  CalcularDireccionLogica(prev) =
             IF prev = SinPrevio THEN 25
             ELSE IF prev < Medio + 9 THEN prev - 9 ELSE prev - 9 - Modulo
  <1>1. CASE prev = SinPrevio
    BY <1>1 DEF CalcularDireccionLogica
  <1>2. CASE prev # SinPrevio /\ prev >= 9
    <2>1. (prev - 9) % Modulo = prev - 9
      BY <1>2, MedioGrande DEF UInt32, Modulo
    <2> QED BY <1>2, <2>1, MedioGrande DEF CalcularDireccionLogica, ComoInt32, UInt32, Modulo
  <1>3. CASE prev # SinPrevio /\ prev < 9
    <2>1. (prev - 9) % Modulo = prev - 9 + Modulo
      BY <1>3, MedioGrande DEF UInt32, Modulo
    <2> QED BY <1>3, <2>1, MedioGrande DEF CalcularDireccionLogica, ComoInt32, UInt32, Modulo, SinPrevio
  <1> QED BY <1>1, <1>2, <1>3, MedioGrande DEF UInt32

(* calcular_direccion_logica answers in the range of its int32_t.          *)
LEMMA DireccionEnRango ==
    ASSUME NEW prev \in UInt32
    PROVE  CalcularDireccionLogica(prev) \in Int32
  BY DireccionPorTramos, MedioGrande DEF UInt32, Int32, SinPrevio, Modulo

(* Two allocations get one address only if one of them is the first of all *)
(* and the predecessor of the other is at 34: nothing keeps the constant   *)
(* 25 out of the computed addresses.                                       *)
THEOREM DireccionesDistintas ==
    ASSUME NEW p \in UInt32, NEW q \in UInt32, p # q,
           CalcularDireccionLogica(p) = CalcularDireccionLogica(q)
    PROVE  {p, q} = {34, SinPrevio}
  <1>1. p = SinPrevio => q = 34
    BY DireccionPorTramos, MedioGrande DEF UInt32, SinPrevio, Modulo
  <1>2. q = SinPrevio => p = 34
    BY DireccionPorTramos, MedioGrande DEF UInt32, SinPrevio, Modulo
  <1>3. p = SinPrevio \/ q = SinPrevio
    BY DireccionPorTramos, MedioGrande DEF UInt32, SinPrevio, Modulo
  <1> QED BY <1>1, <1>2, <1>3

(* obtener_pag_dir_logica and obtener_offset_dir_logica take any address   *)
(* apart and lose nothing of it, and the offset is inside a page.          *)
THEOREM DireccionReconstruida ==
    ASSUME NEW dir \in Int
    PROVE  /\ dir = ObtenerPagDirLogica(dir) * TamPagina + ObtenerOffsetDirLogica(dir)
           /\ ObtenerOffsetDirLogica(dir) \in 1 - TamPagina .. TamPagina - 1
  <1>1. \A n \in Nat : n = (n \div TamPagina) * TamPagina + (n % TamPagina)
    BY TamPaginaPositivo
  <1>2. \A n \in Nat : n % TamPagina \in 0 .. TamPagina - 1
    BY TamPaginaPositivo
  <1>3. CASE dir >= 0
    BY <1>1, <1>2, <1>3, TamPaginaPositivo DEF ObtenerPagDirLogica, ObtenerOffsetDirLogica
  <1>4. CASE dir < 0
    <2> DEFINE n == -dir
    <2>1. n \in Nat /\ n = (n \div TamPagina) * TamPagina + (n % TamPagina)
      BY <1>1, <1>4
    <2>2. /\ ObtenerPagDirLogica(dir) = -(n \div TamPagina)
          /\ ObtenerOffsetDirLogica(dir) = -(n % TamPagina)
      BY <1>4 DEF ObtenerPagDirLogica, ObtenerOffsetDirLogica
    <2>3. n \div TamPagina \in Int /\ n % TamPagina \in 0 .. TamPagina - 1
      BY <2>1, <1>2, TamPaginaPositivo
    <2>4. (-(n \div TamPagina)) * TamPagina = -((n \div TamPagina) * TamPagina)
      BY <2>3, TamPaginaPositivo
    <2> QED BY <2>1, <2>2, <2>3, <2>4, TamPaginaPositivo
  <1> QED BY <1>3, <1>4

(* The answer of primer_alloc when there is no room, -3, is an address of  *)
(* page 0 like the first real one, unless pages are tiny: the page alone   *)
(* does not tell a refusal from an allocation.                             *)
THEOREM RechazoEnPaginaCero ==
    ASSUME TamPagina > 25
    PROVE  /\ ObtenerPagDirLogica(-3) = 0
           /\ ObtenerPagDirLogica(CalcularDireccionLogica(SinPrevio)) = 0
  <1>1. 3 \div TamPagina = 0 /\ 25 \div TamPagina = 0
    BY TamPaginaPositivo
  <1> QED BY <1>1, TamPaginaPositivo DEF ObtenerPagDirLogica, CalcularDireccionLogica
=============================================================================
