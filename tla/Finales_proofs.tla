---------------------------- MODULE Finales_proofs ----------------------------
(***************************************************************************)
(* The properties of Finales for every number of carpinchos registered.    *)
(***************************************************************************)
EXTENDS Finales, TLAPS

(* The lists that main and the ends walk.                                  *)
LEMMA Largos ==
    /\ Len(Crea["memoria"]) = 5 /\ Len(Crea["swap"]) = 3 /\ Len(Crea["kernel"]) = 3
    /\ Len(Hilos["memoria"]) = 2 /\ Len(Hilos["swap"]) = 1 /\ Hilos["kernel"] = <<>>
    /\ Hilos["memoria"] # <<>> /\ Hilos["swap"] # <<>>
    /\ Hilos["memoria"][1] = "conectarSwap" /\ Hilos["memoria"][2] # "conectarSwap"
    /\ Hilos["swap"][1] # "conectarSwap"
    /\ Len(Libera["memoria"]) = 6 /\ Len(Libera["swap"]) = 4 /\ Len(Libera["kernel"]) = 3
  BY DEF Crea, Hilos, Libera

Tabla == "tabla_de_marcos_fija"
Toca(p, i) == Libera[p][i].usa \cup Libera[p][i].libera

LEMMA PasosDeMemoria ==
    /\ Toca("memoria", 1) = {"config", "frames_memoria"} /\ Libera["memoria"][1].libera = {"frames_memoria"}
    /\ Toca("memoria", 2) = {"logger", "lista_procesos"} /\ Libera["memoria"][2].libera = {"lista_procesos"}
    /\ Toca("memoria", 3) = {"logger", "lista_tlb"} /\ Libera["memoria"][3].libera = {"lista_tlb"}
    /\ Toca("memoria", 4) = {"logger"} /\ Libera["memoria"][4].libera = {"logger"}
    /\ Toca("memoria", 5) = {"config"} /\ Libera["memoria"][5].libera = {"config"}
    /\ Toca("memoria", 6) = {"config_file"} /\ Libera["memoria"][6].libera = {"config_file"}
  BY DEF Libera, Paso, Toca

LEMMA PasosDeSwap ==
    /\ Toca("swap", 1) = {Tabla} /\ Libera["swap"][1].libera = {Tabla}
    /\ Toca("swap", 2) = {"config"} /\ Libera["swap"][2].libera = {"config"}
    /\ Toca("swap", 3) = {"config_file"} /\ Libera["swap"][3].libera = {"config_file"}
    /\ Toca("swap", 4) = {"logger"} /\ Libera["swap"][4].libera = {"logger"}
  BY DEF Libera, Paso, Toca, FinTabla, Tabla

LEMMA PasosDeKernel ==
    /\ Toca("kernel", 1) = {"logger"} /\ Libera["kernel"][1].libera = {"logger"}
    /\ Toca("kernel", 2) = {"colas"} /\ Libera["kernel"][2].libera = {"colas"}
    /\ Toca("kernel", 3) = {"config"} /\ Libera["kernel"][3].libera = {"config"}
  BY DEF Libera, Paso, Toca

(* A step of the end touches structures of the program, apart from the     *)
(* elements of the table.                                                  *)
LEMMA TocaEstructuras ==
    ASSUME NEW p \in Programas, NEW i \in 1 .. Len(Libera[p])
    PROVE  /\ Toca(p, i) \subseteq Estructuras \ {"entradas"}
           /\ Libera[p][i].libera \subseteq Toca(p, i)
  <1>1. CASE p = "memoria"
    <2>1. i \in {1, 2, 3, 4, 5, 6}
      BY <1>1, Largos
    <2> QED BY <1>1, <2>1, PasosDeMemoria DEF Estructuras
  <1>2. CASE p = "swap"
    <2>1. i \in {1, 2, 3, 4}
      BY <1>2, Largos
    <2> QED BY <1>2, <2>1, PasosDeSwap DEF Estructuras, Tabla
  <1>3. CASE p = "kernel"
    <2>1. i \in {1, 2, 3}
      BY <1>3, Largos
    <2> QED BY <1>3, <2>1, PasosDeKernel DEF Estructuras
  <1> QED BY <1>1, <1>2, <1>3 DEF Programas

-----------------------------------------------------------------------------
(* Where main, the server and the handlers can be together.                *)
Atiende == servidor \notin {"no", "salio"}

InvFases ==
    /\ principal.fase = "crea" => principal.i <= Len(Crea[prog]) /\ servidor = "no"
    /\ principal.fase \in {"lanza", "une"} => principal.i <= Len(Hilos[prog])
    /\ Atiende => principal.fase = "une"
    /\ principal.fase = "libera" => principal.i <= Len(Libera[prog])
    /\ servidor \in {"conversa", "busca", "crea", "agrega"} => prog = "memoria"
    /\ servidor = "pedidos" => prog = "swap"
    /\ servidor # "no" => prog # "kernel"
    /\ servidor \in {"crea", "agrega"} => procesos < MaxProcesos

(* Where a handler is in the end, and how far in the list.                 *)
InvManejador(h) ==
    /\ manejador[h].fase = "libera" => manejador[h].i <= Len(Libera[prog])
    /\ manejador[h].fase # "libera" => manejador[h].i = 1
    /\ recorrido[h].leido # SinLeer =>
          manejador[h].fase \in {"miss", "hit"} /\ recorrido[h].van < recorrido[h].visto
    /\ recorrido[h].van <= recorrido[h].visto /\ recorrido[h].visto <= procesos
TypeInv == TypeOK /\ InvFases /\ \A h \in Hebras : InvManejador(h)

Recorridos == [van : 0 .. MaxProcesos, visto : 0 .. MaxProcesos, leido : Nat \cup {SinLeer, Basura}]
Senales == [fase : FasesPrincipal \cup FasesServidor, alloc : BOOLEAN, registrados : 0 .. MaxProcesos]
Manejadores == [fase : FasesManejador, i : 1 .. 6]

(* The part of the state of each handler.                                  *)
LEMMA TiposDe ==
    ASSUME TypeOK, NEW h \in Hebras
    PROVE  /\ manejador[h] \in Manejadores /\ senal[h] \in Senales /\ recorrido[h] \in Recorridos
           /\ manejador \in [Hebras -> Manejadores] /\ senal \in [Hebras -> Senales]
           /\ recorrido \in [Hebras -> Recorridos]
           /\ Manejador(h) \in Flujos
  BY DEF TypeOK, Manejadores, Senales, Recorridos, Manejador, Flujos

LEMMA InicioTipo ==
    ASSUME NEW n \in 0 .. MaxProcesos
    PROVE  /\ Inicio(n) \in Recorridos
           /\ Inicio(n).van = 0 /\ Inicio(n).visto = n /\ Inicio(n).leido = SinLeer
  <1>1. 0 \in 0 .. MaxProcesos
    BY MaxProcesosNat
  <1> QED BY <1>1 DEF Inicio, Recorridos, SinLeer

LEMMA InitTipos == Init => TypeInv
  <1> SUFFICES ASSUME Init PROVE TypeInv
    OBVIOUS
  <1>1. Len(Crea[prog]) \in 1 .. 5
    BY Largos DEF Init, Programas
  <1>2. 1 <= Len(Crea[prog])
    BY <1>1
  <1>0. 0 \in 0 .. MaxProcesos
    BY MaxProcesosNat
  <1>r. Inicio(0) \in Recorridos /\ Inicio(0).van = 0 /\ Inicio(0).visto = 0 /\ Inicio(0).leido = SinLeer
    BY <1>0, InicioTipo
  <1>s. SinSenal \in Senales
    BY <1>0 DEF SinSenal, Senales, FasesServidor
  <1>3. TypeOK
    BY <1>0, <1>r, <1>s DEF Init, TypeOK, FasesPrincipal, FasesServidor, FasesManejador, Recorridos, Senales
  <1>4. InvFases
    BY <1>2 DEF Init, InvFases, Atiende
  <1>5. ASSUME NEW h \in Hebras PROVE InvManejador(h)
    BY <1>r DEF Init, InvManejador
  <1> QED BY <1>3, <1>4, <1>5 DEF TypeInv

LEMMA UsaTipos ==
    ASSUME TypeOK, NEW q \in Flujos, NEW es \in SUBSET Estructuras, Usa(q, es)
    PROVE  /\ danio' \subseteq [hilo : Flujos, que : Estructuras \cup {"repetido"}]
           /\ nulas' \subseteq [hilo : Flujos, que : Estructuras]
  BY DEF TypeOK, Usa, Tocadas

LEMMA TerminaTipos ==
    ASSUME TypeInv, NEW q \in Flujos, NEW i \in 1 .. Len(Libera[prog]), Termina(q, i)
    PROVE  /\ danio' \subseteq [hilo : Flujos, que : Estructuras \cup {"repetido"}]
           /\ nulas' \subseteq [hilo : Flujos, que : Estructuras]
           /\ vida' \in [Estructuras -> {"sin", "viva", "libre"}]
           /\ fin' \in {"no", "exit", "roto"}
  <1>1. Toca(prog, i) \subseteq Estructuras
    BY TocaEstructuras DEF TypeInv, TypeOK
  <1> QED BY <1>1 DEF Termina, Salida, Tocadas, Toca, TypeInv, TypeOK

(* The next step of a walk, or where it leads.                             *)
LEMMA AvanzaTipos ==
    ASSUME NEW S, NEW p \in [fase : S, i : 1 .. 6], NEW n, NEW luego
    PROVE  Avanza(p, n, luego) = IF p.i < n THEN [fase |-> p.fase, i |-> p.i + 1]
                                 ELSE [fase |-> luego, i |-> 1]
  BY DEF Avanza

LEMMA LargosTipos ==
    ASSUME NEW p \in Programas
    PROVE  \E nc \in 1 .. 5, nh \in 0 .. 2, nl \in 1 .. 6 :
              nc = Len(Crea[p]) /\ nh = Len(Hilos[p]) /\ nl = Len(Libera[p])
  BY Largos DEF Programas

LEMMA AlgoSuelta ==
    ASSUME NEW p \in Programas
    PROVE  1 <= Len(Libera[p])
  <1>1. CASE p = "memoria"
    BY <1>1, Largos
  <1>2. CASE p = "swap"
    BY <1>2, Largos
  <1>3. CASE p = "kernel"
    BY <1>3, Largos
  <1> QED BY <1>1, <1>2, <1>3 DEF Programas

LEMMA PrincipalTipos ==
    ASSUME TypeInv, PasoPrincipal
    PROVE  TypeInv'
  <1>1. UNCHANGED <<prog, manejador, senal, recorrido, asignacion, procesos, totales>> /\ prog \in Programas
    BY DEF PasoPrincipal, datos, TypeInv, TypeOK
  <1>m. \A h \in Hebras : InvManejador(h)'
    BY <1>1 DEF TypeInv, InvManejador
  <1> SUFFICES TypeOK' /\ InvFases'
    BY <1>m DEF TypeInv
  <1>i. InvFases /\ TypeOK
    BY DEF TypeInv
  <1> USE <1>i DEF FasesPrincipal, FasesServidor, Atiende
  <1>n. PICK nc \in 1 .. 5, nh \in 0 .. 2, nl \in 1 .. 6 :
           nc = Len(Crea[prog]) /\ nh = Len(Hilos[prog]) /\ nl = Len(Libera[prog])
    BY <1>1, LargosTipos
  <1>p. principal \in [fase : FasesPrincipal, i : 1 .. 6]
    BY DEF TypeOK
  <1>2. CASE PCrea
    <2> DEFINE luego == IF Hilos[prog] = <<>> THEN "libera" ELSE "lanza"
    <2>l. luego \in FasesPrincipal
      BY DEF FasesPrincipal
    <2>p. principal' = Avanza(principal, Len(Crea[prog]), luego) /\ principal.fase = "crea"
      BY <1>2 DEF PCrea
    <2>a. principal' = IF principal.i < Len(Crea[prog]) THEN [fase |-> "crea", i |-> principal.i + 1]
                       ELSE [fase |-> luego, i |-> 1]
      BY <1>p, <2>p, AvanzaTipos
    <2>1. principal.i \in 1 .. 6
      BY <1>p
    <2>2. CASE principal.i < Len(Crea[prog])
      <3>1. principal' = [fase |-> "crea", i |-> principal.i + 1]
        BY <2>2, <2>a
      <3>2. principal.i + 1 \in 1 .. nc
        BY <1>n, <2>1, <2>2
      <3>3. principal' \in [fase : FasesPrincipal, i : 1 .. 6]
        BY <3>1, <3>2 DEF FasesPrincipal
      <3>4. TypeOK'
        BY <1>1, <1>2, <3>3 DEF PCrea, TypeOK
      <3> QED BY <1>1, <1>n, <1>2, <3>1, <3>2, <3>4 DEF PCrea, InvFases, TypeOK
    <2>3. CASE ~(principal.i < Len(Crea[prog]))
      <3>1. principal' = [fase |-> luego, i |-> 1]
        BY <2>3, <2>a
      <3>2. principal' \in [fase : FasesPrincipal, i : 1 .. 6]
        BY <2>l, <3>1 DEF FasesPrincipal
      <3>3. luego = "lanza" => 1 <= nh
        BY <1>1, <1>n, Largos DEF Programas
      <3>4. TypeOK'
        BY <1>1, <1>2, <3>2 DEF PCrea, TypeOK
      <3>5. luego \in {"lanza", "libera"}
        OBVIOUS
      <3> HIDE DEF luego
      <3>6. 1 <= Len(Libera[prog])
        BY <1>1, AlgoSuelta
      <3>7. luego = "lanza" => 1 <= Len(Hilos[prog])
        BY <1>n, <3>3
      <3> QED BY <1>1, <1>2, <3>1, <3>4, <3>5, <3>6, <3>7 DEF PCrea, InvFases, TypeOK
    <2> QED BY <2>2, <2>3
  <1>3. CASE PLanza
    <2>h. principal.i \in 1 .. 6 /\ principal.i <= Len(Hilos[prog])
      BY <1>p, <1>3 DEF PLanza, InvFases
    <2>1. /\ principal' = [fase |-> "une", i |-> principal.i]
          /\ servidor' = IF Hilos[prog][principal.i] = "conectarSwap" THEN "conversa" ELSE "acepta"
          /\ principal.i \in 1 .. Len(Hilos[prog])
      <3>1. principal.i \in 1 .. Len(Hilos[prog])
        BY <1>n, <2>h
      <3> QED BY <1>p, <1>3, <3>1 DEF PLanza
    <2>2. prog # "kernel" /\ (servidor' = "conversa" => prog = "memoria")
      BY <1>1, <2>1, Largos DEF Programas
    <2>3. TypeOK'
      BY <1>1, <1>3, <2>1 DEF PLanza, TypeOK
    <2> QED BY <1>1, <1>3, <2>1, <2>2, <2>3 DEF PLanza, InvFases, TypeOK
  <1>4. CASE PUne
    <2>1. principal.i \in 1 .. 6 /\ servidor = "salio"
      BY <1>p, <1>4 DEF PUne, Espera
    <2>2. CASE principal.i < Len(Hilos[prog])
      <3>1. principal' = [fase |-> "lanza", i |-> principal.i + 1]
        BY <1>4, <2>2 DEF PUne
      <3>2. principal.i + 1 \in 1 .. nh
        BY <1>n, <2>1, <2>2
      <3>3. principal' \in [fase : FasesPrincipal, i : 1 .. 6]
        BY <3>1, <3>2 DEF FasesPrincipal
      <3>4. TypeOK'
        BY <1>1, <1>4, <3>3 DEF PUne, TypeOK
      <3> QED BY <1>1, <1>n, <1>4, <2>1, <3>1, <3>2, <3>4 DEF PUne, InvFases, TypeOK
    <2>3. CASE ~(principal.i < Len(Hilos[prog]))
      <3>1. principal' = [fase |-> "libera", i |-> 1]
        BY <1>4, <2>3 DEF PUne
      <3>2. principal' \in [fase : FasesPrincipal, i : 1 .. 6]
        BY <3>1 DEF FasesPrincipal
      <3>3. TypeOK'
        BY <1>1, <1>4, <3>2 DEF PUne, TypeOK
      <3>4. 1 <= Len(Libera[prog])
        BY <1>1, AlgoSuelta
      <3> QED BY <1>1, <1>4, <2>1, <3>1, <3>3, <3>4 DEF PUne, InvFases, TypeOK
    <2> QED BY <2>2, <2>3
  <1>5. CASE PLibera
    <2>1. principal.i \in 1 .. Len(Libera[prog])
      BY <1>n, <1>p, <1>5 DEF PLibera, InvFases
    <2>2. /\ principal' \in [fase : {"libera", "fuera"}, i : 1 .. 6]
          /\ principal'.fase = "libera" => principal'.i <= Len(Libera[prog])
      <3>1. principal' = Avanza(principal, Len(Libera[prog]), "fuera") /\ principal.fase = "libera"
        BY <1>5 DEF PLibera
      <3>2. principal' = IF principal.i < Len(Libera[prog]) THEN [fase |-> "libera", i |-> principal.i + 1]
                         ELSE [fase |-> "fuera", i |-> 1]
        BY <1>p, <3>1, AvanzaTipos
      <3>3. principal.i < Len(Libera[prog]) => principal.i + 1 \in 1 .. nl
        BY <1>n, <2>1
      <3>4. CASE principal.i < Len(Libera[prog])
        <4>1. principal' = [fase |-> "libera", i |-> principal.i + 1]
          BY <3>2, <3>4
        <4>2. principal'.i <= Len(Libera[prog])
          BY <1>n, <3>3, <3>4, <4>1
        <4> QED BY <3>3, <3>4, <4>1, <4>2
      <3>5. CASE ~(principal.i < Len(Libera[prog]))
        BY <3>2, <3>5
      <3> QED BY <3>4, <3>5
    <2>3. TypeOK'
      BY <1>1, <1>5, <2>1, <2>2, TerminaTipos DEF PLibera, TypeOK, Flujos, Hebras
    <2> QED BY <1>1, <1>n, <1>5, <2>1, <2>2, <2>3 DEF PLibera, InvFases, TypeOK
  <1> QED BY <1>2, <1>3, <1>4, <1>5 DEF PasoPrincipal

LEMMA ServidorTipos ==
    ASSUME TypeInv, PasoServidor
    PROVE  TypeInv'
  <1>0. /\ UNCHANGED <<prog, manejador, recorrido>>
        /\ procesos \in Nat /\ (procesos' = procesos \/ procesos' = procesos + 1)
    BY MaxProcesosNat DEF PasoServidor, MConversa, MAcepta, MBusca, MCrea, MAgrega, SAsigna, SRechaza, SPedido,
                          datos, TypeInv, TypeOK
  <1>m. ASSUME NEW h \in Hebras PROVE InvManejador(h)'
    <2>1. recorrido[h].visto \in Nat /\ InvManejador(h)
      BY TiposDe, MaxProcesosNat DEF TypeInv, Recorridos
    <2>2. recorrido[h].visto <= procesos'
      BY <1>0, <2>1 DEF InvManejador
    <2> QED BY <1>0, <2>1, <2>2 DEF InvManejador
  <1> SUFFICES TypeOK' /\ InvFases'
    BY <1>m DEF TypeInv
  <1>i. InvFases /\ TypeOK
    BY DEF TypeInv
  <1> USE <1>i
  <1>1. /\ UNCHANGED <<prog, principal, manejador, senal, recorrido>> /\ fin' \in {"no", "roto"}
        /\ prog \in Programas /\ procesos \in Nat /\ procesos <= MaxProcesos
    BY MaxProcesosNat DEF PasoServidor, Sigue, TypeOK
  <1>2. PICK es \in SUBSET Estructuras : Usa("servidor", es)
    <2>1. \A es \in SUBSET {"logger", "config", "lista_procesos"} : es \in SUBSET Estructuras
      BY DEF Estructuras
    <2> QED BY <2>1 DEF PasoServidor, MConversa, MAcepta, MBusca, MCrea, MAgrega, SAsigna, SRechaza, SPedido
  <1>3. /\ danio' \subseteq [hilo : Flujos, que : Estructuras \cup {"repetido"}]
        /\ nulas' \subseteq [hilo : Flujos, que : Estructuras]
    BY <1>2, UsaTipos DEF Flujos, Hebras
  <1>4. vida' \in [Estructuras -> {"sin", "viva", "libre"}]
    BY DEF PasoServidor, MConversa, MAcepta, MBusca, MCrea, MAgrega, SAsigna, SRechaza, SPedido, TypeOK
  <1>5. Atiende /\ principal.fase = "une"
    <2>1. servidor \in {"conversa", "acepta", "busca", "crea", "agrega", "pedidos"}
      BY DEF PasoServidor, MConversa, MAcepta, MBusca, MCrea, MAgrega, SAsigna, SRechaza, SPedido
    <2> QED BY <2>1 DEF Atiende, InvFases
  <1>6. CASE MAgrega
    <2>1. procesos' = procesos + 1 /\ servidor' = "acepta" /\ procesos < MaxProcesos
      BY <1>6 DEF MAgrega, InvFases
    <2>2. procesos' \in 0 .. MaxProcesos
      BY <1>1, <2>1, MaxProcesosNat
    <2>3. TypeOK'
      BY <1>1, <1>3, <1>4, <1>6, <2>1, <2>2 DEF MAgrega, TypeOK, FasesServidor
    <2> QED BY <1>1, <1>5, <1>6, <2>1, <2>3 DEF MAgrega, InvFases, Atiende
  <1>7. CASE ~MAgrega
    <2>1. /\ UNCHANGED <<procesos, totales>> /\ asignacion' \in {"ninguna", "fija", "global"}
          /\ servidor' \in FasesServidor \ {"no"}
          /\ servidor' \in {"busca", "crea", "agrega", "conversa"} => prog = "memoria"
          /\ servidor' = "pedidos" => prog = "swap"
          /\ servidor' \in {"crea", "agrega"} => procesos < MaxProcesos
      BY <1>7 DEF PasoServidor, MConversa, MAcepta, MBusca, MCrea, SAsigna, SRechaza, SPedido,
                  datos, TypeOK, FasesServidor, InvFases
    <2>2. TypeOK'
      BY <1>1, <1>3, <1>4, <2>1 DEF TypeOK
    <2>3. prog # "kernel"
      BY <1>5 DEF InvFases, Atiende
    <2> QED BY <1>1, <1>5, <2>1, <2>2, <2>3 DEF InvFases, Atiende
  <1> QED BY <1>6, <1>7

(* A handler changes its own part of the state only.                       *)
Suelto(h) ==
    \A o \in Hebras \ {h} : manejador'[o] = manejador[o] /\ senal'[o] = senal[o] /\ recorrido'[o] = recorrido[o]

LEMMA AjenoQuieto ==
    ASSUME TypeOK, NEW h \in Hebras, Sigint(h) \/ PasoManejador(h)
    PROVE  /\ UNCHANGED <<prog, principal, servidor, asignacion, procesos>>
           /\ Suelto(h)
  <1>1. /\ manejador \in [Hebras -> Manejadores] /\ senal \in [Hebras -> Senales]
        /\ recorrido \in [Hebras -> Recorridos]
    BY TiposDe
  <1>2. UNCHANGED <<prog, principal, servidor, asignacion, procesos>>
    BY DEF Sigint, PasoManejador, datos
  <1>3. CASE Sigint(h)
    BY <1>1, <1>2, <1>3 DEF Sigint, Suelto
  <1>4. CASE PasoManejador(h)
    <2>1. CASE HAvisa(h)
      BY <1>1, <1>4, <2>1 DEF PasoManejador, HAvisa, Suelto
    <2>2. CASE HLee(h)
      BY <1>1, <1>4, <2>2 DEF PasoManejador, HLee, Suelto
    <2>3. CASE HSuma(h)
      BY <1>1, <1>4, <2>3 DEF PasoManejador, HSuma, Suelto
    <2>4. CASE HRecorrio(h)
      BY <1>1, <1>4, <2>4 DEF PasoManejador, HRecorrio, Suelto
    <2>5. CASE HLibera(h)
      BY <1>1, <1>4, <2>5 DEF PasoManejador, HLibera, Suelto
    <2> QED BY <1>4, <2>1, <2>2, <2>3, <2>4, <2>5 DEF PasoManejador
  <1> QED BY <1>2, <1>3, <1>4

(* What each step does to the handler that takes it.                       *)
LEMMA PasoAvisa ==
    ASSUME TypeOK, NEW h \in Hebras, PasoManejador(h), HAvisa(h)
    PROVE  /\ manejador[h].fase = "aviso" /\ senal' = senal /\ vida' = vida /\ totales' = totales
           /\ manejador'[h] = [fase |-> IF prog = "memoria" THEN "miss" ELSE "libera", i |-> manejador[h].i]
           /\ manejador' \in [Hebras -> Manejadores]
           /\ recorrido'[h] = Inicio(procesos) /\ recorrido' \in [Hebras -> Recorridos]
  <1>1. manejador \in [Hebras -> Manejadores] /\ recorrido \in [Hebras -> Recorridos]
    BY TiposDe
  <1>2. Inicio(procesos) \in Recorridos
    BY InicioTipo DEF TypeOK
  <1> QED BY <1>1, <1>2 DEF PasoManejador, HAvisa, Manejadores, FasesManejador

LEMMA PasoLee ==
    ASSUME TypeInv, NEW h \in Hebras, PasoManejador(h), HLee(h)
    PROVE  /\ manejador[h].fase \in {"miss", "hit"} /\ UNCHANGED <<manejador, senal, vida, totales>>
           /\ recorrido[h].leido = SinLeer /\ recorrido[h].van < recorrido[h].visto
           /\ recorrido'[h] = [van |-> recorrido[h].van, visto |-> procesos,
                               leido |-> totales[manejador[h].fase]]
           /\ recorrido' \in [Hebras -> Recorridos]
  <1>1. recorrido \in [Hebras -> Recorridos] /\ recorrido[h] \in Recorridos
    BY TiposDe DEF TypeInv
  <1>2. manejador[h].fase \in {"miss", "hit"}
    BY DEF HLee
  <1>3. totales[manejador[h].fase] \in Nat \cup {Basura} /\ procesos \in 0 .. MaxProcesos
    BY <1>2 DEF TypeInv, TypeOK
  <1>4. recorrido' = [recorrido EXCEPT ![h] = [[recorrido[h] EXCEPT !.leido = totales[manejador[h].fase]]
                                                 EXCEPT !.visto = procesos]]
    BY <1>1 DEF HLee
  <1>5. recorrido'[h] = [van |-> recorrido[h].van, visto |-> procesos, leido |-> totales[manejador[h].fase]]
    BY <1>1, <1>4 DEF Recorridos
  <1>6. recorrido'[h] \in Recorridos
    BY <1>1, <1>3, <1>5 DEF Recorridos
  <1>7. recorrido' \in [Hebras -> Recorridos]
    BY <1>1, <1>4, <1>6
  <1> QED BY <1>2, <1>5, <1>7 DEF PasoManejador, HLee

LEMMA PasoSuma ==
    ASSUME TypeInv, NEW h \in Hebras, PasoManejador(h), HSuma(h)
    PROVE  /\ manejador[h].fase \in {"miss", "hit"} /\ UNCHANGED <<manejador, senal, vida>>
           /\ recorrido[h].leido # SinLeer /\ recorrido[h].van < recorrido[h].visto
           /\ recorrido'[h] = [van |-> recorrido[h].van + 1, visto |-> recorrido[h].visto, leido |-> SinLeer]
           /\ recorrido' \in [Hebras -> Recorridos]
           /\ totales' = [totales EXCEPT ![manejador[h].fase] =
                             IF ListaLibre \/ recorrido[h].leido = Basura THEN Basura
                             ELSE recorrido[h].leido + PorCarpincho[manejador[h].fase]]
  <1>1. recorrido \in [Hebras -> Recorridos] /\ recorrido[h] \in Recorridos
    BY TiposDe DEF TypeInv
  <1>2. recorrido[h].leido # SinLeer
    BY DEF HSuma
  <1>3. manejador[h].fase \in {"miss", "hit"} /\ recorrido[h].van < recorrido[h].visto
    BY <1>2 DEF TypeInv, InvManejador
  <1>4. recorrido' = [recorrido EXCEPT ![h] = [[recorrido[h] EXCEPT !.van = recorrido[h].van + 1]
                                                 EXCEPT !.leido = SinLeer]]
    BY <1>1 DEF HSuma
  <1>5. recorrido'[h] = [van |-> recorrido[h].van + 1, visto |-> recorrido[h].visto, leido |-> SinLeer]
    BY <1>1, <1>4 DEF Recorridos
  <1>6. recorrido[h].van + 1 \in 0 .. MaxProcesos
    BY <1>1, <1>3, MaxProcesosNat DEF Recorridos
  <1>7. recorrido'[h] \in Recorridos
    BY <1>1, <1>5, <1>6 DEF Recorridos
  <1>8. recorrido' \in [Hebras -> Recorridos]
    BY <1>1, <1>4, <1>7
  <1>9. totales' = [totales EXCEPT ![manejador[h].fase] =
                      IF ListaLibre \/ recorrido[h].leido = Basura THEN Basura
                      ELSE recorrido[h].leido + PorCarpincho[manejador[h].fase]]
    BY Zenon DEF HSuma
  <1> QED BY <1>2, <1>3, <1>5, <1>8, <1>9 DEF PasoManejador, HSuma

LEMMA PasoRecorrio ==
    ASSUME TypeOK, NEW h \in Hebras, PasoManejador(h), HRecorrio(h)
    PROVE  /\ manejador[h].fase \in {"miss", "hit"} /\ UNCHANGED <<senal, vida, totales>>
           /\ recorrido[h].leido = SinLeer /\ (recorrido[h].van = recorrido[h].visto \/ ListaLibre)
           /\ manejador'[h] = [fase |-> IF manejador[h].fase = "miss" THEN "hit" ELSE "libera",
                               i |-> manejador[h].i]
           /\ manejador' \in [Hebras -> Manejadores]
           /\ \E n \in {0, procesos} :
                /\ recorrido'[h] = Inicio(n)
                /\ manejador[h].fase = "miss" => n = procesos
           /\ recorrido' \in [Hebras -> Recorridos]
  <1>1. manejador \in [Hebras -> Manejadores] /\ recorrido \in [Hebras -> Recorridos]
    BY TiposDe
  <1>2. \A n \in {0, procesos} : Inicio(n) \in Recorridos
    BY InicioTipo, MaxProcesosNat DEF TypeOK
  <1>3. PICK n \in {0, procesos} : n = IF manejador[h].fase = "miss" THEN procesos ELSE 0
    OBVIOUS
  <1>4. recorrido' = [recorrido EXCEPT ![h] = Inicio(n)]
    BY <1>3 DEF HRecorrio
  <1>5. recorrido'[h] = Inicio(n) /\ recorrido' \in [Hebras -> Recorridos]
    BY <1>1, <1>2, <1>4
  <1>6. /\ manejador'[h] = [fase |-> IF manejador[h].fase = "miss" THEN "hit" ELSE "libera",
                            i |-> manejador[h].i]
        /\ manejador' \in [Hebras -> Manejadores]
    BY <1>1 DEF HRecorrio, Manejadores, FasesManejador
  <1> QED BY <1>3, <1>5, <1>6 DEF PasoManejador, HRecorrio

(* Whoever walks the end is at the start, in the middle, or done with it.  *)
LEMMA PasoFinal ==
    ASSUME NEW S, NEW p \in [fase : S, i : 1 .. 6], p.fase = "libera", NEW q,
           q = Avanza(p, Len(Libera[prog]), "fuera"), prog \in Programas, p.i <= Len(Libera[prog])
    PROVE  \/ q = [fase |-> "libera", i |-> p.i + 1] /\ p.i + 1 \in 1 .. 6 /\ p.i + 1 <= Len(Libera[prog])
           \/ q = [fase |-> "fuera", i |-> 1] /\ p.i = Len(Libera[prog])
  <1>n. PICK nl \in 1 .. 6 : nl = Len(Libera[prog])
    BY LargosTipos
  <1>1. q = IF p.i < Len(Libera[prog]) THEN [fase |-> "libera", i |-> p.i + 1] ELSE [fase |-> "fuera", i |-> 1]
    BY AvanzaTipos
  <1>2. ~(p.i < Len(Libera[prog])) => p.i = Len(Libera[prog])
    BY <1>n
  <1>0. p.i \in 1 .. 6
    OBVIOUS
  <1>3. p.i < Len(Libera[prog]) => p.i + 1 \in 1 .. 6 /\ p.i + 1 <= Len(Libera[prog])
    <2>1. \A k \in 1 .. 6 : k < nl => k + 1 \in 1 .. 6 /\ k + 1 <= nl
      OBVIOUS
    <2> QED BY <1>0, <1>n, <2>1
  <1> QED BY <1>1, <1>2, <1>3

LEMMA PasoLibera ==
    ASSUME TypeInv, NEW h \in Hebras, PasoManejador(h), HLibera(h)
    PROVE  /\ manejador[h].fase = "libera" /\ manejador[h].i \in 1 .. Len(Libera[prog])
           /\ Termina(Manejador(h), manejador[h].i)
           /\ UNCHANGED <<senal, recorrido, totales>> /\ manejador' \in [Hebras -> Manejadores]
           /\ \/ /\ manejador'[h] = [fase |-> "libera", i |-> manejador[h].i + 1]
                 /\ manejador[h].i + 1 <= Len(Libera[prog])
              \/ manejador'[h] = [fase |-> "fuera", i |-> 1] /\ manejador[h].i = Len(Libera[prog])
  <1>1. manejador \in [Hebras -> Manejadores] /\ manejador[h] \in Manejadores /\ prog \in Programas
    BY TiposDe DEF TypeInv, TypeOK
  <1>n. PICK nl \in 1 .. 6 : nl = Len(Libera[prog])
    BY <1>1, LargosTipos
  <1>2. manejador[h].fase = "libera" /\ manejador[h].i \in 1 .. 6 /\ manejador[h].i <= Len(Libera[prog])
    BY <1>1 DEF HLibera, Manejadores, TypeInv, InvManejador
  <1>3. manejador' = [manejador EXCEPT ![h] = Avanza(manejador[h], Len(Libera[prog]), "fuera")]
    BY DEF HLibera
  <1>4. manejador'[h] = Avanza(manejador[h], Len(Libera[prog]), "fuera")
    BY <1>1, <1>3
  <1>5. \/ /\ manejador'[h] = [fase |-> "libera", i |-> manejador[h].i + 1]
           /\ manejador[h].i + 1 \in 1 .. 6 /\ manejador[h].i + 1 <= Len(Libera[prog])
        \/ manejador'[h] = [fase |-> "fuera", i |-> 1] /\ manejador[h].i = Len(Libera[prog])
    BY <1>1, <1>2, <1>4, PasoFinal DEF Manejadores
  <1>6. manejador'[h] \in Manejadores
    BY <1>5 DEF Manejadores, FasesManejador
  <1>7. manejador' \in [Hebras -> Manejadores]
    BY <1>1, <1>3, <1>4, <1>6
  <1>8. manejador[h].i \in 1 .. Len(Libera[prog])
    BY <1>n, <1>2
  <1> QED BY <1>2, <1>5, <1>7, <1>8 DEF PasoManejador, HLibera

(* A step of a handler that is not one of the end only uses structures.    *)
LEMMA ManejadorUsa ==
    ASSUME NEW h \in Hebras, PasoManejador(h), ~HLibera(h)
    PROVE  \E es \in SUBSET {"logger", "lista_procesos"} : Usa(Manejador(h), es)
  <1>1. \E es \in SUBSET {"logger", "lista_procesos"} :
           es = {"logger"} \cup IF prog = "memoria" THEN {"lista_procesos"} ELSE {}
    OBVIOUS
  <1>2. \E es \in SUBSET {"logger", "lista_procesos"} :
           es = IF manejador[h].fase = "miss" THEN {"lista_procesos"} ELSE {"logger"}
    OBVIOUS
  <1>3. HAvisa(h) => \E es \in SUBSET {"logger", "lista_procesos"} : Usa(Manejador(h), es)
    BY <1>1, Zenon DEF HAvisa
  <1>4. HRecorrio(h) => \E es \in SUBSET {"logger", "lista_procesos"} : Usa(Manejador(h), es)
    BY <1>2, Zenon DEF HRecorrio
  <1>5. HLee(h) \/ HSuma(h) => \E es \in SUBSET {"logger", "lista_procesos"} : Usa(Manejador(h), es)
    BY DEF HLee, HSuma
  <1> QED BY <1>3, <1>4, <1>5 DEF PasoManejador

LEMMA ManejadorTipos ==
    ASSUME TypeInv, NEW h \in Hebras, Sigint(h) \/ PasoManejador(h)
    PROVE  TypeInv'
  <1>1. UNCHANGED <<prog, principal, servidor, asignacion, procesos>> /\ Suelto(h) /\ prog \in Programas
    BY AjenoQuieto DEF TypeInv, TypeOK
  <1>i. TypeOK /\ InvFases /\ InvManejador(h) /\ procesos \in Nat /\ procesos \in 0 .. MaxProcesos
    BY MaxProcesosNat DEF TypeInv, TypeOK
  <1>f. 1 <= Len(Libera[prog])
    BY <1>1, AlgoSuelta
  <1>t. /\ manejador \in [Hebras -> Manejadores] /\ senal \in [Hebras -> Senales]
        /\ recorrido \in [Hebras -> Recorridos] /\ Manejador(h) \in Flujos
        /\ manejador[h] \in Manejadores /\ recorrido[h] \in Recorridos
    BY <1>i, TiposDe
  <1>2. InvFases'
    BY <1>1, <1>i DEF InvFases, Atiende
  <1>3. ASSUME NEW o \in Hebras \ {h} PROVE InvManejador(o)'
    BY <1>1, <1>3 DEF TypeInv, InvManejador, Suelto
  <1>n. procesos \in Nat /\ recorrido[h].van \in Nat /\ recorrido[h].visto \in Nat
    BY <1>i, <1>t, MaxProcesosNat DEF Recorridos
  <1>c. Inicio(procesos) \in Recorridos /\ Inicio(procesos).van = 0
        /\ Inicio(procesos).visto = procesos /\ Inicio(procesos).leido = SinLeer
    BY <1>i, InicioTipo
  <1>d. 0 \in 0 .. MaxProcesos
    BY MaxProcesosNat
  <1>e. Inicio(0).van = 0 /\ Inicio(0).visto = 0 /\ Inicio(0).leido = SinLeer
    BY <1>d, InicioTipo
  <1> DEFINE Propio ==
               /\ manejador' \in [Hebras -> Manejadores] /\ senal' \in [Hebras -> Senales]
               /\ recorrido' \in [Hebras -> Recorridos]
               /\ InvManejador(h)'
             Global ==
               /\ danio' \subseteq [hilo : Flujos, que : Estructuras \cup {"repetido"}]
               /\ nulas' \subseteq [hilo : Flujos, que : Estructuras]
               /\ vida' \in [Estructuras -> {"sin", "viva", "libre"}]
               /\ totales' \in [miss : Nat \cup {Basura}, hit : Nat \cup {Basura}]
               /\ fin' \in {"no", "exit", "roto"}
  <1>4. SUFFICES Propio /\ Global
    <2>1. TypeOK'
      BY <1>1, <1>i DEF TypeOK, Manejadores, Senales, Recorridos
    <2> QED BY <1>2, <1>3, <2>1 DEF TypeInv
  <1>5. CASE Sigint(h)
    <2>0. Lugar(h) \in FasesPrincipal \cup FasesServidor
      BY <1>i DEF Lugar, TypeOK
    <2>1. PICK a \in BOOLEAN :
            senal' = [senal EXCEPT ![h] = [fase |-> Lugar(h), alloc |-> a, registrados |-> procesos]]
      BY <1>5 DEF Sigint
    <2>2. senal' \in [Hebras -> Senales]
      BY <1>i, <1>t, <2>0, <2>1 DEF Senales
    <2>3. manejador' = [manejador EXCEPT ![h] = [fase |-> "aviso", i |-> 1]] /\ recorrido' = recorrido
      BY <1>5 DEF Sigint
    <2>4. manejador' \in [Hebras -> Manejadores] /\ manejador'[h].fase = "aviso"
      BY <1>t, <2>3 DEF Manejadores, FasesManejador
    <2>5. recorrido[h].leido = SinLeer
      BY <1>5, <1>i DEF Sigint, InvManejador
    <2>6. InvManejador(h)'
      BY <1>1, <1>i, <2>3, <2>4, <2>5 DEF InvManejador
    <2>7. Global
      BY <1>5, <1>i DEF Sigint, datos, TypeOK
    <2> QED BY <1>t, <2>2, <2>3, <2>4, <2>6, <2>7
  <1>6. CASE PasoManejador(h) /\ ~HLibera(h)
    <2>1. PICK es \in SUBSET {"logger", "lista_procesos"} : Usa(Manejador(h), es)
      BY <1>6, ManejadorUsa
    <2>2. es \in SUBSET Estructuras
      BY DEF Estructuras
    <2>3. /\ danio' \subseteq [hilo : Flujos, que : Estructuras \cup {"repetido"}]
          /\ nulas' \subseteq [hilo : Flujos, que : Estructuras]
      BY <1>i, <1>t, <2>1, <2>2, UsaTipos
    <2>4. fin' \in {"no", "exit", "roto"} /\ vida' = vida /\ senal' = senal
      BY <1>6 DEF PasoManejador, HAvisa, HLee, HSuma, HRecorrio, Sigue
    <2>5. vida' \in [Estructuras -> {"sin", "viva", "libre"}] /\ senal' \in [Hebras -> Senales]
      BY <1>i, <1>t, <2>4 DEF TypeOK
    <2>l. manejador[h].fase # "libera" => manejador[h].i = 1
      BY <1>i DEF InvManejador
    <2>6. CASE HAvisa(h)
      <3>1. /\ manejador[h].fase = "aviso"
            /\ manejador'[h] = [fase |-> IF prog = "memoria" THEN "miss" ELSE "libera", i |-> manejador[h].i]
            /\ manejador' \in [Hebras -> Manejadores] /\ recorrido'[h] = Inicio(procesos)
            /\ recorrido' \in [Hebras -> Recorridos] /\ totales' = totales
        BY <1>6, <1>i, <2>6, PasoAvisa
      <3>2. manejador'[h].fase \in {"miss", "libera"} /\ manejador'[h].i = 1
        BY <2>l, <3>1
      <3>3. InvManejador(h)'
        BY <1>1, <1>c, <1>f, <1>n, <3>1, <3>2 DEF InvManejador
      <3> QED BY <1>i, <2>3, <2>4, <2>5, <3>1, <3>3 DEF TypeOK
    <2>7. CASE HLee(h)
      <3>1. /\ manejador[h].fase \in {"miss", "hit"} /\ UNCHANGED <<manejador, totales>>
            /\ recorrido[h].van < recorrido[h].visto
            /\ recorrido'[h] = [van |-> recorrido[h].van, visto |-> procesos,
                                leido |-> totales[manejador[h].fase]]
            /\ recorrido' \in [Hebras -> Recorridos]
        BY <1>6, <2>7, PasoLee
      <3>2. recorrido[h].visto <= procesos
        BY <1>i DEF InvManejador
      <3>3. recorrido[h].van < procesos
        BY <1>n, <3>1, <3>2
      <3>4. InvManejador(h)'
        BY <1>1, <1>n, <2>l, <3>1, <3>3 DEF InvManejador
      <3> QED BY <1>i, <1>t, <2>3, <2>4, <2>5, <3>1, <3>4 DEF TypeOK
    <2>8. CASE HSuma(h)
      <3>1. /\ manejador[h].fase \in {"miss", "hit"} /\ manejador' = manejador
            /\ recorrido[h].leido # SinLeer /\ recorrido[h].van < recorrido[h].visto
            /\ recorrido'[h] = [van |-> recorrido[h].van + 1, visto |-> recorrido[h].visto, leido |-> SinLeer]
            /\ recorrido' \in [Hebras -> Recorridos]
        BY <1>6, <2>8, PasoSuma
      <3>t. totales' = [totales EXCEPT ![manejador[h].fase] =
                          IF ListaLibre \/ recorrido[h].leido = Basura THEN Basura
                          ELSE recorrido[h].leido + PorCarpincho[manejador[h].fase]]
        BY <1>6, <2>8, PasoSuma
      <3>2. recorrido[h].visto <= procesos
        BY <1>i DEF InvManejador
      <3>3. recorrido[h].van + 1 <= recorrido[h].visto
        BY <1>n, <3>1
      <3>4. InvManejador(h)'
        BY <1>1, <1>n, <2>l, <3>1, <3>2, <3>3 DEF InvManejador
      <3>5. PorCarpincho[manejador[h].fase] \in Nat
        BY <3>1 DEF PorCarpincho, MissAlRegistrar, HitAlCrear
      <3>6. recorrido[h].leido = Basura \/ recorrido[h].leido \in Nat
        BY <1>t, <3>1 DEF Recorridos
      <3>7. PICK v : v = IF ListaLibre \/ recorrido[h].leido = Basura THEN Basura
                         ELSE recorrido[h].leido + PorCarpincho[manejador[h].fase]
        OBVIOUS
      <3>8. v \in Nat \cup {Basura}
        BY <3>5, <3>6, <3>7
      <3>9. totales' = [totales EXCEPT ![manejador[h].fase] = v]
        BY <3>t, <3>7
      <3>10. totales' \in [miss : Nat \cup {Basura}, hit : Nat \cup {Basura}]
        BY <1>i, <3>1, <3>8, <3>9 DEF TypeOK
      <3> QED BY <1>t, <2>3, <2>4, <2>5, <3>1, <3>4, <3>10
    <2>9. CASE HRecorrio(h)
      <3>1. /\ manejador[h].fase \in {"miss", "hit"} /\ totales' = totales
            /\ manejador'[h] = [fase |-> IF manejador[h].fase = "miss" THEN "hit" ELSE "libera",
                                i |-> manejador[h].i]
            /\ manejador' \in [Hebras -> Manejadores] /\ recorrido' \in [Hebras -> Recorridos]
        BY <1>6, <1>i, <2>9, PasoRecorrio
      <3>2. PICK n \in {0, procesos} : recorrido'[h] = Inicio(n)
        BY <1>6, <1>i, <2>9, PasoRecorrio
      <3>3. manejador'[h].fase \in {"hit", "libera"} /\ manejador'[h].i = 1
        BY <2>l, <3>1
      <3>4. recorrido'[h].van = 0 /\ recorrido'[h].visto = n /\ recorrido'[h].leido = SinLeer
        BY <1>c, <1>e, <3>2
      <3>5. 0 <= n /\ n <= procesos
        BY <1>n
      <3>6. InvManejador(h)'
        BY <1>1, <1>f, <3>3, <3>4, <3>5 DEF InvManejador
      <3> QED BY <1>i, <2>3, <2>4, <2>5, <3>1, <3>6 DEF TypeOK
    <2> QED BY <1>6, <2>6, <2>7, <2>8, <2>9 DEF PasoManejador
  <1>7. CASE PasoManejador(h) /\ HLibera(h)
    <2>1. /\ manejador[h].i \in 1 .. Len(Libera[prog])
          /\ Termina(Manejador(h), manejador[h].i)
          /\ UNCHANGED <<senal, recorrido, totales>> /\ manejador' \in [Hebras -> Manejadores]
          /\ \/ /\ manejador'[h] = [fase |-> "libera", i |-> manejador[h].i + 1]
                /\ manejador[h].i + 1 <= Len(Libera[prog])
             \/ manejador'[h] = [fase |-> "fuera", i |-> 1]
      BY <1>7, PasoLibera
    <2>2. InvManejador(h)'
      <3>1. recorrido[h].leido = SinLeer
        BY <1>7, <1>i DEF HLibera, InvManejador
      <3> QED BY <1>1, <1>i, <2>1, <3>1 DEF InvManejador
    <2>3. Global
      <3>1. totales' \in [miss : Nat \cup {Basura}, hit : Nat \cup {Basura}]
        BY <1>i, <2>1 DEF TypeOK
      <3> QED BY <1>t, <2>1, <3>1, TerminaTipos
    <2> QED BY <1>t, <2>1, <2>2, <2>3
  <1> QED BY <1>5, <1>6, <1>7

LEMMA TiposPaso == TypeInv /\ [Next]_vars => TypeInv'
  <1>1. ASSUME TypeInv, UNCHANGED vars PROVE TypeInv'
    BY <1>1 DEF TypeInv, TypeOK, InvFases, InvManejador, Atiende, vars, hilos, datos
  <1>2. ASSUME TypeInv, Aborta PROVE TypeInv'
    BY <1>2 DEF Aborta, TypeInv, TypeOK, InvFases, InvManejador, Atiende, hilos, datos
  <1> QED BY <1>1, <1>2, PrincipalTipos, ServidorTipos, ManejadorTipos DEF Next

LEMMA TiposFinales == Spec => []TypeInv
  BY InitTipos, TiposPaso, PTL DEF Spec

(* The values of every variable; in particular metricas never adds up to   *)
(* less than zero, and no walk counts more carpinchos than there are.      *)
THEOREM TiposDeLosFinales == Spec => []TypeOK
  BY TiposFinales, PTL DEF TypeInv

-----------------------------------------------------------------------------
(* What has been created and what has been released.                       *)

HechasHasta(p, i) == UNION {Crea[p][j] : j \in 1 .. i - 1}
SoltadasHasta(p, i) == UNION {Libera[p][j].libera : j \in 1 .. i - 1}

Creadas(p) ==
    CASE p = "memoria" -> {"logger", "config_file", "config", "lista_procesos", "frames_memoria",
                           "lista_tlb"}
      [] p = "swap" -> {"logger", "config_file", "config"}
      [] OTHER -> {"logger", "config", "colas"}

LEMMA HechasSigue ==
    ASSUME NEW p, NEW i \in 1 .. 6
    PROVE  /\ HechasHasta(p, i + 1) = HechasHasta(p, i) \cup Crea[p][i]
           /\ SoltadasHasta(p, i + 1) = SoltadasHasta(p, i) \cup Libera[p][i].libera
           /\ HechasHasta(p, 1) = {} /\ SoltadasHasta(p, 1) = {}
  <1>1. 1 .. (i + 1) - 1 = (1 .. i - 1) \cup {i}
    OBVIOUS
  <1>2. 1 .. 1 - 1 = {}
    OBVIOUS
  <1> QED BY <1>1, <1>2, Zenon DEF HechasHasta, SoltadasHasta

(* The steps of main create everything that the program then counts on.    *)
LEMMA HechasTodas ==
    ASSUME NEW p \in Programas, NEW i \in 1 .. 6, ~(i < Len(Crea[p])), i <= Len(Crea[p])
    PROVE  Creadas(p) \subseteq HechasHasta(p, i + 1)
  <1>1. \A j \in 1 .. i : Crea[p][j] \subseteq HechasHasta(p, i + 1)
    <2>1. \A j \in 1 .. i : j \in 1 .. (i + 1) - 1
      OBVIOUS
    <2> QED BY <2>1, Zenon DEF HechasHasta
  <1>2. CASE p = "memoria"
    <2>1. i = 5
      BY <1>2, Largos
    <2>2. 1 \in 1 .. i /\ 2 \in 1 .. i /\ 3 \in 1 .. i /\ 4 \in 1 .. i /\ 5 \in 1 .. i
      BY <2>1
    <2>3. /\ Crea[p][1] = {"logger"} /\ Crea[p][2] = {"config_file"} /\ Crea[p][3] = {"config"}
          /\ Crea[p][4] = {"lista_procesos", "frames_memoria"} /\ Crea[p][5] = {"lista_tlb"}
      BY <1>2 DEF Crea
    <2> QED BY <1>1, <1>2, <2>2, <2>3 DEF Creadas
  <1>3. CASE p = "swap"
    <2>1. i = 3
      BY <1>3, Largos
    <2>2. 1 \in 1 .. i /\ 2 \in 1 .. i /\ 3 \in 1 .. i
      BY <2>1
    <2>3. Crea[p][1] = {"logger"} /\ Crea[p][2] = {"config_file"} /\ Crea[p][3] = {"config"}
      BY <1>3 DEF Crea
    <2> QED BY <1>1, <1>3, <2>2, <2>3 DEF Creadas
  <1>4. CASE p = "kernel"
    <2>1. i = 3
      BY <1>4, Largos
    <2>2. 1 \in 1 .. i /\ 2 \in 1 .. i /\ 3 \in 1 .. i
      BY <2>1
    <2>3. Crea[p][1] = {"logger"} /\ Crea[p][2] = {"config"} /\ Crea[p][3] = {"colas"}
      BY <1>4 DEF Crea
    <2> QED BY <1>1, <1>4, <2>2, <2>3 DEF Creadas
  <1> QED BY <1>2, <1>3, <1>4 DEF Programas

(* A step of the end touches what main created, Swap's table apart, and    *)
(* nothing that an earlier step released.                                  *)
LEMMA TocaLoCreado ==
    ASSUME NEW p \in Programas, NEW i \in 1 .. Len(Libera[p])
    PROVE  /\ Toca(p, i) \subseteq Creadas(p) \cup {Tabla}
           /\ p # "swap" \/ i # 1 => Toca(p, i) \subseteq Creadas(p)
           /\ p = "swap" /\ i = 1 => Tabla \in Toca(p, i)
           /\ Tabla \notin Creadas(p)
  <1>1. CASE p = "memoria"
    <2>1. i \in {1, 2, 3, 4, 5, 6}
      BY <1>1, Largos
    <2> QED BY <1>1, <2>1, PasosDeMemoria DEF Creadas, Tabla
  <1>2. CASE p = "swap"
    <2>1. i \in {1, 2, 3, 4}
      BY <1>2, Largos
    <2> QED BY <1>2, <2>1, PasosDeSwap DEF Creadas, Tabla
  <1>3. CASE p = "kernel"
    <2>1. i \in {1, 2, 3}
      BY <1>3, Largos
    <2> QED BY <1>3, <2>1, PasosDeKernel DEF Creadas, Tabla
  <1> QED BY <1>1, <1>2, <1>3 DEF Programas

LEMMA TocaFresco ==
    ASSUME NEW p \in Programas, NEW i \in 1 .. Len(Libera[p])
    PROVE  Toca(p, i) \cap SoltadasHasta(p, i) = {}
  <1> SUFFICES ASSUME NEW j \in 1 .. i - 1
               PROVE  Toca(p, i) \cap Libera[p][j].libera = {}
    BY Zenon DEF SoltadasHasta
  <1>1. CASE p = "memoria"
    <2>1. i \in {1, 2, 3, 4, 5, 6} /\ j \in {1, 2, 3, 4, 5} /\ j < i
      BY <1>1, Largos
    <2> QED BY <1>1, <2>1, PasosDeMemoria
  <1>2. CASE p = "swap"
    <2>1. i \in {1, 2, 3, 4} /\ j \in {1, 2, 3} /\ j < i
      BY <1>2, Largos
    <2> QED BY <1>2, <2>1, PasosDeSwap DEF Tabla
  <1>3. CASE p = "kernel"
    <2>1. i \in {1, 2, 3} /\ j \in {1, 2} /\ j < i
      BY <1>3, Largos
    <2> QED BY <1>3, <2>1, PasosDeKernel
  <1> QED BY <1>1, <1>2, <1>3 DEF Programas

(* What a server thread uses, its program has created.                     *)
LEMMA ServidorToca ==
    ASSUME TypeInv, PasoServidor
    PROVE  \E es \in SUBSET (Creadas(prog) \cap {"logger", "config", "lista_procesos"}) : Usa("servidor", es)
  <1>1. /\ "logger" \in Creadas(prog) /\ "config" \in Creadas(prog)
        /\ prog = "memoria" => "lista_procesos" \in Creadas(prog)
    BY DEF Creadas
  <1>2. servidor \in {"busca", "crea", "agrega"} => prog = "memoria"
    BY DEF TypeInv, InvFases
  <1> QED BY <1>1, <1>2
          DEF PasoServidor, MConversa, MAcepta, MBusca, MCrea, MAgrega, SAsigna, SRechaza, SPedido

-----------------------------------------------------------------------------
(* A signal stops its thread where it is; a NULL pointer stops them all.   *)
InvSenal ==
    /\ \A h \in Hebras : Interrumpida(h) <=> senal[h].fase # "no"
    /\ \A h \in Hebras : manejador[h].fase \in {"miss", "hit"} => prog = "memoria"
    /\ senal["principal"].fase # "no" => senal["principal"].fase = principal.fase
    /\ senal["servidor"].fase # "no" => Atiende
InvFin ==
    /\ nulas # {} => fin = "roto"
    /\ fin = "no" => principal.fase # "fuera" /\ \A h \in Hebras : manejador[h].fase # "fuera"
InvCurso == InvSenal /\ InvFin

LEMMA UnoCorre ==
    ASSUME TypeInv, InvCurso
    PROVE  /\ PasoPrincipal => ~Atiende /\ \A h \in Hebras : manejador[h].fase = "no"
           /\ PasoServidor => Atiende /\ principal.fase = "une" /\ manejador["servidor"].fase = "no"
           /\ Interrumpida("servidor") => Atiende
           /\ Atiende => principal.fase = "une"
  <1>1. Atiende => principal.fase = "une"
    BY DEF TypeInv, InvFases
  <1>2. ASSUME PasoPrincipal PROVE ~Atiende /\ manejador["principal"].fase = "no"
    <2>1. manejador["principal"].fase = "no"
      BY <1>2 DEF PasoPrincipal, Corre
    <2> QED BY <1>1, <1>2, <2>1 DEF PasoPrincipal, PCrea, PLanza, PUne, PLibera, Espera, Atiende
  <1>3. ASSUME PasoServidor PROVE Atiende /\ manejador["servidor"].fase = "no"
    BY <1>3 DEF PasoServidor, Corre, MConversa, MAcepta, MBusca, MCrea, MAgrega, SAsigna, SRechaza,
                SPedido, Atiende
  <1>4. Interrumpida("servidor") => Atiende
    BY DEF InvCurso, InvSenal, Hebras
  <1> QED BY <1>1, <1>2, <1>3, <1>4 DEF Interrumpida, Hebras

LEMMA CursoPaso == TypeInv /\ InvCurso /\ [Next]_vars => InvCurso'
  <1> SUFFICES ASSUME TypeInv, InvCurso, [Next]_vars PROVE InvCurso'
    OBVIOUS
  <1>1. CASE UNCHANGED vars
    BY <1>1 DEF InvCurso, InvSenal, InvFin, Interrumpida, Atiende, vars, hilos, datos
  <1>2. CASE PasoPrincipal
    <2>1. /\ \A h \in Hebras : manejador[h].fase = "no"
          /\ \A h \in Hebras : senal[h].fase = "no"
          /\ nulas = {}
      BY <1>2, UnoCorre DEF InvCurso, InvSenal, InvFin, Interrumpida, PasoPrincipal, Corre
    <2>2. UNCHANGED <<prog, manejador, senal>>
      BY <1>2 DEF PasoPrincipal
    <2>3. InvSenal'
      BY <2>1, <2>2 DEF InvSenal, Interrumpida, Hebras
    <2>4. ASSUME ~PLibera PROVE InvFin'
      <3>1. UNCHANGED <<nulas, fin>> /\ principal'.fase # "fuera"
        <4>1. principal \in [fase : FasesPrincipal, i : 1 .. 6]
          BY DEF TypeInv, TypeOK
        <4>2. ASSUME PCrea PROVE principal'.fase # "fuera"
          BY <4>1, <4>2, AvanzaTipos DEF PCrea
        <4>3. ASSUME PLanza \/ PUne PROVE principal'.fase # "fuera"
          BY <4>1, <4>3 DEF PLanza, PUne
        <4>4. UNCHANGED <<nulas, fin>>
          BY <1>2, <2>4 DEF PasoPrincipal, PCrea, PLanza, PUne
        <4> QED BY <1>2, <2>4, <4>2, <4>3, <4>4 DEF PasoPrincipal
      <3> QED BY <2>1, <2>2, <3>1 DEF InvFin
    <2>5. ASSUME PLibera PROVE InvFin'
      <3>1. principal \in [fase : FasesPrincipal, i : 1 .. 6] /\ prog \in Programas
        BY DEF TypeInv, TypeOK
      <3>2. \/ principal' = [fase |-> "libera", i |-> principal.i + 1]
            \/ principal' = [fase |-> "fuera", i |-> 1] /\ principal.i = Len(Libera[prog])
        BY <2>5, <3>1, PasoFinal DEF PLibera, TypeInv, InvFases
      <3>3. principal.i = Len(Libera[prog]) => fin' # "no"
        BY <2>5 DEF PLibera, Termina, Salida
      <3>4. nulas' # {} => fin' = "roto"
        BY <2>1, <2>5 DEF PLibera, Termina
      <3> QED BY <2>1, <2>2, <3>2, <3>3, <3>4 DEF InvFin
    <2> QED BY <2>3, <2>4, <2>5 DEF InvCurso
  <1>3. CASE PasoServidor
    <2>1. UNCHANGED <<prog, principal, manejador, senal>> /\ fin = "no" /\ nulas = {}
      BY <1>3 DEF PasoServidor, Corre, InvCurso, InvFin
    <2>2. nulas' # {} => fin' = "roto"
      BY <1>3, <2>1 DEF PasoServidor, Sigue
    <2>3. ~Interrumpida("servidor") /\ senal["servidor"].fase = "no"
      BY <1>3, UnoCorre DEF Interrumpida, InvCurso, InvSenal, Hebras
    <2> QED BY <2>1, <2>2, <2>3 DEF InvCurso, InvSenal, InvFin, Interrumpida
  <1>4. ASSUME NEW h \in Hebras, Sigint(h) PROVE InvCurso'
    <2>1. UNCHANGED <<prog, principal, servidor, nulas, fin>> /\ Suelto(h)
      BY <1>4, AjenoQuieto DEF TypeInv, Sigint
    <2>2. /\ manejador \in [Hebras -> Manejadores] /\ senal \in [Hebras -> Senales]
          /\ principal.fase \in FasesPrincipal
      BY TiposDe DEF TypeInv, TypeOK
    <2>3. /\ manejador'[h].fase = "aviso" /\ senal'[h].fase = Lugar(h)
          /\ Lugar(h) \notin {"fuera", "no", "salio"}
      BY <1>4, <2>2 DEF Sigint
    <2>4. h = "servidor" => Atiende
      BY <2>3 DEF Lugar, Atiende
    <2>5. h = "principal" => senal'[h].fase = principal.fase
      BY <2>3 DEF Lugar
    <2>6. InvSenal'
      <3>1. \A o \in Hebras : Interrumpida(o)' <=> senal'[o].fase # "no"
        BY <2>1, <2>3 DEF InvCurso, InvSenal, Interrumpida, Suelto
      <3>2. \A o \in Hebras : manejador'[o].fase \in {"miss", "hit"} => prog = "memoria"
        BY <2>1, <2>3 DEF InvCurso, InvSenal, Suelto
      <3> QED BY <2>1, <2>4, <2>5, <3>1, <3>2 DEF InvCurso, InvSenal, Suelto, Hebras, Atiende
    <2>7. InvFin'
      BY <2>1, <2>3 DEF InvCurso, InvFin, Suelto
    <2> QED BY <2>6, <2>7 DEF InvCurso
  <1>5. ASSUME NEW h \in Hebras, PasoManejador(h) PROVE InvCurso'
    <2>1. /\ UNCHANGED <<prog, principal, servidor>> /\ Suelto(h) /\ senal' = senal
          /\ fin = "no" /\ nulas = {}
      BY <1>5, AjenoQuieto DEF TypeInv, PasoManejador, InvCurso, InvFin
    <2>2. SUFFICES /\ manejador[h].fase # "no" /\ manejador'[h].fase # "no"
                   /\ manejador'[h].fase \in {"miss", "hit"} => prog = "memoria"
                   /\ nulas' # {} => fin' = "roto"
                   /\ fin' = "no" => manejador'[h].fase # "fuera"
      <3>1. \A o \in Hebras : Interrumpida(o)' <=> senal'[o].fase # "no"
        BY <2>1, <2>2 DEF InvCurso, InvSenal, Interrumpida, Suelto
      <3>2. \A o \in Hebras : manejador'[o].fase \in {"miss", "hit"} => prog = "memoria"
        BY <2>1, <2>2 DEF InvCurso, InvSenal, Suelto
      <3>3. InvSenal'
        BY <2>1, <3>1, <3>2 DEF InvCurso, InvSenal, Atiende
      <3>4. InvFin'
        BY <2>1, <2>2 DEF InvCurso, InvFin, Suelto
      <3> QED BY <3>3, <3>4 DEF InvCurso
    <2>3. CASE HLibera(h)
      <3>1. /\ manejador[h].fase = "libera" /\ Termina(Manejador(h), manejador[h].i)
            /\ \/ manejador'[h] = [fase |-> "libera", i |-> manejador[h].i + 1]
               \/ manejador'[h] = [fase |-> "fuera", i |-> 1] /\ manejador[h].i = Len(Libera[prog])
        BY <1>5, <2>3, PasoLibera
      <3>2. manejador[h].i = Len(Libera[prog]) => fin' # "no"
        BY <3>1 DEF Termina, Salida
      <3>3. nulas' # {} => fin' = "roto"
        BY <2>1, <3>1 DEF Termina
      <3> QED BY <3>1, <3>2, <3>3
    <2>4. CASE ~HLibera(h)
      <3>1. nulas' # {} => fin' = "roto"
        BY <1>5, <2>1, <2>4 DEF PasoManejador, HAvisa, HLee, HSuma, HRecorrio, Sigue
      <3>2. CASE HAvisa(h)
        <4>1. /\ manejador[h].fase = "aviso"
              /\ manejador'[h] = [fase |-> IF prog = "memoria" THEN "miss" ELSE "libera",
                                  i |-> manejador[h].i]
          BY <1>5, <3>2, PasoAvisa DEF TypeInv
        <4> QED BY <3>1, <4>1
      <3>3. CASE HLee(h)
        <4>1. manejador[h].fase \in {"miss", "hit"} /\ manejador' = manejador
          BY <1>5, <3>3, PasoLee
        <4> QED BY <3>1, <4>1 DEF InvCurso, InvSenal
      <3>4. CASE HSuma(h)
        <4>1. manejador[h].fase \in {"miss", "hit"} /\ manejador' = manejador
          BY <1>5, <3>4, PasoSuma
        <4> QED BY <3>1, <4>1 DEF InvCurso, InvSenal
      <3>5. CASE HRecorrio(h)
        <4>1. /\ manejador[h].fase \in {"miss", "hit"}
              /\ manejador'[h] = [fase |-> IF manejador[h].fase = "miss" THEN "hit" ELSE "libera",
                                  i |-> manejador[h].i]
          BY <1>5, <3>5, PasoRecorrio DEF TypeInv
        <4> QED BY <3>1, <4>1 DEF InvCurso, InvSenal
      <3> QED BY <1>5, <2>4, <3>2, <3>3, <3>4, <3>5 DEF PasoManejador
    <2> QED BY <2>3, <2>4
  <1>6. CASE Aborta
    BY <1>6 DEF Aborta, hilos, InvCurso, InvSenal, InvFin, Interrumpida, Atiende
  <1> QED BY <1>1, <1>2, <1>3, <1>4, <1>5, <1>6 DEF Next

LEMMA CursoSiempre == Spec => []InvCurso
  <1>1. Init => InvCurso
    BY DEF Init, InvCurso, InvSenal, InvFin, Interrumpida, SinSenal, Atiende, Hebras
  <1> QED BY <1>1, CursoPaso, TiposFinales, PTL DEF Spec

-----------------------------------------------------------------------------
(* What main has created is there until somebody releases it, and only the *)
(* steps of an end already taken have.                                     *)
Soltada(e) ==
    \/ principal.fase = "libera" /\ e \in SoltadasHasta(prog, principal.i)
    \/ \E h \in Hebras : manejador[h].fase = "libera" /\ e \in SoltadasHasta(prog, manejador[h].i)
InvVida ==
    fin = "no" =>
      /\ principal.fase = "crea" => \A e \in HechasHasta(prog, principal.i) : vida[e] # "sin"
      /\ principal.fase # "crea" => \A e \in Creadas(prog) : vida[e] # "sin"
      /\ \A e \in Estructuras \ {"entradas"} : vida[e] = "libre" => Soltada(e)

LEMMA CreadasSonEstructuras ==
    ASSUME NEW p \in Programas
    PROVE  Creadas(p) \subseteq Estructuras \ {"entradas"}
  BY DEF Creadas, Programas, Estructuras

LEMMA HechasEstructuras ==
    ASSUME NEW p \in Programas, NEW i \in 1 .. 6, i <= Len(Crea[p])
    PROVE  HechasHasta(p, i + 1) \subseteq Estructuras /\ HechasHasta(p, i) \subseteq Estructuras
  <1>1. \A j \in 1 .. i : Crea[p][j] \subseteq Estructuras
    <2>1. CASE p = "memoria"
      <3>1. i \in {1, 2, 3, 4, 5}
        BY <2>1, Largos
      <3>2. \A j \in 1 .. i : j \in {1, 2, 3, 4, 5}
        BY <3>1
      <3> QED BY <2>1, <3>2 DEF Crea, Estructuras
    <2>2. CASE p \in {"swap", "kernel"}
      <3>1. Len(Crea[p]) = 3
        BY <2>2, Largos
      <3>2. \A j \in 1 .. i : j \in {1, 2, 3}
        BY <3>1
      <3> QED BY <2>2, <3>2 DEF Crea, Estructuras
    <2> QED BY <2>1, <2>2 DEF Programas
  <1>2. (i + 1) - 1 = i /\ \A j \in 1 .. i - 1 : j \in 1 .. i
    OBVIOUS
  <1> QED BY <1>1, <1>2, Zenon DEF HechasHasta

(* One step of an end, by main or by the handler.                          *)
LEMMA TerminaVida ==
    ASSUME TypeInv, NEW q, NEW i \in 1 .. 6, Termina(q, i)
    PROVE  /\ \A e \in Estructuras : vida[e] # "sin" => vida'[e] # "sin"
           /\ \A e \in Estructuras : vida'[e] = "libre" => vida[e] = "libre" \/ e \in SoltadasHasta(prog, i + 1)
  <1>1. \A e \in Estructuras : vida'[e] = IF e \in Libera[prog][i].libera THEN "libre" ELSE vida[e]
    BY DEF Termina
  <1>2. SoltadasHasta(prog, i + 1) = SoltadasHasta(prog, i) \cup Libera[prog][i].libera
    BY HechasSigue
  <1> QED BY <1>1, <1>2

LEMMA VidaPrincipal ==
    ASSUME TypeInv, InvCurso, InvVida, PasoPrincipal, fin' = "no"
    PROVE  InvVida'
  <1>1. /\ fin = "no" /\ \A h \in Hebras : manejador[h].fase = "no"
        /\ UNCHANGED <<prog, manejador>> /\ prog \in Programas
        /\ principal \in [fase : FasesPrincipal, i : 1 .. 6]
    BY UnoCorre DEF PasoPrincipal, Corre, TypeInv, TypeOK
  <1>2. CASE PCrea
    <2>1. /\ principal.fase = "crea" /\ principal.i <= Len(Crea[prog])
          /\ principal' = IF principal.i < Len(Crea[prog]) THEN [fase |-> "crea", i |-> principal.i + 1]
                          ELSE [fase |-> IF Hilos[prog] = <<>> THEN "libera" ELSE "lanza", i |-> 1]
      BY <1>1, <1>2, AvanzaTipos DEF PCrea, TypeInv, InvFases
    <2>2. \A e \in Estructuras : vida'[e] = IF e \in Crea[prog][principal.i] THEN "viva" ELSE vida[e]
      BY <1>2 DEF PCrea
    <2>3. HechasHasta(prog, principal.i + 1) = HechasHasta(prog, principal.i) \cup Crea[prog][principal.i]
      BY <1>1, HechasSigue
    <2>4. \A e \in HechasHasta(prog, principal.i + 1) \cap Estructuras : vida'[e] # "sin"
      BY <1>1, <2>1, <2>2, <2>3 DEF InvVida
    <2>5. \A e \in Estructuras \ {"entradas"} : vida'[e] # "libre"
      BY <1>1, <2>1, <2>2 DEF InvVida, Soltada
    <2>6. HechasHasta(prog, principal.i + 1) \subseteq Estructuras
      BY <1>1, <2>1, HechasEstructuras
    <2>7. CASE principal.i < Len(Crea[prog])
      <3>1. principal' = [fase |-> "crea", i |-> principal.i + 1]
        BY <2>1, <2>7
      <3> QED BY <1>1, <2>4, <2>5, <2>6, <3>1 DEF InvVida
    <2>8. CASE ~(principal.i < Len(Crea[prog]))
      <3>1. Creadas(prog) \subseteq HechasHasta(prog, principal.i + 1)
        BY <1>1, <2>1, <2>8, HechasTodas
      <3>2. principal'.fase # "crea"
        BY <2>1, <2>8
      <3> QED BY <1>1, <2>4, <2>5, <2>6, <3>1, <3>2 DEF InvVida
    <2> QED BY <2>7, <2>8
  <1>3. CASE PLanza \/ PUne
    <2>1. principal.fase \in {"lanza", "une"} /\ principal'.fase # "crea" /\ vida' = vida
      BY <1>1, <1>3 DEF PLanza, PUne
    <2>2. \A e \in Estructuras \ {"entradas"} : vida[e] # "libre"
      BY <1>1, <2>1 DEF InvVida, Soltada
    <2> QED BY <1>1, <2>1, <2>2 DEF InvVida
  <1>4. CASE PLibera
    <2>1. principal.fase = "libera" /\ Termina("principal", principal.i)
      BY <1>4 DEF PLibera
    <2>2. principal' = [fase |-> "libera", i |-> principal.i + 1]
      <3>1. principal'.fase # "fuera"
        BY TiposPaso, CursoPaso DEF InvCurso, InvFin, Next
      <3>2. \/ principal' = [fase |-> "libera", i |-> principal.i + 1]
            \/ principal' = [fase |-> "fuera", i |-> 1]
        BY <1>1, <1>4, PasoFinal DEF PLibera, TypeInv, InvFases
      <3> QED BY <3>1, <3>2
    <2>3. SoltadasHasta(prog, principal.i) \subseteq SoltadasHasta(prog, principal.i + 1)
      BY <1>1, HechasSigue
    <2>4. Creadas(prog) \subseteq Estructuras
      BY <1>1, CreadasSonEstructuras
    <2>5. /\ \A e \in Estructuras : vida[e] # "sin" => vida'[e] # "sin"
          /\ \A e \in Estructuras : vida'[e] = "libre" =>
                vida[e] = "libre" \/ e \in SoltadasHasta(prog, principal.i + 1)
      BY <1>1, <2>1, TerminaVida
    <2> QED BY <1>1, <2>1, <2>2, <2>3, <2>4, <2>5 DEF InvVida, Soltada
  <1> QED BY <1>2, <1>3, <1>4 DEF PasoPrincipal

LEMMA VidaPaso == TypeInv /\ InvCurso /\ InvVida /\ [Next]_vars => InvVida'
  <1> SUFFICES ASSUME TypeInv, InvCurso, InvVida, [Next]_vars, fin' = "no" PROVE InvVida'
    BY DEF InvVida
  <1>1. CASE UNCHANGED vars
    BY <1>1 DEF InvVida, Soltada, vars, hilos
  <1>2. CASE PasoPrincipal
    BY <1>2, VidaPrincipal
  <1>3. CASE PasoServidor
    <2>1. UNCHANGED <<prog, principal, manejador>> /\ fin = "no" /\ vida \in [Estructuras -> {"sin", "viva", "libre"}]
      BY <1>3 DEF PasoServidor, Corre, TypeInv, TypeOK
    <2>2. \/ vida' = vida
          \/ vida' = [vida EXCEPT !.tabla_de_marcos_fija = "viva", !.entradas = "libre"]
      BY <1>3 DEF PasoServidor, MConversa, MAcepta, MBusca, MCrea, MAgrega, SAsigna, SRechaza, SPedido
    <2>3. /\ \A e \in Estructuras : vida[e] # "sin" => vida'[e] # "sin"
          /\ \A e \in Estructuras \ {"entradas"} : vida'[e] = "libre" => vida[e] = "libre"
      BY <2>1, <2>2
    <2>4. Creadas(prog) \subseteq Estructuras /\ (principal.fase # "crea")
      BY <1>3, CreadasSonEstructuras, UnoCorre DEF TypeInv, TypeOK
    <2> QED BY <2>1, <2>3, <2>4 DEF InvVida, Soltada
  <1>4. ASSUME NEW h \in Hebras, Sigint(h) PROVE InvVida'
    <2>1. UNCHANGED <<prog, principal, vida, fin>> /\ Suelto(h) /\ manejador[h].fase = "no"
      BY <1>4, AjenoQuieto DEF Sigint, TypeInv
    <2>2. \A e : Soltada(e) => Soltada(e)'
      BY <2>1 DEF Soltada, Suelto
    <2> QED BY <2>1, <2>2 DEF InvVida
  <1>5. ASSUME NEW h \in Hebras, PasoManejador(h) PROVE InvVida'
    <2>1. /\ UNCHANGED <<prog, principal>> /\ fin = "no" /\ prog \in Programas /\ Suelto(h)
          /\ principal \in [fase : FasesPrincipal, i : 1 .. 6] /\ manejador[h] \in Manejadores
      BY <1>5, AjenoQuieto, TiposDe DEF PasoManejador, TypeInv, TypeOK
    <2>2. CASE ~HLibera(h)
      <3>1. vida' = vida /\ manejador[h].fase # "libera"
        <4>1. HSuma(h) => manejador[h].fase # "libera"
          BY DEF HSuma, TypeInv, InvManejador
        <4> QED BY <1>5, <2>2, <4>1 DEF PasoManejador, HAvisa, HLee, HSuma, HRecorrio
      <3>2. \A e : Soltada(e) => Soltada(e)'
        BY <2>1, <3>1 DEF Soltada, Suelto
      <3> QED BY <2>1, <3>1, <3>2 DEF InvVida
    <2>3. CASE HLibera(h)
      <3>1. /\ manejador[h].fase = "libera" /\ Termina(Manejador(h), manejador[h].i)
            /\ manejador[h].i \in 1 .. 6
        BY <1>5, <2>1, <2>3, PasoLibera DEF Manejadores
      <3>2. manejador'[h] = [fase |-> "libera", i |-> manejador[h].i + 1]
        <4>1. manejador'[h].fase # "fuera"
          <5>1. InvCurso'
            BY <1>5, CursoPaso DEF Next
          <5> QED BY <5>1 DEF InvCurso, InvFin
        <4>2. \/ manejador'[h] = [fase |-> "libera", i |-> manejador[h].i + 1]
              \/ manejador'[h] = [fase |-> "fuera", i |-> 1]
          BY <1>5, <2>3, PasoLibera
        <4> QED BY <4>1, <4>2
      <3>3. SoltadasHasta(prog, manejador[h].i) \subseteq SoltadasHasta(prog, manejador[h].i + 1)
        BY <3>1, HechasSigue
      <3>4. Creadas(prog) \subseteq Estructuras
        BY <2>1, CreadasSonEstructuras
      <3>5. /\ \A e \in Estructuras : vida[e] # "sin" => vida'[e] # "sin"
            /\ \A e \in Estructuras : vida'[e] = "libre" =>
                  vida[e] = "libre" \/ e \in SoltadasHasta(prog, manejador[h].i + 1)
        BY <3>1, TerminaVida
      <3>6. HechasHasta(prog, principal.i) \subseteq Estructuras \/ principal.fase # "crea"
        BY <2>1, HechasEstructuras DEF TypeInv, InvFases
      <3>7. \A e : Soltada(e) => Soltada(e)'
        BY <2>1, <3>1, <3>2, <3>3 DEF Soltada, Suelto
      <3>8. \A e : e \in SoltadasHasta(prog, manejador[h].i + 1) => Soltada(e)'
        BY <2>1, <3>2 DEF Soltada
      <3> QED BY <2>1, <3>4, <3>5, <3>6, <3>7, <3>8 DEF InvVida
    <2> QED BY <2>2, <2>3
  <1>6. CASE Aborta
    BY <1>6 DEF Aborta
  <1> QED BY <1>1, <1>2, <1>3, <1>4, <1>5, <1>6 DEF Next

LEMMA VidaSiempre == Spec => []InvVida
  <1>1. Init => InvVida
    <2>1. HechasHasta(prog, 1) = {}
      BY HechasSigue
    <2> QED BY <2>1 DEF Init, InvVida, Estructuras
  <1> QED BY <1>1, VidaPaso, TiposFinales, CursoSiempre, PTL DEF Spec

-----------------------------------------------------------------------------
(* Who finds something released, and who something missing.                *)

LEMMA ServidorHalla ==
    ASSUME TypeInv, InvCurso, InvVida, PasoServidor
    PROVE  /\ nulas' = {} /\ nulas = {}
           /\ danio' # danio => /\ senal["principal"].fase = "une"
                                /\ manejador["principal"].fase = "libera"
           /\ \A d \in danio' \ danio : d.hilo = "servidor"
  <1>1. PICK es \in SUBSET (Creadas(prog) \cap {"logger", "config", "lista_procesos"}) : Usa("servidor", es)
    BY ServidorToca
  <1>2. /\ principal.fase = "une" /\ manejador["servidor"].fase = "no" /\ fin = "no"
        /\ es \subseteq Estructuras \ {"entradas"}
    BY UnoCorre, CreadasSonEstructuras DEF PasoServidor, Corre, TypeInv, TypeOK
  <1>3. Tocadas("servidor", es, "sin") = {} /\ nulas = {}
    BY <1>2 DEF Tocadas, InvVida, InvCurso, InvFin
  <1>4. ASSUME Tocadas("servidor", es, "libre") # {} PROVE manejador["principal"].fase = "libera"
    <2>1. PICK e \in es : vida[e] = "libre"
      BY <1>4 DEF Tocadas
    <2>2. PICK h \in Hebras : manejador[h].fase = "libera"
      BY <1>2, <2>1 DEF InvVida, Soltada
    <2> QED BY <1>2, <2>2 DEF Hebras
  <1>5. manejador["principal"].fase = "libera" => senal["principal"].fase = "une"
    BY <1>2 DEF InvCurso, InvSenal, Interrumpida, Hebras
  <1>6. \A d \in danio' \ danio : d.hilo = "servidor"
    BY <1>1 DEF Usa, Tocadas
  <1> QED BY <1>1, <1>3, <1>4, <1>5, <1>6 DEF Usa

(* A walk of the end finds released only what the other walk released, and *)
(* missing only Swap's table, at its first step.                           *)
LEMMA TerminaHalla ==
    ASSUME TypeInv, InvCurso, InvVida, fin = "no", NEW q \in Flujos, NEW i \in 1 .. Len(Libera[prog]),
           Termina(q, i)
    PROVE  /\ \A n \in nulas' : /\ n.hilo = q
                                /\ principal.fase = "crea" \/ (prog = "swap" /\ i = 1 /\ n.que = Tabla /\ vida[Tabla] = "sin")
           /\ \A d \in danio' \ danio : /\ d.hilo = q
                                        /\ d.que # "repetido" => vida[d.que] = "libre" /\ d.que \in Toca(prog, i)
           /\ prog = "swap" /\ i = 1 /\ vida[Tabla] = "sin" => fin' = "roto"
  <1>1. nulas = {} /\ prog \in Programas
    BY DEF InvCurso, InvFin, TypeInv, TypeOK
  <1>2. nulas' = Tocadas(q, Toca(prog, i), "sin")
    BY <1>1 DEF Termina, Toca
  <1>3. \A d \in danio' \ danio : d.hilo = q /\ (d.que # "repetido" => d.que \in Toca(prog, i) /\ vida[d.que] = "libre")
    BY DEF Termina, Toca, Tocadas
  <1>4. /\ Toca(prog, i) \subseteq Creadas(prog) \cup {Tabla}
        /\ prog # "swap" \/ i # 1 => Toca(prog, i) \subseteq Creadas(prog)
        /\ prog = "swap" /\ i = 1 => Tabla \in Toca(prog, i)
    BY <1>1, TocaLoCreado
  <1>5. ASSUME NEW n \in nulas'
        PROVE  n.hilo = q /\ (principal.fase = "crea" \/ (prog = "swap" /\ i = 1 /\ n.que = Tabla /\ vida[Tabla] = "sin"))
    <2>1. n.hilo = q /\ n.que \in Toca(prog, i) /\ vida[n.que] = "sin"
      BY <1>2 DEF Tocadas
    <2> QED BY <1>4, <2>1 DEF InvVida
  <1>6. ASSUME prog = "swap", i = 1, vida[Tabla] = "sin" PROVE fin' = "roto"
    <2>1. [hilo |-> q, que |-> Tabla] \in nulas'
      BY <1>2, <1>4, <1>6 DEF Tocadas
    <2> QED BY <1>1, <2>1 DEF Termina
  <1> QED BY <1>3, <1>5, <1>6

LEMMA PrincipalHalla ==
    ASSUME TypeInv, InvCurso, InvVida, PasoPrincipal
    PROVE  /\ \A n \in nulas' : n.que = Tabla /\ prog = "swap" /\ vida[Tabla] = "sin"
           /\ \A d \in danio' \ danio : d.hilo = "principal" /\ d.que = "repetido"
  <1>1. /\ fin = "no" /\ nulas = {} /\ prog \in Programas
        /\ \A h \in Hebras : manejador[h].fase = "no"
    BY UnoCorre DEF PasoPrincipal, Corre, InvCurso, InvFin, TypeInv, TypeOK
  <1>2. CASE ~PLibera
    BY <1>1, <1>2 DEF PasoPrincipal, PCrea, PLanza, PUne
  <1>3. CASE PLibera
    <2>1. principal.fase = "libera" /\ Termina("principal", principal.i) /\ principal.i \in 1 .. Len(Libera[prog])
      <3>1. principal \in [fase : FasesPrincipal, i : 1 .. 6] /\ principal.i <= Len(Libera[prog])
        BY <1>3 DEF PLibera, TypeInv, TypeOK, InvFases
      <3>n. PICK nl \in 1 .. 6 : nl = Len(Libera[prog])
        BY <1>1, LargosTipos
      <3> QED BY <1>3, <3>1, <3>n DEF PLibera
    <2>2. ASSUME NEW d \in danio' \ danio, d.que # "repetido" PROVE FALSE
      <3>1. vida[d.que] = "libre" /\ d.que \in Toca(prog, principal.i)
        BY <1>1, <2>1, <2>2, TerminaHalla DEF Flujos, Hebras
      <3>2. d.que \in Estructuras \ {"entradas"}
        BY <1>1, <2>1, <3>1, TocaEstructuras
      <3>3. d.que \in SoltadasHasta(prog, principal.i)
        BY <1>1, <3>1, <3>2 DEF InvVida, Soltada
      <3> QED BY <1>1, <2>1, <3>1, <3>3, TocaFresco
    <2> QED BY <1>1, <2>1, <2>2, TerminaHalla DEF Flujos, Hebras
  <1> QED BY <1>2, <1>3

LEMMA ManejadorHalla ==
    ASSUME TypeInv, InvCurso, InvVida, NEW h \in Hebras, PasoManejador(h)
    PROVE  /\ \A n \in nulas' : \/ n.hilo = Manejador("principal") /\ senal["principal"].fase = "crea"
                                \/ n.que = Tabla /\ prog = "swap" /\ vida[Tabla] = "sin"
           /\ \A d \in danio' \ danio :
                /\ d.hilo = Manejador(h)
                /\ \/ d.que = "repetido"
                   \/ h = "principal" /\ senal["principal"].fase = "libera"
                   \/ \A o \in Hebras : Interrumpida(o)
  <1>1. /\ fin = "no" /\ nulas = {} /\ prog \in Programas /\ Manejador(h) \in Flujos
        /\ manejador[h] \in Manejadores
    BY TiposDe DEF PasoManejador, InvCurso, InvFin, TypeInv, TypeOK
  <1>2. /\ Interrumpida(h)
        /\ h = "servidor" => principal.fase = "une"
        /\ h = "principal" => senal["principal"].fase = principal.fase
    <2>1. Interrumpida(h)
      <3>1. HSuma(h) => manejador[h].fase # "no"
        BY DEF HSuma, TypeInv, InvManejador
      <3> QED BY <3>1 DEF PasoManejador, HAvisa, HLee, HRecorrio, HLibera, Interrumpida
    <2> QED BY <2>1, UnoCorre DEF InvCurso, InvSenal, Hebras
  <1>3. ASSUME NEW e \in Estructuras \ {"entradas"}, vida[e] = "libre",
               manejador[h].fase = "libera" => e \notin SoltadasHasta(prog, manejador[h].i)
        PROVE  \/ h = "principal" /\ senal["principal"].fase = "libera"
               \/ \A o \in Hebras : Interrumpida(o)
    <2>1. Soltada(e)
      BY <1>1, <1>3 DEF InvVida
    <2>2. CASE principal.fase = "libera"
      BY <1>2, <2>2 DEF Hebras
    <2>3. CASE principal.fase # "libera"
      <3>1. PICK o \in Hebras : manejador[o].fase = "libera" /\ e \in SoltadasHasta(prog, manejador[o].i)
        BY <2>1, <2>3 DEF Soltada
      <3>2. o # h /\ Interrumpida(o)
        BY <1>3, <3>1 DEF Interrumpida
      <3> QED BY <1>2, <3>2 DEF Hebras
    <2> QED BY <2>2, <2>3
  <1>4. ASSUME principal.fase = "crea" PROVE h = "principal" /\ senal["principal"].fase = "crea"
    BY <1>2, <1>4 DEF Hebras
  <1>5. CASE ~HLibera(h)
    <2>1. /\ manejador[h].fase # "libera"
          /\ \E es \in SUBSET Creadas(prog) : Usa(Manejador(h), es)
      <3>1. "logger" \in Creadas(prog) /\ (prog = "memoria" => "lista_procesos" \in Creadas(prog))
        BY DEF Creadas
      <3>2. manejador[h].fase \in {"miss", "hit"} => prog = "memoria"
        BY DEF InvCurso, InvSenal
      <3>3. HSuma(h) => manejador[h].fase \in {"miss", "hit"}
        BY DEF HSuma, TypeInv, InvManejador
      <3>4. manejador[h].fase # "libera"
        BY <1>5, <3>3 DEF PasoManejador, HAvisa, HLee, HRecorrio
      <3>5. CASE prog = "memoria"
        <4>1. PICK es \in SUBSET {"logger", "lista_procesos"} : Usa(Manejador(h), es)
          BY <1>5, ManejadorUsa
        <4> QED BY <3>1, <3>4, <3>5, <4>1
      <3>6. CASE prog # "memoria"
        <4>1. HAvisa(h)
          BY <1>5, <3>2, <3>3, <3>6 DEF PasoManejador, HLee, HRecorrio
        <4>2. PICK es \in SUBSET {"logger"} :
                 es = {"logger"} \cup IF prog = "memoria" THEN {"lista_procesos"} ELSE {}
          BY <3>6
        <4>3. Usa(Manejador(h), es)
          BY <4>1, <4>2, Zenon DEF HAvisa
        <4> QED BY <3>1, <3>4, <4>3
      <3> QED BY <3>5, <3>6
    <2>2. PICK es \in SUBSET Creadas(prog) : Usa(Manejador(h), es)
      BY <2>1
    <2>3. es \subseteq Estructuras \ {"entradas"}
      BY <1>1, CreadasSonEstructuras
    <2>4. principal.fase # "crea" => Tocadas(Manejador(h), es, "sin") = {}
      BY <1>1 DEF InvVida, Tocadas
    <2>5. \A n \in nulas' : n.hilo = Manejador(h) /\ n \in Tocadas(Manejador(h), es, "sin")
      BY <1>1, <2>2 DEF Usa, Tocadas
    <2>6. ASSUME NEW d \in danio' \ danio
          PROVE  /\ d.hilo = Manejador(h) /\ d.que \in Estructuras \ {"entradas"}
                 /\ vida[d.que] = "libre"
      BY <2>2, <2>3 DEF Usa, Tocadas
    <2> QED BY <1>3, <1>4, <2>1, <2>4, <2>5, <2>6
  <1>6. CASE HLibera(h)
    <2>1. /\ manejador[h].fase = "libera" /\ manejador[h].i \in 1 .. Len(Libera[prog])
          /\ Termina(Manejador(h), manejador[h].i)
      BY <1>6, PasoLibera
    <2>2. /\ \A n \in nulas' : /\ n.hilo = Manejador(h)
                               /\ \/ principal.fase = "crea"
                                  \/ prog = "swap" /\ n.que = Tabla /\ vida[Tabla] = "sin"
          /\ \A d \in danio' \ danio :
                /\ d.hilo = Manejador(h)
                /\ d.que # "repetido" => vida[d.que] = "libre" /\ d.que \in Toca(prog, manejador[h].i)
      BY <1>1, <2>1, TerminaHalla
    <2>3. ASSUME NEW d \in danio' \ danio, d.que # "repetido"
          PROVE  \/ h = "principal" /\ senal["principal"].fase = "libera"
                 \/ \A o \in Hebras : Interrumpida(o)
      <3>1. vida[d.que] = "libre" /\ d.que \in Toca(prog, manejador[h].i)
        BY <2>2, <2>3
      <3>2. d.que \in Estructuras \ {"entradas"}
        BY <1>1, <2>1, <3>1, TocaEstructuras
      <3>3. d.que \notin SoltadasHasta(prog, manejador[h].i)
        BY <1>1, <2>1, <3>1, TocaFresco
      <3> QED BY <1>3, <3>1, <3>2, <3>3
    <2> QED BY <1>4, <2>2, <2>3
  <1> QED BY <1>5, <1>6

-----------------------------------------------------------------------------
(* Swap's table exists once the fixed assignment was asked for, and an end *)
(* gets past its first step only then.                                     *)
InvTabla ==
    fin = "no" =>
      /\ asignacion = "fija" => /\ prog = "swap" /\ servidor \in {"pedidos", "salio"}
                                /\ principal.fase \in {"une", "libera"}
      /\ vida[Tabla] = "sin" <=> asignacion # "fija"
      /\ prog = "swap" /\ principal.fase = "libera" /\ principal.i > 1 => asignacion = "fija"
      /\ \A h \in Hebras :
            prog = "swap" /\ manejador[h].fase = "libera" /\ manejador[h].i > 1 => asignacion = "fija"

(* Only Swap's first step of the end touches the table.                    *)
LEMMA TerminaTabla ==
    ASSUME TypeInv, InvCurso, InvVida, fin = "no", NEW q \in Flujos, NEW i \in 1 .. Len(Libera[prog]),
           Termina(q, i)
    PROVE  /\ vida'[Tabla] = "sin" => vida[Tabla] = "sin"
           /\ vida'[Tabla] # "sin" /\ vida[Tabla] = "sin" => fin' = "roto"
           /\ prog = "swap" /\ i = 1 /\ fin' # "roto" => vida[Tabla] # "sin"
  <1>1. prog \in Programas /\ Tabla \in Estructuras
    BY DEF TypeInv, TypeOK, Tabla, Estructuras
  <1>2. vida'[Tabla] = IF Tabla \in Libera[prog][i].libera THEN "libre" ELSE vida[Tabla]
    BY <1>1 DEF Termina
  <1>3. Libera[prog][i].libera \subseteq Toca(prog, i)
    BY <1>1, TocaEstructuras
  <1>4. Tabla \in Toca(prog, i) => prog = "swap" /\ i = 1
    BY <1>1, TocaLoCreado
  <1>5. prog = "swap" /\ i = 1 /\ vida[Tabla] = "sin" => fin' = "roto"
    BY TerminaHalla
  <1> QED BY <1>2, <1>3, <1>4, <1>5

LEMMA TablaPrincipal ==
    ASSUME TypeInv, InvCurso, InvVida, InvTabla, PasoPrincipal, fin' = "no"
    PROVE  InvTabla'
  <1>1. /\ fin = "no" /\ (\A h \in Hebras : manejador[h].fase = "no") /\ UNCHANGED <<prog, manejador, asignacion>>
        /\ principal \in [fase : FasesPrincipal, i : 1 .. 6] /\ prog \in Programas
    BY UnoCorre DEF PasoPrincipal, Corre, datos, TypeInv, TypeOK
  <1>2. CASE PCrea
    <2>1. asignacion # "fija" /\ servidor' = servidor /\ (principal'.fase # "libera" \/ principal'.i = 1)
      <3>1. principal' = IF principal.i < Len(Crea[prog]) THEN [fase |-> "crea", i |-> principal.i + 1]
                         ELSE [fase |-> IF Hilos[prog] = <<>> THEN "libera" ELSE "lanza", i |-> 1]
        BY <1>1, <1>2, AvanzaTipos DEF PCrea
      <3> QED BY <1>1, <1>2, <3>1 DEF PCrea, InvTabla
    <2>2. vida'[Tabla] = vida[Tabla]
      <3>1. Tabla \notin Crea[prog][principal.i]
        <4>n. principal.i <= Len(Crea[prog])
          BY <1>2 DEF PCrea, TypeInv, InvFases
        <4>1. CASE prog = "memoria"
          <5>1. principal.i \in {1, 2, 3, 4, 5}
            BY <1>1, <4>n, <4>1, Largos
          <5> QED BY <4>1, <5>1 DEF Crea, Tabla
        <4>2. CASE prog \in {"swap", "kernel"}
          <5>1. Len(Crea[prog]) = 3
            BY <4>2, Largos
          <5>2. principal.i \in {1, 2, 3}
            BY <1>1, <4>n, <5>1
          <5> QED BY <4>2, <5>2 DEF Crea, Tabla
        <4> QED BY <1>1, <4>1, <4>2 DEF Programas
      <3>2. Tabla \in Estructuras
        BY DEF Tabla, Estructuras
      <3> QED BY <1>2, <3>1, <3>2 DEF PCrea
    <2>3. ~(prog = "swap" /\ principal'.fase = "libera" /\ principal'.i > 1)
      BY <2>1
    <2> QED BY <1>1, <2>1, <2>2, <2>3 DEF InvTabla
  <1>3. CASE PLanza
    <2>1. asignacion # "fija" /\ vida' = vida /\ principal'.fase = "une"
      BY <1>1, <1>3 DEF PLanza, InvTabla
    <2> QED BY <1>1, <2>1 DEF InvTabla
  <1>4. CASE PUne
    <2>1. principal.fase = "une" /\ UNCHANGED <<vida, servidor>>
      BY <1>4 DEF PUne
    <2>2. CASE principal.i < Len(Hilos[prog])
      <3>1. principal'.fase = "lanza"
        BY <1>4, <2>2 DEF PUne
      <3>2. prog # "swap"
        <4>1. SUFFICES ASSUME prog = "swap" PROVE FALSE
          OBVIOUS
        <4>2. Len(Hilos[prog]) = 1 /\ principal.i >= 1
          BY <1>1, <4>1, Largos
        <4> QED BY <1>1, <2>2, <4>2
      <3> QED BY <1>1, <2>1, <3>1, <3>2 DEF InvTabla
    <2>3. CASE ~(principal.i < Len(Hilos[prog]))
      <3>1. principal' = [fase |-> "libera", i |-> 1]
        BY <1>4, <2>3 DEF PUne
      <3> QED BY <1>1, <2>1, <3>1 DEF InvTabla
    <2> QED BY <2>2, <2>3
  <1>5. CASE PLibera
    <2>1. principal.fase = "libera" /\ Termina("principal", principal.i) /\ servidor' = servidor
      BY <1>5 DEF PLibera
    <2>2. principal.i \in 1 .. Len(Libera[prog])
      <3>1. principal.i <= Len(Libera[prog])
        BY <2>1 DEF TypeInv, InvFases
      <3>n. PICK nl \in 1 .. 6 : nl = Len(Libera[prog])
        BY <1>1, LargosTipos
      <3> QED BY <1>1, <3>1, <3>n
    <2>3. /\ vida'[Tabla] = "sin" <=> vida[Tabla] = "sin"
          /\ prog = "swap" /\ principal.i = 1 => vida[Tabla] # "sin"
      BY <1>1, <2>1, <2>2, TerminaTabla DEF Flujos, Hebras
    <2>4. prog = "swap" => asignacion = "fija"
      <3>1. principal.i = 1 \/ principal.i > 1
        BY <1>1
      <3> QED BY <1>1, <2>1, <2>3, <3>1 DEF InvTabla
    <2>5. principal'.fase = "libera"
      <3>1. principal'.fase # "fuera"
        BY CursoPaso DEF InvCurso, InvFin, Next
      <3> QED BY <1>1, <1>5, <3>1, PasoFinal DEF PLibera, TypeInv, InvFases
    <2> QED BY <1>1, <2>1, <2>3, <2>4, <2>5 DEF InvTabla
  <1> QED BY <1>2, <1>3, <1>4, <1>5 DEF PasoPrincipal

LEMMA TablaPaso == TypeInv /\ InvCurso /\ InvVida /\ InvTabla /\ [Next]_vars => InvTabla'
  <1> SUFFICES ASSUME TypeInv, InvCurso, InvVida, InvTabla, [Next]_vars, fin' = "no" PROVE InvTabla'
    BY DEF InvTabla
  <1>1. CASE UNCHANGED vars
    BY <1>1 DEF InvTabla, vars, hilos, datos
  <1>2. CASE PasoPrincipal
    BY <1>2, TablaPrincipal
  <1>3. CASE PasoServidor
    <2>1. /\ UNCHANGED <<prog, principal, manejador>> /\ fin = "no" /\ principal.fase = "une"
          /\ vida \in [Estructuras -> {"sin", "viva", "libre"}] /\ Tabla \in Estructuras
      BY <1>3, UnoCorre DEF PasoServidor, Corre, TypeInv, TypeOK, Tabla, Estructuras
    <2>2. CASE SAsigna
      <3>1. asignacion # "fija" /\ prog = "swap" /\ servidor' = "pedidos"
        BY <2>1, <2>2 DEF SAsigna, InvTabla
      <3>2. vida'[Tabla] = "sin" <=> asignacion' # "fija"
        <4>1. vida[Tabla] = "sin"
          BY <2>1, <3>1 DEF InvTabla
        <4>2. asignacion' = "fija" => vida'[Tabla] = "viva"
          BY <2>1, <2>2 DEF SAsigna, Tabla
        <4>3. asignacion' # "fija" => vida' = vida
          BY <2>2 DEF SAsigna
        <4> QED BY <4>1, <4>2, <4>3
      <3> QED BY <2>1, <3>1, <3>2 DEF InvTabla
    <2>3. CASE ~SAsigna
      <3>1. UNCHANGED <<vida, asignacion>>
        BY <1>3, <2>3 DEF PasoServidor, MConversa, MAcepta, MBusca, MCrea, MAgrega, SRechaza, SPedido, datos
      <3>2. servidor = "pedidos" => servidor' \in {"pedidos", "salio"}
        BY <1>3, <2>3 DEF PasoServidor, MConversa, MAcepta, MBusca, MCrea, MAgrega, SRechaza, SPedido
      <3>3. servidor # "salio"
        BY <1>3, UnoCorre DEF Atiende
      <3> QED BY <2>1, <3>1, <3>2, <3>3 DEF InvTabla
    <2> QED BY <2>2, <2>3
  <1>4. ASSUME NEW h \in Hebras, Sigint(h) PROVE InvTabla'
    <2>1. /\ UNCHANGED <<prog, vida, principal, servidor, asignacion, fin>> /\ Suelto(h)
          /\ manejador \in [Hebras -> Manejadores]
      BY <1>4, AjenoQuieto, TiposDe DEF Sigint, TypeInv
    <2>2. manejador'[h].fase = "aviso"
      BY <1>4, <2>1 DEF Sigint
    <2> QED BY <2>1, <2>2 DEF InvTabla, Suelto
  <1>5. ASSUME NEW h \in Hebras, PasoManejador(h) PROVE InvTabla'
    <2>1. /\ UNCHANGED <<prog, principal, servidor, asignacion>> /\ fin = "no" /\ Suelto(h)
          /\ prog \in Programas /\ Manejador(h) \in Flujos
      BY <1>5, AjenoQuieto, TiposDe DEF PasoManejador, TypeInv, TypeOK
    <2>2. SUFFICES /\ vida'[Tabla] = "sin" <=> vida[Tabla] = "sin"
                   /\ prog = "swap" /\ manejador'[h].fase = "libera" /\ manejador'[h].i > 1 =>
                         asignacion = "fija"
      BY <2>1 DEF InvTabla, Suelto
    <2>3. CASE ~HLibera(h)
      <3>1. vida' = vida
        BY <1>5, <2>3 DEF PasoManejador, HAvisa, HLee, HSuma, HRecorrio
      <3>2. manejador'[h].i = manejador[h].i /\ manejador[h].fase # "libera"
        <4>0. TypeOK
          BY DEF TypeInv
        <4>1. ASSUME HAvisa(h) PROVE manejador'[h].i = manejador[h].i /\ manejador[h].fase # "libera"
          <5>1. /\ manejador[h].fase = "aviso"
                /\ manejador'[h] = [fase |-> IF prog = "memoria" THEN "miss" ELSE "libera",
                                    i |-> manejador[h].i]
            BY <1>5, <4>0, <4>1, PasoAvisa
          <5> QED BY <5>1
        <4>2. HLee(h) => manejador'[h].i = manejador[h].i /\ manejador[h].fase # "libera"
          BY <1>5, PasoLee
        <4>3. HSuma(h) => manejador'[h].i = manejador[h].i /\ manejador[h].fase # "libera"
          BY <1>5, PasoSuma
        <4>4. ASSUME HRecorrio(h) PROVE manejador'[h].i = manejador[h].i /\ manejador[h].fase # "libera"
          <5>1. /\ manejador[h].fase \in {"miss", "hit"}
                /\ manejador'[h] = [fase |-> IF manejador[h].fase = "miss" THEN "hit" ELSE "libera",
                                    i |-> manejador[h].i]
            BY <1>5, <4>0, <4>4, PasoRecorrio
          <5> QED BY <5>1
        <4> QED BY <1>5, <2>3, <4>1, <4>2, <4>3, <4>4 DEF PasoManejador
      <3>3. manejador'[h].i = 1
        BY <3>2 DEF TypeInv, InvManejador
      <3>4. ~(manejador'[h].i > 1)
        BY <3>3
      <3> QED BY <3>1, <3>4
    <2>4. CASE HLibera(h)
      <3>1. /\ manejador[h].fase = "libera" /\ manejador[h].i \in 1 .. Len(Libera[prog])
            /\ Termina(Manejador(h), manejador[h].i)
        BY <1>5, <2>4, PasoLibera
      <3>2. /\ vida'[Tabla] = "sin" <=> vida[Tabla] = "sin"
            /\ prog = "swap" /\ manejador[h].i = 1 => vida[Tabla] # "sin"
        BY <2>1, <3>1, TerminaTabla
      <3>3. prog = "swap" => asignacion = "fija"
        <4>n. PICK nl \in 1 .. 6 : nl = Len(Libera[prog])
          BY <2>1, LargosTipos
        <4>1. manejador[h].i = 1 \/ manejador[h].i > 1
          BY <3>1, <4>n
        <4> QED BY <2>1, <3>1, <3>2, <4>1 DEF InvTabla
      <3> QED BY <3>2, <3>3
    <2> QED BY <2>3, <2>4
  <1>6. CASE Aborta
    BY <1>6 DEF Aborta
  <1> QED BY <1>1, <1>2, <1>3, <1>4, <1>5, <1>6 DEF Next

LEMMA TablaSiempre == Spec => []InvTabla
  <1>1. Init => InvTabla
    BY DEF Init, InvTabla, Tabla, Estructuras
  <1> QED BY <1>1, TablaPaso, TiposFinales, CursoSiempre, VidaSiempre, PTL DEF Spec

-----------------------------------------------------------------------------
InvFinales == TypeInv /\ InvCurso /\ InvVida /\ InvTabla

LEMMA FinalesSiempre == Spec => []InvFinales
  BY TiposFinales, CursoSiempre, VidaSiempre, TablaSiempre, PTL DEF InvFinales

(* Which step leaves its mark: nobody adds to danio and nulas but main,    *)
(* the server and the handlers, and a signal, once it came, stays.         *)
LEMMA Marcas ==
    ASSUME InvFinales, [Next]_vars
    PROVE  /\ \/ PasoPrincipal \/ PasoServidor \/ \E h \in Hebras : PasoManejador(h)
              \/ danio' = danio /\ nulas' = nulas
           /\ danio \subseteq danio'
           /\ \A h \in Hebras : senal[h].fase # "no" => senal'[h] = senal[h]
           /\ \A h \in Hebras : manejador[h].fase \in {"libera", "fuera"} =>
                                   manejador'[h].fase \in {"libera", "fuera"}
           /\ \A h \in Hebras : Interrumpida(h) => Interrumpida(h)'
           /\ fin # "no" => UNCHANGED vars
           /\ asignacion' # asignacion => PasoServidor
           /\ prog' = prog
  <1>0. TypeInv /\ InvSenal
    BY DEF InvFinales, InvCurso
  <1>1. ASSUME NEW h \in Hebras, Sigint(h) \/ PasoManejador(h), NEW o \in Hebras
        PROVE  /\ senal[o].fase # "no" => senal'[o] = senal[o]
               /\ manejador[o].fase \in {"libera", "fuera"} => manejador'[o].fase \in {"libera", "fuera"}
    <2>1. CASE o # h
      BY <1>0, <1>1, <2>1, AjenoQuieto DEF TypeInv, Suelto
    <2>2. CASE o = h /\ Sigint(h)
      BY <1>0, <2>2 DEF Sigint, InvSenal, Interrumpida
    <2>3. CASE o = h /\ PasoManejador(h)
      <3>1. ASSUME HLibera(h) PROVE manejador'[h].fase \in {"libera", "fuera"}
        <4>1. \/ manejador'[h] = [fase |-> "libera", i |-> manejador[h].i + 1]
              \/ manejador'[h] = [fase |-> "fuera", i |-> 1]
          BY <1>0, <2>3, <3>1, PasoLibera
        <4> QED BY <4>1
      <3>2. HSuma(h) => manejador[h].fase \in {"miss", "hit"}
        BY <1>0, <2>3, PasoSuma
      <3> QED BY <2>3, <3>1, <3>2 DEF PasoManejador, HAvisa, HLee, HRecorrio
    <2> QED BY <1>1, <2>1, <2>2, <2>3
  <1>2. \A h \in Hebras : senal[h].fase # "no" => senal'[h] = senal[h]
    BY <1>1 DEF Next, PasoPrincipal, PasoServidor, Aborta, vars, hilos
  <1>3. \A h \in Hebras : manejador[h].fase \in {"libera", "fuera"} =>
                              manejador'[h].fase \in {"libera", "fuera"}
    BY <1>1 DEF Next, PasoPrincipal, PasoServidor, Aborta, vars, hilos
  <1>4. InvSenal'
    BY CursoPaso DEF InvFinales, InvCurso
  <1>5. \A h \in Hebras : Interrumpida(h) => Interrumpida(h)'
    BY <1>0, <1>2, <1>4 DEF InvSenal
  <1>6. danio \subseteq danio'
    <2>1. PasoPrincipal => danio \subseteq danio'
      BY DEF PasoPrincipal, PCrea, PLanza, PUne, PLibera, Termina
    <2>2. PasoServidor => danio \subseteq danio'
      BY DEF PasoServidor, MConversa, MAcepta, MBusca, MCrea, MAgrega, SAsigna, SRechaza, SPedido, Usa
    <2>3. ASSUME NEW h \in Hebras, PasoManejador(h) PROVE danio \subseteq danio'
      BY <2>3, ManejadorUsa DEF Usa, HLibera, Termina
    <2> QED BY <2>1, <2>2, <2>3 DEF Next, Sigint, Aborta, vars
  <1>7. /\ \/ PasoPrincipal \/ PasoServidor \/ \E h \in Hebras : PasoManejador(h)
           \/ danio' = danio /\ nulas' = nulas
        /\ fin # "no" => UNCHANGED vars
    BY DEF Next, PasoPrincipal, PasoServidor, PasoManejador, Sigint, Aborta, Corre, vars
  <1>8. asignacion' # asignacion => PasoServidor
    BY DEF Next, PasoPrincipal, PasoManejador, Sigint, Aborta, vars, datos
  <1>9. prog' = prog
    BY DEF Next, PasoPrincipal, PasoServidor, PasoManejador, Sigint, Aborta, vars
  <1> QED BY <1>2, <1>3, <1>5, <1>6, <1>7, <1>8, <1>9

(* hiloSwap, hiloConexion and Swap's server use something released only    *)
(* after SIGINT took main out of pthread_join, and the handler on main     *)
(* released it.                                                            *)
THEOREM ElServidorUsaVivo == Spec => []ServidorUsaVivo
  <1>1. Init => ServidorUsaVivo
    BY DEF Init, ServidorUsaVivo
  <1>2. InvFinales /\ ServidorUsaVivo /\ [Next]_vars => ServidorUsaVivo'
    <2> SUFFICES ASSUME InvFinales, ServidorUsaVivo, [Next]_vars, NEW d \in danio', d.hilo = "servidor"
                 PROVE  /\ senal'["principal"].fase = "une"
                        /\ manejador'["principal"].fase \in {"libera", "fuera"}
      BY DEF ServidorUsaVivo
    <2>h. "principal" \in Hebras
      BY DEF Hebras
    <2>1. CASE d \in danio
      <3>1. senal["principal"].fase = "une" /\ manejador["principal"].fase \in {"libera", "fuera"}
        BY <2>1 DEF ServidorUsaVivo
      <3> QED BY <2>h, <3>1, Marcas
    <2>2. CASE d \notin danio
      <3>1. PasoServidor
        <4>1. ~PasoPrincipal
          BY <2>2, PrincipalHalla DEF InvFinales
        <4>2. \A h \in Hebras : Manejador(h) # "servidor"
          BY DEF Manejador
        <4>3. \A h \in Hebras : ~PasoManejador(h)
          BY <2>2, <4>2, ManejadorHalla DEF InvFinales
        <4> QED BY <2>2, <4>1, <4>3, Marcas
      <3>2. senal["principal"].fase = "une" /\ manejador["principal"].fase = "libera"
        BY <2>2, <3>1, ServidorHalla DEF InvFinales
      <3> QED BY <2>h, <3>2, Marcas
    <2> QED BY <2>1, <2>2
  <1> QED BY <1>1, <1>2, FinalesSiempre, PTL DEF Spec

(* terminar_programa, terminarSwap and cerrar_programa, from main and from *)
(* the handlers: main never releases twice nor uses too late.  A handler   *)
(* does when SIGINT found main in the middle of a release, or when there   *)
(* are two of them, because a second signal went to the other thread.      *)
THEOREM SeLiberaUnaVez == Spec => []UnaLiberacion
  <1>1. Init => UnaLiberacion
    BY DEF Init, UnaLiberacion
  <1>2. InvFinales /\ UnaLiberacion /\ [Next]_vars => UnaLiberacion'
    <2> SUFFICES ASSUME InvFinales, UnaLiberacion, [Next]_vars, NEW d \in danio',
                        d.hilo # "servidor", d.que # "repetido"
                 PROVE  \/ d.hilo = Manejador("principal") /\ senal'["principal"].fase = "libera"
                        \/ \A h \in Hebras : Interrumpida(h)' /\ d.hilo # h
      BY DEF UnaLiberacion, Manejador
    <2>h. "principal" \in Hebras
      BY DEF Hebras
    <2>1. senal["principal"].fase = "libera" => senal'["principal"].fase = "libera"
      BY <2>h, Marcas
    <2>2. (\A h \in Hebras : Interrumpida(h)) => \A h \in Hebras : Interrumpida(h)'
      BY Marcas
    <2>3. CASE d \in danio
      <3>1. \/ d.hilo = Manejador("principal") /\ senal["principal"].fase = "libera"
            \/ \A h \in Hebras : Interrumpida(h) /\ d.hilo # h
        BY <2>3 DEF UnaLiberacion
      <3> QED BY <2>1, <2>2, <3>1
    <2>4. CASE d \notin danio
      <3>1. PICK h \in Hebras : PasoManejador(h)
        <4>1. ~PasoPrincipal
          BY <2>4, PrincipalHalla DEF InvFinales
        <4>2. ~PasoServidor
          BY <2>4, ServidorHalla DEF InvFinales
        <4> QED BY <2>4, <4>1, <4>2, Marcas
      <3>2. /\ d.hilo = Manejador(h)
            /\ \/ h = "principal" /\ senal["principal"].fase = "libera"
               \/ \A o \in Hebras : Interrumpida(o)
        BY <2>4, <3>1, ManejadorHalla DEF InvFinales
      <3>3. \A o \in Hebras : Manejador(h) # o
        BY DEF Manejador, Hebras
      <3> QED BY <2>1, <2>2, <3>2, <3>3
    <2> QED BY <2>3, <2>4
  <1> QED BY <1>1, <1>2, FinalesSiempre, PTL DEF Spec

(* The end of a program meets a pointer nobody set only when SIGINT came   *)
(* before main had created everything, or for Swap's table.                *)
THEOREM SoloFaltaLaTabla == Spec => []NuloTemprano
  <1>1. Init => NuloTemprano
    BY DEF Init, NuloTemprano
  <1>2. InvFinales /\ NuloTemprano /\ [Next]_vars => NuloTemprano'
    <2> SUFFICES ASSUME InvFinales, NuloTemprano, [Next]_vars, NEW n \in nulas'
                 PROVE  \/ n.hilo = Manejador("principal") /\ senal'["principal"].fase = "crea"
                        \/ n.que = "tabla_de_marcos_fija" /\ asignacion' # "fija"
      BY DEF NuloTemprano, Manejador
    <2>1. senal["principal"].fase = "crea" => senal'["principal"].fase = "crea"
      BY Marcas DEF Hebras
    <2>2. CASE fin # "no"
      <3>1. UNCHANGED <<nulas, asignacion>>
        BY <2>2, Marcas DEF vars, datos
      <3> QED BY <2>1, <3>1 DEF NuloTemprano
    <2>3. CASE fin = "no"
      <3>1. nulas = {} /\ (vida[Tabla] = "sin" => asignacion # "fija")
        BY <2>3 DEF InvFinales, InvCurso, InvFin, InvTabla
      <3>2. PasoPrincipal \/ \E h \in Hebras : PasoManejador(h)
        BY <3>1, Marcas, ServidorHalla DEF InvFinales
      <3>3. asignacion' = asignacion
        BY <3>2 DEF PasoPrincipal, PasoManejador, datos
      <3>4. \/ n.hilo = Manejador("principal") /\ senal["principal"].fase = "crea"
            \/ n.que = Tabla /\ vida[Tabla] = "sin"
        BY <3>2, PrincipalHalla, ManejadorHalla DEF InvFinales
      <3> QED BY <2>1, <3>1, <3>3, <3>4 DEF Tabla
    <2> QED BY <2>2, <2>3
  <1> QED BY <1>1, <1>2, FinalesSiempre, PTL DEF Spec

(* terminarSwap reaches its end only after a fixed assignment.             *)
THEOREM SwapSaleConTabla == Spec => []SwapSaleSoloFija
  <1>1. Init => SwapSaleSoloFija
    BY DEF Init, SwapSaleSoloFija
  <1>2. InvFinales /\ SwapSaleSoloFija /\ [Next]_vars => SwapSaleSoloFija'
    <2> SUFFICES ASSUME InvFinales, SwapSaleSoloFija, [Next]_vars, prog' = "swap", fin' = "exit"
                 PROVE  asignacion' = "fija"
      BY DEF SwapSaleSoloFija
    <2>1. CASE fin # "no"
      <3>1. UNCHANGED <<prog, fin, asignacion>>
        BY <2>1, Marcas DEF vars, datos
      <3> QED BY <3>1 DEF SwapSaleSoloFija
    <2>2. CASE fin = "no"
      <3>1. prog = "swap"
        BY Marcas
      <3>2. \/ PasoPrincipal /\ PLibera
            \/ \E h \in Hebras : PasoManejador(h) /\ HLibera(h)
        <4>1. fin' # fin /\ ~PasoServidor /\ ~Aborta /\ \A h \in Hebras : ~Sigint(h)
          BY <2>2 DEF PasoServidor, Sigue, Sigint, Aborta
        <4>2. PasoPrincipal => PLibera
          BY <4>1 DEF PasoPrincipal, PCrea, PLanza, PUne
        <4>3. ASSUME NEW h \in Hebras, PasoManejador(h) PROVE HLibera(h)
          BY <2>2, <4>3 DEF PasoManejador, HAvisa, HLee, HSuma, HRecorrio, Sigue
        <4> QED BY <4>1, <4>2, <4>3 DEF Next, vars
      <3>3. asignacion' = asignacion
        BY <3>2 DEF PasoPrincipal, PasoManejador, datos
      <3>4. \/ principal.fase = "libera" /\ Salida(principal.i) = "exit"
            \/ \E h \in Hebras : manejador[h].fase = "libera" /\ Salida(manejador[h].i) = "exit"
        BY <3>2 DEF PLibera, HLibera, Termina
      <3>5. \A i : Salida(i) = "exit" => i > 1
        BY <3>1, Largos DEF Salida
      <3> QED BY <2>2, <3>1, <3>3, <3>4, <3>5 DEF InvFinales, InvTabla
    <2> QED BY <2>1, <2>2
  <1> QED BY <1>1, <1>2, FinalesSiempre, PTL DEF Spec

-----------------------------------------------------------------------------
(* What each walk of metricas has added so far: exactly, as long as one    *)
(* handler runs; and at most, when there are two of them and one may write *)
(* back a total that it read before the other's additions.                 *)
Solo(h) == \A o \in Hebras \ {h} : ~Interrumpida(o)

InvSolo(h) ==
    /\ manejador[h].fase \in {"no", "aviso"} => totales.miss = 0 /\ totales.hit = 0
    /\ manejador[h].fase = "miss" =>
          /\ totales.miss = 31 * recorrido[h].van /\ totales.hit = 0
          /\ recorrido[h].leido \in {SinLeer, totales.miss}
    /\ manejador[h].fase = "hit" =>
          /\ totales.hit = 25 * recorrido[h].van
          /\ recorrido[h].leido \in {SinLeer, totales.hit}
          /\ \E m \in senal[h].registrados .. recorrido[h].visto : totales.miss = 31 * m
    /\ manejador[h].fase \in {"miss", "hit"} =>
          senal[h].registrados <= recorrido[h].visto /\ ~ListaLibre
    /\ MetricasDe(h)

Cuenta(h, c) ==
    IF manejador[h].fase = c THEN recorrido[h].van
    ELSE IF manejador[h].fase \in {"libera", "fuera"} \/ (c = "miss" /\ manejador[h].fase = "hit") THEN procesos
    ELSE 0

Suma(c) == Cuenta("principal", c) + Cuenta("servidor", c)

InvDoble(c) ==
    /\ totales[c] \in Nat /\ totales[c] <= PorCarpincho[c] * Suma(c)
    /\ \A h \in Hebras : manejador[h].fase = c /\ recorrido[h].leido # SinLeer =>
          recorrido[h].leido \in Nat /\ recorrido[h].leido <= PorCarpincho[c] * Suma(c)

InvMetricas ==
    prog = "memoria" =>
      /\ \A h \in Hebras : senal[h].registrados <= procesos
      /\ ListaSana => /\ \A h \in Hebras : Solo(h) => InvSolo(h)
                      /\ InvDoble("miss") /\ InvDoble("hit")

LEMMA Cotas ==
    /\ PorCarpincho["miss"] = 31 /\ PorCarpincho["hit"] = 25
    /\ \A a, b \in Nat : a <= b => 31 * a <= 31 * b /\ 25 * a <= 25 * b
    /\ \A a, b \in Nat : a + 1 <= b => 31 * a + 31 <= 31 * b /\ 25 * a + 25 <= 25 * b
  BY DEF PorCarpincho, MissAlRegistrar, HitAlCrear

(* Using the released list is what ListaSana excludes.                     *)
LEMMA UsaLista ==
    ASSUME TypeInv, ListaSana', NEW h \in Hebras, NEW es, "lista_procesos" \in es, Usa(Manejador(h), es)
    PROVE  ~ListaLibre
  <1> SUFFICES ASSUME ListaLibre PROVE FALSE
    OBVIOUS
  <1>1. [hilo |-> Manejador(h), que |-> "lista_procesos"] \in Tocadas(Manejador(h), es, "libre")
    BY DEF Tocadas, ListaLibre
  <1> QED BY <1>1 DEF Usa, ListaSana

(* The steps of a handler of Memoria that walks no released list.          *)
LEMMA PasoMetricas ==
    ASSUME InvFinales, NEW h \in Hebras, PasoManejador(h), prog = "memoria", ListaSana'
    PROVE  \/ /\ manejador[h].fase = "aviso" /\ manejador'[h].fase = "miss" /\ totales' = totales
              /\ recorrido'[h].van = 0 /\ recorrido'[h].visto = procesos /\ recorrido'[h].leido = SinLeer
              /\ ~ListaLibre /\ vida' = vida
           \/ /\ manejador[h].fase \in {"miss", "hit"} /\ manejador'[h].fase = manejador[h].fase
              /\ totales' = totales /\ vida' = vida
              /\ recorrido'[h].van = recorrido[h].van /\ recorrido'[h].visto = procesos
              /\ recorrido'[h].leido = totales[manejador[h].fase]
           \/ /\ manejador[h].fase \in {"miss", "hit"} /\ manejador'[h].fase = manejador[h].fase
              /\ recorrido[h].leido # SinLeer /\ vida' = vida
              /\ recorrido'[h].van = recorrido[h].van + 1 /\ recorrido'[h].visto = recorrido[h].visto
              /\ recorrido'[h].leido = SinLeer
              /\ totales' = [totales EXCEPT ![manejador[h].fase] =
                                IF recorrido[h].leido = Basura THEN Basura
                                ELSE recorrido[h].leido + PorCarpincho[manejador[h].fase]]
           \/ /\ manejador[h].fase = "miss" /\ manejador'[h].fase = "hit" /\ totales' = totales
              /\ recorrido[h].van = recorrido[h].visto /\ vida' = vida
              /\ recorrido'[h].van = 0 /\ recorrido'[h].visto = procesos /\ recorrido'[h].leido = SinLeer
           \/ /\ manejador[h].fase = "hit" /\ manejador'[h].fase = "libera" /\ totales' = totales
              /\ recorrido[h].van = recorrido[h].visto \/ ListaLibre
              /\ recorrido'[h].leido = SinLeer
           \/ /\ manejador[h].fase = "libera" /\ manejador'[h].fase \in {"libera", "fuera"}
              /\ totales' = totales /\ recorrido' = recorrido
  <1>0. TypeInv /\ TypeOK
    BY DEF InvFinales, TypeInv
  <1>1. Inicio(procesos).van = 0 /\ Inicio(procesos).visto = procesos /\ Inicio(procesos).leido = SinLeer
    BY <1>0, InicioTipo DEF TypeOK
  <1>2. \A n : Inicio(n).leido = SinLeer
    BY DEF Inicio
  <1>3. CASE HAvisa(h)
    <2>1. /\ manejador[h].fase = "aviso" /\ vida' = vida /\ totales' = totales
          /\ manejador'[h] = [fase |-> IF prog = "memoria" THEN "miss" ELSE "libera", i |-> manejador[h].i]
          /\ recorrido'[h] = Inicio(procesos)
      BY <1>0, <1>3, PasoAvisa
    <2>2. PICK es : /\ es = {"logger"} \cup IF prog = "memoria" THEN {"lista_procesos"} ELSE {}
                    /\ Usa(Manejador(h), es)
      BY <1>3, Zenon DEF HAvisa
    <2>3. ~ListaLibre
      BY <1>0, <2>2, UsaLista
    <2>4. manejador'[h].fase = "miss"
      BY <2>1
    <2> QED BY <1>1, <2>1, <2>3, <2>4
  <1>4. CASE HLee(h)
    <2>1. /\ manejador[h].fase \in {"miss", "hit"} /\ UNCHANGED <<manejador, vida, totales>>
          /\ recorrido'[h] = [van |-> recorrido[h].van, visto |-> procesos,
                              leido |-> totales[manejador[h].fase]]
      BY <1>0, <1>4, PasoLee
    <2>2. /\ recorrido'[h].van = recorrido[h].van /\ recorrido'[h].visto = procesos
          /\ recorrido'[h].leido = totales[manejador[h].fase]
      BY <2>1
    <2> QED BY <2>1, <2>2
  <1>5. CASE HSuma(h)
    <2>1. /\ manejador[h].fase \in {"miss", "hit"} /\ UNCHANGED <<manejador, vida>>
          /\ recorrido[h].leido # SinLeer
          /\ recorrido'[h] = [van |-> recorrido[h].van + 1, visto |-> recorrido[h].visto, leido |-> SinLeer]
          /\ totales' = [totales EXCEPT ![manejador[h].fase] =
                            IF ListaLibre \/ recorrido[h].leido = Basura THEN Basura
                            ELSE recorrido[h].leido + PorCarpincho[manejador[h].fase]]
      BY <1>0, <1>5, PasoSuma
    <2>2. ~ListaLibre
      BY <1>0, <1>5, UsaLista DEF HSuma
    <2>3. /\ recorrido'[h].van = recorrido[h].van + 1 /\ recorrido'[h].visto = recorrido[h].visto
          /\ recorrido'[h].leido = SinLeer
      BY <2>1
    <2> QED BY <2>1, <2>2, <2>3
  <1>6. CASE HRecorrio(h)
    <2>1. /\ manejador[h].fase \in {"miss", "hit"} /\ UNCHANGED <<vida, totales>>
          /\ recorrido[h].van = recorrido[h].visto \/ ListaLibre
          /\ manejador'[h] = [fase |-> IF manejador[h].fase = "miss" THEN "hit" ELSE "libera",
                              i |-> manejador[h].i]
      BY <1>0, <1>6, PasoRecorrio
    <2>2. PICK n : recorrido'[h] = Inicio(n) /\ (manejador[h].fase = "miss" => n = procesos)
      BY <1>0, <1>6, PasoRecorrio
    <2>3. PICK es : es = (IF manejador[h].fase = "miss" THEN {"lista_procesos"} ELSE {"logger"})
                    /\ Usa(Manejador(h), es)
      BY <1>6, Zenon DEF HRecorrio
    <2>4. manejador[h].fase = "miss" => ~ListaLibre
      BY <1>0, <2>3, UsaLista
    <2>5. manejador'[h].fase = IF manejador[h].fase = "miss" THEN "hit" ELSE "libera"
      BY <2>1
    <2> QED BY <1>1, <1>2, <2>1, <2>2, <2>4, <2>5
  <1>7. CASE HLibera(h)
    <2>1. /\ manejador[h].fase = "libera" /\ UNCHANGED <<recorrido, totales>>
          /\ \/ manejador'[h] = [fase |-> "libera", i |-> manejador[h].i + 1]
             \/ manejador'[h] = [fase |-> "fuera", i |-> 1]
      BY <1>0, <1>7, PasoLibera
    <2>2. manejador'[h].fase \in {"libera", "fuera"}
      BY <2>1
    <2> QED BY <2>1, <2>2
  <1> QED BY <1>3, <1>4, <1>5, <1>6, <1>7 DEF PasoManejador

(* One handler alone: a walk adds the records it has passed, no more.      *)
LEMMA SoloPaso ==
    ASSUME InvFinales, NEW h \in Hebras, PasoManejador(h), prog = "memoria", ListaSana',
           Solo(h), InvSolo(h), senal[h].registrados <= procesos
    PROVE  InvSolo(h)'
  <1>0. /\ TypeInv /\ senal' = senal /\ procesos' = procesos
        /\ "miss" # "hit" /\ totales \in [miss : Nat \cup {Basura}, hit : Nat \cup {Basura}]
    BY DEF InvFinales, PasoManejador, HAvisa, HLee, HSuma, HRecorrio, HLibera, TypeInv, TypeOK
  <1>t. PICK r \in Nat, n \in Nat, van \in Nat, visto \in Nat :
           /\ r = senal[h].registrados /\ n = procesos
           /\ van = recorrido[h].van /\ visto = recorrido[h].visto
    <2>1. senal[h] \in Senales /\ recorrido[h] \in Recorridos /\ procesos \in 0 .. MaxProcesos
      BY <1>0, TiposDe DEF TypeInv, TypeOK
    <2>2. \A x \in 0 .. MaxProcesos : x \in Nat
      BY MaxProcesosNat
    <2>3. /\ senal[h].registrados \in 0 .. MaxProcesos
          /\ recorrido[h].van \in 0 .. MaxProcesos /\ recorrido[h].visto \in 0 .. MaxProcesos
      BY <2>1 DEF Senales, Recorridos
    <2> QED BY <2>1, <2>2, <2>3
  <1>v. van <= visto /\ visto <= n /\ r <= n
    BY <1>0, <1>t DEF TypeInv, InvManejador
  <1>l. SinLeer \notin Nat
    BY DEF SinLeer
  <1>c. PorCarpincho["miss"] = 31 /\ PorCarpincho["hit"] = 25
    BY Cotas
  <1>1. CASE /\ manejador[h].fase = "aviso" /\ manejador'[h].fase = "miss" /\ totales' = totales
             /\ recorrido'[h].van = 0 /\ recorrido'[h].visto = procesos /\ recorrido'[h].leido = SinLeer
             /\ ~ListaLibre /\ vida' = vida
    <2>1. totales.miss = 31 * 0 /\ totales.hit = 0
      BY <1>1 DEF InvSolo
    <2> QED BY <1>0, <1>1, <1>t, <1>v, <2>1 DEF InvSolo, MetricasDe, ListaLibre
  <1>2. CASE /\ manejador[h].fase \in {"miss", "hit"} /\ manejador'[h].fase = manejador[h].fase
             /\ totales' = totales /\ vida' = vida
             /\ recorrido'[h].van = recorrido[h].van /\ recorrido'[h].visto = procesos
             /\ recorrido'[h].leido = totales[manejador[h].fase]
    <2>1. \A m \in r .. visto : m \in r .. n
      BY <1>v
    <2>2. totales["miss"] = totales.miss /\ totales["hit"] = totales.hit
      OBVIOUS
    <2> QED BY <1>0, <1>2, <1>t, <1>v, <2>1, <2>2 DEF InvSolo, MetricasDe, ListaLibre
  <1>3. CASE /\ manejador[h].fase \in {"miss", "hit"} /\ manejador'[h].fase = manejador[h].fase
             /\ recorrido[h].leido # SinLeer /\ vida' = vida
             /\ recorrido'[h].van = recorrido[h].van + 1 /\ recorrido'[h].visto = recorrido[h].visto
             /\ recorrido'[h].leido = SinLeer
             /\ totales' = [totales EXCEPT ![manejador[h].fase] =
                               IF recorrido[h].leido = Basura THEN Basura
                               ELSE recorrido[h].leido + PorCarpincho[manejador[h].fase]]
    <2>1. recorrido'[h].van = van + 1 /\ 31 * van + 31 = 31 * (van + 1) /\ 25 * van + 25 = 25 * (van + 1)
      BY <1>3, <1>t
    <2>b. 31 * van # Basura /\ 25 * van # Basura
      BY <1>t DEF Basura
    <2>2. CASE manejador[h].fase = "miss"
      <3>1. recorrido[h].leido = 31 * van /\ totales.hit = 0
        BY <1>3, <1>t, <2>2 DEF InvSolo
      <3>2. totales'.miss = 31 * van + 31 /\ totales'.hit = 0
        BY <1>0, <1>3, <1>c, <2>2, <2>b, <3>1
      <3>3. manejador'[h].fase = "miss" /\ totales'.miss = 31 * recorrido'[h].van
        BY <1>3, <2>1, <2>2, <3>2
      <3> QED BY <1>0, <1>3, <3>2, <3>3 DEF InvSolo, MetricasDe, ListaLibre
    <2>3. CASE manejador[h].fase = "hit"
      <3>1. recorrido[h].leido = 25 * van
        BY <1>3, <1>t, <2>3 DEF InvSolo
      <3>2. totales'.hit = 25 * van + 25 /\ totales'.miss = totales.miss
        BY <1>0, <1>3, <1>c, <2>3, <2>b, <3>1
      <3>3. manejador'[h].fase = "hit" /\ totales'.hit = 25 * recorrido'[h].van
        BY <1>3, <2>1, <2>3, <3>2
      <3> QED BY <1>0, <1>3, <3>2, <3>3 DEF InvSolo, MetricasDe, ListaLibre
    <2> QED BY <1>3, <2>2, <2>3
  <1>4. CASE /\ manejador[h].fase = "miss" /\ manejador'[h].fase = "hit" /\ totales' = totales
             /\ recorrido[h].van = recorrido[h].visto /\ vida' = vida
             /\ recorrido'[h].van = 0 /\ recorrido'[h].visto = procesos /\ recorrido'[h].leido = SinLeer
    <2>1. totales.miss = 31 * van /\ totales.hit = 25 * 0 /\ r <= van
      BY <1>4, <1>t DEF InvSolo
    <2>2. van \in r .. n
      BY <1>t, <1>v, <2>1
    <2> QED BY <1>0, <1>4, <1>t, <1>v, <2>1, <2>2 DEF InvSolo, MetricasDe, ListaLibre
  <1>5. CASE /\ manejador[h].fase = "hit" /\ manejador'[h].fase = "libera" /\ totales' = totales
             /\ recorrido[h].van = recorrido[h].visto \/ ListaLibre
             /\ recorrido'[h].leido = SinLeer
    <2>1. /\ totales.hit = 25 * van /\ van = visto /\ r <= visto
          /\ \E m \in r .. visto : totales.miss = 31 * m
      BY <1>5, <1>t DEF InvSolo
    <2>2. PICK m \in r .. visto : totales.miss = 31 * m
      BY <2>1
    <2>3. m \in r .. n /\ van \in r .. n /\ m <= van
      BY <1>t, <1>v, <2>1
    <2>4. totales' = [miss |-> 31 * m, hit |-> 25 * van]
      BY <1>0, <1>5, <2>1, <2>2
    <2>5. MetricasDe(h)'
      BY <1>0, <1>t, <2>3, <2>4 DEF MetricasDe
    <2> QED BY <1>5, <2>5 DEF InvSolo
  <1>6. CASE /\ manejador[h].fase = "libera" /\ manejador'[h].fase \in {"libera", "fuera"}
             /\ totales' = totales /\ recorrido' = recorrido
    <2>1. \E m, k \in r .. n : m <= k /\ totales = [miss |-> 31 * m, hit |-> 25 * k]
      BY <1>6, <1>t DEF InvSolo, MetricasDe, Solo
    <2>2. MetricasDe(h)'
      BY <1>0, <1>6, <1>t, <2>1 DEF MetricasDe
    <2> QED BY <1>6, <2>2 DEF InvSolo
  <1> QED BY <1>1, <1>2, <1>3, <1>4, <1>5, <1>6, PasoMetricas

(* Nobody counts more carpinchos than there are.                           *)
LEMMA CuentaTipo ==
    ASSUME TypeInv, NEW h \in Hebras, NEW c
    PROVE  Cuenta(h, c) \in Nat /\ Cuenta(h, c) <= procesos
  <1>1. /\ procesos \in Nat /\ recorrido[h].van \in Nat /\ recorrido[h].visto \in Nat
        /\ recorrido[h].van <= recorrido[h].visto /\ recorrido[h].visto <= procesos
    BY TiposDe, MaxProcesosNat DEF TypeInv, TypeOK, Recorridos, InvManejador
  <1> QED BY <1>1 DEF Cuenta

LEMMA SumaCrece ==
    ASSUME InvFinales, NEW h \in Hebras, PasoManejador(h), prog = "memoria", ListaSana',
           NEW c \in {"miss", "hit"}
    PROVE  /\ Suma(c) \in Nat /\ Suma(c)' \in Nat /\ Suma(c) <= Suma(c)'
           /\ manejador[h].fase = c /\ recorrido'[h].van = recorrido[h].van + 1
              /\ manejador'[h].fase = c => Suma(c) + 1 <= Suma(c)'
  <1>0. TypeInv /\ TypeInv' /\ Suelto(h) /\ procesos' = procesos
    BY TiposPaso, AjenoQuieto DEF InvFinales, Next, TypeInv
  <1>1. \A o \in Hebras : Cuenta(o, c) \in Nat /\ Cuenta(o, c)' \in Nat
    <2>1. \A o \in Hebras : Cuenta(o, c) \in Nat
      BY <1>0, CuentaTipo
    <2>2. \A o \in Hebras : /\ recorrido'[o].van \in Nat /\ procesos' \in Nat
      BY <1>0, TiposDe, MaxProcesosNat DEF TypeInv, TypeOK, Recorridos
    <2>3. \A o \in Hebras : Cuenta(o, c)' \in Nat
      BY <2>2 DEF Cuenta
    <2> QED BY <2>1, <2>3
  <1>2. \A o \in Hebras \ {h} : Cuenta(o, c)' = Cuenta(o, c)
    BY <1>0 DEF Cuenta, Suelto
  <1>3. Cuenta(h, c) <= Cuenta(h, c)'
    <2>1. Cuenta(h, c) \in Nat /\ Cuenta(h, c) <= procesos /\ procesos \in Nat /\ recorrido[h].van \in Nat
      BY <1>0, CuentaTipo, TiposDe, MaxProcesosNat DEF TypeInv, TypeOK, Recorridos
    <2>2. CASE manejador[h].fase = "aviso"
      BY <1>1, <2>2 DEF Cuenta
    <2>3. CASE manejador[h].fase \in {"miss", "hit"} /\ manejador'[h].fase = manejador[h].fase
      <3>1. recorrido'[h].van \in {recorrido[h].van, recorrido[h].van + 1}
        BY <2>3, PasoMetricas
      <3> QED BY <1>0, <2>1, <2>3, <3>1 DEF Cuenta
    <2>4. CASE manejador[h].fase \in {"miss", "hit"} /\ manejador'[h].fase # manejador[h].fase
      <3>1. \/ manejador[h].fase = "miss" /\ manejador'[h].fase = "hit" /\ recorrido'[h].van = 0
            \/ manejador[h].fase = "hit" /\ manejador'[h].fase = "libera"
        BY <2>4, PasoMetricas
      <3> QED BY <1>0, <2>1, <3>1 DEF Cuenta
    <2>5. CASE manejador[h].fase = "libera"
      <3>1. manejador'[h].fase \in {"libera", "fuera"}
        BY <2>5, PasoMetricas
      <3> QED BY <1>0, <2>1, <2>5, <3>1 DEF Cuenta
    <2> QED BY <2>2, <2>3, <2>4, <2>5, PasoMetricas
  <1>4. ASSUME manejador[h].fase = c, recorrido'[h].van = recorrido[h].van + 1, manejador'[h].fase = c
        PROVE  Cuenta(h, c)' = Cuenta(h, c) + 1
    BY <1>4 DEF Cuenta
  <1> QED BY <1>1, <1>2, <1>3, <1>4 DEF Suma, Hebras

(* Two handlers: each total was written by one of them, on top of at most  *)
(* what both have counted.                                                 *)
LEMMA DoblePaso ==
    ASSUME InvFinales, NEW h \in Hebras, PasoManejador(h), prog = "memoria", ListaSana',
           NEW c \in {"miss", "hit"}, InvDoble(c)
    PROVE  InvDoble(c)'
  <1>0. /\ TypeInv /\ Suelto(h)
        /\ totales \in [miss : Nat \cup {Basura}, hit : Nat \cup {Basura}]
    BY AjenoQuieto DEF InvFinales, TypeInv, TypeOK
  <1>s. PICK s \in Nat, z \in Nat : s = Suma(c) /\ z = Suma(c)' /\ s <= z
    BY SumaCrece
  <1>p. PICK k \in {31, 25} : k = PorCarpincho[c] /\ k * s <= k * z
    BY <1>s, Cotas
  <1>k. k * s \in Nat /\ k * z \in Nat /\ k \in Nat
    BY <1>s, <1>p
  <1>1. /\ totales[c] \in Nat /\ totales[c] <= k * z
        /\ \A o \in Hebras : manejador[o].fase = c /\ recorrido[o].leido # SinLeer =>
              recorrido[o].leido \in Nat /\ recorrido[o].leido <= k * s /\ recorrido[o].leido <= k * z
    BY <1>s, <1>p, <1>k DEF InvDoble
  <1>2. SUFFICES /\ totales'[c] \in Nat /\ totales'[c] <= k * z
                 /\ manejador'[h].fase = c /\ recorrido'[h].leido # SinLeer =>
                       recorrido'[h].leido \in Nat /\ recorrido'[h].leido <= k * z
    <2>1. \A o \in Hebras : manejador'[o].fase = c /\ recorrido'[o].leido # SinLeer =>
              recorrido'[o].leido \in Nat /\ recorrido'[o].leido <= k * z
      BY <1>0, <1>1, <1>2 DEF Suelto
    <2>2. PorCarpincho' = PorCarpincho
      BY DEF PorCarpincho, MissAlRegistrar, HitAlCrear
    <2> QED BY <1>2, <1>s, <1>p, <2>1, <2>2 DEF InvDoble
  <1>3. CASE totales' = totales /\ recorrido'[h].leido = SinLeer
    BY <1>1, <1>3
  <1>4. CASE /\ manejador[h].fase \in {"miss", "hit"} /\ manejador'[h].fase = manejador[h].fase
             /\ totales' = totales /\ recorrido'[h].leido = totales[manejador[h].fase]
    BY <1>1, <1>4
  <1>5. CASE /\ manejador[h].fase \in {"miss", "hit"} /\ manejador'[h].fase = manejador[h].fase
             /\ recorrido[h].leido # SinLeer /\ recorrido'[h].leido = SinLeer
             /\ recorrido'[h].van = recorrido[h].van + 1
             /\ totales' = [totales EXCEPT ![manejador[h].fase] =
                               IF recorrido[h].leido = Basura THEN Basura
                               ELSE recorrido[h].leido + PorCarpincho[manejador[h].fase]]
    <2>1. CASE manejador[h].fase # c
      <3>1. totales'[c] = totales[c]
        BY <1>0, <1>5, <2>1
      <3> QED BY <1>1, <1>5, <3>1
    <2>2. CASE manejador[h].fase = c
      <3>1. PICK l \in Nat : l = recorrido[h].leido /\ l <= k * s
        BY <1>1, <1>5, <2>2
      <3>2. l # Basura
        BY DEF Basura
      <3>3. totales'[c] = l + k
        BY <1>0, <1>5, <1>p, <2>2, <3>1, <3>2
      <3>4. s + 1 <= z
        BY <1>s, <1>5, <2>2, SumaCrece
      <3>5. k * s + k <= k * z
        BY <1>s, <1>p, <3>4, Cotas
      <3>6. l + k \in Nat /\ l + k <= k * z
        BY <1>k, <3>1, <3>5
      <3> QED BY <1>5, <3>3, <3>6
    <2> QED BY <2>1, <2>2
  <1>6. CASE /\ manejador[h].fase = "libera" /\ manejador'[h].fase \in {"libera", "fuera"}
             /\ totales' = totales
    BY <1>1, <1>6
  <1> QED BY <1>3, <1>4, <1>5, <1>6, PasoMetricas

LEMMA MetricasPaso == InvFinales /\ InvMetricas /\ [Next]_vars => InvMetricas'
  <1> SUFFICES ASSUME InvFinales, InvMetricas, [Next]_vars, prog = "memoria"
               PROVE  /\ \A h \in Hebras : senal'[h].registrados <= procesos'
                      /\ ListaSana' => /\ \A h \in Hebras : Solo(h)' => InvSolo(h)'
                                       /\ InvDoble("miss")' /\ InvDoble("hit")'
    BY Marcas DEF InvMetricas
  <1>0. /\ TypeInv
        /\ ListaSana' => ListaSana
        /\ \A h \in Hebras : senal[h].registrados <= procesos
        /\ ListaSana => /\ \A h \in Hebras : Solo(h) => InvSolo(h)
                        /\ InvDoble("miss") /\ InvDoble("hit")
    BY Marcas DEF InvFinales, ListaSana, InvMetricas
  <1>1. CASE UNCHANGED <<manejador, senal, recorrido, procesos, totales>>
                /\ (ListaLibre' = ListaLibre \/ \A h \in Hebras : manejador[h].fase = "no")
    <2>1. \A h \in Hebras : Solo(h)' = Solo(h)
      BY <1>1 DEF Solo, Interrumpida
    <2>2. \A h \in Hebras : InvSolo(h) => InvSolo(h)'
      BY <1>1 DEF InvSolo, MetricasDe, Interrumpida
    <2>3. \A c : InvDoble(c) => InvDoble(c)'
      BY <1>1 DEF InvDoble, Suma, Cuenta, PorCarpincho, MissAlRegistrar, HitAlCrear
    <2> QED BY <1>0, <1>1, <2>1, <2>2, <2>3
  <1>2. CASE PasoPrincipal
    <2>1. UNCHANGED <<manejador, senal, recorrido, procesos, totales>>
      BY <1>2 DEF PasoPrincipal, datos
    <2> QED BY <1>1, <1>2, <2>1, UnoCorre DEF InvFinales
  <1>3. CASE PasoServidor
    <2>1. /\ UNCHANGED <<manejador, senal, recorrido, totales>>
          /\ procesos' = procesos \/ procesos' = procesos + 1
      BY <1>3 DEF PasoServidor, MConversa, MAcepta, MBusca, MCrea, MAgrega, SAsigna, SRechaza, SPedido, datos
    <2>2. vida'["lista_procesos"] = vida["lista_procesos"]
      <3>1. vida' = vida \/ vida' = [vida EXCEPT !.tabla_de_marcos_fija = "viva", !.entradas = "libre"]
        BY <1>3 DEF PasoServidor, MConversa, MAcepta, MBusca, MCrea, MAgrega, SAsigna, SRechaza, SPedido
      <3>2. vida \in [Estructuras -> {"sin", "viva", "libre"}] /\ "lista_procesos" \in Estructuras
        BY <1>0 DEF TypeInv, TypeOK, Estructuras
      <3> QED BY <3>1, <3>2
    <2>3. ListaLibre' = ListaLibre
      BY <2>2 DEF ListaLibre
    <2>4. PICK n \in Nat, z \in Nat : n = procesos /\ z = procesos' /\ n <= z
      <3>1. procesos \in Nat
        BY <1>0, MaxProcesosNat DEF TypeInv, TypeOK
      <3> QED BY <2>1, <3>1
    <2>r. \A h \in Hebras : senal[h].registrados \in Nat /\ senal[h].registrados <= z
      <3>1. \A h \in Hebras : senal[h].registrados \in 0 .. MaxProcesos
        BY <1>0, TiposDe DEF TypeInv, Senales
      <3>2. \A x \in 0 .. MaxProcesos : x \in Nat /\ (x <= n => x <= z)
        BY <2>4, MaxProcesosNat
      <3> QED BY <1>0, <2>4, <3>1, <3>2
    <2>5. ASSUME NEW h \in Hebras, InvSolo(h) PROVE InvSolo(h)'
      <3>1. MetricasDe(h)'
        <4>1. \A m \in senal[h].registrados .. n : m \in senal[h].registrados .. z
          BY <2>4, <2>r
        <4>2. MetricasDe(h)
          BY <2>5 DEF InvSolo
        <4> QED BY <2>1, <2>4, <4>1, <4>2 DEF MetricasDe, Interrumpida
      <3> QED BY <2>1, <2>3, <2>5, <3>1 DEF InvSolo
    <2>6. ASSUME NEW c \in {"miss", "hit"}, InvDoble(c) PROVE InvDoble(c)'
      <3>1. \A h \in Hebras : /\ Cuenta(h, c) \in Nat /\ Cuenta(h, c)' \in Nat
                              /\ Cuenta(h, c) <= Cuenta(h, c)'
        <4>1. \A h \in Hebras : recorrido[h].van \in Nat
          BY <1>0, TiposDe, MaxProcesosNat DEF TypeInv, Recorridos
        <4> QED BY <2>1, <2>4, <4>1 DEF Cuenta
      <3>2. PICK u \in Nat, w \in Nat : u = Suma(c) /\ w = Suma(c)' /\ u <= w
        <4>1. Suma(c) \in Nat /\ Suma(c)' \in Nat /\ Suma(c) <= Suma(c)'
          BY <3>1 DEF Suma, Hebras
        <4> QED BY <4>1
      <3>3. PICK k \in {31, 25} : k = PorCarpincho[c] /\ k * u <= k * w
        BY <3>2, Cotas
      <3>4. \A x \in Nat : x <= k * u => x <= k * w
        BY <3>2, <3>3
      <3>5. PorCarpincho' = PorCarpincho
        BY DEF PorCarpincho, MissAlRegistrar, HitAlCrear
      <3> QED BY <2>1, <2>6, <3>2, <3>3, <3>4, <3>5 DEF InvDoble
    <2>7. \A h \in Hebras : Solo(h)' = Solo(h)
      BY <2>1 DEF Solo, Interrumpida
    <2> QED BY <1>0, <2>1, <2>4, <2>r, <2>5, <2>6, <2>7
  <1>4. ASSUME NEW h \in Hebras, Sigint(h)
        PROVE  /\ \A o \in Hebras : senal'[o].registrados <= procesos'
               /\ ListaSana' => /\ \A o \in Hebras : Solo(o)' => InvSolo(o)'
                                /\ InvDoble("miss")' /\ InvDoble("hit")'
    <2>1. /\ Suelto(h) /\ UNCHANGED <<vida, recorrido, procesos, totales>> /\ manejador[h].fase = "no"
          /\ manejador \in [Hebras -> Manejadores] /\ senal \in [Hebras -> Senales]
      BY <1>0, <1>4, AjenoQuieto, TiposDe DEF TypeInv, Sigint, datos
    <2>2. manejador'[h].fase = "aviso" /\ senal'[h].registrados = procesos
      BY <1>4, <2>1 DEF Sigint
    <2>3. procesos <= procesos
      BY <1>0, MaxProcesosNat DEF TypeInv, TypeOK
    <2>4. \A o \in Hebras : senal'[o].registrados <= procesos'
      BY <1>0, <2>1, <2>2, <2>3 DEF Suelto
    <2>5. ASSUME ListaSana, NEW o \in Hebras, Solo(o)' PROVE InvSolo(o)'
      <3>1. o = h
        BY <2>2, <2>5 DEF Solo, Interrumpida
      <3>2. Solo(h)
        BY <2>1, <2>5, <3>1 DEF Solo, Interrumpida, Suelto
      <3>3. totales.miss = 0 /\ totales.hit = 0
        BY <1>0, <2>1, <2>5, <3>2 DEF InvSolo
      <3> QED BY <2>1, <2>2, <3>1, <3>3 DEF InvSolo, MetricasDe
    <2>6. ASSUME NEW c \in {"miss", "hit"}, InvDoble(c) PROVE InvDoble(c)'
      <3>1. Cuenta(h, c)' = Cuenta(h, c)
        BY <2>1, <2>2 DEF Cuenta
      <3>2. \A o \in Hebras \ {h} : Cuenta(o, c)' = Cuenta(o, c)
        BY <2>1 DEF Cuenta, Suelto
      <3>3. Suma(c)' = Suma(c)
        BY <3>1, <3>2 DEF Suma, Hebras
      <3>4. PorCarpincho' = PorCarpincho
        BY DEF PorCarpincho, MissAlRegistrar, HitAlCrear
      <3>5. \A o \in Hebras : manejador'[o].fase = c => manejador[o].fase = c
        BY <2>1, <2>2 DEF Suelto
      <3> QED BY <2>1, <2>6, <3>3, <3>4, <3>5 DEF InvDoble
    <2> QED BY <1>0, <2>4, <2>5, <2>6
  <1>5. ASSUME NEW h \in Hebras, PasoManejador(h)
        PROVE  /\ \A o \in Hebras : senal'[o].registrados <= procesos'
               /\ ListaSana' => /\ \A o \in Hebras : Solo(o)' => InvSolo(o)'
                                /\ InvDoble("miss")' /\ InvDoble("hit")'
    <2>1. Suelto(h) /\ UNCHANGED <<senal, procesos>>
      BY <1>0, <1>5, AjenoQuieto DEF TypeInv, PasoManejador, HAvisa, HLee, HSuma, HRecorrio, HLibera
    <2>2. Interrumpida(h)
      <3>1. HSuma(h) => manejador[h].fase # "no"
        BY <1>0 DEF HSuma, TypeInv, InvManejador
      <3> QED BY <1>5, <3>1 DEF PasoManejador, HAvisa, HLee, HRecorrio, HLibera, Interrumpida
    <2>3. ASSUME ListaSana', NEW o \in Hebras, Solo(o)' PROVE InvSolo(o)'
      <3>1. o = h
        BY <2>2, <2>3, Marcas DEF Solo
      <3>2. Solo(h)
        BY <2>1, <2>3, <3>1 DEF Solo, Interrumpida, Suelto
      <3> QED BY <1>0, <1>5, <2>3, <3>1, <3>2, SoloPaso
    <2> QED BY <1>0, <1>5, <2>1, <2>3, DoblePaso
  <1>6. CASE Aborta \/ UNCHANGED vars
    BY <1>1, <1>6 DEF Aborta, vars, hilos, datos, ListaLibre
  <1> QED BY <1>2, <1>3, <1>4, <1>5, <1>6 DEF Next

LEMMA MetricasDicen ==
    ASSUME InvFinales, InvMetricas
    PROVE  MetricasCoherentes
  <1> SUFFICES ASSUME prog = "memoria", ListaSana
               PROVE  /\ \A h \in Hebras : MetricasDe(h)
                      /\ totales.miss <= 31 * (2 * procesos) /\ totales.hit <= 25 * (2 * procesos)
    BY DEF MetricasCoherentes
  <1>1. /\ \A h \in Hebras : Solo(h) => InvSolo(h)
        /\ InvDoble("miss") /\ InvDoble("hit")
    BY DEF InvMetricas
  <1>2. \A h \in Hebras : MetricasDe(h)
    BY <1>1 DEF InvSolo, MetricasDe, Solo
  <1>3. ASSUME NEW c \in {"miss", "hit"}, InvDoble(c)
        PROVE  totales[c] <= PorCarpincho[c] * (2 * procesos)
    <2>1. \A h \in Hebras : Cuenta(h, c) \in Nat /\ Cuenta(h, c) <= procesos
      BY CuentaTipo DEF InvFinales
    <2>2. procesos \in Nat
      BY MaxProcesosNat DEF InvFinales, TypeInv, TypeOK
    <2>3. PICK u \in Nat, w \in Nat : u = Suma(c) /\ w = 2 * procesos /\ u <= w
      <3>1. Suma(c) \in Nat /\ Suma(c) <= 2 * procesos
        BY <2>1, <2>2 DEF Suma, Hebras
      <3> QED BY <2>2, <3>1
    <2>4. PICK k \in {31, 25} : k = PorCarpincho[c] /\ k * u <= k * w
      BY <2>3, Cotas
    <2>5. \A x \in Nat : x <= k * u => x <= k * w
      BY <2>3, <2>4
    <2> QED BY <1>3, <2>3, <2>4, <2>5 DEF InvDoble
  <1>4. totales["miss"] <= 31 * (2 * procesos) /\ totales["hit"] <= 25 * (2 * procesos)
    BY <1>1, <1>3, Cotas
  <1> QED BY <1>2, <1>4

(* metricas, on a list that nobody released under it: after one signal the *)
(* totals are those of two moments after it, however many carpinchos       *)
(* register between the two walks; after a second one, at most twice what  *)
(* is registered, whatever the two handlers read and write in between.     *)
THEOREM MetricasDeDosMomentos == Spec => []MetricasCoherentes
  <1>1. Init => InvMetricas
    <2> SUFFICES ASSUME Init PROVE InvMetricas
      OBVIOUS
    <2>1. \A h \in Hebras : /\ manejador[h].fase = "no" /\ senal[h].registrados = 0
                            /\ InvSolo(h)
      BY DEF Init, SinSenal, InvSolo, MetricasDe
    <2>2. \A h \in Hebras, c \in {"miss", "hit"} : Cuenta(h, c) = 0
      BY <2>1 DEF Cuenta
    <2>3. \A c \in {"miss", "hit"} : InvDoble(c)
      <3>1. ASSUME NEW c \in {"miss", "hit"} PROVE InvDoble(c)
        <4>1. Suma(c) = 0 /\ totales[c] = 0
          BY <2>2 DEF Suma, Hebras, Init
        <4>2. PorCarpincho[c] * 0 = 0
          BY Cotas
        <4> QED BY <2>1, <4>1, <4>2 DEF InvDoble
      <3> QED BY <3>1
    <2> QED BY <2>1, <2>3 DEF InvMetricas, Init
  <1> QED BY <1>1, MetricasPaso, MetricasDicen, FinalesSiempre, PTL DEF Spec

=============================================================================
