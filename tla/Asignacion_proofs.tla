-------------------------- MODULE Asignacion_proofs --------------------------
(***************************************************************************)
(* Proofs about what mem_alloc answers, and that Memoria implements the    *)
(* abstract allocator.                                                     *)
(***************************************************************************)
EXTENDS Sistema_proofs

(* Only accepted sessions have an answer, and not before the server thread *)
(* is done with their request.                                             *)
UnaRespuesta ==
    /\ \A s \in Sesiones : concesion[s] # Nulo => srv[s] \in {"abierta", "cerrada"}
    /\ pc \in {"saludo", "pedido", "swap"} => concesion[actual] = Nulo

(* lista_de_heaps remembers whether the address was handed out.            *)
HeapsFieles == heaps = "vacia" <=> \A s \in Sesiones : ~Recibio25(s)

(* lista_procesos remembers every pid that was answered.                   *)
PidsRegistrados ==
    /\ \A s \in Sesiones : concesion[s] # Nulo => concesion[s].pid \in procesos
    /\ pc = "swap" => pidPedido \notin procesos

AsigInv == UnaRespuesta /\ HeapsFieles /\ PidsRegistrados /\ UnaDireccion /\ RegistroUnico

LEMMA NumerosDistintos == DirPrimera # SinEspacio /\ DirPrimera # Indef /\ SinEspacio # Indef
BY IndefNoEsNumero DEF DirPrimera, SinEspacio

LEMMA AsigInicial == Init => AsigInv
BY DEF Init, MemoriaInit, AsigInv, UnaRespuesta, HeapsFieles, PidsRegistrados, UnaDireccion,
       RegistroUnico, Recibio25, Definida

(* What Otorga does to the answers.                                        *)
LEMMA RespuestaNueva ==
    ASSUME TypeOK, NEW s \in Sesiones, NEW pid \in Palabra, NEW dir \in Palabra,
           Otorga(s, pid, dir)
    PROVE  /\ concesion'[s] # Nulo
           /\ concesion'[s].pid = pid /\ concesion'[s].dir = dir
           /\ \A t \in Sesiones \ {s} : concesion'[t] = concesion[t]
<1>1. [pid |-> pid, dir |-> dir] \in Concesion
  BY DEF Concesion
<1>2. [pid |-> pid, dir |-> dir] # Nulo
  BY <1>1, NuloNoEsConcesion
<1>3. concesion' = [concesion EXCEPT ![s] = [pid |-> pid, dir |-> dir]]
      /\ DOMAIN concesion = Sesiones
  BY DEF Otorga, TypeOK, MemoriaTypeOK
<1> QED BY <1>2, <1>3

(* The three ways an answer is decided.                                    *)
Decide(s, pid, dir) ==
    /\ s = actual /\ srv[s] = "abierta" /\ srv' = srv /\ concesion[s] = Nulo
    /\ Otorga(s, pid, dir)
    /\ pc' = "confirmar"
    /\ \/ pid \in procesos /\ dir = Indef /\ UNCHANGED <<procesos, heaps>>
       \/ /\ pid \notin procesos /\ dir = PrimerAjuste
          /\ procesos' = procesos \cup {pid} /\ heaps' = "colgante"
       \/ /\ pid \notin procesos /\ dir = SinEspacio
          /\ procesos' = procesos \cup {pid} /\ UNCHANGED heaps

LEMMA AsigDecide ==
    ASSUME TypeOK, AsigInv, NEW s \in Sesiones, NEW pid \in Palabra, NEW dir \in Palabra,
           Decide(s, pid, dir)
    PROVE  AsigInv'
<1>1. /\ concesion'[s] # Nulo
      /\ concesion'[s].pid = pid /\ concesion'[s].dir = dir
      /\ \A t \in Sesiones \ {s} : concesion'[t] = concesion[t]
  BY RespuestaNueva DEF Decide
<1>2. /\ concesion[s] = Nulo /\ srv[s] = "abierta" /\ srv' = srv /\ pc' = "confirmar"
      /\ procesos \subseteq procesos' /\ pid \in procesos'
  BY DEF Decide
<1>3. UnaRespuesta'
  BY <1>1, <1>2 DEF AsigInv, UnaRespuesta
<1>4. /\ \A t \in Sesiones \ {s} : Recibio25(t)' <=> Recibio25(t)
      /\ Recibio25(s)' <=> dir = DirPrimera
      /\ ~Recibio25(s)
  BY <1>1, <1>2 DEF Recibio25
<1>5. dir = DirPrimera <=> (pid \notin procesos /\ heaps = "vacia" /\ dir = PrimerAjuste)
  BY NumerosDistintos DEF Decide, PrimerAjuste
<1>6. heaps \in {"vacia", "colgante"}
  BY DEF TypeOK, MemoriaTypeOK
<1>7. HeapsFieles'
  <2>1. CASE dir = DirPrimera
    <3>1. heaps' = "colgante" /\ Recibio25(s)'
      BY <1>4, <1>5, <2>1, NumerosDistintos DEF Decide
    <3> QED BY <3>1 DEF HeapsFieles
  <2>2. CASE dir # DirPrimera
    <3>1. heaps' = heaps
      BY <1>5, <1>6, <2>2 DEF Decide
    <3> QED BY <1>4, <2>2, <3>1 DEF AsigInv, HeapsFieles
  <2> QED BY <2>1, <2>2
<1>8. UnaDireccion'
  BY <1>4, <1>5 DEF AsigInv, UnaDireccion, HeapsFieles
<1>9. PidsRegistrados'
  BY <1>1, <1>2 DEF AsigInv, PidsRegistrados
<1>10. RegistroUnico'
  <2>1. \A t \in Sesiones \ {s} : Definida(t)' <=> Definida(t)
    BY <1>1 DEF Definida
  <2>2. Definida(s)' => pid \notin procesos
    BY <1>1 DEF Definida, Decide
  <2>3. \A t \in Sesiones \ {s} : Definida(t) => concesion[t].pid \in procesos
    BY DEF AsigInv, PidsRegistrados, Definida
  <2> SUFFICES ASSUME NEW t \in Sesiones, NEW u \in Sesiones, Definida(t)', Definida(u)',
                      concesion'[t].pid = concesion'[u].pid
               PROVE  t = u
    BY DEF RegistroUnico
  <2>4. CASE t # s /\ u # s
    BY <1>1, <2>1, <2>4 DEF AsigInv, RegistroUnico
  <2>5. CASE t = s /\ u # s
    BY <1>1, <2>1, <2>2, <2>3, <2>5
  <2>6. CASE t # s /\ u = s
    BY <1>1, <2>1, <2>2, <2>3, <2>6
  <2> QED BY <2>4, <2>5, <2>6
<1> QED BY <1>3, <1>7, <1>8, <1>9, <1>10 DEF AsigInv

(* A step either decides one answer or decides none.                       *)
LEMMA PasoDecide ==
    ASSUME TypeInv, ConexInv, AsigInv, [Next]_vars
    PROVE  \/ \E s \in Sesiones, pid \in Palabra, dir \in Palabra : Decide(s, pid, dir)
           \/ UNCHANGED <<concesion, procesos, heaps>>
<1>1. ASSUME NEW s \in Carpinchos, NextCarpincho(s) PROVE UNCHANGED <<concesion, procesos, heaps>>
  BY <1>1 DEF NextCarpincho, memoria
<1>2. CASE NextKernel \/ NextReloj \/ UNCHANGED vars
  BY <1>2 DEF NextKernel, NextReloj, vars, memoria
<1>3. CASE LeePedidoAlocar
  <2> DEFINE p == Recibe("carpincho", aSrv[actual])
  <2>1. actual \in Sesiones /\ srv[actual] = "abierta" /\ concesion[actual] = Nulo
    BY <1>3 DEF LeePedidoAlocar, TypeInv, SesionActual, Atendiendo, ConexInv, DescriptorCero,
                AsigInv, UnaRespuesta
  <2>2. p.pid \in Palabra
    <3>1. "carpincho" \in Formatos /\ CanalesTypeOK
      BY DEF Formatos, TypeInv, TypeOK
    <3> QED BY <2>1, <3>1, RecibeSrvTipo DEF Paquete
  <2>3. Indef \in Palabra /\ PrimerAjuste \in Palabra
    BY DEF Palabra, PrimerAjuste, DirPrimera
  <2>4. /\ UNCHANGED srv
        /\ \/ AllocConocido(p.pid, p.memo)
           \/ AllocNuevo(p.pid, p.memo)
           \/ AllocSinEspacio(p.pid, p.memo)
    BY <1>3 DEF LeePedidoAlocar
  <2> HIDE DEF p
  <2>5. CASE AllocConocido(p.pid, p.memo)
    <3>1. Decide(actual, p.pid, Indef)
      BY <2>1, <2>4, <2>5 DEF AllocConocido, Decide
    <3> QED BY <2>1, <2>2, <2>3, <3>1
  <2>6. CASE AllocNuevo(p.pid, p.memo)
    <3>1. Decide(actual, p.pid, PrimerAjuste)
      BY <2>1, <2>4, <2>6 DEF AllocNuevo, ConProceso, Decide
    <3> QED BY <2>1, <2>2, <2>3, <3>1
  <2>7. CASE AllocSinEspacio(p.pid, p.memo)
    BY <2>7 DEF AllocSinEspacio
  <2> QED BY <2>4, <2>5, <2>6, <2>7
<1>4. CASE EsperaSwap
  <2>1. actual \in Sesiones /\ srv[actual] = "abierta" /\ concesion[actual] = Nulo
        /\ pidPedido \in Palabra /\ pidPedido \notin procesos
    BY <1>4 DEF EsperaSwap, TypeInv, SesionActual, Atendiendo, ConexInv, DescriptorCero,
                AsigInv, UnaRespuesta, PidsRegistrados
  <2>2. Decide(actual, pidPedido, SinEspacio)
    BY <1>4, <2>1 DEF EsperaSwap, ConProceso, Decide
  <2>3. SinEspacio \in Palabra
    BY DEF Palabra, SinEspacio
  <2> QED BY <2>1, <2>2, <2>3
<1>5. CASE Acepta \/ LeeSaludo \/ LeePedidoOtro \/ Confirma \/ Termina
  BY <1>5 DEF Acepta, LeeSaludo, LeePedidoOtro, Confirma, VuelveAAceptar, Termina
<1> QED BY <1>1, <1>2, <1>3, <1>4, <1>5
        DEF Next, NextMemoria, PasoMemoria, SaludoDesconocido, Cae

(* What a step that decides no answer does to the rest.                    *)
LEMMA AsigSinDecidir ==
    ASSUME TypeInv, ConexInv, AsigInv, [Next]_vars, UNCHANGED <<concesion, procesos, heaps>>
    PROVE  AsigInv'
<1>1. /\ srv \in [Sesiones -> {"sin", "espera", "abierta", "cerrada"}]
      /\ actual \in Sesiones \cup {Nulo} /\ cola \in Seq(Sesiones)
  BY DEF TypeInv, TypeOK, CanalesTypeOK, MemoriaTypeOK
<1>2. HeapsFieles' /\ UnaDireccion' /\ RegistroUnico'
  BY DEF AsigInv, HeapsFieles, UnaDireccion, RegistroUnico, Recibio25, Definida
<1>3. \A s \in Sesiones : srv[s] \in {"abierta", "cerrada"} => srv'[s] \in {"abierta", "cerrada"}
  <2>1. ASSUME NEW s \in Sesiones, Conecta(s)
        PROVE  \A t \in Sesiones : srv[t] \in {"abierta", "cerrada"} => srv'[t] = srv[t]
    BY <1>1, <2>1 DEF Conecta
  <2>2. CASE Acepta
    BY <1>1, <2>2 DEF Acepta
  <2>3. ASSUME Atendiendo, NEW r, VuelveAAceptar(r)
        PROVE  srv' = srv \/ srv' = [srv EXCEPT ![actual] = "cerrada"]
    BY <2>3, CierraLaActual DEF TypeInv
  <2>4. CASE srv' = srv \/ srv' = [srv EXCEPT ![actual] = "cerrada"]
    BY <1>1, <2>4
  <2>5. CASE Termina
    BY <2>5 DEF Termina, CaenConexiones
  <2> QED BY <2>1, <2>2, <2>3, <2>4, <2>5, ClaseDePaso
<1>4. /\ pc' \in {"saludo", "pedido", "swap"} => concesion'[actual'] = Nulo
      /\ pc' = "swap" => pidPedido' \notin procesos'
  <2>1. CASE UNCHANGED <<pc, actual, pidPedido>>
    BY <2>1 DEF AsigInv, UnaRespuesta, PidsRegistrados
  <2>2. ASSUME NEW s \in Carpinchos, NextCarpincho(s) PROVE UNCHANGED <<pc, actual, pidPedido>>
    BY <2>2 DEF NextCarpincho, memoria
  <2>3. CASE NextKernel \/ NextReloj \/ UNCHANGED vars
    BY <2>1, <2>3 DEF NextKernel, NextReloj, vars, memoria
  <2>4. CASE Acepta
    <3> DEFINE s == Head(cola)
    <3>1. s \in Sesiones /\ s = cola[1] /\ 1 \in 1 .. Len(cola)
      BY <1>1, <2>4, HeadTailProperties, EmptySeq, LenProperties DEF Acepta
    <3>2. actual' = s /\ pc' = "saludo"
      BY <2>4 DEF Acepta
    <3> HIDE DEF s
    <3>3. srv[s] = "espera"
      BY <3>1 DEF ConexInv, ColaEnEspera
    <3>4. concesion[s] = Nulo
      BY <3>1, <3>3 DEF AsigInv, UnaRespuesta
    <3> QED BY <3>2, <3>4
  <2>5. CASE LeeSaludo
    BY <2>5 DEF LeeSaludo, AsigInv, UnaRespuesta
  <2>6. CASE LeePedidoAlocar
    <3> DEFINE p == Recibe("carpincho", aSrv[actual])
    <3>1. /\ pc = "pedido" /\ actual' = actual
          /\ \/ pc' = "confirmar"
             \/ pc' = "swap" /\ pidPedido' = p.pid /\ p.pid \notin procesos
      BY <2>6 DEF LeePedidoAlocar, AllocConocido, AllocNuevo, AllocSinEspacio
    <3> HIDE DEF p
    <3> QED BY <3>1 DEF AsigInv, UnaRespuesta
  <2>7. CASE EsperaSwap \/ LeePedidoOtro \/ Confirma \/ Termina
    BY <2>7 DEF EsperaSwap, LeePedidoOtro, Confirma, VuelveAAceptar, Termina
  <2> QED BY <2>1, <2>2, <2>3, <2>4, <2>5, <2>6, <2>7
          DEF Next, NextMemoria, PasoMemoria, SaludoDesconocido, Cae
<1>5. UnaRespuesta' /\ PidsRegistrados'
  BY <1>3, <1>4 DEF AsigInv, UnaRespuesta, PidsRegistrados
<1> QED BY <1>2, <1>5 DEF AsigInv

LEMMA AsigPaso == TypeInv /\ ConexInv /\ AsigInv /\ [Next]_vars => AsigInv'
<1> SUFFICES ASSUME TypeInv, ConexInv, AsigInv, [Next]_vars PROVE AsigInv'
  OBVIOUS
<1>1. TypeOK
  BY DEF TypeInv
<1>2. CASE UNCHANGED <<concesion, procesos, heaps>>
  BY <1>2, AsigSinDecidir
<1>3. CASE \E s \in Sesiones, pid \in Palabra, dir \in Palabra : Decide(s, pid, dir)
  BY <1>1, <1>3, AsigDecide
<1> QED BY <1>2, <1>3, PasoDecide

(* The address first_fit computes goes to one session at most.             *)
THEOREM DireccionUnica == Spec => []UnaDireccion
<1>1. AsigInv => UnaDireccion
  BY DEF AsigInv
<1> QED BY <1>1, TipoInicial, TipoPaso, ConexInicial, ConexPaso, AsigInicial, AsigPaso,
           PTL DEF Spec

(* Two sessions with the same pid never both get an answer that mem_alloc  *)
(* computed.                                                               *)
THEOREM RegistrosUnicos == Spec => []RegistroUnico
<1>1. AsigInv => RegistroUnico
  BY DEF AsigInv
<1> QED BY <1>1, TipoInicial, TipoPaso, ConexInicial, ConexPaso, AsigInicial, AsigPaso,
           PTL DEF Spec

-----------------------------------------------------------------------------
(* Refinement *)

LEMMA ImplementaInicial == Init => Asignaciones!Init
BY DEF Init, MemoriaInit, Asignaciones!Init

LEMMA ImplementaPaso ==
    TypeInv /\ ConexInv /\ AsigInv /\ [Next]_vars
        => [Asignaciones!Next]_<<procesos, concesion>>
<1> SUFFICES ASSUME TypeInv, ConexInv, AsigInv, [Next]_vars
             PROVE  [Asignaciones!Next]_<<procesos, concesion>>
  OBVIOUS
<1>1. CASE UNCHANGED <<concesion, procesos, heaps>>
  BY <1>1
<1>2. ASSUME NEW s \in Sesiones, NEW pid \in Palabra, NEW dir \in Palabra, Decide(s, pid, dir)
      PROVE  Asignaciones!Nuevo(s) \/ Asignaciones!Conocido(s)
  <2>1. /\ concesion[s] = Nulo
        /\ concesion' = [concesion EXCEPT ![s] = [pid |-> pid, dir |-> dir]]
    BY <1>2 DEF Decide, Otorga
  <2>2. concesion'[s] = [pid |-> pid, dir |-> dir]
    BY <2>1 DEF TypeInv, TypeOK, MemoriaTypeOK
  <2>3. Asignaciones!Responde(s, dir) /\ concesion'[s].pid = pid
    <3>1. concesion'[s] \in [pid : Palabra, dir : {dir}]
      BY <2>2
    <3>2. concesion'[s].pid = pid
      BY <2>2
    <3>3. concesion' = [concesion EXCEPT ![s] = concesion'[s]]
      BY <2>1, <2>2
    <3> QED BY <2>1, <3>1, <3>2, <3>3 DEF Asignaciones!Responde
  <2>4. heaps \in {"vacia", "colgante"}
    BY DEF TypeInv, TypeOK, MemoriaTypeOK
  <2>5. heaps = "vacia" <=> Asignaciones!Con(DirPrimera) = {}
    BY DEF AsigInv, HeapsFieles, Recibio25, Asignaciones!Con
  <2>6. CASE pid \in procesos
    BY <1>2, <2>3, <2>6 DEF Decide, Asignaciones!Conocido
  <2>7. CASE pid \notin procesos /\ dir = PrimerAjuste /\ procesos' = procesos \cup {pid}
    <3>1. CASE heaps = "vacia"
      BY <2>3, <2>5, <2>7, <3>1 DEF PrimerAjuste, Asignaciones!Nuevo, Asignaciones!Primera
    <3>2. CASE heaps = "colgante"
      <4>1. dir = Indef
        BY <2>7, <3>2 DEF PrimerAjuste
      <4> QED BY <2>3, <2>5, <2>7, <3>2, <4>1 DEF Asignaciones!Nuevo, Asignaciones!Siguiente
    <3> QED BY <2>4, <3>1, <3>2
  <2>8. CASE pid \notin procesos /\ dir = SinEspacio /\ procesos' = procesos \cup {pid}
    BY <2>3, <2>8 DEF Asignaciones!Nuevo, Asignaciones!Rechaza
  <2> QED BY <1>2, <2>6, <2>7, <2>8 DEF Decide
<1> QED BY <1>1, <1>2, PasoDecide DEF Asignaciones!Next

(* Memoria, with its queue of connections, its misread packets, its stray  *)
(* closes and its deaths, implements the abstract allocator.               *)
THEOREM ImplementaAsignador == Spec => CumpleAsignador
BY TipoInicial, TipoPaso, ConexInicial, ConexPaso, AsigInicial, AsigPaso,
   ImplementaInicial, ImplementaPaso, PTL DEF Spec, CumpleAsignador, Asignaciones!Spec
=============================================================================
