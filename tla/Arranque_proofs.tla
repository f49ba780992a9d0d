--------------------------- MODULE Arranque_proofs ---------------------------
(***************************************************************************)
(* The start of Memoria, for any number of runs of Memoria and of Swap: a  *)
(* run of Swap answers one run of Memoria at most, and a Memoria whose     *)
(* Swap stays until the end of the exchange starts with what it asked for. *)
(***************************************************************************)
EXTENDS Arranque, Paquetes_proofs

(* What UnaMemoriaPorSwap needs to be inductive: the answers given so far  *)
(* are numbered by the runs of Swap, and the current run has given none    *)
(* before it leaves "saludo".                                              *)
SaludoTipo == vida \in Nat /\ saludo \in [Memorias -> Nat]
SaludosPasados ==
    \A m \in Memorias :
        /\ saludo[m] <= vida
        /\ sPc \in {"aceptar", "saludo"} => saludo[m] < vida

SaludoInv == SaludoTipo /\ SaludosPasados /\ UnaMemoriaPorSwap

LEMMA SaludoInicial == Init => SaludoInv
BY DEF Init, SwapInit, SaludoInv, SaludoTipo, SaludosPasados, UnaMemoriaPorSwap

(* No step but the greeting touches the answers.                           *)
LEMMA SaludoQuieto ==
    ASSUME SaludoInv, UNCHANGED <<vida, saludo>>,
           sPc' \in {"aceptar", "saludo"} => sPc \in {"aceptar", "saludo"}
    PROVE  SaludoInv'
BY DEF SaludoInv, SaludoTipo, SaludosPasados, UnaMemoriaPorSwap

LEMMA SaludoSaluda == SaludoInv /\ SwapSaludo => SaludoInv'
<1> SUFFICES ASSUME SaludoInv, SwapSaludo PROVE SaludoInv'
  OBVIOUS
<1> USE DEF SaludoInv, SaludoTipo, SaludosPasados, UnaMemoriaPorSwap
<1>1. /\ vida' = vida /\ sPc = "saludo" /\ sPc' \in {"pedido", "terminar"}
      /\ saludo' = saludo \/ saludo' = [saludo EXCEPT ![sActual] = vida]
  BY DEF SwapSaludo, TrasElHilo
<1>2. CASE saludo' = saludo
  BY <1>1, <1>2
<1>3. CASE saludo' = [saludo EXCEPT ![sActual] = vida]
  <2>1. \A m \in Memorias : saludo'[m] = IF m = sActual THEN vida ELSE saludo[m]
    BY <1>3
  <2>2. SaludoTipo'
    BY <1>1, <1>3
  <2>4. SaludosPasados'
    BY <1>1, <2>1
  <2>3. UnaMemoriaPorSwap'
    BY <1>1, <2>1
  <2> QED BY <2>2, <2>3, <2>4
<1> QED BY <1>1, <1>2, <1>3

LEMMA SaludoPaso == SaludoInv /\ [Next]_vars => SaludoInv'
<1> SUFFICES ASSUME SaludoInv, [Next]_vars PROVE SaludoInv'
  OBVIOUS
<1>1. CASE NextSwap
  <2>1. CASE Arranca
    BY <2>1 DEF Arranca, SaludoInv, SaludoTipo, SaludosPasados, UnaMemoriaPorSwap
  <2>2. CASE SwapAcepta
    BY <2>2, SaludoQuieto DEF SwapAcepta
  <2>3. CASE SwapSaludo
    BY <2>3, SaludoSaluda
  <2>4. CASE SwapPedido
    BY <2>4, SaludoQuieto DEF SwapPedido, Corta, TrasElHilo
  <2>5. CASE SwapTermina \/ SwapCae
    BY <2>5, SaludoQuieto DEF SwapTermina, SwapCae, Corta
  <2> QED BY <1>1, <2>1, <2>2, <2>3, <2>4, <2>5 DEF NextSwap, PasoSwap
<1>2. ASSUME NEW m \in Memorias,
             PideAsignacion(m) \/ SinSwap(m) \/ PasoMem(m) \/ MemMuere(m)
      PROVE  SaludoInv'
  BY <1>2, SaludoQuieto DEF PideAsignacion, SinSwap, PasoMem, RecibePaginas, RecibePagina,
     MemMuere, swap
<1>3. CASE UNCHANGED vars
  BY <1>3, SaludoQuieto DEF vars, swap
<1> QED BY <1>1, <1>2, <1>3 DEF Next

(* swap.c accepts one client in its life: two runs of Memoria are never    *)
(* answered by the same run of Swap.                                       *)
THEOREM UnSwapPorMemoria == Spec => []UnaMemoriaPorSwap
<1>1. SaludoInv => UnaMemoriaPorSwap
  BY DEF SaludoInv
<1> QED BY <1>1, SaludoInicial, SaludoPaso, PTL DEF Spec

-----------------------------------------------------------------------------
(* The four packets of a start that goes well, and what their readers get. *)

MsjSaludo == TramaPlana(MEMORIA, <<ASIGNACION_FIJA, Dato>>)
MsjPaginas == TramaPlana(CANT_PAGS_MAXIMAS, <<CantPaginas, Dato>>)
MsjLectura == TramaCarpincho(LEER_PAGINA, Puntero, 995, 365)
MsjDespedida == TramaCarpincho(FINALIZAR_SWAP, Puntero, 995, 365)

LEMMA LosMensajes ==
    /\ MsjSaludo \in Seq(Palabra) /\ MsjPaginas \in Seq(Palabra)
    /\ MsjLectura \in Seq(Palabra) /\ MsjDespedida \in Seq(Palabra)
    /\ PaginaLeida \in Seq(Palabra)
    /\ Completo("plano", MsjSaludo) /\ MsjSaludo[3] = ASIGNACION_FIJA
    /\ Recibe("plano", MsjSaludo).cod = MEMORIA /\ Recibe("plano", MsjSaludo).resto = <<>>
    /\ Completo("plano", MsjPaginas) /\ MsjPaginas[3] = CantPaginas
    /\ Recibe("plano", MsjPaginas).resto = <<>>
    /\ <<>> \o MsjPaginas = MsjPaginas
    /\ Completo("carpincho", MsjLectura) /\ <<>> \o MsjLectura = MsjLectura
    /\ Recibe("carpincho", MsjLectura).cod = LEER_PAGINA /\ Recibe("carpincho", MsjLectura).resto = <<>>
    /\ Completo("carpincho", MsjDespedida) /\ <<>> \o MsjDespedida = MsjDespedida
    /\ Recibe("carpincho", MsjDespedida).cod = FINALIZAR_SWAP /\ Recibe("carpincho", MsjDespedida).resto = <<>>
    /\ Completo("carpincho", PaginaLeida) /\ <<>> \o PaginaLeida = PaginaLeida
    /\ Recibe("carpincho", PaginaLeida).cod = LEER_PAGINA /\ Recibe("carpincho", PaginaLeida).resto = <<>>
<1>1. /\ {MEMORIA, ASIGNACION_FIJA, CANT_PAGS_MAXIMAS, CantPaginas, Dato} \subseteq Palabra
      /\ {LEER_PAGINA, FINALIZAR_SWAP, 995, 365, 12, 2} \subseteq Palabra
  BY CantPaginasNat DEF Palabra, MEMORIA, ASIGNACION_FIJA, CANT_PAGS_MAXIMAS, LEER_PAGINA,
     FINALIZAR_SWAP
<1>2. /\ MsjSaludo \in Seq(Palabra) /\ Completo("plano", MsjSaludo)
      /\ MsjSaludo[3] = ASIGNACION_FIJA
      /\ Recibe("plano", MsjSaludo).cod = MEMORIA /\ Recibe("plano", MsjSaludo).resto = <<>>
  BY <1>1, PlanaDeDos DEF MsjSaludo
<1>3. /\ MsjPaginas \in Seq(Palabra) /\ Completo("plano", MsjPaginas)
      /\ MsjPaginas[3] = CantPaginas /\ <<>> \o MsjPaginas = MsjPaginas
      /\ Recibe("plano", MsjPaginas).resto = <<>>
  BY <1>1, PlanaDeDos DEF MsjPaginas
<1>4. /\ MsjLectura \in Seq(Palabra)
      /\ Completo("carpincho", MsjLectura) /\ <<>> \o MsjLectura = MsjLectura
      /\ Recibe("carpincho", MsjLectura).cod = LEER_PAGINA /\ Recibe("carpincho", MsjLectura).resto = <<>>
  BY <1>1, CarpinchoDePuntero DEF MsjLectura
<1>5. /\ MsjDespedida \in Seq(Palabra)
      /\ Completo("carpincho", MsjDespedida) /\ <<>> \o MsjDespedida = MsjDespedida
      /\ Recibe("carpincho", MsjDespedida).cod = FINALIZAR_SWAP /\ Recibe("carpincho", MsjDespedida).resto = <<>>
  BY <1>1, CarpinchoDePuntero DEF MsjDespedida
<1>6. /\ PaginaLeida \in Seq(Palabra)
      /\ Completo("carpincho", PaginaLeida) /\ <<>> \o PaginaLeida = PaginaLeida
      /\ Recibe("carpincho", PaginaLeida).cod = LEER_PAGINA /\ Recibe("carpincho", PaginaLeida).resto = <<>>
  BY <1>1, CarpinchoDePuntero DEF PaginaLeida
<1> QED BY <1>2, <1>3, <1>4, <1>5, <1>6

-----------------------------------------------------------------------------
(* Where the packets of a start can be.  Who is where decides what its     *)
(* connection holds: this is what makes the properties of the start        *)
(* inductive.                                                              *)

(* Both ends of a connection and what Memoria has sent.  What it sent to a *)
(* Swap that has not accepted it is its greeting, and only the connection  *)
(* being served is open at Swap's end.                                     *)
Extremos(m) ==
    /\ est[m] = "fuera" => srv[m] = "sin"
    /\ est[m] \in Esperando => cli[m] = "abierta" /\ srv[m] # "sin"
    /\ est[m] = "muerta" => cli[m] # "abierta"
    /\ srv[m] = "sin" => cli[m] = "sin" /\ aSwap[m] = <<>>
    /\ srv[m] # "sin" => cli[m] # "sin"
    /\ srv[m] = "espera" => /\ est[m] \in {"esperaPaginas", "muerta"}
                            /\ aSwap[m] = MsjSaludo /\ aMem[m] = <<>>
    /\ srv[m] = "abierta" => m = sActual
    /\ srv[m] = "cerrada" => aSwap[m] = <<>>

(* Nothing but the answer Memoria waits for ever comes from Swap.          *)
Correo(m) ==
    \/ aMem[m] = <<>>
    \/ est[m] = "esperaPaginas" /\ aMem[m] = MsjPaginas
    \/ est[m] = "esperaPagina" /\ aMem[m] = PaginaLeida

(* Only a run that was cut short waits on a closed connection, and the     *)
(* others know what they asked for.                                        *)
Valores(m) ==
    /\ est[m] \in Esperando /\ srv[m] = "cerrada" => m \in cortadas
    /\ m \notin cortadas =>
         /\ est[m] = "esperaPagina" => paginas[m] = CantPaginas
         /\ est[m] = "sirve" => paginas[m] = CantPaginas /\ leido[m] = LEER_PAGINA

InvMemoria(m) == Extremos(m) /\ Correo(m) /\ Valores(m)

Turno ==
    /\ sPc \in {"fuera", "aceptar"} => sActual = Nulo
    /\ sPc = "fuera" => cola = <<>>
    /\ sPc = "aceptar" => \A i \in 1 .. Len(cola) : srv[cola[i]] = "espera"
    /\ sPc \in {"saludo", "pedido", "terminar"} => sActual \in Memorias

(* The exchange with the run Swap serves is at one of these points.        *)
Intercambio(m) ==
    \/ est[m] = "esperaPaginas" /\ aSwap[m] = <<>> /\ aMem[m] = MsjPaginas
    \/ est[m] = "esperaPagina" /\ aSwap[m] = MsjLectura /\ aMem[m] = <<>>
    \/ est[m] = "esperaPagina" /\ aSwap[m] = <<>> /\ aMem[m] = PaginaLeida
    \/ est[m] = "sirve" /\ aSwap[m] = MsjDespedida
    \/ est[m] = "muerta" /\ aSwap[m] \in {<<>>, MsjLectura, MsjDespedida}

Servida ==
    /\ sPc = "saludo" =>
         /\ srv[sActual] = "abierta" /\ est[sActual] \in {"esperaPaginas", "muerta"}
         /\ aSwap[sActual] = MsjSaludo /\ aMem[sActual] = <<>>
    /\ sPc = "pedido" => srv[sActual] = "abierta" /\ Intercambio(sActual)
    /\ sPc = "terminar" => est[sActual] \in {"sirve", "muerta"} /\ srv[sActual] \in {"abierta", "cerrada"}

InvArranque == TypeOK /\ Turno /\ Servida /\ \A m \in Memorias : InvMemoria(m)

LEMMA ArranqueInicial == Init => InvArranque
<1> SUFFICES ASSUME Init PROVE InvArranque
  OBVIOUS
<1>1. TypeOK
  <2>1. /\ aSwap \in [Memorias -> Seq(Palabra)] /\ aMem \in [Memorias -> Seq(Palabra)]
        /\ cola \in Seq(Memorias)
    BY EmptySeq DEF Init, SwapInit
  <2>2. 0 \in 0 .. MaxVidas
    BY CantPaginasNat
  <2> QED BY <2>1, <2>2 DEF Init, SwapInit, TypeOK, SwapTypeOK
<1>2. Turno /\ Servida /\ \A m \in Memorias : InvMemoria(m)
  BY DEF Init, SwapInit, Turno, Servida, InvMemoria, Extremos, Correo, Valores, Esperando
<1> QED BY <1>1, <1>2 DEF InvArranque

(* The end of Swap: whoever waits is cut short.                            *)
LEMMA ArranqueCorta ==
    ASSUME InvArranque, Corta, UNCHANGED <<est, paginas, leido>>,
           cortadas' = cortadas \cup {m \in Memorias : est[m] \in Esperando}
    PROVE  InvArranque'
<1>1. TypeOK'
  <2>1. aSwap' \in [Memorias -> Seq(Palabra)] /\ cola' \in Seq(Memorias)
    BY EmptySeq DEF Corta
  <2>2. aMem' \in [Memorias -> Seq(Palabra)]
    BY EmptySeq DEF Corta, InvArranque, TypeOK, SwapTypeOK
  <2>3. /\ srv' \in [Memorias -> {"sin", "espera", "abierta", "cerrada"}]
        /\ UNCHANGED <<cli, vida, saludo>> /\ sPc' = "fuera" /\ sActual' = Nulo
    BY DEF Corta
  <2> QED BY <2>1, <2>2, <2>3 DEF InvArranque, TypeOK, SwapTypeOK
<1>2. Turno' /\ Servida'
  BY DEF Corta, Turno, Servida
<1>3. ASSUME NEW m \in Memorias PROVE InvMemoria(m)'
  <2>1. /\ est'[m] = est[m] /\ cli'[m] = cli[m] /\ aSwap'[m] = <<>>
        /\ srv'[m] = IF srv[m] = "sin" THEN "sin" ELSE "cerrada"
        /\ aMem'[m] \in {aMem[m], <<>>}
        /\ paginas'[m] = paginas[m] /\ leido'[m] = leido[m]
    BY DEF Corta
  <2>2. InvMemoria(m)
    BY DEF InvArranque
  <2>3. Extremos(m)'
    BY <2>1, <2>2 DEF InvMemoria, Extremos
  <2>4. Correo(m)'
    BY <2>1, <2>2 DEF InvMemoria, Correo
  <2>5. Valores(m)'
    BY <2>1, <2>2 DEF InvMemoria, Valores
  <2> QED BY <2>3, <2>4, <2>5 DEF InvMemoria
<1> QED BY <1>1, <1>2, <1>3 DEF InvArranque

(* A run of Memoria the step leaves alone.                                 *)
LEMMA MemoriaQuieta ==
    ASSUME NEW n \in Memorias, InvMemoria(n), cortadas \subseteq cortadas',
           est'[n] = est[n], cli'[n] = cli[n], srv'[n] = srv[n],
           aSwap'[n] = aSwap[n], aMem'[n] = aMem[n],
           paginas'[n] = paginas[n], leido'[n] = leido[n],
           srv[n] = "abierta" => sActual' = sActual
    PROVE  InvMemoria(n)'
<1>1. Extremos(n)'
  BY DEF InvMemoria, Extremos
<1>2. Correo(n)' /\ Valores(n)'
  BY DEF InvMemoria, Correo, Valores
<1> QED BY <1>1, <1>2 DEF InvMemoria

LEMMA ArranqueArranca == InvArranque /\ Arranca /\ UNCHANGED memorias => InvArranque'
<1> SUFFICES ASSUME InvArranque, Arranca, UNCHANGED memorias PROVE InvArranque'
  OBVIOUS
<1> USE DEF Arranca, memorias, conexiones
<1>1. TypeOK'
  <2>1. vida' \in 0 .. MaxVidas
    BY CantPaginasNat DEF InvArranque, TypeOK, SwapTypeOK
  <2> QED BY <2>1 DEF InvArranque, TypeOK, SwapTypeOK
<1>2. \A m \in Memorias : InvMemoria(m)'
  BY MemoriaQuieta DEF InvArranque
<1>3. sPc = "fuera" /\ sActual = Nulo
  BY DEF InvArranque, Turno
<1>4. Turno' /\ Servida'
  <2>1. \A i \in 1 .. Len(cola) : srv[cola[i]] = "espera"
    BY EmptySeq DEF InvArranque, Turno
  <2> QED BY <1>3, <2>1 DEF Turno, Servida
<1> QED BY <1>1, <1>2, <1>4 DEF InvArranque

LEMMA ArranqueAcepta == InvArranque /\ SwapAcepta /\ UNCHANGED memorias => InvArranque'
<1> SUFFICES ASSUME InvArranque, SwapAcepta, UNCHANGED memorias PROVE InvArranque'
  OBVIOUS
<1>0. PICK m : m = Head(cola)
  OBVIOUS
<1>1. /\ m \in Memorias /\ Tail(cola) \in Seq(Memorias)
      /\ srv[m] = "espera" /\ sActual = Nulo
  <2>1. cola \in Seq(Memorias) /\ cola # <<>>
    BY DEF InvArranque, TypeOK, SwapTypeOK, SwapAcepta
  <2>2. m = cola[1] /\ m \in Memorias /\ Len(cola) >= 1 /\ Tail(cola) \in Seq(Memorias)
    BY <1>0, <2>1
  <2> QED BY <2>1, <2>2 DEF InvArranque, Turno, SwapAcepta
<1>2. /\ sActual' = m /\ sPc' = "saludo" /\ cola' = Tail(cola)
      /\ srv' = [srv EXCEPT ![m] = "abierta"]
      /\ UNCHANGED <<aSwap, aMem, cli, vida, saludo, est, paginas, leido, cortadas>>
  BY <1>0 DEF SwapAcepta, memorias
<1>3. TypeOK'
  BY <1>1, <1>2 DEF InvArranque, TypeOK, SwapTypeOK
<1>4. srv'[m] = "abierta" /\ \A n \in Memorias : n # m => srv'[n] = srv[n]
  BY <1>1, <1>2 DEF InvArranque, TypeOK, SwapTypeOK
<1>5. InvMemoria(m)
  BY <1>1 DEF InvArranque
<1>6. InvMemoria(m)'
  <2>1. Extremos(m)'
    BY <1>1, <1>2, <1>4, <1>5 DEF InvMemoria, Extremos, Esperando
  <2>2. Correo(m)' /\ Valores(m)'
    BY <1>1, <1>2, <1>4, <1>5 DEF InvMemoria, Correo, Valores
  <2> QED BY <2>1, <2>2 DEF InvMemoria
<1>7. ASSUME NEW n \in Memorias, n # m PROVE InvMemoria(n)'
  <2>1. InvMemoria(n) /\ srv[n] # "abierta"
    BY <1>1, NuloAparte DEF InvArranque, InvMemoria, Extremos
  <2> QED BY <1>2, <1>4, <1>7, <2>1, MemoriaQuieta
<1>8. Turno' /\ Servida'
  BY <1>1, <1>2, <1>4, <1>5 DEF Turno, Servida, InvMemoria, Extremos
<1> QED BY <1>3, <1>6, <1>7, <1>8 DEF InvArranque

(* The greeting Swap reads is always the one of the initialisation, so     *)
(* that it always answers.                                                 *)
LEMMA ArranqueSaluda == InvArranque /\ SwapSaludo /\ UNCHANGED memorias => InvArranque'
<1> SUFFICES ASSUME InvArranque, SwapSaludo, UNCHANGED memorias PROVE InvArranque'
  OBVIOUS
<1>0. PICK m : m = sActual
  OBVIOUS
<1>1. /\ m \in Memorias /\ srv[m] = "abierta" /\ est[m] \in {"esperaPaginas", "muerta"}
      /\ aSwap[m] = MsjSaludo /\ aMem[m] = <<>> /\ sPc = "saludo" /\ InvMemoria(m)
  BY <1>0 DEF InvArranque, Turno, Servida, SwapSaludo
<1>2. /\ Recibe("plano", aSwap[m]).cod = MEMORIA /\ Recibe("plano", aSwap[m]).resto = <<>>
      /\ AsignacionConocida(aSwap[m][3])
  BY <1>1, LosMensajes DEF AsignacionConocida
<1>3. /\ aSwap' = [aSwap EXCEPT ![m] = <<>>]
      /\ aMem' = HaciaMem(m, MsjPaginas)
      /\ saludo' = [saludo EXCEPT ![m] = vida]
      /\ sPc' = "pedido"
      /\ UNCHANGED <<cli, srv, cola, sActual, vida, est, paginas, leido, cortadas>>
  BY <1>0, <1>2 DEF SwapSaludo, memorias, MsjPaginas
<1>4. aMem' \in [Memorias -> Seq(Palabra)]
  BY <1>1, <1>3, LosMensajes DEF HaciaMem, InvArranque, TypeOK, SwapTypeOK
<1>5. TypeOK'
  <2>1. aSwap' \in [Memorias -> Seq(Palabra)]
    BY <1>1, <1>3, EmptySeq DEF InvArranque, TypeOK, SwapTypeOK
  <2>2. saludo' \in [Memorias -> 0 .. MaxVidas]
    BY <1>1, <1>3 DEF InvArranque, TypeOK, SwapTypeOK
  <2>3. sPc' \in {"fuera", "aceptar", "saludo", "pedido", "terminar"}
    BY <1>3
  <2> QED BY <1>3, <1>4, <2>1, <2>2, <2>3 DEF InvArranque, TypeOK, SwapTypeOK
<1>6. /\ aSwap'[m] = <<>>
      /\ aMem'[m] = IF cli[m] = "cerrada" THEN <<>> ELSE MsjPaginas
      /\ \A n \in Memorias : n # m => aSwap'[n] = aSwap[n] /\ aMem'[n] = aMem[n]
  <2>1. aSwap \in [Memorias -> Seq(Palabra)] /\ aMem \in [Memorias -> Seq(Palabra)]
    BY DEF InvArranque, TypeOK, SwapTypeOK
  <2>2. <<>> \o MsjPaginas = MsjPaginas
    BY LosMensajes
  <2> QED BY <1>1, <1>3, <2>1, <2>2 DEF HaciaMem
<1>7. \/ est[m] = "esperaPaginas" /\ aMem'[m] = MsjPaginas
      \/ est[m] = "muerta" /\ aMem'[m] = <<>>
  <2>1. cli[m] \in {"sin", "abierta", "cerrada"}
    BY <1>1 DEF InvArranque, TypeOK, SwapTypeOK
  <2> QED BY <1>1, <1>6, <2>1 DEF InvMemoria, Extremos, Esperando
<1>8. InvMemoria(m)'
  <2>1. Extremos(m)'
    BY <1>1, <1>3, <1>6, <1>0 DEF InvMemoria, Extremos, Esperando
  <2>2. Correo(m)' /\ Valores(m)'
    BY <1>1, <1>3, <1>7 DEF InvMemoria, Correo, Valores
  <2> QED BY <2>1, <2>2 DEF InvMemoria
<1>9. ASSUME NEW n \in Memorias, n # m PROVE InvMemoria(n)'
  BY <1>3, <1>6, <1>9, MemoriaQuieta DEF InvArranque
<1>10. Turno' /\ Servida'
  BY <1>0, <1>1, <1>3, <1>6, <1>7 DEF Turno, Servida, Intercambio
<1> QED BY <1>5, <1>8, <1>9, <1>10 DEF InvArranque

(* What SwapPedido does with each of the things it may find: nothing,      *)
(* because Memoria died, the request for a page, and the goodbye.          *)
LEMMA PedidoPorCasos ==
    ASSUME InvArranque, SwapPedido, NEW m, m = sActual
    PROVE  /\ m \in Memorias /\ srv[m] = "abierta" /\ InvMemoria(m) /\ sPc = "pedido"
           /\ aSwap' = [aSwap EXCEPT ![m] = <<>>]
           /\ UNCHANGED <<cli, cola, sActual, vida, saludo>>
           /\ \/ /\ est[m] = "muerta" /\ aMem[m] = <<>>
                 /\ sPc' = "terminar" /\ UNCHANGED <<srv, aMem>>
              \/ /\ est[m] \in {"esperaPagina", "muerta"} /\ aMem[m] = <<>>
                 /\ sPc' = "pedido" /\ srv' = srv
                 /\ aMem' = HaciaMem(m, PaginaLeida)
              \/ /\ est[m] \in {"sirve", "muerta"} /\ aMem[m] = <<>>
                 /\ sPc' = "terminar" /\ srv' = [srv EXCEPT ![m] = "cerrada"]
                 /\ aMem' = HaciaMem(m, <<>>)
<1>1. /\ m \in Memorias /\ srv[m] = "abierta" /\ Intercambio(m) /\ InvMemoria(m)
      /\ sPc = "pedido" /\ SwapLegible("carpincho")
      /\ cli[m] \in {"sin", "abierta", "cerrada"}
  BY DEF InvArranque, TypeOK, SwapTypeOK, Turno, Servida, SwapPedido, FormatoPedido
<1>2. /\ est[m] = "muerta" => aMem[m] = <<>> /\ cli[m] = "cerrada"
      /\ est[m] = "sirve" => aMem[m] = <<>>
      /\ est[m] \in Esperando => cli[m] = "abierta"
  BY <1>1 DEF InvMemoria, Extremos, Correo, Esperando
<1> DEFINE p == Recibe("carpincho", aSwap[m])
<1>3. ~EscrituraFalla(p.cod) =>
        /\ aSwap' = [aSwap EXCEPT ![m] = p.resto]
        /\ aMem' = HaciaMem(m, Respuesta(p))
        /\ sPc' = IF Sigue(p.cod) THEN "pedido" ELSE "terminar"
        /\ srv' = IF p.cod = FINALIZAR_SWAP THEN [srv EXCEPT ![m] = "cerrada"] ELSE srv
        /\ UNCHANGED <<cli, cola, sActual, vida, saludo>>
  BY DEF SwapPedido, FormatoPedido, TrasElHilo
<1>4. \/ aSwap[m] = <<>> /\ est[m] = "muerta"
      \/ aSwap[m] = MsjLectura /\ est[m] \in {"esperaPagina", "muerta"} /\ aMem[m] = <<>>
      \/ aSwap[m] = MsjDespedida /\ est[m] \in {"sirve", "muerta"}
  <2>1. aSwap[m] = <<>> => cli[m] = "cerrada"
    BY <1>1, NadaQueLeer DEF SwapLegible, Legible
  <2> QED BY <1>1, <1>2, <2>1 DEF Intercambio, Esperando
<1> USE DEF LEER_PAGINA, ESCRIBIR_PAGINA, BORRAR_PAGINA, PEDIR_PAGINA, FINALIZAR_SWAP,
            CARPINCHO_NEW, CARPINCHO_KILL, ERROR
<1>5. CASE aSwap[m] = <<>> /\ est[m] = "muerta"
  <2>1. p = LeeCortado
    BY <1>5, NadaQueLeer
  <2>2. p.cod = ERROR /\ p.resto = <<>>
    BY <2>1 DEF LeeCortado
  <2> HIDE DEF p
  <2>3. ~EscrituraFalla(p.cod) /\ ~Sigue(p.cod) /\ p.cod # FINALIZAR_SWAP
    BY <2>2 DEF EscrituraFalla, Sigue
  <2>4. HaciaMem(m, Respuesta(p)) = aMem
    BY <1>2, <1>5 DEF HaciaMem
  <2> QED BY <1>1, <1>2, <1>3, <1>5, <2>2, <2>3, <2>4
<1>6. CASE aSwap[m] = MsjLectura /\ est[m] \in {"esperaPagina", "muerta"} /\ aMem[m] = <<>>
  <2>1. p.cod = LEER_PAGINA /\ p.resto = <<>>
    BY <1>6, LosMensajes
  <2> HIDE DEF p
  <2>2. ~EscrituraFalla(p.cod) /\ Sigue(p.cod) /\ p.cod # FINALIZAR_SWAP
    BY <2>1 DEF EscrituraFalla, Sigue
  <2>3. Respuesta(p) = PaginaLeida
    BY <2>1 DEF Respuesta
  <2> QED BY <1>1, <1>3, <1>6, <2>1, <2>2, <2>3
<1>7. CASE aSwap[m] = MsjDespedida /\ est[m] \in {"sirve", "muerta"}
  <2>1. p.cod = FINALIZAR_SWAP /\ p.resto = <<>>
    BY <1>7, LosMensajes
  <2> HIDE DEF p
  <2>2. ~EscrituraFalla(p.cod) /\ ~Sigue(p.cod)
    BY <2>1 DEF EscrituraFalla, Sigue
  <2>3. Respuesta(p) = <<>>
    BY <2>1 DEF Respuesta
  <2> QED BY <1>1, <1>2, <1>3, <1>7, <2>1, <2>2, <2>3
<1> QED BY <1>4, <1>5, <1>6, <1>7

(* What goes to Memoria keeps the connections well formed, and nothing     *)
(* goes to a Memoria that closed its end.                                  *)
LEMMA CorreoEnviado ==
    ASSUME TypeOK, NEW m \in Memorias, NEW ws \in Seq(Palabra), <<>> \o ws = ws,
           aMem[m] = <<>>, aMem' = HaciaMem(m, ws)
    PROVE  /\ aMem' \in [Memorias -> Seq(Palabra)]
           /\ aMem'[m] = IF cli[m] = "cerrada" THEN <<>> ELSE ws
           /\ \A n \in Memorias : n # m => aMem'[n] = aMem[n]
BY DEF TypeOK, SwapTypeOK, HaciaMem

LEMMA ArranquePide == InvArranque /\ SwapPedido /\ UNCHANGED memorias => InvArranque'
<1> SUFFICES ASSUME InvArranque, SwapPedido, UNCHANGED memorias PROVE InvArranque'
  OBVIOUS
<1>0. PICK m : m = sActual
  OBVIOUS
<1>1. /\ m \in Memorias /\ srv[m] = "abierta" /\ InvMemoria(m) /\ sPc = "pedido"
      /\ aSwap' = [aSwap EXCEPT ![m] = <<>>]
      /\ UNCHANGED <<cli, cola, sActual, vida, saludo, est, paginas, leido, cortadas>>
  BY <1>0, PedidoPorCasos DEF memorias
<1> DEFINE Queda == est[m] = "muerta" /\ aMem'[m] = <<>>
           Recibio == est[m] = "esperaPagina" /\ aMem'[m] = PaginaLeida
           Fin == est[m] \in {"sirve", "muerta"} /\ aMem'[m] = <<>>
           Otras == /\ aMem' \in [Memorias -> Seq(Palabra)]
                    /\ \A n \in Memorias : n # m => aMem'[n] = aMem[n]
<1>2. /\ Otras
      /\ \/ Queda /\ sPc' \in {"pedido", "terminar"} /\ srv' = srv
         \/ Recibio /\ sPc' = "pedido" /\ srv' = srv
         \/ Fin /\ sPc' = "terminar" /\ srv' = [srv EXCEPT ![m] = "cerrada"]
  <2>0. /\ TypeOK
        /\ est[m] = "esperaPagina" => cli[m] # "cerrada"
        /\ est[m] = "muerta" => cli[m] = "cerrada"
    <3>1. TypeOK /\ cli[m] \in {"sin", "abierta", "cerrada"}
      BY <1>1 DEF InvArranque, TypeOK, SwapTypeOK
    <3> QED BY <1>1, <3>1 DEF InvMemoria, Extremos, Esperando
  <2>1. CASE est[m] = "muerta" /\ aMem[m] = <<>> /\ sPc' = "terminar" /\ UNCHANGED <<srv, aMem>>
    BY <2>0, <2>1 DEF TypeOK, SwapTypeOK
  <2>2. CASE /\ est[m] \in {"esperaPagina", "muerta"} /\ aMem[m] = <<>>
             /\ sPc' = "pedido" /\ srv' = srv /\ aMem' = HaciaMem(m, PaginaLeida)
    <3>1. /\ Otras
          /\ aMem'[m] = IF cli[m] = "cerrada" THEN <<>> ELSE PaginaLeida
      BY <1>1, <2>0, <2>2, LosMensajes, CorreoEnviado
    <3> QED BY <2>0, <2>2, <3>1
  <2>3. CASE /\ est[m] \in {"sirve", "muerta"} /\ aMem[m] = <<>>
             /\ sPc' = "terminar" /\ srv' = [srv EXCEPT ![m] = "cerrada"]
             /\ aMem' = HaciaMem(m, <<>>)
    <3>1. <<>> \in Seq(Palabra) /\ <<>> \o <<>> = <<>>
      BY EmptySeq, ConcatEmptySeq
    <3>2. Otras /\ aMem'[m] = <<>>
      BY <1>1, <2>0, <2>3, <3>1, CorreoEnviado
    <3> QED BY <2>3, <3>2
  <2> QED BY <1>0, <2>1, <2>2, <2>3, PedidoPorCasos
<1>3. /\ aSwap' \in [Memorias -> Seq(Palabra)] /\ aSwap'[m] = <<>>
      /\ \A n \in Memorias : n # m => aSwap'[n] = aSwap[n]
      /\ srv' \in [Memorias -> {"sin", "espera", "abierta", "cerrada"}]
      /\ \A n \in Memorias : n # m => srv'[n] = srv[n]
      /\ srv'[m] \in {"abierta", "cerrada"}
  <2>1. /\ aSwap \in [Memorias -> Seq(Palabra)] /\ <<>> \in Seq(Palabra)
        /\ srv \in [Memorias -> {"sin", "espera", "abierta", "cerrada"}]
    BY EmptySeq DEF InvArranque, TypeOK, SwapTypeOK
  <2>2. srv' = srv \/ srv' = [srv EXCEPT ![m] = "cerrada"]
    BY <1>2
  <2> QED BY <1>1, <2>1, <2>2
<1>4. TypeOK'
  <2>1. sPc' \in {"fuera", "aceptar", "saludo", "pedido", "terminar"}
    BY <1>2
  <2> QED BY <1>1, <1>2, <1>3, <2>1 DEF InvArranque, TypeOK, SwapTypeOK
<1>5. InvMemoria(m)'
  <2>1. Extremos(m)'
    BY <1>0, <1>1, <1>2, <1>3 DEF InvMemoria, Extremos
  <2>2. Correo(m)'
    BY <1>1, <1>2 DEF Correo
  <2>3. Valores(m)'
    BY <1>1, <1>2 DEF InvMemoria, Valores, Esperando
  <2> QED BY <2>1, <2>2, <2>3 DEF InvMemoria
<1>6. ASSUME NEW n \in Memorias, n # m PROVE InvMemoria(n)'
  BY <1>1, <1>2, <1>3, <1>6, MemoriaQuieta DEF InvArranque
<1>7. Turno' /\ Servida'
  BY <1>0, <1>1, <1>2, <1>3 DEF Turno, Servida, Intercambio
<1> QED BY <1>4, <1>5, <1>6, <1>7 DEF InvArranque

(* A step of one run of Memoria: the others and their connections stay as  *)
(* they are, and so does what Swap is doing unless it serves this one.     *)
LEMMA PasoDeUna ==
    ASSUME InvArranque, TypeOK', UNCHANGED swap, NEW m \in Memorias,
           cortadas \subseteq cortadas',
           \A n \in Memorias : n # m =>
             /\ est'[n] = est[n] /\ cli'[n] = cli[n] /\ srv'[n] = srv[n]
             /\ aSwap'[n] = aSwap[n] /\ aMem'[n] = aMem[n]
             /\ paginas'[n] = paginas[n] /\ leido'[n] = leido[n],
           InvMemoria(m)',
           sPc = "fuera" => cola' = <<>>,
           sPc = "aceptar" => \A i \in 1 .. Len(cola') : srv'[cola'[i]] = "espera",
           m = sActual => Servida'
    PROVE  InvArranque'
<1>1. ASSUME NEW n \in Memorias, n # m PROVE InvMemoria(n)'
  BY <1>1, MemoriaQuieta DEF InvArranque, swap
<1>2. Turno'
  BY DEF InvArranque, Turno, swap
<1>3. ASSUME m # sActual PROVE Servida'
  BY <1>3 DEF InvArranque, Turno, Servida, Intercambio, swap
<1>4. Servida'
  BY <1>3
<1> QED BY <1>1, <1>2, <1>4 DEF InvArranque

LEMMA ArranquePideAsignacion ==
    ASSUME InvArranque, NEW m \in Memorias, PideAsignacion(m) PROVE InvArranque'
<1> USE DEF PideAsignacion
<1>1. InvMemoria(m) /\ srv[m] = "sin" /\ aMem[m] = <<>> /\ est[m] = "fuera"
  BY DEF InvArranque, InvMemoria, Extremos, Correo
<1>2. TypeOK'
  <2>1. aSwap' \in [Memorias -> Seq(Palabra)]
    BY LosMensajes DEF MsjSaludo, InvArranque, TypeOK, SwapTypeOK
  <2>2. cola' \in Seq(Memorias)
    BY DEF InvArranque, TypeOK, SwapTypeOK
  <2> QED BY <2>1, <2>2 DEF InvArranque, TypeOK, SwapTypeOK, Esperando, swap
<1>3. /\ est'[m] = "esperaPaginas" /\ cli'[m] = "abierta" /\ srv'[m] = "espera"
      /\ aSwap'[m] = MsjSaludo
      /\ \A n \in Memorias : n # m =>
             est'[n] = est[n] /\ cli'[n] = cli[n] /\ srv'[n] = srv[n] /\ aSwap'[n] = aSwap[n]
  BY DEF InvArranque, TypeOK, SwapTypeOK, MsjSaludo
<1>4. InvMemoria(m)'
  BY <1>1, <1>3 DEF InvMemoria, Extremos, Correo, Valores, Esperando
<1>5. sPc = "aceptar" => \A i \in 1 .. Len(cola') : srv'[cola'[i]] = "espera"
  <2> SUFFICES ASSUME sPc = "aceptar", NEW i \in 1 .. Len(cola')
               PROVE  srv'[cola'[i]] = "espera"
    OBVIOUS
  <2>1. cola \in Seq(Memorias) /\ cola' = Append(cola, m)
    BY DEF InvArranque, TypeOK, SwapTypeOK
  <2>2. CASE i = Len(cola) + 1
    BY <1>3, <2>1, <2>2
  <2>3. CASE i # Len(cola) + 1
    <3>1. i \in 1 .. Len(cola) /\ cola'[i] = cola[i] /\ cola[i] \in Memorias
      BY <2>1, <2>3
    <3>2. srv[cola[i]] = "espera"
      BY <3>1 DEF InvArranque, Turno
    <3> QED BY <1>3, <3>1, <3>2
  <2> QED BY <2>2, <2>3
<1>6. m # sActual
  BY <1>1, NuloAparte DEF InvArranque, TypeOK, SwapTypeOK, Turno, Servida
<1> QED BY <1>2, <1>3, <1>4, <1>5, <1>6, PasoDeUna DEF InvArranque

LEMMA ArranqueSinSwap ==
    ASSUME InvArranque, NEW m \in Memorias, SinSwap(m) PROVE InvArranque'
<1> USE DEF SinSwap, conexiones, swap
<1>1. /\ InvMemoria(m) /\ srv[m] = "sin" /\ cli[m] = "sin" /\ aMem[m] = <<>>
      /\ est[m] = "fuera" /\ m # sActual
  BY NuloAparte DEF InvArranque, InvMemoria, Extremos, Correo, Turno
<1>2. TypeOK'
  <2>1. /\ est' \in [Memorias -> {"fuera", "sirve", "muerta"} \cup Esperando]
        /\ paginas' \in [Memorias -> Nat \cup {Indef, Nulo}]
        /\ leido' \in [Memorias -> Palabra \cup {Nulo}]
        /\ cortadas' \subseteq Memorias
    BY DEF InvArranque, TypeOK, Palabra, ERROR
  <2> QED BY <2>1 DEF InvArranque, TypeOK, SwapTypeOK
<1>3. /\ est'[m] \in {"sirve", "muerta"} /\ m \in cortadas'
      /\ \A n \in Memorias : n # m =>
             est'[n] = est[n] /\ paginas'[n] = paginas[n] /\ leido'[n] = leido[n]
  BY DEF InvArranque, TypeOK, SwapTypeOK
<1>4. InvMemoria(m)'
  BY <1>1, <1>3 DEF InvMemoria, Extremos, Correo, Valores, Esperando
<1>5. sPc = "fuera" /\ cola' = <<>> /\ sPc # "aceptar"
  BY DEF InvArranque, Turno
<1> QED BY <1>1, <1>2, <1>3, <1>4, <1>5, PasoDeUna

LEMMA ArranqueMuere ==
    ASSUME InvArranque, NEW m \in Memorias, MemMuere(m) PROVE InvArranque'
<1> USE DEF MemMuere
<1>1. InvMemoria(m) /\ est[m] \in {"sirve"} \cup Esperando
  BY DEF InvArranque, TypeOK
<1>2. TypeOK'
  <2>1. aMem' \in [Memorias -> Seq(Palabra)]
    BY EmptySeq DEF InvArranque, TypeOK, SwapTypeOK
  <2> QED BY <2>1 DEF InvArranque, TypeOK, SwapTypeOK, swap
<1>3. /\ est'[m] = "muerta" /\ aMem'[m] = <<>>
      /\ cli'[m] = IF cli[m] = "abierta" THEN "cerrada" ELSE cli[m]
      /\ \A n \in Memorias : n # m =>
             est'[n] = est[n] /\ cli'[n] = cli[n] /\ aMem'[n] = aMem[n]
  BY DEF InvArranque, TypeOK, SwapTypeOK
<1>4. InvMemoria(m)'
  <2>1. Extremos(m)'
    BY <1>1, <1>3 DEF InvMemoria, Extremos, Esperando, swap
  <2>2. Correo(m)' /\ Valores(m)'
    BY <1>3 DEF Correo, Valores, Esperando
  <2> QED BY <2>1, <2>2 DEF InvMemoria
<1>5. m = sActual => Servida'
  BY <1>1, <1>3 DEF InvArranque, Servida, Intercambio, Esperando, swap
<1>6. (sPc = "fuera" => cola' = <<>>) /\ (sPc = "aceptar" => \A i \in 1 .. Len(cola') : srv'[cola'[i]] = "espera")
  BY DEF InvArranque, Turno
<1> QED BY <1>2, <1>3, <1>4, <1>5, <1>6, PasoDeUna DEF InvArranque

(* A Memoria that has something to read, or whose Swap ended: either Swap  *)
(* serves it and waits for its next packet, or it was cut short.           *)
LEMMA QuienRecibe ==
    ASSUME InvArranque, NEW m \in Memorias, est[m] \in Esperando,
           aMem[m] # <<>> \/ srv[m] = "cerrada"
    PROVE  /\ InvMemoria(m) /\ cli[m] = "abierta" /\ aSwap[m] = <<>>
           /\ \/ srv[m] = "abierta" /\ m = sActual /\ sPc = "pedido" /\ aMem[m] # <<>>
              \/ srv[m] = "cerrada" /\ m # sActual /\ m \in cortadas
<1>1. /\ InvMemoria(m) /\ cli[m] = "abierta" /\ srv[m] \in {"espera", "abierta", "cerrada"}
      /\ sPc \in {"fuera", "aceptar", "saludo", "pedido", "terminar"}
  BY DEF InvArranque, TypeOK, SwapTypeOK, InvMemoria, Extremos
<1>2. srv[m] # "espera"
  BY <1>1 DEF InvMemoria, Extremos
<1>3. m = sActual => sPc = "pedido" \/ sPc = "saludo"
  BY <1>1, NuloAparte DEF InvArranque, Turno, Servida, Esperando
<1>4. CASE srv[m] = "abierta"
  <2>1. m = sActual /\ aMem[m] # <<>>
    BY <1>1, <1>4 DEF InvMemoria, Extremos
  <2>2. sPc = "pedido"
    BY <1>3, <2>1 DEF InvArranque, Servida
  <2>3. aSwap[m] = <<>>
    BY <2>1, <2>2 DEF InvArranque, Servida, Intercambio, Esperando
  <2> QED BY <1>1, <1>4, <2>1, <2>2, <2>3
<1>5. CASE srv[m] = "cerrada"
  <2>1. m # sActual
    BY <1>3, <1>5 DEF InvArranque, Servida
  <2> QED BY <1>1, <1>5, <2>1 DEF InvMemoria, Extremos, Valores
<1> QED BY <1>1, <1>2, <1>4, <1>5

(* What Memoria sends next is all that waits for Swap.                     *)
LEMMA PedidoEnviado ==
    ASSUME TypeOK, NEW m \in Memorias, NEW ws \in Seq(Palabra), <<>> \o ws = ws,
           aSwap[m] = <<>>, aSwap' = HaciaSwap(m, ws)
    PROVE  /\ aSwap' \in [Memorias -> Seq(Palabra)]
           /\ aSwap'[m] = IF srv[m] = "cerrada" THEN <<>> ELSE ws
           /\ \A n \in Memorias : n # m => aSwap'[n] = aSwap[n]
BY DEF TypeOK, SwapTypeOK, HaciaSwap

LEMMA ArranqueRecibePaginas ==
    ASSUME InvArranque, NEW m \in Memorias, RecibePaginas(m) PROVE InvArranque'
<1>1. /\ est[m] = "esperaPaginas"
      /\ aMem[m] # <<>> \/ srv[m] = "cerrada"
      /\ UNCHANGED <<cli, srv, cola, swap, leido, cortadas>>
      /\ est' = [est EXCEPT ![m] = "esperaPagina"]
      /\ paginas' = [paginas EXCEPT ![m] = PaginasDe(aMem[m])]
      /\ aMem' = [aMem EXCEPT ![m] = Recibe("plano", aMem[m]).resto]
      /\ aSwap' = HaciaSwap(m, MsjLectura)
  BY NadaQueLeer DEF RecibePaginas, MemLegible, Legible, MsjLectura
<1>2. /\ InvMemoria(m) /\ cli[m] = "abierta" /\ aSwap[m] = <<>>
      /\ \/ srv[m] = "abierta" /\ m = sActual /\ sPc = "pedido" /\ aMem[m] # <<>>
         \/ srv[m] = "cerrada" /\ m # sActual /\ m \in cortadas
  BY <1>1, QuienRecibe DEF Esperando
<1>3. aMem[m] = MsjPaginas \/ aMem[m] = <<>>
  BY <1>1, <1>2 DEF InvMemoria, Correo
<1>4. Recibe("plano", aMem[m]).resto = <<>>
  BY <1>3, LosMensajes, NadaQueLeer DEF LeeCortado
<1>5. \/ PaginasDe(aMem[m]) = CantPaginas
      \/ PaginasDe(aMem[m]) = Indef /\ m \in cortadas
  BY <1>2, <1>3, LosMensajes, NadaQueLeer DEF PaginasDe
<1>6. /\ aSwap' \in [Memorias -> Seq(Palabra)]
      /\ aSwap'[m] = IF srv[m] = "cerrada" THEN <<>> ELSE MsjLectura
      /\ \A n \in Memorias : n # m => aSwap'[n] = aSwap[n]
  BY <1>1, <1>2, LosMensajes, PedidoEnviado DEF InvArranque
<1>7. TypeOK'
  <2>1. aMem' \in [Memorias -> Seq(Palabra)]
    BY <1>1, <1>4, EmptySeq DEF InvArranque, TypeOK, SwapTypeOK
  <2>2. paginas' \in [Memorias -> Nat \cup {Indef, Nulo}]
    BY <1>1, <1>5, CantPaginasNat DEF InvArranque, TypeOK
  <2> QED BY <1>1, <1>6, <2>1, <2>2 DEF InvArranque, TypeOK, SwapTypeOK, swap, Esperando
<1>8. /\ est'[m] = "esperaPagina" /\ aMem'[m] = <<>> /\ paginas'[m] = PaginasDe(aMem[m])
      /\ \A n \in Memorias : n # m =>
             est'[n] = est[n] /\ aMem'[n] = aMem[n] /\ paginas'[n] = paginas[n]
  BY <1>1, <1>4 DEF InvArranque, TypeOK, SwapTypeOK
<1>9. InvMemoria(m)'
  <2>1. Extremos(m)'
    BY <1>1, <1>2, <1>6, <1>8 DEF InvMemoria, Extremos, Esperando, swap
  <2>2. Correo(m)' /\ Valores(m)'
    BY <1>1, <1>2, <1>5, <1>8 DEF InvMemoria, Correo, Valores, Esperando
  <2> QED BY <2>1, <2>2 DEF InvMemoria
<1>10. m = sActual => Servida'
  BY <1>1, <1>2, <1>6, <1>8 DEF Servida, Intercambio, swap
<1>11. (sPc = "fuera" => cola' = <<>>) /\ (sPc = "aceptar" => \A i \in 1 .. Len(cola') : srv'[cola'[i]] = "espera")
  BY <1>1 DEF InvArranque, Turno
<1> QED BY <1>1, <1>6, <1>7, <1>8, <1>9, <1>10, <1>11, PasoDeUna

LEMMA ArranqueRecibePagina ==
    ASSUME InvArranque, NEW m \in Memorias, RecibePagina(m) PROVE InvArranque'
<1>1. /\ est[m] = "esperaPagina"
      /\ aMem[m] # <<>> \/ srv[m] = "cerrada"
      /\ UNCHANGED <<cli, srv, cola, swap, paginas, cortadas>>
      /\ est' = [est EXCEPT ![m] = "sirve"]
      /\ leido' = [leido EXCEPT ![m] = Recibe("carpincho", aMem[m]).cod]
      /\ aMem' = [aMem EXCEPT ![m] = Recibe("carpincho", aMem[m]).resto]
      /\ aSwap' = HaciaSwap(m, MsjDespedida)
  BY NadaQueLeer DEF RecibePagina, MemLegible, Legible, MsjDespedida
<1>2. /\ InvMemoria(m) /\ cli[m] = "abierta" /\ aSwap[m] = <<>>
      /\ \/ srv[m] = "abierta" /\ m = sActual /\ sPc = "pedido" /\ aMem[m] # <<>>
         \/ srv[m] = "cerrada" /\ m # sActual /\ m \in cortadas
  BY <1>1, QuienRecibe DEF Esperando
<1>3. aMem[m] = PaginaLeida \/ aMem[m] = <<>>
  BY <1>1, <1>2 DEF InvMemoria, Correo
<1>4. Recibe("carpincho", aMem[m]).resto = <<>>
  BY <1>3, LosMensajes, NadaQueLeer DEF LeeCortado
<1>5. \/ Recibe("carpincho", aMem[m]).cod = LEER_PAGINA
      \/ Recibe("carpincho", aMem[m]).cod = ERROR /\ m \in cortadas
  BY <1>2, <1>3, LosMensajes, NadaQueLeer DEF LeeCortado
<1>6. /\ aSwap' \in [Memorias -> Seq(Palabra)]
      /\ aSwap'[m] = IF srv[m] = "cerrada" THEN <<>> ELSE MsjDespedida
      /\ \A n \in Memorias : n # m => aSwap'[n] = aSwap[n]
  BY <1>1, <1>2, LosMensajes, PedidoEnviado DEF InvArranque
<1>7. TypeOK'
  <2>1. aMem' \in [Memorias -> Seq(Palabra)]
    BY <1>1, <1>4, EmptySeq DEF InvArranque, TypeOK, SwapTypeOK
  <2>2. leido' \in [Memorias -> Palabra \cup {Nulo}]
    BY <1>1, <1>5 DEF InvArranque, TypeOK, Palabra, LEER_PAGINA, ERROR
  <2> QED BY <1>1, <1>6, <2>1, <2>2 DEF InvArranque, TypeOK, SwapTypeOK, swap
<1>8. /\ est'[m] = "sirve" /\ aMem'[m] = <<>>
      /\ leido'[m] = Recibe("carpincho", aMem[m]).cod
      /\ \A n \in Memorias : n # m =>
             est'[n] = est[n] /\ aMem'[n] = aMem[n] /\ leido'[n] = leido[n]
  BY <1>1, <1>4 DEF InvArranque, TypeOK, SwapTypeOK
<1>9. InvMemoria(m)'
  <2>1. Extremos(m)'
    BY <1>1, <1>2, <1>6, <1>8 DEF InvMemoria, Extremos, Esperando, swap
  <2>2. Correo(m)' /\ Valores(m)'
    BY <1>1, <1>2, <1>5, <1>8 DEF InvMemoria, Correo, Valores, Esperando
  <2> QED BY <2>1, <2>2 DEF InvMemoria
<1>10. m = sActual => Servida'
  BY <1>1, <1>2, <1>6, <1>8 DEF Servida, Intercambio, swap
<1>11. (sPc = "fuera" => cola' = <<>>) /\ (sPc = "aceptar" => \A i \in 1 .. Len(cola') : srv'[cola'[i]] = "espera")
  BY <1>1 DEF InvArranque, Turno
<1> QED BY <1>1, <1>6, <1>7, <1>8, <1>9, <1>10, <1>11, PasoDeUna

LEMMA ArranqueSwap == InvArranque /\ NextSwap => InvArranque'
<1> SUFFICES ASSUME InvArranque, NextSwap PROVE InvArranque'
  OBVIOUS
<1>1. sPc' # "fuera" => UNCHANGED memorias
  BY DEF NextSwap, memorias
<1>2. sPc' = "fuera" => /\ UNCHANGED <<est, paginas, leido>>
                       /\ cortadas' = cortadas \cup {m \in Memorias : est[m] \in Esperando}
  BY DEF NextSwap
<1>3. CASE Corta
  <2>1. sPc' = "fuera"
    BY <1>3 DEF Corta
  <2> QED BY <1>2, <1>3, <2>1, ArranqueCorta
<1>4. CASE Arranca
  BY <1>1, <1>4, ArranqueArranca DEF Arranca
<1>5. CASE SwapAcepta
  BY <1>1, <1>5, ArranqueAcepta DEF SwapAcepta
<1>6. CASE SwapSaludo
  BY <1>1, <1>6, ArranqueSaluda DEF SwapSaludo, TrasElHilo
<1>7. CASE SwapPedido
  <2>1. sPc' # "fuera"
    BY <1>7, PedidoPorCasos
  <2> QED BY <1>1, <1>7, <2>1, ArranquePide
<1>8. CASE SwapTermina \/ SwapCae
  BY <1>3, <1>8 DEF SwapTermina, SwapCae
<1> QED BY <1>4, <1>5, <1>6, <1>7, <1>8 DEF NextSwap, PasoSwap

LEMMA ArranquePaso == InvArranque /\ [Next]_vars => InvArranque'
<1> SUFFICES ASSUME InvArranque, [Next]_vars PROVE InvArranque'
  OBVIOUS
<1>1. CASE NextSwap
  BY <1>1, ArranqueSwap
<1>2. ASSUME NEW m \in Memorias,
             PideAsignacion(m) \/ SinSwap(m) \/ PasoMem(m) \/ MemMuere(m)
      PROVE  InvArranque'
  BY <1>2, ArranquePideAsignacion, ArranqueSinSwap, ArranqueRecibePaginas,
     ArranqueRecibePagina, ArranqueMuere DEF PasoMem
<1>3. CASE UNCHANGED vars
  <2>1. /\ UNCHANGED <<aSwap, aMem, cli, srv, cola>> /\ UNCHANGED <<sPc, sActual, vida, saludo>>
        /\ UNCHANGED <<est, paginas, leido, cortadas>>
    BY <1>3 DEF vars, conexiones, swap, memorias
  <2>2. TypeOK'
    BY <2>1 DEF InvArranque, TypeOK, SwapTypeOK
  <2>3. Turno' /\ Servida'
    BY <2>1 DEF InvArranque, Turno, Servida, Intercambio
  <2>4. \A m \in Memorias : InvMemoria(m)'
    BY <2>1, MemoriaQuieta DEF InvArranque
  <2> QED BY <2>2, <2>3, <2>4 DEF InvArranque
<1> QED BY <1>1, <1>2, <1>3 DEF Next

LEMMA SiempreInvArranque == Spec => []InvArranque
BY ArranqueInicial, ArranquePaso, PTL DEF Spec

(* The variables of Swap and of the starting Memorias keep their types: in *)
(* particular the number of pages Memoria starts with is a number, or what *)
(* an uninitialised variable holds, never a word of another packet.        *)
THEOREM TiposDelArranque == Spec => []TypeOK
<1>1. InvArranque => TypeOK
  BY DEF InvArranque
<1> QED BY <1>1, SiempreInvArranque, PTL

(* conectarSwap: unless its Swap was absent or ended too early, a Memoria  *)
(* that serves has the number of pages of Swap and the page it asked for,  *)
(* with either reading of the missing plain format.                        *)
THEOREM SeArrancaCompleto == Spec => []ArranqueCompleto
<1>1. InvArranque => ArranqueCompleto
  BY DEF InvArranque, InvMemoria, Valores, ArranqueCompleto
<1> QED BY <1>1, SiempreInvArranque, PTL

(* swap.c leaves its loop only after the goodbye of the Memoria it serves, *)
(* or once that Memoria is gone.                                           *)
THEOREM SwapEsperaElFinal == Spec => []SwapNoAbandona
<1>1. InvArranque => SwapNoAbandona
  <2> SUFFICES ASSUME InvArranque, sPc = "terminar"
               PROVE  est[sActual] = "sirve" \/ cli[sActual] = "cerrada"
    BY DEF SwapNoAbandona
  <2>1. /\ sActual \in Memorias /\ est[sActual] \in {"sirve", "muerta"} /\ srv[sActual] # "sin"
        /\ InvMemoria(sActual) /\ cli[sActual] \in {"sin", "abierta", "cerrada"}
    BY DEF InvArranque, TypeOK, SwapTypeOK, Turno, Servida
  <2> QED BY <2>1 DEF InvMemoria, Extremos
<1> QED BY <1>1, SiempreInvArranque, PTL
=============================================================================
