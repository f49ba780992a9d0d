--------------------------- MODULE Sistema_proofs ---------------------------
(***************************************************************************)
(* Proofs about Sistema, for any number of applications, any sizes and     *)
(* either reading of the plain packet format.                              *)
(***************************************************************************)
EXTENDS Sistema, Paquetes_proofs, FiniteSetTheorems

-----------------------------------------------------------------------------
(* Types *)

(* TypeOK alone is not inductive: what is sent has to be a word, so an     *)
(* instance that has started has its mid, and the server thread away from  *)
(* accept() has its session and, if it waits for Swap, the pid it serves.  *)
MidAsignado == \A s \in Carpinchos : est[s] # "fuera" => mid[s] \in Nat

SesionActual ==
    /\ Atendiendo => actual \in Sesiones
    /\ pc = "swap" => pidPedido \in Palabra

TypeInv == TypeOK /\ MidAsignado /\ SesionActual

LEMMA PunteroTipo == Puntero \in Seq(Palabra)
BY DEF Puntero, Palabra

LEMMA TramaCarpinchoTipo ==
    ASSUME NEW cod \in Int, NEW pid \in Palabra, NEW memo \in Palabra
    PROVE  TramaCarpincho(cod, Puntero, pid, memo) \in Seq(Palabra)
<1>1. cod \in Palabra
  BY DEF Palabra
<1> QED BY <1>1, PunteroTipo, TramasEnPalabras

LEMMA KernelOkTipo == TramaPlana(KERNEL_OK, Puntero) \in Seq(Palabra)
<1>1. KERNEL_OK \in Palabra /\ 0 \in Palabra
  BY DEF KERNEL_OK, Palabra
<1> QED BY <1>1, PunteroTipo, TramasEnPalabras

LEMMA HaciaSrvTipo ==
    ASSUME CanalesTypeOK, NEW s \in Sesiones, NEW ws \in Seq(Palabra)
    PROVE  HaciaSrv(s, ws) \in [Sesiones -> Seq(Palabra)]
<1>1. aSrv[s] \o ws \in Seq(Palabra)
  BY ConcatProperties DEF CanalesTypeOK
<1> QED BY <1>1 DEF HaciaSrv, CanalesTypeOK

LEMMA HaciaCliTipo ==
    ASSUME CanalesTypeOK, NEW s \in Sesiones, NEW ws \in Seq(Palabra)
    PROVE  HaciaCli(s, ws) \in [Sesiones -> Seq(Palabra)]
<1>1. aCli[s] \o ws \in Seq(Palabra)
  BY ConcatProperties DEF CanalesTypeOK
<1> QED BY <1>1 DEF HaciaCli, CanalesTypeOK

LEMMA RecibeSrvTipo ==
    ASSUME CanalesTypeOK, NEW s \in Sesiones, NEW fmt \in Formatos
    PROVE  Recibe(fmt, aSrv[s]) \in Paquete
BY RecibeTipo DEF CanalesTypeOK

LEMMA RecibeCliTipo ==
    ASSUME CanalesTypeOK, NEW s \in Sesiones
    PROVE  Recibe("carpincho", aCli[s]) \in Paquete
<1>1. "carpincho" \in Formatos
  BY DEF Formatos
<1> QED BY <1>1, RecibeTipo DEF CanalesTypeOK

LEMMA ConectaTipo ==
    ASSUME CanalesTypeOK, NEW s \in Sesiones, Conecta(s)
    PROVE  CanalesTypeOK'
<1>1. Append(cola, s) \in Seq(Sesiones)
  BY AppendProperties DEF CanalesTypeOK
<1> QED BY <1>1 DEF CanalesTypeOK, Conecta

LEMMA CierraClientesTipo ==
    ASSUME CanalesTypeOK, NEW S, CierraClientes(S), UNCHANGED <<aSrv, srv, cola>>
    PROVE  CanalesTypeOK'
<1>1. <<>> \in Seq(Palabra)
  BY EmptySeq
<1>2. cli' \in [Sesiones -> {"sin", "abierta", "cerrada"}]
  BY DEF CanalesTypeOK, CierraClientes
<1>3. aCli' \in [Sesiones -> Seq(Palabra)]
  BY <1>1 DEF CanalesTypeOK, CierraClientes
<1> QED BY <1>2, <1>3 DEF CanalesTypeOK

LEMMA CaenConexionesTipo ==
    ASSUME CanalesTypeOK, CaenConexiones, UNCHANGED <<aCli, cli>>
    PROVE  CanalesTypeOK'
<1>1. <<>> \in Seq(Palabra) /\ <<>> \in Seq(Sesiones)
  BY EmptySeq
<1> QED BY <1>1 DEF CanalesTypeOK, CaenConexiones

(* One step of an application.                                             *)
LEMMA TipoCarpincho ==
    ASSUME TypeInv, NEW s \in Carpinchos, NextCarpincho(s)
    PROVE  TypeInv'
<1> USE DEF TypeInv, TypeOK
<1>1. s \in Sesiones
  BY DEF Sesiones
<1>2. KernelTypeOK' /\ MemoriaTypeOK' /\ SesionActual'
  BY DEF NextCarpincho, kernel, memoria, KernelTypeOK, MemoriaTypeOK, SesionActual, Atendiendo
<1>3. CASE MateInit(s)
  <2>1. CanalesTypeOK'
    BY <1>1, <1>3, ConectaTipo DEF MateInit
  <2>2. reloj \in Nat
    BY RelojEnEnteros DEF MatelibTypeOK
  <2>3. MatelibTypeOK' /\ MidAsignado'
    BY <1>3, <2>2 DEF MateInit, MatelibTypeOK, MidAsignado, Vivos
  <2> QED BY <1>2, <2>1, <2>3
<1>4. CASE MateInitRechazado(s)
  <2>1. CanalesTypeOK'
    BY <1>4 DEF MateInitRechazado, canales, CanalesTypeOK
  <2>2. reloj \in Nat
    BY RelojEnEnteros DEF MatelibTypeOK
  <2>3. MatelibTypeOK' /\ MidAsignado'
    BY <1>4, <2>2 DEF MateInitRechazado, MatelibTypeOK, MidAsignado, Vivos
  <2> QED BY <1>2, <2>1, <2>3
<1>5. CASE Saluda(s)
  <2>1. mid[s] \in Palabra /\ 0 \in Palabra /\ MATELIB \in Int
    BY <1>5 DEF Saluda, MidAsignado, Palabra, MATELIB
  <2>2. CanalesTypeOK'
    BY <1>1, <1>5, <2>1, TramaCarpinchoTipo, HaciaSrvTipo DEF Saluda, CanalesTypeOK
  <2>3. MatelibTypeOK' /\ MidAsignado'
    BY <1>5 DEF Saluda, MatelibTypeOK, MidAsignado, Vivos
  <2> QED BY <1>2, <2>2, <2>3
<1>6. CASE RespuestaSaludo(s)
  <2> DEFINE p == Recibe("carpincho", aCli[s])
  <2>1. p \in Paquete
    BY <1>1, RecibeCliTipo
  <2>2. CanalesTypeOK'
    BY <1>6, <2>1 DEF RespuestaSaludo, CanalesTypeOK, Paquete
  <2>3. MatelibTypeOK' /\ MidAsignado'
    BY <1>6 DEF RespuestaSaludo, MatelibTypeOK, MidAsignado, Vivos
  <2> QED BY <1>2, <2>2, <2>3
<1>7. CASE MateMemalloc(s)
  <2>1. PICK n \in Tamanios :
          aSrv' = HaciaSrv(s, TramaCarpincho(ALOCAR_EN_MEMORIA, Puntero, mid[s], n))
    BY <1>7 DEF MateMemalloc
  <2>2. mid[s] \in Palabra /\ n \in Palabra /\ ALOCAR_EN_MEMORIA \in Int
    BY <1>7, TamaniosNaturales DEF MateMemalloc, MidAsignado, Palabra, ALOCAR_EN_MEMORIA
  <2>3. CanalesTypeOK'
    BY <1>1, <1>7, <2>1, <2>2, TramaCarpinchoTipo, HaciaSrvTipo DEF MateMemalloc, CanalesTypeOK
  <2>4. MatelibTypeOK' /\ MidAsignado'
    BY <1>7, MaxAllocNatural DEF MateMemalloc, MatelibTypeOK, MidAsignado, Vivos
  <2> QED BY <1>2, <2>3, <2>4
<1>8. CASE RespuestaMemalloc(s)
  <2> DEFINE p == Recibe("carpincho", aCli[s])
  <2>1. p \in Paquete
    BY <1>1, RecibeCliTipo
  <2>2. CanalesTypeOK'
    BY <1>8, <2>1 DEF RespuestaMemalloc, CanalesTypeOK, Paquete
  <2>3. MatelibTypeOK' /\ MidAsignado'
    BY <1>8, <2>1 DEF RespuestaMemalloc, MatelibTypeOK, MidAsignado, Vivos, Paquete
  <2> QED BY <1>2, <2>2, <2>3
<1>9. CASE MateClose(s)
  <2>1. CanalesTypeOK'
    BY <1>9, CierraClientesTipo DEF MateClose
  <2>2. MatelibTypeOK' /\ MidAsignado'
    BY <1>9 DEF MateClose, MatelibTypeOK, MidAsignado, Vivos
  <2> QED BY <1>2, <2>1, <2>2
<1>10. CASE Muere(s)
  <2>1. CanalesTypeOK'
    BY <1>10, CierraClientesTipo DEF Muere
  <2>2. MatelibTypeOK' /\ MidAsignado'
    BY <1>10 DEF Muere, MatelibTypeOK, MidAsignado, Vivos
  <2> QED BY <1>2, <2>1, <2>2
<1> QED BY <1>3, <1>4, <1>5, <1>6, <1>7, <1>8, <1>9, <1>10 DEF NextCarpincho, PasoCarpincho

(* One step of the Kernel.                                                 *)
LEMMA TipoKernel ==
    ASSUME TypeInv, NextKernel
    PROVE  TypeInv'
<1> USE DEF TypeInv, TypeOK
<1>1. kcon \in Sesiones /\ K1 \in Sesiones /\ K2 \in Kerneles
  BY DEF KernelTypeOK, Sesiones, Kerneles
<1>2. MatelibTypeOK' /\ MidAsignado' /\ MemoriaTypeOK' /\ SesionActual'
  BY DEF NextKernel, matelib, memoria, MatelibTypeOK, MidAsignado, MemoriaTypeOK,
         SesionActual, Atendiendo
<1>3. CASE KConecta
  <2>1. CanalesTypeOK'
    BY <1>1, <1>3, ConectaTipo DEF KConecta
  <2> QED BY <1>2, <1>3, <2>1 DEF KConecta, KernelTypeOK
<1>4. CASE KSaluda
  <2>1. 0 \in Palabra /\ KERNEL \in Int
    BY DEF Palabra, KERNEL
  <2>2. CanalesTypeOK'
    BY <1>1, <1>4, <2>1, TramaCarpinchoTipo, HaciaSrvTipo DEF KSaluda, CanalesTypeOK
  <2> QED BY <1>2, <1>4, <2>2 DEF KSaluda, KernelTypeOK
<1>5. CASE KRecibeOk
  <2>1. PidKernel \in Palabra /\ TamKernel \in Palabra /\ ALOCAR_EN_MEMORIA \in Int
    BY KernelNaturales DEF Palabra, ALOCAR_EN_MEMORIA
  <2>2. Recibe("carpincho", aCli[kcon]) \in Paquete
    BY <1>1, RecibeCliTipo
  <2>3. CanalesTypeOK'
    BY <1>1, <1>5, <2>1, <2>2, TramaCarpinchoTipo, HaciaSrvTipo
       DEF KRecibeOk, CanalesTypeOK, Paquete
  <2> QED BY <1>2, <1>5, <2>3 DEF KRecibeOk, KernelTypeOK
<1>6. CASE KRecibeDir
  <2>1. Recibe("carpincho", aCli[kcon]) \in Paquete
    BY <1>1, RecibeCliTipo
  <2>2. CanalesTypeOK'
    BY <1>6, <2>1 DEF KRecibeDir, CanalesTypeOK, Paquete
  <2> QED BY <1>1, <1>2, <1>6, <2>2 DEF KRecibeDir, KernelTypeOK
<1>7. CASE KTermina
  <2>1. CanalesTypeOK'
    BY <1>7, CierraClientesTipo DEF KTermina
  <2> QED BY <1>2, <1>7, <2>1 DEF KTermina, KernelTypeOK
<1> QED BY <1>3, <1>4, <1>5, <1>6, <1>7
        DEF NextKernel, PasoKernel, KMuere, KFinNormal, KSinMemoria

LEMMA RespondeAllocTipo ==
    ASSUME CanalesTypeOK, actual \in Sesiones, NEW pid \in Palabra, NEW dir \in Palabra
    PROVE  RespondeAlloc(pid, dir) \in [Sesiones -> Seq(Palabra)]
<1>1. ALOCAR_EN_MEMORIA \in Int
  BY DEF ALOCAR_EN_MEMORIA
<1> QED BY <1>1, TramaCarpinchoTipo, HaciaCliTipo DEF RespondeAlloc

LEMMA OtorgaTipo ==
    ASSUME MemoriaTypeOK, NEW s \in Sesiones, NEW pid \in Palabra, NEW dir \in Palabra,
           Otorga(s, pid, dir)
    PROVE  concesion' \in [Sesiones -> Concesion \cup {Nulo}]
<1>1. [pid |-> pid, dir |-> dir] \in Concesion
  BY DEF Concesion
<1> QED BY <1>1 DEF MemoriaTypeOK, Otorga

(* The end of a session: ejecutarKernel returns and the loop accepts again.*)
LEMMA VuelveTipo ==
    ASSUME TypeInv, NEW r \in [Sesiones -> Seq(Palabra)], VuelveAAceptar(r),
           aCli' \in [Sesiones -> Seq(Palabra)],
           UNCHANGED <<matelib, kernel>>
    PROVE  TypeInv'
<1>1. <<>> \in Seq(Palabra)
  BY EmptySeq
<1>2. CanalesTypeOK'
  BY <1>1 DEF TypeInv, TypeOK, CanalesTypeOK, VuelveAAceptar, CierraFd0
<1>3. MemoriaTypeOK' /\ SesionActual'
  BY DEF TypeInv, TypeOK, MemoriaTypeOK, SesionActual, Atendiendo, VuelveAAceptar,
         CierraFd0, ProximoIndice
<1>4. MatelibTypeOK' /\ MidAsignado' /\ KernelTypeOK'
  BY DEF TypeInv, TypeOK, MatelibTypeOK, MidAsignado, KernelTypeOK, matelib, kernel
<1> QED BY <1>2, <1>3, <1>4 DEF TypeInv, TypeOK

LEMMA TerminaTipo ==
    ASSUME TypeInv, Termina, UNCHANGED <<matelib, kernel>>
    PROVE  TypeInv'
<1>1. CanalesTypeOK'
  BY CaenConexionesTipo DEF TypeInv, TypeOK, Termina
<1>2. MemoriaTypeOK' /\ SesionActual'
  BY DEF TypeInv, TypeOK, MemoriaTypeOK, SesionActual, Atendiendo, Termina
<1>3. MatelibTypeOK' /\ MidAsignado' /\ KernelTypeOK'
  BY DEF TypeInv, TypeOK, MatelibTypeOK, MidAsignado, KernelTypeOK, matelib, kernel
<1> QED BY <1>1, <1>2, <1>3 DEF TypeInv, TypeOK

(* One step of Memoria.                                                    *)
LEMMA TipoMemoria ==
    ASSUME TypeInv, NextMemoria
    PROVE  TypeInv'
<1> USE DEF TypeInv, TypeOK
<1>1. MatelibTypeOK' /\ MidAsignado' /\ KernelTypeOK'
  BY DEF NextMemoria, matelib, kernel, MatelibTypeOK, MidAsignado, KernelTypeOK
<1>2. UNCHANGED <<matelib, kernel>>
  BY DEF NextMemoria
<1>3. "carpincho" \in Formatos /\ FormatoSaludo(k) \in Formatos
  BY DEF Formatos, FormatoSaludo
<1>4. CASE Acepta
  <2>1. Head(cola) \in Sesiones /\ Tail(cola) \in Seq(Sesiones)
    BY <1>4, HeadTailProperties DEF Acepta, CanalesTypeOK
  <2>2. CanalesTypeOK'
    BY <1>4, <2>1 DEF Acepta, CanalesTypeOK
  <2>3. MemoriaTypeOK' /\ SesionActual'
    BY <1>4, <2>1 DEF Acepta, FdAceptado, MemoriaTypeOK, SesionActual, Atendiendo
  <2> QED BY <1>1, <2>2, <2>3
<1>5. CASE LeeSaludo
  <2>1. actual \in Sesiones
    BY <1>5 DEF LeeSaludo, SesionActual, Atendiendo
  <2>2. Recibe(FormatoSaludo(k), aSrv[actual]) \in Paquete
    BY <1>3, <2>1, RecibeSrvTipo
  <2>3. 0 \in Palabra /\ TODO_OK \in Int
    BY DEF Palabra, TODO_OK
  <2>4. CanalesTypeOK'
    BY <1>5, <2>1, <2>2, <2>3, TramaCarpinchoTipo, HaciaCliTipo
       DEF LeeSaludo, CanalesTypeOK, Paquete
  <2>5. MemoriaTypeOK' /\ SesionActual'
    BY <1>5, <2>1 DEF LeeSaludo, MemoriaTypeOK, SesionActual, Atendiendo
  <2> QED BY <1>1, <2>4, <2>5
<1>6. CASE LeePedidoAlocar
  <2> DEFINE p == Recibe("carpincho", aSrv[actual])
  <2>1. actual \in Sesiones
    BY <1>6 DEF LeePedidoAlocar, SesionActual, Atendiendo
  <2>2. p \in Paquete
    BY <1>3, <2>1, RecibeSrvTipo
  <2>3. p.pid \in Palabra /\ p.memo \in Palabra /\ p.resto \in Seq(Palabra)
    BY <2>2 DEF Paquete
  <2>4. /\ aSrv' = [aSrv EXCEPT ![actual] = p.resto]
        /\ UNCHANGED <<k, actual, fd0, cli, srv, cola>>
        /\ \/ AllocConocido(p.pid, p.memo)
           \/ AllocNuevo(p.pid, p.memo)
           \/ AllocSinEspacio(p.pid, p.memo)
    BY <1>6 DEF LeePedidoAlocar
  <2> HIDE DEF p
  <2>5. Indef \in Palabra /\ PrimerAjuste \in Palabra /\ CARPINCHO_NEW \in Int
    BY DEF Palabra, PrimerAjuste, DirPrimera, CARPINCHO_NEW
  <2>6. CASE AllocConocido(p.pid, p.memo)
    <3>1. aCli' \in [Sesiones -> Seq(Palabra)]
      BY <2>1, <2>3, <2>5, <2>6, RespondeAllocTipo DEF AllocConocido
    <3>2. concesion' \in [Sesiones -> Concesion \cup {Nulo}]
      BY <2>1, <2>3, <2>5, <2>6, OtorgaTipo DEF AllocConocido
    <3>3. CanalesTypeOK'
      BY <2>3, <2>4, <3>1 DEF CanalesTypeOK
    <3>4. MemoriaTypeOK' /\ SesionActual'
      BY <2>1, <2>4, <2>6, <3>2 DEF AllocConocido, MemoriaTypeOK, SesionActual, Atendiendo
    <3> QED BY <1>1, <3>3, <3>4
  <2>7. CASE AllocNuevo(p.pid, p.memo)
    <3>1. aCli' \in [Sesiones -> Seq(Palabra)]
      BY <2>1, <2>3, <2>5, <2>7, RespondeAllocTipo DEF AllocNuevo
    <3>2. concesion' \in [Sesiones -> Concesion \cup {Nulo}]
      BY <2>1, <2>3, <2>5, <2>7, OtorgaTipo DEF AllocNuevo
    <3>3. CanalesTypeOK'
      BY <2>3, <2>4, <3>1 DEF CanalesTypeOK
    <3>4. MemoriaTypeOK' /\ SesionActual'
      BY <2>1, <2>3, <2>4, <2>7, <3>2
         DEF AllocNuevo, ConProceso, MemoriaTypeOK, SesionActual, Atendiendo
    <3> QED BY <1>1, <3>3, <3>4
  <2>8. CASE AllocSinEspacio(p.pid, p.memo)
    <3>1. aCli' \in [Sesiones -> Seq(Palabra)]
      <4>1. CASE fd0 \in Sesiones
        BY <4>1, <2>3, <2>5, <2>8, TramaCarpinchoTipo, HaciaCliTipo DEF AllocSinEspacio
      <4>2. CASE fd0 \notin Sesiones
        BY <4>2, <2>8 DEF AllocSinEspacio, CanalesTypeOK
      <4> QED BY <4>1, <4>2
    <3>2. CanalesTypeOK'
      BY <2>3, <2>4, <3>1 DEF CanalesTypeOK
    <3>3. MemoriaTypeOK' /\ SesionActual'
      BY <2>1, <2>3, <2>4, <2>8 DEF AllocSinEspacio, MemoriaTypeOK, SesionActual, Atendiendo
    <3> QED BY <1>1, <3>2, <3>3
  <2> QED BY <2>4, <2>6, <2>7, <2>8
<1>7. CASE EsperaSwap
  <2>1. actual \in Sesiones /\ pidPedido \in Palabra
    BY <1>7 DEF EsperaSwap, SesionActual, Atendiendo
  <2>2. Indef \in Palabra /\ SinEspacio \in Palabra
    BY DEF Palabra, SinEspacio
  <2>3. aCli' \in [Sesiones -> Seq(Palabra)]
    BY <1>7, <2>1, <2>2, RespondeAllocTipo DEF EsperaSwap
  <2>4. concesion' \in [Sesiones -> Concesion \cup {Nulo}]
    BY <1>7, <2>1, <2>2, OtorgaTipo DEF EsperaSwap
  <2>5. aSrv' \in [Sesiones -> Seq(Palabra)]
    <3>1. CASE fd0 \in Sesiones
      <4>1. Recibe("carpincho", aSrv[fd0]).resto \in Seq(Palabra)
        BY <1>3, <3>1, RecibeSrvTipo DEF Paquete
      <4> QED BY <1>7, <3>1, <4>1 DEF EsperaSwap, CanalesTypeOK
    <3>2. CASE fd0 \notin Sesiones
      BY <1>7, <3>2 DEF EsperaSwap, CanalesTypeOK
    <3> QED BY <3>1, <3>2
  <2>6. CanalesTypeOK'
    BY <1>7, <2>3, <2>5 DEF EsperaSwap, CanalesTypeOK
  <2>7. MemoriaTypeOK' /\ SesionActual'
    BY <1>7, <2>1, <2>4 DEF EsperaSwap, ConProceso, MemoriaTypeOK, SesionActual, Atendiendo
  <2> QED BY <1>1, <2>6, <2>7
<1>8. CASE LeePedidoOtro
  <2> DEFINE p == Recibe("carpincho", aSrv[actual])
  <2>1. actual \in Sesiones
    BY <1>8 DEF LeePedidoOtro, SesionActual, Atendiendo
  <2>2. p \in Paquete
    BY <1>3, <2>1, RecibeSrvTipo
  <2>3. [aSrv EXCEPT ![actual] = p.resto] \in [Sesiones -> Seq(Palabra)]
    BY <2>1, <2>2 DEF CanalesTypeOK, Paquete
  <2>4. VuelveAAceptar([aSrv EXCEPT ![actual] = p.resto])
    BY <1>8 DEF LeePedidoOtro
  <2>5. aCli' \in [Sesiones -> Seq(Palabra)]
    <3>1. HaciaCli(actual, TramaPlana(KERNEL_OK, Puntero)) \in [Sesiones -> Seq(Palabra)]
      BY <2>1, KernelOkTipo, HaciaCliTipo
    <3>2. aCli \in [Sesiones -> Seq(Palabra)]
      BY DEF CanalesTypeOK
    <3>3. aCli' = HaciaCli(actual, TramaPlana(KERNEL_OK, Puntero)) \/ aCli' = aCli
      BY <1>8 DEF LeePedidoOtro
    <3> QED BY <3>1, <3>2, <3>3
  <2> HIDE DEF p
  <2> QED BY <1>2, <2>3, <2>4, <2>5, VuelveTipo
<1>9. CASE Confirma
  <2>1. actual \in Sesiones
    BY <1>9 DEF Confirma, SesionActual, Atendiendo
  <2>2. aCli' \in [Sesiones -> Seq(Palabra)]
    BY <1>9, <2>1, KernelOkTipo, HaciaCliTipo DEF Confirma
  <2>3. aSrv \in [Sesiones -> Seq(Palabra)] /\ VuelveAAceptar(aSrv)
    BY <1>9 DEF Confirma, CanalesTypeOK
  <2> QED BY <1>2, <2>2, <2>3, VuelveTipo
<1>10. CASE Termina
  BY <1>2, <1>10, TerminaTipo
<1> QED BY <1>4, <1>5, <1>6, <1>7, <1>8, <1>9, <1>10
        DEF NextMemoria, PasoMemoria, SaludoDesconocido, Cae

LEMMA TipoReloj ==
    ASSUME TypeInv, NextReloj
    PROVE  TypeInv'
BY RelojEnEnteros
   DEF TypeInv, TypeOK, NextReloj, Tic, canales, kernel, memoria, CanalesTypeOK,
       MatelibTypeOK, KernelTypeOK, MemoriaTypeOK, MidAsignado, SesionActual, Atendiendo

LEMMA TipoInicial == Init => TypeInv
<1> SUFFICES ASSUME Init PROVE TypeInv
  OBVIOUS
<1>1. <<>> \in Seq(Palabra) /\ <<>> \in Seq(Sesiones)
  BY EmptySeq
<1>2. CanalesTypeOK
  BY <1>1 DEF Init, CanalesInit, CanalesTypeOK
<1>3. MatelibTypeOK /\ MidAsignado
  BY RelojEnEnteros, MaxAllocNatural DEF Init, MatelibInit, MatelibTypeOK, MidAsignado
<1>4. KernelTypeOK
  BY DEF Init, KernelInit, KernelTypeOK, Kerneles
<1>5. MemoriaTypeOK /\ SesionActual
  BY DEF Init, MemoriaInit, MemoriaTypeOK, SesionActual, Atendiendo
<1> QED BY <1>2, <1>3, <1>4, <1>5 DEF TypeInv, TypeOK

LEMMA TipoPaso == TypeInv /\ [Next]_vars => TypeInv'
<1> SUFFICES ASSUME TypeInv, [Next]_vars PROVE TypeInv'
  OBVIOUS
<1>1. CASE UNCHANGED vars
  BY <1>1 DEF vars, canales, matelib, kernel, memoria, TypeInv, TypeOK, CanalesTypeOK,
              MatelibTypeOK, KernelTypeOK, MemoriaTypeOK, MidAsignado, SesionActual, Atendiendo
<1>2. CASE Next
  BY <1>2, TipoCarpincho, TipoKernel, TipoMemoria, TipoReloj DEF Next
<1> QED BY <1>1, <1>2

(* TypeOK holds of every reachable state: the words on every connection,   *)
(* what the instances and the Kernel hold, and the variables of Memoria.   *)
THEOREM TiposCorrectos == Spec => []TypeOK
<1>1. TypeInv => TypeOK
  BY DEF TypeInv
<1> QED BY <1>1, TipoInicial, TipoPaso, PTL DEF Spec

-----------------------------------------------------------------------------
(* Connections: what close(conexion) closes, what is left open and how far *)
(* the index of cliente_memoria goes.                                      *)

(* The backlog holds each waiting session once.                            *)
ColaEnEspera ==
    /\ \A i \in 1 .. Len(cola) : srv[cola[i]] = "espera"
    /\ \A i, j \in 1 .. Len(cola) : cola[i] = cola[j] => i = j

(* Descriptor 0 is stdin until the first close(conexion); from then on it  *)
(* is the session being served, and nobody between two sessions.           *)
DescriptorCero ==
    /\ pc = "aceptar" => fd0 = IF k = 0 THEN Stdin ELSE Nadie
    /\ Atendiendo => /\ srv[actual] = "abierta"
                     /\ fd0 = IF k = 0 THEN Stdin ELSE actual

(* Only the first session is ever left open behind the server's back.      *)
UnaFuga ==
    /\ SinFuga
    /\ pc # "fin" /\ k = 0 => Fugadas = {}
    /\ pc = "fin" => \A s \in Sesiones : srv[s] = "cerrada"

ConexInv == ColaEnEspera /\ DescriptorCero /\ UnaFuga

LEMMA ConexInicial == Init => ConexInv
BY DEF Init, CanalesInit, MemoriaInit, ConexInv, ColaEnEspera, DescriptorCero, UnaFuga,
       SinFuga, Fugadas, Atendiendo

LEMMA ConexConecta ==
    ASSUME TypeOK, ConexInv, NEW s \in Sesiones, Conecta(s), UNCHANGED memoria
    PROVE  ConexInv'
<1>1. /\ srv \in [Sesiones -> {"sin", "espera", "abierta", "cerrada"}]
      /\ cola \in Seq(Sesiones)
  BY DEF TypeOK, CanalesTypeOK
<1>2. /\ srv[s] = "sin" /\ srv' = [srv EXCEPT ![s] = "espera"] /\ cola' = Append(cola, s)
      /\ UNCHANGED <<pc, k, actual, fd0>>
  BY DEF Conecta, memoria
<1>3. pc # "fin"
  BY <1>2 DEF ConexInv, UnaFuga
<1>4. ColaEnEspera'
  <2>1. /\ Len(cola') = Len(cola) + 1 /\ Len(cola) \in Nat
        /\ \A i \in 1 .. Len(cola) : cola'[i] = cola[i] /\ cola[i] \in Sesiones
        /\ cola'[Len(cola) + 1] = s
    BY <1>1, <1>2, AppendProperties, ElementOfSeq
  <2>2. \A i \in 1 .. Len(cola) : cola[i] # s
    BY <1>2 DEF ConexInv, ColaEnEspera
  <2>3. \A i \in 1 .. Len(cola') : i \in 1 .. Len(cola) \/ i = Len(cola) + 1
    BY <2>1
  <2>4. \A i \in 1 .. Len(cola') : srv'[cola'[i]] = "espera"
    BY <1>1, <1>2, <2>1, <2>2, <2>3 DEF ConexInv, ColaEnEspera
  <2>5. \A i, j \in 1 .. Len(cola') : cola'[i] = cola'[j] => i = j
    BY <2>1, <2>2, <2>3 DEF ConexInv, ColaEnEspera
  <2> QED BY <2>4, <2>5 DEF ColaEnEspera
<1>5. DescriptorCero'
  BY <1>1, <1>2 DEF ConexInv, DescriptorCero, Atendiendo, TypeOK, MemoriaTypeOK
<1>6. Fugadas' = Fugadas
  BY <1>1, <1>2 DEF Fugadas, Atendiendo
<1>7. UnaFuga'
  BY <1>2, <1>3, <1>6 DEF ConexInv, UnaFuga, SinFuga
<1> QED BY <1>4, <1>5, <1>7 DEF ConexInv

LEMMA ConexAcepta ==
    ASSUME TypeOK, ConexInv, Acepta
    PROVE  ConexInv'
<1> DEFINE s == Head(cola)
<1>1. /\ srv \in [Sesiones -> {"sin", "espera", "abierta", "cerrada"}]
      /\ cola \in Seq(Sesiones) /\ cola # <<>>
  BY DEF TypeOK, CanalesTypeOK, Acepta
<1>2. /\ s \in Sesiones /\ Len(cola) \in Nat /\ Len(cola) >= 1 /\ s = cola[1]
      /\ Len(Tail(cola)) = Len(cola) - 1
      /\ \A i \in 1 .. Len(Tail(cola)) : Tail(cola)[i] = cola[i + 1]
      /\ \A i \in 1 .. Len(cola) : cola[i] \in Sesiones
  BY <1>1, HeadTailProperties, LenProperties, EmptySeq, ElementOfSeq
<1>3. /\ pc = "aceptar" /\ pc' = "saludo" /\ actual' = s /\ k' = k
      /\ cola' = Tail(cola) /\ srv' = [srv EXCEPT ![s] = "abierta"]
      /\ fd0' = IF fd0 = Nadie THEN s ELSE fd0
  BY DEF Acepta, FdAceptado
<1> HIDE DEF s
<1>4. srv[s] = "espera"
  BY <1>2 DEF ConexInv, ColaEnEspera
<1>5. ColaEnEspera'
  <2>1. \A i \in 1 .. Len(cola') : i + 1 \in 1 .. Len(cola) /\ i + 1 # 1 /\ cola'[i] = cola[i + 1]
    BY <1>2, <1>3
  <2>2. \A i \in 1 .. Len(cola') : cola'[i] # s
    BY <1>2, <2>1 DEF ConexInv, ColaEnEspera
  <2>3. \A i \in 1 .. Len(cola') : srv'[cola'[i]] = "espera"
    BY <1>1, <1>2, <1>3, <2>1, <2>2 DEF ConexInv, ColaEnEspera
  <2>4. \A i, j \in 1 .. Len(cola') : cola'[i] = cola'[j] => i = j
    <3> SUFFICES ASSUME NEW i \in 1 .. Len(cola'), NEW j \in 1 .. Len(cola'), cola'[i] = cola'[j]
                 PROVE  i = j
      OBVIOUS
    <3>1. i + 1 = j + 1
      BY <2>1 DEF ConexInv, ColaEnEspera
    <3> QED BY <3>1
  <2> QED BY <2>3, <2>4 DEF ColaEnEspera
<1>6. DescriptorCero'
  BY <1>1, <1>2, <1>3, DescriptoresDistintos DEF ConexInv, DescriptorCero, Atendiendo
<1>7. Fugadas' = Fugadas
  BY <1>1, <1>3, <1>4 DEF Fugadas, Atendiendo
<1>8. UnaFuga'
  BY <1>3, <1>7 DEF ConexInv, UnaFuga, SinFuga
<1> QED BY <1>5, <1>6, <1>8 DEF ConexInv

(* close(conexion) closes the session just served, or stdin the first time.*)
LEMMA CierraLaActual ==
    ASSUME TypeOK, ConexInv, Atendiendo, NEW r, VuelveAAceptar(r)
    PROVE  srv' = IF k = 0 THEN srv ELSE [srv EXCEPT ![actual] = "cerrada"]
<1>1. Stdin \notin Sesiones
  BY DescriptoresDistintos
<1>2. CASE k = 0
  BY <1>1, <1>2 DEF ConexInv, DescriptorCero, VuelveAAceptar, CierraFd0
<1>3. CASE k # 0
  <2>1. fd0 = actual
    BY <1>3 DEF ConexInv, DescriptorCero
  <2>2. CASE actual \in Sesiones
    BY <1>3, <2>1, <2>2 DEF VuelveAAceptar, CierraFd0
  <2>3. CASE actual \notin Sesiones
    <3>1. [srv EXCEPT ![actual] = "cerrada"] = srv
      BY <2>3 DEF TypeOK, CanalesTypeOK
    <3> QED BY <1>3, <2>1, <2>3, <3>1 DEF VuelveAAceptar, CierraFd0
  <2> QED BY <2>2, <2>3
<1> QED BY <1>2, <1>3

LEMMA ConexVuelve ==
    ASSUME TypeInv, ConexInv, Atendiendo, NEW r, VuelveAAceptar(r)
    PROVE  ConexInv'
<1>1. /\ srv \in [Sesiones -> {"sin", "espera", "abierta", "cerrada"}]
      /\ cola \in Seq(Sesiones) /\ k \in Nat
      /\ actual \in Sesiones
  BY DEF TypeInv, SesionActual, TypeOK, CanalesTypeOK, MemoriaTypeOK
<1>2. /\ srv' = IF k = 0 THEN srv ELSE [srv EXCEPT ![actual] = "cerrada"]
      /\ pc' = "aceptar" /\ k' = k + 1 /\ fd0' = Nadie /\ cola' = cola
  BY CierraLaActual DEF TypeInv, VuelveAAceptar, ProximoIndice, CierraFd0
<1>3. srv[actual] = "abierta" /\ pc # "fin"
  BY DEF ConexInv, DescriptorCero, Atendiendo
<1>4. ColaEnEspera'
  <2>1. \A i \in 1 .. Len(cola) : cola[i] \in Sesiones /\ cola[i] # actual
    BY <1>1, <1>3, ElementOfSeq DEF ConexInv, ColaEnEspera
  <2> QED BY <1>1, <1>2, <2>1 DEF ConexInv, ColaEnEspera
<1>5. DescriptorCero'
  BY <1>1, <1>2 DEF DescriptorCero, Atendiendo
<1>6. UnaFuga'
  <2>1. CASE k = 0
    <3>1. Fugadas = {}
      BY <1>3, <2>1 DEF ConexInv, UnaFuga
    <3>2. Fugadas' = {actual}
      BY <1>1, <1>2, <1>3, <2>1, <3>1 DEF Fugadas, Atendiendo
    <3> QED BY <1>1, <1>2, <3>2 DEF UnaFuga, SinFuga
  <2>2. CASE k # 0
    <3>1. Fugadas' = Fugadas
      BY <1>1, <1>2, <1>3, <2>2 DEF Fugadas, Atendiendo
    <3> QED BY <1>1, <1>2, <3>1 DEF ConexInv, UnaFuga, SinFuga
  <2> QED BY <2>1, <2>2
<1> QED BY <1>4, <1>5, <1>6 DEF ConexInv

LEMMA ConexTermina ==
    ASSUME Termina
    PROVE  ConexInv'
<1>1. cola' = <<>> /\ Len(<<>>) = 0
  BY EmptySeq DEF Termina, CaenConexiones
<1>2. ColaEnEspera'
  BY <1>1 DEF ColaEnEspera
<1> QED BY <1>2 DEF Termina, CaenConexiones, ConexInv, DescriptorCero, UnaFuga, SinFuga,
                    Fugadas, Atendiendo

(* Every other step leaves alone what the invariant looks at: it may only  *)
(* move the server thread inside the service of its session.               *)
LEMMA ConexQuieta ==
    ASSUME ConexInv, UNCHANGED <<srv, cola, k, actual, fd0>>,
           pc' = pc \/ (Atendiendo /\ Atendiendo')
    PROVE  ConexInv'
<1>1. ColaEnEspera'
  BY DEF ConexInv, ColaEnEspera
<1>2. DescriptorCero'
  BY DEF ConexInv, DescriptorCero, Atendiendo
<1>3. Fugadas' = Fugadas
  BY DEF Fugadas, Atendiendo
<1>4. UnaFuga'
  BY <1>3 DEF ConexInv, UnaFuga, SinFuga, Atendiendo
<1> QED BY <1>1, <1>2, <1>4 DEF ConexInv

(* The steps, sorted by what they do to the connections.                   *)
LEMMA ClaseDePaso ==
    ASSUME TypeInv, [Next]_vars
    PROVE  \/ \E s \in Sesiones : Conecta(s) /\ UNCHANGED memoria
           \/ Acepta
           \/ Atendiendo /\ \E r : VuelveAAceptar(r)
           \/ Termina
           \/ /\ UNCHANGED <<srv, cola, k, actual, fd0>>
              /\ pc' = pc \/ (Atendiendo /\ Atendiendo')
<1>1. CASE UNCHANGED vars
  BY <1>1 DEF vars, canales, memoria
<1>2. ASSUME NEW s \in Carpinchos, NextCarpincho(s)
      PROVE  \/ Conecta(s) /\ UNCHANGED memoria
             \/ UNCHANGED <<srv, cola, k, actual, fd0, pc>>
  BY <1>2 DEF NextCarpincho, PasoCarpincho, MateInit, MateInitRechazado, Saluda, RespuestaSaludo,
         MateMemalloc, RespuestaMemalloc, MateClose, Muere, memoria, canales
<1>3. CASE NextKernel
  <2>1. \/ Conecta(kcon) /\ UNCHANGED memoria
        \/ UNCHANGED <<srv, cola, k, actual, fd0, pc>>
    BY <1>3 DEF NextKernel, PasoKernel, KConecta, KSaluda, KRecibeOk, KRecibeDir, KFinNormal,
           KSinMemoria, KMuere, KTermina, memoria
  <2>2. kcon \in Sesiones
    BY DEF TypeInv, TypeOK, KernelTypeOK, Sesiones
  <2> QED BY <2>1, <2>2
<1>4. CASE NextReloj
  BY <1>4 DEF NextReloj, Tic, canales, memoria
<1>5. CASE NextMemoria
  <2>1. CASE LeeSaludo
    BY <2>1 DEF LeeSaludo, Atendiendo
  <2>2. CASE LeePedidoAlocar
    BY <2>2 DEF LeePedidoAlocar, AllocConocido, AllocNuevo, AllocSinEspacio, Atendiendo
  <2>3. CASE EsperaSwap
    BY <2>3 DEF EsperaSwap, Atendiendo
  <2>4. CASE LeePedidoOtro
    BY <2>4 DEF LeePedidoOtro, Atendiendo
  <2>5. CASE Confirma
    BY <2>5 DEF Confirma, Atendiendo
  <2>6. CASE Acepta \/ Termina
    BY <2>6
  <2> QED BY <1>5, <2>1, <2>2, <2>3, <2>4, <2>5, <2>6
          DEF NextMemoria, PasoMemoria, SaludoDesconocido, Cae
<1>6. Carpinchos \subseteq Sesiones
  BY DEF Sesiones
<1> QED BY <1>1, <1>2, <1>3, <1>4, <1>5, <1>6 DEF Next

LEMMA ConexPaso == TypeInv /\ ConexInv /\ [Next]_vars => ConexInv'
<1> SUFFICES ASSUME TypeInv, ConexInv, [Next]_vars PROVE ConexInv'
  OBVIOUS
<1>1. TypeOK
  BY DEF TypeInv
<1> QED BY <1>1, ClaseDePaso, ConexConecta, ConexAcepta, ConexVuelve, ConexTermina, ConexQuieta

(* Besides the session it serves, Memoria keeps at most one connection     *)
(* open: the close of descriptor 0 catches every session but the first.    *)
THEOREM SinFugas == Spec => []SinFuga
<1>1. ConexInv => SinFuga
  BY DEF ConexInv, UnaFuga
<1> QED BY <1>1, TipoInicial, TipoPaso, ConexInicial, ConexPaso, PTL DEF Spec

(* The close of a descriptor nobody assigned never cuts a session other    *)
(* than the one just served, unless the process is ending.                 *)
THEOREM CierresPropios == Spec => CierreNoAjeno
<1> DEFINE Propio == \A s \in Sesiones :
               srv[s] = "abierta" /\ srv'[s] = "cerrada" => s = actual \/ pc' = "fin"
<1>1. TypeInv /\ ConexInv /\ [Next]_vars => [Propio]_vars
  <2> SUFFICES ASSUME TypeInv, ConexInv, [Next]_vars, NEW s \in Sesiones,
                      srv[s] = "abierta", srv'[s] = "cerrada"
               PROVE  s = actual \/ pc' = "fin"
    OBVIOUS
  <2>1. TypeOK /\ srv \in [Sesiones -> {"sin", "espera", "abierta", "cerrada"}]
    BY DEF TypeInv, TypeOK, CanalesTypeOK
  <2>2. ASSUME NEW t \in Sesiones, Conecta(t) PROVE FALSE
    BY <2>1, <2>2 DEF Conecta
  <2>3. CASE Acepta
    BY <2>1, <2>3 DEF Acepta
  <2>4. ASSUME Atendiendo, NEW r, VuelveAAceptar(r) PROVE s = actual
    <3>1. srv' = IF k = 0 THEN srv ELSE [srv EXCEPT ![actual] = "cerrada"]
      BY <2>1, <2>4, CierraLaActual
    <3> QED BY <2>1, <3>1
  <2>5. CASE Termina
    BY <2>5 DEF Termina
  <2>6. CASE UNCHANGED srv
    BY <2>6
  <2> QED BY <2>2, <2>3, <2>4, <2>5, <2>6, ClaseDePaso
<1> QED BY <1>1, TipoInicial, TipoPaso, ConexInicial, ConexPaso, PTL DEF Spec, CierreNoAjeno

-----------------------------------------------------------------------------
(* The index of cliente_memoria *)

(* k counts the sessions accepted, the current one excepted.               *)
Aceptadas == {s \in Sesiones : srv[s] \in {"abierta", "cerrada"}}

CuentaInv == pc # "fin" => Cardinality(Aceptadas) = k + (IF Atendiendo THEN 1 ELSE 0)

LEMMA SesionesFinito == IsFiniteSet(Sesiones)
<1>1. IsFiniteSet(Carpinchos \cup {K1})
  BY CarpinchosFinito, FS_AddElement
<1>2. IsFiniteSet((Carpinchos \cup {K1}) \cup {K2})
  BY <1>1, FS_AddElement
<1>3. Sesiones = (Carpinchos \cup {K1}) \cup {K2}
  BY DEF Sesiones, Kerneles
<1> QED BY <1>2, <1>3

LEMMA AceptadasFinito == IsFiniteSet(Aceptadas) /\ Cardinality(Aceptadas) <= Cardinality(Sesiones)
<1>1. Aceptadas \in SUBSET Sesiones
  BY DEF Aceptadas
<1> QED BY <1>1, SesionesFinito, FS_Subset

LEMMA CuentaInicial == Init => CuentaInv
<1> SUFFICES ASSUME Init PROVE CuentaInv
  OBVIOUS
<1>1. Aceptadas = {}
  BY DEF Init, CanalesInit, Aceptadas
<1>2. Cardinality(Aceptadas) = 0
  BY <1>1, FS_EmptySet
<1> QED BY <1>2 DEF Init, MemoriaInit, CuentaInv, Atendiendo

LEMMA CuentaPaso == TypeInv /\ ConexInv /\ CuentaInv /\ [Next]_vars => CuentaInv'
<1> SUFFICES ASSUME TypeInv, ConexInv, CuentaInv, [Next]_vars PROVE CuentaInv'
  OBVIOUS
<1>1. /\ srv \in [Sesiones -> {"sin", "espera", "abierta", "cerrada"}]
      /\ cola \in Seq(Sesiones) /\ k \in Nat
  BY DEF TypeInv, TypeOK, CanalesTypeOK, MemoriaTypeOK
<1>2. ASSUME NEW s \in Sesiones, Conecta(s), UNCHANGED memoria PROVE CuentaInv'
  <2>1. Aceptadas' = Aceptadas
    BY <1>1, <1>2 DEF Conecta, Aceptadas
  <2> QED BY <1>2, <2>1 DEF CuentaInv, Atendiendo, memoria
<1>3. CASE Acepta
  <2> DEFINE s == Head(cola)
  <2>1. s \in Sesiones /\ srv[s] = "espera"
    <3>1. s \in Sesiones /\ s = cola[1] /\ 1 \in 1 .. Len(cola)
      BY <1>1, <1>3, HeadTailProperties, EmptySeq, LenProperties DEF Acepta
    <3> HIDE DEF s
    <3> QED BY <3>1 DEF ConexInv, ColaEnEspera
  <2>2. srv' = [srv EXCEPT ![s] = "abierta"] /\ pc = "aceptar" /\ pc' = "saludo" /\ k' = k
    BY <1>3 DEF Acepta
  <2> HIDE DEF s
  <2>3. Aceptadas' = Aceptadas \cup {s} /\ s \notin Aceptadas
    BY <1>1, <2>1, <2>2 DEF Aceptadas
  <2>4. Cardinality(Aceptadas') = Cardinality(Aceptadas) + 1
    BY <2>3, AceptadasFinito, FS_AddElement
  <2> QED BY <1>1, <2>2, <2>4 DEF CuentaInv, Atendiendo
<1>4. ASSUME Atendiendo, NEW r, VuelveAAceptar(r) PROVE CuentaInv'
  <2>1. srv' = (IF k = 0 THEN srv ELSE [srv EXCEPT ![actual] = "cerrada"])
        /\ srv[actual] = "abierta" /\ pc # "fin"
    BY <1>4, CierraLaActual DEF TypeInv, ConexInv, DescriptorCero, Atendiendo
  <2>2. Aceptadas' = Aceptadas
    BY <1>1, <2>1 DEF Aceptadas
  <2> QED BY <1>1, <1>4, <2>1, <2>2 DEF CuentaInv, Atendiendo, VuelveAAceptar, ProximoIndice
<1>5. CASE Termina
  BY <1>5 DEF Termina, CuentaInv
<1>6. CASE UNCHANGED <<srv, cola, k, actual, fd0>> /\ (pc' = pc \/ (Atendiendo /\ Atendiendo'))
  <2>1. Aceptadas' = Aceptadas
    BY <1>6 DEF Aceptadas
  <2> QED BY <1>6, <2>1 DEF CuentaInv, Atendiendo
<1> QED BY <1>2, <1>3, <1>4, <1>5, <1>6, ClaseDePaso

(* The server thread writes and reads cliente_memoria inside its ONLINE    *)
(* slots as long as no more sessions than that connect in the life of the  *)
(* process: no session ever uses up two slots.                             *)
THEOREM IndiceAcotado == Spec => []IndiceEnRango
<1>1. TypeInv /\ CuentaInv => IndiceEnRango
  <2> SUFFICES ASSUME TypeInv, CuentaInv, Cardinality(Sesiones) <= ONLINE, Atendiendo
               PROVE  k < ONLINE
    BY DEF IndiceEnRango
  <2>1. Cardinality(Aceptadas) = k + 1
    BY DEF CuentaInv, Atendiendo
  <2>2. k \in Nat /\ ONLINE \in Nat
    BY MemoriaNaturales DEF TypeInv, TypeOK, MemoriaTypeOK
  <2>3. Cardinality(Aceptadas) <= Cardinality(Sesiones) /\ Cardinality(Sesiones) \in Nat
    BY AceptadasFinito, SesionesFinito, FS_CardinalityType
  <2> QED BY <2>1, <2>2, <2>3
<1> QED BY <1>1, TipoInicial, TipoPaso, ConexInicial, ConexPaso, CuentaInicial, CuentaPaso,
           PTL DEF Spec
=============================================================================
