--------------------------- MODULE Mensajes_proofs ---------------------------
(***************************************************************************)
(* Proofs about what is in Memoria's connections: which packets a session  *)
(* can have on its way at each point of its exchange with the server, and  *)
(* what follows for the answers of mem_alloc and for the applications.     *)
(***************************************************************************)
EXTENDS Asignacion_proofs

-----------------------------------------------------------------------------
(* The packets of the exchange, and what their readers get                 *)

MsjSaludo(cod, f) == TramaCarpincho(cod, Puntero, f, 0)
MsjOk == TramaCarpincho(TODO_OK, Puntero, 0, 0)
MsjPedido(pid, n) == TramaCarpincho(ALOCAR_EN_MEMORIA, Puntero, pid, n)
MsjNuevo(pid, n) == TramaCarpincho(CARPINCHO_NEW, Puntero, pid, n)
MsjDir(pid, d) == TramaCarpincho(ALOCAR_EN_MEMORIA, Puntero, pid, d)
MsjKernelOk == TramaPlana(KERNEL_OK, Puntero)

(* What the greeting leaves in front of the request: nothing, or the two   *)
(* trailing words the plain reader did not take.                           *)
Alineada == k = 0 \/ PlanoConPid
Sobra(f) == IF Alineada THEN <<>> ELSE <<f, 0>>

LEMMA Codigos ==
    /\ 0 \in Palabra /\ Indef \in Palabra
    /\ MATELIB \in Palabra /\ KERNEL \in Palabra /\ ERROR \in Palabra /\ KERNEL_OK \in Palabra
    /\ ALOCAR_EN_MEMORIA \in Palabra /\ TODO_OK \in Palabra /\ CARPINCHO_NEW \in Palabra
    /\ MATELIB # ERROR /\ KERNEL # ERROR /\ ALOCAR_EN_MEMORIA # ERROR /\ TODO_OK # ERROR
    /\ ERROR \notin SoloConfirma
BY DEF Palabra, MATELIB, KERNEL, ERROR, KERNEL_OK, ALOCAR_EN_MEMORIA, TODO_OK, CARPINCHO_NEW,
       SoloConfirma, LIBERAR_MEMORIA, LEER_EN_MEMORIA, ESCRIBIR_EN_MEMORIA

(* Nothing to read, and the end of the connection.                         *)
LEMMA LlegaElFin ==
    \A fmt : /\ ~Completo(fmt, <<>>)
             /\ Recibe(fmt, <<>>).cod = ERROR /\ Recibe(fmt, <<>>).memo = Indef
             /\ Recibe(fmt, <<>>).resto = <<>>
BY NadaQueLeer DEF LeeCortado

LEMMA LlegaTodoOk ==
    /\ MsjOk \in Seq(Palabra) /\ <<>> \o MsjOk = MsjOk
    /\ Recibe("carpincho", MsjOk).cod = TODO_OK /\ Recibe("carpincho", MsjOk).resto = <<>>
BY Codigos, CarpinchoDePuntero DEF MsjOk

LEMMA LlegaPedido ==
    ASSUME NEW pid \in Palabra, NEW n \in Palabra
    PROVE  /\ MsjPedido(pid, n) \in Seq(Palabra) /\ <<>> \o MsjPedido(pid, n) = MsjPedido(pid, n)
           /\ Recibe("carpincho", MsjPedido(pid, n)).cod = ALOCAR_EN_MEMORIA
           /\ Recibe("carpincho", MsjPedido(pid, n)).pid = pid
           /\ Recibe("carpincho", MsjPedido(pid, n)).memo = n
           /\ Recibe("carpincho", MsjPedido(pid, n)).resto = <<>>
BY Codigos, CarpinchoDePuntero DEF MsjPedido

LEMMA LlegaNuevo ==
    ASSUME NEW pid \in Palabra, NEW n \in Palabra
    PROVE  /\ MsjNuevo(pid, n) \in Seq(Palabra) /\ <<>> \o MsjNuevo(pid, n) = MsjNuevo(pid, n)
           /\ Recibe("carpincho", MsjNuevo(pid, n)).memo = n
           /\ Recibe("carpincho", MsjNuevo(pid, n)).resto = <<>>
BY Codigos, CarpinchoDePuntero DEF MsjNuevo

(* A bare KERNEL_OK read as an answer of mem_alloc: the address is garbage,*)
(* whether the packet carries two more words or the reader is cut short.   *)
LEMMA LlegaKernelOk ==
    /\ MsjKernelOk \in Seq(Palabra) /\ <<>> \o MsjKernelOk = MsjKernelOk
    /\ Recibe("carpincho", MsjKernelOk).memo = Indef
    /\ Recibe("carpincho", MsjKernelOk).resto = <<>>
<1>1. KERNEL_OK \in Palabra /\ Indef \in Palabra
  BY Codigos
<1>2. MsjKernelOk \in Seq(Palabra)
  BY <1>1, KernelOkTipo DEF MsjKernelOk
<1>3. <<>> \o MsjKernelOk = MsjKernelOk
  BY <1>2, ConcatEmptySeq
<1>4. CASE PlanoConPid
  <2>1. MsjKernelOk = TramaCarpincho(KERNEL_OK, Puntero, Indef, Indef)
    BY <1>4 DEF MsjKernelOk, TramaPlana, TramaCarpincho
  <2>2. /\ Recibe("carpincho", MsjKernelOk).memo = Indef
        /\ Recibe("carpincho", MsjKernelOk).resto = <<>>
    <3>1. /\ Recibe("carpincho", TramaCarpincho(KERNEL_OK, Puntero, Indef, Indef)).memo = Indef
          /\ Recibe("carpincho", TramaCarpincho(KERNEL_OK, Puntero, Indef, Indef)).resto = <<>>
      BY <1>1, CarpinchoDePuntero
    <3> QED BY <2>1, <3>1
  <2> QED BY <1>2, <1>3, <2>2
<1>5. CASE ~PlanoConPid
  <2>1. Len(MsjKernelOk) = 4 /\ MsjKernelOk[2] = 8
    <3> DEFINE c == Cuerpo(KERNEL_OK, Puntero)
    <3>1. c \in Seq(Palabra) /\ Len(c) = 4
      <4>1. c \in Seq(Palabra) /\ Len(c) = 2 + Len(Puntero)
        BY <1>1, PunteroTipo, TramasEnPalabras
      <4> QED BY <4>1 DEF Puntero
    <3>2. MsjKernelOk = c \o <<>>
      BY <1>5 DEF MsjKernelOk, TramaPlana
    <3>3. MsjKernelOk = c
      BY <3>1, <3>2, ConcatEmptySeq
    <3>4. c[2] = 8
      BY DEF Cuerpo, TamPalabra, Puntero
    <3> QED BY <3>1, <3>3, <3>4
  <2>2. Largo("carpincho", 8) = 6
    BY DEF Largo, TieneCola, TamPalabra
  <2>3. Recibe("carpincho", MsjKernelOk) = LeeCortado
    BY <2>1, <2>2 DEF Recibe, Completo
  <2> QED BY <1>2, <1>3, <2>3 DEF LeeCortado
<1> QED BY <1>4, <1>5

(* The answer of mem_alloc, alone and with the KERNEL_OK behind it.        *)
LEMMA LlegaDir ==
    ASSUME NEW pid \in Palabra, NEW d \in Palabra
    PROVE  /\ MsjDir(pid, d) \in Seq(Palabra) /\ <<>> \o MsjDir(pid, d) = MsjDir(pid, d)
           /\ Recibe("carpincho", MsjDir(pid, d)).memo = d
           /\ Recibe("carpincho", MsjDir(pid, d)).resto = <<>>
           /\ Recibe("carpincho", MsjDir(pid, d) \o MsjKernelOk).memo = d
           /\ Recibe("carpincho", MsjDir(pid, d) \o MsjKernelOk).resto = MsjKernelOk
<1>1. /\ MsjDir(pid, d) \in Seq(Palabra) /\ <<>> \o MsjDir(pid, d) = MsjDir(pid, d)
      /\ Recibe("carpincho", MsjDir(pid, d)).memo = d
      /\ Recibe("carpincho", MsjDir(pid, d)).resto = <<>>
  BY Codigos, CarpinchoDePuntero DEF MsjDir
<1>2. Puntero \in Seq(Palabra) /\ Puntero # <<>>
  BY DEF Puntero, Palabra
<1>3. PICK ws : ws = MsjDir(pid, d) \o MsjKernelOk
  OBVIOUS
<1>4. /\ Completo("carpincho", ws) /\ Lee("carpincho", ws).memo = d
      /\ Lee("carpincho", ws).resto = MsjKernelOk
  <2>1. ALOCAR_EN_MEMORIA \in Palabra /\ MsjKernelOk \in Seq(Palabra)
    BY Codigos, LlegaKernelOk
  <2>2. EsTrama(TramaCarpincho(ALOCAR_EN_MEMORIA, Puntero, pid, d) \o MsjKernelOk,
                ALOCAR_EN_MEMORIA, Len(Puntero), pid, d, MsjKernelOk)
    BY <1>2, <2>1, PalabrasDeTrama
  <2>3. PICK n : n = Len(Puntero) /\ n \in Nat \ {0}
    BY DEF Puntero
  <2>4. EsTrama(ws, ALOCAR_EN_MEMORIA, n, pid, d, MsjKernelOk)
    BY <1>3, <2>2, <2>3 DEF MsjDir
  <2>5. Completo("carpincho", ws)
    BY <2>1, <2>3, <2>4, LeeTrama
  <2>6. Lee("carpincho", ws).memo = d
    BY <2>1, <2>3, <2>4, LeeTrama
  <2>7. Lee("carpincho", ws).resto = MsjKernelOk
    BY <2>1, <2>3, <2>4, LeeTrama
  <2> QED BY <2>5, <2>6, <2>7
<1>5. Recibe("carpincho", ws).memo = d /\ Recibe("carpincho", ws).resto = MsjKernelOk
  BY <1>4 DEF Recibe
<1> QED BY <1>1, <1>3, <1>5

(* A greeting, for the reader of the first session and of the others.      *)
LEMMA LlegaSaludo ==
    ASSUME NEW cod \in {MATELIB, KERNEL}, NEW f \in Palabra
    PROVE  /\ MsjSaludo(cod, f) \in Seq(Palabra) /\ <<>> \o MsjSaludo(cod, f) = MsjSaludo(cod, f)
           /\ Recibe(FormatoSaludo(k), MsjSaludo(cod, f)).cod = cod
           /\ Recibe(FormatoSaludo(k), MsjSaludo(cod, f)).resto = Sobra(f)
<1>1. PICK ws : ws = MsjSaludo(cod, f)
  OBVIOUS
<1>2. cod \in Palabra /\ 0 \in Palabra
  BY Codigos
<1>3. /\ ws \in Seq(Palabra) /\ <<>> \o ws = ws
      /\ Recibe("carpincho", ws).cod = cod /\ Recibe("carpincho", ws).resto = <<>>
  <2>1. /\ TramaCarpincho(cod, Puntero, f, 0) \in Seq(Palabra)
        /\ <<>> \o TramaCarpincho(cod, Puntero, f, 0) = TramaCarpincho(cod, Puntero, f, 0)
        /\ Recibe("carpincho", TramaCarpincho(cod, Puntero, f, 0)).cod = cod
        /\ Recibe("carpincho", TramaCarpincho(cod, Puntero, f, 0)).resto = <<>>
    BY <1>2, CarpinchoDePuntero
  <2> QED BY <1>1, <2>1 DEF MsjSaludo
<1>4. CASE k = 0
  BY <1>1, <1>3, <1>4 DEF FormatoSaludo, Sobra, Alineada
<1>5. CASE k # 0 /\ PlanoConPid
  <2>1. Recibe("plano", ws) = Recibe("carpincho", ws)
    BY <1>5 DEF Recibe, Lee, Completo, Largo, TieneCola
  <2> QED BY <1>1, <1>3, <1>5, <2>1 DEF FormatoSaludo, Sobra, Alineada
<1>6. CASE k # 0 /\ ~PlanoConPid
  <2>1. /\ Recibe("plano", TramaCarpincho(cod, Puntero, f, 0)).cod = cod
        /\ Recibe("plano", TramaCarpincho(cod, Puntero, f, 0)).resto = <<f, 0>>
    BY <1>2, <1>6, PunteroMalLeido
  <2> QED BY <1>1, <1>3, <1>6, <2>1 DEF FormatoSaludo, Sobra, Alineada, MsjSaludo
<1> QED BY <1>4, <1>5, <1>6

(* Words that begin with a number and a zero, as a request behind the      *)
(* leftovers of its greeting does, are an ERROR however many they are.     *)
LEMMA LlegaDesalineado ==
    ASSUME NEW f \in Palabra, NEW ws \in Seq(Palabra)
    PROVE  /\ <<f, 0>> \o ws \in Seq(Palabra)
           /\ Recibe("carpincho", <<f, 0>> \o ws).cod = ERROR
           /\ Recibe("carpincho", <<f, 0>>).cod = ERROR
<1>1. <<f, 0>> \in Seq(Palabra) /\ Len(<<f, 0>>) = 2 /\ <<f, 0>>[2] = 0
  BY Codigos
<1>2. PICK s : s = <<f, 0>> \o ws
  OBVIOUS
<1>3. s \in Seq(Palabra) /\ s[2] = 0
  BY <1>1, <1>2, ConcatProperties
<1>4. \A t : t[2] = 0 => Recibe("carpincho", t).cod = ERROR
  BY DEF Recibe, Lee, LeeCortado, CodigoLeido
<1> QED BY <1>1, <1>2, <1>3, <1>4

-----------------------------------------------------------------------------
(* The client's end of a session                                           *)

(* Where the client of a session is.  The two connections of the Kernel    *)
(* follow the same steps as those of the instances: K1 ends its run        *)
(* "lista", and K2 is "fuera" until K1 has.                                *)
LadoKernel(s) ==
    IF kpc = "fin" THEN "muerta"
    ELSE IF s # kcon THEN IF s = K1 THEN "lista" ELSE "fuera"
    ELSE IF kpc = "conectar" THEN "fuera"
    ELSE IF kpc = "saludar" THEN "conectado"
    ELSE IF kpc = "esperarOk" THEN "saludando"
    ELSE "esperando"
Lado(s) == IF s \in Carpinchos THEN est[s] ELSE LadoKernel(s)

Idos == {"cerrada", "muerta"}

(* How a client names itself in its requests and in its greeting, the      *)
(* sizes it asks for, and the packets it sends.                            *)
Pid(s) == IF s \in Carpinchos THEN mid[s] ELSE PidKernel
Firma(s) == IF s \in Carpinchos THEN mid[s] ELSE 0
TamsDe(s) == IF s \in Carpinchos THEN Tamanios ELSE {TamKernel}
Saludo(s) == MsjSaludo(IF s \in Carpinchos THEN MATELIB ELSE KERNEL, Firma(s))

(* The steps of a client, as its session sees them.                        *)
MismoNombre(s) == Pid(s)' = Pid(s) /\ Firma(s)' = Firma(s)
MismosExtremos(s) == UNCHANGED <<cli[s], srv[s]>>

Sigue(s) == MismoNombre(s) /\ MismosExtremos(s) /\ UNCHANGED <<aSrv[s], aCli[s], Lado(s)>>

SeConecta(s) ==
    /\ Lado(s) = "fuera" /\ srv[s] = "sin"
    /\ Lado(s)' = "conectado" /\ cli'[s] = "abierta" /\ srv'[s] = "espera"
    /\ UNCHANGED <<aSrv[s], aCli[s]>>

NoSeConecta(s) ==
    /\ Lado(s) = "fuera" /\ srv[s] = "cerrada"
    /\ Lado(s)' = "fallida"
    /\ MismosExtremos(s) /\ UNCHANGED <<aSrv[s], aCli[s]>>

(* Reads what it waits for, if anything, and sends ws.                     *)
Envia(s, ws) == aSrv'[s] = IF srv[s] = "cerrada" THEN aSrv[s] ELSE aSrv[s] \o ws
Lee1(s) == LegibleCli(s) /\ aCli'[s] = Recibe("carpincho", aCli[s]).resto

SeSaluda(s) ==
    /\ MismoNombre(s) /\ MismosExtremos(s)
    /\ Lado(s) = "conectado" /\ Lado(s)' = "saludando"
    /\ Envia(s, Saludo(s)) /\ UNCHANGED aCli[s]

OyeSaludo(s) ==
    /\ MismoNombre(s) /\ MismosExtremos(s)
    /\ Lado(s) = "saludando" /\ Lee1(s)
    /\ Lado(s)' = IF Recibe("carpincho", aCli[s]).cod = TODO_OK THEN "lista" ELSE "fallida"
    /\ UNCHANGED aSrv[s]

PideMemoria(s) ==
    /\ MismoNombre(s) /\ MismosExtremos(s)
    /\ \/ Lado(s) = "lista" /\ UNCHANGED aCli[s]
       \/ Lado(s) = "saludando" /\ Lee1(s)
    /\ Lado(s)' = "esperando"
    /\ \E n \in TamsDe(s) : Envia(s, MsjPedido(Pid(s), n))

OyeDireccion(s) ==
    /\ MismoNombre(s) /\ MismosExtremos(s)
    /\ Lado(s) = "esperando" /\ Lee1(s) /\ Lado(s)' = "lista"
    /\ UNCHANGED aSrv[s]

SeVa(s) ==
    /\ MismoNombre(s)
    /\ Lado(s)' \in Idos
    /\ cli'[s] = (IF cli[s] = "abierta" THEN "cerrada" ELSE cli[s]) /\ aCli'[s] = <<>>
    /\ UNCHANGED <<aSrv[s], srv[s]>>

Mueve(s) ==
    \/ Sigue(s) \/ SeConecta(s) \/ NoSeConecta(s) \/ SeSaluda(s)
    \/ OyeSaludo(s) \/ PideMemoria(s) \/ OyeDireccion(s) \/ SeVa(s)

LEMMA Nombres ==
    ASSUME TypeInv, NEW s \in Sesiones, Lado(s) # "fuera"
    PROVE  Pid(s) \in Palabra /\ Firma(s) \in Palabra
BY KernelNaturales DEF TypeInv, MidAsignado, Lado, Pid, Firma, Palabra

LEMMA TamsEnPalabras == \A s : TamsDe(s) \subseteq Palabra
BY KernelNaturales, TamaniosNaturales DEF TamsDe, Palabra

(* A step of one application is a step of its session, and the others go   *)
(* on as they were.                                                        *)
LEMMA MueveCarpincho ==
    ASSUME TypeInv, NEW c \in Carpinchos, NextCarpincho(c), NEW s \in Sesiones
    PROVE  Mueve(s)
<1>1. /\ aSrv \in [Sesiones -> Seq(Palabra)] /\ aCli \in [Sesiones -> Seq(Palabra)]
      /\ cli \in [Sesiones -> {"sin", "abierta", "cerrada"}]
      /\ srv \in [Sesiones -> {"sin", "espera", "abierta", "cerrada"}]
      /\ c \in Sesiones
  BY DEF TypeInv, TypeOK, CanalesTypeOK, Sesiones
<1>2. /\ est \in [Carpinchos -> Vivos \cup {"fuera", "cerrada", "muerta"}]
      /\ mid \in [Carpinchos -> Nat \cup {Nulo}]
  BY DEF TypeInv, TypeOK, MatelibTypeOK
<1>3. kpc' = kpc /\ kcon' = kcon
  BY DEF NextCarpincho, kernel
<1>4. CASE s # c
  <2>1. /\ UNCHANGED <<aSrv[s], aCli[s]>> /\ MismosExtremos(s)
        /\ s \in Carpinchos => mid'[s] = mid[s] /\ est'[s] = est[s]
    BY <1>1, <1>2, <1>4 DEF NextCarpincho, PasoCarpincho, MateInit, MateInitRechazado, Saluda,
       RespuestaSaludo, MateMemalloc, RespuestaMemalloc, MateClose, Muere, Conecta, HaciaSrv,
       CierraClientes, canales, MismosExtremos
  <2>2. Lado(s)' = Lado(s) /\ MismoNombre(s)
    BY <1>3, <2>1 DEF Lado, LadoKernel, MismoNombre, Pid, Firma
  <2> QED BY <2>1, <2>2 DEF Mueve, Sigue
<1>5. CASE s = c
  <2>1. /\ s \in Carpinchos /\ Lado(s) = est[s] /\ Lado(s)' = est'[s] /\ Pid(s) = mid[s]
        /\ Firma(s) = mid[s] /\ TamsDe(s) = Tamanios
        /\ Saludo(s) = TramaCarpincho(MATELIB, Puntero, mid[s], 0)
        /\ mid'[s] = mid[s] => MismoNombre(s)
    BY <1>5 DEF Lado, Pid, Firma, TamsDe, Saludo, MsjSaludo, MismoNombre
  <2>2. CASE MateInit(s)
    BY <1>1, <1>2, <2>1, <2>2 DEF MateInit, Conecta, Mueve, SeConecta
  <2>3. CASE MateInitRechazado(s)
    BY <1>1, <1>2, <2>1, <2>3
       DEF MateInitRechazado, Rechazada, canales, Mueve, NoSeConecta, MismosExtremos
  <2>4. CASE Saluda(s)
    <3>1. SeSaluda(s)
      BY <1>1, <1>2, <2>1, <2>4 DEF Saluda, HaciaSrv, SeSaluda, Envia, MismosExtremos
    <3> QED BY <3>1 DEF Mueve
  <2>5. CASE RespuestaSaludo(s)
    <3>1. OyeSaludo(s)
      BY <1>1, <1>2, <2>1, <2>5 DEF RespuestaSaludo, OyeSaludo, Lee1, MismosExtremos
    <3> QED BY <3>1 DEF Mueve
  <2>6. CASE MateMemalloc(s)
    <3>1. PideMemoria(s)
      BY <1>1, <1>2, <2>1, <2>6
         DEF MateMemalloc, HaciaSrv, PideMemoria, Envia, MsjPedido, MismosExtremos
    <3> QED BY <3>1 DEF Mueve
  <2>7. CASE RespuestaMemalloc(s)
    <3>1. OyeDireccion(s)
      BY <1>1, <1>2, <2>1, <2>7 DEF RespuestaMemalloc, OyeDireccion, Lee1, MismosExtremos
    <3> QED BY <3>1 DEF Mueve
  <2>8. CASE MateClose(s) \/ Muere(s)
    <3>1. SeVa(s)
      BY <1>1, <1>2, <2>1, <2>8 DEF MateClose, Muere, CierraClientes, SeVa, Idos
    <3> QED BY <3>1 DEF Mueve
  <2> QED BY <1>5, <2>2, <2>3, <2>4, <2>5, <2>6, <2>7, <2>8 DEF NextCarpincho, PasoCarpincho
<1> QED BY <1>4, <1>5

LEMMA MueveKernel ==
    ASSUME TypeInv, NextKernel, NEW s \in Sesiones
    PROVE  Mueve(s)
<1>1. /\ aSrv \in [Sesiones -> Seq(Palabra)] /\ aCli \in [Sesiones -> Seq(Palabra)]
      /\ cli \in [Sesiones -> {"sin", "abierta", "cerrada"}]
      /\ srv \in [Sesiones -> {"sin", "espera", "abierta", "cerrada"}]
      /\ kpc \in {"conectar", "saludar", "esperarOk", "esperarDir", "fin"}
      /\ kcon \in Kerneles /\ kcon \in Sesiones
  BY DEF TypeInv, TypeOK, CanalesTypeOK, KernelTypeOK, Sesiones
<1>2. est' = est /\ mid' = mid
  BY DEF NextKernel, matelib
<1>3. MismoNombre(s)
  BY <1>2 DEF MismoNombre, Pid, Firma
<1>4. K1 # K2 /\ Kerneles = {K1, K2} /\ \A t \in Kerneles : t \notin Carpinchos
  BY SesionesDistintas DEF Kerneles
<1>5. CASE s \in Carpinchos
  <2>1. Lado(s)' = Lado(s)
    BY <1>2, <1>5 DEF Lado
  <2>2. UNCHANGED <<aSrv[s], aCli[s]>> /\ MismosExtremos(s)
    BY <1>1, <1>4, <1>5 DEF NextKernel, PasoKernel, KConecta, KSaluda, KRecibeOk, KRecibeDir,
       KFinNormal, KSinMemoria, KMuere, KTermina, Conecta, HaciaSrv, CierraClientes, MismosExtremos
  <2> QED BY <1>3, <2>1, <2>2 DEF Mueve, Sigue
<1>6. CASE s \notin Carpinchos
  <2>1. /\ s \in Kerneles /\ Lado(s) = LadoKernel(s) /\ Lado(s)' = LadoKernel(s)'
        /\ Pid(s) = PidKernel /\ TamsDe(s) = {TamKernel}
        /\ Saludo(s) = TramaCarpincho(KERNEL, Puntero, 0, 0)
    BY <1>6 DEF Sesiones, Lado, Pid, Firma, TamsDe, Saludo, MsjSaludo
  <2>2. CASE KTermina
    <3>1. kpc' = "fin" /\ UNCHANGED <<aSrv, srv>>
      BY <2>2 DEF KTermina
    <3>2. /\ cli'[s] = (IF cli[s] = "abierta" THEN "cerrada" ELSE cli[s])
          /\ aCli'[s] = <<>>
      BY <1>1, <2>1, <2>2 DEF KTermina, CierraClientes
    <3>3. Lado(s)' \in Idos
      BY <2>1, <3>1 DEF LadoKernel, Idos
    <3> QED BY <1>3, <3>1, <3>2, <3>3 DEF Mueve, SeVa
  <2>3. CASE s # kcon /\ ~KTermina
    <3>1. kpc # "fin" /\ kpc' # "fin" /\ (kcon' = kcon \/ (kcon = K1 /\ kcon' = K2 /\ kpc' = "conectar"))
      BY <1>3, <2>3 DEF NextKernel, PasoKernel, KConecta, KSaluda, KRecibeOk, KRecibeDir,
         KFinNormal, KSinMemoria, KMuere
    <3>2. Lado(s)' = Lado(s)
      BY <1>1, <1>4, <2>1, <2>3, <3>1 DEF LadoKernel
    <3>3. UNCHANGED <<aSrv[s], aCli[s]>> /\ MismosExtremos(s)
      BY <1>1, <2>3 DEF NextKernel, PasoKernel, KConecta, KSaluda, KRecibeOk, KRecibeDir,
         KFinNormal, KSinMemoria, KMuere, Conecta, HaciaSrv, MismosExtremos
    <3> QED BY <1>3, <3>2, <3>3 DEF Mueve, Sigue
  <2>4. CASE s = kcon /\ KConecta
    <3>1. SeConecta(s)
      BY <1>1, <2>1, <2>4 DEF KConecta, Conecta, SeConecta, LadoKernel
    <3> QED BY <3>1 DEF Mueve
  <2>5. CASE s = kcon /\ KSaluda
    <3>1. Lado(s) = "conectado" /\ Lado(s)' = "saludando"
      BY <2>1, <2>5 DEF KSaluda, LadoKernel
    <3>2. SeSaluda(s)
      BY <1>1, <1>3, <2>1, <2>5, <3>1 DEF KSaluda, HaciaSrv, SeSaluda, Envia, MismosExtremos
    <3> QED BY <3>2 DEF Mueve
  <2>6. CASE s = kcon /\ KRecibeOk
    <3>1. Lado(s) = "saludando" /\ Lado(s)' = "esperando"
      BY <2>1, <2>6 DEF KRecibeOk, LadoKernel
    <3>2. PideMemoria(s)
      BY <1>1, <1>3, <2>1, <2>6, <3>1
         DEF KRecibeOk, HaciaSrv, PideMemoria, Envia, Lee1, MsjPedido, MismosExtremos
    <3> QED BY <3>2 DEF Mueve
  <2>7. CASE s = kcon /\ KRecibeDir
    <3>1. Lado(s) = "esperando" /\ Lado(s)' = "lista"
      BY <1>4, <2>1, <2>7 DEF KRecibeDir, LadoKernel
    <3>2. OyeDireccion(s)
      BY <1>1, <1>3, <2>1, <2>7, <3>1 DEF KRecibeDir, OyeDireccion, Lee1, MismosExtremos
    <3> QED BY <3>2 DEF Mueve
  <2> QED BY <2>2, <2>3, <2>4, <2>5, <2>6, <2>7
          DEF NextKernel, PasoKernel, KFinNormal, KSinMemoria, KMuere
<1> QED BY <1>5, <1>6

(* Every step that is not Memoria's.                                       *)
LEMMA ClientesMueven ==
    ASSUME TypeInv, [Next]_vars, ~NextMemoria, NEW s \in Sesiones
    PROVE  Mueve(s) /\ UNCHANGED memoria
<1>1. CASE UNCHANGED vars \/ NextReloj
  <2>1. UNCHANGED <<aSrv, aCli, cli, srv, est, mid, kpc, kcon>> /\ UNCHANGED memoria
    BY <1>1 DEF vars, NextReloj, Tic, canales, matelib, kernel
  <2>2. Sigue(s)
    BY <2>1 DEF Sigue, MismoNombre, MismosExtremos, Pid, Firma, Lado, LadoKernel
  <2> QED BY <2>1, <2>2 DEF Mueve
<1>2. ASSUME NEW c \in Carpinchos, NextCarpincho(c) PROVE Mueve(s) /\ UNCHANGED memoria
  BY <1>2, MueveCarpincho DEF NextCarpincho
<1>3. CASE NextKernel
  BY <1>3, MueveKernel DEF NextKernel
<1> QED BY <1>1, <1>2, <1>3 DEF Next

-----------------------------------------------------------------------------
(* The points of an exchange.  Where the server thread and the client are  *)
(* decides what their connection can hold.                                 *)

(* Connected and not greeted back yet.                                     *)
PorAtender(s) ==
    /\ aCli[s] = <<>> /\ concesion[s] = Nulo
    /\ \/ Lado(s) = "conectado" /\ aSrv[s] = <<>>
       \/ Lado(s) = "saludando" /\ aSrv[s] = Saludo(s)
       \/ Lado(s) \in Idos /\ aSrv[s] \in {<<>>, Saludo(s)}

(* Greeted: what the server thread reads next is the request, behind what  *)
(* the greeting left over.                                                 *)
Pedida(s) == \E n \in TamsDe(s) : aSrv[s] = Sobra(Firma(s)) \o MsjPedido(Pid(s), n)

EnPedido(s) ==
    /\ concesion[s] = Nulo
    /\ \/ Lado(s) = "saludando" /\ aSrv[s] = Sobra(Firma(s)) /\ aCli[s] = MsjOk
       \/ Lado(s) = "lista" /\ aSrv[s] = Sobra(Firma(s)) /\ aCli[s] = <<>>
       \/ Lado(s) \in {"esperando"} \cup Idos /\ Pedida(s) /\ aCli[s] = <<>>
       \/ Lado(s) \in Idos /\ aSrv[s] = Sobra(Firma(s)) /\ aCli[s] = <<>>

(* Its request does not fit.  If descriptor 0 is its own connection, the   *)
(* client gets the request meant for Swap as if it were an answer.         *)
Rebota(s) == \E n \in TamsDe(s) : ~Entra(n) /\ aCli[s] = MsjNuevo(Pid(s), n)

EnSwap(s) ==
    /\ concesion[s] = Nulo /\ Alineada /\ pidPedido = Pid(s)
    /\ \/ Lado(s) = "esperando" /\ Rebota(s) /\ aSrv[s] = <<>> /\ fd0 = s
       \/ Lado(s) = "lista" /\ aSrv[s] = <<>> /\ aCli[s] = <<>> /\ fd0 = s
       \/ Lado(s) \in {"esperando"} \cup Idos /\ aCli[s] = <<>>

(* Answered, and the KERNEL_OK that ends ejecutarKernel still to come.     *)
EsDir(s, ws) ==
    concesion[s] # Nulo /\ \E pid \in {Pid(s), Indef} : ws = MsjDir(pid, concesion[s].dir)
EsDirOk(s, ws) ==
    /\ concesion[s] # Nulo
    /\ \E pid \in {Pid(s), Indef} : ws = MsjDir(pid, concesion[s].dir) \o MsjKernelOk

EnConfirmar(s) ==
    /\ Alineada /\ concesion[s] # Nulo
    /\ \/ Lado(s) = "esperando" /\ EsDir(s, aCli[s])
       \/ Lado(s) \in {"esperando", "lista"} \cup Idos /\ aCli[s] = <<>>

Punto(s) ==
    /\ srv[s] = "espera" => PorAtender(s)
    /\ s = actual => /\ pc = "saludo" => PorAtender(s)
                     /\ pc = "pedido" => EnPedido(s)
                     /\ pc = "swap" => EnSwap(s)
                     /\ pc = "confirmar" => EnConfirmar(s)

(* What a client can find, served or not: also after Memoria has gone.     *)
Buzon(s) ==
    \/ aCli[s] = <<>>
    \/ Lado(s) = "saludando" /\ aCli[s] = MsjOk
    \/ Lado(s) = "esperando" /\ (Rebota(s) \/ EsDir(s, aCli[s]) \/ EsDirOk(s, aCli[s]))
    \/ Lado(s) \in {"esperando", "lista"} /\ aCli[s] = MsjKernelOk

(* Both ends of the connection.                                            *)
Extremo(s) ==
    /\ Lado(s) \in {"conectado", "saludando", "lista", "esperando"} => cli[s] = "abierta"
    /\ Lado(s) \in Idos => cli[s] # "abierta"
    /\ srv[s] \in {"espera", "abierta"} => cli[s] # "sin"
    /\ srv[s] = "sin" => Lado(s) \in {"fuera"} \cup Idos /\ aSrv[s] = <<>>
    /\ Lado(s) = "fuera" => concesion[s] = Nulo /\ srv[s] \in {"sin", "cerrada"}

(* mem_alloc worked on the pid the client chose.                           *)
Respuesta(s) ==
    concesion[s] # Nulo => /\ concesion[s].pid = Pid(s)
                           /\ concesion[s].dir \in {Indef, DirPrimera, SinEspacio}

Sesion(s) == Punto(s) /\ Buzon(s) /\ Extremo(s) /\ Respuesta(s)

InvMensajes == \A s \in Sesiones : Sesion(s)

LEMMA MensajesInicial == Init => InvMensajes
<1> SUFFICES ASSUME Init, NEW s \in Sesiones PROVE Sesion(s)
  BY DEF InvMensajes
<1>1. /\ aSrv[s] = <<>> /\ aCli[s] = <<>> /\ srv[s] = "sin" /\ concesion[s] = Nulo /\ pc = "aceptar"
  BY DEF Init, CanalesInit, MemoriaInit
<1>2. Lado(s) = "fuera"
  <2>1. CASE s \in Carpinchos
    BY <2>1 DEF Init, MatelibInit, Lado
  <2>2. CASE s \notin Carpinchos
    BY <2>2 DEF Init, KernelInit, Lado, LadoKernel, Sesiones, Kerneles
  <2> QED BY <2>1, <2>2
<1> QED BY <1>1, <1>2 DEF Sesion, Punto, Buzon, Extremo, Respuesta, Idos

-----------------------------------------------------------------------------
(* The steps of the clients keep every session at some point of its        *)
(* exchange.                                                               *)

(* A client waits while its connection is empty and open.                  *)
LEMMA NadaQueOir ==
    ASSUME NEW s, aCli[s] = <<>>, srv[s] # "cerrada"
    PROVE  ~LegibleCli(s)
BY LlegaElFin DEF LegibleCli, Legible

LEMMA MismosMensajes ==
    ASSUME NEW s \in Sesiones, MismoNombre(s), UNCHANGED memoria
    PROVE  /\ Saludo(s)' = Saludo(s) /\ Sobra(Firma(s))' = Sobra(Firma(s))
           /\ Pid(s)' = Pid(s) /\ TamsDe(s)' = TamsDe(s) /\ Alineada' = Alineada
           /\ UNCHANGED <<pc, k, actual, fd0, pidPedido, concesion>>
BY DEF MismoNombre, memoria, Saludo, Sobra, Alineada, TamsDe

LEMMA PorAtenderMueve ==
    ASSUME TypeInv, NEW s \in Sesiones, PorAtender(s), srv[s] # "cerrada",
           Mueve(s), UNCHANGED memoria
    PROVE  PorAtender(s)'
<1>1. Lado(s) # "fuera" /\ Lado(s) \in {"conectado", "saludando"} \cup Idos
  BY DEF PorAtender, Idos
<1>2. ~LegibleCli(s)
  BY NadaQueOir DEF PorAtender
<1>3. concesion'[s] = Nulo
  BY DEF PorAtender, memoria
<1>4. MismoNombre(s) => Saludo(s)' = Saludo(s)
  BY MismosMensajes
<1>5. CASE Sigue(s)
  BY <1>3, <1>4, <1>5 DEF PorAtender, Sigue
<1>6. CASE SeSaluda(s)
  <2>1. aSrv[s] = <<>> /\ Lado(s) = "conectado"
    BY <1>6 DEF PorAtender, SeSaluda, Idos
  <2>2. <<>> \o Saludo(s) = Saludo(s)
    <3>1. Firma(s) \in Palabra
      BY <1>1, Nombres
    <3> QED BY <3>1, LlegaSaludo DEF Saludo
  <2> QED BY <1>3, <1>4, <1>6, <2>1, <2>2 DEF PorAtender, SeSaluda, Envia
<1>7. CASE SeVa(s)
  BY <1>3, <1>4, <1>7 DEF PorAtender, SeVa
<1> QED BY <1>1, <1>2, <1>5, <1>6, <1>7
        DEF Mueve, SeConecta, NoSeConecta, OyeSaludo, PideMemoria, OyeDireccion, Lee1, Idos

LEMMA EnPedidoMueve ==
    ASSUME TypeInv, NEW s \in Sesiones, EnPedido(s), srv[s] # "cerrada",
           Mueve(s), UNCHANGED memoria
    PROVE  EnPedido(s)'
<1>1. Lado(s) # "fuera" /\ Lado(s) \in {"saludando", "lista", "esperando"} \cup Idos
  BY DEF EnPedido, Idos
<1>2. aCli[s] = <<>> => ~LegibleCli(s)
  BY NadaQueOir
<1>3. concesion'[s] = Nulo
  BY DEF EnPedido, memoria
<1>4. ASSUME MismoNombre(s)
      PROVE  Sobra(Firma(s))' = Sobra(Firma(s)) /\ Pid(s)' = Pid(s) /\ TamsDe(s)' = TamsDe(s)
  BY <1>4, MismosMensajes
<1>5. ASSUME MismoNombre(s), UNCHANGED aSrv[s] PROVE Pedida(s)' <=> Pedida(s)
  BY <1>4, <1>5 DEF Pedida
<1>6. CASE Sigue(s)
  BY <1>3, <1>4, <1>5, <1>6 DEF EnPedido, Sigue
<1>7. CASE OyeSaludo(s)
  <2>1. Lado(s) = "saludando" /\ aSrv[s] = Sobra(Firma(s)) /\ aCli[s] = MsjOk
    BY <1>7 DEF EnPedido, OyeSaludo, Idos
  <2>2. Lado(s)' = "lista" /\ aCli'[s] = <<>> /\ UNCHANGED aSrv[s] /\ MismoNombre(s)
    BY <1>7, <2>1, LlegaTodoOk DEF OyeSaludo, Lee1
  <2> QED BY <1>3, <1>4, <2>1, <2>2 DEF EnPedido
<1>8. CASE PideMemoria(s)
  <2>1. aSrv[s] = Sobra(Firma(s)) /\ aCli[s] \in {<<>>, MsjOk}
    BY <1>8 DEF EnPedido, PideMemoria, Idos
  <2>2. aCli'[s] = <<>>
    BY <1>1, <1>2, <1>8, <2>1, LlegaTodoOk DEF EnPedido, PideMemoria, Lee1, Idos
  <2>3. Pedida(s)' /\ Lado(s)' = "esperando"
    BY <1>4, <1>8, <2>1 DEF PideMemoria, Envia, Pedida
  <2> QED BY <1>3, <2>2, <2>3 DEF EnPedido
<1>9. CASE SeVa(s)
  BY <1>3, <1>4, <1>5, <1>9 DEF EnPedido, SeVa
<1>10. ~OyeDireccion(s)
  BY <1>2 DEF EnPedido, OyeDireccion, Lee1, Idos
<1> QED BY <1>1, <1>6, <1>7, <1>8, <1>9, <1>10
        DEF Mueve, SeConecta, NoSeConecta, SeSaluda, Idos

LEMMA EnSwapMueve ==
    ASSUME TypeInv, NEW s \in Sesiones, EnSwap(s), srv[s] # "cerrada",
           Mueve(s), UNCHANGED memoria
    PROVE  EnSwap(s)'
<1>1. Lado(s) \in {"lista", "esperando"} \cup Idos
  BY DEF EnSwap, Idos
<1>2. aCli[s] = <<>> => ~LegibleCli(s)
  BY NadaQueOir
<1>3. MismoNombre(s)
  BY <1>1 DEF Mueve, SeConecta, NoSeConecta, Sigue, SeSaluda, OyeSaludo, PideMemoria,
     OyeDireccion, SeVa, Idos
<1>4. /\ Pid(s)' = Pid(s) /\ TamsDe(s)' = TamsDe(s) /\ Alineada' = Alineada
      /\ fd0' = fd0 /\ pidPedido' = pidPedido /\ concesion' = concesion
  BY <1>3, MismosMensajes
<1>5. concesion'[s] = Nulo /\ Alineada' /\ pidPedido' = Pid(s)'
  BY <1>4 DEF EnSwap
<1>6. UNCHANGED aCli[s] => (Rebota(s)' <=> Rebota(s))
  BY <1>4 DEF Rebota, Entra
<1>7. CASE Sigue(s)
  BY <1>4, <1>5, <1>6, <1>7 DEF EnSwap, Sigue
<1>8. CASE PideMemoria(s)
  <2>1. Lado(s) = "lista" /\ aCli[s] = <<>> /\ Lado(s)' = "esperando" /\ aCli'[s] = <<>>
    BY <1>2, <1>8 DEF EnSwap, PideMemoria, Lee1, Idos
  <2> QED BY <1>5, <2>1 DEF EnSwap
<1>9. CASE OyeDireccion(s)
  <2>1. Rebota(s) /\ aSrv[s] = <<>> /\ fd0 = s
    BY <1>2, <1>9 DEF EnSwap, OyeDireccion, Lee1, Idos
  <2>2. aCli'[s] = <<>>
    <3>1. Pid(s) \in Palabra
      BY <1>1, Nombres DEF Idos
    <3>2. PICK n \in TamsDe(s) : aCli[s] = MsjNuevo(Pid(s), n)
      BY <2>1 DEF Rebota
    <3>3. Recibe("carpincho", MsjNuevo(Pid(s), n)).resto = <<>>
      BY <3>1, TamsEnPalabras, LlegaNuevo
    <3> QED BY <1>9, <3>2, <3>3 DEF OyeDireccion, Lee1
  <2> QED BY <1>4, <1>5, <1>9, <2>1, <2>2 DEF EnSwap, OyeDireccion
<1>10. CASE SeVa(s)
  BY <1>5, <1>10 DEF EnSwap, SeVa
<1> QED BY <1>1, <1>7, <1>8, <1>9, <1>10
        DEF Mueve, SeConecta, NoSeConecta, SeSaluda, OyeSaludo, Idos

(* The client that reads the answer of mem_alloc leaves nothing but the    *)
(* KERNEL_OK, if it is there already.                                      *)
LEMMA OyeRespuesta ==
    ASSUME TypeInv, NEW s \in Sesiones, Lado(s) # "fuera", Respuesta(s)
    PROVE  /\ EsDir(s, aCli[s]) => /\ Recibe("carpincho", aCli[s]).resto = <<>>
                                   /\ Recibe("carpincho", aCli[s]).memo = concesion[s].dir
           /\ EsDirOk(s, aCli[s]) => /\ Recibe("carpincho", aCli[s]).resto = MsjKernelOk
                                     /\ Recibe("carpincho", aCli[s]).memo = concesion[s].dir
<1>1. Pid(s) \in Palabra /\ Indef \in Palabra
  BY Nombres, Codigos
<1>2. concesion[s] # Nulo => concesion[s].dir \in Palabra
  BY <1>1 DEF Respuesta, DirPrimera, SinEspacio, Palabra
<1>3. CASE EsDir(s, aCli[s])
  <2>1. PICK pid \in {Pid(s), Indef} : aCli[s] = MsjDir(pid, concesion[s].dir)
    BY <1>3 DEF EsDir
  <2>2. concesion[s].dir \in Palabra
    BY <1>2, <1>3 DEF EsDir
  <2>3. /\ Recibe("carpincho", MsjDir(pid, concesion[s].dir)).resto = <<>>
        /\ Recibe("carpincho", MsjDir(pid, concesion[s].dir)).memo = concesion[s].dir
    BY <1>1, <2>2, LlegaDir
  <2>4. ~EsDirOk(s, aCli[s]) \/ Recibe("carpincho", aCli[s]).resto = MsjKernelOk
    <3> SUFFICES ASSUME NEW q \in {Pid(s), Indef},
                        aCli[s] = MsjDir(q, concesion[s].dir) \o MsjKernelOk
                 PROVE  Recibe("carpincho", aCli[s]).resto = MsjKernelOk
      BY DEF EsDirOk
    <3> QED BY <1>1, <2>2, LlegaDir
  <2> QED BY <2>1, <2>3, <2>4
<1>4. CASE ~EsDir(s, aCli[s]) /\ EsDirOk(s, aCli[s])
  <2>1. PICK pid \in {Pid(s), Indef} : aCli[s] = MsjDir(pid, concesion[s].dir) \o MsjKernelOk
    BY <1>4 DEF EsDirOk
  <2>2. concesion[s].dir \in Palabra
    BY <1>2, <1>4 DEF EsDirOk
  <2>3. /\ Recibe("carpincho", MsjDir(pid, concesion[s].dir) \o MsjKernelOk).resto = MsjKernelOk
        /\ Recibe("carpincho", MsjDir(pid, concesion[s].dir) \o MsjKernelOk).memo = concesion[s].dir
    BY <1>1, <2>2, LlegaDir
  <2> QED BY <1>4, <2>1, <2>3
<1> QED BY <1>3, <1>4

LEMMA EnConfirmarMueve ==
    ASSUME TypeInv, NEW s \in Sesiones, EnConfirmar(s), Respuesta(s), srv[s] # "cerrada",
           Mueve(s), UNCHANGED memoria
    PROVE  EnConfirmar(s)'
<1>1. Lado(s) \in {"lista", "esperando"} \cup Idos
  BY DEF EnConfirmar, Idos
<1>2. aCli[s] = <<>> => ~LegibleCli(s)
  BY NadaQueOir
<1>3. MismoNombre(s)
  BY <1>1 DEF Mueve, SeConecta, NoSeConecta, Sigue, SeSaluda, OyeSaludo, PideMemoria,
     OyeDireccion, SeVa, Idos
<1>4. Pid(s)' = Pid(s) /\ Alineada' = Alineada /\ concesion' = concesion
  BY <1>3, MismosMensajes
<1>5. Alineada' /\ concesion'[s] # Nulo
  BY <1>4 DEF EnConfirmar
<1>6. UNCHANGED aCli[s] => (EsDir(s, aCli[s])' <=> EsDir(s, aCli[s]))
  BY <1>4 DEF EsDir
<1>7. CASE Sigue(s)
  BY <1>5, <1>6, <1>7 DEF EnConfirmar, Sigue
<1>8. CASE PideMemoria(s)
  <2>1. Lado(s) = "lista" /\ aCli[s] = <<>> /\ Lado(s)' = "esperando" /\ aCli'[s] = <<>>
    BY <1>1, <1>8 DEF EnConfirmar, PideMemoria, Idos
  <2> QED BY <1>5, <2>1 DEF EnConfirmar
<1>9. CASE OyeDireccion(s)
  <2>1. EsDir(s, aCli[s])
    BY <1>2, <1>9 DEF EnConfirmar, OyeDireccion, Lee1, Idos
  <2>2. aCli'[s] = <<>>
    BY <1>1, <1>9, <2>1, OyeRespuesta DEF OyeDireccion, Lee1, Idos
  <2> QED BY <1>5, <1>9, <2>2 DEF EnConfirmar, OyeDireccion
<1>10. CASE SeVa(s)
  BY <1>5, <1>10 DEF EnConfirmar, SeVa
<1> QED BY <1>1, <1>7, <1>8, <1>9, <1>10
        DEF Mueve, SeConecta, NoSeConecta, SeSaluda, OyeSaludo, Idos

(* What an instance or the Kernel can take for an answer, and what is left *)
(* behind it.                                                              *)
LEMMA OyeBuzon ==
    ASSUME TypeInv, NEW s \in Sesiones, Buzon(s), Respuesta(s)
    PROVE  /\ Lado(s) = "saludando" => Recibe("carpincho", aCli[s]).resto = <<>>
           /\ Lado(s) = "esperando" =>
                /\ Recibe("carpincho", aCli[s]).resto \in {<<>>, MsjKernelOk}
                /\ \/ Recibe("carpincho", aCli[s]).memo = Indef
                   \/ \E n \in TamsDe(s) : ~Entra(n) /\ Recibe("carpincho", aCli[s]).memo = n
                   \/ /\ concesion[s] # Nulo
                      /\ Recibe("carpincho", aCli[s]).memo = concesion[s].dir
<1>1. CASE aCli[s] = <<>>
  BY <1>1, LlegaElFin
<1>2. CASE Lado(s) = "saludando" /\ aCli[s] = MsjOk
  BY <1>2, LlegaTodoOk
<1>3. CASE Lado(s) = "esperando" /\ Rebota(s)
  <2>1. Pid(s) \in Palabra
    BY <1>3, Nombres
  <2>2. PICK n \in TamsDe(s) : ~Entra(n) /\ aCli[s] = MsjNuevo(Pid(s), n)
    BY <1>3 DEF Rebota
  <2>3. /\ Recibe("carpincho", MsjNuevo(Pid(s), n)).resto = <<>>
        /\ Recibe("carpincho", MsjNuevo(Pid(s), n)).memo = n
    BY <2>1, TamsEnPalabras, LlegaNuevo
  <2> QED BY <1>3, <2>2, <2>3
<1>4. CASE Lado(s) = "esperando" /\ (EsDir(s, aCli[s]) \/ EsDirOk(s, aCli[s]))
  <2>1. concesion[s] # Nulo
    BY <1>4 DEF EsDir, EsDirOk
  <2> QED BY <1>4, <2>1, OyeRespuesta
<1>5. CASE Lado(s) \in {"esperando", "lista"} /\ aCli[s] = MsjKernelOk
  BY <1>5, LlegaKernelOk
<1> QED BY <1>1, <1>2, <1>3, <1>4, <1>5 DEF Buzon

LEMMA BuzonMueve ==
    ASSUME TypeInv, NEW s \in Sesiones, Buzon(s), Respuesta(s), Mueve(s), UNCHANGED memoria
    PROVE  Buzon(s)'
<1>1. ASSUME MismoNombre(s), UNCHANGED aCli[s]
      PROVE  /\ Rebota(s)' <=> Rebota(s)
             /\ EsDir(s, aCli[s])' <=> EsDir(s, aCli[s])
             /\ EsDirOk(s, aCli[s])' <=> EsDirOk(s, aCli[s])
  <2>1. Pid(s)' = Pid(s) /\ TamsDe(s)' = TamsDe(s) /\ concesion' = concesion
    BY <1>1, MismosMensajes
  <2> QED BY <1>1, <2>1 DEF Rebota, EsDir, EsDirOk, Entra
<1>2. CASE Sigue(s)
  BY <1>1, <1>2 DEF Buzon, Sigue
<1>3. CASE SeConecta(s) \/ NoSeConecta(s) \/ SeSaluda(s)
  <2>1. aCli[s] = <<>>
    BY <1>3 DEF Buzon, SeConecta, NoSeConecta, SeSaluda
  <2> QED BY <1>3, <2>1 DEF Buzon, SeConecta, NoSeConecta, SeSaluda
<1>4. CASE OyeSaludo(s)
  BY <1>4, OyeBuzon DEF OyeSaludo, Lee1, Buzon
<1>5. CASE PideMemoria(s)
  <2>1. Lado(s)' = "esperando"
    BY <1>5 DEF PideMemoria
  <2>2. aCli'[s] = <<>> \/ aCli'[s] = MsjKernelOk
    <3>1. CASE Lado(s) = "lista" /\ UNCHANGED aCli[s]
      BY <3>1 DEF Buzon
    <3>2. CASE Lado(s) = "saludando" /\ Lee1(s)
      BY <3>2, OyeBuzon DEF Lee1
    <3> QED BY <1>5, <3>1, <3>2 DEF PideMemoria
  <2> QED BY <2>1, <2>2 DEF Buzon
<1>6. CASE OyeDireccion(s)
  BY <1>6, OyeBuzon DEF OyeDireccion, Lee1, Buzon
<1>7. CASE SeVa(s)
  BY <1>7 DEF SeVa, Buzon
<1> QED BY <1>2, <1>3, <1>4, <1>5, <1>6, <1>7 DEF Mueve

LEMMA ExtremoMueve ==
    ASSUME TypeInv, NEW s \in Sesiones, Extremo(s), Mueve(s), UNCHANGED memoria
    PROVE  Extremo(s)'
<1>1. /\ srv[s] \in {"sin", "espera", "abierta", "cerrada"}
      /\ cli[s] \in {"sin", "abierta", "cerrada"}
      /\ concesion' = concesion
  BY DEF TypeInv, TypeOK, CanalesTypeOK, memoria
<1>2. CASE Sigue(s)
  BY <1>1, <1>2 DEF Sigue, MismosExtremos, Extremo
<1>3. CASE SeConecta(s)
  BY <1>1, <1>3 DEF SeConecta, Extremo, Idos
<1>4. CASE NoSeConecta(s)
  BY <1>1, <1>4 DEF NoSeConecta, MismosExtremos, Extremo, Idos
<1>5. CASE SeSaluda(s) \/ OyeSaludo(s) \/ PideMemoria(s) \/ OyeDireccion(s)
  BY <1>1, <1>5 DEF SeSaluda, OyeSaludo, PideMemoria, OyeDireccion, MismosExtremos, Extremo, Idos
<1>6. CASE SeVa(s)
  BY <1>1, <1>6 DEF SeVa, Extremo, Idos
<1> QED BY <1>2, <1>3, <1>4, <1>5, <1>6 DEF Mueve

LEMMA RespuestaMueve ==
    ASSUME NEW s \in Sesiones, Extremo(s), Respuesta(s), Mueve(s), UNCHANGED memoria
    PROVE  Respuesta(s)'
<1>1. concesion' = concesion
  BY DEF memoria
<1>2. CASE Lado(s) = "fuera"
  BY <1>1, <1>2 DEF Extremo, Respuesta
<1>3. CASE Lado(s) # "fuera"
  <2>1. Pid(s)' = Pid(s)
    BY <1>3 DEF Mueve, SeConecta, NoSeConecta, Sigue, SeSaluda, OyeSaludo, PideMemoria,
       OyeDireccion, SeVa, MismoNombre
  <2> QED BY <1>1, <2>1 DEF Respuesta
<1> QED BY <1>2, <1>3

LEMMA SesionMueve ==
    ASSUME TypeInv, ConexInv, NEW s \in Sesiones, Sesion(s), Mueve(s), UNCHANGED memoria
    PROVE  Sesion(s)'
<1>1. Buzon(s) /\ Extremo(s) /\ Respuesta(s) /\ Punto(s)
  BY DEF Sesion
<1>2. Buzon(s)' /\ Extremo(s)' /\ Respuesta(s)'
  BY <1>1, BuzonMueve, ExtremoMueve, RespuestaMueve
<1>3. pc' = pc /\ actual' = actual
  BY DEF memoria
<1>4. srv'[s] = "espera" => PorAtender(s)'
  <2>1. CASE SeConecta(s)
    <3>1. concesion'[s] = Nulo /\ aSrv[s] = <<>> /\ aCli[s] = <<>>
      BY <1>1, <2>1 DEF Buzon, Extremo, SeConecta, memoria
    <3> QED BY <2>1, <3>1 DEF SeConecta, PorAtender
  <2>2. CASE ~SeConecta(s)
    <3>1. srv'[s] = srv[s]
      BY <2>2 DEF Mueve, Sigue, NoSeConecta, SeSaluda, OyeSaludo, PideMemoria, OyeDireccion,
         SeVa, MismosExtremos
    <3> QED BY <1>1, <3>1, PorAtenderMueve DEF Punto
  <2> QED BY <2>1, <2>2
<1>5. ASSUME s = actual, pc \in {"saludo", "pedido", "swap", "confirmar"}
      PROVE  srv[s] # "cerrada"
  BY <1>5 DEF ConexInv, DescriptorCero, Atendiendo
<1>6. s = actual => /\ pc = "saludo" => PorAtender(s)'
                    /\ pc = "pedido" => EnPedido(s)'
                    /\ pc = "swap" => EnSwap(s)'
                    /\ pc = "confirmar" => EnConfirmar(s)'
  BY <1>1, <1>5, PorAtenderMueve, EnPedidoMueve, EnSwapMueve, EnConfirmarMueve DEF Punto
<1> QED BY <1>2, <1>3, <1>4, <1>6 DEF Sesion, Punto

-----------------------------------------------------------------------------
(* The steps of Memoria                                                    *)

LEMMA MismoCliente ==
    ASSUME UNCHANGED <<matelib, kernel>>, NEW s
    PROVE  /\ Lado(s)' = Lado(s) /\ Pid(s)' = Pid(s) /\ Firma(s)' = Firma(s)
           /\ Saludo(s)' = Saludo(s) /\ TamsDe(s)' = TamsDe(s)
BY DEF matelib, kernel, Lado, LadoKernel, Pid, Firma, Saludo, TamsDe

LEMMA BuzonIgual ==
    ASSUME UNCHANGED <<matelib, kernel>>, NEW s, UNCHANGED <<aCli[s], concesion[s]>>
    PROVE  Buzon(s)' <=> Buzon(s)
BY MismoCliente DEF Buzon, Rebota, EsDir, EsDirOk, Entra

(* A session the server thread is not serving after the step.              *)
LEMMA SesionSinServir ==
    ASSUME UNCHANGED <<matelib, kernel>>, NEW s \in Sesiones, Sesion(s), Buzon(s)',
           UNCHANGED <<cli[s], concesion[s]>>,
           \/ srv'[s] = "cerrada"
           \/ srv'[s] = srv[s] /\ srv[s] = "abierta"
           \/ UNCHANGED <<srv[s], aSrv[s], aCli[s]>>,
           s # actual' \/ pc' \in {"aceptar", "fin"}
    PROVE  Sesion(s)'
<1>1. Lado(s)' = Lado(s) /\ Pid(s)' = Pid(s) /\ Saludo(s)' = Saludo(s)
  BY MismoCliente
<1>2. Respuesta(s)'
  BY <1>1 DEF Sesion, Respuesta
<1>3. Extremo(s)'
  BY <1>1 DEF Sesion, Extremo
<1>4. srv'[s] = "espera" => PorAtender(s)'
  BY <1>1 DEF Sesion, Punto, PorAtender
<1> QED BY <1>2, <1>3, <1>4 DEF Sesion, Punto

(* The session being served: its end is open, and the client's end is too  *)
(* unless the client has gone.                                             *)
LEMMA Servida ==
    ASSUME TypeInv, ConexInv, InvMensajes, Atendiendo, NEW s, s = actual
    PROVE  /\ s \in Sesiones /\ Sesion(s) /\ srv[s] = "abierta"
           /\ fd0 = IF k = 0 THEN Stdin ELSE s
           /\ Lado(s) \in Idos => cli[s] = "cerrada"
           /\ Lado(s) \in {"conectado", "saludando", "lista", "esperando"} => cli[s] = "abierta"
<1>1. s \in Sesiones /\ srv[s] = "abierta" /\ fd0 = IF k = 0 THEN Stdin ELSE s
  BY DEF TypeInv, SesionActual, ConexInv, DescriptorCero
<1>2. Sesion(s)
  BY <1>1 DEF InvMensajes
<1>3. cli[s] \in {"sin", "abierta", "cerrada"}
  BY <1>1 DEF TypeInv, TypeOK, CanalesTypeOK
<1> QED BY <1>1, <1>2, <1>3 DEF Sesion, Extremo

LEMMA Entrega ==
    ASSUME TypeInv, NEW s \in Sesiones, NEW ws, aCli' = HaciaCli(s, ws)
    PROVE  /\ aCli'[s] = IF cli[s] = "cerrada" THEN aCli[s] ELSE aCli[s] \o ws
           /\ \A t \in Sesiones \ {s} : aCli'[t] = aCli[t]
BY DEF HaciaCli, TypeInv, TypeOK, CanalesTypeOK

LEMMA MensajesTermina ==
    ASSUME InvMensajes, Termina, UNCHANGED <<matelib, kernel>>
    PROVE  InvMensajes'
<1> SUFFICES ASSUME NEW s \in Sesiones PROVE Sesion(s)'
  BY DEF InvMensajes
<1>1. /\ srv'[s] = "cerrada" /\ UNCHANGED <<aCli[s], cli[s], concesion[s]>> /\ pc' = "fin"
  BY DEF Termina, CaenConexiones
<1>2. Sesion(s) /\ Buzon(s)
  BY DEF InvMensajes, Sesion
<1>3. Buzon(s)'
  BY <1>1, <1>2, BuzonIgual
<1> QED BY <1>1, <1>2, <1>3, SesionSinServir

LEMMA MensajesAcepta ==
    ASSUME TypeInv, ConexInv, InvMensajes, Acepta, UNCHANGED <<matelib, kernel>>
    PROVE  InvMensajes'
<1>1. PICK a : a = Head(cola)
  OBVIOUS
<1>2. cola \in Seq(Sesiones) /\ cola # <<>> /\ srv \in [Sesiones -> {"sin", "espera", "abierta", "cerrada"}]
  BY DEF Acepta, TypeInv, TypeOK, CanalesTypeOK
<1>3. a \in Sesiones /\ srv[a] = "espera"
  <2>1. a \in Sesiones /\ a = cola[1] /\ 1 \in 1 .. Len(cola)
    BY <1>1, <1>2, HeadTailProperties, EmptySeq, LenProperties
  <2> QED BY <2>1 DEF ConexInv, ColaEnEspera
<1>4. /\ actual' = a /\ pc' = "saludo" /\ srv' = [srv EXCEPT ![a] = "abierta"]
      /\ UNCHANGED <<aSrv, aCli, cli, concesion>>
  BY <1>1 DEF Acepta
<1>5. ASSUME NEW s \in Sesiones, s # a PROVE Sesion(s)'
  <2>1. UNCHANGED <<srv[s], aSrv[s], aCli[s], cli[s], concesion[s]>> /\ s # actual'
    BY <1>2, <1>4, <1>5
  <2>2. Sesion(s) /\ Buzon(s)'
    BY <2>1, BuzonIgual DEF InvMensajes, Sesion
  <2> QED BY <2>1, <2>2, SesionSinServir
<1>6. Sesion(a)'
  <2>1. Sesion(a) /\ Lado(a)' = Lado(a) /\ Pid(a)' = Pid(a) /\ Saludo(a)' = Saludo(a)
    BY <1>3, MismoCliente DEF InvMensajes
  <2>2. Buzon(a)'
    BY <1>4, <2>1, BuzonIgual DEF Sesion
  <2>3. srv'[a] = "abierta" /\ aSrv'[a] = aSrv[a] /\ aCli'[a] = aCli[a] /\ cli'[a] = cli[a]
        /\ concesion'[a] = concesion[a]
    BY <1>2, <1>3, <1>4
  <2>4. PorAtender(a)'
    BY <1>3, <2>1, <2>3 DEF Sesion, Punto, PorAtender
  <2>5. Extremo(a)' /\ Respuesta(a)'
    BY <1>3, <2>1, <2>3 DEF Sesion, Extremo, Respuesta
  <2> QED BY <1>4, <2>2, <2>3, <2>4, <2>5 DEF Sesion, Punto
<1> QED BY <1>5, <1>6 DEF InvMensajes

LEMMA SesionAjena ==
    ASSUME InvMensajes, UNCHANGED <<matelib, kernel>>, NEW s \in Sesiones, s # actual',
           UNCHANGED <<srv[s], aSrv[s], aCli[s], cli[s], concesion[s]>>
    PROVE  Sesion(s)'
<1>1. Sesion(s) /\ Buzon(s)'
  BY BuzonIgual DEF InvMensajes, Sesion
<1> QED BY <1>1, SesionSinServir

(* The greeting in the connection is the client's, whichever reader takes  *)
(* it; a server thread that cannot read it has lost its client.            *)
LEMMA LeePorAtender ==
    ASSUME TypeInv, NEW s \in Sesiones, PorAtender(s)
    PROVE  \/ /\ Lado(s) \in {"saludando"} \cup Idos
              /\ Recibe(FormatoSaludo(k), aSrv[s]).cod \in {KERNEL, MATELIB}
              /\ Recibe(FormatoSaludo(k), aSrv[s]).resto = Sobra(Firma(s))
           \/ /\ Recibe(FormatoSaludo(k), aSrv[s]).cod = ERROR
              /\ ~Completo(FormatoSaludo(k), aSrv[s])
<1>1. CASE aSrv[s] = <<>>
  BY <1>1, LlegaElFin
<1>2. CASE aSrv[s] # <<>>
  <2>1. Lado(s) \in {"saludando"} \cup Idos /\ aSrv[s] = Saludo(s)
    BY <1>2 DEF PorAtender
  <2>2. Firma(s) \in Palabra
    BY <2>1, Nombres DEF Idos
  <2>3. /\ Recibe(FormatoSaludo(k), Saludo(s)).cod \in {KERNEL, MATELIB}
        /\ Recibe(FormatoSaludo(k), Saludo(s)).resto = Sobra(Firma(s))
    BY <2>2, LlegaSaludo DEF Saludo
  <2> QED BY <2>1, <2>3
<1> QED BY <1>1, <1>2

LEMMA MensajesSaludo ==
    ASSUME TypeInv, ConexInv, InvMensajes, LeeSaludo, UNCHANGED <<matelib, kernel>>
    PROVE  InvMensajes'
<1>1. PICK s : s = actual
  OBVIOUS
<1>2. /\ s \in Sesiones /\ Sesion(s) /\ srv[s] = "abierta"
      /\ Lado(s) \in Idos => cli[s] = "cerrada"
      /\ Lado(s) \in {"conectado", "saludando", "lista", "esperando"} => cli[s] = "abierta"
  BY <1>1, Servida DEF LeeSaludo, Atendiendo
<1>3. aSrv \in [Sesiones -> Seq(Palabra)]
  BY DEF TypeInv, TypeOK, CanalesTypeOK
<1>4. PICK p : p = Recibe(FormatoSaludo(k), aSrv[s])
  OBVIOUS
<1>5. /\ pc = "saludo" /\ pc' = "pedido" /\ actual' = actual /\ k' = k
      /\ UNCHANGED <<cli, srv, concesion>>
      /\ p.cod \in {KERNEL, MATELIB} /\ aSrv' = [aSrv EXCEPT ![s] = p.resto]
      /\ aCli' = HaciaCli(s, MsjOk)
  BY <1>1, <1>4 DEF LeeSaludo, MsjOk
<1>6. /\ aCli'[s] = IF cli[s] = "cerrada" THEN aCli[s] ELSE aCli[s] \o MsjOk
      /\ \A t \in Sesiones \ {s} : aCli'[t] = aCli[t]
  BY <1>2, <1>5, Entrega
<1>7. ASSUME NEW t \in Sesiones, t # s PROVE Sesion(t)'
  BY <1>1, <1>3, <1>5, <1>6, <1>7, SesionAjena
<1>8. Sesion(s)'
  <2>1. PorAtender(s)
    BY <1>1, <1>2, <1>5 DEF Sesion, Punto
  <2>2. Lado(s) \in {"saludando"} \cup Idos /\ p.resto = Sobra(Firma(s))
    BY <1>2, <1>4, <1>5, <2>1, LeePorAtender, Codigos
  <2>3. Lado(s)' = Lado(s) /\ Pid(s)' = Pid(s) /\ Sobra(Firma(s))' = Sobra(Firma(s))
    BY <1>5, MismoCliente DEF Sobra, Alineada
  <2>4. /\ concesion[s] = Nulo /\ concesion' = concesion /\ aCli[s] = <<>>
        /\ aSrv'[s] = Sobra(Firma(s))
        /\ aCli'[s] = IF Lado(s) \in Idos THEN <<>> ELSE MsjOk
    BY <1>2, <1>3, <1>5, <1>6, <2>1, <2>2, LlegaTodoOk DEF PorAtender, Idos
  <2>5. EnPedido(s)' /\ Buzon(s)'
    BY <2>2, <2>3, <2>4 DEF EnPedido, Buzon, Idos
  <2>6. Extremo(s)' /\ Respuesta(s)'
    BY <1>2, <1>5, <2>3, <2>4 DEF Sesion, Extremo, Respuesta
  <2> QED BY <1>1, <1>2, <1>5, <2>5, <2>6 DEF Sesion, Punto
<1> QED BY <1>7, <1>8 DEF InvMensajes

(* What the server thread reads as a request: an aligned request of the    *)
(* client's, or an ERROR.                                                  *)
LEMMA LeeEnPedido ==
    ASSUME TypeInv, NEW s \in Sesiones, EnPedido(s),
           NEW p, p = Recibe("carpincho", aSrv[s])
    PROVE  \/ p.cod = ERROR
           \/ /\ p.cod = ALOCAR_EN_MEMORIA
              /\ Alineada /\ Lado(s) \in {"esperando"} \cup Idos /\ aCli[s] = <<>>
              /\ p.pid = Pid(s) /\ p.memo \in TamsDe(s) /\ p.resto = <<>>
<1>1. Pid(s) \in Palabra /\ Firma(s) \in Palabra
  BY Nombres DEF EnPedido, Idos
<1>2. \A n \in TamsDe(s) : n \in Palabra
  BY TamsEnPalabras
<1>3. CASE Alineada
  <2>1. Sobra(Firma(s)) = <<>>
    BY <1>3 DEF Sobra
  <2>2. CASE aSrv[s] = <<>>
    BY <2>2, LlegaElFin
  <2>3. CASE aSrv[s] # <<>>
    <3>1. Lado(s) \in {"esperando"} \cup Idos /\ aCli[s] = <<>> /\ Pedida(s)
      BY <2>1, <2>3 DEF EnPedido
    <3>2. PICK n \in TamsDe(s) : aSrv[s] = <<>> \o MsjPedido(Pid(s), n)
      BY <2>1, <3>1 DEF Pedida
    <3>3. /\ <<>> \o MsjPedido(Pid(s), n) = MsjPedido(Pid(s), n)
          /\ Recibe("carpincho", MsjPedido(Pid(s), n)).cod = ALOCAR_EN_MEMORIA
          /\ Recibe("carpincho", MsjPedido(Pid(s), n)).pid = Pid(s)
          /\ Recibe("carpincho", MsjPedido(Pid(s), n)).memo = n
          /\ Recibe("carpincho", MsjPedido(Pid(s), n)).resto = <<>>
      BY <1>1, <1>2, LlegaPedido
    <3> QED BY <1>3, <3>1, <3>2, <3>3
  <2> QED BY <2>2, <2>3
<1>4. CASE ~Alineada
  <2>1. Sobra(Firma(s)) = <<Firma(s), 0>>
    BY <1>4 DEF Sobra
  <2>2. CASE aSrv[s] = <<Firma(s), 0>>
    <3>1. <<>> \in Seq(Palabra)
      BY EmptySeq
    <3>2. Recibe("carpincho", <<Firma(s), 0>>).cod = ERROR
      BY <1>1, <3>1, LlegaDesalineado
    <3> QED BY <2>2, <3>2
  <2>3. CASE aSrv[s] # <<Firma(s), 0>>
    <3>1. PICK n \in TamsDe(s) : aSrv[s] = <<Firma(s), 0>> \o MsjPedido(Pid(s), n)
      BY <2>1, <2>3 DEF EnPedido, Pedida
    <3>2. MsjPedido(Pid(s), n) \in Seq(Palabra)
      BY <1>1, <1>2, LlegaPedido
    <3>3. Recibe("carpincho", <<Firma(s), 0>> \o MsjPedido(Pid(s), n)).cod = ERROR
      BY <1>1, <3>2, LlegaDesalineado
    <3> QED BY <3>1, <3>3
  <2> QED BY <2>2, <2>3
<1> QED BY <1>3, <1>4

(* The answer of mem_alloc leaves for the client that waits for it.        *)
LEMMA MensajesResponde ==
    ASSUME TypeInv, ConexInv, InvMensajes, Atendiendo, UNCHANGED <<matelib, kernel>>,
           NEW s, s = actual, Alineada, Lado(s) \in {"esperando"} \cup Idos, aCli[s] = <<>>,
           NEW q \in {Pid(s), Indef}, NEW d \in {Indef, DirPrimera, SinEspacio},
           aCli' = HaciaCli(s, MsjDir(q, d)), Otorga(s, Pid(s), d), pc' = "confirmar",
           UNCHANGED <<k, actual, cli, srv>>,
           \A t \in Sesiones \ {s} : aSrv'[t] = aSrv[t]
    PROVE  InvMensajes'
<1>1. /\ s \in Sesiones /\ Sesion(s) /\ srv[s] = "abierta"
      /\ Lado(s) \in Idos => cli[s] = "cerrada"
      /\ Lado(s) = "esperando" => cli[s] = "abierta"
  BY Servida
<1>2. Pid(s) \in Palabra /\ Indef \in Palabra /\ d \in Palabra
  BY <1>1, Nombres, Codigos DEF Idos, Palabra, DirPrimera, SinEspacio
<1>3. /\ concesion'[s] # Nulo /\ concesion'[s].pid = Pid(s) /\ concesion'[s].dir = d
      /\ \A t \in Sesiones \ {s} : concesion'[t] = concesion[t]
  BY <1>1, <1>2, RespuestaNueva DEF TypeInv
<1>4. /\ aCli'[s] = IF cli[s] = "cerrada" THEN <<>> ELSE MsjDir(q, d)
      /\ \A t \in Sesiones \ {s} : aCli'[t] = aCli[t]
  <2>1. /\ aCli'[s] = IF cli[s] = "cerrada" THEN <<>> ELSE <<>> \o MsjDir(q, d)
        /\ \A t \in Sesiones \ {s} : aCli'[t] = aCli[t]
    BY <1>1, Entrega
  <2>2. <<>> \o MsjDir(q, d) = MsjDir(q, d)
    BY <1>2, LlegaDir
  <2> QED BY <2>1, <2>2
<1>5. ASSUME NEW t \in Sesiones, t # s PROVE Sesion(t)'
  BY <1>3, <1>4, <1>5, SesionAjena
<1>6. Sesion(s)'
  <2>1. Lado(s)' = Lado(s) /\ Pid(s)' = Pid(s) /\ Alineada'
    BY MismoCliente DEF Alineada
  <2>2. Lado(s) = "esperando" => EsDir(s, aCli[s])'
    BY <1>1, <1>3, <1>4, <2>1 DEF EsDir
  <2>3. Lado(s) \in Idos => aCli'[s] = <<>>
    BY <1>1, <1>4
  <2>4. EnConfirmar(s)' /\ Buzon(s)'
    BY <1>3, <2>1, <2>2, <2>3 DEF EnConfirmar, Buzon
  <2>5. Extremo(s)' /\ Respuesta(s)'
    BY <1>1, <1>3, <2>1 DEF Sesion, Extremo, Respuesta, Idos
  <2> QED BY <1>1, <2>4, <2>5 DEF Sesion, Punto
<1> QED BY <1>5, <1>6 DEF InvMensajes

LEMMA MensajesAlocar ==
    ASSUME TypeInv, ConexInv, InvMensajes, LeePedidoAlocar, UNCHANGED <<matelib, kernel>>
    PROVE  InvMensajes'
<1>1. PICK s : s = actual
  OBVIOUS
<1>2. PICK p : p = Recibe("carpincho", aSrv[s])
  OBVIOUS
<1>3. /\ Atendiendo /\ pc = "pedido" /\ p.cod = ALOCAR_EN_MEMORIA
      /\ aSrv' = [aSrv EXCEPT ![s] = p.resto]
      /\ UNCHANGED <<k, actual, fd0, cli, srv>>
  BY <1>1, <1>2 DEF LeePedidoAlocar, Atendiendo
<1>4. AllocConocido(p.pid, p.memo) \/ AllocNuevo(p.pid, p.memo) \/ AllocSinEspacio(p.pid, p.memo)
  BY <1>1, <1>2 DEF LeePedidoAlocar
<1>5. /\ s \in Sesiones /\ Sesion(s) /\ srv[s] = "abierta"
      /\ fd0 = IF k = 0 THEN Stdin ELSE s
      /\ Lado(s) \in Idos => cli[s] = "cerrada"
      /\ Lado(s) = "esperando" => cli[s] = "abierta"
  BY <1>1, <1>3, Servida
<1>6. EnPedido(s)
  BY <1>1, <1>3, <1>5 DEF Sesion, Punto
<1>7. /\ Alineada /\ Lado(s) \in {"esperando"} \cup Idos /\ aCli[s] = <<>>
      /\ p.pid = Pid(s) /\ p.memo \in TamsDe(s) /\ p.resto = <<>>
  BY <1>2, <1>3, <1>5, <1>6, LeeEnPedido, Codigos
<1>8. /\ aSrv'[s] = <<>>
      /\ \A t \in Sesiones \ {s} : aSrv'[t] = aSrv[t]
  BY <1>3, <1>5, <1>7 DEF TypeInv, TypeOK, CanalesTypeOK
<1>9. CASE AllocConocido(p.pid, p.memo)
  <2>1. /\ aCli' = HaciaCli(s, MsjDir(Pid(s), Indef)) /\ Otorga(s, Pid(s), Indef)
        /\ pc' = "confirmar"
    BY <1>1, <1>7, <1>9 DEF AllocConocido, RespondeAlloc, MsjDir
  <2> QED BY <1>1, <1>3, <1>7, <1>8, <2>1, MensajesResponde
<1>10. CASE AllocNuevo(p.pid, p.memo)
  <2>1. PICK d \in {Indef, DirPrimera} : d = PrimerAjuste
    BY DEF PrimerAjuste
  <2>2. /\ aCli' = HaciaCli(s, MsjDir(Pid(s), d)) /\ Otorga(s, Pid(s), d) /\ pc' = "confirmar"
    BY <1>1, <1>7, <1>10, <2>1 DEF AllocNuevo, RespondeAlloc, MsjDir
  <2> QED BY <1>1, <1>3, <1>7, <1>8, <2>1, <2>2, MensajesResponde
<1>11. CASE AllocSinEspacio(p.pid, p.memo)
  <2>1. /\ ~Entra(p.memo) /\ pidPedido' = Pid(s) /\ pc' = "swap" /\ UNCHANGED concesion
        /\ aCli' = IF fd0 \in Sesiones THEN HaciaCli(fd0, MsjNuevo(Pid(s), p.memo)) ELSE aCli
    BY <1>7, <1>11 DEF AllocSinEspacio, MsjNuevo
  <2>2. /\ Lado(s)' = Lado(s) /\ Pid(s)' = Pid(s) /\ TamsDe(s)' = TamsDe(s)
        /\ Alineada' /\ concesion'[s] = Nulo
    BY <1>3, <1>6, <1>7, <2>1, MismoCliente DEF Alineada, EnPedido
  <2>3. Extremo(s)' /\ Respuesta(s)'
    BY <1>3, <1>5, <1>7, <2>2 DEF Sesion, Extremo, Respuesta, Idos
  <2>4. CASE k = 0
    <3>1. aCli' = aCli
      BY <1>5, <2>1, <2>4, DescriptoresDistintos
    <3>2. ASSUME NEW t \in Sesiones, t # s PROVE Sesion(t)'
      BY <1>1, <1>3, <1>8, <2>1, <3>1, <3>2, SesionAjena
    <3>3. EnSwap(s)' /\ Buzon(s)'
      BY <1>7, <2>1, <2>2, <3>1 DEF EnSwap, Buzon
    <3>4. Sesion(s)'
      BY <1>3, <1>5, <2>1, <2>3, <3>3 DEF Sesion, Punto
    <3> QED BY <3>2, <3>4 DEF InvMensajes
  <2>5. CASE k # 0
    <3>1. fd0 = s /\ fd0' = s
      BY <1>3, <1>5, <2>5
    <3>2. Pid(s) \in Palabra /\ p.memo \in Palabra
      BY <1>5, <1>7, Nombres, TamsEnPalabras DEF Idos
    <3>3. /\ aCli'[s] = IF cli[s] = "cerrada" THEN <<>> ELSE MsjNuevo(Pid(s), p.memo)
          /\ \A t \in Sesiones \ {s} : aCli'[t] = aCli[t]
      <4>1. aCli' = HaciaCli(s, MsjNuevo(Pid(s), p.memo))
        BY <1>5, <2>1, <3>1
      <4>2. <<>> \o MsjNuevo(Pid(s), p.memo) = MsjNuevo(Pid(s), p.memo)
        BY <3>2, LlegaNuevo
      <4> QED BY <1>5, <1>7, <4>1, <4>2, Entrega
    <3>4. ASSUME NEW t \in Sesiones, t # s PROVE Sesion(t)'
      BY <1>1, <1>3, <1>8, <2>1, <3>3, <3>4, SesionAjena
    <3>5. Lado(s) = "esperando" => Rebota(s)'
      <4> SUFFICES ASSUME Lado(s) = "esperando" PROVE Rebota(s)'
        OBVIOUS
      <4>1. aCli'[s] = MsjNuevo(Pid(s), p.memo)'
        BY <1>5, <2>2, <3>3 DEF MsjNuevo
      <4> QED BY <1>5, <1>7, <2>1, <2>2, <3>3 DEF Rebota, Entra
    <3>6. Lado(s) \in Idos => aCli'[s] = <<>>
      BY <1>5, <3>3
    <3>7. EnSwap(s)' /\ Buzon(s)'
      BY <1>7, <1>8, <2>1, <2>2, <3>1, <3>5, <3>6 DEF EnSwap, Buzon
    <3>8. Sesion(s)'
      BY <1>3, <1>5, <2>1, <2>3, <3>7 DEF Sesion, Punto
    <3> QED BY <3>4, <3>8 DEF InvMensajes
  <2> QED BY <2>4, <2>5
<1> QED BY <1>4, <1>9, <1>10, <1>11

LEMMA MensajesSwap ==
    ASSUME TypeInv, ConexInv, InvMensajes, EsperaSwap, UNCHANGED <<matelib, kernel>>
    PROVE  InvMensajes'
<1>1. PICK s : s = actual
  OBVIOUS
<1>2. /\ Atendiendo /\ pc = "swap" /\ pc' = "confirmar"
      /\ UNCHANGED <<k, actual, cli, srv>>
      /\ Otorga(s, pidPedido, SinEspacio) /\ aCli' = HaciaCli(s, MsjDir(Indef, SinEspacio))
      /\ fd0 \in Sesiones => LegibleSrv("carpincho", fd0)
  BY <1>1 DEF EsperaSwap, Atendiendo, RespondeAlloc, MsjDir
<1>3. /\ s \in Sesiones /\ Sesion(s)
      /\ fd0 = IF k = 0 THEN Stdin ELSE s
      /\ Lado(s) \in {"conectado", "saludando", "lista", "esperando"} => cli[s] = "abierta"
  BY <1>1, <1>2, Servida
<1>4. EnSwap(s)
  BY <1>1, <1>2, <1>3 DEF Sesion, Punto
<1>5. Lado(s) \in {"esperando"} \cup Idos /\ aCli[s] = <<>>
  <2>1. fd0 = s => ~(aSrv[s] = <<>> /\ cli[s] = "abierta")
    BY <1>2, <1>3, LlegaElFin DEF LegibleSrv, Legible
  <2> QED BY <1>3, <1>4, <2>1 DEF EnSwap
<1>6. \A t \in Sesiones \ {s} : aSrv'[t] = aSrv[t]
  BY <1>3, DescriptoresDistintos DEF EsperaSwap, TypeInv, TypeOK, CanalesTypeOK
<1>7. Alineada /\ pidPedido = Pid(s)
  BY <1>4 DEF EnSwap
<1> QED BY <1>1, <1>2, <1>5, <1>6, <1>7, MensajesResponde

(* Back to accept(), with the session just served closed or left open.     *)
LEMMA MensajesVuelve ==
    ASSUME TypeInv, ConexInv, InvMensajes, Atendiendo, UNCHANGED <<matelib, kernel>>,
           NEW s, s = actual, NEW r \in [Sesiones -> Seq(Palabra)], VuelveAAceptar(r),
           \A t \in Sesiones \ {s} : r[t] = aSrv[t] /\ aCli'[t] = aCli[t],
           Buzon(s)'
    PROVE  InvMensajes'
<1>1. /\ s \in Sesiones /\ Sesion(s) /\ srv[s] = "abierta"
      /\ fd0 = IF k = 0 THEN Stdin ELSE s
  BY Servida
<1>2. /\ srv' = IF k = 0 THEN srv ELSE [srv EXCEPT ![s] = "cerrada"]
      /\ actual' = actual /\ pc' = "aceptar" /\ UNCHANGED <<cli, concesion>>
  BY CierraLaActual DEF TypeInv, VuelveAAceptar
<1>3. \A t \in Sesiones \ {s} : aSrv'[t] = aSrv[t]
  BY <1>1, DescriptoresDistintos DEF VuelveAAceptar, CierraFd0
<1>4. srv \in [Sesiones -> {"sin", "espera", "abierta", "cerrada"}]
  BY DEF TypeInv, TypeOK, CanalesTypeOK
<1>5. ASSUME NEW t \in Sesiones, t # s PROVE Sesion(t)'
  BY <1>1, <1>2, <1>3, <1>4, <1>5, SesionAjena
<1>6. Sesion(s)'
  <2>1. srv'[s] = "cerrada" \/ (srv'[s] = srv[s] /\ srv[s] = "abierta")
    BY <1>1, <1>2, <1>4
  <2> QED BY <1>1, <1>2, <2>1, SesionSinServir
<1> QED BY <1>5, <1>6 DEF InvMensajes

(* A request that is not ALOCAR_EN_MEMORIA is one the server could not     *)
(* read: it answers nothing.                                               *)
LEMMA MensajesOtro ==
    ASSUME TypeInv, ConexInv, InvMensajes, LeePedidoOtro, UNCHANGED <<matelib, kernel>>
    PROVE  InvMensajes'
<1>1. PICK s : s = actual
  OBVIOUS
<1>2. PICK p : p = Recibe("carpincho", aSrv[s])
  OBVIOUS
<1>3. /\ Atendiendo /\ pc = "pedido" /\ p.cod # ALOCAR_EN_MEMORIA
      /\ p.cod \notin SoloConfirma => aCli' = aCli
      /\ VuelveAAceptar([aSrv EXCEPT ![s] = p.resto])
  BY <1>1, <1>2 DEF LeePedidoOtro, Atendiendo
<1>4. s \in Sesiones /\ Sesion(s)
  BY <1>1, <1>3, Servida
<1>5. EnPedido(s)
  BY <1>1, <1>3, <1>4 DEF Sesion, Punto
<1>6. aCli' = aCli
  BY <1>2, <1>3, <1>4, <1>5, LeeEnPedido, Codigos
<1>7. PICK r : r = [aSrv EXCEPT ![s] = p.resto]
  OBVIOUS
<1>8. r \in [Sesiones -> Seq(Palabra)] /\ \A t \in Sesiones \ {s} : r[t] = aSrv[t]
  <2>1. p \in Paquete
    BY <1>2, <1>4, RecibeSrvTipo DEF TypeInv, TypeOK, Formatos
  <2> QED BY <1>4, <1>7, <2>1 DEF Paquete, TypeInv, TypeOK, CanalesTypeOK
<1>9. Buzon(s)'
  <2>1. concesion' = concesion
    BY <1>3 DEF VuelveAAceptar
  <2> QED BY <1>4, <1>6, <2>1, BuzonIgual DEF Sesion
<1> QED BY <1>1, <1>3, <1>6, <1>7, <1>8, <1>9, MensajesVuelve

LEMMA MensajesConfirma ==
    ASSUME TypeInv, ConexInv, InvMensajes, Confirma, UNCHANGED <<matelib, kernel>>
    PROVE  InvMensajes'
<1>1. PICK s : s = actual
  OBVIOUS
<1>2. /\ Atendiendo /\ pc = "confirmar" /\ VuelveAAceptar(aSrv)
      /\ aCli' = HaciaCli(s, MsjKernelOk)
  BY <1>1 DEF Confirma, Atendiendo, MsjKernelOk
<1>3. /\ s \in Sesiones /\ Sesion(s)
      /\ Lado(s) \in Idos => cli[s] = "cerrada"
      /\ Lado(s) \in {"lista", "esperando"} => cli[s] = "abierta"
  BY <1>1, <1>2, Servida
<1>4. EnConfirmar(s)
  BY <1>1, <1>2, <1>3 DEF Sesion, Punto
<1>5. /\ aCli'[s] = IF cli[s] = "cerrada" THEN aCli[s] ELSE aCli[s] \o MsjKernelOk
      /\ \A t \in Sesiones \ {s} : aCli'[t] = aCli[t]
  BY <1>2, <1>3, Entrega
<1>6. Lado(s)' = Lado(s) /\ Pid(s)' = Pid(s) /\ concesion' = concesion
  BY <1>2, MismoCliente DEF VuelveAAceptar
<1>7. Buzon(s)'
  <2>1. CASE Lado(s) = "esperando" /\ EsDir(s, aCli[s])
    <3>1. aCli'[s] = aCli[s] \o MsjKernelOk
      BY <1>3, <1>5, <2>1
    <3>2. EsDirOk(s, aCli[s])'
      BY <1>6, <2>1, <3>1 DEF EsDir, EsDirOk
    <3> QED BY <1>6, <2>1, <3>2 DEF Buzon
  <2>2. CASE Lado(s) \in {"esperando", "lista"} /\ aCli[s] = <<>>
    <3>1. aCli'[s] = MsjKernelOk
      BY <1>3, <1>5, <2>2, LlegaKernelOk
    <3> QED BY <1>6, <2>2, <3>1 DEF Buzon
  <2>3. CASE Lado(s) \in Idos /\ aCli[s] = <<>>
    BY <1>3, <1>5, <2>3 DEF Buzon
  <2> QED BY <1>4, <2>1, <2>2, <2>3 DEF EnConfirmar
<1>8. aSrv \in [Sesiones -> Seq(Palabra)]
  BY DEF TypeInv, TypeOK, CanalesTypeOK
<1> QED BY <1>1, <1>2, <1>5, <1>7, <1>8, MensajesVuelve

LEMMA MensajesPaso == TypeInv /\ ConexInv /\ InvMensajes /\ [Next]_vars => InvMensajes'
<1> SUFFICES ASSUME TypeInv, ConexInv, InvMensajes, [Next]_vars PROVE InvMensajes'
  OBVIOUS
<1>1. CASE ~NextMemoria
  <2>1. ASSUME NEW s \in Sesiones PROVE Sesion(s)'
    <3>1. Sesion(s) /\ Mueve(s) /\ UNCHANGED memoria
      BY <1>1, ClientesMueven DEF InvMensajes
    <3> QED BY <3>1, SesionMueve
  <2> QED BY <2>1 DEF InvMensajes
<1>2. CASE NextMemoria
  <2>1. UNCHANGED <<matelib, kernel>>
    BY <1>2 DEF NextMemoria
  <2>2. CASE Acepta
    BY <2>1, <2>2, MensajesAcepta
  <2>3. CASE LeeSaludo
    BY <2>1, <2>3, MensajesSaludo
  <2>4. CASE LeePedidoAlocar
    BY <2>1, <2>4, MensajesAlocar
  <2>5. CASE LeePedidoOtro
    BY <2>1, <2>5, MensajesOtro
  <2>6. CASE EsperaSwap
    BY <2>1, <2>6, MensajesSwap
  <2>7. CASE Confirma
    BY <2>1, <2>7, MensajesConfirma
  <2>8. CASE Termina
    BY <2>1, <2>8, MensajesTermina
  <2> QED BY <1>2, <2>2, <2>3, <2>4, <2>5, <2>6, <2>7, <2>8
          DEF NextMemoria, PasoMemoria, SaludoDesconocido, Cae
<1> QED BY <1>1, <1>2

-----------------------------------------------------------------------------
(* What follows                                                            *)

(* A connection never holds anything but what its point of the exchange    *)
(* says: a client finds only answers to its own requests, in order, and    *)
(* the server thread a request of the session it serves, aligned or not.   *)
THEOREM CadaSesionEnSuPunto == Spec => []InvMensajes
BY TipoInicial, TipoPaso, ConexInicial, ConexPaso, MensajesInicial, MensajesPaso, PTL DEF Spec

(* mem_alloc works on the pid the client chose for itself, in either       *)
(* reading of the plain format and however sessions die.                   *)
THEOREM PidDelCliente == Spec => []PidPropio
<1>1. InvMensajes => PidPropio
  BY DEF InvMensajes, Sesion, Respuesta, PidPropio, Pid
<1> QED BY <1>1, TipoInicial, TipoPaso, ConexInicial, ConexPaso, MensajesInicial, MensajesPaso,
           PTL DEF Spec

(* The server thread does not misread a greeting: the only one that ends   *)
(* it is the one of a client that had gone.                                *)
THEOREM NoSeConfundeAlSaludar == Spec => SoloTerminaPorCorte
<1>1. ASSUME TypeInv, ConexInv, InvMensajes, SaludoDesconocido PROVE cli[actual] = "cerrada"
  <2>1. /\ pc = "saludo" /\ Atendiendo /\ LegibleSrv(FormatoSaludo(k), actual)
        /\ Recibe(FormatoSaludo(k), aSrv[actual]).cod \notin {KERNEL, MATELIB}
    BY <1>1 DEF SaludoDesconocido, Atendiendo
  <2>2. actual \in Sesiones /\ PorAtender(actual)
    BY <1>1, <2>1, Servida DEF Sesion, Punto
  <2>3. ~Completo(FormatoSaludo(k), aSrv[actual])
    BY <1>1, <2>1, <2>2, LeePorAtender
  <2> QED BY <2>1, <2>3 DEF LegibleSrv, Legible
<1>2. TypeInv /\ ConexInv /\ InvMensajes /\ [Next]_vars
        => [SaludoDesconocido => cli[actual] = "cerrada"]_vars
  BY <1>1
<1> QED BY <1>2, TipoInicial, TipoPaso, ConexInicial, ConexPaso, MensajesInicial, MensajesPaso,
           PTL DEF Spec, SoloTerminaPorCorte

(* mem_alloc answers only a session whose packets are still aligned, and   *)
(* while the server thread is on its request.                              *)
LEMMA SoloDecideAlineada ==
    ASSUME TypeInv, ConexInv, AsigInv, InvMensajes, [Next]_vars
    PROVE  \/ UNCHANGED concesion
           \/ /\ Alineada /\ pc \in {"pedido", "swap"} /\ pc' = "confirmar"
              /\ actual \in Sesiones /\ UNCHANGED <<k, actual>>
              /\ \A t \in Sesiones \ {actual} : concesion'[t] = concesion[t]
<1>1. CASE UNCHANGED <<concesion, procesos, heaps>>
  BY <1>1
<1>2. ASSUME NEW s \in Sesiones, NEW pid \in Palabra, NEW dir \in Palabra, Decide(s, pid, dir)
      PROVE  \/ UNCHANGED concesion
             \/ /\ Alineada /\ pc \in {"pedido", "swap"} /\ pc' = "confirmar"
                /\ actual \in Sesiones /\ UNCHANGED <<k, actual>>
                /\ \A t \in Sesiones \ {actual} : concesion'[t] = concesion[t]
  <2>1. s = actual /\ pc' = "confirmar" /\ \A t \in Sesiones \ {s} : concesion'[t] = concesion[t]
    BY <1>2, RespuestaNueva DEF TypeInv, Decide
  <2>2. CASE LeePedidoAlocar
    <3>1. pc = "pedido" /\ Recibe("carpincho", aSrv[s]).cod = ALOCAR_EN_MEMORIA
          /\ UNCHANGED <<k, actual>>
      BY <2>1, <2>2 DEF LeePedidoAlocar
    <3>2. EnPedido(s)
      BY <2>1, <3>1 DEF InvMensajes, Sesion, Punto
    <3>3. Alineada
      BY <3>1, <3>2, LeeEnPedido, Codigos
    <3> QED BY <2>1, <3>1, <3>3
  <2>3. CASE EsperaSwap
    <3>1. pc = "swap" /\ UNCHANGED <<k, actual>>
      BY <2>3 DEF EsperaSwap
    <3>2. EnSwap(s)
      BY <2>1, <3>1 DEF InvMensajes, Sesion, Punto
    <3> QED BY <2>1, <3>1, <3>2 DEF EnSwap
  <2>4. CASE ~LeePedidoAlocar /\ ~EsperaSwap
    BY <2>4 DEF Next, NextCarpincho, NextKernel, NextReloj, NextMemoria, PasoMemoria, vars, memoria,
       Acepta, LeeSaludo, SaludoDesconocido, LeePedidoOtro, Confirma, VuelveAAceptar, Cae, Termina
  <2> QED BY <2>2, <2>3, <2>4
<1> QED BY <1>1, <1>2, PasoDecide

(* With the plain format read without its trailing words, no session but   *)
(* the first is aligned: by the time k moves on, mem_alloc has run as often*)
(* as it ever will.                                                        *)
UnaVez ==
    /\ UnaSolaAtencion
    /\ k = 0 => \A s \in Sesiones :
                   concesion[s] # Nulo => s = actual /\ pc \in {"confirmar", "fin"}

LEMMA UnaVezPaso ==
    ASSUME ~PlanoConPid, TypeInv, ConexInv, AsigInv, InvMensajes, UnaVez, [Next]_vars
    PROVE  UnaVez'
<1>1. CASE concesion' # concesion
  <2>1. /\ k = 0 /\ k' = 0 /\ pc \in {"pedido", "swap"} /\ pc' = "confirmar"
        /\ actual \in Sesiones /\ actual' = actual
        /\ \A t \in Sesiones \ {actual} : concesion'[t] = concesion[t]
    BY <1>1, SoloDecideAlineada DEF Alineada
  <2>2. \A s \in Sesiones : concesion[s] = Nulo
    BY <2>1 DEF UnaVez
  <2>3. \A s \in Sesiones : concesion'[s] # Nulo => s = actual
    BY <2>1, <2>2
  <2> QED BY <2>1, <2>3 DEF UnaVez, UnaSolaAtencion
<1>2. CASE concesion' = concesion
  <2>1. \/ UNCHANGED <<pc, k, actual>>
        \/ k' = k + 1
        \/ pc' = "fin" /\ UNCHANGED <<k, actual>>
        \/ pc \notin {"confirmar", "fin"} /\ k' = k
    BY DEF Next, NextCarpincho, NextKernel, NextReloj, NextMemoria, PasoMemoria, vars, memoria,
       Acepta, LeeSaludo, SaludoDesconocido, LeePedidoAlocar, EsperaSwap, LeePedidoOtro, Confirma,
       VuelveAAceptar, ProximoIndice, Cae, Termina
  <2>2. k \in Nat
    BY DEF TypeInv, TypeOK, MemoriaTypeOK
  <2> QED BY <1>2, <2>1, <2>2 DEF UnaVez, UnaSolaAtencion
<1> QED BY <1>1, <1>2

(* In that reading mem_alloc runs for one session at most in the life of   *)
(* Memoria, whatever the others ask for.                                   *)
THEOREM SeAtiendeUnaVez ==
    ASSUME ~PlanoConPid
    PROVE  Spec => []UnaSolaAtencion
<1>1. Init => UnaVez
  BY DEF Init, MemoriaInit, UnaVez, UnaSolaAtencion
<1>2. TypeInv /\ ConexInv /\ AsigInv /\ InvMensajes /\ UnaVez /\ [Next]_vars => UnaVez'
  BY UnaVezPaso
<1>3. UnaVez => UnaSolaAtencion
  BY DEF UnaVez
<1> QED BY <1>1, <1>2, <1>3, TipoInicial, TipoPaso, ConexInicial, ConexPaso, AsigInicial, AsigPaso,
           MensajesInicial, MensajesPaso, PTL DEF Spec

(* An application that holds the address 25 was granted it, and otherwise  *)
(* holds nothing, garbage, the refusal or a size somebody asked for.  The  *)
(* hypothesis: a request of exactly 25 bytes, if anybody makes one, fits.  *)
(* Without it the refusal of that request would hand its size, 25, back to *)
(* an application that takes it for an address.                            *)
LEMMA PunteroPaso ==
    ASSUME DirPrimera \in Tamanios => Entra(DirPrimera),
           TypeInv, ConexInv, AsigInv, InvMensajes, PunteroOtorgado, [Next]_vars
    PROVE  PunteroOtorgado'
<1> SUFFICES ASSUME NEW s \in Carpinchos
             PROVE  /\ ptr'[s] = DirPrimera => Recibio25(s)'
                    /\ ptr'[s] \in {Nulo, Indef, DirPrimera, SinEspacio} \cup Tamanios
  BY DEF PunteroOtorgado
<1>1. /\ s \in Sesiones /\ ptr \in [Carpinchos -> Palabra \cup {Nulo}]
      /\ est \in [Carpinchos -> Vivos \cup {"fuera", "cerrada", "muerta"}]
  BY DEF TypeInv, TypeOK, MatelibTypeOK, Sesiones
<1>2. Recibio25(s) => Recibio25(s)'
  <2>1. CASE UNCHANGED concesion
    BY <2>1 DEF Recibio25
  <2>2. ASSUME NEW t \in Sesiones, NEW pid \in Palabra, NEW dir \in Palabra, Decide(t, pid, dir)
        PROVE  Recibio25(s) => Recibio25(s)'
    <3>1. concesion[t] = Nulo /\ \A u \in Sesiones \ {t} : concesion'[u] = concesion[u]
      BY <2>2, RespuestaNueva DEF TypeInv, Decide
    <3> QED BY <1>1, <3>1 DEF Recibio25
  <2> QED BY <2>1, <2>2, PasoDecide
<1>3. CASE ptr'[s] = ptr[s]
  BY <1>2, <1>3 DEF PunteroOtorgado
<1>4. CASE ptr'[s] # ptr[s]
  <2>1. RespuestaMemalloc(s)
    BY <1>1, <1>4 DEF Next, NextCarpincho, PasoCarpincho, MateInit, MateInitRechazado, Saluda,
       RespuestaSaludo, MateMemalloc, RespuestaMemalloc, MateClose, Muere, NextKernel, NextReloj,
       Tic, NextMemoria, vars, matelib
  <2>2. PICK p : p = Recibe("carpincho", aCli[s])
    OBVIOUS
  <2>3. ptr'[s] = p.memo /\ Lado(s) = "esperando" /\ TamsDe(s) = Tamanios
    BY <1>1, <2>1, <2>2 DEF RespuestaMemalloc, Lado, TamsDe
  <2>4. Buzon(s) /\ Respuesta(s)
    BY <1>1 DEF InvMensajes, Sesion
  <2>5. \/ p.memo = Indef
        \/ \E n \in Tamanios : ~Entra(n) /\ p.memo = n
        \/ concesion[s] # Nulo /\ p.memo = concesion[s].dir
    BY <1>1, <2>2, <2>3, <2>4, OyeBuzon
  <2>6. p.memo \in {Indef, DirPrimera, SinEspacio} \cup Tamanios
    BY <2>4, <2>5 DEF Respuesta
  <2>7. p.memo = DirPrimera => Recibio25(s)
    BY <2>5, NumerosDistintos DEF Recibio25
  <2> QED BY <1>2, <2>3, <2>6, <2>7
<1> QED BY <1>3, <1>4

THEOREM PunteroSeOtorga ==
    ASSUME DirPrimera \in Tamanios => Entra(DirPrimera)
    PROVE  Spec => []PunteroOtorgado
<1>1. Init => PunteroOtorgado
  <2>1. Nulo # DirPrimera
    BY NuloNoEsPalabra DEF Palabra, DirPrimera
  <2> QED BY <2>1 DEF Init, MatelibInit, PunteroOtorgado
<1>2. TypeInv /\ ConexInv /\ AsigInv /\ InvMensajes /\ PunteroOtorgado /\ [Next]_vars
        => PunteroOtorgado'
  BY PunteroPaso
<1> QED BY <1>1, <1>2, TipoInicial, TipoPaso, ConexInicial, ConexPaso, AsigInicial, AsigPaso,
           MensajesInicial, MensajesPaso, PTL DEF Spec
=============================================================================
