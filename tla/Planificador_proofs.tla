------------------------- MODULE Planificador_proofs -------------------------
(***************************************************************************)
(* The properties of Planificador for every number of clients, of words    *)
(* and of carpinchos.                                                      *)
(***************************************************************************)
EXTENDS Planificador, SequenceTheorems, TLAPS

(* What a thread needs of its descriptor and of the connection it reads.   *)
Leyendo == {"en_cop", "en_estado"}
Atado(t) ==
    /\ pc[t] # "sin" => fd[t] \in Fds
    /\ pc[t] \in Leyendo => con[t] \in Clientes
TypeInv == TypeOK /\ \A t \in Clientes : Atado(t)

LEMMA InitTipos == Init => TypeInv
  <1> SUFFICES ASSUME Init PROVE TypeInv
    OBVIOUS
  <1>1. env \in [Clientes -> Seq(Palabra)] /\ enviadas \in [Clientes -> 0 .. MaxPalabras]
    BY CotasNaturales DEF Init
  <1>2. creador \in Seq(Clientes) /\ colaNew \in Seq(Nat) /\ colaReady \in Seq(Nat)
    BY DEF Init
  <1> QED BY <1>1, <1>2 DEF Init, TypeInv, TypeOK, Atado, Leyendo

LEMMA DestinoEsLugar ==
    ASSUME NEW w, NEW p \in Destinos(w)
    PROVE  p \in {"estado", "cop", "fin"}
  BY DEF Destinos

LEMMA PalabraLeida ==
    ASSUME TypeInv, NEW c \in Clientes, env[c] # <<>>
    PROVE  Head(env[c]) \in Palabra /\ Tail(env[c]) \in Seq(Palabra)
  BY HeadTailProperties DEF TypeInv, TypeOK

LEMMA ClienteTipos ==
    ASSUME TypeInv, NEW c \in Clientes, PasoCliente(c)
    PROVE  TypeInv'
  <1>1. hilos' = hilos
    BY DEF PasoCliente, Conecta, MandaCodigo, MandaEstado, Manda, Cierra
  <1>2. CASE Conecta(c) \/ Cierra(c)
    BY <1>1, <1>2 DEF Conecta, Cierra, TypeInv, TypeOK, Atado, hilos, colas
  <1>3. ASSUME NEW w \in Palabra, Manda(c, w), fase' \in [Clientes -> {"codigo", "estado"}]
        PROVE  TypeInv'
    <2>1. Append(env[c], w) \in Seq(Palabra)
      BY AppendProperties DEF TypeInv, TypeOK
    <2>2. env' \in [Clientes -> Seq(Palabra)] /\ enviadas' \in [Clientes -> 0 .. MaxPalabras]
      BY <1>3, <2>1, CotasNaturales DEF Manda, TypeInv, TypeOK
    <2> QED BY <1>1, <1>3, <2>2 DEF Manda, TypeInv, TypeOK, Atado, hilos, colas
  <1>4. CASE MandaCodigo(c)
    BY <1>3, <1>4 DEF MandaCodigo, Palabra, TypeInv, TypeOK
  <1>5. CASE MandaEstado(c)
    BY <1>3, <1>5 DEF MandaEstado, Palabra, TypeInv, TypeOK
  <1> QED BY <1>2, <1>4, <1>5 DEF PasoCliente

(* The steps before a carpincho is admitted leave the queues alone.        *)
Recibe(t) ==
    \/ Acepta(t) \/ LlamaCop(t) \/ LeeCop(t) \/ Desconecta(t)
    \/ LlamaEstado(t) \/ LeeEstado(t) \/ CortaEstado(t)

LEMMA RecibeTipos ==
    ASSUME TypeInv, NEW t \in Clientes, Recibe(t)
    PROVE  TypeInv'
  <1> USE DEF TypeInv, Leyendo
  <1>1. CASE Acepta(t)
    BY <1>1 DEF Acepta, TypeOK, Atado, clientes, colas
  <1>2. CASE LlamaCop(t)
    <2>1. CASE fds[fd[t]] = Nulo
      <3>1. PICK p \in {"estado", "cop", "fin"} : pc' = [pc EXCEPT ![t] = p]
        BY <1>2, <2>1, DestinoEsLugar DEF LlamaCop, Va
      <3> QED BY <1>2, <2>1, <3>1 DEF LlamaCop, TypeOK, Atado, clientes, colas
    <2>2. CASE fds[fd[t]] # Nulo
      <3>1. fds[fd[t]] \in Clientes
        BY <1>2, <2>2 DEF LlamaCop, TypeOK, Atado
      <3> QED BY <1>2, <2>2, <3>1 DEF LlamaCop, Va, TypeOK, Atado, clientes, colas
    <2> QED BY <2>1, <2>2
  <1>3. CASE LeeCop(t)
    <2>1. con[t] \in Clientes /\ env[con[t]] # <<>>
      BY <1>3 DEF LeeCop, Toma, Atado
    <2>2. Head(env[con[t]]) \in Palabra /\ Tail(env[con[t]]) \in Seq(Palabra)
      BY <2>1, PalabraLeida
    <2>3. PICK p \in {"estado", "cop", "fin"} : Va(t, p)
      BY <1>3, DestinoEsLugar DEF LeeCop
    <2> QED BY <1>3, <2>1, <2>2, <2>3 DEF LeeCop, Toma, Va, TypeOK, Atado, clientes, colas
  <1>4. CASE Desconecta(t)
    BY <1>4 DEF Desconecta, Va, TypeOK, Atado, clientes, colas
  <1>5. CASE LlamaEstado(t)
    <2>1. CASE fds[fd[t]] = Nulo
      BY <1>5, <2>1 DEF LlamaEstado, Va, TypeOK, Atado, clientes, colas
    <2>2. CASE fds[fd[t]] # Nulo
      <3>1. fds[fd[t]] \in Clientes
        BY <1>5, <2>2 DEF LlamaEstado, TypeOK, Atado
      <3>2. /\ pc' = [pc EXCEPT ![t] = "en_estado"]
            /\ con' = [con EXCEPT ![t] = fds[fd[t]]]
        BY <1>5, <2>2 DEF LlamaEstado, Va
      <3> QED BY <1>5, <3>1, <3>2 DEF LlamaEstado, TypeOK, Atado, clientes, colas
    <2> QED BY <2>1, <2>2
  <1>6. CASE LeeEstado(t)
    <2>1. con[t] \in Clientes /\ env[con[t]] # <<>>
      BY <1>6 DEF LeeEstado, Toma, Atado
    <2>2. Tail(env[con[t]]) \in Seq(Palabra)
      BY <2>1, PalabraLeida
    <2>3. PICK p \in {"crear", "cop"} : Va(t, p)
      BY <1>6 DEF LeeEstado
    <2> QED BY <1>6, <2>1, <2>2, <2>3 DEF LeeEstado, Toma, Va, TypeOK, Atado, clientes, colas
  <1>7. CASE CortaEstado(t)
    <2>1. fds' \in [Fds -> Clientes \cup {Nulo}]
      BY <1>7 DEF CortaEstado, CierraFd, TypeOK
    <2> QED BY <1>7, <2>1 DEF CortaEstado, Va, TypeOK, Atado, clientes, colas
  <1> QED BY <1>1, <1>2, <1>3, <1>4, <1>5, <1>6, <1>7 DEF Recibe

(* The steps that admit and plan leave the clients and their words alone.  *)
Planifica(t) ==
    \/ GeneraEstructuras(t) \/ PushNew(t) \/ PruebaNew(t)
    \/ SacaNew(t) \/ PopNew(t) \/ PushReady(t) \/ Cae(t)

LEMMA EntraTipos ==
    ASSUME TypeInv, NEW t \in Clientes, NEW p \in EnLlamada, NEW L, Entra(t, p, L), pc[t] # "sin"
    PROVE  /\ pc' = [pc EXCEPT ![t] = p]
           /\ carrera' \subseteq Clientes
  BY DEF Entra, Va, TypeInv, TypeOK

LEMMA PlanificaTipos ==
    ASSUME TypeInv, NEW t \in Clientes, Planifica(t)
    PROVE  TypeInv'
  <1> USE DEF TypeInv, EnLlamada, Planificando, Leyendo
  <1>1. CASE GeneraEstructuras(t)
    <2>1. creador' \in Seq(Clientes) /\ Len(creador) + 1 \in Nat
      BY <1>1, AppendProperties, LenProperties DEF GeneraEstructuras, TypeOK
    <2>2. pcb' \in [Clientes -> Nat]
      BY <1>1, <2>1 DEF GeneraEstructuras, TypeOK
    <2>3. pc' = [pc EXCEPT ![t] = "push_new"] /\ carrera' \subseteq Clientes
      BY <1>1, EntraTipos DEF GeneraEstructuras
    <2> QED BY <1>1, <2>1, <2>2, <2>3 DEF GeneraEstructuras, TypeOK, Atado, clientes, colas
  <1>2. CASE PushNew(t)
    <2>1. Append(colaNew, pcb[t]) \in Seq(Nat)
      BY AppendProperties DEF TypeOK
    <2> QED BY <1>2, <2>1 DEF PushNew, Sale, Va, TypeOK, Atado, clientes
  <1>3. CASE PruebaNew(t)
    <2>1. PICK p \in {"sacar", "cop"} : Va(t, p)
      BY <1>3 DEF PruebaNew
    <2> QED BY <1>3, <2>1 DEF PruebaNew, Va, TypeOK, Atado, clientes, colas
  <1>4. CASE SacaNew(t)
    <2>1. pc' = [pc EXCEPT ![t] = "pop_new"] /\ carrera' \subseteq Clientes
      BY <1>4, EntraTipos DEF SacaNew
    <2> QED BY <1>4, <2>1 DEF SacaNew, TypeOK, Atado, clientes, colas
  <1>5. CASE PopNew(t)
    <2>1. Head(colaNew) \in Nat /\ Tail(colaNew) \in Seq(Nat)
      BY <1>5, HeadTailProperties DEF PopNew, TypeOK
    <2>2. pc' = [pc EXCEPT ![t] = "push_ready"] /\ carrera' \subseteq Clientes
      BY <1>5, EntraTipos DEF PopNew
    <2> QED BY <1>5, <2>1, <2>2 DEF PopNew, TypeOK, Atado, clientes
  <1>6. CASE PushReady(t)
    <2>1. Encola(colaReady, pcb[t]) \in Seq(Nat)
      BY AppendProperties DEF TypeOK, Encola
    <2> QED BY <1>6, <2>1 DEF PushReady, Sale, Va, TypeOK, Atado, clientes
  <1>7. CASE Cae(t)
    BY <1>7 DEF Cae, TypeOK, Atado, clientes, colas
  <1> QED BY <1>1, <1>2, <1>3, <1>4, <1>5, <1>6, <1>7 DEF Planifica

(* A step is one of a client, one that receives or one that plans.         *)
LEMMA Pasos ==
    ASSUME Next
    PROVE  \E c \in Clientes : PasoCliente(c) \/ Recibe(c) \/ Planifica(c)
  BY DEF Next, PasoHilo, Recibe, Planifica

LEMMA TiposPaso == TypeInv /\ [Next]_vars => TypeInv'
  <1>1. ASSUME TypeInv, UNCHANGED vars PROVE TypeInv'
    BY <1>1 DEF TypeInv, TypeOK, Atado, vars, hilos, clientes, colas
  <1> QED BY <1>1, Pasos, ClienteTipos, RecibeTipos, PlanificaTipos

LEMMA TiposPlanificador == Spec => []TypeInv
  BY InitTipos, TiposPaso, PTL DEF Spec

(* The values of every variable, whatever the interleaving of the threads. *)
THEOREM TiposDelKernel == Spec => []TypeOK
  BY TiposPlanificador, PTL DEF TypeInv

-----------------------------------------------------------------------------
(* While no MATE_INIT is broken off.                                       *)

(* The words s a client sent and nobody read, for a reader that expects a  *)
(* status or not, and a client that owes one or not: a status is where one *)
(* is due and nowhere else.                                                *)
Alineada(s, espera, f) ==
    /\ \A i \in 1 .. Len(s) :
          s[i] = ESTADO_NEW <=> IF i = 1 THEN espera ELSE s[i - 1] = MATE_INIT
    /\ f = "estado" <=> IF s = <<>> THEN espera ELSE s[Len(s)] = MATE_INIT

Espera(t) == pc[t] \in {"estado", "en_estado"}

(* A thread nobody disturbs: its descriptor still stands for its client,   *)
(* it has admitted nobody and the words it reads are aligned.              *)
Propio(t) ==
    /\ pc[t] \in {"sin", "cop", "en_cop", "estado", "en_estado", "fin"}
    /\ pc[t] # "sin" => fds[fd[t]] = t
    /\ pc[t] \in Leyendo => con[t] = t
    /\ Alineada(env[t], Espera(t), fase[t])

InvSinCortes == SinCortes => creador = <<>> /\ \A t \in Clientes : Propio(t)

LEMMA AlineadaAppend ==
    ASSUME NEW s \in Seq(Palabra), NEW e \in BOOLEAN, NEW f \in {"codigo", "estado"},
           Alineada(s, e, f), NEW w \in Palabra, w = ESTADO_NEW <=> f = "estado"
    PROVE  Alineada(Append(s, w), e, IF w = MATE_INIT THEN "estado" ELSE "codigo")
  <1> DEFINE r == Append(s, w)
  <1>1. /\ r # <<>> /\ Len(r) = Len(s) + 1 /\ Len(s) \in Nat
        /\ \A i \in 1 .. Len(s) : r[i] = s[i]
        /\ r[Len(s) + 1] = w
    BY AppendProperties, LenProperties
  <1>2. s = <<>> <=> Len(s) = 0
    BY EmptySeq
  <1> HIDE DEF r
  <1>3. ASSUME NEW i \in 1 .. Len(r)
        PROVE  r[i] = ESTADO_NEW <=> IF i = 1 THEN e ELSE r[i - 1] = MATE_INIT
    <2>1. CASE i \in 1 .. Len(s)
      <3>1. i # 1 => i - 1 \in 1 .. Len(s)
        BY <2>1, <1>1
      <3>2. s[i] = ESTADO_NEW <=> IF i = 1 THEN e ELSE s[i - 1] = MATE_INIT
        BY <2>1 DEF Alineada
      <3> QED BY <1>1, <2>1, <3>1, <3>2
    <2>2. CASE i = Len(s) + 1
      <3>1. s # <<>> => i # 1 /\ r[i - 1] = s[Len(s)]
        BY <1>1, <1>2, <2>2
      <3>2. s = <<>> => i = 1
        BY <1>2, <2>2
      <3> QED BY <1>1, <2>2, <3>1, <3>2 DEF Alineada
    <2> QED BY <1>1, <2>1, <2>2
  <1>4. r[Len(r)] = w
    BY <1>1
  <1>5. Alineada(r, e, IF w = MATE_INIT THEN "estado" ELSE "codigo")
    BY <1>1, <1>3, <1>4 DEF Alineada
  <1> QED BY <1>5 DEF r

LEMMA AlineadaTail ==
    ASSUME NEW s \in Seq(Palabra), s # <<>>, NEW e \in BOOLEAN, NEW f \in {"codigo", "estado"},
           Alineada(s, e, f)
    PROVE  /\ Head(s) = ESTADO_NEW <=> e
           /\ Alineada(Tail(s), Head(s) = MATE_INIT, f)
  <1> DEFINE r == Tail(s)
  <1>1. /\ Len(s) \in Nat \ {0} /\ Head(s) = s[1]
        /\ r \in Seq(Palabra) /\ Len(r) = Len(s) - 1
        /\ \A i \in 1 .. Len(r) : r[i] = s[i + 1]
    BY HeadTailProperties, EmptySeq
  <1>2. r = <<>> <=> Len(r) = 0
    BY <1>1, EmptySeq
  <1> HIDE DEF r
  <1>3. Head(s) = ESTADO_NEW <=> e
    BY <1>1 DEF Alineada
  <1>4. ASSUME NEW i \in 1 .. Len(r)
        PROVE  r[i] = ESTADO_NEW <=> IF i = 1 THEN Head(s) = MATE_INIT ELSE r[i - 1] = MATE_INIT
    <2>1. i + 1 \in 1 .. Len(s) /\ i + 1 # 1 /\ (i + 1) - 1 = i
      BY <1>1
    <2>2. s[i + 1] = ESTADO_NEW <=> s[i] = MATE_INIT
      BY <2>1 DEF Alineada
    <2>3. i # 1 => i - 1 \in 1 .. Len(r) /\ r[i - 1] = s[i]
      <3>1. i # 1 => i - 1 \in 1 .. Len(r) /\ (i - 1) + 1 = i
        BY <1>1
      <3> QED BY <1>1, <3>1
    <2> QED BY <1>1, <2>2, <2>3
  <1>5. f = "estado" <=> IF r = <<>> THEN Head(s) = MATE_INIT ELSE r[Len(r)] = MATE_INIT
    <2>1. r # <<>> => r[Len(r)] = s[Len(s)]
      BY <1>1, <1>2
    <2>2. r = <<>> => Len(s) = 1
      BY <1>1, <1>2
    <2> QED BY <1>1, <2>1, <2>2 DEF Alineada
  <1> QED BY <1>3, <1>4, <1>5 DEF Alineada, r

(* A client that broke off its MATE_INIT never sends again.                *)
LEMMA CortesQuedan ==
    ASSUME TypeInv, Next, SinCortes'
    PROVE  SinCortes
  <1> SUFFICES ASSUME NEW c \in Clientes, Cortado(c) PROVE Cortado(c)'
    BY DEF SinCortes
  <1>1. ASSUME NEW d \in Clientes, PasoCliente(d) PROVE Cortado(c)'
    BY <1>1 DEF PasoCliente, Conecta, MandaCodigo, MandaEstado, Manda, Cierra, Cortado,
                TypeInv, TypeOK
  <1>2. ASSUME NEW t \in Clientes, Recibe(t) \/ Planifica(t) PROVE cli' = cli /\ fase' = fase
    BY <1>2 DEF Recibe, Acepta, LlamaCop, LeeCop, Desconecta, LlamaEstado, LeeEstado,
                CortaEstado, Planifica, GeneraEstructuras, PushNew, PruebaNew, SacaNew, PopNew,
                PushReady, Cae, clientes
  <1> QED BY <1>1, <1>2, Pasos DEF Cortado

LEMMA ClientePropio ==
    ASSUME TypeInv, \A t \in Clientes : Propio(t), NEW c \in Clientes, PasoCliente(c)
    PROVE  creador' = creador /\ \A t \in Clientes : Propio(t)'
  <1>1. hilos' = hilos
    BY DEF PasoCliente, Conecta, MandaCodigo, MandaEstado, Manda, Cierra
  <1>2. CASE Conecta(c) \/ Cierra(c)
    BY <1>1, <1>2 DEF Conecta, Cierra, Propio, Espera, hilos
  <1>3. ASSUME NEW w \in Palabra, Manda(c, w), w = ESTADO_NEW <=> fase[c] = "estado",
               fase' = [fase EXCEPT ![c] = IF w = MATE_INIT THEN "estado" ELSE "codigo"]
        PROVE  \A t \in Clientes : Propio(t)'
    <2>1. /\ env[c] \in Seq(Palabra) /\ fase[c] \in {"codigo", "estado"}
          /\ Espera(c) \in BOOLEAN /\ Alineada(env[c], Espera(c), fase[c])
      BY DEF TypeInv, TypeOK, Propio, Espera
    <2>2. Alineada(Append(env[c], w), Espera(c), IF w = MATE_INIT THEN "estado" ELSE "codigo")
      BY <1>3, <2>1, AlineadaAppend
    <2>3. /\ env'[c] = Append(env[c], w)
          /\ fase'[c] = IF w = MATE_INIT THEN "estado" ELSE "codigo"
          /\ \A t \in Clientes \ {c} : env'[t] = env[t] /\ fase'[t] = fase[t]
      BY <1>3 DEF Manda, TypeInv, TypeOK
    <2>4. \A t \in Clientes : Espera(t)' = Espera(t)
      BY <1>1 DEF Espera, hilos
    <2>5. \A t \in Clientes : Alineada(env[t], Espera(t), fase[t])'
      <3>1. Alineada(env[c], Espera(c), fase[c])'
        BY <2>2, <2>3, <2>4
      <3>2. ASSUME NEW t \in Clientes \ {c} PROVE Alineada(env[t], Espera(t), fase[t])'
        <4>1. Alineada(env[t], Espera(t), fase[t])
          BY DEF Propio
        <4> QED BY <2>3, <2>4, <4>1
      <3> QED BY <3>1, <3>2
    <2> QED BY <1>1, <2>5 DEF Propio, hilos
  <1>4. CASE MandaCodigo(c)
    <2>1. PICK w \in Codigos : Manda(c, w) /\ fase' = [fase EXCEPT ![c] = IF w = MATE_INIT THEN "estado" ELSE "codigo"]
      BY <1>4 DEF MandaCodigo
    <2>2. w \in Palabra /\ w # ESTADO_NEW /\ fase[c] # "estado"
      BY <1>4 DEF MandaCodigo, Codigos, Palabra, ESTADO_NEW, MATE_INIT, MENSAJES, DEBUG
    <2> QED BY <1>1, <1>3, <2>1, <2>2 DEF hilos
  <1>5. CASE MandaEstado(c)
    <2>1. ESTADO_NEW \in Palabra /\ ESTADO_NEW # MATE_INIT
      BY DEF Palabra, ESTADO_NEW, MATE_INIT
    <2> QED BY <1>1, <1>3, <1>5, <2>1 DEF MandaEstado, hilos
  <1> QED BY <1>1, <1>2, <1>4, <1>5 DEF PasoCliente, hilos

(* A thread reads its own connection: the other threads are not disturbed. *)
LEMMA LeePropia ==
    ASSUME TypeInv, \A u \in Clientes : Propio(u), NEW t \in Clientes, pc[t] \in Leyendo, Toma(t),
           fase' = fase, fds' = fds, fd' = fd,
           NEW p \in {"cop", "estado", "fin"}, Va(t, p), con' = [con EXCEPT ![t] = Nulo],
           p = "estado" <=> Head(env[t]) = MATE_INIT
    PROVE  \A u \in Clientes : Propio(u)'
  <1>1. /\ env[t] \in Seq(Palabra) /\ fase[t] \in {"codigo", "estado"}
        /\ Espera(t) \in BOOLEAN /\ Alineada(env[t], Espera(t), fase[t]) /\ env[t] # <<>>
    BY DEF TypeInv, TypeOK, Propio, Espera, Toma
  <1>2. Alineada(Tail(env[t]), Head(env[t]) = MATE_INIT, fase[t])
    BY <1>1, AlineadaTail
  <1>3. /\ env'[t] = Tail(env[t]) /\ pc'[t] = p
        /\ \A u \in Clientes \ {t} : env'[u] = env[u] /\ pc'[u] = pc[u] /\ con'[u] = con[u]
    BY DEF Toma, Va, TypeInv, TypeOK
  <1>4. Alineada(env[t], Espera(t), fase[t])'
    <2>1. Espera(t)' <=> Head(env[t]) = MATE_INIT
      BY <1>3 DEF Espera
    <2>2. Espera(t)' = (Head(env[t]) = MATE_INIT)
      BY <2>1 DEF Espera
    <2> QED BY <1>2, <1>3, <2>2
  <1>5. Propio(t)'
    BY <1>3, <1>4 DEF Propio, Leyendo
  <1>6. ASSUME NEW u \in Clientes \ {t} PROVE Propio(u)'
    BY <1>3, <1>6 DEF Propio, Espera
  <1> QED BY <1>5, <1>6

LEMMA RecibePropio ==
    ASSUME TypeInv, SinCortes', \A u \in Clientes : Propio(u), NEW t \in Clientes, Recibe(t)
    PROVE  creador' = creador /\ \A u \in Clientes : Propio(u)'
  <1> USE DEF Leyendo
  <1>1. CASE Acepta(t)
    <2>1. PICK f \in Fds : fds[f] = Nulo /\ fds' = [fds EXCEPT ![f] = t] /\ fd' = [fd EXCEPT ![t] = f]
      BY <1>1 DEF Acepta
    <2>2. ASSUME NEW u \in Clientes \ {t}, pc[u] # "sin" PROVE fd[u] # f
      BY <2>1, <2>2, ClientesFinito DEF Propio
    <2>3. \A u \in Clientes : Espera(u)' = Espera(u)
      BY <1>1 DEF Acepta, Espera, TypeInv, TypeOK
    <2>4. \A u \in Clientes : pc'[u] # "sin" => fds'[fd'[u]] = u
      BY <1>1, <2>1, <2>2 DEF Acepta, Propio, TypeInv, TypeOK, Atado
    <2> QED BY <1>1, <2>3, <2>4 DEF Acepta, Propio, TypeInv, TypeOK, clientes
  <1>2. CASE LlamaCop(t) \/ LlamaEstado(t)
    <2>1. fds[fd[t]] = t /\ t # Nulo
      BY <1>2, ClientesFinito DEF LlamaCop, LlamaEstado, Propio
    <2>2. \A u \in Clientes : Espera(u)' = Espera(u)
      BY <1>2, <2>1 DEF LlamaCop, LlamaEstado, Va, Espera, TypeInv, TypeOK
    <2>3. PICK p \in Leyendo : pc' = [pc EXCEPT ![t] = p] /\ con' = [con EXCEPT ![t] = t]
      BY <1>2, <2>1 DEF LlamaCop, LlamaEstado, Va
    <2>4. pc[t] # "sin" /\ UNCHANGED <<clientes, fds, fd, creador>>
      BY <1>2 DEF LlamaCop, LlamaEstado
    <2> QED BY <2>1, <2>2, <2>3, <2>4 DEF Propio, TypeInv, TypeOK, clientes
  <1>3. CASE LeeCop(t)
    <2>1. con[t] = t /\ ~Espera(t)
      BY <1>3 DEF LeeCop, Propio, Espera
    <2>2. Toma(t) /\ env[t] # <<>>
      BY <1>3, <2>1 DEF LeeCop, Toma
    <2>3. Head(env[t]) \in Palabra
      BY <2>2, PalabraLeida
    <2>4. PICK p \in Destinos(Head(env[t])) : Va(t, p)
      BY <1>3, <2>1 DEF LeeCop
    <2>5. p \in {"cop", "estado", "fin"} /\ (p = "estado" <=> Head(env[t]) = MATE_INIT)
      BY <2>3, <2>4, IndefNoEsNumero
         DEF Destinos, Palabra, Codigos, MATE_INIT, MENSAJES, DEBUG, ESTADO_NEW
    <2>6. pc[t] \in Leyendo
      BY <1>3 DEF LeeCop
    <2> QED BY <1>3, <2>1, <2>2, <2>4, <2>5, <2>6, LeePropia DEF LeeCop, clientes
  <1>4. CASE Desconecta(t)
    <2>1. \A u \in Clientes : Espera(u)' = Espera(u)
      BY <1>4 DEF Desconecta, Va, Espera, TypeInv, TypeOK
    <2> QED BY <1>4, <2>1 DEF Desconecta, Va, Propio, TypeInv, TypeOK, clientes
  <1>5. CASE LeeEstado(t)
    <2>1. con[t] = t /\ Espera(t)
      BY <1>5 DEF LeeEstado, Propio, Espera
    <2>2. Toma(t) /\ env[t] # <<>>
      BY <1>5, <2>1 DEF LeeEstado, Toma
    <2>3. Head(env[t]) = ESTADO_NEW
      <3>1. /\ env[t] \in Seq(Palabra) /\ fase[t] \in {"codigo", "estado"}
            /\ Espera(t) \in BOOLEAN /\ Alineada(env[t], Espera(t), fase[t])
        BY DEF TypeInv, TypeOK, Propio, Espera
      <3> QED BY <2>1, <2>2, <3>1, AlineadaTail
    <2>4. Va(t, "cop") /\ ("cop" = "estado" <=> Head(env[t]) = MATE_INIT)
      BY <1>5, <2>1, <2>3 DEF LeeEstado, Admite, ESTADO_NEW, MATE_INIT
    <2>5. pc[t] \in Leyendo
      BY <1>5 DEF LeeEstado
    <2> QED BY <1>5, <2>2, <2>4, <2>5, LeePropia DEF LeeEstado
  <1>6. CASE CortaEstado(t)
    <2>1. con[t] = t /\ Espera(t) /\ env[t] = <<>> /\ cli[t] = "cerrada"
      BY <1>6 DEF CortaEstado, Propio, Espera, Agotada
    <2>2. Cortado(t)'
      BY <1>6, <2>1 DEF CortaEstado, Propio, Alineada, Cortado, clientes
    <2> QED BY <2>2 DEF SinCortes
  <1> QED BY <1>1, <1>2, <1>3, <1>4, <1>5, <1>6 DEF Recibe

LEMMA SinCortesPaso == TypeInv /\ InvSinCortes /\ [Next]_vars => InvSinCortes'
  <1> SUFFICES ASSUME TypeInv, InvSinCortes, [Next]_vars, SinCortes'
               PROVE  creador' = <<>> /\ \A t \in Clientes : Propio(t)'
    BY DEF InvSinCortes
  <1>1. CASE UNCHANGED vars
    BY <1>1 DEF InvSinCortes, SinCortes, Cortado, Propio, Espera, vars, hilos, clientes
  <1>2. CASE Next
    <2>1. creador = <<>> /\ \A t \in Clientes : Propio(t)
      BY <1>2, CortesQuedan DEF InvSinCortes
    <2>2. ASSUME NEW t \in Clientes PROVE ~Planifica(t)
      BY <2>1 DEF Propio, Planifica, GeneraEstructuras, PushNew, PruebaNew, SacaNew, PopNew,
                  PushReady, Cae, EnLlamada
    <2> QED BY <1>2, <2>1, <2>2, Pasos, ClientePropio, RecibePropio
  <1> QED BY <1>1, <1>2

LEMMA SinCortesSiempre == Spec => []InvSinCortes
  <1>1. Init => InvSinCortes
    BY DEF Init, InvSinCortes, Propio, Leyendo, Espera, Alineada
  <1> QED BY <1>1, SinCortesPaso, TiposPlanificador, PTL DEF Spec

(* rcv_mate_init2 and the test of its result, if(a): whatever the codes    *)
(* and whoever reads them, a carpincho is admitted only if some client     *)
(* broke off its MATE_INIT.                                                *)
THEOREM SoloElCorteAdmite == Spec => []AdmisionPorCorte
  <1>1. InvSinCortes => AdmisionPorCorte
    BY DEF InvSinCortes, AdmisionPorCorte
  <1> QED BY <1>1, SinCortesSiempre, PTL

(* Until a MATE_INIT is broken off, procesar_conexion's threads each read  *)
(* the words of their own client.                                          *)
THEOREM CadaUnoLoSuyo == Spec => []LecturaPropia
  <1>1. InvSinCortes => LecturaPropia
    BY DEF InvSinCortes, LecturaPropia, Propio, Leyendo
  <1> QED BY <1>1, SinCortesSiempre, PTL

-----------------------------------------------------------------------------
(* With a single thread admitting carpinchos.                              *)

Uno == \A i, j \in DOMAIN creador : creador[i] = creador[j]

(* EnMano, for the places P and the carpinchos Q of the threads.           *)
Tiene(P, Q, p) ==
    IF \E t \in Clientes : P[t] = p THEN <<Q[CHOOSE t \in Clientes : P[t] = p]>> ELSE <<>>

LEMMA TieneUno ==
    ASSUME NEW P, NEW Q, NEW p, NEW t \in Clientes, P[t] = p,
           \A u \in Clientes : P[u] = p => u = t
    PROVE  Tiene(P, Q, p) = <<Q[t]>>
  <1>1. (CHOOSE u \in Clientes : P[u] = p) = t
    OBVIOUS
  <1> QED BY <1>1 DEF Tiene

LEMMA TieneNadie ==
    ASSUME NEW P, NEW Q, NEW p, \A u \in Clientes : P[u] # p
    PROVE  Tiene(P, Q, p) = <<>>
  BY DEF Tiene

(* The order in the queues and the hands: R is COLA_READY, N is COLA_NEW.  *)
Orden(R, mr, N, mn) == R \o mr \o N \o mn

LEMMA OrdenTramos ==
    ASSUME NEW R \in Seq(Nat), NEW N \in Seq(Nat), NEW x \in Nat
    PROVE  /\ Orden(R, <<>>, N, <<>>) = R \o N
           /\ Orden(R, <<>>, N, <<x>>) = Append(R \o N, x)
           /\ Orden(R, <<x>>, N, <<>>) = Append(R, x) \o N
           /\ R \o Append(N, x) = Append(R \o N, x)
           /\ N # <<>> => Append(R, Head(N)) \o Tail(N) = R \o N
  <1>1. R \o N \in Seq(Nat) /\ <<x>> \in Seq(Nat) /\ Append(R, x) \in Seq(Nat)
    BY ConcatProperties, AppendProperties
  <1>2. R \o <<>> = R /\ (R \o N) \o <<>> = R \o N /\ (Append(R, x) \o N) \o <<>> = Append(R, x) \o N
    <2>1. Append(R, x) \o N \in Seq(Nat)
      BY <1>1, ConcatProperties
    <2> QED BY <1>1, <2>1, ConcatEmptySeq
  <1>3. (R \o N) \o <<x>> = Append(R \o N, x) /\ R \o <<x>> = Append(R, x) /\ N \o <<x>> = Append(N, x)
    BY <1>1, AppendIsConcat
  <1>4. R \o (N \o <<x>>) = (R \o N) \o <<x>>
    BY <1>1, ConcatAssociative
  <1>5. ASSUME N # <<>> PROVE Append(R, Head(N)) \o Tail(N) = R \o N
    <2>1. Head(N) \in Nat /\ Head(N) = N[1] /\ Tail(N) \in Seq(Nat) /\ <<Head(N)>> \in Seq(Nat)
      BY <1>5, HeadTailProperties
    <2>2. Len(N) \in Nat \ {0}
      BY <1>5, EmptySeq
    <2>3. SubSeq(N, 1, Len(N)) = <<N[1]>> \o SubSeq(N, 1 + 1, Len(N))
      BY <2>2, SubSeqRecursiveFirst
    <2>4. N = <<Head(N)>> \o Tail(N)
      BY <1>5, <2>1, <2>3, SubSeqFull, TailIsSubSeq
    <2>5. Append(R, Head(N)) = R \o <<Head(N)>>
      BY <2>1, AppendIsConcat
    <2>6. (R \o <<Head(N)>>) \o Tail(N) = R \o (<<Head(N)>> \o Tail(N))
      BY <2>1, ConcatAssociative
    <2> QED BY <2>4, <2>5, <2>6
  <1>6. R \o N \o <<x>> = Append(R \o N, x) /\ R \o <<>> \o N \o <<>> = R \o N
    BY <1>2, <1>3
  <1> QED BY <1>2, <1>3, <1>4, <1>5, <1>6 DEF Orden

(* The carpinchos created, in order.                                       *)
Serie(n) == [i \in 1 .. n |-> i]

LEMMA SerieSigue ==
    ASSUME NEW n \in Nat
    PROVE  Serie(n + 1) = Append(Serie(n), n + 1)
  <1>1. Serie(n) \in Seq(Nat) /\ Len(Serie(n)) = n
    BY DEF Serie
  <1>2. Serie(n + 1) \in Seq(Nat) /\ Len(Serie(n + 1)) = n + 1
    BY DEF Serie
  <1>3. /\ Append(Serie(n), n + 1) \in Seq(Nat) /\ Len(Append(Serie(n), n + 1)) = n + 1
        /\ \A i \in 1 .. n : Append(Serie(n), n + 1)[i] = Serie(n)[i]
        /\ Append(Serie(n), n + 1)[n + 1] = n + 1
    BY <1>1, AppendProperties
  <1>4. ASSUME NEW i \in 1 .. n + 1 PROVE Serie(n + 1)[i] = Append(Serie(n), n + 1)[i]
    BY <1>3 DEF Serie
  <1> QED BY <1>2, <1>3, <1>4, SeqEqual

(* A thread plans only what it has created or found after creating, so one *)
(* creator is one thread in the queue calls: none overlaps, and what the   *)
(* test of COLA_NEW saw is still there when queue_pop is called.           *)
Admitio(t) == \E i \in DOMAIN creador : creador[i] = t
InvUno ==
    /\ carrera = {} /\ ~caido
    /\ \A t \in Clientes : pc[t] \in {"sacar", "pop_new"} => colaNew # <<>>
    /\ Orden(colaReady, Tiene(pc, pcb, "push_ready"), colaNew, Tiene(pc, pcb, "push_new"))
         = Serie(Len(creador))
InvPlan ==
    /\ \A t \in Clientes : pc[t] \in Planificando => Admitio(t)
    /\ Uno => InvUno

LEMMA UnSoloHilo ==
    ASSUME InvPlan, Uno, NEW t \in Clientes, NEW u \in Clientes,
           pc[t] \in Planificando, pc[u] \in Planificando
    PROVE  t = u
  BY DEF InvPlan, Admitio, Uno

(* UnHiloEnOrden in these terms.                                           *)
LEMMA EnOrden ==
    ASSUME TypeInv, InvPlan
    PROVE  UnHiloEnOrden
  <1>1. DOMAIN creador = 1 .. Len(creador)
    BY LenProperties DEF TypeInv, TypeOK
  <1> QED BY <1>1 DEF UnHiloEnOrden, InvPlan, InvUno, Uno, Orden, EnMano, Tiene, Serie


(* The steps of the others: no thread enters or leaves the planning.       *)
LEMMA AjenoPlan ==
    ASSUME InvPlan, UNCHANGED <<pcb, creador, colas, carrera, caido>>,
           \A u \in Clientes : pc'[u] = pc[u] \/ (pc[u] \notin Planificando /\ pc'[u] \notin Planificando)
    PROVE  InvPlan'
  <1>1. \A u \in Clientes : pc'[u] \in Planificando => Admitio(u)'
    BY DEF InvPlan, Admitio
  <1>2. ASSUME Uno' PROVE InvUno'
    <2>1. Uno /\ InvUno
      BY <1>2 DEF Uno, InvPlan
    <2>2. ASSUME NEW p \in {"push_ready", "push_new"} PROVE Tiene(pc', pcb, p) = Tiene(pc, pcb, p)
      <3>1. \A u \in Clientes : pc'[u] = p <=> pc[u] = p
        BY DEF Planificando, EnLlamada
      <3>2. CASE \E u \in Clientes : pc[u] = p
        <4>1. PICK u \in Clientes : pc[u] = p
          BY <3>2
        <4>2. \A v \in Clientes : pc[v] = p => v = u
          BY <2>1, <4>1, UnSoloHilo DEF Planificando, EnLlamada
        <4>3. Tiene(pc, pcb, p) = <<pcb[u]>>
          BY <4>1, <4>2, TieneUno
        <4>4. Tiene(pc', pcb, p) = <<pcb[u]>>
          BY <3>1, <4>1, <4>2, TieneUno
        <4> QED BY <4>3, <4>4
      <3>3. CASE \A u \in Clientes : pc[u] # p
        BY <3>1, <3>3, TieneNadie
      <3> QED BY <3>2, <3>3
    <2>3. \A u \in Clientes : pc'[u] \in {"sacar", "pop_new"} => colaNew # <<>>
      BY <2>1 DEF InvUno, Planificando, EnLlamada
    <2> QED BY <2>1, <2>2, <2>3 DEF InvUno, colas
  <1> QED BY <1>1, <1>2 DEF InvPlan

LEMMA RecibeAjeno ==
    ASSUME TypeInv, NEW t \in Clientes, PasoCliente(t) \/ Recibe(t)
    PROVE  /\ UNCHANGED <<pcb, creador, colas, carrera, caido>>
           /\ \A u \in Clientes : pc'[u] = pc[u] \/ (pc[u] \notin Planificando /\ pc'[u] \notin Planificando)
  <1>1. CASE PasoCliente(t)
    BY <1>1 DEF PasoCliente, Conecta, MandaCodigo, MandaEstado, Manda, Cierra, hilos
  <1>2. CASE Recibe(t)
    <2>1. UNCHANGED <<pcb, creador, colas, carrera, caido>>
      BY <1>2 DEF Recibe, Acepta, LlamaCop, LeeCop, Desconecta, LlamaEstado, LeeEstado, CortaEstado
    <2>2. pc[t] \notin Planificando
      BY <1>2 DEF Recibe, Acepta, LlamaCop, LeeCop, Desconecta, LlamaEstado, LeeEstado, CortaEstado,
                  Planificando, EnLlamada
    <2>3. \E p \in {"cop", "en_cop", "estado", "en_estado", "crear", "fin"} : pc' = [pc EXCEPT ![t] = p]
      BY <1>2, DestinoEsLugar DEF Recibe, Acepta, LlamaCop, LeeCop, Desconecta, LlamaEstado, LeeEstado,
                                  CortaEstado, Va
    <2> QED BY <2>1, <2>2, <2>3 DEF Planificando, EnLlamada, TypeInv, TypeOK
  <1> QED BY <1>1, <1>2

(* A thread that plans, with the queues and hands it leaves.               *)
LEMMA PlanificaPlan ==
    ASSUME TypeInv, InvPlan, NEW t \in Clientes, Planifica(t)
    PROVE  InvPlan'
  <1> DEFINE R == colaReady  N == colaNew  n == Len(creador)
  <1>1. /\ R \in Seq(Nat) /\ N \in Seq(Nat) /\ pcb[t] \in Nat /\ n \in Nat
        /\ DOMAIN creador = 1 .. n /\ creador \in Seq(Clientes)
    BY LenProperties DEF TypeInv, TypeOK
  <1>2. /\ \A u \in Clientes \ {t} : pc'[u] = pc[u] /\ pcb'[u] = pcb[u]
        /\ pc'[t] = pc[t] \/ pc[t] = "crear" \/ pc[t] \in Planificando
    BY DEF Planifica, GeneraEstructuras, PushNew, PruebaNew, SacaNew, PopNew, PushReady, Cae,
           Entra, Sale, Va, Planificando, EnLlamada, TypeInv, TypeOK
  (* Who plans has created.                                                *)
  <1>3. CASE GeneraEstructuras(t)
    <2>1. /\ creador' = Append(creador, t) /\ pcb'[t] = n + 1 /\ pc'[t] = "push_new"
          /\ pc[t] = "crear" /\ UNCHANGED <<colas, caido>>
      BY <1>3 DEF GeneraEstructuras, Entra, Va, TypeInv, TypeOK
    <2>2. /\ Len(creador') = n + 1 /\ DOMAIN creador' = 1 .. n + 1
          /\ \A i \in 1 .. n : creador'[i] = creador[i]
          /\ creador'[n + 1] = t
      BY <1>1, <2>1, AppendProperties, LenProperties
    <2>3. \A u \in Clientes : pc'[u] \in Planificando => Admitio(u)'
      <3>1. Admitio(t)'
        <4>1. n + 1 \in DOMAIN creador' /\ creador'[n + 1] = t
          BY <1>1, <2>2
        <4> QED BY <4>1 DEF Admitio
      <3>2. ASSUME NEW u \in Clientes \ {t}, pc[u] \in Planificando PROVE Admitio(u)'
        BY <1>1, <2>2, <3>2 DEF Admitio, InvPlan
      <3> QED BY <1>2, <3>1, <3>2
    <2>4. ASSUME Uno' PROVE InvUno'
      <3>1. Uno /\ \A i \in 1 .. n : creador[i] = t
        <4>1. \A i, j \in 1 .. n + 1 : creador'[i] = creador'[j]
          BY <2>2, <2>4 DEF Uno
        <4>2. \A i \in 1 .. n : i \in 1 .. n + 1
          BY <1>1
        <4>3. n + 1 \in 1 .. n + 1
          BY <1>1
        <4>4. \A i \in 1 .. n : creador[i] = t
          BY <2>2, <4>1, <4>2, <4>3
        <4> QED BY <1>1, <4>4 DEF Uno
      <3>2. \A u \in Clientes : pc[u] \notin Planificando
        BY <1>1, <2>1, <3>1 DEF InvPlan, Admitio, Planificando, EnLlamada
      <3>3. InvUno
        BY <3>1 DEF InvPlan
      <3>4. Tiene(pc, pcb, "push_ready") = <<>> /\ Tiene(pc, pcb, "push_new") = <<>>
        BY <3>2, TieneNadie DEF Planificando, EnLlamada
      <3>5. Tiene(pc', pcb', "push_ready") = <<>> /\ Tiene(pc', pcb', "push_new") = <<n + 1>>
        <4>1. \A u \in Clientes : pc'[u] # "push_ready" /\ (pc'[u] = "push_new" => u = t)
          BY <1>2, <2>1, <3>2 DEF Planificando, EnLlamada
        <4> QED BY <2>1, <4>1, TieneNadie, TieneUno
      <3>6. R \o N = Serie(n)
        <4>1. Orden(R, <<>>, N, <<>>) = R \o N
          BY <1>1, OrdenTramos
        <4> QED BY <3>3, <3>4, <4>1 DEF InvUno
      <3>7. Orden(R, <<>>, N, <<n + 1>>) = Serie(n + 1)
        <4>1. n + 1 \in Nat
          BY <1>1
        <4>2. Orden(R, <<>>, N, <<n + 1>>) = Append(R \o N, n + 1)
          BY <1>1, <4>1, OrdenTramos
        <4> QED BY <1>1, <3>6, <4>2, SerieSigue
      <3>8. carrera' = {}
        <4>1. {u \in Clientes \ {t} : pc[u] \in SobreNew} = {}
          BY <3>2 DEF SobreNew, Planificando, EnLlamada
        <4> QED BY <1>3, <3>3, <4>1 DEF GeneraEstructuras, Entra, InvUno
      <3>9. \A u \in Clientes : pc'[u] \notin {"sacar", "pop_new"}
        BY <1>2, <2>1, <3>2 DEF Planificando, EnLlamada
      <3> QED BY <2>1, <2>2, <3>3, <3>5, <3>7, <3>8, <3>9 DEF InvUno, colas
    <2> QED BY <2>3, <2>4 DEF InvPlan
  <1>4. CASE ~GeneraEstructuras(t)
    <2>1. pc[t] \in Planificando /\ creador' = creador
      BY <1>4 DEF Planifica, PushNew, PruebaNew, SacaNew, PopNew, PushReady, Cae,
                  Planificando, EnLlamada
    <2>2. \A u \in Clientes : pc'[u] \in Planificando => Admitio(u)'
      BY <1>2, <2>1 DEF InvPlan, Admitio
    <2>3. ASSUME Uno' PROVE InvUno'
      <3>1. Uno /\ InvUno
        BY <2>1, <2>3 DEF Uno, InvPlan
      <3>2. \A u \in Clientes \ {t} : pc[u] \notin Planificando /\ pc'[u] \notin Planificando
        BY <1>2, <2>1, <3>1, UnSoloHilo
      <3>3. carrera = {} /\ ~caido /\ t \notin carrera
        BY <3>1 DEF InvUno
      <3>4. ASSUME NEW p \in {"push_ready", "push_new"}
            PROVE  /\ Tiene(pc, pcb, p) = IF pc[t] = p THEN <<pcb[t]>> ELSE <<>>
                   /\ Tiene(pc', pcb', p) = IF pc'[t] = p THEN <<pcb'[t]>> ELSE <<>>
        <4>1. \A u \in Clientes \ {t} : pc[u] # p /\ pc'[u] # p
          BY <3>2 DEF Planificando, EnLlamada
        <4>2. Tiene(pc, pcb, p) = IF pc[t] = p THEN <<pcb[t]>> ELSE <<>>
          <5>1. CASE pc[t] = p
            BY <4>1, <5>1, TieneUno
          <5>2. CASE pc[t] # p
            BY <4>1, <5>2, TieneNadie
          <5> QED BY <5>1, <5>2
        <4>3. Tiene(pc', pcb', p) = IF pc'[t] = p THEN <<pcb'[t]>> ELSE <<>>
          <5>1. CASE pc'[t] = p
            BY <4>1, <5>1, TieneUno
          <5>2. CASE pc'[t] # p
            BY <4>1, <5>2, TieneNadie
          <5> QED BY <5>1, <5>2
        <4> QED BY <4>2, <4>3
      <3>5. \A u \in Clientes \ {t} : pc'[u] \notin {"sacar", "pop_new"}
        BY <3>2 DEF Planificando, EnLlamada
      <3>6. Orden(R, Tiene(pc, pcb, "push_ready"), N, Tiene(pc, pcb, "push_new")) = Serie(n)
        BY <3>1 DEF InvUno
      <3>7. \A p : \A L : Entra(t, p, L) /\ L \subseteq Planificando => carrera' = {}
        <4> SUFFICES ASSUME NEW p, NEW L, Entra(t, p, L), L \subseteq Planificando PROVE carrera' = {}
          OBVIOUS
        <4>1. {u \in Clientes \ {t} : pc[u] \in L} = {}
          BY <3>2
        <4> QED BY <3>3, <4>1 DEF Entra
      <3>8. CASE PushNew(t)
        <4>1. /\ pc[t] = "push_new" /\ pc'[t] = "probar" /\ carrera' = {}
              /\ colaNew' = Append(N, pcb[t]) /\ UNCHANGED <<colaReady, caido, creador>>
          BY <3>3, <3>8 DEF PushNew, Sale, Va, TypeInv, TypeOK
        <4>2. Orden(R, <<>>, Append(N, pcb[t]), <<>>) = Orden(R, <<>>, N, <<pcb[t]>>)
          <5>1. Append(N, pcb[t]) \in Seq(Nat)
            BY <1>1, AppendProperties
          <5>2. Orden(R, <<>>, Append(N, pcb[t]), <<>>) = R \o Append(N, pcb[t])
            BY <1>1, <5>1, OrdenTramos
          <5>3. /\ R \o Append(N, pcb[t]) = Append(R \o N, pcb[t])
                /\ Orden(R, <<>>, N, <<pcb[t]>>) = Append(R \o N, pcb[t])
            BY <1>1, OrdenTramos
          <5> QED BY <5>2, <5>3
        <4> QED BY <3>3, <3>4, <3>5, <3>6, <4>1, <4>2 DEF InvUno
      <3>9. CASE PruebaNew(t)
        <4>1. /\ pc[t] = "probar" /\ UNCHANGED <<pcb, creador, colas, carrera, caido>>
              /\ pc'[t] = IF colaNew # <<>> THEN "sacar" ELSE "cop"
          BY <3>9 DEF PruebaNew, Va, HayNuevos, TypeInv, TypeOK
        <4> QED BY <3>3, <3>4, <3>5, <3>6, <4>1 DEF InvUno, colas
      <3>10. CASE SacaNew(t)
        <4>1. /\ pc[t] = "sacar" /\ UNCHANGED <<pcb, creador, colas, caido>>
              /\ pc'[t] = "pop_new" /\ carrera' = {}
          <5>1. carrera' = {}
            BY <3>7, <3>10 DEF SacaNew, SobreNew, Planificando, EnLlamada
          <5> QED BY <3>10, <5>1 DEF SacaNew, Entra, Va, TypeInv, TypeOK
        <4>2. colaNew # <<>>
          BY <3>1, <4>1 DEF InvUno
        <4> QED BY <3>3, <3>4, <3>5, <3>6, <4>1, <4>2 DEF InvUno, colas
      <3>11. CASE PopNew(t)
        <4>1. /\ pc[t] = "pop_new" /\ N # <<>> /\ colaNew' = Tail(N) /\ pcb'[t] = Head(N)
              /\ pc'[t] = "push_ready" /\ carrera' = {} /\ UNCHANGED <<colaReady, creador, caido>>
          <5>1. carrera' = {}
            BY <3>7, <3>11 DEF PopNew, SobreReady, Planificando, EnLlamada
          <5> QED BY <3>3, <3>11, <5>1 DEF PopNew, Entra, Va, TypeInv, TypeOK
        <4>2. Orden(R, <<Head(N)>>, Tail(N), <<>>) = Orden(R, <<>>, N, <<>>)
          <5>1. Head(N) \in Nat /\ Tail(N) \in Seq(Nat)
            BY <1>1, <4>1, HeadTailProperties
          <5>2. Orden(R, <<Head(N)>>, Tail(N), <<>>) = Append(R, Head(N)) \o Tail(N)
            BY <1>1, <5>1, OrdenTramos
          <5>3. /\ Append(R, Head(N)) \o Tail(N) = R \o N
                /\ Orden(R, <<>>, N, <<>>) = R \o N
            BY <1>1, <4>1, OrdenTramos
          <5> QED BY <5>2, <5>3
        <4> QED BY <3>3, <3>4, <3>5, <3>6, <4>1, <4>2 DEF InvUno
      <3>12. CASE PushReady(t)
        <4>1. /\ pc[t] = "push_ready" /\ pc'[t] = "probar" /\ carrera' = {}
              /\ colaReady' = Append(R, pcb[t]) /\ UNCHANGED <<colaNew, creador, caido>>
          BY <3>3, <3>12 DEF PushReady, Encola, Sale, Va, TypeInv, TypeOK
        <4>2. Orden(Append(R, pcb[t]), <<>>, N, <<>>) = Orden(R, <<pcb[t]>>, N, <<>>)
          <5>1. Append(R, pcb[t]) \in Seq(Nat)
            BY <1>1, AppendProperties
          <5>2. Orden(Append(R, pcb[t]), <<>>, N, <<>>) = Append(R, pcb[t]) \o N
            BY <1>1, <5>1, OrdenTramos
          <5>3. Orden(R, <<pcb[t]>>, N, <<>>) = Append(R, pcb[t]) \o N
            BY <1>1, OrdenTramos
          <5> QED BY <5>2, <5>3
        <4> QED BY <3>3, <3>4, <3>5, <3>6, <4>1, <4>2 DEF InvUno
      <3>13. ~Cae(t)
        BY <3>1, <3>3 DEF Cae, InvUno
      <3> QED BY <1>4, <3>8, <3>9, <3>10, <3>11, <3>12, <3>13 DEF Planifica
    <2> QED BY <2>2, <2>3 DEF InvPlan
  <1> QED BY <1>3, <1>4

LEMMA PlanSiempre == Spec => []InvPlan
  <1>1. ASSUME Init PROVE InvPlan
    <2>1. Len(creador) = 0 /\ Serie(0) = <<>> /\ colaReady = <<>> /\ colaNew = <<>>
      BY <1>1 DEF Init, Serie
    <2>2. \A u \in Clientes : pc[u] = "sin"
      BY <1>1 DEF Init
    <2>3. Tiene(pc, pcb, "push_ready") = <<>> /\ Tiene(pc, pcb, "push_new") = <<>>
      BY <2>2, TieneNadie
    <2>4. Orden(<<>>, <<>>, <<>>, <<>>) = <<>>
      BY DEF Orden
    <2> QED BY <1>1, <2>1, <2>2, <2>3, <2>4 DEF Init, InvPlan, InvUno, Planificando, EnLlamada
  <1>2. TypeInv /\ InvPlan /\ [Next]_vars => InvPlan'
    <2> SUFFICES ASSUME TypeInv, InvPlan, [Next]_vars PROVE InvPlan'
      OBVIOUS
    <2>1. CASE UNCHANGED vars
      BY <2>1, AjenoPlan DEF vars, hilos
    <2>2. CASE Next
      BY <2>2, Pasos, RecibeAjeno, AjenoPlan, PlanificaPlan
    <2> QED BY <2>1, <2>2
  <1> QED BY <1>1, <1>2, TiposPlanificador, PTL DEF Spec

(* The missing lock on COLA_NEW and COLA_READY, and the test of            *)
(* queue_is_empty before queue_pop, bring the Kernel down only once two    *)
(* threads have admitted carpinchos.                                       *)
THEOREM CaerPideDosHilos == Spec => []CaidaPideDos
  <1>1. InvPlan => CaidaPideDos
    BY DEF InvPlan, InvUno, Uno, CaidaPideDos
  <1> QED BY <1>1, PlanSiempre, PTL

(* planificar_nuevo_cpncho_FIFO: with one thread admitting, no carpincho   *)
(* is lost, none is doubled and none overtakes another.                    *)
THEOREM UnHiloNoPierde == Spec => []UnHiloEnOrden
  BY EnOrden, TiposPlanificador, PlanSiempre, PTL
=============================================================================
