--------------------------- MODULE Paquetes_proofs ---------------------------
(***************************************************************************)
(* What the two packet formats do to the words of a connection, for every  *)
(* payload and whatever follows the packet.                                *)
(***************************************************************************)
EXTENDS Paquetes, SequenceTheorems, TLAPS

(* Every sender's packet is a sequence of words.                           *)
LEMMA TramasEnPalabras ==
    ASSUME NEW cod \in Palabra, NEW datos \in Seq(Palabra),
           NEW pid \in Palabra, NEW memo \in Palabra
    PROVE  /\ Cuerpo(cod, datos) \in Seq(Palabra)
           /\ Len(Cuerpo(cod, datos)) = 2 + Len(datos)
           /\ TramaCarpincho(cod, datos, pid, memo) \in Seq(Palabra)
           /\ TramaPlana(cod, datos) \in Seq(Palabra)
<1>1. <<cod, TamPalabra * Len(datos)>> \in Seq(Palabra)
  BY DEF Palabra, TamPalabra
<1>2. /\ Cuerpo(cod, datos) \in Seq(Palabra)
      /\ Len(Cuerpo(cod, datos)) = 2 + Len(datos)
  BY <1>1, ConcatProperties DEF Cuerpo
<1>3. <<pid, memo>> \in Seq(Palabra)
  OBVIOUS
<1>4. TramaCarpincho(cod, datos, pid, memo) \in Seq(Palabra)
  BY <1>2, <1>3, ConcatProperties DEF TramaCarpincho
<1>5. (IF PlanoConPid THEN <<Indef, Indef>> ELSE <<>>) \in Seq(Palabra)
  <2>1. <<Indef, Indef>> \in Seq(Palabra)
    BY DEF Palabra
  <2>2. <<>> \in Seq(Palabra)
    BY EmptySeq
  <2> QED BY <2>1, <2>2
<1>6. TramaPlana(cod, datos) \in Seq(Palabra)
  BY <1>2, <1>5, ConcatProperties DEF TramaPlana
<1> QED BY <1>2, <1>4, <1>6

(* What a reader returns is a packet: also when the peer closed.           *)
LEMMA RecibeTipo ==
    ASSUME NEW fmt \in Formatos, NEW ws \in Seq(Palabra)
    PROVE  Recibe(fmt, ws) \in Paquete
<1>1. CASE ~Completo(fmt, ws)
  <2>1. LeeCortado \in Paquete
    BY DEF LeeCortado, Paquete, ERROR, Palabra
  <2> QED BY <1>1, <2>1 DEF Recibe
<1>2. CASE Completo(fmt, ws)
  <2> DEFINE l == Largo(fmt, ws[2])
  <2>1. ws[2] \in Nat /\ l \in Nat /\ l >= 2 /\ l <= Len(ws)
        /\ (TieneCola(fmt) => l >= 4)
    BY <1>2 DEF Completo, Largo, TamPalabra
  <2>2. Len(ws) \in Nat /\ \A i \in 1 .. Len(ws) : ws[i] \in Palabra
    BY ElementOfSeq, LenProperties
  <2>3. CodigoLeido(ws[1], ws[2]) \in Palabra
    BY <2>1, <2>2 DEF CodigoLeido, ERROR, Palabra
  <2>4. (IF TieneCola(fmt) THEN ws[l - 1] ELSE Indef) \in Palabra
    <3>1. TieneCola(fmt) => l - 1 \in 1 .. Len(ws)
      BY <2>1, <2>2
    <3> QED BY <3>1, <2>2 DEF Palabra
  <2>5. (IF TieneCola(fmt) THEN ws[l] ELSE Indef) \in Palabra
    <3>1. l \in 1 .. Len(ws)
      BY <2>1, <2>2
    <3> QED BY <3>1, <2>2 DEF Palabra
  <2>6. SubSeq(ws, l + 1, Len(ws)) \in Seq(Palabra)
    <3>1. \A i \in (l + 1) .. Len(ws) : ws[i] \in Palabra
      BY <2>1, <2>2
    <3>2. l + 1 \in Int /\ Len(ws) \in Int
      BY <2>1, <2>2
    <3> HIDE DEF l
    <3> QED BY <3>1, <3>2, SubSeqProperties
  <2>7. Lee(fmt, ws) \in Paquete
    BY <2>3, <2>4, <2>5, <2>6 DEF Lee, Paquete
  <2> QED BY <1>2, <2>7 DEF Recibe
<1> QED BY <1>1, <1>2

(* What is left of a connection from its m-th word on.                     *)
LEMMA ColaDeSeq ==
    ASSUME NEW ws \in Seq(Palabra), NEW m \in Nat \ {0}, m <= Len(ws) + 1
    PROVE  /\ SubSeq(ws, m, Len(ws)) \in Seq(Palabra)
           /\ Len(SubSeq(ws, m, Len(ws))) = Len(ws) - m + 1
           /\ \A i \in 1 .. Len(ws) - m + 1 : SubSeq(ws, m, Len(ws))[i] = ws[m + i - 1]
<1> DEFINE n == Len(ws)
<1>1. n \in Nat
  BY LenProperties
<1>2. \A i \in m .. n : ws[i] \in Palabra
  BY ElementOfSeq
<1> HIDE DEF n
<1>3. /\ SubSeq(ws, m, n) \in Seq(Palabra)
      /\ Len(SubSeq(ws, m, n)) = IF m <= n THEN n - m + 1 ELSE 0
      /\ \A i \in 1 .. n - m + 1 : SubSeq(ws, m, n)[i] = ws[m + i - 1]
  BY <1>1, <1>2, SubSeqProperties
<1>4. Len(SubSeq(ws, m, n)) = n - m + 1
  BY <1>1, <1>3 DEF n
<1> QED BY <1>3, <1>4 DEF n

(* ws holds a carpincho packet with a payload of n words, and then resto.  *)
EsTrama(ws, cod, n, pid, memo, resto) ==
    /\ n \in Nat /\ Len(resto) \in Nat
    /\ ws \in Seq(Palabra) /\ Len(ws) = 4 + n + Len(resto)
    /\ ws[1] = cod /\ ws[2] = 4 * n
    /\ ws[3 + n] = pid /\ ws[4 + n] = memo
    /\ \A i \in 1 .. Len(resto) : ws[4 + n + i] = resto[i]

LEMMA PalabrasDeTrama ==
    ASSUME NEW cod \in Palabra, NEW datos \in Seq(Palabra),
           NEW pid \in Palabra, NEW memo \in Palabra, NEW resto \in Seq(Palabra)
    PROVE  EsTrama(TramaCarpincho(cod, datos, pid, memo) \o resto,
                   cod, Len(datos), pid, memo, resto)
<1> DEFINE c == Cuerpo(cod, datos)
           t == TramaCarpincho(cod, datos, pid, memo)
           n == Len(datos)
           ws == t \o resto
<1>1. n \in Nat /\ Len(resto) \in Nat
  BY LenProperties
<1>2. c \in Seq(Palabra) /\ t \in Seq(Palabra) /\ Len(c) = 2 + n
  BY TramasEnPalabras
<1>3. c[1] = cod /\ c[2] = 4 * n
  <2>1. <<cod, TamPalabra * Len(datos)>> \in Seq(Palabra)
    BY <1>1 DEF Palabra, TamPalabra
  <2> QED BY <2>1, <1>1, ConcatProperties DEF Cuerpo, TamPalabra
<1>4. Len(t) = 4 + n /\ \A i \in 1 .. 4 + n :
          t[i] = IF i <= 2 + n THEN c[i] ELSE <<pid, memo>>[i - (2 + n)]
  <2>1. <<pid, memo>> \in Seq(Palabra) /\ Len(<<pid, memo>>) = 2
    OBVIOUS
  <2>2. t = c \o <<pid, memo>>
    BY DEF TramaCarpincho
  <2> HIDE DEF c, t, n
  <2> QED BY <2>1, <2>2, <1>1, <1>2, ConcatProperties
<1>5. t[1] = cod /\ t[2] = 4 * n /\ t[3 + n] = pid /\ t[4 + n] = memo
  <2> HIDE DEF c, t, n
  <2> QED BY <1>1, <1>3, <1>4
<1>6. /\ ws \in Seq(Palabra)
      /\ Len(ws) = 4 + n + Len(resto)
      /\ \A i \in 1 .. Len(ws) : ws[i] = IF i <= 4 + n THEN t[i] ELSE resto[i - (4 + n)]
  <2>1. /\ ws \in Seq(Palabra)
        /\ Len(ws) = Len(t) + Len(resto)
        /\ \A i \in 1 .. Len(t) + Len(resto) :
              ws[i] = IF i <= Len(t) THEN t[i] ELSE resto[i - Len(t)]
    <3> HIDE DEF c, t, n
    <3> QED BY <1>2, ConcatProperties
  <2> HIDE DEF c, t, n, ws
  <2> QED BY <1>4, <2>1
<1>7. ws[1] = cod /\ ws[2] = 4 * n /\ ws[3 + n] = pid /\ ws[4 + n] = memo
  <2> HIDE DEF c, t, n, ws
  <2> QED BY <1>1, <1>5, <1>6
<1>8. \A i \in 1 .. Len(resto) : ws[4 + n + i] = resto[i]
  <2> HIDE DEF c, t, n, ws
  <2> QED BY <1>1, <1>6
<1>9. EsTrama(ws, cod, n, pid, memo, resto)
  <2> HIDE DEF c, t, n, ws
  <2> QED BY <1>1, <1>6, <1>7, <1>8 DEF EsTrama
<1> QED BY <1>9

(* The reader of such a packet.                                            *)
LEMMA LeeTrama ==
    ASSUME NEW cod, NEW n \in Nat \ {0}, NEW pid, NEW memo, NEW resto \in Seq(Palabra),
           NEW ws, EsTrama(ws, cod, n, pid, memo, resto)
    PROVE  /\ Completo("carpincho", ws)
           /\ Lee("carpincho", ws).cod = cod
           /\ Lee("carpincho", ws).pid = pid
           /\ Lee("carpincho", ws).memo = memo
           /\ Lee("carpincho", ws).resto = resto
<1>1. Largo("carpincho", ws[2]) = 4 + n
  <2>1. (4 * n) \div 4 = n
    BY DEF EsTrama
  <2> QED BY <2>1 DEF EsTrama, Largo, TieneCola, TamPalabra
<1>2. Completo("carpincho", ws)
  BY <1>1 DEF EsTrama, Completo
<1>3. SubSeq(ws, 5 + n, Len(ws)) = resto
  <2>1. ws \in Seq(Palabra) /\ 5 + n \in Nat \ {0} /\ 5 + n <= Len(ws) + 1
    BY DEF EsTrama
  <2>3. /\ SubSeq(ws, 5 + n, Len(ws)) \in Seq(Palabra)
        /\ Len(SubSeq(ws, 5 + n, Len(ws))) = Len(ws) - (5 + n) + 1
        /\ \A i \in 1 .. Len(ws) - (5 + n) + 1 :
              SubSeq(ws, 5 + n, Len(ws))[i] = ws[5 + n + i - 1]
    BY <2>1, ColaDeSeq
  <2> DEFINE cola == SubSeq(ws, 5 + n, Len(ws))
  <2>4. Len(cola) = Len(resto)
    BY <2>3 DEF EsTrama
  <2>5. \A i \in 1 .. Len(resto) : cola[i] = resto[i]
    <3> SUFFICES ASSUME NEW i \in 1 .. Len(resto) PROVE cola[i] = resto[i]
      OBVIOUS
    <3>1. i \in 1 .. Len(ws) - (5 + n) + 1 /\ 5 + n + i - 1 = 4 + n + i
      BY DEF EsTrama
    <3> HIDE DEF cola
    <3> QED BY <2>3, <3>1 DEF EsTrama, cola
  <2>6. cola \in Seq(Palabra)
    BY <2>3
  <2> HIDE DEF cola
  <2>7. cola = resto
    BY <2>4, <2>5, <2>6, SeqEqual
  <2> QED BY <2>7 DEF cola
<1>4. CodigoLeido(ws[1], ws[2]) = cod
  BY DEF EsTrama, CodigoLeido
<1>5. (4 + n) - 1 = 3 + n /\ (4 + n) + 1 = 5 + n
  BY DEF EsTrama
<1>6. /\ Lee("carpincho", ws).cod = cod /\ Lee("carpincho", ws).pid = pid
      /\ Lee("carpincho", ws).memo = memo /\ Lee("carpincho", ws).resto = resto
  BY <1>1, <1>3, <1>4, <1>5 DEF EsTrama, Lee, TieneCola
<1> QED BY <1>2, <1>6

(* A carpincho packet with a payload arrives: its reader gets the code,    *)
(* pid and memoria_a_alocar that were sent and leaves exactly what follows *)
(* (enviar_mensaje_carpincho and recibir_mensaje_carpincho agree).         *)
THEOREM TramaCarpinchoLlega ==
    ASSUME NEW cod \in Palabra, NEW datos \in Seq(Palabra), datos # <<>>,
           NEW pid \in Palabra, NEW memo \in Palabra, NEW resto \in Seq(Palabra),
           NEW ws, ws = TramaCarpincho(cod, datos, pid, memo) \o resto
    PROVE  /\ Completo("carpincho", ws)
           /\ Lee("carpincho", ws).cod = cod
           /\ Lee("carpincho", ws).pid = pid
           /\ Lee("carpincho", ws).memo = memo
           /\ Lee("carpincho", ws).resto = resto
<1> DEFINE n == Len(datos)
<1>1. EsTrama(ws, cod, n, pid, memo, resto)
  BY PalabrasDeTrama
<1>2. n # 0
  BY EmptySeq
<1>3. n \in Nat \ {0}
  BY <1>1, <1>2 DEF EsTrama
<1> HIDE DEF n
<1> QED BY <1>1, <1>3, LeeTrama

(* A carpincho packet without payload never arrives as what it is: the     *)
(* recv of zero bytes makes recibir_mensaje_carpincho report ERROR.        *)
THEOREM TramaVaciaEsError ==
    ASSUME NEW cod \in Palabra, NEW pid \in Palabra, NEW memo \in Palabra,
           NEW resto \in Seq(Palabra),
           NEW ws, ws = TramaCarpincho(cod, <<>>, pid, memo) \o resto
    PROVE  Completo("carpincho", ws) /\ Lee("carpincho", ws).cod = ERROR
<1>1. <<>> \in Seq(Palabra) /\ Len(<<>>) = 0
  BY EmptySeq
<1>2. EsTrama(ws, cod, Len(<<>>), pid, memo, resto)
  BY <1>1, PalabrasDeTrama
<1>3. Len(resto) \in Nat /\ Len(ws) = 4 + Len(resto) /\ ws[2] = 0
  BY <1>1, <1>2 DEF EsTrama
<1>4. Completo("carpincho", ws)
  BY <1>3 DEF Completo, Largo, TieneCola, TamPalabra
<1>5. Lee("carpincho", ws).cod = ERROR
  BY <1>3 DEF Lee, CodigoLeido
<1> QED BY <1>4, <1>5

(* What is behind the payload of such a packet.                            *)
TrasCarga(ws, n) == SubSeq(ws, 3 + n, Len(ws))

(* Two words and then resto.                                               *)
EsCola(cola, pid, memo, resto) ==
    /\ Len(cola) = 2 + Len(resto)
    /\ cola[1] = pid /\ cola[2] = memo
    /\ \A i \in 1 .. Len(resto) : cola[2 + i] = resto[i]

LEMMA ColaDeTrama ==
    ASSUME NEW cod, NEW n \in Nat \ {0}, NEW pid, NEW memo, NEW resto \in Seq(Palabra),
           NEW ws, EsTrama(ws, cod, n, pid, memo, resto)
    PROVE  EsCola(TrasCarga(ws, n), pid, memo, resto)
<1>0. PICK cola : cola = TrasCarga(ws, n)
  OBVIOUS
<1>1. /\ Len(cola) = Len(ws) - (3 + n) + 1
      /\ \A i \in 1 .. Len(ws) - (3 + n) + 1 : cola[i] = ws[3 + n + i - 1]
  <2>1. ws \in Seq(Palabra) /\ 3 + n \in Nat \ {0} /\ 3 + n <= Len(ws) + 1
    BY DEF EsTrama
  <2> QED BY <1>0, <2>1, ColaDeSeq DEF TrasCarga
<1>2. Len(cola) = 2 + Len(resto)
  BY <1>1 DEF EsTrama
<1>3. \A i \in 1 .. 2 + Len(resto) : cola[i] = ws[2 + n + i]
  <2> SUFFICES ASSUME NEW i \in 1 .. 2 + Len(resto) PROVE cola[i] = ws[2 + n + i]
    OBVIOUS
  <2>1. i \in 1 .. Len(ws) - (3 + n) + 1 /\ 3 + n + i - 1 = 2 + n + i
    BY DEF EsTrama
  <2> QED BY <1>1, <2>1
<1>4. cola[1] = pid /\ cola[2] = memo
  <2>1. 1 \in 1 .. 2 + Len(resto) /\ 2 \in 1 .. 2 + Len(resto)
        /\ 2 + n + 1 = 3 + n /\ 2 + n + 2 = 4 + n
    BY DEF EsTrama
  <2> QED BY <1>3, <2>1 DEF EsTrama
<1>5. \A i \in 1 .. Len(resto) : cola[2 + i] = resto[i]
  <2>1. \A i \in 1 .. Len(resto) : 2 + i \in 1 .. 2 + Len(resto) /\ 2 + n + (2 + i) = 4 + n + i
    BY DEF EsTrama
  <2> QED BY <1>3, <2>1 DEF EsTrama
<1> QED BY <1>0, <1>2, <1>4, <1>5 DEF EsCola

(* The plain reader of such a packet, when plain packets end at their      *)
(* payload.                                                                *)
LEMMA LeeTramaPlana ==
    ASSUME ~PlanoConPid,
           NEW cod, NEW n \in Nat \ {0}, NEW pid, NEW memo, NEW resto \in Seq(Palabra),
           NEW ws, EsTrama(ws, cod, n, pid, memo, resto)
    PROVE  /\ Completo("plano", ws)
           /\ Lee("plano", ws).cod = cod
           /\ Lee("plano", ws).resto = TrasCarga(ws, n)
<1>1. Largo("plano", ws[2]) = 2 + n
  <2>1. (4 * n) \div 4 = n
    BY DEF EsTrama
  <2> QED BY <2>1 DEF EsTrama, Largo, TieneCola, TamPalabra
<1>2. Completo("plano", ws)
  BY <1>1 DEF EsTrama, Completo
<1>3. (2 + n) + 1 = 3 + n /\ ws[2] # 0
  BY DEF EsTrama
<1>4. Lee("plano", ws).cod = cod /\ Lee("plano", ws).resto = TrasCarga(ws, n)
  BY <1>1, <1>3 DEF EsTrama, Lee, CodigoLeido, TrasCarga
<1> QED BY <1>2, <1>4

(* A carpincho packet read with the plain reader, as every greeting after  *)
(* the first is: if plain packets end at their payload, the pid and        *)
(* memoria_a_alocar of the greeting stay in the connection, in front of    *)
(* the request that comes next.                                            *)
THEOREM PlanoDejaCola ==
    ASSUME ~PlanoConPid,
           NEW cod \in Palabra, NEW datos \in Seq(Palabra), datos # <<>>,
           NEW pid \in Palabra, NEW memo \in Palabra, NEW resto \in Seq(Palabra),
           NEW ws, ws = TramaCarpincho(cod, datos, pid, memo) \o resto
    PROVE  /\ Completo("plano", ws)
           /\ Lee("plano", ws).cod = cod
           /\ Len(Lee("plano", ws).resto) = 2 + Len(resto)
           /\ Lee("plano", ws).resto[1] = pid
           /\ Lee("plano", ws).resto[2] = memo
           /\ \A i \in 1 .. Len(resto) : Lee("plano", ws).resto[2 + i] = resto[i]
<1> DEFINE n == Len(datos)
<1>1. EsTrama(ws, cod, n, pid, memo, resto)
  BY PalabrasDeTrama
<1>2. n # 0
  BY EmptySeq
<1>3. n \in Nat \ {0}
  BY <1>1, <1>2 DEF EsTrama
<1> HIDE DEF n
<1>4. /\ Completo("plano", ws) /\ Lee("plano", ws).cod = cod
      /\ Lee("plano", ws).resto = TrasCarga(ws, n)
  BY <1>1, <1>3, LeeTramaPlana
<1>5. PICK cola : cola = TrasCarga(ws, n)
  OBVIOUS
<1>6. /\ Len(cola) = 2 + Len(resto) /\ cola[1] = pid /\ cola[2] = memo
      /\ \A i \in 1 .. Len(resto) : cola[2 + i] = resto[i]
  <2>1. EsCola(TrasCarga(ws, n), pid, memo, resto)
    BY <1>1, <1>3, ColaDeTrama
  <2> QED BY <1>5, <2>1 DEF EsCola
<1> QED BY <1>4, <1>5, <1>6

(* A plain packet of two words: its reader gets the code and leaves        *)
(* nothing, whatever the missing file writes after the payload.            *)
LEMMA PlanaDeDos ==
    ASSUME NEW cod \in Palabra, NEW x \in Palabra, NEW y \in Palabra,
           NEW ws, ws = TramaPlana(cod, <<x, y>>)
    PROVE  /\ ws \in Seq(Palabra) /\ ws # <<>>
           /\ <<>> \o ws = ws
           /\ Completo("plano", ws)
           /\ ws[3] = x
           /\ Recibe("plano", ws).cod = cod
           /\ Recibe("plano", ws).resto = <<>>
<1> DEFINE c == Cuerpo(cod, <<x, y>>)
           k == IF PlanoConPid THEN <<Indef, Indef>> ELSE <<>>
<1>1. /\ c \in Seq(Palabra) /\ Len(c) = 4
      /\ c[1] = cod /\ c[2] = 8 /\ c[3] = x
  <2>1. c = <<cod, 8>> \o <<x, y>>
    BY DEF Cuerpo, TamPalabra
  <2>2. <<cod, 8>> \in Seq(Palabra) /\ <<x, y>> \in Seq(Palabra)
    BY DEF Palabra
  <2>3. Len(<<cod, 8>>) = 2 /\ Len(<<x, y>>) = 2
    OBVIOUS
  <2> HIDE DEF c
  <2>4. /\ c \in Seq(Palabra) /\ Len(c) = 4
        /\ \A i \in 1 .. 4 : c[i] = IF i <= 2 THEN <<cod, 8>>[i] ELSE <<x, y>>[i - 2]
    BY <2>1, <2>2, <2>3, ConcatProperties
  <2> QED BY <2>4
<1>2. k \in Seq(Palabra) /\ Len(k) = IF PlanoConPid THEN 2 ELSE 0
  <2>1. CASE PlanoConPid
    BY <2>1 DEF Palabra
  <2>2. CASE ~PlanoConPid
    BY <2>2, EmptySeq
  <2> QED BY <2>1, <2>2
<1>3. ws = c \o k
  BY DEF TramaPlana
<1> HIDE DEF c, k
<1>4. /\ ws \in Seq(Palabra) /\ Len(ws) = IF PlanoConPid THEN 6 ELSE 4
      /\ ws[1] = cod /\ ws[2] = 8 /\ ws[3] = x
  <2>1. /\ ws \in Seq(Palabra) /\ Len(ws) = Len(c) + Len(k)
        /\ \A i \in 1 .. Len(c) + Len(k) :
              ws[i] = IF i <= Len(c) THEN c[i] ELSE k[i - Len(c)]
    <3>1. c \in Seq(Palabra) /\ k \in Seq(Palabra)
      BY <1>1, <1>2
    <3> QED BY <3>1, <1>3, ConcatProperties
  <2>2. Len(k) \in 0 .. 2 /\ (Len(k) = IF PlanoConPid THEN 2 ELSE 0)
    BY <1>2
  <2>3. Len(ws) = IF PlanoConPid THEN 6 ELSE 4
    BY <1>1, <2>1, <2>2
  <2>4. \A i \in 1 .. 4 : ws[i] = c[i]
    <3>1. \A i \in 1 .. 4 : i \in 1 .. Len(c) + Len(k) /\ i <= Len(c)
      BY <1>1, <2>2
    <3> QED BY <2>1, <3>1
  <2>5. c[1] = cod /\ c[2] = 8 /\ c[3] = x
    BY <1>1
  <2> QED BY <2>1, <2>3, <2>4, <2>5
<1>5. Largo("plano", 8) = Len(ws)
  <2>1. 8 \div TamPalabra = 2
    BY DEF TamPalabra
  <2> QED BY <1>4, <2>1 DEF Largo, TieneCola
<1>6. Completo("plano", ws)
  BY <1>4, <1>5 DEF Completo
<1>7. SubSeq(ws, Len(ws) + 1, Len(ws)) = <<>>
  <2>1. Len(ws) + 1 \in Nat \ {0} /\ Len(ws) + 1 <= Len(ws) + 1 /\ Len(ws) - (Len(ws) + 1) + 1 = 0
    BY <1>4
  <2>2. /\ SubSeq(ws, Len(ws) + 1, Len(ws)) \in Seq(Palabra)
        /\ Len(SubSeq(ws, Len(ws) + 1, Len(ws))) = 0
    BY <1>4, <2>1, ColaDeSeq
  <2> QED BY <2>2, EmptySeq
<1>8. Recibe("plano", ws).cod = cod /\ Recibe("plano", ws).resto = <<>>
  BY <1>4, <1>5, <1>6, <1>7 DEF Recibe, Lee, CodigoLeido
<1>9. ws # <<>> /\ <<>> \o ws = ws
  BY <1>4, ConcatEmptySeq, EmptySeq
<1> QED BY <1>4, <1>6, <1>8, <1>9

(* A carpincho packet whose payload is a pointer, alone in its connection. *)
LEMMA CarpinchoDePuntero ==
    ASSUME NEW cod \in Palabra, NEW pid \in Palabra, NEW memo \in Palabra,
           NEW ws, ws = TramaCarpincho(cod, Puntero, pid, memo)
    PROVE  /\ ws \in Seq(Palabra) /\ ws # <<>>
           /\ <<>> \o ws = ws
           /\ Completo("carpincho", ws)
           /\ Recibe("carpincho", ws).cod = cod /\ Recibe("carpincho", ws).pid = pid
           /\ Recibe("carpincho", ws).memo = memo /\ Recibe("carpincho", ws).resto = <<>>
<1>1. Puntero \in Seq(Palabra) /\ Puntero # <<>> /\ <<>> \in Seq(Palabra)
  BY DEF Puntero, Palabra
<1>2. ws \in Seq(Palabra)
  BY <1>1, TramasEnPalabras
<1>3. ws = ws \o <<>> /\ <<>> \o ws = ws
  BY <1>2, ConcatEmptySeq
<1>4. ws = TramaCarpincho(cod, Puntero, pid, memo) \o <<>>
  BY <1>3
<1>5. EsTrama(ws, cod, 2, pid, memo, <<>>)
  <2>1. EsTrama(TramaCarpincho(cod, Puntero, pid, memo) \o <<>>, cod, Len(Puntero), pid, memo, <<>>)
    BY <1>1, PalabrasDeTrama
  <2> QED BY <1>4, <2>1 DEF Puntero
<1>6. /\ Completo("carpincho", ws)
      /\ Lee("carpincho", ws).cod = cod /\ Lee("carpincho", ws).pid = pid
      /\ Lee("carpincho", ws).memo = memo /\ Lee("carpincho", ws).resto = <<>>
  <2> DEFINE n == 2
             resto == <<>>
  <2>1. n \in Nat \ {0} /\ resto \in Seq(Palabra) /\ EsTrama(ws, cod, n, pid, memo, resto)
    BY <1>1, <1>5
  <2>2. resto = <<>>
    OBVIOUS
  <2> HIDE DEF n, resto
  <2>3. Completo("carpincho", ws)
    BY <2>1, LeeTrama
  <2>4. Lee("carpincho", ws).cod = cod
    BY <2>1, LeeTrama
  <2>5. Lee("carpincho", ws).pid = pid
    BY <2>1, LeeTrama
  <2>6. Lee("carpincho", ws).memo = memo
    BY <2>1, LeeTrama
  <2>7. Lee("carpincho", ws).resto = resto
    BY <2>1, LeeTrama
  <2> QED BY <2>2, <2>3, <2>4, <2>5, <2>6, <2>7
<1>7. ws # <<>>
  BY <1>6 DEF Completo
<1> QED BY <1>2, <1>3, <1>6, <1>7 DEF Recibe

(* Such a packet, alone in its connection, read with the plain reader: the *)
(* two words that format does not know stay behind.                        *)
LEMMA PunteroMalLeido ==
    ASSUME ~PlanoConPid,
           NEW cod \in Palabra, NEW pid \in Palabra, NEW memo \in Palabra,
           NEW ws, ws = TramaCarpincho(cod, Puntero, pid, memo)
    PROVE  Recibe("plano", ws).cod = cod /\ Recibe("plano", ws).resto = <<pid, memo>>
<1>1. PICK n, nada : n = Len(Puntero) /\ nada = <<>>
  OBVIOUS
<1>2. /\ n \in Nat \ {0} /\ Puntero \in Seq(Palabra)
      /\ nada \in Seq(Palabra) /\ Len(nada) = 0
  BY <1>1 DEF Puntero, Palabra
<1>3. ws \in Seq(Palabra) /\ ws = ws \o nada
  BY <1>1, <1>2, TramasEnPalabras, ConcatEmptySeq
<1>4. EsTrama(ws, cod, n, pid, memo, nada)
  <2>1. EsTrama(TramaCarpincho(cod, Puntero, pid, memo) \o nada, cod, Len(Puntero), pid, memo, nada)
    BY <1>2, PalabrasDeTrama
  <2> QED BY <1>1, <1>3, <2>1
<1>5. PICK r : r = TrasCarga(ws, n)
  OBVIOUS
<1>6. Completo("plano", ws) /\ Lee("plano", ws).cod = cod /\ Lee("plano", ws).resto = r
  <2>0. n \in Nat \ {0} /\ nada \in Seq(Palabra)
    BY <1>2
  <2>1. Completo("plano", ws)
    BY <2>0, <1>4, LeeTramaPlana
  <2>2. Lee("plano", ws).cod = cod
    BY <2>0, <1>4, LeeTramaPlana
  <2>3. Lee("plano", ws).resto = TrasCarga(ws, n)
    BY <2>0, <1>4, LeeTramaPlana
  <2> QED BY <1>5, <2>1, <2>2, <2>3
<1>7. Len(r) = 2 /\ r[1] = pid /\ r[2] = memo
  <2>1. EsCola(TrasCarga(ws, n), pid, memo, nada)
    BY <1>2, <1>4, ColaDeTrama
  <2> QED BY <1>2, <1>5, <2>1 DEF EsCola
<1>9. r \in Seq(Palabra)
  <2>1. "plano" \in Formatos
    BY DEF Formatos
  <2> QED BY <1>3, <1>6, <2>1, RecibeTipo DEF Recibe, Paquete
<1>10. r = <<pid, memo>>
  BY <1>7, <1>9
<1> QED BY <1>6, <1>10 DEF Recibe

(* Nothing to read: either the reader waits, or its peer closed.           *)
LEMMA NadaQueLeer == \A fmt : ~Completo(fmt, <<>>) /\ Recibe(fmt, <<>>) = LeeCortado
BY DEF Completo, Recibe
=============================================================================
