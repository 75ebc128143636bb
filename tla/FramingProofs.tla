---------------------------- MODULE FramingProofs ----------------------------
(***************************************************************************)
(* Proofs about Framing, for bytes of any base, keys and limits of any     *)
(* size: the size field means the same on every host, the relayed messages *)
(* are the frames of the peer's stream, and what a recipient finds in its  *)
(* own stream is what was relayed to it.                                   *)
(***************************************************************************)
EXTENDS Framing, TLAPS

Quads == [1 .. 4 -> Byte]

-----------------------------------------------------------------------------
(* Numbers of four bytes                                                    *)

\* The last digit of a number and the others determine it.
LEMMA DivMod ==
    ASSUME NEW q \in Nat, NEW d \in Byte
    PROVE  (d + Base * q) \div Base = q /\ (d + Base * q) % Base = d
<1>1. Base \in Nat /\ Base > 0 /\ d \in Nat /\ d < Base
  BY FramingAssumption DEF Byte
<1>. QED
  BY <1>1

LEMMA ModDiv ==
    ASSUME NEW n \in Nat
    PROVE  /\ n \div Base \in Nat /\ n % Base \in Byte
           /\ n = (n % Base) + Base * (n \div Base)
<1>1. Base \in Nat /\ Base > 0
  BY FramingAssumption
<1>. QED
  BY <1>1 DEF Byte

Word == 0 .. Base * (Base * (Base * Base)) - 1

\* Four bytes mean a number of a word.
LEMMA ValueInWord ==
    ASSUME NEW d \in Quads
    PROVE  Value(d) \in Word
<1>. DEFINE a == d[3] + Base * d[4]
            b == d[2] + Base * a
<1>1. /\ Base \in Nat /\ Base > 0
      /\ \A j \in 1 .. 4 : d[j] \in Nat /\ d[j] <= Base - 1
  BY FramingAssumption DEF Byte, Quads
<1>2. ASSUME NEW q \in Nat, NEW m \in Nat, NEW e \in Nat, q < m, e <= Base - 1
      PROVE  e + Base * q \in Nat /\ e + Base * q < Base * m
  <2>1. Base * q + Base <= Base * m
    <3>1. q + 1 <= m
      BY <1>2
    <3>2. Base * (q + 1) <= Base * m
      BY <3>1, <1>1
    <3>. QED
      BY <3>2, <1>1
  <2>2. Base * q \in Nat
    BY <1>1
  <2>. QED
    BY <2>1, <2>2, <1>1, <1>2
<1>3. a \in Nat /\ a < Base * Base
  BY <1>1, <1>2
<1>. HIDE DEF a
<1>4. b \in Nat /\ b < Base * (Base * Base)
  BY <1>1, <1>2, <1>3
<1>. HIDE DEF b
<1>5. d[1] + Base * b \in Nat /\ d[1] + Base * b < Base * (Base * (Base * Base))
  BY <1>1, <1>2, <1>4
<1>. QED
  BY <1>5, <1>1 DEF Value, Word, a, b

\* A quotient of a number below Base * m is below m.
LEMMA DivBelow ==
    ASSUME NEW n \in Nat, NEW m \in Nat, n < Base * m
    PROVE  n \div Base < m
<1>1. Base \in Nat /\ Base > 0
  BY FramingAssumption
<1>2. n \div Base \in Nat /\ n = (n % Base) + Base * (n \div Base) /\ n % Base >= 0
  BY <1>1
<1>3. ASSUME n \div Base >= m PROVE FALSE
  <2>1. Base * (n \div Base) >= Base * m
    BY <1>1, <1>2, <1>3
  <2>. QED
    BY <2>1, <1>1, <1>2
<1>. QED
  BY <1>2, <1>3

\* The bytes of a word mean that word.
LEMMA DigitsOfWord ==
    ASSUME NEW n \in Word
    PROVE  Digits(n) \in Quads /\ Value(Digits(n)) = n
<1>. DEFINE n2 == n \div Base
            n3 == n2 \div Base
            n4 == n3 \div Base
<1>1. Base \in Nat /\ Base > 0 /\ n \in Nat
  BY FramingAssumption DEF Word
<1>2. n2 \in Nat /\ n % Base \in Byte /\ n = (n % Base) + Base * n2
  BY <1>1, ModDiv
<1>3. n3 \in Nat /\ n2 % Base \in Byte /\ n2 = (n2 % Base) + Base * n3
  BY <1>2, ModDiv
<1>4. n4 \in Nat /\ n3 % Base \in Byte /\ n3 = (n3 % Base) + Base * n4
  BY <1>3, ModDiv
<1>5. n2 < Base * (Base * Base)
  BY <1>1, DivBelow DEF Word
<1>6. n3 < Base * Base
  BY <1>1, <1>2, <1>5, DivBelow
<1>7. n4 < Base
  BY <1>1, <1>3, <1>6, DivBelow
<1>8. n4 \in Byte /\ n4 % Base = n4
  BY <1>1, <1>4, <1>7 DEF Byte
<1>9. Digits(n) = <<n % Base, n2 % Base, n3 % Base, n4>>
  BY <1>8 DEF Digits
<1>. HIDE DEF n2, n3, n4
<1>10. Digits(n) \in Quads
  BY <1>2, <1>3, <1>4, <1>8, <1>9 DEF Quads
<1>11. Value(Digits(n)) = (n % Base) + Base * ((n2 % Base) + Base * ((n3 % Base) + Base * n4))
  BY <1>9 DEF Value
<1>. QED
  BY <1>2, <1>3, <1>4, <1>10, <1>11

\* Four bytes are the bytes of the number they mean.
LEMMA DigitsOfValue ==
    ASSUME NEW d \in Quads
    PROVE  Digits(Value(d)) = <<d[1], d[2], d[3], d[4]>>
<1>. DEFINE a == d[3] + Base * d[4]
            b == d[2] + Base * a
            c == d[1] + Base * b
<1>1. /\ Base \in Nat /\ Base > 0
      /\ d[1] \in Byte /\ d[2] \in Byte /\ d[3] \in Byte /\ d[4] \in Byte
  BY FramingAssumption DEF Quads
<1>2. \A q \in Nat, e \in Byte : /\ e + Base * q \in Nat
                                /\ (e + Base * q) \div Base = q /\ (e + Base * q) % Base = e
  <2>. SUFFICES ASSUME NEW q \in Nat, NEW e \in Byte
                PROVE  /\ e + Base * q \in Nat
                       /\ (e + Base * q) \div Base = q /\ (e + Base * q) % Base = e
    OBVIOUS
  <2>. QED
    BY <1>1, DivMod DEF Byte
<1>3. d[4] \in Nat
  BY <1>1 DEF Byte
<1>4. a \in Nat /\ a \div Base = d[4] /\ a % Base = d[3]
  BY <1>1, <1>2, <1>3
<1>5. b \in Nat /\ b \div Base = a /\ b % Base = d[2]
  BY <1>1, <1>2, <1>4
<1>6. c \div Base = b /\ c % Base = d[1]
  BY <1>1, <1>2, <1>5
<1>7. d[4] % Base = d[4]
  BY <1>1 DEF Byte
<1>8. Value(d) = c
  BY DEF Value
<1>. HIDE DEF a, b, c
<1>. QED
  BY <1>4, <1>5, <1>6, <1>7, <1>8 DEF Digits

\* Swapping twice is the identity, and keeps bytes bytes.
LEMMA SwappedTwice ==
    ASSUME NEW d \in Quads
    PROVE  /\ Swapped(d) \in Quads
           /\ Swapped(Swapped(d)) = d /\ <<d[1], d[2], d[3], d[4]>> = d
<1>1. <<d[1], d[2], d[3], d[4]>> = d
  BY DEF Quads
<1>2. Swapped(d) \in Quads
  BY DEF Quads, Swapped
<1>. QED
  BY <1>1, <1>2 DEF Swapped

\* The size field of a queued message is the size in little-endian, and the size
\* read from a frame is what its four bytes mean in little-endian, whatever the
\* host's order is (connection.cpp:70-74, 102-110).
THEOREM SizeFieldIsLittleEndian ==
    ASSUME native \in {"little", "big"}
    PROVE  /\ \A n \in Word : SizeField(n) = Digits(n) /\ Value(SizeField(n)) = n
           /\ \A d \in Quads : SizeOf(d) = Value(d)
<1>1. ASSUME NEW n \in Word
      PROVE  SizeField(n) = Digits(n) /\ Value(SizeField(n)) = n
  <2>. DEFINE d == Digits(n)
  <2>1. d \in Quads /\ Value(d) = n
    BY DigitsOfWord
  <2>2. Swapped(d) \in Quads /\ Swapped(Swapped(d)) = d
    BY <2>1, SwappedTwice
  <2>3. byteswap(n) = Value(Swapped(d))
    BY DEF byteswap
  <2>. HIDE DEF d
  <2>4. Digits(byteswap(n)) = Swapped(d)
    BY <2>2, <2>3, DigitsOfValue, SwappedTwice
  <2>. QED
    BY <2>1, <2>2, <2>4 DEF SizeField, bit_cast, d
<1>2. ASSUME NEW d \in Quads
      PROVE  SizeOf(d) = Value(d)
  <2>1. Swapped(d) \in Quads /\ Swapped(Swapped(d)) = d
    BY SwappedTwice
  <2>2. Digits(Value(Swapped(d))) = Swapped(d)
    BY <2>1, DigitsOfValue, SwappedTwice
  <2>3. byteswap(Value(Swapped(d))) = Value(d)
    BY <2>1, <2>2 DEF byteswap
  <2>. QED
    BY <2>3 DEF SizeOf, memcpy
<1>. QED
  BY <1>1, <1>2

-----------------------------------------------------------------------------
(* Frames                                                                   *)

\* The bytes of two sequences in a row.
LEMMA Concatenated ==
    ASSUME NEW s \in Seq(Byte), NEW t \in Seq(Byte)
    PROVE  /\ s \o t \in Seq(Byte) /\ Len(s \o t) = Len(s) + Len(t)
           /\ \A j \in 1 .. Len(s) : (s \o t)[j] = s[j]
           /\ \A j \in 1 .. Len(t) : (s \o t)[Len(s) + j] = t[j]
  OBVIOUS

\* A function on 1 .. n is a sequence.
LEMMA FunctionIsSequence ==
    ASSUME NEW S, NEW n \in Nat, NEW f \in [1 .. n -> S]
    PROVE  f \in Seq(S) /\ Len(f) = n
  OBVIOUS

\* The bytes of a frame, place by place.
LEMMA FrameBytes ==
    ASSUME NEW to \in Keys, NEW message \in Messages
    PROVE  LET f == Frame(to, message)
               n == Len(message)
           IN  /\ n \in MinMessageSize .. MaxMessageSize
               /\ f \in Seq(Byte) /\ Len(f) = GreetingsSize + n
               /\ f[1] = Prefix
               /\ \A j \in 1 .. 4 : f[1 + j] = Digits(n)[j]
               /\ \A j \in 1 .. KeySize : f[5 + j] = to[j]
               /\ \A j \in 1 .. n : f[GreetingsSize + j] = message[j]
<1>. DEFINE n == Len(message)
            d == Digits(n)
<1>1. KeySize \in Nat /\ Prefix \in Byte /\ MinMessageSize \in Nat /\ MaxMessageSize \in Nat
  BY FramingAssumption
<1>2. PICK k \in MinMessageSize .. MaxMessageSize : message \in [1 .. k -> Byte]
  BY DEF Messages
<1>3. message \in Seq(Byte) /\ n = k
  BY <1>1, <1>2
<1>4. n \in Word
  BY <1>1, <1>2, <1>3, FramingAssumption DEF Word
<1>5. d \in Seq(Byte) /\ Len(d) = 4
  <2>1. d \in [1 .. 4 -> Byte]
    BY <1>4, DigitsOfWord DEF Quads
  <2>. HIDE DEF d
  <2>. QED
    BY <2>1, FunctionIsSequence
<1>6. to \in Seq(Byte) /\ Len(to) = KeySize
  BY <1>1 DEF Keys
<1>. HIDE DEF d, n
<1>. DEFINE p == <<Prefix>>
            g == p \o d
            h == g \o to
<1>7. p \in Seq(Byte) /\ Len(p) = 1 /\ p[1] = Prefix
  BY <1>1
<1>. HIDE DEF p
<1>8. /\ g \in Seq(Byte) /\ Len(g) = 5 /\ g[1] = Prefix
      /\ \A j \in 1 .. 4 : g[1 + j] = d[j]
  <2>1. /\ p \o d \in Seq(Byte) /\ Len(p \o d) = Len(p) + Len(d)
        /\ \A j \in 1 .. Len(p) : (p \o d)[j] = p[j]
        /\ \A j \in 1 .. Len(d) : (p \o d)[Len(p) + j] = d[j]
    BY <1>5, <1>7, Concatenated, Zenon
  <2>. QED
    BY <2>1, <1>5, <1>7
<1>. HIDE DEF g
<1>9. /\ h \in Seq(Byte) /\ Len(h) = 5 + KeySize
      /\ \A j \in 1 .. 5 : h[j] = g[j]
      /\ \A j \in 1 .. KeySize : h[5 + j] = to[j]
  <2>1. /\ g \o to \in Seq(Byte) /\ Len(g \o to) = Len(g) + Len(to)
        /\ \A j \in 1 .. Len(g) : (g \o to)[j] = g[j]
        /\ \A j \in 1 .. Len(to) : (g \o to)[Len(g) + j] = to[j]
    BY <1>6, <1>8, Concatenated, Zenon
  <2>. QED
    BY <2>1, <1>1, <1>6, <1>8
<1>. HIDE DEF h
<1>10. /\ h \o message \in Seq(Byte) /\ Len(h \o message) = 5 + KeySize + Len(message)
       /\ \A j \in 1 .. 5 + KeySize : (h \o message)[j] = h[j]
       /\ \A j \in 1 .. Len(message) : (h \o message)[5 + KeySize + j] = message[j]
  <2>1. /\ h \o message \in Seq(Byte) /\ Len(h \o message) = Len(h) + Len(message)
        /\ \A j \in 1 .. Len(h) : (h \o message)[j] = h[j]
        /\ \A j \in 1 .. Len(message) : (h \o message)[Len(h) + j] = message[j]
    BY <1>3, <1>9, Concatenated, Zenon
  <2>. QED
    BY <2>1, <1>1, <1>3, <1>9
<1>11. Frame(to, message) = h \o message /\ GreetingsSize = 5 + KeySize
  BY <1>1 DEF Frame, GreetingsSize, h, g, p, d, n
<1>12. \A j \in 1 .. 4 : h[1 + j] = d[j] /\ h[1] = Prefix
  BY <1>8, <1>9
<1>. QED
  BY <1>1, <1>2, <1>3, <1>9, <1>10, <1>11, <1>12 DEF d, n

\* A stretch of the stream is a frame if its bytes are, place by place.
LEMMA FrameAt ==
    ASSUME NEW s \in Seq(Byte), NEW at \in Nat, NEW to \in Keys, NEW message \in Messages,
           at + GreetingsSize + Len(message) <= Len(s)
    PROVE  LET f == Frame(to, message)
           IN  Bytes(s, at, Len(f)) = f
                 <=> /\ s[at + 1] = Prefix
                     /\ Bytes(s, at + 1, 4) = Digits(Len(message))
                     /\ Bytes(s, at + 5, KeySize) = to
                     /\ Bytes(s, at + GreetingsSize, Len(message)) = message
<1>. DEFINE f == Frame(to, message)
            n == Len(message)
<1>1. /\ KeySize \in Nat /\ n \in Nat /\ GreetingsSize = 5 + KeySize
  BY FramingAssumption, FrameBytes DEF GreetingsSize
<1>2. /\ f \in Seq(Byte) /\ Len(f) = GreetingsSize + n
      /\ f[1] = Prefix
      /\ \A j \in 1 .. 4 : f[1 + j] = Digits(n)[j]
      /\ \A j \in 1 .. KeySize : f[5 + j] = to[j]
      /\ \A j \in 1 .. n : f[GreetingsSize + j] = message[j]
  BY FrameBytes
<1>3. /\ to = [j \in 1 .. KeySize |-> to[j]]
      /\ message = [j \in 1 .. n |-> message[j]]
      /\ Digits(n) = [j \in 1 .. 4 |-> Digits(n)[j]]
  BY DEF Keys, Messages, Digits
<1>4. f = [j \in 1 .. GreetingsSize + n |-> f[j]]
  BY <1>1, <1>2
<1>. HIDE DEF f, n
<1>5. ASSUME Bytes(s, at, Len(f)) = f
      PROVE  /\ s[at + 1] = Prefix
             /\ Bytes(s, at + 1, 4) = Digits(n)
             /\ Bytes(s, at + 5, KeySize) = to
             /\ Bytes(s, at + GreetingsSize, n) = message
  <2>1. \A j \in 1 .. GreetingsSize + n : f[j] = s[at + j]
    BY <1>5, <1>2 DEF Bytes
  <2>2. s[at + 1] = Prefix
    BY <2>1, <1>1, <1>2
  <2>3. \A j \in 1 .. 4 : s[at + 1 + j] = Digits(n)[j]
    BY <2>1, <1>1, <1>2
  <2>4. \A j \in 1 .. KeySize : s[at + 5 + j] = to[j]
    BY <2>1, <1>1, <1>2
  <2>5. \A j \in 1 .. n : s[at + GreetingsSize + j] = message[j]
    <3>. SUFFICES ASSUME NEW j \in 1 .. n PROVE s[at + GreetingsSize + j] = message[j]
      OBVIOUS
    <3>1. GreetingsSize + j \in 1 .. GreetingsSize + n
      BY <1>1
    <3>2. f[GreetingsSize + j] = s[at + (GreetingsSize + j)]
      BY <3>1, <2>1
    <3>. QED
      BY <3>2, <1>1, <1>2
  <2>. QED
    BY <2>2, <2>3, <2>4, <2>5, <1>3 DEF Bytes
<1>6. ASSUME s[at + 1] = Prefix,
             Bytes(s, at + 1, 4) = Digits(n),
             Bytes(s, at + 5, KeySize) = to,
             Bytes(s, at + GreetingsSize, n) = message
      PROVE  Bytes(s, at, Len(f)) = f
  <2>1. /\ \A j \in 1 .. 4 : s[at + 1 + j] = Digits(n)[j]
        /\ \A j \in 1 .. KeySize : s[at + 5 + j] = to[j]
        /\ \A j \in 1 .. n : s[at + GreetingsSize + j] = message[j]
    BY <1>6 DEF Bytes
  <2>2. ASSUME NEW j \in 1 .. GreetingsSize + n PROVE s[at + j] = f[j]
    <3>1. CASE j = 1
      BY <3>1, <1>2, <1>6
    <3>2. CASE j \in 2 .. 5
      <4>1. j - 1 \in 1 .. 4 /\ 1 + (j - 1) = j /\ at + 1 + (j - 1) = at + j
        BY <3>2
      <4>. QED
        BY <4>1, <2>1, <1>2
    <3>3. CASE j \in 6 .. GreetingsSize
      <4>1. j - 5 \in 1 .. KeySize /\ 5 + (j - 5) = j /\ at + 5 + (j - 5) = at + j
        BY <3>3, <1>1
      <4>. QED
        BY <4>1, <2>1, <1>2
    <3>4. CASE j \in GreetingsSize + 1 .. GreetingsSize + n
      <4>1. /\ j - GreetingsSize \in 1 .. n /\ GreetingsSize + (j - GreetingsSize) = j
            /\ at + GreetingsSize + (j - GreetingsSize) = at + j
        BY <3>4, <1>1
      <4>. QED
        BY <4>1, <2>1, <1>2
    <3>. QED
      BY <3>1, <3>2, <3>3, <3>4, <1>1
  <2>3. Bytes(s, at, Len(f)) = [j \in 1 .. GreetingsSize + n |-> f[j]]
    BY <2>2, <1>2 DEF Bytes
  <2>. QED
    BY <2>3, <1>4
<1>. QED
  BY <1>5, <1>6 DEF f, n

-----------------------------------------------------------------------------
(* Types                                                                    *)

\* A stretch within a sequence of bytes.
LEMMA BytesWithin ==
    ASSUME NEW s \in Seq(Byte), NEW at \in Nat, NEW n \in Nat, at + n <= Len(s)
    PROVE  /\ Bytes(s, at, n) \in [1 .. n -> Byte]
           /\ Bytes(s, at, n) \in Seq(Byte) /\ Len(Bytes(s, at, n)) = n
<1>1. \A j \in 1 .. n : s[at + j] \in Byte
  OBVIOUS
<1>2. Bytes(s, at, n) \in [1 .. n -> Byte]
  BY <1>1 DEF Bytes
<1>. QED
  BY <1>2, FunctionIsSequence

LEMMA Limits ==
    /\ KeySize \in Nat /\ Prefix \in Byte
    /\ MinMessageSize \in Nat /\ MaxMessageSize \in Nat
    /\ GreetingsSize = 5 + KeySize
    /\ MinMessageSize .. MaxMessageSize \subseteq Word
  BY FramingAssumption DEF GreetingsSize, Word

\* The size that the greetings of a frame announce.
LEMMA GreetingsParts ==
    ASSUME native \in {"little", "big"},
           NEW s \in Seq(Byte), NEW at \in Nat, at + GreetingsSize <= Len(s)
    PROVE  LET greetings == Bytes(s, at, GreetingsSize)
               quad == Bytes(greetings, 1, 4)
           IN  /\ greetings[1] = s[at + 1]
               /\ quad = Bytes(s, at + 1, 4) /\ quad \in Quads
               /\ SizeOf(quad) = Value(quad) /\ SizeOf(quad) \in Word
               /\ Digits(SizeOf(quad)) = quad
               /\ Bytes(greetings, 5, KeySize) = Bytes(s, at + 5, KeySize)
               /\ Bytes(greetings, 5, KeySize) \in Keys
<1>. DEFINE greetings == Bytes(s, at, GreetingsSize)
            quad == Bytes(greetings, 1, 4)
<1>1. GreetingsSize \in Nat /\ GreetingsSize = 5 + KeySize /\ KeySize \in Nat
  BY Limits
<1>2. greetings \in Seq(Byte) /\ Len(greetings) = GreetingsSize
  BY <1>1, BytesWithin
<1>3. \A j \in 1 .. GreetingsSize : greetings[j] = s[at + j]
  BY <1>1 DEF Bytes
<1>. HIDE DEF greetings
<1>4. quad \in Quads
  <2>1. 1 \in Nat /\ 4 \in Nat /\ 1 + 4 <= Len(greetings)
    BY <1>1, <1>2
  <2>2. quad \in [1 .. 4 -> Byte]
    BY <1>2, <2>1, BytesWithin
  <2>. QED
    BY <2>2 DEF Quads
<1>5. quad = Bytes(s, at + 1, 4)
  <2>1. \A j \in 1 .. 4 : greetings[1 + j] = s[at + 1 + j]
    BY <1>1, <1>3
  <2>. QED
    BY <2>1 DEF Bytes
<1>6. Bytes(greetings, 5, KeySize) = Bytes(s, at + 5, KeySize)
  <2>1. \A j \in 1 .. KeySize : greetings[5 + j] = s[at + 5 + j]
    BY <1>1, <1>3
  <2>. QED
    BY <2>1 DEF Bytes
<1>7. Bytes(greetings, 5, KeySize) \in Keys
  BY <1>1, <1>2, BytesWithin DEF Keys
<1>8. greetings[1] = s[at + 1]
  BY <1>1, <1>3
<1>. HIDE DEF quad
<1>9. SizeOf(quad) = Value(quad) /\ Value(quad) \in Word
  BY <1>4, SizeFieldIsLittleEndian, ValueInWord
<1>10. Digits(Value(quad)) = quad
  BY <1>4, DigitsOfValue, SwappedTwice
<1>. QED
  BY <1>4, <1>5, <1>6, <1>7, <1>8, <1>9, <1>10 DEF quad, greetings

\* A message is read behind its greetings.
TypedPlaces == TypeOK /\ (pc = "message" => read >= GreetingsSize)

LEMMA TypesAtInit == Init => TypeOK
<1>. SUFFICES ASSUME Init PROVE TypeOK
  OBVIOUS
<1>1. NoBytes \in Keys
  BY FramingAssumption DEF NoBytes, Keys, Byte
<1>. QED
  BY <1>1, FramingAssumption DEF Init, TypeOK

\* Every action keeps the types.
LEMMA TypesInStep == TypedPlaces /\ [Next]_vars => TypeOK'
<1>. SUFFICES ASSUME TypedPlaces, [Next]_vars PROVE TypeOK'
  OBVIOUS
<1>. USE DEF TypeOK, TypedPlaces
<1>1. ASSUME NEW b \in Byte, PeerSends(b) PROVE TypeOK'
  <2>1. stream' = Append(stream, b) /\ Len(stream) < MaxBytes
    BY <1>1 DEF PeerSends
  <2>2. stream' \in Seq(Byte) /\ Len(stream') = Len(stream) + 1
    BY <2>1
  <2>3. Len(stream') <= MaxBytes /\ read \in 0 .. Len(stream')
    BY <2>1, <2>2, FramingAssumption
  <2>. QED
    BY <1>1, <2>2, <2>3 DEF PeerSends
<1>2. CASE PeerCloses
  BY <1>2 DEF PeerCloses
<1>3. CASE ReadKey
  <2>1. read + KeySize <= Len(stream)
    BY <1>3, Limits DEF ReadKey, Arrived
  <2>2. public_key' \in Keys
    BY <1>3, <2>1, Limits, BytesWithin DEF ReadKey, Keys
  <2>3. read' \in 0 .. Len(stream)
    BY <1>3, <2>1, Limits DEF ReadKey
  <2>. QED
    BY <1>3, <2>2, <2>3 DEF ReadKey
<1>4. CASE ReadGreetings
  <2>. DEFINE greetings == Bytes(stream, read, GreetingsSize)
              size == SizeOf(Bytes(greetings, 1, 4))
  <2>1. read + GreetingsSize <= Len(stream)
    BY <1>4, Limits DEF ReadGreetings, Arrived
  <2>2. size \in Word /\ Bytes(greetings, 5, KeySize) \in Keys
    BY <2>1, GreetingsParts
  <2>3. read' \in 0 .. Len(stream)
    BY <1>4, <2>1, Limits DEF ReadGreetings
  <2>4. CASE Accepts(greetings[1], size)
    <3>1. pc' = "message" /\ message_size' = size /\ recipient' = Bytes(greetings, 5, KeySize)
      BY <1>4, <2>4 DEF ReadGreetings
    <3>2. size \in MinMessageSize .. MaxMessageSize /\ size \in Nat
      BY <2>2, <2>4, Limits DEF Accepts, Word
    <3>. QED
      BY <1>4, <2>2, <2>3, <3>1, <3>2 DEF ReadGreetings
  <2>5. CASE ~Accepts(greetings[1], size)
    BY <1>4, <2>3, <2>5 DEF ReadGreetings
  <2>. QED
    BY <2>4, <2>5
<1>5. CASE ReadMessage
  <2>. DEFINE message == Bytes(stream, read, message_size)
              queued_message == SizeField(message_size) \o public_key \o message
  <2>1. /\ read + message_size <= Len(stream) /\ message_size \in Nat
        /\ message_size \in MinMessageSize .. MaxMessageSize
    BY <1>5, Limits DEF ReadMessage, Arrived
  <2>2. message \in [1 .. message_size -> Byte] /\ message \in Seq(Byte)
    BY <2>1, BytesWithin
  <2>3. message \in Messages
    BY <2>1, <2>2 DEF Messages
  <2>4. SizeField(message_size) \in Seq(Byte)
    <3>1. message_size \in Word
      BY <2>1, Limits
    <3>2. Digits(message_size) \in [1 .. 4 -> Byte]
      BY <3>1, DigitsOfWord DEF Quads
    <3>3. Digits(message_size) \in Seq(Byte)
      BY <3>2, FunctionIsSequence
    <3>. QED
      BY <3>1, <3>3, SizeFieldIsLittleEndian
  <2>5. public_key \in Seq(Byte)
    BY Limits DEF Keys
  <2>6. queued_message \in Seq(Byte)
    <3>1. SizeField(message_size) \o public_key \in Seq(Byte)
      BY <2>4, <2>5, Concatenated, Zenon
    <3>. QED
      BY <3>1, <2>2, Concatenated, Zenon
  <2>. HIDE DEF message, queued_message
  <2>7. /\ out' = [out EXCEPT ![recipient] = @ \o queued_message]
        /\ relayed' = Append(relayed, [at |-> read - GreetingsSize, to |-> recipient,
                                       message |-> message])
        /\ read' = read + message_size /\ pc' = "greetings"
    BY <1>5 DEF ReadMessage, message, queued_message
  <2>8. /\ out' \in [Keys -> Seq(Byte)]
        /\ \A k \in Keys : Len(out'[k]) >= Len(out[k])
    <3>1. /\ out[recipient] \o queued_message \in Seq(Byte)
          /\ Len(out[recipient] \o queued_message) = Len(out[recipient]) + Len(queued_message)
      BY <2>6, Concatenated, Zenon
    <3>2. Len(queued_message) \in Nat /\ \A k \in Keys : Len(out[k]) \in Nat
      BY <2>6
    <3>. QED
      BY <2>7, <3>1, <3>2
  <2>9. read - GreetingsSize \in Nat
    BY <1>5, Limits DEF ReadMessage
  <2>10. relayed' \in Seq([at : Nat, to : Keys, message : Messages])
    BY <2>3, <2>7, <2>9
  <2>11. read' \in 0 .. Len(stream)
    BY <2>1, <2>7
  <2>12. \A k \in Keys : taken[k] <= Len(out'[k])
    <3>1. out \in [Keys -> Seq(Byte)] /\ taken \in [Keys -> Nat]
      OBVIOUS
    <3>2. \A k \in Keys : taken[k] <= Len(out[k])
      OBVIOUS
    <3>. HIDE DEF TypeOK, TypedPlaces
    <3>3. \A k \in Keys : Len(out[k]) \in Nat /\ Len(out'[k]) \in Nat /\ taken[k] \in Nat
      BY <2>8, <3>1
    <3>. QED
      BY <2>8, <3>2, <3>3
  <2>13. mail' \in [Keys -> Seq([at : Nat, message : Messages])]
    <3>. DEFINE Entries == [at : Nat, message : Messages]
                entry == [at |-> Len(out[recipient]), message |-> message]
    <3>1. recipient \in Keys /\ mail \in [Keys -> Seq(Entries)]
      OBVIOUS
    <3>2. Len(out[recipient]) \in Nat
      <4>1. out[recipient] \in Seq(Byte)
        OBVIOUS
      <4>. QED
        BY <4>1
    <3>3. entry \in Entries
      BY <2>3, <3>2
    <3>4. mail' = [mail EXCEPT ![recipient] = Append(@, entry)]
      BY <1>5 DEF ReadMessage, message
    <3>. HIDE DEF Entries, entry
    <3>5. mail' \in [Keys -> Seq(Entries)]
      BY <3>3, <3>4, <3>1
    <3>. QED
      BY <3>5 DEF Entries
  <2>. QED
    BY <1>5, <2>7, <2>8, <2>10, <2>11, <2>12, <2>13 DEF ReadMessage
<1>6. CASE ReadFails
  BY <1>6 DEF ReadFails
<1>7. ASSUME NEW k \in Keys, RecipientReads(k) PROVE TypeOK'
  <2>. DEFINE quad == Bytes(out[k], taken[k], 4)
              size == Value(quad)
              from == Bytes(out[k], taken[k] + 4, KeySize)
              message == Bytes(out[k], taken[k] + 4 + KeySize, size)
  <2>1. /\ out[k] \in Seq(Byte) /\ taken[k] \in Nat /\ Len(out[k]) \in Nat /\ KeySize \in Nat
        /\ taken[k] + 4 + KeySize <= Len(out[k])
    <3>1. HasMessage(k)
      BY <1>7 DEF RecipientReads
    <3>2. out[k] \in Seq(Byte) /\ taken[k] \in Nat /\ KeySize \in Nat
      BY Limits
    <3>3. Len(out[k]) - taken[k] >= 4 + KeySize
      BY <3>1 DEF HasMessage
    <3>. HIDE DEF TypeOK, TypedPlaces
    <3>4. Len(out[k]) \in Nat
      BY <3>2
    <3>. QED
      BY <3>2, <3>3, <3>4
  <2>2. quad \in [1 .. 4 -> Byte]
    <3>. HIDE DEF TypeOK, TypedPlaces
    <3>1. 4 \in Nat /\ taken[k] + 4 <= Len(out[k])
      BY <2>1
    <3>. QED
      BY <2>1, <3>1, BytesWithin
  <2>3. size \in Nat
    <3>1. size \in Word
      BY <2>2, ValueInWord DEF Quads
    <3>. QED
      BY <3>1 DEF Word
  <2>. HIDE DEF quad
  <2>4. taken[k] + 4 + KeySize + size <= Len(out[k])
    <3>1. HasMessage(k)
      BY <1>7 DEF RecipientReads
    <3>. HIDE DEF TypeOK, TypedPlaces
    <3>. QED
      BY <3>1, <2>1, <2>3 DEF HasMessage, quad
  <2>5. from \in Keys
    <3>. HIDE DEF TypeOK, TypedPlaces
    <3>1. taken[k] + 4 \in Nat /\ (taken[k] + 4) + KeySize <= Len(out[k])
      BY <2>1
    <3>. QED
      BY <2>1, <3>1, BytesWithin DEF Keys
  <2>6. message \in Seq(Byte)
    <3>. HIDE DEF TypeOK, TypedPlaces, size
    <3>1. taken[k] + 4 + KeySize \in Nat
      BY <2>1
    <3>2. (taken[k] + 4 + KeySize) + size <= Len(out[k])
      BY <2>4
    <3>3. Bytes(out[k], taken[k] + 4 + KeySize, size) \in Seq(Byte)
      BY <2>1, <2>3, <3>1, <3>2, BytesWithin
    <3>. QED
      BY <3>3
  <2>7. /\ seen' = [seen EXCEPT ![k] = Append(@, [from |-> from, message |-> message])]
        /\ taken' = [taken EXCEPT ![k] = @ + 4 + KeySize + size]
    BY <1>7 DEF RecipientReads, quad
  <2>. HIDE DEF from, message, size
  <2>8. seen' \in [Keys -> Seq([from : Keys, message : Seq(Byte)])]
    <3>1. [from |-> from, message |-> message] \in [from : Keys, message : Seq(Byte)]
      BY <2>5, <2>6
    <3>. DEFINE entry == [from |-> from, message |-> message]
                Entries == [from : Keys, message : Seq(Byte)]
    <3>. HIDE DEF entry, Entries
    <3>2. entry \in Entries /\ seen \in [Keys -> Seq(Entries)]
      BY <3>1 DEF entry, Entries
    <3>3. seen' = [seen EXCEPT ![k] = Append(@, entry)]
      BY <2>7 DEF entry
    <3>4. seen' \in [Keys -> Seq(Entries)]
      BY <3>2, <3>3
    <3>. QED
      BY <3>4 DEF Entries
  <2>9. taken' \in [Keys -> Nat] /\ \A o \in Keys : taken'[o] <= Len(out[o])
    <3>1. taken \in [Keys -> Nat] /\ \A o \in Keys : taken[o] <= Len(out[o])
      OBVIOUS
    <3>. HIDE DEF TypeOK, TypedPlaces
    <3>2. taken'[k] = taken[k] + 4 + KeySize + size /\ taken'[k] \in Nat
      BY <2>1, <2>3, <2>7, <3>1
    <3>. QED
      BY <2>1, <2>3, <2>4, <2>7, <3>1, <3>2
  <2>. QED
    BY <1>7, <2>8, <2>9 DEF RecipientReads
<1>8. CASE UNCHANGED vars
  BY <1>8 DEF vars
<1>. QED
  BY <1>1, <1>2, <1>3, <1>4, <1>5, <1>6, <1>7, <1>8 DEF Next

LEMMA PlacesAtInit == Init => TypedPlaces
  BY TypesAtInit DEF TypedPlaces, Init

LEMMA PlacesInStep == TypedPlaces /\ [Next]_vars => TypedPlaces'
<1>. SUFFICES ASSUME TypedPlaces, [Next]_vars PROVE pc' = "message" => read' >= GreetingsSize
  BY TypesInStep DEF TypedPlaces
<1>1. GreetingsSize' = GreetingsSize /\ read \in Nat /\ GreetingsSize \in Nat
  BY Limits DEF TypedPlaces, TypeOK
<1>. USE <1>1 DEF TypedPlaces
<1>2. CASE ReadGreetings
  BY <1>2 DEF ReadGreetings
<1>3. CASE ReadKey \/ ReadMessage \/ ReadFails
  BY <1>3 DEF ReadKey, ReadMessage, ReadFails
<1>4. CASE PeerCloses \/ UNCHANGED vars \/ \E b \in Byte : PeerSends(b)
  BY <1>4 DEF PeerCloses, PeerSends, vars
<1>5. CASE \E k \in Keys : RecipientReads(k)
  BY <1>5 DEF RecipientReads
<1>. QED
  BY <1>2, <1>3, <1>4, <1>5 DEF Next

\* Type correctness: what is read, queued and found by a recipient are bytes within
\* what was sent, for every stream (connection.cpp:38-115).
THEOREM FramingTypes == Spec => []TypeOK
<1>1. Spec => []TypedPlaces
  BY PlacesAtInit, PlacesInStep, PTL DEF Spec
<1>2. TypedPlaces => TypeOK
  BY DEF TypedPlaces
<1>. QED
  BY <1>1, <1>2, PTL

-----------------------------------------------------------------------------
(* Frames of the stream                                                     *)

\* The greetings of the frame whose message is waited for.
GreetingsRead ==
    LET start == FrameStart(Len(relayed))
    IN  /\ read = start + GreetingsSize
        /\ stream[start + 1] = Prefix
        /\ Bytes(stream, start + 1, 4) = Digits(message_size)
        /\ Bytes(stream, start + 5, KeySize) = recipient

\* What RelayedAsSent and EndsOnlyAtMalformed need in addition: where the loop is in
\* the stream, and that it has read what it relayed.
FramingInv ==
    /\ TypedPlaces
    /\ RelayedAsSent
    /\ \A n \in 1 .. Len(relayed) : FrameStart(n) <= read
    /\ pc = "key" => read = 0 /\ relayed = <<>>
    /\ pc = "greetings" => read = FrameStart(Len(relayed))
    /\ pc = "message" => GreetingsRead
    /\ EndsOnlyAtMalformed

LEMMA RelayedLength ==
    ASSUME TypeOK
    PROVE  /\ Len(relayed) \in Nat /\ DOMAIN relayed = 1 .. Len(relayed)
           /\ Len(relayed) \in 0 .. Len(relayed)
<1>. DEFINE Entries == [at : Nat, to : Keys, message : Messages]
<1>. HIDE DEF Entries
<1>1. relayed \in Seq(Entries)
  BY DEF TypeOK, Entries
<1>. QED
  BY <1>1

\* The starts of frames are places, one behind the other.
LEMMA FrameStarts ==
    ASSUME TypeOK
    PROVE  \A n \in 0 .. Len(relayed) :
               /\ FrameStart(n) \in Nat
               /\ n > 0 => /\ relayed[n].at \in Nat /\ relayed[n].to \in Keys
                           /\ relayed[n].message \in Messages
                           /\ Len(relayed[n].message) \in Nat
                           /\ FrameStart(n) = relayed[n].at + GreetingsSize
                                                + Len(relayed[n].message)
<1>. SUFFICES ASSUME NEW n \in 0 .. Len(relayed)
              PROVE  /\ FrameStart(n) \in Nat
                     /\ n > 0 => /\ relayed[n].at \in Nat /\ relayed[n].to \in Keys
                                 /\ relayed[n].message \in Messages
                                 /\ Len(relayed[n].message) \in Nat
                                 /\ FrameStart(n) = relayed[n].at + GreetingsSize
                                                      + Len(relayed[n].message)
  OBVIOUS
<1>1. CASE n = 0
  BY <1>1, Limits DEF FrameStart
<1>2. CASE n > 0
  <2>. DEFINE Entries == [at : Nat, to : Keys, message : Messages]
  <2>. HIDE DEF Entries
  <2>3. relayed \in Seq(Entries) /\ n \in 1 .. Len(relayed)
    BY <1>2 DEF TypeOK, Entries
  <2>4. relayed[n] \in Entries
    BY <2>3
  <2>1. relayed[n] \in [at : Nat, to : Keys, message : Messages]
    BY <2>4 DEF Entries
  <2>2. Len(relayed[n].message) \in MinMessageSize .. MaxMessageSize
    BY <2>1, FrameBytes
  <2>. QED
    BY <1>2, <2>1, <2>2, Limits DEF FrameStart
<1>. QED
  BY <1>1, <1>2

\* A step that relays nothing moves no start of a frame.
LEMMA SameStarts ==
    ASSUME relayed' = relayed
    PROVE  \A n \in 0 .. Len(relayed) : FrameStart(n)' = FrameStart(n)
  BY DEF FrameStart, GreetingsSize

LEMMA FramesAtInit == Init => FramingInv
<1>. SUFFICES ASSUME Init PROVE FramingInv
  OBVIOUS
<1>1. TypedPlaces /\ relayed = <<>> /\ pc = "key" /\ read = 0
  BY PlacesAtInit DEF Init
<1>. QED
  BY <1>1 DEF FramingInv, RelayedAsSent, EndsOnlyAtMalformed

\* Bytes that arrive change no frame that was relayed.
LEMMA RelayedStays ==
    ASSUME FramingInv, TypeOK', relayed' = relayed, Len(stream) <= Len(stream'),
           \A j \in 1 .. Len(stream) : stream'[j] = stream[j]
    PROVE  RelayedAsSent'
<1>. SUFFICES ASSUME NEW n \in DOMAIN relayed
              PROVE  LET frame == Frame(relayed[n].to, relayed[n].message)
                     IN  /\ relayed[n].at = FrameStart(n - 1)'
                         /\ Bytes(stream', relayed[n].at, Len(frame)) = frame
  BY DEF RelayedAsSent
<1>. DEFINE frame == Frame(relayed[n].to, relayed[n].message)
<1>1. TypeOK /\ RelayedAsSent /\ n \in 1 .. Len(relayed) /\ FrameStart(n) <= read
  BY RelayedLength DEF FramingInv, TypedPlaces
<1>2. /\ relayed[n].at \in Nat
      /\ relayed[n].to \in Keys /\ relayed[n].message \in Messages
      /\ FrameStart(n) = relayed[n].at + GreetingsSize + Len(relayed[n].message)
  BY <1>1, FrameStarts
<1>3. Len(frame) = GreetingsSize + Len(relayed[n].message) /\ Len(frame) \in Nat
  BY <1>2, FrameBytes
<1>4. relayed[n].at = FrameStart(n - 1) /\ Bytes(stream, relayed[n].at, Len(frame)) = frame
  BY <1>1 DEF RelayedAsSent
<1>5. FrameStart(n - 1)' = FrameStart(n - 1)
  <2>1. n - 1 \in 0 .. Len(relayed)
    BY <1>1
  <2>. QED
    BY <2>1, SameStarts
<1>. HIDE DEF frame
<1>6. Bytes(stream', relayed[n].at, Len(frame)) = Bytes(stream, relayed[n].at, Len(frame))
  <2>1. \A j \in 1 .. Len(frame) : relayed[n].at + j \in 1 .. Len(stream)
    <3>1. Len(stream) \in Nat /\ read <= Len(stream) /\ read \in Nat /\ GreetingsSize \in Nat
      BY <1>1, Limits DEF TypeOK
    <3>2. Len(relayed[n].message) \in Nat
      BY <1>2, FrameBytes, Limits
    <3>. QED
      <4>1. relayed[n].at + Len(frame) <= Len(stream)
        BY <1>1, <1>2, <1>3, <3>1
      <4>. QED
        BY <1>2, <1>3, <3>1, <4>1
  <2>2. \A j \in 1 .. Len(frame) : stream'[relayed[n].at + j] = stream[relayed[n].at + j]
    BY <2>1
  <2>. QED
    BY <2>2 DEF Bytes
<1>. QED
  BY <1>4, <1>5, <1>6 DEF frame

\* A loop that has ended where no frame follows stays there.
LEMMA EndStays ==
    ASSUME FramingInv, relayed' = relayed, stream' = stream, pc' = pc
    PROVE  EndsOnlyAtMalformed'
<1>1. TypeOK /\ EndsOnlyAtMalformed /\ Len(relayed) \in 0 .. Len(relayed)
  BY RelayedLength DEF FramingInv, TypedPlaces
<1>2. FrameStart(Len(relayed))' = FrameStart(Len(relayed))
  BY <1>1, SameStarts
<1>. QED
  BY <1>1, <1>2 DEF EndsOnlyAtMalformed

\* The steps that neither read nor relay.
LEMMA OthersKeepFrames ==
    FramingInv /\ (PeerCloses \/ (\E k \in Keys : RecipientReads(k)) \/ UNCHANGED vars)
        => FramingInv'
<1>. SUFFICES ASSUME FramingInv,
                     PeerCloses \/ (\E k \in Keys : RecipientReads(k)) \/ UNCHANGED vars
              PROVE  FramingInv'
  OBVIOUS
<1>1. UNCHANGED <<native, stream, read, pc, message_size, recipient, relayed>>
  BY DEF PeerCloses, RecipientReads, vars
<1>2. [Next]_vars
  BY DEF Next
<1>3. TypedPlaces' /\ TypeOK'
  BY <1>2, PlacesInStep DEF FramingInv, TypedPlaces
<1>4. TypeOK /\ Len(relayed) \in 0 .. Len(relayed)
  BY RelayedLength DEF FramingInv, TypedPlaces
<1>5. RelayedAsSent'
  <2>1. Len(stream) <= Len(stream') /\ \A j \in 1 .. Len(stream) : stream'[j] = stream[j]
    BY <1>1, <1>4 DEF TypeOK
  <2>. QED
    BY <1>1, <1>3, <2>1, RelayedStays
<1>6. \A n \in 0 .. Len(relayed) : FrameStart(n)' = FrameStart(n)
  BY <1>1, SameStarts
<1>7. \A n \in 1 .. Len(relayed') : FrameStart(n)' <= read'
  <2>1. \A n \in 1 .. Len(relayed) : n \in 0 .. Len(relayed) /\ FrameStart(n) <= read
    BY <1>4 DEF FramingInv
  <2>. QED
    BY <1>1, <1>6, <2>1
<1>8. pc' = "message" => GreetingsRead'
  BY <1>1, <1>4, <1>6 DEF FramingInv, GreetingsRead, GreetingsSize
<1>9. EndsOnlyAtMalformed'
  BY <1>1, EndStays
<1>10. /\ pc' = "key" => read' = 0 /\ relayed' = <<>>
       /\ pc' = "greetings" => read' = FrameStart(Len(relayed))'
  BY <1>1, <1>4, <1>6 DEF FramingInv
<1>. QED
  BY <1>3, <1>5, <1>7, <1>8, <1>9, <1>10 DEF FramingInv

\* Bytes that arrive change nothing that was read.
LEMMA PeerSendsKeepsFrames ==
    ASSUME FramingInv, NEW b \in Byte, PeerSends(b)
    PROVE  FramingInv'
<1>1. /\ UNCHANGED <<native, read, pc, message_size, recipient, relayed>>
      /\ stream' = Append(stream, b) /\ pc # "ended"
  BY DEF PeerSends
<1>2. TypedPlaces' /\ TypeOK'
  <2>1. [Next]_vars
    BY DEF Next
  <2>. QED
    BY <2>1, PlacesInStep DEF FramingInv, TypedPlaces
<1>3. TypeOK /\ Len(relayed) \in 0 .. Len(relayed)
  BY RelayedLength DEF FramingInv, TypedPlaces
<1>4. /\ stream \in Seq(Byte) /\ read \in 0 .. Len(stream) /\ Len(stream) \in Nat
  BY <1>3 DEF TypeOK
<1>5. Len(stream) <= Len(stream') /\ \A j \in 1 .. Len(stream) : stream'[j] = stream[j]
  BY <1>1, <1>4
<1>6. RelayedAsSent'
  BY <1>1, <1>2, <1>5, RelayedStays
<1>7. \A n \in 0 .. Len(relayed) : FrameStart(n)' = FrameStart(n) /\ FrameStart(n) \in Nat
  BY <1>1, <1>3, SameStarts, FrameStarts
<1>8. \A n \in 1 .. Len(relayed') : FrameStart(n)' <= read'
  <2>1. \A n \in 1 .. Len(relayed) : n \in 0 .. Len(relayed) /\ FrameStart(n) <= read
    BY <1>3 DEF FramingInv
  <2>. QED
    BY <1>1, <1>7, <2>1
<1>9. ASSUME pc' = "message" PROVE GreetingsRead'
  <2>. DEFINE start == FrameStart(Len(relayed))
  <2>1. /\ read = start + GreetingsSize
        /\ stream[start + 1] = Prefix
        /\ Bytes(stream, start + 1, 4) = Digits(message_size)
        /\ Bytes(stream, start + 5, KeySize) = recipient
    BY <1>1, <1>9 DEF FramingInv, GreetingsRead
  <2>2. start \in Nat /\ KeySize \in Nat /\ start + 5 + KeySize <= Len(stream)
    BY <1>3, <1>4, <1>7, <2>1, Limits
  <2>3. FrameStart(Len(relayed))' = start
    BY <1>1, <1>3, <1>7
  <2>. HIDE DEF start
  <2>4. stream'[start + 1] = stream[start + 1]
    BY <1>5, <2>2
  <2>5. Bytes(stream', start + 1, 4) = Bytes(stream, start + 1, 4)
    <3>1. \A j \in 1 .. 4 : stream'[start + 1 + j] = stream[start + 1 + j]
      BY <1>5, <2>2
    <3>. QED
      BY <3>1 DEF Bytes
  <2>6. Bytes(stream', start + 5, KeySize) = Bytes(stream, start + 5, KeySize)
    <3>1. \A j \in 1 .. KeySize : stream'[start + 5 + j] = stream[start + 5 + j]
      BY <1>5, <2>2
    <3>. QED
      BY <3>1 DEF Bytes
  <2>. QED
    BY <1>1, <2>1, <2>3, <2>4, <2>5, <2>6 DEF GreetingsRead, GreetingsSize
<1>10. /\ pc' = "key" => read' = 0 /\ relayed' = <<>>
       /\ pc' = "greetings" => read' = FrameStart(Len(relayed))'
       /\ EndsOnlyAtMalformed'
  BY <1>1, <1>3, <1>7 DEF FramingInv, EndsOnlyAtMalformed
<1>. QED
  BY <1>2, <1>6, <1>8, <1>9, <1>10 DEF FramingInv

\* Reading leaves the frames that were relayed where they are.
LEMMA ReadingKeepsRelayed ==
    ASSUME FramingInv, TypeOK', UNCHANGED <<stream, relayed>>, read' >= read
    PROVE  /\ RelayedAsSent'
           /\ \A n \in 1 .. Len(relayed') : FrameStart(n)' <= read'
           /\ \A n \in 0 .. Len(relayed) : FrameStart(n)' = FrameStart(n)
                                           /\ FrameStart(n) \in Nat
<1>1. TypeOK /\ Len(relayed) \in Nat
  BY RelayedLength DEF FramingInv, TypedPlaces
<1>2. Len(stream) <= Len(stream') /\ \A j \in 1 .. Len(stream) : stream'[j] = stream[j]
  BY <1>1 DEF TypeOK
<1>3. RelayedAsSent'
  BY <1>2, RelayedStays
<1>4. \A n \in 0 .. Len(relayed) : FrameStart(n)' = FrameStart(n) /\ FrameStart(n) \in Nat
  BY <1>1, SameStarts, FrameStarts
<1>5. \A n \in 1 .. Len(relayed') : FrameStart(n)' <= read'
  <2>1. read \in Nat /\ read' \in Nat
    BY <1>1 DEF TypeOK
  <2>2. \A n \in 1 .. Len(relayed) : n \in 0 .. Len(relayed) /\ FrameStart(n) <= read
    BY <1>1 DEF FramingInv
  <2>. QED
    BY <1>4, <2>1, <2>2
<1>. QED
  BY <1>3, <1>4, <1>5

\* The key is read, and the first frame starts behind it.
LEMMA ReadKeyKeepsFrames == FramingInv /\ ReadKey => FramingInv'
<1>. SUFFICES ASSUME FramingInv, ReadKey PROVE FramingInv'
  OBVIOUS
<1>1. /\ UNCHANGED <<stream, relayed>> /\ read' = read + KeySize
      /\ pc = "key" /\ pc' = "greetings"
  BY DEF ReadKey
<1>2. TypedPlaces' /\ TypeOK' /\ TypeOK
  <2>1. [Next]_vars
    BY DEF Next
  <2>. QED
    BY <2>1, PlacesInStep DEF FramingInv, TypedPlaces
<1>3. read = 0 /\ relayed = <<>> /\ KeySize \in Nat
  BY <1>1, Limits DEF FramingInv
<1>4. read' >= read
  BY <1>1, <1>3
<1>5. FrameStart(Len(relayed))' = read'
  BY <1>1, <1>3 DEF FrameStart
<1>. QED
  BY <1>1, <1>2, <1>4, <1>5, ReadingKeepsRelayed DEF FramingInv, EndsOnlyAtMalformed

\* A frame that follows the relayed ones and is all there.
LEMMA FrameFollows ==
    ASSUME NEW s \in Seq(Byte), NEW start \in Nat, NEW to \in Keys, NEW message \in Messages,
           start + Len(Frame(to, message)) <= Len(s),
           Bytes(s, start, Len(Frame(to, message))) = Frame(to, message)
    PROVE  /\ Len(message) \in MinMessageSize .. MaxMessageSize
           /\ start + GreetingsSize + Len(message) <= Len(s)
           /\ s[start + 1] = Prefix
           /\ Bytes(s, start + 1, 4) = Digits(Len(message))
<1>1. /\ Len(message) \in MinMessageSize .. MaxMessageSize
      /\ Len(Frame(to, message)) = GreetingsSize + Len(message)
  BY FrameBytes
<1>2. start + GreetingsSize + Len(message) <= Len(s)
  BY <1>1, Limits
<1>. QED
  BY <1>1, <1>2, FrameAt

\* The greetings are accepted exactly if they begin a frame.
LEMMA ReadGreetingsKeepsFrames == FramingInv /\ ReadGreetings => FramingInv'
<1>. SUFFICES ASSUME FramingInv, ReadGreetings PROVE FramingInv'
  OBVIOUS
<1>. DEFINE greetings == Bytes(stream, read, GreetingsSize)
            quad == Bytes(greetings, 1, 4)
            size == SizeOf(quad)
            start == FrameStart(Len(relayed))
<1>1. /\ UNCHANGED <<stream, relayed>> /\ read' = read + GreetingsSize
      /\ pc = "greetings" /\ read + GreetingsSize <= Len(stream)
  <2>1. Len(stream) \in Nat /\ read \in Nat /\ GreetingsSize \in Nat
    BY Limits DEF FramingInv, TypedPlaces, TypeOK
  <2>. QED
    BY <2>1 DEF ReadGreetings, Arrived
<1>2. TypedPlaces' /\ TypeOK' /\ TypeOK
  <2>1. [Next]_vars
    BY DEF Next
  <2>. QED
    BY <2>1, PlacesInStep DEF FramingInv, TypedPlaces
<1>3. /\ read \in Nat /\ stream \in Seq(Byte) /\ native \in {"little", "big"}
      /\ Len(relayed) \in 0 .. Len(relayed) /\ GreetingsSize \in Nat
  BY <1>2, RelayedLength, Limits DEF TypeOK
<1>4. start = read /\ start \in Nat
  BY <1>1, <1>3 DEF FramingInv
<1>5. /\ greetings[1] = stream[read + 1]
      /\ quad = Bytes(stream, read + 1, 4) /\ quad \in Quads
      /\ size = Value(quad) /\ size \in Word /\ Digits(size) = quad
      /\ Bytes(greetings, 5, KeySize) = Bytes(stream, read + 5, KeySize)
  BY <1>1, <1>3, GreetingsParts
<1>6. read' >= read
  BY <1>1, <1>3
<1>7. /\ RelayedAsSent'
      /\ \A n \in 1 .. Len(relayed') : FrameStart(n)' <= read'
      /\ FrameStart(Len(relayed))' = start
  BY <1>1, <1>2, <1>3, <1>6, ReadingKeepsRelayed
<1>8. CASE Accepts(greetings[1], size)
  <2>1. /\ pc' = "message" /\ message_size' = size
        /\ recipient' = Bytes(greetings, 5, KeySize)
    BY <1>8 DEF ReadGreetings
  <2>2. greetings[1] = Prefix
    BY <1>8 DEF Accepts
  <2>. HIDE DEF greetings, quad, size, start
  <2>3. GreetingsRead'
    BY <1>1, <1>4, <1>5, <1>7, <2>1, <2>2 DEF GreetingsRead, GreetingsSize
  <2>. QED
    BY <1>2, <1>7, <2>1, <2>3 DEF FramingInv, EndsOnlyAtMalformed
<1>9. CASE ~Accepts(greetings[1], size)
  <2>1. pc' = "ended"
    BY <1>9 DEF ReadGreetings
  <2>2. ASSUME NEW to \in Keys, NEW message \in Messages,
               start + Len(Frame(to, message)) <= Len(stream),
               Bytes(stream, start, Len(Frame(to, message))) = Frame(to, message)
        PROVE  FALSE
    <3>. HIDE DEF greetings, quad, size, start
    <3>1. /\ Len(message) \in MinMessageSize .. MaxMessageSize
          /\ stream[start + 1] = Prefix
          /\ Bytes(stream, start + 1, 4) = Digits(Len(message))
      BY <1>3, <1>4, <2>2, FrameFollows
    <3>2. size = Len(message)
      <4>1. Len(message) \in Word
        BY <3>1, Limits
      <4>2. quad = Digits(Len(message))
        BY <1>4, <1>5, <3>1
      <4>. QED
        BY <1>5, <4>1, <4>2, DigitsOfWord
    <3>3. Accepts(greetings[1], size)
      BY <1>4, <1>5, <3>1, <3>2, Limits DEF Accepts
    <3>. QED
      BY <1>9, <3>3
  <2>3. EndsOnlyAtMalformed'
    <3>. HIDE DEF start
    <3>. QED
      BY <1>1, <1>7, <2>2 DEF EndsOnlyAtMalformed
  <2>. QED
    BY <1>2, <1>7, <2>1, <2>3 DEF FramingInv
<1>. QED
  BY <1>8, <1>9

\* A message that is relayed completes the frame of its greetings.
LEMMA ReadMessageKeepsFrames == FramingInv /\ ReadMessage => FramingInv'
<1>. SUFFICES ASSUME FramingInv, ReadMessage PROVE FramingInv'
  OBVIOUS
<1>. DEFINE message == Bytes(stream, read, message_size)
            start == FrameStart(Len(relayed))
            entry == [at |-> read - GreetingsSize, to |-> recipient, message |-> message]
<1>1. /\ stream' = stream /\ read' = read + message_size
      /\ pc = "message" /\ pc' = "greetings"
      /\ relayed' = Append(relayed, entry)
      /\ Len(stream) - read >= message_size
  BY DEF ReadMessage, Arrived
<1>2. TypedPlaces' /\ TypeOK' /\ TypeOK
  <2>1. [Next]_vars
    BY DEF Next
  <2>. QED
    BY <2>1, PlacesInStep DEF FramingInv, TypedPlaces
<1>3. /\ read \in Nat /\ Len(stream) \in Nat /\ stream \in Seq(Byte) /\ recipient \in Keys
      /\ message_size \in MinMessageSize .. MaxMessageSize /\ message_size \in Nat
      /\ Len(relayed) \in Nat /\ GreetingsSize \in Nat
  <2>1. Len(relayed) \in Nat
    BY <1>2, RelayedLength
  <2>2. GreetingsSize \in Nat /\ KeySize \in Nat /\ MinMessageSize \in Nat /\ MaxMessageSize \in Nat
    BY Limits
  <2>3. /\ stream \in Seq(Byte) /\ read \in 0 .. Len(stream) /\ recipient \in Keys
        /\ message_size \in MinMessageSize .. MaxMessageSize
    BY <1>1, <1>2 DEF TypeOK
  <2>. QED
    BY <2>1, <2>2, <2>3
<1>. PICK N \in Nat : N = Len(relayed) + 1
  BY <1>3
<1>4. /\ read = start + GreetingsSize /\ start \in Nat
      /\ stream[start + 1] = Prefix
      /\ Bytes(stream, start + 1, 4) = Digits(message_size)
      /\ Bytes(stream, start + 5, KeySize) = recipient
  <2>1. start \in Nat
    BY <1>2, <1>3, FrameStarts
  <2>. QED
    BY <1>1, <2>1 DEF FramingInv, GreetingsRead
<1>5. read + message_size <= Len(stream)
  BY <1>1, <1>3
<1>6. message \in Messages /\ Len(message) = message_size
  <2>1. message \in [1 .. message_size -> Byte] /\ Len(message) = message_size
    BY <1>3, <1>5, BytesWithin
  <2>. QED
    BY <1>3, <2>1 DEF Messages
<1>. HIDE DEF message
<1>7. entry.at = start /\ entry.to = recipient /\ entry.message = message
  BY <1>3, <1>4
<1>. HIDE DEF entry, start
<1>8. LET frame == Frame(recipient, message)
      IN  Bytes(stream, start, Len(frame)) = frame
  <2>1. start + GreetingsSize + Len(message) <= Len(stream)
    BY <1>4, <1>5, <1>6
  <2>2. Bytes(stream, start + GreetingsSize, Len(message)) = message
    BY <1>4, <1>6 DEF message
  <2>. QED
    BY <1>3, <1>4, <1>6, <2>1, <2>2, FrameAt
<1>9. /\ Len(relayed') = N /\ relayed'[N] = entry /\ DOMAIN relayed' = 1 .. N
      /\ \A n \in 1 .. Len(relayed) : relayed'[n] = relayed[n]
  <2>. DEFINE Entries == [at : Nat, to : Keys, message : Messages]
  <2>1. relayed \in Seq(Entries) /\ entry \in Entries
    BY <1>2, <1>3, <1>4, <1>6 DEF TypeOK, entry
  <2>. HIDE DEF Entries
  <2>. QED
    BY <1>1, <2>1
<1>10. \A n \in 0 .. Len(relayed) : FrameStart(n)' = FrameStart(n) /\ FrameStart(n) \in Nat
  <2>1. \A n \in 0 .. Len(relayed) : FrameStart(n)' = FrameStart(n)
    BY <1>3, <1>9 DEF FrameStart, GreetingsSize
  <2>. QED
    BY <2>1, <1>2, FrameStarts
<1>11. FrameStart(N)' = read' /\ read' \in Nat
  <2>1. FrameStart(N)' = relayed'[N].at + GreetingsSize + Len(relayed'[N].message)
    BY <1>3 DEF FrameStart, GreetingsSize
  <2>. QED
    BY <1>1, <1>3, <1>4, <1>6, <1>7, <1>9, <2>1
<1>12. \A n \in 1 .. Len(relayed) : FrameStart(n) <= read
  BY DEF FramingInv
<1>13. RelayedAsSent'
  <2>. SUFFICES ASSUME NEW n \in 1 .. N
                PROVE  LET frame == Frame(relayed'[n].to, relayed'[n].message)
                       IN  /\ relayed'[n].at = FrameStart(n - 1)'
                           /\ Bytes(stream, relayed'[n].at, Len(frame)) = frame
    BY <1>1, <1>9 DEF RelayedAsSent
  <2>1. CASE n = N
    <3>1. FrameStart(N - 1)' = start
      <4>1. N - 1 = Len(relayed) /\ N - 1 \in 0 .. Len(relayed)
        BY <1>3
      <4>. QED
        BY <1>10, <4>1 DEF start
    <3>. QED
      BY <1>7, <1>8, <1>9, <2>1, <3>1
  <2>2. CASE n \in 1 .. Len(relayed)
    <3>1. n - 1 \in 0 .. Len(relayed) /\ n \in DOMAIN relayed
      BY <1>2, <1>3, <2>2, RelayedLength
    <3>2. LET frame == Frame(relayed[n].to, relayed[n].message)
          IN  /\ relayed[n].at = FrameStart(n - 1)
              /\ Bytes(stream, relayed[n].at, Len(frame)) = frame
      BY <3>1 DEF FramingInv, RelayedAsSent
    <3>. QED
      BY <1>9, <1>10, <2>2, <3>1, <3>2
  <2>. QED
    BY <1>3, <2>1, <2>2
<1>14. \A n \in 1 .. Len(relayed') : FrameStart(n)' <= read'
  <2>. SUFFICES ASSUME NEW n \in 1 .. N PROVE FrameStart(n)' <= read'
    BY <1>9
  <2>1. CASE n = N
    BY <1>1, <1>3, <1>11, <2>1
  <2>2. CASE n \in 1 .. Len(relayed)
    <3>1. FrameStart(n)' = FrameStart(n) /\ FrameStart(n) \in Nat /\ FrameStart(n) <= read
      BY <1>3, <1>10, <1>12, <2>2
    <3>. QED
      BY <1>1, <1>3, <3>1
  <2>. QED
    BY <1>3, <2>1, <2>2
<1>. QED
  BY <1>1, <1>2, <1>9, <1>11, <1>13, <1>14 DEF FramingInv, EndsOnlyAtMalformed

\* A read that fails leaves no whole frame behind.
LEMMA ReadFailsKeepsFrames == FramingInv /\ ReadFails => FramingInv'
<1>. SUFFICES ASSUME FramingInv, ReadFails PROVE FramingInv'
  OBVIOUS
<1>. DEFINE start == FrameStart(Len(relayed))
<1>1. UNCHANGED <<stream, relayed, read>> /\ pc # "ended" /\ pc' = "ended" /\ ~Arrived(Wanted)
  BY DEF ReadFails
<1>2. TypedPlaces' /\ TypeOK' /\ TypeOK
  <2>1. [Next]_vars
    BY DEF Next
  <2>. QED
    BY <2>1, PlacesInStep DEF FramingInv, TypedPlaces
<1>3. /\ read \in Nat /\ Len(stream) \in Nat /\ stream \in Seq(Byte)
      /\ Len(relayed) \in 0 .. Len(relayed) /\ GreetingsSize \in Nat
      /\ GreetingsSize = 5 + KeySize /\ KeySize \in Nat
  <2>1. Len(relayed) \in 0 .. Len(relayed)
    BY <1>2, RelayedLength
  <2>2. GreetingsSize = 5 + KeySize /\ KeySize \in Nat
    BY Limits
  <2>3. stream \in Seq(Byte) /\ read \in 0 .. Len(stream)
    BY <1>2 DEF TypeOK
  <2>. QED
    BY <2>1, <2>2, <2>3
<1>4. start \in Nat
  BY <1>2, <1>3, FrameStarts
<1>5. /\ RelayedAsSent'
      /\ \A n \in 1 .. Len(relayed') : FrameStart(n)' <= read'
      /\ FrameStart(Len(relayed))' = start
  BY <1>1, <1>2, <1>3, ReadingKeepsRelayed
<1>6. ASSUME NEW to \in Keys, NEW message \in Messages,
             start + Len(Frame(to, message)) <= Len(stream),
             Bytes(stream, start, Len(Frame(to, message))) = Frame(to, message)
      PROVE  FALSE
  <2>. HIDE DEF start
  <2>1. /\ Len(message) \in MinMessageSize .. MaxMessageSize
        /\ start + GreetingsSize + Len(message) <= Len(stream)
        /\ Bytes(stream, start + 1, 4) = Digits(Len(message))
    BY <1>3, <1>4, <1>6, FrameFollows
  <2>2. Len(message) \in Nat /\ Len(message) \in Word
    BY <2>1, Limits
  <2>3. CASE pc = "key"
    <3>1. read = 0 /\ Wanted = KeySize
      BY <2>3 DEF FramingInv, Wanted
    <3>2. start = KeySize
      BY <2>3 DEF FramingInv, FrameStart, start
    <3>. QED
      BY <1>1, <1>3, <1>4, <2>1, <2>2, <3>1, <3>2 DEF Arrived
  <2>4. CASE pc = "greetings"
    <3>1. read = start /\ Wanted = GreetingsSize
      BY <2>4 DEF FramingInv, Wanted, start
    <3>. QED
      BY <1>1, <1>3, <1>4, <2>1, <2>2, <3>1 DEF Arrived
  <2>5. CASE pc = "message"
    <3>1. /\ read = start + GreetingsSize /\ Wanted = message_size
          /\ Bytes(stream, start + 1, 4) = Digits(message_size)
      BY <2>5 DEF FramingInv, GreetingsRead, Wanted, start
    <3>2. message_size \in Word
      BY <1>2, <2>5, Limits DEF TypeOK
    <3>3. message_size = Len(message)
      <4>1. Value(Digits(message_size)) = message_size
        BY <3>2, DigitsOfWord
      <4>2. Value(Digits(Len(message))) = Len(message)
        BY <2>2, DigitsOfWord
      <4>. QED
        BY <2>1, <3>1, <4>1, <4>2
    <3>. QED
      BY <1>1, <1>3, <1>4, <2>1, <2>2, <3>1, <3>3 DEF Arrived
  <2>. QED
    BY <1>1, <1>2, <2>3, <2>4, <2>5 DEF TypeOK
<1>7. EndsOnlyAtMalformed'
  <2>. HIDE DEF start
  <2>. QED
    BY <1>1, <1>5, <1>6 DEF EndsOnlyAtMalformed
<1>. QED
  BY <1>1, <1>2, <1>5, <1>7 DEF FramingInv

LEMMA FramesInStep == FramingInv /\ [Next]_vars => FramingInv'
<1>. SUFFICES ASSUME FramingInv, [Next]_vars PROVE FramingInv'
  OBVIOUS
<1>1. CASE \E b \in Byte : PeerSends(b)
  BY <1>1, PeerSendsKeepsFrames
<1>2. CASE PeerCloses \/ (\E k \in Keys : RecipientReads(k)) \/ UNCHANGED vars
  BY <1>2, OthersKeepFrames
<1>3. CASE ReadKey
  BY <1>3, ReadKeyKeepsFrames
<1>4. CASE ReadGreetings
  BY <1>4, ReadGreetingsKeepsFrames
<1>5. CASE ReadMessage
  BY <1>5, ReadMessageKeepsFrames
<1>6. CASE ReadFails
  BY <1>6, ReadFailsKeepsFrames
<1>. QED
  BY <1>1, <1>2, <1>3, <1>4, <1>5, <1>6 DEF Next

LEMMA FramesAlways == Spec => []FramingInv
  BY FramesAtInit, FramesInStep, PTL DEF Spec

\* The relayed messages are the frames of the peer's stream, one behind the other,
\* however it is cut and whatever the host's byte order is (connection.cpp:60-115).
THEOREM RelayedAreFrames == Spec => []RelayedAsSent
<1>1. FramingInv => RelayedAsSent
  BY DEF FramingInv
<1>. QED
  BY <1>1, FramesAlways, PTL

\* The loop gives up only where no well-formed frame follows: none is refused, and
\* none that has arrived is left behind (connection.cpp:64-80).
THEOREM NoFrameIsRefused == Spec => []EndsOnlyAtMalformed
<1>1. FramingInv => EndsOnlyAtMalformed
  BY DEF FramingInv
<1>. QED
  BY <1>1, FramesAlways, PTL

-----------------------------------------------------------------------------
(* The streams to the recipients                                            *)

\* Where the next queued message starts in the stream to k, after the first n.
MailEnd(k, n) ==
    IF n = 0 THEN 0
    ELSE mail[k][n].at + 4 + KeySize + Len(mail[k][n].message)

\* The stream s has a message from the peer at a place.
Holds(s, at, message) ==
    /\ Bytes(s, at, 4) = Digits(Len(message))
    /\ Bytes(s, at + 4, KeySize) = public_key
    /\ Bytes(s, at + 4 + KeySize, Len(message)) = message

\* The stream to k is its queued messages, one behind the other, of which k has found
\* the first ones and stands behind the last of these.
MailFor(k) ==
    /\ \A n \in 1 .. Len(mail[k]) :
           /\ mail[k][n].at = MailEnd(k, n - 1)
           /\ MailEnd(k, n) <= Len(out[k])
           /\ Holds(out[k], mail[k][n].at, mail[k][n].message)
    /\ MailEnd(k, Len(mail[k])) = Len(out[k])
    /\ Len(seen[k]) <= Len(mail[k])
    /\ taken[k] = MailEnd(k, Len(seen[k]))
    /\ \A n \in 1 .. Len(seen[k]) :
           seen[k][n] = [from |-> public_key, message |-> mail[k][n].message]

\* Nothing is queued before the peer's key is known.
MailInv ==
    /\ TypedPlaces
    /\ pc = "key" => \A k \in Keys : mail[k] = <<>>
    /\ \A k \in Keys : MailFor(k)

LEMMA MailTypes ==
    ASSUME TypeOK, NEW k \in Keys
    PROVE  /\ Len(mail[k]) \in Nat /\ Len(seen[k]) \in Nat /\ Len(out[k]) \in Nat
           /\ DOMAIN seen[k] = 1 .. Len(seen[k])
           /\ taken[k] \in Nat /\ out[k] \in Seq(Byte)
           /\ \A n \in 1 .. Len(mail[k]) :
                  /\ mail[k][n].at \in Nat /\ mail[k][n].message \in Messages
                  /\ Len(mail[k][n].message) \in Nat /\ Len(mail[k][n].message) \in Word
<1>. DEFINE Entries == [at : Nat, message : Messages]
            Found == [from : Keys, message : Seq(Byte)]
<1>1. /\ mail[k] \in Seq(Entries) /\ seen[k] \in Seq(Found) /\ out[k] \in Seq(Byte)
      /\ taken[k] \in Nat
  BY DEF TypeOK
<1>. HIDE DEF Entries, Found
<1>2. ASSUME NEW n \in 1 .. Len(mail[k])
      PROVE  /\ mail[k][n].at \in Nat /\ mail[k][n].message \in Messages
             /\ Len(mail[k][n].message) \in Nat /\ Len(mail[k][n].message) \in Word
  <2>1. mail[k][n] \in Entries
    BY <1>1
  <2>2. mail[k][n].at \in Nat /\ mail[k][n].message \in Messages
    BY <2>1 DEF Entries
  <2>3. Len(mail[k][n].message) \in MinMessageSize .. MaxMessageSize
    <3>1. public_key \in Keys
      BY DEF TypeOK
    <3>. QED
      BY <2>2, <3>1, FrameBytes
  <2>. QED
    BY <2>2, <2>3, Limits
<1>. QED
  BY <1>1, <1>2

\* A stretch of a sequence that another one continues.
LEMMA BytesKept ==
    ASSUME NEW s \in Seq(Byte), NEW t, \A j \in 1 .. Len(s) : t[j] = s[j],
           NEW at \in Nat, NEW n \in Nat, at + n <= Len(s)
    PROVE  Bytes(t, at, n) = Bytes(s, at, n)
<1>1. \A j \in 1 .. n : at + j \in 1 .. Len(s)
  OBVIOUS
<1>. QED
  BY <1>1 DEF Bytes

\* What is appended to a sequence is found behind it.
LEMMA BytesAppended ==
    ASSUME NEW s \in Seq(Byte), NEW n \in Nat, NEW f \in [1 .. n -> Byte]
    PROVE  /\ s \o f \in Seq(Byte) /\ Len(s \o f) = Len(s) + n
           /\ \A j \in 1 .. Len(s) : (s \o f)[j] = s[j]
           /\ Bytes(s \o f, Len(s), n) = f
<1>1. f \in Seq(Byte) /\ Len(f) = n
  BY FunctionIsSequence
<1>2. /\ s \o f \in Seq(Byte) /\ Len(s \o f) = Len(s) + Len(f)
      /\ \A j \in 1 .. Len(s) : (s \o f)[j] = s[j]
      /\ \A j \in 1 .. Len(f) : (s \o f)[Len(s) + j] = f[j]
  BY <1>1, Concatenated, Zenon
<1>3. Bytes(s \o f, Len(s), n) = f
  <2>1. Bytes(s \o f, Len(s), n) = [j \in 1 .. n |-> f[j]]
    BY <1>1, <1>2 DEF Bytes
  <2>. QED
    BY <2>1
<1>. QED
  BY <1>1, <1>2, <1>3

LEMMA Associative ==
    ASSUME NEW s \in Seq(Byte), NEW t \in Seq(Byte), NEW u \in Seq(Byte)
    PROVE  s \o (t \o u) = (s \o t) \o u
  OBVIOUS

\* A queued message behind what was queued before.
LEMMA QueuedBehind ==
    ASSUME NEW s \in Seq(Byte), public_key \in Keys, NEW message \in Messages
    PROVE  LET t == s \o (Digits(Len(message)) \o public_key \o message)
           IN  /\ t \in Seq(Byte)
               /\ Len(t) = Len(s) + 4 + KeySize + Len(message)
               /\ \A j \in 1 .. Len(s) : t[j] = s[j]
               /\ Holds(t, Len(s), message)
<1>. DEFINE n == Len(message)
            d == Digits(n)
<1>1. n \in Nat /\ n \in Word /\ message \in [1 .. n -> Byte] /\ KeySize \in Nat
  <2>1. n \in MinMessageSize .. MaxMessageSize
    BY FrameBytes
  <2>2. PICK m \in Nat : message \in [1 .. m -> Byte]
    BY Limits DEF Messages
  <2>3. n = m
    BY <2>2, FunctionIsSequence
  <2>. QED
    BY <2>1, <2>2, <2>3, Limits
<1>2. d \in [1 .. 4 -> Byte] /\ 4 \in Nat
  BY <1>1, DigitsOfWord DEF Quads
<1>3. public_key \in [1 .. KeySize -> Byte]
  BY DEF Keys
<1>. HIDE DEF n, d
<1>. DEFINE a == s \o d
            b == a \o public_key
            t == b \o message
<1>4. /\ a \in Seq(Byte) /\ Len(a) = Len(s) + 4
      /\ \A j \in 1 .. Len(s) : a[j] = s[j]
      /\ Bytes(a, Len(s), 4) = d
  BY <1>2, BytesAppended
<1>. HIDE DEF a
<1>5. /\ b \in Seq(Byte) /\ Len(b) = Len(a) + KeySize
      /\ \A j \in 1 .. Len(a) : b[j] = a[j]
      /\ Bytes(b, Len(a), KeySize) = public_key
  BY <1>1, <1>3, <1>4, BytesAppended
<1>. HIDE DEF b
<1>6. /\ t \in Seq(Byte) /\ Len(t) = Len(b) + n
      /\ \A j \in 1 .. Len(b) : t[j] = b[j]
      /\ Bytes(t, Len(b), n) = message
  BY <1>1, <1>5, BytesAppended
<1>. HIDE DEF t
<1>7. Len(s) \in Nat /\ Len(a) = Len(s) + 4 /\ Len(b) = Len(s) + 4 + KeySize
  BY <1>1, <1>4, <1>5
<1>8. Bytes(b, Len(s), 4) = d
  BY <1>4, <1>5, <1>7, BytesKept
<1>9. Bytes(t, Len(s), 4) = d /\ Bytes(t, Len(s) + 4, KeySize) = public_key
  <2>1. /\ Len(s) + 4 \in Nat /\ 4 \in Nat
        /\ Len(s) + 4 <= Len(b) /\ (Len(s) + 4) + KeySize <= Len(b)
    BY <1>1, <1>7
  <2>2. Bytes(t, Len(s), 4) = Bytes(b, Len(s), 4)
    BY <1>5, <1>6, <1>7, <2>1, BytesKept
  <2>3. Bytes(t, Len(s) + 4, KeySize) = Bytes(b, Len(s) + 4, KeySize)
    <3>1. PICK at \in Nat : at = Len(s) + 4
      BY <2>1
    <3>2. at + KeySize <= Len(b) /\ KeySize \in Nat
      BY <1>1, <2>1, <3>1
    <3>3. \A j \in 1 .. KeySize : at + j \in 1 .. Len(b)
      BY <1>5, <3>2
    <3>4. Bytes(t, at, KeySize) = Bytes(b, at, KeySize)
      BY <1>6, <3>3 DEF Bytes
    <3>. QED
      BY <3>1, <3>4
  <2>. QED
    BY <1>5, <1>7, <1>8, <2>2, <2>3
<1>10. Holds(t, Len(s), message)
  BY <1>6, <1>7, <1>9 DEF Holds, n, d
<1>11. \A j \in 1 .. Len(s) : t[j] = s[j]
  BY <1>1, <1>4, <1>5, <1>6, <1>7
<1>12. s \o (d \o public_key \o message) = t
  <2>1. /\ d \in Seq(Byte) /\ public_key \in Seq(Byte) /\ message \in Seq(Byte)
    BY <1>1, <1>2, <1>3, FunctionIsSequence
  <2>2. d \o public_key \in Seq(Byte)
    BY <2>1, Concatenated, Zenon
  <2>3. s \o ((d \o public_key) \o message) = (s \o (d \o public_key)) \o message
    BY <2>1, <2>2, Associative
  <2>4. s \o (d \o public_key) = (s \o d) \o public_key
    BY <2>1, Associative, Zenon
  <2>. QED
    BY <2>3, <2>4, Zenon DEF t, b, a
<1>. QED
  BY <1>1, <1>5, <1>6, <1>7, <1>10, <1>11, <1>12 DEF d, n

\* Where k stands, a queued message is there if and only if one is left.
LEMMA NextInMail ==
    ASSUME TypeOK, NEW k \in Keys, MailFor(k)
    PROVE  LET n == Len(seen[k]) + 1
           IN  /\ Len(seen[k]) = Len(mail[k]) <=> taken[k] = Len(out[k])
               /\ HasMessage(k) => n <= Len(mail[k])
               /\ n <= Len(mail[k]) =>
                      /\ HasMessage(k)
                      /\ taken[k] = mail[k][n].at
                      /\ Value(Bytes(out[k], taken[k], 4)) = Len(mail[k][n].message)
<1>. DEFINE n == Len(seen[k]) + 1
<1>1. /\ Len(mail[k]) \in Nat /\ Len(seen[k]) \in Nat /\ Len(out[k]) \in Nat /\ KeySize \in Nat
      /\ taken[k] \in Nat /\ Len(seen[k]) <= Len(mail[k]) /\ taken[k] = MailEnd(k, Len(seen[k]))
      /\ MailEnd(k, Len(mail[k])) = Len(out[k])
  BY MailTypes, Limits DEF MailFor
<1>2. ASSUME n <= Len(mail[k])
      PROVE  /\ HasMessage(k) /\ taken[k] = mail[k][n].at
             /\ Value(Bytes(out[k], taken[k], 4)) = Len(mail[k][n].message)
             /\ taken[k] < Len(out[k])
  <2>1. n \in 1 .. Len(mail[k]) /\ n - 1 = Len(seen[k]) /\ n # 0
    BY <1>1, <1>2
  <2>2. Len(mail[k][n].message) \in Nat /\ Len(mail[k][n].message) \in Word
    BY <2>1, MailTypes
  <2>3. /\ mail[k][n].at = taken[k]
        /\ mail[k][n].at + 4 + KeySize + Len(mail[k][n].message) <= Len(out[k])
        /\ Bytes(out[k], mail[k][n].at, 4) = Digits(Len(mail[k][n].message))
    BY <1>1, <2>1 DEF MailFor, MailEnd, Holds
  <2>4. Value(Bytes(out[k], taken[k], 4)) = Len(mail[k][n].message)
    BY <2>2, <2>3, DigitsOfWord
  <2>. HIDE DEF n
  <2>5. PICK size \in Nat : size = Len(mail[k][n].message)
    BY <2>2
  <2>6. taken[k] + 4 + KeySize + size <= Len(out[k])
    BY <2>3, <2>5
  <2>7. /\ taken[k] < Len(out[k])
        /\ Len(out[k]) - taken[k] >= 4 + KeySize
        /\ Len(out[k]) - taken[k] >= 4 + KeySize + size
    BY <1>1, <2>6
  <2>. QED
    BY <2>3, <2>4, <2>5, <2>7 DEF HasMessage
<1>3. HasMessage(k) => taken[k] # Len(out[k])
  BY <1>1 DEF HasMessage
<1>4. Len(seen[k]) = Len(mail[k]) => taken[k] = Len(out[k])
  BY <1>1
<1>5. Len(seen[k]) # Len(mail[k]) => n <= Len(mail[k])
  BY <1>1
<1>. HIDE DEF n
<1>. QED
  BY <1>1, <1>2, <1>3, <1>4, <1>5 DEF n

\* A step that touches none of the streams to the recipients.
LEMMA MailKept ==
    ASSUME NEW k \in Keys, MailFor(k), public_key' = public_key \/ mail[k] = <<>>,
           mail'[k] = mail[k], out'[k] = out[k], seen'[k] = seen[k], taken'[k] = taken[k],
           TypeOK
    PROVE  MailFor(k)'
<1>1. \A n : MailEnd(k, n)' = MailEnd(k, n)
  BY DEF MailEnd
<1>2. Len(mail[k]) \in Nat /\ Len(seen[k]) \in Nat /\ Len(seen[k]) <= Len(mail[k])
  BY MailTypes DEF MailFor
<1>3. CASE public_key' = public_key
  BY <1>1, <1>3 DEF MailFor, Holds
<1>4. CASE mail[k] = <<>>
  <2>1. Len(mail[k]) = 0 /\ Len(seen[k]) = 0
    BY <1>2, <1>4
  <2>. QED
    BY <1>1, <2>1 DEF MailFor
<1>. QED
  BY <1>3, <1>4

LEMMA ReadMessageMails ==
    ASSUME MailInv, ReadMessage, TypeOK', NEW k \in Keys
    PROVE  MailFor(k)'
<1>. DEFINE message == Bytes(stream, read, message_size)
            queued_message == SizeField(message_size) \o public_key \o message
            entry == [at |-> Len(out[recipient]), message |-> message]
<1>1. TypeOK /\ MailFor(k)
  BY DEF MailInv, TypedPlaces
<1>2. /\ public_key' = public_key /\ seen' = seen /\ taken' = taken
      /\ out' = [out EXCEPT ![recipient] = @ \o queued_message]
      /\ mail' = [mail EXCEPT ![recipient] = Append(@, entry)]
      /\ pc = "message" /\ Len(stream) - read >= message_size
  BY DEF ReadMessage, Arrived
<1>3. /\ out \in [Keys -> Seq(Byte)] /\ mail \in [Keys -> Seq([at : Nat, message : Messages])]
      /\ recipient \in Keys /\ public_key \in Keys
      /\ message_size \in MinMessageSize .. MaxMessageSize
      /\ read \in Nat /\ stream \in Seq(Byte) /\ Len(stream) \in Nat
  <2>1. /\ out \in [Keys -> Seq(Byte)] /\ mail \in [Keys -> Seq([at : Nat, message : Messages])]
        /\ recipient \in Keys /\ public_key \in Keys
        /\ message_size \in MinMessageSize .. MaxMessageSize
        /\ read \in 0 .. Len(stream) /\ stream \in Seq(Byte)
    BY <1>1, <1>2 DEF TypeOK
  <2>2. Len(stream) \in Nat
    BY <2>1
  <2>3. read \in Nat
    BY <2>1, <2>2
  <2>. QED
    BY <2>1, <2>2, <2>3
<1>. PICK N \in Nat : N = Len(mail[k]) + 1
  BY <1>1, MailTypes
<1>4. CASE k # recipient
  BY <1>1, <1>2, <1>3, <1>4, MailKept
<1>5. CASE k = recipient
  <2>1. /\ message_size \in Nat /\ message_size \in Word /\ KeySize \in Nat
        /\ read + message_size <= Len(stream)
    BY <1>2, <1>3, Limits
  <2>2. message \in Messages /\ Len(message) = message_size
    BY <1>3, <2>1, BytesWithin DEF Messages
  <2>3. queued_message = Digits(Len(message)) \o public_key \o message
    BY <1>1, <2>1, <2>2, SizeFieldIsLittleEndian DEF TypeOK
  <2>. HIDE DEF message
  <2>4. /\ out[k] \in Seq(Byte) /\ Len(out[k]) \in Nat
        /\ Len(out'[k]) = Len(out[k]) + 4 + KeySize + Len(message)
        /\ \A j \in 1 .. Len(out[k]) : out'[k][j] = out[k][j]
        /\ Holds(out'[k], Len(out[k]), message)
    <3>1. out'[k] = out[k] \o (Digits(Len(message)) \o public_key \o message)
      BY <1>2, <1>3, <1>5, <2>3
    <3>2. out[k] \in Seq(Byte) /\ Len(out[k]) \in Nat
      BY <1>3
    <3>3. LET t == out[k] \o (Digits(Len(message)) \o public_key \o message)
          IN  /\ Len(t) = Len(out[k]) + 4 + KeySize + Len(message)
              /\ \A j \in 1 .. Len(out[k]) : t[j] = out[k][j]
              /\ Holds(t, Len(out[k]), message)
      BY <1>3, <2>2, <3>2, QueuedBehind, Zenon
    <3>. QED
      BY <3>1, <3>2, <3>3
  <2>. HIDE DEF queued_message
  <2>5. /\ Len(mail[k]) \in Nat /\ Len(mail'[k]) = N /\ mail'[k][N] = entry
        /\ \A n \in 1 .. Len(mail[k]) : mail'[k][n] = mail[k][n]
    <3>. DEFINE Entries == [at : Nat, message : Messages]
    <3>1. entry \in Entries
      BY <1>5, <2>2, <2>4
    <3>2. mail[k] \in Seq(Entries) /\ mail'[k] = Append(mail[k], entry)
      BY <1>2, <1>3, <1>5
    <3>. HIDE DEF Entries, entry
    <3>. QED
      BY <3>1, <3>2
  <2>6. entry.at = Len(out[k]) /\ entry.message = message
    BY <1>5
  <2>. HIDE DEF entry
  <2>7. \A n \in 0 .. Len(mail[k]) : MailEnd(k, n)' = MailEnd(k, n)
    BY <2>5 DEF MailEnd
  <2>8. MailEnd(k, N)' = Len(out'[k]) /\ N # 0 /\ N - 1 = Len(mail[k]) /\ Len(out'[k]) >= Len(out[k])
    <3>1. N # 0 /\ N - 1 = Len(mail[k])
      BY <2>5
    <3>2. MailEnd(k, N)' = mail'[k][N].at + 4 + KeySize + Len(mail'[k][N].message)
      BY <3>1 DEF MailEnd
    <3>3. MailEnd(k, N)' = Len(out[k]) + 4 + KeySize + Len(message)
      BY <2>5, <2>6, <3>2
    <3>4. PICK size \in Nat : size = Len(message)
      BY <2>1, <2>2
    <3>5. Len(out'[k]) = Len(out[k]) + 4 + KeySize + size
      BY <2>4, <3>4
    <3>6. Len(out'[k]) >= Len(out[k])
      BY <2>1, <2>4, <3>5
    <3>. QED
      BY <2>4, <3>1, <3>3, <3>6
  <2>9. ASSUME NEW n \in 1 .. N
        PROVE  /\ mail'[k][n].at = MailEnd(k, n - 1)'
               /\ MailEnd(k, n)' <= Len(out'[k])
               /\ Holds(out[k], mail[k][n].at, mail[k][n].message)'
    <3>1. CASE n = N
      <4>1. MailEnd(k, N - 1)' = Len(out[k])
        BY <1>1, <2>5, <2>7, <2>8 DEF MailFor
      <4>2. Holds(out[k], mail[k][N].at, mail[k][N].message)'
        BY <1>2, <2>4, <2>5, <2>6 DEF Holds
      <4>3. Len(out'[k]) \in Nat
        BY <2>1, <2>2, <2>4
      <4>. QED
        BY <2>5, <2>6, <2>8, <3>1, <4>1, <4>2, <4>3
    <3>2. CASE n \in 1 .. Len(mail[k])
      <4>. DEFINE m == mail[k][n].message
                  at == mail[k][n].at
      <4>1. /\ at = MailEnd(k, n - 1) /\ MailEnd(k, n) <= Len(out[k])
            /\ Holds(out[k], at, m)
        BY <1>1, <3>2 DEF MailFor
      <4>2. at \in Nat /\ Len(m) \in Nat /\ MailEnd(k, n) = at + 4 + KeySize + Len(m)
        <5>1. at \in Nat /\ Len(m) \in Nat
          BY <1>1, <3>2, MailTypes
        <5>2. n # 0
          BY <3>2
        <5>. QED
          BY <5>1, <5>2 DEF MailEnd
      <4>3. n - 1 \in 0 .. Len(mail[k]) /\ n \in 0 .. Len(mail[k]) /\ mail'[k][n] = mail[k][n]
        BY <2>5, <3>2
      <4>4. MailEnd(k, n)' = MailEnd(k, n) /\ MailEnd(k, n - 1)' = MailEnd(k, n - 1)
        BY <2>7, <4>3
      <4>. HIDE DEF m, at
      <4>5. /\ at + 4 \in Nat /\ at + 4 <= Len(out[k]) /\ (at + 4) + KeySize <= Len(out[k])
            /\ at + 4 + KeySize \in Nat /\ (at + 4 + KeySize) + Len(m) <= Len(out[k])
            /\ 4 \in Nat
        <5>1. PICK size \in Nat : size = Len(m)
          BY <4>2
        <5>2. at + 4 + KeySize + size <= Len(out[k])
          BY <4>1, <4>2, <5>1
        <5>. QED
          BY <2>1, <2>4, <4>2, <5>1, <5>2
      <4>6. /\ Bytes(out'[k], at, 4) = Bytes(out[k], at, 4)
            /\ Bytes(out'[k], at + 4, KeySize) = Bytes(out[k], at + 4, KeySize)
            /\ Bytes(out'[k], at + 4 + KeySize, Len(m)) = Bytes(out[k], at + 4 + KeySize, Len(m))
        <5>1. ASSUME NEW place \in Nat, NEW size \in Nat, place + size <= Len(out[k])
              PROVE  Bytes(out'[k], place, size) = Bytes(out[k], place, size)
          <6>1. \A j \in 1 .. size : place + j \in 1 .. Len(out[k])
            BY <2>4, <5>1
          <6>2. \A j \in 1 .. size : out'[k][place + j] = out[k][place + j]
            BY <2>4, <6>1
          <6>. QED
            BY <6>2 DEF Bytes
        <5>. QED
          BY <2>1, <4>2, <4>5, <5>1
      <4>7. Holds(out[k], mail[k][n].at, mail[k][n].message)'
        BY <1>2, <4>1, <4>3, <4>6 DEF Holds, m, at
      <4>8. MailEnd(k, n)' <= Len(out'[k])
        <5>1. MailEnd(k, n) \in Nat /\ Len(out'[k]) \in Nat
          <6>1. PICK size \in Nat : size = Len(message)
            BY <2>1, <2>2
          <6>2. Len(out'[k]) = Len(out[k]) + 4 + KeySize + size
            BY <2>4, <6>1
          <6>3. PICK rest \in Nat : rest = Len(m)
            BY <4>2
          <6>4. MailEnd(k, n) = at + 4 + KeySize + rest
            BY <4>2, <6>3
          <6>5. at \in Nat /\ Len(out[k]) \in Nat /\ KeySize \in Nat
            BY <2>1, <2>4, <4>2
          <6>6. MailEnd(k, n) \in Nat
            BY <6>4, <6>5
          <6>. QED
            BY <6>2, <6>5, <6>6
        <5>. QED
          BY <2>4, <2>8, <4>1, <4>4, <5>1
      <4>. QED
        BY <4>1, <4>3, <4>4, <4>7, <4>8 DEF at
    <3>. QED
      BY <2>5, <3>1, <3>2
  <2>10. /\ Len(seen'[k]) <= N /\ Len(seen[k]) \in 0 .. Len(mail[k])
         /\ Len(seen[k]) \in Nat /\ taken[k] = MailEnd(k, Len(seen[k]))
    BY <1>1, <1>2, <2>5, MailTypes DEF MailFor
  <2>11. taken'[k] = MailEnd(k, Len(seen[k]))'
    BY <1>2, <2>7, <2>10
  <2>12. \A n \in 1 .. Len(seen'[k]) :
             seen'[k][n] = [from |-> public_key', message |-> mail'[k][n].message]
    <3>1. \A n \in 1 .. Len(seen[k]) : n \in 1 .. Len(mail[k])
      BY <2>5, <2>10
    <3>. QED
      BY <1>1, <1>2, <2>5, <3>1 DEF MailFor
  <2>. QED
    BY <2>5, <2>8, <2>9, <2>10, <2>11, <2>12 DEF MailFor
<1>. QED
  BY <1>4, <1>5

\* One element more.
LEMMA AppendedSeen ==
    ASSUME NEW S, NEW s \in Seq(S), NEW x
    PROVE  /\ Len(Append(s, x)) = Len(s) + 1 /\ Append(s, x)[Len(s) + 1] = x
           /\ \A n \in 1 .. Len(s) : Append(s, x)[n] = s[n]
  OBVIOUS

LEMMA RecipientReadsMail ==
    ASSUME MailInv, NEW o \in Keys, RecipientReads(o), NEW k \in Keys
    PROVE  MailFor(k)'
<1>. DEFINE size == Value(Bytes(out[k], taken[k], 4))
            found == [from |-> Bytes(out[k], taken[k] + 4, KeySize),
                      message |-> Bytes(out[k], taken[k] + 4 + KeySize, size)]
<1>1. TypeOK /\ MailFor(k)
  BY DEF MailInv, TypedPlaces
<1>2. /\ public_key' = public_key /\ out' = out /\ mail' = mail
      /\ seen \in [Keys -> Seq([from : Keys, message : Seq(Byte)])] /\ taken \in [Keys -> Nat]
  BY <1>1 DEF RecipientReads, TypeOK
<1>3. CASE k # o
  <2>1. seen'[k] = seen[k] /\ taken'[k] = taken[k]
    BY <1>2, <1>3 DEF RecipientReads
  <2>. QED
    BY <1>1, <1>2, <2>1, MailKept
<1>4. CASE k = o
  <2>. PICK N \in Nat : N = Len(seen[k]) + 1
    BY <1>1, MailTypes
  <2>1. HasMessage(k) /\ Len(seen[k]) \in Nat /\ Len(mail[k]) \in Nat
    BY <1>1, <1>4, MailTypes DEF RecipientReads
  <2>2. /\ N \in 1 .. Len(mail[k]) /\ N # 0
        /\ taken[k] = mail[k][N].at /\ size = Len(mail[k][N].message)
    BY <1>1, <2>1, NextInMail
  <2>3. Holds(out[k], mail[k][N].at, mail[k][N].message)
    BY <1>1, <2>2 DEF MailFor
  <2>4. seen'[k] = Append(seen[k], found) /\ taken'[k] = taken[k] + 4 + KeySize + size
    BY <1>2, <1>4 DEF RecipientReads
  <2>5. found = [from |-> public_key, message |-> mail[k][N].message]
    BY <2>2, <2>3 DEF Holds
  <2>. HIDE DEF found, size
  <2>6. /\ Len(seen'[k]) = N /\ seen'[k][N] = found
        /\ \A n \in 1 .. Len(seen[k]) : seen'[k][n] = seen[k][n]
    <3>1. seen[k] \in Seq([from : Keys, message : Seq(Byte)])
      BY <1>2
    <3>. QED
      BY <2>4, <3>1, AppendedSeen
  <2>7. \A n : MailEnd(k, n)' = MailEnd(k, n)
    BY <1>2 DEF MailEnd
  <2>8. taken'[k] = MailEnd(k, N)
    BY <2>2, <2>4 DEF MailEnd
  <2>9. \A n \in 1 .. N : seen'[k][n] = [from |-> public_key, message |-> mail[k][n].message]
    <3>1. \A n \in 1 .. N : n = N \/ n \in 1 .. Len(seen[k])
      BY <2>1
    <3>. QED
      BY <1>1, <2>5, <2>6, <3>1 DEF MailFor
  <2>10. \A n \in 1 .. Len(mail[k]) :
             /\ mail[k][n].at = MailEnd(k, n - 1)
             /\ MailEnd(k, n) <= Len(out[k])
             /\ Holds(out[k], mail[k][n].at, mail[k][n].message)
    BY <1>1 DEF MailFor
  <2>11. \A s, at, message : Holds(s, at, message)' = Holds(s, at, message)
    BY <1>2 DEF Holds
  <2>12. N <= Len(mail[k]) /\ MailEnd(k, Len(mail[k])) = Len(out[k])
    BY <1>1, <2>2 DEF MailFor
  <2>. QED
    BY <1>2, <2>6, <2>7, <2>8, <2>9, <2>10, <2>11, <2>12 DEF MailFor, Holds
<1>. QED
  BY <1>3, <1>4

LEMMA MailInStep == MailInv /\ [Next]_vars => MailInv'
<1>. SUFFICES ASSUME MailInv, [Next]_vars PROVE MailInv'
  OBVIOUS
<1>1. TypedPlaces' /\ TypeOK' /\ TypeOK
  BY PlacesInStep DEF MailInv, TypedPlaces
<1>2. ASSUME UNCHANGED <<out, taken, seen, mail>>,
             public_key' = public_key \/ pc = "key", pc' = "key" => pc = "key"
      PROVE  MailInv'
  <2>1. ASSUME NEW k \in Keys PROVE MailFor(k)'
    <3>1. MailFor(k) /\ (pc = "key" => mail[k] = <<>>)
      BY DEF MailInv
    <3>. QED
      BY <1>1, <1>2, <3>1, MailKept
  <2>. QED
    BY <1>1, <1>2, <2>1 DEF MailInv
<1>3. CASE ReadMessage
  BY <1>1, <1>3, ReadMessageMails DEF MailInv, ReadMessage
<1>4. ASSUME NEW o \in Keys, RecipientReads(o) PROVE MailInv'
  BY <1>1, <1>4, RecipientReadsMail DEF MailInv, RecipientReads
<1>5. CASE PeerCloses \/ (\E b \in Byte : PeerSends(b)) \/ UNCHANGED vars
  BY <1>2, <1>5 DEF PeerCloses, PeerSends, vars
<1>6. CASE ReadKey \/ ReadGreetings \/ ReadFails
  BY <1>2, <1>6 DEF ReadKey, ReadGreetings, ReadFails
<1>. QED
  BY <1>3, <1>4, <1>5, <1>6 DEF Next

LEMMA MailAtInit == Init => MailInv
<1>. SUFFICES ASSUME Init, NEW k \in Keys PROVE MailFor(k)
  BY PlacesAtInit DEF MailInv, Init
<1>1. out[k] = <<>> /\ mail[k] = <<>> /\ seen[k] = <<>> /\ taken[k] = 0
  BY DEF Init
<1>2. Len(<<>>) = 0
  OBVIOUS
<1>. QED
  BY <1>1, <1>2 DEF MailFor, MailEnd

\* What a recipient finds in its stream is what was relayed to it, in order and
\* complete, under the key that the sender logged in with, on hosts of both byte
\* orders (connection.cpp:102-115): it always stands at the start of a message, and
\* behind the last only when it has found all.
THEOREM RecipientsFindTheirMail == Spec => []RecipientsSeeWhatWasSent
<1>1. Spec => []MailInv
  BY MailAtInit, MailInStep, PTL DEF Spec
<1>2. MailInv => RecipientsSeeWhatWasSent
  <2>. SUFFICES ASSUME MailInv, NEW k \in Keys
                PROVE  /\ \A n \in DOMAIN seen[k] :
                              /\ n <= Len(mail[k])
                              /\ seen[k][n] = [from |-> public_key,
                                               message |-> mail[k][n].message]
                       /\ taken[k] = Len(out[k]) => Len(seen[k]) = Len(mail[k])
                       /\ taken[k] < Len(out[k]) => HasMessage(k)
    BY DEF RecipientsSeeWhatWasSent
  <2>1. TypeOK /\ MailFor(k)
    BY DEF MailInv, TypedPlaces
  <2>2. /\ DOMAIN seen[k] = 1 .. Len(seen[k]) /\ Len(seen[k]) <= Len(mail[k])
        /\ Len(seen[k]) \in Nat /\ Len(mail[k]) \in Nat /\ Len(out[k]) \in Nat /\ taken[k] \in Nat
    BY <2>1, MailTypes DEF MailFor
  <2>3. \A n \in DOMAIN seen[k] :
            /\ n <= Len(mail[k])
            /\ seen[k][n] = [from |-> public_key, message |-> mail[k][n].message]
    BY <2>1, <2>2 DEF MailFor
  <2>4. taken[k] # Len(out[k]) => HasMessage(k)
    <3>1. Len(seen[k]) # Len(mail[k]) => Len(seen[k]) + 1 <= Len(mail[k])
      BY <2>2
    <3>. QED
      BY <2>1, <3>1, NextInMail
  <2>5. taken[k] = Len(out[k]) => Len(seen[k]) = Len(mail[k])
    BY <2>1, NextInMail
  <2>6. taken[k] < Len(out[k]) => taken[k] # Len(out[k])
    BY <2>2
  <2>. QED
    BY <2>3, <2>4, <2>5, <2>6
<1>. QED
  BY <1>1, <1>2, PTL

=============================================================================
