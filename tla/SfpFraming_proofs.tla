------------------------ MODULE SfpFraming_proofs ------------------------
(***************************************************************************)
(* For all frames, buffers and lines: the receiver takes what the          *)
(* transmitter codes for the frame that was sent, finds the frames again   *)
(* after any number of faults, at the cost of a frame each, and leaves no  *)
(* single loss without a NAK.                                              *)
(***************************************************************************)
EXTENDS SfpFraming, TLAPS, SequenceTheorems, NaturalsInduction, WellFoundedInduction

-----------------------------------------------------------------------------
(* Exclusive or, bit by bit.                                               *)

\* What a bit is,
Bit == {0, 1}

\* The octet of eight bits.
Word(b) == b[1] + 2 * b[2] + 4 * b[3] + 8 * b[4]
             + 16 * b[5] + 32 * b[6] + 64 * b[7] + 128 * b[8]

\* and what eight are.
Bits == [1 .. 8 -> Bit]

\* The exclusive or of two bits.
Unlike(c, d) == IF c = d THEN 0 ELSE 1

\* An octet has eight bits,
LEMMA OctetHasBits == \A a \in Octet : \E b \in Bits : a = Word(b)
<1>. SUFFICES ASSUME NEW a \in Octet PROVE \E b \in Bits : a = Word(b)
  OBVIOUS
<1>. DEFINE b == <<a % 2, (a \div 2) % 2, (a \div 4) % 2, (a \div 8) % 2,
                   (a \div 16) % 2, (a \div 32) % 2, (a \div 64) % 2,
                   (a \div 128) % 2>>
<1>1. b \in Bits
  BY DEF Octet, Bits, Bit
<1>2. a = Word(b)
  BY DEF Octet, Word
<1>. QED
  BY <1>1, <1>2

\* which are its remainders,
LEMMA BitsOfWord ==
    ASSUME NEW b \in Bits
    PROVE  /\ Word(b) \in Octet
           /\ (Word(b) \div 1) % 2 = b[1]
           /\ (Word(b) \div 2) % 2 = b[2]
           /\ (Word(b) \div 4) % 2 = b[3]
           /\ (Word(b) \div 8) % 2 = b[4]
           /\ (Word(b) \div 16) % 2 = b[5]
           /\ (Word(b) \div 32) % 2 = b[6]
           /\ (Word(b) \div 64) % 2 = b[7]
           /\ (Word(b) \div 128) % 2 = b[8]
<1>. PICK b1 \in Bit, b2 \in Bit, b3 \in Bit, b4 \in Bit,
          b5 \in Bit, b6 \in Bit, b7 \in Bit, b8 \in Bit :
             /\ b[1] = b1 /\ b[2] = b2 /\ b[3] = b3 /\ b[4] = b4
             /\ b[5] = b5 /\ b[6] = b6 /\ b[7] = b7 /\ b[8] = b8
  BY DEF Bits
<1>. DEFINE w == b1 + 2 * b2 + 4 * b3 + 8 * b4 + 16 * b5 + 32 * b6 + 64 * b7
                    + 128 * b8
<1>0. Word(b) = w
  BY DEF Word
<1>1. w \in Octet
  BY DEF Octet, Bit
<1>2. (w \div 1) % 2 = b1 /\ (w \div 2) % 2 = b2
  BY DEF Bit
<1>3. (w \div 4) % 2 = b3 /\ (w \div 8) % 2 = b4
  BY DEF Bit
<1>4. (w \div 16) % 2 = b5 /\ (w \div 32) % 2 = b6
  BY DEF Bit
<1>5. (w \div 64) % 2 = b7 /\ (w \div 128) % 2 = b8
  BY DEF Bit
<1>. QED
  BY <1>0, <1>1, <1>2, <1>3, <1>4, <1>5

\* and are combined one by one.
LEMMA XorOfWords ==
    ASSUME NEW b \in Bits, NEW c \in Bits
    PROVE  /\ [i \in 1 .. 8 |-> Unlike(b[i], c[i])] \in Bits
           /\ Xor(Word(b), Word(c)) = Word([i \in 1 .. 8 |-> Unlike(b[i], c[i])])
<1>1. [i \in 1 .. 8 |-> Unlike(b[i], c[i])] \in Bits
  BY DEF Bits, Bit, Unlike
<1>2. Xor(Word(b), Word(c)) =
         Unlike(b[1], c[1]) + 2 * Unlike(b[2], c[2]) + 4 * Unlike(b[3], c[3])
           + 8 * Unlike(b[4], c[4]) + 16 * Unlike(b[5], c[5])
           + 32 * Unlike(b[6], c[6]) + 64 * Unlike(b[7], c[7])
           + 128 * Unlike(b[8], c[8])
  BY BitsOfWord DEF Xor, Unlike
<1>. QED
  BY <1>1, <1>2 DEF Word

\* The exclusive or is an octet again, whatever it is of,
LEMMA XorIsOctet ==
    ASSUME NEW a, NEW b
    PROVE  Xor(a, b) \in Octet
BY DEF Xor, Octet

\* takes the reserved octets to two that are not, and back again,
LEMMA Flips ==
    /\ Xor(125, 32) = 93 /\ Xor(126, 32) = 94
    /\ Xor(93, 32) = 125 /\ Xor(94, 32) = 126
BY DEF Xor

\* leaves an octet alone with zero, in which no bit is set,
LEMMA XorZero ==
    ASSUME NEW a \in Octet
    PROVE  Xor(a, 0) = a
BY DEF Xor, Octet

\* and sets all the bits of an octet and its complement.  120 is what is left
\* to combine with the low octet of the register: it gives that of SFP_CRC_GOOD.
LEMMA XorNext ==
    ASSUME NEW a \in Octet
    PROVE  /\ Xor(255 - a, a) = 255
           /\ Xor(255 - a, Xor(a, 120)) = 135
<1>1. PICK b \in Bits : a = Word(b)
  BY OctetHasBits
<1>. DEFINE c == [i \in 1 .. 8 |-> 1 - b[i]]
            d == <<0, 0, 0, 1, 1, 1, 1, 0>>
            e == [i \in 1 .. 8 |-> Unlike(b[i], d[i])]
<1>2. c \in Bits /\ d \in Bits
  BY DEF Bits, Bit
<1>3. 255 - a = Word(c) /\ 120 = Word(d)
  BY <1>1 DEF Word, Bits, Bit
<1>4. Xor(a, 120) = Word(e) /\ e \in Bits
  BY <1>1, <1>2, <1>3, XorOfWords
<1>5. Xor(255 - a, a) = Word([i \in 1 .. 8 |-> Unlike(c[i], b[i])])
  BY <1>1, <1>2, <1>3, XorOfWords
<1>6. Xor(255 - a, Xor(a, 120)) = Word([i \in 1 .. 8 |-> Unlike(c[i], e[i])])
  BY <1>2, <1>3, <1>4, XorOfWords
<1>7. \A i \in 1 .. 8 : Unlike(c[i], b[i]) = 1
  BY DEF Bits, Bit, Unlike
<1>8. \A i \in 1 .. 8 : Unlike(c[i], e[i]) = 1 - d[i]
  BY <1>2 DEF Bits, Bit, Unlike
<1>. HIDE DEF c, e
<1>9. Word([i \in 1 .. 8 |-> Unlike(c[i], b[i])]) = 255
  BY <1>7 DEF Word
<1>10. Word([i \in 1 .. 8 |-> Unlike(c[i], e[i])]) = 135
  BY <1>8 DEF Word
<1>. QED
  BY <1>5, <1>6, <1>9, <1>10

-----------------------------------------------------------------------------
(* Induction, and the CRC.                                                 *)

\* The order of the numbers.
LessThan == {p \in Nat \X Nat : p[1] < p[2]}

\* The library orders the numbers by a relation, and it is well-founded.
LEMMA LessThanWellFounded == IsWellFoundedOn(LessThan, Nat)
<1>1. IsWellFoundedOn(OpToRel(<, Nat), Nat)
  BY NatLessThanWellFounded
<1>2. LessThan \cap (Nat \X Nat) \subseteq OpToRel(<, Nat)
  BY Zenon DEF LessThan, OpToRel
<1>. QED
  BY <1>1, <1>2, IsWellFoundedOnSubrelation, Zenon

\* A set of numbers that is not empty has a least one.
LEMMA LeastIn ==
    ASSUME NEW S, S \subseteq Nat, S # {}
    PROVE  \E i \in S : \A j \in S : i <= j
<1>1. PICK x \in S : \A y \in S : ~(<<y, x>> \in LessThan)
  BY LessThanWellFounded, WFMin
<1>2. ASSUME NEW y \in S PROVE x <= y
  <2>1. x \in Nat /\ y \in Nat /\ ~(<<y, x>> \in LessThan)
    BY <1>1
  <2>. QED
    BY <2>1 DEF LessThan
<1>. QED
  BY <1>2

\* Induction: over a set, which the provers can instantiate.
LEMMA UpTo ==
    ASSUME NEW n \in Nat, NEW S, 0 \in S,
           \A i \in 1 .. n : i - 1 \in S => i \in S
    PROVE  \A i \in 0 .. n : i \in S
<1>. SUFFICES ASSUME NEW j \in 0 .. n, j \notin S PROVE FALSE
  OBVIOUS
<1>. DEFINE T == {i \in 0 .. n : i \notin S}
<1>1. PICK i \in T : \A k \in T : i <= k
  <2>1. T \subseteq Nat /\ T # {}
    OBVIOUS
  <2>. QED
    BY <2>1, LeastIn
<1>2. i \in 0 .. n /\ i \notin S /\ i # 0
  BY <1>1
<1>3. i - 1 \in 0 .. n /\ i - 1 \notin T
  BY <1>1, <1>2
<1>. QED
  BY <1>2, <1>3

\* g is made from x, step by step.
Steps(g, n, X, x, F) ==
    /\ g \in [0 .. n -> X] /\ g[0] = x
    /\ \A i \in 1 .. n : g[i] = F[<<g[i - 1], i>>]

\* There is such a function, for every step F that stays in X.
LEMMA StepByStep ==
    ASSUME NEW n \in Nat, NEW X, NEW x \in X, NEW F,
           \A a \in X : \A i \in 1 .. n : F[<<a, i>>] \in X
    PROVE  \E g : Steps(g, n, X, x, F)
<1>. DEFINE S == {m \in 0 .. n :
                    \E g \in [0 .. m -> X] :
                       g[0] = x /\ \A i \in 1 .. m : g[i] = F[<<g[i - 1], i>>]}
<1>1. 0 \in S
  <2>1. PICK g : g = [i \in 0 .. 0 |-> x]
    OBVIOUS
  <2>2. g \in [0 .. 0 -> X] /\ g[0] = x
    BY <2>1
  <2>3. \A i \in 1 .. 0 : g[i] = F[<<g[i - 1], i>>]
    OBVIOUS
  <2>. QED
    BY <2>2, <2>3
<1>2. ASSUME NEW m \in 1 .. n, m - 1 \in S PROVE m \in S
  <2>1. PICK g \in [0 .. m - 1 -> X] :
           g[0] = x /\ \A i \in 1 .. m - 1 : g[i] = F[<<g[i - 1], i>>]
    BY <1>2
  <2>. DEFINE h == [i \in 0 .. m |->
                        IF i = m THEN F[<<g[m - 1], m>>] ELSE g[i]]
  <2>2. h \in [0 .. m -> X]
    OBVIOUS
  <2>3. h[0] = x
    <3>1. 0 \in 0 .. m /\ 0 # m
      OBVIOUS
    <3>. QED
      BY <2>1, <3>1
  <2>4. ASSUME NEW i \in 1 .. m PROVE h[i] = F[<<h[i - 1], i>>]
    <3>1. CASE i = m
      <4>1. m - 1 \in 0 .. m /\ m - 1 # m /\ m \in 0 .. m
        OBVIOUS
      <4>2. h[m - 1] = g[m - 1]
        BY <4>1
      <4>3. h[m] = F[<<g[m - 1], m>>]
        BY <4>1
      <4>. QED
        BY <3>1, <4>2, <4>3
    <3>2. CASE i # m
      <4>1. i \in 1 .. m - 1 /\ h[i] = g[i] /\ h[i - 1] = g[i - 1]
        BY <3>2
      <4>. QED
        BY <2>1, <4>1
    <3>. QED
      BY <3>1, <3>2
  <2>. HIDE DEF h
  <2>. QED
    BY <2>2, <2>3, <2>4
<1>3. n \in S
  <2>. HIDE DEF S
  <2>. QED
    BY <1>1, <1>2, UpTo
<1>. QED
  BY <1>3 DEF Steps


\* What the CRC register holds: sixteen bits.
Register == 0 .. SFP_CRC_PRESET

\* The range of the register,
LEMMA RegisterIs ==
    ASSUME NEW x \in Register
    PROVE  x \in Int /\ 0 <= x /\ x <= 65535
BY DEF Register, SFP_CRC_PRESET

\* and the two octets that it is made of.
LEMMA InRegister ==
    ASSUME NEW a \in Octet, NEW b \in Octet
    PROVE  256 * a + b \in Register
<1>1. a \in 0 .. 255 /\ b \in 0 .. 255
  BY DEF Octet
<1>2. 256 * a + b \in Nat
  BY <1>1
<1>3. 256 * a + b <= SFP_CRC_PRESET
  BY <1>1 DEF SFP_CRC_PRESET
<1>4. ASSUME NEW m \in Nat, NEW x \in Nat, x <= m PROVE x \in 0 .. m
  BY <1>4
<1>5. SFP_CRC_PRESET \in Nat
  BY DEF SFP_CRC_PRESET
<1>6. 256 * a + b \in 0 .. SFP_CRC_PRESET
  BY <1>2, <1>3, <1>4, <1>5
<1>. QED
  BY <1>6 DEF Register

\* An update leaves a register.
LEMMA CrcIsRegister ==
    ASSUME NEW c, NEW d
    PROVE  _crc_ccitt_update(c, d) \in Register
BY XorIsOctet, InRegister DEF _crc_ccitt_update

\* The CRC of what ends in the complement of its CRC, low octet first.
LEMMA Residue ==
    ASSUME NEW before \in Register
    PROVE  LET crc == 65535 - before
           IN  _crc_ccitt_update(_crc_ccitt_update(before, crc % 256),
                                 crc \div 256) = SFP_CRC_GOOD
<1>. DEFINE crc == 65535 - before
            lo == before % 256
            hi == before \div 256
            between == Xor(Xor(hi, 0), 120)
<1>1. lo \in Octet /\ hi \in Octet
  <2>1. before \in Int /\ 0 <= before /\ before <= 65535
    BY DEF Register, SFP_CRC_PRESET
  <2>2. lo \in 0 .. 255
    BY <2>1
  <2>3. hi \in 0 .. 255
    BY <2>1
  <2>. QED
    BY <2>2, <2>3 DEF Octet
<1>2. crc % 256 = 255 - lo /\ crc \div 256 = 255 - hi
  BY DEF Register, SFP_CRC_PRESET
<1>3. between = Xor(hi, 120) /\ between \in Octet
  BY <1>1, XorZero, XorIsOctet
<1>4. /\ Xor(255, 240) = 15 /\ Xor(15, 0) = 15 /\ Xor(135, 112) = 247
      /\ Xor(247, 7) = 240 /\ Xor(15, 15) = 0 /\ Xor(0, 184) = 184
  BY DEF Xor
<1>5. _crc_ccitt_update(before, 255 - lo) = 256 * 15 + between
  <2>1. Xor(255 - lo, lo) = 255
    BY <1>1, XorNext
  <2>2. (255 * 16) % 256 = 240 /\ 15 \div 32 = 0 /\ 15 \div 16 = 0
          /\ (15 * 8) % 256 = 120
    OBVIOUS
  <2>. HIDE DEF lo, hi
  <2>3. _crc_ccitt_update(before, 255 - lo) =
           256 * Xor(15, 15 \div 32)
             + Xor(Xor(hi, 15 \div 16), (15 * 8) % 256)
    BY <1>4, <2>1, <2>2 DEF _crc_ccitt_update, lo, hi
  <2>. QED
    BY <1>4, <2>2, <2>3
<1>6. _crc_ccitt_update(256 * 15 + between, 255 - hi) = SFP_CRC_GOOD
  <2>1. (256 * 15 + between) % 256 = between
           /\ (256 * 15 + between) \div 256 = 15
    BY <1>3 DEF Octet
  <2>2. Xor(255 - hi, between) = 135
    BY <1>1, <1>3, XorNext
  <2>3. (135 * 16) % 256 = 112 /\ 247 \div 32 = 7 /\ 247 \div 16 = 15
          /\ (247 * 8) % 256 = 184
    OBVIOUS
  <2>. HIDE DEF hi, between
  <2>. DEFINE first == 256 * 15 + between
  <2>. HIDE DEF first
  <2>4. _crc_ccitt_update(first, 255 - hi) =
           256 * Xor(247, 247 \div 32)
             + Xor(Xor(15, 247 \div 16), (247 * 8) % 256)
    BY <1>4, <2>1, <2>2, <2>3 DEF _crc_ccitt_update, first
  <2>5. _crc_ccitt_update(first, 255 - hi) = 256 * 240 + 184
    BY <1>4, <2>3, <2>4
  <2>. QED
    BY <2>5 DEF first, SFP_CRC_GOOD
<1>. QED
  BY <1>2, <1>5, <1>6

\* The rolling CRC, octet by octet.
Rolling(c, octets) ==
    /\ c \in [0 .. Len(octets) -> Register]
    /\ c[0] = SFP_CRC_PRESET
    /\ \A i \in 1 .. Len(octets) :
          c[i] = _crc_ccitt_update(c[i - 1], octets[i])

\* Every sequence of octets has a rolling CRC,
LEMMA CrcRolls ==
    ASSUME NEW octets \in Seq(Octet)
    PROVE  \E c : Rolling(c, octets)
<1>. DEFINE n == Len(octets)
<1>0. n \in Nat
  OBVIOUS
<1>1. PICK F : F = [p \in Register \X (1 .. n) |->
                       _crc_ccitt_update(p[1], octets[p[2]])]
  OBVIOUS
<1>2. ASSUME NEW a \in Register, NEW i \in 1 .. n
      PROVE  /\ F[<<a, i>>] = _crc_ccitt_update(a, octets[i])
             /\ F[<<a, i>>] \in Register
  BY <1>1, CrcIsRegister
<1>3. SFP_CRC_PRESET \in Register
  BY DEF SFP_CRC_PRESET, Register
<1>4. PICK g : Steps(g, n, Register, SFP_CRC_PRESET, F)
  BY <1>0, <1>2, <1>3, StepByStep
<1>5. ASSUME NEW i \in 1 .. n
      PROVE  g[i] = _crc_ccitt_update(g[i - 1], octets[i])
  <2>1. g[i - 1] \in Register /\ g[i] = F[<<g[i - 1], i>>]
    BY <1>0, <1>4 DEF Steps
  <2>. QED
    BY <1>2, <2>1
<1>. QED
  BY <1>4, <1>5 DEF Rolling, Steps

\* which ends in its CRC,
LEMMA CrcIs ==
    ASSUME NEW octets \in Seq(Octet), NEW c, Rolling(c, octets)
    PROVE  Crc(octets) = c[Len(octets)] /\ Crc(octets) \in Register
<1>. DEFINE n == Len(octets)
            Step(g) == [i \in 0 .. n |->
                          IF i = 0 THEN SFP_CRC_PRESET
                                   ELSE _crc_ccitt_update(g[i - 1], octets[i])]
<1>0. n \in Nat
  OBVIOUS
<1>1. c = Step(c)
  BY <1>0 DEF Rolling
<1>. DEFINE d == CHOOSE e : e = Step(e)
<1>2. d = Step(d)
  <2>. HIDE DEF Step
  <2>. QED
    BY <1>1, Zenon
<1>3. Crc(octets) = d[n]
  BY Zenon DEF Crc
<1>. HIDE DEF d
<1>4. d[0] = SFP_CRC_PRESET
        /\ \A i \in 1 .. n : d[i] = _crc_ccitt_update(d[i - 1], octets[i])
  BY <1>0, <1>2
<1>. DEFINE S == {i \in 0 .. n : d[i] = c[i]}
<1>5. \A i \in 0 .. n : i \in S
  <2>1. 0 \in S
    BY <1>0, <1>4 DEF Rolling
  <2>2. ASSUME NEW i \in 1 .. n, i - 1 \in S PROVE i \in S
    BY <1>4, <2>2 DEF Rolling
  <2>. HIDE DEF S
  <2>. QED
    BY <1>0, <2>1, <2>2, UpTo
<1>6. d[n] = c[n]
  BY <1>0, <1>5
<1>. QED
  BY <1>0, <1>3, <1>6 DEF Rolling

\* so that its CRC is a register.
LEMMA CrcExists ==
    ASSUME NEW octets \in Seq(Octet)
    PROVE  Crc(octets) \in Register
BY CrcRolls, CrcIs

-----------------------------------------------------------------------------
(* A frame on the line.                                                    *)

\* What may stand between the two FLAGs of a frame.
Body ==
    {u \in Seq(Octet) : /\ \A i \in 1 .. Len(u) : u[i] # SFP_FLAG
                        /\ u # <<>> => u[Len(u)] # SFP_ESC}

\* Concatenation, of octets, is associative.
LEMMA Reassociate ==
    ASSUME NEW s \in Seq(Octet), NEW t \in Seq(Octet), NEW u \in Seq(Octet)
    PROVE  (s \o t) \o u = s \o (t \o u)
OBVIOUS

\* An octet that sfpWriteNoCRC has written leaves no FLAG, nor a last ESC.
LEMMA EscapedIsBody ==
    ASSUME NEW octet \in Octet, NEW u \in Body
    PROVE  /\ Escaped(octet) \in Seq(Octet)
           /\ Escaped(octet) \o u \in Body
           /\ Len(Escaped(octet) \o u) > Len(u)
<1>0. u \in Seq(Octet)
  BY DEF Body
<1>1. CASE octet \in {SFP_ESC, SFP_FLAG}
  <2>1. PICK d \in {93, 94} : Escaped(octet) = <<SFP_ESC, d>>
    BY <1>1, Flips DEF Escaped, SFP_ESC, SFP_FLAG, SFP_ESC_FLIP_BIT
  <2>2. SFP_ESC = 125 /\ SFP_FLAG = 126 /\ d \in Octet /\ SFP_ESC \in Octet
    BY DEF SFP_ESC, SFP_FLAG, Octet
  <2>. DEFINE v == <<SFP_ESC, d>> \o u
  <2>3. v \in Seq(Octet) /\ Len(v) = Len(u) + 2
    BY <1>0, <2>2
  <2>4. \A i \in 1 .. Len(v) : v[i] = IF i <= 2 THEN <<SFP_ESC, d>>[i] ELSE u[i - 2]
    BY <1>0, <2>2
  <2>5. \A i \in 1 .. Len(v) : v[i] # SFP_FLAG
    BY <1>0, <2>2, <2>3, <2>4 DEF Body
  <2>6. v[Len(v)] # SFP_ESC
    BY <1>0, <2>2, <2>3, <2>4 DEF Body
  <2>7. v \in Body /\ Len(v) > Len(u)
    <3>. HIDE DEF v
    <3>. QED
      BY <1>0, <2>3, <2>5, <2>6 DEF Body
  <2>. QED
    BY <2>1, <2>2, <2>7
<1>2. CASE octet \notin {SFP_ESC, SFP_FLAG}
  <2>1. Escaped(octet) = <<octet>>
    BY <1>2 DEF Escaped
  <2>. DEFINE v == <<octet>> \o u
  <2>3. v \in Seq(Octet) /\ Len(v) = Len(u) + 1
    BY <1>0
  <2>4. \A i \in 1 .. Len(v) : v[i] = IF i = 1 THEN octet ELSE u[i - 1]
    BY <1>0
  <2>5. \A i \in 1 .. Len(v) : v[i] # SFP_FLAG
    BY <1>0, <1>2, <2>3, <2>4 DEF Body
  <2>6. v[Len(v)] # SFP_ESC
    BY <1>0, <1>2, <2>3, <2>4 DEF Body
  <2>7. v \in Body /\ Len(v) > Len(u)
    <3>. HIDE DEF v
    <3>. QED
      BY <1>0, <2>3, <2>5, <2>6 DEF Body
  <2>. QED
    BY <2>1, <2>7
<1>. QED
  BY <1>1, <1>2

\* A frame with its CRC: the receiver's CRC comes out right.
LEMMA CheckedIs ==
    ASSUME NEW frame \in Frame
    PROVE  /\ Checked(frame) \in Seq(Octet)
           /\ Len(Checked(frame)) = Len(frame.packet) + 3
           /\ Checked(frame)[1] = frame.header
           /\ SubSeq(Checked(frame), 2, Len(Checked(frame)) - 2) = frame.packet
           /\ \E c : /\ Rolling(c, Checked(frame))
                     /\ c[Len(Checked(frame))] = SFP_CRC_GOOD
<1>. DEFINE octets == <<frame.header>> \o frame.packet
            crc == 65535 - Crc(octets)
            lo == crc % 256
            hi == crc \div 256
            all == octets \o <<lo, hi>>
            n == Len(frame.packet)
<1>1. frame.header \in Octet /\ frame.packet \in Seq(Octet) /\ n \in Nat
  BY FramingAssumption
<1>2. octets \in Seq(Octet) /\ Len(octets) = n + 1
  BY <1>1
<1>3. \A i \in 1 .. n + 1 : octets[i] = IF i = 1 THEN frame.header
                                                 ELSE frame.packet[i - 1]
  BY <1>1
<1>4. Crc(octets) \in Register
  BY <1>2, CrcExists
<1>5. lo \in Octet /\ hi \in Octet
  <2>. HIDE DEF octets
  <2>1. Crc(octets) \in Int /\ 0 <= Crc(octets) /\ Crc(octets) <= 65535
    BY <1>4, RegisterIs
  <2>2. lo \in 0 .. 255
    BY <2>1
  <2>3. hi \in 0 .. 255
    BY <2>1
  <2>. QED
    BY <2>2, <2>3 DEF Octet
<1>6. Checked(frame) = all
  BY DEF Checked
<1>. HIDE DEF octets, lo, hi
<1>7. all \in Seq(Octet) /\ Len(all) = n + 3
  BY <1>1, <1>2, <1>5
<1>8. /\ \A i \in 1 .. n + 1 : all[i] = octets[i]
      /\ all[n + 2] = lo /\ all[n + 3] = hi
  BY <1>1, <1>2, <1>5
<1>. HIDE DEF all
<1>9. all[1] = frame.header
  BY <1>1, <1>3, <1>8
<1>10. SubSeq(all, 2, Len(all) - 2) = frame.packet
  <2>. DEFINE part == SubSeq(all, 2, n + 1)
  <2>1. part \in Seq(Octet) /\ Len(part) = n
    BY <1>1, <1>7
  <2>2. \A i \in 1 .. n : part[i] = frame.packet[i]
    BY <1>1, <1>3, <1>7, <1>8
  <2>3. part = frame.packet
    <3>. HIDE DEF part
    <3>. QED
      BY <1>1, <2>1, <2>2
  <2>. QED
    BY <1>1, <1>7, <2>3
<1>11. PICK c : Rolling(c, all)
  BY <1>7, CrcRolls
<1>12. c[n + 1] = Crc(octets)
  <2>. DEFINE d == [i \in 0 .. n + 1 |-> c[i]]
  <2>1. Rolling(d, octets)
    BY <1>1, <1>2, <1>7, <1>8, <1>11 DEF Rolling
  <2>2. d[n + 1] = c[n + 1]
    BY <1>1
  <2>. QED
    BY <1>2, <2>1, <2>2, CrcIs
<1>13. c[n + 2] = _crc_ccitt_update(Crc(octets), lo)
  BY <1>1, <1>7, <1>8, <1>11, <1>12 DEF Rolling
<1>14. c[n + 3] = _crc_ccitt_update(c[n + 2], hi)
  BY <1>1, <1>7, <1>8, <1>11 DEF Rolling
<1>15. c[n + 3] = SFP_CRC_GOOD
  BY <1>4, <1>13, <1>14, Residue DEF lo, hi
<1>. QED
  BY <1>6, <1>7, <1>9, <1>10, <1>11, <1>15

\* What the octets of a frame are on the line: b[k] is what follows the first k
\* of them.
Bodies(all, b) ==
    /\ b \in [0 .. Len(all) -> Body]
    /\ b[Len(all)] = <<>>
    /\ \A k \in 1 .. Len(all) : b[k - 1] = Escaped(all[k]) \o b[k]

\* Every sequence of octets can be so written.
LEMMA BodiesExist ==
    ASSUME NEW all \in Seq(Octet)
    PROVE  \E b : Bodies(all, b)
<1>. DEFINE n == Len(all)
<1>0. n \in Nat
  OBVIOUS
<1>1. PICK F : F = [p \in Body \X (1 .. n) |->
                       Escaped(all[n + 1 - p[2]]) \o p[1]]
  OBVIOUS
<1>2. ASSUME NEW u \in Body, NEW i \in 1 .. n
      PROVE  /\ F[<<u, i>>] = Escaped(all[n + 1 - i]) \o u
             /\ F[<<u, i>>] \in Body
  <2>1. F[<<u, i>>] = Escaped(all[n + 1 - i]) \o u
    BY <1>1
  <2>2. all[n + 1 - i] \in Octet
    BY <1>0
  <2>. QED
    BY <2>1, <2>2, EscapedIsBody
<1>3. <<>> \in Body
  BY DEF Body
<1>4. PICK g : Steps(g, n, Body, <<>>, F)
  BY <1>0, <1>2, <1>3, StepByStep
<1>. DEFINE b == [k \in 0 .. n |-> g[n - k]]
<1>5. b \in [0 .. n -> Body] /\ b[n] = <<>>
  <2>1. \A k \in 0 .. n : n - k \in 0 .. n
    BY <1>0
  <2>. QED
    BY <1>0, <1>4, <2>1 DEF Steps
<1>6. ASSUME NEW k \in 1 .. n
      PROVE  b[k - 1] = Escaped(all[k]) \o b[k]
  <2>. DEFINE i == n + 1 - k
  <2>1. i \in 1 .. n /\ n - (k - 1) = i /\ n - k = i - 1 /\ n + 1 - i = k
    BY <1>0
  <2>2. b[k - 1] = g[i] /\ b[k] = g[i - 1]
    <3>1. k \in 0 .. n /\ k - 1 \in 0 .. n
      BY <1>0
    <3>. QED
      BY <2>1, <3>1
  <2>3. g[i - 1] \in Body /\ g[i] = F[<<g[i - 1], i>>]
    BY <1>0, <1>4, <2>1 DEF Steps
  <2>4. g[i] = Escaped(all[n + 1 - i]) \o g[i - 1]
    BY <1>2, <2>1, <2>3
  <2>. QED
    BY <2>1, <2>2, <2>4
<1>. HIDE DEF b
<1>. QED
  BY <1>5, <1>6 DEF Bodies

\* The frame on the line.
LEMMA EncodedIs ==
    ASSUME NEW frame, Checked(frame) \in Seq(Octet),
           NEW b, Bodies(Checked(frame), b)
    PROVE  Encoded(frame) = <<SFP_FLAG>> \o (b[0] \o <<SFP_FLAG>>)
<1>. DEFINE all == Checked(frame)
            n == Len(all)
            Step(w) == [k \in 0 .. n |->
                          IF k = 0 THEN <<SFP_FLAG>>
                                   ELSE w[k - 1] \o Escaped(all[k])]
<1>0. n \in Nat /\ all \in Seq(Octet) /\ SFP_FLAG \in Octet
  BY DEF SFP_FLAG, Octet
<1>1. ASSUME NEW k \in 1 .. n
      PROVE  Escaped(all[k]) \in Seq(Octet)
  <2>1. all[k] \in Octet /\ <<>> \in Body
    BY <1>0 DEF Body
  <2>. QED
    BY <2>1, EscapedIsBody
<1>2. \E w : w = Step(w)
  <2>1. PICK F : F = [p \in Seq(Octet) \X (1 .. n) |->
                         p[1] \o Escaped(all[p[2]])]
    OBVIOUS
  <2>2. ASSUME NEW u \in Seq(Octet), NEW k \in 1 .. n
        PROVE  /\ F[<<u, k>>] = u \o Escaped(all[k])
               /\ F[<<u, k>>] \in Seq(Octet)
    <3>. HIDE DEF all
    <3>1. F[<<u, k>>] = u \o Escaped(all[k])
      BY <2>1
    <3>. QED
      BY <1>1, <3>1
  <2>3. <<SFP_FLAG>> \in Seq(Octet)
    BY <1>0
  <2>. HIDE DEF all, n
  <2>4. PICK w : Steps(w, n, Seq(Octet), <<SFP_FLAG>>, F)
    BY <1>0, <2>2, <2>3, StepByStep
  <2>5. ASSUME NEW k \in 1 .. n
        PROVE  w[k] = w[k - 1] \o Escaped(all[k])
    <3>1. w[k - 1] \in Seq(Octet) /\ w[k] = F[<<w[k - 1], k>>]
      BY <1>0, <2>4 DEF Steps
    <3>. QED
      BY <2>2, <3>1
  <2>6. w = Step(w)
    <3>1. w = [k \in 0 .. n |-> w[k]] /\ w[0] = <<SFP_FLAG>>
      BY <2>4 DEF Steps
    <3>2. \A k \in 0 .. n : k # 0 => k \in 1 .. n
      BY <1>0
    <3>3. \A k \in 0 .. n : w[k] = IF k = 0 THEN <<SFP_FLAG>>
                                   ELSE w[k - 1] \o Escaped(all[k])
      BY <2>5, <3>1, <3>2
    <3>. QED
      BY <3>1, <3>3
  <2>. QED
    BY <2>6
<1>. DEFINE d == CHOOSE w : w = Step(w)
<1>3. d = Step(d)
  <2>. HIDE DEF Step
  <2>. QED
    BY <1>2, Zenon
<1>4. Encoded(frame) = Append(d[n], SFP_FLAG)
  BY Zenon DEF Encoded
<1>. HIDE DEF d
<1>. HIDE DEF all
<1>5. d[0] = <<SFP_FLAG>>
        /\ \A k \in 1 .. n : d[k] = d[k - 1] \o Escaped(all[k])
  <2>. HIDE DEF n
  <2>1. ASSUME NEW k \in 0 .. n
        PROVE  d[k] = IF k = 0 THEN <<SFP_FLAG>>
                               ELSE d[k - 1] \o Escaped(all[k])
    BY <1>3
  <2>2. 0 \in 0 .. n /\ \A k \in 1 .. n : k \in 0 .. n /\ k # 0
    BY <1>0
  <2>. QED
    BY <2>1, <2>2
<1>. HIDE DEF n
<1>6. \A k \in 0 .. n : b[k] \in Seq(Octet)
  BY DEF Bodies, Body, n, all
<1>7. \A k \in 1 .. n : b[k - 1] = Escaped(all[k]) \o b[k]
  BY DEF Bodies, n, all
<1>. DEFINE S == {k \in 0 .. n : d[k] \in Seq(Octet)
                                  /\ d[k] \o b[k] = <<SFP_FLAG>> \o b[0]}
<1>8. \A k \in 0 .. n : k \in S
  <2>1. 0 \in S
    <3>1. <<SFP_FLAG>> \in Seq(Octet) /\ 0 \in 0 .. n
      BY <1>0
    <3>. QED
      BY <1>5, <3>1
  <2>2. ASSUME NEW k \in 1 .. n, k - 1 \in S PROVE k \in S
    <3>1. k \in 0 .. n /\ k - 1 \in 0 .. n
      BY <1>0
    <3>2. /\ d[k - 1] \in Seq(Octet) /\ b[k] \in Seq(Octet)
          /\ Escaped(all[k]) \in Seq(Octet)
          /\ d[k - 1] \o b[k - 1] = <<SFP_FLAG>> \o b[0]
      BY <1>1, <1>6, <2>2, <3>1
    <3>3. d[k] = d[k - 1] \o Escaped(all[k])
      BY <1>5
    <3>4. d[k] \in Seq(Octet)
      BY <3>2, <3>3
    <3>5. b[k - 1] = Escaped(all[k]) \o b[k]
      BY <1>7
    <3>6. d[k] \o b[k] = d[k - 1] \o b[k - 1]
      <4>1. (d[k - 1] \o Escaped(all[k])) \o b[k]
               = d[k - 1] \o (Escaped(all[k]) \o b[k])
        BY <3>2, Reassociate, Zenon
      <4>. QED
        BY <3>3, <3>5, <4>1, Zenon
    <3>. QED
      BY <3>1, <3>2, <3>4, <3>6
  <2>. HIDE DEF S
  <2>. QED
    BY <1>0, <2>1, <2>2, UpTo
<1>9. d[n] \in Seq(Octet) /\ d[n] \o b[n] = <<SFP_FLAG>> \o b[0]
  <2>1. n \in 0 .. n
    BY <1>0
  <2>. QED
    BY <1>8, <2>1, Zenon
<1>10. b[n] = <<>> /\ b[0] \in Seq(Octet)
  <2>1. b[n] = <<>>
    BY DEF Bodies, n, all
  <2>. QED
    BY <1>0, <1>6, <2>1
<1>11. d[n] = <<SFP_FLAG>> \o b[0]
  BY <1>9, <1>10, ConcatEmptySeq
<1>12. Append(d[n], SFP_FLAG) = d[n] \o <<SFP_FLAG>>
  BY <1>0, <1>9, AppendIsConcat
<1>13. (<<SFP_FLAG>> \o b[0]) \o <<SFP_FLAG>>
          = <<SFP_FLAG>> \o (b[0] \o <<SFP_FLAG>>)
  <2>1. <<SFP_FLAG>> \in Seq(Octet)
    BY <1>0
  <2>. QED
    BY <1>10, <2>1, Reassociate, Zenon
<1>. QED
  BY <1>4, <1>11, <1>12, <1>13, Zenon

-----------------------------------------------------------------------------
(* A frame in the receiver.                                                *)

\* What ctx->rx holds: as in TypeOK, with the range of the register named.
Receiver ==
    [crc : Register, escaping : BOOLEAN, receiving : BOOLEAN,
     header : Octet, packet : Seq(Octet)]

\* How a frame is coded: with its CRC, with the CRC after each octet, and with
\* what is on the line after each octet.
Coding(frame, all, c, b) ==
    /\ all \in Seq(Octet) /\ Len(all) = Len(frame.packet) + 3
    /\ all[1] = frame.header
    /\ SubSeq(all, 2, Len(all) - 2) = frame.packet
    /\ Rolling(c, all) /\ c[Len(all)] = SFP_CRC_GOOD
    /\ Bodies(all, b)
    /\ Encoded(frame) = <<SFP_FLAG>> \o (b[0] \o <<SFP_FLAG>>)

\* Every frame can be coded.
LEMMA FrameHasCoding ==
    ASSUME NEW frame \in Frame
    PROVE  \E all, c, b : Coding(frame, all, c, b)
<1>1. PICK c : /\ Rolling(c, Checked(frame))
               /\ c[Len(Checked(frame))] = SFP_CRC_GOOD
  BY CheckedIs
<1>2. Checked(frame) \in Seq(Octet)
  BY CheckedIs
<1>3. PICK b : Bodies(Checked(frame), b)
  BY <1>2, BodiesExist
<1>4. Encoded(frame) = <<SFP_FLAG>> \o (b[0] \o <<SFP_FLAG>>)
  BY <1>2, <1>3, EncodedIs
<1>5. Coding(frame, Checked(frame), c, b)
  BY <1>1, <1>2, <1>3, <1>4, CheckedIs DEF Coding
<1>. QED
  BY <1>5

\* Where the receiver is that has taken the first k octets of a frame, and
\* perhaps an ESC.
After(all, c, b, k, u, r) ==
    /\ r.crc = c[k]
    /\ r.receiving <=> k > 0
    /\ k > 0 => r.header = all[1]
    /\ r.packet = SubSeq(all, 2, k)
    /\ \/ ~r.escaping /\ u = b[k]
       \/ /\ r.escaping /\ k < Len(all)
          /\ all[k + 1] \in {SFP_ESC, SFP_FLAG}
          /\ u = <<Xor(all[k + 1], SFP_ESC_FLIP_BIT)>> \o b[k + 1]

\* The receiver has taken what of the frame comes before u.
Following(frame, u, r) ==
    \E all, c, b : /\ Coding(frame, all, c, b)
                   /\ \E k \in 0 .. Len(all) : After(all, c, b, k, u, r)

\* A part of a sequence, octet by octet.
LEMMA PartOf ==
    ASSUME NEW s \in Seq(Octet), NEW i \in Nat, NEW j \in Nat,
           1 <= i, i <= j + 1, j <= Len(s)
    PROVE  \A part : part = SubSeq(s, i, j) =>
              /\ part \in Seq(Octet)
              /\ Len(part) = j - i + 1
              /\ \A m \in 1 .. j - i + 1 : part[m] = s[i + m - 1]
OBVIOUS

\* What stands between FLAGs is octets.
LEMMA BodyIs ==
    ASSUME NEW u \in Body
    PROVE  u \in Seq(Octet) /\ Len(u) \in Nat
BY DEF Body

\* What a coding consists of.
LEMMA CodingIs ==
    ASSUME NEW frame \in Frame, NEW all, NEW c, NEW b, Coding(frame, all, c, b)
    PROVE  /\ all \in Seq(Octet) /\ Len(all) \in Nat /\ Len(all) >= 3
           /\ Len(all) <= MAX_PACKET_SIZE + 1
           /\ \A k \in 0 .. Len(all) : b[k] \in Body
           /\ \A k \in 1 .. Len(all) : all[k] \in Octet
           /\ \A k \in 1 .. Len(all) : b[k - 1] = Escaped(all[k]) \o b[k]
           /\ b[Len(all)] = <<>>
<1>1. frame.packet \in Seq(Octet)
        /\ Len(frame.packet) + 2 <= MAX_PACKET_SIZE /\ MAX_PACKET_SIZE \in Nat
  BY FramingAssumption DEF SFP_CRC_SIZE
<1>2. all \in Seq(Octet) /\ Len(all) = Len(frame.packet) + 3
  BY DEF Coding
<1>3. Bodies(all, b)
  BY DEF Coding
<1>4. \A k \in 1 .. Len(all) : all[k] \in Octet
  BY <1>2
<1>. QED
  BY <1>1, <1>2, <1>3, <1>4 DEF Bodies

\* Every octet of a frame takes one at least on the line.
LEMMA BodyLasts ==
    ASSUME NEW frame \in Frame, NEW all, NEW c, NEW b, Coding(frame, all, c, b),
           NEW k \in 0 .. Len(all)
    PROVE  /\ Len(all) \in Nat /\ Len(all) >= 3
           /\ b[k] \in Body /\ Len(b[k]) >= Len(all) - k
<1>. DEFINE n == Len(all)
            S == {i \in 0 .. n : Len(b[n - i]) >= i}
<1>1. n \in Nat /\ n >= 3 /\ all \in Seq(Octet)
  BY CodingIs
<1>2. /\ \A i \in 0 .. n : b[i] \in Body
      /\ \A i \in 1 .. n : all[i] \in Octet
      /\ \A i \in 1 .. n : b[i - 1] = Escaped(all[i]) \o b[i]
      /\ b[n] = <<>>
  <2>1. \A i \in 0 .. n : b[i] \in Body
    BY CodingIs
  <2>2. \A i \in 1 .. n : all[i] \in Octet
    BY CodingIs
  <2>3. \A i \in 1 .. n : b[i - 1] = Escaped(all[i]) \o b[i]
    BY Zenon DEF Coding, Bodies
  <2>4. b[n] = <<>>
    BY CodingIs
  <2>. QED
    BY <2>1, <2>2, <2>3, <2>4
<1>3. \A i \in 0 .. n : i \in S
  <2>1. 0 \in S
    BY <1>1, <1>2, CodingIs
  <2>2. ASSUME NEW i \in 1 .. n, i - 1 \in S PROVE i \in S
    <3>. DEFINE j == n + 1 - i
    <3>1. j \in 1 .. n /\ j \in 0 .. n /\ n - i = j - 1 /\ n - (i - 1) = j
      BY <1>1
    <3>. HIDE DEF j
    <3>2. b[j - 1] = Escaped(all[j]) \o b[j] /\ b[j] \in Body /\ all[j] \in Octet
      BY <1>2, <3>1
    <3>3. Len(b[j - 1]) > Len(b[j]) /\ b[j - 1] \in Body
      BY <3>2, EscapedIsBody
    <3>4. Len(b[j]) >= i - 1
      BY <2>2, <3>1
    <3>5. Len(b[j]) \in Nat /\ Len(b[j - 1]) \in Nat
      BY <3>2, <3>3, BodyIs
    <3>. QED
      BY <3>1, <3>3, <3>4, <3>5
  <2>. HIDE DEF S
  <2>. QED
    BY <1>1, <2>1, <2>2, UpTo
<1>4. n - k \in 0 .. n /\ n - (n - k) = k
  BY <1>1
<1>5. Len(b[k]) >= n - k
  BY <1>3, <1>4
<1>. QED
  BY <1>1, <1>2, <1>5

\* A frame starts with a FLAG, and a receiver that was reset is at its start.
LEMMA Begins ==
    ASSUME NEW frame \in Frame
    PROVE  \E u \in Body : /\ Encoded(frame) = <<SFP_FLAG>> \o (u \o <<SFP_FLAG>>)
                           /\ Following(frame, u, NewReceiver)
<1>1. PICK all, c, b : Coding(frame, all, c, b)
  BY FrameHasCoding
<1>2. 0 \in 0 .. Len(all) /\ b[0] \in Body
  <2>1. Len(all) \in Nat /\ \A k \in 0 .. Len(all) : b[k] \in Body
    BY <1>1, CodingIs
  <2>2. 0 \in 0 .. Len(all)
    BY <2>1
  <2>. QED
    BY <2>1, <2>2
<1>3. After(all, c, b, 0, b[0], NewReceiver)
  <2>1. c[0] = SFP_CRC_PRESET /\ all \in Seq(Octet)
    BY <1>1 DEF Coding, Rolling
  <2>2. SubSeq(all, 2, 0) = <<>>
    BY <2>1
  <2>. QED
    BY <2>1, <2>2 DEF After, NewReceiver
<1>4. Following(frame, b[0], NewReceiver)
  BY <1>1, <1>2, <1>3 DEF Following
<1>5. Encoded(frame) = <<SFP_FLAG>> \o (b[0] \o <<SFP_FLAG>>)
  BY <1>1 DEF Coding
<1>. QED
  BY <1>2, <1>4, <1>5

\* A receiver that has taken all of a frame handles it, as it was sent.
LEMMA Ends ==
    ASSUME NEW frame \in Frame, NEW r \in Receiver, Following(frame, <<>>, r)
    PROVE  /\ r.receiving /\ Len(r.packet) >= SFP_CRC_SIZE
           /\ r.crc = SFP_CRC_GOOD
           /\ [ header |-> r.header,
                packet |-> SubSeq(r.packet, 1, Len(r.packet) - SFP_CRC_SIZE) ]
                = frame
<1>1. PICK all, c, b, k : /\ Coding(frame, all, c, b)
                          /\ k \in 0 .. Len(all)
                          /\ After(all, c, b, k, <<>>, r)
  BY DEF Following
<1>. DEFINE n == Len(all)
<1>2. n \in Nat /\ n >= 3 /\ k \in 0 .. n /\ all \in Seq(Octet)
  BY <1>1, CodingIs
<1>3. k = n
  <2>1. CASE <<>> = b[k]
    <3>1. Len(b[k]) = 0 /\ Len(b[k]) >= n - k
      BY <1>1, <2>1, BodyLasts
    <3>. QED
      BY <1>2, <3>1
  <2>2. CASE k < n /\ <<>> = <<Xor(all[k + 1], SFP_ESC_FLIP_BIT)>> \o b[k + 1]
    <3>1. k + 1 \in 0 .. n
      BY <1>2, <2>2
    <3>2. b[k + 1] \in Seq(Octet)
      BY <1>1, <3>1, BodyLasts DEF Body
    <3>3. <<Xor(all[k + 1], SFP_ESC_FLIP_BIT)>> \in Seq(Octet)
      BY XorIsOctet
    <3>4. Len(<<Xor(all[k + 1], SFP_ESC_FLIP_BIT)>> \o b[k + 1]) > 0
      BY <3>2, <3>3
    <3>. QED
      BY <2>2, <3>4
  <2>. QED
    BY <1>1, <2>1, <2>2 DEF After
<1>4. r.receiving /\ r.crc = SFP_CRC_GOOD /\ r.header = all[1]
        /\ r.packet = SubSeq(all, 2, n)
  BY <1>1, <1>2, <1>3 DEF After, Coding
<1>5. Len(r.packet) = n - 1 /\ r.packet \in Seq(Octet)
        /\ \A i \in 1 .. n - 1 : r.packet[i] = all[i + 1]
  BY <1>2, <1>4, PartOf
<1>6. SubSeq(r.packet, 1, n - 3) = SubSeq(all, 2, n - 2)
  <2>. DEFINE s == SubSeq(r.packet, 1, n - 3)
              t == SubSeq(all, 2, n - 2)
  <2>0. s = SubSeq(r.packet, 1, n - 3) /\ t = SubSeq(all, 2, n - 2)
    OBVIOUS
  <2>. HIDE DEF s, t
  <2>1. s \in Seq(Octet) /\ Len(s) = n - 3
          /\ \A i \in 1 .. n - 3 : s[i] = r.packet[i]
    <3>1. 1 \in Nat /\ n - 3 \in Nat /\ 1 <= (n - 3) + 1
            /\ n - 3 <= Len(r.packet)
      BY <1>2, <1>5
    <3>. HIDE DEF n
    <3>2. /\ s \in Seq(Octet) /\ Len(s) = (n - 3) - 1 + 1
          /\ \A i \in 1 .. (n - 3) - 1 + 1 : s[i] = r.packet[1 + i - 1]
      BY <1>5, <2>0, <3>1, PartOf
    <3>. QED
      BY <1>2, <3>2
  <2>2. t \in Seq(Octet) /\ Len(t) = n - 3
          /\ \A i \in 1 .. n - 3 : t[i] = all[i + 1]
    <3>1. 2 \in Nat /\ n - 2 \in Nat /\ 2 <= (n - 2) + 1 /\ n - 2 <= Len(all)
      BY <1>2
    <3>. HIDE DEF n
    <3>2. /\ t \in Seq(Octet) /\ Len(t) = (n - 2) - 2 + 1
          /\ \A i \in 1 .. (n - 2) - 2 + 1 : t[i] = all[2 + i - 1]
      BY <1>2, <2>0, <3>1, PartOf
    <3>. QED
      BY <1>2, <3>2
  <2>3. \A i \in 1 .. n - 3 : s[i] = t[i]
    BY <1>2, <1>5, <2>1, <2>2
  <2>4. s = t
    <3>. HIDE DEF n
    <3>. QED
      BY <1>2, <2>1, <2>2, <2>3
  <2>. QED
    BY <2>4 DEF s, t
<1>7. frame.packet = SubSeq(all, 2, n - 2) /\ frame.header = all[1]
  BY <1>1 DEF Coding
<1>8. frame = [header |-> frame.header, packet |-> frame.packet]
  BY FramingAssumption
<1>9. Len(r.packet) - SFP_CRC_SIZE = n - 3 /\ Len(r.packet) >= SFP_CRC_SIZE
  BY <1>2, <1>5 DEF SFP_CRC_SIZE
<1>. QED
  BY <1>4, <1>6, <1>7, <1>8, <1>9

\* Two octets of a frame at least come after its header: its CRC.
LEMMA Early ==
    ASSUME NEW frame \in Frame, NEW r \in Receiver, NEW u,
           Following(frame, u, r), ~r.receiving
    PROVE  u \in Seq(Octet) /\ Len(u) >= 2
<1>1. PICK all, c, b, k : /\ Coding(frame, all, c, b)
                          /\ k \in 0 .. Len(all)
                          /\ After(all, c, b, k, u, r)
  BY DEF Following
<1>. DEFINE n == Len(all)
<1>2. n \in Nat /\ n >= 3 /\ k \in 0 .. n
  BY <1>1, CodingIs
<1>3. k = 0
  BY <1>1, <1>2 DEF After
<1>4. 0 \in 0 .. n /\ 1 \in 0 .. n
  BY <1>2
<1>5. /\ b[0] \in Seq(Octet) /\ b[1] \in Seq(Octet)
      /\ Len(b[0]) >= n /\ Len(b[1]) >= n - 1
  BY <1>1, <1>4, BodyLasts DEF Body
<1>6. CASE u = b[0]
  BY <1>2, <1>5, <1>6
<1>7. CASE u = <<Xor(all[1], SFP_ESC_FLIP_BIT)>> \o b[1]
  <2>1. <<Xor(all[1], SFP_ESC_FLIP_BIT)>> \in Seq(Octet)
    BY XorIsOctet
  <2>. QED
    BY <1>2, <1>5, <1>7, <2>1
<1>. QED
  BY <1>1, <1>3, <1>6, <1>7 DEF After

-----------------------------------------------------------------------------
(* The receiver takes the frame, octet by octet.                           *)

\* What is sent of a reserved octet is not reserved, and gives it back.
LEMMA EscapedFlips ==
    ASSUME NEW octet \in {SFP_ESC, SFP_FLAG}
    PROVE  /\ Xor(octet, SFP_ESC_FLIP_BIT) \in Octet
           /\ Xor(octet, SFP_ESC_FLIP_BIT) \notin {SFP_ESC, SFP_FLAG}
           /\ Xor(Xor(octet, SFP_ESC_FLIP_BIT), SFP_ESC_FLIP_BIT) = octet
<1>1. octet = 125 \/ octet = 126
  BY DEF SFP_ESC, SFP_FLAG
<1>. QED
  BY <1>1, Flips, XorIsOctet DEF SFP_ESC, SFP_FLAG, SFP_ESC_FLIP_BIT

\* What is left between the FLAGs after an octet.
LEMMA TailOfBody ==
    ASSUME NEW u \in Body, u # <<>>
    PROVE  /\ Head(u) \in Octet /\ Head(u) # SFP_FLAG /\ Tail(u) \in Body
           /\ Head(u) = SFP_ESC => Tail(u) # <<>>
<1>1. u \in Seq(Octet) /\ Len(u) \in Nat /\ Len(u) >= 1 /\ Head(u) = u[1]
  BY DEF Body
<1>2. u[1] \in Octet /\ u[1] # SFP_FLAG
  BY <1>1 DEF Body
<1>3. u[1] = SFP_ESC => Len(u) # 1
  BY <1>1 DEF Body
<1>. DEFINE v == Tail(u)
<1>4. v \in Seq(Octet) /\ Len(v) = Len(u) - 1
        /\ \A i \in 1 .. Len(v) : v[i] = u[i + 1]
  BY <1>1
<1>. HIDE DEF v
<1>5. v = <<>> <=> Len(v) = 0
  BY <1>4
<1>6. \A i \in 1 .. Len(v) : v[i] # SFP_FLAG
  BY <1>1, <1>4 DEF Body
<1>7. v # <<>> => v[Len(v)] # SFP_ESC
  BY <1>1, <1>4, <1>5 DEF Body
<1>8. v \in Body
  BY <1>4, <1>6, <1>7 DEF Body
<1>. QED
  BY <1>1, <1>2, <1>3, <1>4, <1>5, <1>8 DEF v

\* The octet that a receiver takes, with the rest of the frame.
Taken(r, octet) ==
    [r EXCEPT !.crc = _crc_ccitt_update(@, octet), !.escaping = FALSE]

\* The octet that was meant.
Plain(r, octet) == IF r.escaping THEN Xor(octet, SFP_ESC_FLIP_BIT) ELSE octet

\* A receiver that took the next octet of a frame has taken one more of it.
LEMMA Moves ==
    ASSUME NEW frame \in Frame, NEW all, NEW c, NEW b, Coding(frame, all, c, b),
           NEW k \in 0 .. Len(all), k < Len(all),
           NEW u, NEW r \in Receiver, After(all, c, b, k, u, r),
           NEW q \in Receiver, q.crc = _crc_ccitt_update(r.crc, all[k + 1]),
           ~q.escaping, q.receiving,
           k = 0 => q.header = all[1] /\ q.packet = <<>>,
           k > 0 => q.header = r.header /\ q.packet = Append(r.packet, all[k + 1])
    PROVE  Following(frame, b[k + 1], q)
<1>1. /\ all \in Seq(Octet) /\ Len(all) \in Nat /\ k \in Nat
      /\ k + 1 \in 1 .. Len(all) /\ k + 1 \in 0 .. Len(all)
      /\ (k + 1) - 1 = k
  <2>1. all \in Seq(Octet) /\ Len(all) \in Nat
    BY CodingIs
  <2>. QED
    BY <2>1
<1>2. q.crc = c[k + 1]
  BY <1>1 DEF Coding, Rolling, After
<1>3. q.header = all[1]
  BY <1>1 DEF After
<1>4. q.packet = SubSeq(all, 2, k + 1)
  <2>1. CASE k = 0
    <3>1. SubSeq(all, 2, 1) = <<>> /\ k + 1 = 1
      BY <1>1, <2>1
    <3>2. q.packet = <<>>
      BY <2>1
    <3>. QED
      BY <3>1, <3>2, Zenon
  <2>2. CASE k > 0
    <3>1. q.packet = Append(SubSeq(all, 2, k), all[k + 1])
      BY <2>2 DEF After
    <3>. DEFINE s == SubSeq(all, 2, k)
                t == SubSeq(all, 2, k + 1)
    <3>2. s \in Seq(Octet) /\ Len(s) = k - 1
            /\ \A i \in 1 .. k - 1 : s[i] = all[i + 1]
      BY <1>1, <2>2
    <3>3. t \in Seq(Octet) /\ Len(t) = k
            /\ \A i \in 1 .. k : t[i] = all[i + 1]
      BY <1>1, <2>2
    <3>. HIDE DEF s, t
    <3>4. all[k + 1] \in Octet
      BY <1>1
    <3>5. t = Append(s, all[k + 1])
      <4>. DEFINE w == Append(s, all[k + 1])
      <4>1. w \in Seq(Octet) /\ Len(w) = k
              /\ \A i \in 1 .. k : w[i] = IF i = k THEN all[k + 1] ELSE s[i]
        BY <1>1, <2>2, <3>2, <3>4
      <4>2. \A i \in 1 .. k : w[i] = t[i]
        <5>. HIDE DEF w
        <5>. QED
          BY <1>1, <2>2, <3>2, <3>3, <4>1
      <4>. HIDE DEF w
      <4>3. w = t
        BY <1>1, <3>3, <4>1, <4>2
      <4>. QED
        BY <4>3 DEF w
    <3>. QED
      BY <3>1, <3>5 DEF s, t
  <2>. QED
    BY <1>1, <2>1, <2>2
<1>5. After(all, c, b, k + 1, b[k + 1], q)
  BY <1>1, <1>2, <1>3, <1>4 DEF After
<1>. QED
  BY <1>1, <1>5 DEF Following

\* What comes next of a frame.
LEMMA Goes ==
    ASSUME NEW frame \in Frame, NEW r \in Receiver, NEW u \in Body, u # <<>>,
           Following(frame, u, r)
    PROVE  /\ Head(u) = SFP_ESC =>
                 Following(frame, Tail(u), [r EXCEPT !.escaping = TRUE])
           /\ Head(u) # SFP_ESC =>
                 LET octet == Plain(r, Head(u))
                     next == Taken(r, octet)
                 IN  /\ ~r.receiving =>
                           Following(frame, Tail(u),
                              [next EXCEPT !.header = octet, !.receiving = TRUE])
                     /\ r.receiving =>
                           /\ Len(r.packet) < MAX_PACKET_SIZE
                           /\ Following(frame, Tail(u),
                                 [next EXCEPT !.packet = Append(@, octet)])
<1>1. PICK all, c, b, k : /\ Coding(frame, all, c, b)
                          /\ k \in 0 .. Len(all)
                          /\ After(all, c, b, k, u, r)
  BY DEF Following
<1>. DEFINE n == Len(all)
<1>2. /\ all \in Seq(Octet) /\ n \in Nat /\ n >= 3 /\ n <= MAX_PACKET_SIZE + 1
      /\ MAX_PACKET_SIZE \in Nat
  BY <1>1, CodingIs, FramingAssumption
<1>3. b[n] = <<>> /\ \A i \in 0 .. n : b[i] \in Body
  BY <1>1, CodingIs
<1>4. k < n
  BY <1>1, <1>2, <1>3 DEF After
<1>. DEFINE y == all[k + 1]
            flipped == Xor(y, SFP_ESC_FLIP_BIT)
<1>5. k + 1 \in 1 .. n /\ k + 1 \in 0 .. n /\ (k + 1) - 1 = k /\ k \in Nat
  BY <1>1, <1>2, <1>4
<1>6. y \in Octet /\ b[k + 1] \in Seq(Octet) /\ flipped \in Octet
  BY <1>2, <1>3, <1>5, XorIsOctet DEF Body
<1>7. b[k] = Escaped(y) \o b[k + 1]
  <2>1. \A i \in 1 .. Len(all) : b[i - 1] = Escaped(all[i]) \o b[i]
    BY <1>1, Zenon DEF Coding, Bodies
  <2>2. b[(k + 1) - 1] = Escaped(all[k + 1]) \o b[k + 1]
    BY <1>5, <2>1
  <2>. QED
    BY <1>5, <2>2
<1>8. CASE ~r.escaping /\ u = b[k] /\ y \in {SFP_ESC, SFP_FLAG}
  <2>1. u = <<SFP_ESC, flipped>> \o b[k + 1]
    BY <1>7, <1>8 DEF Escaped
  <2>2. SFP_ESC \in Octet
    BY DEF SFP_ESC, Octet
  <2>. HIDE DEF y, flipped
  <2>3. Head(u) = SFP_ESC /\ Tail(u) = <<flipped>> \o b[k + 1]
    <3>1. <<SFP_ESC, flipped>> \in Seq(Octet) /\ <<flipped>> \in Seq(Octet)
      BY <1>6, <2>2
    <3>2. <<SFP_ESC, flipped>> = <<SFP_ESC>> \o <<flipped>>
            /\ <<SFP_ESC>> \in Seq(Octet)
      BY <1>6, <2>2
    <3>3. u = <<SFP_ESC>> \o (<<flipped>> \o b[k + 1])
      BY <1>6, <2>1, <3>1, <3>2, Reassociate
    <3>. QED
      BY <1>6, <2>2, <3>1, <3>3
  <2>. DEFINE q == [r EXCEPT !.escaping = TRUE]
  <2>4. /\ q.crc = r.crc /\ q.receiving = r.receiving /\ q.header = r.header
        /\ q.packet = r.packet /\ q.escaping = TRUE
    BY DEF Receiver
  <2>. HIDE DEF q
  <2>5. After(all, c, b, k, Tail(u), q)
    BY <1>1, <1>4, <1>8, <2>3, <2>4 DEF After, y, flipped
  <2>6. Following(frame, Tail(u), q)
    BY <1>1, <2>5 DEF Following
  <2>. QED
    BY <2>3, <2>6 DEF q
<1>. DEFINE octet == Plain(r, Head(u))
            next == Taken(r, octet)
            first == [next EXCEPT !.header = octet, !.receiving = TRUE]
            more == [next EXCEPT !.packet = Append(@, octet)]
<1>9. ASSUME octet = y, Tail(u) = b[k + 1]
      PROVE  /\ ~r.receiving => Following(frame, Tail(u), first)
             /\ r.receiving => /\ Len(r.packet) < MAX_PACKET_SIZE
                               /\ Following(frame, Tail(u), more)
  <2>. HIDE DEF octet
  <2>1. octet \in Octet /\ r.packet \in Seq(Octet)
    BY <1>6, <1>9 DEF Receiver
  <2>2. next \in Receiver
    BY CrcIsRegister DEF Receiver, Taken
  <2>3. first \in Receiver /\ more \in Receiver
    <3>. HIDE DEF next
    <3>1. first \in Receiver
      BY <2>1, <2>2 DEF Receiver
    <3>2. Append(next.packet, octet) \in Seq(Octet)
      BY <2>1, <2>2 DEF Receiver
    <3>3. more \in Receiver
      BY <2>2, <3>2 DEF Receiver
    <3>. QED
      BY <3>1, <3>3
  <2>4. /\ next.crc = _crc_ccitt_update(r.crc, octet) /\ ~next.escaping
        /\ next.receiving = r.receiving /\ next.header = r.header
        /\ next.packet = r.packet
    BY DEF Receiver, Taken
  <2>5. /\ first.crc = next.crc /\ first.escaping = next.escaping
        /\ first.receiving = TRUE /\ first.header = octet
        /\ first.packet = next.packet
    BY <2>2 DEF Receiver
  <2>6. /\ more.crc = next.crc /\ more.escaping = next.escaping
        /\ more.receiving = next.receiving /\ more.header = next.header
        /\ more.packet = Append(next.packet, octet)
    BY <2>2 DEF Receiver
  <2>. HIDE DEF next, first, more
  <2>7. CASE ~r.receiving
    <3>1. k = 0
      BY <1>1, <1>5, <2>7 DEF After
    <3>2. r.packet = <<>>
      BY <1>1, <1>2, <3>1 DEF After
    <3>3. Following(frame, b[k + 1], first)
      BY <1>1, <1>4, <1>9, <2>3, <2>4, <2>5, <3>1, <3>2, Moves
    <3>. QED
      BY <1>9, <2>7, <3>3
  <2>8. CASE r.receiving
    <3>1. k > 0
      BY <1>1, <2>8 DEF After
    <3>2. Len(r.packet) = k - 1
      BY <1>1, <1>2, <1>5, <3>1 DEF After
    <3>3. Len(r.packet) < MAX_PACKET_SIZE
      BY <1>2, <1>4, <1>5, <3>1, <3>2
    <3>4. /\ more \in Receiver /\ ~more.escaping /\ more.receiving
          /\ more.crc = _crc_ccitt_update(r.crc, all[k + 1])
          /\ more.header = r.header
          /\ more.packet = Append(r.packet, all[k + 1])
          /\ ~(k = 0)
      BY <1>9, <2>3, <2>4, <2>6, <2>8, <3>1
    <3>5. Following(frame, b[k + 1], more)
      BY <1>1, <1>4, <3>4, Moves
    <3>. QED
      BY <1>9, <2>8, <3>3, <3>5
  <2>. QED
    BY <2>7, <2>8
<1>10. CASE ~r.escaping /\ u = b[k] /\ y \notin {SFP_ESC, SFP_FLAG}
  <2>1. u = <<y>> \o b[k + 1]
    BY <1>7, <1>10 DEF Escaped
  <2>2. Head(u) = y /\ Tail(u) = b[k + 1]
    <3>. HIDE DEF y
    <3>. QED
      BY <1>6, <2>1
  <2>3. octet = y
    BY <1>10, <2>2 DEF Plain
  <2>. QED
    BY <1>9, <1>10, <2>2, <2>3
<1>11. CASE r.escaping /\ y \in {SFP_ESC, SFP_FLAG} /\ u = <<flipped>> \o b[k + 1]
  <2>1. Head(u) = flipped /\ Tail(u) = b[k + 1]
    <3>. HIDE DEF flipped
    <3>. QED
      BY <1>6, <1>11
  <2>2. flipped # SFP_ESC /\ Xor(flipped, SFP_ESC_FLIP_BIT) = y
    BY <1>11, EscapedFlips
  <2>3. octet = y
    BY <1>11, <2>1, <2>2 DEF Plain
  <2>. QED
    BY <1>9, <2>1, <2>2, <2>3
<1>. QED
  BY <1>1, <1>8, <1>10, <1>11 DEF After

-----------------------------------------------------------------------------
(* Frames one after the other.                                             *)

\* R[p] is what the frames of s after the first p are on the line.
Ahead(s, R) ==
    /\ R \in [0 .. Len(s) -> Seq(Octet)]
    /\ R[Len(s)] = <<>>
    /\ \A p \in 1 .. Len(s) : R[p - 1] = Encoded(s[p]) \o R[p]

\* All that is still to come is the frames after the first p,
Between(s, R, p, flow) == p \in 0 .. Len(s) /\ flow = R[p]

\* or what is in u of the frame after them, its FLAG and the others.
Within(s, R, p, u, flow) ==
    /\ p \in Nat /\ p + 1 \in 1 .. Len(s)
    /\ u \in Body
    /\ flow = u \o (<<SFP_FLAG>> \o R[p + 1])

\* A FLAG is an octet.
LEMMA FlagIsOctet == SFP_FLAG \in Octet /\ <<SFP_FLAG>> \in Seq(Octet)
BY DEF SFP_FLAG, Octet

\* A frame is sent as octets, and at least one.
LEMMA EncodedIsOctets ==
    ASSUME NEW frame \in Frame
    PROVE  Encoded(frame) \in Seq(Octet) /\ Encoded(frame) # <<>>
<1>1. PICK u \in Body : Encoded(frame) = <<SFP_FLAG>> \o (u \o <<SFP_FLAG>>)
  BY Begins
<1>2. u \o <<SFP_FLAG>> \in Seq(Octet)
  BY BodyIs, FlagIsOctet
<1>. QED
  BY <1>1, <1>2, FlagIsOctet

\* The first of a sequence and the others,
LEMMA FirstOf ==
    ASSUME NEW octet \in Octet, NEW s \in Seq(Octet)
    PROVE  /\ <<octet>> \o s \in Seq(Octet)
           /\ <<octet>> \o s # <<>>
           /\ Head(<<octet>> \o s) = octet
           /\ Tail(<<octet>> \o s) = s
OBVIOUS

\* that it is made of.
LEMMA HeadAndTail ==
    ASSUME NEW s \in Seq(Octet), s # <<>>
    PROVE  /\ Head(s) \in Octet /\ Tail(s) \in Seq(Octet)
           /\ s = <<Head(s)>> \o Tail(s)
<1>1. Head(s) \in Octet /\ Tail(s) \in Seq(Octet)
  OBVIOUS
<1>. DEFINE t == <<Head(s)>> \o Tail(s)
<1>2. t \in Seq(Octet) /\ Len(t) = Len(s)
        /\ \A i \in 1 .. Len(s) : t[i] = s[i]
  BY <1>1
<1>. HIDE DEF t
<1>3. t = s
  BY <1>2
<1>. QED
  BY <1>1, <1>3 DEF t

\* What comes after a frame.
LEMMA AfterFrame ==
    ASSUME NEW s \in Seq(Frame), NEW R, Ahead(s, R),
           NEW p, NEW flow, Between(s, R, p, flow)
    PROVE  /\ flow \in Seq(Octet)
           /\ flow = <<>> => p = Len(s)
           /\ flow # <<>> =>
                 /\ Head(flow) = SFP_FLAG
                 /\ s[p + 1] \in Frame
                 /\ \E u : /\ Within(s, R, p, u, Tail(flow))
                           /\ Following(s[p + 1], u, NewReceiver)
<1>1. p \in 0 .. Len(s) /\ flow = R[p] /\ flow \in Seq(Octet) /\ Len(s) \in Nat
  BY DEF Between, Ahead
<1>2. CASE p = Len(s)
  <2>1. flow = <<>>
    BY <1>1, <1>2 DEF Ahead
  <2>. QED
    BY <1>1, <1>2, <2>1
<1>3. CASE p < Len(s)
  <2>1. p + 1 \in 1 .. Len(s) /\ p + 1 \in 0 .. Len(s) /\ (p + 1) - 1 = p
          /\ p \in Nat
    BY <1>1, <1>3
  <2>2. s[p + 1] \in Frame
    BY <2>1
  <2>3. PICK u \in Body :
           /\ Encoded(s[p + 1]) = <<SFP_FLAG>> \o (u \o <<SFP_FLAG>>)
           /\ Following(s[p + 1], u, NewReceiver)
    BY <2>2, Begins
  <2>4. R[p + 1] \in Seq(Octet)
    BY <2>1 DEF Ahead
  <2>5. flow = Encoded(s[p + 1]) \o R[p + 1]
    <3>1. R[(p + 1) - 1] = Encoded(s[p + 1]) \o R[p + 1]
      BY <2>1 DEF Ahead
    <3>. QED
      BY <1>1, <2>1, <3>1
  <2>6. u \in Seq(Octet) /\ u \o <<SFP_FLAG>> \in Seq(Octet)
    BY BodyIs, FlagIsOctet
  <2>. DEFINE rest == u \o (<<SFP_FLAG>> \o R[p + 1])
  <2>7. rest \in Seq(Octet)
    BY <2>4, <2>6, FlagIsOctet
  <2>8. flow = <<SFP_FLAG>> \o rest
    <3>1. (<<SFP_FLAG>> \o (u \o <<SFP_FLAG>>)) \o R[p + 1]
             = <<SFP_FLAG>> \o ((u \o <<SFP_FLAG>>) \o R[p + 1])
      BY <2>4, <2>6, FlagIsOctet, Reassociate
    <3>2. (u \o <<SFP_FLAG>>) \o R[p + 1] = rest
      BY <2>4, <2>6, FlagIsOctet, Reassociate
    <3>. QED
      BY <2>3, <2>5, <3>1, <3>2, Zenon
  <2>. HIDE DEF rest
  <2>9. flow # <<>> /\ Head(flow) = SFP_FLAG /\ Tail(flow) = rest
    BY <2>7, <2>8, FlagIsOctet, FirstOf
  <2>10. Within(s, R, p, u, Tail(flow))
    BY <2>1, <2>9 DEF Within, rest
  <2>. QED
    BY <1>1, <2>2, <2>3, <2>9, <2>10
<1>. QED
  BY <1>1, <1>2, <1>3

\* What comes in the middle of one.
LEMMA InFrame ==
    ASSUME NEW s \in Seq(Frame), NEW R, Ahead(s, R),
           NEW p, NEW u, NEW flow, Within(s, R, p, u, flow)
    PROVE  /\ flow \in Seq(Octet) /\ flow # <<>>
           /\ s[p + 1] \in Frame
           /\ u \in Body
           /\ u = <<>> => /\ Head(flow) = SFP_FLAG
                          /\ Between(s, R, p + 1, Tail(flow))
           /\ u # <<>> => /\ Head(flow) = Head(u)
                          /\ Within(s, R, p, Tail(u), Tail(flow))
<1>1. /\ p \in Nat /\ p + 1 \in 1 .. Len(s) /\ p + 1 \in 0 .. Len(s)
      /\ u \in Body /\ u \in Seq(Octet)
      /\ flow = u \o (<<SFP_FLAG>> \o R[p + 1])
  BY BodyIs DEF Within
<1>2. R[p + 1] \in Seq(Octet)
  BY <1>1 DEF Ahead
<1>3. s[p + 1] \in Frame
  BY <1>1
<1>. DEFINE rest == <<SFP_FLAG>> \o R[p + 1]
<1>4. rest \in Seq(Octet) /\ rest # <<>> /\ Head(rest) = SFP_FLAG
        /\ Tail(rest) = R[p + 1]
  BY <1>2, FlagIsOctet, FirstOf
<1>5. flow = u \o rest
  BY <1>1
<1>. HIDE DEF rest
<1>6. CASE u = <<>>
  <2>1. flow = rest
    BY <1>4, <1>5, <1>6
  <2>2. Between(s, R, p + 1, Tail(flow))
    BY <1>1, <1>4, <2>1 DEF Between
  <2>. QED
    BY <1>1, <1>3, <1>4, <1>6, <2>1, <2>2
<1>7. CASE u # <<>>
  <2>1. Head(u) \in Octet /\ Tail(u) \in Body /\ Tail(u) \in Seq(Octet)
    BY <1>1, <1>7, TailOfBody, BodyIs
  <2>2. u = <<Head(u)>> \o Tail(u)
    BY <1>1, <1>7, HeadAndTail
  <2>. DEFINE h == Head(u)
              t == Tail(u)
  <2>. HIDE DEF h, t
  <2>3. flow = <<h>> \o (t \o rest)
    <3>1. (<<h>> \o t) \o rest = <<h>> \o (t \o rest)
      <4>1. <<h>> \in Seq(Octet)
        BY <2>1 DEF h
      <4>. QED
        BY <1>4, <2>1, <4>1, Reassociate DEF t
    <3>2. u = <<h>> \o t
      BY <2>2 DEF h, t
    <3>. QED
      BY <1>5, <3>1, <3>2, Zenon
  <2>4. t \o rest \in Seq(Octet) /\ h \in Octet
    BY <1>4, <2>1 DEF t, h
  <2>5. flow \in Seq(Octet) /\ flow # <<>> /\ Head(flow) = h
          /\ Tail(flow) = t \o rest
    BY <2>3, <2>4, FirstOf
  <2>6. Within(s, R, p, Tail(u), Tail(flow))
    BY <1>1, <2>1, <2>5 DEF Within, t, rest
  <2>. QED
    BY <1>1, <1>3, <1>7, <2>5, <2>6 DEF h
<1>. QED
  BY <1>6, <1>7

\* One more frame is sent.
LEMMA OneMore ==
    ASSUME NEW s \in Seq(Frame), NEW R, Ahead(s, R), NEW frame \in Frame
    PROVE  \E Q : /\ Ahead(Append(s, frame), Q)
                  /\ \A p, flow : Between(s, R, p, flow) =>
                        Between(Append(s, frame), Q, p, flow \o Encoded(frame))
                  /\ \A p, u, flow : Within(s, R, p, u, flow) =>
                        Within(Append(s, frame), Q, p, u, flow \o Encoded(frame))
<1>. DEFINE n == Len(s)
            new == Encoded(frame)
            t == Append(s, frame)
            Q == [p \in 0 .. n + 1 |-> IF p = n + 1 THEN <<>> ELSE R[p] \o new]
<1>1. n \in Nat /\ Len(t) = n + 1 /\ new \in Seq(Octet)
        /\ t[n + 1] = frame /\ \A p \in 1 .. n : t[p] = s[p]
  BY EncodedIsOctets
<1>2. /\ \A p \in 0 .. n : R[p] \in Seq(Octet)
      /\ R[n] = <<>>
      /\ \A p \in 1 .. n : R[p - 1] = Encoded(s[p]) \o R[p]
  BY DEF Ahead
<1>. HIDE DEF new, t
<1>3. /\ Q \in [0 .. n + 1 -> Seq(Octet)]
      /\ Q[n + 1] = <<>>
      /\ \A p \in 0 .. n : p # n + 1 /\ p \in 0 .. n + 1 /\ Q[p] = R[p] \o new
  BY <1>1, <1>2
<1>. HIDE DEF Q, n
<1>4. ASSUME NEW p \in 1 .. n + 1
      PROVE  Q[p - 1] = Encoded(t[p]) \o Q[p]
  <2>1. CASE p = n + 1
    <3>1. n \in 0 .. n /\ p - 1 = n
      BY <1>1, <2>1
    <3>2. Q[p - 1] = <<>> \o new
      BY <1>2, <1>3, <3>1
    <3>3. Encoded(t[p]) \o Q[p] = new \o <<>>
      BY <1>1, <1>3, <2>1 DEF new
    <3>. QED
      BY <1>1, <3>2, <3>3
  <2>2. CASE p \in 1 .. n
    <3>1. p \in 0 .. n /\ p - 1 \in 0 .. n
      BY <1>1, <2>2
    <3>2. Q[p - 1] = R[p - 1] \o new /\ Q[p] = R[p] \o new /\ R[p] \in Seq(Octet)
      BY <1>2, <1>3, <3>1
    <3>3. R[p - 1] = Encoded(s[p]) \o R[p] /\ t[p] = s[p]
      BY <1>1, <1>2, <2>2
    <3>4. Encoded(s[p]) \in Seq(Octet)
      <4>1. s[p] \in Frame
        BY <2>2 DEF n
      <4>. QED
        BY <4>1, EncodedIsOctets
    <3>5. (Encoded(s[p]) \o R[p]) \o new = Encoded(s[p]) \o (R[p] \o new)
      BY <1>1, <3>2, <3>4, Reassociate
    <3>. QED
      BY <3>2, <3>3, <3>5, Zenon
  <2>. QED
    BY <1>1, <2>1, <2>2
<1>5. Ahead(t, Q)
  BY <1>1, <1>3, <1>4 DEF Ahead
<1>6. ASSUME NEW p, NEW flow, Between(s, R, p, flow)
      PROVE  Between(t, Q, p, flow \o new)
  <2>1. p \in 0 .. n /\ flow = R[p]
    BY <1>6 DEF Between, n
  <2>. QED
    BY <1>1, <1>3, <2>1 DEF Between
<1>7. ASSUME NEW p, NEW u, NEW flow, Within(s, R, p, u, flow)
      PROVE  Within(t, Q, p, u, flow \o new)
  <2>1. /\ p \in Nat /\ p + 1 \in 1 .. n /\ p + 1 \in 0 .. n
        /\ p + 1 \in 1 .. n + 1
        /\ u \in Body /\ u \in Seq(Octet)
        /\ flow = u \o (<<SFP_FLAG>> \o R[p + 1])
    BY <1>1, <1>7, BodyIs DEF Within, n
  <2>2. R[p + 1] \in Seq(Octet) /\ Q[p + 1] = R[p + 1] \o new
    BY <1>2, <1>3, <2>1
  <2>3. <<SFP_FLAG>> \o R[p + 1] \in Seq(Octet)
    BY <2>2, FlagIsOctet
  <2>4. (u \o (<<SFP_FLAG>> \o R[p + 1])) \o new
           = u \o ((<<SFP_FLAG>> \o R[p + 1]) \o new)
    BY <1>1, <2>1, <2>3, Reassociate
  <2>5. (<<SFP_FLAG>> \o R[p + 1]) \o new = <<SFP_FLAG>> \o (R[p + 1] \o new)
    BY <1>1, <2>2, FlagIsOctet, Reassociate
  <2>6. flow \o new = u \o (<<SFP_FLAG>> \o Q[p + 1])
    BY <2>1, <2>2, <2>4, <2>5, Zenon
  <2>. QED
    BY <1>1, <2>1, <2>6 DEF Within
<1>. QED
  BY <1>5, <1>6, <1>7 DEF new, t

-----------------------------------------------------------------------------
(* Type correctness, and what each step does to the octets in flight.      *)

\* TypeOK, with the range of the register named: the solver is slow with the
\* number.
Types ==
    /\ toWrite \in Seq(Octet)
    /\ writebuf \in Seq(Octet) /\ Len(writebuf) <= WRITEBUF_SIZE
    /\ line \in Seq(Octet)
    /\ rx \in Receiver
    /\ Len(rx.packet) <= MAX_PACKET_SIZE
    /\ overflow \in {"none", "last", "silent"}
    /\ sent \in Seq(Frame)
    /\ handled \in Seq([header : Octet, packet : Seq(Octet)])
    /\ naks \in Nat
    /\ faults \in 0 .. MaxFaults

\* That is all the difference.
LEMMA TypesAreTypeOK == Types <=> TypeOK
BY Zenon DEF Types, TypeOK, Receiver, Register

\* A receiver that was reset.
LEMMA NewReceiverIs ==
    /\ NewReceiver \in Receiver
    /\ Len(NewReceiver.packet) <= MAX_PACKET_SIZE
    /\ ~NewReceiver.receiving
<1>1. SFP_CRC_PRESET \in Register
  BY DEF SFP_CRC_PRESET, Register
<1>2. 0 \in Octet /\ <<>> \in Seq(Octet) /\ MAX_PACKET_SIZE \in Nat
  BY FramingAssumption DEF Octet
<1>. QED
  BY <1>1, <1>2 DEF NewReceiver, Receiver

\* At the start all variables are well typed,
LEMMA TypesStart == Init => Types
<1>. SUFFICES ASSUME Init PROVE Types
  OBVIOUS
<1>1. rx \in Receiver /\ Len(rx.packet) <= MAX_PACKET_SIZE
  BY NewReceiverIs DEF Init
<1>. QED
  BY <1>1, FramingAssumption DEF Init, Types

\* and after a frame was given to the transmitter.
LEMMA TypesTransmit ==
    ASSUME Types, NEW frame \in Frame, Transmit(frame)
    PROVE  Types'
<1>1. toWrite' \in Seq(Octet)
  BY EncodedIsOctets DEF Transmit
<1>2. sent' \in Seq(Frame)
  BY DEF Types, Transmit
<1>. QED
  BY <1>1, <1>2 DEF Types, Transmit

\* The octets under way, in the order of their arrival.
Flow == (line \o writebuf) \o toWrite

\* The write buffer does not change them, and keeps its size.
LEMMA Written ==
    ASSUME Types, BufferedWrite
    PROVE  /\ Types' /\ Flow' = Flow
           /\ line # <<>> => line' # <<>>
           /\ toWrite' = <<>> => writebuf' = <<>>
<1>. DEFINE full == Len(writebuf) >= WRITEBUF_SIZE
            kept == IF full THEN <<>> ELSE writebuf
            gone == IF full THEN writebuf ELSE <<>>
            octet == Head(toWrite)
            rest == Tail(toWrite)
<1>1. /\ toWrite \in Seq(Octet) /\ toWrite # <<>>
      /\ writebuf \in Seq(Octet) /\ Len(writebuf) <= WRITEBUF_SIZE
      /\ line \in Seq(Octet)
      /\ WRITEBUF_SIZE \in Nat /\ WRITEBUF_SIZE >= 1
  BY FramingAssumption DEF Types, BufferedWrite
<1>2. octet \in Octet /\ rest \in Seq(Octet) /\ toWrite = <<octet>> \o rest
  BY <1>1, HeadAndTail
<1>3. /\ kept \in Seq(Octet) /\ gone \in Seq(Octet)
      /\ writebuf = gone \o kept
      /\ Len(kept) < WRITEBUF_SIZE
  BY <1>1
<1>4. /\ rest = <<>> => /\ line' = (line \o gone) \o Append(kept, octet)
                        /\ writebuf' = <<>>
      /\ rest # <<>> => /\ line' = line \o gone
                        /\ writebuf' = Append(kept, octet)
      /\ toWrite' = rest
  <2>1. (IF full THEN line \o writebuf ELSE line) = line \o gone
    BY <1>1
  <2>. QED
    BY <2>1 DEF BufferedWrite
<1>5. UNCHANGED <<rx, overflow, sent, handled, naks, faults>>
  BY DEF BufferedWrite
<1>. HIDE DEF kept, gone, octet, rest
<1>6. /\ Append(kept, octet) \in Seq(Octet)
      /\ Append(kept, octet) = kept \o <<octet>>
      /\ Len(Append(kept, octet)) <= WRITEBUF_SIZE
      /\ <<octet>> \in Seq(Octet)
      /\ line \o gone \in Seq(Octet)
      /\ kept \o <<octet>> \in Seq(Octet)
  <2>1. Append(kept, octet) \in Seq(Octet) /\ <<octet>> \in Seq(Octet)
          /\ Len(Append(kept, octet)) = Len(kept) + 1 /\ Len(kept) \in Nat
    BY <1>2, <1>3
  <2>2. Append(kept, octet) = kept \o <<octet>>
    BY <1>2, <1>3, AppendIsConcat
  <2>3. line \o gone \in Seq(Octet)
    BY <1>1, <1>3
  <2>4. Len(Append(kept, octet)) <= WRITEBUF_SIZE
    BY <1>1, <1>3, <2>1
  <2>. QED
    BY <2>1, <2>2, <2>3, <2>4
<1>7. Flow = ((line \o gone) \o (kept \o <<octet>>)) \o rest
  <2>1. line \o (gone \o kept) = (line \o gone) \o kept
    BY <1>1, <1>3, Reassociate
  <2>2. ((line \o gone) \o kept) \o (<<octet>> \o rest)
           = (((line \o gone) \o kept) \o <<octet>>) \o rest
    <3>1. (line \o gone) \o kept \in Seq(Octet)
      BY <1>3, <1>6
    <3>. QED
      BY <1>2, <1>6, <3>1, Reassociate
  <2>3. ((line \o gone) \o kept) \o <<octet>>
           = (line \o gone) \o (kept \o <<octet>>)
    BY <1>3, <1>6, Reassociate
  <2>. QED
    BY <1>2, <1>3, <2>1, <2>2, <2>3, Zenon DEF Flow
<1>8. line # <<>> => line \o gone # <<>>
  BY <1>1, <1>3
<1>9. CASE rest = <<>>
  <2>1. line' = (line \o gone) \o (kept \o <<octet>>) /\ writebuf' = <<>>
          /\ toWrite' = <<>>
    BY <1>4, <1>6, <1>9
  <2>. DEFINE new == (line \o gone) \o (kept \o <<octet>>)
  <2>2. new \in Seq(Octet)
    BY <1>6
  <2>3. line' # <<>>
    BY <1>6, <2>1
  <2>. HIDE DEF new
  <2>4. (new \o <<>>) \o <<>> = new /\ new \o <<>> = new
    BY <2>2, ConcatEmptySeq
  <2>5. Flow' = Flow
    BY <1>7, <1>9, <2>1, <2>4, Zenon DEF Flow, new
  <2>6. Types'
    BY <1>1, <1>5, <2>1, <2>2 DEF Types, new
  <2>. QED
    BY <2>1, <2>3, <2>5, <2>6
<1>10. CASE rest # <<>>
  <2>1. line' = line \o gone /\ writebuf' = kept \o <<octet>> /\ toWrite' = rest
    BY <1>4, <1>6, <1>10
  <2>2. Flow' = Flow
    BY <1>7, <2>1 DEF Flow
  <2>3. Types'
    BY <1>1, <1>2, <1>5, <1>6, <2>1 DEF Types
  <2>. QED
    BY <1>8, <1>10, <2>1, <2>2, <2>3
<1>. QED
  BY <1>9, <1>10

\* The octet that comes next, and the others.
LEMMA NextOctet ==
    ASSUME Types, line # <<>>
    PROVE  /\ Head(line) \in Octet /\ Tail(line) \in Seq(Octet)
           /\ Flow \in Seq(Octet) /\ Flow # <<>>
           /\ Head(Flow) = Head(line)
           /\ Tail(Flow) = (Tail(line) \o writebuf) \o toWrite
           /\ \A octet \in Octet : ((<<octet>> \o Tail(line)) \o writebuf) \o toWrite
                                      = <<octet>> \o Tail(Flow)
<1>. DEFINE h == Head(line)
            t == Tail(line)
<1>1. writebuf \in Seq(Octet) /\ toWrite \in Seq(Octet) /\ line \in Seq(Octet)
  BY DEF Types
<1>2. h \in Octet /\ t \in Seq(Octet) /\ line = <<h>> \o t
  BY <1>1, HeadAndTail
<1>. HIDE DEF h, t
<1>3. t \o writebuf \in Seq(Octet) /\ (t \o writebuf) \o toWrite \in Seq(Octet)
  BY <1>1, <1>2
<1>4. ASSUME NEW octet \in Octet
      PROVE  ((<<octet>> \o t) \o writebuf) \o toWrite
                = <<octet>> \o ((t \o writebuf) \o toWrite)
  <2>1. <<octet>> \in Seq(Octet)
    OBVIOUS
  <2>2. (<<octet>> \o t) \o writebuf = <<octet>> \o (t \o writebuf)
    BY <1>1, <1>2, <2>1, Reassociate
  <2>3. (<<octet>> \o (t \o writebuf)) \o toWrite
           = <<octet>> \o ((t \o writebuf) \o toWrite)
    BY <1>1, <1>3, <2>1, Reassociate
  <2>. QED
    BY <2>2, <2>3, Zenon
<1>5. Flow = <<h>> \o ((t \o writebuf) \o toWrite)
  BY <1>2, <1>4, Zenon DEF Flow
<1>6. Flow \in Seq(Octet) /\ Flow # <<>> /\ Head(Flow) = h
        /\ Tail(Flow) = (t \o writebuf) \o toWrite
  BY <1>2, <1>3, <1>5, FirstOf
<1>. QED
  BY <1>2, <1>4, <1>6 DEF h, t

\* A step of the receiver.
Receive == IgnoreFlag \/ RejectFrame \/ HandleFrame \/ DeliverEsc \/ DeliverOther

\* A step of the receiver takes an octet, and handles a frame or sends a NAK at
\* most, on a FLAG only; after one it is reset.
LEMMA Received ==
    ASSUME Types, Receive
    PROVE  /\ Types'
           /\ line # <<>> /\ Flow' = Tail(Flow)
           /\ UNCHANGED <<toWrite, writebuf, sent, faults>>
           /\ Len(handled) <= Len(handled') /\ Len(handled') <= Len(handled) + 1
           /\ naks' >= naks /\ naks' <= naks + 1
           /\ Head(line) = SFP_FLAG => rx' = NewReceiver
           /\ Head(line) # SFP_FLAG => UNCHANGED <<handled, naks>>
<1>1. /\ line # <<>> /\ line' = Tail(line)
      /\ UNCHANGED <<toWrite, writebuf, sent, faults>>
  BY DEF Receive, IgnoreFlag, RejectFrame, HandleFrame, DeliverEsc,
         DeliverOther, Take, tx
<1>2. Flow' = Tail(Flow)
  BY <1>1, NextOctet DEF Flow
<1>3. line' \in Seq(Octet) /\ Head(line) \in Octet
  BY <1>1, NextOctet
<1>4. SFP_FLAG # SFP_ESC
  BY DEF SFP_FLAG, SFP_ESC
<1>. USE DEF Types
<1>5. CASE IgnoreFlag
  <2>1. rx' = NewReceiver /\ UNCHANGED <<handled, naks>>
           /\ Head(line) = SFP_FLAG /\ overflow' \in {"none", "last", "silent"}
    BY <1>5 DEF IgnoreFlag
  <2>2. Types'
    BY <1>1, <1>3, <2>1, NewReceiverIs
  <2>. QED
    BY <1>1, <1>2, <2>1, <2>2
<1>6. CASE RejectFrame
  <2>1. rx' = NewReceiver /\ handled' = handled /\ naks' = naks + 1
           /\ Head(line) = SFP_FLAG /\ overflow' = overflow
    BY <1>6 DEF RejectFrame
  <2>2. Types'
    BY <1>1, <1>3, <2>1, NewReceiverIs
  <2>. QED
    BY <1>1, <1>2, <2>1, <2>2
<1>7. CASE HandleFrame
  <2>. DEFINE new == [ header |-> rx.header,
                       packet |-> SubSeq(rx.packet, 1,
                                         Len(rx.packet) - SFP_CRC_SIZE) ]
  <2>1. rx' = NewReceiver /\ handled' = Append(handled, new) /\ naks' = naks
           /\ Head(line) = SFP_FLAG /\ overflow' = overflow
    BY <1>7 DEF HandleFrame
  <2>2. new \in [header : Octet, packet : Seq(Octet)]
    <3>1. Len(rx.packet) >= 2 /\ rx.packet \in Seq(Octet) /\ rx.header \in Octet
      BY <1>7 DEF HandleFrame, GoodFrame, SFP_CRC_SIZE, Receiver
    <3>2. SubSeq(rx.packet, 1, Len(rx.packet) - SFP_CRC_SIZE) \in Seq(Octet)
      BY <3>1 DEF SFP_CRC_SIZE
    <3>. QED
      BY <3>1, <3>2
  <2>. HIDE DEF new
  <2>3. handled' \in Seq([header : Octet, packet : Seq(Octet)])
           /\ Len(handled') = Len(handled) + 1
    BY <2>1, <2>2
  <2>4. Types'
    BY <1>1, <1>3, <2>1, <2>3, NewReceiverIs
  <2>. QED
    BY <1>1, <1>2, <2>1, <2>3, <2>4
<1>8. CASE DeliverEsc
  <2>1. rx' = [rx EXCEPT !.escaping = TRUE] /\ UNCHANGED <<overflow, handled, naks>>
           /\ Head(line) # SFP_FLAG
    BY <1>4, <1>8 DEF DeliverEsc
  <2>2. rx' \in Receiver /\ rx'.packet = rx.packet
    BY <2>1 DEF Receiver
  <2>3. Types'
    BY <1>1, <1>3, <2>1, <2>2
  <2>. QED
    BY <1>1, <1>2, <2>1, <2>3
<1>9. CASE DeliverOther
  <2>. DEFINE octet == Plain(rx, Head(line))
              next == Taken(rx, octet)
  <2>1. /\ Head(line) # SFP_FLAG /\ UNCHANGED <<handled, naks>>
        /\ overflow' \in {"none", "last", "silent"}
        /\ \/ rx' = [next EXCEPT !.header = octet, !.receiving = TRUE]
           \/ /\ Len(rx.packet) < MAX_PACKET_SIZE
              /\ rx' = [next EXCEPT !.packet = Append(@, octet)]
           \/ rx' = NewReceiver
    BY <1>9 DEF DeliverOther, Plain, Taken
  <2>2. octet \in Octet
    BY <1>3, XorIsOctet DEF Plain
  <2>. HIDE DEF octet
  <2>3. next \in Receiver /\ next.packet = rx.packet
    BY CrcIsRegister DEF Taken, Receiver
  <2>4. next.packet \in Seq(Octet)
    BY <2>3 DEF Receiver
  <2>. HIDE DEF next
  <2>5. rx' \in Receiver /\ Len(rx'.packet) <= MAX_PACKET_SIZE
    <3>1. CASE rx' = [next EXCEPT !.header = octet, !.receiving = TRUE]
      <4>1. rx' \in Receiver /\ rx'.packet = rx.packet
        BY <2>2, <2>3, <3>1 DEF Receiver
      <4>. QED
        BY <4>1
    <3>2. CASE /\ Len(rx.packet) < MAX_PACKET_SIZE
               /\ rx' = [next EXCEPT !.packet = Append(@, octet)]
      <4>1. Append(next.packet, octet) \in Seq(Octet)
               /\ Len(Append(next.packet, octet)) = Len(next.packet) + 1
        BY <2>2, <2>4
      <4>2. rx' \in Receiver /\ rx'.packet = Append(next.packet, octet)
        BY <2>3, <3>2, <4>1 DEF Receiver
      <4>3. Len(rx.packet) + 1 <= MAX_PACKET_SIZE
        BY <2>3, <2>4, <3>2, FramingAssumption
      <4>. QED
        BY <2>3, <4>1, <4>2, <4>3
    <3>3. CASE rx' = NewReceiver
      BY <3>3, NewReceiverIs
    <3>. QED
      BY <2>1, <3>1, <3>2, <3>3
  <2>6. Types'
    BY <1>1, <1>3, <2>1, <2>5
  <2>. QED
    BY <1>1, <1>2, <2>1, <2>6
<1>. QED
  BY <1>5, <1>6, <1>7, <1>8, <1>9 DEF Receive

\* A lost octet leaves all but the line alone,
LEMMA Lost ==
    ASSUME Types, LoseOctet
    PROVE  /\ Types' /\ line # <<>> /\ Flow' = Tail(Flow) /\ faults' = faults + 1
           /\ UNCHANGED <<toWrite, writebuf, sent, rx, overflow, handled, naks>>
<1>1. /\ line # <<>> /\ line' = Tail(line) /\ faults' = faults + 1
      /\ faults < MaxFaults
      /\ UNCHANGED <<toWrite, writebuf, sent, rx, overflow, handled, naks>>
  BY DEF LoseOctet, tx
<1>2. Flow' = Tail(Flow)
  BY <1>1, NextOctet DEF Flow
<1>3. line' \in Seq(Octet)
  BY <1>1, NextOctet
<1>4. faults' \in 0 .. MaxFaults
  BY <1>1, FramingAssumption DEF Types
<1>. QED
  BY <1>1, <1>2, <1>3, <1>4 DEF Types

\* and so does a damaged one, which is replaced.
LEMMA DamagedOctet ==
    ASSUME Types, NEW octet \in Noise, DamageOctet(octet)
    PROVE  /\ Types' /\ line # <<>> /\ line' # <<>>
           /\ Flow' = <<octet>> \o Tail(Flow) /\ faults' = faults + 1
           /\ Flow # <<>> /\ Tail(Flow') = Tail(Flow)
           /\ Flow = <<Head(Flow)>> \o Tail(Flow) /\ Head(Flow) \in Octet
           /\ UNCHANGED <<toWrite, writebuf, sent, rx, overflow, handled, naks>>
<1>1. /\ line # <<>> /\ line' = <<octet>> \o Tail(line) /\ faults' = faults + 1
      /\ faults < MaxFaults
      /\ UNCHANGED <<toWrite, writebuf, sent, rx, overflow, handled, naks>>
  BY DEF DamageOctet, tx
<1>2. octet \in Octet
  BY FramingAssumption
<1>3. Flow' = <<octet>> \o Tail(Flow)
  BY <1>1, <1>2, NextOctet DEF Flow
<1>4. Tail(line) \in Seq(Octet) /\ Flow \in Seq(Octet) /\ Flow # <<>>
  BY <1>1, NextOctet
<1>5. line' \in Seq(Octet) /\ line' # <<>>
  BY <1>1, <1>2, <1>4, FirstOf
<1>6. faults' \in 0 .. MaxFaults
  BY <1>1, FramingAssumption DEF Types
<1>7. Flow = <<Head(Flow)>> \o Tail(Flow) /\ Head(Flow) \in Octet
        /\ Tail(Flow) \in Seq(Octet)
  BY <1>4, HeadAndTail
<1>8. Tail(Flow') = Tail(Flow)
  BY <1>2, <1>3, <1>7, FirstOf
<1>9. Types'
  BY <1>1, <1>5, <1>6 DEF Types
<1>. QED
  BY <1>1, <1>3, <1>4, <1>5, <1>7, <1>8, <1>9

\* A frame is sent when the buffer is empty.
LEMMA Transmitted ==
    ASSUME Types, NEW frame \in Frame, Transmit(frame),
           toWrite = <<>> => writebuf = <<>>
    PROVE  /\ Flow' = Flow \o Encoded(frame) /\ sent' = Append(sent, frame)
           /\ Encoded(frame) # <<>> /\ toWrite' = Encoded(frame)
           /\ UNCHANGED <<writebuf, line, rx, overflow, handled, naks, faults>>
<1>1. /\ toWrite = <<>> /\ writebuf = <<>> /\ line \in Seq(Octet)
      /\ toWrite' = Encoded(frame) /\ sent' = Append(sent, frame)
      /\ UNCHANGED <<writebuf, line, rx, overflow, handled, naks, faults>>
  BY DEF Transmit, Types
<1>2. Flow = line
  BY <1>1, ConcatEmptySeq DEF Flow
<1>3. Flow' = line \o Encoded(frame)
  BY <1>1, ConcatEmptySeq DEF Flow
<1>. QED
  BY <1>1, <1>2, <1>3, EncodedIsOctets

\* Every step keeps the types.
LEMMA TypesStep == Types /\ [Next]_vars => Types'
<1>. SUFFICES ASSUME Types, [Next]_vars PROVE Types'
  OBVIOUS
<1>1. CASE \E frame \in Frame : Transmit(frame)
  BY <1>1, TypesTransmit
<1>2. CASE BufferedWrite
  BY <1>2, Written
<1>3. CASE Receive
  BY <1>3, Received
<1>4. CASE LoseOctet
  BY <1>4, Lost
<1>5. CASE \E octet \in Noise : DamageOctet(octet)
  BY <1>5, DamagedOctet
<1>6. CASE UNCHANGED vars
  BY <1>6 DEF vars, Types
<1>. QED
  BY <1>1, <1>2, <1>3, <1>4, <1>5, <1>6 DEF Next, Receive

\* The variables stay in range: the write buffer holds no more than
\* SFP_CONFIG_WRITEBUF_SIZE octets and the packet buffer no more than
\* SFP_CONFIG_MAX_PACKET_SIZE, whatever the line does (sfpBufferedWrite,
\* sfpBufferOctet), and the CRC register is sixteen bits.
THEOREM TypeCorrect == Spec => []TypeOK
<1>1. Spec => []Types
  BY TypesStart, TypesStep, PTL DEF Spec
<1>. QED
  BY <1>1, TypesAreTypeOK, PTL

-----------------------------------------------------------------------------
(* The receiver among the frames.                                          *)

\* The first p frames are behind.
At(s, R, p, flow) ==
    Between(s, R, p, flow) \/ \E u : Within(s, R, p, u, flow)

\* The receiver has taken them, and nothing else than what is gone of the next.
Clean(s, R, p, flow, r) ==
    \/ Between(s, R, p, flow) /\ r = NewReceiver
    \/ \E u : Within(s, R, p, u, flow) /\ Following(s[p + 1], u, r)

\* Where the receiver keeps up, something is still to come,
LEMMA CleanIsAt ==
    ASSUME NEW s, NEW R, NEW p, NEW flow, NEW r, Clean(s, R, p, flow, r)
    PROVE  At(s, R, p, flow)
BY DEF Clean, At

\* of no more frames than were sent.
LEMMA AtIsNat ==
    ASSUME NEW s \in Seq(Frame), NEW R, NEW p, NEW flow, At(s, R, p, flow)
    PROVE  p \in 0 .. Len(s) /\ p \in Nat
BY DEF At, Between, Within

\* An octet further.
LEMMA AtNext ==
    ASSUME NEW s \in Seq(Frame), NEW R, Ahead(s, R), NEW p, NEW flow,
           At(s, R, p, flow), flow # <<>>
    PROVE  \/ At(s, R, p, Tail(flow))
           \/ Between(s, R, p + 1, Tail(flow))
<1>1. CASE Between(s, R, p, flow)
  <2>1. \E u : Within(s, R, p, u, Tail(flow))
    BY <1>1, AfterFrame
  <2>. QED
    BY <2>1 DEF At
<1>2. CASE \E u : Within(s, R, p, u, flow)
  <2>1. PICK u : Within(s, R, p, u, flow)
    BY <1>2
  <2>2. CASE u = <<>>
    BY <2>1, <2>2, InFrame
  <2>3. CASE u # <<>>
    <3>1. Within(s, R, p, Tail(u), Tail(flow))
      BY <2>1, <2>3, InFrame
    <3>. QED
      BY <3>1 DEF At
  <2>. QED
    BY <2>2, <2>3
<1>. QED
  BY <1>1, <1>2 DEF At

\* As long as nothing is lost or damaged the receiver keeps up with the frames.
LEMMA CleanNext ==
    ASSUME Types, Receive, NEW R, Ahead(sent, R),
           NEW p, Clean(sent, R, p, Flow, rx)
    PROVE  /\ naks' = naks
           /\ overflow = "none" => overflow' = "none"
           /\ \/ Clean(sent, R, p, Flow', rx') /\ handled' = handled
              \/ /\ p + 1 \in 1 .. Len(sent)
                 /\ Clean(sent, R, p + 1, Flow', rx')
                 /\ handled' = Append(handled, sent[p + 1])
<1>1. /\ line # <<>> /\ Flow # <<>> /\ Head(Flow) = Head(line)
      /\ Flow' = Tail(Flow) /\ sent \in Seq(Frame) /\ rx \in Receiver
  BY Received, NextOctet DEF Types
<1>2. SFP_FLAG # SFP_ESC
  BY DEF SFP_FLAG, SFP_ESC
<1>3. CASE Between(sent, R, p, Flow) /\ rx = NewReceiver
  <2>1. Head(line) = SFP_FLAG /\ ~rx.receiving
    BY <1>1, <1>3, AfterFrame, NewReceiverIs
  <2>2. IgnoreFlag
    BY <1>2, <2>1 DEF Receive, RejectFrame, HandleFrame, DeliverEsc, DeliverOther
  <2>3. rx' = NewReceiver /\ UNCHANGED <<handled, naks>>
           /\ (overflow = "none" => overflow' = "none")
    BY <2>2 DEF IgnoreFlag
  <2>4. \E u : Within(sent, R, p, u, Tail(Flow))
                 /\ Following(sent[p + 1], u, NewReceiver)
    BY <1>1, <1>3, AfterFrame
  <2>5. Clean(sent, R, p, Flow', rx')
    BY <1>1, <2>3, <2>4 DEF Clean
  <2>. QED
    BY <2>3, <2>5
<1>4. CASE \E u : Within(sent, R, p, u, Flow) /\ Following(sent[p + 1], u, rx)
  <2>1. PICK u : Within(sent, R, p, u, Flow) /\ Following(sent[p + 1], u, rx)
    BY <1>4
  <2>2. sent[p + 1] \in Frame /\ u \in Body /\ p + 1 \in 1 .. Len(sent)
    BY <1>1, <2>1, InFrame DEF Within
  <2>3. CASE u = <<>>
    <3>1. Head(line) = SFP_FLAG /\ Between(sent, R, p + 1, Flow')
      <4>1. Head(Flow) = SFP_FLAG /\ Between(sent, R, p + 1, Tail(Flow))
        BY <1>1, <2>1, <2>3, InFrame
      <4>. QED
        BY <1>1, <4>1
    <3>2. /\ rx.receiving /\ Len(rx.packet) >= SFP_CRC_SIZE
          /\ rx.crc = SFP_CRC_GOOD
          /\ [ header |-> rx.header,
               packet |-> SubSeq(rx.packet, 1, Len(rx.packet) - SFP_CRC_SIZE) ]
                = sent[p + 1]
      BY <1>1, <2>1, <2>2, <2>3, Ends
    <3>3. HandleFrame
      BY <1>2, <3>1, <3>2
      DEF Receive, IgnoreFlag, RejectFrame, DeliverEsc, DeliverOther, GoodFrame
    <3>4. rx' = NewReceiver /\ UNCHANGED <<overflow, naks>>
             /\ handled' = Append(handled, sent[p + 1])
      BY <3>2, <3>3 DEF HandleFrame
    <3>5. Clean(sent, R, p + 1, Flow', rx')
      BY <3>1, <3>4 DEF Clean
    <3>. QED
      BY <2>2, <3>4, <3>5
  <2>4. CASE u # <<>>
    <3>1. Head(line) = Head(u) /\ Within(sent, R, p, Tail(u), Flow')
      BY <1>1, <2>1, <2>4, InFrame
    <3>2. Head(line) # SFP_FLAG
      BY <2>2, <2>4, <3>1, TailOfBody
    <3>3. SUFFICES /\ UNCHANGED <<handled, naks>>
                   /\ overflow = "none" => overflow' = "none"
                   /\ Following(sent[p + 1], Tail(u), rx')
      BY <3>1 DEF Clean
    <3>4. CASE Head(line) = SFP_ESC
      <4>1. DeliverEsc
        BY <3>2, <3>4
        DEF Receive, IgnoreFlag, RejectFrame, HandleFrame, DeliverOther
      <4>2. rx' = [rx EXCEPT !.escaping = TRUE]
               /\ UNCHANGED <<overflow, handled, naks>>
        BY <4>1 DEF DeliverEsc
      <4>3. Following(sent[p + 1], Tail(u), [rx EXCEPT !.escaping = TRUE])
        BY <1>1, <2>1, <2>2, <2>4, <3>1, <3>4, Goes
      <4>. QED
        BY <4>2, <4>3
    <3>5. CASE Head(line) # SFP_ESC
      <4>. DEFINE octet == Plain(rx, Head(line))
                  next == Taken(rx, octet)
                  first == [next EXCEPT !.header = octet, !.receiving = TRUE]
                  more == [next EXCEPT !.packet = Append(@, octet)]
      <4>1. DeliverOther
        BY <3>2, <3>5
        DEF Receive, IgnoreFlag, RejectFrame, HandleFrame, DeliverEsc
      <4>2. /\ UNCHANGED <<handled, naks>>
            /\ \/ /\ ~rx.receiving /\ rx' = first
                  /\ overflow' = IF overflow = "last" THEN "none" ELSE overflow
               \/ /\ rx.receiving /\ rx' = more /\ UNCHANGED overflow
               \/ /\ rx.receiving /\ Len(rx.packet) >= MAX_PACKET_SIZE
                  /\ rx' = NewReceiver
        BY <4>1 DEF DeliverOther, Plain, Taken
      <4>3. /\ ~rx.receiving => Following(sent[p + 1], Tail(u), first)
            /\ rx.receiving => /\ Len(rx.packet) < MAX_PACKET_SIZE
                               /\ Following(sent[p + 1], Tail(u), more)
        BY <1>1, <2>1, <2>2, <2>4, <3>1, <3>5, Goes
      <4>4. ~(/\ Len(rx.packet) < MAX_PACKET_SIZE
               /\ Len(rx.packet) >= MAX_PACKET_SIZE)
        <5>1. Len(rx.packet) \in Nat /\ MAX_PACKET_SIZE \in Nat
          BY <1>1, FramingAssumption DEF Receiver
        <5>. QED
          BY <5>1
      <4>. HIDE DEF first, more, next, octet
      <4>. QED
        BY <4>2, <4>3, <4>4
    <3>. QED
      BY <3>4, <3>5
  <2>. QED
    BY <2>3, <2>4
<1>. QED
  BY <1>3, <1>4 DEF Clean

-----------------------------------------------------------------------------
(* A fault costs one frame at most and two NAKs.                           *)

\* What is still to come of the first frames, with a damaged octet ahead of it.
AtDamaged(s, R, p, flow) ==
    \E octet \in Octet : At(s, R, p, <<octet>> \o Tail(flow))

\* The frames that the receiver has not handled of the first p, and its NAKs:
\* the receiver keeps up, or will from the next FLAG on, between two frames or
\* within one, or the octet ahead is damaged.
Bounded(R, p) ==
    LET missing == p - Len(handled)
    IN  \/ /\ Clean(sent, R, p, Flow, rx)
           /\ missing <= faults /\ naks <= 2 * faults
        \/ /\ Between(sent, R, p, Flow)
           /\ missing <= faults /\ naks < 2 * faults
        \/ /\ At(sent, R, p, Flow)
           /\ missing < faults /\ naks < 2 * faults
        \/ /\ line # <<>> /\ AtDamaged(sent, R, p, Flow)
           /\ missing < faults /\ naks + 1 < 2 * faults

\* The inductive invariant of FaultsContained.
Contained ==
    /\ toWrite = <<>> => writebuf = <<>>
    /\ \E R : Ahead(sent, R) /\ \E p : Bounded(R, p)

\* What is known of p and the counters, case by case.
LEMMA BoundedIs ==
    ASSUME Types, NEW R, NEW p, Bounded(R, p)
    PROVE  /\ p \in Nat /\ Len(handled) \in Nat
           /\ faults \in Nat /\ naks \in Nat
           /\ \/ /\ At(sent, R, p, Flow)
                 /\ p - Len(handled) <= faults /\ naks <= 2 * faults
              \/ /\ line # <<>> /\ AtDamaged(sent, R, p, Flow)
                 /\ p - Len(handled) < faults /\ naks + 1 < 2 * faults
<1>1. Len(handled) \in Nat /\ faults \in Nat /\ naks \in Nat
        /\ sent \in Seq(Frame)
  BY DEF Types
<1>2. /\ p \in Nat
      /\ At(sent, R, p, Flow) \/ AtDamaged(sent, R, p, Flow)
  <2>1. At(sent, R, p, Flow) \/ AtDamaged(sent, R, p, Flow)
    BY CleanIsAt DEF Bounded, At
  <2>2. At(sent, R, p, Flow) => p \in Nat
    BY <1>1, AtIsNat
  <2>3. AtDamaged(sent, R, p, Flow) => p \in Nat
    BY <1>1, AtIsNat DEF AtDamaged
  <2>. QED
    BY <2>1, <2>2, <2>3
<1>3. Clean(sent, R, p, Flow, rx) => At(sent, R, p, Flow)
  BY CleanIsAt
<1>4. Between(sent, R, p, Flow) => At(sent, R, p, Flow)
  BY DEF At
<1>. QED
  BY <1>1, <1>2, <1>3, <1>4 DEF Bounded

\* At the start nothing is in flight and nothing was taken.
LEMMA FirstAhead == Init => \E R : Ahead(sent, R) /\ Between(sent, R, 0, Flow)
                                     /\ Clean(sent, R, 0, Flow, rx)
<1>. SUFFICES ASSUME Init
              PROVE  \E R : Ahead(sent, R) /\ Between(sent, R, 0, Flow)
                              /\ Clean(sent, R, 0, Flow, rx)
  OBVIOUS
<1>. DEFINE R == [p \in 0 .. 0 |-> <<>>]
<1>1. sent = <<>> /\ Flow = <<>> /\ rx = NewReceiver
  BY DEF Init, Flow
<1>2. R \in [0 .. 0 -> Seq(Octet)] /\ R[0] = <<>> /\ Len(<<>>) = 0
  OBVIOUS
<1>. HIDE DEF R
<1>3. Ahead(sent, R)
  BY <1>1, <1>2 DEF Ahead
<1>4. Between(sent, R, 0, Flow)
  BY <1>1, <1>2 DEF Between
<1>. QED
  BY <1>1, <1>3, <1>4 DEF Clean

\* The invariant holds at the start,
LEMMA ContainedStart == Init => Contained
<1>. SUFFICES ASSUME Init PROVE Contained
  OBVIOUS
<1>1. PICK R : Ahead(sent, R) /\ Clean(sent, R, 0, Flow, rx)
  BY FirstAhead
<1>2. Len(handled) = 0 /\ faults = 0 /\ naks = 0
  BY DEF Init
<1>3. 0 - Len(handled) <= faults /\ naks <= 2 * faults
  BY <1>2
<1>4. Bounded(R, 0)
  BY <1>1, <1>3 DEF Bounded
<1>. QED
  BY <1>1, <1>4 DEF Contained, Init

\* What is in flight grows at its end.
LEMMA GrowsAtItsEnd ==
    ASSUME Types, NEW frame \in Frame, Transmit(frame),
           toWrite = <<>> => writebuf = <<>>, NEW R, Ahead(sent, R)
    PROVE  \E Q : /\ Ahead(sent', Q)
                  /\ \A p : /\ Clean(sent, R, p, Flow, rx)
                                  => Clean(sent', Q, p, Flow', rx')
                            /\ Between(sent, R, p, Flow)
                                  => Between(sent', Q, p, Flow')
                            /\ \A u : Within(sent, R, p, u, Flow)
                                  => Within(sent', Q, p, u, Flow')
                  /\ \A p : \A octet \in Octet : line # <<>> =>
                        /\ At(sent, R, p, <<octet>> \o Tail(Flow))
                              => At(sent', Q, p, <<octet>> \o Tail(Flow'))
                        /\ Clean(sent, R, p, <<octet>> \o Tail(Flow), rx)
                              => Clean(sent', Q, p, <<octet>> \o Tail(Flow'), rx')
                  /\ line # <<>> => Head(Flow') = Head(Flow)
<1>. DEFINE new == Encoded(frame)
<1>1. /\ sent \in Seq(Frame) /\ sent' = Append(sent, frame)
      /\ Flow' = Flow \o new /\ rx' = rx /\ new \in Seq(Octet)
  BY Transmitted, EncodedIsOctets DEF Types
<1>2. PICK Q : /\ Ahead(sent', Q)
               /\ \A p, flow : Between(sent, R, p, flow) =>
                     Between(sent', Q, p, flow \o new)
               /\ \A p, u, flow : Within(sent, R, p, u, flow) =>
                     Within(sent', Q, p, u, flow \o new)
  BY <1>1, OneMore
<1>3. ASSUME NEW p, NEW flow, At(sent, R, p, flow)
      PROVE  At(sent', Q, p, flow \o new)
  BY <1>2, <1>3 DEF At
<1>. HIDE DEF new
<1>4. ASSUME NEW p, NEW flow, Clean(sent, R, p, flow, rx)
      PROVE  Clean(sent', Q, p, flow \o new, rx')
  <2>1. CASE Between(sent, R, p, flow) /\ rx = NewReceiver
    BY <1>1, <1>2, <2>1 DEF Clean
  <2>2. CASE \E u : Within(sent, R, p, u, flow) /\ Following(sent[p + 1], u, rx)
    <3>1. PICK u : Within(sent, R, p, u, flow) /\ Following(sent[p + 1], u, rx)
      BY <2>2
    <3>2. p + 1 \in 1 .. Len(sent)
      BY <3>1 DEF Within
    <3>3. sent'[p + 1] = sent[p + 1]
      BY <1>1, <3>2
    <3>4. Within(sent', Q, p, u, flow \o new)
      BY <1>2, <3>1
    <3>. QED
      BY <1>1, <3>1, <3>3, <3>4 DEF Clean
  <2>. QED
    BY <1>4, <2>1, <2>2 DEF Clean
<1>5. ASSUME NEW octet \in Octet, line # <<>>
      PROVE  /\ <<octet>> \o Tail(Flow') = (<<octet>> \o Tail(Flow)) \o new
             /\ Head(Flow') = Head(Flow)
  <2>1. Flow \in Seq(Octet) /\ Flow # <<>>
    BY <1>5, NextOctet
  <2>2. Tail(Flow) \in Seq(Octet) /\ <<octet>> \in Seq(Octet)
          /\ Head(Flow) \in Octet /\ Flow = <<Head(Flow)>> \o Tail(Flow)
    BY <2>1, HeadAndTail
  <2>3. Flow' = <<Head(Flow)>> \o (Tail(Flow) \o new)
    <3>1. <<Head(Flow)>> \in Seq(Octet)
      BY <2>2
    <3>2. (<<Head(Flow)>> \o Tail(Flow)) \o new
             = <<Head(Flow)>> \o (Tail(Flow) \o new)
      BY <1>1, <2>2, <3>1, Reassociate
    <3>. QED
      BY <1>1, <2>2, <3>2
  <2>4. Tail(Flow) \o new \in Seq(Octet)
    BY <1>1, <2>2
  <2>5. Tail(Flow') = Tail(Flow) \o new /\ Head(Flow') = Head(Flow)
    BY <2>2, <2>3, <2>4, FirstOf
  <2>6. <<octet>> \o Tail(Flow') = (<<octet>> \o Tail(Flow)) \o new
    BY <1>1, <2>2, <2>5, Reassociate
  <2>. QED
    BY <2>5, <2>6
<1>6. line # <<>> => Head(Flow') = Head(Flow)
  BY <1>5, FlagIsOctet
<1>7. ASSUME NEW p, NEW octet \in Octet, line # <<>>
      PROVE  /\ At(sent, R, p, <<octet>> \o Tail(Flow))
                   => At(sent', Q, p, <<octet>> \o Tail(Flow'))
             /\ Clean(sent, R, p, <<octet>> \o Tail(Flow), rx)
                   => Clean(sent', Q, p, <<octet>> \o Tail(Flow'), rx')
  <2>1. <<octet>> \o Tail(Flow') = (<<octet>> \o Tail(Flow)) \o new
    BY <1>5, <1>7
  <2>2. At(sent, R, p, <<octet>> \o Tail(Flow))
           => At(sent', Q, p, (<<octet>> \o Tail(Flow)) \o new)
    BY <1>3
  <2>3. Clean(sent, R, p, <<octet>> \o Tail(Flow), rx)
           => Clean(sent', Q, p, (<<octet>> \o Tail(Flow)) \o new, rx')
    BY <1>4
  <2>. QED
    BY <2>1, <2>2, <2>3
<1>8. ASSUME NEW p
      PROVE  /\ Clean(sent, R, p, Flow, rx) => Clean(sent', Q, p, Flow', rx')
             /\ Between(sent, R, p, Flow) => Between(sent', Q, p, Flow')
             /\ \A u : Within(sent, R, p, u, Flow) => Within(sent', Q, p, u, Flow')
  BY <1>1, <1>2, <1>4
<1>. QED
  BY <1>2, <1>6, <1>7, <1>8

\* and is kept when a frame is sent:
LEMMA ContainedTransmit ==
    ASSUME Types, Contained, NEW frame \in Frame, Transmit(frame)
    PROVE  Contained'
<1>1. PICK R, p : Ahead(sent, R) /\ Bounded(R, p)
  BY DEF Contained
<1>2. toWrite = <<>> => writebuf = <<>>
  BY DEF Contained
<1>3. /\ UNCHANGED <<line, rx, handled, naks, faults>>
      /\ toWrite' # <<>>
  BY <1>2, Transmitted
<1>4. PICK Q : /\ Ahead(sent', Q)
               /\ Clean(sent, R, p, Flow, rx) => Clean(sent', Q, p, Flow', rx')
               /\ Between(sent, R, p, Flow) => Between(sent', Q, p, Flow')
               /\ \A u : Within(sent, R, p, u, Flow) => Within(sent', Q, p, u, Flow')
               /\ \A octet \in Octet :
                     line # <<>> /\ At(sent, R, p, <<octet>> \o Tail(Flow))
                        => At(sent', Q, p, <<octet>> \o Tail(Flow'))
  BY <1>1, <1>2, GrowsAtItsEnd
<1>5. At(sent, R, p, Flow) => At(sent', Q, p, Flow')
  BY <1>4 DEF At
<1>6. Bounded(Q, p)'
  BY <1>1, <1>3, <1>4, <1>5 DEF Bounded, AtDamaged
<1>. QED
  BY <1>3, <1>4, <1>6 DEF Contained

\* However it comes about, at an octet further one more frame is missing at
\* most.
LEMMA BoundedFurther ==
    ASSUME Types, NEW R, Ahead(sent, R), NEW p, line # <<>>,
           \/ At(sent, R, p, Flow)
           \/ AtDamaged(sent, R, p, Flow)
    PROVE  \/ At(sent, R, p, Tail(Flow))
           \/ Between(sent, R, p + 1, Tail(Flow))
<1>1. Flow \in Seq(Octet) /\ Flow # <<>> /\ sent \in Seq(Frame)
  BY NextOctet DEF Types
<1>2. CASE At(sent, R, p, Flow)
  BY <1>1, <1>2, AtNext
<1>3. CASE AtDamaged(sent, R, p, Flow)
  <2>1. PICK octet \in Octet : At(sent, R, p, <<octet>> \o Tail(Flow))
    BY <1>3 DEF AtDamaged
  <2>2. Tail(Flow) \in Seq(Octet)
    BY <1>1, HeadAndTail
  <2>. DEFINE flow == <<octet>> \o Tail(Flow)
  <2>3. flow # <<>> /\ Tail(flow) = Tail(Flow)
    BY <2>2, FirstOf
  <2>. HIDE DEF flow
  <2>4. At(sent, R, p, flow)
    BY <2>1 DEF flow
  <2>. QED
    BY <1>1, <2>3, <2>4, AtNext
<1>. QED
  BY <1>2, <1>3

\* A FLAG puts things right.
LEMMA FlagCleans ==
    ASSUME Types, Receive, NEW R, Ahead(sent, R), NEW p, At(sent, R, p, Flow)
    PROVE  \/ Clean(sent, R, p, Flow', rx')
           \/ Clean(sent, R, p + 1, Flow', rx')
           \/ At(sent, R, p, Flow') /\ UNCHANGED <<handled, naks>>
<1>1. /\ line # <<>> /\ Flow # <<>> /\ Head(Flow) = Head(line)
      /\ Flow' = Tail(Flow) /\ sent \in Seq(Frame)
  BY Received, NextOctet DEF Types
<1>2. CASE Between(sent, R, p, Flow)
  <2>1. rx' = NewReceiver
    BY <1>1, <1>2, AfterFrame, Received
  <2>2. \E u : Within(sent, R, p, u, Tail(Flow))
                 /\ Following(sent[p + 1], u, NewReceiver)
    BY <1>1, <1>2, AfterFrame
  <2>. QED
    BY <1>1, <2>1, <2>2 DEF Clean
<1>3. CASE \E u : Within(sent, R, p, u, Flow)
  <2>1. PICK u : Within(sent, R, p, u, Flow)
    BY <1>3
  <2>2. CASE u = <<>>
    <3>1. Head(line) = SFP_FLAG /\ Between(sent, R, p + 1, Tail(Flow))
      <4>1. Head(Flow) = SFP_FLAG /\ Between(sent, R, p + 1, Tail(Flow))
        BY <1>1, <2>1, <2>2, InFrame
      <4>. QED
        BY <1>1, <4>1
    <3>2. rx' = NewReceiver
      BY <3>1, Received
    <3>. QED
      BY <1>1, <3>1, <3>2 DEF Clean
  <2>3. CASE u # <<>>
    <3>1. /\ Head(line) = Head(u) /\ Within(sent, R, p, Tail(u), Tail(Flow))
          /\ u \in Body
      BY <1>1, <2>1, <2>3, InFrame
    <3>2. Head(line) # SFP_FLAG
      BY <2>3, <3>1, TailOfBody
    <3>3. UNCHANGED <<handled, naks>>
      BY <3>2, Received
    <3>. QED
      BY <1>1, <3>1, <3>3 DEF At
  <2>. QED
    BY <2>2, <2>3
<1>. QED
  BY <1>2, <1>3 DEF At

\* The receiver keeps the bound, perhaps for the next frame,
LEMMA BoundedReceive ==
    ASSUME Types, Receive, NEW R, Ahead(sent, R), NEW p, Bounded(R, p)
    PROVE  \E q : Bounded(R, q)'
<1>1. /\ UNCHANGED <<toWrite, writebuf, sent, faults>>
      /\ Len(handled) <= Len(handled') /\ Len(handled') <= Len(handled) + 1
      /\ naks' >= naks /\ naks' <= naks + 1
      /\ Flow' = Tail(Flow) /\ line # <<>> /\ Types'
  BY Received
<1>2. p \in Nat /\ Len(handled) \in Nat /\ faults \in Nat /\ naks \in Nat
  BY BoundedIs
<1>3. Len(handled') \in Nat /\ naks' \in Nat
  BY <1>1 DEF Types
<1>. DEFINE m == Len(handled)
            n == Len(handled')
<1>. HIDE DEF m, n
<1>4. CASE Clean(sent, R, p, Flow, rx) /\ p - m <= faults /\ naks <= 2 * faults
  <2>1. CASE Clean(sent, R, p, Flow', rx') /\ handled' = handled /\ naks' = naks
    BY <1>1, <1>4, <2>1 DEF Bounded, m
  <2>2. CASE /\ p + 1 \in 1 .. Len(sent)
             /\ Clean(sent, R, p + 1, Flow', rx')
             /\ handled' = Append(handled, sent[p + 1])
             /\ naks' = naks
    <3>1. n = m + 1
      BY <2>2 DEF n, m, Types
    <3>2. (p + 1) - n <= faults
      BY <1>2, <1>4, <3>1 DEF m
    <3>. QED
      BY <1>1, <1>4, <2>2, <3>2 DEF Bounded, n
  <2>. QED
    BY <1>4, <2>1, <2>2, CleanNext
<1>5. CASE At(sent, R, p, Flow) /\ p - m < faults /\ naks < 2 * faults
  <2>1. p - n <= faults /\ (p + 1) - n <= faults /\ naks' <= 2 * faults
    BY <1>1, <1>2, <1>3, <1>5 DEF m, n
  <2>2. CASE Clean(sent, R, p, Flow', rx')
    BY <1>1, <2>1, <2>2 DEF Bounded, n
  <2>3. CASE Clean(sent, R, p + 1, Flow', rx')
    BY <1>1, <2>1, <2>3 DEF Bounded, n
  <2>4. CASE At(sent, R, p, Flow') /\ UNCHANGED <<handled, naks>>
    BY <1>1, <1>5, <2>4 DEF Bounded, m
  <2>. QED
    BY <1>5, <2>2, <2>3, <2>4, FlagCleans
<1>6. CASE Between(sent, R, p, Flow) /\ p - m <= faults /\ naks < 2 * faults
  <2>1. p - n <= faults /\ naks' <= 2 * faults
    BY <1>1, <1>2, <1>3, <1>6 DEF m, n
  <2>2. Clean(sent, R, p, Flow', rx')
    <3>1. Flow # <<>> /\ Head(Flow) = Head(line) /\ sent \in Seq(Frame)
      BY <1>1, NextOctet DEF Types
    <3>2. rx' = NewReceiver
      BY <1>1, <1>6, <3>1, AfterFrame, Received
    <3>3. \E u : Within(sent, R, p, u, Tail(Flow))
                   /\ Following(sent[p + 1], u, NewReceiver)
      BY <1>6, <3>1, AfterFrame
    <3>. QED
      BY <1>1, <3>2, <3>3 DEF Clean
  <2>. QED
    BY <1>1, <2>1, <2>2 DEF Bounded, n
<1>7. CASE AtDamaged(sent, R, p, Flow) /\ p - m < faults /\ naks + 1 < 2 * faults
  <2>1. p - n < faults /\ (p + 1) - n <= faults /\ naks' < 2 * faults
    BY <1>1, <1>2, <1>3, <1>7 DEF m, n
  <2>2. CASE At(sent, R, p, Flow')
    BY <1>1, <2>1, <2>2 DEF Bounded, n
  <2>3. CASE Between(sent, R, p + 1, Flow')
    BY <1>1, <2>1, <2>3 DEF Bounded, n
  <2>. QED
    BY <1>1, <1>7, <2>2, <2>3, BoundedFurther
<1>. QED
  BY <1>4, <1>5, <1>6, <1>7 DEF Bounded, m

\* and so does a lost octet, which is one more fault,
LEMMA BoundedLost ==
    ASSUME Types, LoseOctet, NEW R, Ahead(sent, R), NEW p, Bounded(R, p)
    PROVE  \E q : Bounded(R, q)'
<1>1. /\ UNCHANGED <<sent, handled, naks>> /\ faults' = faults + 1
      /\ Flow' = Tail(Flow) /\ line # <<>>
  BY Lost
<1>2. /\ p \in Nat /\ Len(handled) \in Nat /\ faults \in Nat /\ naks \in Nat
      /\ At(sent, R, p, Flow) \/ AtDamaged(sent, R, p, Flow)
      /\ p - Len(handled) <= faults /\ naks <= 2 * faults
  BY BoundedIs
<1>3. /\ p - Len(handled) < faults' /\ (p + 1) - Len(handled) <= faults'
      /\ naks < 2 * faults'
  BY <1>1, <1>2
<1>4. CASE At(sent, R, p, Flow')
  BY <1>1, <1>3, <1>4 DEF Bounded
<1>5. CASE Between(sent, R, p + 1, Flow')
  BY <1>1, <1>3, <1>5 DEF Bounded
<1>. QED
  BY <1>1, <1>2, <1>4, <1>5, BoundedFurther

\* and a damaged one.
LEMMA BoundedDamaged ==
    ASSUME Types, NEW octet \in Noise, DamageOctet(octet),
           NEW R, Ahead(sent, R), NEW p, Bounded(R, p)
    PROVE  Bounded(R, p)'
<1>1. /\ UNCHANGED <<sent, handled, naks>> /\ faults' = faults + 1
      /\ Tail(Flow') = Tail(Flow) /\ line' # <<>>
      /\ Flow = <<Head(Flow)>> \o Tail(Flow) /\ Head(Flow) \in Octet
  BY DamagedOctet
<1>2. /\ p \in Nat /\ Len(handled) \in Nat /\ faults \in Nat /\ naks \in Nat
      /\ At(sent, R, p, Flow) \/ AtDamaged(sent, R, p, Flow)
      /\ p - Len(handled) <= faults /\ naks <= 2 * faults
  BY BoundedIs
<1>3. p - Len(handled) < faults' /\ naks + 1 < 2 * faults'
  BY <1>1, <1>2
<1>4. AtDamaged(sent, R, p, Flow')
  BY <1>1, <1>2 DEF AtDamaged
<1>. QED
  BY <1>1, <1>3, <1>4 DEF Bounded

\* Every step keeps the invariant,
LEMMA ContainedStep == Types /\ Contained /\ [Next]_vars => Contained'
<1>. SUFFICES ASSUME Types, Contained, [Next]_vars PROVE Contained'
  OBVIOUS
<1>1. PICK R, p : Ahead(sent, R) /\ Bounded(R, p)
  BY DEF Contained
<1>2. CASE \E frame \in Frame : Transmit(frame)
  BY <1>2, ContainedTransmit
<1>3. CASE BufferedWrite
  <2>1. UNCHANGED <<sent, rx, handled, naks, faults>>
    BY <1>3 DEF BufferedWrite
  <2>2. Flow' = Flow /\ (line # <<>> => line' # <<>>)
          /\ (toWrite' = <<>> => writebuf' = <<>>)
    BY <1>3, Written
  <2>3. Bounded(R, p)'
    BY <1>1, <2>1, <2>2 DEF Bounded
  <2>. QED
    BY <1>1, <2>1, <2>2, <2>3 DEF Contained
<1>4. CASE Receive
  <2>1. UNCHANGED <<toWrite, writebuf, sent>>
    BY <1>4, Received
  <2>2. \E q : Bounded(R, q)'
    BY <1>1, <1>4, BoundedReceive
  <2>. QED
    BY <1>1, <2>1, <2>2 DEF Contained
<1>5. CASE LoseOctet
  <2>1. UNCHANGED <<toWrite, writebuf, sent>>
    BY <1>5, Lost
  <2>2. \E q : Bounded(R, q)'
    BY <1>1, <1>5, BoundedLost
  <2>. QED
    BY <1>1, <2>1, <2>2 DEF Contained
<1>6. CASE \E octet \in Noise : DamageOctet(octet)
  <2>1. PICK octet \in Noise : DamageOctet(octet)
    BY <1>6
  <2>2. UNCHANGED <<toWrite, writebuf, sent>>
    BY <2>1, DamagedOctet
  <2>3. Bounded(R, p)'
    BY <1>1, <2>1, BoundedDamaged
  <2>. QED
    BY <1>1, <2>2, <2>3 DEF Contained
<1>7. CASE UNCHANGED vars
  BY <1>7 DEF vars, Contained, Bounded, Flow
<1>. QED
  BY <1>2, <1>3, <1>4, <1>5, <1>6, <1>7 DEF Next, Receive

\* When all is received nothing is in flight.
LEMMA NothingAhead ==
    ASSUME Types, Drained, toWrite = <<>> => writebuf = <<>>
    PROVE  /\ Flow = <<>>
           /\ \A R, p : Ahead(sent, R) /\ At(sent, R, p, Flow)
                           => p = Len(sent) /\ Between(sent, R, p, Flow)
<1>1. Flow = <<>>
  BY DEF Drained, Flow
<1>2. sent \in Seq(Frame)
  BY DEF Types
<1>3. ASSUME NEW R, NEW p, Ahead(sent, R), At(sent, R, p, Flow)
      PROVE  p = Len(sent) /\ Between(sent, R, p, Flow)
  <2>1. Between(sent, R, p, Flow)
    BY <1>1, <1>2, <1>3, InFrame DEF At
  <2>. QED
    BY <1>1, <1>2, <1>3, <2>1, AfterFrame
<1>. QED
  BY <1>1, <1>3

\* which implies what is wanted.
LEMMA ContainedSuffices == Types /\ Contained => FaultsContained
<1>. SUFFICES ASSUME Types, Contained PROVE FaultsContained
  OBVIOUS
<1>1. PICK R, p : Ahead(sent, R) /\ Bounded(R, p)
  BY DEF Contained
<1>2. naks <= 2 * faults
  BY <1>1, BoundedIs
<1>3. ASSUME Drained PROVE Len(sent) - Len(handled) <= faults
  <2>1. line = <<>>
    BY <1>3 DEF Drained
  <2>2. At(sent, R, p, Flow) /\ p - Len(handled) <= faults
    BY <1>1, <2>1, BoundedIs
  <2>3. p = Len(sent)
    BY <1>1, <1>3, <2>2, NothingAhead DEF Contained
  <2>. QED
    BY <2>2, <2>3
<1>. QED
  BY <1>2, <1>3 DEF FaultsContained

\* sfpDeliverOctet finds the frames again after any faults: each octet that is
\* lost or damaged costs one frame at most and provokes two NAKs at most, for
\* all frames, buffers and numbers of faults.
THEOREM FaultsAreContained == Spec => []FaultsContained
<1>1. Spec => []Types
  BY TypesStart, TypesStep, PTL DEF Spec
<1>2. Spec => []Contained
  BY <1>1, ContainedStart, ContainedStep, PTL DEF Spec
<1>. QED
  BY <1>1, <1>2, ContainedSuffices, PTL

-----------------------------------------------------------------------------
(* One fault is answered.                                                  *)

\* The receiver and one octet.
LEMMA ReceivedOne ==
    ASSUME Types, Receive
    PROVE  /\ Head(line) = SFP_FLAG /\ ~rx.receiving =>
                 /\ UNCHANGED <<handled, naks>>
                 /\ overflow' = IF overflow = "last" THEN "silent" ELSE overflow
           /\ Head(line) = SFP_FLAG /\ rx.receiving =>
                 /\ overflow' = overflow
                 /\ \/ naks' = naks + 1
                    \/ Len(handled') = Len(handled) + 1
           /\ Head(line) = SFP_ESC =>
                 /\ rx'.receiving = rx.receiving
                 /\ overflow' = overflow
           /\ Head(line) \notin {SFP_FLAG, SFP_ESC} /\ ~rx.receiving =>
                 /\ rx'.receiving
                 /\ overflow' = IF overflow = "last" THEN "none" ELSE overflow
           /\ Head(line) \notin {SFP_FLAG, SFP_ESC} /\ rx.receiving =>
                 \/ rx'.receiving /\ overflow' = overflow
                 \/ /\ ~rx'.receiving
                    /\ overflow' = IF overflow = "none" THEN "last" ELSE overflow
<1>1. SFP_FLAG # SFP_ESC
  BY DEF SFP_FLAG, SFP_ESC
<1>2. rx \in Receiver
  BY DEF Types
<1>3. CASE IgnoreFlag
  BY <1>1, <1>3 DEF IgnoreFlag
<1>4. CASE RejectFrame
  BY <1>1, <1>4 DEF RejectFrame
<1>5. CASE HandleFrame
  <2>. DEFINE new == [ header |-> rx.header,
                       packet |-> SubSeq(rx.packet, 1,
                                         Len(rx.packet) - SFP_CRC_SIZE) ]
  <2>1. handled' = Append(handled, new) /\ rx.receiving /\ overflow' = overflow
          /\ Head(line) = SFP_FLAG
    BY <1>5 DEF HandleFrame
  <2>. HIDE DEF new
  <2>2. Len(handled') = Len(handled) + 1
    BY <2>1 DEF Types
  <2>. QED
    BY <1>1, <2>1, <2>2
<1>6. CASE DeliverEsc
  <2>1. rx' = [rx EXCEPT !.escaping = TRUE] /\ overflow' = overflow
          /\ Head(line) = SFP_ESC
    BY <1>6 DEF DeliverEsc
  <2>2. rx'.receiving = rx.receiving
    BY <1>2, <2>1 DEF Receiver
  <2>. QED
    BY <1>1, <2>1, <2>2
<1>7. CASE DeliverOther
  <2>. DEFINE octet == Plain(rx, Head(line))
              next == Taken(rx, octet)
  <2>1. /\ Head(line) \notin {SFP_FLAG, SFP_ESC}
        /\ \/ /\ ~rx.receiving
              /\ rx' = [next EXCEPT !.header = octet, !.receiving = TRUE]
              /\ overflow' = IF overflow = "last" THEN "none" ELSE overflow
           \/ /\ rx.receiving
              /\ rx' = [next EXCEPT !.packet = Append(@, octet)]
              /\ overflow' = overflow
           \/ /\ rx.receiving /\ rx' = NewReceiver
              /\ overflow' = IF overflow = "none" THEN "last" ELSE overflow
    BY <1>7 DEF DeliverOther, Plain, Taken
  <2>. HIDE DEF octet
  <2>2. next \in Receiver /\ next.receiving = rx.receiving
    BY <1>2, CrcIsRegister DEF Taken, Receiver
  <2>. HIDE DEF next
  <2>3. rx' = [next EXCEPT !.header = octet, !.receiving = TRUE] => rx'.receiving
    BY <2>2 DEF Receiver
  <2>4. rx' = [next EXCEPT !.packet = Append(@, octet)]
           => rx'.receiving = rx.receiving
    BY <2>2 DEF Receiver
  <2>5. rx' = NewReceiver => ~rx'.receiving
    BY NewReceiverIs
  <2>. QED
    BY <1>1, <2>1, <2>3, <2>4, <2>5
<1>. QED
  BY <1>3, <1>4, <1>5, <1>6, <1>7 DEF Receive

\* Nothing is missing once the frame that is coming is handled.
Near(R, p) ==
    \/ Between(sent, R, p, Flow) /\ p - Len(handled) <= 1
    \/ \E u : Within(sent, R, p, u, Flow) /\ p - Len(handled) <= 0

\* As long as nothing was lost or damaged.
Exact(R, p) ==
    /\ Clean(sent, R, p, Flow, rx)
    /\ overflow = "none"
    /\ p = Len(handled)
    /\ \A i \in 1 .. p : handled[i] = sent[i]

\* After one octet was: a NAK was sent, or something overflowed in silence; or
\* something may overflow so; or a NAK will be sent for what is received, or it
\* is handled; or nothing is missing; or nothing is missing but the frame whose
\* start was lost; or what is handled was two; or the octet is still to come.
Answerable(R, p) ==
    LET missing == p - Len(handled)
    IN  \/ naks > 0 \/ overflow = "silent"
        \/ overflow = "last" /\ ~rx.receiving /\ Near(R, p)
        \/ overflow = "none" /\ rx.receiving /\ Near(R, p)
        \/ overflow = "none" /\ Clean(sent, R, p, Flow, rx) /\ missing <= 0
        \/ /\ overflow = "none" /\ ~rx.receiving /\ missing <= 0
           /\ \E u : Within(sent, R, p, u, Flow) /\ u # <<>>
        \/ /\ overflow = "none" /\ ~rx.receiving /\ missing < 0
           /\ \E u : Within(sent, R, p, u, Flow)
        \/ /\ overflow = "none" /\ line # <<>> /\ missing <= 0
           /\ \E octet \in Octet :
                 /\ octet # Head(Flow)
                 /\ Clean(sent, R, p, <<octet>> \o Tail(Flow), rx)

\* The inductive invariant of the two theorems below, for up to one fault.
Answered ==
    /\ toWrite = <<>> => writebuf = <<>>
    /\ \E R : /\ Ahead(sent, R)
              /\ \E p : /\ p \in Nat
                        /\ faults = 0 => Exact(R, p)
                        /\ faults = 1 => Answerable(R, p)

\* More than an octet is left after one of two.
LEMMA LongTail ==
    ASSUME NEW u \in Seq(Octet), Len(u) >= 2
    PROVE  Tail(u) # <<>>
<1>. DEFINE v == Tail(u)
<1>1. Len(u) \in Nat /\ v \in Seq(Octet) /\ Len(v) = Len(u) - 1
  OBVIOUS
<1>. HIDE DEF v
<1>2. v # <<>>
  BY <1>1
<1>. QED
  BY <1>2 DEF v

\* It holds at the start,
LEMMA AnsweredStart == Init => Answered
<1>. SUFFICES ASSUME Init PROVE Answered
  OBVIOUS
<1>1. PICK R : Ahead(sent, R) /\ Clean(sent, R, 0, Flow, rx)
  BY FirstAhead
<1>2. Len(handled) = 0 /\ faults = 0 /\ overflow = "none"
  BY DEF Init
<1>3. Exact(R, 0)
  BY <1>1, <1>2 DEF Exact
<1>. QED
  BY <1>1, <1>2, <1>3 DEF Answered, Init

\* and is kept by a frame that is sent,
LEMMA AnsweredTransmit ==
    ASSUME Types, Answered, NEW frame \in Frame, Transmit(frame)
    PROVE  Answered'
<1>1. PICK R : /\ Ahead(sent, R)
               /\ \E p \in Nat : /\ faults = 0 => Exact(R, p)
                                 /\ faults = 1 => Answerable(R, p)
  BY DEF Answered
<1>2. PICK p \in Nat : /\ faults = 0 => Exact(R, p)
                       /\ faults = 1 => Answerable(R, p)
  BY <1>1
<1>3. toWrite = <<>> => writebuf = <<>>
  BY DEF Answered
<1>4. /\ UNCHANGED <<line, rx, overflow, handled, naks, faults>>
      /\ toWrite' # <<>> /\ sent' = Append(sent, frame)
  BY <1>3, Transmitted
<1>5. PICK Q : /\ Ahead(sent', Q)
               /\ Clean(sent, R, p, Flow, rx) => Clean(sent', Q, p, Flow', rx')
               /\ Between(sent, R, p, Flow) => Between(sent', Q, p, Flow')
               /\ \A u : Within(sent, R, p, u, Flow) => Within(sent', Q, p, u, Flow')
               /\ \A octet \in Octet :
                     line # <<>> /\ Clean(sent, R, p, <<octet>> \o Tail(Flow), rx)
                        => Clean(sent', Q, p, <<octet>> \o Tail(Flow'), rx')
               /\ line # <<>> => Head(Flow') = Head(Flow)
  BY <1>1, <1>3, GrowsAtItsEnd
<1>6. Near(R, p) => Near(Q, p)'
  BY <1>4, <1>5 DEF Near
<1>7. Answerable(R, p) => Answerable(Q, p)'
  BY <1>4, <1>5, <1>6 DEF Answerable
<1>8. faults = 0 => Exact(Q, p)'
  <2>. SUFFICES ASSUME faults = 0 PROVE Exact(Q, p)'
    OBVIOUS
  <2>1. Exact(R, p)
    BY <1>2
  <2>2. p \in 0 .. Len(sent) /\ sent \in Seq(Frame)
    BY <2>1, CleanIsAt, AtIsNat DEF Exact, Types
  <2>3. \A i \in 1 .. p : sent'[i] = sent[i]
    BY <1>4, <2>2
  <2>. QED
    BY <1>4, <1>5, <2>1, <2>3 DEF Exact
<1>. QED
  BY <1>2, <1>4, <1>5, <1>7, <1>8 DEF Answered

\* by the write buffer,
LEMMA AnsweredWrite ==
    ASSUME Types, Answered, BufferedWrite
    PROVE  Answered'
<1>1. UNCHANGED <<sent, rx, overflow, handled, naks, faults>>
  BY DEF BufferedWrite
<1>2. Flow' = Flow /\ (line # <<>> => line' # <<>>)
        /\ (toWrite' = <<>> => writebuf' = <<>>)
  BY Written
<1>3. \A R, p : Near(R, p) => Near(R, p)'
  BY <1>1, <1>2 DEF Near
<1>4. \A R, p : Exact(R, p) => Exact(R, p)'
  BY <1>1, <1>2 DEF Exact
<1>5. \A R, p : Answerable(R, p) => Answerable(R, p)'
  BY <1>1, <1>2, <1>3 DEF Answerable
<1>. QED
  BY <1>1, <1>2, <1>4, <1>5 DEF Answered

\* The octet that was lost is within a frame, or at its end.
LEMMA AnsweredLost ==
    ASSUME Types, LoseOctet, NEW R, Ahead(sent, R), NEW p \in Nat, Exact(R, p)
    PROVE  \E q \in Nat : Answerable(R, q)'
<1>1. /\ UNCHANGED <<sent, rx, overflow, handled, naks>>
      /\ Flow' = Tail(Flow) /\ line # <<>>
  BY Lost
<1>2. sent \in Seq(Frame) /\ Flow # <<>> /\ rx \in Receiver
        /\ Len(handled) \in Nat
  BY <1>1, NextOctet DEF Types
<1>3. overflow' = "none" /\ p - Len(handled') <= 0 /\ (p + 1) - Len(handled') <= 1
  BY <1>1, <1>2 DEF Exact
<1>4. CASE Between(sent, R, p, Flow) /\ rx = NewReceiver
  <2>1. PICK u : Within(sent, R, p, u, Tail(Flow))
                   /\ Following(sent[p + 1], u, NewReceiver)
    BY <1>2, <1>4, AfterFrame
  <2>2. sent[p + 1] \in Frame
    BY <1>2, <2>1, InFrame
  <2>3. u # <<>>
    BY <2>1, <2>2, NewReceiverIs, Early
  <2>4. ~rx'.receiving
    BY <1>1, <1>4, NewReceiverIs
  <2>5. Answerable(R, p)'
    BY <1>1, <1>3, <2>1, <2>3, <2>4 DEF Answerable
  <2>. QED
    BY <2>5
<1>5. CASE \E u : Within(sent, R, p, u, Flow) /\ Following(sent[p + 1], u, rx)
  <2>1. PICK u : Within(sent, R, p, u, Flow) /\ Following(sent[p + 1], u, rx)
    BY <1>5
  <2>2. sent[p + 1] \in Frame /\ u \in Body
    BY <1>2, <2>1, InFrame
  <2>3. CASE u = <<>>
    <3>1. rx.receiving
      BY <1>2, <2>1, <2>2, <2>3, Ends
    <3>2. Between(sent, R, p + 1, Tail(Flow))
      BY <1>2, <2>1, <2>3, InFrame
    <3>3. Near(R, p + 1)'
      BY <1>1, <1>3, <3>2 DEF Near
    <3>4. Answerable(R, p + 1)'
      BY <1>1, <1>3, <3>1, <3>3 DEF Answerable
    <3>. QED
      BY <3>4
  <2>4. CASE u # <<>> /\ rx.receiving
    <3>1. Within(sent, R, p, Tail(u), Tail(Flow))
      BY <1>2, <2>1, <2>4, InFrame
    <3>2. Near(R, p)'
      BY <1>1, <1>3, <3>1 DEF Near
    <3>3. Answerable(R, p)'
      BY <1>1, <1>3, <2>4, <3>2 DEF Answerable
    <3>. QED
      BY <3>3
  <2>5. CASE u # <<>> /\ ~rx.receiving
    <3>1. Within(sent, R, p, Tail(u), Tail(Flow))
      BY <1>2, <2>1, <2>5, InFrame
    <3>2. u \in Seq(Octet) /\ Len(u) >= 2
      BY <1>2, <2>1, <2>2, <2>5, Early
    <3>3. Tail(u) # <<>>
      BY <3>2, LongTail
    <3>4. Answerable(R, p)'
      BY <1>1, <1>3, <2>5, <3>1, <3>3 DEF Answerable
    <3>. QED
      BY <3>4
  <2>. QED
    BY <2>3, <2>4, <2>5
<1>. QED
  BY <1>4, <1>5 DEF Exact, Clean

\* An octet is damaged for the first time: it is still to come.
LEMMA AnsweredDamaged ==
    ASSUME Types, NEW octet \in Noise, DamageOctet(octet),
           NEW R, NEW p \in Nat, Exact(R, p)
    PROVE  Answerable(R, p)'
<1>1. /\ UNCHANGED <<sent, rx, overflow, handled, naks>>
      /\ Tail(Flow') = Tail(Flow) /\ line' # <<>> /\ line # <<>>
      /\ Flow = <<Head(Flow)>> \o Tail(Flow) /\ Head(Flow) \in Octet
      /\ Flow' = <<octet>> \o Tail(Flow)
  BY DamagedOctet
<1>2. octet \in Octet /\ Tail(Flow) \in Seq(Octet) /\ Head(line) = Head(Flow)
        /\ Len(handled) \in Nat
  <2>1. Flow \in Seq(Octet) /\ Flow # <<>> /\ Head(line) = Head(Flow)
    BY <1>1, NextOctet
  <2>. QED
    BY <2>1, FramingAssumption, HeadAndTail DEF Types
<1>3. Head(Flow') = octet
  BY <1>1, <1>2, FirstOf
<1>4. Head(Flow) # octet
  BY <1>2 DEF DamageOctet
<1>5. Clean(sent', R, p, <<Head(Flow)>> \o Tail(Flow'), rx')
  BY <1>1 DEF Exact
<1>6. overflow' = "none" /\ p - Len(handled') <= 0
  BY <1>1, <1>2 DEF Exact
<1>. QED
  BY <1>1, <1>3, <1>4, <1>5, <1>6 DEF Answerable

\* Without a fault the receiver handles what comes.
LEMMA ExactReceive ==
    ASSUME Types, Receive, NEW R, Ahead(sent, R), NEW p \in Nat, Exact(R, p)
    PROVE  \E q \in Nat : Exact(R, q)'
<1>1. UNCHANGED <<sent>> /\ handled \in Seq([header : Octet, packet : Seq(Octet)])
        /\ Len(handled) = p
  BY Received DEF Types, Exact
<1>2. overflow' = "none"
  BY CleanNext DEF Exact
<1>3. CASE Clean(sent, R, p, Flow', rx') /\ handled' = handled
  <2>1. Exact(R, p)'
    BY <1>1, <1>2, <1>3 DEF Exact
  <2>. QED
    BY <2>1
<1>4. CASE /\ p + 1 \in 1 .. Len(sent)
           /\ Clean(sent, R, p + 1, Flow', rx')
           /\ handled' = Append(handled, sent[p + 1])
  <2>1. Len(handled') = p + 1 /\ handled'[p + 1] = sent[p + 1]
          /\ \A i \in 1 .. p : handled'[i] = handled[i]
    BY <1>1, <1>4
  <2>2. \A i \in 1 .. p + 1 : handled'[i] = sent[i]
    BY <2>1 DEF Exact
  <2>3. Exact(R, p + 1)'
    BY <1>1, <1>2, <1>4, <2>1, <2>2 DEF Exact
  <2>. QED
    BY <2>3
<1>. QED
  BY <1>3, <1>4, CleanNext DEF Exact

\* Within a frame there is no FLAG.
LEMMA AtTheEnd ==
    ASSUME NEW s \in Seq(Frame), NEW R, Ahead(s, R), NEW p, NEW u, NEW flow,
           Within(s, R, p, u, flow), u # <<>>
    PROVE  Head(flow) # SFP_FLAG
<1>1. u \in Body
  BY DEF Within
<1>2. Head(flow) = Head(u)
  BY InFrame
<1>. QED
  BY <1>1, <1>2, TailOfBody

\* Near an end the receiver stays near it,
LEMMA NearNext ==
    ASSUME Types, NEW R, Ahead(sent, R), NEW p, Near(R, p), line # <<>>,
           Head(line) # SFP_FLAG
    PROVE  /\ \E u : Within(sent, R, p, u, Tail(Flow))
           /\ p - Len(handled) <= 0
<1>1. Flow # <<>> /\ Head(Flow) = Head(line) /\ sent \in Seq(Frame)
  BY NextOctet DEF Types
<1>2. ~Between(sent, R, p, Flow)
  BY <1>1, AfterFrame
<1>3. PICK u : Within(sent, R, p, u, Flow) /\ p - Len(handled) <= 0
  BY <1>2 DEF Near
<1>4. u = <<>> => Head(Flow) = SFP_FLAG
  BY <1>1, <1>3, InFrame
<1>. QED
  BY <1>1, <1>3, <1>4, InFrame

\* and with the next FLAG nothing is missing but what it handles.
LEMMA NearFlag ==
    ASSUME Types, Receive, NEW R, Ahead(sent, R), NEW p \in Nat, Near(R, p),
           Head(line) = SFP_FLAG
    PROVE  \E q \in Nat : Clean(sent, R, q, Flow', rx') /\ q - Len(handled) <= 1
<1>0. /\ line # <<>> /\ Flow' = Tail(Flow) /\ rx' = NewReceiver
      /\ sent \in Seq(Frame) /\ Len(handled) \in Nat
  BY Received DEF Types
<1>1. /\ line # <<>> /\ Flow # <<>> /\ Head(Flow) = Head(line)
      /\ Flow' = Tail(Flow) /\ sent \in Seq(Frame)
      /\ rx' = NewReceiver /\ Len(handled) \in Nat
  BY <1>0, NextOctet
<1>2. CASE Between(sent, R, p, Flow) /\ p - Len(handled) <= 1
  <2>1. \E u : Within(sent, R, p, u, Tail(Flow))
                 /\ Following(sent[p + 1], u, NewReceiver)
    BY <1>1, <1>2, AfterFrame
  <2>2. Clean(sent, R, p, Flow', rx')
    BY <1>1, <2>1 DEF Clean
  <2>. QED
    BY <1>2, <2>2
<1>3. CASE \E u : Within(sent, R, p, u, Flow) /\ p - Len(handled) <= 0
  <2>1. PICK u : Within(sent, R, p, u, Flow) /\ p - Len(handled) <= 0
    BY <1>3
  <2>2. u = <<>>
    BY <1>1, <2>1, AtTheEnd
  <2>3. Between(sent, R, p + 1, Tail(Flow))
    BY <1>1, <2>1, <2>2, InFrame
  <2>4. Clean(sent, R, p + 1, Flow', rx')
    BY <1>1, <2>3 DEF Clean
  <2>5. (p + 1) - Len(handled) <= 1 /\ p + 1 \in Nat
    BY <1>1, <2>1
  <2>. QED
    BY <2>4, <2>5
<1>. QED
  BY <1>2, <1>3 DEF Near

\* So a NAK is sent, or something overflows, or nothing is missing.
LEMMA NearReceive ==
    ASSUME Types, Receive, NEW R, Ahead(sent, R), NEW p \in Nat, Near(R, p),
           \/ overflow = "last" /\ ~rx.receiving
           \/ overflow = "none" /\ rx.receiving
    PROVE  \E q \in Nat : Answerable(R, q)'
<1>1. /\ line # <<>> /\ Flow' = Tail(Flow) /\ UNCHANGED sent
      /\ naks \in Nat /\ Len(handled) \in Nat /\ Len(handled') \in Nat
  BY Received DEF Types
<1>2. CASE Head(line) = SFP_FLAG /\ ~rx.receiving
  <2>1. overflow' = "silent"
    BY <1>2, ReceivedOne
  <2>2. Answerable(R, p)'
    BY <2>1 DEF Answerable
  <2>. QED
    BY <2>2
<1>3. CASE Head(line) = SFP_FLAG /\ rx.receiving
  <2>1. overflow' = "none"
          /\ (naks' = naks + 1 \/ Len(handled') = Len(handled) + 1)
    BY <1>3, ReceivedOne
  <2>2. CASE naks' = naks + 1
    <3>1. naks' > 0
      BY <1>1, <2>2
    <3>2. Answerable(R, p)'
      BY <3>1 DEF Answerable
    <3>. QED
      BY <3>2
  <2>3. CASE Len(handled') = Len(handled) + 1
    <3>1. PICK q \in Nat : Clean(sent, R, q, Flow', rx')
                             /\ q - Len(handled) <= 1
      BY <1>3, NearFlag
    <3>2. q - Len(handled') <= 0
      BY <1>1, <2>3, <3>1
    <3>3. Answerable(R, q)'
      BY <1>1, <2>1, <3>1, <3>2 DEF Answerable
    <3>. QED
      BY <3>3
  <2>. QED
    BY <2>1, <2>2, <2>3
<1>4. CASE Head(line) # SFP_FLAG
  <2>1. UNCHANGED <<handled, naks>>
    BY <1>4, Received
  <2>2. (\E u : Within(sent, R, p, u, Tail(Flow))) /\ p - Len(handled) <= 0
    BY <1>1, <1>4, NearNext
  <2>3. Near(R, p)'
    BY <1>1, <2>1, <2>2 DEF Near
  <2>4. \/ overflow' = "last" /\ ~rx'.receiving
        \/ overflow' = "none" /\ rx'.receiving
    BY <1>4, ReceivedOne
  <2>5. Answerable(R, p)'
    BY <2>3, <2>4 DEF Answerable
  <2>. QED
    BY <2>5
<1>. QED
  BY <1>2, <1>3, <1>4

\* In the rest of a frame whose start the receiver has not seen.
LEMMA RestReceive ==
    ASSUME Types, Receive, NEW R, Ahead(sent, R), NEW p \in Nat,
           overflow = "none", ~rx.receiving,
           NEW u, Within(sent, R, p, u, Flow),
           \/ u # <<>> /\ p - Len(handled) <= 0
           \/ p - Len(handled) < 0
    PROVE  \E q \in Nat : Answerable(R, q)'
<1>0. /\ line # <<>> /\ Flow' = Tail(Flow) /\ UNCHANGED sent
      /\ Len(handled) \in Nat /\ sent \in Seq(Frame)
  <2>1. line # <<>> /\ Flow' = Tail(Flow) /\ UNCHANGED sent
    BY Received
  <2>2. Len(handled) \in Nat /\ sent \in Seq(Frame)
    BY DEF Types
  <2>. QED
    BY <2>1, <2>2
<1>1. /\ line # <<>> /\ Flow' = Tail(Flow) /\ UNCHANGED sent
      /\ Head(Flow) = Head(line)
      /\ Len(handled) \in Nat /\ sent \in Seq(Frame)
  BY <1>0, NextOctet
<1>2. CASE u = <<>>
  <2>1. Head(line) = SFP_FLAG /\ Between(sent, R, p + 1, Tail(Flow))
    <3>1. Head(Flow) = SFP_FLAG /\ Between(sent, R, p + 1, Tail(Flow))
      BY <1>1, <1>2, InFrame
    <3>. QED
      BY <1>1, <3>1
  <2>2. rx' = NewReceiver /\ handled' = handled /\ overflow' = "none"
    BY <2>1, Received, ReceivedOne
  <2>3. Clean(sent', R, p + 1, Flow', rx')
    BY <1>1, <2>1, <2>2 DEF Clean
  <2>4. (p + 1) - Len(handled') <= 0 /\ p + 1 \in Nat
    BY <1>1, <1>2, <2>2
  <2>5. Answerable(R, p + 1)'
    BY <2>2, <2>3, <2>4 DEF Answerable
  <2>. QED
    BY <2>4, <2>5
<1>3. CASE u # <<>>
  <2>1. /\ Within(sent', R, p, Tail(u), Flow') /\ Head(line) = Head(u)
        /\ u \in Body
    BY <1>1, <1>3, InFrame
  <2>2. /\ Head(line) # SFP_FLAG
        /\ Head(line) = SFP_ESC => Tail(u) # <<>>
    BY <1>3, <2>1, TailOfBody
  <2>3. handled' = handled /\ p - Len(handled') <= 0
    BY <1>1, <2>2, Received
  <2>4. Near(R, p)'
    BY <2>1, <2>3 DEF Near
  <2>5. CASE Head(line) = SFP_ESC
    <3>1. ~rx'.receiving /\ overflow' = "none"
      BY <2>5, ReceivedOne
    <3>2. Answerable(R, p)'
      BY <2>1, <2>2, <2>3, <2>5, <3>1 DEF Answerable
    <3>. QED
      BY <3>2
  <2>6. CASE Head(line) # SFP_ESC
    <3>1. rx'.receiving /\ overflow' = "none"
      BY <2>2, <2>6, ReceivedOne
    <3>2. Answerable(R, p)'
      BY <2>4, <3>1 DEF Answerable
    <3>. QED
      BY <3>2
  <2>. QED
    BY <2>5, <2>6
<1>. QED
  BY <1>2, <1>3

\* A receiver that keeps up goes on to.
LEMMA CleanReceive ==
    ASSUME Types, Receive, NEW R, Ahead(sent, R), NEW p \in Nat,
           overflow = "none", Clean(sent, R, p, Flow, rx), p - Len(handled) <= 0
    PROVE  \E q \in Nat : Answerable(R, q)'
<1>1. UNCHANGED sent /\ Len(handled) \in Nat
  BY Received DEF Types
<1>2. overflow' = "none"
  BY CleanNext
<1>3. CASE Clean(sent, R, p, Flow', rx') /\ handled' = handled
  <2>1. Answerable(R, p)'
    BY <1>1, <1>2, <1>3 DEF Answerable
  <2>. QED
    BY <2>1
<1>4. CASE /\ p + 1 \in 1 .. Len(sent)
           /\ Clean(sent, R, p + 1, Flow', rx')
           /\ handled' = Append(handled, sent[p + 1])
  <2>1. Len(handled') = Len(handled) + 1
    BY <1>4 DEF Types
  <2>2. (p + 1) - Len(handled') <= 0 /\ p + 1 \in Nat
    BY <1>1, <2>1
  <2>3. Answerable(R, p + 1)'
    BY <1>1, <1>2, <1>4, <2>2 DEF Answerable
  <2>. QED
    BY <2>2, <2>3
<1>. QED
  BY <1>3, <1>4, CleanNext

\* The damaged octet itself.
LEMMA DamagedReceive ==
    ASSUME Types, Receive, NEW R, Ahead(sent, R), NEW p \in Nat,
           overflow = "none", p - Len(handled) <= 0,
           NEW octet \in Octet, octet # Head(Flow),
           Clean(sent, R, p, <<octet>> \o Tail(Flow), rx)
    PROVE  \E q \in Nat : Answerable(R, q)'
<1>. DEFINE flow == <<octet>> \o Tail(Flow)
<1>1. /\ line # <<>> /\ Flow' = Tail(Flow) /\ UNCHANGED sent
      /\ Head(Flow) = Head(line) /\ Flow \in Seq(Octet) /\ Flow # <<>>
      /\ naks \in Nat /\ Len(handled) \in Nat /\ Len(handled') \in Nat
      /\ sent \in Seq(Frame) /\ rx \in Receiver
  <2>1. /\ line # <<>> /\ Flow' = Tail(Flow) /\ UNCHANGED sent /\ Types'
    BY Received
  <2>2. Head(Flow) = Head(line) /\ Flow \in Seq(Octet) /\ Flow # <<>>
    BY <2>1, NextOctet
  <2>3. naks \in Nat /\ Len(handled) \in Nat /\ Len(handled') \in Nat
          /\ sent \in Seq(Frame) /\ rx \in Receiver
    BY <2>1 DEF Types
  <2>. QED
    BY <2>1, <2>2, <2>3
<1>2. flow # <<>> /\ Head(flow) = octet /\ Tail(flow) = Tail(Flow)
  BY <1>1, HeadAndTail, FirstOf
<1>3. Clean(sent, R, p, flow, rx)
  OBVIOUS
<1>. HIDE DEF flow
<1>4. Head(line) # octet
  BY <1>1
<1>5. ASSUME NEW v, Within(sent, R, p, v, Tail(Flow)), v # <<>>, ~rx'.receiving,
             handled' = handled, overflow' = "none"
      PROVE  Answerable(R, p)'
  BY <1>1, <1>5 DEF Answerable
<1>6. ASSUME NEW q \in Nat,
             \/ Between(sent, R, q, Tail(Flow)) /\ q - Len(handled) <= 1
             \/ \E v : Within(sent, R, q, v, Tail(Flow))
                         /\ q - Len(handled) <= 0,
             handled' = handled,
             \/ overflow' = "last" /\ ~rx'.receiving
             \/ overflow' = "none" /\ rx'.receiving
      PROVE  Answerable(R, q)'
  <2>1. Near(R, q)'
    BY <1>1, <1>6 DEF Near
  <2>. QED
    BY <1>6, <2>1 DEF Answerable
<1>7. CASE Between(sent, R, p, flow) /\ rx = NewReceiver
  <2>1. PICK u : Within(sent, R, p, u, Tail(Flow))
                   /\ Following(sent[p + 1], u, NewReceiver)
    BY <1>1, <1>2, <1>7, AfterFrame
  <2>2. octet = SFP_FLAG /\ sent[p + 1] \in Frame
    BY <1>1, <1>2, <1>7, AfterFrame
  <2>3. u # <<>> /\ ~rx.receiving
    BY <1>7, <2>1, <2>2, NewReceiverIs, Early
  <2>4. Head(line) # SFP_FLAG /\ handled' = handled
    BY <1>4, <2>2, Received
  <2>5. CASE Head(line) = SFP_ESC
    <3>1. ~rx'.receiving /\ overflow' = "none"
      BY <2>3, <2>5, ReceivedOne
    <3>2. Answerable(R, p)'
      BY <1>5, <2>1, <2>3, <2>4, <3>1
    <3>. QED
      BY <3>2
  <2>6. CASE Head(line) # SFP_ESC
    <3>1. rx'.receiving /\ overflow' = "none"
      BY <2>3, <2>4, <2>6, ReceivedOne
    <3>2. Answerable(R, p)'
      BY <1>6, <2>1, <2>4, <3>1
    <3>. QED
      BY <3>2
  <2>. QED
    BY <2>5, <2>6
<1>8. CASE \E u : Within(sent, R, p, u, flow) /\ Following(sent[p + 1], u, rx)
  <2>1. PICK u : Within(sent, R, p, u, flow) /\ Following(sent[p + 1], u, rx)
    BY <1>8
  <2>2. sent[p + 1] \in Frame /\ u \in Body
    BY <1>1, <2>1, InFrame
  <2>3. CASE u = <<>>
    <3>1. rx.receiving
      BY <1>1, <2>1, <2>2, <2>3, Ends
    <3>2. octet = SFP_FLAG /\ Between(sent, R, p + 1, Tail(Flow))
      <4>1. Head(flow) = SFP_FLAG /\ Between(sent, R, p + 1, Tail(flow))
        BY <1>1, <2>1, <2>3, InFrame
      <4>. QED
        BY <1>2, <4>1
    <3>3. Head(line) # SFP_FLAG /\ handled' = handled
      BY <1>4, <3>2, Received
    <3>4. \/ overflow' = "last" /\ ~rx'.receiving
          \/ overflow' = "none" /\ rx'.receiving
      BY <3>1, <3>3, ReceivedOne
    <3>5. (p + 1) - Len(handled) <= 1 /\ p + 1 \in Nat
      BY <1>1
    <3>6. Answerable(R, p + 1)'
      BY <1>6, <3>2, <3>3, <3>4, <3>5
    <3>. QED
      BY <3>5, <3>6
  <2>4. CASE u # <<>>
    <3>1. Within(sent, R, p, Tail(u), Tail(Flow)) /\ octet = Head(u)
      <4>1. Head(flow) = Head(u) /\ Within(sent, R, p, Tail(u), Tail(flow))
        BY <1>1, <2>1, <2>4, InFrame
      <4>. QED
        BY <1>2, <4>1
    <3>2. ~rx.receiving => Tail(u) # <<>>
      <4>1. ~rx.receiving => u \in Seq(Octet) /\ Len(u) >= 2
        BY <1>1, <2>1, <2>2, Early
      <4>. QED
        BY <4>1, LongTail
    <3>3. CASE Head(line) = SFP_FLAG /\ ~rx.receiving
      <4>1. rx' = NewReceiver /\ handled' = handled /\ overflow' = "none"
        BY <3>3, Received, ReceivedOne
      <4>2. Answerable(R, p)'
        BY <1>5, <3>1, <3>2, <3>3, <4>1, NewReceiverIs
      <4>. QED
        BY <4>2
    <3>4. CASE Head(line) = SFP_FLAG /\ rx.receiving
      <4>1. rx' = NewReceiver /\ overflow' = "none"
              /\ (naks' = naks + 1 \/ Len(handled') = Len(handled) + 1)
        BY <3>4, Received, ReceivedOne
      <4>2. CASE naks' = naks + 1
        <5>1. naks' > 0
          BY <1>1, <4>2
        <5>2. Answerable(R, p)'
          BY <5>1 DEF Answerable
        <5>. QED
          BY <5>2
      <4>3. CASE Len(handled') = Len(handled) + 1
        <5>1. p - Len(handled') < 0 /\ ~rx'.receiving
          BY <1>1, <4>1, <4>3, NewReceiverIs
        <5>2. Answerable(R, p)'
          BY <1>1, <3>1, <4>1, <5>1 DEF Answerable
        <5>. QED
          BY <5>2
      <4>. QED
        BY <4>1, <4>2, <4>3
    <3>5. CASE Head(line) # SFP_FLAG /\ rx.receiving
      <4>1. handled' = handled
        BY <3>5, Received
      <4>2. \/ overflow' = "last" /\ ~rx'.receiving
            \/ overflow' = "none" /\ rx'.receiving
        BY <3>5, ReceivedOne
      <4>3. Answerable(R, p)'
        BY <1>6, <3>1, <4>1, <4>2
      <4>. QED
        BY <4>3
    <3>6. CASE Head(line) # SFP_FLAG /\ ~rx.receiving
      <4>1. handled' = handled
        BY <3>6, Received
      <4>2. CASE Head(line) = SFP_ESC
        <5>1. ~rx'.receiving /\ overflow' = "none"
          BY <3>6, <4>2, ReceivedOne
        <5>2. Answerable(R, p)'
          BY <1>5, <3>1, <3>2, <3>6, <4>1, <5>1
        <5>. QED
          BY <5>2
      <4>3. CASE Head(line) # SFP_ESC
        <5>1. rx'.receiving /\ overflow' = "none"
          BY <3>6, <4>3, ReceivedOne
        <5>2. Answerable(R, p)'
          BY <1>6, <3>1, <4>1, <5>1
        <5>. QED
          BY <5>2
      <4>. QED
        BY <4>2, <4>3
    <3>. QED
      BY <3>3, <3>4, <3>5, <3>6
  <2>. QED
    BY <2>3, <2>4
<1>. QED
  BY <1>3, <1>7, <1>8 DEF Clean

\* What overflowed in silence is not forgotten.
LEMMA Unforgotten ==
    ASSUME Receive, overflow = "silent"
    PROVE  overflow' = "silent"
BY DEF Receive, IgnoreFlag, RejectFrame, HandleFrame, DeliverEsc, DeliverOther

\* The receiver keeps the invariant, case by case,
LEMMA AnsweredReceive ==
    ASSUME Types, Receive, NEW R, Ahead(sent, R), NEW p \in Nat, Answerable(R, p)
    PROVE  \E q \in Nat : Answerable(R, q)'
<1>1. naks' >= naks /\ naks \in Nat /\ naks' \in Nat /\ line # <<>>
        /\ Len(handled) \in Nat
  BY Received DEF Types
<1>2. CASE naks > 0
  <2>1. naks' > 0
    BY <1>1, <1>2
  <2>. QED
    BY <2>1 DEF Answerable
<1>3. CASE overflow = "silent"
  <2>1. overflow' = "silent"
    BY <1>3, Unforgotten
  <2>. QED
    BY <2>1 DEF Answerable
<1>4. CASE /\ Near(R, p)
           /\ \/ overflow = "last" /\ ~rx.receiving
              \/ overflow = "none" /\ rx.receiving
  BY <1>4, NearReceive
<1>5. CASE /\ overflow = "none" /\ Clean(sent, R, p, Flow, rx)
           /\ p - Len(handled) <= 0
  BY <1>5, CleanReceive
<1>6. CASE /\ overflow = "none" /\ ~rx.receiving /\ p - Len(handled) <= 0
           /\ \E u : Within(sent, R, p, u, Flow) /\ u # <<>>
  BY <1>6, RestReceive
<1>7. CASE /\ overflow = "none" /\ ~rx.receiving /\ p - Len(handled) < 0
           /\ \E u : Within(sent, R, p, u, Flow)
  BY <1>7, RestReceive
<1>8. CASE /\ overflow = "none" /\ line # <<>> /\ p - Len(handled) <= 0
           /\ \E octet \in Octet :
                 /\ octet # Head(Flow)
                 /\ Clean(sent, R, p, <<octet>> \o Tail(Flow), rx)
  BY <1>8, DamagedReceive
<1>. QED
  BY <1>2, <1>3, <1>4, <1>5, <1>6, <1>7, <1>8 DEF Answerable

\* and so does every step.
LEMMA AnsweredStep == Types /\ Answered /\ [Next]_vars => Answered'
<1>. SUFFICES ASSUME Types, Answered, [Next]_vars PROVE Answered'
  OBVIOUS
<1>1. PICK R : /\ Ahead(sent, R)
               /\ \E p : /\ p \in Nat
                         /\ faults = 0 => Exact(R, p)
                         /\ faults = 1 => Answerable(R, p)
  BY DEF Answered
<1>2. PICK p \in Nat : /\ faults = 0 => Exact(R, p)
                       /\ faults = 1 => Answerable(R, p)
  BY <1>1
<1>0. (toWrite = <<>> => writebuf = <<>>) /\ faults \in Nat
  BY DEF Answered, Types
<1>3. CASE \E frame \in Frame : Transmit(frame)
  BY <1>3, AnsweredTransmit
<1>4. CASE BufferedWrite
  BY <1>4, AnsweredWrite
<1>5. CASE Receive
  <2>1. UNCHANGED <<toWrite, writebuf, sent, faults>>
    BY <1>5, Received
  <2>2. CASE faults = 0
    <3>1. \E q \in Nat : Exact(R, q)'
      BY <1>1, <1>2, <1>5, <2>2, ExactReceive
    <3>. QED
      BY <1>0, <1>1, <2>1, <2>2, <3>1 DEF Answered
  <2>3. CASE faults = 1
    <3>1. \E q \in Nat : Answerable(R, q)'
      BY <1>1, <1>2, <1>5, <2>3, AnsweredReceive
    <3>. QED
      BY <1>0, <1>1, <2>1, <2>3, <3>1 DEF Answered
  <2>4. CASE faults # 0 /\ faults # 1
    BY <1>0, <1>1, <2>1, <2>4 DEF Answered
  <2>. QED
    BY <2>2, <2>3, <2>4
<1>6. CASE LoseOctet
  <2>1. UNCHANGED <<toWrite, writebuf, sent>> /\ faults' = faults + 1
    BY <1>6, Lost
  <2>2. CASE faults = 0
    <3>1. \E q \in Nat : Answerable(R, q)'
      BY <1>1, <1>2, <1>6, <2>2, AnsweredLost
    <3>. QED
      BY <1>0, <1>1, <2>1, <2>2, <3>1 DEF Answered
  <2>3. CASE faults # 0
    <3>1. faults' # 0 /\ faults' # 1
      BY <1>0, <2>1, <2>3
    <3>. QED
      BY <1>0, <1>1, <2>1, <3>1 DEF Answered
  <2>. QED
    BY <2>2, <2>3
<1>7. CASE \E octet \in Noise : DamageOctet(octet)
  <2>0. PICK octet \in Noise : DamageOctet(octet)
    BY <1>7
  <2>1. UNCHANGED <<toWrite, writebuf, sent>> /\ faults' = faults + 1
    BY <2>0, DamagedOctet
  <2>2. CASE faults = 0
    <3>1. Answerable(R, p)'
      BY <1>1, <1>2, <2>0, <2>2, AnsweredDamaged
    <3>. QED
      BY <1>0, <1>1, <1>2, <2>1, <2>2, <3>1 DEF Answered
  <2>3. CASE faults # 0
    <3>1. faults' # 0 /\ faults' # 1
      BY <1>0, <2>1, <2>3
    <3>. QED
      BY <1>0, <1>1, <2>1, <3>1 DEF Answered
  <2>. QED
    BY <2>2, <2>3
<1>8. CASE UNCHANGED vars
  <2>1. /\ UNCHANGED <<toWrite, writebuf, line, rx, overflow, sent, handled>>
        /\ UNCHANGED <<naks, faults>>
    BY <1>8 DEF vars
  <2>2. Flow' = Flow
    BY <2>1 DEF Flow
  <2>3. Near(R, p) => Near(R, p)'
    BY <2>1, <2>2 DEF Near
  <2>4. Exact(R, p) => Exact(R, p)'
    BY <2>1, <2>2 DEF Exact
  <2>5. Answerable(R, p) => Answerable(R, p)'
    <3>1. line # <<>> => line' # <<>>
      BY <2>1
    <3>2. UNCHANGED <<rx, overflow, sent, handled, naks>>
      BY <2>1
    <3>. QED
      BY <2>2, <2>3, <3>1, <3>2 DEF Answerable
  <2>. QED
    BY <1>0, <1>1, <1>2, <2>1, <2>4, <2>5 DEF Answered
<1>. QED
  BY <1>3, <1>4, <1>5, <1>6, <1>7, <1>8 DEF Next, Receive

\* It implies what is wanted.
LEMMA AnsweredSuffices ==
    Types /\ Answered => /\ faults = 0 => NothingInvented
                         /\ faults <= 1 => LossIsAnswered
<1>. SUFFICES ASSUME Types, Answered
              PROVE  /\ faults = 0 => NothingInvented
                     /\ faults <= 1 => LossIsAnswered
  OBVIOUS
<1>1. PICK R : /\ Ahead(sent, R)
               /\ \E p : /\ p \in Nat
                         /\ faults = 0 => Exact(R, p)
                         /\ faults = 1 => Answerable(R, p)
  BY DEF Answered
<1>2. PICK p \in Nat : /\ faults = 0 => Exact(R, p)
                       /\ faults = 1 => Answerable(R, p)
  BY <1>1
<1>3. /\ faults \in Nat /\ naks \in Nat /\ sent \in Seq(Frame)
      /\ handled \in Seq([header : Octet, packet : Seq(Octet)])
      /\ Len(handled) \in Nat /\ Len(sent) \in Nat
  BY DEF Types
<1>4. ASSUME faults = 0 PROVE NothingInvented
  <2>1. Exact(R, p)
    BY <1>2, <1>4
  <2>2. p \in 0 .. Len(sent) /\ p = Len(handled)
    BY <1>3, <2>1, CleanIsAt, AtIsNat DEF Exact
  <2>. DEFINE place == [i \in DOMAIN handled |-> i]
  <2>3. DOMAIN handled = 1 .. p /\ DOMAIN sent = 1 .. Len(sent)
    BY <1>3, <2>2
  <2>4. place \in [DOMAIN handled -> DOMAIN sent]
    BY <1>3, <2>2, <2>3
  <2>5. \A i \in DOMAIN handled : handled[i] = sent[place[i]]
    BY <2>1, <2>3 DEF Exact
  <2>6. \A i, j \in DOMAIN handled : i < j => place[i] < place[j]
    OBVIOUS
  <2>. QED
    BY <2>4, <2>5, <2>6 DEF NothingInvented
<1>5. ASSUME faults <= 1, Drained, ~rx.receiving, Len(handled) < Len(sent),
             ~(naks > 0 \/ overflow # "none")
      PROVE  FALSE
  <2>1. /\ Flow = <<>> /\ line = <<>>
        /\ \A q : At(sent, R, q, Flow) => q = Len(sent) /\ Between(sent, R, q, Flow)
    BY <1>1, <1>5, NothingAhead DEF Answered, Drained
  <2>2. Clean(sent, R, p, Flow, rx) => p = Len(sent)
    BY <2>1, CleanIsAt
  <2>3. \A u : ~Within(sent, R, p, u, Flow)
    BY <1>1, <1>3, <2>1, InFrame
  <2>4. CASE faults = 0
    <3>1. p = Len(handled) /\ p = Len(sent)
      BY <1>2, <2>2, <2>4 DEF Exact
    <3>. QED
      BY <1>3, <1>5, <3>1
  <2>5. CASE faults = 1
    <3>1. Clean(sent, R, p, Flow, rx) /\ p - Len(handled) <= 0
      BY <1>2, <1>5, <2>1, <2>3, <2>5 DEF Answerable
    <3>. QED
      BY <1>3, <1>5, <2>2, <3>1
  <2>. QED
    BY <1>3, <1>5, <2>4, <2>5
<1>. QED
  BY <1>4, <1>5 DEF LossIsAnswered

\* As long as one octet at most was lost or damaged, a frame that was lost has
\* been asked for when the line is empty and the receiver between frames
\* (serial_framing_protocol.c:486), unless its packet buffer overflowed on the
\* last octet.  Two are another matter: the FLAG that closes a frame may
\* overflow a full buffer when damaged, and if the next one is lost the frame
\* behind it is handled as though nothing had happened.
THEOREM OneFaultIsAnswered == Spec => [](faults <= 1 => LossIsAnswered)
<1>1. Spec => []Types
  BY TypesStart, TypesStep, PTL DEF Spec
<1>2. Spec => []Answered
  BY <1>1, AnsweredStart, AnsweredStep, PTL DEF Spec
<1>. QED
  BY <1>1, <1>2, AnsweredSuffices, PTL

\* Without faults the frames that sfpHandleFrame lets pass are those sent, in
\* their order: what sfpTransmitFrameWithHeader escapes and checks the receiver
\* takes for good.  With faults that is a matter of what a CRC of sixteen bits
\* can tell, and no theorem for all frames.
THEOREM NothingIsInvented == Spec => [](faults = 0 => NothingInvented)
<1>1. Spec => []Types
  BY TypesStart, TypesStep, PTL DEF Spec
<1>2. Spec => []Answered
  BY <1>1, AnsweredStart, AnsweredStep, PTL DEF Spec
<1>. QED
  BY <1>1, <1>2, AnsweredSuffices, PTL

=============================================================================
