-------------------------- MODULE FrameRecvProofs --------------------------
(***************************************************************************)
(* The parser of frames is right for every radix of the length fields up   *)
(* to that of bytes, every buffer of at least 8 bytes, every set of        *)
(* well-formed frames, mask keys and malformed heads, and every way the    *)
(* socket cuts the bytes.                                                  *)
(*                                                                         *)
(* The inductive invariant ParseInv says where the parser is (Where): what *)
(* is in the buffer and in the stream, taken together, is what the peer    *)
(* sends after the frames passed on, minus what the parser has read of the *)
(* next frame, and what it has read is in the context.  Reading moves a    *)
(* byte from the stream to the buffer and changes nothing of this; each    *)
(* stage takes off what it reads.                                          *)
(*                                                                         *)
(* The module goes from bytes to numbers, sequences, frames and streams    *)
(* (what the peer encodes is what the parser decodes), then to the stages, *)
(* and from the three outcomes of a call (RecvOutcome) to the invariant    *)
(* and the refinement of FrameSource.                                      *)
(***************************************************************************)
EXTENDS FrameRecv, Utf8Proofs

Bit(a, w) == (a \div w) % 2

(* A byte is the sum of its bits.                                          *)
LEMMA BitsOf ==
    ASSUME NEW a \in Byte
    PROVE  /\ Bit(a,1) \in 0..1 /\ Bit(a,2) \in 0..1 /\ Bit(a,4) \in 0..1 /\ Bit(a,8) \in 0..1
           /\ Bit(a,16) \in 0..1 /\ Bit(a,32) \in 0..1 /\ Bit(a,64) \in 0..1 /\ Bit(a,128) \in 0..1
           /\ a = Bit(a,1) + 2 * Bit(a,2) + 4 * Bit(a,4) + 8 * Bit(a,8)
                  + 16 * Bit(a,16) + 32 * Bit(a,32) + 64 * Bit(a,64) + 128 * Bit(a,128)
BY DEF Bit, Byte

Sum8(b1, b2, b4, b8, b16, b32, b64, b128) ==
    b1 + 2 * b2 + 4 * b4 + 8 * b8 + 16 * b16 + 32 * b32 + 64 * b64 + 128 * b128

(* The bits of a sum of bits are those it was made of.                     *)
LEMMA BitsBack ==
    ASSUME NEW b1 \in 0..1, NEW b2 \in 0..1, NEW b4 \in 0..1, NEW b8 \in 0..1,
           NEW b16 \in 0..1, NEW b32 \in 0..1, NEW b64 \in 0..1, NEW b128 \in 0..1
    PROVE  LET s == Sum8(b1, b2, b4, b8, b16, b32, b64, b128)
           IN  /\ s \in Byte
               /\ Bit(s,1) = b1 /\ Bit(s,2) = b2 /\ Bit(s,4) = b4 /\ Bit(s,8) = b8
               /\ Bit(s,16) = b16 /\ Bit(s,32) = b32 /\ Bit(s,64) = b64 /\ Bit(s,128) = b128
BY SMTT(60) DEF Bit, Byte, Sum8

XorBit(a, b, w) == (a \div w + b \div w) % 2

(* A bit of a ^ b is the sum of the bits, without the carry.               *)
LEMMA BitSum ==
    ASSUME NEW a \in Nat, NEW b \in Nat, NEW w \in {1, 2, 4, 8, 16, 32, 64, 128}
    PROVE  XorBit(a, b, w) \in 0..1 /\ XorBit(a, b, w) = (Bit(a, w) + Bit(b, w)) % 2
BY DEF Bit, XorBit

FirstByte(fin, rsv, opcode) == (IF fin THEN 128 ELSE 0) + 16 * rsv + opcode
SecondByte(mask, len) == (IF mask THEN 128 ELSE 0) + len

(* The first byte of a head is taken apart (frame.c 209-214) as it was put *)
(* together.                                                               *)
LEMMA HeadBits ==
    ASSUME NEW fin \in BOOLEAN, NEW rsv \in 0..7, NEW opcode \in 0..15
    PROVE  LET b == FirstByte(fin, rsv, opcode) IN
           /\ b \in Byte
           /\ OpcodeMemo(b) = [ fin |-> fin, rsv |-> rsv, opcode |-> opcode ]
           /\ b < 128 <=> ~fin
<1> DEFINE b == FirstByte(fin, rsv, opcode)
<1> HIDE DEF b
<1>1. CASE fin = TRUE
  <2>1. b = 128 + 16 * rsv + opcode
    BY <1>1 DEF b, FirstByte
  <2>2. b \div 128 = 1 /\ (b \div 16) % 8 = rsv /\ b % 16 = opcode /\ b \in 0..255 /\ b >= 128
        /\ ~(b < 128)
    BY <2>1
  <2>3. OpcodeMemo(b) = [ fin |-> TRUE, rsv |-> rsv, opcode |-> opcode ]
    BY <2>2 DEF OpcodeMemo
  <2> QED  BY <1>1, <2>2, <2>3 DEF Byte, b
<1>2. CASE fin = FALSE
  <2>1. b = 16 * rsv + opcode
    BY <1>2 DEF b, FirstByte
  <2>2. b \div 128 = 0 /\ (b \div 16) % 8 = rsv /\ b % 16 = opcode /\ b \in 0..255 /\ b < 128
    BY <2>1
  <2>3. OpcodeMemo(b) = [ fin |-> FALSE, rsv |-> rsv, opcode |-> opcode ]
    <3>1. (b \div 128 = 1) = FALSE
      BY <2>2
    <3> QED  BY <2>2, <3>1, Zenon DEF OpcodeMemo
  <2> QED  BY <1>2, <2>2, <2>3 DEF Byte, b
<1> QED  BY <1>1, <1>2, Zenon DEF b

(* So is the second one (frame.c 215-216).                                 *)
LEMMA LengthBits ==
    ASSUME NEW mask \in BOOLEAN, NEW len \in 0..127
    PROVE  LET b == SecondByte(mask, len) IN
           b \in Byte /\ b % 128 = len /\ (b \div 128 = 1) = mask
<1> DEFINE b == SecondByte(mask, len)
<1> HIDE DEF b
<1>1. CASE mask = TRUE
  <2>1. b = 128 + len
    BY <1>1 DEF b, SecondByte
  <2>2. b \in 0..255 /\ b % 128 = len /\ b \div 128 = 1
    BY <2>1
  <2> QED  BY <1>1, <2>2 DEF Byte, b
<1>2. CASE mask = FALSE
  <2>1. b \in 0..255 /\ b % 128 = len /\ b \div 128 = 0
    BY <1>2 DEF b, SecondByte
  <2> QED  BY <1>2, <2>1 DEF Byte, b
<1> QED  BY <1>1, <1>2, Zenon DEF b

(* Combining a byte with a key twice gives it back.                        *)
LEMMA XorTwice ==
    ASSUME NEW a \in Byte, NEW k \in Byte
    PROVE  Xor(a, k) \in Byte /\ Xor(Xor(a, k), k) = a
<1> DEFINE S(x, y) == Sum8(XorBit(x,y,1), XorBit(x,y,2), XorBit(x,y,4), XorBit(x,y,8),
                           XorBit(x,y,16), XorBit(x,y,32),
                           XorBit(x,y,64), XorBit(x,y,128))
           Ws == {1, 2, 4, 8, 16, 32, 64, 128}
<1>1. ASSUME NEW x \in Byte PROVE Xor(x, k) = S(x, k) /\ \A w \in Ws : XorBit(x, k, w) \in 0..1
  <2>1. \A w \in Ws : XorBit(x, k, w) \in 0..1
    BY BitSum DEF Byte
  <2>2. Xor(x, k) = S(x, k)
    BY <2>1 DEF Xor, Sum8, XorBit
  <2> QED  BY <2>1, <2>2
<1> DEFINE x == Xor(a, k)
<1>2. x = S(a, k) /\ \A w \in Ws : XorBit(a, k, w) \in 0..1
  BY <1>1
<1>3. x \in Byte /\ \A w \in Ws : Bit(x, w) = XorBit(a, k, w)
  <2>1. S(a, k) \in Byte /\ \A w \in Ws : Bit(S(a, k), w) = XorBit(a, k, w)
    <3> /\ XorBit(a, k, 1) \in 0..1 /\ XorBit(a, k, 2) \in 0..1
        /\ XorBit(a, k, 4) \in 0..1 /\ XorBit(a, k, 8) \in 0..1
        /\ XorBit(a, k, 16) \in 0..1 /\ XorBit(a, k, 32) \in 0..1
        /\ XorBit(a, k, 64) \in 0..1 /\ XorBit(a, k, 128) \in 0..1
      BY <1>2
    <3> QED  BY BitsBack
  <2> HIDE DEF S
  <2> QED  BY <1>2, <2>1
<1>4. \A w \in Ws : XorBit(x, k, w) = Bit(a, w)
  <2> SUFFICES ASSUME NEW w \in Ws PROVE XorBit(x, k, w) = Bit(a, w)
    OBVIOUS
  <2> x \in Nat /\ a \in Nat /\ k \in Nat
    BY <1>3 DEF Byte
  <2>1. XorBit(x, k, w) = (Bit(x, w) + Bit(k, w)) % 2
    BY BitSum
  <2>2. Bit(x, w) = (Bit(a, w) + Bit(k, w)) % 2
    BY <1>3, BitSum
  <2>3. Bit(a, w) \in 0..1 /\ Bit(k, w) \in 0..1
    BY DEF Bit
  <2> HIDE DEF x
  <2> QED  BY <2>1, <2>2, <2>3
<1>5. Xor(x, k) = S(x, k)
  BY <1>1, <1>3
<1>6. S(x, k) = a
  <2> HIDE DEF x
  <2> QED  BY <1>4, BitsOf DEF Sum8
<1> HIDE DEF S, x
<1>7. x \in Byte /\ Xor(x, k) = a
  BY <1>3, <1>5, <1>6
<1> QED  BY <1>7 DEF x

DigitStep == [ p \in Nat \X Nat |-> Radix * p[1] + p[2] ]

(* What is assumed of the radix.                                           *)
LEMMA RadixFacts == Radix \in Nat /\ Radix >= 2 /\ Radix <= 256
BY FrameRecvAssumption

(* be64toh is a fold.                                                      *)
LEMMA BeFolds ==
    ASSUME NEW s \in Seq(Nat)
    PROVE  \E f \in [ 0..Len(s) -> Nat ] : IsFold(f, 0, DigitStep, s) /\ be64toh(s) = f[Len(s)]
<1> DEFINE n == Len(s)
           Walk(f) == [ i \in 0..n |-> IF i = 0 THEN 0 ELSE Radix * f[i - 1] + s[i] ]
           at == CHOOSE f : f = Walk(f)
<1>1. n \in Nat /\ \A i \in 1..n : s[i] \in Nat
  OBVIOUS
<1>2. DigitStep \in Steps(Nat, Nat) /\ 0 \in Nat
  BY RadixFacts DEF Steps, DigitStep
<1>3. \A v, d \in Nat : DigitStep[<< v, d >>] = Radix * v + d
  BY DEF DigitStep
<1>4. PICK f \in [ 0..n -> Nat ] : IsFold(f, 0, DigitStep, s)
  BY <1>2, FoldExists
<1>5. \A i \in 1..n : i - 1 \in 0..n /\ f[i] = Radix * f[i - 1] + s[i]
  <2> SUFFICES ASSUME NEW i \in 1..n
               PROVE  i - 1 \in 0..n /\ f[i] = Radix * f[i - 1] + s[i]
    OBVIOUS
  <2>1. i - 1 \in 0..n /\ s[i] \in Nat
    BY <1>1
  <2>2. f[i - 1] \in Nat
    BY <2>1
  <2>3. f[i] = DigitStep[<< f[i - 1], s[i] >>]
    BY <1>4 DEF IsFold
  <2> QED
    BY <1>3, <2>1, <2>2, <2>3
<1>6. f = Walk(f)
  <2>1. \A i \in 0..n : f[i] = Walk(f)[i]
    BY <1>1, <1>4, <1>5 DEF IsFold
  <2> QED
    BY <2>1
<1>7. at = Walk(at)
  BY <1>6, Zenon
<1>8. be64toh(s) = at[n]
  BY Zenon DEF be64toh
<1> HIDE DEF at
<1>9. \A i \in 0..n : at[i] = f[i]
  <2> DEFINE Same == { i \in 0..n : at[i] = f[i] }
  <2>1. 0 \in Same
    BY <1>1, <1>4, <1>7 DEF IsFold
  <2>2. ASSUME NEW i \in 1..n, i - 1 \in Same PROVE i \in Same
    <3>1. at[i - 1] = f[i - 1]
      BY <2>2
    <3>2. at[i] = Radix * at[i - 1] + s[i]
      BY <1>1, <1>7
    <3> QED
      BY <1>1, <1>5, <3>1, <3>2
  <2>3. \A i \in 0..n : i \in Same
    <3> HIDE DEF Same
    <3> QED
      BY <1>1, <2>1, <2>2, InductionUpTo
  <2> QED
    BY <2>3
<1> QED
  BY <1>1, <1>4, <1>8, <1>9

(* One digit more.                                                         *)
LEMMA BeAppend ==
    ASSUME NEW s \in Seq(Nat), NEW d \in Nat
    PROVE  /\ be64toh(s) \in Nat
           /\ s = << >> => be64toh(s) = 0
           /\ be64toh(Append(s, d)) = Radix * be64toh(s) + d
<1> DEFINE t == Append(s, d)
<1>1. t \in Seq(Nat) /\ Len(t) = Len(s) + 1 /\ Len(s) \in Nat /\ t[Len(s) + 1] = d
      /\ \A i \in 1..Len(s) : t[i] = s[i]
  OBVIOUS
<1> HIDE DEF t
<1>2. PICK f \in [ 0..Len(s) -> Nat ] : IsFold(f, 0, DigitStep, s) /\ be64toh(s) = f[Len(s)]
  BY BeFolds
<1>3. PICK g \in [ 0..Len(t) -> Nat ] : IsFold(g, 0, DigitStep, t) /\ be64toh(t) = g[Len(t)]
  BY <1>1, BeFolds
<1>4. IsExtension(s, t)
  BY <1>1 DEF IsExtension
<1>5. IsNextStep(f, g, DigitStep, s, t)
  BY <1>2, <1>3, <1>4, FoldAppend
<1>6. f[Len(s)] \in Nat
  <2>1. Len(s) \in 0..Len(s)
    BY <1>1
  <2> QED  BY <1>2, <2>1
<1>7. be64toh(t) = Radix * f[Len(s)] + d
  BY <1>1, <1>3, <1>5, <1>6 DEF IsNextStep, DigitStep
<1>8. s = << >> => be64toh(s) = 0
  BY <1>1, <1>2 DEF IsFold
<1> QED
  BY <1>2, <1>6, <1>7, <1>8 DEF t

HaveDigits(k, limit) ==
    \A n \in Nat : n < limit => \E s \in Seq(0..(Radix - 1)) : Len(s) = k /\ be64toh(s) = n

(* With a digit more, numbers Radix times as large can be written.         *)
LEMMA DigitsMore ==
    ASSUME NEW k \in Nat, NEW limit \in Nat, HaveDigits(k, limit)
    PROVE  Radix * limit \in Nat /\ HaveDigits(k + 1, Radix * limit)
<1>0. Radix * limit \in Nat
  BY RadixFacts
<1>1. SUFFICES ASSUME NEW n \in Nat, n < Radix * limit
             PROVE  \E s \in Seq(0..(Radix - 1)) : Len(s) = k + 1 /\ be64toh(s) = n
  BY <1>0 DEF HaveDigits
<1> DEFINE q == n \div Radix
           r == n % Radix
<1>2. q \in Nat /\ r \in 0..(Radix - 1) /\ n = Radix * q + r
  BY RadixFacts
<1>3. q < limit
  <2> HIDE DEF q, r
  <2>1. ASSUME limit <= q PROVE FALSE
    <3>1. Radix * limit <= Radix * q
      BY <1>2, <2>1, RadixFacts
    <3> QED  BY <1>1, <1>2, <3>1, RadixFacts
  <2> QED  BY <1>2, <2>1
<1> HIDE DEF q, r
<1>4. PICK s \in Seq(0..(Radix - 1)) : Len(s) = k /\ be64toh(s) = q
  BY <1>2, <1>3 DEF HaveDigits
<1>5. s \in Seq(Nat) /\ r \in Nat
  BY <1>2, RadixFacts
<1>6. be64toh(Append(s, r)) = n
  BY <1>2, <1>4, <1>5, BeAppend
<1>7. Append(s, r) \in Seq(0..(Radix - 1)) /\ Len(Append(s, r)) = k + 1
  BY <1>2, <1>4
<1> QED
  BY <1>6, <1>7

(* The limits of the length forms are powers of the radix.                 *)
LEMMA RadixPowers ==
    /\ Radix2 \in Nat /\ Radix2 = Radix * Radix
    /\ Radix8 \in Nat
    /\ Radix8 = Radix * (Radix * (Radix * (Radix * (Radix * (Radix * Radix2)))))
<1>1. Radix2 \in Nat /\ Radix2 = Radix * Radix
  BY RadixFacts DEF Radix2
<1>2. Radix8 \in Nat /\ Radix8 = Radix2 * Radix2 * Radix2 * Radix2
  BY <1>1 DEF Radix8
<1>3. \A x \in Nat : Radix * (Radix * x) = Radix2 * x
  BY <1>1, RadixFacts
<1>4. Radix2 * Radix2 \in Nat /\ Radix2 * (Radix2 * Radix2) \in Nat
      /\ Radix2 * (Radix2 * (Radix2 * Radix2)) \in Nat
  BY <1>1
<1>5. Radix8 = Radix2 * (Radix2 * (Radix2 * Radix2))
  BY <1>1, <1>2
<1> QED
  BY <1>1, <1>2, <1>3, <1>4, <1>5

(* The digits of a number stand for it.                                    *)
LEMMA DigitsRight ==
    ASSUME NEW n \in Nat, NEW k \in {2, 8}, k = 2 => n < Radix2, k = 8 => n < Radix8
    PROVE  /\ Digits(n, k) \in [ 1..k -> 0..(Radix - 1) ]
           /\ be64toh(Digits(n, k)) = n
<1>1. HaveDigits(0, 1)
  <2> DEFINE s == << >>
  <2>1. s \in Seq(Nat) /\ 0 \in Nat /\ s \in Seq(0..(Radix - 1)) /\ Len(s) = 0 /\ s = << >>
    OBVIOUS
  <2> HIDE DEF s
  <2>2. be64toh(s) = 0
    BY <2>1, BeAppend
  <2>3. \A i \in Nat : i < 1 => i = 0
    OBVIOUS
  <2> QED  BY <2>1, <2>2, <2>3 DEF HaveDigits
<1>2. HaveDigits(1, Radix) /\ Radix \in Nat
  BY <1>1, DigitsMore, RadixFacts
<1>3. HaveDigits(2, Radix2) /\ Radix2 \in Nat
  BY <1>2, DigitsMore, RadixPowers
<1> DEFINE p3 == Radix * Radix2
           p4 == Radix * p3
           p5 == Radix * p4
           p6 == Radix * p5
           p7 == Radix * p6
           p8 == Radix * p7
<1>4. HaveDigits(3, p3) /\ p3 \in Nat
  BY <1>3, DigitsMore
<1> HIDE DEF p3
<1>5. HaveDigits(4, p4) /\ p4 \in Nat
  BY <1>4, DigitsMore
<1> HIDE DEF p4
<1>6. HaveDigits(5, p5) /\ p5 \in Nat
  BY <1>5, DigitsMore
<1> HIDE DEF p5
<1>7. HaveDigits(6, p6) /\ p6 \in Nat
  BY <1>6, DigitsMore
<1> HIDE DEF p6
<1>8. HaveDigits(7, p7) /\ p7 \in Nat
  BY <1>7, DigitsMore
<1> HIDE DEF p7
<1>9. HaveDigits(8, p8) /\ p8 \in Nat
  BY <1>8, DigitsMore
<1> HIDE DEF p8
<1>10. p8 = Radix8
  BY RadixPowers DEF p3, p4, p5, p6, p7, p8
<1>11. PICK s \in Seq(0..(Radix - 1)) : Len(s) = k /\ be64toh(s) = n
  BY <1>3, <1>9, <1>10 DEF HaveDigits
<1>12. s \in [ 1..k -> 0..(Radix - 1) ]
  BY <1>11, LenProperties
<1> QED
  BY <1>11, <1>12, Zenon DEF Digits

(* The first n bytes of s, and the others.                                 *)
Take(s, n) == SubSeq(s, 1, n)
Drop(s, n) == SubSeq(s, n + 1, Len(s))

(* What Take and Drop give.                                                *)
LEMMA TakeFacts ==
    ASSUME NEW s \in Seq(Byte), NEW n \in Nat, n <= Len(s)
    PROVE  /\ Take(s, n) \in Seq(Byte) /\ Len(Take(s, n)) = n
           /\ \A i \in 1..n : Take(s, n)[i] = s[i]
<1>1. Len(s) \in Nat /\ n \in Nat /\ \A i \in 1..Len(s) : s[i] \in Byte
  OBVIOUS
<1> QED  BY <1>1 DEF Take

LEMMA DropFacts ==
    ASSUME NEW s \in Seq(Byte), NEW n \in Nat, n <= Len(s)
    PROVE  /\ Drop(s, n) \in Seq(Byte) /\ Len(Drop(s, n)) = Len(s) - n
           /\ \A i \in 1..(Len(s) - n) : Drop(s, n)[i] = s[n + i]
<1>1. Len(s) \in Nat /\ n \in Nat /\ \A i \in 1..Len(s) : s[i] \in Byte
  OBVIOUS
<1> QED  BY <1>1 DEF Drop

(* Two sequences with the same bytes are one.                              *)
LEMMA SameBytes ==
    ASSUME NEW s \in Seq(Byte), NEW t \in Seq(Byte), Len(s) = Len(t),
           \A i \in 1..Len(s) : s[i] = t[i]
    PROVE  s = t
BY SeqEqual

(* Facts about sequences of bytes that many leaves need.                   *)
LEMMA Lengths ==
    ASSUME NEW s \in Seq(Byte)
    PROVE  Len(s) \in Nat /\ \A i \in 1..Len(s) : s[i] \in Byte
OBVIOUS

LEMMA Concat ==
    ASSUME NEW s \in Seq(Byte), NEW t \in Seq(Byte)
    PROVE  /\ s \o t \in Seq(Byte) /\ Len(s \o t) = Len(s) + Len(t)
           /\ \A i \in 1..Len(s) : (s \o t)[i] = s[i]
           /\ \A i \in 1..Len(t) : (s \o t)[Len(s) + i] = t[i]
BY ConcatProperties

(* What a sequence was cut into makes it up again.                         *)
LEMMA Glue ==
    ASSUME NEW t \in Seq(Byte), NEW a \in Seq(Byte), NEW b \in Seq(Byte),
           Len(t) = Len(a) + Len(b),
           \A i \in 1..Len(a) : a[i] = t[i],
           \A i \in 1..Len(b) : b[i] = t[Len(a) + i]
    PROVE  a \o b = t
<1>1. PICK u \in Seq(Byte) :
        /\ u = a \o b /\ Len(u) = Len(a) + Len(b)
        /\ \A i \in 1..Len(a) : u[i] = a[i]
        /\ \A i \in 1..Len(b) : u[Len(a) + i] = b[i]
  BY Concat
<1>2. Len(a) \in Nat /\ Len(b) \in Nat
  OBVIOUS
<1>3. ASSUME NEW i \in 1..Len(u) PROVE u[i] = t[i]
  <2>1. CASE i <= Len(a)
    <3>1. i \in 1..Len(a)
      BY <1>2, <2>1
    <3> QED  BY <1>1, <3>1
  <2>2. CASE i > Len(a)
    <3> DEFINE j == i - Len(a)
    <3>1. j \in 1..Len(b) /\ i = Len(a) + j
      BY <1>1, <1>2, <2>2
    <3> HIDE DEF j
    <3> QED  BY <1>1, <3>1
  <2> QED  BY <1>2, <2>1, <2>2
<1>4. u = t
  BY <1>1, <1>3, SameBytes
<1> QED  BY <1>1, <1>4

(* What was put before t can be taken off again.                           *)
LEMMA DropConcat ==
    ASSUME NEW s \in Seq(Byte), NEW t \in Seq(Byte)
    PROVE  Take(s \o t, Len(s)) = s /\ Drop(s \o t, Len(s)) = t
<1>1. PICK u \in Seq(Byte) :
        /\ u = s \o t /\ Len(u) = Len(s) + Len(t)
        /\ \A i \in 1..Len(s) : u[i] = s[i]
        /\ \A i \in 1..Len(t) : u[Len(s) + i] = t[i]
  BY Concat
<1>2. PICK n \in Nat : n = Len(s)
  OBVIOUS
<1>3. n <= Len(u) /\ Len(u) - n = Len(t) /\ Len(t) \in Nat
  BY <1>1, <1>2
<1>4. Take(u, n) = s
  <2>1. PICK v \in Seq(Byte) : v = Take(u, n) /\ Len(v) = n /\ \A i \in 1..n : v[i] = u[i]
    BY <1>3, TakeFacts
  <2>2. v = s
    BY <1>1, <1>2, <2>1, SameBytes
  <2> QED  BY <2>1, <2>2
<1>5. Drop(u, n) = t
  <2>1. PICK v \in Seq(Byte) : /\ v = Drop(u, n) /\ Len(v) = Len(u) - n
                               /\ \A i \in 1..(Len(u) - n) : v[i] = u[n + i]
    BY <1>3, DropFacts
  <2>2. \A i \in 1..Len(v) : v[i] = t[i]
    BY <1>1, <1>2, <1>3, <2>1
  <2>3. v = t
    BY <1>3, <2>1, <2>2, SameBytes
  <2> QED  BY <2>1, <2>3
<1> QED  BY <1>1, <1>2, <1>4, <1>5

(* Taking off no more than s leaves t alone.                               *)
LEMMA DropFirst ==
    ASSUME NEW s \in Seq(Byte), NEW t \in Seq(Byte), NEW n \in Nat, n <= Len(s)
    PROVE  Take(s \o t, n) = Take(s, n) /\ Drop(s \o t, n) = Drop(s, n) \o t
<1>1. PICK u \in Seq(Byte) :
        /\ u = s \o t /\ Len(u) = Len(s) + Len(t)
        /\ \A i \in 1..Len(s) : u[i] = s[i]
        /\ \A i \in 1..Len(t) : u[Len(s) + i] = t[i]
  BY Concat
<1>2. n <= Len(u) /\ Len(s) \in Nat /\ Len(t) \in Nat
  BY <1>1
<1>3. Take(u, n) = Take(s, n)
  <2>1. PICK v \in Seq(Byte) : v = Take(u, n) /\ Len(v) = n /\ \A i \in 1..n : v[i] = u[i]
    BY <1>2, TakeFacts
  <2>2. PICK w \in Seq(Byte) : w = Take(s, n) /\ Len(w) = n /\ \A i \in 1..n : w[i] = s[i]
    BY TakeFacts
  <2>3. \A i \in 1..Len(v) : v[i] = w[i]
    BY <1>1, <1>2, <2>1, <2>2
  <2>4. v = w
    BY <2>1, <2>2, <2>3, SameBytes
  <2> QED  BY <2>1, <2>2, <2>4
<1>4. Drop(u, n) = Drop(s, n) \o t
  <2>1. PICK w \in Seq(Byte) : /\ w = Drop(u, n) /\ Len(w) = Len(u) - n
                               /\ \A i \in 1..(Len(u) - n) : w[i] = u[n + i]
    BY <1>2, DropFacts
  <2>2. PICK d \in Seq(Byte) : /\ d = Drop(s, n) /\ Len(d) = Len(s) - n
                               /\ \A i \in 1..(Len(s) - n) : d[i] = s[n + i]
    BY DropFacts
  <2>3. \A i \in 1..Len(d) : d[i] = w[i]
    <3> SUFFICES ASSUME NEW i \in 1..Len(d) PROVE d[i] = w[i]
      OBVIOUS
    <3>1. i \in 1..(Len(u) - n) /\ n + i \in 1..Len(s) /\ i \in 1..(Len(s) - n)
      BY <1>1, <1>2, <2>2
    <3> QED  BY <1>1, <2>1, <2>2, <3>1
  <2>4. \A i \in 1..Len(t) : t[i] = w[Len(d) + i]
    <3> SUFFICES ASSUME NEW i \in 1..Len(t) PROVE t[i] = w[Len(d) + i]
      OBVIOUS
    <3>1. Len(d) + i \in 1..(Len(u) - n) /\ n + (Len(d) + i) = Len(s) + i
      BY <1>1, <1>2, <2>2
    <3> QED  BY <1>1, <2>1, <3>1
  <2>5. Len(w) = Len(d) + Len(t)
    BY <1>1, <1>2, <2>1, <2>2
  <2>6. d \o t = w
    BY <2>3, <2>4, <2>5, Glue
  <2> QED  BY <2>1, <2>2, <2>6
<1> QED  BY <1>1, <1>3, <1>4

(* Taking off m and then n is taking off m + n.                            *)
LEMMA DropDrop ==
    ASSUME NEW s \in Seq(Byte), NEW m \in Nat, NEW n \in Nat, m + n <= Len(s)
    PROVE  Drop(Drop(s, m), n) = Drop(s, m + n)
<1>1. PICK k \in Nat : k = m + n
  OBVIOUS
<1>2. Len(s) \in Nat /\ m <= Len(s) /\ k <= Len(s)
  BY <1>1
<1>3. PICK d \in Seq(Byte) : /\ d = Drop(s, m) /\ Len(d) = Len(s) - m
                             /\ \A i \in 1..(Len(s) - m) : d[i] = s[m + i]
  BY <1>2, DropFacts
<1>4. n <= Len(d)
  BY <1>1, <1>2, <1>3
<1>5. PICK v \in Seq(Byte) : /\ v = Drop(d, n) /\ Len(v) = Len(d) - n
                             /\ \A i \in 1..(Len(d) - n) : v[i] = d[n + i]
  BY <1>4, DropFacts
<1>6. PICK w \in Seq(Byte) : /\ w = Drop(s, k) /\ Len(w) = Len(s) - k
                             /\ \A i \in 1..(Len(s) - k) : w[i] = s[k + i]
  BY <1>2, DropFacts
<1>7. ASSUME NEW i \in 1..Len(v) PROVE v[i] = w[i]
  <2>1. /\ i \in 1..(Len(d) - n) /\ i \in 1..(Len(s) - k)
        /\ n + i \in 1..(Len(s) - m) /\ m + (n + i) = k + i
    BY <1>1, <1>2, <1>3, <1>5
  <2> QED  BY <1>3, <1>5, <1>6, <2>1
<1>8. Len(v) = Len(w)
  <2>1. Len(v) = Len(d) - n /\ Len(d) = Len(s) - m /\ Len(w) = Len(s) - k
    BY <1>3, <1>5, <1>6
  <2>2. Len(s) \in Int /\ m \in Int /\ n \in Int /\ k = m + n
    BY <1>1, <1>2
  <2> QED  BY <2>1, <2>2
<1>9. v = w
  BY <1>7, <1>8, SameBytes
<1> QED  BY <1>1, <1>3, <1>5, <1>6, <1>9

(* Bytes that move from one sequence to the end of another.                *)
LEMMA TakeBehind ==
    ASSUME NEW s \in Seq(Byte), NEW t \in Seq(Byte), NEW n \in Nat, n <= Len(t)
    PROVE  (s \o Take(t, n)) \o Drop(t, n) = s \o t
<1>1. PICK a \in Seq(Byte) : a = Take(t, n) /\ Len(a) = n /\ \A i \in 1..n : a[i] = t[i]
  BY TakeFacts
<1>2. PICK b \in Seq(Byte) : /\ b = Drop(t, n) /\ Len(b) = Len(t) - n
                             /\ \A i \in 1..(Len(t) - n) : b[i] = t[n + i]
  BY DropFacts
<1>3. Len(t) = Len(a) + Len(b)
  BY <1>1, <1>2
<1>4. a \o b = t
  <2>1. \A i \in 1..Len(a) : a[i] = t[i]
    BY <1>1
  <2>2. \A i \in 1..Len(b) : b[i] = t[Len(a) + i]
    BY <1>1, <1>2
  <2> QED  BY <1>3, <2>1, <2>2, Glue
<1>5. (s \o a) \o b = s \o (a \o b)
  BY ConcatAssociative
<1> QED  BY <1>1, <1>2, <1>4, <1>5

(* What is assumed of a frame, a mask key and the limits.                  *)
LEMMA FrameFacts ==
    ASSUME NEW f \in Frames
    PROVE  /\ f \in Frame
           /\ f.fin \in BOOLEAN /\ f.rsv \in 0..7 /\ f.opcode \in 0..15 /\ f.mask \in BOOLEAN
           /\ f.payload \in Seq(Byte) /\ Len(f.payload) \in Nat
           /\ Len(f.payload) < Radix8 \div 2
           /\ wslay_is_ctrl_frame(f.opcode) => f.fin /\ Len(f.payload) <= CtrlMax
<1>1. f \in Frame
  BY FrameRecvAssumption
<1>2. /\ Len(f.payload) < Radix8 \div 2
      /\ wslay_is_ctrl_frame(f.opcode) => f.fin /\ Len(f.payload) <= CtrlMax
  BY FrameRecvAssumption
<1>3. /\ f.fin \in BOOLEAN /\ f.rsv \in 0..7 /\ f.opcode \in 0..15 /\ f.mask \in BOOLEAN
      /\ f.payload \in Seq(Byte)
  BY <1>1 DEF Frame
<1>4. Len(f.payload) \in Nat
  BY <1>3
<1> QED  BY <1>1, <1>2, <1>3, <1>4

(* An array of n bytes is a sequence of that length.                       *)
LEMMA FunctionIsSeq ==
    ASSUME NEW n \in Nat, NEW s \in [ 1..n -> Byte ]
    PROVE  s \in Seq(Byte) /\ Len(s) = n
OBVIOUS

LEMMA KeyFacts ==
    ASSUME NEW key \in Keys
    PROVE  key \in [ 1..4 -> Byte ] /\ key \in Seq(Byte) /\ Len(key) = 4
<1>1. key \in [ 1..4 -> Byte ]
  BY FrameRecvAssumption
<1>2. key \in Seq(Byte) /\ Len(key) = 4
  BY <1>1, FunctionIsSeq
<1> QED  BY <1>1, <1>2

LEMMA LimitFacts ==
    /\ CtrlMax \in Nat /\ CtrlMax >= 2 /\ CtrlMax <= 125
    /\ Radix2 \in Nat /\ Radix8 \in Nat /\ Radix8 \div 2 \in Nat /\ Radix8 \div 2 <= Radix8
BY RadixPowers, FrameRecvAssumption, CtrlMaxAssumption

(* The shortest form of a length, as the parser reads it.                  *)
LengthRight(n, len) ==
    /\ len.len7 \in 0..127 /\ len.ext \in Seq(Byte) /\ Len(len.ext) = LengthBytes(n)
    /\ LengthBytes(n) = 0 => len.len7 = n /\ len.len7 <= CtrlMax
    /\ LengthBytes(n) = 2 => len.len7 = CtrlMax + 1
    /\ LengthBytes(n) = 8 => len.len7 = CtrlMax + 2
    /\ LengthBytes(n) # 0 => /\ be64toh(len.ext) = n
                             /\ ~IsBadLength(LengthBytes(n), n)
                             /\ n > CtrlMax

(* Every length a frame may have is written in its shortest form, and is   *)
(* not a bad length to the parser.                                         *)
LEMMA LengthForm ==
    ASSUME NEW n \in Nat, n < Radix8 \div 2
    PROVE  LengthBytes(n) \in {0, 2, 8} /\ LengthRight(n, LengthFields(n))
<1> USE LimitFacts
<1>1. ASSUME NEW k \in {2, 8}, k = 2 => n < Radix2
      PROVE  /\ Digits(n, k) \in Seq(Byte) /\ Len(Digits(n, k)) = k
             /\ be64toh(Digits(n, k)) = n
  <2>1. k = 8 => n < Radix8
    OBVIOUS
  <2>2. Digits(n, k) \in [ 1..k -> 0..(Radix - 1) ] /\ be64toh(Digits(n, k)) = n
    BY <1>1, <2>1, DigitsRight
  <2>3. 0..(Radix - 1) \subseteq Byte /\ k \in Nat
    BY RadixFacts DEF Byte
  <2> DEFINE d == Digits(n, k)
  <2> HIDE DEF d
  <2>4. d \in [ 1..k -> 0..(Radix - 1) ]
    BY <2>2 DEF d
  <2>5. d \in [ 1..k -> Byte ]
    BY <2>3, <2>4
  <2>6. d \in Seq(Byte) /\ Len(d) = k
    BY <2>3, <2>5
  <2> QED  BY <2>2, <2>6 DEF d
<1>2. CASE n <= CtrlMax
  <2>1. LengthBytes(n) = 0
    BY <1>2 DEF LengthBytes
  <2>2. LengthFields(n) = [ len7 |-> n, ext |-> << >> ]
    BY <2>1 DEF LengthFields
  <2>3. << >> \in Seq(Byte) /\ Len(<< >>) = 0
    OBVIOUS
  <2> QED  BY <1>2, <2>1, <2>2, <2>3 DEF LengthRight
<1>3. CASE ~(n <= CtrlMax) /\ n < Radix2
  <2>1. LengthBytes(n) = 2
    BY <1>3 DEF LengthBytes
  <2>2. LengthFields(n) = [ len7 |-> CtrlMax + 1, ext |-> Digits(n, 2) ]
    BY <2>1 DEF LengthFields
  <2>3. ~IsBadLength(2, n)
    BY <1>3 DEF IsBadLength
  <2>4. CtrlMax + 1 \in 0..127 /\ n > CtrlMax
    BY <1>3
  <2>5. Digits(n, 2) \in Seq(Byte) /\ Len(Digits(n, 2)) = 2 /\ be64toh(Digits(n, 2)) = n
    BY <1>1, <1>3
  <2> QED  BY <2>1, <2>2, <2>3, <2>4, <2>5 DEF LengthRight
<1>4. CASE ~(n <= CtrlMax) /\ ~(n < Radix2)
  <2>1. LengthBytes(n) = 8
    BY <1>4 DEF LengthBytes
  <2>2. LengthFields(n) = [ len7 |-> CtrlMax + 2, ext |-> Digits(n, 8) ]
    BY <2>1 DEF LengthFields
  <2>3. ~IsBadLength(8, n)
    BY <1>4 DEF IsBadLength
  <2>4. CtrlMax + 2 \in 0..127 /\ n > CtrlMax
    BY <1>4
  <2>5. Digits(n, 8) \in Seq(Byte) /\ Len(Digits(n, 8)) = 8 /\ be64toh(Digits(n, 8)) = n
    BY <1>1
  <2> QED  BY <2>1, <2>2, <2>3, <2>4, <2>5 DEF LengthRight
<1> QED  BY <1>2, <1>3, <1>4

-----------------------------------------------------------------------------

(* The payload on the wire, and what is behind the length.                 *)
WireBytes(f, key) ==
    IF ~f.mask THEN f.payload
    ELSE [ i \in 1..Len(f.payload) |-> Xor(f.payload[i], key[1 + ((i - 1) % 4)]) ]

Behind(f, key) == IF ~f.mask THEN f.payload ELSE key \o WireBytes(f, key)

Memo(f) == [ fin |-> f.fin, rsv |-> f.rsv, opcode |-> f.opcode ]

KeyByte(key, i) == key[1 + ((i - 1) % 4)]

(* Masked with the key, the payload has its length, and masked again it is *)
(* itself.                                                                 *)
LEMMA WireBytesFacts ==
    ASSUME NEW f \in Frames, NEW key \in Keys
    PROVE  /\ WireBytes(f, key) \in Seq(Byte)
           /\ Len(WireBytes(f, key)) = Len(f.payload)
           /\ \A i \in 1..Len(f.payload) :
                f.payload[i] = IF f.mask THEN Xor(WireBytes(f, key)[i], KeyByte(key, i))
                               ELSE WireBytes(f, key)[i]
<1> DEFINE n == Len(f.payload)
           w == WireBytes(f, key)
<1>1. f.payload \in Seq(Byte) /\ n \in Nat /\ f.mask \in BOOLEAN
      /\ \A i \in 1..n : f.payload[i] \in Byte
  BY FrameFacts
<1>2. ASSUME NEW i \in 1..n PROVE KeyByte(key, i) \in Byte
  <2>1. 1 + ((i - 1) % 4) \in 1..4
    OBVIOUS
  <2> QED  BY <2>1, KeyFacts DEF KeyByte
<1>3. ASSUME NEW i \in 1..n
      PROVE  /\ Xor(f.payload[i], KeyByte(key, i)) \in Byte
             /\ Xor(Xor(f.payload[i], KeyByte(key, i)), KeyByte(key, i)) = f.payload[i]
  BY <1>1, <1>2, XorTwice
<1>4. CASE f.mask
  <2>1. w = [ i \in 1..n |-> Xor(f.payload[i], KeyByte(key, i)) ]
    BY <1>4, Zenon DEF WireBytes, KeyByte
  <2> HIDE DEF w, n
  <2>2. w \in [ 1..n -> Byte ] /\ \A i \in 1..n : w[i] = Xor(f.payload[i], KeyByte(key, i))
    BY <1>3, <2>1
  <2>3. w \in Seq(Byte) /\ Len(w) = n
    BY <1>1, <2>2
  <2>4. \A i \in 1..n : f.payload[i] = Xor(w[i], KeyByte(key, i))
    BY <1>3, <2>2
  <2> QED  BY <1>4, <2>3, <2>4 DEF w, n
<1>5. CASE ~f.mask
  <2>1. w = f.payload
    BY <1>5 DEF WireBytes
  <2> QED  BY <1>1, <1>5, <2>1
<1> QED  BY <1>4, <1>5

(* A frame as the parser meets it.                                         *)
LEMMA EncodeFacts ==
    ASSUME NEW f \in Frames, NEW key \in Keys
    PROVE  LET e == Encode(f, key)
               len == LengthFields(Len(f.payload))
           IN  /\ e \in Seq(Byte) /\ Len(e) >= 2
               /\ OpcodeMemo(e[1]) = Memo(f)
               /\ e[2] % 128 = len.len7 /\ (e[2] \div 128 = 1) = f.mask
               /\ len.ext \in Seq(Byte) /\ Behind(f, key) \in Seq(Byte)
               /\ Drop(e, 2) = len.ext \o Behind(f, key)
<1> DEFINE len == LengthFields(Len(f.payload))
           b1 == FirstByte(f.fin, f.rsv, f.opcode)
           b2 == SecondByte(f.mask, len.len7)
           rest == len.ext \o Behind(f, key)
<1>1. Encode(f, key) = (<< b1, b2 >> \o len.ext) \o Behind(f, key)
  BY Zenon DEF Encode, Behind, WireBytes, FirstByte, SecondByte
<1>2. /\ f.fin \in BOOLEAN /\ f.rsv \in 0..7 /\ f.opcode \in 0..15 /\ f.mask \in BOOLEAN
      /\ f.payload \in Seq(Byte) /\ Len(f.payload) \in Nat
      /\ Len(f.payload) < Radix8 \div 2
  BY FrameFacts
<1>3. len.len7 \in 0..127 /\ len.ext \in Seq(Byte)
  BY <1>2, LengthForm DEF LengthRight
<1> HIDE DEF len
<1>4. b1 \in Byte /\ OpcodeMemo(b1) = Memo(f)
  BY <1>2, HeadBits DEF Memo
<1>5. b2 \in Byte /\ b2 % 128 = len.len7 /\ (b2 \div 128 = 1) = f.mask
  BY <1>2, <1>3, LengthBits
<1> HIDE DEF b1, b2
<1>6. Behind(f, key) \in Seq(Byte)
  <2>1. WireBytes(f, key) \in Seq(Byte) /\ key \in Seq(Byte)
    BY WireBytesFacts, KeyFacts
  <2>2. key \o WireBytes(f, key) \in Seq(Byte)
    BY <2>1, Concat
  <2> QED  BY <1>2, <2>2 DEF Behind
<1>7. PICK h \in Seq(Byte) : h = << b1, b2 >> /\ Len(h) = 2 /\ h[1] = b1 /\ h[2] = b2
  <2>1. << b1, b2 >> \in Seq(Byte)
    BY <1>4, <1>5
  <2> QED  BY <2>1
<1>8. rest \in Seq(Byte)
  BY <1>3, <1>6, Concat
<1>9. Encode(f, key) = h \o rest
  <2>1. PICK x \in Seq(Byte), y \in Seq(Byte) : x = len.ext /\ y = Behind(f, key)
    BY <1>3, <1>6
  <2>2. (h \o x) \o y = h \o (x \o y)
    BY ConcatAssociative
  <2> QED  BY <1>1, <1>7, <2>1, <2>2
<1> HIDE DEF rest
<1>10. PICK e \in Seq(Byte) : /\ e = h \o rest /\ Len(e) = Len(h) + Len(rest)
                              /\ \A i \in 1..Len(h) : e[i] = h[i]
  BY <1>8, Concat
<1>11. e[1] = b1 /\ e[2] = b2 /\ Len(e) >= 2
  BY <1>7, <1>8, <1>10
<1>12. Drop(e, 2) = rest
  BY <1>7, <1>8, <1>10, DropConcat
<1>13. e = Encode(f, key)
  BY <1>9, <1>10
<1> QED
  BY <1>3, <1>4, <1>5, <1>6, <1>11, <1>12, <1>13 DEF rest, len

(* g[d] is what the peer sends after the d-th frame.                       *)
IsRest(g, p, key, head) ==
    /\ g \in [ 0..Len(p) -> Seq(Byte) ]
    /\ g[Len(p)] = head
    /\ \A d \in 0..(Len(p) - 1) : g[d] = Encode(p[d + 1], key) \o g[d + 1]

Before(key) == [ q \in Seq(Byte) \X Frames |-> Encode(q[2], key) \o q[1] ]
After(key) == [ q \in Seq(Byte) \X Frames |-> q[1] \o Encode(q[2], key) ]

(* A frame put before what follows, and behind what precedes: both are     *)
(* steps of a fold.                                                        *)
LEMMA StepFacts ==
    ASSUME NEW key \in Keys
    PROVE  /\ Before(key) \in Steps(Seq(Byte), Frames)
           /\ After(key) \in Steps(Seq(Byte), Frames)
           /\ \A s \in Seq(Byte), f \in Frames :
                /\ Before(key)[<< s, f >>] = Encode(f, key) \o s
                /\ After(key)[<< s, f >>] = s \o Encode(f, key)
                /\ Encode(f, key) \in Seq(Byte)
<1>1. ASSUME NEW s \in Seq(Byte), NEW f \in Frames
      PROVE  /\ Encode(f, key) \in Seq(Byte)
             /\ Encode(f, key) \o s \in Seq(Byte)
             /\ s \o Encode(f, key) \in Seq(Byte)
  <2>1. PICK e \in Seq(Byte) : e = Encode(f, key)
    BY EncodeFacts
  <2>2. e \o s \in Seq(Byte) /\ s \o e \in Seq(Byte)
    BY Concat
  <2> QED  BY <2>1, <2>2
<1>2. ASSUME NEW q \in Seq(Byte) \X Frames
      PROVE  Before(key)[q] \in Seq(Byte) /\ After(key)[q] \in Seq(Byte)
  <2>1. q[1] \in Seq(Byte) /\ q[2] \in Frames
    OBVIOUS
  <2>2. Encode(q[2], key) \o q[1] \in Seq(Byte) /\ q[1] \o Encode(q[2], key) \in Seq(Byte)
    BY <1>1, <2>1
  <2> QED  BY <2>2 DEF Before, After
<1>3. Before(key) \in Steps(Seq(Byte), Frames) /\ After(key) \in Steps(Seq(Byte), Frames)
  BY <1>2 DEF Steps, Before, After
<1>4. ASSUME NEW s \in Seq(Byte), NEW f \in Frames
      PROVE  /\ Before(key)[<< s, f >>] = Encode(f, key) \o s
             /\ After(key)[<< s, f >>] = s \o Encode(f, key)
  BY DEF Before, After
<1> QED  BY <1>1, <1>3, <1>4

(* What is sent after each frame exists: a fold from the last frame to the *)
(* first.                                                                  *)
LEMMA RestExists ==
    ASSUME NEW p \in Seq(Frames), NEW key \in Keys, NEW head \in Seq(Byte)
    PROVE  \E g : IsRest(g, p, key, head)
<1> DEFINE n == Len(p)
           r == [ i \in 1..n |-> p[n + 1 - i] ]
<1>1. n \in Nat /\ \A i \in 1..n : p[i] \in Frames
  OBVIOUS
<1>2. r \in Seq(Frames) /\ Len(r) = n /\ \A i \in 1..n : r[i] = p[n + 1 - i]
  BY <1>1
<1> HIDE DEF r
<1>3. PICK f \in [ 0..Len(r) -> Seq(Byte) ] : IsFold(f, head, Before(key), r)
  BY <1>2, StepFacts, FoldExists
<1>4. f \in [ 0..n -> Seq(Byte) ] /\ f[0] = head
      /\ \A i \in 1..n : f[i] = Before(key)[<< f[i - 1], r[i] >>]
  BY <1>2, <1>3 DEF IsFold
<1> DEFINE g == [ d \in 0..n |-> f[n - d] ]
<1> HIDE DEF n
<1>5. g \in [ 0..n -> Seq(Byte) ] /\ \A d \in 0..n : g[d] = f[n - d]
  <2>1. \A d \in 0..n : n - d \in 0..n
    BY <1>1
  <2> QED  BY <1>4, <2>1
<1> HIDE DEF g
<1>6. g[n] = head
  <2>1. n \in 0..n /\ n - n = 0
    BY <1>1
  <2> QED  BY <1>4, <1>5, <2>1
<1>7. ASSUME NEW d \in 0..(n - 1) PROVE g[d] = Encode(p[d + 1], key) \o g[d + 1]
  <2>1. /\ d \in 0..n /\ d + 1 \in 0..n /\ n - d \in 1..n
        /\ (n - d) - 1 = n - (d + 1) /\ n + 1 - (n - d) = d + 1 /\ d + 1 \in 1..n
        /\ n - (d + 1) \in 0..n
    BY <1>1
  <2>2. f[n - d] = Before(key)[<< f[n - (d + 1)], r[n - d] >>]
    BY <1>4, <2>1
  <2>3. r[n - d] = p[d + 1] /\ p[d + 1] \in Frames /\ f[n - (d + 1)] \in Seq(Byte)
    BY <1>1, <1>2, <1>4, <2>1
  <2>4. f[n - d] = Encode(p[d + 1], key) \o f[n - (d + 1)]
    <3>1. PICK rest \in Seq(Byte), h \in Frames :
                 rest = f[n - (d + 1)] /\ h = p[d + 1]
      BY <2>3, Zenon
    <3>2. Before(key)[<< rest, h >>] = Encode(h, key) \o rest
      BY StepFacts
    <3> QED  BY <2>2, <2>3, <3>1, <3>2, Zenon
  <2> QED  BY <1>5, <2>1, <2>4
<1>8. IsRest(g, p, key, head)
  BY <1>5, <1>6, <1>7 DEF IsRest, n
<1> QED  BY <1>8

(* PeerStream is a fold.                                                   *)
LEMMA StreamFolds ==
    ASSUME NEW p \in Seq(Frames), NEW key \in Keys, NEW head \in Seq(Byte)
    PROVE  \E f \in [ 0..Len(p) -> Seq(Byte) ] :
             /\ f[0] = << >>
             /\ \A i \in 1..Len(p) : f[i] = f[i - 1] \o Encode(p[i], key)
             /\ PeerStream(p, key, head) = f[Len(p)] \o head
<1> DEFINE n == Len(p)
           Longer(f, i) == f[i - 1] \o Encode(p[i], key)
           Walk(f) == [ i \in 0..n |-> IF i = 0 THEN << >> ELSE Longer(f, i) ]
           at == CHOOSE f : f = Walk(f)
           empty == << >>
<1>1. n \in Nat /\ \A i \in 1..n : p[i] \in Frames
  OBVIOUS
<1>2. After(key) \in Steps(Seq(Byte), Frames) /\ empty \in Seq(Byte)
  BY StepFacts
<1>3. PICK f \in [ 0..n -> Seq(Byte) ] : IsFold(f, empty, After(key), p)
  BY <1>2, FoldExists
<1>4. f[0] = << >>
  BY <1>3 DEF IsFold
<1>5. \A i \in 1..n : i - 1 \in 0..n /\ f[i] = Longer(f, i)
  <2> SUFFICES ASSUME NEW i \in 1..n PROVE i - 1 \in 0..n /\ f[i] = Longer(f, i)
    OBVIOUS
  <2>1. i - 1 \in 0..n /\ p[i] \in Frames
    BY <1>1
  <2>2. f[i - 1] \in Seq(Byte)
    BY <2>1
  <2>3. f[i] = After(key)[<< f[i - 1], p[i] >>]
    BY <1>3 DEF IsFold
  <2> QED
    BY <2>1, <2>2, <2>3, StepFacts
<1>6. PeerStream(p, key, head) = at[n] \o head
  BY Zenon DEF PeerStream
<1>7. ASSUME NEW i \in 1..n, at[i - 1] = f[i - 1] PROVE Longer(at, i) = Longer(f, i)
  <2> HIDE DEF at
  <2> QED  BY <1>7, Zenon
<1> HIDE DEF Longer
<1>8. f = Walk(f)
  <2>1. \A i \in 0..n : f[i] = Walk(f)[i]
    BY <1>1, <1>4, <1>5
  <2> QED
    BY <2>1
<1>9. at = Walk(at)
  BY <1>8, Zenon
<1> HIDE DEF at
<1>10. at[n] = f[n]
  <2> DEFINE Same == { i \in 0..n : at[i] = f[i] }
  <2>1. 0 \in Same
    BY <1>1, <1>4, <1>9
  <2>2. ASSUME NEW i \in 1..n, i - 1 \in Same PROVE i \in Same
    <3>1. at[i - 1] = f[i - 1]
      BY <2>2
    <3>2. i \in 0..n /\ i # 0
      BY <1>1
    <3>3. at[i] = Longer(at, i)
      <4>1. Walk(at)[i] = Longer(at, i)
        BY <3>2
      <4> QED  BY <4>1, <1>9, Zenon
    <3> QED
      BY <1>1, <1>5, <1>7, <3>1, <3>2, <3>3
  <2>3. \A i \in 0..n : i \in Same
    <3> HIDE DEF Same
    <3> QED
      BY <1>1, <2>1, <2>2, InductionUpTo
  <2> QED
    BY <1>1, <2>3
<1>11. PeerStream(p, key, head) = f[n] \o head
  BY <1>6, <1>10
<1> QED
  BY <1>3, <1>4, <1>5, <1>11, Zenon DEF Longer

(* The whole stream is what comes after no frame.                          *)
LEMMA StreamIsRest ==
    ASSUME NEW p \in Seq(Frames), NEW key \in Keys, NEW head \in Seq(Byte)
    PROVE  \E g : IsRest(g, p, key, head) /\ g[0] = PeerStream(p, key, head)
<1> DEFINE n == Len(p)
<1>1. n \in Nat /\ \A i \in 1..n : p[i] \in Frames
  OBVIOUS
<1>2. PICK g : IsRest(g, p, key, head)
  BY RestExists
<1>3. /\ g \in [ 0..n -> Seq(Byte) ] /\ g[n] = head
      /\ \A d \in 0..(n - 1) : g[d] = Encode(p[d + 1], key) \o g[d + 1]
  BY <1>2 DEF IsRest
<1>4. PICK f \in [ 0..n -> Seq(Byte) ] :
             /\ f[0] = << >>
             /\ \A i \in 1..n : f[i] = f[i - 1] \o Encode(p[i], key)
             /\ PeerStream(p, key, head) = f[n] \o head
  BY StreamFolds
<1> HIDE DEF n
<1> DEFINE Same == { i \in 0..n : f[i] \o g[i] = g[0] }
<1>5. 0 \in Same
  <2>1. g[0] \in Seq(Byte)
    BY <1>1, <1>3
  <2>2. << >> \o g[0] = g[0]
    BY <2>1, ConcatEmptySeq
  <2>3. f[0] \o g[0] = g[0]
    BY <1>4, <2>2, Zenon
  <2>4. 0 \in 0..n
    BY <1>1
  <2> QED  BY <2>3, <2>4, Zenon
<1>6. ASSUME NEW i \in 1..n, i - 1 \in Same PROVE i \in Same
  <2>1. i - 1 \in 0..(n - 1) /\ (i - 1) + 1 = i /\ i \in 0..n /\ i - 1 \in 0..n
    BY <1>1
  <2>2. g[i - 1] = Encode(p[i], key) \o g[i]
    BY <1>3, <2>1
  <2>3. PICK a \in Seq(Byte), e \in Seq(Byte), b \in Seq(Byte) :
          a = f[i - 1] /\ e = Encode(p[i], key) /\ b = g[i]
    BY <1>1, <1>3, <1>4, <2>1, StepFacts
  <2>4. (a \o e) \o b = a \o (e \o b)
    BY ConcatAssociative
  <2>5. f[i] \o g[i] = f[i - 1] \o g[i - 1]
    BY <1>4, <2>2, <2>3, <2>4
  <2> QED  BY <1>6, <2>1, <2>5
<1>7. n \in Same
  <2> HIDE DEF Same
  <2>1. \A i \in 0..n : i \in Same
    BY <1>1, <1>5, <1>6, InductionUpTo
  <2> QED  BY <1>1, <2>1
<1>8. PeerStream(p, key, head) = g[0]
  BY <1>3, <1>4, <1>7
<1> QED  BY <1>2, <1>8

-----------------------------------------------------------------------------
(* The buffer *)

(* Two contexts in the same place of the parse: only their buffers differ. *)
SameParse(c, e) ==
    /\ e.istate = c.istate /\ e.ireqread = c.ireqread /\ e.iom = c.iom
    /\ e.imask = c.imask /\ e.imaskkey = c.imaskkey
    /\ e.ipayloadlen = c.ipayloadlen /\ e.ipayloadoff = c.ipayloadoff

(* The types of a context's fields.                                        *)
LEMMA CtxFacts ==
    ASSUME NEW c \in Ctx
    PROVE  /\ c.ibuf \in Seq(Byte) /\ Len(c.ibuf) \in Nat /\ c.mark \in Nat
           /\ c.istate \in IState /\ c.ireqread \in {2, 4, 8} /\ c.imask \in BOOLEAN
           /\ c.ipayloadlen \in Nat /\ c.ipayloadoff \in Nat
           /\ c.imaskkey \in [ 1..4 -> Byte ]
           /\ c.iom \in [ fin : BOOLEAN, rsv : 0..7, opcode : 0..15 ]
<1>1. c.ibuf \in Seq(Byte) /\ c.mark \in Nat
  BY DEF Ctx
<1>2. /\ c.istate \in IState /\ c.ireqread \in {2, 4, 8} /\ c.imask \in BOOLEAN
      /\ c.ipayloadlen \in Nat /\ c.ipayloadoff \in Nat
      /\ c.imaskkey \in [ 1..4 -> Byte ]
      /\ c.iom \in [ fin : BOOLEAN, rsv : 0..7, opcode : 0..15 ]
  BY DEF Ctx
<1>3. Len(c.ibuf) \in Nat
  BY <1>1
<1> QED  BY <1>1, <1>2, <1>3

Rebuffer(c, b, m) == [ c EXCEPT !.ibuf = b, !.mark = m ]

IsRebuffer(c, b, m, e) ==
    e \in Ctx /\ SameParse(c, e) /\ e.ibuf = b /\ e.mark = m

(* A context with its buffer replaced.                                     *)
LEMMA Rebuffered ==
    ASSUME NEW c \in Ctx, NEW b \in Seq(Byte), NEW m \in Nat
    PROVE  IsRebuffer(c, b, m, Rebuffer(c, b, m))
<1>1. Rebuffer(c, b, m) \in Ctx
  BY DEF Ctx, Rebuffer
<1>2. SameParse(c, Rebuffer(c, b, m))
  BY DEF Ctx, SameParse, Rebuffer
<1>3. Rebuffer(c, b, m).ibuf = b /\ Rebuffer(c, b, m).mark = m
  BY DEF Ctx, Rebuffer
<1> QED  BY <1>1, <1>2, <1>3 DEF IsRebuffer

IsAdvance(c, n, e) ==
    /\ e \in Ctx /\ SameParse(c, e)
    /\ e.ibuf = Drop(c.ibuf, n) /\ e.mark + Len(e.ibuf) = c.mark + Len(c.ibuf)

(* Advance takes n bytes off the buffer and changes nothing else.          *)
LEMMA AdvanceFacts ==
    ASSUME NEW c \in Ctx, NEW n \in Nat, n <= Len(c.ibuf)
    PROVE  IsAdvance(c, n, Advance(c, n))
<1>1. c.ibuf \in Seq(Byte) /\ c.mark \in Nat /\ Len(c.ibuf) \in Nat
  BY CtxFacts
<1>2. PICK b \in Seq(Byte) : b = Drop(c.ibuf, n) /\ Len(b) = Len(c.ibuf) - n
  BY <1>1, DropFacts
<1>3. PICK m \in Nat : m = c.mark + n
  BY <1>1
<1>4. Advance(c, n) = Rebuffer(c, b, m)
  BY <1>2, <1>3 DEF Advance, Drop, Rebuffer
<1>5. IsRebuffer(c, b, m, Advance(c, n))
  BY <1>4, Rebuffered
<1>6. m + Len(b) = c.mark + Len(c.ibuf)
  BY <1>1, <1>2, <1>3
<1> QED  BY <1>2, <1>3, <1>5, <1>6 DEF IsRebuffer, IsAdvance

-----------------------------------------------------------------------------
(* A call under way *)

Calls == [ ctx : Ctx, stream : Seq(Byte), asked : Nat, iocb : Iocb,
           result : {0, WSLAY_ERR_WANT_READ, WSLAY_ERR_PROTO}, failed : BOOLEAN,
           returned : BOOLEAN ]

Left(o) == o.ctx.ibuf \o o.stream

(* The buffer is not overrun, and recv_callback not asked for nothing.     *)
InBounds(o) == o.ctx.mark + Len(o.ctx.ibuf) <= IBufSize /\ o.asked >= 1

(* Nothing but reading happened between o and p.                           *)
Reads(o, p) ==
    /\ p \in Calls /\ InBounds(p)
    /\ SameParse(o.ctx, p.ctx) /\ Left(p) = Left(o)
    /\ p.iocb = o.iocb

(* wslay_recv reads, or fails.                                             *)
LEMMA RecvReads ==
    ASSUME NEW o \in Calls, InBounds(o), Len(o.ctx.ibuf) < IBufSize, NEW p \in wslay_recv(o)
    PROVE  /\ Reads(o, p)
           /\ \/ /\ p.result = o.result /\ p.failed = o.failed /\ p.returned = o.returned
                 /\ Len(p.ctx.ibuf) > Len(o.ctx.ibuf)
              \/ /\ p.result = WSLAY_ERR_WANT_READ /\ p.failed /\ p.returned
                 /\ p.ctx.ibuf = o.ctx.ibuf
<1> DEFINE c == [ o.ctx EXCEPT !.mark = 0 ]
           room == IBufSize - (c.mark + Len(c.ibuf))
           Got(n) == [ o EXCEPT !.ctx = [ c EXCEPT !.ibuf = @ \o Take(o.stream, n) ],
                                !.stream = Drop(o.stream, n), !.asked = room ]
           none == Return([ o EXCEPT !.ctx = c, !.asked = room, !.failed = TRUE ],
                          WSLAY_ERR_WANT_READ)
<1>1. (\E n \in 1..Len(o.stream) : n <= room /\ p = Got(n)) \/ p = none
  BY DEF wslay_recv, wslay_shift_ibuf, Take, Drop
<1>2. /\ o.ctx \in Ctx /\ o.stream \in Seq(Byte) /\ Len(o.stream) \in Nat
      /\ o.ctx.ibuf \in Seq(Byte) /\ Len(o.ctx.ibuf) \in Nat
  BY CtxFacts DEF Calls
<1>3. IBufSize \in Nat
  BY FrameRecvAssumption
<1>4. c.ibuf = o.ctx.ibuf /\ c.mark = 0 /\ c = Rebuffer(o.ctx, o.ctx.ibuf, 0)
  BY <1>2 DEF Ctx, Rebuffer
<1>5. PICK size \in Nat : size = room /\ size = IBufSize - Len(o.ctx.ibuf) /\ size >= 1
  BY <1>2, <1>3, <1>4
<1>6. ASSUME NEW n \in 1..Len(o.stream), n <= room, p = Got(n)
      PROVE  /\ Reads(o, p)
             /\ p.result = o.result /\ p.failed = o.failed /\ p.returned = o.returned
             /\ Len(p.ctx.ibuf) > Len(o.ctx.ibuf)
  <2>1. PICK t \in Seq(Byte) : t = Take(o.stream, n) /\ Len(t) = n
    BY <1>2, TakeFacts
  <2>2. PICK s \in Seq(Byte) : s = Drop(o.stream, n)
    BY <1>2, DropFacts
  <2>3. PICK b \in Seq(Byte) : b = o.ctx.ibuf \o t /\ Len(b) = Len(o.ctx.ibuf) + Len(t)
    BY <1>2, Concat
  <2>4. b \o s = o.ctx.ibuf \o o.stream
    <3>1. PICK x \in Seq(Byte), y \in Seq(Byte), k \in Nat :
            x = o.ctx.ibuf /\ y = o.stream /\ k = n /\ k <= Len(y)
      BY <1>2
    <3>2. (x \o Take(y, k)) \o Drop(y, k) = x \o y
      BY <3>1, TakeBehind
    <3> QED  BY <2>1, <2>2, <2>3, <3>1, <3>2
  <2>5. PICK e : e = Rebuffer(o.ctx, b, 0)
    OBVIOUS
  <2>6. e \in Ctx /\ SameParse(o.ctx, e) /\ e.ibuf = b /\ e.mark = 0
    <3>1. IsRebuffer(o.ctx, b, 0, Rebuffer(o.ctx, b, 0))
      BY <1>2, Rebuffered
    <3> QED  BY <2>5, <3>1 DEF IsRebuffer
  <2>7. [ c EXCEPT !.ibuf = @ \o Take(o.stream, n) ] = e
    BY <1>2, <1>4, <2>1, <2>3, <2>5 DEF Ctx, Rebuffer
  <2>8. p = [ o EXCEPT !.ctx = e, !.stream = s, !.asked = size ]
    BY <1>5, <1>6, <2>2, <2>7
  <2>9. /\ p \in Calls /\ p.ctx = e /\ p.stream = s /\ p.asked = size /\ p.iocb = o.iocb
        /\ p.result = o.result /\ p.failed = o.failed /\ p.returned = o.returned
    BY <2>6, <2>8 DEF Calls
  <2>10. Len(b) > Len(o.ctx.ibuf) /\ Len(b) <= IBufSize
    BY <1>2, <1>3, <1>5, <1>6, <2>1, <2>3
  <2>11. Left(p) = Left(o)
    BY <2>4, <2>6, <2>9 DEF Left
  <2>12. InBounds(p)
    BY <1>3, <1>5, <2>6, <2>9, <2>10, Lengths DEF InBounds
  <2> QED  BY <2>6, <2>9, <2>10, <2>11, <2>12 DEF Reads
<1>7. ASSUME p = none
      PROVE  /\ Reads(o, p)
             /\ p.result = WSLAY_ERR_WANT_READ /\ p.failed /\ p.returned
             /\ p.ctx.ibuf = o.ctx.ibuf
  <2>1. PICK e : e = c
    OBVIOUS
  <2>2. e \in Ctx /\ SameParse(o.ctx, e) /\ e.ibuf = o.ctx.ibuf /\ e.mark = 0
    <3>1. IsRebuffer(o.ctx, o.ctx.ibuf, 0, Rebuffer(o.ctx, o.ctx.ibuf, 0))
      BY <1>2, Rebuffered
    <3> QED  BY <1>4, <2>1, <3>1 DEF IsRebuffer
  <2>3. p = [ o EXCEPT !.ctx = e, !.asked = size, !.failed = TRUE,
                       !.result = WSLAY_ERR_WANT_READ, !.returned = TRUE ]
    BY <1>5, <1>7, <2>1 DEF Return, Calls
  <2>4. /\ p \in Calls /\ p.ctx = e /\ p.stream = o.stream /\ p.asked = size /\ p.iocb = o.iocb
        /\ p.result = WSLAY_ERR_WANT_READ /\ p.failed /\ p.returned
    BY <2>2, <2>3 DEF Calls
  <2>5. Left(p) = Left(o)
    BY <2>2, <2>4 DEF Left
  <2>6. InBounds(p)
    BY <1>2, <1>3, <1>5, <2>2, <2>4 DEF InBounds
  <2> QED  BY <2>2, <2>4, <2>5, <2>6 DEF Reads
<1> QED  BY <1>1, <1>6, <1>7

(* A stage that needs ireqread bytes has them, or returns.                 *)
LEMMA RequireReads ==
    ASSUME NEW o \in Calls, InBounds(o), ~o.returned, ~o.failed, o.result = 0,
           NEW p \in Require(o)
    PROVE  /\ Reads(o, p)
           /\ \/ /\ ~p.returned /\ ~p.failed /\ p.result = 0
                 /\ Len(p.ctx.ibuf) >= p.ctx.ireqread
              \/ /\ p.returned /\ p.result = WSLAY_ERR_WANT_READ
                 /\ Len(p.ctx.ibuf) < p.ctx.ireqread
<1>1. /\ o.ctx \in Ctx /\ o.ctx.ibuf \in Seq(Byte) /\ Len(o.ctx.ibuf) \in Nat
      /\ o.ctx.ireqread \in {2, 4, 8}
  BY CtxFacts DEF Calls
<1>2. CASE Len(o.ctx.ibuf) >= o.ctx.ireqread
  <2>1. p = o
    BY <1>2 DEF Require
  <2>2. Reads(o, p)
    BY <2>1 DEF Reads, SameParse
  <2> QED  BY <1>2, <2>1, <2>2
<1>3. CASE ~(Len(o.ctx.ibuf) >= o.ctx.ireqread)
  <2>1. PICK q \in wslay_recv(o) :
          p = IF q.returned \/ Len(q.ctx.ibuf) >= q.ctx.ireqread THEN q
              ELSE Return(q, WSLAY_ERR_WANT_READ)
    BY <1>3 DEF Require
  <2>2. Len(o.ctx.ibuf) < IBufSize
    BY <1>1, <1>3, FrameRecvAssumption
  <2>3. /\ Reads(o, q)
        /\ \/ ~q.returned /\ ~q.failed /\ q.result = 0
           \/ /\ q.result = WSLAY_ERR_WANT_READ /\ q.returned
              /\ q.ctx.ibuf = o.ctx.ibuf
    BY <2>2, RecvReads
  <2>4. q \in Calls /\ q.ctx.ireqread = o.ctx.ireqread
    BY <2>3 DEF Reads, SameParse
  <2>5. Len(q.ctx.ibuf) \in Nat
    BY <2>4, CtxFacts DEF Calls
  <2>6. CASE q.returned
    <3>1. p = q
      BY <2>1, <2>6
    <3> QED  BY <1>1, <1>3, <2>3, <2>4, <2>5, <2>6, <3>1
  <2>7. CASE ~q.returned /\ Len(q.ctx.ibuf) >= q.ctx.ireqread
    <3>1. p = q
      BY <2>1, <2>7
    <3> QED  BY <2>3, <2>7, <3>1
  <2>8. CASE ~q.returned /\ ~(Len(q.ctx.ibuf) >= q.ctx.ireqread)
    <3>1. p = [ q EXCEPT !.result = WSLAY_ERR_WANT_READ, !.returned = TRUE ]
      BY <2>1, <2>8 DEF Return
    <3>2. /\ p \in Calls /\ p.ctx = q.ctx /\ p.stream = q.stream /\ p.asked = q.asked
          /\ p.iocb = q.iocb /\ p.returned /\ p.result = WSLAY_ERR_WANT_READ
      BY <2>4, <3>1 DEF Calls
    <3>3. Reads(o, p)
      BY <2>3, <3>2 DEF Reads, Left, InBounds
    <3> QED  BY <1>1, <2>4, <2>5, <2>8, <3>2, <3>3
  <2> QED  BY <2>6, <2>7, <2>8
<1> QED  BY <1>2, <1>3

-----------------------------------------------------------------------------
(* Records with some fields changed.  What is said of them is behind a     *)
(* name of its own.                                                        *)
Reparse(c, istate, ireqread, iom, imask, imaskkey, len, off) ==
    [ c EXCEPT !.istate = istate, !.ireqread = ireqread, !.iom = iom, !.imask = imask,
               !.imaskkey = imaskkey, !.ipayloadlen = len, !.ipayloadoff = off ]

IsReparse(c, istate, ireqread, iom, imask, imaskkey, len, off, e) ==
    /\ e \in Ctx /\ e.ibuf = c.ibuf /\ e.mark = c.mark
    /\ e.istate = istate /\ e.ireqread = ireqread /\ e.iom = iom
    /\ e.imask = imask /\ e.imaskkey = imaskkey
    /\ e.ipayloadlen = len /\ e.ipayloadoff = off

(* A context with its parse replaced.                                      *)
LEMMA Reparsed ==
    ASSUME NEW c \in Ctx, NEW istate \in IState, NEW ireqread \in {2, 4, 8},
           NEW iom \in [ fin : BOOLEAN, rsv : 0..7, opcode : 0..15 ], NEW imask \in BOOLEAN,
           NEW imaskkey \in [ 1..4 -> Byte ], NEW len \in Nat, NEW off \in Nat
    PROVE  IsReparse(c, istate, ireqread, iom, imask, imaskkey, len, off,
                     Reparse(c, istate, ireqread, iom, imask, imaskkey, len, off))
<1> DEFINE e == Reparse(c, istate, ireqread, iom, imask, imaskkey, len, off)
<1>1. e \in Ctx
  BY DEF Ctx, Reparse
<1>2. e.ibuf = c.ibuf /\ e.mark = c.mark
  BY DEF Ctx, Reparse
<1>3. /\ e.istate = istate /\ e.ireqread = ireqread /\ e.iom = iom
      /\ e.imask = imask /\ e.imaskkey = imaskkey
      /\ e.ipayloadlen = len /\ e.ipayloadoff = off
  BY DEF Ctx, Reparse
<1> QED  BY <1>1, <1>2, <1>3 DEF IsReparse

Results == {0, WSLAY_ERR_WANT_READ, WSLAY_ERR_PROTO}

Become(o, c, result, returned) ==
    [ o EXCEPT !.ctx = c, !.result = result, !.returned = returned ]

IsBecome(o, c, result, returned, p) ==
    /\ p \in Calls /\ p.ctx = c /\ p.result = result /\ p.returned = returned
    /\ p.stream = o.stream /\ p.asked = o.asked /\ p.iocb = o.iocb /\ p.failed = o.failed

(* A call with its context and result replaced.                            *)
LEMMA Became ==
    ASSUME NEW o \in Calls, NEW c \in Ctx, NEW result \in Results, NEW returned \in BOOLEAN
    PROVE  IsBecome(o, c, result, returned, Become(o, c, result, returned))
<1> DEFINE p == Become(o, c, result, returned)
<1>1. p \in Calls
  BY DEF Calls, Become, Results
<1>2. /\ p.ctx = c /\ p.result = result /\ p.returned = returned
      /\ p.stream = o.stream /\ p.asked = o.asked /\ p.iocb = o.iocb /\ p.failed = o.failed
  BY DEF Calls, Become
<1> QED  BY <1>1, <1>2 DEF IsBecome

(* The types of a call's fields.                                           *)
LEMMA CallFacts ==
    ASSUME NEW o \in Calls
    PROVE  /\ o.ctx \in Ctx /\ o.stream \in Seq(Byte) /\ o.asked \in Nat /\ o.iocb \in Iocb
           /\ o.result \in Results /\ o.failed \in BOOLEAN /\ o.returned \in BOOLEAN
BY DEF Calls, Results

-----------------------------------------------------------------------------
(* Where the parser is *)

(* The frames of the peer, its mask key, the head behind them, and what it *)
(* sends after each frame.                                                 *)
IsPeer(w) ==
    /\ w.peer \in Seq(Frames) /\ w.key \in Keys /\ w.head \in Heads \cup {<< >>}
    /\ IsRest(w.rest, w.peer, w.key, w.head)

(* The types of what the peer sends.                                       *)
LEMMA HeadType ==
    ASSUME NEW w, IsPeer(w)
    PROVE  /\ w.head \in Seq(Byte)
           /\ w.head # << >> => IsMalformed(w.head)
           /\ Len(w.peer) \in Nat
           /\ w.key \in Keys
<1>1. w.peer \in Seq(Frames) /\ w.key \in Keys /\ w.head \in Heads \cup {<< >>}
  BY DEF IsPeer
<1>2. Len(w.peer) \in Nat
  BY <1>1
<1>3. CASE w.head \in Heads
  BY <1>1, <1>2, <1>3, FrameRecvAssumption
<1>4. CASE w.head = << >>
  <2>1. << >> \in Seq(Byte)
    OBVIOUS
  <2> QED  BY <1>1, <1>2, <1>4, <2>1
<1> QED  BY <1>1, <1>3, <1>4

(* The bytes behind the last frame are the head.                           *)
LEMMA RestAtEnd ==
    ASSUME NEW w, IsPeer(w)
    PROVE  w.rest[Len(w.peer)] = w.head
BY DEF IsPeer, IsRest

(* f is the frame after the d-th, s what is behind it.                     *)
IsNextFrame(w, d, f, s) ==
    /\ f = w.peer[d + 1] /\ s = w.rest[d + 1]
    /\ f \in Frames /\ s \in Seq(Byte)
    /\ w.rest[d] = Encode(f, w.key) \o s

LEMMA NextFrameFacts ==
    ASSUME NEW w, IsPeer(w), NEW d \in Nat, d < Len(w.peer)
    PROVE  IsNextFrame(w, d, w.peer[d + 1], w.rest[d + 1])
<1>1. w.peer \in Seq(Frames) /\ Len(w.peer) \in Nat
  BY DEF IsPeer
<1>2. d \in 0..(Len(w.peer) - 1) /\ d + 1 \in 1..Len(w.peer) /\ d + 1 \in 0..Len(w.peer)
  BY <1>1
<1>3. w.peer[d + 1] \in Frames
  BY <1>1, <1>2
<1>4. w.rest[d + 1] \in Seq(Byte) /\ w.rest[d] = Encode(w.peer[d + 1], w.key) \o w.rest[d + 1]
  BY <1>2 DEF IsPeer, IsRest
<1> QED  BY <1>3, <1>4 DEF IsNextFrame

LEMMA RestType ==
    ASSUME NEW w, IsPeer(w), NEW d \in 0..Len(w.peer)
    PROVE  w.rest[d] \in Seq(Byte)
BY DEF IsPeer, IsRest

InFrame(c, f) == c.iom = Memo(f) /\ c.imask = f.mask

(* The context c is inside f, after its first two bytes: what is left to   *)
(* read of the stream, r, begins with the rest of f, and s is behind it.   *)
AtLength(c, r, f, key, s) ==
    /\ c.istate = "RECV_EXT_PAYLOADLEN"
    /\ InFrame(c, f)
    /\ c.ireqread = LengthBytes(Len(f.payload))
    /\ r = LengthFields(Len(f.payload)).ext \o (Behind(f, key) \o s)

AtKey(c, r, f, key, s) ==
    /\ c.istate = "RECV_MASKKEY" /\ c.ireqread = 4
    /\ InFrame(c, f) /\ f.mask
    /\ c.ipayloadlen = Len(f.payload) /\ c.ipayloadoff = 0
    /\ r = key \o (WireBytes(f, key) \o s)

AtPayload(c, r, f, key, s) ==
    /\ c.istate = "RECV_PAYLOAD"
    /\ InFrame(c, f) /\ (f.mask => c.imaskkey = key)
    /\ c.ipayloadlen = Len(f.payload)
    /\ c.ipayloadoff < Len(f.payload) \/ c.ipayloadoff = 0
    /\ r = Drop(WireBytes(f, key), c.ipayloadoff) \o s

AtFrame(c, r, f, key, s) ==
    AtLength(c, r, f, key, s) \/ AtKey(c, r, f, key, s) \/ AtPayload(c, r, f, key, s)

(* The context is inside a malformed head, at a bad length.                *)
AtBadLength(c, r) ==
    /\ c.istate = "RECV_EXT_PAYLOADLEN" /\ c.ireqread \in {2, 8}
    /\ c.ireqread <= Len(r)
    /\ IsBadLength(c.ireqread, be64toh(Take(r, c.ireqread)))

(* The context c is between the d-th frame and the next one, or inside.    *)
Where(c, r, w, d) ==
    \/ c.istate = "RECV_HEADER1" /\ c.ireqread = 2 /\ r = w.rest[d]
    \/ d < Len(w.peer) /\ AtFrame(c, r, w.peer[d + 1], w.key, w.rest[d + 1])
    \/ d = Len(w.peer) /\ w.head # << >> /\ AtBadLength(c, r)

(* How much of a frame's payload was passed on, when some was.             *)
Progress(c) == IF c.istate = "RECV_PAYLOAD" THEN c.ipayloadoff ELSE 0

(* A call that did not return yet.                                         *)
Going(o, w, d, k) ==
    /\ o \in Calls /\ InBounds(o)
    /\ ~o.returned /\ ~o.failed /\ o.result = 0 /\ o.iocb = NoIocb
    /\ Where(o.ctx, Left(o), w, d) /\ Progress(o.ctx) = k

(* A call that wants to read: nothing was passed on.                       *)
Waits(o, w, d, k) ==
    /\ o \in Calls /\ InBounds(o)
    /\ o.returned /\ o.result = WSLAY_ERR_WANT_READ /\ o.iocb = NoIocb
    /\ Where(o.ctx, Left(o), w, d) /\ Progress(o.ctx) = k
    /\ o.stream = << >> => d = Len(w.peer) /\ w.head = << >>

(* A call that found a protocol error.                                     *)
Refuses(o, w, d, k) ==
    /\ o \in Calls /\ InBounds(o)
    /\ o.returned /\ ~o.failed /\ o.result = WSLAY_ERR_PROTO /\ o.iocb = NoIocb
    /\ d = Len(w.peer) /\ w.head # << >>
    /\ o.ctx.istate # "RECV_PAYLOAD" /\ k = 0

-----------------------------------------------------------------------------
(* What each stage makes of a call *)

(* The ways the stages change a call.                                      *)
LEMMA BecomeForms ==
    ASSUME NEW o \in Calls, NEW c, NEW r
    PROVE  /\ [ o EXCEPT !.ctx = c ] = Become(o, c, o.result, o.returned)
           /\ Return([ o EXCEPT !.ctx = c ], r) = Become(o, c, r, TRUE)
<1>1. [ o EXCEPT !.ctx = c ] = Become(o, c, o.result, o.returned)
  BY DEF Calls, Become
<1>2. Return([ o EXCEPT !.ctx = c ], r) = Become(o, c, r, TRUE)
  BY DEF Calls, Become, Return
<1> QED  BY <1>1, <1>2

(* The length len was read: on to the mask key, or to the payload.         *)
PayloadLeads(a, memo, mask, len, e) ==
    IF mask THEN e = Reparse(a, "RECV_MASKKEY", 4, memo, mask, a.imaskkey, len, 0)
    ELSE e = Reparse(a, "RECV_PAYLOAD", a.ireqread, memo, mask, a.imaskkey, len, 0)

(* The head of length len7, of which memo and mask were read, leads on to  *)
(* the context e, from a, the context behind the head.                     *)
HeadLeads(a, memo, mask, len7, e) ==
    IF len7 > CtrlMax
    THEN e = Reparse(a, "RECV_EXT_PAYLOADLEN", IF len7 = CtrlMax + 1 THEN 2 ELSE 8, memo,
                     mask, a.imaskkey, a.ipayloadlen, a.ipayloadoff)
    ELSE PayloadLeads(a, memo, mask, len7, e)

(* What ParseHead makes of the call o: p.                                  *)
HeadForms(o, a, memo, mask, len7, p) ==
    IF wslay_is_ctrl_frame(memo.opcode) /\ (len7 > CtrlMax \/ ~memo.fin)
    THEN p = Become(o, Reparse(a, a.istate, a.ireqread, memo, mask, a.imaskkey,
                               a.ipayloadlen, a.ipayloadoff), WSLAY_ERR_PROTO, TRUE)
    ELSE \E e : HeadLeads(a, memo, mask, len7, e) /\ p = Become(o, e, o.result, o.returned)

(* ParseHead, in the terms of HeadForms.                                   *)
LEMMA ParseHeadForms ==
    ASSUME NEW o \in Calls, NEW a \in Ctx, a = Advance(o.ctx, 2), NEW memo, NEW mask, NEW len7,
           memo = OpcodeMemo(o.ctx.ibuf[1]), mask = (o.ctx.ibuf[2] \div 128 = 1),
           len7 = o.ctx.ibuf[2] % 128
    PROVE  HeadForms(o, a, memo, mask, len7, ParseHead(o))
<1> DEFINE c == [ a EXCEPT !.iom = memo, !.imask = mask ]
           n == IF len7 = CtrlMax + 1 THEN 2 ELSE 8
           e == IF len7 > CtrlMax THEN [ c EXCEPT !.istate = "RECV_EXT_PAYLOADLEN", !.ireqread = n ]
                ELSE AfterLength([ c EXCEPT !.ipayloadlen = len7, !.ipayloadoff = 0 ])
<1>1. ParseHead(o) = IF wslay_is_ctrl_frame(memo.opcode) /\ (len7 > CtrlMax \/ ~memo.fin)
                     THEN Return([ o EXCEPT !.ctx = c ], WSLAY_ERR_PROTO)
                     ELSE [ o EXCEPT !.ctx = e ]
  BY Zenon DEF ParseHead
<1>2. /\ c = Reparse(a, a.istate, a.ireqread, memo, mask, a.imaskkey,
                     a.ipayloadlen, a.ipayloadoff)
      /\ HeadLeads(a, memo, mask, len7, e)
  <2> DEFINE ext == "RECV_EXT_PAYLOADLEN"
  <2>1. c = Reparse(a, a.istate, a.ireqread, memo, mask, a.imaskkey,
                    a.ipayloadlen, a.ipayloadoff)
    BY DEF Ctx, Reparse
  <2>2. [ c EXCEPT !.istate = ext, !.ireqread = n ]
        = Reparse(a, ext, n, memo, mask, a.imaskkey, a.ipayloadlen, a.ipayloadoff)
    <3> HIDE DEF n, ext
    <3> QED  BY DEF Ctx, Reparse
  <2>3. AfterLength([ c EXCEPT !.ipayloadlen = len7, !.ipayloadoff = 0 ])
        = IF mask THEN Reparse(a, "RECV_MASKKEY", 4, memo, mask, a.imaskkey, len7, 0)
          ELSE Reparse(a, "RECV_PAYLOAD", a.ireqread, memo, mask, a.imaskkey, len7, 0)
    <3>1. a \in Ctx
      OBVIOUS
    <3> QED  BY ONLY <3>1 DEF Ctx, Reparse, AfterLength
  <2> HIDE DEF c
  <2>4. CASE len7 > CtrlMax
    <3>1. e = Reparse(a, ext, n, memo, mask, a.imaskkey, a.ipayloadlen, a.ipayloadoff)
      BY <2>2, <2>4, Zenon
    <3> QED  BY <2>1, <2>4, <3>1, Zenon DEF HeadLeads
  <2>5. CASE ~(len7 > CtrlMax)
    <3>1. e = AfterLength([ c EXCEPT !.ipayloadlen = len7, !.ipayloadoff = 0 ])
      BY <2>5, Zenon
    <3> HIDE DEF e
    <3> QED  BY <2>1, <2>3, <2>5, <3>1, Zenon DEF HeadLeads, PayloadLeads
  <2> QED  BY <2>4, <2>5
<1> HIDE DEF c, e
<1>3. /\ [ o EXCEPT !.ctx = e ] = Become(o, e, o.result, o.returned)
      /\ Return([ o EXCEPT !.ctx = c ], WSLAY_ERR_PROTO) = Become(o, c, WSLAY_ERR_PROTO, TRUE)
  BY BecomeForms
<1> QED  BY <1>1, <1>2, <1>3, Zenon DEF HeadForms

(* Bytes in the buffer are the first bytes of what is left.                *)
HasFirst(b, t, r, n) ==
    /\ Take(b, n) = Take(r, n) /\ Drop(b, n) \o t = Drop(r, n)
    /\ n <= Len(r) /\ \A i \in 1..n : b[i] = r[i] /\ b[i] \in Byte

(* Reading from the buffer is reading from what is left.                   *)
LEMMA FirstBytes ==
    ASSUME NEW b \in Seq(Byte), NEW t \in Seq(Byte), NEW r \in Seq(Byte), r = b \o t,
           NEW n \in Nat, n <= Len(b)
    PROVE  HasFirst(b, t, r, n)
<1>1. Take(b \o t, n) = Take(b, n) /\ Drop(b \o t, n) = Drop(b, n) \o t
  BY DropFirst
<1>2. Len(r) = Len(b) + Len(t) /\ \A i \in 1..Len(b) : r[i] = b[i]
  BY Concat
<1>3. Len(b) \in Nat /\ Len(t) \in Nat /\ \A i \in 1..Len(b) : b[i] \in Byte
  BY Lengths
<1> QED  BY <1>1, <1>2, <1>3 DEF HasFirst

(* Nothing before a sequence, and nothing taken off one.                   *)
LEMMA NoBytes ==
    ASSUME NEW s \in Seq(Byte), NEW t \in Seq(Byte)
    PROVE  /\ Len(s) = 0 => s = << >> /\ s \o t = t
           /\ Drop(s, 0) = s
<1>1. Len(s) = 0 => s = << >>
  OBVIOUS
<1>2. << >> \o t = t
  BY ConcatEmptySeq
<1>3. Drop(s, 0) = s
  <2>1. 0 \in Nat /\ 0 <= Len(s) /\ Len(s) \in Nat
    OBVIOUS
  <2>2. Drop(s, 0) \in Seq(Byte) /\ Len(Drop(s, 0)) = Len(s) - 0
        /\ \A i \in 1..(Len(s) - 0) : Drop(s, 0)[i] = s[0 + i]
    BY <2>1, DropFacts
  <2>3. PICK d \in Seq(Byte) : d = Drop(s, 0) /\ Len(s) = Len(d) /\ \A i \in 1..Len(s) : s[i] = d[i]
    BY <2>1, <2>2
  <2> QED  BY <2>3, SameBytes
<1> QED  BY <1>1, <1>2, <1>3

(* Concatenation is associative.                                           *)
LEMMA Associates ==
    ASSUME NEW x \in Seq(Byte), NEW y \in Seq(Byte), NEW z \in Seq(Byte)
    PROVE  (x \o y) \o z = x \o (y \o z)
BY ConcatAssociative

(* A frame's bytes behind its head are behind the head in the stream.      *)
IsBehindHead(f, key, s, r) ==
    /\ Len(r) >= 2
    /\ OpcodeMemo(r[1]) = Memo(f)
    /\ r[2] % 128 = LengthFields(Len(f.payload)).len7
    /\ (r[2] \div 128 = 1) = f.mask
    /\ Drop(r, 2) = LengthFields(Len(f.payload)).ext \o (Behind(f, key) \o s)

(* A frame's first two bytes hold its opcode memo, mask bit and length, as *)
(* the parser reads them.                                                  *)
LEMMA BehindHead ==
    ASSUME NEW f \in Frames, NEW key \in Keys, NEW s \in Seq(Byte), NEW r \in Seq(Byte),
           r = Encode(f, key) \o s
    PROVE  IsBehindHead(f, key, s, r)
<1> DEFINE ext == LengthFields(Len(f.payload)).ext
<1>1. PICK e \in Seq(Byte) : e = Encode(f, key) /\ Len(e) >= 2
  BY EncodeFacts
<1>2. /\ OpcodeMemo(e[1]) = Memo(f)
      /\ e[2] % 128 = LengthFields(Len(f.payload)).len7 /\ (e[2] \div 128 = 1) = f.mask
      /\ ext \in Seq(Byte) /\ Behind(f, key) \in Seq(Byte)
      /\ Drop(e, 2) = ext \o Behind(f, key)
  BY <1>1, EncodeFacts
<1> HIDE DEF ext
<1>3. Len(r) = Len(e) + Len(s) /\ \A i \in 1..Len(e) : r[i] = e[i]
  BY <1>1, Concat
<1>4. Len(e) \in Nat /\ Len(s) \in Nat /\ 1 \in 1..Len(e) /\ 2 \in 1..Len(e)
  BY <1>1, Lengths
<1>5. Len(r) >= 2 /\ r[1] = e[1] /\ r[2] = e[2]
  BY <1>1, <1>3, <1>4
<1>6. Drop(e \o s, 2) = Drop(e, 2) \o s
  BY <1>1, DropFirst
<1>7. PICK x \in Seq(Byte), y \in Seq(Byte) : x = ext /\ y = Behind(f, key)
  BY <1>2
<1>8. (x \o y) \o s = x \o (y \o s)
  BY Associates, Zenon
<1>9. Drop(r, 2) = ext \o (Behind(f, key) \o s)
  BY <1>1, <1>2, <1>6, <1>7, <1>8
<1> QED  BY <1>2, <1>5, <1>9 DEF ext, IsBehindHead

(* The length of a frame is in its shortest form.                          *)
LEMMA FrameLength ==
    ASSUME NEW f \in Frames
    PROVE  LET n == Len(f.payload) IN
           n \in Nat /\ LengthBytes(n) \in {0, 2, 8} /\ LengthRight(n, LengthFields(n))
BY FrameFacts, LengthForm

(* What is behind the length of a frame begins with the mask key, if any.  *)
LEMMA BehindLength ==
    ASSUME NEW f \in Frames, NEW key \in Keys, NEW s \in Seq(Byte)
    PROVE  /\ f.mask => Behind(f, key) \o s = key \o (WireBytes(f, key) \o s)
           /\ ~f.mask => Behind(f, key) \o s = Drop(WireBytes(f, key), 0) \o s
<1>1. PICK x \in Seq(Byte), y \in Seq(Byte) : x = key /\ y = WireBytes(f, key)
  BY KeyFacts, WireBytesFacts
<1>2. CASE f.mask
  <2>1. (x \o y) \o s = x \o (y \o s)
    BY ConcatAssociative
  <2> QED  BY <1>1, <1>2, <2>1 DEF Behind
<1>3. CASE ~f.mask
  <2>1. Drop(y, 0) = y
    BY NoBytes
  <2>2. Behind(f, key) = y
    BY <1>1, <1>3 DEF Behind, WireBytes
  <2> QED  BY <1>1, <1>3, <2>1, <2>2
<1> QED  BY <1>2, <1>3

(* Behind the length of a frame.                                           *)
LeadsIntoFrame(a, t, f, key, s, e) ==
    /\ e \in Ctx /\ e.ibuf = a.ibuf /\ e.mark = a.mark
    /\ AtFrame(e, e.ibuf \o t, f, key, s) /\ e.istate # "RECV_HEADER1"
    /\ Progress(e) = 0

(* Behind its length, a frame goes on with its mask key or its payload.    *)
LEMMA LengthGood ==
    ASSUME NEW f \in Frames, NEW key \in Keys, NEW s \in Seq(Byte),
           NEW a \in Ctx, NEW t \in Seq(Byte), a.ibuf \o t = Behind(f, key) \o s,
           NEW e, PayloadLeads(a, Memo(f), f.mask, Len(f.payload), e)
    PROVE  /\ LeadsIntoFrame(a, t, f, key, s, e)
           /\ e.istate # "RECV_EXT_PAYLOADLEN"
<1> DEFINE n == Len(f.payload)
<1>1. n \in Nat
  BY FrameLength
<1>2. Memo(f) \in [ fin : BOOLEAN, rsv : 0..7, opcode : 0..15 ] /\ f.mask \in BOOLEAN
  BY FrameFacts DEF Memo
<1>3. /\ a.istate \in IState /\ a.ireqread \in {2, 4, 8} /\ a.imaskkey \in [ 1..4 -> Byte ]
      /\ a.ipayloadlen \in Nat /\ a.ipayloadoff \in Nat
  BY CtxFacts
<1> HIDE DEF n
<1>4. CASE f.mask
  <2>1. e = Reparse(a, "RECV_MASKKEY", 4, Memo(f), f.mask, a.imaskkey, n, 0)
    BY <1>4 DEF PayloadLeads, n
  <2>2. IsReparse(a, "RECV_MASKKEY", 4, Memo(f), f.mask, a.imaskkey, n, 0, e)
    <3>1. "RECV_MASKKEY" \in IState /\ 4 \in {2, 4, 8} /\ 0 \in Nat
      BY DEF IState
    <3> QED  BY <1>1, <1>2, <1>3, <2>1, <3>1, Reparsed
  <2>3. a.ibuf \o t = key \o (WireBytes(f, key) \o s)
    BY <1>4, BehindLength
  <2>4. AtKey(e, e.ibuf \o t, f, key, s)
    BY <1>4, <2>2, <2>3 DEF AtKey, IsReparse, InFrame, n
  <2> QED  BY <2>2, <2>4 DEF AtFrame, IsReparse, Progress, LeadsIntoFrame
<1>5. CASE ~f.mask
  <2>1. e = Reparse(a, "RECV_PAYLOAD", a.ireqread, Memo(f), f.mask, a.imaskkey, n, 0)
    BY <1>5 DEF PayloadLeads, n
  <2>2. IsReparse(a, "RECV_PAYLOAD", a.ireqread, Memo(f), f.mask, a.imaskkey, n, 0, e)
    <3>1. "RECV_PAYLOAD" \in IState /\ 0 \in Nat
      BY DEF IState
    <3> QED  BY <1>1, <1>2, <1>3, <2>1, <3>1, Reparsed
  <2>3. a.ibuf \o t = Drop(WireBytes(f, key), 0) \o s
    BY <1>5, BehindLength
  <2>4. AtPayload(e, e.ibuf \o t, f, key, s)
    BY <1>5, <2>2, <2>3 DEF AtPayload, IsReparse, InFrame, n
  <2> QED  BY <2>2, <2>4 DEF AtFrame, IsReparse, Progress, LeadsIntoFrame
<1> QED  BY <1>4, <1>5

(* Behind the head of a frame.                                             *)
LEMMA HeadGood ==
    ASSUME NEW f \in Frames, NEW key \in Keys, NEW s \in Seq(Byte),
           NEW a \in Ctx, NEW t \in Seq(Byte),
           a.ibuf \o t = LengthFields(Len(f.payload)).ext \o (Behind(f, key) \o s),
           NEW e, HeadLeads(a, Memo(f), f.mask, LengthFields(Len(f.payload)).len7, e)
    PROVE  LeadsIntoFrame(a, t, f, key, s, e)
<1> DEFINE n == Len(f.payload)
           len == LengthFields(n)
<1>1. /\ n \in Nat /\ LengthBytes(n) \in {0, 2, 8}
      /\ len.len7 \in 0..127 /\ len.ext \in Seq(Byte) /\ Len(len.ext) = LengthBytes(n)
      /\ LengthBytes(n) = 0 => len.len7 = n /\ len.len7 <= CtrlMax
      /\ LengthBytes(n) = 2 => len.len7 = CtrlMax + 1
      /\ LengthBytes(n) = 8 => len.len7 = CtrlMax + 2
  BY FrameLength DEF LengthRight
<1>2. Memo(f) \in [ fin : BOOLEAN, rsv : 0..7, opcode : 0..15 ] /\ f.mask \in BOOLEAN
  BY FrameFacts DEF Memo
<1>3. /\ a.istate \in IState /\ a.ireqread \in {2, 4, 8} /\ a.imaskkey \in [ 1..4 -> Byte ]
      /\ a.ipayloadlen \in Nat /\ a.ipayloadoff \in Nat
  BY CtxFacts
<1>4. PICK b \in Seq(Byte) : b = Behind(f, key) \o s
  <2>1. Behind(f, key) \in Seq(Byte)
    BY EncodeFacts
  <2> QED  BY <2>1, Concat
<1>5. CtrlMax \in Nat
  BY LimitFacts
<1>6. CASE LengthBytes(n) = 0
  <2>1. len.ext \o b = b
    <3>1. PICK x \in Seq(Byte) : x = len.ext /\ Len(x) = 0
      BY <1>1, <1>6
    <3>2. x \o b = b
      BY <3>1, NoBytes, Zenon
    <3> QED  BY <3>1, <3>2
  <2>2. a.ibuf \o t = b
    BY <1>4, <2>1
  <2>3. PayloadLeads(a, Memo(f), f.mask, Len(f.payload), e)
    <3>1. ~(len.len7 > CtrlMax) /\ len.len7 = n
      BY <1>1, <1>5, <1>6
    <3> QED  BY <3>1, Zenon DEF HeadLeads
  <2> QED  BY <1>4, <2>2, <2>3, LengthGood
<1>7. CASE LengthBytes(n) # 0
  <2> DEFINE q == IF len.len7 = CtrlMax + 1 THEN 2 ELSE 8
  <2>1. len.len7 > CtrlMax /\ q = LengthBytes(n) /\ q \in {2, 4, 8}
    BY <1>1, <1>5, <1>7
  <2> HIDE DEF q
  <2>2. e = Reparse(a, "RECV_EXT_PAYLOADLEN", q, Memo(f), f.mask, a.imaskkey,
                    a.ipayloadlen, a.ipayloadoff)
    BY <2>1 DEF HeadLeads, q
  <2>3. IsReparse(a, "RECV_EXT_PAYLOADLEN", q, Memo(f), f.mask, a.imaskkey,
                  a.ipayloadlen, a.ipayloadoff, e)
    <3>1. "RECV_EXT_PAYLOADLEN" \in IState
      BY DEF IState
    <3> QED  BY <1>2, <1>3, <2>1, <2>2, <3>1, Reparsed
  <2>4. AtLength(e, e.ibuf \o t, f, key, s)
    BY <2>1, <2>3 DEF AtLength, IsReparse, InFrame
  <2> QED  BY <2>3, <2>4 DEF AtFrame, IsReparse, Progress, LeadsIntoFrame
<1> QED  BY <1>6, <1>7

(* What is read from two bytes has its type.                               *)
LEMMA MemoType ==
    ASSUME NEW b \in Byte
    PROVE  /\ OpcodeMemo(b) \in [ fin : BOOLEAN, rsv : 0..7, opcode : 0..15 ]
           /\ OpcodeMemo(b).fin <=> b >= 128
           /\ OpcodeMemo(b).opcode = b % 16
<1>1. /\ (b \div 16) % 8 \in 0..7 /\ b % 16 \in 0..15
      /\ (b \div 128 = 1) \in BOOLEAN /\ ((b \div 128 = 1) <=> b >= 128)
  BY DEF Byte
<1> QED  BY <1>1 DEF OpcodeMemo

LEMMA NumberType ==
    ASSUME NEW s \in Seq(Byte)
    PROVE  be64toh(s) \in Nat
<1>1. s \in Seq(Nat) /\ 0 \in Nat
  <2>1. Len(s) \in Nat /\ s \in [ 1..Len(s) -> Byte ]
    OBVIOUS
  <2>2. PICK n \in Nat : n = Len(s)
    BY <2>1
  <2>3. s \in [ 1..n -> Nat ]
    <3>1. Byte \subseteq Nat
      BY DEF Byte
    <3> QED  BY <2>1, <2>2, <3>1
  <2> QED  BY <2>3
<1> QED  BY <1>1, BeAppend

(* Bytes behind the head, seen from the stream.                            *)
LEMMA TakeBehindHead ==
    ASSUME NEW s \in Seq(Byte), NEW n \in Nat, Len(s) >= 2 + n
    PROVE  /\ Take(Drop(s, 2), n) = SubSeq(s, 3, 2 + n) /\ Len(Drop(s, 2)) >= n
           /\ SubSeq(s, 3, 2 + n) \in Seq(Byte)
<1>1. Len(s) \in Nat /\ \A i \in 1..Len(s) : s[i] \in Byte
  BY Lengths
<1>2. PICK d \in Seq(Byte) : /\ d = Drop(s, 2) /\ Len(d) = Len(s) - 2
                             /\ \A i \in 1..(Len(s) - 2) : d[i] = s[2 + i]
  <2>1. 2 \in Nat /\ 2 <= Len(s)
    BY <1>1
  <2> QED  BY <2>1, DropFacts
<1>3. PICK t \in Seq(Byte) : t = Take(d, n) /\ Len(t) = n /\ \A i \in 1..n : t[i] = d[i]
  <2>1. n <= Len(d)
    BY <1>1, <1>2
  <2> QED  BY <2>1, TakeFacts
<1>4. PICK u : u = SubSeq(s, 3, 2 + n)
  OBVIOUS
<1>5. u \in Seq(Byte) /\ Len(u) = n /\ \A i \in 1..n : u[i] = s[2 + i]
  BY <1>1, <1>4
<1>6. \A i \in 1..n : t[i] = u[i]
  <2> SUFFICES ASSUME NEW i \in 1..n PROVE t[i] = u[i]
    OBVIOUS
  <2>1. i \in 1..(Len(s) - 2)
    BY <1>1
  <2> QED  BY <1>2, <1>3, <1>5, <2>1
<1>7. t = u
  BY <1>3, <1>5, <1>6, SameBytes
<1> QED  BY <1>1, <1>2, <1>3, <1>4, <1>5, <1>7

(* A length that should have been in a shorter form, or is too large.      *)
LEMMA BadLengths ==
    ASSUME NEW n \in Nat
    PROVE  /\ LengthBytes(n) < 2 => IsBadLength(2, n)
           /\ LengthBytes(n) < 8 \/ n >= Radix8 \div 2 => IsBadLength(8, n)
BY LimitFacts, FrameRecvAssumption DEF LengthBytes, IsBadLength

(* Behind a malformed head that gets past its first two bytes.             *)
LeadsToBadLength(a, t, s, memo, mask, len7, e) ==
    /\ e \in Ctx /\ e.ibuf = a.ibuf /\ e.mark = a.mark
    /\ AtBadLength(e, e.ibuf \o t) /\ e.istate # "RECV_HEADER1"
    /\ Progress(e) = 0

(* A malformed head with a good first half leads to a bad length.          *)
LEMMA HeadBad ==
    ASSUME NEW s \in Seq(Byte), IsMalformed(s), NEW memo, memo = OpcodeMemo(s[1]),
           NEW mask \in BOOLEAN, NEW len7, len7 = s[2] % 128,
           ~(wslay_is_ctrl_frame(memo.opcode) /\ (len7 > CtrlMax \/ ~memo.fin)),
           NEW a \in Ctx, NEW t \in Seq(Byte), a.ibuf \o t = Drop(s, 2),
           NEW e, HeadLeads(a, memo, mask, len7, e)
    PROVE  LeadsToBadLength(a, t, s, memo, mask, len7, e)
<1>1. Len(s) >= 2 /\ Len(s) \in Nat
  BY DEF IsMalformed
<1>2. s[1] \in Byte /\ s[2] \in Byte
  BY <1>1
<1>3. /\ memo \in [ fin : BOOLEAN, rsv : 0..7, opcode : 0..15 ]
      /\ memo.fin <=> s[1] >= 128
      /\ memo.opcode = s[1] % 16
  BY <1>2, MemoType
<1>4. CtrlMax \in Nat /\ len7 \in Nat
  <2>1. PICK b \in Byte : b = s[2]
    BY <1>2
  <2>2. b % 128 \in Nat
    BY DEF Byte
  <2> QED  BY <2>1, <2>2, LimitFacts
<1>5. PICK n \in {2, 8} : /\ len7 > CtrlMax /\ n = (IF len7 = CtrlMax + 1 THEN 2 ELSE 8)
                          /\ Len(s) >= 2 + n
                          /\ IsBadLength(n, be64toh(SubSeq(s, 3, 2 + n)))
  <2>1. ~(wslay_is_ctrl_frame(s[1] % 16) /\ (s[1] < 128 \/ len7 > CtrlMax))
    <3>1. s[1] < 128 <=> ~memo.fin
      <4>1. PICK b \in Byte : b = s[1]
        BY <1>2
      <4>2. b < 128 <=> ~(b >= 128)
        BY DEF Byte
      <4> QED  BY <1>3, <4>1, <4>2, Zenon
    <3> QED  BY <1>3, <3>1, Zenon
  <2>2. CASE /\ len7 = CtrlMax + 1 /\ Len(s) >= 4
             /\ LengthBytes(be64toh(SubSeq(s, 3, 2 + 2))) < 2
    <3>1. SubSeq(s, 3, 2 + 2) \in Seq(Byte)
      BY <1>1, <2>2, TakeBehindHead
    <3>2. be64toh(SubSeq(s, 3, 2 + 2)) \in Nat
      BY <3>1, NumberType
    <3>3. IsBadLength(2, be64toh(SubSeq(s, 3, 2 + 2)))
      BY <2>2, <3>2, BadLengths
    <3> QED  BY <1>1, <1>4, <2>2, <3>3
  <2>3. CASE /\ len7 = CtrlMax + 2 /\ Len(s) >= 10
             /\ \/ LengthBytes(be64toh(SubSeq(s, 3, 2 + 8))) < 8
                \/ be64toh(SubSeq(s, 3, 2 + 8)) >= Radix8 \div 2
    <3>1. SubSeq(s, 3, 2 + 8) \in Seq(Byte)
      <4>1. PICK k \in Nat : k = 8 /\ Len(s) >= 2 + k
        BY <1>1, <2>3
      <4> QED  BY <4>1, TakeBehindHead
    <3>2. be64toh(SubSeq(s, 3, 2 + 8)) \in Nat
      BY <3>1, NumberType
    <3>3. IsBadLength(8, be64toh(SubSeq(s, 3, 2 + 8)))
      BY <2>3, <3>2, BadLengths
    <3> QED  BY <1>1, <1>4, <2>3, <3>3
  <2> QED  BY <2>1, <2>2, <2>3, Zenon DEF IsMalformed
<1>6. Take(Drop(s, 2), n) = SubSeq(s, 3, 2 + n) /\ Len(Drop(s, 2)) >= n
  BY <1>1, <1>5, TakeBehindHead
<1>7. /\ a.istate \in IState /\ a.ireqread \in {2, 4, 8} /\ a.imaskkey \in [ 1..4 -> Byte ]
      /\ a.ipayloadlen \in Nat /\ a.ipayloadoff \in Nat
  BY CtxFacts
<1>8. e = Reparse(a, "RECV_EXT_PAYLOADLEN", n, memo, mask, a.imaskkey,
                  a.ipayloadlen, a.ipayloadoff)
  BY <1>5, Zenon DEF HeadLeads
<1>9. IsReparse(a, "RECV_EXT_PAYLOADLEN", n, memo, mask, a.imaskkey,
                a.ipayloadlen, a.ipayloadoff, e)
  <2>1. "RECV_EXT_PAYLOADLEN" \in IState /\ n \in {2, 4, 8}
    BY DEF IState
  <2> QED  BY <1>3, <1>7, <1>8, <2>1, Reparsed
<1>10. AtBadLength(e, e.ibuf \o t)
  BY <1>5, <1>6, <1>9 DEF AtBadLength, IsReparse
<1> QED  BY <1>9, <1>10 DEF IsReparse, Progress, LeadsToBadLength

(* The call goes on with the context e.                                    *)
WentOn(o, e, w, d, k, p) == Going(p, w, d, k) /\ p.ctx = e

(* A context in a good place makes a call that goes on.                    *)
LEMMA GoesOn ==
    ASSUME NEW w, NEW d, NEW k, NEW o, Going(o, w, d, k), NEW e \in Ctx,
           e.mark + Len(e.ibuf) = o.ctx.mark + Len(o.ctx.ibuf),
           Where(e, e.ibuf \o o.stream, w, d), Progress(e) = k
    PROVE  WentOn(o, e, w, d, k, Become(o, e, o.result, o.returned))
<1>1. o \in Calls /\ o.result \in Results /\ o.returned \in BOOLEAN
  BY CallFacts DEF Going
<1>2. IsBecome(o, e, o.result, o.returned, Become(o, e, o.result, o.returned))
  BY <1>1, Became
<1> QED  BY <1>1, <1>2 DEF IsBecome, Going, Left, InBounds, WentOn

(* The call is refused with the context e.                                 *)
LEMMA IsRefused ==
    ASSUME NEW w, NEW d, NEW k, NEW o, Going(o, w, d, k), NEW e \in Ctx,
           e.mark + Len(e.ibuf) = o.ctx.mark + Len(o.ctx.ibuf),
           d = Len(w.peer), w.head # << >>, e.istate # "RECV_PAYLOAD", k = 0,
           NEW p, p = Become(o, e, WSLAY_ERR_PROTO, TRUE)
    PROVE  Refuses(p, w, d, k)
<1>1. o \in Calls /\ WSLAY_ERR_PROTO \in Results /\ TRUE \in BOOLEAN
  BY DEF Going, Results
<1>2. IsBecome(o, e, WSLAY_ERR_PROTO, TRUE, p)
  BY <1>1, Became
<1> QED  BY <1>1, <1>2 DEF IsBecome, Going, Refuses, InBounds

(* Which of the places a state of the parser leaves.                       *)
LEMMA WhereBy ==
    ASSUME NEW c, NEW r, NEW w, NEW d, Where(c, r, w, d)
    PROVE  /\ c.istate = "RECV_HEADER1" => c.ireqread = 2 /\ r = w.rest[d]
           /\ c.istate = "RECV_EXT_PAYLOADLEN" =>
                \/ d < Len(w.peer) /\ AtLength(c, r, w.peer[d + 1], w.key, w.rest[d + 1])
                \/ d = Len(w.peer) /\ w.head # << >> /\ AtBadLength(c, r)
           /\ c.istate = "RECV_MASKKEY" =>
                d < Len(w.peer) /\ AtKey(c, r, w.peer[d + 1], w.key, w.rest[d + 1])
           /\ c.istate = "RECV_PAYLOAD" =>
                d < Len(w.peer) /\ AtPayload(c, r, w.peer[d + 1], w.key, w.rest[d + 1])
BY DEF Where, AtFrame, AtLength, AtKey, AtPayload, AtBadLength

(* The head: a frame's is never refused, and leads into the frame; a       *)
(* malformed one is refused, or leads to a bad length (frame.c 201-238).   *)
LEMMA HeadStep ==
    ASSUME NEW w, IsPeer(w), NEW d \in 0..Len(w.peer), NEW k, NEW o, Going(o, w, d, k),
           o.ctx.istate = "RECV_HEADER1", Len(o.ctx.ibuf) >= o.ctx.ireqread,
           NEW p, p = ParseHead(o)
    PROVE  \/ Going(p, w, d, k) /\ p.ctx.istate # "RECV_HEADER1"
           \/ Refuses(p, w, d, k)
<1>1. o \in Calls /\ o.ctx \in Ctx /\ Where(o.ctx, Left(o), w, d) /\ Progress(o.ctx) = k
  BY CallFacts DEF Going
<1>2. o.ctx.ireqread = 2 /\ Left(o) = w.rest[d] /\ k = 0
  BY <1>1, WhereBy DEF Progress
<1>3. PICK b \in Seq(Byte), t \in Seq(Byte) : b = o.ctx.ibuf /\ t = o.stream /\ Len(b) >= 2
  BY <1>1, <1>2, CallFacts, CtxFacts
<1>4. PICK r \in Seq(Byte) : r = Left(o) /\ r = b \o t /\ r = w.rest[d]
  BY <1>2, <1>3, RestType DEF Left
<1>5. /\ Drop(b, 2) \o t = Drop(r, 2) /\ 2 <= Len(r)
      /\ b[1] = r[1] /\ b[2] = r[2] /\ b[1] \in Byte /\ b[2] \in Byte
  <2>1. PICK n \in Nat : n = 2 /\ n <= Len(b)
    BY <1>3
  <2>2. HasFirst(b, t, r, n)
    BY <1>4, <2>1, FirstBytes
  <2> QED  BY <2>1, <2>2 DEF HasFirst
<1>6. PICK a : a = Advance(o.ctx, 2)
  OBVIOUS
<1>7. /\ a \in Ctx /\ a.ibuf \o t = Drop(r, 2) /\ a.istate = "RECV_HEADER1"
      /\ a.mark + Len(a.ibuf) = o.ctx.mark + Len(o.ctx.ibuf)
  <2>1. PICK n \in Nat : n = 2 /\ n <= Len(o.ctx.ibuf)
    BY <1>3
  <2>2. IsAdvance(o.ctx, n, Advance(o.ctx, n))
    BY <1>1, <2>1, AdvanceFacts
  <2> QED  BY <1>3, <1>5, <1>6, <2>1, <2>2 DEF IsAdvance, SameParse
<1>8. PICK memo, mask, len7 : memo = OpcodeMemo(b[1]) /\ mask = (b[2] \div 128 = 1)
                              /\ len7 = b[2] % 128
  OBVIOUS
<1> DEFINE isBad == wslay_is_ctrl_frame(memo.opcode) /\ (len7 > CtrlMax \/ ~memo.fin)
           stop == Reparse(a, a.istate, a.ireqread, memo, mask, a.imaskkey,
                           a.ipayloadlen, a.ipayloadoff)
<1>9. /\ isBad => p = Become(o, stop, WSLAY_ERR_PROTO, TRUE)
      /\ ~isBad => \E e : HeadLeads(a, memo, mask, len7, e)
                          /\ p = Become(o, e, o.result, o.returned)
  <2>1. HeadForms(o, a, memo, mask, len7, ParseHead(o))
    BY <1>1, <1>3, <1>6, <1>7, <1>8, ParseHeadForms
  <2> QED  BY <2>1, Zenon DEF HeadForms
<1>10. mask \in BOOLEAN
  BY <1>8
<1>11. CASE d < Len(w.peer)
  <2>1. PICK f \in Frames, s \in Seq(Byte) :
          /\ f = w.peer[d + 1] /\ s = w.rest[d + 1] /\ r = Encode(f, w.key) \o s
    <3>1. IsNextFrame(w, d, w.peer[d + 1], w.rest[d + 1])
      BY <1>11, NextFrameFacts
    <3> QED  BY <1>4, <3>1 DEF IsNextFrame
  <2>2. PICK key \in Keys : key = w.key
    BY HeadType
  <2>3. /\ memo = Memo(f) /\ mask = f.mask /\ len7 = LengthFields(Len(f.payload)).len7
        /\ Drop(r, 2) = LengthFields(Len(f.payload)).ext \o (Behind(f, key) \o s)
    <3>1. IsBehindHead(f, key, s, r)
      BY <2>1, <2>2, BehindHead
    <3> QED  BY <1>5, <1>8, <3>1 DEF IsBehindHead
  <2>4. ~isBad
    <3>1. CASE wslay_is_ctrl_frame(f.opcode)
      <4>1. f.fin /\ Len(f.payload) <= CtrlMax /\ Len(f.payload) \in Nat
        BY <3>1, FrameFacts
      <4>2. LengthBytes(Len(f.payload)) = 0
        BY <4>1 DEF LengthBytes
      <4>3. len7 = Len(f.payload)
        BY <2>3, <4>2, FrameLength DEF LengthRight
      <4>4. ~(len7 > CtrlMax)
        BY <4>1, <4>3, LimitFacts
      <4>5. memo.fin
        BY <2>3, <4>1 DEF Memo
      <4> QED  BY <4>4, <4>5
    <3>2. CASE ~wslay_is_ctrl_frame(f.opcode)
      <4>1. memo.opcode = f.opcode
        BY <2>3 DEF Memo
      <4> QED  BY <3>2, <4>1
    <3> QED  BY <3>1, <3>2
  <2>5. PICK e : HeadLeads(a, memo, mask, len7, e) /\ p = Become(o, e, o.result, o.returned)
    BY <1>9, <2>4
  <2>6. /\ e \in Ctx /\ e.ibuf = a.ibuf /\ e.mark = a.mark
        /\ AtFrame(e, e.ibuf \o t, f, key, s) /\ e.istate # "RECV_HEADER1"
        /\ Progress(e) = 0
    <3>1. a.ibuf \o t = LengthFields(Len(f.payload)).ext \o (Behind(f, key) \o s)
      BY <1>7, <2>3
    <3>2. HeadLeads(a, Memo(f), f.mask, LengthFields(Len(f.payload)).len7, e)
      BY <2>3, <2>5
    <3>3. LeadsIntoFrame(a, t, f, key, s, e)
      BY <1>7, <3>1, <3>2, HeadGood
    <3> QED  BY <3>3 DEF LeadsIntoFrame
  <2>7. Where(e, e.ibuf \o o.stream, w, d)
    BY <1>3, <1>11, <2>1, <2>2, <2>6, Zenon DEF Where
  <2>8. WentOn(o, e, w, d, k, Become(o, e, o.result, o.returned))
    BY <1>2, <1>7, <2>6, <2>7, GoesOn
  <2> QED  BY <2>5, <2>6, <2>8 DEF WentOn
<1>12. CASE d = Len(w.peer)
  <2>1. r = w.head
    BY <1>4, <1>12, RestAtEnd
  <2>2. w.head # << >> /\ IsMalformed(r)
    BY <1>5, <2>1, HeadType
  <2>3. memo = OpcodeMemo(r[1]) /\ len7 = r[2] % 128
    BY <1>5, <1>8
  <2>4. CASE isBad
    <3>1. IsReparse(a, a.istate, a.ireqread, memo, mask, a.imaskkey,
                    a.ipayloadlen, a.ipayloadoff, stop)
      <4>1. memo \in [ fin : BOOLEAN, rsv : 0..7, opcode : 0..15 ]
        BY <1>5, <1>8, MemoType
      <4>2. /\ a.istate \in IState /\ a.ireqread \in {2, 4, 8}
            /\ a.imaskkey \in [ 1..4 -> Byte ]
            /\ a.ipayloadlen \in Nat /\ a.ipayloadoff \in Nat
        BY <1>7, CtxFacts
      <4>3. a \in Ctx /\ mask \in BOOLEAN
        BY <1>7, <1>10
      <4> HIDE DEF isBad
      <4> QED  BY <4>1, <4>2, <4>3, Reparsed
    <3> HIDE DEF stop
    <3>2. stop \in Ctx /\ stop.mark + Len(stop.ibuf) = o.ctx.mark + Len(o.ctx.ibuf)
          /\ stop.istate # "RECV_PAYLOAD"
      BY <1>7, <3>1 DEF IsReparse
    <3>3. p = Become(o, stop, WSLAY_ERR_PROTO, TRUE)
      BY <1>9, <2>4 DEF stop
    <3> QED  BY <1>2, <1>12, <2>2, <3>2, <3>3, IsRefused
  <2>5. CASE ~isBad
    <3>1. PICK e : HeadLeads(a, memo, mask, len7, e) /\ p = Become(o, e, o.result, o.returned)
      BY <1>9, <2>5
    <3>2. /\ e \in Ctx /\ e.ibuf = a.ibuf /\ e.mark = a.mark
          /\ AtBadLength(e, e.ibuf \o t) /\ e.istate # "RECV_HEADER1"
          /\ Progress(e) = 0
      <4>1. LeadsToBadLength(a, t, r, memo, mask, len7, e)
        BY <1>7, <1>10, <2>2, <2>3, <2>5, <3>1, HeadBad
      <4> QED  BY <4>1 DEF LeadsToBadLength
    <3>3. Where(e, e.ibuf \o o.stream, w, d)
      BY <1>3, <1>12, <2>2, <3>2, Zenon DEF Where
    <3>4. WentOn(o, e, w, d, k, Become(o, e, o.result, o.returned))
      BY <1>2, <1>7, <3>2, <3>3, GoesOn
    <3> QED  BY <3>1, <3>2, <3>4 DEF WentOn
  <2> QED  BY <2>4, <2>5
<1> QED
  <2>1. d < Len(w.peer) \/ d = Len(w.peer)
    BY HeadType
  <2> QED  BY <1>11, <1>12, <2>1

(* What ParseExtLength makes of the call o, which has n bytes of length:   *)
(* the number len.                                                         *)
LengthForms(o, a, n, len, p) ==
    IF IsBadLength(n, len)
    THEN p = Become(o, Reparse(a, a.istate, a.ireqread, a.iom, a.imask, a.imaskkey, len, 0),
                    WSLAY_ERR_PROTO, TRUE)
    ELSE \E e : PayloadLeads(a, a.iom, a.imask, len, e)
                /\ p = Become(o, e, o.result, o.returned)

(* ParseExtLength, in the terms of LengthForms.                            *)
LEMMA ParseExtLengthForms ==
    ASSUME NEW o \in Calls, NEW n, n = o.ctx.ireqread, NEW a \in Ctx, a = Advance(o.ctx, n),
           NEW len, len = be64toh(Take(o.ctx.ibuf, n))
    PROVE  LengthForms(o, a, n, len, ParseExtLength(o))
<1> DEFINE c == [ a EXCEPT !.ipayloadlen = len, !.ipayloadoff = 0 ]
           e == AfterLength(c)
<1>1. ParseExtLength(o) = IF IsBadLength(n, len)
                          THEN Return([ o EXCEPT !.ctx = c ], WSLAY_ERR_PROTO)
                          ELSE [ o EXCEPT !.ctx = e ]
  BY Zenon DEF ParseExtLength, Take
<1>2. c = Reparse(a, a.istate, a.ireqread, a.iom, a.imask, a.imaskkey, len, 0)
  <2>1. a \in Ctx
    OBVIOUS
  <2> QED  BY ONLY <2>1 DEF Ctx, Reparse
<1>3. PayloadLeads(a, a.iom, a.imask, len, e)
  <2>1. a \in Ctx
    OBVIOUS
  <2> QED  BY ONLY <2>1 DEF Ctx, Reparse, AfterLength, PayloadLeads
<1> HIDE DEF c, e
<1>4. /\ [ o EXCEPT !.ctx = e ] = Become(o, e, o.result, o.returned)
      /\ Return([ o EXCEPT !.ctx = c ], WSLAY_ERR_PROTO) = Become(o, c, WSLAY_ERR_PROTO, TRUE)
  BY BecomeForms
<1> QED  BY <1>1, <1>2, <1>3, <1>4, Zenon DEF LengthForms

(* The length of a frame is read as it was written.                        *)
IsLengthRead(f, key, s, r, n) ==
    /\ n <= Len(r)
    /\ be64toh(Take(r, n)) = Len(f.payload) /\ ~IsBadLength(n, Len(f.payload))
    /\ Drop(r, n) = Behind(f, key) \o s

(* The length of a frame is read as it was written.                        *)
LEMMA LengthRead ==
    ASSUME NEW f \in Frames, NEW key \in Keys, NEW s \in Seq(Byte), NEW r \in Seq(Byte),
           r = LengthFields(Len(f.payload)).ext \o (Behind(f, key) \o s),
           NEW n \in {2, 8}, n = LengthBytes(Len(f.payload))
    PROVE  IsLengthRead(f, key, s, r, n)
<1>1. PICK ext \in Seq(Byte) :
        /\ ext = LengthFields(Len(f.payload)).ext /\ Len(ext) = n
        /\ be64toh(ext) = Len(f.payload) /\ ~IsBadLength(n, Len(f.payload))
  BY FrameLength DEF LengthRight
<1>2. PICK b \in Seq(Byte) : b = Behind(f, key) \o s
  <2>1. Behind(f, key) \in Seq(Byte)
    BY EncodeFacts
  <2> QED  BY <2>1, Concat
<1>3. Take(ext \o b, Len(ext)) = ext /\ Drop(ext \o b, Len(ext)) = b
  BY DropConcat, Zenon
<1>4. Len(ext \o b) = Len(ext) + Len(b) /\ Len(b) \in Nat
  BY Concat, Lengths
<1>5. r = ext \o b
  BY <1>1, <1>2
<1>6. n <= Len(r)
  BY <1>1, <1>4, <1>5
<1> QED  BY <1>1, <1>2, <1>3, <1>5, <1>6 DEF IsLengthRead

(* The length: a frame's is never refused, a bad one always is (frame.c    *)
(* 239-267).                                                               *)
LEMMA LengthStep ==
    ASSUME NEW w, IsPeer(w), NEW d \in 0..Len(w.peer), NEW k, NEW o, Going(o, w, d, k),
           o.ctx.istate = "RECV_EXT_PAYLOADLEN", Len(o.ctx.ibuf) >= o.ctx.ireqread,
           NEW p, p = ParseExtLength(o)
    PROVE  \/ /\ Going(p, w, d, k)
              /\ p.ctx.istate # "RECV_HEADER1" /\ p.ctx.istate # "RECV_EXT_PAYLOADLEN"
           \/ Refuses(p, w, d, k)
<1>1. o \in Calls /\ o.ctx \in Ctx /\ Where(o.ctx, Left(o), w, d) /\ Progress(o.ctx) = k
  BY CallFacts DEF Going
<1>2. k = 0
  BY <1>1 DEF Progress
<1>3. PICK n : n = o.ctx.ireqread
  OBVIOUS
<1>4. n \in {2, 4, 8}
  BY <1>1, <1>3, CtxFacts
<1>5. PICK b \in Seq(Byte), t \in Seq(Byte) : b = o.ctx.ibuf /\ t = o.stream
  BY <1>1, CallFacts, CtxFacts
<1>6. PICK r \in Seq(Byte) : r = Left(o) /\ r = b \o t
  BY <1>5, Concat DEF Left
<1>7. n \in Nat /\ n <= Len(b)
  BY <1>3, <1>4, <1>5
<1>8. HasFirst(b, t, r, n)
  BY <1>6, <1>7, FirstBytes
<1>9. PICK a : a = Advance(o.ctx, n)
  OBVIOUS
<1>10. IsAdvance(o.ctx, n, a)
  BY <1>1, <1>5, <1>7, <1>9, AdvanceFacts
<1>11. /\ a \in Ctx /\ SameParse(o.ctx, a) /\ a.ibuf \o t = Drop(r, n)
       /\ a.mark + Len(a.ibuf) = o.ctx.mark + Len(o.ctx.ibuf)
  BY <1>5, <1>8, <1>10 DEF IsAdvance, HasFirst
<1>12. PICK len : len = be64toh(Take(r, n))
  OBVIOUS
<1>13. LengthForms(o, a, n, len, p)
  <2>1. len = be64toh(Take(o.ctx.ibuf, n))
    BY <1>5, <1>8, <1>12 DEF HasFirst
  <2> QED  BY <1>1, <1>3, <1>9, <1>11, <2>1, ParseExtLengthForms
<1>14. CASE d < Len(w.peer) /\ AtLength(o.ctx, Left(o), w.peer[d + 1], w.key, w.rest[d + 1])
  <2>1. PICK f \in Frames, s \in Seq(Byte) :
          f = w.peer[d + 1] /\ s = w.rest[d + 1]
    <3>1. IsNextFrame(w, d, w.peer[d + 1], w.rest[d + 1])
      BY <1>14, NextFrameFacts
    <3> QED  BY <3>1 DEF IsNextFrame
  <2>2. PICK key \in Keys : key = w.key
    BY HeadType
  <2>3. AtLength(o.ctx, r, f, key, s)
    BY <1>6, <1>14, <2>1, <2>2
  <2>4. n \in {2, 8} /\ n = LengthBytes(Len(f.payload))
    BY <1>3, <1>4, <2>3, FrameLength DEF AtLength
  <2>5. IsLengthRead(f, key, s, r, n)
    BY <2>3, <2>4, LengthRead DEF AtLength
  <2>6. len = Len(f.payload) /\ ~IsBadLength(n, len) /\ a.ibuf \o t = Behind(f, key) \o s
    BY <1>11, <1>12, <2>5 DEF IsLengthRead
  <2>7. a.iom = Memo(f) /\ a.imask = f.mask
    BY <1>11, <2>3 DEF AtLength, InFrame, SameParse
  <2>8. PICK e : PayloadLeads(a, a.iom, a.imask, len, e) /\ p = Become(o, e, o.result, o.returned)
    BY <1>13, <2>6, Zenon DEF LengthForms
  <2>9. PayloadLeads(a, Memo(f), f.mask, Len(f.payload), e)
    BY <2>6, <2>7, <2>8
  <2>10. LeadsIntoFrame(a, t, f, key, s, e) /\ e.istate # "RECV_EXT_PAYLOADLEN"
    BY <1>11, <2>6, <2>9, LengthGood
  <2>11. Where(e, e.ibuf \o o.stream, w, d)
    BY <1>5, <1>14, <2>1, <2>2, <2>10, Zenon DEF Where, LeadsIntoFrame
  <2>12. WentOn(o, e, w, d, k, Become(o, e, o.result, o.returned))
    BY <1>2, <1>11, <2>10, <2>11, GoesOn DEF LeadsIntoFrame
  <2> QED  BY <2>8, <2>10, <2>12 DEF WentOn, LeadsIntoFrame
<1>15. CASE d = Len(w.peer) /\ w.head # << >> /\ AtBadLength(o.ctx, Left(o))
  <2>1. IsBadLength(n, len)
    BY <1>3, <1>6, <1>12, <1>15 DEF AtBadLength
  <2> DEFINE stop == Reparse(a, a.istate, a.ireqread, a.iom, a.imask, a.imaskkey, len, 0)
  <2>2. p = Become(o, stop, WSLAY_ERR_PROTO, TRUE)
    BY <1>13, <2>1, Zenon DEF LengthForms
  <2>3. IsReparse(a, a.istate, a.ireqread, a.iom, a.imask, a.imaskkey, len, 0, stop)
    <3>1. len \in Nat /\ 0 \in Nat
      <4>1. Take(r, n) \in Seq(Byte)
        BY <1>7, <1>8, TakeFacts DEF HasFirst
      <4> QED  BY <1>12, <4>1, NumberType
    <3>2. /\ a.istate \in IState /\ a.ireqread \in {2, 4, 8}
          /\ a.imaskkey \in [ 1..4 -> Byte ] /\ a.imask \in BOOLEAN
          /\ a.iom \in [ fin : BOOLEAN, rsv : 0..7, opcode : 0..15 ]
      BY <1>11, CtxFacts
    <3>3. a \in Ctx
      BY <1>11
    <3> HIDE DEF stop
    <3>4. stop = Reparse(a, a.istate, a.ireqread, a.iom, a.imask, a.imaskkey, len, 0)
      BY DEF stop
    <3> QED  BY <3>1, <3>2, <3>3, <3>4, Reparsed
  <2> HIDE DEF stop
  <2>4. /\ stop \in Ctx /\ stop.mark + Len(stop.ibuf) = o.ctx.mark + Len(o.ctx.ibuf)
        /\ stop.istate # "RECV_PAYLOAD"
    BY <1>11, <2>3 DEF IsReparse, SameParse
  <2> QED  BY <1>2, <1>15, <2>2, <2>4, IsRefused
<1> QED
  BY <1>1, <1>14, <1>15, WhereBy

(* TakeMaskKey changes the key, and leads to the payload.                  *)
LEMMA TakeMaskKeyForm ==
    ASSUME NEW o \in Calls, NEW a \in Ctx, a = Advance(o.ctx, 4)
    PROVE  TakeMaskKey(o) =
             Become(o, Reparse(a, "RECV_PAYLOAD", a.ireqread, a.iom, a.imask, Take(o.ctx.ibuf, 4),
                               a.ipayloadlen, a.ipayloadoff), o.result, o.returned)
<1> DEFINE key == Take(o.ctx.ibuf, 4)
           e == [ a EXCEPT !.imaskkey = key, !.istate = "RECV_PAYLOAD" ]
<1>1. TakeMaskKey(o) = [ o EXCEPT !.ctx = e ]
  BY Zenon DEF TakeMaskKey, Take
<1>2. e = Reparse(a, "RECV_PAYLOAD", a.ireqread, a.iom, a.imask, key,
                  a.ipayloadlen, a.ipayloadoff)
  <2>1. a \in Ctx
    OBVIOUS
  <2> HIDE DEF key
  <2> QED  BY ONLY <2>1 DEF Ctx, Reparse
<1> HIDE DEF e
<1>3. [ o EXCEPT !.ctx = e ] = Become(o, e, o.result, o.returned)
  BY BecomeForms
<1> QED  BY <1>1, <1>2, <1>3

LEMMA Keyed ==
    ASSUME NEW a \in Ctx, NEW key \in [ 1..4 -> Byte ]
    PROVE  IsReparse(a, "RECV_PAYLOAD", a.ireqread, a.iom, a.imask, key, a.ipayloadlen,
                     a.ipayloadoff,
                     Reparse(a, "RECV_PAYLOAD", a.ireqread, a.iom, a.imask, key,
                             a.ipayloadlen, a.ipayloadoff))
<1>1. /\ "RECV_PAYLOAD" \in IState /\ a.ireqread \in {2, 4, 8} /\ a.imask \in BOOLEAN
      /\ a.iom \in [ fin : BOOLEAN, rsv : 0..7, opcode : 0..15 ]
      /\ a.ipayloadlen \in Nat /\ a.ipayloadoff \in Nat
  BY CtxFacts DEF IState
<1> QED  BY <1>1, Reparsed

(* The mask key of a frame is taken from the right bytes (frame.c          *)
(* 268-281).                                                               *)
LEMMA KeyStep ==
    ASSUME NEW w, IsPeer(w), NEW d \in 0..Len(w.peer), NEW k, NEW o, Going(o, w, d, k),
           o.ctx.istate = "RECV_MASKKEY", Len(o.ctx.ibuf) >= o.ctx.ireqread,
           NEW p, p = TakeMaskKey(o)
    PROVE  Going(p, w, d, k) /\ p.ctx.istate = "RECV_PAYLOAD"
<1>1. o \in Calls /\ o.ctx \in Ctx /\ Where(o.ctx, Left(o), w, d) /\ Progress(o.ctx) = k
  BY CallFacts DEF Going
<1>2. k = 0
  BY <1>1 DEF Progress
<1>3. d < Len(w.peer) /\ AtKey(o.ctx, Left(o), w.peer[d + 1], w.key, w.rest[d + 1])
  BY <1>1, WhereBy
<1>4. PICK f \in Frames, s \in Seq(Byte) : f = w.peer[d + 1] /\ s = w.rest[d + 1]
  <2>1. IsNextFrame(w, d, w.peer[d + 1], w.rest[d + 1])
    BY <1>3, NextFrameFacts
  <2> QED  BY <2>1 DEF IsNextFrame
<1>5. PICK key \in Seq(Byte) : key = w.key /\ Len(key) = 4 /\ key \in [ 1..4 -> Byte ]
                               /\ key \in Keys
  BY HeadType, KeyFacts
<1>6. PICK b \in Seq(Byte), t \in Seq(Byte) : b = o.ctx.ibuf /\ t = o.stream
  BY <1>1, CallFacts, CtxFacts
<1>7. PICK r \in Seq(Byte) : r = Left(o) /\ r = b \o t
  BY <1>6, Concat DEF Left
<1>8. AtKey(o.ctx, r, f, key, s)
  BY <1>3, <1>4, <1>5, <1>7
<1>9. PICK n \in Nat : n = 4 /\ n <= Len(b)
  BY <1>6, <1>8 DEF AtKey
<1>10. HasFirst(b, t, r, n)
  BY <1>7, <1>9, FirstBytes
<1>11. PICK a : a = Advance(o.ctx, n)
  OBVIOUS
<1>12. IsAdvance(o.ctx, n, a)
  BY <1>1, <1>6, <1>9, <1>11, AdvanceFacts
<1>13. /\ a \in Ctx /\ SameParse(o.ctx, a) /\ a.ibuf \o t = Drop(r, n)
       /\ Take(b, n) = Take(r, n)
       /\ a.mark + Len(a.ibuf) = o.ctx.mark + Len(o.ctx.ibuf)
  BY <1>6, <1>10, <1>12 DEF IsAdvance, HasFirst
<1>14. PICK x \in Seq(Byte), y \in Seq(Byte) : x = WireBytes(f, key) /\ y = x \o s
  <2>1. WireBytes(f, key) \in Seq(Byte)
    BY <1>5, WireBytesFacts
  <2> QED  BY <2>1, Concat
<1>15. Take(r, n) = key /\ Drop(r, n) = Drop(x, 0) \o s
  <2>1. r = key \o y
    BY <1>8, <1>14 DEF AtKey
  <2>2. Take(key \o y, Len(key)) = key /\ Drop(key \o y, Len(key)) = y
    BY DropConcat, Zenon
  <2>3. Drop(x, 0) = x
    BY NoBytes, Zenon
  <2> QED  BY <1>5, <1>9, <1>14, <2>1, <2>2, <2>3
<1>16. PICK e : e = Reparse(a, "RECV_PAYLOAD", a.ireqread, a.iom, a.imask, key,
                            a.ipayloadlen, a.ipayloadoff)
  OBVIOUS
<1>17. p = Become(o, e, o.result, o.returned)
  BY <1>1, <1>6, <1>9, <1>11, <1>13, <1>15, <1>16, TakeMaskKeyForm
<1>18. IsReparse(a, "RECV_PAYLOAD", a.ireqread, a.iom, a.imask, key,
                 a.ipayloadlen, a.ipayloadoff, e)
  <2>1. a \in Ctx /\ key \in [ 1..4 -> Byte ]
    BY <1>5, <1>13
  <2> QED  BY <1>16, <2>1, Keyed
<1>19. /\ a.ipayloadlen = Len(f.payload) /\ a.ipayloadoff = 0
       /\ a.iom = Memo(f) /\ a.imask = f.mask
  BY <1>8, <1>13 DEF AtKey, SameParse, InFrame
<1>20. AtPayload(e, e.ibuf \o t, f, key, s)
  BY <1>13, <1>14, <1>15, <1>18, <1>19 DEF AtPayload, IsReparse, InFrame
<1>21. Where(e, e.ibuf \o o.stream, w, d)
  BY <1>3, <1>4, <1>5, <1>6, <1>20, Zenon DEF Where, AtFrame
<1>22. /\ e \in Ctx /\ Progress(e) = 0 /\ e.istate = "RECV_PAYLOAD"
       /\ e.mark + Len(e.ibuf) = o.ctx.mark + Len(o.ctx.ibuf)
  BY <1>13, <1>18, <1>19 DEF IsReparse, Progress
<1>23. WentOn(o, e, w, d, k, Become(o, e, o.result, o.returned))
  BY <1>2, <1>21, <1>22, GoesOn
<1> QED  BY <1>17, <1>22, <1>23 DEF WentOn

-----------------------------------------------------------------------------

(* How many bytes the parser waits for.                                    *)
Needs(c) == IF c.istate = "RECV_PAYLOAD" THEN 1 ELSE c.ireqread

(* It never waits for more than the frame has left, so that it is only     *)
(* between frames that all there is may not be enough.                     *)
LEMMA Starved ==
    ASSUME NEW w, IsPeer(w), NEW d \in 0..Len(w.peer), NEW c \in Ctx, NEW r \in Seq(Byte),
           Where(c, r, w, d), Len(r) < Needs(c),
           c.istate = "RECV_PAYLOAD" => c.ipayloadoff < c.ipayloadlen
    PROVE  d = Len(w.peer) /\ w.head = << >>
<1>1. Len(r) \in Nat /\ c.istate \in IState /\ c.ireqread \in {2, 4, 8}
      /\ c.ipayloadoff \in Nat /\ Len(w.peer) \in Nat
  BY Lengths, CtxFacts, HeadType
<1>2. ASSUME d < Len(w.peer)
      PROVE  \E f \in Frames, s \in Seq(Byte), key \in Keys :
               /\ f = w.peer[d + 1] /\ s = w.rest[d + 1] /\ key = w.key
               /\ w.rest[d] = Encode(f, key) \o s
  <2>1. IsNextFrame(w, d, w.peer[d + 1], w.rest[d + 1])
    BY <1>2, NextFrameFacts
  <2> QED  BY <2>1, HeadType DEF IsNextFrame
<1>3. CASE c.istate = "RECV_HEADER1"
  <2>1. Len(r) < 2 /\ r = w.rest[d]
    BY <1>1, <1>3, WhereBy DEF Needs
  <2>2. ~(d < Len(w.peer))
    <3> SUFFICES ASSUME d < Len(w.peer) PROVE FALSE
      OBVIOUS
    <3>1. PICK f \in Frames, s \in Seq(Byte), key \in Keys : r = Encode(f, key) \o s
      BY <1>2, <2>1
    <3>2. IsBehindHead(f, key, s, r)
      BY <3>1, BehindHead
    <3> QED  BY <1>1, <2>1, <3>2 DEF IsBehindHead
  <2>3. d = Len(w.peer)
    BY <1>1, <2>2
  <2>4. w.head = << >>
    <3> SUFFICES ASSUME w.head # << >> PROVE FALSE
      OBVIOUS
    <3>1. IsMalformed(r)
      BY <2>1, <2>3, RestAtEnd, HeadType
    <3> QED  BY <1>1, <2>1, <3>1 DEF IsMalformed
  <2> QED  BY <2>3, <2>4
<1>4. CASE c.istate = "RECV_EXT_PAYLOADLEN"
  <2>1. Len(r) < c.ireqread
    BY <1>4 DEF Needs
  <2>2. d < Len(w.peer) /\ AtLength(c, r, w.peer[d + 1], w.key, w.rest[d + 1])
    BY <1>1, <1>4, <2>1, WhereBy DEF AtBadLength
  <2>3. PICK f \in Frames, s \in Seq(Byte), key \in Keys : AtLength(c, r, f, key, s)
    BY <1>2, <2>2
  <2>4. PICK n \in {2, 8} : n = c.ireqread /\ n = LengthBytes(Len(f.payload))
    BY <1>1, <2>3, FrameLength DEF AtLength
  <2>5. IsLengthRead(f, key, s, r, n)
    BY <2>3, <2>4, LengthRead DEF AtLength
  <2> QED  BY <1>1, <2>1, <2>4, <2>5 DEF IsLengthRead
<1>5. CASE c.istate = "RECV_MASKKEY"
  <2>1. d < Len(w.peer) /\ AtKey(c, r, w.peer[d + 1], w.key, w.rest[d + 1])
    BY <1>1, <1>5, WhereBy
  <2>2. PICK f \in Frames, s \in Seq(Byte), key \in Keys : AtKey(c, r, f, key, s)
    BY <1>2, <2>1
  <2>3. PICK x \in Seq(Byte), y \in Seq(Byte) : x = key /\ Len(x) = 4 /\ y = WireBytes(f, key) \o s
    <3>1. WireBytes(f, key) \in Seq(Byte) /\ key \in Seq(Byte) /\ Len(key) = 4
      BY WireBytesFacts, KeyFacts
    <3> QED  BY <3>1, Concat
  <2>4. Len(x \o y) = Len(x) + Len(y) /\ Len(y) \in Nat
    BY Concat, Lengths
  <2>5. Len(r) < 4 /\ r = x \o y
    BY <1>1, <1>5, <2>2, <2>3 DEF AtKey, Needs
  <2> QED  BY <1>1, <2>3, <2>4, <2>5
<1>6. CASE c.istate = "RECV_PAYLOAD"
  <2>1. d < Len(w.peer) /\ AtPayload(c, r, w.peer[d + 1], w.key, w.rest[d + 1])
    BY <1>1, <1>6, WhereBy
  <2>2. PICK f \in Frames, s \in Seq(Byte), key \in Keys : AtPayload(c, r, f, key, s)
    BY <1>2, <2>1
  <2>3. PICK x \in Seq(Byte) : x = WireBytes(f, key) /\ Len(x) = Len(f.payload) /\ Len(x) \in Nat
    BY WireBytesFacts, Lengths
  <2>4. c.ipayloadoff < Len(x)
    BY <1>6, <2>2, <2>3 DEF AtPayload
  <2>5. PICK y \in Seq(Byte) : y = Drop(x, c.ipayloadoff) /\ Len(y) >= 1
    <3>1. PICK m \in Nat : m = c.ipayloadoff /\ m < Len(x) /\ m <= Len(x)
      BY <1>1, <2>3, <2>4
    <3>2. Drop(x, m) \in Seq(Byte) /\ Len(Drop(x, m)) = Len(x) - m
      BY <3>1, DropFacts, Zenon
    <3>3. Len(x) - m >= 1
      BY <2>3, <3>1
    <3> QED  BY <3>1, <3>2, <3>3
  <2>6. Len(y \o s) = Len(y) + Len(s) /\ Len(s) \in Nat
    BY Concat, Lengths
  <2>7. r = y \o s
    BY <2>2, <2>3, <2>5 DEF AtPayload
  <2>8. Len(r) < 1
    BY <1>6 DEF Needs
  <2>9. Len(y) \in Nat
    BY Lengths
  <2> QED  BY <1>1, <2>5, <2>6, <2>7, <2>8, <2>9
<1> QED  BY <1>1, <1>3, <1>4, <1>5, <1>6 DEF IState

-----------------------------------------------------------------------------
(* The payload *)

Deliver(o, e, iocb) ==
    [ o EXCEPT !.ctx = e, !.iocb = iocb, !.result = 0, !.returned = TRUE ]

IsDelivered(o, e, iocb, p) ==
    /\ p \in Calls /\ p.ctx = e /\ p.iocb = iocb /\ p.result = 0 /\ p.returned
    /\ p.stream = o.stream /\ p.asked = o.asked /\ p.failed = o.failed

(* A call that passes iocb on.                                             *)
LEMMA Delivered ==
    ASSUME NEW o \in Calls, NEW e \in Ctx, NEW iocb \in Iocb
    PROVE  IsDelivered(o, e, iocb, Deliver(o, e, iocb))
<1>1. Deliver(o, e, iocb) \in Calls
  BY DEF Calls, Deliver
<1>2. LET p == Deliver(o, e, iocb) IN
      /\ p.ctx = e /\ p.iocb = iocb /\ p.result = 0 /\ p.returned
      /\ p.stream = o.stream /\ p.asked = o.asked /\ p.failed = o.failed
  BY DEF Calls, Deliver
<1> QED  BY <1>1, <1>2 DEF IsDelivered

(* The bytes from up to to of the payload of f, as passed on.              *)
ChunkOf(f, from, to) ==
    [ fin |-> f.fin, rsv |-> f.rsv, opcode |-> f.opcode, mask |-> f.mask,
      payload_length |-> Len(f.payload), data |-> SubSeq(f.payload, from + 1, to) ]

(* A chunk has its type, and the bytes of the payload.                     *)
LEMMA ChunkType ==
    ASSUME NEW f \in Frames, NEW from \in Nat, NEW n \in Nat, from + n <= Len(f.payload)
    PROVE  /\ ChunkOf(f, from, from + n) \in Iocb
           /\ SubSeq(f.payload, from + 1, from + n) \in Seq(Byte)
           /\ Len(SubSeq(f.payload, from + 1, from + n)) = n
           /\ \A i \in 1..n : SubSeq(f.payload, from + 1, from + n)[i] = f.payload[from + i]
<1>1. PICK x \in Seq(Byte) : x = f.payload /\ Len(x) \in Nat /\ \A i \in 1..Len(x) : x[i] \in Byte
  BY FrameFacts, Lengths
<1>2. PICK u : u = SubSeq(x, from + 1, from + n)
  OBVIOUS
<1>3. u \in Seq(Byte) /\ Len(u) = n /\ \A i \in 1..n : u[i] = x[from + i]
  <2>1. from + n <= Len(x)
    BY <1>1
  <2>2. PICK m \in Nat, l \in Nat, h \in Nat :
          m = Len(x) /\ l = from + 1 /\ h = from + n /\ h <= m /\ l >= 1
    BY <1>1, <2>1
  <2>3. u = [ i \in 1..(h - l + 1) |-> x[i + l - 1] ]
    BY <1>2, <2>2
  <2>4. h - l + 1 = n
    BY <2>2
  <2>5. ASSUME NEW i \in 1..n PROVE i + l - 1 = from + i /\ from + i \in 1..m
    BY <2>2
  <2>6. \A i \in 1..n : x[i + l - 1] = x[from + i] /\ x[from + i] \in Byte
    BY <1>1, <2>2, <2>5
  <2>7. \A i \in 1..n : u[i] = x[from + i] /\ u[i] \in Byte
    BY <2>3, <2>4, <2>6
  <2>8. u \in [ 1..n -> Byte ]
    BY <2>3, <2>4, <2>7
  <2>9. u \in Seq(Byte) /\ Len(u) = n
    BY <2>8
  <2> QED  BY <2>7, <2>9
<1>4. ChunkOf(f, from, from + n) \in Iocb
  BY <1>1, <1>2, <1>3, FrameFacts DEF ChunkOf, Iocb
<1> QED  BY <1>1, <1>2, <1>3, <1>4

(* What is passed on of the context c: n bytes.                            *)
Given(c, n) ==
    [ fin |-> c.iom.fin, rsv |-> c.iom.rsv, opcode |-> c.iom.opcode, mask |-> c.imask,
      payload_length |-> c.ipayloadlen, data |-> [ i \in 1..n |-> Unmask(c, i) ] ]

(* The context behind the chunk, from a, which the buffer is left with.    *)
ContextBehind(a, n, rem) ==
    IF n = rem
    THEN Reparse(a, "RECV_HEADER1", 2, a.iom, a.imask, a.imaskkey, a.ipayloadlen, a.ipayloadoff + n)
    ELSE Reparse(a, a.istate, a.ireqread, a.iom, a.imask, a.imaskkey, a.ipayloadlen,
                 a.ipayloadoff + n)

(* PassChunk, in the terms of Given and ContextBehind.                     *)
LEMMA PassChunkForm ==
    ASSUME NEW o \in Calls, NEW rem, rem = o.ctx.ipayloadlen - o.ctx.ipayloadoff,
           NEW n, n = (IF Len(o.ctx.ibuf) < rem THEN Len(o.ctx.ibuf) ELSE rem),
           NEW a \in Ctx, a = Advance(o.ctx, n)
    PROVE  PassChunk(o) = Deliver(o, ContextBehind(a, n, rem), Given(o.ctx, n))
<1> DEFINE d == [ a EXCEPT !.ipayloadoff = @ + n ]
           e == IF n = rem THEN FrameEnds(d) ELSE d
<1>1. PassChunk(o) = Return([ o EXCEPT !.ctx = e, !.iocb = Given(o.ctx, n) ], 0)
  BY Zenon DEF PassChunk, Given
<1>2. /\ d = Reparse(a, a.istate, a.ireqread, a.iom, a.imask, a.imaskkey, a.ipayloadlen,
                     a.ipayloadoff + n)
      /\ FrameEnds(d) = Reparse(a, "RECV_HEADER1", 2, a.iom, a.imask, a.imaskkey,
                                a.ipayloadlen, a.ipayloadoff + n)
  <2>1. a \in Ctx
    OBVIOUS
  <2> QED  BY ONLY <2>1 DEF Ctx, Reparse, FrameEnds
<1> HIDE DEF d
<1>3. e = ContextBehind(a, n, rem)
  BY <1>2, Zenon DEF ContextBehind
<1> HIDE DEF e
<1>4. PICK g : g = Given(o.ctx, n)
  OBVIOUS
<1>5. Return([ o EXCEPT !.ctx = e, !.iocb = g ], 0) = Deliver(o, e, g)
  <2>1. o \in Calls
    OBVIOUS
  <2> QED  BY ONLY <2>1 DEF Calls, Return, Deliver
<1> QED  BY <1>1, <1>3, <1>4, <1>5, Zenon

(* A chunk is a piece of the payload, unmasked with the right bytes of the *)
(* key.                                                                    *)
LEMMA ChunkRight ==
    ASSUME NEW f \in Frames, NEW key \in Keys, NEW c \in Ctx, InFrame(c, f),
           f.mask => c.imaskkey = key, c.ipayloadlen = Len(f.payload),
           NEW n \in Nat, n <= Len(c.ibuf), c.ipayloadoff + n <= Len(f.payload),
           \A i \in 1..n : c.ibuf[i] = WireBytes(f, key)[c.ipayloadoff + i]
    PROVE  Given(c, n) = ChunkOf(f, c.ipayloadoff, c.ipayloadoff + n)
<1> DEFINE off == c.ipayloadoff
           g == [ i \in 1..n |-> Unmask(c, i) ]
           u == SubSeq(f.payload, off + 1, off + n)
<1>1. off \in Nat /\ Len(c.ibuf) \in Nat /\ Len(f.payload) \in Nat
  BY CtxFacts, FrameFacts
<1>2. u \in Seq(Byte) /\ Len(u) = n /\ \A i \in 1..n : u[i] = f.payload[off + i]
  BY <1>1, ChunkType
<1>3. ASSUME NEW i \in 1..n PROVE Unmask(c, i) = u[i]
  <2>1. off + i \in 1..Len(f.payload) /\ (off + i) - 1 = off + i - 1
    BY <1>1
  <2>2. f.payload[off + i] = IF f.mask THEN Xor(WireBytes(f, key)[off + i], KeyByte(key, off + i))
                             ELSE WireBytes(f, key)[off + i]
    BY <2>1, WireBytesFacts
  <2>3. c.ibuf[i] = WireBytes(f, key)[off + i] /\ c.imask = f.mask
    BY DEF InFrame
  <2>4. CASE f.mask
    <3>1. Unmask(c, i) = Xor(c.ibuf[i], key[1 + ((off + i - 1) % 4)])
      BY <2>3, <2>4 DEF Unmask
    <3>2. KeyByte(key, off + i) = key[1 + ((off + i - 1) % 4)]
      BY <2>1, Zenon DEF KeyByte
    <3>3. Unmask(c, i) = Xor(WireBytes(f, key)[off + i], KeyByte(key, off + i))
      BY <2>3, <3>1, <3>2, Zenon
    <3>4. f.payload[off + i] = Xor(WireBytes(f, key)[off + i], KeyByte(key, off + i))
      BY <2>2, <2>4, Zenon
    <3>5. u[i] = f.payload[off + i]
      BY <1>2
    <3> QED  BY <3>3, <3>4, <3>5, Zenon
  <2>5. CASE ~f.mask
    BY <1>2, <2>2, <2>3, <2>5 DEF Unmask
  <2> QED  BY <2>4, <2>5
<1> HIDE DEF u
<1>4. g = u
  <2>1. g = [ i \in 1..n |-> u[i] ]
    BY <1>3
  <2>2. u = [ i \in 1..n |-> u[i] ]
    BY <1>2
  <2> QED  BY <2>1, <2>2
<1> HIDE DEF g, off
<1>5. Given(c, n) = [ fin |-> f.fin, rsv |-> f.rsv, opcode |-> f.opcode, mask |-> f.mask,
                      payload_length |-> Len(f.payload), data |-> g ]
  <2>1. /\ c.iom.fin = f.fin /\ c.iom.rsv = f.rsv /\ c.iom.opcode = f.opcode
        /\ c.imask = f.mask /\ c.ipayloadlen = Len(f.payload)
    BY DEF InFrame, Memo
  <2> QED  BY <2>1, Zenon DEF Given, g
<1>6. ChunkOf(f, off, off + n) = [ fin |-> f.fin, rsv |-> f.rsv, opcode |-> f.opcode,
                                   mask |-> f.mask, payload_length |-> Len(f.payload),
                                   data |-> u ]
  BY Zenon DEF ChunkOf, u
<1> QED  BY <1>4, <1>5, <1>6, Zenon DEF off

(* r is x from the k-th byte on, and s behind it; n bytes on, there is     *)
(* less of x.                                                              *)
IsInside(x, s, k, n, r) ==
    /\ Drop(r, n) = Drop(x, k + n) \o s
    /\ k + n = Len(x) => Drop(r, n) = s
    /\ \A i \in 1..n : r[i] = x[k + i]

(* Bytes taken off inside x.                                               *)
LEMMA InsideFacts ==
    ASSUME NEW x \in Seq(Byte), NEW s \in Seq(Byte), NEW k \in Nat, NEW n \in Nat,
           k + n <= Len(x), NEW r, r = Drop(x, k) \o s
    PROVE  IsInside(x, s, k, n, r)
<1>1. Len(x) \in Nat /\ k <= Len(x)
  BY Lengths
<1>2. PICK z \in Seq(Byte) : /\ z = Drop(x, k) /\ Len(z) = Len(x) - k
                             /\ \A i \in 1..(Len(x) - k) : z[i] = x[k + i]
  BY <1>1, DropFacts
<1>3. n <= Len(z)
  BY <1>1, <1>2
<1>4. Drop(z \o s, n) = Drop(z, n) \o s
  BY <1>3, DropFirst, Zenon
<1>5. Drop(z, n) = Drop(x, k + n)
  BY <1>2, DropDrop
<1>6. Drop(r, n) = Drop(x, k + n) \o s
  BY <1>2, <1>4, <1>5, Zenon
<1>7. ASSUME k + n = Len(x) PROVE Drop(r, n) = s
  <2>1. PICK m \in Nat : m = k + n /\ m <= Len(x) /\ m = Len(x)
    BY <1>7
  <2>2. PICK y \in Seq(Byte) : y = Drop(x, m) /\ Len(y) = Len(x) - m
    BY <2>1, DropFacts
  <2>3. Len(y) = 0
    BY <2>1, <2>2
  <2>4. y \o s = s
    BY <2>3, NoBytes
  <2> QED  BY <1>6, <2>1, <2>2, <2>4, Zenon
<1>8. ASSUME NEW i \in 1..n PROVE r[i] = x[k + i]
  <2>1. i \in 1..Len(z) /\ i \in 1..(Len(x) - k)
    BY <1>1, <1>2, <1>3
  <2>2. (z \o s)[i] = z[i]
    BY <2>1, Concat, Zenon
  <2>3. z[i] = x[k + i]
    BY <1>2, <2>1
  <2> QED  BY <1>2, <2>2, <2>3, Zenon
<1>9. k + n = Len(x) => Drop(r, n) = s
  BY <1>7
<1>10. \A i \in 1..n : r[i] = x[k + i]
  BY <1>8
<1> QED  BY <1>6, <1>9, <1>10, Zenon DEF IsInside

(* The bytes from k to n of the payload of f, some if there are any.       *)
IsChunk(f, k, n) ==
    /\ n \in Nat /\ k <= n /\ n <= Len(f.payload)
    /\ k < n \/ Len(f.payload) = 0

(* A call that passed a chunk on, of the frame after the d-th.             *)
Passes(o, w, d, k) ==
    /\ o \in Calls /\ InBounds(o)
    /\ o.returned /\ ~o.failed /\ o.result = 0
    /\ d < Len(w.peer)
    /\ \E n \in Nat :
         /\ IsChunk(w.peer[d + 1], k, n) /\ o.iocb = ChunkOf(w.peer[d + 1], k, n)
         /\ IF n = Len(w.peer[d + 1].payload)
            THEN o.ctx.istate = "RECV_HEADER1" /\ Where(o.ctx, Left(o), w, d + 1)
            ELSE /\ o.ctx.istate = "RECV_PAYLOAD" /\ o.ctx.ipayloadoff = n
                 /\ Where(o.ctx, Left(o), w, d)

(* The context behind a chunk.                                             *)
IsBehindChunk(a, e, w, d, n) ==
    /\ e \in Ctx /\ e.ibuf = a.ibuf /\ e.mark = a.mark
    /\ IF n = Len(w.peer[d + 1].payload)
       THEN e.istate = "RECV_HEADER1" /\ e.ireqread = 2
       ELSE /\ e.istate = "RECV_PAYLOAD" /\ e.ipayloadoff = n
            /\ e.iom = a.iom /\ e.imask = a.imask /\ e.imaskkey = a.imaskkey
            /\ e.ipayloadlen = a.ipayloadlen

(* Behind a chunk is the next head, or the rest of the payload (frame.c    *)
(* 313-318).                                                               *)
LEMMA BehindChunk ==
    ASSUME NEW w, NEW d, NEW a \in Ctx, NEW n \in Nat, NEW rem,
           a.istate = "RECV_PAYLOAD", a.ipayloadlen = Len(w.peer[d + 1].payload),
           rem = a.ipayloadlen - a.ipayloadoff
    PROVE  IsBehindChunk(a, ContextBehind(a, n, rem), w, d, a.ipayloadoff + n)
<1>1. /\ a.istate \in IState /\ a.ireqread \in {2, 4, 8} /\ a.imask \in BOOLEAN
      /\ a.ipayloadlen \in Nat /\ a.ipayloadoff \in Nat
      /\ a.imaskkey \in [ 1..4 -> Byte ]
      /\ a.iom \in [ fin : BOOLEAN, rsv : 0..7, opcode : 0..15 ]
  BY CtxFacts
<1>2. PICK to \in Nat : to = a.ipayloadoff + n
  BY <1>1
<1>3. n = rem <=> to = Len(w.peer[d + 1].payload)
  <2>1. PICK len \in Nat, off \in Nat : len = a.ipayloadlen /\ off = a.ipayloadoff
    BY <1>1
  <2>2. n = len - off <=> off + n = len
    OBVIOUS
  <2> QED  BY <1>2, <2>1, <2>2
<1>4. CASE n = rem
  <2>1. "RECV_HEADER1" \in IState /\ 2 \in {2, 4, 8}
    BY DEF IState
  <2>2. PICK e : e = Reparse(a, "RECV_HEADER1", 2, a.iom, a.imask, a.imaskkey, a.ipayloadlen, to)
    OBVIOUS
  <2>3. IsReparse(a, "RECV_HEADER1", 2, a.iom, a.imask, a.imaskkey, a.ipayloadlen, to, e)
    BY <1>1, <2>1, <2>2, Reparsed
  <2>4. ContextBehind(a, n, rem) = e
    BY <1>2, <1>4, <2>2, Zenon DEF ContextBehind
  <2> QED  BY <1>2, <1>3, <1>4, <2>3, <2>4 DEF IsReparse, IsBehindChunk
<1>5. CASE n # rem
  <2>1. PICK e : e = Reparse(a, a.istate, a.ireqread, a.iom, a.imask, a.imaskkey,
                             a.ipayloadlen, to)
    OBVIOUS
  <2>2. IsReparse(a, a.istate, a.ireqread, a.iom, a.imask, a.imaskkey, a.ipayloadlen, to, e)
    <3>1. PICK istate \in IState, ireqread \in {2, 4, 8}, imask \in BOOLEAN, len \in Nat,
               imaskkey \in [ 1..4 -> Byte ],
               iom \in [ fin : BOOLEAN, rsv : 0..7, opcode : 0..15 ] :
            /\ istate = a.istate /\ ireqread = a.ireqread /\ imask = a.imask
            /\ len = a.ipayloadlen /\ imaskkey = a.imaskkey /\ iom = a.iom
      BY <1>1
    <3>2. IsReparse(a, istate, ireqread, iom, imask, imaskkey, len, to,
                    Reparse(a, istate, ireqread, iom, imask, imaskkey, len, to))
      BY Reparsed
    <3> QED  BY <2>1, <3>1, <3>2, Zenon
  <2>3. ContextBehind(a, n, rem) = e
    BY <1>2, <1>5, <2>1, Zenon DEF ContextBehind
  <2> QED  BY <1>2, <1>3, <1>5, <2>2, <2>3 DEF IsReparse, IsBehindChunk
<1> QED  BY <1>4, <1>5

(* m bytes are there, and len - k are left of the payload: n are passed    *)
(* on.                                                                     *)
IsSplit(k, len, m, rem, n, to) ==
    /\ rem = len - k /\ n = (IF m < rem THEN m ELSE rem) /\ to = k + n
    /\ n <= m /\ k + n <= len /\ to <= len /\ k <= to /\ (k < to \/ len = 0)

(* There are such numbers.                                                 *)
LEMMA Split ==
    ASSUME NEW k \in Nat, NEW len \in Nat, NEW m \in Nat,
           k < len \/ k = 0, m >= 1 \/ len = k
    PROVE  \E rem \in Nat, n \in Nat, to \in Nat : IsSplit(k, len, m, rem, n, to)
<1>1. PICK rem \in Nat : rem = len - k
  OBVIOUS
<1>2. PICK n \in Nat : n = (IF m < rem THEN m ELSE rem)
  OBVIOUS
<1>3. PICK to \in Nat : to = k + n
  OBVIOUS
<1> QED  BY <1>1, <1>2, <1>3 DEF IsSplit

(* The payload: the right bytes of the right frame are passed on,          *)
(* unmasked, and the parser is behind them (frame.c 290-321).              *)
LEMMA ChunkStep ==
    ASSUME NEW w, IsPeer(w), NEW d \in 0..Len(w.peer), NEW k, NEW o, Going(o, w, d, k),
           o.ctx.istate = "RECV_PAYLOAD",
           Len(o.ctx.ibuf) >= 1 \/ o.ctx.ipayloadlen = o.ctx.ipayloadoff,
           NEW p, p = PassChunk(o)
    PROVE  Passes(p, w, d, k)
<1>1. o \in Calls /\ o.ctx \in Ctx /\ Where(o.ctx, Left(o), w, d) /\ Progress(o.ctx) = k
  BY CallFacts DEF Going
<1>2. k = o.ctx.ipayloadoff /\ k \in Nat /\ Len(o.ctx.ibuf) \in Nat
  BY <1>1, CtxFacts DEF Progress
<1>3. d < Len(w.peer) /\ AtPayload(o.ctx, Left(o), w.peer[d + 1], w.key, w.rest[d + 1])
  BY <1>1, WhereBy
<1>4. PICK f \in Frames, s \in Seq(Byte) : f = w.peer[d + 1] /\ s = w.rest[d + 1]
  <2>1. IsNextFrame(w, d, w.peer[d + 1], w.rest[d + 1])
    BY <1>3, NextFrameFacts
  <2> QED  BY <2>1 DEF IsNextFrame
<1>5. PICK key \in Keys : key = w.key
  BY HeadType
<1>6. PICK b \in Seq(Byte), t \in Seq(Byte) : b = o.ctx.ibuf /\ t = o.stream
  BY <1>1, CallFacts, CtxFacts
<1>7. PICK r \in Seq(Byte) : r = Left(o) /\ r = b \o t
  BY <1>6, Concat DEF Left
<1>8. AtPayload(o.ctx, r, f, key, s)
  BY <1>3, <1>4, <1>5, <1>7
<1>9. PICK x \in Seq(Byte) : x = WireBytes(f, key) /\ Len(x) = Len(f.payload) /\ Len(x) \in Nat
  BY WireBytesFacts, Lengths
<1>10. /\ o.ctx.ipayloadlen = Len(x) /\ (k < Len(x) \/ k = 0)
       /\ r = Drop(x, k) \o s /\ InFrame(o.ctx, f) /\ (f.mask => o.ctx.imaskkey = key)
  BY <1>2, <1>8, <1>9 DEF AtPayload
<1>11. PICK rem \in Nat, n \in Nat, to \in Nat :
         IsSplit(k, Len(x), Len(b), rem, n, to)
  <2>1. PICK j \in Nat, len \in Nat, m \in Nat : j = k /\ len = Len(x) /\ m = Len(b)
    BY <1>2, <1>9, Lengths
  <2>2. (j < len \/ j = 0) /\ (m >= 1 \/ len = j)
    BY <1>2, <1>6, <1>10, <2>1
  <2> QED  BY <2>1, <2>2, Split
<1>12. /\ rem = o.ctx.ipayloadlen - o.ctx.ipayloadoff
       /\ n = (IF Len(b) < rem THEN Len(b) ELSE rem)
       /\ n <= Len(b) /\ k + n <= Len(x)
  BY <1>2, <1>10, <1>11, Zenon DEF IsSplit
<1>13. to = k + n /\ to <= Len(x) /\ k <= to /\ (k < to \/ Len(x) = 0)
  BY <1>11, Zenon DEF IsSplit
<1>14. HasFirst(b, t, r, n)
  BY <1>7, <1>12, FirstBytes
<1>15. IsInside(x, s, k, n, r)
  BY <1>2, <1>10, <1>12, InsideFacts
<1>16. PICK a : a = Advance(o.ctx, n)
  OBVIOUS
<1>17. IsAdvance(o.ctx, n, a)
  BY <1>1, <1>6, <1>12, <1>16, AdvanceFacts
<1>18. /\ a \in Ctx /\ SameParse(o.ctx, a) /\ a.ibuf \o t = Drop(r, n)
       /\ a.mark + Len(a.ibuf) = o.ctx.mark + Len(o.ctx.ibuf)
  BY <1>6, <1>14, <1>17 DEF IsAdvance, HasFirst
<1>19. Given(o.ctx, n) = ChunkOf(f, k, to) /\ ChunkOf(f, k, to) \in Iocb
  <2>1. ASSUME NEW i \in 1..n PROVE o.ctx.ibuf[i] = WireBytes(f, key)[o.ctx.ipayloadoff + i]
    BY <1>2, <1>6, <1>9, <1>14, <1>15 DEF HasFirst, IsInside
  <2>2. /\ o.ctx.ipayloadlen = Len(f.payload) /\ n <= Len(o.ctx.ibuf)
        /\ o.ctx.ipayloadoff + n <= Len(f.payload)
    BY <1>2, <1>6, <1>9, <1>10, <1>12
  <2>3. Given(o.ctx, n) = ChunkOf(f, o.ctx.ipayloadoff, o.ctx.ipayloadoff + n)
    BY <1>1, <1>10, <2>1, <2>2, ChunkRight
  <2>4. ChunkOf(f, o.ctx.ipayloadoff, o.ctx.ipayloadoff + n) \in Iocb
    BY <1>2, <2>2, ChunkType
  <2> QED  BY <1>2, <1>13, <2>3, <2>4
<1>20. PICK e : e = ContextBehind(a, n, rem)
  OBVIOUS
<1>21. IsBehindChunk(a, e, w, d, to)
  <2>1. /\ a.istate = "RECV_PAYLOAD" /\ a.ipayloadlen = Len(w.peer[d + 1].payload)
        /\ rem = a.ipayloadlen - a.ipayloadoff /\ a.ipayloadoff = k
    BY <1>2, <1>4, <1>9, <1>10, <1>12, <1>18 DEF SameParse
  <2>2. IsBehindChunk(a, ContextBehind(a, n, rem), w, d, a.ipayloadoff + n)
    BY <1>18, <2>1, BehindChunk
  <2> QED  BY <1>13, <1>20, <2>1, <2>2
<1>22. PICK iocb \in Iocb : iocb = ChunkOf(f, k, to)
  BY <1>19
<1>23. IsDelivered(o, e, iocb, p)
  <2>1. PassChunk(o) = Deliver(o, ContextBehind(a, n, rem), Given(o.ctx, n))
    BY <1>1, <1>6, <1>12, <1>16, <1>18, PassChunkForm
  <2>2. e \in Ctx
    BY <1>21 DEF IsBehindChunk
  <2>3. p = Deliver(o, e, iocb)
    BY <1>19, <1>20, <1>22, <2>1
  <2> QED  BY <1>1, <2>2, <2>3, Delivered
<1>24. /\ p \in Calls /\ p.ctx = e /\ p.iocb = ChunkOf(f, k, to) /\ p.result = 0
       /\ p.returned /\ ~p.failed /\ p.asked = o.asked /\ p.stream = t
  BY <1>6, <1>22, <1>23 DEF IsDelivered, Going
<1>25. InBounds(p)
  BY <1>18, <1>21, <1>24 DEF InBounds, IsBehindChunk, Going
<1>26. PICK q : q = Left(p) /\ q = a.ibuf \o t /\ q = Drop(r, n)
  BY <1>18, <1>21, <1>24 DEF Left, IsBehindChunk
<1>27. CASE to = Len(f.payload)
  <2>1. p.ctx.istate = "RECV_HEADER1" /\ p.ctx.ireqread = 2
    BY <1>4, <1>21, <1>24, <1>27 DEF IsBehindChunk
  <2>2. q = w.rest[d + 1]
    BY <1>4, <1>9, <1>13, <1>15, <1>26, <1>27 DEF IsInside
  <2>3. Where(p.ctx, Left(p), w, d + 1)
    BY <1>26, <2>1, <2>2 DEF Where
  <2>4. IsChunk(f, k, to)
    BY <1>9, <1>13 DEF IsChunk
  <2> QED  BY <1>3, <1>4, <1>24, <1>25, <1>27, <2>1, <2>3, <2>4 DEF Passes
<1>28. CASE to # Len(f.payload)
  <2>1. /\ p.ctx.istate = "RECV_PAYLOAD" /\ p.ctx.ipayloadoff = to
        /\ p.ctx.iom = a.iom /\ p.ctx.imask = a.imask /\ p.ctx.imaskkey = a.imaskkey
        /\ p.ctx.ipayloadlen = a.ipayloadlen
    BY <1>4, <1>21, <1>24, <1>28 DEF IsBehindChunk
  <2>2. to < Len(f.payload)
    BY <1>9, <1>13, <1>28
  <2>3. q = Drop(x, to) \o s
    BY <1>13, <1>15, <1>26 DEF IsInside
  <2>4. AtPayload(p.ctx, q, f, key, s)
    BY <1>9, <1>10, <1>18, <2>1, <2>2, <2>3 DEF AtPayload, InFrame, SameParse
  <2>5. Where(p.ctx, Left(p), w, d)
    BY <1>3, <1>4, <1>5, <1>26, <2>4, Zenon DEF Where, AtFrame
  <2>6. IsChunk(f, k, to)
    BY <1>9, <1>13 DEF IsChunk
  <2> QED  BY <1>3, <1>4, <1>24, <1>25, <1>28, <2>1, <2>5, <2>6 DEF Passes
<1> QED  BY <1>27, <1>28

-----------------------------------------------------------------------------
(* The stages *)

(* Where the parser is does not depend on how the bytes that are left are  *)
(* split between buffer and stream.                                        *)
LEMMA SameWhere ==
    ASSUME NEW c, NEW e, NEW r, NEW w, NEW d, SameParse(c, e), Where(c, r, w, d)
    PROVE  Where(e, r, w, d) /\ Progress(e) = Progress(c)
<1>1. Progress(e) = Progress(c)
  BY DEF SameParse, Progress
<1>2. ASSUME NEW f, NEW key, NEW s, AtFrame(c, r, f, key, s) PROVE AtFrame(e, r, f, key, s)
  BY <1>2 DEF SameParse, AtFrame, AtLength, AtKey, AtPayload, InFrame
<1>3. AtBadLength(c, r) => AtBadLength(e, r)
  BY DEF SameParse, AtBadLength
<1>4. c.istate = e.istate /\ c.ireqread = e.ireqread
  BY DEF SameParse
<1>5. AtFrame(c, r, w.peer[d + 1], w.key, w.rest[d + 1]) =>
        AtFrame(e, r, w.peer[d + 1], w.key, w.rest[d + 1])
  BY <1>2
<1>6. Where(e, r, w, d)
  BY <1>3, <1>4, <1>5, Zenon DEF Where
<1> QED  BY <1>1, <1>6

(* Reading moves the parser nowhere.                                       *)
LEMMA ReadsOn ==
    ASSUME NEW w, NEW d, NEW k, NEW o, Going(o, w, d, k), NEW p, Reads(o, p)
    PROVE  /\ p \in Calls /\ InBounds(p) /\ p.iocb = NoIocb
           /\ Where(p.ctx, Left(p), w, d) /\ Progress(p.ctx) = k
           /\ p.ctx.istate = o.ctx.istate /\ p.ctx.ireqread = o.ctx.ireqread
           /\ p.ctx.ipayloadlen = o.ctx.ipayloadlen /\ p.ctx.ipayloadoff = o.ctx.ipayloadoff
           /\ ~p.returned /\ ~p.failed /\ p.result = 0 => Going(p, w, d, k)
<1>1. p \in Calls /\ InBounds(p) /\ SameParse(o.ctx, p.ctx) /\ Left(p) = Left(o)
      /\ p.iocb = o.iocb
  BY DEF Reads
<1>2. Where(o.ctx, Left(o), w, d) /\ Progress(o.ctx) = k /\ o.iocb = NoIocb
  BY DEF Going
<1>3. Where(p.ctx, Left(o), w, d) /\ Progress(p.ctx) = Progress(o.ctx)
  BY <1>1, <1>2, SameWhere
<1>4. Where(p.ctx, Left(p), w, d) /\ Progress(p.ctx) = k /\ p.iocb = NoIocb
  BY <1>1, <1>2, <1>3
<1>5. /\ p.ctx.istate = o.ctx.istate /\ p.ctx.ireqread = o.ctx.ireqread
      /\ p.ctx.ipayloadlen = o.ctx.ipayloadlen /\ p.ctx.ipayloadoff = o.ctx.ipayloadoff
  BY <1>1 DEF SameParse
<1>6. ASSUME ~p.returned, ~p.failed, p.result = 0 PROVE Going(p, w, d, k)
  BY <1>1, <1>4, <1>6, Zenon DEF Going
<1> QED  BY <1>1, <1>4, <1>5, <1>6

(* A call that returns without the bytes it needs.                         *)
LEMMA WaitsFor ==
    ASSUME NEW w, IsPeer(w), NEW d \in 0..Len(w.peer), NEW k, NEW o, Going(o, w, d, k),
           NEW p, Reads(o, p), p.returned, p.result = WSLAY_ERR_WANT_READ,
           Len(p.ctx.ibuf) < Needs(p.ctx),
           p.ctx.istate = "RECV_PAYLOAD" => p.ctx.ipayloadoff < p.ctx.ipayloadlen
    PROVE  Waits(p, w, d, k)
<1>1. /\ p \in Calls /\ InBounds(p) /\ p.iocb = NoIocb
      /\ Where(p.ctx, Left(p), w, d) /\ Progress(p.ctx) = k
  BY ReadsOn
<1>2. p.ctx \in Ctx
  BY <1>1, CallFacts
<1>3. PICK b \in Seq(Byte) : b = p.ctx.ibuf
  BY <1>2, CtxFacts
<1>4. ASSUME p.stream = << >> PROVE d = Len(w.peer) /\ w.head = << >>
  <2>1. Left(p) = b
    <3>1. b \o << >> = b
      BY ConcatEmptySeq
    <3> QED  BY <1>3, <1>4, <3>1, Zenon DEF Left
  <2>2. Where(p.ctx, b, w, d) /\ Len(b) < Needs(p.ctx)
    BY <1>1, <1>3, <2>1
  <2> QED  BY <1>2, <2>2, Starved
<1> QED  BY <1>1, <1>4 DEF Waits

(* A call in one of the given states, or at its end.                       *)
Under(o, w, d, k, states) ==
    \/ Waits(o, w, d, k)
    \/ Refuses(o, w, d, k)
    \/ Going(o, w, d, k) /\ o.ctx.istate \in states

(* At the start of a stage the call has the bytes it needs, or waits.      *)
LEMMA InStage ==
    ASSUME NEW w, IsPeer(w), NEW d \in 0..Len(w.peer), NEW k, NEW o, Going(o, w, d, k),
           o.ctx.istate # "RECV_PAYLOAD", NEW p \in Require(o)
    PROVE  \/ p.returned /\ Waits(p, w, d, k)
           \/ /\ ~p.returned /\ Going(p, w, d, k) /\ p.ctx.istate = o.ctx.istate
              /\ Len(p.ctx.ibuf) >= p.ctx.ireqread
<1>1. o \in Calls /\ InBounds(o) /\ ~o.returned /\ ~o.failed /\ o.result = 0
  BY DEF Going
<1>2. /\ Reads(o, p)
      /\ \/ /\ ~p.returned /\ ~p.failed /\ p.result = 0
            /\ Len(p.ctx.ibuf) >= p.ctx.ireqread
         \/ /\ p.returned /\ p.result = WSLAY_ERR_WANT_READ
            /\ Len(p.ctx.ibuf) < p.ctx.ireqread
  BY <1>1, RequireReads
<1>3. /\ p.ctx.istate = o.ctx.istate
      /\ ~p.returned /\ ~p.failed /\ p.result = 0 => Going(p, w, d, k)
  BY <1>2, ReadsOn
<1>4. Needs(p.ctx) = p.ctx.ireqread
  BY <1>3 DEF Needs
<1>5. ASSUME p.returned, p.result = WSLAY_ERR_WANT_READ, Len(p.ctx.ibuf) < p.ctx.ireqread
      PROVE  Waits(p, w, d, k)
  BY <1>2, <1>3, <1>4, <1>5, WaitsFor
<1> QED  BY <1>2, <1>3, <1>5

(* The first three stages, over all calls that are under way.              *)
LEMMA HeadStage ==
    ASSUME NEW w, IsPeer(w), NEW d \in 0..Len(w.peer), NEW k, NEW calls,
           \A o \in calls : Under(o, w, d, k, IState),
           NEW q \in Stage(calls, "RECV_HEADER1", ParseHead)
    PROVE  Under(q, w, d, k, IState \ {"RECV_HEADER1"})
<1>1. PICK o \in calls :
        q \in IF o.returned \/ o.ctx.istate # "RECV_HEADER1" THEN {o}
              ELSE { IF p.returned THEN p ELSE ParseHead(p) : p \in Require(o) }
  BY DEF Stage
<1>2. CASE o.returned \/ o.ctx.istate # "RECV_HEADER1"
  <2>1. q = o /\ Under(o, w, d, k, IState)
    BY <1>1, <1>2
  <2> QED  BY <1>2, <2>1 DEF Under, Going
<1>3. CASE ~(o.returned \/ o.ctx.istate # "RECV_HEADER1")
  <2>1. Going(o, w, d, k) /\ o.ctx.istate = "RECV_HEADER1"
    BY <1>1, <1>3 DEF Under, Waits, Refuses
  <2>2. PICK p \in Require(o) : q = IF p.returned THEN p ELSE ParseHead(p)
    BY <1>1, <1>3
  <2>3. CASE p.returned /\ Waits(p, w, d, k)
    BY <2>2, <2>3 DEF Under
  <2>4. CASE /\ ~p.returned /\ Going(p, w, d, k) /\ p.ctx.istate = o.ctx.istate
             /\ Len(p.ctx.ibuf) >= p.ctx.ireqread
    <3>1. q = ParseHead(p) /\ p.ctx.istate = "RECV_HEADER1"
      BY <2>1, <2>2, <2>4
    <3>2. \/ Going(q, w, d, k) /\ q.ctx.istate # "RECV_HEADER1"
          \/ Refuses(q, w, d, k)
      BY <2>4, <3>1, HeadStep
    <3>3. Going(q, w, d, k) => q.ctx.istate \in IState
      BY CallFacts, CtxFacts DEF Going
    <3> QED  BY <3>2, <3>3 DEF Under
  <2> QED  BY <2>1, <2>3, <2>4, InStage
<1> QED  BY <1>2, <1>3

LEMMA LengthStage ==
    ASSUME NEW w, IsPeer(w), NEW d \in 0..Len(w.peer), NEW k, NEW calls,
           \A o \in calls : Under(o, w, d, k, IState \ {"RECV_HEADER1"}),
           NEW q \in Stage(calls, "RECV_EXT_PAYLOADLEN", ParseExtLength)
    PROVE  Under(q, w, d, k, {"RECV_MASKKEY", "RECV_PAYLOAD"})
<1>1. PICK o \in calls :
        q \in IF o.returned \/ o.ctx.istate # "RECV_EXT_PAYLOADLEN" THEN {o}
              ELSE { IF p.returned THEN p ELSE ParseExtLength(p) : p \in Require(o) }
  BY DEF Stage
<1>2. CASE o.returned \/ o.ctx.istate # "RECV_EXT_PAYLOADLEN"
  <2>1. q = o /\ Under(o, w, d, k, IState \ {"RECV_HEADER1"})
    BY <1>1, <1>2
  <2> QED  BY <1>2, <2>1 DEF Under, Going, IState
<1>3. CASE ~(o.returned \/ o.ctx.istate # "RECV_EXT_PAYLOADLEN")
  <2>1. Going(o, w, d, k) /\ o.ctx.istate = "RECV_EXT_PAYLOADLEN"
    BY <1>1, <1>3 DEF Under, Waits, Refuses
  <2>2. PICK p \in Require(o) : q = IF p.returned THEN p ELSE ParseExtLength(p)
    BY <1>1, <1>3
  <2>3. CASE p.returned /\ Waits(p, w, d, k)
    BY <2>2, <2>3 DEF Under
  <2>4. CASE /\ ~p.returned /\ Going(p, w, d, k) /\ p.ctx.istate = o.ctx.istate
             /\ Len(p.ctx.ibuf) >= p.ctx.ireqread
    <3>1. q = ParseExtLength(p) /\ p.ctx.istate = "RECV_EXT_PAYLOADLEN"
      BY <2>1, <2>2, <2>4
    <3>2. \/ /\ Going(q, w, d, k)
             /\ q.ctx.istate # "RECV_HEADER1" /\ q.ctx.istate # "RECV_EXT_PAYLOADLEN"
          \/ Refuses(q, w, d, k)
      BY <2>4, <3>1, LengthStep
    <3>3. Going(q, w, d, k) => q.ctx.istate \in IState
      BY CallFacts, CtxFacts DEF Going
    <3> QED  BY <3>2, <3>3 DEF Under, IState
  <2> QED  BY <2>1, <2>3, <2>4, InStage
<1> QED  BY <1>2, <1>3

LEMMA KeyStage ==
    ASSUME NEW w, IsPeer(w), NEW d \in 0..Len(w.peer), NEW k, NEW calls,
           \A o \in calls : Under(o, w, d, k, {"RECV_MASKKEY", "RECV_PAYLOAD"}),
           NEW q \in Stage(calls, "RECV_MASKKEY", TakeMaskKey)
    PROVE  Under(q, w, d, k, {"RECV_PAYLOAD"})
<1>1. PICK o \in calls :
        q \in IF o.returned \/ o.ctx.istate # "RECV_MASKKEY" THEN {o}
              ELSE { IF p.returned THEN p ELSE TakeMaskKey(p) : p \in Require(o) }
  BY DEF Stage
<1>2. CASE o.returned \/ o.ctx.istate # "RECV_MASKKEY"
  <2>1. q = o /\ Under(o, w, d, k, {"RECV_MASKKEY", "RECV_PAYLOAD"})
    BY <1>1, <1>2
  <2> QED  BY <1>2, <2>1 DEF Under, Going
<1>3. CASE ~(o.returned \/ o.ctx.istate # "RECV_MASKKEY")
  <2>1. Going(o, w, d, k) /\ o.ctx.istate = "RECV_MASKKEY"
    BY <1>1, <1>3 DEF Under, Waits, Refuses
  <2>2. PICK p \in Require(o) : q = IF p.returned THEN p ELSE TakeMaskKey(p)
    BY <1>1, <1>3
  <2>3. CASE p.returned /\ Waits(p, w, d, k)
    BY <2>2, <2>3 DEF Under
  <2>4. CASE /\ ~p.returned /\ Going(p, w, d, k) /\ p.ctx.istate = o.ctx.istate
             /\ Len(p.ctx.ibuf) >= p.ctx.ireqread
    <3>1. q = TakeMaskKey(p) /\ p.ctx.istate = "RECV_MASKKEY"
      BY <2>1, <2>2, <2>4
    <3>2. Going(q, w, d, k) /\ q.ctx.istate = "RECV_PAYLOAD"
      BY <2>4, <3>1, KeyStep
    <3> QED  BY <3>2 DEF Under
  <2> QED  BY <2>1, <2>3, <2>4, InStage
<1> QED  BY <1>2, <1>3

(* The last stage: a chunk is passed on, or the call waits.                *)
LEMMA PayloadStage ==
    ASSUME NEW w, IsPeer(w), NEW d \in 0..Len(w.peer), NEW k, NEW o, Going(o, w, d, k),
           o.ctx.istate = "RECV_PAYLOAD", NEW q \in ReceivePayload(o)
    PROVE  Waits(q, w, d, k) \/ Passes(q, w, d, k)
<1>1. o \in Calls /\ InBounds(o) /\ ~o.returned /\ ~o.failed /\ o.result = 0
      /\ Where(o.ctx, Left(o), w, d)
  BY DEF Going
<1>2. o.ctx \in Ctx /\ o.ctx.ibuf \in Seq(Byte) /\ Len(o.ctx.ibuf) \in Nat
      /\ o.ctx.ipayloadlen \in Nat /\ o.ctx.ipayloadoff \in Nat
  BY <1>1, CallFacts, CtxFacts
<1>3. CASE o.ctx.ibuf = << >> /\ o.ctx.ipayloadlen > o.ctx.ipayloadoff
  <2>1. PICK p \in wslay_recv(o) : q = IF p.returned THEN p ELSE PassChunk(p)
    BY <1>3 DEF ReceivePayload
  <2>2. Len(o.ctx.ibuf) = 0
    BY <1>3
  <2>3. /\ Reads(o, p)
        /\ \/ /\ p.result = o.result /\ p.failed = o.failed /\ p.returned = o.returned
              /\ Len(p.ctx.ibuf) > Len(o.ctx.ibuf)
           \/ /\ p.result = WSLAY_ERR_WANT_READ /\ p.failed /\ p.returned
              /\ p.ctx.ibuf = o.ctx.ibuf
    <3>1. Len(o.ctx.ibuf) < IBufSize
      BY <2>2, FrameRecvAssumption
    <3> QED  BY <1>1, <3>1, RecvReads
  <2>4. /\ p \in Calls
        /\ p.ctx.istate = "RECV_PAYLOAD"
        /\ p.ctx.ipayloadlen = o.ctx.ipayloadlen /\ p.ctx.ipayloadoff = o.ctx.ipayloadoff
        /\ ~p.returned /\ ~p.failed /\ p.result = 0 => Going(p, w, d, k)
    BY <2>3, ReadsOn
  <2>5. CASE p.returned
    <3>1. p.result = WSLAY_ERR_WANT_READ /\ Len(p.ctx.ibuf) = 0
      BY <1>1, <2>2, <2>3, <2>5
    <3>2. Len(p.ctx.ibuf) < Needs(p.ctx)
      BY <2>4, <3>1 DEF Needs
    <3>3. p.ctx.ipayloadoff < p.ctx.ipayloadlen
      BY <1>2, <1>3, <2>4
    <3>4. Waits(p, w, d, k)
      BY <2>3, <2>5, <3>1, <3>2, <3>3, WaitsFor
    <3> QED  BY <2>1, <2>5, <3>4
  <2>6. CASE ~p.returned
    <3>1. Going(p, w, d, k) /\ Len(p.ctx.ibuf) > 0
      BY <1>1, <2>2, <2>3, <2>4, <2>6
    <3>2. Len(p.ctx.ibuf) >= 1
      <4>1. Len(p.ctx.ibuf) \in Nat
        BY <2>4, CallFacts, CtxFacts
      <4> QED  BY <3>1, <4>1
    <3>3. q = PassChunk(p)
      BY <2>1, <2>6
    <3> QED  BY <2>4, <3>1, <3>2, <3>3, ChunkStep
  <2> QED  BY <2>5, <2>6
<1>4. CASE ~(o.ctx.ibuf = << >> /\ o.ctx.ipayloadlen > o.ctx.ipayloadoff)
  <2>1. q = PassChunk(o)
    BY <1>1, <1>4 DEF ReceivePayload
  <2>2. Len(o.ctx.ibuf) >= 1 \/ o.ctx.ipayloadlen = o.ctx.ipayloadoff
    <3>1. o.ctx.ipayloadoff <= o.ctx.ipayloadlen
      <4>1. AtPayload(o.ctx, Left(o), w.peer[d + 1], w.key, w.rest[d + 1])
        BY <1>1, WhereBy
      <4> QED  BY <1>2, <4>1 DEF AtPayload
    <3>2. o.ctx.ibuf # << >> => Len(o.ctx.ibuf) >= 1
      BY <1>2
    <3> QED  BY <1>2, <1>4, <3>1, <3>2
  <2> QED  BY <2>1, <2>2, ChunkStep
<1> QED  BY <1>3, <1>4

(* Every outcome of wslay_frame_recv is one of three: it waits for bytes,  *)
(* it refuses a malformed head, or it passes a chunk on.                   *)
LEMMA RecvOutcome ==
    ASSUME NEW w, IsPeer(w), NEW d \in 0..Len(w.peer), NEW k,
           NEW c \in Ctx, NEW left \in Seq(Byte), NEW room \in Nat,
           c.mark + Len(c.ibuf) <= IBufSize, room >= 1,
           Where(c, c.ibuf \o left, w, d), Progress(c) = k,
           NEW o \in wslay_frame_recv(c, left, room)
    PROVE  Waits(o, w, d, k) \/ Refuses(o, w, d, k) \/ Passes(o, w, d, k)
<1> DEFINE start == { Begin(c, left, room) }
           head   == Stage(start, "RECV_HEADER1", ParseHead)
           length == Stage(head, "RECV_EXT_PAYLOADLEN", ParseExtLength)
           key    == Stage(length, "RECV_MASKKEY", TakeMaskKey)
<1>1. PICK p \in key : o \in IF p.returned THEN {p} ELSE ReceivePayload(p)
  BY DEF wslay_frame_recv
<1>2. ASSUME NEW q \in start PROVE Under(q, w, d, k, IState)
  <2>1. q = Begin(c, left, room)
    OBVIOUS
  <2>2. /\ q.ctx = c /\ q.stream = left /\ q.asked = room /\ q.iocb = NoIocb
        /\ q.result = 0 /\ ~q.failed /\ ~q.returned
    BY <2>1 DEF Begin
  <2>3. q \in Calls
    <3>1. NoIocb \in Iocb
      BY DEF NoIocb, Iocb
    <3> QED  BY <2>1, <3>1 DEF Begin, Calls
  <2>4. Going(q, w, d, k)
    BY <2>2, <2>3 DEF Going, InBounds, Left
  <2>5. q.ctx.istate \in IState
    BY <2>2, CtxFacts
  <2> QED  BY <2>4, <2>5 DEF Under
<1> HIDE DEF start
<1>3. ASSUME NEW q \in head PROVE Under(q, w, d, k, IState \ {"RECV_HEADER1"})
  BY <1>2, HeadStage
<1> HIDE DEF head
<1>4. ASSUME NEW q \in length PROVE Under(q, w, d, k, {"RECV_MASKKEY", "RECV_PAYLOAD"})
  BY <1>3, LengthStage
<1> HIDE DEF length
<1>5. ASSUME NEW q \in key PROVE Under(q, w, d, k, {"RECV_PAYLOAD"})
  BY <1>4, KeyStage
<1> HIDE DEF key
<1>6. Under(p, w, d, k, {"RECV_PAYLOAD"})
  BY <1>5
<1>7. CASE p.returned
  <2>1. o = p
    BY <1>1, <1>7
  <2> QED  BY <1>6, <1>7, <2>1 DEF Under, Going
<1>8. CASE ~p.returned
  <2>1. Going(p, w, d, k) /\ p.ctx.istate = "RECV_PAYLOAD" /\ o \in ReceivePayload(p)
    BY <1>1, <1>6, <1>8 DEF Under, Waits, Refuses
  <2> QED  BY <2>1, PayloadStage
<1> QED  BY <1>7, <1>8

-----------------------------------------------------------------------------
(* The inductive invariant *)

(* How far the parser is with what the peer w sends.                       *)
ParseInv(w) ==
    /\ IsPeer(w) /\ w.peer = peer /\ bad = (w.head # << >>)
    /\ Len(peer) <= MaxFrames
    /\ ctx.mark + Len(ctx.ibuf) <= IBufSize /\ asked >= 1
    /\ last.result # WSLAY_ERR_PROTO => Where(ctx, ctx.ibuf \o stream, w, done)
    /\ last.result = WSLAY_ERR_PROTO => bad /\ done = Len(peer)
                                        /\ ctx.istate # "RECV_PAYLOAD"
    /\ last.failed /\ stream = << >> => done = Len(peer) /\ ~bad

RecvInv == TypeOK /\ \E w : ParseInv(w)

(* The parser starts before the first frame.                               *)
LEMMA InitRecv == Init => RecvInv
<1> SUFFICES ASSUME Init PROVE RecvInv
  OBVIOUS
<1>1. PICK n \in 0..MaxFrames : peer \in [ 1..n -> Frames ]
  BY DEF Init
<1>2. n \in Nat /\ n <= MaxFrames
  BY FrameRecvAssumption
<1>3. peer \in Seq(Frames) /\ Len(peer) = n
  BY <1>1, <1>2
<1>4. Frames \subseteq Frame
  BY FrameRecvAssumption
<1>5. peer \in Seq(Frame)
  BY <1>3, <1>4
<1>6. PICK key \in Keys, head \in Heads \cup {<< >>} :
        stream = PeerStream(peer, key, head) /\ bad = (head # << >>)
  BY DEF Init
<1>7. head \in Seq(Byte)
  <2>1. << >> \in Seq(Byte)
    OBVIOUS
  <2> QED  BY <2>1, FrameRecvAssumption
<1>8. PICK g : IsRest(g, peer, key, head) /\ g[0] = PeerStream(peer, key, head)
  BY <1>3, <1>7, StreamIsRest
<1> DEFINE w == [ peer |-> peer, key |-> key, head |-> head, rest |-> g ]
<1>9. IsPeer(w) /\ w.peer = peer /\ w.head = head /\ w.rest[0] = stream
  BY <1>3, <1>6, <1>8 DEF IsPeer
<1>10. stream \in Seq(Byte)
  <2>1. 0 \in 0..Len(peer)
    BY <1>2, <1>3
  <2> QED  BY <1>6, <1>8, <2>1 DEF IsRest
<1>11. ctx = [ ibuf |-> << >>, mark |-> 0, istate |-> "RECV_HEADER1", ireqread |-> 2,
               iom |-> [ fin |-> FALSE, rsv |-> 0, opcode |-> 0 ], imask |-> FALSE,
               imaskkey |-> << 0, 0, 0, 0 >>, ipayloadlen |-> 0, ipayloadoff |-> 0 ]
       /\ done = 0 /\ asked = IBufSize
       /\ last = [ iocb |-> NoIocb, result |-> 0, failed |-> FALSE ]
  BY DEF Init
<1>12. ctx \in Ctx
  <2>1. << 0, 0, 0, 0 >> \in [ 1..4 -> Byte ]
    BY DEF Byte
  <2>2. [ fin |-> FALSE, rsv |-> 0, opcode |-> 0 ]
          \in [ fin : BOOLEAN, rsv : 0..7, opcode : 0..15 ]
    OBVIOUS
  <2>3. << >> \in Seq(Byte)
    OBVIOUS
  <2> QED  BY <1>11, <2>1, <2>2, <2>3 DEF Ctx, IState
<1>13. last \in [ iocb : Iocb, failed : BOOLEAN,
                  result : {0, WSLAY_ERR_WANT_READ, WSLAY_ERR_PROTO} ]
  <2>1. NoIocb \in Iocb
    BY DEF NoIocb, Iocb
  <2> QED  BY <1>11, <2>1
<1>14. TypeOK
  BY <1>2, <1>3, <1>5, <1>6, <1>10, <1>11, <1>12, <1>13, FrameRecvAssumption DEF TypeOK
<1>15. Where(ctx, ctx.ibuf \o stream, w, done)
  <2>1. << >> \o stream = stream
    BY <1>10, ConcatEmptySeq
  <2>2. ctx.ibuf = << >> /\ ctx.istate = "RECV_HEADER1" /\ ctx.ireqread = 2
    BY <1>11
  <2> HIDE DEF w
  <2>3. ctx.ibuf \o stream = w.rest[done]
    BY <1>9, <1>11, <2>1, <2>2
  <2> QED  BY <2>2, <2>3 DEF Where
<1>16. ctx.mark + Len(ctx.ibuf) <= IBufSize /\ asked >= 1
  <2>1. ctx.mark = 0 /\ Len(ctx.ibuf) = 0 /\ asked = IBufSize
    BY <1>11
  <2> QED  BY <2>1, FrameRecvAssumption
<1>17. last.result # WSLAY_ERR_PROTO /\ ~last.failed
  BY <1>11 DEF WSLAY_ERR_PROTO
<1>18. ParseInv(w)
  <2> HIDE DEF w
  <2> QED  BY <1>2, <1>3, <1>6, <1>9, <1>15, <1>16, <1>17 DEF ParseInv
<1> QED  BY <1>14, <1>18 DEF RecvInv

(* What a step is: the outcome of a call.                                  *)
IsStep(w, o) ==
    /\ ParseInv(w) /\ TypeOK
    /\ Waits(o, w, done, Progress(ctx)) \/ Refuses(o, w, done, Progress(ctx))
         \/ Passes(o, w, done, Progress(ctx))
    /\ Where(ctx, ctx.ibuf \o stream, w, done)
    /\ ctx' = o.ctx /\ stream' = o.stream /\ asked' = o.asked
    /\ last' = [ iocb |-> o.iocb, result |-> o.result, failed |-> o.failed ]
    /\ done' = (IF o.result = 0 /\ o.ctx.istate = "RECV_HEADER1" THEN done + 1 ELSE done)
    /\ UNCHANGED << peer, bad >>

(* A step of the specification is one of the three outcomes.               *)
LEMMA CallIsStep ==
    ASSUME RecvInv, Next
    PROVE  \E w, o : IsStep(w, o)
<1>1. PICK w : ParseInv(w)
  BY DEF RecvInv
<1>2. TypeOK
  BY DEF RecvInv
<1>3. PICK o \in wslay_frame_recv(ctx, stream, asked) :
        /\ ctx' = o.ctx /\ stream' = o.stream /\ asked' = o.asked
        /\ last' = [ iocb |-> o.iocb, result |-> o.result, failed |-> o.failed ]
        /\ done' = (IF o.result = 0 /\ o.ctx.istate = "RECV_HEADER1" THEN done + 1 ELSE done)
  BY DEF Next, Call
<1>4. last.result # WSLAY_ERR_PROTO /\ UNCHANGED << peer, bad >>
  BY DEF Next, Call
<1>5. /\ ctx \in Ctx /\ stream \in Seq(Byte) /\ asked \in Nat /\ done \in 0..Len(peer)
  BY <1>2 DEF TypeOK
<1>6. /\ IsPeer(w) /\ w.peer = peer /\ ctx.mark + Len(ctx.ibuf) <= IBufSize /\ asked >= 1
      /\ Where(ctx, ctx.ibuf \o stream, w, done)
  BY <1>1, <1>4 DEF ParseInv
<1>7. PICK k : k = Progress(ctx)
  OBVIOUS
<1>8. Waits(o, w, done, k) \/ Refuses(o, w, done, k) \/ Passes(o, w, done, k)
  BY <1>5, <1>6, <1>7, RecvOutcome
<1> QED  BY <1>1, <1>2, <1>3, <1>4, <1>6, <1>7, <1>8, Zenon DEF IsStep

(* The invariant is inductive: one step per outcome.                       *)
LEMMA NextRecv ==
    ASSUME RecvInv, [Next]_vars
    PROVE  RecvInv'
<1>1. CASE Next
  <2>1. PICK w, o : IsStep(w, o)
    BY <1>1, CallIsStep
  <2>2. /\ ParseInv(w) /\ TypeOK
        /\ ctx' = o.ctx /\ stream' = o.stream /\ asked' = o.asked
        /\ last' = [ iocb |-> o.iocb, result |-> o.result, failed |-> o.failed ]
        /\ done' = (IF o.result = 0 /\ o.ctx.istate = "RECV_HEADER1" THEN done + 1 ELSE done)
        /\ peer' = peer /\ bad' = bad
    BY <2>1 DEF IsStep
  <2>3. last'.result = o.result /\ last'.failed = o.failed
    BY <2>2
  <2>4. IsPeer(w) /\ w.peer = peer /\ bad = (w.head # << >>) /\ Len(peer) <= MaxFrames
    BY <2>2 DEF ParseInv
  <2>5. peer \in Seq(Frame) /\ bad \in BOOLEAN /\ done \in 0..Len(peer) /\ Len(peer) \in Nat
    BY <2>2 DEF TypeOK
  <2>6. o \in Calls /\ InBounds(o)
    BY <2>1 DEF IsStep, Waits, Refuses, Passes
  <2>7. /\ ctx' \in Ctx /\ stream' \in Seq(Byte) /\ asked' \in Nat
        /\ last' \in [ iocb : Iocb, failed : BOOLEAN,
                       result : {0, WSLAY_ERR_WANT_READ, WSLAY_ERR_PROTO} ]
    BY <2>2, <2>6, CallFacts DEF Results
  <2>8. ctx'.mark + Len(ctx'.ibuf) <= IBufSize /\ asked' >= 1
    BY <2>2, <2>6 DEF InBounds
  <2>9. ctx'.ibuf \o stream' = Left(o)
    BY <2>2 DEF Left
  <2>10. CASE Waits(o, w, done, Progress(ctx))
    <3>1. done' = done
      BY <2>2, <2>10 DEF Waits, WSLAY_ERR_WANT_READ
    <3>2. last'.result # WSLAY_ERR_PROTO
      BY <2>3, <2>10 DEF Waits, WSLAY_ERR_WANT_READ, WSLAY_ERR_PROTO
    <3>3. Where(ctx', ctx'.ibuf \o stream', w, done')
      BY <2>2, <2>9, <2>10, <3>1 DEF Waits
    <3>4. stream' = << >> => done' = Len(peer) /\ ~bad
      BY <2>2, <2>4, <2>10, <3>1 DEF Waits
    <3>5. ParseInv(w)'
      BY <2>2, <2>4, <2>8, <3>2, <3>3, <3>4 DEF ParseInv, IsPeer
    <3>6. TypeOK'
      BY <2>2, <2>5, <2>7, <3>1 DEF TypeOK
    <3> QED  BY <3>5, <3>6 DEF RecvInv
  <2>11. CASE Refuses(o, w, done, Progress(ctx))
    <3>1. done' = done
      BY <2>2, <2>11 DEF Refuses, WSLAY_ERR_PROTO
    <3>2. last'.result = WSLAY_ERR_PROTO /\ ~last'.failed
      BY <2>3, <2>11 DEF Refuses
    <3>3. bad' /\ done' = Len(peer') /\ ctx'.istate # "RECV_PAYLOAD"
      BY <2>2, <2>4, <2>11, <3>1 DEF Refuses
    <3>5. ParseInv(w)'
      BY <2>2, <2>4, <2>8, <3>2, <3>3 DEF ParseInv, IsPeer
    <3>6. TypeOK'
      BY <2>2, <2>5, <2>7, <3>1 DEF TypeOK
    <3> QED  BY <3>5, <3>6 DEF RecvInv
  <2>12. CASE Passes(o, w, done, Progress(ctx))
    <3>1. /\ done < Len(peer) /\ o.result = 0 /\ ~o.failed
          /\ \/ o.ctx.istate = "RECV_HEADER1" /\ Where(o.ctx, Left(o), w, done + 1)
             \/ o.ctx.istate = "RECV_PAYLOAD" /\ Where(o.ctx, Left(o), w, done)
      BY <2>4, <2>12 DEF Passes
    <3>2. last'.result # WSLAY_ERR_PROTO /\ ~last'.failed
      BY <2>3, <3>1 DEF WSLAY_ERR_PROTO
    <3>3. Where(ctx', ctx'.ibuf \o stream', w, done')
      BY <2>2, <2>9, <3>1
    <3>4. done' \in 0..Len(peer)
      BY <2>2, <2>5, <3>1
    <3>5. ParseInv(w)'
      BY <2>2, <2>4, <2>8, <3>2, <3>3 DEF ParseInv, IsPeer
    <3>6. TypeOK'
      BY <2>2, <2>5, <2>7, <3>4 DEF TypeOK
    <3> QED  BY <3>5, <3>6 DEF RecvInv
  <2> QED  BY <2>1, <2>10, <2>11, <2>12 DEF IsStep
<1>2. CASE UNCHANGED vars
  <2>1. TypeOK'
    BY <1>2 DEF RecvInv, TypeOK, vars
  <2>2. PICK w : ParseInv(w)
    BY DEF RecvInv
  <2>3. ParseInv(w)'
    BY <1>2, <2>2 DEF ParseInv, IsPeer, vars
  <2> QED  BY <2>1, <2>3 DEF RecvInv
<1> QED  BY <1>1, <1>2

(* The receiving fields of the context keep their types, however the bytes *)
(* arrive (frame.h 43-59).                                                 *)
THEOREM TypesHold == Spec => []TypeOK
<1>1. Spec => []RecvInv
  BY InitRecv, NextRecv, PTL DEF Spec
<1>2. RecvInv => TypeOK
  BY DEF RecvInv
<1> QED  BY <1>1, <1>2, PTL

(* The buffer is never overrun, recv_callback is never asked for no bytes, *)
(* and when all bytes were read, a call that finds nothing to read means   *)
(* that every frame was passed on and every error reported (frame.c        *)
(* 169-208).                                                               *)
THEOREM ParserNeverStuck == Spec => []NeverStuck
<1>1. Spec => []RecvInv
  BY InitRecv, NextRecv, PTL DEF Spec
<1>2. RecvInv => NeverStuck
  BY DEF RecvInv, ParseInv, NeverStuck
<1> QED  BY <1>1, <1>2, PTL

(* A protocol error is found only at a malformed head, when all frames     *)
(* before it were passed on; no frame of any length is refused (frame.c    *)
(* 218-222, 254-260).                                                      *)
THEOREM VerdictIsRight == Spec => []ProtoVerdict
<1>1. Spec => []RecvInv
  BY InitRecv, NextRecv, PTL DEF Spec
<1>2. RecvInv => ProtoVerdict
  BY DEF RecvInv, ParseInv, ProtoVerdict
<1> QED  BY <1>1, <1>2, PTL

-----------------------------------------------------------------------------
(* The refinement *)

(* What the event layer has, k bytes into the frame after the d-th.        *)
ViewAt(k, d) ==
    [ peer  |-> SubSeq(peer, 1, IF k > 0 THEN d + 1 ELSE d),
      taken |-> IF k > 0 THEN k ELSE IF d = 0 THEN 0 ELSE Len(peer[d].payload),
      open  |-> k > 0 ]

(* Between frames, and inside one.                                         *)
LEMMA ViewClosed ==
    ASSUME NEW d
    PROVE  ViewAt(0, d) = [ peer |-> SubSeq(peer, 1, d),
                            taken |-> IF d = 0 THEN 0 ELSE Len(peer[d].payload),
                            open |-> FALSE ]
<1>1. (0 > 0) = FALSE
  OBVIOUS
<1> QED  BY <1>1, Zenon DEF ViewAt

LEMMA ViewOpen ==
    ASSUME NEW k \in Nat, k > 0, NEW d
    PROVE  ViewAt(k, d) = [ peer |-> SubSeq(peer, 1, d + 1), taken |-> k, open |-> TRUE ]
<1>1. (k > 0) = TRUE
  OBVIOUS
<1> QED  BY <1>1, Zenon DEF ViewAt

ViewRight == PassedOn = ViewAt(Progress(ctx), done) /\ Progress(ctx) \in Nat

(* PassedOn is the view at the parser's place.                             *)
LEMMA ViewIs == TypeOK => ViewRight
<1> SUFFICES ASSUME TypeOK
             PROVE  PassedOn = ViewAt(Progress(ctx), done) /\ Progress(ctx) \in Nat
  BY DEF ViewRight
<1>1. ctx \in Ctx /\ done \in Nat
  BY DEF TypeOK
<1>2. ctx.ipayloadoff \in Nat
  BY <1>1, CtxFacts
<1>3. PICK off \in Nat, d \in Nat : off = ctx.ipayloadoff /\ d = done
  BY <1>1, <1>2
<1>4. CASE ctx.istate = "RECV_PAYLOAD" /\ off > 0
  <2>1. IsOpen = TRUE /\ Passed = d + 1 /\ Progress(ctx) = off
    BY <1>3, <1>4 DEF IsOpen, Passed, Progress
  <2>2. PassedOn = [ peer |-> SubSeq(peer, 1, d + 1), taken |-> off, open |-> TRUE ]
    BY <1>3, <2>1, Zenon DEF PassedOn
  <2>3. ViewAt(off, d) = [ peer |-> SubSeq(peer, 1, d + 1), taken |-> off, open |-> TRUE ]
    BY <1>4, ViewOpen
  <2> QED  BY <1>3, <2>1, <2>2, <2>3
<1>5. CASE ~(ctx.istate = "RECV_PAYLOAD" /\ off > 0)
  <2>1. IsOpen = FALSE /\ Passed = d /\ Progress(ctx) = 0
    BY <1>3, <1>5 DEF IsOpen, Passed, Progress
  <2>2. PassedOn = [ peer |-> SubSeq(peer, 1, d),
                     taken |-> IF d = 0 THEN 0 ELSE Len(peer[d].payload), open |-> FALSE ]
    BY <1>3, <2>1, Zenon DEF PassedOn
  <2> QED  BY <1>3, <2>1, <2>2, ViewClosed
<1> QED  BY <1>4, <1>5

(* And so it is after a step.                                              *)
LEMMA ViewWillBe == TypeOK' => ViewRight'
BY ViewIs, PTL

(* The frames up to the d-th, and one more.                                *)
LEMMA Prefixes ==
    ASSUME NEW p \in Seq(Frames), NEW d \in Nat, d < Len(p)
    PROVE  /\ Len(SubSeq(p, 1, d)) = d
           /\ Len(SubSeq(p, 1, d + 1)) = d + 1
           /\ SubSeq(p, 1, d + 1)[d + 1] = p[d + 1]
           /\ Append(SubSeq(p, 1, d), p[d + 1]) = SubSeq(p, 1, d + 1)
<1>1. Len(p) \in Nat /\ d + 1 \in 1..Len(p)
  OBVIOUS
<1>2. PICK a : a = SubSeq(p, 1, d)
  OBVIOUS
<1>3. a = [ i \in 1..d |-> p[i] ]
  BY <1>1, <1>2
<1>4. a \in Seq(Frames) /\ Len(a) = d /\ \A i \in 1..d : a[i] = p[i]
  BY <1>1, <1>3
<1>5. PICK b : b = SubSeq(p, 1, d + 1)
  OBVIOUS
<1>6. b = [ i \in 1..(d + 1) |-> p[i] ]
  BY <1>1, <1>5
<1>7. b \in Seq(Frames) /\ Len(b) = d + 1 /\ \A i \in 1..(d + 1) : b[i] = p[i]
  BY <1>1, <1>6
<1>8. Append(a, p[d + 1]) = b
  <2>1. PICK f \in Frames : f = p[d + 1]
    BY <1>1
  <2>2. PICK c : c = Append(a, f)
    OBVIOUS
  <2>3. Len(c) = d + 1 /\ c \in Seq(Frames) /\ \A i \in 1..(d + 1) : c[i] = p[i]
    BY <1>4, <2>1, <2>2
  <2>4. c = [ i \in 1..(d + 1) |-> c[i] ]
    BY <2>3
  <2>5. c = b
    BY <1>6, <2>3, <2>4
  <2> QED  BY <2>1, <2>2, <2>5
<1>9. Len(b) = d + 1 /\ b[d + 1] = p[d + 1]
  BY <1>7
<1> QED  BY <1>2, <1>4, <1>5, <1>8, <1>9

(* Which chunks FrameSource has for a call.                                *)
LEMMA ChunkAllowed ==
    ASSUME NEW f \in Frames, NEW k \in Nat, NEW n \in Nat, IsChunk(f, k, n), NEW p
    PROVE  [ source |-> [ peer |-> p, taken |-> n, open |-> n < Len(f.payload) ],
             iocb |-> ChunkOf(f, k, n), result |-> 0, failed |-> FALSE ]
             \in Source!Chunks(p, f, k)
<1>1. f.payload \in Seq(Byte) /\ Len(f.payload) \in Nat
  BY FrameFacts
<1>2. ChunkOf(f, k, n) = Source!SourceIocb(f, k, n)
  BY DEF ChunkOf, Source!SourceIocb
<1>3. n \in IF f.payload = << >> THEN {0} ELSE (k + 1)..Len(f.payload)
  <2>1. f.payload = << >> <=> Len(f.payload) = 0
    BY <1>1
  <2> QED  BY <1>1, <2>1 DEF IsChunk
<1> QED  BY <1>2, <1>3 DEF Source!Chunks

(* What FrameSource may answer.                                            *)
LEMMA NothingAllowed ==
    ASSUME NEW src, NEW failed \in BOOLEAN
    PROVE  /\ [ source |-> src, iocb |-> NoIocb, result |-> WSLAY_ERR_WANT_READ,
                failed |-> failed ] \in Source!wslay_frame_recv(src)
           /\ ~src.open =>
                [ source |-> src, iocb |-> NoIocb, result |-> WSLAY_ERR_PROTO,
                  failed |-> FALSE ] \in Source!wslay_frame_recv(src)
<1>1. /\ Source!NoIocb = NoIocb /\ Source!WSLAY_ERR_WANT_READ = WSLAY_ERR_WANT_READ
      /\ Source!WSLAY_ERR_PROTO = WSLAY_ERR_PROTO
  BY DEF Source!NoIocb, NoIocb, Source!WSLAY_ERR_WANT_READ, WSLAY_ERR_WANT_READ,
         Source!WSLAY_ERR_PROTO, WSLAY_ERR_PROTO
<1>2. Source!NoChunk(src) \subseteq Source!wslay_frame_recv(src)
  BY Zenon DEF Source!wslay_frame_recv
<1>3. [ source |-> src, iocb |-> NoIocb, result |-> WSLAY_ERR_WANT_READ,
        failed |-> failed ] \in Source!NoChunk(src)
  BY <1>1, Zenon DEF Source!NoChunk
<1>4. ~src.open =>
        [ source |-> src, iocb |-> NoIocb, result |-> WSLAY_ERR_PROTO,
          failed |-> FALSE ] \in Source!NoChunk(src)
  BY <1>1, Zenon DEF Source!NoChunk
<1> QED  BY <1>2, <1>3, <1>4, Zenon

(* An answer of FrameSource is a step of its specification.                *)
LEMMA AnswerIsStep ==
    ASSUME NEW x, x \in Source!wslay_frame_recv(PassedOn),
           PassedOn' = x.source,
           last' = [ iocb |-> x.iocb, result |-> x.result, failed |-> x.failed ]
    PROVE  Source!Next
BY DEF Source!Next

(* Each outcome is an answer FrameSource allows: nothing, an error between *)
(* frames, or a chunk.                                                     *)
LEMMA StepRefines ==
    ASSUME RecvInv, RecvInv', Next
    PROVE  Source!Next
<1>1. PICK w, o : IsStep(w, o)
  BY CallIsStep
<1>2. /\ ParseInv(w) /\ TypeOK
      /\ ctx' = o.ctx /\ stream' = o.stream /\ asked' = o.asked
      /\ last' = [ iocb |-> o.iocb, result |-> o.result, failed |-> o.failed ]
      /\ done' = (IF o.result = 0 /\ o.ctx.istate = "RECV_HEADER1" THEN done + 1 ELSE done)
      /\ peer' = peer
  BY <1>1 DEF IsStep
<1>3. w.peer = peer /\ peer \in Seq(Frames) /\ Len(peer) <= MaxFrames /\ Len(peer) \in Nat
      /\ done \in Nat
  BY <1>2 DEF ParseInv, IsPeer, TypeOK
<1>4. PICK k \in Nat : k = Progress(ctx) /\ PassedOn = ViewAt(k, done)
  BY <1>2, ViewIs DEF ViewRight
<1>5. PassedOn' = ViewAt(Progress(ctx), done)' /\ (Progress(ctx) \in Nat)'
  <2>1. TypeOK'
    BY DEF RecvInv
  <2> QED  BY <2>1, ViewWillBe DEF ViewRight
<1>6. PassedOn' = ViewAt(Progress(o.ctx), done')
  BY <1>2, <1>5 DEF ViewAt, Progress
<1>7. CASE Waits(o, w, done, Progress(ctx))
  <2>1. /\ Progress(o.ctx) = k /\ o.iocb = NoIocb /\ o.result = WSLAY_ERR_WANT_READ
        /\ o.failed \in BOOLEAN
    BY <1>4, <1>7, CallFacts DEF Waits
  <2>2. done' = done
    BY <1>2, <2>1 DEF WSLAY_ERR_WANT_READ
  <2>3. PassedOn' = PassedOn
    BY <1>4, <1>6, <2>1, <2>2
  <2>4. PICK x : x = [ source |-> PassedOn, iocb |-> NoIocb, result |-> WSLAY_ERR_WANT_READ,
                       failed |-> o.failed ]
    OBVIOUS
  <2>5. x \in Source!wslay_frame_recv(PassedOn)
    BY <2>1, <2>4, NothingAllowed
  <2> QED  BY <1>2, <2>1, <2>3, <2>4, <2>5, AnswerIsStep
<1>8. CASE Refuses(o, w, done, Progress(ctx))
  <2>1. /\ k = 0 /\ Progress(o.ctx) = 0 /\ o.iocb = NoIocb /\ o.result = WSLAY_ERR_PROTO
        /\ o.failed = FALSE
    <3>1. o.failed \in BOOLEAN
      BY <1>8, CallFacts DEF Refuses
    <3> QED  BY <1>4, <1>8, <3>1 DEF Refuses, Progress
  <2>2. done' = done
    BY <1>2, <2>1 DEF WSLAY_ERR_PROTO
  <2>3. PassedOn' = PassedOn
    BY <1>4, <1>6, <2>1, <2>2
  <2>4. ~PassedOn.open
    BY <1>4, <2>1, ViewClosed
  <2>5. PICK x : x = [ source |-> PassedOn, iocb |-> NoIocb, result |-> WSLAY_ERR_PROTO,
                       failed |-> FALSE ]
    OBVIOUS
  <2>6. x \in Source!wslay_frame_recv(PassedOn)
    BY <2>4, <2>5, NothingAllowed
  <2> QED  BY <1>2, <2>1, <2>3, <2>5, <2>6, AnswerIsStep
<1>9. CASE Passes(o, w, done, Progress(ctx))
  <2>1. /\ done < Len(peer) /\ o.result = 0 /\ o.failed = FALSE
    <3>1. o.failed \in BOOLEAN
      BY <1>9, CallFacts DEF Passes
    <3> QED  BY <1>3, <1>9, <3>1 DEF Passes
  <2>2. PICK f \in Frames : f = peer[done + 1]
    BY <1>3, <2>1
  <2>3. PICK n \in Nat :
          /\ IsChunk(f, k, n) /\ o.iocb = ChunkOf(f, k, n)
          /\ IF n = Len(f.payload) THEN o.ctx.istate = "RECV_HEADER1"
             ELSE o.ctx.istate = "RECV_PAYLOAD" /\ o.ctx.ipayloadoff = n
    BY <1>3, <1>4, <1>9, <2>2 DEF Passes
  <2>4. PICK p : p = SubSeq(peer, 1, done + 1)
    OBVIOUS
  <2>5. Len(f.payload) \in Nat
    BY FrameFacts
  <2>6. PassedOn' = [ peer |-> p, taken |-> n, open |-> n < Len(f.payload) ]
    <3>1. CASE n = Len(f.payload)
      <4>1. Progress(o.ctx) = 0 /\ done' = done + 1
        BY <1>2, <2>1, <2>3, <3>1 DEF Progress
      <4>2. PassedOn' = ViewAt(0, done + 1)
        BY <1>6, <4>1
      <4>3. done + 1 # 0 /\ (n < Len(f.payload)) = FALSE
        BY <1>3, <2>5, <3>1
      <4>4. ViewAt(0, done + 1) = [ peer |-> p, taken |-> n, open |-> FALSE ]
        BY <2>2, <2>4, <3>1, <4>3, ViewClosed
      <4> QED  BY <4>2, <4>3, <4>4, Zenon
    <3>2. CASE n # Len(f.payload)
      <4>1. Progress(o.ctx) = n /\ done' = done
        BY <1>2, <2>3, <3>2 DEF Progress
      <4>2. PassedOn' = ViewAt(n, done)
        BY <1>6, <4>1
      <4>3. n > 0 /\ (n < Len(f.payload)) = TRUE
        BY <2>3, <2>5, <3>2 DEF IsChunk
      <4>4. ViewAt(n, done) = [ peer |-> p, taken |-> n, open |-> TRUE ]
        BY <2>4, <4>3, ViewOpen
      <4> QED  BY <4>2, <4>3, <4>4, Zenon
    <3> QED  BY <3>1, <3>2
  <2>7. PICK x : x = [ source |-> [ peer |-> p, taken |-> n, open |-> n < Len(f.payload) ],
                       iocb |-> ChunkOf(f, k, n), result |-> 0, failed |-> FALSE ]
    OBVIOUS
  <2>8. x \in Source!Chunks(p, f, k)
    BY <2>3, <2>7, ChunkAllowed
  <2>9. x \in Source!wslay_frame_recv(PassedOn)
    <3>1. /\ Len(SubSeq(peer, 1, done)) = done
          /\ Len(p) = done + 1 /\ p[done + 1] = f
          /\ Append(SubSeq(peer, 1, done), f) = p
      BY <1>3, <2>1, <2>2, <2>4, Prefixes
    <3>2. CASE k > 0
      <4>1. PassedOn.open /\ PassedOn.peer = p /\ PassedOn.taken = k
        BY <1>4, <2>4, <3>2, ViewOpen
      <4> QED  BY <2>8, <3>1, <4>1 DEF Source!wslay_frame_recv
    <3>3. CASE k = 0
      <4>1. ~PassedOn.open /\ PassedOn.peer = SubSeq(peer, 1, done)
        BY <1>4, <3>3, ViewClosed
      <4>2. Len(PassedOn.peer) < MaxFrames
        BY <1>3, <2>1, <3>1, <4>1, FrameRecvAssumption
      <4>3. x \in Source!Chunks(Append(PassedOn.peer, f), f, 0)
        BY <2>8, <3>1, <3>3, <4>1
      <4> QED  BY <4>1, <4>2, <4>3 DEF Source!wslay_frame_recv
    <3> QED  BY <3>2, <3>3
  <2> QED  BY <1>2, <2>1, <2>3, <2>6, <2>7, <2>9, AnswerIsStep
<1> QED  BY <1>1, <1>7, <1>8, <1>9 DEF IsStep

(* The parser starts where FrameSource does.                               *)
LEMMA InitRefines == Init => Source!Init
<1> SUFFICES ASSUME Init PROVE Source!Init
  OBVIOUS
<1>1. TypeOK
  BY InitRecv DEF RecvInv
<1>2. PassedOn = ViewAt(Progress(ctx), done)
  BY <1>1, ViewIs DEF ViewRight
<1>3. Progress(ctx) = 0 /\ done = 0
  BY DEF Init, Progress
<1>4. PassedOn = [ peer |-> << >>, taken |-> 0, open |-> FALSE ]
  <2>1. SubSeq(peer, 1, 0) = << >>
    BY <1>1 DEF TypeOK
  <2> QED  BY <1>2, <1>3, <2>1, ViewClosed
<1>5. last = [ iocb |-> NoIocb, result |-> 0, failed |-> FALSE ]
  BY DEF Init
<1> QED  BY <1>4, <1>5 DEF Source!Init, Source!SourceInit, Source!NoIocb, NoIocb

(* The parser implements FrameSource, which is all that the event layer's  *)
(* modules rely on: the frames come out one after the other, each as       *)
(* chunks of its payload in order, unmasked, with the head of their own    *)
(* frame, for every buffer size of at least 8 bytes and every way the      *)
(* socket cuts the bytes (frame.c 196-323).                                *)
THEOREM FrameRecvImplementsFrameSource == Spec => ImplementsSource
<1>1. Spec => []RecvInv
  BY InitRecv, NextRecv, PTL DEF Spec
<1>2. ASSUME RecvInv, RecvInv', [Next]_vars
      PROVE  [Source!Next]_<< PassedOn, last >>
  <2>1. CASE Next
    BY <1>2, <2>1, StepRefines
  <2>2. CASE UNCHANGED vars
    BY <2>2 DEF vars, PassedOn, IsOpen, Passed
  <2> QED  BY <1>2, <2>1, <2>2
<1> QED
  BY <1>1, <1>2, InitRefines, PTL DEF Spec, ImplementsSource, Source!Spec
=============================================================================
