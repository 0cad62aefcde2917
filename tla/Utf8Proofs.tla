----------------------------- MODULE Utf8Proofs -----------------------------
(***************************************************************************)
(* The automaton of utf8.c decides, for a text of any length and in        *)
(* pieces of any length, whether the text is UTF-8 as RFC 3629 defines it, *)
(* and whether it can still become so (DecodeAllJudges, DecodeAllConcat),  *)
(* and so does every behaviour of Utf8Scan (AutomatonDecidesUtf8).         *)
(* Before that, induction along a sequence, for every definition of the    *)
(* project that folds one.                                                 *)
(***************************************************************************)
EXTENDS Utf8Scan, SequenceTheorems, WellFoundedInduction, TLAPS

(* A nonempty set of natural numbers has a least one: where an induction   *)
(* starts from.                                                            *)
LEMMA LeastNat ==
    ASSUME NEW T \in SUBSET Nat, T # {}
    PROVE  \E n \in T : \A m \in T : n <= m
<1> DEFINE Less == { p \in Nat \X Nat : p[1] < p[2] }
<1>1. IsWellFoundedOn(Less, Nat)
  BY NatLessThanWellFounded, Zenon DEF OpToRel
<1>2. PICK n \in T : \A m \in T : ~(<< m, n >> \in Less)
  <2> HIDE DEF Less
  <2> QED  BY <1>1, WFMin, Zenon
<1>3. \A m \in T : ~(m < n)
  BY <1>2
<1> QED
  BY <1>3

(* Induction up to n, in a form that needs no predicate as a parameter: a  *)
(* set of numbers that has 0 and, with i, i + 1, has all of them.          *)
LEMMA InductionUpTo ==
    ASSUME NEW n \in Nat, NEW T, 0 \in T, \A i \in 1..n : i - 1 \in T => i \in T
    PROVE  \A i \in 0..n : i \in T
<1> SUFFICES ASSUME NEW k \in 0..n, k \notin T PROVE FALSE
  OBVIOUS
<1> DEFINE Rest == { i \in 0..n : i \notin T }
<1>1. Rest \in SUBSET Nat /\ k \in Rest
  OBVIOUS
<1>2. PICK m \in Rest : \A i \in Rest : m <= i
  <2> HIDE DEF Rest
  <2> QED  BY <1>1, LeastNat
<1>3. m # 0 /\ m \in 1..n
  BY <1>2
<1>4. m - 1 \in T
  <2>1. m - 1 \in 0..n /\ ~(m <= m - 1)
    BY <1>3
  <2> QED
    BY <1>2, <2>1
<1> QED
  BY <1>2, <1>3, <1>4

(* The functions that take a state in S over an element in T, and how one  *)
(* of them is folded along a sequence.                                     *)
Steps(S, T) == [ S \X T -> S ]

IsFold(f, base, step, s) ==
    f[0] = base /\ \A i \in 1..Len(s) : f[i] = step[<< f[i - 1], s[i] >>]

(* Folding a sequence step by step is possible.                            *)
LEMMA FoldExists ==
    ASSUME NEW S, NEW T, NEW base \in S, NEW step \in Steps(S, T), NEW s \in Seq(T)
    PROVE  \E f \in [ 0..Len(s) -> S ] : IsFold(f, base, step, s)
<1> USE DEF Steps
<1> DEFINE P(n) == \E f \in [ 0..n -> S ] :
                     f[0] = base /\ \A i \in 1..n : f[i] = step[<< f[i - 1], s[i] >>]
           Good == { n \in 0..Len(s) : P(n) }
<1>1. Len(s) \in Nat /\ \A i \in 1..Len(s) : s[i] \in T
  OBVIOUS
<1>2. P(0)
  <2> DEFINE f == [ i \in 0..0 |-> base ]
  <2>1. f \in [ 0..0 -> S ] /\ f[0] = base /\ \A i \in 1..0 : f[i] = step[<< f[i - 1], s[i] >>]
    OBVIOUS
  <2> QED
    BY <2>1
<1>3. ASSUME NEW n \in 1..Len(s), P(n - 1) PROVE P(n)
  <2>1. PICK f \in [ 0..(n - 1) -> S ] :
          f[0] = base /\ \A i \in 1..(n - 1) : f[i] = step[<< f[i - 1], s[i] >>]
    BY <1>3
  <2> DEFINE g == [ i \in 0..n |-> IF i = n THEN step[<< f[n - 1], s[n] >>] ELSE f[i] ]
  <2>2. n \in Nat /\ n - 1 \in 0..(n - 1) /\ f[n - 1] \in S /\ s[n] \in T
    BY <1>1
  <2>3. << f[n - 1], s[n] >> \in S \X T
    BY <2>2
  <2>4. step[<< f[n - 1], s[n] >>] \in S
    BY <2>3
  <2>5. g \in [ 0..n -> S ]
    BY <2>2, <2>4
  <2>6. \A i \in 0..(n - 1) : g[i] = f[i]
    BY <2>2
  <2>7. g[n] = step[<< f[n - 1], s[n] >>]
    BY <2>2
  <2> HIDE DEF g
  <2>8. g[0] = base
    BY <2>1, <2>2, <2>6
  <2>9. ASSUME NEW i \in 1..n PROVE g[i] = step[<< g[i - 1], s[i] >>]
    <3>1. CASE i = n
      BY <2>2, <2>6, <2>7, <3>1
    <3>2. CASE i # n
      <4>1. i \in 1..(n - 1) /\ i \in 0..(n - 1) /\ i - 1 \in 0..(n - 1)
        BY <2>2, <3>2
      <4> QED
        BY <2>1, <2>6, <4>1
    <3> QED
      BY <3>1, <3>2
  <2> QED
    BY <2>5, <2>8, <2>9
<1>4. 0 \in Good /\ \A n \in 1..Len(s) : n - 1 \in Good => n \in Good
  <2> HIDE DEF P
  <2> QED
    BY <1>1, <1>2, <1>3
<1>5. \A n \in 0..Len(s) : n \in Good
  <2> HIDE DEF Good
  <2> QED
    BY <1>1, <1>4, InductionUpTo
<1>6. P(Len(s))
  <2> HIDE DEF P
  <2> QED
    BY <1>1, <1>5
<1> QED
  BY <1>6 DEF IsFold

(* t is s and one element more.                                            *)
IsExtension(s, t) ==
    Len(s) \in Nat /\ Len(t) = Len(s) + 1 /\ \A i \in 1..Len(s) : t[i] = s[i]

IsNextStep(f, g, step, s, t) ==
    g[Len(s) + 1] = step[<< f[Len(s)], t[Len(s) + 1] >>]

(* ... and in one way only: a longer sequence takes one step more.         *)
LEMMA FoldAppend ==
    ASSUME NEW base, NEW step, NEW s, NEW t, IsExtension(s, t),
           NEW f, IsFold(f, base, step, s), NEW g, IsFold(g, base, step, t)
    PROVE  IsNextStep(f, g, step, s, t)
<1> DEFINE n == Len(s)
           Same == { i \in 0..n : f[i] = g[i] }
<1>1. n \in Nat /\ Len(t) = n + 1 /\ \A i \in 1..n : t[i] = s[i]
  BY DEF IsExtension
<1> HIDE DEF n
<1>2. 0 \in Same
  BY <1>1 DEF IsFold
<1>3. ASSUME NEW i \in 1..n, i - 1 \in Same PROVE i \in Same
  <2>1. f[i - 1] = g[i - 1] /\ s[i] = t[i] /\ i \in 1..(n + 1) /\ i \in 0..n
    BY <1>1, <1>3
  <2>2. f[i] = step[<< f[i - 1], s[i] >>] /\ g[i] = step[<< g[i - 1], t[i] >>]
    BY <1>1, <2>1 DEF IsFold, n
  <2> QED
    BY <2>1, <2>2
<1>4. n \in Same
  <2>1. \A i \in 0..n : i \in Same
    <3> HIDE DEF Same
    <3> QED
      BY <1>1, <1>2, <1>3, InductionUpTo
  <2> QED
    BY <1>1, <2>1
<1>5. n + 1 \in 1..(n + 1) /\ (n + 1) - 1 = n
  BY <1>1
<1>6. g[n + 1] = step[<< g[n], t[n + 1] >>]
  BY <1>1, <1>5 DEF IsFold
<1> QED
  BY <1>4, <1>6 DEF IsNextStep, n

-----------------------------------------------------------------------------
(* The automaton *)

Octet == 0..255

(* One turn of the loops that run decode.                                  *)
Run(state, byte) == IF state = UTF8_REJECT THEN UTF8_REJECT ELSE decode(state, byte)

(* The table has a row of twelve entries for every state, all of them      *)
(* states, and every byte has a class.                                     *)
LEMMA DecodeType ==
    ASSUME NEW state \in Utf8States, NEW byte \in Octet
    PROVE  decode(state, byte) \in Utf8States
<1>1. CharClass(byte) \in 0..11
  BY DEF CharClass, Octet
<1>2. PICK k \in 0..8 : state = 12 * k
  BY DEF Utf8States
<1>3. state + CharClass(byte) + 1 \in 1..108
  BY <1>1, <1>2
<1>4. \A i \in 1..108 : Transitions[i] \in Utf8States
  <2>1. Utf8States = {0, 12, 24, 36, 48, 60, 72, 84, 96}
    BY DEF Utf8States
  <2> QED
    BY <2>1 DEF Transitions
<1> QED
  BY <1>3, <1>4 DEF decode

(* DecodeAll runs the automaton along the bytes.                           *)
LEMMA DecodeAllRuns ==
    ASSUME NEW state \in Utf8States, NEW data \in Seq(Octet)
    PROVE  \E f \in [ 0..Len(data) -> Utf8States ] :
             /\ f[0] = state
             /\ \A i \in 1..Len(data) : f[i] = Run(f[i - 1], data[i])
             /\ DecodeAll(state, data) = f[Len(data)]
<1> DEFINE n == Len(data)
           step == [ p \in Utf8States \X Octet |-> Run(p[1], p[2]) ]
           Walk(f) == [ i \in 0..n |-> IF i = 0 THEN state
                                       ELSE IF f[i - 1] = UTF8_REJECT THEN UTF8_REJECT
                                       ELSE decode(f[i - 1], data[i]) ]
           at == CHOOSE f : f = Walk(f)
<1>1. n \in Nat /\ \A i \in 1..n : data[i] \in Octet
  OBVIOUS
<1>2. \A s \in Utf8States, b \in Octet : Run(s, b) \in Utf8States
  <2>1. UTF8_REJECT \in Utf8States
    BY DEF UTF8_REJECT, Utf8States
  <2> QED
    BY <2>1, DecodeType DEF Run
<1>3. step \in Steps(Utf8States, Octet)
  BY <1>2 DEF Steps
<1>4. \A s \in Utf8States, b \in Octet : step[<< s, b >>] = Run(s, b)
  OBVIOUS
<1> HIDE DEF step
<1>5. PICK f \in [ 0..n -> Utf8States ] : IsFold(f, state, step, data)
  BY <1>3, FoldExists
<1>6. \A i \in 1..n : i - 1 \in 0..n /\ f[i] = Run(f[i - 1], data[i])
  <2> SUFFICES ASSUME NEW i \in 1..n PROVE i - 1 \in 0..n /\ f[i] = Run(f[i - 1], data[i])
    OBVIOUS
  <2>1. i - 1 \in 0..n /\ data[i] \in Octet
    BY <1>1
  <2>2. f[i - 1] \in Utf8States
    BY <2>1
  <2>3. f[i] = step[<< f[i - 1], data[i] >>]
    BY <1>5 DEF IsFold
  <2> QED
    BY <1>4, <2>1, <2>2, <2>3
<1>7. f = Walk(f)
  <2>1. \A i \in 0..n : f[i] = Walk(f)[i]
    BY <1>1, <1>5, <1>6 DEF Run, IsFold
  <2> QED
    BY <2>1
<1>8. at = Walk(at)
  BY <1>7, Zenon
<1>9. DecodeAll(state, data) = at[n]
  BY Zenon DEF DecodeAll
<1> HIDE DEF at
<1>10. \A i \in 0..n : at[i] = f[i]
  <2> DEFINE Same == { i \in 0..n : at[i] = f[i] }
  <2>1. 0 \in Same
    BY <1>1, <1>5, <1>8 DEF IsFold
  <2>2. ASSUME NEW i \in 1..n, i - 1 \in Same PROVE i \in Same
    <3>1. at[i - 1] = f[i - 1]
      BY <2>2
    <3>2. at[i] = Run(at[i - 1], data[i])
      BY <1>1, <1>8 DEF Run
    <3> QED
      BY <1>1, <1>6, <3>1, <3>2
  <2>3. \A i \in 0..n : i \in Same
    <3> HIDE DEF Same
    <3> QED
      BY <1>1, <2>1, <2>2, InductionUpTo
  <2> QED
    BY <2>3
<1> QED
  BY <1>1, <1>5, <1>6, <1>9, <1>10 DEF IsFold

(* The class of every byte.                                                *)
HasClass(b, c) ==
    /\ b \in 0..127 => c = 0
    /\ b \in 128..143 => c = 1
    /\ b \in 144..159 => c = 9
    /\ b \in 160..191 => c = 7
    /\ b \in 192..193 => c = 8
    /\ b \in 194..223 => c = 2
    /\ b \in {224} => c = 10
    /\ b \in 225..236 => c = 3
    /\ b \in {237} => c = 4
    /\ b \in 238..239 => c = 3
    /\ b \in {240} => c = 11
    /\ b \in 241..243 => c = 6
    /\ b \in {244} => c = 5
    /\ b \in 245..255 => c = 8

LEMMA ClassOf ==
    ASSUME NEW b \in Octet
    PROVE  HasClass(b, CharClass(b)) /\ CharClass(b) \in 0..11
<1>0. b \in Int /\ 0 <= b /\ b <= 255
  BY DEF Octet
<1>1. b \in 0..127 => CharClass(b) = 0
  BY <1>0 DEF CharClass
<1>2. b \in 128..143 => CharClass(b) = 1
  BY <1>0 DEF CharClass
<1>3. b \in 144..159 => CharClass(b) = 9
  BY <1>0 DEF CharClass
<1>4. b \in 160..191 => CharClass(b) = 7
  BY <1>0 DEF CharClass
<1>5. b \in 192..193 => CharClass(b) = 8
  BY <1>0 DEF CharClass
<1>6. b \in 194..223 => CharClass(b) = 2
  BY <1>0 DEF CharClass
<1>7. b \in {224} => CharClass(b) = 10
  BY <1>0 DEF CharClass
<1>8. b \in 225..236 => CharClass(b) = 3
  BY <1>0 DEF CharClass
<1>9. b \in {237} => CharClass(b) = 4
  BY <1>0 DEF CharClass
<1>10. b \in 238..239 => CharClass(b) = 3
  BY <1>0 DEF CharClass
<1>11. b \in {240} => CharClass(b) = 11
  BY <1>0 DEF CharClass
<1>12. b \in 241..243 => CharClass(b) = 6
  BY <1>0 DEF CharClass
<1>13. b \in {244} => CharClass(b) = 5
  BY <1>0 DEF CharClass
<1>14. b \in 245..255 => CharClass(b) = 8
  BY <1>0 DEF CharClass
<1> DEFINE c == CharClass(b)
<1>15. HasClass(b, c)
  BY <1>1, <1>2, <1>3, <1>4, <1>5, <1>6, <1>7, <1>8, <1>9, <1>10, <1>11, <1>12, <1>13, <1>14 DEF HasClass
<1> HIDE DEF c
<1>16. c \in 0..11
  BY <1>0, <1>15 DEF HasClass
<1> QED
  BY <1>15, <1>16 DEF c

(* The first byte of a character says how it goes on.                      *)
AfterFirst(b) ==
    IF b \in 0..127 THEN 0 ELSE IF b \in 194..223 THEN 24
    ELSE IF b = 224 THEN 48 ELSE IF b = 237 THEN 60 ELSE IF b \in 225..239 THEN 36
    ELSE IF b = 240 THEN 72 ELSE IF b \in 241..243 THEN 84 ELSE IF b = 244 THEN 96
    ELSE UTF8_REJECT

LEMMA DecodeFirst ==
    ASSUME NEW b \in Octet
    PROVE  decode(UTF8_ACCEPT, b) = AfterFirst(b)
<1> DEFINE c == CharClass(b)
<1>1. c \in 0..11 /\ decode(UTF8_ACCEPT, b) = Transitions[c + 1]
  <2>1. c \in 0..11
    BY ClassOf
  <2>2. decode(UTF8_ACCEPT, b) = Transitions[0 + c + 1]
    BY DEF decode, UTF8_ACCEPT
  <2> HIDE DEF c
  <2> QED
    BY <2>1, <2>2
<1>2. /\ Transitions[0 + 1] = 0 /\ Transitions[2 + 1] = 24 /\ Transitions[10 + 1] = 48
      /\ Transitions[3 + 1] = 36 /\ Transitions[4 + 1] = 60 /\ Transitions[11 + 1] = 72
      /\ Transitions[6 + 1] = 84 /\ Transitions[5 + 1] = 96
      /\ \A k \in {1, 7, 8, 9} : Transitions[k + 1] = UTF8_REJECT
  BY DEF Transitions, UTF8_REJECT
<1>3. HasClass(b, c)
  BY ClassOf
<1> HIDE DEF c
<1> QED
  BY <1>1, <1>2, <1>3 DEF AfterFirst, Octet, HasClass, UTF8_ACCEPT

(* A byte inside a character: in a range, or rejected.                     *)
LEMMA DecodeTail ==
    ASSUME NEW b \in Octet
    PROVE  /\ decode(24, b) = IF b \in 128..191 THEN UTF8_ACCEPT ELSE UTF8_REJECT
           /\ decode(36, b) = IF b \in 128..191 THEN 24 ELSE UTF8_REJECT
           /\ decode(48, b) = IF b \in 160..191 THEN 24 ELSE UTF8_REJECT
           /\ decode(60, b) = IF b \in 128..159 THEN 24 ELSE UTF8_REJECT
           /\ decode(72, b) = IF b \in 144..191 THEN 36 ELSE UTF8_REJECT
           /\ decode(84, b) = IF b \in 128..191 THEN 36 ELSE UTF8_REJECT
           /\ decode(96, b) = IF b \in 128..143 THEN 36 ELSE UTF8_REJECT
<1> DEFINE c == CharClass(b)
           Row(s, on1, on9, on7) ==
             \A k \in 0..11 : Transitions[s + k + 1] =
               IF k = 1 THEN on1 ELSE IF k = 9 THEN on9 ELSE IF k = 7 THEN on7 ELSE 12
<1>1. c \in 0..11 /\ HasClass(b, c)
  BY ClassOf
<1>5. \A s \in Int : decode(s, b) = Transitions[s + c + 1]
  BY DEF decode
<1> HIDE DEF c
<1>2. /\ b \in 128..143 <=> c = 1
      /\ b \in 144..159 <=> c = 9
      /\ b \in 160..191 <=> c = 7
  BY <1>1 DEF HasClass, Octet
<1>3. Row(24, 0, 0, 0) /\ Row(36, 24, 24, 24) /\ Row(48, 12, 12, 24) /\ Row(60, 24, 24, 12)
  BY DEF Transitions
<1>4. Row(72, 12, 36, 36) /\ Row(84, 36, 36, 36) /\ Row(96, 36, 12, 12)
  BY DEF Transitions
<1>6. b \in 128..191 <=> c \in {1, 7, 9}
  BY <1>2
<1>7. b \in 128..159 <=> c \in {1, 9}
  BY <1>2
<1>8. b \in 144..191 <=> c \in {7, 9}
  BY <1>2
<1>9. decode(24, b) = IF b \in 128..191 THEN UTF8_ACCEPT ELSE UTF8_REJECT
  BY <1>1, <1>3, <1>5, <1>6 DEF UTF8_ACCEPT, UTF8_REJECT
<1>10. decode(36, b) = IF b \in 128..191 THEN 24 ELSE UTF8_REJECT
  BY <1>1, <1>3, <1>5, <1>6 DEF UTF8_ACCEPT, UTF8_REJECT
<1>11. decode(48, b) = IF b \in 160..191 THEN 24 ELSE UTF8_REJECT
  BY <1>1, <1>3, <1>5, <1>2 DEF UTF8_ACCEPT, UTF8_REJECT
<1>12. decode(60, b) = IF b \in 128..159 THEN 24 ELSE UTF8_REJECT
  BY <1>1, <1>3, <1>5, <1>7 DEF UTF8_ACCEPT, UTF8_REJECT
<1>13. decode(72, b) = IF b \in 144..191 THEN 36 ELSE UTF8_REJECT
  BY <1>1, <1>4, <1>5, <1>8 DEF UTF8_ACCEPT, UTF8_REJECT
<1>14. decode(84, b) = IF b \in 128..191 THEN 36 ELSE UTF8_REJECT
  BY <1>1, <1>4, <1>5, <1>6 DEF UTF8_ACCEPT, UTF8_REJECT
<1>15. decode(96, b) = IF b \in 128..143 THEN 36 ELSE UTF8_REJECT
  BY <1>1, <1>4, <1>5, <1>2 DEF UTF8_ACCEPT, UTF8_REJECT
<1> QED
  BY <1>9, <1>10, <1>11, <1>12, <1>13, <1>14, <1>15
-----------------------------------------------------------------------------
(* The reference *)

(* The second byte of a character is narrower after four first bytes.      *)
Second(b) ==
    IF b = 224 THEN 160..191 ELSE IF b = 237 THEN 128..159
    ELSE IF b = 240 THEN 144..191 ELSE IF b = 244 THEN 128..143 ELSE 128..191

CharLen(b) == IF b <= 127 THEN 1 ELSE IF b <= 223 THEN 2 ELSE IF b <= 239 THEN 3 ELSE 4

(* The n bytes b1, b2, b3, b4 are a character or begin one: Utf8Char, by   *)
(* the first byte.                                                         *)
OpensBy(n, b1, b2, b3, b4) ==
    /\ b1 \in 0..127 \cup 194..244 /\ n <= CharLen(b1)
    /\ n >= 2 => b2 \in Second(b1)
    /\ n >= 3 => b3 \in 128..191
    /\ n >= 4 => b4 \in 128..191

Opens(q) == OpensBy(Len(q), q[1], q[2], q[3], q[4])

(* q fits in a row of Utf8Char.                                            *)
FitsRow(q, c) == Len(q) <= Len(c) /\ \A i \in 1..Len(q) : q[i] \in c[i]

Row1(n, b1, A) == n <= 1 /\ b1 \in A
Row2(n, b1, b2, A, B) == n <= 2 /\ b1 \in A /\ (n >= 2 => b2 \in B)
Row3(n, b1, b2, b3, A, B, C) ==
    n <= 3 /\ b1 \in A /\ (n >= 2 => b2 \in B) /\ (n >= 3 => b3 \in C)
Row4(n, b1, b2, b3, b4, A, B, C, D) ==
    /\ n <= 4 /\ b1 \in A /\ (n >= 2 => b2 \in B) /\ (n >= 3 => b3 \in C)
    /\ (n >= 4 => b4 \in D)

LEMMA RowsByLength ==
    ASSUME NEW q \in Seq(Octet), Len(q) >= 1, NEW A, NEW B, NEW C, NEW D
    PROVE  /\ FitsRow(q, << A >>) <=> Row1(Len(q), q[1], A)
           /\ FitsRow(q, << A, B >>) <=> Row2(Len(q), q[1], q[2], A, B)
           /\ FitsRow(q, << A, B, C >>) <=> Row3(Len(q), q[1], q[2], q[3], A, B, C)
           /\ FitsRow(q, << A, B, C, D >>) <=> Row4(Len(q), q[1], q[2], q[3], q[4], A, B, C, D)
<1>1. FitsRow(q, << A >>) <=> Row1(Len(q), q[1], A)
  BY DEF FitsRow, Row1
<1>2. FitsRow(q, << A, B >>) <=> Row2(Len(q), q[1], q[2], A, B)
  BY DEF FitsRow, Row2
<1>3. FitsRow(q, << A, B, C >>) <=> Row3(Len(q), q[1], q[2], q[3], A, B, C)
  BY DEF FitsRow, Row3
<1>4. FitsRow(q, << A, B, C, D >>) <=> Row4(Len(q), q[1], q[2], q[3], q[4], A, B, C, D)
  BY DEF FitsRow, Row4
<1> QED
  BY <1>1, <1>2, <1>3, <1>4

AnyRow(n, b1, b2, b3, b4, T) ==
    \/ Row1(n, b1, 0..127) \/ Row2(n, b1, b2, 194..223, T)
    \/ Row3(n, b1, b2, b3, {224}, 160..191, T) \/ Row3(n, b1, b2, b3, 225..236, T, T)
    \/ Row3(n, b1, b2, b3, {237}, 128..159, T) \/ Row3(n, b1, b2, b3, 238..239, T, T)
    \/ Row4(n, b1, b2, b3, b4, {240}, 144..191, T, T)
    \/ Row4(n, b1, b2, b3, b4, 241..243, T, T, T)
    \/ Row4(n, b1, b2, b3, b4, {244}, 128..143, T, T)

LEMMA RowsByFirst ==
    ASSUME NEW n \in Nat, n >= 1, NEW b1 \in Octet, NEW b2, NEW b3, NEW b4, NEW T, T = 128..191
    PROVE  OpensBy(n, b1, b2, b3, b4) <=> AnyRow(n, b1, b2, b3, b4, T)
<1> USE DEF AnyRow, OpensBy, Row1, Row2, Row3, Row4
<1>0. b1 \in Int /\ 0 <= b1 /\ b1 <= 255
  BY DEF Octet
<1>1. CASE b1 <= 127
  BY <1>0, <1>1 DEF CharLen
<1>2. CASE b1 >= 128 /\ b1 <= 193
  BY <1>0, <1>2
<1>3. CASE b1 >= 194 /\ b1 <= 223
  BY <1>0, <1>3 DEF CharLen, Second
<1>4. CASE b1 = 224
  BY <1>4 DEF CharLen, Second
<1>5. CASE b1 >= 225 /\ b1 <= 236
  BY <1>0, <1>5 DEF CharLen, Second
<1>6. CASE b1 = 237
  BY <1>6 DEF CharLen, Second
<1>7. CASE b1 >= 238 /\ b1 <= 239
  BY <1>0, <1>7 DEF CharLen, Second
<1>8. CASE b1 = 240
  BY <1>8 DEF CharLen, Second
<1>9. CASE b1 >= 241 /\ b1 <= 243
  BY <1>0, <1>9 DEF CharLen, Second
<1>10. CASE b1 = 244
  BY <1>10 DEF CharLen, Second
<1>11. CASE b1 >= 245
  BY <1>0, <1>11
<1> QED
  BY <1>0, <1>1, <1>2, <1>3, <1>4, <1>5, <1>6, <1>7, <1>8, <1>9, <1>10, <1>11

(* The rows of Utf8Char, by the first byte.                                *)
LEMMA OpensIsRow ==
    ASSUME NEW q \in Seq(Octet), Len(q) >= 1
    PROVE  Opens(q) <=> \E c \in Utf8Char : FitsRow(q, c)
<1> DEFINE T == Tail80BF
           c1 == << 0..127 >>
           c2 == << 194..223, T >>
           c3 == << {224}, 160..191, T >>
           c4 == << 225..236, T, T >>
           c5 == << {237}, 128..159, T >>
           c6 == << 238..239, T, T >>
           c7 == << {240}, 144..191, T, T >>
           c8 == << 241..243, T, T, T >>
           c9 == << {244}, 128..143, T, T >>
           n == Len(q)
<1>1. Utf8Char = {c1, c2, c3, c4, c5, c6, c7, c8, c9}
  BY Zenon DEF Utf8Char
<1> HIDE DEF T
<1>2. FitsRow(q, c1) <=> Row1(n, q[1], 0..127)
  BY RowsByLength
<1>3. FitsRow(q, c2) <=> Row2(n, q[1], q[2], 194..223, T)
  BY RowsByLength
<1>4. FitsRow(q, c3) <=> Row3(n, q[1], q[2], q[3], {224}, 160..191, T)
  BY RowsByLength, ZenonT(40)
<1>5. FitsRow(q, c4) <=> Row3(n, q[1], q[2], q[3], 225..236, T, T)
  BY RowsByLength, ZenonT(40)
<1>6. FitsRow(q, c5) <=> Row3(n, q[1], q[2], q[3], {237}, 128..159, T)
  BY RowsByLength, ZenonT(40)
<1>7. FitsRow(q, c6) <=> Row3(n, q[1], q[2], q[3], 238..239, T, T)
  BY RowsByLength, ZenonT(40)
<1>8. FitsRow(q, c7) <=> Row4(n, q[1], q[2], q[3], q[4], {240}, 144..191, T, T)
  BY RowsByLength, ZenonT(40)
<1>9. FitsRow(q, c8) <=> Row4(n, q[1], q[2], q[3], q[4], 241..243, T, T, T)
  BY RowsByLength, ZenonT(40)
<1>10. FitsRow(q, c9) <=> Row4(n, q[1], q[2], q[3], q[4], {244}, 128..143, T, T)
  BY RowsByLength, ZenonT(40)
<1> HIDE DEF c1, c2, c3, c4, c5, c6, c7, c8, c9
<1>11. (\E c \in Utf8Char : FitsRow(q, c)) <=>
         \/ FitsRow(q, c1) \/ FitsRow(q, c2) \/ FitsRow(q, c3) \/ FitsRow(q, c4)
         \/ FitsRow(q, c5) \/ FitsRow(q, c6) \/ FitsRow(q, c7) \/ FitsRow(q, c8)
         \/ FitsRow(q, c9)
  BY <1>1, Zenon
<1>12. n \in Nat /\ q[1] \in Octet /\ n >= 1
  OBVIOUS
<1>13. T = 128..191
  BY DEF T, Tail80BF
<1>15. Opens(q) <=> OpensBy(n, q[1], q[2], q[3], q[4])
  BY DEF Opens
<1> HIDE DEF n
<1> DEFINE Any == AnyRow(n, q[1], q[2], q[3], q[4], T)
<1>16. Opens(q) <=> Any
  BY <1>12, <1>13, <1>15, RowsByFirst
<1>17. Any <=> \/ FitsRow(q, c1) \/ FitsRow(q, c2) \/ FitsRow(q, c3) \/ FitsRow(q, c4)
               \/ FitsRow(q, c5) \/ FitsRow(q, c6) \/ FitsRow(q, c7) \/ FitsRow(q, c8)
               \/ FitsRow(q, c9)
  BY <1>2, <1>3, <1>4, <1>5, <1>6, <1>7, <1>8, <1>9, <1>10 DEF AnyRow
<1> QED
  BY <1>11, <1>16, <1>17, Zenon
(* The first byte of a character tells how long it is.                     *)
LEMMA RowLength ==
    ASSUME NEW q \in Seq(Octet), Len(q) >= 1, NEW c \in Utf8Char, FitsRow(q, c)
    PROVE  Len(c) = CharLen(q[1])
<1> DEFINE b == q[1]
           T == Tail80BF
<1>1. b \in Octet /\ b \in c[1] /\ 1 \in 1..Len(q)
  BY DEF FitsRow
<1> SUFFICES Len(c) = CharLen(b)
  OBVIOUS
<1> HIDE DEF b
<1>2. \/ c = << 0..127 >> \/ c = << 194..223, T >>
      \/ c = << {224}, 160..191, T >> \/ c = << 225..236, T, T >>
      \/ c = << {237}, 128..159, T >> \/ c = << 238..239, T, T >>
      \/ c = << {240}, 144..191, T, T >> \/ c = << 241..243, T, T, T >>
      \/ c = << {244}, 128..143, T, T >>
  BY ZenonT(40) DEF Utf8Char
<1> HIDE DEF T
<1>3. CASE c = << 0..127 >>
  <2>1. Len(c) = 1 /\ c[1] = 0..127
    BY <1>3
  <2> QED
    BY <1>1, <2>1 DEF CharLen, Octet
<1>4. CASE c = << 194..223, T >>
  <2>1. Len(c) = 2 /\ c[1] = 194..223
    BY <1>4
  <2> QED
    BY <1>1, <2>1 DEF CharLen, Octet
<1>5. CASE c = << {224}, 160..191, T >>
  <2>1. Len(c) = 3 /\ c[1] = {224}
    BY <1>5
  <2> QED
    BY <1>1, <2>1 DEF CharLen, Octet
<1>6. CASE c = << 225..236, T, T >>
  <2>1. Len(c) = 3 /\ c[1] = 225..236
    BY <1>6
  <2> QED
    BY <1>1, <2>1 DEF CharLen, Octet
<1>7. CASE c = << {237}, 128..159, T >>
  <2>1. Len(c) = 3 /\ c[1] = {237}
    BY <1>7
  <2> QED
    BY <1>1, <2>1 DEF CharLen, Octet
<1>8. CASE c = << 238..239, T, T >>
  <2>1. Len(c) = 3 /\ c[1] = 238..239
    BY <1>8
  <2> QED
    BY <1>1, <2>1 DEF CharLen, Octet
<1>9. CASE c = << {240}, 144..191, T, T >>
  <2>1. Len(c) = 4 /\ c[1] = {240}
    BY <1>9
  <2> QED
    BY <1>1, <2>1 DEF CharLen, Octet
<1>10. CASE c = << 241..243, T, T, T >>
  <2>1. Len(c) = 4 /\ c[1] = 241..243
    BY <1>10
  <2> QED
    BY <1>1, <2>1 DEF CharLen, Octet
<1>11. CASE c = << {244}, 128..143, T, T >>
  <2>1. Len(c) = 4 /\ c[1] = {244}
    BY <1>11
  <2> QED
    BY <1>1, <2>1 DEF CharLen, Octet
<1> QED
  BY <1>2, <1>3, <1>4, <1>5, <1>6, <1>7, <1>8, <1>9, <1>10, <1>11, ZenonT(40)

(* RFC 3629, by the first byte.                                            *)
LEMMA CharByFirst ==
    ASSUME NEW q \in Seq(Octet), Len(q) >= 1
    PROVE  /\ BeginsChar(q) <=> Opens(q)
           /\ IsChar(q) <=> Opens(q) /\ Len(q) = CharLen(q[1])
<1>1. BeginsChar(q) <=> \E c \in Utf8Char : FitsRow(q, c)
  BY Zenon DEF BeginsChar, FitsRow
<1>2. IsChar(q) <=> \E c \in Utf8Char : FitsRow(q, c) /\ Len(q) = Len(c)
  <2>1. ASSUME NEW c, Len(q) = Len(c) PROVE Len(q) <= Len(c)
    BY <2>1
  <2>2. ASSUME NEW c \in Utf8Char, Len(q) = Len(c)
        PROVE  FitsRow(q, c) <=> \A i \in 1..Len(q) : q[i] \in c[i]
    BY <2>1, <2>2, Zenon DEF FitsRow
  <2> QED
    BY <1>1, <2>2, Zenon DEF IsChar
<1>3. Opens(q) <=> \E c \in Utf8Char : FitsRow(q, c)
  BY OpensIsRow
<1>4. \A c \in Utf8Char : FitsRow(q, c) => Len(c) = CharLen(q[1])
  BY RowLength
<1> QED
  BY <1>1, <1>2, <1>3, <1>4, Zenon

-----------------------------------------------------------------------------
(* The automaton and the reference *)

(* In state s the automaton has seen the bytes p of a character.           *)
Inside(s, p) ==
    /\ Len(p) >= 1 /\ Opens(p) /\ Len(p) < CharLen(p[1])
    /\ s = IF Len(p) = 1 THEN AfterFirst(p[1])
           ELSE IF Len(p) + 1 = CharLen(p[1]) THEN 24 ELSE 36

Begun(s, p) ==
    p \in Seq(Octet) /\ ((p = << >> /\ s = UTF8_ACCEPT) \/ Inside(s, p))

(* The next byte b: what q = Append(p, b) amounts to.                      *)
Judges(s, q, b) ==
    /\ decode(s, b) = UTF8_REJECT <=> ~Opens(q)
    /\ decode(s, b) = UTF8_ACCEPT <=> Opens(q) /\ Len(q) = CharLen(q[1])
    /\ decode(s, b) \notin {UTF8_REJECT, UTF8_ACCEPT} => Inside(decode(s, b), q)

LEMMA BegunStep ==
    ASSUME NEW s, NEW p, Begun(s, p), NEW b \in Octet
    PROVE  Judges(s, Append(p, b), b)
<1> DEFINE q == Append(p, b)
           n == Len(p)
           d == decode(s, b)
<1>1. p \in Seq(Octet) /\ n \in Nat
  BY DEF Begun
<1>2. /\ q \in Seq(Octet) /\ Len(q) = n + 1 /\ q[n + 1] = b
      /\ \A i \in 1..n : q[i] = p[i]
  BY <1>1
<1>3. \A i \in 1..n : p[i] \in Octet
  BY <1>1
<1> HIDE DEF q, n
<1>4. CASE n = 0
  <2>1. s = UTF8_ACCEPT /\ q[1] = b /\ Len(q) = 1
    BY <1>1, <1>2, <1>4 DEF Begun, Inside, n
  <2>2. d = AfterFirst(b)
    BY <2>1, DecodeFirst
  <2>3. Opens(q) <=> b \in 0..127 \cup 194..244
    BY <2>1 DEF Opens, OpensBy, CharLen, Octet
  <2> HIDE DEF d
  <2>4. d = UTF8_REJECT <=> ~Opens(q)
    BY <2>2, <2>3 DEF AfterFirst, UTF8_REJECT, Octet
  <2>5. d = UTF8_ACCEPT <=> b \in 0..127
    BY <2>2 DEF AfterFirst, UTF8_REJECT, UTF8_ACCEPT, Octet
  <2>6. CharLen(b) = 1 <=> b \in 0..127
    BY DEF CharLen, Octet
  <2>7. CharLen(b) \in 1..4
    BY DEF CharLen
  <2>8. d \notin {UTF8_REJECT, UTF8_ACCEPT} => Inside(d, q)
    <3>1. SUFFICES ASSUME d \notin {UTF8_REJECT, UTF8_ACCEPT} PROVE Inside(d, q)
      OBVIOUS
    <3>2. Opens(q) /\ CharLen(b) # 1
      BY <2>4, <2>5, <2>6, <3>1, Zenon
    <3>3. Len(q) = 1 /\ Len(q) < CharLen(q[1]) /\ d = AfterFirst(q[1])
      BY <2>1, <2>2, <2>7, <3>2
    <3> QED
      BY <3>2, <3>3 DEF Inside
  <2>9. Judges(s, q, b)
    BY <2>1, <2>3, <2>4, <2>5, <2>6, <2>8 DEF Judges, d
  <2> QED
    BY <2>9 DEF q
<1>5. CASE n >= 1
  <2> DEFINE b1 == p[1]
             L == CharLen(b1)
  <2>1. /\ Opens(p) /\ n < L /\ b1 \in Octet /\ q[1] = b1
        /\ s = IF n = 1 THEN AfterFirst(b1) ELSE IF n + 1 = L THEN 24 ELSE 36
    BY <1>1, <1>2, <1>3, <1>5 DEF Begun, Inside, n
  <2>2. L \in 1..4
    BY DEF CharLen
  <2> HIDE DEF L
  <2>3. CASE n = 1
    <3>1. b1 \in 194..244 /\ L \in 2..4
      BY <2>1, <2>2, <2>3 DEF Opens, OpensBy, CharLen, Octet, L, n
    <3>2. Len(q) = 2 /\ q[2] = b
      BY <1>2, <2>3
    <3>3. Opens(q) <=> b \in Second(b1)
      BY <2>1, <3>1, <3>2 DEF Opens, OpensBy, L
    <3>4. s = AfterFirst(b1)
      BY <2>1, <2>3
    <3> HIDE DEF b1
    <3>5. d = IF b \in Second(b1) THEN (IF L = 2 THEN UTF8_ACCEPT ELSE IF L = 3 THEN 24 ELSE 36)
              ELSE UTF8_REJECT
      <4>1. L = IF b1 <= 127 THEN 1 ELSE IF b1 <= 223 THEN 2 ELSE IF b1 <= 239 THEN 3 ELSE 4
        BY DEF L, CharLen
      <4>2. CASE b1 \in 194..223
        BY <3>4, <4>1, <4>2, DecodeTail DEF AfterFirst, Second
      <4>3. CASE b1 = 224 \/ b1 = 237
        BY <3>4, <4>1, <4>3, DecodeTail DEF AfterFirst, Second
      <4>4. CASE b1 \in 225..236 \cup 238..239
        BY <3>4, <4>1, <4>4, DecodeTail DEF AfterFirst, Second
      <4>5. CASE b1 = 240 \/ b1 = 244
        BY <3>4, <4>1, <4>5, DecodeTail DEF AfterFirst, Second
      <4>6. CASE b1 \in 241..243
        BY <3>4, <4>1, <4>6, DecodeTail DEF AfterFirst, Second
      <4> QED
        BY <3>1, <4>2, <4>3, <4>4, <4>5, <4>6
    <3> HIDE DEF d
    <3>6. d = UTF8_REJECT <=> ~Opens(q)
      BY <3>3, <3>5 DEF UTF8_REJECT, UTF8_ACCEPT
    <3>7. d = UTF8_ACCEPT <=> Opens(q) /\ Len(q) = L
      BY <3>1, <3>2, <3>3, <3>5 DEF UTF8_REJECT, UTF8_ACCEPT
    <3>8. d \notin {UTF8_REJECT, UTF8_ACCEPT} => Inside(d, q)
      <4>1. SUFFICES ASSUME d \notin {UTF8_REJECT, UTF8_ACCEPT} PROVE Inside(d, q)
        OBVIOUS
      <4>2. Opens(q) /\ Len(q) = 2 /\ 2 < L /\ d = IF 2 + 1 = L THEN 24 ELSE 36
        BY <3>1, <3>2, <3>3, <3>5, <4>1
      <4>3. Len(q) < CharLen(q[1]) /\ d = IF Len(q) + 1 = CharLen(q[1]) THEN 24 ELSE 36
        BY <2>1, <4>2 DEF L, b1
      <4> QED
        BY <4>2, <4>3 DEF Inside
    <3>9. L = CharLen(q[1])
      BY <2>1 DEF L, b1
    <3>10. Judges(s, q, b)
      BY <3>6, <3>7, <3>8, <3>9 DEF Judges, d
    <3> QED
      BY <3>10 DEF q
  <2>4. CASE n >= 2
    <3>0. n \in {2, 3} /\ L \in {3, 4}
      BY <1>1, <2>1, <2>2, <2>4
    <3>1. Len(q) = n + 1 /\ q[n + 1] = b /\ q[2] = p[2] /\ (n = 2 \/ n = 3) /\ L \in {3, 4}
      BY <1>2, <3>0
    <3>2. Opens(q) <=> b \in 128..191
      <4>1. CASE n = 2
        BY <2>1, <3>1, <4>1 DEF Opens, OpensBy, L, n
      <4>2. CASE n = 3
        <5>1. q[3] = p[3] /\ q[4] = b
          BY <1>2, <4>2
        <5> QED
          BY <2>1, <3>1, <4>2, <5>1 DEF Opens, OpensBy, L, n
      <4> QED
        BY <3>1, <4>1, <4>2, Zenon
    <3>3. s = IF n + 1 = L THEN 24 ELSE 36
      BY <2>1, <2>4
    <3>4. d = IF b \in 128..191 THEN (IF n + 1 = L THEN UTF8_ACCEPT ELSE 24) ELSE UTF8_REJECT
      BY <3>3, DecodeTail
    <3> HIDE DEF d
    <3>5. d = UTF8_REJECT <=> ~Opens(q)
      BY <3>2, <3>4 DEF UTF8_REJECT, UTF8_ACCEPT
    <3>6. d = UTF8_ACCEPT <=> Opens(q) /\ Len(q) = L
      BY <3>1, <3>2, <3>4 DEF UTF8_REJECT, UTF8_ACCEPT
    <3>7. d \notin {UTF8_REJECT, UTF8_ACCEPT} => Inside(d, q)
      <4>1. SUFFICES ASSUME d \notin {UTF8_REJECT, UTF8_ACCEPT} PROVE Inside(d, q)
        OBVIOUS
      <4>2. Opens(q) /\ Len(q) = 3 /\ L = 4 /\ d = 24
        BY <2>1, <2>2, <3>1, <3>2, <3>4, <4>1
      <4>3. Len(q) < CharLen(q[1]) /\ d = IF Len(q) + 1 = CharLen(q[1]) THEN 24 ELSE 36
        BY <2>1, <4>2 DEF L
      <4> QED
        BY <4>2, <4>3 DEF Inside
    <3>8. L = CharLen(q[1])
      BY <2>1 DEF L
    <3>9. Judges(s, q, b)
      BY <3>5, <3>6, <3>7, <3>8 DEF Judges, d
    <3> QED
      BY <3>9 DEF q
  <2>5. n = 1 \/ n >= 2
    BY <1>1, <1>5
  <2> QED
    BY <2>3, <2>4, <2>5, Zenon
<1> QED
  BY <1>1, <1>4, <1>5

-----------------------------------------------------------------------------
(* Texts *)

Slice(bytes, j, i) == SubSeq(bytes, j + 1, i)

(* What a slice is.                                                        *)
LEMMA SliceFacts ==
    ASSUME NEW bytes \in Seq(Octet), NEW i \in 0..Len(bytes), NEW j \in 0..i
    PROVE  LET q == Slice(bytes, j, i)
           IN  /\ q \in Seq(Octet) /\ Len(q) = i - j
               /\ \A k \in 1..(i - j) : q[k] = bytes[j + k]
               /\ j = i => q = << >>
<1> DEFINE q == Slice(bytes, j, i)
<1>1. q \in Seq(Octet) /\ Len(q) = (IF j + 1 <= i THEN i - (j + 1) + 1 ELSE 0)
      /\ \A k \in 1..(i - (j + 1) + 1) : q[k] = bytes[(j + 1) + k - 1]
  BY SubSeqProperties DEF Slice
<1> HIDE DEF q
<1>2. Len(q) = i - j
  BY <1>1
<1>3. ASSUME NEW k \in 1..(i - j) PROVE q[k] = bytes[j + k]
  <2>1. k \in 1..(i - (j + 1) + 1) /\ (j + 1) + k - 1 = j + k
    OBVIOUS
  <2> QED
    BY <1>1, <2>1
<1>4. j = i => q = << >>
  BY <1>1, <1>2, EmptySeq
<1> QED
  BY <1>1, <1>2, <1>3, <1>4 DEF q

(* One byte more.                                                          *)
LEMMA SliceAppend ==
    ASSUME NEW bytes \in Seq(Octet), NEW i \in 1..Len(bytes), NEW j \in 0..(i - 1)
    PROVE  /\ Slice(bytes, j, i) = Append(Slice(bytes, j, i - 1), bytes[i])
           /\ bytes[i] \in Octet
<1> DEFINE p == Slice(bytes, j, i - 1)
           q == Slice(bytes, j, i)
           r == Append(p, bytes[i])
<1>1. /\ i - 1 \in 0..Len(bytes) /\ i \in 0..Len(bytes) /\ j \in 0..i /\ bytes[i] \in Octet
  OBVIOUS
<1>2. p \in Seq(Octet) /\ Len(p) = (i - 1) - j /\ \A k \in 1..((i - 1) - j) : p[k] = bytes[j + k]
  BY <1>1, SliceFacts
<1>3. q \in Seq(Octet) /\ Len(q) = i - j /\ \A k \in 1..(i - j) : q[k] = bytes[j + k]
  BY <1>1, SliceFacts
<1> HIDE DEF p, q
<1>4. r \in Seq(Octet) /\ Len(r) = i - j /\ r[i - j] = bytes[i]
      /\ \A k \in 1..((i - 1) - j) : r[k] = p[k]
  BY <1>1, <1>2
<1>5. ASSUME NEW k \in 1..(i - j) PROVE q[k] = r[k]
  <2>1. CASE k = i - j
    BY <1>3, <1>4, <2>1
  <2>2. CASE k # i - j
    <3>1. k \in 1..((i - 1) - j)
      BY <2>2
    <3> QED
      BY <1>2, <1>3, <1>4, <3>1
  <2> QED
    BY <2>1, <2>2
<1> HIDE DEF r
<1>6. q = r
  BY <1>3, <1>4, <1>5, SeqEqual
<1> QED
  BY <1>1, <1>6 DEF p, q, r

(* A beginning of what opens a character opens it, too.                    *)
LEMMA OpensPrefix ==
    ASSUME NEW q \in Seq(Octet), NEW r \in Seq(Octet), Opens(r), Len(q) >= 1,
           Len(q) <= Len(r), \A k \in 1..Len(q) : q[k] = r[k]
    PROVE  Opens(q) /\ (Len(q) < Len(r) => Len(q) < CharLen(q[1]))
<1>1. Len(q) \in Nat /\ Len(r) \in Nat /\ q[1] = r[1]
  OBVIOUS
<1>2. CharLen(r[1]) \in 1..4
  BY DEF CharLen
<1>3. /\ Len(q) >= 2 => q[2] = r[2]
      /\ Len(q) >= 3 => q[3] = r[3]
      /\ Len(q) >= 4 => q[4] = r[4]
  BY <1>1
<1>4. /\ r[1] \in 0..127 \cup 194..244 /\ Len(r) <= CharLen(r[1])
      /\ Len(r) >= 2 => r[2] \in Second(r[1])
      /\ Len(r) >= 3 => r[3] \in 128..191
      /\ Len(r) >= 4 => r[4] \in 128..191
  BY DEF Opens, OpensBy
<1> DEFINE L == CharLen(r[1])
<1>5. CharLen(q[1]) = L
  BY <1>1
<1> HIDE DEF L
<1>6. Len(q) <= L /\ (Len(q) < Len(r) => Len(q) < L)
  BY <1>1, <1>2, <1>4 DEF L
<1>7. /\ Len(q) >= 2 => q[2] \in Second(q[1])
      /\ Len(q) >= 3 => q[3] \in 128..191
      /\ Len(q) >= 4 => q[4] \in 128..191
  <2> DEFINE n == Len(q)
             N == Len(r)
  <2>1. n \in Nat /\ N \in Nat /\ n <= N
    BY <1>1
  <2> HIDE DEF n, N
  <2>2. /\ n >= 2 => N >= 2
        /\ n >= 3 => N >= 3
        /\ n >= 4 => N >= 4
    BY <2>1
  <2>3. n >= 2 => q[2] \in Second(q[1])
    BY <1>1, <1>3, <1>4, <2>2 DEF n, N
  <2>4. n >= 3 => q[3] \in 128..191
    BY <1>3, <1>4, <2>2 DEF n, N
  <2>5. n >= 4 => q[4] \in 128..191
    BY <1>3, <1>4, <2>2 DEF n, N
  <2> QED
    BY <2>3, <2>4, <2>5 DEF n
<1>8. Opens(q)
  BY <1>1, <1>4, <1>5, <1>6, <1>7 DEF Opens, OpensBy
<1> QED
  BY <1>5, <1>6, <1>8

(* A character that is begun is not rejected.                              *)
LEMMA BegunMeans ==
    ASSUME NEW s, NEW p, Begun(s, p)
    PROVE  s # UTF8_REJECT /\ BeginsChar(p)
<1>1. p \in Seq(Octet)
  BY DEF Begun
<1>2. CASE p = << >> /\ s = UTF8_ACCEPT
  <2>1. << 0..127 >> \in Utf8Char
    BY ZenonT(40) DEF Utf8Char
  <2>2. Len(p) <= Len(<< 0..127 >>) /\ \A i \in 1..Len(p) : p[i] \in << 0..127 >>[i]
    BY <1>2
  <2>3. BeginsChar(p)
    BY <2>1, <2>2, Zenon DEF BeginsChar
  <2> QED
    BY <1>2, <2>3 DEF UTF8_ACCEPT, UTF8_REJECT
<1>3. CASE Inside(s, p)
  <2>1. /\ Len(p) >= 1 /\ Opens(p)
        /\ s = IF Len(p) = 1 THEN AfterFirst(p[1])
               ELSE IF Len(p) + 1 = CharLen(p[1]) THEN 24 ELSE 36
    BY <1>3 DEF Inside
  <2>2. BeginsChar(p)
    BY <1>1, <2>1, CharByFirst
  <2>3. p[1] \in 0..127 \cup 194..244
    BY <2>1 DEF Opens, OpensBy
  <2>4. AfterFirst(p[1]) # UTF8_REJECT
    BY <2>3 DEF AfterFirst, UTF8_REJECT
  <2> QED
    BY <2>1, <2>2, <2>4 DEF UTF8_REJECT
<1> QED
  BY <1>2, <1>3 DEF Begun

(* The automaton run over a text.                                          *)
IsRun(f, bytes) ==
    /\ f[0] = UTF8_ACCEPT
    /\ \A i \in 1..Len(bytes) : f[i] = Run(f[i - 1], bytes[i])

(* Wherever it is not rejected it is in a character since the last         *)
(* boundary.                                                               *)
LEMMA RunBack ==
    ASSUME NEW bytes \in Seq(Octet), NEW f, IsRun(f, bytes)
    PROVE  \A i \in 0..Len(bytes) : f[i] # UTF8_REJECT =>
             \E j \in 0..i : f[j] = UTF8_ACCEPT /\ Begun(f[i], Slice(bytes, j, i))
<1> DEFINE n == Len(bytes)
           P(i) == f[i] # UTF8_REJECT =>
                     \E j \in 0..i : f[j] = UTF8_ACCEPT /\ Begun(f[i], Slice(bytes, j, i))
           Good == { i \in 0..n : P(i) }
<1>1. n \in Nat
  OBVIOUS
<1>2. ASSUME NEW i \in 0..n, f[i] = UTF8_ACCEPT PROVE P(i)
  <2>1. i \in 0..i /\ Slice(bytes, i, i) = << >>
    BY SliceFacts
  <2>2. Begun(f[i], Slice(bytes, i, i))
    BY <1>2, <2>1 DEF Begun
  <2> QED
    BY <1>2, <2>1, <2>2, Zenon
<1>3. P(0)
  <2>1. 0 \in 0..n /\ f[0] = UTF8_ACCEPT
    BY <1>1 DEF IsRun
  <2> HIDE DEF P
  <2> QED
    BY <1>2, <2>1
<1>4. ASSUME NEW i \in 1..n, P(i - 1) PROVE P(i)
  <2>1. SUFFICES ASSUME f[i] # UTF8_REJECT, f[i] # UTF8_ACCEPT PROVE P(i)
    <3>1. i \in 0..n
      OBVIOUS
    <3> QED
      BY <1>2, <3>1, Zenon
  <2>2. f[i] = Run(f[i - 1], bytes[i])
    BY DEF IsRun
  <2>3. f[i - 1] # UTF8_REJECT /\ f[i] = decode(f[i - 1], bytes[i])
    BY <2>1, <2>2 DEF Run
  <2>4. PICK j \in 0..(i - 1) : f[j] = UTF8_ACCEPT /\ Begun(f[i - 1], Slice(bytes, j, i - 1))
    BY <1>4, <2>3
  <2>5. Slice(bytes, j, i) = Append(Slice(bytes, j, i - 1), bytes[i]) /\ bytes[i] \in Octet
    BY SliceAppend
  <2>6. Judges(f[i - 1], Slice(bytes, j, i), bytes[i])
    BY <2>4, <2>5, BegunStep
  <2>7. Inside(f[i], Slice(bytes, j, i))
    BY <2>1, <2>3, <2>6 DEF Judges
  <2>8. j \in 0..i /\ i \in 0..n
    OBVIOUS
  <2>9. Slice(bytes, j, i) \in Seq(Octet)
    BY <2>8, SliceFacts
  <2>10. Begun(f[i], Slice(bytes, j, i))
    BY <2>7, <2>9 DEF Begun
  <2> QED
    BY <2>4, <2>8, <2>10
<1>5. 0 \in Good /\ \A i \in 1..n : i - 1 \in Good => i \in Good
  <2> HIDE DEF P
  <2> QED
    BY <1>1, <1>3, <1>4
<1>6. \A i \in 0..n : i \in Good
  <2> HIDE DEF Good
  <2> QED
    BY <1>1, <1>5, InductionUpTo
<1> QED
  BY <1>6

(* From a boundary it follows whatever opens a character.                  *)
LEMMA RunOn ==
    ASSUME NEW bytes \in Seq(Octet), NEW f, IsRun(f, bytes), NEW k \in 1..Len(bytes),
           NEW j \in 0..(k - 1), f[j] = UTF8_ACCEPT, BeginsChar(Slice(bytes, j, k))
    PROVE  f[k] # UTF8_REJECT /\ (f[k] = UTF8_ACCEPT <=> IsChar(Slice(bytes, j, k)))
<1> DEFINE r == Slice(bytes, j, k)
           m == k - j - 1
           At(d) == Begun(f[j + d], Slice(bytes, j, j + d))
           Good == { d \in 0..m : At(d) }
<1>1. /\ m \in Nat /\ k \in 0..Len(bytes) /\ j \in 0..k /\ Len(bytes) \in Nat
      /\ r \in Seq(Octet) /\ Len(r) = k - j /\ \A i \in 1..(k - j) : r[i] = bytes[j + i]
  <2>1. m \in Nat /\ k \in 0..Len(bytes) /\ j \in 0..k /\ Len(bytes) \in Nat
    OBVIOUS
  <2> QED
    BY <2>1, SliceFacts
<1>2. Opens(r) /\ (IsChar(r) <=> Opens(r) /\ Len(r) = CharLen(r[1]))
  BY <1>1, CharByFirst
<1> HIDE DEF r
<1>3. At(0)
  <2>1. j + 0 = j /\ j \in 0..Len(bytes) /\ j \in 0..j
    BY <1>1
  <2>2. Slice(bytes, j, j) = << >>
    BY <2>1, SliceFacts
  <2>3. Begun(f[j], Slice(bytes, j, j))
    BY <2>2 DEF Begun
  <2> QED
    BY <2>1, <2>3
<1>4. ASSUME NEW d \in 1..(m + 1), At(d - 1)
      PROVE  /\ Judges(f[j + d - 1], Slice(bytes, j, j + d), bytes[j + d])
             /\ f[j + d] = decode(f[j + d - 1], bytes[j + d])
  <2> DEFINE i == j + d
  <2>1. i \in 1..Len(bytes) /\ j \in 0..(i - 1) /\ j + (d - 1) = i - 1
    BY <1>1
  <2>2. Begun(f[i - 1], Slice(bytes, j, i - 1))
    BY <1>4, <2>1
  <2> HIDE DEF i
  <2>3. Slice(bytes, j, i) = Append(Slice(bytes, j, i - 1), bytes[i]) /\ bytes[i] \in Octet
    BY <2>1, SliceAppend
  <2>4. Judges(f[i - 1], Slice(bytes, j, i), bytes[i])
    BY <2>2, <2>3, BegunStep
  <2>5. f[i - 1] # UTF8_REJECT
    BY <2>2, BegunMeans
  <2>6. f[i] = decode(f[i - 1], bytes[i])
    BY <2>1, <2>5 DEF IsRun, Run
  <2> QED
    BY <2>4, <2>6 DEF i
<1>5. ASSUME NEW d \in 1..m, At(d - 1) PROVE At(d)
  <2> DEFINE q == Slice(bytes, j, j + d)
  <2>1. d \in 1..(m + 1) /\ j + d \in 0..Len(bytes) /\ j \in 0..(j + d)
    BY <1>1
  <2>2. /\ Judges(f[j + d - 1], q, bytes[j + d])
        /\ f[j + d] = decode(f[j + d - 1], bytes[j + d])
    BY <1>4, <1>5, <2>1
  <2>3. q \in Seq(Octet) /\ Len(q) = (j + d) - j /\ \A i \in 1..((j + d) - j) : q[i] = bytes[j + i]
    BY <2>1, SliceFacts
  <2> HIDE DEF q
  <2>4. (j + d) - j = d /\ d >= 1 /\ d < Len(r) /\ \A i \in 1..d : i \in 1..(k - j)
    BY <1>1, <2>1
  <2>a. Len(q) = d /\ \A i \in 1..d : q[i] = r[i]
    BY <1>1, <2>3, <2>4
  <2>b. Len(q) >= 1 /\ Len(q) <= Len(r) /\ Len(q) < Len(r) /\ \A i \in 1..Len(q) : q[i] = r[i]
    BY <1>1, <2>4, <2>a
  <2>5. Opens(q) /\ Len(q) < CharLen(q[1])
    BY <1>1, <1>2, <2>3, <2>b, OpensPrefix
  <2>6. Inside(f[j + d], q)
    BY <2>2, <2>5 DEF Judges
  <2> QED
    BY <2>3, <2>6 DEF Begun, q
<1>6. 0 \in Good /\ \A d \in 1..m : d - 1 \in Good => d \in Good
  <2> HIDE DEF At
  <2> QED
    BY <1>1, <1>3, <1>5
<1>7. \A d \in 0..m : d \in Good
  <2> HIDE DEF Good, m
  <2> QED
    BY <1>1, <1>6, InductionUpTo
<1>8. At((m + 1) - 1)
  <2> HIDE DEF At, m
  <2>1. m \in 0..m /\ (m + 1) - 1 = m
    BY <1>1
  <2>2. At(m)
    BY <1>7, <2>1
  <2> QED
    BY <2>1, <2>2
<1>9. j + (m + 1) = k /\ m + 1 \in 1..(m + 1)
  BY <1>1
<1>10. Judges(f[k - 1], r, bytes[k]) /\ f[k] = decode(f[k - 1], bytes[k])
  <2> HIDE DEF At, m
  <2>1. /\ Judges(f[j + (m + 1) - 1], Slice(bytes, j, j + (m + 1)), bytes[j + (m + 1)])
        /\ f[j + (m + 1)] = decode(f[j + (m + 1) - 1], bytes[j + (m + 1)])
    BY <1>4, <1>8, <1>9
  <2> QED
    BY <1>9, <2>1 DEF r
<1>11. f[k] # UTF8_REJECT /\ (f[k] = UTF8_ACCEPT <=> IsChar(r))
  BY <1>2, <1>10 DEF Judges
<1> QED
  BY <1>11 DEF r

(* Its boundaries are where it accepts.                                    *)
LEMMA WholeStep ==
    ASSUME NEW bytes \in Seq(Octet), NEW f, IsRun(f, bytes), NEW i \in 1..Len(bytes)
    PROVE  f[i] = UTF8_ACCEPT <=>
             \E k \in 1..4 : k <= i /\ f[i - k] = UTF8_ACCEPT /\ IsChar(Slice(bytes, i - k, i))
<1>1. ASSUME NEW k \in 1..4, k <= i, f[i - k] = UTF8_ACCEPT, IsChar(Slice(bytes, i - k, i))
      PROVE  f[i] = UTF8_ACCEPT
  <2> DEFINE j == i - k
  <2>1. j \in 0..(i - 1)
    BY <1>1
  <2>2. BeginsChar(Slice(bytes, j, i))
    BY <1>1 DEF IsChar
  <2>3. f[j] = UTF8_ACCEPT /\ IsChar(Slice(bytes, j, i))
    BY <1>1
  <2> HIDE DEF j
  <2> QED
    BY <2>1, <2>2, <2>3, RunOn
<1>2. ASSUME f[i] = UTF8_ACCEPT
      PROVE  \E k \in 1..4 : k <= i /\ f[i - k] = UTF8_ACCEPT /\ IsChar(Slice(bytes, i - k, i))
  <2>1. f[i] = Run(f[i - 1], bytes[i]) /\ i - 1 \in 0..Len(bytes)
    BY DEF IsRun
  <2>2. f[i - 1] # UTF8_REJECT /\ f[i] = decode(f[i - 1], bytes[i])
    BY <1>2, <2>1 DEF Run, UTF8_ACCEPT, UTF8_REJECT
  <2>3. PICK j \in 0..(i - 1) : f[j] = UTF8_ACCEPT /\ Begun(f[i - 1], Slice(bytes, j, i - 1))
    BY <2>1, <2>2, RunBack
  <2> DEFINE q == Slice(bytes, j, i)
  <2>4. q = Append(Slice(bytes, j, i - 1), bytes[i]) /\ bytes[i] \in Octet
    BY SliceAppend
  <2>5. Judges(f[i - 1], q, bytes[i])
    BY <2>3, <2>4, BegunStep
  <2>6. i \in 0..Len(bytes) /\ j \in 0..i
    OBVIOUS
  <2>7. q \in Seq(Octet) /\ Len(q) = i - j
    BY <2>6, SliceFacts
  <2> HIDE DEF q
  <2>8. Opens(q) /\ Len(q) = CharLen(q[1])
    BY <1>2, <2>2, <2>5 DEF Judges
  <2>9. CharLen(q[1]) \in 1..4
    BY DEF CharLen
  <2>10. Len(q) \in 1..4 /\ Len(q) >= 1
    BY <2>8, <2>9
  <2>11. IsChar(q)
    BY <2>7, <2>8, <2>10, CharByFirst
  <2> DEFINE k == i - j
  <2>12. k \in 1..4 /\ k <= i /\ i - k = j
    BY <2>7, <2>10
  <2>13. f[i - k] = UTF8_ACCEPT /\ IsChar(Slice(bytes, i - k, i))
    BY <2>3, <2>11, <2>12 DEF q
  <2> HIDE DEF k
  <2> QED
    BY <2>12, <2>13
<1> QED
  BY <1>1, <1>2

LEMMA BoundariesAccept ==
    ASSUME NEW bytes \in Seq(Octet), NEW f, IsRun(f, bytes)
    PROVE  Utf8Boundaries(bytes) = { i \in 0..Len(bytes) : f[i] = UTF8_ACCEPT }
<1> DEFINE n == Len(bytes)
           Walk(g) == [ i \in 0..n |->
                          \/ i = 0
                          \/ \E k \in 1..4 : /\ k <= i
                                             /\ g[i - k]
                                             /\ IsChar(Slice(bytes, i - k, i)) ]
           at == CHOOSE g : g = Walk(g)
           w == [ i \in 0..n |-> f[i] = UTF8_ACCEPT ]
<1>1. n \in Nat
  OBVIOUS
<1>2. f[0] = UTF8_ACCEPT
  BY DEF IsRun
<1>3. ASSUME NEW g, NEW i \in 1..n, \A k \in 1..4 : k <= i => g[i - k] = (f[i - k] = UTF8_ACCEPT)
      PROVE  Walk(g)[i] = (f[i] = UTF8_ACCEPT)
  <2>1. f[i] = UTF8_ACCEPT <=>
          \E k \in 1..4 : k <= i /\ f[i - k] = UTF8_ACCEPT /\ IsChar(Slice(bytes, i - k, i))
    BY WholeStep
  <2>2. (\E k \in 1..4 : k <= i /\ f[i - k] = UTF8_ACCEPT /\ IsChar(Slice(bytes, i - k, i)))
        <=> (\E k \in 1..4 : k <= i /\ g[i - k] /\ IsChar(Slice(bytes, i - k, i)))
    BY <1>3, Zenon
  <2>3. i \in 0..n /\ i # 0
    BY <1>1
  <2>4. Walk(g)[i] = (i = 0 \/ \E k \in 1..4 : k <= i /\ g[i - k] /\ IsChar(Slice(bytes, i - k, i)))
    BY <2>3, Zenon
  <2> HIDE DEF Walk
  <2> QED
    BY <2>1, <2>2, <2>3, <2>4, Zenon
<1>4. \A g : Walk(g)[0] = TRUE
  <2>1. 0 \in 0..n
    BY <1>1
  <2> QED
    BY <2>1, Zenon
<1>5. w = Walk(w)
  <2>1. \A i \in 0..n : w[i] = (f[i] = UTF8_ACCEPT)
    OBVIOUS
  <2>2. ASSUME NEW i \in 0..n PROVE w[i] = Walk(w)[i]
    <3>1. CASE i = 0
      <4> HIDE DEF w, Walk
      <4> QED
        BY <1>2, <1>4, <2>1, <3>1, Zenon
    <3>2. CASE i # 0
      <4>1. i \in 1..n /\ \A k \in 1..4 : k <= i => i - k \in 0..n
        BY <1>1, <3>2
      <4> HIDE DEF w, Walk
      <4>2. \A k \in 1..4 : k <= i => w[i - k] = (f[i - k] = UTF8_ACCEPT)
        BY <2>1, <4>1, Zenon
      <4>3. Walk(w)[i] = (f[i] = UTF8_ACCEPT)
        BY <1>3, <4>1, <4>2, Zenon
      <4> QED
        BY <2>1, <4>3, Zenon
    <3> QED
      BY <3>1, <3>2, Zenon
  <2>3. w = [ i \in 0..n |-> w[i] ]
    BY Zenon
  <2>4. Walk(w) = [ i \in 0..n |-> Walk(w)[i] ]
    BY Zenon
  <2> HIDE DEF w, Walk
  <2> QED
    BY <2>2, <2>3, <2>4, Zenon
<1>6. at = Walk(at)
  <2> HIDE DEF w
  <2> QED
    BY <1>5, Zenon
<1>7. Utf8Boundaries(bytes) = { i \in 0..n : at[i] }
  BY Zenon DEF Utf8Boundaries, Slice
<1> HIDE DEF at
<1> DEFINE Same(i) == at[i] = (f[i] = UTF8_ACCEPT)
           Good == { m \in 0..n : \A i \in 0..m : Same(i) }
<1>8. 0 \in Good
  <2>1. Same(0)
    <3> HIDE DEF Walk
    <3> QED
      BY <1>2, <1>4, <1>6, Zenon
  <2>2. \A i \in 0..0 : i = 0
    OBVIOUS
  <2>3. 0 \in 0..n
    BY <1>1
  <2> HIDE DEF Same
  <2> QED
    BY <2>1, <2>2, <2>3, Zenon
<1>9. ASSUME NEW m \in 1..n, m - 1 \in Good PROVE m \in Good
  <2>1. \A i \in 0..(m - 1) : Same(i)
    BY <1>9
  <2>2. /\ m \in 0..n /\ \A i \in 0..m : i \in 0..(m - 1) \/ i = m
        /\ \A k \in 1..4 : k <= m => m - k \in 0..(m - 1)
    BY <1>1
  <2>3. Same(m)
    <3>1. \A k \in 1..4 : k <= m => at[m - k] = (f[m - k] = UTF8_ACCEPT)
      BY <2>1, <2>2, Zenon
    <3>2. Walk(at)[m] = (f[m] = UTF8_ACCEPT)
      <4> HIDE DEF Walk
      <4> QED
        BY <1>3, <3>1, Zenon
    <3> HIDE DEF Walk
    <3> QED
      BY <1>6, <3>2, Zenon
  <2> HIDE DEF Same
  <2> QED
    BY <2>1, <2>2, <2>3, Zenon
<1>10. \A m \in 0..n : m \in Good
  <2> HIDE DEF Good
  <2> QED
    BY <1>1, <1>8, <1>9, InductionUpTo
<1>11. \A i \in 0..n : Same(i)
  <2>1. \A i \in 0..n : i \in 0..i
    BY <1>1
  <2> HIDE DEF Same
  <2> QED
    BY <1>10, <2>1, Zenon
<1> QED
  BY <1>7, <1>11

(* RFC 3629 and the automaton agree on every text.                         *)
LEMMA RunJudges ==
    ASSUME NEW bytes \in Seq(Octet), NEW f, IsRun(f, bytes)
    PROVE  /\ f[Len(bytes)] = UTF8_ACCEPT <=> IsUtf8(bytes)
           /\ f[Len(bytes)] # UTF8_REJECT <=> BeginsUtf8(bytes)
<1> DEFINE n == Len(bytes)
           B == Utf8Boundaries(bytes)
<1>1. B = { i \in 0..n : f[i] = UTF8_ACCEPT } /\ n \in 0..n /\ n \in Nat
  BY BoundariesAccept
<1> HIDE DEF B
<1>2. f[n] = UTF8_ACCEPT <=> IsUtf8(bytes)
  BY <1>1 DEF IsUtf8, B
<1>3. ASSUME f[n] # UTF8_REJECT PROVE BeginsUtf8(bytes)
  <2>1. PICK j \in 0..n : f[j] = UTF8_ACCEPT /\ Begun(f[n], Slice(bytes, j, n))
    BY <1>1, <1>3, RunBack
  <2>2. BeginsChar(Slice(bytes, j, n)) /\ j \in B
    BY <1>1, <2>1, BegunMeans
  <2> QED
    BY <2>2 DEF BeginsUtf8, B, Slice
<1>4. ASSUME BeginsUtf8(bytes) PROVE f[n] # UTF8_REJECT
  <2>1. PICK j \in B : BeginsChar(Slice(bytes, j, n))
    BY <1>4 DEF BeginsUtf8, B, Slice
  <2>2. j \in 0..n /\ f[j] = UTF8_ACCEPT
    BY <1>1, <2>1
  <2>3. CASE j = n
    BY <2>2, <2>3 DEF UTF8_ACCEPT, UTF8_REJECT
  <2>4. CASE j # n
    <3>1. n \in 1..n /\ j \in 0..(n - 1)
      BY <1>1, <2>2, <2>4
    <3> QED
      BY <2>1, <2>2, <3>1, RunOn
  <2> QED
    BY <2>3, <2>4
<1> QED
  BY <1>2, <1>3, <1>4

LEMMA DecodeAllJudges ==
    ASSUME NEW bytes \in Seq(Octet)
    PROVE  LET s == DecodeAll(UTF8_ACCEPT, bytes)
           IN  /\ s \in Utf8States
               /\ s = UTF8_ACCEPT <=> IsUtf8(bytes)
               /\ s # UTF8_REJECT <=> BeginsUtf8(bytes)
<1>1. UTF8_ACCEPT \in Utf8States
  BY DEF UTF8_ACCEPT, Utf8States
<1>2. PICK f \in [ 0..Len(bytes) -> Utf8States ] :
        /\ f[0] = UTF8_ACCEPT
        /\ \A i \in 1..Len(bytes) : f[i] = Run(f[i - 1], bytes[i])
        /\ DecodeAll(UTF8_ACCEPT, bytes) = f[Len(bytes)]
  BY <1>1, DecodeAllRuns
<1>3. IsRun(f, bytes) /\ f[Len(bytes)] \in Utf8States
  BY <1>2 DEF IsRun
<1> QED
  BY <1>2, <1>3, RunJudges

(* Wherever a text is cut, the state carried over makes no difference.     *)
LEMMA DecodeAllConcat ==
    ASSUME NEW s \in Utf8States, NEW a \in Seq(Octet), NEW b \in Seq(Octet)
    PROVE  /\ DecodeAll(s, a) \in Utf8States
           /\ DecodeAll(DecodeAll(s, a), b) = DecodeAll(s, a \o b)
<1> DEFINE c == a \o b
           m == Len(a)
           n == Len(b)
<1>1. /\ c \in Seq(Octet) /\ Len(c) = m + n /\ m \in Nat /\ n \in Nat
      /\ \A i \in 1..m : c[i] = a[i]
      /\ \A i \in 1..n : c[m + i] = b[i]
  BY ConcatProperties
<1>2. PICK f \in [ 0..m -> Utf8States ] :
        /\ f[0] = s
        /\ \A i \in 1..m : f[i] = Run(f[i - 1], a[i])
        /\ DecodeAll(s, a) = f[m]
  BY DecodeAllRuns
<1>3. f[m] \in Utf8States
  BY <1>1, <1>2
<1>4. PICK g \in [ 0..n -> Utf8States ] :
        /\ g[0] = f[m]
        /\ \A i \in 1..n : g[i] = Run(g[i - 1], b[i])
        /\ DecodeAll(f[m], b) = g[n]
  BY <1>3, DecodeAllRuns
<1> HIDE DEF c
<1>5. PICK h \in [ 0..Len(c) -> Utf8States ] :
        /\ h[0] = s
        /\ \A i \in 1..Len(c) : h[i] = Run(h[i - 1], c[i])
        /\ DecodeAll(s, c) = h[Len(c)]
  BY <1>1, DecodeAllRuns
<1> HIDE DEF m, n
<1>6. \A i \in 0..m : h[i] = f[i]
  <2> DEFINE Same == { i \in 0..m : h[i] = f[i] }
  <2>1. 0 \in Same
    BY <1>1, <1>2, <1>5
  <2>2. ASSUME NEW i \in 1..m, i - 1 \in Same PROVE i \in Same
    <3>1. i \in 1..Len(c) /\ c[i] = a[i] /\ h[i - 1] = f[i - 1] /\ i \in 0..m
      BY <1>1, <2>2
    <3>2. h[i] = Run(h[i - 1], c[i]) /\ f[i] = Run(f[i - 1], a[i])
      BY <1>2, <1>5, <3>1
    <3> QED
      BY <3>1, <3>2
  <2>3. \A i \in 0..m : i \in Same
    <3> HIDE DEF Same
    <3> QED
      BY <1>1, <2>1, <2>2, InductionUpTo
  <2> QED
    BY <2>3
<1>7. \A i \in 0..n : h[m + i] = g[i]
  <2> DEFINE Same == { i \in 0..n : h[m + i] = g[i] }
  <2>1. 0 \in Same
    <3>1. h[m] = f[m] /\ m + 0 = m
      BY <1>1, <1>6
    <3> QED
      BY <1>1, <1>4, <3>1
  <2>2. ASSUME NEW i \in 1..n, i - 1 \in Same PROVE i \in Same
    <3>1. m + i \in 1..Len(c) /\ (m + i) - 1 = m + (i - 1) /\ i \in 0..n
      BY <1>1
    <3>2. h[m + i] = Run(h[(m + i) - 1], c[m + i])
      BY <1>5, <3>1
    <3>3. h[m + (i - 1)] = g[i - 1] /\ c[m + i] = b[i] /\ g[i] = Run(g[i - 1], b[i])
      BY <1>1, <1>4, <2>2
    <3>4. h[m + i] = g[i]
      BY <3>1, <3>2, <3>3
    <3> QED
      BY <3>1, <3>4
  <2>3. \A i \in 0..n : i \in Same
    <3> HIDE DEF Same
    <3> QED
      BY <1>1, <2>1, <2>2, InductionUpTo
  <2> QED
    BY <2>3
<1>8. h[Len(c)] = g[n]
  BY <1>1, <1>7
<1> QED
  BY <1>2, <1>3, <1>4, <1>5, <1>8 DEF c

-----------------------------------------------------------------------------
(* The scan *)

(* The state and the bytes of the character it is in belong together.      *)
ScanInv == scan_state \in Utf8States /\ Begun(scan_state, scan_bytes)

(* RFC 3629 on the next byte.                                              *)
LEMMA NextByteJudged ==
    ASSUME ScanInv, NEW byte \in 0..255
    PROVE  LET bytes == Append(scan_bytes, byte)
               next  == decode(scan_state, byte)
           IN  /\ next = UTF8_REJECT <=> ~BeginsChar(bytes)
               /\ next = UTF8_ACCEPT <=> IsChar(bytes)
<1> DEFINE bytes == Append(scan_bytes, byte)
<1>1. byte \in Octet /\ scan_bytes \in Seq(Octet) /\ Begun(scan_state, scan_bytes)
  BY DEF ScanInv, Begun, Octet
<1>2. Judges(scan_state, bytes, byte)
  BY <1>1, BegunStep
<1>3. bytes \in Seq(Octet) /\ Len(bytes) >= 1
  BY <1>1
<1> HIDE DEF bytes
<1>4. /\ BeginsChar(bytes) <=> Opens(bytes)
      /\ IsChar(bytes) <=> Opens(bytes) /\ Len(bytes) = CharLen(bytes[1])
  BY <1>3, CharByFirst
<1>5. /\ decode(scan_state, byte) = UTF8_REJECT <=> ~BeginsChar(bytes)
      /\ decode(scan_state, byte) = UTF8_ACCEPT <=> IsChar(bytes)
  BY <1>2, <1>4, Zenon DEF Judges
<1> QED
  BY <1>5 DEF bytes

(* The states reached are the table's, and the bytes are those of the      *)
(* character the automaton is in.                                          *)
THEOREM ScanInvHolds == ScanSpec => []ScanInv
<1>1. ScanInit => ScanInv
  BY DEF ScanInit, ScanInv, Begun, UTF8_ACCEPT, Utf8States
<1>2. ScanInv /\ [ScanNext]_scanVars => ScanInv'
  <2> SUFFICES ASSUME ScanInv, [ScanNext]_scanVars PROVE ScanInv'
    OBVIOUS
  <2>1. CASE UNCHANGED scanVars
    BY <2>1 DEF scanVars, ScanInv
  <2>2. ASSUME NEW byte \in 0..255, Scan(byte) PROVE ScanInv'
    <3> DEFINE q == Append(scan_bytes, byte)
               next == decode(scan_state, byte)
    <3>1. byte \in Octet /\ scan_bytes \in Seq(Octet) /\ scan_state \in Utf8States
          /\ Begun(scan_state, scan_bytes)
      BY DEF ScanInv, Begun, Octet
    <3>2. Judges(scan_state, q, byte) /\ q \in Seq(Octet) /\ next \in Utf8States
      BY <3>1, BegunStep, DecodeType
    <3>3. next # UTF8_ACCEPT /\ next # UTF8_REJECT => Begun(next, q)
      BY <3>2 DEF Judges, Begun
    <3>4. Begun(UTF8_ACCEPT, << >>)
      BY DEF Begun
    <3>5. /\ scan_state' = next /\ next # UTF8_REJECT
          /\ scan_bytes' = IF next = UTF8_ACCEPT THEN << >> ELSE q
      BY <2>2 DEF Scan
    <3> HIDE DEF q, next
    <3>6. Begun(scan_state', scan_bytes')
      BY <3>3, <3>4, <3>5
    <3> QED
      BY <3>2, <3>5, <3>6 DEF ScanInv
  <2> QED
    BY <2>1, <2>2 DEF ScanNext
<1> QED
  BY <1>1, <1>2, PTL DEF ScanSpec

(* Every state the automaton can reach rejects the next byte exactly when  *)
(* no character of RFC 3629 begins so, and accepts exactly when one is     *)
(* complete (utf8.h 37-52).                                                *)
THEOREM AutomatonDecidesUtf8 == ScanSpec => []MatchesRFC3629
<1>1. ScanInv => MatchesRFC3629
  BY NextByteJudged, Zenon DEF MatchesRFC3629
<1> QED
  BY <1>1, ScanInvHolds, PTL

(* The automaton stays in its table (utf8.h 47-52).                        *)
THEOREM ScanTypesHold == ScanSpec => []ScanTypeOK
<1>1. ScanInv => ScanTypeOK
  BY DEF ScanInv, ScanTypeOK, Begun, Octet
<1> QED
  BY <1>1, ScanInvHolds, PTL
=============================================================================
