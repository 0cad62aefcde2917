-------------------------------- MODULE Utf8 --------------------------------
(***************************************************************************)
(* The UTF-8 automaton of utf8.c and utf8.h, and what RFC 3629 says it     *)
(* should accept.  The code point decode computes on the side is never     *)
(* used by the library and left out.                                       *)
(***************************************************************************)
EXTENDS Integers, Sequences

UTF8_ACCEPT == 0
UTF8_REJECT == 12

(* The first part of wslay_utf8d: the class of each byte.                  *)
CharClass(byte) ==
    CASE byte \in   0..127              -> 0
      [] byte \in 128..143              -> 1
      [] byte \in 144..159              -> 9
      [] byte \in 160..191              -> 7
      [] byte \in 192..193 \cup 245..255 -> 8
      [] byte \in 194..223              -> 2
      [] byte = 224                     -> 10
      [] byte \in 225..236 \cup 238..239 -> 3
      [] byte = 237                     -> 4
      [] byte = 240                     -> 11
      [] byte \in 241..243              -> 6
      [] byte = 244                     -> 5

(* The second part: the next state, by state and class.                    *)
Transitions ==
    <<  0, 12, 24, 36, 60, 96, 84, 12, 12, 12, 48, 72,
       12, 12, 12, 12, 12, 12, 12, 12, 12, 12, 12, 12,
       12,  0, 12, 12, 12, 12, 12,  0, 12,  0, 12, 12,
       12, 24, 12, 12, 12, 12, 12, 24, 12, 24, 12, 12,
       12, 12, 12, 12, 12, 12, 12, 24, 12, 12, 12, 12,
       12, 24, 12, 12, 12, 12, 12, 12, 12, 24, 12, 12,
       12, 12, 12, 12, 12, 12, 12, 36, 12, 36, 12, 12,
       12, 36, 12, 12, 12, 12, 12, 36, 12, 36, 12, 12,
       12, 36, 12, 12, 12, 12, 12, 12, 12, 12, 12, 12 >>

Utf8States == { 12 * k : k \in 0..8 }

(* Mutant: the class of the byte 0xE0 taken for that of 0xE1.              *)
DecodeLaxE0(state, byte) ==
    Transitions[state + CharClass(IF byte = 224 THEN 225 ELSE byte) + 1]

decode(state, byte) == Transitions[state + CharClass(byte) + 1]

(* The loops of wslay_event_recv that run decode over a chunk, from the    *)
(* state the previous chunk left, and stop at the first rejection.         *)
DecodeAll(state, data) ==
    LET after[i \in 0..Len(data)] ==
            IF i = 0 THEN state
            ELSE IF after[i - 1] = UTF8_REJECT THEN UTF8_REJECT
            ELSE decode(after[i - 1], data[i])
    IN  after[Len(data)]

-----------------------------------------------------------------------------
(* RFC 3629, section 4, as a reference.                                    *)

Tail80BF == 128..191

(* The byte ranges of the well-formed characters.                          *)
Utf8Char ==
    { << 0..127 >>,
      << 194..223, Tail80BF >>,
      << {224}, 160..191, Tail80BF >>,
      << 225..236, Tail80BF, Tail80BF >>,
      << {237}, 128..159, Tail80BF >>,
      << 238..239, Tail80BF, Tail80BF >>,
      << {240}, 144..191, Tail80BF, Tail80BF >>,
      << 241..243, Tail80BF, Tail80BF, Tail80BF >>,
      << {244}, 128..143, Tail80BF, Tail80BF >> }

BeginsChar(bytes) ==
    \E c \in Utf8Char : /\ Len(bytes) <= Len(c)
                        /\ \A i \in 1..Len(bytes) : bytes[i] \in c[i]

IsChar(bytes) == BeginsChar(bytes) /\ \E c \in Utf8Char :
                    /\ Len(bytes) = Len(c)
                    /\ \A i \in 1..Len(bytes) : bytes[i] \in c[i]

(* The lengths of the prefixes of bytes that are whole characters.         *)
Utf8Boundaries(bytes) ==
    LET whole[i \in 0..Len(bytes)] ==
            \/ i = 0
            \/ \E k \in 1..4 : /\ k <= i
                               /\ whole[i - k]
                               /\ IsChar(SubSeq(bytes, i - k + 1, i))
    IN  { i \in 0..Len(bytes) : whole[i] }

IsUtf8(bytes) == Len(bytes) \in Utf8Boundaries(bytes)

(* bytes can be completed to a UTF-8 text.                                 *)
BeginsUtf8(bytes) ==
    \E i \in Utf8Boundaries(bytes) : BeginsChar(SubSeq(bytes, i + 1, Len(bytes)))
=============================================================================
