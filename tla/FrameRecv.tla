----------------------------- MODULE FrameRecv -----------------------------
(***************************************************************************)
(* wslay_frame_recv down to its bytes (frame.c): the buffer a socket fills *)
(* in pieces of any size, the four stages of its parser, each of which may *)
(* run out of bytes, and the unmasking of the payload.                     *)
(*                                                                         *)
(* The first two bytes of a frame are the library's.  The length fields    *)
(* are numbers in base Radix, and 126 and 127, the lengths that announce   *)
(* them, are CtrlMax + 1 and CtrlMax + 2.                                  *)
(*                                                                         *)
(* A call is the set of its outcomes, as in FrameSend; each stage maps a   *)
(* call to the calls it may become.                                        *)
(***************************************************************************)
EXTENDS Wslay

CONSTANTS
    Radix,        \* of the extended length fields              (256 in the code)
    IBufSize,     \* sizeof(ctx->ibuf)                         (4096 in the code)
    Frames,       \* the frames the peer may send
    Heads,        \* the malformed heads it may send behind them
    Keys,         \* the mask keys it uses
    MaxFrames     \* bound on how many frames it sends

Frame == [ fin : BOOLEAN, rsv : 0..7, opcode : 0..15, mask : BOOLEAN,
           payload : Seq(Byte) ]

VARIABLES
    ctx,          \* the receiving fields of struct wslay_frame_context_t
    stream,       \* the bytes of the peer that recv_callback did not return yet
    peer,         \* the frames the peer sends
    bad,          \* the peer sends a malformed head behind them, and stops
    done,         \* history: how many frames were passed on completely
    asked,        \* history: how many bytes recv_callback was last asked for
    last          \* what the last call gave its caller

vars == << ctx, stream, peer, bad, done, asked, last >>

-----------------------------------------------------------------------------

IState == { "RECV_HEADER1", "RECV_EXT_PAYLOADLEN", "RECV_MASKKEY", "RECV_PAYLOAD" }

(* ibuf is the code's from ibufmark to ibuflimit, mark is ibufmark - ibuf. *)
Ctx == [ ibuf : Seq(Byte), mark : Nat, istate : IState, ireqread : {2, 4, 8},
         iom : [ fin : BOOLEAN, rsv : 0..7, opcode : 0..15 ], imask : BOOLEAN,
         imaskkey : [ 1..4 -> Byte ], ipayloadlen : Nat, ipayloadoff : Nat ]

NoIocb == [ fin |-> FALSE, rsv |-> 0, opcode |-> 0, mask |-> FALSE,
            payload_length |-> 0, data |-> << >> ]

Iocb == [ fin : BOOLEAN, rsv : 0..7, opcode : 0..15, mask : BOOLEAN,
          payload_length : Nat, data : Seq(Byte) ]

TypeOK ==
    /\ ctx \in Ctx
    /\ stream \in Seq(Byte)
    /\ peer \in Seq(Frame)
    /\ bad \in BOOLEAN
    /\ done \in 0..Len(peer)
    /\ asked \in Nat
    /\ last \in [ iocb : Iocb, failed : BOOLEAN,
                  result : {0, WSLAY_ERR_WANT_READ, WSLAY_ERR_PROTO} ]

-----------------------------------------------------------------------------
(* Bytes *)

(* a ^ b *)
Xor(a, b) ==
    LET bit(w) == w * ((a \div w + b \div w) % 2)
    IN  bit(1) + bit(2) + bit(4) + bit(8) + bit(16) + bit(32) + bit(64) + bit(128)

(* be64toh: the number the bytes s stand for, the first being the highest. *)
be64toh(s) ==
    LET upto[i \in 0..Len(s)] == IF i = 0 THEN 0 ELSE Radix * upto[i - 1] + s[i]
    IN  upto[Len(s)]

(* How many numbers 2 and 8 bytes of length can hold.                      *)
Radix2 == Radix * Radix
Radix8 == Radix2 * Radix2 * Radix2 * Radix2

-----------------------------------------------------------------------------
(* The peer (RFC 6455, section 5.2) *)

(* The length n is in its shortest form: in the head's second byte, or in  *)
(* 2 or 8 bytes behind the head.                                           *)
LengthBytes(n) == IF n <= CtrlMax THEN 0 ELSE IF n < Radix2 THEN 2 ELSE 8

(* The k digits of n.                                                      *)
Digits(n, k) == CHOOSE s \in [ 1..k -> 0..(Radix - 1) ] : be64toh(s) = n

LengthFields(n) ==
    CASE LengthBytes(n) = 0 -> [ len7 |-> n, ext |-> << >> ]
      [] LengthBytes(n) = 2 -> [ len7 |-> CtrlMax + 1, ext |-> Digits(n, 2) ]
      [] LengthBytes(n) = 8 -> [ len7 |-> CtrlMax + 2, ext |-> Digits(n, 8) ]

Encode(f, key) ==
    LET len == LengthFields(Len(f.payload))
    IN  << (IF f.fin THEN 128 ELSE 0) + 16 * f.rsv + f.opcode,
           (IF f.mask THEN 128 ELSE 0) + len.len7 >>
        \o len.ext
        \o (IF ~f.mask THEN f.payload
            ELSE key \o [ i \in 1..Len(f.payload) |->
                            Xor(f.payload[i], key[1 + ((i - 1) % 4)]) ])

(* What the peer sends is chosen at the start.  When it sends it makes no  *)
(* difference: recv_callback may return nothing at any time.               *)
PeerStream(frames, key, head) ==
    LET upto[i \in 0..Len(frames)] ==
            IF i = 0 THEN << >> ELSE upto[i - 1] \o Encode(frames[i], key)
    IN  upto[Len(frames)] \o head

(* The head s breaks the protocol: a control frame that is fragmented or   *)
(* too long, or a length in a longer form than it needs or of 64 bits.     *)
IsMalformed(s) ==
    LET len7 == s[2] % 128
        len(n) == be64toh(SubSeq(s, 3, 2 + n))
    IN  /\ Len(s) >= 2
        /\ \/ wslay_is_ctrl_frame(s[1] % 16) /\ (s[1] < 128 \/ len7 > CtrlMax)
           \/ /\ len7 = CtrlMax + 1
              /\ Len(s) >= 4
              /\ LengthBytes(len(2)) < 2
           \/ /\ len7 = CtrlMax + 2
              /\ Len(s) >= 10
              /\ LengthBytes(len(8)) < 8 \/ len(8) >= Radix8 \div 2

(* In the code a digit is a byte, and 126 and 127 are the largest numbers  *)
(* of 7 bits.                                                              *)
ASSUME FrameRecvAssumption ==
    /\ CtrlMax <= 125
    /\ Radix \in 2..256 /\ Radix % 2 = 0 /\ Radix2 > CtrlMax + 1
    /\ IBufSize \in Nat /\ IBufSize >= 8
    /\ Frames \subseteq Frame
    /\ \A f \in Frames : /\ Len(f.payload) < Radix8 \div 2
                         /\ wslay_is_ctrl_frame(f.opcode) =>
                               f.fin /\ Len(f.payload) <= CtrlMax
    /\ \A head \in Heads : head \in Seq(Byte) /\ IsMalformed(head)
    /\ Keys \subseteq [ 1..4 -> Byte ]
    /\ MaxFrames \in Nat

(* wslay_frame_context_new *)
Init ==
    /\ ctx = [ ibuf |-> << >>, mark |-> 0, istate |-> "RECV_HEADER1", ireqread |-> 2,
               iom |-> [ fin |-> FALSE, rsv |-> 0, opcode |-> 0 ], imask |-> FALSE,
               imaskkey |-> << 0, 0, 0, 0 >>, ipayloadlen |-> 0, ipayloadoff |-> 0 ]
    /\ peer \in UNION { [ 1..n -> Frames ] : n \in 0..MaxFrames }
    /\ \E key \in Keys, head \in Heads \cup {<< >>} :
         /\ stream = PeerStream(peer, key, head)
         /\ bad = (head # << >>)
    /\ done = 0
    /\ asked = IBufSize
    /\ last = [ iocb |-> NoIocb, result |-> 0, failed |-> FALSE ]

-----------------------------------------------------------------------------
(* The buffer *)

(* A call under way: c is the context, left the stream.                    *)
Begin(c, left, room) ==
    [ ctx |-> c, stream |-> left, asked |-> room, iocb |-> NoIocb, result |-> 0,
      failed |-> FALSE, returned |-> FALSE ]

Return(o, r) == [ o EXCEPT !.result = r, !.returned = TRUE ]

wslay_shift_ibuf(c) == [ c EXCEPT !.mark = 0 ]

(* Any number of bytes that are there and fit, or none.                    *)
wslay_recv(o) ==
    LET c    == wslay_shift_ibuf(o.ctx)
        room == IBufSize - (c.mark + Len(c.ibuf))
        Got(n) == [ o EXCEPT !.ctx = [ c EXCEPT !.ibuf = @ \o SubSeq(o.stream, 1, n) ],
                             !.stream = SubSeq(@, n + 1, Len(@)),
                             !.asked = room ]
    IN  { Got(n) : n \in { n \in 1..Len(o.stream) : n <= room } }
        \cup { Return([ o EXCEPT !.ctx = c, !.asked = room, !.failed = TRUE ],
                      WSLAY_ERR_WANT_READ) }

(* The stage needs ireqread bytes and reads at most once to have them.     *)
Require(o) ==
    IF Len(o.ctx.ibuf) >= o.ctx.ireqread THEN {o}
    ELSE { IF p.returned \/ Len(p.ctx.ibuf) >= p.ctx.ireqread THEN p
           ELSE Return(p, WSLAY_ERR_WANT_READ) : p \in wslay_recv(o) }

Advance(c, n) == [ c EXCEPT !.ibuf = SubSeq(@, n + 1, Len(@)), !.mark = @ + n ]

-----------------------------------------------------------------------------
(* The stages *)

AfterLength(c) ==
    IF c.imask THEN [ c EXCEPT !.istate = "RECV_MASKKEY", !.ireqread = 4 ]
    ELSE [ c EXCEPT !.istate = "RECV_PAYLOAD" ]

OpcodeMemo(b) == [ fin |-> b \div 128 = 1, rsv |-> (b \div 16) % 8, opcode |-> b % 16 ]

ParseHead(o) ==
    LET iom == OpcodeMemo(o.ctx.ibuf[1])
        b   == o.ctx.ibuf[2]
        len == b % 128
        c   == [ Advance(o.ctx, 2) EXCEPT !.iom = iom, !.imask = (b \div 128 = 1) ]
    IN  IF wslay_is_ctrl_frame(iom.opcode) /\ (len > CtrlMax \/ ~iom.fin)
        THEN Return([ o EXCEPT !.ctx = c ], WSLAY_ERR_PROTO)
        ELSE [ o EXCEPT !.ctx =
                 IF len > CtrlMax
                 THEN [ c EXCEPT !.istate = "RECV_EXT_PAYLOADLEN",
                                 !.ireqread = IF len = CtrlMax + 1 THEN 2 ELSE 8 ]
                 ELSE AfterLength([ c EXCEPT !.ipayloadlen = len, !.ipayloadoff = 0 ]) ]

(* Mutant: the smallest length of each form is refused.                    *)
IsBadLengthStrict(n, len) ==
    IF n = 8 THEN len <= Radix2 \/ len >= Radix8 \div 2 ELSE len <= CtrlMax + 1

(* A length in n bytes must not fit in fewer, and has 63 bits at most.     *)
IsBadLength(n, len) ==
    IF n = 8 THEN len < Radix2 \/ len >= Radix8 \div 2 ELSE len < CtrlMax + 1

ParseExtLength(o) ==
    LET n   == o.ctx.ireqread
        len == be64toh(SubSeq(o.ctx.ibuf, 1, n))
        c   == [ Advance(o.ctx, n) EXCEPT !.ipayloadlen = len, !.ipayloadoff = 0 ]
    IN  IF IsBadLength(n, len) THEN Return([ o EXCEPT !.ctx = c ], WSLAY_ERR_PROTO)
        ELSE [ o EXCEPT !.ctx = AfterLength(c) ]

TakeMaskKey(o) ==
    [ o EXCEPT !.ctx = [ Advance(o.ctx, 4) EXCEPT !.imaskkey = SubSeq(o.ctx.ibuf, 1, 4),
                                                  !.istate = "RECV_PAYLOAD" ] ]

(* Mutant: the key begins anew with every chunk.                           *)
UnmaskChunk(c, i) ==
    IF c.imask THEN Xor(c.ibuf[i], c.imaskkey[1 + ((i - 1) % 4)]) ELSE c.ibuf[i]

(* The i-th byte of the chunk.                                             *)
Unmask(c, i) ==
    IF c.imask THEN Xor(c.ibuf[i], c.imaskkey[1 + ((c.ipayloadoff + i - 1) % 4)])
    ELSE c.ibuf[i]

(* Mutant: the next head waits for as many bytes as the last stage did.    *)
FrameEndsOnly(c) == [ c EXCEPT !.istate = "RECV_HEADER1" ]

FrameEnds(c) == [ c EXCEPT !.istate = "RECV_HEADER1", !.ireqread = 2 ]

(* Pass on what is there of the payload.                                   *)
PassChunk(o) ==
    LET c   == o.ctx
        rem == c.ipayloadlen - c.ipayloadoff
        n   == IF Len(c.ibuf) < rem THEN Len(c.ibuf) ELSE rem
        d   == [ Advance(c, n) EXCEPT !.ipayloadoff = @ + n ]
        iocb == [ fin |-> c.iom.fin, rsv |-> c.iom.rsv, opcode |-> c.iom.opcode,
                  mask |-> c.imask, payload_length |-> c.ipayloadlen,
                  data |-> [ i \in 1..n |-> Unmask(c, i) ] ]
    IN  Return([ o EXCEPT !.ctx = IF n = rem THEN FrameEnds(d) ELSE d, !.iocb = iocb ], 0)

ReceivePayload(o) ==
    { IF p.returned THEN p ELSE PassChunk(p) :
      p \in IF o.ctx.ibuf = << >> /\ o.ctx.ipayloadlen > o.ctx.ipayloadoff
            THEN wslay_recv(o) ELSE {o} }

(* The calls that are in the given state go through a stage.               *)
Stage(calls, istate, F(_)) ==
    UNION { IF o.returned \/ o.ctx.istate # istate THEN {o}
            ELSE { IF p.returned THEN p ELSE F(p) : p \in Require(o) } : o \in calls }

wslay_frame_recv(c, left, room) ==
    LET head   == Stage({ Begin(c, left, room) }, "RECV_HEADER1", ParseHead)
        length == Stage(head, "RECV_EXT_PAYLOADLEN", ParseExtLength)
        key    == Stage(length, "RECV_MASKKEY", TakeMaskKey)
    IN  UNION { IF o.returned THEN {o} ELSE ReceivePayload(o) : o \in key }

-----------------------------------------------------------------------------
(* The specification *)

(* The caller does not call again after WSLAY_ERR_PROTO: the event layer   *)
(* stops reading (event.c 481-488).                                        *)
Call ==
    /\ last.result # WSLAY_ERR_PROTO
    /\ UNCHANGED << peer, bad >>
    /\ \E o \in wslay_frame_recv(ctx, stream, asked) :
         /\ ctx' = o.ctx
         /\ stream' = o.stream
         /\ asked' = o.asked
         /\ last' = [ iocb |-> o.iocb, result |-> o.result, failed |-> o.failed ]
         /\ done' = IF o.result = 0 /\ o.ctx.istate = "RECV_HEADER1"
                    THEN done + 1 ELSE done

Next == Call

Spec == Init /\ [][Next]_vars

-----------------------------------------------------------------------------
(* Correctness *)

(* The parser never gets stuck.  The buffer is never overrun, and          *)
(* recv_callback is never asked for no bytes, which it could only answer   *)
(* with 0, the sign of a closed connection (frame.c 169-192): before a     *)
(* read the buffer is shifted, and what a stage waits for fits.  A call    *)
(* waits for more bytes only if there is nothing left to pass on: when all *)
(* bytes of the peer were read, a call that finds nothing to read means    *)
(* that every frame was passed on and every error reported.  A stage that  *)
(* waits for more than it needs would hold a frame back until the next one *)
(* arrives (frame.c 224-236, 263, 316).                                    *)
NeverStuck ==
    /\ ctx.mark + Len(ctx.ibuf) <= IBufSize
    /\ asked >= 1
    /\ last.failed /\ stream = << >> => done = Len(peer) /\ ~bad

(* A protocol error is found only where there is one: all frames before    *)
(* the malformed head were passed on, and none of them is refused, however *)
(* close its length is to a limit (frame.c 219, 254-260).                  *)
ProtoVerdict == last.result = WSLAY_ERR_PROTO => bad /\ done = Len(peer)

(* What the event layer may rely on (FrameSource): the frames come out one *)
(* after the other, each as chunks of its payload in order, unmasked, with *)
(* the head of their own frame, wherever the socket cuts the bytes.        *)
IsOpen == ctx.istate = "RECV_PAYLOAD" /\ ctx.ipayloadoff > 0

Passed == IF IsOpen THEN done + 1 ELSE done

PassedOn == [ peer  |-> SubSeq(peer, 1, Passed),
              taken |-> IF IsOpen THEN ctx.ipayloadoff
                        ELSE IF Passed = 0 THEN 0 ELSE Len(peer[Passed].payload),
              open  |-> IsOpen ]

Source == INSTANCE FrameSourceSpec WITH source <- PassedOn

ImplementsSource == Source!Spec
=============================================================================
