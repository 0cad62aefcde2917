-------------------------- MODULE FrameSendProofs --------------------------
(***************************************************************************)
(* What a call of wslay_frame_send does, whatever the callbacks do: the    *)
(* lemmas on which the proofs about the event layer rest.                  *)
(***************************************************************************)
EXTENDS FrameSend, SequenceTheorems, TLAPS

(* The frames of v are those of w, further along.                          *)
SameFrames(w, v) ==
    /\ Len(v) = Len(w)
    /\ \A i \in 1..Len(w) : v[i].header = w[i].header

(* v has one more frame, with the header hd.                               *)
OneMoreFrame(w, v, hd) ==
    /\ Len(v) = Len(w) + 1
    /\ \A i \in 1..Len(w) : v[i].header = w[i].header
    /\ v[Len(v)].header = hd

IocbType == [ fin : BOOLEAN, opcode : Opcodes, mask : BOOLEAN,
              payload_length : Nat, data : Seq(Byte) ]

(* The three ways a call that reaches the payload ends, from a context fc  *)
(* whose header is complete.                                               *)
PayloadEffect(fc, w, data, o) ==
    /\ o.fc \in FrameContext
    /\ o.wire \in Seq(WireFrame)
    /\ o.length \in 0..Len(data)
    /\ o.failed \in BOOLEAN
    /\ SameFrames(w, o.wire)
    /\ o.fc.ostate \in {"PREP_HEADER", "SEND_PAYLOAD"}
    /\ o.fc.oheader = fc.oheader
    /\ o.fc.opayloadlen = fc.opayloadlen
    /\ \/ /\ o.result = 0
          /\ o.fc.opayloadoff = fc.opayloadoff + o.length
          /\ o.fc.ostate = IF o.fc.opayloadoff = fc.opayloadlen
                           THEN "PREP_HEADER" ELSE "SEND_PAYLOAD"
          /\ data # << >> => o.length > 0
       \/ o.result = WSLAY_ERR_WANT_WRITE /\ o.fc = fc
       \/ o.result = WSLAY_ERR_INVALID_CALLBACK

(* A header that is being sent still has bytes to send.                    *)
HeaderIncomplete(fc) ==
    fc.ostate = "SEND_HEADER" => fc.oheadermark < fc.oheaderlimit

(* The ways a call ends.  The frame it is about has the header hd and plen *)
(* bytes of payload, of which base precede data; begun tells whether a     *)
(* byte of the frame was sent before the call.                             *)
Effect(hd, plen, base, begun, w, data, o) ==
    /\ o.fc \in FrameContext
    /\ HeaderIncomplete(o.fc)
    /\ o.wire \in Seq(WireFrame)
    /\ o.length \in 0..Len(data)
    /\ o.failed \in BOOLEAN
    /\ SameFrames(w, o.wire) \/ (~begun /\ OneMoreFrame(w, o.wire, hd))
    /\ \/ /\ o.result = 0
          /\ o.fc.oheader = hd
          /\ o.fc.opayloadlen = plen
          /\ o.fc.opayloadoff = base + o.length
          /\ o.fc.ostate = IF base + o.length = plen
                           THEN "PREP_HEADER" ELSE "SEND_PAYLOAD"
          /\ data # << >> => o.length > 0
       \/ /\ o.result = WSLAY_ERR_WANT_WRITE
          /\ o.fc.oheader = hd
          /\ o.fc.opayloadlen = plen
          /\ o.fc.opayloadoff = base
          /\ o.fc.ostate # "PREP_HEADER"
          /\ IsUnderWay(o.fc) \/ (~begun /\ SameFrames(w, o.wire))
       \/ o.result = WSLAY_ERR_INVALID_CALLBACK
       \/ o.result = WSLAY_ERR_INVALID_ARGUMENT

-----------------------------------------------------------------------------

(* A field of a record may move forward.                                   *)
LEMMA OffsetLemma ==
    ASSUME NEW fc \in FrameContext, NEW n \in Nat
    PROVE  /\ [ fc EXCEPT !.opayloadoff = @ + n ] \in FrameContext
           /\ [ fc EXCEPT !.opayloadoff = @ + n ].oheader = fc.oheader
           /\ [ fc EXCEPT !.opayloadoff = @ + n ].ostate = fc.ostate
           /\ [ fc EXCEPT !.opayloadoff = @ + n ].opayloadlen = fc.opayloadlen
<1>1. [ fc EXCEPT !.opayloadoff = @ + n ] \in FrameContext
  BY DEF FrameContext
<1> QED  BY <1>1 DEF FrameContext

LEMMA WireFrameLemma ==
    ASSUME NEW f \in WireFrame, NEW n \in Nat
    PROVE  /\ [ f EXCEPT !.hdr = @ + n ] \in WireFrame
           /\ [ f EXCEPT !.hdr = @ + n ].header = f.header
<1>1. [ f EXCEPT !.hdr = @ + n ] \in WireFrame
  BY DEF WireFrame
<1> QED  BY <1>1 DEF WireFrame

(* The context after n payload bytes (PayloadSent).                        *)
LEMMA PayloadSentLemma ==
    ASSUME NEW fc \in FrameContext, NEW n \in Nat
    PROVE  /\ PayloadSent(fc, n) \in FrameContext
           /\ PayloadSent(fc, n).oheader = fc.oheader
           /\ PayloadSent(fc, n).opayloadlen = fc.opayloadlen
           /\ PayloadSent(fc, n).opayloadoff = fc.opayloadoff + n
           /\ PayloadSent(fc, n).ostate = IF fc.opayloadoff + n = fc.opayloadlen
                                          THEN "PREP_HEADER" ELSE "SEND_PAYLOAD"
<1> DEFINE off == fc.opayloadoff + n
           st  == IF off = fc.opayloadlen THEN "PREP_HEADER" ELSE "SEND_PAYLOAD"
<1>1. off \in Nat
  BY DEF FrameContext
<1>2. st \in OState
  BY DEF OState
<1>3. PayloadSent(fc, n) = [ fc EXCEPT !.opayloadoff = off, !.ostate = st ]
  BY DEF PayloadSent
<1> HIDE DEF off, st
<1>4. [ fc EXCEPT !.opayloadoff = off, !.ostate = st ] \in FrameContext
  BY <1>1, <1>2 DEF FrameContext
<1>5. /\ PayloadSent(fc, n).oheader = fc.oheader
      /\ PayloadSent(fc, n).opayloadlen = fc.opayloadlen
      /\ PayloadSent(fc, n).opayloadoff = off
      /\ PayloadSent(fc, n).ostate = st
  BY <1>3 DEF FrameContext
<1> QED  BY <1>3, <1>4, <1>5 DEF off, st

(* The context after n header bytes (HeaderSent).                          *)
LEMMA HeaderSentLemma ==
    ASSUME NEW fc \in FrameContext, NEW n \in Nat
    PROVE  /\ HeaderSent(fc, n) \in FrameContext
           /\ HeaderSent(fc, n).oheader = fc.oheader
           /\ HeaderSent(fc, n).opayloadlen = fc.opayloadlen
           /\ HeaderSent(fc, n).opayloadoff = fc.opayloadoff
           /\ HeaderSent(fc, n).oheadermark = fc.oheadermark + n
           /\ HeaderSent(fc, n).oheaderlimit = fc.oheaderlimit
           /\ HeaderSent(fc, n).ostate = IF fc.oheadermark + n = fc.oheaderlimit
                                         THEN "SEND_PAYLOAD" ELSE "SEND_HEADER"
<1> DEFINE mark == fc.oheadermark + n
           st   == IF mark = fc.oheaderlimit THEN "SEND_PAYLOAD" ELSE "SEND_HEADER"
<1>1. mark \in Nat
  BY DEF FrameContext
<1>2. st \in OState
  BY DEF OState
<1>3. HeaderSent(fc, n) = [ fc EXCEPT !.oheadermark = mark, !.ostate = st ]
  BY DEF HeaderSent
<1> HIDE DEF mark, st
<1>4. [ fc EXCEPT !.oheadermark = mark, !.ostate = st ] \in FrameContext
  BY <1>1, <1>2 DEF FrameContext
<1>5. /\ HeaderSent(fc, n).oheader = fc.oheader
      /\ HeaderSent(fc, n).opayloadlen = fc.opayloadlen
      /\ HeaderSent(fc, n).opayloadoff = fc.opayloadoff
      /\ HeaderSent(fc, n).oheadermark = mark
      /\ HeaderSent(fc, n).oheaderlimit = fc.oheaderlimit
      /\ HeaderSent(fc, n).ostate = st
  BY <1>3 DEF FrameContext
<1> QED  BY <1>3, <1>4, <1>5 DEF mark, st

(* Writing n payload bytes keeps the frames (WritePayload).                *)
LEMMA WritePayloadLemma ==
    ASSUME NEW fc \in FrameContext, NEW w \in Seq(WireFrame),
           NEW data \in Seq(Byte), NEW n \in 0..Len(data)
    PROVE  /\ WritePayload(fc, w, data, n) \in Seq(WireFrame)
           /\ SameFrames(w, WritePayload(fc, w, data, n))
<1> DEFINE sent == [ i \in 1..n |-> [ byte |-> data[i], key |-> KeyIndex(fc, i) ] ]
<1>1. \A i \in 1..n : [ byte |-> data[i], key |-> KeyIndex(fc, i) ] \in WireByte
  <2> SUFFICES ASSUME NEW i \in 1..n
               PROVE  [ byte |-> data[i], key |-> KeyIndex(fc, i) ] \in WireByte
    OBVIOUS
  <2>1. data[i] \in Byte
    OBVIOUS
  <2>2. fc.opayloadoff + i - 1 \in Nat
    BY DEF FrameContext
  <2>3. (fc.opayloadoff + i - 1) % 4 \in 0..3
    BY <2>2
  <2> QED  BY <2>1, <2>3 DEF WireByte, KeyIndex, NoKey
<1>2. sent \in Seq(WireByte)
  BY <1>1, SeqDef
<1>3. CASE w = << >>
  <2>1. WritePayload(fc, w, data, n) = w
    BY <1>3 DEF WritePayload
  <2> QED  BY <2>1 DEF SameFrames
<1>4. CASE w # << >>
  <2>1. Len(w) \in 1..Len(w)
    BY <1>4, EmptySeq, LenProperties
  <2>2. w[Len(w)] \in WireFrame
    BY <2>1
  <2> DEFINE f == [ w[Len(w)] EXCEPT !.body = @ \o sent ]
  <2>3. f \in WireFrame /\ f.header = w[Len(w)].header
    <3> HIDE DEF sent
    <3> QED  BY <2>2, <1>2, ConcatProperties DEF WireFrame
  <2>4. WritePayload(fc, w, data, n) = [ w EXCEPT ![Len(w)] = f ]
    BY <2>1 DEF WritePayload
  <2> HIDE DEF f
  <2> QED  BY <2>1, <2>3, <2>4 DEF SameFrames
<1> QED  BY <1>3, <1>4

(* Writing n header bytes begins the frame of fc, if none of its bytes was *)
(* sent yet, and keeps the other frames (WriteHeader).                     *)
LEMMA WriteHeaderLemma ==
    ASSUME NEW fc \in FrameContext, NEW w \in Seq(WireFrame), NEW n \in Nat
    PROVE  /\ WriteHeader(fc, w, n) \in Seq(WireFrame)
           /\ fc.oheadermark = 0 => OneMoreFrame(w, WriteHeader(fc, w, n), fc.oheader)
           /\ fc.oheadermark # 0 => SameFrames(w, WriteHeader(fc, w, n))
<1>1. CASE fc.oheadermark = 0
  <2> DEFINE f == [ header |-> fc.oheader, hdrlen |-> fc.oheaderlimit,
                    hdr |-> n, body |-> << >> ]
  <2>1. f \in WireFrame /\ f.header = fc.oheader
    BY DEF WireFrame, FrameContext
  <2>2. WriteHeader(fc, w, n) = Append(w, f)
    BY <1>1 DEF WriteHeader
  <2> HIDE DEF f
  <2> QED  BY <1>1, <2>1, <2>2, AppendProperties DEF OneMoreFrame
<1>2. CASE fc.oheadermark # 0 /\ w = << >>
  <2>1. WriteHeader(fc, w, n) = w
    BY <1>2 DEF WriteHeader
  <2> QED  BY <1>2, <2>1 DEF SameFrames
<1>3. CASE fc.oheadermark # 0 /\ w # << >>
  <2>1. Len(w) \in 1..Len(w)
    BY <1>3, EmptySeq, LenProperties
  <2>2. w[Len(w)] \in WireFrame
    BY <2>1
  <2> DEFINE f == [ w[Len(w)] EXCEPT !.hdr = @ + n ]
  <2>3. f \in WireFrame /\ f.header = w[Len(w)].header
    BY <2>2, WireFrameLemma
  <2>4. WriteHeader(fc, w, n) = [ w EXCEPT ![Len(w)] = f ]
    BY <1>3, <2>1 DEF WriteHeader
  <2> HIDE DEF f
  <2> QED  BY <1>3, <2>1, <2>3, <2>4 DEF SameFrames
<1> QED  BY <1>1, <1>2, <1>3

(* The payload stage (frame.c 112-165).                                    *)
LEMMA SendPayloadLemma ==
    ASSUME NEW fc \in FrameContext, fc.ostate = "SEND_PAYLOAD",
           NEW w \in Seq(WireFrame), NEW data \in Seq(Byte),
           NEW o \in SendPayload(fc, w, data)
    PROVE  PayloadEffect(fc, w, data, o)
<1>1. CASE data = << >>
  <2>1. o = Outcome(PayloadSent(fc, 0), w, 0, 0, FALSE)
    BY <1>1 DEF SendPayload
  <2>2. /\ o.fc = PayloadSent(fc, 0) /\ o.wire = w /\ o.result = 0
        /\ o.length = 0 /\ o.failed \in BOOLEAN
    BY <2>1 DEF Outcome
  <2>3. SameFrames(w, w)
    BY DEF SameFrames
  <2>4. Len(data) = 0 /\ 0 \in 0..Len(data)
    BY <1>1
  <2> QED  BY <1>1, <2>2, <2>3, <2>4, PayloadSentLemma, SMTT(40) DEF PayloadEffect
<1>2. CASE data # << >>
  <2>1. Len(data) \in Nat /\ Len(data) > 0
    BY <1>2, EmptySeq
  <2>2. CASE o = Blocked(fc, w)
    BY <2>1, <2>2 DEF PayloadEffect, Blocked, Outcome, SameFrames
  <2>3. ASSUME NEW n \in 1..Len(data),
               o = Outcome(PayloadSent(fc, n), WritePayload(fc, w, data, n), 0, n,
                           fc.omask /\ n < Len(data))
        PROVE  PayloadEffect(fc, w, data, o)
    <3>1. n \in Nat /\ n \in 0..Len(data) /\ n > 0
      BY <2>1
    <3>2. /\ WritePayload(fc, w, data, n) \in Seq(WireFrame)
          /\ SameFrames(w, WritePayload(fc, w, data, n))
      BY WritePayloadLemma, <3>1
    <3>3. /\ o.fc = PayloadSent(fc, n) /\ o.wire = WritePayload(fc, w, data, n)
          /\ o.result = 0 /\ o.length = n
          /\ o.failed \in BOOLEAN
      BY <2>3 DEF Outcome
    <3>4. /\ PayloadSent(fc, n) \in FrameContext
          /\ PayloadSent(fc, n).oheader = fc.oheader
          /\ PayloadSent(fc, n).opayloadlen = fc.opayloadlen
          /\ PayloadSent(fc, n).opayloadoff = fc.opayloadoff + n
          /\ PayloadSent(fc, n).ostate = IF fc.opayloadoff + n = fc.opayloadlen
                                         THEN "PREP_HEADER" ELSE "SEND_PAYLOAD"
      BY ONLY <3>1, fc \in FrameContext, PayloadSentLemma
    <3> QED  BY <3>1, <3>2, <3>3, <3>4 DEF PayloadEffect
  <2>4. ASSUME NEW n \in 0..(Len(data) - 1),
               o = Overrun([fc EXCEPT !.opayloadoff = @ + n],
                           WritePayload(fc, w, data, n))
        PROVE  PayloadEffect(fc, w, data, o)
    <3>1. n \in Nat /\ n \in 0..Len(data) /\ 0 \in 0..Len(data)
      BY <2>1
    <3>2. /\ WritePayload(fc, w, data, n) \in Seq(WireFrame)
          /\ SameFrames(w, WritePayload(fc, w, data, n))
      BY WritePayloadLemma, <3>1
    <3>3. /\ o.fc = [fc EXCEPT !.opayloadoff = @ + n]
          /\ o.wire = WritePayload(fc, w, data, n)
          /\ o.result = WSLAY_ERR_INVALID_CALLBACK /\ o.length = 0
          /\ o.failed \in BOOLEAN
      BY <2>4 DEF Overrun, Outcome
    <3>4. /\ o.fc \in FrameContext
          /\ o.fc.oheader = fc.oheader
          /\ o.fc.ostate = fc.ostate
          /\ o.fc.opayloadlen = fc.opayloadlen
      BY <3>1, <3>3, OffsetLemma
    <3> QED  BY <3>1, <3>2, <3>3, <3>4 DEF PayloadEffect
  <2>5. \/ o = Blocked(fc, w)
        \/ \E n \in 1..Len(data) :
             o = Outcome(PayloadSent(fc, n), WritePayload(fc, w, data, n), 0, n,
                         fc.omask /\ n < Len(data))
        \/ \E n \in 0..(Len(data) - 1) :
             o = Overrun([fc EXCEPT !.opayloadoff = @ + n],
                         WritePayload(fc, w, data, n))
    BY <1>2, <2>1 DEF SendPayload
  <2> QED  BY <2>2, <2>3, <2>4, <2>5
<1> QED  BY <1>1, <1>2

(* The same, as an effect of the whole call.                               *)
LEMMA PayloadEffectLemma ==
    ASSUME NEW fc \in FrameContext, fc.ostate = "SEND_PAYLOAD",
           NEW w \in Seq(WireFrame), NEW data \in Seq(Byte),
           NEW o \in SendPayload(fc, w, data)
    PROVE  Effect(fc.oheader, fc.opayloadlen, fc.opayloadoff, TRUE, w, data, o)
<1>1. PayloadEffect(fc, w, data, o)
  BY SendPayloadLemma
<1>2. HeaderIncomplete(o.fc)
  BY <1>1 DEF PayloadEffect, HeaderIncomplete
<1>3. CASE o.result = 0
  BY <1>1, <1>2, <1>3 DEF PayloadEffect, Effect, WSLAY_ERR_WANT_WRITE,
                          WSLAY_ERR_INVALID_CALLBACK
<1>4. CASE o.result = WSLAY_ERR_WANT_WRITE
  BY <1>1, <1>2, <1>4 DEF PayloadEffect, Effect, IsUnderWay, WSLAY_ERR_WANT_WRITE,
                          WSLAY_ERR_INVALID_CALLBACK
<1>5. CASE o.result = WSLAY_ERR_INVALID_CALLBACK
  BY <1>1, <1>2, <1>5 DEF PayloadEffect, Effect
<1> QED  BY <1>1, <1>3, <1>4, <1>5 DEF PayloadEffect

(* The header stage, and the payload stage it falls through to (frame.c    *)
(* 89-111).                                                                *)
LEMMA SendHeaderLemma ==
    ASSUME NEW fc \in FrameContext, fc.ostate = "SEND_HEADER",
           HeaderIncomplete(fc),
           NEW w \in Seq(WireFrame), NEW data \in Seq(Byte),
           NEW o \in SendHeader(fc, w, data)
    PROVE  Effect(fc.oheader, fc.opayloadlen, fc.opayloadoff,
                  fc.oheadermark > 0, w, data, o)
<1> DEFINE left == fc.oheaderlimit - fc.oheadermark
<1>1. left \in Nat /\ left > 0 /\ fc.oheadermark + left = fc.oheaderlimit
      /\ fc.oheadermark \in Nat /\ 0 \in 0..Len(data)
  BY SMTT(30) DEF FrameContext, HeaderIncomplete
<1>2. SameFrames(w, w)
  BY DEF SameFrames
<1>3. CASE o = Blocked(fc, w)
  <2>1. /\ o.fc = fc /\ o.wire = w /\ o.result = WSLAY_ERR_WANT_WRITE
        /\ o.length = 0 /\ o.failed \in BOOLEAN
    BY <1>3 DEF Blocked, Outcome
  <2> QED  BY <1>1, <1>2, <2>1 DEF Effect, IsUnderWay
<1>4. CASE o = Overrun(fc, w)
  <2>1. /\ o.fc = fc /\ o.wire = w /\ o.result = WSLAY_ERR_INVALID_CALLBACK
        /\ o.length = 0 /\ o.failed \in BOOLEAN
    BY <1>4 DEF Overrun, Outcome
  <2> QED  BY <1>1, <1>2, <2>1 DEF Effect
<1>5. ASSUME NEW n \in 1..(left - 1),
             o = Outcome(HeaderSent(fc, n), WriteHeader(fc, w, n),
                         WSLAY_ERR_WANT_WRITE, 0, FALSE)
      PROVE  Effect(fc.oheader, fc.opayloadlen, fc.opayloadoff,
                    fc.oheadermark > 0, w, data, o)
  <2>1. n \in Nat /\ n > 0 /\ fc.oheadermark + n < fc.oheaderlimit
        /\ fc.oheadermark + n > 0
    BY <1>1
  <2>2. /\ o.fc = HeaderSent(fc, n) /\ o.wire = WriteHeader(fc, w, n)
        /\ o.result = WSLAY_ERR_WANT_WRITE /\ o.length = 0 /\ o.failed \in BOOLEAN
    BY <1>5 DEF Outcome
  <2>3. /\ HeaderSent(fc, n) \in FrameContext
        /\ HeaderSent(fc, n).oheader = fc.oheader
        /\ HeaderSent(fc, n).opayloadlen = fc.opayloadlen
        /\ HeaderSent(fc, n).opayloadoff = fc.opayloadoff
        /\ HeaderSent(fc, n).oheadermark = fc.oheadermark + n
        /\ HeaderSent(fc, n).oheaderlimit = fc.oheaderlimit
        /\ HeaderSent(fc, n).ostate = IF fc.oheadermark + n = fc.oheaderlimit
                                      THEN "SEND_PAYLOAD" ELSE "SEND_HEADER"
    BY ONLY <2>1, fc \in FrameContext, HeaderSentLemma
  <2>4. HeaderSent(fc, n).ostate = "SEND_HEADER"
    BY <1>1, <2>1, <2>3 DEF FrameContext
  <2>5. /\ WriteHeader(fc, w, n) \in Seq(WireFrame)
        /\ fc.oheadermark = 0 => OneMoreFrame(w, WriteHeader(fc, w, n), fc.oheader)
        /\ fc.oheadermark # 0 => SameFrames(w, WriteHeader(fc, w, n))
    BY ONLY <2>1, fc \in FrameContext, w \in Seq(WireFrame), WriteHeaderLemma
  <2>6. HeaderIncomplete(o.fc) /\ IsUnderWay(o.fc)
    BY <2>1, <2>2, <2>3, <2>4 DEF HeaderIncomplete, IsUnderWay
  <2> QED  BY <1>1, <2>2, <2>3, <2>4, <2>5, <2>6 DEF Effect
<1>6. CASE o \in SendPayload(HeaderSent(fc, left), WriteHeader(fc, w, left), data)
  <2> DEFINE hfc == HeaderSent(fc, left)
             hw  == WriteHeader(fc, w, left)
  <2>1. /\ hfc \in FrameContext
        /\ hfc.oheader = fc.oheader
        /\ hfc.opayloadlen = fc.opayloadlen
        /\ hfc.opayloadoff = fc.opayloadoff
        /\ hfc.ostate = IF fc.oheadermark + left = fc.oheaderlimit
                        THEN "SEND_PAYLOAD" ELSE "SEND_HEADER"
    <3> HIDE DEF left
    <3> QED  BY ONLY <1>1, fc \in FrameContext, HeaderSentLemma
  <2>2. hfc.ostate = "SEND_PAYLOAD"
    BY <1>1, <2>1
  <2>3. /\ hw \in Seq(WireFrame)
        /\ fc.oheadermark = 0 => OneMoreFrame(w, hw, fc.oheader)
        /\ fc.oheadermark # 0 => SameFrames(w, hw)
    <3> HIDE DEF left
    <3> QED  BY ONLY <1>1, fc \in FrameContext, w \in Seq(WireFrame), WriteHeaderLemma
  <2> HIDE DEF hfc, hw
  <2>4. o \in SendPayload(hfc, hw, data)
    BY <1>6 DEF hfc, hw
  <2>5. Effect(hfc.oheader, hfc.opayloadlen, hfc.opayloadoff, TRUE, hw, data, o)
    BY <2>1, <2>2, <2>3, <2>4, PayloadEffectLemma
  <2>6. SameFrames(hw, o.wire) /\ o.wire \in Seq(WireFrame)
    BY <2>5 DEF Effect
  <2>7. SameFrames(w, o.wire)
        \/ (~(fc.oheadermark > 0) /\ OneMoreFrame(w, o.wire, fc.oheader))
    BY <1>1, <2>3, <2>6 DEF SameFrames, OneMoreFrame
  <2>8. o.result = WSLAY_ERR_WANT_WRITE => IsUnderWay(o.fc)
    BY <2>5 DEF Effect, WSLAY_ERR_WANT_WRITE, WSLAY_ERR_INVALID_CALLBACK,
                WSLAY_ERR_INVALID_ARGUMENT
  <2> QED  BY <2>1, <2>5, <2>7, <2>8 DEF Effect
<1>7. \/ o = Blocked(fc, w)
      \/ o = Overrun(fc, w)
      \/ \E n \in 1..(left - 1) :
           o = Outcome(HeaderSent(fc, n), WriteHeader(fc, w, n),
                       WSLAY_ERR_WANT_WRITE, 0, FALSE)
      \/ o \in SendPayload(HeaderSent(fc, left), WriteHeader(fc, w, left), data)
  BY DEF SendHeader
<1> QED  BY <1>3, <1>4, <1>5, <1>6, <1>7
(* The frame a call is about: the one under way, or a new one.             *)
FrameHeader(fc, iocb) ==
    IF fc.ostate = "PREP_HEADER"
    THEN [ fin |-> iocb.fin, opcode |-> iocb.opcode, mask |-> iocb.mask,
           payload_length |-> iocb.payload_length ]
    ELSE fc.oheader

FrameLength(fc, iocb) ==
    IF fc.ostate = "PREP_HEADER" THEN iocb.payload_length ELSE fc.opayloadlen

FrameOffset(fc) == IF fc.ostate = "PREP_HEADER" THEN 0 ELSE fc.opayloadoff

(* Preparing a header makes a context (frame.c 44-88).                     *)
LEMMA PrepareHeaderLemma ==
    ASSUME NEW fc \in FrameContext, NEW iocb \in IocbType
    PROVE  LET p == PrepareHeader(fc, iocb)
           IN  /\ p \in FrameContext
               /\ p.ostate = "SEND_HEADER"
               /\ p.oheader = [ fin |-> iocb.fin, opcode |-> iocb.opcode,
                               mask |-> iocb.mask,
                               payload_length |-> iocb.payload_length ]
               /\ p.oheadermark = 0
               /\ p.oheaderlimit > 0
               /\ p.opayloadlen = iocb.payload_length
               /\ p.opayloadoff = 0
<1> DEFINE hl == HeaderLength(iocb.payload_length, iocb.mask)
           hd == [ fin |-> iocb.fin, opcode |-> iocb.opcode, mask |-> iocb.mask,
                   payload_length |-> iocb.payload_length ]
           om == iocb.mask \/ fc.omask
<1>1. hl \in Nat /\ hl > 0
  BY CtrlMaxAssumption, ExtLimitsAssumption DEF HeaderLength, IocbType
<1>2. hd \in Header /\ iocb.payload_length \in Nat
  BY DEF Header, IocbType
<1>3. om \in BOOLEAN
  BY DEF FrameContext, IocbType
<1>4. PrepareHeader(fc, iocb) =
        [ ostate |-> "SEND_HEADER", oheader |-> hd, oheadermark |-> 0,
          oheaderlimit |-> hl, opayloadlen |-> iocb.payload_length,
          opayloadoff |-> 0, omask |-> om ]
  BY DEF PrepareHeader
<1>5. PrepareHeader(fc, iocb).oheader = hd
  BY <1>4
<1> HIDE DEF hl, hd, om
<1>6. PrepareHeader(fc, iocb) \in FrameContext
  BY <1>1, <1>2, <1>3, <1>4 DEF FrameContext, OState
<1>7. /\ PrepareHeader(fc, iocb).ostate = "SEND_HEADER"
      /\ PrepareHeader(fc, iocb).oheadermark = 0
      /\ PrepareHeader(fc, iocb).oheaderlimit > 0
      /\ PrepareHeader(fc, iocb).opayloadlen = iocb.payload_length
      /\ PrepareHeader(fc, iocb).opayloadoff = 0
  BY <1>1, <1>4
<1> QED  BY <1>5, <1>6, <1>7 DEF hd

(* wslay_frame_send: whatever the callbacks do, the call leaves a context  *)
(* that describes the same frame, further along.                           *)
LEMMA FrameSendLemma ==
    ASSUME NEW fc \in FrameContext, HeaderIncomplete(fc),
           NEW w \in Seq(WireFrame), NEW iocb \in IocbType,
           NEW o \in wslay_frame_send(fc, w, iocb)
    PROVE  Effect(FrameHeader(fc, iocb), FrameLength(fc, iocb), FrameOffset(fc),
                  IsUnderWay(fc), w, iocb.data, o)
<1>1. iocb.data \in Seq(Byte) /\ 0 \in 0..Len(iocb.data)
  BY DEF IocbType
<1>2. SameFrames(w, w)
  BY DEF SameFrames
<1>3. ASSUME NEW e \in {WSLAY_ERR_INVALID_ARGUMENT, WSLAY_ERR_INVALID_CALLBACK},
             o = Outcome(fc, w, e, 0, FALSE)
      PROVE  Effect(FrameHeader(fc, iocb), FrameLength(fc, iocb), FrameOffset(fc),
                    IsUnderWay(fc), w, iocb.data, o)
  <2>1. /\ o.fc = fc /\ o.wire = w /\ o.result = e
        /\ o.length = 0 /\ o.failed \in BOOLEAN
    BY <1>3 DEF Outcome
  <2> QED  BY <1>1, <1>2, <2>1 DEF Effect
<1>4. CASE /\ fc.ostate = "PREP_HEADER"
           /\ o \in SendHeader(PrepareHeader(fc, iocb), w, iocb.data)
  <2> DEFINE p == PrepareHeader(fc, iocb)
  <2>1. /\ p \in FrameContext
        /\ p.ostate = "SEND_HEADER"
        /\ p.oheader = [ fin |-> iocb.fin, opcode |-> iocb.opcode,
                        mask |-> iocb.mask,
                        payload_length |-> iocb.payload_length ]
        /\ p.oheadermark = 0
        /\ p.oheaderlimit > 0
        /\ p.opayloadlen = iocb.payload_length
        /\ p.opayloadoff = 0
    BY PrepareHeaderLemma
  <2>2. o \in SendHeader(p, w, iocb.data)
    BY <1>4
  <2> HIDE DEF p
  <2>3. HeaderIncomplete(p)
    BY <2>1 DEF HeaderIncomplete
  <2>4. Effect(p.oheader, p.opayloadlen, p.opayloadoff, p.oheadermark > 0,
               w, iocb.data, o)
    BY <1>1, <2>1, <2>2, <2>3, SendHeaderLemma
  <2>5. /\ FrameHeader(fc, iocb) = p.oheader
        /\ FrameLength(fc, iocb) = p.opayloadlen
        /\ FrameOffset(fc) = p.opayloadoff
        /\ ~IsUnderWay(fc)
    BY <1>4, <2>1 DEF FrameHeader, FrameLength, FrameOffset, IsUnderWay
  <2>6. ~(p.oheadermark > 0)
    BY <2>1
  <2> QED  BY <2>4, <2>5, <2>6 DEF Effect
<1>5. CASE fc.ostate = "SEND_HEADER" /\ o \in SendHeader(fc, w, iocb.data)
  <2>1. Effect(fc.oheader, fc.opayloadlen, fc.opayloadoff, fc.oheadermark > 0,
               w, iocb.data, o)
    BY <1>1, <1>5, SendHeaderLemma
  <2>2. /\ FrameHeader(fc, iocb) = fc.oheader
        /\ FrameLength(fc, iocb) = fc.opayloadlen
        /\ FrameOffset(fc) = fc.opayloadoff
        /\ IsUnderWay(fc) <=> fc.oheadermark > 0
    BY <1>5 DEF FrameHeader, FrameLength, FrameOffset, IsUnderWay
  <2> QED  BY <2>1, <2>2 DEF Effect
<1>6. CASE fc.ostate = "SEND_PAYLOAD" /\ o \in SendPayload(fc, w, iocb.data)
  <2>1. Effect(fc.oheader, fc.opayloadlen, fc.opayloadoff, TRUE, w, iocb.data, o)
    BY <1>1, <1>6, PayloadEffectLemma
  <2>2. /\ FrameHeader(fc, iocb) = fc.oheader
        /\ FrameLength(fc, iocb) = fc.opayloadlen
        /\ FrameOffset(fc) = fc.opayloadoff
        /\ IsUnderWay(fc)
    BY <1>6 DEF FrameHeader, FrameLength, FrameOffset, IsUnderWay
  <2> QED  BY <2>1, <2>2 DEF Effect
<1>7. fc.ostate \in {"PREP_HEADER", "SEND_HEADER", "SEND_PAYLOAD"}
  BY DEF FrameContext, OState
<1> QED  BY <1>3, <1>4, <1>5, <1>6, <1>7 DEF wslay_frame_send
=============================================================================
