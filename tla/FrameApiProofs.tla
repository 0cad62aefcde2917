-------------------------- MODULE FrameApiProofs ---------------------------
(***************************************************************************)
(* What the peer of an application that uses the frame API directly gets,  *)
(* whatever the sizes of the pieces: every frame whole and in order, its   *)
(* payload byte for byte, each byte with the mask-key byte of its place.   *)
(*                                                                         *)
(* The argument follows the three stages of wslay_frame_send (frame.c):    *)
(* no frame under way, a header under way, a payload under way.  Each      *)
(* stage ties frame_ctx, the last frame on the wire and the application's  *)
(* place in its payload to each other, and each call leads from a stage to *)
(* a stage.  A second layer, on top of the first, follows omask: it is set *)
(* only by a masked frame that is on the wire or about to begin.           *)
(***************************************************************************)
EXTENDS FrameApi, FrameSendProofs

(* The bytes of f are those of the k-th payload, and its keys are aligned. *)
Filled(f, k) ==
    \A p \in 1..Len(f.body) :
        /\ f.body[p].byte = 16 * (k - 1) + p - 1
        /\ f.header.mask => f.body[p].key = (p - 1) % 4

Whole(f, k) == /\ f.hdr = f.hdrlen
               /\ Len(f.body) = f.header.payload_length
               /\ Filled(f, k)

Part(f, k) == /\ f.hdr <= f.hdrlen
              /\ f.body # << >> => f.hdr = f.hdrlen
              /\ Len(f.body) <= f.header.payload_length
              /\ Filled(f, k)

(* The first n frames of w are complete.                                   *)
AllWhole(w, n) == \A i \in 1..n : Whole(w[i], i)

(* What FramesExact and KeysAligned say, frame by frame.                   *)
Exact(w) == \A i \in 1..Len(w) : Part(w[i], i) /\ (i < Len(w) => Whole(w[i], i))

IsPayload(payload, k) ==
    \A p \in 1..Len(payload) : payload[p] = 16 * (k - 1) + p - 1

-----------------------------------------------------------------------------
(* The stages *)

Idle(fc, w) == fc.ostate = "PREP_HEADER" /\ AllWhole(w, Len(w))

(* The header in fc is that of the payload the application hands over.     *)
Describes(fc, payload) ==
    /\ fc.opayloadlen = Len(payload)
    /\ fc.oheader.payload_length = Len(payload)
    /\ fc.oheader.mask => fc.omask

HeaderStage(fc, w, payload) ==
    /\ fc.ostate = "SEND_HEADER"
    /\ Describes(fc, payload)
    /\ fc.oheadermark < fc.oheaderlimit
    /\ fc.opayloadoff = 0
    /\ \/ /\ fc.oheadermark = 0
          /\ AllWhole(w, Len(w))
          /\ IsPayload(payload, Len(w) + 1)
       \/ /\ fc.oheadermark > 0
          /\ Len(w) > 0
          /\ AllWhole(w, Len(w) - 1)
          /\ IsPayload(payload, Len(w))
          /\ w[Len(w)].header = fc.oheader
          /\ w[Len(w)].hdrlen = fc.oheaderlimit
          /\ w[Len(w)].hdr = fc.oheadermark
          /\ w[Len(w)].body = << >>

PayloadStage(fc, w, payload, off) ==
    /\ fc.ostate = "SEND_PAYLOAD"
    /\ Describes(fc, payload)
    /\ fc.opayloadoff = off
    /\ off <= Len(payload)
    /\ Len(w) > 0
    /\ AllWhole(w, Len(w) - 1)
    /\ IsPayload(payload, Len(w))
    /\ w[Len(w)].header = fc.oheader
    /\ w[Len(w)].hdr = w[Len(w)].hdrlen
    /\ Len(w[Len(w)].body) = off
    /\ Filled(w[Len(w)], Len(w))

(* The application and the library agree on the frame under way.           *)
InStep ==
    \/ /\ Idle(frame_ctx, wire)
       /\ feed.active => feed.off = 0 /\ IsPayload(feed.payload, Len(wire) + 1)
    \/ feed.active /\ feed.off = 0 /\ HeaderStage(frame_ctx, wire, feed.payload)
    \/ feed.active /\ PayloadStage(frame_ctx, wire, feed.payload, feed.off)

(* The inductive invariant.                                                *)
Inv == TypeOK /\ Exact(wire) /\ (~broken => InStep)

-----------------------------------------------------------------------------
(* The operators of wslay_frame_send *)

(* Replacing the last frame leaves the others alone.                       *)
LEMMA ReplaceLast ==
    ASSUME NEW w \in Seq(WireFrame), Len(w) > 0, NEW f \in WireFrame
    PROVE  LET v == [ w EXCEPT ![Len(w)] = f ]
           IN  /\ v \in Seq(WireFrame)
               /\ Len(v) = Len(w)
               /\ v[Len(w)] = f
               /\ \A i \in 1..(Len(w) - 1) : v[i] = w[i]
<1>1. Len(w) \in 1..Len(w)
  BY LenProperties
<1> QED
  BY <1>1, ExceptSeq

(* The index of a mask-key byte, for the i-th byte of a piece at offset a. *)
LEMMA KeyRange ==
    ASSUME NEW a \in Nat, NEW i \in Nat, i >= 1
    PROVE  (a + i - 1) % 4 \in 0..3
<1>1. a + i - 1 \in Nat
  OBVIOUS
<1> QED
  BY <1>1

(* omask survives the stages of a call: it is set with a masked header and *)
(* never cleared (frame.c 53-56).                                          *)
LEMMA MaskKept ==
    ASSUME NEW fc \in FrameContext, NEW n \in Nat
    PROVE  HeaderSent(fc, n).omask = fc.omask /\ PayloadSent(fc, n).omask = fc.omask
<1> DEFINE hs == IF fc.oheadermark + n = fc.oheaderlimit THEN "SEND_PAYLOAD" ELSE "SEND_HEADER"
           ps == IF fc.opayloadoff + n = fc.opayloadlen THEN "PREP_HEADER" ELSE "SEND_PAYLOAD"
<1>1. /\ HeaderSent(fc, n) = [ fc EXCEPT !.oheadermark = fc.oheadermark + n, !.ostate = hs ]
      /\ PayloadSent(fc, n) = [ fc EXCEPT !.opayloadoff = fc.opayloadoff + n, !.ostate = ps ]
  BY DEF HeaderSent, PayloadSent
<1> HIDE DEF hs, ps
<1> QED
  BY <1>1 DEF FrameContext

(* n more bytes of payload: the masking loop's key index is that of the    *)
(* byte's place in the frame (frame.c 122-135).                            *)
LEMMA PayloadWritten ==
    ASSUME NEW fc \in FrameContext, NEW w \in Seq(WireFrame), Len(w) > 0,
           NEW data \in Seq(Byte), NEW n \in 0..Len(data),
           Len(w[Len(w)].body) = fc.opayloadoff,
           w[Len(w)].header = fc.oheader,
           fc.oheader.mask => fc.omask,
           Filled(w[Len(w)], Len(w)),
           \A i \in 1..Len(data) : data[i] = 16 * (Len(w) - 1) + fc.opayloadoff + i - 1
    PROVE  LET v == WritePayload(fc, w, data, n)
           IN  /\ v \in Seq(WireFrame)
               /\ Len(v) = Len(w)
               /\ \A i \in 1..(Len(w) - 1) : v[i] = w[i]
               /\ v[Len(w)].header = w[Len(w)].header
               /\ v[Len(w)].hdr = w[Len(w)].hdr
               /\ v[Len(w)].hdrlen = w[Len(w)].hdrlen
               /\ Len(v[Len(w)].body) = fc.opayloadoff + n
               /\ Filled(v[Len(w)], Len(w))
<1> DEFINE k == Len(w)
           last == w[k]
           off == fc.opayloadoff
           sent == [ i \in 1..n |-> [ byte |-> data[i], key |-> KeyIndex(fc, i) ] ]
           f == [ last EXCEPT !.body = @ \o sent ]
<1>1. k \in Nat /\ k \in 1..Len(w) /\ last \in WireFrame /\ n \in Nat /\ off \in Nat
  BY LenProperties, ElementOfSeq DEF FrameContext
<1>2. /\ \A i \in 1..n : i \in 1..Len(data) /\ i \in Nat /\ i >= 1 /\ data[i] \in Byte
      /\ \A i \in 1..n : data[i] = 16 * (k - 1) + off + i - 1
      /\ fc.omask => \A i \in 1..n : KeyIndex(fc, i) = (off + i - 1) % 4
      /\ ~fc.omask => \A i \in 1..n : KeyIndex(fc, i) = NoKey
  BY <1>1, ElementOfSeq, SMTT(30) DEF KeyIndex
<1>3. last.body \in Seq(WireByte) /\ Len(last.body) = off
  BY <1>1 DEF WireFrame
<1>4. Filled(last, k) /\ (last.header.mask => fc.omask)
  OBVIOUS
<1> HIDE DEF off
<1>5. \A i \in 1..n : [ byte |-> data[i], key |-> KeyIndex(fc, i) ] \in WireByte
  <2> SUFFICES ASSUME NEW i \in 1..n
               PROVE  [ byte |-> data[i], key |-> KeyIndex(fc, i) ] \in WireByte
    OBVIOUS
  <2>1. i \in Nat /\ i >= 1
    BY <1>2
  <2>2. (off + i - 1) % 4 \in 0..3
    BY <1>1, <2>1, KeyRange
  <2>3. KeyIndex(fc, i) \in {NoKey} \cup 0..3
    BY <1>2, <2>2
  <2> QED
    BY <1>2, <2>3 DEF WireByte
<1>6. sent \in Seq(WireByte) /\ Len(sent) = n
  BY <1>1, <1>5
<1>7. \A i \in 1..n : sent[i].byte = data[i] /\ sent[i].key = KeyIndex(fc, i)
  OBVIOUS
<1> HIDE DEF sent
<1>8. /\ f \in WireFrame
      /\ f.header = last.header /\ f.hdr = last.hdr /\ f.hdrlen = last.hdrlen
      /\ f.body = last.body \o sent
  BY <1>1, <1>3, <1>6, ConcatProperties DEF WireFrame
<1>9. WritePayload(fc, w, data, n) = [ w EXCEPT ![k] = f ]
  BY <1>1 DEF WritePayload, sent
<1> HIDE DEF f, last
<1>10. /\ Len(f.body) = off + n
       /\ \A p \in 1..off : f.body[p] = last.body[p]
       /\ \A i \in 1..n : f.body[off + i] = sent[i]
  <2> DEFINE old == last.body
  <2>1. old \in Seq(WireByte) /\ Len(old) = off /\ f.body = old \o sent
    BY <1>3, <1>8
  <2> HIDE DEF old
  <2>2. /\ Len(old \o sent) = off + n
        /\ \A p \in 1..off : (old \o sent)[p] = old[p]
        /\ \A i \in 1..n : (old \o sent)[off + i] = sent[i]
    <3>1. off \in Nat /\ n \in Nat /\ sent \in Seq(WireByte) /\ Len(sent) = n
      BY <1>1, <1>6
    <3>2. Len(old \o sent) = off + n
      <4>1. old \in Seq(WireByte) /\ Len(old) = off
        BY <2>1
      <4> QED
        BY ONLY <3>1, <4>1, ConcatProperties
    <3>3. \A p \in 1..off : (old \o sent)[p] = old[p]
      BY ONLY <3>1, <2>1
    <3>4. \A i \in 1..n : (old \o sent)[off + i] = sent[i]
      BY ONLY <3>1, <2>1, SMTT(30)
    <3> QED
      BY <3>2, <3>3, <3>4
  <2> QED
    BY <2>1, <2>2, Zenon DEF old
<1> HIDE DEF k
<1>11. Filled(f, k)
  <2> SUFFICES ASSUME NEW p \in 1..(off + n)
               PROVE  /\ f.body[p].byte = 16 * (k - 1) + p - 1
                      /\ f.header.mask => f.body[p].key = (p - 1) % 4
    BY <1>10 DEF Filled
  <2>1. CASE p <= off
    <3>1. p \in 1..Len(last.body) /\ f.body[p] = last.body[p]
      BY <1>1, <1>3, <1>10, <2>1
    <3> QED
      BY <1>4, <1>8, <3>1 DEF Filled
  <2>2. CASE ~(p <= off)
    <3> DEFINE i == p - off
    <3>1. i \in 1..n /\ off + i = p
      BY <1>1, <2>2
    <3> HIDE DEF i
    <3>2. f.body[p] = sent[i]
      BY <1>10, <3>1
    <3>3. /\ f.body[p].byte = data[i] /\ f.body[p].key = KeyIndex(fc, i)
          /\ data[i] = 16 * (k - 1) + off + i - 1
          /\ fc.omask => KeyIndex(fc, i) = (off + i - 1) % 4
      BY <1>2, <1>7, <3>1, <3>2
    <3>4. off + i - 1 = p - 1 /\ 16 * (k - 1) + off + i - 1 = 16 * (k - 1) + p - 1
      BY <1>1, <3>1
    <3> QED
      BY <1>4, <1>8, <3>3, <3>4
  <2> QED
    BY <2>1, <2>2
<1>12. /\ WritePayload(fc, w, data, n) \in Seq(WireFrame)
       /\ Len(WritePayload(fc, w, data, n)) = k
       /\ WritePayload(fc, w, data, n)[k] = f
       /\ \A i \in 1..(k - 1) : WritePayload(fc, w, data, n)[i] = w[i]
  BY <1>8, <1>9, ReplaceLast DEF k
<1> QED
  BY <1>8, <1>10, <1>11, <1>12 DEF k, last, off

(* n more bytes of the header: the first ones begin the next frame.        *)
LEMMA HeaderWritten ==
    ASSUME NEW fc \in FrameContext, NEW w \in Seq(WireFrame), NEW n \in Nat,
           fc.oheadermark > 0 => /\ Len(w) > 0
                                 /\ w[Len(w)].header = fc.oheader
                                 /\ w[Len(w)].hdrlen = fc.oheaderlimit
                                 /\ w[Len(w)].hdr = fc.oheadermark
                                 /\ w[Len(w)].body = << >>
    PROVE  LET v == WriteHeader(fc, w, n)
           IN  /\ v \in Seq(WireFrame)
               /\ Len(v) = IF fc.oheadermark = 0 THEN Len(w) + 1 ELSE Len(w)
               /\ \A i \in 1..(Len(v) - 1) : v[i] = w[i]
               /\ v[Len(v)].header = fc.oheader
               /\ v[Len(v)].hdrlen = fc.oheaderlimit
               /\ v[Len(v)].hdr = fc.oheadermark + n
               /\ v[Len(v)].body = << >>
<1>1. fc.oheader \in Header /\ fc.oheaderlimit \in Nat /\ fc.oheadermark \in Nat
  BY DEF FrameContext
<1>2. CASE fc.oheadermark = 0
  <2> DEFINE f == [ header |-> fc.oheader, hdrlen |-> fc.oheaderlimit,
                    hdr |-> n, body |-> << >> ]
  <2>1. f \in WireFrame
    BY <1>1, EmptySeq DEF WireFrame
  <2>2. /\ f.header = fc.oheader /\ f.hdrlen = fc.oheaderlimit
        /\ f.hdr = fc.oheadermark + n /\ f.body = << >>
    BY <1>2
  <2>3. WriteHeader(fc, w, n) = Append(w, f)
    BY <1>2 DEF WriteHeader
  <2> HIDE DEF f
  <2> QED
    BY <1>2, <2>1, <2>2, <2>3, AppendProperties, LenProperties
<1>3. CASE fc.oheadermark # 0
  <2> DEFINE last == w[Len(w)]
             f == [ last EXCEPT !.hdr = @ + n ]
  <2>1. Len(w) > 0 /\ Len(w) \in 1..Len(w) /\ last \in WireFrame /\ Len(w) \in Nat
    BY <1>1, <1>3, LenProperties, ElementOfSeq
  <2>2. /\ f \in WireFrame
        /\ f.header = fc.oheader /\ f.hdrlen = fc.oheaderlimit
        /\ f.hdr = fc.oheadermark + n /\ f.body = << >>
    <3>1. /\ last.header = fc.oheader /\ last.hdrlen = fc.oheaderlimit
          /\ last.hdr = fc.oheadermark /\ last.body = << >>
      BY <1>1, <1>3
    <3> HIDE DEF last
    <3> DEFINE m == last.hdr + n
    <3>2. m \in Nat /\ m = fc.oheadermark + n
      BY <1>1, <3>1
    <3>3. f = [ last EXCEPT !.hdr = m ]
      OBVIOUS
    <3> HIDE DEF m, f
    <3>4. f \in WireFrame
      BY <2>1, <3>2, <3>3 DEF WireFrame
    <3>5. /\ f.header = last.header /\ f.hdrlen = last.hdrlen
          /\ f.hdr = m /\ f.body = last.body
      BY <2>1, <3>3 DEF WireFrame
    <3> QED
      BY <3>1, <3>2, <3>4, <3>5
  <2>3. WriteHeader(fc, w, n) = [ w EXCEPT ![Len(w)] = f ]
    BY <1>3, <2>1 DEF WriteHeader
  <2> HIDE DEF f
  <2>4. /\ WriteHeader(fc, w, n) \in Seq(WireFrame)
        /\ Len(WriteHeader(fc, w, n)) = Len(w)
        /\ WriteHeader(fc, w, n)[Len(w)] = f
        /\ \A i \in 1..(Len(w) - 1) : WriteHeader(fc, w, n)[i] = w[i]
    BY <2>1, <2>2, <2>3, ReplaceLast
  <2> QED
    BY <1>3, <2>2, <2>4
<1> QED
  BY <1>2, <1>3

-----------------------------------------------------------------------------
(* From stage to stage *)

(* Where a call leaves the frame, from off bytes of payload handed over.   *)
After(o, payload, off) ==
    /\ o.fc \in FrameContext
    /\ o.wire \in Seq(WireFrame)
    /\ o.length \in Nat
    /\ Exact(o.wire)
    /\ \/ o.result = WSLAY_ERR_INVALID_CALLBACK
       \/ o.result = WSLAY_ERR_INVALID_ARGUMENT /\ Idle(o.fc, o.wire)
       \/ o.result = 0 /\ off + o.length = Len(payload) /\ Idle(o.fc, o.wire)
       \/ /\ o.result = 0 /\ off + o.length # Len(payload)
          /\ PayloadStage(o.fc, o.wire, payload, off + o.length)
       \/ /\ o.result = WSLAY_ERR_WANT_WRITE /\ o.length = 0
          /\ \/ PayloadStage(o.fc, o.wire, payload, off)
             \/ off = 0 /\ HeaderStage(o.fc, o.wire, payload)

(* Complete frames, and a last one that is exact as far as it goes.        *)
LEMMA ExactFromLast ==
    ASSUME NEW w \in Seq(WireFrame), AllWhole(w, Len(w) - 1),
           Len(w) > 0 => Part(w[Len(w)], Len(w))
    PROVE  Exact(w)
<1> SUFFICES ASSUME NEW i \in 1..Len(w)
             PROVE  Part(w[i], i) /\ (i < Len(w) => Whole(w[i], i))
  BY DEF Exact
<1>1. Len(w) \in Nat /\ w[i] \in WireFrame
  BY LenProperties, ElementOfSeq
<1>2. CASE i = Len(w)
  BY <1>1, <1>2
<1>3. CASE i < Len(w)
  <2>1. Whole(w[i], i)
    BY <1>1, <1>3 DEF AllWhole
  <2>2. w[i].hdrlen \in Nat /\ w[i].header.payload_length \in Nat
    BY <1>1 DEF WireFrame, Header
  <2> QED
    BY <2>1, <2>2 DEF Whole, Part
<1> QED
  BY <1>1, <1>2, <1>3

(* A frame that is complete makes the wire complete.                       *)
LEMMA WholeWire ==
    ASSUME NEW w \in Seq(WireFrame), AllWhole(w, Len(w) - 1),
           Len(w) > 0, Whole(w[Len(w)], Len(w))
    PROVE  AllWhole(w, Len(w))
  BY LenProperties DEF AllWhole

(* An idle wire is exact.                                                  *)
LEMMA IdleExact ==
    ASSUME NEW w \in Seq(WireFrame), AllWhole(w, Len(w))
    PROVE  Exact(w)
<1> SUFFICES ASSUME NEW i \in 1..Len(w) PROVE Part(w[i], i)
  BY DEF Exact, AllWhole
<1>1. w[i] \in WireFrame /\ Whole(w[i], i)
  BY ElementOfSeq DEF AllWhole
<1>2. w[i].hdrlen \in Nat /\ w[i].header.payload_length \in Nat
  BY <1>1 DEF WireFrame, Header
<1> QED
  BY <1>1, <1>2 DEF Whole, Part

(* The wire in the payload stage is exact.                                 *)
LEMMA PayloadStageExact ==
    ASSUME NEW fc \in FrameContext, NEW w \in Seq(WireFrame), NEW payload \in Seq(Byte),
           NEW off \in Nat, PayloadStage(fc, w, payload, off)
    PROVE  Exact(w)
<1>1. w[Len(w)] \in WireFrame
  BY LenProperties, ElementOfSeq DEF PayloadStage
<1>2. w[Len(w)].hdrlen \in Nat
  BY <1>1 DEF WireFrame
<1>3. Part(w[Len(w)], Len(w))
  BY <1>2 DEF PayloadStage, Describes, Part
<1> QED
  BY <1>3, ExactFromLast DEF PayloadStage

(* The wire in the header stage is exact.                                  *)
LEMMA HeaderStageExact ==
    ASSUME NEW fc \in FrameContext, NEW w \in Seq(WireFrame), NEW payload \in Seq(Byte),
           HeaderStage(fc, w, payload)
    PROVE  Exact(w)
<1>1. CASE fc.oheadermark = 0
  BY <1>1, IdleExact DEF HeaderStage
<1>2. CASE fc.oheadermark # 0
  <2>1. /\ Len(w) > 0 /\ w[Len(w)].body = << >> /\ w[Len(w)].header = fc.oheader
        /\ w[Len(w)].hdr = fc.oheadermark /\ w[Len(w)].hdrlen = fc.oheaderlimit
        /\ AllWhole(w, Len(w) - 1)
    BY <1>2 DEF HeaderStage
  <2>2. fc.oheader.payload_length \in Nat /\ fc.oheadermark \in Nat /\ fc.oheaderlimit \in Nat
    BY DEF FrameContext, Header
  <2>3. Part(w[Len(w)], Len(w))
    BY <2>1, <2>2, EmptySeq DEF Part, Filled, HeaderStage
  <2> QED
    BY <2>1, <2>3, ExactFromLast
<1> QED
  BY <1>1, <1>2

(* The payload stage (frame.c 112-165): the call goes on where the frame   *)
(* is, with the bytes the application has next.                            *)
LEMMA PayloadStep ==
    ASSUME NEW fc \in FrameContext, NEW w \in Seq(WireFrame), NEW payload \in Seq(Byte),
           NEW off \in Nat, PayloadStage(fc, w, payload, off),
           NEW data \in Seq(Byte), off + Len(data) <= Len(payload),
           \A i \in 1..Len(data) : data[i] = payload[off + i],
           NEW o \in SendPayload(fc, w, data)
    PROVE  After(o, payload, off)
<1>1. /\ Len(w) \in Nat /\ Len(w) > 0 /\ Len(payload) \in Nat /\ Len(data) \in Nat
      /\ w[Len(w)] \in WireFrame
  BY LenProperties, ElementOfSeq DEF PayloadStage
<1>2. /\ fc.opayloadoff = off /\ fc.opayloadlen = Len(payload)
      /\ fc.ostate = "SEND_PAYLOAD"
  BY DEF PayloadStage, Describes
<1>3. \A i \in 1..Len(data) : data[i] = 16 * (Len(w) - 1) + fc.opayloadoff + i - 1
  BY <1>1, <1>2 DEF PayloadStage, IsPayload
<1>4. ASSUME NEW n \in 0..Len(data)
      PROVE  LET v == WritePayload(fc, w, data, n)
             IN  /\ v \in Seq(WireFrame)
                 /\ Len(v) = Len(w)
                 /\ \A i \in 1..(Len(w) - 1) : v[i] = w[i]
                 /\ v[Len(w)].header = w[Len(w)].header
                 /\ v[Len(w)].hdr = w[Len(w)].hdr
                 /\ v[Len(w)].hdrlen = w[Len(w)].hdrlen
                 /\ Len(v[Len(w)].body) = fc.opayloadoff + n
                 /\ Filled(v[Len(w)], Len(w))
  <2>1. /\ Len(w[Len(w)].body) = fc.opayloadoff
        /\ w[Len(w)].header = fc.oheader
        /\ fc.oheader.mask => fc.omask
        /\ Filled(w[Len(w)], Len(w))
    BY <1>2 DEF PayloadStage, Describes
  <2> QED
    BY <1>1, <1>3, <1>4, <2>1, PayloadWritten
(* A context g and a wire v that went n bytes further.                     *)
<1>5. ASSUME NEW n \in 0..Len(data), NEW g \in FrameContext, NEW v \in Seq(WireFrame),
             (v = w /\ n = 0) \/ v = WritePayload(fc, w, data, n),
             g.oheader = fc.oheader, g.opayloadlen = fc.opayloadlen, g.omask = fc.omask,
             g.opayloadoff = off + n
      PROVE  /\ g.ostate = "SEND_PAYLOAD" => PayloadStage(g, v, payload, off + n)
             /\ g.ostate = "PREP_HEADER" /\ off + n = Len(payload) => Idle(g, v)
             /\ Exact(v)
  <2>1. /\ Len(v) = Len(w)
        /\ \A i \in 1..(Len(w) - 1) : v[i] = w[i]
        /\ v[Len(w)].header = fc.oheader
        /\ v[Len(w)].hdr = v[Len(w)].hdrlen
        /\ Len(v[Len(w)].body) = off + n
        /\ Filled(v[Len(w)], Len(w))
    <3>1. CASE v = w /\ n = 0
      BY <1>1, <3>1 DEF PayloadStage
    <3>2. CASE v = WritePayload(fc, w, data, n)
      BY <1>2, <1>4, <3>2 DEF PayloadStage
    <3> QED
      BY <1>5, <3>1, <3>2
  <2>2. AllWhole(v, Len(v) - 1)
    BY <2>1 DEF PayloadStage, AllWhole
  <2>3. Describes(g, payload) /\ off + n <= Len(payload) /\ IsPayload(payload, Len(v))
    BY <1>1, <1>5, <2>1 DEF PayloadStage, Describes
  <2>4. g.ostate = "SEND_PAYLOAD" => PayloadStage(g, v, payload, off + n)
    BY <1>1, <1>5, <2>1, <2>2, <2>3 DEF PayloadStage
  <2>5. off + n = Len(payload) => AllWhole(v, Len(v))
    <3>1. v[Len(v)].header.payload_length = Len(payload)
      BY <1>5, <2>1, <2>3 DEF Describes
    <3>2. off + n = Len(payload) => Whole(v[Len(v)], Len(v))
      BY <2>1, <3>1 DEF Whole
    <3> QED
      BY <1>1, <2>1, <2>2, <3>2, WholeWire
  <2>6. Part(v[Len(v)], Len(v))
    <3>1. v[Len(v)].header.payload_length = Len(payload)
      BY <1>5, <2>1, <2>3 DEF Describes
    <3>2. v[Len(v)] \in WireFrame
      BY <1>1, <2>1, ElementOfSeq
    <3>3. v[Len(v)].hdrlen \in Nat
      BY <3>2 DEF WireFrame
    <3> QED
      BY <2>1, <2>3, <3>1, <3>3, SMTT(40) DEF Part
  <2>7. Exact(v)
    BY <2>2, <2>6, ExactFromLast
  <2> QED
    BY <2>4, <2>5, <2>7 DEF Idle
<1>6. ASSUME NEW n \in 0..Len(data), NEW v \in Seq(WireFrame),
             (v = w /\ n = 0) \/ v = WritePayload(fc, w, data, n),
             o.fc = PayloadSent(fc, n), o.wire = v, o.result = 0, o.length = n
      PROVE  After(o, payload, off)
  <2> DEFINE g == PayloadSent(fc, n)
  <2>1. /\ g \in FrameContext /\ g.oheader = fc.oheader
        /\ g.opayloadlen = fc.opayloadlen /\ g.omask = fc.omask
        /\ g.opayloadoff = off + n
        /\ g.ostate = IF off + n = Len(payload) THEN "PREP_HEADER" ELSE "SEND_PAYLOAD"
    <3>1. n \in Nat
      BY <1>1
    <3> HIDE DEF g
    <3>2. /\ g \in FrameContext /\ g.oheader = fc.oheader
          /\ g.opayloadlen = fc.opayloadlen /\ g.omask = fc.omask
          /\ g.opayloadoff = fc.opayloadoff + n
          /\ g.ostate = IF fc.opayloadoff + n = fc.opayloadlen
                        THEN "PREP_HEADER" ELSE "SEND_PAYLOAD"
      BY ONLY <3>1, fc \in FrameContext, PayloadSentLemma, MaskKept DEF g
    <3> QED
      BY <1>2, <3>2
  <2> HIDE DEF g
  <2>2. /\ g.ostate = "SEND_PAYLOAD" => PayloadStage(g, v, payload, off + n)
        /\ g.ostate = "PREP_HEADER" /\ off + n = Len(payload) => Idle(g, v)
        /\ Exact(v)
    BY <1>5, <1>6, <2>1
  <2>3. o.fc = g
    BY <1>6 DEF g
  <2> QED
    BY <1>6, <2>1, <2>2, <2>3 DEF After
<1>7. CASE data = << >>
  <2>1. o = Outcome(PayloadSent(fc, 0), w, 0, 0, FALSE)
    BY <1>7 DEF SendPayload
  <2>2. o.fc = PayloadSent(fc, 0) /\ o.wire = w /\ o.result = 0 /\ o.length = 0
    BY <2>1 DEF Outcome
  <2> QED
    BY <1>1, <1>6, <2>2
<1>8. CASE o = Blocked(fc, w)
  <2>1. o.fc = fc /\ o.wire = w /\ o.result = WSLAY_ERR_WANT_WRITE /\ o.length = 0
    BY <1>8 DEF Blocked, Outcome
  <2> QED
    BY <2>1, PayloadStageExact DEF After
<1>9. ASSUME NEW n \in 1..Len(data),
             o = Outcome(PayloadSent(fc, n), WritePayload(fc, w, data, n), 0, n,
                         fc.omask /\ n < Len(data))
      PROVE  After(o, payload, off)
  <2>1. /\ o.fc = PayloadSent(fc, n) /\ o.wire = WritePayload(fc, w, data, n)
        /\ o.result = 0 /\ o.length = n
    BY <1>9 DEF Outcome
  <2>2. n \in 0..Len(data)
    BY <1>1
  <2> QED
    BY <1>4, <1>6, <2>1, <2>2
<1>10. ASSUME NEW n \in 0..(Len(data) - 1),
              o = Overrun([fc EXCEPT !.opayloadoff = @ + n], WritePayload(fc, w, data, n))
       PROVE  After(o, payload, off)
  <2> DEFINE g == [fc EXCEPT !.opayloadoff = @ + n]
  <2>1. /\ o.fc = g /\ o.wire = WritePayload(fc, w, data, n)
        /\ o.result = WSLAY_ERR_INVALID_CALLBACK /\ o.length = 0
    BY <1>10 DEF Overrun, Outcome
  <2>2. /\ g \in FrameContext /\ g.oheader = fc.oheader
        /\ g.opayloadlen = fc.opayloadlen /\ g.omask = fc.omask
        /\ g.opayloadoff = off + n
    <3>1. g \in FrameContext /\ n \in Nat
      BY <1>1, OffsetLemma
    <3> QED
      BY <1>2, <3>1 DEF FrameContext
  <2>3. n \in 0..Len(data)
    BY <1>1
  <2> HIDE DEF g
  <2>4. Exact(o.wire) /\ o.wire \in Seq(WireFrame)
    BY <1>4, <1>5, <2>1, <2>2, <2>3
  <2> QED
    BY <2>1, <2>2, <2>4 DEF After
<1>11. data # << >> =>
         \/ o = Blocked(fc, w)
         \/ \E n \in 1..Len(data) :
              o = Outcome(PayloadSent(fc, n), WritePayload(fc, w, data, n), 0, n,
                          fc.omask /\ n < Len(data))
         \/ \E n \in 0..(Len(data) - 1) :
              o = Overrun([fc EXCEPT !.opayloadoff = @ + n],
                          WritePayload(fc, w, data, n))
  <2> SUFFICES ASSUME data # << >>, o # Blocked(fc, w),
                      ~ \E n \in 1..Len(data) :
                          o = Outcome(PayloadSent(fc, n), WritePayload(fc, w, data, n), 0, n,
                                      fc.omask /\ n < Len(data))
               PROVE  \E n \in 0..(Len(data) - 1) :
                        o = Overrun([fc EXCEPT !.opayloadoff = @ + n],
                                    WritePayload(fc, w, data, n))
    OBVIOUS
  <2>1. PICK n \in 0..(IF fc.omask THEN Len(data) - 1 ELSE 0) :
          o = Overrun([fc EXCEPT !.opayloadoff = @ + n], WritePayload(fc, w, data, n))
    BY Zenon DEF SendPayload
  <2>2. Len(data) > 0
    BY EmptySeq
  <2>3. n \in 0..(Len(data) - 1)
    BY <1>1, <2>2
  <2> QED
    BY <2>1, <2>3
<1> QED
  BY <1>7, <1>8, <1>9, <1>10, <1>11

(* The header stage (frame.c 89-111): a header sent in full is followed by *)
(* the payload stage in the same call.                                     *)
LEMMA HeaderStep ==
    ASSUME NEW fc \in FrameContext, NEW w \in Seq(WireFrame), NEW payload \in Seq(Byte),
           HeaderStage(fc, w, payload),
           NEW data \in Seq(Byte), Len(data) <= Len(payload),
           \A i \in 1..Len(data) : data[i] = payload[i],
           NEW o \in SendHeader(fc, w, data)
    PROVE  After(o, payload, 0)
<1> DEFINE left == fc.oheaderlimit - fc.oheadermark
<1>1. /\ fc.oheadermark \in Nat /\ fc.oheaderlimit \in Nat
      /\ left \in Nat /\ left > 0 /\ fc.oheadermark + left = fc.oheaderlimit
      /\ Len(payload) \in Nat /\ Len(w) \in Nat
  BY LenProperties DEF FrameContext, HeaderStage
(* n bytes of the header, from the mark on.                                *)
<1>2. ASSUME NEW n \in 1..left
      PROVE  LET v == WriteHeader(fc, w, n)
                 g == HeaderSent(fc, n)
             IN  /\ v \in Seq(WireFrame) /\ g \in FrameContext
                 /\ Len(v) > 0 /\ AllWhole(v, Len(v) - 1) /\ IsPayload(payload, Len(v))
                 /\ v[Len(v)].header = g.oheader /\ v[Len(v)].hdrlen = g.oheaderlimit
                 /\ v[Len(v)].hdr = g.oheadermark /\ v[Len(v)].body = << >>
                 /\ Describes(g, payload) /\ g.opayloadoff = 0
                 /\ g.oheadermark = fc.oheadermark + n
                 /\ g.oheaderlimit = fc.oheaderlimit
                 /\ g.ostate = IF n = left THEN "SEND_PAYLOAD" ELSE "SEND_HEADER"
  <2> DEFINE v == WriteHeader(fc, w, n)
             g == HeaderSent(fc, n)
  <2>1. n \in Nat
    BY <1>1
  <2>2. /\ v \in Seq(WireFrame)
        /\ Len(v) = IF fc.oheadermark = 0 THEN Len(w) + 1 ELSE Len(w)
        /\ \A i \in 1..(Len(v) - 1) : v[i] = w[i]
        /\ v[Len(v)].header = fc.oheader
        /\ v[Len(v)].hdrlen = fc.oheaderlimit
        /\ v[Len(v)].hdr = fc.oheadermark + n
        /\ v[Len(v)].body = << >>
    <3>1. fc.oheadermark > 0 => /\ Len(w) > 0
                                /\ w[Len(w)].header = fc.oheader
                                /\ w[Len(w)].hdrlen = fc.oheaderlimit
                                /\ w[Len(w)].hdr = fc.oheadermark
                                /\ w[Len(w)].body = << >>
      BY <1>1 DEF HeaderStage
    <3> QED
      BY <2>1, <3>1, HeaderWritten
  <2>3. /\ g \in FrameContext
        /\ g.oheader = fc.oheader /\ g.opayloadlen = fc.opayloadlen
        /\ g.opayloadoff = fc.opayloadoff /\ g.omask = fc.omask
        /\ g.oheadermark = fc.oheadermark + n
        /\ g.oheaderlimit = fc.oheaderlimit
        /\ g.ostate = IF fc.oheadermark + n = fc.oheaderlimit
                      THEN "SEND_PAYLOAD" ELSE "SEND_HEADER"
    BY ONLY <2>1, fc \in FrameContext, HeaderSentLemma, MaskKept
  <2> HIDE DEF v, g
  <2>4. fc.oheadermark + n = fc.oheaderlimit <=> n = left
    BY <1>1, <2>1
  <2>5. Describes(g, payload) /\ g.opayloadoff = 0
    BY <2>3 DEF HeaderStage, Describes
  <2>6. AllWhole(v, Len(v) - 1) /\ IsPayload(payload, Len(v)) /\ Len(v) > 0
    <3>1. CASE fc.oheadermark = 0
      BY <1>1, <2>2, <3>1 DEF HeaderStage, AllWhole
    <3>2. CASE fc.oheadermark # 0
      BY <1>1, <2>2, <3>2 DEF HeaderStage, AllWhole
    <3> QED
      BY <3>1, <3>2
  <2> QED
    BY <2>2, <2>3, <2>4, <2>5, <2>6 DEF v, g
<1>3. ASSUME o.fc = fc, o.wire = w, o.length = 0,
             o.result \in {WSLAY_ERR_WANT_WRITE, WSLAY_ERR_INVALID_CALLBACK}
      PROVE  After(o, payload, 0)
  BY <1>3, HeaderStageExact DEF After
<1>4. CASE o \in { Blocked(fc, w), Overrun(fc, w) }
  <2>1. /\ o.fc = fc /\ o.wire = w /\ o.length = 0
        /\ o.result \in {WSLAY_ERR_WANT_WRITE, WSLAY_ERR_INVALID_CALLBACK}
    BY <1>4 DEF Blocked, Overrun, Outcome
  <2> QED
    BY <1>3, <2>1
<1>5. ASSUME NEW n \in 1..(left - 1),
             o = Outcome(HeaderSent(fc, n), WriteHeader(fc, w, n),
                         WSLAY_ERR_WANT_WRITE, 0, FALSE)
      PROVE  After(o, payload, 0)
  <2>1. /\ o.fc = HeaderSent(fc, n) /\ o.wire = WriteHeader(fc, w, n)
        /\ o.result = WSLAY_ERR_WANT_WRITE /\ o.length = 0
    BY <1>5 DEF Outcome
  <2>2. n \in 1..left /\ n # left /\ n \in Nat /\ n > 0
    BY <1>1
  <2>3. /\ o.wire \in Seq(WireFrame) /\ o.fc \in FrameContext
        /\ HeaderStage(o.fc, o.wire, payload)
    <3> HIDE DEF left
    <3>1. fc.oheadermark + n > 0 /\ fc.oheadermark + n < fc.oheaderlimit
      BY <1>1, <1>5, <2>2, SMTT(30) DEF left
    <3> QED
      BY <1>2, <2>1, <2>2, <3>1 DEF HeaderStage
  <2>4. Exact(o.wire)
    BY <2>3, HeaderStageExact
  <2> QED
    BY <2>1, <2>3, <2>4 DEF After
<1>6. CASE o \in SendPayload(HeaderSent(fc, left), WriteHeader(fc, w, left), data)
  <2> DEFINE v == WriteHeader(fc, w, left)
             g == HeaderSent(fc, left)
  <2>1. left \in 1..left
    BY <1>1
  <2>2. /\ v \in Seq(WireFrame) /\ g \in FrameContext
        /\ Len(v) > 0 /\ AllWhole(v, Len(v) - 1) /\ IsPayload(payload, Len(v))
        /\ v[Len(v)].header = g.oheader /\ v[Len(v)].hdrlen = g.oheaderlimit
        /\ v[Len(v)].hdr = g.oheadermark /\ v[Len(v)].body = << >>
        /\ Describes(g, payload) /\ g.opayloadoff = 0
        /\ g.oheadermark = g.oheaderlimit
        /\ g.ostate = "SEND_PAYLOAD"
    BY <1>1, <1>2, <2>1
  <2> HIDE DEF v, g
  <2>3. PayloadStage(g, v, payload, 0)
    BY <1>1, <2>2, EmptySeq DEF PayloadStage, Filled
  <2>4. 0 + Len(data) <= Len(payload) /\ \A i \in 1..Len(data) : data[i] = payload[0 + i]
    BY LenProperties
  <2>5. o \in SendPayload(g, v, data)
    BY <1>6 DEF g, v
  <2> QED
    BY <2>2, <2>3, <2>4, <2>5, PayloadStep, SMTT(30)
<1> QED
  BY <1>4, <1>5, <1>6, Zenon DEF SendHeader

-----------------------------------------------------------------------------
(* The steps of the application *)

(* The payload the application makes up for its k-th frame.                *)
LEMMA PayloadElements ==
    ASSUME NEW k \in 1..15, NEW len \in 0..15
    PROVE  /\ Payload(k, len) \in Seq(Byte)
           /\ Len(Payload(k, len)) = len
           /\ IsPayload(Payload(k, len), k)
<1>1. \A i \in 1..len : 16 * (k - 1) + i - 1 \in Byte
  BY DEF Byte
<1>2. Payload(k, len) \in Seq(Byte) /\ Len(Payload(k, len)) = len
  BY <1>1 DEF Payload
<1>3. \A p \in 1..len : Payload(k, len)[p] = 16 * (k - 1) + p - 1
  BY DEF Payload
<1> QED
  BY <1>2, <1>3 DEF IsPayload

(* The piece of a payload the application passes to a call.                *)
LEMMA PieceElements ==
    ASSUME NEW payload \in Seq(Byte), NEW off \in Nat, NEW n \in Nat,
           off + n <= Len(payload)
    PROVE  LET data == SubSeq(payload, off + 1, off + n)
           IN  /\ data \in Seq(Byte)
               /\ Len(data) = n
               /\ \A i \in 1..n : data[i] = payload[off + i]
<1> DEFINE data == SubSeq(payload, off + 1, off + n)
<1>1. Len(payload) \in Nat
  BY LenProperties
<1>2. data \in Seq(Byte)
  BY <1>1
<1>3. Len(data) = n
  BY <1>1
<1>4. \A i \in 1..n : data[i] = payload[off + i]
  BY <1>1
<1> QED
  BY <1>2, <1>3, <1>4

(* A new context and an empty wire are in step with no frame.              *)
LEMMA InitInv == Init => Inv
<1> SUFFICES ASSUME Init PROVE Inv
  OBVIOUS
<1>1. frame_ctx \in FrameContext /\ frame_ctx.ostate = "PREP_HEADER"
  BY DEF Init, FrameInit, frame_context_new, FrameContext, OState, Header, Opcodes,
         WSLAY_CONTINUATION_FRAME
<1>2. wire = << >> /\ wire \in Seq(WireFrame) /\ Len(wire) = 0
  BY EmptySeq DEF Init, FrameInit
<1>3. feed \in Feed /\ feed.active = FALSE /\ broken = FALSE
  BY EmptySeq DEF Init, NoFeed, Feed, Opcodes, WSLAY_CONTINUATION_FRAME
<1>4. Exact(wire) /\ AllWhole(wire, Len(wire))
  BY <1>2 DEF Exact, AllWhole
<1>5. TypeOK
  BY <1>1, <1>2, <1>3 DEF TypeOK, FrameTypeOK
<1>6. InStep
  BY <1>1, <1>3, <1>4 DEF InStep, Idle
<1> QED
  BY <1>4, <1>5, <1>6 DEF Inv

(* The next frame is begun when the library is idle.                       *)
LEMMA BeginInv ==
    ASSUME Inv, BeginFrame
    PROVE  Inv'
<1>1. PICK fin \in BOOLEAN, mask \in BOOLEAN, opcode \in AppOpcodes, len \in 0..MaxPayload :
        feed' = [ active |-> TRUE, fin |-> fin, opcode |-> opcode,
                  mask |-> mask, payload |-> Payload(Len(wire) + 1, len), off |-> 0 ]
  BY DEF BeginFrame
<1>2. Len(wire) + 1 \in 1..15 /\ len \in 0..15
  BY LenProperties, FrameApiAssumption, SMTT(40) DEF BeginFrame, Inv, TypeOK, FrameTypeOK
<1> DEFINE payload == Payload(Len(wire) + 1, len)
<1>3. payload \in Seq(Byte) /\ IsPayload(payload, Len(wire) + 1)
  BY <1>2, PayloadElements
<1>4. feed' = [ active |-> TRUE, fin |-> fin, opcode |-> opcode,
                mask |-> mask, payload |-> payload, off |-> 0 ]
  BY <1>1
<1> HIDE DEF payload
<1>5. /\ feed' \in Feed
      /\ feed'.active /\ feed'.payload = payload /\ feed'.off = 0
  BY <1>3, <1>4, FrameApiAssumption DEF Feed
<1>6. frame_ctx' = frame_ctx /\ wire' = wire /\ broken' = broken /\ ~broken /\ ~feed.active
  BY DEF BeginFrame, frameVars
<1>7. Idle(frame_ctx, wire)
  BY <1>6 DEF Inv, InStep
<1> QED
  BY <1>3, <1>5, <1>6, <1>7 DEF Inv, TypeOK, FrameTypeOK, InStep

(* A call of wslay_frame_send from any stage.                              *)
LEMMA CallStep ==
    ASSUME NEW fc \in FrameContext, NEW w \in Seq(WireFrame), NEW payload \in Seq(Byte),
           NEW off \in Nat,
           NEW iocb \in IocbType, iocb.payload_length = Len(payload),
           off + Len(iocb.data) <= Len(payload),
           \A i \in 1..Len(iocb.data) : iocb.data[i] = payload[off + i],
           \/ Idle(fc, w) /\ off = 0 /\ IsPayload(payload, Len(w) + 1)
           \/ HeaderStage(fc, w, payload) /\ off = 0
           \/ PayloadStage(fc, w, payload, off),
           NEW o \in wslay_frame_send(fc, w, iocb)
    PROVE  After(o, payload, off)
<1>1. /\ iocb.data \in Seq(Byte) /\ Len(iocb.data) \in Nat /\ Len(payload) \in Nat
      /\ Len(w) \in Nat
  BY LenProperties DEF IocbType
<1>2. CASE Idle(fc, w) /\ off = 0 /\ IsPayload(payload, Len(w) + 1)
  <2>1. fc.ostate = "PREP_HEADER" /\ AllWhole(w, Len(w)) /\ Exact(w)
    BY <1>2, IdleExact DEF Idle
  <2>2. ASSUME o.fc = fc, o.wire = w, o.length = 0,
               o.result \in {WSLAY_ERR_INVALID_ARGUMENT, WSLAY_ERR_INVALID_CALLBACK}
        PROVE  After(o, payload, off)
    BY <1>2, <2>1, <2>2 DEF After
  <2>3. CASE o = Outcome(fc, w, WSLAY_ERR_INVALID_ARGUMENT, 0, FALSE)
    BY <2>2, <2>3 DEF Outcome
  <2>4. CASE o = Outcome(fc, w, WSLAY_ERR_INVALID_CALLBACK, 0, FALSE)
    BY <2>2, <2>4 DEF Outcome
  <2>5. CASE o \in SendHeader(PrepareHeader(fc, iocb), w, iocb.data)
    <3> DEFINE g == PrepareHeader(fc, iocb)
               hd == [ fin |-> iocb.fin, opcode |-> iocb.opcode, mask |-> iocb.mask,
                       payload_length |-> iocb.payload_length ]
    <3>1. /\ g \in FrameContext /\ g.ostate = "SEND_HEADER" /\ g.oheader = hd
          /\ g.oheadermark = 0 /\ g.oheaderlimit > 0
          /\ g.opayloadlen = iocb.payload_length /\ g.opayloadoff = 0
      BY PrepareHeaderLemma
    <3>2. g.omask = (iocb.mask \/ fc.omask)
      BY DEF PrepareHeader
    <3>3. hd.payload_length = Len(payload) /\ hd.mask = iocb.mask
      OBVIOUS
    <3> HIDE DEF g, hd
    <3>4. Describes(g, payload)
      BY <3>1, <3>2, <3>3 DEF Describes, IocbType
    <3>5. HeaderStage(g, w, payload)
      BY <1>2, <2>1, <3>1, <3>4 DEF HeaderStage
    <3>6. Len(iocb.data) <= Len(payload) /\ \A i \in 1..Len(iocb.data) : iocb.data[i] = payload[i]
      BY <1>1, <1>2
    <3> QED
      BY <1>1, <1>2, <2>5, <3>1, <3>5, <3>6, HeaderStep DEF g
  <2> QED
    BY <2>1, <2>3, <2>4, <2>5 DEF wslay_frame_send
<1>3. CASE HeaderStage(fc, w, payload) /\ off = 0
  <2>1. fc.ostate = "SEND_HEADER" /\ ~IsRefused(fc, iocb)
    BY <1>1, <1>3 DEF HeaderStage, IsRefused
  <2>2. o \in SendHeader(fc, w, iocb.data)
    BY <2>1 DEF wslay_frame_send
  <2>3. Len(iocb.data) <= Len(payload) /\ \A i \in 1..Len(iocb.data) : iocb.data[i] = payload[i]
    BY <1>1, <1>3
  <2> QED
    BY <1>1, <1>3, <2>2, <2>3, HeaderStep
<1>4. CASE PayloadStage(fc, w, payload, off)
  <2>1. fc.ostate = "SEND_PAYLOAD" /\ ~IsRefused(fc, iocb)
    BY <1>1, <1>4 DEF PayloadStage, IsRefused
  <2>2. o \in SendPayload(fc, w, iocb.data)
    BY <2>1 DEF wslay_frame_send
  <2> QED
    BY <1>1, <1>4, <2>2, PayloadStep
<1> QED
  BY <1>2, <1>3, <1>4

(* A call leaves the application and the library in step.                  *)
LEMMA SendInv ==
    ASSUME Inv, SendFrame
    PROVE  Inv'
<1>1. /\ frame_ctx \in FrameContext /\ wire \in Seq(WireFrame) /\ feed \in Feed
      /\ ~broken /\ feed.active
  BY DEF Inv, TypeOK, FrameTypeOK, SendFrame
<1> DEFINE payload == feed.payload
           off == feed.off
<1>2. payload \in Seq(Byte) /\ Len(payload) \in Nat /\ off \in Nat
  BY <1>1, LenProperties DEF Feed
<1>3. PICK n \in 0..(Len(payload) - off) :
        LET data == SubSeq(payload, off + 1, off + n)
            iocb == Iocb(feed.fin, feed.opcode, feed.mask, Len(payload), data)
        IN  \E o \in wslay_frame_send(frame_ctx, wire, iocb) :
              /\ frame_ctx' = o.fc
              /\ wire' = o.wire
              /\ broken' = (o.result = WSLAY_ERR_INVALID_CALLBACK)
              /\ feed' = IF \/ o.result = WSLAY_ERR_INVALID_ARGUMENT
                            \/ /\ o.result = 0
                               /\ off + o.length = Len(payload)
                         THEN NoFeed
                         ELSE [ feed EXCEPT !.off = @ + o.length ]
  BY Zenon DEF SendFrame
<1> DEFINE data == SubSeq(payload, off + 1, off + n)
           iocb == Iocb(feed.fin, feed.opcode, feed.mask, Len(payload), data)
<1>4. PICK o \in wslay_frame_send(frame_ctx, wire, iocb) :
        /\ frame_ctx' = o.fc
        /\ wire' = o.wire
        /\ broken' = (o.result = WSLAY_ERR_INVALID_CALLBACK)
        /\ feed' = IF \/ o.result = WSLAY_ERR_INVALID_ARGUMENT
                      \/ /\ o.result = 0
                         /\ off + o.length = Len(payload)
                   THEN NoFeed
                   ELSE [ feed EXCEPT !.off = @ + o.length ]
  BY <1>3, Zenon
<1>5. /\ data \in Seq(Byte) /\ Len(data) = n
      /\ \A i \in 1..Len(data) : data[i] = payload[off + i]
      /\ off + Len(data) <= Len(payload)
  <2> HIDE DEF payload, off
  <2>1. n \in Nat /\ off + n <= Len(payload)
    BY <1>2
  <2> QED
    BY <1>2, <2>1, PieceElements
<1> HIDE DEF payload, off, data
<1>6. /\ iocb \in IocbType /\ iocb.payload_length = Len(payload) /\ iocb.data = data
  BY <1>1, <1>2, <1>5 DEF Iocb, IocbType, Feed
<1> HIDE DEF iocb
<1>7. \/ Idle(frame_ctx, wire) /\ off = 0 /\ IsPayload(payload, Len(wire) + 1)
      \/ HeaderStage(frame_ctx, wire, payload) /\ off = 0
      \/ PayloadStage(frame_ctx, wire, payload, off)
  BY <1>1 DEF Inv, InStep, payload, off
<1>8. After(o, payload, off)
  BY <1>1, <1>2, <1>5, <1>6, <1>7, CallStep
<1>9. /\ frame_ctx' \in FrameContext /\ wire' \in Seq(WireFrame) /\ Exact(wire')
      /\ broken' \in BOOLEAN
  BY <1>4, <1>8 DEF After
<1>10. /\ NoFeed \in Feed /\ ~NoFeed.active
  BY EmptySeq DEF NoFeed, Feed, Opcodes, WSLAY_CONTINUATION_FRAME
<1> DEFINE more == [ feed EXCEPT !.off = @ + o.length ]
<1>11. /\ more \in Feed /\ more.active /\ more.payload = payload
       /\ more.off = off + o.length
  <2> DEFINE m == off + o.length
  <2>1. m \in Nat
    BY <1>2, <1>8 DEF After
  <2>2. more = [ feed EXCEPT !.off = m ]
    BY DEF off
  <2> HIDE DEF m, more
  <2>3. more \in Feed
    BY <1>1, <2>1, <2>2 DEF Feed
  <2> QED
    BY <1>1, <2>2, <2>3 DEF Feed, m, payload
<1> HIDE DEF more
<1>12. feed' \in Feed
  BY <1>4, <1>10, <1>11 DEF more
<1> DEFINE done == \/ o.result = WSLAY_ERR_INVALID_ARGUMENT
                   \/ o.result = 0 /\ off + o.length = Len(payload)
<1>13. CASE done
  <2>1. feed' = NoFeed
    BY <1>4, <1>13
  <2>2. Idle(o.fc, o.wire)
    BY <1>8, <1>13 DEF After, WSLAY_ERR_INVALID_ARGUMENT, WSLAY_ERR_INVALID_CALLBACK,
                       WSLAY_ERR_WANT_WRITE
  <2> QED
    BY <1>4, <1>9, <1>10, <1>12, <2>1, <2>2 DEF Inv, TypeOK, FrameTypeOK, InStep
<1>14. CASE ~done
  <2>0. feed' = more
    BY <1>4, <1>14 DEF more
  <2>1. CASE o.result = WSLAY_ERR_INVALID_CALLBACK
    BY <1>4, <1>9, <1>12, <2>1 DEF Inv, TypeOK, FrameTypeOK
  <2>2. CASE o.result = 0 /\ PayloadStage(o.fc, o.wire, payload, off + o.length)
    BY <1>4, <1>9, <1>11, <1>12, <2>0, <2>2 DEF Inv, TypeOK, FrameTypeOK, InStep
  <2>3. CASE /\ o.result = WSLAY_ERR_WANT_WRITE /\ o.length = 0
             /\ \/ PayloadStage(o.fc, o.wire, payload, off)
                \/ off = 0 /\ HeaderStage(o.fc, o.wire, payload)
    <3>1. feed'.off = off /\ feed'.payload = payload /\ feed'.active
      BY <1>2, <1>11, <2>0, <2>3
    <3> QED
      BY <1>4, <1>9, <1>12, <2>3, <3>1 DEF Inv, TypeOK, FrameTypeOK, InStep
  <2> QED
    BY <1>8, <1>14, <2>1, <2>2, <2>3 DEF After
<1> QED
  BY <1>13, <1>14

(* The application and the library stay in step.                           *)
THEOREM InvHolds == Spec => []Inv
<1>1. Inv /\ [Next]_vars => Inv'
  <2> SUFFICES ASSUME Inv, [Next]_vars PROVE Inv'
    OBVIOUS
  <2>1. CASE BeginFrame
    BY <2>1, BeginInv
  <2>2. CASE SendFrame
    BY <2>2, SendInv
  <2>3. CASE UNCHANGED vars
    BY <2>3 DEF vars, Inv, TypeOK, FrameTypeOK, InStep
  <2> QED
    BY <2>1, <2>2, <2>3 DEF Next
<1> QED
  BY InitInv, <1>1, PTL DEF Spec

-----------------------------------------------------------------------------
(* The key of a frame *)

HasMasked(w) == \E j \in 1..Len(w) : w[j].header.mask

(* The bytes of an unmasked frame were combined with no key, as long as no *)
(* masked frame was sent before it.                                        *)
Plain(w) ==
    \A i \in 1..Len(w) :
        \/ w[i].header.mask \/ MaskedBefore(w, i)
        \/ \A p \in 1..Len(w[i].body) : w[i].body[p].key = NoKey

(* omask is set for no other reason than a masked frame: one on the wire   *)
(* or the one that is about to begin (frame.c 53-56).                      *)
Announced(fc, w) ==
    fc.omask => \/ HasMasked(w)
                \/ /\ fc.ostate = "SEND_HEADER" /\ fc.oheadermark = 0
                   /\ fc.oheader.mask

(* The second layer of the inductive invariant, beside Inv.                *)
MaskInv == Plain(wire) /\ Announced(frame_ctx, wire)

(* The bytes of a call have a key only if omask is set, and then a masked  *)
(* frame is on the wire: the frame itself or one before it.                *)
LEMMA PayloadPlain ==
    ASSUME NEW fc \in FrameContext, NEW w \in Seq(WireFrame), Len(w) > 0,
           NEW data \in Seq(Byte), NEW n \in 0..Len(data),
           Plain(w), fc.omask => HasMasked(w)
    PROVE  LET v == WritePayload(fc, w, data, n)
           IN  Plain(v) /\ (fc.omask => HasMasked(v))
<1> DEFINE k == Len(w)
           last == w[k]
           sent == [ i \in 1..n |-> [ byte |-> data[i], key |-> KeyIndex(fc, i) ] ]
           f == [ last EXCEPT !.body = @ \o sent ]
           v == WritePayload(fc, w, data, n)
<1>1. k \in Nat /\ k > 0 /\ k \in 1..Len(w) /\ n \in Nat
  BY LenProperties
<1>2. last \in WireFrame
  BY <1>1, ElementOfSeq
<1>3. last.body \in Seq(WireByte)
  BY <1>2 DEF WireFrame
<1>4. /\ \A i \in 1..n : [ byte |-> data[i], key |-> KeyIndex(fc, i) ] \in WireByte
      /\ ~fc.omask => \A i \in 1..n : KeyIndex(fc, i) = NoKey
  <2> SUFFICES ASSUME NEW i \in 1..n
               PROVE  /\ [ byte |-> data[i], key |-> KeyIndex(fc, i) ] \in WireByte
                      /\ ~fc.omask => KeyIndex(fc, i) = NoKey
    OBVIOUS
  <2>1. i \in Nat /\ i >= 1 /\ data[i] \in Byte /\ fc.opayloadoff \in Nat
    BY <1>1, ElementOfSeq DEF FrameContext
  <2>2. (fc.opayloadoff + i - 1) % 4 \in 0..3
    BY <2>1, KeyRange
  <2>3. KeyIndex(fc, i) \in {NoKey} \cup 0..3 /\ (~fc.omask => KeyIndex(fc, i) = NoKey)
    BY <2>2 DEF KeyIndex
  <2> QED
    BY <2>1, <2>3 DEF WireByte
<1>5. /\ sent \in Seq(WireByte) /\ Len(sent) = n
      /\ ~fc.omask => \A i \in 1..n : sent[i].key = NoKey
  BY <1>1, <1>4
<1>6. v = [ w EXCEPT ![k] = f ]
  BY <1>1 DEF WritePayload
<1> HIDE DEF v, sent, last
<1>7. f \in WireFrame /\ f.header = last.header /\ f.body = last.body \o sent
  BY <1>2, <1>3, <1>5, ConcatProperties DEF WireFrame
<1> HIDE DEF f
<1>8. /\ Len(v) = k /\ v[k] = f
      /\ \A i \in 1..k : i # k => v[i] = w[i]
      /\ \A i \in 1..k : v[i].header = w[i].header
  <2>1. Len(v) = k /\ v[k] = f /\ \A i \in 1..(k - 1) : v[i] = w[i]
    BY <1>1, <1>6, <1>7, ReplaceLast
  <2>2. ASSUME NEW i \in 1..k, i # k PROVE v[i] = w[i]
    BY <1>1, <2>1, <2>2
  <2> QED
    BY <1>7, <2>1, <2>2 DEF last
<1>9. fc.omask => HasMasked(v)
  BY <1>8 DEF HasMasked
<1>10. ASSUME NEW i \in 1..k
       PROVE  MaskedBefore(v, i) <=> MaskedBefore(w, i)
  <2>1. \A j \in 1..(i - 1) : j \in 1..k
    BY <1>1
  <2> QED
    BY <1>8, <2>1 DEF MaskedBefore
<1> SUFFICES ASSUME NEW i \in 1..k, ~v[i].header.mask, ~MaskedBefore(v, i)
             PROVE  \A p \in 1..Len(v[i].body) : v[i].body[p].key = NoKey
  BY <1>8, <1>9, Zenon DEF Plain, v, k
<1>11. \A p \in 1..Len(w[i].body) : w[i].body[p].key = NoKey
  BY <1>8, <1>10 DEF Plain
<1>12. CASE i # k
  BY <1>8, <1>11, <1>12
<1>13. CASE i = k
  <2>1. ~fc.omask
    <3>1. \A j \in 1..k : j # i => j \in 1..(i - 1)
      BY <1>1, <1>13
    <3> QED
      BY <1>8, <1>9, <3>1 DEF HasMasked, MaskedBefore
  <2> DEFINE old == last.body
  <2>2. /\ old \in Seq(WireByte) /\ \A p \in 1..Len(old) : old[p].key = NoKey
        /\ v[i].body = old \o sent
    BY <1>3, <1>7, <1>8, <1>11, <1>13 DEF last
  <2> HIDE DEF old
  <2>3. Len(old) \in Nat /\ Len(old \o sent) = Len(old) + n
    BY <1>1, <1>5, <2>2, ConcatProperties, LenProperties
  <2> SUFFICES ASSUME NEW p \in 1..(Len(old) + n)
               PROVE  (old \o sent)[p].key = NoKey
    BY <2>2, <2>3
  <2>4. CASE p <= Len(old)
    BY <1>5, <2>2, <2>3, <2>4
  <2>5. CASE ~(p <= Len(old))
    <3>1. p - Len(old) \in 1..n /\ (old \o sent)[p] = sent[p - Len(old)]
      BY <1>1, <1>5, <2>2, <2>3, <2>5
    <3> QED
      BY <1>5, <2>1, <3>1
  <2> QED
    BY <2>4, <2>5
<1> QED
  BY <1>12, <1>13

(* What a call from the payload stage on leaves.                           *)
LEMMA SendPayloadPlain ==
    ASSUME NEW fc \in FrameContext, NEW w \in Seq(WireFrame), Len(w) > 0,
           NEW data \in Seq(Byte),
           Plain(w), fc.omask => HasMasked(w),
           NEW o \in SendPayload(fc, w, data)
    PROVE  Plain(o.wire) /\ Announced(o.fc, o.wire)
<1>1. CASE data = << >>
  <2>1. o.fc = PayloadSent(fc, 0) /\ o.wire = w
    BY <1>1 DEF SendPayload, Outcome
  <2> QED
    BY <2>1, MaskKept DEF Announced
<1>2. CASE o = Blocked(fc, w)
  BY <1>2 DEF Blocked, Outcome, Announced
<1>3. ASSUME NEW n \in 1..Len(data),
             o = Outcome(PayloadSent(fc, n), WritePayload(fc, w, data, n), 0, n,
                         fc.omask /\ n < Len(data))
      PROVE  Plain(o.wire) /\ Announced(o.fc, o.wire)
  <2>1. o.fc = PayloadSent(fc, n) /\ o.wire = WritePayload(fc, w, data, n)
    BY <1>3 DEF Outcome
  <2>2. n \in Nat /\ n \in 0..Len(data)
    BY LenProperties
  <2> QED
    BY <2>1, <2>2, MaskKept, PayloadPlain DEF Announced
<1>4. ASSUME NEW n \in 0..(IF fc.omask THEN Len(data) - 1 ELSE 0), data # << >>,
             o = Overrun([fc EXCEPT !.opayloadoff = @ + n], WritePayload(fc, w, data, n))
      PROVE  Plain(o.wire) /\ Announced(o.fc, o.wire)
  <2>1. /\ o.fc = [fc EXCEPT !.opayloadoff = @ + n]
        /\ o.wire = WritePayload(fc, w, data, n)
    BY <1>4 DEF Overrun, Outcome
  <2>2. n \in Nat /\ n \in 0..Len(data)
    BY <1>4, LenProperties, EmptySeq
  <2>3. o.fc.omask = fc.omask
    BY <2>1 DEF FrameContext
  <2> QED
    BY <2>1, <2>2, <2>3, PayloadPlain DEF Announced
<1> QED
  BY <1>1, <1>2, <1>3, <1>4, Zenon DEF SendPayload

(* The frame of a header whose first bytes leave is announced by it.       *)
LEMMA HeaderPlain ==
    ASSUME NEW fc \in FrameContext, NEW w \in Seq(WireFrame), NEW n \in Nat,
           fc.oheadermark > 0 => /\ Len(w) > 0
                                 /\ w[Len(w)].header = fc.oheader
                                 /\ w[Len(w)].hdrlen = fc.oheaderlimit
                                 /\ w[Len(w)].hdr = fc.oheadermark
                                 /\ w[Len(w)].body = << >>,
           Plain(w), Announced(fc, w)
    PROVE  LET v == WriteHeader(fc, w, n)
           IN  /\ v \in Seq(WireFrame) /\ Len(v) > 0
               /\ Plain(v)
               /\ fc.omask => HasMasked(v)
<1> DEFINE v == WriteHeader(fc, w, n)
<1>1. /\ v \in Seq(WireFrame)
      /\ Len(v) = IF fc.oheadermark = 0 THEN Len(w) + 1 ELSE Len(w)
      /\ \A i \in 1..(Len(v) - 1) : v[i] = w[i]
      /\ v[Len(v)].header = fc.oheader
      /\ v[Len(v)].body = << >>
  BY HeaderWritten
<1> HIDE DEF v
<1>2. /\ Len(w) \in Nat /\ Len(v) \in Nat /\ Len(v) > 0 /\ fc.oheadermark \in Nat
      /\ Len(v) - 1 <= Len(w) /\ Len(w) <= Len(v)
      /\ Len(w) = Len(v) => fc.oheadermark > 0
  BY <1>1, LenProperties DEF FrameContext
<1>3. Plain(v)
  <2> SUFFICES ASSUME NEW i \in 1..Len(v), ~v[i].header.mask, ~MaskedBefore(v, i)
               PROVE  \A p \in 1..Len(v[i].body) : v[i].body[p].key = NoKey
    BY DEF Plain
  <2>1. CASE i = Len(v)
    BY <1>1, <2>1, EmptySeq
  <2>2. CASE i # Len(v)
    <3>1. i \in 1..Len(w) /\ v[i] = w[i]
      BY <1>1, <1>2, <2>2
    <3>2. ~MaskedBefore(w, i)
      BY <1>1, <1>2, <2>2 DEF MaskedBefore
    <3> QED
      BY <3>1, <3>2 DEF Plain
  <2> QED
    BY <2>1, <2>2
<1>4. ASSUME fc.omask PROVE HasMasked(v)
  <2>1. CASE fc.oheader.mask
    BY <1>1, <1>2, <2>1 DEF HasMasked
  <2>2. CASE ~fc.oheader.mask
    <3>1. PICK j \in 1..Len(w) : w[j].header.mask
      BY <1>4, <2>2 DEF Announced, HasMasked
    <3>2. j # Len(v)
      BY <1>2, <2>2, <3>1
    <3>3. j \in 1..Len(v) /\ v[j] = w[j]
      BY <1>1, <1>2, <3>1, <3>2
    <3> QED
      BY <3>1, <3>3 DEF HasMasked
  <2> QED
    BY <2>1, <2>2
<1> QED
  BY <1>1, <1>2, <1>3, <1>4 DEF v

(* What a call from the header stage on leaves.                            *)
LEMMA SendHeaderPlain ==
    ASSUME NEW fc \in FrameContext, NEW w \in Seq(WireFrame), NEW data \in Seq(Byte),
           fc.oheadermark < fc.oheaderlimit,
           fc.oheadermark > 0 => /\ Len(w) > 0
                                 /\ w[Len(w)].header = fc.oheader
                                 /\ w[Len(w)].hdrlen = fc.oheaderlimit
                                 /\ w[Len(w)].hdr = fc.oheadermark
                                 /\ w[Len(w)].body = << >>,
           Plain(w), Announced(fc, w),
           NEW o \in SendHeader(fc, w, data)
    PROVE  Plain(o.wire) /\ Announced(o.fc, o.wire)
<1> DEFINE left == fc.oheaderlimit - fc.oheadermark
<1>1. left \in Nat
  BY DEF FrameContext
<1>2. CASE o \in { Blocked(fc, w), Overrun(fc, w) }
  BY <1>2 DEF Blocked, Overrun, Outcome
<1>3. ASSUME NEW n \in 1..(left - 1),
             o = Outcome(HeaderSent(fc, n), WriteHeader(fc, w, n),
                         WSLAY_ERR_WANT_WRITE, 0, FALSE)
      PROVE  Plain(o.wire) /\ Announced(o.fc, o.wire)
  <2>1. o.fc = HeaderSent(fc, n) /\ o.wire = WriteHeader(fc, w, n) /\ n \in Nat
    BY <1>1, <1>3 DEF Outcome
  <2>2. HeaderSent(fc, n).omask = fc.omask
    BY <2>1, MaskKept
  <2>3. Plain(o.wire) /\ (fc.omask => HasMasked(o.wire))
    BY <2>1, HeaderPlain
  <2> QED
    BY <2>1, <2>2, <2>3 DEF Announced
<1>4. CASE o \in SendPayload(HeaderSent(fc, left), WriteHeader(fc, w, left), data)
  <2> DEFINE v == WriteHeader(fc, w, left)
             g == HeaderSent(fc, left)
  <2>1. g \in FrameContext /\ g.omask = fc.omask
    BY <1>1, HeaderSentLemma, MaskKept
  <2>2. v \in Seq(WireFrame) /\ Len(v) > 0 /\ Plain(v) /\ (fc.omask => HasMasked(v))
    BY <1>1, HeaderPlain
  <2>3. o \in SendPayload(g, v, data)
    BY <1>4
  <2> HIDE DEF v, g
  <2> QED
    BY <2>1, <2>2, <2>3, SendPayloadPlain
<1> HIDE DEF left
<1>5. \/ o \in { Blocked(fc, w), Overrun(fc, w) }
      \/ \E n \in 1..(left - 1) :
           o = Outcome(HeaderSent(fc, n), WriteHeader(fc, w, n),
                       WSLAY_ERR_WANT_WRITE, 0, FALSE)
      \/ o \in SendPayload(HeaderSent(fc, left), WriteHeader(fc, w, left), data)
  BY Zenon DEF SendHeader, left
<1> QED
  BY <1>2, <1>3, <1>4, <1>5

(* A call of the application keeps the second layer.                       *)
LEMMA SendMaskInv ==
    ASSUME Inv, MaskInv, SendFrame
    PROVE  MaskInv'
<1>1. /\ frame_ctx \in FrameContext /\ wire \in Seq(WireFrame) /\ feed \in Feed
      /\ InStep
  BY DEF Inv, TypeOK, FrameTypeOK, SendFrame
<1>2. PICK n \in 0..(Len(feed.payload) - feed.off) :
        LET data == SubSeq(feed.payload, feed.off + 1, feed.off + n)
            iocb == Iocb(feed.fin, feed.opcode, feed.mask, Len(feed.payload), data)
        IN  \E o \in wslay_frame_send(frame_ctx, wire, iocb) :
              frame_ctx' = o.fc /\ wire' = o.wire
  BY Zenon DEF SendFrame
<1> DEFINE data == SubSeq(feed.payload, feed.off + 1, feed.off + n)
           iocb == Iocb(feed.fin, feed.opcode, feed.mask, Len(feed.payload), data)
<1>3. PICK o \in wslay_frame_send(frame_ctx, wire, iocb) :
        frame_ctx' = o.fc /\ wire' = o.wire
  BY <1>2, Zenon
<1>4. data \in Seq(Byte)
  BY <1>1, LenProperties, PieceElements DEF Feed
<1> HIDE DEF data
<1>5. iocb \in IocbType /\ iocb.data = data /\ iocb.mask = feed.mask
  BY <1>1, <1>4, LenProperties DEF Iocb, IocbType, Feed
<1> HIDE DEF iocb
<1>6. SUFFICES Plain(o.wire) /\ Announced(o.fc, o.wire)
  BY <1>3 DEF MaskInv
<1>7. CASE frame_ctx.ostate = "PREP_HEADER"
  <2>1. CASE o.fc = frame_ctx /\ o.wire = wire
    BY <2>1 DEF MaskInv
  <2>2. CASE o \in SendHeader(PrepareHeader(frame_ctx, iocb), wire, data)
    <3> DEFINE g == PrepareHeader(frame_ctx, iocb)
    <3>1. /\ g \in FrameContext /\ g.ostate = "SEND_HEADER"
          /\ g.oheader = [ fin |-> iocb.fin, opcode |-> iocb.opcode, mask |-> iocb.mask,
                           payload_length |-> iocb.payload_length ]
          /\ g.oheadermark = 0 /\ g.oheaderlimit > 0
      BY <1>1, <1>5, PrepareHeaderLemma
    <3>2. g.omask = (iocb.mask \/ frame_ctx.omask)
      BY DEF PrepareHeader
    <3> HIDE DEF g
    <3>3. g.oheader.mask = iocb.mask
      BY <3>1
    <3>4. Announced(g, wire)
      BY <1>7, <3>1, <3>2, <3>3 DEF MaskInv, Announced
    <3> QED
      BY <1>1, <1>4, <2>2, <3>1, <3>4, SendHeaderPlain DEF MaskInv, g
  <2>3. \/ o = Outcome(frame_ctx, wire, WSLAY_ERR_INVALID_ARGUMENT, 0, FALSE)
        \/ o = Outcome(frame_ctx, wire, WSLAY_ERR_INVALID_CALLBACK, 0, FALSE)
        \/ o \in SendHeader(PrepareHeader(frame_ctx, iocb), wire, data)
    BY <1>5, <1>7 DEF wslay_frame_send
  <2> QED
    BY <2>1, <2>2, <2>3 DEF Outcome
<1>8. CASE o = Outcome(frame_ctx, wire, WSLAY_ERR_INVALID_ARGUMENT, 0, FALSE)
  BY <1>8 DEF Outcome, MaskInv
<1>9. CASE /\ HeaderStage(frame_ctx, wire, feed.payload)
           /\ o \in SendHeader(frame_ctx, wire, data)
  <2>1. /\ frame_ctx.oheadermark < frame_ctx.oheaderlimit
        /\ frame_ctx.oheadermark > 0 =>
             /\ Len(wire) > 0
             /\ wire[Len(wire)].header = frame_ctx.oheader
             /\ wire[Len(wire)].hdrlen = frame_ctx.oheaderlimit
             /\ wire[Len(wire)].hdr = frame_ctx.oheadermark
             /\ wire[Len(wire)].body = << >>
    BY <1>1, <1>9 DEF HeaderStage, FrameContext
  <2> QED
    BY <1>1, <1>4, <1>9, <2>1, SendHeaderPlain DEF MaskInv
<1>10. CASE /\ PayloadStage(frame_ctx, wire, feed.payload, feed.off)
            /\ o \in SendPayload(frame_ctx, wire, data)
  <2>1. Len(wire) > 0 /\ frame_ctx.ostate = "SEND_PAYLOAD"
    BY <1>10 DEF PayloadStage
  <2>2. frame_ctx.omask => HasMasked(wire)
    BY <2>1 DEF MaskInv, Announced
  <2> QED
    BY <1>1, <1>4, <1>10, <2>1, <2>2, SendPayloadPlain DEF MaskInv
<1> QED
  BY <1>1, <1>5, <1>7, <1>8, <1>9, <1>10
  DEF InStep, Idle, HeaderStage, PayloadStage, wslay_frame_send

(* The key of an unmasked frame follows a masked one.                      *)
LEMMA MaskInvHolds == Spec => []MaskInv
<1>1. Init => MaskInv
  BY EmptySeq DEF Init, FrameInit, frame_context_new, MaskInv, Plain, Announced
<1>2. Inv /\ MaskInv /\ [Next]_vars => MaskInv'
  <2> SUFFICES ASSUME Inv, MaskInv, [Next]_vars PROVE MaskInv'
    OBVIOUS
  <2>1. CASE BeginFrame
    BY <2>1 DEF BeginFrame, frameVars, MaskInv
  <2>2. CASE SendFrame
    BY <2>2, SendMaskInv
  <2>3. CASE UNCHANGED vars
    BY <2>3 DEF vars, MaskInv
  <2> QED
    BY <2>1, <2>2, <2>3 DEF Next
<1> QED
  BY InvHolds, <1>1, <1>2, PTL DEF Spec

-----------------------------------------------------------------------------
(* What the peer gets *)

(* The bytes of a frame that is exact as far as it goes are a prefix of    *)
(* its payload.                                                            *)
LEMMA PartIsPrefix ==
    ASSUME NEW f \in WireFrame, NEW k \in Nat, Part(f, k)
    PROVE  LET payload == Payload(k, f.header.payload_length)
           IN  /\ Len(payload) = f.header.payload_length
               /\ Bytes(f.body) = SubSeq(payload, 1, Len(f.body))
<1> DEFINE len == f.header.payload_length
           payload == Payload(k, len)
           m == Len(f.body)
<1>1. len \in Nat /\ m \in Nat /\ m <= len
  BY LenProperties DEF WireFrame, Header, Part
<1> HIDE DEF len, m
<1>2. /\ payload \in Seq(Int) /\ Len(payload) = len
      /\ \A i \in 1..len : payload[i] = 16 * (k - 1) + i - 1
  BY <1>1 DEF Payload
<1> HIDE DEF payload
<1> DEFINE prefix == SubSeq(payload, 1, m)
<1>3. /\ prefix \in Seq(Int) /\ Len(prefix) = m
      /\ \A i \in 1..m : prefix[i] = payload[i]
  BY <1>1, <1>2
<1> HIDE DEF prefix
<1>4. \A i \in 1..m : f.body[i].byte = prefix[i]
  BY <1>1, <1>2, <1>3, SMTT(40) DEF Part, Filled, m
<1>5. prefix = [ i \in 1..m |-> prefix[i] ]
  BY <1>1, <1>3
<1>6. Bytes(f.body) = prefix
  BY <1>4, <1>5 DEF Bytes, m
<1> QED
  BY <1>2, <1>6 DEF prefix, payload, len, m

(* What the peer gets after the i-th header is a prefix of the i-th        *)
(* payload, no frame begins before the one before it is complete (frame.c  *)
(* 89-164), and the bytes of an unmasked frame were combined with no key   *)
(* unless a masked frame was sent before it (frame.c 53-56, 115), for      *)
(* every limit, every bound and every size of piece.                       *)
THEOREM FramesStayExact == Spec => []FramesExact
<1>1. Inv /\ MaskInv => FramesExact
  <2> SUFFICES ASSUME Inv, MaskInv, NEW i \in 1..Len(wire)
               PROVE  LET f == wire[i]
                          payload == Payload(i, f.header.payload_length)
                      IN  /\ f.hdr <= f.hdrlen
                          /\ f.body # << >> => f.hdr = f.hdrlen
                          /\ Len(f.body) <= Len(payload)
                          /\ Bytes(f.body) = SubSeq(payload, 1, Len(f.body))
                          /\ \/ f.header.mask \/ MaskedBefore(wire, i)
                             \/ \A p \in 1..Len(f.body) : f.body[p].key = NoKey
                          /\ i < Len(wire) => f.hdr = f.hdrlen /\ Len(f.body) = Len(payload)
    BY Zenon DEF FramesExact
  <2>1. wire[i] \in WireFrame /\ i \in Nat
    BY ElementOfSeq DEF Inv, TypeOK, FrameTypeOK
  <2>2. Part(wire[i], i) /\ (i < Len(wire) => Whole(wire[i], i))
    BY DEF Inv, Exact
  <2>3. LET payload == Payload(i, wire[i].header.payload_length)
        IN  /\ Len(payload) = wire[i].header.payload_length
            /\ Bytes(wire[i].body) = SubSeq(payload, 1, Len(wire[i].body))
    BY <2>1, <2>2, PartIsPrefix
  <2>4. \/ wire[i].header.mask \/ MaskedBefore(wire, i)
        \/ \A p \in 1..Len(wire[i].body) : wire[i].body[p].key = NoKey
    BY DEF MaskInv, Plain
  <2> QED
    BY <2>2, <2>3, <2>4 DEF Part, Whole
<1> QED
  BY InvHolds, MaskInvHolds, <1>1, PTL

(* Every masked payload byte was combined with the mask-key byte of its    *)
(* place in the frame (frame.c 122-135), however the payload was cut.      *)
THEOREM KeysStayAligned == Spec => []KeysAligned
<1>1. Inv => KeysAligned
  BY DEF Inv, Exact, Part, Filled, KeysAligned
<1> QED
  BY InvHolds, <1>1, PTL
=============================================================================
