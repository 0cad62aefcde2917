------------------------------ MODULE FrameApi ------------------------------
(***************************************************************************)
(* An application that uses the frame API directly: it chooses frames and  *)
(* hands their payload to wslay_frame_send in pieces of any size, retrying *)
(* what was not sent (frame.h, "adjust data and data_length in iocb        *)
(* accordingly and call this function again").                             *)
(***************************************************************************)
EXTENDS FrameSend

CONSTANTS
    AppOpcodes,   \* the opcodes the application uses
    MaxFrames,    \* bound on the number of frames
    MaxPayload    \* bound on the length of a payload

ASSUME FrameApiAssumption ==
    /\ AppOpcodes \subseteq Opcodes
    /\ MaxFrames \in 0..15
    /\ MaxPayload \in 0..15

VARIABLES
    feed,         \* the frame being handed over, and how much of it was
    broken        \* a callback misbehaved, the application gave up

vars == << frame_ctx, wire, feed, broken >>

(* The payload of the k-th frame: every byte tells its frame and place.    *)
Payload(k, len) == [ i \in 1..len |-> 16 * (k - 1) + i - 1 ]

NoFeed == [ active |-> FALSE, fin |-> FALSE, opcode |-> WSLAY_CONTINUATION_FRAME,
            mask |-> FALSE, payload |-> << >>, off |-> 0 ]

Feed == [ active : BOOLEAN, fin : BOOLEAN, opcode : Opcodes, mask : BOOLEAN,
          payload : Seq(Byte), off : Nat ]

TypeOK == /\ FrameTypeOK
          /\ feed \in Feed
          /\ broken \in BOOLEAN

Init == /\ FrameInit
        /\ feed = NoFeed
        /\ broken = FALSE

(* The application turns to its next frame.                                *)
BeginFrame ==
    /\ ~broken /\ ~feed.active
    /\ Len(wire) < MaxFrames
    /\ \E fin, mask \in BOOLEAN, opcode \in AppOpcodes, len \in 0..MaxPayload :
         feed' = [ active |-> TRUE, fin |-> fin, opcode |-> opcode,
                   mask |-> mask, payload |-> Payload(Len(wire) + 1, len),
                   off |-> 0 ]
    /\ UNCHANGED << frameVars, broken >>

(* One call of wslay_frame_send with the next n bytes of the payload.  A   *)
(* frame that is refused is dropped.                                       *)
SendFrame ==
    /\ ~broken /\ feed.active
    /\ \E n \in 0..(Len(feed.payload) - feed.off) :
         LET data == SubSeq(feed.payload, feed.off + 1, feed.off + n)
             iocb == Iocb(feed.fin, feed.opcode, feed.mask, Len(feed.payload), data)
         IN  \E o \in wslay_frame_send(frame_ctx, wire, iocb) :
               /\ frame_ctx' = o.fc
               /\ wire' = o.wire
               /\ broken' = (o.result = WSLAY_ERR_INVALID_CALLBACK)
               /\ feed' = IF \/ o.result = WSLAY_ERR_INVALID_ARGUMENT
                             \/ /\ o.result = 0
                                /\ feed.off + o.length = Len(feed.payload)
                          THEN NoFeed
                          ELSE [ feed EXCEPT !.off = @ + o.length ]

Next == BeginFrame \/ SendFrame

Spec == Init /\ [][Next]_vars

-----------------------------------------------------------------------------

Bytes(body) == [ i \in 1..Len(body) |-> body[i].byte ]

MaskedBefore(w, i) == \E j \in 1..(i - 1) : w[j].header.mask

(* Whatever the sizes of the pieces the application passes and the socket  *)
(* accepts (frame.c 89-164), the bytes the peer gets after the i-th header *)
(* are a prefix of the i-th payload, and no frame begins before the one    *)
(* before it is complete, header and payload.  The bytes of an unmasked    *)
(* frame were combined with no key, as long as no masked frame was sent    *)
(* before it: after one they are, although the header says otherwise,      *)
(* because omask is never cleared (frame.c 78, 115; frame.h 106 demands    *)
(* mask to be 0 for an unmasked frame and no more).                        *)
FramesExact ==
    \A i \in 1..Len(wire) :
        LET f == wire[i]
            payload == Payload(i, f.header.payload_length)
        IN  /\ f.hdr <= f.hdrlen
            /\ f.body # << >> => f.hdr = f.hdrlen
            /\ Len(f.body) <= Len(payload)
            /\ Bytes(f.body) = SubSeq(payload, 1, Len(f.body))
            /\ \/ f.header.mask \/ MaskedBefore(wire, i)
               \/ \A p \in 1..Len(f.body) : f.body[p].key = NoKey
            /\ i < Len(wire) => f.hdr = f.hdrlen /\ Len(f.body) = Len(payload)

(* The mask-key byte used for a payload byte is the one at its place in    *)
(* the frame, modulo 4, even when the payload left in several calls        *)
(* (frame.c 122-135).                                                      *)
KeysAligned ==
    \A i \in 1..Len(wire) : \A p \in 1..Len(wire[i].body) :
        wire[i].header.mask => wire[i].body[p].key = (p - 1) % 4
=============================================================================
