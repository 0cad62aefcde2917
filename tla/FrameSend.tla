----------------------------- MODULE FrameSend -----------------------------
(***************************************************************************)
(* The sending half of wslay's frame layer: wslay_frame_send (frame.c).    *)
(*                                                                         *)
(* One call prepares a frame header if the previous frame is complete,     *)
(* writes what the send callback accepts of the header and then what it    *)
(* accepts of the payload the caller passes, and keeps in frame_ctx how    *)
(* far it came, so that the next call carries on there.  Its result        *)
(* depends on what the send and genmask callbacks do, so the call is the   *)
(* set of all its outcomes: wslay_frame_send(fc, w, iocb).                 *)
(*                                                                         *)
(* A header is modelled by the fields it carries and by its length in      *)
(* bytes; a payload byte on the wire is modelled with the index of the     *)
(* mask-key byte it was combined with (NoKey if none).  The rsv bits,      *)
(* always 0 in the event layer, are left out.                              *)
(***************************************************************************)
EXTENDS Wslay

CONSTANTS
    Ext16Limit,   \* first payload length that needs 8 bytes  (2^16 in the code)
    Ext63Limit    \* first payload length that is refused     (2^63 in the code)

ASSUME ExtLimitsAssumption ==
    /\ Ext16Limit \in Nat
    /\ Ext63Limit \in Nat
    /\ CtrlMax + 1 < Ext16Limit
    /\ Ext16Limit < Ext63Limit

VARIABLES
    frame_ctx,    \* the o* fields of wslay_frame_context
    wire          \* every frame of which at least a byte was sent

frameVars == << frame_ctx, wire >>

-----------------------------------------------------------------------------

NoKey == -1

(* struct wslay_frame_iocb: data_length is Len(data).                      *)
Iocb(fin, opcode, mask, payload_length, data) ==
    [ fin |-> fin, opcode |-> opcode, mask |-> mask,
      payload_length |-> payload_length, data |-> data ]

OState == { "PREP_HEADER", "SEND_HEADER", "SEND_PAYLOAD" }

Header == [ fin : BOOLEAN, opcode : Opcodes, mask : BOOLEAN,
            payload_length : Nat ]

(* omask is set when a masked header is prepared and is never cleared.     *)
FrameContext ==
    [ ostate       : OState,
      oheader      : Header,
      oheadermark  : Nat,
      oheaderlimit : Nat,
      opayloadlen  : Nat,
      opayloadoff  : Nat,
      omask        : BOOLEAN ]

(* A frame as the peer sees it: the header, hdr of its hdrlen bytes and    *)
(* the payload bytes that have arrived.                                    *)
WireByte == [ byte : Byte, key : {NoKey} \cup 0..3 ]

WireFrame == [ header : Header, hdrlen : Nat, hdr : Nat, body : Seq(WireByte) ]

(* wslay_frame_context_new                                                 *)
frame_context_new ==
    [ ostate       |-> "PREP_HEADER",
      oheader      |-> [ fin |-> FALSE, opcode |-> WSLAY_CONTINUATION_FRAME,
                         mask |-> FALSE, payload_length |-> 0 ],
      oheadermark  |-> 0,
      oheaderlimit |-> 0,
      opayloadlen  |-> 0,
      opayloadoff  |-> 0,
      omask        |-> FALSE ]

(* At least a byte of the frame in fc is on the wire, but not all of it.   *)
IsUnderWay(fc) ==
    \/ fc.ostate = "SEND_HEADER" /\ fc.oheadermark > 0
    \/ fc.ostate = "SEND_PAYLOAD"

FrameInit == /\ frame_ctx = frame_context_new
             /\ wire = << >>

FrameTypeOK == /\ frame_ctx \in FrameContext
               /\ wire \in Seq(WireFrame)

-----------------------------------------------------------------------------
(* PREP_HEADER *)

(* The 7-bit, 16-bit and 64-bit forms of the length, and the mask key.     *)
HeaderLength(payload_length, mask) ==
    2 + (IF payload_length < CtrlMax + 1 THEN 0
         ELSE IF payload_length < Ext16Limit THEN 2
         ELSE 8)
      + (IF mask THEN 4 ELSE 0)

(* The calls that fail before a callback is invoked.                       *)
IsRefused(fc, iocb) ==
    \/ Len(iocb.data) > iocb.payload_length
    \/ /\ fc.ostate = "PREP_HEADER"
       /\ \/ wslay_is_ctrl_frame(iocb.opcode) /\ iocb.payload_length > CtrlMax
          \/ iocb.payload_length >= Ext63Limit

(* The context after the header of a new frame is in oheader.              *)
PrepareHeader(fc, iocb) ==
    [ ostate       |-> "SEND_HEADER",
      oheader      |-> [ fin |-> iocb.fin, opcode |-> iocb.opcode,
                         mask |-> iocb.mask,
                         payload_length |-> iocb.payload_length ],
      oheadermark  |-> 0,
      oheaderlimit |-> HeaderLength(iocb.payload_length, iocb.mask),
      opayloadlen  |-> iocb.payload_length,
      opayloadoff  |-> 0,
      omask        |-> iocb.mask \/ fc.omask ]

-----------------------------------------------------------------------------
(* What a call comes to: the new state, the value returned, *length, and   *)
(* whether the send callback it ended with returned 0 or less.             *)

Outcome(fc, w, result, length, failed) ==
    [ fc |-> fc, wire |-> w, result |-> result, length |-> length,
      failed |-> failed ]

(* The send callback returned 0 or less and nothing was sent by this stage *)
Blocked(fc, w) == Outcome(fc, w, WSLAY_ERR_WANT_WRITE, 0, TRUE)

(* The send callback claims more bytes than it was given.                  *)
Overrun(fc, w) == Outcome(fc, w, WSLAY_ERR_INVALID_CALLBACK, 0, FALSE)

-----------------------------------------------------------------------------
(* SEND_HEADER *)

(* n more header bytes reach the peer; the first one begins a new frame.   *)
WriteHeader(fc, w, n) ==
    IF fc.oheadermark = 0
    THEN Append(w, [ header |-> fc.oheader, hdrlen |-> fc.oheaderlimit,
                     hdr |-> n, body |-> << >> ])
    ELSE [ w EXCEPT ![Len(w)].hdr = @ + n ]

(* Mutant: a header sent in part is taken for one sent whole.              *)
HeaderSentOnce(fc, n) ==
    [ fc EXCEPT !.oheadermark = @ + n, !.ostate = "SEND_PAYLOAD" ]

HeaderSent(fc, n) ==
    [ fc EXCEPT !.oheadermark = @ + n,
                !.ostate = IF fc.oheadermark + n = fc.oheaderlimit
                           THEN "SEND_PAYLOAD" ELSE "SEND_HEADER" ]

-----------------------------------------------------------------------------
(* SEND_PAYLOAD *)

(* Mutant: the key starts anew in each call.                               *)
KeyIndexInCall(fc, i) == IF fc.omask THEN (i - 1) % 4 ELSE NoKey

(* The mask-key byte for the i-th byte (from 1) of data.                   *)
KeyIndex(fc, i) == IF fc.omask THEN (fc.opayloadoff + i - 1) % 4 ELSE NoKey

WritePayload(fc, w, data, n) ==
    [ w EXCEPT ![Len(w)].body =
        @ \o [ i \in 1..n |-> [ byte |-> data[i], key |-> KeyIndex(fc, i) ] ] ]

PayloadSent(fc, n) ==
    [ fc EXCEPT !.opayloadoff = @ + n,
                !.ostate = IF fc.opayloadoff + n = fc.opayloadlen
                           THEN "PREP_HEADER" ELSE "SEND_PAYLOAD" ]

(* The masked loop keeps calling the callback until everything is sent or  *)
(* the callback fails; unmasked data is offered to the callback once.  A   *)
(* callback that overruns leaves the bytes sent before it accounted for.   *)
SendPayload(fc, w, data) ==
    IF data = << >>
    THEN { Outcome(PayloadSent(fc, 0), w, 0, 0, FALSE) }
    ELSE { Blocked(fc, w) }
         \cup { Outcome(PayloadSent(fc, n), WritePayload(fc, w, data, n), 0, n,
                        fc.omask /\ n < Len(data)) : n \in 1..Len(data) }
         \cup { Overrun([fc EXCEPT !.opayloadoff = @ + n],
                        WritePayload(fc, w, data, n)) :
                n \in 0..(IF fc.omask THEN Len(data) - 1 ELSE 0) }

SendHeader(fc, w, data) ==
    LET left == fc.oheaderlimit - fc.oheadermark
    IN  { Blocked(fc, w), Overrun(fc, w) }
        \cup { Outcome(HeaderSent(fc, n), WriteHeader(fc, w, n),
                       WSLAY_ERR_WANT_WRITE, 0, FALSE) : n \in 1..(left - 1) }
        \cup SendPayload(HeaderSent(fc, left), WriteHeader(fc, w, left), data)

-----------------------------------------------------------------------------

wslay_frame_send(fc, w, iocb) ==
    IF IsRefused(fc, iocb)
    THEN { Outcome(fc, w, WSLAY_ERR_INVALID_ARGUMENT, 0, FALSE) }
    ELSE CASE fc.ostate = "PREP_HEADER" ->
                SendHeader(PrepareHeader(fc, iocb), w, iocb.data)
                \cup (IF iocb.mask     \* genmask_callback fails
                      THEN { Outcome(fc, w, WSLAY_ERR_INVALID_CALLBACK, 0, FALSE) }
                      ELSE {})
           [] fc.ostate = "SEND_HEADER"  -> SendHeader(fc, w, iocb.data)
           [] fc.ostate = "SEND_PAYLOAD" -> SendPayload(fc, w, iocb.data)
=============================================================================
