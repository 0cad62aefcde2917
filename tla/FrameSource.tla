----------------------------- MODULE FrameSource -----------------------------
(***************************************************************************)
(* What wslay_frame_recv (frame.c) promises the event layer: the frames    *)
(* the peer sends, one after the other, each as one or more chunks of its  *)
(* payload in order, cut wherever the socket cuts them.                    *)
(*                                                                         *)
(* A call is the set of its outcomes, as in FrameSend.  The header and the *)
(* mask key are parsed below this module's level: a frame appears when its *)
(* first chunk does.                                                       *)
(***************************************************************************)
EXTENDS Wslay

CONSTANTS
    Frames,       \* the frames the peer may send
    MaxFrames     \* bound on how many it sends

Frame == [ fin : BOOLEAN, rsv : 0..7, opcode : 0..15, mask : BOOLEAN,
           payload : Seq(Byte) ]

ASSUME FramesAssumption ==
    /\ Frames \subseteq Frame
    /\ \A f \in Frames : wslay_is_ctrl_frame(f.opcode) =>
                            f.fin /\ Len(f.payload) <= CtrlMax
    /\ MaxFrames \in Nat

VARIABLE
    source        \* [peer: the frames so far, taken: payload bytes of the
                  \*  last one passed on, open: whether some are still to come]

SourceInit == source = [ peer |-> << >>, taken |-> 0, open |-> FALSE ]

SourceTypeOK == source \in [ peer : Seq(Frame), taken : Nat, open : BOOLEAN ]

-----------------------------------------------------------------------------

SourceIocb(f, from, to) ==
    [ fin |-> f.fin, rsv |-> f.rsv, opcode |-> f.opcode, mask |-> f.mask,
      payload_length |-> Len(f.payload), data |-> SubSeq(f.payload, from + 1, to) ]

NoIocb == [ fin |-> FALSE, rsv |-> 0, opcode |-> 0, mask |-> FALSE,
            payload_length |-> 0, data |-> << >> ]

(* A chunk is empty only if the payload is.                                *)
Chunks(peer, f, taken) ==
    { [ source |-> [ peer |-> peer, taken |-> n, open |-> n < Len(f.payload) ],
        iocb |-> SourceIocb(f, taken, n), result |-> 0, failed |-> FALSE ] :
      n \in IF f.payload = << >> THEN {0} ELSE (taken + 1)..Len(f.payload) }

(* The recv callback returned 0 or less; it returned too few bytes for a   *)
(* header; the header breaks the protocol.                                 *)
NoChunk(src) ==
    { [ source |-> src, iocb |-> NoIocb, result |-> WSLAY_ERR_WANT_READ, failed |-> failed ] :
      failed \in BOOLEAN }
    \cup (IF src.open THEN {}
          ELSE { [ source |-> src, iocb |-> NoIocb, result |-> WSLAY_ERR_PROTO,
                   failed |-> FALSE ] })

wslay_frame_recv(src) ==
    NoChunk(src) \cup
    IF src.open
    THEN Chunks(src.peer, src.peer[Len(src.peer)], src.taken)
    ELSE IF Len(src.peer) < MaxFrames
    THEN UNION { Chunks(Append(src.peer, f), f, 0) : f \in Frames }
    ELSE {}
=============================================================================
