---------------------------- MODULE MCFrameRecv ----------------------------
(* TLC instance of the receiver: with CtrlMax = 2 and Radix = 2 payloads   *)
(* of up to 2 bytes have the short length form, 3 the 16-bit form, 4 and 5 *)
(* the 64-bit form.                                                        *)
EXTENDS FrameRecv

F(opcode, fin, rsv, mask, payload) ==
    [ fin |-> fin, rsv |-> rsv, opcode |-> opcode, mask |-> mask, payload |-> payload ]

MCFrames ==
    { F(WSLAY_TEXT_FRAME, TRUE, 0, TRUE, << >>),
      F(WSLAY_PING, TRUE, 0, TRUE, << 65, 255 >>),
      F(WSLAY_CONTINUATION_FRAME, FALSE, 4, FALSE, << 7 >>),
      F(WSLAY_BINARY_FRAME, TRUE, 0, FALSE, << 1, 2, 3 >>),
      F(WSLAY_BINARY_FRAME, FALSE, 0, TRUE, << 1, 2, 130, 4, 255 >>),
      F(WSLAY_TEXT_FRAME, TRUE, 0, FALSE, << 1, 2, 3, 4 >>) }

(* A fragmented Ping; a Ping with a 16-bit length; 2 in the 16-bit form, 3 *)
(* in the 64-bit form, and a length with the highest bit set.              *)
MCHeads ==
    { << 9, 129 >>,
      << 137, 131 >>,
      << 130, 3, 1, 0 >>,
      << 130, 132, 0, 0, 0, 0, 0, 0, 1, 1 >>,
      << 129, 4, 1, 0, 0, 0, 0, 0, 0, 0 >> }

MCKeys == { << 1, 130, 3, 255 >> }
=============================================================================
