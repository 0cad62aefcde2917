---------------------------- MODULE MCEventRecv ----------------------------
(* TLC instances of the receiving side of a server: its peer masks.        *)
EXTENDS RecvView

Buffered   == { [ no_buffering |-> FALSE, on_msg_recv |-> b ] : b \in BOOLEAN }
Unbuffered == { [ no_buffering |-> TRUE, on_msg_recv |-> TRUE ] }
AllConfigs == Buffered \cup Unbuffered

F(opcode, fin, payload) ==
    [ fin |-> fin, rsv |-> 0, opcode |-> opcode, mask |-> TRUE, payload |-> payload ]

(* The UTF-8 character << 195, 169 >> is cut in two by the frames of a     *)
(* message; 255 is no UTF-8.                                               *)
DataFrames ==
    { F(WSLAY_TEXT_FRAME, TRUE, << 65 >>),
      F(WSLAY_TEXT_FRAME, FALSE, << 65, 195 >>),
      F(WSLAY_TEXT_FRAME, TRUE, << 195, 169 >>),
      F(WSLAY_TEXT_FRAME, TRUE, << 66, 255 >>),
      F(WSLAY_BINARY_FRAME, FALSE, << >>),
      F(WSLAY_BINARY_FRAME, TRUE, << 255, 1, 2, 3 >>),
      F(WSLAY_CONTINUATION_FRAME, TRUE, << 169 >>),
      F(WSLAY_CONTINUATION_FRAME, FALSE, << 169, 66 >>),
      F(WSLAY_CONTINUATION_FRAME, TRUE, << >>) }

CtrlFrames ==
    { F(WSLAY_PING, TRUE, << 7, 8 >>),
      F(WSLAY_PING, TRUE, << >>),
      F(WSLAY_PONG, TRUE, << 9 >>),
      F(WSLAY_CONNECTION_CLOSE, TRUE, << >>),
      F(WSLAY_CONNECTION_CLOSE, TRUE, << 3 >>),
      F(WSLAY_CONNECTION_CLOSE, TRUE, << 3, 232, 66 >>),
      F(WSLAY_CONNECTION_CLOSE, TRUE, << 3, 234 >>),
      F(WSLAY_CONNECTION_CLOSE, TRUE, << 0, 1 >>) }

(* An unknown data opcode, an unknown control opcode, rsv set, no mask.    *)
BadFrames ==
    { F(3, TRUE, << 1 >>),
      F(11, TRUE, << >>),
      [ F(WSLAY_TEXT_FRAME, TRUE, << 65 >>) EXCEPT !.rsv = 4 ],
      [ F(WSLAY_PING, TRUE, << 7 >>) EXCEPT !.mask = FALSE ] }

AllFrames == DataFrames \cup CtrlFrames \cup BadFrames

(* A Close whose reason is one character of two bytes.                     *)
CloseFrames == { F(WSLAY_CONNECTION_CLOSE, TRUE, << 3, 232, 195, 169 >>),
                 F(WSLAY_CONNECTION_CLOSE, TRUE, << 3, 232, 65 >>) }
=============================================================================
