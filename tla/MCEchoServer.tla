---------------------------- MODULE MCEchoServer ----------------------------
(* TLC instance of the echo server.  Its cfg has OutOfMemory = FALSE: what *)
(* EchoFaithful and EchoAccepted say holds as long as memory does not run  *)
(* out.                                                                    *)
EXTENDS EchoServer

F(opcode, fin, payload) ==
    [ fin |-> fin, rsv |-> 0, opcode |-> opcode, mask |-> TRUE, payload |-> payload ]

(* A text in one frame or in two, a Ping that may come between them, a     *)
(* Close with 1000 and one with 1005, which may not be sent, and a frame   *)
(* without a mask.                                                         *)
MCFrames ==
    { F(WSLAY_TEXT_FRAME, TRUE, << 65 >>),
      F(WSLAY_TEXT_FRAME, FALSE, << 66 >>),
      F(WSLAY_CONTINUATION_FRAME, TRUE, << 67 >>),
      F(WSLAY_PING, TRUE, << >>),
      F(WSLAY_CONNECTION_CLOSE, TRUE, << 3, 232 >>),
      F(WSLAY_CONNECTION_CLOSE, TRUE, << 3, 237 >>),
      [ F(WSLAY_PONG, TRUE, << >>) EXCEPT !.mask = FALSE ] }
=============================================================================
