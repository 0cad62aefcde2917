---------------------------- MODULE MCFrameApi ----------------------------
(* TLC instance of FrameApi.                                               *)
EXTENDS FrameApi

(* A continuation frame and a control frame.                               *)
MCAppOpcodes == { WSLAY_CONTINUATION_FRAME, WSLAY_PING }
=============================================================================
