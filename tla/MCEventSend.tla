---------------------------- MODULE MCEventSend ----------------------------
(* TLC instances of the sending side.                                      *)
EXTENDS PeerView

DataAndPing == { WSLAY_TEXT_FRAME, WSLAY_PING }

(* wslay_event_queue_msg takes a Close too (event.h 384).                  *)
DataPingAndClose == DataAndPing \cup { WSLAY_CONNECTION_CLOSE }
=============================================================================
