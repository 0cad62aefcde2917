------------------------------- MODULE Wslay -------------------------------
(***************************************************************************)
(* The vocabulary every part of wslay shares: opcodes, error codes, status *)
(* codes and the limit of a control frame's payload (wslay.h).             *)
(*                                                                         *)
(* Numbers are the library's own, so that arithmetic on them (such as the  *)
(* control bit of an opcode) is the library's arithmetic.  The payload     *)
(* limit alone is a parameter: 125 in the code, a small number where TLC   *)
(* enumerates payloads.                                                    *)
(***************************************************************************)
EXTENDS Integers, Sequences

CONSTANT
    CtrlMax     \* largest payload of a control frame (125 in the code)

ASSUME CtrlMaxAssumption == CtrlMax \in Nat /\ CtrlMax >= 2

-----------------------------------------------------------------------------

WSLAY_CONTINUATION_FRAME == 0
WSLAY_TEXT_FRAME         == 1
WSLAY_BINARY_FRAME       == 2
WSLAY_CONNECTION_CLOSE   == 8
WSLAY_PING               == 9
WSLAY_PONG               == 10

(* The opcodes enum wslay_opcode names, and all a 4-bit field can hold.    *)
Opcodes == { WSLAY_CONTINUATION_FRAME, WSLAY_TEXT_FRAME, WSLAY_BINARY_FRAME,
             WSLAY_CONNECTION_CLOSE, WSLAY_PING, WSLAY_PONG }

(* #define wslay_is_ctrl_frame(opcode) ((opcode >> 3) & 1)                 *)
wslay_is_ctrl_frame(opcode) == (opcode \div 8) % 2 = 1

WSLAY_ERR_WANT_READ        == -100
WSLAY_ERR_WANT_WRITE       == -101
WSLAY_ERR_PROTO            == -200
WSLAY_ERR_INVALID_ARGUMENT == -300
WSLAY_ERR_INVALID_CALLBACK == -301
WSLAY_ERR_NO_MORE_MSG      == -302
WSLAY_ERR_CALLBACK_FAILURE == -400
WSLAY_ERR_WOULDBLOCK       == -401
WSLAY_ERR_NOMEM            == -500

(* The values wslay_event_set_error is documented to be called with, and   *)
(* the initial 0 of the error field.                                       *)
CallbackErrors == { 0, WSLAY_ERR_WOULDBLOCK, WSLAY_ERR_CALLBACK_FAILURE }

WSLAY_CODE_PROTOCOL_ERROR             == 1002
WSLAY_CODE_NO_STATUS_RCVD             == 1005
WSLAY_CODE_ABNORMAL_CLOSURE           == 1006
WSLAY_CODE_INVALID_FRAME_PAYLOAD_DATA == 1007
WSLAY_CODE_MESSAGE_TOO_BIG            == 1009

Byte == 0..255

(* A status code is a uint16_t.                                            *)
UINT16_MAX == 65535
StatusCode == 0..UINT16_MAX

(* A status code as the two bytes htons writes, and back (ntohs).          *)
htons(status) == << status \div 256, status % 256 >>
ntohs(data)   == 256 * data[1] + data[2]
=============================================================================
