----------------------------- MODULE EventQueue -----------------------------
(***************************************************************************)
(* The fields of wslay_event_context that sending and receiving share, and *)
(* the operations that put messages on the send queues (event.c):          *)
(* wslay_event_queue_msg, wslay_event_queue_fragmented_msg,                *)
(* wslay_event_queue_close.                                                *)
(*                                                                         *)
(* An operation is an action parameterised by the value r it returns.  It  *)
(* constrains queueVars; queue_close constrains close_status too, because  *)
(* it alone changes it.  Payload bytes are modelled as bytes; talloc may   *)
(* fail at any allocation when OutOfMemory is TRUE.                        *)
(***************************************************************************)
EXTENDS Wslay

CONSTANT OutOfMemory    \* may an allocation fail?

ASSUME OutOfMemoryAssumption == OutOfMemory \in BOOLEAN

VARIABLES
    write_enabled,
    close_status,         \* the bits WSLAY_CLOSE_*, as a set
    error,                \* set by callbacks with wslay_event_set_error
    send_queue,
    send_ctrl_queue,
    queued_msg_count,
    queued_msg_length,
    ret,                  \* what the last call into the library returned
    accepted              \* history: every message queued successfully

queueVars == << send_queue, send_ctrl_queue, queued_msg_count,
                queued_msg_length, accepted >>

-----------------------------------------------------------------------------

CloseStatus == { "RECEIVED", "QUEUED", "SENT" }

MsgType == { "NULL", "NON_FRAGMENTED", "FRAGMENTED" }

(* struct wslay_event_omsg.  data_length is Len(data); source is what the  *)
(* read callback of a fragmented message still has to produce.             *)
OMsg == [ type : MsgType, fin : BOOLEAN, opcode : Opcodes,
          data : Seq(Byte), source : Seq(Byte) ]

(* NULL where the code has a pointer to a message.                         *)
NoMsg == [ type |-> "NULL", fin |-> FALSE, opcode |-> WSLAY_CONTINUATION_FRAME,
           data |-> << >>, source |-> << >> ]

(* wslay_event_omsg_non_fragmented_new, wslay_event_omsg_fragmented_new    *)
omsg_non_fragmented_new(opcode, msg) ==
    [ type |-> "NON_FRAGMENTED", fin |-> TRUE, opcode |-> opcode,
      data |-> msg, source |-> << >> ]

omsg_fragmented_new(opcode, source) ==
    [ type |-> "FRAGMENTED", fin |-> FALSE, opcode |-> opcode,
      data |-> << >>, source |-> source ]

QueueTypeOK ==
    /\ write_enabled \in BOOLEAN
    /\ close_status \in SUBSET CloseStatus
    /\ error \in CallbackErrors
    /\ send_queue \in Seq(OMsg)
    /\ send_ctrl_queue \in Seq(OMsg)
    /\ queued_msg_count \in Int
    /\ queued_msg_length \in Int
    /\ ret \in Int
    /\ accepted \in Seq(OMsg)

(* The part of wslay_event_context_new these fields belong to.             *)
QueueInit ==
    /\ write_enabled = TRUE
    /\ close_status = {}
    /\ error = 0
    /\ send_queue = << >>
    /\ send_ctrl_queue = << >>
    /\ queued_msg_count = 0
    /\ queued_msg_length = 0
    /\ ret = 0
    /\ accepted = << >>

-----------------------------------------------------------------------------

(* Mutant: the test of write_enabled alone.                                *)
QueueableWhileWriting == write_enabled

wslay_event_is_msg_queueable == write_enabled /\ "QUEUED" \notin close_status

(* Push omsg on its queue and count it.                                    *)
Enqueue(omsg) ==
    /\ IF wslay_is_ctrl_frame(omsg.opcode)
       THEN /\ send_ctrl_queue' = Append(send_ctrl_queue, omsg)
            /\ UNCHANGED send_queue
       ELSE /\ send_queue' = Append(send_queue, omsg)
            /\ UNCHANGED send_ctrl_queue
    /\ queued_msg_count' = queued_msg_count + 1
    /\ queued_msg_length' = queued_msg_length + Len(omsg.data)
    /\ accepted' = Append(accepted, omsg)

(* What a queue operation may return: -1 when the message cannot be        *)
(* allocated, 1 when its queue cell cannot.                                *)
QueueReturns == { 0, -1, 1, 2, WSLAY_ERR_NO_MORE_MSG, WSLAY_ERR_INVALID_ARGUMENT }

MsgRefusal(opcode, msg, r) ==
    \/ /\ ~wslay_event_is_msg_queueable
       /\ r = WSLAY_ERR_NO_MORE_MSG
    \/ /\ wslay_event_is_msg_queueable
       /\ wslay_is_ctrl_frame(opcode) /\ Len(msg) > CtrlMax
       /\ r = WSLAY_ERR_INVALID_ARGUMENT
    \/ /\ wslay_event_is_msg_queueable
       /\ ~(wslay_is_ctrl_frame(opcode) /\ Len(msg) > CtrlMax)
       /\ OutOfMemory
       /\ r \in {-1, 1}

wslay_event_queue_msg(opcode, msg, r) ==
    \/ /\ MsgRefusal(opcode, msg, r)
       /\ UNCHANGED queueVars
    \/ /\ wslay_event_is_msg_queueable
       /\ ~(wslay_is_ctrl_frame(opcode) /\ Len(msg) > CtrlMax)
       /\ r = 0
       /\ Enqueue(omsg_non_fragmented_new(opcode, msg))

wslay_event_queue_fragmented_msg(opcode, source, r) ==
    \/ /\ ~wslay_event_is_msg_queueable
       /\ r = WSLAY_ERR_NO_MORE_MSG
       /\ UNCHANGED queueVars
    \/ /\ wslay_event_is_msg_queueable
       /\ wslay_is_ctrl_frame(opcode)
       /\ r = WSLAY_ERR_INVALID_ARGUMENT
       /\ UNCHANGED queueVars
    \/ /\ wslay_event_is_msg_queueable
       /\ ~wslay_is_ctrl_frame(opcode)
       /\ OutOfMemory
       /\ r = -1
       /\ UNCHANGED queueVars
    \/ /\ wslay_event_is_msg_queueable
       /\ ~wslay_is_ctrl_frame(opcode)
       /\ r = 0
       /\ Enqueue(omsg_fragmented_new(opcode, source))

(* The body of a Close frame: empty, or the status code and the reason.    *)
CloseBody(status, reason) ==
    IF status = 0 THEN << >> ELSE htons(status) \o reason

(* cs is close_status as the caller leaves it when the call begins.        *)
wslay_event_queue_close(cs, status, reason, r) ==
    \/ /\ ~wslay_event_is_msg_queueable
       /\ r = 1
       /\ close_status' = cs
       /\ UNCHANGED queueVars
    \/ /\ wslay_event_is_msg_queueable
       /\ Len(reason) > CtrlMax - 2
       /\ r = 2
       /\ close_status' = cs
       /\ UNCHANGED queueVars
    \/ /\ wslay_event_is_msg_queueable
       /\ Len(reason) <= CtrlMax - 2
       /\ wslay_event_queue_msg(WSLAY_CONNECTION_CLOSE, CloseBody(status, reason), r)
       /\ close_status' = IF r = 0 THEN cs \cup {"QUEUED"} ELSE cs
=============================================================================
