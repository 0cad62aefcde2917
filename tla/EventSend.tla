----------------------------- MODULE EventSend -----------------------------
(***************************************************************************)
(* The sending half of wslay's event layer (event.c): wslay_event_send on  *)
(* top of wslay_frame_send, and the application that queues messages.      *)
(*                                                                         *)
(* wslay_event_send is a loop; one step of this specification is one       *)
(* iteration.  No local variable of the function survives an iteration, so *)
(* an iteration that ends in a break and one that goes round differ only   *)
(* in who runs next, and the application may queue between any two of      *)
(* them: from another callback, or between two calls.                      *)
(*                                                                         *)
(* obuf is the unsent part of the code's obuf, from obufmark to obuflimit. *)
(***************************************************************************)
EXTENDS EventQueue, FrameSend

CONSTANTS
    Server,        \* the context's server flag: a client masks its frames
    OBufSize,      \* sizeof(ctx->obuf)                     (4096 in the code)
    LazyEof,       \* the read callback reports EOF in a call of its own
    AppOpcodes,    \* opcodes passed to wslay_event_queue_msg
    AppStatus,     \* status codes passed to wslay_event_queue_close
    MaxMsgs,       \* bound on the number of messages queued
    MaxLen         \* bound on the length of a message or reason

ASSUME EventSendAssumption ==
    /\ Server \in BOOLEAN
    /\ LazyEof \in BOOLEAN
    /\ OBufSize \in Nat \ {0}
    /\ AppOpcodes \subseteq Opcodes \ {WSLAY_CONTINUATION_FRAME}
    /\ AppStatus \subseteq StatusCode
    /\ MaxMsgs \in 0..15
    /\ MaxLen \in 0..15

VARIABLES
    omsg,              \* the message being sent, or NoMsg
    obuf,
    opayloadlen,       \* of the frame being sent
    opayloadoff,
    status_code_sent

sendVars == << omsg, obuf, opayloadlen, opayloadoff, status_code_sent >>

vars == << write_enabled, close_status, error, ret, queueVars, frameVars,
           sendVars >>

-----------------------------------------------------------------------------

TypeOK ==
    /\ QueueTypeOK
    /\ FrameTypeOK
    /\ omsg \in OMsg
    /\ obuf \in Seq(Byte)
    /\ opayloadlen \in Nat
    /\ opayloadoff \in Nat
    /\ status_code_sent \in StatusCode

Init ==
    /\ QueueInit
    /\ FrameInit
    /\ omsg = NoMsg
    /\ obuf = << >>
    /\ opayloadlen = 0
    /\ opayloadoff = 0
    /\ status_code_sent = WSLAY_CODE_ABNORMAL_CLOSURE

-----------------------------------------------------------------------------
(* Which message is sent next *)

(* Mutant: the control queue is forgotten.                                 *)
WantWriteData == write_enabled /\ (send_queue # << >> \/ omsg # NoMsg)

(* wslay_event_want_write, and the condition of the loop.                  *)
wslay_event_want_write ==
    /\ write_enabled
    /\ send_queue # << >> \/ send_ctrl_queue # << >> \/ omsg # NoMsg

(* Mutants: the Close is dropped with what is in front of it; the control  *)
(* message queued last is taken first.                                     *)
PopPastClose ==
    IF "QUEUED" \in close_status
    THEN [ msg |-> NoMsg, rest |-> << >> ]
    ELSE [ msg |-> Head(send_ctrl_queue), rest |-> Tail(send_ctrl_queue) ]

PopNewest ==
    LET n == Len(send_ctrl_queue)
    IN  [ msg |-> send_ctrl_queue[n], rest |-> SubSeq(send_ctrl_queue, 1, n - 1) ]

(* wslay_event_send_ctrl_queue_pop: once a Close is queued, the control    *)
(* messages in front of it are dropped.                                    *)
wslay_event_send_ctrl_queue_pop ==
    LET q == send_ctrl_queue
        IsFirstClose(i) ==
            /\ q[i].opcode = WSLAY_CONNECTION_CLOSE
            /\ \A j \in 1..(i - 1) : q[j].opcode # WSLAY_CONNECTION_CLOSE
    IN  IF "QUEUED" \notin close_status
        THEN [ msg |-> Head(q), rest |-> Tail(q) ]
        ELSE IF \A i \in 1..Len(q) : q[i].opcode # WSLAY_CONNECTION_CLOSE
        THEN [ msg |-> NoMsg, rest |-> << >> ]
        ELSE LET i == CHOOSE i \in 1..Len(q) : IsFirstClose(i)
             IN  [ msg |-> q[i], rest |-> SubSeq(q, i + 1, Len(q)) ]

(* Mutants: a message gives way inside a frame; a fragmented one never     *)
(* gives way.                                                              *)
IsPreemptedInFrame ==
    /\ omsg # NoMsg
    /\ ~wslay_is_ctrl_frame(omsg.opcode)
    /\ send_ctrl_queue # << >>

IsPreemptedIfWhole ==
    /\ omsg # NoMsg
    /\ omsg.type = "NON_FRAGMENTED"
    /\ ~wslay_is_ctrl_frame(omsg.opcode)
    /\ frame_ctx.ostate = "PREP_HEADER"
    /\ send_ctrl_queue # << >>

(* A data message gives way to a control message between two frames.       *)
IsPreempted ==
    /\ omsg # NoMsg
    /\ ~wslay_is_ctrl_frame(omsg.opcode)
    /\ frame_ctx.ostate = "PREP_HEADER"
    /\ send_ctrl_queue # << >>

(* The context once msg is taken from a queue, what remains of the queues  *)
(* being sq and cq (wslay_event_on_non_fragmented_msg_popped).             *)
Popped(msg, sq, cq) ==
    [ omsg |-> msg, send_queue |-> sq, send_ctrl_queue |-> cq,
      opayloadlen |-> IF msg.type = "NON_FRAGMENTED" THEN Len(msg.data)
                      ELSE opayloadlen,
      opayloadoff |-> IF msg.type = "NON_FRAGMENTED" THEN 0 ELSE opayloadoff ]

(* What the first half of an iteration leaves to send.                     *)
Selected ==
    IF omsg = NoMsg /\ send_ctrl_queue = << >>
    THEN Popped(Head(send_queue), Tail(send_queue), send_ctrl_queue)
    ELSE IF omsg = NoMsg \/ IsPreempted
    THEN LET pop == wslay_event_send_ctrl_queue_pop
         IN  Popped(pop.msg,
                    IF IsPreempted THEN << omsg >> \o send_queue ELSE send_queue,
                    pop.rest)
    ELSE [ omsg |-> omsg, send_queue |-> send_queue,
           send_ctrl_queue |-> send_ctrl_queue,
           opayloadlen |-> opayloadlen, opayloadoff |-> opayloadoff ]

-----------------------------------------------------------------------------
(* Mutant: the frame layer's own error is recorded as the callback's.      *)
KeepResult(s, o) ==
    /\ send_queue' = s.send_queue
    /\ send_ctrl_queue' = s.send_ctrl_queue
    /\ opayloadlen' = s.opayloadlen
    /\ frame_ctx' = o.fc
    /\ wire' = o.wire
    /\ error' = o.result
    /\ UNCHANGED accepted

(* How an iteration ends.  s is what was selected, buf the unsent bytes of *)
(* a fragmented message, o the outcome of wslay_frame_send.                *)

Keep(s, o) ==
    /\ send_queue' = s.send_queue
    /\ send_ctrl_queue' = s.send_ctrl_queue
    /\ opayloadlen' = s.opayloadlen
    /\ frame_ctx' = o.fc
    /\ wire' = o.wire
    /\ error' \in IF o.failed
                  THEN {error, WSLAY_ERR_WOULDBLOCK, WSLAY_ERR_CALLBACK_FAILURE}
                  ELSE {error}
    /\ UNCHANGED accepted

(* Mutant: every fragment is counted as a message.                         *)
SentPartlyCounted(s, buf, off) ==
    /\ omsg' = s.omsg
    /\ obuf' = buf
    /\ opayloadoff' = off
    /\ ret' = 0
    /\ queued_msg_count' = queued_msg_count - 1
    /\ UNCHANGED << write_enabled, close_status, status_code_sent,
                    queued_msg_length >>

(* The rest of the message waits for the next iteration.                   *)
SentPartly(s, buf, off) ==
    /\ omsg' = s.omsg
    /\ obuf' = buf
    /\ opayloadoff' = off
    /\ ret' = 0
    /\ UNCHANGED << write_enabled, close_status, status_code_sent,
                    queued_msg_count, queued_msg_length >>

(* Mutants: writing goes on after a Close; the status code of a Close      *)
(* without a reason is overlooked.                                         *)
SentWholeStaysOpen(s, buf, off) ==
    /\ omsg' = NoMsg
    /\ obuf' = buf
    /\ opayloadoff' = off
    /\ ret' = 0
    /\ queued_msg_count' = queued_msg_count - 1
    /\ queued_msg_length' = queued_msg_length - Len(s.omsg.data)
    /\ UNCHANGED << write_enabled, close_status, status_code_sent >>

SentWholeReasonOnly(s, buf, off) ==
    /\ omsg' = NoMsg
    /\ obuf' = buf
    /\ opayloadoff' = off
    /\ ret' = 0
    /\ queued_msg_count' = queued_msg_count - 1
    /\ queued_msg_length' = queued_msg_length - Len(s.omsg.data)
    /\ IF s.omsg.opcode = WSLAY_CONNECTION_CLOSE
       THEN /\ write_enabled' = FALSE
            /\ close_status' = close_status \cup {"SENT"}
            /\ status_code_sent' = IF Len(s.omsg.data) > 2 THEN ntohs(s.omsg.data)
                                   ELSE WSLAY_CODE_NO_STATUS_RCVD
       ELSE UNCHANGED << write_enabled, close_status, status_code_sent >>

(* A message is done; if it is a Close, so is the sending direction.       *)
SentWhole(s, buf, off) ==
    /\ omsg' = NoMsg
    /\ obuf' = buf
    /\ opayloadoff' = off
    /\ ret' = 0
    /\ queued_msg_count' = queued_msg_count - 1
    /\ queued_msg_length' = queued_msg_length - Len(s.omsg.data)
    /\ IF s.omsg.opcode = WSLAY_CONNECTION_CLOSE
       THEN /\ write_enabled' = FALSE
            /\ close_status' = close_status \cup {"SENT"}
            /\ status_code_sent' =
                 IF Len(s.omsg.data) >= 2 /\ ntohs(s.omsg.data) # 0
                 THEN ntohs(s.omsg.data) ELSE WSLAY_CODE_NO_STATUS_RCVD
       ELSE UNCHANGED << write_enabled, close_status, status_code_sent >>

(* wslay_frame_send did not send: wait, or give up if a callback failed    *)
(* (error is what the callbacks last set, in this call or an earlier one). *)
NotSent(s, buf, result) ==
    /\ omsg' = s.omsg
    /\ obuf' = buf
    /\ opayloadoff' = s.opayloadoff
    /\ IF result # WSLAY_ERR_WANT_WRITE \/ error' \notin {0, WSLAY_ERR_WOULDBLOCK}
       THEN write_enabled' = FALSE /\ ret' = WSLAY_ERR_CALLBACK_FAILURE
       ELSE write_enabled' = write_enabled /\ ret' = 0
    /\ UNCHANGED << close_status, status_code_sent,
                    queued_msg_count, queued_msg_length >>

-----------------------------------------------------------------------------

SendNonFragmented(s) ==
    LET data == SubSeq(s.omsg.data, s.opayloadoff + 1, s.opayloadlen)
        iocb == Iocb(TRUE, s.omsg.opcode, ~Server, s.opayloadlen, data)
    IN  \E o \in wslay_frame_send(frame_ctx, wire, iocb) :
          /\ Keep(s, o)
          /\ IF o.result # 0 THEN NotSent(s, obuf, o.result)
             ELSE IF s.opayloadoff + o.length = s.opayloadlen
             THEN SentWhole(s, obuf, s.opayloadoff + o.length)
             ELSE SentPartly(s, obuf, s.opayloadoff + o.length)

(* Mutants of SendFragment: every frame keeps the opcode of the first; a   *)
(* partly sent buffer is sent again from its beginning; the final fragment *)
(* does not end the message.                                               *)
SendFragmentSameOpcode(s, buf) ==
    LET iocb == Iocb(s.omsg.fin, s.omsg.opcode, ~Server, s.opayloadlen, buf)
    IN  \E o \in wslay_frame_send(frame_ctx, wire, iocb) :
          /\ Keep(s, o)
          /\ IF o.result # 0 THEN NotSent(s, buf, o.result)
             ELSE IF o.length < Len(buf)
             THEN SentPartly(s, SubSeq(buf, o.length + 1, Len(buf)), s.opayloadoff)
             ELSE IF s.omsg.fin THEN SentWhole(s, << >>, s.opayloadoff)
             ELSE SentPartly(s, << >>, s.opayloadoff)

SendFragmentAgain(s, buf) ==
    LET iocb == Iocb(s.omsg.fin, s.omsg.opcode, ~Server, s.opayloadlen, buf)
    IN  \E o \in wslay_frame_send(frame_ctx, wire, iocb) :
          /\ Keep(s, o)
          /\ IF o.result # 0 THEN NotSent(s, buf, o.result)
             ELSE IF o.length < Len(buf) THEN SentPartly(s, buf, s.opayloadoff)
             ELSE IF s.omsg.fin THEN SentWhole(s, << >>, s.opayloadoff)
             ELSE SentPartly([ s EXCEPT !.omsg.opcode = WSLAY_CONTINUATION_FRAME ],
                             << >>, s.opayloadoff)

SendFragmentOnAndOn(s, buf) ==
    LET iocb == Iocb(s.omsg.fin, s.omsg.opcode, ~Server, s.opayloadlen, buf)
    IN  \E o \in wslay_frame_send(frame_ctx, wire, iocb) :
          /\ Keep(s, o)
          /\ IF o.result # 0 THEN NotSent(s, buf, o.result)
             ELSE SentPartly([ s EXCEPT !.omsg.opcode = WSLAY_CONTINUATION_FRAME ],
                             SubSeq(buf, o.length + 1, Len(buf)), s.opayloadoff)

(* Send a frame with the bytes in buf.  The frames after the first of a    *)
(* message are continuations.                                              *)
SendFragment(s, buf) ==
    LET iocb == Iocb(s.omsg.fin, s.omsg.opcode, ~Server, s.opayloadlen, buf)
    IN  \E o \in wslay_frame_send(frame_ctx, wire, iocb) :
          /\ Keep(s, o)
          /\ IF o.result # 0 THEN NotSent(s, buf, o.result)
             ELSE IF o.length < Len(buf)
             THEN SentPartly(s, SubSeq(buf, o.length + 1, Len(buf)), s.opayloadoff)
             ELSE IF s.omsg.fin THEN SentWhole(s, << >>, s.opayloadoff)
             ELSE SentPartly([ s EXCEPT !.omsg.opcode = WSLAY_CONTINUATION_FRAME ],
                             << >>, s.opayloadoff)

(* The application's read callback: it delivers the next n bytes of its    *)
(* source, and says so when they are the last (unless it is lazy and says  *)
(* so in a later call that delivers nothing), has none at the moment, or   *)
(* fails.                                                                  *)
ReadCallback(source) ==
    { [ data |-> SubSeq(source, 1, n), eof |-> n = Len(source) /\ ~LazyEof,
        rest |-> SubSeq(source, n + 1, Len(source)) ] :
      n \in { n \in 1..OBufSize : n <= Len(source) } }

ReadNothing(s) ==
    /\ omsg' = s.omsg
    /\ send_queue' = s.send_queue
    /\ send_ctrl_queue' = s.send_ctrl_queue
    /\ opayloadlen' = s.opayloadlen
    /\ opayloadoff' = s.opayloadoff
    /\ \/ ret' = 0 /\ UNCHANGED << write_enabled, error >>
       \/ /\ ret' = WSLAY_ERR_CALLBACK_FAILURE
          /\ write_enabled' = FALSE
          /\ error' \in {error, WSLAY_ERR_CALLBACK_FAILURE}
    /\ UNCHANGED << close_status, queued_msg_count, queued_msg_length, accepted,
                    frameVars, obuf, status_code_sent >>

SendFragmented(s) ==
    IF ~s.omsg.fin /\ obuf = << >>
    THEN \/ ReadNothing(s)
         \/ \E in \in ReadCallback(s.omsg.source) :
              \E t \in { [ s EXCEPT !.omsg.fin = in.eof, !.omsg.source = in.rest,
                                    !.opayloadlen = Len(in.data),
                                    !.opayloadoff = 0 ] } :
                SendFragment(t, in.data)
    ELSE SendFragment(s, obuf)

(* The control queue held nothing that may be sent.                        *)
NothingSelected(s) ==
    /\ omsg' = NoMsg
    /\ send_queue' = s.send_queue
    /\ send_ctrl_queue' = s.send_ctrl_queue
    /\ ret' = 0
    /\ UNCHANGED << write_enabled, close_status, error, queued_msg_count,
                    queued_msg_length, accepted, frameVars, obuf, opayloadlen,
                    opayloadoff, status_code_sent >>

-----------------------------------------------------------------------------
(* The actions *)

(* An iteration of wslay_event_send.                                       *)
wslay_event_send ==
    /\ wslay_event_want_write
    /\ \E s \in {Selected} :
         CASE s.omsg.type = "NULL"           -> NothingSelected(s)
           [] s.omsg.type = "NON_FRAGMENTED" -> SendNonFragmented(s)
           [] s.omsg.type = "FRAGMENTED"     -> SendFragmented(s)

(* The iteration in which the preempted message cannot be put back.        *)
PushFrontFails ==
    /\ wslay_event_want_write
    /\ IsPreempted
    /\ OutOfMemory
    /\ write_enabled' = FALSE
    /\ ret' = 1
    /\ UNCHANGED << close_status, error, queueVars, frameVars, sendVars >>

(* Payload bytes tell which message they belong to and where.              *)
NewPayload(len) == [ i \in 1..len |-> 16 * Len(accepted) + i - 1 ]

QueueMsg ==
    /\ Len(accepted) < MaxMsgs
    /\ \E opcode \in AppOpcodes, len \in 0..MaxLen, r \in QueueReturns :
         /\ wslay_event_queue_msg(opcode, NewPayload(len), r)
         /\ ret' = r
    /\ UNCHANGED << write_enabled, close_status, error, frameVars, sendVars >>

(* A message of length 0 has nothing for a read callback that reports EOF  *)
(* with the last byte.                                                     *)
QueueFragmentedMsg ==
    /\ Len(accepted) < MaxMsgs
    /\ \E opcode \in AppOpcodes, len \in 1..MaxLen, r \in QueueReturns :
         /\ wslay_event_queue_fragmented_msg(opcode, NewPayload(len), r)
         /\ ret' = r
    /\ UNCHANGED << write_enabled, close_status, error, frameVars, sendVars >>

QueueClose ==
    /\ Len(accepted) < MaxMsgs
    /\ \E status \in AppStatus, len \in 0..MaxLen, r \in QueueReturns :
         /\ wslay_event_queue_close(close_status, status, NewPayload(len), r)
         /\ ret' = r
    /\ UNCHANGED << write_enabled, error, frameVars, sendVars >>

wslay_event_shutdown_write ==
    /\ write_enabled
    /\ write_enabled' = FALSE
    /\ UNCHANGED << close_status, error, ret, queueVars, frameVars, sendVars >>

Next == \/ wslay_event_send
        \/ PushFrontFails
        \/ QueueMsg
        \/ QueueFragmentedMsg
        \/ QueueClose
        \/ wslay_event_shutdown_write

Spec == Init /\ [][Next]_vars

(* The application calls wslay_event_send as long as wslay_event_want_write*)
(* says so, the socket takes bytes again and again, and the read callback  *)
(* has data again and again.                                               *)
SendProgress == wslay_event_send /\ wire' # wire

FairSpec == Spec /\ WF_vars(SendProgress)

-----------------------------------------------------------------------------
(* Correctness *)

Pending == Len(send_queue) + Len(send_ctrl_queue)
           + (IF omsg = NoMsg THEN 0 ELSE 1)

IsClose(msg) == msg.type # "NULL" /\ msg.opcode = WSLAY_CONNECTION_CLOSE

(* The event layer and the frame layer keep offsets of their own for the   *)
(* same frame (event.c 564-575 and 616-628, frame.c 89-164).  Between two  *)
(* iterations they agree: outside a frame, either nothing is being sent or *)
(* a fragmented message waits for its next fragment with an empty obuf;    *)
(* inside one, the header being sent is that of omsg and the bytes the     *)
(* event layer has left are those the frame layer expects.                 *)
InSync(msg, buf, len, off, fc) ==
    IF fc.ostate = "PREP_HEADER"
    THEN /\ buf = << >>
         /\ msg # NoMsg => msg.type = "FRAGMENTED" /\ ~msg.fin
    ELSE /\ msg.type # "NULL"
         /\ fc.oheader = [ fin |-> msg.fin, opcode |-> msg.opcode,
                           mask |-> ~Server, payload_length |-> len ]
         /\ fc.opayloadlen = len
         /\ IF msg.type = "NON_FRAGMENTED"
            THEN /\ buf = << >>
                 /\ len = Len(msg.data)
                 /\ fc.opayloadoff = off
                 /\ off <= len
            ELSE /\ buf # << >>
                 /\ fc.opayloadoff + Len(buf) = len

LayersInSync ==
    write_enabled => InSync(omsg, obuf, opayloadlen, opayloadoff, frame_ctx)

(* A queue holds the messages of its kind only (event.c 220-225, 547): the *)
(* control queue short unfragmented control messages, the other one data   *)
(* messages, of which a fragmented one put back there (event.c 548) still  *)
(* has a final fragment to come.                                           *)
IsControlItem(m) ==
    /\ wslay_is_ctrl_frame(m.opcode)
    /\ m.type = "NON_FRAGMENTED" /\ m.fin
    /\ Len(m.data) <= CtrlMax

IsDataItem(m) ==
    /\ ~wslay_is_ctrl_frame(m.opcode)
    /\ \/ m.type = "NON_FRAGMENTED" /\ m.fin
       \/ m.type = "FRAGMENTED" /\ ~m.fin /\ m.data = << >>

IsCurrentItem(m) ==
    \/ m = NoMsg
    \/ m.type = "NON_FRAGMENTED" /\ m.fin
    \/ m.type = "FRAGMENTED" /\ ~wslay_is_ctrl_frame(m.opcode) /\ m.data = << >>

QueuesWellFormed ==
    /\ \A i \in 1..Len(send_ctrl_queue) : IsControlItem(send_ctrl_queue[i])
    /\ \A i \in 1..Len(send_queue) : IsDataItem(send_queue[i])
    /\ IsCurrentItem(omsg)

(* RFC 6455: "The application MUST NOT send any more data frames after     *)
(* sending a Close frame".  A Close is the last frame on the wire, and as  *)
(* long as writing is enabled it is the message being sent and its frame   *)
(* is under way (event.c 571-577).                                         *)
CloseIsLast ==
    \A i \in 1..Len(wire) :
        wire[i].header.opcode = WSLAY_CONNECTION_CLOSE =>
            /\ i = Len(wire)
            /\ write_enabled => IsClose(omsg) /\ IsUnderWay(frame_ctx)

(* Once a Close is queued it stays in the control queue or is being sent   *)
(* as long as writing is enabled: wslay_event_send_ctrl_queue_pop (event.c *)
(* 501-523) never runs past it, and wslay_event_send never finds the       *)
(* control queue without a message to send (event.c 538-540, 552-554).     *)
CloseNotLost ==
    write_enabled /\ "QUEUED" \in close_status =>
        IsClose(omsg) \/ \E i \in 1..Len(send_ctrl_queue) : IsClose(send_ctrl_queue[i])

(* wslay_event_get_queued_msg_count counts the messages queued or being    *)
(* sent until a queued Close is selected; from then on it may only be too  *)
(* high, never negative (a size_t that wraps, event.c 572 and 630).        *)
CountInv ==
    /\ queued_msg_count >= Pending
    /\ ~(IsClose(omsg) \/ "SENT" \in close_status) => queued_msg_count = Pending

(* Once wslay_event_queue_close has queued a Close nothing more is         *)
(* accepted (event.c 186-200, event.h 308-311).  A Close that was queued   *)
(* with wslay_event_queue_msg, which event.h 384 allows, is no such        *)
(* barrier: only queue_close records it in close_status.                   *)
QueuedCloseIsLast ==
    "QUEUED" \in close_status =>
        /\ accepted # << >>
        /\ accepted[Len(accepted)].opcode = WSLAY_CONNECTION_CLOSE

(* Once a Close is queued, the only frame that may still begin is the      *)
(* Close or, if it was already under way, none: a step appends to the wire *)
(* only a Close (event.c 501-523, 545-558).                                *)
OnlyCloseBegins ==
    [][ "QUEUED" \in close_status /\ Len(wire') > Len(wire) =>
          \/ wire'[Len(wire')].header.opcode = WSLAY_CONNECTION_CLOSE
          \/ omsg # NoMsg /\ frame_ctx.ostate = "SEND_HEADER" ]_vars

(* A queued Close is sent, or writing is disabled, whatever data messages  *)
(* are queued before it.                                                   *)
CloseIsSent == "QUEUED" \in close_status ~> ~write_enabled

(* Everything queued is sent, or writing is disabled.                      *)
QueueDrains == wslay_event_want_write ~> ~wslay_event_want_write
=============================================================================
