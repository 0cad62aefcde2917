----------------------------- MODULE EventRecv -----------------------------
(***************************************************************************)
(* The receiving half of wslay's event layer (event.c): wslay_event_recv,  *)
(* which reassembles messages from frames, checks them, hands them to the  *)
(* application and queues the Pongs and the Close it owes the peer.        *)
(*                                                                         *)
(* One step is one iteration of its loop: one chunk of one frame.  The     *)
(* stages of an iteration are operators on rx, the receiving fields of the *)
(* context; each way out of the iteration is an action that ends them.     *)
(*                                                                         *)
(* wslay_event_imsg_reset frees the queue of chunks of the slot it resets  *)
(* and leaves the pointer in place.  What a later use of that memory does  *)
(* is undefined: here the process crashes or goes on as if the queue were  *)
(* there and empty, and heap records that it happened.                     *)
(***************************************************************************)
EXTENDS EventQueue, FrameSource, Utf8

CONSTANTS
    Server,                \* the context's server flag
    Configs,               \* how the application may set up the context
    max_recv_msg_length,
    AppStatus              \* status codes the application closes with

(* no_buffering: WSLAY_CONFIG_NO_BUFFERING is set before the first call of *)
(* wslay_event_recv; on_msg_recv: on_msg_recv_callback is not NULL.        *)
Config == [ no_buffering : BOOLEAN, on_msg_recv : BOOLEAN ]

ASSUME EventRecvAssumption ==
    /\ Server \in BOOLEAN
    /\ Configs \subseteq Config
    /\ max_recv_msg_length \in Nat
    /\ AppStatus \subseteq StatusCode

VARIABLES
    config,                \* chosen once, from Configs
    read_enabled,
    rx,                    \* imsgs, imsg, ipayloadlen, ipayloadoff; and how
                           \* often the frame callbacks were called
    status_code_recv,
    delivered,             \* history: the calls of on_msg_recv_callback
    readShut,              \* history: the application shut reading down
    heap                   \* "sound", "misused" or "crashed"

recvVars == << config, read_enabled, rx, status_code_recv, delivered, readShut >>

vars == << write_enabled, close_status, error, ret, queueVars, source,
           recvVars, heap >>

-----------------------------------------------------------------------------

NoOpcode == 255            \* 0xff: the slot holds no message

Uninit == -1               \* a byte of an allocation not yet written

(* struct wslay_event_imsg.  freed says that chunks points to freed memory.*)
Imsg == [ fin : BOOLEAN, opcode : 0..255, utf8state : Utf8States,
          chunks : Seq(Seq({Uninit} \cup Byte)), msg_length : Nat, freed : BOOLEAN ]

NewImsg == [ fin |-> FALSE, opcode |-> NoOpcode, utf8state |-> UTF8_ACCEPT,
             chunks |-> << >>, msg_length |-> 0, freed |-> FALSE ]

Rx == [ imsgs : [ 0..1 -> Imsg ], imsg : 0..1, ipayloadlen : Nat,
        ipayloadoff : Nat, starts : Nat, ends : Nat ]

TypeOK ==
    /\ QueueTypeOK
    /\ SourceTypeOK
    /\ config \in Config
    /\ read_enabled \in BOOLEAN
    /\ rx \in Rx
    /\ status_code_recv \in StatusCode
    /\ delivered \in Seq([ opcode : Opcodes, msg : Seq(Byte), status_code : StatusCode ])
    /\ readShut \in BOOLEAN
    /\ heap \in { "sound", "misused", "crashed" }

Init ==
    /\ QueueInit
    /\ SourceInit
    /\ config \in Configs
    /\ read_enabled = TRUE
    /\ rx = [ imsgs |-> [ i \in 0..1 |-> NewImsg ], imsg |-> 0,
              ipayloadlen |-> 0, ipayloadoff |-> 0, starts |-> 0, ends |-> 0 ]
    /\ status_code_recv = WSLAY_CODE_ABNORMAL_CLOSURE
    /\ delivered = << >>
    /\ readShut = FALSE
    /\ heap = "sound"

-----------------------------------------------------------------------------
(* The stages of an iteration *)

Msg(x) == x.imsgs[x.imsg]

(* The control frames that may come between the frames of a message.       *)
KnownCtrl == { WSLAY_CONNECTION_CLOSE, WSLAY_PING, WSLAY_PONG }

(* Only rsv = 0, and masked frames exactly from a client.                  *)
IsMalformed(iocb) == iocb.rsv # 0 \/ iocb.mask # Server

AtFrameStart(x) == x.ipayloadlen = 0 /\ x.ipayloadoff = 0

IsNewFrame(x) == Msg(x).opcode = NoOpcode \/ AtFrameStart(x)

(* Mutant: a message may begin inside another.                             *)
IsOutOfPlaceAtStart(x, iocb) ==
    /\ Msg(x).opcode = NoOpcode
    /\ iocb.opcode \notin {WSLAY_TEXT_FRAME, WSLAY_BINARY_FRAME} \cup KnownCtrl

(* A continuation of nothing, a message inside a message, an unknown       *)
(* opcode.                                                                 *)
IsOutOfPlace(x, iocb) ==
    IF Msg(x).opcode = NoOpcode
    THEN iocb.opcode \notin {WSLAY_TEXT_FRAME, WSLAY_BINARY_FRAME} \cup KnownCtrl
    ELSE AtFrameStart(x) /\ iocb.opcode \notin {WSLAY_CONTINUATION_FRAME} \cup KnownCtrl

(* Mutant: the length of the slot's previous message is kept.              *)
ImsgSetKeepsLength(m, iocb) == [ m EXCEPT !.fin = iocb.fin, !.opcode = iocb.opcode ]

(* wslay_event_imsg_set *)
imsg_set(m, iocb) ==
    [ m EXCEPT !.fin = iocb.fin, !.opcode = iocb.opcode, !.msg_length = 0 ]

(* The slot the frame belongs to is made current.                          *)
Open(x, iocb) ==
    IF Msg(x).opcode = NoOpcode
    THEN [ x EXCEPT !.imsgs[x.imsg] = imsg_set(@, iocb) ]
    ELSE IF ~AtFrameStart(x) THEN x
    ELSE IF iocb.opcode = WSLAY_CONTINUATION_FRAME
    THEN [ x EXCEPT !.imsgs[x.imsg].fin = iocb.fin ]
    ELSE [ x EXCEPT !.imsg = 1, !.imsgs[1] = imsg_set(@, iocb) ]

(* Mutant: each frame is measured by itself.                               *)
IsFrameTooBig(x, iocb) == iocb.payload_length > max_recv_msg_length

IsTooBig(x, iocb) == Msg(x).msg_length + iocb.payload_length > max_recv_msg_length

IsBuffered(iocb) == ~config.no_buffering \/ wslay_is_ctrl_frame(iocb.opcode)

(* wslay_event_imsg_append_chunk: room for the payload of the frame.       *)
AppendChunk(m, len) ==
    IF len = 0 THEN m
    ELSE [ m EXCEPT !.chunks = Append(@, [ i \in 1..len |-> Uninit ]),
                    !.msg_length = @ + len ]

StartFrame(x, iocb) ==
    [ x EXCEPT !.ipayloadlen = iocb.payload_length,
               !.starts = @ + 1,
               !.imsgs[x.imsg] = IF IsBuffered(iocb)
                                 THEN AppendChunk(@, iocb.payload_length) ELSE @ ]

IsUtf8Checked(m) == m.opcode \in {WSLAY_TEXT_FRAME, WSLAY_CONNECTION_CLOSE}

(* Mutant: every chunk of a final frame must end with a character.         *)
CheckUtf8AtChunkEnd(x, iocb) ==
    LET skip == IF Msg(x).opcode = WSLAY_CONNECTION_CLOSE THEN 2 ELSE 0
        text == SubSeq(iocb.data, skip + 1, Len(iocb.data))
        u == DecodeAll(Msg(x).utf8state, text)
    IN  IF IsUtf8Checked(Msg(x))
        THEN [ x EXCEPT !.imsgs[x.imsg].utf8state =
                   IF iocb.fin /\ u # UTF8_ACCEPT THEN UTF8_REJECT ELSE u ]
        ELSE x

(* The first two bytes of a chunk of a Close frame are not looked at.      *)
CheckUtf8(x, iocb) ==
    LET skip == IF Msg(x).opcode = WSLAY_CONNECTION_CLOSE THEN 2 ELSE 0
        text == SubSeq(iocb.data, skip + 1, Len(iocb.data))
    IN  IF IsUtf8Checked(Msg(x))
        THEN [ x EXCEPT !.imsgs[x.imsg].utf8state = DecodeAll(@, text) ]
        ELSE x

(* Mutant: each chunk is copied to the start of the frame's payload.       *)
CopyIntoStart(chunk, off, data) ==
    [ i \in 1..Len(chunk) |->
        IF i \in 1..Len(data) THEN data[i] ELSE chunk[i] ]

(* memcpy to the last chunk, at ipayloadoff.                               *)
CopyInto(chunk, off, data) ==
    [ i \in 1..Len(chunk) |->
        IF i \in (off + 1)..(off + Len(data)) THEN data[i - off] ELSE chunk[i] ]

StoreData(x, iocb) ==
    LET m == Msg(x)
        stored == IF iocb.data # << >> /\ IsBuffered(iocb)
                  THEN [ m EXCEPT !.chunks[Len(m.chunks)] =
                                      CopyInto(@, x.ipayloadoff, iocb.data) ]
                  ELSE m
    IN  [ x EXCEPT !.imsgs[x.imsg] = stored,
                   !.ipayloadoff = @ + Len(iocb.data) ]

(* wslay_event_flatten_queue *)
Flatten(chunks) ==
    LET upto[i \in 0..Len(chunks)] ==
            IF i = 0 THEN << >> ELSE upto[i - 1] \o chunks[i]
    IN  upto[Len(chunks)]

(* Flattening takes the chunks off their queue.                            *)
Emptied(x, iocb) ==
    IF IsBuffered(iocb) THEN [ x EXCEPT !.imsgs[x.imsg].chunks = << >> ] ELSE x

FrameDone(x) == [ x EXCEPT !.ipayloadlen = 0, !.ipayloadoff = 0 ]

(* wslay_event_imsg_reset; slot 1 gives way to slot 0 again.               *)
imsg_reset(m) ==
    [ m EXCEPT !.opcode = NoOpcode, !.utf8state = UTF8_ACCEPT, !.chunks = << >>,
               !.freed = TRUE ]

MessageDone(x) == FrameDone([ x EXCEPT !.imsgs[x.imsg] = imsg_reset(@), !.imsg = 0 ])

wslay_event_is_valid_status_code(status) ==
    \/ status \in 1000..1011 \ {1004, 1005, 1006}
    \/ status \in 3000..4999

-----------------------------------------------------------------------------
(* The ways out of an iteration *)

(* The loop goes on with the next chunk.                                   *)
GoOn(x) ==
    /\ rx' = x
    /\ ret' = 0
    /\ UNCHANGED << read_enabled, close_status, error, queueVars,
                    status_code_recv, delivered >>

(* Reading stops with an error, the peer is not told.                      *)
Stop(x, r) ==
    /\ rx' = x
    /\ ret' = r
    /\ read_enabled' = FALSE
    /\ UNCHANGED << close_status, error, queueVars, status_code_recv, delivered >>

(* Mutants: reading goes on; reading stops and the peer is not told.       *)
CloseWrapperReadsOn(cs, status, reason, r) ==
    /\ UNCHANGED read_enabled
    /\ \E q \in QueueReturns :
         /\ wslay_event_queue_close(cs, status, reason, q)
         /\ r = IF q = WSLAY_ERR_NO_MORE_MSG THEN 0 ELSE q

CloseWrapperOnlyStops(cs, status, reason, r) ==
    /\ read_enabled' = FALSE
    /\ close_status' = cs
    /\ r = 0
    /\ UNCHANGED queueVars

(* wslay_event_queue_close_wrapper: reading stops; r is what it returns.   *)
wslay_event_queue_close_wrapper(cs, status, reason, r) ==
    /\ read_enabled' = FALSE
    /\ \E q \in QueueReturns :
         /\ wslay_event_queue_close(cs, status, reason, q)
         /\ r = IF q = WSLAY_ERR_NO_MORE_MSG THEN 0 ELSE q

(* A protocol error: close with the given status.                          *)
FailConnection(status, x) ==
    /\ rx' = x
    /\ \E r \in QueueReturns :
         /\ wslay_event_queue_close_wrapper(close_status, status, << >>, r)
         /\ ret' = r
    /\ UNCHANGED << error, status_code_recv, delivered >>

(* The application gets a message and the slot is free again.  The         *)
(* callback may set an error of its own; what it queues is a step of its   *)
(* own, since nothing in the rest of the iteration depends on it.          *)
Deliver(x, msg, status) ==
    /\ IF config.on_msg_recv
       THEN /\ delivered' = Append(delivered, [ opcode |-> Msg(x).opcode, msg |-> msg,
                                                status_code |-> status ])
            /\ error' \in CallbackErrors     \* reset to 0, then the callback
       ELSE UNCHANGED << delivered, error >>
    /\ rx' = MessageDone(x)
    /\ ret' = 0

ReceiveData(x, msg) ==
    /\ Deliver(x, msg, 0)
    /\ UNCHANGED << read_enabled, close_status, queueVars, status_code_recv >>

(* The Pong carries the payload of the Ping; it is not owed once a Close   *)
(* is queued.                                                              *)
ReceivePing(x, msg) ==
    \E r \in QueueReturns :
      /\ wslay_event_queue_msg(WSLAY_PONG, msg, r)
      /\ IF r \in {0, WSLAY_ERR_NO_MORE_MSG}
         THEN /\ Deliver(x, msg, 0)
              /\ UNCHANGED read_enabled
         ELSE /\ read_enabled' = FALSE
              /\ ret' = r
              /\ rx' = x
              /\ UNCHANGED << delivered, error >>
      /\ UNCHANGED << close_status, status_code_recv >>

(* Mutant: a Close without a status code is recorded as 0.                 *)
ReceiveCloseNoDefault(x, msg) ==
    LET status == IF Len(msg) >= 2 THEN ntohs(msg) ELSE 0
        reason == SubSeq(msg, 3, Len(msg))
    IN  IF Len(msg) >= 2 /\ ~wslay_event_is_valid_status_code(status)
        THEN FailConnection(WSLAY_CODE_PROTOCOL_ERROR, x)
        ELSE /\ wslay_event_queue_close_wrapper(close_status \cup {"RECEIVED"},
                                                status, reason, 0)
             /\ status_code_recv' = status
             /\ Deliver(x, msg, status)

(* A Close is answered with its own status code and reason, unless the     *)
(* answer cannot be queued: then the call ends at once with what           *)
(* wslay_event_queue_close returned.                                       *)
ReceiveClose(x, msg) ==
    LET status == IF Len(msg) >= 2 THEN ntohs(msg) ELSE 0
        reason == SubSeq(msg, 3, Len(msg))
    IN  IF Len(msg) >= 2 /\ ~wslay_event_is_valid_status_code(status)
        THEN FailConnection(WSLAY_CODE_PROTOCOL_ERROR, x)
        ELSE \E r \in QueueReturns :
               /\ wslay_event_queue_close_wrapper(close_status \cup {"RECEIVED"},
                                                  status, reason, r)
               /\ status_code_recv' = IF status = 0 THEN WSLAY_CODE_NO_STATUS_RCVD
                                      ELSE status
               /\ IF r = 0 THEN Deliver(x, msg, status)
                  ELSE /\ ret' = r
                       /\ rx' = x
                       /\ UNCHANGED << delivered, error >>

(* Mutant: without on_msg_recv_callback a Ping is thrown away, too.        *)
ReceiveMessageSilently(x, iocb) ==
    LET m    == Msg(x)
        flat == IF IsBuffered(iocb) THEN Flatten(m.chunks) ELSE << >>
    IN  IF ~config.on_msg_recv /\ m.opcode # WSLAY_CONNECTION_CLOSE
        THEN GoOn(MessageDone(x))
        ELSE CASE m.opcode = WSLAY_CONNECTION_CLOSE -> ReceiveClose(x, flat)
               [] m.opcode = WSLAY_PING             -> ReceivePing(x, flat)
               [] OTHER                             -> ReceiveData(x, flat)

(* A message is complete.                                                  *)
ReceiveMessage(x, iocb) ==
    LET m    == Msg(x)
        flat == IF IsBuffered(iocb) THEN Flatten(m.chunks) ELSE << >>
        lost == IsBuffered(iocb) /\ Len(flat) # m.msg_length
    IN  IF ~config.on_msg_recv /\ m.opcode \notin {WSLAY_CONNECTION_CLOSE, WSLAY_PING}
        THEN GoOn(MessageDone(x))
        ELSE \/ /\ lost \/ (OutOfMemory /\ m.msg_length > 0)
                /\ Stop(x, WSLAY_ERR_NOMEM)
             \/ /\ ~lost
                /\ \E y \in { Emptied(x, iocb) } :
                     CASE m.opcode = WSLAY_CONNECTION_CLOSE -> ReceiveClose(y, flat)
                       [] m.opcode = WSLAY_PING             -> ReceivePing(y, flat)
                       [] OTHER                             -> ReceiveData(y, flat)

(* Mutant: the end callback is called at the end of a message only.        *)
EndFrameOfMessage(x, iocb) ==
    IF Msg(x).fin /\ IsUtf8Checked(Msg(x)) /\ Msg(x).utf8state # UTF8_ACCEPT
    THEN FailConnection(WSLAY_CODE_INVALID_FRAME_PAYLOAD_DATA, x)
    ELSE IF Msg(x).fin
    THEN \E y \in { [ x EXCEPT !.ends = @ + 1 ] } : ReceiveMessage(y, iocb)
    ELSE GoOn(FrameDone(x))

(* A frame is complete; a message must not end inside a character.         *)
EndFrame(x, iocb) ==
    IF Msg(x).fin /\ IsUtf8Checked(Msg(x)) /\ Msg(x).utf8state # UTF8_ACCEPT
    THEN FailConnection(WSLAY_CODE_INVALID_FRAME_PAYLOAD_DATA, x)
    ELSE \E y \in { [ x EXCEPT !.ends = @ + 1 ] } :
           IF Msg(y).fin THEN ReceiveMessage(y, iocb) ELSE GoOn(FrameDone(y))

(* The bytes of a chunk, once the frame they belong to is accepted.        *)
ReceiveChunk(x, iocb) ==
    \E y \in { CheckUtf8(x, iocb) } :
      IF Msg(y).utf8state = UTF8_REJECT
      THEN FailConnection(WSLAY_CODE_INVALID_FRAME_PAYLOAD_DATA, y)
      ELSE \E z \in { StoreData(y, iocb) } :
             IF z.ipayloadoff = z.ipayloadlen THEN EndFrame(z, iocb) ELSE GoOn(z)

ReceiveFrame(iocb) ==
    IF IsMalformed(iocb) \/ IsOutOfPlace(rx, iocb)
    THEN FailConnection(WSLAY_CODE_PROTOCOL_ERROR, rx)
    ELSE \E x \in { Open(rx, iocb) } :
           IF ~IsNewFrame(rx) THEN ReceiveChunk(x, iocb)
           ELSE IF IsTooBig(x, iocb)
           THEN FailConnection(WSLAY_CODE_MESSAGE_TOO_BIG, x)
           ELSE \/ \E y \in { StartFrame(x, iocb) } : ReceiveChunk(y, iocb)
                \/ /\ OutOfMemory /\ IsBuffered(iocb) /\ iocb.payload_length > 0
                   /\ Stop([ x EXCEPT !.ipayloadlen = iocb.payload_length,
                                      !.starts = @ + 1 ], -1)

(* The frame layer has no chunk: wait, or close if a callback failed or    *)
(* the peer broke the framing.                                             *)
RecvFails(result, failed) ==
    /\ error' \in IF failed
                  THEN {error, WSLAY_ERR_WOULDBLOCK, WSLAY_ERR_CALLBACK_FAILURE}
                  ELSE {error}
    /\ IF result # WSLAY_ERR_WANT_READ \/ error' \notin {0, WSLAY_ERR_WOULDBLOCK}
       THEN \E r \in QueueReturns :
              /\ wslay_event_queue_close_wrapper(close_status, 0, << >>, r)
              /\ ret' = IF r # 0 THEN r ELSE WSLAY_ERR_CALLBACK_FAILURE
       ELSE ret' = 0 /\ UNCHANGED << read_enabled, close_status, queueVars >>
    /\ UNCHANGED << rx, status_code_recv, delivered >>

(* The queue of chunks of the frame's slot is used: a chunk is appended or *)
(* written, or the slot is reset.                                          *)
UsesFreedQueue(iocb) ==
    LET slot == Open(rx, iocb).imsg
    IN  /\ ~IsMalformed(iocb) /\ ~IsOutOfPlace(rx, iocb)
        /\ ~(IsNewFrame(rx) /\ IsTooBig(Open(rx, iocb), iocb))
        /\ rx.imsgs[slot].freed
        /\ \/ IsBuffered(iocb) /\ iocb.payload_length > 0
           \/ rx'.imsgs[slot].opcode = NoOpcode

-----------------------------------------------------------------------------
(* The actions *)

(* An iteration of wslay_event_recv.                                       *)
wslay_event_recv ==
    /\ heap # "crashed"
    /\ read_enabled
    /\ \E o \in wslay_frame_recv(source) :
         /\ source' = o.source
         /\ IF o.result # 0
            THEN RecvFails(o.result, o.failed) /\ UNCHANGED heap
            ELSE /\ ReceiveFrame(o.iocb)
                 /\ heap' \in IF UsesFreedQueue(o.iocb) THEN {"misused", "crashed"}
                              ELSE {heap}
    /\ UNCHANGED << write_enabled, config, readShut >>

(* The application closes the connection.                                  *)
QueueClose ==
    /\ heap # "crashed"
    /\ \E status \in AppStatus, r \in QueueReturns :
         /\ wslay_event_queue_close(close_status, status, << >>, r)
         /\ ret' = r
    /\ UNCHANGED << write_enabled, error, source, recvVars, heap >>

wslay_event_shutdown_read ==
    /\ heap # "crashed"
    /\ read_enabled
    /\ read_enabled' = FALSE
    /\ readShut' = TRUE
    /\ UNCHANGED << write_enabled, close_status, error, ret, queueVars, source, config,
                    rx, status_code_recv, delivered, heap >>

(* The sending side closes, for a reason of its own.                       *)
WriteDisabled ==
    /\ heap # "crashed"
    /\ write_enabled
    /\ write_enabled' = FALSE
    /\ UNCHANGED << close_status, error, ret, queueVars, source, recvVars, heap >>

Next == \/ wslay_event_recv
        \/ QueueClose
        \/ wslay_event_shutdown_read
        \/ WriteDisabled

Spec == Init /\ [][Next]_vars
=============================================================================
