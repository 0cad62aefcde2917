------------------------------ MODULE RecvView ------------------------------
(***************************************************************************)
(* What the application should see of the frames the peer sends, and the   *)
(* properties of wslay_event_recv that say it does.                        *)
(***************************************************************************)
EXTENDS EventRecv, SequencesExt

(* The frames of which every byte was received.                            *)
WholeFrames == IF source.open THEN Front(source.peer) ELSE source.peer

(* The frames as far as they were received.                                *)
FramesSoFar ==
    IF source.peer = << >> THEN << >>
    ELSE [ source.peer EXCEPT ![Len(source.peer)].payload =
                                SubSeq(@, 1, source.taken) ]

(* RFC 6455, section 5.4: control frames are messages by themselves, data  *)
(* frames make one up to the frame with the fin bit.  A view is what the   *)
(* frames so far amount to: the messages, and the data of one that began.  *)
NothingYet == [ opcode |-> NoOpcode, data |-> << >>, msgs |-> << >> ]

AddFrame(v, f) ==
    LET begins == f.opcode # WSLAY_CONTINUATION_FRAME
        opcode == IF begins THEN f.opcode ELSE v.opcode
        data   == IF begins THEN f.payload ELSE v.data \o f.payload
    IN  IF wslay_is_ctrl_frame(f.opcode)
        THEN [ v EXCEPT !.msgs = Append(@, [ opcode |-> f.opcode, msg |-> f.payload ]) ]
        ELSE IF f.fin
        THEN [ opcode |-> NoOpcode, data |-> << >>,
               msgs |-> Append(v.msgs, [ opcode |-> opcode, msg |-> data ]) ]
        ELSE [ opcode |-> opcode, data |-> data, msgs |-> v.msgs ]

Reassemble(frames) ==
    LET upto[i \in 0..Len(frames)] ==
            IF i = 0 THEN NothingYet ELSE AddFrame(upto[i - 1], frames[i])
    IN  upto[Len(frames)]

(* The elements of a sequence of messages that have the given opcode.      *)
OfOpcode(msgs, opcode) ==
    LET upto[i \in 0..Len(msgs)] ==
            IF i = 0 THEN << >>
            ELSE IF msgs[i].opcode = opcode THEN Append(upto[i - 1], msgs[i])
            ELSE upto[i - 1]
    IN  upto[Len(msgs)]

(* What the callback is given: without buffering, no data payload.         *)
AsDelivered(msgs) ==
    [ i \in 1..Len(msgs) |->
        IF config.no_buffering /\ ~wslay_is_ctrl_frame(msgs[i].opcode)
        THEN [ msgs[i] EXCEPT !.msg = << >> ] ELSE msgs[i] ]

DeliveredMsgs ==
    [ i \in 1..Len(delivered) |->
        [ opcode |-> delivered[i].opcode, msg |-> delivered[i].msg ] ]

(* The application gets the messages the peer sent: all of them as long as *)
(* reading is enabled, in order, byte for byte, however the socket cuts    *)
(* the frames and with control frames between the frames of a message      *)
(* (event.c 317-350, 388-395, 414-421, 463-477).                           *)
DeliveredAsSent ==
    LET msgs == AsDelivered(Reassemble(WholeFrames).msgs)
    IN  config.on_msg_recv =>
          /\ IsPrefix(DeliveredMsgs, msgs)
          /\ read_enabled => DeliveredMsgs = msgs

Accepts(status) == \E i \in 1..Len(accepted) :
    /\ accepted[i].opcode = WSLAY_CONNECTION_CLOSE
    /\ accepted[i].data = htons(status)

(* The library fails the connection with status: neither the application   *)
(* closes with it nor is it the answer to the peer's Close.                *)
FailsWith(status) ==
    Accepts(status) /\ status \notin AppStatus /\ "RECEIVED" \notin close_status

(* The verdict on a text does not depend on how it is cut into frames and  *)
(* chunks (event.c 367-386, 397-406): what is delivered is UTF-8; reading  *)
(* goes on only while the text can still become UTF-8; and a text is       *)
(* refused only if it is complete and not UTF-8, or if what has come of it *)
(* can no longer become UTF-8.  A Close is refused for its reason.         *)
TextVerdict ==
    LET now  == Reassemble(FramesSoFar)
        last == source.peer[Len(source.peer)]
        text == IF last.fin THEN Last(now.msgs).msg ELSE now.data
    IN  /\ \A i \in 1..Len(delivered) :
             delivered[i].opcode = WSLAY_TEXT_FRAME => IsUtf8(delivered[i].msg)
        /\ read_enabled /\ now.opcode = WSLAY_TEXT_FRAME => BeginsUtf8(now.data)
        /\ FailsWith(WSLAY_CODE_INVALID_FRAME_PAYLOAD_DATA) =>
             \/ last.opcode = WSLAY_CONNECTION_CLOSE
             \/ last.fin /\ ~source.open /\ ~IsUtf8(text)
             \/ ~BeginsUtf8(text)

(* The next frame is inside a message: the last data frame is not final.   *)
InsideMessage(frames) ==
    \E j \in 1..Len(frames) :
        /\ ~wslay_is_ctrl_frame(frames[j].opcode) /\ ~frames[j].fin
        /\ \A k \in (j + 1)..Len(frames) : wslay_is_ctrl_frame(frames[k].opcode)

(* RFC 6455, sections 5.1, 5.2 and 5.4: what may not appear in a sequence  *)
(* of frames.                                                              *)
BreaksFraming(frames) ==
    \E i \in 1..Len(frames) :
        LET f == frames[i]
            inside == InsideMessage(SubSeq(frames, 1, i - 1))
        IN  \/ f.rsv # 0 \/ f.mask # Server \/ f.opcode \notin Opcodes
            \/ f.opcode = WSLAY_CONTINUATION_FRAME /\ ~inside
            \/ f.opcode \in {WSLAY_TEXT_FRAME, WSLAY_BINARY_FRAME} /\ inside

(* Reading goes on only as long as the frames keep to the protocol, and    *)
(* the connection fails with 1002 only if they do not, or a Close carries  *)
(* a status code that may not be sent (event.c 311-350, 422-434).          *)
FramingVerdict ==
    /\ read_enabled => ~BreaksFraming(source.peer)
    /\ FailsWith(WSLAY_CODE_PROTOCOL_ERROR) =>
         LET last == source.peer[Len(source.peer)]
         IN  \/ BreaksFraming(source.peer)
             \/ /\ last.opcode = WSLAY_CONNECTION_CLOSE
                /\ ~wslay_event_is_valid_status_code(ntohs(last.payload))

(* A message is refused as too big only if the payloads of its frames      *)
(* together exceed max_recv_msg_length, whatever was received before it    *)
(* (event.c 37-44, 352-357).                                               *)
SizeVerdict ==
    FailsWith(WSLAY_CODE_MESSAGE_TOO_BIG) =>
        LET last   == source.peer[Len(source.peer)]
            view   == Reassemble(source.peer)
            length == IF last.fin THEN Len(Last(view.msgs).msg) ELSE Len(view.data)
        IN  length > max_recv_msg_length

(* event.h 98: the start callback is called once for each frame, and the   *)
(* end callback once each frame is complete (event.c 359, 407).            *)
FrameCallbacksOnce ==
    /\ rx.starts <= Len(source.peer)
    /\ rx.ends <= rx.starts
    /\ read_enabled => rx.starts = Len(source.peer) /\ rx.ends = Len(WholeFrames)

(* The library stops reading on its own only if the peer will be told by a *)
(* Close, or cannot be told because writing is over (event.c 199-208 and   *)
(* every caller), or memory ran out, which then is what the call returns.  *)
FailureAnswered ==
    ~read_enabled /\ ~readShut =>
        \/ "QUEUED" \in close_status
        \/ ~write_enabled
        \/ ret \in {WSLAY_ERR_NOMEM, -1, 1}

(* The buffer of a message has the size of the payloads of its frames,     *)
(* never more than max_recv_msg_length, and the bytes of the frame being   *)
(* received go where the frame layer says they belong (event.c 352-366,    *)
(* 388-395).                                                               *)
BufferInBounds ==
    /\ \A i \in 0..1 :
         LET m == rx.imsgs[i]
         IN  m.opcode # NoOpcode =>
               /\ m.msg_length <= max_recv_msg_length
               /\ read_enabled => Len(Flatten(m.chunks)) = m.msg_length
    /\ read_enabled /\ source.open =>
         /\ rx.ipayloadlen = Len(source.peer[Len(source.peer)].payload)
         /\ rx.ipayloadoff = source.taken
    /\ read_enabled /\ ~source.open => AtFrameStart(rx)

(* The Pongs queued are the Pings received, in order and with their        *)
(* payloads; none is missing while messages can be queued (event.c         *)
(* 451-462).                                                               *)
PongForPing ==
    LET Pings == OfOpcode(Reassemble(WholeFrames).msgs, WSLAY_PING)
        Pongs == OfOpcode(accepted, WSLAY_PONG)
    IN  /\ Len(Pongs) <= Len(Pings)
        /\ \A i \in 1..Len(Pongs) : Pongs[i].data = Pings[i].msg
        /\ read_enabled /\ wslay_event_is_msg_queueable => Len(Pongs) = Len(Pings)

(* The status code recorded as received is the peer's, 1005 if its Close   *)
(* has none, 1006 if there was no Close; reading ends with the Close; and  *)
(* a Close the library answers is answered with the same code and reason   *)
(* (event.c 422-450).                                                      *)
CloseReceivedHonest ==
    IF "RECEIVED" \notin close_status
    THEN status_code_recv = WSLAY_CODE_ABNORMAL_CLOSURE
    ELSE LET close == Last(source.peer)
             status == IF Len(close.payload) < 2 THEN 0 ELSE ntohs(close.payload)
         IN  /\ ~read_enabled
             /\ close.opcode = WSLAY_CONNECTION_CLOSE
             /\ status_code_recv = IF status = 0 THEN WSLAY_CODE_NO_STATUS_RCVD
                                   ELSE status
             /\ config.on_msg_recv /\ delivered # << >>
                  /\ Last(delivered).opcode = WSLAY_CONNECTION_CLOSE =>
                    /\ Last(accepted).opcode = WSLAY_CONNECTION_CLOSE
                    /\ Last(accepted).data = IF status = 0 THEN << >> ELSE close.payload

(* event.h 239: "Single call of this function receives multiple messages": *)
(* receiving a message leaves the context fit to receive the next one.     *)
HeapSound == heap = "sound"

(* event.h 249: wslay_event_recv returns 0 or a negative error code.       *)
RecvReturnsDocumented == [][ wslay_event_recv => ret' <= 0 ]_vars

(* event.h 386: the reason of a Close is UTF-8.  A Close with such a       *)
(* reason is not refused as invalid payload data.                          *)
ValidCloseAccepted ==
    Accepts(WSLAY_CODE_INVALID_FRAME_PAYLOAD_DATA) =>
        LET last == Last(source.peer)
        IN  last.opcode = WSLAY_CONNECTION_CLOSE =>
              ~IsUtf8(SubSeq(last.payload, 3, Len(last.payload)))
=============================================================================
