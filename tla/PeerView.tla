------------------------------ MODULE PeerView ------------------------------
(***************************************************************************)
(* What the peer makes of the frames wslay_event_send puts on the wire.    *)
(***************************************************************************)
EXTENDS EventSend, SequencesExt

Content(body) == [ i \in 1..Len(body) |-> body[i].byte ]

IsComplete(frame) ==
    frame.hdr = frame.hdrlen /\ Len(frame.body) = frame.header.payload_length

(* What the peer has made of some frames.  msgs are the data messages it   *)
(* has whole; if one is open, opcode and data are what it has of it; ctrls *)
(* are the control frames.  ok is FALSE when a continuation had nothing to *)
(* continue, or a message began inside another.                            *)
NothingReceived ==
    [ ok |-> TRUE, open |-> FALSE, opcode |-> WSLAY_CONTINUATION_FRAME,
      data |-> << >>, msgs |-> << >>, ctrls |-> << >> ]

(* A receiver that follows RFC 6455, section 5.4: a data frame begins a    *)
(* message, continuations extend it until one is final; control frames may *)
(* come between them.                                                      *)
Receive(view, frame) ==
    LET h == frame.header
        begins == h.opcode # WSLAY_CONTINUATION_FRAME
        ok == view.ok /\ (begins <=> ~view.open)
        opcode == IF begins THEN h.opcode ELSE view.opcode
        data == IF begins THEN Content(frame.body)
                ELSE view.data \o Content(frame.body)
    IN  IF wslay_is_ctrl_frame(h.opcode)
        THEN [ view EXCEPT !.ctrls = Append(@, frame) ]
        ELSE IF h.fin /\ IsComplete(frame)
        THEN [ ok |-> ok, open |-> FALSE, opcode |-> WSLAY_CONTINUATION_FRAME,
               data |-> << >>,
               msgs |-> Append(view.msgs, [ opcode |-> opcode, data |-> data ]),
               ctrls |-> view.ctrls ]
        ELSE [ view EXCEPT !.ok = ok, !.open = TRUE, !.opcode = opcode,
                           !.data = data ]

PeerReceives(frames) ==
    LET upto[i \in 0..Len(frames)] ==
            IF i = 0 THEN NothingReceived ELSE Receive(upto[i - 1], frames[i])
    IN  upto[Len(frames)]

(* Messages by the queue they go to.                                       *)
Sort(queues, msg) ==
    IF wslay_is_ctrl_frame(msg.opcode)
    THEN [ queues EXCEPT !.ctrl = Append(@, msg) ]
    ELSE [ queues EXCEPT !.data = Append(@, msg) ]

ByQueue(msgs) ==
    LET upto[i \in 0..Len(msgs)] ==
            IF i = 0 THEN [ data |-> << >>, ctrl |-> << >> ]
            ELSE Sort(upto[i - 1], msgs[i])
    IN  upto[Len(msgs)]

(* The number of bytes of the unfragmented messages.                       *)
TotalLength(msgs) ==
    LET upto[i \in 0..Len(msgs)] ==
            IF i = 0 THEN 0 ELSE upto[i - 1] + Len(msgs[i].data)
    IN  upto[Len(msgs)]

(* The bytes the application gave for a message.                           *)
Given(msg) == msg.data \o msg.source

(* The data messages the peer reassembles are the accepted ones: same      *)
(* order, same opcode, same bytes, all but the last complete, whatever     *)
(* control messages were sent between their frames and however the socket  *)
(* cut the frames (event.c 532-558, 597-646).                              *)
ArrivesIntact(view, given) ==
    LET n == Len(view.msgs)
    IN  /\ view.ok
        /\ n + (IF view.open THEN 1 ELSE 0) <= Len(given)
        /\ \A i \in 1..n : view.msgs[i] = [ opcode |-> given[i].opcode,
                                          data |-> Given(given[i]) ]
        /\ view.open => /\ view.opcode = given[n + 1].opcode
                        /\ IsPrefix(view.data, Given(given[n + 1]))

DataArrivesIntact ==
    ArrivesIntact(PeerReceives(wire), ByQueue(accepted).data)

(* Control frames are sent in the order their messages were queued, whole  *)
(* and unfragmented; only a Close may overtake, the ones it overtakes are  *)
(* never sent (event.c 501-523).                                           *)
Carries(frame, msg) ==
    /\ frame.header.fin
    /\ frame.header.opcode = msg.opcode
    /\ frame.header.payload_length = Len(msg.data)
    /\ IsPrefix(Content(frame.body), msg.data)

InOrder(frames, given) ==
    \A i \in 1..Len(frames) :
        \/ Carries(frames[i], given[i])
        \/ /\ i = Len(frames)
           /\ frames[i].header.opcode = WSLAY_CONNECTION_CLOSE
           /\ Carries(frames[i], given[Len(given)])

ControlInOrder == InOrder(PeerReceives(wire).ctrls, ByQueue(accepted).ctrl)

(* What the getters report.  wslay_event_get_queued_msg_length is the      *)
(* number of bytes of the unfragmented messages queued or being sent,      *)
(* exactly, until a Close is selected, and never less (event.c 236, 573).  *)
(* wslay_event_get_status_code_sent is the code in the Close frame on the  *)
(* wire, and 1006 as long as no Close was sent (event.c 574-584).          *)
GettersHonest ==
    LET pending == TotalLength(send_queue) + TotalLength(send_ctrl_queue)
                   + Len(omsg.data)
    IN  /\ queued_msg_length >= pending
        /\ ~(IsClose(omsg) \/ "SENT" \in close_status) => queued_msg_length = pending
        /\ status_code_sent =
              IF "SENT" \notin close_status THEN WSLAY_CODE_ABNORMAL_CLOSURE
              ELSE LET body == Content(wire[Len(wire)].body)
                   IN  IF body = << >> THEN WSLAY_CODE_NO_STATUS_RCVD ELSE ntohs(body)
=============================================================================
