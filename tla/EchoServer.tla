----------------------------- MODULE EchoServer -----------------------------
(***************************************************************************)
(* Both halves of one event context, driven by an application: the process *)
(* that serves one client in examples/fork-echoserv.c.  Its loop polls the *)
(* socket, calls wslay_event_recv and wslay_event_send, whose iterations   *)
(* are those of EventRecv and EventSend, and echoes every data message.    *)
(*                                                                         *)
(* The example is written for the older wslay_event_context_server_init;   *)
(* here the context is what wslay_server_new returns.                      *)
(***************************************************************************)
EXTENDS EventQueue, FrameSend, FrameSource, Endpoint

CONSTANTS
    OBufSize, max_recv_msg_length

ASSUME EchoServerAssumption ==
    /\ OBufSize \in Nat \ {0}
    /\ max_recv_msg_length \in Nat

VARIABLES
    omsg, obuf, opayloadlen, opayloadoff, status_code_sent,      \* EventSend
    config, read_enabled, rx, status_code_recv, delivered,       \* EventRecv
    readShut, heap,
    pc,           \* where communicate is
    polled,       \* event.events: what poll waits for
    revents,      \* event.revents: what it reported
    res           \* what communicate will return

loopVars == << pc, polled, revents, res >>

S == INSTANCE PeerView WITH
    Server <- TRUE, LazyEof <- FALSE, AppOpcodes <- {}, AppStatus <- {},
    MaxMsgs <- 0, MaxLen <- 0

R == INSTANCE RecvView WITH
    Server <- TRUE, AppStatus <- {},
    Configs <- { [ no_buffering |-> FALSE, on_msg_recv |-> TRUE ] }

sendVars == << omsg, obuf, opayloadlen, opayloadoff, status_code_sent >>

recvVars == << source, config, read_enabled, rx, status_code_recv, delivered,
               readShut, heap >>

contextVars == << write_enabled, close_status, error, ret, queueVars, frameVars,
                  sendVars, recvVars >>

echoVars == << contextVars, loopVars >>

-----------------------------------------------------------------------------

EchoTypeOK ==
    /\ S!TypeOK
    /\ R!TypeOK
    /\ pc \in { "loop", "recv", "echo", "send", "check", "done" }
    /\ polled \subseteq { "IN", "OUT" }
    /\ revents \subseteq { "IN", "OUT", "HUP" }
    /\ res \in { 0, -1 }

EchoInit ==
    /\ S!Init
    /\ R!Init
    /\ pc = "loop"
    /\ polled = { "IN" }
    /\ revents = {}
    /\ res = 0

wslay_event_want_read == read_enabled

(* The process is there: no use of freed memory has ended it.              *)
IsRunning == heap # "crashed"

Leave(r) == pc' = "done" /\ res' = r /\ UNCHANGED << polled, revents >>

Goto(l) == pc' = l /\ UNCHANGED << polled, revents, res >>

(* wslay_event_send is called if the socket is writable, and returns at    *)
(* once if there is nothing to send.                                       *)
AfterRecv(rev) ==
    IF "OUT" \in rev /\ S!wslay_event_want_write' THEN "send" ELSE "check"

-----------------------------------------------------------------------------
(* The loop *)

(* The loop ends when the context wants neither to read nor to write.      *)
LoopEnds ==
    /\ pc = "loop" /\ IsRunning
    /\ ~wslay_event_want_read /\ ~S!wslay_event_want_write
    /\ Leave(0)
    /\ UNCHANGED contextVars

(* poll reports some of what it was asked for, or that the connection is   *)
(* broken (POLLERR, POLLHUP, POLLNVAL), asked for or not.                  *)
Poll ==
    /\ pc = "loop" /\ IsRunning
    /\ wslay_event_want_read \/ S!wslay_event_want_write
    /\ UNCHANGED << polled, res, contextVars >>
    /\ revents' \in SUBSET (polled \cup {"HUP"}) \ {{}}
    /\ pc' = IF "IN" \in revents' THEN "recv" ELSE AfterRecv(revents')

PollFails ==
    /\ pc = "loop" /\ IsRunning
    /\ wslay_event_want_read \/ S!wslay_event_want_write
    /\ Leave(-1)
    /\ UNCHANGED contextVars

(* Mutant: what wslay_event_recv returns is not looked at.                 *)
RecvGoesOn ==
    IF delivered' # delivered
       /\ ~wslay_is_ctrl_frame(delivered'[Len(delivered')].opcode)
    THEN Goto("echo")
    ELSE IF source' = source \/ ~read_enabled' THEN Goto(AfterRecv(revents))
    ELSE Goto("recv")

(* Where an iteration of wslay_event_recv leads to: its callback, the end  *)
(* of the call, or the next iteration.                                     *)
RecvReturns ==
    IF ret' # 0 THEN Leave(-1)
    ELSE IF delivered' # delivered
            /\ ~wslay_is_ctrl_frame(delivered'[Len(delivered')].opcode)
    THEN Goto("echo")
    ELSE IF source' = source \/ ~read_enabled' THEN Goto(AfterRecv(revents))
    ELSE Goto("recv")

(* An iteration of wslay_event_recv.  on_msg_recv_callback sets no error.  *)
Recv ==
    /\ pc = "recv"
    /\ R!wslay_event_recv
    /\ UNCHANGED << frameVars, sendVars >>
    /\ delivered' # delivered => error' = 0
    /\ RecvReturns

(* Mutant: everything is echoed as binary.                                 *)
EchoBinary ==
    \E r \in QueueReturns :
        wslay_event_queue_msg(WSLAY_BINARY_FRAME, delivered[Len(delivered)].msg, r)

(* on_msg_recv_callback queues what it was given; what                     *)
(* wslay_event_queue_msg returns is not looked at.                         *)
on_msg_recv_callback ==
    \E r \in QueueReturns :
        wslay_event_queue_msg(delivered[Len(delivered)].opcode,
                              delivered[Len(delivered)].msg, r)

Echo ==
    /\ pc = "echo" /\ IsRunning
    /\ on_msg_recv_callback
    /\ Goto("recv")
    /\ UNCHANGED << write_enabled, close_status, error, ret, frameVars, sendVars,
                    recvVars >>

(* An iteration of wslay_event_send.  send_callback never claims more than *)
(* it was given, so that only a failure it reports ends writing.  All that *)
(* is queued here fits in one frame and is never preempted (LayersInSync), *)
(* so that EventSend's PushFrontFails is no step of this process.          *)
Send ==
    /\ pc = "send" /\ IsRunning
    /\ S!wslay_event_send
    /\ ret' # 0 => error' = WSLAY_ERR_CALLBACK_FAILURE
    /\ IF ret' # 0 THEN Leave(-1)
       ELSE IF omsg' = NoMsg /\ S!wslay_event_want_write' THEN Goto("send")
       ELSE Goto("check")
    /\ UNCHANGED recvVars

(* Mutant: a Close is not waited for.                                      *)
WantedForReading == IF wslay_event_want_read THEN { "IN" } ELSE {}

Wanted == (IF wslay_event_want_read THEN { "IN" } ELSE {})
          \cup (IF S!wslay_event_want_write THEN { "OUT" } ELSE {})

Check ==
    /\ pc = "check" /\ IsRunning
    /\ IF "HUP" \in revents THEN Leave(-1)
       ELSE pc' = "loop" /\ polled' = Wanted /\ UNCHANGED << revents, res >>
    /\ UNCHANGED contextVars

(* What the process does by itself; poll may wait for ever.                *)
Proceed == LoopEnds \/ Recv \/ Echo \/ Send \/ Check

EchoNext == Proceed \/ Poll \/ PollFails

EchoSpec == EchoInit /\ [][EchoNext]_echoVars

(* The process runs; the socket becomes writable again and again, poll     *)
(* says so when asked, and then it takes at least a byte.                  *)
EchoFairSpec ==
    /\ EchoSpec
    /\ WF_echoVars(Proceed)
    /\ SF_echoVars(Poll /\ "OUT" \in revents')
    /\ SF_echoVars(Send /\ wire' # wire)

-----------------------------------------------------------------------------
(* Correctness *)

(* The data messages among msgs.                                           *)
DataOf(msgs) ==
    LET upto[i \in 0..Len(msgs)] ==
            IF i = 0 THEN << >>
            ELSE IF wslay_is_ctrl_frame(msgs[i].opcode) THEN upto[i - 1]
            ELSE Append(upto[i - 1], msgs[i])
    IN  upto[Len(msgs)]

(* What the client gets back is what it sent, as long as memory does not   *)
(* run out (~OutOfMemory): the data messages on the wire are the ones it   *)
(* completed, in order, with the same opcode and bytes, whatever it put    *)
(* between their frames and wherever either direction of the socket cut    *)
(* them.                                                                   *)
EchoFaithful ==
    LET view  == S!PeerReceives(wire)
        given == DataOf(R!Reassemble(R!WholeFrames).msgs)
        n     == Len(view.msgs)
    IN  /\ view.ok
        /\ n + (IF view.open THEN 1 ELSE 0) <= Len(given)
        /\ \A i \in 1..n : view.msgs[i] = [ opcode |-> given[i].opcode,
                                          data |-> given[i].msg ]
        /\ view.open => /\ view.opcode = given[n + 1].opcode
                        /\ S!IsPrefix(view.data, given[n + 1].msg)

(* The return value on_msg_recv_callback ignores (fork-echoserv.c 370)     *)
(* hides one refusal only, that for want of memory, which loses the echo.  *)
(* As long as memory does not run out (~OutOfMemory), every data message   *)
(* delivered is accepted, because no message is delivered any more once a  *)
(* Close is queued.                                                        *)
EchoAccepted ==
    pc # "echo" =>
        LET got    == DataOf(delivered)
            queued == DataOf(accepted)
        IN  /\ Len(queued) = Len(got)
            /\ \A i \in 1..Len(got) : queued[i].opcode = got[i].opcode
                                      /\ queued[i].data = got[i].msg

(* communicate returns 0 only once it has sent a Close: a whole Close is   *)
(* the last thing on the wire, and it answers the client's or tells it of  *)
(* its error, which may be the status code of its Close (fork-echoserv.c   *)
(* 416, 444; event.c 422-434).                                             *)
CleanExit ==
    pc = "done" /\ res = 0 =>
        LET close == wire[Len(wire)]
            last  == source.peer[Len(source.peer)]
        IN  /\ wire # << >> /\ S!IsComplete(close)
            /\ close.header.opcode = WSLAY_CONNECTION_CLOSE
            /\ \/ "RECEIVED" \in close_status
               \/ R!BreaksFraming(source.peer)
               \/ /\ last.opcode = WSLAY_CONNECTION_CLOSE
                  /\ ~R!wslay_event_is_valid_status_code(ntohs(last.payload))
               \/ ntohs(S!Content(close.body)) \in
                    { WSLAY_CODE_INVALID_FRAME_PAYLOAD_DATA, WSLAY_CODE_MESSAGE_TOO_BIG }

(* ctx->error is shared by the callbacks of both directions and is not     *)
(* reset between calls (event.c 464, 483, 591).  The loop leaves with the  *)
(* first failure, so that one direction never meets the other's.           *)
ErrorFresh == pc # "done" => error # WSLAY_ERR_CALLBACK_FAILURE

(* What the loop relies on (Endpoint): no call of wslay_event_recv takes   *)
(* away the wish to write, or ends reading without leaving a Close to      *)
(* send, and no call of wslay_event_send affects reading.                  *)
View == [ rd |-> wslay_event_want_read, wr |-> S!wslay_event_want_write,
          failed |-> ret # 0 ]

KeepsContract ==
    [][ View' \in {View} \cup (CASE pc \in {"recv", "echo"} -> RecvCall(View)
                                 [] pc = "send"             -> SendCall(View)
                                 [] OTHER                   -> {}) ]_echoVars

(* Once reading is over, because the client closed or broke the protocol,  *)
(* the process ends: the Close is sent, or the connection fails.           *)
ClosingEnds == ~read_enabled ~> pc = "done" \/ ~IsRunning
=============================================================================
