# A formal model of wslay

wslay is a WebSocket (RFC 6455) library in C. It does no I/O of its own: the
application gives it callbacks that send, receive and make mask keys, calls
`wslay_event_recv` and `wslay_event_send` when its socket is ready, and queues
messages. Everything is single-threaded. What makes it hard is that every call
may stop half-way (a socket that takes three bytes of a header, a chunk that
ends inside a character) and carries on in a later call, with the application
queueing, closing and shutting down in between.

This directory models the library in TLA+, checks it with TLC and proves part
of it with TLAPS.

## Inventory

| part | source | state | operations |
|---|---|---|---|
| frame layer, sending | `frame.c` 39-167, `frame.h` | `ostate`, `oheader`, `oheadermark`, `oheaderlimit`, `opayloadlen`, `opayloadoff`, `omask`, `omaskkey` | `wslay_frame_send` |
| frame layer, receiving | `frame.c` 169-323 | `ibuf`, `ibufmark`, `ibuflimit`, `iom`, `ipayloadlen`, `ipayloadoff`, `imask`, `imaskkey`, `istate`, `ireqread` | `wslay_frame_recv` |
| event layer, queueing | `event.c` 79-128, 162-257 | `send_queue`, `send_ctrl_queue`, `queued_msg_count`, `queued_msg_length`, `close_status` | `wslay_event_queue_msg`, `_queue_fragmented_msg`, `_queue_close` |
| event layer, sending | `event.c` 494-649 | `omsg`, `obuf`, `opayloadlen`, `opayloadoff`, `write_enabled`, `status_code_sent`, `error` | `wslay_event_send`, `_shutdown_write`, `_want_write` |
| event layer, receiving | `event.c` 37-77, 130-160, 259-492 | `imsgs`, `imsg`, `ipayloadlen`, `ipayloadoff`, `read_enabled`, `status_code_recv`, `error` | `wslay_event_recv`, `_shutdown_read`, `_want_read` |
| UTF-8 | `utf8.c`, `utf8.h` | `utf8state` in each `imsg` | `decode` |
| queue | `queue.h` | a singly linked list with `top` and `tail` | new, free, push, push_front, pop, top, tail, is_empty |
| context | `context.c`, `context.h` | all of the above | `wslay_server_new`, `wslay_client_new`, callback adapters |
| `fork-echoserv.c` 318-446 | the loop of a process that serves one connection | `event.events`, `res` | `communicate` and its callbacks |
| `echoserv.cc` 139-553 | an epoll reactor with four kinds of handler | handlers, descriptors, registrations, a batch of events | `reactor`, `ctl_epollev`, the handlers' methods |
| configuration, getters | `event.c` 651-731 | `config`, `max_recv_msg_length` | setters and getters |

The event layer calls the frame layer; the frame layer calls the application's
send, recv and genmask callbacks through the adapters in `context.h`.
Receiving and sending share `close_status`, `write_enabled`, `error` and the
control queue: a Ping or a Close received is answered by queueing. Callbacks
report errors by setting `ctx->error`.

What is hard, and the properties that would make each part right:

* *Sending frames*: a header or a payload leaves in pieces. The peer must get
  exactly the bytes of each payload, each header whole before its payload, and
  the mask key must stay in step across calls.
* *Sending messages*: two layers keep offsets for the same frame; a control
  message preempts a fragmented one between two frames; a Close overtakes
  other control messages and ends the direction. Messages must arrive intact
  and in order, nothing may follow the Close, the Close may not get lost, the
  counters may not wrap, and everything must be sent eventually.
* *Receiving*: control frames between the fragments of a message; texts whose
  characters are cut by frames and chunks; empty frames; a limit on length; a
  Close or Ping that must be answered while the application closes as well.
* *Failures*: allocation failures, failing callbacks, a callback that claims
  more bytes than it was given, the peer breaking the protocol.

* *The parser of frames*: heads of 2 to 14 bytes arrive in pieces into a buffer
  that is shifted; each stage waits for a number of bytes that must be neither
  more than it needs nor more than fits.
* *The queue*: a list whose `tail` may outlive its last cell.
* *Event loops*: they see a context through `want_read`, `want_write` and return
  values only. Closing must end, nothing may be lost, and in the reactor handlers
  are deleted while events are pending and descriptors change hands.

`PROJECT.json` lists these hazards one by one, each at its line.

## Modules

| module | what it models |
|---|---|
| `Wslay` | opcodes, error and status codes, byte order (`wslay.h`) |
| `FrameSend` | `wslay_frame_send` as the set of the outcomes of a call |
| `FrameApi` | an application that uses `wslay_frame_send` directly; its properties |
| `EventQueue` | the shared fields of the context and the three queue operations |
| `EventSend` | `wslay_event_send` on `FrameSend` and `EventQueue`, and an application that queues; safety and liveness properties |
| `PeerView` | what an RFC 6455 receiver makes of the wire; the end-to-end properties of sending |
| `Utf8`, `Utf8Scan` | the automaton, the grammar of RFC 3629, and a run of one against the other |
| `FrameSource` | what `wslay_frame_recv` promises the event layer: frames in chunks cut anywhere |
| `FrameRecv` | `wslay_frame_recv` stage by stage over the bytes in `ibuf`; refines `FrameSourceSpec`, the specification made of `FrameSource` |
| `EventRecv` | `wslay_event_recv` on `FrameSource`, `EventQueue` and `Utf8` |
| `RecvView` | what the application should see of the peer's frames; the properties of receiving |
| `QueueSpec`, `Queue` | a queue as a sequence; the linked list of `queue.h` with `malloc` and `free`, which refines it |
| `Endpoint` | a wslay context as an event loop sees it: what a call may do to `want_read`, `want_write` and the return value |
| `EchoServer` | `PeerView` (sending) and `RecvView` (receiving) on one context, driven by the loop and the callbacks of `fork-echoserv.c` |
| `Reactor` | the reactor of `echoserv.cc`, whose WebSocket handlers hold an `Endpoint` |
| `MC*` | instances for TLC |
| `FrameSendProofs`, `FrameApiProofs`, `EventSendProofs` | theorems about sending, with their proofs |
| `EventRecvProofs`, `FrameRecvProofs` | theorems about receiving and about the parser |
| `Utf8Proofs` | induction along sequences; the automaton against RFC 3629 |
| `QueueProofs`, `ExampleProofs` | theorems about the list; about the reactor and the echo server |

How the modules lean on each other: `EventRecv` uses `FrameSource` in the place of
the parser; `FrameRecvProofs` proves, and the run `frame_recv` checks, that the parser
implements it. All
modules use sequences in the place of lists, and `queue` shows that the list
implements a sequence. `Reactor` uses `Endpoint` in the place of a context, and
`KeepsContract` in `echo_server` shows, and `ContractKept` proves, that sending and receiving
together keep to it.

Conventions:

* **Names** are the code's. A definition that stands for a stretch of a function
  is named for what it does and mapped to its lines in `PROJECT.json`.
* **A call that depends on callbacks is a set of outcomes.** `wslay_frame_send`
  and `wslay_frame_recv` are operators that return every possible result; the
  caller picks one with `\E`. So a partial send of any length and a failing
  callback are in every run of the layer they belong to, and so is a send callback
  that claims more bytes than it was given. A recv callback is assumed to keep to the
  room it was given: what it returns is not checked (`frame.c` 185-190).
* **A step is one iteration** of the loop of `wslay_event_send` or
  `wslay_event_recv`. No local variable survives an iteration. The application
  may act between any two, which covers what it does between calls and what
  its callbacks do inside them.
* **Data.** A header is its fields and its number of bytes. A payload byte on the
  wire carries the index of the mask-key byte it was combined with instead of
  the result of the XOR, which is what can go wrong. `obuf` is the part of the
  code's buffer from `obufmark` to `obuflimit`. Queues are sequences (but for `Queue`). NULL is
  `NoMsg`. A fragmented message's source is the sequence of bytes its read
  callback has still to produce.
* **History variables**: `wire` (the frames sent), `accepted` (the messages queued
  successfully), `delivered` (calls of `on_msg_recv_callback`), `readShut`, and
  the counters `starts` and `ends` in `rx`; in
  `FrameRecv` `asked` (how many bytes the last read asked for) and `last` (what the
  last call returned); in `Queue` `order` (the cells in the order of the list).
* **Freed memory.** `wslay_event_imsg_reset` frees the queue of chunks and keeps the
  pointer. A later use is undefined; the model lets the process crash or go on
  as if the queue were there and empty, and `heap` records it. The properties of
  receiving are checked along the behaviours that go on.
* **Bytes.** `FrameRecv` has real bytes: heads are encoded and parsed, payloads are
  combined with the key by XOR. Lengths are written in digits of a small `Radix`
  instead of 256, in the code's 2 and 8 places, so that each form of length
  occurs with payloads of a few bytes. The peer's bytes are chosen in `Init`; how
  the socket cuts them is chosen read by read.
* **The operating system.** In `Reactor` memory and descriptors are given out again as
  soon as they are free, memory at any free address, descriptors lowest first.
  A closed descriptor leaves epoll. `EPOLLERR` and `EPOLLHUP` may be reported with
  anything at any time.
* Definitions introduced by "Mutant:" are variants a plausible slip in the code
  would produce. They are not used by the specifications; `PROJECT.json` names the
  property that notices each of them.

## Runs

| run | question | result |
|---|---|---|
| `frame_send` | do frames survive partial sends, masked and unmasked ones mixed? | holds, 25,917 states |
| `event_send_server` | all safety properties of sending, unmasked, with allocation failures | holds, 126,025 states |
| `event_send_client` | masked frames, longer fragments, Close frames queued as messages too; is everything sent eventually? | holds, 64,863 states |
| `utf8` | does the automaton accept UTF-8? | holds, 17,652 states |
| `event_recv` | all properties of receiving, with and without `on_msg_recv_callback`, with and without buffering, with allocation failures | holds, 545,174 states |
| `queue` | does the list implement a sequence? | holds, 85,405 states |
| `frame_recv` | does the parser implement `FrameSource`? | holds, 31,677 states |
| `echo_server` | one context, both directions, and an event loop: is everything echoed as long as memory lasts, and does closing end? | holds, 56,219 states |
| `reactor` | many connections in one process: memory, descriptors, registrations, with calls of `epoll_ctl` that fail | holds, 97,491 states |
| `event_recv_heap`, `event_recv_returns`, `event_recv_close` | does the code do what the header says? | it does not, see *Findings* |

The properties, by hazard:

* `FramesExact`, `KeysAligned`: payloads, order of frames, mask key, and no key in an
  unmasked frame unless a masked one was sent before it.
* `LayersInSync`: the offsets of the two layers agree between iterations.
* `DataArrivesIntact`, `ControlInOrder`: the peer reassembles the data messages that
  were queued, in order, byte for byte; control frames keep their order, a
  Close may overtake.
* `CountInv`, `GettersHonest`: the counters and what the getters report.
* `CloseIsLast`, `CloseNotLost`, `QueuedCloseIsLast`, `OnlyCloseBegins`: the end of
  the sending direction. `QueuedCloseIsLast` is about the Close of
  `wslay_event_queue_close`; one that is queued as a message is no barrier.
* `CloseIsSent`, `QueueDrains`: liveness.
* `DeliveredAsSent`, `TextVerdict`, `FramingVerdict`, `SizeVerdict`,
  `FrameCallbacksOnce`, `BufferInBounds`: what is delivered and what is refused,
  against a reassembly of the peer's frames written from RFC 6455.
* `PongForPing`, `FailureAnswered`, `CloseReceivedHonest`: what is answered.
* `MatchesRFC3629`: the UTF-8 table.
* `ListIntact`, `ImplementsSequence`: pointers and cells, and what the operations
  return.
* `NeverStuck`, `ProtoVerdict`, `ImplementsSource`: the parser always has room to read
  into and never holds a frame back, refuses exactly what is malformed, and
  passes on the peer's frames.
* `EchoFaithful`, `EchoAccepted`, `CleanExit`, `ErrorFresh`, `KeepsContract`, `ClosingEnds`:
  both directions together. `EchoFaithful` and `EchoAccepted` hold as long as memory does
  not run out: the callback ignores a refusal for want of memory, and that echo is
  lost. `CleanExit` says that a Close was sent, whoever began the closing. `ErrorFresh` settles the shared `ctx->error`: it is never
  reset between calls, and nothing goes wrong because the loop leaves with the
  first call that does not return 0.
* `NoFault`, `InterestExact`, `FdsOwned`, `ConnectionsEnd`: the reactor. `NoFault` holds
  because epoll reports a descriptor once per batch and a handler is only
  deleted in the handling of its own event. Any call of `epoll_ctl` may fail. For a new
  handler that means its deletion; for one that goes on, `EPOLL_CTL_MOD` is printed and
  forgotten (`echoserv.cc` 546-548) and the registration is `stale`: epoll may wait for
  what the handler no longer waits for. `InterestExact` says that there is no other
  way to be inexact, and `ConnectionsEnd` promises nothing to a connection in that state.

The three verdicts are about connections the library fails (`FailsWith`): a Close with
1002, 1007 or 1009 may also be the application's own, or the echo of one the peer
sent, and then says nothing about the frames.

Every module has a `TypeOK`. It is proved where there are proofs and is an
invariant of the same instances elsewhere; the runs spend their time on the
properties above.

### Bounds

* `CtrlMax` (125), `Ext16Limit` (2^16), `Ext63Limit` (2^63) and `OBufSize` (4096) are
  parameters with small values, kept in the code's order, so that every form of
  the header, every refusal and several fragments per message occur with
  payloads of at most 6 bytes. In `frame_send` a payload is long enough for the
  4-byte mask key to wrap round.
* `MaxMsgs` = 3 (2 for the client): one message being sent, one that preempts it, one that is
  overtaken; the smallest number with which a Close drops another control
  message while a fragmented message is under way. The client's application may
  queue a Close as a message too.
* `MaxFrames` = 3 when receiving: two fragments of a message and a control frame
  between them, or two messages after each other in the same slot. The set of
  frames has characters cut by frame and chunk boundaries, empty frames, frames
  that together exceed `max_recv_msg_length`, all kinds of Close (one of them with
  1002, a code the library itself fails connections with), and frames that break
  the protocol.
* `frame_recv`: two frames and perhaps a malformed head, all three forms of length at
  their boundaries, masked and unmasked; `ibuf` has 8 bytes (4096 in the code), the
  longest a stage may wait for, so that every read has to be preceded by a shift.
* `queue`: four cells, two values: lists of length 0, 1, 2 and more behave
  differently, and a cell freed by one operation is given out by the next.
* `echo_server`: three frames of the client, and a socket that may block, break, end
  or fail at every call. One frame is a Close whose status code may not be sent: it is
  not recorded as received, but answered with 1002, which is the one way to leave the
  loop that only a frame of this kind reaches.
* `reactor`: two connections and the listening socket, four addresses (a connection
  needs two of them while it changes handlers), `MAX_EVENTS` = 2 (64 in the code), so that
  a batch may leave a descriptor that is ready to the next one.
* `utf8` needs no bound: the states of the automaton are finite, and all 256 bytes
  are tried at each.

Deadlock is not checked in the runs that have an end: a connection that is
closed, or an application that has queued `MaxMsgs` messages, may stop.

### Fairness

`FairSpec` assumes weak fairness of `SendProgress`, an iteration of
`wslay_event_send` that puts a byte on the wire. That is three assumptions about
the application: it calls `wslay_event_send` as long as `wslay_event_want_write`
says so (the loop of every example and of the tutorial), its socket takes bytes
again and again, and its read callback has data again and again. The library
itself contributes nothing to fairness, it has no threads. `LazyEof = FALSE`
says that the read callback reports EOF with its last byte; with `TRUE`,
`QueueDrains` fails (see *Smaller differences*).

In `EchoServer` the process runs (weak fairness of every step but `poll`, which may
wait for ever). If `poll` is asked for `POLLOUT` again and again it reports it again
and again, and a socket that is writable again and again takes a byte again and
again (strong fairness of both: in between it may block). Nothing is assumed of
the client, which may never send another byte. `Reactor` assumes the same of each
connection's descriptor, and that the loop handles the events it was given. Nothing is
assumed of `epoll_ctl`.

## Findings

Each is a run that TLC refutes; `PROJECT.json` quotes the line it contradicts.

1. `event_recv_heap`: the queue of chunks freed by `wslay_event_imsg_reset` is used by
   the next message in the slot.
2. `event_recv_returns`: `wslay_event_queue_close` returns 1 where the negative
   `WSLAY_ERR_NO_MORE_MSG` is documented, which `wslay_event_queue_close_wrapper` does
   not expect. When both sides close at once, the peer's Close makes
   `wslay_event_recv` return 1 and is not delivered.
3. `event_recv_close`: the UTF-8 check of a Close skips two bytes of every chunk.

### Smaller differences

Met while modelling, and not given a run of their own.

* `queued_msg_count` ("Size of send_queue + size of send_ctrl_queue", `event.h` 195) keeps
  counting the control messages that are dropped in favour of a Close: `CountInv`
  holds with `>=` from then on.
* A read callback that reports EOF with 0 bytes (`event.h` 330) is not heard
  (`event.c` 603): its message never ends. That is `LazyEof = TRUE`.
* `omask` is set by the first masked frame and never cleared (`frame.c` 78): an unmasked
  frame sent after it with `wslay_frame_send` is combined with the old key under a
  mask bit of 0 (`frame.h` 106 only says that `mask` is 0 for an unmasked frame). The event
  layer never mixes the two. `FramesExact` states it as its one exception.
* A malformed head makes `wslay_event_recv` queue a Close and return
  `WSLAY_ERR_CALLBACK_FAILURE`. The loops of the examples leave on any value but 0, so
  that Close is never sent; `CleanExit` is silent about it because `res` is -1.
* `epoll_wait` is the one call of `echoserv.cc` that is not repeated after `EINTR`: a
  signal ends the reactor.
* "close control frame has been queued/sent and no further queueing message is not
  allowed" (`event.h` 308-311) holds for a Close that `wslay_event_queue_close` queued
  (`QueuedCloseIsLast`). That function alone sets `WSLAY_CLOSE_QUEUED` (`event.c` 193-195),
  so a Close queued with `wslay_event_queue_msg` (`event.h` 384 says it can be) does not
  stop further messages from being accepted, and those that are not sent before it
  never are.
* A failing `EPOLL_CTL_MOD` leaves the reactor with a stale registration
  (`echoserv.cc` 546-548), see `InterestExact`.
* Allocation failures
  return -1 or 1 rather than `WSLAY_ERR_NOMEM`; the default of `max_recv_msg_length` is
  `UINT64_MAX`, `event.h` 229 says 2^31-1; a reason of 123 bytes is accepted, `event.h` 388
  says "less than 123"; `wslay_event_config_set_callbacks` is declared and not defined.

## Proofs

TLAPS proves the safety of sending, receiving, the parser, the UTF-8 automaton, the
queue and the reactor, and how the two halves of a context work together in an event
loop, for every value of the constants: any buffer size, any limits, any
set of frames, any number of connections, with or without allocation failures.

| module | inductive invariant | theorems |
|---|---|---|
| `EventSendProofs` | `IInv`, below | `TypeCorrect`, `LayersStayInSync`, `QueuesStayWellFormed`, `CloseStaysLast`, `CloseStaysQueued`, `CountCorrect`, `OnlyCloseBeginsHolds`, `QueuedCloseStaysLast`; on top of it `DataInv`, `CtrlInv`, `GettersInv`: `DataMessagesArriveIntact`, `ControlMessagesStayInOrder`, `GettersStayHonest` |
| `FrameApiProofs` | `TypeOK /\ Exact(wire) /\ (~broken => InStep)`; on top of it `MaskInv` | `FramesStayExact`, `KeysStayAligned` |
| `EventRecvProofs` | `Inv`, below | `MessagesArriveAsSent`, `TextsJudgedRight`, `FramingJudgedRight`, `SizeJudgedRight`, `CallbacksCalledOnce`, `FailuresAreAnswered`, `PingsAreAnswered`, `ClosesAreRecordedRight`, `BuffersStayInBounds` |
| `FrameRecvProofs` | `RecvInv`, below | `FrameRecvImplementsFrameSource`, `ParserNeverStuck`, `VerdictIsRight`, `TypesHold` |
| `Utf8Proofs` | `ScanInv`: the state and the bytes of the character it is in belong together | `AutomatonDecidesUtf8`, `ScanTypesHold` |
| `QueueProofs` | `TypeOK /\ ListIntact` | `ListStaysIntact`, `ListImplementsSequence` |
| `ExampleProofs` | `Sound(st, NULL, {}) /\ BatchSound`, below | `NeverFaults`, `InterestStaysExact`, `FdsStayOwned`, `TypesHold` |
| | `EchoInv`, below; on top of it `HalvesInv` | `ContractKept`, `ErrorStaysFresh`, `DeliveredIsAccepted`, `EchoIsFaithful` |

### Sending

`EventSendProofs` rests on the inductive invariant

    IInv == TypeOK /\ HeaderIncomplete(frame_ctx) /\ LayersInSync
            /\ QueuesWellFormed /\ CloseIsLast /\ CloseNotLost /\ CountInv

No conjunct is inductive alone. That a call of `wslay_frame_send` is never refused
and writes the right bytes needs the event layer's offsets to agree with the
frame layer's (`LayersInSync`); that they agree after a preemption needs the put
back message to be a data message with a fragment to come (`QueuesWellFormed`);
that nothing follows a Close needs the frame on the wire to be that of `omsg`
(`LayersInSync` again); that the queue holds something to pop needs the Close not
to be lost; that the counter stays above the pending messages needs the pop to
shorten the queue. `HeaderIncomplete` says that in `SEND_HEADER` some header bytes are
left, without which a step could complete a header twice.

The argument goes layer by layer. `FrameSendProofs` characterises every outcome of
`wslay_frame_send` by one predicate, `Effect`: how much of header and payload left,
what the wire gained, where the context stands. `EventSendProofs` shows what
`Selected` yields (`SelectedLemma`: a message ready for the frame layer), that each way
an iteration can end re-establishes the invariant, and one lemma per action.

What the peer makes of the wire (`PeerView`) is proved on top of `IInv`, with one more
invariant per question:

* `DataInv`: what the peer has, completely or in part, is the first of the accepted
  data messages, and the others are what is still here (`DataInSync`): the
  rest of `omsg`, in `obuf`, in its source or in the frame under way, and then
  `send_queue`. A fragment may be in four places at once, so that this needs
  `FrameSync` (the frame under way is the last one on the wire, and ends with what the
  frame layer has left) and `AllSourcesDone` (a source has nothing behind the end it
  announced). A preempted message moves back to the front of the queue, with what
  it has left, and keeps its place in this order.
* `CtrlInv`: the same for control frames (`CtrlInSync`). They are never split, but a
  Close may be taken past the others, which are then never sent; so a Close is the
  last accepted message (`CloseEnds`), has the body `wslay_event_queue_close` gives it
  (`CloseBodies`), and ends the writing once it is sent.
* `GettersInv`: the queued length is at least that of the messages in the queues and in
  `omsg`, and exactly that until a Close is taken past others (`LengthOf`); the status
  code sent is that of the last frame on the wire once a Close was sent, 1006 before
  (`StatusOf`).

These were first checked as invariants on the instances of `MCEventSend`.

`ControlMessagesStayInOrder` and `GettersStayHonest` assume that the application sends
Close frames with `wslay_event_queue_close` only: one queued with
`wslay_event_queue_msg` sets no `WSLAY_CLOSE_QUEUED`, need not have a status code and may
be followed by others. `QueuedCloseStaysLast` assumes nothing of the application: once
the bit is set `wslay_event_is_msg_queueable` fails, and sending sets no bit but
`WSLAY_CLOSE_SENT` (`AcceptedLemma`).

`FrameApiProofs` follows the three stages of `wslay_frame_send`: no frame, a header or a
payload under way. Each stage ties `frame_ctx`, the last frame on the wire and the
application's place in its payload to each other (`InStep`), and each outcome of a
call leads from a stage to a stage. An application that was refused a call (`broken`)
does not go on, and its wire stays exact. `MaskInv` follows `omask`: it is set only if
a masked frame is on the wire or about to begin, so that the bytes of an unmasked
frame have a key only behind a masked one (`PayloadPlain`).

### Receiving

`Inv` in `EventRecvProofs` says, as long as reading is enabled (`InStep`), what RFC 6455
makes of the frames received whole (`Reassemble`) in terms of the context: between
frames slot 0 holds the bytes of the message that began, or nothing, and slot 1
nothing (`Ready`); inside a frame the current slot has room for exactly the payloads
of its message and the bytes received so far are in their place (`InFrame`), while
the other slot waits. The check of a text stands where the automaton stands after
the message's bytes so far (`InText`), across chunks, frames and the control frames
in between; `DecodeAllConcat` takes it over a chunk, and `DecodeAllJudges` turns its state
into UTF-8 or not, which is `TextVerdict`. Everything delivered is what `Reassemble` has. Once reading
stops only the histories and the answer to the peer are left, and they stay.

A chunk passes through the stages of the code: it is accepted or refused
(`OpenEffect`), counted against the limit and given room (`StartEffect`), checked
(`Utf8Effect`), stored (`StoreEffect`), and ends a frame (`FrameDoneEffect`) and perhaps a
message (`MessageDoneEffect`). `ChunkOutcome` and `MessageOutcome` list how an iteration
can come out, and one lemma per outcome re-establishes `Inv`: `GoingOnKeepsInv` if the
frame goes on, `AdvanceKeepsInv` if a frame or message is complete, `HaltKeepsInv` for
every way to stop reading. The properties that state a reason for a failure need
the reason at the moment of failing, and that nothing about the frames changes
afterwards (`AsideKeepsInv`).

The proof was also a test of the properties. The verdicts used to say
that a Close with 1002 or 1009 means a failure; that is false if the peer closes
with that code and it is echoed, a case the instance did not have. They are now
about `FailsWith`, and the instance has such a Close.

### The parser

`RecvInv` in `FrameRecvProofs` says, with `w` for what the peer sends (frames, key and
perhaps a malformed head), where the parser is:

    Where(ctx, ctx.ibuf \o stream, w, done)

The bytes in the buffer and those still in the socket, taken together, are what
follows in the stream: all after the frames passed on, if the parser is at
`RECV_HEADER1`; the same without the head, the length, the key or the part of the
payload already read, if it is inside a frame (`AtFrame`), and then the context holds
what it has read (opcode, length, key, offset) and `ireqread` is what the next stage
needs. A read moves bytes from the socket to the buffer, so that it changes nothing
of this (`Reads`). It makes "a call waits only if nothing is left to pass on" a
statement about the stream: whatever stage the parser is in, the stream holds at
least the bytes it waits for, so that it starves only behind the last frame
(`Starved`).

Below it lie three kinds of lemmas. Bytes and numbers: a head is taken apart as it was put
together (`HeadBits`), XOR with the key twice is the identity, and every length has the digits
that `be64toh` turns back into it. Streams: what follows the `d`-th frame is its
successor's bytes and what follows that (`RestExists`, by induction along the
frames). Stages: `HeadStep`, `LengthStep`, `KeyStep`, `ChunkStep`, one lemma for each
block of the function, which passes on to the next or returns. `RecvOutcome` chains
them: a call waits, refuses or passes a chunk on. From there the invariant and
`StepRefines`, that each outcome is a step of `FrameSource`, follow.

The assumption (`FrameRecvAssumption`) is that of the code: digits are at most bytes
(`Radix` even, 2 to 256), 7 bits and two digits hold more than `CtrlMax`, `ibuf` holds a length
of 8 bytes; and the peer's frames are well-formed up to the largest length there is
(`Radix8 \div 2`, 2^63 in the code), its malformed heads malformed.

### UTF-8

`DecodeAllJudges` in `Utf8Proofs`: for every text of any length, the automaton run over
it ends in `UTF8_ACCEPT` exactly if the text is UTF-8 as RFC 3629 defines it, and has not
ended in `UTF8_REJECT` exactly if the text can still become UTF-8. The table is
unfolded once, into `Begun`: which bytes may have led into each state. The grammar's
rows are told apart by their first byte, so that a partial character has one way
to go on. `DecodeAllConcat` says that a text may be checked in pieces. The modules that
extend `Utf8Proofs` for this or for its inductions see the variables of `Utf8Scan` too; no
specification of theirs mentions them.

### Queue and examples

`QueueProofs`: every operation on the list, step by step, keeps `top`, the cells and
`tail` in the order of a history sequence, also when `malloc` fails; the data along
that order is the state of `QueueSpec`.

The reactor in `ExampleProofs`: the body of the loop breaks the invariant for the handler it serves
and mends it before it ends. So it is stated with a hole: `Sound(st, p, held)` says of
every handler but `p` that all is well, and that the descriptors in `held` are `p`'s to
give away. Each call of the body moves one descriptor in or out of `held` or closes
the hole.

The echo server in `ExampleProofs`: `EchoInv` relates the two halves of a context through
what they share. While the process runs, the last call returned 0 and `error` holds no
failure; as long as it reads, it may queue (`write_enabled`, no `WSLAY_CLOSE_QUEUED`,
`NoFailureYet`) and there is no Close in the queues or in `omsg` (`QueuesFrom`), so that no
message sent can end writing; and the data messages accepted answer those delivered,
one for one, the last one excepted while its callback is about to run (`Told`). None of
these is inductive alone: that sending leaves writing enabled needs the queues free of
a Close, that an echo is accepted needs writing enabled, and that the loop stops
at the first failure is what keeps `error` clean. The proof needs to know only how an
iteration can come out: reading goes on, with at most a Pong more in the queue (`Continues`), or
ends, with a Close in the queue or an error (`Ends`; `RecvOutcome`); and what an
iteration of sending takes and reports (`Sends`; `SendOutcome`). Both are derived
from the whole of `wslay_event_recv` and `wslay_event_send`, stage by stage.
`DeliveredIsAccepted` and `EchoIsFaithful` assume that memory does not run out
(`~OutOfMemory`): the callback ignores a refusal, and an echo that cannot be allocated
is lost.

`EchoIsFaithful` joins all of this. `HalvesInv` says that each half of the context keeps
the invariant it has on its own: `IInv` and `DataInv` of `EventSendProofs`, `Inv` of
`EventRecvProofs`. The steps of the process are steps of `EventSend` or `EventRecv` seen
through the instances `PeerView` and `RecvView`, or queue a message as `EventSend`'s
application does; what a step does not touch keeps its invariant because nothing in it
has changed (the lemmas named `Same...` show that the operators of the instances
are those of the composition). Then the data messages on the wire are the first of those
accepted (`DataInv`), those accepted are those delivered (`EchoInv`), and those delivered
are what the client completed (`Inv`).

### Assumptions, and what is not proved

The constants' assumptions are in the modules that declare them, among them
`CtrlMaxAssumption`, `ExtLimitsAssumption`, `OutOfMemoryAssumption`,
`EventSendAssumption`, `EventRecvAssumption`, `FrameRecvAssumption`, `EchoServerAssumption`,
`ReactorAssumption` (there is an address for a handler, and a batch has room for an event).
`MaxMsgs` and `MaxLen` are at most 15 because
the model of sending numbers payload bytes with one byte, 16 per message.

Induction along a sequence is available although the library's induction
theorems are not: `LeastNat` gives induction over a *set* of numbers (`InductionUpTo`),
and `FoldExists` and `FoldAppend` give a fold's existence and its step. `Reassemble`,
`OfOpcode` and `Flatten` are recursive functions for that reason.

Only model-checked:

* liveness (TLAPS does not reason about fairness or `ENABLED` here);
* `CleanExit` in `EchoServer`: it relates why reading ended to the Close on the wire,
  which needs an invariant of its own about the body of that Close from its queueing to
  its last byte. An attempt at its proof showed that its first form was too narrow (a
  Close of the client whose status code may not be sent ends the process with 0 as
  well); the form that is checked, on an instance with such a Close, allows for it.

## Not modelled

* Callback adapters, setters and getters: they pass values on.
* talloc2 and the destructor of the context: an external allocator. Leaks (such as
  the messages a closed context still holds) are not a property here.
* Rsv bits in sending: the event layer always sends 0.
* `wslay_event_context_server_init`, which the examples call, belongs to the original
  library and is not in this repository; the models start with the context it
  would make (`wslay_server_new`). That it may fail, which the examples do not test,
  is not modelled.
* The HTTP handshake (its text, base64, SHA-1), the set-up of sockets and processes,
  and `testclient.cc`, a driver for a test suite whose loop is that of
  `fork-echoserv.c`.

## Plan

The modules above cover the library and its two example servers, and every safety
property the runs check is proved but `CleanExit`. What could follow is its proof, and
runs for the differences listed above that have none.
