------------------------------ MODULE Reactor ------------------------------
(***************************************************************************)
(* The server of examples/echoserv.cc: one process, many connections.  An  *)
(* epoll loop passes events to handler objects; a connection is served by  *)
(* three of them in turn, HttpHandshakeRecvHandler,                        *)
(* HttpHandshakeSendHandler and EchoWebSocketHandler, which hand its file  *)
(* descriptor on while it stays registered.                                *)
(*                                                                         *)
(* A step is the body of the loop for one event.  The wslay context of an  *)
(* EchoWebSocketHandler is what Endpoint says of it, and the HTTP header   *)
(* is complete, incomplete or wrong.  The std::set handlers is left out:   *)
(* it is never read.  Memory and descriptors that are freed are given out  *)
(* again, so that an old pointer or number may mean something new.         *)
(***************************************************************************)
EXTENDS Integers, Sequences, FiniteSets, Endpoint

CONSTANTS
    Ptrs,         \* the addresses of handlers
    NULL,
    Fds,          \* the file descriptors of the process, as numbers
    ListenFd,     \* sfd
    MAX_EVENTS    \*                                          (64 in the code)

ASSUME ReactorAssumption ==
    /\ Ptrs # {} /\ NULL \notin Ptrs
    /\ Fds \subseteq Nat /\ IsFiniteSet(Fds) /\ ListenFd \in Fds
    /\ MAX_EVENTS \in Nat \ {0}

VARIABLES
    st,           \* [handler: the handler at every address, open: the open
                  \*  descriptors, epoll: the registration of every descriptor,
                  \*  fault: freed memory was used or a descriptor closed twice]
    batch,        \* the events epoll_wait reported that are still to be handled
    running       \* reactor has not returned

vars == << st, batch, running >>

-----------------------------------------------------------------------------
(* Handlers *)

NoFd == -1

Kinds == { "free", "listen", "http_recv", "http_send", "echo" }

(* complete: accept_key_ is not empty, or all of resheaders_ was written.  *)
Handler == [ kind : Kinds, fd : Fds \cup {NoFd}, cfd : Fds \cup {NoFd},
             complete : BOOLEAN, ctx : Endpoint ]

NewHandler(kind, fd) ==
    [ kind |-> kind, fd |-> fd, cfd |-> NoFd, complete |-> FALSE, ctx |-> NewEndpoint ]

want_read(h) == h.kind \in {"listen", "http_recv"} \/ (h.kind = "echo" /\ h.ctx.rd)

want_write(h) == h.kind = "http_send" \/ (h.kind = "echo" /\ h.ctx.wr)

finish(h) ==
    \/ h.kind = "echo" /\ ~want_read(h) /\ ~want_write(h)
    \/ h.kind \in {"http_recv", "http_send"} /\ h.complete

(* What a callback may come to: the handler after it, and whether it       *)
(* returned 0.                                                             *)
Nothing(h) == { [ h |-> h, ok |-> TRUE ] }

(* accept takes the lowest descriptor there is, or fails.  The cfd_ that   *)
(* would be closed first is never there: NextHandler has taken it.         *)
ListenRead(h, open) ==
    { [ h |-> [ h EXCEPT !.cfd = f ], ok |-> TRUE ] :
      f \in { f \in Fds \ open : \A g \in Fds \ open : f <= g } \cup {NoFd} }

(* The header may be complete now, or wrong, too long or cut off.          *)
HttpRead(h) == { [ h |-> [ h EXCEPT !.complete = c ], ok |-> ok ] : c, ok \in BOOLEAN }

(* wslay_event_recv and wslay_event_send return 0 at once when there is    *)
(* nothing to do.                                                          *)
EchoRead(h) ==
    IF ~h.ctx.rd THEN Nothing(h)
    ELSE { [ h |-> [ h EXCEPT !.ctx = x ], ok |-> ~x.failed ] : x \in RecvCall(h.ctx) }

on_read_event(h, open) ==
    CASE h.kind = "listen" -> ListenRead(h, open)
      [] h.kind = "http_recv" -> HttpRead(h)
      [] h.kind = "echo" -> EchoRead(h)
      [] OTHER -> Nothing(h)

(* All of the answer may be written now, or the write fails.               *)
HttpWrite(h) == { [ h |-> [ h EXCEPT !.complete = c ], ok |-> ok ] : c, ok \in BOOLEAN }

EchoWrite(h) ==
    IF ~h.ctx.wr THEN Nothing(h)
    ELSE { [ h |-> [ h EXCEPT !.ctx = x ], ok |-> ~x.failed ] : x \in SendCall(h.ctx) }

on_write_event(h) ==
    CASE h.kind = "http_send" -> HttpWrite(h)
      [] h.kind = "echo" -> EchoWrite(h)
      [] OTHER -> Nothing(h)

-----------------------------------------------------------------------------
(* Descriptors, epoll and memory; w is st on its way through the body *)

(* stale: the last EPOLL_CTL_MOD failed, and events is what the handler    *)
(* waited for earlier.                                                     *)
NotRegistered == [ ptr |-> NULL, events |-> {}, stale |-> FALSE ]

(* Closing a descriptor removes its registration.                          *)
close(w, f) ==
    IF f = NoFd THEN w
    ELSE [ w EXCEPT !.open = @ \ {f}, !.epoll[f] = NotRegistered,
                    !.fault = @ \/ f \notin w.open ]

(* Mutant: the destructor of a handler that reads a header closes nothing. *)
DeleteLeaks(w, p) ==
    LET h == w.handler[p]
        freed == [ w EXCEPT !.handler[p] = NewHandler("free", NoFd) ]
    IN  IF h.kind = "http_recv" THEN freed ELSE close(close(freed, h.fd), h.cfd)

(* The destructors: each closes what its handler still holds (172-176,     *)
(* 285-290, 350-354, 431-434); shutdown changes nothing here.              *)
delete(w, p) ==
    LET h == w.handler[p]
    IN  close(close([ w EXCEPT !.handler[p] = NewHandler("free", NoFd) ], h.fd), h.cfd)

Interest(h) == (IF want_read(h) THEN {"IN"} ELSE {})
               \cup (IF want_write(h) THEN {"OUT"} ELSE {})

ctl_epollev(w, p) ==
    LET h == w.handler[p]
    IN  [ w EXCEPT !.epoll[h.fd] = [ ptr |-> p, events |-> Interest(h), stale |-> FALSE ] ]

(* Mutant: EEXIST is taken for success.                                    *)
AddOnly(w, p) ==
    IF w.epoll[w.handler[p].fd] # NotRegistered THEN { w }
    ELSE { ctl_epollev(w, p), delete(w, p) }

(* EPOLL_CTL_ADD fails with EEXIST for a descriptor that is registered,    *)
(* and then EPOLL_CTL_MOD is used.  Whichever of the two is called last    *)
(* may fail, and then the new handler is deleted.                          *)
AddOrModify(w, p) == { ctl_epollev(w, p), delete(w, p) }

(* The new handler is registered, at any free address.                     *)
StartHandler(w, kind, fd) ==
    UNION { AddOrModify([ w EXCEPT !.handler[q] = NewHandler(kind, fd) ], q) :
            q \in { q \in Ptrs : w.handler[q].kind = "free" } }

(* next(): the handler at p hands a descriptor on.  An accepted one that   *)
(* cannot be set up is closed.                                             *)
ListenNext(w, p) ==
    LET cfd == w.handler[p].cfd
        taken == [ w EXCEPT !.handler[p].cfd = NoFd ]
    IN  IF cfd = NoFd THEN { w }
        ELSE { close(taken, cfd) } \cup StartHandler(taken, "http_recv", cfd)

(* Mutant: the old handler keeps the descriptor it hands on.               *)
HttpRecvNextShares(w, p) ==
    IF ~finish(w.handler[p]) THEN { w }
    ELSE StartHandler(w, "http_send", w.handler[p].fd)

HttpRecvNext(w, p) ==
    IF ~finish(w.handler[p]) THEN { w }
    ELSE StartHandler([ w EXCEPT !.handler[p].fd = NoFd ], "http_send", w.handler[p].fd)

HttpSendNext(w, p) ==
    IF ~finish(w.handler[p]) THEN { w }
    ELSE StartHandler([ w EXCEPT !.handler[p].fd = NoFd ], "echo", w.handler[p].fd)

NextHandler(w, p) ==
    CASE w.handler[p].kind = "listen" -> ListenNext(w, p)
      [] w.handler[p].kind = "http_recv" -> HttpRecvNext(w, p)
      [] w.handler[p].kind = "http_send" -> HttpSendNext(w, p)
      [] OTHER -> { w }

(* EPOLL_CTL_MOD fails: that is printed, and the registration stays.       *)
ModifyFails(w, p) ==
    LET h == w.handler[p]
    IN  [ w EXCEPT !.epoll[h.fd].stale = w.epoll[h.fd].events # Interest(h) ]

(* Mutant: epoll is only told of handlers that read.                       *)
FinishOrModifyReaders(w, p) ==
    IF finish(w.handler[p]) THEN { delete(w, p) }
    ELSE IF want_read(w.handler[p]) THEN { ctl_epollev(w, p), ModifyFails(w, p) }
    ELSE { w }

(* What is left of the handler when its event is handled.                  *)
FinishOrModify(w, p) ==
    IF finish(w.handler[p]) THEN { delete(w, p) }
    ELSE { ctl_epollev(w, p), ModifyFails(w, p) }

-----------------------------------------------------------------------------
(* The loop *)

TypeOK ==
    /\ st \in [ handler : [ Ptrs -> Handler ], open : SUBSET Fds,
                epoll : [ Fds -> [ ptr : Ptrs \cup {NULL}, events : SUBSET {"IN", "OUT"},
                                   stale : BOOLEAN ] ],
                fault : BOOLEAN ]
    /\ batch \in Seq([ ptr : Ptrs \cup {NULL}, events : SUBSET {"IN", "OUT", "ERR"} ])
    /\ Len(batch) <= MAX_EVENTS
    /\ running \in BOOLEAN

(* The first handler; which address it gets makes no difference.           *)
Init ==
    /\ LET p == CHOOSE p \in Ptrs : TRUE
       IN  st = ctl_epollev(
                   [ handler |-> [ q \in Ptrs |-> IF q = p THEN NewHandler("listen", ListenFd)
                                                  ELSE NewHandler("free", NoFd) ],
                     open |-> {ListenFd},
                     epoll |-> [ f \in Fds |-> NotRegistered ],
                     fault |-> FALSE ], p)
    /\ batch = << >>
    /\ running = TRUE

(* Some descriptors are ready, each for something it is registered for, or *)
(* broken (EPOLLERR, EPOLLHUP).                                            *)
Reports(f) ==
    { [ ptr |-> st.epoll[f].ptr, events |-> e ] :
      e \in SUBSET (st.epoll[f].events \cup {"ERR"}) \ {{}} }

(* At most MAX_EVENTS descriptors, none of them twice, in any order.       *)
ReadyLists ==
    { s \in UNION { [ 1..n -> Fds ] : n \in 1..MAX_EVENTS } :
      \A i, j \in DOMAIN s : i # j => s[i] # s[j] }

epoll_wait(fds) ==
    /\ running /\ batch = << >>
    /\ \A i \in DOMAIN fds : st.epoll[fds[i]] # NotRegistered
    /\ batch' \in { b \in [ DOMAIN fds -> UNION { Reports(f) : f \in Fds } ] :
                    \A i \in DOMAIN fds : b[i] \in Reports(fds[i]) }
    /\ UNCHANGED << st, running >>

epoll_wait_fails ==
    /\ running /\ batch = << >>
    /\ running' = FALSE
    /\ UNCHANGED << st, batch >>

(* The callbacks an event asks for, the second only if the first went      *)
(* well: the handler after them, and whether it may go on.                 *)
Called(h, events, open) ==
    LET read == IF "IN" \in events THEN on_read_event(h, open)
                ELSE { [ h |-> h, ok |-> TRUE ] }
        both == UNION { IF r.ok /\ "OUT" \in events THEN on_write_event(r.h)
                        ELSE { r } : r \in read }
    IN  { [ h |-> r.h, ok |-> r.ok /\ "ERR" \notin events ] : r \in both }

(* st with the handler at p after its callbacks; accept has opened cfd.    *)
WithHandler(p, h) ==
    [ st EXCEPT !.handler[p] = h, !.open = @ \cup ({h.cfd} \ {NoFd}) ]

HandleEvent ==
    /\ running /\ batch # << >>
    /\ batch' = Tail(batch)
    /\ LET p == Head(batch).ptr
       IN  IF st.handler[p].kind = "free" THEN st' = [ st EXCEPT !.fault = TRUE ]
           ELSE \E r \in Called(st.handler[p], Head(batch).events, st.open) :
                  st' \in IF r.ok
                          THEN UNION { FinishOrModify(w, p) :
                                       w \in NextHandler(WithHandler(p, r.h), p) }
                          ELSE { delete(WithHandler(p, r.h), p) }
    /\ UNCHANGED running

Next == \/ \E fds \in ReadyLists : epoll_wait(fds)
        \/ epoll_wait_fails
        \/ HandleEvent

Spec == Init /\ [][Next]_vars

(* The process runs.  A socket that is waited for becomes writable again   *)
(* and again, and takes what there is to write at last.                    *)
Writable(f) == /\ "OUT" \in st.epoll[f].events
               /\ epoll_wait(<< f >>)
               /\ "OUT" \in batch'[1].events

Writes(f) ==
    /\ HandleEvent
    /\ LET p == Head(batch).ptr
       IN  /\ st.handler[p].fd = f /\ "OUT" \in Head(batch).events
           /\ st'.handler[p].kind = "free" \/ ~st'.handler[p].ctx.wr

FairSpec ==
    /\ Spec
    /\ WF_vars(HandleEvent)
    /\ \A f \in Fds \ {ListenFd} : SF_vars(Writable(f)) /\ SF_vars(Writes(f))

-----------------------------------------------------------------------------
(* Correctness *)

Live == { p \in Ptrs : st.handler[p].kind # "free" }

(* No handler is used after it was deleted, although events for other      *)
(* handlers wait in the batch while one is deleted and its memory and its  *)
(* descriptor are given out again, and no descriptor is closed twice,      *)
(* although three handlers hold it in turn (echoserv.cc 519-551).          *)
NoFault == ~st.fault /\ \A i \in 1..Len(batch) : batch[i].ptr \in Live

(* epoll holds the handler that owns a descriptor and waits for something  *)
(* on it, and for exactly what the handler waits for, unless the last      *)
(* EPOLL_CTL_MOD failed, which the code prints and forgets (echoserv.cc    *)
(* 481-495, 530-549).                                                      *)
InterestExact ==
    /\ \A p \in Live :
         LET h == st.handler[p]
         IN  /\ h.fd \in Fds /\ st.epoll[h.fd].ptr = p
             /\ st.epoll[h.fd].events # {}
             /\ ~st.epoll[h.fd].stale =>
                   /\ "IN" \in st.epoll[h.fd].events <=> want_read(h)
                   /\ "OUT" \in st.epoll[h.fd].events <=> want_write(h)
    /\ \A f \in Fds : st.epoll[f] # NotRegistered =>
                        st.epoll[f].ptr \in Live /\ st.handler[st.epoll[f].ptr].fd = f

(* No descriptor leaks: an open one belongs to exactly one handler,        *)
(* whichever call failed on the way (echoserv.cc 285-290, 350-354,         *)
(* 460-474, 532-538, 546-548).                                             *)
FdsOwned ==
    /\ st.open = { st.handler[p].fd : p \in Live }
    /\ Cardinality(st.open) = Cardinality(Live)

(* A connection on which the context no longer reads is closed in the end  *)
(* (echoserv.cc 542-548), unless the reactor returns or EPOLL_CTL_MOD      *)
(* fails: then epoll may wait for what the handler no longer waits for.    *)
Closing(f) == \E p \in Live : /\ st.handler[p].fd = f /\ st.handler[p].kind = "echo"
                              /\ ~st.handler[p].ctx.rd

ConnectionsEnd ==
    \A f \in Fds \ {ListenFd} :
        Closing(f) ~> ~Closing(f) \/ ~running \/ st.epoll[f].stale
=============================================================================
