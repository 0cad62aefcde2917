--------------------------- MODULE ExampleProofs ---------------------------
(***************************************************************************)
(* The two example servers.                                                *)
(*                                                                         *)
(* First the epoll loop of echoserv.cc, for any number of connections,     *)
(* addresses and events per batch: no handler is used after it was         *)
(* deleted, epoll knows what every handler waits for unless it refuses a   *)
(* change, and no descriptor leaks or is closed twice.                     *)
(*                                                                         *)
(* The body of the loop breaks the invariant for the handler it serves and *)
(* mends it before it ends.  So the invariant is stated with a hole: Sound *)
(* says of every handler but p that all is well, and that the descriptors  *)
(* in held are p's to give away.  Each call the body makes is shown to     *)
(* move held by one descriptor or to close the hole.                       *)
(*                                                                         *)
(* Then the process of fork-echoserv.c that serves one client, whatever    *)
(* frames the client sends and wherever the socket cuts them: the library  *)
(* keeps to Endpoint, which is all the loops rely on, the process leaves   *)
(* with the first failure, and it echoes every data message.  Each         *)
(* iteration of the library comes to one of two outcomes for receiving     *)
(* (Continues, Ends) and one for sending (Sends); the invariant (EchoInv)  *)
(* is kept by these alone.                                                 *)
(*                                                                         *)
(* Last, that what is on the wire is the echo.  The steps of the one       *)
(* context are steps of EventSend and of EventRecv, or leave them alone in *)
(* ways their invariants survive (HalvesInv), so all that was proved of    *)
(* each half is true here too; the echo loop joins the two.                *)
(***************************************************************************)
EXTENDS EchoServer, Reactor, Utf8Proofs, FiniteSetTheorems

Registration == [ ptr : Ptrs \cup {NULL}, events : SUBSET {"IN", "OUT"}, stale : BOOLEAN ]

State == [ handler : [ Ptrs -> Handler ], open : SUBSET Fds,
           epoll : [ Fds -> Registration ], fault : BOOLEAN ]

Event == [ ptr : Ptrs \cup {NULL}, events : SUBSET {"IN", "OUT", "ERR"} ]

IsLive(w, q) == w.handler[q].kind # "free"

(* reg is what epoll may hold for the handler h at q.                      *)
Fits(reg, q, h) ==
    /\ reg.ptr = q /\ reg.events # {}
    /\ reg.stale \/ reg.events = Interest(h)

(* The handler at q owns an open descriptor and waits for something on it. *)
InOrder(w, q) ==
    /\ w.handler[q].cfd = NoFd
    /\ w.handler[q].fd \in w.open
    /\ Fits(w.epoll[w.handler[q].fd], q, w.handler[q])

(* All is well but for the handler at p, which holds held: p = NULL and    *)
(* held = {} say that all is well.                                         *)
Sound(w, p, held) ==
    /\ w \in State /\ ~w.fault /\ held \subseteq w.open
    /\ \A q \in Ptrs \ {p} : IsLive(w, q) => InOrder(w, q) /\ w.handler[q].fd \notin held
    /\ \A f \in Fds : w.epoll[f] # NotRegistered =>
         /\ f \in w.open
         /\ w.epoll[f].ptr \in Ptrs
         /\ IF w.epoll[f].ptr = p THEN f \in held
            ELSE IsLive(w, w.epoll[f].ptr) /\ w.handler[w.epoll[f].ptr].fd = f
    /\ \A f \in w.open \ held : \E q \in Ptrs \ {p} : IsLive(w, q) /\ w.handler[q].fd = f

(* The events that wait are for different handlers, all of them there.     *)
BatchSound ==
    /\ batch \in Seq(Event) /\ Len(batch) <= MAX_EVENTS
    /\ \A i \in 1..Len(batch) : batch[i].ptr \in Ptrs /\ IsLive(st, batch[i].ptr)
    /\ \A i, j \in 1..Len(batch) : i # j => batch[i].ptr # batch[j].ptr

(* The inductive invariant.                                                *)
Inv == Sound(st, NULL, {}) /\ BatchSound /\ running \in BOOLEAN

-----------------------------------------------------------------------------
(* The operators, field by field *)

(* A handler fresh from its constructor.                                   *)
LEMMA NewHandlerType ==
    ASSUME NEW kind \in Kinds, NEW fd \in Fds \cup {NoFd}
    PROVE  /\ NewHandler(kind, fd) \in Handler
           /\ NewHandler(kind, fd).kind = kind /\ NewHandler(kind, fd).fd = fd
           /\ NewHandler(kind, fd).cfd = NoFd /\ NewHandler(kind, fd).ctx.rd = TRUE
  BY DEF NewHandler, Handler, NewEndpoint, Endpoint

(* NoFd is no descriptor.                                                 *)
LEMMA NoFdNotFd == NoFd \notin Fds
  BY ReactorAssumption DEF NoFd

(* Writing one handler.                                                    *)
LEMMA PutHandler ==
    ASSUME NEW w \in State, NEW q \in Ptrs, NEW h \in Handler
    PROVE  LET v == [ w EXCEPT !.handler[q] = h ]
           IN  /\ v \in State
               /\ v.open = w.open /\ v.epoll = w.epoll /\ v.fault = w.fault
               /\ v.handler[q] = h
               /\ \A r \in Ptrs \ {q} : v.handler[r] = w.handler[r]
<1> DEFINE hs == [ w.handler EXCEPT ![q] = h ]
           v == [ w EXCEPT !.handler[q] = h ]
<1>1. hs \in [ Ptrs -> Handler ] /\ hs[q] = h /\ \A r \in Ptrs \ {q} : hs[r] = w.handler[r]
  BY DEF State
<1>2. v = [ w EXCEPT !.handler = hs ]
  OBVIOUS
<1> HIDE DEF hs, v
<1>3. v \in State
  BY <1>1, <1>2 DEF State
<1>4. v.open = w.open /\ v.epoll = w.epoll /\ v.fault = w.fault /\ v.handler = hs
  BY <1>2 DEF State
<1> QED
  BY <1>1, <1>3, <1>4 DEF v

(* Closing a descriptor that is one.                                       *)
LEMMA CloseFields ==
    ASSUME NEW w \in State, NEW f \in Fds
    PROVE  LET v == close(w, f)
           IN  /\ v \in State
               /\ v.handler = w.handler
               /\ v.open = w.open \ {f}
               /\ v.epoll[f] = NotRegistered
               /\ \A g \in Fds \ {f} : v.epoll[g] = w.epoll[g]
               /\ ~w.fault /\ f \in w.open => ~v.fault
<1> DEFINE es == [ w.epoll EXCEPT ![f] = NotRegistered ]
           os == w.open \ {f}
           b == w.fault \/ f \notin w.open
           v == close(w, f)
<1>1. /\ es \in [ Fds -> Registration ]
      /\ es[f] = NotRegistered /\ \A g \in Fds \ {f} : es[g] = w.epoll[g]
  BY DEF State, NotRegistered, Registration
<1>2. os \in SUBSET Fds /\ b \in BOOLEAN
  BY DEF State
<1>3. v = [ w EXCEPT !.open = os, !.epoll = es, !.fault = b ]
  BY NoFdNotFd DEF close
<1>4. ~w.fault /\ f \in w.open => ~b
  OBVIOUS
<1> HIDE DEF es, os, b, v
<1>5. v \in State
  BY <1>1, <1>2, <1>3 DEF State
<1>6. v.handler = w.handler /\ v.open = os /\ v.epoll = es /\ v.fault = b
  BY <1>3 DEF State
<1> QED
  BY <1>1, <1>4, <1>5, <1>6 DEF v, os

(* Writing one registration.                                               *)
LEMMA PutRegistration ==
    ASSUME NEW w \in State, NEW f \in Fds, NEW reg \in Registration
    PROVE  LET v == [ w EXCEPT !.epoll[f] = reg ]
           IN  /\ v \in State
               /\ v.handler = w.handler /\ v.open = w.open /\ v.fault = w.fault
               /\ v.epoll[f] = reg
               /\ \A g \in Fds \ {f} : v.epoll[g] = w.epoll[g]
<1> DEFINE es == [ w.epoll EXCEPT ![f] = reg ]
           v == [ w EXCEPT !.epoll[f] = reg ]
<1>1. /\ es \in [ Fds -> Registration ]
      /\ es[f] = reg /\ \A g \in Fds \ {f} : es[g] = w.epoll[g]
  BY DEF State
<1>2. v = [ w EXCEPT !.epoll = es ]
  OBVIOUS
<1> HIDE DEF es, v
<1>3. v \in State
  BY <1>1, <1>2 DEF State
<1>4. v.handler = w.handler /\ v.open = w.open /\ v.fault = w.fault /\ v.epoll = es
  BY <1>2 DEF State
<1> QED
  BY <1>1, <1>3, <1>4 DEF v

(* Registering the handler at q for what it waits for.                     *)
LEMMA CtlFields ==
    ASSUME NEW w \in State, NEW q \in Ptrs, w.handler[q].fd \in Fds
    PROVE  LET v == ctl_epollev(w, q)
               f == w.handler[q].fd
           IN  /\ v \in State
               /\ v.handler = w.handler /\ v.open = w.open /\ v.fault = w.fault
               /\ v.epoll[f].ptr = q
               /\ Interest(w.handler[q]) # {} => Fits(v.epoll[f], q, w.handler[q])
               /\ \A g \in Fds \ {f} : v.epoll[g] = w.epoll[g]
<1> DEFINE f == w.handler[q].fd
           reg == [ ptr |-> q, events |-> Interest(w.handler[q]), stale |-> FALSE ]
<1>1. reg \in Registration /\ reg.ptr = q
  BY DEF Interest, Registration
<1>2. Interest(w.handler[q]) # {} => Fits(reg, q, w.handler[q])
  BY DEF Fits
<1>3. ctl_epollev(w, q) = [ w EXCEPT !.epoll[f] = reg ]
  BY DEF ctl_epollev
<1> HIDE DEF reg
<1> QED
  BY <1>1, <1>2, <1>3, PutRegistration

(* A failing EPOLL_CTL_MOD leaves the registration, and it fits if it is   *)
(* the handler's own.                                                      *)
LEMMA FailFields ==
    ASSUME NEW w \in State, NEW q \in Ptrs, w.handler[q].fd \in Fds,
           w.epoll[w.handler[q].fd].ptr = q, w.epoll[w.handler[q].fd].events # {}
    PROVE  LET v == ModifyFails(w, q)
               f == w.handler[q].fd
           IN  /\ v \in State
               /\ v.handler = w.handler /\ v.open = w.open /\ v.fault = w.fault
               /\ Fits(v.epoll[f], q, w.handler[q])
               /\ \A g \in Fds \ {f} : v.epoll[g] = w.epoll[g]
<1> DEFINE f == w.handler[q].fd
           old == w.epoll[f]
           reg == [ old EXCEPT !.stale = old.events # Interest(w.handler[q]) ]
<1>1. old \in Registration
  BY DEF State
<1>2. ModifyFails(w, q) = [ w EXCEPT !.epoll[f] = reg ]
  BY DEF ModifyFails
<1> HIDE DEF old
<1>3. reg \in Registration /\ reg.ptr = old.ptr /\ reg.events = old.events
      /\ (reg.stale \/ reg.events = Interest(w.handler[q]))
  BY <1>1 DEF Registration
<1>4. Fits(reg, q, w.handler[q])
  BY <1>3 DEF Fits, old
<1> HIDE DEF reg
<1> QED
  BY <1>2, <1>3, <1>4, PutRegistration

-----------------------------------------------------------------------------
(* Closing the hole *)

(* The handlers other than p that are there stay there.                    *)
Keeps(w, v, p) == \A q \in Ptrs \ {p} : IsLive(w, q) => IsLive(v, q)

(* The registrations of other descriptors than f stay as they are.         *)
Registered(w, v, f) == \A g \in Fds \ {f} : v.epoll[g] = w.epoll[g]

(* Whatever is written to the handler in the hole, the rest stays sound.   *)
LEMMA WriteInHole ==
    ASSUME NEW w, NEW p \in Ptrs, NEW held, Sound(w, p, held), NEW h \in Handler
    PROVE  LET v == [ w EXCEPT !.handler[p] = h ]
           IN  Sound(v, p, held) /\ v.handler[p] = h /\ Keeps(w, v, p)
<1> DEFINE v == [ w EXCEPT !.handler[p] = h ]
<1>1. /\ v \in State
      /\ v.open = w.open /\ v.epoll = w.epoll /\ v.fault = w.fault
      /\ v.handler[p] = h
      /\ \A r \in Ptrs \ {p} : v.handler[r] = w.handler[r]
  BY PutHandler DEF Sound
<1> HIDE DEF v
<1>2. Sound(v, p, held)
  BY <1>1 DEF Sound, IsLive, InOrder
<1>3. Keeps(w, v, p)
  BY <1>1 DEF Keeps, IsLive
<1> QED
  BY <1>1, <1>2, <1>3 DEF v

(* A descriptor that is held is closed: no fault, and it is held no more.  *)
LEMMA CloseHeld ==
    ASSUME NEW w, NEW p, NEW held, Sound(w, p, held), NEW f \in held
    PROVE  /\ Sound(close(w, f), p, held \ {f})
           /\ close(w, f).handler = w.handler
           /\ Keeps(w, close(w, f), p) /\ Registered(w, close(w, f), f)
<1> DEFINE v == close(w, f)
<1>1. w \in State /\ f \in Fds /\ f \in w.open /\ ~w.fault
  BY DEF Sound, State
<1>2. /\ v \in State
      /\ v.handler = w.handler
      /\ v.open = w.open \ {f}
      /\ v.epoll[f] = NotRegistered
      /\ \A g \in Fds \ {f} : v.epoll[g] = w.epoll[g]
      /\ ~v.fault
  BY <1>1, CloseFields
<1> HIDE DEF v
<1>3. \A q \in Ptrs : IsLive(v, q) <=> IsLive(w, q)
  BY <1>2 DEF IsLive
<1>4. ASSUME NEW q \in Ptrs \ {p}, IsLive(v, q)
      PROVE  InOrder(v, q) /\ v.handler[q].fd \notin held \ {f}
  <2>1. InOrder(w, q) /\ w.handler[q].fd \notin held
    BY <1>3, <1>4 DEF Sound
  <2>2. w.handler[q].fd # f /\ w.handler[q].fd \in Fds
    BY <1>1, <2>1 DEF InOrder, State
  <2> QED
    BY <1>2, <2>1, <2>2 DEF InOrder
<1>5. ASSUME NEW g \in Fds, v.epoll[g] # NotRegistered
      PROVE  /\ g \in v.open
             /\ v.epoll[g].ptr \in Ptrs
             /\ IF v.epoll[g].ptr = p THEN g \in held \ {f}
                ELSE IsLive(v, v.epoll[g].ptr) /\ v.handler[v.epoll[g].ptr].fd = g
  <2>1. g # f /\ v.epoll[g] = w.epoll[g]
    BY <1>2, <1>5
  <2>2. /\ g \in w.open
        /\ w.epoll[g].ptr \in Ptrs
        /\ IF w.epoll[g].ptr = p THEN g \in held
           ELSE IsLive(w, w.epoll[g].ptr) /\ w.handler[w.epoll[g].ptr].fd = g
    BY <1>5, <2>1 DEF Sound
  <2> QED
    BY <1>2, <1>3, <2>1, <2>2
<1>6. ASSUME NEW g \in v.open \ (held \ {f})
      PROVE  \E q \in Ptrs \ {p} : IsLive(v, q) /\ v.handler[q].fd = g
  <2>1. g \in w.open \ held
    BY <1>2
  <2> QED
    BY <1>2, <1>3, <2>1 DEF Sound
<1>7. held \ {f} \subseteq v.open
  BY <1>2 DEF Sound
<1>8. Sound(v, p, held \ {f})
  BY <1>2, <1>4, <1>5, <1>6, <1>7 DEF Sound
<1> QED
  BY <1>2, <1>3, <1>8 DEF v, Keeps, Registered

(* A handler that is gone and holds nothing leaves no hole.                *)
LEMMA FillFree ==
    ASSUME NEW w, NEW p \in Ptrs, Sound(w, p, {}), ~IsLive(w, p)
    PROVE  Sound(w, NULL, {})
  BY ReactorAssumption DEF Sound

(* The destructor closes what the handler holds.                           *)
LEMMA DeleteHole ==
    ASSUME NEW w, NEW p \in Ptrs, NEW held, Sound(w, p, held),
           held = { w.handler[p].fd, w.handler[p].cfd } \ {NoFd},
           w.handler[p].fd = w.handler[p].cfd => w.handler[p].fd = NoFd
    PROVE  Sound(delete(w, p), NULL, {}) /\ Keeps(w, delete(w, p), p)
<1> DEFINE h == w.handler[p]
           free == NewHandler("free", NoFd)
           v0 == [ w EXCEPT !.handler[p] = free ]
           v1 == close(v0, h.fd)
           v2 == close(v1, h.cfd)
<1>1. free \in Handler /\ free.kind = "free"
  <2>1. "free" \in Kinds /\ NoFd \in Fds \cup {NoFd}
    BY DEF Kinds
  <2> QED
    BY ONLY <2>1, NewHandlerType
<1> HIDE DEF free
<1>2. Sound(v0, p, held) /\ v0.handler[p] = free /\ Keeps(w, v0, p)
  BY <1>1, WriteInHole
<1>3. delete(w, p) = v2
  BY DEF delete, free
<1> HIDE DEF v0, h
<1>4. held = { h.fd, h.cfd } \ {NoFd} /\ (h.fd = h.cfd => h.fd = NoFd)
  BY DEF h
<1>5. Sound(v1, p, held \ {h.fd}) /\ v1.handler = v0.handler /\ Keeps(v0, v1, p)
  <2>1. CASE h.fd = NoFd
    <3>1. held \ {h.fd} = held /\ v1 = v0
      BY <1>4, <2>1 DEF close
    <3> QED
      BY <1>2, <3>1 DEF Keeps
  <2>2. CASE h.fd # NoFd
    <3>1. h.fd \in held
      BY <1>4, <2>2
    <3> QED
      BY <1>2, <3>1, CloseHeld
  <2> QED
    BY <2>1, <2>2
<1> HIDE DEF v1
<1>6. Sound(v2, p, {}) /\ v2.handler = v1.handler /\ Keeps(v1, v2, p)
  <2>1. CASE h.cfd = NoFd
    <3>1. held \ {h.fd} = {} /\ v2 = v1
      BY <1>4, <2>1 DEF close
    <3> QED
      BY <1>5, <3>1 DEF Keeps
  <2>2. CASE h.cfd # NoFd
    <3> DEFINE rest == held \ {h.fd}
    <3>1. h.cfd \in rest /\ rest \ {h.cfd} = {}
      BY <1>4, <2>2
    <3>2. Sound(v1, p, rest)
      BY <1>5
    <3> HIDE DEF rest
    <3>3. Sound(v2, p, rest \ {h.cfd}) /\ v2.handler = v1.handler /\ Keeps(v1, v2, p)
      BY <3>1, <3>2, CloseHeld
    <3> QED
      BY <3>1, <3>3
  <2> QED
    BY <2>1, <2>2
<1> HIDE DEF v2
<1>7. ~IsLive(v2, p)
  BY <1>1, <1>2, <1>5, <1>6 DEF IsLive
<1>8. Keeps(w, v2, p)
  BY <1>2, <1>5, <1>6 DEF Keeps
<1> QED
  BY <1>3, <1>6, <1>7, <1>8, FillFree

(* A handler whose one descriptor has a registration that fits is in       *)
(* order, and the hole is closed.                                          *)
LEMMA FitHole ==
    ASSUME NEW w, NEW p \in Ptrs, IsLive(w, p), Sound(w, p, { w.handler[p].fd }),
           w.handler[p].cfd = NoFd, NEW v \in State,
           v.handler = w.handler, v.open = w.open, v.fault = w.fault,
           Fits(v.epoll[w.handler[p].fd], p, w.handler[p]),
           \A g \in Fds \ { w.handler[p].fd } : v.epoll[g] = w.epoll[g]
    PROVE  Sound(v, NULL, {}) /\ Keeps(w, v, p)
<1> DEFINE f == w.handler[p].fd
<1>1. w \in State /\ f \in w.open /\ f \in Fds /\ ~w.fault
  BY DEF Sound, State
<1>2. /\ v \in State
      /\ v.handler = w.handler /\ v.open = w.open /\ v.fault = w.fault
      /\ Fits(v.epoll[f], p, w.handler[p]) /\ v.epoll[f].ptr = p
      /\ \A g \in Fds \ {f} : v.epoll[g] = w.epoll[g]
  BY <1>1 DEF Fits
<1>3. IsLive(w, p)
  OBVIOUS
<1>4. \A q \in Ptrs : IsLive(v, q) <=> IsLive(w, q)
  BY <1>2 DEF IsLive
<1>5. ASSUME NEW q \in Ptrs, IsLive(v, q) PROVE InOrder(v, q)
  <2>1. CASE q = p
    BY <1>1, <1>2, <2>1 DEF InOrder
  <2>2. CASE q # p
    <3>1. InOrder(w, q) /\ w.handler[q].fd # f /\ w.handler[q].fd \in Fds
      BY <1>1, <1>4, <1>5, <2>2 DEF Sound, InOrder, State
    <3> QED
      BY <1>2, <3>1 DEF InOrder
  <2> QED
    BY <2>1, <2>2
<1>6. ASSUME NEW g \in Fds, v.epoll[g] # NotRegistered
      PROVE  /\ g \in v.open /\ v.epoll[g].ptr \in Ptrs
             /\ IsLive(v, v.epoll[g].ptr) /\ v.handler[v.epoll[g].ptr].fd = g
  <2>1. CASE g = f
    <3>1. v.epoll[g].ptr = p
      BY <1>2, <2>1
    <3> QED
      BY <1>1, <1>2, <1>3, <1>4, <2>1, <3>1
  <2>2. CASE g # f
    <3>1. v.epoll[g] = w.epoll[g]
      BY <1>2, <2>2
    <3>2. /\ g \in w.open /\ w.epoll[g].ptr \in Ptrs
          /\ IF w.epoll[g].ptr = p THEN g \in {f}
             ELSE IsLive(w, w.epoll[g].ptr) /\ w.handler[w.epoll[g].ptr].fd = g
      BY <1>6, <3>1 DEF Sound
    <3> QED
      BY <1>2, <1>4, <2>2, <3>1, <3>2
  <2> QED
    BY <2>1, <2>2
<1>7. ASSUME NEW g \in v.open \ {}
      PROVE  \E q \in Ptrs \ {NULL} : IsLive(v, q) /\ v.handler[q].fd = g
  <2>1. CASE g = f
    BY <1>2, <1>3, <1>4, <2>1, ReactorAssumption
  <2>2. CASE g # f
    BY <1>2, <1>4, <2>2, ReactorAssumption DEF Sound
  <2> QED
    BY <2>1, <2>2
<1>8. ~v.fault /\ \A g \in Fds : v.epoll[g] # NotRegistered => v.epoll[g].ptr # NULL
  BY <1>1, <1>2, <1>6, ReactorAssumption
<1>9. Sound(v, NULL, {})
  BY <1>2, <1>5, <1>6, <1>7, <1>8 DEF Sound
<1> QED
  BY <1>4, <1>9 DEF Keeps

(* A handler that waits for something on the one descriptor it holds is    *)
(* registered for it.                                                      *)
LEMMA RegisterHole ==
    ASSUME NEW w, NEW p \in Ptrs, Sound(w, p, { w.handler[p].fd }),
           w.handler[p].cfd = NoFd, Interest(w.handler[p]) # {}
    PROVE  Sound(ctl_epollev(w, p), NULL, {}) /\ Keeps(w, ctl_epollev(w, p), p)
<1> DEFINE v == ctl_epollev(w, p)
<1>1. w \in State /\ w.handler[p].fd \in Fds
  BY DEF Sound, State
<1>2. /\ v \in State
      /\ v.handler = w.handler /\ v.open = w.open /\ v.fault = w.fault
      /\ Fits(v.epoll[w.handler[p].fd], p, w.handler[p])
      /\ \A g \in Fds \ { w.handler[p].fd } : v.epoll[g] = w.epoll[g]
  BY <1>1, CtlFields
<1>3. IsLive(w, p)
  BY DEF Interest, want_read, want_write, IsLive
<1> HIDE DEF v
<1>4. Sound(v, NULL, {}) /\ Keeps(w, v, p)
  BY <1>2, <1>3, FitHole
<1> QED
  BY <1>4 DEF v

(* A handler that is registered stays so when that cannot be changed.      *)
LEMMA FailHole ==
    ASSUME NEW w, NEW p \in Ptrs, IsLive(w, p), Sound(w, p, { w.handler[p].fd }),
           w.handler[p].cfd = NoFd,
           w.epoll[w.handler[p].fd].ptr = p, w.epoll[w.handler[p].fd].events # {}
    PROVE  Sound(ModifyFails(w, p), NULL, {}) /\ Keeps(w, ModifyFails(w, p), p)
<1> DEFINE v == ModifyFails(w, p)
<1>1. w \in State /\ w.handler[p].fd \in Fds
  BY DEF Sound, State
<1>2. /\ v \in State
      /\ v.handler = w.handler /\ v.open = w.open /\ v.fault = w.fault
      /\ Fits(v.epoll[w.handler[p].fd], p, w.handler[p])
      /\ \A g \in Fds \ { w.handler[p].fd } : v.epoll[g] = w.epoll[g]
  BY <1>1, FailFields
<1> HIDE DEF v
<1>3. Sound(v, NULL, {}) /\ Keeps(w, v, p)
  BY <1>2, FitHole
<1> QED
  BY <1>3 DEF v

-----------------------------------------------------------------------------
(* The parts of the body *)

(* The kinds that take a descriptor over.                                  *)
Successors == { "http_recv", "http_send", "echo" }

(* A new handler takes one of the descriptors that are held, whether epoll *)
(* has it already, takes it, or refuses it.                                *)
LEMMA StartFromHole ==
    ASSUME NEW w, NEW p \in Ptrs, IsLive(w, p), NEW held, Sound(w, p, held),
           NEW f \in held, NEW kind \in Successors,
           NEW v \in StartHandler(w, kind, f)
    PROVE  /\ Sound(v, p, held \ {f})
           /\ v.handler[p] = w.handler[p]
           /\ Keeps(w, v, p) /\ Registered(w, v, f)
<1> DEFINE new == NewHandler(kind, f)
<1>1. w \in State /\ f \in Fds /\ f \in w.open /\ ~w.fault /\ held \subseteq w.open
  BY DEF Sound, State
<1>2. PICK q \in Ptrs :
        /\ w.handler[q].kind = "free"
        /\ v \in AddOrModify([ w EXCEPT !.handler[q] = new ], q)
  BY Zenon DEF StartHandler
<1>3. q # p
  BY <1>2 DEF IsLive
<1>4. /\ new \in Handler /\ new.kind = kind /\ new.fd = f /\ new.cfd = NoFd
      /\ new.kind # "free" /\ Interest(new) # {}
  <2>1. kind \in Kinds /\ f \in Fds \cup {NoFd} /\ kind # "free"
    BY <1>1 DEF Kinds, Successors
  <2>2. /\ new \in Handler /\ new.kind = kind /\ new.fd = f /\ new.cfd = NoFd
        /\ new.ctx.rd = TRUE
    BY <2>1 DEF NewHandler, Handler, NewEndpoint, Endpoint
  <2> HIDE DEF new
  <2> QED
    BY <2>1, <2>2 DEF Interest, want_read, want_write, Successors
<1> HIDE DEF new
<1> DEFINE u == [ w EXCEPT !.handler[q] = new ]
<1>5. /\ u \in State
      /\ u.open = w.open /\ u.epoll = w.epoll /\ u.fault = w.fault
      /\ u.handler[q] = new
      /\ \A r \in Ptrs \ {q} : u.handler[r] = w.handler[r]
  BY <1>1, <1>4, PutHandler
<1>6. v \in { ctl_epollev(u, q), delete(u, q) }
  <2>1. v \in AddOrModify(u, q)
    BY <1>2
  <2> HIDE DEF u
  <2> QED
    BY <2>1, Zenon DEF AddOrModify
<1> HIDE DEF u
<1>7. CASE v = ctl_epollev(u, q)
  <2>1. /\ v \in State
        /\ v.handler = u.handler /\ v.open = u.open /\ v.fault = u.fault
        /\ Fits(v.epoll[f], q, new) /\ v.epoll[f].ptr = q
        /\ \A g \in Fds \ {f} : v.epoll[g] = u.epoll[g]
    <3>1. u.handler[q].fd = f /\ u.handler[q].fd \in Fds /\ Interest(u.handler[q]) # {}
      BY <1>1, <1>4, <1>5
    <3>2. /\ v \in State
          /\ v.handler = u.handler /\ v.open = u.open /\ v.fault = u.fault
          /\ v.epoll[f].ptr = q /\ Fits(v.epoll[f], q, u.handler[q])
          /\ \A g \in Fds \ {f} : v.epoll[g] = u.epoll[g]
      BY <1>5, <1>7, <3>1, CtlFields
    <3> QED
      BY <1>5, <3>2
  <2>2. /\ IsLive(v, q)
        /\ \A r \in Ptrs \ {q} : IsLive(v, r) <=> IsLive(w, r)
    BY <1>4, <1>5, <2>1 DEF IsLive
  <2>3. ASSUME NEW r \in Ptrs \ {p}, IsLive(v, r)
        PROVE  InOrder(v, r) /\ v.handler[r].fd \notin held \ {f}
    <3>1. CASE r = q
      BY <1>1, <1>4, <1>5, <2>1, <3>1 DEF InOrder
    <3>2. CASE r # q
      <4>1. InOrder(w, r) /\ w.handler[r].fd \notin held
        BY <2>2, <2>3, <3>2 DEF Sound
      <4>2. w.handler[r].fd \in Fds /\ w.handler[r].fd # f
        BY <1>1, <4>1 DEF InOrder, State
      <4> QED
        BY <1>5, <2>1, <3>2, <4>1, <4>2 DEF InOrder
    <3> QED
      BY <3>1, <3>2
  <2>4. ASSUME NEW g \in Fds, v.epoll[g] # NotRegistered
        PROVE  /\ g \in v.open
               /\ v.epoll[g].ptr \in Ptrs
               /\ IF v.epoll[g].ptr = p THEN g \in held \ {f}
                  ELSE IsLive(v, v.epoll[g].ptr) /\ v.handler[v.epoll[g].ptr].fd = g
    <3>1. CASE g = f
      <4>1. v.epoll[g].ptr = q
        BY <2>1, <3>1
      <4> QED
        BY <1>1, <1>3, <1>4, <1>5, <2>1, <2>2, <3>1, <4>1
    <3>2. CASE g # f
      <4>1. v.epoll[g] = w.epoll[g]
        BY <1>5, <2>1, <3>2
      <4>2. /\ g \in w.open
            /\ w.epoll[g].ptr \in Ptrs
            /\ IF w.epoll[g].ptr = p THEN g \in held
               ELSE IsLive(w, w.epoll[g].ptr) /\ w.handler[w.epoll[g].ptr].fd = g
        BY <2>4, <4>1 DEF Sound
      <4>3. w.epoll[g].ptr # p => w.epoll[g].ptr # q
        BY <1>2, <4>2 DEF IsLive
      <4> QED
        BY <1>5, <2>1, <2>2, <3>2, <4>1, <4>2, <4>3
    <3> QED
      BY <3>1, <3>2
  <2>5. ASSUME NEW g \in v.open \ (held \ {f})
        PROVE  \E r \in Ptrs \ {p} : IsLive(v, r) /\ v.handler[r].fd = g
    <3>1. CASE g = f
      BY <1>3, <1>4, <1>5, <2>1, <2>2, <3>1
    <3>2. CASE g # f
      <4>1. PICK r \in Ptrs \ {p} : IsLive(w, r) /\ w.handler[r].fd = g
        BY <1>5, <2>1, <3>2 DEF Sound
      <4>2. r # q
        BY <1>2, <4>1 DEF IsLive
      <4> QED
        BY <1>5, <2>1, <2>2, <4>1, <4>2
    <3> QED
      BY <3>1, <3>2
  <2>6. Sound(v, p, held \ {f})
    BY <1>1, <1>5, <2>1, <2>3, <2>4, <2>5 DEF Sound
  <2> QED
    BY <1>3, <1>5, <2>1, <2>2, <2>6 DEF Keeps, Registered
<1>8. CASE v = delete(u, q)
  <2> DEFINE free == NewHandler("free", NoFd)
             x == [ u EXCEPT !.handler[q] = free ]
  <2>1. free \in Handler /\ free.kind = "free"
    <3>1. "free" \in Kinds /\ NoFd \in Fds \cup {NoFd}
      BY DEF Kinds
    <3> QED
      BY ONLY <3>1, NewHandlerType
  <2>2. v = close(close(x, f), NoFd)
    BY <1>4, <1>5, <1>8, Zenon DEF delete
  <2>3. v = close(x, f)
    BY <2>2 DEF close
  <2> HIDE DEF free
  <2>4. /\ x \in State
        /\ x.open = u.open /\ x.epoll = u.epoll /\ x.fault = u.fault
        /\ x.handler[q] = free
        /\ \A r \in Ptrs \ {q} : x.handler[r] = u.handler[r]
    BY <1>5, <2>1, PutHandler
  <2> HIDE DEF x
  <2>5. /\ x.open = w.open /\ x.epoll = w.epoll /\ x.fault = w.fault
        /\ ~IsLive(x, q)
        /\ \A r \in Ptrs \ {q} : x.handler[r] = w.handler[r] /\ (IsLive(x, r) <=> IsLive(w, r))
    BY <1>5, <2>1, <2>4 DEF IsLive
  <2>6. \A r \in Ptrs : IsLive(x, r) => r # q /\ IsLive(w, r)
    BY <2>5
  <2>7. \A r \in Ptrs : IsLive(w, r) => r # q /\ IsLive(x, r)
    BY <1>2, <2>5 DEF IsLive
  <2>8. Sound(x, p, held)
    <3>1. ASSUME NEW r \in Ptrs \ {p}, IsLive(x, r)
          PROVE  InOrder(x, r) /\ x.handler[r].fd \notin held
      BY <2>5, <2>6, <3>1 DEF Sound, InOrder
    <3>2. ASSUME NEW g \in Fds, x.epoll[g] # NotRegistered
          PROVE  /\ g \in x.open
                 /\ x.epoll[g].ptr \in Ptrs
                 /\ IF x.epoll[g].ptr = p THEN g \in held
                    ELSE IsLive(x, x.epoll[g].ptr) /\ x.handler[x.epoll[g].ptr].fd = g
      <4>1. /\ g \in w.open
            /\ w.epoll[g].ptr \in Ptrs
            /\ IF w.epoll[g].ptr = p THEN g \in held
               ELSE IsLive(w, w.epoll[g].ptr) /\ w.handler[w.epoll[g].ptr].fd = g
        BY <2>5, <3>2 DEF Sound
      <4> QED
        BY <2>5, <2>7, <4>1
    <3>3. ASSUME NEW g \in x.open \ held
          PROVE  \E r \in Ptrs \ {p} : IsLive(x, r) /\ x.handler[r].fd = g
      BY <2>5, <2>7, <3>3 DEF Sound
    <3> QED
      BY <1>1, <2>4, <2>5, <3>1, <3>2, <3>3 DEF Sound
  <2>9. /\ Sound(v, p, held \ {f}) /\ v.handler = x.handler /\ Keeps(x, v, p)
        /\ Registered(x, v, f)
    BY <2>3, <2>8, CloseHeld
  <2> QED
    BY <1>3, <2>5, <2>7, <2>9 DEF Keeps, Registered
<1> QED
  BY <1>6, <1>7, <1>8

(* Filling in one field of a handler.                                      *)
LEMMA HandlerFields ==
    ASSUME NEW h \in Handler
    PROVE  /\ \A c \in BOOLEAN :
                /\ [ h EXCEPT !.complete = c ] \in Handler
                /\ [ h EXCEPT !.complete = c ].kind = h.kind
                /\ [ h EXCEPT !.complete = c ].fd = h.fd
                /\ [ h EXCEPT !.complete = c ].cfd = h.cfd
           /\ \A x \in Endpoint :
                /\ [ h EXCEPT !.ctx = x ] \in Handler
                /\ [ h EXCEPT !.ctx = x ].kind = h.kind
                /\ [ h EXCEPT !.ctx = x ].fd = h.fd
                /\ [ h EXCEPT !.ctx = x ].cfd = h.cfd
           /\ \A f \in Fds \cup {NoFd} :
                /\ [ h EXCEPT !.cfd = f ] \in Handler
                /\ [ h EXCEPT !.cfd = f ].kind = h.kind
                /\ [ h EXCEPT !.cfd = f ].fd = h.fd
                /\ [ h EXCEPT !.cfd = f ].cfd = f
                /\ [ h EXCEPT !.cfd = f ].complete = h.complete
                /\ [ h EXCEPT !.cfd = f ].ctx = h.ctx
           /\ \A f \in Fds \cup {NoFd} :
                /\ [ h EXCEPT !.fd = f ] \in Handler
                /\ [ h EXCEPT !.fd = f ].kind = h.kind
                /\ [ h EXCEPT !.fd = f ].fd = f
                /\ [ h EXCEPT !.fd = f ].cfd = h.cfd
                /\ [ h EXCEPT !.fd = f ].complete = h.complete
                /\ [ h EXCEPT !.fd = f ].ctx = h.ctx
<1>1. ASSUME NEW c \in BOOLEAN PROVE [ h EXCEPT !.complete = c ] \in Handler
  BY DEF Handler
<1>2. ASSUME NEW x \in Endpoint PROVE [ h EXCEPT !.ctx = x ] \in Handler
  BY DEF Handler
<1>3. ASSUME NEW f \in Fds \cup {NoFd} PROVE [ h EXCEPT !.cfd = f ] \in Handler
  BY DEF Handler
<1>4. ASSUME NEW f \in Fds \cup {NoFd} PROVE [ h EXCEPT !.fd = f ] \in Handler
  BY DEF Handler
<1> QED
  BY <1>1, <1>2, <1>3, <1>4 DEF Handler

(* A handler after a callback is the same one, on the same descriptor; the *)
(* listening one may have accepted a descriptor that was not open.         *)
SameOne(h, g, open) ==
    /\ g \in Handler /\ g.kind = h.kind /\ g.fd = h.fd
    /\ \/ g.cfd = NoFd
       \/ h.kind = "listen" /\ g.cfd \in Fds \ open

(* The callbacks for reading (echoserv.cc 177-183, 355-394, 435-444).      *)
LEMMA ReadCallback ==
    ASSUME NEW h \in Handler, h.cfd = NoFd, NEW open, NEW r \in on_read_event(h, open)
    PROVE  SameOne(h, r.h, open) /\ r.ok \in BOOLEAN
<1>1. CASE h.kind = "listen"
  <2>1. PICK f \in (Fds \ open) \cup {NoFd} : r = [ h |-> [ h EXCEPT !.cfd = f ], ok |-> TRUE ]
    BY <1>1 DEF on_read_event, ListenRead
  <2>2. r.h = [ h EXCEPT !.cfd = f ] /\ r.ok = TRUE /\ f \in Fds \cup {NoFd}
    BY <2>1
  <2>3. r.h \in Handler /\ r.h.kind = h.kind /\ r.h.fd = h.fd /\ r.h.cfd = f
    BY <2>2, HandlerFields
  <2>4. f = NoFd \/ f \in Fds \ open
    BY <2>1
  <2> QED
    BY <1>1, <2>2, <2>3, <2>4 DEF SameOne
<1>2. CASE h.kind = "http_recv"
  <2>1. PICK c \in BOOLEAN, ok \in BOOLEAN : r = [ h |-> [ h EXCEPT !.complete = c ], ok |-> ok ]
    BY <1>2 DEF on_read_event, HttpRead
  <2>2. r.h = [ h EXCEPT !.complete = c ] /\ r.ok \in BOOLEAN
    BY <2>1
  <2> QED
    BY <2>2, HandlerFields DEF SameOne
<1>3. CASE h.kind = "echo" /\ h.ctx.rd
  <2>1. PICK x \in RecvCall(h.ctx) : r = [ h |-> [ h EXCEPT !.ctx = x ], ok |-> ~x.failed ]
    BY <1>3 DEF on_read_event, EchoRead
  <2>2. r.h = [ h EXCEPT !.ctx = x ] /\ r.ok \in BOOLEAN /\ x \in Endpoint
    BY <2>1 DEF RecvCall, Endpoint
  <2> QED
    BY <2>2, HandlerFields DEF SameOne
<1>4. CASE ~( \/ h.kind \in {"listen", "http_recv"}
              \/ h.kind = "echo" /\ h.ctx.rd )
  <2>1. r = [ h |-> h, ok |-> TRUE ]
    BY <1>4 DEF on_read_event, EchoRead, Nothing
  <2> QED
    BY <2>1 DEF SameOne
<1> QED
  BY <1>1, <1>2, <1>3, <1>4

(* The callbacks for writing (echoserv.cc 184-190, 294-315).               *)
LEMMA WriteCallback ==
    ASSUME NEW h \in Handler, NEW r \in on_write_event(h)
    PROVE  /\ r.h \in Handler /\ r.h.kind = h.kind /\ r.h.fd = h.fd /\ r.h.cfd = h.cfd
           /\ r.ok \in BOOLEAN
<1>1. CASE h.kind = "http_send"
  <2>1. PICK c \in BOOLEAN, ok \in BOOLEAN : r = [ h |-> [ h EXCEPT !.complete = c ], ok |-> ok ]
    BY <1>1 DEF on_write_event, HttpWrite
  <2>2. r.h = [ h EXCEPT !.complete = c ] /\ r.ok \in BOOLEAN
    BY <2>1
  <2> QED
    BY <2>2, HandlerFields
<1>2. CASE h.kind = "echo" /\ h.ctx.wr
  <2>1. PICK x \in SendCall(h.ctx) : r = [ h |-> [ h EXCEPT !.ctx = x ], ok |-> ~x.failed ]
    BY <1>2 DEF on_write_event, EchoWrite
  <2>2. r.h = [ h EXCEPT !.ctx = x ] /\ r.ok \in BOOLEAN /\ x \in Endpoint
    BY <2>1 DEF SendCall, Endpoint
  <2> QED
    BY <2>2, HandlerFields
<1>3. CASE ~(h.kind = "http_send" \/ (h.kind = "echo" /\ h.ctx.wr))
  <2>1. r = [ h |-> h, ok |-> TRUE ]
    BY <1>3 DEF on_write_event, EchoWrite, Nothing
  <2> QED
    BY <2>1
<1> QED
  BY <1>1, <1>2, <1>3

(* Both callbacks of an event (echoserv.cc 521-523).                       *)
LEMMA CalledEffect ==
    ASSUME NEW h \in Handler, h.cfd = NoFd, NEW events, NEW open,
           NEW r \in Called(h, events, open)
    PROVE  SameOne(h, r.h, open) /\ r.ok \in BOOLEAN
<1> DEFINE read == IF "IN" \in events THEN on_read_event(h, open)
                   ELSE { [ h |-> h, ok |-> TRUE ] }
           both == UNION { IF x.ok /\ "OUT" \in events THEN on_write_event(x.h)
                           ELSE { x } : x \in read }
<1>1. PICK y \in both : r = [ h |-> y.h, ok |-> y.ok /\ "ERR" \notin events ]
  BY Zenon DEF Called
<1>2. PICK x \in read : y \in IF x.ok /\ "OUT" \in events THEN on_write_event(x.h) ELSE { x }
  BY <1>1, Zenon
<1>3. SameOne(h, x.h, open) /\ x.ok \in BOOLEAN
  <2>1. CASE "IN" \in events
    BY <1>2, <2>1, ReadCallback
  <2>2. CASE ~("IN" \in events)
    <3>1. x = [ h |-> h, ok |-> TRUE ]
      BY <1>2, <2>2
    <3> QED
      BY <3>1 DEF SameOne
  <2> QED
    BY <2>1, <2>2
<1> HIDE DEF read, both
<1>4. SameOne(h, y.h, open) /\ y.ok \in BOOLEAN
  <2>1. CASE x.ok /\ "OUT" \in events
    <3>1. y \in on_write_event(x.h) /\ x.h \in Handler
      BY <1>2, <1>3, <2>1 DEF SameOne
    <3>2. /\ y.h \in Handler /\ y.h.kind = x.h.kind /\ y.h.fd = x.h.fd /\ y.h.cfd = x.h.cfd
          /\ y.ok \in BOOLEAN
      BY <3>1, WriteCallback
    <3> QED
      BY <1>3, <3>2 DEF SameOne
  <2>2. CASE ~(x.ok /\ "OUT" \in events)
    <3>1. y = x
      BY <1>2, <2>2
    <3> QED
      BY <1>3, <3>1
  <2> QED
    BY <2>1, <2>2
<1>5. r.h = y.h /\ r.ok \in BOOLEAN
  BY <1>1
<1> QED
  BY <1>4, <1>5

(* The callbacks open the hole: the handler holds its descriptor and what  *)
(* it accepted.                                                            *)
LEMMA OpenHole ==
    ASSUME Sound(st, NULL, {}), NEW p \in Ptrs, IsLive(st, p),
           NEW h, SameOne(st.handler[p], h, st.open)
    PROVE  LET w == WithHandler(p, h)
           IN  /\ Sound(w, p, { h.fd, h.cfd } \ {NoFd})
               /\ w.handler[p] = h
               /\ Keeps(st, w, p)
               /\ h.fd \in Fds /\ h.fd # h.cfd
               /\ w.epoll[h.fd].ptr = p /\ w.epoll[h.fd].events # {}
<1> DEFINE got == { h.cfd } \ {NoFd}
           hs == [ st.handler EXCEPT ![p] = h ]
           os == st.open \cup got
           w == WithHandler(p, h)
           f == h.fd
<1>1. st \in State /\ ~st.fault /\ h \in Handler /\ p # NULL
  BY ReactorAssumption DEF Sound, SameOne
<1>2. InOrder(st, p) /\ f = st.handler[p].fd
  BY <1>1 DEF Sound, SameOne
<1>3. /\ f \in st.open /\ f \in Fds /\ f # NoFd
      /\ st.epoll[f].ptr = p /\ st.epoll[f].events # {}
  BY <1>1, <1>2, NoFdNotFd DEF InOrder, State, Fits
<1>4. got \subseteq Fds /\ got \cap st.open = {} /\ f # h.cfd
  BY <1>3 DEF SameOne
<1>5. /\ hs \in [ Ptrs -> Handler ] /\ hs[p] = h /\ os \in SUBSET Fds
      /\ \A q \in Ptrs \ {p} : hs[q] = st.handler[q]
  BY <1>1, <1>4 DEF State
<1>6. w = [ st EXCEPT !.handler = hs, !.open = os ]
  BY DEF WithHandler
<1> HIDE DEF hs, os, w
<1>7. w \in State
  BY <1>1, <1>5, <1>6 DEF State
<1>8. w.handler = hs /\ w.open = os /\ w.epoll = st.epoll /\ w.fault = st.fault
  BY <1>1, <1>6 DEF State
<1>9. \A q \in Ptrs \ {p} : w.handler[q] = st.handler[q] /\ (IsLive(w, q) <=> IsLive(st, q))
  BY <1>5, <1>8 DEF IsLive
<1> DEFINE held == { h.fd, h.cfd } \ {NoFd}
<1>10. held = {f} \cup got
  BY <1>3
<1> HIDE DEF held, got
<1>11. w.open = st.open \cup got
  BY <1>8 DEF os
<1>12. ASSUME NEW q \in Ptrs \ {p}, IsLive(w, q)
       PROVE  InOrder(w, q) /\ w.handler[q].fd \notin held
  <2>1. InOrder(st, q)
    BY <1>9, <1>12, ReactorAssumption DEF Sound
  <2>2. st.handler[q].fd # f
    BY <1>3, <2>1 DEF InOrder, Fits
  <2> QED
    BY <1>4, <1>8, <1>9, <1>10, <1>11, <2>1, <2>2 DEF InOrder
<1>13. ASSUME NEW g \in Fds, w.epoll[g] # NotRegistered
       PROVE  /\ g \in w.open
              /\ w.epoll[g].ptr \in Ptrs
              /\ IF w.epoll[g].ptr = p THEN g \in held
                 ELSE IsLive(w, w.epoll[g].ptr) /\ w.handler[w.epoll[g].ptr].fd = g
  <2>1. /\ g \in st.open /\ st.epoll[g].ptr \in Ptrs
        /\ IsLive(st, st.epoll[g].ptr) /\ st.handler[st.epoll[g].ptr].fd = g
    BY <1>8, <1>13, ReactorAssumption DEF Sound
  <2>2. st.epoll[g].ptr = p => g \in held
    BY <1>2, <1>10, <2>1
  <2> QED
    BY <1>8, <1>9, <1>11, <2>1, <2>2
<1>14. ASSUME NEW g \in w.open \ held
       PROVE  \E q \in Ptrs \ {p} : IsLive(w, q) /\ w.handler[q].fd = g
  <2>1. g \in st.open /\ g # f
    BY <1>10, <1>11
  <2>2. PICK q \in Ptrs : IsLive(st, q) /\ st.handler[q].fd = g
    BY <2>1 DEF Sound
  <2>3. q # p
    BY <1>2, <2>1, <2>2
  <2> QED
    BY <1>9, <2>2, <2>3
<1>15. Sound(w, p, held)
  BY <1>1, <1>3, <1>7, <1>8, <1>10, <1>11, <1>12, <1>13, <1>14 DEF Sound
<1>16. w.handler[p] = h
  BY <1>5, <1>8
<1>17. Keeps(st, w, p)
  BY <1>9 DEF Keeps
<1> QED
  BY <1>3, <1>4, <1>8, <1>15, <1>16, <1>17 DEF w, held

(* After next() the handler is done for and holds what its destructor will *)
(* close, or it waits for something on the one descriptor it holds.        *)
LEMMA NextEffect ==
    ASSUME NEW w, NEW p \in Ptrs, IsLive(w, p),
           NEW h, w.handler[p] = h,
           Sound(w, p, { h.fd, h.cfd } \ {NoFd}),
           h.fd \in Fds, h.fd # h.cfd, h.cfd = NoFd \/ h.kind = "listen",
           NEW v \in NextHandler(w, p)
    PROVE  LET g == v.handler[p]
           IN  /\ Sound(v, p, { g.fd, g.cfd } \ {NoFd})
               /\ Keeps(w, v, p)
               /\ g.fd = g.cfd => g.fd = NoFd
               /\ ~finish(g) => /\ g.cfd = NoFd /\ g.fd \in Fds /\ Interest(g) # {}
                                /\ IsLive(v, p)
                                /\ g.fd = h.fd /\ v.epoll[g.fd] = w.epoll[g.fd]
<1>1. w \in State /\ h \in Handler /\ Keeps(w, w, p)
  BY DEF Sound, State, Keeps
<1>2. h.kind \in Kinds /\ h.kind # "free" /\ h.fd # NoFd /\ h.cfd \in Fds \cup {NoFd}
  BY <1>1, NoFdNotFd DEF Handler, IsLive
<1>3. CASE h.kind = "listen" /\ h.cfd # NoFd
  <2> DEFINE g == [ h EXCEPT !.cfd = NoFd ]
             taken == [ w EXCEPT !.handler[p] = g ]
             held == { h.fd, h.cfd } \ {NoFd}
  <2>1. g \in Handler /\ g.kind = "listen" /\ g.fd = h.fd /\ g.cfd = NoFd
    BY <1>1, <1>3, HandlerFields
  <2>2. taken = [ w EXCEPT !.handler[p].cfd = NoFd ]
    BY <1>1 DEF State
  <2>3. v \in { close(taken, h.cfd) } \cup StartHandler(taken, "http_recv", h.cfd)
    BY <1>3, <2>2 DEF NextHandler, ListenNext
  <2> HIDE DEF g
  <2>4. /\ Sound(taken, p, held) /\ taken.handler[p] = g /\ Keeps(w, taken, p)
        /\ taken.epoll = w.epoll
    BY <1>1, <2>1, WriteInHole, PutHandler
  <2>5. IsLive(taken, p)
    BY <2>1, <2>4 DEF IsLive
  <2>6. h.cfd \in held /\ held \ {h.cfd} = { g.fd, g.cfd } \ {NoFd}
    BY <1>2, <1>3, <2>1
  <2> HIDE DEF taken, held
  <2>7. /\ Sound(v, p, held \ {h.cfd}) /\ v.handler[p] = g /\ Keeps(taken, v, p)
        /\ Registered(taken, v, h.cfd)
    <3>1. CASE v = close(taken, h.cfd)
      <4>1. /\ Sound(v, p, held \ {h.cfd}) /\ v.handler = taken.handler
            /\ Keeps(taken, v, p) /\ Registered(taken, v, h.cfd)
        BY <2>4, <2>6, <3>1, CloseHeld
      <4> QED
        BY <2>4, <4>1
    <3>2. CASE v \in StartHandler(taken, "http_recv", h.cfd)
      <4>1. /\ Sound(v, p, held \ {h.cfd}) /\ v.handler[p] = taken.handler[p]
            /\ Keeps(taken, v, p) /\ Registered(taken, v, h.cfd)
        <5>1. "http_recv" \in Successors
          BY DEF Successors
        <5>2. p \in Ptrs /\ h.cfd \in held /\ Sound(taken, p, held) /\ IsLive(taken, p)
          BY <2>4, <2>5, <2>6
        <5> QED
          BY ONLY <3>2, <5>1, <5>2, StartFromHole, Zenon
      <4> QED
        BY <2>4, <4>1
    <3> QED
      BY <2>3, <3>1, <3>2
  <2>8. Interest(g) # {}
    BY <2>1 DEF Interest, want_read
  <2>9. Keeps(w, v, p)
    BY <2>4, <2>7 DEF Keeps
  <2>10. IsLive(v, p) /\ g.fd = h.fd /\ v.epoll[g.fd] = w.epoll[g.fd]
    BY <2>1, <2>4, <2>7 DEF IsLive, Registered
  <2> QED
    BY <1>2, <2>1, <2>6, <2>7, <2>8, <2>9, <2>10
<1>4. CASE h.kind \in {"http_recv", "http_send"} /\ finish(h)
  <2> DEFINE g == [ h EXCEPT !.fd = NoFd ]
             taken == [ w EXCEPT !.handler[p] = g ]
             held == { h.fd, h.cfd } \ {NoFd}
             kind == IF h.kind = "http_recv" THEN "http_send" ELSE "echo"
  <2>1. /\ g \in Handler /\ g.kind = h.kind /\ g.fd = NoFd /\ g.cfd = h.cfd
        /\ g.complete = h.complete
    BY <1>1, HandlerFields
  <2>2. taken = [ w EXCEPT !.handler[p].fd = NoFd ]
    BY <1>1 DEF State
  <2>3. v \in StartHandler(taken, kind, h.fd)
    BY <1>4, <2>2 DEF NextHandler, HttpRecvNext, HttpSendNext
  <2>4. kind \in Successors
    BY DEF Successors
  <2> HIDE DEF g, kind
  <2>5. Sound(taken, p, held) /\ taken.handler[p] = g /\ Keeps(w, taken, p)
    BY <2>1, WriteInHole
  <2>6. IsLive(taken, p)
    BY <1>2, <2>1, <2>5 DEF IsLive
  <2>7. g.cfd = NoFd /\ h.fd \in held /\ held \ {h.fd} = { g.fd, g.cfd } \ {NoFd}
    BY <1>2, <1>4, <2>1
  <2> HIDE DEF taken, held
  <2>8. Sound(v, p, held \ {h.fd}) /\ v.handler[p] = g /\ Keeps(taken, v, p)
    <3>1. Sound(v, p, held \ {h.fd}) /\ v.handler[p] = taken.handler[p] /\ Keeps(taken, v, p)
      <4>1. p \in Ptrs /\ h.fd \in held /\ Sound(taken, p, held) /\ IsLive(taken, p)
        BY <2>5, <2>6, <2>7
      <4> QED
        BY ONLY <2>3, <2>4, <4>1, StartFromHole, Zenon
    <3> QED
      BY <2>5, <3>1
  <2>9. finish(g)
    BY <1>4, <2>1 DEF finish
  <2>10. Keeps(w, v, p)
    BY <2>5, <2>8 DEF Keeps
  <2> QED
    BY <2>1, <2>7, <2>8, <2>9, <2>10
<1>5. CASE ~( \/ h.kind = "listen" /\ h.cfd # NoFd
              \/ h.kind \in {"http_recv", "http_send"} /\ finish(h) )
  <2>1. v = w
    BY <1>5 DEF NextHandler, ListenNext, HttpRecvNext, HttpSendNext
  <2>2. h.cfd = NoFd
    BY <1>5
  <2>3. ~finish(h) => Interest(h) # {}
    BY <1>2 DEF finish, Interest, want_read, want_write, Kinds
  <2> QED
    BY <1>1, <1>2, <2>1, <2>2, <2>3
<1> QED
  BY <1>3, <1>4, <1>5

-----------------------------------------------------------------------------
(* The steps of the loop *)

(* The body of the loop for one event, as a whole.                         *)
LEMMA BodyEffect ==
    ASSUME Sound(st, NULL, {}), NEW p \in Ptrs, IsLive(st, p),
           NEW events, NEW r \in Called(st.handler[p], events, st.open),
           NEW t \in IF r.ok THEN UNION { FinishOrModify(w, p) :
                                         w \in NextHandler(WithHandler(p, r.h), p) }
                     ELSE { delete(WithHandler(p, r.h), p) }
    PROVE  Sound(t, NULL, {}) /\ Keeps(st, t, p)
<1> DEFINE old == st.handler[p]
           h == r.h
           w == WithHandler(p, h)
           held == { h.fd, h.cfd } \ {NoFd}
<1>1. old \in Handler /\ old.cfd = NoFd /\ old.kind # "free"
  BY ReactorAssumption DEF Sound, State, InOrder, IsLive
<1>2. SameOne(old, h, st.open) /\ r.ok \in BOOLEAN
  BY <1>1, CalledEffect
<1>3. /\ Sound(w, p, held) /\ w.handler[p] = h /\ Keeps(st, w, p)
      /\ h.fd \in Fds /\ h.fd # h.cfd
      /\ w.epoll[h.fd].ptr = p /\ w.epoll[h.fd].events # {}
  BY <1>2, OpenHole
<1>4. IsLive(w, p) /\ (h.cfd = NoFd \/ h.kind = "listen")
  BY <1>1, <1>2, <1>3 DEF SameOne, IsLive
<1>5. CASE ~r.ok
  <2>1. t = delete(w, p)
    BY <1>5
  <2> HIDE DEF w, h
  <2>2. held = { w.handler[p].fd, w.handler[p].cfd } \ {NoFd}
    BY <1>3
  <2>3. w.handler[p].fd # w.handler[p].cfd
    BY <1>3
  <2> HIDE DEF held
  <2>4. Sound(t, NULL, {}) /\ Keeps(w, t, p)
    BY <1>3, <2>1, <2>2, <2>3, DeleteHole
  <2> QED
    BY <1>3, <2>4 DEF Keeps
<1>6. CASE r.ok
  <2>1. PICK v \in NextHandler(w, p) : t \in FinishOrModify(v, p)
    BY <1>6, Zenon
  <2> DEFINE g == v.handler[p]
             mine == { g.fd, g.cfd } \ {NoFd}
  <2> HIDE DEF w, h
  <2>2. /\ Sound(v, p, mine)
        /\ Keeps(w, v, p)
        /\ g.fd = g.cfd => g.fd = NoFd
        /\ ~finish(g) => /\ g.cfd = NoFd /\ g.fd \in Fds /\ Interest(g) # {}
                         /\ IsLive(v, p)
                         /\ v.epoll[g.fd].ptr = p /\ v.epoll[g.fd].events # {}
    <3>1. /\ Sound(v, p, mine)
          /\ Keeps(w, v, p)
          /\ g.fd = g.cfd => g.fd = NoFd
          /\ ~finish(g) => /\ g.cfd = NoFd /\ g.fd \in Fds /\ Interest(g) # {}
                           /\ IsLive(v, p)
                           /\ g.fd = h.fd /\ v.epoll[g.fd] = w.epoll[g.fd]
      <4>1. /\ Sound(w, p, { h.fd, h.cfd } \ {NoFd}) /\ IsLive(w, p) /\ w.handler[p] = h
            /\ h.fd \in Fds /\ h.fd # h.cfd /\ (h.cfd = NoFd \/ h.kind = "listen")
        BY <1>3, <1>4
      <4> QED
        BY ONLY <2>1, <4>1, p \in Ptrs, NextEffect
    <3> HIDE DEF g, mine
    <3> QED
      BY <1>3, <3>1
  <2>3. CASE finish(g)
    <3>1. t = delete(v, p)
      BY <2>1, <2>3 DEF FinishOrModify
    <3>2. Sound(t, NULL, {}) /\ Keeps(v, t, p)
      BY <2>2, <3>1, DeleteHole
    <3> QED
      BY <1>3, <2>2, <3>2 DEF Keeps
  <2>4. CASE ~finish(g)
    <3>1. t = ctl_epollev(v, p) \/ t = ModifyFails(v, p)
      BY <2>1, <2>4 DEF FinishOrModify
    <3>2. mine = { v.handler[p].fd }
      BY <2>2, <2>4, NoFdNotFd
    <3>3. Sound(v, p, { v.handler[p].fd })
      <4> HIDE DEF mine
      <4> QED
        BY <2>2, <3>2
    <3>4. Sound(t, NULL, {}) /\ Keeps(v, t, p)
      <4>1. CASE t = ctl_epollev(v, p)
        BY <2>2, <2>4, <3>3, <4>1, RegisterHole
      <4>2. CASE t = ModifyFails(v, p)
        BY <2>2, <2>4, <3>3, <4>2, FailHole
      <4> QED
        BY <3>1, <4>1, <4>2
    <3> QED
      BY <1>3, <2>2, <3>4 DEF Keeps
  <2> QED
    BY <2>3, <2>4
<1> QED
  BY <1>2, <1>5, <1>6

(* Events that wait are for handlers the body does not touch.              *)
LEMMA HandleEventStep ==
    ASSUME Inv, HandleEvent
    PROVE  Inv'
<1> DEFINE p == Head(batch).ptr
           n == Len(batch)
<1>1. /\ batch \in Seq(Event) /\ batch # << >> /\ n \in Nat /\ n >= 1 /\ n <= MAX_EVENTS
      /\ Head(batch) = batch[1]
      /\ batch' = Tail(batch)
  BY DEF Inv, BatchSound, HandleEvent
<1>2. p \in Ptrs /\ IsLive(st, p) /\ p = batch[1].ptr
  BY <1>1 DEF Inv, BatchSound
<1>3. /\ batch' \in Seq(Event) /\ Len(batch') = n - 1
      /\ \A i \in 1..(n - 1) : batch'[i] = batch[i + 1]
  BY <1>1
<1>4. Sound(st', NULL, {}) /\ Keeps(st, st', p)
  <2>1. PICK r \in Called(st.handler[p], Head(batch).events, st.open) :
          st' \in IF r.ok
                  THEN UNION { FinishOrModify(w, p) :
                               w \in NextHandler(WithHandler(p, r.h), p) }
                  ELSE { delete(WithHandler(p, r.h), p) }
    BY <1>2, Zenon DEF HandleEvent, IsLive
  <2> HIDE DEF p
  <2> QED
    BY <1>2, <2>1, BodyEffect DEF Inv
<1>5. ASSUME NEW i \in 1..(n - 1)
      PROVE  batch'[i].ptr \in Ptrs /\ IsLive(st', batch'[i].ptr)
  <2>1. /\ batch'[i] = batch[i + 1] /\ i + 1 \in 1..n /\ 1 \in 1..n /\ i + 1 # 1
    BY <1>1, <1>3
  <2>2. batch[i + 1].ptr \in Ptrs /\ IsLive(st, batch[i + 1].ptr) /\ batch[i + 1].ptr # p
    BY <1>2, <2>1 DEF Inv, BatchSound
  <2> QED
    BY <1>4, <2>1, <2>2 DEF Keeps
<1>6. ASSUME NEW i \in 1..(n - 1), NEW j \in 1..(n - 1), i # j
      PROVE  batch'[i].ptr # batch'[j].ptr
  <2>1. /\ batch'[i] = batch[i + 1] /\ batch'[j] = batch[j + 1]
        /\ i + 1 \in 1..n /\ j + 1 \in 1..n /\ i + 1 # j + 1
    BY <1>1, <1>3, <1>6
  <2> QED
    BY <2>1 DEF Inv, BatchSound
<1>7. BatchSound'
  BY <1>1, <1>3, <1>5, <1>6, ReactorAssumption DEF BatchSound
<1> QED
  BY <1>4, <1>7 DEF Inv, HandleEvent

(* epoll_wait reports each descriptor once, so each handler once.          *)
LEMMA EpollWaitStep ==
    ASSUME Inv, NEW fds \in ReadyLists, epoll_wait(fds)
    PROVE  Inv'
<1>1. PICK n \in 1..MAX_EVENTS : fds \in [ 1..n -> Fds ]
  BY Zenon DEF ReadyLists
<1>2. /\ n \in Nat /\ n <= MAX_EVENTS /\ DOMAIN fds = 1..n
      /\ \A i, j \in 1..n : i # j => fds[i] # fds[j]
  BY <1>1, ReactorAssumption DEF ReadyLists
<1>3. /\ batch' \in [ 1..n -> UNION { Reports(f) : f \in Fds } ]
      /\ \A i \in 1..n : batch'[i] \in Reports(fds[i])
  BY <1>2 DEF epoll_wait
<1>4. st' = st /\ running' = running /\ Sound(st, NULL, {}) /\ st \in State
  BY DEF epoll_wait, Inv, Sound
<1>5. ASSUME NEW i \in 1..n
      PROVE  /\ batch'[i] \in Event
             /\ batch'[i].ptr = st.epoll[fds[i]].ptr
             /\ st.epoll[fds[i]].ptr \in Ptrs /\ IsLive(st, st.epoll[fds[i]].ptr)
             /\ st.handler[st.epoll[fds[i]].ptr].fd = fds[i]
  <2> DEFINE f == fds[i]
  <2>1. f \in Fds /\ st.epoll[f] # NotRegistered
    BY <1>1, <1>2 DEF epoll_wait
  <2>2. batch'[i] \in Reports(f)
    BY <1>3
  <2> HIDE DEF f
  <2>3. PICK e \in SUBSET (st.epoll[f].events \cup {"ERR"}) :
          batch'[i] = [ ptr |-> st.epoll[f].ptr, events |-> e ]
    BY <2>2 DEF Reports
  <2>4. /\ st.epoll[f].ptr \in Ptrs /\ IsLive(st, st.epoll[f].ptr)
        /\ st.handler[st.epoll[f].ptr].fd = f
    BY <1>4, <2>1, ReactorAssumption DEF Sound
  <2>5. e \in SUBSET {"IN", "OUT", "ERR"}
    <3>1. st.epoll[f].events \in SUBSET {"IN", "OUT"}
      BY <1>4, <2>1 DEF State, Registration
    <3> QED
      BY <2>3, <3>1
  <2>6. batch'[i] \in Event /\ batch'[i].ptr = st.epoll[f].ptr
    BY <2>3, <2>4, <2>5 DEF Event
  <2> QED
    BY <2>4, <2>6 DEF f
<1>6. batch' \in Seq(Event) /\ Len(batch') = n
  <2>1. batch' \in [ 1..n -> Event ]
    BY <1>3, <1>5
  <2> QED
    BY <1>2, <2>1
<1>7. \A i \in 1..n : batch'[i].ptr \in Ptrs /\ IsLive(st, batch'[i].ptr)
  BY <1>5
<1>8. ASSUME NEW i \in 1..n, NEW j \in 1..n, i # j
      PROVE  batch'[i].ptr # batch'[j].ptr
  <2>1. fds[i] # fds[j]
    BY <1>2, <1>8
  <2>2. /\ st.handler[batch'[i].ptr].fd = fds[i]
        /\ st.handler[batch'[j].ptr].fd = fds[j]
    BY <1>5
  <2> QED
    BY <2>1, <2>2
<1>9. BatchSound'
  BY <1>2, <1>4, <1>6, <1>7, <1>8 DEF BatchSound
<1> QED
  BY <1>4, <1>9 DEF Inv

(* The server starts with the listening handler and nothing else.          *)
LEMMA InitSound == Init => Inv
<1> SUFFICES ASSUME Init PROVE Inv
  OBVIOUS
<1> DEFINE lh == NewHandler("listen", ListenFd)
           free == NewHandler("free", NoFd)
           p == CHOOSE p \in Ptrs : TRUE
<1>1. /\ p \in Ptrs
      /\ st = ctl_epollev(
                [ handler |-> [ q \in Ptrs |-> IF q = p THEN lh ELSE free ],
                  open |-> {ListenFd},
                  epoll |-> [ f \in Fds |-> NotRegistered ],
                  fault |-> FALSE ], p)
  BY ReactorAssumption, Zenon DEF Init
<1> HIDE DEF p
<1>2. /\ lh \in Handler /\ lh.kind = "listen" /\ lh.fd = ListenFd /\ lh.cfd = NoFd
      /\ free \in Handler /\ free.kind = "free"
  <2>1. "free" \in Kinds /\ "listen" \in Kinds /\ NoFd \in Fds \cup {NoFd}
        /\ ListenFd \in Fds \cup {NoFd}
    BY ReactorAssumption DEF Kinds
  <2>2. lh \in Handler /\ lh.kind = "listen" /\ lh.fd = ListenFd /\ lh.cfd = NoFd
    BY <2>1, ReactorAssumption DEF NewHandler, Handler, NewEndpoint, Endpoint
  <2>3. free \in Handler /\ free.kind = "free"
    BY ONLY <2>1, NewHandlerType
  <2> QED
    BY <2>2, <2>3
<1> HIDE DEF lh, free
<1> DEFINE w == [ handler |-> [ q \in Ptrs |-> IF q = p THEN lh ELSE free ],
                  open |-> {ListenFd},
                  epoll |-> [ f \in Fds |-> NotRegistered ],
                  fault |-> FALSE ]
<1>3. w \in State
  BY <1>2, ReactorAssumption DEF State, NotRegistered, Registration
<1>4. /\ w.handler[p] = lh /\ \A q \in Ptrs \ {p} : w.handler[q] = free
      /\ w.open = {ListenFd} /\ w.fault = FALSE
      /\ \A f \in Fds : w.epoll[f] = NotRegistered
  BY <1>1
<1>5. st = ctl_epollev(w, p)
  BY <1>1
<1> HIDE DEF w
<1>6. Sound(w, p, { w.handler[p].fd })
  <2>1. \A q \in Ptrs \ {p} : ~IsLive(w, q)
    BY <1>2, <1>4 DEF IsLive
  <2> QED
    BY <1>2, <1>3, <1>4, <2>1 DEF Sound
<1>7. Interest(w.handler[p]) # {}
  BY <1>2, <1>4 DEF Interest, want_read
<1>8. Sound(st, NULL, {})
  BY <1>1, <1>2, <1>4, <1>5, <1>6, <1>7, RegisterHole
<1>9. BatchSound
  BY ReactorAssumption DEF Init, BatchSound
<1> QED
  BY <1>8, <1>9 DEF Init, Inv

(* Every state of the loop satisfies the invariant: whatever epoll_wait    *)
(* reports, whichever call fails, and wherever new handlers are allocated  *)
(* (echoserv.cc 498-559).                                                  *)
THEOREM InvHolds == Spec => []Inv
<1>1. Inv /\ [Next]_vars => Inv'
  <2> SUFFICES ASSUME Inv, [Next]_vars PROVE Inv'
    OBVIOUS
  <2>1. ASSUME NEW fds \in ReadyLists, epoll_wait(fds) PROVE Inv'
    BY <2>1, EpollWaitStep
  <2>2. CASE epoll_wait_fails
    <3>1. st' = st /\ batch' = batch /\ running' \in BOOLEAN
      BY <2>2, Zenon DEF epoll_wait_fails
    <3>2. Sound(st', NULL, {}) /\ BatchSound'
      BY <3>1 DEF Inv, BatchSound
    <3> QED
      BY <3>1, <3>2 DEF Inv
  <2>3. CASE HandleEvent
    BY <2>3, HandleEventStep
  <2>4. CASE UNCHANGED vars
    BY <2>4 DEF vars, Inv, BatchSound
  <2> QED
    BY <2>1, <2>2, <2>3, <2>4 DEF Next
<1> QED
  BY <1>1, InitSound, PTL DEF Spec

(* Types: st, batch and running of echoserv.cc's reactor.                  *)
THEOREM TypesHold == Spec => []TypeOK
<1>1. Inv => TypeOK
  BY DEF Inv, BatchSound, Sound, State, Registration, Event, TypeOK
<1> QED
  BY <1>1, InvHolds, PTL

(* No event reaches a deleted handler and no descriptor is closed twice,   *)
(* although the memory and the numbers are given out again within a batch  *)
(* (echoserv.cc 519-551).                                                  *)
THEOREM NeverFaults == Spec => []NoFault
<1>1. Inv => NoFault
  BY DEF Inv, BatchSound, Sound, NoFault, Live, IsLive
<1> QED
  BY <1>1, InvHolds, PTL

(* epoll is told of every change of what a handler waits for, unless       *)
(* EPOLL_CTL_MOD fails, and even then no handler stays that epoll never    *)
(* calls (echoserv.cc 481-495, 530-549).                                   *)
THEOREM InterestStaysExact == Spec => []InterestExact
<1>1. Inv => InterestExact
  <2> SUFFICES ASSUME Inv PROVE InterestExact
    OBVIOUS
  <2>1. Sound(st, NULL, {}) /\ st \in State
    BY DEF Inv, Sound
  <2>2. ASSUME NEW p \in Live
        PROVE  LET h == st.handler[p]
               IN  /\ h.fd \in Fds /\ st.epoll[h.fd].ptr = p
                   /\ st.epoll[h.fd].events # {}
                   /\ ~st.epoll[h.fd].stale =>
                         /\ "IN" \in st.epoll[h.fd].events <=> want_read(h)
                         /\ "OUT" \in st.epoll[h.fd].events <=> want_write(h)
    <3> DEFINE h == st.handler[p]
    <3>1. InOrder(st, p)
      BY <2>1, ReactorAssumption DEF Live, Sound, IsLive
    <3>2. h.fd \in Fds
      BY <2>1, <3>1 DEF InOrder, State
    <3>3. /\ st.epoll[h.fd].ptr = p /\ st.epoll[h.fd].events # {}
          /\ st.epoll[h.fd].stale \/ st.epoll[h.fd].events = Interest(h)
      BY <3>1 DEF InOrder, Fits
    <3> HIDE DEF h
    <3>4. ("IN" \in Interest(h) <=> want_read(h)) /\ ("OUT" \in Interest(h) <=> want_write(h))
      BY DEF Interest
    <3> QED
      BY <3>2, <3>3, <3>4 DEF h
  <2>3. ASSUME NEW f \in Fds, st.epoll[f] # NotRegistered
        PROVE  st.epoll[f].ptr \in Live /\ st.handler[st.epoll[f].ptr].fd = f
    BY <2>1, <2>3, ReactorAssumption DEF Sound, Live, IsLive
  <2> QED
    BY <2>2, <2>3 DEF InterestExact
<1> QED
  BY <1>1, InvHolds, PTL

(* Every open descriptor belongs to exactly one handler, and every handler *)
(* to an open one: none leaks, whichever call failed on the way            *)
(* (echoserv.cc 285-290, 350-354, 460-474, 532-538, 546-548).              *)
THEOREM FdsStayOwned == Spec => []FdsOwned
<1>1. Inv => FdsOwned
  <2> SUFFICES ASSUME Inv PROVE FdsOwned
    OBVIOUS
  <2>1. Sound(st, NULL, {}) /\ st \in State
    BY DEF Inv, Sound
  <2>2. \A p \in Live : InOrder(st, p)
    BY <2>1, ReactorAssumption DEF Live, Sound, IsLive
  <2>3. ASSUME NEW p \in Live
        PROVE  st.handler[p].fd \in st.open /\ st.epoll[st.handler[p].fd].ptr = p
    <3>1. InOrder(st, p)
      BY <2>2
    <3> QED
      BY <3>1 DEF InOrder, Fits
  <2>4. \A f \in st.open : \E p \in Live : st.handler[p].fd = f
    BY <2>1 DEF Sound, Live, IsLive
  <2>5. st.open = { st.handler[p].fd : p \in Live }
    BY <2>3, <2>4
  <2> DEFINE owner == [ f \in st.open |-> st.epoll[f].ptr ]
  <2>6. owner \in Bijection(st.open, Live)
    <3>1. \A f \in st.open : owner[f] \in Live /\ st.handler[owner[f]].fd = f
      BY <2>3, <2>4
    <3>2. owner \in [ st.open -> Live ]
      BY <3>1
    <3>3. \A f, g \in st.open : owner[f] = owner[g] => f = g
      BY <3>1
    <3>4. \A p \in Live : \E f \in st.open : owner[f] = p
      BY <2>3
    <3> HIDE DEF owner
    <3> QED
      BY <3>2, <3>3, <3>4 DEF Bijection, Injection, Surjection, IsInjective
  <2>7. IsFiniteSet(st.open)
    BY <2>1, ReactorAssumption, FS_Subset DEF State
  <2> HIDE DEF owner
  <2>8. ExistsBijection(st.open, Live)
    BY <2>6 DEF ExistsBijection
  <2>9. Cardinality(st.open) = Cardinality(Live)
    BY <2>7, <2>8, FS_Bijection
  <2> QED
    BY <2>5, <2>9 DEF FdsOwned
<1> QED
  BY <1>1, InvHolds, PTL

-----------------------------------------------------------------------------
(* fork-echoserv.c *)

(* What an iteration of wslay_event_recv comes to *)

CLOSE == WSLAY_CONNECTION_CLOSE

(* A message was pushed on the control queue.                              *)
Pushed(m) ==
    /\ m.type = "NON_FRAGMENTED" /\ m.fin /\ m.source = << >>
    /\ wslay_is_ctrl_frame(m.opcode) /\ ~(Len(m.data) > CtrlMax)
    /\ Enqueue(m)

(* The queues are as before, or have one more Close.                       *)
PushedClose == \E m : Pushed(m) /\ m.opcode = CLOSE

QueuesStay ==
    /\ send_queue' = send_queue /\ send_ctrl_queue' = send_ctrl_queue
    /\ accepted' = accepted
    /\ queued_msg_count' = queued_msg_count /\ queued_msg_length' = queued_msg_length

(* What Pushed does to the queues: a control message is added to its own.  *)
LEMMA PushedOn ==
    ASSUME NEW m, Pushed(m)
    PROVE  /\ m.type = "NON_FRAGMENTED" /\ wslay_is_ctrl_frame(m.opcode)
           /\ send_ctrl_queue' = Append(send_ctrl_queue, m)
           /\ send_queue' = send_queue
           /\ accepted' = Append(accepted, m)
BY Zenon DEF Pushed, Enqueue

(* The bits of close_status a call does not set.                           *)
KeepsBit(bit) == bit \in close_status' <=> bit \in close_status

(* The application heard of one more message, or of none.                  *)
Heard(e) == delivered' = Append(delivered, e)

HeardNothing ==
    /\ delivered' = delivered
    /\ ret' = 0 => error' \in {error, 0, R!WSLAY_ERR_WOULDBLOCK}

(* The fields of rx the shape of a message depends on are there.           *)
HasSlots(x) ==
    /\ {"imsgs", "imsg"} \subseteq DOMAIN x
    /\ DOMAIN x.imsgs = 0..1 /\ x.imsg \in 0..1
    /\ \A i \in 0..1 : "opcode" \in DOMAIN x.imsgs[i]

(* Reading goes on.                                                        *)
Continues ==
    /\ read_enabled' = read_enabled /\ ret' = 0 /\ close_status' = close_status
    /\ QueuesStay \/ \E m : Pushed(m) /\ m.opcode # CLOSE
    /\ HeardNothing \/ \E e : Heard(e)
    /\ HasSlots(rx')

(* Reading ends: with an error, or a Close to send.                        *)
Ends ==
    /\ read_enabled' = FALSE
    /\ \/ QueuesStay /\ ret' # 0 /\ KeepsBit("QUEUED")
       \/ PushedClose /\ write_enabled /\ "QUEUED" \notin close_status
    /\ KeepsBit("SENT")
    /\ HeardNothing \/ \E e : Heard(e) /\ e.opcode = CLOSE
    /\ HasSlots(rx')

(* Codes are the same in the instances.                                    *)
LEMMA SameCodes ==
    /\ R!WSLAY_CONNECTION_CLOSE = 8 /\ R!WSLAY_PING = 9 /\ R!WSLAY_PONG = 10
    /\ CLOSE = 8 /\ WSLAY_CONNECTION_CLOSE = 8
    /\ R!WSLAY_ERR_NO_MORE_MSG = -302 /\ R!WSLAY_ERR_NOMEM = -500
    /\ R!WSLAY_ERR_CALLBACK_FAILURE = -400 /\ R!WSLAY_ERR_INVALID_ARGUMENT = -300
    /\ WSLAY_ERR_CALLBACK_FAILURE = -400 /\ R!WSLAY_ERR_WANT_READ = -100
    /\ R!WSLAY_ERR_WOULDBLOCK = -401
    /\ wslay_is_ctrl_frame(8) /\ wslay_is_ctrl_frame(10)
BY DEF R!WSLAY_CONNECTION_CLOSE, R!WSLAY_PING, R!WSLAY_PONG, CLOSE, WSLAY_CONNECTION_CLOSE,
       R!WSLAY_ERR_NO_MORE_MSG, R!WSLAY_ERR_NOMEM, R!WSLAY_ERR_CALLBACK_FAILURE,
       R!WSLAY_ERR_INVALID_ARGUMENT, WSLAY_ERR_CALLBACK_FAILURE, R!WSLAY_ERR_WANT_READ,
       R!WSLAY_ERR_WOULDBLOCK, wslay_is_ctrl_frame

(* The control bit is the same, too.                                       *)
LEMMA SameCtrl == \A op : R!wslay_is_ctrl_frame(op) <=> wslay_is_ctrl_frame(op)
BY Zenon DEF R!wslay_is_ctrl_frame, wslay_is_ctrl_frame

(* wslay_event_queue_msg for a control message.                            *)
LEMMA QueueCtrl ==
    ASSUME NEW op, NEW msg, NEW r, R!wslay_event_queue_msg(op, msg, r),
           wslay_is_ctrl_frame(op)
    PROVE  \/ r # 0 /\ QueuesStay
           \/ /\ r = 0 /\ write_enabled /\ "QUEUED" \notin close_status
              /\ \E m : Pushed(m) /\ m.opcode = op
<1>1. CASE R!MsgRefusal(op, msg, r) /\ UNCHANGED R!queueVars
  <2>1. r # 0
    BY <1>1, SameCodes DEF R!MsgRefusal
  <2>2. QueuesStay
    BY <1>1 DEF QueuesStay, R!queueVars
  <2> QED  BY <2>1, <2>2
<1>2. CASE /\ R!wslay_event_is_msg_queueable
           /\ ~(R!wslay_is_ctrl_frame(op) /\ Len(msg) > CtrlMax)
           /\ r = 0 /\ R!Enqueue(R!omsg_non_fragmented_new(op, msg))
  <2>1. write_enabled /\ "QUEUED" \notin close_status
    BY <1>2 DEF R!wslay_event_is_msg_queueable
  <2>2. PICK m : m = R!omsg_non_fragmented_new(op, msg)
    OBVIOUS
  <2>3. /\ m.type = "NON_FRAGMENTED" /\ m.opcode = op /\ m.data = msg /\ m.fin
        /\ m.source = << >>
    BY <2>2 DEF R!omsg_non_fragmented_new
  <2>4. R!Enqueue(m)
    BY <1>2, <2>2, Zenon
  <2>5. Enqueue(m)
    BY <2>4, SameCtrl, Zenon DEF R!Enqueue, Enqueue
  <2>6. ~(Len(m.data) > CtrlMax)
    BY <1>2, <2>3, SameCtrl, Zenon
  <2>7. Pushed(m)
    BY <2>3, <2>5, <2>6, Zenon DEF Pushed
  <2> QED  BY <1>2, <2>1, <2>3, <2>7
<1> QED  BY <1>1, <1>2, SameCtrl, Zenon DEF R!wslay_event_queue_msg

(* wslay_event_queue_close_wrapper returns 0 only if the Close is queued.  *)
LEMMA WrapperQueues ==
    ASSUME NEW cs, NEW status, NEW reason, NEW r,
           R!wslay_event_queue_close_wrapper(cs, status, reason, r)
    PROVE  /\ read_enabled' = FALSE
           /\ \/ QueuesStay /\ r # 0 /\ close_status' = cs
              \/ PushedClose /\ write_enabled /\ "QUEUED" \notin close_status
           /\ close_status' \in {cs, cs \cup {"QUEUED"}}
<1>1. PICK q \in R!QueueReturns : /\ R!wslay_event_queue_close(cs, status, reason, q)
                                  /\ r = IF q = R!WSLAY_ERR_NO_MORE_MSG THEN 0 ELSE q
  BY DEF R!wslay_event_queue_close_wrapper
<1>2. read_enabled' = FALSE
  BY DEF R!wslay_event_queue_close_wrapper
<1>3. CASE UNCHANGED R!queueVars /\ q \in {1, 2} /\ close_status' = cs
  BY <1>1, <1>2, <1>3, SameCodes DEF QueuesStay, R!queueVars
<1>4. CASE /\ R!wslay_event_is_msg_queueable
           /\ R!wslay_event_queue_msg(R!WSLAY_CONNECTION_CLOSE, R!CloseBody(status, reason), q)
           /\ close_status' = IF q = 0 THEN cs \cup {"QUEUED"} ELSE cs
  <2>1. PICK body : body = R!CloseBody(status, reason)
    OBVIOUS
  <2>2. R!wslay_event_queue_msg(CLOSE, body, q)
    BY <1>4, <2>1, SameCodes
  <2>3. \/ q # 0 /\ QueuesStay
        \/ /\ q = 0 /\ write_enabled /\ "QUEUED" \notin close_status
           /\ \E m : Pushed(m) /\ m.opcode = CLOSE
    BY <2>2, SameCodes, QueueCtrl
  <2>4. q # R!WSLAY_ERR_NO_MORE_MSG
    BY <1>4, SameCodes DEF R!wslay_event_queue_msg, R!MsgRefusal
  <2> QED  BY <1>1, <1>2, <1>4, <2>3, <2>4 DEF PushedClose
<1> QED  BY <1>1, <1>3, <1>4, Zenon DEF R!wslay_event_queue_close

(* A connection that fails.                                                *)
LEMMA FailEnds ==
    ASSUME NEW status, NEW x, HasSlots(x), R!FailConnection(status, x)
    PROVE  Ends
<1>1. PICK r : R!wslay_event_queue_close_wrapper(close_status, status, << >>, r) /\ ret' = r
  BY DEF R!FailConnection
<1>2. HeardNothing /\ rx' = x
  BY DEF R!FailConnection, HeardNothing
<1>3. close_status' \in {close_status, close_status \cup {"QUEUED"}}
  BY <1>1, WrapperQueues
<1> QED  BY <1>1, <1>2, <1>3, WrapperQueues DEF Ends, KeepsBit

(* Reading stops with an error.                                            *)
LEMMA StopEnds ==
    ASSUME NEW x, NEW r, HasSlots(x), r # 0, R!Stop(x, r)
    PROVE  Ends
BY DEF R!Stop, R!queueVars, Ends, QueuesStay, HeardNothing, KeepsBit

(* The loop goes on with the next chunk.                                   *)
LEMMA GoOnContinues ==
    ASSUME NEW x, HasSlots(x), R!GoOn(x)
    PROVE  Continues
BY DEF R!GoOn, R!queueVars, Continues, QueuesStay, HeardNothing

(* The stages of an iteration keep the slots.                              *)
LEMMA PutSlot ==
    ASSUME NEW x, HasSlots(x), NEW i \in 0..1, NEW m, "opcode" \in DOMAIN m
    PROVE  HasSlots([ x EXCEPT !.imsgs[i] = m ])
<1> DEFINE y == [ x EXCEPT !.imsgs[i] = m ]
<1>1. "imsgs" \in DOMAIN x /\ DOMAIN y = DOMAIN x /\ y.imsgs = [ x.imsgs EXCEPT ![i] = m ]
  BY Zenon DEF HasSlots
<1>2. y.imsg = x.imsg
  BY DEF HasSlots
<1> HIDE DEF y
<1>3. \A k \in 0..1 : y.imsgs[k] = IF k = i THEN m ELSE x.imsgs[k]
  BY <1>1 DEF HasSlots
<1>4. DOMAIN y.imsgs = 0..1
  BY <1>1 DEF HasSlots
<1>5. \A k \in 0..1 : "opcode" \in DOMAIN y.imsgs[k]
  BY <1>3 DEF HasSlots
<1> QED  BY <1>1, <1>2, <1>4, <1>5 DEF HasSlots, y

(* The frame's slot is made current.                                       *)
LEMMA OpenSlots ==
    ASSUME NEW x, HasSlots(x), NEW iocb
    PROVE  HasSlots(R!Open(x, iocb))
<1> DEFINE m(k) == R!imsg_set(x.imsgs[k], iocb)
           fin == [ x.imsgs[x.imsg] EXCEPT !.fin = iocb.fin ]
<1>1. x.imsg \in 0..1 /\ 1 \in 0..1 /\ \A k \in 0..1 : "opcode" \in DOMAIN x.imsgs[k]
  BY DEF HasSlots
<1>2. \A k \in 0..1 : "opcode" \in DOMAIN m(k)
  BY <1>1 DEF R!imsg_set
<1>3. "opcode" \in DOMAIN fin
  BY <1>1
<1> HIDE DEF m, fin
<1>4. HasSlots([ x EXCEPT !.imsgs[x.imsg] = m(x.imsg) ])
  BY <1>1, <1>2, PutSlot
<1>5. HasSlots([ x EXCEPT !.imsgs[x.imsg] = fin ])
  BY <1>1, <1>3, PutSlot
<1>6. HasSlots([ x EXCEPT !.imsg = 1, !.imsgs[1] = m(1) ])
  <2>1. HasSlots([ x EXCEPT !.imsgs[1] = m(1) ])
    BY <1>1, <1>2, PutSlot
  <2> QED  BY <2>1, <1>1 DEF HasSlots
<1>7. /\ R!Open(x, iocb) \in { [ x EXCEPT !.imsgs[x.imsg] = R!imsg_set(@, iocb) ], x,
                              [ x EXCEPT !.imsgs[x.imsg].fin = iocb.fin ],
                              [ x EXCEPT !.imsg = 1, !.imsgs[1] = R!imsg_set(@, iocb) ] }
  BY Zenon DEF R!Open
<1>8. R!Open(x, iocb) \in { [ x EXCEPT !.imsgs[x.imsg] = m(x.imsg) ], x,
                              [ x EXCEPT !.imsgs[x.imsg] = fin ],
                              [ x EXCEPT !.imsg = 1, !.imsgs[1] = m(1) ] }
  BY <1>7 DEF m, fin
<1> QED  BY <1>4, <1>5, <1>6, <1>8

(* Room is made for its payload.                                           *)
LEMMA StartSlots ==
    ASSUME NEW x, HasSlots(x), NEW iocb
    PROVE  HasSlots(R!StartFrame(x, iocb))
<1> DEFINE old == x.imsgs[x.imsg]
           m == IF R!IsBuffered(iocb) THEN R!AppendChunk(old, iocb.payload_length) ELSE old
           z == [ x EXCEPT !.imsgs[x.imsg] = m ]
<1>1. x.imsg \in 0..1 /\ "opcode" \in DOMAIN old
  BY DEF HasSlots
<1>2. "opcode" \in DOMAIN m
  BY <1>1 DEF R!AppendChunk
<1>3. R!StartFrame(x, iocb) = [ x EXCEPT !.ipayloadlen = iocb.payload_length, !.starts = @ + 1,
                                         !.imsgs[x.imsg] = m ]
  BY Zenon DEF R!StartFrame
<1> HIDE DEF m, old
<1>4. HasSlots(z)
  BY <1>1, <1>2, PutSlot
<1> QED  BY <1>3, <1>4, <1>1 DEF HasSlots

(* The automaton runs on.                                                  *)
LEMMA CheckSlots ==
    ASSUME NEW x, HasSlots(x), NEW iocb
    PROVE  HasSlots(R!CheckUtf8(x, iocb))
<1> DEFINE old == x.imsgs[x.imsg]
           skip == IF R!Msg(x).opcode = R!WSLAY_CONNECTION_CLOSE THEN 2 ELSE 0
           text == SubSeq(iocb.data, skip + 1, Len(iocb.data))
           m == [ old EXCEPT !.utf8state = R!DecodeAll(@, text) ]
<1>1. x.imsg \in 0..1 /\ "opcode" \in DOMAIN old
  BY DEF HasSlots
<1>2. "opcode" \in DOMAIN m
  BY <1>1
<1>3. R!CheckUtf8(x, iocb) \in { x, [ x EXCEPT !.imsgs[x.imsg] = m ] }
  BY DEF R!CheckUtf8
<1> HIDE DEF m, old
<1>4. HasSlots([ x EXCEPT !.imsgs[x.imsg] = m ])
  BY <1>1, <1>2, PutSlot
<1> QED  BY <1>3, <1>4

(* The chunk is copied.                                                    *)
LEMMA StoreSlots ==
    ASSUME NEW x, HasSlots(x), NEW iocb
    PROVE  HasSlots(R!StoreData(x, iocb))
<1> DEFINE old == x.imsgs[x.imsg]
           m == IF iocb.data # << >> /\ R!IsBuffered(iocb)
                  THEN [ old EXCEPT !.chunks[Len(old.chunks)] =
                                      R!CopyInto(@, x.ipayloadoff, iocb.data) ]
                  ELSE old
           z == [ x EXCEPT !.imsgs[x.imsg] = m ]
<1>1. x.imsg \in 0..1 /\ "opcode" \in DOMAIN old
  BY DEF HasSlots
<1>2. "opcode" \in DOMAIN m
  BY <1>1
<1>3. R!StoreData(x, iocb) = [ x EXCEPT !.imsgs[x.imsg] = m, !.ipayloadoff = @ + Len(iocb.data) ]
  BY Zenon DEF R!StoreData, R!Msg
<1> HIDE DEF m, old
<1>4. HasSlots(z)
  BY <1>1, <1>2, PutSlot
<1> QED  BY <1>3, <1>4, <1>1 DEF HasSlots

(* The queue of chunks is emptied: the opcode is the same.                 *)
LEMMA EmptiedSlots ==
    ASSUME NEW x, HasSlots(x), NEW iocb
    PROVE  HasSlots(R!Emptied(x, iocb)) /\ R!Msg(R!Emptied(x, iocb)).opcode = R!Msg(x).opcode
<1> DEFINE old == x.imsgs[x.imsg]
           m == [ old EXCEPT !.chunks = << >> ]
           z == [ x EXCEPT !.imsgs[x.imsg] = m ]
<1>1. x.imsg \in 0..1 /\ "opcode" \in DOMAIN old
  BY DEF HasSlots
<1>2. "opcode" \in DOMAIN m /\ m.opcode = old.opcode
  BY <1>1
<1>3. R!Emptied(x, iocb) \in { x, z }
  BY DEF R!Emptied
<1> HIDE DEF m, old
<1>4. HasSlots(z)
  BY <1>1, <1>2, PutSlot
<1>5. z.imsgs[z.imsg] = m
  BY <1>1 DEF HasSlots
<1> HIDE DEF z
<1> QED  BY <1>2, <1>3, <1>4, <1>5 DEF R!Msg, old

(* Counters, the end of a frame, the end of a message.                     *)
LEMMA DoneSlots ==
    ASSUME NEW x, HasSlots(x)
    PROVE  /\ HasSlots(R!FrameDone(x)) /\ HasSlots(R!MessageDone(x))
           /\ HasSlots([ x EXCEPT !.ends = @ + 1 ])
           /\ R!Msg([ x EXCEPT !.ends = @ + 1 ]) = R!Msg(x)
           /\ \A len : HasSlots([ x EXCEPT !.ipayloadlen = len, !.starts = @ + 1 ])
<1>1. \A y : HasSlots(y) => HasSlots(R!FrameDone(y))
  BY DEF R!FrameDone, HasSlots
<1>2. HasSlots([ x EXCEPT !.ends = @ + 1 ]) /\ R!Msg([ x EXCEPT !.ends = @ + 1 ]) = R!Msg(x)
  BY DEF HasSlots, R!Msg
<1>3. \A len : HasSlots([ x EXCEPT !.ipayloadlen = len, !.starts = @ + 1 ])
  BY DEF HasSlots
<1>4. HasSlots(R!MessageDone(x))
  <2> DEFINE old == x.imsgs[x.imsg]
             m == R!imsg_reset(old)
             z == [ x EXCEPT !.imsgs[x.imsg] = m ]
             y == [ x EXCEPT !.imsgs[x.imsg] = m, !.imsg = 0 ]
  <2>1. x.imsg \in 0..1 /\ "opcode" \in DOMAIN old
    BY DEF HasSlots
  <2>2. "opcode" \in DOMAIN m
    BY <2>1 DEF R!imsg_reset
  <2>3. R!MessageDone(x) = R!FrameDone(y)
    BY Zenon DEF R!MessageDone
  <2> HIDE DEF m, old
  <2>4. HasSlots(z)
    BY <2>1, <2>2, PutSlot
  <2>5. HasSlots(y)
    BY <2>4, <2>1 DEF HasSlots
  <2> HIDE DEF y, z
  <2> QED  BY <1>1, <2>3, <2>5
<1> QED  BY <1>1, <1>2, <1>3, <1>4

(* The callback, when there is one.                                        *)
DeliversOne(x) ==
    /\ \E e : Heard(e) /\ e.opcode = R!Msg(x).opcode
    /\ ret' = 0 /\ HasSlots(rx')

(* on_msg_recv_callback is called with a message of the slot's opcode.     *)
LEMMA DeliverHears ==
    ASSUME config.on_msg_recv, NEW x, HasSlots(x), NEW msg, NEW status,
           R!Deliver(x, msg, status)
    PROVE  DeliversOne(x)
<1>1. PICK e : e = [ opcode |-> R!Msg(x).opcode, msg |-> msg, status_code |-> status ]
  OBVIOUS
<1>2. Heard(e) /\ e.opcode = R!Msg(x).opcode
  BY <1>1 DEF R!Deliver, Heard
<1>3. ret' = 0 /\ HasSlots(rx')
  BY DoneSlots DEF R!Deliver
<1> QED  BY <1>2, <1>3 DEF DeliversOne

(* A data message or a Pong.                                               *)
LEMMA DataOutcome ==
    ASSUME config.on_msg_recv, NEW x, HasSlots(x), NEW msg, R!ReceiveData(x, msg)
    PROVE  Continues
<1>1. DeliversOne(x)
  BY DeliverHears DEF R!ReceiveData
<1>2. QueuesStay /\ read_enabled' = read_enabled /\ close_status' = close_status
  BY DEF R!ReceiveData, R!queueVars, QueuesStay
<1> QED  BY <1>1, <1>2 DEF Continues, DeliversOne

(* A Ping, and the Pong it is answered with.                               *)
LEMMA PingOutcome ==
    ASSUME config.on_msg_recv, NEW x, HasSlots(x), NEW msg, R!ReceivePing(x, msg)
    PROVE  Continues \/ Ends
<1>1. PICK r \in R!QueueReturns :
        /\ R!wslay_event_queue_msg(R!WSLAY_PONG, msg, r)
        /\ IF r \in {0, R!WSLAY_ERR_NO_MORE_MSG}
           THEN R!Deliver(x, msg, 0) /\ UNCHANGED read_enabled
           ELSE /\ read_enabled' = FALSE /\ ret' = r /\ rx' = x
                /\ UNCHANGED << delivered, error >>
        /\ UNCHANGED << close_status, status_code_recv >>
  BY Zenon DEF R!ReceivePing
<1>2. \/ r # 0 /\ QueuesStay
      \/ r = 0 /\ \E m : Pushed(m) /\ m.opcode = 10
  <2>1. R!wslay_event_queue_msg(10, msg, r) /\ wslay_is_ctrl_frame(10)
    BY <1>1, SameCodes
  <2> QED  BY <2>1, QueueCtrl
<1>3. CASE r \in {0, R!WSLAY_ERR_NO_MORE_MSG}
  <2>1. DeliversOne(x)
    BY <1>1, <1>3, DeliverHears
  <2>2. QueuesStay \/ \E m : Pushed(m) /\ m.opcode # CLOSE
    BY <1>2, SameCodes
  <2> QED  BY <1>1, <1>3, <2>1, <2>2 DEF Continues, DeliversOne
<1>4. CASE r \notin {0, R!WSLAY_ERR_NO_MORE_MSG}
  BY <1>1, <1>2, <1>4 DEF Ends, HeardNothing, KeepsBit
<1> QED  BY <1>3, <1>4

(* A Close ends reading, whether its status code is valid or not.          *)
LEMMA CloseOutcome ==
    ASSUME config.on_msg_recv, NEW x, HasSlots(x), R!Msg(x).opcode = CLOSE, NEW msg,
           R!ReceiveClose(x, msg)
    PROVE  Ends
<1> DEFINE status == IF Len(msg) >= 2 THEN R!ntohs(msg) ELSE 0
           reason == SubSeq(msg, 3, Len(msg))
           bad == Len(msg) >= 2 /\ ~R!wslay_event_is_valid_status_code(status)
<1>1. CASE bad
  <2>1. R!FailConnection(R!WSLAY_CODE_PROTOCOL_ERROR, x)
    BY <1>1, Zenon DEF R!ReceiveClose
  <2> QED  BY <2>1, FailEnds
<1>2. CASE ~bad
  <2>1. PICK r \in R!QueueReturns :
          /\ R!wslay_event_queue_close_wrapper(close_status \cup {"RECEIVED"}, status, reason, r)
          /\ IF r = 0 THEN R!Deliver(x, msg, status)
             ELSE ret' = r /\ rx' = x /\ UNCHANGED << delivered, error >>
    BY <1>2, Zenon DEF R!ReceiveClose
  <2> HIDE DEF status, reason
  <2> DEFINE received == close_status \cup {"RECEIVED"}
  <2>2. /\ read_enabled' = FALSE
        /\ \/ QueuesStay /\ r # 0 /\ close_status' = received
           \/ PushedClose /\ write_enabled /\ "QUEUED" \notin close_status
        /\ close_status' \in {received, received \cup {"QUEUED"}}
    BY <2>1, WrapperQueues
  <2>5. KeepsBit("SENT") /\ (close_status' = received => KeepsBit("QUEUED"))
    BY <2>2 DEF KeepsBit
  <2> HIDE DEF received
  <2>3. CASE r = 0
    <3>1. DeliversOne(x)
      BY <2>1, <2>3, DeliverHears
    <3> QED  BY <2>2, <2>3, <2>5, <3>1 DEF Ends, DeliversOne
  <2>4. CASE r # 0
    BY <2>1, <2>2, <2>4, <2>5 DEF Ends, HeardNothing
  <2> QED  BY <2>3, <2>4
<1> QED  BY <1>1, <1>2

(* A message is complete.                                                  *)
LEMMA MessageOutcome ==
    ASSUME config.on_msg_recv, NEW x, HasSlots(x), NEW iocb, R!ReceiveMessage(x, iocb)
    PROVE  Continues \/ Ends
<1> DEFINE y == R!Emptied(x, iocb)
           m == R!Msg(x)
           flat == IF R!IsBuffered(iocb) THEN R!Flatten(m.chunks) ELSE << >>
<1>1. HasSlots(y) /\ R!Msg(y).opcode = m.opcode
  BY EmptiedSlots
<1>2. \/ R!Stop(x, R!WSLAY_ERR_NOMEM)
      \/ CASE m.opcode = R!WSLAY_CONNECTION_CLOSE -> R!ReceiveClose(y, flat)
           [] m.opcode = R!WSLAY_PING             -> R!ReceivePing(y, flat)
           [] OTHER                               -> R!ReceiveData(y, flat)
  BY DEF R!ReceiveMessage
<1> HIDE DEF y, flat, m
<1>3. \/ R!Stop(x, R!WSLAY_ERR_NOMEM)
      \/ m.opcode = CLOSE /\ R!ReceiveClose(y, flat)
      \/ R!ReceivePing(y, flat)
      \/ R!ReceiveData(y, flat)
  BY <1>2, SameCodes
<1>4. CASE R!Stop(x, R!WSLAY_ERR_NOMEM)
  <2>1. R!WSLAY_ERR_NOMEM # 0
    BY SameCodes
  <2> QED  BY <1>4, <2>1, StopEnds
<1>5. CASE m.opcode = CLOSE /\ R!ReceiveClose(y, flat)
  BY <1>1, <1>5, CloseOutcome
<1>6. CASE R!ReceivePing(y, flat)
  BY <1>1, <1>6, PingOutcome
<1>7. CASE R!ReceiveData(y, flat)
  BY <1>1, <1>7, DataOutcome
<1> QED  BY <1>3, <1>4, <1>5, <1>6, <1>7

(* A frame is complete.                                                    *)
LEMMA EndFrameOutcome ==
    ASSUME config.on_msg_recv, NEW x, HasSlots(x), NEW iocb, R!EndFrame(x, iocb)
    PROVE  Continues \/ Ends
<1> DEFINE y == [ x EXCEPT !.ends = @ + 1 ]
<1>1. HasSlots(y) /\ HasSlots(R!FrameDone(y))
  BY DoneSlots
<1>2. \/ R!FailConnection(R!WSLAY_CODE_INVALID_FRAME_PAYLOAD_DATA, x)
      \/ R!ReceiveMessage(y, iocb)
      \/ R!GoOn(R!FrameDone(y))
  BY DEF R!EndFrame
<1> HIDE DEF y
<1> QED  BY <1>1, <1>2, FailEnds, MessageOutcome, GoOnContinues

(* The bytes of a chunk.                                                   *)
LEMMA ChunkOutcome ==
    ASSUME config.on_msg_recv, NEW x, HasSlots(x), NEW iocb, R!ReceiveChunk(x, iocb)
    PROVE  Continues \/ Ends
<1> DEFINE y == R!CheckUtf8(x, iocb)
           z == R!StoreData(y, iocb)
<1>1. HasSlots(y)
  BY CheckSlots
<1>2. \/ R!FailConnection(R!WSLAY_CODE_INVALID_FRAME_PAYLOAD_DATA, y)
      \/ R!EndFrame(z, iocb)
      \/ R!GoOn(z)
  BY DEF R!ReceiveChunk
<1> HIDE DEF y
<1>3. HasSlots(z)
  BY <1>1, StoreSlots
<1> HIDE DEF z
<1> QED  BY <1>1, <1>2, <1>3, FailEnds, EndFrameOutcome, GoOnContinues

(* A chunk that the frame layer passed on.                                 *)
LEMMA FrameOutcome ==
    ASSUME config.on_msg_recv, HasSlots(rx), NEW iocb, R!ReceiveFrame(iocb)
    PROVE  Continues \/ Ends
<1> DEFINE x == R!Open(rx, iocb)
           y == R!StartFrame(x, iocb)
           z == [ x EXCEPT !.ipayloadlen = iocb.payload_length, !.starts = @ + 1 ]
<1>1. HasSlots(x)
  BY OpenSlots
<1>2. \/ R!FailConnection(R!WSLAY_CODE_PROTOCOL_ERROR, rx)
      \/ R!ReceiveChunk(x, iocb)
      \/ R!FailConnection(R!WSLAY_CODE_MESSAGE_TOO_BIG, x)
      \/ R!ReceiveChunk(y, iocb)
      \/ R!Stop(z, -1)
  BY Zenon DEF R!ReceiveFrame
<1> HIDE DEF x
<1>3. HasSlots(y)
  BY <1>1, StartSlots
<1>4. HasSlots(z)
  BY <1>1, DoneSlots
<1> HIDE DEF y, z
<1>5. -1 # 0
  OBVIOUS
<1> QED  BY <1>1, <1>2, <1>3, <1>4, <1>5, FailEnds, ChunkOutcome, StopEnds

(* The frame layer has none.                                               *)
LEMMA FailsOutcome ==
    ASSUME HasSlots(rx), NEW result, NEW failed, R!RecvFails(result, failed)
    PROVE  Continues \/ Ends
<1>1. delivered' = delivered /\ rx' = rx
  BY DEF R!RecvFails
<1>2. CASE result # R!WSLAY_ERR_WANT_READ \/ error' \notin {0, R!WSLAY_ERR_WOULDBLOCK}
  <2>1. PICK r \in R!QueueReturns :
              /\ R!wslay_event_queue_close_wrapper(close_status, 0, << >>, r)
              /\ ret' = IF r # 0 THEN r ELSE R!WSLAY_ERR_CALLBACK_FAILURE
    BY <1>2, Zenon DEF R!RecvFails
  <2>2. /\ read_enabled' = FALSE
        /\ \/ QueuesStay /\ r # 0 /\ close_status' = close_status
           \/ PushedClose /\ write_enabled /\ "QUEUED" \notin close_status
        /\ close_status' \in {close_status, close_status \cup {"QUEUED"}}
    BY <2>1, WrapperQueues
  <2>3. ret' # 0
    BY <2>1, SameCodes
  <2> QED  BY <1>1, <2>2, <2>3 DEF Ends, HeardNothing, KeepsBit
<1>3. CASE ~(result # R!WSLAY_ERR_WANT_READ \/ error' \notin {0, R!WSLAY_ERR_WOULDBLOCK})
  <2>1. ret' = 0 /\ UNCHANGED << read_enabled, close_status, R!queueVars >>
    BY <1>3, Zenon DEF R!RecvFails
  <2> QED  BY <1>1, <1>3, <2>1 DEF Continues, HeardNothing, QueuesStay, R!queueVars
<1> QED  BY <1>2, <1>3

(* An iteration of wslay_event_recv.                                       *)
LEMMA RecvOutcome ==
    ASSUME config.on_msg_recv, HasSlots(rx), R!wslay_event_recv
    PROVE  /\ Continues \/ Ends
           /\ read_enabled /\ write_enabled' = write_enabled /\ config' = config
<1>1. PICK o \in R!wslay_frame_recv(source) :
        IF o.result # 0 THEN R!RecvFails(o.result, o.failed) ELSE R!ReceiveFrame(o.iocb)
  BY Zenon DEF R!wslay_event_recv
<1>2. Continues \/ Ends
  BY <1>1, FrameOutcome, FailsOutcome
<1> QED  BY <1>2 DEF R!wslay_event_recv

-----------------------------------------------------------------------------
(* What an iteration of wslay_event_send comes to *)

(* The fields of the frame context a server's calls depend on: it never    *)
(* masks.                                                                  *)
NeverMasks(fc) == /\ {"ostate", "omask"} \subseteq DOMAIN fc
                  /\ fc.ostate \in { "PREP_HEADER", "SEND_HEADER", "SEND_PAYLOAD" }
                  /\ fc.omask = FALSE

FrameOutcomeOK(o) == NeverMasks(o.fc) /\ (o.failed => o.result # 0)

(* The codes sending uses are not 0 and differ.                            *)
LEMMA SendCodes ==
    /\ S!WSLAY_ERR_WANT_WRITE = -101 /\ S!WSLAY_ERR_INVALID_CALLBACK = -301
    /\ S!WSLAY_ERR_INVALID_ARGUMENT = -300 /\ S!WSLAY_ERR_WOULDBLOCK = -401
    /\ S!WSLAY_ERR_CALLBACK_FAILURE = -400 /\ S!WSLAY_CONNECTION_CLOSE = 8
BY DEF S!WSLAY_ERR_WANT_WRITE, S!WSLAY_ERR_INVALID_CALLBACK, S!WSLAY_ERR_INVALID_ARGUMENT,
       S!WSLAY_ERR_WOULDBLOCK, S!WSLAY_ERR_CALLBACK_FAILURE, S!WSLAY_CONNECTION_CLOSE

(* The stages of a call leave the mask off.                                *)
LEMMA SentKeepMask ==
    ASSUME NEW fc, NeverMasks(fc), NEW n
    PROVE  /\ NeverMasks(S!PayloadSent(fc, n)) /\ NeverMasks(S!HeaderSent(fc, n))
           /\ NeverMasks([ fc EXCEPT !.opayloadoff = @ + n ])
BY DEF S!PayloadSent, S!HeaderSent, NeverMasks

(* SEND_PAYLOAD: without a mask, a callback that failed sent nothing.      *)
LEMMA PayloadOutcome ==
    ASSUME NEW fc, NeverMasks(fc), NEW w, NEW data, NEW o \in S!SendPayload(fc, w, data)
    PROVE  FrameOutcomeOK(o)
<1>1. CASE o = S!Outcome(S!PayloadSent(fc, 0), w, 0, 0, FALSE)
  BY <1>1, SentKeepMask DEF S!Outcome, FrameOutcomeOK
<1>2. CASE o = S!Blocked(fc, w)
  BY <1>2, SendCodes DEF S!Outcome, S!Blocked, FrameOutcomeOK
<1>3. CASE \E n \in 1..Len(data) :
             o = S!Outcome(S!PayloadSent(fc, n), S!WritePayload(fc, w, data, n), 0, n,
                           fc.omask /\ n < Len(data))
  <2>1. PICK n \in 1..Len(data) :
             o = S!Outcome(S!PayloadSent(fc, n), S!WritePayload(fc, w, data, n), 0, n,
                           fc.omask /\ n < Len(data))
    BY <1>3
  <2>2. (fc.omask /\ n < Len(data)) = FALSE
    BY DEF NeverMasks
  <2>3. o.fc = S!PayloadSent(fc, n) /\ o.failed = FALSE
    BY <2>1, <2>2 DEF S!Outcome
  <2> QED  BY <2>3, SentKeepMask DEF FrameOutcomeOK
<1>4. CASE \E n : o = S!Overrun([ fc EXCEPT !.opayloadoff = @ + n ],
                                S!WritePayload(fc, w, data, n))
  <2>1. PICK n : o = S!Overrun([ fc EXCEPT !.opayloadoff = @ + n ],
                               S!WritePayload(fc, w, data, n))
    BY <1>4
  <2>2. o.fc = [ fc EXCEPT !.opayloadoff = @ + n ] /\ o.failed = FALSE
    BY <2>1 DEF S!Outcome, S!Overrun
  <2> QED  BY <2>2, SentKeepMask DEF FrameOutcomeOK
<1>5. o \in IF data = << >> THEN { S!Outcome(S!PayloadSent(fc, 0), w, 0, 0, FALSE) }
            ELSE { S!Blocked(fc, w) }
                 \cup { S!Outcome(S!PayloadSent(fc, n), S!WritePayload(fc, w, data, n), 0, n,
                                  fc.omask /\ n < Len(data)) : n \in 1..Len(data) }
                 \cup { S!Overrun([fc EXCEPT !.opayloadoff = @ + n],
                                  S!WritePayload(fc, w, data, n)) :
                        n \in 0..(IF fc.omask THEN Len(data) - 1 ELSE 0) }
  BY Zenon DEF S!SendPayload
<1> QED
  <2>1. CASE data = << >>
    BY <1>1, <1>5, <2>1
  <2>2. CASE data # << >>
    <3>1. \/ o = S!Blocked(fc, w)
          \/ \E n \in 1..Len(data) :
               o = S!Outcome(S!PayloadSent(fc, n), S!WritePayload(fc, w, data, n), 0, n,
                             fc.omask /\ n < Len(data))
          \/ \E n : o = S!Overrun([ fc EXCEPT !.opayloadoff = @ + n ],
                                  S!WritePayload(fc, w, data, n))
      BY <1>5, <2>2, Zenon
    <3> QED  BY <1>2, <1>3, <1>4, <3>1
  <2> QED  BY <2>1, <2>2

(* SEND_HEADER.                                                            *)
LEMMA HeaderOutcome ==
    ASSUME NEW fc, NeverMasks(fc), NEW w, NEW data, NEW o \in S!SendHeader(fc, w, data)
    PROVE  FrameOutcomeOK(o)
<1> DEFINE left == fc.oheaderlimit - fc.oheadermark
<1>0. \/ o = S!Blocked(fc, w) \/ o = S!Overrun(fc, w)
      \/ \E n \in 1..(left - 1) :
           o = S!Outcome(S!HeaderSent(fc, n), S!WriteHeader(fc, w, n),
                         S!WSLAY_ERR_WANT_WRITE, 0, FALSE)
      \/ o \in S!SendPayload(S!HeaderSent(fc, left), S!WriteHeader(fc, w, left), data)
  BY Zenon DEF S!SendHeader
<1>1. CASE o = S!Blocked(fc, w) \/ o = S!Overrun(fc, w)
  BY <1>1, SendCodes DEF S!Outcome, S!Blocked, S!Overrun, FrameOutcomeOK
<1>2. CASE \E n \in 1..(left - 1) :
           o = S!Outcome(S!HeaderSent(fc, n), S!WriteHeader(fc, w, n),
                         S!WSLAY_ERR_WANT_WRITE, 0, FALSE)
  <2>1. PICK n : o = S!Outcome(S!HeaderSent(fc, n), S!WriteHeader(fc, w, n),
                               S!WSLAY_ERR_WANT_WRITE, 0, FALSE)
    BY <1>2
  <2>2. o.fc = S!HeaderSent(fc, n) /\ o.failed = FALSE
    BY <2>1 DEF S!Outcome
  <2> QED  BY <2>2, SentKeepMask DEF FrameOutcomeOK
<1>3. CASE o \in S!SendPayload(S!HeaderSent(fc, left), S!WriteHeader(fc, w, left), data)
  BY <1>3, SentKeepMask, PayloadOutcome
<1> QED  BY <1>0, <1>1, <1>2, <1>3

(* wslay_frame_send as a server calls it.                                  *)
LEMMA CallOutcome ==
    ASSUME NEW fc, NeverMasks(fc), NEW w, NEW iocb, iocb.mask = FALSE,
           NEW o \in S!wslay_frame_send(fc, w, iocb)
    PROVE  FrameOutcomeOK(o)
<1>1. CASE S!IsRefused(fc, iocb)
  <2>1. o = S!Outcome(fc, w, S!WSLAY_ERR_INVALID_ARGUMENT, 0, FALSE)
    BY <1>1, Zenon DEF S!wslay_frame_send
  <2> QED  BY <2>1 DEF S!Outcome, FrameOutcomeOK
<1>2. CASE ~S!IsRefused(fc, iocb)
  <2>0. o \in CASE fc.ostate = "PREP_HEADER" ->
                S!SendHeader(S!PrepareHeader(fc, iocb), w, iocb.data)
                \cup (IF iocb.mask
                      THEN { S!Outcome(fc, w, S!WSLAY_ERR_INVALID_CALLBACK, 0, FALSE) }
                      ELSE {})
           [] fc.ostate = "SEND_HEADER"  -> S!SendHeader(fc, w, iocb.data)
           [] fc.ostate = "SEND_PAYLOAD" -> S!SendPayload(fc, w, iocb.data)
    BY <1>2, Zenon DEF S!wslay_frame_send
  <2>1. CASE fc.ostate = "PREP_HEADER"
    <3>1. o \in S!SendHeader(S!PrepareHeader(fc, iocb), w, iocb.data)
      BY <2>0, <2>1
    <3>2. NeverMasks(S!PrepareHeader(fc, iocb))
      <4>1. (iocb.mask \/ fc.omask) = FALSE
        BY DEF NeverMasks
      <4> QED  BY <4>1 DEF S!PrepareHeader, NeverMasks
    <3> QED  BY <3>1, <3>2, HeaderOutcome
  <2>2. CASE fc.ostate = "SEND_HEADER"
    BY <2>0, <2>2, HeaderOutcome
  <2>3. CASE fc.ostate = "SEND_PAYLOAD"
    BY <2>0, <2>3, PayloadOutcome
  <2> QED  BY <2>1, <2>2, <2>3 DEF NeverMasks
<1> QED  BY <1>1, <1>2

(* The messages in the queues and the one being sent are in D.             *)
Holds(D) ==
    /\ send_queue \in Seq(D) /\ send_ctrl_queue \in Seq(D)
    /\ omsg \in D \cup {S!NoMsg}

Whole(D) == \A m \in D : m.type = "NON_FRAGMENTED"

IsFrom(s, D) ==
    /\ s.omsg \in D \cup {S!NoMsg}
    /\ s.send_queue \in Seq(D) /\ s.send_ctrl_queue \in Seq(D)

(* wslay_event_send_ctrl_queue_pop takes from the queue what is in it.     *)
LEMMA PopFrom ==
    ASSUME NEW D, Holds(D), send_ctrl_queue # << >>
    PROVE  /\ S!wslay_event_send_ctrl_queue_pop.msg \in D \cup {S!NoMsg}
           /\ S!wslay_event_send_ctrl_queue_pop.rest \in Seq(D)
<1> DEFINE q == send_ctrl_queue
           pop == S!wslay_event_send_ctrl_queue_pop
           First(i) == /\ q[i].opcode = S!WSLAY_CONNECTION_CLOSE
                       /\ \A j \in 1..(i - 1) : q[j].opcode # S!WSLAY_CONNECTION_CLOSE
           Closes == { i \in 1..Len(q) : q[i].opcode = S!WSLAY_CONNECTION_CLOSE }
           at == CHOOSE i \in 1..Len(q) : First(i)
<1>0. q \in Seq(D) /\ q # << >> /\ Len(q) \in Nat
  BY DEF Holds
<1>1. CASE "QUEUED" \notin close_status
  <2>1. pop = [ msg |-> Head(q), rest |-> Tail(q) ]
    BY <1>1, Zenon DEF S!wslay_event_send_ctrl_queue_pop
  <2>2. pop.msg = Head(q) /\ pop.rest = Tail(q)
    BY <2>1
  <2> HIDE DEF q, pop
  <2>3. pop.msg \in D /\ pop.rest \in Seq(D)
    BY <1>0, <2>2
  <2> QED  BY <2>3 DEF pop
<1>2. CASE "QUEUED" \in close_status /\ Closes = {}
  <2>1. \A i \in 1..Len(q) : q[i].opcode # S!WSLAY_CONNECTION_CLOSE
    BY <1>2
  <2>2. pop = [ msg |-> S!NoMsg, rest |-> << >> ]
    BY <1>2, <2>1, Zenon DEF S!wslay_event_send_ctrl_queue_pop
  <2>3. pop.msg = S!NoMsg /\ pop.rest = << >>
    BY <2>2
  <2> QED  BY <2>3
<1>3. CASE "QUEUED" \in close_status /\ Closes # {}
  <2>1. Closes \in SUBSET Nat
    OBVIOUS
  <2>2. PICK i \in Closes : \A j \in Closes : i <= j
    <3> HIDE DEF Closes
    <3> QED  BY <1>3, <2>1, LeastNat
  <2>3. i \in 1..Len(q) /\ First(i)
    <3>1. ASSUME NEW j \in 1..(i - 1) PROVE q[j].opcode # S!WSLAY_CONNECTION_CLOSE
      <4>1. j \in 1..Len(q) /\ ~(i <= j)
        BY <1>0, <2>2
      <4> QED  BY <2>2, <4>1
    <3> QED  BY <2>2, <3>1
  <2>4. ~\A k \in 1..Len(q) : q[k].opcode # S!WSLAY_CONNECTION_CLOSE
    BY <2>2
  <2>5. pop = [ msg |-> q[at], rest |-> SubSeq(q, at + 1, Len(q)) ]
    BY <1>3, <2>4, Zenon DEF S!wslay_event_send_ctrl_queue_pop
  <2> HIDE DEF First
  <2>6. at \in 1..Len(q)
    BY <2>3
  <2>7. pop.msg = q[at] /\ pop.rest = SubSeq(q, at + 1, Len(q))
    BY <2>5
  <2> HIDE DEF at, pop, q
  <2>8. q[at] \in D /\ SubSeq(q, at + 1, Len(q)) \in Seq(D)
    BY <1>0, <2>6
  <2> QED  BY <2>7, <2>8 DEF pop
<1> QED  BY <1>1, <1>2, <1>3

(* So does the first half of an iteration.                                 *)
LEMMA SelectedFrom ==
    ASSUME NEW D, Holds(D), S!wslay_event_want_write
    PROVE  IsFrom(S!Selected, D)
<1> DEFINE pop == S!wslay_event_send_ctrl_queue_pop
<1>0. /\ send_queue \in Seq(D) /\ send_ctrl_queue \in Seq(D) /\ omsg \in D \cup {S!NoMsg}
      /\ send_queue # << >> \/ send_ctrl_queue # << >> \/ omsg # S!NoMsg
  BY DEF Holds, S!wslay_event_want_write
<1>1. CASE omsg = S!NoMsg /\ send_ctrl_queue = << >>
  <2>1. S!Selected = S!Popped(Head(send_queue), Tail(send_queue), send_ctrl_queue)
    BY <1>1, Zenon DEF S!Selected
  <2> QED  BY <1>0, <1>1, <2>1 DEF S!Popped, IsFrom
<1>2. CASE ~(omsg = S!NoMsg /\ send_ctrl_queue = << >>) /\ (omsg = S!NoMsg \/ S!IsPreempted)
  <2> DEFINE sq == IF S!IsPreempted THEN << omsg >> \o send_queue ELSE send_queue
  <2>1. S!Selected = S!Popped(pop.msg, sq, pop.rest)
    BY <1>2, Zenon DEF S!Selected
  <2>2. send_ctrl_queue # << >> /\ (S!IsPreempted => omsg # S!NoMsg)
    BY <1>2 DEF S!IsPreempted
  <2>3. sq \in Seq(D)
    BY <1>0, <2>2
  <2>4. pop.msg \in D \cup {S!NoMsg} /\ pop.rest \in Seq(D)
    BY <2>2, PopFrom
  <2> HIDE DEF sq, pop
  <2> QED  BY <2>1, <2>3, <2>4 DEF S!Popped, IsFrom
<1>3. CASE ~(omsg = S!NoMsg /\ send_ctrl_queue = << >>) /\ ~(omsg = S!NoMsg \/ S!IsPreempted)
  <2>1. S!Selected = [ omsg |-> omsg, send_queue |-> send_queue,
           send_ctrl_queue |-> send_ctrl_queue,
           opayloadlen |-> opayloadlen, opayloadoff |-> opayloadoff ]
    BY <1>3, Zenon DEF S!Selected
  <2> QED  BY <1>0, <2>1 DEF IsFrom
<1> QED  BY <1>1, <1>2, <1>3

(* An iteration that succeeds keeps writing enabled unless it sends a      *)
(* Close, and leaves no failure in error; one that fails ends writing.     *)
Sends(D) ==
    /\ send_queue' \in Seq(D) /\ send_ctrl_queue' \in Seq(D) /\ omsg' \in D \cup {S!NoMsg}
    /\ accepted' = accepted
    /\ KeepsBit("QUEUED") /\ KeepsBit("RECEIVED")
    /\ write_enabled' => write_enabled
    /\ ret' # 0 => write_enabled' = FALSE
    /\ ret' = 0 => /\ error' \in {error, 0, S!WSLAY_ERR_WOULDBLOCK}
                   /\ \/ write_enabled' = write_enabled
                      \/ \E m \in D : m.opcode = CLOSE
    /\ NeverMasks(frame_ctx')

(* An iteration of wslay_event_send.                                       *)
LEMMA SendOutcome ==
    ASSUME NEW D, Holds(D), Whole(D), NeverMasks(frame_ctx), S!wslay_event_send
    PROVE  Sends(D)
<1> DEFINE s == S!Selected
<1>1. /\ IsFrom(s, D)
      /\ CASE s.omsg.type = "NULL"           -> S!NothingSelected(s)
           [] s.omsg.type = "NON_FRAGMENTED" -> S!SendNonFragmented(s)
           [] s.omsg.type = "FRAGMENTED"     -> S!SendFragmented(s)
  BY SelectedFrom DEF S!wslay_event_send
<1>0. write_enabled
  BY DEF S!wslay_event_send, S!wslay_event_want_write
<1> HIDE DEF s
<1>2. CASE s.omsg = S!NoMsg
  <2>1. S!NothingSelected(s)
    BY <1>1, <1>2 DEF S!NoMsg
  <2> QED  BY <1>0, <2>1, <1>1 DEF S!NothingSelected, IsFrom, Sends, KeepsBit, S!frameVars
<1>3. CASE s.omsg # S!NoMsg
  <2>1. s.omsg \in D /\ s.omsg.type = "NON_FRAGMENTED" /\ S!SendNonFragmented(s)
    BY <1>1, <1>3 DEF IsFrom, Whole
  <2> DEFINE data == SubSeq(s.omsg.data, s.opayloadoff + 1, s.opayloadlen)
             iocb == S!Iocb(TRUE, s.omsg.opcode, ~TRUE, s.opayloadlen, data)
  <2>2. PICK o \in S!wslay_frame_send(frame_ctx, wire, iocb) :
          /\ S!Keep(s, o)
          /\ IF o.result # 0 THEN S!NotSent(s, obuf, o.result)
             ELSE IF s.opayloadoff + o.length = s.opayloadlen
             THEN S!SentWhole(s, obuf, s.opayloadoff + o.length)
             ELSE S!SentPartly(s, obuf, s.opayloadoff + o.length)
    BY <2>1, Zenon DEF S!SendNonFragmented
  <2>3. iocb.mask = FALSE
    BY DEF S!Iocb
  <2> HIDE DEF iocb
  <2>4. NeverMasks(o.fc) /\ (o.failed => o.result # 0)
    BY <2>2, <2>3, CallOutcome DEF FrameOutcomeOK
  <2>5. /\ send_queue' \in Seq(D) /\ send_ctrl_queue' \in Seq(D) /\ accepted' = accepted
        /\ NeverMasks(frame_ctx')
    BY <1>1, <2>2, <2>4 DEF S!Keep, IsFrom
  <2>6. CASE o.result # 0
    <3>1. S!NotSent(s, obuf, o.result)
      BY <2>2, <2>6
    <3>2. omsg' \in D \cup {S!NoMsg} /\ KeepsBit("QUEUED") /\ KeepsBit("RECEIVED")
      BY <1>1, <3>1 DEF S!NotSent, IsFrom, KeepsBit
    <3>3. CASE ret' # 0
      BY <2>5, <3>1, <3>2, <3>3, SendCodes DEF S!NotSent, Sends
    <3>4. CASE ret' = 0
      <4>1. write_enabled' = write_enabled /\ error' \in {0, S!WSLAY_ERR_WOULDBLOCK}
        BY <3>1, <3>4, SendCodes DEF S!NotSent
      <4> QED  BY <2>5, <3>2, <3>4, <4>1 DEF Sends
    <3> QED  BY <3>3, <3>4
  <2>7. CASE o.result = 0
    <3>1. error' = error
      BY <2>2, <2>4, <2>7 DEF S!Keep
    <3>2. \/ S!SentWhole(s, obuf, s.opayloadoff + o.length)
          \/ S!SentPartly(s, obuf, s.opayloadoff + o.length)
      BY <2>2, <2>7
    <3>3. CASE S!SentWhole(s, obuf, s.opayloadoff + o.length)
      <4>1. omsg' = S!NoMsg /\ ret' = 0
        BY <3>3 DEF S!SentWhole
      <4>2. CASE s.omsg.opcode = S!WSLAY_CONNECTION_CLOSE
        <5>1. close_status' = close_status \cup {"SENT"}
          BY <3>3, <4>2, Zenon DEF S!SentWhole
        <5>2. s.omsg.opcode = CLOSE
          BY <4>2, SendCodes, SameCodes
        <5> QED  BY <1>0, <2>1, <2>5, <3>1, <4>1, <5>1, <5>2 DEF Sends, KeepsBit
      <4>3. CASE s.omsg.opcode # S!WSLAY_CONNECTION_CLOSE
        <5>1. UNCHANGED << write_enabled, close_status >>
          BY <3>3, <4>3, Zenon DEF S!SentWhole
        <5> QED  BY <1>0, <2>5, <3>1, <4>1, <5>1 DEF Sends, KeepsBit
      <4> QED  BY <4>2, <4>3
    <3>4. CASE S!SentPartly(s, obuf, s.opayloadoff + o.length)
      BY <1>0, <1>1, <2>5, <3>1, <3>4 DEF S!SentPartly, IsFrom, Sends, KeepsBit
    <3> QED  BY <3>2, <3>3, <3>4
  <2> QED  BY <2>6, <2>7
<1> QED  BY <1>2, <1>3

-----------------------------------------------------------------------------
(* The data messages of a history *)

Pick(v, e) == IF wslay_is_ctrl_frame(e.opcode) THEN v ELSE Append(v, e)

PickStep(M) == [ p \in Seq(M) \X M |-> Pick(p[1], p[2]) ]

(* DataOf is a fold.                                                       *)
LEMMA DataOfFolds ==
    ASSUME NEW M, NEW s \in Seq(M)
    PROVE  \E f \in [ 0..Len(s) -> Seq(M) ] :
             IsFold(f, << >>, PickStep(M), s) /\ DataOf(s) = f[Len(s)]
<1> DEFINE n == Len(s)
           Walk(f) == [ i \in 0..n |-> IF i = 0 THEN << >> ELSE Pick(f[i - 1], s[i]) ]
           at == CHOOSE f : f = Walk(f)
           step == PickStep(M)
           St == Seq(M)
           Tt == M
<1>1. n \in Nat /\ \A i \in 1..n : s[i] \in Tt
  OBVIOUS
<1>2. step \in Steps(St, Tt) /\ << >> \in St
  BY DEF Steps, PickStep, Pick
<1>3. \A v \in St, e \in Tt : step[<< v, e >>] = (Pick(v, e))
  BY DEF PickStep
<1> HIDE DEF step, St, Tt
<1>0. s \in Seq(Tt)
  BY DEF Tt
<1>4. PICK f \in [ 0..n -> St ] : IsFold(f, << >>, step, s)
  BY <1>0, <1>2, FoldExists
<1>5. ASSUME NEW i \in 1..n PROVE i - 1 \in 0..n /\ i \in 0..n /\ f[i] = Pick(f[i - 1], s[i])
  <2>1. i - 1 \in 0..n /\ i \in 0..n /\ s[i] \in Tt
    BY <1>1
  <2>2. f[i] = step[<< f[i - 1], s[i] >>]
    BY <1>4 DEF IsFold
  <2> QED
    BY <1>3, <2>1, <2>2
<1>6. f = Walk(f)
  <2>1. \A i \in 0..n : f[i] = Walk(f)[i]
    BY <1>1, <1>4, <1>5 DEF IsFold
  <2> QED
    BY <2>1
<1>7. at = Walk(at)
  BY <1>6, Zenon
<1>8. DataOf(s) = at[n]
  BY Zenon DEF DataOf, Pick
<1> HIDE DEF at
<1>9. \A i \in 0..n : at[i] = f[i]
  <2> DEFINE Same == { i \in 0..n : at[i] = f[i] }
  <2>1. 0 \in Same
    BY <1>1, <1>4, <1>7 DEF IsFold
  <2>2. ASSUME NEW i \in 1..n, i - 1 \in Same PROVE i \in Same
    <3>1. at[i - 1] = f[i - 1]
      BY <2>2
    <3>2. at[i] = (Pick(at[i - 1], s[i]))
      BY <1>1, <1>7
    <3>3. i \in 0..n /\ f[i] = Pick(f[i - 1], s[i])
      BY <1>5
    <3> QED
      BY <3>1, <3>2, <3>3
  <2>3. \A i \in 0..n : i \in Same
    <3> HIDE DEF Same
    <3> QED
      BY <1>1, <2>1, <2>2, InductionUpTo
  <2> QED
    BY <2>3
<1> QED
  BY <1>1, <1>4, <1>8, <1>9 DEF step, St

(* No message.                                                             *)
LEMMA DataOfEmpty == DataOf(<< >>) = << >>
<1>1. << >> \in Seq({}) /\ Len(<< >>) = 0
  OBVIOUS
<1>2. PICK f \in [ 0..Len(<< >>) -> Seq({}) ] :
            IsFold(f, << >>, PickStep({}), << >>) /\ DataOf(<< >>) = f[Len(<< >>)]
  BY <1>1, DataOfFolds
<1> QED  BY <1>1, <1>2 DEF IsFold

(* One message more.                                                       *)
LEMMA DataOfAppend ==
    ASSUME NEW M, NEW s \in Seq(M), NEW e \in M
    PROVE  /\ DataOf(s) \in Seq(M)
           /\ s = << >> => DataOf(s) = << >>
           /\ DataOf(Append(s, e)) = (Pick(DataOf(s), e))
<1> DEFINE t == Append(s, e)
           step == PickStep(M)
<1>1. PICK f \in [ 0..Len(s) -> Seq(M) ] : IsFold(f, << >>, step, s) /\ DataOf(s) = f[Len(s)]
  BY DataOfFolds
<1>2. /\ t \in Seq(M) /\ Len(t) = Len(s) + 1 /\ Len(s) \in Nat
      /\ t[Len(s) + 1] = e /\ \A i \in 1..Len(s) : t[i] = s[i]
  OBVIOUS
<1> HIDE DEF t
<1>3. PICK g \in [ 0..Len(t) -> Seq(M) ] : IsFold(g, << >>, step, t) /\ DataOf(t) = g[Len(t)]
  BY <1>2, DataOfFolds
<1>4. f[Len(s)] \in Seq(M) /\ (s = << >> => f[Len(s)] = << >>)
  <2>1. Len(s) \in 0..Len(s) /\ (s = << >> => Len(s) = 0)
    BY <1>2
  <2>2. f[0] = << >>
    BY <1>1 DEF IsFold
  <2> QED  BY <2>1, <2>2
<1>5. step[<< f[Len(s)], e >>] = (Pick(f[Len(s)], e))
  BY <1>4 DEF PickStep
<1> HIDE DEF step
<1>6. IsNextStep(f, g, step, s, t)
  <2>1. IsExtension(s, t)
    BY <1>2 DEF IsExtension
  <2> QED
    BY <1>1, <1>3, <2>1, FoldAppend
<1>7. g[Len(t)] = (Pick(f[Len(s)], e))
  BY <1>2, <1>5, <1>6 DEF IsNextStep
<1>8. DataOf(t) = (Pick(DataOf(s), e))
  BY <1>1, <1>3, <1>7
<1> QED
  BY <1>1, <1>4, <1>8 DEF t

(* What was queued answers what was delivered, one for one; or all of it   *)
(* but the last one.                                                       *)
Answer(q, g) == q.opcode = g.opcode /\ q.data = g.msg

Answers(queued, got) ==
    Len(queued) = Len(got) /\ \A i \in 1..Len(got) : Answer(queued[i], got[i])

OneBehind(queued, got) ==
    Len(got) = Len(queued) + 1 /\ \A i \in 1..Len(queued) : Answer(queued[i], got[i])

(* One more message is delivered.                                          *)
LEMMA BehindByOne ==
    ASSUME NEW M, NEW N, NEW q \in Seq(M), NEW g \in Seq(N), NEW e \in N, Answers(q, g)
    PROVE  OneBehind(q, Append(g, e))
BY DEF Answers, OneBehind

(* It is answered.                                                         *)
LEMMA CatchUp ==
    ASSUME NEW M, NEW N, NEW q \in Seq(M), NEW g \in Seq(N), OneBehind(q, g), NEW m \in M,
           Answer(m, g[Len(g)])
    PROVE  Answers(Append(q, m), g)
<1>1. Len(g) = Len(q) + 1 /\ Len(q) \in Nat /\ \A i \in 1..Len(q) : Answer(q[i], g[i])
  BY DEF OneBehind
<1> DEFINE t == Append(q, m)
<1>2. Len(t) = Len(q) + 1 /\ t[Len(q) + 1] = m /\ \A i \in 1..Len(q) : t[i] = q[i]
  OBVIOUS
<1> HIDE DEF t
<1>3. ASSUME NEW i \in 1..Len(g) PROVE Answer(t[i], g[i])
  <2>1. i \in 1..Len(q) \/ i = Len(q) + 1
    BY <1>1
  <2> QED  BY <1>1, <1>2, <2>1
<1> QED  BY <1>1, <1>2, <1>3 DEF Answers, t

-----------------------------------------------------------------------------
(* The inductive invariant of the echo server *)

(* The queues hold whole messages, and no Close while reading goes on.     *)
QueuesFrom(D) ==
    /\ Holds(D) /\ Whole(D)
    /\ pc # "done" /\ read_enabled => \A m \in D : m.opcode # CLOSE

(* The process goes on only after calls that succeed, and as long as it    *)
(* reads it may queue.                                                     *)
NoFailureYet ==
    pc # "done" => /\ ret = 0 /\ error # WSLAY_ERR_CALLBACK_FAILURE
                   /\ read_enabled => write_enabled /\ "QUEUED" \notin close_status

(* The data message on_msg_recv_callback is called with is the last one.   *)
Told(M, E) ==
    LET got == DataOf(delivered)
    IN  /\ accepted \in Seq(M) /\ delivered \in Seq(E)
        /\ pc = "echo" => /\ read_enabled /\ got # << >>
                          /\ got[Len(got)] = delivered[Len(delivered)]
                          /\ ~wslay_is_ctrl_frame(got[Len(got)].opcode)
        /\ OutOfMemory \/ IF pc = "echo" THEN OneBehind(DataOf(accepted), got)
                          ELSE Answers(DataOf(accepted), got)

Shape == HasSlots(rx) /\ NeverMasks(frame_ctx) /\ config.on_msg_recv
         /\ read_enabled \in BOOLEAN

EchoInv ==
    /\ \E D : QueuesFrom(D)
    /\ NoFailureYet
    /\ \E M, E : Told(M, E)
    /\ Shape

(* A sequence over a set is one over every larger set.                     *)
LEMMA SeqGrows ==
    ASSUME NEW A, NEW B, A \subseteq B, NEW s \in Seq(A)
    PROVE  s \in Seq(B)
<1>1. Len(s) \in Nat /\ \A i \in 1..Len(s) : s[i] \in B
  OBVIOUS
<1>2. s \in [ 1..Len(s) -> B ]
  BY <1>1
<1> QED  BY <1>1, <1>2

(* One element more.                                                       *)
LEMMA OneMore ==
    ASSUME NEW A, NEW s \in Seq(A), NEW e
    PROVE  /\ Append(s, e) # s /\ Append(s, e) # << >> /\ Append(s, e) \in Seq(A \cup {e})
           /\ Len(Append(s, e)) = Len(s) + 1 /\ Append(s, e)[Len(s) + 1] = e
<1> DEFINE B == A \cup {e}
<1>1. s \in Seq(B) /\ e \in B
  BY SeqGrows
<1> HIDE DEF B
<1>2. Append(s, e) \in Seq(B) /\ Len(Append(s, e)) = Len(s) + 1 /\ Len(s) \in Nat
      /\ Append(s, e)[Len(s) + 1] = e
  BY <1>1
<1>3. Append(s, e) # s /\ Append(s, e) # << >>
  BY <1>1, <1>2
<1> QED  BY <1>2, <1>3 DEF B

(* A control message leaves the data of a history alone, a data message is *)
(* added to it.                                                            *)
LEMMA DataOfMore ==
    ASSUME NEW A, NEW s \in Seq(A), NEW e
    PROVE  /\ DataOf(s) \in Seq(A)
           /\ wslay_is_ctrl_frame(e.opcode) => DataOf(Append(s, e)) = DataOf(s)
           /\ ~wslay_is_ctrl_frame(e.opcode) => DataOf(Append(s, e)) = Append(DataOf(s), e)
<1>1. s \in Seq(A \cup {e}) /\ e \in A \cup {e}
  BY SeqGrows
<1>2. DataOf(Append(s, e)) = (Pick(DataOf(s), e))
  BY <1>1, DataOfAppend
<1>3. DataOf(s) \in Seq(A)
  <2>1. PICK f \in [ 0..Len(s) -> Seq(A) ] : DataOf(s) = f[Len(s)]
    BY DataOfFolds
  <2>2. Len(s) \in 0..Len(s)
    OBVIOUS
  <2> QED  BY <2>1, <2>2
<1> QED  BY <1>2, <1>3 DEF Pick

(* The process begins with an empty context.                               *)
LEMMA EchoInitHolds == EchoInit => EchoInv
<1> SUFFICES ASSUME EchoInit PROVE EchoInv
  OBVIOUS
<1> USE DEF EchoInit, S!Init, R!Init
<1>1. QueuesFrom({})
  BY DEF S!QueueInit, QueuesFrom, Holds, Whole
<1>2. NoFailureYet
  <2>1. ret = 0 /\ error = 0 /\ write_enabled /\ close_status = {}
    BY DEF S!QueueInit
  <2>2. WSLAY_ERR_CALLBACK_FAILURE # 0
    BY SameCodes
  <2> QED  BY ONLY <2>1, <2>2 DEF NoFailureYet
<1>3. Told({}, {})
  <2>1. accepted = << >> /\ delivered = << >> /\ << >> \in Seq({}) /\ pc # "echo"
    BY DEF S!QueueInit
  <2> QED  BY <2>1, DataOfEmpty DEF Told, Answers
<1>4. Shape
  <2>1. HasSlots(rx)
    <3>1. /\ {"imsgs", "imsg"} \subseteq DOMAIN rx
          /\ rx.imsgs = [ i \in 0..1 |-> R!NewImsg ] /\ rx.imsg = 0
      OBVIOUS
    <3>2. "opcode" \in DOMAIN R!NewImsg
      BY DEF R!NewImsg
    <3> QED  BY <3>1, <3>2 DEF HasSlots
  <2>2. NeverMasks(frame_ctx)
    BY DEF S!FrameInit, S!frame_context_new, NeverMasks
  <2>3. config.on_msg_recv /\ read_enabled \in BOOLEAN
    OBVIOUS
  <2> QED  BY <2>1, <2>2, <2>3 DEF Shape
<1> QED  BY <1>1, <1>2, <1>3, <1>4 DEF EchoInv

(* A step of the loop that does not touch the context.                     *)
Quiet == UNCHANGED contextVars /\ (pc = "done" => pc' = "done")
         /\ (pc = "echo" <=> pc' = "echo")

(* Such a step keeps the invariant, and the view is the same.              *)
LEMMA QuietStep ==
    ASSUME EchoInv, Quiet
    PROVE  EchoInv' /\ View' = View
<1>1. PICK D : QueuesFrom(D)
  BY DEF EchoInv
<1>2. PICK M, E : Told(M, E)
  BY DEF EchoInv
<1> USE DEF Quiet, contextVars, queueVars, frameVars, sendVars, recvVars
<1>3. QueuesFrom(D)'
  BY <1>1 DEF QueuesFrom, Holds, Whole
<1>4. Told(M, E)'
  BY <1>2 DEF Told
<1>5. NoFailureYet' /\ Shape'
  BY DEF EchoInv, NoFailureYet, Shape
<1>6. View' = View
  BY DEF View, wslay_event_want_read, S!wslay_event_want_write
<1> QED  BY <1>3, <1>4, <1>5, <1>6 DEF EchoInv

(* The step a view may take.                                               *)
ViewStep ==
    View' \in {View} \cup (CASE pc \in {"recv", "echo"} -> RecvCall(View)
                             [] pc = "send"             -> SendCall(View)
                             [] OTHER                   -> {})

-----------------------------------------------------------------------------
(* Recv *)

(* Where RecvReturns leads to.                                             *)
LEMMA ReturnsTo ==
    ASSUME RecvReturns
    PROVE  /\ pc' = "done" <=> ret' # 0
           /\ pc' = "echo" <=> /\ ret' = 0 /\ delivered' # delivered
                               /\ ~wslay_is_ctrl_frame(delivered'[Len(delivered')].opcode)
<1>1. AfterRecv(revents) \in {"send", "check"}
  BY DEF AfterRecv
<1> QED  BY <1>1 DEF RecvReturns, Leave, Goto

(* A pushed message joins its queue.                                       *)
LEMMA PushHolds ==
    ASSUME NEW D, Holds(D), Whole(D), NEW m, Pushed(m), omsg' = omsg
    PROVE  /\ Holds(D \cup {m})' /\ Whole(D \cup {m})
           /\ send_queue' = send_queue /\ send_ctrl_queue' # << >>
<1>1. send_queue \in Seq(D \cup {m}) /\ omsg \in (D \cup {m}) \cup {S!NoMsg}
  BY SeqGrows DEF Holds
<1>2. send_ctrl_queue' \in Seq(D \cup {m}) /\ send_ctrl_queue' # << >> /\ send_queue' = send_queue
  BY OneMore, PushedOn DEF Holds
<1>3. Whole(D \cup {m})
  BY PushedOn DEF Whole
<1> QED  BY <1>1, <1>2, <1>3 DEF Holds

(* The queues stay whole, and without a Close while reading goes on.       *)
LEMMA RecvQueues ==
    ASSUME NEW D, QueuesFrom(D), pc # "done", read_enabled,
           Continues \/ Ends, omsg' = omsg
    PROVE  \E D2 : QueuesFrom(D2)'
<1>1. CASE QueuesStay
  <2>1. Holds(D)' /\ Whole(D)
    BY <1>1 DEF QueuesStay, QueuesFrom, Holds
  <2> QED  BY <2>1 DEF QueuesFrom, Whole
<1>2. CASE ~QueuesStay
  <2>1. PICK m : Pushed(m) /\ (read_enabled' # FALSE => m.opcode # CLOSE)
    BY <1>2 DEF Continues, Ends, PushedClose
  <2>2. Holds(D \cup {m})' /\ Whole(D \cup {m})
    BY <2>1, PushHolds DEF QueuesFrom
  <2>3. read_enabled' => \A k \in D \cup {m} : k.opcode # CLOSE
    BY <2>1 DEF QueuesFrom
  <2>4. QueuesFrom(D \cup {m})'
    BY <2>2, <2>3 DEF QueuesFrom, Whole
  <2> QED  BY <2>4
<1> QED  BY <1>1, <1>2

(* What receiving queues is no data.                                       *)
LEMMA RecvAccepted ==
    ASSUME NEW M, accepted \in Seq(M), Continues \/ Ends
    PROVE  \E N : accepted' \in Seq(N) /\ DataOf(accepted') = DataOf(accepted)
<1>1. CASE QueuesStay
  BY <1>1 DEF QueuesStay
<1>2. CASE ~QueuesStay
  <2>1. PICK m : Pushed(m) /\ wslay_is_ctrl_frame(m.opcode)
    BY <1>2, PushedOn DEF Continues, Ends, PushedClose
  <2>2. accepted' = Append(accepted, m) /\ accepted' \in Seq(M \cup {m})
    BY <2>1, OneMore, PushedOn
  <2>3. DataOf(accepted') = DataOf(accepted)
    BY <2>1, <2>2, DataOfMore
  <2> QED  BY <2>2, <2>3
<1> QED  BY <1>1, <1>2

(* A data message delivered is one the process is about to echo.           *)
LEMMA RecvTold ==
    ASSUME NEW M, NEW E, Told(M, E), pc = "recv", RecvReturns, Continues \/ Ends, read_enabled
    PROVE  \E N, F : Told(N, F)'
<1>1. PICK N : accepted' \in Seq(N) /\ DataOf(accepted') = DataOf(accepted)
  BY RecvAccepted DEF Told
<1>2. /\ accepted \in Seq(M) /\ delivered \in Seq(E)
      /\ OutOfMemory \/ Answers(DataOf(accepted), DataOf(delivered))
  BY DEF Told
<1>3. CASE delivered' = delivered
  <2>1. pc' # "echo"
    BY <1>3, ReturnsTo
  <2>2. Told(N, E)'
    BY <1>1, <1>2, <1>3, <2>1 DEF Told
  <2> QED  BY <2>2
<1>4. CASE delivered' # delivered
  <2>1. PICK e : Heard(e) /\ (Ends => e.opcode = CLOSE \/ Continues)
    BY <1>4 DEF Continues, Ends, HeardNothing
  <2>2. /\ delivered' # delivered /\ delivered' \in Seq(E \cup {e})
        /\ delivered'[Len(delivered')] = e
    BY <1>2, <2>1, OneMore DEF Heard
  <2>3. CASE wslay_is_ctrl_frame(e.opcode)
    <3>1. pc' # "echo"
      BY <2>2, <2>3, ReturnsTo
    <3>2. DataOf(delivered') = DataOf(delivered)
      BY <1>2, <2>1, <2>3, DataOfMore DEF Heard
    <3>3. Told(N, E \cup {e})'
      BY <1>1, <1>2, <2>2, <3>1, <3>2 DEF Told
    <3> QED  BY <3>3
  <2>4. CASE ~wslay_is_ctrl_frame(e.opcode)
    <3>1. Continues
      BY <2>1, <2>4, SameCodes DEF Continues, Ends
    <3>2. pc' = "echo" /\ read_enabled'
      BY <2>2, <2>4, <3>1, ReturnsTo DEF Continues
    <3> DEFINE got == DataOf(delivered)
    <3>3. DataOf(delivered') = Append(got, e)
      BY <1>2, <2>1, <2>4, DataOfMore DEF Heard
    <3>4. got \in Seq(E) /\ DataOf(accepted) \in Seq(M)
      BY <1>2, DataOfMore, DataOfFolds
    <3> HIDE DEF got
    <3>5. /\ Append(got, e) # << >> /\ Append(got, e)[Len(Append(got, e))] = e
      BY <3>4, OneMore
    <3>6. OutOfMemory \/ OneBehind(DataOf(accepted), Append(got, e))
      <4>1. got \in Seq(E \cup {e}) /\ e \in E \cup {e}
        BY <3>4, SeqGrows
      <4> QED  BY <1>2, <3>4, <4>1, BehindByOne DEF got
    <3>7. Told(N, E \cup {e})'
      BY <1>1, <2>2, <2>4, <3>2, <3>3, <3>5, <3>6 DEF Told
    <3> QED  BY <3>7
  <2> QED  BY <2>3, <2>4
<1> QED  BY <1>3, <1>4

(* The process goes on only after an iteration that succeeded.             *)
LEMMA RecvNoFailure ==
    ASSUME NoFailureYet, pc # "done", RecvReturns, Continues \/ Ends, read_enabled,
           write_enabled' = write_enabled, NEW E, delivered \in Seq(E),
           delivered' # delivered => error' = 0
    PROVE  NoFailureYet'
<1>1. /\ ret = 0 /\ error # WSLAY_ERR_CALLBACK_FAILURE /\ write_enabled
      /\ "QUEUED" \notin close_status
  BY DEF NoFailureYet
<1>2. SUFFICES ASSUME ret' = 0
               PROVE  /\ error' # WSLAY_ERR_CALLBACK_FAILURE
                      /\ read_enabled' => write_enabled' /\ "QUEUED" \notin close_status'
  BY ReturnsTo DEF NoFailureYet
<1>3. error' # WSLAY_ERR_CALLBACK_FAILURE
  <2>1. CASE delivered' # delivered
    BY <2>1, SameCodes
  <2>2. CASE delivered' = delivered
    <3>1. \A e : ~Heard(e)
      BY <2>2, OneMore DEF Heard
    <3>2. HeardNothing
      BY <3>1 DEF Continues, Ends
    <3> QED  BY <1>1, <1>2, <3>2, SameCodes DEF HeardNothing
  <2> QED  BY <2>1, <2>2
<1>4. read_enabled' => write_enabled' /\ "QUEUED" \notin close_status'
  BY <1>1 DEF Continues, Ends
<1> QED  BY <1>3, <1>4

(* Receiving keeps to the contract of Endpoint.                            *)
LEMMA RecvView ==
    ASSUME Continues \/ Ends, read_enabled, read_enabled \in BOOLEAN, NEW D, Holds(D),
           Whole(D), omsg' = omsg, write_enabled' = write_enabled
    PROVE  View' \in RecvCall(View)
<1> DEFINE rd == wslay_event_want_read
           wr == S!wslay_event_want_write
           failed == (ret # 0)
<1>1. /\ (rd)' = read_enabled' /\ rd = read_enabled /\ read_enabled = TRUE
      /\ read_enabled' \in BOOLEAN /\ wr \in BOOLEAN /\ wr' \in BOOLEAN
      /\ failed \in BOOLEAN /\ failed' \in BOOLEAN /\ (failed' <=> ret' # 0)
  BY DEF wslay_event_want_read, S!wslay_event_want_write, Continues, Ends
<1>2. wr => wr'
  <2>1. CASE QueuesStay
    BY <2>1 DEF S!wslay_event_want_write, QueuesStay
  <2>2. CASE ~QueuesStay
    <3>1. PICK m : Pushed(m)
      BY <2>2 DEF Continues, Ends, PushedClose
    <3> QED  BY <3>1, PushHolds DEF S!wslay_event_want_write
  <2> QED  BY <2>1, <2>2
<1>3. ~read_enabled' /\ ret' = 0 => wr'
  <2> SUFFICES ASSUME ~read_enabled', ret' = 0 PROVE wr'
    OBVIOUS
  <2>1. Ends
    BY DEF Continues
  <2>2. PushedClose /\ write_enabled
    BY <2>1 DEF Ends
  <2>3. PICK m : Pushed(m)
    BY <2>2 DEF PushedClose
  <2> QED  BY <2>2, <2>3, PushHolds DEF S!wslay_event_want_write
<1>4. ret' # 0 => ~read_enabled'
  BY DEF Continues, Ends
<1>5. View = [ rd |-> rd, wr |-> wr, failed |-> failed ]
  BY Zenon DEF View
<1>6. View' = [ rd |-> rd', wr |-> wr', failed |-> failed' ]
  BY Zenon DEF View
<1> HIDE DEF rd, wr, failed
<1>7. View' \in Endpoint
  BY <1>1, <1>6 DEF Endpoint
<1>8. View.rd = rd /\ View.wr = wr /\ View'.rd = rd' /\ View'.wr = wr' /\ View'.failed = failed'
  BY <1>5, <1>6
<1>9. /\ View.rd /\ (View.wr => View'.wr) /\ (~View'.rd /\ ~View'.failed => View'.wr)
      /\ (View'.failed => ~View'.rd)
  BY <1>1, <1>2, <1>3, <1>4, <1>8
<1> QED  BY <1>7, <1>9 DEF RecvCall

(* The action Recv.                                                        *)
LEMMA RecvStep ==
    ASSUME EchoInv, Recv
    PROVE  EchoInv' /\ ViewStep
<1>1. /\ pc = "recv" /\ R!wslay_event_recv /\ UNCHANGED << frame_ctx, wire, omsg >>
      /\ delivered' # delivered => error' = 0
      /\ RecvReturns
  BY DEF Recv, frameVars, sendVars
<1>2. /\ Continues \/ Ends
      /\ read_enabled /\ write_enabled' = write_enabled /\ config' = config
  BY <1>1, RecvOutcome DEF EchoInv, Shape
<1>3. PICK D : QueuesFrom(D)
  BY DEF EchoInv
<1>4. PICK M, E : Told(M, E)
  BY DEF EchoInv
<1>5. \E D2 : QueuesFrom(D2)'
  BY <1>1, <1>2, <1>3, RecvQueues
<1>6. \E N, F : Told(N, F)'
  BY <1>1, <1>2, <1>4, RecvTold
<1>7. NoFailureYet'
  <2>1. NoFailureYet /\ pc # "done" /\ delivered \in Seq(E)
    BY <1>1, <1>4 DEF EchoInv, Told
  <2> QED  BY <1>1, <1>2, <2>1, RecvNoFailure
<1>8. Shape'
  BY <1>1, <1>2 DEF EchoInv, Shape, Continues, Ends
<1>9. View' \in RecvCall(View)
  BY <1>1, <1>2, <1>3, RecvView DEF EchoInv, Shape, QueuesFrom
<1> QED  BY <1>1, <1>5, <1>6, <1>7, <1>8, <1>9 DEF EchoInv, ViewStep

-----------------------------------------------------------------------------
(* Echo *)

(* A message was pushed on the data queue.                                 *)
Added(m) ==
    /\ m.type = "NON_FRAGMENTED" /\ m.fin /\ m.source = << >>
    /\ ~wslay_is_ctrl_frame(m.opcode)
    /\ Enqueue(m)

(* What Added does to the queues: a data message is added to its own.      *)
LEMMA AddedOn ==
    ASSUME NEW m, Added(m)
    PROVE  /\ m.type = "NON_FRAGMENTED" /\ ~wslay_is_ctrl_frame(m.opcode)
           /\ send_queue' = Append(send_queue, m)
           /\ send_ctrl_queue' = send_ctrl_queue
           /\ accepted' = Append(accepted, m)
BY Zenon DEF Added, Enqueue

(* What wslay_event_queue_msg does for a data message when it may queue.   *)
LEMMA QueueData ==
    ASSUME NEW op, NEW msg, NEW r, wslay_event_queue_msg(op, msg, r),
           ~wslay_is_ctrl_frame(op), write_enabled, "QUEUED" \notin close_status
    PROVE  \/ OutOfMemory /\ UNCHANGED queueVars
           \/ \E m : /\ m = omsg_non_fragmented_new(op, msg)
                     /\ Added(m) /\ m.opcode = op /\ m.data = msg
<1>1. wslay_event_is_msg_queueable
  BY DEF wslay_event_is_msg_queueable
<1>2. CASE MsgRefusal(op, msg, r) /\ UNCHANGED queueVars
  <2>1. OutOfMemory
    BY <1>1, <1>2 DEF MsgRefusal
  <2> QED  BY <1>2, <2>1
<1>3. CASE Enqueue(omsg_non_fragmented_new(op, msg))
  <2>1. PICK m : m = omsg_non_fragmented_new(op, msg)
    OBVIOUS
  <2>2. /\ m.type = "NON_FRAGMENTED" /\ m.opcode = op /\ m.data = msg /\ m.fin
        /\ m.source = << >>
    BY <2>1 DEF omsg_non_fragmented_new
  <2>3. Enqueue(m)
    BY <1>3, <2>1, Zenon
  <2>4. Added(m)
    BY <2>2, <2>3, Zenon DEF Added
  <2> QED  BY <2>1, <2>2, <2>4
<1> QED  BY <1>2, <1>3, Zenon DEF wslay_event_queue_msg

(* The echo joins the data queue.                                          *)
LEMMA EchoQueues ==
    ASSUME NEW D, QueuesFrom(D), NEW m, m.type = "NON_FRAGMENTED",
           ~wslay_is_ctrl_frame(m.opcode), pc # "done", read_enabled' = read_enabled,
           send_queue' = Append(send_queue, m), send_ctrl_queue' = send_ctrl_queue,
           omsg' = omsg
    PROVE  QueuesFrom(D \cup {m})' /\ send_queue' # << >>
<1>1. /\ send_queue' \in Seq(D \cup {m}) /\ send_queue' # << >>
      /\ send_ctrl_queue' \in Seq(D \cup {m}) /\ omsg' \in (D \cup {m}) \cup {S!NoMsg}
  BY OneMore, SeqGrows DEF QueuesFrom, Holds
<1>2. Whole(D \cup {m})
  BY DEF Whole, QueuesFrom
<1>3. m.opcode # CLOSE
  BY SameCodes
<1>4. read_enabled' => \A k \in D \cup {m} : k.opcode # CLOSE
  BY <1>3 DEF QueuesFrom
<1> QED  BY <1>1, <1>2, <1>4 DEF QueuesFrom, Holds, Whole

(* It answers the message delivered last.                                  *)
LEMMA EchoTold ==
    ASSUME NEW M, NEW E, Told(M, E), pc = "echo", pc' = "recv", delivered' = delivered, NEW m,
           Answer(m, delivered[Len(delivered)]), ~wslay_is_ctrl_frame(m.opcode),
           accepted' = Append(accepted, m)
    PROVE  Told(M \cup {m}, E)'
<1> DEFINE got == DataOf(delivered)
           queued == DataOf(accepted)
<1>1. accepted \in Seq(M) /\ delivered \in Seq(E)
  BY DEF Told
<1>2. /\ accepted' \in Seq(M \cup {m}) /\ DataOf(accepted') = Append(queued, m)
      /\ got \in Seq(E) /\ queued \in Seq(M)
  BY <1>1, OneMore, DataOfMore
<1>3. Answer(m, got[Len(got)]) /\ (OutOfMemory \/ OneBehind(queued, got))
  BY DEF Told
<1> HIDE DEF got, queued
<1>4. OutOfMemory \/ Answers(Append(queued, m), got)
  <2>1. queued \in Seq(M \cup {m}) /\ m \in M \cup {m}
    BY <1>2, SeqGrows
  <2> QED  BY <1>2, <1>3, <2>1, CatchUp
<1>5. DataOf(delivered') = got /\ DataOf(accepted') = Append(queued, m) /\ pc' # "echo"
  BY <1>2 DEF got
<1> QED  BY <1>1, <1>2, <1>4, <1>5 DEF Told

(* The action Echo: while reading goes on, only memory can be short.       *)
LEMMA EchoStep ==
    ASSUME EchoInv, Echo
    PROVE  EchoInv' /\ ViewStep
<1> DEFINE e == delivered[Len(delivered)]
<1>1. PICK D : QueuesFrom(D)
  BY DEF EchoInv
<1>2. PICK M, E : Told(M, E)
  BY DEF EchoInv
<1>3. /\ pc = "echo" /\ pc' = "recv"
      /\ UNCHANGED << write_enabled, close_status, error, ret, frame_ctx, wire, omsg,
                      config, read_enabled, rx, delivered >>
  BY DEF Echo, Goto, frameVars, sendVars, recvVars
<1>4. PICK r \in QueueReturns : wslay_event_queue_msg(e.opcode, e.msg, r)
  BY DEF Echo, on_msg_recv_callback
<1>5. read_enabled /\ ~wslay_is_ctrl_frame(e.opcode)
  BY <1>2, <1>3 DEF Told
<1>6. ret = 0 /\ write_enabled /\ "QUEUED" \notin close_status
  BY <1>3, <1>5 DEF EchoInv, NoFailureYet
<1> HIDE DEF e
<1>7. NoFailureYet' /\ Shape'
  BY <1>3 DEF EchoInv, NoFailureYet, Shape
<1> DEFINE wr == S!wslay_event_want_write
<1>8. /\ \E D2 : QueuesFrom(D2)'
      /\ \E N, F : Told(N, F)'
      /\ wr => wr'
  <2>1. CASE OutOfMemory /\ UNCHANGED queueVars
    <3>1. QueuesFrom(D)'
      BY <1>1, <1>3, <2>1 DEF queueVars, QueuesFrom, Holds, Whole
    <3>2. Told(M, E)'
      BY <1>2, <1>3, <2>1 DEF queueVars, Told
    <3>3. wr => wr'
      BY <1>3, <2>1 DEF queueVars, S!wslay_event_want_write
    <3> QED  BY <3>1, <3>2, <3>3
  <2>2. CASE \E m : Added(m) /\ m.opcode = e.opcode /\ m.data = e.msg
    <3>1. PICK m : Added(m) /\ m.opcode = e.opcode /\ m.data = e.msg
      BY <2>2
    <3>2. QueuesFrom(D \cup {m})' /\ send_queue' # << >>
      BY <1>1, <1>3, <3>1, AddedOn, EchoQueues
    <3>3. Answer(m, delivered[Len(delivered)])
      BY <3>1 DEF Answer, e
    <3>4. Told(M \cup {m}, E)'
      BY <1>2, <1>3, <3>1, <3>3, AddedOn, EchoTold
    <3>5. wr'
      BY <1>3, <1>6, <3>2 DEF S!wslay_event_want_write
    <3> QED  BY <3>2, <3>4, <3>5
  <2> QED  BY <1>4, <1>5, <1>6, <2>1, <2>2, QueueData
<1>9. View' \in RecvCall(View)
  <2> DEFINE rd == wslay_event_want_read
             failed == (ret # 0)
  <2>1. rd = TRUE /\ (rd)' = TRUE /\ wr \in BOOLEAN /\ wr' \in BOOLEAN
        /\ failed' = FALSE
    BY <1>3, <1>5, <1>6 DEF wslay_event_want_read, S!wslay_event_want_write, EchoInv, Shape
  <2>2. View = [ rd |-> rd, wr |-> wr, failed |-> failed ]
    BY Zenon DEF View
  <2>3. View' = [ rd |-> rd', wr |-> wr', failed |-> failed' ]
    BY Zenon DEF View
  <2> HIDE DEF rd, wr, failed
  <2>4. View' \in Endpoint
    BY <2>1, <2>3 DEF Endpoint
  <2>5. View.rd = rd /\ View.wr = wr /\ View'.rd = rd' /\ View'.wr = wr' /\ View'.failed = failed'
    BY <2>2, <2>3
  <2> QED  BY <1>8, <2>1, <2>4, <2>5 DEF RecvCall
<1> QED  BY <1>3, <1>7, <1>8, <1>9 DEF EchoInv, ViewStep

-----------------------------------------------------------------------------
(* Send *)

(* The process goes on only after an iteration that succeeded, and none    *)
(* that succeeds ends writing while reading goes on.                       *)
LEMMA SendNoFailure ==
    ASSUME NEW D, QueuesFrom(D), Sends(D), NoFailureYet, pc # "done",
           read_enabled' = read_enabled, ret' # 0 => pc' = "done"
    PROVE  NoFailureYet'
<1>1. /\ error # WSLAY_ERR_CALLBACK_FAILURE
      /\ read_enabled => write_enabled /\ "QUEUED" \notin close_status
  BY DEF NoFailureYet
<1>2. SUFFICES ASSUME ret' = 0
               PROVE  /\ error' # WSLAY_ERR_CALLBACK_FAILURE
                      /\ read_enabled' => write_enabled' /\ "QUEUED" \notin close_status'
  BY DEF NoFailureYet
<1>3. error' \in {error, 0, S!WSLAY_ERR_WOULDBLOCK}
  BY <1>2 DEF Sends
<1>4. error' # WSLAY_ERR_CALLBACK_FAILURE
  BY <1>1, <1>3, SendCodes, SameCodes
<1>5. read_enabled => \A m \in D : m.opcode # CLOSE
  BY DEF QueuesFrom
<1> QED  BY <1>1, <1>2, <1>4, <1>5 DEF Sends, KeepsBit

(* Sending keeps to the contract of Endpoint.                              *)
LEMMA SendView ==
    ASSUME NEW D, Sends(D), S!wslay_event_want_write, read_enabled' = read_enabled,
           read_enabled \in BOOLEAN
    PROVE  View' \in SendCall(View)
<1> DEFINE rd == wslay_event_want_read
           wr == S!wslay_event_want_write
           failed == (ret # 0)
<1>1. /\ rd \in BOOLEAN /\ rd' = rd /\ wr = TRUE /\ wr' \in BOOLEAN
      /\ failed \in BOOLEAN /\ failed' \in BOOLEAN
  BY DEF wslay_event_want_read, S!wslay_event_want_write
<1>2. failed' => ~wr'
  BY DEF S!wslay_event_want_write, Sends
<1>3. View = [ rd |-> rd, wr |-> wr, failed |-> failed ]
  BY Zenon DEF View
<1>4. View' = [ rd |-> rd', wr |-> wr', failed |-> failed' ]
  BY Zenon DEF View
<1> HIDE DEF rd, wr, failed
<1>5. View' \in Endpoint
  BY <1>1, <1>4 DEF Endpoint
<1>6. View.rd = rd /\ View.wr = wr /\ View'.rd = rd' /\ View'.wr = wr' /\ View'.failed = failed'
  BY <1>3, <1>4
<1> QED  BY <1>1, <1>2, <1>5, <1>6 DEF SendCall

(* The action Send.                                                        *)
LEMMA SendStep ==
    ASSUME EchoInv, Send
    PROVE  EchoInv' /\ ViewStep
<1>1. PICK D : QueuesFrom(D)
  BY DEF EchoInv
<1>2. PICK M, E : Told(M, E)
  BY DEF EchoInv
<1>3. /\ pc = "send" /\ S!wslay_event_send
      /\ UNCHANGED << config, read_enabled, rx, delivered >>
  BY DEF Send, recvVars
<1>4. pc' # "echo" /\ (ret' # 0 => pc' = "done")
  BY DEF Send, Leave, Goto
<1>5. Sends(D)
  BY <1>1, <1>3, SendOutcome DEF EchoInv, Shape, QueuesFrom
<1>6. S!wslay_event_want_write
  BY <1>3 DEF S!wslay_event_send
<1>7. QueuesFrom(D)'
  BY <1>1, <1>3, <1>5 DEF QueuesFrom, Holds, Whole, Sends
<1>8. Told(M, E)'
  BY <1>2, <1>3, <1>4, <1>5 DEF Told, Sends
<1>9. NoFailureYet'
  BY <1>1, <1>3, <1>4, <1>5, SendNoFailure DEF EchoInv
<1>10. Shape'
  BY <1>3, <1>5 DEF EchoInv, Shape, Sends
<1>11. View' \in SendCall(View)
  BY <1>3, <1>5, <1>6, SendView DEF EchoInv, Shape
<1> QED  BY <1>3, <1>7, <1>8, <1>9, <1>10, <1>11 DEF EchoInv, ViewStep

-----------------------------------------------------------------------------
(* The loop *)

(* The other actions do not touch the context.                             *)
LEMMA QuietLoop ==
    ASSUME LoopEnds \/ Poll \/ PollFails \/ Check \/ UNCHANGED echoVars
    PROVE  Quiet
<1>1. CASE LoopEnds \/ PollFails \/ Check
  BY <1>1 DEF LoopEnds, PollFails, Check, Leave, Quiet
<1>2. CASE Poll
  <2>1. AfterRecv(revents') \in {"send", "check"}
    BY DEF AfterRecv
  <2> QED  BY <1>2, <2>1 DEF Poll, Quiet
<1>3. CASE UNCHANGED echoVars
  BY <1>3 DEF echoVars, loopVars, Quiet
<1> QED  BY <1>1, <1>2, <1>3

(* Every step.                                                             *)
LEMMA EchoNextHolds ==
    ASSUME EchoInv, [EchoNext]_echoVars
    PROVE  EchoInv' /\ ViewStep
<1>1. CASE Recv
  BY <1>1, RecvStep
<1>2. CASE Echo
  BY <1>2, EchoStep
<1>3. CASE Send
  BY <1>3, SendStep
<1>4. CASE LoopEnds \/ Poll \/ PollFails \/ Check \/ UNCHANGED echoVars
  BY <1>4, QuietLoop, QuietStep DEF ViewStep
<1> QED  BY <1>1, <1>2, <1>3, <1>4 DEF EchoNext, Proceed

(* Queues, histories and flags fit together in every behaviour of          *)
(* communicate (fork-echoserv.c 374-446).                                  *)
THEOREM EchoInvHolds == EchoSpec => []EchoInv
<1>1. EchoInv /\ [EchoNext]_echoVars => EchoInv'
  BY EchoNextHolds
<1> QED  BY <1>1, EchoInitHolds, PTL DEF EchoSpec

(* KeepsContract: Endpoint is what the event loops may rely on, for any    *)
(* client, any frames and any payloads.                                    *)
THEOREM ContractKept == EchoSpec => KeepsContract
<1>1. EchoInv /\ [EchoNext]_echoVars
        => [ View' \in {View} \cup (CASE pc \in {"recv", "echo"} -> RecvCall(View)
                                      [] pc = "send"             -> SendCall(View)
                                      [] OTHER                   -> {}) ]_echoVars
  BY EchoNextHolds DEF ViewStep
<1> QED  BY <1>1, EchoInvHolds, PTL DEF EchoSpec, KeepsContract

(* ErrorFresh: the loop leaves with the first failure of a callback.       *)
THEOREM ErrorStaysFresh == EchoSpec => []ErrorFresh
<1>1. EchoInv => ErrorFresh
  BY DEF EchoInv, NoFailureYet, ErrorFresh
<1> QED  BY <1>1, EchoInvHolds, PTL

(* EchoAccepted: every data message delivered is accepted, provided that   *)
(* memory does not run out: a data message is delivered only while reading *)
(* is enabled, and whatever queues a Close or ends writing ends reading or *)
(* the process (fork-echoserv.c 370).                                      *)
THEOREM DeliveredIsAccepted ==
    ASSUME ~OutOfMemory
    PROVE  EchoSpec => []EchoAccepted
<1>1. EchoInv => EchoAccepted
  <2> SUFFICES ASSUME EchoInv, pc # "echo"
               PROVE  LET got    == DataOf(delivered)
                          queued == DataOf(accepted)
                      IN  /\ Len(queued) = Len(got)
                          /\ \A i \in 1..Len(got) : queued[i].opcode = got[i].opcode
                                                    /\ queued[i].data = got[i].msg
    BY DEF EchoAccepted
  <2>1. PICK M, E : Told(M, E)
    BY DEF EchoInv
  <2>2. Answers(DataOf(accepted), DataOf(delivered))
    BY <2>1 DEF Told
  <2> QED  BY <2>2 DEF Answers, Answer
<1> QED  BY <1>1, EchoInvHolds, PTL

-----------------------------------------------------------------------------
(* The halves of the context are those of EventSend and EventRecv *)

(* EventSend as this process uses it: what the application may queue there *)
(* does not matter, because here the queue operations are those of Recv    *)
(* and Echo.                                                               *)
SP == INSTANCE EventSendProofs WITH
    Server <- TRUE, LazyEof <- FALSE, AppOpcodes <- {}, AppStatus <- {},
    MaxMsgs <- 0, MaxLen <- 0

(* EventRecv as this process uses it.                                      *)
RP == INSTANCE EventRecvProofs WITH
    Server <- TRUE, AppStatus <- {},
    Configs <- { [ no_buffering |-> FALSE, on_msg_recv |-> TRUE ] }

(* The constants are as EventSend wants them.                              *)
LEMMA SendAssumptions ==
    /\ SP!CtrlMaxAssumption /\ SP!OutOfMemoryAssumption
    /\ SP!ExtLimitsAssumption /\ SP!EventSendAssumption
BY CtrlMaxAssumption, OutOfMemoryAssumption, ExtLimitsAssumption, EchoServerAssumption
   DEF SP!EventSendAssumption, SP!Opcodes, SP!WSLAY_CONTINUATION_FRAME,
   SP!WSLAY_TEXT_FRAME, SP!WSLAY_BINARY_FRAME, SP!WSLAY_PONG, WSLAY_TEXT_FRAME,
   WSLAY_BINARY_FRAME, WSLAY_PONG

(* ... and as EventRecv wants them.                                        *)
LEMMA RecvAssumptions ==
    /\ RP!CtrlMaxAssumption /\ RP!OutOfMemoryAssumption
    /\ RP!FramesAssumption /\ RP!EventRecvAssumption
<1>1. RP!CtrlMaxAssumption /\ RP!OutOfMemoryAssumption
  BY CtrlMaxAssumption, OutOfMemoryAssumption
<1>2. RP!FramesAssumption
  BY FramesAssumption DEF RP!Frame, Frame, RP!Byte, Byte, RP!wslay_is_ctrl_frame,
     wslay_is_ctrl_frame
<1>3. RP!EventRecvAssumption
  BY EchoServerAssumption DEF RP!EventRecvAssumption, RP!Config
<1> QED  BY <1>1, <1>2, <1>3

(* EchoServer sees EventRecv through RecvView, the proofs through          *)
(* EventRecvProofs: their definitions are the same, one by one.            *)
LEMMA SameFrameRecv ==
    \A src : R!wslay_frame_recv(src) = RP!wslay_frame_recv(src)
BY Zenon DEF RP!wslay_frame_recv, R!wslay_frame_recv, RP!NoChunk, R!NoChunk, RP!Chunks,
   R!Chunks, RP!NoIocb, R!NoIocb, RP!WSLAY_ERR_WANT_READ, R!WSLAY_ERR_WANT_READ,
   RP!WSLAY_ERR_PROTO, R!WSLAY_ERR_PROTO, RP!SourceIocb, R!SourceIocb

(* The stages of an iteration.                                             *)
LEMMA SameOpen ==
    \A x, iocb : R!Open(x, iocb) = RP!Open(x, iocb)
BY Zenon DEF RP!Open, R!Open, RP!Msg, R!Msg, RP!NoOpcode, R!NoOpcode, RP!imsg_set,
   R!imsg_set, RP!AtFrameStart, R!AtFrameStart, RP!WSLAY_CONTINUATION_FRAME,
   R!WSLAY_CONTINUATION_FRAME

(* Room for a payload.                                                     *)
LEMMA SameStartFrame ==
    \A x, iocb : R!StartFrame(x, iocb) = RP!StartFrame(x, iocb)
BY Zenon DEF RP!StartFrame, R!StartFrame, RP!IsBuffered, R!IsBuffered, RP!AppendChunk,
   R!AppendChunk, RP!wslay_is_ctrl_frame, R!wslay_is_ctrl_frame, RP!Uninit, R!Uninit

(* A chunk is copied.                                                      *)
LEMMA SameStoreData ==
    \A x, iocb : R!StoreData(x, iocb) = RP!StoreData(x, iocb)
BY Zenon DEF RP!StoreData, R!StoreData, RP!Msg, R!Msg, RP!IsBuffered, R!IsBuffered,
   RP!CopyInto, R!CopyInto, RP!wslay_is_ctrl_frame, R!wslay_is_ctrl_frame

(* The queue of chunks is emptied.                                         *)
LEMMA SameEmptied ==
    \A x, iocb : R!Emptied(x, iocb) = RP!Emptied(x, iocb)
BY Zenon DEF RP!Emptied, R!Emptied, RP!IsBuffered, R!IsBuffered, RP!wslay_is_ctrl_frame,
   R!wslay_is_ctrl_frame

(* The end of a message.                                                   *)
LEMMA SameMessageDone ==
    \A x : R!MessageDone(x) = RP!MessageDone(x)
BY Zenon DEF RP!MessageDone, R!MessageDone, RP!FrameDone, R!FrameDone, RP!imsg_reset,
   R!imsg_reset, RP!NoOpcode, R!NoOpcode, RP!UTF8_ACCEPT, R!UTF8_ACCEPT

(* The end of a frame.                                                     *)
LEMMA SameFrameDone ==
    \A x : R!FrameDone(x) = RP!FrameDone(x)
BY Zenon DEF RP!FrameDone, R!FrameDone

(* The chunks together.                                                    *)
LEMMA SameFlatten ==
    \A chunks : R!Flatten(chunks) = RP!Flatten(chunks)
BY Zenon DEF RP!Flatten, R!Flatten

(* The automaton.                                                          *)
LEMMA SameDecodeAll ==
    \A s, bytes : R!DecodeAll(s, bytes) = RP!DecodeAll(s, bytes)
BY Zenon DEF RP!DecodeAll, R!DecodeAll, RP!UTF8_REJECT, R!UTF8_REJECT, RP!decode,
   R!decode, RP!Transitions, R!Transitions, RP!CharClass, R!CharClass

(* Its run over a chunk.                                                   *)
LEMMA SameCheckUtf8 ==
    \A x, iocb : R!CheckUtf8(x, iocb) = RP!CheckUtf8(x, iocb)
BY SameDecodeAll, Zenon DEF RP!CheckUtf8, R!CheckUtf8, RP!Msg, R!Msg,
   RP!WSLAY_CONNECTION_CLOSE, R!WSLAY_CONNECTION_CLOSE, RP!WSLAY_TEXT_FRAME,
   R!WSLAY_TEXT_FRAME, RP!IsUtf8Checked, R!IsUtf8Checked

(* A message is not queued.                                                *)
LEMMA SameRefusal ==
    \A op, msg, r : R!MsgRefusal(op, msg, r) => RP!MsgRefusal(op, msg, r)
BY Zenon DEF RP!MsgRefusal, R!MsgRefusal, RP!wslay_event_is_msg_queueable,
   R!wslay_event_is_msg_queueable, RP!WSLAY_ERR_NO_MORE_MSG, R!WSLAY_ERR_NO_MORE_MSG,
   RP!wslay_is_ctrl_frame, R!wslay_is_ctrl_frame, RP!WSLAY_ERR_INVALID_ARGUMENT,
   R!WSLAY_ERR_INVALID_ARGUMENT

(* A message is queued.                                                    *)
LEMMA SameEnqueue ==
    \A op, msg : R!Enqueue(R!omsg_non_fragmented_new(op, msg))
                   => RP!Enqueue(RP!omsg_non_fragmented_new(op, msg))
BY Zenon DEF RP!Enqueue, R!Enqueue, RP!wslay_is_ctrl_frame, R!wslay_is_ctrl_frame,
   RP!omsg_non_fragmented_new, R!omsg_non_fragmented_new

(* wslay_event_queue_msg.                                                  *)
LEMMA SameQueueMsg ==
    \A op, msg, r : R!wslay_event_queue_msg(op, msg, r)
                      => RP!wslay_event_queue_msg(op, msg, r)
BY SameRefusal, SameEnqueue, Zenon DEF RP!wslay_event_queue_msg,
   R!wslay_event_queue_msg, RP!queueVars, R!queueVars, RP!wslay_event_is_msg_queueable,
   R!wslay_event_is_msg_queueable, RP!wslay_is_ctrl_frame, R!wslay_is_ctrl_frame

(* wslay_event_queue_close.                                                *)
LEMMA SameQueueClose ==
    \A cs, status, reason, r :
        R!wslay_event_queue_close(cs, status, reason, r)
          => RP!wslay_event_queue_close(cs, status, reason, r)
BY SameQueueMsg, SMT DEF RP!wslay_event_queue_close, R!wslay_event_queue_close,
   RP!queueVars, R!queueVars, RP!wslay_event_is_msg_queueable,
   R!wslay_event_is_msg_queueable, RP!WSLAY_CONNECTION_CLOSE, R!WSLAY_CONNECTION_CLOSE,
   RP!CloseBody, R!CloseBody, RP!htons, R!htons

(* wslay_event_queue_close_wrapper.                                        *)
LEMMA SameCloseWrapper ==
    \A cs, status, reason, r :
        R!wslay_event_queue_close_wrapper(cs, status, reason, r)
          => RP!wslay_event_queue_close_wrapper(cs, status, reason, r)
BY SameQueueClose, SMT DEF RP!wslay_event_queue_close_wrapper,
   R!wslay_event_queue_close_wrapper, RP!QueueReturns, R!QueueReturns,
   RP!WSLAY_ERR_NO_MORE_MSG, R!WSLAY_ERR_NO_MORE_MSG, RP!WSLAY_ERR_INVALID_ARGUMENT,
   R!WSLAY_ERR_INVALID_ARGUMENT

(* The loop goes on.                                                       *)
LEMMA SameGoOn ==
    \A x : R!GoOn(x) => RP!GoOn(x)
BY Zenon DEF RP!GoOn, R!GoOn, RP!queueVars, R!queueVars

(* It ends with an error.                                                  *)
LEMMA SameStop ==
    \A x, r : R!Stop(x, r) => RP!Stop(x, r)
BY Zenon DEF RP!Stop, R!Stop, RP!queueVars, R!queueVars

(* The connection fails.                                                   *)
LEMMA SameFailConnection ==
    \A status, x : R!FailConnection(status, x) => RP!FailConnection(status, x)
BY SameCloseWrapper, SMT DEF RP!FailConnection, R!FailConnection, RP!QueueReturns,
   R!QueueReturns, RP!WSLAY_ERR_NO_MORE_MSG, R!WSLAY_ERR_NO_MORE_MSG,
   RP!WSLAY_ERR_INVALID_ARGUMENT, R!WSLAY_ERR_INVALID_ARGUMENT

(* The callback is called.                                                 *)
LEMMA SameDeliver ==
    \A x, msg, status : R!Deliver(x, msg, status) => RP!Deliver(x, msg, status)
BY Zenon DEF RP!Deliver, R!Deliver, RP!Msg, R!Msg, RP!CallbackErrors, R!CallbackErrors,
   RP!MessageDone, R!MessageDone, RP!WSLAY_ERR_WOULDBLOCK, R!WSLAY_ERR_WOULDBLOCK,
   RP!WSLAY_ERR_CALLBACK_FAILURE, R!WSLAY_ERR_CALLBACK_FAILURE, RP!FrameDone, R!FrameDone,
   RP!imsg_reset, R!imsg_reset, RP!NoOpcode, R!NoOpcode, RP!UTF8_ACCEPT, R!UTF8_ACCEPT

(* A data message or a Pong.                                               *)
LEMMA SameReceiveData ==
    \A x, msg : R!ReceiveData(x, msg) => RP!ReceiveData(x, msg)
BY SameDeliver, Zenon DEF RP!ReceiveData, R!ReceiveData, RP!queueVars, R!queueVars

(* A Ping.                                                                 *)
LEMMA SameReceivePing ==
    \A x, msg : R!ReceivePing(x, msg) => RP!ReceivePing(x, msg)
BY SameDeliver, SameQueueMsg, SMT DEF RP!ReceivePing, R!ReceivePing, RP!WSLAY_PONG,
   R!WSLAY_PONG, RP!QueueReturns, R!QueueReturns, RP!WSLAY_ERR_NO_MORE_MSG,
   R!WSLAY_ERR_NO_MORE_MSG, RP!WSLAY_ERR_INVALID_ARGUMENT, R!WSLAY_ERR_INVALID_ARGUMENT

(* A Close.                                                                *)
LEMMA SameReceiveClose ==
    ASSUME NEW x, NEW msg, R!ReceiveClose(x, msg)
    PROVE  RP!ReceiveClose(x, msg)
<1> DEFINE status == IF Len(msg) >= 2 THEN R!ntohs(msg) ELSE 0
           reason == SubSeq(msg, 3, Len(msg))
           bad == Len(msg) >= 2 /\ ~R!wslay_event_is_valid_status_code(status)
           received == close_status \cup {"RECEIVED"}
<1>1. /\ RP!ntohs(msg) = R!ntohs(msg)
      /\ RP!wslay_event_is_valid_status_code(status)
            <=> R!wslay_event_is_valid_status_code(status)
      /\ RP!WSLAY_CODE_PROTOCOL_ERROR = R!WSLAY_CODE_PROTOCOL_ERROR
      /\ RP!WSLAY_CODE_NO_STATUS_RCVD = R!WSLAY_CODE_NO_STATUS_RCVD
      /\ RP!QueueReturns = R!QueueReturns
  BY Zenon DEF RP!ntohs, R!ntohs, RP!wslay_event_is_valid_status_code,
     R!wslay_event_is_valid_status_code, RP!WSLAY_CODE_PROTOCOL_ERROR,
     R!WSLAY_CODE_PROTOCOL_ERROR, RP!WSLAY_CODE_NO_STATUS_RCVD,
     R!WSLAY_CODE_NO_STATUS_RCVD, RP!QueueReturns, R!QueueReturns,
     RP!WSLAY_ERR_NO_MORE_MSG, R!WSLAY_ERR_NO_MORE_MSG, RP!WSLAY_ERR_INVALID_ARGUMENT,
     R!WSLAY_ERR_INVALID_ARGUMENT
<1>2. CASE bad
  <2>1. R!FailConnection(R!WSLAY_CODE_PROTOCOL_ERROR, x)
    BY <1>2, Zenon DEF R!ReceiveClose
  <2>2. RP!FailConnection(RP!WSLAY_CODE_PROTOCOL_ERROR, x)
    BY <1>1, <2>1, SameFailConnection, Zenon
  <2> QED  BY <1>1, <1>2, <2>2, Zenon DEF RP!ReceiveClose
<1>3. CASE ~bad
  <2>1. PICK r \in R!QueueReturns :
          /\ R!wslay_event_queue_close_wrapper(received, status, reason, r)
          /\ status_code_recv' = IF status = 0 THEN R!WSLAY_CODE_NO_STATUS_RCVD ELSE status
          /\ IF r = 0 THEN R!Deliver(x, msg, status)
             ELSE ret' = r /\ rx' = x /\ UNCHANGED << delivered, error >>
    BY <1>3, Zenon DEF R!ReceiveClose
  <2>2. RP!wslay_event_queue_close_wrapper(received, status, reason, r)
    BY <2>1, SameCloseWrapper, Zenon
  <2>3. IF r = 0 THEN RP!Deliver(x, msg, status)
        ELSE ret' = r /\ rx' = x /\ UNCHANGED << delivered, error >>
    BY <2>1, SameDeliver, Zenon
  <2> QED  BY <1>1, <1>3, <2>1, <2>2, <2>3, Zenon DEF RP!ReceiveClose
<1> QED  BY <1>2, <1>3

(* A message.                                                              *)
LEMMA SameReceiveMessage ==
    \A x, iocb : R!ReceiveMessage(x, iocb) => RP!ReceiveMessage(x, iocb)
BY SameFlatten, SameEmptied, SameMessageDone, SameGoOn, SameStop, SameReceiveData,
   SameReceivePing, SameReceiveClose, SMT DEF RP!ReceiveMessage, R!ReceiveMessage, RP!Msg,
   R!Msg, RP!IsBuffered, R!IsBuffered, RP!wslay_is_ctrl_frame, R!wslay_is_ctrl_frame,
   RP!WSLAY_CONNECTION_CLOSE, R!WSLAY_CONNECTION_CLOSE, RP!WSLAY_PING, R!WSLAY_PING,
   RP!WSLAY_ERR_NOMEM, R!WSLAY_ERR_NOMEM

(* The last chunk of a frame.                                              *)
LEMMA SameEndFrame ==
    \A x, iocb : R!EndFrame(x, iocb) => RP!EndFrame(x, iocb)
BY SameFailConnection, SameReceiveMessage, SameGoOn, SameFrameDone, SMT DEF RP!EndFrame,
   R!EndFrame, RP!Msg, R!Msg, RP!IsUtf8Checked, R!IsUtf8Checked, RP!UTF8_ACCEPT,
   R!UTF8_ACCEPT, RP!WSLAY_TEXT_FRAME, R!WSLAY_TEXT_FRAME, RP!WSLAY_CONNECTION_CLOSE,
   R!WSLAY_CONNECTION_CLOSE, RP!WSLAY_CODE_INVALID_FRAME_PAYLOAD_DATA,
   R!WSLAY_CODE_INVALID_FRAME_PAYLOAD_DATA

(* A chunk.                                                                *)
LEMMA SameReceiveChunk ==
    \A x, iocb : R!ReceiveChunk(x, iocb) => RP!ReceiveChunk(x, iocb)
BY SameCheckUtf8, SameStoreData, SameFailConnection, SameEndFrame, SameGoOn, SMT DEF
   RP!ReceiveChunk, R!ReceiveChunk, RP!Msg, R!Msg, RP!UTF8_REJECT, R!UTF8_REJECT,
   RP!WSLAY_CODE_INVALID_FRAME_PAYLOAD_DATA, R!WSLAY_CODE_INVALID_FRAME_PAYLOAD_DATA

(* The tests on a header.                                                  *)
LEMMA SamePlace ==
    \A x, iocb :
        /\ R!IsMalformed(iocb) <=> RP!IsMalformed(iocb)
        /\ R!IsOutOfPlace(x, iocb) <=> RP!IsOutOfPlace(x, iocb)
        /\ R!IsNewFrame(x) <=> RP!IsNewFrame(x)
        /\ R!IsTooBig(x, iocb) <=> RP!IsTooBig(x, iocb)
        /\ R!IsBuffered(iocb) <=> RP!IsBuffered(iocb)
BY Zenon DEF RP!IsMalformed, R!IsMalformed, RP!IsOutOfPlace, R!IsOutOfPlace, RP!Msg,
   R!Msg, RP!NoOpcode, R!NoOpcode, RP!WSLAY_TEXT_FRAME, R!WSLAY_TEXT_FRAME,
   RP!WSLAY_BINARY_FRAME, R!WSLAY_BINARY_FRAME, RP!KnownCtrl, R!KnownCtrl, RP!AtFrameStart,
   R!AtFrameStart, RP!WSLAY_CONTINUATION_FRAME, R!WSLAY_CONTINUATION_FRAME,
   RP!WSLAY_CONNECTION_CLOSE, R!WSLAY_CONNECTION_CLOSE, RP!WSLAY_PING, R!WSLAY_PING,
   RP!WSLAY_PONG, R!WSLAY_PONG, RP!IsNewFrame, R!IsNewFrame, RP!IsTooBig, R!IsTooBig,
   RP!IsBuffered, R!IsBuffered, RP!wslay_is_ctrl_frame, R!wslay_is_ctrl_frame

(* A chunk with its header.                                                *)
LEMMA SameReceiveFrame ==
    ASSUME NEW iocb, R!ReceiveFrame(iocb)
    PROVE  RP!ReceiveFrame(iocb)
<1> DEFINE x == R!Open(rx, iocb)
           z == [ x EXCEPT !.ipayloadlen = iocb.payload_length, !.starts = @ + 1 ]
<1>1. x = RP!Open(rx, iocb) /\ R!StartFrame(x, iocb) = RP!StartFrame(x, iocb)
      /\ RP!WSLAY_CODE_PROTOCOL_ERROR = R!WSLAY_CODE_PROTOCOL_ERROR
      /\ RP!WSLAY_CODE_MESSAGE_TOO_BIG = R!WSLAY_CODE_MESSAGE_TOO_BIG
  BY SameOpen, SameStartFrame, Zenon DEF RP!WSLAY_CODE_PROTOCOL_ERROR,
     R!WSLAY_CODE_PROTOCOL_ERROR, RP!WSLAY_CODE_MESSAGE_TOO_BIG,
     R!WSLAY_CODE_MESSAGE_TOO_BIG
<1>2. CASE R!IsMalformed(iocb) \/ R!IsOutOfPlace(rx, iocb)
  <2>1. RP!FailConnection(RP!WSLAY_CODE_PROTOCOL_ERROR, rx)
    BY <1>1, <1>2, SameFailConnection, Zenon DEF R!ReceiveFrame
  <2> QED  BY <1>2, <2>1, SamePlace, Zenon DEF RP!ReceiveFrame
<1>3. CASE ~(R!IsMalformed(iocb) \/ R!IsOutOfPlace(rx, iocb))
  <2>1. IF ~R!IsNewFrame(rx) THEN R!ReceiveChunk(x, iocb)
        ELSE IF R!IsTooBig(x, iocb) THEN R!FailConnection(R!WSLAY_CODE_MESSAGE_TOO_BIG, x)
        ELSE \/ R!ReceiveChunk(R!StartFrame(x, iocb), iocb)
             \/ OutOfMemory /\ R!IsBuffered(iocb) /\ iocb.payload_length > 0
                /\ R!Stop(z, -1)
    BY <1>3, Zenon DEF R!ReceiveFrame
  <2>2. RP!ReceiveFrame(iocb) <=>
          IF ~RP!IsNewFrame(rx) THEN RP!ReceiveChunk(x, iocb)
          ELSE IF RP!IsTooBig(x, iocb)
          THEN RP!FailConnection(RP!WSLAY_CODE_MESSAGE_TOO_BIG, x)
          ELSE \/ RP!ReceiveChunk(RP!StartFrame(x, iocb), iocb)
               \/ OutOfMemory /\ RP!IsBuffered(iocb) /\ iocb.payload_length > 0
                  /\ RP!Stop(z, -1)
    BY <1>1, <1>3, SamePlace, Zenon DEF RP!ReceiveFrame
  <2> HIDE DEF x, z
  <2> QED
    BY <1>1, <2>1, <2>2, SamePlace, SameReceiveChunk, SameFailConnection, SameStop, Zenon
<1> QED  BY <1>2, <1>3

(* No chunk.                                                               *)
LEMMA SameRecvFails ==
    \A result, failed : R!RecvFails(result, failed) => RP!RecvFails(result, failed)
BY SameCloseWrapper, SMT DEF RP!RecvFails, R!RecvFails, RP!queueVars, R!queueVars,
   RP!WSLAY_ERR_WOULDBLOCK, R!WSLAY_ERR_WOULDBLOCK, RP!WSLAY_ERR_CALLBACK_FAILURE,
   R!WSLAY_ERR_CALLBACK_FAILURE, RP!WSLAY_ERR_WANT_READ, R!WSLAY_ERR_WANT_READ,
   RP!QueueReturns, R!QueueReturns, RP!WSLAY_ERR_NO_MORE_MSG, R!WSLAY_ERR_NO_MORE_MSG,
   RP!WSLAY_ERR_INVALID_ARGUMENT, R!WSLAY_ERR_INVALID_ARGUMENT

(* The use of freed memory.                                                *)
LEMMA SameFreed ==
    \A iocb : R!UsesFreedQueue(iocb) <=> RP!UsesFreedQueue(iocb)
BY SamePlace, SameOpen, Zenon DEF RP!UsesFreedQueue, R!UsesFreedQueue, RP!NoOpcode,
   R!NoOpcode

(* An iteration of wslay_event_recv.                                       *)
LEMMA SameRecv ==
    R!wslay_event_recv => RP!wslay_event_recv
BY SameFrameRecv, SameRecvFails, SameReceiveFrame, SameFreed, Zenon DEF
   RP!wslay_event_recv, R!wslay_event_recv

(* SEND_PAYLOAD.                                                           *)
LEMMA SameSendPayload ==
    \A fc, w, data : SP!SendPayload(fc, w, data) = S!SendPayload(fc, w, data)
BY SMT DEF SP!SendPayload, S!SendPayload, SP!Outcome, S!Outcome, SP!PayloadSent,
   S!PayloadSent, SP!Blocked, S!Blocked, SP!WritePayload, S!WritePayload, SP!Overrun,
   S!Overrun, SP!WSLAY_ERR_WANT_WRITE, S!WSLAY_ERR_WANT_WRITE, SP!KeyIndex, S!KeyIndex,
   SP!WSLAY_ERR_INVALID_CALLBACK, S!WSLAY_ERR_INVALID_CALLBACK, SP!NoKey, S!NoKey

(* SEND_HEADER.                                                            *)
LEMMA SameSendHeader ==
    \A fc, w, data : SP!SendHeader(fc, w, data) = S!SendHeader(fc, w, data)
BY SMT DEF SP!SendHeader, S!SendHeader, SP!Blocked, S!Blocked, SP!Overrun, S!Overrun,
   SP!Outcome, S!Outcome, SP!HeaderSent, S!HeaderSent, SP!WriteHeader, S!WriteHeader,
   SP!WSLAY_ERR_WANT_WRITE, S!WSLAY_ERR_WANT_WRITE, SP!SendPayload, S!SendPayload,
   SP!WSLAY_ERR_INVALID_CALLBACK, S!WSLAY_ERR_INVALID_CALLBACK, SP!PayloadSent,
   S!PayloadSent, SP!WritePayload, S!WritePayload, SP!KeyIndex, S!KeyIndex, SP!NoKey,
   S!NoKey

(* PREP_HEADER.                                                            *)
LEMMA SamePrepare ==
    \A fc, iocb : /\ SP!PrepareHeader(fc, iocb) = S!PrepareHeader(fc, iocb)
                  /\ SP!IsRefused(fc, iocb) <=> S!IsRefused(fc, iocb)
BY Zenon DEF SP!PrepareHeader, S!PrepareHeader, SP!HeaderLength, S!HeaderLength,
   SP!IsRefused, S!IsRefused, SP!wslay_is_ctrl_frame, S!wslay_is_ctrl_frame

(* wslay_frame_send.                                                       *)
LEMMA SameFrameSend ==
    ASSUME NEW fc, fc.ostate \in {"PREP_HEADER", "SEND_HEADER", "SEND_PAYLOAD"},
           NEW w, NEW iocb
    PROVE  SP!wslay_frame_send(fc, w, iocb) = S!wslay_frame_send(fc, w, iocb)
<1>1. /\ SP!PrepareHeader(fc, iocb) = S!PrepareHeader(fc, iocb)
      /\ (SP!IsRefused(fc, iocb) <=> S!IsRefused(fc, iocb))
      /\ SP!SendHeader(S!PrepareHeader(fc, iocb), w, iocb.data)
           = S!SendHeader(S!PrepareHeader(fc, iocb), w, iocb.data)
      /\ SP!SendHeader(fc, w, iocb.data) = S!SendHeader(fc, w, iocb.data)
      /\ SP!SendPayload(fc, w, iocb.data) = S!SendPayload(fc, w, iocb.data)
      /\ SP!WSLAY_ERR_INVALID_ARGUMENT = S!WSLAY_ERR_INVALID_ARGUMENT
      /\ SP!WSLAY_ERR_INVALID_CALLBACK = S!WSLAY_ERR_INVALID_CALLBACK
  BY SameSendPayload, SameSendHeader, SamePrepare DEF SP!WSLAY_ERR_INVALID_ARGUMENT,
     S!WSLAY_ERR_INVALID_ARGUMENT, SP!WSLAY_ERR_INVALID_CALLBACK,
     S!WSLAY_ERR_INVALID_CALLBACK
<1>2. CASE SP!IsRefused(fc, iocb)
  BY <1>1, <1>2, Zenon DEF SP!wslay_frame_send, S!wslay_frame_send, SP!Outcome, S!Outcome
<1>3. CASE ~SP!IsRefused(fc, iocb)
  <2>1. CASE fc.ostate = "PREP_HEADER"
    BY <1>1, <1>3, <2>1 DEF SP!wslay_frame_send, S!wslay_frame_send, SP!Outcome, S!Outcome
  <2>2. CASE fc.ostate = "SEND_HEADER"
    BY <1>1, <1>3, <2>2 DEF SP!wslay_frame_send, S!wslay_frame_send, SP!Outcome, S!Outcome
  <2>3. CASE fc.ostate = "SEND_PAYLOAD"
    BY <1>1, <1>3, <2>3 DEF SP!wslay_frame_send, S!wslay_frame_send, SP!Outcome, S!Outcome
  <2> QED  BY <2>1, <2>2, <2>3
<1> QED  BY <1>2, <1>3

(* The first half of an iteration of wslay_event_send.                     *)
LEMMA SameSelected ==
    SP!Selected = S!Selected
BY Zenon DEF SP!Selected, S!Selected, SP!NoMsg, S!NoMsg, SP!Popped, S!Popped,
   SP!IsPreempted, S!IsPreempted, SP!wslay_event_send_ctrl_queue_pop,
   S!wslay_event_send_ctrl_queue_pop, SP!WSLAY_CONTINUATION_FRAME,
   S!WSLAY_CONTINUATION_FRAME, SP!wslay_is_ctrl_frame, S!wslay_is_ctrl_frame,
   SP!WSLAY_CONNECTION_CLOSE, S!WSLAY_CONNECTION_CLOSE

(* What it keeps of a call.                                                *)
LEMMA SameKeep ==
    \A s, o : S!Keep(s, o) => SP!Keep(s, o)
BY Zenon DEF SP!Keep, S!Keep, SP!WSLAY_ERR_WOULDBLOCK, S!WSLAY_ERR_WOULDBLOCK,
   SP!WSLAY_ERR_CALLBACK_FAILURE, S!WSLAY_ERR_CALLBACK_FAILURE

(* The call failed.                                                        *)
LEMMA SameNotSent ==
    \A s, buf, r : S!NotSent(s, buf, r) => SP!NotSent(s, buf, r)
BY Zenon DEF SP!NotSent, S!NotSent, SP!WSLAY_ERR_WANT_WRITE, S!WSLAY_ERR_WANT_WRITE,
   SP!WSLAY_ERR_WOULDBLOCK, S!WSLAY_ERR_WOULDBLOCK, SP!WSLAY_ERR_CALLBACK_FAILURE,
   S!WSLAY_ERR_CALLBACK_FAILURE

(* It sent the rest.                                                       *)
LEMMA SameSentWhole ==
    \A s, buf, off : S!SentWhole(s, buf, off) => SP!SentWhole(s, buf, off)
BY Zenon DEF SP!SentWhole, S!SentWhole, SP!NoMsg, S!NoMsg, SP!WSLAY_CONNECTION_CLOSE,
   S!WSLAY_CONNECTION_CLOSE, SP!ntohs, S!ntohs, SP!WSLAY_CODE_NO_STATUS_RCVD,
   S!WSLAY_CODE_NO_STATUS_RCVD, SP!WSLAY_CONTINUATION_FRAME, S!WSLAY_CONTINUATION_FRAME

(* It sent a part.                                                         *)
LEMMA SameSentPartly ==
    \A s, buf, off : S!SentPartly(s, buf, off) => SP!SentPartly(s, buf, off)
BY Zenon DEF SP!SentPartly, S!SentPartly

(* The call an iteration makes.                                            *)
SameCall == \A w, iocb :
    SP!wslay_frame_send(frame_ctx, w, iocb) = S!wslay_frame_send(frame_ctx, w, iocb)

(* The read callback had nothing.                                          *)
LEMMA SameReading ==
    \A s : S!ReadNothing(s) => SP!ReadNothing(s)
BY Zenon DEF SP!ReadNothing, S!ReadNothing, SP!WSLAY_ERR_CALLBACK_FAILURE,
   S!WSLAY_ERR_CALLBACK_FAILURE, SP!frameVars, S!frameVars

(* What it may return.                                                     *)
LEMMA SameSource ==
    \A source_ : S!ReadCallback(source_) = SP!ReadCallback(source_)
BY Zenon DEF SP!ReadCallback, S!ReadCallback

(* Nothing is selected.                                                    *)
LEMMA SameNone ==
    \A s : S!NothingSelected(s) => SP!NothingSelected(s)
BY Zenon DEF SP!NothingSelected, S!NothingSelected, SP!NoMsg, S!NoMsg, SP!frameVars,
   S!frameVars, SP!WSLAY_CONTINUATION_FRAME, S!WSLAY_CONTINUATION_FRAME

(* An unfragmented message.                                                *)
LEMMA SameNonFragmented ==
    SameCall => \A s : S!SendNonFragmented(s) => SP!SendNonFragmented(s)
BY SameKeep, SameNotSent, SameSentWhole, SameSentPartly, ZenonT(60) DEF SameCall,
   SP!SendNonFragmented, S!SendNonFragmented, SP!Iocb, S!Iocb

(* A fragment.                                                             *)
LEMMA SameFragment ==
    SameCall => \A s, buf : S!SendFragment(s, buf) => SP!SendFragment(s, buf)
BY SameKeep, SameNotSent, SameSentWhole, SameSentPartly, ZenonT(60) DEF SameCall,
   SP!SendFragment, S!SendFragment, SP!Iocb, S!Iocb, SP!WSLAY_CONTINUATION_FRAME,
   S!WSLAY_CONTINUATION_FRAME

(* A fragmented message.                                                   *)
LEMMA SameFragmented ==
    SameCall => \A s : S!SendFragmented(s) => SP!SendFragmented(s)
BY SameReading, SameSource, SameFragment, Zenon DEF SP!SendFragmented, S!SendFragmented

(* An iteration of wslay_event_send.                                       *)
LEMMA SameSend ==
    ASSUME SP!IInv, NeverMasks(frame_ctx), S!wslay_event_send
    PROVE  SP!wslay_event_send
<1> DEFINE s == S!Selected
<1>1. /\ S!wslay_event_want_write
      /\ CASE s.omsg.type = "NULL"           -> S!NothingSelected(s)
           [] s.omsg.type = "NON_FRAGMENTED" -> S!SendNonFragmented(s)
           [] s.omsg.type = "FRAGMENTED"     -> S!SendFragmented(s)
  BY DEF S!wslay_event_send
<1>2. SP!wslay_event_want_write /\ SP!Selected = s
  BY <1>1, SameSelected, Zenon DEF SP!wslay_event_want_write, S!wslay_event_want_write,
     SP!NoMsg, S!NoMsg, SP!WSLAY_CONTINUATION_FRAME, S!WSLAY_CONTINUATION_FRAME
<1>3. SameCall
  BY SameFrameSend DEF SameCall, NeverMasks
<1> HIDE DEF s
<1>4. s.omsg.type \in SP!MsgType
  <2>1. SP!Ready(s)
    BY <1>2, SendAssumptions, SP!SelectedLemma
  <2> QED  BY <2>1 DEF SP!Ready, SP!SelectionOK, SP!Selection, SP!OMsg
<1>5. SP!wslay_event_send <=>
         CASE s.omsg.type = "NULL"           -> SP!NothingSelected(s)
           [] s.omsg.type = "NON_FRAGMENTED" -> SP!SendNonFragmented(s)
           [] s.omsg.type = "FRAGMENTED"     -> SP!SendFragmented(s)
  BY <1>2 DEF SP!wslay_event_send
<1>6. CASE s.omsg.type = "NULL"
  BY <1>1, <1>5, <1>6, SameNone
<1>7. CASE s.omsg.type = "NON_FRAGMENTED"
  BY <1>1, <1>3, <1>5, <1>7, SameNonFragmented
<1>8. CASE s.omsg.type = "FRAGMENTED"
  BY <1>1, <1>3, <1>5, <1>8, SameFragmented
<1> QED  BY <1>4, <1>6, <1>7, <1>8 DEF SP!MsgType

-----------------------------------------------------------------------------
(* The two halves of the context together *)

(* All that this process queues is unfragmented.                           *)
Plain == { m \in OMsg : m.source = << >> }

(* Each half keeps its own invariant, whatever the other and the process   *)
(* do between its calls.                                                   *)
HalvesInv ==
    /\ SP!IInv /\ SP!DataInv
    /\ RP!Inv /\ ~config.no_buffering
    /\ accepted \in Seq(Plain)

(* The types are those of the instances.                                   *)
LEMMA SameTypes ==
    /\ SP!OMsg = OMsg /\ RP!OMsg = OMsg
    /\ SP!CloseStatus = CloseStatus /\ RP!CloseStatus = CloseStatus
    /\ SP!CallbackErrors = CallbackErrors /\ RP!CallbackErrors = CallbackErrors
    /\ RP!Opcodes = Opcodes /\ RP!Byte = Byte
BY Zenon DEF SP!OMsg, RP!OMsg, OMsg, SP!MsgType, RP!MsgType, MsgType, SP!Opcodes, RP!Opcodes,
   Opcodes, SP!Byte, RP!Byte, Byte, SP!CloseStatus, RP!CloseStatus, CloseStatus,
   SP!CallbackErrors, RP!CallbackErrors, CallbackErrors,
   SP!WSLAY_CONTINUATION_FRAME, SP!WSLAY_TEXT_FRAME, SP!WSLAY_BINARY_FRAME,
   SP!WSLAY_CONNECTION_CLOSE, SP!WSLAY_PING, SP!WSLAY_PONG,
   RP!WSLAY_CONTINUATION_FRAME, RP!WSLAY_TEXT_FRAME, RP!WSLAY_BINARY_FRAME,
   RP!WSLAY_CONNECTION_CLOSE, RP!WSLAY_PING, RP!WSLAY_PONG,
   WSLAY_CONTINUATION_FRAME, WSLAY_TEXT_FRAME, WSLAY_BINARY_FRAME,
   WSLAY_CONNECTION_CLOSE, WSLAY_PING, WSLAY_PONG,
   SP!WSLAY_ERR_WOULDBLOCK, RP!WSLAY_ERR_WOULDBLOCK, WSLAY_ERR_WOULDBLOCK,
   SP!WSLAY_ERR_CALLBACK_FAILURE, RP!WSLAY_ERR_CALLBACK_FAILURE, WSLAY_ERR_CALLBACK_FAILURE

(* A message that joins a queue, as sending sees it.                       *)
LEMMA SameJoin ==
    /\ \A m : Enqueue(m) => SP!Enqueue(m)
    /\ \A op : SP!wslay_is_ctrl_frame(op) <=> wslay_is_ctrl_frame(op)
BY Zenon DEF SP!Enqueue, Enqueue, SP!wslay_is_ctrl_frame, wslay_is_ctrl_frame

(* It takes its place there, and the peer will get it.                     *)
LEMMA JoinKeepsHalf ==
    ASSUME SP!IInv, SP!DataInv, accepted \in Seq(Plain), write_enabled,
           NEW m \in OMsg, m.opcode # WSLAY_CONTINUATION_FRAME, Pushed(m) \/ Added(m),
           ret' \in Int, close_status' \in SUBSET CloseStatus, error' \in CallbackErrors,
           KeepsBit("SENT"), KeepsBit("QUEUED") \/ m.opcode = CLOSE,
           UNCHANGED << write_enabled, frameVars, sendVars >>
    PROVE  SP!IInv' /\ SP!DataInv' /\ accepted' \in Seq(Plain)
<1>1. /\ m \in SP!OMsg /\ m.source = << >> /\ m.fin /\ m.type = "NON_FRAGMENTED"
      /\ SP!Enqueue(m) /\ Enqueue(m)
  BY SameTypes, SameJoin DEF Pushed, Added
<1>2. IF SP!wslay_is_ctrl_frame(m.opcode) THEN SP!IsControlItem(m) ELSE SP!IsDataItem(m)
  <2>1. CASE Pushed(m)
    <3>1. Len(m.data) \in Nat /\ CtrlMax \in Nat
      BY CtrlMaxAssumption DEF OMsg
    <3> QED  BY <2>1, <3>1, SameJoin DEF Pushed, SP!IsControlItem
  <2>2. CASE Added(m)
    BY <2>2, SameJoin DEF Added, SP!IsDataItem
  <2> QED  BY <2>1, <2>2
<1>3. /\ close_status' \in SUBSET SP!CloseStatus /\ error' \in SP!CallbackErrors
      /\ "QUEUED" \in close_status' => "QUEUED" \in close_status \/ SP!IsClose(m)
      /\ UNCHANGED << write_enabled, SP!frameVars, SP!sendVars >>
  <2>1. SP!WSLAY_CONNECTION_CLOSE = CLOSE
    BY SameCodes DEF SP!WSLAY_CONNECTION_CLOSE
  <2> QED  BY <1>1, <2>1, SameTypes DEF SP!IsClose, KeepsBit, frameVars, sendVars, SP!frameVars,
                                       SP!sendVars
<1>4. SP!IInv'
  BY <1>1, <1>2, <1>3, SendAssumptions, SP!PushLemma DEF KeepsBit
<1>5. m.opcode # SP!WSLAY_CONTINUATION_FRAME
  BY DEF SP!WSLAY_CONTINUATION_FRAME, WSLAY_CONTINUATION_FRAME
<1>6. SP!Joins(m)
  BY <1>1, <1>2, <1>3, <1>5, Zenon DEF SP!Joins, SP!SourceDone
<1>7. SP!DataInv'
  BY <1>6, SendAssumptions, SP!JoinsKeepsData
<1>8. accepted' \in Seq(Plain)
  <2>1. accepted' = Append(accepted, m)
    BY <1>1 DEF Enqueue
  <2>2. m \in Plain
    BY <1>1 DEF Plain
  <2> QED  BY <2>1, <2>2
<1> QED  BY <1>4, <1>7, <1>8

(* What receiving leaves behind has the types sending expects.             *)
LEMMA RecvTypes ==
    ASSUME RP!TypeOK'
    PROVE  /\ ret' \in Int /\ close_status' \in SUBSET CloseStatus
           /\ error' \in CallbackErrors /\ write_enabled' \in BOOLEAN
           /\ accepted' \in Seq(OMsg)
BY SameTypes DEF RP!TypeOK, RP!QueueTypeOK

(* No control message is a continuation.                                   *)
LEMMA CtrlBegins == ~wslay_is_ctrl_frame(WSLAY_CONTINUATION_FRAME)
BY DEF wslay_is_ctrl_frame, WSLAY_CONTINUATION_FRAME

(* An iteration of wslay_event_recv keeps sending's half.                  *)
LEMMA RecvKeepsHalf ==
    ASSUME SP!IInv, SP!DataInv, accepted \in Seq(Plain), write_enabled, RP!TypeOK',
           Continues \/ Ends, UNCHANGED << write_enabled, frameVars, sendVars >>
    PROVE  SP!IInv' /\ SP!DataInv' /\ accepted' \in Seq(Plain)
<1>1. /\ ret' \in Int /\ close_status' \in SUBSET CloseStatus
      /\ error' \in CallbackErrors /\ write_enabled' \in BOOLEAN
      /\ accepted' \in Seq(OMsg)
  BY RecvTypes
<1>2. /\ KeepsBit("SENT")
      /\ \/ QueuesStay /\ KeepsBit("QUEUED")
         \/ \E m : Pushed(m) /\ (KeepsBit("QUEUED") \/ m.opcode = CLOSE)
  BY DEF Continues, Ends, PushedClose, KeepsBit
<1>3. CASE QueuesStay /\ KeepsBit("QUEUED")
  <2>1. /\ UNCHANGED << SP!queueVars, SP!frameVars, SP!sendVars >>
        /\ write_enabled' => write_enabled
        /\ close_status' \in SUBSET SP!CloseStatus /\ error' \in SP!CallbackErrors
        /\ accepted' = accepted
    BY <1>1, <1>3, SameTypes DEF QueuesStay, frameVars, sendVars, SP!queueVars, SP!frameVars,
                                 SP!sendVars
  <2>2. SP!IInv'
    BY <1>1, <1>2, <1>3, <2>1, SendAssumptions, SP!IdleLemma DEF KeepsBit
  <2>3. SP!DataInv'
    BY <2>1, SendAssumptions, SP!IdleKeepsData DEF SP!Idle
  <2> QED  BY <2>1, <2>2, <2>3
<1>4. CASE \E m : Pushed(m) /\ (KeepsBit("QUEUED") \/ m.opcode = CLOSE)
  <2>1. PICK m : Pushed(m) /\ (KeepsBit("QUEUED") \/ m.opcode = CLOSE)
    BY <1>4
  <2>2. accepted' = Append(accepted, m) /\ m.opcode # WSLAY_CONTINUATION_FRAME
    BY <2>1, PushedOn, CtrlBegins
  <2>3. m \in OMsg
    <3>1. accepted'[Len(accepted) + 1] = m /\ Len(accepted') = Len(accepted) + 1
          /\ Len(accepted) \in Nat
      BY <2>2
    <3> QED  BY <1>1, <3>1
  <2> QED  BY <1>1, <1>2, <2>1, <2>2, <2>3, JoinKeepsHalf
<1> QED  BY <1>2, <1>3, <1>4

(* The action Recv.                                                        *)
LEMMA RecvKeepsHalves ==
    ASSUME EchoInv, HalvesInv, Recv
    PROVE  HalvesInv'
<1>1. /\ pc = "recv" /\ R!wslay_event_recv /\ UNCHANGED << frameVars, sendVars >>
  BY DEF Recv
<1>2. /\ Continues \/ Ends
      /\ read_enabled /\ write_enabled' = write_enabled /\ config' = config
  BY <1>1, RecvOutcome DEF EchoInv, Shape
<1>3. RP!Inv'
  BY <1>1, SameRecv, RecvAssumptions, RP!RecvKeepsInv DEF HalvesInv
<1>4. RP!TypeOK'
  BY <1>3 DEF RP!Inv
<1>5. write_enabled
  BY <1>1, <1>2 DEF EchoInv, NoFailureYet
<1>6. SP!IInv' /\ SP!DataInv' /\ accepted' \in Seq(Plain)
  BY <1>1, <1>2, <1>4, <1>5, RecvKeepsHalf DEF HalvesInv
<1> QED  BY <1>2, <1>3, <1>6 DEF HalvesInv

(* An opcode that is not a control frame's is not a Close's or a Pong's.   *)
LEMMA DataOpcodes ==
    /\ wslay_is_ctrl_frame(RP!WSLAY_CONNECTION_CLOSE) /\ wslay_is_ctrl_frame(RP!WSLAY_PONG)
    /\ RP!WSLAY_CONTINUATION_FRAME = WSLAY_CONTINUATION_FRAME
BY DEF wslay_is_ctrl_frame, RP!WSLAY_CONNECTION_CLOSE, RP!WSLAY_PONG,
       RP!WSLAY_CONTINUATION_FRAME, WSLAY_CONTINUATION_FRAME

(* Receiving's half is untouched while the process echoes or sends.        *)
LEMMA AsideKeepsHalf ==
    ASSUME RP!Inv, UNCHANGED recvVars, KeepsBit("RECEIVED"), KeepsBit("QUEUED"),
           write_enabled' => write_enabled, SP!TypeOK', RP!FailureAnswered',
           \/ accepted' = accepted
           \/ read_enabled /\ \E m \in OMsg :
                /\ ~wslay_is_ctrl_frame(m.opcode) /\ accepted' = Append(accepted, m)
    PROVE  RP!Inv'
<1>1. RP!QueueTypeOK'
  BY SameTypes DEF SP!TypeOK, SP!QueueTypeOK, RP!QueueTypeOK
<1>2. RP!TypeOK'
  BY <1>1 DEF RP!Inv, RP!TypeOK, RP!SourceTypeOK, recvVars
<1>3. accepted' = accepted \/ RP!AppQueues
  BY DataOpcodes, SameTypes DEF RP!AppQueues
<1>4. RP!wslay_event_is_msg_queueable' => RP!wslay_event_is_msg_queueable
  BY DEF RP!wslay_event_is_msg_queueable, KeepsBit
<1>5. RP!Aside
  BY <1>3, <1>4 DEF RP!Aside, KeepsBit, recvVars
<1> QED  BY <1>2, <1>5, RecvAssumptions, RP!AsideKeepsInv

(* The message the callback is called with.                                *)
LEMMA EchoedMessage ==
    ASSUME EchoInv, RP!Inv, pc = "echo"
    PROVE  LET e == delivered[Len(delivered)]
           IN  /\ e.opcode \in Opcodes /\ e.msg \in Seq(Byte)
               /\ ~wslay_is_ctrl_frame(e.opcode) /\ e.opcode # WSLAY_CONTINUATION_FRAME
               /\ read_enabled /\ write_enabled /\ "QUEUED" \notin close_status
<1> DEFINE e == delivered[Len(delivered)]
           got == DataOf(delivered)
<1>1. PICK M, F : Told(M, F)
  BY DEF EchoInv
<1>2. /\ read_enabled /\ got # << >> /\ got[Len(got)] = e
      /\ ~wslay_is_ctrl_frame(got[Len(got)].opcode)
  BY <1>1 DEF Told
<1>3. write_enabled /\ "QUEUED" \notin close_status
  BY <1>2 DEF EchoInv, NoFailureYet
<1>4. delivered # << >>
  BY <1>2, DataOfEmpty
<1>5. delivered \in Seq([ opcode : Opcodes, msg : Seq(Byte), status_code : RP!StatusCode ])
  BY SameTypes DEF RP!Inv, RP!TypeOK
<1>6. e.opcode \in Opcodes /\ e.msg \in Seq(Byte)
  <2> DEFINE Kind == [ opcode : Opcodes, msg : Seq(Byte), status_code : RP!StatusCode ]
  <2>1. delivered \in Seq(Kind)
    BY <1>5
  <2> HIDE DEF Kind
  <2>2. e \in Kind
    BY <1>4, <2>1
  <2> QED  BY <2>2 DEF Kind
<1>7. RP!Last(delivered).opcode \notin RP!NotHanded
  BY <1>2, <1>4, RecvAssumptions, RP!NoCloseYet
<1>8. e.opcode # WSLAY_CONTINUATION_FRAME
  BY <1>7, DataOpcodes DEF RP!Last, RP!NotHanded
<1> QED  BY <1>2, <1>3, <1>6, <1>8

(* The action Echo.                                                        *)
LEMMA EchoKeepsHalves ==
    ASSUME EchoInv, HalvesInv, Echo
    PROVE  HalvesInv'
<1> DEFINE e == delivered[Len(delivered)]
<1>1. /\ pc = "echo"
      /\ UNCHANGED << write_enabled, close_status, error, ret, frameVars, sendVars, recvVars >>
  BY DEF Echo
<1>2. PICK r \in QueueReturns : wslay_event_queue_msg(e.opcode, e.msg, r)
  BY DEF Echo, on_msg_recv_callback
<1>3. /\ e.opcode \in Opcodes /\ e.msg \in Seq(Byte)
      /\ ~wslay_is_ctrl_frame(e.opcode) /\ e.opcode # WSLAY_CONTINUATION_FRAME
      /\ read_enabled /\ write_enabled /\ "QUEUED" \notin close_status
  BY <1>1, EchoedMessage DEF HalvesInv
<1> HIDE DEF e
<1>4. /\ ret' \in Int /\ close_status' \in SUBSET CloseStatus /\ error' \in CallbackErrors
      /\ write_enabled' = write_enabled /\ write_enabled \in BOOLEAN
  BY <1>1, SameTypes DEF HalvesInv, SP!IInv, SP!TypeOK, SP!QueueTypeOK
<1>5. KeepsBit("SENT") /\ KeepsBit("QUEUED") /\ KeepsBit("RECEIVED")
  BY <1>1 DEF KeepsBit
<1>6. read_enabled' = read_enabled /\ config' = config
  BY <1>1 DEF recvVars
<1>7. CASE UNCHANGED queueVars
  <2>1. UNCHANGED << SP!queueVars, SP!frameVars, SP!sendVars >> /\ accepted' = accepted
    BY <1>1, <1>7 DEF queueVars, frameVars, sendVars, SP!queueVars, SP!frameVars, SP!sendVars
  <2>2. SP!IInv'
    BY <1>4, <1>5, <2>1, SameTypes, SendAssumptions, SP!IdleLemma DEF HalvesInv, KeepsBit
  <2>3. SP!DataInv'
    BY <1>4, <2>1, SendAssumptions, SP!IdleKeepsData DEF SP!Idle, HalvesInv
  <2>4. UNCHANGED RP!vars
    BY <1>1, <1>7 DEF RP!vars, RP!queueVars, RP!recvVars, queueVars, recvVars
  <2>5. RP!Inv'
    BY <2>4, RecvAssumptions, RP!StutterKeepsInv DEF HalvesInv
  <2> QED  BY <1>6, <2>1, <2>2, <2>3, <2>5 DEF HalvesInv
<1>8. CASE \E m : /\ m = omsg_non_fragmented_new(e.opcode, e.msg)
                  /\ Added(m) /\ m.opcode = e.opcode /\ m.data = e.msg
  <2>1. PICK m : /\ m = omsg_non_fragmented_new(e.opcode, e.msg)
                 /\ Added(m) /\ m.opcode = e.opcode
    BY <1>8
  <2>2. m \in OMsg
    BY <1>3, <2>1 DEF omsg_non_fragmented_new, OMsg, MsgType
  <2>3. SP!IInv' /\ SP!DataInv' /\ accepted' \in Seq(Plain)
    BY <1>1, <1>3, <1>4, <1>5, <2>1, <2>2, JoinKeepsHalf DEF HalvesInv
  <2>4. SP!TypeOK' /\ RP!FailureAnswered'
    BY <1>3, <1>6, <2>3 DEF SP!IInv, RP!FailureAnswered
  <2>5. accepted' = Append(accepted, m)
    BY <2>1, AddedOn
  <2>6. RP!Inv'
    BY <1>1, <1>3, <1>4, <1>5, <2>1, <2>2, <2>4, <2>5, AsideKeepsHalf DEF HalvesInv
  <2> QED  BY <1>6, <2>3, <2>6 DEF HalvesInv
<1> QED  BY <1>2, <1>3, <1>7, <1>8, QueueData

(* The action Send.                                                        *)
LEMMA SendKeepsHalves ==
    ASSUME EchoInv, HalvesInv, Send
    PROVE  HalvesInv'
<1>1. pc = "send" /\ S!wslay_event_send /\ UNCHANGED recvVars
  BY DEF Send
<1>2. PICK D : QueuesFrom(D)
  BY DEF EchoInv
<1>3. Sends(D)
  BY <1>1, <1>2, SendOutcome DEF EchoInv, Shape, QueuesFrom
<1>4. SP!wslay_event_send
  BY <1>1, SameSend DEF EchoInv, Shape, HalvesInv
<1>5. SP!IInv'
  BY <1>4, SendAssumptions, SP!EventSendLemma DEF HalvesInv
<1>6. SP!DataInv'
  BY <1>4, <1>5, SendAssumptions, SP!EventSendKeepsData DEF HalvesInv
<1>7. RP!FailureAnswered'
  <2>1. read_enabled' = read_enabled /\ readShut' = readShut
    BY <1>1 DEF recvVars
  <2>2. ret = 0 /\ write_enabled
    BY <1>1 DEF EchoInv, NoFailureYet, S!wslay_event_send, S!wslay_event_want_write
  <2>3. RP!WSLAY_ERR_NOMEM # 0
    BY DEF RP!WSLAY_ERR_NOMEM
  <2>4. ~read_enabled /\ ~readShut => "QUEUED" \in close_status
    BY <2>2, <2>3 DEF HalvesInv, RP!Inv, RP!FailureAnswered
  <2> QED  BY <1>3, <2>1, <2>4 DEF RP!FailureAnswered, Sends, KeepsBit
<1>8. RP!Inv'
  BY <1>1, <1>3, <1>5, <1>7, AsideKeepsHalf DEF HalvesInv, SP!IInv, Sends
<1>9. config' = config /\ accepted' = accepted
  BY <1>1, <1>3 DEF recvVars, Sends
<1> QED  BY <1>5, <1>6, <1>8, <1>9 DEF HalvesInv

(* A step of the loop that does not touch the context.                     *)
LEMMA QuietKeepsHalves ==
    ASSUME HalvesInv, Quiet
    PROVE  HalvesInv'
<1>1. UNCHANGED contextVars
  BY DEF Quiet
<1>2. /\ UNCHANGED << write_enabled, close_status, error, ret, queueVars, frameVars, sendVars,
                      recvVars >>
  BY <1>1 DEF contextVars
<1>3. /\ UNCHANGED << SP!queueVars, SP!frameVars, SP!sendVars, RP!vars >>
      /\ accepted' = accepted /\ config' = config
  BY <1>2 DEF queueVars, frameVars, sendVars, recvVars, SP!queueVars, SP!frameVars,
     SP!sendVars, RP!vars, RP!queueVars, RP!recvVars
<1>4. /\ ret' \in Int /\ close_status' \in SUBSET SP!CloseStatus /\ error' \in SP!CallbackErrors
      /\ write_enabled' = write_enabled /\ write_enabled' \in BOOLEAN
      /\ close_status' = close_status
  BY <1>2 DEF HalvesInv, SP!IInv, SP!TypeOK, SP!QueueTypeOK
<1>5. SP!IInv'
  BY <1>3, <1>4, SendAssumptions, SP!IdleLemma DEF HalvesInv
<1>6. SP!DataInv'
  BY <1>3, <1>4, SendAssumptions, SP!IdleKeepsData DEF SP!Idle, HalvesInv
<1>7. RP!Inv'
  BY <1>3, RecvAssumptions, RP!StutterKeepsInv DEF HalvesInv
<1> QED  BY <1>3, <1>5, <1>6, <1>7 DEF HalvesInv

(* The context of wslay_server_new.                                        *)
LEMMA InitHalves == EchoInit => HalvesInv
<1> SUFFICES ASSUME EchoInit PROVE HalvesInv
  OBVIOUS
<1>1. S!Init /\ R!Init
  BY DEF EchoInit
<1>2. SP!Init
  BY <1>1, Zenon DEF S!Init, SP!Init, S!QueueInit, SP!QueueInit, S!FrameInit, SP!FrameInit,
     S!frame_context_new, SP!frame_context_new, S!NoMsg, SP!NoMsg,
     S!WSLAY_CONTINUATION_FRAME, SP!WSLAY_CONTINUATION_FRAME,
     S!WSLAY_CODE_ABNORMAL_CLOSURE, SP!WSLAY_CODE_ABNORMAL_CLOSURE
<1>3. RP!Init
  BY <1>1, Zenon DEF R!Init, RP!Init, R!QueueInit, RP!QueueInit, R!SourceInit, RP!SourceInit,
     R!NewImsg, RP!NewImsg, R!NoOpcode, RP!NoOpcode, R!UTF8_ACCEPT, RP!UTF8_ACCEPT,
     R!WSLAY_CODE_ABNORMAL_CLOSURE, RP!WSLAY_CODE_ABNORMAL_CLOSURE
<1>4. SP!IInv /\ SP!DataInv
  BY <1>2, SendAssumptions, SP!InitLemma, SP!InitData
<1>5. RP!Inv
  BY <1>3, RecvAssumptions, RP!InitInv
<1>6. ~config.no_buffering /\ accepted \in Seq(Plain)
  BY <1>1 DEF R!Init, R!QueueInit
<1> QED  BY <1>4, <1>5, <1>6 DEF HalvesInv

(* Every step.                                                             *)
LEMMA NextKeepsHalves ==
    ASSUME EchoInv, HalvesInv, [EchoNext]_echoVars
    PROVE  HalvesInv'
<1>1. CASE Recv
  BY <1>1, RecvKeepsHalves
<1>2. CASE Echo
  BY <1>2, EchoKeepsHalves
<1>3. CASE Send
  BY <1>3, SendKeepsHalves
<1>4. CASE LoopEnds \/ Poll \/ PollFails \/ Check \/ UNCHANGED echoVars
  BY <1>4, QuietLoop, QuietKeepsHalves
<1> QED  BY <1>1, <1>2, <1>3, <1>4 DEF EchoNext, Proceed

-----------------------------------------------------------------------------
(* What the client gets back *)

(* The data queue of a history is its data messages.                       *)
LEMMA DataIsSorted ==
    ASSUME NEW s \in Seq(OMsg)
    PROVE  SP!ByQueue(s).data = DataOf(s)
<1> DEFINE n == Len(s)
           Q == SP!Queues
<1>1. n \in Nat /\ \A i \in 1..n : s[i] \in OMsg
  OBVIOUS
<1>2. PICK f \in [ 0..n -> Q ] : SP!IsFold(f, SP!NoQueues, SP!SortStep, s) /\ SP!ByQueue(s) = f[n]
  BY SameTypes, SendAssumptions, SP!ByQueueFolds
<1>3. PICK g \in [ 0..n -> Seq(OMsg) ] :
        IsFold(g, << >>, PickStep(OMsg), s) /\ DataOf(s) = g[n]
  BY DataOfFolds
<1> DEFINE Same == { i \in 0..n : f[i].data = g[i] }
<1>4. 0 \in Same
  <2>1. f[0].data = << >> /\ g[0] = << >>
    BY <1>2, <1>3 DEF SP!IsFold, IsFold, SP!NoQueues
  <2> QED  BY <1>1, <2>1
<1>5. ASSUME NEW i \in 1..n, i - 1 \in Same PROVE i \in Same
  <2>1. i - 1 \in 0..n /\ i \in 0..n /\ s[i] \in OMsg /\ f[i - 1].data = g[i - 1]
    BY <1>1, <1>5
  <2>2. f[i - 1] \in Q /\ g[i - 1] \in Seq(OMsg)
    BY <2>1
  <2>3. f[i] = SP!Sort(f[i - 1], s[i])
    BY <1>2, <2>1, <2>2, SameTypes DEF SP!IsFold, SP!SortStep
  <2>4. g[i] = (Pick(g[i - 1], s[i]))
    BY <1>3, <2>1, <2>2 DEF IsFold, PickStep
  <2>5. f[i].data = (Pick(f[i - 1].data, s[i]))
    BY <2>2, <2>3, SameJoin DEF SP!Sort, Pick, SP!Queues
  <2> QED  BY <2>1, <2>4, <2>5
<1>6. \A i \in 0..n : i \in Same
  <2> HIDE DEF Same, n
  <2> QED  BY <1>1, <1>4, <1>5, InductionUpTo
<1> QED  BY <1>1, <1>2, <1>3, <1>6

(* Messages are the same to an application that looks at opcode and bytes. *)
Alike(a, b) == a.opcode = b.opcode /\ a.msg = b.msg

Begins(s, t) == Len(s) <= Len(t) /\ \A i \in 1..Len(s) : Alike(s[i], t[i])

(* One message more on one side.                                           *)
LEMMA BeginsLonger ==
    ASSUME NEW M, NEW N, NEW a \in Seq(M), NEW b \in Seq(N), NEW e \in N, Begins(a, b)
    PROVE  Begins(a, Pick(b, e))
BY DEF Begins, Pick

(* One message more on both.                                               *)
LEMMA BeginsPick ==
    ASSUME NEW M, NEW N, NEW a \in Seq(M), NEW b \in Seq(N), NEW d \in M, NEW e \in N,
           Len(a) = Len(b), Begins(a, b), Alike(d, e)
    PROVE  Len(Pick(a, d)) = Len(Pick(b, e)) /\ Begins(Pick(a, d), Pick(b, e))
<1>1. CASE wslay_is_ctrl_frame(d.opcode)
  BY <1>1 DEF Pick, Alike
<1>2. CASE ~wslay_is_ctrl_frame(d.opcode)
  <2>1. Pick(a, d) = Append(a, d) /\ Pick(b, e) = Append(b, e)
    BY <1>2 DEF Pick, Alike
  <2>2. \A i \in 1..(Len(a) + 1) :
          /\ Append(a, d)[i] = IF i = Len(a) + 1 THEN d ELSE a[i]
          /\ Append(b, e)[i] = IF i = Len(a) + 1 THEN e ELSE b[i]
    OBVIOUS
  <2>3. Len(Append(a, d)) = Len(a) + 1 /\ Len(Append(b, e)) = Len(a) + 1 /\ Len(a) \in Nat
    OBVIOUS
  <2>4. \A i \in 1..Len(a) : Alike(a[i], b[i])
    BY DEF Begins
  <2>5. ASSUME NEW i \in 1..(Len(a) + 1) PROVE Alike(Append(a, d)[i], Append(b, e)[i])
    BY <2>2, <2>3, <2>4
  <2> QED  BY <2>1, <2>3, <2>5 DEF Begins
<1> QED  BY <1>1, <1>2

(* The data of a history begins the data of a longer one.                  *)
LEMMA DataOfBegins ==
    ASSUME NEW M, NEW N, NEW s \in Seq(M), NEW t \in Seq(N), Begins(s, t)
    PROVE  Begins(DataOf(s), DataOf(t))
<1> DEFINE n == Len(s)
           m == Len(t)
<1>1. /\ n \in Nat /\ m \in Nat /\ n <= m
      /\ \A i \in 1..n : s[i] \in M /\ Alike(s[i], t[i])
      /\ \A i \in 1..m : t[i] \in N
  BY DEF Begins
<1>2. PICK f \in [ 0..n -> Seq(M) ] : IsFold(f, << >>, PickStep(M), s) /\ DataOf(s) = f[n]
  BY DataOfFolds
<1>3. PICK g \in [ 0..m -> Seq(N) ] : IsFold(g, << >>, PickStep(N), t) /\ DataOf(t) = g[m]
  BY DataOfFolds
<1> HIDE DEF n, m
<1>4. ASSUME NEW i \in 1..n
      PROVE  i - 1 \in 0..n /\ i \in 0..n /\ f[i - 1] \in Seq(M) /\ f[i] = (Pick(f[i - 1], s[i]))
  <2>1. i - 1 \in 0..n /\ i \in 0..n /\ s[i] \in M
    BY <1>1
  <2>2. f[i] = PickStep(M)[<< f[i - 1], s[i] >>]
    BY <1>2 DEF IsFold, n
  <2> QED  BY <2>1, <2>2 DEF PickStep
<1>5. ASSUME NEW i \in 1..m
      PROVE  i - 1 \in 0..m /\ i \in 0..m /\ g[i - 1] \in Seq(N) /\ g[i] = (Pick(g[i - 1], t[i]))
  <2>1. i - 1 \in 0..m /\ i \in 0..m /\ t[i] \in N
    BY <1>1
  <2>2. g[i] = PickStep(N)[<< g[i - 1], t[i] >>]
    BY <1>3 DEF IsFold, m
  <2> QED  BY <2>1, <2>2 DEF PickStep
<1> DEFINE Both == { i \in 0..n : Len(f[i]) = Len(g[i]) /\ Begins(f[i], g[i]) }
           Ahead == { i \in 0..m : n <= i => Begins(f[n], g[i]) }
<1>6. 0 \in Both
  <2>1. f[0] = << >> /\ g[0] = << >>
    BY <1>2, <1>3 DEF IsFold
  <2> QED  BY <1>1, <2>1 DEF Begins
<1>7. ASSUME NEW i \in 1..n, i - 1 \in Both PROVE i \in Both
  <2>1. i \in 1..m /\ s[i] \in M /\ t[i] \in N /\ Alike(s[i], t[i])
    BY <1>1
  <2>2. /\ f[i - 1] \in Seq(M) /\ f[i] = (Pick(f[i - 1], s[i]))
        /\ g[i - 1] \in Seq(N) /\ g[i] = (Pick(g[i - 1], t[i]))
        /\ i \in 0..n
    BY <1>4, <1>5, <2>1
  <2>3. Len(f[i - 1]) = Len(g[i - 1]) /\ Begins(f[i - 1], g[i - 1])
    BY <1>7
  <2>4. Len(f[i]) = Len(g[i]) /\ Begins(f[i], g[i])
    BY <2>1, <2>2, <2>3, BeginsPick
  <2> QED  BY <2>2, <2>4
<1>8. \A i \in 0..n : i \in Both
  <2> HIDE DEF Both
  <2> QED  BY <1>1, <1>6, <1>7, InductionUpTo
<1>9. Begins(f[n], g[n]) /\ f[n] \in Seq(M)
  BY <1>1, <1>8
<1>10. 0 \in Ahead
  BY <1>1, <1>9
<1>11. ASSUME NEW i \in 1..m, i - 1 \in Ahead PROVE i \in Ahead
  <2>1. i \in 0..m
    BY <1>1
  <2>2. CASE i <= n
    BY <1>1, <1>9, <2>1, <2>2
  <2>3. CASE n <= i - 1
    <3>1. Begins(f[n], g[i - 1]) /\ g[i - 1] \in Seq(N) /\ g[i] = (Pick(g[i - 1], t[i]))
      BY <1>5, <1>11, <2>3
    <3>2. f[n] \in Seq(M) /\ t[i] \in N
      BY <1>1, <1>9
    <3>3. Begins(f[n], g[i])
      BY <3>1, <3>2, BeginsLonger
    <3> QED  BY <2>1, <3>3
  <2> QED  BY <1>1, <2>2, <2>3
<1>12. \A i \in 0..m : i \in Ahead
  <2> HIDE DEF Ahead
  <2> QED  BY <1>1, <1>10, <1>11, InductionUpTo
<1>13. Begins(f[n], g[m])
  BY <1>1, <1>12
<1> QED  BY <1>2, <1>3, <1>13

(* Both specifications see the same frames and messages.                   *)
LEMMA SamePeer == \A frames : SP!PeerReceives(frames) = S!PeerReceives(frames)
BY Zenon DEF SP!PeerReceives, S!PeerReceives, SP!NothingReceived, S!NothingReceived,
   SP!Receive, S!Receive, SP!Content, S!Content, SP!IsComplete, S!IsComplete,
   SP!wslay_is_ctrl_frame, S!wslay_is_ctrl_frame,
   SP!WSLAY_CONTINUATION_FRAME, S!WSLAY_CONTINUATION_FRAME

(* The messages the frames amount to are the same in both instances.       *)
LEMMA SameMessages ==
    /\ R!WholeFrames = RP!WholeFrames
    /\ \A frames : R!Reassemble(frames) = RP!Reassemble(frames)
BY Zenon DEF R!WholeFrames, RP!WholeFrames, R!Front, RP!Front, R!Reassemble, RP!Reassemble,
   R!NothingYet, RP!NothingYet, R!NoOpcode, RP!NoOpcode, R!AddFrame, RP!AddFrame,
   R!wslay_is_ctrl_frame, RP!wslay_is_ctrl_frame,
   R!WSLAY_CONTINUATION_FRAME, RP!WSLAY_CONTINUATION_FRAME

(* A sequence begins another of which it is a prefix.                      *)
LEMMA PrefixBegins ==
    ASSUME NEW s, NEW t, Len(s) \in Nat, Len(t) \in Nat, RP!IsPrefix(s, t)
    PROVE  Len(s) <= Len(t) /\ \A i \in 1..Len(s) : s[i] = t[i]
<1>1. Len(s) <= Len(t) /\ SubSeq(s, 1, Len(s)) = SubSeq(t, 1, Len(s))
  BY DEF RP!IsPrefix
<1>2. \A i \in 1..Len(s) : SubSeq(s, 1, Len(s))[i] = s[i] /\ SubSeq(t, 1, Len(s))[i] = t[i]
  BY <1>1
<1> QED  BY <1>1, <1>2

(* What is delivered begins what the client completed.                     *)
LEMMA DeliveredBegins ==
    ASSUME RP!Inv, ~config.no_buffering, config.on_msg_recv
    PROVE  LET msgs == R!Reassemble(R!WholeFrames).msgs
           IN  \E M, N : delivered \in Seq(M) /\ msgs \in Seq(N) /\ Begins(delivered, msgs)
<1> DEFINE msgs == RP!Reassemble(RP!WholeFrames).msgs
           told == RP!DeliveredMsgs
<1>1. R!Reassemble(R!WholeFrames).msgs = msgs
  BY SameMessages, Zenon
<1>2. msgs \in Seq(RP!Item)
  BY RecvAssumptions, RP!WholeFramesType DEF RP!Inv, RP!TypeOK
<1>3. PICK M : delivered \in Seq(M)
  BY DEF RP!Inv, RP!TypeOK
<1>4. RP!IsPrefix(told, RP!AsDelivered(msgs))
  BY Zenon DEF RP!Inv, RP!DeliveredAsSent
<1> HIDE DEF msgs
<1>5. RP!AsDelivered(msgs) = msgs
  <2>1. RP!AsDelivered(msgs) = [ i \in 1..Len(msgs) |-> msgs[i] ]
    BY DEF RP!AsDelivered
  <2> QED  BY <1>2, <2>1
<1>6. /\ Len(told) = Len(delivered) /\ Len(delivered) \in Nat /\ Len(msgs) \in Nat
      /\ \A i \in 1..Len(delivered) :
            told[i] = [ opcode |-> delivered[i].opcode, msg |-> delivered[i].msg ]
  BY <1>2, <1>3 DEF RP!DeliveredMsgs
<1> HIDE DEF told
<1>7. /\ Len(delivered) <= Len(msgs)
      /\ \A i \in 1..Len(delivered) : told[i] = msgs[i]
  BY <1>4, <1>5, <1>6, PrefixBegins
<1>8. Begins(delivered, msgs)
  <2>1. ASSUME NEW i \in 1..Len(delivered) PROVE Alike(delivered[i], msgs[i])
    <3>1. msgs[i] = [ opcode |-> delivered[i].opcode, msg |-> delivered[i].msg ]
      BY <1>6, <1>7
    <3> QED  BY <3>1 DEF Alike
  <2> QED  BY <1>7, <2>1 DEF Begins
<1> QED  BY <1>1, <1>2, <1>3, <1>8

(* What is echoed answers the beginning of what was completed.             *)
LEMMA AcceptedAnswers ==
    ASSUME ~OutOfMemory, EchoInv, HalvesInv
    PROVE  LET queued == DataOf(accepted)
               given  == DataOf(R!Reassemble(R!WholeFrames).msgs)
           IN  /\ Len(queued) <= Len(given)
               /\ \A i \in 1..Len(queued) :
                     queued[i].opcode = given[i].opcode /\ queued[i].data = given[i].msg
<1> DEFINE queued == DataOf(accepted)
           got    == DataOf(delivered)
           msgs   == R!Reassemble(R!WholeFrames).msgs
           given  == DataOf(msgs)
<1>1. PICK M, N : delivered \in Seq(M) /\ msgs \in Seq(N) /\ Begins(delivered, msgs)
  BY DeliveredBegins DEF EchoInv, HalvesInv, Shape
<1> HIDE DEF msgs
<1>2. Begins(got, given)
  BY <1>1, DataOfBegins
<1>3. PICK A, F : Told(A, F)
  BY DEF EchoInv
<1>4. OneBehind(queued, got) \/ Answers(queued, got)
  BY <1>3 DEF Told
<1>5. Len(queued) \in Nat /\ Len(got) \in Nat /\ Len(given) \in Nat
  <2>1. queued \in Seq(A) /\ got \in Seq(M)
    BY <1>1, <1>3, DataOfMore DEF Told
  <2>2. given \in Seq(N)
    BY <1>1, DataOfMore
  <2> QED  BY <2>1, <2>2
<1> HIDE DEF queued, got, given
<1>6. Len(queued) <= Len(got) /\ \A i \in 1..Len(queued) : Answer(queued[i], got[i])
  BY <1>4, <1>5 DEF OneBehind, Answers
<1>7. Len(queued) <= Len(given)
  BY <1>2, <1>5, <1>6 DEF Begins
<1>8. \A i \in 1..Len(queued) :
        queued[i].opcode = given[i].opcode /\ queued[i].data = given[i].msg
  BY <1>2, <1>5, <1>6 DEF Begins, Answer, Alike
<1> QED  BY <1>7, <1>8 DEF queued, given, msgs

(* EchoFaithful follows.                                                   *)
LEMMA HalvesAreFaithful ==
    ASSUME ~OutOfMemory, EchoInv, HalvesInv
    PROVE  EchoFaithful
<1> DEFINE view   == S!PeerReceives(wire)
           queued == DataOf(accepted)
           given  == DataOf(R!Reassemble(R!WholeFrames).msgs)
           n      == Len(view.msgs)
<1>1. accepted \in Seq(OMsg)
  BY SameTypes DEF HalvesInv, SP!IInv, SP!TypeOK, SP!QueueTypeOK
<1>2. SP!ArrivesIntact(view, queued)
  BY <1>1, SamePeer, DataIsSorted DEF HalvesInv, SP!DataInv, SP!DataArrivesIntact
<1>3. /\ Len(queued) <= Len(given)
      /\ \A i \in 1..Len(queued) :
            queued[i].opcode = given[i].opcode /\ queued[i].data = given[i].msg
  BY AcceptedAnswers
<1>4. queued \in Seq(Plain)
  BY DataOfMore DEF HalvesInv
<1>5. ASSUME NEW i \in 1..Len(queued)
      PROVE  SP!Given(queued[i]) = given[i].msg /\ queued[i].opcode = given[i].opcode
  <2>1. queued[i] \in Plain
    BY <1>4
  <2>2. queued[i].data \in Seq(Byte) /\ queued[i].source = << >>
    BY <2>1 DEF Plain, OMsg
  <2>3. SP!Given(queued[i]) = queued[i].data
    BY <2>2 DEF SP!Given
  <2> QED  BY <1>3, <2>3
<1>6. Len(queued) \in Nat /\ Len(given) \in Nat
  <2>1. PICK M, N : R!Reassemble(R!WholeFrames).msgs \in Seq(N)
    BY DeliveredBegins DEF EchoInv, HalvesInv, Shape
  <2>2. given \in Seq(N)
    BY <2>1, DataOfMore
  <2> QED  BY <1>4, <2>2
<1>7. /\ view.ok
      /\ n + (IF view.open THEN 1 ELSE 0) <= Len(queued)
      /\ \A i \in 1..n : view.msgs[i] = [ opcode |-> queued[i].opcode,
                                         data |-> SP!Given(queued[i]) ]
      /\ view.open => /\ view.opcode = queued[n + 1].opcode
                      /\ SP!IsPrefix(view.data, SP!Given(queued[n + 1]))
  BY <1>2 DEF SP!ArrivesIntact
<1>8. n \in Nat
  <2>1. SP!PeerReceives(wire) = view
    BY SamePeer
  <2>2. wire \in Seq(SP!WireFrame)
    BY DEF HalvesInv, SP!IInv, SP!TypeOK, SP!FrameTypeOK
  <2>3. view \in SP!PeerState
    BY <2>1, <2>2, SendAssumptions, SP!PeerReceivesType
  <2> HIDE DEF view
  <2> QED  BY <2>3 DEF SP!PeerState
<1> HIDE DEF view, queued, given, n
<1>9. n <= Len(queued) /\ (view.open => n + 1 \in 1..Len(queued))
  BY <1>6, <1>7, <1>8
<1>10. n + (IF view.open THEN 1 ELSE 0) <= Len(given)
  BY <1>3, <1>6, <1>7, <1>8
<1>11. \A i \in 1..n : view.msgs[i] = [ opcode |-> given[i].opcode, data |-> given[i].msg ]
  BY <1>5, <1>6, <1>7, <1>8, <1>9
<1>12. view.open => /\ view.opcode = given[n + 1].opcode
                    /\ S!IsPrefix(view.data, given[n + 1].msg)
  <2>1. \A s, t : SP!IsPrefix(s, t) <=> S!IsPrefix(s, t)
    BY Zenon DEF SP!IsPrefix, S!IsPrefix
  <2> QED  BY <1>5, <1>7, <1>9, <2>1
<1> QED  BY <1>7, <1>10, <1>11, <1>12 DEF EchoFaithful, view, given, n

(* EchoFaithful: the data messages on the wire are the ones the client     *)
(* completed, same order, same opcode, same bytes, whatever it put between *)
(* their frames and wherever either direction of the socket cut them,      *)
(* provided that memory does not run out (event.c 388-478, 525-646;        *)
(* fork-echoserv.c 361-371).                                               *)
THEOREM EchoIsFaithful ==
    ASSUME ~OutOfMemory
    PROVE  EchoSpec => []EchoFaithful
<1>1. EchoInit => HalvesInv
  BY InitHalves
<1>2. EchoInv /\ HalvesInv /\ [EchoNext]_echoVars => HalvesInv'
  BY NextKeepsHalves
<1>3. EchoInv /\ HalvesInv => EchoFaithful
  BY HalvesAreFaithful
<1> QED  BY <1>1, <1>2, <1>3, EchoInvHolds, PTL DEF EchoSpec
=============================================================================
