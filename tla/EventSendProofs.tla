-------------------------- MODULE EventSendProofs --------------------------
(***************************************************************************)
(* Proofs about the sending half of the event layer, for every value of    *)
(* the constants.                                                          *)
(*                                                                         *)
(* The first half is about the state of the two layers: IInv, which is     *)
(* inductive, one lemma for each action, and the theorems that follow.     *)
(*                                                                         *)
(* The second half is about what the peer makes of the frames (PeerView):  *)
(* the data messages it reassembles (DataInv), the control frames it gets  *)
(* (CtrlInv), and what the getters report (GettersInv).  It has            *)
(*   - lemmas about Receive, Sort and TotalLength, folded along a sequence;*)
(*   - what wslay_frame_send adds to the wire (FrameSync, CallWrites);     *)
(*   - what is on the wire, in omsg and in the queues of the messages that *)
(*     were accepted (Sending, Waiting, CtrlSending, CtrlWaiting), and what*)
(*     a frame, a message taken or a message accepted does to that;        *)
(*   - the two halves of an iteration (SelectionCases, IterationLemma);    *)
(*   - the three invariants, step by step.                                 *)
(*                                                                         *)
(* The lemmas on induction along a sequence are those of Utf8Proofs.       *)
(***************************************************************************)
EXTENDS PeerView, FrameSendProofs, Utf8Proofs

-----------------------------------------------------------------------------
(* Selecting a message *)

(* What wslay_event_send_ctrl_queue_pop takes: a control message, and the  *)
(* Close if one is queued; it drops nothing otherwise.                     *)
LEMMA PopLemma ==
    ASSUME send_ctrl_queue \in Seq(OMsg), send_ctrl_queue # << >>,
           \A i \in 1..Len(send_ctrl_queue) : IsControlItem(send_ctrl_queue[i]),
           "QUEUED" \in close_status =>
               \E i \in 1..Len(send_ctrl_queue) : IsClose(send_ctrl_queue[i])
    PROVE  LET pop == wslay_event_send_ctrl_queue_pop
           IN  /\ pop.msg \in OMsg
               /\ IsControlItem(pop.msg)
               /\ pop.rest \in Seq(OMsg)
               /\ \A i \in 1..Len(pop.rest) : IsControlItem(pop.rest[i])
               /\ Len(pop.rest) + 1 <= Len(send_ctrl_queue)
               /\ "QUEUED" \notin close_status =>
                      Len(pop.rest) + 1 = Len(send_ctrl_queue)
               /\ "QUEUED" \in close_status => IsClose(pop.msg)
<1> DEFINE q   == send_ctrl_queue
           pop == wslay_event_send_ctrl_queue_pop
<1>1. CASE "QUEUED" \notin close_status
  <2>1. pop.msg = Head(q) /\ pop.rest = Tail(q)
    BY <1>1 DEF wslay_event_send_ctrl_queue_pop
  <2>2. /\ Head(q) \in OMsg /\ Tail(q) \in Seq(OMsg)
        /\ Len(Tail(q)) = Len(q) - 1 /\ Head(q) = q[1] /\ Len(q) \in Nat
        /\ \A i \in 1..Len(Tail(q)) : Tail(q)[i] = q[i + 1]
    BY HeadTailProperties
  <2>3. Len(q) >= 1
    BY <2>2, EmptySeq
  <2>4. IsControlItem(q[1]) /\ \A i \in 1..Len(Tail(q)) : IsControlItem(q[i + 1])
    BY <2>2, <2>3
  <2> QED  BY <1>1, <2>1, <2>2, <2>4
<1>2. CASE "QUEUED" \in close_status
  <2> DEFINE T == { i \in 1..Len(q) : q[i].opcode = WSLAY_CONNECTION_CLOSE }
             F(i) == /\ q[i].opcode = WSLAY_CONNECTION_CLOSE
                     /\ \A j \in 1..(i - 1) : q[j].opcode # WSLAY_CONNECTION_CLOSE
             k == CHOOSE i \in 1..Len(q) : F(i)
  <2>1. T # {} /\ T \in SUBSET Nat /\ Len(q) \in Nat
    BY <1>2 DEF IsClose
  <2>2. PICK x \in T : \A y \in T : x <= y
    <3> HIDE DEF T
    <3> QED  BY <2>1, LeastNat
  <2>3. x \in 1..Len(q) /\ F(x)
    BY <2>1, <2>2
  <2>4. k \in 1..Len(q) /\ F(k)
    <3> HIDE DEF F
    <3> QED  BY <2>3
  <2>5. pop = [ msg |-> q[k], rest |-> SubSeq(q, k + 1, Len(q)) ]
    BY <1>2, <2>3 DEF wslay_event_send_ctrl_queue_pop
  <2> HIDE DEF k
  <2>6. pop.msg = q[k] /\ pop.rest = SubSeq(q, k + 1, Len(q))
    BY <2>5
  <2>7. \A i \in (k + 1)..Len(q) : q[i] \in OMsg
    BY <2>4
  <2>8. /\ SubSeq(q, k + 1, Len(q)) \in Seq(OMsg)
        /\ Len(SubSeq(q, k + 1, Len(q))) =
             IF k + 1 <= Len(q) THEN Len(q) - (k + 1) + 1 ELSE 0
        /\ \A i \in 1..(Len(q) - (k + 1) + 1) :
             SubSeq(q, k + 1, Len(q))[i] = q[(k + 1) + i - 1]
    <3>1. k + 1 \in Int /\ Len(q) \in Int
      BY <2>1, <2>4
    <3> QED  BY <2>7, <3>1, SubSeqProperties
  <2>9. Len(pop.rest) = Len(q) - k
    BY <2>1, <2>4, <2>6, <2>8
  <2>10. \A i \in 1..Len(pop.rest) : IsControlItem(pop.rest[i])
    <3> SUFFICES ASSUME NEW i \in 1..Len(pop.rest)
                 PROVE  IsControlItem(pop.rest[i])
      OBVIOUS
    <3>1. i \in 1..(Len(q) - (k + 1) + 1) /\ (k + 1) + i - 1 \in 1..Len(q)
      BY <2>1, <2>4, <2>9
    <3>2. pop.rest[i] = q[(k + 1) + i - 1]
      BY <2>6, <2>8, <3>1
    <3> QED  BY <3>1, <3>2
  <2>11. pop.msg \in OMsg /\ IsControlItem(pop.msg) /\ IsClose(pop.msg)
    BY <2>4, <2>6 DEF IsControlItem, IsClose
  <2> QED  BY <1>2, <2>1, <2>4, <2>6, <2>8, <2>9, <2>10, <2>11
<1> QED  BY <1>1, <1>2
(* The inductive invariant.                                                *)
IInv ==
    /\ TypeOK
    /\ HeaderIncomplete(frame_ctx)
    /\ LayersInSync
    /\ QueuesWellFormed
    /\ CloseIsLast
    /\ CloseNotLost
    /\ CountInv

Selection == [ omsg : OMsg, send_queue : Seq(OMsg), send_ctrl_queue : Seq(OMsg),
               opayloadlen : Nat, opayloadoff : Nat ]

(* What the second half of an iteration may rely on, s being selected.     *)
SelectionOK(s) ==
    /\ s \in Selection
    /\ \A i \in 1..Len(s.send_ctrl_queue) : IsControlItem(s.send_ctrl_queue[i])
    /\ \A i \in 1..Len(s.send_queue) : IsDataItem(s.send_queue[i])
    /\ IsCurrentItem(s.omsg)
    /\ s.omsg.type # "NULL"
    /\ queued_msg_count >= Len(s.send_queue) + Len(s.send_ctrl_queue) + 1
    /\ ~(IsClose(s.omsg) \/ "SENT" \in close_status) =>
          queued_msg_count = Len(s.send_queue) + Len(s.send_ctrl_queue) + 1
    /\ "QUEUED" \in close_status =>
          \/ IsClose(s.omsg)
          \/ /\ frame_ctx.ostate # "PREP_HEADER"
             /\ omsg # NoMsg
             /\ \E i \in 1..Len(s.send_ctrl_queue) : IsClose(s.send_ctrl_queue[i])
    /\ \A i \in 1..Len(wire) :
          wire[i].header.opcode = WSLAY_CONNECTION_CLOSE =>
            i = Len(wire) /\ IsClose(s.omsg) /\ IsUnderWay(frame_ctx)

(* The frame under way, if there is one, is a frame of the message in s.   *)
HeaderMatches(s) ==
    frame_ctx.ostate # "PREP_HEADER" =>
        /\ frame_ctx.oheader = [ fin |-> s.omsg.fin, opcode |-> s.omsg.opcode,
                                 mask |-> ~Server, payload_length |-> s.opayloadlen ]
        /\ frame_ctx.opayloadlen = s.opayloadlen

NonFragmentedReady(s) ==
    /\ HeaderMatches(s)
    /\ obuf = << >>
    /\ s.opayloadlen = Len(s.omsg.data)
    /\ s.opayloadoff = FrameOffset(frame_ctx)
    /\ s.opayloadoff <= s.opayloadlen

FragmentedReady(s) ==
    /\ HeaderMatches(s)
    /\ IF frame_ctx.ostate = "PREP_HEADER"
       THEN obuf = << >> /\ ~s.omsg.fin
       ELSE obuf # << >> /\ frame_ctx.opayloadoff + Len(obuf) = s.opayloadlen

Ready(s) ==
    /\ SelectionOK(s)
    /\ s.omsg.type = "NON_FRAGMENTED" => NonFragmentedReady(s)
    /\ s.omsg.type = "FRAGMENTED" => FragmentedReady(s)

(* A message that was just taken from a queue, between two frames.         *)
LEMMA PoppedLemma ==
    ASSUME TypeOK, NEW msg \in OMsg, NEW sq \in Seq(OMsg), NEW cq \in Seq(OMsg)
    PROVE  LET s == Popped(msg, sq, cq)
           IN  /\ s \in Selection
               /\ s.omsg = msg /\ s.send_queue = sq /\ s.send_ctrl_queue = cq
               /\ msg.type = "NON_FRAGMENTED" =>
                    s.opayloadlen = Len(msg.data) /\ s.opayloadoff = 0
<1> DEFINE len == IF msg.type = "NON_FRAGMENTED" THEN Len(msg.data) ELSE opayloadlen
           off == IF msg.type = "NON_FRAGMENTED" THEN 0 ELSE opayloadoff
<1>1. len \in Nat /\ off \in Nat
  <2>1. msg.data \in Seq(Byte)
    BY DEF OMsg
  <2>2. Len(msg.data) \in Nat
    BY <2>1
  <2> QED  BY <2>2 DEF TypeOK
<1>2. Popped(msg, sq, cq) =
        [ omsg |-> msg, send_queue |-> sq, send_ctrl_queue |-> cq,
          opayloadlen |-> len, opayloadoff |-> off ]
  BY DEF Popped
<1>3. msg.type = "NON_FRAGMENTED" => len = Len(msg.data) /\ off = 0
  OBVIOUS
<1> HIDE DEF len, off
<1> QED  BY <1>1, <1>2, <1>3 DEF Selection

(* A selection made between two frames is ready.                           *)
LEMMA FreshLemma ==
    ASSUME IInv, write_enabled, frame_ctx.ostate = "PREP_HEADER",
           NEW s, s \in Selection, s.omsg.type # "NULL",
           s.omsg.type = "NON_FRAGMENTED" =>
               s.opayloadlen = Len(s.omsg.data) /\ s.opayloadoff = 0,
           s.omsg.type = "FRAGMENTED" => ~s.omsg.fin
    PROVE  /\ s.omsg.type = "NON_FRAGMENTED" => NonFragmentedReady(s)
           /\ s.omsg.type = "FRAGMENTED" => FragmentedReady(s)
           /\ \A i \in 1..Len(wire) :
                wire[i].header.opcode # WSLAY_CONNECTION_CLOSE
<1>1. obuf = << >>
  BY DEF IInv, LayersInSync, InSync
<1>2. HeaderMatches(s) /\ FrameOffset(frame_ctx) = 0
  BY DEF HeaderMatches, FrameOffset
<1>3. ASSUME s.omsg.type = "NON_FRAGMENTED"
      PROVE  NonFragmentedReady(s)
  <2>1. s.omsg.data \in Seq(Byte)
    BY DEF Selection, OMsg
  <2>2. Len(s.omsg.data) \in Nat
    BY <2>1
  <2> QED  BY <1>1, <1>2, <1>3, <2>2 DEF NonFragmentedReady
<1>4. ASSUME s.omsg.type = "FRAGMENTED"
      PROVE  FragmentedReady(s)
  BY <1>1, <1>2, <1>4 DEF FragmentedReady
<1>5. ~IsUnderWay(frame_ctx)
  BY DEF IsUnderWay
<1>6. \A i \in 1..Len(wire) : wire[i].header.opcode # WSLAY_CONNECTION_CLOSE
  BY <1>5 DEF IInv, CloseIsLast
<1> QED  BY <1>3, <1>4, <1>6
(* The parts of TypeOK, for the leaves that need a few of them.            *)
LEMMA TypeFacts ==
    ASSUME TypeOK
    PROVE  /\ write_enabled \in BOOLEAN /\ close_status \in SUBSET CloseStatus
           /\ error \in CallbackErrors
           /\ send_queue \in Seq(OMsg) /\ send_ctrl_queue \in Seq(OMsg)
           /\ queued_msg_count \in Int /\ queued_msg_length \in Int
           /\ ret \in Int /\ accepted \in Seq(OMsg)
           /\ frame_ctx \in FrameContext /\ wire \in Seq(WireFrame)
           /\ omsg \in OMsg /\ obuf \in Seq(Byte)
           /\ opayloadlen \in Nat /\ opayloadoff \in Nat
           /\ status_code_sent \in StatusCode
  BY Zenon DEF TypeOK, QueueTypeOK, FrameTypeOK

(* A status code read from a Close frame fits its 16 bits.                 *)
LEMMA NtohsLemma ==
    ASSUME NEW d \in Seq(Byte), Len(d) >= 2
    PROVE  ntohs(d) \in StatusCode
<1>1. Len(d) \in Nat /\ 1 \in 1..Len(d) /\ 2 \in 1..Len(d)
  BY SMT
<1>2. d[1] \in Byte /\ d[2] \in Byte
  BY <1>1, SMT
<1>3. \A x \in Byte : x \in Int /\ x >= 0 /\ x <= 255
  BY SMT DEF Byte
<1>4. UINT16_MAX \in Int
  BY DEF UINT16_MAX
<1>5. \A n \in Int : n >= 0 /\ n <= UINT16_MAX => n \in StatusCode
  BY <1>4 DEF StatusCode
<1>6. \A x, y \in Byte : 256 * x + y \in StatusCode
  <2> SUFFICES ASSUME NEW x \in Byte, NEW y \in Byte
               PROVE  256 * x + y \in StatusCode
    OBVIOUS
  <2> DEFINE n == 256 * x + y
  <2>1. x \in Int /\ x >= 0 /\ x <= 255 /\ y \in Int /\ y >= 0 /\ y <= 255
    BY ONLY x \in Byte, y \in Byte, <1>3
  <2>2. n \in Int /\ n >= 0 /\ n <= UINT16_MAX
    BY ONLY <2>1, SMT DEF UINT16_MAX
  <2> HIDE DEF n
  <2>3. n \in StatusCode
    BY ONLY <2>2, <1>5
  <2> QED  BY ONLY <2>3 DEF n
<1>7. 256 * d[1] + d[2] \in StatusCode
  BY ONLY <1>2, <1>6
<1> QED  BY ONLY <1>7 DEF ntohs

(* The facts an iteration begins with.                                     *)
LEMMA WantWriteLemma ==
    ASSUME IInv, wslay_event_want_write
    PROVE  /\ write_enabled /\ TypeOK
           /\ send_queue \in Seq(OMsg) /\ send_ctrl_queue \in Seq(OMsg)
           /\ omsg \in OMsg /\ queued_msg_count \in Int
           /\ Len(send_queue) \in Nat /\ Len(send_ctrl_queue) \in Nat
<1>1. TypeOK
  BY DEF IInv
<1>2. /\ send_queue \in Seq(OMsg) /\ send_ctrl_queue \in Seq(OMsg)
      /\ omsg \in OMsg /\ queued_msg_count \in Int
  BY <1>1 DEF TypeOK, QueueTypeOK
<1>3. write_enabled
  BY DEF wslay_event_want_write
<1> QED  BY <1>1, <1>2, <1>3

(* The three ways of selecting (event.c 532-558): the head of send_queue,  *)
(* a control message, or the message already being sent.                   *)
LEMMA SelectDataLemma ==
    ASSUME IInv, wslay_event_want_write, omsg = NoMsg, send_ctrl_queue = << >>
    PROVE  Ready(Selected)
<1> DEFINE hd == Head(send_queue)
           tl == Tail(send_queue)
           s  == Popped(hd, tl, send_ctrl_queue)
<1>1. /\ write_enabled /\ send_queue # << >> /\ send_queue \in Seq(OMsg)
      /\ send_ctrl_queue \in Seq(OMsg) /\ TypeOK
  BY WantWriteLemma DEF wslay_event_want_write, IInv
<1>2. /\ hd \in OMsg /\ tl \in Seq(OMsg)
      /\ hd = send_queue[1]
      /\ Len(tl) = Len(send_queue) - 1 /\ Len(send_queue) \in Nat
      /\ \A i \in 1..Len(tl) : tl[i] = send_queue[i + 1]
  BY <1>1, HeadTailProperties
<1>3. Len(send_queue) >= 1
  BY <1>1, <1>2, EmptySeq
<1>4. /\ IsDataItem(hd)
      /\ \A i \in 1..Len(tl) : IsDataItem(tl[i])
  BY <1>2, <1>3 DEF IInv, QueuesWellFormed
<1>5. /\ s \in Selection
      /\ s.omsg = hd /\ s.send_queue = tl
      /\ s.send_ctrl_queue = send_ctrl_queue
      /\ hd.type = "NON_FRAGMENTED" =>
           s.opayloadlen = Len(hd.data) /\ s.opayloadoff = 0
  <2> HIDE DEF hd, tl
  <2>1. TypeOK /\ hd \in OMsg /\ tl \in Seq(OMsg) /\ send_ctrl_queue \in Seq(OMsg)
    BY <1>1, <1>2
  <2> QED  BY ONLY <2>1, PoppedLemma
<1>6. frame_ctx.ostate = "PREP_HEADER"
  BY <1>1 DEF IInv, LayersInSync, InSync, NoMsg
<1>7. Selected = s
  BY DEF Selected
<1> HIDE DEF s, hd, tl
<1>8. /\ s.omsg.type # "NULL"
      /\ s.omsg.type = "FRAGMENTED" => ~s.omsg.fin
      /\ IsCurrentItem(s.omsg)
  BY <1>4, <1>5 DEF IsDataItem, IsCurrentItem
<1>9. /\ s.omsg.type = "NON_FRAGMENTED" => NonFragmentedReady(s)
      /\ s.omsg.type = "FRAGMENTED" => FragmentedReady(s)
      /\ \A i \in 1..Len(wire) : wire[i].header.opcode # WSLAY_CONNECTION_CLOSE
  BY <1>1, <1>5, <1>6, <1>8, FreshLemma
<1>10. "QUEUED" \notin close_status
  <2>1. ~IsClose(NoMsg) /\ Len(send_ctrl_queue) = 0
    BY DEF IsClose, NoMsg
  <2> QED  BY <1>1, <2>1 DEF IInv, CloseNotLost
<1>11. /\ queued_msg_count >= Len(s.send_queue) + Len(s.send_ctrl_queue) + 1
       /\ ~(IsClose(s.omsg) \/ "SENT" \in close_status) =>
            queued_msg_count = Len(s.send_queue) + Len(s.send_ctrl_queue) + 1
  <2>1. ~IsClose(omsg) /\ Len(send_ctrl_queue) = 0
    BY DEF IsClose, NoMsg
  <2>2. Pending = Len(send_queue)
    BY <1>2, <2>1 DEF Pending
  <2>3. queued_msg_count \in Int
    BY <1>1 DEF TypeOK, QueueTypeOK
  <2> QED  BY <1>2, <1>5, <2>1, <2>2, <2>3 DEF IInv, CountInv
<1>12. SelectionOK(s)
  <2>1. \A i \in 1..Len(s.send_ctrl_queue) : IsControlItem(s.send_ctrl_queue[i])
    BY <1>5
  <2> QED  BY <1>4, <1>5, <1>8, <1>9, <1>10, <1>11, <2>1 DEF SelectionOK
<1> QED  BY <1>7, <1>9, <1>12 DEF Ready

(* A control message is selected, the message under way going back to its  *)
(* queue if it was preempted.                                              *)
LEMMA SelectControlLemma ==
    ASSUME IInv, wslay_event_want_write, send_ctrl_queue # << >>,
           omsg = NoMsg \/ IsPreempted
    PROVE  Ready(Selected)
<1> DEFINE pop == wslay_event_send_ctrl_queue_pop
           sq  == IF IsPreempted THEN << omsg >> \o send_queue ELSE send_queue
           s   == Popped(pop.msg, sq, pop.rest)
<1>1. /\ write_enabled /\ send_queue \in Seq(OMsg) /\ send_ctrl_queue \in Seq(OMsg)
      /\ omsg \in OMsg /\ TypeOK /\ queued_msg_count \in Int
      /\ Len(send_queue) \in Nat /\ Len(send_ctrl_queue) \in Nat
  BY WantWriteLemma
<1>2. frame_ctx.ostate = "PREP_HEADER"
  BY <1>1 DEF IInv, LayersInSync, InSync, NoMsg, IsPreempted
<1>3. ~IsClose(omsg)
  BY DEF IsClose, NoMsg, IsPreempted, wslay_is_ctrl_frame, WSLAY_CONNECTION_CLOSE
<1>4. "QUEUED" \in close_status =>
        \E i \in 1..Len(send_ctrl_queue) : IsClose(send_ctrl_queue[i])
  BY <1>1, <1>3 DEF IInv, CloseNotLost
<1>5. \A i \in 1..Len(send_ctrl_queue) : IsControlItem(send_ctrl_queue[i])
  BY DEF IInv, QueuesWellFormed
<1>6. /\ pop.msg \in OMsg
      /\ IsControlItem(pop.msg)
      /\ pop.rest \in Seq(OMsg)
      /\ \A i \in 1..Len(pop.rest) : IsControlItem(pop.rest[i])
      /\ Len(pop.rest) + 1 <= Len(send_ctrl_queue)
      /\ "QUEUED" \notin close_status => Len(pop.rest) + 1 = Len(send_ctrl_queue)
      /\ "QUEUED" \in close_status => IsClose(pop.msg)
  BY <1>1, <1>4, <1>5, PopLemma
<1>7. /\ sq \in Seq(OMsg)
      /\ \A i \in 1..Len(sq) : IsDataItem(sq[i])
      /\ Len(sq) = Len(send_queue) + (IF omsg = NoMsg THEN 0 ELSE 1)
  <2>1. CASE IsPreempted
    <3>1. IsDataItem(omsg) /\ omsg # NoMsg
      BY <1>1, <1>2, <2>1
      DEF IsPreempted, IInv, LayersInSync, InSync, QueuesWellFormed, IsCurrentItem,
          IsDataItem
    <3>2. << omsg >> \in Seq(OMsg) /\ Len(<< omsg >>) = 1 /\ << omsg >>[1] = omsg
      BY <1>1
    <3>3. /\ << omsg >> \o send_queue \in Seq(OMsg)
          /\ Len(<< omsg >> \o send_queue) = 1 + Len(send_queue)
          /\ \A i \in 1..(1 + Len(send_queue)) :
               (<< omsg >> \o send_queue)[i] =
                  IF i <= 1 THEN << omsg >>[i] ELSE send_queue[i - 1]
      BY <1>1, <3>2, ConcatProperties
    <3>4. \A i \in 1..Len(send_queue) : IsDataItem(send_queue[i])
      BY DEF IInv, QueuesWellFormed
    <3>5. ASSUME NEW i \in 1..(1 + Len(send_queue))
          PROVE  IsDataItem((<< omsg >> \o send_queue)[i])
      <4>1. CASE i = 1
        BY <3>1, <3>2, <3>3, <4>1
      <4>2. CASE i > 1
        <5>1. i - 1 \in 1..Len(send_queue) /\ ~(i <= 1)
          BY <1>1, <4>2
        <5>2. (<< omsg >> \o send_queue)[i] = send_queue[i - 1]
          BY <3>3, <5>1
        <5> QED  BY <3>4, <5>1, <5>2
      <4> QED  BY <1>1, <4>1, <4>2
    <3>6. sq = << omsg >> \o send_queue
      BY <2>1
    <3> HIDE DEF sq
    <3> QED  BY <3>1, <3>3, <3>5, <3>6
  <2>2. CASE ~IsPreempted
    <3>1. omsg = NoMsg /\ sq = send_queue
      BY <2>2
    <3> QED  BY <1>1, <3>1 DEF IInv, QueuesWellFormed
  <2> QED  BY <2>1, <2>2
<1>8. Selected = s
  BY DEF Selected
<1> HIDE DEF pop, sq
<1>9. /\ s \in Selection
      /\ s.omsg = pop.msg /\ s.send_queue = sq
      /\ s.send_ctrl_queue = pop.rest
      /\ pop.msg.type = "NON_FRAGMENTED" =>
           s.opayloadlen = Len(pop.msg.data) /\ s.opayloadoff = 0
  BY <1>1, <1>6, <1>7, PoppedLemma
<1> HIDE DEF s
<1>10. /\ s.omsg.type # "NULL"
       /\ s.omsg.type = "FRAGMENTED" => ~s.omsg.fin
       /\ IsCurrentItem(s.omsg)
  BY <1>6, <1>9 DEF IsControlItem, IsCurrentItem
<1>11. /\ s.omsg.type = "NON_FRAGMENTED" => NonFragmentedReady(s)
       /\ s.omsg.type = "FRAGMENTED" => FragmentedReady(s)
       /\ \A i \in 1..Len(wire) : wire[i].header.opcode # WSLAY_CONNECTION_CLOSE
  BY <1>1, <1>2, <1>9, <1>10, FreshLemma
<1>12. /\ queued_msg_count >= Len(s.send_queue) + Len(s.send_ctrl_queue) + 1
       /\ ~(IsClose(s.omsg) \/ "SENT" \in close_status) =>
            queued_msg_count = Len(s.send_queue) + Len(s.send_ctrl_queue) + 1
  <2>1. Pending = Len(sq) + Len(send_ctrl_queue)
    BY <1>1, <1>7, SMTT(40) DEF Pending
  <2>2. Len(sq) \in Nat /\ Len(pop.rest) \in Nat
    BY <1>6, <1>7
  <2>3. queued_msg_count >= Pending
    BY DEF IInv, CountInv
  <2>4. "SENT" \notin close_status => queued_msg_count = Pending
    BY <1>3 DEF IInv, CountInv
  <2>5. Len(send_ctrl_queue) \in Nat /\ queued_msg_count \in Int
    BY <1>1
  <2>6. /\ Len(pop.rest) + 1 <= Len(send_ctrl_queue)
        /\ ~IsClose(pop.msg) => Len(pop.rest) + 1 = Len(send_ctrl_queue)
    BY <1>6
  <2>7. s.omsg = pop.msg /\ s.send_queue = sq /\ s.send_ctrl_queue = pop.rest
    BY <1>9
  <2> QED  BY ONLY <2>1, <2>2, <2>3, <2>4, <2>5, <2>6, <2>7
<1>13. SelectionOK(s)
  BY <1>6, <1>7, <1>9, <1>10, <1>11, <1>12 DEF SelectionOK
<1> QED  BY <1>8, <1>11, <1>13 DEF Ready

(* The message under way stays selected.                                   *)
LEMMA SelectCurrentLemma ==
    ASSUME IInv, wslay_event_want_write, omsg # NoMsg, ~IsPreempted
    PROVE  Ready(Selected)
<1> DEFINE s == [ omsg |-> omsg, send_queue |-> send_queue,
                  send_ctrl_queue |-> send_ctrl_queue,
                  opayloadlen |-> opayloadlen, opayloadoff |-> opayloadoff ]
<1>1. /\ write_enabled /\ TypeOK /\ queued_msg_count \in Int
      /\ InSync(omsg, obuf, opayloadlen, opayloadoff, frame_ctx)
  BY WantWriteLemma DEF IInv, LayersInSync
<1>2. Selected = s
  BY DEF Selected
<1>3. /\ s \in Selection
      /\ s.omsg = omsg /\ s.send_queue = send_queue
      /\ s.send_ctrl_queue = send_ctrl_queue
      /\ s.opayloadlen = opayloadlen /\ s.opayloadoff = opayloadoff
  BY <1>1 DEF Selection, TypeOK, QueueTypeOK
<1> HIDE DEF s
<1>4. IsCurrentItem(omsg) /\ omsg.type # "NULL"
  BY DEF IInv, QueuesWellFormed, IsCurrentItem
<1>5. HeaderMatches(s)
  BY <1>1, <1>3 DEF HeaderMatches, InSync
<1>6. s.omsg.type = "NON_FRAGMENTED" => NonFragmentedReady(s)
  <2> SUFFICES ASSUME omsg.type = "NON_FRAGMENTED"
               PROVE  NonFragmentedReady(s)
    BY <1>3
  <2>1. frame_ctx.ostate # "PREP_HEADER"
    BY <1>1 DEF InSync
  <2>2. /\ obuf = << >> /\ opayloadlen = Len(omsg.data)
        /\ frame_ctx.opayloadoff = opayloadoff /\ opayloadoff <= opayloadlen
    BY <1>1, <2>1 DEF InSync
  <2> QED  BY <1>3, <1>5, <2>1, <2>2 DEF NonFragmentedReady, FrameOffset
<1>7. s.omsg.type = "FRAGMENTED" => FragmentedReady(s)
  BY <1>1, <1>3, <1>4, <1>5 DEF FragmentedReady, InSync
<1>8. "QUEUED" \in close_status =>
          \/ IsClose(omsg)
          \/ /\ frame_ctx.ostate # "PREP_HEADER"
             /\ omsg # NoMsg
             /\ \E i \in 1..Len(send_ctrl_queue) : IsClose(send_ctrl_queue[i])
  <2> SUFFICES ASSUME "QUEUED" \in close_status, ~IsClose(omsg)
               PROVE  /\ frame_ctx.ostate # "PREP_HEADER"
                      /\ \E i \in 1..Len(send_ctrl_queue) : IsClose(send_ctrl_queue[i])
    OBVIOUS
  <2>1. \E i \in 1..Len(send_ctrl_queue) : IsClose(send_ctrl_queue[i])
    BY <1>1 DEF IInv, CloseNotLost
  <2>2. send_ctrl_queue # << >>
    BY <2>1
  <2>3. frame_ctx.ostate = "PREP_HEADER" => ~wslay_is_ctrl_frame(omsg.opcode)
    BY <1>1, <1>4 DEF InSync, IsCurrentItem
  <2> QED  BY <2>1, <2>2, <2>3 DEF IsPreempted
<1>9. /\ queued_msg_count >= Len(send_queue) + Len(send_ctrl_queue) + 1
      /\ ~(IsClose(omsg) \/ "SENT" \in close_status) =>
            queued_msg_count = Len(send_queue) + Len(send_ctrl_queue) + 1
  BY DEF IInv, CountInv, Pending
<1>10. \A i \in 1..Len(wire) :
          wire[i].header.opcode = WSLAY_CONNECTION_CLOSE =>
            i = Len(wire) /\ IsClose(omsg) /\ IsUnderWay(frame_ctx)
  BY <1>1 DEF IInv, CloseIsLast
<1>11. SelectionOK(s)
  <2>1. /\ \A i \in 1..Len(s.send_ctrl_queue) : IsControlItem(s.send_ctrl_queue[i])
        /\ \A i \in 1..Len(s.send_queue) : IsDataItem(s.send_queue[i])
    BY <1>3 DEF IInv, QueuesWellFormed
  <2> QED  BY <1>3, <1>4, <1>8, <1>9, <1>10, <2>1 DEF SelectionOK
<1> QED  BY <1>2, <1>6, <1>7, <1>11 DEF Ready

(* Whatever is selected is a message ready for the frame layer.            *)
LEMMA SelectedLemma ==
    ASSUME IInv, wslay_event_want_write
    PROVE  Ready(Selected)
<1>1. omsg = NoMsg \/ IsPreempted \/ (omsg # NoMsg /\ ~IsPreempted)
  OBVIOUS
<1>2. IsPreempted => send_ctrl_queue # << >>
  BY DEF IsPreempted
<1> QED  BY <1>1, <1>2, SelectDataLemma, SelectControlLemma, SelectCurrentLemma
-----------------------------------------------------------------------------
(* Sending a frame of the selected message *)

MsgHeader(s) == [ fin |-> s.omsg.fin, opcode |-> s.omsg.opcode, mask |-> ~Server,
                  payload_length |-> s.opayloadlen ]

(* What holds when an iteration calls wslay_frame_send with data, and buf  *)
(* is what it keeps in obuf.                                               *)
Calling(s, buf, data) ==
    /\ SelectionOK(s)
    /\ HeaderMatches(s)
    /\ data \in Seq(Byte)
    /\ FrameOffset(frame_ctx) + Len(data) = s.opayloadlen
    /\ IF s.omsg.type = "NON_FRAGMENTED"
       THEN /\ buf = << >>
            /\ s.opayloadlen = Len(s.omsg.data)
            /\ s.opayloadoff = FrameOffset(frame_ctx)
       ELSE buf = data /\ buf # << >>

CallEffect(s, data, o) ==
    Effect(MsgHeader(s), s.opayloadlen, FrameOffset(frame_ctx),
           IsUnderWay(frame_ctx), wire, data, o)

(* A call of wslay_frame_send with a frame of the selected message is      *)
(* never refused, and its outcome is one of those of Effect.               *)
LEMMA CallLemma ==
    ASSUME IInv, NEW s, NEW buf, NEW data, Calling(s, buf, data),
           NEW o \in wslay_frame_send(frame_ctx, wire,
                        Iocb(s.omsg.fin, s.omsg.opcode, ~Server, s.opayloadlen, data))
    PROVE  CallEffect(s, data, o)
<1> DEFINE iocb == Iocb(s.omsg.fin, s.omsg.opcode, ~Server, s.opayloadlen, data)
<1>1. /\ frame_ctx \in FrameContext /\ wire \in Seq(WireFrame)
      /\ HeaderIncomplete(frame_ctx)
  BY DEF IInv, TypeOK, FrameTypeOK
<1>2. s.omsg.fin \in BOOLEAN /\ s.omsg.opcode \in Opcodes /\ s.opayloadlen \in Nat
  BY DEF Calling, SelectionOK, Selection, OMsg
<1>3. (~Server) \in BOOLEAN
  OBVIOUS
<1>4. iocb \in IocbType /\ iocb.data = data
  BY <1>2, <1>3 DEF Iocb, IocbType, Calling
<1>5. /\ iocb.fin = s.omsg.fin /\ iocb.opcode = s.omsg.opcode
      /\ iocb.mask = (~Server) /\ iocb.payload_length = s.opayloadlen
  BY DEF Iocb
<1> HIDE DEF iocb
<1>6. Effect(FrameHeader(frame_ctx, iocb), FrameLength(frame_ctx, iocb),
             FrameOffset(frame_ctx), IsUnderWay(frame_ctx), wire, iocb.data, o)
  <2>1. o \in wslay_frame_send(frame_ctx, wire, iocb)
    BY DEF iocb
  <2> QED  BY <1>1, <1>4, <2>1, FrameSendLemma
<1>7. FrameHeader(frame_ctx, iocb) = MsgHeader(s)
  BY <1>5 DEF FrameHeader, MsgHeader, Calling, HeaderMatches
<1>8. FrameLength(frame_ctx, iocb) = s.opayloadlen
  BY <1>5 DEF FrameLength, Calling, HeaderMatches
<1> QED  BY <1>4, <1>6, <1>7, <1>8 DEF CallEffect

(* A Close on the wire after the call is its last frame, and the message   *)
(* being sent; if the call must be repeated, the frame is under way.       *)
LEMMA WireLemma ==
    ASSUME NEW s, NEW data, NEW o, SelectionOK(s), CallEffect(s, data, o),
           wire \in Seq(WireFrame),
           NEW i \in 1..Len(o.wire),
           o.wire[i].header.opcode = WSLAY_CONNECTION_CLOSE
    PROVE  /\ i = Len(o.wire)
           /\ IsClose(s.omsg)
           /\ o.result = WSLAY_ERR_WANT_WRITE => IsUnderWay(o.fc)
<1>1. /\ \/ SameFrames(wire, o.wire)
         \/ ~IsUnderWay(frame_ctx) /\ OneMoreFrame(wire, o.wire, MsgHeader(s))
      /\ o.result = WSLAY_ERR_WANT_WRITE =>
           IsUnderWay(o.fc) \/ (~IsUnderWay(frame_ctx) /\ SameFrames(wire, o.wire))
      /\ o.wire \in Seq(WireFrame)
  BY DEF CallEffect, Effect, WSLAY_ERR_WANT_WRITE, WSLAY_ERR_INVALID_CALLBACK,
         WSLAY_ERR_INVALID_ARGUMENT
<1>2. \A j \in 1..Len(wire) :
        wire[j].header.opcode = WSLAY_CONNECTION_CLOSE =>
          j = Len(wire) /\ IsClose(s.omsg) /\ IsUnderWay(frame_ctx)
  BY DEF SelectionOK
<1>3. Len(wire) \in Nat /\ Len(o.wire) \in Nat
  BY <1>1
<1>4. CASE SameFrames(wire, o.wire)
  <2>1. Len(o.wire) = Len(wire) /\ o.wire[i].header = wire[i].header
    BY <1>4 DEF SameFrames
  <2> QED  BY <1>1, <1>2, <2>1
<1>5. CASE ~IsUnderWay(frame_ctx) /\ OneMoreFrame(wire, o.wire, MsgHeader(s))
  <2>1. /\ Len(o.wire) = Len(wire) + 1
        /\ \A j \in 1..Len(wire) : o.wire[j].header = wire[j].header
        /\ o.wire[Len(o.wire)].header = MsgHeader(s)
    BY <1>5 DEF OneMoreFrame
  <2>2. i \notin 1..Len(wire)
    BY <1>2, <1>5, <2>1
  <2>3. i = Len(o.wire)
    BY <1>3, <2>1, <2>2
  <2>4. s.omsg.opcode = WSLAY_CONNECTION_CLOSE
    BY <2>1, <2>3 DEF MsgHeader
  <2>5. IsClose(s.omsg)
    BY <2>4 DEF IsClose, SelectionOK
  <2>6. ~SameFrames(wire, o.wire)
    BY <1>3, <2>1 DEF SameFrames
  <2> QED  BY <1>1, <2>3, <2>5, <2>6
<1> QED  BY <1>1, <1>4, <1>5
(* The variables every ending sets alike have their types.                 *)
LEMMA KeepLemma ==
    ASSUME IInv, NEW s, NEW data, NEW o, SelectionOK(s), CallEffect(s, data, o),
           Keep(s, o)
    PROVE  /\ send_queue' \in Seq(OMsg) /\ send_ctrl_queue' \in Seq(OMsg)
           /\ opayloadlen' \in Nat
           /\ frame_ctx' \in FrameContext /\ wire' \in Seq(WireFrame)
           /\ HeaderIncomplete(frame_ctx')
           /\ error' \in CallbackErrors
           /\ accepted' \in Seq(OMsg)
<1>1. s \in Selection
  BY DEF SelectionOK
<1>2. /\ s.send_queue \in Seq(OMsg) /\ s.send_ctrl_queue \in Seq(OMsg)
      /\ s.opayloadlen \in Nat
  BY <1>1 DEF Selection
<1>3. o.fc \in FrameContext /\ o.wire \in Seq(WireFrame) /\ HeaderIncomplete(o.fc)
  BY DEF CallEffect, Effect
<1>4. error \in CallbackErrors /\ accepted \in Seq(OMsg)
  BY DEF IInv, TypeOK, QueueTypeOK
<1>5. error' \in CallbackErrors
  BY <1>4 DEF Keep, CallbackErrors
<1> QED  BY <1>2, <1>3, <1>4, <1>5 DEF Keep

(* An iteration that leaves a message to be sent.                          *)
LEMMA ContinueLemma ==
    ASSUME IInv, NEW s, NEW data, NEW o, SelectionOK(s), CallEffect(s, data, o),
           Keep(s, o),
           NEW msg \in OMsg, IsCurrentItem(msg), msg.type # "NULL",
           IsClose(msg) <=> IsClose(s.omsg),
           omsg' = msg, obuf' \in Seq(Byte), opayloadoff' \in Nat, ret' \in Int,
           write_enabled' \in BOOLEAN,
           write_enabled' =>
               /\ InSync(msg, obuf', opayloadlen', opayloadoff', frame_ctx')
               /\ o.result # 0 => o.result = WSLAY_ERR_WANT_WRITE
               /\ o.result = 0 /\ IsClose(msg) => IsUnderWay(frame_ctx'),
           UNCHANGED << close_status, status_code_sent,
                        queued_msg_count, queued_msg_length >>
    PROVE  IInv'
<1>1. /\ send_queue' = s.send_queue /\ send_ctrl_queue' = s.send_ctrl_queue
      /\ opayloadlen' = s.opayloadlen /\ frame_ctx' = o.fc /\ wire' = o.wire
  BY DEF Keep
<1>2. /\ send_queue' \in Seq(OMsg) /\ send_ctrl_queue' \in Seq(OMsg)
      /\ opayloadlen' \in Nat
      /\ frame_ctx' \in FrameContext /\ wire' \in Seq(WireFrame)
      /\ HeaderIncomplete(frame_ctx')
      /\ error' \in CallbackErrors
      /\ accepted' \in Seq(OMsg)
  BY KeepLemma
<1>3. TypeOK'
  <2>1. /\ close_status' = close_status /\ status_code_sent' = status_code_sent
        /\ queued_msg_count' = queued_msg_count
        /\ queued_msg_length' = queued_msg_length
    OBVIOUS
  <2>2. /\ close_status' \in SUBSET CloseStatus
        /\ queued_msg_count' \in Int /\ queued_msg_length' \in Int
        /\ status_code_sent' \in StatusCode
    BY <2>1, TypeFacts, Zenon DEF IInv
  <2>3. omsg' \in OMsg
    OBVIOUS
  <2> QED  BY <1>2, <2>2, <2>3, Zenon DEF TypeOK, QueueTypeOK, FrameTypeOK
<1>4. LayersInSync'
  BY DEF LayersInSync
<1>5. QueuesWellFormed'
  BY <1>1 DEF QueuesWellFormed, SelectionOK
<1>6. CloseIsLast'
  <2> SUFFICES ASSUME NEW i \in 1..Len(wire'),
                      wire'[i].header.opcode = WSLAY_CONNECTION_CLOSE
               PROVE  /\ i = Len(wire')
                      /\ write_enabled' => IsClose(omsg') /\ IsUnderWay(frame_ctx')
    BY DEF CloseIsLast
  <2>1. wire \in Seq(WireFrame)
    BY DEF IInv, TypeOK, FrameTypeOK
  <2>2. /\ i = Len(o.wire)
        /\ IsClose(s.omsg)
        /\ o.result = WSLAY_ERR_WANT_WRITE => IsUnderWay(o.fc)
    BY <1>1, <2>1, WireLemma
  <2> QED  BY <1>1, <2>2
<1>7. CloseNotLost'
  BY <1>1 DEF CloseNotLost, SelectionOK
<1>8. CountInv'
  <2>1. omsg' # NoMsg
    BY DEF NoMsg
  <2>2. Pending' = Len(s.send_queue) + Len(s.send_ctrl_queue) + 1
    BY <1>1, <2>1 DEF Pending
  <2>3. queued_msg_count' = queued_msg_count /\ close_status' = close_status
    OBVIOUS
  <2>4. IsClose(omsg)' <=> IsClose(s.omsg)
    BY DEF IsClose
  <2> QED  BY <2>2, <2>3, <2>4 DEF CountInv, SelectionOK
<1> QED  BY <1>2, <1>3, <1>4, <1>5, <1>6, <1>7, <1>8 DEF IInv

(* An iteration that completes a message (SentWhole).                      *)
LEMMA WholeLemma ==
    ASSUME IInv, NEW s, NEW data, NEW o, SelectionOK(s), CallEffect(s, data, o),
           Keep(s, o), NEW off \in Nat, SentWhole(s, << >>, off),
           frame_ctx'.ostate = "PREP_HEADER", write_enabled
    PROVE  IInv'
<1>1. /\ send_queue' = s.send_queue /\ send_ctrl_queue' = s.send_ctrl_queue
      /\ opayloadlen' = s.opayloadlen /\ frame_ctx' = o.fc /\ wire' = o.wire
  BY DEF Keep
<1>2. /\ send_queue' \in Seq(OMsg) /\ send_ctrl_queue' \in Seq(OMsg)
      /\ opayloadlen' \in Nat
      /\ frame_ctx' \in FrameContext /\ wire' \in Seq(WireFrame)
      /\ HeaderIncomplete(frame_ctx')
      /\ error' \in CallbackErrors
      /\ accepted' \in Seq(OMsg)
  BY KeepLemma
<1>3. /\ omsg' = NoMsg /\ obuf' = << >> /\ opayloadoff' \in Nat /\ ret' = 0
      /\ queued_msg_count' = queued_msg_count - 1
      /\ queued_msg_length' = queued_msg_length - Len(s.omsg.data)
  BY DEF SentWhole
<1>4. /\ write_enabled \in BOOLEAN /\ close_status \in SUBSET CloseStatus
      /\ queued_msg_count \in Int /\ queued_msg_length \in Int
      /\ status_code_sent \in StatusCode
  BY TypeFacts, Zenon DEF IInv
<1>5. s.omsg.data \in Seq(Byte) /\ Len(s.omsg.data) \in Nat /\ s.omsg.type # "NULL"
  <2>1. s.omsg \in OMsg /\ s.omsg.type # "NULL"
    BY DEF SelectionOK, Selection
  <2>2. s.omsg.data \in Seq(Byte)
    BY <2>1 DEF OMsg
  <2> QED  BY <2>1, <2>2
<1>6. IF s.omsg.opcode = WSLAY_CONNECTION_CLOSE
      THEN write_enabled' = FALSE /\ close_status' = close_status \cup {"SENT"}
      ELSE write_enabled' = write_enabled /\ close_status' = close_status
  BY DEF SentWhole
<1>7. status_code_sent' \in StatusCode
  <2>1. \/ status_code_sent' = status_code_sent
        \/ status_code_sent' = WSLAY_CODE_NO_STATUS_RCVD
        \/ Len(s.omsg.data) >= 2 /\ status_code_sent' = ntohs(s.omsg.data)
    BY Zenon DEF SentWhole
  <2>2. Len(s.omsg.data) >= 2 => ntohs(s.omsg.data) \in StatusCode
    BY <1>5, NtohsLemma
  <2>3. WSLAY_CODE_NO_STATUS_RCVD \in StatusCode
    BY SMT DEF WSLAY_CODE_NO_STATUS_RCVD, StatusCode, UINT16_MAX
  <2> QED  BY <1>4, <2>1, <2>2, <2>3, Zenon
<1>8. TypeOK'
  <2>1. NoMsg \in OMsg /\ << >> \in Seq(Byte)
    BY DEF NoMsg, OMsg, MsgType, Opcodes, WSLAY_CONTINUATION_FRAME
  <2>2. write_enabled' \in BOOLEAN
    BY <1>4, <1>6, Zenon
  <2>3. close_status' \in SUBSET CloseStatus
    BY <1>4, <1>6 DEF CloseStatus
  <2>4. queued_msg_count' \in Int /\ queued_msg_length' \in Int
    BY <1>3, <1>4, <1>5
  <2>5. omsg' \in OMsg /\ obuf' \in Seq(Byte) /\ ret' \in Int
    BY <1>3, <2>1
  <2> QED  BY <1>2, <1>3, <1>7, <2>2, <2>3, <2>4, <2>5, Zenon
           DEF TypeOK, QueueTypeOK, FrameTypeOK
<1>9. LayersInSync'
  BY <1>3 DEF LayersInSync, InSync
<1>10. QueuesWellFormed'
  BY <1>1, <1>3 DEF QueuesWellFormed, SelectionOK, IsCurrentItem
<1>11. CloseIsLast'
  <2> SUFFICES ASSUME NEW i \in 1..Len(wire'),
                      wire'[i].header.opcode = WSLAY_CONNECTION_CLOSE
               PROVE  i = Len(wire') /\ ~write_enabled'
    BY DEF CloseIsLast
  <2>1. wire \in Seq(WireFrame)
    BY DEF IInv, TypeOK, FrameTypeOK
  <2>2. i = Len(o.wire) /\ IsClose(s.omsg)
    BY <1>1, <2>1, WireLemma
  <2> QED  BY <1>1, <1>6, <2>2 DEF IsClose
<1>12. CloseNotLost'
  <2> SUFFICES ASSUME write_enabled', "QUEUED" \in close_status'
               PROVE  \E i \in 1..Len(send_ctrl_queue') : IsClose(send_ctrl_queue'[i])
    BY DEF CloseNotLost
  <2>1. ~IsClose(s.omsg) /\ "QUEUED" \in close_status
    BY <1>6 DEF IsClose
  <2> QED  BY <1>1, <2>1 DEF SelectionOK
<1>13. CountInv'
  <2>1. Pending' = Len(s.send_queue) + Len(s.send_ctrl_queue)
    BY <1>1, <1>2, <1>3 DEF Pending
  <2>2. Pending' \in Int
    BY <1>1, <1>2, <2>1
  <2>3. IsClose(s.omsg) => "SENT" \in close_status'
    BY <1>6 DEF IsClose
  <2>4. "SENT" \in close_status => "SENT" \in close_status'
    BY <1>6
  <2>5. queued_msg_count >= Pending' + 1
    BY <2>1, <2>2, <1>1, <1>2 DEF SelectionOK
  <2>6. "SENT" \notin close_status' => queued_msg_count = Pending' + 1
    BY <2>1, <2>2, <2>3, <2>4 DEF SelectionOK
  <2>7. \A p \in Int :
          /\ queued_msg_count >= p + 1 => queued_msg_count - 1 >= p
          /\ queued_msg_count = p + 1 => queued_msg_count - 1 = p
    BY <1>4
  <2>8. queued_msg_count' >= Pending'
    BY <1>3, <2>2, <2>5, <2>7, Zenon
  <2>9. "SENT" \notin close_status' => queued_msg_count' = Pending'
    BY <1>3, <2>2, <2>6, <2>7, Zenon
  <2> QED  BY <2>8, <2>9, Zenon DEF CountInv
<1> QED  BY <1>2, <1>8, <1>9, <1>10, <1>11, <1>12, <1>13 DEF IInv
(* What a call is known to rely on, part by part.                          *)
LEMMA CallingFacts ==
    ASSUME IInv, NEW s, NEW buf, NEW data, Calling(s, buf, data)
    PROVE  /\ SelectionOK(s) /\ s.omsg \in OMsg /\ IsCurrentItem(s.omsg)
           /\ s.omsg.type \in {"NON_FRAGMENTED", "FRAGMENTED"}
           /\ s.opayloadlen \in Nat /\ s.opayloadoff \in Nat
           /\ buf \in Seq(Byte) /\ Len(data) \in Nat
           /\ FrameOffset(frame_ctx) \in Nat
<1>1. SelectionOK(s) /\ s \in Selection /\ IsCurrentItem(s.omsg) /\ s.omsg.type # "NULL"
  BY DEF Calling, SelectionOK
<1>2. s.omsg \in OMsg /\ s.opayloadlen \in Nat /\ s.opayloadoff \in Nat
  BY <1>1 DEF Selection
<1>3. s.omsg.type \in {"NON_FRAGMENTED", "FRAGMENTED"}
  BY <1>1, <1>2 DEF OMsg, MsgType
<1>4. data \in Seq(Byte) /\ Len(data) \in Nat
  <2>1. data \in Seq(Byte)
    BY DEF Calling
  <2> QED  BY <2>1
<1>5. buf \in Seq(Byte)
  <2>1. buf = << >> \/ buf = data
    BY DEF Calling
  <2>2. << >> \in Seq(Byte)
    OBVIOUS
  <2> QED  BY <1>4, <2>1, <2>2, Zenon
<1>6. FrameOffset(frame_ctx) \in Nat
  <2>1. frame_ctx \in FrameContext
    BY DEF IInv, TypeOK, FrameTypeOK
  <2> QED  BY <2>1 DEF FrameContext, FrameOffset
<1> QED  BY <1>1, <1>2, <1>3, <1>4, <1>5, <1>6

(* The call did not send: the layers still agree (NotSent).                *)
LEMMA NotSentLemma ==
    ASSUME IInv, write_enabled, NEW s, NEW buf, NEW data, NEW o,
           Calling(s, buf, data), CallEffect(s, data, o), Keep(s, o),
           o.result # 0, NotSent(s, buf, o.result)
    PROVE  IInv'
<1>1. /\ SelectionOK(s) /\ s.omsg \in OMsg /\ IsCurrentItem(s.omsg)
      /\ s.omsg.type \in {"NON_FRAGMENTED", "FRAGMENTED"}
      /\ s.opayloadlen \in Nat /\ s.opayloadoff \in Nat
      /\ buf \in Seq(Byte) /\ Len(data) \in Nat
      /\ FrameOffset(frame_ctx) \in Nat
  BY CallingFacts
<1>2. /\ omsg' = s.omsg /\ obuf' = buf /\ opayloadoff' = s.opayloadoff
      /\ close_status' = close_status /\ status_code_sent' = status_code_sent
      /\ queued_msg_count' = queued_msg_count
      /\ queued_msg_length' = queued_msg_length
  BY DEF NotSent
<1>3. \/ /\ write_enabled' = FALSE
         /\ ret' = WSLAY_ERR_CALLBACK_FAILURE
      \/ /\ write_enabled' = write_enabled /\ ret' = 0
         /\ o.result = WSLAY_ERR_WANT_WRITE
  <2> DEFINE fails == o.result # WSLAY_ERR_WANT_WRITE
                      \/ error' \notin {0, WSLAY_ERR_WOULDBLOCK}
  <2>1. IF fails THEN write_enabled' = FALSE /\ ret' = WSLAY_ERR_CALLBACK_FAILURE
                 ELSE write_enabled' = write_enabled /\ ret' = 0
    BY DEF NotSent
  <2>2. ~fails => o.result = WSLAY_ERR_WANT_WRITE
    OBVIOUS
  <2> HIDE DEF fails
  <2> QED  BY <2>1, <2>2, Zenon
<1>4. ret' \in Int
  <2>1. WSLAY_ERR_CALLBACK_FAILURE \in Int /\ 0 \in Int
    BY DEF WSLAY_ERR_CALLBACK_FAILURE
  <2> QED  BY <1>3, <2>1, Zenon
<1>5. write_enabled' \in BOOLEAN
  <2>1. write_enabled \in BOOLEAN
    BY TypeFacts, Zenon DEF IInv
  <2> QED  BY <1>3, <2>1, Zenon
<1>6. opayloadlen' = s.opayloadlen /\ frame_ctx' = o.fc
  BY DEF Keep
<1>7. ASSUME write_enabled'
      PROVE  /\ o.result = WSLAY_ERR_WANT_WRITE
             /\ InSync(s.omsg, buf, s.opayloadlen, s.opayloadoff, o.fc)
  <2>1. o.result = WSLAY_ERR_WANT_WRITE
    BY <1>3, <1>7
  <2>2. /\ o.fc.oheader = MsgHeader(s)
        /\ o.fc.opayloadlen = s.opayloadlen
        /\ o.fc.opayloadoff = FrameOffset(frame_ctx)
        /\ o.fc.ostate # "PREP_HEADER"
    BY <2>1 DEF CallEffect, Effect, WSLAY_ERR_WANT_WRITE,
                WSLAY_ERR_INVALID_CALLBACK, WSLAY_ERR_INVALID_ARGUMENT
  <2>3. CASE s.omsg.type = "NON_FRAGMENTED"
    <3>1. /\ buf = << >> /\ s.opayloadlen = Len(s.omsg.data)
          /\ s.opayloadoff = FrameOffset(frame_ctx)
          /\ FrameOffset(frame_ctx) + Len(data) = s.opayloadlen
      BY <2>3 DEF Calling
    <3>2. s.opayloadoff <= s.opayloadlen
      BY <1>1, <3>1
    <3> QED  BY <2>1, <2>2, <2>3, <3>1, <3>2 DEF InSync, MsgHeader
  <2>4. CASE s.omsg.type = "FRAGMENTED"
    <3>1. buf = data /\ buf # << >> /\ FrameOffset(frame_ctx) + Len(data) = s.opayloadlen
      BY <2>4 DEF Calling
    <3> QED  BY <2>1, <2>2, <2>4, <3>1 DEF InSync, MsgHeader
  <2> QED  BY <1>1, <2>3, <2>4
<1>8. write_enabled' =>
         /\ InSync(s.omsg, obuf', opayloadlen', opayloadoff', frame_ctx')
         /\ o.result # 0 => o.result = WSLAY_ERR_WANT_WRITE
         /\ o.result = 0 /\ IsClose(s.omsg) => IsUnderWay(frame_ctx')
  BY <1>2, <1>6, <1>7
<1>9. obuf' \in Seq(Byte) /\ opayloadoff' \in Nat
  BY <1>1, <1>2
<1>10. UNCHANGED << close_status, status_code_sent, queued_msg_count,
                    queued_msg_length >>
  BY <1>2
<1>11. s.omsg.type # "NULL"
  BY <1>1
<1> QED  BY <1>1, <1>2, <1>4, <1>5, <1>8, <1>9, <1>10, <1>11, ContinueLemma

(* The call sent something, and the message goes on (SentPartly).          *)
LEMMA PartlyLemma ==
    ASSUME IInv, write_enabled, NEW s, NEW buf, NEW data, NEW o,
           Calling(s, buf, data), CallEffect(s, data, o), Keep(s, o),
           o.result = 0,
           NEW t, t.omsg \in OMsg, IsCurrentItem(t.omsg), t.omsg.type # "NULL",
           IsClose(t.omsg) <=> IsClose(s.omsg),
           IsClose(s.omsg) => o.fc.ostate = "SEND_PAYLOAD",
           NEW rest \in Seq(Byte), NEW off \in Nat,
           InSync(t.omsg, rest, s.opayloadlen, off, o.fc),
           SentPartly(t, rest, off)
    PROVE  IInv'
<1>1. SelectionOK(s)
  BY DEF Calling
<1>2. /\ omsg' = t.omsg /\ obuf' = rest /\ opayloadoff' = off /\ ret' = 0
      /\ write_enabled' = write_enabled
  BY DEF SentPartly
<1>3. UNCHANGED << close_status, status_code_sent, queued_msg_count,
                   queued_msg_length >>
  BY DEF SentPartly
<1>4. write_enabled' \in BOOLEAN
  <2>1. write_enabled \in BOOLEAN
    BY TypeFacts, Zenon DEF IInv
  <2> QED  BY <1>2, <2>1, Zenon
<1>5. obuf' \in Seq(Byte) /\ opayloadoff' \in Nat /\ ret' \in Int
  BY <1>2
<1>6. opayloadlen' = s.opayloadlen /\ frame_ctx' = o.fc
  BY DEF Keep
<1>7. write_enabled' =>
         /\ InSync(t.omsg, obuf', opayloadlen', opayloadoff', frame_ctx')
         /\ o.result # 0 => o.result = WSLAY_ERR_WANT_WRITE
         /\ o.result = 0 /\ IsClose(t.omsg) => IsUnderWay(frame_ctx')
  BY <1>2, <1>6 DEF IsUnderWay
<1> QED  BY <1>1, <1>2, <1>3, <1>4, <1>5, <1>7, ContinueLemma
(* What wslay_frame_send is called with for a message that is not          *)
(* fragmented: the rest of it.                                             *)
LEMMA NonFragmentedCallLemma ==
    ASSUME IInv, NEW s, Ready(s), s.omsg.type = "NON_FRAGMENTED"
    PROVE  /\ Calling(s, << >>, SubSeq(s.omsg.data, s.opayloadoff + 1, s.opayloadlen))
           /\ s.omsg.fin = TRUE
<1> DEFINE data == SubSeq(s.omsg.data, s.opayloadoff + 1, s.opayloadlen)
<1>1. /\ SelectionOK(s) /\ NonFragmentedReady(s) /\ s.omsg \in OMsg
      /\ s.opayloadlen \in Nat /\ s.opayloadoff \in Nat
      /\ IsCurrentItem(s.omsg)
  BY DEF Ready, SelectionOK, Selection
<1>2. /\ HeaderMatches(s) /\ obuf = << >>
      /\ s.opayloadlen = Len(s.omsg.data)
      /\ s.opayloadoff = FrameOffset(frame_ctx)
      /\ s.opayloadoff <= s.opayloadlen
  BY <1>1 DEF NonFragmentedReady
<1>3. s.omsg.data \in Seq(Byte) /\ s.omsg.fin \in BOOLEAN
  BY <1>1 DEF OMsg
<1>4. s.omsg.fin = TRUE
  <2>1. s.omsg # NoMsg
    BY DEF NoMsg
  <2>2. s.omsg.fin
    BY <1>1, <2>1 DEF IsCurrentItem
  <2> QED  BY <1>3, <2>2
<1>5. data \in Seq(Byte) /\ s.opayloadoff + Len(data) = s.opayloadlen
  <2>1. \A i \in (s.opayloadoff + 1)..s.opayloadlen : s.omsg.data[i] \in Byte
    BY <1>1, <1>2, <1>3
  <2>2. s.opayloadoff + 1 \in Int /\ s.opayloadlen \in Int
    BY <1>1
  <2>3. /\ data \in Seq(Byte)
        /\ Len(data) = IF s.opayloadoff + 1 <= s.opayloadlen
                       THEN s.opayloadlen - (s.opayloadoff + 1) + 1 ELSE 0
    BY <2>1, <2>2, SubSeqProperties
  <2> HIDE DEF data
  <2> QED  BY <1>1, <1>2, <2>3, SMTT(40)
<1> HIDE DEF data
<1>6. Calling(s, << >>, data)
  BY <1>1, <1>2, <1>5 DEF Calling
<1> QED  BY <1>4, <1>6 DEF data

(* The iteration for a message that is not fragmented (event.c 559-596).   *)
LEMMA SendNonFragmentedLemma ==
    ASSUME IInv, write_enabled, NEW s, Ready(s),
           s.omsg.type = "NON_FRAGMENTED", SendNonFragmented(s)
    PROVE  IInv'
<1> DEFINE data == SubSeq(s.omsg.data, s.opayloadoff + 1, s.opayloadlen)
<1>1. /\ SelectionOK(s) /\ NonFragmentedReady(s) /\ s.omsg \in OMsg
      /\ s.opayloadlen \in Nat /\ s.opayloadoff \in Nat
      /\ IsCurrentItem(s.omsg)
  BY DEF Ready, SelectionOK, Selection
<1>2. /\ obuf = << >>
      /\ s.opayloadlen = Len(s.omsg.data)
      /\ s.opayloadoff = FrameOffset(frame_ctx)
  BY <1>1 DEF NonFragmentedReady
<1>3. Calling(s, << >>, data) /\ s.omsg.fin = TRUE
  BY NonFragmentedCallLemma
<1> HIDE DEF data
<1>4. s.omsg.fin = TRUE
  BY <1>3
<1>5. s.opayloadoff + Len(data) = s.opayloadlen /\ Len(data) \in Nat
  <2>1. data \in Seq(Byte)
    BY <1>3 DEF Calling
  <2> QED  BY <1>2, <1>3, <2>1 DEF Calling
<1>6. Calling(s, << >>, data)
  BY <1>3
<1>7. PICK o \in wslay_frame_send(frame_ctx, wire,
                    Iocb(TRUE, s.omsg.opcode, ~Server, s.opayloadlen, data)) :
        /\ Keep(s, o)
        /\ IF o.result # 0 THEN NotSent(s, obuf, o.result)
           ELSE IF s.opayloadoff + o.length = s.opayloadlen
           THEN SentWhole(s, obuf, s.opayloadoff + o.length)
           ELSE SentPartly(s, obuf, s.opayloadoff + o.length)
  BY DEF SendNonFragmented, data
<1>8. CallEffect(s, data, o)
  BY <1>4, <1>6, <1>7, CallLemma
<1>9. o.length \in Nat /\ frame_ctx' = o.fc
  BY <1>7, <1>8 DEF CallEffect, Effect, Keep
<1>10. CASE o.result # 0
  <2>1. NotSent(s, << >>, o.result)
    BY <1>2, <1>7, <1>10
  <2> QED  BY <1>6, <1>7, <1>8, <1>10, <2>1, NotSentLemma
<1>11. CASE o.result = 0
  <2>1. /\ o.fc.oheader = MsgHeader(s)
        /\ o.fc.opayloadlen = s.opayloadlen
        /\ o.fc.opayloadoff = s.opayloadoff + o.length
        /\ o.fc.ostate = IF s.opayloadoff + o.length = s.opayloadlen
                         THEN "PREP_HEADER" ELSE "SEND_PAYLOAD"
        /\ o.length <= Len(data)
    BY <1>2, <1>5, <1>8, <1>11
    DEF CallEffect, Effect, WSLAY_ERR_WANT_WRITE, WSLAY_ERR_INVALID_CALLBACK,
        WSLAY_ERR_INVALID_ARGUMENT
  <2>2. s.opayloadoff + o.length \in Nat /\ s.opayloadoff + o.length <= s.opayloadlen
    BY <1>1, <1>5, <1>9, <2>1
  <2>3. CASE s.opayloadoff + o.length = s.opayloadlen
    <3>1. SentWhole(s, << >>, s.opayloadoff + o.length)
      BY <1>2, <1>7, <1>11, <2>3
    <3>2. frame_ctx'.ostate = "PREP_HEADER"
      BY <1>9, <2>1, <2>3
    <3> QED  BY <1>1, <1>7, <1>8, <2>2, <3>1, <3>2, WholeLemma
  <2>4. CASE s.opayloadoff + o.length # s.opayloadlen
    <3>1. SentPartly(s, << >>, s.opayloadoff + o.length)
      BY <1>2, <1>7, <1>11, <2>4
    <3>2. o.fc.ostate = "SEND_PAYLOAD"
      BY <2>1, <2>4
    <3>3. InSync(s.omsg, << >>, s.opayloadlen, s.opayloadoff + o.length, o.fc)
      BY <1>2, <2>1, <2>2, <3>2 DEF InSync, MsgHeader
    <3>4. << >> \in Seq(Byte) /\ s.omsg.type # "NULL"
      OBVIOUS
    <3> QED  BY <1>1, <1>6, <1>7, <1>8, <1>11, <2>2, <3>1, <3>2, <3>3, <3>4, PartlyLemma
  <2> QED  BY <2>3, <2>4
<1> QED  BY <1>10, <1>11

(* A call for a fragment (event.c 613-645).                                *)
LEMMA SendFragmentLemma ==
    ASSUME IInv, write_enabled, NEW s, NEW buf, Calling(s, buf, buf),
           s.omsg.type = "FRAGMENTED", SendFragment(s, buf)
    PROVE  IInv'
<1>1. /\ SelectionOK(s) /\ s.omsg \in OMsg /\ IsCurrentItem(s.omsg)
      /\ s.opayloadlen \in Nat /\ s.opayloadoff \in Nat
      /\ buf \in Seq(Byte) /\ Len(buf) \in Nat
      /\ FrameOffset(frame_ctx) \in Nat
  BY CallingFacts
<1>2. buf # << >> /\ FrameOffset(frame_ctx) + Len(buf) = s.opayloadlen
  BY DEF Calling
<1>3. ~wslay_is_ctrl_frame(s.omsg.opcode) /\ s.omsg.data = << >>
  <2>1. s.omsg # NoMsg
    BY DEF NoMsg
  <2> QED  BY <1>1, <2>1 DEF IsCurrentItem
<1>4. ~IsClose(s.omsg)
  BY <1>3 DEF IsClose, wslay_is_ctrl_frame, WSLAY_CONNECTION_CLOSE
<1>5. PICK o \in wslay_frame_send(frame_ctx, wire,
               Iocb(s.omsg.fin, s.omsg.opcode, ~Server, s.opayloadlen, buf)) :
        /\ Keep(s, o)
        /\ IF o.result # 0 THEN NotSent(s, buf, o.result)
           ELSE IF o.length < Len(buf)
           THEN SentPartly(s, SubSeq(buf, o.length + 1, Len(buf)), s.opayloadoff)
           ELSE IF s.omsg.fin THEN SentWhole(s, << >>, s.opayloadoff)
           ELSE SentPartly([ s EXCEPT !.omsg.opcode = WSLAY_CONTINUATION_FRAME ],
                           << >>, s.opayloadoff)
  BY DEF SendFragment
<1>6. CallEffect(s, buf, o)
  BY <1>5, CallLemma
<1>7. o.length \in Nat /\ o.length <= Len(buf) /\ frame_ctx' = o.fc
  BY <1>1, <1>5, <1>6 DEF CallEffect, Effect, Keep
<1>8. CASE o.result # 0
  <2>1. NotSent(s, buf, o.result)
    BY <1>5, <1>8
  <2> QED  BY <1>5, <1>6, <1>8, <2>1, NotSentLemma
<1>9. CASE o.result = 0
  <2>1. /\ o.fc.oheader = MsgHeader(s)
        /\ o.fc.opayloadlen = s.opayloadlen
        /\ o.fc.opayloadoff = FrameOffset(frame_ctx) + o.length
        /\ o.fc.ostate = IF FrameOffset(frame_ctx) + o.length = s.opayloadlen
                         THEN "PREP_HEADER" ELSE "SEND_PAYLOAD"
    BY <1>6, <1>9
    DEF CallEffect, Effect, WSLAY_ERR_WANT_WRITE, WSLAY_ERR_INVALID_CALLBACK,
        WSLAY_ERR_INVALID_ARGUMENT
  <2>2. CASE o.length < Len(buf)
    <3> DEFINE rest == SubSeq(buf, o.length + 1, Len(buf))
    <3>1. rest \in Seq(Byte) /\ Len(rest) = Len(buf) - o.length
      <4>1. \A i \in (o.length + 1)..Len(buf) : buf[i] \in Byte
        BY <1>1, <1>7
      <4>2. o.length + 1 \in Int /\ Len(buf) \in Int
        BY <1>1, <1>7
      <4>3. /\ rest \in Seq(Byte)
            /\ Len(rest) = IF o.length + 1 <= Len(buf)
                           THEN Len(buf) - (o.length + 1) + 1 ELSE 0
        BY <4>1, <4>2, SubSeqProperties
      <4> HIDE DEF rest
      <4> QED  BY <1>1, <1>7, <2>2, <4>3
    <3>2. SentPartly(s, rest, s.opayloadoff)
      BY <1>5, <1>9, <2>2
    <3> HIDE DEF rest
    <3>3. rest # << >> /\ o.fc.opayloadoff + Len(rest) = s.opayloadlen
      BY <1>1, <1>2, <1>7, <2>1, <2>2, <3>1, EmptySeq
    <3>4. o.fc.ostate = "SEND_PAYLOAD"
      BY <1>1, <1>2, <1>7, <2>1, <2>2
    <3>5. InSync(s.omsg, rest, s.opayloadlen, s.opayloadoff, o.fc)
      BY <2>1, <3>3, <3>4 DEF InSync, MsgHeader
    <3>6. s.omsg.type # "NULL"
      OBVIOUS
    <3> QED  BY <1>1, <1>4, <1>5, <1>6, <1>9, <3>1, <3>2, <3>4, <3>5, <3>6, PartlyLemma
  <2>3. CASE ~(o.length < Len(buf))
    <3>1. o.fc.ostate = "PREP_HEADER"
      BY <1>1, <1>2, <1>7, <2>1, <2>3
    <3>2. CASE s.omsg.fin
      <4>1. SentWhole(s, << >>, s.opayloadoff)
        BY <1>5, <1>9, <2>3, <3>2
      <4>2. frame_ctx'.ostate = "PREP_HEADER"
        BY <1>7, <3>1
      <4> QED  BY <1>1, <1>5, <1>6, <4>1, <4>2, WholeLemma
    <3>3. CASE ~s.omsg.fin
      <4> DEFINE t == [ s EXCEPT !.omsg.opcode = WSLAY_CONTINUATION_FRAME ]
                 m == [ s.omsg EXCEPT !.opcode = WSLAY_CONTINUATION_FRAME ]
      <4>1. SentPartly(t, << >>, s.opayloadoff)
        BY <1>5, <1>9, <2>3, <3>3
      <4>2. m \in OMsg /\ m.type = "FRAGMENTED" /\ ~m.fin /\ m.data = << >>
            /\ m.opcode = WSLAY_CONTINUATION_FRAME
        BY <1>1, <1>3, <3>3 DEF OMsg, Opcodes
      <4>3. t.omsg = m
        <5>1. s \in Selection
          BY <1>1 DEF SelectionOK
        <5> QED  BY <5>1 DEF Selection
      <4> HIDE DEF t, m
      <4>4. IsCurrentItem(m) /\ ~IsClose(m)
        BY <4>2 DEF IsCurrentItem, IsClose, wslay_is_ctrl_frame,
                    WSLAY_CONTINUATION_FRAME, WSLAY_CONNECTION_CLOSE
      <4>5. InSync(m, << >>, s.opayloadlen, s.opayloadoff, o.fc)
        BY <3>1, <4>2 DEF InSync
      <4>6. << >> \in Seq(Byte)
        OBVIOUS
      <4>7. /\ t.omsg \in OMsg /\ IsCurrentItem(t.omsg) /\ t.omsg.type # "NULL"
            /\ IsClose(t.omsg) <=> IsClose(s.omsg)
            /\ InSync(t.omsg, << >>, s.opayloadlen, s.opayloadoff, o.fc)
        BY <1>4, <4>2, <4>3, <4>4, <4>5
      <4> QED  BY <1>1, <1>4, <1>5, <1>6, <1>9, <4>1, <4>6, <4>7, PartlyLemma
    <3> QED  BY <3>2, <3>3
  <2> QED  BY <2>2, <2>3
<1> QED  BY <1>8, <1>9
(* What the read callback delivers.                                        *)
LEMMA ReadLemma ==
    ASSUME NEW source \in Seq(Byte), NEW in \in ReadCallback(source)
    PROVE  /\ in.data \in Seq(Byte) /\ in.data # << >>
           /\ in.eof \in BOOLEAN /\ in.rest \in Seq(Byte)
<1>1. OBufSize \in Nat /\ Len(source) \in Nat
  BY EventSendAssumption
<1>2. PICK n \in { n \in 1..OBufSize : n <= Len(source) } :
        in = [ data |-> SubSeq(source, 1, n), eof |-> n = Len(source) /\ ~LazyEof,
               rest |-> SubSeq(source, n + 1, Len(source)) ]
  BY DEF ReadCallback
<1>3. n \in Nat /\ n >= 1 /\ n <= Len(source)
  BY <1>1
<1>4. in.data = SubSeq(source, 1, n) /\ in.eof \in BOOLEAN
      /\ in.rest = SubSeq(source, n + 1, Len(source))
  BY <1>2
<1>5. SubSeq(source, 1, n) \in Seq(Byte) /\ Len(SubSeq(source, 1, n)) = n
  <2>1. \A i \in 1..n : source[i] \in Byte
    BY <1>1, <1>3
  <2>2. /\ SubSeq(source, 1, n) \in Seq(Byte)
        /\ Len(SubSeq(source, 1, n)) = IF 1 <= n THEN n - 1 + 1 ELSE 0
    BY <1>3, <2>1, SubSeqProperties
  <2> QED  BY <1>3, <2>2
<1>6. SubSeq(source, n + 1, Len(source)) \in Seq(Byte)
  <2>1. \A i \in (n + 1)..Len(source) : source[i] \in Byte
    BY <1>1, <1>3
  <2>2. n + 1 \in Int /\ Len(source) \in Int
    BY <1>1, <1>3
  <2> QED  BY <2>1, <2>2, SubSeqProperties
<1>7. in.data # << >>
  <2>1. Len(in.data) > 0
    BY <1>3, <1>4, <1>5
  <2> QED  BY <2>1
<1> QED  BY <1>4, <1>5, <1>6, <1>7

(* A selection keeps its virtues when the next fragment is read.           *)
LEMMA FragmentReadLemma ==
    ASSUME IInv, NEW s, SelectionOK(s), s.omsg.type = "FRAGMENTED",
           frame_ctx.ostate = "PREP_HEADER",
           NEW in, in.data \in Seq(Byte), in.data # << >>,
           in.eof \in BOOLEAN, in.rest \in Seq(Byte),
           NEW t, t = [ s EXCEPT !.omsg.fin = in.eof, !.omsg.source = in.rest,
                                 !.opayloadlen = Len(in.data), !.opayloadoff = 0 ]
    PROVE  Calling(t, in.data, in.data) /\ t.omsg.type = "FRAGMENTED"
<1> DEFINE m == [ s.omsg EXCEPT !.fin = in.eof, !.source = in.rest ]
           len == Len(in.data)
<1>1. s \in Selection /\ s.omsg \in OMsg
  BY DEF SelectionOK, Selection
<1>2. len \in Nat
  OBVIOUS
<1>3. t = [ s EXCEPT !.omsg = m, !.opayloadlen = len, !.opayloadoff = 0 ]
  BY <1>1 DEF Selection
<1>4. /\ m \in OMsg /\ m.type = s.omsg.type /\ m.opcode = s.omsg.opcode
      /\ m.data = s.omsg.data
  BY <1>1 DEF OMsg
<1> HIDE DEF m, len
<1>5. /\ t \in Selection
      /\ t.omsg = m /\ t.opayloadlen = len /\ t.opayloadoff = 0
      /\ t.send_queue = s.send_queue /\ t.send_ctrl_queue = s.send_ctrl_queue
  BY ONLY <1>1, <1>2, <1>3, <1>4 DEF Selection
<1>6. IsCurrentItem(m) /\ m.type = "FRAGMENTED"
  <2>1. s.omsg # NoMsg
    BY DEF NoMsg
  <2>2. IsCurrentItem(s.omsg)
    BY DEF SelectionOK
  <2> QED  BY <1>4, <2>1, <2>2 DEF IsCurrentItem
<1>7. IsClose(m) <=> IsClose(s.omsg)
  BY <1>4 DEF IsClose
<1>8. SelectionOK(t)
  BY <1>5, <1>6, <1>7 DEF SelectionOK
<1>9. HeaderMatches(t) /\ FrameOffset(frame_ctx) = 0
  BY DEF HeaderMatches, FrameOffset
<1>10. FrameOffset(frame_ctx) + Len(in.data) = t.opayloadlen
  BY <1>2, <1>5, <1>9 DEF len
<1> QED  BY <1>5, <1>6, <1>8, <1>9, <1>10 DEF Calling

(* The read callback had nothing, or failed (event.c 606-612).             *)
LEMMA ReadNothingLemma ==
    ASSUME IInv, write_enabled, NEW s, SelectionOK(s),
           s.omsg.type = "FRAGMENTED", ~s.omsg.fin, obuf = << >>,
           frame_ctx.ostate = "PREP_HEADER", ReadNothing(s)
    PROVE  IInv'
<1>1. /\ omsg' = s.omsg /\ send_queue' = s.send_queue
      /\ send_ctrl_queue' = s.send_ctrl_queue
      /\ opayloadlen' = s.opayloadlen /\ opayloadoff' = s.opayloadoff
      /\ close_status' = close_status /\ queued_msg_count' = queued_msg_count
      /\ queued_msg_length' = queued_msg_length /\ accepted' = accepted
      /\ frame_ctx' = frame_ctx /\ wire' = wire /\ obuf' = obuf
      /\ status_code_sent' = status_code_sent
  BY DEF ReadNothing, frameVars
<1>2. s \in Selection
  BY DEF SelectionOK
<1>3. TypeOK'
  <2>1. /\ write_enabled \in BOOLEAN /\ error \in CallbackErrors
        /\ close_status' \in SUBSET CloseStatus
        /\ queued_msg_count' \in Int /\ queued_msg_length' \in Int
        /\ accepted' \in Seq(OMsg)
        /\ frame_ctx' \in FrameContext /\ wire' \in Seq(WireFrame)
        /\ obuf' \in Seq(Byte) /\ status_code_sent' \in StatusCode
    BY <1>1, TypeFacts, Zenon DEF IInv
  <2>2. /\ omsg' \in OMsg /\ send_queue' \in Seq(OMsg)
        /\ send_ctrl_queue' \in Seq(OMsg)
        /\ opayloadlen' \in Nat /\ opayloadoff' \in Nat
    BY <1>1, <1>2 DEF Selection
  <2>3. WSLAY_ERR_CALLBACK_FAILURE \in CallbackErrors
        /\ WSLAY_ERR_CALLBACK_FAILURE \in Int /\ 0 \in Int
    BY DEF CallbackErrors, WSLAY_ERR_CALLBACK_FAILURE
  <2>4. write_enabled' \in BOOLEAN /\ error' \in CallbackErrors /\ ret' \in Int
    BY <2>1, <2>3, Zenon DEF ReadNothing
  <2> QED  BY <2>1, <2>2, <2>4, Zenon DEF TypeOK, QueueTypeOK, FrameTypeOK
<1>4. HeaderIncomplete(frame_ctx')
  BY <1>1 DEF HeaderIncomplete
<1>5. LayersInSync'
  BY <1>1 DEF LayersInSync, InSync
<1>6. QueuesWellFormed'
  BY <1>1 DEF QueuesWellFormed, SelectionOK
<1>7. CloseIsLast'
  <2>1. ~IsUnderWay(frame_ctx)
    BY DEF IsUnderWay
  <2>2. \A i \in 1..Len(wire) : wire[i].header.opcode # WSLAY_CONNECTION_CLOSE
    BY <2>1 DEF SelectionOK
  <2> QED  BY <1>1, <2>2 DEF CloseIsLast
<1>8. CloseNotLost'
  BY <1>1 DEF CloseNotLost, SelectionOK
<1>9. CountInv'
  <2>1. omsg' # NoMsg
    BY <1>1 DEF NoMsg
  <2>2. Pending' = Len(s.send_queue) + Len(s.send_ctrl_queue) + 1
    BY <1>1, <2>1 DEF Pending
  <2>3. IsClose(omsg)' <=> IsClose(s.omsg)
    BY <1>1 DEF IsClose
  <2> QED  BY <1>1, <2>2, <2>3 DEF CountInv, SelectionOK
<1> QED  BY <1>3, <1>4, <1>5, <1>6, <1>7, <1>8, <1>9 DEF IInv

(* The iteration for a fragmented message (event.c 597-646).               *)
LEMMA SendFragmentedLemma ==
    ASSUME IInv, write_enabled, NEW s, Ready(s),
           s.omsg.type = "FRAGMENTED", SendFragmented(s)
    PROVE  IInv'
<1>1. SelectionOK(s) /\ FragmentedReady(s) /\ s.omsg \in OMsg
  BY DEF Ready, SelectionOK, Selection
<1>2. s.omsg.source \in Seq(Byte)
  BY <1>1 DEF OMsg
<1>3. CASE ~s.omsg.fin /\ obuf = << >>
  <2>1. frame_ctx.ostate = "PREP_HEADER"
    BY <1>1, <1>3 DEF FragmentedReady
  <2>2. CASE ReadNothing(s)
    BY <1>1, <1>3, <2>1, <2>2, ReadNothingLemma
  <2>3. ASSUME NEW in \in ReadCallback(s.omsg.source),
               NEW t, t = [ s EXCEPT !.omsg.fin = in.eof, !.omsg.source = in.rest,
                                     !.opayloadlen = Len(in.data),
                                     !.opayloadoff = 0 ],
               SendFragment(t, in.data)
        PROVE  IInv'
    <3>1. /\ in.data \in Seq(Byte) /\ in.data # << >>
          /\ in.eof \in BOOLEAN /\ in.rest \in Seq(Byte)
      BY <1>2, ReadLemma
    <3>2. Calling(t, in.data, in.data) /\ t.omsg.type = "FRAGMENTED"
      BY <1>1, <2>1, <2>3, <3>1, FragmentReadLemma
    <3> QED  BY <2>3, <3>2, SendFragmentLemma
  <2> QED  BY <1>3, <2>2, <2>3 DEF SendFragmented
<1>4. CASE ~(~s.omsg.fin /\ obuf = << >>)
  <2>1. SendFragment(s, obuf)
    BY <1>4 DEF SendFragmented
  <2>2. /\ frame_ctx.ostate # "PREP_HEADER" /\ HeaderMatches(s)
        /\ obuf # << >> /\ frame_ctx.opayloadoff + Len(obuf) = s.opayloadlen
    BY <1>1, <1>4 DEF FragmentedReady
  <2>3. obuf \in Seq(Byte)
    BY DEF IInv, TypeOK
  <2>4. Calling(s, obuf, obuf)
    BY <1>1, <2>2, <2>3 DEF Calling, FrameOffset
  <2> QED  BY <2>1, <2>4, SendFragmentLemma
<1> QED  BY <1>3, <1>4

(* An iteration of wslay_event_send keeps the invariant.                   *)
LEMMA EventSendLemma ==
    ASSUME IInv, wslay_event_send
    PROVE  IInv'
<1> DEFINE s == Selected
<1>1. wslay_event_want_write /\ write_enabled
  BY DEF wslay_event_send, wslay_event_want_write
<1>2. Ready(s)
  BY <1>1, SelectedLemma
<1>3. ( CASE s.omsg.type = "NULL" -> NothingSelected(s)
          [] s.omsg.type = "NON_FRAGMENTED" -> SendNonFragmented(s)
          [] s.omsg.type = "FRAGMENTED" -> SendFragmented(s) )
  BY DEF wslay_event_send
<1> HIDE DEF s
<1>4. s.omsg.type \in {"NON_FRAGMENTED", "FRAGMENTED"}
  BY <1>2 DEF Ready, SelectionOK, Selection, OMsg, MsgType
<1>5. CASE s.omsg.type = "NON_FRAGMENTED"
  BY <1>1, <1>2, <1>3, <1>5, SendNonFragmentedLemma
<1>6. CASE s.omsg.type = "FRAGMENTED"
  BY <1>1, <1>2, <1>3, <1>6, SendFragmentedLemma
<1> QED  BY <1>4, <1>5, <1>6
-----------------------------------------------------------------------------
(* Queueing a message *)

(* A step that leaves the queues and what is being sent: it may disable    *)
(* writing, set an error, or note that a Close was received.               *)
LEMMA IdleLemma ==
    ASSUME IInv, ret' \in Int, write_enabled' \in BOOLEAN,
           write_enabled' => write_enabled,
           close_status' \in SUBSET CloseStatus, error' \in CallbackErrors,
           "SENT" \in close_status' <=> "SENT" \in close_status,
           "QUEUED" \in close_status' => "QUEUED" \in close_status,
           UNCHANGED << queueVars, frameVars, sendVars >>
    PROVE  IInv'
<1>1. /\ send_queue' = send_queue /\ send_ctrl_queue' = send_ctrl_queue
      /\ queued_msg_count' = queued_msg_count
      /\ queued_msg_length' = queued_msg_length /\ accepted' = accepted
      /\ frame_ctx' = frame_ctx /\ wire' = wire
      /\ omsg' = omsg /\ obuf' = obuf /\ opayloadlen' = opayloadlen
      /\ opayloadoff' = opayloadoff /\ status_code_sent' = status_code_sent
  BY DEF queueVars, frameVars, sendVars
<1>2. TypeOK'
  BY <1>1, Zenon DEF IInv, TypeOK, QueueTypeOK, FrameTypeOK
<1>3. HeaderIncomplete(frame_ctx')
  BY <1>1 DEF IInv
<1>4. LayersInSync'
  BY <1>1 DEF IInv, LayersInSync
<1>5. QueuesWellFormed'
  BY <1>1 DEF IInv, QueuesWellFormed
<1>6. CloseIsLast'
  BY <1>1 DEF IInv, CloseIsLast
<1>7. CloseNotLost'
  BY <1>1 DEF IInv, CloseNotLost
<1>8. CountInv'
  BY <1>1 DEF IInv, CountInv, Pending
<1> QED  BY <1>2, <1>3, <1>4, <1>5, <1>6, <1>7, <1>8 DEF IInv

(* A step that changes only what was returned, or disables writing.        *)
LEMMA QuietLemma ==
    ASSUME IInv, ret' \in Int, write_enabled' \in BOOLEAN,
           write_enabled' => write_enabled,
           UNCHANGED << close_status, error, queueVars, frameVars, sendVars >>
    PROVE  IInv'
<1>1. close_status \in SUBSET CloseStatus /\ error \in CallbackErrors
  BY TypeFacts, Zenon DEF IInv
<1>2. /\ close_status' \in SUBSET CloseStatus /\ error' \in CallbackErrors
      /\ close_status' = close_status
      /\ UNCHANGED << queueVars, frameVars, sendVars >>
  BY <1>1
<1> QED  BY <1>2, IdleLemma

(* The new messages are what the queues are made for.                      *)
LEMMA NewMsgLemma ==
    ASSUME NEW opcode \in Opcodes, NEW data \in Seq(Byte)
    PROVE  /\ omsg_non_fragmented_new(opcode, data) \in OMsg
           /\ omsg_fragmented_new(opcode, data) \in OMsg
           /\ wslay_is_ctrl_frame(opcode) /\ Len(data) <= CtrlMax =>
                IsControlItem(omsg_non_fragmented_new(opcode, data))
           /\ ~wslay_is_ctrl_frame(opcode) =>
                /\ IsDataItem(omsg_non_fragmented_new(opcode, data))
                /\ IsDataItem(omsg_fragmented_new(opcode, data))
           /\ opcode = WSLAY_CONNECTION_CLOSE =>
                IsClose(omsg_non_fragmented_new(opcode, data))
           /\ omsg_non_fragmented_new(opcode, data).opcode = opcode
           /\ omsg_fragmented_new(opcode, data).opcode = opcode
<1>1. omsg_non_fragmented_new(opcode, data) \in OMsg
  BY DEF omsg_non_fragmented_new, OMsg, MsgType
<1>2. omsg_fragmented_new(opcode, data) \in OMsg
  BY DEF omsg_fragmented_new, OMsg, MsgType
<1>3. LET m == omsg_non_fragmented_new(opcode, data)
      IN  m.type = "NON_FRAGMENTED" /\ m.fin /\ m.opcode = opcode /\ m.data = data
  BY DEF omsg_non_fragmented_new
<1>4. LET m == omsg_fragmented_new(opcode, data)
      IN  m.type = "FRAGMENTED" /\ ~m.fin /\ m.opcode = opcode /\ m.data = << >>
  BY DEF omsg_fragmented_new
<1> QED  BY <1>1, <1>2, <1>3, <1>4 DEF IsControlItem, IsDataItem, IsClose

(* A message is pushed on its queue and counted (Enqueue), by a step that  *)
(* may set an error or note that a Close was received or is now queued.    *)
LEMMA PushLemma ==
    ASSUME IInv, NEW m \in OMsg,
           IF wslay_is_ctrl_frame(m.opcode) THEN IsControlItem(m) ELSE IsDataItem(m),
           Enqueue(m), ret' \in Int,
           close_status' \in SUBSET CloseStatus, error' \in CallbackErrors,
           "SENT" \in close_status' <=> "SENT" \in close_status,
           "QUEUED" \in close_status' => "QUEUED" \in close_status \/ IsClose(m),
           UNCHANGED << write_enabled, frameVars, sendVars >>
    PROVE  IInv'
<1>1. /\ write_enabled' = write_enabled
      /\ frame_ctx' = frame_ctx /\ wire' = wire
      /\ omsg' = omsg /\ obuf' = obuf /\ opayloadlen' = opayloadlen
      /\ opayloadoff' = opayloadoff /\ status_code_sent' = status_code_sent
  BY DEF frameVars, sendVars
<1>2. /\ queued_msg_count' = queued_msg_count + 1
      /\ queued_msg_length' = queued_msg_length + Len(m.data)
      /\ accepted' = Append(accepted, m)
  BY DEF Enqueue
<1>3. /\ send_queue \in Seq(OMsg) /\ send_ctrl_queue \in Seq(OMsg)
      /\ accepted \in Seq(OMsg) /\ queued_msg_count \in Int
      /\ queued_msg_length \in Int
      /\ Len(send_queue) \in Nat /\ Len(send_ctrl_queue) \in Nat
  <2>1. /\ send_queue \in Seq(OMsg) /\ send_ctrl_queue \in Seq(OMsg)
        /\ accepted \in Seq(OMsg) /\ queued_msg_count \in Int
        /\ queued_msg_length \in Int
    BY TypeFacts, Zenon DEF IInv
  <2> QED  BY <2>1
<1>4. \/ /\ send_ctrl_queue' = Append(send_ctrl_queue, m)
         /\ send_queue' = send_queue /\ IsControlItem(m)
      \/ /\ send_queue' = Append(send_queue, m)
         /\ send_ctrl_queue' = send_ctrl_queue /\ IsDataItem(m) /\ ~IsClose(m)
  BY DEF Enqueue, IsClose, wslay_is_ctrl_frame, WSLAY_CONNECTION_CLOSE
<1>5. /\ Append(send_ctrl_queue, m) \in Seq(OMsg)
      /\ Len(Append(send_ctrl_queue, m)) = Len(send_ctrl_queue) + 1
      /\ \A i \in 1..Len(send_ctrl_queue) :
           Append(send_ctrl_queue, m)[i] = send_ctrl_queue[i]
      /\ Append(send_ctrl_queue, m)[Len(send_ctrl_queue) + 1] = m
  BY <1>3, AppendProperties
<1>6. /\ Append(send_queue, m) \in Seq(OMsg)
      /\ Len(Append(send_queue, m)) = Len(send_queue) + 1
      /\ \A i \in 1..Len(send_queue) : Append(send_queue, m)[i] = send_queue[i]
      /\ Append(send_queue, m)[Len(send_queue) + 1] = m
  BY <1>3, AppendProperties
<1>7. TypeOK'
  <2>1. /\ write_enabled' \in BOOLEAN
        /\ frame_ctx' \in FrameContext /\ wire' \in Seq(WireFrame)
        /\ omsg' \in OMsg /\ obuf' \in Seq(Byte)
        /\ opayloadlen' \in Nat /\ opayloadoff' \in Nat
        /\ status_code_sent' \in StatusCode
    BY <1>1, TypeFacts, Zenon DEF IInv
  <2>2. close_status' \in SUBSET CloseStatus /\ error' \in CallbackErrors
    OBVIOUS
  <2>3. send_queue' \in Seq(OMsg) /\ send_ctrl_queue' \in Seq(OMsg)
    BY <1>3, <1>4, <1>5, <1>6, Zenon
  <2>4. accepted' \in Seq(OMsg)
    BY <1>2, <1>3, AppendProperties
  <2>5. queued_msg_count' \in Int /\ queued_msg_length' \in Int
    <3>1. m.data \in Seq(Byte)
      BY DEF OMsg
    <3>2. Len(m.data) \in Nat
      BY <3>1
    <3> QED  BY <1>2, <1>3, <3>2
  <2> QED  BY <2>1, <2>2, <2>3, <2>4, <2>5, Zenon DEF TypeOK, QueueTypeOK, FrameTypeOK
<1>8. HeaderIncomplete(frame_ctx') /\ LayersInSync' /\ CloseIsLast'
  <2>1. HeaderIncomplete(frame_ctx')
    BY <1>1 DEF IInv
  <2>2. LayersInSync'
    BY <1>1 DEF IInv, LayersInSync
  <2>3. CloseIsLast'
    BY <1>1 DEF IInv, CloseIsLast
  <2> QED  BY <2>1, <2>2, <2>3
<1>9. QueuesWellFormed'
  <2>1. /\ \A i \in 1..Len(send_ctrl_queue) : IsControlItem(send_ctrl_queue[i])
        /\ \A i \in 1..Len(send_queue) : IsDataItem(send_queue[i])
        /\ IsCurrentItem(omsg)
    BY DEF IInv, QueuesWellFormed
  <2>2. CASE send_ctrl_queue' = Append(send_ctrl_queue, m)
             /\ send_queue' = send_queue /\ IsControlItem(m)
    <3>1. \A i \in 1..(Len(send_ctrl_queue) + 1) :
             IsControlItem(Append(send_ctrl_queue, m)[i])
      BY <1>3, <1>5, <2>1, <2>2, SMTT(40)
    <3> QED  BY <1>1, <1>5, <2>1, <2>2, <3>1 DEF QueuesWellFormed
  <2>3. CASE send_queue' = Append(send_queue, m)
             /\ send_ctrl_queue' = send_ctrl_queue /\ IsDataItem(m)
    <3>1. \A i \in 1..(Len(send_queue) + 1) : IsDataItem(Append(send_queue, m)[i])
      BY <1>3, <1>6, <2>1, <2>3
    <3> QED  BY <1>1, <1>6, <2>1, <2>3, <3>1 DEF QueuesWellFormed
  <2> QED  BY <1>4, <2>2, <2>3
<1>10. CloseNotLost'
  <2> SUFFICES ASSUME write_enabled', "QUEUED" \in close_status'
               PROVE  IsClose(omsg') \/
                      \E i \in 1..Len(send_ctrl_queue') : IsClose(send_ctrl_queue'[i])
    BY DEF CloseNotLost
  <2>1. CASE "QUEUED" \in close_status
    <3>1. IsClose(omsg) \/
          \E i \in 1..Len(send_ctrl_queue) : IsClose(send_ctrl_queue[i])
      BY <1>1, <2>1 DEF IInv, CloseNotLost
    <3>2. IsClose(omsg) => IsClose(omsg')
      BY <1>1
    <3>3. ASSUME NEW i \in 1..Len(send_ctrl_queue), IsClose(send_ctrl_queue[i])
          PROVE  i \in 1..Len(send_ctrl_queue') /\ IsClose(send_ctrl_queue'[i])
      <4>1. CASE send_ctrl_queue' = send_ctrl_queue
        BY <3>3, <4>1
      <4>2. CASE send_ctrl_queue' = Append(send_ctrl_queue, m)
        <5>1. i \in 1..(Len(send_ctrl_queue) + 1)
          BY ONLY <1>3, i \in 1..Len(send_ctrl_queue)
        <5> QED  BY <1>5, <3>3, <4>2, <5>1, Zenon
      <4> QED  BY <1>4, <4>1, <4>2
    <3>4. CASE IsClose(omsg)
      BY <3>2, <3>4
    <3>5. CASE \E i \in 1..Len(send_ctrl_queue) : IsClose(send_ctrl_queue[i])
      <4>1. PICK i \in 1..Len(send_ctrl_queue) : IsClose(send_ctrl_queue[i])
        BY <3>5
      <4>2. i \in 1..Len(send_ctrl_queue') /\ IsClose(send_ctrl_queue'[i])
        BY <3>3, <4>1
      <4> QED  BY <4>2
    <3> QED  BY <3>1, <3>4, <3>5
  <2>2. CASE "QUEUED" \notin close_status
    <3>1. IsClose(m) /\ send_ctrl_queue' = Append(send_ctrl_queue, m)
      BY <1>4, <2>2
    <3>2. Len(send_ctrl_queue) + 1 \in 1..(Len(send_ctrl_queue) + 1)
      BY <1>3
    <3> QED  BY <1>5, <3>1, <3>2
  <2> QED  BY <2>1, <2>2
<1>11. CountInv'
  <2>1. Pending' = Pending + 1 /\ Pending \in Int
    <3> DEFINE k == IF omsg = NoMsg THEN 0 ELSE 1
    <3>1. Len(send_queue') + Len(send_ctrl_queue') =
            Len(send_queue) + Len(send_ctrl_queue) + 1
      <4>1. \/ /\ Len(send_ctrl_queue') = Len(send_ctrl_queue) + 1
               /\ Len(send_queue') = Len(send_queue)
            \/ /\ Len(send_queue') = Len(send_queue) + 1
               /\ Len(send_ctrl_queue') = Len(send_ctrl_queue)
        BY <1>4, <1>5, <1>6, Zenon
      <4>2. Len(send_queue) \in Nat /\ Len(send_ctrl_queue) \in Nat
        BY <1>3
      <4> QED  BY ONLY <4>1, <4>2
    <3>2. k \in Nat
      OBVIOUS
    <3>3. Pending = Len(send_queue) + Len(send_ctrl_queue) + k
      BY DEF Pending
    <3>4. Pending' = Len(send_queue') + Len(send_ctrl_queue') + k
      BY <1>1 DEF Pending
    <3>5. Len(send_queue) \in Nat /\ Len(send_ctrl_queue) \in Nat
      BY <1>3
    <3> HIDE DEF k
    <3> QED  BY ONLY <3>1, <3>2, <3>3, <3>4, <3>5
  <2>2. "SENT" \in close_status' <=> "SENT" \in close_status
    OBVIOUS
  <2>3. IsClose(omsg)' <=> IsClose(omsg)
    BY <1>1 DEF IsClose
  <2>4. queued_msg_count >= Pending => queued_msg_count' >= Pending'
    <3>1. \A p \in Int : queued_msg_count >= p => queued_msg_count + 1 >= p + 1
      BY <1>3
    <3> QED  BY <1>2, <2>1, <3>1, Zenon
  <2>5. queued_msg_count = Pending => queued_msg_count' = Pending'
    BY <1>2, <2>1
  <2> QED  BY <2>2, <2>3, <2>4, <2>5 DEF IInv, CountInv
<1> QED  BY <1>7, <1>8, <1>9, <1>10, <1>11 DEF IInv

(* The same, when all that happens beside is that a Close is queued.       *)
LEMMA EnqueueLemma ==
    ASSUME IInv, NEW m \in OMsg,
           IF wslay_is_ctrl_frame(m.opcode) THEN IsControlItem(m) ELSE IsDataItem(m),
           Enqueue(m), ret' \in Int,
           \/ close_status' = close_status
           \/ close_status' = close_status \cup {"QUEUED"} /\ IsClose(m),
           UNCHANGED << write_enabled, error, frameVars, sendVars >>
    PROVE  IInv'
<1>1. close_status \in SUBSET CloseStatus /\ error \in CallbackErrors
  BY TypeFacts, Zenon DEF IInv
<1>2. /\ close_status' \in SUBSET CloseStatus /\ error' \in CallbackErrors
      /\ "SENT" \in close_status' <=> "SENT" \in close_status
      /\ "QUEUED" \in close_status' => "QUEUED" \in close_status \/ IsClose(m)
  BY <1>1 DEF CloseStatus
<1>3. UNCHANGED << write_enabled, frameVars, sendVars >>
  OBVIOUS
<1> QED  BY <1>2, <1>3, PushLemma

(* The payloads of the model are bytes.                                    *)
LEMMA NewPayloadLemma ==
    ASSUME TypeOK, Len(accepted) < MaxMsgs, NEW len \in 0..MaxLen
    PROVE  NewPayload(len) \in Seq(Byte) /\ Len(NewPayload(len)) = len
<1>1. MaxMsgs \in 0..15 /\ MaxLen \in 0..15
  BY EventSendAssumption
<1>2. Len(accepted) \in Nat
  <2>1. accepted \in Seq(OMsg)
    BY TypeFacts, Zenon
  <2> QED  BY <2>1
<1>3. len \in Nat /\ len <= 15 /\ Len(accepted) <= 14
  BY <1>1, <1>2
<1>4. \A i \in 1..len : 16 * Len(accepted) + i - 1 \in Byte
  <2>1. \A n, i \in Int : n >= 0 /\ n <= 14 /\ i >= 1 /\ i <= 15 =>
          16 * n + i - 1 \in Int /\ 16 * n + i - 1 >= 0 /\ 16 * n + i - 1 <= 255
    BY SMT
  <2>2. \A n \in Int : n >= 0 /\ n <= 255 => n \in Byte
    BY DEF Byte
  <2>3. ASSUME NEW i \in 1..len
        PROVE  16 * Len(accepted) + i - 1 \in Byte
    <3>1. /\ Len(accepted) \in Int /\ Len(accepted) >= 0 /\ Len(accepted) <= 14
          /\ i \in Int /\ i >= 1 /\ i <= 15
      BY <1>2, <1>3
    <3> QED  BY ONLY <2>1, <2>2, <3>1, Zenon
  <2> QED  BY <2>3
<1>5. NewPayload(len) = [ i \in 1..len |-> 16 * Len(accepted) + i - 1 ]
  BY DEF NewPayload
<1>6. NewPayload(len) \in Seq(Byte)
  BY <1>3, <1>4, <1>5, SeqDef
<1>7. Len(NewPayload(len)) = len
  BY <1>3, <1>5
<1> QED  BY <1>6, <1>7

(* wslay_event_queue_msg, when it accepts the message.                     *)
LEMMA QueueMsgLemma ==
    ASSUME IInv, NEW opcode \in Opcodes, NEW data \in Seq(Byte), NEW r \in Int,
           wslay_event_queue_msg(opcode, data, r), ret' = r,
           \/ close_status' = close_status
           \/ /\ r = 0 /\ opcode = WSLAY_CONNECTION_CLOSE
              /\ close_status' = close_status \cup {"QUEUED"},
           UNCHANGED << write_enabled, error, frameVars, sendVars >>
    PROVE  IInv'
<1>1. CASE MsgRefusal(opcode, data, r) /\ UNCHANGED queueVars
  <2>1. r # 0
    BY <1>1 DEF MsgRefusal, WSLAY_ERR_NO_MORE_MSG, WSLAY_ERR_INVALID_ARGUMENT
  <2>2. write_enabled' = write_enabled /\ close_status' = close_status
    BY <2>1
  <2>3. write_enabled' \in BOOLEAN
    BY <2>2, TypeFacts, Zenon DEF IInv
  <2>4. UNCHANGED << close_status, error, queueVars, frameVars, sendVars >>
    BY <1>1, <2>2
  <2> QED  BY <2>2, <2>3, <2>4, QuietLemma
<1>2. CASE /\ ~(wslay_is_ctrl_frame(opcode) /\ Len(data) > CtrlMax)
           /\ r = 0
           /\ Enqueue(omsg_non_fragmented_new(opcode, data))
  <2> DEFINE m == omsg_non_fragmented_new(opcode, data)
  <2>1. Len(data) \in Nat /\ CtrlMax \in Nat
    BY CtrlMaxAssumption
  <2>2. /\ m \in OMsg /\ m.opcode = opcode
        /\ IF wslay_is_ctrl_frame(m.opcode) THEN IsControlItem(m) ELSE IsDataItem(m)
        /\ opcode = WSLAY_CONNECTION_CLOSE => IsClose(m)
    BY <1>2, <2>1, NewMsgLemma
  <2>3. Enqueue(m)
    BY <1>2
  <2> HIDE DEF m
  <2>4. \/ close_status' = close_status
        \/ close_status' = close_status \cup {"QUEUED"} /\ IsClose(m)
    BY <2>2
  <2>5. ret' \in Int
    OBVIOUS
  <2> QED  BY <2>2, <2>3, <2>4, <2>5, EnqueueLemma
<1> QED  BY <1>1, <1>2 DEF wslay_event_queue_msg

(* wslay_event_queue_fragmented_msg keeps the invariant (event.c 240-257). *)
LEMMA QueueFragmentedMsgLemma ==
    ASSUME IInv, NEW opcode \in Opcodes, NEW source \in Seq(Byte), NEW r \in Int,
           wslay_event_queue_fragmented_msg(opcode, source, r), ret' = r,
           UNCHANGED << write_enabled, close_status, error, frameVars, sendVars >>
    PROVE  IInv'
<1>1. CASE UNCHANGED queueVars
  <2>1. write_enabled' \in BOOLEAN /\ write_enabled' = write_enabled
    BY TypeFacts, Zenon DEF IInv
  <2> QED  BY <1>1, <2>1, QuietLemma
<1>2. CASE /\ ~wslay_is_ctrl_frame(opcode)
           /\ Enqueue(omsg_fragmented_new(opcode, source))
  <2> DEFINE m == omsg_fragmented_new(opcode, source)
  <2>1. /\ m \in OMsg
        /\ IF wslay_is_ctrl_frame(m.opcode) THEN IsControlItem(m) ELSE IsDataItem(m)
    BY <1>2, NewMsgLemma
  <2>2. Enqueue(m)
    BY <1>2
  <2> HIDE DEF m
  <2>3. ret' \in Int /\ close_status' = close_status
    OBVIOUS
  <2>4. UNCHANGED << write_enabled, error, frameVars, sendVars >>
    OBVIOUS
  <2> QED  BY <2>1, <2>2, <2>3, <2>4, EnqueueLemma
<1> QED  BY <1>1, <1>2 DEF wslay_event_queue_fragmented_msg

(* The body of a Close frame fits a control frame (event.c 174-190).       *)
LEMMA CloseBodyLemma ==
    ASSUME NEW status \in StatusCode, NEW reason \in Seq(Byte),
           Len(reason) <= CtrlMax - 2
    PROVE  CloseBody(status, reason) \in Seq(Byte)
           /\ Len(CloseBody(status, reason)) <= CtrlMax
<1>1. CtrlMax \in Nat /\ CtrlMax >= 2 /\ Len(reason) \in Nat
  BY CtrlMaxAssumption
<1>2. CASE status = 0
  <2>1. CloseBody(status, reason) = << >>
    BY <1>2 DEF CloseBody
  <2> QED  BY <1>1, <2>1
<1>3. CASE status # 0
  <2>1. status \in Nat /\ status <= 65535
    <3>1. status \in 0..UINT16_MAX
      BY DEF StatusCode
    <3>2. UINT16_MAX \in Nat
      BY DEF UINT16_MAX
    <3>3. status \in Nat /\ status <= UINT16_MAX
      BY <3>1, <3>2
    <3> QED
      BY <3>3 DEF UINT16_MAX
  <2>2. status \div 256 \in Byte /\ status % 256 \in Byte
    BY <2>1 DEF Byte
  <2>3. htons(status) \in Seq(Byte) /\ Len(htons(status)) = 2
    BY <2>2 DEF htons
  <2>4. /\ htons(status) \o reason \in Seq(Byte)
        /\ Len(htons(status) \o reason) = Len(htons(status)) + Len(reason)
    BY <2>3, ConcatProperties
  <2>5. CloseBody(status, reason) = htons(status) \o reason
    BY <1>3 DEF CloseBody
  <2> QED  BY <1>1, <2>3, <2>4, <2>5
<1> QED  BY <1>2, <1>3

(* wslay_event_queue_close keeps the invariant (event.c 168-197).          *)
LEMMA QueueCloseLemma ==
    ASSUME IInv, NEW status \in StatusCode, NEW reason \in Seq(Byte), NEW r \in Int,
           wslay_event_queue_close(close_status, status, reason, r), ret' = r,
           UNCHANGED << write_enabled, error, frameVars, sendVars >>
    PROVE  IInv'
<1>1. CASE close_status' = close_status /\ UNCHANGED queueVars
  <2>1. write_enabled' \in BOOLEAN /\ write_enabled' = write_enabled
    BY TypeFacts, Zenon DEF IInv
  <2>2. UNCHANGED << close_status, error, queueVars, frameVars, sendVars >>
    BY <1>1
  <2> QED  BY <2>1, <2>2, QuietLemma
<1>2. CASE /\ Len(reason) <= CtrlMax - 2
           /\ wslay_event_queue_msg(WSLAY_CONNECTION_CLOSE,
                                    CloseBody(status, reason), r)
           /\ close_status' = IF r = 0 THEN close_status \cup {"QUEUED"}
                              ELSE close_status
  <2>1. CloseBody(status, reason) \in Seq(Byte)
    BY <1>2, CloseBodyLemma
  <2>2. WSLAY_CONNECTION_CLOSE \in Opcodes
    BY DEF Opcodes
  <2>3. \/ close_status' = close_status
        \/ /\ r = 0 /\ WSLAY_CONNECTION_CLOSE = WSLAY_CONNECTION_CLOSE
           /\ close_status' = close_status \cup {"QUEUED"}
    BY <1>2
  <2> QED  BY <1>2, <2>1, <2>2, <2>3, QueueMsgLemma
<1> QED  BY <1>1, <1>2 DEF wslay_event_queue_close
-----------------------------------------------------------------------------
(* The theorems *)

(* The invariant holds of a new context.                                   *)
LEMMA InitLemma ==
    Init => IInv
<1> SUFFICES ASSUME Init PROVE IInv
  OBVIOUS
<1>1. /\ write_enabled = TRUE /\ close_status = {} /\ error = 0
      /\ send_queue = << >> /\ send_ctrl_queue = << >>
      /\ queued_msg_count = 0 /\ queued_msg_length = 0 /\ ret = 0
      /\ accepted = << >> /\ wire = << >> /\ omsg = NoMsg /\ obuf = << >>
      /\ opayloadlen = 0 /\ opayloadoff = 0
      /\ status_code_sent = WSLAY_CODE_ABNORMAL_CLOSURE
      /\ frame_ctx = frame_context_new
  BY DEF Init, QueueInit, FrameInit
<1>2. TypeOK
  <2>1. frame_context_new \in FrameContext
    BY DEF frame_context_new, FrameContext, OState, Header, Opcodes
  <2>2. NoMsg \in OMsg
    BY DEF NoMsg, OMsg, MsgType, Opcodes
  <2>3. WSLAY_CODE_ABNORMAL_CLOSURE \in StatusCode
    BY SMT DEF WSLAY_CODE_ABNORMAL_CLOSURE, StatusCode, UINT16_MAX
  <2>4. /\ << >> \in Seq(OMsg) /\ << >> \in Seq(WireFrame) /\ << >> \in Seq(Byte)
        /\ 0 \in Nat /\ 0 \in Int /\ 0 \in CallbackErrors /\ TRUE \in BOOLEAN
        /\ {} \in SUBSET CloseStatus
    BY DEF CallbackErrors
  <2> QED  BY <1>1, <2>1, <2>2, <2>3, <2>4, Zenon DEF TypeOK, QueueTypeOK, FrameTypeOK
<1>3. frame_ctx.ostate = "PREP_HEADER"
  BY <1>1 DEF frame_context_new
<1>4. HeaderIncomplete(frame_ctx) /\ LayersInSync
  BY <1>1, <1>3 DEF HeaderIncomplete, LayersInSync, InSync
<1>5. QueuesWellFormed
  BY <1>1 DEF QueuesWellFormed, IsCurrentItem
<1>6. CloseIsLast /\ CloseNotLost
  BY <1>1 DEF CloseIsLast, CloseNotLost
<1>7. CountInv
  BY <1>1 DEF CountInv, Pending
<1> QED  BY <1>2, <1>4, <1>5, <1>6, <1>7 DEF IInv

(* Every step of the library and of the application keeps the invariant.   *)
LEMMA NextLemma ==
    IInv /\ [Next]_vars => IInv'
<1> SUFFICES ASSUME IInv, [Next]_vars PROVE IInv'
  OBVIOUS
<1>1. CASE wslay_event_send
  BY <1>1, EventSendLemma
<1>2. CASE PushFrontFails
  <2>1. /\ write_enabled' = FALSE /\ ret' = 1
        /\ UNCHANGED << close_status, error, queueVars, frameVars, sendVars >>
    BY <1>2 DEF PushFrontFails
  <2>2. write_enabled' \in BOOLEAN /\ ~write_enabled'
    BY <2>1, Zenon
  <2>3. ret' \in Int
    BY <2>1
  <2> QED  BY <2>1, <2>2, <2>3, QuietLemma
<1>3. CASE QueueMsg
  <2>1. PICK opcode \in AppOpcodes, len \in 0..MaxLen, r \in QueueReturns :
          wslay_event_queue_msg(opcode, NewPayload(len), r) /\ ret' = r
    BY <1>3 DEF QueueMsg
  <2>2. opcode \in Opcodes
    BY EventSendAssumption
  <2>3. NewPayload(len) \in Seq(Byte)
    BY <1>3, NewPayloadLemma DEF QueueMsg, IInv
  <2>4. r \in Int
    BY DEF QueueReturns, WSLAY_ERR_NO_MORE_MSG, WSLAY_ERR_INVALID_ARGUMENT
  <2>5. /\ close_status' = close_status
        /\ UNCHANGED << write_enabled, error, frameVars, sendVars >>
    BY <1>3 DEF QueueMsg
  <2> QED  BY <2>1, <2>2, <2>3, <2>4, <2>5, QueueMsgLemma
<1>4. CASE QueueFragmentedMsg
  <2>1. PICK opcode \in AppOpcodes, len \in 1..MaxLen, r \in QueueReturns :
          wslay_event_queue_fragmented_msg(opcode, NewPayload(len), r) /\ ret' = r
    BY <1>4 DEF QueueFragmentedMsg
  <2>2. opcode \in Opcodes /\ len \in 0..MaxLen
    BY EventSendAssumption
  <2>3. NewPayload(len) \in Seq(Byte)
    BY <1>4, <2>2, NewPayloadLemma DEF QueueFragmentedMsg, IInv
  <2>4. r \in Int
    BY DEF QueueReturns, WSLAY_ERR_NO_MORE_MSG, WSLAY_ERR_INVALID_ARGUMENT
  <2>5. UNCHANGED << write_enabled, close_status, error, frameVars, sendVars >>
    BY <1>4 DEF QueueFragmentedMsg
  <2> QED  BY <2>1, <2>2, <2>3, <2>4, <2>5, QueueFragmentedMsgLemma
<1>5. CASE QueueClose
  <2>1. PICK status \in AppStatus, len \in 0..MaxLen, r \in QueueReturns :
          /\ wslay_event_queue_close(close_status, status, NewPayload(len), r)
          /\ ret' = r
    BY <1>5 DEF QueueClose
  <2>2. status \in StatusCode
    BY EventSendAssumption
  <2>3. NewPayload(len) \in Seq(Byte)
    BY <1>5, NewPayloadLemma DEF QueueClose, IInv
  <2>4. r \in Int
    BY DEF QueueReturns, WSLAY_ERR_NO_MORE_MSG, WSLAY_ERR_INVALID_ARGUMENT
  <2>5. UNCHANGED << write_enabled, error, frameVars, sendVars >>
    BY <1>5 DEF QueueClose
  <2> QED  BY <2>1, <2>2, <2>3, <2>4, <2>5, QueueCloseLemma
<1>6. CASE wslay_event_shutdown_write
  <2>1. /\ write_enabled' = FALSE /\ ret' = ret
        /\ UNCHANGED << close_status, error, queueVars, frameVars, sendVars >>
    BY <1>6 DEF wslay_event_shutdown_write
  <2>2. write_enabled' \in BOOLEAN /\ ~write_enabled'
    BY <2>1, Zenon
  <2>3. ret' \in Int
    BY <2>1, TypeFacts, Zenon DEF IInv
  <2> QED  BY <2>1, <2>2, <2>3, QuietLemma
<1>7. CASE UNCHANGED vars
  <2>1. /\ write_enabled' = write_enabled /\ ret' = ret
        /\ UNCHANGED << close_status, error, queueVars, frameVars, sendVars >>
    BY <1>7 DEF vars
  <2>2. write_enabled' \in BOOLEAN /\ ret' \in Int
    BY <2>1, TypeFacts, Zenon DEF IInv
  <2> QED  BY <2>1, <2>2, QuietLemma
<1> QED  BY <1>1, <1>2, <1>3, <1>4, <1>5, <1>6, <1>7 DEF Next

(* The frame a call begins.                                                *)
LEMMA BeginsLemma ==
    ASSUME IInv, NEW s, NEW data, NEW o, SelectionOK(s), CallEffect(s, data, o),
           wire' = o.wire, "QUEUED" \in close_status, Len(wire') > Len(wire)
    PROVE  \/ wire'[Len(wire')].header.opcode = WSLAY_CONNECTION_CLOSE
           \/ omsg # NoMsg /\ frame_ctx.ostate = "SEND_HEADER"
<1>1. frame_ctx \in FrameContext /\ wire \in Seq(WireFrame)
  BY TypeFacts, Zenon DEF IInv
<1>2. ~IsUnderWay(frame_ctx) /\ OneMoreFrame(wire, o.wire, MsgHeader(s))
  <2>1. SameFrames(wire, o.wire)
        \/ (~IsUnderWay(frame_ctx) /\ OneMoreFrame(wire, o.wire, MsgHeader(s)))
    BY DEF CallEffect, Effect
  <2>2. Len(wire) \in Nat /\ ~SameFrames(wire, o.wire)
    BY <1>1 DEF SameFrames
  <2> QED  BY <2>1, <2>2
<1>3. wire'[Len(wire')].header.opcode = s.omsg.opcode
  BY <1>2 DEF OneMoreFrame, MsgHeader
<1>4. IsClose(s.omsg) \/ (frame_ctx.ostate # "PREP_HEADER" /\ omsg # NoMsg)
  BY DEF SelectionOK
<1>5. frame_ctx.ostate \in {"PREP_HEADER", "SEND_HEADER"}
  BY <1>1, <1>2 DEF FrameContext, OState, IsUnderWay
<1> QED  BY <1>3, <1>4, <1>5 DEF IsClose

(* Where an iteration writes to the wire, it does so in such a call.       *)
LEMMA WritesLemma ==
    ASSUME IInv, wslay_event_send, wire' # wire
    PROVE  \E s, data, o :
             SelectionOK(s) /\ CallEffect(s, data, o) /\ wire' = o.wire
<1> DEFINE s == Selected
<1>1. wslay_event_want_write
  BY DEF wslay_event_send
<1>2. Ready(s)
  BY <1>1, SelectedLemma
<1>3. ( CASE s.omsg.type = "NULL" -> NothingSelected(s)
          [] s.omsg.type = "NON_FRAGMENTED" -> SendNonFragmented(s)
          [] s.omsg.type = "FRAGMENTED" -> SendFragmented(s) )
  BY DEF wslay_event_send
<1> HIDE DEF s
<1>4. SelectionOK(s) /\ s.omsg \in OMsg /\ s.omsg.type # "NULL"
  BY <1>2 DEF Ready, SelectionOK, Selection
<1>5. s.omsg.type \in {"NON_FRAGMENTED", "FRAGMENTED"}
  BY <1>4 DEF OMsg, MsgType
<1>6. ASSUME NEW t, NEW buf, Calling(t, buf, buf), SendFragment(t, buf)
      PROVE  \E u, data, o :
               SelectionOK(u) /\ CallEffect(u, data, o) /\ wire' = o.wire
  <2>1. PICK o \in wslay_frame_send(frame_ctx, wire,
                 Iocb(t.omsg.fin, t.omsg.opcode, ~Server, t.opayloadlen, buf)) :
          Keep(t, o)
    BY <1>6 DEF SendFragment
  <2>2. CallEffect(t, buf, o)
    BY <1>6, <2>1, CallLemma
  <2>3. SelectionOK(t) /\ wire' = o.wire
    BY <1>6, <2>1 DEF Calling, Keep
  <2> QED  BY <2>2, <2>3
<1>7. CASE s.omsg.type = "NON_FRAGMENTED"
  <2> DEFINE data == SubSeq(s.omsg.data, s.opayloadoff + 1, s.opayloadlen)
  <2>1. Calling(s, << >>, data) /\ s.omsg.fin = TRUE
    BY <1>2, <1>7, NonFragmentedCallLemma
  <2>2. SendNonFragmented(s)
    BY <1>3, <1>7
  <2>3. PICK o \in wslay_frame_send(frame_ctx, wire,
                 Iocb(TRUE, s.omsg.opcode, ~Server, s.opayloadlen, data)) :
          Keep(s, o)
    BY <2>2 DEF SendNonFragmented
  <2> HIDE DEF data
  <2>4. CallEffect(s, data, o)
    BY <2>1, <2>3, CallLemma
  <2>5. wire' = o.wire
    BY <2>3 DEF Keep
  <2> QED  BY <1>4, <2>4, <2>5
<1>8. CASE s.omsg.type = "FRAGMENTED"
  <2>1. SendFragmented(s) /\ FragmentedReady(s)
    BY <1>2, <1>3, <1>8 DEF Ready
  <2>2. CASE ~s.omsg.fin /\ obuf = << >>
    <3>1. frame_ctx.ostate = "PREP_HEADER" /\ s.omsg.source \in Seq(Byte)
      BY <1>4, <2>1, <2>2 DEF FragmentedReady, OMsg
    <3>2. ~ReadNothing(s)
      BY DEF ReadNothing, frameVars
    <3>3. PICK in \in ReadCallback(s.omsg.source) :
            \E t \in { [ s EXCEPT !.omsg.fin = in.eof, !.omsg.source = in.rest,
                                  !.opayloadlen = Len(in.data),
                                  !.opayloadoff = 0 ] } :
              SendFragment(t, in.data)
      BY <2>1, <2>2, <3>2 DEF SendFragmented
    <3>4. PICK t : /\ t = [ s EXCEPT !.omsg.fin = in.eof, !.omsg.source = in.rest,
                                     !.opayloadlen = Len(in.data),
                                     !.opayloadoff = 0 ]
                   /\ SendFragment(t, in.data)
      BY <3>3
    <3>5. /\ in.data \in Seq(Byte) /\ in.data # << >>
          /\ in.eof \in BOOLEAN /\ in.rest \in Seq(Byte)
      BY <3>1, ReadLemma
    <3>6. Calling(t, in.data, in.data)
      BY <1>4, <1>8, <3>1, <3>4, <3>5, FragmentReadLemma
    <3> QED  BY <1>6, <3>4, <3>6
  <2>3. CASE ~(~s.omsg.fin /\ obuf = << >>)
    <3>1. SendFragment(s, obuf)
      BY <2>1, <2>3 DEF SendFragmented
    <3>2. /\ frame_ctx.ostate # "PREP_HEADER" /\ HeaderMatches(s)
          /\ obuf # << >> /\ frame_ctx.opayloadoff + Len(obuf) = s.opayloadlen
      BY <2>1, <2>3 DEF FragmentedReady
    <3>3. obuf \in Seq(Byte)
      BY TypeFacts, Zenon DEF IInv
    <3>4. Calling(s, obuf, obuf)
      BY <1>4, <1>8, <3>2, <3>3 DEF Calling, FrameOffset
    <3> QED  BY <1>6, <3>1, <3>4
  <2> QED  BY <2>2, <2>3
<1> QED  BY <1>5, <1>7, <1>8

(* wslay_event_send accepts nothing and records no Close as queued.        *)
LEMMA AcceptedLemma ==
    ASSUME IInv, wslay_event_send
    PROVE  /\ accepted' = accepted
           /\ close_status \subseteq close_status'
           /\ close_status' \subseteq close_status \cup {"SENT"}
<1>1. ASSUME NEW s, NEW buf, NEW off, SentWhole(s, buf, off)
      PROVE  close_status' \in { close_status, close_status \cup {"SENT"} }
  BY <1>1 DEF SentWhole
<1>2. ASSUME NEW s, NEW buf, NEW off, SentPartly(s, buf, off)
      PROVE  close_status' \in { close_status, close_status \cup {"SENT"} }
  BY <1>2 DEF SentPartly
<1>3. ASSUME NEW s, NEW buf, NEW r, NotSent(s, buf, r)
      PROVE  close_status' \in { close_status, close_status \cup {"SENT"} }
  BY <1>3 DEF NotSent
<1>4. ASSUME NEW s, NEW o, Keep(s, o)
      PROVE  accepted' = accepted
  BY <1>4 DEF Keep
<1>5. ASSUME NEW s, SendNonFragmented(s)
      PROVE  /\ accepted' = accepted
             /\ close_status' \in { close_status, close_status \cup {"SENT"} }
  BY <1>1, <1>2, <1>3, <1>4, <1>5, Zenon DEF SendNonFragmented
<1>6. ASSUME NEW s, NEW buf, SendFragment(s, buf)
      PROVE  /\ accepted' = accepted
             /\ close_status' \in { close_status, close_status \cup {"SENT"} }
  BY <1>1, <1>2, <1>3, <1>4, <1>6, Zenon DEF SendFragment
<1>7. ASSUME NEW s, ReadNothing(s) \/ NothingSelected(s)
      PROVE  /\ accepted' = accepted
             /\ close_status' \in { close_status, close_status \cup {"SENT"} }
  BY <1>7 DEF ReadNothing, NothingSelected
<1>8. ASSUME NEW s, SendFragmented(s)
      PROVE  /\ accepted' = accepted
             /\ close_status' \in { close_status, close_status \cup {"SENT"} }
  BY <1>6, <1>7, <1>8, Zenon DEF SendFragmented
<1> DEFINE s == Selected
<1>9. wslay_event_want_write
  BY DEF wslay_event_send
<1>10. Ready(s)
  BY <1>9, SelectedLemma
<1>11. ( CASE s.omsg.type = "NULL" -> NothingSelected(s)
           [] s.omsg.type = "NON_FRAGMENTED" -> SendNonFragmented(s)
           [] s.omsg.type = "FRAGMENTED" -> SendFragmented(s) )
  BY DEF wslay_event_send
<1> HIDE DEF s
<1>12. SelectionOK(s) /\ s.omsg \in OMsg /\ s.omsg.type # "NULL"
  BY <1>10 DEF Ready, SelectionOK, Selection
<1>13. s.omsg.type \in {"NON_FRAGMENTED", "FRAGMENTED"}
  BY <1>12 DEF OMsg, MsgType
<1>14. SendNonFragmented(s) \/ SendFragmented(s)
  BY <1>11, <1>13
<1>15. /\ accepted' = accepted
       /\ close_status' \in { close_status, close_status \cup {"SENT"} }
  BY <1>5, <1>8, <1>14, Zenon
<1> QED  BY <1>15

(* The invariant holds in every reachable state, whatever the constants.   *)
THEOREM Invariance == Spec => []IInv
<1>1. Init => IInv
  BY InitLemma
<1>2. IInv /\ [Next]_vars => IInv'
  BY NextLemma
<1> QED  BY <1>1, <1>2, PTL DEF Spec

(* Every field of the event context and of the frame context keeps its     *)
(* type in the sending half of event.c and frame.c.                        *)
THEOREM TypeCorrect == Spec => []TypeOK
<1>1. IInv => TypeOK
  BY DEF IInv
<1> QED  BY <1>1, Invariance, PTL

(* The offsets the event layer and the frame layer keep for the same frame *)
(* agree between any two iterations of wslay_event_send.                   *)
THEOREM LayersStayInSync == Spec => []LayersInSync
<1>1. IInv => LayersInSync
  BY DEF IInv
<1> QED  BY <1>1, Invariance, PTL

(* A message is always on the queue wslay_event_send expects it on.        *)
THEOREM QueuesStayWellFormed == Spec => []QueuesWellFormed
<1>1. IInv => QueuesWellFormed
  BY DEF IInv
<1> QED  BY <1>1, Invariance, PTL

(* Whatever the socket does, no frame follows a Close frame on the wire.   *)
THEOREM CloseStaysLast == Spec => []CloseIsLast
<1>1. IInv => CloseIsLast
  BY DEF IInv
<1> QED  BY <1>1, Invariance, PTL

(* wslay_event_send_ctrl_queue_pop never loses a queued Close.             *)
THEOREM CloseStaysQueued == Spec => []CloseNotLost
<1>1. IInv => CloseNotLost
  BY DEF IInv
<1> QED  BY <1>1, Invariance, PTL

(* queued_msg_count never wraps, and is exact until a Close is selected.   *)
THEOREM CountCorrect == Spec => []CountInv
<1>1. IInv => CountInv
  BY DEF IInv
<1> QED  BY <1>1, Invariance, PTL

(* Once a Close is queued, no frame but the Close begins on the wire.      *)
THEOREM OnlyCloseBeginsHolds == Spec => OnlyCloseBegins
<1> DEFINE A == "QUEUED" \in close_status /\ Len(wire') > Len(wire) =>
                  \/ wire'[Len(wire')].header.opcode = WSLAY_CONNECTION_CLOSE
                  \/ omsg # NoMsg /\ frame_ctx.ostate = "SEND_HEADER"
<1>1. ASSUME IInv, [Next]_vars PROVE A
  <2> SUFFICES ASSUME "QUEUED" \in close_status, Len(wire') > Len(wire)
               PROVE  \/ wire'[Len(wire')].header.opcode = WSLAY_CONNECTION_CLOSE
                      \/ omsg # NoMsg /\ frame_ctx.ostate = "SEND_HEADER"
    OBVIOUS
  <2>1. wire' # wire
    <3>1. wire \in Seq(WireFrame)
      BY <1>1, TypeFacts, Zenon DEF IInv
    <3>2. Len(wire) \in Nat
      BY <3>1
    <3> QED  BY <3>2
  <2>2. wslay_event_send
    BY <1>1, <2>1 DEF Next, PushFrontFails, QueueMsg, QueueFragmentedMsg, QueueClose,
                      wslay_event_shutdown_write, vars, frameVars
  <2>3. PICK s, data, o :
          SelectionOK(s) /\ CallEffect(s, data, o) /\ wire' = o.wire
    BY <1>1, <2>1, <2>2, WritesLemma
  <2> QED  BY <1>1, <2>3, BeginsLemma
<1>2. IInv /\ [Next]_vars => [A]_vars
  BY <1>1
<1> HIDE DEF A
<1>3. Spec => [][A]_vars
  BY <1>2, Invariance, PTL DEF Spec
<1> QED  BY <1>3 DEF OnlyCloseBegins, A

(* Nothing is accepted once wslay_event_queue_close has queued a Close,    *)
(* whatever the application queued before, a Close included (event.c       *)
(* 162-197).                                                               *)
THEOREM QueuedCloseStaysLast == Spec => []QueuedCloseIsLast
<1> DEFINE Inv == accepted \in Seq(OMsg) /\ QueuedCloseIsLast
<1>1. Init => Inv
  BY DEF Init, QueueInit, QueuedCloseIsLast
<1>2. ASSUME IInv, Inv, [Next]_vars
      PROVE  Inv'
  <2>1. CASE accepted' = accepted /\ close_status' \subseteq close_status \cup {"SENT"}
    BY <1>2, <2>1 DEF QueuedCloseIsLast
  <2>2. ASSUME NEW m \in OMsg, accepted' = Append(accepted, m),
               "QUEUED" \in close_status' => m.opcode = WSLAY_CONNECTION_CLOSE
        PROVE  Inv'
    <3>1. /\ Append(accepted, m) \in Seq(OMsg) /\ Append(accepted, m) # << >>
          /\ Append(accepted, m)[Len(Append(accepted, m))] = m
      BY <1>2, AppendProperties
    <3> QED  BY <2>2, <3>1 DEF QueuedCloseIsLast
  <2>3. CASE wslay_event_send
    <3>1. accepted' = accepted
      BY <1>2, <2>3, AcceptedLemma
    <3>2. close_status' \subseteq close_status \cup {"SENT"}
      BY <1>2, <2>3, AcceptedLemma
    <3> QED  BY <2>1, <3>1, <3>2
  <2>4. CASE PushFrontFails \/ wslay_event_shutdown_write \/ UNCHANGED vars
    <3>1. accepted' = accepted /\ close_status' = close_status
      BY <2>4 DEF PushFrontFails, wslay_event_shutdown_write, vars, queueVars
    <3> QED  BY <2>1, <3>1
  <2>5. CASE QueueMsg
    <3>1. PICK opcode \in AppOpcodes, len \in 0..MaxLen, r \in QueueReturns :
            wslay_event_queue_msg(opcode, NewPayload(len), r)
      BY <2>5 DEF QueueMsg
    <3>2. opcode \in Opcodes
      BY EventSendAssumption
    <3>3. NewPayload(len) \in Seq(Byte)
      BY <1>2, <2>5, NewPayloadLemma DEF QueueMsg, IInv
    <3>4. close_status' = close_status
      BY <2>5 DEF QueueMsg
    <3> DEFINE m == omsg_non_fragmented_new(opcode, NewPayload(len))
    <3>5. m \in OMsg /\ m.opcode = opcode
      BY <3>2, <3>3, NewMsgLemma
    <3>6. \/ accepted' = accepted
          \/ accepted' = Append(accepted, m) /\ "QUEUED" \notin close_status
      BY <3>1 DEF wslay_event_queue_msg, queueVars, Enqueue,
                  wslay_event_is_msg_queueable
    <3> HIDE DEF m
    <3> QED  BY <2>1, <2>2, <3>4, <3>5, <3>6
  <2>6. CASE QueueFragmentedMsg
    <3>1. PICK opcode \in AppOpcodes, len \in 1..MaxLen, r \in QueueReturns :
            wslay_event_queue_fragmented_msg(opcode, NewPayload(len), r)
      BY <2>6 DEF QueueFragmentedMsg
    <3>2. opcode \in Opcodes /\ len \in 0..MaxLen
      BY EventSendAssumption
    <3>3. NewPayload(len) \in Seq(Byte)
      BY <1>2, <2>6, <3>2, NewPayloadLemma DEF QueueFragmentedMsg, IInv
    <3>4. close_status' = close_status
      BY <2>6 DEF QueueFragmentedMsg
    <3> DEFINE m == omsg_fragmented_new(opcode, NewPayload(len))
    <3>5. m \in OMsg /\ m.opcode = opcode
      BY <3>2, <3>3, NewMsgLemma
    <3>6. \/ accepted' = accepted
          \/ accepted' = Append(accepted, m) /\ "QUEUED" \notin close_status
      BY <3>1 DEF wslay_event_queue_fragmented_msg, queueVars, Enqueue,
                  wslay_event_is_msg_queueable
    <3> HIDE DEF m
    <3> QED  BY <2>1, <2>2, <3>4, <3>5, <3>6
  <2>7. CASE QueueClose
    <3>1. PICK status \in AppStatus, len \in 0..MaxLen, r \in QueueReturns :
            wslay_event_queue_close(close_status, status, NewPayload(len), r)
      BY <2>7 DEF QueueClose
    <3>2. status \in StatusCode /\ WSLAY_CONNECTION_CLOSE \in Opcodes
      BY EventSendAssumption DEF Opcodes
    <3>3. NewPayload(len) \in Seq(Byte)
      BY <1>2, <2>7, NewPayloadLemma DEF QueueClose, IInv
    <3> DEFINE body == CloseBody(status, NewPayload(len))
               m == omsg_non_fragmented_new(WSLAY_CONNECTION_CLOSE, body)
    <3>4. \/ accepted' = accepted /\ close_status' \subseteq close_status \cup {"SENT"}
          \/ /\ accepted' = Append(accepted, m)
             /\ Len(NewPayload(len)) <= CtrlMax - 2
      BY <3>1 DEF wslay_event_queue_close, wslay_event_queue_msg, queueVars, Enqueue,
                  wslay_event_is_msg_queueable, MsgRefusal, WSLAY_ERR_NO_MORE_MSG,
                  WSLAY_ERR_INVALID_ARGUMENT
    <3>5. /\ Len(NewPayload(len)) <= CtrlMax - 2 => m \in OMsg
          /\ m.opcode = WSLAY_CONNECTION_CLOSE
      BY <3>2, <3>3, CloseBodyLemma, NewMsgLemma DEF omsg_non_fragmented_new
    <3> HIDE DEF m, body
    <3> QED  BY <2>1, <2>2, <3>4, <3>5
  <2> QED  BY <1>2, <2>3, <2>4, <2>5, <2>6, <2>7 DEF Next
<1>3. Inv => QueuedCloseIsLast
  OBVIOUS
<1>4. IInv /\ Inv /\ [Next]_vars => Inv'
  BY <1>2
<1> HIDE DEF Inv
<1> QED  BY <1>1, <1>3, <1>4, Invariance, PTL DEF Spec

-----------------------------------------------------------------------------
(* What the peer receives, frame by frame *)

(* The types of what the peer makes of the frames, and of the messages by  *)
(* queue.                                                                  *)
PeerMsg == [ opcode : Opcodes, data : Seq(Byte) ]

PeerState == [ ok : BOOLEAN, open : BOOLEAN, opcode : Opcodes, data : Seq(Byte),
               msgs : Seq(PeerMsg), ctrls : Seq(WireFrame) ]

Queues == [ data : Seq(OMsg), ctrl : Seq(OMsg) ]

NoQueues == [ data |-> << >>, ctrl |-> << >> ]

(* A frame extends the message it continues, or begins one.                *)
FrameOpcode(view, frame) ==
    IF frame.header.opcode # WSLAY_CONTINUATION_FRAME THEN frame.header.opcode
    ELSE view.opcode

(* What a frame adds to the message that is open, and whether it fits.     *)
FrameData(view, frame) ==
    IF frame.header.opcode # WSLAY_CONTINUATION_FRAME THEN Content(frame.body)
    ELSE view.data \o Content(frame.body)

FrameFits(view, frame) ==
    view.ok /\ (frame.header.opcode # WSLAY_CONTINUATION_FRAME <=> ~view.open)

(* What a message is made of.                                              *)
LEMMA MsgFacts ==
    ASSUME NEW m \in OMsg
    PROVE  /\ m.type \in MsgType /\ m.fin \in BOOLEAN /\ m.opcode \in Opcodes
           /\ m.data \in Seq(Byte) /\ m.source \in Seq(Byte)
           /\ Len(m.data) \in Nat /\ Len(m.source) \in Nat
           /\ Given(m) \in Seq(Byte)
<1>1. /\ m.type \in MsgType /\ m.fin \in BOOLEAN /\ m.opcode \in Opcodes
      /\ m.data \in Seq(Byte) /\ m.source \in Seq(Byte)
  BY DEF OMsg
<1> QED
  BY <1>1 DEF Given

(* The payload of a frame is a sequence of bytes, as long as its body.     *)
LEMMA ContentType ==
    ASSUME NEW body \in Seq(WireByte)
    PROVE  /\ Content(body) \in Seq(Byte) /\ Len(Content(body)) = Len(body)
           /\ \A i \in 1..Len(body) : Content(body)[i] = body[i].byte
<1>1. Len(body) \in Nat
  OBVIOUS
<1>2. \A i \in 1..Len(body) : body[i] \in WireByte
  OBVIOUS
<1>3. \A b \in WireByte : b.byte \in Byte
  BY DEF WireByte
<1>4. \A i \in 1..Len(body) : body[i].byte \in Byte
  BY <1>2, <1>3
<1>5. Content(body) = [ i \in 1..Len(body) |-> body[i].byte ]
  BY DEF Content
<1>6. Content(body) \in Seq(Byte)
  BY <1>1, <1>4, <1>5, SeqDef
<1>7. DOMAIN Content(body) = 1..Len(body)
  BY <1>5
<1> QED
  BY <1>1, <1>5, <1>6, <1>7

(* The three ways a frame is received.                                     *)
ReceivedControl(view, frame, v) ==
    /\ v.ok = view.ok /\ v.open = view.open /\ v.opcode = view.opcode
    /\ v.data = view.data /\ v.msgs = view.msgs
    /\ v.ctrls = Append(view.ctrls, frame)

(* The peer's view after a final frame that is complete, and after another *)
(* one.                                                                    *)
ReceivedLast(view, frame, v) ==
    /\ v.ok = FrameFits(view, frame) /\ ~v.open
    /\ v.opcode = WSLAY_CONTINUATION_FRAME /\ v.data = << >>
    /\ v.msgs = Append(view.msgs, [ opcode |-> FrameOpcode(view, frame),
                                   data |-> FrameData(view, frame) ])
    /\ v.ctrls = view.ctrls

ReceivedPart(view, frame, v) ==
    /\ v.ok = FrameFits(view, frame) /\ v.open
    /\ v.opcode = FrameOpcode(view, frame) /\ v.data = FrameData(view, frame)
    /\ v.msgs = view.msgs /\ v.ctrls = view.ctrls

(* What Receive makes of a frame, case by case, and that it is well-typed. *)
LEMMA ReceiveLemma ==
    ASSUME NEW view \in PeerState, NEW frame \in WireFrame
    PROVE  LET v == Receive(view, frame)
               ctrl == wslay_is_ctrl_frame(frame.header.opcode)
               last == frame.header.fin /\ IsComplete(frame)
           IN  /\ v \in PeerState
               /\ ctrl => ReceivedControl(view, frame, v)
               /\ ~ctrl /\ last => ReceivedLast(view, frame, v)
               /\ ~ctrl /\ ~last => ReceivedPart(view, frame, v)
<1> DEFINE h == frame.header
           begins == h.opcode # WSLAY_CONTINUATION_FRAME
           ok == FrameFits(view, frame)
           opcode == FrameOpcode(view, frame)
           data == FrameData(view, frame)
           m == [ opcode |-> opcode, data |-> data ]
           msgs == Append(view.msgs, m)
           ctrls == Append(view.ctrls, frame)
           ctrl == wslay_is_ctrl_frame(h.opcode)
           last == h.fin /\ IsComplete(frame)
           C == [ view EXCEPT !.ctrls = ctrls ]
           L == [ ok |-> ok, open |-> FALSE, opcode |-> WSLAY_CONTINUATION_FRAME,
                  data |-> << >>, msgs |-> msgs, ctrls |-> view.ctrls ]
           P == [ view EXCEPT !.ok = ok, !.open = TRUE, !.opcode = opcode, !.data = data ]
<1>1. Receive(view, frame) = IF ctrl THEN C ELSE IF last THEN L ELSE P
  BY Zenon DEF Receive, FrameFits, FrameOpcode, FrameData
<1>2. h \in Header /\ frame.body \in Seq(WireByte)
  BY DEF WireFrame
<1>3. Content(frame.body) \in Seq(Byte) /\ h.opcode \in Opcodes
  BY <1>2, ContentType DEF Header
<1>4. /\ view.ok \in BOOLEAN /\ view.open \in BOOLEAN /\ view.opcode \in Opcodes
      /\ view.data \in Seq(Byte) /\ view.msgs \in Seq(PeerMsg)
      /\ view.ctrls \in Seq(WireFrame)
  BY DEF PeerState
<1>5. ok \in BOOLEAN
  BY DEF FrameFits
<1>6. opcode \in Opcodes /\ data \in Seq(Byte)
  BY <1>3, <1>4 DEF FrameOpcode, FrameData
<1> HIDE DEF ok, opcode, data
<1>7. m \in PeerMsg
  BY <1>6 DEF PeerMsg
<1> HIDE DEF m
<1>8. msgs \in Seq(PeerMsg) /\ ctrls \in Seq(WireFrame)
  BY <1>4, <1>7
<1>9. WSLAY_CONTINUATION_FRAME \in Opcodes
  BY DEF Opcodes
<1> HIDE DEF msgs, ctrls
<1>10. C \in PeerState /\ ReceivedControl(view, frame, C)
  <2>1. C \in PeerState
    BY <1>8 DEF PeerState
  <2>2. /\ C.ok = view.ok /\ C.open = view.open /\ C.opcode = view.opcode
        /\ C.data = view.data /\ C.msgs = view.msgs /\ C.ctrls = ctrls
    BY DEF PeerState
  <2> QED  BY <2>1, <2>2, Zenon DEF ReceivedControl, ctrls
<1>11. L \in PeerState /\ ReceivedLast(view, frame, L)
  <2>1. L \in PeerState
    BY <1>4, <1>5, <1>8, <1>9 DEF PeerState
  <2>2. /\ L.ok = ok /\ L.open = FALSE /\ L.opcode = WSLAY_CONTINUATION_FRAME
        /\ L.data = << >> /\ L.msgs = msgs /\ L.ctrls = view.ctrls
    OBVIOUS
  <2> QED  BY <2>1, <2>2, Zenon DEF ReceivedLast, msgs, m, ok, opcode, data
<1>12. P \in PeerState /\ ReceivedPart(view, frame, P)
  <2>1. P \in PeerState
    BY <1>5, <1>6 DEF PeerState
  <2>2. /\ P.ok = ok /\ P.open = TRUE /\ P.opcode = opcode
        /\ P.data = data /\ P.msgs = view.msgs /\ P.ctrls = view.ctrls
    BY DEF PeerState
  <2> QED  BY <2>1, <2>2, Zenon DEF ReceivedPart, ok, opcode, data
<1> HIDE DEF C, L, P
<1> QED  BY <1>1, <1>10, <1>11, <1>12, Zenon

(* Receive, Sort and the addition of a length as steps of a fold.          *)
ReceiveStep == [ p \in PeerState \X WireFrame |-> Receive(p[1], p[2]) ]

(* PeerReceives is a fold.                                                 *)
LEMMA PeerReceivesFolds ==
    ASSUME NEW frames \in Seq(WireFrame)
    PROVE  \E f \in [ 0..Len(frames) -> PeerState ] :
             /\ IsFold(f, NothingReceived, ReceiveStep, frames)
             /\ PeerReceives(frames) = f[Len(frames)]
<1> DEFINE n == Len(frames)
           Walk(f) == [ i \in 0..n |-> IF i = 0 THEN NothingReceived
                                       ELSE Receive(f[i - 1], frames[i]) ]
           at == CHOOSE f : f = Walk(f)
<1>1. n \in Nat /\ \A i \in 1..n : frames[i] \in WireFrame
  OBVIOUS
<1>2. ReceiveStep \in Steps(PeerState, WireFrame) /\ NothingReceived \in PeerState
  <2>1. \A v \in PeerState, f \in WireFrame : Receive(v, f) \in PeerState
    BY ReceiveLemma
  <2>2. ReceiveStep \in Steps(PeerState, WireFrame)
    BY <2>1 DEF Steps, ReceiveStep
  <2>3. NothingReceived \in PeerState
    BY DEF NothingReceived, PeerState, Opcodes
  <2> QED
    BY <2>2, <2>3
<1>3. \A v \in PeerState, f \in WireFrame : ReceiveStep[<< v, f >>] = Receive(v, f)
  BY DEF ReceiveStep
<1>4. PICK f \in [ 0..n -> PeerState ] : IsFold(f, NothingReceived, ReceiveStep, frames)
  BY <1>2, FoldExists
<1>5. \A i \in 1..n : i - 1 \in 0..n /\ f[i] = Receive(f[i - 1], frames[i])
  <2> SUFFICES ASSUME NEW i \in 1..n
               PROVE  i - 1 \in 0..n /\ f[i] = Receive(f[i - 1], frames[i])
    OBVIOUS
  <2>1. i - 1 \in 0..n /\ frames[i] \in WireFrame
    BY <1>1
  <2>2. f[i - 1] \in PeerState
    BY <2>1
  <2>3. f[i] = ReceiveStep[<< f[i - 1], frames[i] >>]
    BY <1>4 DEF IsFold
  <2> QED
    BY <1>3, <2>1, <2>2, <2>3
<1>6. f = Walk(f)
  <2>1. \A i \in 0..n : f[i] = Walk(f)[i]
    BY <1>1, <1>4, <1>5 DEF IsFold
  <2> QED
    BY <2>1
<1>7. at = Walk(at)
  BY <1>6, Zenon
<1>8. PeerReceives(frames) = at[n]
  BY Zenon DEF PeerReceives
<1> HIDE DEF at
<1>9. \A i \in 0..n : at[i] = f[i]
  <2> DEFINE Same == { i \in 0..n : at[i] = f[i] }
  <2>1. 0 \in Same
    BY <1>1, <1>4, <1>7 DEF IsFold
  <2>2. ASSUME NEW i \in 1..n, i - 1 \in Same PROVE i \in Same
    <3>1. at[i - 1] = f[i - 1]
      BY <2>2
    <3>2. at[i] = Receive(at[i - 1], frames[i])
      BY <1>1, <1>7
    <3> QED
      BY <1>1, <1>5, <3>1, <3>2
  <2>3. \A i \in 0..n : i \in Same
    <3> HIDE DEF Same
    <3> QED
      BY <1>1, <2>1, <2>2, InductionUpTo
  <2> QED
    BY <2>3
<1> QED
  BY <1>1, <1>4, <1>8, <1>9

(* No frame, and one frame more.                                           *)
LEMMA PeerReceivesAppend ==
    ASSUME NEW frames \in Seq(WireFrame), NEW e \in WireFrame
    PROVE  /\ PeerReceives(frames) \in PeerState
           /\ frames = << >> => PeerReceives(frames) = NothingReceived
           /\ PeerReceives(Append(frames, e)) = Receive(PeerReceives(frames), e)
<1> DEFINE t == Append(frames, e)
<1>1. PICK f \in [ 0..Len(frames) -> PeerState ] :
        /\ IsFold(f, NothingReceived, ReceiveStep, frames)
        /\ PeerReceives(frames) = f[Len(frames)]
  BY PeerReceivesFolds
<1>2. /\ t \in Seq(WireFrame) /\ Len(t) = Len(frames) + 1 /\ Len(frames) \in Nat
      /\ t[Len(frames) + 1] = e /\ \A i \in 1..Len(frames) : t[i] = frames[i]
  OBVIOUS
<1> HIDE DEF t
<1>3. PICK g \in [ 0..Len(t) -> PeerState ] :
        /\ IsFold(g, NothingReceived, ReceiveStep, t)
        /\ PeerReceives(t) = g[Len(t)]
  BY <1>2, PeerReceivesFolds
<1>4. f[Len(frames)] \in PeerState /\ (frames = << >> => f[Len(frames)] = NothingReceived)
  BY <1>1, <1>2 DEF IsFold
<1>5. ReceiveStep[<< f[Len(frames)], e >>] = Receive(f[Len(frames)], e)
  BY <1>4 DEF ReceiveStep
<1>6. IsNextStep(f, g, ReceiveStep, frames, t)
  <2>1. IsExtension(frames, t)
    BY <1>2 DEF IsExtension
  <2> QED
    BY <1>1, <1>3, <2>1, FoldAppend
<1>7. g[Len(t)] = Receive(f[Len(frames)], e)
  BY <1>2, <1>5, <1>6 DEF IsNextStep
<1> QED
  BY <1>1, <1>3, <1>4, <1>7 DEF t

(* A message goes to one of the two queues.                                *)
LEMMA SortLemma ==
    ASSUME NEW queues \in Queues, NEW msg \in OMsg
    PROVE  LET g == Sort(queues, msg)
           IN  /\ g \in Queues
               /\ wslay_is_ctrl_frame(msg.opcode) =>
                    g.ctrl = Append(queues.ctrl, msg) /\ g.data = queues.data
               /\ ~wslay_is_ctrl_frame(msg.opcode) =>
                    g.data = Append(queues.data, msg) /\ g.ctrl = queues.ctrl
<1> DEFINE d == Append(queues.data, msg)
           c == Append(queues.ctrl, msg)
           C == [ queues EXCEPT !.ctrl = c ]
           D == [ queues EXCEPT !.data = d ]
<1>1. Sort(queues, msg) = IF wslay_is_ctrl_frame(msg.opcode) THEN C ELSE D
  BY Zenon DEF Sort
<1>2. queues.data \in Seq(OMsg) /\ queues.ctrl \in Seq(OMsg)
  BY DEF Queues
<1>3. d \in Seq(OMsg) /\ c \in Seq(OMsg)
  BY <1>2
<1> HIDE DEF d, c
<1>4. C \in Queues /\ C.ctrl = c /\ C.data = queues.data
  BY <1>3 DEF Queues
<1>5. D \in Queues /\ D.data = d /\ D.ctrl = queues.ctrl
  BY <1>3 DEF Queues
<1> HIDE DEF C, D
<1> QED  BY <1>1, <1>4, <1>5, Zenon DEF c, d

SortStep == [ p \in Queues \X OMsg |-> Sort(p[1], p[2]) ]

(* ByQueue is a fold.                                                      *)
LEMMA ByQueueFolds ==
    ASSUME NEW msgs \in Seq(OMsg)
    PROVE  \E f \in [ 0..Len(msgs) -> Queues ] :
             /\ IsFold(f, NoQueues, SortStep, msgs)
             /\ ByQueue(msgs) = f[Len(msgs)]
<1> DEFINE n == Len(msgs)
           Walk(f) == [ i \in 0..n |-> IF i = 0 THEN NoQueues
                                       ELSE Sort(f[i - 1], msgs[i]) ]
           at == CHOOSE f : f = Walk(f)
<1>1. n \in Nat /\ \A i \in 1..n : msgs[i] \in OMsg
  OBVIOUS
<1>2. SortStep \in Steps(Queues, OMsg) /\ NoQueues \in Queues
  <2>1. \A v \in Queues, m \in OMsg : Sort(v, m) \in Queues
    BY SortLemma
  <2>2. SortStep \in Steps(Queues, OMsg)
    BY <2>1 DEF Steps, SortStep
  <2>3. NoQueues \in Queues
    BY DEF NoQueues, Queues
  <2> QED
    BY <2>2, <2>3
<1>3. \A v \in Queues, f \in OMsg : SortStep[<< v, f >>] = Sort(v, f)
  BY DEF SortStep
<1>4. PICK f \in [ 0..n -> Queues ] : IsFold(f, NoQueues, SortStep, msgs)
  BY <1>2, FoldExists
<1>5. \A i \in 1..n : i - 1 \in 0..n /\ f[i] = Sort(f[i - 1], msgs[i])
  <2> SUFFICES ASSUME NEW i \in 1..n
               PROVE  i - 1 \in 0..n /\ f[i] = Sort(f[i - 1], msgs[i])
    OBVIOUS
  <2>1. i - 1 \in 0..n /\ msgs[i] \in OMsg
    BY <1>1
  <2>2. f[i - 1] \in Queues
    BY <2>1
  <2>3. f[i] = SortStep[<< f[i - 1], msgs[i] >>]
    BY <1>4 DEF IsFold
  <2> QED
    BY <1>3, <2>1, <2>2, <2>3
<1>6. f = Walk(f)
  <2>1. \A i \in 0..n : f[i] = Walk(f)[i]
    BY <1>1, <1>4, <1>5 DEF IsFold
  <2> QED
    BY <2>1
<1>7. at = Walk(at)
  BY <1>6, Zenon
<1>8. ByQueue(msgs) = at[n]
  BY Zenon DEF ByQueue, NoQueues
<1> HIDE DEF at
<1>9. \A i \in 0..n : at[i] = f[i]
  <2> DEFINE Same == { i \in 0..n : at[i] = f[i] }
  <2>1. 0 \in Same
    BY <1>1, <1>4, <1>7 DEF IsFold
  <2>2. ASSUME NEW i \in 1..n, i - 1 \in Same PROVE i \in Same
    <3>1. at[i - 1] = f[i - 1]
      BY <2>2
    <3>2. at[i] = Sort(at[i - 1], msgs[i])
      BY <1>1, <1>7
    <3> QED
      BY <1>1, <1>5, <3>1, <3>2
  <2>3. \A i \in 0..n : i \in Same
    <3> HIDE DEF Same
    <3> QED
      BY <1>1, <2>1, <2>2, InductionUpTo
  <2> QED
    BY <2>3
<1> QED
  BY <1>1, <1>4, <1>8, <1>9

(* No message, and one more.                                               *)
LEMMA ByQueueAppend ==
    ASSUME NEW msgs \in Seq(OMsg), NEW e \in OMsg
    PROVE  /\ ByQueue(msgs) \in Queues
           /\ msgs = << >> => ByQueue(msgs) = NoQueues
           /\ ByQueue(Append(msgs, e)) = Sort(ByQueue(msgs), e)
<1> DEFINE t == Append(msgs, e)
<1>1. PICK f \in [ 0..Len(msgs) -> Queues ] :
        /\ IsFold(f, NoQueues, SortStep, msgs)
        /\ ByQueue(msgs) = f[Len(msgs)]
  BY ByQueueFolds
<1>2. /\ t \in Seq(OMsg) /\ Len(t) = Len(msgs) + 1 /\ Len(msgs) \in Nat
      /\ t[Len(msgs) + 1] = e /\ \A i \in 1..Len(msgs) : t[i] = msgs[i]
  OBVIOUS
<1> HIDE DEF t
<1>3. PICK g \in [ 0..Len(t) -> Queues ] :
        /\ IsFold(g, NoQueues, SortStep, t)
        /\ ByQueue(t) = g[Len(t)]
  BY <1>2, ByQueueFolds
<1>4. f[Len(msgs)] \in Queues /\ (msgs = << >> => f[Len(msgs)] = NoQueues)
  BY <1>1, <1>2 DEF IsFold
<1>5. SortStep[<< f[Len(msgs)], e >>] = Sort(f[Len(msgs)], e)
  BY <1>4 DEF SortStep
<1>6. IsNextStep(f, g, SortStep, msgs, t)
  <2>1. IsExtension(msgs, t)
    BY <1>2 DEF IsExtension
  <2> QED
    BY <1>1, <1>3, <2>1, FoldAppend
<1>7. g[Len(t)] = Sort(f[Len(msgs)], e)
  BY <1>2, <1>5, <1>6 DEF IsNextStep
<1> QED
  BY <1>1, <1>3, <1>4, <1>7 DEF t

LengthStep == [ p \in Nat \X OMsg |-> p[1] + Len(p[2].data) ]

(* TotalLength is a fold.                                                  *)
LEMMA TotalLengthFolds ==
    ASSUME NEW msgs \in Seq(OMsg)
    PROVE  \E f \in [ 0..Len(msgs) -> Nat ] :
             /\ IsFold(f, 0, LengthStep, msgs)
             /\ TotalLength(msgs) = f[Len(msgs)]
<1> DEFINE n == Len(msgs)
           Walk(f) == [ i \in 0..n |-> IF i = 0 THEN 0
                                       ELSE f[i - 1] + Len(msgs[i].data) ]
           at == CHOOSE f : f = Walk(f)
<1>1. n \in Nat /\ \A i \in 1..n : msgs[i] \in OMsg
  OBVIOUS
<1>2. LengthStep \in Steps(Nat, OMsg) /\ 0 \in Nat
  <2>1. \A m \in OMsg : Len(m.data) \in Nat
    BY MsgFacts
  <2>2. \A v \in Nat, m \in OMsg : v + Len(m.data) \in Nat
    BY <2>1
  <2> QED
    BY <2>2 DEF Steps, LengthStep
<1>3. \A v \in Nat, m \in OMsg : LengthStep[<< v, m >>] = v + Len(m.data)
  BY DEF LengthStep
<1>4. PICK f \in [ 0..n -> Nat ] : IsFold(f, 0, LengthStep, msgs)
  BY <1>2, FoldExists
<1>5. \A i \in 1..n : i - 1 \in 0..n /\ f[i] = f[i - 1] + Len(msgs[i].data)
  <2> SUFFICES ASSUME NEW i \in 1..n
               PROVE  i - 1 \in 0..n /\ f[i] = f[i - 1] + Len(msgs[i].data)
    OBVIOUS
  <2>1. i - 1 \in 0..n /\ msgs[i] \in OMsg
    BY <1>1
  <2>2. f[i - 1] \in Nat
    BY <2>1
  <2>3. f[i] = LengthStep[<< f[i - 1], msgs[i] >>]
    BY <1>4 DEF IsFold
  <2> QED
    BY <1>3, <2>1, <2>2, <2>3
<1>6. f = Walk(f)
  <2>1. \A i \in 0..n : f[i] = Walk(f)[i]
    BY <1>1, <1>4, <1>5 DEF IsFold
  <2> QED
    BY <2>1
<1>7. at = Walk(at)
  BY <1>6, Zenon
<1>8. TotalLength(msgs) = at[n]
  BY Zenon DEF TotalLength
<1> HIDE DEF at
<1>9. \A i \in 0..n : at[i] = f[i]
  <2> DEFINE Same == { i \in 0..n : at[i] = f[i] }
  <2>1. 0 \in Same
    BY <1>1, <1>4, <1>7 DEF IsFold
  <2>2. ASSUME NEW i \in 1..n, i - 1 \in Same PROVE i \in Same
    <3>1. at[i - 1] = f[i - 1]
      BY <2>2
    <3>2. at[i] = at[i - 1] + Len(msgs[i].data)
      BY <1>1, <1>7
    <3> QED
      BY <1>1, <1>5, <3>1, <3>2
  <2>3. \A i \in 0..n : i \in Same
    <3> HIDE DEF Same
    <3> QED
      BY <1>1, <2>1, <2>2, InductionUpTo
  <2> QED
    BY <2>3
<1> QED
  BY <1>1, <1>4, <1>8, <1>9

(* The bytes of two sequences of messages.                                 *)
LEMMA TotalLengthConcat ==
    ASSUME NEW p \in Seq(OMsg), NEW q \in Seq(OMsg)
    PROVE  /\ TotalLength(p) \in Nat /\ TotalLength(q) \in Nat
           /\ TotalLength(p \o q) = TotalLength(p) + TotalLength(q)
<1> DEFINE k == Len(p)
           n == Len(q)
           t == p \o q
<1>1. /\ k \in Nat /\ n \in Nat /\ t \in Seq(OMsg) /\ Len(t) = k + n
      /\ \A i \in 1..k : t[i] = p[i]
      /\ \A i \in 1..n : t[k + i] = q[i]
  BY ConcatProperties
<1>2. PICK f \in [ 0..k -> Nat ] :
        IsFold(f, 0, LengthStep, p) /\ TotalLength(p) = f[k]
  BY TotalLengthFolds
<1>3. PICK g \in [ 0..n -> Nat ] :
        IsFold(g, 0, LengthStep, q) /\ TotalLength(q) = g[n]
  BY TotalLengthFolds
<1> HIDE DEF t
<1>4. PICK h \in [ 0..Len(t) -> Nat ] :
        IsFold(h, 0, LengthStep, t) /\ TotalLength(t) = h[Len(t)]
  BY <1>1, TotalLengthFolds
<1> HIDE DEF k, n
<1>5. /\ \A i \in 1..k : f[i] = LengthStep[<< f[i - 1], p[i] >>]
      /\ \A i \in 1..n : g[i] = LengthStep[<< g[i - 1], q[i] >>]
      /\ \A i \in 1..(k + n) : h[i] = LengthStep[<< h[i - 1], t[i] >>]
      /\ f[0] = 0 /\ g[0] = 0 /\ h[0] = 0
  BY <1>1, <1>2, <1>3, <1>4 DEF IsFold, k, n
<1>6. \A v \in Nat, m \in OMsg : LengthStep[<< v, m >>] = v + Len(m.data)
  BY DEF LengthStep
<1>7. h[k] = f[k]
  <2> DEFINE Same == { i \in 0..k : h[i] = f[i] }
  <2>1. 0 \in Same
    BY <1>1, <1>5
  <2>2. ASSUME NEW i \in 1..k, i - 1 \in Same PROVE i \in Same
    <3>1. i \in 0..k /\ i \in 1..(k + n) /\ h[i - 1] = f[i - 1] /\ t[i] = p[i]
      BY <1>1, <2>2
    <3> QED
      BY <1>5, <3>1
  <2>3. \A i \in 0..k : i \in Same
    <3> HIDE DEF Same
    <3> QED
      BY <1>1, <2>1, <2>2, InductionUpTo
  <2> QED
    BY <1>1, <2>3
<1>8. \A i \in 0..n : h[k + i] = f[k] + g[i]
  <2> DEFINE Same == { i \in 0..n : h[k + i] = f[k] + g[i] }
  <2>1. 0 \in Same
    BY <1>1, <1>2, <1>5, <1>7
  <2>2. ASSUME NEW i \in 1..n, i - 1 \in Same PROVE i \in Same
    <3> DEFINE j == k + i
    <3>1. /\ i \in 0..n /\ i - 1 \in 0..n /\ j \in 1..(k + n)
          /\ j - 1 = k + (i - 1) /\ t[j] = q[i] /\ k \in 0..k
      BY <1>1
    <3>2. h[j - 1] = f[k] + g[i - 1]
      BY <2>2, <3>1
    <3>3. f[k] \in Nat /\ g[i - 1] \in Nat /\ q[i] \in OMsg
      <4> HIDE DEF Same, j
      <4>1. f[k] \in Nat
        BY ONLY f \in [ 0..k -> Nat ], <3>1
      <4>2. g[i - 1] \in Nat
        BY ONLY g \in [ 0..n -> Nat ], <3>1
      <4>3. i \in 1..Len(q)
        BY DEF n
      <4>4. q[i] \in OMsg
        BY ONLY q \in Seq(OMsg), <4>3
      <4> QED  BY <4>1, <4>2, <4>4
    <3>4. h[j] = LengthStep[<< h[j - 1], q[i] >>] /\ g[i] = LengthStep[<< g[i - 1], q[i] >>]
      BY <1>5, <3>1
    <3>5. Len(q[i].data) \in Nat
      BY <3>3, MsgFacts
    <3>6. h[j] = h[j - 1] + Len(q[i].data) /\ g[i] = g[i - 1] + Len(q[i].data)
      <4>1. h[j - 1] \in Nat
        BY <3>2, <3>3
      <4> HIDE DEF j
      <4> QED  BY ONLY <1>6, <3>3, <3>4, <4>1
    <3>7. h[j] = f[k] + g[i]
      <4> DEFINE x == f[k]
                 y == g[i - 1]
                 z == Len(q[i].data)
      <4>1. x \in Nat /\ y \in Nat /\ z \in Nat /\ h[j] = (x + y) + z /\ g[i] = y + z
        BY <3>2, <3>3, <3>5, <3>6
      <4> HIDE DEF x, y, z, j
      <4>2. h[j] = x + g[i]
        BY ONLY <4>1
      <4> QED  BY <4>2 DEF x
    <3> QED
      BY <3>1, <3>7
  <2>3. \A i \in 0..n : i \in Same
    <3> HIDE DEF Same
    <3> QED
      BY <1>1, <2>1, <2>2, InductionUpTo
  <2> QED
    BY <2>3
<1>9. h[Len(t)] = f[k] + g[n]
  BY <1>1, <1>8
<1> QED
  BY <1>1, <1>2, <1>3, <1>4, <1>9 DEF t

(* The bytes of no message, and of one.                                    *)
LEMMA TotalLengthOne ==
    ASSUME NEW m \in OMsg
    PROVE  TotalLength(<< >>) = 0 /\ TotalLength(<< m >>) = Len(m.data)
<1>1. TotalLength(<< >>) = 0
  <2> DEFINE t == << >>
  <2>1. t \in Seq(OMsg) /\ Len(t) = 0
    OBVIOUS
  <2> HIDE DEF t
  <2>2. PICK f \in [ 0..Len(t) -> Nat ] :
          IsFold(f, 0, LengthStep, t) /\ TotalLength(t) = f[Len(t)]
    BY <2>1, TotalLengthFolds
  <2> QED
    BY <2>1, <2>2 DEF IsFold, t
<1>2. TotalLength(<< m >>) = Len(m.data)
  <2> DEFINE t == << m >>
  <2>1. t \in Seq(OMsg) /\ Len(t) = 1 /\ t[1] = m
    OBVIOUS
  <2> HIDE DEF t
  <2>2. PICK f \in [ 0..Len(t) -> Nat ] :
          IsFold(f, 0, LengthStep, t) /\ TotalLength(t) = f[Len(t)]
    BY <2>1, TotalLengthFolds
  <2>3. f[1] = LengthStep[<< f[0], m >>] /\ f[0] = 0
    BY <2>1, <2>2 DEF IsFold
  <2>4. LengthStep[<< 0, m >>] = 0 + Len(m.data)
    BY DEF LengthStep
  <2>5. Len(m.data) \in Nat
    BY MsgFacts
  <2> QED
    BY <2>1, <2>2, <2>3, <2>4, <2>5 DEF t
<1> QED
  BY <1>1, <1>2

-----------------------------------------------------------------------------
(* Sequences with a last element                                           *)

(* A sequence is its front and its last element.                           *)
LEMMA FrontLemma ==
    ASSUME NEW S, NEW w \in Seq(S), w # << >>
    PROVE  /\ Front(w) \in Seq(S)
           /\ Len(w) \in Nat /\ Len(w) >= 1
           /\ Len(Front(w)) = Len(w) - 1
           /\ \A i \in 1..(Len(w) - 1) : Front(w)[i] = w[i]
           /\ w[Len(w)] \in S
           /\ w = Append(Front(w), w[Len(w)])
<1>1. Len(w) \in Nat /\ Len(w) >= 1 /\ Len(w) \in 1..Len(w)
  BY EmptySeq, LenProperties
<1> DEFINE u == SubSeq(w, 1, Len(w) - 1)
           e == w[Len(w)]
<1>2. /\ u \in Seq(S) /\ Len(u) = Len(w) - 1
      /\ \A i \in 1..(Len(w) - 1) : u[i] = w[i]
  <2>1. \A i \in 1..(Len(w) - 1) : w[i] \in S
    BY <1>1
  <2>2. 1 \in Int /\ Len(w) - 1 \in Int
    BY <1>1
  <2>3. /\ u \in Seq(S)
        /\ Len(u) = IF 1 <= Len(w) - 1 THEN (Len(w) - 1) - 1 + 1 ELSE 0
        /\ \A i \in 1..((Len(w) - 1) - 1 + 1) : u[i] = w[1 + i - 1]
    BY <2>1, <2>2, SubSeqProperties
  <2> HIDE DEF u
  <2>4. \A i \in 1..(Len(w) - 1) : i \in 1..((Len(w) - 1) - 1 + 1) /\ 1 + i - 1 = i
    BY <1>1
  <2>5. Len(u) = Len(w) - 1
    <3> DEFINE k == Len(w) - 1
    <3>1. k \in Int /\ k >= 0 /\ Len(u) = IF 1 <= k THEN k - 1 + 1 ELSE 0
      BY <1>1, <2>3
    <3> HIDE DEF k
    <3>2. Len(u) = k
      BY ONLY <3>1
    <3> QED  BY <3>2 DEF k
  <2>6. \A i \in 1..(Len(w) - 1) : u[i] = w[i]
    <3> SUFFICES ASSUME NEW i \in 1..(Len(w) - 1) PROVE u[i] = w[i]
      OBVIOUS
    <3>1. u[i] = w[1 + i - 1] /\ 1 + i - 1 = i
      BY <2>3, <2>4
    <3> QED  BY <3>1
  <2> QED  BY <2>3, <2>5, <2>6
<1>3. e \in S
  BY <1>1
<1>4. Front(w) = u
  BY DEF Front
<1> HIDE DEF u
<1>5. w = Append(u, e)
  <2> DEFINE v == Append(u, e)
  <2>1. /\ v \in Seq(S) /\ Len(v) = Len(u) + 1
        /\ \A i \in 1..Len(u) : v[i] = u[i]
        /\ v[Len(u) + 1] = e
    <3> HIDE DEF e
    <3>1. u \in Seq(S) /\ e \in S
      BY <1>2, <1>3
    <3> QED  BY ONLY <3>1, AppendProperties
  <2> HIDE DEF v
  <2>2. Len(w) = Len(v) /\ \A i \in 1..Len(w) : w[i] = v[i]
    BY <1>1, <1>2, <2>1
  <2>3. w = v
    BY <2>1, <2>2, SeqEqual
  <2> QED  BY <2>3 DEF v
<1> QED  BY <1>1, <1>2, <1>3, <1>4, <1>5

(* The front of a sequence with an element appended is that sequence.      *)
LEMMA FrontAppend ==
    ASSUME NEW S, NEW w \in Seq(S), NEW e \in S
    PROVE  LET v == Append(w, e)
           IN  v \in Seq(S) /\ v # << >> /\ v[Len(v)] = e /\ Front(v) = w
<1> DEFINE v == Append(w, e)
<1>1. /\ v \in Seq(S) /\ v # << >> /\ Len(v) = Len(w) + 1 /\ Len(w) \in Nat
      /\ \A i \in 1..Len(w) : v[i] = w[i]
      /\ v[Len(w) + 1] = e
  BY AppendProperties, LenProperties
<1> HIDE DEF v
<1>2. /\ Front(v) \in Seq(S) /\ Len(Front(v)) = Len(v) - 1
      /\ \A i \in 1..(Len(v) - 1) : Front(v)[i] = v[i]
  BY <1>1, FrontLemma
<1>3. Len(Front(v)) = Len(w) /\ \A i \in 1..Len(w) : Front(v)[i] = w[i]
  BY <1>1, <1>2
<1>4. Front(v) = w
  BY <1>2, <1>3, SeqEqual
<1> QED  BY <1>1, <1>4 DEF v

(* Replacing the last element leaves the front alone.                      *)
LEMMA FrontExcept ==
    ASSUME NEW S, NEW w \in Seq(S), w # << >>, NEW e \in S
    PROVE  [ w EXCEPT ![Len(w)] = e ] = Append(Front(w), e)
<1>1. /\ Front(w) \in Seq(S) /\ Len(w) \in Nat /\ Len(w) >= 1
      /\ Len(Front(w)) = Len(w) - 1
      /\ \A i \in 1..(Len(w) - 1) : Front(w)[i] = w[i]
  BY FrontLemma
<1> DEFINE v == [ w EXCEPT ![Len(w)] = e ]
           x == Append(Front(w), e)
<1>2. /\ v \in Seq(S) /\ Len(v) = Len(w)
      /\ \A i \in 1..Len(w) : v[i] = IF i = Len(w) THEN e ELSE w[i]
  BY <1>1, ExceptSeq
<1>3. /\ x \in Seq(S) /\ Len(x) = Len(w)
      /\ \A i \in 1..(Len(w) - 1) : x[i] = w[i]
      /\ x[Len(w)] = e
  BY <1>1, AppendProperties
<1> HIDE DEF v, x
<1>4. \A i \in 1..Len(v) : v[i] = x[i]
  BY <1>1, <1>2, <1>3
<1>5. v = x
  BY <1>2, <1>3, <1>4, SeqEqual
<1> QED  BY <1>5 DEF v, x

(* Cutting a sequence in two.                                              *)
LEMMA CutLemma ==
    ASSUME NEW S, NEW s \in Seq(S), NEW n \in 0..Len(s)
    PROVE  /\ SubSeq(s, 1, n) \in Seq(S) /\ Len(SubSeq(s, 1, n)) = n
           /\ SubSeq(s, n + 1, Len(s)) \in Seq(S)
           /\ Len(SubSeq(s, n + 1, Len(s))) = Len(s) - n
           /\ SubSeq(s, 1, n) \o SubSeq(s, n + 1, Len(s)) = s
<1> DEFINE a == SubSeq(s, 1, n)
           b == SubSeq(s, n + 1, Len(s))
<1>1. Len(s) \in Nat /\ n \in Nat /\ n <= Len(s) /\ n + 1 \in Int /\ Len(s) \in Int
      /\ n \in Int /\ 1 \in Int
  OBVIOUS
<1>2. a \in Seq(S) /\ Len(a) = n
  <2>1. \A i \in 1..n : s[i] \in S
    BY <1>1
  <2>2. a \in Seq(S) /\ Len(a) = IF 1 <= n THEN n - 1 + 1 ELSE 0
    BY <1>1, <2>1, SubSeqProperties
  <2> HIDE DEF a
  <2> QED  BY <1>1, <2>2
<1>3. b \in Seq(S) /\ Len(b) = Len(s) - n
  <2>1. \A i \in (n + 1)..Len(s) : s[i] \in S
    BY <1>1
  <2>2. b \in Seq(S) /\ Len(b) = IF n + 1 <= Len(s) THEN Len(s) - (n + 1) + 1 ELSE 0
    BY <1>1, <2>1, SubSeqProperties
  <2> HIDE DEF b
  <2> QED  BY <1>1, <2>2
<1>4. a \o b = s
  <2>1. a \o b = SubSeq(s, 1, Len(s))
    <3>1. 1 \in 1..(Len(s) + 1) /\ n \in (1 - 1)..Len(s) /\ Len(s) \in n..Len(s)
      BY <1>1
    <3> QED  BY <3>1, ConcatAdjacentSubSeq
  <2> QED  BY <2>1, SubSeqFull
<1> QED  BY <1>2, <1>3, <1>4

(* The beginning of a sequence is a prefix.                                *)
LEMMA PrefixLemma ==
    ASSUME NEW S, NEW s \in Seq(S), NEW t \in Seq(S)
    PROVE  IsPrefix(s, s \o t)
<1>1. /\ s \o t \in Seq(S) /\ Len(s \o t) = Len(s) + Len(t)
      /\ \A i \in 1..(Len(s) + Len(t)) : (s \o t)[i] = IF i <= Len(s) THEN s[i] ELSE t[i - Len(s)]
  BY ConcatProperties
<1>2. Len(s) \in Nat /\ Len(t) \in Nat
  OBVIOUS
<1> DEFINE u == s \o t
           n == Len(s)
<1>3. n \in 0..Len(s) /\ n \in 0..Len(u)
  BY <1>1, <1>2
<1>4. \A i \in 1..n : u[i] = s[i]
  BY <1>1, <1>2
<1> HIDE DEF u, n
<1>5. /\ SubSeq(s, 1, n) \in Seq(S) /\ SubSeq(u, 1, n) \in Seq(S)
      /\ Len(SubSeq(s, 1, n)) = n /\ Len(SubSeq(u, 1, n)) = n
  BY <1>1, <1>3, CutLemma DEF u
<1>6. \A i \in 1..n : SubSeq(s, 1, n)[i] = SubSeq(u, 1, n)[i]
  <2>1. \A i \in 1..n : SubSeq(s, 1, n)[i] = s[i] /\ SubSeq(u, 1, n)[i] = u[i]
    BY <1>3
  <2> QED  BY <1>4, <2>1
<1>7. SubSeq(s, 1, n) = SubSeq(u, 1, n)
  BY <1>5, <1>6, SeqEqual
<1>8. Len(s) <= Len(u)
  BY <1>1, <1>2 DEF u
<1> QED  BY <1>7, <1>8 DEF IsPrefix, u, n

(* The payload of bytes after bytes is their payloads one after the other. *)
LEMMA ContentConcat ==
    ASSUME NEW b \in Seq(WireByte), NEW c \in Seq(WireByte)
    PROVE  Content(b \o c) = Content(b) \o Content(c)
<1>1. /\ b \o c \in Seq(WireByte) /\ Len(b \o c) = Len(b) + Len(c)
      /\ \A i \in 1..(Len(b) + Len(c)) : (b \o c)[i] = IF i <= Len(b) THEN b[i] ELSE c[i - Len(b)]
  BY ConcatProperties
<1>2. Len(b) \in Nat /\ Len(c) \in Nat
  OBVIOUS
<1> DEFINE x == Content(b)
           y == Content(c)
           z == Content(b \o c)
           d == b \o c
<1>3. /\ x \in Seq(Byte) /\ Len(x) = Len(b) /\ \A i \in 1..Len(b) : x[i] = b[i].byte
      /\ y \in Seq(Byte) /\ Len(y) = Len(c) /\ \A i \in 1..Len(c) : y[i] = c[i].byte
  BY ContentType
<1>4. /\ z \in Seq(Byte) /\ Len(z) = Len(d) /\ \A i \in 1..Len(d) : z[i] = d[i].byte
  <2> HIDE DEF d
  <2>1. d \in Seq(WireByte)
    BY <1>1 DEF d
  <2>2. z = Content(d)
    BY DEF d
  <2> QED  BY <2>1, <2>2, ContentType
<1> HIDE DEF x, y, z
<1>5. /\ x \o y \in Seq(Byte) /\ Len(x \o y) = Len(x) + Len(y)
      /\ \A i \in 1..(Len(x) + Len(y)) : (x \o y)[i] = IF i <= Len(x) THEN x[i] ELSE y[i - Len(x)]
  <2>1. x \in Seq(Byte) /\ y \in Seq(Byte)
    BY <1>3
  <2> QED  BY ONLY <2>1, ConcatProperties
<1>6. \A i \in 1..Len(z) : z[i] = (x \o y)[i]
  <2> SUFFICES ASSUME NEW i \in 1..Len(z) PROVE z[i] = (x \o y)[i]
    OBVIOUS
  <2>1. i \in 1..(Len(b) + Len(c)) /\ z[i] = d[i].byte
    BY <1>1, <1>4
  <2>2. CASE i <= Len(b)
    BY <1>1, <1>2, <1>3, <1>5, <2>1, <2>2
  <2>3. CASE ~(i <= Len(b))
    <3> DEFINE j == i - Len(b)
    <3>1. j \in 1..Len(c)
      BY <1>2, <2>1, <2>3
    <3>2. d[i] = c[j] /\ (x \o y)[i] = y[j]
      BY <1>1, <1>3, <1>5, <2>1, <2>3
    <3> HIDE DEF j, d
    <3> QED  BY <1>3, <2>1, <3>1, <3>2
  <2> QED  BY <2>2, <2>3
<1>7. Len(z) = Len(x \o y)
  BY <1>1, <1>3, <1>4, <1>5
<1>8. z = x \o y
  BY <1>4, <1>5, <1>6, <1>7, SeqEqual
<1> QED  BY <1>8 DEF x, y, z

-----------------------------------------------------------------------------
(* What a call of wslay_frame_send adds to the wire *)

(* The frames before the one under way, and the payload bytes of that one. *)
FramesBefore(fc, w) == IF IsUnderWay(fc) THEN Front(w) ELSE w

BytesSent(fc, w) == IF IsUnderWay(fc) THEN Content(w[Len(w)].body) ELSE << >>

(* The frame under way is the last one on the wire, as far as fc says.     *)
FrameSync(fc, w) ==
    /\ fc.ostate = "SEND_HEADER" => fc.opayloadoff = 0
    /\ IsUnderWay(fc) =>
         /\ w # << >>
         /\ w[Len(w)].header = fc.oheader
         /\ Len(w[Len(w)].body) = fc.opayloadoff
         /\ fc.ostate = "SEND_HEADER" =>
              w[Len(w)].hdrlen = fc.oheaderlimit /\ w[Len(w)].hdr = fc.oheadermark
         /\ fc.ostate = "SEND_PAYLOAD" => w[Len(w)].hdr = w[Len(w)].hdrlen

(* After the frames w0 comes one with the header hd, whose payload is what *)
(* was sent of it before the call and n bytes of data.                     *)
WrittenFrame(w0, hd, bytes, data, o, f, n) ==
    /\ o.wire = Append(w0, f)
    /\ f.header = hd
    /\ Content(f.body) = bytes \o SubSeq(data, 1, n)
    /\ o.result = 0 => n = o.length /\ f.hdr = f.hdrlen
    /\ o.result = WSLAY_ERR_WANT_WRITE => n = 0 /\ IsUnderWay(o.fc)

(* What an outcome o of a call says of the wire: bytes are the first of    *)
(* data, in a frame with the header hd; or nothing is written at all;      *)
(* Advance is either.                                                      *)
Written(w0, hd, bytes, data, o) ==
    \E f \in WireFrame, n \in 0..Len(data) : WrittenFrame(w0, hd, bytes, data, o, f, n)

Unwritten(fc, w, o) ==
    /\ ~IsUnderWay(fc)
    /\ o.wire = w
    /\ o.result # 0
    /\ o.result = WSLAY_ERR_WANT_WRITE => ~IsUnderWay(o.fc)

Advance(hd, fc, w, data, o) ==
    /\ o.result \in {0, WSLAY_ERR_WANT_WRITE} => FrameSync(o.fc, o.wire)
    /\ \/ Unwritten(fc, w, o)
       \/ Written(FramesBefore(fc, w), hd, BytesSent(fc, w), data, o)

(* The fields of a frame on the wire, and of a frame with more of its      *)
(* body.                                                                   *)
LEMMA WireFrameFacts ==
    ASSUME NEW f \in WireFrame
    PROVE  /\ f.header \in Header /\ f.hdrlen \in Nat /\ f.hdr \in Nat
           /\ f.body \in Seq(WireByte) /\ Len(f.body) \in Nat
           /\ Content(f.body) \in Seq(Byte) /\ Len(Content(f.body)) = Len(f.body)
<1>1. /\ f.header \in Header /\ f.hdrlen \in Nat /\ f.hdr \in Nat
      /\ f.body \in Seq(WireByte)
  BY DEF WireFrame
<1>2. Content(f.body) \in Seq(Byte) /\ Len(Content(f.body)) = Len(f.body)
  BY <1>1, ContentType
<1> QED  BY <1>1, <1>2

(* The last frame grows by n bytes of payload (WritePayload).              *)
Grown(f, last, data, n) ==
    /\ f.header = last.header /\ f.hdr = last.hdr /\ f.hdrlen = last.hdrlen
    /\ Content(f.body) = Content(last.body) \o SubSeq(data, 1, n)
    /\ Len(f.body) = Len(last.body) + n

(* Payload in part or as a whole (WritePayload).                           *)
LEMMA WritePayloadGrows ==
    ASSUME NEW fc \in FrameContext, NEW w \in Seq(WireFrame), w # << >>,
           NEW data \in Seq(Byte), NEW n \in 0..Len(data)
    PROVE  \E f \in WireFrame :
             /\ WritePayload(fc, w, data, n) = Append(Front(w), f)
             /\ Grown(f, w[Len(w)], data, n)
<1> DEFINE last == w[Len(w)]
           sent == [ i \in 1..n |-> [ byte |-> data[i], key |-> KeyIndex(fc, i) ] ]
           f == [ last EXCEPT !.body = @ \o sent ]
<1>1. Len(w) \in Nat /\ Len(w) \in DOMAIN w /\ last \in WireFrame
  BY FrontLemma
<1>2. \A i \in 1..n : [ byte |-> data[i], key |-> KeyIndex(fc, i) ] \in WireByte
  <2> SUFFICES ASSUME NEW i \in 1..n
               PROVE  [ byte |-> data[i], key |-> KeyIndex(fc, i) ] \in WireByte
    OBVIOUS
  <2>1. data[i] \in Byte
    OBVIOUS
  <2>2. fc.opayloadoff + i - 1 \in Nat
    BY DEF FrameContext
  <2>3. (fc.opayloadoff + i - 1) % 4 \in 0..3
    BY <2>2
  <2> QED  BY <2>1, <2>3 DEF WireByte, KeyIndex, NoKey
<1>3. sent \in Seq(WireByte) /\ Len(sent) = n
  BY <1>2
<1>4. Content(sent) = SubSeq(data, 1, n)
  <2>1. /\ Content(sent) \in Seq(Byte) /\ Len(Content(sent)) = n
        /\ \A i \in 1..n : Content(sent)[i] = sent[i].byte
    <3> HIDE DEF sent
    <3> QED  BY <1>3, ContentType
  <2>2. \A i \in 1..n : sent[i].byte = data[i]
    OBVIOUS
  <2> HIDE DEF sent
  <2>3. SubSeq(data, 1, n) \in Seq(Byte) /\ Len(SubSeq(data, 1, n)) = n
    BY CutLemma
  <2>4. \A i \in 1..n : SubSeq(data, 1, n)[i] = data[i]
    OBVIOUS
  <2>5. \A i \in 1..Len(Content(sent)) : Content(sent)[i] = SubSeq(data, 1, n)[i]
    BY <2>1, <2>2, <2>4
  <2>6. Len(Content(sent)) = Len(SubSeq(data, 1, n))
    BY <2>1, <2>3
  <2>7. Content(sent) \in Seq(Byte) /\ SubSeq(data, 1, n) \in Seq(Byte)
    BY <2>1, <2>3
  <2> DEFINE x == Content(sent)
             y == SubSeq(data, 1, n)
  <2> HIDE DEF x, y
  <2>8. x \in Seq(Byte) /\ y \in Seq(Byte) /\ Len(x) = Len(y) /\ \A i \in 1..Len(x) : x[i] = y[i]
    BY <2>5, <2>6, <2>7 DEF x, y
  <2>9. x = y
    BY ONLY <2>8, SeqEqual
  <2> QED  BY <2>9 DEF x, y
<1> HIDE DEF sent
<1>5. last.body \in Seq(WireByte) /\ Len(last.body) \in Nat
  BY <1>1, WireFrameFacts
<1>6. WritePayload(fc, w, data, n) = [ w EXCEPT ![Len(w)] = f ]
  BY <1>1 DEF WritePayload, sent
<1> HIDE DEF last
<1> DEFINE body == last.body \o sent
<1>7. /\ body \in Seq(WireByte) /\ Len(body) = Len(last.body) + n
      /\ Content(body) = Content(last.body) \o SubSeq(data, 1, n)
  BY <1>3, <1>4, <1>5, ConcatProperties, ContentConcat
<1>8. f = [ last EXCEPT !.body = body ]
  OBVIOUS
<1> HIDE DEF body, f
<1>9. /\ f \in WireFrame /\ f.body = body
      /\ f.header = last.header /\ f.hdr = last.hdr /\ f.hdrlen = last.hdrlen
  BY <1>1, <1>7, <1>8 DEF WireFrame
<1>10. Grown(f, last, data, n)
  BY <1>7, <1>9 DEF Grown
<1>11. WritePayload(fc, w, data, n) = Append(Front(w), f)
  BY <1>6, <1>9, FrontExcept
<1> QED  BY <1>9, <1>10, <1>11 DEF last

(* What a SEND_PAYLOAD stage leaves.                                       *)
LEMMA PayloadWrites ==
    ASSUME NEW fc \in FrameContext, fc.ostate = "SEND_PAYLOAD",
           NEW w \in Seq(WireFrame), FrameSync(fc, w), NEW data \in Seq(Byte),
           NEW o \in SendPayload(fc, w, data)
    PROVE  /\ o.result \in {0, WSLAY_ERR_WANT_WRITE} => FrameSync(o.fc, o.wire)
           /\ Written(Front(w), fc.oheader, Content(w[Len(w)].body), data, o)
<1> DEFINE last == w[Len(w)]
<1>1. /\ w # << >> /\ last.header = fc.oheader /\ Len(last.body) = fc.opayloadoff
      /\ last.hdr = last.hdrlen
  BY DEF FrameSync, IsUnderWay
<1>2. last \in WireFrame /\ w = Append(Front(w), last) /\ Front(w) \in Seq(WireFrame)
  BY <1>1, FrontLemma
<1>3. Content(last.body) \in Seq(Byte) /\ 0 \in 0..Len(data) /\ fc.opayloadoff \in Nat
  BY <1>2, WireFrameFacts DEF FrameContext
<1>4. Content(last.body) = Content(last.body) \o SubSeq(data, 1, 0)
  <2>1. SubSeq(data, 1, 0) = << >>
    BY SubSeqEmpty
  <2> QED  BY <1>3, <2>1, ConcatEmptySeq
<1> HIDE DEF last
<1>5. ASSUME o.fc = fc, o.wire = w, o.result = WSLAY_ERR_WANT_WRITE
      PROVE  /\ o.result \in {0, WSLAY_ERR_WANT_WRITE} => FrameSync(o.fc, o.wire)
             /\ Written(Front(w), fc.oheader, Content(last.body), data, o)
  <2>1. IsUnderWay(o.fc) /\ o.result # 0
    BY <1>5 DEF IsUnderWay, WSLAY_ERR_WANT_WRITE
  <2>2. WrittenFrame(Front(w), fc.oheader, Content(last.body), data, o, last, 0)
    BY <1>1, <1>2, <1>4, <1>5, <2>1 DEF WrittenFrame
  <2> QED  BY <1>2, <1>3, <1>5, <2>2 DEF Written
<1>6. ASSUME NEW n \in 0..Len(data), o.fc = PayloadSent(fc, n), o.result = 0, o.length = n,
             NEW f \in WireFrame, o.wire = Append(Front(w), f), Grown(f, last, data, n)
      PROVE  /\ o.result \in {0, WSLAY_ERR_WANT_WRITE} => FrameSync(o.fc, o.wire)
             /\ Written(Front(w), fc.oheader, Content(last.body), data, o)
  <2>1. WrittenFrame(Front(w), fc.oheader, Content(last.body), data, o, f, n)
    BY <1>1, <1>6 DEF WrittenFrame, Grown, WSLAY_ERR_WANT_WRITE
  <2>2. n \in Nat
    OBVIOUS
  <2>3. /\ PayloadSent(fc, n).oheader = fc.oheader
        /\ PayloadSent(fc, n).opayloadoff = fc.opayloadoff + n
        /\ PayloadSent(fc, n).ostate = IF fc.opayloadoff + n = fc.opayloadlen
                                       THEN "PREP_HEADER" ELSE "SEND_PAYLOAD"
    BY ONLY <2>2, fc \in FrameContext, PayloadSentLemma
  <2>4. o.wire # << >> /\ o.wire[Len(o.wire)] = f
    BY <1>2, <1>6, FrontAppend
  <2>5. FrameSync(o.fc, o.wire)
    BY <1>1, <1>6, <2>3, <2>4 DEF FrameSync, IsUnderWay, Grown
  <2> QED  BY <1>6, <2>1, <2>5 DEF Written
<1>7. ASSUME NEW n \in 0..Len(data), o.result = WSLAY_ERR_INVALID_CALLBACK,
             NEW f \in WireFrame, o.wire = Append(Front(w), f), Grown(f, last, data, n)
      PROVE  /\ o.result \in {0, WSLAY_ERR_WANT_WRITE} => FrameSync(o.fc, o.wire)
             /\ Written(Front(w), fc.oheader, Content(last.body), data, o)
  <2>1. o.result # 0 /\ o.result # WSLAY_ERR_WANT_WRITE
    BY <1>7 DEF WSLAY_ERR_WANT_WRITE, WSLAY_ERR_INVALID_CALLBACK
  <2>2. WrittenFrame(Front(w), fc.oheader, Content(last.body), data, o, f, n)
    BY <1>1, <1>7, <2>1 DEF WrittenFrame, Grown
  <2> QED  BY <1>7, <2>1, <2>2 DEF Written
<1>8. CASE data = << >>
  <2>1. o.fc = PayloadSent(fc, 0) /\ o.wire = w /\ o.result = 0 /\ o.length = 0
    BY <1>8 DEF SendPayload, Outcome
  <2>2. Grown(last, last, data, 0)
    BY <1>1, <1>3, <1>4 DEF Grown
  <2> QED  BY <1>2, <1>3, <1>6, <2>1, <2>2 DEF last
<1>9. CASE data # << >>
  <2>1. Len(data) \in Nat /\ Len(data) > 0
    BY <1>9, EmptySeq
  <2>2. CASE o = Blocked(fc, w)
    <3>1. o.fc = fc /\ o.wire = w /\ o.result = WSLAY_ERR_WANT_WRITE
      BY <2>2 DEF Blocked, Outcome
    <3> QED  BY <1>5, <3>1 DEF last
  <2>3. ASSUME NEW n \in 1..Len(data),
               o = Outcome(PayloadSent(fc, n), WritePayload(fc, w, data, n), 0, n,
                           fc.omask /\ n < Len(data))
        PROVE  /\ o.result \in {0, WSLAY_ERR_WANT_WRITE} => FrameSync(o.fc, o.wire)
               /\ Written(Front(w), fc.oheader, Content(last.body), data, o)
    <3>1. n \in 0..Len(data)
      BY <2>1
    <3>2. PICK f \in WireFrame :
            /\ WritePayload(fc, w, data, n) = Append(Front(w), f)
            /\ Grown(f, w[Len(w)], data, n)
      BY <1>1, <3>1, WritePayloadGrows
    <3>3. /\ o.fc = PayloadSent(fc, n) /\ o.result = 0 /\ o.length = n
          /\ o.wire = WritePayload(fc, w, data, n)
      BY <2>3 DEF Outcome
    <3> QED  BY <1>6, <3>1, <3>2, <3>3 DEF last
  <2>4. ASSUME NEW n \in 0..(Len(data) - 1),
               o = Overrun([fc EXCEPT !.opayloadoff = @ + n],
                           WritePayload(fc, w, data, n))
        PROVE  /\ o.result \in {0, WSLAY_ERR_WANT_WRITE} => FrameSync(o.fc, o.wire)
               /\ Written(Front(w), fc.oheader, Content(last.body), data, o)
    <3>1. n \in 0..Len(data)
      BY <2>1
    <3>2. PICK f \in WireFrame :
            /\ WritePayload(fc, w, data, n) = Append(Front(w), f)
            /\ Grown(f, w[Len(w)], data, n)
      BY <1>1, <3>1, WritePayloadGrows
    <3>3. /\ o.result = WSLAY_ERR_INVALID_CALLBACK
          /\ o.wire = WritePayload(fc, w, data, n)
      BY <2>4 DEF Overrun, Outcome
    <3> QED  BY <1>7, <3>1, <3>2, <3>3 DEF last
  <2>5. \/ o = Blocked(fc, w)
        \/ \E n \in 1..Len(data) :
             o = Outcome(PayloadSent(fc, n), WritePayload(fc, w, data, n), 0, n,
                         fc.omask /\ n < Len(data))
        \/ \E n \in 0..(Len(data) - 1) :
             o = Overrun([fc EXCEPT !.opayloadoff = @ + n],
                         WritePayload(fc, w, data, n))
    BY <1>9, <2>1 DEF SendPayload
  <2> QED  BY <2>2, <2>3, <2>4, <2>5 DEF last
<1> QED  BY <1>8, <1>9 DEF last

(* A header in part or as a whole (WriteHeader).                           *)
LEMMA HeaderGrows ==
    ASSUME NEW fc \in FrameContext, fc.ostate = "SEND_HEADER",
           NEW w \in Seq(WireFrame), FrameSync(fc, w), NEW n \in Nat
    PROVE  /\ FramesBefore(fc, w) \in Seq(WireFrame)
           /\ BytesSent(fc, w) = << >>
           /\ \E f \in WireFrame :
                /\ WriteHeader(fc, w, n) = Append(FramesBefore(fc, w), f)
                /\ f.header = fc.oheader /\ f.hdrlen = fc.oheaderlimit
                /\ f.hdr = fc.oheadermark + n /\ f.body = << >>
<1>1. /\ fc.oheader \in Header /\ fc.oheadermark \in Nat /\ fc.oheaderlimit \in Nat
      /\ fc.opayloadoff = 0
  BY DEF FrameContext, FrameSync
<1>2. CASE fc.oheadermark = 0
  <2> DEFINE f == [ header |-> fc.oheader, hdrlen |-> fc.oheaderlimit,
                    hdr |-> n, body |-> << >> ]
  <2>1. ~IsUnderWay(fc)
    BY <1>2 DEF IsUnderWay
  <2>2. FramesBefore(fc, w) = w /\ BytesSent(fc, w) = << >>
    BY <2>1 DEF FramesBefore, BytesSent
  <2>3. f \in WireFrame
    BY <1>1 DEF WireFrame
  <2>4. WriteHeader(fc, w, n) = Append(w, f)
    BY <1>2 DEF WriteHeader
  <2>5. f.header = fc.oheader /\ f.hdrlen = fc.oheaderlimit /\ f.hdr = n /\ f.body = << >>
    OBVIOUS
  <2>6. n = fc.oheadermark + n
    BY <1>2
  <2> HIDE DEF f
  <2> QED  BY <2>2, <2>3, <2>4, <2>5, <2>6
<1>3. CASE fc.oheadermark # 0
  <2> DEFINE last == w[Len(w)]
             f == [ last EXCEPT !.hdr = @ + n ]
  <2>1. IsUnderWay(fc)
    BY <1>1, <1>3 DEF IsUnderWay
  <2>2. /\ w # << >> /\ last.header = fc.oheader /\ Len(last.body) = 0
        /\ last.hdrlen = fc.oheaderlimit /\ last.hdr = fc.oheadermark
    BY <1>1, <2>1 DEF FrameSync
  <2>3. /\ FramesBefore(fc, w) = Front(w) /\ BytesSent(fc, w) = Content(last.body)
        /\ Front(w) \in Seq(WireFrame) /\ last \in WireFrame
    BY <2>1, <2>2, FrontLemma DEF FramesBefore, BytesSent
  <2>4. WriteHeader(fc, w, n) = [ w EXCEPT ![Len(w)] = f ]
    BY <1>3, <2>2 DEF WriteHeader
  <2> HIDE DEF last
  <2>5. last.body \in Seq(WireByte) /\ Len(Content(last.body)) = Len(last.body)
        /\ Content(last.body) \in Seq(Byte)
    BY <2>3, WireFrameFacts
  <2>6. last.body = << >> /\ Content(last.body) = << >>
    BY <2>2, <2>5, EmptySeq
  <2>7. f \in WireFrame /\ f.header = last.header
    BY <2>3, WireFrameLemma
  <2>8. f.hdr = last.hdr + n /\ f.hdrlen = last.hdrlen /\ f.body = last.body
    BY <2>3 DEF WireFrame
  <2> HIDE DEF f
  <2>9. WriteHeader(fc, w, n) = Append(Front(w), f)
    BY <2>2, <2>4, <2>7, FrontExcept
  <2> QED  BY <2>2, <2>3, <2>6, <2>7, <2>8, <2>9
<1> QED  BY <1>2, <1>3

(* A stage that writes nothing.                                            *)
LEMMA NothingWritten ==
    ASSUME NEW fc \in FrameContext, NEW w \in Seq(WireFrame), FrameSync(fc, w),
           NEW data \in Seq(Byte), NEW hd, IsUnderWay(fc) => hd = fc.oheader,
           NEW o, o.fc = fc, o.wire = w, o.result # 0
    PROVE  Advance(hd, fc, w, data, o)
<1>1. FrameSync(o.fc, o.wire)
  OBVIOUS
<1>2. CASE ~IsUnderWay(fc)
  BY <1>1, <1>2 DEF Advance, Unwritten
<1>3. CASE IsUnderWay(fc)
  <2> DEFINE last == w[Len(w)]
             w0 == FramesBefore(fc, w)
             sent == BytesSent(fc, w)
  <2>1. w # << >> /\ last.header = hd
    BY <1>3 DEF FrameSync
  <2>2. w0 = Front(w) /\ sent = Content(last.body) /\ last \in WireFrame
        /\ w = Append(Front(w), last)
    BY <1>3, <2>1, FrontLemma DEF FramesBefore, BytesSent
  <2>3. 0 \in 0..Len(data) /\ SubSeq(data, 1, 0) = << >>
    BY SubSeqEmpty
  <2> HIDE DEF last, w0, sent
  <2>4. sent \in Seq(Byte)
    BY <2>2, WireFrameFacts
  <2>5. Content(last.body) = sent \o SubSeq(data, 1, 0)
    BY <2>2, <2>3, <2>4, ConcatEmptySeq
  <2>6. WrittenFrame(w0, hd, sent, data, o, last, 0)
    BY <1>3, <2>1, <2>2, <2>5 DEF WrittenFrame
  <2>7. Written(w0, hd, sent, data, o)
    BY <2>2, <2>3, <2>6 DEF Written
  <2> QED  BY <1>1, <2>7 DEF Advance, w0, sent
<1> QED  BY <1>2, <1>3

(* What a SEND_HEADER stage leaves.                                        *)
LEMMA HeaderWrites ==
    ASSUME NEW fc \in FrameContext, fc.ostate = "SEND_HEADER", HeaderIncomplete(fc),
           NEW w \in Seq(WireFrame), FrameSync(fc, w), NEW data \in Seq(Byte),
           NEW o \in SendHeader(fc, w, data)
    PROVE  Advance(fc.oheader, fc, w, data, o)
<1> DEFINE left == fc.oheaderlimit - fc.oheadermark
           w0 == FramesBefore(fc, w)
           sent == BytesSent(fc, w)
<1>1. left \in Nat /\ left > 0 /\ fc.oheadermark + left = fc.oheaderlimit
      /\ fc.oheadermark \in Nat /\ fc.oheaderlimit \in Nat /\ fc.opayloadoff = 0
  BY SMTT(30) DEF FrameContext, HeaderIncomplete, FrameSync
<1>2. 0 \in 0..Len(data) /\ SubSeq(data, 1, 0) = << >> /\ << >> \o << >> = << >>
  BY SubSeqEmpty
<1>3. w0 \in Seq(WireFrame) /\ sent = << >>
  BY HeaderGrows
<1>4. \A n \in Nat : \E f \in WireFrame :
                /\ WriteHeader(fc, w, n) = Append(w0, f)
                /\ f.header = fc.oheader /\ f.hdrlen = fc.oheaderlimit
                /\ f.hdr = fc.oheadermark + n /\ f.body = << >>
  BY HeaderGrows
<1>5. Content(<< >>) = << >>
  <2>1. << >> \in Seq(WireByte) /\ Len(<< >>) = 0
    OBVIOUS
  <2>2. Content(<< >>) \in Seq(Byte) /\ Len(Content(<< >>)) = 0
    BY <2>1, ContentType
  <2> QED  BY <2>2, EmptySeq
<1>6. o.fc = fc /\ o.wire = w /\ o.result # 0 => Advance(fc.oheader, fc, w, data, o)
  BY NothingWritten
<1>7. CASE o = Blocked(fc, w)
  <2>1. o.fc = fc /\ o.wire = w /\ o.result # 0
    BY <1>7 DEF Blocked, Outcome, WSLAY_ERR_WANT_WRITE
  <2> QED  BY <1>6, <2>1
<1>8. CASE o = Overrun(fc, w)
  <2>1. o.fc = fc /\ o.wire = w /\ o.result # 0
    BY <1>8 DEF Overrun, Outcome, WSLAY_ERR_INVALID_CALLBACK
  <2> QED  BY <1>6, <2>1
(* n header bytes are written: the two layers agree about the frame.       *)
<1>9. ASSUME NEW n \in Nat, n > 0, NEW f \in WireFrame,
             f.header = fc.oheader, f.hdrlen = fc.oheaderlimit,
             f.hdr = fc.oheadermark + n, f.body = << >>
      PROVE  /\ FrameSync(HeaderSent(fc, n), Append(w0, f))
             /\ IsUnderWay(HeaderSent(fc, n))
             /\ Front(Append(w0, f)) = w0 /\ Append(w0, f) \in Seq(WireFrame)
             /\ Append(w0, f)[Len(Append(w0, f))] = f
  <2> DEFINE hfc == HeaderSent(fc, n)
             hw == Append(w0, f)
  <2>1. /\ hfc.oheader = fc.oheader
        /\ hfc.opayloadoff = fc.opayloadoff
        /\ hfc.oheadermark = fc.oheadermark + n
        /\ hfc.oheaderlimit = fc.oheaderlimit
        /\ hfc.ostate = IF fc.oheadermark + n = fc.oheaderlimit
                        THEN "SEND_PAYLOAD" ELSE "SEND_HEADER"
    BY ONLY <1>9, fc \in FrameContext, HeaderSentLemma
  <2>2. hw # << >> /\ hw[Len(hw)] = f /\ Front(hw) = w0 /\ hw \in Seq(WireFrame)
    BY <1>3, FrontAppend
  <2>3. fc.oheadermark + n > 0
    BY <1>1, <1>9
  <2>4. Len(f.body) = 0
    BY <1>9
  <2> HIDE DEF hfc, hw
  <2>5. IsUnderWay(hfc)
    BY <2>1, <2>3 DEF IsUnderWay
  <2>6. FrameSync(hfc, hw)
    BY <1>1, <1>9, <2>1, <2>2, <2>4 DEF FrameSync
  <2> QED  BY <2>2, <2>5, <2>6 DEF hfc, hw
<1>10. ASSUME NEW n \in 1..(left - 1),
             o = Outcome(HeaderSent(fc, n), WriteHeader(fc, w, n),
                         WSLAY_ERR_WANT_WRITE, 0, FALSE)
      PROVE  Advance(fc.oheader, fc, w, data, o)
  <2>1. n \in Nat /\ n > 0
    BY <1>1
  <2>2. PICK f \in WireFrame :
                /\ WriteHeader(fc, w, n) = Append(w0, f)
                /\ f.header = fc.oheader /\ f.hdrlen = fc.oheaderlimit
                /\ f.hdr = fc.oheadermark + n /\ f.body = << >>
    BY <1>4, <2>1
  <2>3. /\ o.fc = HeaderSent(fc, n) /\ o.wire = Append(w0, f)
        /\ o.result = WSLAY_ERR_WANT_WRITE
    BY <1>10, <2>2 DEF Outcome
  <2>4. FrameSync(o.fc, o.wire) /\ IsUnderWay(o.fc)
    BY <1>9, <2>1, <2>2, <2>3
  <2> HIDE DEF w0, sent
  <2>5. Content(f.body) = sent \o SubSeq(data, 1, 0)
    BY <1>2, <1>3, <1>5, <2>2
  <2>6. WSLAY_ERR_WANT_WRITE # 0
    BY DEF WSLAY_ERR_WANT_WRITE
  <2>7. WrittenFrame(w0, fc.oheader, sent, data, o, f, 0)
    BY <2>2, <2>3, <2>4, <2>5, <2>6 DEF WrittenFrame
  <2>8. Written(w0, fc.oheader, sent, data, o)
    BY <1>2, <2>7 DEF Written
  <2> QED  BY <2>4, <2>8 DEF Advance, w0, sent
<1>11. CASE o \in SendPayload(HeaderSent(fc, left), WriteHeader(fc, w, left), data)
  <2> DEFINE hfc == HeaderSent(fc, left)
             hw  == WriteHeader(fc, w, left)
  <2>1. PICK f \in WireFrame :
                /\ hw = Append(w0, f)
                /\ f.header = fc.oheader /\ f.hdrlen = fc.oheaderlimit
                /\ f.hdr = fc.oheadermark + left /\ f.body = << >>
    BY <1>1, <1>4
  <2>2. FrameSync(hfc, hw) /\ Front(hw) = w0 /\ hw \in Seq(WireFrame) /\ hw[Len(hw)] = f
    BY <1>1, <1>9, <2>1
  <2>3. /\ hfc \in FrameContext
        /\ hfc.oheader = fc.oheader
        /\ hfc.ostate = IF fc.oheadermark + left = fc.oheaderlimit
                        THEN "SEND_PAYLOAD" ELSE "SEND_HEADER"
    <3> HIDE DEF left
    <3> QED  BY ONLY <1>1, fc \in FrameContext, HeaderSentLemma
  <2>4. hfc.ostate = "SEND_PAYLOAD"
    BY <1>1, <2>3
  <2> HIDE DEF hfc, hw
  <2>5. o \in SendPayload(hfc, hw, data)
    BY <1>11 DEF hfc, hw
  <2>6. /\ o.result \in {0, WSLAY_ERR_WANT_WRITE} => FrameSync(o.fc, o.wire)
        /\ Written(Front(hw), hfc.oheader, Content(hw[Len(hw)].body), data, o)
    BY <2>2, <2>3, <2>4, <2>5, PayloadWrites
  <2>7. Content(hw[Len(hw)].body) = sent
    BY <1>3, <1>5, <2>1, <2>2
  <2>8. Written(w0, fc.oheader, sent, data, o)
    BY <2>2, <2>3, <2>6, <2>7
  <2> QED  BY <2>6, <2>8 DEF Advance
<1>12. \/ o = Blocked(fc, w)
       \/ o = Overrun(fc, w)
       \/ \E n \in 1..(left - 1) :
            o = Outcome(HeaderSent(fc, n), WriteHeader(fc, w, n),
                        WSLAY_ERR_WANT_WRITE, 0, FALSE)
       \/ o \in SendPayload(HeaderSent(fc, left), WriteHeader(fc, w, left), data)
  BY DEF SendHeader
<1> QED  BY <1>7, <1>8, <1>10, <1>11, <1>12

(* What a call leaves, whatever the callbacks do.                          *)
LEMMA FrameSendWrites ==
    ASSUME NEW fc \in FrameContext, HeaderIncomplete(fc),
           NEW w \in Seq(WireFrame), FrameSync(fc, w), NEW iocb \in IocbType,
           NEW o \in wslay_frame_send(fc, w, iocb)
    PROVE  Advance(FrameHeader(fc, iocb), fc, w, iocb.data, o)
<1>1. iocb.data \in Seq(Byte)
  BY DEF IocbType
<1>2. ASSUME NEW e \in {WSLAY_ERR_INVALID_ARGUMENT, WSLAY_ERR_INVALID_CALLBACK},
             o = Outcome(fc, w, e, 0, FALSE)
      PROVE  Advance(FrameHeader(fc, iocb), fc, w, iocb.data, o)
  <2>1. o.fc = fc /\ o.wire = w /\ o.result # 0
    BY <1>2 DEF Outcome, WSLAY_ERR_INVALID_ARGUMENT, WSLAY_ERR_INVALID_CALLBACK
  <2>2. IsUnderWay(fc) => FrameHeader(fc, iocb) = fc.oheader
    BY DEF IsUnderWay, FrameHeader
  <2> QED  BY <1>1, <2>1, <2>2, NothingWritten
<1>3. CASE /\ fc.ostate = "PREP_HEADER"
           /\ o \in SendHeader(PrepareHeader(fc, iocb), w, iocb.data)
  <2> DEFINE p == PrepareHeader(fc, iocb)
  <2>1. /\ p \in FrameContext
        /\ p.ostate = "SEND_HEADER"
        /\ p.oheader = [ fin |-> iocb.fin, opcode |-> iocb.opcode,
                        mask |-> iocb.mask,
                        payload_length |-> iocb.payload_length ]
        /\ p.oheadermark = 0
        /\ p.oheaderlimit > 0
        /\ p.opayloadoff = 0
    BY PrepareHeaderLemma
  <2>2. o \in SendHeader(p, w, iocb.data)
    BY <1>3
  <2> HIDE DEF p
  <2>3. HeaderIncomplete(p) /\ ~IsUnderWay(p) /\ ~IsUnderWay(fc)
    BY <1>3, <2>1 DEF HeaderIncomplete, IsUnderWay
  <2>4. FrameSync(p, w)
    BY <2>1, <2>3 DEF FrameSync
  <2>5. Advance(p.oheader, p, w, iocb.data, o)
    BY <1>1, <2>1, <2>2, <2>3, <2>4, HeaderWrites
  <2>6. FrameHeader(fc, iocb) = p.oheader
    BY <1>3, <2>1 DEF FrameHeader
  <2>7. FramesBefore(p, w) = FramesBefore(fc, w) /\ BytesSent(p, w) = BytesSent(fc, w)
    BY <2>3 DEF FramesBefore, BytesSent
  <2> QED  BY <2>3, <2>5, <2>6, <2>7 DEF Advance, Unwritten
<1>4. CASE fc.ostate = "SEND_HEADER" /\ o \in SendHeader(fc, w, iocb.data)
  <2>1. Advance(fc.oheader, fc, w, iocb.data, o)
    BY <1>1, <1>4, HeaderWrites
  <2> QED  BY <1>4, <2>1 DEF FrameHeader
<1>5. CASE fc.ostate = "SEND_PAYLOAD" /\ o \in SendPayload(fc, w, iocb.data)
  <2>1. /\ o.result \in {0, WSLAY_ERR_WANT_WRITE} => FrameSync(o.fc, o.wire)
        /\ Written(Front(w), fc.oheader, Content(w[Len(w)].body), iocb.data, o)
    BY <1>1, <1>5, PayloadWrites
  <2>2. /\ FramesBefore(fc, w) = Front(w) /\ BytesSent(fc, w) = Content(w[Len(w)].body)
        /\ FrameHeader(fc, iocb) = fc.oheader
    BY <1>5 DEF FramesBefore, BytesSent, IsUnderWay, FrameHeader
  <2> QED  BY <2>1, <2>2 DEF Advance
<1>6. fc.ostate \in {"PREP_HEADER", "SEND_HEADER", "SEND_PAYLOAD"}
  BY DEF FrameContext, OState
<1> QED  BY <1>2, <1>3, <1>4, <1>5, <1>6 DEF wslay_frame_send

-----------------------------------------------------------------------------
(* What the peer has of the messages given, and what it still gets         *)

(* q is the end of g.                                                      *)
EndsWith(g, q) ==
    /\ Len(q) <= Len(g)
    /\ \A j \in 1..Len(q) : q[j] = g[Len(g) - Len(q) + j]

(* The first messages of g have arrived, in the view v.                    *)
Delivered(v, g) ==
    /\ v.ok
    /\ Len(v.msgs) <= Len(g)
    /\ \A i \in 1..Len(v.msgs) :
         v.msgs[i] = [ opcode |-> g[i].opcode, data |-> Given(g[i]) ]
    /\ ~v.open => v.data = << >>

(* bytes, in frames of which the first has the given opcode, is all that   *)
(* the peer does not have yet of the message a.                            *)
Continues(v, a, opcode, bytes) ==
    /\ v.data \o bytes = Given(a)
    /\ IF v.open THEN v.opcode = a.opcode /\ opcode = WSLAY_CONTINUATION_FRAME
       ELSE opcode = a.opcode

(* A message is being sent, of which bytes are left; q are to follow.      *)
Sending(v, g, opcode, bytes, q) ==
    /\ Delivered(v, g)
    /\ Len(v.msgs) + 1 + Len(q) = Len(g)
    /\ EndsWith(g, q)
    /\ Continues(v, g[Len(v.msgs) + 1], opcode, bytes)

(* Between two frames: the head of q is sent next, and may be what is left *)
(* of a message.                                                           *)
Waiting(v, g, q) ==
    IF q = << >> THEN Delivered(v, g) /\ ~v.open /\ Len(v.msgs) = Len(g)
    ELSE Sending(v, g, Head(q).opcode, Given(Head(q)), Tail(q))

(* No message begins with a continuation.                                  *)
GivenWell(g) == \A i \in 1..Len(g) : g[i].opcode # WSLAY_CONTINUATION_FRAME

(* The types of the peer's view.                                           *)
LEMMA ViewFacts ==
    ASSUME NEW v \in PeerState
    PROVE  /\ v.ok \in BOOLEAN /\ v.open \in BOOLEAN /\ v.opcode \in Opcodes
           /\ v.data \in Seq(Byte) /\ v.msgs \in Seq(PeerMsg) /\ v.ctrls \in Seq(WireFrame)
           /\ Len(v.msgs) \in Nat /\ Len(v.ctrls) \in Nat
<1>1. /\ v.ok \in BOOLEAN /\ v.open \in BOOLEAN /\ v.opcode \in Opcodes
      /\ v.data \in Seq(Byte) /\ v.msgs \in Seq(PeerMsg) /\ v.ctrls \in Seq(WireFrame)
  BY DEF PeerState
<1> QED  BY <1>1

(* What has arrived stays so when a message is accepted.                   *)
LEMMA DeliveredAppend ==
    ASSUME NEW v \in PeerState, NEW g \in Seq(OMsg), NEW e \in OMsg, Delivered(v, g)
    PROVE  Delivered(v, Append(g, e))
<1> DEFINE h == Append(g, e)
<1>1. Len(g) \in Nat /\ Len(h) = Len(g) + 1 /\ \A i \in 1..Len(g) : h[i] = g[i]
  OBVIOUS
<1>2. Len(v.msgs) \in Nat
  BY ViewFacts
<1> HIDE DEF h
<1>3. \A i \in 1..Len(v.msgs) : i \in 1..Len(g)
  BY <1>1, <1>2 DEF Delivered
<1>4. \A i \in 1..Len(v.msgs) : h[i] = g[i]
  BY <1>1, <1>3
<1>5. Delivered(v, h)
  BY <1>1, <1>2, <1>4 DEF Delivered
<1> QED  BY <1>5 DEF h

(* A queue stays the end of what was given when both get a message more.   *)
LEMMA EndsWithAppend ==
    ASSUME NEW g \in Seq(OMsg), NEW q \in Seq(OMsg), NEW e \in OMsg, EndsWith(g, q)
    PROVE  EndsWith(Append(g, e), Append(q, e))
<1> DEFINE h == Append(g, e)
           r == Append(q, e)
<1>1. /\ Len(g) \in Nat /\ Len(h) = Len(g) + 1 /\ \A i \in 1..Len(g) : h[i] = g[i]
      /\ h[Len(g) + 1] = e
  OBVIOUS
<1>2. /\ Len(q) \in Nat /\ Len(r) = Len(q) + 1 /\ \A i \in 1..Len(q) : r[i] = q[i]
      /\ r[Len(q) + 1] = e
  OBVIOUS
<1>3. Len(q) <= Len(g) /\ \A j \in 1..Len(q) : q[j] = g[Len(g) - Len(q) + j]
  BY DEF EndsWith
<1> HIDE DEF h, r
<1>4. ASSUME NEW j \in 1..Len(r)
      PROVE  r[j] = h[Len(h) - Len(r) + j]
  <2>1. Len(h) - Len(r) + j = Len(g) - Len(q) + j
    BY <1>1, <1>2
  <2>2. CASE j \in 1..Len(q)
    <3> DEFINE k == Len(g) - Len(q) + j
    <3>1. k \in 1..Len(g)
      BY <1>1, <1>2, <1>3, <2>2
    <3>2. q[j] = g[k]
      BY <1>3, <2>2
    <3> HIDE DEF k
    <3>3. r[j] = q[j] /\ h[k] = g[k]
      BY <1>1, <1>2, <2>2, <3>1
    <3>4. Len(h) - Len(r) + j = k
      BY <2>1 DEF k
    <3> QED  BY <3>2, <3>3, <3>4
  <2>3. CASE j \notin 1..Len(q)
    <3>1. j = Len(q) + 1
      BY <1>2, <2>3
    <3>2. Len(h) - Len(r) + j = Len(g) + 1
      BY <1>1, <1>2, <3>1
    <3> QED  BY <1>1, <1>2, <3>1, <3>2
  <2> QED  BY <2>2, <2>3
<1>5. EndsWith(h, r)
  BY <1>1, <1>2, <1>3, <1>4 DEF EndsWith
<1> QED  BY <1>5 DEF h, r

(* A message accepted is one more behind the one being sent.               *)
LEMMA SendingAppend ==
    ASSUME NEW v \in PeerState, NEW g \in Seq(OMsg), NEW q \in Seq(OMsg), NEW e \in OMsg,
           NEW opcode, NEW bytes, Sending(v, g, opcode, bytes, q)
    PROVE  Sending(v, Append(g, e), opcode, bytes, Append(q, e))
<1> DEFINE h == Append(g, e)
           r == Append(q, e)
           n == Len(v.msgs)
<1>1. /\ Len(g) \in Nat /\ Len(h) = Len(g) + 1 /\ \A i \in 1..Len(g) : h[i] = g[i]
      /\ Len(q) \in Nat /\ Len(r) = Len(q) + 1
  OBVIOUS
<1>2. n \in Nat
  BY ViewFacts
<1>3. /\ Delivered(v, g) /\ n + 1 + Len(q) = Len(g)
      /\ EndsWith(g, q) /\ Continues(v, g[n + 1], opcode, bytes)
  BY DEF Sending
<1>4. Delivered(v, h) /\ EndsWith(h, r)
  BY <1>3, DeliveredAppend, EndsWithAppend
<1>5. n + 1 \in 1..Len(g) /\ n + 1 + Len(r) = Len(h)
  <2>1. n + 1 + Len(q) = Len(g)
    BY <1>3
  <2> DEFINE a == Len(g)
             b == Len(q)
             c == Len(h)
             d == Len(r)
  <2>2. a \in Nat /\ c = a + 1 /\ b \in Nat /\ d = b + 1 /\ n + 1 + b = a
    BY <1>1, <2>1
  <2> HIDE DEF a, b, c, d, n
  <2>3. n + 1 \in 1..a /\ n + 1 + d = c
    BY ONLY <1>2, <2>2
  <2> QED  BY <2>3 DEF a, b, c, d
<1> HIDE DEF h, r
<1>6. h[n + 1] = g[n + 1]
  BY <1>1, <1>5
<1>7. Continues(v, h[n + 1], opcode, bytes)
  BY <1>3, <1>6
<1>8. Sending(v, h, opcode, bytes, r)
  BY <1>4, <1>5, <1>7 DEF Sending
<1> QED  BY <1>8 DEF h, r

(* Between two messages, the first of those to follow is next.             *)
LEMMA NextWaits ==
    ASSUME NEW v \in PeerState, NEW g \in Seq(OMsg), NEW q \in Seq(OMsg),
           Delivered(v, g), ~v.open, Len(v.msgs) + Len(q) = Len(g), EndsWith(g, q)
    PROVE  Waiting(v, g, q)
<1>1. Len(g) \in Nat /\ Len(q) \in Nat /\ Len(v.msgs) \in Nat
  BY ViewFacts
<1>2. CASE q = << >>
  <2>1. Len(q) = 0
    BY <1>2
  <2> QED  BY <1>1, <1>2, <2>1 DEF Waiting
<1>3. CASE q # << >>
  <2> DEFINE m == Head(q)
             t == Tail(q)
             n == Len(v.msgs)
  <2>1. /\ m \in OMsg /\ t \in Seq(OMsg) /\ Len(t) = Len(q) - 1 /\ m = q[1]
        /\ \A i \in 1..Len(t) : t[i] = q[i + 1]
    BY <1>3, HeadTailProperties
  <2>2. Len(q) >= 1
    BY <1>3, EmptySeq
  <2> HIDE DEF m, t
  <2>3. \A j \in 1..Len(q) : q[j] = g[Len(g) - Len(q) + j]
    BY DEF EndsWith
  <2>4. 1 \in 1..Len(q) /\ Len(g) - Len(q) + 1 = n + 1
    BY <1>1, <2>2
  <2>5. m = g[n + 1]
    BY <2>1, <2>3, <2>4
  <2>6. ASSUME NEW j \in 1..Len(t)
        PROVE  t[j] = g[Len(g) - Len(t) + j]
    <3>1. j + 1 \in 1..Len(q) /\ Len(g) - Len(q) + (j + 1) = Len(g) - Len(t) + j
      BY <1>1, <2>1, <2>2
    <3> DEFINE k == j + 1
    <3>2. t[j] = q[k]
      BY <2>1
    <3> HIDE DEF k
    <3>3. k \in 1..Len(q) /\ Len(g) - Len(q) + k = Len(g) - Len(t) + j
      BY <3>1 DEF k
    <3> QED  BY <2>3, <3>2, <3>3
  <2>7. EndsWith(g, t)
    <3>1. Len(q) <= Len(g)
      BY DEF EndsWith
    <3>2. Len(t) <= Len(g)
      BY <1>1, <2>1, <3>1
    <3> QED  BY <2>6, <3>2 DEF EndsWith
  <2>12. n + 1 + Len(t) = Len(g)
    <3> DEFINE a == Len(g)
               b == Len(q)
               c == Len(t)
    <3>1. a \in Nat /\ b \in Nat /\ c = b - 1 /\ n + b = a /\ n \in Nat
      BY <1>1, <2>1
    <3> HIDE DEF a, b, c, n
    <3>2. n + 1 + c = a
      BY ONLY <3>1
    <3> QED  BY <3>2 DEF a, b, c
  <2>8. Given(m) \in Seq(Byte) /\ v.data = << >>
    BY <2>1, MsgFacts DEF Delivered
  <2>9. Continues(v, m, m.opcode, Given(m))
    BY <2>8, ConcatEmptySeq DEF Continues
  <2>10. Continues(v, g[n + 1], m.opcode, Given(m))
    BY <2>5, <2>9
  <2>11. Sending(v, g, m.opcode, Given(m), t)
    BY <2>7, <2>10, <2>12 DEF Sending
  <2> QED  BY <1>3, <2>11 DEF Waiting, m, t
<1> QED  BY <1>2, <1>3

(* And one more behind those that wait.                                    *)
LEMMA WaitingAppend ==
    ASSUME NEW v \in PeerState, NEW g \in Seq(OMsg), NEW q \in Seq(OMsg), NEW e \in OMsg,
           Waiting(v, g, q)
    PROVE  Waiting(v, Append(g, e), Append(q, e))
<1> DEFINE h == Append(g, e)
           r == Append(q, e)
<1>1. /\ h \in Seq(OMsg) /\ r \in Seq(OMsg) /\ r # << >>
      /\ Len(g) \in Nat /\ Len(h) = Len(g) + 1
      /\ Len(q) \in Nat /\ Len(r) = Len(q) + 1
      /\ Len(v.msgs) \in Nat
  BY ViewFacts, AppendProperties
<1>2. CASE q = << >>
  <2>1. Delivered(v, g) /\ ~v.open /\ Len(v.msgs) = Len(g)
    BY <1>2 DEF Waiting
  <2>2. Len(q) = 0 /\ EndsWith(g, q)
    BY <1>1, <1>2 DEF EndsWith
  <2>3. Delivered(v, h) /\ EndsWith(h, r)
    BY <2>1, <2>2, DeliveredAppend, EndsWithAppend
  <2> HIDE DEF h, r
  <2>4. Len(v.msgs) + Len(r) = Len(h)
    BY <1>1, <2>1, <2>2
  <2>5. Waiting(v, h, r)
    BY <1>1, <2>1, <2>3, <2>4, NextWaits
  <2> QED  BY <2>5 DEF h, r
<1>3. CASE q # << >>
  <2> DEFINE m == Head(q)
             t == Tail(q)
  <2>1. Sending(v, g, m.opcode, Given(m), t)
    BY <1>3 DEF Waiting
  <2>2. m \in OMsg /\ t \in Seq(OMsg)
    BY <1>3, HeadTailProperties
  <2>3. Head(r) = m /\ Tail(r) = Append(t, e)
    BY <1>3, HeadTailAppend
  <2> HIDE DEF m, t, h, r
  <2>4. Sending(v, Append(g, e), m.opcode, Given(m), Append(t, e))
    BY <2>1, <2>2, SendingAppend
  <2>5. Sending(v, h, Head(r).opcode, Given(Head(r)), Tail(r))
    BY <2>3, <2>4 DEF h
  <2>6. Waiting(v, h, r)
    BY <1>1, <2>5 DEF Waiting
  <2> QED  BY <2>6 DEF h, r
<1> QED  BY <1>2, <1>3

(* Concatenation of bytes is associative.                                  *)
LEMMA ConcatBytes ==
    ASSUME NEW x \in Seq(Byte), NEW y \in Seq(Byte), NEW z \in Seq(Byte)
    PROVE  (x \o y) \o z = x \o (y \o z)
  BY ConcatAssociative

(* The invariant says what is claimed of the messages.                     *)
LEMMA SendingIntact ==
    ASSUME NEW v \in PeerState, NEW g \in Seq(OMsg), NEW q \in Seq(OMsg),
           NEW opcode, NEW bytes \in Seq(Byte), Sending(v, g, opcode, bytes, q)
    PROVE  ArrivesIntact(v, g)
<1> DEFINE n == Len(v.msgs)
<1>1. n \in Nat /\ Len(g) \in Nat /\ Len(q) \in Nat /\ v.data \in Seq(Byte)
  BY ViewFacts
<1>2. /\ Delivered(v, g) /\ n + 1 + Len(q) = Len(g)
      /\ Continues(v, g[n + 1], opcode, bytes)
  BY DEF Sending
<1>3. n + (IF v.open THEN 1 ELSE 0) <= Len(g)
  <2> DEFINE k == Len(g)
             j == Len(q)
  <2>1. n \in Nat /\ j \in Nat /\ k \in Nat /\ n + 1 + j = k
    BY <1>1, <1>2
  <2> HIDE DEF k, j, n
  <2>2. n + 1 <= k /\ n + 0 <= k
    BY ONLY <2>1
  <2>3. n + (IF v.open THEN 1 ELSE 0) <= k
    BY <2>2
  <2> QED  BY <2>3 DEF k
<1>4. ASSUME v.open
      PROVE  v.opcode = g[n + 1].opcode /\ IsPrefix(v.data, Given(g[n + 1]))
  <2> DEFINE a == g[n + 1]
  <2>1. v.data \o bytes = Given(a) /\ v.opcode = a.opcode
    BY <1>2, <1>4 DEF Continues
  <2>2. IsPrefix(v.data, v.data \o bytes)
    BY <1>1, PrefixLemma
  <2> HIDE DEF a
  <2>3. IsPrefix(v.data, Given(a))
    BY <2>1, <2>2
  <2> QED  BY <2>1, <2>3 DEF a
<1> QED  BY <1>2, <1>3, <1>4 DEF ArrivesIntact, Delivered

(* What has arrived is intact when the next message waits.                 *)
LEMMA WaitingIntact ==
    ASSUME NEW v \in PeerState, NEW g \in Seq(OMsg), NEW q \in Seq(OMsg),
           Waiting(v, g, q)
    PROVE  ArrivesIntact(v, g)
<1>1. CASE q = << >>
  <2>1. Delivered(v, g) /\ ~v.open /\ Len(v.msgs) = Len(g)
    BY <1>1 DEF Waiting
  <2>2. Len(v.msgs) \in Nat
    BY ViewFacts
  <2> QED  BY <2>1, <2>2 DEF ArrivesIntact, Delivered
<1>2. CASE q # << >>
  <2> DEFINE m == Head(q)
             t == Tail(q)
  <2>1. Sending(v, g, m.opcode, Given(m), t)
    BY <1>2 DEF Waiting
  <2>2. m \in OMsg /\ t \in Seq(OMsg)
    BY <1>2, HeadTailProperties
  <2> HIDE DEF m, t
  <2>3. Given(m) \in Seq(Byte)
    BY <2>2, MsgFacts
  <2> QED  BY <2>1, <2>2, <2>3, SendingIntact
<1> QED  BY <1>1, <1>2

(* What a frame of the message being sent does to the view.                *)
LEMMA FrameExtends ==
    ASSUME NEW v \in PeerState, NEW f \in WireFrame, NEW a \in OMsg,
           NEW opcode \in Opcodes, NEW bytes \in Seq(Byte),
           Continues(v, a, opcode, bytes), v.ok, ~v.open => v.data = << >>,
           a.opcode # WSLAY_CONTINUATION_FRAME, f.header.opcode = opcode
    PROVE  /\ FrameFits(v, f)
           /\ FrameOpcode(v, f) = a.opcode
           /\ FrameData(v, f) = v.data \o Content(f.body)
<1>1. Content(f.body) \in Seq(Byte)
  BY WireFrameFacts
<1>2. CASE v.open
  <2>1. v.opcode = a.opcode /\ opcode = WSLAY_CONTINUATION_FRAME
    BY <1>2 DEF Continues
  <2> QED  BY <1>2, <2>1 DEF FrameFits, FrameOpcode, FrameData
<1>3. CASE ~v.open
  <2>1. opcode = a.opcode /\ opcode # WSLAY_CONTINUATION_FRAME /\ v.data = << >>
    BY <1>3 DEF Continues
  <2>2. v.data \o Content(f.body) = Content(f.body)
    BY <1>1, <2>1, ConcatEmptySeq
  <2> QED  BY <1>3, <2>1, <2>2 DEF FrameFits, FrameOpcode, FrameData
<1> QED  BY <1>2, <1>3

(* The last frame of a message arrives.                                    *)
LEMMA ReceiveLast ==
    ASSUME NEW v \in PeerState, NEW g \in Seq(OMsg), GivenWell(g), NEW q \in Seq(OMsg),
           NEW opcode \in Opcodes, ~wslay_is_ctrl_frame(opcode), NEW bytes \in Seq(Byte),
           Sending(v, g, opcode, bytes, q),
           NEW f \in WireFrame, f.header.opcode = opcode, f.header.fin, IsComplete(f),
           Content(f.body) = bytes
    PROVE  /\ Receive(v, f) \in PeerState
           /\ Waiting(Receive(v, f), g, q)
           /\ Receive(v, f).ctrls = v.ctrls
<1> DEFINE n == Len(v.msgs)
           u == Receive(v, f)
           a == g[n + 1]
           d == [ opcode |-> a.opcode, data |-> Given(a) ]
<1>1. n \in Nat /\ Len(g) \in Nat /\ Len(q) \in Nat /\ v.msgs \in Seq(PeerMsg)
  BY ViewFacts
<1>2. /\ Delivered(v, g) /\ n + 1 + Len(q) = Len(g) /\ EndsWith(g, q)
      /\ Continues(v, a, opcode, bytes)
  BY DEF Sending
<1>3. n + 1 \in 1..Len(g)
  BY <1>1, <1>2
<1>4. a \in OMsg /\ a.opcode # WSLAY_CONTINUATION_FRAME
  BY <1>3 DEF GivenWell
<1>5. u \in PeerState /\ ReceivedLast(v, f, u)
  BY ReceiveLemma
<1>6. v.ok /\ (~v.open => v.data = << >>)
  BY <1>2 DEF Delivered
<1>7. d \in PeerMsg
  BY <1>4, MsgFacts DEF PeerMsg
<1> HIDE DEF u
<1>8. /\ FrameFits(v, f) /\ FrameOpcode(v, f) = a.opcode
      /\ FrameData(v, f) = v.data \o Content(f.body)
  <2> HIDE DEF a, n, d
  <2> QED  BY <1>2, <1>4, <1>6, FrameExtends
<1>9. FrameData(v, f) = Given(a)
  BY <1>2, <1>8 DEF Continues
<1>10. /\ u.ok /\ ~u.open /\ u.data = << >> /\ u.msgs = Append(v.msgs, d)
       /\ u.ctrls = v.ctrls
  BY <1>5, <1>8, <1>9 DEF ReceivedLast
<1>11. /\ Len(u.msgs) = n + 1 /\ u.msgs[n + 1] = d
       /\ \A i \in 1..n : u.msgs[i] = v.msgs[i]
  BY <1>1, <1>7, <1>10, AppendProperties
<1>12. ASSUME NEW i \in 1..Len(u.msgs)
       PROVE  u.msgs[i] = [ opcode |-> g[i].opcode, data |-> Given(g[i]) ]
  <2>1. CASE i \in 1..n
    BY <1>2, <1>11, <2>1 DEF Delivered
  <2>2. CASE i \notin 1..n
    <3>1. i = n + 1
      BY <1>1, <1>11, <2>2
    <3> QED  BY <1>11, <3>1
  <2> QED  BY <2>1, <2>2
<1>13. Delivered(u, g)
  BY <1>3, <1>10, <1>11, <1>12 DEF Delivered
<1>14. Len(u.msgs) + Len(q) = Len(g)
  BY <1>2, <1>11
<1>15. Waiting(u, g, q)
  BY <1>2, <1>5, <1>10, <1>13, <1>14, NextWaits
<1> QED  BY <1>5, <1>10, <1>15 DEF u

(* Another frame of a message arrives, or part of it.                      *)
LEMMA ReceivePart ==
    ASSUME NEW v \in PeerState, NEW g \in Seq(OMsg), GivenWell(g), NEW q \in Seq(OMsg),
           NEW opcode \in Opcodes, ~wslay_is_ctrl_frame(opcode), NEW bytes \in Seq(Byte),
           Sending(v, g, opcode, bytes, q),
           NEW f \in WireFrame, f.header.opcode = opcode,
           ~(f.header.fin /\ IsComplete(f)),
           NEW rest \in Seq(Byte), Content(f.body) \o rest = bytes
    PROVE  /\ Receive(v, f) \in PeerState
           /\ Sending(Receive(v, f), g, WSLAY_CONTINUATION_FRAME, rest, q)
           /\ Receive(v, f).ctrls = v.ctrls
<1> DEFINE n == Len(v.msgs)
           u == Receive(v, f)
           a == g[n + 1]
           c == Content(f.body)
<1>1. /\ n \in Nat /\ Len(g) \in Nat /\ Len(q) \in Nat /\ v.data \in Seq(Byte)
      /\ c \in Seq(Byte)
  BY ViewFacts, WireFrameFacts
<1>2. /\ Delivered(v, g) /\ n + 1 + Len(q) = Len(g) /\ EndsWith(g, q)
      /\ Continues(v, a, opcode, bytes)
  BY DEF Sending
<1>3. n + 1 \in 1..Len(g)
  BY <1>1, <1>2
<1>4. a \in OMsg /\ a.opcode # WSLAY_CONTINUATION_FRAME
  BY <1>3 DEF GivenWell
<1>5. u \in PeerState /\ ReceivedPart(v, f, u)
  BY ReceiveLemma
<1>6. v.ok /\ (~v.open => v.data = << >>)
  BY <1>2 DEF Delivered
<1> HIDE DEF u
<1>7. /\ FrameFits(v, f) /\ FrameOpcode(v, f) = a.opcode /\ FrameData(v, f) = v.data \o c
  <2> HIDE DEF a, n
  <2> QED  BY <1>2, <1>4, <1>6, FrameExtends
<1>8. /\ u.ok /\ u.open /\ u.opcode = a.opcode /\ u.data = v.data \o c
      /\ u.msgs = v.msgs /\ u.ctrls = v.ctrls
  BY <1>5, <1>7 DEF ReceivedPart
<1>9. u.data \o rest = Given(a)
  <2>1. v.data \o bytes = Given(a)
    BY <1>2 DEF Continues
  <2>2. (v.data \o c) \o rest = v.data \o (c \o rest)
    <3> DEFINE x == v.data
    <3>1. x \in Seq(Byte) /\ c \in Seq(Byte) /\ rest \in Seq(Byte)
      BY <1>1
    <3> HIDE DEF c, x
    <3>2. (x \o c) \o rest = x \o (c \o rest)
      BY ONLY <3>1, ConcatBytes
    <3> QED  BY <3>2 DEF x
  <2>3. c \o rest = bytes
    OBVIOUS
  <2> HIDE DEF a, c
  <2>4. u.data = v.data \o c
    BY <1>8
  <2> QED  BY ONLY <2>1, <2>2, <2>3, <2>4
<1>10. Delivered(u, g)
  BY <1>2, <1>8 DEF Delivered
<1>11. Continues(u, a, WSLAY_CONTINUATION_FRAME, rest)
  BY <1>8, <1>9 DEF Continues
<1>12. Sending(u, g, WSLAY_CONTINUATION_FRAME, rest, q)
  BY <1>2, <1>8, <1>10, <1>11 DEF Sending
<1> QED  BY <1>5, <1>8, <1>12 DEF u

(* A control frame between them changes nothing.                           *)
LEMMA ReceiveCtrl ==
    ASSUME NEW v \in PeerState, NEW g \in Seq(OMsg), NEW q \in Seq(OMsg),
           NEW f \in WireFrame, wslay_is_ctrl_frame(f.header.opcode),
           Waiting(v, g, q)
    PROVE  /\ Receive(v, f) \in PeerState
           /\ Waiting(Receive(v, f), g, q)
           /\ Receive(v, f).ctrls = Append(v.ctrls, f)
<1> DEFINE u == Receive(v, f)
<1>1. u \in PeerState /\ ReceivedControl(v, f, u)
  BY ReceiveLemma
<1> HIDE DEF u
<1>2. /\ u.ok = v.ok /\ u.open = v.open /\ u.opcode = v.opcode
      /\ u.data = v.data /\ u.msgs = v.msgs /\ u.ctrls = Append(v.ctrls, f)
  BY <1>1 DEF ReceivedControl
<1>3. Waiting(u, g, q)
  BY <1>2 DEF Waiting, Sending, Delivered, Continues
<1> QED  BY <1>1, <1>2, <1>3 DEF u

(* What was being sent waits in front of the others.                       *)
LEMMA SendingWaits ==
    ASSUME NEW v, NEW g, NEW q \in Seq(OMsg), NEW m \in OMsg,
           Sending(v, g, m.opcode, Given(m), q)
    PROVE  Waiting(v, g, << m >> \o q)
<1> DEFINE r == << m >> \o q
<1>1. r # << >> /\ Head(r) = m /\ Tail(r) = q
  <2>1. << m >> \in Seq(OMsg) /\ Len(<< m >>) = 1 /\ << m >>[1] = m
    OBVIOUS
  <2>2. /\ r \in Seq(OMsg) /\ Len(r) = 1 + Len(q)
        /\ \A i \in 1..(1 + Len(q)) : r[i] = IF i <= 1 THEN << m >>[i] ELSE q[i - 1]
    BY <2>1, ConcatProperties
  <2>3. Len(q) \in Nat
    OBVIOUS
  <2> HIDE DEF r
  <2>4. r # << >> /\ r[1] = m /\ \A i \in 1..Len(q) : r[i + 1] = q[i]
    <3>1. Len(r) > 0 /\ 1 \in 1..(1 + Len(q))
      BY <2>2, <2>3
    <3>2. r # << >> /\ r[1] = m
      BY <2>1, <2>2, <3>1
    <3>3. ASSUME NEW i \in 1..Len(q)
          PROVE  r[i + 1] = q[i]
      <4> DEFINE j == i + 1
      <4>1. j \in 1..(1 + Len(q)) /\ ~(j <= 1) /\ j - 1 = i
        BY <2>3
      <4> HIDE DEF j
      <4>2. r[j] = q[i]
        BY <2>2, <4>1
      <4> QED  BY <4>2 DEF j
    <3> QED  BY <3>2, <3>3
  <2>5. /\ Head(r) = r[1] /\ Tail(r) \in Seq(OMsg) /\ Len(Tail(r)) = Len(r) - 1
        /\ \A i \in 1..Len(Tail(r)) : Tail(r)[i] = r[i + 1]
    BY <2>2, <2>4, HeadTailProperties
  <2> DEFINE t == Tail(r)
  <2>6. t \in Seq(OMsg) /\ Len(t) = Len(q) /\ \A i \in 1..Len(t) : t[i] = q[i]
    BY <2>2, <2>3, <2>4, <2>5
  <2> HIDE DEF t
  <2>7. t = q
    BY <2>6, SeqEqual
  <2> QED  BY <2>4, <2>5, <2>7 DEF t
<1> HIDE DEF r
<1>2. Waiting(v, g, r)
  BY <1>1 DEF Waiting
<1> QED  BY <1>2 DEF r

-----------------------------------------------------------------------------
(* The control frames sent and the control messages given                  *)

(* The control frames fs carry the first messages of h; q are those that   *)
(* are left (CtrlWaiting).                                                 *)
CtrlSent(fs, h) ==
    /\ Len(fs) <= Len(h)
    /\ \A i \in 1..Len(fs) : Carries(fs[i], h[i])

CtrlWaiting(fs, h, q) ==
    /\ CtrlSent(fs, h)
    /\ Len(fs) + Len(q) = Len(h)
    /\ EndsWith(h, q)

(* m is being sent: the first one that was not sent yet, or the Close.     *)
CtrlSending(fs, h, m, q) ==
    /\ CtrlSent(fs, h)
    /\ \/ /\ Len(fs) + 1 + Len(q) = Len(h)
          /\ EndsWith(h, q)
          /\ m = h[Len(fs) + 1]
       \/ /\ Len(fs) < Len(h)
          /\ m.opcode = WSLAY_CONNECTION_CLOSE
          /\ m = h[Len(h)]

(* A Close is the last message given, and makes close_status say so.       *)
CloseEnds(h, queued) ==
    \A i \in 1..Len(h) : h[i].opcode = WSLAY_CONNECTION_CLOSE => queued /\ i = Len(h)

(* The control frames sent carry the same messages when one more is        *)
(* accepted.                                                               *)
LEMMA CtrlSentAppend ==
    ASSUME NEW fs \in Seq(WireFrame), NEW h \in Seq(OMsg), NEW e \in OMsg,
           CtrlSent(fs, h)
    PROVE  CtrlSent(fs, Append(h, e))
<1> DEFINE k == Append(h, e)
<1>1. Len(h) \in Nat /\ Len(k) = Len(h) + 1 /\ \A i \in 1..Len(h) : k[i] = h[i]
  OBVIOUS
<1>2. Len(fs) \in Nat /\ Len(fs) <= Len(h)
  BY DEF CtrlSent
<1> HIDE DEF k
<1>3. \A i \in 1..Len(fs) : i \in 1..Len(h)
  BY <1>1, <1>2
<1>4. \A i \in 1..Len(fs) : Carries(fs[i], k[i])
  BY <1>1, <1>3 DEF CtrlSent
<1>5. CtrlSent(fs, k)
  BY <1>1, <1>2, <1>4 DEF CtrlSent
<1> QED  BY <1>5 DEF k

(* It is then one more of those that wait.                                 *)
LEMMA CtrlWaitingAppend ==
    ASSUME NEW fs \in Seq(WireFrame), NEW h \in Seq(OMsg), NEW q \in Seq(OMsg),
           NEW e \in OMsg, CtrlWaiting(fs, h, q)
    PROVE  CtrlWaiting(fs, Append(h, e), Append(q, e))
<1>1. CtrlSent(fs, h) /\ Len(fs) + Len(q) = Len(h) /\ EndsWith(h, q)
  BY DEF CtrlWaiting
<1>2. /\ Len(fs) \in Nat /\ Len(h) \in Nat /\ Len(q) \in Nat
      /\ Len(Append(h, e)) = Len(h) + 1 /\ Len(Append(q, e)) = Len(q) + 1
  BY AppendProperties
<1>3. CtrlSent(fs, Append(h, e)) /\ EndsWith(Append(h, e), Append(q, e))
  BY <1>1, CtrlSentAppend, EndsWithAppend
<1>4. Len(fs) + Len(Append(q, e)) = Len(Append(h, e))
  BY <1>1, <1>2
<1> QED  BY <1>3, <1>4 DEF CtrlWaiting

(* So it is when a message is being sent, as long as no Close was given:   *)
(* after a Close, which may have overtaken others, nothing is accepted.    *)
LEMMA CtrlSendingAppend ==
    ASSUME NEW fs \in Seq(WireFrame), NEW h \in Seq(OMsg), NEW q \in Seq(OMsg),
           NEW e \in OMsg, NEW m \in OMsg, CtrlSending(fs, h, m, q), CloseEnds(h, FALSE)
    PROVE  CtrlSending(fs, Append(h, e), m, Append(q, e))
<1> DEFINE k == Append(h, e)
           r == Append(q, e)
<1>1. /\ Len(fs) \in Nat /\ Len(h) \in Nat /\ Len(q) \in Nat
      /\ Len(k) = Len(h) + 1 /\ Len(r) = Len(q) + 1
      /\ \A i \in 1..Len(h) : k[i] = h[i]
  BY AppendProperties
<1>2. CtrlSent(fs, h)
  BY DEF CtrlSending
<1>3. /\ Len(fs) + 1 + Len(q) = Len(h)
      /\ EndsWith(h, q)
      /\ m = h[Len(fs) + 1]
  <2>1. ASSUME Len(fs) < Len(h) /\ m = h[Len(h)]
        PROVE  m.opcode # WSLAY_CONNECTION_CLOSE
    <3>1. Len(h) \in 1..Len(h)
      BY <1>1, <2>1
    <3> QED  BY <2>1, <3>1 DEF CloseEnds
  <2> QED  BY <2>1 DEF CtrlSending
<1>4. CtrlSent(fs, k) /\ EndsWith(k, r)
  BY <1>2, <1>3, CtrlSentAppend, EndsWithAppend
<1> HIDE DEF k, r
<1>5. Len(fs) + 1 \in 1..Len(h) /\ Len(fs) + 1 + Len(r) = Len(k)
  <2> DEFINE a == Len(fs)
             b == Len(h)
             c == Len(q)
  <2>1. a \in Nat /\ b \in Nat /\ c \in Nat /\ Len(k) = b + 1 /\ Len(r) = c + 1
        /\ a + 1 + c = b
    BY <1>1, <1>3
  <2> HIDE DEF a, b, c
  <2>2. a + 1 \in 1..b /\ a + 1 + Len(r) = Len(k)
    BY ONLY <2>1
  <2> QED  BY <2>2 DEF a, b, c
<1>6. m = k[Len(fs) + 1]
  BY <1>1, <1>3, <1>5
<1>7. CtrlSending(fs, k, m, r)
  BY <1>4, <1>5, <1>6 DEF CtrlSending
<1> QED  BY <1>7 DEF k, r

(* The head of the control queue is taken.                                 *)
LEMMA CtrlPop ==
    ASSUME NEW fs \in Seq(WireFrame), NEW h \in Seq(OMsg), NEW q \in Seq(OMsg),
           q # << >>, CtrlWaiting(fs, h, q)
    PROVE  CtrlSending(fs, h, Head(q), Tail(q))
<1> DEFINE m == Head(q)
           t == Tail(q)
<1>1. /\ m \in OMsg /\ t \in Seq(OMsg) /\ Len(t) = Len(q) - 1 /\ m = q[1]
      /\ \A i \in 1..Len(t) : t[i] = q[i + 1]
  BY HeadTailProperties
<1>2. CtrlSent(fs, h) /\ Len(fs) + Len(q) = Len(h) /\ EndsWith(h, q)
  BY DEF CtrlWaiting
<1>3. Len(q) >= 1 /\ Len(q) \in Nat /\ Len(h) \in Nat /\ Len(fs) \in Nat
  BY EmptySeq
<1> HIDE DEF m, t
<1>4. Len(q) <= Len(h) /\ \A j \in 1..Len(q) : q[j] = h[Len(h) - Len(q) + j]
  BY <1>2 DEF EndsWith
<1>5. 1 \in 1..Len(q) /\ Len(h) - Len(q) + 1 = Len(fs) + 1
  BY <1>2, <1>3
<1>6. m = h[Len(fs) + 1]
  BY <1>1, <1>4, <1>5
<1>7. ASSUME NEW j \in 1..Len(t)
      PROVE  t[j] = h[Len(h) - Len(t) + j]
  <2>1. j + 1 \in 1..Len(q) /\ Len(h) - Len(q) + (j + 1) = Len(h) - Len(t) + j
    BY <1>1, <1>3
  <2> DEFINE k == j + 1
  <2>2. t[j] = q[k]
    BY <1>1
  <2> HIDE DEF k
  <2>3. k \in 1..Len(q) /\ Len(h) - Len(q) + k = Len(h) - Len(t) + j
    BY <2>1 DEF k
  <2> QED  BY <1>4, <2>2, <2>3
<1>8. Len(t) <= Len(h) /\ Len(fs) + 1 + Len(t) = Len(h)
  <2> DEFINE a == Len(fs)
             b == Len(h)
             c == Len(q)
  <2>1. a \in Nat /\ b \in Nat /\ c \in Nat /\ Len(t) = c - 1 /\ a + c = b
    BY <1>1, <1>2, <1>3
  <2> HIDE DEF a, b, c
  <2>2. Len(t) <= b /\ a + 1 + Len(t) = b
    BY ONLY <2>1
  <2> QED  BY <2>2 DEF a, b, c
<1>9. EndsWith(h, t)
  BY <1>7, <1>8 DEF EndsWith
<1>10. CtrlSending(fs, h, m, t)
  BY <1>2, <1>6, <1>8, <1>9 DEF CtrlSending
<1> QED  BY <1>10 DEF m, t

(* The Close is taken, past what is in front of it.                        *)
LEMMA CtrlPopClose ==
    ASSUME NEW fs \in Seq(WireFrame), NEW h \in Seq(OMsg), NEW q \in Seq(OMsg),
           CtrlWaiting(fs, h, q), NEW queued, CloseEnds(h, queued),
           NEW i \in 1..Len(q), q[i].opcode = WSLAY_CONNECTION_CLOSE, NEW t
    PROVE  CtrlSending(fs, h, q[i], t)
<1>1. CtrlSent(fs, h) /\ Len(fs) + Len(q) = Len(h) /\ EndsWith(h, q)
  BY DEF CtrlWaiting
<1>2. Len(q) \in Nat /\ Len(h) \in Nat /\ Len(fs) \in Nat
  OBVIOUS
<1> DEFINE k == Len(h) - Len(q) + i
<1>3. q[i] = h[k]
  BY <1>1 DEF EndsWith
<1>4. k \in 1..Len(h) /\ Len(fs) < Len(h)
  <2> DEFINE a == Len(fs)
             b == Len(h)
             c == Len(q)
  <2>1. a \in Nat /\ b \in Nat /\ c \in Nat /\ a + c = b /\ i \in 1..c /\ k = b - c + i
    BY <1>1, <1>2
  <2> HIDE DEF a, b, c, k
  <2>2. k \in 1..b /\ a < b
    BY ONLY <2>1
  <2> QED  BY <2>2 DEF a, b, c
<1> HIDE DEF k
<1>5. k = Len(h)
  BY <1>3, <1>4 DEF CloseEnds
<1> QED  BY <1>1, <1>3, <1>4, <1>5 DEF CtrlSending

(* The frame of a control message that is no Close is complete.            *)
LEMMA CtrlDone ==
    ASSUME NEW fs \in Seq(WireFrame), NEW h \in Seq(OMsg), NEW q \in Seq(OMsg),
           NEW m \in OMsg, m.opcode # WSLAY_CONNECTION_CLOSE, CtrlSending(fs, h, m, q),
           NEW f \in WireFrame, Carries(f, m)
    PROVE  CtrlWaiting(Append(fs, f), h, q)
<1> DEFINE gs == Append(fs, f)
<1>1. /\ Len(fs) \in Nat /\ Len(gs) = Len(fs) + 1 /\ \A i \in 1..Len(fs) : gs[i] = fs[i]
      /\ gs[Len(fs) + 1] = f /\ Len(h) \in Nat /\ Len(q) \in Nat
  BY AppendProperties
<1>2. CtrlSent(fs, h) /\ Len(fs) + 1 + Len(q) = Len(h) /\ EndsWith(h, q)
      /\ m = h[Len(fs) + 1]
  BY DEF CtrlSending
<1> HIDE DEF gs
<1>3. ASSUME NEW i \in 1..Len(gs)
      PROVE  Carries(gs[i], h[i])
  <2>1. CASE i \in 1..Len(fs)
    BY <1>1, <1>2, <2>1 DEF CtrlSent
  <2>2. CASE i \notin 1..Len(fs)
    <3>1. i = Len(fs) + 1
      BY <1>1, <2>2
    <3> QED  BY <1>1, <1>2, <3>1
  <2> QED  BY <2>1, <2>2
<1>4. Len(gs) <= Len(h) /\ Len(gs) + Len(q) = Len(h)
  BY <1>1, <1>2
<1>5. CtrlWaiting(gs, h, q)
  BY <1>2, <1>3, <1>4 DEF CtrlWaiting, CtrlSent
<1> QED  BY <1>5 DEF gs

(* The invariant says what is claimed of the control frames.               *)
LEMMA CtrlInOrder ==
    ASSUME NEW fs \in Seq(WireFrame), NEW h \in Seq(OMsg), CtrlSent(fs, h)
    PROVE  InOrder(fs, h)
  BY DEF CtrlSent, InOrder

(* The control frames are in order with the one under way, a Close that    *)
(* overtook others included.                                               *)
LEMMA CtrlFrameInOrder ==
    ASSUME NEW fs \in Seq(WireFrame), NEW h \in Seq(OMsg), NEW q \in Seq(OMsg),
           NEW m \in OMsg, CtrlSending(fs, h, m, q), NEW f \in WireFrame, Carries(f, m)
    PROVE  InOrder(Append(fs, f), h)
<1> DEFINE gs == Append(fs, f)
<1>1. /\ Len(fs) \in Nat /\ Len(gs) = Len(fs) + 1 /\ \A i \in 1..Len(fs) : gs[i] = fs[i]
      /\ gs[Len(fs) + 1] = f
  BY AppendProperties
<1> HIDE DEF gs
<1>2. CtrlSent(fs, h)
  BY DEF CtrlSending
<1>3. f.header.opcode = m.opcode
  BY DEF Carries
<1>4. ASSUME NEW i \in 1..Len(gs)
      PROVE  \/ Carries(gs[i], h[i])
             \/ /\ i = Len(gs)
                /\ gs[i].header.opcode = WSLAY_CONNECTION_CLOSE
                /\ Carries(gs[i], h[Len(h)])
  <2>1. CASE i \in 1..Len(fs)
    BY <1>1, <1>2, <2>1 DEF CtrlSent
  <2>2. CASE i \notin 1..Len(fs)
    <3>1. i = Len(fs) + 1 /\ i = Len(gs) /\ gs[i] = f
      BY <1>1, <2>2
    <3>2. CASE m = h[Len(fs) + 1]
      BY <3>1, <3>2
    <3>3. CASE m = h[Len(h)] /\ m.opcode = WSLAY_CONNECTION_CLOSE
      BY <1>3, <3>1, <3>3
    <3> QED  BY <3>2, <3>3 DEF CtrlSending
  <2> QED  BY <2>1, <2>2
<1>5. InOrder(gs, h)
  BY <1>4 DEF InOrder
<1> QED  BY <1>5 DEF gs

-----------------------------------------------------------------------------
(* The message being sent, whichever queue it is from                      *)

(* A message is being sent, and it is a control message.                   *)
IsControl(m) == m.type # "NULL" /\ wslay_is_ctrl_frame(m.opcode)

(* bytes are left of the data message m, or m is none and q waits.         *)
DataSync(v, g, m, bytes, q) ==
    IF m.type = "NULL" \/ IsControl(m) THEN Waiting(v, g, q)
    ELSE Sending(v, g, m.opcode, bytes, q)

(* The control message m is being sent, or the control queue q waits.      *)
CtrlSync(fs, h, m, q) ==
    IF IsControl(m) THEN CtrlSending(fs, h, m, q) ELSE CtrlWaiting(fs, h, q)

(* A frame of m, of whose payload sent was written before and a part of    *)
(* data since.                                                             *)
FrameOf(f, m, sent, data) ==
    /\ f.header.opcode = m.opcode
    /\ f.header.fin = m.fin
    /\ f.header.payload_length = Len(sent) + Len(data)
    /\ \E n \in 0..Len(data) : Content(f.body) = sent \o SubSeq(data, 1, n)

(* All of it was.                                                          *)
WholeFrame(f, m, sent, data) ==
    /\ FrameOf(f, m, sent, data)
    /\ IsComplete(f)
    /\ Content(f.body) = sent \o data

(* How four sequences of bytes are regrouped.                              *)
Regroups(w, x, y, z) == (w \o x) \o (y \o z) = w \o ((x \o y) \o z)

(* Regrouping leaves the bytes as they are.                                *)
LEMMA ConcatFour ==
    ASSUME NEW w \in Seq(Byte), NEW x \in Seq(Byte), NEW y \in Seq(Byte), NEW z \in Seq(Byte)
    PROVE  Regroups(w, x, y, z)
<1> DEFINE u == y \o z
<1>1. u \in Seq(Byte)
  BY ConcatProperties
<1>2. (x \o y) \o z = x \o u
  BY ConcatBytes
<1> HIDE DEF u
<1>3. (w \o x) \o u = w \o (x \o u)
  BY <1>1, ConcatBytes
<1>4. (w \o x) \o u = w \o ((x \o y) \o z)
  BY <1>2, <1>3
<1> QED  BY <1>4 DEF u, Regroups

(* What is left of a frame is what is left of the message, cut.            *)
CutFrame(f, sent, data, later) ==
    /\ \E rest \in Seq(Byte) : Content(f.body) \o rest = sent \o (data \o later)
    /\ IsComplete(f) => Content(f.body) = sent \o data
    /\ IsPrefix(Content(f.body), sent \o data)

(* A frame cuts the bytes of its message where the socket left off.        *)
LEMMA FrameCut ==
    ASSUME NEW f \in WireFrame, NEW m \in OMsg, NEW sent \in Seq(Byte),
           NEW data \in Seq(Byte), NEW later \in Seq(Byte), FrameOf(f, m, sent, data)
    PROVE  CutFrame(f, sent, data, later)
<1>1. PICK n \in 0..Len(data) : Content(f.body) = sent \o SubSeq(data, 1, n)
  BY DEF FrameOf
<1> DEFINE a == SubSeq(data, 1, n)
           b == SubSeq(data, n + 1, Len(data))
<1>2. /\ a \in Seq(Byte) /\ Len(a) = n /\ b \in Seq(Byte) /\ Len(b) = Len(data) - n
      /\ a \o b = data
  BY CutLemma
<1>3. Content(f.body) = sent \o a
  BY <1>1
<1> HIDE DEF a, b
<1>4. Len(sent) \in Nat /\ Len(data) \in Nat /\ n \in Nat
  OBVIOUS
<1>5. (sent \o a) \o (b \o later) = sent \o (data \o later)
  <2>1. b \o later \in Seq(Byte)
    BY <1>2, ConcatProperties
  <2>2. sent \in Seq(Byte) /\ a \in Seq(Byte) /\ b \in Seq(Byte) /\ later \in Seq(Byte)
    BY <1>2
  <2>3. Regroups(sent, a, b, later)
    BY <2>2, ConcatFour
  <2> QED  BY <1>2, <2>3 DEF Regroups
<1>6. \E rest \in Seq(Byte) : Content(f.body) \o rest = sent \o (data \o later)
  <2>1. b \o later \in Seq(Byte)
    BY <1>2, ConcatProperties
  <2>2. Content(f.body) \o (b \o later) = sent \o (data \o later)
    BY <1>3, <1>5
  <2> QED  BY <2>1, <2>2
<1>7. IsComplete(f) => Content(f.body) = sent \o data
  <2> SUFFICES ASSUME IsComplete(f) PROVE Content(f.body) = sent \o data
    OBVIOUS
  <2>1. Len(Content(f.body)) = Len(sent) + Len(data)
    BY WireFrameFacts DEF IsComplete, FrameOf
  <2>2. Len(sent \o a) = Len(sent) + n
    BY <1>2, ConcatProperties
  <2>3. Len(sent) + n = Len(sent) + Len(data)
    BY <1>3, <2>1, <2>2
  <2>4. n = Len(data)
    BY <1>4, <2>3
  <2>5. Len(b) = 0
    BY <1>2, <1>4, <2>4
  <2>6. b = << >>
    BY <1>2, <2>5, EmptySeq
  <2>7. a = data
    BY <1>2, <2>6, ConcatEmptySeq
  <2> QED  BY <1>3, <2>7
<1>8. IsPrefix(Content(f.body), sent \o data)
  <2>1. (sent \o a) \o b = sent \o data
    BY <1>2, ConcatBytes
  <2>2. sent \o a \in Seq(Byte)
    BY <1>2, ConcatProperties
  <2>3. IsPrefix(sent \o a, (sent \o a) \o b)
    BY <1>2, <2>2, PrefixLemma
  <2> QED  BY <1>3, <2>1, <2>3
<1> QED  BY <1>6, <1>7, <1>8 DEF CutFrame

(* A frame of a data message, whole or not, final or not.                  *)
LEMMA DataFrameIntact ==
    ASSUME NEW v \in PeerState, NEW g \in Seq(OMsg), GivenWell(g), NEW q \in Seq(OMsg),
           NEW m \in OMsg, m.type # "NULL", NEW sent \in Seq(Byte),
           NEW data \in Seq(Byte), NEW later \in Seq(Byte), m.fin => later = << >>,
           DataSync(v, g, m, sent \o (data \o later), q),
           NEW f \in WireFrame, FrameOf(f, m, sent, data)
    PROVE  ArrivesIntact(Receive(v, f), g)
<1> DEFINE bytes == sent \o (data \o later)
<1>1. bytes \in Seq(Byte) /\ m.opcode \in Opcodes
  BY ConcatProperties, MsgFacts
<1>2. /\ \E rest \in Seq(Byte) : Content(f.body) \o rest = bytes
      /\ IsComplete(f) => Content(f.body) = sent \o data
  <2>1. /\ f \in WireFrame /\ m \in OMsg /\ sent \in Seq(Byte) /\ data \in Seq(Byte)
        /\ later \in Seq(Byte) /\ FrameOf(f, m, sent, data)
    OBVIOUS
  <2>2. CutFrame(f, sent, data, later)
    BY <2>1, FrameCut
  <2> QED  BY <2>2 DEF CutFrame
<1>3. f.header.opcode = m.opcode /\ f.header.fin = m.fin
  BY DEF FrameOf
<1>4. later = << >> => sent \o data = bytes
  BY ConcatEmptySeq
<1>5. DataSync(v, g, m, bytes, q)
  OBVIOUS
<1> HIDE DEF bytes
<1>6. CASE IsControl(m)
  <2>1. wslay_is_ctrl_frame(f.header.opcode) /\ Waiting(v, g, q)
    BY <1>3, <1>5, <1>6 DEF DataSync, IsControl
  <2>2. Receive(v, f) \in PeerState /\ Waiting(Receive(v, f), g, q)
    BY <2>1, ReceiveCtrl
  <2> QED  BY <2>2, WaitingIntact
<1>7. CASE ~IsControl(m)
  <2>1. ~wslay_is_ctrl_frame(m.opcode) /\ Sending(v, g, m.opcode, bytes, q)
    BY <1>5, <1>7 DEF DataSync, IsControl
  <2>2. CASE f.header.fin /\ IsComplete(f)
    <3>1. Content(f.body) = bytes
      BY <1>2, <1>3, <1>4, <2>2
    <3>2. Receive(v, f) \in PeerState /\ Waiting(Receive(v, f), g, q)
      BY <1>1, <1>3, <2>1, <2>2, <3>1, ReceiveLast
    <3> QED  BY <3>2, WaitingIntact
  <2>3. CASE ~(f.header.fin /\ IsComplete(f))
    <3>1. PICK rest \in Seq(Byte) : Content(f.body) \o rest = bytes
      BY <1>2
    <3>2. /\ Receive(v, f) \in PeerState
          /\ Sending(Receive(v, f), g, WSLAY_CONTINUATION_FRAME, rest, q)
      BY <1>1, <1>3, <2>1, <2>3, <3>1, ReceivePart
    <3> QED  BY <3>2, SendingIntact
  <2> QED  BY <2>2, <2>3
<1> QED  BY <1>6, <1>7

(* What has arrived is intact between two frames.                          *)
LEMMA DataSyncIntact ==
    ASSUME NEW v \in PeerState, NEW g \in Seq(OMsg), NEW q \in Seq(OMsg), NEW m,
           NEW bytes \in Seq(Byte), DataSync(v, g, m, bytes, q)
    PROVE  ArrivesIntact(v, g)
  BY SendingIntact, WaitingIntact DEF DataSync

(* The last frame of a message is whole: the next one waits.               *)
LEMMA DataFrameLast ==
    ASSUME NEW v \in PeerState, NEW g \in Seq(OMsg), GivenWell(g), NEW q \in Seq(OMsg),
           NEW m \in OMsg, m.type # "NULL", m.fin, NEW sent \in Seq(Byte),
           NEW data \in Seq(Byte), NEW later, later = << >>,
           DataSync(v, g, m, sent \o (data \o later), q),
           NEW f \in WireFrame, WholeFrame(f, m, sent, data)
    PROVE  Waiting(Receive(v, f), g, q)
<1>1. m.opcode \in Opcodes /\ sent \o data \in Seq(Byte)
  BY ConcatProperties, MsgFacts
<1>2. /\ Content(f.body) = sent \o data /\ IsComplete(f)
      /\ f.header.opcode = m.opcode /\ f.header.fin
  BY DEF FrameOf, WholeFrame
<1>3. DataSync(v, g, m, sent \o data, q)
  BY ConcatEmptySeq
<1> DEFINE bytes == sent \o data
<1>4. bytes \in Seq(Byte) /\ Content(f.body) = bytes /\ DataSync(v, g, m, bytes, q)
  BY <1>1, <1>2, <1>3
<1> HIDE DEF bytes
<1>6. CASE IsControl(m)
  <2>1. wslay_is_ctrl_frame(f.header.opcode) /\ Waiting(v, g, q)
    BY <1>2, <1>4, <1>6 DEF DataSync, IsControl
  <2> QED  BY <2>1, ReceiveCtrl
<1>7. CASE ~IsControl(m)
  <2>1. ~wslay_is_ctrl_frame(m.opcode) /\ Sending(v, g, m.opcode, bytes, q)
    BY <1>4, <1>7 DEF DataSync, IsControl
  <2> QED  BY <1>1, <1>2, <1>4, <2>1, ReceiveLast
<1> QED  BY <1>6, <1>7

(* Another one is: the next will be a continuation.                        *)
LEMMA DataFrameMore ==
    ASSUME NEW v \in PeerState, NEW g \in Seq(OMsg), GivenWell(g), NEW q \in Seq(OMsg),
           NEW m \in OMsg, m.type # "NULL", ~m.fin, ~IsControl(m), NEW sent \in Seq(Byte),
           NEW data \in Seq(Byte), NEW later \in Seq(Byte),
           DataSync(v, g, m, sent \o (data \o later), q),
           NEW f \in WireFrame, WholeFrame(f, m, sent, data)
    PROVE  Sending(Receive(v, f), g, WSLAY_CONTINUATION_FRAME, later, q)
<1> DEFINE bytes == sent \o (data \o later)
<1>1. bytes \in Seq(Byte) /\ m.opcode \in Opcodes
  BY ConcatProperties, MsgFacts
<1>2. Content(f.body) \o later = bytes
  <2>1. (sent \o data) \o later = bytes
    BY ConcatBytes
  <2> QED  BY <2>1 DEF WholeFrame
<1>3. f.header.opcode = m.opcode /\ ~f.header.fin
  BY DEF FrameOf, WholeFrame
<1>4. DataSync(v, g, m, bytes, q)
  OBVIOUS
<1> HIDE DEF bytes
<1>5. ~wslay_is_ctrl_frame(m.opcode) /\ Sending(v, g, m.opcode, bytes, q)
  BY <1>4 DEF DataSync, IsControl
<1> QED  BY <1>1, <1>2, <1>3, <1>5, ReceivePart

(* The frames of a control message carry it.                               *)
LEMMA CtrlFrameCarries ==
    ASSUME NEW m \in OMsg, m.fin, NEW sent \in Seq(Byte), NEW data \in Seq(Byte),
           sent \o data = m.data, NEW f \in WireFrame, FrameOf(f, m, sent, data)
    PROVE  Carries(f, m)
<1>1. IsPrefix(Content(f.body), m.data)
  <2>1. /\ f \in WireFrame /\ m \in OMsg /\ sent \in Seq(Byte) /\ data \in Seq(Byte)
        /\ sent \in Seq(Byte) /\ FrameOf(f, m, sent, data)
    OBVIOUS
  <2>2. CutFrame(f, sent, data, sent)
    BY ONLY <2>1, FrameCut
  <2> QED  BY <2>2 DEF CutFrame
<1>2. f.header.payload_length = Len(m.data)
  <2>1. Len(sent \o data) = Len(sent) + Len(data)
    BY ConcatProperties
  <2> QED  BY <2>1 DEF FrameOf
<1> QED  BY <1>1, <1>2 DEF Carries, FrameOf

(* What a frame does to the control frames the peer has.                   *)
LEMMA ReceiveCtrls ==
    ASSUME NEW v \in PeerState, NEW f \in WireFrame
    PROVE  /\ wslay_is_ctrl_frame(f.header.opcode) =>
                Receive(v, f).ctrls = Append(v.ctrls, f)
           /\ ~wslay_is_ctrl_frame(f.header.opcode) => Receive(v, f).ctrls = v.ctrls
  BY ReceiveLemma DEF ReceivedControl, ReceivedLast, ReceivedPart

(* And in order, the control frames.                                       *)
LEMMA CtrlSyncInOrder ==
    ASSUME NEW fs \in Seq(WireFrame), NEW h \in Seq(OMsg), NEW m, NEW q,
           CtrlSync(fs, h, m, q)
    PROVE  CtrlSent(fs, h) /\ InOrder(fs, h)
<1>1. CtrlSent(fs, h)
  BY DEF CtrlSync, CtrlSending, CtrlWaiting
<1> QED  BY <1>1, CtrlInOrder

(* A frame keeps them so, whether it is a control frame or one of data.    *)
LEMMA CtrlFrameKeepsOrder ==
    ASSUME NEW v \in PeerState, NEW h \in Seq(OMsg), NEW q \in Seq(OMsg),
           NEW m \in OMsg, m.type # "NULL", NEW sent \in Seq(Byte),
           NEW data \in Seq(Byte), NEW f \in WireFrame, FrameOf(f, m, sent, data),
           IsControl(m) => m.fin /\ sent \o data = m.data,
           CtrlSync(v.ctrls, h, m, q)
    PROVE  InOrder(Receive(v, f).ctrls, h)
<1>1. v.ctrls \in Seq(WireFrame) /\ f.header.opcode = m.opcode
  BY ViewFacts DEF FrameOf
<1>2. CASE IsControl(m)
  <2>1. CtrlSending(v.ctrls, h, m, q) /\ Carries(f, m)
    BY <1>2, CtrlFrameCarries DEF CtrlSync
  <2>2. Receive(v, f).ctrls = Append(v.ctrls, f)
    BY <1>1, <1>2, ReceiveCtrls DEF IsControl
  <2> QED  BY <1>1, <2>1, <2>2, CtrlFrameInOrder
<1>3. CASE ~IsControl(m)
  <2>1. Receive(v, f).ctrls = v.ctrls
    BY <1>1, <1>3, ReceiveCtrls DEF IsControl
  <2> QED  BY <1>1, <2>1, CtrlSyncInOrder
<1> QED  BY <1>2, <1>3

(* A frame that is whole, and no Close: the control queue waits.           *)
LEMMA CtrlFrameLast ==
    ASSUME NEW v \in PeerState, NEW h \in Seq(OMsg), NEW q \in Seq(OMsg),
           NEW m \in OMsg, m.type # "NULL", m.opcode # WSLAY_CONNECTION_CLOSE,
           NEW sent \in Seq(Byte), NEW data \in Seq(Byte),
           NEW f \in WireFrame, FrameOf(f, m, sent, data),
           IsControl(m) => m.fin /\ sent \o data = m.data,
           CtrlSync(v.ctrls, h, m, q)
    PROVE  CtrlWaiting(Receive(v, f).ctrls, h, q)
<1>1. v.ctrls \in Seq(WireFrame) /\ f.header.opcode = m.opcode
  BY ViewFacts DEF FrameOf
<1>2. CASE IsControl(m)
  <2>1. CtrlSending(v.ctrls, h, m, q) /\ Carries(f, m)
    BY <1>2, CtrlFrameCarries DEF CtrlSync
  <2>2. Receive(v, f).ctrls = Append(v.ctrls, f)
    BY <1>1, <1>2, ReceiveCtrls DEF IsControl
  <2> QED  BY <1>1, <2>1, <2>2, CtrlDone
<1>3. CASE ~IsControl(m)
  <2>1. Receive(v, f).ctrls = v.ctrls
    BY <1>1, <1>3, ReceiveCtrls DEF IsControl
  <2> QED  BY <1>3, <2>1 DEF CtrlSync
<1> QED  BY <1>2, <1>3

-----------------------------------------------------------------------------
(* What an iteration of wslay_event_send does to the wire                  *)

(* The types of what the peer has, before the frame under way and of it.   *)
LEMMA SyncFacts ==
    ASSUME NEW fc \in FrameContext, NEW w \in Seq(WireFrame), FrameSync(fc, w)
    PROVE  /\ FramesBefore(fc, w) \in Seq(WireFrame)
           /\ BytesSent(fc, w) \in Seq(Byte)
           /\ Len(BytesSent(fc, w)) = FrameOffset(fc)
           /\ w = FramesBefore(fc, w) \/ IsUnderWay(fc)
<1>1. fc.ostate \in {"PREP_HEADER", "SEND_HEADER", "SEND_PAYLOAD"}
  BY DEF FrameContext, OState
<1>2. CASE IsUnderWay(fc)
  <2> DEFINE last == w[Len(w)]
  <2>1. w # << >> /\ Len(last.body) = fc.opayloadoff
    BY <1>2 DEF FrameSync
  <2>2. Front(w) \in Seq(WireFrame) /\ last \in WireFrame
    BY <2>1, FrontLemma
  <2>3. FramesBefore(fc, w) = Front(w) /\ BytesSent(fc, w) = Content(last.body)
    BY <1>2 DEF FramesBefore, BytesSent
  <2>4. FrameOffset(fc) = fc.opayloadoff
    BY <1>2 DEF IsUnderWay, FrameOffset
  <2> HIDE DEF last
  <2>5. Content(last.body) \in Seq(Byte) /\ Len(Content(last.body)) = Len(last.body)
    BY <2>2, WireFrameFacts
  <2> QED  BY <1>2, <2>1, <2>2, <2>3, <2>4, <2>5
<1>3. CASE ~IsUnderWay(fc)
  <2>1. FramesBefore(fc, w) = w /\ BytesSent(fc, w) = << >>
    BY <1>3 DEF FramesBefore, BytesSent
  <2>2. FrameOffset(fc) = 0
    BY <1>1, <1>3 DEF IsUnderWay, FrameSync, FrameOffset
  <2> QED  BY <2>1, <2>2
<1> QED  BY <1>2, <1>3

(* How far a call came: the frame it is about is of the message m, and     *)
(* comes after those in w0.                                                *)
CallWrote(m, w0, sent, data, o) ==
    /\ \/ o.wire = w0
       \/ \E f \in WireFrame : o.wire = Append(w0, f) /\ FrameOf(f, m, sent, data)
    /\ o.result = WSLAY_ERR_WANT_WRITE =>
         /\ FrameSync(o.fc, o.wire)
         /\ FramesBefore(o.fc, o.wire) = w0
         /\ BytesSent(o.fc, o.wire) = sent
    /\ o.result = 0 /\ o.length # Len(data) =>
         /\ FrameSync(o.fc, o.wire)
         /\ FramesBefore(o.fc, o.wire) = w0
         /\ BytesSent(o.fc, o.wire) = sent \o SubSeq(data, 1, o.length)
    /\ o.result = 0 /\ o.length = Len(data) =>
         /\ FrameSync(o.fc, o.wire)
         /\ ~IsUnderWay(o.fc)
         /\ \E f \in WireFrame : o.wire = Append(w0, f) /\ WholeFrame(f, m, sent, data)

(* wslay_frame_send, called for an iteration, writes what CallWrote says.  *)
LEMMA CallWrites ==
    ASSUME IInv, FrameSync(frame_ctx, wire), NEW s, NEW buf, NEW data,
           Calling(s, buf, data),
           NEW o \in wslay_frame_send(frame_ctx, wire,
                        Iocb(s.omsg.fin, s.omsg.opcode, ~Server, s.opayloadlen, data))
    PROVE  CallWrote(s.omsg, FramesBefore(frame_ctx, wire),
                     BytesSent(frame_ctx, wire), data, o)
<1> DEFINE iocb == Iocb(s.omsg.fin, s.omsg.opcode, ~Server, s.opayloadlen, data)
           w0 == FramesBefore(frame_ctx, wire)
           sent == BytesSent(frame_ctx, wire)
           m == s.omsg
<1>1. /\ frame_ctx \in FrameContext /\ wire \in Seq(WireFrame)
      /\ HeaderIncomplete(frame_ctx)
  BY DEF IInv, TypeOK, FrameTypeOK
<1>2. /\ m.fin \in BOOLEAN /\ m.opcode \in Opcodes /\ s.opayloadlen \in Nat
      /\ data \in Seq(Byte)
  BY DEF Calling, SelectionOK, Selection, OMsg
<1>3. (~Server) \in BOOLEAN
  OBVIOUS
<1>4. iocb \in IocbType /\ iocb.data = data
  BY <1>2, <1>3 DEF Iocb, IocbType
<1>5. /\ iocb.fin = m.fin /\ iocb.opcode = m.opcode
      /\ iocb.mask = (~Server) /\ iocb.payload_length = s.opayloadlen
  BY DEF Iocb
<1>6. o \in wslay_frame_send(frame_ctx, wire, iocb)
  OBVIOUS
<1>7. CallEffect(s, data, o)
  BY CallLemma
<1> HIDE DEF iocb
<1>8. FrameHeader(frame_ctx, iocb) = MsgHeader(s)
  BY <1>5 DEF FrameHeader, MsgHeader, Calling, HeaderMatches
<1>9. Advance(MsgHeader(s), frame_ctx, wire, data, o)
  BY <1>1, <1>4, <1>6, <1>8, FrameSendWrites
<1>10. /\ w0 \in Seq(WireFrame) /\ sent \in Seq(Byte)
       /\ Len(sent) = FrameOffset(frame_ctx)
       /\ w0 = wire \/ IsUnderWay(frame_ctx)
  BY <1>1, SyncFacts
<1>11. FrameOffset(frame_ctx) + Len(data) = s.opayloadlen
  BY DEF Calling
<1>12. /\ o.fc \in FrameContext /\ o.wire \in Seq(WireFrame) /\ o.length \in 0..Len(data)
       /\ o.result = 0 =>
            o.fc.ostate = IF FrameOffset(frame_ctx) + o.length = s.opayloadlen
                          THEN "PREP_HEADER" ELSE "SEND_PAYLOAD"
  BY <1>7 DEF CallEffect, Effect, WSLAY_ERR_WANT_WRITE, WSLAY_ERR_INVALID_CALLBACK,
              WSLAY_ERR_INVALID_ARGUMENT
<1>13. o.result \in {0, WSLAY_ERR_WANT_WRITE} => FrameSync(o.fc, o.wire)
  BY <1>9 DEF Advance
<1>14. 0 # WSLAY_ERR_WANT_WRITE
  BY DEF WSLAY_ERR_WANT_WRITE
<1>15. Unwritten(frame_ctx, wire, o) \/ Written(w0, MsgHeader(s), sent, data, o)
  BY <1>9 DEF Advance
<1>16. CASE Unwritten(frame_ctx, wire, o)
  <2>1. /\ ~IsUnderWay(frame_ctx) /\ o.wire = wire /\ o.result # 0
        /\ o.result = WSLAY_ERR_WANT_WRITE => ~IsUnderWay(o.fc)
    BY <1>16 DEF Unwritten
  <2>2. o.wire = w0 /\ sent = << >>
    BY <1>10, <2>1 DEF BytesSent
  <2>3. o.result = WSLAY_ERR_WANT_WRITE =>
          FramesBefore(o.fc, o.wire) = w0 /\ BytesSent(o.fc, o.wire) = sent
    BY <2>1, <2>2 DEF FramesBefore, BytesSent
  <2> HIDE DEF w0, sent
  <2>4. CallWrote(m, w0, sent, data, o)
    BY <1>13, <2>1, <2>2, <2>3 DEF CallWrote
  <2> QED  BY <2>4 DEF w0, sent
<1>17. CASE Written(w0, MsgHeader(s), sent, data, o)
  <2> HIDE DEF w0, sent
  <2>1. PICK f \in WireFrame, n \in 0..Len(data) :
          WrittenFrame(w0, MsgHeader(s), sent, data, o, f, n)
    BY <1>17 DEF Written
  <2>2. /\ o.wire = Append(w0, f) /\ f.header = MsgHeader(s)
        /\ Content(f.body) = sent \o SubSeq(data, 1, n)
        /\ o.result = 0 => n = o.length /\ f.hdr = f.hdrlen
        /\ o.result = WSLAY_ERR_WANT_WRITE => n = 0 /\ IsUnderWay(o.fc)
    BY <2>1 DEF WrittenFrame
  <2>3. FrameOf(f, m, sent, data)
    <3>1. f.header.payload_length = Len(sent) + Len(data)
      BY <1>10, <1>11, <2>2 DEF MsgHeader
    <3>2. f.header.opcode = m.opcode /\ f.header.fin = m.fin
      BY <2>2 DEF MsgHeader
    <3> QED  BY <2>2, <3>1, <3>2 DEF FrameOf
  <2>4. IsUnderWay(o.fc) =>
          FramesBefore(o.fc, o.wire) = w0 /\ BytesSent(o.fc, o.wire) = Content(f.body)
    <3>1. /\ Append(w0, f)[Len(Append(w0, f))] = f /\ Front(Append(w0, f)) = w0
      BY <1>10, FrontAppend
    <3> QED  BY <2>2, <3>1 DEF FramesBefore, BytesSent
  <2>5. SubSeq(data, 1, 0) = << >>
    BY SubSeqEmpty
  <2>6. o.result = WSLAY_ERR_WANT_WRITE =>
          FramesBefore(o.fc, o.wire) = w0 /\ BytesSent(o.fc, o.wire) = sent
    BY <1>10, <2>2, <2>4, <2>5, ConcatEmptySeq
  <2>7. ASSUME o.result = 0
        PROVE  /\ o.length # Len(data) => IsUnderWay(o.fc)
               /\ o.length = Len(data) => ~IsUnderWay(o.fc)
    <3>1. o.length # Len(data) => FrameOffset(frame_ctx) + o.length # s.opayloadlen
      BY <1>2, <1>10, <1>11, <1>12
    <3>2. o.length = Len(data) => FrameOffset(frame_ctx) + o.length = s.opayloadlen
      BY <1>11
    <3> QED  BY <1>12, <2>7, <3>1, <3>2 DEF IsUnderWay
  <2>8. ASSUME o.result = 0, o.length = Len(data)
        PROVE  WholeFrame(f, m, sent, data)
    <3>1. n = Len(data) /\ f.hdr = f.hdrlen
      BY <2>2, <2>8
    <3>2. SubSeq(data, 1, Len(data)) = data
      BY <1>2, SubSeqFull
    <3>3. Content(f.body) = sent \o data
      BY <2>2, <3>1, <3>2
    <3>4. Len(sent \o data) = Len(sent) + Len(data)
      BY <1>2, <1>10, ConcatProperties
    <3>5. Len(Content(f.body)) = Len(f.body)
      BY WireFrameFacts
    <3>6. IsComplete(f)
      BY <2>3, <3>1, <3>3, <3>4, <3>5 DEF IsComplete, FrameOf
    <3> QED  BY <2>3, <3>3, <3>6 DEF WholeFrame
  <2>9. CallWrote(m, w0, sent, data, o)
    <3>1. o.result = WSLAY_ERR_WANT_WRITE => FrameSync(o.fc, o.wire)
      BY <1>13
    <3>2. o.result = 0 => FrameSync(o.fc, o.wire)
      BY <1>13
    <3>3. o.result = 0 /\ o.length # Len(data) =>
             /\ FramesBefore(o.fc, o.wire) = w0
             /\ BytesSent(o.fc, o.wire) = sent \o SubSeq(data, 1, o.length)
      BY <2>2, <2>4, <2>7
    <3>4. o.result = 0 /\ o.length = Len(data) =>
             /\ ~IsUnderWay(o.fc)
             /\ \E g \in WireFrame : o.wire = Append(w0, g) /\ WholeFrame(g, m, sent, data)
      BY <2>2, <2>7, <2>8
    <3>5. \E g \in WireFrame : o.wire = Append(w0, g) /\ FrameOf(g, m, sent, data)
      BY <2>2, <2>3
    <3> QED  BY <2>6, <3>1, <3>2, <3>3, <3>4, <3>5 DEF CallWrote
  <2> QED  BY <2>9 DEF w0, sent
<1> QED  BY <1>15, <1>16, <1>17

(* What is left of a message whose rest is cut again.                      *)
CutAgain(s, off, n) ==
    /\ SubSeq(SubSeq(s, off + 1, Len(s)), 1, n)
         \o SubSeq(s, (off + n) + 1, Len(s)) = SubSeq(s, off + 1, Len(s))
    /\ SubSeq(s, (off + n) + 1, Len(s)) \in Seq(Byte)
    /\ SubSeq(SubSeq(s, off + 1, Len(s)), 1, n) \in Seq(Byte)

(* Cutting off n bytes more than off leaves the same bytes.                *)
LEMMA RestCut ==
    ASSUME NEW s \in Seq(Byte), NEW off \in Nat, NEW n \in Nat, off + n <= Len(s)
    PROVE  CutAgain(s, off, n)
<1> DEFINE L == Len(s)
           d == SubSeq(s, off + 1, L)
           r == SubSeq(s, (off + n) + 1, L)
<1>1. L \in Nat /\ off + n \in Nat /\ off <= L /\ off + n <= L
  OBVIOUS
<1> HIDE DEF L
<1>2. off \in 0..L /\ off + n \in 0..L
  BY <1>1
<1>3. /\ d \in Seq(Byte) /\ Len(d) = L - off /\ r \in Seq(Byte)
  BY <1>2, CutLemma DEF L
<1>4. n \in 0..Len(d)
  BY <1>1, <1>3
<1>5. SubSeq(d, 1, n) = SubSeq(s, off + 1, off + n)
  <2>1. CASE n = 0
    <3>1. SubSeq(d, 1, n) = << >>
      BY <2>1, SubSeqEmpty
    <3>2. off + n < off + 1 /\ off + 1 \in Int /\ off + n \in Int
      BY <2>1
    <3>3. SubSeq(s, off + 1, off + n) = << >>
      BY <3>2, SubSeqEmpty
    <3> QED  BY <3>1, <3>3
  <2>2. CASE n > 0
    <3>1. off + 1 \in 1..L /\ L \in 1..L /\ 1 \in 1..(L - (off + 1) + 1)
          /\ n \in 1..(L - (off + 1) + 1)
      BY <1>1, <2>2
    <3>2. (off + 1) + 1 - 1 = off + 1 /\ (off + 1) + n - 1 = off + n
      OBVIOUS
    <3> DEFINE i == off + 1
    <3>3. i \in 1..Len(s) /\ L \in 1..Len(s) /\ 1 \in 1..(L - i + 1) /\ n \in 1..(L - i + 1)
          /\ i + 1 - 1 = i /\ i + n - 1 = off + n
      BY <3>1, <3>2 DEF L
    <3> HIDE DEF i
    <3>4. SubSeq(SubSeq(s, i, L), 1, n) = SubSeq(s, i + 1 - 1, i + n - 1)
      BY <3>3, SubSeqOfSubSeq
    <3>5. SubSeq(SubSeq(s, i, L), 1, n) = SubSeq(s, i, off + n)
      BY <3>3, <3>4
    <3> QED  BY <3>5 DEF i
  <2>3. n = 0 \/ n > 0
    OBVIOUS
  <2> QED  BY <2>1, <2>2, <2>3, Zenon
<1>6. SubSeq(s, off + 1, off + n) \o r = d
  <2> DEFINE i == off + 1
             k == off + n
  <2>1. i \in 1..(Len(s) + 1) /\ k \in (i - 1)..Len(s) /\ L \in k..Len(s)
    BY <1>1 DEF L
  <2>2. r = SubSeq(s, k + 1, L) /\ d = SubSeq(s, i, L)
    OBVIOUS
  <2> HIDE DEF i, k, r, d
  <2>3. SubSeq(s, i, k) \o SubSeq(s, k + 1, L) = SubSeq(s, i, L)
    BY <2>1, ConcatAdjacentSubSeq
  <2>4. SubSeq(s, i, k) \o r = d
    BY <2>2, <2>3
  <2> QED  BY <2>4 DEF i, k
<1>7. SubSeq(d, 1, n) \in Seq(Byte)
  BY <1>3, <1>4, CutLemma
<1> QED  BY <1>3, <1>5, <1>6, <1>7 DEF L, CutAgain

(* What of a message was not handed to wslay_frame_send yet, and what the  *)
(* peer does not have of it.                                               *)
Unsent(m, buf, off) ==
    (IF m.type = "NON_FRAGMENTED" THEN SubSeq(m.data, off + 1, Len(m.data)) ELSE buf)
    \o m.source

Rest(fc, w, m, buf, off) == BytesSent(fc, w) \o Unsent(m, buf, off)

(* How an iteration ends for the message of t, the peer having the frames  *)
(* w0 and sent of the next one: the message is still being sent, a         *)
(* fragment of it is done, or all of it is.                                *)
IterKept(t, w0, bytes) ==
    /\ omsg' = t.omsg
    /\ UNCHANGED << close_status, status_code_sent, queued_msg_length >>
    /\ write_enabled' =>
         /\ FrameSync(frame_ctx', wire')
         /\ FramesBefore(frame_ctx', wire') = w0
         /\ Rest(frame_ctx', wire', omsg', obuf', opayloadoff') = bytes

(* A frame of the message of t is complete.                                *)
FrameDone(t, w0, sent, data) ==
    /\ FrameSync(frame_ctx', wire')
    /\ ~IsUnderWay(frame_ctx')
    /\ \E f \in WireFrame :
         wire' = Append(w0, f) /\ WholeFrame(f, t.omsg, sent, data)

(* It was a fragment, and another one follows.                             *)
IterMore(t, w0, sent, data) ==
    /\ t.omsg.type = "FRAGMENTED" /\ ~t.omsg.fin
    /\ omsg' = [ t.omsg EXCEPT !.opcode = WSLAY_CONTINUATION_FRAME ]
    /\ UNCHANGED << write_enabled, close_status, status_code_sent, queued_msg_length >>
    /\ FrameDone(t, w0, sent, data)
    /\ Rest(frame_ctx', wire', omsg', obuf', opayloadoff') = t.omsg.source

(* It was the last frame of the message.                                   *)
IterWhole(t, w0, sent, data) ==
    /\ t.omsg.fin
    /\ \E buf, off : SentWhole(t, buf, off)
    /\ FrameDone(t, w0, sent, data)

(* The three of them, and what they have in common.                        *)
Iterated(t, w0, sent, data) ==
    /\ send_queue' = t.send_queue /\ send_ctrl_queue' = t.send_ctrl_queue
    /\ accepted' = accepted
    /\ \/ wire' = w0
       \/ \E f \in WireFrame : wire' = Append(w0, f) /\ FrameOf(f, t.omsg, sent, data)
    /\ \/ IterKept(t, w0, sent \o (data \o t.omsg.source))
       \/ IterMore(t, w0, sent, data)
       \/ IterWhole(t, w0, sent, data)

(* The call did not send.                                                  *)
LEMMA NotSentIterates ==
    ASSUME NEW s, NEW buf, NEW data, NEW o, NEW w0, NEW sent,
           CallWrote(s.omsg, w0, sent, data, o), Keep(s, o), o.result # 0,
           NotSent(s, buf, o.result),
           Unsent(s.omsg, buf, s.opayloadoff) = data \o s.omsg.source
    PROVE  Iterated(s, w0, sent, data)
<1>1. /\ send_queue' = s.send_queue /\ send_ctrl_queue' = s.send_ctrl_queue
      /\ accepted' = accepted /\ frame_ctx' = o.fc /\ wire' = o.wire
  BY DEF Keep
<1>2. /\ omsg' = s.omsg /\ obuf' = buf /\ opayloadoff' = s.opayloadoff
      /\ UNCHANGED << close_status, status_code_sent, queued_msg_length >>
  BY DEF NotSent
<1>3. write_enabled' => o.result = WSLAY_ERR_WANT_WRITE
  <2> DEFINE fails == o.result # WSLAY_ERR_WANT_WRITE
                      \/ error' \notin {0, WSLAY_ERR_WOULDBLOCK}
  <2>1. IF fails THEN write_enabled' = FALSE /\ ret' = WSLAY_ERR_CALLBACK_FAILURE
                 ELSE write_enabled' = write_enabled /\ ret' = 0
    BY DEF NotSent
  <2>2. ~fails => o.result = WSLAY_ERR_WANT_WRITE
    OBVIOUS
  <2> HIDE DEF fails
  <2> QED  BY <2>1, <2>2, Zenon
<1>4. write_enabled' =>
         /\ FrameSync(frame_ctx', wire')
         /\ FramesBefore(frame_ctx', wire') = w0
         /\ BytesSent(frame_ctx', wire') = sent
  BY <1>1, <1>3 DEF CallWrote
<1>5. write_enabled' =>
         Rest(frame_ctx', wire', omsg', obuf', opayloadoff')
           = sent \o (data \o s.omsg.source)
  BY <1>2, <1>4 DEF Rest
<1>6. IterKept(s, w0, sent \o (data \o s.omsg.source))
  BY <1>2, <1>4, <1>5 DEF IterKept
<1>7. \/ wire' = w0
      \/ \E f \in WireFrame : wire' = Append(w0, f) /\ FrameOf(f, s.omsg, sent, data)
  BY <1>1 DEF CallWrote
<1> QED  BY <1>1, <1>6, <1>7 DEF Iterated

(* The call sent a part.                                                   *)
LEMMA PartlyIterates ==
    ASSUME NEW s, NEW data \in Seq(Byte), NEW o, NEW w0, NEW sent \in Seq(Byte),
           s.omsg \in OMsg,
           CallWrote(s.omsg, w0, sent, data, o), Keep(s, o), o.result = 0,
           o.length # Len(data), o.length \in 0..Len(data),
           NEW buf, NEW off, SentPartly(s, buf, off), NEW left \in Seq(Byte),
           Unsent(s.omsg, buf, off) = left \o s.omsg.source,
           SubSeq(data, 1, o.length) \o left = data
    PROVE  Iterated(s, w0, sent, data)
<1>1. /\ send_queue' = s.send_queue /\ send_ctrl_queue' = s.send_ctrl_queue
      /\ accepted' = accepted /\ frame_ctx' = o.fc /\ wire' = o.wire
  BY DEF Keep
<1>2. /\ omsg' = s.omsg /\ obuf' = buf /\ opayloadoff' = off
      /\ UNCHANGED << close_status, status_code_sent, queued_msg_length >>
  BY DEF SentPartly
<1> DEFINE a == SubSeq(data, 1, o.length)
           later == s.omsg.source
<1>3. /\ FrameSync(frame_ctx', wire')
      /\ FramesBefore(frame_ctx', wire') = w0
      /\ BytesSent(frame_ctx', wire') = sent \o a
  BY <1>1 DEF CallWrote
<1>4. a \in Seq(Byte) /\ later \in Seq(Byte)
  BY CutLemma, MsgFacts
<1>5. a \o left = data /\ Unsent(s.omsg, buf, off) = left \o later
  OBVIOUS
<1> HIDE DEF a, later
<1>6. Regroups(sent, a, left, later)
  BY <1>4, ConcatFour
<1>7. Rest(frame_ctx', wire', omsg', obuf', opayloadoff') = sent \o (data \o later)
  BY <1>2, <1>3, <1>5, <1>6 DEF Rest, Regroups
<1>8. IterKept(s, w0, sent \o (data \o s.omsg.source))
  BY <1>2, <1>3, <1>7 DEF IterKept, later
<1>9. \/ wire' = w0
      \/ \E f \in WireFrame : wire' = Append(w0, f) /\ FrameOf(f, s.omsg, sent, data)
  BY <1>1 DEF CallWrote
<1> QED  BY <1>1, <1>8, <1>9 DEF Iterated

-----------------------------------------------------------------------------
(* The iteration that selected s sent data of the message of t, which is   *)
(* that of s with a fragment more read.                                    *)
IterationOf(s, t, data) ==
    /\ t.omsg \in OMsg
    /\ t.omsg.type = s.omsg.type /\ t.omsg.opcode = s.omsg.opcode
    /\ t.omsg.data = s.omsg.data
    /\ t.omsg.type = "NON_FRAGMENTED" => t.omsg = s.omsg
    /\ t.send_queue = s.send_queue /\ t.send_ctrl_queue = s.send_ctrl_queue
    /\ t.omsg.fin => t.omsg.source = << >>
    /\ data \in Seq(Byte)
    /\ data \o t.omsg.source = Unsent(s.omsg, obuf, s.opayloadoff)
    /\ Iterated(t, FramesBefore(frame_ctx, wire), BytesSent(frame_ctx, wire), data)

(* A frame is done.                                                        *)
LEMMA FrameDoneLemma ==
    ASSUME NEW s, NEW data, NEW o, NEW w0, NEW sent,
           CallWrote(s.omsg, w0, sent, data, o), Keep(s, o), o.result = 0,
           o.length = Len(data)
    PROVE  /\ FrameDone(s, w0, sent, data)
           /\ send_queue' = s.send_queue /\ send_ctrl_queue' = s.send_ctrl_queue
           /\ accepted' = accepted
           /\ \E f \in WireFrame : wire' = Append(w0, f) /\ FrameOf(f, s.omsg, sent, data)
<1>1. /\ send_queue' = s.send_queue /\ send_ctrl_queue' = s.send_ctrl_queue
      /\ accepted' = accepted /\ frame_ctx' = o.fc /\ wire' = o.wire
  BY DEF Keep
<1>2. /\ FrameSync(o.fc, o.wire)
      /\ ~IsUnderWay(o.fc)
      /\ \E f \in WireFrame : o.wire = Append(w0, f) /\ WholeFrame(f, s.omsg, sent, data)
  BY DEF CallWrote
<1>3. FrameDone(s, w0, sent, data)
  BY <1>1, <1>2 DEF FrameDone
<1>4. \E f \in WireFrame : wire' = Append(w0, f) /\ FrameOf(f, s.omsg, sent, data)
  BY <1>1, <1>2 DEF WholeFrame
<1> QED  BY <1>1, <1>3, <1>4

(* The call sent all of it, and it is the end of the message.              *)
LEMMA WholeIterates ==
    ASSUME NEW s, NEW data, NEW o, NEW w0, NEW sent,
           CallWrote(s.omsg, w0, sent, data, o), Keep(s, o), o.result = 0,
           o.length = Len(data), s.omsg.fin, NEW buf, NEW off, SentWhole(s, buf, off)
    PROVE  Iterated(s, w0, sent, data)
<1>1. /\ FrameDone(s, w0, sent, data)
      /\ send_queue' = s.send_queue /\ send_ctrl_queue' = s.send_ctrl_queue
      /\ accepted' = accepted
      /\ \E f \in WireFrame : wire' = Append(w0, f) /\ FrameOf(f, s.omsg, sent, data)
  BY FrameDoneLemma
<1>2. IterWhole(s, w0, sent, data)
  BY <1>1 DEF IterWhole
<1> QED  BY <1>1, <1>2 DEF Iterated

(* A message that is not fragmented (event.c 559-596).                     *)
LEMMA NonFragmentedIterates ==
    ASSUME IInv, FrameSync(frame_ctx, wire), NEW s, Ready(s),
           s.omsg.type = "NON_FRAGMENTED", s.omsg.fin => s.omsg.source = << >>,
           SendNonFragmented(s)
    PROVE  \E t, data : IterationOf(s, t, data)
<1> DEFINE off == s.opayloadoff
           len == s.opayloadlen
           data == SubSeq(s.omsg.data, off + 1, len)
           w0 == FramesBefore(frame_ctx, wire)
           sent == BytesSent(frame_ctx, wire)
<1>1. Calling(s, << >>, data) /\ s.omsg.fin = TRUE
  BY NonFragmentedCallLemma
<1>2. /\ s.omsg \in OMsg /\ len \in Nat /\ off \in Nat /\ FrameOffset(frame_ctx) \in Nat
  BY <1>1, CallingFacts
<1>3. /\ data \in Seq(Byte) /\ len = Len(s.omsg.data)
      /\ off = FrameOffset(frame_ctx) /\ FrameOffset(frame_ctx) + Len(data) = len
  BY <1>1 DEF Calling
<1>4. Len(data) \in Nat /\ off + Len(data) = len
  BY <1>3
<1>5. obuf = << >>
  BY DEF Ready, NonFragmentedReady
<1>6. s.omsg.data \in Seq(Byte) /\ s.omsg.source \in Seq(Byte)
  BY <1>2 DEF OMsg
<1>7. PICK o \in wslay_frame_send(frame_ctx, wire,
                    Iocb(TRUE, s.omsg.opcode, ~Server, s.opayloadlen, data)) :
        /\ Keep(s, o)
        /\ IF o.result # 0 THEN NotSent(s, obuf, o.result)
           ELSE IF s.opayloadoff + o.length = s.opayloadlen
           THEN SentWhole(s, obuf, s.opayloadoff + o.length)
           ELSE SentPartly(s, obuf, s.opayloadoff + o.length)
  BY DEF SendNonFragmented
<1>8. Unsent(s.omsg, obuf, off) = data \o s.omsg.source
  BY <1>3 DEF Unsent
<1>9. sent \in Seq(Byte)
  <2>1. frame_ctx \in FrameContext /\ wire \in Seq(WireFrame)
    BY TypeFacts, Zenon DEF IInv
  <2> QED  BY <2>1, SyncFacts
<1>10. s.omsg.fin /\ s.omsg.source = << >> /\ s.omsg.fin = TRUE
  BY <1>1
<1> HIDE DEF data
<1>11. o \in wslay_frame_send(frame_ctx, wire,
                    Iocb(s.omsg.fin, s.omsg.opcode, ~Server, s.opayloadlen, data))
  BY <1>7, <1>10
<1>12. CallWrote(s.omsg, w0, sent, data, o)
  BY <1>1, <1>11, CallWrites
<1>13. o.length \in 0..Len(data)
  <2>1. CallEffect(s, data, o)
    BY <1>1, <1>11, CallLemma
  <2> QED  BY <2>1 DEF CallEffect, Effect
<1> HIDE DEF w0, sent
<1>14. Iterated(s, w0, sent, data)
  <2>1. CASE o.result # 0
    <3>1. NotSent(s, obuf, o.result)
      BY <1>7, <2>1
    <3> QED  BY <1>7, <1>8, <1>12, <2>1, <3>1, NotSentIterates DEF off
  <2>2. CASE o.result = 0 /\ o.length = Len(data)
    <3>1. SentWhole(s, obuf, off + o.length)
      BY <1>4, <1>7, <2>2
    <3> QED  BY <1>7, <1>10, <1>12, <2>2, <3>1, WholeIterates
  <2>3. CASE o.result = 0 /\ o.length # Len(data)
    <3> DEFINE n == o.length
               left == SubSeq(s.omsg.data, (off + n) + 1, Len(s.omsg.data))
    <3>1. n \in Nat /\ n <= Len(data) /\ off + n # len /\ off + n <= len
      BY <1>2, <1>4, <1>13, <2>3
    <3>2. SentPartly(s, obuf, off + n)
      BY <1>7, <2>3, <3>1
    <3>3. /\ SubSeq(data, 1, n) \o left = data
          /\ left \in Seq(Byte)
      <4> DEFINE all == s.omsg.data
      <4>1. all \in Seq(Byte) /\ off \in Nat /\ n \in Nat /\ off + n <= Len(all)
        BY <1>2, <1>3, <1>6, <3>1
      <4> HIDE DEF all
      <4>2. CutAgain(all, off, n)
        BY ONLY <4>1, RestCut
      <4>3. data = SubSeq(all, off + 1, Len(all))
            /\ left = SubSeq(all, (off + n) + 1, Len(all))
        BY <1>3 DEF data, all
      <4> HIDE DEF left
      <4> QED  BY <4>2, <4>3 DEF CutAgain
    <3>4. Unsent(s.omsg, obuf, off + n) = left \o s.omsg.source
      BY DEF Unsent
    <3>5. n \in 0..Len(data) /\ n # Len(data)
      BY <1>13, <2>3
    <3> HIDE DEF left
    <3> DEFINE k == off + n
    <3>6. SentPartly(s, obuf, k) /\ Unsent(s.omsg, obuf, k) = left \o s.omsg.source
      BY <3>2, <3>4
    <3> HIDE DEF k
    <3>7. /\ CallWrote(s.omsg, w0, sent, data, o) /\ Keep(s, o) /\ o.result = 0
          /\ o.length # Len(data) /\ o.length \in 0..Len(data)
          /\ SubSeq(data, 1, o.length) \o left = data /\ left \in Seq(Byte)
          /\ s.omsg \in OMsg /\ data \in Seq(Byte) /\ sent \in Seq(Byte)
      BY <1>2, <1>3, <1>7, <1>9, <1>12, <2>3, <3>3, <3>5
    <3> QED  BY ONLY <3>6, <3>7, PartlyIterates
  <2> QED  BY <2>1, <2>2, <2>3
<1>15. IterationOf(s, s, data)
  BY <1>2, <1>3, <1>8, <1>10, <1>14 DEF IterationOf, w0, sent
<1> QED  BY <1>15

(* A fragment (event.c 613-645).                                           *)
LEMMA FragmentIterates ==
    ASSUME IInv, FrameSync(frame_ctx, wire), NEW t, NEW buf, Calling(t, buf, buf),
           t \in Selection, t.omsg.type = "FRAGMENTED", SendFragment(t, buf)
    PROVE  Iterated(t, FramesBefore(frame_ctx, wire), BytesSent(frame_ctx, wire), buf)
<1> DEFINE w0 == FramesBefore(frame_ctx, wire)
           sent == BytesSent(frame_ctx, wire)
<1>1. /\ t.omsg \in OMsg /\ buf \in Seq(Byte) /\ Len(buf) \in Nat
  BY CallingFacts
<1>2. t.omsg.source \in Seq(Byte)
  BY <1>1 DEF OMsg
<1>3. PICK o \in wslay_frame_send(frame_ctx, wire,
               Iocb(t.omsg.fin, t.omsg.opcode, ~Server, t.opayloadlen, buf)) :
        /\ Keep(t, o)
        /\ IF o.result # 0 THEN NotSent(t, buf, o.result)
           ELSE IF o.length < Len(buf)
           THEN SentPartly(t, SubSeq(buf, o.length + 1, Len(buf)), t.opayloadoff)
           ELSE IF t.omsg.fin THEN SentWhole(t, << >>, t.opayloadoff)
           ELSE SentPartly([ t EXCEPT !.omsg.opcode = WSLAY_CONTINUATION_FRAME ],
                           << >>, t.opayloadoff)
  BY DEF SendFragment
<1>4. CallWrote(t.omsg, w0, sent, buf, o)
  BY <1>3, CallWrites
<1>5. o.length \in 0..Len(buf)
  <2>1. CallEffect(t, buf, o)
    BY <1>3, CallLemma
  <2> QED  BY <2>1 DEF CallEffect, Effect
<1>6. sent \in Seq(Byte)
  <2>1. frame_ctx \in FrameContext /\ wire \in Seq(WireFrame)
    BY TypeFacts, Zenon DEF IInv
  <2> QED  BY <2>1, SyncFacts
<1>7. \A b, off : Unsent(t.omsg, b, off) = b \o t.omsg.source
  BY DEF Unsent
<1> HIDE DEF w0, sent
<1>8. CASE o.result # 0
  <2>1. NotSent(t, buf, o.result)
    BY <1>3, <1>8
  <2>2. Unsent(t.omsg, buf, t.opayloadoff) = buf \o t.omsg.source
    BY <1>7
  <2>3. Iterated(t, w0, sent, buf)
    BY <1>3, <1>4, <1>8, <2>1, <2>2, NotSentIterates
  <2> QED  BY <2>3 DEF w0, sent
<1>9. CASE o.result = 0 /\ o.length < Len(buf)
  <2> DEFINE left == SubSeq(buf, o.length + 1, Len(buf))
             off == t.opayloadoff
  <2>1. SentPartly(t, left, off)
    BY <1>3, <1>9
  <2>2. left \in Seq(Byte) /\ SubSeq(buf, 1, o.length) \o left = buf
    BY <1>1, <1>5, CutLemma
  <2>3. Unsent(t.omsg, left, off) = left \o t.omsg.source
    BY <1>7
  <2>4. o.length # Len(buf)
    BY <1>1, <1>5, <1>9
  <2> HIDE DEF left, off
  <2>5. /\ CallWrote(t.omsg, w0, sent, buf, o) /\ Keep(t, o) /\ o.result = 0
        /\ t.omsg \in OMsg /\ buf \in Seq(Byte) /\ sent \in Seq(Byte)
    BY <1>1, <1>3, <1>4, <1>6, <1>9
  <2>6. Iterated(t, w0, sent, buf)
    BY ONLY <1>5, <2>1, <2>2, <2>3, <2>4, <2>5, PartlyIterates
  <2> QED  BY <2>6 DEF w0, sent
<1>10. CASE o.result = 0 /\ ~(o.length < Len(buf)) /\ t.omsg.fin
  <2>1. o.length = Len(buf)
    BY <1>1, <1>5, <1>10
  <2>2. SentWhole(t, << >>, t.opayloadoff)
    BY <1>3, <1>10
  <2>3. Iterated(t, w0, sent, buf)
    BY <1>3, <1>4, <1>10, <2>1, <2>2, WholeIterates
  <2> QED  BY <2>3 DEF w0, sent
<1>11. CASE o.result = 0 /\ ~(o.length < Len(buf)) /\ ~t.omsg.fin
  <2> DEFINE m == [ t.omsg EXCEPT !.opcode = WSLAY_CONTINUATION_FRAME ]
             u == [ t EXCEPT !.omsg.opcode = WSLAY_CONTINUATION_FRAME ]
  <2>1. o.length = Len(buf)
    BY <1>1, <1>5, <1>11
  <2>2. SentPartly(u, << >>, t.opayloadoff)
    BY <1>3, <1>11
  <2>3. u.omsg = m
    BY DEF Selection
  <2>4. m.type = "FRAGMENTED" /\ m.source = t.omsg.source
    BY <1>1 DEF OMsg
  <2> HIDE DEF u
  <2>5. /\ FrameDone(t, w0, sent, buf)
        /\ send_queue' = t.send_queue /\ send_ctrl_queue' = t.send_ctrl_queue
        /\ accepted' = accepted
        /\ \E f \in WireFrame : wire' = Append(w0, f) /\ FrameOf(f, t.omsg, sent, buf)
    BY <1>3, <1>4, <1>11, <2>1, FrameDoneLemma
  <2>6. /\ omsg' = m /\ obuf' = << >> /\ opayloadoff' = t.opayloadoff
        /\ UNCHANGED << write_enabled, close_status, status_code_sent, queued_msg_length >>
    BY <2>2, <2>3 DEF SentPartly
  <2>7. Rest(frame_ctx', wire', omsg', obuf', opayloadoff') = t.omsg.source
    <3>1. BytesSent(frame_ctx', wire') = << >>
      BY <2>5 DEF FrameDone, BytesSent
    <3> HIDE DEF m
    <3>2. Unsent(omsg', obuf', opayloadoff') = << >> \o t.omsg.source
      BY <2>4, <2>6 DEF Unsent
    <3>3. << >> \o (<< >> \o t.omsg.source) = t.omsg.source
      BY <1>2, ConcatEmptySeq
    <3> QED  BY <3>1, <3>2, <3>3 DEF Rest
  <2>8. IterMore(t, w0, sent, buf)
    BY <1>11, <2>5, <2>6, <2>7 DEF IterMore
  <2>9. Iterated(t, w0, sent, buf)
    BY <2>5, <2>8 DEF Iterated
  <2> QED  BY <2>9 DEF w0, sent
<1> QED  BY <1>8, <1>9, <1>10, <1>11

(* The read callback cuts the source.                                      *)
LEMMA ReadCuts ==
    ASSUME NEW source \in Seq(Byte), NEW in \in ReadCallback(source)
    PROVE  /\ in.data \o in.rest = source
           /\ in.eof => in.rest = << >>
<1>1. PICK n \in { n \in 1..OBufSize : n <= Len(source) } :
        in = [ data |-> SubSeq(source, 1, n), eof |-> n = Len(source) /\ ~LazyEof,
               rest |-> SubSeq(source, n + 1, Len(source)) ]
  BY DEF ReadCallback
<1>2. n \in 0..Len(source) /\ Len(source) \in Nat
  BY EventSendAssumption
<1>3. /\ SubSeq(source, 1, n) \o SubSeq(source, n + 1, Len(source)) = source
      /\ SubSeq(source, n + 1, Len(source)) \in Seq(Byte)
      /\ Len(SubSeq(source, n + 1, Len(source))) = Len(source) - n
  BY <1>2, CutLemma
<1>4. /\ in.data = SubSeq(source, 1, n) /\ in.rest = SubSeq(source, n + 1, Len(source))
      /\ in.eof => n = Len(source)
  BY <1>1
<1>5. in.eof => in.rest = << >>
  <2> SUFFICES ASSUME in.eof PROVE in.rest = << >>
    OBVIOUS
  <2> DEFINE r == SubSeq(source, n + 1, Len(source))
  <2>1. in.rest = r /\ n = Len(source) /\ r \in Seq(Byte) /\ Len(r) = Len(source) - n
    BY <1>3, <1>4, Zenon
  <2> HIDE DEF r
  <2>2. Len(r) = 0
    BY <1>2, <2>1
  <2> QED  BY <2>1, <2>2, EmptySeq
<1>6. in.data \o in.rest = source
  BY <1>3, <1>4, Zenon
<1> QED  BY <1>5, <1>6

(* What is selected when a fragment was read.                              *)
FragmentRead(s, in, t) ==
    /\ t \in Selection /\ t.omsg \in OMsg
    /\ t.omsg.type = s.omsg.type /\ t.omsg.opcode = s.omsg.opcode
    /\ t.omsg.data = s.omsg.data
    /\ t.omsg.fin = in.eof /\ t.omsg.source = in.rest
    /\ t.send_queue = s.send_queue /\ t.send_ctrl_queue = s.send_ctrl_queue

(* The fields of what was selected once a fragment is read.                *)
LEMMA FragmentReadFields ==
    ASSUME NEW s \in Selection, NEW in, in.data \in Seq(Byte),
           in.eof \in BOOLEAN, in.rest \in Seq(Byte),
           NEW t, t = [ s EXCEPT !.omsg.fin = in.eof, !.omsg.source = in.rest,
                                 !.opayloadlen = Len(in.data), !.opayloadoff = 0 ]
    PROVE  FragmentRead(s, in, t)
<1> DEFINE m == [ s.omsg EXCEPT !.fin = in.eof, !.source = in.rest ]
           len == Len(in.data)
<1>1. s.omsg \in OMsg
  BY DEF Selection
<1>2. len \in Nat
  OBVIOUS
<1>3. t = [ s EXCEPT !.omsg = m, !.opayloadlen = len, !.opayloadoff = 0 ]
  BY DEF Selection
<1>4. /\ m \in OMsg /\ m.type = s.omsg.type /\ m.opcode = s.omsg.opcode
      /\ m.data = s.omsg.data /\ m.fin = in.eof /\ m.source = in.rest
  BY <1>1 DEF OMsg
<1> HIDE DEF m, len
<1>5. s \in Selection
  OBVIOUS
<1>6. /\ t \in Selection
      /\ t.omsg = m
      /\ t.send_queue = s.send_queue /\ t.send_ctrl_queue = s.send_ctrl_queue
  BY ONLY <1>2, <1>3, <1>4, <1>5 DEF Selection
<1> QED  BY <1>4, <1>6 DEF FragmentRead

(* A message that is fragmented (event.c 597-646).                         *)
LEMMA FragmentedIterates ==
    ASSUME IInv, FrameSync(frame_ctx, wire), NEW s, Ready(s),
           s.omsg.type = "FRAGMENTED", s.omsg.fin => s.omsg.source = << >>,
           SendFragmented(s)
    PROVE  \E t, data : IterationOf(s, t, data)
<1> DEFINE w0 == FramesBefore(frame_ctx, wire)
           sent == BytesSent(frame_ctx, wire)
<1>1. SelectionOK(s) /\ FragmentedReady(s) /\ s \in Selection /\ s.omsg \in OMsg
  BY DEF Ready, SelectionOK, Selection
<1>2. s.omsg.source \in Seq(Byte)
  BY <1>1 DEF OMsg
<1>3. frame_ctx \in FrameContext /\ wire \in Seq(WireFrame) /\ obuf \in Seq(Byte)
  BY TypeFacts, Zenon DEF IInv
<1>4. \A b, off : Unsent(s.omsg, b, off) = b \o s.omsg.source
  BY DEF Unsent
<1>5. << >> \o s.omsg.source = s.omsg.source /\ << >> \in Seq(Byte)
  BY <1>2, ConcatEmptySeq
<1>6. CASE ~s.omsg.fin /\ obuf = << >>
  <2>1. frame_ctx.ostate = "PREP_HEADER"
    BY <1>1, <1>6 DEF FragmentedReady
  <2>2. w0 = wire /\ sent = << >>
    BY <2>1 DEF FramesBefore, BytesSent, IsUnderWay
  <2>3. CASE ReadNothing(s)
    <3>1. /\ omsg' = s.omsg /\ send_queue' = s.send_queue
          /\ send_ctrl_queue' = s.send_ctrl_queue
          /\ opayloadoff' = s.opayloadoff
          /\ accepted' = accepted /\ close_status' = close_status
          /\ queued_msg_length' = queued_msg_length
          /\ frame_ctx' = frame_ctx /\ wire' = wire /\ obuf' = obuf
          /\ status_code_sent' = status_code_sent
      BY <2>3 DEF ReadNothing, frameVars
    <3>2. /\ FrameSync(frame_ctx', wire') /\ FramesBefore(frame_ctx', wire') = w0
          /\ BytesSent(frame_ctx', wire') = sent
      BY <3>1
    <3> HIDE DEF w0, sent
    <3>3. Rest(frame_ctx', wire', omsg', obuf', opayloadoff')
            = sent \o (<< >> \o s.omsg.source)
      BY <1>4, <1>6, <3>1, <3>2 DEF Rest
    <3>4. IterKept(s, w0, sent \o (<< >> \o s.omsg.source))
      BY <3>1, <3>2, <3>3 DEF IterKept
    <3>5. Iterated(s, w0, sent, << >>)
      BY <2>2, <3>1, <3>4 DEF Iterated
    <3>6. << >> \o s.omsg.source = Unsent(s.omsg, obuf, s.opayloadoff)
      BY <1>4, <1>6
    <3>7. IterationOf(s, s, << >>)
      BY <1>1, <1>5, <1>6, <3>5, <3>6 DEF IterationOf, w0, sent
    <3> QED  BY <3>7
  <2>4. ASSUME NEW in \in ReadCallback(s.omsg.source),
               NEW t, t = [ s EXCEPT !.omsg.fin = in.eof, !.omsg.source = in.rest,
                                     !.opayloadlen = Len(in.data),
                                     !.opayloadoff = 0 ],
               SendFragment(t, in.data)
        PROVE  IterationOf(s, t, in.data)
    <3>1. /\ in.data \in Seq(Byte) /\ in.data # << >>
          /\ in.eof \in BOOLEAN /\ in.rest \in Seq(Byte)
          /\ in.data \o in.rest = s.omsg.source
          /\ in.eof => in.rest = << >>
      BY <1>2, ReadLemma, ReadCuts
    <3>2. Calling(t, in.data, in.data) /\ t.omsg.type = "FRAGMENTED"
      BY ONLY IInv, <1>1, <2>1, <2>4, <3>1, s.omsg.type = "FRAGMENTED", FragmentReadLemma, Zenon
    <3>3. /\ t \in Selection /\ t.omsg \in OMsg
          /\ t.omsg.type = s.omsg.type /\ t.omsg.opcode = s.omsg.opcode
          /\ t.omsg.data = s.omsg.data
          /\ t.omsg.fin = in.eof /\ t.omsg.source = in.rest
          /\ t.send_queue = s.send_queue /\ t.send_ctrl_queue = s.send_ctrl_queue
      <4>1. FragmentRead(s, in, t)
        BY ONLY <1>1, <2>4, <3>1, FragmentReadFields, Zenon
      <4> QED  BY <4>1, Zenon DEF FragmentRead
    <3>4. Iterated(t, w0, sent, in.data)
      BY <2>4, <3>2, <3>3, FragmentIterates
    <3>5. in.data \o t.omsg.source = Unsent(s.omsg, obuf, s.opayloadoff)
      BY <1>4, <1>5, <1>6, <3>1, <3>3
    <3> QED  BY <3>1, <3>3, <3>4, <3>5 DEF IterationOf
  <2>5. \/ ReadNothing(s)
        \/ \E in \in ReadCallback(s.omsg.source) :
              \E t \in { [ s EXCEPT !.omsg.fin = in.eof, !.omsg.source = in.rest,
                                    !.opayloadlen = Len(in.data),
                                    !.opayloadoff = 0 ] } :
                SendFragment(t, in.data)
    BY <1>6, Zenon DEF SendFragmented
  <2> QED  BY <2>3, <2>4, <2>5, Zenon
<1>7. CASE ~(~s.omsg.fin /\ obuf = << >>)
  <2>1. SendFragment(s, obuf)
    BY <1>7, Zenon DEF SendFragmented
  <2>2. /\ frame_ctx.ostate # "PREP_HEADER" /\ HeaderMatches(s)
        /\ obuf # << >> /\ frame_ctx.opayloadoff + Len(obuf) = s.opayloadlen
    BY <1>1, <1>7 DEF FragmentedReady
  <2>3. Calling(s, obuf, obuf)
    BY <1>1, <1>3, <2>2 DEF Calling, FrameOffset
  <2>4. Iterated(s, w0, sent, obuf)
    BY <1>1, <2>1, <2>3, FragmentIterates
  <2>5. obuf \o s.omsg.source = Unsent(s.omsg, obuf, s.opayloadoff)
    BY <1>4
  <2>6. IterationOf(s, s, obuf)
    BY <1>1, <1>3, <2>4, <2>5 DEF IterationOf
  <2> QED  BY <2>6
<1> QED  BY <1>6, <1>7

(* An iteration of wslay_event_send.                                       *)
LEMMA IterationLemma ==
    ASSUME IInv, FrameSync(frame_ctx, wire), wslay_event_send,
           Selected.omsg.fin => Selected.omsg.source = << >>
    PROVE  \E t, data : IterationOf(Selected, t, data)
<1> DEFINE s == Selected
<1>1. Ready(s)
  BY SelectedLemma DEF wslay_event_send
<1>2. ( CASE s.omsg.type = "NULL" -> NothingSelected(s)
          [] s.omsg.type = "NON_FRAGMENTED" -> SendNonFragmented(s)
          [] s.omsg.type = "FRAGMENTED" -> SendFragmented(s) )
  BY DEF wslay_event_send
<1>3. s.omsg.fin => s.omsg.source = << >>
  OBVIOUS
<1> HIDE DEF s
<1>4. SelectionOK(s) /\ s.omsg \in OMsg /\ s.omsg.type # "NULL"
  BY <1>1 DEF Ready, SelectionOK, Selection
<1>5. s.omsg.type \in {"NON_FRAGMENTED", "FRAGMENTED"}
  BY <1>4 DEF OMsg, MsgType
<1>6. \E t, data : IterationOf(s, t, data)
  <2>1. CASE s.omsg.type = "NON_FRAGMENTED"
    <3>1. SendNonFragmented(s)
      BY <1>2, <2>1
    <3> QED  BY <1>1, <1>3, <2>1, <3>1, NonFragmentedIterates
  <2>2. CASE s.omsg.type = "FRAGMENTED"
    <3>1. SendFragmented(s)
      BY <1>2, <2>2
    <3> QED  BY <1>1, <1>3, <2>2, <3>1, FragmentedIterates
  <2> QED  BY <1>5, <2>1, <2>2
<1> QED  BY <1>6 DEF s

-----------------------------------------------------------------------------
(* What selecting a message leaves of what the peer and the queues agree on*)

(* The read callback has nothing more for a message whose last frame is    *)
(* the next one.                                                           *)
SourceDone(m) == m.fin => m.source = << >>

SourcesDone(q) == \A i \in 1..Len(q) : SourceDone(q[i])

(* What wslay_event_send_ctrl_queue_pop takes out of q.                    *)
Takes(q, queued, pop) ==
    IF queued
    THEN \E i \in 1..Len(q) :
           /\ q[i].opcode = WSLAY_CONNECTION_CLOSE
           /\ pop.msg = q[i] /\ pop.rest = SubSeq(q, i + 1, Len(q))
    ELSE pop.msg = Head(q) /\ pop.rest = Tail(q)

(* wslay_event_send_ctrl_queue_pop takes the Close, if one is queued, and  *)
(* else the head of the queue.                                             *)
LEMMA PopTakes ==
    ASSUME send_ctrl_queue \in Seq(OMsg),
           "QUEUED" \in close_status =>
               \E i \in 1..Len(send_ctrl_queue) : IsClose(send_ctrl_queue[i])
    PROVE  Takes(send_ctrl_queue, "QUEUED" \in close_status,
                 wslay_event_send_ctrl_queue_pop)
<1> DEFINE q   == send_ctrl_queue
           pop == wslay_event_send_ctrl_queue_pop
<1>1. CASE "QUEUED" \notin close_status
  BY <1>1 DEF wslay_event_send_ctrl_queue_pop, Takes
<1>2. CASE "QUEUED" \in close_status
  <2> DEFINE T == { i \in 1..Len(q) : q[i].opcode = WSLAY_CONNECTION_CLOSE }
             F(i) == /\ q[i].opcode = WSLAY_CONNECTION_CLOSE
                     /\ \A j \in 1..(i - 1) : q[j].opcode # WSLAY_CONNECTION_CLOSE
             k == CHOOSE i \in 1..Len(q) : F(i)
  <2>1. T # {} /\ T \in SUBSET Nat /\ Len(q) \in Nat
    BY <1>2 DEF IsClose
  <2>2. PICK x \in T : \A y \in T : x <= y
    <3> HIDE DEF T
    <3> QED  BY <2>1, LeastNat
  <2>3. x \in 1..Len(q) /\ F(x)
    BY <2>1, <2>2
  <2>4. k \in 1..Len(q) /\ F(k)
    <3> HIDE DEF F
    <3> QED  BY <2>3
  <2>5. pop = [ msg |-> q[k], rest |-> SubSeq(q, k + 1, Len(q)) ]
    BY <1>2, <2>3 DEF wslay_event_send_ctrl_queue_pop
  <2> HIDE DEF k
  <2>6. pop.msg = q[k] /\ pop.rest = SubSeq(q, k + 1, Len(q))
    BY <2>5
  <2> HIDE DEF pop
  <2>7. Takes(q, "QUEUED" \in close_status, pop)
    BY <1>2, <2>4, <2>6 DEF Takes
  <2> QED  BY <2>7 DEF pop
<1> QED  BY <1>1, <1>2

(* What is taken was there.                                                *)
LEMMA TakesDone ==
    ASSUME NEW q \in Seq(OMsg), q # << >>, NEW queued \in BOOLEAN, NEW pop,
           Takes(q, queued, pop), SourcesDone(q)
    PROVE  SourceDone(pop.msg) /\ SourcesDone(pop.rest)
<1>1. CASE queued
  <2>1. PICK i \in 1..Len(q) : pop.msg = q[i] /\ pop.rest = SubSeq(q, i + 1, Len(q))
    BY <1>1 DEF Takes
  <2> DEFINE r == SubSeq(q, i + 1, Len(q))
  <2>2. Len(q) \in Nat /\ i + 1 \in Int /\ \A j \in (i + 1)..Len(q) : q[j] \in OMsg
    BY <2>1
  <2>3. /\ Len(r) = IF i + 1 <= Len(q) THEN Len(q) - (i + 1) + 1 ELSE 0
        /\ \A j \in 1..(Len(q) - (i + 1) + 1) : r[j] = q[(i + 1) + j - 1]
    BY <2>2, SubSeqProperties
  <2> HIDE DEF r
  <2>4. ASSUME NEW j \in 1..Len(r)
        PROVE  SourceDone(r[j])
    <3>1. j \in 1..(Len(q) - (i + 1) + 1) /\ (i + 1) + j - 1 \in 1..Len(q)
      BY <2>1, <2>2, <2>3
    <3>2. r[j] = q[(i + 1) + j - 1]
      BY <2>3, <3>1
    <3> QED  BY <3>1, <3>2 DEF SourcesDone
  <2> QED  BY <2>1, <2>4 DEF r, SourcesDone
<1>2. CASE ~queued
  <2>1. pop.msg = Head(q) /\ pop.rest = Tail(q)
    BY <1>2 DEF Takes
  <2>2. /\ Len(Tail(q)) = Len(q) - 1 /\ Head(q) = q[1] /\ Len(q) \in Nat
        /\ \A i \in 1..Len(Tail(q)) : Tail(q)[i] = q[i + 1]
    BY HeadTailProperties
  <2>3. Len(q) >= 1
    BY <2>2, EmptySeq
  <2>4. \A i \in 1..(Len(q) - 1) : i + 1 \in 1..Len(q)
    BY <2>2
  <2> QED  BY <2>1, <2>2, <2>3, <2>4 DEF SourcesDone
<1> QED  BY <1>1, <1>2

(* A message put back in front of a queue, or appended to it, leaves it    *)
(* so.                                                                     *)
LEMMA SourcesDoneFront ==
    ASSUME NEW q \in Seq(OMsg), NEW m \in OMsg, SourcesDone(q), SourceDone(m)
    PROVE  SourcesDone(<< m >> \o q) /\ SourcesDone(Append(q, m))
<1> DEFINE r == << m >> \o q
<1>1. << m >> \in Seq(OMsg) /\ Len(<< m >>) = 1 /\ << m >>[1] = m
  OBVIOUS
<1>2. /\ Len(r) = 1 + Len(q)
      /\ \A i \in 1..(1 + Len(q)) : r[i] = IF i <= 1 THEN << m >>[i] ELSE q[i - 1]
  BY <1>1, ConcatProperties
<1>3. Len(q) \in Nat
  OBVIOUS
<1> HIDE DEF r
<1>4. ASSUME NEW i \in 1..Len(r)
      PROVE  SourceDone(r[i])
  <2>1. CASE i = 1
    BY <1>1, <1>2, <2>1
  <2>2. CASE i # 1
    <3>1. i \in 1..(1 + Len(q)) /\ ~(i <= 1) /\ i - 1 \in 1..Len(q)
      BY <1>2, <1>3, <2>2
    <3>2. r[i] = q[i - 1]
      BY <1>2, <3>1
    <3> QED  BY <3>1, <3>2 DEF SourcesDone
  <2> QED  BY <2>1, <2>2
<1>5. SourcesDone(Append(q, m))
  <2>1. /\ Len(Append(q, m)) = Len(q) + 1
        /\ \A i \in 1..Len(q) : Append(q, m)[i] = q[i]
        /\ Append(q, m)[Len(q) + 1] = m
    BY AppendProperties
  <2> QED  BY <1>3, <2>1 DEF SourcesDone
<1>6. SourcesDone(r)
  BY <1>4 DEF SourcesDone
<1> QED  BY <1>5, <1>6 DEF r

(* Nothing of a message was sent yet, or nothing of its next fragment.     *)
LEMMA FreshRest ==
    ASSUME NEW m \in OMsg, NEW off,
           m.type = "NON_FRAGMENTED" => off = 0,
           m.type # "NON_FRAGMENTED" => m.data = << >>
    PROVE  << >> \o Unsent(m, << >>, off) = Given(m)
<1>1. m.data \in Seq(Byte) /\ Given(m) \in Seq(Byte)
  BY MsgFacts
<1>2. SubSeq(m.data, 1, Len(m.data)) = m.data
  BY <1>1, SubSeqFull
<1>3. Unsent(m, << >>, off) = Given(m)
  <2>1. CASE m.type = "NON_FRAGMENTED"
    <3>1. off + 1 = 1
      BY <2>1
    <3>2. SubSeq(m.data, off + 1, Len(m.data)) = m.data
      BY <1>2, <3>1, Zenon
    <3> QED  BY <2>1, <3>2, Zenon DEF Unsent, Given
  <2>2. CASE m.type # "NON_FRAGMENTED"
    BY <2>2, Zenon DEF Unsent, Given
  <2> QED  BY <2>1, <2>2
<1> QED  BY <1>1, <1>3, ConcatEmptySeq

(* The three ways of selecting, as far as the messages are concerned.      *)
SelectsData(s) ==
    /\ omsg = NoMsg /\ send_ctrl_queue = << >> /\ send_queue # << >>
    /\ s.omsg = Head(send_queue) /\ s.send_queue = Tail(send_queue)
    /\ s.send_ctrl_queue = send_ctrl_queue

SelectsControl(s) ==
    /\ omsg = NoMsg \/ IsPreempted
    /\ send_ctrl_queue # << >>
    /\ s.omsg = wslay_event_send_ctrl_queue_pop.msg
    /\ s.send_queue = IF IsPreempted THEN << omsg >> \o send_queue ELSE send_queue
    /\ s.send_ctrl_queue = wslay_event_send_ctrl_queue_pop.rest

(* Either way nothing was sent of what is selected.                        *)
SelectsFresh(s) ==
    /\ frame_ctx.ostate = "PREP_HEADER" /\ obuf = << >>
    /\ s.omsg.type = "NON_FRAGMENTED" => s.opayloadoff = 0

(* Or the message being sent stays.                                        *)
SelectsCurrent(s) ==
    /\ omsg # NoMsg
    /\ s.omsg = omsg /\ s.send_queue = send_queue
    /\ s.send_ctrl_queue = send_ctrl_queue
    /\ s.opayloadoff = opayloadoff

(* The fields of Popped.                                                   *)
LEMMA PoppedFields ==
    ASSUME NEW msg, NEW sq, NEW cq
    PROVE  LET s == Popped(msg, sq, cq)
           IN  /\ s.omsg = msg /\ s.send_queue = sq /\ s.send_ctrl_queue = cq
               /\ msg.type = "NON_FRAGMENTED" => s.opayloadoff = 0
  BY DEF Popped

(* These are the ways of selecting; the first two happen only between      *)
(* frames.                                                                 *)
LEMMA SelectionCases ==
    ASSUME IInv, wslay_event_want_write
    PROVE  \/ SelectsData(Selected) /\ SelectsFresh(Selected)
           \/ SelectsControl(Selected) /\ SelectsFresh(Selected)
           \/ SelectsCurrent(Selected)
<1>1. write_enabled
  BY WantWriteLemma
<1>2. ASSUME omsg = NoMsg \/ IsPreempted
      PROVE  frame_ctx.ostate = "PREP_HEADER" /\ obuf = << >>
  <2>1. frame_ctx.ostate = "PREP_HEADER"
    BY <1>1, <1>2 DEF IInv, LayersInSync, InSync, NoMsg, IsPreempted
  <2> QED  BY <1>1, <2>1 DEF IInv, LayersInSync, InSync
<1>3. CASE omsg = NoMsg /\ send_ctrl_queue = << >>
  <2> DEFINE s == Popped(Head(send_queue), Tail(send_queue), send_ctrl_queue)
  <2>1. Selected = s
    BY <1>3, Zenon DEF Selected
  <2>2. /\ s.omsg = Head(send_queue) /\ s.send_queue = Tail(send_queue)
        /\ s.send_ctrl_queue = send_ctrl_queue
        /\ s.omsg.type = "NON_FRAGMENTED" => s.opayloadoff = 0
    <3> DEFINE hd == Head(send_queue)
               tl == Tail(send_queue)
    <3>1. /\ Popped(hd, tl, send_ctrl_queue).omsg = hd
          /\ Popped(hd, tl, send_ctrl_queue).send_queue = tl
          /\ Popped(hd, tl, send_ctrl_queue).send_ctrl_queue = send_ctrl_queue
          /\ hd.type = "NON_FRAGMENTED" =>
               Popped(hd, tl, send_ctrl_queue).opayloadoff = 0
      <4> HIDE DEF hd, tl
      <4> QED  BY PoppedFields
    <3> QED  BY <3>1, Zenon
  <2> HIDE DEF s
  <2>3. send_queue # << >>
    BY <1>3 DEF wslay_event_want_write
  <2>4. SelectsData(s) /\ SelectsFresh(s)
    BY <1>2, <1>3, <2>2, <2>3 DEF SelectsData, SelectsFresh
  <2> QED  BY <2>1, <2>4
<1>4. CASE (omsg = NoMsg \/ IsPreempted) /\ send_ctrl_queue # << >>
  <2> DEFINE pop == wslay_event_send_ctrl_queue_pop
             sq == IF IsPreempted THEN << omsg >> \o send_queue ELSE send_queue
             s == Popped(pop.msg, sq, pop.rest)
  <2>1. Selected = s
    BY <1>4, Zenon DEF Selected
  <2>2. /\ s.omsg = pop.msg /\ s.send_queue = sq /\ s.send_ctrl_queue = pop.rest
        /\ s.omsg.type = "NON_FRAGMENTED" => s.opayloadoff = 0
    BY PoppedFields
  <2> HIDE DEF s
  <2>3. SelectsControl(s) /\ SelectsFresh(s)
    BY <1>2, <1>4, <2>2, Zenon DEF SelectsControl, SelectsFresh
  <2> QED  BY <2>1, <2>3
<1>5. CASE omsg # NoMsg /\ ~IsPreempted
  <2> DEFINE s == [ omsg |-> omsg, send_queue |-> send_queue,
                    send_ctrl_queue |-> send_ctrl_queue,
                    opayloadlen |-> opayloadlen, opayloadoff |-> opayloadoff ]
  <2>1. Selected = s
    BY <1>5, Zenon DEF Selected
  <2>2. /\ s.omsg = omsg /\ s.send_queue = send_queue
        /\ s.send_ctrl_queue = send_ctrl_queue /\ s.opayloadoff = opayloadoff
    OBVIOUS
  <2> HIDE DEF s
  <2>3. SelectsCurrent(s)
    BY <1>5, <2>2 DEF SelectsCurrent
  <2> QED  BY <2>1, <2>3
<1>6. IsPreempted => send_ctrl_queue # << >>
  BY DEF IsPreempted
<1> QED  BY <1>3, <1>4, <1>5, <1>6

(* Selecting leaves the sources of the messages as they are.               *)
LEMMA SelectedSources ==
    ASSUME IInv, wslay_event_want_write, SourceDone(omsg), SourcesDone(send_queue),
           SourcesDone(send_ctrl_queue)
    PROVE  /\ SourceDone(Selected.omsg) /\ SourcesDone(Selected.send_queue)
           /\ SourcesDone(Selected.send_ctrl_queue)
<1> DEFINE s == Selected
<1>1. /\ send_queue \in Seq(OMsg) /\ send_ctrl_queue \in Seq(OMsg) /\ omsg \in OMsg
      /\ write_enabled
  BY WantWriteLemma
<1>2. SelectsData(s) \/ SelectsControl(s) \/ SelectsCurrent(s)
  BY SelectionCases
<1> HIDE DEF s
<1>3. CASE SelectsData(s)
  <2> DEFINE pop == [ msg |-> Head(send_queue), rest |-> Tail(send_queue) ]
  <2>1. Takes(send_queue, FALSE, pop)
    BY DEF Takes
  <2>2. pop.msg = Head(send_queue) /\ pop.rest = Tail(send_queue)
    OBVIOUS
  <2> HIDE DEF pop
  <2>3. SourceDone(pop.msg) /\ SourcesDone(pop.rest)
    BY <1>1, <1>3, <2>1, TakesDone DEF SelectsData
  <2> QED  BY <1>3, <2>2, <2>3 DEF SelectsData, s
<1>4. CASE SelectsControl(s)
  <2> DEFINE pop == wslay_event_send_ctrl_queue_pop
  <2>1. "QUEUED" \in close_status =>
            \E i \in 1..Len(send_ctrl_queue) : IsClose(send_ctrl_queue[i])
    <3>1. ~IsClose(omsg)
      BY <1>4 DEF SelectsControl, IsClose, NoMsg, IsPreempted, wslay_is_ctrl_frame,
                  WSLAY_CONNECTION_CLOSE
    <3> QED  BY <1>1, <3>1 DEF IInv, CloseNotLost
  <2>2. Takes(send_ctrl_queue, "QUEUED" \in close_status, pop)
    BY <1>1, <2>1, PopTakes
  <2>3. s.omsg = pop.msg /\ s.send_ctrl_queue = pop.rest /\ send_ctrl_queue # << >>
    BY <1>4 DEF SelectsControl
  <2> HIDE DEF pop
  <2> DEFINE queued == "QUEUED" \in close_status
  <2>4. queued \in BOOLEAN /\ Takes(send_ctrl_queue, queued, pop)
    BY <2>2
  <2> HIDE DEF queued
  <2>5. SourceDone(pop.msg) /\ SourcesDone(pop.rest)
    BY <1>1, <2>3, <2>4, TakesDone
  <2>6. SourcesDone(s.send_queue)
    <3>1. SourcesDone(<< omsg >> \o send_queue)
      BY <1>1, SourcesDoneFront
    <3>2. s.send_queue = << omsg >> \o send_queue \/ s.send_queue = send_queue
      BY <1>4, Zenon DEF SelectsControl
    <3> QED  BY <3>1, <3>2
  <2> QED  BY <2>3, <2>5, <2>6 DEF s
<1>5. CASE SelectsCurrent(s)
  BY <1>5 DEF SelectsCurrent, s
<1> QED  BY <1>2, <1>3, <1>4, <1>5

(* The peer and the data messages agree as before.                         *)
LEMMA SelectedData ==
    ASSUME IInv, wslay_event_want_write, NEW v \in PeerState, NEW g \in Seq(OMsg),
           DataSync(v, g, omsg, Rest(frame_ctx, wire, omsg, obuf, opayloadoff),
                    send_queue)
    PROVE  LET s == Selected
           IN  DataSync(v, g, s.omsg, Rest(frame_ctx, wire, s.omsg, obuf, s.opayloadoff),
                        s.send_queue)
<1> DEFINE s == Selected
           later == Rest(frame_ctx, wire, s.omsg, obuf, s.opayloadoff)
<1>1. /\ send_queue \in Seq(OMsg) /\ send_ctrl_queue \in Seq(OMsg) /\ omsg \in OMsg
      /\ write_enabled /\ Len(send_queue) \in Nat
  BY WantWriteLemma
<1>2. \/ SelectsData(s) /\ SelectsFresh(s)
      \/ SelectsControl(s) /\ SelectsFresh(s)
      \/ SelectsCurrent(s)
  BY SelectionCases
<1>3. SelectsFresh(s) => BytesSent(frame_ctx, wire) = << >> /\ obuf = << >>
  BY DEF SelectsFresh, BytesSent, IsUnderWay
<1>4. Ready(s)
  BY SelectedLemma
<1> HIDE DEF s
<1>5. SelectionOK(s) /\ s.omsg \in OMsg /\ s.omsg.type # "NULL"
  BY <1>4 DEF Ready, SelectionOK, Selection
<1>6. CASE SelectsData(s) /\ SelectsFresh(s)
  <2>1. /\ s.omsg = Head(send_queue) /\ s.send_queue = Tail(send_queue)
        /\ send_queue # << >> /\ omsg.type = "NULL"
    BY <1>6 DEF SelectsData, NoMsg
  <2>2. IsDataItem(s.omsg)
    <3>1. Head(send_queue) = send_queue[1] /\ Len(send_queue) >= 1
      BY <1>1, <2>1, EmptySeq
    <3>2. 1 \in 1..Len(send_queue)
      BY <1>1, <3>1
    <3> QED  BY <2>1, <3>1, <3>2 DEF IInv, QueuesWellFormed
  <2>3. Waiting(v, g, send_queue)
    BY <2>1 DEF DataSync
  <2>4. Sending(v, g, s.omsg.opcode, Given(s.omsg), s.send_queue)
    BY <2>1, <2>3 DEF Waiting
  <2>5. later = Given(s.omsg)
    <3>1. << >> \o Unsent(s.omsg, << >>, s.opayloadoff) = Given(s.omsg)
      BY <1>5, <1>6, <2>2, FreshRest DEF SelectsFresh, IsDataItem
    <3> QED  BY <1>3, <1>6, <3>1 DEF Rest
  <2>6. ~IsControl(s.omsg)
    BY <2>2 DEF IsControl, IsDataItem
  <2> HIDE DEF later
  <2>7. DataSync(v, g, s.omsg, later, s.send_queue)
    BY <1>5, <2>4, <2>5, <2>6 DEF DataSync
  <2> QED  BY <2>7 DEF later, s
<1>7. CASE SelectsControl(s) /\ SelectsFresh(s)
  <2>1. IsControl(s.omsg)
    <3>1. ~IsClose(omsg)
      BY <1>7 DEF SelectsControl, IsClose, NoMsg, IsPreempted, wslay_is_ctrl_frame,
                  WSLAY_CONNECTION_CLOSE
    <3>2. "QUEUED" \in close_status =>
              \E i \in 1..Len(send_ctrl_queue) : IsClose(send_ctrl_queue[i])
      BY <1>1, <3>1 DEF IInv, CloseNotLost
    <3>3. \A i \in 1..Len(send_ctrl_queue) : IsControlItem(send_ctrl_queue[i])
      BY DEF IInv, QueuesWellFormed
    <3>4. send_ctrl_queue # << >>
      BY <1>7 DEF SelectsControl
    <3>5. IsControlItem(wslay_event_send_ctrl_queue_pop.msg)
      BY <1>1, <3>2, <3>3, <3>4, PopLemma
    <3> QED  BY <1>5, <1>7, <3>5 DEF SelectsControl, IsControlItem, IsControl
  <2>2. Waiting(v, g, s.send_queue)
    <3>1. CASE IsPreempted
      <4>1. s.send_queue = << omsg >> \o send_queue
        BY <1>7, <3>1, Zenon DEF SelectsControl
      <4>2. ~wslay_is_ctrl_frame(omsg.opcode) /\ omsg # NoMsg
        BY <3>1 DEF IsPreempted
      <4>3. omsg.type = "FRAGMENTED" /\ omsg.data = << >>
        BY <1>1, <1>7, <4>2 DEF SelectsFresh, IInv, LayersInSync, InSync,
                                QueuesWellFormed, IsCurrentItem
      <4>4. Rest(frame_ctx, wire, omsg, obuf, opayloadoff) = Given(omsg)
        <5>1. << >> \o Unsent(omsg, << >>, opayloadoff) = Given(omsg)
          BY <1>1, <4>3, FreshRest
        <5> QED  BY <1>3, <1>7, <5>1 DEF Rest
      <4>5. DataSync(v, g, omsg, Given(omsg), send_queue)
        BY <4>4
      <4>6. Sending(v, g, omsg.opcode, Given(omsg), send_queue)
        BY <4>2, <4>3, <4>5 DEF DataSync, IsControl
      <4>7. Waiting(v, g, << omsg >> \o send_queue)
        BY <1>1, <4>6, SendingWaits
      <4> QED  BY <4>1, <4>7
    <3>2. CASE ~IsPreempted
      <4>1. s.send_queue = send_queue /\ omsg = NoMsg
        BY <1>7, <3>2, Zenon DEF SelectsControl
      <4>2. omsg.type = "NULL"
        BY <4>1 DEF NoMsg
      <4> QED  BY <4>1, <4>2 DEF DataSync
    <3> QED  BY <3>1, <3>2
  <2> HIDE DEF later
  <2>3. DataSync(v, g, s.omsg, later, s.send_queue)
    BY <2>1, <2>2 DEF DataSync
  <2> QED  BY <2>3 DEF later, s
<1>8. CASE SelectsCurrent(s)
  <2>1. /\ s.omsg = omsg /\ s.send_queue = send_queue /\ s.opayloadoff = opayloadoff
    BY <1>8 DEF SelectsCurrent
  <2> QED  BY <2>1 DEF s
<1> QED  BY <1>2, <1>6, <1>7, <1>8

(* And the control messages do.                                            *)
LEMMA SelectedCtrl ==
    ASSUME IInv, wslay_event_want_write, NEW fs \in Seq(WireFrame), NEW h \in Seq(OMsg),
           CtrlSync(fs, h, omsg, send_ctrl_queue),
           CloseEnds(h, "QUEUED" \in close_status),
           IsControl(omsg) => Rest(frame_ctx, wire, omsg, obuf, opayloadoff) = omsg.data,
           SourceDone(omsg), SourcesDone(send_queue), SourcesDone(send_ctrl_queue)
    PROVE  LET s == Selected
           IN  /\ CtrlSync(fs, h, s.omsg, s.send_ctrl_queue)
               /\ IsControl(s.omsg) =>
                    /\ s.omsg.fin
                    /\ Rest(frame_ctx, wire, s.omsg, obuf, s.opayloadoff) = s.omsg.data
<1> DEFINE s == Selected
           later == Rest(frame_ctx, wire, s.omsg, obuf, s.opayloadoff)
<1>1. /\ send_queue \in Seq(OMsg) /\ send_ctrl_queue \in Seq(OMsg) /\ omsg \in OMsg
      /\ write_enabled /\ Len(send_ctrl_queue) \in Nat
  BY WantWriteLemma
<1>2. \/ SelectsData(s) /\ SelectsFresh(s)
      \/ SelectsControl(s) /\ SelectsFresh(s)
      \/ SelectsCurrent(s)
  BY SelectionCases
<1>3. SelectsFresh(s) => BytesSent(frame_ctx, wire) = << >> /\ obuf = << >>
  BY DEF SelectsFresh, BytesSent, IsUnderWay
<1>4. Ready(s)
  BY SelectedLemma
<1>5. SourceDone(s.omsg)
  BY SelectedSources
<1> HIDE DEF s
<1>6. SelectionOK(s) /\ s.omsg \in OMsg /\ s.omsg.type # "NULL" /\ IsCurrentItem(s.omsg)
  BY <1>4 DEF Ready, SelectionOK, Selection
<1>7. CASE SelectsData(s) /\ SelectsFresh(s)
  <2>1. /\ s.omsg = Head(send_queue) /\ s.send_ctrl_queue = send_ctrl_queue
        /\ send_queue # << >> /\ omsg.type = "NULL" /\ Len(send_queue) \in Nat
    BY <1>1, <1>7 DEF SelectsData, NoMsg
  <2>2. IsDataItem(s.omsg)
    <3>1. Head(send_queue) = send_queue[1] /\ Len(send_queue) >= 1
      BY <1>1, <2>1, EmptySeq
    <3>2. 1 \in 1..Len(send_queue)
      BY <2>1, <3>1
    <3> QED  BY <2>1, <3>1, <3>2 DEF IInv, QueuesWellFormed
  <2>3. ~IsControl(s.omsg) /\ ~IsControl(omsg)
    BY <2>1, <2>2 DEF IsControl, IsDataItem
  <2>4. CtrlSync(fs, h, s.omsg, s.send_ctrl_queue)
    BY <2>1, <2>3 DEF CtrlSync
  <2> QED  BY <2>3, <2>4 DEF s
<1>8. CASE SelectsControl(s) /\ SelectsFresh(s)
  <2> DEFINE pop == wslay_event_send_ctrl_queue_pop
  <2>1. "QUEUED" \in close_status =>
            \E i \in 1..Len(send_ctrl_queue) : IsClose(send_ctrl_queue[i])
    <3>1. ~IsClose(omsg)
      BY <1>8 DEF SelectsControl, IsClose, NoMsg, IsPreempted, wslay_is_ctrl_frame,
                  WSLAY_CONNECTION_CLOSE
    <3> QED  BY <1>1, <3>1 DEF IInv, CloseNotLost
  <2>2. send_ctrl_queue # << >> /\ s.omsg = pop.msg /\ s.send_ctrl_queue = pop.rest
    BY <1>8 DEF SelectsControl
  <2>3. IsControlItem(pop.msg)
    <3>1. \A i \in 1..Len(send_ctrl_queue) : IsControlItem(send_ctrl_queue[i])
      BY DEF IInv, QueuesWellFormed
    <3> QED  BY <1>1, <2>1, <2>2, <3>1, PopLemma
  <2>4. Takes(send_ctrl_queue, "QUEUED" \in close_status, pop)
    BY <1>1, <2>1, PopTakes
  <2>5. ~IsControl(omsg)
    BY <1>8 DEF SelectsControl, IsControl, NoMsg, IsPreempted
  <2>6. CtrlWaiting(fs, h, send_ctrl_queue)
    BY <2>5 DEF CtrlSync
  <2> HIDE DEF pop
  <2>7. CtrlSending(fs, h, pop.msg, pop.rest)
    <3>1. CASE "QUEUED" \in close_status
      <4>1. PICK i \in 1..Len(send_ctrl_queue) :
              /\ send_ctrl_queue[i].opcode = WSLAY_CONNECTION_CLOSE
              /\ pop.msg = send_ctrl_queue[i]
        BY <2>4, <3>1 DEF Takes
      <4> DEFINE queued == "QUEUED" \in close_status
                 rest == pop.rest
      <4>2. CloseEnds(h, queued)
        OBVIOUS
      <4> HIDE DEF queued, rest
      <4>3. CtrlSending(fs, h, send_ctrl_queue[i], rest)
        BY <1>1, <2>6, <4>1, <4>2, CtrlPopClose
      <4> QED  BY <4>1, <4>3 DEF rest
    <3>2. CASE "QUEUED" \notin close_status
      <4>1. pop.msg = Head(send_ctrl_queue) /\ pop.rest = Tail(send_ctrl_queue)
        BY <2>4, <3>2 DEF Takes
      <4> QED  BY <1>1, <2>2, <2>6, <4>1, CtrlPop
    <3> QED  BY <3>1, <3>2
  <2>8. CtrlSync(fs, h, s.omsg, s.send_ctrl_queue)
    BY <1>6, <2>2, <2>3, <2>7 DEF CtrlSync, IsControl, IsControlItem
  <2>9. s.omsg.fin /\ s.omsg.source = << >> /\ s.omsg.type = "NON_FRAGMENTED"
    BY <1>5, <2>2, <2>3 DEF SourceDone, IsControlItem
  <2>10. later = s.omsg.data
    <3>1. << >> \o Unsent(s.omsg, << >>, s.opayloadoff) = Given(s.omsg)
      BY <1>6, <1>8, <2>9, FreshRest DEF SelectsFresh
    <3>2. later = Given(s.omsg)
      BY <1>3, <1>8, <3>1 DEF Rest
    <3>3. Given(s.omsg) = s.omsg.data
      <4>1. s.omsg.data \in Seq(Byte)
        BY <1>6, MsgFacts
      <4>2. s.omsg.data \o << >> = s.omsg.data
        BY <4>1, ConcatEmptySeq
      <4> QED  BY <2>9, <4>2 DEF Given
    <3> QED  BY <3>2, <3>3
  <2> QED  BY <2>8, <2>9, <2>10 DEF s
<1>9. CASE SelectsCurrent(s)
  <2>1. /\ s.omsg = omsg /\ s.send_ctrl_queue = send_ctrl_queue
        /\ s.opayloadoff = opayloadoff /\ omsg # NoMsg
    BY <1>9 DEF SelectsCurrent
  <2>2. IsControl(omsg) => omsg.fin
    BY <1>6, <2>1 DEF IsControl, IsCurrentItem
  <2> QED  BY <2>1, <2>2 DEF s
<1> QED  BY <1>2, <1>7, <1>8, <1>9

-----------------------------------------------------------------------------
(* The data messages *)

(* What the peer made of the frames before the one under way.              *)
View(fc, w) == PeerReceives(FramesBefore(fc, w))

(* SourceDone, of every message of the context.                            *)
AllSourcesDone ==
    SourceDone(omsg) /\ SourcesDone(send_queue) /\ SourcesDone(send_ctrl_queue)

(* The peer has the first data messages accepted, one of them perhaps in   *)
(* part, and what is queued is what it does not have: in send_queue, in    *)
(* omsg, in obuf, in the read callback's source, in the frame under way.   *)
DataInSync ==
    DataSync(View(frame_ctx, wire), ByQueue(accepted).data, omsg,
             Rest(frame_ctx, wire, omsg, obuf, opayloadoff), send_queue)

(* The inductive invariant for the data messages.                          *)
DataInv ==
    /\ DataArrivesIntact
    /\ GivenWell(ByQueue(accepted).data)
    /\ write_enabled => FrameSync(frame_ctx, wire) /\ AllSourcesDone /\ DataInSync

(* The peer's view of any frames is well-typed, and of none it is empty.   *)
LEMMA PeerReceivesType ==
    ASSUME NEW frames \in Seq(WireFrame)
    PROVE  /\ PeerReceives(frames) \in PeerState
           /\ frames = << >> => PeerReceives(frames) = NothingReceived
<1>1. PICK f \in [ 0..Len(frames) -> PeerState ] :
        /\ IsFold(f, NothingReceived, ReceiveStep, frames)
        /\ PeerReceives(frames) = f[Len(frames)]
  BY PeerReceivesFolds
<1>2. Len(frames) \in 0..Len(frames) /\ (frames = << >> => Len(frames) = 0)
  OBVIOUS
<1> QED  BY <1>1, <1>2 DEF IsFold

(* So are the messages by queue.                                           *)
LEMMA ByQueueType ==
    ASSUME NEW msgs \in Seq(OMsg)
    PROVE  /\ ByQueue(msgs) \in Queues
           /\ ByQueue(msgs).data \in Seq(OMsg) /\ ByQueue(msgs).ctrl \in Seq(OMsg)
           /\ msgs = << >> => ByQueue(msgs) = NoQueues
<1>1. PICK f \in [ 0..Len(msgs) -> Queues ] :
        /\ IsFold(f, NoQueues, SortStep, msgs)
        /\ ByQueue(msgs) = f[Len(msgs)]
  BY ByQueueFolds
<1>2. Len(msgs) \in 0..Len(msgs) /\ (msgs = << >> => Len(msgs) = 0)
  OBVIOUS
<1>3. ByQueue(msgs) \in Queues
  BY <1>1, <1>2
<1>4. ByQueue(msgs).data \in Seq(OMsg) /\ ByQueue(msgs).ctrl \in Seq(OMsg)
  BY <1>3 DEF Queues
<1> QED  BY <1>1, <1>2, <1>3, <1>4 DEF IsFold

(* What is in use at the beginning of a step.                              *)
LEMMA ViewFactsNow ==
    ASSUME IInv, FrameSync(frame_ctx, wire)
    PROVE  /\ FramesBefore(frame_ctx, wire) \in Seq(WireFrame)
           /\ BytesSent(frame_ctx, wire) \in Seq(Byte)
           /\ View(frame_ctx, wire) \in PeerState
           /\ ByQueue(accepted).data \in Seq(OMsg) /\ ByQueue(accepted).ctrl \in Seq(OMsg)
<1>1. frame_ctx \in FrameContext /\ wire \in Seq(WireFrame) /\ accepted \in Seq(OMsg)
  BY TypeFacts, Zenon DEF IInv
<1>2. /\ FramesBefore(frame_ctx, wire) \in Seq(WireFrame)
      /\ BytesSent(frame_ctx, wire) \in Seq(Byte)
  BY <1>1, SyncFacts
<1> QED  BY <1>1, <1>2, PeerReceivesType, ByQueueType DEF View

(* The iteration, as far as the data messages are concerned.               *)
LEMMA EventSendKeepsData ==
    ASSUME IInv, IInv', DataInv, wslay_event_send
    PROVE  DataInv'
<1> DEFINE s == Selected
           w0 == FramesBefore(frame_ctx, wire)
           sent == BytesSent(frame_ctx, wire)
           v == View(frame_ctx, wire)
           g == ByQueue(accepted).data
<1>1. /\ wslay_event_want_write /\ write_enabled
  BY DEF wslay_event_send, wslay_event_want_write
<1>2. /\ FrameSync(frame_ctx, wire) /\ AllSourcesDone /\ DataInSync
      /\ GivenWell(g)
  BY <1>1 DEF DataInv
<1>3. /\ w0 \in Seq(WireFrame) /\ sent \in Seq(Byte) /\ v \in PeerState /\ g \in Seq(OMsg)
  BY <1>2, ViewFactsNow
<1>4. v = PeerReceives(w0)
  BY DEF View
<1>5. /\ SourceDone(s.omsg) /\ SourcesDone(s.send_queue) /\ SourcesDone(s.send_ctrl_queue)
  BY <1>1, <1>2, SelectedSources DEF AllSourcesDone
<1>6. DataSync(v, g, s.omsg, Rest(frame_ctx, wire, s.omsg, obuf, s.opayloadoff), s.send_queue)
  <2>1. DataSync(v, g, omsg, Rest(frame_ctx, wire, omsg, obuf, opayloadoff), send_queue)
    BY <1>2 DEF DataInSync
  <2> HIDE DEF v, g
  <2> QED  BY <1>1, <1>3, <2>1, SelectedData
<1>7. PICK t, data : IterationOf(s, t, data)
  BY <1>2, <1>5, IterationLemma DEF SourceDone
<1>8. SelectionOK(s) /\ s \in Selection
  BY <1>1, SelectedLemma DEF Ready, SelectionOK
<1> HIDE DEF s
<1>9. /\ s.omsg.type # "NULL" /\ IsCurrentItem(s.omsg) /\ s.send_queue \in Seq(OMsg)
  BY <1>8 DEF SelectionOK, Selection
<1> DEFINE later == t.omsg.source
           q == t.send_queue
<1>10. /\ t.omsg \in OMsg
       /\ t.omsg.type = s.omsg.type /\ t.omsg.opcode = s.omsg.opcode
       /\ t.send_queue = s.send_queue /\ t.send_ctrl_queue = s.send_ctrl_queue
       /\ t.omsg.fin => later = << >>
       /\ data \in Seq(Byte)
       /\ data \o later = Unsent(s.omsg, obuf, s.opayloadoff)
       /\ Iterated(t, w0, sent, data)
  BY <1>7 DEF IterationOf
<1>11. later \in Seq(Byte) /\ q \in Seq(OMsg) /\ t.omsg.type # "NULL"
  BY <1>9, <1>10, MsgFacts
<1> HIDE DEF v, g, w0, sent
<1>12. DataSync(v, g, t.omsg, sent \o (data \o later), q)
  <2>1. Rest(frame_ctx, wire, s.omsg, obuf, s.opayloadoff) = sent \o (data \o later)
    BY <1>10 DEF Rest, sent
  <2>2. DataSync(v, g, s.omsg, sent \o (data \o later), s.send_queue)
    BY <1>6, <2>1
  <2> QED  BY <1>10, <2>2 DEF DataSync, IsControl
<1> HIDE DEF later, q
<1>13. /\ send_queue' = q /\ send_ctrl_queue' = t.send_ctrl_queue /\ accepted' = accepted
       /\ \/ wire' = w0
          \/ \E f \in WireFrame : wire' = Append(w0, f) /\ FrameOf(f, t.omsg, sent, data)
       /\ \/ IterKept(t, w0, sent \o (data \o later))
          \/ IterMore(t, w0, sent, data)
          \/ IterWhole(t, w0, sent, data)
  BY <1>10 DEF Iterated, q, later
<1>14. ByQueue(accepted').data = g
  BY <1>13 DEF g
<1>15. sent \o (data \o later) \in Seq(Byte)
  BY <1>3, <1>10, <1>11, ConcatProperties
<1>16. DataArrivesIntact'
  <2>1. CASE wire' = w0
    <3>1. ArrivesIntact(v, g)
      BY <1>3, <1>11, <1>12, <1>15, DataSyncIntact
    <3>2. PeerReceives(wire') = v
      BY <1>4, <2>1
    <3> QED  BY <1>14, <3>1, <3>2 DEF DataArrivesIntact
  <2>2. ASSUME NEW f \in WireFrame, wire' = Append(w0, f), FrameOf(f, t.omsg, sent, data)
        PROVE  DataArrivesIntact'
    <3>1. ArrivesIntact(Receive(v, f), g)
      <4>1. later = << >> \/ ~t.omsg.fin
        BY <1>10
      <4> QED  BY <1>2, <1>3, <1>10, <1>11, <1>12, <2>2, <4>1, DataFrameIntact DEF g
    <3>2. PeerReceives(wire') = Receive(v, f)
      BY <1>3, <1>4, <2>2, PeerReceivesAppend
    <3> QED  BY <1>14, <3>1, <3>2 DEF DataArrivesIntact
  <2> QED  BY <1>13, <2>1, <2>2
<1>17. GivenWell(ByQueue(accepted').data)
  BY <1>2, <1>14 DEF g
<1>18. SourcesDone(send_queue') /\ SourcesDone(send_ctrl_queue')
  BY <1>5, <1>10, <1>13 DEF q
<1>19. ASSUME write_enabled'
       PROVE  /\ FrameSync(frame_ctx', wire') /\ SourceDone(omsg')
              /\ DataSync(View(frame_ctx', wire'), g, omsg',
                          Rest(frame_ctx', wire', omsg', obuf', opayloadoff'), q)
  <2> DEFINE rest == Rest(frame_ctx', wire', omsg', obuf', opayloadoff')
  <2>1. CASE IterKept(t, w0, sent \o (data \o later))
    <3>1. /\ omsg' = t.omsg
          /\ FrameSync(frame_ctx', wire') /\ FramesBefore(frame_ctx', wire') = w0
          /\ rest = sent \o (data \o later)
      BY <1>19, <2>1 DEF IterKept
    <3>2. View(frame_ctx', wire') = v
      BY <1>4, <3>1 DEF View
    <3> HIDE DEF rest
    <3>3. DataSync(View(frame_ctx', wire'), g, omsg', rest, q)
      BY <1>12, <3>1, <3>2
    <3>4. SourceDone(omsg')
      BY <1>10, <3>1 DEF SourceDone, later
    <3> QED  BY <3>1, <3>3, <3>4 DEF rest
  <2>2. ASSUME FrameDone(t, w0, sent, data)
        PROVE  \E f \in WireFrame :
                 /\ FrameSync(frame_ctx', wire') /\ View(frame_ctx', wire') = Receive(v, f)
                 /\ WholeFrame(f, t.omsg, sent, data)
    <3>1. PICK f \in WireFrame :
            wire' = Append(w0, f) /\ WholeFrame(f, t.omsg, sent, data)
      BY <2>2 DEF FrameDone
    <3>2. FrameSync(frame_ctx', wire') /\ FramesBefore(frame_ctx', wire') = wire'
      BY <2>2 DEF FrameDone, FramesBefore
    <3>3. View(frame_ctx', wire') = Receive(v, f)
      BY <1>3, <1>4, <3>1, <3>2, PeerReceivesAppend DEF View
    <3> QED  BY <3>1, <3>2, <3>3
  <2>3. CASE IterMore(t, w0, sent, data)
    <3>1. /\ t.omsg.type = "FRAGMENTED" /\ ~t.omsg.fin
          /\ omsg' = [ t.omsg EXCEPT !.opcode = WSLAY_CONTINUATION_FRAME ]
          /\ FrameDone(t, w0, sent, data) /\ rest = later
      BY <2>3 DEF IterMore, later
    <3>2. PICK f \in WireFrame :
            /\ FrameSync(frame_ctx', wire') /\ View(frame_ctx', wire') = Receive(v, f)
            /\ WholeFrame(f, t.omsg, sent, data)
      BY <2>2, <3>1
    <3>3. ~IsControl(t.omsg)
      <4>1. s.omsg # NoMsg /\ s.omsg.type = "FRAGMENTED"
        <5>1. s.omsg.type = "FRAGMENTED"
          BY <1>10, <3>1
        <5> QED  BY <5>1 DEF NoMsg
      <4> QED  BY <1>9, <1>10, <4>1 DEF IsControl, IsCurrentItem
    <3>4. Sending(Receive(v, f), g, WSLAY_CONTINUATION_FRAME, later, q)
      BY <1>2, <1>3, <1>10, <1>11, <1>12, <3>1, <3>2, <3>3, DataFrameMore DEF g
    <3>5. /\ omsg'.type = "FRAGMENTED" /\ omsg'.opcode = WSLAY_CONTINUATION_FRAME
          /\ ~omsg'.fin
      BY <1>10, <3>1 DEF OMsg
    <3>6. ~IsControl(omsg')
      BY <3>5 DEF IsControl, wslay_is_ctrl_frame, WSLAY_CONTINUATION_FRAME
    <3> HIDE DEF rest
    <3>7. DataSync(View(frame_ctx', wire'), g, omsg', rest, q)
      BY <3>1, <3>2, <3>4, <3>5, <3>6 DEF DataSync
    <3>8. SourceDone(omsg')
      BY <3>5 DEF SourceDone
    <3> QED  BY <3>2, <3>7, <3>8 DEF rest
  <2>4. CASE IterWhole(t, w0, sent, data)
    <3>1. t.omsg.fin /\ FrameDone(t, w0, sent, data) /\ omsg' = NoMsg
      BY <2>4 DEF IterWhole, SentWhole
    <3>2. PICK f \in WireFrame :
            /\ FrameSync(frame_ctx', wire') /\ View(frame_ctx', wire') = Receive(v, f)
            /\ WholeFrame(f, t.omsg, sent, data)
      BY <2>2, <3>1
    <3>3. later = << >>
      BY <1>10, <3>1
    <3>4. Waiting(Receive(v, f), g, q)
      BY <1>2, <1>3, <1>10, <1>11, <1>12, <3>1, <3>2, <3>3, DataFrameLast DEF g
    <3>5. omsg'.type = "NULL" /\ ~omsg'.fin
      BY <3>1 DEF NoMsg
    <3> HIDE DEF rest
    <3>6. DataSync(View(frame_ctx', wire'), g, omsg', rest, q)
      BY <3>2, <3>4, <3>5 DEF DataSync
    <3>7. SourceDone(omsg')
      BY <3>5 DEF SourceDone
    <3> QED  BY <3>2, <3>6, <3>7 DEF rest
  <2> QED  BY <1>13, <2>1, <2>3, <2>4
<1>20. write_enabled' => FrameSync(frame_ctx', wire') /\ AllSourcesDone' /\ DataInSync'
  <2> SUFFICES ASSUME write_enabled'
               PROVE  FrameSync(frame_ctx', wire') /\ AllSourcesDone' /\ DataInSync'
    OBVIOUS
  <2>1. /\ FrameSync(frame_ctx', wire') /\ SourceDone(omsg')
        /\ DataSync(View(frame_ctx', wire'), g, omsg',
                    Rest(frame_ctx', wire', omsg', obuf', opayloadoff'), q)
    BY <1>19
  <2>2. AllSourcesDone'
    BY <1>18, <2>1 DEF AllSourcesDone
  <2>3. DataInSync'
    BY <1>13, <1>14, <2>1 DEF DataInSync
  <2> QED  BY <2>1, <2>2, <2>3
<1> QED  BY <1>16, <1>17, <1>20 DEF DataInv

-----------------------------------------------------------------------------
(* The steps that are no iteration of wslay_event_send                     *)

(* The queues and what is being sent stay; writing may be disabled.        *)
Idle ==
    /\ UNCHANGED << queueVars, frameVars, sendVars >>
    /\ write_enabled' => write_enabled

(* Nothing happens, or writing is disabled.                                *)
Quiet ==
    /\ UNCHANGED << close_status, queueVars, frameVars, sendVars >>
    /\ write_enabled' => write_enabled

(* The body of a Close frame: a status code comes first, if there is one.  *)
BodyWell(data) == data = << >> \/ (Len(data) >= 2 /\ ntohs(data) # 0)

(* The message m joins the queue for its kind.                             *)
Joins(m) ==
    /\ m \in OMsg /\ m.opcode # WSLAY_CONTINUATION_FRAME /\ SourceDone(m)
    /\ IF wslay_is_ctrl_frame(m.opcode) THEN IsControlItem(m) ELSE IsDataItem(m)
    /\ write_enabled
    /\ Enqueue(m)
    /\ UNCHANGED << write_enabled, frameVars, sendVars >>

(* The message m is accepted; a Close frame that wslay_event_queue_close   *)
(* made is noted.                                                          *)
Accepts(m) ==
    /\ m \in OMsg /\ m.opcode # WSLAY_CONTINUATION_FRAME /\ SourceDone(m)
    /\ IF wslay_is_ctrl_frame(m.opcode) THEN IsControlItem(m) ELSE IsDataItem(m)
    /\ write_enabled /\ "QUEUED" \notin close_status
    /\ Enqueue(m)
    /\ UNCHANGED << write_enabled, frameVars, sendVars >>
    /\ \/ m.opcode \in AppOpcodes /\ close_status' = close_status
       \/ /\ m.opcode = WSLAY_CONNECTION_CLOSE /\ BodyWell(m.data)
          /\ close_status' = close_status \cup {"QUEUED"}

(* A new message has a source only if it is fragmented.                    *)
LEMMA NewMsgSources ==
    ASSUME NEW opcode, NEW data
    PROVE  /\ SourceDone(omsg_non_fragmented_new(opcode, data))
           /\ SourceDone(omsg_fragmented_new(opcode, data))
           /\ omsg_non_fragmented_new(opcode, data).data = data
  BY DEF SourceDone, omsg_non_fragmented_new, omsg_fragmented_new

(* ntohs reads what htons wrote.                                           *)
LEMMA CloseBodyWell ==
    ASSUME NEW status \in StatusCode, NEW reason \in Seq(Byte)
    PROVE  BodyWell(CloseBody(status, reason))
<1>1. CASE status = 0
  BY <1>1 DEF CloseBody, BodyWell
<1>2. CASE status # 0
  <2>1. status \in Nat /\ status <= 65535
    <3>1. status \in 0..UINT16_MAX
      BY DEF StatusCode
    <3>2. UINT16_MAX \in Nat
      BY DEF UINT16_MAX
    <3>3. status \in Nat /\ status <= UINT16_MAX
      BY <3>1, <3>2
    <3> QED
      BY <3>3 DEF UINT16_MAX
  <2> DEFINE hi == status \div 256
             lo == status % 256
             d == htons(status) \o reason
  <2>2. hi \in Byte /\ lo \in Byte /\ 256 * hi + lo = status
    BY <2>1 DEF Byte
  <2>3. htons(status) = << hi, lo >>
    BY DEF htons
  <2> HIDE DEF hi, lo
  <2>4. << hi, lo >> \in Seq(Byte) /\ Len(<< hi, lo >>) = 2
        /\ << hi, lo >>[1] = hi /\ << hi, lo >>[2] = lo
    BY <2>2
  <2>5. /\ Len(d) = 2 + Len(reason)
        /\ \A i \in 1..(2 + Len(reason)) :
             d[i] = IF i <= 2 THEN << hi, lo >>[i] ELSE reason[i - 2]
    BY <2>3, <2>4, ConcatProperties
  <2>6. Len(reason) \in Nat
    OBVIOUS
  <2> HIDE DEF d
  <2>7. 1 \in 1..(2 + Len(reason)) /\ 2 \in 1..(2 + Len(reason))
    BY <2>6
  <2>8. d[1] = hi /\ d[2] = lo /\ Len(d) >= 2
    BY <2>4, <2>5, <2>6, <2>7
  <2>9. ntohs(d) = status
    BY <2>2, <2>8 DEF ntohs
  <2>10. CloseBody(status, reason) = d
    BY <1>2 DEF CloseBody, d
  <2> QED  BY <1>2, <2>8, <2>9, <2>10 DEF BodyWell
<1> QED  BY <1>1, <1>2

(* wslay_event_queue_msg accepts, or nothing happens.                      *)
LEMMA QueueMsgAccepts ==
    ASSUME IInv, NEW opcode \in Opcodes, opcode # WSLAY_CONTINUATION_FRAME,
           NEW data \in Seq(Byte), NEW r,
           wslay_event_queue_msg(opcode, data, r),
           UNCHANGED << write_enabled, frameVars, sendVars >>,
           \/ close_status' = close_status /\ (r = 0 => opcode \in AppOpcodes)
           \/ /\ r = 0 /\ opcode = WSLAY_CONNECTION_CLOSE /\ BodyWell(data)
              /\ close_status' = close_status \cup {"QUEUED"}
    PROVE  Quiet \/ \E m : Accepts(m)
<1>1. CASE MsgRefusal(opcode, data, r) /\ UNCHANGED queueVars
  <2>1. r # 0
    BY <1>1 DEF MsgRefusal, WSLAY_ERR_NO_MORE_MSG, WSLAY_ERR_INVALID_ARGUMENT
  <2>2. write_enabled' = write_enabled /\ close_status' = close_status
    BY <2>1
  <2> QED  BY <1>1, <2>2 DEF Quiet
<1>2. CASE /\ wslay_event_is_msg_queueable
           /\ ~(wslay_is_ctrl_frame(opcode) /\ Len(data) > CtrlMax)
           /\ r = 0
           /\ Enqueue(omsg_non_fragmented_new(opcode, data))
  <2> DEFINE m == omsg_non_fragmented_new(opcode, data)
  <2>1. Len(data) \in Nat /\ CtrlMax \in Nat
    BY CtrlMaxAssumption
  <2>2. /\ m \in OMsg /\ m.opcode = opcode
        /\ IF wslay_is_ctrl_frame(m.opcode) THEN IsControlItem(m) ELSE IsDataItem(m)
    BY <1>2, <2>1, NewMsgLemma
  <2>3. SourceDone(m) /\ m.data = data
    BY NewMsgSources
  <2>4. Enqueue(m)
    BY <1>2
  <2> HIDE DEF m
  <2>5. write_enabled /\ "QUEUED" \notin close_status
    BY <1>2 DEF wslay_event_is_msg_queueable
  <2>6. \/ m.opcode \in AppOpcodes /\ close_status' = close_status
        \/ /\ m.opcode = WSLAY_CONNECTION_CLOSE /\ BodyWell(m.data)
           /\ close_status' = close_status \cup {"QUEUED"}
    BY <1>2, <2>2, <2>3
  <2>7. Accepts(m)
    BY <2>2, <2>3, <2>4, <2>5, <2>6 DEF Accepts
  <2> QED  BY <2>7
<1> QED  BY <1>1, <1>2 DEF wslay_event_queue_msg

(* Every step that is no iteration is quiet or accepts a message.          *)
LEMMA OtherSteps ==
    ASSUME IInv, [Next]_vars, ~wslay_event_send
    PROVE  Quiet \/ \E m : Accepts(m)
<1>1. CASE PushFrontFails
  BY <1>1 DEF PushFrontFails, Quiet
<1>2. CASE wslay_event_shutdown_write
  BY <1>2 DEF wslay_event_shutdown_write, Quiet
<1>3. CASE UNCHANGED vars
  BY <1>3 DEF vars, Quiet
<1>4. CASE QueueMsg
  <2>1. PICK opcode \in AppOpcodes, len \in 0..MaxLen, r \in QueueReturns :
          wslay_event_queue_msg(opcode, NewPayload(len), r)
    BY <1>4 DEF QueueMsg
  <2>2. opcode \in Opcodes /\ opcode # WSLAY_CONTINUATION_FRAME
    BY EventSendAssumption
  <2>3. NewPayload(len) \in Seq(Byte)
    BY <1>4, NewPayloadLemma DEF QueueMsg, IInv
  <2>4. /\ close_status' = close_status
        /\ UNCHANGED << write_enabled, frameVars, sendVars >>
    BY <1>4 DEF QueueMsg
  <2> QED  BY <2>1, <2>2, <2>3, <2>4, QueueMsgAccepts
<1>5. CASE QueueFragmentedMsg
  <2>1. PICK opcode \in AppOpcodes, len \in 1..MaxLen, r \in QueueReturns :
          wslay_event_queue_fragmented_msg(opcode, NewPayload(len), r)
    BY <1>5 DEF QueueFragmentedMsg
  <2>2. opcode \in Opcodes /\ opcode # WSLAY_CONTINUATION_FRAME /\ len \in 0..MaxLen
    BY EventSendAssumption
  <2>3. NewPayload(len) \in Seq(Byte)
    BY <1>5, <2>2, NewPayloadLemma DEF QueueFragmentedMsg, IInv
  <2>4. /\ close_status' = close_status
        /\ UNCHANGED << write_enabled, frameVars, sendVars >>
    BY <1>5 DEF QueueFragmentedMsg
  <2> DEFINE source == NewPayload(len)
             m == omsg_fragmented_new(opcode, source)
  <2>5. \/ UNCHANGED queueVars
        \/ wslay_event_is_msg_queueable /\ ~wslay_is_ctrl_frame(opcode) /\ Enqueue(m)
    BY <2>1 DEF wslay_event_queue_fragmented_msg
  <2> HIDE DEF source
  <2>6. CASE UNCHANGED queueVars
    BY <2>4, <2>6 DEF Quiet
  <2>7. CASE wslay_event_is_msg_queueable /\ ~wslay_is_ctrl_frame(opcode) /\ Enqueue(m)
    <3>1. /\ m \in OMsg /\ m.opcode = opcode /\ IsDataItem(m) /\ SourceDone(m)
      BY <2>2, <2>3, <2>7, NewMsgLemma, NewMsgSources DEF source
    <3> HIDE DEF m
    <3>2. write_enabled /\ "QUEUED" \notin close_status
      BY <2>7 DEF wslay_event_is_msg_queueable
    <3>3. Accepts(m)
      BY <2>2, <2>4, <2>7, <3>1, <3>2 DEF Accepts
    <3> QED  BY <3>3
  <2> QED  BY <2>5, <2>6, <2>7
<1>6. CASE QueueClose
  <2>1. PICK status \in AppStatus, len \in 0..MaxLen, r \in QueueReturns :
          wslay_event_queue_close(close_status, status, NewPayload(len), r)
    BY <1>6 DEF QueueClose
  <2>2. status \in StatusCode /\ WSLAY_CONNECTION_CLOSE \in Opcodes
        /\ WSLAY_CONNECTION_CLOSE # WSLAY_CONTINUATION_FRAME
    BY EventSendAssumption DEF Opcodes, WSLAY_CONNECTION_CLOSE, WSLAY_CONTINUATION_FRAME
  <2>3. NewPayload(len) \in Seq(Byte)
    BY <1>6, NewPayloadLemma DEF QueueClose, IInv
  <2>4. UNCHANGED << write_enabled, frameVars, sendVars >>
    BY <1>6 DEF QueueClose
  <2> DEFINE reason == NewPayload(len)
             body == CloseBody(status, reason)
  <2>5. CASE close_status' = close_status /\ UNCHANGED queueVars
    BY <2>4, <2>5 DEF Quiet
  <2>6. CASE /\ Len(reason) <= CtrlMax - 2
             /\ wslay_event_queue_msg(WSLAY_CONNECTION_CLOSE, body, r)
             /\ close_status' = IF r = 0 THEN close_status \cup {"QUEUED"}
                                ELSE close_status
    <3>1. body \in Seq(Byte) /\ BodyWell(body)
      BY <2>2, <2>3, <2>6, CloseBodyLemma, CloseBodyWell
    <3> HIDE DEF body
    <3>2. \/ close_status' = close_status
                /\ (r = 0 => WSLAY_CONNECTION_CLOSE \in AppOpcodes)
          \/ /\ r = 0 /\ WSLAY_CONNECTION_CLOSE = WSLAY_CONNECTION_CLOSE /\ BodyWell(body)
             /\ close_status' = close_status \cup {"QUEUED"}
      BY <2>6, <3>1
    <3> QED  BY <2>2, <2>4, <2>6, <3>1, <3>2, QueueMsgAccepts
  <2> QED  BY <2>1, <2>5, <2>6 DEF wslay_event_queue_close
<1> QED  BY <1>1, <1>2, <1>3, <1>4, <1>5, <1>6 DEF Next

-----------------------------------------------------------------------------
(* The data messages in every reachable state                              *)

(* What has arrived intact stays so when another message is accepted.      *)
LEMMA ArrivesIntactAppend ==
    ASSUME NEW v \in PeerState, NEW g \in Seq(OMsg), NEW e \in OMsg, ArrivesIntact(v, g)
    PROVE  ArrivesIntact(v, Append(g, e))
<1> DEFINE h == Append(g, e)
           n == Len(v.msgs)
<1>1. /\ h \in Seq(OMsg) /\ Len(h) = Len(g) + 1 /\ Len(g) \in Nat
      /\ \A i \in 1..Len(g) : h[i] = g[i]
  OBVIOUS
<1>2. n \in Nat /\ v.open \in BOOLEAN
  BY ViewFacts
<1>3. /\ v.ok
      /\ n + (IF v.open THEN 1 ELSE 0) <= Len(g)
      /\ \A i \in 1..n : v.msgs[i] = [ opcode |-> g[i].opcode, data |-> Given(g[i]) ]
      /\ v.open => /\ v.opcode = g[n + 1].opcode
                   /\ IsPrefix(v.data, Given(g[n + 1]))
  BY DEF ArrivesIntact
<1> HIDE DEF h, n
<1>4. n + (IF v.open THEN 1 ELSE 0) <= Len(h)
  BY <1>1, <1>2, <1>3
<1>5. \A i \in 1..n : i \in 1..Len(g)
  BY <1>1, <1>2, <1>3
<1>6. v.open => n + 1 \in 1..Len(g)
  BY <1>1, <1>2, <1>3
<1>7. \A i \in 1..n : v.msgs[i] = [ opcode |-> h[i].opcode, data |-> Given(h[i]) ]
  BY <1>1, <1>3, <1>5
<1>8. v.open => /\ v.opcode = h[n + 1].opcode
                /\ IsPrefix(v.data, Given(h[n + 1]))
  BY <1>1, <1>3, <1>6
<1> QED  BY <1>3, <1>4, <1>7, <1>8 DEF ArrivesIntact, h, n

(* The application gives no continuation (EventSendAssumption).            *)
LEMMA GivenWellAppend ==
    ASSUME NEW g \in Seq(OMsg), NEW e \in OMsg, GivenWell(g),
           e.opcode # WSLAY_CONTINUATION_FRAME
    PROVE  GivenWell(Append(g, e))
<1> DEFINE h == Append(g, e)
<1>1. /\ Len(h) = Len(g) + 1 /\ Len(g) \in Nat
      /\ \A i \in 1..Len(g) : h[i] = g[i]
      /\ h[Len(g) + 1] = e
  OBVIOUS
<1> HIDE DEF h
<1>2. \A i \in 1..Len(h) : i \in 1..Len(g) \/ i = Len(g) + 1
  BY <1>1
<1>3. GivenWell(h)
  BY <1>1, <1>2 DEF GivenWell
<1> QED  BY <1>3 DEF h

(* A data message accepted is one more that waits, whatever is being sent. *)
LEMMA DataSyncAppend ==
    ASSUME NEW v \in PeerState, NEW g \in Seq(OMsg), NEW q \in Seq(OMsg), NEW e \in OMsg,
           NEW m, NEW bytes, DataSync(v, g, m, bytes, q)
    PROVE  DataSync(v, Append(g, e), m, bytes, Append(q, e))
<1>1. CASE m.type = "NULL" \/ IsControl(m)
  BY <1>1, WaitingAppend DEF DataSync
<1>2. CASE ~(m.type = "NULL" \/ IsControl(m))
  BY <1>2, SendingAppend DEF DataSync
<1> QED  BY <1>1, <1>2

(* A quiet step leaves the data messages alone.                            *)
LEMMA IdleKeepsData ==
    ASSUME DataInv, Idle
    PROVE  DataInv'
<1>1. /\ accepted' = accepted /\ send_queue' = send_queue
      /\ send_ctrl_queue' = send_ctrl_queue /\ wire' = wire /\ frame_ctx' = frame_ctx
      /\ omsg' = omsg /\ obuf' = obuf /\ opayloadoff' = opayloadoff
      /\ write_enabled' => write_enabled
  BY DEF Idle, queueVars, frameVars, sendVars
<1>2. DataArrivesIntact' /\ GivenWell(ByQueue(accepted').data)
  BY <1>1 DEF DataInv, DataArrivesIntact
<1>3. ASSUME write_enabled'
      PROVE  FrameSync(frame_ctx', wire') /\ AllSourcesDone' /\ DataInSync'
  <2>1. FrameSync(frame_ctx, wire) /\ AllSourcesDone /\ DataInSync
    BY <1>1, <1>3 DEF DataInv
  <2>2. AllSourcesDone'
    BY <1>1, <2>1 DEF AllSourcesDone
  <2>3. DataInSync'
    BY <1>1, <2>1 DEF DataInSync
  <2> QED  BY <1>1, <2>1, <2>2, <2>3
<1> QED  BY <1>2, <1>3 DEF DataInv

(* What changes nothing the peer or the queues have keeps DataInv.         *)
LEMMA QuietKeepsData ==
    ASSUME DataInv, Quiet
    PROVE  DataInv'
  BY IdleKeepsData DEF Quiet, Idle

(* A message that is accepted joins its queue.                             *)
LEMMA AcceptsJoins ==
    ASSUME NEW m, Accepts(m)
    PROVE  Joins(m)
  BY DEF Accepts, Joins

(* A message that joins a queue: where it goes.                            *)
LEMMA JoinsFacts ==
    ASSUME IInv, NEW m, Joins(m)
    PROVE  /\ m \in OMsg /\ SourceDone(m) /\ m.opcode # WSLAY_CONTINUATION_FRAME
           /\ write_enabled /\ write_enabled'
           /\ accepted \in Seq(OMsg) /\ send_queue \in Seq(OMsg)
           /\ send_ctrl_queue \in Seq(OMsg)
           /\ wire' = wire /\ frame_ctx' = frame_ctx /\ omsg' = omsg /\ obuf' = obuf
           /\ opayloadoff' = opayloadoff /\ status_code_sent' = status_code_sent
           /\ IF wslay_is_ctrl_frame(m.opcode)
              THEN /\ send_queue' = send_queue
                   /\ send_ctrl_queue' = Append(send_ctrl_queue, m)
                   /\ ByQueue(accepted').data = ByQueue(accepted).data
                   /\ ByQueue(accepted').ctrl = Append(ByQueue(accepted).ctrl, m)
              ELSE /\ send_queue' = Append(send_queue, m)
                   /\ send_ctrl_queue' = send_ctrl_queue
                   /\ ByQueue(accepted').data = Append(ByQueue(accepted).data, m)
                   /\ ByQueue(accepted').ctrl = ByQueue(accepted).ctrl
<1>1. /\ m \in OMsg /\ SourceDone(m) /\ m.opcode # WSLAY_CONTINUATION_FRAME
      /\ write_enabled /\ write_enabled' = write_enabled
      /\ Enqueue(m) /\ UNCHANGED << frameVars, sendVars >>
  BY DEF Joins
<1>2. /\ accepted \in Seq(OMsg) /\ send_queue \in Seq(OMsg)
      /\ send_ctrl_queue \in Seq(OMsg)
  BY TypeFacts, Zenon DEF IInv
<1>3. accepted' = Append(accepted, m)
  BY <1>1 DEF Enqueue
<1> DEFINE b == ByQueue(accepted)
<1>4. b \in Queues /\ ByQueue(accepted') = Sort(b, m)
  BY <1>1, <1>2, <1>3, ByQueueAppend
<1> HIDE DEF b
<1>5. IF wslay_is_ctrl_frame(m.opcode)
      THEN ByQueue(accepted').data = b.data /\ ByQueue(accepted').ctrl = Append(b.ctrl, m)
      ELSE ByQueue(accepted').data = Append(b.data, m) /\ ByQueue(accepted').ctrl = b.ctrl
  BY <1>1, <1>4, SortLemma
<1>6. IF wslay_is_ctrl_frame(m.opcode)
      THEN send_queue' = send_queue /\ send_ctrl_queue' = Append(send_ctrl_queue, m)
      ELSE send_queue' = Append(send_queue, m) /\ send_ctrl_queue' = send_ctrl_queue
  BY <1>1 DEF Enqueue
<1>7. /\ wire' = wire /\ frame_ctx' = frame_ctx /\ omsg' = omsg /\ obuf' = obuf
      /\ opayloadoff' = opayloadoff /\ status_code_sent' = status_code_sent
  BY <1>1 DEF frameVars, sendVars
<1>8. write_enabled'
  BY <1>1
<1> QED  BY <1>1, <1>2, <1>5, <1>6, <1>7, <1>8 DEF b

(* A message that joins a queue keeps the invariant for the data messages. *)
LEMMA JoinsKeepsData ==
    ASSUME IInv, DataInv, NEW m, Joins(m)
    PROVE  DataInv'
<1> DEFINE g == ByQueue(accepted).data
           v == View(frame_ctx, wire)
           rest == Rest(frame_ctx, wire, omsg, obuf, opayloadoff)
           p == PeerReceives(wire)
<1>1. /\ m \in OMsg /\ SourceDone(m) /\ m.opcode # WSLAY_CONTINUATION_FRAME
      /\ write_enabled
      /\ send_queue \in Seq(OMsg) /\ send_ctrl_queue \in Seq(OMsg)
      /\ wire' = wire /\ frame_ctx' = frame_ctx /\ omsg' = omsg /\ obuf' = obuf
      /\ opayloadoff' = opayloadoff
  BY JoinsFacts
<1>2. IF wslay_is_ctrl_frame(m.opcode)
      THEN /\ send_queue' = send_queue /\ send_ctrl_queue' = Append(send_ctrl_queue, m)
           /\ ByQueue(accepted').data = g
      ELSE /\ send_queue' = Append(send_queue, m) /\ send_ctrl_queue' = send_ctrl_queue
           /\ ByQueue(accepted').data = Append(g, m)
  BY JoinsFacts
<1>3. /\ FrameSync(frame_ctx, wire) /\ AllSourcesDone
      /\ DataSync(v, g, omsg, rest, send_queue)
      /\ GivenWell(g) /\ ArrivesIntact(p, g)
  BY <1>1 DEF DataInv, DataInSync, DataArrivesIntact
<1>4. v \in PeerState /\ g \in Seq(OMsg)
  BY <1>3, ViewFactsNow
<1>5. p \in PeerState
  <2>1. wire \in Seq(WireFrame)
    BY TypeFacts, Zenon DEF IInv
  <2> QED  BY <2>1, PeerReceivesType
<1>6. /\ View(frame_ctx', wire') = v /\ PeerReceives(wire') = p
      /\ Rest(frame_ctx', wire', omsg', obuf', opayloadoff') = rest
      /\ FrameSync(frame_ctx', wire')
  BY <1>1, <1>3
<1> HIDE DEF g, v, rest, p
<1>7. AllSourcesDone'
  BY <1>1, <1>2, <1>3, SourcesDoneFront DEF AllSourcesDone
<1>8. CASE wslay_is_ctrl_frame(m.opcode)
  <2>1. send_queue' = send_queue /\ ByQueue(accepted').data = g
    BY <1>2, <1>8
  <2>2. DataInSync'
    BY <1>1, <1>3, <1>6, <2>1 DEF DataInSync
  <2>3. DataArrivesIntact'
    BY <1>3, <1>6, <2>1 DEF DataArrivesIntact
  <2> QED  BY <1>3, <1>6, <1>7, <2>1, <2>2, <2>3 DEF DataInv
<1>9. CASE ~wslay_is_ctrl_frame(m.opcode)
  <2>1. send_queue' = Append(send_queue, m) /\ ByQueue(accepted').data = Append(g, m)
    BY <1>2, <1>9
  <2>2. DataSync(v, Append(g, m), omsg, rest, Append(send_queue, m))
    BY <1>1, <1>3, <1>4, DataSyncAppend
  <2>3. DataInSync'
    BY <1>1, <1>6, <2>1, <2>2 DEF DataInSync
  <2>4. DataArrivesIntact'
    BY <1>1, <1>3, <1>4, <1>5, <1>6, <2>1, ArrivesIntactAppend DEF DataArrivesIntact
  <2>5. GivenWell(ByQueue(accepted').data)
    BY <1>1, <1>3, <1>4, <2>1, GivenWellAppend
  <2> QED  BY <1>6, <1>7, <2>3, <2>4, <2>5 DEF DataInv
<1> QED  BY <1>8, <1>9

(* Accepting a message keeps DataInv.                                      *)
LEMMA AcceptsKeepsData ==
    ASSUME IInv, DataInv, NEW m, Accepts(m)
    PROVE  DataInv'
  BY AcceptsJoins, JoinsKeepsData

(* It holds at the beginning, when the wire and the queues are empty,      *)
LEMMA InitData == Init => DataInv
<1> SUFFICES ASSUME Init PROVE DataInv
  OBVIOUS
<1>1. /\ accepted = << >> /\ send_queue = << >> /\ send_ctrl_queue = << >>
      /\ omsg = NoMsg /\ wire = << >>
      /\ frame_ctx.ostate = "PREP_HEADER"
  BY DEF Init, QueueInit, FrameInit, frame_context_new
<1>2. PeerReceives(<< >>) = NothingReceived /\ ByQueue(<< >>) = NoQueues
  <2>1. wire \in Seq(WireFrame) /\ accepted \in Seq(OMsg)
    BY <1>1
  <2>2. wire = << >> => PeerReceives(wire) = NothingReceived
    BY <2>1, PeerReceivesType
  <2>3. accepted = << >> => ByQueue(accepted) = NoQueues
    BY <2>1, ByQueueType
  <2> QED  BY <1>1, <2>2, <2>3
<1>3. NothingReceived.ok /\ ~NothingReceived.open /\ NothingReceived.data = << >>
      /\ NothingReceived.msgs = << >> /\ NoQueues.data = << >>
  BY DEF NothingReceived, NoQueues
<1>4. ~IsUnderWay(frame_ctx)
  BY <1>1 DEF IsUnderWay
<1>5. View(frame_ctx, wire) = NothingReceived
  BY <1>1, <1>2, <1>4 DEF View, FramesBefore
<1>6. Delivered(NothingReceived, << >>)
  BY <1>3 DEF Delivered
<1>7. Waiting(NothingReceived, << >>, << >>)
  BY <1>3, <1>6 DEF Waiting
<1>8. DataInSync
  <2>1. omsg.type = "NULL"
    BY <1>1 DEF NoMsg
  <2>2. ByQueue(accepted).data = << >>
    BY <1>1, <1>2, <1>3
  <2>3. Waiting(View(frame_ctx, wire), ByQueue(accepted).data, send_queue)
    BY <1>1, <1>5, <1>7, <2>2
  <2> QED  BY <2>1, <2>3 DEF DataInSync, DataSync
<1>9. AllSourcesDone
  <2>1. SourceDone(omsg)
    BY <1>1 DEF SourceDone, NoMsg
  <2>2. SourcesDone(<< >>)
    BY DEF SourcesDone
  <2> QED  BY <1>1, <2>1, <2>2 DEF AllSourcesDone
<1>10. FrameSync(frame_ctx, wire)
  BY <1>1, <1>4 DEF FrameSync
<1>11. DataArrivesIntact
  <2>1. ArrivesIntact(NothingReceived, << >>)
    BY <1>3 DEF ArrivesIntact
  <2>2. ByQueue(accepted).data = << >> /\ PeerReceives(wire) = NothingReceived
    BY <1>1, <1>2, <1>3
  <2> QED  BY <2>1, <2>2 DEF DataArrivesIntact
<1>12. GivenWell(ByQueue(accepted).data)
  BY <1>1, <1>2, <1>3 DEF GivenWell
<1> QED  BY <1>8, <1>9, <1>10, <1>11, <1>12 DEF DataInv

(* every step keeps it,                                                    *)
LEMMA NextKeepsData == IInv /\ IInv' /\ DataInv /\ [Next]_vars => DataInv'
<1> SUFFICES ASSUME IInv, IInv', DataInv, [Next]_vars PROVE DataInv'
  OBVIOUS
<1>1. CASE wslay_event_send
  BY <1>1, EventSendKeepsData
<1>2. CASE ~wslay_event_send
  BY <1>2, OtherSteps, QuietKeepsData, AcceptsKeepsData
<1> QED  BY <1>1, <1>2

(* and so it holds in every reachable state, whatever the constants.       *)
LEMMA DataInvariance == Spec => []DataInv
<1>1. Init => DataInv
  BY InitData
<1>2. IInv /\ IInv' /\ DataInv /\ [Next]_vars => DataInv'
  BY NextKeepsData
<1> QED  BY <1>1, <1>2, Invariance, PTL DEF Spec

(* Whatever the socket takes at a time, whatever the read callback has at  *)
(* a time and wherever control messages come between the frames of a data  *)
(* message, the peer reassembles the data messages that were accepted, in  *)
(* their order, with their opcodes and their bytes (event.c 532-646).      *)
THEOREM DataMessagesArriveIntact == Spec => []DataArrivesIntact
<1>1. DataInv => DataArrivesIntact
  BY DEF DataInv
<1> QED  BY <1>1, DataInvariance, PTL

-----------------------------------------------------------------------------
(* The control messages in every reachable state                           *)

(* Every Close given has a body that wslay_event_queue_close makes.        *)
CloseBodies(h) ==
    \A i \in 1..Len(h) : h[i].opcode = WSLAY_CONNECTION_CLOSE => BodyWell(h[i].data)

(* The peer has the first control messages accepted, and what is queued is *)
(* what it does not have; what is left of the one being sent is in omsg.   *)
CtrlInSync ==
    /\ CtrlSync(View(frame_ctx, wire).ctrls, ByQueue(accepted).ctrl, omsg, send_ctrl_queue)
    /\ IsControl(omsg) => Rest(frame_ctx, wire, omsg, obuf, opayloadoff) = omsg.data

(* The inductive invariant for the control messages.                       *)
CtrlInv ==
    /\ ControlInOrder
    /\ Len(PeerReceives(wire).ctrls) <= Len(ByQueue(accepted).ctrl)
    /\ CloseEnds(ByQueue(accepted).ctrl, "QUEUED" \in close_status)
    /\ CloseBodies(ByQueue(accepted).ctrl)
    /\ "SENT" \in close_status => ~write_enabled
    /\ write_enabled => CtrlInSync

(* There are no more control frames than messages.                         *)
LEMMA CtrlAtMost ==
    ASSUME NEW fs \in Seq(WireFrame), NEW h \in Seq(OMsg), NEW q \in Seq(OMsg), NEW m,
           CtrlSync(fs, h, m, q)
    PROVE  /\ Len(fs) <= Len(h)
           /\ IsControl(m) => Len(fs) + 1 <= Len(h) /\ \E i \in 1..Len(h) : m = h[i]
<1>1. Len(fs) \in Nat /\ Len(h) \in Nat /\ Len(q) \in Nat
  OBVIOUS
<1>2. CASE IsControl(m)
  <2>1. /\ Len(fs) <= Len(h)
        /\ \/ Len(fs) + 1 + Len(q) = Len(h) /\ m = h[Len(fs) + 1]
           \/ Len(fs) < Len(h) /\ m = h[Len(h)]
    BY <1>2 DEF CtrlSync, CtrlSending, CtrlSent
  <2>2. Len(fs) + 1 <= Len(h) /\ Len(fs) + 1 \in 1..Len(h) /\ Len(h) \in 1..Len(h)
    <3> DEFINE a == Len(fs)
               b == Len(h)
               c == Len(q)
    <3>1. /\ a \in Nat /\ b \in Nat /\ c \in Nat
          /\ a + 1 + c = b \/ a < b
      BY <1>1, <2>1
    <3> HIDE DEF a, b, c
    <3>2. a + 1 <= b /\ a + 1 \in 1..b /\ b \in 1..b
      BY ONLY <3>1
    <3> QED  BY <3>2 DEF a, b
  <2> QED  BY <2>1, <2>2
<1>3. CASE ~IsControl(m)
  BY <1>3 DEF CtrlSync, CtrlWaiting, CtrlSent
<1> QED  BY <1>2, <1>3

(* Nor after another frame.                                                *)
LEMMA CtrlFrameAtMost ==
    ASSUME NEW v \in PeerState, NEW h \in Seq(OMsg), NEW q \in Seq(OMsg),
           NEW m \in OMsg, m.type # "NULL", NEW f \in WireFrame,
           f.header.opcode = m.opcode, CtrlSync(v.ctrls, h, m, q)
    PROVE  Len(Receive(v, f).ctrls) <= Len(h)
<1>1. v.ctrls \in Seq(WireFrame) /\ Len(v.ctrls) \in Nat
  BY ViewFacts
<1>2. /\ Len(v.ctrls) <= Len(h)
      /\ IsControl(m) => Len(v.ctrls) + 1 <= Len(h)
  BY <1>1, CtrlAtMost
<1>3. CASE IsControl(m)
  <2>1. Receive(v, f).ctrls = Append(v.ctrls, f)
    BY <1>3, ReceiveCtrls DEF IsControl
  <2>2. Len(Append(v.ctrls, f)) = Len(v.ctrls) + 1
    BY <1>1
  <2> QED  BY <1>2, <1>3, <2>1, <2>2
<1>4. CASE ~IsControl(m)
  <2>1. Receive(v, f).ctrls = v.ctrls
    BY <1>4, ReceiveCtrls DEF IsControl
  <2> QED  BY <1>2, <2>1
<1> QED  BY <1>3, <1>4

(* As long as no Close was given, another message changes nothing for the  *)
(* frames sent.                                                            *)
LEMMA InOrderAppend ==
    ASSUME NEW fs \in Seq(WireFrame), NEW h \in Seq(OMsg), NEW e \in OMsg,
           InOrder(fs, h), Len(fs) <= Len(h), CloseEnds(h, FALSE)
    PROVE  InOrder(fs, Append(h, e))
<1> DEFINE k == Append(h, e)
<1>1. /\ Len(k) = Len(h) + 1 /\ \A i \in 1..Len(h) : k[i] = h[i]
      /\ Len(fs) \in Nat /\ Len(h) \in Nat
  OBVIOUS
<1> HIDE DEF k
<1>2. ASSUME NEW i \in 1..Len(fs)
      PROVE  Carries(fs[i], k[i])
  <2>1. i \in 1..Len(h) /\ Len(h) \in 1..Len(h)
    BY <1>1
  <2>2. h[Len(h)].opcode # WSLAY_CONNECTION_CLOSE
    BY <2>1 DEF CloseEnds
  <2>3. \/ Carries(fs[i], h[i])
        \/ /\ fs[i].header.opcode = WSLAY_CONNECTION_CLOSE
           /\ Carries(fs[i], h[Len(h)])
    BY DEF InOrder
  <2>4. Carries(fs[i], h[Len(h)]) => fs[i].header.opcode = h[Len(h)].opcode
    BY DEF Carries
  <2>5. Carries(fs[i], h[i])
    BY <2>2, <2>3, <2>4
  <2> QED  BY <1>1, <2>1, <2>5
<1>3. InOrder(fs, k)
  BY <1>2 DEF InOrder
<1> QED  BY <1>3 DEF k

(* A Close is given last.                                                  *)
LEMMA CloseEndsAppend ==
    ASSUME NEW h \in Seq(OMsg), NEW e \in OMsg, CloseEnds(h, FALSE), CloseBodies(h),
           NEW queued,
           e.opcode = WSLAY_CONNECTION_CLOSE => queued /\ BodyWell(e.data)
    PROVE  CloseEnds(Append(h, e), queued) /\ CloseBodies(Append(h, e))
<1> DEFINE k == Append(h, e)
<1>1. /\ Len(k) = Len(h) + 1 /\ \A i \in 1..Len(h) : k[i] = h[i]
      /\ k[Len(h) + 1] = e /\ Len(h) \in Nat
  OBVIOUS
<1> HIDE DEF k
<1>2. \A i \in 1..Len(k) : i \in 1..Len(h) \/ i = Len(h) + 1
  BY <1>1
<1>3. \A i \in 1..Len(h) : k[i].opcode # WSLAY_CONNECTION_CLOSE
  BY <1>1 DEF CloseEnds
<1>4. ASSUME NEW i \in 1..Len(k), k[i].opcode = WSLAY_CONNECTION_CLOSE
      PROVE  queued /\ i = Len(k) /\ BodyWell(k[i].data)
  <2>1. i = Len(h) + 1
    BY <1>2, <1>3, <1>4
  <2> QED  BY <1>1, <1>4, <2>1
<1>5. CloseEnds(k, queued) /\ CloseBodies(k)
  BY <1>4 DEF CloseEnds, CloseBodies
<1> QED  BY <1>5 DEF k

(* A quiet step leaves the control messages alone.                         *)
LEMMA QuietKeepsCtrl ==
    ASSUME CtrlInv, Quiet
    PROVE  CtrlInv'
<1>1. /\ accepted' = accepted /\ send_ctrl_queue' = send_ctrl_queue
      /\ wire' = wire /\ frame_ctx' = frame_ctx /\ close_status' = close_status
      /\ omsg' = omsg /\ obuf' = obuf /\ opayloadoff' = opayloadoff
      /\ write_enabled' => write_enabled
  BY DEF Quiet, queueVars, frameVars, sendVars
<1>2. /\ ControlInOrder'
      /\ Len(PeerReceives(wire').ctrls) <= Len(ByQueue(accepted').ctrl)
      /\ CloseEnds(ByQueue(accepted').ctrl, "QUEUED" \in close_status')
      /\ CloseBodies(ByQueue(accepted').ctrl)
      /\ "SENT" \in close_status' => ~write_enabled'
  BY <1>1 DEF CtrlInv, ControlInOrder
<1>3. write_enabled' => CtrlInSync'
  BY <1>1 DEF CtrlInv, CtrlInSync
<1> QED  BY <1>2, <1>3 DEF CtrlInv

(* Accepting a message keeps the invariant for the control messages.       *)
LEMMA AcceptsKeepsCtrl ==
    ASSUME WSLAY_CONNECTION_CLOSE \notin AppOpcodes,
           IInv, DataInv, CtrlInv, NEW m, Accepts(m)
    PROVE  CtrlInv'
<1> DEFINE h == ByQueue(accepted).ctrl
           v == View(frame_ctx, wire)
           fs == v.ctrls
           rest == Rest(frame_ctx, wire, omsg, obuf, opayloadoff)
           gs == PeerReceives(wire).ctrls
<1>1. /\ m \in OMsg /\ write_enabled /\ accepted \in Seq(OMsg)
      /\ send_ctrl_queue \in Seq(OMsg)
      /\ wire' = wire /\ frame_ctx' = frame_ctx /\ omsg' = omsg /\ obuf' = obuf
      /\ opayloadoff' = opayloadoff
  BY AcceptsJoins, JoinsFacts
<1>2. IF wslay_is_ctrl_frame(m.opcode)
      THEN send_ctrl_queue' = Append(send_ctrl_queue, m)
           /\ ByQueue(accepted').ctrl = Append(h, m)
      ELSE send_ctrl_queue' = send_ctrl_queue /\ ByQueue(accepted').ctrl = h
  BY AcceptsJoins, JoinsFacts
<1>3. /\ "QUEUED" \notin close_status
      /\ \/ m.opcode # WSLAY_CONNECTION_CLOSE /\ close_status' = close_status
         \/ /\ m.opcode = WSLAY_CONNECTION_CLOSE /\ BodyWell(m.data)
            /\ close_status' = close_status \cup {"QUEUED"}
  BY DEF Accepts
<1>4. /\ FrameSync(frame_ctx, wire)
      /\ InOrder(gs, h) /\ Len(gs) <= Len(h) /\ CloseBodies(h)
      /\ "SENT" \notin close_status
      /\ CtrlSync(fs, h, omsg, send_ctrl_queue)
      /\ IsControl(omsg) => rest = omsg.data
  BY <1>1 DEF DataInv, CtrlInv, CtrlInSync, ControlInOrder
<1>5. CloseEnds(h, FALSE)
  <2>1. CloseEnds(h, "QUEUED" \in close_status)
    BY DEF CtrlInv
  <2> QED  BY <1>3, <2>1 DEF CloseEnds
<1>6. fs \in Seq(WireFrame) /\ h \in Seq(OMsg)
  BY <1>4, ViewFactsNow, ViewFacts
<1>7. gs \in Seq(WireFrame)
  <2>1. wire \in Seq(WireFrame)
    BY TypeFacts, Zenon DEF IInv
  <2> QED  BY <2>1, PeerReceivesType, ViewFacts
<1>8. omsg \in OMsg
  BY TypeFacts, Zenon DEF IInv
<1>9. "SENT" \notin close_status'
  BY <1>3, <1>4
<1>10. /\ View(frame_ctx', wire').ctrls = fs /\ PeerReceives(wire').ctrls = gs
       /\ Rest(frame_ctx', wire', omsg', obuf', opayloadoff') = rest
  BY <1>1
<1> DEFINE queued == "QUEUED" \in close_status'
<1>11. m.opcode = WSLAY_CONNECTION_CLOSE => queued /\ BodyWell(m.data)
  BY <1>3
<1>12. /\ ControlInOrder' = InOrder(gs, ByQueue(accepted').ctrl)
       /\ CtrlInSync' = /\ CtrlSync(fs, ByQueue(accepted').ctrl, omsg, send_ctrl_queue')
                        /\ IsControl(omsg) => rest = omsg.data
  BY <1>1, <1>10 DEF ControlInOrder, CtrlInSync
<1> HIDE DEF h, v, fs, rest, gs, queued
<1>13. CASE wslay_is_ctrl_frame(m.opcode)
  <2>1. send_ctrl_queue' = Append(send_ctrl_queue, m)
        /\ ByQueue(accepted').ctrl = Append(h, m)
    BY <1>2, <1>13
  <2>2. CtrlSync(fs, Append(h, m), omsg, Append(send_ctrl_queue, m))
    <3>1. CASE IsControl(omsg)
      BY <1>1, <1>4, <1>5, <1>6, <1>8, <3>1, CtrlSendingAppend DEF CtrlSync
    <3>2. CASE ~IsControl(omsg)
      BY <1>1, <1>4, <1>6, <3>2, CtrlWaitingAppend DEF CtrlSync
    <3> QED  BY <3>1, <3>2
  <2>3. InOrder(gs, Append(h, m))
    BY <1>1, <1>4, <1>5, <1>6, <1>7, InOrderAppend
  <2>4. Len(gs) <= Len(Append(h, m))
    <3>1. Len(Append(h, m)) = Len(h) + 1 /\ Len(h) \in Nat /\ Len(gs) \in Nat
      BY <1>6, <1>7
    <3> QED  BY <1>4, <3>1
  <2>5. CloseEnds(Append(h, m), queued) /\ CloseBodies(Append(h, m))
    BY <1>1, <1>4, <1>5, <1>6, <1>11, CloseEndsAppend
  <2>6. ControlInOrder' /\ CtrlInSync'
    BY <1>4, <1>12, <2>1, <2>2, <2>3
  <2> QED  BY <1>9, <1>10, <2>1, <2>4, <2>5, <2>6 DEF CtrlInv, queued
<1>14. CASE ~wslay_is_ctrl_frame(m.opcode)
  <2>1. send_ctrl_queue' = send_ctrl_queue /\ ByQueue(accepted').ctrl = h
    BY <1>2, <1>14
  <2>2. ControlInOrder' /\ CtrlInSync'
    BY <1>4, <1>12, <2>1
  <2>3. CloseEnds(h, queued)
    BY <1>5 DEF CloseEnds
  <2> QED  BY <1>4, <1>9, <1>10, <2>1, <2>2, <2>3 DEF CtrlInv, queued
<1> QED  BY <1>13, <1>14

-----------------------------------------------------------------------------
(* The iteration, as far as the control messages are concerned: what holds *)
(* of the message sent in it.                                              *)
CtrlIteration(t, fs, h, sent, data) ==
    /\ t.omsg \in OMsg /\ t.omsg.type # "NULL"
    /\ data \in Seq(Byte)
    /\ t.send_ctrl_queue \in Seq(OMsg)
    /\ IsControl(t.omsg) => /\ t.omsg.fin /\ t.omsg.source = << >>
                            /\ sent \o data = t.omsg.data
    /\ CtrlSync(fs, h, t.omsg, t.send_ctrl_queue)
    /\ Iterated(t, FramesBefore(frame_ctx, wire), sent, data)

(* An iteration is one of a message for which that holds.                  *)
LEMMA CtrlIterationLemma ==
    ASSUME IInv, DataInv, CtrlInv, wslay_event_send
    PROVE  \E t, data : CtrlIteration(t, View(frame_ctx, wire).ctrls,
                          ByQueue(accepted).ctrl, BytesSent(frame_ctx, wire), data)
<1> DEFINE s == Selected
           sent == BytesSent(frame_ctx, wire)
           v == View(frame_ctx, wire)
           fs == v.ctrls
           h == ByQueue(accepted).ctrl
<1>1. wslay_event_want_write /\ write_enabled
  BY DEF wslay_event_send, wslay_event_want_write
<1>2. /\ FrameSync(frame_ctx, wire) /\ AllSourcesDone
      /\ CtrlSync(fs, h, omsg, send_ctrl_queue)
      /\ CloseEnds(h, "QUEUED" \in close_status)
      /\ IsControl(omsg) => Rest(frame_ctx, wire, omsg, obuf, opayloadoff) = omsg.data
  BY <1>1 DEF DataInv, CtrlInv, CtrlInSync
<1>3. sent \in Seq(Byte) /\ v \in PeerState /\ h \in Seq(OMsg) /\ fs \in Seq(WireFrame)
  BY <1>2, ViewFactsNow, ViewFacts
<1>4. SourceDone(omsg) /\ SourcesDone(send_queue) /\ SourcesDone(send_ctrl_queue)
  BY <1>2 DEF AllSourcesDone
<1>5. SourceDone(s.omsg)
  BY <1>1, <1>4, SelectedSources
<1>6. /\ CtrlSync(fs, h, s.omsg, s.send_ctrl_queue)
      /\ IsControl(s.omsg) =>
           /\ s.omsg.fin
           /\ Rest(frame_ctx, wire, s.omsg, obuf, s.opayloadoff) = s.omsg.data
  <2> HIDE DEF fs, h
  <2> QED  BY <1>1, <1>2, <1>3, <1>4, SelectedCtrl
<1>7. PICK t, data : IterationOf(s, t, data)
  BY <1>2, <1>5, IterationLemma DEF SourceDone
<1>8. SelectionOK(s) /\ s \in Selection
  BY <1>1, SelectedLemma DEF Ready, SelectionOK
<1> HIDE DEF s, v, fs, h
<1>9. /\ s.omsg.type # "NULL" /\ IsCurrentItem(s.omsg) /\ s.send_ctrl_queue \in Seq(OMsg)
  BY <1>8 DEF SelectionOK, Selection
<1> DEFINE later == t.omsg.source
<1>10. /\ t.omsg \in OMsg
       /\ t.omsg.type = s.omsg.type /\ t.omsg.opcode = s.omsg.opcode
       /\ t.omsg.type = "NON_FRAGMENTED" => t.omsg = s.omsg
       /\ t.send_ctrl_queue = s.send_ctrl_queue
       /\ t.omsg.fin => later = << >>
       /\ data \in Seq(Byte)
       /\ data \o later = Unsent(s.omsg, obuf, s.opayloadoff)
       /\ Iterated(t, FramesBefore(frame_ctx, wire), sent, data)
  BY <1>7 DEF IterationOf
<1>11. IsControl(t.omsg) <=> IsControl(s.omsg)
  BY <1>10 DEF IsControl
<1>12. IsControl(s.omsg) => t.omsg = s.omsg
  <2>1. IsControl(s.omsg) => s.omsg.type = "NON_FRAGMENTED"
    BY <1>9 DEF IsCurrentItem, IsControl, NoMsg
  <2> QED  BY <1>10, <2>1
<1>13. ASSUME IsControl(t.omsg)
       PROVE  t.omsg.fin /\ t.omsg.source = << >> /\ sent \o data = t.omsg.data
  <2>1. t.omsg = s.omsg /\ s.omsg.fin
    BY <1>6, <1>11, <1>12, <1>13
  <2>2. later = << >>
    BY <1>10, <2>1
  <2>3. data \o later = data
    BY <1>10, <2>2, ConcatEmptySeq
  <2>4. Rest(frame_ctx, wire, s.omsg, obuf, s.opayloadoff) = sent \o data
    BY <1>10, <2>3 DEF Rest, sent
  <2> QED  BY <1>6, <1>11, <1>13, <2>1, <2>2, <2>4
<1>14. CtrlSync(fs, h, t.omsg, t.send_ctrl_queue)
  <2>1. CASE IsControl(s.omsg)
    BY <1>6, <1>10, <1>12, <2>1
  <2>2. CASE ~IsControl(s.omsg)
    BY <1>6, <1>10, <1>11, <2>2 DEF CtrlSync
  <2> QED  BY <2>1, <2>2
<1>15. t.omsg.type # "NULL" /\ t.send_ctrl_queue \in Seq(OMsg)
  BY <1>9, <1>10
<1> HIDE DEF sent
<1>16. CtrlIteration(t, fs, h, sent, data)
  BY <1>10, <1>13, <1>14, <1>15 DEF CtrlIteration
<1> QED  BY <1>16 DEF fs, h, v, sent

(* An iteration keeps the invariant for the control messages.              *)
LEMMA EventSendKeepsCtrl ==
    ASSUME IInv, DataInv, CtrlInv, wslay_event_send
    PROVE  CtrlInv'
<1> DEFINE w0 == FramesBefore(frame_ctx, wire)
           sent == BytesSent(frame_ctx, wire)
           v == View(frame_ctx, wire)
           fs == v.ctrls
           h == ByQueue(accepted).ctrl
<1>1. write_enabled
  BY DEF wslay_event_send, wslay_event_want_write
<1>2. /\ FrameSync(frame_ctx, wire)
      /\ CloseEnds(h, "QUEUED" \in close_status) /\ CloseBodies(h)
      /\ "SENT" \notin close_status
  BY <1>1 DEF DataInv, CtrlInv
<1>3. /\ w0 \in Seq(WireFrame) /\ sent \in Seq(Byte) /\ v \in PeerState
      /\ h \in Seq(OMsg) /\ fs \in Seq(WireFrame)
  BY <1>2, ViewFactsNow, ViewFacts
<1>4. v = PeerReceives(w0)
  BY DEF View
<1>5. PICK t, data : CtrlIteration(t, fs, h, sent, data)
  BY CtrlIterationLemma
<1> DEFINE m == t.omsg
           q == t.send_ctrl_queue
           later == m.source
<1>6. /\ m \in OMsg /\ m.type # "NULL" /\ data \in Seq(Byte) /\ q \in Seq(OMsg)
      /\ IsControl(m) => m.fin /\ later = << >> /\ sent \o data = m.data
      /\ CtrlSync(fs, h, m, q)
      /\ Iterated(t, w0, sent, data)
  BY <1>5 DEF CtrlIteration
<1>7. /\ send_ctrl_queue' = q /\ accepted' = accepted
      /\ \/ wire' = w0
         \/ \E f \in WireFrame : wire' = Append(w0, f) /\ FrameOf(f, m, sent, data)
      /\ \/ IterKept(t, w0, sent \o (data \o later))
         \/ IterMore(t, w0, sent, data)
         \/ IterWhole(t, w0, sent, data)
  BY <1>6 DEF Iterated
<1>8. ByQueue(accepted').ctrl = h
  BY <1>7
<1> HIDE DEF v, fs, h, w0, sent, q, later, m
<1>9. Len(fs) <= Len(h) /\ InOrder(fs, h)
  BY <1>3, <1>6, CtrlAtMost, CtrlSyncInOrder
<1>10. ASSUME NEW f \in WireFrame, FrameOf(f, m, sent, data)
       PROVE  /\ f.header.opcode = m.opcode
              /\ InOrder(Receive(v, f).ctrls, h)
              /\ Len(Receive(v, f).ctrls) <= Len(h)
  <2>1. f.header.opcode = m.opcode
    BY <1>10 DEF FrameOf
  <2>2. CtrlSync(v.ctrls, h, m, q)
    BY <1>6 DEF fs
  <2>3. InOrder(Receive(v, f).ctrls, h)
    BY <1>3, <1>6, <1>10, <2>2, CtrlFrameKeepsOrder
  <2>4. Len(Receive(v, f).ctrls) <= Len(h)
    BY <1>3, <1>6, <2>1, <2>2, CtrlFrameAtMost
  <2> QED  BY <2>1, <2>3, <2>4
<1>11. ControlInOrder' /\ Len(PeerReceives(wire').ctrls) <= Len(ByQueue(accepted').ctrl)
  <2>1. CASE wire' = w0
    BY <1>4, <1>8, <1>9, <2>1 DEF ControlInOrder, fs
  <2>2. ASSUME NEW f \in WireFrame, wire' = Append(w0, f), FrameOf(f, m, sent, data)
        PROVE  /\ ControlInOrder'
               /\ Len(PeerReceives(wire').ctrls) <= Len(ByQueue(accepted').ctrl)
    <3>1. PeerReceives(wire') = Receive(v, f)
      BY <1>3, <1>4, <2>2, PeerReceivesAppend
    <3> QED  BY <1>8, <1>10, <2>2, <3>1 DEF ControlInOrder
  <2> QED  BY <1>7, <2>1, <2>2
<1>12. close_status \subseteq close_status'
  BY AcceptedLemma
<1>13. CloseEnds(ByQueue(accepted').ctrl, "QUEUED" \in close_status')
       /\ CloseBodies(ByQueue(accepted').ctrl)
  BY <1>2, <1>8, <1>12 DEF CloseEnds
<1>14. ASSUME FrameDone(t, w0, sent, data), m.opcode # WSLAY_CONNECTION_CLOSE
       PROVE  CtrlWaiting(View(frame_ctx', wire').ctrls, h, q)
  <2>1. PICK f \in WireFrame :
          wire' = Append(w0, f) /\ WholeFrame(f, m, sent, data)
    BY <1>14 DEF FrameDone, m
  <2>2. FramesBefore(frame_ctx', wire') = wire'
    BY <1>14 DEF FrameDone, FramesBefore
  <2>3. View(frame_ctx', wire') = Receive(v, f)
    BY <1>3, <1>4, <2>1, <2>2, PeerReceivesAppend DEF View
  <2>4. FrameOf(f, m, sent, data) /\ CtrlSync(v.ctrls, h, m, q)
    BY <1>6, <2>1 DEF WholeFrame, fs
  <2>5. CtrlWaiting(Receive(v, f).ctrls, h, q)
    BY <1>3, <1>6, <1>14, <2>4, CtrlFrameLast
  <2> QED  BY <2>3, <2>5
<1>15. ("SENT" \in close_status' => ~write_enabled') /\ (write_enabled' => CtrlInSync')
  <2>1. CASE IterKept(t, w0, sent \o (data \o later))
    <3>1. omsg' = m /\ close_status' = close_status
      BY <2>1 DEF IterKept, m
    <3>2. ASSUME write_enabled'
          PROVE  CtrlInSync'
      <4> DEFINE rest == Rest(frame_ctx', wire', omsg', obuf', opayloadoff')
      <4>1. FramesBefore(frame_ctx', wire') = w0 /\ rest = sent \o (data \o later)
        BY <2>1, <3>2 DEF IterKept
      <4>2. View(frame_ctx', wire').ctrls = fs
        BY <1>4, <4>1 DEF View, fs
      <4> HIDE DEF rest
      <4>3. IsControl(m) => rest = m.data
        <5>1. IsControl(m) => data \o later = data
          BY <1>6, ConcatEmptySeq
        <5> QED  BY <1>6, <4>1, <5>1
      <4>4. CtrlSync(fs, h, m, q)
        BY <1>6
      <4> QED  BY <1>7, <1>8, <3>1, <4>2, <4>3, <4>4 DEF CtrlInSync, rest
    <3> QED  BY <1>2, <3>1, <3>2
  <2>2. CASE IterMore(t, w0, sent, data)
    <3>1. /\ m.type = "FRAGMENTED" /\ ~m.fin /\ FrameDone(t, w0, sent, data)
          /\ omsg' = [ m EXCEPT !.opcode = WSLAY_CONTINUATION_FRAME ]
          /\ close_status' = close_status
      BY <2>2 DEF IterMore, m
    <3>2. ~IsControl(m)
      BY <1>6, <3>1
    <3>3. m.opcode # WSLAY_CONNECTION_CLOSE
      BY <1>6, <3>2 DEF IsControl, wslay_is_ctrl_frame, WSLAY_CONNECTION_CLOSE
    <3>4. omsg'.opcode = WSLAY_CONTINUATION_FRAME
      BY <1>6, <3>1 DEF OMsg
    <3>5. ~IsControl(omsg')
      BY <3>4 DEF IsControl, wslay_is_ctrl_frame, WSLAY_CONTINUATION_FRAME
    <3>6. CtrlWaiting(View(frame_ctx', wire').ctrls, h, q)
      BY <1>14, <3>1, <3>3
    <3>7. CtrlInSync'
      BY <1>7, <1>8, <3>5, <3>6 DEF CtrlInSync, CtrlSync
    <3> QED  BY <1>2, <3>1, <3>7
  <2>3. CASE IterWhole(t, w0, sent, data)
    <3>1. PICK buf, off : SentWhole(t, buf, off)
      BY <2>3 DEF IterWhole
    <3>2. omsg' = NoMsg /\ FrameDone(t, w0, sent, data)
      BY <2>3, <3>1 DEF IterWhole, SentWhole
    <3>3. CASE m.opcode = WSLAY_CONNECTION_CLOSE
      <4>1. write_enabled' = FALSE
        BY <3>1, <3>3 DEF SentWhole, m
      <4> QED  BY <4>1
    <3>4. CASE m.opcode # WSLAY_CONNECTION_CLOSE
      <4>1. close_status' = close_status
        BY <3>1, <3>4 DEF SentWhole, m
      <4>2. ~IsControl(omsg')
        BY <3>2 DEF IsControl, NoMsg
      <4>3. CtrlWaiting(View(frame_ctx', wire').ctrls, h, q)
        BY <1>14, <3>2, <3>4
      <4>4. CtrlInSync'
        BY <1>7, <1>8, <4>2, <4>3 DEF CtrlInSync, CtrlSync
      <4> QED  BY <1>2, <4>1, <4>4
    <3> QED  BY <3>3, <3>4
  <2> QED  BY <1>7, <2>1, <2>2, <2>3
<1> QED  BY <1>11, <1>13, <1>15 DEF CtrlInv

(* It holds at the beginning,                                              *)
LEMMA InitCtrl == Init => CtrlInv
<1> SUFFICES ASSUME Init PROVE CtrlInv
  OBVIOUS
<1>1. /\ accepted = << >> /\ send_ctrl_queue = << >> /\ omsg = NoMsg /\ wire = << >>
      /\ close_status = {} /\ frame_ctx.ostate = "PREP_HEADER"
  BY DEF Init, QueueInit, FrameInit, frame_context_new
<1>2. wire \in Seq(WireFrame) /\ accepted \in Seq(OMsg)
  BY <1>1
<1>3. PeerReceives(wire) = NothingReceived /\ ByQueue(accepted) = NoQueues
  <2>1. wire = << >> => PeerReceives(wire) = NothingReceived
    BY <1>2, PeerReceivesType
  <2>2. accepted = << >> => ByQueue(accepted) = NoQueues
    BY <1>2, ByQueueType
  <2> QED  BY <1>1, <2>1, <2>2
<1>4. PeerReceives(wire).ctrls = << >> /\ ByQueue(accepted).ctrl = << >>
  BY <1>3 DEF NothingReceived, NoQueues
<1>5. View(frame_ctx, wire) = PeerReceives(wire)
  BY <1>1 DEF View, FramesBefore, IsUnderWay
<1>6. ControlInOrder
  BY <1>4 DEF ControlInOrder, InOrder
<1>7. CloseEnds(<< >>, "QUEUED" \in close_status) /\ CloseBodies(<< >>)
  BY DEF CloseEnds, CloseBodies
<1>8. CtrlWaiting(<< >>, << >>, << >>)
  BY DEF CtrlWaiting, CtrlSent, EndsWith
<1>9. ~IsControl(omsg)
  BY <1>1 DEF IsControl, NoMsg
<1>10. CtrlInSync
  BY <1>1, <1>4, <1>5, <1>8, <1>9 DEF CtrlInSync, CtrlSync
<1> QED  BY <1>1, <1>4, <1>6, <1>7, <1>10 DEF CtrlInv

(* and in every reachable state.                                           *)
LEMMA CtrlInvariance ==
    ASSUME WSLAY_CONNECTION_CLOSE \notin AppOpcodes
    PROVE  Spec => []CtrlInv
<1>1. Init => CtrlInv
  BY InitCtrl
<1>2. IInv /\ DataInv /\ CtrlInv /\ [Next]_vars => CtrlInv'
  <2> SUFFICES ASSUME IInv, DataInv, CtrlInv, [Next]_vars PROVE CtrlInv'
    OBVIOUS
  <2>1. CASE wslay_event_send
    BY <2>1, EventSendKeepsCtrl
  <2>2. CASE ~wslay_event_send
    BY <2>2, OtherSteps, QuietKeepsCtrl, AcceptsKeepsCtrl
  <2> QED  BY <2>1, <2>2
<1> QED  BY <1>1, <1>2, Invariance, DataInvariance, PTL DEF Spec

(* Control frames are sent in the order their messages were queued, whole  *)
(* and unfragmented, between whatever data frames; only a Close overtakes  *)
(* (event.c 501-523), for an application that sends its Close frames with  *)
(* wslay_event_queue_close.                                                *)
THEOREM ControlMessagesStayInOrder ==
    ASSUME WSLAY_CONNECTION_CLOSE \notin AppOpcodes
    PROVE  Spec => []ControlInOrder
<1>1. CtrlInv => ControlInOrder
  BY DEF CtrlInv
<1> QED  BY <1>1, CtrlInvariance, PTL

-----------------------------------------------------------------------------
(* What the getters report                                                 *)

(* The bytes of a queue, its first message taken.                          *)
LEMMA TotalLengthHead ==
    ASSUME NEW q \in Seq(OMsg), q # << >>
    PROVE  /\ Head(q) \in OMsg /\ Tail(q) \in Seq(OMsg)
           /\ TotalLength(q) = Len(Head(q).data) + TotalLength(Tail(q))
           /\ TotalLength(Tail(q)) \in Nat
<1> DEFINE hd == Head(q)
           tl == Tail(q)
<1>1. hd \in OMsg /\ tl \in Seq(OMsg) /\ q = << hd >> \o tl
  BY HeadTailProperties
<1> HIDE DEF hd, tl
<1>2. << hd >> \in Seq(OMsg)
  BY <1>1
<1>3. TotalLength(<< hd >> \o tl) = TotalLength(<< hd >>) + TotalLength(tl)
      /\ TotalLength(tl) \in Nat
  BY <1>1, <1>2, TotalLengthConcat
<1>4. TotalLength(<< hd >>) = Len(hd.data)
  BY <1>1, TotalLengthOne
<1> QED  BY <1>1, <1>3, <1>4 DEF hd, tl

(* What is left of a queue behind a message in it.                         *)
LEMMA TotalLengthBehind ==
    ASSUME NEW q \in Seq(OMsg), NEW i \in 1..Len(q)
    PROVE  /\ q[i] \in OMsg /\ SubSeq(q, i + 1, Len(q)) \in Seq(OMsg)
           /\ TotalLength(SubSeq(q, i + 1, Len(q))) \in Nat
           /\ Len(q[i].data) + TotalLength(SubSeq(q, i + 1, Len(q))) <= TotalLength(q)
<1> DEFINE n == i - 1
           a == SubSeq(q, 1, n)
           b == SubSeq(q, n + 1, Len(q))
           c == SubSeq(q, i + 1, Len(q))
<1>1. n \in 0..Len(q) /\ n + 1 = i /\ Len(q) \in Nat /\ q[i] \in OMsg
  OBVIOUS
<1>2. a \in Seq(OMsg) /\ b \in Seq(OMsg) /\ Len(b) = Len(q) - n /\ a \o b = q
  BY <1>1, CutLemma
<1>3. b # << >> /\ Head(b) = q[i] /\ Tail(b) = c
  <2>1. b = SubSeq(q, i, Len(q))
    BY <1>1
  <2>2. i \in 1..Len(q) /\ Len(q) \in i..Len(q)
    BY <1>1
  <2>3. Head(SubSeq(q, i, Len(q))) = q[i] /\ Tail(SubSeq(q, i, Len(q))) = c
    BY <2>2, HeadTailOfSubSeq
  <2>4. b # << >>
    <3>1. Len(b) >= 1
      BY <1>1, <1>2
    <3> HIDE DEF b
    <3> QED  BY <3>1
  <2> QED  BY <2>1, <2>3, <2>4
<1> HIDE DEF a, b, c, n
<1>4. /\ TotalLength(a) \in Nat /\ TotalLength(b) \in Nat
      /\ TotalLength(a \o b) = TotalLength(a) + TotalLength(b)
  BY <1>2, TotalLengthConcat
<1>5. /\ Tail(b) \in Seq(OMsg)
      /\ TotalLength(b) = Len(Head(b).data) + TotalLength(Tail(b))
      /\ TotalLength(Tail(b)) \in Nat
  BY <1>2, <1>3, TotalLengthHead
<1>6. Len(q[i].data) \in Nat
  BY <1>1, MsgFacts
<1>7. c \in Seq(OMsg) /\ TotalLength(c) \in Nat
  BY <1>3, <1>5
<1>8. TotalLength(q) = TotalLength(a) + TotalLength(b)
  BY <1>2, <1>4
<1>9. TotalLength(b) = Len(q[i].data) + TotalLength(c)
  BY <1>3, <1>5
<1>10. Len(q[i].data) + TotalLength(c) <= TotalLength(q)
  BY <1>4, <1>6, <1>7, <1>8, <1>9
<1> QED  BY <1>1, <1>7, <1>10 DEF c

(* The bytes of a queue with a message more, at its end or in front.       *)
LEMMA TotalLengthAppend ==
    ASSUME NEW q \in Seq(OMsg), NEW m \in OMsg
    PROVE  /\ TotalLength(q) \in Nat /\ Len(m.data) \in Nat
           /\ TotalLength(Append(q, m)) = TotalLength(q) + Len(m.data)
           /\ TotalLength(<< m >> \o q) = Len(m.data) + TotalLength(q)
<1>1. << m >> \in Seq(OMsg) /\ Append(q, m) = q \o << m >>
  BY AppendIsConcat
<1>2. /\ TotalLength(q) \in Nat
      /\ TotalLength(q \o << m >>) = TotalLength(q) + TotalLength(<< m >>)
      /\ TotalLength(<< m >> \o q) = TotalLength(<< m >>) + TotalLength(q)
  BY <1>1, TotalLengthConcat
<1>3. TotalLength(<< m >>) = Len(m.data) /\ Len(m.data) \in Nat
  BY TotalLengthOne, MsgFacts
<1> QED  BY <1>1, <1>2, <1>3

(* The bytes of a queue and of the message taken from it, a Close or not.  *)
LEMMA TakesLength ==
    ASSUME NEW q \in Seq(OMsg), q # << >>, NEW queued \in BOOLEAN, NEW pop,
           Takes(q, queued, pop)
    PROVE  /\ pop.msg \in OMsg /\ pop.rest \in Seq(OMsg)
           /\ TotalLength(q) \in Nat /\ TotalLength(pop.rest) \in Nat
           /\ Len(pop.msg.data) \in Nat
           /\ Len(pop.msg.data) + TotalLength(pop.rest) <= TotalLength(q)
           /\ pop.msg.opcode # WSLAY_CONNECTION_CLOSE =>
                Len(pop.msg.data) + TotalLength(pop.rest) = TotalLength(q)
<1>1. TotalLength(q) \in Nat
  BY TotalLengthConcat
<1>2. CASE queued
  <2>1. PICK i \in 1..Len(q) :
          /\ q[i].opcode = WSLAY_CONNECTION_CLOSE
          /\ pop.msg = q[i] /\ pop.rest = SubSeq(q, i + 1, Len(q))
    BY <1>2 DEF Takes
  <2>2. /\ q[i] \in OMsg /\ SubSeq(q, i + 1, Len(q)) \in Seq(OMsg)
        /\ TotalLength(SubSeq(q, i + 1, Len(q))) \in Nat
        /\ Len(q[i].data) + TotalLength(SubSeq(q, i + 1, Len(q))) <= TotalLength(q)
    BY TotalLengthBehind
  <2>3. Len(q[i].data) \in Nat
    BY <2>2, MsgFacts
  <2> QED  BY <1>1, <2>1, <2>2, <2>3
<1>3. CASE ~queued
  <2>1. pop.msg = Head(q) /\ pop.rest = Tail(q)
    BY <1>3 DEF Takes
  <2>2. /\ Head(q) \in OMsg /\ Tail(q) \in Seq(OMsg)
        /\ TotalLength(q) = Len(Head(q).data) + TotalLength(Tail(q))
        /\ TotalLength(Tail(q)) \in Nat
    BY TotalLengthHead
  <2>3. Len(Head(q).data) \in Nat
    BY <2>2, MsgFacts
  <2> QED  BY <1>1, <2>1, <2>2, <2>3
<1> QED  BY <1>2, <1>3

(* The number of bytes wslay_event_get_queued_msg_length is about.         *)
PendingLength(q, cq, m) == TotalLength(q) + TotalLength(cq) + Len(m.data)

(* len is that number, or more once a Close was taken past other messages. *)
LengthOf(len, q, cq, m, sent) ==
    /\ len >= PendingLength(q, cq, m)
    /\ ~(IsClose(m) \/ sent) => len = PendingLength(q, cq, m)

(* Selecting a message leaves it right: a Close selected may only have made*)
(* it too much.                                                            *)
LEMMA SelectedLength ==
    ASSUME IInv, wslay_event_want_write, NEW len \in Int,
           LengthOf(len, send_queue, send_ctrl_queue, omsg, FALSE)
    PROVE  LET s == Selected
           IN  LengthOf(len, s.send_queue, s.send_ctrl_queue, s.omsg, FALSE)
<1> DEFINE s == Selected
<1>1. /\ omsg \in OMsg /\ send_queue \in Seq(OMsg) /\ send_ctrl_queue \in Seq(OMsg)
      /\ write_enabled
  BY TypeFacts, Zenon DEF IInv, wslay_event_want_write
<1>2. \/ SelectsData(s) \/ SelectsControl(s) \/ SelectsCurrent(s)
  BY SelectionCases
<1>3. s \in Selection /\ s.omsg.type # "NULL"
  BY SelectedLemma DEF Ready, SelectionOK
<1>4. Len(omsg.data) \in Nat /\ TotalLength(send_queue) \in Nat
      /\ TotalLength(send_ctrl_queue) \in Nat
  BY <1>1, MsgFacts, TotalLengthConcat
<1>5. /\ len >= PendingLength(send_queue, send_ctrl_queue, omsg)
      /\ ~IsClose(omsg) => len = PendingLength(send_queue, send_ctrl_queue, omsg)
  BY DEF LengthOf
<1> HIDE DEF s
<1>6. CASE SelectsData(s)
  <2>1. /\ omsg = NoMsg /\ send_queue # << >>
        /\ s.omsg = Head(send_queue) /\ s.send_queue = Tail(send_queue)
        /\ s.send_ctrl_queue = send_ctrl_queue
    BY <1>6 DEF SelectsData
  <2>2. /\ TotalLength(send_queue) = Len(s.omsg.data) + TotalLength(s.send_queue)
        /\ TotalLength(s.send_queue) \in Nat /\ Len(s.omsg.data) \in Nat
    BY <1>1, <2>1, TotalLengthHead, MsgFacts
  <2>3. Len(omsg.data) = 0 /\ ~IsClose(omsg)
    BY <2>1 DEF NoMsg, IsClose
  <2>4. len = PendingLength(s.send_queue, s.send_ctrl_queue, s.omsg)
    BY <1>4, <1>5, <2>1, <2>2, <2>3 DEF PendingLength
  <2> QED  BY <2>4, <1>4, <2>1, <2>2 DEF LengthOf, PendingLength, s
<1>7. CASE SelectsControl(s)
  <2> DEFINE pop == wslay_event_send_ctrl_queue_pop
             queued == "QUEUED" \in close_status
             sq == s.send_queue
  <2>1. /\ omsg = NoMsg \/ IsPreempted
        /\ send_ctrl_queue # << >>
        /\ s.omsg = pop.msg
        /\ s.send_ctrl_queue = pop.rest
    BY <1>7 DEF SelectsControl
  <2>2. sq = IF IsPreempted THEN << omsg >> \o send_queue ELSE send_queue
    BY <1>7, Zenon DEF SelectsControl
  <2>3. ~IsClose(omsg)
    BY <2>1 DEF IsClose, NoMsg, IsPreempted, wslay_is_ctrl_frame, WSLAY_CONNECTION_CLOSE
  <2>4. "QUEUED" \in close_status =>
            \E i \in 1..Len(send_ctrl_queue) : IsClose(send_ctrl_queue[i])
    BY <1>1, <2>3 DEF IInv, CloseNotLost
  <2>5. Takes(send_ctrl_queue, "QUEUED" \in close_status, pop)
    BY <1>1, <2>4, PopTakes
  <2>6. queued \in BOOLEAN /\ Takes(send_ctrl_queue, queued, pop)
    BY <2>5
  <2> HIDE DEF pop, queued, sq
  <2>7. /\ TotalLength(pop.rest) \in Nat /\ Len(pop.msg.data) \in Nat
        /\ Len(pop.msg.data) + TotalLength(pop.rest) <= TotalLength(send_ctrl_queue)
        /\ pop.msg.opcode # WSLAY_CONNECTION_CLOSE =>
             Len(pop.msg.data) + TotalLength(pop.rest) = TotalLength(send_ctrl_queue)
    BY <1>1, <2>1, <2>6, TakesLength
  <2>8. TotalLength(sq) = Len(omsg.data) + TotalLength(send_queue)
    <3>1. CASE IsPreempted
      <4>1. sq = << omsg >> \o send_queue
        BY <2>2, <3>1, Zenon
      <4> QED  BY <1>1, <4>1, TotalLengthAppend
    <3>2. CASE ~IsPreempted
      <4>1. sq = send_queue /\ omsg = NoMsg
        BY <2>1, <2>2, <3>2, Zenon
      <4>2. Len(omsg.data) = 0
        BY <4>1 DEF NoMsg
      <4> QED  BY <1>4, <4>1, <4>2
    <3> QED  BY <3>1, <3>2
  <2>9. len = PendingLength(send_queue, send_ctrl_queue, omsg)
    BY <1>5, <2>3
  <2>10. /\ len >= PendingLength(sq, pop.rest, pop.msg)
         /\ pop.msg.opcode # WSLAY_CONNECTION_CLOSE =>
              len = PendingLength(sq, pop.rest, pop.msg)
    <3> DEFINE a == TotalLength(send_queue)
               b == TotalLength(send_ctrl_queue)
               c == Len(omsg.data)
               d == TotalLength(pop.rest)
               e == Len(pop.msg.data)
               x == TotalLength(sq)
    <3>1. /\ a \in Nat /\ b \in Nat /\ c \in Nat /\ d \in Nat /\ e \in Nat
          /\ e + d <= b /\ x = c + a
          /\ pop.msg.opcode # WSLAY_CONNECTION_CLOSE => e + d = b
          /\ len = a + b + c
      BY <1>4, <2>7, <2>8, <2>9 DEF PendingLength
    <3> HIDE DEF a, b, c, d, e, x
    <3>2. /\ len >= x + d + e
          /\ pop.msg.opcode # WSLAY_CONNECTION_CLOSE => len = x + d + e
      BY ONLY <3>1
    <3> QED  BY <3>2 DEF x, d, e, PendingLength
  <2>11. ~IsClose(pop.msg) => pop.msg.opcode # WSLAY_CONNECTION_CLOSE
    BY <1>3, <2>1 DEF IsClose
  <2>12. LengthOf(len, s.send_queue, s.send_ctrl_queue, s.omsg, FALSE)
    BY <2>1, <2>10, <2>11 DEF LengthOf, sq
  <2> QED  BY <2>12 DEF s
<1>8. CASE SelectsCurrent(s)
  <2>1. LengthOf(len, s.send_queue, s.send_ctrl_queue, s.omsg, FALSE)
    BY <1>8 DEF SelectsCurrent
  <2> QED  BY <2>1 DEF s
<1> QED  BY <1>2, <1>6, <1>7, <1>8

-----------------------------------------------------------------------------
(* What a status code sent is said to be, the frames on the wire being w.  *)
StatusOf(status, sent, w) ==
    status = IF ~sent THEN WSLAY_CODE_ABNORMAL_CLOSURE
             ELSE LET body == Content(w[Len(w)].body)
                  IN  IF body = << >> THEN WSLAY_CODE_NO_STATUS_RCVD ELSE ntohs(body)

(* The inductive invariant for the getters.                                *)
GettersInv ==
    /\ LengthOf(queued_msg_length, send_queue, send_ctrl_queue, omsg,
                "SENT" \in close_status)
    /\ StatusOf(status_code_sent, "SENT" \in close_status, wire)

(* A quiet step leaves what the getters report alone.                      *)
LEMMA QuietKeepsGetters ==
    ASSUME GettersInv, Quiet
    PROVE  GettersInv'
<1>1. /\ queued_msg_length' = queued_msg_length /\ send_queue' = send_queue
      /\ send_ctrl_queue' = send_ctrl_queue /\ omsg' = omsg
      /\ close_status' = close_status /\ wire' = wire
      /\ status_code_sent' = status_code_sent
  BY DEF Quiet, queueVars, frameVars, sendVars
<1> QED  BY <1>1 DEF GettersInv

(* A message accepted adds its length.                                     *)
LEMMA AcceptsKeepsGetters ==
    ASSUME IInv, GettersInv, NEW m, Accepts(m)
    PROVE  GettersInv'
<1> DEFINE sent == "SENT" \in close_status
           len == queued_msg_length
<1>1. /\ m \in OMsg /\ send_queue \in Seq(OMsg) /\ send_ctrl_queue \in Seq(OMsg)
      /\ wire' = wire /\ omsg' = omsg /\ status_code_sent' = status_code_sent
  BY AcceptsJoins, JoinsFacts
<1>2. IF wslay_is_ctrl_frame(m.opcode)
      THEN send_queue' = send_queue /\ send_ctrl_queue' = Append(send_ctrl_queue, m)
      ELSE send_queue' = Append(send_queue, m) /\ send_ctrl_queue' = send_ctrl_queue
  BY AcceptsJoins, JoinsFacts
<1>3. queued_msg_length' = len + Len(m.data)
  BY DEF Accepts, Enqueue
<1>4. ("SENT" \in close_status') <=> sent
  BY DEF Accepts
<1>5. omsg \in OMsg /\ len \in Int
  BY TypeFacts, Zenon DEF IInv
<1>6. /\ LengthOf(len, send_queue, send_ctrl_queue, omsg, sent)
      /\ StatusOf(status_code_sent, sent, wire)
  BY DEF GettersInv
<1> HIDE DEF sent, len
<1>7. /\ Len(m.data) \in Nat /\ Len(omsg.data) \in Nat
      /\ TotalLength(send_queue) \in Nat /\ TotalLength(send_ctrl_queue) \in Nat
      /\ TotalLength(Append(send_queue, m)) = TotalLength(send_queue) + Len(m.data)
      /\ TotalLength(Append(send_ctrl_queue, m))
           = TotalLength(send_ctrl_queue) + Len(m.data)
  BY <1>1, <1>5, TotalLengthAppend, MsgFacts
<1>8. PendingLength(send_queue', send_ctrl_queue', omsg)
        = PendingLength(send_queue, send_ctrl_queue, omsg) + Len(m.data)
      /\ PendingLength(send_queue, send_ctrl_queue, omsg) \in Nat
  <2> DEFINE a == TotalLength(send_queue)
             b == TotalLength(send_ctrl_queue)
             c == Len(m.data)
             d == Len(omsg.data)
  <2>1. /\ a \in Nat /\ b \in Nat /\ c \in Nat /\ d \in Nat
        /\ \/ TotalLength(send_queue') = a /\ TotalLength(send_ctrl_queue') = b + c
           \/ TotalLength(send_queue') = a + c /\ TotalLength(send_ctrl_queue') = b
    BY <1>2, <1>7
  <2>2. PendingLength(send_queue, send_ctrl_queue, omsg) = a + b + d
    BY DEF PendingLength
  <2>3. PendingLength(send_queue', send_ctrl_queue', omsg)
          = TotalLength(send_queue') + TotalLength(send_ctrl_queue') + d
    BY DEF PendingLength
  <2> HIDE DEF a, b, c, d
  <2>4. PendingLength(send_queue', send_ctrl_queue', omsg) = (a + b + d) + c
    BY <2>1, <2>3
  <2>5. a + b + d \in Nat
    BY <2>1
  <2>6. PendingLength(send_queue', send_ctrl_queue', omsg)
          = PendingLength(send_queue, send_ctrl_queue, omsg) + c
    BY <2>2, <2>4
  <2> QED  BY <2>2, <2>5, <2>6 DEF c
<1>9. LengthOf(len + Len(m.data), send_queue', send_ctrl_queue', omsg, sent)
  <2> DEFINE a == PendingLength(send_queue, send_ctrl_queue, omsg)
             b == PendingLength(send_queue', send_ctrl_queue', omsg)
             c == Len(m.data)
  <2>1. /\ a \in Nat /\ b = a + c /\ c \in Nat /\ len >= a
        /\ ~(IsClose(omsg) \/ sent) => len = a
    BY <1>6, <1>7, <1>8 DEF LengthOf
  <2> HIDE DEF a, b, c
  <2>2. len + c >= b /\ (~(IsClose(omsg) \/ sent) => len + c = b)
    BY <1>5, <2>1
  <2> QED  BY <2>2 DEF LengthOf, b, c
<1>10. LengthOf(queued_msg_length', send_queue', send_ctrl_queue', omsg',
                "SENT" \in close_status')
  BY <1>1, <1>3, <1>4, <1>9 DEF LengthOf
<1>11. StatusOf(status_code_sent', "SENT" \in close_status', wire')
  BY <1>1, <1>4, <1>6 DEF StatusOf
<1> QED  BY <1>10, <1>11 DEF GettersInv

(* The messages of an iteration, as far as their lengths are concerned.    *)
LengthIteration(t, data) ==
    /\ t.omsg \in OMsg
    /\ t.omsg.type = "FRAGMENTED" => ~IsClose(t.omsg)
    /\ t.send_queue \in Seq(OMsg) /\ t.send_ctrl_queue \in Seq(OMsg)
    /\ LengthOf(queued_msg_length, t.send_queue, t.send_ctrl_queue, t.omsg, FALSE)
    /\ Iterated(t, FramesBefore(frame_ctx, wire), BytesSent(frame_ctx, wire), data)

(* An iteration is one of a message for which that holds.                  *)
LEMMA LengthIterationLemma ==
    ASSUME IInv, DataInv, GettersInv, wslay_event_send, "SENT" \notin close_status
    PROVE  \E t, data : LengthIteration(t, data)
<1> DEFINE s == Selected
<1>1. wslay_event_want_write /\ write_enabled
  BY DEF wslay_event_send, wslay_event_want_write
<1>2. FrameSync(frame_ctx, wire) /\ AllSourcesDone
  BY <1>1 DEF DataInv
<1>3. SourceDone(s.omsg)
  BY <1>1, <1>2, SelectedSources DEF AllSourcesDone
<1>4. queued_msg_length \in Int
  BY TypeFacts, Zenon DEF IInv
<1>5. LengthOf(queued_msg_length, send_queue, send_ctrl_queue, omsg, FALSE)
  BY DEF GettersInv, LengthOf
<1>6. LengthOf(queued_msg_length, s.send_queue, s.send_ctrl_queue, s.omsg, FALSE)
  BY <1>1, <1>4, <1>5, SelectedLength
<1>7. PICK t, data : IterationOf(s, t, data)
  BY <1>2, <1>3, IterationLemma DEF SourceDone
<1>8. SelectionOK(s) /\ s \in Selection
  BY <1>1, SelectedLemma DEF Ready, SelectionOK
<1> HIDE DEF s
<1>9. /\ IsCurrentItem(s.omsg)
      /\ s.send_queue \in Seq(OMsg) /\ s.send_ctrl_queue \in Seq(OMsg)
  BY <1>8 DEF SelectionOK, Selection
<1>10. /\ t.omsg \in OMsg
       /\ t.omsg.type = s.omsg.type /\ t.omsg.opcode = s.omsg.opcode
       /\ t.omsg.data = s.omsg.data
       /\ t.send_queue = s.send_queue /\ t.send_ctrl_queue = s.send_ctrl_queue
       /\ Iterated(t, FramesBefore(frame_ctx, wire), BytesSent(frame_ctx, wire), data)
  BY <1>7 DEF IterationOf
<1>11. LengthOf(queued_msg_length, t.send_queue, t.send_ctrl_queue, t.omsg, FALSE)
  BY <1>6, <1>10 DEF LengthOf, PendingLength, IsClose
<1>12. t.omsg.type = "FRAGMENTED" => ~IsClose(t.omsg)
  <2>1. s.omsg.type = "FRAGMENTED" => ~wslay_is_ctrl_frame(s.omsg.opcode)
    BY <1>9 DEF IsCurrentItem, NoMsg
  <2> QED  BY <1>10, <2>1 DEF IsClose, wslay_is_ctrl_frame, WSLAY_CONNECTION_CLOSE
<1>13. LengthIteration(t, data)
  BY <1>9, <1>10, <1>11, <1>12 DEF LengthIteration
<1> QED  BY <1>13

(* An iteration takes off the length of the message it is done with.       *)
LEMMA EventSendKeepsLength ==
    ASSUME IInv, DataInv, GettersInv, wslay_event_send, "SENT" \notin close_status
    PROVE  LengthOf(queued_msg_length', send_queue', send_ctrl_queue', omsg',
                    "SENT" \in close_status')
<1> DEFINE w0 == FramesBefore(frame_ctx, wire)
           sent == BytesSent(frame_ctx, wire)
           len == queued_msg_length
<1>1. PICK t, data : LengthIteration(t, data)
  BY LengthIterationLemma
<1> DEFINE m == t.omsg
           q == t.send_queue
           cq == t.send_ctrl_queue
<1>2. /\ send_queue' = q /\ send_ctrl_queue' = cq
      /\ \/ IterKept(t, w0, sent \o (data \o t.omsg.source))
         \/ IterMore(t, w0, sent, data)
         \/ IterWhole(t, w0, sent, data)
  BY <1>1 DEF LengthIteration, Iterated
<1>3. len \in Int
  BY TypeFacts, Zenon DEF IInv
<1>4. /\ m \in OMsg /\ LengthOf(len, q, cq, m, FALSE)
      /\ m.type = "FRAGMENTED" => ~IsClose(m)
      /\ TotalLength(q) \in Nat /\ TotalLength(cq) \in Nat /\ Len(m.data) \in Nat
  BY <1>1, TotalLengthConcat, MsgFacts DEF LengthIteration
<1> HIDE DEF m, q, cq, w0, sent, len
<1>5. CASE IterKept(t, w0, sent \o (data \o t.omsg.source))
  <2>1. omsg' = m /\ close_status' = close_status /\ queued_msg_length' = len
    BY <1>5 DEF IterKept, m, len
  <2> QED  BY <1>2, <1>4, <2>1 DEF LengthOf
<1>6. CASE IterMore(t, w0, sent, data)
  <2>1. /\ omsg' = [ m EXCEPT !.opcode = WSLAY_CONTINUATION_FRAME ]
        /\ close_status' = close_status /\ queued_msg_length' = len
        /\ m.type = "FRAGMENTED"
    BY <1>6 DEF IterMore, m, len
  <2>2. omsg'.data = m.data /\ omsg'.type = m.type
        /\ omsg'.opcode = WSLAY_CONTINUATION_FRAME
    BY <1>4, <2>1 DEF OMsg
  <2>3. ~IsClose(m)
    BY <1>4, <2>1
  <2>4. PendingLength(q, cq, omsg') = PendingLength(q, cq, m)
    BY <2>2 DEF PendingLength
  <2> QED  BY <1>2, <1>4, <2>1, <2>3, <2>4 DEF LengthOf
<1>7. CASE IterWhole(t, w0, sent, data)
  <2>1. PICK buf, off : SentWhole(t, buf, off)
    BY <1>7 DEF IterWhole
  <2>2. /\ omsg' = NoMsg /\ queued_msg_length' = len - Len(m.data)
        /\ IF m.opcode = WSLAY_CONNECTION_CLOSE
           THEN close_status' = close_status \cup {"SENT"}
           ELSE close_status' = close_status
    BY <2>1 DEF SentWhole, m, len
  <2>3. Len(NoMsg.data) = 0 /\ ~IsClose(NoMsg)
    BY DEF NoMsg, IsClose
  <2>4. ~("SENT" \in close_status') => ~IsClose(m)
    BY <2>2 DEF IsClose
  <2>5. /\ len >= PendingLength(q, cq, m)
        /\ ~IsClose(m) => len = PendingLength(q, cq, m)
    BY <1>4 DEF LengthOf
  <2>6. /\ len - Len(m.data) >= PendingLength(q, cq, NoMsg)
        /\ ~IsClose(m) => len - Len(m.data) = PendingLength(q, cq, NoMsg)
    <3> DEFINE a == TotalLength(q)
               b == TotalLength(cq)
               c == Len(m.data)
    <3>1. /\ a \in Nat /\ b \in Nat /\ c \in Nat
          /\ len >= a + b + c /\ (~IsClose(m) => len = a + b + c)
      BY <1>4, <2>5 DEF PendingLength
    <3> HIDE DEF a, b, c
    <3>2. len - c >= a + b + 0 /\ (~IsClose(m) => len - c = a + b + 0)
      BY <1>3, <3>1
    <3> QED  BY <2>3, <3>2 DEF PendingLength, a, b, c
  <2> QED  BY <1>2, <2>2, <2>4, <2>6 DEF LengthOf
<1> QED  BY <1>2, <1>5, <1>6, <1>7

(* The status code of a Close sent, its body given.                        *)
LEMMA StatusOfClose ==
    ASSUME NEW status, NEW sent, NEW w, NEW body, sent, body = Content(w[Len(w)].body),
           status = IF body = << >> THEN WSLAY_CODE_NO_STATUS_RCVD ELSE ntohs(body)
    PROVE  StatusOf(status, sent, w)
  BY DEF StatusOf

(* An iteration sets the status code when it completes the Close, to what  *)
(* is on the wire.                                                         *)
LEMMA EventSendKeepsStatus ==
    ASSUME IInv, DataInv, CtrlInv, GettersInv, wslay_event_send
    PROVE  /\ "SENT" \notin close_status
           /\ StatusOf(status_code_sent', "SENT" \in close_status', wire')
<1> DEFINE w0 == FramesBefore(frame_ctx, wire)
           sent == BytesSent(frame_ctx, wire)
           fs == View(frame_ctx, wire).ctrls
           h == ByQueue(accepted).ctrl
<1>1. write_enabled
  BY DEF wslay_event_send, wslay_event_want_write
<1>2. /\ FrameSync(frame_ctx, wire) /\ CloseBodies(h) /\ "SENT" \notin close_status
  BY <1>1 DEF DataInv, CtrlInv
<1>3. status_code_sent = WSLAY_CODE_ABNORMAL_CLOSURE
  BY <1>2 DEF GettersInv, StatusOf
<1>4. /\ w0 \in Seq(WireFrame) /\ h \in Seq(OMsg) /\ fs \in Seq(WireFrame)
  BY <1>2, ViewFactsNow, ViewFacts
<1>5. PICK t, data : CtrlIteration(t, fs, h, sent, data)
  BY CtrlIterationLemma
<1> DEFINE m == t.omsg
           q == t.send_ctrl_queue
<1>6. /\ m \in OMsg /\ m.type # "NULL" /\ q \in Seq(OMsg)
      /\ IsControl(m) => sent \o data = m.data
      /\ CtrlSync(fs, h, m, q)
      /\ \/ IterKept(t, w0, sent \o (data \o t.omsg.source))
         \/ IterMore(t, w0, sent, data)
         \/ IterWhole(t, w0, sent, data)
  BY <1>5 DEF CtrlIteration, Iterated
<1> HIDE DEF w0, sent, fs, h, m, q
<1>7. ASSUME status_code_sent' = status_code_sent, close_status' = close_status
      PROVE  StatusOf(status_code_sent', "SENT" \in close_status', wire')
  BY <1>2, <1>3, <1>7 DEF StatusOf
<1>8. CASE IterKept(t, w0, sent \o (data \o t.omsg.source))
  BY <1>2, <1>7, <1>8 DEF IterKept
<1>9. CASE IterMore(t, w0, sent, data)
  BY <1>2, <1>7, <1>9 DEF IterMore
<1>10. CASE IterWhole(t, w0, sent, data)
  <2>1. PICK buf, off : SentWhole(t, buf, off)
    BY <1>10 DEF IterWhole
  <2>2. CASE m.opcode # WSLAY_CONNECTION_CLOSE
    <3>1. status_code_sent' = status_code_sent /\ close_status' = close_status
      BY <2>1, <2>2 DEF SentWhole, m
    <3> QED  BY <1>2, <1>7, <3>1
  <2>3. CASE m.opcode = WSLAY_CONNECTION_CLOSE
    <3>1. /\ "SENT" \in close_status'
          /\ status_code_sent' =
               IF Len(m.data) >= 2 /\ ntohs(m.data) # 0
               THEN ntohs(m.data) ELSE WSLAY_CODE_NO_STATUS_RCVD
      BY <2>1, <2>3 DEF SentWhole, m
    <3>2. IsControl(m)
      BY <1>6, <2>3 DEF IsControl, wslay_is_ctrl_frame, WSLAY_CONNECTION_CLOSE
    <3>3. \E i \in 1..Len(h) : m = h[i]
      BY <1>4, <1>6, <3>2, CtrlAtMost
    <3>4. BodyWell(m.data)
      BY <1>2, <2>3, <3>3 DEF CloseBodies
    <3>5. PICK f \in WireFrame : wire' = Append(w0, f) /\ WholeFrame(f, m, sent, data)
      BY <1>10 DEF IterWhole, FrameDone, m
    <3>6. Content(f.body) = m.data
      BY <1>6, <3>2, <3>5 DEF WholeFrame
    <3>7. wire'[Len(wire')] = f
      <4>1. Len(Append(w0, f)) = Len(w0) + 1 /\ Append(w0, f)[Len(w0) + 1] = f
        BY <1>4
      <4> QED  BY <3>5, <4>1
    <3>8. status_code_sent' = IF m.data = << >> THEN WSLAY_CODE_NO_STATUS_RCVD
                              ELSE ntohs(m.data)
      <4>1. CASE m.data = << >>
        <5>1. Len(m.data) = 0
          BY <4>1
        <5>2. ~(Len(m.data) >= 2 /\ ntohs(m.data) # 0)
          BY <5>1
        <5> QED  BY <3>1, <4>1, <5>2
      <4>2. CASE m.data # << >>
        <5>1. Len(m.data) >= 2 /\ ntohs(m.data) # 0
          BY <3>4, <4>2, Zenon DEF BodyWell
        <5> QED  BY <3>1, <4>2, <5>1, Zenon
      <4> QED  BY <4>1, <4>2
    <3>9. m.data = Content(wire'[Len(wire')].body)
      BY <3>6, <3>7
    <3> DEFINE sentNow == "SENT" \in close_status'
               body == m.data
    <3>10. sentNow
      BY <3>1
    <3>11. /\ body = Content(wire'[Len(wire')].body)
           /\ status_code_sent' = IF body = << >> THEN WSLAY_CODE_NO_STATUS_RCVD
                                  ELSE ntohs(body)
      BY <3>8, <3>9
    <3> HIDE DEF body, sentNow
    <3>12. StatusOf(status_code_sent', sentNow, wire')
      BY <3>10, <3>11, StatusOfClose
    <3> QED  BY <1>2, <3>12 DEF sentNow
  <2> QED  BY <2>2, <2>3
<1> QED  BY <1>2, <1>6, <1>8, <1>9, <1>10

(* At the beginning there is nothing to report.                            *)
LEMMA InitGetters == Init => GettersInv
<1> SUFFICES ASSUME Init PROVE GettersInv
  OBVIOUS
<1>1. /\ send_queue = << >> /\ send_ctrl_queue = << >> /\ omsg = NoMsg
      /\ close_status = {} /\ queued_msg_length = 0
      /\ status_code_sent = WSLAY_CODE_ABNORMAL_CLOSURE
  BY DEF Init, QueueInit
<1>2. omsg \in OMsg
  BY InitLemma, TypeFacts, Zenon DEF IInv
<1>3. TotalLength(<< >>) = 0
  BY <1>2, TotalLengthOne
<1>4. Len(NoMsg.data) = 0
  BY DEF NoMsg
<1>5. PendingLength(send_queue, send_ctrl_queue, omsg) = 0
  BY <1>1, <1>3, <1>4 DEF PendingLength
<1>6. LengthOf(queued_msg_length, send_queue, send_ctrl_queue, omsg,
               "SENT" \in close_status)
  BY <1>1, <1>5 DEF LengthOf
<1> QED  BY <1>1, <1>6 DEF GettersInv, StatusOf

(* wslay_event_get_queued_msg_length and wslay_event_get_status_code_sent  *)
(* report what is the case (event.c 236, 573-584), for an application that *)
(* sends its Close frames with wslay_event_queue_close.                    *)
THEOREM GettersStayHonest ==
    ASSUME WSLAY_CONNECTION_CLOSE \notin AppOpcodes
    PROVE  Spec => []GettersHonest
<1>1. Init => GettersInv
  BY InitGetters
<1>2. IInv /\ DataInv /\ CtrlInv /\ GettersInv /\ [Next]_vars => GettersInv'
  <2> SUFFICES ASSUME IInv, DataInv, CtrlInv, GettersInv, [Next]_vars PROVE GettersInv'
    OBVIOUS
  <2>1. CASE wslay_event_send
    <3>1. /\ "SENT" \notin close_status
          /\ StatusOf(status_code_sent', "SENT" \in close_status', wire')
      BY <2>1, EventSendKeepsStatus
    <3>2. LengthOf(queued_msg_length', send_queue', send_ctrl_queue', omsg',
                   "SENT" \in close_status')
      BY <2>1, <3>1, EventSendKeepsLength
    <3> QED  BY <3>1, <3>2 DEF GettersInv
  <2>2. CASE ~wslay_event_send
    BY <2>2, OtherSteps, QuietKeepsGetters, AcceptsKeepsGetters
  <2> QED  BY <2>1, <2>2
<1>3. GettersInv => GettersHonest
  BY DEF GettersInv, GettersHonest, LengthOf, PendingLength, StatusOf
<1> QED  BY <1>1, <1>2, <1>3, Invariance, DataInvariance, CtrlInvariance, PTL DEF Spec
=============================================================================
