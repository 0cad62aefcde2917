-------------------------- MODULE EventRecvProofs --------------------------
(***************************************************************************)
(* wslay_event_recv, for every peer, every limit and every way the socket  *)
(* cuts the frames.  The invariant follows the frames received so far:     *)
(* what RFC 6455 makes of them (Reassemble) is, as long as reading is      *)
(* enabled, what the slots imsgs[0] and imsgs[1] hold and what was         *)
(* delivered.  Once reading stops, only the answer to the peer is left.    *)
(***************************************************************************)
EXTENDS RecvView, Utf8Proofs

View == [ opcode : 0..255, data : Seq(Byte),
          msgs : Seq([ opcode : 0..255, msg : Seq(Byte) ]) ]

IsCtrl(f) == wslay_is_ctrl_frame(f.opcode)

(* f may follow the frames v is the view of.                               *)
Fits(f, v) ==
    /\ f.rsv = 0 /\ f.mask = Server
    /\ f.opcode \in KnownCtrl \cup IF v.opcode = NoOpcode
                                   THEN {WSLAY_TEXT_FRAME, WSLAY_BINARY_FRAME}
                                   ELSE {WSLAY_CONTINUATION_FRAME}

(* The message f belongs to: its opcode, and its bytes before f.           *)
OpcodeOf(f, v) == IF f.opcode = WSLAY_CONTINUATION_FRAME THEN v.opcode ELSE f.opcode
Before(f, v) == IF f.opcode = WSLAY_CONTINUATION_FRAME THEN v.data ELSE << >>

Buffers(opcode) == ~config.no_buffering \/ wslay_is_ctrl_frame(opcode)

(* The UTF-8 check of a data slot stands where the automaton stands after  *)
(* bytes.                                                                  *)
InText(m, bytes) ==
    /\ m.opcode # WSLAY_CONNECTION_CLOSE => m.utf8state # UTF8_REJECT
    /\ m.opcode = WSLAY_TEXT_FRAME => m.utf8state = DecodeAll(UTF8_ACCEPT, bytes)

IdleSlot(m) == m.opcode = NoOpcode /\ m.chunks = << >> /\ m.utf8state = UTF8_ACCEPT

(* A slot holds bytes and nothing else.                                    *)
Holds(m, bytes) ==
    IF Buffers(m.opcode) THEN Flatten(m.chunks) = bytes /\ m.msg_length = Len(bytes)
    ELSE m.chunks = << >> /\ m.msg_length = 0

(* Between two frames of a message, and between messages.                  *)
DataSlot(m, v) == m.opcode = v.opcode /\ ~m.fin /\ Holds(m, v.data) /\ InText(m, v.data)

Ready(x, v) ==
    /\ x.imsg = 0 /\ AtFrameStart(x) /\ IdleSlot(x.imsgs[1])
    /\ IF v.opcode = NoOpcode THEN IdleSlot(x.imsgs[0]) ELSE DataSlot(x.imsgs[0], v)

(* Which slot the frame f is received into; the other one waits.           *)
InSlot(x, v, f) ==
    IF IsCtrl(f) /\ v.opcode # NoOpcode
    THEN x.imsg = 1 /\ DataSlot(x.imsgs[0], v)
    ELSE x.imsg = 0 /\ IdleSlot(x.imsgs[1])

(* The frame is accepted, room is not yet made for its payload.            *)
Opened(x, v, f) ==
    /\ AtFrameStart(x) /\ InSlot(x, v, f)
    /\ Msg(x).opcode = OpcodeOf(f, v) /\ Msg(x).fin = f.fin
    /\ Holds(Msg(x), Before(f, v)) /\ InText(Msg(x), Before(f, v))

(* The first t bytes of the frame's payload are in their place.            *)
Filled(m, before, payload, t) ==
    LET flat == Flatten(m.chunks)
    IN  IF Buffers(m.opcode)
        THEN /\ m.msg_length = Len(before) + Len(payload)
             /\ Len(flat) = Len(before) + Len(payload)
             /\ \A i \in 1..Len(before) : flat[i] = before[i]
             /\ \A i \in 1..t : flat[Len(before) + i] = payload[i]
             /\ payload # << >> => /\ m.chunks # << >>
                                   /\ Len(m.chunks[Len(m.chunks)]) = Len(payload)
        ELSE m.chunks = << >> /\ m.msg_length = 0

Holding(x, v, f, t) ==
    /\ x.ipayloadlen = Len(f.payload) /\ x.ipayloadoff = t
    /\ InSlot(x, v, f)
    /\ Msg(x).opcode = OpcodeOf(f, v) /\ Msg(x).fin = f.fin
    /\ Filled(Msg(x), Before(f, v), f.payload, t)

(* The message up to byte t of the frame, and the UTF-8 check there.       *)
Part(v, f, t) == Before(f, v) \o SubSeq(f.payload, 1, t)

InFrame(x, v, f, t) == Holding(x, v, f, t) /\ InText(Msg(x), Part(v, f, t))

ViewSound(v) ==
    /\ v.opcode \in {NoOpcode, WSLAY_TEXT_FRAME, WSLAY_BINARY_FRAME}
    /\ v.opcode = NoOpcode => v.data = << >>

-----------------------------------------------------------------------------
(* The parts of the invariant *)

(* No message received has these opcodes as long as reading is enabled.    *)
NotHanded == { WSLAY_CONNECTION_CLOSE, WSLAY_CONTINUATION_FRAME }

SourceSound ==
    /\ source.peer \in Seq(Frames)
    /\ source.open => /\ source.peer # << >>
                      /\ source.taken \in 1..(Len(Last(source.peer).payload) - 1)
    /\ ~source.open /\ source.peer # << >> => source.taken = Len(Last(source.peer).payload)

(* As long as reading is enabled the context is in step with the frames.   *)
InStep ==
    LET v == Reassemble(WholeFrames)
    IN  /\ ViewSound(v)
        /\ v.opcode # NoOpcode <=> InsideMessage(WholeFrames)
        /\ ~BreaksFraming(source.peer)
        /\ IF source.open
           THEN Fits(Last(source.peer), v) /\ InFrame(rx, v, Last(source.peer), source.taken)
           ELSE Ready(rx, v)
        /\ rx.starts = Len(source.peer) /\ rx.ends = Len(WholeFrames)
        /\ config.on_msg_recv => DeliveredMsgs = AsDelivered(v.msgs)
        /\ \A i \in 1..Len(v.msgs) : v.msgs[i].opcode \notin NotHanded
        /\ ~config.on_msg_recv => delivered = << >>
        /\ "RECEIVED" \notin close_status
        /\ \A status \in StatusCode : Accepts(status) => status \in AppStatus

SlotsSound ==
    \A i \in 0..1 : rx.imsgs[i].opcode # NoOpcode => rx.imsgs[i].msg_length <= max_recv_msg_length

CallbacksSound == rx.starts <= Len(source.peer) /\ rx.ends <= rx.starts

Answered ==
    "RECEIVED" \in close_status /\ delivered # << >>
      /\ Last(delivered).opcode = WSLAY_CONNECTION_CLOSE => "QUEUED" \in close_status

(* What is delivered as text is UTF-8.                                     *)
TextsDelivered ==
    \A i \in 1..Len(delivered) :
        delivered[i].opcode = WSLAY_TEXT_FRAME => IsUtf8(delivered[i].msg)

(* The last frame makes the text invalid, or it is a Close.                *)
TextReason ==
    LET now  == Reassemble(FramesSoFar)
        last == source.peer[Len(source.peer)]
        text == IF last.fin THEN Last(now.msgs).msg ELSE now.data
    IN  \/ last.opcode = WSLAY_CONNECTION_CLOSE
        \/ last.fin /\ ~source.open /\ ~IsUtf8(text)
        \/ ~BeginsUtf8(text)

TextRefusal == FailsWith(WSLAY_CODE_INVALID_FRAME_PAYLOAD_DATA) => TextReason

Inv ==
    /\ TypeOK /\ SourceSound
    /\ read_enabled => InStep
    /\ SlotsSound /\ CallbacksSound /\ Answered
    /\ DeliveredAsSent /\ FramingVerdict /\ SizeVerdict /\ FailureAnswered
    /\ PongForPing /\ CloseReceivedHonest
    /\ TextsDelivered /\ TextRefusal

-----------------------------------------------------------------------------
(* The folds *)

(* A frame keeps the view a view.                                          *)
LEMMA AddFrameType ==
    ASSUME NEW v \in View, NEW f \in Frame
    PROVE  AddFrame(v, f) \in View
<1> DEFINE opcode == IF f.opcode # WSLAY_CONTINUATION_FRAME THEN f.opcode ELSE v.opcode
           data == IF f.opcode # WSLAY_CONTINUATION_FRAME THEN f.payload ELSE v.data \o f.payload
           Item == [ opcode : 0..255, msg : Seq(Byte) ]
           ctrlMsg == [ opcode |-> f.opcode, msg |-> f.payload ]
           dataMsg == [ opcode |-> opcode, msg |-> data ]
<1>1. f.opcode \in 0..255 /\ f.payload \in Seq(Byte) /\ v.opcode \in 0..255
      /\ v.data \in Seq(Byte) /\ v.msgs \in Seq(Item)
  BY DEF Frame, View
<1>2. opcode \in 0..255 /\ data \in Seq(Byte)
  BY <1>1
<1>3. /\ AddFrame(v, f) = IF wslay_is_ctrl_frame(f.opcode)
                         THEN [ v EXCEPT !.msgs = Append(v.msgs, ctrlMsg) ]
                         ELSE IF f.fin
                         THEN [ opcode |-> NoOpcode, data |-> << >>, msgs |-> Append(v.msgs, dataMsg) ]
                         ELSE [ opcode |-> opcode, data |-> data, msgs |-> v.msgs ]
  BY Zenon DEF AddFrame
<1> HIDE DEF opcode, data
<1>4. ctrlMsg \in Item /\ dataMsg \in Item
  BY <1>1, <1>2
<1> HIDE DEF ctrlMsg, dataMsg, Item
<1>5. Append(v.msgs, ctrlMsg) \in Seq(Item) /\ Append(v.msgs, dataMsg) \in Seq(Item)
  BY <1>1, <1>4
<1>6. CASE wslay_is_ctrl_frame(f.opcode)
  <2>1. AddFrame(v, f) = [ v EXCEPT !.msgs = Append(v.msgs, ctrlMsg) ]
    BY <1>3, <1>6
  <2> DEFINE O == 0..255
             B == Seq(Byte)
             M == Seq(Item)
             ms == Append(v.msgs, ctrlMsg)
  <2>2. View = [ opcode : O, data : B, msgs : M ] /\ ms \in M
    BY <1>5 DEF View, Item
  <2> HIDE DEF O, B, M, ms
  <2>3. [ v EXCEPT !.msgs = ms ] \in View
    BY <2>2
  <2> QED
    BY <2>1, <2>3 DEF ms
<1>7. CASE ~wslay_is_ctrl_frame(f.opcode) /\ f.fin
  <2>1. AddFrame(v, f) = [ opcode |-> NoOpcode, data |-> << >>, msgs |-> Append(v.msgs, dataMsg) ]
    BY <1>3, <1>7
  <2> QED
    BY <1>5, <2>1 DEF View, Item, NoOpcode
<1>8. CASE ~wslay_is_ctrl_frame(f.opcode) /\ ~f.fin
  <2>1. AddFrame(v, f) = [ opcode |-> opcode, data |-> data, msgs |-> v.msgs ]
    BY <1>3, <1>8
  <2> QED
    BY <1>1, <1>2, <2>1 DEF View, Item
<1> QED
  BY <1>6, <1>7, <1>8

ViewStep == [ p \in View \X Frame |-> AddFrame(p[1], p[2]) ]

(* Reassemble is a fold.                                                   *)
LEMMA ReassembleFolds ==
    ASSUME NEW frames \in Seq(Frame)
    PROVE  \E f \in [ 0..Len(frames) -> View ] :
             IsFold(f, NothingYet, ViewStep, frames) /\ Reassemble(frames) = f[Len(frames)]
<1> DEFINE n == Len(frames)
           Walk(f) == [ i \in 0..n |-> IF i = 0 THEN NothingYet
                                       ELSE AddFrame(f[i - 1], frames[i]) ]
           at == CHOOSE f : f = Walk(f)
<1>1. n \in Nat /\ \A i \in 1..n : frames[i] \in Frame
  OBVIOUS
<1>2. ViewStep \in Steps(View, Frame) /\ NothingYet \in View
  <2>1. ViewStep \in Steps(View, Frame)
    BY AddFrameType DEF Steps, ViewStep
  <2>2. NothingYet \in View
    BY DEF NothingYet, View, NoOpcode
  <2> QED
    BY <2>1, <2>2
<1>3. \A v \in View, f \in Frame : ViewStep[<< v, f >>] = AddFrame(v, f)
  BY DEF ViewStep
<1>4. PICK f \in [ 0..n -> View ] : IsFold(f, NothingYet, ViewStep, frames)
  BY <1>2, FoldExists
<1>5. \A i \in 1..n : i - 1 \in 0..n /\ f[i] = AddFrame(f[i - 1], frames[i])
  <2> SUFFICES ASSUME NEW i \in 1..n PROVE i - 1 \in 0..n /\ f[i] = AddFrame(f[i - 1], frames[i])
    OBVIOUS
  <2>1. i - 1 \in 0..n /\ frames[i] \in Frame
    BY <1>1
  <2>2. f[i - 1] \in View
    BY <2>1
  <2>3. f[i] = ViewStep[<< f[i - 1], frames[i] >>]
    BY <1>4 DEF IsFold
  <2> QED
    BY <1>3, <2>1, <2>2, <2>3
<1>6. f = Walk(f)
  <2>1. \A i \in 0..n : f[i] = Walk(f)[i]
    BY <1>1, <1>4, <1>5 DEF IsFold
  <2> QED
    BY <2>1
<1>7. at = Walk(at)
  BY <1>6, Zenon
<1>8. Reassemble(frames) = at[n]
  BY Zenon DEF Reassemble
<1> HIDE DEF at
<1>9. \A i \in 0..n : at[i] = f[i]
  <2> DEFINE Same == { i \in 0..n : at[i] = f[i] }
  <2>1. 0 \in Same
    BY <1>1, <1>4, <1>7 DEF IsFold
  <2>2. ASSUME NEW i \in 1..n, i - 1 \in Same PROVE i \in Same
    <3>1. at[i - 1] = f[i - 1]
      BY <2>2
    <3>2. at[i] = AddFrame(at[i - 1], frames[i])
      BY <1>1, <1>7
    <3> QED
      BY <1>1, <1>5, <3>1, <3>2
  <2>3. \A i \in 0..n : i \in Same
    <3> HIDE DEF Same
    <3> QED
      BY <1>1, <2>1, <2>2, InductionUpTo
  <2> QED
    BY <2>3
<1> QED
  BY <1>1, <1>4, <1>8, <1>9

(* One frame more.                                                         *)
LEMMA ReassembleAppend ==
    ASSUME NEW frames \in Seq(Frame), NEW e \in Frame
    PROVE  Reassemble(Append(frames, e)) = AddFrame(Reassemble(frames), e)
<1>1. PICK f \in [ 0..Len(frames) -> View ] :
        IsFold(f, NothingYet, ViewStep, frames) /\ Reassemble(frames) = f[Len(frames)]
  BY ReassembleFolds
<1> DEFINE t == Append(frames, e)
<1>2. t \in Seq(Frame) /\ Len(t) = Len(frames) + 1 /\ Len(frames) \in Nat
  OBVIOUS
<1>3. PICK g \in [ 0..Len(t) -> View ] :
        IsFold(g, NothingYet, ViewStep, t) /\ Reassemble(t) = g[Len(t)]
  BY <1>2, ReassembleFolds
<1>4. g[Len(frames) + 1] = ViewStep[<< f[Len(frames)], e >>]
  <2>1. t[Len(frames) + 1] = e /\ \A i \in 1..Len(frames) : t[i] = frames[i]
    OBVIOUS
  <2>2. IsExtension(frames, t)
    BY <1>2, <2>1 DEF IsExtension
  <2> HIDE DEF t
  <2>3. IsNextStep(f, g, ViewStep, frames, t)
    BY <1>1, <1>3, <2>2, FoldAppend
  <2> QED
    BY <2>1, <2>3 DEF IsNextStep
<1>5. f[Len(frames)] \in View
  BY <1>1, <1>2
<1>6. ViewStep[<< f[Len(frames)], e >>] = AddFrame(f[Len(frames)], e)
  BY <1>5 DEF ViewStep
<1> QED
  BY <1>1, <1>2, <1>3, <1>4, <1>6

(* What no frame and what some frames amount to.                           *)
LEMMA ReassembleType ==
    /\ Reassemble(<< >>) = NothingYet
    /\ \A frames \in Seq(Frame) : Reassemble(frames) \in View
<1>1. ASSUME NEW frames \in Seq(Frame)
      PROVE  Reassemble(frames) \in View /\ (frames = << >> => Reassemble(frames) = NothingYet)
  <2>1. PICK f \in [ 0..Len(frames) -> View ] :
          IsFold(f, NothingYet, ViewStep, frames) /\ Reassemble(frames) = f[Len(frames)]
    BY ReassembleFolds
  <2>2. Len(frames) \in 0..Len(frames) /\ (frames = << >> => Len(frames) = 0)
    OBVIOUS
  <2> QED
    BY <2>1, <2>2 DEF IsFold
<1>2. << >> \in Seq(Frame)
  OBVIOUS
<1> QED
  BY <1>1, <1>2

Join(v, e) == v \o e

JoinStep(X) == [ p \in Seq(X) \X Seq(X) |-> Join(p[1], p[2]) ]

(* Flatten is a fold.                                                    *)
LEMMA FlattenFolds ==
    ASSUME NEW X, NEW s \in Seq(Seq(X))
    PROVE  \E f \in [ 0..Len(s) -> Seq(X) ] :
             IsFold(f, << >>, JoinStep(X), s) /\ Flatten(s) = f[Len(s)]
<1> DEFINE n == Len(s)
           Walk(f) == [ i \in 0..n |-> IF i = 0 THEN << >> ELSE Join(f[i - 1], s[i]) ]
           at == CHOOSE f : f = Walk(f)
           step == JoinStep(X)
           St == Seq(X)
           Tt == Seq(X)
<1>1. n \in Nat /\ \A i \in 1..n : s[i] \in Tt
  OBVIOUS
<1>2. step \in Steps(St, Tt) /\ << >> \in St
  BY DEF Steps, JoinStep, Join
<1>3. \A v \in St, e \in Tt : step[<< v, e >>] = Join(v, e)
  BY DEF JoinStep
<1> HIDE DEF step, St, Tt
<1>0. s \in Seq(Tt)
  BY DEF Tt
<1>4. PICK f \in [ 0..n -> St ] : IsFold(f, << >>, step, s)
  BY <1>0, <1>2, FoldExists
<1>5. ASSUME NEW i \in 1..n PROVE i - 1 \in 0..n /\ i \in 0..n /\ f[i] = Join(f[i - 1], s[i])
  <2>1. i - 1 \in 0..n /\ i \in 0..n /\ s[i] \in Tt
    BY <1>1
  <2>2. f[i] = step[<< f[i - 1], s[i] >>]
    BY <1>4 DEF IsFold
  <2> QED
    BY <1>3, <2>1, <2>2
<1>6. f = Walk(f)
  <2>1. \A i \in 0..n : f[i] = Walk(f)[i]
    BY <1>1, <1>4, <1>5 DEF IsFold
  <2> QED
    BY <2>1
<1>7. at = Walk(at)
  BY <1>6, Zenon
<1>8. Flatten(s) = at[n]
  BY Zenon DEF Flatten, Join
<1> HIDE DEF at
<1>9. \A i \in 0..n : at[i] = f[i]
  <2> DEFINE Same == { i \in 0..n : at[i] = f[i] }
  <2>1. 0 \in Same
    BY <1>1, <1>4, <1>7 DEF IsFold
  <2>2. ASSUME NEW i \in 1..n, i - 1 \in Same PROVE i \in Same
    <3>1. at[i - 1] = f[i - 1]
      BY <2>2
    <3>2. at[i] = Join(at[i - 1], s[i])
      <4>1. i \in 0..n /\ i # 0
        BY <1>1
      <4>2. Walk(at)[i] = Join(at[i - 1], s[i])
        BY <4>1
      <4> HIDE DEF Walk
      <4> QED
        BY <1>7, <4>2
    <3>3. i \in 0..n /\ f[i] = Join(f[i - 1], s[i])
      BY <1>5
    <3> QED
      BY <3>1, <3>2, <3>3
  <2>3. \A i \in 0..n : i \in Same
    <3> HIDE DEF Same
    <3> QED
      BY <1>1, <2>1, <2>2, InductionUpTo
  <2> QED
    BY <2>3
<1> QED
  BY <1>1, <1>4, <1>8, <1>9 DEF step, St

(* No element, and one element more.                                     *)
LEMMA FlattenAppend ==
    ASSUME NEW X, NEW s \in Seq(Seq(X)), NEW e \in Seq(X)
    PROVE  /\ Flatten(s) \in Seq(X)
           /\ s = << >> => Flatten(s) = << >>
           /\ Flatten(Append(s, e)) = Join(Flatten(s), e)
<1> DEFINE t == Append(s, e)
           step == JoinStep(X)
<1>1. PICK f \in [ 0..Len(s) -> Seq(X) ] : IsFold(f, << >>, step, s) /\ Flatten(s) = f[Len(s)]
  BY FlattenFolds
<1>2. /\ t \in Seq(Seq(X)) /\ Len(t) = Len(s) + 1 /\ Len(s) \in Nat
      /\ t[Len(s) + 1] = e /\ \A i \in 1..Len(s) : t[i] = s[i]
  OBVIOUS
<1> HIDE DEF t
<1>3. PICK g \in [ 0..Len(t) -> Seq(X) ] : IsFold(g, << >>, step, t) /\ Flatten(t) = g[Len(t)]
  BY <1>2, FlattenFolds
<1>4. f[Len(s)] \in Seq(X) /\ (s = << >> => f[Len(s)] = << >>)
  BY <1>1, <1>2 DEF IsFold
<1>5. step[<< f[Len(s)], e >>] = Join(f[Len(s)], e)
  BY <1>4 DEF JoinStep
<1> HIDE DEF step
<1>6. IsNextStep(f, g, step, s, t)
  <2>1. IsExtension(s, t)
    BY <1>2 DEF IsExtension
  <2> QED
    BY <1>1, <1>3, <2>1, FoldAppend
<1>7. g[Len(t)] = Join(f[Len(s)], e)
  BY <1>2, <1>5, <1>6 DEF IsNextStep
<1>8. Flatten(t) = Join(Flatten(s), e)
  BY <1>1, <1>3, <1>7
<1> QED
  BY <1>1, <1>4, <1>8 DEF t

Pick(v, e, op) == IF e.opcode = op THEN Append(v, e) ELSE v

PickStep(M, op) == [ p \in Seq(M) \X M |-> Pick(p[1], p[2], op) ]

(* OfOpcode is a fold.                                                   *)
LEMMA OfOpcodeFolds ==
    ASSUME NEW M, NEW op, NEW s \in Seq(M)
    PROVE  \E f \in [ 0..Len(s) -> Seq(M) ] :
             IsFold(f, << >>, PickStep(M, op), s) /\ OfOpcode(s, op) = f[Len(s)]
<1> DEFINE n == Len(s)
           Walk(f) == [ i \in 0..n |-> IF i = 0 THEN << >> ELSE Pick(f[i - 1], s[i], op) ]
           at == CHOOSE f : f = Walk(f)
           step == PickStep(M, op)
           St == Seq(M)
           Tt == M
<1>1. n \in Nat /\ \A i \in 1..n : s[i] \in Tt
  OBVIOUS
<1>2. step \in Steps(St, Tt) /\ << >> \in St
  BY DEF Steps, PickStep, Pick
<1>3. \A v \in St, e \in Tt : step[<< v, e >>] = (Pick(v, e, op))
  BY DEF PickStep
<1> HIDE DEF step, St, Tt
<1>0. s \in Seq(Tt)
  BY DEF Tt
<1>4. PICK f \in [ 0..n -> St ] : IsFold(f, << >>, step, s)
  BY <1>0, <1>2, FoldExists
<1>5. ASSUME NEW i \in 1..n PROVE i - 1 \in 0..n /\ i \in 0..n /\ f[i] = Pick(f[i - 1], s[i], op)
  <2>1. i - 1 \in 0..n /\ i \in 0..n /\ s[i] \in Tt
    BY <1>1
  <2>2. f[i] = step[<< f[i - 1], s[i] >>]
    BY <1>4 DEF IsFold
  <2> QED
    BY <1>3, <2>1, <2>2
<1>6. f = Walk(f)
  <2>1. \A i \in 0..n : f[i] = Walk(f)[i]
    BY <1>1, <1>4, <1>5 DEF IsFold
  <2> QED
    BY <2>1
<1>7. at = Walk(at)
  BY <1>6, Zenon
<1>8. OfOpcode(s, op) = at[n]
  BY Zenon DEF OfOpcode, Pick
<1> HIDE DEF at
<1>9. \A i \in 0..n : at[i] = f[i]
  <2> DEFINE Same == { i \in 0..n : at[i] = f[i] }
  <2>1. 0 \in Same
    BY <1>1, <1>4, <1>7 DEF IsFold
  <2>2. ASSUME NEW i \in 1..n, i - 1 \in Same PROVE i \in Same
    <3>1. at[i - 1] = f[i - 1]
      BY <2>2
    <3>2. at[i] = (Pick(at[i - 1], s[i], op))
      BY <1>1, <1>7
    <3>3. i \in 0..n /\ f[i] = Pick(f[i - 1], s[i], op)
      BY <1>5
    <3> QED
      BY <3>1, <3>2, <3>3
  <2>3. \A i \in 0..n : i \in Same
    <3> HIDE DEF Same
    <3> QED
      BY <1>1, <2>1, <2>2, InductionUpTo
  <2> QED
    BY <2>3
<1> QED
  BY <1>1, <1>4, <1>8, <1>9 DEF step, St

(* No element, and one element more.                                     *)
LEMMA OfOpcodeAppend ==
    ASSUME NEW M, NEW op, NEW s \in Seq(M), NEW e \in M
    PROVE  /\ OfOpcode(s, op) \in Seq(M)
           /\ s = << >> => OfOpcode(s, op) = << >>
           /\ OfOpcode(Append(s, e), op) = (Pick(OfOpcode(s, op), e, op))
<1> DEFINE t == Append(s, e)
           step == PickStep(M, op)
<1>1. PICK f \in [ 0..Len(s) -> Seq(M) ] : IsFold(f, << >>, step, s) /\ OfOpcode(s, op) = f[Len(s)]
  BY OfOpcodeFolds
<1>2. /\ t \in Seq(M) /\ Len(t) = Len(s) + 1 /\ Len(s) \in Nat
      /\ t[Len(s) + 1] = e /\ \A i \in 1..Len(s) : t[i] = s[i]
  OBVIOUS
<1> HIDE DEF t
<1>3. PICK g \in [ 0..Len(t) -> Seq(M) ] : IsFold(g, << >>, step, t) /\ OfOpcode(t, op) = g[Len(t)]
  BY <1>2, OfOpcodeFolds
<1>4. f[Len(s)] \in Seq(M) /\ (s = << >> => f[Len(s)] = << >>)
  BY <1>1, <1>2 DEF IsFold
<1>5. step[<< f[Len(s)], e >>] = (Pick(f[Len(s)], e, op))
  BY <1>4 DEF PickStep
<1> HIDE DEF step
<1>6. IsNextStep(f, g, step, s, t)
  <2>1. IsExtension(s, t)
    BY <1>2 DEF IsExtension
  <2> QED
    BY <1>1, <1>3, <2>1, FoldAppend
<1>7. g[Len(t)] = (Pick(f[Len(s)], e, op))
  BY <1>2, <1>5, <1>6 DEF IsNextStep
<1>8. OfOpcode(t, op) = (Pick(OfOpcode(s, op), e, op))
  BY <1>1, <1>3, <1>7
<1> QED
  BY <1>1, <1>4, <1>8 DEF t

-----------------------------------------------------------------------------
(* Buffers *)

Cell == {Uninit} \cup Byte

(* A sequence is all but its last element, and that one.                   *)
LEMMA FrontAndLast ==
    ASSUME NEW S, NEW s \in Seq(S), s # << >>
    PROVE  LET front == SubSeq(s, 1, Len(s) - 1)
           IN  /\ front \in Seq(S) /\ Len(front) = Len(s) - 1
               /\ Len(s) \in Nat /\ Len(s) > 0 /\ s[Len(s)] \in S
               /\ s = Append(front, s[Len(s)])
<1> DEFINE n == Len(s)
           front == SubSeq(s, 1, n - 1)
           t == Append(front, s[n])
<1>1. n \in Nat /\ n > 0 /\ s[n] \in S /\ \A i \in 1..n : s[i] \in S
  OBVIOUS
<1>2. front \in Seq(S) /\ Len(front) = n - 1 /\ \A i \in 1..(n - 1) : front[i] = s[i]
  <2>1. \A i \in 1..(n - 1) : s[i] \in S
    BY <1>1
  <2>2. 1 \in Int /\ n - 1 \in Int
    BY <1>1
  <2>3. /\ front \in Seq(S) /\ Len(front) = IF 1 <= n - 1 THEN (n - 1) - 1 + 1 ELSE 0
        /\ \A i \in 1..((n - 1) - 1 + 1) : front[i] = s[1 + i - 1]
    BY <2>1, <2>2, SubSeqProperties
  <2> HIDE DEF front, n
  <2> QED
    BY <1>1, <2>3
<1> HIDE DEF n, front
<1>3. t \in Seq(S) /\ Len(t) = n /\ t[n] = s[n] /\ \A i \in 1..(n - 1) : t[i] = s[i]
  BY <1>1, <1>2
<1> HIDE DEF t
<1>4. \A i \in 1..n : t[i] = s[i]
  BY <1>1, <1>3
<1>5. s = t
  BY <1>3, <1>4, SeqEqual DEF n
<1> QED
  BY <1>1, <1>2, <1>5 DEF n, front, t

(* The last chunk by itself, and another one in its place.                 *)
LEMMA FlattenLast ==
    ASSUME NEW c \in Seq(Seq(Cell)), c # << >>, NEW e \in Seq(Cell)
    PROVE  LET front == SubSeq(c, 1, Len(c) - 1)
               d == [ c EXCEPT ![Len(c)] = e ]
           IN  /\ front \in Seq(Seq(Cell))
               /\ d \in Seq(Seq(Cell)) /\ d # << >> /\ d[Len(d)] = e
               /\ c[Len(c)] \in Seq(Cell)
               /\ Flatten(front) \in Seq(Cell)
               /\ Flatten(c) = Flatten(front) \o c[Len(c)]
               /\ Flatten(d) = Flatten(front) \o e
<1> DEFINE n == Len(c)
           S == Seq(Cell)
           front == SubSeq(c, 1, n - 1)
           d == [ c EXCEPT ![n] = e ]
<1>1. c \in Seq(S) /\ e \in S
  OBVIOUS
<1> HIDE DEF S
<1>2. /\ n \in Nat /\ n > 0 /\ c[n] \in S
      /\ front \in Seq(S) /\ Len(front) = n - 1 /\ c = Append(front, c[n])
  BY <1>1, FrontAndLast
<1>3. \A i \in 1..(n - 1) : front[i] = c[i]
  <2> HIDE DEF front
  <2>1. \A i \in 1..(n - 1) : Append(front, c[n])[i] = front[i]
    BY <1>2
  <2> QED
    BY <1>2, <2>1
<1>4. /\ d \in Seq(S) /\ Len(d) = n /\ d[n] = e
      /\ \A i \in 1..(n - 1) : d[i] = c[i]
  <2>1. n \in 1..Len(c) /\ Len(c) = n
    BY <1>2
  <2>2. /\ d \in Seq(S) /\ Len(d) = Len(c)
        /\ \A j \in 1..Len(c) : d[j] = IF j = n THEN e ELSE c[j]
    BY <1>1, <2>1, ExceptSeq
  <2> HIDE DEF d, n
  <2> QED
    BY <1>2, <2>1, <2>2
<1> HIDE DEF front, d
<1>6. d = Append(front, e)
  <2> DEFINE t == Append(front, e)
  <2>1. t \in Seq(S) /\ Len(t) = n /\ t[n] = e /\ \A i \in 1..(n - 1) : t[i] = front[i]
    BY <1>1, <1>2
  <2> HIDE DEF t, n
  <2>2. \A i \in 1..n : t[i] = d[i]
    BY <1>2, <1>3, <1>4, <2>1
  <2>3. t = d
    BY <1>4, <2>1, <2>2, SeqEqual
  <2> QED
    BY <2>3 DEF t
<1>7. d # << >>
  BY <1>2, <1>4
<1>8. /\ Flatten(front) \in Seq(Cell)
      /\ Flatten(Append(front, c[n])) = Join(Flatten(front), c[n])
      /\ Flatten(Append(front, e)) = Join(Flatten(front), e)
  BY <1>1, <1>2, FlattenAppend DEF S
<1>9. Flatten(c) = Flatten(front) \o c[n] /\ Flatten(d) = Flatten(front) \o e
  BY <1>2, <1>6, <1>8 DEF Join
<1>10. /\ front \in Seq(S) /\ d \in Seq(S) /\ d # << >> /\ d[Len(d)] = e /\ c[n] \in S
       /\ Flatten(front) \in S /\ Flatten(c) = Flatten(front) \o c[n]
       /\ Flatten(d) = Flatten(front) \o e
  BY <1>2, <1>4, <1>7, <1>8, <1>9 DEF S
<1> QED
  BY ONLY <1>10, Zenon DEF front, d, S, n

(* memcpy within a chunk.                                                  *)
LEMMA CopyIntoChunk ==
    ASSUME NEW c \in Seq(Cell), NEW data \in Seq(Byte), NEW off \in Nat,
           off + Len(data) <= Len(c)
    PROVE  LET d == CopyInto(c, off, data)
           IN  /\ d \in Seq(Cell) /\ Len(d) = Len(c)
               /\ \A i \in 1..off : d[i] = c[i]
               /\ \A i \in 1..Len(data) : d[off + i] = data[i]
<1> DEFINE d == CopyInto(c, off, data)
           n == Len(c)
           k == Len(data)
<1>1. n \in Nat /\ k \in Nat /\ (\A i \in 1..n : c[i] \in Cell) /\ \A i \in 1..k : data[i] \in Cell
  BY DEF Cell
<1>2. d = [ i \in 1..n |-> IF i \in (off + 1)..(off + k) THEN data[i - off] ELSE c[i] ]
  BY DEF CopyInto
<1> HIDE DEF d, n, k
<1>3. ASSUME NEW i \in 1..n PROVE d[i] \in Cell
  <2>1. CASE i \in (off + 1)..(off + k)
    <3>1. i - off \in 1..k
      BY <1>1, <2>1
    <3> QED
      BY <1>1, <1>2, <2>1, <3>1
  <2>2. CASE i \notin (off + 1)..(off + k)
    BY <1>1, <1>2, <2>2
  <2> QED
    BY <2>1, <2>2
<1>4. d \in [ 1..n -> Cell ]
  BY <1>2, <1>3
<1>5. d \in Seq(Cell) /\ Len(d) = n
  BY <1>1, <1>4, SMTT(40)
<1>6. ASSUME NEW i \in 1..off PROVE d[i] = c[i]
  <2>1. i \in 1..n /\ i \notin (off + 1)..(off + k)
    BY <1>1 DEF n, k
  <2> QED
    BY <1>2, <2>1
<1>7. ASSUME NEW i \in 1..k PROVE d[off + i] = data[i]
  <2>1. off + i \in 1..n /\ off + i \in (off + 1)..(off + k) /\ (off + i) - off = i
    BY <1>1 DEF n, k
  <2> QED
    BY <1>2, <2>1
<1> QED
  BY <1>5, <1>6, <1>7 DEF d, n, k

(* The concatenation of two sequences, element by element.                 *)
LEMMA ConcatElements ==
    ASSUME NEW S, NEW a \in Seq(S), NEW b \in Seq(S)
    PROVE  /\ a \o b \in Seq(S)
           /\ Len(a) \in Nat /\ Len(b) \in Nat /\ Len(a \o b) = Len(a) + Len(b)
           /\ \A i \in 1..Len(a) : (a \o b)[i] = a[i]
           /\ \A i \in 1..Len(b) : (a \o b)[Len(a) + i] = b[i]
  OBVIOUS

-----------------------------------------------------------------------------
(* The stages of an iteration, one by one *)

(* Every message in a slot keeps to the limit.                             *)
Bounded(x) ==
    \A i \in 0..1 : x.imsgs[i].opcode # NoOpcode => x.imsgs[i].msg_length <= max_recv_msg_length

(* The opcodes with the control bit.                                       *)
LEMMA CtrlBits ==
    /\ wslay_is_ctrl_frame(WSLAY_CONNECTION_CLOSE) /\ wslay_is_ctrl_frame(WSLAY_PING)
    /\ wslay_is_ctrl_frame(WSLAY_PONG) /\ ~wslay_is_ctrl_frame(WSLAY_CONTINUATION_FRAME)
    /\ ~wslay_is_ctrl_frame(WSLAY_TEXT_FRAME) /\ ~wslay_is_ctrl_frame(WSLAY_BINARY_FRAME)
  BY DEF wslay_is_ctrl_frame, WSLAY_CONNECTION_CLOSE, WSLAY_PING, WSLAY_PONG,
         WSLAY_CONTINUATION_FRAME, WSLAY_TEXT_FRAME, WSLAY_BINARY_FRAME

(* Slots hold what slots may hold.                                         *)
LEMMA ImsgFields ==
    ASSUME NEW m \in Imsg
    PROVE  /\ m.fin \in BOOLEAN /\ m.opcode \in 0..255 /\ m.utf8state \in Utf8States
           /\ m.chunks \in Seq(Seq(Cell)) /\ m.msg_length \in Nat
  BY DEF Imsg, Cell

(* Writing a slot, and the other receiving fields with it.                 *)
LEMMA SlotWrite ==
    ASSUME NEW x \in Rx, NEW i \in 0..1, NEW m \in Imsg
    PROVE  LET y == [ x EXCEPT !.imsgs[i] = m ]
           IN  /\ y \in Rx /\ y.imsgs[i] = m
               /\ \A j \in 0..1 : j # i => y.imsgs[j] = x.imsgs[j]
               /\ y.imsg = x.imsg /\ y.ipayloadlen = x.ipayloadlen
               /\ y.ipayloadoff = x.ipayloadoff /\ y.starts = x.starts /\ y.ends = x.ends
<1> DEFINE ms == [ x.imsgs EXCEPT ![i] = m ]
           y == [ x EXCEPT !.imsgs[i] = m ]
<1>1. ms \in [ 0..1 -> Imsg ] /\ ms[i] = m /\ \A j \in 0..1 : j # i => ms[j] = x.imsgs[j]
  BY DEF Rx
<1>2. y = [ x EXCEPT !.imsgs = ms ]
  OBVIOUS
<1> HIDE DEF ms, y
<1>3. y \in Rx
  BY <1>1, <1>2 DEF Rx
<1>4. /\ y.imsgs = ms /\ y.imsg = x.imsg /\ y.ipayloadlen = x.ipayloadlen
      /\ y.ipayloadoff = x.ipayloadoff /\ y.starts = x.starts /\ y.ends = x.ends
  BY <1>2 DEF Rx
<1> QED
  BY <1>1, <1>3, <1>4 DEF y

(* The payload of a frame as frames are cut.                               *)
IocbOf(iocb, f) ==
    /\ iocb.fin = f.fin /\ iocb.opcode = f.opcode
    /\ iocb.payload_length = Len(f.payload)

(* A slot m set to receive the frame f.                                    *)
SetTo(n, m, f) ==
    /\ n \in Imsg /\ n.opcode = f.opcode /\ n.fin = f.fin
    /\ n.chunks = m.chunks /\ n.msg_length = 0 /\ n.utf8state = m.utf8state

(* wslay_event_imsg_set.                                                   *)
LEMMA SlotSet ==
    ASSUME NEW m \in Imsg, NEW f \in Frame, NEW iocb, IocbOf(iocb, f)
    PROVE  SetTo(imsg_set(m, iocb), m, f)
<1> DEFINE C == Seq(Seq({Uninit} \cup Byte))
           n == imsg_set(m, iocb)
<1>1. f.fin \in BOOLEAN /\ f.opcode \in 0..255 /\ iocb.fin = f.fin /\ iocb.opcode = f.opcode
  BY DEF Frame, IocbOf
<1>2. n = [ m EXCEPT !.fin = f.fin, !.opcode = f.opcode, !.msg_length = 0 ]
  BY <1>1 DEF imsg_set
<1>3. m \in [ fin : BOOLEAN, opcode : 0..255, utf8state : Utf8States, chunks : C,
              msg_length : Nat, freed : BOOLEAN ]
  BY DEF Imsg
<1> HIDE DEF C, n
<1>4. /\ n \in [ fin : BOOLEAN, opcode : 0..255, utf8state : Utf8States, chunks : C,
                msg_length : Nat, freed : BOOLEAN ]
      /\ n.opcode = f.opcode /\ n.fin = f.fin /\ n.chunks = m.chunks /\ n.msg_length = 0
      /\ n.utf8state = m.utf8state
  BY <1>1, <1>2, <1>3
<1> QED
  BY <1>4 DEF C, Imsg, SetTo, n

(* The fin bit of a continuation.                                          *)
LEMMA SlotFin ==
    ASSUME NEW m \in Imsg, NEW fin \in BOOLEAN
    PROVE  LET n == [ m EXCEPT !.fin = fin ]
           IN  /\ n \in Imsg /\ n.opcode = m.opcode /\ n.fin = fin
               /\ n.chunks = m.chunks /\ n.msg_length = m.msg_length
               /\ n.utf8state = m.utf8state
  BY DEF Imsg

(* Before the first byte of a text.                                        *)
LEMMA NothingDecoded ==
    /\ DecodeAll(UTF8_ACCEPT, << >>) = UTF8_ACCEPT
    /\ UTF8_ACCEPT \in Utf8States /\ UTF8_ACCEPT # UTF8_REJECT
<1>1. UTF8_ACCEPT \in Utf8States /\ UTF8_ACCEPT # UTF8_REJECT
  BY DEF UTF8_ACCEPT, UTF8_REJECT, Utf8States
<1> DEFINE e == << >>
<1>2. e \in Seq(Octet) /\ Len(e) = 0
  OBVIOUS
<1> HIDE DEF e
<1>3. PICK g \in [ 0..Len(e) -> Utf8States ] :
        /\ g[0] = UTF8_ACCEPT
        /\ \A i \in 1..Len(e) : g[i] = Run(g[i - 1], e[i])
        /\ DecodeAll(UTF8_ACCEPT, e) = g[Len(e)]
  BY <1>1, <1>2, DecodeAllRuns
<1>4. DecodeAll(UTF8_ACCEPT, e) = UTF8_ACCEPT
  BY <1>2, <1>3
<1> QED
  BY <1>1, <1>4 DEF e

(* Where a frame that fits is received (event.c 317-350).                  *)
LEMMA OpenEffect ==
    ASSUME NEW x \in Rx, NEW v \in View, ViewSound(v), Ready(x, v), Bounded(x),
           NEW f \in Frame, Fits(f, v), NEW iocb, IocbOf(iocb, f)
    PROVE  LET y == Open(x, iocb)
           IN  /\ y \in Rx /\ Opened(y, v, f) /\ Bounded(y)
               /\ y.starts = x.starts /\ y.ends = x.ends
<1> DEFINE y == Open(x, iocb)
           m0 == x.imsgs[0]
           m1 == x.imsgs[1]
<1>1. m0 \in Imsg /\ m1 \in Imsg /\ x.imsg = 0 /\ Msg(x) = m0 /\ AtFrameStart(x) /\ IdleSlot(m1)
  BY DEF Rx, Ready, Msg
<1>2. Flatten(<< >>) = << >> /\ Len(<< >>) = 0
  <2>1. << >> \in Seq(Seq(Cell)) /\ << >> \in Seq(Cell)
    OBVIOUS
  <2> QED
    BY <2>1, FlattenAppend
<1>3. max_recv_msg_length \in Nat
  BY EventRecvAssumption
<1>4. CASE v.opcode = NoOpcode
  <2> DEFINE m == imsg_set(m0, iocb)
  <2>1. IdleSlot(m0)
    BY <1>4 DEF Ready
  <2>2. y = [ x EXCEPT !.imsgs[0] = m ]
    BY <1>1, <2>1 DEF Open, IdleSlot
  <2>3. /\ m \in Imsg /\ m.opcode = f.opcode /\ m.fin = f.fin /\ m.chunks = << >>
        /\ m.msg_length = 0 /\ m.utf8state = UTF8_ACCEPT
    <3>1. /\ m \in Imsg /\ m.opcode = f.opcode /\ m.fin = f.fin /\ m.chunks = m0.chunks
          /\ m.msg_length = 0 /\ m.utf8state = m0.utf8state
      BY <1>1, SlotSet DEF SetTo
    <3> QED
      BY <2>1, <3>1 DEF IdleSlot
  <2> HIDE DEF m
  <2>4. /\ y \in Rx /\ y.imsgs[0] = m /\ y.imsgs[1] = m1
        /\ y.imsg = 0 /\ y.ipayloadlen = x.ipayloadlen /\ y.ipayloadoff = x.ipayloadoff
        /\ y.starts = x.starts /\ y.ends = x.ends
    BY <1>1, <2>2, <2>3, SlotWrite
  <2> HIDE DEF y
  <2>5. OpcodeOf(f, v) = f.opcode /\ Before(f, v) = << >>
    BY <1>4 DEF Fits, OpcodeOf, Before, KnownCtrl, WSLAY_CONNECTION_CLOSE, WSLAY_PING,
                WSLAY_PONG, WSLAY_CONTINUATION_FRAME, WSLAY_TEXT_FRAME, WSLAY_BINARY_FRAME
  <2>6. Holds(m, << >>) /\ InText(m, << >>)
    <3>1. Holds(m, << >>)
      BY <1>2, <2>3 DEF Holds
    <3>2. InText(m, << >>)
      BY <2>3, NothingDecoded DEF InText
    <3> QED
      BY <3>1, <3>2
  <2>7. Opened(y, v, f)
    BY <1>1, <1>4, <2>3, <2>4, <2>5, <2>6 DEF Opened, AtFrameStart, InSlot, Msg
  <2>8. Bounded(y)
    BY <1>1, <1>3, <2>3, <2>4 DEF Bounded, IdleSlot
  <2> QED
    BY <2>4, <2>7, <2>8 DEF y
<1>5. CASE v.opcode # NoOpcode
  <2>1. DataSlot(m0, v) /\ m0.opcode # NoOpcode
    BY <1>5 DEF Ready, DataSlot
  <2>2. CASE f.opcode = WSLAY_CONTINUATION_FRAME
    <3> DEFINE m == [ m0 EXCEPT !.fin = iocb.fin ]
    <3>1. iocb.opcode = WSLAY_CONTINUATION_FRAME
      BY <2>2 DEF IocbOf
    <3>2. y = [ x EXCEPT !.imsgs[0].fin = iocb.fin ]
      BY <1>1, <2>1, <3>1 DEF Open
    <3>3. y = [ x EXCEPT !.imsgs[0] = m ]
      BY <3>2 DEF Rx
    <3>4. /\ m \in Imsg /\ m.opcode = m0.opcode /\ m.fin = f.fin /\ m.chunks = m0.chunks
          /\ m.msg_length = m0.msg_length /\ m.utf8state = m0.utf8state
      <4>1. iocb.fin = f.fin /\ f.fin \in BOOLEAN
        BY DEF IocbOf, Frame
      <4> QED
        BY <1>1, <4>1, SlotFin
    <3> HIDE DEF m
    <3>5. /\ y \in Rx /\ y.imsgs[0] = m /\ y.imsgs[1] = m1
          /\ y.imsg = 0 /\ y.ipayloadlen = x.ipayloadlen /\ y.ipayloadoff = x.ipayloadoff
          /\ y.starts = x.starts /\ y.ends = x.ends
      BY <1>1, <3>3, <3>4, SlotWrite
    <3> HIDE DEF y
    <3>6. OpcodeOf(f, v) = v.opcode /\ Before(f, v) = v.data /\ ~IsCtrl(f)
      BY <2>2, CtrlBits DEF OpcodeOf, Before, IsCtrl
    <3>7. Holds(m, v.data) /\ m.opcode = v.opcode /\ InText(m, v.data)
      BY <2>1, <3>4 DEF DataSlot, Holds, InText
    <3>8. Opened(y, v, f)
      BY <1>1, <3>4, <3>5, <3>6, <3>7 DEF Opened, AtFrameStart, InSlot, Msg
    <3>9. Bounded(y)
      BY <1>1, <3>4, <3>5 DEF Bounded, IdleSlot
    <3> QED
      BY <3>5, <3>8, <3>9 DEF y
  <2>3. CASE f.opcode # WSLAY_CONTINUATION_FRAME
    <3> DEFINE m == imsg_set(m1, iocb)
               z == [ x EXCEPT !.imsgs[1] = m ]
    <3>1. f.opcode \in KnownCtrl /\ iocb.opcode = f.opcode
      BY <1>5, <2>3 DEF Fits, IocbOf
    <3>2. y = [ x EXCEPT !.imsg = 1, !.imsgs[1] = m ]
      BY <1>1, <2>1, <2>3, <3>1 DEF Open
    <3>3. y = [ z EXCEPT !.imsg = 1 ]
      BY <3>2 DEF Rx
    <3>4. /\ m \in Imsg /\ m.opcode = f.opcode /\ m.fin = f.fin /\ m.chunks = << >>
          /\ m.msg_length = 0 /\ m.utf8state = UTF8_ACCEPT
      <4>1. /\ m \in Imsg /\ m.opcode = f.opcode /\ m.fin = f.fin /\ m.chunks = m1.chunks
            /\ m.msg_length = 0 /\ m.utf8state = m1.utf8state
        BY <1>1, SlotSet DEF SetTo
      <4> QED
        BY <1>1, <4>1 DEF IdleSlot
    <3> HIDE DEF m
    <3>5. /\ z \in Rx /\ z.imsgs[1] = m /\ z.imsgs[0] = m0
          /\ z.ipayloadlen = x.ipayloadlen /\ z.ipayloadoff = x.ipayloadoff
          /\ z.starts = x.starts /\ z.ends = x.ends
      BY <1>1, <3>4, SlotWrite
    <3> HIDE DEF z, y
    <3>6. /\ y \in Rx /\ y.imsgs = z.imsgs /\ y.imsg = 1 /\ y.ipayloadlen = z.ipayloadlen
          /\ y.ipayloadoff = z.ipayloadoff /\ y.starts = z.starts /\ y.ends = z.ends
      BY <3>3, <3>5 DEF Rx
    <3>7. OpcodeOf(f, v) = f.opcode /\ Before(f, v) = << >> /\ IsCtrl(f)
      BY <2>3, <3>1, CtrlBits DEF OpcodeOf, Before, IsCtrl, KnownCtrl
    <3>8. Holds(m, << >>) /\ InText(m, << >>)
      <4>1. Holds(m, << >>)
        BY <1>2, <3>4 DEF Holds
      <4>2. InText(m, << >>)
        BY <3>4, <3>7, CtrlBits, NothingDecoded DEF InText, IsCtrl
      <4> QED
        BY <4>1, <4>2
    <3>9. Opened(y, v, f)
      BY <1>1, <1>5, <2>1, <3>4, <3>5, <3>6, <3>7, <3>8 DEF Opened, AtFrameStart, InSlot, Msg
    <3>10. Bounded(y)
      BY <1>1, <1>3, <3>4, <3>5, <3>6 DEF Bounded
    <3> QED
      BY <3>5, <3>6, <3>9, <3>10 DEF y
  <2> QED
    BY <2>2, <2>3
<1> QED
  BY <1>4, <1>5

(* Only the current slot is written.                                       *)
Wrote(y, x, m) ==
    /\ y \in Rx /\ y.imsg = x.imsg /\ y.imsgs[x.imsg] = m
    /\ \A j \in 0..1 : j # x.imsg => y.imsgs[j] = x.imsgs[j]

(* Writing the current slot.                                               *)
LEMMA CurrentSlotWrite ==
    ASSUME NEW x \in Rx, NEW m \in Imsg
    PROVE  LET y == [ x EXCEPT !.imsgs[x.imsg] = m ]
           IN  /\ Wrote(y, x, m)
               /\ y.ipayloadlen = x.ipayloadlen /\ y.ipayloadoff = x.ipayloadoff
               /\ y.starts = x.starts /\ y.ends = x.ends
<1>1. x.imsg \in 0..1
  BY DEF Rx
<1> QED
  BY <1>1, SlotWrite DEF Wrote

(* The slot that waits is not touched.                                     *)
LEMMA InSlotKept ==
    ASSUME NEW x \in Rx, NEW y, NEW m, Wrote(y, x, m), NEW v, NEW f, InSlot(x, v, f)
    PROVE  InSlot(y, v, f) /\ Msg(y) = m
<1>1. x.imsg \in 0..1
  BY DEF Rx
<1>2. Msg(y) = m
  BY DEF Wrote, Msg
<1>3. CASE IsCtrl(f) /\ v.opcode # NoOpcode
  BY <1>2, <1>3 DEF Wrote, InSlot
<1>4. CASE ~(IsCtrl(f) /\ v.opcode # NoOpcode)
  BY <1>2, <1>4 DEF Wrote, InSlot
<1> QED
  BY <1>3, <1>4

(* Whether a frame is buffered is decided by its message.                  *)
LEMMA BufferedAsMessage ==
    ASSUME NEW v \in View, ViewSound(v), NEW f \in Frame, Fits(f, v),
           NEW iocb, IocbOf(iocb, f)
    PROVE  IsBuffered(iocb) <=> Buffers(OpcodeOf(f, v))
<1>1. iocb.opcode = f.opcode
  BY DEF IocbOf
<1>2. CASE f.opcode = WSLAY_CONTINUATION_FRAME
  <2>1. v.opcode \in {WSLAY_TEXT_FRAME, WSLAY_BINARY_FRAME}
    BY <1>2 DEF Fits, ViewSound, KnownCtrl, WSLAY_CONNECTION_CLOSE, WSLAY_PING,
                WSLAY_PONG, WSLAY_CONTINUATION_FRAME, WSLAY_TEXT_FRAME, WSLAY_BINARY_FRAME
  <2> QED
    BY <1>1, <1>2, <2>1, CtrlBits DEF IsBuffered, Buffers, OpcodeOf
<1>3. CASE f.opcode # WSLAY_CONTINUATION_FRAME
  BY <1>1, <1>3 DEF IsBuffered, Buffers, OpcodeOf
<1> QED
  BY <1>2, <1>3

(* A slot with a chunk of len bytes more.                                  *)
Extended(n, m, len) ==
    /\ n \in Imsg /\ n.opcode = m.opcode /\ n.fin = m.fin
    /\ n.msg_length = m.msg_length + len /\ n.utf8state = m.utf8state
    /\ len = 0 => n.chunks = m.chunks
    /\ len # 0 => \E e \in Seq(Cell) : Len(e) = len /\ n.chunks = Append(m.chunks, e)

(* wslay_event_imsg_append_chunk.                                          *)
LEMMA AppendChunkEffect ==
    ASSUME NEW m \in Imsg, NEW len \in Nat
    PROVE  Extended(AppendChunk(m, len), m, len)
<1> DEFINE C == Seq(Seq({Uninit} \cup Byte))
           n == AppendChunk(m, len)
           e == [ i \in 1..len |-> Uninit ]
           c == Append(m.chunks, e)
           l == m.msg_length + len
<1>1. m.msg_length \in Nat /\ m.chunks \in Seq(Seq(Cell))
  BY ImsgFields
<1>2. CASE len = 0
  <2>1. n = m
    BY <1>2 DEF AppendChunk
  <2> QED
    BY <1>1, <1>2, <2>1 DEF Extended
<1>3. CASE len # 0
  <2>1. n = [ m EXCEPT !.chunks = c, !.msg_length = l ]
    BY <1>3 DEF AppendChunk
  <2>2. e \in Seq(Cell) /\ Len(e) = len
    <3>1. e \in [ 1..len -> Cell ]
      BY DEF Cell
    <3> HIDE DEF e
    <3> QED
      BY <3>1
  <2> HIDE DEF e
  <2>3. c \in C /\ l \in Nat
    <3>1. c \in Seq(Seq(Cell))
      BY <1>1, <2>2
    <3> QED
      BY <1>1, <3>1 DEF Cell
  <2>4. m \in [ fin : BOOLEAN, opcode : 0..255, utf8state : Utf8States, chunks : C,
                msg_length : Nat, freed : BOOLEAN ]
    BY DEF Imsg
  <2> HIDE DEF C, c, l, n
  <2>5. /\ n \in [ fin : BOOLEAN, opcode : 0..255, utf8state : Utf8States, chunks : C,
                  msg_length : Nat, freed : BOOLEAN ]
        /\ n.opcode = m.opcode /\ n.fin = m.fin /\ n.chunks = c /\ n.msg_length = l
        /\ n.utf8state = m.utf8state
    BY <2>1, <2>3, <2>4
  <2>6. n \in Imsg
    BY <2>5 DEF Imsg, C
  <2>7. \E d \in Seq(Cell) : Len(d) = len /\ n.chunks = Append(m.chunks, d)
    BY <2>2, <2>5 DEF c
  <2> QED
    BY <1>3, <2>5, <2>6, <2>7 DEF Extended, n, l
<1> QED
  BY <1>2, <1>3

(* Room for the payload after what the slot holds.                         *)
LEMMA RoomForPayload ==
    ASSUME NEW m \in Imsg, NEW before \in Seq(Byte), NEW payload \in Seq(Byte), NEW n,
           Holds(m, before), Buffers(m.opcode), Extended(n, m, Len(payload))
    PROVE  Filled(n, before, payload, 0)
<1> DEFINE len == Len(payload)
           flat == Flatten(n.chunks)
<1>1. len \in Nat /\ Len(before) \in Nat /\ m.chunks \in Seq(Seq(Cell)) /\ (payload = << >> <=> len = 0)
  BY ImsgFields
<1>2. Flatten(m.chunks) = before /\ m.msg_length = Len(before) /\ Buffers(n.opcode)
  BY DEF Holds, Extended
<1>3. n.msg_length = Len(before) + len
  BY <1>2 DEF Extended
<1>4. CASE len = 0
  BY <1>1, <1>2, <1>3, <1>4 DEF Filled, Extended
<1>5. CASE len # 0
  <2>1. PICK e \in Seq(Cell) : Len(e) = len /\ n.chunks = Append(m.chunks, e)
    BY <1>5 DEF Extended
  <2>2. flat = Join(before, e)
    BY <1>1, <1>2, <2>1, FlattenAppend
  <2>3. before \in Seq(Cell)
    BY DEF Cell
  <2>4. Len(flat) = Len(before) + len /\ \A i \in 1..Len(before) : flat[i] = before[i]
    <3>1. Len(before \o e) = Len(before) + Len(e) /\ \A i \in 1..Len(before) : (before \o e)[i] = before[i]
      BY <2>1, <2>3, ConcatElements
    <3>2. flat = before \o e
      BY <2>2 DEF Join
    <3> HIDE DEF flat
    <3> QED
      BY <2>1, <3>1, <3>2
  <2>5. n.chunks # << >> /\ n.chunks[Len(n.chunks)] = e
    <3> DEFINE S == Seq(Cell)
               c == m.chunks
    <3>1. c \in Seq(S) /\ e \in S
      BY <1>1, <2>1
    <3> HIDE DEF S, c
    <3>2. Append(c, e) # << >> /\ Append(c, e)[Len(Append(c, e))] = e
      BY <3>1, SMTT(40)
    <3> QED
      BY <2>1, <3>2 DEF c
  <2> HIDE DEF flat
  <2> QED
    BY <1>1, <1>2, <1>3, <2>1, <2>4, <2>5 DEF Filled, flat
<1> QED
  BY <1>4, <1>5

(* The message of a frame and what came before it.                         *)
LEMMA MessageTypes ==
    ASSUME NEW v \in View, NEW f \in Frame
    PROVE  /\ Before(f, v) \in Seq(Byte) /\ f.payload \in Seq(Byte) /\ Len(f.payload) \in Nat
           /\ Len(Before(f, v)) \in Nat /\ f.opcode \in 0..15 /\ f.fin \in BOOLEAN
<1>1. v.data \in Seq(Byte) /\ f.payload \in Seq(Byte) /\ f.opcode \in 0..15 /\ f.fin \in BOOLEAN
  BY DEF View, Frame
<1>2. Before(f, v) \in Seq(Byte)
  BY <1>1 DEF Before
<1> QED
  BY <1>1, <1>2

(* A slot written with a message that keeps to the limit.                  *)
LEMMA BoundedKept ==
    ASSUME NEW x \in Rx, NEW y, NEW m, Wrote(y, x, m), Bounded(x),
           m.opcode # NoOpcode => m.msg_length <= max_recv_msg_length
    PROVE  Bounded(y)
  BY DEF Wrote, Bounded, Rx

(* No byte of the frame, and all of them.                                  *)
LEMMA PartParts ==
    ASSUME NEW v \in View, NEW f \in Frame
    PROVE  /\ Part(v, f, 0) = Before(f, v)
           /\ Part(v, f, Len(f.payload)) = Before(f, v) \o f.payload
<1>1. /\ Before(f, v) \in Seq(Byte) /\ f.payload \in Seq(Byte) /\ Len(f.payload) \in Nat
  BY MessageTypes
<1>2. SubSeq(f.payload, 1, 0) = << >> /\ SubSeq(f.payload, 1, Len(f.payload)) = f.payload
  BY <1>1
<1>3. Before(f, v) \o << >> = Before(f, v)
  BY <1>1, ConcatEmptySeq
<1> QED
  BY <1>2, <1>3 DEF Part

(* The first chunk of a frame: room is made for its payload (event.c       *)
(* 359-366).                                                               *)
LEMMA StartEffect ==
    ASSUME NEW x \in Rx, NEW v \in View, ViewSound(v), NEW f \in Frame, Fits(f, v),
           Opened(x, v, f), Bounded(x), NEW iocb, IocbOf(iocb, f), ~IsTooBig(x, iocb)
    PROVE  LET y == StartFrame(x, iocb)
           IN  /\ y \in Rx /\ InFrame(y, v, f, 0) /\ Bounded(y)
               /\ y.starts = x.starts + 1 /\ y.ends = x.ends
<1> DEFINE y == StartFrame(x, iocb)
           len == Len(f.payload)
           m == IF IsBuffered(iocb) THEN AppendChunk(Msg(x), len) ELSE Msg(x)
           z == [ x EXCEPT !.imsgs[x.imsg] = m ]
<1>1. /\ Msg(x) \in Imsg /\ x.starts \in Nat /\ iocb.payload_length = len
      /\ x.ipayloadoff = 0 /\ x.imsg \in 0..1
  BY DEF Rx, Msg, IocbOf, Opened, AtFrameStart
<1>2. len \in Nat /\ Before(f, v) \in Seq(Byte) /\ f.payload \in Seq(Byte)
  BY MessageTypes
<1>3. IsBuffered(iocb) <=> Buffers(Msg(x).opcode)
  BY BufferedAsMessage DEF Opened
<1>4. IsBuffered(iocb) => Extended(m, Msg(x), len)
  BY <1>1, <1>2, AppendChunkEffect
<1>5. /\ m \in Imsg /\ m.opcode = Msg(x).opcode /\ m.fin = Msg(x).fin
      /\ m.utf8state = Msg(x).utf8state
  <2>1. CASE IsBuffered(iocb)
    BY <1>4, <2>1 DEF Extended
  <2>2. CASE ~IsBuffered(iocb)
    BY <1>1, <2>2
  <2> QED
    BY <2>1, <2>2
<1>6. Filled(m, Before(f, v), f.payload, 0)
  <2>1. CASE IsBuffered(iocb)
    <3>1. Holds(Msg(x), Before(f, v)) /\ Buffers(Msg(x).opcode) /\ Extended(m, Msg(x), len)
      BY <1>3, <1>4, <2>1 DEF Opened
    <3> HIDE DEF m
    <3> QED
      BY <1>1, <1>2, <3>1, RoomForPayload
  <2>2. CASE ~IsBuffered(iocb)
    BY <1>3, <2>2 DEF Opened, Holds, Filled
  <2> QED
    BY <2>1, <2>2
<1>7. m.msg_length <= max_recv_msg_length
  <2>1. Msg(x).msg_length + len <= max_recv_msg_length
    BY <1>1, <1>2, EventRecvAssumption, ImsgFields DEF IsTooBig
  <2>2. CASE IsBuffered(iocb)
    BY <1>4, <2>1, <2>2 DEF Extended
  <2>3. CASE ~IsBuffered(iocb)
    BY <1>1, <1>2, <2>1, <2>3, EventRecvAssumption, ImsgFields
  <2> QED
    BY <2>2, <2>3
<1>8. y = [ z EXCEPT !.ipayloadlen = len, !.starts = x.starts + 1 ]
  BY <1>1 DEF StartFrame, Msg, Rx
<1> HIDE DEF m
<1>9. /\ Wrote(z, x, m) /\ z.ipayloadoff = 0 /\ z.starts = x.starts /\ z.ends = x.ends
  BY <1>1, <1>5, CurrentSlotWrite
<1> HIDE DEF z, y
<1>10. /\ y \in Rx /\ y.imsgs = z.imsgs /\ y.imsg = z.imsg /\ y.ipayloadlen = len
       /\ y.ipayloadoff = 0 /\ y.starts = x.starts + 1 /\ y.ends = x.ends
  <2> DEFINE I == [ 0..1 -> Imsg ]
             s == x.starts + 1
  <2>1. z \in [ imsgs : I, imsg : 0..1, ipayloadlen : Nat, ipayloadoff : Nat,
                starts : Nat, ends : Nat ] /\ s \in Nat
    BY <1>1, <1>9 DEF Wrote, Rx
  <2>2. z.ipayloadoff = 0 /\ z.ends = x.ends
    BY <1>9
  <2> HIDE DEF I, s, len
  <2>3. /\ y \in [ imsgs : I, imsg : 0..1, ipayloadlen : Nat, ipayloadoff : Nat,
                  starts : Nat, ends : Nat ]
        /\ y.imsgs = z.imsgs /\ y.imsg = z.imsg /\ y.ipayloadlen = len
        /\ y.ipayloadoff = z.ipayloadoff /\ y.starts = s /\ y.ends = z.ends
    BY <1>2, <1>8, <2>1 DEF s
  <2> QED
    BY <2>2, <2>3 DEF Rx, I, s
<1>11. Wrote(y, x, m)
  BY <1>9, <1>10 DEF Wrote
<1>12. InSlot(y, v, f) /\ Msg(y) = m
  BY <1>11, InSlotKept DEF Opened
<1>13. InFrame(y, v, f, 0)
  <2>1. Holding(y, v, f, 0)
    BY <1>5, <1>6, <1>10, <1>12 DEF Holding, Opened
  <2>2. Part(v, f, 0) = Before(f, v)
    BY PartParts
  <2>3. InText(m, Before(f, v))
    BY <1>5 DEF InText, Opened
  <2> QED
    BY <1>12, <2>1, <2>2, <2>3 DEF InFrame
<1>14. Bounded(y)
  BY <1>7, <1>11, BoundedKept
<1> QED
  BY <1>10, <1>13, <1>14 DEF y

(* The chunk of f from byte t + 1 to byte n.                               *)
Carries(iocb, f, t, n) ==
    /\ IocbOf(iocb, f) /\ iocb.data \in Seq(Byte)
    /\ t \in Nat /\ n \in Nat /\ t <= n /\ n <= Len(f.payload)
    /\ Len(iocb.data) = n - t
    /\ \A i \in 1..(n - t) : iocb.data[i] = f.payload[t + i]

(* A control message is a control frame.                                   *)
LEMMA CtrlOpcodeOf ==
    ASSUME NEW v \in View, ViewSound(v), NEW f \in Frame, Fits(f, v)
    PROVE  wslay_is_ctrl_frame(OpcodeOf(f, v)) <=> IsCtrl(f)
<1>1. CASE f.opcode = WSLAY_CONTINUATION_FRAME
  <2>1. v.opcode \in {WSLAY_TEXT_FRAME, WSLAY_BINARY_FRAME}
    BY <1>1 DEF Fits, ViewSound, KnownCtrl, WSLAY_CONNECTION_CLOSE, WSLAY_PING,
                WSLAY_PONG, WSLAY_CONTINUATION_FRAME, WSLAY_TEXT_FRAME, WSLAY_BINARY_FRAME
  <2> QED
    BY <1>1, <2>1, CtrlBits DEF OpcodeOf, IsCtrl
<1>2. CASE f.opcode # WSLAY_CONTINUATION_FRAME
  BY <1>2 DEF OpcodeOf, IsCtrl
<1> QED
  BY <1>1, <1>2

(* A Close is a Close frame.                                               *)
LEMMA CloseOpcodeOf ==
    ASSUME NEW v \in View, ViewSound(v), NEW f \in Frame, Fits(f, v),
           OpcodeOf(f, v) = WSLAY_CONNECTION_CLOSE
    PROVE  f.opcode = WSLAY_CONNECTION_CLOSE
<1>1. IsCtrl(f)
  BY CtrlOpcodeOf, CtrlBits
<1> QED
  BY <1>1, CtrlBits DEF OpcodeOf, IsCtrl

(* The bytes of the frame so far make the message invalid.                 *)
Unreadable(v, f, n) ==
    \/ f.opcode = WSLAY_CONNECTION_CLOSE
    \/ f.fin /\ n = Len(f.payload) /\ ~IsUtf8(Part(v, f, n))
    \/ ~BeginsUtf8(Part(v, f, n))

(* A text is refused when it can no longer be completed, or at its end.    *)
LEMMA UnreadableText ==
    ASSUME NEW v \in View, NEW f \in Frame, NEW n \in Nat, n <= Len(f.payload)
    PROVE  LET s == DecodeAll(UTF8_ACCEPT, Part(v, f, n))
           IN  /\ Part(v, f, n) \in Seq(Byte) /\ s \in Utf8States
               /\ s = UTF8_REJECT => Unreadable(v, f, n)
               /\ s # UTF8_ACCEPT /\ f.fin /\ n = Len(f.payload) => Unreadable(v, f, n)
               /\ s = UTF8_ACCEPT => IsUtf8(Part(v, f, n))
<1> DEFINE p == Part(v, f, n)
<1>1. Before(f, v) \in Seq(Byte) /\ f.payload \in Seq(Byte) /\ f.fin \in BOOLEAN
  BY MessageTypes
<1>2. SubSeq(f.payload, 1, n) \in Seq(Byte)
  <2>1. \A i \in 1..n : f.payload[i] \in Byte
    BY <1>1
  <2> QED
    BY <1>1, <2>1, SubSeqProperties
<1>3. p \in Seq(Byte)
  BY <1>1, <1>2, ConcatProperties DEF Part
<1>4. p \in Seq(Octet)
  BY <1>3 DEF Byte, Octet
<1> HIDE DEF p
<1>5. /\ DecodeAll(UTF8_ACCEPT, p) \in Utf8States
      /\ DecodeAll(UTF8_ACCEPT, p) = UTF8_ACCEPT <=> IsUtf8(p)
      /\ DecodeAll(UTF8_ACCEPT, p) # UTF8_REJECT <=> BeginsUtf8(p)
  BY <1>4, DecodeAllJudges
<1>6. UTF8_ACCEPT # UTF8_REJECT
  BY NothingDecoded
<1> QED
  BY <1>1, <1>3, <1>5, <1>6 DEF p, Unreadable

(* The chunk takes the message from byte t to byte n of the frame.         *)
LEMMA PartGrows ==
    ASSUME NEW v \in View, NEW f \in Frame, NEW t, NEW n, NEW iocb, Carries(iocb, f, t, n)
    PROVE  Part(v, f, n) = Part(v, f, t) \o iocb.data
<1> DEFINE b == Before(f, v)
           P == f.payload
           h == SubSeq(P, 1, t)
           g == SubSeq(P, 1, n)
           d == iocb.data
<1>1. b \in Seq(Byte) /\ P \in Seq(Byte) /\ Len(P) \in Nat
  BY MessageTypes
<1>2. /\ d \in Seq(Byte) /\ t \in Nat /\ n \in Nat /\ t <= n /\ n <= Len(P) /\ Len(d) = n - t
      /\ \A i \in 1..(n - t) : d[i] = P[t + i]
  BY DEF Carries
<1> HIDE DEF b, P, d
<1>3. h \in Seq(Byte) /\ Len(h) = t /\ \A i \in 1..t : h[i] = P[i]
  BY <1>1, <1>2
<1>4. g \in Seq(Byte) /\ Len(g) = n /\ \A i \in 1..n : g[i] = P[i]
  BY <1>1, <1>2
<1> HIDE DEF h, g
<1>5. g = h \o d
  <2> DEFINE c == h \o d
  <2>1. /\ c \in Seq(Byte) /\ Len(c) = t + (n - t)
        /\ \A i \in 1..t : c[i] = h[i]
        /\ \A i \in 1..(n - t) : c[t + i] = d[i]
    <3>0. h \in Seq(Byte) /\ d \in Seq(Byte)
      BY <1>2, <1>3
    <3>1. /\ c \in Seq(Byte) /\ Len(c) = Len(h) + Len(d)
          /\ \A i \in 1..Len(h) : c[i] = h[i]
          /\ \A i \in 1..Len(d) : c[Len(h) + i] = d[i]
      BY ONLY <3>0, ConcatElements
    <3> HIDE DEF c
    <3> QED
      BY <1>2, <1>3, <3>1
  <2> HIDE DEF c
  <2>2. ASSUME NEW i \in 1..n PROVE g[i] = c[i]
    <3>1. CASE i <= t
      <4>1. i \in 1..t
        BY <1>2, <3>1
      <4>2. g[i] = P[i] /\ h[i] = P[i] /\ c[i] = h[i]
        BY <1>3, <1>4, <2>1, <4>1
      <4> QED
        BY <4>2
    <3>2. CASE i > t
      <4> DEFINE j == i - t
      <4>1. j \in 1..(n - t) /\ i = t + j
        BY <1>2, <3>2
      <4> HIDE DEF j
      <4> QED
        BY <1>2, <1>4, <2>1, <4>1
    <3> QED
      BY <1>2, <3>1, <3>2
  <2>3. Len(c) = n
    BY <1>2, <2>1
  <2> QED
    BY <1>4, <2>1, <2>2, <2>3, SeqEqual DEF c
<1>6. (b \o h) \o d = b \o (h \o d)
  <2>1. b \in Seq(Byte) /\ h \in Seq(Byte) /\ d \in Seq(Byte)
    BY <1>1, <1>2, <1>3
  <2> QED
    BY ONLY <2>1, ConcatAssociative
<1> QED
  BY <1>5, <1>6 DEF Part, b, h, g, P, d

(* Only the UTF-8 state of the slot changes: it follows the message, and   *)
(* rejects what cannot be read (event.c 367-386).                          *)
LEMMA Utf8Effect ==
    ASSUME NEW x \in Rx, NEW v \in View, NEW f \in Frame, NEW t, InFrame(x, v, f, t), Bounded(x),
           ViewSound(v), Fits(f, v), NEW n, NEW iocb, Carries(iocb, f, t, n)
    PROVE  LET y == CheckUtf8(x, iocb)
           IN  /\ y \in Rx /\ Holding(y, v, f, t) /\ Bounded(y)
               /\ y.starts = x.starts /\ y.ends = x.ends
               /\ Msg(y).utf8state # UTF8_REJECT => InText(Msg(y), Part(v, f, n))
               /\ Msg(y).utf8state = UTF8_REJECT => Unreadable(v, f, n)
<1> DEFINE y == CheckUtf8(x, iocb)
           m == Msg(x)
           skip == IF m.opcode = WSLAY_CONNECTION_CLOSE THEN 2 ELSE 0
           text == SubSeq(iocb.data, skip + 1, Len(iocb.data))
           u == DecodeAll(m.utf8state, text)
           q == [ m EXCEPT !.utf8state = u ]
<1>1. m \in Imsg /\ m.utf8state \in Utf8States
  BY DEF Rx, Msg, Imsg
<1>2. Holding(x, v, f, t) /\ InText(m, Part(v, f, t)) /\ m.opcode = OpcodeOf(f, v)
  BY DEF InFrame, Holding
<1>3. iocb.data \in Seq(Byte) /\ t \in Nat /\ n \in Nat /\ t <= Len(f.payload) /\ n <= Len(f.payload)
  <2>1. Len(f.payload) \in Nat
    BY MessageTypes
  <2> QED
    BY <2>1 DEF Carries
<1>4. m.opcode = WSLAY_CONNECTION_CLOSE => f.opcode = WSLAY_CONNECTION_CLOSE
  BY <1>2, CloseOpcodeOf
<1>5. CASE ~IsUtf8Checked(m)
  <2>1. y = x
    BY <1>5 DEF CheckUtf8
  <2>2. m.opcode # WSLAY_TEXT_FRAME
    BY <1>5 DEF IsUtf8Checked
  <2>3. m.utf8state = UTF8_REJECT => Unreadable(v, f, n)
    BY <1>2, <1>4 DEF InText, Unreadable
  <2>4. m.utf8state # UTF8_REJECT => InText(m, Part(v, f, n))
    BY <2>2 DEF InText
  <2> QED
    BY <1>2, <2>1, <2>3, <2>4
<1>6. CASE IsUtf8Checked(m)
  <2>1. text \in Seq(Byte)
    <3>1. \A i \in (skip + 1)..Len(iocb.data) : iocb.data[i] \in Byte
      BY <1>3
    <3>2. skip + 1 \in Int /\ Len(iocb.data) \in Int
      BY <1>3
    <3> HIDE DEF skip
    <3> QED
      BY <1>3, <3>1, <3>2, SubSeqProperties
  <2>2. u \in Utf8States
    <3>1. text \in Seq(Octet)
      BY <2>1 DEF Byte, Octet
    <3> HIDE DEF text
    <3>2. << >> \in Seq(Octet)
      OBVIOUS
    <3> QED
      BY <1>1, <3>1, <3>2, DecodeAllConcat
  <2>3. y = [ x EXCEPT !.imsgs[x.imsg].utf8state = u ]
    BY <1>6 DEF CheckUtf8, Msg
  <2>4. m.opcode = WSLAY_TEXT_FRAME => u = DecodeAll(UTF8_ACCEPT, Part(v, f, n))
    <3> SUFFICES ASSUME m.opcode = WSLAY_TEXT_FRAME PROVE u = DecodeAll(UTF8_ACCEPT, Part(v, f, n))
      OBVIOUS
    <3>1. skip = 0 /\ ~wslay_is_ctrl_frame(m.opcode)
      BY CtrlBits DEF WSLAY_TEXT_FRAME, WSLAY_CONNECTION_CLOSE
    <3>2. text = iocb.data
      <4> DEFINE d == iocb.data
      <4>1. d \in Seq(Byte)
        BY <1>3
      <4> HIDE DEF d
      <4>2. SubSeq(d, 1, Len(d)) = d
        BY <4>1
      <4>3. skip + 1 = 1
        BY <3>1
      <4> HIDE DEF skip
      <4> QED
        BY <4>2, <4>3 DEF d
    <3>3. m.utf8state = DecodeAll(UTF8_ACCEPT, Part(v, f, t))
      BY <1>2, <3>1 DEF InText
    <3>4. Part(v, f, n) = Part(v, f, t) \o iocb.data
      BY PartGrows
    <3>5. Part(v, f, t) \in Seq(Octet) /\ iocb.data \in Seq(Octet)
      <4>1. Part(v, f, t) \in Seq(Byte)
        BY <1>3, UnreadableText
      <4> QED
        BY <1>3, <4>1 DEF Byte, Octet
    <3>6. UTF8_ACCEPT \in Utf8States
      BY NothingDecoded
    <3>7. DecodeAll(DecodeAll(UTF8_ACCEPT, Part(v, f, t)), iocb.data)
            = DecodeAll(UTF8_ACCEPT, Part(v, f, t) \o iocb.data)
      BY <3>5, <3>6, DecodeAllConcat
    <3> HIDE DEF text, m
    <3> QED
      BY <3>2, <3>3, <3>4, <3>7
  <2>5. m.opcode # WSLAY_TEXT_FRAME => wslay_is_ctrl_frame(m.opcode)
    BY <1>6, CtrlBits DEF IsUtf8Checked
  <2> HIDE DEF u
  <2>6. y = [ x EXCEPT !.imsgs[x.imsg] = q ]
    BY <2>3 DEF Msg, Rx
  <2>7. /\ q \in Imsg /\ q.opcode = m.opcode /\ q.fin = m.fin /\ q.chunks = m.chunks
        /\ q.msg_length = m.msg_length /\ q.utf8state = u
    BY <1>1, <2>2 DEF Imsg
  <2> HIDE DEF q, y
  <2>8. /\ Wrote(y, x, q) /\ y.ipayloadlen = x.ipayloadlen /\ y.ipayloadoff = x.ipayloadoff
        /\ y.starts = x.starts /\ y.ends = x.ends
    BY <2>6, <2>7, CurrentSlotWrite
  <2>9. InSlot(y, v, f) /\ Msg(y) = q
    BY <1>2, <2>8, InSlotKept DEF Holding
  <2>10. Filled(q, Before(f, v), f.payload, t)
    BY <1>2, <2>7 DEF Holding, Filled
  <2>11. Holding(y, v, f, t)
    BY <1>2, <2>7, <2>8, <2>9, <2>10 DEF Holding
  <2>12. q.opcode # NoOpcode => q.msg_length <= max_recv_msg_length
    BY <2>7 DEF Bounded, Msg, Rx
  <2>13. Bounded(y)
    BY <2>8, <2>12, BoundedKept
  <2>14. q.utf8state # UTF8_REJECT => InText(q, Part(v, f, n))
    BY <2>4, <2>5, <2>7 DEF InText
  <2>15. q.utf8state = UTF8_REJECT => Unreadable(v, f, n)
    <3>1. DecodeAll(UTF8_ACCEPT, Part(v, f, n)) = UTF8_REJECT => Unreadable(v, f, n)
      BY <1>3, UnreadableText
    <3>2. f.opcode = WSLAY_CONNECTION_CLOSE => Unreadable(v, f, n)
      BY DEF Unreadable
    <3> HIDE DEF m
    <3> QED
      BY <1>4, <1>6, <2>4, <2>5, <2>7, <3>1, <3>2 DEF IsUtf8Checked
  <2> QED
    BY <2>8, <2>9, <2>11, <2>13, <2>14, <2>15 DEF Wrote, y
<1> QED
  BY <1>5, <1>6

(* The chunks end with room for payload, of which t bytes are there.        *)
RoomUpTo(c, before, payload, t) ==
    /\ c \in Seq(Seq(Cell)) /\ c # << >>
    /\ Len(c[Len(c)]) = Len(payload)
    /\ Len(Flatten(c)) = Len(before) + Len(payload)
    /\ \A i \in 1..Len(before) : Flatten(c)[i] = before[i]
    /\ \A i \in 1..t : Flatten(c)[Len(before) + i] = payload[i]

(* The bytes of a chunk go behind the bytes of the frame before them.      *)
LEMMA FilledFurther ==
    ASSUME NEW c, NEW before \in Seq(Byte), NEW f \in Frame,
           NEW t, NEW n, NEW iocb, Carries(iocb, f, t, n), RoomUpTo(c, before, f.payload, t)
    PROVE  RoomUpTo([ c EXCEPT ![Len(c)] = CopyInto(c[Len(c)], t, iocb.data) ], before, f.payload, n)
<1> DEFINE e == c[Len(c)]
           g == CopyInto(e, t, iocb.data)
           d == [ c EXCEPT ![Len(c)] = g ]
           F == Flatten(SubSeq(c, 1, Len(c) - 1))
           b == Len(before)
           len == Len(f.payload)
<1>1. /\ b \in Nat /\ len \in Nat /\ t \in Nat /\ n \in Nat /\ t <= n /\ n <= len
      /\ iocb.data \in Seq(Byte) /\ Len(iocb.data) = n - t
      /\ \A i \in 1..(n - t) : iocb.data[i] = f.payload[t + i]
  BY DEF Carries, Frame
<1>0. /\ c \in Seq(Seq(Cell)) /\ c # << >> /\ Len(e) = len /\ Len(Flatten(c)) = b + len
      /\ \A i \in 1..b : Flatten(c)[i] = before[i]
      /\ \A i \in 1..t : Flatten(c)[b + i] = f.payload[i]
  BY DEF RoomUpTo
<1>2. e \in Seq(Cell) /\ F \in Seq(Cell) /\ Flatten(c) = F \o e
  <2>1. << >> \in Seq(Cell)
    OBVIOUS
  <2> QED
    BY <1>0, <2>1, FlattenLast
<1>3. t + Len(iocb.data) <= Len(e)
  BY <1>0, <1>1
<1>4. /\ g \in Seq(Cell) /\ Len(g) = len
      /\ \A i \in 1..t : g[i] = e[i]
      /\ \A i \in 1..(n - t) : g[t + i] = iocb.data[i]
  <2> HIDE DEF e
  <2>1. /\ g \in Seq(Cell) /\ Len(g) = Len(e)
        /\ \A i \in 1..t : g[i] = e[i]
        /\ \A i \in 1..Len(iocb.data) : g[t + i] = iocb.data[i]
    BY <1>1, <1>2, <1>3, CopyIntoChunk
  <2> QED
    BY <1>0, <1>1, <2>1 DEF e
<1> HIDE DEF g
<1>6. /\ d \in Seq(Seq(Cell)) /\ d # << >> /\ d[Len(d)] = g
      /\ Flatten(d) = F \o g
  BY <1>0, <1>4, FlattenLast
<1> HIDE DEF F, d, e, len, b
<1>7. /\ Len(F \o e) = Len(F) + len /\ Len(F) \in Nat
      /\ \A i \in 1..Len(F) : (F \o e)[i] = F[i]
      /\ \A i \in 1..len : (F \o e)[Len(F) + i] = e[i]
  <2>1. /\ Len(F \o e) = Len(F) + Len(e) /\ Len(F) \in Nat
        /\ \A i \in 1..Len(F) : (F \o e)[i] = F[i]
        /\ \A i \in 1..Len(e) : (F \o e)[Len(F) + i] = e[i]
    BY <1>2, ConcatElements
  <2> QED
    BY <1>0, <2>1
<1>8. /\ Len(F \o g) = Len(F) + len
      /\ \A i \in 1..Len(F) : (F \o g)[i] = F[i]
      /\ \A i \in 1..len : (F \o g)[Len(F) + i] = g[i]
  <2>1. /\ Len(F \o g) = Len(F) + Len(g)
        /\ \A i \in 1..Len(F) : (F \o g)[i] = F[i]
        /\ \A i \in 1..Len(g) : (F \o g)[Len(F) + i] = g[i]
    <3>1. F \in Seq(Cell) /\ g \in Seq(Cell)
      BY <1>2, <1>4
    <3> QED
      BY ONLY <3>1, ConcatElements
  <2> QED
    BY <1>4, <2>1
<1>9. Len(F) = b
  BY <1>0, <1>1, <1>2, <1>7
<1>10. \A i \in 1..b : Flatten(d)[i] = before[i]
  BY <1>0, <1>2, <1>6, <1>7, <1>8, <1>9
<1>11. ASSUME NEW i \in 1..n PROVE Flatten(d)[b + i] = f.payload[i]
  <2>1. i \in 1..len /\ Flatten(d)[b + i] = g[i]
    BY <1>1, <1>6, <1>8, <1>9
  <2>2. CASE i <= t
    <3>1. i \in 1..t /\ Flatten(c)[b + i] = f.payload[i]
      BY <1>0, <1>1, <2>2
    <3>2. (F \o e)[b + i] = e[i] /\ g[i] = e[i]
      BY <1>4, <1>7, <1>9, <2>1, <3>1
    <3> QED
      BY <1>2, <2>1, <3>1, <3>2
  <2>3. CASE i > t
    <3>1. i - t \in 1..(n - t) /\ t + (i - t) = i
      BY <1>1, <2>3
    <3>2. g[i] = iocb.data[i - t] /\ iocb.data[i - t] = f.payload[i]
      BY <1>1, <1>4, <3>1
    <3> QED
      BY <2>1, <3>2
  <2> QED
    BY <1>1, <2>2, <2>3
<1>12. Len(Flatten(d)) = b + len
  BY <1>6, <1>8, <1>9
<1> QED
  BY <1>4, <1>6, <1>10, <1>11, <1>12 DEF d, g, e, b, len, RoomUpTo

(* A chunk of the frame is received (event.c 388-395).                     *)
LEMMA StoreEffect ==
    ASSUME NEW x \in Rx, NEW v \in View, ViewSound(v), NEW f \in Frame, Fits(f, v),
           NEW t, Holding(x, v, f, t), Bounded(x), NEW n, NEW iocb, Carries(iocb, f, t, n),
           InText(Msg(x), Part(v, f, n))
    PROVE  LET y == StoreData(x, iocb)
           IN  /\ y \in Rx /\ InFrame(y, v, f, n) /\ Bounded(y)
               /\ y.starts = x.starts /\ y.ends = x.ends
<1> DEFINE y == StoreData(x, iocb)
           m == Msg(x)
           c == m.chunks
           g == CopyInto(c[Len(c)], t, iocb.data)
           d == [ c EXCEPT ![Len(c)] = g ]
           stored == IF iocb.data # << >> /\ IsBuffered(iocb) THEN [ m EXCEPT !.chunks = d ] ELSE m
           z == [ x EXCEPT !.imsgs[x.imsg] = stored ]
<1>1. /\ m \in Imsg /\ x.ipayloadoff = t /\ x.ipayloadlen = Len(f.payload)
      /\ t \in Nat /\ n \in Nat /\ t <= n /\ n <= Len(f.payload) /\ Len(iocb.data) = n - t
      /\ iocb.data \in Seq(Byte)
  BY DEF Rx, Msg, Holding, Carries
<1>2. IsBuffered(iocb) <=> Buffers(m.opcode)
  BY BufferedAsMessage DEF Holding, Carries
<1>3. Before(f, v) \in Seq(Byte) /\ f.payload \in Seq(Byte)
  BY MessageTypes
<1>4. Filled(m, Before(f, v), f.payload, t) /\ c \in Seq(Seq(Cell))
  BY <1>1, ImsgFields DEF Holding
<1>5. /\ stored \in Imsg /\ stored.opcode = m.opcode /\ stored.fin = m.fin
      /\ stored.msg_length = m.msg_length /\ Filled(stored, Before(f, v), f.payload, n)
      /\ stored.utf8state = m.utf8state
  <2>1. CASE iocb.data # << >> /\ Buffers(m.opcode)
    <3>1. n > t /\ f.payload # << >>
      BY <1>1, <1>3, <2>1
    <3>2. /\ RoomUpTo(c, Before(f, v), f.payload, t)
          /\ m.msg_length = Len(Before(f, v)) + Len(f.payload)
      BY <1>4, <2>1, <3>1 DEF Filled, RoomUpTo
    <3> HIDE DEF c
    <3>3. RoomUpTo(d, Before(f, v), f.payload, n)
      BY <1>3, <3>2, FilledFurther
    <3> HIDE DEF d
    <3>4. stored = [ m EXCEPT !.chunks = d ]
      BY <1>2, <2>1
    <3> HIDE DEF stored, m
    <3>5. /\ stored \in Imsg /\ stored.opcode = m.opcode /\ stored.fin = m.fin
          /\ stored.msg_length = m.msg_length /\ stored.chunks = d
          /\ stored.utf8state = m.utf8state
      <4> DEFINE C == Seq(Seq(Cell))
      <4>1. m \in [ fin : BOOLEAN, opcode : 0..255, utf8state : Utf8States,
                    chunks : C, msg_length : Nat, freed : BOOLEAN ] /\ d \in C
        BY <1>1, <3>3 DEF Imsg, Cell, RoomUpTo
      <4> HIDE DEF C
      <4>2. /\ stored \in [ fin : BOOLEAN, opcode : 0..255, utf8state : Utf8States,
                           chunks : C, msg_length : Nat, freed : BOOLEAN ]
            /\ stored.opcode = m.opcode /\ stored.fin = m.fin
            /\ stored.msg_length = m.msg_length /\ stored.chunks = d
            /\ stored.utf8state = m.utf8state
        BY <3>4, <4>1
      <4> QED
        BY <4>2 DEF Imsg, Cell, C
    <3> QED
      BY <2>1, <3>2, <3>3, <3>5 DEF Filled, RoomUpTo
  <2>2. CASE ~Buffers(m.opcode)
    <3>1. stored = m
      BY <1>2, <2>2
    <3> QED
      BY <1>1, <1>4, <2>2, <3>1 DEF Filled
  <2>3. CASE iocb.data = << >>
    <3>1. stored = m /\ n = t
      BY <1>1, <2>3
    <3> QED
      BY <1>1, <1>4, <3>1
  <2> QED
    BY <2>1, <2>2, <2>3
<1>6. y = [ z EXCEPT !.ipayloadoff = n ]
  <2>1. stored = IF iocb.data # << >> /\ IsBuffered(iocb)
                 THEN [ m EXCEPT !.chunks[Len(m.chunks)] = CopyInto(@, x.ipayloadoff, iocb.data) ]
                 ELSE m
    BY <1>1 DEF Imsg
  <2>2. y = [ x EXCEPT !.imsgs[x.imsg] = stored, !.ipayloadoff = @ + Len(iocb.data) ]
    BY <2>1 DEF StoreData
  <2>3. x.ipayloadoff + Len(iocb.data) = n
    BY <1>1
  <2> HIDE DEF stored
  <2> QED
    BY <2>2, <2>3
<1> HIDE DEF stored, y
<1>7. /\ Wrote(z, x, stored) /\ z.ipayloadlen = x.ipayloadlen /\ z.starts = x.starts /\ z.ends = x.ends
  BY <1>5, CurrentSlotWrite
<1> HIDE DEF z
<1>8. /\ y \in Rx /\ y.imsgs = z.imsgs /\ y.imsg = z.imsg /\ y.ipayloadlen = z.ipayloadlen
      /\ y.ipayloadoff = n /\ y.starts = z.starts /\ y.ends = z.ends
  BY <1>1, <1>6, <1>7 DEF Wrote, Rx
<1>9. Wrote(y, x, stored)
  BY <1>7, <1>8 DEF Wrote
<1>10. InSlot(y, v, f) /\ Msg(y) = stored
  BY <1>9, InSlotKept DEF Holding
<1>11. InFrame(y, v, f, n)
  <2>1. Holding(y, v, f, n)
    BY <1>1, <1>5, <1>7, <1>8, <1>10 DEF Holding
  <2>2. InText(stored, Part(v, f, n))
    BY <1>5 DEF InText
  <2> QED
    BY <1>10, <2>1, <2>2 DEF InFrame
<1>12. m.opcode # NoOpcode => m.msg_length <= max_recv_msg_length
  BY DEF Bounded, Msg, Rx
<1>13. Bounded(y)
  BY <1>5, <1>9, <1>12, BoundedKept
<1> QED
  BY <1>7, <1>8, <1>11, <1>13 DEF y

(* All bytes of the frame are there.                                       *)
LEMMA FilledWhole ==
    ASSUME NEW m \in Imsg, NEW before \in Seq(Byte), NEW payload \in Seq(Byte),
           Filled(m, before, payload, Len(payload))
    PROVE  Holds(m, before \o payload)
<1> DEFINE flat == Flatten(m.chunks)
           all == before \o payload
           b == Len(before)
           len == Len(payload)
<1>1. /\ all \in Seq(Cell) /\ Len(all) = b + len /\ b \in Nat /\ len \in Nat
      /\ \A i \in 1..b : all[i] = before[i]
      /\ \A i \in 1..len : all[b + i] = payload[i]
  <2>1. before \in Seq(Cell) /\ payload \in Seq(Cell)
    BY DEF Cell
  <2> QED
    BY ONLY <2>1, ConcatElements
<1>2. flat \in Seq(Cell)
  <2>1. << >> \in Seq(Cell) /\ m.chunks \in Seq(Seq(Cell))
    BY ImsgFields
  <2> QED
    BY <2>1, FlattenAppend
<1>3. CASE Buffers(m.opcode)
  <2>1. /\ m.msg_length = b + len /\ Len(flat) = b + len
        /\ \A i \in 1..b : flat[i] = before[i]
        /\ \A i \in 1..len : flat[b + i] = payload[i]
    BY <1>3 DEF Filled
  <2> HIDE DEF flat, all, b, len
  <2>2. ASSUME NEW i \in 1..(b + len) PROVE flat[i] = all[i]
    <3>1. CASE i <= b
      BY <1>1, <2>1, <3>1
    <3>2. CASE i > b
      <4> DEFINE j == i - b
      <4>1. j \in 1..len /\ b + j = i
        BY <1>1, <3>2
      <4> HIDE DEF j
      <4>2. flat[b + j] = payload[j]
        BY <2>1, <4>1
      <4>3. all[b + j] = payload[j]
        BY <1>1, <4>1
      <4> QED
        BY <4>1, <4>2, <4>3
    <3> QED
      BY <1>1, <3>1, <3>2
  <2>3. flat = all
    BY <1>1, <1>2, <2>1, <2>2, SeqEqual
  <2> QED
    BY <1>1, <1>3, <2>1, <2>3 DEF Holds, flat, all
<1>4. CASE ~Buffers(m.opcode)
  BY <1>4 DEF Filled, Holds
<1> QED
  BY <1>3, <1>4

(* The frame's payload behind what came before it.                         *)
Whole(f, v) == Before(f, v) \o f.payload

(* What a control frame, a final and a further data frame add to a view.   *)
LEMMA AddFrameCases ==
    ASSUME NEW v \in View, ViewSound(v), NEW f \in Frame, Fits(f, v), IsCtrl(f) => f.fin
    PROVE  LET w == AddFrame(v, f)
           IN  /\ w \in View /\ ViewSound(w)
               /\ f.fin => w.msgs = Append(v.msgs, [ opcode |-> OpcodeOf(f, v), msg |-> Whole(f, v) ])
               /\ ~f.fin => ~IsCtrl(f) /\ w.msgs = v.msgs
               /\ IsCtrl(f) => w.opcode = v.opcode /\ w.data = v.data
               /\ ~IsCtrl(f) => /\ OpcodeOf(f, v) \in {WSLAY_TEXT_FRAME, WSLAY_BINARY_FRAME}
                                /\ IF f.fin THEN w.opcode = NoOpcode
                                   ELSE w.opcode = OpcodeOf(f, v) /\ w.data = Whole(f, v)
<1> DEFINE w == AddFrame(v, f)
           opcode == OpcodeOf(f, v)
           data == Whole(f, v)
<1>1. /\ f.opcode \in 0..15 /\ f.payload \in Seq(Byte) /\ v.opcode \in 0..255
      /\ v.data \in Seq(Byte) /\ f.fin \in BOOLEAN
  BY DEF Frame, View
<1>2. /\ opcode = IF f.opcode # WSLAY_CONTINUATION_FRAME THEN f.opcode ELSE v.opcode
      /\ data = IF f.opcode # WSLAY_CONTINUATION_FRAME THEN f.payload ELSE v.data \o f.payload
  <2>1. << >> \o f.payload = f.payload
    BY <1>1, ConcatEmptySeq
  <2> QED
    BY <2>1 DEF OpcodeOf, Whole, Before
<1>3. w = IF IsCtrl(f)
          THEN [ v EXCEPT !.msgs = Append(@, [ opcode |-> f.opcode, msg |-> f.payload ]) ]
          ELSE IF f.fin
          THEN [ opcode |-> NoOpcode, data |-> << >>,
                 msgs |-> Append(v.msgs, [ opcode |-> opcode, msg |-> data ]) ]
          ELSE [ opcode |-> opcode, data |-> data, msgs |-> v.msgs ]
  <2> HIDE DEF opcode, data
  <2> QED
    BY <1>2 DEF AddFrame, IsCtrl
<1>4. w \in View
  BY AddFrameType
<1>5. IsCtrl(f) <=> f.opcode \in KnownCtrl
  BY CtrlBits DEF Fits, IsCtrl, KnownCtrl
<1>6. ~IsCtrl(f) => opcode \in {WSLAY_TEXT_FRAME, WSLAY_BINARY_FRAME}
  <2> HIDE DEF opcode
  <2> QED
    BY <1>2, <1>5 DEF Fits, ViewSound, WSLAY_TEXT_FRAME, WSLAY_BINARY_FRAME, WSLAY_CONTINUATION_FRAME
<1>7. IsCtrl(f) => opcode = f.opcode /\ data = f.payload
  BY <1>2, CtrlBits DEF IsCtrl
<1> HIDE DEF opcode, data, w
<1>8. CASE IsCtrl(f)
  <2> DEFINE ms == Append(v.msgs, [ opcode |-> f.opcode, msg |-> f.payload ])
  <2>1. w = [ v EXCEPT !.msgs = ms ]
    BY <1>3, <1>8
  <2> HIDE DEF ms
  <2>2. w.msgs = ms /\ w.opcode = v.opcode /\ w.data = v.data
    BY <2>1 DEF View
  <2> QED
    BY <1>4, <1>7, <1>8, <2>2 DEF ms, ViewSound, w, opcode, data
<1>9. CASE ~IsCtrl(f) /\ f.fin
  <2> DEFINE ms == Append(v.msgs, [ opcode |-> opcode, msg |-> data ])
  <2>1. w = [ opcode |-> NoOpcode, data |-> << >>, msgs |-> ms ]
    BY <1>3, <1>9
  <2> HIDE DEF ms
  <2>2. w.msgs = ms /\ w.opcode = NoOpcode /\ w.data = << >>
    BY <2>1
  <2> QED
    BY <1>4, <1>6, <1>9, <2>2 DEF ms, ViewSound, w, opcode, data
<1>10. CASE ~IsCtrl(f) /\ ~f.fin
  <2>1. w = [ opcode |-> opcode, data |-> data, msgs |-> v.msgs ]
    BY <1>3, <1>10
  <2>2. w.msgs = v.msgs /\ w.opcode = opcode /\ w.data = data /\ opcode # NoOpcode
    BY <1>6, <1>10, <2>1 DEF NoOpcode, WSLAY_TEXT_FRAME, WSLAY_BINARY_FRAME
  <2> QED
    BY <1>4, <1>6, <1>10, <2>2 DEF ViewSound, w, opcode, data
<1> QED
  BY <1>8, <1>9, <1>10

(* A frame is complete and its message is not (event.c 486-488).           *)
LEMMA FrameDoneEffect ==
    ASSUME NEW x \in Rx, NEW v \in View, ViewSound(v), NEW f \in Frame, Fits(f, v),
           IsCtrl(f) => f.fin, InFrame(x, v, f, Len(f.payload)), Bounded(x), ~f.fin
    PROVE  LET y == FrameDone(x)
           IN  /\ y \in Rx /\ Ready(y, AddFrame(v, f)) /\ Bounded(y)
               /\ y.starts = x.starts /\ y.ends = x.ends
<1> DEFINE y == FrameDone(x)
           w == AddFrame(v, f)
<1>1. /\ ~IsCtrl(f) /\ w.opcode = OpcodeOf(f, v) /\ w.data = Whole(f, v)
      /\ w.opcode # NoOpcode
  <2>1. /\ ~IsCtrl(f) /\ w.opcode = OpcodeOf(f, v) /\ w.data = Whole(f, v)
        /\ w.opcode \in {WSLAY_TEXT_FRAME, WSLAY_BINARY_FRAME}
    BY AddFrameCases
  <2> QED
    BY <2>1 DEF NoOpcode, WSLAY_TEXT_FRAME, WSLAY_BINARY_FRAME
<1>2. Before(f, v) \in Seq(Byte) /\ f.payload \in Seq(Byte)
  BY MessageTypes
<1>3. /\ x.imsg = 0 /\ IdleSlot(x.imsgs[1]) /\ Msg(x) \in Imsg /\ Msg(x) = x.imsgs[0]
  BY <1>1 DEF InFrame, Holding, InSlot, Rx, Msg
<1>4. Holds(x.imsgs[0], w.data)
  <2>1. Filled(Msg(x), Before(f, v), f.payload, Len(f.payload))
    BY DEF InFrame, Holding
  <2>2. Holds(Msg(x), Before(f, v) \o f.payload)
    BY <1>2, <1>3, <2>1, FilledWhole
  <2> QED
    BY <1>1, <1>3, <2>2 DEF Whole
<1>5. /\ y \in Rx /\ y.imsgs = x.imsgs /\ y.imsg = x.imsg /\ y.ipayloadlen = 0
      /\ y.ipayloadoff = 0 /\ y.starts = x.starts /\ y.ends = x.ends
  BY DEF FrameDone, Rx
<1> HIDE DEF y, w
<1>6. DataSlot(x.imsgs[0], w)
  <2>1. InText(x.imsgs[0], w.data)
    <3>1. Part(v, f, Len(f.payload)) = w.data
      BY <1>1, PartParts DEF Whole
    <3>2. InText(Msg(x), Part(v, f, Len(f.payload)))
      BY DEF InFrame
    <3> QED
      BY <1>3, <3>1, <3>2
  <2> QED
    BY <1>1, <1>3, <1>4, <2>1 DEF DataSlot, InFrame, Holding
<1>7. Ready(y, w)
  BY <1>1, <1>3, <1>5, <1>6 DEF Ready, AtFrameStart
<1>8. Bounded(y)
  BY <1>5 DEF Bounded
<1> QED
  BY <1>5, <1>7, <1>8 DEF y, w

(* A message is complete: its slot is free (event.c 36-45, 478-485).       *)
LEMMA MessageDoneEffect ==
    ASSUME NEW x \in Rx, NEW v \in View, ViewSound(v), NEW f \in Frame, Fits(f, v),
           IsCtrl(f) => f.fin, InSlot(x, v, f), Bounded(x), f.fin
    PROVE  LET y == MessageDone(x)
           IN  /\ y \in Rx /\ Ready(y, AddFrame(v, f)) /\ Bounded(y)
               /\ y.starts = x.starts /\ y.ends = x.ends
<1> DEFINE y == MessageDone(x)
           w == AddFrame(v, f)
           m == imsg_reset(Msg(x))
           z == [ x EXCEPT !.imsgs[x.imsg] = m ]
<1>1. Msg(x) \in Imsg /\ x.imsg \in 0..1
  BY DEF Rx, Msg
<1>2. m \in Imsg /\ IdleSlot(m)
  <2> DEFINE C == Seq(Seq({Uninit} \cup Byte))
             k == Msg(x)
  <2>1. k \in [ fin : BOOLEAN, opcode : 0..255, utf8state : Utf8States, chunks : C,
                msg_length : Nat, freed : BOOLEAN ]
    BY <1>1 DEF Imsg
  <2>2. << >> \in C /\ UTF8_ACCEPT \in Utf8States /\ NoOpcode \in 0..255
    BY DEF UTF8_ACCEPT, Utf8States, NoOpcode
  <2>3. m = [ k EXCEPT !.opcode = NoOpcode, !.utf8state = UTF8_ACCEPT, !.chunks = << >>, !.freed = TRUE ]
    BY DEF imsg_reset
  <2> HIDE DEF C, k, m
  <2>4. /\ m \in [ fin : BOOLEAN, opcode : 0..255, utf8state : Utf8States, chunks : C,
                  msg_length : Nat, freed : BOOLEAN ]
        /\ m.opcode = NoOpcode /\ m.chunks = << >> /\ m.utf8state = UTF8_ACCEPT
    BY <2>1, <2>2, <2>3
  <2> QED
    BY <2>4 DEF Imsg, C, IdleSlot
<1>3. y = [ z EXCEPT !.imsg = 0, !.ipayloadlen = 0, !.ipayloadoff = 0 ]
  BY DEF MessageDone, FrameDone, Msg, Rx
<1> HIDE DEF m
<1>4. Wrote(z, x, m) /\ z.starts = x.starts /\ z.ends = x.ends
  BY <1>2, CurrentSlotWrite
<1> HIDE DEF z, y
<1>5. /\ y \in Rx /\ y.imsgs = z.imsgs /\ y.imsg = 0 /\ y.ipayloadlen = 0 /\ y.ipayloadoff = 0
      /\ y.starts = z.starts /\ y.ends = z.ends
  <2> DEFINE I == [ 0..1 -> Imsg ]
  <2>1. z \in [ imsgs : I, imsg : 0..1, ipayloadlen : Nat, ipayloadoff : Nat,
                starts : Nat, ends : Nat ]
    BY <1>4 DEF Wrote, Rx
  <2> HIDE DEF I
  <2>2. /\ y \in [ imsgs : I, imsg : 0..1, ipayloadlen : Nat, ipayloadoff : Nat,
                  starts : Nat, ends : Nat ]
        /\ y.imsgs = z.imsgs /\ y.imsg = 0 /\ y.ipayloadlen = 0 /\ y.ipayloadoff = 0
        /\ y.starts = z.starts /\ y.ends = z.ends
    <3> DEFINE o == 0
    <3>1. o \in Nat /\ o \in 0..1
      OBVIOUS
    <3>2. y = [ z EXCEPT !.imsg = o, !.ipayloadlen = o, !.ipayloadoff = o ]
      BY <1>3
    <3> HIDE DEF o
    <3>3. /\ y \in [ imsgs : I, imsg : 0..1, ipayloadlen : Nat, ipayloadoff : Nat,
                    starts : Nat, ends : Nat ]
          /\ y.imsgs = z.imsgs /\ y.imsg = o /\ y.ipayloadlen = o /\ y.ipayloadoff = o
          /\ y.starts = z.starts /\ y.ends = z.ends
      BY <2>1, <3>1, <3>2
    <3> QED
      BY <3>3 DEF o
  <2> QED
    BY <2>2 DEF Rx, I
<1>6. Bounded(z)
  BY <1>2, <1>4, BoundedKept DEF IdleSlot
<1>7. Bounded(y)
  BY <1>5, <1>6 DEF Bounded
<1>8. Ready(y, w)
  <2>1. CASE IsCtrl(f) /\ v.opcode # NoOpcode
    <3>1. x.imsg = 1 /\ DataSlot(x.imsgs[0], v)
      BY <2>1 DEF InSlot
    <3>2. y.imsgs[1] = m /\ y.imsgs[0] = x.imsgs[0]
      BY <1>4, <1>5, <3>1 DEF Wrote
    <3>3. w.opcode = v.opcode /\ w.data = v.data
      BY <2>1, AddFrameCases
    <3>4. DataSlot(y.imsgs[0], w)
      BY <3>1, <3>2, <3>3 DEF DataSlot
    <3> QED
      BY <1>2, <1>5, <2>1, <3>2, <3>3, <3>4 DEF Ready, AtFrameStart
  <2>2. CASE ~(IsCtrl(f) /\ v.opcode # NoOpcode)
    <3>1. x.imsg = 0 /\ IdleSlot(x.imsgs[1])
      BY <2>2 DEF InSlot
    <3>2. y.imsgs[0] = m /\ y.imsgs[1] = x.imsgs[1]
      BY <1>4, <1>5, <3>1 DEF Wrote
    <3>3. w.opcode = NoOpcode
      BY <2>2, AddFrameCases
    <3> QED
      BY <1>2, <1>5, <3>1, <3>2, <3>3 DEF Ready, AtFrameStart
  <2> QED
    BY <2>1, <2>2
<1> QED
  BY <1>4, <1>5, <1>7, <1>8 DEF y, w

(* The end of the frame is counted.                                        *)
LEMMA EndsEffect ==
    ASSUME NEW x \in Rx, NEW v, NEW f, NEW t, InFrame(x, v, f, t), Bounded(x)
    PROVE  LET y == [ x EXCEPT !.ends = @ + 1 ]
           IN  /\ y \in Rx /\ InFrame(y, v, f, t) /\ Bounded(y) /\ Msg(y) = Msg(x)
               /\ y.starts = x.starts /\ y.ends = x.ends + 1
<1> DEFINE y == [ x EXCEPT !.ends = @ + 1 ]
<1>1. /\ y \in Rx /\ y.imsgs = x.imsgs /\ y.imsg = x.imsg /\ y.ipayloadlen = x.ipayloadlen
      /\ y.ipayloadoff = x.ipayloadoff /\ y.starts = x.starts /\ y.ends = x.ends + 1
  BY DEF Rx
<1> HIDE DEF y
<1>2. Bounded(y) /\ InSlot(y, v, f) /\ Msg(y) = Msg(x)
  BY <1>1 DEF Bounded, InSlot, Msg, InFrame, Holding
<1>3. Holding(y, v, f, t)
  BY <1>1, <1>2 DEF InFrame, Holding
<1> QED
  BY <1>1, <1>2, <1>3 DEF InFrame, y

(* Flattening takes the chunks and leaves the rest.                        *)
LEMMA EmptiedEffect ==
    ASSUME NEW x \in Rx, NEW v, NEW f, InSlot(x, v, f), Bounded(x), NEW iocb
    PROVE  LET y == Emptied(x, iocb)
           IN  /\ y \in Rx /\ InSlot(y, v, f) /\ Bounded(y) /\ Msg(y).opcode = Msg(x).opcode
               /\ y.starts = x.starts /\ y.ends = x.ends
<1> DEFINE y == Emptied(x, iocb)
           m == [ Msg(x) EXCEPT !.chunks = << >> ]
<1>1. Msg(x) \in Imsg
  BY DEF Rx, Msg
<1>2. CASE ~IsBuffered(iocb)
  BY <1>2 DEF Emptied
<1>3. CASE IsBuffered(iocb)
  <2>1. y = [ x EXCEPT !.imsgs[x.imsg] = m ]
    BY <1>3 DEF Emptied, Msg, Rx
  <2>2. m \in Imsg /\ m.opcode = Msg(x).opcode /\ m.msg_length = Msg(x).msg_length
    <3> DEFINE C == Seq(Seq({Uninit} \cup Byte))
               k == Msg(x)
    <3>1. << >> \in C /\ k \in [ fin : BOOLEAN, opcode : 0..255, utf8state : Utf8States,
                                 chunks : C, msg_length : Nat, freed : BOOLEAN ]
      BY <1>1 DEF Imsg
    <3>2. m = [ k EXCEPT !.chunks = << >> ]
      OBVIOUS
    <3> HIDE DEF C, k, m
    <3>3. /\ m \in [ fin : BOOLEAN, opcode : 0..255, utf8state : Utf8States,
                    chunks : C, msg_length : Nat, freed : BOOLEAN ]
          /\ m.opcode = k.opcode /\ m.msg_length = k.msg_length
      BY <3>1, <3>2
    <3> QED
      BY <3>3 DEF Imsg, C, k
  <2> HIDE DEF m, y
  <2>3. Wrote(y, x, m) /\ y.starts = x.starts /\ y.ends = x.ends
    BY <2>1, <2>2, CurrentSlotWrite
  <2>4. InSlot(y, v, f) /\ Msg(y) = m
    BY <2>3, InSlotKept
  <2>5. m.opcode # NoOpcode => m.msg_length <= max_recv_msg_length
    BY <2>2 DEF Bounded, Rx, Msg
  <2>6. Bounded(y)
    BY <2>3, <2>5, BoundedKept
  <2> QED
    BY <2>2, <2>3, <2>4, <2>6 DEF Wrote, y
<1> QED
  BY <1>2, <1>3

-----------------------------------------------------------------------------
(* The frames received, before and after a chunk *)

(* The last element of a sequence made longer, and what it was before.     *)
LEMMA AppendFacts ==
    ASSUME NEW S, NEW s \in Seq(S), NEW e \in S
    PROVE  LET t == Append(s, e)
           IN  /\ t \in Seq(S) /\ t # << >> /\ Len(t) = Len(s) + 1 /\ Len(s) \in Nat
               /\ t[Len(t)] = e /\ Last(t) = e /\ Front(t) = s
               /\ \A i \in 1..Len(s) : t[i] = s[i]
               /\ SubSeq(t, 1, Len(s)) = s
<1> DEFINE t == Append(s, e)
           n == Len(s)
           u == SubSeq(t, 1, n)
<1>1. /\ t \in Seq(S) /\ t # << >> /\ Len(t) = n + 1 /\ n \in Nat /\ t[n + 1] = e
      /\ \A i \in 1..n : t[i] = s[i]
  OBVIOUS
<1> HIDE DEF t, n
<1>2. u = s
  <2>1. /\ u \in Seq(S) /\ Len(u) = IF 1 <= n THEN n - 1 + 1 ELSE 0
        /\ \A i \in 1..(n - 1 + 1) : u[i] = t[1 + i - 1]
    <3>1. \A i \in 1..n : t[i] \in S
      BY <1>1
    <3>2. 1 \in Int /\ n \in Int
      BY <1>1
    <3> QED
      BY <3>1, <3>2, SubSeqProperties
  <2> HIDE DEF u
  <2>2. Len(u) = n /\ \A i \in 1..n : u[i] = s[i]
    BY <1>1, <2>1
  <2> QED
    BY <2>1, <2>2, SeqEqual DEF n
<1>3. Last(t) = e /\ Front(t) = u
  BY <1>1 DEF Last, Front
<1> QED
  BY <1>1, <1>2, <1>3 DEF t, n

(* A call hands on the bytes t + 1 to n of f; W came before f.             *)
Receiving(W, f, t, n, iocb) ==
    /\ W \in Seq(Frames) /\ f \in Frames /\ Carries(iocb, f, t, n)
    /\ iocb.rsv = f.rsv /\ iocb.mask = f.mask
    /\ f.payload # << >> => t < n
    /\ source' = [ peer |-> Append(W, f), taken |-> n, open |-> n < Len(f.payload) ]
    /\ WholeFrames = W
    /\ IF source.open THEN source.peer = Append(W, f) /\ source.taken = t
       ELSE source.peer = W /\ t = 0

(* What wslay_frame_recv hands on is a part of the last or of a new frame. *)
LEMMA CutChunk ==
    ASSUME NEW f \in Frame, NEW t \in Nat, t <= Len(f.payload),
           NEW n \in IF f.payload = << >> THEN {0} ELSE (t + 1)..Len(f.payload)
    PROVE  /\ Carries(SourceIocb(f, t, n), f, t, n)
           /\ SourceIocb(f, t, n).rsv = f.rsv /\ SourceIocb(f, t, n).mask = f.mask
           /\ f.payload # << >> => t < n
<1> DEFINE io == SourceIocb(f, t, n)
           d == SubSeq(f.payload, t + 1, n)
           len == Len(f.payload)
<1>1. f.payload \in Seq(Byte) /\ len \in Nat /\ (f.payload = << >> <=> len = 0)
  BY DEF Frame
<1>2. n \in Nat /\ t <= n /\ n <= len /\ (f.payload # << >> => t < n)
  BY <1>1
<1>3. /\ io.fin = f.fin /\ io.opcode = f.opcode /\ io.payload_length = len /\ io.data = d
      /\ io.rsv = f.rsv /\ io.mask = f.mask
  BY DEF SourceIocb
<1> HIDE DEF io
<1>4. d \in Seq(Byte) /\ Len(d) = n - t /\ \A i \in 1..(n - t) : d[i] = f.payload[t + i]
  <2>1. \A i \in (t + 1)..n : f.payload[i] \in Byte
    BY <1>1, <1>2
  <2>2. t + 1 \in Int /\ n \in Int
    BY <1>2
  <2>3. /\ d \in Seq(Byte) /\ Len(d) = IF t + 1 <= n THEN n - (t + 1) + 1 ELSE 0
        /\ \A i \in 1..(n - (t + 1) + 1) : d[i] = f.payload[(t + 1) + i - 1]
    BY <2>1, <2>2, SubSeqProperties
  <2> HIDE DEF d
  <2>4. \A i \in 1..(n - t) : (t + 1) + i - 1 = t + i /\ i \in 1..(n - (t + 1) + 1)
    BY <1>2
  <2> QED
    BY <1>2, <2>3, <2>4, SMTT(40)
<1> HIDE DEF d
<1>5. Carries(io, f, t, n)
  BY <1>2, <1>3, <1>4 DEF Carries, IocbOf
<1> QED
  BY <1>2, <1>3, <1>5 DEF io

(* What a call of wslay_frame_recv that returns a chunk does.              *)
LEMMA NextChunk ==
    ASSUME SourceTypeOK, SourceSound, NEW o \in wslay_frame_recv(source), o.result = 0,
           source' = o.source
    PROVE  \E W, f, t, n : Receiving(W, f, t, n, o.iocb)
<1>1. /\ source.peer \in Seq(Frames) /\ source.open \in BOOLEAN /\ source.taken \in Nat
      /\ Frames \subseteq Frame
  BY FramesAssumption DEF SourceTypeOK, SourceSound
<1>2. o \notin NoChunk(source)
  <2>1. \A p \in NoChunk(source) : p.result \in {WSLAY_ERR_WANT_READ, WSLAY_ERR_PROTO}
    BY DEF NoChunk
  <2> QED
    BY <2>1 DEF WSLAY_ERR_WANT_READ, WSLAY_ERR_PROTO
<1>3. CASE source.open
  <2> DEFINE W == Front(source.peer)
             f == source.peer[Len(source.peer)]
             t == source.taken
  <2>1. source.peer # << >> /\ Last(source.peer) = f /\ t \in 1..(Len(f.payload) - 1)
    BY <1>3 DEF SourceSound, Last
  <2>2. W \in Seq(Frames) /\ f \in Frames /\ source.peer = Append(W, f) /\ WholeFrames = W
    BY <1>1, <1>3, <2>1, FrontAndLast DEF Front, WholeFrames
  <2>3. o \in Chunks(source.peer, f, t)
    BY <1>2, <1>3 DEF wslay_frame_recv
  <2> HIDE DEF W, f, t
  <2>4. PICK n \in IF f.payload = << >> THEN {0} ELSE (t + 1)..Len(f.payload) :
          o = [ source |-> [ peer |-> source.peer, taken |-> n, open |-> n < Len(f.payload) ],
                iocb |-> SourceIocb(f, t, n), result |-> 0, failed |-> FALSE ]
    BY <2>3 DEF Chunks
  <2>5. /\ o.source = [ peer |-> source.peer, taken |-> n, open |-> n < Len(f.payload) ]
        /\ o.iocb = SourceIocb(f, t, n)
    BY <2>4
  <2>6. f \in Frame /\ t \in Nat /\ t <= Len(f.payload) /\ source.taken = t
    BY <1>1, <2>1, <2>2 DEF t, Frame
  <2>7. /\ Carries(o.iocb, f, t, n) /\ o.iocb.rsv = f.rsv /\ o.iocb.mask = f.mask
        /\ f.payload # << >> => t < n
    BY <2>5, <2>6, CutChunk
  <2>8. source' = [ peer |-> Append(W, f), taken |-> n, open |-> n < Len(f.payload) ]
    BY <2>2, <2>5
  <2>9. Receiving(W, f, t, n, o.iocb)
    BY <1>3, <2>2, <2>6, <2>7, <2>8 DEF Receiving
  <2> QED
    BY <2>9
<1>4. CASE ~source.open
  <2> DEFINE W == source.peer
  <2>1. o \in UNION { Chunks(Append(source.peer, f), f, 0) : f \in Frames }
    BY <1>2, <1>4 DEF wslay_frame_recv
  <2>2. PICK f \in Frames : o \in Chunks(Append(W, f), f, 0)
    BY <2>1
  <2>3. W \in Seq(Frames) /\ WholeFrames = W /\ f \in Frame /\ 0 \in Nat /\ 0 <= Len(f.payload)
    BY <1>1, <1>4 DEF WholeFrames, Frame
  <2>4. PICK n \in IF f.payload = << >> THEN {0} ELSE (0 + 1)..Len(f.payload) :
          o = [ source |-> [ peer |-> Append(W, f), taken |-> n, open |-> n < Len(f.payload) ],
                iocb |-> SourceIocb(f, 0, n), result |-> 0, failed |-> FALSE ]
    BY <2>2 DEF Chunks
  <2>5. /\ o.source = [ peer |-> Append(W, f), taken |-> n, open |-> n < Len(f.payload) ]
        /\ o.iocb = SourceIocb(f, 0, n)
    BY <2>4
  <2>6. /\ Carries(o.iocb, f, 0, n) /\ o.iocb.rsv = f.rsv /\ o.iocb.mask = f.mask
        /\ f.payload # << >> => 0 < n
    BY <2>3, <2>5, CutChunk
  <2>7. Receiving(W, f, 0, n, o.iocb)
    BY <1>4, <2>3, <2>5, <2>6 DEF Receiving
  <2> QED
    BY <2>7
<1> QED
  BY <1>1, <1>3, <1>4

(* The frames after the call.                                              *)
LEMMA NewSource ==
    ASSUME NEW W, NEW f, NEW t, NEW n, NEW iocb, Receiving(W, f, t, n, iocb)
    PROVE  /\ SourceSound' /\ SourceTypeOK'
           /\ source'.peer = Append(W, f) /\ source'.taken = n
           /\ (source'.open <=> n < Len(f.payload))
           /\ WholeFrames' = (IF n < Len(f.payload) THEN W ELSE Append(W, f))
           /\ Len(source'.peer) = Len(W) + 1 /\ Last(source'.peer) = f
           /\ source'.peer[Len(source'.peer)] = f
           /\ W \in Seq(Frame) /\ f \in Frame /\ Len(W) \in Nat /\ W \in Seq(Frames) /\ f \in Frames
           /\ n \in Nat /\ n <= Len(f.payload) /\ Len(f.payload) \in Nat
<1> DEFINE p == Append(W, f)
<1>1. W \in Seq(Frames) /\ f \in Frames /\ Frames \subseteq Frame
  BY FramesAssumption DEF Receiving
<1>2. W \in Seq(Frame) /\ f \in Frame /\ f.payload \in Seq(Byte)
  <2>1. W \in Seq(Frame) /\ f \in Frame
    BY <1>1
  <2> QED
    BY <2>1 DEF Frame
<1>3. /\ p \in Seq(Frames) /\ p # << >> /\ Len(p) = Len(W) + 1 /\ Len(W) \in Nat
      /\ p[Len(p)] = f /\ Last(p) = f /\ Front(p) = W
  BY <1>1, AppendFacts
<1>4. p \in Seq(Frame)
  BY <1>2
<1> HIDE DEF p
<1>5. /\ n \in Nat /\ t \in Nat /\ t <= n /\ n <= Len(f.payload) /\ Len(f.payload) \in Nat
      /\ (f.payload # << >> => t < n)
  BY <1>2 DEF Receiving, Carries
<1>6. source' = [ peer |-> p, taken |-> n, open |-> n < Len(f.payload) ]
  BY DEF Receiving, p
<1>7. source'.peer = p /\ source'.taken = n /\ (source'.open <=> n < Len(f.payload))
  BY <1>6
<1>8. SourceTypeOK'
  BY <1>4, <1>5, <1>6 DEF SourceTypeOK
<1>9. IF n < Len(f.payload) THEN n \in 1..(Len(f.payload) - 1) ELSE n = Len(f.payload)
  BY <1>2, <1>5
<1>10. SourceSound'
  BY <1>3, <1>7, <1>9 DEF SourceSound
<1>11. WholeFrames' = IF n < Len(f.payload) THEN W ELSE p
  BY <1>3, <1>7 DEF WholeFrames
<1> QED
  BY <1>1, <1>2, <1>3, <1>5, <1>7, <1>8, <1>10, <1>11 DEF p

-----------------------------------------------------------------------------
(* The ways an iteration may go *)

(* The receiving fields at a point of the iteration.                       *)
Counted(x, starts, ends) == x \in Rx /\ Bounded(x) /\ x.starts = starts /\ x.ends = ends

NotText(v, f, n, s, e) ==
    /\ Unreadable(v, f, n)
    /\ \E x : Counted(x, s, e) /\ FailConnection(WSLAY_CODE_INVALID_FRAME_PAYLOAD_DATA, x)

Stored(v, f, n, iocb, s, e) ==
    \E x : /\ Counted(x, s, e) /\ InFrame(x, v, f, n)
           /\ IF n = Len(f.payload) THEN EndFrame(x, iocb) ELSE GoOn(x)

Refused == FailConnection(WSLAY_CODE_PROTOCOL_ERROR, rx)

TooBig(v, f, iocb, s, e) ==
    \E x : /\ Counted(x, s, e) /\ Opened(x, v, f) /\ IsTooBig(x, iocb)
           /\ FailConnection(WSLAY_CODE_MESSAGE_TOO_BIG, x)

NoRoom(s, e) == \E x : Counted(x, s, e) /\ Stop(x, -1)

(* The bytes of a chunk are no text, or they are stored.                   *)
LEMMA ChunkOutcome ==
    ASSUME NEW x \in Rx, NEW v \in View, ViewSound(v), NEW f \in Frame, Fits(f, v),
           NEW t, NEW n, InFrame(x, v, f, t), Bounded(x), NEW iocb, Carries(iocb, f, t, n),
           ReceiveChunk(x, iocb)
    PROVE  NotText(v, f, n, x.starts, x.ends) \/ Stored(v, f, n, iocb, x.starts, x.ends)
<1> DEFINE y == CheckUtf8(x, iocb)
           z == StoreData(y, iocb)
<1>1. /\ y \in Rx /\ Holding(y, v, f, t) /\ Bounded(y) /\ y.starts = x.starts /\ y.ends = x.ends
      /\ Msg(y).utf8state # UTF8_REJECT => InText(Msg(y), Part(v, f, n))
      /\ Msg(y).utf8state = UTF8_REJECT => Unreadable(v, f, n)
  BY Utf8Effect
<1>2. Msg(y).utf8state # UTF8_REJECT =>
        /\ z \in Rx /\ InFrame(z, v, f, n) /\ Bounded(z)
        /\ z.starts = y.starts /\ z.ends = y.ends
  <2> HIDE DEF y
  <2> QED
    BY <1>1, StoreEffect
<1>3. IF Msg(y).utf8state = UTF8_REJECT
      THEN FailConnection(WSLAY_CODE_INVALID_FRAME_PAYLOAD_DATA, y)
      ELSE IF z.ipayloadoff = z.ipayloadlen THEN EndFrame(z, iocb) ELSE GoOn(z)
  BY DEF ReceiveChunk
<1> HIDE DEF y, z
<1>5. CASE Msg(y).utf8state = UTF8_REJECT
  BY <1>1, <1>3, <1>5 DEF NotText, Counted
<1>6. CASE Msg(y).utf8state # UTF8_REJECT
  <2>0. z.ipayloadoff = n /\ z.ipayloadlen = Len(f.payload)
    BY <1>2, <1>6 DEF InFrame, Holding
  <2>1. IF n = Len(f.payload) THEN EndFrame(z, iocb) ELSE GoOn(z)
    BY <1>3, <1>6, <2>0
  <2>2. Counted(z, x.starts, x.ends)
    BY <1>1, <1>2, <1>6 DEF Counted
  <2> QED
    BY <1>2, <1>6, <2>1, <2>2 DEF Stored
<1> QED
  BY <1>5, <1>6

(* The opcode of a message in a slot is that of a message.                 *)
LEMMA OpcodeKnown ==
    ASSUME NEW v \in View, ViewSound(v), NEW f \in Frame, Fits(f, v)
    PROVE  OpcodeOf(f, v) \in Opcodes \ {WSLAY_CONTINUATION_FRAME} /\ OpcodeOf(f, v) # NoOpcode
  BY DEF OpcodeOf, ViewSound, Fits, KnownCtrl, Opcodes, NoOpcode, WSLAY_CONNECTION_CLOSE,
         WSLAY_PING, WSLAY_PONG, WSLAY_CONTINUATION_FRAME, WSLAY_TEXT_FRAME, WSLAY_BINARY_FRAME

(* A frame is refused exactly if it does not fit.                          *)
LEMMA RefusedIfUnfit ==
    ASSUME rx \in Rx, NEW v \in View, ViewSound(v), NEW f \in Frame, Ready(rx, v),
           NEW iocb, IocbOf(iocb, f), iocb.rsv = f.rsv, iocb.mask = f.mask
    PROVE  (IsMalformed(iocb) \/ IsOutOfPlace(rx, iocb)) <=> ~Fits(f, v)
<1>1. Msg(rx) = rx.imsgs[0] /\ AtFrameStart(rx) /\ iocb.opcode = f.opcode
  BY DEF Ready, Msg, IocbOf
<1>2. Msg(rx).opcode = NoOpcode <=> v.opcode = NoOpcode
  BY <1>1 DEF Ready, IdleSlot, DataSlot
<1>3. CASE v.opcode = NoOpcode
  BY <1>1, <1>2, <1>3 DEF IsMalformed, IsOutOfPlace, Fits
<1>4. CASE v.opcode # NoOpcode
  BY <1>1, <1>2, <1>4 DEF IsMalformed, IsOutOfPlace, Fits
<1> QED
  BY <1>3, <1>4

(* The first chunk of a frame.                                             *)
LEMMA FirstChunkOutcome ==
    ASSUME rx \in Rx, Bounded(rx), NEW v \in View, ViewSound(v), NEW f \in Frame, Ready(rx, v),
           NEW n, NEW iocb, Carries(iocb, f, 0, n), iocb.rsv = f.rsv, iocb.mask = f.mask,
           ReceiveFrame(iocb)
    PROVE  \/ ~Fits(f, v) /\ Refused
           \/ /\ Fits(f, v)
              /\ \/ TooBig(v, f, iocb, rx.starts, rx.ends)
                 \/ NoRoom(rx.starts + 1, rx.ends)
                 \/ NotText(v, f, n, rx.starts + 1, rx.ends)
                 \/ Stored(v, f, n, iocb, rx.starts + 1, rx.ends)
<1>1. IocbOf(iocb, f)
  BY DEF Carries
<1>2. (IsMalformed(iocb) \/ IsOutOfPlace(rx, iocb)) <=> ~Fits(f, v)
  BY <1>1, RefusedIfUnfit
<1>3. CASE ~Fits(f, v)
  BY <1>2, <1>3 DEF ReceiveFrame, Refused
<1>4. CASE Fits(f, v)
  <2> DEFINE x == Open(rx, iocb)
             y == StartFrame(x, iocb)
             z == [ x EXCEPT !.ipayloadlen = iocb.payload_length, !.starts = @ + 1 ]
  <2>1. x \in Rx /\ Opened(x, v, f) /\ Bounded(x) /\ x.starts = rx.starts /\ x.ends = rx.ends
    BY <1>1, <1>4, OpenEffect
  <2>2. IsNewFrame(rx)
    BY DEF Ready, IsNewFrame
  <2>3. \/ IsTooBig(x, iocb) /\ FailConnection(WSLAY_CODE_MESSAGE_TOO_BIG, x)
        \/ ~IsTooBig(x, iocb) /\ ReceiveChunk(y, iocb)
        \/ Stop(z, -1)
    BY <1>2, <1>4, <2>2, Zenon DEF ReceiveFrame
  <2> HIDE DEF x
  <2>4. CASE IsTooBig(x, iocb) /\ FailConnection(WSLAY_CODE_MESSAGE_TOO_BIG, x)
    BY <1>4, <2>1, <2>4 DEF TooBig, Counted
  <2>5. CASE ~IsTooBig(x, iocb) /\ ReceiveChunk(y, iocb)
    <3>1. /\ y \in Rx /\ InFrame(y, v, f, 0) /\ Bounded(y)
          /\ y.starts = rx.starts + 1 /\ y.ends = rx.ends
      BY <1>1, <1>4, <2>1, <2>5, StartEffect
    <3> HIDE DEF y
    <3>2. NotText(v, f, n, y.starts, y.ends) \/ Stored(v, f, n, iocb, y.starts, y.ends)
      BY <1>4, <2>5, <3>1, ChunkOutcome
    <3> QED
      BY <1>4, <3>1, <3>2
  <2>6. CASE Stop(z, -1)
    <3>1. iocb.payload_length \in Nat
      BY <1>1, MessageTypes DEF IocbOf
    <3>2. /\ z \in Rx /\ z.imsgs = x.imsgs /\ z.starts = rx.starts + 1 /\ z.ends = rx.ends
      <4> DEFINE I == [ 0..1 -> Imsg ]
                 len == iocb.payload_length
                 s == x.starts + 1
      <4>1. x \in [ imsgs : I, imsg : 0..1, ipayloadlen : Nat, ipayloadoff : Nat,
                    starts : Nat, ends : Nat ] /\ s \in Nat /\ len \in Nat
        BY <2>1, <3>1 DEF Rx
      <4>2. z = [ x EXCEPT !.ipayloadlen = len, !.starts = s ]
        OBVIOUS
      <4> HIDE DEF I, s, len, z
      <4>3. /\ z \in [ imsgs : I, imsg : 0..1, ipayloadlen : Nat, ipayloadoff : Nat,
                      starts : Nat, ends : Nat ]
            /\ z.imsgs = x.imsgs /\ z.starts = s /\ z.ends = x.ends
        BY <4>1, <4>2
      <4> QED
        BY <2>1, <4>3 DEF Rx, I, s
    <3> HIDE DEF z
    <3>3. Bounded(z)
      BY <2>1, <3>2 DEF Bounded
    <3> QED
      BY <1>4, <2>6, <3>2, <3>3 DEF NoRoom, Counted
  <2> QED
    BY <2>3, <2>4, <2>5, <2>6
<1> QED
  BY <1>3, <1>4

(* A further chunk of a frame.                                             *)
LEMMA FurtherChunkOutcome ==
    ASSUME rx \in Rx, Bounded(rx), NEW v \in View, ViewSound(v), NEW f \in Frame, Fits(f, v),
           NEW t, t > 0, NEW n, InFrame(rx, v, f, t),
           NEW iocb, Carries(iocb, f, t, n), iocb.rsv = f.rsv, iocb.mask = f.mask,
           ReceiveFrame(iocb)
    PROVE  NotText(v, f, n, rx.starts, rx.ends) \/ Stored(v, f, n, iocb, rx.starts, rx.ends)
<1>1. ~AtFrameStart(rx) /\ Msg(rx).opcode # NoOpcode
  BY OpcodeKnown DEF InFrame, Holding, Carries, AtFrameStart
<1>2. ~IsMalformed(iocb) /\ ~IsOutOfPlace(rx, iocb) /\ ~IsNewFrame(rx) /\ Open(rx, iocb) = rx
  BY <1>1 DEF IsMalformed, IsOutOfPlace, IsNewFrame, Open, Fits
<1>3. ReceiveChunk(rx, iocb)
  BY <1>2 DEF ReceiveFrame
<1> QED
  BY <1>3, ChunkOutcome

(* The frame is complete and the next one is awaited.                      *)
Continues(v, f, s, e) == \E x : Counted(x, s, e) /\ Ready(x, AddFrame(v, f)) /\ GoOn(x)

(* The message is complete and is in the slot.                             *)
Complete(x, v, f, s, e) == Counted(x, s, e) /\ InFrame(x, v, f, Len(f.payload))

(* A text that is complete is UTF-8.                                       *)
Readable(f, v) == OpcodeOf(f, v) = WSLAY_TEXT_FRAME => IsUtf8(Whole(f, v))

(* What the check at the end of a message says (event.c 397-406).          *)
LEMMA EndOfText ==
    ASSUME NEW x, NEW v \in View, ViewSound(v), NEW f \in Frame, Fits(f, v), f.fin,
           InFrame(x, v, f, Len(f.payload))
    PROVE  IF IsUtf8Checked(Msg(x)) /\ Msg(x).utf8state # UTF8_ACCEPT
           THEN Unreadable(v, f, Len(f.payload))
           ELSE Readable(f, v)
<1> DEFINE n == Len(f.payload)
           m == Msg(x)
           u == DecodeAll(UTF8_ACCEPT, Part(v, f, n))
<1>1. m.opcode = OpcodeOf(f, v) /\ InText(m, Part(v, f, n))
  BY DEF InFrame, Holding
<1>2. n \in Nat /\ n <= Len(f.payload) /\ Part(v, f, n) = Whole(f, v)
  BY MessageTypes, PartParts DEF Whole
<1>3. /\ u # UTF8_ACCEPT => Unreadable(v, f, n)
      /\ u = UTF8_ACCEPT => IsUtf8(Part(v, f, n))
  <2>1. n = Len(f.payload)
    OBVIOUS
  <2> HIDE DEF n
  <2> QED
    BY <1>2, <2>1, UnreadableText
<1>4. ~wslay_is_ctrl_frame(WSLAY_TEXT_FRAME) /\ wslay_is_ctrl_frame(WSLAY_CONNECTION_CLOSE)
  BY CtrlBits
<1>5. m.opcode = WSLAY_CONNECTION_CLOSE => Unreadable(v, f, n)
  BY <1>1, CloseOpcodeOf DEF Unreadable
<1>6. m.opcode = WSLAY_TEXT_FRAME => m.utf8state = u
  BY <1>1, <1>4 DEF InText
<1> HIDE DEF m, n, u
<1>7. CASE m.opcode = WSLAY_TEXT_FRAME
  BY <1>1, <1>2, <1>3, <1>6, <1>7 DEF Readable, IsUtf8Checked, m, n
<1>8. CASE m.opcode # WSLAY_TEXT_FRAME
  <2>1. IsUtf8Checked(m) => Unreadable(v, f, n)
    BY <1>5, <1>8 DEF IsUtf8Checked
  <2>2. Readable(f, v)
    BY <1>1, <1>8 DEF Readable
  <2> QED
    BY <2>1, <2>2 DEF m, n
<1> QED
  BY <1>7, <1>8

(* The end of a frame (event.c 397-407).                                   *)
LEMMA EndOutcome ==
    ASSUME NEW x, NEW s, NEW e, NEW v \in View, ViewSound(v), NEW f \in Frame, Fits(f, v),
           IsCtrl(f) => f.fin, Complete(x, v, f, s, e), NEW iocb, EndFrame(x, iocb)
    PROVE  \/ NotText(v, f, Len(f.payload), s, e)
           \/ ~f.fin /\ Continues(v, f, s, e + 1)
           \/ /\ f.fin /\ Readable(f, v)
              /\ \E y : Complete(y, v, f, s, e + 1) /\ ReceiveMessage(y, iocb)
<1> DEFINE y == [ x EXCEPT !.ends = @ + 1 ]
           z == FrameDone(y)
<1>1. x \in Rx /\ Bounded(x) /\ x.starts = s /\ x.ends = e /\ InFrame(x, v, f, Len(f.payload))
  BY DEF Complete, Counted
<1>2. /\ y \in Rx /\ InFrame(y, v, f, Len(f.payload)) /\ Bounded(y)
      /\ y.starts = s /\ y.ends = e + 1
  BY <1>1, EndsEffect
<1>3. IF Msg(x).fin /\ IsUtf8Checked(Msg(x)) /\ Msg(x).utf8state # UTF8_ACCEPT
      THEN FailConnection(WSLAY_CODE_INVALID_FRAME_PAYLOAD_DATA, x)
      ELSE IF Msg(y).fin THEN ReceiveMessage(y, iocb) ELSE GoOn(z)
  BY Zenon DEF EndFrame
<1> HIDE DEF y
<1>4. Msg(y).fin = f.fin /\ Msg(x).fin = f.fin
  BY <1>1, <1>2 DEF InFrame, Holding
<1> DEFINE bad == IsUtf8Checked(Msg(x)) /\ Msg(x).utf8state # UTF8_ACCEPT
<1>5. f.fin => IF bad THEN Unreadable(v, f, Len(f.payload)) ELSE Readable(f, v)
  BY <1>1, EndOfText
<1>6. CASE f.fin /\ bad
  <2>1. FailConnection(WSLAY_CODE_INVALID_FRAME_PAYLOAD_DATA, x) /\ Unreadable(v, f, Len(f.payload))
    BY <1>3, <1>4, <1>5, <1>6
  <2> QED
    BY <2>1 DEF NotText, Complete
<1>7. CASE f.fin /\ ~bad
  <2>1. ReceiveMessage(y, iocb) /\ Readable(f, v)
    BY <1>3, <1>4, <1>5, <1>7, Zenon
  <2> QED
    BY <1>2, <1>7, <2>1 DEF Complete, Counted
<1>8. CASE ~f.fin
  <2>0. GoOn(z)
    BY <1>3, <1>4, <1>8, Zenon
  <2>1. /\ z \in Rx /\ Ready(z, AddFrame(v, f)) /\ Bounded(z)
        /\ z.starts = y.starts /\ z.ends = y.ends
    BY <1>2, <1>8, FrameDoneEffect
  <2> HIDE DEF z
  <2> QED
    BY <1>2, <1>8, <2>0, <2>1 DEF Continues, Counted
<1> QED
  BY <1>6, <1>7, <1>8

(* What the callback is given of a message.                                *)
Text(f, v) == IF Buffers(OpcodeOf(f, v)) THEN Whole(f, v) ELSE << >>

(* The message is taken from the slot.                                     *)
Taken(x, v, f, s, e) == Counted(x, s, e) /\ InSlot(x, v, f) /\ Msg(x).opcode = OpcodeOf(f, v)

OutOfRoom(s, e) == \E x : Counted(x, s, e) /\ Stop(x, WSLAY_ERR_NOMEM)

Quiet == {WSLAY_CONNECTION_CLOSE, WSLAY_PING}

(* A message is complete (event.c 408-421).                                *)
LEMMA MessageOutcome ==
    ASSUME NEW x, NEW s, NEW e, NEW v \in View, ViewSound(v), NEW f \in Frame, Fits(f, v),
           IsCtrl(f) => f.fin, f.fin, Complete(x, v, f, s, e),
           NEW iocb, IocbOf(iocb, f), ReceiveMessage(x, iocb)
    PROVE  \/ ~config.on_msg_recv /\ OpcodeOf(f, v) \notin Quiet /\ Continues(v, f, s, e)
           \/ OutOfRoom(s, e)
           \/ \E y : /\ Taken(y, v, f, s, e)
                     /\ \/ OpcodeOf(f, v) = WSLAY_CONNECTION_CLOSE /\ ReceiveClose(y, Text(f, v))
                        \/ OpcodeOf(f, v) = WSLAY_PING /\ ReceivePing(y, Text(f, v))
                        \/ /\ OpcodeOf(f, v) \notin Quiet /\ config.on_msg_recv
                           /\ ReceiveData(y, Text(f, v))
<1> DEFINE m == Msg(x)
           flat == IF IsBuffered(iocb) THEN Flatten(m.chunks) ELSE << >>
           lost == IsBuffered(iocb) /\ Len(flat) # m.msg_length
           op == OpcodeOf(f, v)
           y == Emptied(x, iocb)
           z == MessageDone(x)
<1>1. /\ x \in Rx /\ Bounded(x) /\ x.starts = s /\ x.ends = e
      /\ InSlot(x, v, f) /\ m.opcode = op /\ Filled(m, Before(f, v), f.payload, Len(f.payload))
  BY DEF Complete, Counted, InFrame, Holding
<1>2. m \in Imsg
  BY <1>1 DEF Rx, Msg
<1>3. IsBuffered(iocb) <=> Buffers(op)
  BY BufferedAsMessage
<1>4. Holds(m, Whole(f, v))
  <2>1. Before(f, v) \in Seq(Byte) /\ f.payload \in Seq(Byte)
    BY MessageTypes
  <2> HIDE DEF m
  <2> QED
    BY <1>1, <1>2, <2>1, FilledWhole DEF Whole
<1>5. flat = Text(f, v) /\ ~lost
  BY <1>1, <1>3, <1>4 DEF Holds, Text
<1>6. Taken(y, v, f, s, e)
  BY <1>1, EmptiedEffect DEF Taken, Counted
<1>7. /\ z \in Rx /\ Ready(z, AddFrame(v, f)) /\ Bounded(z) /\ z.starts = s /\ z.ends = e
  BY <1>1, MessageDoneEffect
<1>8. IF ~config.on_msg_recv /\ m.opcode \notin {WSLAY_CONNECTION_CLOSE, WSLAY_PING}
      THEN GoOn(z)
      ELSE \/ Stop(x, WSLAY_ERR_NOMEM)
           \/ CASE m.opcode = WSLAY_CONNECTION_CLOSE -> ReceiveClose(y, flat)
                [] m.opcode = WSLAY_PING             -> ReceivePing(y, flat)
                [] OTHER                             -> ReceiveData(y, flat)
  BY Zenon DEF ReceiveMessage
<1> HIDE DEF y, z, flat, op, m
<1>9. CASE ~config.on_msg_recv /\ op \notin Quiet
  <2>1. GoOn(z)
    BY <1>1, <1>8, <1>9 DEF Quiet
  <2> QED
    BY <1>7, <1>9, <2>1 DEF Continues, Counted, op
<1>10. CASE ~(~config.on_msg_recv /\ op \notin Quiet) /\ Stop(x, WSLAY_ERR_NOMEM)
  BY <1>1, <1>10 DEF OutOfRoom, Counted
<1>11. CASE /\ ~(~config.on_msg_recv /\ op \notin Quiet)
            /\ CASE m.opcode = WSLAY_CONNECTION_CLOSE -> ReceiveClose(y, flat)
                 [] m.opcode = WSLAY_PING             -> ReceivePing(y, flat)
                 [] OTHER                             -> ReceiveData(y, flat)
  <2>1. WSLAY_CONNECTION_CLOSE # WSLAY_PING
    BY DEF WSLAY_CONNECTION_CLOSE, WSLAY_PING
  <2>2. CASE op = WSLAY_CONNECTION_CLOSE
    <3>1. ReceiveClose(y, Text(f, v))
      BY <1>1, <1>5, <1>11, <2>1, <2>2
    <3> QED
      BY <1>6, <2>2, <3>1 DEF op
  <2>3. CASE op = WSLAY_PING
    <3>1. ReceivePing(y, Text(f, v))
      BY <1>1, <1>5, <1>11, <2>1, <2>3
    <3> QED
      BY <1>6, <2>3, <3>1 DEF op
  <2>4. CASE op \notin Quiet
    <3>1. ReceiveData(y, Text(f, v)) /\ config.on_msg_recv
      BY <1>1, <1>5, <1>11, <2>1, <2>4 DEF Quiet
    <3> QED
      BY <1>6, <2>4, <3>1 DEF op
  <2> QED
    BY <2>2, <2>3, <2>4 DEF Quiet
<1> QED
  BY <1>1, <1>8, <1>9, <1>10, <1>11 DEF Quiet

-----------------------------------------------------------------------------
(* The framing of one frame more *)

(* f may not come next, inside a message or not.                           *)
Misfit(f, inside) ==
    \/ f.rsv # 0 \/ f.mask # Server \/ f.opcode \notin Opcodes
    \/ f.opcode = WSLAY_CONTINUATION_FRAME /\ ~inside
    \/ f.opcode \in {WSLAY_TEXT_FRAME, WSLAY_BINARY_FRAME} /\ inside

(* The frames that break the framing are found one by one.                 *)
LEMMA BreaksAppend ==
    ASSUME NEW W \in Seq(Frame), NEW f \in Frame
    PROVE  BreaksFraming(Append(W, f)) <=> BreaksFraming(W) \/ Misfit(f, InsideMessage(W))
<1> DEFINE p == Append(W, f)
           n == Len(W)
           Bad(s, i) == Misfit(s[i], InsideMessage(SubSeq(s, 1, i - 1)))
<1>1. /\ n \in Nat /\ Len(p) = n + 1 /\ p \in Seq(Frame) /\ p[n + 1] = f
      /\ SubSeq(p, 1, n) = W /\ \A i \in 1..n : p[i] = W[i]
  BY AppendFacts
<1>2. /\ BreaksFraming(p) <=> \E i \in 1..(n + 1) : Bad(p, i)
      /\ BreaksFraming(W) <=> \E i \in 1..n : Bad(W, i)
  BY <1>1 DEF BreaksFraming, Misfit
<1>3. ASSUME NEW i \in 1..n PROVE Bad(p, i) <=> Bad(W, i)
  <2> DEFINE a == SubSeq(p, 1, i - 1)
             b == SubSeq(W, 1, i - 1)
  <2>1. /\ 1 \in Int /\ i - 1 \in Int
        /\ (\A j \in 1..(i - 1) : p[j] \in Frame /\ W[j] \in Frame /\ p[j] = W[j])
    BY <1>1
  <2> HIDE DEF p
  <2>2. /\ a \in Seq(Frame) /\ Len(a) = IF 1 <= i - 1 THEN (i - 1) - 1 + 1 ELSE 0
        /\ \A j \in 1..((i - 1) - 1 + 1) : a[j] = p[1 + j - 1]
    BY <2>1, SubSeqProperties
  <2>3. /\ b \in Seq(Frame) /\ Len(b) = IF 1 <= i - 1 THEN (i - 1) - 1 + 1 ELSE 0
        /\ \A j \in 1..((i - 1) - 1 + 1) : b[j] = W[1 + j - 1]
    BY <2>1, SubSeqProperties
  <2> HIDE DEF a, b
  <2>4. Len(a) = Len(b) /\ \A j \in 1..Len(a) : a[j] = b[j]
    BY <1>1, <2>1, <2>2, <2>3
  <2>5. a = b
    BY <2>2, <2>3, <2>4, SeqEqual
  <2>6. p[i] = W[i]
    BY <1>1
  <2> QED
    BY <2>5, <2>6 DEF a, b
<1>4. Bad(p, n + 1) <=> Misfit(f, InsideMessage(W))
  <2>1. (n + 1) - 1 = n
    BY <1>1
  <2> HIDE DEF p, n
  <2> QED
    BY <1>1, <2>1
<1> HIDE DEF p, n, Bad
<1>5. (\E i \in 1..(n + 1) : Bad(p, i)) <=> (\E i \in 1..n : Bad(p, i)) \/ Bad(p, n + 1)
  BY <1>1
<1> QED
  BY <1>2, <1>3, <1>4, <1>5 DEF p

(* A control frame leaves a message as it is, a data frame decides.        *)
LEMMA InsideAppend ==
    ASSUME NEW W \in Seq(Frame), NEW f \in Frame
    PROVE  InsideMessage(Append(W, f)) <=> IF IsCtrl(f) THEN InsideMessage(W) ELSE ~f.fin
<1> DEFINE p == Append(W, f)
           n == Len(W)
           In(s, j) == /\ ~IsCtrl(s[j]) /\ ~s[j].fin
                       /\ \A k \in (j + 1)..Len(s) : IsCtrl(s[k])
<1>1. n \in Nat /\ Len(p) = n + 1 /\ p[n + 1] = f /\ \A i \in 1..n : p[i] = W[i]
  BY AppendFacts
<1>2. /\ InsideMessage(p) <=> \E j \in 1..(n + 1) : In(p, j)
      /\ InsideMessage(W) <=> \E j \in 1..n : In(W, j)
  BY <1>1 DEF InsideMessage, IsCtrl
<1>3. ASSUME NEW j \in 1..n PROVE In(p, j) <=> In(W, j) /\ IsCtrl(f)
  <2>1. p[j] = W[j]
    BY <1>1
  <2>2. (\A k \in (j + 1)..(n + 1) : IsCtrl(p[k])) <=> (\A k \in (j + 1)..n : IsCtrl(W[k])) /\ IsCtrl(f)
    <3> HIDE DEF p, n
    <3>1. \A k \in (j + 1)..n : k \in 1..n /\ k \in (j + 1)..(n + 1)
      BY <1>1
    <3>2. n + 1 \in (j + 1)..(n + 1)
      BY <1>1
    <3>3. \A k \in (j + 1)..(n + 1) : k = n + 1 \/ k \in (j + 1)..n
      BY <1>1
    <3> QED
      BY <1>1, <3>1, <3>2, <3>3
  <2> HIDE DEF p
  <2> QED
    BY <1>1, <2>1, <2>2
<1>4. In(p, n + 1) <=> ~IsCtrl(f) /\ ~f.fin
  <2>1. (n + 1 + 1)..(n + 1) = {}
    BY <1>1
  <2> HIDE DEF p, n
  <2> QED
    BY <1>1, <2>1
<1> HIDE DEF p, n, In
<1>5. (\E j \in 1..(n + 1) : In(p, j)) <=> (\E j \in 1..n : In(p, j)) \/ In(p, n + 1)
  BY <1>1
<1>6. InsideMessage(p) <=> (\E j \in 1..n : In(W, j) /\ IsCtrl(f)) \/ (~IsCtrl(f) /\ ~f.fin)
  BY <1>2, <1>3, <1>4, <1>5
<1>7. CASE IsCtrl(f)
  BY <1>2, <1>6, <1>7 DEF p
<1>8. CASE ~IsCtrl(f)
  BY <1>6, <1>8 DEF p
<1> QED
  BY <1>7, <1>8

(* A frame fits exactly if it does not break the framing.                  *)
LEMMA MisfitIfUnfit ==
    ASSUME NEW v, NEW f, NEW inside \in BOOLEAN, (v.opcode # NoOpcode) <=> inside
    PROVE  Misfit(f, inside) <=> ~Fits(f, v)
<1>1. CASE inside
  BY <1>1 DEF Misfit, Fits, Opcodes, KnownCtrl, WSLAY_CONNECTION_CLOSE, WSLAY_PING,
         WSLAY_PONG, WSLAY_CONTINUATION_FRAME, WSLAY_TEXT_FRAME, WSLAY_BINARY_FRAME
<1>2. CASE ~inside
  BY <1>2 DEF Misfit, Fits, Opcodes, KnownCtrl, WSLAY_CONNECTION_CLOSE, WSLAY_PING,
         WSLAY_PONG, WSLAY_CONTINUATION_FRAME, WSLAY_TEXT_FRAME, WSLAY_BINARY_FRAME
<1> QED
  BY <1>1, <1>2

-----------------------------------------------------------------------------
(* What is queued *)

(* Status codes as bytes.                                                  *)
LEMMA HtonsFacts ==
    ASSUME NEW a \in StatusCode
    PROVE  /\ htons(a) \in Seq(Byte) /\ Len(htons(a)) = 2
           /\ htons(a)[1] \in Byte /\ htons(a)[2] \in Byte
           /\ a = 256 * htons(a)[1] + htons(a)[2]
<1> DEFINE x == a \div 256
           y == a % 256
<1>1. a \in Nat /\ a <= 65535
  <2>1. a \in 0..UINT16_MAX
    BY DEF StatusCode
  <2>2. UINT16_MAX \in Nat
    BY DEF UINT16_MAX
  <2>3. a \in Nat /\ a <= UINT16_MAX
    BY <2>1, <2>2
  <2> QED
    BY <2>3 DEF UINT16_MAX
<1>2. x \in Byte /\ y \in Byte
  BY <1>1 DEF Byte
<1>3. a = 256 * x + y
  BY <1>1
<1>4. htons(a) = << x, y >>
  BY DEF htons
<1> HIDE DEF x, y
<1>5. << x, y >> \in Seq(Byte) /\ Len(<< x, y >>) = 2 /\ << x, y >>[1] = x /\ << x, y >>[2] = y
  BY <1>2
<1> DEFINE h == htons(a)
<1>6. h = << x, y >>
  BY <1>4
<1> HIDE DEF h
<1>7. h \in Seq(Byte) /\ Len(h) = 2 /\ h[1] = x /\ h[2] = y
  BY <1>5, <1>6
<1>8. h[1] \in Byte /\ h[2] \in Byte /\ a = 256 * h[1] + h[2]
  BY <1>2, <1>3, <1>7
<1> QED
  BY <1>7, <1>8 DEF h

(* A status code is its bytes.                                             *)
LEMMA HtonsInjective ==
    ASSUME NEW a \in StatusCode, NEW b \in StatusCode, htons(a) = htons(b)
    PROVE  a = b
  BY HtonsFacts

(* The Close message with a body.                                          *)
CloseMsg(status, reason) == omsg_non_fragmented_new(WSLAY_CONNECTION_CLOSE, CloseBody(status, reason))

(* The body of a Close fits in a control frame.                            *)
LEMMA CloseBodyFacts ==
    ASSUME NEW status \in StatusCode, NEW reason \in Seq(Byte), Len(reason) <= CtrlMax - 2
    PROVE  /\ CloseBody(status, reason) \in Seq(Byte)
           /\ Len(CloseBody(status, reason)) <= CtrlMax
           /\ CloseMsg(status, reason) \in OMsg
           /\ CloseMsg(status, reason).opcode = WSLAY_CONNECTION_CLOSE
           /\ CloseMsg(status, reason).data = CloseBody(status, reason)
<1> DEFINE h == htons(status)
           b == CloseBody(status, reason)
<1>1. CtrlMax \in Nat /\ CtrlMax >= 2
  BY CtrlMaxAssumption
<1>2. h \in Seq(Byte) /\ Len(h) = 2
  BY HtonsFacts
<1> HIDE DEF h
<1>3. h \o reason \in Seq(Byte) /\ Len(h \o reason) = 2 + Len(reason)
  <2>1. h \o reason \in Seq(Byte) /\ Len(h \o reason) = Len(h) + Len(reason)
    BY <1>2, ConcatProperties
  <2> QED
    BY <1>2, <2>1
<1>4. b = IF status = 0 THEN << >> ELSE h \o reason
  BY DEF CloseBody, h
<1> HIDE DEF b
<1>5. b \in Seq(Byte) /\ Len(b) <= CtrlMax
  BY <1>1, <1>3, <1>4
<1>6. CloseMsg(status, reason) = [ type |-> "NON_FRAGMENTED", fin |-> TRUE,
        opcode |-> WSLAY_CONNECTION_CLOSE, data |-> b, source |-> << >> ]
  BY DEF CloseMsg, omsg_non_fragmented_new, b
<1>7. CloseMsg(status, reason) \in OMsg
  BY <1>5, <1>6 DEF OMsg, MsgType, Opcodes
<1> QED
  BY <1>5, <1>6, <1>7 DEF b

QueuesTyped ==
    /\ send_queue \in Seq(OMsg) /\ send_ctrl_queue \in Seq(OMsg)
    /\ queued_msg_count \in Int /\ queued_msg_length \in Int /\ accepted \in Seq(OMsg)

(* A message is queued.                                                    *)
LEMMA EnqueueEffect ==
    ASSUME QueuesTyped, NEW omsg \in OMsg, Enqueue(omsg)
    PROVE  QueuesTyped' /\ accepted' = Append(accepted, omsg)
<1>1. omsg.data \in Seq(Byte)
  BY DEF OMsg
<1>2. Len(omsg.data) \in Int
  BY <1>1
<1>3. /\ queued_msg_count' \in Int /\ queued_msg_length' \in Int
      /\ accepted' = Append(accepted, omsg)
  BY <1>2 DEF Enqueue, QueuesTyped
<1>4. accepted' \in Seq(OMsg)
  BY <1>3 DEF QueuesTyped
<1>5. send_queue' \in Seq(OMsg) /\ send_ctrl_queue' \in Seq(OMsg)
  <2>1. /\ send_queue' = send_queue \/ send_queue' = Append(send_queue, omsg)
        /\ send_ctrl_queue' = send_ctrl_queue \/ send_ctrl_queue' = Append(send_ctrl_queue, omsg)
    BY DEF Enqueue
  <2>2. send_queue \in Seq(OMsg) /\ send_ctrl_queue \in Seq(OMsg)
    BY DEF QueuesTyped
  <2>3. Append(send_queue, omsg) \in Seq(OMsg) /\ Append(send_ctrl_queue, omsg) \in Seq(OMsg)
    BY <2>2
  <2> QED
    BY <2>1, <2>2, <2>3
<1> QED
  BY <1>3, <1>4, <1>5 DEF QueuesTyped

(* A queue operation that does nothing.                                    *)
LEMMA QueuesKept ==
    ASSUME QueuesTyped, UNCHANGED queueVars
    PROVE  QueuesTyped' /\ accepted' = accepted
  BY DEF queueVars, QueuesTyped

(* What the attempt to queue a Close does.                                 *)
CloseTried(cs, status, reason, r) ==
    /\ QueuesTyped'
    /\ \/ /\ r \in {-1, 1} /\ accepted' = accepted /\ close_status' = cs
       \/ /\ r = 0 /\ wslay_event_is_msg_queueable
          /\ accepted' = Append(accepted, CloseMsg(status, reason))
          /\ close_status' = cs \cup {"QUEUED"}

(* wslay_event_queue_close, with a reason that is short enough.            *)
LEMMA QueueCloseEffect ==
    ASSUME QueuesTyped, NEW cs, NEW status \in StatusCode, NEW reason \in Seq(Byte),
           Len(reason) <= CtrlMax - 2, NEW r, wslay_event_queue_close(cs, status, reason, r)
    PROVE  CloseTried(cs, status, reason, r)
<1> DEFINE b == CloseBody(status, reason)
<1>1. /\ CtrlMax \in Nat /\ Len(reason) \in Nat /\ Len(b) \in Nat /\ ~(Len(b) > CtrlMax)
      /\ ~(Len(reason) > CtrlMax - 2) /\ CloseMsg(status, reason) \in OMsg
  BY CloseBodyFacts, CtrlMaxAssumption
<1>2. \/ /\ r = 1 /\ close_status' = cs /\ UNCHANGED queueVars
      \/ /\ wslay_event_is_msg_queueable
         /\ wslay_event_queue_msg(WSLAY_CONNECTION_CLOSE, b, r)
         /\ close_status' = IF r = 0 THEN cs \cup {"QUEUED"} ELSE cs
  BY <1>1 DEF wslay_event_queue_close
<1>3. CASE r = 1 /\ close_status' = cs /\ UNCHANGED queueVars
  BY <1>3, QueuesKept DEF CloseTried
<1>4. CASE /\ wslay_event_is_msg_queueable
           /\ wslay_event_queue_msg(WSLAY_CONNECTION_CLOSE, b, r)
           /\ close_status' = IF r = 0 THEN cs \cup {"QUEUED"} ELSE cs
  <2>1. \/ r \in {-1, 1} /\ UNCHANGED queueVars
        \/ r = 0 /\ Enqueue(CloseMsg(status, reason))
    <3> HIDE DEF b
    <3>1. CloseMsg(status, reason) = omsg_non_fragmented_new(WSLAY_CONNECTION_CLOSE, b)
      BY DEF CloseMsg, b
    <3> QED
      BY <1>1, <1>4, <3>1 DEF wslay_event_queue_msg, MsgRefusal
  <2>2. CASE r \in {-1, 1} /\ UNCHANGED queueVars
    <3>1. r # 0
      BY <2>2
    <3> QED
      BY <1>4, <2>2, <3>1, QueuesKept DEF CloseTried
  <2>3. CASE r = 0 /\ Enqueue(CloseMsg(status, reason))
    BY <1>1, <1>4, <2>3, EnqueueEffect DEF CloseTried
  <2> QED
    BY <2>1, <2>2, <2>3
<1> QED
  BY <1>2, <1>3, <1>4

(* wslay_event_queue_close_wrapper stops reading besides.                  *)
LEMMA WrapperEffect ==
    ASSUME QueuesTyped, NEW cs, NEW status \in StatusCode, NEW reason \in Seq(Byte),
           Len(reason) <= CtrlMax - 2, NEW r,
           wslay_event_queue_close_wrapper(cs, status, reason, r)
    PROVE  read_enabled' = FALSE /\ CloseTried(cs, status, reason, r)
<1>1. PICK q \in QueueReturns : /\ wslay_event_queue_close(cs, status, reason, q)
                                /\ r = IF q = WSLAY_ERR_NO_MORE_MSG THEN 0 ELSE q
  BY DEF wslay_event_queue_close_wrapper
<1>2. CloseTried(cs, status, reason, q)
  BY <1>1, QueueCloseEffect
<1>3. q # WSLAY_ERR_NO_MORE_MSG
  BY <1>2 DEF CloseTried, WSLAY_ERR_NO_MORE_MSG
<1> QED
  BY <1>1, <1>2, <1>3 DEF wslay_event_queue_close_wrapper

(* The Pong that answers a Ping.                                           *)
PongMsg(msg) == omsg_non_fragmented_new(WSLAY_PONG, msg)

(* wslay_event_queue_msg with a Pong.                                      *)
LEMMA QueuePongEffect ==
    ASSUME QueuesTyped, NEW msg \in Seq(Byte), Len(msg) <= CtrlMax, NEW r,
           wslay_event_queue_msg(WSLAY_PONG, msg, r)
    PROVE  /\ QueuesTyped' /\ PongMsg(msg) \in OMsg
           /\ PongMsg(msg).opcode = WSLAY_PONG /\ PongMsg(msg).data = msg
           /\ \/ r = WSLAY_ERR_NO_MORE_MSG /\ ~wslay_event_is_msg_queueable /\ accepted' = accepted
              \/ r \in {-1, 1} /\ accepted' = accepted
              \/ r = 0 /\ wslay_event_is_msg_queueable /\ accepted' = Append(accepted, PongMsg(msg))
<1>1. CtrlMax \in Nat /\ Len(msg) \in Nat /\ ~(Len(msg) > CtrlMax)
  BY CtrlMaxAssumption
<1>2. /\ PongMsg(msg) \in OMsg /\ PongMsg(msg).opcode = WSLAY_PONG /\ PongMsg(msg).data = msg
  BY DEF PongMsg, omsg_non_fragmented_new, OMsg, MsgType, Opcodes
<1>3. \/ r = WSLAY_ERR_NO_MORE_MSG /\ ~wslay_event_is_msg_queueable /\ UNCHANGED queueVars
      \/ r \in {-1, 1} /\ UNCHANGED queueVars
      \/ r = 0 /\ wslay_event_is_msg_queueable /\ Enqueue(PongMsg(msg))
  BY <1>1 DEF wslay_event_queue_msg, MsgRefusal, PongMsg
<1> QED
  BY <1>2, <1>3, EnqueueEffect, QueuesKept

-----------------------------------------------------------------------------
(* The histories *)

Item == [ opcode : 0..255, msg : Seq(Byte) ]

Delivery == [ opcode : Opcodes, msg : Seq(Byte), status_code : StatusCode ]

(* A delivery without its status code, and all of them.                    *)
StripOne(d) == [ opcode |-> d.opcode, msg |-> d.msg ]

Strip(ds) == [ i \in 1..Len(ds) |-> StripOne(ds[i]) ]

(* A message as it is delivered, without buffering if no is TRUE.          *)
CutOne(no, e) == IF no /\ ~wslay_is_ctrl_frame(e.opcode) THEN [ e EXCEPT !.msg = << >> ] ELSE e

Cut(no, msgs) == [ i \in 1..Len(msgs) |-> CutOne(no, msgs[i]) ]

(* A sequence is its own prefix, and a prefix of any longer one.           *)
LEMMA PrefixFacts ==
    ASSUME NEW S, NEW s \in Seq(S)
    PROVE  IsPrefix(s, s) /\ \A e \in S : IsPrefix(s, Append(s, e))
<1>1. Len(s) \in Nat /\ Len(s) <= Len(s)
  OBVIOUS
<1>2. IsPrefix(s, s)
  BY <1>1 DEF IsPrefix
<1>3. ASSUME NEW e \in S PROVE IsPrefix(s, Append(s, e))
  <2> DEFINE u == SubSeq(s, 1, Len(s))
  <2>1. u = s
    <3>1. (\A i \in 1..Len(s) : s[i] \in S) /\ 1 \in Int /\ Len(s) \in Int
      OBVIOUS
    <3>2. /\ u \in Seq(S) /\ Len(u) = IF 1 <= Len(s) THEN Len(s) - 1 + 1 ELSE 0
          /\ \A i \in 1..(Len(s) - 1 + 1) : u[i] = s[1 + i - 1]
      BY <3>1, SubSeqProperties
    <3> HIDE DEF u
    <3>3. Len(u) = Len(s) /\ \A i \in 1..Len(s) : u[i] = s[i]
      BY <1>1, <3>2
    <3> QED
      BY <3>2, <3>3, SeqEqual
  <2>2. SubSeq(Append(s, e), 1, Len(s)) = s /\ Len(Append(s, e)) = Len(s) + 1
    BY AppendFacts
  <2> QED
    BY <1>1, <2>1, <2>2 DEF IsPrefix
<1> QED
  BY <1>2, <1>3

(* One delivery more.                                                      *)
LEMMA StripAppend ==
    ASSUME NEW ds \in Seq(Delivery), NEW d \in Delivery
    PROVE  Strip(ds) \in Seq(Item) /\ Strip(Append(ds, d)) = Append(Strip(ds), StripOne(d))
<1> DEFINE t == Append(ds, d)
           n == Len(ds)
           S == Strip(ds)
           T == Strip(t)
           e == StripOne(d)
<1>1. /\ n \in Nat /\ Len(t) = n + 1 /\ t \in Seq(Delivery) /\ t[n + 1] = d
      /\ \A i \in 1..n : t[i] = ds[i]
  BY AppendFacts
<1>2. \A c \in Delivery : StripOne(c) \in Item
  BY DEF Delivery, Item, StripOne, Opcodes, WSLAY_CONTINUATION_FRAME, WSLAY_TEXT_FRAME,
         WSLAY_BINARY_FRAME, WSLAY_CONNECTION_CLOSE, WSLAY_PING, WSLAY_PONG
<1>3. S \in [ 1..n -> Item ] /\ \A i \in 1..n : S[i] = StripOne(ds[i])
  BY <1>2 DEF Strip
<1>4. T \in [ 1..(n + 1) -> Item ] /\ \A i \in 1..(n + 1) : T[i] = StripOne(t[i])
  <2> HIDE DEF t
  <2> QED
    BY <1>1, <1>2 DEF Strip
<1>5. e \in Item
  BY <1>2
<1> HIDE DEF t, S, T, e
<1>6. S \in Seq(Item) /\ Len(S) = n /\ T \in Seq(Item) /\ Len(T) = n + 1
  <2> DEFINE k == n + 1
  <2>1. n \in Nat /\ k \in Nat /\ T \in [ 1..k -> Item ]
    BY <1>1, <1>4
  <2> HIDE DEF k, n
  <2>2. S \in Seq(Item) /\ Len(S) = n
    BY <1>3, <2>1
  <2>3. T \in Seq(Item) /\ Len(T) = k
    BY <2>1
  <2> QED
    BY <2>2, <2>3 DEF k
<1> DEFINE A == Append(S, e)
<1>7. A \in Seq(Item) /\ Len(A) = n + 1 /\ A[n + 1] = e /\ \A i \in 1..n : A[i] = S[i]
  BY <1>1, <1>5, <1>6
<1> HIDE DEF A, n
<1>8. ASSUME NEW i \in 1..(n + 1) PROVE A[i] = T[i]
  <2>1. CASE i \in 1..n
    BY <1>1, <1>3, <1>4, <1>7, <2>1
  <2>2. CASE i = n + 1
    BY <1>1, <1>4, <1>7, <2>2 DEF e
  <2> QED
    BY <1>1, <2>1, <2>2
<1>9. A = T
  BY <1>6, <1>7, <1>8, SeqEqual
<1> QED
  BY <1>6, <1>9 DEF A, S, T, t, e

(* One message more.                                                       *)
LEMMA CutAppend ==
    ASSUME NEW no, NEW ms \in Seq(Item), NEW m \in Item
    PROVE  Cut(no, ms) \in Seq(Item) /\ CutOne(no, m) \in Item
           /\ Len(Cut(no, ms)) = Len(ms) /\ (\A i \in 1..Len(ms) : Cut(no, ms)[i].opcode = ms[i].opcode)
           /\ Cut(no, Append(ms, m)) = Append(Cut(no, ms), CutOne(no, m))
<1> DEFINE t == Append(ms, m)
           n == Len(ms)
           S == Cut(no, ms)
           T == Cut(no, t)
           e == CutOne(no, m)
<1>1. /\ n \in Nat /\ Len(t) = n + 1 /\ t \in Seq(Item) /\ t[n + 1] = m
      /\ \A i \in 1..n : t[i] = ms[i]
  BY AppendFacts
<1>2. ASSUME NEW c \in Item PROVE CutOne(no, c) \in Item /\ CutOne(no, c).opcode = c.opcode
  <2> DEFINE d == [ c EXCEPT !.msg = << >> ]
  <2>1. << >> \in Seq(Byte)
    OBVIOUS
  <2>2. d \in Item /\ d.opcode = c.opcode
    BY <2>1 DEF Item
  <2> HIDE DEF d
  <2>3. CutOne(no, c) = d \/ CutOne(no, c) = c
    BY DEF CutOne, d
  <2> QED
    BY <2>2, <2>3
<1>3. S \in [ 1..n -> Item ] /\ \A i \in 1..n : S[i] = CutOne(no, ms[i])
  BY <1>2 DEF Cut
<1>4. T \in [ 1..(n + 1) -> Item ] /\ \A i \in 1..(n + 1) : T[i] = CutOne(no, t[i])
  <2> HIDE DEF t
  <2> QED
    BY <1>1, <1>2 DEF Cut
<1>5. e \in Item
  BY <1>2
<1>10. \A i \in 1..n : ms[i] \in Item
  OBVIOUS
<1> HIDE DEF t, S, T, e
<1>6. S \in Seq(Item) /\ Len(S) = n /\ T \in Seq(Item) /\ Len(T) = n + 1
  <2> DEFINE k == n + 1
  <2>1. n \in Nat /\ k \in Nat /\ T \in [ 1..k -> Item ]
    BY <1>1, <1>4
  <2> HIDE DEF k, n
  <2>2. S \in Seq(Item) /\ Len(S) = n
    BY <1>3, <2>1
  <2>3. T \in Seq(Item) /\ Len(T) = k
    BY <2>1
  <2> QED
    BY <2>2, <2>3 DEF k
<1> DEFINE A == Append(S, e)
<1>7. A \in Seq(Item) /\ Len(A) = n + 1 /\ A[n + 1] = e /\ \A i \in 1..n : A[i] = S[i]
  BY <1>1, <1>5, <1>6
<1> HIDE DEF A, n
<1>8. ASSUME NEW i \in 1..(n + 1) PROVE A[i] = T[i]
  <2>1. CASE i \in 1..n
    BY <1>1, <1>3, <1>4, <1>7, <2>1
  <2>2. CASE i = n + 1
    BY <1>1, <1>4, <1>7, <2>2 DEF e
  <2> QED
    BY <1>1, <2>1, <2>2
<1>9. A = T
  BY <1>6, <1>7, <1>8, SeqEqual
<1>11. \A i \in 1..n : S[i].opcode = ms[i].opcode
  BY <1>2, <1>3, <1>10
<1> QED
  BY <1>5, <1>6, <1>9, <1>11 DEF A, S, T, t, e, n

(* What is delivered of a complete message is what should be.              *)
LEMMA TextIsCut ==
    ASSUME NEW v, NEW f, NEW status
    PROVE  CutOne(config.no_buffering, [ opcode |-> OpcodeOf(f, v), msg |-> Whole(f, v) ])
             = StripOne([ opcode |-> OpcodeOf(f, v), msg |-> Text(f, v), status_code |-> status ])
  BY DEF CutOne, StripOne, Text, Buffers

(* The Pongs answer the first of the Pings.                                *)
PongsMatch(pongs, pings) ==
    Len(pongs) <= Len(pings) /\ \A i \in 1..Len(pongs) : pongs[i].data = pings[i].msg

(* A Ping more, and a Pong for it.                                         *)
LEMMA PongsAppend ==
    ASSUME NEW pongs \in Seq(OMsg), NEW pings \in Seq(Item), PongsMatch(pongs, pings),
           NEW ping \in Item
    PROVE  /\ PongsMatch(pongs, Append(pings, ping))
           /\ \A pong \in OMsg : Len(pongs) = Len(pings) /\ pong.data = ping.msg =>
                PongsMatch(Append(pongs, pong), Append(pings, ping))
<1>1. /\ Len(pongs) \in Nat /\ Len(pings) \in Nat /\ Len(pongs) <= Len(pings)
      /\ \A i \in 1..Len(pongs) : pongs[i].data = pings[i].msg
  BY DEF PongsMatch
<1> DEFINE p == Append(pings, ping)
<1>2. /\ Len(p) = Len(pings) + 1 /\ p[Len(pings) + 1] = ping
      /\ \A i \in 1..Len(pings) : p[i] = pings[i]
  BY AppendFacts
<1> HIDE DEF p
<1>3. PongsMatch(pongs, p)
  BY <1>1, <1>2 DEF PongsMatch
<1>4. ASSUME NEW pong \in OMsg, Len(pongs) = Len(pings), pong.data = ping.msg
      PROVE  PongsMatch(Append(pongs, pong), p)
  <2> DEFINE q == Append(pongs, pong)
  <2>1. /\ Len(q) = Len(pongs) + 1 /\ q[Len(pongs) + 1] = pong
        /\ \A i \in 1..Len(pongs) : q[i] = pongs[i]
    BY AppendFacts
  <2> HIDE DEF q
  <2>2. ASSUME NEW i \in 1..Len(q) PROVE q[i].data = p[i].msg
    <3>1. CASE i \in 1..Len(pongs)
      BY <1>1, <1>2, <1>4, <2>1, <3>1
    <3>2. CASE i = Len(pongs) + 1
      BY <1>1, <1>2, <1>4, <2>1, <3>2
    <3> QED
      BY <1>1, <2>1, <3>1, <3>2
  <2> QED
    BY <1>1, <1>2, <1>4, <2>1, <2>2 DEF PongsMatch, q
<1> QED
  BY <1>3, <1>4 DEF p

(* a holds a Close with the given status code.                             *)
ClosesWith(a, status) ==
    \E i \in 1..Len(a) : a[i].opcode = WSLAY_CONNECTION_CLOSE /\ a[i].data = htons(status)

(* One message more.                                                       *)
LEMMA ClosesAppend ==
    ASSUME NEW a \in Seq(OMsg), NEW e \in OMsg, NEW status
    PROVE  ClosesWith(Append(a, e), status) =>
             \/ ClosesWith(a, status)
             \/ e.opcode = WSLAY_CONNECTION_CLOSE /\ e.data = htons(status)
<1> DEFINE t == Append(a, e)
<1>1. Len(a) \in Nat /\ Len(t) = Len(a) + 1 /\ t[Len(a) + 1] = e /\ \A i \in 1..Len(a) : t[i] = a[i]
  BY AppendFacts
<1> HIDE DEF t
<1> SUFFICES ASSUME NEW i \in 1..Len(t), t[i].opcode = WSLAY_CONNECTION_CLOSE, t[i].data = htons(status)
             PROVE  \/ ClosesWith(a, status)
                    \/ e.opcode = WSLAY_CONNECTION_CLOSE /\ e.data = htons(status)
  BY DEF ClosesWith, t
<1>2. i \in 1..Len(a) \/ i = Len(a) + 1
  BY <1>1
<1> QED
  BY <1>1, <1>2 DEF ClosesWith

-----------------------------------------------------------------------------
(* A step of wslay_event_recv *)

(* Where the iteration stands when f, or more of it, arrives.              *)
Situated(W, f, t, v) ==
    /\ v = Reassemble(W) /\ v \in View /\ ViewSound(v) /\ f \in Frame
    /\ IsCtrl(f) => f.fin /\ Len(f.payload) <= CtrlMax
    /\ rx \in Rx /\ Bounded(rx)
    /\ IF source.open
       THEN t > 0 /\ Fits(f, v) /\ InFrame(rx, v, f, t) /\ rx.starts = Len(W) + 1
       ELSE t = 0 /\ Ready(rx, v) /\ rx.starts = Len(W)
    /\ rx.ends = Len(W)
    /\ v.opcode # NoOpcode <=> InsideMessage(W)
    /\ ~BreaksFraming(W) \/ (source.open /\ ~BreaksFraming(Append(W, f)))

(* While reading is enabled, every chunk finds the context prepared.       *)
LEMMA ChunkSituation ==
    ASSUME Inv, read_enabled, NEW W, NEW f, NEW t, NEW n, NEW iocb, Receiving(W, f, t, n, iocb)
    PROVE  Situated(W, f, t, Reassemble(W))
<1> DEFINE v == Reassemble(W)
<1>1. InStep /\ SlotsSound /\ rx \in Rx /\ source.open \in BOOLEAN
  BY DEF Inv, TypeOK, SourceTypeOK
<1>2. /\ WholeFrames = W /\ W \in Seq(Frames) /\ f \in Frames
      /\ IF source.open THEN source.peer = Append(W, f) /\ source.taken = t
         ELSE source.peer = W /\ t = 0
  BY DEF Receiving
<1>3. W \in Seq(Frame) /\ f \in Frame /\ Len(W) \in Nat /\ v \in View
  BY <1>2, NewSource, ReassembleType
<1>4. IsCtrl(f) => f.fin /\ Len(f.payload) <= CtrlMax
  BY <1>2, FramesAssumption DEF IsCtrl
<1>5. Bounded(rx)
  BY <1>1 DEF SlotsSound, Bounded
<1>6. /\ ViewSound(v) /\ rx.ends = Len(W) /\ rx.starts = Len(source.peer)
      /\ v.opcode # NoOpcode <=> InsideMessage(W)
      /\ ~BreaksFraming(source.peer)
      /\ IF source.open
         THEN Fits(Last(source.peer), v) /\ InFrame(rx, v, Last(source.peer), source.taken)
         ELSE Ready(rx, v)
  BY <1>1, <1>2 DEF InStep
<1> HIDE DEF v
<1>7. CASE source.open
  <2>1. Last(source.peer) = f /\ Len(source.peer) = Len(W) + 1
    <3>1. Last(Append(W, f)) = f /\ Len(Append(W, f)) = Len(W) + 1
      BY ONLY <1>3, AppendFacts
    <3> QED
      BY <1>2, <1>7, <3>1
  <2>2. source.taken > 0
    BY <1>7 DEF Inv, SourceSound
  <2> QED
    BY <1>1, <1>2, <1>3, <1>4, <1>5, <1>6, <1>7, <2>1, <2>2 DEF Situated, v
<1>8. CASE ~source.open
  BY <1>1, <1>2, <1>3, <1>4, <1>5, <1>6, <1>8 DEF Situated, v
<1> QED
  BY <1>1, <1>7, <1>8

(* A frame that fits does not break the framing, another one does.         *)
LEMMA FitsFraming ==
    ASSUME NEW W \in Seq(Frame), NEW f, NEW t, NEW v, Situated(W, f, t, v)
    PROVE  BreaksFraming(Append(W, f)) <=> ~Fits(f, v)
<1>1. f \in Frame /\ (v.opcode # NoOpcode <=> InsideMessage(W)) /\ InsideMessage(W) \in BOOLEAN
  BY DEF Situated, InsideMessage
<1>2. BreaksFraming(Append(W, f)) <=> BreaksFraming(W) \/ ~Fits(f, v)
  BY <1>1, BreaksAppend, MisfitIfUnfit
<1>3. source.open => Fits(f, v)
  BY DEF Situated
<1> QED
  BY <1>2, <1>3 DEF Situated

(* The frame's place in the view.                                          *)
LEMMA NextView ==
    ASSUME NEW W \in Seq(Frame), NEW f, NEW t, NEW v, Situated(W, f, t, v), Fits(f, v)
    PROVE  LET w == AddFrame(v, f)
           IN  /\ Reassemble(Append(W, f)) = w /\ w \in View /\ ViewSound(w)
               /\ w.opcode # NoOpcode <=> InsideMessage(Append(W, f))
<1> DEFINE w == AddFrame(v, f)
<1>1. /\ f \in Frame /\ v \in View /\ ViewSound(v) /\ v = Reassemble(W) /\ (IsCtrl(f) => f.fin)
      /\ v.opcode # NoOpcode <=> InsideMessage(W)
  BY DEF Situated
<1>2. Reassemble(Append(W, f)) = w
  BY <1>1, ReassembleAppend
<1>3. /\ w \in View /\ ViewSound(w)
      /\ IsCtrl(f) => w.opcode = v.opcode
      /\ ~IsCtrl(f) => /\ OpcodeOf(f, v) \in {WSLAY_TEXT_FRAME, WSLAY_BINARY_FRAME}
                       /\ IF f.fin THEN w.opcode = NoOpcode ELSE w.opcode = OpcodeOf(f, v)
  BY <1>1, AddFrameCases
<1>4. InsideMessage(Append(W, f)) <=> IF IsCtrl(f) THEN InsideMessage(W) ELSE ~f.fin
  BY <1>1, InsideAppend
<1> HIDE DEF w
<1>5. CASE IsCtrl(f)
  BY <1>1, <1>2, <1>3, <1>4, <1>5 DEF w
<1>6. CASE ~IsCtrl(f)
  BY <1>1, <1>2, <1>3, <1>4, <1>6 DEF w, NoOpcode, WSLAY_TEXT_FRAME, WSLAY_BINARY_FRAME
<1> QED
  BY <1>5, <1>6

(* The messages of the view grow by one or stay.                           *)
Grows(a, b) == b = a \/ \E e \in Item : b = Append(a, e)

(* Every frame adds a message or none, whether it fits or not.             *)
LEMMA ViewGrows ==
    ASSUME NEW v \in View, NEW f \in Frame
    PROVE  v.msgs \in Seq(Item) /\ Grows(v.msgs, AddFrame(v, f).msgs)
<1> DEFINE opcode == IF f.opcode # WSLAY_CONTINUATION_FRAME THEN f.opcode ELSE v.opcode
           data == IF f.opcode # WSLAY_CONTINUATION_FRAME THEN f.payload ELSE v.data \o f.payload
           c == [ opcode |-> f.opcode, msg |-> f.payload ]
           d == [ opcode |-> opcode, msg |-> data ]
<1>1. /\ f.opcode \in 0..15 /\ f.payload \in Seq(Byte) /\ v.opcode \in 0..255
      /\ v.data \in Seq(Byte) /\ v.msgs \in Seq(Item)
  BY DEF Frame, View, Item
<1>2. opcode \in 0..255 /\ data \in Seq(Byte)
  BY <1>1
<1>3. AddFrame(v, f) = IF wslay_is_ctrl_frame(f.opcode)
                       THEN [ v EXCEPT !.msgs = Append(v.msgs, c) ]
                       ELSE IF f.fin
                       THEN [ opcode |-> NoOpcode, data |-> << >>, msgs |-> Append(v.msgs, d) ]
                       ELSE [ opcode |-> opcode, data |-> data, msgs |-> v.msgs ]
  BY Zenon DEF AddFrame
<1> HIDE DEF opcode, data
<1>4. c \in Item /\ d \in Item
  BY <1>1, <1>2 DEF Item
<1> HIDE DEF c, d
<1>5. AddFrame(v, f).msgs \in { Append(v.msgs, c), Append(v.msgs, d), v.msgs }
  BY <1>3 DEF View
<1> QED
  BY <1>1, <1>4, <1>5 DEF Grows

-----------------------------------------------------------------------------
(* The frames as far as they were received *)

SoFar(src) ==
    IF src.peer = << >> THEN << >>
    ELSE [ src.peer EXCEPT ![Len(src.peer)].payload = SubSeq(@, 1, src.taken) ]

(* The first n bytes of a frame.                                           *)
CutFrame(f, n) == [ f EXCEPT !.payload = SubSeq(f.payload, 1, n) ]

(* A part of a frame belongs to the same message.                          *)
LEMMA CutFrameFacts ==
    ASSUME NEW v \in View, NEW f \in Frame, NEW n \in Nat, n <= Len(f.payload)
    PROVE  LET g == CutFrame(f, n)
           IN  /\ g \in Frame /\ g.fin = f.fin /\ (IsCtrl(g) <=> IsCtrl(f))
               /\ (Fits(g, v) <=> Fits(f, v))
               /\ OpcodeOf(g, v) = OpcodeOf(f, v) /\ Whole(g, v) = Part(v, f, n)
               /\ n = Len(f.payload) => g = f
<1> DEFINE g == CutFrame(f, n)
           P == SubSeq(f.payload, 1, n)
           B == Seq(Byte)
<1>1. f.payload \in B
  BY DEF Frame
<1>2. P \in B /\ (n = Len(f.payload) => P = f.payload)
  <2>1. \A i \in 1..n : f.payload[i] \in Byte
    BY <1>1
  <2> QED
    BY <1>1, <2>1, SubSeqProperties
<1>3. g = [ f EXCEPT !.payload = P ] /\ f \in [ fin : BOOLEAN, rsv : 0..7, opcode : 0..15, mask : BOOLEAN, payload : B ]
  BY DEF CutFrame, Frame
<1> HIDE DEF g, P, B
<1>4. /\ g \in [ fin : BOOLEAN, rsv : 0..7, opcode : 0..15, mask : BOOLEAN, payload : B ]
      /\ g.fin = f.fin /\ g.rsv = f.rsv /\ g.opcode = f.opcode /\ g.mask = f.mask /\ g.payload = P
      /\ P = f.payload => g = f
  BY <1>2, <1>3
<1>5. g \in Frame
  BY <1>4 DEF Frame, B
<1>6. (IsCtrl(g) <=> IsCtrl(f)) /\ (Fits(g, v) <=> Fits(f, v)) /\ OpcodeOf(g, v) = OpcodeOf(f, v)
  BY <1>4 DEF IsCtrl, Fits, OpcodeOf
<1>7. Whole(g, v) = Part(v, f, n)
  BY <1>4 DEF Whole, Part, Before, P
<1> QED
  BY <1>2, <1>4, <1>5, <1>6, <1>7 DEF g

(* Only the last frame is cut.                                             *)
LEMMA SoFarAppend ==
    ASSUME NEW W \in Seq(Frame), NEW f \in Frame, NEW n, NEW src,
           src.peer = Append(W, f), src.taken = n, CutFrame(f, n) \in Frame
    PROVE  SoFar(src) = Append(W, CutFrame(f, n))
<1> DEFINE p == Append(W, f)
           g == CutFrame(f, n)
           q == Append(W, g)
           l == Len(W) + 1
           a == [ p EXCEPT ![l] = g ]
<1>1. /\ p \in Seq(Frame) /\ p # << >> /\ Len(p) = l /\ Len(W) \in Nat /\ p[l] = f
      /\ \A i \in 1..Len(W) : p[i] = W[i]
  BY AppendFacts
<1>2. /\ q \in Seq(Frame) /\ Len(q) = l /\ q[l] = g
      /\ \A i \in 1..Len(W) : q[i] = W[i]
  <2>1. g \in Frame
    OBVIOUS
  <2> HIDE DEF g
  <2> QED
    BY <2>1, AppendFacts
<1>3. SoFar(src) = [ p EXCEPT ![l].payload = SubSeq(p[l].payload, 1, n) ]
  BY <1>1 DEF SoFar
<1>4. SoFar(src) = a
  <2> HIDE DEF p
  <2> QED
    BY <1>1, <1>3 DEF CutFrame
<1> HIDE DEF p, q, g, l
<1>5. a \in Seq(Frame) /\ Len(a) = l /\ \A i \in 1..l : a[i] = IF i = l THEN g ELSE p[i]
  BY <1>1, <1>2
<1> HIDE DEF a
<1>6. ASSUME NEW i \in 1..l PROVE a[i] = q[i]
  <2>1. i = l \/ i \in 1..Len(W)
    BY <1>1 DEF l
  <2> QED
    BY <1>1, <1>2, <1>5, <2>1
<1>7. a = q
  BY <1>2, <1>5, <1>6, SeqEqual
<1> QED
  BY <1>4, <1>7 DEF q, g

(* What the frames amount to as far as they were received.                 *)
LEMMA SoFarView ==
    ASSUME NEW W \in Seq(Frame), NEW f \in Frame, NEW n \in Nat, n <= Len(f.payload),
           NEW src, src.peer = Append(W, f), src.taken = n, NEW v, v = Reassemble(W),
           ViewSound(v), Fits(f, v), IsCtrl(f) => f.fin
    PROVE  LET now == Reassemble(SoFar(src))
           IN  /\ f.fin => Last(now.msgs).msg = Part(v, f, n)
               /\ IsCtrl(f) => now.opcode = v.opcode /\ now.data = v.data
               /\ ~IsCtrl(f) /\ f.fin => now.opcode = NoOpcode
               /\ ~IsCtrl(f) /\ ~f.fin => now.opcode = OpcodeOf(f, v) /\ now.data = Part(v, f, n)
<1> DEFINE g == CutFrame(f, n)
           w == AddFrame(v, g)
           m == [ opcode |-> OpcodeOf(f, v), msg |-> Part(v, f, n) ]
<1>1. v \in View
  BY ReassembleType
<1>2. /\ g \in Frame /\ g.fin = f.fin /\ (IsCtrl(g) <=> IsCtrl(f)) /\ Fits(g, v)
      /\ OpcodeOf(g, v) = OpcodeOf(f, v) /\ Whole(g, v) = Part(v, f, n)
  BY <1>1, CutFrameFacts
<1>3. SoFar(src) = Append(W, g)
  BY <1>2, SoFarAppend
<1> HIDE DEF g
<1>4. Reassemble(SoFar(src)) = w
  BY <1>2, <1>3, ReassembleAppend
<1>5. IsCtrl(g) => g.fin
  BY <1>2
<1>6. f.fin => w.msgs = Append(v.msgs, m)
  <2>1. g.fin => w.msgs = Append(v.msgs, [ opcode |-> OpcodeOf(g, v), msg |-> Whole(g, v) ])
    BY <1>1, <1>2, <1>5, AddFrameCases
  <2> QED
    BY <1>2, <2>1
<1>7. IsCtrl(f) => w.opcode = v.opcode /\ w.data = v.data
  BY <1>1, <1>2, <1>5, AddFrameCases
<1>8. ~IsCtrl(f) => IF f.fin THEN w.opcode = NoOpcode
                    ELSE w.opcode = OpcodeOf(f, v) /\ w.data = Part(v, f, n)
  <2>1. ~IsCtrl(g) => IF g.fin THEN w.opcode = NoOpcode
                      ELSE w.opcode = OpcodeOf(g, v) /\ w.data = Whole(g, v)
    BY <1>1, <1>2, <1>5, AddFrameCases
  <2> QED
    BY <1>2, <2>1
<1>9. v.msgs \in Seq(Item) /\ m \in Item /\ m.msg = Part(v, f, n)
  <2>1. OpcodeOf(f, v) \in 0..255
    BY <1>1 DEF OpcodeOf, View, Frame
  <2>2. Part(v, f, n) \in Seq(Byte)
    BY <1>1, UnreadableText
  <2> QED
    BY <1>1, <2>1, <2>2 DEF View, Item
<1> HIDE DEF m, w
<1>10. f.fin => Last(w.msgs).msg = Part(v, f, n)
  <2>1. Last(Append(v.msgs, m)) = m
    BY <1>9, AppendFacts
  <2> QED
    BY <1>6, <1>9, <2>1
<1> QED
  BY <1>4, <1>7, <1>8, <1>10

(* A text that cannot be read is a reason to refuse it.                    *)
LEMMA UnreadableReason ==
    ASSUME NEW W, NEW f, NEW t, NEW n, NEW iocb, Receiving(W, f, t, n, iocb),
           NEW v, Situated(W, f, t, v), Fits(f, v), Unreadable(v, f, n)
    PROVE  TextReason'
<1> DEFINE now == Reassemble(SoFar(source'))
<1>1. /\ source'.peer = Append(W, f) /\ source'.taken = n /\ source'.peer[Len(source'.peer)] = f
      /\ W \in Seq(Frame) /\ f \in Frame /\ n \in Nat /\ n <= Len(f.payload)
  BY NewSource
<1>0. n = Len(f.payload) => ~source'.open
  <2> DEFINE limit == Len(f.payload)
  <2>1. source'.open = (n < limit)
    BY DEF Receiving
  <2> HIDE DEF limit
  <2>2. n = limit => ~(n < limit)
    BY <1>1
  <2> QED
    BY <2>1, <2>2 DEF limit
<1>2. v \in View /\ ViewSound(v) /\ v = Reassemble(W) /\ (IsCtrl(f) => f.fin)
  BY DEF Situated
<1>3. /\ f.fin => Last(now.msgs).msg = Part(v, f, n)
      /\ ~IsCtrl(f) /\ ~f.fin => now.data = Part(v, f, n)
  <2> DEFINE src == source'
  <2>1. src.peer = Append(W, f) /\ src.taken = n
    BY <1>1
  <2> HIDE DEF src
  <2>2. f.fin => Last(Reassemble(SoFar(src)).msgs).msg = Part(v, f, n)
    BY <1>1, <1>2, <2>1, SoFarView
  <2>3. ~IsCtrl(f) /\ ~f.fin => Reassemble(SoFar(src)).data = Part(v, f, n)
    BY <1>1, <1>2, <2>1, SoFarView
  <2> QED
    BY <2>2, <2>3 DEF src
<1>4. Reassemble(FramesSoFar)' = now
  BY DEF FramesSoFar, SoFar
<1> HIDE DEF now
<1> DEFINE text == IF f.fin THEN Last(now.msgs).msg ELSE now.data
<1>5. text = Part(v, f, n)
  BY <1>2, <1>3
<1> HIDE DEF text
<1>6. \/ f.opcode = WSLAY_CONNECTION_CLOSE
      \/ f.fin /\ ~source'.open /\ ~IsUtf8(text)
      \/ ~BeginsUtf8(text)
  BY <1>0, <1>1, <1>5 DEF Unreadable
<1> QED
  BY <1>1, <1>4, <1>6 DEF TextReason, text

-----------------------------------------------------------------------------
(* What holds when reading stops *)

(* The frames that are complete are frames.                                *)
LEMMA WholeFramesType ==
    ASSUME SourceTypeOK, SourceSound
    PROVE  WholeFrames \in Seq(Frame) /\ Reassemble(WholeFrames) \in View
           /\ Reassemble(WholeFrames).msgs \in Seq(Item)
<1>1. source.peer \in Seq(Frame) /\ source.open \in BOOLEAN
  BY DEF SourceTypeOK
<1>2. WholeFrames \in Seq(Frame)
  <2>1. CASE source.open
    <3>1. source.peer # << >>
      BY <2>1 DEF SourceSound
    <3>2. SubSeq(source.peer, 1, Len(source.peer) - 1) \in Seq(Frame)
      BY <1>1, <3>1, FrontAndLast
    <3> QED
      BY <2>1, <3>2 DEF WholeFrames, Front
  <2>2. CASE ~source.open
    BY <1>1, <2>2 DEF WholeFrames
  <2> QED
    BY <1>1, <2>1, <2>2
<1>3. Reassemble(WholeFrames) \in View
  BY <1>2, ReassembleType
<1> QED
  BY <1>2, <1>3 DEF View, Item

(* At most a Close more is queued.                                         *)
OnlyCloses(a, b) ==
    b = a \/ \E e \in OMsg : e.opcode = WSLAY_CONNECTION_CLOSE /\ b = Append(a, e)

(* The Pongs of the queue and the Pings of the messages.                   *)
PongsOf(a) == OfOpcode(a, WSLAY_PONG)
PingsOf(msgs) == OfOpcode(msgs, WSLAY_PING)

(* What is no Pong makes no Pong more.                                     *)
LEMMA NoPongMore ==
    ASSUME NEW a \in Seq(OMsg), NEW e \in OMsg, e.opcode # WSLAY_PONG
    PROVE  PongsOf(Append(a, e)) = PongsOf(a)
<1>1. PongsOf(Append(a, e)) = Pick(PongsOf(a), e, WSLAY_PONG)
  BY OfOpcodeAppend DEF PongsOf
<1> QED
  BY <1>1 DEF Pick

(* A Close is no Pong.                                                     *)
LEMMA ClosesArePongless ==
    ASSUME NEW a \in Seq(OMsg), NEW b, OnlyCloses(a, b)
    PROVE  PongsOf(a) \in Seq(OMsg) /\ PongsOf(b) = PongsOf(a)
<1>0. WSLAY_CONNECTION_CLOSE # WSLAY_PONG
  BY DEF WSLAY_CONNECTION_CLOSE, WSLAY_PONG
<1>1. PongsOf(a) \in Seq(OMsg)
  <2>1. NoMsg \in OMsg
    BY DEF NoMsg, OMsg, MsgType, Opcodes
  <2> QED
    BY <2>1, OfOpcodeAppend DEF PongsOf
<1>2. ASSUME NEW e \in OMsg, e.opcode = WSLAY_CONNECTION_CLOSE
      PROVE  PongsOf(Append(a, e)) = PongsOf(a)
  BY <1>0, <1>2, NoPongMore
<1>3. CASE b = a
  BY <1>1, <1>3
<1>4. CASE b # a
  <2>1. PICK e \in OMsg : e.opcode = WSLAY_CONNECTION_CLOSE /\ b = Append(a, e)
    BY <1>4 DEF OnlyCloses
  <2>2. PongsOf(Append(a, e)) = PongsOf(a)
    BY <1>2, <2>1
  <2> QED
    BY <1>1, <2>1, <2>2
<1> QED
  BY <1>3, <1>4

(* The Pings of more messages.                                             *)
LEMMA PingsGrow ==
    ASSUME NEW a \in Seq(Item), NEW e \in Item
    PROVE  /\ PingsOf(a) \in Seq(Item)
           /\ PingsOf(Append(a, e)) = IF e.opcode = WSLAY_PING THEN Append(PingsOf(a), e) ELSE PingsOf(a)
  BY OfOpcodeAppend DEF PingsOf, Pick

(* The Pongs match when reading stops.                                     *)
LEMMA PongsStillMatch ==
    ASSUME NEW pongs \in Seq(OMsg), NEW a \in Seq(Item), NEW b, Grows(a, b),
           PongsMatch(pongs, PingsOf(a))
    PROVE  PongsMatch(pongs, PingsOf(b))
<1>1. ASSUME NEW e \in Item PROVE PongsMatch(pongs, PingsOf(Append(a, e)))
  <2>1. /\ PingsOf(a) \in Seq(Item)
        /\ PingsOf(Append(a, e)) = IF e.opcode = WSLAY_PING THEN Append(PingsOf(a), e) ELSE PingsOf(a)
    BY PingsGrow
  <2>2. PongsMatch(pongs, Append(PingsOf(a), e))
    BY <2>1, PongsAppend
  <2> QED
    BY <2>1, <2>2
<1> QED
  BY <1>1 DEF Grows

(* PongForPing and what it says of the histories.                          *)
LEMMA PongForPingMeaning ==
    /\ PongForPing <=> /\ PongsMatch(PongsOf(accepted), PingsOf(Reassemble(WholeFrames).msgs))
                       /\ read_enabled /\ wslay_event_is_msg_queueable =>
                            Len(PongsOf(accepted)) = Len(PingsOf(Reassemble(WholeFrames).msgs))
    /\ PongForPing' <=>
         /\ PongsMatch(PongsOf(accepted'), PingsOf(Reassemble(WholeFrames').msgs))
         /\ read_enabled' /\ wslay_event_is_msg_queueable' =>
              Len(PongsOf(accepted')) = Len(PingsOf(Reassemble(WholeFrames').msgs))
  BY DEF PongForPing, PongsMatch, PongsOf, PingsOf

(* DeliveredAsSent and what it says of the histories.                      *)
LEMMA DeliveredMeaning ==
    /\ DeliveredMsgs = Strip(delivered) /\ DeliveredMsgs' = Strip(delivered')
    /\ \A msgs : AsDelivered(msgs) = Cut(config.no_buffering, msgs)
    /\ DeliveredAsSent' <=>
         (config'.on_msg_recv =>
            /\ IsPrefix(Strip(delivered'), Cut(config'.no_buffering, Reassemble(WholeFrames').msgs))
            /\ read_enabled' => Strip(delivered') = Cut(config'.no_buffering, Reassemble(WholeFrames').msgs))
<1>1. DeliveredMsgs = Strip(delivered) /\ DeliveredMsgs' = Strip(delivered')
  BY DEF DeliveredMsgs, Strip, StripOne
<1>2. \A msgs : AsDelivered(msgs) = Cut(config.no_buffering, msgs)
  BY DEF AsDelivered, Cut, CutOne
<1>3. DeliveredAsSent' <=>
         (config'.on_msg_recv =>
            /\ IsPrefix(Strip(delivered'), Cut(config'.no_buffering, Reassemble(WholeFrames').msgs))
            /\ read_enabled' => Strip(delivered') = Cut(config'.no_buffering, Reassemble(WholeFrames').msgs))
  BY DEF DeliveredAsSent, DeliveredMsgs, Strip, StripOne, AsDelivered, Cut, CutOne
<1> QED
  BY <1>1, <1>2, <1>3

(* The Pongs stay sound when reading stops.                                *)
LEMMA HaltPongs ==
    ASSUME Inv, read_enabled, ~read_enabled',
           Grows(Reassemble(WholeFrames).msgs, Reassemble(WholeFrames').msgs),
           OnlyCloses(accepted, accepted')
    PROVE  PongForPing'
<1> DEFINE a == Reassemble(WholeFrames).msgs
           b == Reassemble(WholeFrames').msgs
<1>1. a \in Seq(Item) /\ accepted \in Seq(OMsg)
  BY WholeFramesType DEF Inv, TypeOK, QueueTypeOK
<1>2. PongsMatch(PongsOf(accepted), PingsOf(a))
  BY PongForPingMeaning DEF Inv
<1> HIDE DEF a, b
<1>3. PongsOf(accepted) \in Seq(OMsg) /\ PongsOf(accepted') = PongsOf(accepted)
  BY <1>1, ClosesArePongless
<1>4. PongsMatch(PongsOf(accepted), PingsOf(b))
  BY <1>1, <1>2, <1>3, PongsStillMatch DEF a, b
<1> QED
  BY <1>3, <1>4, PongForPingMeaning DEF b

(* Nothing is delivered when reading stops: the histories stay sound.      *)
LEMMA HaltHistories ==
    ASSUME Inv, read_enabled, ~read_enabled', delivered' = delivered, config' = config,
           Grows(Reassemble(WholeFrames).msgs, Reassemble(WholeFrames').msgs),
           OnlyCloses(accepted, accepted')
    PROVE  DeliveredAsSent' /\ PongForPing'
<1> DEFINE a == Reassemble(WholeFrames).msgs
           b == Reassemble(WholeFrames').msgs
           no == config.no_buffering
<1>1. a \in Seq(Item) /\ accepted \in Seq(OMsg) /\ delivered \in Seq(Delivery)
  BY WholeFramesType DEF Inv, TypeOK, QueueTypeOK, Delivery
<1>2. config.on_msg_recv => Strip(delivered) = Cut(no, a)
  BY DeliveredMeaning DEF Inv, InStep
<1> HIDE DEF a, b, no
<1>4. PongForPing'
  BY HaltPongs
<1>5. ASSUME config.on_msg_recv PROVE IsPrefix(Strip(delivered), Cut(no, b))
  <2> DEFINE S == Cut(no, a)
  <2>1. \A e \in Item : S \in Seq(Item) /\ CutOne(no, e) \in Item /\ Cut(no, Append(a, e)) = Append(S, CutOne(no, e))
    BY <1>1, CutAppend
  <2>2. S \in Seq(Item)
    <3>1. [ opcode |-> 0, msg |-> << >> ] \in Item
      BY DEF Item
    <3> QED
      BY <2>1, <3>1
  <2> HIDE DEF S
  <2>3. IsPrefix(S, S) /\ \A e \in Item : IsPrefix(S, Append(S, e))
    BY <2>2, PrefixFacts
  <2>4. Strip(delivered) = S
    BY <1>2, <1>5 DEF S
  <2>5. b = a \/ \E e \in Item : b = Append(a, e)
    BY DEF Grows, a, b
  <2>6. CASE b = a
    BY <2>3, <2>4, <2>6 DEF S
  <2>7. ASSUME NEW e \in Item, b = Append(a, e) PROVE IsPrefix(Strip(delivered), Cut(no, b))
    BY <2>1, <2>3, <2>4, <2>7
  <2> QED
    BY <2>5, <2>6, <2>7
<1>6. DeliveredAsSent'
  BY <1>5, DeliveredMeaning DEF b, no
<1> QED
  BY <1>4, <1>6

(* Why the connection may fail with 1002 and with 1009.                    *)
FramingReason ==
    LET last == source.peer[Len(source.peer)]
    IN  \/ BreaksFraming(source.peer)
        \/ /\ last.opcode = WSLAY_CONNECTION_CLOSE
           /\ ~wslay_event_is_valid_status_code(ntohs(last.payload))

SizeReason ==
    LET last   == source.peer[Len(source.peer)]
        view   == Reassemble(source.peer)
        length == IF last.fin THEN Len(Last(view.msgs).msg) ELSE Len(view.data)
    IN  length > max_recv_msg_length

(* Reading stops, nothing is delivered, the peer may be sent a Close.      *)
Halts(status) ==
    /\ read_enabled' = FALSE /\ delivered' = delivered /\ status_code_recv' = status_code_recv
    /\ error' \in CallbackErrors /\ ret' \in Int /\ QueuesTyped'
    /\ \/ /\ accepted' = accepted /\ close_status' = close_status
          /\ ret' \in {WSLAY_ERR_NOMEM, -1, 1}
       \/ /\ accepted' = Append(accepted, CloseMsg(status, << >>))
          /\ close_status' = close_status \cup {"QUEUED"}

(* What a call leaves alone, and the type of what it may change.           *)
Around ==
    /\ config' = config /\ write_enabled' = write_enabled /\ readShut' = readShut
    /\ heap' \in { "sound", "misused", "crashed" }

(* The queues are typed.                                                   *)
LEMMA InvTypes ==
    ASSUME Inv
    PROVE  /\ QueuesTyped /\ close_status \in SUBSET CloseStatus /\ error \in CallbackErrors
           /\ ret \in Int /\ rx \in Rx /\ Bounded(rx) /\ write_enabled \in BOOLEAN
           /\ read_enabled \in BOOLEAN /\ readShut \in BOOLEAN /\ config \in Config
           /\ status_code_recv \in StatusCode /\ delivered \in Seq(Delivery)
           /\ SourceTypeOK /\ SourceSound
  BY DEF Inv, TypeOK, QueueTypeOK, QueuesTyped, SlotsSound, Bounded, Delivery

(* The types after a step, from its parts.                                 *)
LEMMA NewTypes ==
    ASSUME Inv, Around, QueuesTyped', close_status' \in SUBSET CloseStatus,
           error' \in CallbackErrors, ret' \in Int, SourceTypeOK', read_enabled' \in BOOLEAN,
           rx' \in Rx, status_code_recv' \in StatusCode, delivered' \in Seq(Delivery)
    PROVE  TypeOK'
<1>1. write_enabled' \in BOOLEAN /\ config' \in Config /\ readShut' \in BOOLEAN
  BY InvTypes DEF Around
<1>2. QueueTypeOK'
  BY <1>1 DEF QueueTypeOK, QueuesTyped
<1> QED
  BY <1>1, <1>2 DEF TypeOK, Around, Delivery

(* A protocol error stops reading.                                         *)
LEMMA FailHalts ==
    ASSUME Inv, NEW status \in StatusCode, NEW x, FailConnection(status, x)
    PROVE  Halts(status) /\ rx' = x
<1>1. PICK r \in QueueReturns : /\ wslay_event_queue_close_wrapper(close_status, status, << >>, r)
                                /\ ret' = r
  BY DEF FailConnection
<1>2. << >> \in Seq(Byte) /\ Len(<< >>) <= CtrlMax - 2
  BY CtrlMaxAssumption
<1>3. read_enabled' = FALSE /\ CloseTried(close_status, status, << >>, r)
  BY <1>1, <1>2, InvTypes, WrapperEffect
<1>4. delivered' = delivered /\ status_code_recv' = status_code_recv /\ error' = error /\ rx' = x
  BY DEF FailConnection
<1>5. ret' \in Int
  BY <1>1 DEF QueueReturns, WSLAY_ERR_NO_MORE_MSG, WSLAY_ERR_INVALID_ARGUMENT
<1> QED
  BY <1>1, <1>3, <1>4, <1>5, InvTypes DEF Halts, CloseTried

(* No memory stops reading.                                                *)
LEMMA StopHalts ==
    ASSUME Inv, NEW x, NEW r \in {-1, WSLAY_ERR_NOMEM}, Stop(x, r)
    PROVE  Halts(0) /\ rx' = x
<1>1. /\ read_enabled' = FALSE /\ delivered' = delivered /\ status_code_recv' = status_code_recv
      /\ error' = error /\ ret' = r /\ UNCHANGED queueVars /\ close_status' = close_status /\ rx' = x
  BY DEF Stop
<1>2. QueuesTyped' /\ accepted' = accepted
  BY <1>1, InvTypes, QueuesKept
<1> QED
  BY <1>1, <1>2, InvTypes DEF Halts, WSLAY_ERR_NOMEM

(* After a stop only its own status code is new among the Closes queued.   *)
LEMMA HaltCloses ==
    ASSUME Inv, read_enabled, NEW status \in StatusCode, Halts(status),
           NEW code \in StatusCode, FailsWith(code)'
    PROVE  status = code
<1>1. ClosesWith(accepted', code) /\ code \notin AppStatus
  BY DEF FailsWith, Accepts, ClosesWith
<1>2. ClosesWith(accepted, code) => code \in AppStatus
  BY DEF Inv, InStep, Accepts, ClosesWith
<1>3. accepted \in Seq(OMsg)
  BY InvTypes DEF QueuesTyped
<1>4. accepted' = Append(accepted, CloseMsg(status, << >>))
  BY <1>1, <1>2 DEF Halts
<1>5. << >> \in Seq(Byte) /\ Len(<< >>) <= CtrlMax - 2
  BY CtrlMaxAssumption
<1>6. CloseMsg(status, << >>) \in OMsg /\ CloseMsg(status, << >>).data = CloseBody(status, << >>)
  BY <1>5, CloseBodyFacts
<1>7. CloseBody(status, << >>) = htons(code)
  BY <1>1, <1>2, <1>3, <1>4, <1>6, ClosesAppend
<1>8. htons(code) # << >> /\ Len(htons(code)) = 2
  BY HtonsFacts
<1>9. status # 0
  BY <1>7, <1>8 DEF CloseBody
<1>10. htons(status) \o << >> = htons(status)
  <2>1. htons(status) \in Seq(Byte)
    BY HtonsFacts
  <2> QED
    BY <2>1, ConcatEmptySeq
<1>11. htons(status) = htons(code)
  BY <1>7, <1>9, <1>10 DEF CloseBody
<1> QED
  BY <1>11, HtonsInjective

(* Reading stops and everything that was said stays true.                  *)
LEMMA HaltKeepsInv ==
    ASSUME Inv, read_enabled, NEW status \in StatusCode, Halts(status), Around,
           SourceTypeOK', SourceSound', NEW s, NEW e, Counted(rx', s, e), e <= s,
           s <= Len(source'.peer),
           Grows(Reassemble(WholeFrames).msgs, Reassemble(WholeFrames').msgs),
           status = WSLAY_CODE_PROTOCOL_ERROR => FramingReason',
           status = WSLAY_CODE_MESSAGE_TOO_BIG => SizeReason',
           status = WSLAY_CODE_INVALID_FRAME_PAYLOAD_DATA => TextReason'
    PROVE  Inv'
<1>1. InStep
  BY DEF Inv
<1>2. close_status' \in SUBSET CloseStatus
  BY InvTypes DEF Halts, CloseStatus
<1>3. TypeOK'
  BY <1>2, InvTypes, NewTypes DEF Halts, Counted
<1>4. SlotsSound' /\ CallbacksSound'
  BY DEF Counted, Bounded, SlotsSound, CallbacksSound
<1>5. "RECEIVED" \notin close_status /\ "RECEIVED" \notin close_status'
  BY <1>1 DEF InStep, Halts
<1>6. Answered'
  BY <1>5 DEF Answered
<1>7. OnlyCloses(accepted, accepted')
  <2>1. << >> \in Seq(Byte) /\ Len(<< >>) <= CtrlMax - 2
    BY CtrlMaxAssumption
  <2>2. CloseMsg(status, << >>) \in OMsg /\ CloseMsg(status, << >>).opcode = WSLAY_CONNECTION_CLOSE
    BY <2>1, CloseBodyFacts
  <2> QED
    BY <2>2 DEF Halts, OnlyCloses
<1>8. DeliveredAsSent' /\ PongForPing'
  BY <1>7, HaltHistories DEF Halts, Around
<1>9. FramingVerdict'
  <2>1. WSLAY_CODE_PROTOCOL_ERROR \in StatusCode
    <3>1. WSLAY_CODE_PROTOCOL_ERROR \in Nat /\ WSLAY_CODE_PROTOCOL_ERROR <= UINT16_MAX /\ UINT16_MAX \in Nat
      BY DEF WSLAY_CODE_PROTOCOL_ERROR, UINT16_MAX
    <3> QED
      BY <3>1 DEF StatusCode
  <2>2. FailsWith(WSLAY_CODE_PROTOCOL_ERROR)' => FramingReason'
    BY <2>1, HaltCloses
  <2> QED
    BY <2>2 DEF FramingVerdict, FramingReason, Halts
<1>10. SizeVerdict'
  <2>1. WSLAY_CODE_MESSAGE_TOO_BIG \in StatusCode
    <3>1. WSLAY_CODE_MESSAGE_TOO_BIG \in Nat /\ WSLAY_CODE_MESSAGE_TOO_BIG <= UINT16_MAX /\ UINT16_MAX \in Nat
      BY DEF WSLAY_CODE_MESSAGE_TOO_BIG, UINT16_MAX
    <3> QED
      BY <3>1 DEF StatusCode
  <2>2. FailsWith(WSLAY_CODE_MESSAGE_TOO_BIG)' => SizeReason'
    BY <2>1, HaltCloses
  <2> QED
    BY <2>2 DEF SizeVerdict, SizeReason
<1>11. FailureAnswered'
  BY DEF FailureAnswered, Halts
<1>12. CloseReceivedHonest'
  BY <1>5 DEF CloseReceivedHonest, Inv, Halts
<1>13. read_enabled' => InStep'
  BY DEF Halts
<1>14. TextsDelivered'
  BY DEF Inv, TextsDelivered, Halts
<1>15. TextRefusal'
  <2>1. WSLAY_CODE_INVALID_FRAME_PAYLOAD_DATA \in StatusCode
    <3>1. /\ WSLAY_CODE_INVALID_FRAME_PAYLOAD_DATA \in Nat /\ UINT16_MAX \in Nat
          /\ WSLAY_CODE_INVALID_FRAME_PAYLOAD_DATA <= UINT16_MAX
      BY DEF WSLAY_CODE_INVALID_FRAME_PAYLOAD_DATA, UINT16_MAX
    <3> QED
      BY <3>1 DEF StatusCode
  <2>2. FailsWith(WSLAY_CODE_INVALID_FRAME_PAYLOAD_DATA)' => TextReason'
    BY <2>1, HaltCloses
  <2> QED
    BY <2>2 DEF TextRefusal
<1> QED
  BY <1>3, <1>4, <1>6, <1>8, <1>9, <1>10, <1>11, <1>12, <1>13, <1>14, <1>15 DEF Inv

(* Reading stops at a chunk.                                               *)
LEMMA ChunkHalts ==
    ASSUME Inv, read_enabled, Around, NEW W, NEW f, NEW t, NEW n, NEW iocb,
           Receiving(W, f, t, n, iocb), NEW status \in StatusCode, Halts(status),
           NEW s, NEW e, Counted(rx', s, e), e <= s, s <= Len(W) + 1,
           status = WSLAY_CODE_PROTOCOL_ERROR => FramingReason',
           status = WSLAY_CODE_MESSAGE_TOO_BIG => SizeReason',
           status = WSLAY_CODE_INVALID_FRAME_PAYLOAD_DATA => TextReason'
    PROVE  Inv'
<1>1. /\ SourceSound' /\ SourceTypeOK' /\ W \in Seq(Frame) /\ f \in Frame
      /\ WholeFrames' \in {W, Append(W, f)} /\ Len(source'.peer) = Len(W) + 1
  BY NewSource
<1>2. WholeFrames = W
  BY DEF Receiving
<1>3. Reassemble(W) \in View /\ Reassemble(Append(W, f)) = AddFrame(Reassemble(W), f)
  BY <1>1, ReassembleType, ReassembleAppend
<1>4. Grows(Reassemble(W).msgs, AddFrame(Reassemble(W), f).msgs) /\ Grows(Reassemble(W).msgs, Reassemble(W).msgs)
  BY <1>1, <1>3, ViewGrows DEF Grows
<1>5. Grows(Reassemble(WholeFrames).msgs, Reassemble(WholeFrames').msgs)
  BY <1>1, <1>2, <1>3, <1>4
<1> QED
  BY <1>1, <1>5, HaltKeepsInv

(* The codes the library itself fails a connection with.                   *)
LEMMA FailCodes ==
    /\ WSLAY_CODE_PROTOCOL_ERROR \in StatusCode /\ WSLAY_CODE_MESSAGE_TOO_BIG \in StatusCode
    /\ WSLAY_CODE_INVALID_FRAME_PAYLOAD_DATA \in StatusCode /\ 0 \in StatusCode
    /\ WSLAY_CODE_PROTOCOL_ERROR # WSLAY_CODE_MESSAGE_TOO_BIG
    /\ WSLAY_CODE_PROTOCOL_ERROR # WSLAY_CODE_INVALID_FRAME_PAYLOAD_DATA
    /\ WSLAY_CODE_MESSAGE_TOO_BIG # WSLAY_CODE_INVALID_FRAME_PAYLOAD_DATA
    /\ 0 # WSLAY_CODE_PROTOCOL_ERROR /\ 0 # WSLAY_CODE_MESSAGE_TOO_BIG
    /\ 0 # WSLAY_CODE_INVALID_FRAME_PAYLOAD_DATA
  BY DEF WSLAY_CODE_PROTOCOL_ERROR, WSLAY_CODE_MESSAGE_TOO_BIG,
         WSLAY_CODE_INVALID_FRAME_PAYLOAD_DATA, StatusCode, UINT16_MAX

(* Invalid UTF-8 stops reading.                                            *)
LEMMA NotTextKeepsInv ==
    ASSUME Inv, read_enabled, Around, NEW W, NEW f, NEW t, NEW n, NEW iocb,
           Receiving(W, f, t, n, iocb), Fits(f, Reassemble(W)),
           NEW s, NEW e, e <= s, s <= Len(W) + 1, NotText(Reassemble(W), f, n, s, e)
    PROVE  Inv'
<1>0. TextReason'
  <2> DEFINE v == Reassemble(W)
  <2>1. Situated(W, f, t, v) /\ Fits(f, v) /\ Unreadable(v, f, n)
    BY ChunkSituation DEF NotText
  <2> HIDE DEF v
  <2> QED
    BY <2>1, UnreadableReason
<1>1. PICK x : Counted(x, s, e) /\ FailConnection(WSLAY_CODE_INVALID_FRAME_PAYLOAD_DATA, x)
  BY DEF NotText
<1>2. Halts(WSLAY_CODE_INVALID_FRAME_PAYLOAD_DATA) /\ rx' = x
  BY <1>1, FailCodes, FailHalts
<1> QED
  BY <1>0, <1>1, <1>2, FailCodes, ChunkHalts

(* So does a lack of memory.                                               *)
LEMMA NoMemoryKeepsInv ==
    ASSUME Inv, read_enabled, Around, NEW W, NEW f, NEW t, NEW n, NEW iocb,
           Receiving(W, f, t, n, iocb), NEW s, NEW e, e <= s, s <= Len(W) + 1,
           NoRoom(s, e) \/ OutOfRoom(s, e)
    PROVE  Inv'
<1>1. CASE NoRoom(s, e)
  <2>1. PICK x : Counted(x, s, e) /\ Stop(x, -1)
    BY <1>1 DEF NoRoom
  <2>2. Halts(0) /\ rx' = x
    BY <2>1, StopHalts
  <2> QED
    BY <2>1, <2>2, FailCodes, ChunkHalts
<1>2. CASE OutOfRoom(s, e)
  <2>1. PICK x : Counted(x, s, e) /\ Stop(x, WSLAY_ERR_NOMEM)
    BY <1>2 DEF OutOfRoom
  <2>2. Halts(0) /\ rx' = x
    BY <2>1, StopHalts
  <2> QED
    BY <2>1, <2>2, FailCodes, ChunkHalts
<1> QED
  BY <1>1, <1>2

(* And a frame that does not fit.                                          *)
LEMMA RefusedKeepsInv ==
    ASSUME Inv, read_enabled, Around, NEW W, NEW f, NEW t, NEW n, NEW iocb,
           Receiving(W, f, t, n, iocb), ~Fits(f, Reassemble(W)), Refused
    PROVE  Inv'
<1>1. Situated(W, f, t, Reassemble(W))
  BY ChunkSituation
<1>2. /\ W \in Seq(Frame) /\ source'.peer = Append(W, f) /\ Len(W) \in Nat
  BY NewSource
<1>3. BreaksFraming(Append(W, f))
  BY <1>1, <1>2, FitsFraming
<1>4. FramingReason'
  BY <1>2, <1>3 DEF FramingReason
<1>5. Halts(WSLAY_CODE_PROTOCOL_ERROR) /\ rx' = rx
  BY FailCodes, FailHalts DEF Refused
<1>6. Counted(rx, rx.starts, rx.ends) /\ rx.ends <= rx.starts /\ rx.starts <= Len(W) + 1
  BY <1>1, <1>2 DEF Situated, Counted
<1> QED
  BY <1>4, <1>5, <1>6, FailCodes, ChunkHalts

(* And a message that is too big.                                          *)
LEMMA TooBigKeepsInv ==
    ASSUME Inv, read_enabled, Around, NEW W, NEW f, NEW t, NEW n, NEW iocb,
           Receiving(W, f, t, n, iocb), Fits(f, Reassemble(W)),
           NEW s, NEW e, e <= s, s <= Len(W) + 1, TooBig(Reassemble(W), f, iocb, s, e)
    PROVE  Inv'
<1> DEFINE v == Reassemble(W)
           w == AddFrame(v, f)
<1>1. Situated(W, f, t, v)
  BY ChunkSituation
<1>2. /\ W \in Seq(Frame) /\ source'.peer = Append(W, f) /\ source'.peer[Len(source'.peer)] = f
  BY NewSource
<1>3. v \in View /\ ViewSound(v) /\ f \in Frame /\ (IsCtrl(f) => f.fin)
  BY <1>1 DEF Situated
<1> HIDE DEF v
<1>4. PICK x : /\ Counted(x, s, e) /\ Opened(x, v, f) /\ IsTooBig(x, iocb)
               /\ FailConnection(WSLAY_CODE_MESSAGE_TOO_BIG, x)
  BY DEF TooBig, v
<1>5. Halts(WSLAY_CODE_MESSAGE_TOO_BIG) /\ rx' = x
  BY <1>4, FailCodes, FailHalts
<1>6. /\ Before(f, v) \in Seq(Byte) /\ f.payload \in Seq(Byte)
      /\ Len(Before(f, v)) \in Nat /\ Len(f.payload) \in Nat
  BY <1>3, MessageTypes
<1>7. Len(Whole(f, v)) = Len(Before(f, v)) + Len(f.payload)
  BY <1>6, ConcatProperties DEF Whole
<1>8. Msg(x).msg_length <= Len(Before(f, v)) /\ Msg(x).msg_length \in Nat
  <2>1. Msg(x) \in Imsg
    BY <1>4 DEF Counted, Rx, Msg
  <2>2. Msg(x).msg_length \in {0, Len(Before(f, v))}
    BY <1>4 DEF Opened, Holds
  <2> QED
    BY <1>6, <2>1, <2>2, ImsgFields
<1>9. Msg(x).msg_length + Len(f.payload) > max_recv_msg_length /\ max_recv_msg_length \in Nat
  BY <1>4, EventRecvAssumption DEF IsTooBig, Receiving, Carries, IocbOf
<1>10. Len(Whole(f, v)) > max_recv_msg_length
  BY <1>6, <1>7, <1>8, <1>9
<1>11. Fits(f, v)
  BY DEF v
<1>12. /\ Reassemble(Append(W, f)) = w
       /\ f.fin => w.msgs = Append(v.msgs, [ opcode |-> OpcodeOf(f, v), msg |-> Whole(f, v) ])
       /\ ~f.fin => w.data = Whole(f, v)
  <2>1. Reassemble(Append(W, f)) = w
    BY <1>1, <1>2, <1>11, NextView
  <2>2. f.fin => w.msgs = Append(v.msgs, [ opcode |-> OpcodeOf(f, v), msg |-> Whole(f, v) ])
    BY <1>3, <1>11, AddFrameCases
  <2>3. ~f.fin => w.data = Whole(f, v)
    BY <1>3, <1>11, AddFrameCases
  <2> QED
    BY <2>1, <2>2, <2>3
<1>13. f.fin => Last(w.msgs).msg = Whole(f, v)
  <2> SUFFICES ASSUME f.fin PROVE Last(w.msgs).msg = Whole(f, v)
    OBVIOUS
  <2> DEFINE m == [ opcode |-> OpcodeOf(f, v), msg |-> Whole(f, v) ]
  <2>1. v.msgs \in Seq(Item) /\ m.msg = Whole(f, v)
    BY <1>3 DEF View, Item
  <2>2. m \in Item
    <3>1. OpcodeOf(f, v) \in 0..255
      BY <1>3 DEF OpcodeOf, View, Frame
    <3>2. Whole(f, v) \in Seq(Byte)
      BY <1>6, ConcatProperties DEF Whole
    <3> QED
      BY <3>1, <3>2 DEF Item
  <2>3. w.msgs = Append(v.msgs, m)
    BY <1>12
  <2> HIDE DEF m
  <2>4. Last(Append(v.msgs, m)) = m
    BY <2>1, <2>2, AppendFacts
  <2> QED
    BY <2>1, <2>3, <2>4
<1>14. SizeReason'
  BY <1>2, <1>10, <1>12, <1>13 DEF SizeReason
<1> QED
  BY <1>4, <1>5, <1>14, FailCodes, ChunkHalts

-----------------------------------------------------------------------------
(* Reading goes on.                                                        *)

(* The receiver is in step after a step, from the parts of it.             *)
LEMMA NewInStep ==
    ASSUME Around, NEW W, NEW v, WholeFrames' = W, v = Reassemble(W), ViewSound(v),
           (v.opcode # NoOpcode) <=> InsideMessage(W), ~BreaksFraming(source'.peer),
           IF source'.open
           THEN Fits(Last(source'.peer), v) /\ InFrame(rx', v, Last(source'.peer), source'.taken)
           ELSE Ready(rx', v),
           rx'.starts = Len(source'.peer), rx'.ends = Len(W),
           config.on_msg_recv => Strip(delivered') = Cut(config.no_buffering, v.msgs),
           \A i \in 1..Len(v.msgs) : v.msgs[i].opcode \notin NotHanded,
           ~config.on_msg_recv => delivered' = << >>, "RECEIVED" \notin close_status',
           \A status \in StatusCode : ClosesWith(accepted', status) => status \in AppStatus
    PROVE  InStep'
<1>1. config' = config
  BY DEF Around
<1>2. Reassemble(WholeFrames)' = v
  OBVIOUS
<1>3. (IF source.open THEN Fits(Last(source.peer), v) /\ InFrame(rx, v, Last(source.peer), source.taken)
       ELSE Ready(rx, v))'
  BY <1>1 DEF InFrame, Holding, InSlot, DataSlot, Holds, Filled, Ready, IdleSlot, Buffers, Msg,
              AtFrameStart, InText
<1>4. DeliveredMsgs' = Strip(delivered') /\ AsDelivered(v.msgs)' = Cut(config.no_buffering, v.msgs)
  BY <1>1 DEF DeliveredMsgs, Strip, StripOne, AsDelivered, Cut, CutOne
<1>5. \A status \in StatusCode : Accepts(status)' => status \in AppStatus
  BY DEF Accepts, ClosesWith
<1> QED
  BY <1>1, <1>2, <1>3, <1>4, <1>5 DEF InStep

(* Reading goes on and everything that was said stays true.                *)
LEMMA GoingOnKeepsInv ==
    ASSUME Inv, read_enabled, Around, InStep', PongForPing', SourceTypeOK', SourceSound',
           QueuesTyped', error' \in CallbackErrors, ret' \in Int, read_enabled' = TRUE,
           close_status' = close_status, status_code_recv' = status_code_recv,
           delivered' \in Seq(Delivery), NEW s, NEW e, Counted(rx', s, e), e <= s,
           s <= Len(source'.peer), TextsDelivered'
    PROVE  Inv'
<1>1. TypeOK'
  BY InvTypes, NewTypes DEF Counted
<1>2. SlotsSound' /\ CallbacksSound'
  BY DEF Counted, Bounded, SlotsSound, CallbacksSound
<1>3. "RECEIVED" \notin close_status /\ "RECEIVED" \notin close_status'
  BY DEF Inv, InStep
<1>4. Answered' /\ CloseReceivedHonest'
  BY <1>3 DEF Answered, CloseReceivedHonest, Inv
<1>5. DeliveredAsSent'
  <2> DEFINE m == Reassemble(WholeFrames').msgs
             d == Strip(delivered')
  <2>1. config' = config
    BY DEF Around
  <2>2. config.on_msg_recv => d = Cut(config.no_buffering, m)
    BY <2>1, DeliveredMeaning DEF InStep, AsDelivered, Cut, CutOne
  <2>3. d \in Seq(Item)
    <3>1. [ opcode |-> WSLAY_PING, msg |-> << >>, status_code |-> 0 ] \in Delivery
      BY FailCodes DEF Delivery, Opcodes
    <3> QED
      BY <3>1, StripAppend
  <2>4. IsPrefix(d, d)
    BY <2>3, PrefixFacts
  <2> QED
    BY <2>1, <2>2, <2>4, DeliveredMeaning
<1>6. \A status \in StatusCode : ~FailsWith(status)'
  BY DEF InStep, FailsWith
<1>7. FramingVerdict' /\ SizeVerdict'
  <2>1. ~FailsWith(WSLAY_CODE_PROTOCOL_ERROR)' /\ ~FailsWith(WSLAY_CODE_MESSAGE_TOO_BIG)'
    BY <1>6, FailCodes
  <2>2. ~BreaksFraming(source.peer)'
    BY DEF InStep
  <2> QED
    BY <2>1, <2>2 DEF FramingVerdict, SizeVerdict
<1>8. FailureAnswered'
  BY DEF FailureAnswered
<1>9. TextRefusal'
  BY <1>6, FailCodes DEF TextRefusal
<1> QED
  BY <1>1, <1>2, <1>4, <1>5, <1>7, <1>8, <1>9 DEF Inv

(* The loop goes on inside a frame.                                        *)
LEMMA PartKeepsInv ==
    ASSUME Inv, read_enabled, Around, NEW W, NEW f, NEW t, NEW n, NEW iocb,
           Receiving(W, f, t, n, iocb), Fits(f, Reassemble(W)), n < Len(f.payload),
           NEW x, Counted(x, Len(W) + 1, Len(W)), InFrame(x, Reassemble(W), f, n), GoOn(x)
    PROVE  Inv'
<1> DEFINE v == Reassemble(W)
<1>1. Situated(W, f, t, v)
  BY ChunkSituation
<1>2. /\ SourceSound' /\ SourceTypeOK' /\ source'.peer = Append(W, f) /\ source'.taken = n
      /\ source'.open /\ WholeFrames' = W /\ Len(source'.peer) = Len(W) + 1
      /\ Last(source'.peer) = f /\ W \in Seq(Frame) /\ Len(W) \in Nat
  BY NewSource
<1>3. /\ rx' = x /\ ret' = 0 /\ read_enabled' = read_enabled /\ close_status' = close_status
      /\ error' = error /\ UNCHANGED queueVars /\ status_code_recv' = status_code_recv
      /\ delivered' = delivered
  BY DEF GoOn
<1>4. QueuesTyped' /\ accepted' = accepted
  BY <1>3, InvTypes, QueuesKept
<1>5. WholeFrames = W
  BY DEF Receiving
<1>6. ~BreaksFraming(source'.peer)
  BY <1>1, <1>2, FitsFraming
<1>7. /\ config.on_msg_recv => Strip(delivered) = Cut(config.no_buffering, v.msgs)
      /\ \A i \in 1..Len(v.msgs) : v.msgs[i].opcode \notin NotHanded
      /\ ~config.on_msg_recv => delivered = << >>
      /\ "RECEIVED" \notin close_status
      /\ \A status \in StatusCode : ClosesWith(accepted, status) => status \in AppStatus
  BY <1>5, DeliveredMeaning DEF Inv, InStep, Accepts, ClosesWith
<1>8. ViewSound(v) /\ ((v.opcode # NoOpcode) <=> InsideMessage(W))
  BY <1>1 DEF Situated
<1>9. rx'.starts = Len(source'.peer) /\ rx'.ends = Len(W)
  BY <1>2, <1>3 DEF Counted
<1> HIDE DEF v
<1>10. InStep'
  BY <1>2, <1>3, <1>4, <1>6, <1>7, <1>8, <1>9, NewInStep DEF v
<1>11. PongForPing'
  BY <1>2, <1>3, <1>4, <1>5, PongForPingMeaning DEF Inv, Around, wslay_event_is_msg_queueable
<1>12. /\ Counted(rx', Len(W) + 1, Len(W)) /\ Len(W) <= Len(W) + 1 /\ Len(W) + 1 <= Len(source'.peer)
       /\ ret' \in Int /\ read_enabled' = TRUE /\ error' \in CallbackErrors
       /\ delivered' \in Seq(Delivery)
  BY <1>2, <1>3, InvTypes
<1>13. TextsDelivered'
  BY <1>3 DEF Inv, TextsDelivered
<1> QED
  BY <1>2, <1>3, <1>4, <1>10, <1>11, <1>12, <1>13, GoingOnKeepsInv

(* What a message that was received is handed on as.                       *)
Handed(f, v, status) == [ opcode |-> OpcodeOf(f, v), msg |-> Text(f, v), status_code |-> status ]

(* Its types.                                                              *)
LEMMA HandedType ==
    ASSUME NEW v \in View, ViewSound(v), NEW f \in Frame, Fits(f, v), NEW status \in StatusCode
    PROVE  /\ Handed(f, v, status) \in Delivery /\ Text(f, v) \in Seq(Byte)
           /\ Handed(f, v, status).opcode = OpcodeOf(f, v) /\ Handed(f, v, status).msg = Text(f, v)
           /\ [ opcode |-> OpcodeOf(f, v), msg |-> Whole(f, v) ] \in Item
           /\ IsCtrl(f) => Text(f, v) = f.payload /\ OpcodeOf(f, v) = f.opcode
<1>1. Before(f, v) \in Seq(Byte) /\ f.payload \in Seq(Byte)
  BY MessageTypes
<1>2. Whole(f, v) \in Seq(Byte) /\ Text(f, v) \in Seq(Byte)
  BY <1>1, ConcatProperties DEF Whole, Text
<1>3. OpcodeOf(f, v) \in Opcodes /\ OpcodeOf(f, v) \in 0..255
  BY OpcodeKnown DEF Opcodes, WSLAY_CONNECTION_CLOSE, WSLAY_PING, WSLAY_PONG,
                     WSLAY_CONTINUATION_FRAME, WSLAY_TEXT_FRAME, WSLAY_BINARY_FRAME
<1>4. IsCtrl(f) => Text(f, v) = f.payload /\ OpcodeOf(f, v) = f.opcode
  <2> SUFFICES ASSUME IsCtrl(f) PROVE Text(f, v) = f.payload /\ OpcodeOf(f, v) = f.opcode
    OBVIOUS
  <2>1. f.opcode # WSLAY_CONTINUATION_FRAME
    BY CtrlBits DEF IsCtrl
  <2>2. Before(f, v) = << >> /\ OpcodeOf(f, v) = f.opcode /\ Buffers(f.opcode)
    BY <2>1 DEF Before, OpcodeOf, Buffers, IsCtrl
  <2>3. << >> \o f.payload = f.payload
    BY <1>1, ConcatEmptySeq
  <2> QED
    BY <2>2, <2>3 DEF Text, Whole
<1> QED
  BY <1>2, <1>3, <1>4 DEF Handed, Delivery, Item

(* A message more is delivered, and what is delivered as text is UTF-8.    *)
LEMMA TextsGrow ==
    ASSUME NEW v \in View, ViewSound(v), NEW f \in Frame, Fits(f, v), NEW status \in StatusCode,
           Readable(f, v), TextsDelivered, delivered \in Seq(Delivery),
           delivered' = Append(delivered, Handed(f, v, status))
    PROVE  TextsDelivered'
<1> DEFINE h == Handed(f, v, status)
<1>1. h \in Delivery /\ h.opcode = OpcodeOf(f, v) /\ h.msg = Text(f, v)
  BY HandedType
<1>2. IsUtf8(<< >>)
  <2> DEFINE none == << >>
  <2>1. none \in Seq(Octet)
    OBVIOUS
  <2>2. DecodeAll(UTF8_ACCEPT, none) = UTF8_ACCEPT
    BY NothingDecoded
  <2> HIDE DEF none
  <2>3. DecodeAll(UTF8_ACCEPT, none) = UTF8_ACCEPT <=> IsUtf8(none)
    BY <2>1, DecodeAllJudges
  <2> QED
    BY <2>2, <2>3 DEF none
<1>3. h.opcode = WSLAY_TEXT_FRAME => IsUtf8(h.msg)
  <2> HIDE DEF h
  <2> QED
    BY <1>1, <1>2 DEF Readable, Text
<1> HIDE DEF h
<1>4. /\ Len(Append(delivered, h)) = Len(delivered) + 1 /\ Len(delivered) \in Nat
      /\ Append(delivered, h)[Len(delivered) + 1] = h
      /\ \A i \in 1..Len(delivered) : Append(delivered, h)[i] = delivered[i]
  BY <1>1, AppendFacts
<1>5. delivered' = Append(delivered, h)
  BY DEF h
<1>6. ASSUME NEW i \in 1..Len(delivered'), delivered'[i].opcode = WSLAY_TEXT_FRAME
      PROVE  IsUtf8(delivered'[i].msg)
  <2>1. i = Len(delivered) + 1 \/ i \in 1..Len(delivered)
    BY <1>4, <1>5
  <2>2. CASE i = Len(delivered) + 1
    BY <1>3, <1>4, <1>5, <1>6, <2>2
  <2>3. CASE i \in 1..Len(delivered)
    <3>1. delivered'[i] = delivered[i]
      BY <1>4, <1>5, <2>3
    <3> QED
      BY <1>6, <2>3, <3>1 DEF TextsDelivered
  <2> QED
    BY <2>1, <2>2, <2>3
<1> QED
  BY <1>6 DEF TextsDelivered

(* The histories when a frame that is no Close was received.               *)
Records(f, v) ==
    /\ delivered' = IF config.on_msg_recv /\ f.fin THEN Append(delivered, Handed(f, v, 0))
                    ELSE delivered
    /\ accepted' = IF OpcodeOf(f, v) = WSLAY_PING /\ wslay_event_is_msg_queueable
                   THEN Append(accepted, PongMsg(Text(f, v))) ELSE accepted

(* What is delivered with the next frame.                                  *)
LEMMA DeliveredGrows ==
    ASSUME NEW v \in View, ViewSound(v), NEW f \in Frame, Fits(f, v), IsCtrl(f) => f.fin,
           delivered \in Seq(Delivery), NEW status \in StatusCode,
           Strip(delivered) = Cut(config.no_buffering, v.msgs), f.fin,
           delivered' = Append(delivered, Handed(f, v, status))
    PROVE  Strip(delivered') = Cut(config.no_buffering, AddFrame(v, f).msgs)
<1> DEFINE m == [ opcode |-> OpcodeOf(f, v), msg |-> Whole(f, v) ]
           d == Handed(f, v, status)
<1>1. d \in Delivery /\ m \in Item
  BY HandedType
<1>2. AddFrame(v, f).msgs = Append(v.msgs, m)
  BY AddFrameCases
<1>3. v.msgs \in Seq(Item)
  BY ViewGrows
<1>4. CutOne(config.no_buffering, m) = StripOne(d)
  BY TextIsCut DEF Handed
<1> HIDE DEF m, d
<1>5. Strip(Append(delivered, d)) = Append(Strip(delivered), StripOne(d))
  BY <1>1, StripAppend
<1>6. Cut(config.no_buffering, Append(v.msgs, m)) = Append(Cut(config.no_buffering, v.msgs), CutOne(config.no_buffering, m))
  BY <1>1, <1>3, CutAppend
<1> QED
  BY <1>2, <1>4, <1>5, <1>6 DEF d

(* The Pongs after the next frame.                                         *)
LEMMA PongsGrow ==
    ASSUME Inv, read_enabled, NEW v \in View, v = Reassemble(WholeFrames), ViewSound(v), NEW f \in Frame, Fits(f, v),
           IsCtrl(f) => f.fin, Records(f, v), write_enabled' = write_enabled,
           close_status' = close_status, Reassemble(WholeFrames') = AddFrame(v, f)
    PROVE  PongForPing'
<1> DEFINE m == [ opcode |-> OpcodeOf(f, v), msg |-> Whole(f, v) ]
           w == AddFrame(v, f)
           p == PongMsg(Text(f, v))
<1>1. /\ accepted \in Seq(OMsg) /\ v.msgs \in Seq(Item) /\ m \in Item
      /\ Text(f, v) \in Seq(Byte) /\ m.opcode = OpcodeOf(f, v) /\ m.msg = Whole(f, v)
  <2>1. m \in Item /\ Text(f, v) \in Seq(Byte)
    BY FailCodes, HandedType
  <2> QED
    BY <2>1, InvTypes, ViewGrows DEF QueuesTyped
<1>2. f.fin => w.msgs = Append(v.msgs, m)
  BY AddFrameCases
<1>3. ~f.fin => w.msgs = v.msgs /\ OpcodeOf(f, v) # WSLAY_PING
  <2>1. ~f.fin => w.msgs = v.msgs /\ ~IsCtrl(f)
    BY AddFrameCases
  <2>2. ~IsCtrl(f) => OpcodeOf(f, v) \in {WSLAY_TEXT_FRAME, WSLAY_BINARY_FRAME}
    BY AddFrameCases
  <2> QED
    BY <2>1, <2>2 DEF WSLAY_PING, WSLAY_TEXT_FRAME, WSLAY_BINARY_FRAME
<1>4. /\ PongsMatch(PongsOf(accepted), PingsOf(v.msgs))
      /\ wslay_event_is_msg_queueable => Len(PongsOf(accepted)) = Len(PingsOf(v.msgs))
  BY PongForPingMeaning DEF Inv
<1>5. wslay_event_is_msg_queueable' <=> wslay_event_is_msg_queueable
  BY DEF wslay_event_is_msg_queueable
<1>6. PongsOf(accepted) \in Seq(OMsg) /\ PongsOf(accepted) = PongsOf(accepted)
  BY <1>1, ClosesArePongless DEF OnlyCloses
<1>7. PingsOf(v.msgs) \in Seq(Item) /\ PingsOf(Append(v.msgs, m)) =
         IF m.opcode = WSLAY_PING THEN Append(PingsOf(v.msgs), m) ELSE PingsOf(v.msgs)
  BY <1>1, PingsGrow
<1>8. p \in OMsg /\ p.opcode = WSLAY_PONG /\ p.data = Text(f, v)
  BY <1>1 DEF PongMsg, omsg_non_fragmented_new, OMsg, MsgType, Opcodes
<1>9. OpcodeOf(f, v) = WSLAY_PING => Text(f, v) = Whole(f, v) /\ f.fin
  <2> SUFFICES ASSUME OpcodeOf(f, v) = WSLAY_PING PROVE Text(f, v) = Whole(f, v) /\ f.fin
    OBVIOUS
  <2>1. Buffers(WSLAY_PING)
    BY CtrlBits DEF Buffers
  <2> QED
    BY <1>3, <2>1 DEF Text
<1> HIDE DEF m, w, p
<1>10. CASE OpcodeOf(f, v) = WSLAY_PING /\ wslay_event_is_msg_queueable
  <2>1. accepted' = Append(accepted, p) /\ w.msgs = Append(v.msgs, m) /\ p.data = m.msg
    BY <1>1, <1>2, <1>8, <1>9, <1>10 DEF Records, p
  <2>2. PongsOf(Append(accepted, p)) = Append(PongsOf(accepted), p)
    <3>1. PongsOf(Append(accepted, p)) = Pick(PongsOf(accepted), p, WSLAY_PONG)
      BY <1>1, <1>8, OfOpcodeAppend DEF PongsOf
    <3> QED
      BY <1>8, <3>1 DEF Pick
  <2>3. PingsOf(w.msgs) = Append(PingsOf(v.msgs), m)
    BY <1>1, <1>7, <1>10, <2>1
  <2>4. PongsMatch(Append(PongsOf(accepted), p), Append(PingsOf(v.msgs), m))
    BY <1>1, <1>4, <1>6, <1>7, <1>8, <1>10, <2>1, PongsAppend
  <2>5. Len(Append(PongsOf(accepted), p)) = Len(Append(PingsOf(v.msgs), m))
    <3>1. Len(Append(PongsOf(accepted), p)) = Len(PongsOf(accepted)) + 1
      BY <1>6, <1>8, AppendFacts
    <3>2. Len(Append(PingsOf(v.msgs), m)) = Len(PingsOf(v.msgs)) + 1
      BY <1>1, <1>7, AppendFacts
    <3> QED
      BY <1>4, <1>10, <3>1, <3>2
  <2> QED
    BY <2>1, <2>2, <2>3, <2>4, <2>5, PongForPingMeaning DEF w
<1>11. CASE OpcodeOf(f, v) # WSLAY_PING
  <2>1. accepted' = accepted
    BY <1>11 DEF Records
  <2>2. PingsOf(w.msgs) = PingsOf(v.msgs)
    <3>1. CASE f.fin
      BY <1>1, <1>2, <1>7, <1>11, <3>1
    <3>2. CASE ~f.fin
      BY <1>3, <3>2
    <3> QED
      BY <3>1, <3>2
  <2> QED
    BY <1>4, <1>5, <2>1, <2>2, PongForPingMeaning DEF w
<1>12. CASE OpcodeOf(f, v) = WSLAY_PING /\ ~wslay_event_is_msg_queueable
  <2>1. accepted' = accepted /\ w.msgs = Append(v.msgs, m)
    BY <1>2, <1>9, <1>12 DEF Records
  <2>2. PongsMatch(PongsOf(accepted), PingsOf(w.msgs))
    BY <1>1, <1>4, <1>6, <2>1, PongsStillMatch DEF Grows
  <2> QED
    BY <1>5, <1>12, <2>1, <2>2, PongForPingMeaning DEF w
<1> QED
  BY <1>10, <1>11, <1>12

(* The loop goes on after a frame.                                         *)
LEMMA AdvanceKeepsInv ==
    ASSUME Inv, read_enabled, Around, NEW W, NEW f, NEW t, NEW n, NEW iocb,
           Receiving(W, f, t, n, iocb), Fits(f, Reassemble(W)), n = Len(f.payload),
           Counted(rx', Len(W) + 1, Len(W) + 1), Ready(rx', AddFrame(Reassemble(W), f)),
           OpcodeOf(f, Reassemble(W)) # WSLAY_CONNECTION_CLOSE, Records(f, Reassemble(W)),
           QueuesTyped', error' \in CallbackErrors, ret' \in Int, read_enabled' = TRUE,
           close_status' = close_status, status_code_recv' = status_code_recv,
           config.on_msg_recv /\ f.fin => Readable(f, Reassemble(W))
    PROVE  Inv'
<1> DEFINE v == Reassemble(W)
           w == AddFrame(v, f)
           m == [ opcode |-> OpcodeOf(f, v), msg |-> Whole(f, v) ]
<1>1. Situated(W, f, t, v)
  BY ChunkSituation
<1>2. /\ SourceSound' /\ SourceTypeOK' /\ source'.peer = Append(W, f)
      /\ ~source'.open /\ WholeFrames' = Append(W, f) /\ Len(source'.peer) = Len(W) + 1
      /\ W \in Seq(Frame) /\ Len(W) \in Nat
  BY NewSource
<1>3. WholeFrames = W
  BY DEF Receiving
<1>4. /\ config.on_msg_recv => Strip(delivered) = Cut(config.no_buffering, v.msgs)
      /\ \A i \in 1..Len(v.msgs) : v.msgs[i].opcode \notin NotHanded
      /\ ~config.on_msg_recv => delivered = << >>
      /\ "RECEIVED" \notin close_status
      /\ \A status \in StatusCode : ClosesWith(accepted, status) => status \in AppStatus
  BY <1>3, DeliveredMeaning DEF Inv, InStep, Accepts, ClosesWith
<1>5. v \in View /\ ViewSound(v) /\ f \in Frame /\ (IsCtrl(f) => f.fin)
  BY <1>1 DEF Situated
<1>6. Fits(f, v) /\ OpcodeOf(f, v) # WSLAY_CONNECTION_CLOSE /\ Records(f, v) /\ v = Reassemble(WholeFrames)
  BY <1>3
<1>7. Ready(rx', w) /\ (config.on_msg_recv /\ f.fin => Readable(f, v))
  OBVIOUS
<1> HIDE DEF v
<1>8. /\ Reassemble(Append(W, f)) = w /\ w \in View /\ ViewSound(w)
      /\ ((w.opcode # NoOpcode) <=> InsideMessage(Append(W, f)))
  BY <1>1, <1>2, <1>6, NextView
<1>9. ~BreaksFraming(source'.peer)
  BY <1>1, <1>2, <1>6, FitsFraming
<1>10. /\ f.fin => w.msgs = Append(v.msgs, m)
       /\ ~f.fin => w.msgs = v.msgs
  <2>1. f.fin => w.msgs = Append(v.msgs, m)
    BY <1>5, <1>6, AddFrameCases
  <2>2. ~f.fin => w.msgs = v.msgs
    BY <1>5, <1>6, AddFrameCases
  <2> QED
    BY <2>1, <2>2
<1>11. /\ delivered \in Seq(Delivery) /\ Handed(f, v, 0) \in Delivery /\ 0 \in StatusCode /\ m \in Item
       /\ m.opcode = OpcodeOf(f, v) /\ v.msgs \in Seq(Item) /\ Text(f, v) \in Seq(Byte)
  <2>1. Handed(f, v, 0) \in Delivery /\ m \in Item /\ Text(f, v) \in Seq(Byte)
    BY <1>5, <1>6, FailCodes, HandedType
  <2> QED
    BY <1>5, <2>1, FailCodes, InvTypes, ViewGrows
<1> HIDE DEF w, m
<1>12. config.on_msg_recv => Strip(delivered') = Cut(config.no_buffering, w.msgs)
  <2> SUFFICES ASSUME config.on_msg_recv
               PROVE  Strip(delivered') = Cut(config.no_buffering, w.msgs)
    OBVIOUS
  <2>1. CASE f.fin
    <3>1. delivered' = Append(delivered, Handed(f, v, 0))
      BY <1>6, <2>1 DEF Records
    <3>2. Strip(delivered) = Cut(config.no_buffering, v.msgs)
      BY <1>4
    <3> QED
      BY <1>5, <1>6, <1>11, <2>1, <3>1, <3>2, DeliveredGrows DEF w
  <2>2. CASE ~f.fin
    BY <1>4, <1>6, <1>10, <2>2 DEF Records
  <2> QED
    BY <2>1, <2>2
<1>13. \A i \in 1..Len(w.msgs) : w.msgs[i].opcode \notin NotHanded
  <2>0. OpcodeOf(f, v) \notin NotHanded
    <3>1. ~IsCtrl(f) => OpcodeOf(f, v) \in {WSLAY_TEXT_FRAME, WSLAY_BINARY_FRAME}
      BY <1>5, <1>6, AddFrameCases
    <3>2. IsCtrl(f) => f.opcode # 0 /\ OpcodeOf(f, v) = f.opcode
      BY CtrlBits DEF IsCtrl, OpcodeOf, WSLAY_CONTINUATION_FRAME
    <3> QED
      BY <1>6, <3>1, <3>2 DEF NotHanded, WSLAY_TEXT_FRAME, WSLAY_BINARY_FRAME,
                              WSLAY_CONTINUATION_FRAME, WSLAY_CONNECTION_CLOSE
  <2>1. CASE f.fin
    <3>1. /\ Len(Append(v.msgs, m)) = Len(v.msgs) + 1 /\ Len(v.msgs) \in Nat
          /\ \A i \in 1..Len(v.msgs) : Append(v.msgs, m)[i] = v.msgs[i]
          /\ Append(v.msgs, m)[Len(v.msgs) + 1] = m
      BY <1>11, AppendFacts
    <3>2. w.msgs = Append(v.msgs, m)
      BY <1>10, <2>1
    <3> HIDE DEF v
    <3>3. ASSUME NEW i \in 1..(Len(v.msgs) + 1)
          PROVE  Append(v.msgs, m)[i].opcode \notin NotHanded
      <4>1. CASE i = Len(v.msgs) + 1
        BY <1>11, <2>0, <3>1, <4>1
      <4>2. CASE i \in 1..Len(v.msgs)
        <5>1. v.msgs[i].opcode \notin NotHanded
          BY <1>4, <4>2
        <5> QED
          BY <3>1, <4>2, <5>1
      <4> QED
        BY <3>1, <4>1, <4>2
    <3> QED
      BY <3>1, <3>2, <3>3
  <2>2. CASE ~f.fin
    BY <1>4, <1>10, <2>2
  <2> QED
    BY <2>1, <2>2
<1>14. ~config.on_msg_recv => delivered' = << >>
  BY <1>4, <1>6 DEF Records
<1>15. \A status \in StatusCode : ClosesWith(accepted', status) => status \in AppStatus
  <2> DEFINE p == PongMsg(Text(f, v))
  <2>1. p \in OMsg /\ p.opcode = WSLAY_PONG
    BY <1>11 DEF PongMsg, omsg_non_fragmented_new, OMsg, MsgType, Opcodes
  <2>2. accepted \in Seq(OMsg) /\ accepted' \in {accepted, Append(accepted, p)}
    BY <1>6, InvTypes DEF Records, QueuesTyped
  <2> HIDE DEF p
  <2>3. WSLAY_PONG # WSLAY_CONNECTION_CLOSE
    BY DEF WSLAY_PONG, WSLAY_CONNECTION_CLOSE
  <2>4. \A status : ClosesWith(Append(accepted, p), status) => ClosesWith(accepted, status)
    BY <2>1, <2>2, <2>3, ClosesAppend
  <2> QED
    BY <1>4, <2>2, <2>4
<1>16. PongForPing'
  BY <1>2, <1>5, <1>6, <1>8, PongsGrow DEF Around, w
<1>17. /\ rx'.starts = Len(source'.peer) /\ Len(Append(W, f)) = Len(W) + 1
       /\ rx'.ends = Len(Append(W, f))
  BY <1>2 DEF Counted
<1>18. InStep'
  BY <1>2, <1>4, <1>7, <1>8, <1>9, <1>12, <1>13, <1>14, <1>15, <1>17, NewInStep
<1>19. delivered' \in Seq(Delivery)
  <2>1. Append(delivered, Handed(f, v, 0)) \in Seq(Delivery)
    BY <1>11, AppendFacts
  <2> QED
    BY <1>6, <1>11, <2>1 DEF Records
<1>20. TextsDelivered'
  <2>1. TextsDelivered
    BY DEF Inv
  <2>2. CASE config.on_msg_recv /\ f.fin
    <3>1. delivered' = Append(delivered, Handed(f, v, 0)) /\ Readable(f, v)
      BY <1>6, <1>7, <2>2 DEF Records
    <3> QED
      BY <1>5, <1>6, <1>11, <2>1, <3>1, TextsGrow
  <2>3. CASE ~(config.on_msg_recv /\ f.fin)
    <3>1. delivered' = delivered
      BY <1>6, <2>3 DEF Records
    <3> QED
      BY <2>1, <3>1 DEF TextsDelivered
  <2> QED
    BY <2>2, <2>3
<1> QED
  BY <1>2, <1>16, <1>18, <1>19, <1>20, GoingOnKeepsInv

(* The frame is received, and there is nobody to tell.                     *)
LEMMA ContinuesKeepsInv ==
    ASSUME Inv, read_enabled, Around, NEW W, NEW f, NEW t, NEW n, NEW iocb,
           Receiving(W, f, t, n, iocb), Fits(f, Reassemble(W)), n = Len(f.payload),
           ~f.fin \/ (~config.on_msg_recv /\ OpcodeOf(f, Reassemble(W)) \notin Quiet),
           Continues(Reassemble(W), f, Len(W) + 1, Len(W) + 1)
    PROVE  Inv'
<1> DEFINE v == Reassemble(W)
<1>1. v \in View /\ ViewSound(v) /\ f \in Frame /\ (IsCtrl(f) => f.fin)
  BY ChunkSituation DEF Situated
<1>2. PICK x : Counted(x, Len(W) + 1, Len(W) + 1) /\ Ready(x, AddFrame(v, f)) /\ GoOn(x)
  BY DEF Continues
<1>3. /\ rx' = x /\ ret' = 0 /\ read_enabled' = read_enabled /\ close_status' = close_status
      /\ error' = error /\ UNCHANGED queueVars /\ status_code_recv' = status_code_recv
      /\ delivered' = delivered
  BY <1>2 DEF GoOn
<1>4. QueuesTyped' /\ accepted' = accepted
  BY <1>3, InvTypes, QueuesKept
<1>5. OpcodeOf(f, v) \notin Quiet
  <2>1. CASE ~f.fin
    <3>1. ~IsCtrl(f)
      BY <1>1, <2>1
    <3>2. OpcodeOf(f, v) \in {WSLAY_TEXT_FRAME, WSLAY_BINARY_FRAME}
      BY <1>1, <3>1, AddFrameCases
    <3> QED
      BY <3>2 DEF Quiet, WSLAY_TEXT_FRAME, WSLAY_BINARY_FRAME, WSLAY_CONNECTION_CLOSE, WSLAY_PING
  <2> QED
    BY <2>1
<1>6. Records(f, v)
  BY <1>3, <1>4, <1>5 DEF Records, Quiet
<1> QED
  BY <1>2, <1>3, <1>4, <1>5, <1>6, InvTypes, AdvanceKeepsInv DEF Quiet

-----------------------------------------------------------------------------
(* A message is received.                                                  *)

(* The slot is free again and the message is delivered, or nobody is there.*)
LEMMA DeliverEffect ==
    ASSUME Inv, NEW v \in View, ViewSound(v), NEW f \in Frame, Fits(f, v), IsCtrl(f) => f.fin,
           f.fin, NEW y, NEW s, NEW e, Taken(y, v, f, s, e), NEW status,
           Deliver(y, Text(f, v), status)
    PROVE  /\ Counted(rx', s, e) /\ Ready(rx', AddFrame(v, f)) /\ ret' = 0
           /\ delivered' = IF config.on_msg_recv THEN Append(delivered, Handed(f, v, status))
                           ELSE delivered
           /\ error' \in CallbackErrors
<1>1. y \in Rx /\ Bounded(y) /\ y.starts = s /\ y.ends = e /\ InSlot(y, v, f) /\ Msg(y).opcode = OpcodeOf(f, v)
  BY DEF Taken, Counted
<1>2. /\ MessageDone(y) \in Rx /\ Ready(MessageDone(y), AddFrame(v, f)) /\ Bounded(MessageDone(y))
      /\ MessageDone(y).starts = y.starts /\ MessageDone(y).ends = y.ends
  BY <1>1, MessageDoneEffect
<1>3. rx' = MessageDone(y) /\ ret' = 0
  BY DEF Deliver
<1>4. /\ delivered' = IF config.on_msg_recv THEN Append(delivered, Handed(f, v, status))
                      ELSE delivered
      /\ error' \in CallbackErrors
  BY <1>1, InvTypes DEF Deliver, Handed
<1> QED
  BY <1>1, <1>2, <1>3, <1>4 DEF Counted

(* Data is received.                                                       *)
LEMMA DataKeepsInv ==
    ASSUME Inv, read_enabled, Around, NEW W, NEW f, NEW t, NEW n, NEW iocb,
           Receiving(W, f, t, n, iocb), Fits(f, Reassemble(W)), n = Len(f.payload), f.fin,
           OpcodeOf(f, Reassemble(W)) \notin Quiet, Readable(f, Reassemble(W)),
           NEW y, Taken(y, Reassemble(W), f, Len(W) + 1, Len(W) + 1),
           ReceiveData(y, Text(f, Reassemble(W)))
    PROVE  Inv'
<1> DEFINE v == Reassemble(W)
<1>1. v \in View /\ ViewSound(v) /\ f \in Frame /\ (IsCtrl(f) => f.fin)
  BY ChunkSituation DEF Situated
<1>2. /\ Deliver(y, Text(f, v), 0) /\ read_enabled' = read_enabled /\ close_status' = close_status
      /\ UNCHANGED queueVars /\ status_code_recv' = status_code_recv
  BY DEF ReceiveData
<1>3. Fits(f, v) /\ Taken(y, v, f, Len(W) + 1, Len(W) + 1)
  OBVIOUS
<1> HIDE DEF v
<1>4. /\ Counted(rx', Len(W) + 1, Len(W) + 1) /\ Ready(rx', AddFrame(v, f)) /\ ret' = 0
      /\ delivered' = IF config.on_msg_recv THEN Append(delivered, Handed(f, v, 0)) ELSE delivered
      /\ error' \in CallbackErrors
  BY <1>1, <1>2, <1>3, DeliverEffect
<1>5. QueuesTyped' /\ accepted' = accepted
  BY <1>2, InvTypes, QueuesKept
<1>6. Records(f, v)
  BY <1>4, <1>5 DEF Records, Quiet, v
<1> QED
  BY <1>2, <1>3, <1>4, <1>5, <1>6, AdvanceKeepsInv DEF Quiet, v

(* A Ping is received.                                                     *)
LEMMA PingKeepsInv ==
    ASSUME Inv, read_enabled, Around, NEW W, NEW f, NEW t, NEW n, NEW iocb,
           Receiving(W, f, t, n, iocb), Fits(f, Reassemble(W)), n = Len(f.payload), f.fin,
           OpcodeOf(f, Reassemble(W)) = WSLAY_PING,
           NEW y, Taken(y, Reassemble(W), f, Len(W) + 1, Len(W) + 1),
           ReceivePing(y, Text(f, Reassemble(W)))
    PROVE  Inv'
<1> DEFINE v == Reassemble(W)
           text == Text(f, v)
<1>1. /\ v \in View /\ ViewSound(v) /\ f \in Frame
      /\ (IsCtrl(f) => f.fin /\ Len(f.payload) <= CtrlMax)
  BY ChunkSituation DEF Situated
<1>2. PICK r \in QueueReturns :
        /\ wslay_event_queue_msg(WSLAY_PONG, text, r)
        /\ IF r \in {0, WSLAY_ERR_NO_MORE_MSG}
           THEN Deliver(y, text, 0) /\ read_enabled' = read_enabled
           ELSE /\ read_enabled' = FALSE /\ ret' = r /\ rx' = y
                /\ delivered' = delivered /\ error' = error
        /\ close_status' = close_status /\ status_code_recv' = status_code_recv
  BY DEF ReceivePing
<1>3. Fits(f, v) /\ Taken(y, v, f, Len(W) + 1, Len(W) + 1) /\ OpcodeOf(f, v) = WSLAY_PING
  OBVIOUS
<1> HIDE DEF v
<1>4. IsCtrl(f)
  <2>1. ~IsCtrl(f) => OpcodeOf(f, v) \in {WSLAY_TEXT_FRAME, WSLAY_BINARY_FRAME}
    BY <1>1, <1>3, AddFrameCases
  <2> QED
    BY <1>3, <2>1 DEF WSLAY_PING, WSLAY_TEXT_FRAME, WSLAY_BINARY_FRAME
<1>5. text \in Seq(Byte) /\ text = f.payload
  BY <1>1, <1>3, <1>4, FailCodes, HandedType
<1>6. Len(text) <= CtrlMax
  BY <1>1, <1>4, <1>5
<1> HIDE DEF text
<1>7. /\ QueuesTyped'
      /\ \/ r = WSLAY_ERR_NO_MORE_MSG /\ ~wslay_event_is_msg_queueable /\ accepted' = accepted
         \/ r \in {-1, 1} /\ accepted' = accepted
         \/ r = 0 /\ wslay_event_is_msg_queueable /\ accepted' = Append(accepted, PongMsg(text))
  BY <1>2, <1>5, <1>6, InvTypes, QueuePongEffect
<1>8. CASE r \in {0, WSLAY_ERR_NO_MORE_MSG}
  <2>1. Deliver(y, Text(f, v), 0) /\ read_enabled' = TRUE
    BY <1>2, <1>8, InvTypes DEF text
  <2>2. /\ Counted(rx', Len(W) + 1, Len(W) + 1) /\ Ready(rx', AddFrame(v, f)) /\ ret' = 0
        /\ delivered' = IF config.on_msg_recv THEN Append(delivered, Handed(f, v, 0)) ELSE delivered
        /\ error' \in CallbackErrors
    BY <1>1, <1>3, <2>1, DeliverEffect
  <2>3. Records(f, v)
    BY <1>3, <1>7, <1>8, <2>2 DEF Records, text, WSLAY_ERR_NO_MORE_MSG
  <2>4. WSLAY_PING # WSLAY_CONNECTION_CLOSE /\ ret' \in Int
    BY <2>2 DEF WSLAY_PING, WSLAY_CONNECTION_CLOSE
  <2>5. Readable(f, v)
    BY <1>3 DEF Readable, WSLAY_PING, WSLAY_TEXT_FRAME
  <2> QED
    BY <1>2, <1>3, <1>7, <2>1, <2>2, <2>3, <2>4, <2>5, AdvanceKeepsInv DEF v
<1>9. CASE r \notin {0, WSLAY_ERR_NO_MORE_MSG}
  <2>1. r \in {-1, 1} /\ accepted' = accepted
    BY <1>7, <1>9
  <2>2. /\ read_enabled' = FALSE /\ ret' = r /\ rx' = y /\ delivered' = delivered /\ error' = error
        /\ close_status' = close_status /\ status_code_recv' = status_code_recv
    BY <1>2, <1>9
  <2>3. Halts(0)
    BY <1>7, <2>1, <2>2, InvTypes DEF Halts
  <2>4. Counted(rx', Len(W) + 1, Len(W) + 1) /\ Len(W) \in Nat
    BY <1>3, <2>2, NewSource DEF Taken
  <2> QED
    BY <2>3, <2>4, FailCodes, ChunkHalts
<1> QED
  BY <1>8, <1>9

(* Two bytes are a status code.                                            *)
LEMMA StatusOfBytes ==
    ASSUME NEW a \in Byte, NEW b \in Byte
    PROVE  LET status == 256 * a + b
           IN  status \in StatusCode /\ htons(status)[1] = a /\ htons(status)[2] = b
<1> DEFINE status == 256 * a + b
<1>1. a \in Nat /\ a <= 255 /\ b \in Nat /\ b <= 255
  BY DEF Byte
<1>3. status = 256 * a + b /\ status \in Nat /\ status <= 65535
  BY <1>1
<1> HIDE DEF status
<1>2. status \in StatusCode
  <2>1. status \in Nat /\ status <= UINT16_MAX
    BY <1>3 DEF UINT16_MAX
  <2> QED
    BY <2>1 DEF StatusCode
<1>4. /\ htons(status)[1] \in Byte /\ htons(status)[2] \in Byte
      /\ status = 256 * htons(status)[1] + htons(status)[2]
  BY <1>2, HtonsFacts
<1> DEFINE c == htons(status)[1]
           d == htons(status)[2]
<1>5. c \in Byte /\ d \in Byte /\ status = 256 * c + d
  BY <1>4
<1> HIDE DEF c, d
<1>6. c \in Nat /\ c <= 255 /\ d \in Nat /\ d <= 255
  BY <1>5 DEF Byte
<1>7. c = a /\ d = b
  BY <1>1, <1>3, <1>5, <1>6
<1> QED
  BY <1>2, <1>7 DEF c, d, status

(* Two bytes and the rest are the whole.                                   *)
LEMMA HeadAndRest ==
    ASSUME NEW p \in Seq(Byte), Len(p) >= 2, NEW h \in Seq(Byte), Len(h) = 2,
           h[1] = p[1], h[2] = p[2], NEW r \in Seq(Byte), Len(r) = Len(p) - 2,
           \A i \in 1..(Len(p) - 2) : r[i] = p[2 + i]
    PROVE  h \o r = p
<1> DEFINE q == h \o r
<1>0. Len(p) \in Nat /\ h \in Seq(Byte) /\ r \in Seq(Byte)
  OBVIOUS
<1>1. /\ q \in Seq(Byte) /\ Len(q) = Len(h) + Len(r)
      /\ \A i \in 1..Len(h) : q[i] = h[i]
      /\ \A i \in 1..Len(r) : q[Len(h) + i] = r[i]
  BY ONLY <1>0, ConcatElements
<1> HIDE DEF q
<1>2. Len(q) = Len(p)
  BY <1>0, <1>1
<1>3. ASSUME NEW i \in 1..Len(q) PROVE q[i] = p[i]
  <2>1. CASE i \in {1, 2}
    BY <1>1, <2>1
  <2>2. CASE i > 2
    <3>1. i - 2 \in 1..Len(r) /\ 2 + (i - 2) = i
      BY <1>1, <1>2, <2>2
    <3>2. q[2 + (i - 2)] = r[i - 2] /\ r[i - 2] = p[2 + (i - 2)]
      BY <1>1, <3>1
    <3> QED
      BY <3>1, <3>2
  <2> QED
    BY <2>1, <2>2
<1>4. q = p
  BY <1>1, <1>2, <1>3, SeqEqual
<1> QED
  BY <1>4 DEF q

(* What follows the status code.                                           *)
LEMMA RestOfPayload ==
    ASSUME NEW p \in Seq(Byte)
    PROVE  LET r == SubSeq(p, 3, Len(p))
           IN  /\ r \in Seq(Byte) /\ Len(r) = (IF Len(p) >= 2 THEN Len(p) - 2 ELSE 0)
               /\ \A i \in 1..(Len(p) - 2) : r[i] = p[2 + i]
<1> DEFINE r == SubSeq(p, 3, Len(p))
           k == Len(p)
<1>1. k \in Nat /\ k \in Int /\ 3 \in Int /\ \A i \in 3..k : p[i] \in Byte
  OBVIOUS
<1>2. /\ r \in Seq(Byte) /\ Len(r) = (IF 3 <= k THEN k - 3 + 1 ELSE 0)
      /\ \A i \in 1..(k - 3 + 1) : r[i] = p[3 + i - 1]
  BY <1>1, SubSeqProperties
<1> HIDE DEF r, k
<1>3. Len(r) = IF k >= 2 THEN k - 2 ELSE 0
  BY <1>1, <1>2
<1>4. ASSUME NEW i \in 1..(k - 2) PROVE r[i] = p[2 + i]
  <2>1. i \in 1..(k - 3 + 1) /\ 3 + i - 1 = 2 + i
    BY <1>1
  <2> QED
    BY <1>2, <2>1
<1> QED
  BY <1>2, <1>3, <1>4 DEF r, k

(* The status code and the reason of a Close, put together again.          *)
LEMMA CloseParts ==
    ASSUME NEW p \in Seq(Byte)
    PROVE  LET status == IF Len(p) >= 2 THEN ntohs(p) ELSE 0
               reason == SubSeq(p, 3, Len(p))
           IN  /\ status \in StatusCode /\ reason \in Seq(Byte)
               /\ Len(p) <= CtrlMax => Len(reason) <= CtrlMax - 2
               /\ CloseBody(status, reason) = IF status = 0 THEN << >> ELSE p
<1> DEFINE status == IF Len(p) >= 2 THEN ntohs(p) ELSE 0
           reason == SubSeq(p, 3, Len(p))
<1>0. Len(p) \in Nat /\ CtrlMax \in Nat /\ CtrlMax >= 2
  BY CtrlMaxAssumption
<1>1. /\ reason \in Seq(Byte) /\ Len(reason) = (IF Len(p) >= 2 THEN Len(p) - 2 ELSE 0)
      /\ \A i \in 1..(Len(p) - 2) : reason[i] = p[2 + i]
  BY RestOfPayload
<1>2. Len(p) < 2 => status = 0
  BY <1>0
<1>3. Len(p) >= 2 => status = 256 * p[1] + p[2] /\ p[1] \in Byte /\ p[2] \in Byte
  BY <1>0 DEF ntohs
<1> HIDE DEF status, reason
<1>4. status \in StatusCode
  <2>1. CASE Len(p) < 2
    BY <1>2, <2>1, FailCodes
  <2>2. CASE Len(p) >= 2
    <3>1. 256 * p[1] + p[2] \in StatusCode
      BY <1>3, <2>2, StatusOfBytes
    <3> QED
      BY <1>3, <2>2, <3>1
  <2> QED
    BY <1>0, <2>1, <2>2
<1>5. CloseBody(status, reason) = IF status = 0 THEN << >> ELSE p
  <2> SUFFICES ASSUME status # 0 PROVE htons(status) \o reason = p
    BY DEF CloseBody
  <2>1. Len(p) >= 2
    BY <1>0, <1>2
  <2>2. htons(256 * p[1] + p[2])[1] = p[1] /\ htons(256 * p[1] + p[2])[2] = p[2]
    BY <1>3, <2>1, StatusOfBytes
  <2>3. htons(status)[1] = p[1] /\ htons(status)[2] = p[2]
    BY <1>3, <2>1, <2>2
  <2>4. htons(status) \in Seq(Byte) /\ Len(htons(status)) = 2
    BY <1>4, HtonsFacts
  <2>5. Len(reason) = Len(p) - 2
    BY <1>1, <2>1
  <2> QED
    BY <1>1, <2>1, <2>3, <2>4, <2>5, HeadAndRest
<1>6. Len(p) <= CtrlMax => Len(reason) <= CtrlMax - 2
  BY <1>0, <1>1
<1> QED
  BY <1>1, <1>4, <1>5, <1>6 DEF status, reason

(* Neither was delivered while reading is enabled.                         *)
LEMMA NoCloseYet ==
    ASSUME Inv, read_enabled
    PROVE  delivered # << >> => Last(delivered).opcode \notin NotHanded
<1> SUFFICES ASSUME delivered # << >> PROVE Last(delivered).opcode \notin NotHanded
  OBVIOUS
<1> DEFINE msgs == Reassemble(WholeFrames).msgs
           no == config.no_buffering
<1>1. /\ config.on_msg_recv /\ Strip(delivered) = Cut(no, msgs)
      /\ \A i \in 1..Len(msgs) : msgs[i].opcode \notin NotHanded
  BY DeliveredMeaning DEF Inv, InStep
<1>2. delivered \in Seq(Delivery) /\ msgs \in Seq(Item)
  BY InvTypes, WholeFramesType
<1> HIDE DEF msgs, no
<1>3. Len(delivered) \in Nat /\ Len(delivered) > 0
  BY <1>2
<1>4. Len(Cut(no, msgs)) = Len(msgs) /\ \A i \in 1..Len(msgs) : Cut(no, msgs)[i].opcode = msgs[i].opcode
  <2>1. [ opcode |-> 0, msg |-> << >> ] \in Item
    BY DEF Item
  <2> QED
    BY <1>2, <2>1, CutAppend
<1>5. /\ Len(Strip(delivered)) = Len(delivered)
      /\ Strip(delivered)[Len(delivered)].opcode = delivered[Len(delivered)].opcode
  BY <1>3 DEF Strip, StripOne
<1>6. delivered[Len(delivered)].opcode \notin NotHanded
  <2>1. Len(msgs) = Len(delivered) /\ Len(delivered) \in 1..Len(msgs)
    BY <1>1, <1>3, <1>4, <1>5
  <2>2. Cut(no, msgs)[Len(delivered)].opcode = msgs[Len(delivered)].opcode
    BY <1>4, <2>1
  <2> QED
    BY <1>1, <1>5, <2>1, <2>2
<1> QED
  BY <1>6 DEF Last

(* How a valid Close is answered.                                          *)
ClosesWell(f, v, status, reason, r, y) ==
    /\ wslay_event_queue_close_wrapper(close_status \cup {"RECEIVED"}, status, reason, r)
    /\ status_code_recv' = IF status = 0 THEN WSLAY_CODE_NO_STATUS_RCVD ELSE status
    /\ IF r = 0 THEN Deliver(y, Text(f, v), status)
       ELSE /\ ret' = r /\ rx' = y
            /\ delivered' = delivered /\ error' = error

(* Reading stops with a Close that is recorded and answered.               *)
LEMMA ClosedKeepsInv ==
    ASSUME Inv, read_enabled, Around, NEW W, NEW f, NEW t, NEW n, NEW iocb,
           Receiving(W, f, t, n, iocb), Fits(f, Reassemble(W)), n = Len(f.payload), f.fin,
           f.opcode = WSLAY_CONNECTION_CLOSE, Len(f.payload) <= CtrlMax,
           NEW y, Taken(y, Reassemble(W), f, Len(W) + 1, Len(W) + 1),
           NEW status, status = (IF Len(f.payload) >= 2 THEN ntohs(f.payload) ELSE 0),
           NEW reason, reason = SubSeq(f.payload, 3, Len(f.payload)),
           NEW r, ClosesWell(f, Reassemble(W), status, reason, r, y)
    PROVE  Inv'
<1> DEFINE v == Reassemble(W)
           c == CloseMsg(status, reason)
<1>1. v \in View /\ ViewSound(v) /\ f \in Frame /\ (IsCtrl(f) => f.fin)
  BY ChunkSituation DEF Situated
<1>2. /\ SourceSound' /\ SourceTypeOK' /\ source'.peer = Append(W, f) /\ Last(source'.peer) = f
      /\ WholeFrames' = Append(W, f) /\ Len(source'.peer) = Len(W) + 1
      /\ W \in Seq(Frame) /\ Len(W) \in Nat /\ Len(f.payload) \in Nat
  BY NewSource
<1>3. WholeFrames = W
  BY DEF Receiving
<1>4. f.payload \in Seq(Byte)
  BY <1>1, MessageTypes
<1>5. /\ status \in StatusCode /\ reason \in Seq(Byte) /\ Len(reason) <= CtrlMax - 2
      /\ CloseBody(status, reason) = IF status = 0 THEN << >> ELSE f.payload
  BY <1>4, CloseParts
<1>6. c \in OMsg /\ c.opcode = WSLAY_CONNECTION_CLOSE /\ c.data = CloseBody(status, reason)
  BY <1>5, CloseBodyFacts
<1>7. /\ Fits(f, v) /\ Taken(y, v, f, Len(W) + 1, Len(W) + 1)
      /\ ClosesWell(f, v, status, reason, r, y) /\ Reassemble(W) = v
  OBVIOUS
<1> HIDE DEF v
<1>8. read_enabled' = FALSE /\ CloseTried(close_status \cup {"RECEIVED"}, status, reason, r)
  BY <1>5, <1>7, InvTypes, WrapperEffect DEF ClosesWell
<1>9. /\ QueuesTyped'
      /\ \/ /\ r \in {-1, 1} /\ accepted' = accepted /\ close_status' = close_status \cup {"RECEIVED"}
         \/ /\ r = 0 /\ accepted' = Append(accepted, c)
            /\ close_status' = close_status \cup {"RECEIVED", "QUEUED"}
  BY <1>8 DEF CloseTried
<1> HIDE DEF c
<1>10. /\ Counted(rx', Len(W) + 1, Len(W) + 1) /\ ret' \in Int /\ error' \in CallbackErrors
       /\ IF r = 0
          THEN delivered' = IF config.on_msg_recv THEN Append(delivered, Handed(f, v, status))
                            ELSE delivered
          ELSE delivered' = delivered /\ ret' = r
  <2>1. CASE r = 0
    <3>1. Deliver(y, Text(f, v), status)
      BY <1>7, <2>1 DEF ClosesWell
    <3>2. /\ Counted(rx', Len(W) + 1, Len(W) + 1) /\ ret' = 0 /\ error' \in CallbackErrors
          /\ delivered' = IF config.on_msg_recv THEN Append(delivered, Handed(f, v, status))
                          ELSE delivered
      BY <1>1, <1>7, <3>1, DeliverEffect
    <3> QED
      BY <2>1, <3>2
  <2>2. CASE r # 0
    <3>1. ret' = r /\ rx' = y /\ delivered' = delivered /\ error' = error
      BY <1>7, <2>2 DEF ClosesWell
    <3>2. r \in Int
      BY <1>9
    <3> QED
      BY <1>7, <2>2, <3>1, <3>2, InvTypes DEF Taken
  <2> QED
    BY <2>1, <2>2
<1>11. /\ delivered \in Seq(Delivery) /\ Handed(f, v, status) \in Delivery /\ accepted \in Seq(OMsg)
       /\ Append(delivered, Handed(f, v, status)) \in Seq(Delivery)
  <2>1. Handed(f, v, status) \in Delivery
    BY <1>1, <1>5, <1>7, HandedType
  <2>2. delivered \in Seq(Delivery) /\ accepted \in Seq(OMsg)
    BY InvTypes DEF QueuesTyped
  <2> QED
    BY <2>1, <2>2, AppendFacts
<1>12. TypeOK'
  <2>1. status_code_recv' \in StatusCode
    <3>1. WSLAY_CODE_NO_STATUS_RCVD \in StatusCode
      BY DEF WSLAY_CODE_NO_STATUS_RCVD, StatusCode, UINT16_MAX
    <3> QED
      BY <1>5, <1>7, <3>1 DEF ClosesWell
  <2>2. close_status' \in SUBSET CloseStatus
    BY <1>9, InvTypes DEF CloseStatus
  <2>3. delivered' \in Seq(Delivery)
    BY <1>10, <1>11
  <2>4. rx' \in Rx
    BY <1>10 DEF Counted
  <2> QED
    BY <1>2, <1>8, <1>9, <1>10, <2>1, <2>2, <2>3, <2>4, NewTypes
<1>13. SlotsSound' /\ CallbacksSound'
  BY <1>2, <1>10 DEF Counted, Bounded, SlotsSound, CallbacksSound
<1>14. OnlyCloses(accepted, accepted')
  BY <1>6, <1>9 DEF OnlyCloses
<1>15. Reassemble(Append(W, f)) = AddFrame(v, f) /\ Grows(v.msgs, AddFrame(v, f).msgs)
  BY <1>1, <1>2, <1>7, ReassembleAppend, ViewGrows
<1>16. Grows(Reassemble(WholeFrames).msgs, Reassemble(WholeFrames').msgs)
  BY <1>2, <1>3, <1>7, <1>15
<1>17. PongForPing'
  BY <1>8, <1>14, <1>16, HaltPongs
<1>18. delivered # << >> => Last(delivered).opcode # WSLAY_CONNECTION_CLOSE
  BY NoCloseYet DEF NotHanded
<1>19. Answered'
  BY <1>9, <1>10, <1>18 DEF Answered
<1>20. DeliveredAsSent'
  <2>1. CASE delivered' = delivered
    BY <1>8, <1>14, <1>16, <2>1, HaltHistories DEF Around
  <2>2. CASE delivered' # delivered
    <3>1. config.on_msg_recv /\ delivered' = Append(delivered, Handed(f, v, status))
      BY <1>10, <2>2
    <3>2. Strip(delivered) = Cut(config.no_buffering, v.msgs)
      BY <1>3, <1>7, <3>1, DeliveredMeaning DEF Inv, InStep
    <3>3. Strip(delivered') = Cut(config.no_buffering, AddFrame(v, f).msgs)
      BY <1>1, <1>5, <1>7, <1>11, <3>1, <3>2, DeliveredGrows
    <3>4. Strip(delivered') \in Seq(Item)
      BY <1>10, <1>11, <3>1, StripAppend
    <3>5. IsPrefix(Strip(delivered'), Strip(delivered'))
      BY <3>4, PrefixFacts
    <3> QED
      BY <1>2, <1>15, <3>3, <3>5, DeliveredMeaning DEF Around
  <2> QED
    BY <2>1, <2>2
<1>21. "RECEIVED" \in close_status' /\ read_enabled' = FALSE
  BY <1>8, <1>9
<1>22. FramingVerdict' /\ SizeVerdict'
  BY <1>21 DEF FramingVerdict, SizeVerdict, FailsWith
<1>23. FailureAnswered'
  BY <1>9, <1>10 DEF FailureAnswered
<1>24. CloseReceivedHonest'
  <2>1. status = IF Len(f.payload) < 2 THEN 0 ELSE ntohs(f.payload)
    BY <1>2
  <2>2. status_code_recv' = IF status = 0 THEN WSLAY_CODE_NO_STATUS_RCVD ELSE status
    BY <1>7 DEF ClosesWell
  <2>3. delivered' # << >> /\ Last(delivered').opcode = WSLAY_CONNECTION_CLOSE =>
          /\ Last(accepted').opcode = WSLAY_CONNECTION_CLOSE
          /\ Last(accepted').data = IF status = 0 THEN << >> ELSE f.payload
    <3>1. CASE r = 0
      <4>1. accepted' = Append(accepted, c)
        BY <1>9, <3>1
      <4>2. Last(Append(accepted, c)) = c
        BY <1>6, <1>11, AppendFacts
      <4> QED
        BY <1>5, <1>6, <4>1, <4>2
    <3>2. CASE r # 0
      BY <1>10, <1>18, <3>2
    <3> QED
      BY <3>1, <3>2
  <2> QED
    BY <1>2, <1>21, <2>1, <2>2, <2>3 DEF CloseReceivedHonest
<1>25. read_enabled' => InStep'
  BY <1>21
<1>26. TextRefusal'
  BY <1>21 DEF TextRefusal, FailsWith
<1>27. TextsDelivered'
  <2>1. TextsDelivered
    BY DEF Inv
  <2>2. Readable(f, v)
    BY DEF Readable, OpcodeOf, WSLAY_CONNECTION_CLOSE, WSLAY_CONTINUATION_FRAME, WSLAY_TEXT_FRAME
  <2>3. CASE delivered' = delivered
    BY <2>1, <2>3 DEF TextsDelivered
  <2>4. CASE delivered' = Append(delivered, Handed(f, v, status))
    BY <1>1, <1>5, <1>7, <1>11, <2>1, <2>2, <2>4, TextsGrow
  <2> QED
    BY <1>10, <2>3, <2>4
<1> QED
  BY <1>2, <1>12, <1>13, <1>17, <1>19, <1>20, <1>22, <1>23, <1>24, <1>25, <1>26, <1>27 DEF Inv

(* A Close is received.                                                    *)
LEMMA CloseKeepsInv ==
    ASSUME Inv, read_enabled, Around, NEW W, NEW f, NEW t, NEW n, NEW iocb,
           Receiving(W, f, t, n, iocb), Fits(f, Reassemble(W)), n = Len(f.payload), f.fin,
           OpcodeOf(f, Reassemble(W)) = WSLAY_CONNECTION_CLOSE,
           NEW y, Taken(y, Reassemble(W), f, Len(W) + 1, Len(W) + 1),
           ReceiveClose(y, Text(f, Reassemble(W)))
    PROVE  Inv'
<1> DEFINE v == Reassemble(W)
           text == Text(f, v)
           status == IF Len(text) >= 2 THEN ntohs(text) ELSE 0
           reason == SubSeq(text, 3, Len(text))
<1>1. /\ v \in View /\ ViewSound(v) /\ f \in Frame
      /\ (IsCtrl(f) => f.fin /\ Len(f.payload) <= CtrlMax)
  BY ChunkSituation DEF Situated
<1>2. Fits(f, v) /\ Taken(y, v, f, Len(W) + 1, Len(W) + 1) /\ OpcodeOf(f, v) = WSLAY_CONNECTION_CLOSE
  OBVIOUS
<1>3. \/ /\ Len(text) >= 2 /\ ~wslay_event_is_valid_status_code(status)
         /\ FailConnection(WSLAY_CODE_PROTOCOL_ERROR, y)
      \/ \E r : ClosesWell(f, v, status, reason, r, y)
  BY Zenon DEF ReceiveClose, ClosesWell
<1>4. IsCtrl(f) /\ f.opcode = WSLAY_CONNECTION_CLOSE /\ text = f.payload
  <2> HIDE DEF v
  <2>1. ~IsCtrl(f) => OpcodeOf(f, v) \in {WSLAY_TEXT_FRAME, WSLAY_BINARY_FRAME}
    BY <1>1, <1>2, AddFrameCases
  <2>2. IsCtrl(f)
    BY <1>2, <2>1 DEF WSLAY_CONNECTION_CLOSE, WSLAY_TEXT_FRAME, WSLAY_BINARY_FRAME
  <2>3. Text(f, v) = f.payload /\ OpcodeOf(f, v) = f.opcode
    BY <1>1, <1>2, <2>2, FailCodes, HandedType
  <2> QED
    BY <1>2, <2>2, <2>3
<1>5. status = (IF Len(f.payload) >= 2 THEN ntohs(f.payload) ELSE 0) /\ reason = SubSeq(f.payload, 3, Len(f.payload))
  BY <1>4
<1> HIDE DEF v, text, status, reason
<1>6. CASE \E r : ClosesWell(f, v, status, reason, r, y)
  <2>1. PICK r : ClosesWell(f, v, status, reason, r, y)
    BY <1>6
  <2>2. Len(f.payload) <= CtrlMax
    BY <1>1, <1>4
  <2> QED
    BY <1>2, <1>4, <1>5, <2>1, <2>2, ClosedKeepsInv DEF v
<1>7. CASE /\ Len(text) >= 2 /\ ~wslay_event_is_valid_status_code(status)
           /\ FailConnection(WSLAY_CODE_PROTOCOL_ERROR, y)
  <2>1. Halts(WSLAY_CODE_PROTOCOL_ERROR) /\ rx' = y
    BY <1>7, FailCodes, FailHalts
  <2>2. source'.peer[Len(source'.peer)] = f /\ Len(W) \in Nat
    BY NewSource
  <2>3. FramingReason'
    <3>1. ~wslay_event_is_valid_status_code(ntohs(f.payload))
      BY <1>4, <1>5, <1>7
    <3> QED
      BY <1>4, <2>2, <3>1 DEF FramingReason
  <2>4. Counted(rx', Len(W) + 1, Len(W) + 1)
    BY <1>2, <2>1 DEF Taken
  <2> QED
    BY <2>1, <2>2, <2>3, <2>4, FailCodes, ChunkHalts
<1> QED
  BY <1>3, <1>6, <1>7

-----------------------------------------------------------------------------
(* The actions.                                                            *)

(* A chunk is stored: the frame goes on, ends, or ends a message.          *)
LEMMA StoredKeepsInv ==
    ASSUME Inv, read_enabled, Around, NEW W, NEW f, NEW t, NEW n, NEW iocb,
           Receiving(W, f, t, n, iocb), Fits(f, Reassemble(W)),
           Stored(Reassemble(W), f, n, iocb, Len(W) + 1, Len(W))
    PROVE  Inv'
<1> DEFINE v == Reassemble(W)
           s == Len(W) + 1
           e == Len(W)
<1>1. v \in View /\ ViewSound(v) /\ f \in Frame /\ (IsCtrl(f) => f.fin) /\ Fits(f, v) /\ v = Reassemble(W)
  BY ChunkSituation DEF Situated
<1>2. /\ e \in Nat /\ s \in Nat /\ e <= s /\ s <= s /\ s = Len(W) + 1 /\ e + 1 = s /\ e = Len(W)
      /\ n \in Nat /\ n <= Len(f.payload) /\ Len(f.payload) \in Nat
  BY NewSource
<1>3. IocbOf(iocb, f)
  BY DEF Receiving, Carries
<1>4. PICK x : /\ Counted(x, s, e) /\ InFrame(x, v, f, n)
               /\ IF n = Len(f.payload) THEN EndFrame(x, iocb) ELSE GoOn(x)
  BY DEF Stored
<1> HIDE DEF v, s, e
<1>5. CASE n # Len(f.payload)
  <2>1. n < Len(f.payload) /\ GoOn(x)
    BY <1>2, <1>4, <1>5
  <2> QED
    BY <1>2, <1>4, <2>1, PartKeepsInv DEF v, s, e
<1>6. CASE n = Len(f.payload)
  <2>1. EndFrame(x, iocb) /\ Complete(x, v, f, s, e)
    BY <1>4, <1>6 DEF Complete
  <2>2. \/ NotText(v, f, n, s, e)
        \/ ~f.fin /\ Continues(v, f, s, s)
        \/ f.fin /\ Readable(f, v) /\ \E y : Complete(y, v, f, s, s) /\ ReceiveMessage(y, iocb)
    BY <1>1, <1>2, <1>6, <2>1, EndOutcome
  <2>3. CASE NotText(v, f, n, s, e)
    BY <1>1, <1>2, <2>3, NotTextKeepsInv
  <2>4. CASE ~f.fin /\ Continues(v, f, s, s)
    BY <1>1, <1>2, <1>6, <2>4, ContinuesKeepsInv
  <2>5. CASE f.fin /\ Readable(f, v) /\ \E y : Complete(y, v, f, s, s) /\ ReceiveMessage(y, iocb)
    <3>1. PICK y : Complete(y, v, f, s, s) /\ ReceiveMessage(y, iocb)
      BY <2>5
    <3>2. \/ ~config.on_msg_recv /\ OpcodeOf(f, v) \notin Quiet /\ Continues(v, f, s, s)
          \/ OutOfRoom(s, s)
          \/ \E z : /\ Taken(z, v, f, s, s)
                    /\ \/ OpcodeOf(f, v) = WSLAY_CONNECTION_CLOSE /\ ReceiveClose(z, Text(f, v))
                       \/ OpcodeOf(f, v) = WSLAY_PING /\ ReceivePing(z, Text(f, v))
                       \/ /\ OpcodeOf(f, v) \notin Quiet /\ config.on_msg_recv
                          /\ ReceiveData(z, Text(f, v))
      BY <1>1, <1>3, <2>5, <3>1, MessageOutcome
    <3>3. CASE ~config.on_msg_recv /\ OpcodeOf(f, v) \notin Quiet /\ Continues(v, f, s, s)
      BY <1>1, <1>2, <1>6, <3>3, ContinuesKeepsInv
    <3>4. CASE OutOfRoom(s, s)
      BY <1>2, <3>4, NoMemoryKeepsInv
    <3>5. ASSUME NEW z, Taken(z, v, f, s, s),
                 OpcodeOf(f, v) = WSLAY_CONNECTION_CLOSE /\ ReceiveClose(z, Text(f, v))
          PROVE  Inv'
      BY <1>1, <1>2, <1>6, <2>5, <3>5, CloseKeepsInv
    <3>6. ASSUME NEW z, Taken(z, v, f, s, s),
                 OpcodeOf(f, v) = WSLAY_PING /\ ReceivePing(z, Text(f, v))
          PROVE  Inv'
      BY <1>1, <1>2, <1>6, <2>5, <3>6, PingKeepsInv
    <3>7. ASSUME NEW z, Taken(z, v, f, s, s),
                 OpcodeOf(f, v) \notin Quiet /\ ReceiveData(z, Text(f, v))
          PROVE  Inv'
      BY <1>1, <1>2, <1>6, <2>5, <3>7, DataKeepsInv
    <3> QED
      BY <3>2, <3>3, <3>4, <3>5, <3>6, <3>7
  <2> QED
    BY <2>2, <2>3, <2>4, <2>5
<1> QED
  BY <1>5, <1>6

(* A chunk of a frame arrives.                                             *)
LEMMA ChunkKeepsInv ==
    ASSUME Inv, read_enabled, Around, NEW o \in wslay_frame_recv(source), o.result = 0,
           source' = o.source, ReceiveFrame(o.iocb)
    PROVE  Inv'
<1> DEFINE iocb == o.iocb
<1>1. PICK W, f, t, n : Receiving(W, f, t, n, iocb)
  BY InvTypes, NextChunk
<1> DEFINE v == Reassemble(W)
<1>2. Situated(W, f, t, v) /\ v = Reassemble(W)
  BY <1>1, ChunkSituation
<1>3. ReceiveFrame(iocb)
  OBVIOUS
<1> HIDE DEF v, iocb
<1>4. /\ v \in View /\ ViewSound(v) /\ f \in Frame /\ rx \in Rx /\ Bounded(rx) /\ rx.ends = Len(W)
      /\ IF source.open THEN t > 0 /\ Fits(f, v) /\ InFrame(rx, v, f, t) /\ rx.starts = Len(W) + 1
         ELSE t = 0 /\ Ready(rx, v) /\ rx.starts = Len(W)
  BY <1>2 DEF Situated
<1>5. Carries(iocb, f, t, n) /\ iocb.rsv = f.rsv /\ iocb.mask = f.mask
  BY <1>1 DEF Receiving
<1>6. Len(W) \in Nat /\ Len(W) <= Len(W) + 1 /\ Len(W) <= Len(W) /\ Len(W) + 1 <= Len(W) + 1
  BY <1>1, NewSource
<1>7. CASE source.open
  <2>1. Fits(f, v) /\ InFrame(rx, v, f, t) /\ t > 0 /\ rx.starts = Len(W) + 1 /\ rx.ends = Len(W)
    BY <1>4, <1>7
  <2>2. NotText(v, f, n, rx.starts, rx.ends) \/ Stored(v, f, n, iocb, rx.starts, rx.ends)
    BY <1>3, <1>4, <1>5, <2>1, FurtherChunkOutcome
  <2>3. CASE NotText(v, f, n, rx.starts, rx.ends)
    BY <1>1, <1>2, <1>6, <2>1, <2>3, NotTextKeepsInv
  <2>4. CASE Stored(v, f, n, iocb, rx.starts, rx.ends)
    BY <1>1, <1>2, <2>1, <2>4, StoredKeepsInv
  <2> QED
    BY <2>2, <2>3, <2>4
<1>8. CASE ~source.open
  <2>1. Ready(rx, v) /\ rx.starts = Len(W) /\ rx.ends = Len(W) /\ Carries(iocb, f, 0, n)
    BY <1>4, <1>5, <1>8
  <2>2. \/ ~Fits(f, v) /\ Refused
        \/ /\ Fits(f, v)
           /\ \/ TooBig(v, f, iocb, rx.starts, rx.ends)
              \/ NoRoom(rx.starts + 1, rx.ends)
              \/ NotText(v, f, n, rx.starts + 1, rx.ends)
              \/ Stored(v, f, n, iocb, rx.starts + 1, rx.ends)
    BY <1>3, <1>4, <1>5, <2>1, FirstChunkOutcome
  <2>3. CASE ~Fits(f, v) /\ Refused
    BY <1>1, <1>2, <2>3, RefusedKeepsInv
  <2>4. CASE Fits(f, v) /\ TooBig(v, f, iocb, rx.starts, rx.ends)
    BY <1>1, <1>2, <1>6, <2>1, <2>4, TooBigKeepsInv
  <2>5. CASE NoRoom(rx.starts + 1, rx.ends)
    BY <1>1, <1>6, <2>1, <2>5, NoMemoryKeepsInv
  <2>6. CASE Fits(f, v) /\ NotText(v, f, n, rx.starts + 1, rx.ends)
    BY <1>1, <1>2, <1>6, <2>1, <2>6, NotTextKeepsInv
  <2>7. CASE Fits(f, v) /\ Stored(v, f, n, iocb, rx.starts + 1, rx.ends)
    BY <1>1, <1>2, <2>1, <2>7, StoredKeepsInv
  <2> QED
    BY <2>2, <2>3, <2>4, <2>5, <2>6, <2>7
<1>9. source.open \in BOOLEAN
  BY InvTypes DEF SourceTypeOK
<1> QED
  BY <1>7, <1>8, <1>9

(* The application closes the connection: what is queued is its own.       *)
AppCloses(status) ==
    /\ wslay_event_is_msg_queueable
    /\ accepted' = Append(accepted, CloseMsg(status, << >>))
    /\ close_status' = close_status \cup {"QUEUED"}

(* The application queues a message of its own, as long as it may receive. *)
AppQueues ==
    /\ read_enabled
    /\ \E m \in OMsg : /\ m.opcode \notin {WSLAY_CONNECTION_CLOSE, WSLAY_PONG}
                      /\ accepted' = Append(accepted, m)

(* A step that receives nothing, and queues at most what the application   *)
(* queues or closes with.                                                  *)
Aside ==
    /\ config' = config /\ source' = source /\ rx' = rx /\ delivered' = delivered
    /\ status_code_recv' = status_code_recv
    /\ read_enabled' => read_enabled
    /\ "RECEIVED" \in close_status' <=> "RECEIVED" \in close_status
    /\ "QUEUED" \in close_status => "QUEUED" \in close_status'
    /\ \/ accepted' = accepted
       \/ \E status \in AppStatus : AppCloses(status)
       \/ AppQueues
    /\ wslay_event_is_msg_queueable' => wslay_event_is_msg_queueable

(* Such a step adds no status code of the library's own.                   *)
LEMMA AsideCloses ==
    ASSUME Inv, Aside, NEW code \in StatusCode, ClosesWith(accepted', code)
    PROVE  ClosesWith(accepted, code) \/ code \in AppStatus
<1>1. CASE accepted' = accepted
  BY <1>1
<1>2. ASSUME NEW status \in AppStatus, AppCloses(status)
      PROVE  ClosesWith(accepted, code) \/ code \in AppStatus
  <2>1. accepted \in Seq(OMsg) /\ accepted' = Append(accepted, CloseMsg(status, << >>)) /\ status \in StatusCode
    BY <1>2, InvTypes, EventRecvAssumption DEF QueuesTyped, AppCloses
  <2>2. << >> \in Seq(Byte) /\ Len(<< >>) <= CtrlMax - 2
    BY CtrlMaxAssumption
  <2>3. CloseMsg(status, << >>) \in OMsg /\ CloseMsg(status, << >>).data = CloseBody(status, << >>)
    BY <2>1, <2>2, CloseBodyFacts
  <2>4. ClosesWith(accepted, code) \/ CloseBody(status, << >>) = htons(code)
    BY <2>1, <2>3, ClosesAppend
  <2>5. CloseBody(status, << >>) = htons(code) => code = status
    <3> SUFFICES ASSUME CloseBody(status, << >>) = htons(code) PROVE code = status
      OBVIOUS
    <3>1. htons(code) # << >> /\ htons(status) \in Seq(Byte)
      BY <2>1, HtonsFacts
    <3>2. htons(status) \o << >> = htons(status)
      BY <3>1, ConcatEmptySeq
    <3>3. htons(status) = htons(code)
      BY <3>1, <3>2 DEF CloseBody
    <3> QED
      BY <2>1, <3>3, HtonsInjective
  <2> QED
    BY <1>2, <2>4, <2>5
<1>3. CASE AppQueues
  <2>1. PICK m \in OMsg : /\ m.opcode # WSLAY_CONNECTION_CLOSE
                          /\ accepted' = Append(accepted, m)
    BY <1>3 DEF AppQueues
  <2>2. accepted \in Seq(OMsg)
    BY InvTypes DEF QueuesTyped
  <2> QED
    BY <2>1, <2>2, ClosesAppend
<1> QED
  BY <1>1, <1>2, <1>3 DEF Aside

(* Such a step keeps the invariant.                                        *)
LEMMA AsideKeepsInv ==
    ASSUME Inv, Aside, TypeOK', FailureAnswered'
    PROVE  Inv'
<1>1. /\ config' = config /\ source' = source /\ rx' = rx /\ delivered' = delivered
      /\ status_code_recv' = status_code_recv /\ (read_enabled' => read_enabled)
  BY DEF Aside
<1>2. WholeFrames' = WholeFrames
  BY <1>1 DEF WholeFrames
<1>3. /\ "RECEIVED" \in close_status' <=> "RECEIVED" \in close_status
      /\ "QUEUED" \in close_status => "QUEUED" \in close_status'
  BY DEF Aside
<1>4. SourceSound' /\ SlotsSound' /\ CallbacksSound'
  BY <1>1 DEF Inv, SourceSound, SlotsSound, CallbacksSound
<1>5. Answered'
  BY <1>1, <1>3 DEF Inv, Answered
<1>6. DeliveredAsSent'
  BY <1>1, <1>2 DEF Inv, DeliveredAsSent, DeliveredMsgs, AsDelivered
<1>7. \A code \in StatusCode : FailsWith(code)' => FailsWith(code)
  <2> SUFFICES ASSUME NEW code \in StatusCode, FailsWith(code)' PROVE FailsWith(code)
    OBVIOUS
  <2>1. ClosesWith(accepted', code) /\ code \notin AppStatus /\ "RECEIVED" \notin close_status'
    BY DEF FailsWith, Accepts, ClosesWith
  <2>2. ClosesWith(accepted, code)
    BY <2>1, AsideCloses
  <2> QED
    BY <1>3, <2>1, <2>2 DEF FailsWith, Accepts, ClosesWith
<1>8. FramingVerdict'
  <2>1. FailsWith(WSLAY_CODE_PROTOCOL_ERROR)' => FailsWith(WSLAY_CODE_PROTOCOL_ERROR)
    BY <1>7, FailCodes
  <2>2. FramingVerdict
    BY DEF Inv
  <2> QED
    BY <1>1, <2>1, <2>2 DEF FramingVerdict
<1>9. SizeVerdict'
  <2>1. FailsWith(WSLAY_CODE_MESSAGE_TOO_BIG)' => FailsWith(WSLAY_CODE_MESSAGE_TOO_BIG)
    BY <1>7, FailCodes
  <2>2. SizeVerdict
    BY DEF Inv
  <2> QED
    BY <1>1, <2>1, <2>2 DEF SizeVerdict
<1>10. PongForPing'
  <2>1. PongsOf(accepted') = PongsOf(accepted)
    <3>1. CASE accepted' = accepted
      BY <3>1
    <3>2. ASSUME NEW m \in OMsg, m.opcode # WSLAY_PONG, accepted' = Append(accepted, m)
          PROVE  PongsOf(accepted') = PongsOf(accepted)
      BY <3>2, InvTypes, NoPongMore DEF QueuesTyped
    <3>3. ASSUME NEW status \in AppStatus, AppCloses(status)
          PROVE  PongsOf(accepted') = PongsOf(accepted)
      <4>1. << >> \in Seq(Byte) /\ Len(<< >>) <= CtrlMax - 2 /\ status \in StatusCode
        BY CtrlMaxAssumption, EventRecvAssumption
      <4>2. CloseMsg(status, << >>) \in OMsg /\ CloseMsg(status, << >>).opcode = WSLAY_CONNECTION_CLOSE
        BY <4>1, CloseBodyFacts
      <4>3. WSLAY_CONNECTION_CLOSE # WSLAY_PONG
        BY DEF WSLAY_CONNECTION_CLOSE, WSLAY_PONG
      <4> QED
        BY <3>2, <3>3, <4>2, <4>3 DEF AppCloses
    <3>4. CASE AppQueues
      BY <3>2, <3>4 DEF AppQueues
    <3> QED
      BY <3>1, <3>3, <3>4 DEF Aside
  <2>2. wslay_event_is_msg_queueable' => wslay_event_is_msg_queueable
    BY DEF Aside
  <2> QED
    BY <1>1, <1>2, <2>1, <2>2, PongForPingMeaning DEF Inv
<1>11. CloseReceivedHonest'
  <2>1. CASE "RECEIVED" \notin close_status
    BY <1>1, <1>3, <2>1 DEF Inv, CloseReceivedHonest
  <2>2. CASE "RECEIVED" \in close_status
    <3>1. delivered # << >> /\ Last(delivered).opcode = WSLAY_CONNECTION_CLOSE => accepted' = accepted
      <4>1. ~read_enabled
        BY <2>2 DEF Inv, InStep
      <4> QED
        BY <2>2, <4>1 DEF Inv, Answered, Aside, AppCloses, AppQueues, wslay_event_is_msg_queueable
    <3>2. CloseReceivedHonest
      BY DEF Inv
    <3> QED
      BY <1>1, <1>3, <2>2, <3>1, <3>2 DEF CloseReceivedHonest
  <2> QED
    BY <2>1, <2>2
<1>12. read_enabled' => InStep'
  <2> SUFFICES ASSUME read_enabled' PROVE InStep'
    OBVIOUS
  <2>1. InStep
    BY <1>1 DEF Inv
  <2>2. \A status \in StatusCode : Accepts(status)' => status \in AppStatus
    <3>1. \A status \in StatusCode : ClosesWith(accepted, status) => status \in AppStatus
      BY <2>1 DEF InStep, Accepts, ClosesWith
    <3>2. \A status \in StatusCode : ClosesWith(accepted', status) => status \in AppStatus
      BY <3>1, AsideCloses
    <3> QED
      BY <3>2 DEF Accepts, ClosesWith
  <2>3. (IF source.open THEN Fits(Last(source.peer), Reassemble(WholeFrames)) /\
               InFrame(rx, Reassemble(WholeFrames), Last(source.peer), source.taken)
         ELSE Ready(rx, Reassemble(WholeFrames)))'
    <3>1. IF source.open THEN Fits(Last(source.peer), Reassemble(WholeFrames)) /\
               InFrame(rx, Reassemble(WholeFrames), Last(source.peer), source.taken)
          ELSE Ready(rx, Reassemble(WholeFrames))
      BY <2>1 DEF InStep
    <3> QED
      BY <1>1, <1>2, <3>1 DEF InFrame, Holding, InSlot, DataSlot, Holds, Filled, Ready, IdleSlot,
                              Buffers, Msg, AtFrameStart, InText
  <2>4. DeliveredMsgs' = DeliveredMsgs /\ AsDelivered(Reassemble(WholeFrames).msgs)' = AsDelivered(Reassemble(WholeFrames).msgs)
    BY <1>1, <1>2 DEF DeliveredMsgs, AsDelivered
  <2>5. "RECEIVED" \notin close_status'
    BY <1>3, <2>1 DEF InStep
  <2> QED
    BY <1>1, <1>2, <2>1, <2>2, <2>3, <2>4, <2>5 DEF InStep
<1>13. TextsDelivered'
  BY <1>1 DEF Inv, TextsDelivered
<1>14. TextRefusal'
  <2>1. FailsWith(WSLAY_CODE_INVALID_FRAME_PAYLOAD_DATA)' => FailsWith(WSLAY_CODE_INVALID_FRAME_PAYLOAD_DATA)
    BY <1>7, FailCodes
  <2>2. TextRefusal /\ TextReason' = TextReason
    BY <1>1 DEF Inv, TextReason, FramesSoFar
  <2> QED
    BY <2>1, <2>2 DEF TextRefusal
<1> QED
  BY <1>4, <1>5, <1>6, <1>8, <1>9, <1>10, <1>11, <1>12, <1>13, <1>14 DEF Inv

(* The frame layer has no chunk.                                           *)
LEMMA NoChunkKeepsInv ==
    ASSUME Inv, read_enabled, Around, source' = source, NEW result, NEW failed,
           RecvFails(result, failed)
    PROVE  Inv'
<1>1. /\ rx' = rx /\ status_code_recv' = status_code_recv /\ delivered' = delivered
      /\ error' \in {error, WSLAY_ERR_WOULDBLOCK, WSLAY_ERR_CALLBACK_FAILURE}
  BY DEF RecvFails
<1>2. error' \in CallbackErrors
  BY <1>1, InvTypes DEF CallbackErrors
<1>3. WholeFrames' = WholeFrames /\ SourceTypeOK' /\ SourceSound'
  BY InvTypes DEF WholeFrames, SourceTypeOK, SourceSound
<1>4. \/ ret' = 0 /\ UNCHANGED << read_enabled, close_status, queueVars >>
      \/ \E r \in QueueReturns :
           /\ wslay_event_queue_close_wrapper(close_status, 0, << >>, r)
           /\ ret' = IF r # 0 THEN r ELSE WSLAY_ERR_CALLBACK_FAILURE
  BY Zenon DEF RecvFails
<1>5. CASE ret' = 0 /\ UNCHANGED << read_enabled, close_status, queueVars >>
  <2>1. QueuesTyped' /\ accepted' = accepted /\ read_enabled' = read_enabled /\ close_status' = close_status
    BY <1>5, InvTypes, QueuesKept
  <2>2. TypeOK'
    BY <1>1, <1>2, <1>3, <1>5, <2>1, InvTypes, NewTypes
  <2>3. FailureAnswered'
    BY <2>1 DEF FailureAnswered
  <2>4. Aside
    BY <1>1, <2>1 DEF Aside, Around, wslay_event_is_msg_queueable
  <2> QED
    BY <2>2, <2>3, <2>4, AsideKeepsInv
<1>6. ASSUME NEW r \in QueueReturns, wslay_event_queue_close_wrapper(close_status, 0, << >>, r),
             ret' = IF r # 0 THEN r ELSE WSLAY_ERR_CALLBACK_FAILURE
      PROVE  Inv'
  <2>1. << >> \in Seq(Byte) /\ Len(<< >>) <= CtrlMax - 2
    BY CtrlMaxAssumption
  <2>2. read_enabled' = FALSE /\ CloseTried(close_status, 0, << >>, r)
    BY <1>6, <2>1, InvTypes, FailCodes, WrapperEffect
  <2>3. ret' \in Int
    BY <1>6, <2>2 DEF CloseTried, WSLAY_ERR_CALLBACK_FAILURE
  <2>4. Halts(0)
    BY <1>1, <1>2, <1>6, <2>2, <2>3 DEF Halts, CloseTried
  <2>5. /\ Counted(rx', rx.starts, rx.ends) /\ rx.ends <= rx.starts
        /\ rx.starts <= Len(source'.peer)
    BY <1>1, InvTypes DEF Counted, Inv, CallbacksSound
  <2>6. Grows(Reassemble(WholeFrames).msgs, Reassemble(WholeFrames').msgs)
    BY <1>3 DEF Grows
  <2> QED
    BY <1>3, <2>4, <2>5, <2>6, FailCodes, HaltKeepsInv
<1> QED
  BY <1>4, <1>5, <1>6

(* Without a result of 0 there is no chunk, and the frame layer stays put. *)
LEMMA NoChunkSource ==
    ASSUME NEW src, NEW o \in wslay_frame_recv(src), o.result # 0
    PROVE  o.source = src
<1>1. \A peer, f, taken : \A c \in Chunks(peer, f, taken) : c.result = 0
  BY DEF Chunks
<1>2. o \in NoChunk(src)
  BY <1>1 DEF wslay_frame_recv
<1> QED
  BY <1>2 DEF NoChunk

(* wslay_event_recv                                                        *)
LEMMA RecvKeepsInv ==
    ASSUME Inv, wslay_event_recv
    PROVE  Inv'
<1>1. read_enabled /\ write_enabled' = write_enabled /\ config' = config /\ readShut' = readShut
  BY DEF wslay_event_recv
<1>2. PICK o \in wslay_frame_recv(source) :
        /\ source' = o.source
        /\ IF o.result # 0
           THEN RecvFails(o.result, o.failed) /\ UNCHANGED heap
           ELSE /\ ReceiveFrame(o.iocb)
                /\ heap' \in IF UsesFreedQueue(o.iocb) THEN {"misused", "crashed"} ELSE {heap}
  BY DEF wslay_event_recv
<1>3. heap \in { "sound", "misused", "crashed" }
  BY DEF Inv, TypeOK
<1>4. CASE o.result # 0
  <2>1. RecvFails(o.result, o.failed) /\ heap' = heap /\ source' = source
    BY <1>2, <1>4, NoChunkSource
  <2> QED
    BY <1>1, <1>3, <2>1, NoChunkKeepsInv DEF Around
<1>5. CASE o.result = 0
  <2>1. ReceiveFrame(o.iocb) /\ heap' \in {"misused", "crashed", heap}
    BY <1>2, <1>5
  <2>2. Around
    BY <1>1, <1>3, <2>1 DEF Around
  <2> QED
    BY <1>1, <1>2, <1>5, <2>1, <2>2, ChunkKeepsInv
<1> QED
  BY <1>4, <1>5

(* The application closes the connection.                                  *)
LEMMA AppCloseKeepsInv ==
    ASSUME Inv, QueueClose
    PROVE  Inv'
<1>1. /\ write_enabled' = write_enabled /\ error' = error /\ source' = source /\ config' = config
      /\ read_enabled' = read_enabled /\ rx' = rx /\ status_code_recv' = status_code_recv
      /\ delivered' = delivered /\ readShut' = readShut /\ heap' = heap
  BY DEF QueueClose, recvVars
<1>2. PICK status \in AppStatus, r \in QueueReturns :
        wslay_event_queue_close(close_status, status, << >>, r) /\ ret' = r
  BY DEF QueueClose
<1>3. << >> \in Seq(Byte) /\ Len(<< >>) <= CtrlMax - 2 /\ status \in StatusCode
  BY CtrlMaxAssumption, EventRecvAssumption
<1>4. CloseTried(close_status, status, << >>, r)
  BY <1>2, <1>3, InvTypes, QueueCloseEffect
<1>5. \/ r \in {-1, 1} /\ accepted' = accepted /\ close_status' = close_status
      \/ r = 0 /\ AppCloses(status)
  BY <1>4 DEF CloseTried, AppCloses
<1>6. TypeOK'
  <2>1. QueuesTyped' /\ ret' \in Int
    BY <1>2, <1>4 DEF CloseTried
  <2>2. close_status' \in SUBSET CloseStatus
    BY <1>5, InvTypes DEF AppCloses, CloseStatus
  <2>3. heap' \in { "sound", "misused", "crashed" } /\ SourceTypeOK'
    BY <1>1, InvTypes DEF Inv, TypeOK, SourceTypeOK
  <2> QED
    BY <1>1, <2>1, <2>2, <2>3, InvTypes, NewTypes DEF Around
<1>7. FailureAnswered'
  BY <1>1, <1>2, <1>5 DEF FailureAnswered, AppCloses
<1>8. Aside
  BY <1>1, <1>5 DEF Aside, AppCloses, wslay_event_is_msg_queueable
<1> QED
  BY <1>6, <1>7, <1>8, AsideKeepsInv

(* The application shuts reading down.                                     *)
LEMMA ShutKeepsInv ==
    ASSUME Inv, wslay_event_shutdown_read
    PROVE  Inv'
<1>1. /\ write_enabled' = write_enabled /\ error' = error /\ source' = source /\ config' = config
      /\ read_enabled' = FALSE /\ rx' = rx /\ status_code_recv' = status_code_recv
      /\ delivered' = delivered /\ readShut' = TRUE /\ heap' = heap /\ ret' = ret
      /\ close_status' = close_status /\ UNCHANGED queueVars
  BY DEF wslay_event_shutdown_read
<1>2. TypeOK'
  BY <1>1 DEF Inv, TypeOK, QueueTypeOK, queueVars, SourceTypeOK
<1>3. FailureAnswered'
  BY <1>1 DEF FailureAnswered
<1>4. Aside
  BY <1>1 DEF Aside, wslay_event_is_msg_queueable, queueVars
<1> QED
  BY <1>2, <1>3, <1>4, AsideKeepsInv

(* Writing ends.                                                           *)
LEMMA WriteDisabledKeepsInv ==
    ASSUME Inv, WriteDisabled
    PROVE  Inv'
<1>1. /\ write_enabled' = FALSE /\ error' = error /\ source' = source /\ config' = config
      /\ read_enabled' = read_enabled /\ rx' = rx /\ status_code_recv' = status_code_recv
      /\ delivered' = delivered /\ readShut' = readShut /\ heap' = heap /\ ret' = ret
      /\ close_status' = close_status /\ UNCHANGED queueVars
  BY DEF WriteDisabled, recvVars
<1>2. TypeOK'
  BY <1>1 DEF Inv, TypeOK, QueueTypeOK, queueVars, SourceTypeOK
<1>3. FailureAnswered'
  BY <1>1 DEF FailureAnswered
<1>4. Aside
  BY <1>1 DEF Aside, wslay_event_is_msg_queueable, queueVars
<1> QED
  BY <1>2, <1>3, <1>4, AsideKeepsInv

(* Nothing happens.                                                        *)
LEMMA StutterKeepsInv ==
    ASSUME Inv, UNCHANGED vars
    PROVE  Inv'
<1>1. /\ write_enabled' = write_enabled /\ error' = error /\ source' = source /\ config' = config
      /\ read_enabled' = read_enabled /\ rx' = rx /\ status_code_recv' = status_code_recv
      /\ delivered' = delivered /\ readShut' = readShut /\ heap' = heap /\ ret' = ret
      /\ close_status' = close_status /\ UNCHANGED queueVars
  BY DEF vars, recvVars
<1>2. TypeOK'
  BY <1>1 DEF Inv, TypeOK, QueueTypeOK, queueVars, SourceTypeOK
<1>3. FailureAnswered'
  BY <1>1 DEF FailureAnswered, Inv
<1>4. Aside
  BY <1>1 DEF Aside, wslay_event_is_msg_queueable, queueVars
<1> QED
  BY <1>2, <1>3, <1>4, AsideKeepsInv

(* Of no messages, none has an opcode.                                     *)
LEMMA OfOpcodeEmpty ==
    ASSUME NEW op
    PROVE  OfOpcode(<< >>, op) = << >>
<1>1. << >> \in Seq({0}) /\ 0 \in {0}
  OBVIOUS
<1> QED
  BY <1>1, OfOpcodeAppend

(* The invariant holds at the start.                                       *)
LEMMA InitInv ==
    ASSUME Init
    PROVE  Inv
<1>1. /\ config \in Config /\ read_enabled = TRUE /\ delivered = << >> /\ readShut = FALSE
      /\ status_code_recv = WSLAY_CODE_ABNORMAL_CLOSURE /\ heap = "sound"
      /\ source = [ peer |-> << >>, taken |-> 0, open |-> FALSE ]
      /\ close_status = {} /\ accepted = << >>
  BY EventRecvAssumption DEF Init, QueueInit, SourceInit
<1>2. /\ rx.imsgs = [ i \in 0..1 |-> NewImsg ] /\ rx.imsg = 0 /\ rx.ipayloadlen = 0
      /\ rx.ipayloadoff = 0 /\ rx.starts = 0 /\ rx.ends = 0
  BY DEF Init
<1>3. /\ NewImsg \in Imsg /\ NewImsg.opcode = NoOpcode /\ NewImsg.chunks = << >>
      /\ NewImsg.utf8state = UTF8_ACCEPT
  BY DEF NewImsg, Imsg, NoOpcode, Utf8States, UTF8_ACCEPT
<1>4. rx \in Rx
  BY <1>3 DEF Init, Rx
<1>5. TypeOK
  <2>1. QueueTypeOK
    BY DEF Init, QueueInit, QueueTypeOK, CallbackErrors
  <2>2. SourceTypeOK
    BY <1>1 DEF SourceTypeOK
  <2>3. status_code_recv \in StatusCode
    BY <1>1 DEF StatusCode, UINT16_MAX, WSLAY_CODE_ABNORMAL_CLOSURE
  <2>4. delivered \in Seq([ opcode : Opcodes, msg : Seq(Byte), status_code : StatusCode ])
    BY <1>1
  <2>5. read_enabled \in BOOLEAN /\ readShut \in BOOLEAN /\ heap \in { "sound", "misused", "crashed" }
    BY <1>1
  <2> QED
    BY <1>1, <1>4, <2>1, <2>2, <2>3, <2>4, <2>5 DEF TypeOK
<1>6. WholeFrames = << >> /\ Reassemble(WholeFrames) = NothingYet /\ SourceSound
  BY <1>1, ReassembleType DEF WholeFrames, SourceSound
<1>7. /\ NothingYet.opcode = NoOpcode /\ NothingYet.data = << >> /\ NothingYet.msgs = << >>
  BY DEF NothingYet
<1>8. SlotsSound /\ CallbacksSound
  BY <1>1, <1>2, <1>3 DEF SlotsSound, CallbacksSound
<1>9. Ready(rx, NothingYet)
  BY <1>2, <1>3, <1>7 DEF Ready, IdleSlot, AtFrameStart
<1>10. ~BreaksFraming(<< >>) /\ ~InsideMessage(<< >>)
  BY DEF BreaksFraming, InsideMessage
<1>11. \A status : ~Accepts(status)
  BY <1>1 DEF Accepts
<1>12. DeliveredMsgs = << >> /\ AsDelivered(<< >>) = << >>
  BY <1>1 DEF DeliveredMsgs, AsDelivered
<1>13. InStep
  BY <1>1, <1>2, <1>6, <1>7, <1>9, <1>10, <1>11, <1>12 DEF InStep, ViewSound
<1>14. DeliveredAsSent
  <2>1. IsPrefix(<< >>, << >>)
    <3>1. << >> \in Seq(Item)
      OBVIOUS
    <3> QED
      BY <3>1, PrefixFacts
  <2> QED
    BY <1>6, <1>7, <1>12, <2>1 DEF DeliveredAsSent
<1>15. PongForPing
  <2>1. OfOpcode(<< >>, WSLAY_PING) = << >> /\ OfOpcode(<< >>, WSLAY_PONG) = << >>
    BY OfOpcodeEmpty
  <2> QED
    BY <1>1, <1>6, <1>7, <2>1 DEF PongForPing
<1>16. FramingVerdict /\ SizeVerdict /\ FailureAnswered /\ CloseReceivedHonest /\ Answered
  BY <1>1, <1>10, <1>11 DEF FramingVerdict, SizeVerdict, FailureAnswered, CloseReceivedHonest,
                            Answered, FailsWith
<1>17. TextsDelivered /\ TextRefusal
  BY <1>1, <1>11 DEF TextsDelivered, TextRefusal, FailsWith
<1> QED
  BY <1>5, <1>6, <1>8, <1>13, <1>14, <1>15, <1>16, <1>17 DEF Inv

(* A slot that holds bytes is as long as they are, and so is one that is   *)
(* being filled.                                                           *)
LEMMA SlotLengths ==
    ASSUME NEW m \in Imsg
    PROVE  /\ \A bytes : Holds(m, bytes) => Len(Flatten(m.chunks)) = m.msg_length
           /\ \A before, payload, t : Filled(m, before, payload, t) => Len(Flatten(m.chunks)) = m.msg_length
<1>1. m.chunks = << >> => Flatten(m.chunks) = << >>
  <2>1. << >> \in Seq(Cell) /\ m.chunks \in Seq(Seq(Cell))
    BY ImsgFields
  <2> QED
    BY <2>1, FlattenAppend
<1>2. Len(<< >>) = 0
  OBVIOUS
<1>3. ASSUME NEW bytes, Holds(m, bytes) PROVE Len(Flatten(m.chunks)) = m.msg_length
  BY <1>1, <1>2, <1>3 DEF Holds
<1>4. ASSUME NEW before, NEW payload, NEW t, Filled(m, before, payload, t)
      PROVE  Len(Flatten(m.chunks)) = m.msg_length
  BY <1>1, <1>2, <1>4 DEF Filled
<1> QED
  BY <1>3, <1>4

(* While the receiver is in step its buffers are.                          *)
LEMMA BuffersAsTheyShouldBe ==
    ASSUME Inv
    PROVE  BufferInBounds
<1> DEFINE v == Reassemble(WholeFrames)
           f == source.peer[Len(source.peer)]
<1>1. rx \in Rx /\ source.open \in BOOLEAN
  BY InvTypes DEF SourceTypeOK
<1>2. rx.imsg \in 0..1 /\ rx.imsgs[0] \in Imsg /\ rx.imsgs[1] \in Imsg
  BY <1>1 DEF Rx
<1>3. read_enabled => IF source.open THEN InFrame(rx, v, f, source.taken) ELSE Ready(rx, v)
  BY DEF Inv, InStep, Last
<1> HIDE DEF v, f
<1>4. ASSUME read_enabled, NEW i \in 0..1, rx.imsgs[i].opcode # NoOpcode
      PROVE  Len(Flatten(rx.imsgs[i].chunks)) = rx.imsgs[i].msg_length
  <2>1. i = 0 \/ i = 1
    OBVIOUS
  <2>2. CASE source.open
    <3>1. InFrame(rx, v, f, source.taken)
      BY <1>3, <1>4, <2>2
    <3>2. InSlot(rx, v, f) /\ Filled(Msg(rx), Before(f, v), f.payload, source.taken)
      BY <3>1 DEF InFrame, Holding
    <3>3. CASE i = rx.imsg
      <4>1. Filled(rx.imsgs[i], Before(f, v), f.payload, source.taken) /\ rx.imsgs[i] \in Imsg
        BY <1>2, <2>1, <3>2, <3>3 DEF Msg
      <4> QED
        BY <4>1, SlotLengths
    <3>4. CASE i # rx.imsg
      <4>1. i = 0 /\ Holds(rx.imsgs[0], v.data)
        BY <1>4, <2>1, <3>2, <3>4 DEF InSlot, DataSlot, IdleSlot
      <4> QED
        BY <1>2, <4>1, SlotLengths
    <3> QED
      BY <3>3, <3>4
  <2>3. CASE ~source.open
    <3>1. Ready(rx, v)
      BY <1>3, <1>4, <2>3
    <3>2. i = 0 /\ Holds(rx.imsgs[0], v.data)
      BY <1>4, <2>1, <3>1 DEF Ready, DataSlot, IdleSlot
    <3> QED
      BY <1>2, <3>2, SlotLengths
  <2> QED
    BY <1>1, <2>2, <2>3
<1>5. SlotsSound
  BY DEF Inv
<1>6. read_enabled /\ source.open => rx.ipayloadlen = Len(f.payload) /\ rx.ipayloadoff = source.taken
  BY <1>3 DEF InFrame, Holding
<1>7. read_enabled /\ ~source.open => AtFrameStart(rx)
  BY <1>3 DEF Ready
<1> QED
  BY <1>4, <1>5, <1>6, <1>7 DEF BufferInBounds, SlotsSound, f

(* Between frames nothing of the last one is missing.                      *)
LEMMA SoFarIsWhole ==
    ASSUME SourceTypeOK, SourceSound, ~source.open
    PROVE  FramesSoFar = WholeFrames
<1>1. source.peer \in Seq(Frame) /\ WholeFrames = source.peer
  BY DEF SourceTypeOK, WholeFrames
<1>2. FramesSoFar = SoFar(source)
  BY DEF FramesSoFar, SoFar
<1>3. CASE source.peer = << >>
  BY <1>1, <1>2, <1>3 DEF SoFar
<1>4. CASE source.peer # << >>
  <2> DEFINE W == SubSeq(source.peer, 1, Len(source.peer) - 1)
             f == source.peer[Len(source.peer)]
             n == Len(f.payload)
  <2>1. W \in Seq(Frame) /\ f \in Frame /\ source.peer = Append(W, f)
    BY <1>1, <1>4, FrontAndLast
  <2>2. source.taken = n
    BY <1>4 DEF SourceSound, Last
  <2> HIDE DEF W, f
  <2>3. n \in Nat /\ n <= Len(f.payload)
    BY <2>1 DEF Frame
  <2>4. NothingYet \in View
    BY DEF NothingYet, View, NoOpcode
  <2> DEFINE m == n
  <2>5. m \in Nat /\ m <= Len(f.payload) /\ m = Len(f.payload) /\ source.taken = m
    BY <2>2, <2>3
  <2> HIDE DEF m, n
  <2>6. CutFrame(f, m) \in Frame /\ CutFrame(f, m) = f
    BY <2>1, <2>4, <2>5, CutFrameFacts
  <2>7. SoFar(source) = Append(W, CutFrame(f, m))
    BY <2>1, <2>5, <2>6, SoFarAppend
  <2> QED
    BY <1>1, <1>2, <2>1, <2>6, <2>7
<1> QED
  BY <1>3, <1>4

(* What a slot whose text is in order has read can become UTF-8.           *)
LEMMA InTextBegins ==
    ASSUME NEW m, NEW bytes \in Seq(Byte), InText(m, bytes), m.opcode = WSLAY_TEXT_FRAME
    PROVE  BeginsUtf8(bytes)
<1>1. bytes \in Seq(Octet)
  BY DEF Byte, Octet
<1>2. m.opcode # WSLAY_CONNECTION_CLOSE
  BY DEF WSLAY_TEXT_FRAME, WSLAY_CONNECTION_CLOSE
<1>3. DecodeAll(UTF8_ACCEPT, bytes) # UTF8_REJECT
  BY <1>2 DEF InText
<1>4. DecodeAll(UTF8_ACCEPT, bytes) # UTF8_REJECT <=> BeginsUtf8(bytes)
  BY <1>1, DecodeAllJudges
<1> QED
  BY <1>3, <1>4

(* While the receiver is in step the text can still become UTF-8.          *)
LEMMA TextsAsTheyShouldBe ==
    ASSUME Inv
    PROVE  TextVerdict
<1> DEFINE now == Reassemble(FramesSoFar)
           W == WholeFrames
           v == Reassemble(W)
           f == Last(source.peer)
           n == source.taken
<1>1. TextsDelivered /\ TextRefusal
  BY DEF Inv
<1>2. SourceTypeOK /\ SourceSound /\ source.open \in BOOLEAN /\ source.peer \in Seq(Frame)
  BY InvTypes DEF SourceTypeOK
<1>3. W \in Seq(Frame) /\ v \in View
  BY <1>2, WholeFramesType
<1>4. v.data \in Seq(Byte)
  BY <1>3 DEF View
<1>5. FramesSoFar = SoFar(source)
  BY DEF FramesSoFar, SoFar
<1>6. WSLAY_TEXT_FRAME # NoOpcode
  BY DEF WSLAY_TEXT_FRAME, NoOpcode
<1>7. ASSUME read_enabled, now.opcode = WSLAY_TEXT_FRAME PROVE BeginsUtf8(now.data)
  <2>1. /\ ViewSound(v)
        /\ IF source.open THEN Fits(f, v) /\ InFrame(rx, v, f, n) ELSE Ready(rx, v)
    BY <1>7 DEF Inv, InStep
  <2>2. CASE source.open
    <3>1. source.peer # << >> /\ n \in 1..(Len(f.payload) - 1)
      BY <1>2, <2>2 DEF SourceSound
    <3>2. source.peer \in Seq(Frames) /\ Frames \subseteq Frame
      BY <1>2, FramesAssumption DEF SourceSound
    <3>3. f \in Frames /\ source.peer = Append(W, f)
      BY <2>2, <3>1, <3>2, FrontAndLast DEF WholeFrames, Front, Last
    <3>4. f \in Frame /\ (IsCtrl(f) => f.fin)
      BY <3>2, <3>3, FramesAssumption DEF IsCtrl
    <3>5. n \in Nat /\ n <= Len(f.payload)
      BY <3>1, <3>4, MessageTypes, <1>3
    <3>6. /\ Holding(rx, v, f, n) /\ InText(Msg(rx), Part(v, f, n)) /\ InSlot(rx, v, f)
          /\ Msg(rx).opcode = OpcodeOf(f, v)
      BY <2>1, <2>2 DEF InFrame, Holding
    <3>7. Fits(f, v)
      BY <2>1, <2>2
    <3>8. Part(v, f, n) \in Seq(Byte)
      BY <1>3, <3>4, <3>5, UnreadableText
    <3>9. source.peer = Append(W, f) /\ source.taken = n
      BY <3>3
    <3> DEFINE src == source
    <3>10. src.peer = Append(W, f) /\ src.taken = n /\ now = Reassemble(SoFar(src)) /\ v = Reassemble(W)
      BY <1>5, <3>9
    <3> HIDE DEF W, v, f, n, now, src
    <3>11. /\ IsCtrl(f) => now.opcode = v.opcode /\ now.data = v.data
           /\ ~IsCtrl(f) /\ f.fin => now.opcode = NoOpcode
           /\ ~IsCtrl(f) /\ ~f.fin => now.opcode = OpcodeOf(f, v) /\ now.data = Part(v, f, n)
      <4>1. IsCtrl(f) => now.opcode = v.opcode /\ now.data = v.data
        BY <1>3, <2>1, <3>4, <3>5, <3>7, <3>10, SoFarView
      <4>2. ~IsCtrl(f) /\ f.fin => now.opcode = NoOpcode
        BY <1>3, <2>1, <3>4, <3>5, <3>7, <3>10, SoFarView
      <4>3. ~IsCtrl(f) /\ ~f.fin => now.opcode = OpcodeOf(f, v) /\ now.data = Part(v, f, n)
        BY <1>3, <2>1, <3>4, <3>5, <3>7, <3>10, SoFarView
      <4> QED
        BY <4>1, <4>2, <4>3
    <3>12. CASE IsCtrl(f)
      <4>1. v.opcode = WSLAY_TEXT_FRAME /\ now.data = v.data
        BY <1>7, <3>11, <3>12
      <4>2. DataSlot(rx.imsgs[0], v)
        BY <1>6, <3>6, <3>12, <4>1 DEF InSlot
      <4>3. InText(rx.imsgs[0], v.data) /\ rx.imsgs[0].opcode = WSLAY_TEXT_FRAME
        BY <4>1, <4>2 DEF DataSlot
      <4> QED
        BY <1>4, <4>1, <4>3, InTextBegins
    <3>13. CASE ~IsCtrl(f)
      <4>1. Msg(rx).opcode = WSLAY_TEXT_FRAME /\ now.data = Part(v, f, n)
        BY <1>6, <1>7, <3>4, <3>6, <3>11, <3>13
      <4> QED
        BY <3>6, <3>8, <4>1, InTextBegins
    <3> QED
      BY <3>12, <3>13
  <2>3. CASE ~source.open
    <3>1. now = v
      BY <1>2, <2>3, SoFarIsWhole
    <3>2. Ready(rx, v)
      BY <2>1, <2>3
    <3> HIDE DEF now, v
    <3>3. DataSlot(rx.imsgs[0], v)
      BY <1>6, <1>7, <3>1, <3>2 DEF Ready
    <3>4. InText(rx.imsgs[0], v.data) /\ rx.imsgs[0].opcode = WSLAY_TEXT_FRAME
      BY <1>7, <3>1, <3>3 DEF DataSlot
    <3> QED
      BY <1>4, <3>1, <3>4, InTextBegins
  <2> QED
    BY <1>2, <2>2, <2>3
<1> QED
  BY <1>1, <1>7 DEF TextVerdict, TextsDelivered, TextRefusal, TextReason

-----------------------------------------------------------------------------
(* The theorems.                                                           *)

(* The receiver stays in step with the frames the peer sends, whatever     *)
(* they are, however the socket cuts them, and wherever memory runs out,   *)
(* the application closes or the sending side ends (event.c 281-505).      *)
THEOREM InvHolds == Spec => []Inv
<1>1. Init => Inv
  BY InitInv
<1>2. Inv /\ [Next]_vars => Inv'
  <2> SUFFICES ASSUME Inv, [Next]_vars PROVE Inv'
    OBVIOUS
  <2>1. CASE wslay_event_recv
    BY <2>1, RecvKeepsInv
  <2>2. CASE QueueClose
    BY <2>2, AppCloseKeepsInv
  <2>3. CASE wslay_event_shutdown_read
    BY <2>3, ShutKeepsInv
  <2>4. CASE WriteDisabled
    BY <2>4, WriteDisabledKeepsInv
  <2>5. CASE UNCHANGED vars
    BY <2>5, StutterKeepsInv
  <2> QED
    BY <2>1, <2>2, <2>3, <2>4, <2>5 DEF Next
<1> QED
  BY <1>1, <1>2, PTL DEF Spec

(* The application gets the peer's messages, all of them while reading is  *)
(* enabled, in order and byte for byte (event.c 317-350, 388-477).         *)
THEOREM MessagesArriveAsSent == Spec => []DeliveredAsSent
<1>1. Inv => DeliveredAsSent
  BY DEF Inv
<1> QED
  BY <1>1, InvHolds, PTL

(* Reading goes on only over frames that keep to the protocol, and ends    *)
(* with 1002 only over those that do not (event.c 311-350, 422-434).       *)
THEOREM FramingJudgedRight == Spec => []FramingVerdict
<1>1. Inv => FramingVerdict
  BY DEF Inv
<1> QED
  BY <1>1, InvHolds, PTL

(* Only a message that is too big is refused with 1009 (event.c 352-357).  *)
THEOREM SizeJudgedRight == Spec => []SizeVerdict
<1>1. Inv => SizeVerdict
  BY DEF Inv
<1> QED
  BY <1>1, InvHolds, PTL

(* The frame callbacks are called once for each frame (event.c 359, 407).  *)
THEOREM CallbacksCalledOnce == Spec => []FrameCallbacksOnce
<1>1. Inv => FrameCallbacksOnce
  BY DEF Inv, InStep, CallbacksSound, FrameCallbacksOnce
<1> QED
  BY <1>1, InvHolds, PTL

(* Reading does not stop without a Close, an end of writing or an error    *)
(* that is returned (event.c 199-208).                                     *)
THEOREM FailuresAreAnswered == Spec => []FailureAnswered
<1>1. Inv => FailureAnswered
  BY DEF Inv
<1> QED
  BY <1>1, InvHolds, PTL

(* The Pongs queued are the Pings received (event.c 451-462).              *)
THEOREM PingsAreAnswered == Spec => []PongForPing
<1>1. Inv => PongForPing
  BY DEF Inv
<1> QED
  BY <1>1, InvHolds, PTL

(* What is recorded of the peer's Close is what it sent, and so is the     *)
(* answer to it (event.c 422-450).                                         *)
THEOREM ClosesAreRecordedRight == Spec => []CloseReceivedHonest
<1>1. Inv => CloseReceivedHonest
  BY DEF Inv
<1> QED
  BY <1>1, InvHolds, PTL

(* What is delivered as text is UTF-8, and a data frame leads to a failure *)
(* with 1007 only if the text is not or can no longer be, however the      *)
(* frames and the socket cut it (event.c 367-386, 397-406).                *)
THEOREM TextsJudgedRight == Spec => []TextVerdict
<1>1. Inv => TextVerdict
  BY TextsAsTheyShouldBe
<1> QED
  BY <1>1, InvHolds, PTL

(* The buffers hold what was received and are as long as they should be    *)
(* (event.c 352-366, 388-395).                                             *)
THEOREM BuffersStayInBounds == Spec => []BufferInBounds
<1>1. Inv => BufferInBounds
  BY BuffersAsTheyShouldBe
<1> QED
  BY <1>1, InvHolds, PTL
=============================================================================
