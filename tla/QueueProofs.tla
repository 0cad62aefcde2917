---------------------------- MODULE QueueProofs ----------------------------
(***************************************************************************)
(* The linked list of queue.h, for every memory and every set of items:    *)
(* its pointers always form the list its history says, the destructor      *)
(* gives every cell back, and it implements the sequence of QueueSpec.     *)
(***************************************************************************)
EXTENDS Queue, SequenceTheorems, FiniteSetTheorems, WellFoundedInduction, TLAPS

-----------------------------------------------------------------------------
(* Induction and sequences *)

(* A nonempty set of natural numbers has a least one: what the induction   *)
(* along the list starts from.                                             *)
LEMMA LeastNat ==
    ASSUME NEW T \in SUBSET Nat, T # {}
    PROVE  \E n \in T : \A m \in T : n <= m
<1> DEFINE Less == { p \in Nat \X Nat : p[1] < p[2] }
<1>1. IsWellFoundedOn(Less, Nat)
  BY NatLessThanWellFounded, Zenon DEF OpToRel
<1>2. PICK n \in T : \A m \in T : ~(<< m, n >> \in Less)
  <2> HIDE DEF Less
  <2> QED  BY <1>1, WFMin, Zenon
<1>3. \A m \in T : ~(m < n)
  BY <1>2
<1> QED
  BY <1>3

(* Tail(s), element by element.                                            *)
LEMMA TailElements ==
    ASSUME NEW S, NEW s \in Seq(S), s # << >>
    PROVE  /\ Tail(s) \in Seq(S)
           /\ Len(s) \in Nat /\ Len(s) > 0
           /\ Len(Tail(s)) = Len(s) - 1
           /\ \A i \in 1..(Len(s) - 1) : Tail(s)[i] = s[i + 1]
  BY HeadTailProperties, EmptySeq

(* Append(s, e), element by element.                                       *)
LEMMA AppendElements ==
    ASSUME NEW S, NEW s \in Seq(S), NEW e \in S
    PROVE  /\ Append(s, e) \in Seq(S)
           /\ Len(s) \in Nat
           /\ Len(Append(s, e)) = Len(s) + 1
           /\ \A i \in 1..Len(s) : Append(s, e)[i] = s[i]
           /\ Append(s, e)[Len(s) + 1] = e
  BY AppendProperties, LenProperties

(* << e >> \o s, element by element.                                       *)
LEMMA PrependElements ==
    ASSUME NEW S, NEW s \in Seq(S), NEW e \in S
    PROVE  /\ << e >> \o s \in Seq(S)
           /\ Len(s) \in Nat
           /\ Len(<< e >> \o s) = Len(s) + 1
           /\ (<< e >> \o s)[1] = e
           /\ \A i \in 1..Len(s) : (<< e >> \o s)[i + 1] = s[i]
  OBVIOUS

-----------------------------------------------------------------------------
(* The list *)

(* The inductive invariant is the list itself: the type of the state and   *)
(* that top, tail and the next pointers are those of order.                *)
Inv == TypeOK /\ ListIntact

(* wslay_queue_new makes the empty list.                                   *)
LEMMA InitInv == Init => Inv
<1> SUFFICES ASSUME Init PROVE Inv
  OBVIOUS
<1>1. TypeOK
  BY EmptySeq DEF Init, TypeOK, Pointer, Operation
<1>2. ListIntact
  BY EmptySeq DEF Init, ListIntact
<1> QED
  BY <1>1, <1>2 DEF Inv

(* A push puts a cell nobody else uses behind the last one.                *)
LEMMA PushInv ==
    ASSUME Inv, NEW x \in Items, wslay_queue_push(x)
    PROVE  Inv'
<1> USE DEF Inv
<1>1. PICK c \in Cells \ used :
        LET new == [ cell EXCEPT ![c] = [ data |-> x, next |-> NULL ] ]
        IN  /\ cell' = IF tail = NULL THEN new ELSE [ new EXCEPT ![tail].next = c ]
            /\ top' = IF tail = NULL THEN c ELSE top
            /\ tail' = c
            /\ used' = used \cup {c}
            /\ order' = Append(order, c)
  BY Zenon DEF wslay_queue_push
<1> DEFINE new == [ cell EXCEPT ![c] = [ data |-> x, next |-> NULL ] ]
<1>2. /\ new \in [ Cells -> [ data : Items \cup {0}, next : Pointer ] ]
      /\ \A d \in Cells : new[d] = IF d = c THEN [ data |-> x, next |-> NULL ] ELSE cell[d]
  BY DEF TypeOK, Pointer
<1>3. /\ cell' = IF tail = NULL THEN new ELSE [ new EXCEPT ![tail].next = c ]
      /\ top' = IF tail = NULL THEN c ELSE top
      /\ tail' = c
      /\ used' = used \cup {c}
      /\ order' = Append(order, c)
  BY <1>1, Zenon
<1> HIDE DEF new
<1>4. tail # NULL => tail \in Cells /\ tail # c
  <2>1. Len(order) \in Nat /\ \A i \in 1..Len(order) : order[i] \in Cells
    BY LenProperties, ElementOfSeq DEF TypeOK
  <2>2. alive /\ c \notin used
    BY Zenon DEF wslay_queue_push
  <2> QED
    BY <2>1, <2>2 DEF ListIntact
<1>5. /\ cell' \in [ Cells -> [ data : Items \cup {0}, next : Pointer ] ]
      /\ \A d \in Cells : cell'[d].next =
            IF d = c THEN NULL ELSE IF d = tail THEN c ELSE cell[d].next
  BY <1>2, <1>3, <1>4, QueueAssumption DEF TypeOK, Pointer
<1>6. /\ order' \in Seq(Cells)
      /\ Len(order) \in Nat
      /\ Len(order') = Len(order) + 1
      /\ \A i \in 1..Len(order) : order'[i] = order[i] /\ order[i] \in Cells
      /\ order'[Len(order) + 1] = c
  BY <1>3, AppendElements, ElementOfSeq DEF TypeOK
<1>7. TypeOK'
  BY <1>3, <1>5, <1>6 DEF TypeOK, Pointer, Operation, wslay_queue_push
<1>8. ListIntact'
  <2>1. \A i, j \in 1..Len(order') : i # j => order'[i] # order'[j]
    BY <1>6 DEF ListIntact
  <2>2. used' = { order'[i] : i \in 1..Len(order') }
    BY <1>3, <1>6 DEF ListIntact
  <2>3. top' = order'[1] /\ tail' = order'[Len(order')] /\ cell'[tail'].next = NULL
    BY <1>3, <1>4, <1>5, <1>6, QueueAssumption DEF ListIntact, wslay_queue_push
  <2>4. \A i \in 1..(Len(order') - 1) : cell'[order'[i]].next = order'[i + 1]
    BY <1>3, <1>5, <1>6, QueueAssumption DEF ListIntact, wslay_queue_push
  <2> QED
    BY <1>6, <2>1, <2>2, <2>3, <2>4 DEF ListIntact
<1> QED
  BY <1>7, <1>8

(* A push at the front puts it before the first one.                       *)
LEMMA PushFrontInv ==
    ASSUME Inv, NEW x \in Items, wslay_queue_push_front(x)
    PROVE  Inv'
<1> USE DEF Inv
<1>1. PICK c \in Cells \ used :
        /\ cell' = [ cell EXCEPT ![c] = [ data |-> x, next |-> top ] ]
        /\ top' = c
        /\ tail' = IF tail = NULL THEN c ELSE tail
        /\ used' = used \cup {c}
        /\ order' = << c >> \o order
  BY DEF wslay_queue_push_front
<1>2. /\ order' \in Seq(Cells)
      /\ Len(order) \in Nat
      /\ Len(order') = Len(order) + 1
      /\ order'[1] = c
      /\ \A i \in 1..Len(order) : order'[i + 1] = order[i] /\ order[i] \in Cells
  BY <1>1, PrependElements, ElementOfSeq DEF TypeOK
<1>3. \A i \in 2..Len(order') : i - 1 \in 1..Len(order) /\ order'[i] = order[i - 1]
  BY <1>2
<1>4. \A d \in Cells : cell'[d].next = IF d = c THEN top ELSE cell[d].next
  BY <1>1 DEF TypeOK
<1>5. TypeOK'
  BY <1>1, <1>2 DEF TypeOK, Pointer, Operation, wslay_queue_push_front
<1>6. ListIntact'
  <2>1. \A i, j \in 1..Len(order') : i # j => order'[i] # order'[j]
    BY <1>1, <1>2, <1>3 DEF ListIntact
  <2>2. used' = { order'[i] : i \in 1..Len(order') }
    <3>1. used' = used \cup {c} /\ used = { order[i] : i \in 1..Len(order) }
      BY <1>1 DEF ListIntact
    <3>2. ASSUME NEW d \in used PROVE \E i \in 1..Len(order') : order'[i] = d
      <4>1. PICK i \in 1..Len(order) : d = order[i]
        BY <3>1
      <4>2. i + 1 \in 1..Len(order') /\ order'[i + 1] = d
        BY <1>2, <4>1
      <4> QED
        BY <4>2
    <3>3. \E i \in 1..Len(order') : order'[i] = c
      <4>1. 1 \in 1..Len(order') /\ order'[1] = c
        BY <1>2
      <4> QED
        BY <4>1
    <3>4. ASSUME NEW i \in 1..Len(order') PROVE order'[i] \in used'
      <4>1. CASE i = 1
        BY <1>2, <3>1, <4>1
      <4>2. CASE i # 1
        <5>1. i \in 2..Len(order')
          BY <1>2, <4>2
        <5>2. i - 1 \in 1..Len(order) /\ order'[i] = order[i - 1]
          BY <1>3, <5>1
        <5> QED
          BY <3>1, <5>2
      <4> QED
        BY <4>1, <4>2
    <3>5. used' \subseteq { order'[i] : i \in 1..Len(order') }
      BY <3>1, <3>2, <3>3
    <3>6. { order'[i] : i \in 1..Len(order') } \subseteq used'
      BY <3>4
    <3> QED
      BY <3>5, <3>6
  <2>3. top' = order'[1] /\ tail' = order'[Len(order')] /\ cell'[tail'].next = NULL
    BY <1>1, <1>2, <1>3, <1>4, QueueAssumption DEF ListIntact, wslay_queue_push_front
  <2>4. \A i \in 1..(Len(order') - 1) : cell'[order'[i]].next = order'[i + 1]
    BY <1>1, <1>2, <1>3, <1>4, QueueAssumption DEF ListIntact, wslay_queue_push_front
  <2> QED
    BY <1>2, <2>1, <2>2, <2>3, <2>4 DEF ListIntact
<1> QED
  BY <1>5, <1>6

(* A pop takes the first cell out of the list and gives it back.           *)
LEMMA PopInv ==
    ASSUME Inv, wslay_queue_pop
    PROVE  Inv'
<1> USE DEF Inv
<1>1. order # << >>
  BY DEF wslay_queue_pop, ListIntact
<1>2. /\ order' \in Seq(Cells)
      /\ Len(order) \in Nat /\ Len(order) > 0
      /\ Len(order') = Len(order) - 1
      /\ \A i \in 1..(Len(order) - 1) : order'[i] = order[i + 1]
      /\ \A i \in 1..Len(order) : order[i] \in Cells
  BY <1>1, TailElements, ElementOfSeq DEF TypeOK, wslay_queue_pop
<1>3. /\ top = order[1] /\ top \in Cells /\ tail = order[Len(order)]
      /\ top' = IF Len(order) = 1 THEN NULL ELSE order[2]
      /\ tail' = IF Len(order) = 1 THEN NULL ELSE tail
      /\ cell' = cell /\ used' = used \ {top}
  BY <1>2 DEF ListIntact, wslay_queue_pop
<1>4. TypeOK'
  BY <1>2, <1>3 DEF TypeOK, Pointer, Operation, ListIntact, wslay_queue_pop
<1>5. ListIntact'
  <2>1. \A i, j \in 1..Len(order') : i # j => order'[i] # order'[j]
    BY <1>2 DEF ListIntact
  <2>2. used' = { order'[i] : i \in 1..Len(order') }
    <3>1. used' = { order[i] : i \in 1..Len(order) } \ {order[1]}
      BY <1>3 DEF ListIntact
    <3>2. \A i \in 1..Len(order) : i # 1 => order[i] = order'[i - 1] /\ i - 1 \in 1..Len(order')
      BY <1>2
    <3>3. \A i \in 1..Len(order') : order'[i] # order[1]
      BY <1>2 DEF ListIntact
    <3> QED
      BY <1>2, <3>1, <3>2, <3>3
  <2>3. Len(order') = 0 => top' = NULL /\ tail' = NULL
    BY <1>2, <1>3
  <2>4. Len(order') > 0 => /\ top' = order'[1] /\ tail' = order'[Len(order')]
                           /\ cell'[tail'].next = NULL
    BY <1>2, <1>3 DEF ListIntact, wslay_queue_pop
  <2>5. \A i \in 1..(Len(order') - 1) : cell'[order'[i]].next = order'[i + 1]
    BY <1>2, <1>3 DEF ListIntact, wslay_queue_pop
  <2> QED
    BY <1>2, <2>1, <2>2, <2>3, <2>4, <2>5 DEF ListIntact
<1> QED
  BY <1>4, <1>5

-----------------------------------------------------------------------------
(* The destructor *)

(* The list is no longer than the memory: no cell is in it twice.          *)
LEMMA ListFits ==
    ASSUME Inv
    PROVE  /\ Cardinality(Cells) \in Nat
           /\ Len(order) \in Nat
           /\ Len(order) <= Cardinality(Cells)
<1> USE DEF Inv
<1>1. Len(order) \in Nat /\ order \in [ 1..Len(order) -> Cells ]
  BY LenProperties DEF TypeOK
<1>2. order \in Injection(1..Len(order), Cells)
  BY <1>1 DEF ListIntact, Injection, IsInjective
<1>3. IsFiniteSet(1..Len(order)) /\ Cardinality(1..Len(order)) = Len(order)
  BY <1>1, FS_Interval, SMTT(40)
<1>4. Cardinality(1..Len(order)) <= Cardinality(Cells)
  BY <1>2, QueueAssumption, FS_Injection, Zenon DEF ExistsInjection
<1> QED
  BY <1>1, <1>3, <1>4, QueueAssumption, FS_CardinalityType

(* The walk of the destructor along next visits every cell of the list and *)
(* no other: by induction along the walk, its ith cell is the ith of order. *)
LEMMA WalkVisitsList ==
    ASSUME Inv, alive
    PROVE  Visited = { order[i] : i \in 1..Len(order) }
<1> USE DEF Inv
<1> DEFINE N == Cardinality(Cells)
           n == Len(order)
           Walk(f) == [ i \in 1..N |-> IF i = 1 THEN top
                                       ELSE IF f[i - 1] = NULL THEN NULL
                                       ELSE cell[f[i - 1]].next ]
           list == [ i \in 1..N |-> IF i <= n THEN order[i] ELSE NULL ]
           at == CHOOSE f : f = Walk(f)
<1>1. N \in Nat /\ n \in Nat /\ n <= N
  BY ListFits
<1>2. \A i \in 1..n : order[i] \in Cells /\ order[i] # NULL
  BY ElementOfSeq, QueueAssumption DEF TypeOK
<1>3. list = Walk(list)
  <2>1. \A i \in 1..N : list[i] = Walk(list)[i]
    BY <1>1, <1>2 DEF ListIntact
  <2> QED
    BY <2>1
<1>4. at = Walk(at)
  BY <1>3, Zenon
<1>5. Visited = { at[i] : i \in DOMAIN at } \ {NULL}
  BY Zenon DEF Visited
<1> HIDE DEF at
<1>6. \A i \in 1..N : at[i] = list[i]
  <2> DEFINE wrong == { i \in 1..N : at[i] # list[i] }
  <2> SUFFICES ASSUME wrong # {} PROVE FALSE
    OBVIOUS
  <2>1. PICK k \in wrong : \A m \in wrong : k <= m
    <3>1. wrong \in SUBSET Nat
      BY <1>1
    <3> HIDE DEF wrong
    <3> QED
      BY <3>1, LeastNat
  <2>2. k # 1 => at[k - 1] = list[k - 1]
    BY <1>1, <2>1
  <2>3. at[k] = Walk(list)[k]
    BY <1>1, <1>4, <2>1, <2>2
  <2> QED
    BY <1>3, <2>1, <2>3
<1>7. DOMAIN at = 1..N
  BY <1>4
<1> QED
  BY <1>1, <1>2, <1>5, <1>6, <1>7

(* The destructor gives every cell of the list back.                       *)
LEMMA FreeInv ==
    ASSUME Inv, wslay_queue_free
    PROVE  Inv'
<1> USE DEF Inv
<1>1. used' = {} /\ order' = << >> /\ alive' = FALSE
  BY WalkVisitsList DEF wslay_queue_free, ListIntact
<1>2. TypeOK'
  BY <1>1, EmptySeq DEF wslay_queue_free, TypeOK, Pointer, Operation
<1>3. ListIntact'
  BY <1>1, EmptySeq DEF ListIntact
<1> QED
  BY <1>2, <1>3

(* The operations that only look leave the list alone.                     *)
LEMMA LookInv ==
    ASSUME Inv, NoMemory \/ PopEmpty \/ wslay_queue_top \/ wslay_queue_tail
    PROVE  Inv'
<1> USE DEF Inv
<1>1. UNCHANGED << top, tail, cell, used, alive, order >>
  BY DEF NoMemory, PopEmpty, wslay_queue_top, wslay_queue_tail
<1>2. ListIntact'
  BY <1>1 DEF ListIntact
<1>3. last' \in Operation \X (Items \cup {0, 1})
  <2>1. wslay_queue_top => top \in Cells /\ last' = << "top", cell[top].data >>
    BY DEF wslay_queue_top, wslay_queue_is_empty, TypeOK, Pointer
  <2>2. wslay_queue_tail => tail \in Cells /\ last' = << "tail", cell[tail].data >>
    <3>1. Len(order) \in Nat /\ \A i \in 1..Len(order) : order[i] \in Cells
      BY LenProperties, ElementOfSeq DEF TypeOK
    <3> QED
      BY <3>1 DEF wslay_queue_tail, wslay_queue_is_empty, ListIntact
  <2>3. \A c \in Cells : cell[c].data \in Items \cup {0, 1}
    BY DEF TypeOK
  <2> QED
    BY <2>1, <2>2, <2>3 DEF NoMemory, PopEmpty, Operation
<1>4. TypeOK'
  BY <1>1, <1>3 DEF TypeOK
<1> QED
  BY <1>2, <1>4

(* The list stays the list its history says, and everything has its type.  *)
THEOREM InvHolds == Spec => []Inv
<1>1. Inv /\ [Next]_vars => Inv'
  <2> SUFFICES ASSUME Inv, [Next]_vars PROVE Inv'
    OBVIOUS
  <2>1. ASSUME NEW x \in Items, wslay_queue_push(x) PROVE Inv'
    BY <2>1, PushInv
  <2>2. ASSUME NEW x \in Items, wslay_queue_push_front(x) PROVE Inv'
    BY <2>2, PushFrontInv
  <2>3. CASE wslay_queue_pop
    BY <2>3, PopInv
  <2>4. CASE wslay_queue_free
    BY <2>4, FreeInv
  <2>5. CASE NoMemory \/ PopEmpty \/ wslay_queue_top \/ wslay_queue_tail
    BY <2>5, LookInv
  <2>6. CASE UNCHANGED vars
    BY <2>6 DEF vars, Inv, TypeOK, ListIntact
  <2> QED
    BY <2>1, <2>2, <2>3, <2>4, <2>5, <2>6, Zenon DEF Next
<1> QED
  BY InitInv, <1>1, PTL DEF Spec

(* The pointers form the list and malloc's cells are those of the list     *)
(* (queue.h 53-124), for every memory and every set of items.              *)
THEOREM ListStaysIntact == Spec => []ListIntact
  BY InvHolds, PTL DEF Inv

-----------------------------------------------------------------------------
(* The sequence the list implements *)

(* What the refinement mapping reads, element by element.                  *)
LEMMA ReadOff ==
    ASSUME NEW o \in Seq(Cells),
           NEW c \in [ Cells -> [ data : Items \cup {0}, next : Pointer ] ]
    PROVE  LET s == [ i \in 1..Len(o) |-> c[o[i]].data ]
           IN  /\ s \in Seq(Items \cup {0})
               /\ Len(o) \in Nat
               /\ Len(s) = Len(o)
               /\ \A i \in 1..Len(o) : o[i] \in Cells /\ s[i] = c[o[i]].data
               /\ s = << >> <=> o = << >>
<1>1. Len(o) \in Nat /\ \A i \in 1..Len(o) : o[i] \in Cells
  BY LenProperties, ElementOfSeq
<1>2. \A i \in 1..Len(o) : c[o[i]].data \in Items \cup {0}
  BY <1>1
<1> DEFINE s == [ i \in 1..Len(o) |-> c[o[i]].data ]
<1>3. s \in Seq(Items \cup {0}) /\ Len(s) = Len(o)
  BY <1>1, <1>2
<1>4. s = << >> <=> o = << >>
  BY <1>1, <1>3, EmptySeq
<1> QED
  BY <1>1, <1>2, <1>3, <1>4

(* It reads a sequence of the length of the list, before and after a step. *)
LEMMA ContentsElements ==
    ASSUME Inv, Inv'
    PROVE  /\ Contents \in Seq(Items \cup {0}) /\ Contents' \in Seq(Items \cup {0})
           /\ Len(order) \in Nat /\ Len(order') \in Nat
           /\ Len(Contents) = Len(order) /\ Len(Contents') = Len(order')
           /\ \A i \in 1..Len(order) : order[i] \in Cells /\ Contents[i] = cell[order[i]].data
           /\ \A i \in 1..Len(order') : order'[i] \in Cells /\ Contents'[i] = cell'[order'[i]].data
           /\ Contents = << >> <=> order = << >>
           /\ Contents' = << >> <=> order' = << >>
<1>1. /\ order \in Seq(Cells) /\ order' \in Seq(Cells)
      /\ cell \in [ Cells -> [ data : Items \cup {0}, next : Pointer ] ]
      /\ cell' \in [ Cells -> [ data : Items \cup {0}, next : Pointer ] ]
  BY DEF Inv, TypeOK, Pointer
<1> QED
  BY <1>1, ReadOff, Zenon DEF Contents

(* A push appends to the sequence.                                         *)
LEMMA PushRefines ==
    ASSUME Inv, Inv', NEW x \in Items, wslay_queue_push(x)
    PROVE  Sequence!Push(x)
<1>1. PICK c \in Cells \ used :
        LET new == [ cell EXCEPT ![c] = [ data |-> x, next |-> NULL ] ]
        IN  /\ cell' = IF tail = NULL THEN new ELSE [ new EXCEPT ![tail].next = c ]
            /\ order' = Append(order, c)
  BY Zenon DEF wslay_queue_push
<1> DEFINE new == [ cell EXCEPT ![c] = [ data |-> x, next |-> NULL ] ]
<1>2. /\ new \in [ Cells -> [ data : Items \cup {0}, next : Pointer ] ]
      /\ \A d \in Cells : new[d] = IF d = c THEN [ data |-> x, next |-> NULL ] ELSE cell[d]
  BY DEF Inv, TypeOK, Pointer
<1>3. cell' = IF tail = NULL THEN new ELSE [ new EXCEPT ![tail].next = c ]
  BY <1>1, Zenon
<1> HIDE DEF new
<1>4. tail \in Pointer
  BY DEF Inv, TypeOK
<1>5. \A d \in Cells : cell'[d].data = IF d = c THEN x ELSE cell[d].data
  BY <1>2, <1>3, <1>4, QueueAssumption DEF Pointer
<1>6. /\ Len(order') = Len(order) + 1
      /\ \A i \in 1..Len(order) : order'[i] = order[i] /\ order[i] # c
      /\ order'[Len(order) + 1] = c
  BY <1>1, AppendElements DEF Inv, TypeOK, ListIntact
<1>7. Append(Contents, x) = Contents'
  BY <1>5, <1>6, ContentsElements, AppendElements, SeqEqual
<1> QED
  BY <1>7, Zenon DEF Sequence!Push, wslay_queue_push

(* A push at the front puts the item before the sequence.                  *)
LEMMA PushFrontRefines ==
    ASSUME Inv, Inv', NEW x \in Items, wslay_queue_push_front(x)
    PROVE  Sequence!PushFront(x)
<1>1. PICK c \in Cells \ used :
        /\ cell' = [ cell EXCEPT ![c] = [ data |-> x, next |-> top ] ]
        /\ order' = << c >> \o order
  BY DEF wslay_queue_push_front
<1>2. \A d \in Cells : cell'[d].data = IF d = c THEN x ELSE cell[d].data
  BY <1>1 DEF Inv, TypeOK
<1>3. /\ Len(order') = Len(order) + 1
      /\ order'[1] = c
      /\ \A i \in 1..Len(order) : order'[i + 1] = order[i] /\ order[i] # c
  BY <1>1, PrependElements DEF Inv, TypeOK, ListIntact
<1>4. << x >> \o Contents = Contents'
  <2> DEFINE s == << x >> \o Contents
  <2>1. /\ s \in Seq(Items \cup {0})
        /\ Len(s) = Len(Contents) + 1 /\ s[1] = x
        /\ \A i \in 1..Len(Contents) : s[i + 1] = Contents[i]
    BY ContentsElements, PrependElements
  <2> HIDE DEF s
  <2>2. Contents'[1] = x
    BY <1>2, <1>3, ContentsElements
  <2>3. \A i \in 1..Len(s) : s[i] = Contents'[i]
    <3> SUFFICES ASSUME NEW i \in 1..Len(s), i # 1 PROVE s[i] = Contents'[i]
      BY <2>1, <2>2
    <3>1. PICK k \in 1..Len(order) : i = k + 1
      <4>1. i - 1 \in 1..Len(order)
        BY <2>1, ContentsElements
      <4> QED
        BY <4>1
    <3>2. s[i] = cell[order[k]].data
      BY <2>1, <3>1, ContentsElements
    <3>3. Contents'[i] = cell'[order[k]].data
      BY <1>3, <3>1, ContentsElements
    <3> QED
      BY <1>2, <1>3, <3>2, <3>3, ContentsElements
  <2>4. s = Contents'
    BY <1>3, <2>1, <2>3, ContentsElements, SeqEqual
  <2> QED
    BY <2>4 DEF s
<1> QED
  BY <1>4, Zenon DEF Sequence!PushFront, wslay_queue_push_front

(* A pop takes the first item; it fails exactly when there is none.        *)
LEMMA PopRefines ==
    ASSUME Inv, Inv', wslay_queue_pop
    PROVE  Sequence!Pop
<1>1. order # << >> /\ order' = Tail(order) /\ cell' = cell
  BY EmptySeq DEF wslay_queue_pop, Inv, ListIntact
<1>2. /\ Len(order') = Len(order) - 1
      /\ \A i \in 1..Len(order') : order'[i] = order[i + 1]
  BY <1>1, TailElements DEF Inv, TypeOK
<1>3. Contents # << >> /\ Tail(Contents) = Contents'
  <2>1. Contents # << >>
    BY <1>1, ContentsElements
  <2> DEFINE s == Tail(Contents)
  <2>2. /\ s \in Seq(Items \cup {0})
        /\ Len(s) = Len(Contents) - 1
        /\ \A i \in 1..(Len(Contents) - 1) : s[i] = Contents[i + 1]
    BY <2>1, ContentsElements, TailElements
  <2> HIDE DEF s
  <2>3. \A i \in 1..Len(s) : s[i] = Contents'[i]
    <3> SUFFICES ASSUME NEW i \in 1..Len(s) PROVE s[i] = Contents'[i]
      OBVIOUS
    <3>1. /\ Len(Contents) = Len(order) /\ Len(order) \in Nat
          /\ \A k \in 1..Len(order) : Contents[k] = cell[order[k]].data
      BY ContentsElements
    <3>2. /\ Len(order') \in Nat
          /\ \A k \in 1..Len(order') : Contents'[k] = cell'[order'[k]].data
      BY ContentsElements
    <3>3. i \in 1..(Len(Contents) - 1) /\ i \in 1..Len(order') /\ i + 1 \in 1..Len(order)
      BY <1>2, <2>2, <3>1, <3>2
    <3>4. s[i] = cell[order[i + 1]].data
      BY <2>2, <3>1, <3>3
    <3>5. Contents'[i] = cell[order[i + 1]].data
      BY <1>1, <1>2, <3>2, <3>3
    <3> QED
      BY <3>4, <3>5
  <2>4. s = Contents'
    BY <1>2, <2>2, <2>3, ContentsElements, SeqEqual
  <2> QED
    BY <2>1, <2>4 DEF s
<1> QED
  BY <1>3 DEF Sequence!Pop, wslay_queue_pop

(* What only looks at the list returns what the sequence holds there.      *)
LEMMA LookRefines ==
    ASSUME Inv, Inv', NoMemory \/ PopEmpty \/ wslay_queue_top \/ wslay_queue_tail
    PROVE  Sequence!Next
<1>1. UNCHANGED Contents
  BY DEF NoMemory, PopEmpty, wslay_queue_top, wslay_queue_tail, Contents
<1>2. CASE NoMemory
  BY <1>1, <1>2 DEF NoMemory, Sequence!Next, Sequence!Fails
<1>3. alive => (top = NULL <=> Contents = << >>)
  BY ContentsElements, EmptySeq, QueueAssumption DEF Inv, TypeOK, ListIntact
<1>4. CASE PopEmpty
  BY <1>1, <1>3, <1>4 DEF PopEmpty, Sequence!Next, Sequence!Fails
<1>5. alive /\ Contents # << >> => /\ cell[top].data = Contents[1]
                                   /\ cell[tail].data = Contents[Len(Contents)]
  BY ContentsElements, EmptySeq, SMTT(40) DEF Inv, TypeOK, ListIntact
<1>6. CASE wslay_queue_top
  BY <1>1, <1>3, <1>5, <1>6
     DEF wslay_queue_top, wslay_queue_is_empty, Sequence!Next, Sequence!Top
<1>7. CASE wslay_queue_tail
  BY <1>1, <1>3, <1>5, <1>7
     DEF wslay_queue_tail, wslay_queue_is_empty, Sequence!Next, Sequence!TailOf
<1> QED
  BY <1>2, <1>4, <1>6, <1>7

(* The linked list implements the sequence of QueueSpec: every operation   *)
(* of queue.h returns and leaves what it does there.                       *)
THEOREM ListImplementsSequence == Spec => ImplementsSequence
<1>1. Init => Sequence!Init
  BY EmptySeq DEF Init, Sequence!Init, Contents
<1>2. Inv /\ Inv' /\ [Next]_vars => [Sequence!Next]_<< Contents, last >>
  <2> SUFFICES ASSUME Inv, Inv', [Next]_vars
               PROVE  [Sequence!Next]_<< Contents, last >>
    OBVIOUS
  <2>1. ASSUME NEW x \in Items, wslay_queue_push(x) PROVE Sequence!Next
    BY <2>1, PushRefines, Zenon DEF Sequence!Next
  <2>2. ASSUME NEW x \in Items, wslay_queue_push_front(x) PROVE Sequence!Next
    BY <2>2, PushFrontRefines, Zenon DEF Sequence!Next
  <2>3. CASE wslay_queue_pop
    BY <2>3, PopRefines, Zenon DEF Sequence!Next
  <2>4. CASE wslay_queue_free
    <3>1. Contents' = << >>
      BY <2>4, ContentsElements DEF wslay_queue_free
    <3> QED
      BY <2>4, <3>1 DEF wslay_queue_free, Sequence!Next, Sequence!Free
  <2>5. CASE NoMemory \/ PopEmpty \/ wslay_queue_top \/ wslay_queue_tail
    BY <2>5, LookRefines
  <2>6. CASE UNCHANGED vars
    BY <2>6 DEF vars, Contents
  <2> QED
    BY <2>1, <2>2, <2>3, <2>4, <2>5, <2>6, Zenon DEF Next
<1> QED
  BY InvHolds, <1>1, <1>2, PTL DEF Spec, ImplementsSequence, Sequence!Spec
=============================================================================
