------------------------------- MODULE Queue -------------------------------
(***************************************************************************)
(* The queue behind the send queues and the chunks of a message (queue.h): *)
(* a singly linked list with a pointer to either end, whose cells come     *)
(* from malloc and go back with free.                                      *)
(*                                                                         *)
(* A cell that is free keeps what was last written to it, as memory does,  *)
(* so that an operation that follows a stale pointer is seen to do so.     *)
(***************************************************************************)
EXTENDS Integers, Sequences, FiniteSets

CONSTANTS
    Cells,        \* the memory malloc can give out
    NULL,         \* the pointer to no cell
    Items         \* what is queued

ASSUME QueueAssumption ==
    /\ IsFiniteSet(Cells)
    /\ NULL \notin Cells
    /\ Items \cap {0, 1} = {}

VARIABLES
    top, tail,    \* struct wslay_queue_t
    cell,         \* struct wslay_queue_cell_t, for every address
    used,         \* the cells malloc gave out and free did not get back
    alive,        \* the queue itself is allocated
    last,         \* the last operation and what it returned
    order         \* history: the cells in the order of their items

vars == << top, tail, cell, used, alive, last, order >>

-----------------------------------------------------------------------------

Pointer == Cells \cup {NULL}

Operation == { "new", "push", "push_front", "pop", "top", "tail", "free" }

TypeOK ==
    /\ top \in Pointer /\ tail \in Pointer
    /\ cell \in [ Cells -> [ data : Items \cup {0}, next : Pointer ] ]
    /\ used \in SUBSET Cells
    /\ alive \in BOOLEAN
    /\ last \in Operation \X (Items \cup {0, 1})
    /\ order \in Seq(Cells)

(* wslay_queue_new                                                         *)
Init ==
    /\ top = NULL /\ tail = NULL
    /\ cell = [ c \in Cells |-> [ data |-> 0, next |-> NULL ] ]
    /\ used = {}
    /\ alive = TRUE
    /\ last = << "new", 0 >>
    /\ order = << >>

-----------------------------------------------------------------------------
(* The operations *)

(* malloc fails: nothing is written.                                       *)
NoMemory ==
    /\ alive
    /\ last' \in { << "push", 1 >>, << "push_front", 1 >> }
    /\ UNCHANGED << top, tail, cell, used, alive, order >>

(* Mutant: the new cell is not linked behind the last one.                 *)
PushUnlinked(data) ==
    /\ alive
    /\ \E c \in Cells \ used :
         /\ cell' = [ cell EXCEPT ![c] = [ data |-> data, next |-> NULL ] ]
         /\ top' = IF tail = NULL THEN c ELSE top
         /\ tail' = c
         /\ used' = used \cup {c}
         /\ order' = Append(order, c)
    /\ last' = << "push", 0 >>
    /\ UNCHANGED alive

wslay_queue_push(data) ==
    /\ alive
    /\ \E c \in Cells \ used :
         LET new == [ cell EXCEPT ![c] = [ data |-> data, next |-> NULL ] ]
         IN  /\ cell' = IF tail = NULL THEN new ELSE [ new EXCEPT ![tail].next = c ]
             /\ top' = IF tail = NULL THEN c ELSE top
             /\ tail' = c
             /\ used' = used \cup {c}
             /\ order' = Append(order, c)
    /\ last' = << "push", 0 >>
    /\ UNCHANGED alive

wslay_queue_push_front(data) ==
    /\ alive
    /\ \E c \in Cells \ used :
         /\ cell' = [ cell EXCEPT ![c] = [ data |-> data, next |-> top ] ]
         /\ top' = c
         /\ tail' = IF tail = NULL THEN c ELSE tail
         /\ used' = used \cup {c}
         /\ order' = << c >> \o order
    /\ last' = << "push_front", 0 >>
    /\ UNCHANGED alive

(* Mutant: the tail keeps pointing to the cell that is freed.              *)
PopKeepsTail ==
    /\ alive
    /\ top # NULL
    /\ top' = cell[top].next
    /\ used' = used \ {top}
    /\ order' = Tail(order)
    /\ last' = << "pop", 0 >>
    /\ UNCHANGED << tail, cell, alive >>

wslay_queue_pop ==
    /\ alive
    /\ top # NULL
    /\ top' = cell[top].next
    /\ tail' = IF top = tail THEN NULL ELSE tail
    /\ used' = used \ {top}
    /\ order' = Tail(order)
    /\ last' = << "pop", 0 >>
    /\ UNCHANGED << cell, alive >>

PopEmpty ==
    /\ alive
    /\ top = NULL
    /\ last' = << "pop", 1 >>
    /\ UNCHANGED << top, tail, cell, used, alive, order >>

(* The callers test wslay_queue_is_empty first (event.c 142, 508, 530).   *)
wslay_queue_is_empty == top = NULL

wslay_queue_top ==
    /\ alive
    /\ ~wslay_queue_is_empty
    /\ last' = << "top", cell[top].data >>
    /\ UNCHANGED << top, tail, cell, used, alive, order >>

wslay_queue_tail ==
    /\ alive
    /\ ~wslay_queue_is_empty
    /\ last' = << "tail", cell[tail].data >>
    /\ UNCHANGED << top, tail, cell, used, alive, order >>

(* The cells the destructor's loop visits, following next from top.        *)
Visited ==
    LET at[i \in 1..Cardinality(Cells)] ==
            IF i = 1 THEN top
            ELSE IF at[i - 1] = NULL THEN NULL ELSE cell[at[i - 1]].next
    IN  { at[i] : i \in DOMAIN at } \ {NULL}

(* The destructor: talloc frees the queue afterwards.                      *)
wslay_queue_free ==
    /\ alive
    /\ alive' = FALSE
    /\ used' = used \ Visited
    /\ order' = << >>
    /\ last' = << "free", 0 >>
    /\ UNCHANGED << top, tail, cell >>

Next == \/ \E x \in Items : wslay_queue_push(x) \/ wslay_queue_push_front(x)
        \/ NoMemory
        \/ wslay_queue_pop
        \/ PopEmpty
        \/ wslay_queue_top
        \/ wslay_queue_tail
        \/ wslay_queue_free

Spec == Init /\ [][Next]_vars

-----------------------------------------------------------------------------
(* Correctness *)

(* The list is what its pointers say (queue.h 77-93, 95-109, 111-124): top *)
(* leads from cell to cell to tail, no cell twice, the last one to NULL,   *)
(* and tail is NULL exactly when top is.  The cells malloc gave out are    *)
(* those of the list: none of it is free, none is lost, and the destructor *)
(* gives all of them back (queue.h 53-59).                                 *)
ListIntact ==
    LET n == Len(order)
    IN  /\ \A i, j \in 1..n : i # j => order[i] # order[j]
        /\ used = { order[i] : i \in 1..n }
        /\ alive =>
             /\ n = 0 => top = NULL /\ tail = NULL
             /\ n > 0 => top = order[1] /\ tail = order[n] /\ cell[tail].next = NULL
             /\ \A i \in 1..(n - 1) : cell[order[i]].next = order[i + 1]

(* The list implements a sequence (QueueSpec): every operation returns and *)
(* leaves what it does there.  The mapping reads the data of the cells in  *)
(* the order that ListIntact ties to the pointers.                         *)
Contents == [ i \in 1..Len(order) |-> cell[order[i]].data ]

Sequence == INSTANCE QueueSpec WITH items <- Contents

ImplementsSequence == Sequence!Spec
=============================================================================
