----------------------------- MODULE QueueSpec -----------------------------
(***************************************************************************)
(* What the queue of queue.h promises its users in event.c: a sequence of  *)
(* items, pushed at either end, taken at the front; an operation that      *)
(* cannot get memory says so and changes nothing, and taking fails only    *)
(* when there is nothing to take.                                          *)
(***************************************************************************)
EXTENDS Sequences, Naturals

CONSTANT Items

VARIABLES
    items,        \* the contents, front first
    last          \* the last operation and what it returned

Init == items = << >> /\ last = << "new", 0 >>

(* An operation that returns 1 leaves the queue as it was.                 *)
Fails(op) == last' = << op, 1 >> /\ UNCHANGED items

Push(x) == items' = Append(items, x) /\ last' = << "push", 0 >>

PushFront(x) == items' = << x >> \o items /\ last' = << "push_front", 0 >>

Pop == items # << >> /\ items' = Tail(items) /\ last' = << "pop", 0 >>

(* wslay_queue_top and wslay_queue_tail are only called when there is one. *)
Top == items # << >> /\ last' = << "top", items[1] >> /\ UNCHANGED items

TailOf == items # << >> /\ last' = << "tail", items[Len(items)] >> /\ UNCHANGED items

Free == items' = << >> /\ last' = << "free", 0 >>

Next == \/ Fails("push") \/ Fails("push_front")
        \/ items = << >> /\ Fails("pop")
        \/ Pop \/ Top \/ TailOf \/ Free
        \/ \E x \in Items : Push(x) \/ PushFront(x)

Spec == Init /\ [][Next]_<< items, last >>
=============================================================================
