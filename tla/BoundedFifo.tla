----------------------------- MODULE BoundedFifo -----------------------------
(***************************************************************************)
(* The abstract specification of one queue_t: a FIFO of at most QUEUE_SIZE *)
(* items, with what the last call returned (ret) and the integer its       *)
(* caller handed to queue_out to be filled (out).                          *)
(***************************************************************************)
EXTENDS Queue

CONSTANT Item           \* the integers the callers store

VARIABLES fifo, ret, out

vars == <<fifo, ret, out>>

Init == fifo = <<>> /\ ret = 0 /\ out = 0

\* queue_init empties the queue.
Clear == fifo' = <<>> /\ ret' = 0 /\ UNCHANGED out

\* queue_in reports whether the item was taken.
Put(item) ==
    /\ fifo' = queue_in(fifo, item)
    /\ ret' = IF queue_is_full(fifo) THEN -1 ELSE 0
    /\ UNCHANGED out

\* queue_out delivers the oldest item.
Take ==
    /\ ~queue_is_empty(fifo)
    /\ fifo' = queue_out(fifo)
    /\ ret' = 0
    /\ out' = Head(fifo)

\* A call that fails changes nothing but its result, not even the caller's
\* integer: an empty queue, or no integer to fill.
Refuse == ret' = -1 /\ UNCHANGED <<fifo, out>>

Next == Clear \/ (\E item \in Item : Put(item)) \/ Take \/ Refuse

Spec == Init /\ [][Next]_vars

=============================================================================
