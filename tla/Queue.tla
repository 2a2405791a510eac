------------------------------- MODULE Queue -------------------------------
(***************************************************************************)
(* What queue.c promises to the modules that call it: a queue of at most   *)
(* QUEUE_SIZE integers, oldest first.  The scheduler's run queue and the   *)
(* allocator of process table entries are queues of this kind.             *)
(* CircularQueue is the array-and-indexes implementation, shown there to   *)
(* implement these operators.                                              *)
(***************************************************************************)
EXTENDS Integers, Sequences

CONSTANT QUEUE_SIZE     \* 64 in queue.h

ASSUME QueueSizeAssumption == QUEUE_SIZE \in Nat \ {0}

queue_is_empty(queue) == Len(queue) = 0

queue_is_full(queue) == Len(queue) = QUEUE_SIZE

\* A full queue refuses the item and is left as it was (queue_in returns -1).
queue_in(queue, item) ==
    IF queue_is_full(queue) THEN queue ELSE Append(queue, item)

\* An empty queue is left as it was (queue_out returns -1); the item that a
\* non-empty queue delivers is Head(queue).
queue_out(queue) ==
    IF queue_is_empty(queue) THEN queue ELSE Tail(queue)

=============================================================================
