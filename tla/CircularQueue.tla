---------------------------- MODULE CircularQueue ----------------------------
(***************************************************************************)
(* src/queue.c: one queue_t, a circular buffer of QUEUE_SIZE integers with *)
(* its head, tail and size, under any sequence of calls.                   *)
(*                                                                         *)
(* ret is what the last call returned; out is the caller's integer that    *)
(* queue_out fills.                                                        *)
(***************************************************************************)
EXTENDS Integers, Sequences

CONSTANTS
    QUEUE_SIZE,         \* capacity, 64 in queue.h
    Item                \* the integers the callers store

\* memset leaves zeroes in the slots, and 0 is an item like any other: the
\* idle task's pid, the first table entry, the first timer.
ASSUME CircularQueueAssumption ==
    /\ QUEUE_SIZE \in Nat \ {0}
    /\ Item \subseteq Int
    /\ 0 \in Item

VARIABLES items, head, tail, size, ret, out

queue == <<items, head, tail, size>>
vars == <<items, head, tail, size, ret, out>>

Slot == 0 .. QUEUE_SIZE - 1

-----------------------------------------------------------------------------
\* Plausible faults of the functions below, for the mutation runs.

NoWrap(i) == i + 1
StoreBeyond(item) == [items EXCEPT ![(tail + 1) % QUEUE_SIZE] = item]
OverwriteOldest(item) ==
    /\ items' = [items EXCEPT ![tail] = item]
    /\ tail' = (tail + 1) % QUEUE_SIZE
    /\ size' = IF size = QUEUE_SIZE THEN size ELSE size + 1
    /\ ret' = 0
    /\ UNCHANGED <<head, out>>

-----------------------------------------------------------------------------

queue_is_empty == size = 0

queue_is_full == size = QUEUE_SIZE

\* The slot after slot i, as both queue_in and queue_out compute it.
NextSlot(i) == (i + 1) % QUEUE_SIZE

\* The item is stored in the slot at the tail.
Store(item) == [items EXCEPT ![tail] = item]

queue_init ==
    /\ items' = [i \in Slot |-> 0]
    /\ head' = 0 /\ tail' = 0 /\ size' = 0
    /\ ret' = 0
    /\ UNCHANGED out

queue_in(item) ==
    \/ /\ queue_is_full
       /\ ret' = -1
       /\ UNCHANGED <<queue, out>>
    \/ /\ ~queue_is_full
       /\ items' = Store(item)
       /\ size' = size + 1
       /\ tail' = NextSlot(tail)
       /\ ret' = 0
       /\ UNCHANGED <<head, out>>

\* hasItem is FALSE when the caller passes a null pointer for the item.
queue_out(hasItem) ==
    \/ /\ queue_is_empty \/ ~hasItem
       /\ ret' = -1
       /\ UNCHANGED <<queue, out>>
    \/ /\ ~queue_is_empty /\ hasItem
       /\ out' = items[head]
       /\ size' = size - 1
       /\ head' = NextSlot(head)
       /\ ret' = 0
       /\ UNCHANGED <<items, tail>>

-----------------------------------------------------------------------------

\* A queue just initialised, and a caller whose integer is 0.
Init ==
    /\ items = [i \in Slot |-> 0]
    /\ head = 0 /\ tail = 0 /\ size = 0
    /\ ret = 0 /\ out = 0

Next ==
    \/ queue_init
    \/ \E item \in Item : queue_in(item)
    \/ \E hasItem \in BOOLEAN : queue_out(hasItem)

Spec == Init /\ [][Next]_vars

-----------------------------------------------------------------------------
\* Properties

\* The indexes stay inside the array and the size within the capacity: no call
\* of queue_in or queue_out touches memory beside items.
TypeOK ==
    /\ items \in [Slot -> Item]
    /\ head \in Slot
    /\ tail \in Slot
    /\ size \in 0 .. QUEUE_SIZE
    /\ ret \in {0, -1}
    /\ out \in Item

\* The three counters tell one story, whatever wrapped around: the tail is size
\* slots after the head, so size alone tells a full queue from an empty one.
CountersAgree == tail = (head + size) % QUEUE_SIZE

\* The stored items, oldest first.
Contents == [i \in 1 .. size |-> items[(head + i - 1) % QUEUE_SIZE]]

Fifo == INSTANCE BoundedFifo WITH fifo <- Contents

\* queue.c implements a bounded FIFO: no item is lost, duplicated, reordered or
\* overwritten by any sequence of calls, full and empty queues included.
IsFifo == Fifo!Spec

=============================================================================
