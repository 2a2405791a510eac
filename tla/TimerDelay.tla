------------------------------ MODULE TimerDelay ------------------------------
(***************************************************************************)
(* Timer, with the age of each timer: the ticks since it was registered or *)
(* last called.  The age is of the checking only, no action depends on it. *)
(***************************************************************************)
EXTENDS Timer

VARIABLE age        \* of the timer in each slot, counted up to TICK_PERIOD

AgedInit == Init /\ age = [id \in Slots |-> 0]

Older(n) == IF n < TICK_PERIOD THEN n + 1 ELSE n

AgedNext ==
    \/ /\ \E callback \in Callback, interval \in Interval, repeat \in Repeat :
              timer_callback_register(callback, interval, repeat)
       /\ age' = IF queue_is_empty(timer_allocator) THEN age
                 ELSE [age EXCEPT ![Head(timer_allocator)] = 0]
    \/ /\ \E id \in Slots : unregister(id)
       /\ UNCHANGED age
    \/ /\ timer_irq
       /\ age' = [id \in Slots |-> Older(age[id])]
    \/ /\ timer_irq_handler
       /\ age' = IF Due(slot) THEN [age EXCEPT ![slot] = 0] ELSE age

AgedSpec == AgedInit /\ [][AgedNext]_<<vars, age>>

\* Doc: the interval is the number of ticks before the callback is performed,
\* so the timer that the handler is about to call has waited that long.
WaitsItsInterval ==
    InHandler /\ Due(slot) => age[slot] >= timers[slot].interval

=============================================================================
