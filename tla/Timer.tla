-------------------------------- MODULE Timer --------------------------------
(***************************************************************************)
(* src/timer.c: the table of timers, the allocator of its slots, and the   *)
(* handler that walks the table at every tick.                             *)
(*                                                                         *)
(* The handler runs with interrupts disabled, so nothing comes between its *)
(* steps but the callbacks it calls, and none of those registers or        *)
(* unregisters a timer.  The rest of the kernel registers and unregisters  *)
(* between two interrupts, a slot that it registered.                      *)
(***************************************************************************)
EXTENDS Queue, Functions

CONSTANTS
    TIMERS_MAX,     \* slots of the table, 32 in timer.h
    Callback,       \* the functions that are registered
    Interval,       \* the intervals they are registered with
    Repeat,         \* and the repeats, -1 for ever
    TICK_PERIOD,    \* bound on the ticks, which are counted modulo TICK_PERIOD
    NoCallback      \* the null function pointer

\* All the code does with the ticks is to take them modulo an interval, which
\* counting modulo a multiple of every interval does not change.
ASSUME TimerAssumption ==
    /\ TIMERS_MAX \in Nat \ {0}
    /\ TIMERS_MAX <= QUEUE_SIZE         \* 32 and 64 in the code
    /\ NoCallback \notin Callback
    /\ TICK_PERIOD \in Nat \ {0}
    /\ Interval \subseteq Nat \ {0}
    /\ \A n \in Interval : TICK_PERIOD % n = 0
    /\ Repeat \subseteq Nat \cup {-1}

VARIABLES
    timers,             \* the timers table
    timer_allocator,    \* free slots of the table
    timer_ticks,        \* timer ticks that have occurred
    slot,               \* the slot the handler has come to, or TIMERS_MAX
    call                \* the callback called in the last step, or NoCallback

vars == <<timers, timer_allocator, timer_ticks, slot, call>>

Slots == 0 .. TIMERS_MAX - 1

FreeTimer == [callback |-> NoCallback, interval |-> 0, repeat |-> 0]

Registered(id) == timers[id].callback # NoCallback

-----------------------------------------------------------------------------
\* Plausible faults of the definitions below, for the mutation runs.

EndsBeforeLast(id) == timers[id].repeat \in {0, 1}
KeepsRepeat(id) == timers[id]
ForgetFree(id) == timer_allocator
CountsForever(id) == [timers[id] EXCEPT !.repeat = @ - 1]

-----------------------------------------------------------------------------

\* timer_init.
Init ==
    /\ timers = [id \in Slots |-> FreeTimer]
    /\ timer_allocator = [i \in 1 .. TIMERS_MAX |-> i - 1]
    /\ timer_ticks = 0
    /\ slot = TIMERS_MAX
    /\ call = NoCallback

InHandler == slot # TIMERS_MAX

\* The id is at the head of the allocator; without a free slot, -1 is returned.
timer_callback_register(callback, interval, repeat) ==
    /\ ~InHandler
    /\ call' = NoCallback
    /\ \/ /\ queue_is_empty(timer_allocator)
          /\ UNCHANGED <<timers, timer_allocator>>
       \/ /\ ~queue_is_empty(timer_allocator)
          /\ timers' = [timers EXCEPT ![Head(timer_allocator)] =
                [callback |-> callback, interval |-> interval, repeat |-> repeat]]
          /\ timer_allocator' = queue_out(timer_allocator)
    /\ UNCHANGED <<timer_ticks, slot>>

\* The allocator after a slot is given back.
Freed(id) == queue_in(timer_allocator, id)

\* What timer_callback_unregister does to the two tables.  It does not ask
\* whether the slot is in use.
timer_callback_unregister(id) ==
    /\ timers' = [timers EXCEPT ![id] = FreeTimer]
    /\ timer_allocator' = Freed(id)

\* A timer is unregistered by who registered it, while it is.
unregister(id) ==
    /\ ~InHandler
    /\ Registered(id)
    /\ timer_callback_unregister(id)
    /\ call' = NoCallback
    /\ UNCHANGED <<timer_ticks, slot>>

\* The interrupt: one more tick, then the table from the first slot on.
timer_irq ==
    /\ ~InHandler
    /\ timer_ticks' = (timer_ticks + 1) % TICK_PERIOD
    /\ slot' = 0
    /\ call' = NoCallback
    /\ UNCHANGED <<timers, timer_allocator>>

Due(id) == Registered(id) /\ timer_ticks % timers[id].interval = 0

\* This call was the last one.
Ends(id) == timers[id].repeat = 0

\* A timer that goes on: one repeat less, unless it repeats for ever.
Counted(id) ==
    IF timers[id].repeat > 0 THEN [timers[id] EXCEPT !.repeat = @ - 1]
    ELSE timers[id]

\* The handler at one slot: nothing, or the call of the callback, after which
\* the timer has one repeat less or ends.
timer_irq_handler ==
    /\ InHandler
    /\ \/ /\ ~Due(slot)
          /\ call' = NoCallback
          /\ UNCHANGED <<timers, timer_allocator>>
       \/ /\ Due(slot)
          /\ call' = timers[slot].callback
          /\ \/ /\ Ends(slot)
                /\ timer_callback_unregister(slot)
             \/ /\ ~Ends(slot)
                /\ timers' = [timers EXCEPT ![slot] = Counted(slot)]
                /\ UNCHANGED timer_allocator
    /\ slot' = slot + 1
    /\ UNCHANGED timer_ticks

Next ==
    \/ \E callback \in Callback, interval \in Interval, repeat \in Repeat :
           timer_callback_register(callback, interval, repeat)
    \/ \E id \in Slots : unregister(id)
    \/ timer_irq
    \/ timer_irq_handler

Spec == Init /\ [][Next]_vars

-----------------------------------------------------------------------------
\* Properties

\* Types; a repeat never passes below 0, where it would mean for ever.
TypeOK ==
    /\ timers \in [Slots -> [callback : Callback, interval : Interval,
                             repeat : Nat \cup {-1}] \cup {FreeTimer}]
    /\ timer_allocator \in Seq(Slots)
    /\ timer_ticks \in 0 .. TICK_PERIOD - 1
    /\ slot \in 0 .. TIMERS_MAX
    /\ call \in Callback \cup {NoCallback}

\* The allocator holds the free slots, once each: whether timers are
\* unregistered or run out, no slot is lost and no two timers share one.
SlotsExact ==
    /\ IsInjective(timer_allocator)
    /\ Range(timer_allocator) = {id \in Slots : ~Registered(id)}

\* The table and its walk provide the service: at each tick the timers whose
\* interval divides the time are called, once each, and each as many times in
\* all as was asked, whatever slots were given back and taken again meanwhile.
Service == INSTANCE TimerService WITH
        Id     <- Slots,
        Func   <- Callback,
        Period <- TICK_PERIOD,
        NoFunc <- NoCallback,
        active <- [id \in {i \in Slots : Registered(i)} |->
                     [func  |-> timers[id].callback,
                      every |-> timers[id].interval,
                      left  |-> IF timers[id].repeat = -1 THEN -1
                                ELSE timers[id].repeat + 1]],
        now    <- timer_ticks,
        due    <- {id \in slot .. TIMERS_MAX - 1 : Due(id)}

IsTimerService == Service!Spec

=============================================================================
