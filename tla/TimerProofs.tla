----------------------------- MODULE TimerProofs -----------------------------
(***************************************************************************)
(* The table of timers and its allocator, for every size of the table, and *)
(* every set of callbacks, intervals and repeats.                          *)
(*                                                                         *)
(* TypeOK and SlotsExact are inductive together: a slot given back finds   *)
(* room in the allocator because no slot is in it twice.                   *)
(***************************************************************************)
EXTENDS Timer, QueueProofs

USE QueueSizeAssumption, TimerAssumption

TimerType == [callback : Callback, interval : Interval, repeat : Nat \cup {-1}]
               \cup {FreeTimer}

IInv == TypeOK /\ SlotsExact

-----------------------------------------------------------------------------

\* As long as a slot is in use, the allocator has room for it.
LEMMA SlotRoom ==
    ASSUME IInv, NEW id \in Slots, Registered(id)
    PROVE  ~queue_is_full(timer_allocator)
  <1> DEFINE q == timer_allocator
             S == Range(timer_allocator)
             n == TIMERS_MAX - 1
             f == [x \in S |-> IF x < id THEN x + 1 ELSE x]
  <1>1. q \in Seq(S) /\ Len(q) \in Nat
    BY SeqOfRange, LenProperties DEF IInv, TypeOK
  <1>2. S \subseteq Slots \ {id}
    BY DEF IInv, SlotsExact
  <1>3. f \in [S -> 1 .. n]
    BY <1>2 DEF Slots
  <1>4. \A i \in 1 .. Len(q) : q[i] \in S
    BY <1>1, ElementOfSeq
  <1>5. \A i, j \in 1 .. Len(q) : f[q[i]] = f[q[j]] => q[i] = q[j]
    BY <1>2, <1>4 DEF Slots
  <1>6. IsInjective(q) /\ n \in Nat
    BY DEF IInv, SlotsExact
  <1> HIDE DEF f, S, n, q
  <1>7. Len(q) <= n
    BY <1>1, <1>3, <1>5, <1>6, DistinctBound
  <1> QED  BY <1>1, <1>7 DEF n, q, queue_is_full

LEMMA InitIInv == Init => IInv
  <1> SUFFICES ASSUME Init PROVE IInv
    OBVIOUS
  <1>1. TypeOK
    BY DEF Init, TypeOK, Slots
  <1>2. Range(timer_allocator) = Slots
    <2>1. timer_allocator = [i \in 1 .. TIMERS_MAX |-> i - 1]
      BY DEF Init
    <2>2. \A id \in Slots : id + 1 \in 1 .. TIMERS_MAX /\ timer_allocator[id + 1] = id
      BY <2>1 DEF Slots
    <2>3. \A i \in 1 .. TIMERS_MAX : timer_allocator[i] \in Slots
      BY <2>1 DEF Slots
    <2> QED  BY <2>1, <2>2, <2>3 DEF Range
  <1>3. {id \in Slots : ~Registered(id)} = Slots
    BY DEF Init, Registered, FreeTimer
  <1>4. IsInjective(timer_allocator)
    BY DEF Init, IsInjective
  <1> QED  BY <1>1, <1>2, <1>3, <1>4 DEF IInv, SlotsExact

\* Registering takes the slot at the head out of the allocator.
LEMMA RegisterEffect ==
    ASSUME IInv, ~queue_is_empty(timer_allocator),
           NEW callback \in Callback, NEW interval \in Interval,
           NEW repeat \in Repeat,
           timer_callback_register(callback, interval, repeat)
    PROVE  /\ Head(timer_allocator) \in Slots
           /\ ~Registered(Head(timer_allocator))
           /\ timers' = [timers EXCEPT ![Head(timer_allocator)] =
                [callback |-> callback, interval |-> interval, repeat |-> repeat]]
           /\ timers' \in [Slots -> TimerType]
           /\ timer_allocator' \in Seq(Slots)
           /\ IsInjective(timer_allocator')
           /\ Range(timer_allocator') =
                Range(timer_allocator) \ {Head(timer_allocator)}
  <1> DEFINE h == Head(timer_allocator)
             new == [callback |-> callback, interval |-> interval,
                     repeat |-> repeat]
  <1>1. /\ timers' = [timers EXCEPT ![h] = new]
        /\ timer_allocator' = queue_out(timer_allocator)
    BY DEF timer_callback_register
  <1>2. /\ h \in Range(timer_allocator)
        /\ timer_allocator' \in Seq(Slots)
        /\ IsInjective(timer_allocator')
        /\ Range(timer_allocator') = Range(timer_allocator) \ {h}
    BY <1>1, QueueOutProperties DEF IInv, TypeOK, SlotsExact
  <1>3. h \in Slots /\ ~Registered(h)
    BY <1>2 DEF IInv, SlotsExact
  <1>4. new \in TimerType
    BY DEF TimerType
  <1> HIDE DEF new
  <1>5. timers' \in [Slots -> TimerType]
    BY <1>1, <1>3, <1>4 DEF IInv, TypeOK, TimerType
  <1> QED  BY <1>1, <1>2, <1>3, <1>5 DEF new

\* Unregistering puts the slot in it.
LEMMA UnregisterEffect ==
    ASSUME IInv, NEW id \in Slots, Registered(id), timer_callback_unregister(id)
    PROVE  /\ timers' = [timers EXCEPT ![id] = FreeTimer]
           /\ timers' \in [Slots -> TimerType]
           /\ timer_allocator' \in Seq(Slots)
           /\ IsInjective(timer_allocator')
           /\ Range(timer_allocator') = Range(timer_allocator) \cup {id}
  <1>1. /\ timers' = [timers EXCEPT ![id] = FreeTimer]
        /\ timer_allocator' = queue_in(timer_allocator, id)
    BY DEF timer_callback_unregister, Freed
  <1>2. /\ timer_allocator \in Seq(Slots) /\ IsInjective(timer_allocator)
        /\ id \notin Range(timer_allocator)
    BY DEF IInv, TypeOK, SlotsExact
  <1>3. /\ queue_in(timer_allocator, id) \in Seq(Slots)
        /\ Range(queue_in(timer_allocator, id)) = Range(timer_allocator) \cup {id}
        /\ IsInjective(queue_in(timer_allocator, id))
    BY <1>2, SlotRoom, QueueInProperties
  <1>4. timers' \in [Slots -> TimerType]
    BY <1>1 DEF IInv, TypeOK, TimerType
  <1> QED  BY <1>1, <1>3, <1>4

\* Counting a call leaves the timer registered, as it was but for its repeats.
LEMMA CountedEffect ==
    ASSUME IInv, NEW id \in Slots, Registered(id), ~Ends(id)
    PROVE  /\ Counted(id) \in TimerType
           /\ Counted(id).callback = timers[id].callback
           /\ Counted(id).interval = timers[id].interval
           /\ Counted(id).repeat = IF timers[id].repeat = -1 THEN -1
                                   ELSE timers[id].repeat - 1
           /\ timers[id].repeat \in (Nat \ {0}) \cup {-1}
           /\ timers[id] \in [callback : Callback, interval : Interval,
                              repeat : Nat \cup {-1}]
  <1>1. timers[id] \in [callback : Callback, interval : Interval,
                        repeat : Nat \cup {-1}]
    BY DEF IInv, TypeOK, Registered, FreeTimer
  <1> QED  BY <1>1 DEF Counted, Ends, TimerType

LEMMA StepIInv == IInv /\ [Next]_vars => IInv'
  <1> SUFFICES ASSUME IInv, [Next]_vars PROVE IInv'
    OBVIOUS
  <1>1. ASSUME NEW callback \in Callback, NEW interval \in Interval,
               NEW repeat \in Repeat,
               timer_callback_register(callback, interval, repeat)
        PROVE  IInv'
    <2>1. CASE queue_is_empty(timer_allocator)
      BY <1>1, <2>1 DEF timer_callback_register, IInv, TypeOK, SlotsExact, Registered
    <2>2. CASE ~queue_is_empty(timer_allocator)
      <3> DEFINE h == Head(timer_allocator)
      <3>1. /\ h \in Slots
            /\ timers' = [timers EXCEPT ![h] = [callback |-> callback,
                            interval |-> interval, repeat |-> repeat]]
            /\ timers' \in [Slots -> TimerType]
            /\ timer_allocator' \in Seq(Slots)
            /\ IsInjective(timer_allocator')
            /\ Range(timer_allocator') = Range(timer_allocator) \ {h}
        BY <1>1, <2>2, RegisterEffect
      <3> HIDE DEF h
      <3>2. {id \in Slots : ~Registered(id)'} =
              {id \in Slots : ~Registered(id)} \ {h}
        BY <3>1 DEF IInv, TypeOK, Registered
      <3>3. SlotsExact'
        BY <3>1, <3>2 DEF IInv, SlotsExact
      <3> QED  BY <1>1, <3>1, <3>3
               DEF timer_callback_register, IInv, TypeOK, TimerType
    <2> QED  BY <2>1, <2>2
  <1>2. ASSUME NEW id \in Slots, Registered(id), timer_callback_unregister(id)
        PROVE  SlotsExact' /\ timers' \in [Slots -> TimerType]
               /\ timer_allocator' \in Seq(Slots)
    <2>1. /\ timers' = [timers EXCEPT ![id] = FreeTimer]
          /\ timers' \in [Slots -> TimerType]
          /\ timer_allocator' \in Seq(Slots)
          /\ IsInjective(timer_allocator')
          /\ Range(timer_allocator') = Range(timer_allocator) \cup {id}
      BY <1>2, UnregisterEffect
    <2>2. {i \in Slots : ~Registered(i)'} = {i \in Slots : ~Registered(i)} \cup {id}
      BY <2>1 DEF IInv, TypeOK, Registered, FreeTimer
    <2> QED  BY <2>1, <2>2 DEF IInv, SlotsExact
  <1>3. ASSUME NEW id \in Slots, unregister(id)
        PROVE  IInv'
    BY <1>2, <1>3 DEF unregister, IInv, TypeOK, TimerType
  <1>4. CASE timer_irq
    <2>1. timer_ticks' \in 0 .. TICK_PERIOD - 1
      BY <1>4 DEF timer_irq, IInv, TypeOK
    <2> QED  BY <1>4, <2>1 DEF timer_irq, IInv, TypeOK, SlotsExact, Registered
  <1>5. CASE timer_irq_handler
    <2>1. slot \in Slots /\ slot' \in 0 .. TIMERS_MAX /\ timer_ticks' = timer_ticks
      BY <1>5 DEF timer_irq_handler, InHandler, Slots, IInv, TypeOK
    <2>2. CASE ~Due(slot)
      BY <1>5, <2>1, <2>2
         DEF timer_irq_handler, IInv, TypeOK, SlotsExact, Registered
    <2>3. CASE Due(slot)
      <3>1. /\ Registered(slot)
            /\ call' = timers[slot].callback
            /\ call' \in Callback
        BY <1>5, <2>1, <2>3
           DEF timer_irq_handler, Due, Registered, IInv, TypeOK, FreeTimer
      <3>2. CASE Ends(slot)
        BY <1>2, <1>5, <2>1, <2>3, <3>1, <3>2
           DEF timer_irq_handler, IInv, TypeOK, TimerType
      <3>3. CASE ~Ends(slot)
        <4>1. /\ timers' = [timers EXCEPT ![slot] = Counted(slot)]
              /\ timer_allocator' = timer_allocator
          BY <1>5, <2>3, <3>3 DEF timer_irq_handler
        <4>2. /\ Counted(slot) \in TimerType
              /\ Counted(slot).callback = timers[slot].callback
          BY <2>1, <3>1, <3>3, CountedEffect
        <4>3. timers' \in [Slots -> TimerType]
          BY <2>1, <4>1, <4>2 DEF IInv, TypeOK, TimerType
        <4>4. \A id \in Slots : timers'[id].callback = timers[id].callback
          BY <2>1, <4>1, <4>2 DEF IInv, TypeOK
        <4>5. SlotsExact'
          BY <4>1, <4>4 DEF IInv, SlotsExact, Registered
        <4> QED  BY <2>1, <3>1, <4>1, <4>3, <4>5 DEF IInv, TypeOK, TimerType
      <3> QED  BY <3>2, <3>3
    <2> QED  BY <2>2, <2>3
  <1>6. CASE UNCHANGED vars
    BY <1>6 DEF vars, IInv, TypeOK, SlotsExact, Registered
  <1> QED  BY <1>1, <1>3, <1>4, <1>5, <1>6 DEF Next

LEMMA IInvHolds == Spec => []IInv
  BY InitIInv, StepIInv, PTL DEF Spec

\* The types of the tables: in particular no number of calls turns a timer that
\* is to end into one that repeats for ever.
THEOREM TypeCorrect == Spec => []TypeOK
  <1>1. IInv => TypeOK
    BY DEF IInv
  <1> QED  BY IInvHolds, <1>1, PTL

\* No slot of the table is ever lost, nor given to two timers.
THEOREM SlotsCorrect == Spec => []SlotsExact
  <1>1. IInv => SlotsExact
    BY DEF IInv
  <1> QED  BY IInvHolds, <1>1, PTL

-----------------------------------------------------------------------------
\* Refinement of TimerService.

active == [id \in {i \in Slots : Registered(i)} |->
             [func  |-> timers[id].callback,
              every |-> timers[id].interval,
              left  |-> IF timers[id].repeat = -1 THEN -1
                        ELSE timers[id].repeat + 1]]

due == {id \in slot .. TIMERS_MAX - 1 : Due(id)}

\* A step that calls nothing and leaves the tables and the due timers alone.
LEMMA QuietStep ==
    ASSUME call' = NoCallback, UNCHANGED <<timers, timer_ticks>>, due' = due
    PROVE  Service!Return
  <1>1. active' = active
    BY DEF active, Registered
  <1> QED  BY <1>1 DEF Service!Return, active, due

LEMMA NothingDue == slot = TIMERS_MAX => due = {}
  BY DEF due

LEMMA InitIsService == Init => Service!Init
  <1> SUFFICES ASSUME Init PROVE Service!Init
    OBVIOUS
  <1>1. {i \in Slots : Registered(i)} = {}
    BY DEF Init, Registered, FreeTimer
  <1>2. active = [id \in {} |-> NoCallback]
    BY <1>1 DEF active
  <1>3. due = {}
    BY NothingDue DEF Init
  <1> QED  BY <1>2, <1>3 DEF Service!Init, active, due, Init

\* The end of a timer, in the eyes of the service.
LEMMA UnregisteredActive ==
    ASSUME IInv, NEW id \in Slots, timers' = [timers EXCEPT ![id] = FreeTimer]
    PROVE  active' = Service!Restrict(active, DOMAIN active \ {id})
  <1>1. /\ timers'[id] = FreeTimer
        /\ \A i \in Slots \ {id} : timers'[i] = timers[i]
    BY DEF IInv, TypeOK
  <1>2. {i \in Slots : Registered(i)'} = {i \in Slots : Registered(i)} \ {id}
    BY <1>1 DEF Registered, FreeTimer
  <1>3. \A i \in {j \in Slots : Registered(j)} \ {id} : timers'[i] = timers[i]
    BY <1>1
  <1> QED  BY <1>2, <1>3 DEF active, Service!Restrict

LEMMA StepIsService == IInv /\ [Next]_vars => [Service!Next]_Service!vars
  <1> SUFFICES ASSUME IInv, [Next]_vars PROVE [Service!Next]_Service!vars
    OBVIOUS
  <1>1. ASSUME NEW callback \in Callback, NEW interval \in Interval,
               NEW repeat \in Repeat,
               timer_callback_register(callback, interval, repeat)
        PROVE  Service!Next
    <2>1. /\ slot = TIMERS_MAX /\ slot' = slot /\ call' = NoCallback
          /\ timer_ticks' = timer_ticks
      BY <1>1 DEF timer_callback_register, InHandler
    <2>2. due = {} /\ due' = {}
      BY <2>1, NothingDue DEF due
    <2>3. CASE queue_is_empty(timer_allocator)
      BY <1>1, <2>1, <2>2, <2>3, QuietStep DEF timer_callback_register, Service!Next
    <2>4. CASE ~queue_is_empty(timer_allocator)
      <3> DEFINE h == Head(timer_allocator)
                 new == [callback |-> callback, interval |-> interval,
                         repeat |-> repeat]
                 r == [func |-> callback, every |-> interval,
                       left |-> IF repeat = -1 THEN -1 ELSE repeat + 1]
      <3>1. /\ h \in Slots /\ ~Registered(h)
            /\ timers' = [timers EXCEPT ![h] = new]
        BY <1>1, <2>4, RegisterEffect
      <3> HIDE DEF h
      <3>2. /\ timers'[h] = new
            /\ \A i \in Slots \ {h} : timers'[i] = timers[i]
        BY <3>1 DEF IInv, TypeOK
      <3>3. {i \in Slots : Registered(i)'} = {i \in Slots : Registered(i)} \cup {h}
        BY <3>1, <3>2 DEF Registered
      <3>4. h \notin DOMAIN active /\ DOMAIN active = {i \in Slots : Registered(i)}
        BY <3>1 DEF active
      <3>5. active' = [i \in DOMAIN active \cup {h} |->
                         IF i # h THEN active[i] ELSE r]
        BY <3>1, <3>2, <3>3, <3>4 DEF active
      <3> HIDE DEF r, new
      <3>6. \E id \in Slots \ DOMAIN active, f \in Callback, n \in Interval,
               t \in Repeat :
               active' = [i \in DOMAIN active \cup {id} |->
                            IF i # id THEN active[i]
                            ELSE [func |-> f, every |-> n,
                                  left |-> IF t = -1 THEN -1 ELSE t + 1]]
        BY <3>1, <3>4, <3>5 DEF r
      <3>7. Service!Register
        BY <2>1, <2>2, <3>6
           DEF Service!Register, Service!Quiet, Service!Forever, active, due
      <3> QED  BY <3>7 DEF Service!Next
    <2> QED  BY <2>3, <2>4
  <1>2. ASSUME NEW id \in Slots, unregister(id)
        PROVE  Service!Next
    <2>1. /\ slot = TIMERS_MAX /\ slot' = slot /\ call' = NoCallback
          /\ timer_ticks' = timer_ticks
          /\ Registered(id)
          /\ timers' = [timers EXCEPT ![id] = FreeTimer]
      BY <1>2 DEF unregister, InHandler, timer_callback_unregister
    <2>2. due = {} /\ due' = {}
      BY <2>1, NothingDue DEF due
    <2>3. active' = Service!Restrict(active, DOMAIN active \ {id}) /\ id \in DOMAIN active
      BY <2>1, UnregisteredActive DEF active
    <2>4. Service!Unregister
      BY <2>1, <2>2, <2>3 DEF Service!Unregister, Service!Quiet, active, due
    <2> QED  BY <2>4 DEF Service!Next
  <1>3. CASE timer_irq
    <2>1. /\ slot = TIMERS_MAX /\ slot' = 0 /\ call' = NoCallback
          /\ timer_ticks' = (timer_ticks + 1) % TICK_PERIOD
          /\ timers' = timers
      BY <1>3 DEF timer_irq, InHandler
    <2>2. due = {} /\ active' = active
      BY <2>1, NothingDue DEF active, Registered
    <2>3. due' = {id \in DOMAIN active : timer_ticks' % active[id].every = 0}
      BY <2>1 DEF due, Due, Registered, active, Slots
    <2>4. Service!Tick
      BY <2>1, <2>2, <2>3 DEF Service!Tick, Service!Quiet, active, due
    <2> QED  BY <2>4 DEF Service!Next
  <1>4. CASE timer_irq_handler
    <2>1. /\ slot \in Slots /\ slot' = slot + 1 /\ timer_ticks' = timer_ticks
          /\ slot \in 0 .. TIMERS_MAX - 1
      BY <1>4 DEF timer_irq_handler, InHandler, Slots, IInv, TypeOK
    <2> PICK s \in Slots : s = slot
      BY <2>1
    <2>2. CASE ~Due(slot)
      <3>1. call' = NoCallback /\ timers' = timers
        BY <1>4, <2>2 DEF timer_irq_handler
      <3>2. due' = due
        BY <2>1, <2>2, <3>1 DEF due, Due, Registered
      <3> QED  BY <2>1, <3>1, <3>2, QuietStep DEF Service!Next
    <2>3. CASE Due(slot)
      <3>1. /\ Registered(slot) /\ slot \in DOMAIN active /\ slot \in due
            /\ call' = timers[slot].callback
            /\ active[slot].func = timers[slot].callback
            /\ active[slot].left = IF timers[slot].repeat = -1 THEN -1
                                   ELSE timers[slot].repeat + 1
        BY <1>4, <2>1, <2>3 DEF timer_irq_handler, Due, active, due
      <3>2. ASSUME \A i \in Slots \ {slot} : timers'[i] = timers[i]
            PROVE  due' = due \ {slot}
        BY <2>1, <3>2 DEF due, Due, Registered, Slots
      <3>3. CASE Ends(slot)
        <4>1. timers' = [timers EXCEPT ![slot] = FreeTimer]
          BY <1>4, <2>3, <3>3 DEF timer_irq_handler, timer_callback_unregister
        <4>2. active' = Service!Restrict(active, DOMAIN active \ {slot})
          BY <2>1, <4>1, UnregisteredActive
        <4>3. due' = due \ {slot}
          BY <3>2, <4>1 DEF IInv, TypeOK
        <4>4. active[slot].left = 1
          BY <3>1, <3>3 DEF Ends
        <4>5. Service!Call(s)
          BY <2>1, <3>1, <4>2, <4>3, <4>4 DEF Service!Call, active, due
        <4> QED  BY <4>5 DEF Service!Next
      <3>4. CASE ~Ends(slot)
        <4> DEFINE c == Counted(slot)
                   a == active[slot].left
        <4>1. timers' = [timers EXCEPT ![slot] = c]
          BY <1>4, <2>3, <3>4 DEF timer_irq_handler
        <4>2. /\ c.callback = timers[slot].callback
              /\ c.interval = timers[slot].interval
              /\ c.repeat = IF timers[slot].repeat = -1 THEN -1
                            ELSE timers[slot].repeat - 1
              /\ timers[slot].repeat \in (Nat \ {0}) \cup {-1}
          BY <2>1, <3>1, <3>4, CountedEffect
        <4> HIDE DEF c
        <4>3. timers'[slot] = c /\ \A i \in Slots \ {slot} : timers'[i] = timers[i]
          BY <2>1, <4>1 DEF IInv, TypeOK
        <4>4. due' = due \ {slot}
          BY <3>2, <4>3
        <4>5. {i \in Slots : Registered(i)'} = {i \in Slots : Registered(i)}
          BY <4>2, <4>3 DEF Registered
        <4>6. CASE timers[slot].repeat = -1
          <5>1. \A i \in Slots : /\ timers'[i].callback = timers[i].callback
                                 /\ timers'[i].interval = timers[i].interval
                                 /\ timers'[i].repeat = timers[i].repeat
            BY <4>2, <4>3, <4>6
          <5>2. active' = active /\ a = -1
            BY <3>1, <4>5, <4>6, <5>1 DEF active
          <5>3. Service!Call(s)
            BY <2>1, <3>1, <4>4, <5>2 DEF Service!Call, Service!Forever, active, due
          <5> QED  BY <5>3 DEF Service!Next
        <4>7. CASE timers[slot].repeat # -1
          <5>1. a = timers[slot].repeat + 1 /\ a > 1 /\ c.repeat + 1 = a - 1
                /\ c.repeat # -1
            BY <3>1, <4>2, <4>7
          <5> DEFINE r == [func |-> timers[slot].callback,
                           every |-> timers[slot].interval, left |-> a - 1]
          <5>2. active' = [active EXCEPT ![slot] = r]
            <6>1. active'[slot] = r
              BY <2>1, <3>1, <4>2, <4>3, <4>5, <5>1 DEF active
            <6>2. \A i \in DOMAIN active \ {slot} : active'[i] = active[i]
              BY <4>3, <4>5 DEF active
            <6>3. DOMAIN active' = DOMAIN active
              BY <4>5 DEF active
            <6>4. /\ active = [i \in DOMAIN active |-> active[i]]
                  /\ active' = [i \in DOMAIN active' |-> active'[i]]
              BY DEF active
            <6> HIDE DEF r
            <6> QED  BY <3>1, <6>1, <6>2, <6>3, <6>4
          <5>4. [active[slot] EXCEPT !.left = a - 1] = r
            BY <3>1 DEF active
          <5> HIDE DEF r
          <5>5. active' = [active EXCEPT ![slot].left = a - 1]
            BY <5>2, <5>4
          <5>3. Service!Call(s)
            BY <2>1, <3>1, <4>4, <5>1, <5>5 DEF Service!Call, active, due
          <5> QED  BY <5>3 DEF Service!Next
        <4> QED  BY <4>6, <4>7
      <3> QED  BY <3>3, <3>4
    <2> QED  BY <2>2, <2>3
  <1>5. CASE UNCHANGED vars
    BY <1>5 DEF vars, Service!vars, Registered, Due
  <1> QED  BY <1>1, <1>2, <1>3, <1>4, <1>5 DEF Next

\* timer.c calls what is registered when and as often as was asked: its table,
\* walked slot by slot, implements the service of TimerService.
THEOREM Refinement == Spec => IsTimerService
  BY IInvHolds, InitIsService, StepIsService, PTL
     DEF Spec, IsTimerService, Service!Spec

=============================================================================
