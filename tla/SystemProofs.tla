---------------------------- MODULE SystemProofs ----------------------------
(***************************************************************************)
(* The composed system, for every size of its tables: below and inside the *)
(* kernel, the controller and the timer table do nothing that Kernel does  *)
(* not allow, so that every theorem of KernelProofs holds of the system;   *)
(* and the kernel, the controller and the table agree at every step.       *)
(*                                                                         *)
(* The controller's own invariants come from InterruptsProofs, once each   *)
(* step of the system is shown to be one of Interrupts.                    *)
(***************************************************************************)
EXTENDS System, KernelProofs

PicProofs == INSTANCE InterruptsProofs WITH
        Device  <- {IRQ_TIMER, IRQ_KEYBOARD},
        Driver  <- {IRQ_TIMER, IRQ_KEYBOARD},
        MASKED  <- (0 .. 15) \ {2},
        CHANGES <- FALSE,
        mode    <- dispatch

TableProofs == INSTANCE TimerProofs WITH
        Callback   <- Callbacks,
        Interval   <- {1, SPINNER, UPTIME},
        Repeat     <- {-1},
        NoCallback <- "none"

-----------------------------------------------------------------------------
\* Every step of the system is a step of the kernel, or none.

LEMMA KernelStep == [SysNext]_sysVars => [Next]_vars
  <1> SUFFICES ASSUME [SysNext]_sysVars PROVE [Next]_vars
    OBVIOUS
  <1>1. CASE boot
    BY <1>1 DEF boot, Next
  <1>2. ASSUME NEW irq \in Irqs, request(irq) \/ enter(irq)
        PROVE  [Next]_vars
    BY <1>2 DEF request, enter, Next
  <1>3. CASE walk
    BY <1>3 DEF walk, Next
  <1>4. CASE key
    <2>1. keyboard_irq_handler
      BY <1>4 DEF key, keyboard_irq_handler, kprocVars
    <2> QED  BY <2>1 DEF Next
  <1>5. CASE run_scheduler
    BY <1>5 DEF run_scheduler, Next
  <1>6. CASE resume
    BY <1>6 DEF resume, Next
  <1>7. CASE main_driver \/ main_timer \/ dismiss \/ UNCHANGED sysVars
    BY <1>7 DEF main_driver, main_timer, dismiss, sysVars
  <1> QED  BY <1>1, <1>2, <1>3, <1>4, <1>5, <1>6, <1>7 DEF SysNext

LEMMA SysSafety == SysSpec => SysInit /\ [][SysNext]_sysVars
  BY PTL DEF SysSpec

\* The kernel between its interrupt controller and its timer table behaves as
\* Kernel allows.
THEOREM ImplementsKernel == SysSpec => Spec
  <1>1. SysInit => Init
    BY DEF SysInit
  <1> QED  BY <1>1, KernelStep, SysSafety, PTL DEF Spec

\* So the whole system, its interrupts and its timers, resumes processes in their
\* own contexts only, keeps its tables consistent and never panics.
THEOREM SystemSafe ==
    SysSpec => [](/\ AllocatorExact /\ PidsExact /\ RunQueueExact /\ CurrentExact
                  /\ ContextIntegrity /\ SliceBound /\ NeverPanics)
  BY ImplementsKernel, AllocatorCorrect, PidsCorrect, RunQueueCorrect, CurrentCorrect,
     ContextCorrect, SliceCorrect, PanicFree, PTL

\* It gives its processes the CPU in turn, as RoundRobin says, after no more timer
\* interrupts than the slices before each can have; and where only the running
\* process is destroyed, nobody loses a turn.
THEOREM SystemFair ==
    SysSpec => IsRoundRobin /\ []WaitBounded /\ NoLostTurn
  BY ImplementsKernel, Refinement, WaitCorrect, NoTurnLost, PTL

-----------------------------------------------------------------------------
\* What the log says is so.

\* The level that the last announcement named is in force, unless nothing is
\* logged, for whatever sequence of the two commands and their limits.
THEOREM AnnouncedCorrect == SysSpec => []LevelAnnounced
  <1> USE DEF NONE, ERROR, TRACE, ALL, None
  <1>1. SysInit => LevelAnnounced
    BY DEF SysInit, LogInit, LevelAnnounced
  <1>2. ASSUME LevelAnnounced, lower \/ raise
        PROVE  LevelAnnounced'
    BY <1>2 DEF LevelAnnounced, lower, raise, Moved, Clamped, Announcement, Printed
  <1>3. ASSUME LevelAnnounced, UNCHANGED logVars
        PROVE  LevelAnnounced'
    BY <1>3 DEF LevelAnnounced, logVars
  <1>4. [SysNext]_sysVars => (lower \/ raise) \/ UNCHANGED logVars
    BY DEF SysNext, sysVars, main_driver, main_timer, boot, request, enter, walk,
           key, dismiss, run_scheduler, resume, kernel_log_command
  <1>5. LevelAnnounced /\ [SysNext]_sysVars => LevelAnnounced'
    BY <1>2, <1>3, <1>4
  <1> QED  BY <1>1, <1>5, SysSafety, PTL

-----------------------------------------------------------------------------
\* The machine state: where the kernel is, what is in service, and how far the
\* table has been walked.

\* main registers the drivers and the timers before it waits for a key, the
\* scheduler's callback first: it gets the first slot, and keeps it.
Registration == [callback : Callbacks, interval : {1, SPINNER, UPTIME}]

Registering ==
    /\ calls.drivers \in {Drivers, <<IRQ_KEYBOARD>>, <<>>}
    /\ calls.timers \in Seq(Registration)
    /\ Len(calls.timers) <= 4
    /\ Len(calls.timers) = 4 => calls.timers = Timers
    /\ mode # "boot" => calls.timers = <<>>

OneTimer == [callback : Callbacks, interval : Nat, repeat : {-1}]

FirstSlot ==
    /\ timers \in [Table!Slots -> OneTimer \cup {Table!FreeTimer}]
    /\ \/ /\ Len(calls.timers) = 4
          /\ timer_allocator = [i \in 1 .. TIMERS_MAX |-> i - 1]
       \/ /\ Len(calls.timers) # 4
          /\ timers[0] = [callback |-> "scheduler_timer", interval |-> 1, repeat |-> -1]
          /\ timer_allocator \in Seq(Table!Slots \ {0})

Walking ==
    /\ slot \in 0 .. TIMERS_MAX /\ timer_ticks \in Nat
    /\ slot # TIMERS_MAX => dispatch = "handler" /\ handling = IRQ_TIMER

Stages ==
    /\ dispatch = "boot" => mode \in {"boot", "schedule", "exit"} \/ Halted
    /\ dispatch = "process" => mode = "process"
    /\ dispatch = "exit" => mode \in {"schedule", "exit", "panic"}
    /\ dispatch = "handler" =>
          \/ handling = IRQ_TIMER /\ mode = "timer" /\ slot = 0
          \/ handling = IRQ_TIMER /\ mode = "schedule"
          \/ handling = IRQ_KEYBOARD
               /\ mode \in {"keyboard", "schedule", "exited", "undefined"}

Lockstep == Registering /\ FirstSlot /\ Walking /\ Stages

\* In a module proved about twice, the controller's operators have two names.

LEMMA PicAssumption == PicProofs!InterruptsAssumption
  BY DEF PicProofs!InterruptsAssumption, PicProofs!Lines, PicProofs!CASCADE,
         IRQ_TIMER, IRQ_KEYBOARD

LEMMA SameRequest ==
    ASSUME NEW irq, Pic!request(irq)
    PROVE  PicProofs!request(irq)
  BY DEF Pic!request, PicProofs!request, Pic!Pic, PicProofs!Pic, Pic!Bit,
         PicProofs!Bit, Pic!Bits, PicProofs!Bits

LEMMA SameInterrupt == Pic!interrupt => PicProofs!interrupt
  <1>1. Pic!Delivered = PicProofs!Delivered /\ Pic!First = PicProofs!First
    BY DEF Pic!Delivered, PicProofs!Delivered, Pic!First, PicProofs!First,
           Pic!Second, PicProofs!Second, Pic!Passing, PicProofs!Passing,
           Pic!CASCADE, PicProofs!CASCADE, Pic!Min, PicProofs!Min
  <1>2. \A irq : /\ Pic!Pic(irq) = PicProofs!Pic(irq)
                 /\ Pic!Bit(irq) = PicProofs!Bit(irq)
    BY DEF Pic!Pic, PicProofs!Pic, Pic!Bit, PicProofs!Bit, Pic!Bits, PicProofs!Bits
  <1>3. \A irq, p : Pic!InService(irq, p) = PicProofs!InService(irq, p)
    BY <1>2 DEF Pic!InService, PicProofs!InService, Pic!CASCADE, PicProofs!CASCADE
  <1> QED  BY <1>1, <1>2, <1>3 DEF Pic!interrupt, PicProofs!interrupt

LEMMA SameRegister ==
    ASSUME NEW irq, Pic!interrupts_irq_register(irq)
    PROVE  PicProofs!interrupts_irq_register(irq)
  BY DEF Pic!interrupts_irq_register, PicProofs!interrupts_irq_register,
         Pic!pic_irq_enable, PicProofs!pic_irq_enable,
         Pic!pic_irq_enabled, PicProofs!pic_irq_enabled,
         Pic!Unmasked, PicProofs!Unmasked, Pic!Written, PicProofs!Written,
         Pic!Lines, PicProofs!Lines, Pic!Pic, PicProofs!Pic, Pic!Bits, PicProofs!Bits

LEMMA SameHandler == Pic!interrupts_irq_handler => PicProofs!interrupts_irq_handler
  BY DEF Pic!interrupts_irq_handler, PicProofs!interrupts_irq_handler,
         Pic!pic_irq_dismiss, PicProofs!pic_irq_dismiss,
         Pic!Dismissed, PicProofs!Dismissed, Pic!AfterEoi, PicProofs!AfterEoi,
         Pic!Controllers, PicProofs!Controllers, Pic!Lines, PicProofs!Lines,
         Pic!Pic, PicProofs!Pic, Pic!Bits, PicProofs!Bits, Pic!Min, PicProofs!Min

LEMMA SameReturn ==
    /\ Pic!return => PicProofs!return
    /\ Pic!first_process => PicProofs!first_process
  BY DEF Pic!return, PicProofs!return, Pic!first_process, PicProofs!first_process,
         Pic!None, PicProofs!None

LEMMA SameInit == Pic!Init => PicProofs!Init
  BY DEF Pic!Init, PicProofs!Init, Pic!Pic, PicProofs!Pic, Pic!Bits, PicProofs!Bits,
         Pic!Bit, PicProofs!Bit, Pic!None, PicProofs!None

\* So every step of the system is one of Interrupts.
LEMMA PicStep ==
    ASSUME Registering, [SysNext]_sysVars
    PROVE  [PicProofs!Next]_(PicProofs!vars)
  <1>1. CASE main_driver
    <2>1. Head(calls.drivers) \in {IRQ_TIMER, IRQ_KEYBOARD}
      BY <1>1 DEF main_driver, Registering, Drivers
    <2> QED  BY <1>1, <2>1, SameRegister DEF main_driver, PicProofs!Next
  <1>2. ASSUME NEW irq \in Irqs, request(irq)
        PROVE  [PicProofs!Next]_(PicProofs!vars)
    <2>1. Line(irq) \in {IRQ_TIMER, IRQ_KEYBOARD}
      BY DEF Line
    <2> QED  BY <1>2, <2>1, SameRequest DEF request, PicProofs!Next
  <1>3. ASSUME NEW irq \in Irqs, enter(irq)
        PROVE  [PicProofs!Next]_(PicProofs!vars)
    BY <1>3, SameInterrupt DEF enter, PicProofs!Next
  <1>4. CASE dismiss
    BY <1>4, SameHandler DEF dismiss, PicProofs!Next
  <1>5. CASE resume
    BY <1>5, SameReturn DEF resume, PicProofs!Next
  <1>6. CASE main_timer \/ boot \/ walk \/ key \/ run_scheduler \/ UNCHANGED sysVars
    BY <1>6 DEF main_timer, boot, walk, key, run_scheduler, sysVars, picVars,
                PicProofs!vars
  <1> QED  BY <1>1, <1>2, <1>3, <1>4, <1>5, <1>6 DEF SysNext

-----------------------------------------------------------------------------

LEMMA SlotsAre == Table!Slots = 0 .. TIMERS_MAX - 1 /\ 0 \in Table!Slots
  BY SystemAssumption DEF Table!Slots

LEMMA FourTimers ==
    /\ Timers \in Seq(Registration)
    /\ Len(Timers) = 4
    /\ Head(Timers) = [callback |-> "scheduler_timer", interval |-> 1]
  BY SystemAssumption DEF Timers, Callbacks, Registration

\* What is left to register when one more timer is.
LEMMA NextTimer ==
    ASSUME NEW S, NEW q \in Seq(S), q # <<>>, Len(q) <= 4
    PROVE  /\ Head(q) \in S /\ Tail(q) \in Seq(S)
           /\ Len(Tail(q)) <= 4 /\ Len(Tail(q)) # 4
  <1>1. Head(q) \in S /\ Tail(q) \in Seq(S) /\ Len(Tail(q)) = Len(q) - 1
    BY HeadTailProperties, Zenon
  <1>2. Len(q) \in Nat
    BY LenProperties, Zenon
  <1>3. ASSUME NEW n \in Nat, n <= 4
        PROVE  n - 1 <= 4 /\ n - 1 # 4
    BY <1>3
  <1> QED  BY <1>1, <1>2, <1>3, Zenon

LEMMA InitLockstep == SysInit => Lockstep
  <1> SUFFICES ASSUME SysInit PROVE Lockstep
    OBVIOUS
  <1>1. Registering
    <2>1. calls.drivers = Drivers /\ calls.timers = Timers /\ mode = "boot"
      BY DEF SysInit, Init
    <2> QED  BY <2>1, FourTimers DEF Registering
  <1>2. FirstSlot
    BY FourTimers DEF SysInit, FirstSlot, Table!Init
  <1>3. Walking
    BY SystemAssumption DEF SysInit, Walking, Table!Init
  <1>4. Stages
    BY DEF SysInit, Stages, Init, Pic!Init
  <1> QED  BY <1>1, <1>2, <1>3, <1>4 DEF Lockstep

\* A registration: the first takes the first slot, and no other does.
LEMMA RegisterStep == Lockstep /\ main_timer => Lockstep'
  <1> SUFFICES ASSUME Lockstep, main_timer PROVE Lockstep'
    OBVIOUS
  <1> DEFINE timer == Head(calls.timers)
             new == [callback |-> timer.callback, interval |-> timer.interval,
                     repeat |-> -1]
             first == Head(timer_allocator)
  <1>1. /\ calls.timers # <<>> /\ calls.drivers = <<>> /\ mode = "boot"
        /\ UNCHANGED <<vars, picVars, timer_ticks, slot>>
        /\ calls'.timers = Tail(calls.timers) /\ calls'.drivers = calls.drivers
    BY DEF main_timer, Lockstep, Registering, Table!timer_callback_register
  <1>2. /\ timer \in Registration
        /\ calls'.timers \in Seq(Registration)
        /\ Len(calls'.timers) <= 4 /\ Len(calls'.timers) # 4
    <2>1. calls.timers \in Seq(Registration)
          /\ Len(calls.timers) <= 4
      BY DEF Lockstep, Registering
    <2>2. /\ Head(calls.timers) \in Registration
          /\ Tail(calls.timers) \in Seq(Registration)
          /\ Len(Tail(calls.timers)) <= 4 /\ Len(Tail(calls.timers)) # 4
      BY <1>1, <2>1, NextTimer, Zenon
    <2> QED  BY <1>1, <2>2
  <1>3. Registering'
    <2>1. mode' = "boot" /\ calls'.drivers = <<>>
      BY <1>1 DEF vars
    <2> HIDE DEF timer, new, first
    <2> QED  BY <1>2, <2>1 DEF Registering
  <1>4. new \in OneTimer
    BY <1>2, SystemAssumption DEF OneTimer, Registration
  <1>5. \/ timer_allocator = <<>> /\ UNCHANGED <<timers, timer_allocator>>
        \/ /\ timer_allocator # <<>>
           /\ timers' = [timers EXCEPT ![first] = new]
           /\ timer_allocator' = Tail(timer_allocator)
    BY DEF main_timer, Table!timer_callback_register, Table!queue_is_empty,
           Table!queue_out
  <1> HIDE DEF timer, new, first
  <1>6. FirstSlot'
    <2>1. CASE Len(calls.timers) = 4
      <3>1. timer_allocator = [i \in 1 .. TIMERS_MAX |-> i - 1]
        BY <2>1 DEF Lockstep, FirstSlot
      <3>2. first = 0 /\ timer_allocator # <<>>
            /\ Tail(timer_allocator) \in Seq(Table!Slots \ {0})
        <4> DEFINE rest == [i \in 1 .. TIMERS_MAX - 1 |-> i]
        <4>1. /\ TIMERS_MAX \in Nat \ {0} /\ TIMERS_MAX - 1 \in Nat
              /\ \A i \in 1 .. TIMERS_MAX - 1 : i \in Table!Slots \ {0}
          BY SystemAssumption, SlotsAre
        <4>2. Tail(timer_allocator) = rest /\ first = 0 /\ timer_allocator # <<>>
          BY <3>1, <4>1 DEF first
        <4>3. rest \in Seq(Table!Slots \ {0})
          BY <4>1, IsASeq
        <4> QED  BY <4>2, <4>3
      <3>3. new = [callback |-> "scheduler_timer", interval |-> 1, repeat |-> -1]
        BY <2>1, FourTimers DEF Lockstep, Registering, new, timer
      <3> QED  BY <1>2, <1>4, <1>5, <3>2, <3>3, SlotsAre DEF Lockstep, FirstSlot
    <2>2. CASE Len(calls.timers) # 4
      <3>1. timer_allocator \in Seq(Table!Slots \ {0})
        BY <2>2 DEF Lockstep, FirstSlot
      <3>2. timer_allocator # <<>> =>
              /\ first \in Table!Slots \ {0}
              /\ Tail(timer_allocator) \in Seq(Table!Slots \ {0})
        BY <3>1, HeadTailProperties, Zenon DEF first
      <3> QED  BY <1>2, <1>4, <1>5, <2>2, <3>1, <3>2, SlotsAre DEF Lockstep, FirstSlot
    <2> QED  BY <2>1, <2>2 DEF Lockstep, Registering
  <1>7. Walking' /\ Stages'
    BY <1>1 DEF Lockstep, Walking, Stages, vars, picVars, Halted
  <1> QED  BY <1>3, <1>6, <1>7 DEF Lockstep

\* An interrupt begins: the timer's with the first slot of the table.
LEMMA BeginInterrupt ==
    ASSUME NEW irq \in Irqs
    PROVE  Lockstep /\ enter(irq) => Lockstep'
  <1> SUFFICES ASSUME Lockstep, enter(irq) PROVE Lockstep'
    OBVIOUS
  <1>1. /\ mode = "process" /\ mode' = irq /\ irq \in {"timer", "keyboard"}
        /\ dispatch = "process" /\ dispatch' = "handler" /\ handling' = Line(irq)
        /\ UNCHANGED <<calls, timers, timer_allocator>>
    BY DEF enter, kernel_context_enter, Pic!interrupt, Irqs, timerVars, Table!timer_irq
  <1>2. Registering' /\ FirstSlot'
    BY <1>1 DEF Lockstep, Registering, FirstSlot
  <1>3. Walking'
    <2>1. CASE irq = "timer"
      <3>1. slot' = 0 /\ timer_ticks' = (timer_ticks + 1) % TICK_PERIOD
        BY <2>1 DEF enter, Table!timer_irq
      <3>2. timer_ticks \in Nat /\ TICK_PERIOD \in Nat \ {0} /\ TIMERS_MAX \in Nat
        BY SystemAssumption DEF Lockstep, Walking
      <3> QED  BY <1>1, <2>1, <3>1, <3>2 DEF Walking, Line
    <2>2. CASE irq = "keyboard"
      <3>1. slot = TIMERS_MAX /\ UNCHANGED <<slot, timer_ticks>>
        BY <1>1, <2>2 DEF Lockstep, Walking, enter, timerVars
      <3> QED  BY <3>1 DEF Lockstep, Walking
    <2> QED  BY <1>1, <2>1, <2>2
  <1>4. Stages'
    <2>1. irq = "timer" => slot' = 0
      BY DEF enter, Table!timer_irq
    <2> QED  BY <1>1, <2>1 DEF Stages, Line
  <1> QED  BY <1>2, <1>3, <1>4 DEF Lockstep

\* The first slot holds the scheduler's callback, due at every tick: by the
\* second slot the tick is charged.
LEMMA WalkStep == Lockstep /\ walk => Lockstep'
  <1> SUFFICES ASSUME Lockstep, walk PROVE Lockstep'
    OBVIOUS
  <1>1. /\ dispatch = "handler" /\ handling = IRQ_TIMER
        /\ UNCHANGED <<dispatch, handling, calls, timer_ticks>>
        /\ slot # TIMERS_MAX /\ slot' = slot + 1
        /\ mode \in {"timer", "schedule"} /\ (mode = "timer" => slot = 0)
    BY DEF walk, picVars, Table!timer_irq_handler, Table!InHandler,
           Lockstep, Stages, IRQ_TIMER, IRQ_KEYBOARD
  <1>2. slot \in Table!Slots /\ slot' \in 1 .. TIMERS_MAX /\ TIMERS_MAX \in Nat
    BY <1>1, SlotsAre, SystemAssumption DEF Lockstep, Walking
  <1>3. calls.timers = <<>> /\ Len(calls.timers) # 4
    <2>1. calls.timers = <<>>
      BY <1>1 DEF Lockstep, Registering
    <2> QED  BY <2>1
  <1>4. /\ timers[0] = [callback |-> "scheduler_timer", interval |-> 1, repeat |-> -1]
        /\ timers \in [Table!Slots -> OneTimer \cup {Table!FreeTimer}]
        /\ timer_allocator \in Seq(Table!Slots \ {0})
    BY <1>3 DEF Lockstep, FirstSlot
  <1>5. UNCHANGED <<timers, timer_allocator>>
    <2>1. CASE Table!Due(slot)
      <3>1. timers[slot].callback # "none" /\ timers[slot] \in OneTimer \cup {Table!FreeTimer}
        BY <1>2, <1>4, <2>1 DEF Table!Due, Table!Registered
      <3>2. timers[slot].repeat = -1
        BY <3>1 DEF OneTimer, Table!FreeTimer
      <3>3. ~Table!Ends(slot) /\ Table!Counted(slot) = timers[slot]
        BY <3>2 DEF Table!Ends, Table!Counted
      <3> QED  BY <1>2, <1>4, <2>1, <3>3 DEF walk, Table!timer_irq_handler
    <2>2. CASE ~Table!Due(slot)
      BY <2>2 DEF walk, Table!timer_irq_handler
    <2> QED  BY <2>1, <2>2
  <1>6. mode' = "schedule"
    <2>1. CASE call' = "scheduler_timer"
      BY <2>1 DEF walk, timer_irq_handler
    <2>2. CASE call' # "scheduler_timer"
      <3>1. slot # 0
        <4> SUFFICES ASSUME slot = 0 PROVE FALSE
          OBVIOUS
        <4>1. timer_ticks \in Nat
          BY DEF Lockstep, Walking
        <4>2. Table!Due(0)
          BY <1>4, <4>1 DEF Table!Due, Table!Registered
        <4> QED  BY <1>4, <2>2, <4>2 DEF walk, Table!timer_irq_handler
      <3>2. mode' = mode
        BY <2>2 DEF walk, vars
      <3> QED  BY <1>1, <3>1, <3>2
    <2> QED  BY <2>1, <2>2
  <1>7. Registering' /\ FirstSlot'
    BY <1>1, <1>3, <1>5 DEF Lockstep, Registering, FirstSlot
  <1>8. Walking'
    BY <1>1, <1>2 DEF Lockstep, Walking
  <1>9. Stages'
    BY <1>1, <1>6 DEF Stages
  <1> QED  BY <1>7, <1>8, <1>9 DEF Lockstep

LEMMA StepLockstep ==
    ASSUME Lockstep, PicProofs!IInv', [SysNext]_sysVars
    PROVE  Lockstep'
  <1>1. CASE main_driver
    <2>1. calls'.drivers \in {<<IRQ_KEYBOARD>>, <<>>}
      <3>1. /\ calls.drivers \in {Drivers, <<IRQ_KEYBOARD>>}
            /\ calls'.drivers = Tail(calls.drivers)
        BY <1>1 DEF main_driver, Lockstep, Registering
      <3>2. Tail(Drivers) = <<IRQ_KEYBOARD>> /\ Tail(<<IRQ_KEYBOARD>>) = <<>>
        BY DEF Drivers
      <3> QED  BY <3>1, <3>2
    <2>2. /\ calls'.timers = calls.timers
          /\ UNCHANGED <<mode, timers, timer_allocator, timer_ticks, slot, dispatch,
                         handling>>
      BY <1>1 DEF main_driver, vars, timerVars, Pic!interrupts_irq_register
    <2> QED  BY <2>1, <2>2 DEF Lockstep, Registering, FirstSlot, Walking, Stages, Halted
  <1>2. CASE main_timer
    BY <1>2, RegisterStep
  <1>3. CASE boot
    <2>1. /\ calls.timers = <<>> /\ UNCHANGED <<picVars, timerVars, calls>>
          /\ mode = "boot" /\ mode' \in {"boot", "schedule", "exited", "undefined"}
      BY <1>3 DEF boot, Initialised, boot_command, boot_key, kernel_debug_command, vars
    <2> QED  BY <2>1 DEF Lockstep, Registering, FirstSlot, Walking, Stages, Halted,
                         picVars, timerVars
  <1>4. ASSUME NEW irq \in Irqs, request(irq)
        PROVE  Lockstep'
    <2>1. UNCHANGED <<vars, timerVars, calls, dispatch, handling>>
      BY <1>4 DEF request, Pic!request
    <2> QED  BY <2>1 DEF Lockstep, Registering, FirstSlot, Walking, Stages, Halted,
                         vars, timerVars
  <1>5. ASSUME NEW irq \in Irqs, enter(irq)
        PROVE  Lockstep'
    BY <1>5, BeginInterrupt
  <1>6. CASE walk
    BY <1>6, WalkStep
  <1>7. CASE key
    <2>1. /\ mode = "keyboard" /\ mode' \in {"schedule", "exited", "undefined"}
          /\ UNCHANGED <<picVars, timerVars, calls>>
      BY <1>7 DEF key, keyboard_irq_handler, kernel_debug_command
    <2> QED  BY <2>1 DEF Lockstep, Registering, FirstSlot, Walking, Stages, Halted,
                         picVars, timerVars
  <1>8. CASE dismiss
    <2>1. /\ mode = "schedule" /\ slot = TIMERS_MAX
          /\ UNCHANGED <<vars, timerVars, calls, handling>>
          /\ dispatch' \in {"exit", "panic"}
      BY <1>8 DEF dismiss, Table!InHandler, Pic!interrupts_irq_handler
    <2>2. dispatch' = "exit"
      BY <2>1 DEF PicProofs!IInv
    <2> QED  BY <2>1, <2>2 DEF Lockstep, Registering, FirstSlot, Walking, Stages,
                         vars, timerVars
  <1>9. CASE run_scheduler
    <2>1. /\ mode = "schedule" /\ mode' \in {"exit", "panic"}
          /\ dispatch \in {"boot", "exit"}
          /\ UNCHANGED <<picVars, timerVars, calls>>
      BY <1>9 DEF run_scheduler, schedule
    <2> QED  BY <2>1 DEF Lockstep, Registering, FirstSlot, Walking, Stages, Halted,
                         picVars, timerVars
  <1>10. CASE resume
    <2>1. /\ mode = "exit" /\ mode' = "process"
          /\ dispatch \in {"boot", "exit"} /\ dispatch' = "process"
          /\ UNCHANGED <<timerVars, calls>>
      BY <1>10 DEF resume, kernel_context_exit, Pic!return, Pic!first_process
    <2>2. slot = TIMERS_MAX
      BY <2>1 DEF Lockstep, Walking
    <2> QED  BY <2>1, <2>2 DEF Lockstep, Registering, FirstSlot, Walking, Stages,
                         timerVars
  <1>11. CASE UNCHANGED sysVars
    BY <1>11 DEF sysVars, vars, picVars, timerVars, Lockstep, Registering, FirstSlot,
                 Walking, Stages, Halted
  <1> QED  BY <1>1, <1>2, <1>3, <1>4, <1>5, <1>6, <1>7, <1>8, <1>9, <1>10, <1>11
           DEF SysNext

\* From both invariants: a line is in service while its handler runs, the
\* timer's table is walked there alone, and the tick is charged once in it.
LEMMA LockstepMatches == Lockstep /\ PicProofs!IInv => KernelMatchesPic
  <1> SUFFICES ASSUME Lockstep, PicProofs!IInv PROVE KernelMatchesPic
    OBVIOUS
  <1> USE DEF IRQ_TIMER, IRQ_KEYBOARD
  <1>1. dispatch \in {"boot", "process", "handler", "exit"}
    BY DEF PicProofs!IInv, PicProofs!TypeOK
  <1>2. dispatch = "handler" => handling \in {0, 1}
    BY DEF PicProofs!IInv
  <1>3. /\ isr[2] = {}
        /\ isr[1] = IF dispatch = "handler" THEN {handling} ELSE {}
    <2>1. \A p \in {1, 2} :
            isr[p] = IF dispatch = "handler" THEN PicProofs!InService(handling, p)
                     ELSE {}
      BY DEF PicProofs!IInv, PicProofs!ServiceExact
    <2>2. ASSUME NEW n \in {0, 1}
          PROVE  PicProofs!InService(n, 1) = {n} /\ PicProofs!InService(n, 2) = {}
      BY DEF PicProofs!InService, PicProofs!Pic, PicProofs!Bit, PicProofs!Bits
    <2> QED  BY <1>2, <2>1, <2>2
  <1>4. mode \in {"exit", "process", "panic"} => dispatch # "handler"
    BY DEF Lockstep, Stages
  <1>5. /\ mode \in Irqs => dispatch = "handler" /\ handling = Line(mode)
        /\ mode = "timer" => slot = 0
    BY <1>1 DEF Lockstep, Stages, Irqs, Line, Halted
  <1>6. Table!InHandler => dispatch = "handler" /\ handling = IRQ_TIMER
    BY DEF Lockstep, Walking, Table!InHandler
  <1> QED  BY <1>3, <1>4, <1>5, <1>6 DEF KernelMatchesPic

LEMMA LockstepHolds == SysSpec => [](Lockstep /\ PicProofs!IInv)
  <1> DEFINE Inv == Lockstep /\ PicProofs!IInv
  <1>1. SysInit => Inv
    <2>1. SysInit => PicProofs!Init
      BY SameInit DEF SysInit
    <2> QED  BY <2>1, InitLockstep, PicAssumption, PicProofs!InitIInv
  <1>2. Inv /\ [SysNext]_sysVars => Inv'
    <2> SUFFICES ASSUME Inv, [SysNext]_sysVars PROVE Inv'
      OBVIOUS
    <2>1. PicProofs!IInv'
      <3>1. [PicProofs!Next]_(PicProofs!vars)
        BY PicStep DEF Lockstep
      <3> QED  BY <3>1, PicAssumption, PicProofs!StepIInv
    <2> QED  BY <2>1, StepLockstep
  <1> QED  BY <1>1, <1>2, SysSafety, PTL

\* The kernel, the controller and the timer table agree throughout, for every
\* size of the tables: what the kernel handles is what is in service, and each
\* timer interrupt charges its tick to the interrupted process once.
THEOREM MatchesCorrect == SysSpec => []KernelMatchesPic
  BY LockstepHolds, LockstepMatches, PTL

-----------------------------------------------------------------------------
\* What the controllers and the table promise holds of the system.

\* The controllers in the system do nothing that Interrupts does not allow: its
\* theorems hold of the lines of the program's two drivers.
THEOREM ImplementsInterrupts == SysSpec => PicProofs!Spec
  <1>1. SysInit => PicProofs!Init
    BY SameInit DEF SysInit
  <1>2. Lockstep /\ [SysNext]_sysVars => [PicProofs!Next]_(PicProofs!vars)
    BY PicStep DEF Lockstep
  <1> QED  BY <1>1, <1>2, LockstepHolds, SysSafety, PTL DEF PicProofs!Spec

\* The timer's requests and the keyboard's are served one at a time, the timer's
\* first; each interrupt has its handler, and none left in service holds another
\* back.
THEOREM LinesServed ==
    SysSpec => /\ PicProofs!IsInterruptService
               /\ [](PicProofs!NeverUnhandled /\ PicProofs!NothingBlocks)
  <1>1. PicProofs!Spec => PicProofs!IsInterruptService
    BY PicAssumption, PicProofs!Refinement
  <1>2. PicProofs!Spec => []PicProofs!NeverUnhandled
    BY PicAssumption, PicProofs!HandlersCorrect
  <1>3. PicProofs!Spec => []PicProofs!NothingBlocks
    BY PicAssumption, PicProofs!NeverBlocked
  <1> QED  BY <1>1, <1>2, <1>3, ImplementsInterrupts, PTL

\* The table's operators too have two names.
LEMMA TableAssumption == TableProofs!TimerAssumption
  <1>1. TICK_PERIOD % 1 = 0
    BY SystemAssumption
  <1> QED  BY <1>1, SystemAssumption
           DEF TableProofs!TimerAssumption, Callbacks

LEMMA SameTable ==
    /\ \A f, n, k : Table!timer_callback_register(f, n, k) =>
                     TableProofs!timer_callback_register(f, n, k)
    /\ Table!timer_irq => TableProofs!timer_irq
    /\ Table!timer_irq_handler => TableProofs!timer_irq_handler
    /\ Table!Init => TableProofs!Init
  BY DEF Table!timer_callback_register, TableProofs!timer_callback_register,
         Table!InHandler, TableProofs!InHandler,
         Table!queue_is_empty, TableProofs!queue_is_empty,
         Table!queue_out, TableProofs!queue_out,
         Table!timer_irq, TableProofs!timer_irq,
         Table!timer_irq_handler, TableProofs!timer_irq_handler,
         Table!Due, TableProofs!Due, Table!Registered, TableProofs!Registered,
         Table!Ends, TableProofs!Ends, Table!Counted, TableProofs!Counted,
         Table!timer_callback_unregister, TableProofs!timer_callback_unregister,
         Table!Freed, TableProofs!Freed, Table!FreeTimer, TableProofs!FreeTimer,
         Table!queue_in, TableProofs!queue_in, Table!queue_is_full,
         TableProofs!queue_is_full,
         Table!Init, TableProofs!Init, Table!Slots, TableProofs!Slots

LEMMA TableStep ==
    ASSUME Registering, [SysNext]_sysVars
    PROVE  [TableProofs!Next]_(TableProofs!vars)
  <1>1. CASE main_timer
    <2> DEFINE timer == Head(calls.timers)
    <2>1. timer \in Registration
      BY <1>1, NextTimer DEF main_timer, Registering
    <2>2. TableProofs!timer_callback_register(timer.callback, timer.interval, -1)
      BY <1>1, SameTable DEF main_timer
    <2> HIDE DEF timer
    <2>3. timer.callback \in Callbacks /\ timer.interval \in {1, SPINNER, UPTIME}
      BY <2>1 DEF Registration
    <2> QED  BY <2>2, <2>3 DEF TableProofs!Next
  <1>2. ASSUME NEW irq \in Irqs, enter(irq)
        PROVE  [TableProofs!Next]_(TableProofs!vars)
    BY <1>2, SameTable DEF enter, timerVars, TableProofs!Next, TableProofs!vars
  <1>3. CASE walk
    BY <1>3, SameTable DEF walk, TableProofs!Next
  <1>4. ASSUME NEW irq \in Irqs, request(irq)
        PROVE  UNCHANGED timerVars
    BY <1>4 DEF request
  <1>5. CASE \/ main_driver \/ boot \/ key \/ dismiss \/ run_scheduler \/ resume
             \/ UNCHANGED sysVars
    BY <1>5 DEF main_driver, boot, key, dismiss, run_scheduler, resume, sysVars,
                timerVars, TableProofs!vars
  <1> QED  BY <1>1, <1>2, <1>3, <1>4, <1>5 DEF SysNext, timerVars, TableProofs!vars

\* In the system every callback that is due is called, once in its tick, among
\* them scheduler_timer in each.
THEOREM CallbacksServed == SysSpec => TableProofs!IsTimerService
  <1>1. SysInit => TableProofs!Init
    BY SameTable DEF SysInit
  <1>2. Lockstep /\ [SysNext]_sysVars => [TableProofs!Next]_(TableProofs!vars)
    BY TableStep DEF Lockstep
  <1>3. SysSpec => TableProofs!Spec
    BY <1>1, <1>2, LockstepHolds, SysSafety, PTL DEF TableProofs!Spec
  <1>4. TableProofs!Spec => TableProofs!IsTimerService
    BY QueueSizeAssumption, TableAssumption, TableProofs!Refinement
  <1> QED  BY <1>3, <1>4, PTL

=============================================================================
