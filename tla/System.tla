------------------------------- MODULE System -------------------------------
(***************************************************************************)
(* The kernel between the machine's interrupt controller, as in module     *)
(* Interrupts, and its own timer table, as in module Timer: what Kernel    *)
(* takes for granted of both.  main registers the handlers and the timer   *)
(* callbacks; a request reaches the kernel when the controller delivers    *)
(* it; the timer handler walks the table, and scheduler_timer is one of    *)
(* the callbacks it finds there; the interrupt is dismissed when its       *)
(* handler has returned, and only then does the scheduler run.             *)
(*                                                                         *)
(* Each action is one of the kernel together with those of the controller  *)
(* and of the table that happen in the same code.                          *)
(***************************************************************************)
EXTENDS MCKernel, LogLevel

CONSTANTS
    TIMERS_MAX,     \* slots of the timer table, 32 in timer.h
    SPINNER,        \* the interval of the spinner, 10 in main.c
    UPTIME,         \* that of uptime, 100 in main.c
    TICK_PERIOD     \* bound on the ticks, a multiple of both

ASSUME SystemAssumption ==
    /\ TIMERS_MAX \in Nat /\ 4 <= TIMERS_MAX /\ TIMERS_MAX <= QUEUE_SIZE
    /\ {SPINNER, UPTIME, TICK_PERIOD} \subseteq Nat \ {0}
    /\ TICK_PERIOD % SPINNER = 0 /\ TICK_PERIOD % UPTIME = 0

VARIABLES
    calls,              \* what main has still to initialise
    irq_handlers, mask, irr, isr, dispatch, handling, asked,    \* Interrupts
    timers, timer_allocator, timer_ticks, slot, call            \* Timer

picVars == <<irq_handlers, mask, irr, isr, dispatch, handling, asked>>
timerVars == <<timers, timer_allocator, timer_ticks, slot, call>>
sysVars == <<vars, picVars, timerVars, logVars, calls>>

IRQ_TIMER == 0
IRQ_KEYBOARD == 1
Line(irq) == IF irq = "timer" THEN IRQ_TIMER ELSE IRQ_KEYBOARD

Pic == INSTANCE Interrupts WITH
        Device  <- {IRQ_TIMER, IRQ_KEYBOARD},
        Driver  <- {IRQ_TIMER, IRQ_KEYBOARD},
        MASKED  <- (0 .. 15) \ {2},
        CHANGES <- FALSE,
        mode    <- dispatch

Callbacks == {"scheduler_timer", "displayProcs", "spinner", "uptime"}

Table == INSTANCE Timer WITH
        Callback   <- Callbacks,
        Interval   <- {1, SPINNER, UPTIME},
        Repeat     <- {-1},
        NoCallback <- "none"

-----------------------------------------------------------------------------
\* main: the drivers register their handlers, and the timers are registered,
\* in this order.

Drivers == <<IRQ_TIMER, IRQ_KEYBOARD>>

Timers == <<[callback |-> "scheduler_timer", interval |-> 1],
            [callback |-> "displayProcs", interval |-> 1],
            [callback |-> "spinner", interval |-> SPINNER],
            [callback |-> "uptime", interval |-> UPTIME]>>

SysInit ==
    /\ Init /\ Pic!Init /\ Table!Init /\ LogInit
    /\ calls = [drivers |-> Drivers, timers |-> Timers]

main_driver ==
    /\ calls.drivers # <<>>
    /\ Pic!interrupts_irq_register(Head(calls.drivers))
    /\ calls' = [calls EXCEPT !.drivers = Tail(@)]
    /\ UNCHANGED <<vars, timerVars, logVars>>

main_timer ==
    /\ calls.drivers = <<>> /\ calls.timers # <<>>
    /\ Table!timer_callback_register(Head(calls.timers).callback,
                                     Head(calls.timers).interval, -1)
    /\ calls' = [calls EXCEPT !.timers = Tail(@)]
    /\ UNCHANGED <<vars, picVars, logVars>>

Initialised == calls.drivers = <<>> /\ calls.timers = <<>>

\* The debug commands that move the log level.
kernel_log_command == lower \/ raise

\* At the prompt of keyboard_getc.
boot ==
    /\ Initialised
    /\ \/ (boot_command \/ boot_key) /\ UNCHANGED logVars
       \/ mode = "boot" /\ kernel_log_command /\ UNCHANGED vars
    /\ UNCHANGED <<picVars, timerVars, calls>>

-----------------------------------------------------------------------------
\* An interrupt, from the request to the return.

request(irq) ==
    /\ Pic!request(Line(irq))
    /\ UNCHANGED <<vars, timerVars, logVars, calls>>

\* The handler of the timer begins with the tick.
enter(irq) ==
    /\ kernel_context_enter(irq)
    /\ Pic!interrupt /\ handling' = Line(irq)
    /\ IF irq = "timer" THEN Table!timer_irq ELSE UNCHANGED timerVars
    /\ UNCHANGED <<logVars, calls>>

\* One slot of the table.
walk ==
    /\ dispatch = "handler" /\ handling = IRQ_TIMER
    /\ Table!timer_irq_handler
    /\ IF call' = "scheduler_timer" THEN timer_irq_handler ELSE UNCHANGED vars
    /\ UNCHANGED <<picVars, logVars, calls>>

key ==
    /\ \/ keyboard_irq_handler /\ UNCHANGED logVars
       \/ /\ mode = "keyboard" /\ mode' = "schedule"
          /\ UNCHANGED <<kprocVars, cpu>>
          /\ kernel_log_command
    /\ UNCHANGED <<picVars, timerVars, calls>>

\* The handler has returned: the end of interrupts_irq_handler.
dismiss ==
    /\ mode = "schedule" /\ ~Table!InHandler
    /\ Pic!interrupts_irq_handler
    /\ UNCHANGED <<vars, timerVars, logVars, calls>>

\* The scheduler runs after the handler, and once at the end of main.
run_scheduler ==
    /\ dispatch \in {"boot", "exit"}
    /\ schedule
    /\ UNCHANGED <<picVars, timerVars, logVars, calls>>

resume ==
    /\ kernel_context_exit
    /\ Pic!return \/ Pic!first_process
    /\ UNCHANGED <<timerVars, logVars, calls>>

SysNext ==
    \/ main_driver
    \/ main_timer
    \/ boot
    \/ \E irq \in Irqs : request(irq) \/ enter(irq)
    \/ walk
    \/ key
    \/ dismiss
    \/ run_scheduler
    \/ resume
    \/ Halted /\ UNCHANGED sysVars

\* The timer raises its line again and again; the CPU takes what the controller
\* delivers, and the kernel has no loop to stay in.  Weak fairness only: that
\* keys do not keep the timer out is the controller's doing.
SysSpec ==
    /\ SysInit /\ [][SysNext]_sysVars
    /\ WF_sysVars(request("timer"))
    /\ WF_sysVars(\E irq \in Irqs : enter(irq))
    /\ WF_sysVars(walk)
    /\ WF_sysVars(key)
    /\ WF_sysVars(dismiss)
    /\ WF_sysVars(run_scheduler)
    /\ WF_sysVars(resume)

-----------------------------------------------------------------------------
\* Properties

\* The machine below Kernel gives it the interrupts it assumes, with the
\* fairness it assumes of them: of the timer, strong fairness.
IsFairKernel == FairSpec

\* The kernel and the controller agree: a line is in service while its handler
\* runs, or if ctrl+q stopped the machine in it, and none while the scheduler
\* runs or a process does; the table is walked in the timer's handler only; and
\* by the end of the walk the tick has been charged to the process, once.
KernelMatchesPic ==
    /\ isr[2] = {}
    /\ isr[1] = IF dispatch = "handler" THEN {handling} ELSE {}
    /\ mode \in {"exit", "process", "panic"} => dispatch # "handler"
    /\ mode \in Irqs => dispatch = "handler" /\ handling = Line(mode)
    /\ Table!InHandler => dispatch = "handler" /\ handling = IRQ_TIMER
    /\ mode = "timer" => slot = 0

\* The log level that the last announcement named is in force, unless nothing
\* is logged at all: the commands announce the level before they clamp it.
LevelAnnounced ==
    /\ kernel_log_level \in NONE .. ALL
    /\ announced \in {None, kernel_log_level} \/ kernel_log_level = NONE

=============================================================================
