------------------------------- MODULE Kernel -------------------------------
(***************************************************************************)
(* The kernel of src/kernel.c and src/context.S around the scheduler and   *)
(* the process table: boot, entry by an interrupt, the timer and keyboard  *)
(* handlers with their debug commands, the scheduler, and the exit to the  *)
(* process that runs next.                                                 *)
(*                                                                         *)
(* One CPU executes either a process, with interrupts enabled, or the      *)
(* kernel, on a stack of its own and with interrupts disabled (the IDT     *)
(* holds interrupt gates).  mode is the point of the kernel the CPU has    *)
(* reached: kernel_context_enter saves the frame and leads to a handler    *)
(* ("timer", "keyboard"), then to "schedule", then to "exit".  cpu says    *)
(* whose context the registers hold and on whose stack, so that a frame    *)
(* saved or restored on the wrong stack is visible.                        *)
(*                                                                         *)
(* "exited" is the exit(0) of ctrl+q, "panic" that of kernel_panic.  In    *)
(* "undefined" the kernel has followed a null pointer: nothing is said of  *)
(* what it does next.                                                      *)
(***************************************************************************)
EXTENDS Kproc, Functions

CONSTANT
    DESTROY_ANY     \* TRUE: kproc_destroy is also called, as kproc.h allows,
                    \* for processes that are not running.  The program only
                    \* ever destroys the running one: FALSE.

ASSUME KernelAssumption == DESTROY_ANY \in BOOLEAN

VARIABLES
    mode,   \* where the CPU is
    cpu     \* [stack, pid]: the process context in the CPU, NULLs in the kernel

vars == <<proc_table, run_queue, current, proc_allocator, next_pid, proc_stack,
          mode, cpu>>

Irqs == {"timer", "keyboard"}
Modes == {"boot", "process", "schedule", "exit", "exited", "panic", "undefined"}
           \cup Irqs

\* No process: the CPU runs the kernel, on the kernel's stack.
InKernel == [stack |-> NULL, pid |-> NULL]

-----------------------------------------------------------------------------
\* Plausible faults of the definitions below, for the mutation runs.

SaveInEntry0 == [proc_table EXCEPT ![0].trapframe = cpu.stack]

-----------------------------------------------------------------------------

\* main() up to the key it waits for, interrupts disabled.
Init == kproc_init /\ mode = "boot" /\ cpu = InKernel

\* The table once the frame pushed on the interrupted stack is remembered.
FrameSaved == [proc_table EXCEPT ![current].trapframe = cpu.stack]

\* kernel_enter pushes the registers on the stack the CPU is on, switches to
\* the kernel's stack and calls kernel_context_enter.
kernel_context_enter(irq) ==
    /\ mode = "process"
    /\ proc_table' = FrameSaved
    /\ proc_stack' = [proc_stack EXCEPT ![cpu.stack] = cpu.pid]
    /\ cpu' = InKernel
    /\ mode' = irq
    /\ UNCHANGED <<run_queue, current, proc_allocator, next_pid>>

\* The timer interrupt: among its callbacks, one has an effect on processes.
timer_irq_handler ==
    /\ mode = "timer"
    /\ scheduler_timer
    /\ mode' = "schedule"
    /\ UNCHANGED <<proc_allocator, next_pid, proc_stack, cpu>>

\* A ctrl+key chord decoded in keyboard_decode; the kernel continues at
\* `after'.  Destroying `current' while it is null reads through the pointer.
kernel_debug_command(cmd, after) ==
    \/ /\ cmd = "p"
       /\ kproc_create
       /\ mode' = after
    \/ /\ cmd = "x" /\ current # NULL
       /\ kproc_destroy(current)
       /\ mode' = after
    \/ /\ cmd = "x" /\ current = NULL
       /\ mode' = "undefined"
       /\ UNCHANGED kprocVars
    \/ /\ cmd = "q"
       /\ mode' = "exited"
       /\ UNCHANGED kprocVars

DebugCommands == {"p", "x", "q"}

\* The keyboard interrupt: a debug command, or a key without effect on
\* processes (an ordinary key, a modifier, another command).
keyboard_irq_handler ==
    /\ mode = "keyboard"
    /\ \/ \E cmd \in DebugCommands : kernel_debug_command(cmd, "schedule")
       \/ mode' = "schedule" /\ UNCHANGED kprocVars
    /\ UNCHANGED cpu

\* main() waits in keyboard_getc, which polls the keyboard: a chord runs its
\* command and the wait goes on.
boot_command ==
    /\ mode = "boot"
    /\ \E cmd \in DebugCommands : kernel_debug_command(cmd, "boot")
    /\ UNCHANGED cpu

\* A key that decodes to a character ends the wait.
boot_key ==
    /\ mode = "boot"
    /\ mode' = "schedule"
    /\ UNCHANGED <<kprocVars, cpu>>

\* A kernel caller of kproc_destroy that picks a process itself, where
\* keyboard_irq_handler could call it.
destroy_any ==
    /\ DESTROY_ANY
    /\ mode = "keyboard"
    /\ \E proc \in Entries : kproc_destroy(proc)
    /\ mode' = "schedule"
    /\ UNCHANGED cpu

\* The scheduler, on the way out of the kernel.
schedule ==
    /\ mode = "schedule"
    /\ scheduler_run
    /\ mode' = IF current' = NULL THEN "panic" ELSE "exit"
    /\ UNCHANGED <<proc_allocator, next_pid, proc_stack, cpu>>

\* The context that is popped from the stack current->trapframe points into.
Restored == [stack |-> proc_table[current].trapframe,
             pid   |-> proc_stack[proc_table[current].trapframe]]

\* Back to a process.
kernel_context_exit ==
    /\ mode = "exit"
    /\ cpu' = Restored
    /\ mode' = "process"
    /\ UNCHANGED kprocVars

\* Nothing runs any more, or nothing is known of what runs.
Halted == mode \in {"exited", "panic", "undefined"}

halted == Halted /\ UNCHANGED vars

Next ==
    \/ \E irq \in Irqs : kernel_context_enter(irq)
    \/ timer_irq_handler
    \/ keyboard_irq_handler
    \/ boot_command
    \/ boot_key
    \/ destroy_any
    \/ schedule
    \/ kernel_context_exit
    \/ halted

Spec == Init /\ [][Next]_vars

-----------------------------------------------------------------------------
\* Properties

Live == {e \in Entries : proc_table[e].state # "NONE"}

\* Types, with the bounds: pids up to MAX_PID, a slice never overrun.
TypeOK ==
    /\ proc_table \in [Entries -> [pid : 0 .. MAX_PID,
                                  state : {"NONE", "IDLE", "RUNNING"},
                                  cpu_time : 0 .. SCHEDULER_TIMESLICE,
                                  trapframe : Entries \cup {NULL}]]
    /\ run_queue \in Seq(1 .. MAX_PID)
    /\ current \in Entries \cup {NULL}
    /\ proc_allocator \in Seq(Entries)
    /\ next_pid \in 1 .. MAX_PID + 1
    /\ proc_stack \in [Entries -> -1 .. MAX_PID]
    /\ mode \in Modes
    /\ cpu \in [stack : Entries \cup {NULL}, pid : -1 .. MAX_PID]

\* The allocator holds every free entry of the process table, once, and no
\* entry in use: no create and destroy history leaks an entry or hands one to
\* two processes.
AllocatorExact ==
    /\ IsInjective(proc_allocator)
    /\ Range(proc_allocator) = Entries \ Live

\* Live processes have pids of their own, so pid_to_proc finds the process that
\* was queued; the first entry is the idle task's for ever, so that looking up
\* pid 0 finds it and not a free entry, whose pid is 0 too.
PidsExact ==
    /\ 0 \in Live /\ proc_table[0].pid = 0
    /\ \A e \in Live \ {0} : proc_table[e].pid \in 1 .. next_pid - 1
    /\ \A e, f \in Live : proc_table[e].pid = proc_table[f].pid => e = f
    /\ \A e \in Entries \ Live : proc_table[e] = FreeProc

\* The run queue holds the pid of every ready process, once, and no other: not
\* the running one's, the idle task's, nor one left behind by a destroyed
\* process.
RunQueueExact ==
    /\ IsInjective(run_queue)
    /\ Range(run_queue) = {proc_table[e].pid :
                             e \in {f \in Live \ {0} : f # current}}

\* The table and `current' agree on who runs, and between the interrupt and the
\* handler's effect, and in a process, somebody does.
CurrentExact ==
    /\ \A e \in Entries : proc_table[e].state = "RUNNING" <=> e = current
    /\ mode \in Irqs \cup {"exit", "process"} => current # NULL

\* The CPU executes the process that `current' names, on that process's stack,
\* and each process that does not execute has its own context saved on its own
\* stack: no history of switches, destructions and reuse of entries resumes a
\* process in another one's context, or one whose entry was given away.
ContextIntegrity ==
    /\ cpu = IF mode = "process"
             THEN [stack |-> current, pid |-> proc_table[current].pid]
             ELSE InKernel
    /\ \A e \in Live : /\ proc_table[e].trapframe = e
                        /\ proc_stack[e] = proc_table[e].pid

\* A process comes to the CPU with a whole slice, and has used less than it
\* whenever it executes.
SliceBound ==
    /\ \A e \in Entries \ {current} : proc_table[e].cpu_time = 0
    /\ mode \in Irqs \cup {"exit", "process"} =>
           proc_table[current].cpu_time < SCHEDULER_TIMESLICE

\* scheduler_run always finds a process to run.
NeverPanics == mode # "panic"

\* The timer ticks a ready process has at most to wait: what is left of the
\* running slice, and a slice for each process before it.
Wait(pid) ==
    (CHOOSE i \in DOMAIN run_queue : run_queue[i] = pid) * SCHEDULER_TIMESLICE
      - (IF current = NULL THEN SCHEDULER_TIMESLICE
         ELSE proc_table[current].cpu_time)

\* While a process executes nobody's wait is over, and nobody ever waits for more
\* slices than there can be processes before it: with NoLostTurn, a bound on the
\* timer interrupts after which every ready process runs.
WaitBounded ==
    \A pid \in Range(run_queue) :
        /\ Wait(pid) \in 0 .. (PROC_MAX - 1) * SCHEDULER_TIMESLICE
        /\ mode \in {"exit", "process"} => Wait(pid) > 0

\* A process is destroyed that waits in the run queue.
WaiterDestroyed ==
    \E e \in Entries : proc_table[e].state = "IDLE" /\ proc_table'[e] = FreeProc

\* A ready process never loses its turn: its bound on the wait never grows,
\* whatever is created or destroyed, and each timer interrupt shortens it; and
\* it leaves the run queue only to run.  The search for a process that is
\* destroyed where it waits, which the program does not do, may turn the queue.
KeepsItsTurn ==
    \A pid \in Range(run_queue) :
        IF pid \in Range(run_queue)'
        THEN /\ Wait(pid)' <= Wait(pid)
             /\ mode = "timer" => Wait(pid)' < Wait(pid)
        ELSE proc_table'[current'].pid = pid

NoLostTurn == [][~WaiterDestroyed => KeepsItsTurn]_vars

\* The kernel gives the CPU to its processes as RoundRobin says, in which who
\* waits keeps its place, unless waiting processes are destroyed, and its place
\* in the round even then.
RR == INSTANCE RoundRobin WITH
        Slice       <- SCHEDULER_TIMESLICE,
        PidLimit    <- MAX_PID,
        Withdrawals <- DESTROY_ANY,
        ready       <- run_queue,
        running     <- IF current = NULL THEN -1 ELSE proc_table[current].pid,
        used        <- IF current = NULL THEN 0 ELSE proc_table[current].cpu_time,
        issued      <- next_pid - 1

IsRoundRobin == RR!Spec

\* Doc: kproc_destroy returns, 0 or -1 for an error.
DestroyReturns == mode # "undefined"

=============================================================================
