------------------------------ MODULE MCKernel ------------------------------
(***************************************************************************)
(* Kernel with the fairness of the machine it runs on.  System shows that  *)
(* the controller and the timer table below it provide that fairness.      *)
(***************************************************************************)
EXTENDS Kernel

\* The timer interrupts for ever.  A request raised while the kernel runs stays
\* latched in the interrupt controller and is delivered before a keyboard
\* request (IRQ 0 has priority over IRQ 1), so keys typed without end do not
\* keep it out: strong fairness.  The kernel itself has no loop to stay in:
\* weak fairness of each of its steps.  No fairness of boot, which waits for a
\* key, nor of any key.
Fairness ==
    /\ SF_vars(kernel_context_enter("timer"))
    /\ WF_vars(timer_irq_handler)
    /\ WF_vars(keyboard_irq_handler)
    /\ WF_vars(schedule)
    /\ WF_vars(kernel_context_exit)

FairSpec == Spec /\ Fairness

Executes(pid) == mode = "process" /\ cpu.pid = pid

\* Once the kernel has booted, every process in the run queue comes to execute
\* (unless ctrl+q stops the machine first), whatever keys are typed.
EveryReadyRuns ==
    \A pid \in 1 .. MAX_PID :
        (pid \in Range(run_queue) /\ mode # "boot") ~> (Executes(pid) \/ Halted)

=============================================================================
