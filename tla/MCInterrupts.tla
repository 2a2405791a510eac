---------------------------- MODULE MCInterrupts ----------------------------
(***************************************************************************)
(* Interrupts with fairness.                                               *)
(***************************************************************************)
EXTENDS Interrupts

\* A CPU that may be interrupted is, and the kernel's handlers end.  Nothing
\* is assumed of the devices, nor of which of two requests comes first.
FairSpec ==
    /\ Spec
    /\ WF_vars(interrupt)
    /\ WF_vars(interrupts_irq_handler)
    /\ WF_vars(return)

\* A request of the timer is served, however fast the other lines interrupt,
\* unless its driver masks the line.
TimerServed ==
    mode # "boot" /\ 0 \in irr[1] ~> handling = 0 \/ 0 \in mask[1]

=============================================================================
