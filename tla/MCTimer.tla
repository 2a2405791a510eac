------------------------------- MODULE MCTimer -------------------------------
(***************************************************************************)
(* Timer with the repeats of the runs, and with fairness.                  *)
(***************************************************************************)
EXTENDS Timer

\* For ever, once, and twice.
MCRepeat == {-1, 0, 1}

\* The timer interrupts for ever, and its handler goes on to the end.  Nobody
\* has to register or unregister anything.
FairSpec == Spec /\ WF_vars(timer_irq) /\ WF_vars(timer_irq_handler)

\* A timer that is not to repeat for ever gives its slot back, without having
\* to be unregistered.
FiniteTimersEnd ==
    \A id \in Slots :
        Registered(id) /\ timers[id].repeat >= 0 ~> ~Registered(id)

=============================================================================
