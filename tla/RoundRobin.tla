------------------------------ MODULE RoundRobin ------------------------------
(***************************************************************************)
(* What the kernel promises the processes: the CPU goes round in the order *)
(* of arrival, each process keeps it for one slice of timer ticks, and the *)
(* idle task is given it only when nobody waits.  It has a slice like the  *)
(* others: whoever arrives meanwhile waits for the end of it.              *)
(*                                                                         *)
(* No process table, no entries, no stacks and no interrupts here: a       *)
(* process is its pid.                                                     *)
(***************************************************************************)
EXTENDS Integers, Sequences

CONSTANTS
    Slice,          \* timer ticks of a time slice
    PidLimit,       \* bound on the pids
    Withdrawals     \* whether a process may be ended while it waits

VARIABLES
    ready,          \* pids waiting for the CPU, first come first served
    running,        \* pid of the process that has it, or Nobody
    used,           \* ticks it has used of its slice
    issued          \* the last pid given to a process

vars == <<ready, running, used, issued>>

Nobody == -1
Idle == 0

Init == ready = <<>> /\ running = Nobody /\ used = 0 /\ issued = 0

\* A new process waits behind all others, under a pid never used before.
Arrive ==
    /\ issued < PidLimit
    /\ issued' = issued + 1
    /\ ready' = Append(ready, issued')
    /\ UNCHANGED <<running, used>>

\* The running process uses a tick of its slice.
Tick ==
    /\ running # Nobody
    /\ used < Slice
    /\ used' = used + 1
    /\ UNCHANGED <<ready, running, issued>>

\* The running process ends; the idle task never does.
Leave ==
    /\ running \notin {Nobody, Idle}
    /\ running' = Nobody
    /\ used' = 0
    /\ UNCHANGED <<ready, issued>>

Without(queue, i) ==
    SubSeq(queue, 1, i - 1) \o SubSeq(queue, i + 1, Len(queue))

\* The queue with its first n at its end.
Turned(queue, n) == SubSeq(queue, n + 1, Len(queue)) \o SubSeq(queue, 1, n)

\* A waiting process ends.  The others go round in the same order, but the turn
\* may pass to any of them.
Withdraw ==
    /\ Withdrawals
    /\ \E i \in 1 .. Len(ready), n \in 0 .. Len(ready) - 1 :
           ready' = Turned(Without(ready, i), n)
    /\ UNCHANGED <<running, used, issued>>

\* The head of this queue has the CPU next, with a whole slice before it; the
\* idle task when the queue is empty.
GiveTo(queue) ==
    /\ \/ queue = <<>> /\ running' = Idle /\ ready' = queue
       \/ queue # <<>> /\ running' = Head(queue) /\ ready' = Tail(queue)
    /\ used' = 0
    /\ UNCHANGED issued

\* A CPU that nobody holds is given away.
Dispatch == running = Nobody /\ GiveTo(ready)

\* A process that has used its slice goes to the end of the queue first.
Preempt ==
    /\ running # Nobody
    /\ used = Slice
    /\ GiveTo(IF running = Idle THEN ready ELSE Append(ready, running))

Next == Arrive \/ Tick \/ Leave \/ Withdraw \/ Dispatch \/ Preempt

Spec == Init /\ [][Next]_vars

=============================================================================
