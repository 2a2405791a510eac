------------------------------ MODULE Scheduler ------------------------------
(***************************************************************************)
(* src/scheduler.c: the round-robin scheduler, over the process table and  *)
(* the `current' pointer it shares with kproc.c and kernel.c.              *)
(*                                                                         *)
(* A process is denoted by its entry in the process table (a proc_t * of   *)
(* the code), NULL when the pointer is null.  An entry keeps the fields of *)
(* proc_t that decide what happens: pid, state, cpu_time, and trapframe,   *)
(* which is the entry in whose stack the saved frame lies.  The fields     *)
(* that are only displayed (name, type, start_time, run_time) are left     *)
(* out.                                                                    *)
(***************************************************************************)
EXTENDS Queue

CONSTANTS
    PROC_MAX,               \* entries of the process table, 10 in kproc.h
    SCHEDULER_TIMESLICE     \* timer ticks of a time slice, 250 in scheduler.h

ASSUME SchedulerAssumption ==
    /\ PROC_MAX \in Nat \ {0}
    /\ SCHEDULER_TIMESLICE \in Nat \ {0}
    /\ PROC_MAX <= QUEUE_SIZE       \* 10 and 64 in the code

VARIABLES
    proc_table,     \* the process table
    run_queue,      \* pids of the processes waiting for the CPU
    current         \* the entry of the running process, or NULL

schedVars == <<proc_table, run_queue, current>>

NULL == -1

Entries == 0 .. PROC_MAX - 1

\* What memset(0) makes of an entry.
FreeProc == [pid |-> 0, state |-> "NONE", cpu_time |-> 0, trapframe |-> NULL]

-----------------------------------------------------------------------------
\* Plausible faults of the functions below, for the mutation runs.

KeepOneTickMore ==
    current # NULL /\ proc_table[current].cpu_time <= SCHEDULER_TIMESLICE
ForgetRequeue == run_queue
RequeueIdleToo ==
    IF current = NULL THEN run_queue
    ELSE queue_in(run_queue, proc_table[current].pid)
RequeueInFront ==
    IF current = NULL \/ proc_table[current].pid = 0 THEN run_queue
    ELSE <<proc_table[current].pid>> \o run_queue
ReleaseKeepsTime ==
    IF current = NULL THEN proc_table
    ELSE [proc_table EXCEPT ![current].state = "IDLE"]
ReleaseStaysRunning ==
    IF current = NULL THEN proc_table
    ELSE [proc_table EXCEPT ![current].cpu_time = 0]
AddedInFront(pid) == <<pid>> \o run_queue
AddedNext(pid) == queue_in(run_queue, pid + 1)
FillsTheGap(pid) ==
    [i \in 1 .. Len(run_queue) - 1 |->
        IF run_queue[i] = pid THEN run_queue[Len(run_queue)] ELSE run_queue[i]]

-----------------------------------------------------------------------------

\* The first entry that holds pid, free entries (whose pid is 0) included.
pid_to_proc(pid) ==
    LET matching == {e \in Entries : proc_table[e].pid = pid} IN
    IF matching = {} THEN NULL
    ELSE CHOOSE e \in matching : \A f \in matching : e <= f

\* The timer callback, at every tick: charge the tick to the running process.
scheduler_timer ==
    /\ proc_table' = [proc_table EXCEPT ![current].cpu_time = @ + 1]
    /\ UNCHANGED <<run_queue, current>>

\* scheduler_run leaves a process that has not used its slice on the CPU.
KeepsCpu ==
    current # NULL /\ proc_table[current].cpu_time < SCHEDULER_TIMESLICE

\* The run queue after a process that used its slice is requeued; the idle
\* task, pid 0, never is.
Requeued ==
    IF current = NULL \/ proc_table[current].pid = 0 THEN run_queue
    ELSE queue_in(run_queue, proc_table[current].pid)

\* The table after that process is taken off the CPU.
Released ==
    IF current = NULL THEN proc_table
    ELSE [proc_table EXCEPT ![current].cpu_time = 0,
                            ![current].state = "IDLE"]

\* The pid to run: the oldest ready process, the idle task when there is none.
NextPid(queue) == IF queue_is_empty(queue) THEN 0 ELSE Head(queue)

\* Executes the scheduler.  current' = NULL is the kernel panic of the code:
\* no process could be found for the pid.
scheduler_run ==
    IF KeepsCpu THEN UNCHANGED schedVars
    ELSE LET next == pid_to_proc(NextPid(Requeued)) IN
         /\ current' = next
         /\ run_queue' = queue_out(Requeued)
         /\ proc_table' = IF next = NULL THEN Released
                          ELSE [Released EXCEPT ![next].state = "RUNNING"]

\* The run queue after scheduler_add of a process with this pid (the caller
\* sets its state to IDLE in the same step).
Added(pid) == IF pid = 0 THEN run_queue ELSE queue_in(run_queue, pid)

\* The run queue after scheduler_remove of a process that is not current: it
\* is rotated up to the pid, which is taken out, and stays rotated.  A pid that
\* is not queued costs a full turn, which changes nothing.
Rotated(pid) ==
    LET found == {i \in DOMAIN run_queue : run_queue[i] = pid} IN
    IF found = {} THEN run_queue
    ELSE LET k == CHOOSE i \in found : \A j \in found : i <= j
         IN  SubSeq(run_queue, k + 1, Len(run_queue))
               \o SubSeq(run_queue, 1, k - 1)

=============================================================================
