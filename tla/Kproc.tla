-------------------------------- MODULE Kproc --------------------------------
(***************************************************************************)
(* src/kproc.c: creation and destruction of processes: the allocator of    *)
(* process table entries, the pids, and the process stacks.                *)
(*                                                                         *)
(* A stack is abstracted to whose data it holds: CLEARED after a memset of *)
(* all of it, otherwise the pid of the process whose frames lie on it (the *)
(* initial frame, the frames of its calls, or a saved trap frame).         *)
(***************************************************************************)
EXTENDS Scheduler

CONSTANT MAX_PID    \* bound on the pids handed out (int next_pid in the code)

ASSUME KprocAssumption == MAX_PID \in Nat

VARIABLES
    proc_allocator,     \* free entries of the process table
    next_pid,           \* next available process id
    proc_stack          \* what each entry's stack holds

kprocVars == <<proc_table, run_queue, current, proc_allocator, next_pid,
               proc_stack>>

CLEARED == -1

-----------------------------------------------------------------------------
\* Plausible faults of the functions below, for the mutation runs.

FrameOnEntry0(pid, entry) ==
    [pid |-> pid, state |-> "IDLE", cpu_time |-> 0, trapframe |-> 0]
ForgetRemove(proc) ==
    /\ run_queue' = run_queue
    /\ current' = IF proc = current THEN NULL ELSE current
ForgetDeallocate(entry) == proc_allocator
DestroyKeepsPid(proc) ==
    /\ proc_table[proc].pid # 0
    /\ run_queue' = run_queue
    /\ current' = NULL
    /\ proc_table' = [proc_table EXCEPT ![proc].state = "NONE"]
    /\ proc_allocator' = queue_in(proc_allocator, proc)
    /\ UNCHANGED <<next_pid, proc_stack>>

-----------------------------------------------------------------------------

\* A process control block as kproc_create fills it and scheduler_add leaves
\* it: ready, with its initial trap frame on its own stack.
NewProc(pid, entry) ==
    [pid |-> pid, state |-> "IDLE", cpu_time |-> 0, trapframe |-> entry]

\* The state kproc_init leaves: an empty table, stacks all zero, every entry in
\* the allocator, and then the idle task created in the first entry with pid 0.
kproc_init ==
    /\ proc_table = [e \in Entries |-> IF e = 0 THEN NewProc(0, 0) ELSE FreeProc]
    /\ run_queue = <<>>
    /\ current = NULL
    /\ proc_allocator = [i \in 1 .. PROC_MAX - 1 |-> i]
    /\ next_pid = 1
    /\ proc_stack = [e \in Entries |-> IF e = 0 THEN 0 ELSE CLEARED]

\* Creates a process, unless the table is full.
kproc_create ==
    \/ /\ queue_is_empty(proc_allocator)
       /\ UNCHANGED kprocVars
    \/ /\ ~queue_is_empty(proc_allocator)
       /\ next_pid <= MAX_PID
       /\ LET entry == Head(proc_allocator) IN
          /\ proc_table' = [proc_table EXCEPT ![entry] = NewProc(next_pid, entry)]
          /\ proc_stack' = [proc_stack EXCEPT ![entry] = next_pid]
       /\ proc_allocator' = queue_out(proc_allocator)
       /\ run_queue' = Added(next_pid)
       /\ next_pid' = next_pid + 1
       /\ UNCHANGED current

\* What scheduler_remove does to a process other than the idle task: the
\* running one leaves the CPU, any other one leaves the run queue.
scheduler_remove(proc) ==
    \/ /\ proc = current
       /\ current' = NULL
       /\ UNCHANGED run_queue
    \/ /\ proc # current
       /\ run_queue' = Rotated(proc_table[proc].pid)
       /\ UNCHANGED current

\* The allocator after the entry is given back.
Deallocated(entry) == queue_in(proc_allocator, entry)

\* Destroys a process.  A pid of 0, the idle task's or a free entry's, is
\* refused.  The entry is zeroed, whatever scheduler_remove left in it.  Of the
\* stack only the first sizeof(PROC_STACK_SIZE) bytes are zeroed, at the end
\* its frames are farthest from, so what it holds stays.
kproc_destroy(proc) ==
    \/ /\ proc_table[proc].pid = 0
       /\ UNCHANGED kprocVars
    \/ /\ proc_table[proc].pid # 0
       /\ scheduler_remove(proc)
       /\ proc_table' = [proc_table EXCEPT ![proc] = FreeProc]
       /\ proc_allocator' = Deallocated(proc)
       /\ UNCHANGED <<next_pid, proc_stack>>

=============================================================================
