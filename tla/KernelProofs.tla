---------------------------- MODULE KernelProofs ----------------------------
(***************************************************************************)
(* The safety invariants of Kernel for every size of the process table and *)
(* of the queues, every slice and every bound on the pids, and for both    *)
(* values of DESTROY_ANY.                                                  *)
(*                                                                         *)
(* None of them is inductive alone: the run queue stays exact only if the  *)
(* pids are distinct, the allocator never overflows only because it holds  *)
(* no entry twice, and the process resumed is the right one only if all of *)
(* them hold.  IInv is their conjunction, rearranged: SafeTable is what    *)
(* concerns the data of scheduler.c and kproc.c, and is proved operation   *)
(* by operation; SafeMode relates that data to the point the CPU reached.  *)
(*                                                                         *)
(* From IInv follows the refinement of RoundRobin, the last part.          *)
(***************************************************************************)
EXTENDS Kernel, QueueProofs

ProcType == [pid : 0 .. MAX_PID,
             state : {"NONE", "IDLE", "RUNNING"},
             cpu_time : 0 .. SCHEDULER_TIMESLICE,
             trapframe : Entries \cup {NULL}]

TableTypes ==
    /\ proc_table \in [Entries -> ProcType]
    /\ run_queue \in Seq(1 .. MAX_PID)
    /\ current \in Entries \cup {NULL}
    /\ proc_allocator \in Seq(Entries)
    /\ next_pid \in 1 .. MAX_PID + 1
    /\ proc_stack \in [Entries -> -1 .. MAX_PID]

OneRunning == \A e \in Entries : proc_table[e].state = "RUNNING" <=> e = current

OwnStacks == \A e \in Live : /\ proc_table[e].trapframe = e
                             /\ proc_stack[e] = proc_table[e].pid

FreshSlices == \A e \in Entries \ {current} : proc_table[e].cpu_time = 0

SafeTable ==
    /\ TableTypes
    /\ AllocatorExact
    /\ PidsExact
    /\ RunQueueExact
    /\ OneRunning
    /\ OwnStacks
    /\ FreshSlices

Busy == mode \in Irqs \cup {"exit", "process"}

SafeMode ==
    /\ mode \in Modes \ {"panic"}
    /\ cpu = IF mode = "process"
             THEN [stack |-> current, pid |-> proc_table[current].pid]
             ELSE InKernel
    /\ Busy => /\ current # NULL
               /\ proc_table[current].cpu_time < SCHEDULER_TIMESLICE

IInv == SafeTable /\ SafeMode

USE QueueSizeAssumption, SchedulerAssumption, KprocAssumption, KernelAssumption

-----------------------------------------------------------------------------
\* Consequences of SafeTable.

LEMMA NullIsNoEntry == NULL \notin Entries
  BY DEF NULL, Entries

\* The running process is live, and so is the idle task.
LEMMA CurrentLive ==
    ASSUME SafeTable
    PROVE  /\ 0 \in Live
           /\ Live \subseteq Entries
           /\ current # NULL => current \in Live
  BY NullIsNoEntry DEF SafeTable, PidsExact, OneRunning, TableTypes, Live

\* pid_to_proc finds a live process under its pid.
LEMMA FindsLive ==
    ASSUME SafeTable, NEW e \in Live
    PROVE  pid_to_proc(proc_table[e].pid) = e
  <1> DEFINE matching == {f \in Entries : proc_table[f].pid = proc_table[e].pid}
  <1>1. e \in matching
    BY DEF Live
  <1>2. \A f \in matching : e <= f
    <2>1. CASE e = 0
      BY <2>1 DEF Entries
    <2>2. CASE e # 0
      <3>1. proc_table[e].pid # 0
        BY <2>2 DEF SafeTable, PidsExact, TableTypes, ProcType
      <3>2. \A f \in matching : f \in Live
        BY <3>1 DEF SafeTable, PidsExact, FreeProc
      <3> QED  BY <3>2 DEF SafeTable, PidsExact, Live, Entries
    <2> QED  BY <2>1, <2>2
  <1>3. \A f \in matching : (\A g \in matching : f <= g) => f = e
    BY <1>1, <1>2 DEF Entries
  <1> QED  BY <1>1, <1>2, <1>3 DEF pid_to_proc

\* The run queue has room for one more, whatever happened before.
LEMMA RunQueueRoom ==
    ASSUME SafeTable
    PROVE  Len(run_queue) <= PROC_MAX - 1 /\ ~queue_is_full(run_queue)
  <1> DEFINE S == Range(run_queue)
             f == [p \in S |-> CHOOSE e \in Live \ {0} : proc_table[e].pid = p]
  <1>1. run_queue \in Seq(S) /\ Len(run_queue) \in Nat
    BY SeqOfRange, LenProperties DEF SafeTable, TableTypes, ProcType
  <1>2. \A p \in S : /\ f[p] \in Live \ {0}
                     /\ proc_table[f[p]].pid = p
    BY DEF SafeTable, RunQueueExact
  <1>3. f \in [S -> 1 .. PROC_MAX - 1]
    BY <1>2 DEF Live, Entries
  <1>4. \A i \in 1 .. Len(run_queue) : run_queue[i] \in S
    BY <1>1, ElementOfSeq
  <1>5. \A i, j \in 1 .. Len(run_queue) :
           f[run_queue[i]] = f[run_queue[j]] => run_queue[i] = run_queue[j]
    BY <1>2, <1>4
  <1>6. Len(run_queue) <= PROC_MAX - 1
    <2> DEFINE n == PROC_MAX - 1
    <2>1. IsInjective(run_queue) /\ n \in Nat
      BY DEF SafeTable, RunQueueExact
    <2>2. f \in [S -> 1 .. n]
      BY <1>3
    <2> HIDE DEF f, S, n
    <2>3. Len(run_queue) <= n
      BY <1>1, <1>5, <2>1, <2>2, DistinctBound
    <2> QED  BY <2>3 DEF n
  <1> QED  BY <1>1, <1>6 DEF queue_is_full

\* And the allocator has room for the entry of a destroyed process.
LEMMA AllocatorRoom ==
    ASSUME SafeTable
    PROVE  Len(proc_allocator) <= PROC_MAX - 1 /\ ~queue_is_full(proc_allocator)
  <1> DEFINE S == Range(proc_allocator)
             f == [e \in S |-> e]
  <1>1. proc_allocator \in Seq(S) /\ Len(proc_allocator) \in Nat
    BY SeqOfRange, LenProperties DEF SafeTable, TableTypes, ProcType
  <1>2. S \subseteq 1 .. PROC_MAX - 1
    BY CurrentLive DEF SafeTable, AllocatorExact, Entries
  <1>3. f \in [S -> 1 .. PROC_MAX - 1]
    BY <1>2
  <1>4. \A i, j \in 1 .. Len(proc_allocator) :
           f[proc_allocator[i]] = f[proc_allocator[j]]
             => proc_allocator[i] = proc_allocator[j]
    BY <1>1, ElementOfSeq
  <1>5. Len(proc_allocator) <= PROC_MAX - 1
    <2> DEFINE n == PROC_MAX - 1
    <2>1. IsInjective(proc_allocator) /\ n \in Nat
      BY DEF SafeTable, AllocatorExact
    <2>2. f \in [S -> 1 .. n]
      BY <1>3
    <2> HIDE DEF f, S, n
    <2>3. Len(proc_allocator) <= n
      BY <1>1, <1>4, <2>1, <2>2, DistinctBound
    <2> QED  BY <2>3 DEF n
  <1> QED  BY <1>1, <1>5 DEF queue_is_full

-----------------------------------------------------------------------------
\* Each operation of scheduler.c and kproc.c preserves SafeTable.

LEMMA UnchangedSafe == SafeTable /\ UNCHANGED kprocVars => SafeTable'
  BY DEF kprocVars, SafeTable, TableTypes, AllocatorExact, PidsExact,
         RunQueueExact, OneRunning, OwnStacks, FreshSlices, Live

LEMMA InitSafe == kproc_init => SafeTable
  <1> SUFFICES ASSUME kproc_init PROVE SafeTable
    OBVIOUS
  <1> USE DEF kproc_init
  <1>1. Live = {0}
    BY DEF Live, NewProc, FreeProc, Entries
  <1>2. TableTypes
    BY DEF TableTypes, ProcType, NewProc, FreeProc, Entries, NULL, CLEARED
  <1>3. AllocatorExact
    <2>1. Range(proc_allocator) = 1 .. PROC_MAX - 1
      BY DEF Range
    <2> QED  BY <1>1, <2>1 DEF AllocatorExact, IsInjective, Entries
  <1>4. PidsExact
    BY <1>1 DEF PidsExact, NewProc, Entries
  <1>5. RunQueueExact
    BY <1>1 DEF RunQueueExact, IsInjective, Range
  <1>6. OneRunning
    BY NullIsNoEntry DEF OneRunning, NewProc, FreeProc
  <1>7. OwnStacks
    BY <1>1 DEF OwnStacks, NewProc, Entries
  <1>8. FreshSlices
    BY DEF FreshSlices, NewProc, FreeProc
  <1> QED  BY <1>2, <1>3, <1>4, <1>5, <1>6, <1>7, <1>8 DEF SafeTable

LEMMA TickSafe ==
    ASSUME SafeTable, current # NULL,
           proc_table[current].cpu_time < SCHEDULER_TIMESLICE,
           scheduler_timer, UNCHANGED <<proc_allocator, next_pid, proc_stack>>
    PROVE  SafeTable'
  <1> USE DEF scheduler_timer
  <1>1. current \in Entries /\ current \in Live
    BY CurrentLive DEF SafeTable, TableTypes, ProcType
  <1>2. \A e \in Entries : /\ proc_table'[e].pid = proc_table[e].pid
                           /\ proc_table'[e].state = proc_table[e].state
                           /\ proc_table'[e].trapframe = proc_table[e].trapframe
                           /\ e # current => proc_table'[e] = proc_table[e]
    BY DEF SafeTable, TableTypes, ProcType
  <1>3. Live' = Live /\ Live \subseteq Entries
    BY <1>2 DEF Live
  <1>4. TableTypes'
    <2>1. proc_table[current].cpu_time + 1 \in 0 .. SCHEDULER_TIMESLICE
      BY <1>1 DEF SafeTable, TableTypes, ProcType
    <2>2. proc_table' = [proc_table EXCEPT
             ![current] = [@ EXCEPT !.cpu_time = proc_table[current].cpu_time + 1]]
      BY <1>1 DEF SafeTable, TableTypes, ProcType
    <2> DEFINE charged == [proc_table[current] EXCEPT
                             !.cpu_time = proc_table[current].cpu_time + 1]
    <2>3. charged \in ProcType
      <3>1. proc_table[current] \in ProcType
        BY <1>1 DEF SafeTable, TableTypes
      <3> QED  BY <2>1, <3>1 DEF ProcType
    <2>4. proc_table' = [proc_table EXCEPT ![current] = charged]
      BY <1>1, <2>2 DEF SafeTable, TableTypes
    <2> HIDE DEF charged
    <2>5. proc_table' \in [Entries -> ProcType]
      BY <1>1, <2>3, <2>4 DEF SafeTable, TableTypes
    <2> QED  BY <2>5 DEF SafeTable, TableTypes
  <1>5. AllocatorExact'
    BY <1>3 DEF SafeTable, AllocatorExact
  <1>6. PidsExact'
    BY <1>1, <1>2, <1>3 DEF SafeTable, PidsExact
  <1>7. RunQueueExact'
    BY <1>2, <1>3 DEF SafeTable, RunQueueExact
  <1>8. OneRunning'
    BY <1>2 DEF SafeTable, OneRunning
  <1>9. OwnStacks'
    BY <1>2, <1>3 DEF SafeTable, OwnStacks
  <1>10. FreshSlices'
    BY <1>2 DEF SafeTable, FreshSlices
  <1> QED  BY <1>4, <1>5, <1>6, <1>7, <1>8, <1>9, <1>10 DEF SafeTable

LEMMA CreateSafe == SafeTable /\ kproc_create => SafeTable'
  <1> SUFFICES ASSUME SafeTable, kproc_create PROVE SafeTable'
    OBVIOUS
  <1>1. CASE queue_is_empty(proc_allocator) /\ UNCHANGED kprocVars
    BY <1>1, UnchangedSafe
  <1>2. CASE ~queue_is_empty(proc_allocator)
    <2> DEFINE entry == Head(proc_allocator)
    <2>1. /\ next_pid \in 1 .. MAX_PID
          /\ proc_table' = [proc_table EXCEPT ![entry] = NewProc(next_pid, entry)]
          /\ proc_stack' = [proc_stack EXCEPT ![entry] = next_pid]
          /\ proc_allocator' = queue_out(proc_allocator)
          /\ run_queue' = queue_in(run_queue, next_pid)
          /\ next_pid' = next_pid + 1
          /\ current' = current
      BY <1>2 DEF kproc_create, Added, SafeTable, TableTypes
    <2>2. /\ entry \in Entries \ Live
          /\ proc_allocator' \in Seq(Entries)
          /\ IsInjective(proc_allocator')
          /\ Range(proc_allocator') = (Entries \ Live) \ {entry}
      BY <1>2, <2>1, QueueOutProperties DEF SafeTable, TableTypes, AllocatorExact
    <2> HIDE DEF entry
    <2>3. /\ entry # 0 /\ entry # current
          /\ proc_table'[entry] = NewProc(next_pid, entry)
          /\ proc_stack'[entry] = next_pid
          /\ \A e \in Entries \ {entry} : /\ proc_table'[e] = proc_table[e]
                                          /\ proc_stack'[e] = proc_stack[e]
      <3>1. 0 \in Live /\ entry \notin Live /\ entry \in Entries
        BY <2>2 DEF SafeTable, PidsExact
      <3>2. entry # current
        BY <3>1, CurrentLive, NullIsNoEntry DEF SafeTable
      <3>3. proc_table \in [Entries -> ProcType] /\ proc_stack \in [Entries -> -1 .. MAX_PID]
        BY DEF SafeTable, TableTypes
      <3> QED  BY <2>1, <3>1, <3>2, <3>3
    <2>4. Live' = Live \cup {entry} /\ Live \subseteq Entries
      BY <2>2, <2>3 DEF Live, NewProc
    <2>5. \A e \in Live : proc_table[e].pid < next_pid
      <3>1. /\ next_pid \in 1 .. MAX_PID + 1 /\ proc_table[0].pid = 0
            /\ \A e \in Live \ {0} : proc_table[e].pid \in 1 .. next_pid - 1
        BY Zenon DEF SafeTable, PidsExact, TableTypes
      <3>2. next_pid \in Nat /\ 0 < next_pid
        BY <3>1
      <3> QED  BY <3>1, <3>2
    <2>6. /\ run_queue' \in Seq(1 .. MAX_PID)
          /\ IsInjective(run_queue')
          /\ Range(run_queue') = Range(run_queue) \cup {next_pid}
      <3>1. next_pid \notin Range(run_queue)
        BY <2>1, <2>5 DEF SafeTable, RunQueueExact
      <3>2. /\ run_queue \in Seq(1 .. MAX_PID) /\ next_pid \in 1 .. MAX_PID
            /\ IsInjective(run_queue)
            /\ ~queue_is_full(run_queue)
        BY <2>1, RunQueueRoom DEF SafeTable, TableTypes, ProcType, RunQueueExact
      <3>3. /\ queue_in(run_queue, next_pid) \in Seq(1 .. MAX_PID)
            /\ Range(queue_in(run_queue, next_pid)) = Range(run_queue) \cup {next_pid}
            /\ IsInjective(queue_in(run_queue, next_pid))
        BY <3>1, <3>2, QueueInProperties
      <3> QED  BY <2>1, <3>3
    <2>7. TableTypes'
      BY <2>1, <2>2, <2>3, <2>6 DEF SafeTable, TableTypes, ProcType, NewProc
    <2>8. AllocatorExact'
      BY <2>2, <2>4 DEF AllocatorExact
    <2>9. PidsExact'
      <3>1. 0 \in Live' /\ proc_table'[0].pid = 0
        BY <2>3, <2>4 DEF SafeTable, PidsExact, Entries
      <3>2. \A e \in Live' \ {0} : proc_table'[e].pid \in 1 .. next_pid' - 1
        BY <2>1, <2>2, <2>3, <2>4 DEF SafeTable, PidsExact, NewProc
      <3>3. \A e, f \in Live' : proc_table'[e].pid = proc_table'[f].pid => e = f
        BY <2>1, <2>2, <2>3, <2>4, <2>5 DEF SafeTable, PidsExact, NewProc
      <3>4. \A e \in Entries \ Live' : proc_table'[e] = FreeProc
        BY <2>3, <2>4 DEF SafeTable, PidsExact
      <3> QED  BY <3>1, <3>2, <3>3, <3>4 DEF PidsExact
    <2>10. RunQueueExact'
      <3>1. {proc_table'[e].pid : e \in {f \in Live' \ {0} : f # current}}
              = {proc_table[e].pid : e \in {f \in Live \ {0} : f # current}}
                  \cup {next_pid}
        BY <2>2, <2>3, <2>4 DEF NewProc
      <3> QED  BY <2>1, <2>6, <3>1 DEF SafeTable, RunQueueExact
    <2>11. OneRunning'
      BY <2>1, <2>2, <2>3 DEF SafeTable, OneRunning, NewProc
    <2>12. OwnStacks'
      BY <2>2, <2>3, <2>4 DEF SafeTable, OwnStacks, NewProc
    <2>13. FreshSlices'
      BY <2>1, <2>3 DEF SafeTable, FreshSlices, NewProc
    <2> QED  BY <2>7, <2>8, <2>9, <2>10, <2>11, <2>12, <2>13 DEF SafeTable
  <1> QED  BY <1>1, <1>2 DEF kproc_create

\* Taking a pid out of the run queue takes out that pid and no other.
LEMMA RotatedProperties ==
    ASSUME SafeTable, NEW pid \in Range(run_queue)
    PROVE  /\ Rotated(pid) \in Seq(1 .. MAX_PID)
           /\ Range(Rotated(pid)) = Range(run_queue) \ {pid}
           /\ IsInjective(Rotated(pid))
           /\ \E k \in 1 .. Len(run_queue) : Rotated(pid) = TakenOut(run_queue, k)
  <1>1. /\ run_queue \in Seq(1 .. MAX_PID) /\ IsInjective(run_queue)
        /\ DOMAIN run_queue = 1 .. Len(run_queue)
    BY LenProperties DEF SafeTable, TableTypes, ProcType, RunQueueExact
  <1>2. PICK k \in 1 .. Len(run_queue) : run_queue[k] = pid
    BY <1>1 DEF Range
  <1>3. {i \in DOMAIN run_queue : run_queue[i] = pid} = {k}
    BY <1>1, <1>2 DEF IsInjective
  <1>4. (CHOOSE i \in {k} : \A j \in {k} : i <= j) = k
    BY <1>1
  <1>5. Rotated(pid) = TakenOut(run_queue, k)
    BY <1>3, <1>4 DEF Rotated, TakenOut
  <1> QED  BY <1>1, <1>2, <1>5, RotateProperties

LEMMA DestroySafe ==
    ASSUME SafeTable, NEW proc \in Entries, kproc_destroy(proc)
    PROVE  SafeTable'
  <1>1. CASE proc_table[proc].pid = 0 /\ UNCHANGED kprocVars
    BY <1>1, UnchangedSafe
  <1>2. CASE proc_table[proc].pid # 0
    <2>1. /\ scheduler_remove(proc)
          /\ proc_table' = [proc_table EXCEPT ![proc] = FreeProc]
          /\ proc_allocator' = queue_in(proc_allocator, proc)
          /\ next_pid' = next_pid /\ proc_stack' = proc_stack
      BY <1>2 DEF kproc_destroy, Deallocated
    <2>2. proc \in Live \ {0} /\ Live \subseteq Entries
      BY <1>2 DEF SafeTable, PidsExact, FreeProc, Live
    <2>3. /\ proc_table'[proc] = FreeProc
          /\ \A e \in Entries \ {proc} : proc_table'[e] = proc_table[e]
      BY <2>1 DEF SafeTable, TableTypes, ProcType
    <2>4. Live' = Live \ {proc}
      BY <2>2, <2>3 DEF Live, FreeProc
    <2>5. /\ current' \in Entries \cup {NULL}
          /\ \A e \in Entries \ {proc} : e = current' <=> e = current
          /\ current' # proc
      BY <2>1, NullIsNoEntry DEF scheduler_remove, SafeTable, TableTypes
    <2>6. /\ run_queue' \in Seq(1 .. MAX_PID)
          /\ IsInjective(run_queue')
          /\ Range(run_queue') = {proc_table[e].pid :
                e \in {f \in Live \ {0} : f # current /\ f # proc}}
      <3>1. CASE proc = current
        BY <2>1, <3>1 DEF scheduler_remove, SafeTable, TableTypes, RunQueueExact
      <3>2. CASE proc # current
        <4> DEFINE pid == proc_table[proc].pid
        <4>1. pid \in Range(run_queue)
          BY <2>2, <3>2 DEF SafeTable, RunQueueExact
        <4>2. run_queue' = Rotated(pid)
          BY <2>1, <3>2 DEF scheduler_remove
        <4>3. \A e \in Live : proc_table[e].pid = pid <=> e = proc
          BY <2>2 DEF SafeTable, PidsExact
        <4>4. Range(run_queue) \ {pid} = {proc_table[e].pid :
                e \in {f \in Live \ {0} : f # current /\ f # proc}}
          BY <4>3 DEF SafeTable, RunQueueExact
        <4> HIDE DEF pid
        <4> QED  BY <4>1, <4>2, <4>4, RotatedProperties
      <3> QED  BY <3>1, <3>2
    <2>7. /\ proc_allocator' \in Seq(Entries)
          /\ IsInjective(proc_allocator')
          /\ Range(proc_allocator') = Range(proc_allocator) \cup {proc}
      <3>1. /\ proc_allocator \in Seq(Entries) /\ IsInjective(proc_allocator)
            /\ proc \notin Range(proc_allocator)
            /\ ~queue_is_full(proc_allocator)
        BY <2>2, AllocatorRoom DEF SafeTable, TableTypes, AllocatorExact
      <3>2. /\ queue_in(proc_allocator, proc) \in Seq(Entries)
            /\ Range(queue_in(proc_allocator, proc)) = Range(proc_allocator) \cup {proc}
            /\ IsInjective(queue_in(proc_allocator, proc))
        BY <3>1, QueueInProperties
      <3> QED  BY <2>1, <3>2
    <2>8. TableTypes'
      BY <2>1, <2>5, <2>6, <2>7 DEF SafeTable, TableTypes, ProcType, FreeProc
    <2>9. AllocatorExact'
      BY <2>2, <2>4, <2>7 DEF SafeTable, AllocatorExact
    <2>10. PidsExact'
      BY <2>1, <2>2, <2>3, <2>4 DEF SafeTable, PidsExact
    <2>11. RunQueueExact'
      <3>1. {proc_table'[e].pid : e \in {f \in Live' \ {0} : f # current'}}
              = {proc_table[e].pid :
                   e \in {f \in Live \ {0} : f # current /\ f # proc}}
        BY <2>2, <2>3, <2>4, <2>5
      <3> QED  BY <2>6, <3>1 DEF RunQueueExact
    <2>12. OneRunning'
      BY <2>3, <2>5 DEF SafeTable, OneRunning, FreeProc
    <2>13. OwnStacks'
      BY <2>1, <2>2, <2>3, <2>4 DEF SafeTable, OwnStacks
    <2>14. FreshSlices'
      BY <2>3, <2>5 DEF SafeTable, FreshSlices, FreeProc
    <2> QED  BY <2>8, <2>9, <2>10, <2>11, <2>12, <2>13, <2>14 DEF SafeTable
  <1> QED  BY <1>1, <1>2 DEF kproc_destroy

\* Whoever was running, the queue scheduler_run picks from holds every live user
\* process once.
LEMMA RequeuedProperties ==
    ASSUME SafeTable
    PROVE  /\ Requeued \in Seq(1 .. MAX_PID)
           /\ IsInjective(Requeued)
           /\ Range(Requeued) = {proc_table[e].pid : e \in Live \ {0}}
  <1> DEFINE pid == proc_table[current].pid
  <1>1. CASE current = NULL
    <2>1. {f \in Live \ {0} : f # current} = Live \ {0}
      BY <1>1, CurrentLive, NullIsNoEntry
    <2> QED  BY <1>1, <2>1 DEF Requeued, SafeTable, TableTypes, RunQueueExact
  <1>2. CASE current # NULL /\ pid = 0
    <2>1. current = 0
      BY <1>2, CurrentLive DEF SafeTable, PidsExact
    <2>2. {f \in Live \ {0} : f # current} = Live \ {0}
      BY <2>1
    <2> QED  BY <1>2, <2>2 DEF Requeued, SafeTable, TableTypes, RunQueueExact
  <1>3. CASE current # NULL /\ pid # 0
    <2>1. current \in Live \ {0} /\ pid \in 1 .. MAX_PID
      BY <1>3, CurrentLive DEF SafeTable, PidsExact, TableTypes, ProcType
    <2>2. Requeued = queue_in(run_queue, pid)
      BY <1>3 DEF Requeued
    <2>3. pid \notin Range(run_queue)
      BY <2>1 DEF SafeTable, PidsExact, RunQueueExact
    <2>4. Range(run_queue) \cup {pid} = {proc_table[e].pid : e \in Live \ {0}}
      BY <2>1 DEF SafeTable, RunQueueExact
    <2>5. /\ run_queue \in Seq(1 .. MAX_PID) /\ IsInjective(run_queue)
          /\ ~queue_is_full(run_queue)
      BY RunQueueRoom DEF SafeTable, TableTypes, ProcType, RunQueueExact
    <2> HIDE DEF pid
    <2> QED  BY <2>1, <2>2, <2>3, <2>4, <2>5, QueueInProperties
  <1> QED  BY <1>1, <1>2, <1>3

\* The process scheduler_run picks exists, and leaves the others in the queue.
LEMMA NextProperties ==
    ASSUME SafeTable, NEW next, next = pid_to_proc(NextPid(Requeued))
    PROVE  /\ next \in Live
           /\ proc_table[next].pid = NextPid(Requeued)
           /\ queue_out(Requeued) \in Seq(1 .. MAX_PID)
           /\ IsInjective(queue_out(Requeued))
           /\ Range(queue_out(Requeued)) =
                {proc_table[e].pid : e \in {f \in Live \ {0} : f # next}}
  <1> DEFINE q == Requeued
  <1>1. /\ q \in Seq(1 .. MAX_PID) /\ IsInjective(q)
        /\ Range(q) = {proc_table[e].pid : e \in Live \ {0}}
    BY RequeuedProperties
  <1> HIDE DEF q
  <1>2. CASE queue_is_empty(q)
    <2>1. NextPid(q) = 0 /\ queue_out(q) = q
      BY <1>2 DEF NextPid, queue_out
    <2>2. next = 0 /\ 0 \in Live /\ proc_table[0].pid = 0
      BY <2>1, FindsLive DEF q, SafeTable, PidsExact
    <2>3. {f \in Live \ {0} : f # next} = Live \ {0}
      BY <2>2
    <2> QED  BY <1>1, <2>1, <2>2, <2>3 DEF q
  <1>3. CASE ~queue_is_empty(q)
    <2>1. /\ NextPid(q) = Head(q) /\ Head(q) \in Range(q)
          /\ queue_out(q) \in Seq(1 .. MAX_PID)
          /\ IsInjective(queue_out(q))
          /\ Range(queue_out(q)) = Range(q) \ {Head(q)}
      BY <1>1, <1>3, QueueOutProperties DEF NextPid
    <2>2. PICK e \in Live \ {0} : proc_table[e].pid = Head(q)
      BY <1>1, <2>1
    <2>3. next = e
      BY <2>1, <2>2, FindsLive DEF q
    <2>4. \A f \in Live : proc_table[f].pid = Head(q) <=> f = e
      BY <2>2 DEF SafeTable, PidsExact
    <2>5. Range(q) \ {Head(q)} =
            {proc_table[f].pid : f \in {g \in Live \ {0} : g # next}}
      BY <1>1, <2>3, <2>4
    <2> QED  BY <2>1, <2>2, <2>3, <2>5 DEF q
  <1> QED  BY <1>2, <1>3

\* What a switch does to the table, and to whom it gives the CPU.
LEMMA SwitchEffect ==
    ASSUME SafeTable, scheduler_run, ~KeepsCpu
    PROVE  /\ current' \in Live /\ current' \in Entries /\ current' # NULL
           /\ proc_table[current'].pid = NextPid(Requeued)
           /\ run_queue' = queue_out(Requeued)
           /\ run_queue' \in Seq(1 .. MAX_PID)
           /\ IsInjective(run_queue')
           /\ Range(run_queue') =
                {proc_table[e].pid : e \in {f \in Live \ {0} : f # current'}}
           /\ proc_table' \in [Entries -> ProcType]
           /\ \A e \in Entries :
                 /\ proc_table'[e].pid = proc_table[e].pid
                 /\ proc_table'[e].state = IF e = current' THEN "RUNNING"
                                           ELSE IF e = current THEN "IDLE"
                                           ELSE proc_table[e].state
                 /\ proc_table'[e].cpu_time = 0
                 /\ proc_table'[e].trapframe = proc_table[e].trapframe
                 /\ e \notin {current, current'} => proc_table'[e] = proc_table[e]
  <1> DEFINE next == pid_to_proc(NextPid(Requeued))
  <1>1. /\ next \in Live /\ next \in Entries /\ next # NULL
        /\ proc_table[next].pid = NextPid(Requeued)
        /\ queue_out(Requeued) \in Seq(1 .. MAX_PID)
        /\ IsInjective(queue_out(Requeued))
        /\ Range(queue_out(Requeued)) =
             {proc_table[e].pid : e \in {f \in Live \ {0} : f # next}}
    BY NextProperties, CurrentLive, NullIsNoEntry
  <1>2. /\ current' = next
        /\ run_queue' = queue_out(Requeued)
        /\ proc_table' = [Released EXCEPT ![next].state = "RUNNING"]
    BY <1>1 DEF scheduler_run
  <1>3. /\ Released \in [Entries -> ProcType]
        /\ \A e \in Entries :
              /\ Released[e].pid = proc_table[e].pid
              /\ Released[e].state = IF e = current THEN "IDLE"
                                     ELSE proc_table[e].state
              /\ Released[e].cpu_time = 0
              /\ Released[e].trapframe = proc_table[e].trapframe
              /\ e # current => Released[e] = proc_table[e]
    <2>1. CASE current = NULL
      <3>1. Released = proc_table
        BY <2>1 DEF Released
      <3> QED  BY <2>1, <3>1, NullIsNoEntry
               DEF SafeTable, TableTypes, FreshSlices
    <2>2. CASE current # NULL
      <3>1. current \in Entries
        BY <2>2 DEF SafeTable, TableTypes
      <3>2. Released = [proc_table EXCEPT ![current] =
                          [@ EXCEPT !.cpu_time = 0, !.state = "IDLE"]]
        BY <2>2, <3>1 DEF Released, SafeTable, TableTypes
      <3> DEFINE p == proc_table[current]
      <3>3. p \in ProcType /\ DOMAIN proc_table = Entries
        BY <3>1 DEF SafeTable, TableTypes
      <3>4. Released[current] = [p EXCEPT !.cpu_time = 0, !.state = "IDLE"]
        BY <3>1, <3>2, <3>3
      <3>5. \A e \in Entries : e # current => Released[e] = proc_table[e]
        BY <3>2, <3>3
      <3>6. /\ Released[current] \in ProcType
            /\ Released[current].pid = p.pid
            /\ Released[current].state = "IDLE"
            /\ Released[current].cpu_time = 0
            /\ Released[current].trapframe = p.trapframe
        <4> DEFINE q == [p EXCEPT !.cpu_time = 0]
        <4>1. /\ q \in ProcType /\ q.cpu_time = 0
              /\ q.pid = p.pid /\ q.trapframe = p.trapframe
          BY <3>3 DEF ProcType
        <4>2. Released[current] = [q EXCEPT !.state = "IDLE"]
          BY <3>4
        <4> HIDE DEF q, p
        <4> QED  BY <4>1, <4>2 DEF ProcType
      <3>7. Released \in [Entries -> ProcType]
        BY <3>2, <3>5, <3>6 DEF SafeTable, TableTypes
      <3> QED  BY <3>5, <3>6, <3>7 DEF SafeTable, FreshSlices
    <2> QED  BY <2>1, <2>2
  <1> HIDE DEF next
  <1>4. /\ proc_table' \in [Entries -> ProcType]
        /\ \A e \in Entries :
              /\ proc_table'[e].pid = Released[e].pid
              /\ proc_table'[e].state = IF e = next THEN "RUNNING"
                                        ELSE Released[e].state
              /\ proc_table'[e].cpu_time = Released[e].cpu_time
              /\ proc_table'[e].trapframe = Released[e].trapframe
              /\ e # next => proc_table'[e] = Released[e]
    BY <1>1, <1>2, <1>3 DEF ProcType
  <1>5. /\ proc_table' \in [Entries -> ProcType]
        /\ \A e \in Entries :
              /\ proc_table'[e].pid = proc_table[e].pid
              /\ proc_table'[e].state = IF e = next THEN "RUNNING"
                                        ELSE IF e = current THEN "IDLE"
                                        ELSE proc_table[e].state
              /\ proc_table'[e].cpu_time = 0
              /\ proc_table'[e].trapframe = proc_table[e].trapframe
              /\ e \notin {current, next} => proc_table'[e] = proc_table[e]
    BY <1>3, <1>4
  <1> QED  BY <1>1, <1>2, <1>5

LEMMA RunSafe ==
    ASSUME SafeTable, scheduler_run,
           UNCHANGED <<proc_allocator, next_pid, proc_stack>>
    PROVE  /\ SafeTable'
           /\ current' # NULL
           /\ proc_table'[current'].cpu_time < SCHEDULER_TIMESLICE
  <1>1. CASE KeepsCpu
    BY <1>1, UnchangedSafe DEF scheduler_run, schedVars, kprocVars, KeepsCpu
  <1>2. CASE ~KeepsCpu
    <2> DEFINE next == current'
    <2>1. /\ next \in Live /\ next \in Entries /\ next # NULL
          /\ run_queue' \in Seq(1 .. MAX_PID)
          /\ IsInjective(run_queue')
          /\ Range(run_queue') =
               {proc_table[e].pid : e \in {f \in Live \ {0} : f # next}}
      BY <1>2, SwitchEffect
    <2>2. /\ proc_table' \in [Entries -> ProcType]
          /\ \A e \in Entries :
                /\ proc_table'[e].pid = proc_table[e].pid
                /\ proc_table'[e].state = IF e = next THEN "RUNNING"
                                          ELSE IF e = current THEN "IDLE"
                                          ELSE proc_table[e].state
                /\ proc_table'[e].cpu_time = 0
                /\ proc_table'[e].trapframe = proc_table[e].trapframe
                /\ e \notin {current, next} => proc_table'[e] = proc_table[e]
      BY <1>2, SwitchEffect
    <2>3. Live' = Live /\ Live \subseteq Entries
      <3>1. \A e \in Entries : proc_table'[e].state # "NONE"
                                 <=> proc_table[e].state # "NONE"
        BY <2>1, <2>2, CurrentLive, NullIsNoEntry DEF Live
      <3> QED  BY <3>1 DEF Live
    <2>4. TableTypes'
      BY <2>1, <2>2 DEF SafeTable, TableTypes
    <2>5. AllocatorExact'
      BY <2>3 DEF SafeTable, AllocatorExact
    <2>6. PidsExact'
      <3>1. \A e \in Entries \ Live : e # current /\ e # next
        BY <2>1, CurrentLive, NullIsNoEntry
      <3>2. \A e \in Entries \ Live : proc_table'[e] = proc_table[e]
        BY <2>2, <3>1
      <3> QED  BY <2>2, <2>3, <3>2 DEF SafeTable, PidsExact
    <2>7. RunQueueExact'
      <3>1. {proc_table'[e].pid : e \in {f \in Live' \ {0} : f # next}}
              = {proc_table[e].pid : e \in {f \in Live \ {0} : f # next}}
        BY <2>2, <2>3
      <3> QED  BY <2>1, <3>1 DEF RunQueueExact
    <2>8. OneRunning'
      BY <2>2 DEF SafeTable, OneRunning
    <2>9. OwnStacks'
      BY <2>2, <2>3 DEF SafeTable, OwnStacks
    <2>10. FreshSlices'
      BY <2>2 DEF FreshSlices
    <2>11. proc_table'[current'].cpu_time < SCHEDULER_TIMESLICE
      BY <2>1, <2>2
    <2> QED  BY <2>1, <2>4, <2>5, <2>6, <2>7, <2>8, <2>9, <2>10, <2>11
             DEF SafeTable
  <1> QED  BY <1>1, <1>2

-----------------------------------------------------------------------------
\* Each step of the kernel preserves IInv.

LEMMA InitIInv == Init => IInv
  <1>1. Init => SafeTable
    BY InitSafe DEF Init
  <1>2. Init => SafeMode
    BY DEF Init, SafeMode, Modes, Irqs, Busy
  <1> QED  BY <1>1, <1>2 DEF IInv

\* The frame of the interrupted process goes where its last one was.
LEMMA EnterStep ==
    ASSUME IInv, NEW irq \in Irqs, kernel_context_enter(irq)
    PROVE  IInv' /\ UNCHANGED kprocVars
  <1>1. /\ mode = "process" /\ mode' = irq /\ cpu' = InKernel
        /\ proc_table' = [proc_table EXCEPT ![current].trapframe = cpu.stack]
        /\ proc_stack' = [proc_stack EXCEPT ![cpu.stack] = cpu.pid]
        /\ UNCHANGED <<run_queue, current, proc_allocator, next_pid>>
    BY DEF kernel_context_enter, FrameSaved
  <1>2. /\ current # NULL
        /\ cpu.stack = current /\ cpu.pid = proc_table[current].pid
        /\ proc_table[current].cpu_time < SCHEDULER_TIMESLICE
    BY <1>1 DEF IInv, SafeMode, Busy
  <1>3. /\ current \in Live /\ current \in Entries
        /\ proc_table[current].trapframe = current
        /\ proc_stack[current] = proc_table[current].pid
    BY <1>2, CurrentLive DEF IInv, SafeTable, OwnStacks
  <1>4. proc_table' = proc_table
    <2> DEFINE p == proc_table[current]
    <2>1. p \in ProcType /\ p.trapframe = current
      BY <1>3 DEF IInv, SafeTable, TableTypes
    <2>2. [p EXCEPT !.trapframe = current] = p
      BY <2>1 DEF ProcType
    <2>3. proc_table' = [proc_table EXCEPT ![current] = [p EXCEPT !.trapframe = current]]
      BY <1>1, <1>2
    <2> QED  BY <1>3, <2>2, <2>3 DEF IInv, SafeTable, TableTypes
  <1>5. proc_stack' = proc_stack
    BY <1>1, <1>2, <1>3 DEF IInv, SafeTable, TableTypes
  <1>6. UNCHANGED kprocVars
    BY <1>1, <1>4, <1>5 DEF kprocVars
  <1>7. SafeMode'
    BY <1>1, <1>2, <1>4 DEF SafeMode, Modes, Irqs, Busy
  <1> QED  BY <1>6, <1>7, UnchangedSafe DEF IInv

\* A debug command, from the keyboard handler or at boot.
LEMMA CommandStep ==
    ASSUME SafeTable, cpu = InKernel, UNCHANGED cpu,
           NEW cmd \in DebugCommands, NEW after \in {"schedule", "boot"},
           kernel_debug_command(cmd, after)
    PROVE  IInv'
  <1>1. mode' \in {"schedule", "boot", "undefined", "exited"}
    BY DEF kernel_debug_command
  <1>2. SafeMode'
    BY <1>1 DEF SafeMode, Modes, Irqs, Busy
  <1>3. SafeTable'
    <2>1. CASE kproc_create
      BY <2>1, CreateSafe
    <2>2. CASE current # NULL /\ kproc_destroy(current)
      <3>1. current \in Entries
        BY <2>2 DEF SafeTable, TableTypes
      <3> QED  BY <2>2, <3>1, DestroySafe
    <2>3. CASE UNCHANGED kprocVars
      BY <2>3, UnchangedSafe
    <2> QED  BY <2>1, <2>2, <2>3 DEF kernel_debug_command
  <1> QED  BY <1>2, <1>3 DEF IInv

\* The frame popped is the current process's own.
LEMMA ExitStep ==
    ASSUME IInv, kernel_context_exit
    PROVE  IInv'
  <1>1. /\ mode = "exit" /\ mode' = "process" /\ cpu' = Restored
        /\ UNCHANGED kprocVars
    BY DEF kernel_context_exit
  <1>2. /\ current # NULL
        /\ proc_table[current].cpu_time < SCHEDULER_TIMESLICE
    BY <1>1 DEF IInv, SafeMode, Busy
  <1>3. Restored = [stack |-> current, pid |-> proc_table[current].pid]
    BY <1>2, CurrentLive DEF Restored, IInv, SafeTable, OwnStacks
  <1>4. SafeMode'
    BY <1>1, <1>2, <1>3 DEF SafeMode, Modes, Busy, kprocVars
  <1> QED  BY <1>1, <1>4, UnchangedSafe DEF IInv

LEMMA StepIInv == IInv /\ [Next]_vars => IInv'
  <1> SUFFICES ASSUME IInv, [Next]_vars PROVE IInv'
    OBVIOUS
  <1>1. SafeTable /\ SafeMode
    BY DEF IInv
  <1>2. ASSUME NEW irq \in Irqs, kernel_context_enter(irq)
        PROVE  IInv'
    BY <1>2, EnterStep
  <1>3. CASE timer_irq_handler
    <2>1. /\ current # NULL
          /\ proc_table[current].cpu_time < SCHEDULER_TIMESLICE
      BY <1>1, <1>3 DEF timer_irq_handler, SafeMode, Busy, Irqs
    <2>2. SafeTable'
      BY <1>1, <1>3, <2>1, TickSafe DEF timer_irq_handler
    <2>3. SafeMode'
      BY <1>1, <1>3 DEF timer_irq_handler, SafeMode, Modes, Irqs, Busy
    <2> QED  BY <2>2, <2>3 DEF IInv
  <1>4. CASE keyboard_irq_handler
    <2>1. cpu = InKernel /\ UNCHANGED cpu
      BY <1>1, <1>4 DEF keyboard_irq_handler, SafeMode
    <2>2. CASE \E cmd \in DebugCommands : kernel_debug_command(cmd, "schedule")
      BY <1>1, <2>1, <2>2, CommandStep
    <2>3. CASE mode' = "schedule" /\ UNCHANGED kprocVars
      BY <1>1, <2>1, <2>3, UnchangedSafe DEF IInv, SafeMode, Modes, Irqs, Busy
    <2> QED  BY <1>4, <2>2, <2>3 DEF keyboard_irq_handler
  <1>5. CASE boot_command
    <2>1. cpu = InKernel /\ UNCHANGED cpu
      BY <1>1, <1>5 DEF boot_command, SafeMode
    <2> QED  BY <1>1, <1>5, <2>1, CommandStep DEF boot_command
  <1>6. CASE boot_key
    BY <1>1, <1>6, UnchangedSafe DEF boot_key, IInv, SafeMode, Modes, Irqs, Busy
  <1>7. CASE destroy_any
    <2>1. SafeTable'
      BY <1>1, <1>7, DestroySafe DEF destroy_any
    <2>2. SafeMode'
      BY <1>1, <1>7 DEF destroy_any, SafeMode, Modes, Irqs, Busy
    <2> QED  BY <2>1, <2>2 DEF IInv
  <1>8. CASE schedule
    <2>1. /\ SafeTable'
          /\ current' # NULL
          /\ proc_table'[current'].cpu_time < SCHEDULER_TIMESLICE
      BY <1>1, <1>8, RunSafe DEF schedule
    <2>2. SafeMode'
      BY <1>1, <1>8, <2>1 DEF schedule, SafeMode, Modes, Irqs, Busy
    <2> QED  BY <2>1, <2>2 DEF IInv
  <1>9. CASE kernel_context_exit
    BY <1>9, ExitStep
  <1>10. CASE halted \/ UNCHANGED vars
    BY <1>1, <1>10, UnchangedSafe
    DEF halted, vars, kprocVars, IInv, SafeMode, Busy
  <1> QED  BY <1>2, <1>3, <1>4, <1>5, <1>6, <1>7, <1>8, <1>9, <1>10 DEF Next

LEMMA IInvHolds == Spec => []IInv
  <1> QED  BY InitIInv, StepIInv, PTL DEF Spec

-----------------------------------------------------------------------------
\* No history of creations, destructions, interrupts and switches takes a pid, a
\* slice, a queue or a stack out of its bounds.
THEOREM TypesCorrect == Spec => []TypeOK
  <1>1. IInv => TypeOK
    BY DEF IInv, SafeTable, TableTypes, ProcType, SafeMode, TypeOK,
        InKernel, NULL, Busy
  <1> QED  BY IInvHolds, <1>1, PTL

\* kproc.c neither leaks an entry of the process table nor hands one out twice.
THEOREM AllocatorCorrect == Spec => []AllocatorExact
  <1>1. IInv => AllocatorExact
    BY DEF IInv, SafeTable
  <1> QED  BY IInvHolds, <1>1, PTL

\* Live processes never share a pid, and pid 0 is always the idle task's in the
\* first entry, so pid_to_proc finds the process that was meant.
THEOREM PidsCorrect == Spec => []PidsExact
  <1>1. IInv => PidsExact
    BY DEF IInv, SafeTable
  <1> QED  BY IInvHolds, <1>1, PTL

\* No process is lost from the run queue of scheduler.c, queued twice, or left in
\* it after its destruction.
THEOREM RunQueueCorrect == Spec => []RunQueueExact
  <1>1. IInv => RunQueueExact
    BY DEF IInv, SafeTable
  <1> QED  BY IInvHolds, <1>1, PTL

\* The process table and the `current' pointer of kernel.c always agree.
THEOREM CurrentCorrect == Spec => []CurrentExact
  <1>1. IInv => CurrentExact
    BY DEF IInv, SafeTable, OneRunning, SafeMode, Busy, CurrentExact
  <1> QED  BY IInvHolds, <1>1, PTL

\* kernel_context_exit only ever resumes a process in its own context, on its own
\* stack.
THEOREM ContextCorrect == Spec => []ContextIntegrity
  <1>1. IInv => ContextIntegrity
    BY DEF IInv, SafeTable, OwnStacks, SafeMode, ContextIntegrity
  <1> QED  BY IInvHolds, <1>1, PTL

\* No process executes beyond its time slice, or starts one partly used.
THEOREM SliceCorrect == Spec => []SliceBound
  <1>1. IInv => SliceBound
    BY DEF IInv, SafeTable, FreshSlices, SafeMode, Busy, SliceBound
  <1> QED  BY IInvHolds, <1>1, PTL

\* The kernel_panic of scheduler_run is unreachable.
THEOREM PanicFree == Spec => []NeverPanics
  <1>1. IInv => NeverPanics
    BY DEF IInv, SafeMode, NeverPanics
  <1> QED  BY IInvHolds, <1>1, PTL

\* ctrl+x follows a null pointer at the prompt of the boot only: DestroyReturns
\* fails there and nowhere else, for a keyboard interrupt finds a process running.
THEOREM UndefinedAtBootOnly ==
    Spec => [][mode' = "undefined" => mode \in {"boot", "undefined"}]_vars
  <1>1. ASSUME IInv, [Next]_vars, mode' = "undefined", mode # "undefined"
        PROVE  mode = "boot"
    <2>1. CASE keyboard_irq_handler
      <3>1. current # NULL
        BY <1>1, <2>1 DEF keyboard_irq_handler, IInv, SafeMode, Busy, Irqs
      <3> QED  BY <1>1, <2>1, <3>1 DEF keyboard_irq_handler, kernel_debug_command
    <2>2. CASE boot_command \/ boot_key
      BY <2>2 DEF boot_command, boot_key
    <2> QED  BY <1>1, <2>1, <2>2
             DEF Next, vars, kernel_context_enter, timer_irq_handler, destroy_any,
                 schedule, kernel_context_exit, halted, Irqs
  <1>2. IInv /\ [Next]_vars =>
          [mode' = "undefined" => mode \in {"boot", "undefined"}]_vars
    BY <1>1
  <1> QED  BY IInvHolds, <1>2, PTL DEF Spec

-----------------------------------------------------------------------------
\* The order in which the processes get the CPU: the kernel is a round-robin
\* scheduler, and no ready process ever loses its turn, unless a process is
\* destroyed that waits: the search for it rotates the run queue.

\* A step that changes what a scheduler sees is one of these, with what the
\* rest of IInv gives it.
Arrives == kproc_create /\ ~queue_is_empty(proc_allocator)

Ends ==
    /\ current # NULL
    /\ proc_table[current].pid # 0
    /\ kproc_destroy(current)
    /\ mode # "timer"

Withdraws ==
    /\ DESTROY_ANY
    /\ \E proc \in Entries \ {current} :
          proc_table[proc].pid # 0 /\ kproc_destroy(proc)
    /\ mode # "timer"

Ticks == mode = "timer" /\ timer_irq_handler

Switches == mode # "timer" /\ scheduler_run /\ ~KeepsCpu /\ UNCHANGED next_pid

Stutters == mode # "timer" /\ UNCHANGED kprocVars

LEMMA StepKinds ==
    ASSUME IInv, [Next]_vars
    PROVE  (Arrives /\ mode # "timer") \/ Ends \/ Withdraws \/ Ticks \/ Switches
             \/ Stutters \/ UNCHANGED vars
  <1>1. ASSUME NEW irq \in Irqs, kernel_context_enter(irq)
        PROVE  Stutters
    BY <1>1, EnterStep DEF Stutters, kernel_context_enter
  <1>2. ASSUME NEW cmd \in DebugCommands, NEW after,
               kernel_debug_command(cmd, after), mode # "timer"
        PROVE  Arrives \/ Ends \/ Stutters
    <2>1. CASE kproc_create
      BY <1>2, <2>1 DEF kproc_create, Arrives, Stutters
    <2>2. CASE current # NULL /\ kproc_destroy(current)
      BY <1>2, <2>2 DEF kproc_destroy, Ends, Stutters
    <2>3. CASE UNCHANGED kprocVars
      BY <1>2, <2>3 DEF Stutters
    <2> QED  BY <1>2, <2>1, <2>2, <2>3 DEF kernel_debug_command
  <1>3. CASE timer_irq_handler
    BY <1>3 DEF Ticks, timer_irq_handler
  <1>4. CASE keyboard_irq_handler
    BY <1>2, <1>4 DEF keyboard_irq_handler, Stutters
  <1>5. CASE boot_command
    BY <1>2, <1>5 DEF boot_command
  <1>6. CASE boot_key
    BY <1>6 DEF boot_key, Stutters
  <1>7. CASE destroy_any
    <2>1. PICK proc \in Entries : kproc_destroy(proc)
      BY <1>7 DEF destroy_any
    <2>2. CASE proc_table[proc].pid = 0
      BY <1>7, <2>1, <2>2 DEF destroy_any, kproc_destroy, Stutters
    <2>3. CASE proc_table[proc].pid # 0 /\ proc = current
      BY <1>7, <2>1, <2>3, NullIsNoEntry DEF destroy_any, Ends
    <2>4. CASE proc_table[proc].pid # 0 /\ proc # current
      BY <1>7, <2>1, <2>4 DEF destroy_any, Withdraws
    <2> QED  BY <2>2, <2>3, <2>4
  <1>8. CASE schedule
    <2>1. mode # "timer" /\ scheduler_run
          /\ UNCHANGED <<proc_allocator, next_pid, proc_stack>>
      BY <1>8 DEF schedule
    <2>2. CASE KeepsCpu
      BY <2>1, <2>2 DEF scheduler_run, schedVars, Stutters, kprocVars
    <2>3. CASE ~KeepsCpu
      BY <2>1, <2>3 DEF Switches
    <2> QED  BY <2>2, <2>3
  <1>9. CASE kernel_context_exit
    BY <1>9 DEF kernel_context_exit, Stutters
  <1>10. CASE halted
    BY <1>10 DEF halted
  <1> QED  BY <1>1, <1>3, <1>4, <1>5, <1>6, <1>7, <1>8, <1>9, <1>10 DEF Next

-----------------------------------------------------------------------------
\* Refinement of RoundRobin.

LEMMA CreateEffect ==
    ASSUME SafeTable, Arrives
    PROVE  /\ next_pid \in 1 .. MAX_PID /\ next_pid' = next_pid + 1
           /\ run_queue' = Append(run_queue, next_pid)
           /\ current' = current
           /\ current # NULL => proc_table'[current] = proc_table[current]
  <1> DEFINE entry == Head(proc_allocator)
  <1>1. /\ next_pid \in 1 .. MAX_PID
        /\ proc_table' = [proc_table EXCEPT ![entry] = NewProc(next_pid, entry)]
        /\ run_queue' = queue_in(run_queue, next_pid)
        /\ next_pid' = next_pid + 1
        /\ current' = current
    BY DEF Arrives, kproc_create, kprocVars, Added, SafeTable, TableTypes
  <1>2. entry \notin Live
    BY QueueOutProperties DEF Arrives, SafeTable, TableTypes, AllocatorExact
  <1>3. run_queue' = Append(run_queue, next_pid)
    BY <1>1, RunQueueRoom DEF queue_in
  <1>4. current # NULL => current \in Entries /\ current # entry
    BY <1>2, CurrentLive
  <1> HIDE DEF entry
  <1> QED  BY <1>1, <1>3, <1>4 DEF SafeTable, TableTypes

\* A waiting process that is destroyed is taken out of the run queue, which
\* goes on behind it.
LEMMA WithdrawEffect ==
    ASSUME SafeTable, Withdraws
    PROVE  /\ next_pid' = next_pid /\ current' = current
           /\ current # NULL => proc_table'[current] = proc_table[current]
           /\ \E k \in 1 .. Len(run_queue) : run_queue' = TakenOut(run_queue, k)
  <1>1. PICK proc \in Entries \ {current} :
            proc_table[proc].pid # 0 /\ kproc_destroy(proc)
    BY DEF Withdraws
  <1> DEFINE pid == proc_table[proc].pid
  <1>2. /\ next_pid' = next_pid /\ current' = current
        /\ proc_table' = [proc_table EXCEPT ![proc] = FreeProc]
        /\ run_queue' = Rotated(pid)
    BY <1>1 DEF kproc_destroy, scheduler_remove
  <1>3. proc \in {f \in Live \ {0} : f # current}
    BY <1>1 DEF SafeTable, PidsExact, FreeProc, Live
  <1>4. pid \in Range(run_queue)
    BY <1>3 DEF SafeTable, RunQueueExact
  <1>5. current # NULL => proc_table'[current] = proc_table[current]
    BY <1>1, <1>2 DEF SafeTable, TableTypes
  <1> HIDE DEF pid
  <1> QED  BY <1>2, <1>4, <1>5, RotatedProperties

\* To take an item out where the search has come to is to turn the queue.
LEMMA TakenOutIsTurned ==
    ASSUME NEW S, NEW q \in Seq(S), NEW k \in 1 .. Len(q)
    PROVE  TakenOut(q, k) = RR!Turned(RR!Without(q, k), k - 1)
  <1> DEFINE n == Len(q)
             before == SubSeq(q, 1, k - 1)
             after == SubSeq(q, k + 1, n)
             rest == before \o after
  <1>1. n \in Nat /\ k \in 1 .. n /\ n - k \in Nat /\ k - 1 \in Nat
    BY LenProperties
  <1>2. /\ before \in Seq(S) /\ Len(before) = k - 1
        /\ after \in Seq(S) /\ Len(after) = n - k
    BY <1>1
  <1> HIDE DEF before, after
  <1>3. /\ rest \in Seq(S) /\ Len(rest) = (k - 1) + (n - k)
        /\ \A i \in 1 .. k - 1 : rest[i] = before[i]
        /\ \A i \in 1 .. n - k : rest[k - 1 + i] = after[i]
    <2> DEFINE m == k - 1
               r == n - k
    <2>1. m \in Nat /\ r \in Nat /\ Len(before) = m /\ Len(after) = r
      BY <1>1, <1>2
    <2> HIDE DEF m, r
    <2>2. /\ rest \in Seq(S) /\ Len(rest) = m + r
          /\ \A i \in 1 .. m + r :
                rest[i] = IF i <= m THEN before[i] ELSE after[i - m]
      BY <1>2, <2>1, ConcatProperties
    <2>3. /\ \A i \in 1 .. m : rest[i] = before[i]
          /\ \A i \in 1 .. r : rest[m + i] = after[i]
      <3> HIDE DEF rest
      <3>1. ASSUME NEW i \in 1 .. r
            PROVE  m + i \in 1 .. m + r /\ ~(m + i <= m) /\ (m + i) - m = i
        BY <2>1
      <3> QED  BY <2>1, <2>2, <3>1
    <2> QED  BY <2>2, <2>3 DEF m, r
  <1> HIDE DEF rest
  <1>4. SubSeq(rest, 1, k - 1) = before
    BY <1>1, <1>2, <1>3
  <1>5. SubSeq(rest, (k - 1) + 1, Len(rest)) = after
    BY <1>1, <1>2, <1>3
  <1>6. RR!Without(q, k) = rest /\ TakenOut(q, k) = after \o before
    BY DEF RR!Without, TakenOut, rest, before, after
  <1> QED  BY <1>4, <1>5, <1>6 DEF RR!Turned

LEMMA InitIsRoundRobin == Init => RR!Init
  BY DEF Init, kproc_init, RR!Init, RR!Nobody

LEMMA StepIsRoundRobin ==
    IInv /\ [Next]_vars => [RR!Next]_RR!vars
  <1> SUFFICES ASSUME IInv, [Next]_vars
               PROVE  [RR!Next]_RR!vars
    OBVIOUS
  <1>1. SafeTable /\ SafeMode
    BY DEF IInv
  <1>2. CASE Arrives
    <2>1. /\ next_pid \in 1 .. MAX_PID /\ next_pid' = next_pid + 1
          /\ run_queue' = Append(run_queue, next_pid)
          /\ current' = current
          /\ current # NULL => proc_table'[current] = proc_table[current]
      BY <1>1, <1>2, CreateEffect
    <2>2. /\ next_pid - 1 < MAX_PID
          /\ next_pid' - 1 = (next_pid - 1) + 1
          /\ next_pid' - 1 = next_pid
      BY <2>1
    <2>3. RR!Arrive
      BY <2>1, <2>2 DEF RR!Arrive
    <2> QED  BY <2>3 DEF RR!Next
  <1>3. CASE Ends
    <2>1. /\ current # NULL /\ proc_table[current].pid \notin {-1, 0}
          /\ current' = NULL
          /\ UNCHANGED <<run_queue, next_pid>>
      BY <1>1, <1>3 DEF Ends, kproc_destroy, scheduler_remove, SafeTable,
                        TableTypes, ProcType
    <2>2. RR!Leave
      BY <2>1 DEF RR!Leave, RR!Nobody, RR!Idle
    <2> QED  BY <2>2 DEF RR!Next
  <1>4. CASE Ticks
    <2>1. /\ current # NULL /\ current \in Entries
          /\ proc_table[current].cpu_time < SCHEDULER_TIMESLICE
      BY <1>1, <1>4 DEF Ticks, SafeMode, Busy, Irqs, SafeTable, TableTypes
    <2>2. /\ current' = current /\ run_queue' = run_queue /\ next_pid' = next_pid
          /\ proc_table'[current].pid = proc_table[current].pid
          /\ proc_table'[current].cpu_time = proc_table[current].cpu_time + 1
      BY <1>1, <1>4, <2>1 DEF Ticks, timer_irq_handler, scheduler_timer,
                              SafeTable, TableTypes, ProcType
    <2>3. proc_table[current].pid # -1
      BY <1>1, <2>1 DEF SafeTable, TableTypes, ProcType
    <2>4. RR!Tick
      BY <2>1, <2>2, <2>3 DEF RR!Tick, RR!Nobody
    <2> QED  BY <2>4 DEF RR!Next
  <1>5. CASE Switches
    <2>1. /\ current' # NULL
          /\ run_queue' = queue_out(Requeued)
          /\ proc_table'[current'].pid = NextPid(Requeued)
          /\ proc_table'[current'].cpu_time = 0
          /\ next_pid' = next_pid
      BY <1>1, <1>5, SwitchEffect DEF Switches
    <2>2. RR!GiveTo(Requeued)
      <3>1. Requeued \in Seq(1 .. MAX_PID) /\ (Len(Requeued) = 0 <=> Requeued = <<>>)
        BY <1>1, RequeuedProperties, EmptySeq
      <3> QED  BY <2>1, <3>1
               DEF RR!GiveTo, RR!Idle, NextPid, queue_out, queue_is_empty
    <2>3. CASE current = NULL
      BY <2>2, <2>3 DEF Requeued, RR!Dispatch, RR!Nobody, RR!Next
    <2>4. CASE current # NULL
      <3>1. /\ proc_table[current].cpu_time = SCHEDULER_TIMESLICE
            /\ proc_table[current].pid # -1
        <4>1. proc_table[current] \in ProcType
          BY <1>1, <2>4 DEF SafeTable, TableTypes
        <4>2. ~(proc_table[current].cpu_time < SCHEDULER_TIMESLICE)
          BY <1>5, <2>4 DEF Switches, KeepsCpu
        <4> QED  BY <4>1, <4>2 DEF ProcType
      <3>2. Requeued = IF proc_table[current].pid = 0 THEN run_queue
                       ELSE Append(run_queue, proc_table[current].pid)
        BY <1>1, <2>4, RunQueueRoom DEF Requeued, queue_in
      <3>3. RR!Preempt
        BY <2>2, <2>4, <3>1, <3>2 DEF RR!Preempt, RR!Nobody, RR!Idle
      <3> QED  BY <3>3 DEF RR!Next
    <2> QED  BY <2>3, <2>4
  <1>6. CASE Stutters \/ UNCHANGED vars
    BY <1>6 DEF Stutters, kprocVars, vars, RR!vars
  <1>7. CASE Withdraws
    <2>1. /\ next_pid' = next_pid /\ current' = current
          /\ current # NULL => proc_table'[current] = proc_table[current]
      BY <1>1, <1>7, WithdrawEffect
    <2>2. PICK k \in 1 .. Len(run_queue) : run_queue' = TakenOut(run_queue, k)
      BY <1>1, <1>7, WithdrawEffect
    <2>3. run_queue \in Seq(1 .. MAX_PID) /\ k - 1 \in 0 .. Len(run_queue) - 1
      BY <1>1, <2>2, LenProperties DEF SafeTable, TableTypes
    <2>4. run_queue' = RR!Turned(RR!Without(run_queue, k), k - 1)
      BY <2>2, <2>3, TakenOutIsTurned
    <2>5. RR!Withdraw
      BY <1>7, <2>1, <2>3, <2>4 DEF RR!Withdraw, Withdraws
    <2> QED  BY <2>5 DEF RR!Next
  <1> QED  BY <1>2, <1>3, <1>4, <1>5, <1>6, <1>7, StepKinds

\* The kernel gives the CPU to its processes round-robin: a slice each, in order
\* of arrival, to the idle task only when nobody waits; and where waiting
\* processes are destroyed, the others still go round in the same order.
THEOREM Refinement == Spec => IsRoundRobin
  <1> QED  BY IInvHolds, InitIsRoundRobin, StepIsRoundRobin, PTL
           DEF Spec, IsRoundRobin, RR!Spec

-----------------------------------------------------------------------------
\* No process loses its turn.

LEMMA PlaceIs ==
    ASSUME NEW S, NEW q \in Seq(S), IsInjective(q), NEW i \in 1 .. Len(q)
    PROVE  (CHOOSE j \in DOMAIN q : q[j] = q[i]) = i
  <1>1. DOMAIN q = 1 .. Len(q)
    BY LenProperties
  <1>2. \A j \in DOMAIN q : q[j] = q[i] <=> j = i
    BY <1>1 DEF IsInjective
  <1> QED  BY <1>1, <1>2

Charge == IF current = NULL THEN SCHEDULER_TIMESLICE
          ELSE proc_table[current].cpu_time

\* A queued process and its place in the run queue.
LEMMA QueuedAt ==
    ASSUME SafeTable, NEW pid \in Range(run_queue)
    PROVE  /\ run_queue \in Seq(1 .. MAX_PID) /\ IsInjective(run_queue)
           /\ Len(run_queue) \in Nat
           /\ Charge \in 0 .. SCHEDULER_TIMESLICE
           /\ \E i \in 1 .. Len(run_queue) :
                 /\ run_queue[i] = pid
                 /\ Wait(pid) = i * SCHEDULER_TIMESLICE - Charge
  <1>1. /\ run_queue \in Seq(1 .. MAX_PID) /\ IsInjective(run_queue)
        /\ DOMAIN run_queue = 1 .. Len(run_queue) /\ Len(run_queue) \in Nat
    BY LenProperties DEF SafeTable, TableTypes, RunQueueExact
  <1>2. PICK i \in 1 .. Len(run_queue) : run_queue[i] = pid
    BY <1>1 DEF Range
  <1>3. (CHOOSE j \in DOMAIN run_queue : run_queue[j] = pid) = i
    BY <1>1, <1>2, PlaceIs
  <1>4. Wait(pid) = i * SCHEDULER_TIMESLICE - Charge
    BY <1>3 DEF Wait, Charge
  <1>5. Charge \in 0 .. SCHEDULER_TIMESLICE
    BY DEF Charge, SafeTable, TableTypes, ProcType
  <1> QED  BY <1>1, <1>2, <1>4, <1>5

\* The same after a step that leaves the process in the queue.
LEMMA QueuedNextAt ==
    ASSUME NEW pid, NEW i \in 1 .. Len(run_queue'), run_queue'[i] = pid,
           run_queue' \in Seq(1 .. MAX_PID), IsInjective(run_queue')
    PROVE  Wait(pid)' = i * SCHEDULER_TIMESLICE - Charge'
  <1>1. (CHOOSE j \in DOMAIN run_queue' : run_queue'[j] = pid) = i
    BY PlaceIs
  <1> QED  BY <1>1 DEF Wait, Charge

\* A ready process runs after as many timer interrupts as all slices before it
\* can have, and not after its wait is over; in either kind of kernel, that
\* where waiting processes are destroyed included.
THEOREM WaitCorrect == Spec => []WaitBounded
  <1> DEFINE S == SCHEDULER_TIMESLICE
             most == PROC_MAX - 1
  <1>1. ASSUME IInv, NEW pid \in Range(run_queue)
        PROVE  /\ Wait(pid) \in 0 .. most * S
               /\ mode \in {"exit", "process"} => Wait(pid) > 0
    <2>1. PICK i \in 1 .. Len(run_queue) : Wait(pid) = i * S - Charge
      BY <1>1, QueuedAt DEF IInv
    <2>2. /\ Len(run_queue) \in Nat /\ Len(run_queue) <= most /\ Charge \in 0 .. S
          /\ S \in Nat /\ most \in Nat
      BY <1>1, QueuedAt, RunQueueRoom DEF IInv
    <2>3. i - 1 \in Nat /\ most - i \in Nat
      BY <2>2
    <2>4. (i - 1) * S \in Nat /\ (most - i) * S \in Nat /\ i * S \in Int /\ most * S \in Int
      BY <2>2, <2>3
    <2>5. i * S = (i - 1) * S + S /\ most * S = i * S + (most - i) * S
      BY <2>2, <2>3
    <2>6. mode \in {"exit", "process"} => Charge < S
      BY <1>1, <2>2 DEF IInv, SafeMode, Busy, Charge
    <2> HIDE DEF S, most
    <2>7. Wait(pid) \in 0 .. most * S
      BY <2>1, <2>2, <2>4, <2>5
    <2> QED  BY <2>1, <2>2, <2>4, <2>5, <2>6, <2>7
  <1>2. IInv => WaitBounded
    BY <1>1 DEF WaitBounded
  <1> QED  BY IInvHolds, <1>2, PTL

\* A switch moves each waiting process one place forward, the first to the CPU.
LEMMA SwitchKeepsTurn ==
    ASSUME SafeTable, Switches, NEW i \in 1 .. Len(run_queue),
           Len(run_queue) \in Nat
    PROVE  IF i = 1
           THEN proc_table'[current'].pid = run_queue[1]
           ELSE /\ i - 1 \in 1 .. Len(run_queue')
                /\ run_queue'[i - 1] = run_queue[i]
  <1> DEFINE q == Requeued
  <1>1. /\ run_queue' = queue_out(q)
        /\ current' \in Entries
        /\ proc_table'[current'].pid = NextPid(q)
    BY SwitchEffect DEF Switches
  <1>2. q \in Seq(1 .. MAX_PID) /\ IsInjective(q)
    BY RequeuedProperties
  <1>3. Len(q) \in Nat /\ Len(q) >= Len(run_queue) /\ q[i] = run_queue[i]
    <2>1. run_queue \in Seq(1 .. MAX_PID)
      BY DEF SafeTable, TableTypes
    <2>2. CASE q = run_queue
      BY <2>2
    <2>3. CASE q # run_queue
      <3>1. /\ current # NULL /\ proc_table[current].pid # 0
            /\ q = Append(run_queue, proc_table[current].pid)
        BY <2>3, RunQueueRoom DEF Requeued, queue_in
      <3>2. proc_table[current].pid \in 1 .. MAX_PID
        BY <3>1 DEF SafeTable, TableTypes, ProcType
      <3> QED  BY <2>1, <3>1, <3>2
    <2> QED  BY <2>2, <2>3
  <1> HIDE DEF q
  <1>4. ~queue_is_empty(q)
    BY <1>3 DEF queue_is_empty
  <1>5. /\ Head(q) = q[1] /\ run_queue' = Tail(q)
        /\ proc_table'[current'].pid = q[1]
    BY <1>1, <1>2, <1>4, QueueOutProperties DEF NextPid
  <1>6. CASE i = 1
    BY <1>3, <1>5, <1>6
  <1>7. CASE i # 1
    <2>1. /\ Len(run_queue') = Len(q) - 1
          /\ \A j \in 1 .. Len(q) - 1 : run_queue'[j] = q[j + 1]
      BY <1>2, <1>3, <1>4, <1>5, HeadTailProperties, EmptySeq DEF queue_is_empty
    <2>2. i - 1 \in 1 .. Len(q) - 1 /\ (i - 1) + 1 = i
      BY <1>3, <1>7
    <2> QED  BY <1>3, <1>7, <2>1, <2>2
  <1> QED  BY <1>6, <1>7

LEMMA StepKeepsTurns ==
    IInv /\ IInv' /\ [Next]_vars => [~WaiterDestroyed => KeepsItsTurn]_vars
  <1> SUFFICES ASSUME IInv, IInv', [Next]_vars, ~WaiterDestroyed,
                      ~UNCHANGED vars, NEW pid \in Range(run_queue)
               PROVE  IF pid \in Range(run_queue)'
                      THEN /\ Wait(pid)' <= Wait(pid)
                           /\ mode = "timer" => Wait(pid)' < Wait(pid)
                      ELSE proc_table'[current'].pid = pid
    BY DEF KeepsItsTurn
  <1> DEFINE S == SCHEDULER_TIMESLICE
             n == Len(run_queue)
  <1>1. SafeTable /\ SafeMode
    BY DEF IInv
  <1>2. /\ run_queue' \in Seq(1 .. MAX_PID) /\ IsInjective(run_queue')
        /\ DOMAIN run_queue' = 1 .. Len(run_queue')
    BY LenProperties DEF IInv, SafeTable, TableTypes, RunQueueExact
  <1>3. /\ run_queue \in Seq(1 .. MAX_PID) /\ IsInjective(run_queue) /\ n \in Nat
        /\ Charge \in 0 .. S
    BY <1>1, QueuedAt
  <1>4. PICK i \in 1 .. n : /\ run_queue[i] = pid
                            /\ Wait(pid) = i * S - Charge
    BY <1>1, QueuedAt
  <1>5. i * S \in Int /\ S \in Nat \ {0}
    BY <1>3
  <1>6. ASSUME NEW j \in 1 .. Len(run_queue'), run_queue'[j] = pid
        PROVE  pid \in Range(run_queue)' /\ Wait(pid)' = j * S - Charge'
    BY <1>2, <1>6, QueuedNextAt DEF Range
  <1>7. CASE Arrives /\ mode # "timer"
    <2>1. /\ run_queue' = Append(run_queue, next_pid) /\ next_pid \in 1 .. MAX_PID
          /\ current' = current
          /\ current # NULL => proc_table'[current] = proc_table[current]
      BY <1>1, <1>7, CreateEffect
    <2>2. i \in 1 .. Len(run_queue') /\ run_queue'[i] = pid
      BY <1>3, <1>4, <2>1
    <2>3. Charge' = Charge
      BY <2>1 DEF Charge
    <2> QED  BY <1>3, <1>4, <1>5, <1>6, <1>7, <2>2, <2>3
  <1>8. CASE Ends
    <2>1. current' = NULL /\ run_queue' = run_queue
      BY <1>8 DEF Ends, kproc_destroy, scheduler_remove
    <2>2. Charge' = S
      BY <2>1 DEF Charge
    <2> QED  BY <1>3, <1>4, <1>5, <1>6, <1>8, <2>1, <2>2 DEF Ends
  <1>9. CASE Ticks
    <2>1. current # NULL /\ current \in Entries
      BY <1>1, <1>9 DEF Ticks, SafeMode, Busy, Irqs, SafeTable, TableTypes
    <2>2. /\ current' = current /\ run_queue' = run_queue
          /\ proc_table'[current].cpu_time = proc_table[current].cpu_time + 1
      BY <1>1, <1>9, <2>1 DEF Ticks, timer_irq_handler, scheduler_timer,
                              SafeTable, TableTypes, ProcType
    <2>3. Charge' = Charge + 1
      BY <2>1, <2>2 DEF Charge
    <2> QED  BY <1>3, <1>4, <1>5, <1>6, <2>2, <2>3
  <1>10. CASE Switches
    <2>1. CASE i = 1
      <3>1. proc_table'[current'].pid = pid /\ current' \in Entries /\ current' # NULL
        BY <1>1, <1>3, <1>4, <1>10, <2>1, SwitchKeepsTurn, SwitchEffect
           DEF Switches
      <3>2. pid \in 1 .. MAX_PID
        BY <1>3, <1>4, ElementOfSeq
      <3>3. pid \notin Range(run_queue)'
        <4>1. current' \in Live'
          BY <3>1 DEF IInv, SafeTable, OneRunning, Live
        <4> QED  BY <3>1, <3>2, <4>1 DEF IInv, SafeTable, PidsExact, RunQueueExact
      <3> QED  BY <3>1, <3>3
    <2>2. CASE i # 1
      <3>1. i - 1 \in 1 .. Len(run_queue') /\ run_queue'[i - 1] = pid
        BY <1>1, <1>3, <1>4, <1>10, <2>2, SwitchKeepsTurn
      <3>2. (i - 1) * S = i * S - S
        BY <1>3, <1>5
      <3>3. Charge' = 0
        BY <1>1, <1>10, SwitchEffect DEF Switches, Charge
      <3> QED  BY <1>3, <1>4, <1>5, <1>6, <1>10, <3>1, <3>2, <3>3 DEF Switches
    <2> QED  BY <2>1, <2>2
  <1>11. CASE Stutters
    <2>1. current' = current /\ run_queue' = run_queue /\ proc_table' = proc_table
          /\ mode # "timer"
      BY <1>11 DEF Stutters, kprocVars
    <2>2. Charge' = Charge
      BY <2>1 DEF Charge
    <2>3. pid \in Range(run_queue)' /\ Wait(pid)' = i * S - Charge
      BY <1>4, <1>6, <2>1, <2>2
    <2> QED  BY <1>3, <1>4, <1>5, <2>1, <2>3
  <1>12. CASE Withdraws
    <2>1. PICK proc \in Entries \ {current} :
                 proc_table[proc].pid # 0 /\ kproc_destroy(proc)
      BY <1>12 DEF Withdraws
    <2>2. proc_table'[proc] = FreeProc
      BY <1>1, <2>1 DEF kproc_destroy, SafeTable, TableTypes
    <2>3. proc_table[proc].state = "IDLE"
      BY <1>1, <2>1 DEF SafeTable, TableTypes, ProcType, OneRunning, PidsExact, Live,
                        FreeProc
    <2> QED  BY <2>1, <2>2, <2>3 DEF WaiterDestroyed
  <1> QED  BY <1>7, <1>8, <1>9, <1>10, <1>11, <1>12, StepKinds

\* Whatever is created and destroyed around it, a ready process never gets
\* further from the CPU: each timer interrupt brings it nearer, and it leaves the
\* run queue only to run.  The exception is a process destroyed where it waits,
\* which the program does not do.
THEOREM NoTurnLost == Spec => NoLostTurn
  <1>1. IInv /\ IInv' /\ [Next]_vars => [~WaiterDestroyed => KeepsItsTurn]_vars
    BY StepKeepsTurns
  <1> QED  BY IInvHolds, <1>1, PTL DEF Spec, NoLostTurn

=============================================================================
