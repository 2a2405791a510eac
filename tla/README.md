# A verification of TARS

TARS is a small teaching operating system for one i386 CPU: a queue library,
a timer, a keyboard, a VGA console, a process table and a round-robin scheduler
around an interrupt-driven context switch. This directory holds TLA+ models of
its core, configurations that check them with TLC, and proofs checked by TLAPS.
Line numbers are those of `src/src/*.c` and `src/include/*.h`.

## The system

### How it runs

`main` initialises every driver, the scheduler and the process table (which
creates the idle task, pid 0), prints a prompt and waits in `keyboard_getc` for
a key, then runs the scheduler for the first time and leaves for the first
process. From then on the kernel runs only in interrupts: `isr_entry_*` and
`kernel_enter` push the registers on the stack of the interrupted process and
switch to the kernel stack; `kernel_context_enter` notes the frame in
`current->trapframe`, calls the handler of the interrupt, calls `scheduler_run`
and pops the frame of whatever process `current` is then. The gates are interrupt
gates, so nothing interrupts the kernel. Interrupts are disabled until the
first process runs: the kernel's only `sti` is in the idle task, and the other
way they are enabled is the flags of a process's frame.

The timer interrupt calls the registered callbacks; `scheduler_timer`, one of
them, charges a tick to the running process. The keyboard interrupt decodes a
scan code; a ctrl chord is a debug command: ctrl+p creates a process, ctrl+x
destroys the running one, ctrl+q exits, the others change the log level or set a
breakpoint; any other character is echoed on the console. The boot prompt polls
the keyboard with the same decoder, so that debug commands also run there, when
no process does. Processes, the echo and the timer's drawing callbacks all write
to one screen; the processes and the echo also share its cursor.

### Components

| Component | State | Operations | What makes it correct |
|---|---|---|---|
| Queue (`queue.c`) | `items`, `head`, `tail`, `size` | `queue_init`, `queue_in`, `queue_out`, the full and empty tests | it is a bounded FIFO, whatever wraps around |
| Scheduler (`scheduler.c`) | `run_queue`, `current` | `scheduler_run`, `scheduler_timer`, `scheduler_add`, `scheduler_remove` | the run queue is exactly the ready processes; turns are round-robin, of one slice; there is always a process to run |
| Process control (`kproc.c`) | `proc_table`, `proc_allocator`, `next_pid`, `proc_stack` | `kproc_init`, `kproc_create`, `kproc_destroy`, `pid_to_proc` | no entry is leaked or shared; a pid names one process |
| Kernel (`kernel.c`, `context.S`) | the CPU's registers and stack | entry, exit, debug commands, panic | a process is resumed in its own context only |
| Boot (`main.c`) | none | `main`; the `spinner` and `uptime` callbacks | the first switch finds the idle task or what the prompt created |
| User program (`user_prog.c`) | none | `user_test`: prints a line and waits | what it prints is on the screen, wherever it is interrupted |
| Timer (`timer.c`) | `timers`, `timer_allocator`, `timer_ticks` | init, register, unregister, the handler | each callback is called on its interval, as many times as asked; no slot is leaked or shared |
| Keyboard (`keyboard.c`) | `kbd_status` | poll, wait, decode, the handler | the modifier state is that of the keys held |
| Interrupts (`interrupts.c`) | handler table, IDT, masks of two PICs | register, dispatch, enable, disable, dismiss | a registered line is enabled, its handler called, and the line acknowledged |
| Console (`vga.c`) | `pos_x`, `pos_y`, the colours, the screen | put, putc, puts, scroll, clear | no write leaves the buffer; the cursor stays on the screen; text wraps and scrolls as on a terminal |
| Log level (`kernel.c`) | `kernel_log_level` | ctrl+`-`, ctrl+`=` | it stays within its limits, and is what was announced |

They interact as follows. The scheduler and process control share the process table
and `current`; the scheduler calls `pid_to_proc`, process control calls
`scheduler_add` and `scheduler_remove`. The run queue, the process allocator and
the timer allocator are three instances of the queue. The timer reaches the
scheduler through a callback, the keyboard reaches process control through
`kernel_debug_command`, and both are reached from the interrupt dispatch. The
screen is shared: the cursor by whoever calls `vga_putc` (`main`, the processes,
the keyboard handler), the buffer also by the timer callbacks `displayProcs`,
`uptime` and `spinner`, which draw at fixed places.

### What is hard

Concurrency is that of interrupts: a process may be interrupted anywhere, by
either line, and the handler may destroy the interrupted process itself. State
is read long after it was written: a pid in the run queue is resolved to an
entry when its turn comes, a frame is restored when its process is resumed, and
both entries and stacks are recycled in between. Errors of the queue operations
are mostly ignored by their callers, so the sizes must work out. A starved
process, an entry leaked after some history of creations and destructions, or a
slice one tick too long are invisible to a test that looks at one call. The
console is the one piece of state that processes change with interrupts enabled:
`vga_putc` reads the cursor, writes a cell, tests and moves the cursor, and scrolls
a row at a time, and an interrupt may come between any two of those. The hazards
are listed line by line in `PROJECT.json`, each with the properties that
would catch it or the reason why none does yet.

## The modules

| Module | Models | Notes |
|---|---|---|
| `CircularQueue` | `queue.c`, `queue_t` | array and counters, every sequence of calls |
| `BoundedFifo` | | what a queue promises: a sequence of at most `Capacity` items |
| `Queue` | `queue.c` as its callers see it | operators on sequences, used by the next modules |
| `Scheduler` | `scheduler.c`, `pid_to_proc` | |
| `Kproc` | `kproc.c`, `scheduler_remove` | EXTENDS `Scheduler` |
| `Kernel` | `kernel.c`, `context.S`, `main`, the two handlers | EXTENDS `Kproc`; the state machine and its properties |
| `RoundRobin` | | what the kernel promises the processes: no table, stacks or interrupts; with `Withdrawals`, waiting processes may end too |
| `MCKernel` | | `Kernel` with fairness |
| `Timer` | `timer.c` | the table of callbacks, walked slot by slot; EXTENDS `Queue` |
| `TimerService` | | what the timer does for its callers: no slots, no allocator, no order within a tick |
| `MCTimer` | | `Timer` with the repeats of the runs, and with fairness |
| `TimerDelay` | | `Timer` with the age of each timer, which no action depends on |
| `Keyboard` | `keyboard.c` | the decoder behind a keyboard whose bytes wait |
| `Interrupts` | `interrupts.c` and the two 8259 controllers | |
| `InterruptService` | | what the two controllers and their driver promise together: no bits, no cascade, no dismissals |
| `MCInterrupts` | | `Interrupts` with fairness |
| `Vga` | `vga.c` | its functions as operators on a record of buffer and cursor |
| `Console` | `vga.c`, `user_prog.c`, `main`, the echo, `displayProcs`, `spinner`, `uptime` | who writes on the screen, one access to memory at a time; EXTENDS `Vga` |
| `Terminal` | | what the console promises: rows of text and a cursor, no buffer |
| `MCConsole` | | `Console` with the texts of the runs: a line of the table is `ToString` of its entry |
| `LogLevel` | `kernel.c` | the log level, its two commands and their announcements |
| `System` | `main`, `kernel_context_enter`, and the parts below | EXTENDS `MCKernel` and `LogLevel`, instantiates `Interrupts` and `Timer` |
| `CircularQueueProofs`, `QueueProofs`, `KernelProofs`, `TimerProofs`, `InterruptsProofs`, `KeyboardProofs`, `ConsoleProofs`, `SystemProofs` | | theorems and proofs |

`Kernel` has the interrupts, the timer handler and the keyboard as processes see
them: an interrupt may come whenever a process runs, a tick calls `scheduler_timer`
once, and a key is a debug command or nothing. `System` discharges the first
two: there the interrupt is one the controller delivers, because a line was
registered, unmasked and requested; `scheduler_timer` is what the walk of the table
finds in the slot that `main` registered it in; and the interrupt is dismissed
between the handler and the scheduler, as in `interrupts_irq_handler`. Each action of
`System` conjoins the actions of `Kernel`, `Interrupts` and `Timer` that happen
in the same code; the variables are theirs, `mode` of `Interrupts` being `dispatch`.

Each module opens with the *plausible faults* of the code it models. They are
not used by it: substituted one at a time for the definition they distort, they
show that each property can be violated by a mistake of that kind.

### State and actions

| TLA+ | Code |
|---|---|
| `proc_table[e]`, with `pid`, `state`, `cpu_time`, `trapframe` | `proc_table[e]`; `trapframe` is the entry in whose stack the pointer points. Names, types and displayed times are left out |
| `current` | `current`; an entry, or `NULL` (-1) |
| `run_queue`, `proc_allocator` | the two `queue_t`, as sequences |
| `next_pid` | `next_pid` |
| `proc_stack[e]` | `proc_stack[e]`: whose data lies there (a pid), or `CLEARED` |
| `mode` | where the CPU is: at the prompt, in a process, in a handler, before `scheduler_run`, before `kernel_context_exit`, or halted |
| `cpu` | whose context the registers hold and on whose stack they run |

| Action | Code |
|---|---|
| `kernel_context_enter(irq)` | the entry stub, `kernel_enter` and the first line of `kernel_context_enter` |
| `timer_irq_handler` | the handler with its callbacks, of which `scheduler_timer` alone touches processes |
| `keyboard_irq_handler` | the handler: one debug command, or a key without effect on processes |
| `schedule`, `kernel_context_exit` | the last two lines of `kernel_context_enter` |
| `boot_command`, `boot_key` | the wait in `keyboard_getc`, and its end |
| `destroy_any` | not in the program (`DESTROY_ANY = FALSE`): a caller of `kproc_destroy`, a function of the kernel's interface, that destroys a process of its choice |
| `halted` | nothing happens after `exit`, a panic, or a null dereference |

| `Timer` and `Keyboard` | Code |
|---|---|
| `timers`, `timer_allocator`, `timer_ticks` | the same; the allocator as a sequence, the ticks modulo `TICK_PERIOD` |
| `slot`, `call` | the index of the loop in `timer_irq_handler`, and the callback called in the last step |
| `timer_callback_register`, `unregister` | the two functions, called between two interrupts; a timer is unregistered only while it is registered |
| `timer_irq`, `timer_irq_handler` | the handler: its first line, and then one iteration of its loop a step |
| `kbd_status`, `out` | the bits that are set; the kind of result `keyboard_decode` returned, or the command it ran |
| `port`, `held`, `locks`, `meant` | the bytes waiting in the controller, the keys held down, the locks switched on, and what the byte read last meant when its key was pressed. Not in the code |
| `press`, `release` | the keyboard: one byte, or two for the right ctrl and alt keys |
| `keyboard_poll` | the function, with `keyboard_decode` |

| `Interrupts` | Code |
|---|---|
| `irq_handlers` | the lines whose entry of the table is set |
| `mask`, `irr`, `isr` | of each controller: the mask byte as the set of its bits, the requests latched, the lines in service |
| `mode`, `handling` | whether interrupts are enabled (`"process"`), and the interrupt being handled |
| `interrupts_irq_register` | a driver's initialisation, from `main` |
| `interrupts_irq_handler`, `return` | the dispatch with its dismissal; the return to a process |
| `request`, `interrupt` | the devices and the controllers: a latched request, the delivery of the first one |
| `Held`, `Open` | the refinement mapping: what the controllers hold line by line, and the lines masked on no controller they go through. Not in the code |
| `change` | not in the program: calls of `pic_irq_enable` and `pic_irq_disable`, two functions of the interface, by a driver |

| `Vga`, `Console` and `Terminal` | Code |
|---|---|
| `vga.buf`, `vga.pos_x`, `vga.pos_y` | the buffer, with the cell behind it that `vga_clear` also writes; the cursor |
| `pc[e]`, `reg[e]`, `todo[e]` | where process `e` is in `vga_putc`, what it has loaded or counted there, and what it has still to print |
| `booted`, `welcome` | how far `main` is, and what it has still to print |
| `inputs`, `raced` | keys and creations so far; whether two calls of `vga_putc` have overlapped. Not in the code |
| `load_y`, `load_x`, `put` | `vga_put(pos_x, pos_y, c)`: its arguments, loaded last first, and the write |
| `test`, `inc`, `inc_store` | the test of `pos_x`, and the two halves of its increment |
| `scroll_return`, `scroll_test`, `line`, `line_store`, `copy`, `copy_store`, `wipe` | `scroll`: the column, the test of `pos_y`, the two halves of its increment, the two loops, a cell at a time |
| `keyboard_irq_handler(c)` | the handler and `vga_putc`, whole: nothing interrupts it |
| `timer_irq_handler`, `displayProcs` | the three drawing callbacks, and the first of them: the rows it clears, `TABLE_WIDTH` columns of header, and the lines behind it, as far as the row goes |
| `create`, `destroy` | ctrl+p and ctrl+x as the console sees them; any process may run next |
| `uptime`, `spinner` | a cell each: the last digit of the time, and the spinner in the last column |
| `Line(e)`, a parameter | the text of a process's line in the table; each cell says whose it is |
| `TABLE_WIDTH`, a parameter | the columns of a line: 53, of the 80 of the screen |
| `Finished`, `Settled` | the refinement mapping: the screen once the character being printed is complete. Not in the code |
| `Terminal!Type`, `Newline`, `Tab`, `Return`, `Backspace`, `Home`, `Draw` | what each call of `vga_putc`, `vga_set_xy` and a tick become on a terminal |

| `LogLevel` and `System` | Code |
|---|---|
| `kernel_log_level`, `announced` | the variable; the level named in the last announcement that was printed |
| `lower`, `raise` | ctrl+`-` and ctrl+`=`: move, announce, clamp |
| `calls` | what `main` has still to register: drivers, then timers |
| `main_driver`, `main_timer`, `boot` | `main`, up to the prompt and at it |
| `request`, `enter`, `walk`, `key`, `dismiss`, `run_scheduler`, `resume` | an interrupt from the line to the return, `walk` one slot of the table a step |

`schedule` is a separate action from the handlers although nothing can happen
in between: the intermediate states are where `current` may be null, and the
invariants hold there too.

## What TLC checks

| Run | Question | Bounds | Distinct states |
|---|---|---|---|
| `circular_queue` | is `queue.c` a bounded FIFO? | capacity 3, items 0, 1, 2 | 1024 |
| `kernel` | are table, queue, contexts and turns right under any interleaving, also if waiting processes are destroyed? | 5 entries, slices of 3 ticks, 7 pids | 261309 |
| `system` | does the machine below give the kernel the interrupts and the fairness it assumes, and does every ready process come to run? | 3 entries, slices of 2 ticks, 3 pids, 5 timer slots, intervals 1, 2 and 4 | 89208 |
| `timer` | is each callback called when and as often as asked, and no slot lost or shared? does one with a finite repeat end? | 3 slots, intervals 1, 2, 3, repeats for ever, once, twice | 164380 |
| `keyboard` | is each key decoded as it was meant, though its bytes wait? | 8 keys, one per modifier, 2 or 3 bytes waiting | 216640 |
| `interrupts` | are the right lines open and no others, every interrupt dismissed, the first open line served before the others, and the timer in the end? | lines 0, 1, 5, 9 and 12 with drivers, which turn them off and on, 4 without | 18432 |
| `console` | is the console a terminal with a status area, wherever printing is interrupted? | 4 by 7 cells, 3 entries, 2 keys or creations | 17594 |
| `console_race` | and does the cursor stay on the screen if two calls overlap? | violated: see below | |
| `kernel_destroy_returns` | does `kproc_destroy` always return? | violated: see below | |
| `keyboard_two_shifts` | and is the shift bit set while a shift key is held? | violated: see below | |
| `keyboard_beyond_map` | is a key the maps do not have decoded as `KEY_NULL`? | violated: see below | |
| `timer_delay` | does a callback wait for its interval the first time? | violated: see below | |

The properties:

- `CircularQueue`: `TypeOK` (no index leaves the array), `CountersAgree` (`head`,
  `tail` and `size` agree), `IsFifo` (refinement of `BoundedFifo`).
- `AllocatorExact`: the allocator holds exactly the free entries, once each.
- `PidsExact`: live pids are distinct; the idle task is in the first entry,
  without which the search for pid 0 would find a free entry.
- `RunQueueExact`: the run queue holds the pids of the ready processes, once each,
  and no stale one.
- `CurrentExact`: one process is marked running, the one `current` points at.
- `ContextIntegrity`: the CPU executes the process `current` names, on its own
  stack, and every other process's context is saved on that process's own stack.
- `SliceBound`: whoever executes has used less than a slice; everybody else starts
  with a whole one.
- `NeverPanics`: `scheduler_run` always finds a process.
- `WaitBounded`: the timer ticks a ready process has to wait at most are not more than the
  slices of the other entries, and more than none while a process executes.
- `NoLostTurn`, on steps: the number of timer ticks a ready process has to wait
  at most never grows, shrinks with each timer interrupt, and the process leaves
  the queue only to run.
- `IsRoundRobin`: `Kernel` implements `RoundRobin`: turns in the order of arrival, a slice
  each; where waiting processes are destroyed, the others keep their cyclic order.
- `EveryReadyRuns`, liveness: a process in the run queue eventually executes, unless
  ctrl+q stops the machine, whatever keys are typed. Checked of `System`.
- `IsFairKernel`: `System` implements `Kernel` with the fairness that `MCKernel`
  states, strong fairness of the timer's interrupt included, from weak fairness alone.
- `KernelMatchesPic` (`System`): the line in service is the one whose handler runs, none
  is in service while the scheduler or a process runs, the table is walked in the
  timer's handler only, and the tick is charged in its first slot.
- `LevelAnnounced`: the level last announced is in force, unless the log is off.

- `SlotsExact` (`Timer`): the allocator holds exactly the slots without a timer,
  once each.
- `IsTimerService`: `Timer` implements `TimerService`: at a tick exactly the timers
  whose interval divides the time are called, each once, and a timer registered
  with `repeat` n ends with its call number n+1, or never. That is what the code does;
  the first interval of a timer may be shorter than documented: `timer_delay`.
- `FiniteTimersEnd`, liveness: a timer that does not repeat for ever frees its
  slot by itself.
- `NoKeyMisread` (`Keyboard`): a key is decoded, when its byte is read, as what it
  meant when it was pressed; a key beyond the maps means nothing (`KEY_NULL`), which is
  false of the code: run `keyboard` has no such key, run `keyboard_beyond_map` has one.
- `ModifiersFollowKeys`, `LocksFollowPresses`: when no byte waits, a modifier's
  bit is set exactly while its key is held, a lock's exactly while it is on.
- `MasksFollowCalls` (`Interrupts`): a line of the first controller is open or masked
  as the last call for it asked, whatever is asked of the others. `NeverUnhandled`: an interrupt that is delivered has a handler.
- `ServiceExact`: in a handler exactly its line is in service, on both controllers
  if it came through the second, and elsewhere none is.
- `NothingBlocks`: when a process runs, a request on an open line is delivered, or that of
  an earlier line: nothing left in service on either controller holds it back.
- `IsInterruptService`: `Interrupts` implements `InterruptService`: a line is served when no
  other is, the first of the open ones that ask, where lines 8 to 15 have the place of
  line 2; a call for a line opens or masks no other.
- `TimerServed`, liveness: a request of the timer's line comes to its handler.
- `TypeOK` of `Interrupts`: what is written to a controller is a byte.
- `TypeOK` of `Console`: every loop of `scroll` stays in the buffer, and nothing but
  `vga_clear` reaches the cell behind it, after a race too.
- `OnScreenUntilRaced`: the cursor is on the screen at every step of every `vga_putc`,
  as long as no two overlap, also when the process is destroyed within one.
- `TerminalUntilRaced`: as long as no two calls of `vga_putc` overlap, the screen, with
  the character that is being printed completed, changes as a `Terminal` does: the
  timer draws in its status area and nowhere else, also in the middle of a scroll. A
  character whose process is destroyed within it may stay unfinished; the terminal goes
  on from what is on the screen then.
- `TypeOK` of `Timer` includes that a repeat counted down never becomes -1, which
  would mean for ever.

`kernel` has `DESTROY_ANY = TRUE`, so that `kproc_destroy` is also called for processes
that wait, as its interface allows and the program never does; every behaviour of
the program is one of its behaviours. `scheduler_remove` finds such a process by rotating
the run queue and leaves it rotated, so that those before it have to wait longer:
`NoLostTurn` excepts these steps. `IsRoundRobin` says what is left of the order there
(`Withdraw` of `RoundRobin`): the others go round as before, but the turn may have passed to any
of them. In all other steps `NoLostTurn` allows no such turning. `system` is the program,
without these calls.

**Bounds.** Five entries are the idle task and four others: one runs, one waits first and
two wait behind it, which is where orders can differ, and when one of four that wait is
destroyed, three are left in a cyclic order that can be wrong; the table can be full. Seven pids
are enough to use entries again, one of them up to four times. The queues have a capacity
of 5 where the code has 64 for 10 entries; the assumption the modules state is only `PROC_MAX <= QUEUE_SIZE`, and the proofs show
a queue is never full. A slice of 3 has a first, a middle and a last
tick. The queue of capacity 3 wraps in each of its counters, and three items tell
apart any two that stay in it. Exceeding `MAX_PID` disables creation;
the code would go on to the limit of `int`.

Three timer slots can hold three intervals with different
remainders; the ticks are counted modulo 6, a multiple of each, which changes no
`timer_ticks % interval`. Repeats 0 and 1 have a last call that is the first one
and a last call that is not. `TICK_PERIOD` also hides the wrap of the counter, an
`int` in the code. Run `keyboard` has one key for each of ctrl, alt and shift (the right
ctrl key sends the prefix), a letter and a digit for the two rules of caps lock,
and lets letters, digits and escape repeat while they are held, but not the
modifiers: those two restrictions are assumptions about the keyboard, under which
toggling is right, and without which it is not. `PORT_MAX` is tested before a
key sends its bytes, so a prefixed key may make three.

`Interrupts` has the real 8 lines a controller; the devices are few: two lines before the
second controller's, one after, and two behind it. Which lines
are masked when `main` starts is the environment's choice, of which the models
assume only that a line without a driver is masked. Lines 9 and 12 of
`interrupts` are open from the start, since the code cannot open them. The program's
drivers never turn their lines off: in this run they may (`CHANGES`), which is what
the functions are for.

`console` has a screen of 4 columns, of which a line of the table has 2: as in the code, with
53 of 80, the first row holds the header and one line more at most. It has 7 rows: five of
the table (the first, and one for each entry and one more, which are cleared), and two of text, so that two newlines scroll. `main` prints a full row,
which wraps; a process prints one character and a newline. Two keys
or creations are enough for two processes, or for a process and an echo, to meet; `INPUTS`
bounds them. `console_race` is the same instance. Two backspaces reach the start of a row and
the one above it, but not the top left corner, which is twenty cells away: what
happens there is in the model (`Back`), and that it is as `Terminal` has it is proved.

`system` has room for the four timers of `main` and one more slot; intervals 1, 2 and 4
stand for 1, 10 and 100. The ticks are counted modulo 4. Three entries and
slices of two ticks are those of a small `Kernel`: its own run has larger ones.

**Fairness** (`MCInterrupts`). Weak fairness of delivery, of the handler and of the return:
no device has to request anything, and nothing prefers the timer but the order of
the lines in the controller.

**Fairness** (`MCTimer`). Weak fairness of the interrupt and of the steps of its
handler: no other action is assumed to be taken. Registering and unregistering
happen outside the handler, and are disabled while it runs.

**Fairness** (`MCKernel`, `System`). `Kernel` needs strong fairness of the timer's
interrupt: `kernel_context_enter("timer")` is disabled while the kernel runs, and a
keyboard interrupt could otherwise always be first. `System` assumes less: that the
timer requests its line for ever, that the CPU takes *some* interrupt the controller
delivers, and that the kernel goes on, each weakly fair. The controller latches a
request raised while interrupts are disabled and delivers IRQ 0 before IRQ 1; that
this amounts to the strong fairness of `MCKernel` is what `IsFairKernel` checks. The
steps of the kernel are straight-line code. Nothing is assumed of keys, nor of
`main` and the boot prompt, which may wait for ever.

### Findings

- ctrl+x at the boot prompt follows a null pointer (`kernel.c:185`,
  `kproc.c:187`): `current` is null until the first switch, and only
  `scheduler_remove`, called later, checks for it. `kproc.h:80` promises 0 or -1. Run
  `kernel_destroy_returns`. Nothing is said of the behaviour after
  this: `mode` stays `"undefined"`.
- Pressing the second shift key clears the shift bit while both are held
  (`keyboard.c:180`; ctrl and alt likewise), since every press and release flips
  it. The comment at `keyboard.c:45` says a press sets the bit. A modifier whose
  press is repeated while it is held has the same effect. Run
  `keyboard_two_shifts`.
- `vga_putc` does not wrap at the end of a row when another call comes between its
  test of `pos_x` (`vga.c:203`) and its increment (`vga.c:206`), although the
  comment at `vga.c:155` says it will. A process prints at the first column of a row; a
  backspace typed in between moves the cursor to the last column of the row above;
  the increment then leaves the row, where the test for equality never holds
  again: every character goes to the last column, clamped by `vga_put`, until a newline.
  Run `console_race`. Likewise two processes, or a process and an echo, between the test
  of `pos_y` (`vga.c:130`) and its increment (`vga.c:146`): past the last row the equality
  never holds again, no newline brings the cursor back, and the text no longer
  scrolls. `TypeOK` of `console` shows that even then no write leaves the buffer.
- A key whose scan code is 63 or more and that is no modifier or lock, such as F5, is looked
  up behind the end of the maps (`keyboard.c:222`, `keyboard.c:228`), and with ctrl held what
  is found there runs as a debug command (`keyboard.c:224`). `keyboard.c:146` and
  `keyboard.h:81` promise `KEY_NULL` for what cannot be mapped. Run `keyboard_beyond_map`.
- A timer registered between two multiples of its interval is called for the first time
  at the next multiple (`timer.c:127`), sooner than the `interval` ticks after which
  `timer.c:68` and `timer.h:23` say the callback is performed. The program registers its
  timers at tick 0, where both are the same. Run `timer_delay`.

Further, without a run, since each shows in the code of one function:

- `pic_irq_enable` and `pic_irq_disable` do nothing for the lines 8 to 15
  (`interrupts.c:115`, `interrupts.c:156`): they use the bit numbered like the line in a byte that
  has bits 0 to 7 only, and find every such line enabled already. The comment at
  `interrupts.c:97` says the first enables the specified line. No driver of the program
  has such a line. `MasksFollowCalls` is stated for the lines 0 to 7 for that reason.
- The process table shows one process (`kproc.c:67`, `kproc.c:70`). Its lines are 54
  characters with the newline, and the size given to `snprintf`, 54, leaves room for 53:
  each newline is cut. The loop that draws them (`kproc.c:81`) starts a row at a newline
  only, so all run on in the first row: the header, the idle task's line as far as
  column 78, and every further character in column 79, where `vga_put` clamps it and
  `spinner` draws too. They also cover the cell of `uptime`, although the comment at
  `kproc.c:78` has the table drawn by hand so as not to interfere with it. The comment at
  `kproc.c:116` says the callback displays all processes. `displayProcs` of `Console` draws what
  the code does.
- A backspace at the top left corner moves the cursor to the end of the first row
  (`vga.c:170`) and erases the cell there; the comments at `vga.c:161` and `vga.c:169` say it
  moves back, if possible. `Terminal` has the corner of the code.
- `kproc_destroy` clears `sizeof(PROC_STACK_SIZE)` bytes of the stack
  (`kproc.c:195`), the size of an integer constant, where its comment says it clears the
  stack. `kproc_destroy` of `Kproc` leaves the stack's data for that reason. Nothing
  relies on it: `kproc_create` clears the whole stack (`kproc.c:140`), so that
  `ContextIntegrity` holds.

## What is proved

For every capacity, size of the table, slice and bound on the pids (assumed
positive, and `PROC_MAX <= QUEUE_SIZE`), and for every timer table, set of intervals and
of repeats (intervals positive, `TIMERS_MAX <= QUEUE_SIZE`), every set of devices, drivers and initial
masks (a line without a driver is masked, and none is the cascade), every set of keys with one
key a modifier, and every size of the screen (wider than 3 columns, and with a row of
text below the process table, whose lines fill less than a row and no less than half of
one), every text (a process prints plain characters and newlines) and choice of keys
echoed:

| Module | Theorems |
|---|---|
| `CircularQueueProofs` | `TypeCorrect`, `CountersAlwaysAgree`, and `Refinement`: `queue.c` implements `BoundedFifo` |
| `KernelProofs` | `TypesCorrect`, `AllocatorCorrect`, `PidsCorrect`, `RunQueueCorrect`, `CurrentCorrect`, `ContextCorrect`, `SliceCorrect`, `PanicFree`: `WaitCorrect`: each invariant of run `kernel`. `Refinement`: the kernel implements `RoundRobin`, with its withdrawals where waiting processes are destroyed. `UndefinedAtBootOnly`: the null pointer of `kernel_destroy_returns` is followed at the prompt of the boot and nowhere else. `NoTurnLost`: no ready process loses its turn, except where a waiting one is destroyed. All for both values of `DESTROY_ANY` |
| `TimerProofs` | `TypeCorrect`, `SlotsCorrect`, and `Refinement`: `timer.c` implements `TimerService` |
| `InterruptsProofs` | `TypeCorrect`, `HandlersCorrect`, `ServiceCorrect`, `MasksCorrect`, `NeverBlocked`, and `Refinement`: `interrupts.c` and the controllers implement `InterruptService` |
| `KeyboardProofs` | `TypeCorrect`, `KeysNotMisread`, `ModifiersCorrect`, `LocksCorrect`. They assume one key a modifier, which does not repeat (`OneKeyEach`), and `KeysNotMisread` also that no key is beyond the maps (`NoneBeyond`): without these they are false |
| `ConsoleProofs` | `TypeCorrect`: no write leaves the buffer, after a race too, but for the one cell that the loop of `vga_clear` writes behind it; `CursorStays`: without a race, the cursor stays on the screen; `TerminalCorrect`: without one, the console implements `Terminal` |
| `SystemProofs` | `ImplementsKernel`, `ImplementsInterrupts`, `CallbacksServed`: in the system, the kernel, the controllers and the timer table do what `Kernel`, `Interrupts` and `TimerService` allow; `MatchesCorrect`: they agree at every step; `SystemSafe`, `SystemFair`, `LinesServed`: the invariants, the round and the service that the kernel and the controllers promise are the system's; `AnnouncedCorrect` |

**The inductive invariant of the kernel.** No invariant is inductive alone.
Adding a pid to the run queue keeps it exact only if the queue has room; it has
room because the queued pids are distinct and belong to distinct entries other
than the idle task's, so there are fewer than `PROC_MAX` (`RunQueueRoom`, by
the pigeonhole lemma `DistinctBound` of `QueueProofs`). The same argument gives
the allocator room (`AllocatorRoom`). Looking up the next pid succeeds because
the queue is exact and the idle task never leaves the first entry (`FindsLive`,
`NextProperties`). So the invariant `IInv` is all of them together: `SafeTable`
says what concerns the data, and has one lemma per operation (`InitSafe`,
`TickSafe`, `CreateSafe`, `DestroySafe`, `RunSafe`); `SafeMode` relates the data to the
point the CPU has reached, and `StepIInv` puts both together, action by
action. `IInv` is the conjunction of the invariants run `kernel` checks, rearranged.

**Refinement.** `StepKinds` reduces the steps of the kernel to what a scheduler can
see: a process arrives, ends, is charged a tick, or the CPU is
switched; all others are stuttering. `StepIsRoundRobin` maps each to its action
of `RoundRobin`, and `StepKeepsTurns` follows the place of a pid in the queue through
each. A process destroyed where it waits is taken out where the search has come to
(`WithdrawEffect`), which is the queue without it, turned that far (`TakenOutIsTurned`).
`WaitCorrect` is the place in the queue (`QueuedAt`) with the room of the queue
(`RunQueueRoom`): together with `NoTurnLost` it bounds the timer interrupts after which a
ready process runs by `(PROC_MAX - 1) * SCHEDULER_TIMESLICE`, which is the safety part of
`EveryReadyRuns`.

**The queue.** `CircularQueueProofs` shows that the contents, read from `head`
on for `size` slots modulo the capacity, change as a sequence does. `QueueProofs` states
what the operators on sequences preserve; it is used by the kernel's proofs.

**The timer.** The inductive invariant is `TypeOK` with `SlotsExact`: the allocator
has room for a slot given back because the slots in it are distinct and the one
given back is not among them (`SlotRoom`). `RegisterEffect`, `UnregisterEffect` and `CountedEffect` say
what each operation does to the tables; `StepIsService` maps each step to one of
`TimerService`, a slot that is not due to a stuttering one.

**The interrupts.** The invariants depend on each other. A delivered interrupt has a handler only
because the lines without a driver stay masked (`Closed`, kept by every change of
another line: `ChangeKeepsClosed`) and only devices have requests (`Latched`,
`DeliveredDevice`); it is dismissed only because it has a handler; and what its
end-of-interrupt commands end is its own service only because nothing else is in service
(`DismissedService`).

For the refinement, nothing is in service between two interrupts, so what passes the masks is
what the CPU gets (`AtTheOutput`); hence `NeverBlocked`, the safety part of `TimerServed`, and
`DeliveredFirst`: the least bit of the first controller, and behind its cascade that of
the second, is the first line in the order of `InterruptService`. A call changes the mask
of its own line or, on the second controller, nothing (`ChangeOpens`): what is wrong
with the lines of the second leaves them as they were, and disturbs no other. With a line in
service the controllers hold that line and no other (`HeldInService`), since a line is
known by its controller and its bit (`LineIsItsBit`).

**The keyboard.** The bytes waiting in the port lead from the status the driver has to the
one the keyboard is in, each toggling what it toggles and meaning what it decodes to in
the status before it: `Trail`. A press or a release adds a byte to the end of the
trail (`AppendByte`), the driver takes one from its beginning (`TakeByte`). With the
trail empty the two statuses are equal, which is `ModifiersFollowKeys` and
`LocksFollowPresses`; its first byte means what it decodes to, which is `NoKeyMisread`.

**The console.** Each operation of `Vga` keeps the shape of the buffer, and the cursor on
the screen if it was there (`PutcKeeps` and the lemmas before it), because `vga_put`
clamps (`OffsetOnScreen`). `OnScreenUntilRaced` is not inductive: within `vga_putc` a
process relies on what it has loaded and tested. `Between` says what that is at each
point, and `Alone` that one process at most is within a character, so that nobody else
changes it; `Typed`, which holds after a race too, is the rest.

That the console is a terminal is shown of the screen as it will be when the character
being printed is complete (`Settled`). A call of `vga_putc` at once is a step of the
terminal (`SeenPutc`), because moving the buffer by a row deletes the first row and
appends an empty one (`RowsShifted`); so are a process's first step into a character
(`StepBegins`) and the calls that nobody disturbs (`PutcNext`). Every other step of the
process leaves the completed screen as it is (`StepInside`); for the loops of `scroll`
the argument is pointwise: what is behind their index has its final value, what is ahead
of it is still read from cells that they have not reached (`CutCopied`, `CutWiped`). A
tick changes cells of the status area alone, and where a scroll carries such a cell is
again one, or off the screen (`AgreeShifted`), so the text is the same also when it is
drawn upon between two cells of the loop (`StepDraw`).

**The system.** `KernelStep`, `PicStep` and `TableStep` show that each step of the system is
one of `Kernel`, of `Interrupts` and of `Timer`, or none; the theorems of the
three then hold of the system. `Lockstep` is the invariant that relates them: it says
where the kernel can be while the controller is where it is (`Stages`), that the table is
walked in the timer's handler alone (`Walking`), and that the first slot
is `scheduler_timer`'s from its registration on (`FirstSlot`), which is why the tick is
charged there. Its preservation by `dismiss` needs that the controller never panics,
from the invariant of `InterruptsProofs`.

**Model-checked only.** `EveryReadyRuns`, `IsFairKernel`, `FiniteTimersEnd` and
`TimerServed`: liveness under fairness is out of the prover's reach. Of each of them but
`IsFairKernel` the safety part is proved: `WaitBounded` and `NoLostTurn`, `IsTimerService` (every
call of a finite timer leaves one less), `NothingBlocks` and `IsInterruptService`; of
`IsFairKernel`, that `System` implements `Kernel` without its fairness (`ImplementsKernel`). The five findings with a
run are counterexamples.

## Not modelled, and why

- Formatting, the wording of messages, and colours: `vga_set_bg`, `vga_set_fg` and
  `vga_set_c` are called nowhere, so a cell is its character. A line of the process table
  says in each cell whose it is, and `spinner` and `uptime` draw a constant character: where
  they draw is modelled, not what. That a line is cut at the size given to `snprintf` is
  modelled, as the C standard has it.
- The 2^31st creation: `next_pid` is bounded instead.
- Timer callbacks that register or unregister timers: the program has none. The
  same for a second `timer_callback_unregister` of one id, which the function does
  not refuse. A caller's id out of range is refused without effect.
- Which character a key decodes to: a key is looked up in one map or the other. What lies
  behind the maps is not known: the lookup of a key beyond them returns nothing, or what
  another key would, under its own rules of shift and control.
- Registration of an interrupt that is not a line of the controllers, which
  stores the handler and logs an error, and of a null handler, which panics: the
  program does neither.
- The breakpoint of ctrl+b and of a panic, which stops the machine from outside.
- Depth of the stacks: a stack is whose data it holds. Overflow of the 8192
  bytes is not represented.
- Processes of `Kernel` and of `Console` are not composed: on the console any process
  may run next, which is more than the scheduler does.
- The bytes of `Keyboard` are not composed with `System`, where a key is a command or
  nothing: that it is the command meant is what `NoKeyMisread` says.
- The compiler, except that `vga_putc` is not optimized (the Makefile asks for no
  optimization), the assembler's register conventions, and the hardware, except as `Kernel`
  and `Interrupts` state them (interrupt gates, one CPU, interrupts disabled at boot,
  two 8259 controllers).

## Plan

Done: every component but the build, each with proofs of its safety, an abstract
specification of the queue, the scheduler, the timer, the interrupts and the console with
the proof that each is implemented, and the composition of kernel, controllers and timer
table. What is left, in this order:

1. An abstract specification of the keyboard, a decoder of key presses without bytes, and
   the proof that `Keyboard` implements it.
2. The composition of `Console` with `Kernel`: that the processes the console lets run are
   those the scheduler runs, and the table it draws the kernel's.
