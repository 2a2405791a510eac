----------------------------- MODULE Interrupts -----------------------------
(***************************************************************************)
(* src/interrupts.c: registration, dispatch and acknowledgement of the     *)
(* interrupts, over the two 8259 controllers the code programs.            *)
(*                                                                         *)
(* Lines are numbered from 0, as pic_irq_enable does; interrupt 0x20 + n   *)
(* is line n.  A byte read from or written to a controller is the set of   *)
(* its bits.  The controllers themselves are external, modelled from how   *)
(* the code uses them: a request is latched, masked or not; the first      *)
(* unmasked one is delivered unless an earlier line is in service; an      *)
(* end-of-interrupt command ends the service of the first one; the second  *)
(* controller is line CASCADE of the first.                                *)
(***************************************************************************)
EXTENDS FiniteSetsExt

CONSTANTS
    Device,         \* lines that raise requests
    Driver,         \* those that have a driver, which registers its handler
    MASKED,         \* lines that are masked when main starts
    CHANGES         \* whether drivers call pic_irq_enable and pic_irq_disable

Bits == 0 .. 7
Lines == 0 .. 15
CASCADE == 2

\* What is masked is the environment's choice.  It leaves no line open whose
\* interrupt nobody handles.
ASSUME InterruptsAssumption ==
    /\ Device \subseteq Lines \ {CASCADE}
    /\ Driver \subseteq Device
    /\ Device \ Driver \subseteq MASKED
    /\ MASKED \subseteq Lines
    /\ CHANGES \in BOOLEAN

None == -1

VARIABLES
    irq_handlers,   \* lines with a handler
    mask,           \* the mask byte of each controller
    irr,            \* requests each has latched
    isr,            \* lines each holds in service
    mode,           \* "boot", "process", "handler", "exit" or "panic"
    handling,       \* line of the interrupt the kernel is in, or None
    asked           \* auxiliary: the last call for each line, "on" or "off"

vars == <<irq_handlers, mask, irr, isr, mode, handling, asked>>

\* The controller of a line, and the line's bit there.
Pic(irq) == IF irq \in Bits THEN 1 ELSE 2
Bit(irq) == irq % 8

\* The controllers that a line goes through.
Controllers(irq) == 1 .. Pic(irq)

-----------------------------------------------------------------------------
\* Plausible faults of the definitions below, for the mutation runs.

WriteWhole(data) == data
MasksTheOthers(irq) == [mask EXCEPT ![Pic(irq)] = Bits \ {irq}]
KeepsTheBit(irq) == [mask EXCEPT ![Pic(irq)] = @ \cap {irq}]
FirstOnly(irq) == IF irq \in Lines THEN {1} ELSE {}
SecondOnly(irq) == IF irq \in Lines THEN {Pic(irq)} ELSE {}
NotLineZero(irq) == IF irq = 0 THEN {} ELSE Controllers(irq)

-----------------------------------------------------------------------------
\* The controllers.

\* The requests that reach the output of a controller, given what is latched.
Passing(p, requests) ==
    {b \in requests \ mask[p] : \A s \in isr[p] : b < s}

Second == Passing(2, irr[2])
First == Passing(1, irr[1] \cup (IF Second # {} THEN {CASCADE} ELSE {}))

\* The line the CPU is interrupted with.
Delivered == IF Min(First) = CASCADE THEN 8 + Min(Second) ELSE Min(First)

request(irq) ==
    /\ irr' = [irr EXCEPT ![Pic(irq)] = @ \cup {Bit(irq)}]
    /\ UNCHANGED <<irq_handlers, mask, isr, mode, handling, asked>>

\* What holding a line in service means for each controller.
InService(irq, p) ==
    IF p = Pic(irq) THEN {Bit(irq)} ELSE IF p = 1 THEN {CASCADE} ELSE {}

\* A process is interrupted.  The interrupt gate disables interrupts.
interrupt ==
    /\ mode = "process" /\ First # {}
    /\ handling' = Delivered
    /\ irr' = [irr EXCEPT ![Pic(Delivered)] = @ \ {Bit(Delivered)}]
    /\ isr' = [p \in {1, 2} |-> isr[p] \cup InService(Delivered, p)]
    /\ mode' = "handler"
    /\ UNCHANGED <<irq_handlers, mask, asked>>

\* What a controller holds in service after an end-of-interrupt command.
AfterEoi(p) == IF isr[p] = {} THEN {} ELSE isr[p] \ {Min(isr[p])}

-----------------------------------------------------------------------------
\* The driver of the controllers.

\* The data port is a byte wide.
Written(data) == data \cap Bits

\* The bit of the line's own number is tested, of either controller.
pic_irq_enabled(irq) == irq \in Lines /\ irq \notin mask[Pic(irq)]

\* And the same bit is cleared, or set.
Unmasked(irq) == [mask EXCEPT ![Pic(irq)] = Written(@ \ {irq})]
Masked(irq) == [mask EXCEPT ![Pic(irq)] = Written(@ \cup {irq})]

pic_irq_enable(irq) ==
    /\ mask' = IF irq \notin Lines \/ pic_irq_enabled(irq) THEN mask
               ELSE Unmasked(irq)
    /\ asked' = [asked EXCEPT ![irq] = "on"]

pic_irq_disable(irq) ==
    /\ mask' = IF irq \notin Lines \/ ~pic_irq_enabled(irq) THEN mask
               ELSE Masked(irq)
    /\ asked' = [asked EXCEPT ![irq] = "off"]

\* Controllers that an end-of-interrupt command is sent to.
Dismissed(irq) == IF irq \in Lines THEN Controllers(irq) ELSE {}

pic_irq_dismiss(irq) ==
    isr' = [p \in {1, 2} |-> IF p \in Dismissed(irq) THEN AfterEoi(p) ELSE isr[p]]

\* A driver's initialisation, called by main before any process runs.
interrupts_irq_register(irq) ==
    /\ mode = "boot" /\ irq \notin irq_handlers
    /\ irq_handlers' = irq_handlers \cup {irq}
    /\ pic_irq_enable(irq)
    /\ UNCHANGED <<irr, isr, mode, handling>>

\* The end of main: the first process runs, with interrupts enabled.
first_process ==
    /\ mode = "boot" /\ irq_handlers = Driver
    /\ mode' = "process"
    /\ UNCHANGED <<irq_handlers, mask, irr, isr, handling, asked>>

\* Not in the program: a driver that turns its own line off and on.
change(irq) ==
    /\ CHANGES /\ mode = "process"
    /\ pic_irq_enable(irq) \/ pic_irq_disable(irq)
    /\ UNCHANGED <<irq_handlers, irr, isr, mode, handling>>

\* The handler is called and the interrupt dismissed, or the kernel panics.
interrupts_irq_handler ==
    /\ mode = "handler"
    /\ IF handling \in irq_handlers
       THEN pic_irq_dismiss(handling) /\ mode' = "exit"
       ELSE mode' = "panic" /\ UNCHANGED isr
    /\ UNCHANGED <<irq_handlers, mask, irr, handling, asked>>

\* kernel_context_exit: a process goes on, with its flags.
return ==
    /\ mode = "exit"
    /\ mode' = "process" /\ handling' = None
    /\ UNCHANGED <<irq_handlers, mask, irr, isr, asked>>

Init ==
    /\ irq_handlers = {}
    /\ mask = [p \in {1, 2} |-> {Bit(irq) : irq \in {n \in MASKED : Pic(n) = p}}]
    /\ irr = [p \in {1, 2} |-> {}]
    /\ isr = [p \in {1, 2} |-> {}]
    /\ mode = "boot" /\ handling = None
    /\ asked = [irq \in Driver |-> "nothing"]

Next ==
    \/ \E irq \in Device : request(irq)
    \/ \E irq \in Driver : interrupts_irq_register(irq) \/ change(irq)
    \/ first_process
    \/ interrupt
    \/ interrupts_irq_handler
    \/ return

Spec == Init /\ [][Next]_vars

-----------------------------------------------------------------------------
\* Properties

\* Types; the masks stay bytes.
TypeOK ==
    /\ irq_handlers \subseteq Driver
    /\ mask \in [{1, 2} -> SUBSET Bits]
    /\ irr \in [{1, 2} -> SUBSET Bits]
    /\ isr \in [{1, 2} -> SUBSET Bits]
    /\ mode \in {"boot", "process", "handler", "exit", "panic"}
    /\ handling \in Device \cup {None}
    /\ asked \in [Driver -> {"nothing", "on", "off"}]

\* A line is open or masked as the last call for it asked.
Follows(irq) ==
    /\ asked[irq] = "on" => Bit(irq) \notin mask[Pic(irq)]
    /\ asked[irq] = "off" => Bit(irq) \in mask[Pic(irq)]

\* So are the lines of the first controller, whatever was asked since for other
\* lines, of either controller.
MasksFollowCalls == \A irq \in Driver \cap Bits : Follows(irq)

\* Every interrupt that is delivered has a handler, so that dispatching it does
\* not panic.
NeverUnhandled == mode = "handler" => handling \in irq_handlers

\* In a handler the interrupt's line alone is in service, and elsewhere none is:
\* each interrupt is dismissed where it was delivered, and none stays to block
\* the lines behind it.
ServiceExact ==
    \A p \in {1, 2} :
        isr[p] = IF mode = "handler" THEN InService(handling, p) ELSE {}

\* What the controllers hold, line by line.
Held(bytes) == {irq \in Device : Bit(irq) \in bytes[Pic(irq)]}

\* Lines whose requests reach the CPU: masked on no controller they go through.
Open == {irq \in Device : \A p \in Controllers(irq) : InService(irq, p) \cap mask[p] = {}}

Service == INSTANCE InterruptService WITH
        Line    <- Device,
        waiting <- Held(irr),
        open    <- Open,
        serving <- Held(isr)

\* A process is interrupted whenever a request waits on an open line: no line that
\* is still in service, of either controller, holds it back.
NothingBlocks == mode = "process" /\ First = {} => Held(irr) \cap Open = {}

\* The masks, the requests latched in two controllers, the cascade and the
\* end-of-interrupt commands together serve one line at a time, the first of
\* those open; and a call for one line opens or masks no other.
IsInterruptService == Service!Spec

=============================================================================
