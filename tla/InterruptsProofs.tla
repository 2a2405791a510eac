-------------------------- MODULE InterruptsProofs --------------------------
(***************************************************************************)
(* The invariants of Interrupts, for every set of devices and drivers and  *)
(* every initial mask.                                                     *)
(*                                                                         *)
(* They depend on each other: an interrupt is delivered to a handler only  *)
(* because the lines without a driver stay masked, and is dismissed        *)
(* because it has a handler; nothing is in service when the next comes     *)
(* because the one before was dismissed.                                   *)
(***************************************************************************)
EXTENDS Interrupts, TLAPS

\* Lines nobody handles are masked, and only devices have requests.
Closed == \A irq \in Device \ Driver : Bit(irq) \in mask[Pic(irq)]

Latched == \A p \in {1, 2} : irr[p] \subseteq {Bit(irq) : irq \in {d \in Device : Pic(d) = p}}

AllRegistered == mode # "boot" => irq_handlers = Driver

IInv ==
    /\ TypeOK
    /\ Closed
    /\ Latched
    /\ AllRegistered
    /\ mode # "panic"
    /\ handling \in Device \/ mode # "handler"
    /\ NeverUnhandled
    /\ ServiceExact

-----------------------------------------------------------------------------

\* A set of bits has a first one.
LEMMA FirstBit ==
    ASSUME NEW S \in SUBSET Bits, S # {}
    PROVE  Min(S) \in S /\ \A b \in S : Min(S) =< b
  <1>1. ASSUME NEW n \in Bits, n \in S, \A m \in 0 .. n - 1 : m \notin S
        PROVE  \E x \in S : \A y \in S : x =< y
    <2>1. ASSUME NEW y \in S
          PROVE  n =< y
      <3>1. y \in Nat /\ n \in Nat /\ y \notin 0 .. n - 1
        BY <1>1, <2>1 DEF Bits
      <3> QED  BY <3>1
    <2> QED  BY <1>1, <2>1
  <1>2. PICK b \in S : b \in {0, 1, 2, 3, 4, 5, 6, 7}
    <2>1. \A b \in Bits : b \in {0, 1, 2, 3, 4, 5, 6, 7}
      BY DEF Bits
    <2> QED  BY <2>1
  <1>3. \E n \in Bits : n \in S /\ \A m \in 0 .. n - 1 : m \notin S
    <2> DEFINE LeastIs(n) == n \in S /\ \A m \in 0 .. n - 1 : m \notin S
    <2>1. LeastIs(0) \/ 0 \notin S
      OBVIOUS
    <2>2. LeastIs(1) \/ 1 \notin S \/ 0 \in S
      OBVIOUS
    <2>3. LeastIs(2) \/ 2 \notin S \/ 0 \in S \/ 1 \in S
      OBVIOUS
    <2>4. LeastIs(3) \/ 3 \notin S \/ 0 \in S \/ 1 \in S \/ 2 \in S
      OBVIOUS
    <2>5. LeastIs(4) \/ 4 \notin S \/ \E m \in {0, 1, 2, 3} : m \in S
      OBVIOUS
    <2>6. LeastIs(5) \/ 5 \notin S \/ \E m \in {0, 1, 2, 3, 4} : m \in S
      OBVIOUS
    <2>7. LeastIs(6) \/ 6 \notin S \/ \E m \in {0, 1, 2, 3, 4, 5} : m \in S
      OBVIOUS
    <2>8. LeastIs(7) \/ 7 \notin S \/ \E m \in {0, 1, 2, 3, 4, 5, 6} : m \in S
      OBVIOUS
    <2>9. \E n \in {0, 1, 2, 3, 4, 5, 6, 7} : LeastIs(n)
      <3> HIDE DEF LeastIs
      <3> QED  BY <1>2, <2>1, <2>2, <2>3, <2>4, <2>5, <2>6, <2>7, <2>8
    <2> QED  BY <2>9 DEF Bits
  <1> QED  BY <1>1, <1>3 DEF Min

LEMMA OnlyBit ==
    ASSUME NEW b \in Bits
    PROVE  {b} \ {Min({b})} = {}
  BY FirstBit

LEMMA LineBits ==
    ASSUME NEW irq \in Lines
    PROVE  /\ Pic(irq) \in {1, 2} /\ Bit(irq) \in Bits
           /\ Pic(irq) = 1 => irq \in Bits /\ Bit(irq) = irq
           /\ Pic(irq) = 2 => irq \notin Bits /\ Bit(irq) = irq - 8
  BY DEF Lines, Bits, Pic, Bit

\* What is delivered is a device's line, and unmasked.
LEMMA DeliveredDevice ==
    ASSUME IInv, First # {}
    PROVE  Delivered \in Device /\ Bit(Delivered) \notin mask[Pic(Delivered)]
  <1>1. First \subseteq Bits /\ Second \subseteq irr[2] \ mask[2]
        /\ Second \subseteq Bits
    BY DEF First, Second, Passing, IInv, TypeOK, CASCADE, Bits
  <1>2. Min(First) \in First
    BY <1>1, FirstBit
  <1>3. ASSUME NEW p \in {1, 2}, NEW b \in irr[p]
        PROVE  \E d \in Device : b = Bit(d) /\ Pic(d) = p
    BY <1>3 DEF IInv, Latched
  <1>4. CASE Min(First) = CASCADE
    <2>1. CASCADE \notin irr[1]
      BY <1>3, LineBits, InterruptsAssumption
    <2>2. Second # {}
      BY <1>2, <1>4, <2>1 DEF First, Passing
    <2>3. Min(Second) \in irr[2] \ mask[2]
      BY <1>1, <2>2, FirstBit
    <2>4. PICK d \in Device : Min(Second) = Bit(d) /\ Pic(d) = 2
      BY <1>3, <2>3
    <2>5. d \in Lines /\ d = 8 + Bit(d)
      BY <2>4, LineBits, InterruptsAssumption DEF Lines
    <2>6. Delivered = d
      BY <1>4, <2>4, <2>5 DEF Delivered
    <2> QED  BY <2>3, <2>4, <2>6
  <1>5. CASE Min(First) # CASCADE
    <2>1. Min(First) \in irr[1] \ mask[1]
      BY <1>2, <1>5 DEF First, Passing
    <2>2. PICK d \in Device : Min(First) = Bit(d) /\ Pic(d) = 1
      BY <1>3, <2>1
    <2>3. Delivered = d
      BY <1>5, <2>2, LineBits, InterruptsAssumption DEF Delivered
    <2> QED  BY <2>1, <2>2, <2>3
  <1> QED  BY <1>4, <1>5

\* The service of one line ends with the commands sent for it.
LEMMA DismissedService ==
    ASSUME NEW irq \in Lines, NEW p \in {1, 2}, isr[p] = InService(irq, p)
    PROVE  (IF p \in Dismissed(irq) THEN AfterEoi(p) ELSE isr[p]) = {}
  <1>1. CASE p = Pic(irq)
    <2>1. p \in Dismissed(irq)
      BY <1>1 DEF Dismissed, Controllers, Pic
    <2>2. isr[p] = {Bit(irq)} /\ Bit(irq) \in Bits
      BY <1>1, LineBits DEF InService
    <2> QED  BY <2>1, <2>2, OnlyBit DEF AfterEoi
  <1>2. CASE p # Pic(irq) /\ p = 1
    <2>1. p \in Dismissed(irq)
      BY <1>2 DEF Dismissed, Controllers, Pic
    <2>2. isr[p] = {CASCADE} /\ CASCADE \in Bits
      BY <1>2 DEF InService, CASCADE, Bits
    <2> QED  BY <2>1, <2>2, OnlyBit DEF AfterEoi
  <1>3. CASE p # Pic(irq) /\ p = 2
    <2>1. p \notin Dismissed(irq) /\ isr[p] = {}
      BY <1>3 DEF Dismissed, Controllers, InService, Pic
    <2> QED  BY <2>1
  <1> QED  BY <1>1, <1>2, <1>3

\* A call for one line keeps the lines without a driver masked.
LEMMA ChangeKeepsClosed ==
    ASSUME IInv, NEW irq \in Driver, pic_irq_enable(irq) \/ pic_irq_disable(irq)
    PROVE  /\ mask' \in [{1, 2} -> SUBSET Bits]
           /\ asked' \in [Driver -> {"nothing", "on", "off"}]
           /\ \A d \in Device \ Driver : Bit(d) \in mask'[Pic(d)]
  <1>1. irq \in Lines /\ Pic(irq) \in {1, 2}
    BY LineBits, InterruptsAssumption
  <1>2. asked' \in [Driver -> {"nothing", "on", "off"}]
    BY DEF pic_irq_enable, pic_irq_disable, IInv, TypeOK
  <1>3. \/ mask' = mask
        \/ mask' = [mask EXCEPT ![Pic(irq)] = (@ \ {irq}) \cap Bits]
        \/ mask' = [mask EXCEPT ![Pic(irq)] = (@ \cup {irq}) \cap Bits]
    BY DEF pic_irq_enable, pic_irq_disable, Unmasked, Masked, Written
  <1>4. mask' \in [{1, 2} -> SUBSET Bits]
    BY <1>1, <1>3 DEF IInv, TypeOK
  <1>5. ASSUME NEW d \in Device \ Driver
        PROVE  Bit(d) \in mask'[Pic(d)]
    <2>1. d \in Lines /\ d # irq /\ Bit(d) \in mask[Pic(d)]
      BY InterruptsAssumption DEF IInv, Closed
    <2>2. Bit(d) \in Bits /\ (Pic(d) = Pic(irq) => Bit(d) # irq)
      BY <1>1, <2>1, LineBits
    <2> QED  BY <1>1, <1>3, <2>1, <2>2, LineBits DEF IInv, TypeOK
  <1> QED  BY <1>2, <1>4, <1>5

-----------------------------------------------------------------------------

LEMMA InitIInv == Init => IInv
  <1> SUFFICES ASSUME Init PROVE IInv
    OBVIOUS
  <1>1. mask \in [{1, 2} -> SUBSET Bits]
    BY LineBits, InterruptsAssumption DEF Init
  <1>2. Closed
    <2> SUFFICES ASSUME NEW irq \in Device \ Driver
                 PROVE  Bit(irq) \in mask[Pic(irq)]
      BY DEF Closed
    <2> QED  BY LineBits, InterruptsAssumption DEF Init
  <1> QED  BY <1>1, <1>2
           DEF Init, IInv, TypeOK, Latched, AllRegistered, NeverUnhandled,
               ServiceExact, None

LEMMA StepIInv == IInv /\ [Next]_vars => IInv'
  <1> SUFFICES ASSUME IInv, [Next]_vars PROVE IInv'
    OBVIOUS
  <1> USE DEF Closed, Latched, AllRegistered
  <1>1. ASSUME NEW irq \in Device, request(irq)
        PROVE  IInv'
    <2>1. Pic(irq) \in {1, 2} /\ Bit(irq) \in Bits
      BY LineBits, InterruptsAssumption
    <2>2. /\ irr' = [irr EXCEPT ![Pic(irq)] = @ \cup {Bit(irq)}]
          /\ UNCHANGED <<irq_handlers, mask, isr, mode, handling, asked>>
      BY <1>1 DEF request
    <2>3. irr' \in [{1, 2} -> SUBSET Bits]
      BY <2>1, <2>2 DEF IInv, TypeOK
    <2>4. Latched'
      BY <2>1, <2>2 DEF IInv, TypeOK
    <2> QED  BY <2>2, <2>3, <2>4 DEF IInv, TypeOK, NeverUnhandled, ServiceExact
  <1>2. ASSUME NEW irq \in Driver, interrupts_irq_register(irq)
        PROVE  IInv'
    <2>1. /\ mode = "boot" /\ UNCHANGED <<irr, isr, mode, handling>>
          /\ irq_handlers' \subseteq Driver /\ pic_irq_enable(irq)
      BY <1>2 DEF interrupts_irq_register, IInv, TypeOK
    <2> QED  BY <2>1, ChangeKeepsClosed
             DEF IInv, TypeOK, NeverUnhandled, ServiceExact
  <1>3. ASSUME NEW irq \in Driver, change(irq)
        PROVE  IInv'
    <2>1. /\ UNCHANGED <<irq_handlers, irr, isr, mode, handling>>
          /\ pic_irq_enable(irq) \/ pic_irq_disable(irq)
      BY <1>3 DEF change
    <2> QED  BY <2>1, ChangeKeepsClosed
             DEF IInv, TypeOK, NeverUnhandled, ServiceExact
  <1>4. CASE first_process
    BY <1>4 DEF first_process, IInv, TypeOK, NeverUnhandled, ServiceExact
  <1>5. CASE interrupt
    <2> DEFINE d == Delivered
    <2>1. d \in Device /\ d \in Driver
      BY <1>5, DeliveredDevice DEF interrupt, IInv
    <2>2. d \in Lines /\ Pic(d) \in {1, 2} /\ Bit(d) \in Bits
      BY <2>1, LineBits, InterruptsAssumption
    <2>3. /\ mode = "process" /\ mode' = "handler" /\ handling' = d
          /\ irr' = [irr EXCEPT ![Pic(d)] = @ \ {Bit(d)}]
          /\ isr' = [p \in {1, 2} |-> isr[p] \cup InService(d, p)]
          /\ UNCHANGED <<irq_handlers, mask, asked>>
      BY <1>5 DEF interrupt
    <2> HIDE DEF d
    <2>4. \A p \in {1, 2} : /\ irr'[p] \subseteq irr[p]
                            /\ isr[p] = {}
                            /\ InService(d, p) \subseteq Bits
      BY <2>2, <2>3 DEF IInv, TypeOK, ServiceExact, InService, CASCADE, Bits
    <2>5. TypeOK'
      BY <2>1, <2>2, <2>3, <2>4 DEF IInv, TypeOK
    <2>6. ServiceExact'
      <3>1. handling' = d /\ \A p \in {1, 2} : isr'[p] = InService(d, p)
        BY <2>3, <2>4
      <3> QED  BY <3>1, <2>3 DEF ServiceExact, InService
    <2>7. Latched' /\ Closed' /\ NeverUnhandled'
      BY <2>1, <2>3, <2>4 DEF IInv, NeverUnhandled
    <2> QED  BY <2>1, <2>3, <2>5, <2>6, <2>7 DEF IInv
  <1>6. CASE interrupts_irq_handler
    <2>1. /\ mode = "handler" /\ handling \in irq_handlers /\ handling \in Lines
          /\ mode' = "exit" /\ pic_irq_dismiss(handling)
          /\ UNCHANGED <<irq_handlers, mask, irr, handling, asked>>
      BY <1>6, InterruptsAssumption
         DEF interrupts_irq_handler, IInv, NeverUnhandled
    <2>2. \A p \in {1, 2} : isr[p] = InService(handling, p)
      BY <2>1 DEF IInv, ServiceExact
    <2>3. isr' = [p \in {1, 2} |->
                    IF p \in Dismissed(handling) THEN AfterEoi(p) ELSE isr[p]]
      BY <2>1 DEF pic_irq_dismiss
    <2>4. \A p \in {1, 2} : isr'[p] = {}
      BY <2>1, <2>2, <2>3, DismissedService
    <2>5. isr' \in [{1, 2} -> SUBSET Bits]
      BY <2>3, <2>4
    <2> QED  BY <2>1, <2>4, <2>5 DEF IInv, TypeOK, NeverUnhandled, ServiceExact
  <1>7. CASE return
    BY <1>7 DEF return, IInv, TypeOK, NeverUnhandled, ServiceExact
  <1>8. CASE UNCHANGED vars
    BY <1>8 DEF vars, IInv, TypeOK, NeverUnhandled, ServiceExact
  <1> QED  BY <1>1, <1>2, <1>3, <1>4, <1>5, <1>6, <1>7, <1>8 DEF Next

LEMMA IInvHolds == Spec => []IInv
  BY InitIInv, StepIInv, PTL DEF Spec

\* The masks and the other registers stay bytes, whichever lines are changed.
THEOREM TypeCorrect == Spec => []TypeOK
  <1>1. IInv => TypeOK
    BY DEF IInv
  <1> QED  BY IInvHolds, <1>1, PTL

\* No interrupt reaches interrupts_irq_handler without a handler: it never
\* panics.
THEOREM HandlersCorrect == Spec => []NeverUnhandled
  <1>1. IInv => NeverUnhandled
    BY DEF IInv
  <1> QED  BY IInvHolds, <1>1, PTL

\* Each interrupt is dismissed where it was delivered, on either controller.
THEOREM ServiceCorrect == Spec => []ServiceExact
  <1>1. IInv => ServiceExact
    BY DEF IInv
  <1> QED  BY IInvHolds, <1>1, PTL

\* A line of the first controller is open or masked as its driver last asked,
\* whatever the drivers of other lines ask for.
THEOREM MasksCorrect == Spec => []MasksFollowCalls
  <1>1. \A irq \in Driver \cap Bits : Pic(irq) = 1 /\ Bit(irq) = irq
    BY DEF Bits, Pic, Bit
  <1>2. \A irq \in Driver : irq \in Lines /\ Pic(irq) \in {1, 2}
    BY LineBits, InterruptsAssumption
  <1>3. Init => MasksFollowCalls
    BY DEF Init, MasksFollowCalls, Follows
  <1>4. IInv /\ MasksFollowCalls /\ [Next]_vars => MasksFollowCalls'
    <2> SUFFICES ASSUME IInv, MasksFollowCalls, [Next]_vars,
                        NEW d \in Driver \cap Bits
                 PROVE  /\ asked'[d] = "on" => d \notin mask'[1]
                        /\ asked'[d] = "off" => d \in mask'[1]
      BY <1>1 DEF MasksFollowCalls, Follows
    <2>1. /\ asked[d] = "on" => d \notin mask[1]
          /\ asked[d] = "off" => d \in mask[1]
      BY <1>1 DEF MasksFollowCalls, Follows
    <2>2. ASSUME NEW irq \in Driver, pic_irq_enable(irq), irq # d
          PROVE  (d \in mask'[1] <=> d \in mask[1]) /\ asked'[d] = asked[d]
      BY <1>2, <2>2 DEF pic_irq_enable, Unmasked, Written, IInv, TypeOK
    <2>3. ASSUME NEW irq \in Driver, pic_irq_disable(irq), irq # d
          PROVE  (d \in mask'[1] <=> d \in mask[1]) /\ asked'[d] = asked[d]
      BY <1>2, <2>3 DEF pic_irq_disable, Masked, Written, IInv, TypeOK
    <2>4. pic_irq_enable(d) => d \notin mask'[1] /\ asked'[d] = "on"
      BY <1>1, <1>2 DEF pic_irq_enable, pic_irq_enabled, Unmasked, Written,
                        IInv, TypeOK
    <2>5. pic_irq_disable(d) => d \in mask'[1] /\ asked'[d] = "off"
      BY <1>1, <1>2 DEF pic_irq_disable, pic_irq_enabled, Masked, Written,
                        IInv, TypeOK
    <2>6. CASE UNCHANGED <<mask, asked>>
      BY <2>1, <2>6
    <2>7. ASSUME NEW irq \in Driver, pic_irq_enable(irq) \/ pic_irq_disable(irq)
          PROVE  /\ asked'[d] = "on" => d \notin mask'[1]
                 /\ asked'[d] = "off" => d \in mask'[1]
      BY <2>1, <2>2, <2>3, <2>4, <2>5, <2>7
    <2> QED  BY <2>6, <2>7
             DEF Next, vars, request, interrupts_irq_register, change,
                 first_process, interrupt, interrupts_irq_handler, return
  <1> QED  BY IInvHolds, <1>3, <1>4, PTL DEF Spec

-----------------------------------------------------------------------------
\* Refinement of InterruptService.

Requests(p) == irr[p] \ mask[p]

\* Between two interrupts nothing is in service: what passes the masks is what
\* the CPU gets.
LEMMA AtTheOutput ==
    ASSUME IInv, mode = "process"
    PROVE  /\ Requests(1) \subseteq Bits /\ Requests(2) \subseteq Bits
           /\ Second = Requests(2)
           /\ First = Requests(1) \cup
                       ((IF Requests(2) # {} THEN {CASCADE} ELSE {}) \ mask[1])
           /\ \A n \in Device :
               /\ n \in Lines /\ n # CASCADE
               /\ Pic(n) = 1 => (n \in Held(irr) \cap Open <=> n \in Requests(1))
               /\ Pic(n) = 2 => (n \in Held(irr) \cap Open <=>
                                   n - 8 \in Requests(2) /\ CASCADE \notin mask[1])
  <1>1. isr[1] = {} /\ isr[2] = {}
    BY DEF IInv, ServiceExact
  <1>2. /\ Requests(1) \subseteq Bits /\ Requests(2) \subseteq Bits
        /\ Second = Requests(2)
        /\ First = Requests(1) \cup
                    ((IF Requests(2) # {} THEN {CASCADE} ELSE {}) \ mask[1])
    BY <1>1 DEF First, Second, Passing, Requests, IInv, TypeOK
  <1>3. ASSUME NEW n \in Device
        PROVE  /\ n \in Lines /\ n # CASCADE
               /\ Pic(n) = 1 => (n \in Held(irr) \cap Open <=> n \in Requests(1))
               /\ Pic(n) = 2 => (n \in Held(irr) \cap Open <=>
                                   n - 8 \in Requests(2) /\ CASCADE \notin mask[1])
    <2>1. n \in Lines /\ n # CASCADE
      BY InterruptsAssumption
    <2>2. CASE Pic(n) = 1
      <3>1. Bit(n) = n /\ Controllers(n) = {1} /\ InService(n, 1) = {n}
        BY <2>1, <2>2, LineBits DEF Controllers, InService
      <3> QED  BY <2>1, <2>2, <3>1 DEF Held, Open, Requests
    <2>3. CASE Pic(n) = 2
      <3>1. /\ Bit(n) = n - 8 /\ Controllers(n) = {1, 2}
            /\ InService(n, 1) = {CASCADE} /\ InService(n, 2) = {n - 8}
        BY <2>1, <2>3, LineBits DEF Controllers, InService
      <3> QED  BY <2>1, <2>3, <3>1 DEF Held, Open, Requests
    <2> QED  BY <2>1, <2>2, <2>3, LineBits
  <1> QED  BY <1>2, <1>3

\* A request on an open line interrupts a process, now if no other does: what is
\* in service never holds it back.
THEOREM NeverBlocked == Spec => []NothingBlocks
  <1>1. ASSUME IInv, mode = "process", NEW n \in Held(irr) \cap Open
        PROVE  First # {}
    <2>1. n \in Device
      BY DEF Held
    <2>2. Pic(n) \in {1, 2}
      BY <1>1, <2>1, AtTheOutput, LineBits
    <2> QED  BY <1>1, <2>1, <2>2, AtTheOutput
  <1>2. IInv => NothingBlocks
    BY <1>1 DEF NothingBlocks
  <1> QED  BY IInvHolds, <1>2, PTL

\* The request that the controllers deliver is the first of those waiting on open
\* lines, in the order of the two of them.
LEMMA DeliveredFirst ==
    ASSUME IInv, mode = "process", First # {}
    PROVE  /\ Delivered \in Held(irr) \cap Open
           /\ \A other \in (Held(irr) \cap Open) \ {Delivered} :
                  Service!Precedes(Delivered, other)
  <1> DEFINE d == Delivered
             one == Requests(1)
             two == Requests(2)
  <1>1. /\ Second = two /\ two \subseteq Bits
        /\ First = one \cup ((IF two # {} THEN {CASCADE} ELSE {}) \ mask[1])
        /\ First \subseteq Bits /\ one \subseteq Bits
    BY AtTheOutput DEF CASCADE, Bits
  <1>2. /\ Min(First) \in First /\ \A b \in First : Min(First) =< b
        /\ two # {} => Min(two) \in two /\ \A b \in two : Min(two) =< b
    BY <1>1, FirstBit
  <1>3. ASSUME NEW p \in {1, 2}, NEW b \in irr[p]
        PROVE  \E n \in Device : b = Bit(n) /\ Pic(n) = p
    BY <1>3 DEF IInv, Latched
  <1>4. ASSUME NEW n \in Device
        PROVE  /\ n \in Lines /\ n # CASCADE
               /\ Pic(n) = 1 => (n \in Held(irr) \cap Open <=> n \in one)
               /\ Pic(n) = 2 => (n \in Held(irr) \cap Open <=>
                                   n - 8 \in two /\ CASCADE \notin mask[1])
    BY AtTheOutput
  <1>5. CASCADE \notin irr[1] /\ CASCADE = 2
    <2>1. ASSUME NEW n \in Device, CASCADE = Bit(n), Pic(n) = 1
          PROVE  FALSE
      BY <1>4, <2>1, LineBits
    <2> QED  BY <1>3, <2>1 DEF CASCADE
  <1> HIDE DEF one, two
  <1>6. CASE Min(First) # CASCADE
    <2>1. d = Min(First) /\ d \in one
      BY <1>1, <1>2, <1>6 DEF Delivered
    <2>2. PICK n \in Device : d = Bit(n) /\ Pic(n) = 1
      BY <1>3, <2>1 DEF one, Requests
    <2>3. d = n /\ d \in Bits
      BY <1>4, <2>2, LineBits
    <2>4. ASSUME NEW o \in (Held(irr) \cap Open) \ {d}
          PROVE  Service!Precedes(d, o)
      <3>1. o \in Device
        BY DEF Held
      <3>2. CASE Pic(o) = 1
        <4>1. o \in First /\ o \in Bits
          BY <1>1, <1>4, <3>1, <3>2
        <4> QED  BY <1>2, <2>1, <2>3, <2>4, <4>1
                 DEF Service!Precedes, Service!Level, Bits
      <3>3. CASE Pic(o) = 2
        <4>1. CASCADE \in First /\ o \in 8 .. 15
          BY <1>1, <1>4, <3>1, <3>3, LineBits DEF Lines, Bits
        <4> QED  BY <1>2, <1>5, <1>6, <2>1, <2>3, <4>1
                 DEF Service!Precedes, Service!Level, Bits
      <3> QED  BY <1>4, <3>1, <3>2, <3>3, LineBits
    <2> QED  BY <1>4, <2>1, <2>2, <2>3, <2>4
  <1>7. CASE Min(First) = CASCADE
    <2>1. two # {} /\ CASCADE \notin mask[1]
      BY <1>1, <1>2, <1>5, <1>7 DEF one, Requests
    <2>2. d = 8 + Min(two) /\ Min(two) \in two
      BY <1>1, <1>2, <1>7, <2>1 DEF Delivered
    <2>3. PICK n \in Device : Min(two) = Bit(n) /\ Pic(n) = 2
      BY <1>3, <2>2 DEF two, Requests
    <2>4. d = n /\ d \in 8 .. 15 /\ d - 8 = Min(two)
      BY <1>4, <2>2, <2>3, LineBits DEF Lines, Bits
    <2>5. ASSUME NEW o \in (Held(irr) \cap Open) \ {d}
          PROVE  Service!Precedes(d, o)
      <3>1. o \in Device
        BY DEF Held
      <3>2. CASE Pic(o) = 1
        <4>1. o \in First /\ o \in Bits /\ o # CASCADE
          BY <1>1, <1>4, <3>1, <3>2
        <4> QED  BY <1>2, <1>5, <1>7, <2>4, <4>1
                 DEF Service!Precedes, Service!Level, Bits
      <3>3. CASE Pic(o) = 2
        <4>1. o - 8 \in two /\ o \in 8 .. 15
          BY <1>4, <3>1, <3>3, LineBits DEF Lines, Bits
        <4> QED  BY <1>2, <2>1, <2>4, <2>5, <4>1
                 DEF Service!Precedes, Service!Level
      <3> QED  BY <1>4, <3>1, <3>2, <3>3, LineBits
    <2> QED  BY <1>4, <2>1, <2>2, <2>3, <2>4, <2>5
  <1> QED  BY <1>6, <1>7

\* A call for a line opens or masks that line or, of the second controller, none.
LEMMA ChangeOpens ==
    ASSUME IInv, NEW irq \in Driver, pic_irq_enable(irq) \/ pic_irq_disable(irq)
    PROVE  Open' \in {Open, Open \cup {irq}, Open \ {irq}}
  <1>1. irq \in Lines /\ irq # CASCADE /\ irq \in Device
    BY InterruptsAssumption
  <1>2. mask \in [{1, 2} -> SUBSET Bits]
    BY DEF IInv, TypeOK
  <1>3. \/ mask' = mask
        \/ mask' = [mask EXCEPT ![Pic(irq)] = (@ \ {irq}) \cap Bits]
        \/ mask' = [mask EXCEPT ![Pic(irq)] = (@ \cup {irq}) \cap Bits]
    BY DEF pic_irq_enable, pic_irq_disable, Unmasked, Masked, Written
  <1>4. CASE mask' = mask
    BY <1>4 DEF Open
  <1>5. CASE Pic(irq) = 2
    <2>1. irq \notin Bits
      BY <1>1, <1>5, LineBits
    <2>2. mask' = mask
      BY <1>2, <1>3, <1>5, <2>1
    <2> QED  BY <1>4, <2>2
  <1>6. CASE Pic(irq) = 1 /\ mask' # mask
    <2>1. irq \in Bits
      BY <1>1, <1>6, LineBits
    <2>2. /\ mask'[2] = mask[2]
          /\ mask'[1] \in {mask[1] \ {irq}, mask[1] \cup {irq}}
      BY <1>2, <1>3, <1>6, <2>1
    <2>3. ASSUME NEW n \in Device, n # irq
          PROVE  n \in Open' <=> n \in Open
      <3>1. n \in Lines
        BY InterruptsAssumption
      <3>2. \A p \in Controllers(n) : /\ p \in {1, 2}
                                      /\ p = 1 => irq \notin InService(n, p)
        BY <1>1, <2>3, <3>1, LineBits DEF Controllers, InService
      <3>3. \A p \in Controllers(n) :
                InService(n, p) \cap mask'[p] = InService(n, p) \cap mask[p]
        BY <2>2, <3>2
      <3> QED  BY <3>3 DEF Open
    <2>4. Open \subseteq Device /\ Open' \subseteq Device
      BY DEF Open
    <2> QED  BY <1>1, <2>3, <2>4
  <1> QED  BY <1>1, <1>4, <1>5, <1>6, LineBits

\* A line is known by its controller and its bit there.
LEMMA LineIsItsBit ==
    ASSUME NEW a \in Device, NEW b \in Device
    PROVE  Pic(a) \in {1, 2} /\ (Pic(a) = Pic(b) /\ Bit(a) = Bit(b) => a = b)
  <1>1. a \in Lines /\ b \in Lines
    BY InterruptsAssumption
  <1>2. /\ Pic(a) = 1 => Bit(a) = a
        /\ Pic(a) = 2 => Bit(a) = a - 8
        /\ Pic(b) = 1 => Bit(b) = b
        /\ Pic(b) = 2 => Bit(b) = b - 8
        /\ Pic(a) \in {1, 2}
    BY <1>1, LineBits
  <1> QED  BY <1>1, <1>2 DEF Lines

LEMMA InitIsService == Init => Service!Init
  <1> SUFFICES ASSUME Init PROVE Service!Init
    OBVIOUS
  <1>1. irr = [p \in {1, 2} |-> {}] /\ isr = [p \in {1, 2} |-> {}]
    BY DEF Init
  <1>2. Held(irr) = {} /\ Held(isr) = {}
    BY <1>1, LineIsItsBit DEF Held
  <1>3. Open \subseteq Device
    BY DEF Open
  <1> QED  BY <1>2, <1>3 DEF Service!Init

\* With a line in service, the controllers hold that line, and the cascade.
LEMMA HeldInService ==
    ASSUME NEW irq \in Device, NEW bytes,
           \A p \in {1, 2} : bytes[p] = InService(irq, p)
    PROVE  Held(bytes) = {irq}
  <1>1. ASSUME NEW n \in Device
        PROVE  n \in Lines /\ n # CASCADE /\ Pic(n) \in {1, 2}
    BY InterruptsAssumption, LineBits
  <1>2. ASSUME NEW n \in Device
        PROVE  Bit(n) \in InService(irq, Pic(n)) <=> n = irq
    <2>1. CASE Pic(n) = Pic(irq)
      BY <2>1, LineIsItsBit DEF InService
    <2>2. CASE Pic(n) # Pic(irq)
      <3>1. Pic(n) = 1 => Bit(n) = n
        BY <1>1, LineBits
      <3> QED  BY <1>1, <2>2, <3>1 DEF InService
    <2> QED  BY <2>1, <2>2
  <1> QED  BY <1>1, <1>2 DEF Held

LEMMA StepIsService ==
    IInv /\ IInv' /\ [Next]_vars => [Service!Next]_(Service!vars)
  <1> SUFFICES ASSUME IInv, IInv', [Next]_vars
               PROVE  [Service!Next]_(Service!vars)
    OBVIOUS
  <1>1. ASSUME NEW irq \in Device, request(irq)
        PROVE  Service!Next
    <2>1. Held(irr)' = Held(irr) \cup {irq}
      BY <1>1, LineIsItsBit DEF request, Held, IInv, TypeOK
    <2>2. UNCHANGED <<Open, Held(isr)>>
      BY <1>1 DEF request, Open, Held
    <2> QED  BY <2>1, <2>2 DEF Service!Raise, Service!Next
  <1>2. ASSUME NEW irq \in Driver, interrupts_irq_register(irq) \/ change(irq)
        PROVE  [Service!Next]_(Service!vars)
    <2>1. /\ pic_irq_enable(irq) \/ pic_irq_disable(irq)
          /\ UNCHANGED <<irr, isr>> /\ irq \in Device
      BY <1>2, InterruptsAssumption DEF interrupts_irq_register, change
    <2>2. Open' \in {Open, Open \cup {irq}, Open \ {irq}}
      BY <2>1, ChangeOpens
    <2>3. UNCHANGED <<Held(irr), Held(isr)>>
      BY <2>1 DEF Held
    <2> QED  BY <2>1, <2>2, <2>3 DEF Service!Change, Service!Next, Service!vars
  <1>3. CASE interrupt
    <2> DEFINE d == Delivered
    <2>1. /\ mode = "process" /\ First # {} /\ mode' = "handler" /\ handling' = d
          /\ irr' = [irr EXCEPT ![Pic(d)] = @ \ {Bit(d)}]
          /\ UNCHANGED mask
      BY <1>3 DEF interrupt
    <2>2. /\ d \in Held(irr) \cap Open
          /\ \A other \in (Held(irr) \cap Open) \ {d} : Service!Precedes(d, other)
      BY <2>1, DeliveredFirst
    <2>3. d \in Device /\ d \in Lines /\ Pic(d) \in {1, 2}
      BY <2>2, InterruptsAssumption, LineBits DEF Held
    <2> HIDE DEF d
    <2>4. Held(isr) = {}
      <3>1. \A p \in {1, 2} : isr[p] = {}
        BY <2>1 DEF IInv, ServiceExact
      <3> QED  BY <3>1, InterruptsAssumption, LineBits DEF Held
    <2>5. Held(isr)' = {d}
      <3>1. \A p \in {1, 2} : isr'[p] = InService(d, p)
        BY <2>1 DEF IInv, ServiceExact, InService
      <3>2. Held(isr') = {d}
        BY <2>3, <3>1, HeldInService
      <3> QED  BY <3>2 DEF Held
    <2>6. Held(irr)' = Held(irr) \ {d}
      BY <2>1, <2>3, LineIsItsBit DEF Held, IInv, TypeOK
    <2>7. UNCHANGED Open
      BY <2>1 DEF Open
    <2> QED  BY <2>2, <2>4, <2>5, <2>6, <2>7 DEF Service!Serve, Service!Next
  <1>4. CASE interrupts_irq_handler
    <2>1. /\ mode = "handler" /\ mode' # "handler" /\ UNCHANGED <<irr, mask>>
          /\ handling \in Device
      BY <1>4 DEF interrupts_irq_handler, IInv
    <2>2. Held(isr) = {handling}
      <3>1. \A p \in {1, 2} : isr[p] = InService(handling, p)
        BY <2>1 DEF IInv, ServiceExact
      <3> QED  BY <2>1, <3>1, HeldInService
    <2>3. Held(isr)' = {}
      <3>1. \A p \in {1, 2} : isr'[p] = {}
        BY <2>1 DEF IInv, ServiceExact
      <3> QED  BY <3>1, InterruptsAssumption, LineBits DEF Held
    <2>4. UNCHANGED <<Open, Held(irr)>>
      BY <2>1 DEF Open, Held
    <2> QED  BY <2>2, <2>3, <2>4 DEF Service!Finish, Service!Next
  <1>5. CASE first_process \/ return \/ UNCHANGED vars
    BY <1>5 DEF first_process, return, vars, Service!vars, Open, Held
  <1> QED  BY <1>1, <1>2, <1>3, <1>4, <1>5 DEF Next

\* Through either controller, whatever the drivers mask, one line is served at a
\* time, the first of the open lines that ask; and no call moves another line.
THEOREM Refinement == Spec => IsInterruptService
  BY InitIsService, StepIsService, IInvHolds, PTL
     DEF Spec, IsInterruptService, Service!Spec

=============================================================================
