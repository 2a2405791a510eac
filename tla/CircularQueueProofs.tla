------------------------- MODULE CircularQueueProofs -------------------------
(***************************************************************************)
(* What CircularQueue's run checks for three slots and three items, for    *)
(* every capacity and every set of items.  The inductive invariant is      *)
(* TypeOK with CountersAgree: the counters must be related before anything *)
(* can be said of which slots hold the contents.                           *)
(***************************************************************************)
EXTENDS CircularQueue, SequenceTheorems, TLAPS

IInv == TypeOK /\ CountersAgree

\* Every index the code reduces is below twice the capacity.
LEMMA ModBelowTwice ==
    \A a \in 0 .. 2 * QUEUE_SIZE - 1 :
        a % QUEUE_SIZE = IF a < QUEUE_SIZE THEN a ELSE a - QUEUE_SIZE
  BY CircularQueueAssumption

LEMMA NextSlotProperties ==
    ASSUME NEW i \in Slot
    PROVE  /\ NextSlot(i) \in Slot
           /\ NextSlot(i) = IF i = QUEUE_SIZE - 1 THEN 0 ELSE i + 1
  <1>1. i \in Nat /\ i + 1 \in 0 .. 2 * QUEUE_SIZE - 1 /\ QUEUE_SIZE \in Nat \ {0}
    BY CircularQueueAssumption DEF Slot
  <1>2. (i + 1) % QUEUE_SIZE = IF i + 1 < QUEUE_SIZE THEN i + 1 ELSE i + 1 - QUEUE_SIZE
    BY <1>1, ModBelowTwice
  <1> QED  BY <1>1, <1>2 DEF NextSlot, Slot

\* The slot of the i-th item, without the remainder.
LEMMA SlotOf ==
    ASSUME NEW h \in Slot, NEW n \in 0 .. QUEUE_SIZE
    PROVE  /\ (h + n) % QUEUE_SIZE \in Slot
           /\ (h + n) % QUEUE_SIZE =
                IF h + n < QUEUE_SIZE THEN h + n ELSE h + n - QUEUE_SIZE
  <1>1. h \in Nat /\ n \in Nat /\ h + n \in 0 .. 2 * QUEUE_SIZE - 1
    BY CircularQueueAssumption DEF Slot
  <1>2. (h + n) % QUEUE_SIZE =
          IF h + n < QUEUE_SIZE THEN h + n ELSE h + n - QUEUE_SIZE
    BY <1>1, CircularQueueAssumption, ModBelowTwice
  <1> QED  BY <1>1, <1>2, CircularQueueAssumption DEF Slot

-----------------------------------------------------------------------------

LEMMA InitIInv == Init => IInv
  <1> SUFFICES ASSUME Init PROVE IInv
    OBVIOUS
  <1>1. TypeOK
    BY CircularQueueAssumption DEF Init, TypeOK, Slot
  <1>2. CountersAgree
    BY CircularQueueAssumption, ModBelowTwice DEF Init, CountersAgree
  <1> QED  BY <1>1, <1>2 DEF IInv

LEMMA StepIInv == IInv /\ [Next]_vars => IInv'
  <1> SUFFICES ASSUME TypeOK, CountersAgree, [Next]_vars
               PROVE  TypeOK' /\ CountersAgree'
    BY DEF IInv
  <1> USE CircularQueueAssumption
  <1>1. CASE queue_init
    <2>1. TypeOK'
      BY <1>1 DEF queue_init, TypeOK, Slot
    <2>2. CountersAgree'
      BY <1>1, ModBelowTwice DEF queue_init, CountersAgree
    <2> QED  BY <2>1, <2>2
  <1>2. ASSUME NEW item \in Item, queue_in(item)
        PROVE  TypeOK' /\ CountersAgree'
    <2>1. CASE queue_is_full /\ ret' = -1 /\ UNCHANGED <<queue, out>>
      BY <2>1 DEF queue, TypeOK, CountersAgree
    <2>2. CASE /\ ~queue_is_full
               /\ items' = Store(item)
               /\ size' = size + 1
               /\ tail' = NextSlot(tail)
               /\ ret' = 0
               /\ UNCHANGED <<head, out>>
      <3>1. TypeOK'
        BY <2>2, NextSlotProperties DEF queue_is_full, Store, TypeOK
      <3>2. CountersAgree'
        <4>1. size + 1 \in 0 .. QUEUE_SIZE /\ size \in 0 .. QUEUE_SIZE
          BY <2>2 DEF queue_is_full, TypeOK
        <4>2. tail = IF head + size < QUEUE_SIZE THEN head + size
                     ELSE head + size - QUEUE_SIZE
          BY <4>1, SlotOf DEF TypeOK, CountersAgree
        <4>3. (head + (size + 1)) % QUEUE_SIZE =
                IF head + (size + 1) < QUEUE_SIZE THEN head + (size + 1)
                ELSE head + (size + 1) - QUEUE_SIZE
          BY <4>1, SlotOf DEF TypeOK
        <4>4. NextSlot(tail) = IF tail = QUEUE_SIZE - 1 THEN 0 ELSE tail + 1
          BY NextSlotProperties DEF TypeOK
        <4>5. NextSlot(tail) = (head + (size + 1)) % QUEUE_SIZE
          BY <4>1, <4>2, <4>3, <4>4 DEF TypeOK, Slot
        <4> QED  BY <2>2, <4>5 DEF CountersAgree
      <3> QED  BY <3>1, <3>2
    <2> QED  BY <1>2, <2>1, <2>2 DEF queue_in
  <1>3. ASSUME NEW hasItem \in BOOLEAN, queue_out(hasItem)
        PROVE  TypeOK' /\ CountersAgree'
    <2>1. CASE /\ queue_is_empty \/ ~hasItem
               /\ ret' = -1
               /\ UNCHANGED <<queue, out>>
      BY <2>1 DEF queue, TypeOK, CountersAgree
    <2>2. CASE /\ ~queue_is_empty
               /\ out' = items[head]
               /\ size' = size - 1
               /\ head' = NextSlot(head)
               /\ ret' = 0
               /\ UNCHANGED <<items, tail>>
      <3>1. TypeOK'
        BY <2>2, NextSlotProperties DEF queue_is_empty, TypeOK
      <3>2. CountersAgree'
        <4>1. size - 1 \in 0 .. QUEUE_SIZE /\ size \in 0 .. QUEUE_SIZE
          BY <2>2 DEF queue_is_empty, TypeOK
        <4>2. tail = IF head + size < QUEUE_SIZE THEN head + size
                     ELSE head + size - QUEUE_SIZE
          BY <4>1, SlotOf DEF TypeOK, CountersAgree
        <4>3. /\ NextSlot(head) \in Slot
              /\ NextSlot(head) = IF head = QUEUE_SIZE - 1 THEN 0 ELSE head + 1
          BY NextSlotProperties DEF TypeOK
        <4>4. (NextSlot(head) + (size - 1)) % QUEUE_SIZE =
                IF NextSlot(head) + (size - 1) < QUEUE_SIZE
                THEN NextSlot(head) + (size - 1)
                ELSE NextSlot(head) + (size - 1) - QUEUE_SIZE
          BY <4>1, <4>3, SlotOf
        <4>5. tail = (NextSlot(head) + (size - 1)) % QUEUE_SIZE
          BY <4>1, <4>2, <4>3, <4>4 DEF TypeOK, Slot
        <4> QED  BY <2>2, <4>5 DEF CountersAgree
      <3> QED  BY <3>1, <3>2
    <2> QED  BY <1>3, <2>1, <2>2 DEF queue_out
  <1>4. CASE UNCHANGED vars
    BY <1>4 DEF vars, TypeOK, CountersAgree
  <1> QED  BY <1>1, <1>2, <1>3, <1>4 DEF Next

\* No sequence of queue_init, queue_in and queue_out calls moves an index of a
\* queue_t out of its array or its size out of its capacity.
THEOREM TypeCorrect == Spec => []TypeOK
  <1>1. IInv => TypeOK
    BY DEF IInv
  <1> QED  BY InitIInv, StepIInv, <1>1, PTL DEF Spec

\* The head, the tail and the size of a queue_t agree after every call.
THEOREM CountersAlwaysAgree == Spec => []CountersAgree
  <1>1. IInv => CountersAgree
    BY DEF IInv
  <1> QED  BY InitIInv, StepIInv, <1>1, PTL DEF Spec

-----------------------------------------------------------------------------
\* Refinement of BoundedFifo.

\* The sequence that n slots from h on hold, in any state.
LEMMA WindowProperties ==
    ASSUME NEW slots \in [Slot -> Item], NEW h \in Slot, NEW n \in 0 .. QUEUE_SIZE
    PROVE  LET window == [i \in 1 .. n |-> slots[(h + i - 1) % QUEUE_SIZE]]
           IN  /\ window \in Seq(Item)
               /\ Len(window) = n
               /\ \A i \in 1 .. n : window[i] = slots[(h + i - 1) % QUEUE_SIZE]
  <1> DEFINE window == [i \in 1 .. n |-> slots[(h + i - 1) % QUEUE_SIZE]]
  <1>1. ASSUME NEW i \in 1 .. n
        PROVE  slots[(h + i - 1) % QUEUE_SIZE] \in Item
    <2>1. i - 1 \in 0 .. QUEUE_SIZE /\ h + i - 1 = h + (i - 1)
      BY CircularQueueAssumption DEF Slot
    <2>2. (h + (i - 1)) % QUEUE_SIZE \in Slot
      BY <2>1, SlotOf
    <2> QED  BY <2>1, <2>2
  <1>2. window \in [1 .. n -> Item] /\ n \in Nat
    BY <1>1, CircularQueueAssumption
  <1> QED  BY <1>2

LEMMA ContentsProperties ==
    ASSUME TypeOK
    PROVE  /\ Contents \in Seq(Item)
           /\ Len(Contents) = size
           /\ \A i \in 1 .. size :
                 Contents[i] = items[(head + i - 1) % QUEUE_SIZE]
  BY WindowProperties DEF Contents, TypeOK

LEMMA ContentsPropertiesPrime ==
    ASSUME TypeOK'
    PROVE  /\ Contents' \in Seq(Item)
           /\ Len(Contents') = size'
           /\ \A i \in 1 .. size' :
                 Contents'[i] = items'[(head' + i - 1) % QUEUE_SIZE]
  BY WindowProperties DEF Contents, TypeOK

\* An item stored at the tail is behind all others.
LEMMA StoreAppends ==
    ASSUME TypeOK, TypeOK', CountersAgree, NEW item \in Item,
           size < QUEUE_SIZE, items' = Store(item), size' = size + 1, head' = head
    PROVE  Contents' = Append(Contents, item)
  <1> USE CircularQueueAssumption
  <1> DEFINE at(i) == (head + i - 1) % QUEUE_SIZE
  <1>1. ASSUME NEW i \in 1 .. size + 1
        PROVE  /\ at(i) \in Slot
               /\ at(i) = tail <=> i = size + 1
    <2>1. i - 1 \in 0 .. QUEUE_SIZE /\ head + i - 1 = head + (i - 1)
      BY DEF TypeOK, Slot
    <2>2. /\ at(i) \in Slot
          /\ at(i) = IF head + (i - 1) < QUEUE_SIZE THEN head + (i - 1)
                     ELSE head + (i - 1) - QUEUE_SIZE
      BY <2>1, SlotOf DEF TypeOK
    <2>3. tail = IF head + size < QUEUE_SIZE THEN head + size
                 ELSE head + size - QUEUE_SIZE
      BY SlotOf DEF TypeOK, CountersAgree
    <2> QED  BY <2>2, <2>3 DEF TypeOK, Slot
  <1>2. ASSUME NEW i \in 1 .. size + 1
        PROVE  Contents'[i] = Append(Contents, item)[i]
    <2>1. Contents'[i] = items'[at(i)]
      BY ContentsPropertiesPrime
    <2>2. CASE i = size + 1
      BY <2>1, <2>2, <1>1, ContentsProperties DEF Store, TypeOK
    <2>3. CASE i # size + 1
      <3>1. Contents'[i] = items[at(i)]
        BY <2>1, <2>3, <1>1 DEF Store, TypeOK
      <3>2. i \in 1 .. size
        BY <2>3 DEF TypeOK
      <3> QED  BY <3>1, <3>2, ContentsProperties
    <2> QED  BY <2>2, <2>3
  <1>3. Contents' \in Seq(Item) /\ Len(Contents') = size + 1
    BY ContentsPropertiesPrime
  <1>4. Append(Contents, item) \in Seq(Item) /\ Len(Append(Contents, item)) = size + 1
    BY ContentsProperties
  <1> QED  BY <1>2, <1>3, <1>4, SeqEqual

\* What is taken at the head is the oldest item, and the others keep their order.
LEMMA TakeRemovesHead ==
    ASSUME TypeOK, TypeOK', size > 0,
           items' = items, size' = size - 1, head' = NextSlot(head)
    PROVE  Contents # <<>> /\ items[head] = Head(Contents) /\ Contents' = Tail(Contents)
  <1> USE CircularQueueAssumption
  <1>1. Contents # <<>> /\ Contents[1] = items[head]
    <2>1. head + 1 - 1 = head /\ head \in 0 .. 2 * QUEUE_SIZE - 1 /\ head < QUEUE_SIZE
      BY DEF TypeOK, Slot
    <2>2. head % QUEUE_SIZE = head
      BY <2>1, ModBelowTwice
    <2> QED  BY <2>1, <2>2, ContentsProperties DEF TypeOK
  <1>2. ASSUME NEW i \in 1 .. size - 1
        PROVE  Contents'[i] = Tail(Contents)[i]
    <2>1. (NextSlot(head) + i - 1) % QUEUE_SIZE = (head + (i + 1) - 1) % QUEUE_SIZE
      <3>1. /\ i - 1 \in 0 .. QUEUE_SIZE /\ i \in 0 .. QUEUE_SIZE
            /\ NextSlot(head) + i - 1 = NextSlot(head) + (i - 1)
            /\ head + (i + 1) - 1 = head + i
        BY NextSlotProperties DEF TypeOK, Slot
      <3>2. (NextSlot(head) + (i - 1)) % QUEUE_SIZE = (head + i) % QUEUE_SIZE
        <4>1. /\ NextSlot(head) \in Slot
              /\ NextSlot(head) = IF head = QUEUE_SIZE - 1 THEN 0 ELSE head + 1
          BY NextSlotProperties DEF TypeOK
        <4>2. (NextSlot(head) + (i - 1)) % QUEUE_SIZE =
                IF NextSlot(head) + (i - 1) < QUEUE_SIZE
                THEN NextSlot(head) + (i - 1)
                ELSE NextSlot(head) + (i - 1) - QUEUE_SIZE
          BY <3>1, <4>1, SlotOf
        <4>3. (head + i) % QUEUE_SIZE =
                IF head + i < QUEUE_SIZE THEN head + i ELSE head + i - QUEUE_SIZE
          BY <3>1, SlotOf DEF TypeOK
        <4> QED  BY <4>1, <4>2, <4>3 DEF TypeOK, Slot
      <3> QED  BY <3>1, <3>2
    <2>2. Contents'[i] = items[(NextSlot(head) + i - 1) % QUEUE_SIZE]
      BY ContentsPropertiesPrime
    <2>3. i + 1 \in 1 .. size /\ Contents[i + 1] = Tail(Contents)[i]
      BY ContentsProperties, HeadTailProperties, <1>1 DEF TypeOK
    <2> QED  BY <2>1, <2>2, <2>3, ContentsProperties
  <1>3. Contents' \in Seq(Item) /\ Len(Contents') = size - 1
    BY ContentsPropertiesPrime
  <1>4. Tail(Contents) \in Seq(Item) /\ Len(Tail(Contents)) = size - 1
    BY ContentsProperties, HeadTailProperties, <1>1
  <1> QED  BY <1>1, <1>2, <1>3, <1>4, SeqEqual, ContentsProperties

LEMMA InitIsEmpty == Init => Fifo!Init
  <1> SUFFICES ASSUME Init PROVE Fifo!Init
    OBVIOUS
  <1>1. TypeOK /\ size = 0
    BY InitIInv DEF IInv, Init
  <1>2. Contents = <<>>
    BY <1>1, ContentsProperties, EmptySeq
  <1> QED  BY <1>2 DEF Init, Fifo!Init

LEMMA StepIsFifo == IInv /\ IInv' /\ [Next]_vars => [Fifo!Next]_Fifo!vars
  <1> SUFFICES ASSUME TypeOK, TypeOK', CountersAgree, [Next]_vars
               PROVE  [Fifo!Next]_Fifo!vars
    BY DEF IInv
  <1> USE CircularQueueAssumption
  <1>1. Contents \in Seq(Item) /\ Len(Contents) = size
    BY ContentsProperties
  <1>2. UNCHANGED queue => Contents' = Contents
    BY DEF queue, Contents
  <1>3. CASE queue_init
    <2>1. Contents' = <<>>
      BY <1>3, ContentsPropertiesPrime, EmptySeq DEF queue_init
    <2>2. Fifo!Clear
      BY <1>3, <2>1 DEF queue_init, Fifo!Clear
    <2> QED  BY <2>2 DEF Fifo!Next
  <1>4. ASSUME NEW item \in Item, queue_in(item)
        PROVE  Fifo!Put(item)
    <2>1. CASE queue_is_full /\ ret' = -1 /\ UNCHANGED <<queue, out>>
      BY <1>1, <1>2, <2>1
      DEF queue_is_full, Fifo!Put, Fifo!queue_in, Fifo!queue_is_full
    <2>2. CASE /\ ~queue_is_full
               /\ items' = Store(item)
               /\ size' = size + 1
               /\ tail' = NextSlot(tail)
               /\ ret' = 0
               /\ UNCHANGED <<head, out>>
      <3>1. size < QUEUE_SIZE
        BY <2>2 DEF queue_is_full, TypeOK
      <3>2. Contents' = Append(Contents, item)
        BY <2>2, <3>1, StoreAppends
      <3> QED  BY <1>1, <2>2, <3>1, <3>2
               DEF TypeOK, Fifo!Put, Fifo!queue_in, Fifo!queue_is_full
    <2> QED  BY <1>4, <2>1, <2>2 DEF queue_in
  <1>5. ASSUME NEW hasItem \in BOOLEAN, queue_out(hasItem)
        PROVE  Fifo!Take \/ Fifo!Refuse
    <2>1. CASE /\ queue_is_empty \/ ~hasItem
               /\ ret' = -1
               /\ UNCHANGED <<queue, out>>
      BY <1>2, <2>1 DEF Fifo!Refuse
    <2>2. CASE /\ ~queue_is_empty
               /\ out' = items[head]
               /\ size' = size - 1
               /\ head' = NextSlot(head)
               /\ ret' = 0
               /\ UNCHANGED <<items, tail>>
      <3>1. size > 0
        BY <2>2 DEF queue_is_empty, TypeOK
      <3>2. /\ items[head] = Head(Contents)
            /\ Contents' = Tail(Contents)
        BY <2>2, <3>1, TakeRemovesHead
      <3> QED  BY <1>1, <2>2, <3>1, <3>2
               DEF TypeOK, Fifo!Take, Fifo!queue_out, Fifo!queue_is_empty
    <2> QED  BY <1>5, <2>1, <2>2 DEF queue_out
  <1>6. CASE UNCHANGED vars
    BY <1>2, <1>6 DEF vars, queue, Fifo!vars
  <1> QED  BY <1>3, <1>4, <1>5, <1>6 DEF Next, Fifo!Next

\* Whatever the capacity and the items, a queue_t behaves as a bounded FIFO: the
\* modules that use one may be modelled with sequences.
THEOREM Refinement == Spec => IsFifo
  <1> QED  BY InitIInv, StepIInv, InitIsEmpty, StepIsFifo, PTL
           DEF Spec, IsFifo, Fifo!Spec

=============================================================================
