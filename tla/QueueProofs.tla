----------------------------- MODULE QueueProofs -----------------------------
(***************************************************************************)
(* What the operations of Queue do to a queue that holds no item twice, as *)
(* the allocators and the run queue do: which items it then holds, and how *)
(* long it can be.                                                         *)
(***************************************************************************)
EXTENDS Queue, FiniteSetTheorems, SequenceTheorems, TLAPS

\* A queue without duplicates is no longer than its items can be numbered.
LEMMA DistinctBound ==
    ASSUME NEW S, NEW q \in Seq(S), IsInjective(q), NEW n \in Nat,
           NEW f \in [S -> 1 .. n],
           \A i, j \in 1 .. Len(q) : f[q[i]] = f[q[j]] => q[i] = q[j]
    PROVE  Len(q) <= n
  <1> DEFINE g == [i \in 1 .. Len(q) |-> f[q[i]]]
  <1>1. Len(q) \in Nat /\ DOMAIN q = 1 .. Len(q)
    BY LenProperties
  <1>2. g \in [1 .. Len(q) -> 1 .. n]
    BY ElementOfSeq
  <1>3. /\ IsFiniteSet(1 .. n) /\ Cardinality(1 .. n) = n
        /\ IsFiniteSet(1 .. Len(q)) /\ Cardinality(1 .. Len(q)) = Len(q)
    <2>1. IsFiniteSet(1 .. n) /\ Cardinality(1 .. n) = IF 1 > n THEN 0 ELSE n - 1 + 1
      BY FS_Interval
    <2>2. /\ IsFiniteSet(1 .. Len(q))
          /\ Cardinality(1 .. Len(q)) = IF 1 > Len(q) THEN 0 ELSE Len(q) - 1 + 1
      BY <1>1, FS_Interval
    <2> QED  BY <1>1, <2>1, <2>2
  <1> SUFFICES ASSUME Len(q) > n PROVE FALSE
    BY <1>1
  <1>4. PICK i, j \in 1 .. Len(q) : i # j /\ g[i] = g[j]
    <2> DEFINE places == 1 .. Len(q)
               numbers == 1 .. n
    <2>1. /\ g \in [places -> numbers]
          /\ IsFiniteSet(places) /\ IsFiniteSet(numbers)
          /\ Cardinality(numbers) < Cardinality(places)
      BY <1>1, <1>2, <1>3
    <2> HIDE DEF g, places, numbers
    <2>2. \E i, j \in places : i # j /\ g[i] = g[j]
      BY <2>1, FS_PigeonHole
    <2> QED  BY <2>2 DEF places
  <1> QED  BY <1>1, <1>4 DEF IsInjective

\* queue_in on a queue with room.
LEMMA QueueInProperties ==
    ASSUME NEW S, NEW q \in Seq(S), NEW x \in S, ~queue_is_full(q)
    PROVE  /\ queue_in(q, x) = Append(q, x)
           /\ queue_in(q, x) \in Seq(S)
           /\ Range(queue_in(q, x)) = Range(q) \cup {x}
           /\ IsInjective(q) /\ x \notin Range(q) => IsInjective(queue_in(q, x))
  <1> DEFINE r == Append(q, x)
  <1>1. queue_in(q, x) = r
    BY DEF queue_in
  <1>2. /\ r \in Seq(S) /\ Len(r) = Len(q) + 1 /\ Len(q) \in Nat
        /\ \A i \in 1 .. Len(q) : r[i] = q[i]
        /\ r[Len(q) + 1] = x
        /\ DOMAIN r = 1 .. Len(q) + 1 /\ DOMAIN q = 1 .. Len(q)
    BY LenProperties
  <1> HIDE DEF r
  <1>3. Range(r) = Range(q) \cup {x}
    <2>1. Range(r) \subseteq Range(q) \cup {x}
      BY <1>2 DEF Range
    <2>2. Range(q) \subseteq Range(r)
      BY <1>2 DEF Range
    <2>3. x \in Range(r)
      BY <1>2 DEF Range
    <2> QED  BY <2>1, <2>2, <2>3
  <1>4. ASSUME IsInjective(q), x \notin Range(q)
        PROVE  IsInjective(r)
    <2> SUFFICES ASSUME NEW i \in 1 .. Len(q) + 1, NEW j \in 1 .. Len(q) + 1,
                        r[i] = r[j]
                 PROVE  i = j
      BY <1>2 DEF IsInjective
    <2>1. CASE i <= Len(q) /\ j <= Len(q)
      BY <1>2, <1>4, <2>1 DEF IsInjective
    <2>2. CASE i = Len(q) + 1 \/ j = Len(q) + 1
      <3>1. \A k \in 1 .. Len(q) : r[k] # x
        BY <1>2, <1>4 DEF Range
      <3> QED  BY <1>2, <2>2, <3>1
    <2> QED  BY <1>2, <2>1, <2>2
  <1> QED  BY <1>1, <1>2, <1>3, <1>4

\* queue_out on a queue that is not empty.
LEMMA QueueOutProperties ==
    ASSUME NEW S, NEW q \in Seq(S), ~queue_is_empty(q), IsInjective(q)
    PROVE  /\ Head(q) \in Range(q)
           /\ Head(q) = q[1]
           /\ queue_out(q) = Tail(q)
           /\ queue_out(q) \in Seq(S)
           /\ Range(queue_out(q)) = Range(q) \ {Head(q)}
           /\ IsInjective(queue_out(q))
  <1> DEFINE r == Tail(q)
  <1>1. queue_out(q) = r
    BY DEF queue_out
  <1>2. /\ r \in Seq(S) /\ Len(r) = Len(q) - 1 /\ Len(q) \in Nat \ {0}
        /\ \A i \in 1 .. Len(q) - 1 : r[i] = q[i + 1]
        /\ Head(q) = q[1]
        /\ DOMAIN r = 1 .. Len(q) - 1 /\ DOMAIN q = 1 .. Len(q)
    BY HeadTailProperties, LenProperties, EmptySeq DEF queue_is_empty
  <1> HIDE DEF r
  <1>3. Range(r) = Range(q) \ {Head(q)}
    <2>1. Range(r) \subseteq Range(q) \ {Head(q)}
      BY <1>2 DEF Range, IsInjective
    <2>2. ASSUME NEW y \in Range(q), y # Head(q)
          PROVE  y \in Range(r)
      <3>1. PICK i \in 1 .. Len(q) : y = q[i]
        BY <1>2 DEF Range
      <3>2. i - 1 \in 1 .. Len(q) - 1 /\ r[i - 1] = y
        BY <1>2, <2>2, <3>1
      <3> QED  BY <1>2, <3>2 DEF Range
    <2> QED  BY <2>1, <2>2
  <1>4. IsInjective(r)
    BY <1>2 DEF IsInjective
  <1>5. Head(q) \in Range(q)
    BY <1>2 DEF Range
  <1> QED  BY <1>1, <1>2, <1>3, <1>4, <1>5

\* A queue rotated up to its k-th item, which is taken out.
TakenOut(q, k) == SubSeq(q, k + 1, Len(q)) \o SubSeq(q, 1, k - 1)

LEMMA RotateProperties ==
    ASSUME NEW S, NEW q \in Seq(S), IsInjective(q), NEW k \in 1 .. Len(q)
    PROVE  /\ TakenOut(q, k) \in Seq(S)
           /\ Range(TakenOut(q, k)) = Range(q) \ {q[k]}
           /\ IsInjective(TakenOut(q, k))
  <1> DEFINE after == SubSeq(q, k + 1, Len(q))
             before == SubSeq(q, 1, k - 1)
             r == after \o before
             n == Len(q)
  <1>1. n \in Nat /\ DOMAIN q = 1 .. n /\ k \in 1 .. n
    BY LenProperties
  <1>2. /\ after \in Seq(S) /\ Len(after) = n - k
        /\ \A i \in 1 .. n - k : after[i] = q[k + i]
    <2>1. \A i \in k + 1 .. n : q[i] \in S
      BY <1>1, ElementOfSeq
    <2>2. k + 1 \in Int /\ n \in Int
      BY <1>1
    <2>3. /\ after \in Seq(S)
          /\ Len(after) = IF k + 1 <= n THEN n - (k + 1) + 1 ELSE 0
          /\ \A i \in 1 .. n - (k + 1) + 1 : after[i] = q[k + 1 + i - 1]
      BY <2>1, <2>2, SubSeqProperties
    <2> HIDE DEF after, n
    <2>4. /\ n - (k + 1) + 1 = n - k
          /\ \A i \in 1 .. n - k : k + 1 + i - 1 = k + i
      BY <1>1
    <2>5. Len(after) = n - k
      <3>1. CASE k + 1 <= n
        BY <1>1, <2>3, <3>1
      <3>2. CASE k = n
        BY <1>1, <2>3, <3>2
      <3> QED  BY <1>1, <3>1, <3>2
    <2>6. \A i \in 1 .. n - k : after[i] = q[k + i]
      BY <2>3, <2>4
    <2> QED  BY <2>3, <2>5, <2>6
  <1>3. /\ before \in Seq(S) /\ Len(before) = k - 1
        /\ \A i \in 1 .. k - 1 : before[i] = q[i]
    <2>1. \A i \in 1 .. k - 1 : q[i] \in S
      BY <1>1, ElementOfSeq
    <2>2. k - 1 \in Int
      BY <1>1
    <2>3. /\ before \in Seq(S)
          /\ Len(before) = IF 1 <= k - 1 THEN k - 1 - 1 + 1 ELSE 0
          /\ \A i \in 1 .. k - 1 - 1 + 1 : before[i] = q[1 + i - 1]
      BY <2>1, <2>2, SubSeqProperties
    <2> HIDE DEF before
    <2> QED  BY <1>1, <2>3
  <1> HIDE DEF after, before, n
  <1>4. /\ r \in Seq(S) /\ Len(r) = n - 1 /\ DOMAIN r = 1 .. n - 1
        /\ \A i \in 1 .. n - 1 : r[i] = IF i <= n - k THEN q[k + i] ELSE q[i - (n - k)]
    <2>1. /\ r \in Seq(S) /\ Len(r) = n - 1
          /\ \A i \in 1 .. n - 1 :
                r[i] = IF i <= n - k THEN after[i] ELSE before[i - (n - k)]
      BY <1>1, <1>2, <1>3, ConcatProperties
    <2>2. DOMAIN r = 1 .. n - 1
      BY <2>1, LenProperties
    <2> HIDE DEF r
    <2>3. ASSUME NEW i \in 1 .. n - 1
          PROVE  r[i] = IF i <= n - k THEN q[k + i] ELSE q[i - (n - k)]
      <3>1. CASE i <= n - k
        <4>1. i \in 1 .. n - k
          BY <1>1, <3>1
        <4> QED  BY <1>2, <2>1, <3>1, <4>1
      <3>2. CASE ~(i <= n - k)
        <4>1. i - (n - k) \in 1 .. k - 1
          BY <1>1, <3>2
        <4> QED  BY <1>3, <2>1, <3>2, <4>1
      <3> QED  BY <3>1, <3>2
    <2> QED  BY <2>1, <2>2, <2>3
  <1> HIDE DEF r
  <1>5. Range(r) = Range(q) \ {q[k]}
    <2>1. ASSUME NEW y \in Range(r)
          PROVE  y \in Range(q) \ {q[k]}
      <3>1. PICK i \in 1 .. n - 1 : y = r[i]
        BY <1>4 DEF Range
      <3>2. PICK j \in 1 .. n : y = q[j] /\ j # k
        BY <1>1, <1>4, <3>1
      <3> QED  BY <1>1, <3>2 DEF Range, IsInjective
    <2>2. ASSUME NEW y \in Range(q), y # q[k]
          PROVE  y \in Range(r)
      <3>1. PICK j \in 1 .. n : y = q[j] /\ j # k
        BY <1>1, <2>2 DEF Range
      <3>2. CASE j > k
        <4>1. j - k \in 1 .. n - 1 /\ r[j - k] = y
          BY <1>1, <1>4, <3>1, <3>2
        <4> QED  BY <1>4, <4>1 DEF Range
      <3>3. CASE j < k
        <4>1. j + (n - k) \in 1 .. n - 1 /\ r[j + (n - k)] = y
          BY <1>1, <1>4, <3>1, <3>3
        <4> QED  BY <1>4, <4>1 DEF Range
      <3> QED  BY <1>1, <3>1, <3>2, <3>3
    <2> QED  BY <2>1, <2>2
  <1>6. IsInjective(r)
    <2> SUFFICES ASSUME NEW i \in 1 .. n - 1, NEW j \in 1 .. n - 1, r[i] = r[j]
                 PROVE  i = j
      BY <1>4 DEF IsInjective
    <2>1. \A a, b \in 1 .. n : q[a] = q[b] => a = b
      BY <1>1 DEF IsInjective
    <2> QED  BY <1>1, <1>4, <2>1
  <1>7. r = TakenOut(q, k)
    BY DEF TakenOut, r, after, before, n
  <1> QED  BY <1>4, <1>5, <1>6, <1>7

=============================================================================
