--------------------------- MODULE KeyboardProofs ---------------------------
(***************************************************************************)
(* The invariants of Keyboard, for every set of keys and every bound on    *)
(* the bytes that wait.                                                    *)
(*                                                                         *)
(* The bytes waiting in the port lead from the status the driver has to    *)
(* the one the keyboard is in: each byte toggles what it toggles, and      *)
(* means what it decodes to in the status before it (Trail).  A press or a *)
(* release adds a byte at the end of the trail, and the driver takes one   *)
(* from its beginning.                                                     *)
(***************************************************************************)
EXTENDS Keyboard, SequenceTheorems, TLAPS

\* What all the proofs assume of the keyboard: one key for each modifier, which
\* does not repeat while it is held.
OneKeyEach ==
    /\ \A key, other \in Key :
          KeyCode[key] \in Modifiers /\ KeyCode[other] = KeyCode[key] => other = key
    /\ \A key \in REPEATING : KeyCode[key] \notin Modifiers

\* And what the decoding of the keys relies on: the maps have all of them.
NoneBeyond == "arrow" \notin Key

Codes == {KeyCode[key] : key \in Key} \cup {"prefix"}

Bytes == [code : Codes, down : BOOLEAN, meant : Outputs]

Statuses == SUBSET (Modifiers \cup Locks)

\* The status of the keyboard itself.
Pressed == {m \in Modifiers : Down(m)} \cup locks

MeantIn(status, byte) ==
    byte.code = "beyond" \/ Decoded(status, byte) = {byte.meant}

\* The bytes of p lead from status s to status d, by the statuses st.
Path(p, st) ==
    \A i \in 1 .. Len(p) : /\ st[i] = StatusAfter(st[i - 1], p[i])
                           /\ MeantIn(st[i - 1], p[i])

Trail(p, s, d) ==
    \E st \in [0 .. Len(p) -> Statuses] : st[0] = s /\ st[Len(p)] = d /\ Path(p, st)

IInv ==
    /\ TypeOK
    /\ port \in Seq(Bytes)
    /\ Trail(port, kbd_status, Pressed)
    /\ NoneBeyond => NoKeyMisread

-----------------------------------------------------------------------------

LEMMA StatusType ==
    ASSUME NEW s \in Statuses, NEW byte \in Bytes
    PROVE  StatusAfter(s, byte) \in Statuses
  BY DEF StatusAfter, Toggled, IsModifier, IsLock, Statuses

\* A byte at the end of the trail.
LEMMA AppendByte ==
    ASSUME NEW p \in Seq(Bytes), NEW s, NEW d, NEW byte \in Bytes,
           Trail(p, s, d), MeantIn(d, byte)
    PROVE  Append(p, byte) \in Seq(Bytes) /\ Trail(Append(p, byte), s, StatusAfter(d, byte))
  <1> DEFINE q == Append(p, byte)
  <1>1. PICK st \in [0 .. Len(p) -> Statuses] :
              st[0] = s /\ st[Len(p)] = d /\ Path(p, st)
    BY DEF Trail
  <1> DEFINE sq == [i \in 0 .. Len(q) |-> IF i = Len(q) THEN StatusAfter(d, byte)
                                          ELSE st[i]]
  <1>2. /\ q \in Seq(Bytes) /\ Len(p) \in Nat /\ Len(q) = Len(p) + 1
        /\ q[Len(q)] = byte
        /\ \A i \in 1 .. Len(p) : q[i] = p[i]
    OBVIOUS
  <1> HIDE DEF q
  <1>3. d \in Statuses /\ StatusAfter(d, byte) \in Statuses
    BY <1>1, <1>2, StatusType
  <1>4. sq \in [0 .. Len(q) -> Statuses]
    BY <1>1, <1>2, <1>3
  <1>5. ASSUME NEW i \in 1 .. Len(q)
        PROVE  /\ sq[i] = StatusAfter(sq[i - 1], q[i])
               /\ MeantIn(sq[i - 1], q[i])
    <2>1. CASE i = Len(q)
      BY <1>1, <1>2, <2>1
    <2>2. CASE i # Len(q)
      <3>1. i \in 1 .. Len(p) /\ i - 1 \in 0 .. Len(p)
        BY <1>2, <2>2
      <3>2. sq[i] = st[i] /\ sq[i - 1] = st[i - 1] /\ q[i] = p[i]
        BY <1>2, <3>1
      <3> QED  BY <1>1, <3>1, <3>2 DEF Path
    <2> QED  BY <2>1, <2>2
  <1>6. sq[0] = s /\ sq[Len(q)] = StatusAfter(d, byte)
    BY <1>1, <1>2
  <1> HIDE DEF sq
  <1>7. Trail(q, s, StatusAfter(d, byte))
    BY <1>4, <1>5, <1>6 DEF Trail, Path
  <1> QED  BY <1>2, <1>7 DEF q

\* The byte at its beginning.
LEMMA TakeByte ==
    ASSUME NEW p \in Seq(Bytes), p # <<>>, NEW s, NEW d, Trail(p, s, d)
    PROVE  /\ Head(p) \in Bytes /\ Tail(p) \in Seq(Bytes)
           /\ s \in Statuses /\ MeantIn(s, Head(p))
           /\ Trail(Tail(p), StatusAfter(s, Head(p)), d)
  <1> DEFINE q == Tail(p)
  <1>1. PICK st \in [0 .. Len(p) -> Statuses] :
              st[0] = s /\ st[Len(p)] = d /\ Path(p, st)
    BY DEF Trail
  <1> DEFINE sq == [i \in 0 .. Len(q) |-> st[i + 1]]
  <1>2. /\ q \in Seq(Bytes) /\ Len(q) \in Nat /\ Len(p) = Len(q) + 1
        /\ Head(p) = p[1] /\ p[1] \in Bytes
        /\ \A i \in 1 .. Len(q) : q[i] = p[i + 1]
    OBVIOUS
  <1> HIDE DEF q
  <1>3. sq \in [0 .. Len(q) -> Statuses]
    BY <1>1, <1>2
  <1>4. s \in Statuses /\ MeantIn(s, p[1]) /\ sq[0] = StatusAfter(s, p[1])
    <2>1. 0 \in 0 .. Len(p) /\ 1 \in 1 .. Len(p) /\ 0 \in 0 .. Len(q)
      BY <1>2
    <2>2. st[1] = StatusAfter(st[1 - 1], p[1]) /\ MeantIn(st[1 - 1], p[1])
      BY <1>1, <2>1 DEF Path
    <2>3. sq[0] = st[1] /\ st[0] \in Statuses
      BY <2>1
    <2> QED  BY <1>1, <2>2, <2>3
  <1>5. ASSUME NEW i \in 1 .. Len(q)
        PROVE  /\ sq[i] = StatusAfter(sq[i - 1], q[i])
               /\ MeantIn(sq[i - 1], q[i])
    <2>1. i + 1 \in 1 .. Len(p) /\ i \in 0 .. Len(q) /\ i - 1 \in 0 .. Len(q)
          /\ (i + 1) - 1 = i /\ (i - 1) + 1 = i
      BY <1>2
    <2>2. st[i + 1] = StatusAfter(st[i], p[i + 1]) /\ MeantIn(st[i], p[i + 1])
      BY <1>1, <2>1 DEF Path
    <2>3. sq[i] = st[i + 1] /\ sq[i - 1] = st[i] /\ q[i] = p[i + 1]
      BY <1>2, <2>1
    <2> QED  BY <2>2, <2>3
  <1>6. sq[Len(q)] = d
    BY <1>1, <1>2
  <1> HIDE DEF sq
  <1>7. Trail(q, StatusAfter(s, p[1]), d)
    BY <1>3, <1>4, <1>5, <1>6 DEF Trail, Path
  <1> QED  BY <1>2, <1>4, <1>7 DEF q

\* An empty trail leads nowhere.
LEMMA EmptyTrail ==
    ASSUME NEW s, NEW d, Trail(<<>>, s, d)
    PROVE  s = d
  BY DEF Trail

LEMMA StartTrail ==
    ASSUME NEW s \in Statuses
    PROVE  Trail(<<>>, s, s)
  <1> DEFINE st == [i \in 0 .. 0 |-> s]
  <1>1. st \in [0 .. Len(<<>>) -> Statuses] /\ st[0] = s /\ st[Len(<<>>)] = s
    OBVIOUS
  <1>2. Path(<<>>, st)
    BY DEF Path
  <1> QED  BY <1>1, <1>2 DEF Trail

-----------------------------------------------------------------------------

\* The bytes of a key, at the end of the trail.
LEMMA SentTrail ==
    ASSUME IInv, NEW key \in Key, NEW down \in BOOLEAN,
           NEW meaning \in Outputs, Sent(key, down, meaning),
           NEW byte, byte = [code |-> KeyCode[key], down |-> down, meant |-> meaning],
           MeantIn(Pressed, byte)
    PROVE  port' \in Seq(Bytes) /\ Trail(port', kbd_status, StatusAfter(Pressed, byte))
  <1>1. byte \in Bytes /\ Prefix \in Bytes
    BY KeyboardAssumption DEF Bytes, Codes, KeyCode, Prefix, Modifiers, Locks, Outputs
  <1>2. /\ MeantIn(Pressed, Prefix)
        /\ StatusAfter(Pressed, Prefix) = Pressed
    BY DEF MeantIn, Decoded, StatusAfter, IsModifier, IsLock, Prefix, Modifiers, Locks
  <1>3. CASE key \in Prefixed
    <2> DEFINE p == Append(port, Prefix)
    <2>1. port' = Append(p, byte)
      BY <1>1, <1>3 DEF Sent, IInv
    <2>2. p \in Seq(Bytes) /\ Trail(p, kbd_status, Pressed)
      BY <1>1, <1>2, AppendByte DEF IInv
    <2> HIDE DEF p, Pressed, MeantIn
    <2> QED  BY <1>1, <2>1, <2>2, AppendByte
  <1>4. CASE key \notin Prefixed
    <2>1. port' = Append(port, byte)
      BY <1>1, <1>4 DEF Sent, IInv
    <2> QED  BY <1>1, <2>1, AppendByte DEF IInv
  <1> QED  BY <1>3, <1>4

LEMMA PressStep ==
    ASSUME IInv, OneKeyEach, NEW key \in Key, press(key)
    PROVE  IInv'
  <1> DEFINE byte == [code |-> KeyCode[key], down |-> TRUE, meant |-> Meaning(key)]
  <1>1. /\ key \in DOMAIN KeyCode
        /\ held \subseteq Key /\ locks \subseteq Locks
    BY KeyboardAssumption DEF IInv, TypeOK
  <1>2. Meaning(key) \in Outputs
    BY DEF Meaning, Outputs
  <1>3. MeantIn(Pressed, byte)
    <2>1. /\ ("shift" \in Pressed) = Down("shift")
          /\ ("ctrl" \in Pressed) = Down("ctrl")
          /\ ("caps" \in Pressed) = ("caps" \in locks)
      <3>1. /\ "shift" \in Pressed <=> Down("shift")
            /\ "ctrl" \in Pressed <=> Down("ctrl")
            /\ "caps" \in Pressed <=> "caps" \in locks
        BY <1>1 DEF Pressed, Modifiers, Locks
      <3>2. Down("shift") \in BOOLEAN /\ Down("ctrl") \in BOOLEAN
        BY DEF Down
      <3> HIDE DEF Pressed
      <3> QED  BY <3>1, <3>2
    <2>2. byte.code = KeyCode[key] /\ byte.down = TRUE /\ byte.meant = Meaning(key)
      OBVIOUS
    <2> HIDE DEF byte
    <2>3. CASE key \in {"letter", "digit"}
      <3>1. byte.code = key /\ Decoded(Pressed, byte) = {Looked(Pressed, key)}
        BY <2>2, <2>3 DEF Decoded, KeyCode
      <3>2. Meaning(key) = Looked(Pressed, key)
        <4>1. Meaning(key) = IF Down("shift") # (key = "letter" /\ "caps" \in locks)
                             THEN "secondary"
                             ELSE IF Down("ctrl") THEN "command" ELSE "primary"
          BY <2>3 DEF Meaning
        <4> HIDE DEF Pressed
        <4> QED  BY <2>1, <4>1, Zenon DEF Looked, UsesSecondary
      <3> QED  BY <2>2, <3>1, <3>2 DEF MeantIn
    <2>4. CASE key = "escape"
      <3>1. byte.code = "escape" /\ Meaning(key) = "escape"
        BY <2>2, <2>4 DEF KeyCode, Meaning
      <3>2. Decoded(Pressed, byte) = {"escape"}
        BY <3>1 DEF Decoded
      <3> QED  BY <2>2, <3>1, <3>2 DEF MeantIn
    <2>6. CASE key = "arrow"
      BY <2>2, <2>6 DEF MeantIn, KeyCode
    <2>5. CASE key \notin {"letter", "digit", "escape", "arrow"}
      <3>1. byte.code \in Modifiers \cup Locks
        BY <1>1, <2>2, <2>5 DEF KeyCode, Modifiers, Locks
      <3>2. Decoded(Pressed, byte) = {"null"} /\ Meaning(key) = "null"
        BY <2>5, <3>1 DEF Decoded, Meaning, Modifiers, Locks
      <3> QED  BY <2>2, <3>2 DEF MeantIn
    <2> QED  BY <2>3, <2>4, <2>5, <2>6
  <1>4. Pressed' = StatusAfter(Pressed, byte)
    <2>1. CASE KeyCode[key] \in Modifiers
      <3>1. key \notin held /\ ~Down(KeyCode[key])
        BY <1>1, <2>1 DEF press, OneKeyEach, Down
      <3>2. KeyCode[key] \notin Locks
        BY <2>1 DEF Modifiers, Locks
      <3>3. held' = held \cup {key} /\ locks' = locks
        BY <3>2 DEF press
      <3>4. \A m \in Modifiers : Down(m)' <=> Down(m) \/ m = KeyCode[key]
        BY <3>3 DEF Down
      <3>5. KeyCode[key] \notin Pressed
        BY <1>1, <3>1, <3>2 DEF Pressed
      <3>6. StatusAfter(Pressed, byte) = Pressed \cup {KeyCode[key]}
        BY <2>1, <3>5 DEF StatusAfter, Toggled, IsModifier
      <3> QED  BY <2>1, <3>3, <3>4, <3>6 DEF Pressed
    <2>2. CASE KeyCode[key] \notin Modifiers
      <3>1. held' = held \cup {key}
        BY DEF press
      <3>2. \A m \in Modifiers : Down(m)' <=> Down(m)
        BY <2>2, <3>1 DEF Down
      <3>3. CASE KeyCode[key] \notin Locks
        <4>1. locks' = locks
          BY <3>3 DEF press
        <4>2. StatusAfter(Pressed, byte) = Pressed
          BY <2>2, <3>3 DEF StatusAfter, IsModifier, IsLock
        <4> QED  BY <3>2, <4>1, <4>2 DEF Pressed
      <3>4. CASE KeyCode[key] \in Locks
        <4>1. locks' = IF KeyCode[key] \in locks THEN locks \ {KeyCode[key]}
                       ELSE locks \cup {KeyCode[key]}
          BY <3>4 DEF press
        <4>2. StatusAfter(Pressed, byte) = Toggled(Pressed, KeyCode[key])
          BY <3>4 DEF StatusAfter, IsLock
        <4>3. KeyCode[key] \in Pressed <=> KeyCode[key] \in locks
          BY <2>2 DEF Pressed
        <4> QED  BY <2>2, <3>2, <4>1, <4>2, <4>3 DEF Pressed, Toggled
      <3> QED  BY <3>3, <3>4
    <2> QED  BY <2>1, <2>2
  <1>5. Sent(key, TRUE, Meaning(key)) /\ UNCHANGED <<kbd_status, out, meant>>
    BY DEF press
  <1>6. port' \in Seq(Bytes) /\ Trail(port', kbd_status, StatusAfter(Pressed, byte))
    <2> HIDE DEF Pressed, MeantIn
    <2> QED  BY <1>2, <1>3, <1>5, SentTrail
  <1>7. TypeOK'
    BY <1>1, <1>5 DEF press, IInv, TypeOK
  <1> HIDE DEF byte
  <1> QED  BY <1>4, <1>5, <1>6, <1>7 DEF IInv, NoKeyMisread

LEMMA ReleaseStep ==
    ASSUME IInv, OneKeyEach, NEW key \in Key, release(key)
    PROVE  IInv'
  <1> DEFINE byte == [code |-> KeyCode[key], down |-> FALSE,
                      meant |-> ReleaseMeaning(key)]
  <1>1. /\ key \in DOMAIN KeyCode /\ key \in held
        /\ held \subseteq Key /\ locks \subseteq Locks
    BY KeyboardAssumption DEF IInv, TypeOK, release
  <1>2. ReleaseMeaning(key) \in Outputs
    BY DEF ReleaseMeaning, Outputs
  <1>3. MeantIn(Pressed, byte)
    BY <1>1 DEF MeantIn, ReleaseMeaning, Decoded, KeyCode
  <1>4. Pressed' = StatusAfter(Pressed, byte)
    <2>0. held' = held \ {key} /\ locks' = locks
      BY DEF release
    <2>1. CASE KeyCode[key] \in Modifiers
      <3>1. Down(KeyCode[key]) /\ KeyCode[key] \in Pressed
        BY <1>1, <2>1 DEF Down, Pressed
      <3>2. ASSUME NEW m \in Modifiers
            PROVE  Down(m)' <=> Down(m) /\ m # KeyCode[key]
        BY <1>1, <2>0, <2>1 DEF Down, OneKeyEach
      <3>3. StatusAfter(Pressed, byte) = Pressed \ {KeyCode[key]}
        BY <2>1, <3>1 DEF StatusAfter, Toggled, IsModifier
      <3>4. KeyCode[key] \notin locks
        BY <1>1, <2>1 DEF Modifiers, Locks
      <3> QED  BY <2>0, <3>2, <3>3, <3>4 DEF Pressed
    <2>2. CASE KeyCode[key] \notin Modifiers
      <3>1. \A m \in Modifiers : Down(m)' <=> Down(m)
        BY <2>0, <2>2 DEF Down
      <3>2. StatusAfter(Pressed, byte) = Pressed
        BY <2>2 DEF StatusAfter, IsModifier, IsLock
      <3> QED  BY <2>0, <3>1, <3>2 DEF Pressed
    <2> QED  BY <2>1, <2>2
  <1>5. Sent(key, FALSE, ReleaseMeaning(key)) /\ UNCHANGED <<kbd_status, out, meant>>
    BY DEF release
  <1>6. port' \in Seq(Bytes) /\ Trail(port', kbd_status, StatusAfter(Pressed, byte))
    <2> HIDE DEF Pressed, MeantIn
    <2> QED  BY <1>2, <1>3, <1>5, SentTrail
  <1>7. TypeOK'
    BY <1>1, <1>5 DEF release, IInv, TypeOK
  <1> HIDE DEF byte
  <1> QED  BY <1>4, <1>5, <1>6, <1>7 DEF IInv, NoKeyMisread

LEMMA PollStep ==
    ASSUME IInv, keyboard_poll
    PROVE  IInv'
  <1>1. CASE port = <<>>
    <2>1. out' = "null" /\ meant' = "null" /\ UNCHANGED <<kbd_status, port, held, locks>>
      BY <1>1 DEF keyboard_poll
    <2>2. Pressed' = Pressed
      BY <2>1 DEF Pressed, Down
    <2> QED  BY <2>1, <2>2 DEF IInv, TypeOK, NoKeyMisread, Outputs
  <1>2. CASE port # <<>>
    <2> DEFINE byte == Head(port)
    <2>1. /\ kbd_status' = StatusAfter(kbd_status, byte)
          /\ out' \in Decoded(kbd_status, byte)
          /\ meant' = byte.meant /\ port' = Tail(port)
          /\ UNCHANGED <<held, locks>>
      BY <1>2 DEF keyboard_poll, keyboard_decode
    <2>2. /\ byte \in Bytes /\ port' \in Seq(Bytes)
          /\ kbd_status \in Statuses /\ MeantIn(kbd_status, byte)
          /\ Trail(port', kbd_status', Pressed)
      BY <1>2, <2>1, TakeByte DEF IInv
    <2> HIDE DEF byte
    <2>3. Pressed' = Pressed
      BY <2>1 DEF Pressed, Down
    <2>4. kbd_status' \in Statuses
      BY <2>1, <2>2, StatusType
    <2>5. out' \in Outputs
      BY <2>1, <2>2 DEF Decoded, Looked, Outputs
    <2>6. ASSUME NoneBeyond PROVE NoKeyMisread'
      <3>1. byte.code # "beyond"
        BY <2>2, <2>6, KeyboardAssumption DEF Bytes, Codes, KeyCode, NoneBeyond
      <3> QED  BY <2>1, <2>2, <3>1 DEF MeantIn, NoKeyMisread
    <2> QED  BY <2>1, <2>2, <2>3, <2>4, <2>5, <2>6 DEF IInv, TypeOK, Statuses
  <1> QED  BY <1>1, <1>2

LEMMA IInvHolds == ASSUME OneKeyEach PROVE Spec => []IInv
  <1>1. Init => IInv
    <2> SUFFICES ASSUME Init PROVE IInv
      OBVIOUS
    <2>1. Pressed = {} /\ {} \in Statuses
      BY DEF Init, Pressed, Down, Statuses
    <2>2. Trail(port, kbd_status, Pressed)
      BY <2>1, StartTrail DEF Init
    <2> QED  BY <2>2 DEF Init, IInv, TypeOK, NoKeyMisread, Outputs
  <1>2. IInv /\ [Next]_vars => IInv'
    <2> SUFFICES ASSUME IInv, [Next]_vars PROVE IInv'
      OBVIOUS
    <2>1. CASE UNCHANGED vars
      <3>1. Pressed' = Pressed
        BY <2>1 DEF Pressed, Down, vars
      <3> QED  BY <2>1, <3>1 DEF vars, IInv, TypeOK, NoKeyMisread
    <2> QED  BY <2>1, OneKeyEach, PressStep, ReleaseStep, PollStep DEF Next
  <1> QED  BY <1>1, <1>2, PTL DEF Spec

-----------------------------------------------------------------------------

\* The status has the five bits and no others, and the decoder returns one of
\* the kinds of results it has.
THEOREM TypeCorrect == ASSUME OneKeyEach PROVE Spec => []TypeOK
  <1>1. IInv => TypeOK
    BY DEF IInv
  <1> QED  BY OneKeyEach, IInvHolds, <1>1, PTL

\* However many bytes wait in the port, keyboard_decode gives each key that the
\* maps have the meaning it had when it was pressed.
THEOREM KeysNotMisread == ASSUME OneKeyEach, NoneBeyond PROVE Spec => []NoKeyMisread
  <1>1. IInv => NoKeyMisread
    BY NoneBeyond DEF IInv
  <1> QED  BY OneKeyEach, IInvHolds, <1>1, PTL

\* With nothing left to read, kbd_status has the bits of the modifiers held.
THEOREM ModifiersCorrect == ASSUME OneKeyEach PROVE Spec => []ModifiersFollowKeys
  <1>1. IInv => ModifiersFollowKeys
    <2> SUFFICES ASSUME IInv, port = <<>>, NEW m \in Modifiers
                 PROVE  m \in kbd_status <=> Down(m)
      BY DEF ModifiersFollowKeys
    <2>1. kbd_status = Pressed /\ m \notin locks
      BY EmptyTrail DEF IInv, TypeOK, Modifiers, Locks
    <2> QED  BY <2>1 DEF Pressed
  <1> QED  BY OneKeyEach, IInvHolds, <1>1, PTL

\* And the bits of the locks switched on.
THEOREM LocksCorrect == ASSUME OneKeyEach PROVE Spec => []LocksFollowPresses
  <1>1. IInv => LocksFollowPresses
    <2> SUFFICES ASSUME IInv, port = <<>>, NEW l \in Locks
                 PROVE  l \in kbd_status <=> l \in locks
      BY DEF LocksFollowPresses
    <2>1. kbd_status = Pressed /\ l \notin Modifiers
      BY EmptyTrail DEF IInv, Modifiers, Locks
    <2> QED  BY <2>1 DEF Pressed
  <1> QED  BY OneKeyEach, IInvHolds, <1>1, PTL

=============================================================================
