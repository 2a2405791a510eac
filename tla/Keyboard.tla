------------------------------ MODULE Keyboard ------------------------------
(***************************************************************************)
(* src/keyboard.c: the decoder of scan codes and its modifier state, behind *)
(* a keyboard whose bytes arrive later than its keys are pressed.          *)
(*                                                                         *)
(* A letter or digit key stands for all keys of the two maps that caps     *)
(* lock concerns, or does not, and an arrow key for those whose codes lie  *)
(* beyond the maps.  Each byte carries, as an auxiliary field `meant',     *)
(* what the key meant when it was pressed, by the keys held down and the   *)
(* locks at that moment.                                                   *)
(***************************************************************************)
EXTENDS Integers, Sequences

CONSTANTS
    Key,            \* the keys of the keyboard
    REPEATING,      \* those that repeat their press while they are held
    PORT_MAX        \* bound on the bytes waiting to be read

\* The code of a key, without the bit that tells a release from a press and
\* without the prefix that tells the right control and alt keys from the left.
KeyCode == [ctrl_l  |-> "ctrl",  ctrl_r  |-> "ctrl",
            alt_l   |-> "alt",   alt_r   |-> "alt",
            shift_l |-> "shift", shift_r |-> "shift",
            caps    |-> "caps",  numlock |-> "numlock",
            escape  |-> "escape", letter |-> "letter", digit |-> "digit",
            arrow   |-> "beyond"]

Prefixed == {"ctrl_r", "alt_r"}

ASSUME KeyboardAssumption ==
    /\ Key \subseteq DOMAIN KeyCode
    /\ REPEATING \subseteq Key
    /\ PORT_MAX \in Nat

VARIABLES
    kbd_status,     \* the bits that are set
    out,            \* what the decoder returned, or the command it ran
    port,           \* bytes waiting in the controller
    held,           \* keys held down
    locks,          \* locks switched on
    meant           \* auxiliary: what the byte read last meant

vars == <<kbd_status, out, port, held, locks, meant>>

Modifiers == {"ctrl", "alt", "shift"}
Locks == {"caps", "numlock"}

\* KEY_NULL, a character of the primary or the secondary map, the escape
\* character, or a call of kernel_debug_command, which returns KEY_NULL.
Outputs == {"null", "primary", "secondary", "escape", "command"}

-----------------------------------------------------------------------------
\* Plausible faults of the definitions below, for the mutation runs.

ToggleAny(byte) == TRUE
PressOnly(byte) == byte.code \in Modifiers /\ byte.down
CapsShiftsAll(status, code) == ("shift" \in status) # ("caps" \in status)
LockOnRelease(byte) == byte.code \in Locks

-----------------------------------------------------------------------------
\* The keyboard and its controller.

Down(m) == \E key \in held : KeyCode[key] = m

\* What a press of the key means: shift or caps lock, but not both, for a
\* letter, shift alone for a digit, and else control for a command.  A key that
\* no map has means nothing: "for any character that cannot be mapped, KEY_NULL
\* should be returned".
Meaning(key) ==
    CASE key = "escape" -> "escape"
      [] key \in {"letter", "digit"} ->
           IF Down("shift") # (key = "letter" /\ "caps" \in locks)
           THEN "secondary"
           ELSE IF Down("ctrl") THEN "command" ELSE "primary"
      [] OTHER -> "null"

\* The decoder returns the escape character for the release of the key too.
ReleaseMeaning(key) == IF key = "escape" THEN "escape" ELSE "null"

Prefix == [code |-> "prefix", down |-> FALSE, meant |-> "null"]

Sent(key, down, meaning) ==
    port' = port \o (IF key \in Prefixed THEN <<Prefix>> ELSE <<>>)
                 \o <<[code |-> KeyCode[key], down |-> down, meant |-> meaning]>>

press(key) ==
    /\ Len(port) < PORT_MAX
    /\ \/ key \notin held
       \/ key \in REPEATING
    /\ Sent(key, TRUE, Meaning(key))
    /\ held' = held \cup {key}
    /\ locks' = IF KeyCode[key] \notin Locks THEN locks
                ELSE IF KeyCode[key] \in locks THEN locks \ {KeyCode[key]}
                ELSE locks \cup {KeyCode[key]}
    /\ UNCHANGED <<kbd_status, out, meant>>

release(key) ==
    /\ Len(port) < PORT_MAX
    /\ key \in held
    /\ Sent(key, FALSE, ReleaseMeaning(key))
    /\ held' = held \ {key}
    /\ UNCHANGED <<kbd_status, out, locks, meant>>

-----------------------------------------------------------------------------
\* The driver.

\* Modifiers are toggled by press and release, locks by the press.
IsModifier(byte) == byte.code \in Modifiers
IsLock(byte) == byte.code \in Locks /\ byte.down

Toggled(status, code) ==
    IF code \in status THEN status \ {code} ELSE status \cup {code}

StatusAfter(status, byte) ==
    IF IsModifier(byte) \/ IsLock(byte) THEN Toggled(status, byte.code)
    ELSE status

\* Which of the two maps a key is looked up in.
UsesSecondary(status, code) ==
    ("shift" \in status) # ("caps" \in status /\ code = "letter")

Looked(status, code) ==
    IF UsesSecondary(status, code) THEN "secondary"
    ELSE IF "ctrl" \in status THEN "command"
    ELSE "primary"

\* What the decoder may return.  A lookup beyond the maps reads whatever lies
\* behind them in memory: a letter, another character, or 0.
Decoded(status, byte) ==
    CASE byte.code = "escape" -> {"escape"}
      [] byte.code \in {"letter", "digit"} /\ byte.down ->
           {Looked(status, byte.code)}
      [] byte.code = "beyond" /\ byte.down ->
           {"null", Looked(status, "letter"), Looked(status, "digit")}
      [] OTHER -> {"null"}

keyboard_decode(byte) ==
    /\ kbd_status' = StatusAfter(kbd_status, byte)
    /\ out' \in Decoded(kbd_status, byte)

\* One byte is read, if one waits.  The interrupt handler, and the wait for a
\* key at boot, do this and no more with the state of the decoder.
keyboard_poll ==
    \/ /\ port = <<>>
       /\ out' = "null" /\ meant' = "null"
       /\ UNCHANGED <<kbd_status, port, held, locks>>
    \/ /\ port # <<>>
       /\ keyboard_decode(Head(port))
       /\ meant' = Head(port).meant
       /\ port' = Tail(port)
       /\ UNCHANGED <<held, locks>>

Init ==
    /\ kbd_status = {} /\ out = "null"
    /\ port = <<>> /\ held = {} /\ locks = {} /\ meant = "null"

Next ==
    \/ \E key \in Key : press(key) \/ release(key)
    \/ keyboard_poll

Spec == Init /\ [][Next]_vars

-----------------------------------------------------------------------------
\* Properties

TypeOK ==
    /\ kbd_status \subseteq Modifiers \cup Locks
    /\ out \in Outputs
    /\ held \subseteq Key
    /\ locks \subseteq Locks

\* Whatever is typed ahead of the driver, a key is decoded as it was meant: the
\* modifiers and locks then are those of the moment it was pressed; and a key
\* that no map has is decoded as KEY_NULL and runs no command, as the comment
\* of keyboard_decode promises.
NoKeyMisread == out = meant

\* When no byte waits, a modifier's bit is set exactly while a key of that
\* modifier is held, however often it was pressed and released before.
ModifiersFollowKeys ==
    port = <<>> => \A m \in Modifiers : m \in kbd_status <=> Down(m)

\* And a lock's bit is set exactly when the lock is on.
LocksFollowPresses ==
    port = <<>> => \A l \in Locks : l \in kbd_status <=> l \in locks

=============================================================================
