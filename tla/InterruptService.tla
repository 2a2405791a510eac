--------------------------- MODULE InterruptService ---------------------------
(***************************************************************************)
(* What the interrupt code and the two controllers promise the drivers:    *)
(* one line is served at a time, the first of the open lines that ask, and *)
(* to the end; a call for a line opens or masks no other.                  *)
(*                                                                         *)
(* No controllers, no bits, no cascade and no end-of-interrupt commands.   *)
(***************************************************************************)
EXTENDS Integers

CONSTANT Line       \* the lines, numbered from 0

VARIABLES
    waiting,        \* lines with a request not yet served
    open,           \* lines that are not masked
    serving         \* the line whose handler runs, if any, as a set

vars == <<waiting, open, serving>>

\* Lines 8 to 15 have the place of line 2, in their own order.
Level(line) == IF line < 8 THEN line ELSE 2

Precedes(a, b) == Level(a) < Level(b) \/ (Level(a) = Level(b) /\ a < b)

Init == waiting = {} /\ open \subseteq Line /\ serving = {}

\* A device asks for service, again or for the first time.
Raise ==
    /\ \E line \in Line : waiting' = waiting \cup {line}
    /\ UNCHANGED <<open, serving>>

\* A driver opens or masks its line, and no other.  Which line it called for is
\* not told apart here: MasksFollowCalls of Interrupts does, for lines 0 to 7.
Change ==
    /\ \E line \in Line : open' \in {open \cup {line}, open \ {line}}
    /\ UNCHANGED <<waiting, serving>>

\* The service of a line begins, when that of the last has ended.
Serve ==
    /\ serving = {}
    /\ \E line \in waiting \cap open :
        /\ \A other \in (waiting \cap open) \ {line} : Precedes(line, other)
        /\ serving' = {line}
        /\ waiting' = waiting \ {line}
    /\ UNCHANGED open

Finish == serving # {} /\ serving' = {} /\ UNCHANGED <<waiting, open>>

Next == Raise \/ Change \/ Serve \/ Finish

Spec == Init /\ [][Next]_vars

=============================================================================
