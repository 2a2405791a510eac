------------------------------ MODULE Terminal ------------------------------
(***************************************************************************)
(* What the console promises those who print on it: a sequence of rows and *)
(* a cursor that stays on them; text that wraps at the end of a row, and   *)
(* moves up at the end of the last; and a status area that others draw in  *)
(* without disturbing the text beside it or the cursor.                    *)
(*                                                                         *)
(* No buffer and no offsets, and each character is printed at once.        *)
(***************************************************************************)
EXTENDS Integers, Sequences

CONSTANTS
    Width, Height,
    Status,         \* the cells <<row, column>> of the status area
    Start,          \* the row where the users' text begins
    Char,           \* the characters that are printed
    Empty           \* the character of an empty cell

VARIABLE term       \* the rows of text, and the cursor

EmptyRow == [x \in 1 .. Width |-> Empty]

Init == term = [rows |-> [y \in 1 .. Height |-> EmptyRow], row |-> 1, col |-> 1]

NextLine(t) ==
    IF t.row < Height THEN [t EXCEPT !.row = @ + 1, !.col = 1]
    ELSE [t EXCEPT !.rows = Append(Tail(@), EmptyRow), !.col = 1]

Typed(t, c) ==
    LET placed == [t EXCEPT !.rows[t.row][t.col] = c]
    IN  IF t.col < Width THEN [placed EXCEPT !.col = @ + 1] ELSE NextLine(placed)

Type(c) == term' = Typed(term, c)

Newline == term' = NextLine(term)

Tab == term' = Typed(Typed(Typed(Typed(term, Empty), Empty), Empty), Empty)

\* Before the first column comes the end of the row above.  At the top left
\* corner a backspace goes to the end of the first row: that is what the code
\* does, rather than what one would ask of a terminal.
Backspace ==
    \/ /\ term.col > 1
       /\ term' = [term EXCEPT !.col = @ - 1, !.rows[term.row][term.col - 1] = Empty]
    \/ /\ term.col = 1 /\ term.row > 1
       /\ term' = [term EXCEPT !.col = Width, !.row = @ - 1,
                               !.rows[term.row - 1][Width] = Empty]
    \/ /\ term.col = 1 /\ term.row = 1
       /\ term' = [term EXCEPT !.col = Width, !.rows[1][Width] = Empty]

Return == term' = [term EXCEPT !.col = 1]

SameText(t, u) ==
    /\ t.row = u.row /\ t.col = u.col
    /\ \A y \in 1 .. Height, x \in 1 .. Width :
           <<y, x>> \notin Status => t.rows[y][x] = u.rows[y][x]

Draw == SameText(term, term')

Home == term' = [term EXCEPT !.row = Start, !.col = 1]

Next ==
    \/ Draw
    \/ \E c \in Char : Type(c)
    \/ Newline
    \/ Tab
    \/ Backspace
    \/ Return
    \/ Home

vars == term

=============================================================================
