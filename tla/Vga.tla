--------------------------------- MODULE Vga ---------------------------------
(***************************************************************************)
(* src/vga.c: the functions of the console as operators on its state, a    *)
(* record of the buffer, as an array, and the cursor.                      *)
(*                                                                         *)
(* Nothing in the program changes the two colours of the cursor's text, so *)
(* a cell is its character.                                                *)
(***************************************************************************)
EXTENDS Integers

CONSTANTS VGA_WIDTH, VGA_HEIGHT

ASSUME VgaAssumption == VGA_WIDTH \in Nat \ {0} /\ VGA_HEIGHT \in Nat \ {0}

\* The cells of the screen, and one more, which vga_clear clears too.
Cells == 0 .. VGA_WIDTH * VGA_HEIGHT

\* The character 0.
Blank == ""

LastRow == VGA_WIDTH * (VGA_HEIGHT - 1)

-----------------------------------------------------------------------------
\* Plausible faults of the definitions below, for the mutation runs.

OneColumnLess(x) == x + 2 = VGA_WIDTH
KeepsLastRow(buf) == [i \in Cells |-> IF i < LastRow THEN buf[VGA_WIDTH + i] ELSE buf[i]]

-----------------------------------------------------------------------------

Clamp(n, size) == IF n < 0 THEN 0 ELSE IF n >= size THEN size - 1 ELSE n

Offset(x, y) == Clamp(y, VGA_HEIGHT) * VGA_WIDTH + Clamp(x, VGA_WIDTH)

vga_put(s, x, y, c) == [s EXCEPT !.buf[Offset(x, y)] = c]

\* vga_init, which calls vga_clear.
Cleared == [buf |-> [i \in Cells |-> Blank], pos_x |-> 0, pos_y |-> 0]

vga_set_xy(s, x, y) ==
    [s EXCEPT !.pos_x = Clamp(x, VGA_WIDTH), !.pos_y = Clamp(y, VGA_HEIGHT)]

AtLastColumn(x) == x + 1 = VGA_WIDTH
AtLastRow(y) == y + 1 = VGA_HEIGHT

\* The text a row further up, and the last row deleted.
Shifted(buf) ==
    [i \in Cells |-> IF i < LastRow THEN buf[VGA_WIDTH + i]
                     ELSE IF i < LastRow + VGA_WIDTH THEN Blank ELSE buf[i]]

scroll(s) ==
    IF AtLastRow(s.pos_y) THEN [s EXCEPT !.pos_x = 0, !.buf = Shifted(@)]
    ELSE [s EXCEPT !.pos_x = 0, !.pos_y = @ + 1]

Advanced(s) ==
    IF AtLastColumn(s.pos_x) THEN scroll(s) ELSE [s EXCEPT !.pos_x = @ + 1]

Printed(s, c) == Advanced(vga_put(s, s.pos_x, s.pos_y, c))

\* The cursor before a backspace erases.
Back(s) ==
    IF s.pos_x # 0 THEN [s EXCEPT !.pos_x = @ - 1]
    ELSE [s EXCEPT !.pos_x = VGA_WIDTH - 1,
                   !.pos_y = IF @ # 0 THEN @ - 1 ELSE 0]

Erased(s) == vga_put(s, s.pos_x, s.pos_y, Blank)

Spaced(s) == Printed(s, Blank)

vga_putc(s, c) ==
    CASE c = "backspace" -> Erased(Back(s))
      [] c = "newline" -> scroll(s)
      [] c = "tab" -> Spaced(Spaced(Spaced(Spaced(s))))
      [] c = "return" -> [s EXCEPT !.pos_x = 0]
      [] OTHER -> Printed(s, c)

=============================================================================
