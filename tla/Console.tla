------------------------------- MODULE Console -------------------------------
(***************************************************************************)
(* Who writes on the console of src/vga.c, and when: main, with interrupts *)
(* disabled; the processes (src/user_prog.c), which may be interrupted     *)
(* between any two accesses to memory; the keyboard handler, which echoes, *)
(* and the timer's drawing callbacks, which may not.                       *)
(*                                                                         *)
(* A process prints a character in the steps of vga_putc as it is compiled *)
(* without optimization: pc says which is next, and reg holds what it has  *)
(* loaded, the arguments and the indexes of its loops.  The scheduler may  *)
(* have any process run next.                                              *)
(***************************************************************************)
EXTENDS Vga, Sequences, Functions

CONSTANTS
    PROC_MAX,       \* entries of the process table
    WELCOME,        \* what main prints
    MESSAGE,        \* what a process prints
    Echoed,         \* characters the keyboard handler echoes
    Line(_),        \* the line of a process table entry, of which each cell
                    \* says whose it is
    TABLE_WIDTH,    \* columns of a line, 53 in the code
    INPUTS          \* bound on the characters typed and the processes created

ASSUME ConsoleAssumption ==
    /\ PROC_MAX \in Nat \ {0}
    /\ WELCOME \in Seq(STRING) /\ MESSAGE \in Seq(STRING)
    /\ Range(MESSAGE) \cap {"backspace", "tab", "return"} = {}
    /\ INPUTS \in Nat
    /\ TABLE_WIDTH \in Nat \ {0}
    /\ TABLE_WIDTH < VGA_WIDTH /\ VGA_WIDTH <= 2 * TABLE_WIDTH
    /\ PROC_MAX + 2 < VGA_HEIGHT   \* the rows of the table, and one of text
    /\ VGA_WIDTH > 3               \* three columns for uptime and spinner

VARIABLES
    vga,            \* the screen and the cursor
    pc,             \* what each process does next, "none" without a process
    todo,           \* what it has still to print
    reg,            \* its registers and local variables
    booted,         \* has main let the first process run?
    welcome,        \* what main has still to print
    inputs,         \* keys and creations so far
    raced           \* auxiliary: has somebody printed while a process was
                    \* within a character?

vars == <<vga, pc, todo, reg, booted, welcome, inputs, raced>>

Entries == 0 .. PROC_MAX - 1

\* The first entry is the idle task's, which prints nothing.
Printers == Entries \ {0}

Live == {e \in Entries : pc[e] # "none"}
Within(e) == pc[e] \notin {"none", "next", "halt"}

Points == {"none", "next", "halt", "load_x", "put", "test", "inc", "inc_store",
           "scroll", "scroll_test", "line", "line_store", "copy", "copy_store",
           "wipe"}

\* The rows the process table is meant for, one for each entry below a header.
\* So many are cleared, below the first; the users' text begins below those.
LINES == PROC_MAX + 1
HEADER == "ENTRY"
USER_ROW == LINES + 1

NoReg == [x |-> 0, y |-> 0, i |-> 0, c |-> Blank]

-----------------------------------------------------------------------------
\* Plausible faults of the definitions below, for the mutation runs.

OneColumnMore(i) == i = VGA_WIDTH

-----------------------------------------------------------------------------
\* main, before the first process runs.

Init ==
    /\ vga = Cleared
    /\ pc = [e \in Entries |-> IF e = 0 THEN "halt" ELSE "none"]
    /\ todo = [e \in Entries |-> <<>>]
    /\ reg = [e \in Entries |-> NoReg]
    /\ booted = FALSE /\ welcome = WELCOME
    /\ inputs = 0 /\ raced = FALSE

\* vga_puts, undisturbed.
welcome_puts ==
    /\ welcome # <<>>
    /\ vga' = vga_putc(vga, Head(welcome))
    /\ welcome' = Tail(welcome)
    /\ UNCHANGED <<pc, todo, reg, booted, inputs, raced>>

\* The end of main, after a key.
main ==
    /\ ~booted /\ welcome = <<>>
    /\ vga' = vga_set_xy(vga, 0, USER_ROW)
    /\ booted' = TRUE
    /\ UNCHANGED <<pc, todo, reg, welcome, inputs, raced>>

-----------------------------------------------------------------------------
\* A process in vga_puts.

\* It reaches point `to', having loaded r.
Goes(e, from, to, r) ==
    /\ pc[e] = from
    /\ pc' = [pc EXCEPT ![e] = to] /\ reg' = [reg EXCEPT ![e] = r]
    /\ UNCHANGED <<todo, booted, welcome, inputs>>

Stays(e, from, to, r) == Goes(e, from, to, r) /\ UNCHANGED <<vga, raced>>

\* It is done with a character.
Ends(e, from) ==
    /\ pc[e] = from
    /\ todo' = [todo EXCEPT ![e] = Tail(@)]
    /\ pc' = [pc EXCEPT ![e] = IF Len(todo[e]) = 1 THEN "halt" ELSE "next"]
    /\ reg' = [reg EXCEPT ![e] = NoReg]
    /\ UNCHANGED <<booted, welcome, inputs, raced>>

Disturbed == raced \/ \E e \in Printers : Within(e)

\* vga_putc is called: the arguments of vga_put are loaded, the last first.
load_y(e) ==
    /\ pc[e] = "next" /\ Head(todo[e]) # "newline"
    /\ Goes(e, "next", "load_x", [reg[e] EXCEPT !.y = vga.pos_y])
    /\ raced' = Disturbed
    /\ UNCHANGED vga

load_x(e) == Stays(e, "load_x", "put", [reg[e] EXCEPT !.x = vga.pos_x])

put(e) ==
    /\ Goes(e, "put", "test", NoReg)
    /\ vga' = vga_put(vga, reg[e].x, reg[e].y, Head(todo[e]))
    /\ UNCHANGED raced

test(e) ==
    Stays(e, "test", IF AtLastColumn(vga.pos_x) THEN "scroll" ELSE "inc", reg[e])

inc(e) == Stays(e, "inc", "inc_store", [reg[e] EXCEPT !.x = vga.pos_x + 1])

inc_store(e) == Ends(e, "inc_store") /\ vga' = [vga EXCEPT !.pos_x = reg[e].x]

\* scroll, called at the end of a row or for a newline.
scroll_return(e) ==
    /\ \/ /\ Goes(e, "scroll", "scroll_test", reg[e])
          /\ UNCHANGED raced
       \/ /\ pc[e] = "next" /\ Head(todo[e]) = "newline"
          /\ Goes(e, "next", "scroll_test", reg[e])
          /\ raced' = Disturbed
    /\ vga' = [vga EXCEPT !.pos_x = 0]

scroll_test(e) ==
    Stays(e, "scroll_test", IF ~AtLastRow(vga.pos_y) THEN "line"
                            ELSE IF LastRow = 0 THEN "wipe" ELSE "copy", reg[e])

line(e) == Stays(e, "line", "line_store", [reg[e] EXCEPT !.y = vga.pos_y + 1])

line_store(e) == Ends(e, "line_store") /\ vga' = [vga EXCEPT !.pos_y = reg[e].y]

\* The loop that moves the text up, one cell at a time.
copy(e) ==
    Stays(e, "copy", "copy_store", [reg[e] EXCEPT !.c = vga.buf[VGA_WIDTH + reg[e].i]])

copy_store(e) ==
    LET i == reg[e].i
    IN  /\ Goes(e, "copy_store", IF i + 1 < LastRow THEN "copy" ELSE "wipe",
                [NoReg EXCEPT !.i = IF i + 1 < LastRow THEN i + 1 ELSE 0])
        /\ vga' = [vga EXCEPT !.buf[i] = reg[e].c]
        /\ UNCHANGED raced

\* The loop that deletes the last row.
LastOfRow(i) == i + 1 = VGA_WIDTH

wipe(e) ==
    LET i == reg[e].i
    IN  /\ \/ /\ Goes(e, "wipe", "wipe", [NoReg EXCEPT !.i = i + 1])
              /\ ~LastOfRow(i)
              /\ UNCHANGED raced
           \/ Ends(e, "wipe") /\ LastOfRow(i)
        /\ vga' = [vga EXCEPT !.buf[LastRow + i] = Blank]

user_test(e) ==
    \/ load_y(e) \/ load_x(e) \/ put(e) \/ test(e) \/ inc(e) \/ inc_store(e)
    \/ scroll_return(e) \/ scroll_test(e) \/ line(e) \/ line_store(e)
    \/ copy(e) \/ copy_store(e) \/ wipe(e)

-----------------------------------------------------------------------------
\* Interrupts.

keyboard_irq_handler(c) ==
    /\ booted /\ inputs < INPUTS
    /\ vga' = vga_putc(vga, c)
    /\ inputs' = inputs + 1
    /\ raced' = Disturbed
    /\ UNCHANGED <<pc, todo, reg, booted, welcome>>

\* ctrl+p and ctrl+x.
create(e) ==
    /\ booted /\ inputs < INPUTS /\ pc[e] = "none"
    /\ pc' = [pc EXCEPT ![e] = IF MESSAGE = <<>> THEN "halt" ELSE "next"]
    /\ todo' = [todo EXCEPT ![e] = MESSAGE]
    /\ inputs' = inputs + 1
    /\ UNCHANGED <<vga, reg, booted, welcome, raced>>

destroy(e) ==
    /\ booted /\ pc[e] # "none"
    /\ pc' = [pc EXCEPT ![e] = "none"]
    /\ todo' = [todo EXCEPT ![e] = <<>>] /\ reg' = [reg EXCEPT ![e] = NoReg]
    /\ UNCHANGED <<vga, booted, welcome, inputs, raced>>

ClearedCells == {Offset(x, y) : x \in 0 .. TABLE_WIDTH - 1, y \in 1 .. LINES}

\* Clears the rows of the table, and draws the header and the lines.  The size
\* given to snprintf leaves no room for the newline that ends each of them, so
\* they run on in the first row, where whatever comes after its last column is
\* drawn in that column.
displayProcs(buf) ==
    LET First == CHOOSE e \in Live : \A f \in Live : e <= f
        Last  == CHOOSE e \in Live : \A f \in Live : f <= e
    IN  [i \in Cells |->
            CASE i < TABLE_WIDTH -> HEADER
              [] TABLE_WIDTH <= i /\ i < VGA_WIDTH - 1 -> Line(First)
              [] i = VGA_WIDTH - 1 -> Line(Last)
              [] i \in ClearedCells -> Blank
              [] OTHER -> buf[i]]

\* In the first row: uptime leaves a column between its last digit and the
\* spinner.
uptime(buf) == [buf EXCEPT ![Offset(VGA_WIDTH - 3, 0)] = "9"]
spinner(buf) == [buf EXCEPT ![Offset(VGA_WIDTH - 1, 0)] = "/"]

\* Every tick, every tenth and every hundredth.
timer_irq_handler ==
    /\ booted
    /\ LET table == displayProcs(vga.buf)
       IN  \E buf \in {table, spinner(table), uptime(spinner(table))} :
               vga' = [vga EXCEPT !.buf = buf]
    /\ UNCHANGED <<pc, todo, reg, booted, welcome, inputs, raced>>

Next ==
    \/ welcome_puts
    \/ main
    \/ \E e \in Printers : user_test(e) \/ create(e) \/ destroy(e)
    \/ \E c \in Echoed : keyboard_irq_handler(c)
    \/ timer_irq_handler

Spec == Init /\ [][Next]_vars

-----------------------------------------------------------------------------
\* Properties

\* The loops of scroll stay in the buffer, and whatever is printed stays on the
\* screen, wherever a race has put the cursor: the cell that vga_clear alone
\* writes stays as it was.
TypeOK ==
    /\ DOMAIN vga.buf = Cells
    /\ vga.buf[VGA_WIDTH * VGA_HEIGHT] = Blank
    /\ vga.pos_x \in Nat /\ vga.pos_y \in Nat
    /\ pc \in [Entries -> Points]
    /\ \A e \in Entries :
          /\ reg[e].x \in Nat /\ reg[e].y \in Nat
          /\ reg[e].i < IF pc[e] \in {"copy", "copy_store"} THEN LastRow
                        ELSE IF pc[e] = "wipe" THEN VGA_WIDTH ELSE 1
          /\ pc[e] \in Points \ {"none", "halt"} <=> todo[e] # <<>>

OnScreen == vga.pos_x \in 0 .. VGA_WIDTH - 1 /\ vga.pos_y \in 0 .. VGA_HEIGHT - 1

\* The cursor stays on the screen at every step of every vga_putc, as long as
\* no two of them overlap.  The timer's callbacks may overlap any of them, and
\* the process be destroyed in any of them and leave it unfinished.
OnScreenUntilRaced == ~raced => OnScreen

\* Doc: text wraps at the end of a line, and is scrolled up at the last one,
\* so the cursor is never beyond either.
CursorOnScreen == OnScreen

\* The buffer when the text has been moved up from cell i on, and i made c.
Cut(buf, i, c) ==
    [j \in Cells |-> IF j < i THEN buf[j] ELSE IF j = i THEN c ELSE Shifted(buf)[j]]

\* What screen s will be when a process at p, with registers r, has printed the
\* character it is in, c.
Finished(s, p, r, c) ==
    CASE p \in {"load_x", "put"} -> Printed(s, c)
      [] p = "test" -> Advanced(s)
      [] p = "inc" -> [s EXCEPT !.pos_x = @ + 1]
      [] p = "inc_store" -> [s EXCEPT !.pos_x = r.x]
      [] p \in {"scroll", "scroll_test"} -> scroll(s)
      [] p = "line" -> [s EXCEPT !.pos_y = @ + 1]
      [] p = "line_store" -> [s EXCEPT !.pos_y = r.y]
      [] p = "copy" -> [s EXCEPT !.buf = Cut(@, r.i, Shifted(@)[r.i])]
      [] p = "copy_store" -> [s EXCEPT !.buf = Cut(@, r.i, r.c)]
      [] p = "wipe" -> [s EXCEPT !.buf = Cut(@, LastRow + r.i, Blank)]

Settled ==
    IF \E e \in Printers : Within(e)
    THEN LET e == CHOOSE f \in Printers : Within(f)
         IN  Finished(vga, pc[e], reg[e], Head(todo[e]))
    ELSE vga

Rows(buf) ==
    [y \in 1 .. VGA_HEIGHT |-> [x \in 1 .. VGA_WIDTH |->
        buf[(y - 1) * VGA_WIDTH + x - 1]]]

Seen(s) == [rows |-> Rows(s.buf), row |-> s.pos_y + 1, col |-> s.pos_x + 1]

T == INSTANCE Terminal WITH
        Width  <- VGA_WIDTH,
        Height <- VGA_HEIGHT,
        Start  <- USER_ROW + 1,
        Empty  <- Blank,
        Char   <- Echoed \cup Range(WELCOME) \cup Range(MESSAGE),
        Status <- ({1} \X (1 .. VGA_WIDTH))
                     \cup ((2 .. LINES + 1) \X (1 .. TABLE_WIDTH)),
        term   <- Seen(Settled)

\* A process is destroyed within a character.
CutShort == \E e \in Printers : Within(e) /\ pc'[e] = "none"

\* As long as no two of them overlap, the calls of vga_putc make a terminal:
\* each character is where a terminal would have it, however often its printing
\* is interrupted, the screen drawn on and the process preempted meanwhile.  A
\* character that is cut short is the exception, but those after it are not.
TerminalUntilRaced ==
    T!Init /\ [][~raced' /\ ~CutShort => UNCHANGED T!vars \/ T!Next]_vars

=============================================================================
