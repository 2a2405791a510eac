---------------------------- MODULE ConsoleProofs ----------------------------
(***************************************************************************)
(* The loops of the console stay in its buffer, its cursor on the screen   *)
(* until two calls of vga_putc overlap, and until then it is a terminal,   *)
(* for every size of screen, number of processes, text and choice of keys. *)
(*                                                                         *)
(* OnScreenUntilRaced is not inductive: in the middle of vga_putc a process *)
(* relies on what it has loaded and tested before.  Between says what; it  *)
(* holds as long as the process is the only one there.                     *)
(*                                                                         *)
(* That the console is a terminal follows in three parts: vga_putc called  *)
(* at once is a step of the terminal (SeenPutc); a step within vga_putc    *)
(* leaves the screen that the character will make (StepInside); and what   *)
(* the timer draws reaches no cell of the text, however far the loops of   *)
(* scroll have got (StepDraw).                                             *)
(***************************************************************************)
EXTENDS Console, SequenceTheorems, TLAPS

\* A state of the screen: a buffer, of which the cell behind the screen is
\* blank, and a cursor.
Screen(s) ==
    /\ DOMAIN s = {"buf", "pos_x", "pos_y"}
    /\ DOMAIN s.buf = Cells
    /\ s.buf[VGA_WIDTH * VGA_HEIGHT] = Blank
    /\ s.pos_x \in Nat /\ s.pos_y \in Nat

On(s) == s.pos_x \in 0 .. VGA_WIDTH - 1 /\ s.pos_y \in 0 .. VGA_HEIGHT - 1

\* An operation on the screen keeps both.
Keeps(s, t) == Screen(t) /\ (On(s) => On(t))

-----------------------------------------------------------------------------
\* The operations of the screen

\* The size of the screen in cells, and where its last row begins.
LEMMA Sizes ==
    /\ VGA_WIDTH * VGA_HEIGHT \in Nat /\ LastRow \in Nat
    /\ LastRow + VGA_WIDTH = VGA_WIDTH * VGA_HEIGHT
<1>1. VGA_WIDTH \in Nat /\ VGA_HEIGHT \in Nat /\ VGA_HEIGHT - 1 \in Nat
  BY VgaAssumption
<1>2. \A w, h \in Nat : w * h \in Nat
  OBVIOUS
<1>3. VGA_WIDTH * (VGA_HEIGHT - 1) + VGA_WIDTH = VGA_WIDTH * VGA_HEIGHT
  BY <1>1, SMT
<1> QED  BY <1>1, <1>2, <1>3 DEF LastRow

\* vga_put writes on the screen, whatever the position.
LEMMA OffsetOnScreen ==
    ASSUME NEW x \in Int, NEW y \in Int
    PROVE  Offset(x, y) \in 0 .. VGA_WIDTH * VGA_HEIGHT - 1
<1> DEFINE u == Clamp(x, VGA_WIDTH)
           v == Clamp(y, VGA_HEIGHT)
<1>1. u \in 0 .. VGA_WIDTH - 1 /\ v \in 0 .. VGA_HEIGHT - 1
  BY VgaAssumption DEF Clamp
<1>2. Offset(x, y) = v * VGA_WIDTH + u
  BY DEF Offset
<1> HIDE DEF u, v
<1>3. v * VGA_WIDTH \in Nat
  BY <1>1, VgaAssumption
<1>4. PICK d \in Nat : VGA_HEIGHT - 1 = v + d
  <2>1. VGA_HEIGHT - 1 - v \in Nat /\ VGA_HEIGHT - 1 = v + (VGA_HEIGHT - 1 - v)
    BY <1>1, VgaAssumption
  <2> QED  BY <2>1
<1>5. VGA_WIDTH * (VGA_HEIGHT - 1) = v * VGA_WIDTH + d * VGA_WIDTH
  <2>1. VGA_WIDTH \in Nat /\ v \in Nat
    BY <1>1, VgaAssumption
  <2>2. VGA_WIDTH * (v + d) = v * VGA_WIDTH + d * VGA_WIDTH
    BY <2>1
  <2> QED  BY <1>4, <2>2
<1>6. d * VGA_WIDTH \in Nat
  BY <1>4, VgaAssumption
<1> QED  BY <1>1, <1>2, <1>3, <1>5, <1>6, Sizes, VgaAssumption DEF LastRow

LEMMA PutKeeps ==
    ASSUME NEW s, Screen(s), NEW x \in Int, NEW y \in Int, NEW c
    PROVE  /\ Keeps(s, vga_put(s, x, y, c))
           /\ vga_put(s, x, y, c).pos_x = s.pos_x /\ vga_put(s, x, y, c).pos_y = s.pos_y
<1> DEFINE o == Offset(x, y)
           b == [s.buf EXCEPT ![o] = c]
<1>1. o # VGA_WIDTH * VGA_HEIGHT
  BY OffsetOnScreen, Sizes
<1>2. VGA_WIDTH * VGA_HEIGHT \in Cells
  BY Sizes DEF Cells
<1>3. vga_put(s, x, y, c) = [s EXCEPT !.buf = b]
  BY DEF vga_put
<1> HIDE DEF o
<1>4. DOMAIN b = Cells /\ b[VGA_WIDTH * VGA_HEIGHT] = Blank
  BY <1>1, <1>2 DEF Screen
<1> HIDE DEF b
<1> QED  BY <1>3, <1>4 DEF Screen, Keeps, On

LEMMA ShiftedKeeps ==
    ASSUME NEW b, DOMAIN b = Cells, b[VGA_WIDTH * VGA_HEIGHT] = Blank
    PROVE  /\ DOMAIN Shifted(b) = Cells
           /\ Shifted(b)[VGA_WIDTH * VGA_HEIGHT] = Blank
<1>1. VGA_WIDTH * VGA_HEIGHT \in Cells
  BY Sizes DEF Cells
<1>2. VGA_WIDTH * VGA_HEIGHT >= LastRow + VGA_WIDTH
  BY Sizes, VgaAssumption
<1> QED  BY <1>1, <1>2, Sizes, VgaAssumption DEF Shifted

LEMMA ScrollKeeps ==
    ASSUME NEW s, Screen(s)
    PROVE  Keeps(s, scroll(s))
<1>1. CASE AtLastRow(s.pos_y)
  <2> DEFINE b == Shifted(s.buf)
  <2>1. scroll(s) = [[s EXCEPT !.pos_x = 0] EXCEPT !.buf = b]
    BY <1>1 DEF scroll, Screen
  <2>2. DOMAIN b = Cells /\ b[VGA_WIDTH * VGA_HEIGHT] = Blank
    BY ShiftedKeeps DEF Screen
  <2> HIDE DEF b
  <2> QED  BY <2>1, <2>2, VgaAssumption DEF Screen, Keeps, On
<1>2. CASE ~AtLastRow(s.pos_y)
  <2>1. scroll(s) = [[s EXCEPT !.pos_x = 0] EXCEPT !.pos_y = s.pos_y + 1]
    BY <1>2 DEF scroll, Screen
  <2> QED  BY <1>2, <2>1, VgaAssumption DEF Screen, Keeps, On, AtLastRow
<1> QED  BY <1>1, <1>2

LEMMA PrintedKeeps ==
    ASSUME NEW s, Screen(s), NEW c
    PROVE  Keeps(s, Printed(s, c))
<1> DEFINE t == vga_put(s, s.pos_x, s.pos_y, c)
<1>1. Keeps(s, t)
  BY PutKeeps DEF Screen
<1>2. Printed(s, c) = Advanced(t)
  BY DEF Printed
<1> HIDE DEF t
<1>3. Keeps(t, Advanced(t))
  <2>1. CASE AtLastColumn(t.pos_x)
    BY <1>1, <2>1, ScrollKeeps DEF Advanced, Keeps
  <2>2. CASE ~AtLastColumn(t.pos_x)
    <3>1. Advanced(t) = [t EXCEPT !.pos_x = t.pos_x + 1]
      BY <2>2 DEF Advanced
    <3> QED  BY <1>1, <2>2, <3>1, VgaAssumption DEF Screen, Keeps, On, AtLastColumn
  <2> QED  BY <2>1, <2>2
<1> QED  BY <1>1, <1>2, <1>3 DEF Keeps

LEMMA PutcKeeps ==
    ASSUME NEW s, Screen(s), NEW c
    PROVE  Keeps(s, vga_putc(s, c))
<1>1. CASE c = "backspace"
  <2>1. Keeps(s, Back(s))
    <3>1. CASE s.pos_x # 0
      BY <3>1, VgaAssumption DEF Back, Screen, Keeps, On
    <3>2. CASE s.pos_x = 0
      <4>1. Back(s) = [[s EXCEPT !.pos_x = VGA_WIDTH - 1]
                         EXCEPT !.pos_y = IF s.pos_y # 0 THEN s.pos_y - 1 ELSE 0]
        BY <3>2 DEF Back, Screen
      <4> QED  BY <4>1, VgaAssumption DEF Screen, Keeps, On
    <3> QED  BY <3>1, <3>2
  <2> DEFINE t == Back(s)
  <2> HIDE DEF t
  <2>2. Keeps(s, t)
    BY <2>1 DEF t
  <2>3. Keeps(t, Erased(t))
    BY <2>2, PutKeeps DEF Keeps, Screen, Erased
  <2> QED  BY <1>1, <2>2, <2>3 DEF vga_putc, Keeps, t
<1>2. CASE c = "newline"
  BY <1>2, ScrollKeeps DEF vga_putc
<1>3. CASE c = "tab"
  <2>1. \A r : Screen(r) => Keeps(r, Spaced(r))
    BY PrintedKeeps DEF Spaced
  <2> DEFINE t == Spaced(s)
             u == Spaced(t)
             v == Spaced(u)
  <2>2. vga_putc(s, c) = Spaced(v)
    BY <1>3 DEF vga_putc
  <2>3. Keeps(s, t)
    BY <2>1
  <2> HIDE DEF t
  <2>4. Keeps(t, u)
    BY <2>1, <2>3 DEF Keeps
  <2> HIDE DEF u
  <2>5. Keeps(u, v)
    BY <2>1, <2>4 DEF Keeps
  <2> HIDE DEF v
  <2>6. Keeps(v, Spaced(v))
    BY <2>1, <2>5 DEF Keeps
  <2> QED  BY <2>2, <2>3, <2>4, <2>5, <2>6 DEF Keeps
<1>4. CASE c = "return"
  BY <1>4, VgaAssumption DEF vga_putc, Screen, Keeps, On
<1>5. CASE c \notin {"backspace", "newline", "tab", "return"}
  BY <1>5, PrintedKeeps DEF vga_putc
<1> QED  BY <1>1, <1>2, <1>3, <1>4, <1>5

-----------------------------------------------------------------------------
\* The inductive invariant

Limit(p) ==
    IF p \in {"copy", "copy_store"} THEN LastRow ELSE IF p = "wipe" THEN VGA_WIDTH ELSE 1

\* The registers of a process at p.
Loaded(p, r) ==
    /\ DOMAIN r = {"x", "y", "i", "c"}
    /\ r.x \in Nat /\ r.y \in Nat /\ r.i \in Nat /\ r.i < Limit(p)

Printing == Points \ {"none", "halt"}

Typed ==
    /\ Screen(vga) /\ raced \in BOOLEAN
    /\ pc \in [Entries -> Points]
    /\ todo \in [Entries -> Seq(STRING)]
    /\ DOMAIN reg = Entries
    /\ \A e \in Entries : /\ Loaded(pc[e], reg[e])
                          /\ pc[e] \in Printing <=> todo[e] # <<>>

\* What process e has loaded or tested, and relies on.
Between(e) ==
    /\ pc[e] \in {"load_x", "put"} => reg[e].y = vga.pos_y
    /\ pc[e] = "put" => reg[e].x = vga.pos_x
    /\ pc[e] = "scroll_test" => vga.pos_x = 0
    /\ pc[e] = "inc" => vga.pos_x + 1 < VGA_WIDTH
    /\ pc[e] = "inc_store" => reg[e].x < VGA_WIDTH
    /\ pc[e] = "line" => vga.pos_y + 1 < VGA_HEIGHT
    /\ pc[e] = "line_store" => reg[e].y < VGA_HEIGHT

\* One process at most is within a character, and what it has tested holds.
Alone ==
    /\ On(vga)
    /\ \A e, f \in Printers : Within(e) /\ Within(f) => e = f
    /\ \A e \in Printers : Between(e)

IInv == Typed /\ (~raced => Alone)

\* main is done before the first process is created.
Booting ==
    /\ welcome # <<>> => ~booted
    /\ ~booted => \A e \in Printers : pc[e] = "none"

LEMMA InvImplies == IInv => TypeOK /\ OnScreenUntilRaced
<1> SUFFICES ASSUME IInv PROVE TypeOK /\ OnScreenUntilRaced
  OBVIOUS
<1>1. TypeOK
  BY DEF IInv, Typed, TypeOK, Screen, Loaded, Limit, Printing
<1>2. OnScreenUntilRaced
  BY DEF IInv, Alone, On, OnScreen, OnScreenUntilRaced
<1> QED  BY <1>1, <1>2

LEMMA PointsDistinct ==
    /\ {"next"} \cup {"load_x", "put", "test", "inc", "inc_store", "scroll",
          "scroll_test", "line", "line_store", "copy", "copy_store", "wipe"} = Printing
    /\ \A e : Within(e) <=> pc[e] \notin {"none", "next", "halt"}
BY DEF Points, Printing, Within

LEMMA NoRegLoaded == \A p : p \notin {"copy", "copy_store"} => Loaded(p, NoReg)
BY VgaAssumption DEF Loaded, Limit, NoReg

\* The first process starts on a screen that is cleared.
LEMMA InitInv == Init => IInv
<1> SUFFICES ASSUME Init PROVE IInv
  OBVIOUS
<1>1. Screen(vga) /\ On(vga)
  BY Sizes, VgaAssumption DEF Init, Cleared, Screen, On, Cells
<1>2. Typed
  <2>1. /\ DOMAIN reg = Entries /\ raced \in BOOLEAN
        /\ pc \in [Entries -> Points] /\ todo \in [Entries -> Seq(STRING)]
    <3>1. <<>> \in Seq(STRING)
      BY EmptySeq
    <3> QED  BY <3>1 DEF Init, Points
  <2>2. ASSUME NEW e \in Entries
        PROVE  Loaded(pc[e], reg[e]) /\ (pc[e] \in Printing <=> todo[e] # <<>>)
    <3>1. reg[e] = NoReg /\ todo[e] = <<>> /\ pc[e] \in {"none", "halt"}
      BY DEF Init
    <3> QED  BY <3>1, NoRegLoaded DEF Printing
  <2> QED  BY <1>1, <2>1, <2>2 DEF Typed
<1>3. \A e \in Printers : pc[e] = "none"
  BY DEF Init, Printers
<1> QED  BY <1>1, <1>2, <1>3 DEF IInv, Alone, Between, Within

-----------------------------------------------------------------------------
\* The steps of a process

\* A process that goes on has the registers its next step needs.
LEMMA GoesTyped ==
    ASSUME Typed, NEW e \in Printers, NEW from \in Printing, NEW to \in Printing, NEW r,
           Goes(e, from, to, r), Loaded(to, r), Screen(vga'), raced' \in BOOLEAN
    PROVE  Typed'
<1>1. e \in Entries
  BY DEF Printers
<1>2. pc[e] = from /\ pc' = [pc EXCEPT ![e] = to] /\ reg' = [reg EXCEPT ![e] = r]
      /\ todo' = todo
  BY DEF Goes
<1>3. pc' \in [Entries -> Points] /\ DOMAIN reg' = Entries
  BY <1>1, <1>2 DEF Typed, Printing
<1>4. ASSUME NEW f \in Entries
      PROVE  Loaded(pc'[f], reg'[f]) /\ (pc'[f] \in Printing <=> todo'[f] # <<>>)
  <2>1. CASE f = e
    BY <1>1, <1>2, <2>1 DEF Typed
  <2>2. CASE f # e
    BY <1>1, <1>2, <2>2 DEF Typed
  <2> QED  BY <2>1, <2>2
<1> QED  BY <1>2, <1>3, <1>4 DEF Typed

LEMMA EndsTyped ==
    ASSUME Typed, NEW e \in Printers, NEW from \in Printing, Ends(e, from), Screen(vga')
    PROVE  Typed' /\ raced' = raced /\ ~Within(e)'
<1>1. e \in Entries
  BY DEF Printers
<1>2. /\ pc[e] = from /\ raced' = raced
      /\ pc' = [pc EXCEPT ![e] = IF Len(todo[e]) = 1 THEN "halt" ELSE "next"]
      /\ reg' = [reg EXCEPT ![e] = NoReg]
      /\ todo' = [todo EXCEPT ![e] = Tail(@)]
  BY DEF Ends
<1>3. todo[e] \in Seq(STRING) /\ todo[e] # <<>>
  BY <1>1, <1>2 DEF Typed
<1>4. Tail(todo[e]) \in Seq(STRING) /\ (Tail(todo[e]) = <<>> <=> Len(todo[e]) = 1)
  <2>1. PICK s \in Seq(STRING) : s = todo[e]
    BY <1>3
  <2>2. Tail(s) \in Seq(STRING) /\ Len(Tail(s)) = Len(s) - 1
    BY <1>3, <2>1, HeadTailProperties
  <2>3. Tail(s) = <<>> <=> Len(Tail(s)) = 0
    BY <2>2, EmptySeq
  <2>4. Len(s) \in Nat
    BY <2>1
  <2> QED  BY <2>1, <2>2, <2>3, <2>4
<1>5. /\ pc' \in [Entries -> Points] /\ DOMAIN reg' = Entries
      /\ todo' \in [Entries -> Seq(STRING)]
  BY <1>1, <1>2, <1>4 DEF Typed, Points
<1>6. ASSUME NEW f \in Entries
      PROVE  Loaded(pc'[f], reg'[f]) /\ (pc'[f] \in Printing <=> todo'[f] # <<>>)
  <2>1. CASE f = e
    <3>1. /\ pc'[f] = IF Len(todo[e]) = 1 THEN "halt" ELSE "next"
          /\ reg'[f] = NoReg /\ todo'[f] = Tail(todo[e])
      BY <1>1, <1>2, <2>1 DEF Typed
    <3> QED  BY <1>4, <3>1, NoRegLoaded DEF Printing, Points
  <2>2. CASE f # e
    BY <1>1, <1>2, <2>2 DEF Typed
  <2> QED  BY <2>1, <2>2
<1>7. ~Within(e)'
  BY <1>1, <1>2 DEF Typed, Within
<1> QED  BY <1>2, <1>5, <1>6, <1>7 DEF Typed

\* The only process within a character goes on, or another begins one.
LEMMA StepAlone ==
    ASSUME Typed, Alone, NEW e \in Printers, NEW p \in Points,
           pc' = [pc EXCEPT ![e] = p],
           Within(e) \/ ~\E f \in Printers : Within(f),
           On(vga'), Between(e)'
    PROVE  Alone'
<1>1. e \in Entries /\ Printers \subseteq Entries
  BY DEF Printers
<1>2. \A f \in Printers \ {e} : pc'[f] = pc[f] /\ ~Within(f)
  BY <1>1 DEF Typed, Alone
<1>3. \A f \in Printers \ {e} : ~Within(f)'
  BY <1>2 DEF Within
<1>4. \A f \in Printers \ {e} : Between(f)'
  BY <1>3 DEF Within, Between
<1> QED  BY <1>3, <1>4 DEF Alone


\* One step of a process in vga_puts.
LEMMA ProcessStep ==
    ASSUME IInv, NEW e \in Printers, user_test(e)
    PROVE  IInv'
<1> USE DEF Printing
<1>1. Typed /\ e \in Entries /\ raced \in BOOLEAN /\ Screen(vga) /\ Loaded(pc[e], reg[e])
  BY DEF IInv, Typed, Printers
<1>2. ASSUME NEW p \in Points, pc' = [pc EXCEPT ![e] = p]
      PROVE  pc'[e] = p
  BY <1>1, <1>2 DEF Typed
\* What is left to show of a step that stays within the character.
<1>3. ASSUME NEW from \in Printing, NEW to \in Printing, NEW r,
             Goes(e, from, to, r), Loaded(to, r), Keeps(vga, vga'),
             raced' = raced \/ raced' = Disturbed,
             from = "next" => raced' = Disturbed,
             ~raced => Between(e)'
      PROVE  IInv'
  <2>1. raced' \in BOOLEAN /\ (~raced' => ~raced)
    <3>1. Disturbed \in BOOLEAN /\ (~Disturbed => ~raced)
      BY Zenon DEF Disturbed
    <3> QED  BY <1>1, <1>3, <3>1
  <2>2. Typed'
    BY <1>1, <1>3, <2>1, GoesTyped DEF Keeps
  <2>3. ASSUME ~raced' PROVE Alone'
    <3>1. Alone /\ ~raced
      BY <2>1, <2>3 DEF IInv
    <3>2. Within(e) \/ ~\E f \in Printers : Within(f)
      BY <1>3, <2>3 DEF Goes, Within, Disturbed, Points
    <3>3. On(vga')
      BY <1>3, <3>1 DEF Alone, Keeps
    <3>4. pc' = [pc EXCEPT ![e] = to] /\ to \in Points
      BY <1>3 DEF Goes, Points
    <3>5. Between(e)'
      BY <1>3, <3>1
    <3> QED  BY <1>1, <3>1, <3>2, <3>3, <3>4, <3>5, StepAlone
  <2> QED  BY <2>2, <2>3 DEF IInv
\* And of one that ends it.
<1>4. ASSUME NEW from \in Printing \ {"next"}, Ends(e, from), Screen(vga'),
             Alone => On(vga')
      PROVE  IInv'
  <2>1. Typed' /\ raced' = raced /\ ~Within(e)'
    BY <1>1, <1>4, EndsTyped
  <2>2. ASSUME ~raced' PROVE Alone'
    <3>1. Alone
      BY <2>1, <2>2 DEF IInv
    <3>2. PICK p \in Points : pc' = [pc EXCEPT ![e] = p]
      BY <1>4 DEF Ends, Points
    <3>3. Within(e)
      BY <1>4 DEF Ends, Within, Points
    <3>4. Between(e)'
      BY <2>1 DEF Between, Within
    <3> QED  BY <1>1, <1>4, <3>1, <3>2, <3>3, <3>4, StepAlone
  <2> QED  BY <2>1, <2>2 DEF IInv
<1>5. ~raced => Alone
  BY DEF IInv
<1>6. Keeps(vga, vga)
  BY <1>1 DEF Keeps
<1>7. \A to \in Printing : pc' = [pc EXCEPT ![e] = to] => pc'[e] = to
  BY <1>2 DEF Points
<1>8. {"next", "load_x", "put", "test", "inc", "inc_store", "scroll", "scroll_test",
       "line", "line_store", "copy", "copy_store", "wipe"} \subseteq Printing
  BY DEF Points
<1> HIDE DEF Printing
<1>9. CASE load_y(e)
  <2> DEFINE r == [reg[e] EXCEPT !.y = vga.pos_y]
  <2>1. /\ Goes(e, "next", "load_x", r) /\ raced' = Disturbed /\ vga' = vga
        /\ pc[e] = "next"
    BY <1>9 DEF load_y
  <2>2. Loaded("load_x", r) /\ r.y = vga.pos_y
    BY <1>1, <2>1 DEF Loaded, Limit, Screen
  <2> HIDE DEF r
  <2>3. Between(e)'
    <3>1. reg'[e] = r
      BY <1>1, <2>1 DEF Goes, Typed
    <3> QED  BY <1>7, <1>8, <2>1, <2>2, <3>1 DEF Goes, Between
  <2> QED  BY <1>3, <1>6, <1>8, <2>1, <2>2, <2>3
<1>10. CASE load_x(e)
  <2> DEFINE r == [reg[e] EXCEPT !.x = vga.pos_x]
  <2>1. /\ Goes(e, "load_x", "put", r) /\ raced' = raced /\ vga' = vga
        /\ pc[e] = "load_x"
    BY <1>10 DEF load_x, Stays, Goes
  <2>2. Loaded("put", r) /\ r.x = vga.pos_x /\ r.y = reg[e].y
    BY <1>1, <2>1 DEF Loaded, Limit, Screen
  <2> HIDE DEF r
  <2>3. ASSUME Alone PROVE Between(e)'
    <3>1. reg'[e] = r
      BY <1>1, <2>1 DEF Goes, Typed
    <3> QED  BY <1>7, <1>8, <2>1, <2>2, <2>3, <3>1 DEF Goes, Between, Alone
  <2> QED  BY <1>3, <1>5, <1>6, <1>8, <2>1, <2>2, <2>3
<1>11. CASE put(e)
  <2>1. /\ Goes(e, "put", "test", NoReg) /\ raced' = raced
        /\ vga' = vga_put(vga, reg[e].x, reg[e].y, Head(todo[e]))
    BY <1>11 DEF put
  <2>2. Keeps(vga, vga')
    BY <1>1, <2>1, PutKeeps DEF Loaded
  <2>3. Between(e)'
    BY <1>7, <1>8, <2>1 DEF Goes, Between
  <2> QED  BY <1>3, <1>8, <2>1, <2>2, <2>3, NoRegLoaded
<1>12. CASE test(e)
  <2> DEFINE to == IF AtLastColumn(vga.pos_x) THEN "scroll" ELSE "inc"
  <2>1. Goes(e, "test", to, reg[e]) /\ raced' = raced /\ vga' = vga /\ pc[e] = "test"
    BY <1>12 DEF test, Stays, Goes
  <2>2. to \in Printing /\ Loaded(to, reg[e])
    BY <1>1, <1>8, <2>1 DEF Loaded, Limit
  <2>3. ASSUME Alone PROVE Between(e)'
    <3>1. to = "inc" => vga.pos_x + 1 < VGA_WIDTH
      BY <2>3, VgaAssumption DEF Alone, On, AtLastColumn
    <3> QED  BY <1>7, <2>1, <2>2, <3>1 DEF Goes, Between
  <2> HIDE DEF to
  <2> QED  BY <1>3, <1>5, <1>6, <1>8, <2>1, <2>2, <2>3
<1>13. CASE inc(e)
  <2> DEFINE r == [reg[e] EXCEPT !.x = vga.pos_x + 1]
  <2>1. Goes(e, "inc", "inc_store", r) /\ raced' = raced /\ vga' = vga /\ pc[e] = "inc"
    BY <1>13 DEF inc, Stays, Goes
  <2>2. Loaded("inc_store", r) /\ r.x = vga.pos_x + 1
    BY <1>1, <2>1 DEF Loaded, Limit, Screen
  <2> HIDE DEF r
  <2>3. reg'[e] = r
    BY <1>1, <2>1 DEF Goes, Typed
  <2>4. ASSUME Alone PROVE Between(e)'
    BY <1>7, <1>8, <2>1, <2>2, <2>3, <2>4 DEF Goes, Between, Alone
  <2> QED  BY <1>3, <1>5, <1>6, <1>8, <2>1, <2>2, <2>4
<1>14. CASE inc_store(e)
  <2>1. Ends(e, "inc_store") /\ vga' = [vga EXCEPT !.pos_x = reg[e].x] /\ pc[e] = "inc_store"
    BY <1>14 DEF inc_store, Ends
  <2>2. Screen(vga') /\ vga'.pos_x = reg[e].x /\ vga'.pos_y = vga.pos_y
    BY <1>1, <2>1 DEF Screen, Loaded
  <2>3. ASSUME Alone PROVE On(vga')
    BY <1>1, <2>1, <2>2, <2>3, VgaAssumption DEF Alone, Between, On, Loaded
  <2> QED  BY <1>4, <1>8, <2>1, <2>2, <2>3
<1>15. CASE scroll_return(e)
  <2>1. PICK from \in {"scroll", "next"} :
           /\ Goes(e, from, "scroll_test", reg[e]) /\ pc[e] = from
           /\ raced' = raced \/ raced' = Disturbed
           /\ from = "next" => raced' = Disturbed
    BY <1>15 DEF scroll_return, Goes
  <2>2. vga' = [vga EXCEPT !.pos_x = 0]
    BY <1>15 DEF scroll_return
  <2>3. Keeps(vga, vga')
    BY <1>1, <2>2, VgaAssumption DEF Keeps, Screen, On
  <2>4. Loaded("scroll_test", reg[e])
    BY <1>1, <2>1 DEF Loaded, Limit
  <2>5. Between(e)'
    <3>1. vga'.pos_x = 0
      BY <1>1, <2>2 DEF Screen
    <3> QED  BY <1>7, <1>8, <2>1, <3>1 DEF Goes, Between
  <2> QED  BY <1>3, <1>8, <2>1, <2>3, <2>4, <2>5
<1>16. CASE scroll_test(e)
  <2> DEFINE to == IF ~AtLastRow(vga.pos_y) THEN "line"
                   ELSE IF LastRow = 0 THEN "wipe" ELSE "copy"
  <2>1. Goes(e, "scroll_test", to, reg[e]) /\ raced' = raced /\ vga' = vga
        /\ pc[e] = "scroll_test"
    BY <1>16 DEF scroll_test, Stays, Goes
  <2>2. to \in Printing /\ Loaded(to, reg[e])
    BY <1>1, <1>8, <2>1, Sizes, VgaAssumption DEF Loaded, Limit
  <2>3. ASSUME Alone PROVE Between(e)'
    <3>1. to = "line" => vga.pos_y + 1 < VGA_HEIGHT
      BY <2>3, VgaAssumption DEF Alone, On, AtLastRow
    <3>2. pc'[e] = to /\ to \notin {"inc", "inc_store", "line_store"} /\ vga' = vga
      BY <1>7, <2>1, <2>2 DEF Goes
    <3> QED  BY <3>1, <3>2 DEF Between
  <2> HIDE DEF to
  <2> QED  BY <1>3, <1>5, <1>6, <1>8, <2>1, <2>2, <2>3
<1>17. CASE line(e)
  <2> DEFINE r == [reg[e] EXCEPT !.y = vga.pos_y + 1]
  <2>1. Goes(e, "line", "line_store", r) /\ raced' = raced /\ vga' = vga /\ pc[e] = "line"
    BY <1>17 DEF line, Stays, Goes
  <2>2. Loaded("line_store", r) /\ r.y = vga.pos_y + 1
    BY <1>1, <2>1 DEF Loaded, Limit, Screen
  <2> HIDE DEF r
  <2>3. reg'[e] = r
    BY <1>1, <2>1 DEF Goes, Typed
  <2>4. ASSUME Alone PROVE Between(e)'
    BY <1>7, <1>8, <2>1, <2>2, <2>3, <2>4 DEF Goes, Between, Alone
  <2> QED  BY <1>3, <1>5, <1>6, <1>8, <2>1, <2>2, <2>4
<1>18. CASE line_store(e)
  <2>1. /\ Ends(e, "line_store") /\ vga' = [vga EXCEPT !.pos_y = reg[e].y]
        /\ pc[e] = "line_store"
    BY <1>18 DEF line_store, Ends
  <2>2. Screen(vga') /\ vga'.pos_y = reg[e].y /\ vga'.pos_x = vga.pos_x
    BY <1>1, <2>1 DEF Screen, Loaded
  <2>3. ASSUME Alone PROVE On(vga')
    BY <1>1, <2>1, <2>2, <2>3, VgaAssumption DEF Alone, Between, On, Loaded
  <2> QED  BY <1>4, <1>8, <2>1, <2>2, <2>3
<1>19. CASE copy(e)
  <2> DEFINE r == [reg[e] EXCEPT !.c = vga.buf[VGA_WIDTH + reg[e].i]]
  <2>1. Goes(e, "copy", "copy_store", r) /\ raced' = raced /\ vga' = vga /\ pc[e] = "copy"
    BY <1>19 DEF copy, Stays, Goes
  <2>2. Loaded("copy_store", r)
    BY <1>1, <2>1 DEF Loaded, Limit
  <2> HIDE DEF r
  <2>3. Between(e)'
    BY <1>7, <1>8, <2>1 DEF Goes, Between
  <2> QED  BY <1>3, <1>6, <1>8, <2>1, <2>2, <2>3
\* A cell of the screen is written, not the one behind it.
<1>20. ASSUME NEW i \in Nat, i < VGA_WIDTH * VGA_HEIGHT, NEW c,
              vga' = [vga EXCEPT !.buf[i] = c]
       PROVE  Keeps(vga, vga')
  <2>1. VGA_WIDTH * VGA_HEIGHT \in Cells /\ i # VGA_WIDTH * VGA_HEIGHT
    BY <1>20, Sizes DEF Cells
  <2> DEFINE b == [vga.buf EXCEPT ![i] = c]
  <2>2. DOMAIN b = Cells /\ b[VGA_WIDTH * VGA_HEIGHT] = Blank
    BY <1>1, <2>1 DEF Screen
  <2>3. vga' = [vga EXCEPT !.buf = b]
    BY <1>20
  <2> HIDE DEF b
  <2> QED  BY <1>1, <2>2, <2>3 DEF Keeps, Screen, On
<1>21. CASE copy_store(e)
  <2> DEFINE i == reg[e].i
             to == IF i + 1 < LastRow THEN "copy" ELSE "wipe"
             r == [NoReg EXCEPT !.i = IF i + 1 < LastRow THEN i + 1 ELSE 0]
  <2>1. /\ Goes(e, "copy_store", to, r) /\ raced' = raced
        /\ vga' = [vga EXCEPT !.buf[i] = reg[e].c] /\ pc[e] = "copy_store"
    BY <1>21 DEF copy_store, Goes
  <2>2. i \in Nat /\ i < LastRow
    BY <1>1, <2>1 DEF Loaded, Limit
  <2>3. to \in Printing /\ Loaded(to, r)
    BY <1>8, <2>2, Sizes, VgaAssumption DEF Loaded, Limit, NoReg
  <2>4. i < VGA_WIDTH * VGA_HEIGHT
    BY <2>2, Sizes, VgaAssumption
  <2>5. to \in {"copy", "wipe"}
    OBVIOUS
  <2> HIDE DEF i, to, r
  <2>6. Keeps(vga, vga')
    BY <1>20, <2>1, <2>2, <2>4
  <2>7. Between(e)'
    BY <1>7, <2>1, <2>3, <2>5 DEF Goes, Between
  <2> QED  BY <1>3, <1>8, <2>1, <2>3, <2>6, <2>7
<1>22. CASE wipe(e)
  <2> DEFINE i == reg[e].i
             r == [NoReg EXCEPT !.i = i + 1]
  <2>1. vga' = [vga EXCEPT !.buf[LastRow + i] = Blank] /\ pc[e] = "wipe"
    BY <1>22 DEF wipe, Goes, Ends
  <2>2. i \in Nat /\ i < VGA_WIDTH
    BY <1>1, <2>1 DEF Loaded, Limit
  <2>3. LastRow + i \in Nat /\ LastRow + i < VGA_WIDTH * VGA_HEIGHT
    BY <2>2, Sizes, VgaAssumption
  <2>4. Keeps(vga, vga')
    BY <1>20, <2>1, <2>3
  <2>5. CASE Goes(e, "wipe", "wipe", r) /\ ~LastOfRow(i) /\ raced' = raced
    <3>1. Loaded("wipe", r)
      BY <2>2, <2>5, VgaAssumption DEF Loaded, Limit, NoReg, LastOfRow
    <3> HIDE DEF r, i
    <3>2. Between(e)'
      BY <1>7, <1>8, <2>5 DEF Goes, Between
    <3> QED  BY <1>3, <1>8, <2>4, <2>5, <3>1, <3>2
  <2>6. CASE Ends(e, "wipe")
    <3>1. Alone => On(vga')
      BY <2>4 DEF Keeps, Alone
    <3> QED  BY <1>4, <1>8, <2>4, <2>6, <3>1 DEF Keeps
  <2> QED  BY <1>22, <2>5, <2>6 DEF wipe
<1> QED
  BY <1>9, <1>10, <1>11, <1>12, <1>13, <1>14, <1>15, <1>16, <1>17, <1>18, <1>19, <1>21,
     <1>22 DEF user_test

-----------------------------------------------------------------------------
\* The steps of main and of the interrupts

\* A whole vga_putc, or nothing, when no process is in another's way.
LEMMA OthersStep ==
    ASSUME IInv, Keeps(vga, vga'), UNCHANGED <<pc, todo, reg>>,
           raced' \in BOOLEAN, ~raced' => ~raced,
           ~raced' => (vga'.pos_x = vga.pos_x /\ vga'.pos_y = vga.pos_y)
                      \/ ~\E e \in Printers : Within(e)
    PROVE  IInv'
<1>1. Typed'
  BY DEF IInv, Typed, Keeps
<1>2. ASSUME ~raced' PROVE Alone'
  <2>1. Alone /\ On(vga')
    BY <1>2 DEF IInv, Alone, Keeps
  <2>2. \A e \in Printers : Within(e)' <=> Within(e)
    BY DEF Within
  <2>3. \A e \in Printers : Between(e)'
    BY <1>2, <2>1 DEF Alone, Between, Within
  <2> QED  BY <2>1, <2>2, <2>3 DEF Alone
<1> QED  BY <1>1, <1>2 DEF IInv

\* The timer's callbacks draw, and leave the cursor where it is.
LEMMA DrawKeeps ==
    ASSUME Screen(vga), timer_irq_handler
    PROVE  /\ Keeps(vga, vga') /\ vga'.pos_x = vga.pos_x /\ vga'.pos_y = vga.pos_y
<1> DEFINE Fine(b) == DOMAIN b = Cells /\ b[VGA_WIDTH * VGA_HEIGHT] = Blank
<1>1. ASSUME NEW b, Fine(b), NEW x \in Int, NEW c
      PROVE  Fine([b EXCEPT ![Offset(x, 0)] = c])
  <2>1. VGA_WIDTH * VGA_HEIGHT \in Cells
    BY Sizes DEF Cells
  <2>2. Offset(x, 0) # VGA_WIDTH * VGA_HEIGHT
    <3>1. Offset(x, 0) \in 0 .. VGA_WIDTH * VGA_HEIGHT - 1
      BY OffsetOnScreen
    <3> QED  BY <3>1, Sizes
  <2> QED  BY <1>1, <2>1, <2>2
<1>2. Fine(displayProcs(vga.buf))
  <2>1. VGA_WIDTH * VGA_HEIGHT \in Cells
    BY Sizes DEF Cells
  <2>2. VGA_WIDTH * VGA_HEIGHT \in Int /\ VGA_WIDTH * VGA_HEIGHT >= VGA_WIDTH
    <3>1. VGA_WIDTH - 1 \in Int /\ VGA_WIDTH - 1 \in 0 .. VGA_WIDTH - 1
          /\ 0 \in Int /\ 0 \in 0 .. VGA_HEIGHT - 1 /\ 0 * VGA_WIDTH = 0
      BY VgaAssumption
    <3>2. Offset(VGA_WIDTH - 1, 0) = VGA_WIDTH - 1
      BY <3>1, VgaAssumption DEF Offset, Clamp
    <3>3. Offset(VGA_WIDTH - 1, 0) \in 0 .. VGA_WIDTH * VGA_HEIGHT - 1
      BY <3>1, OffsetOnScreen
    <3> QED  BY <3>2, <3>3, Sizes, VgaAssumption
  <2>3. VGA_WIDTH * VGA_HEIGHT \notin ClearedCells
    <3>1. \A x \in 0 .. TABLE_WIDTH - 1, y \in 1 .. LINES :
              Offset(x, y) # VGA_WIDTH * VGA_HEIGHT
      BY OffsetOnScreen, Sizes
    <3> QED  BY <3>1 DEF ClearedCells
  <2>4. displayProcs(vga.buf)[VGA_WIDTH * VGA_HEIGHT] = vga.buf[VGA_WIDTH * VGA_HEIGHT]
    BY <2>1, <2>2, <2>3, ConsoleAssumption, VgaAssumption DEF displayProcs
  <2>5. DOMAIN displayProcs(vga.buf) = Cells
    BY DEF displayProcs
  <2> QED  BY <2>4, <2>5 DEF Screen
<1> DEFINE table == displayProcs(vga.buf)
<1> HIDE DEF table
<1>3. Fine(spinner(table)) /\ Fine(uptime(spinner(table)))
  <2>1. Fine(table) /\ VGA_WIDTH - 1 \in Int /\ VGA_WIDTH - 3 \in Int
    BY <1>2, VgaAssumption DEF table
  <2> HIDE DEF Fine
  <2>2. Fine(spinner(table))
    BY <1>1, <2>1 DEF spinner
  <2> DEFINE spun == spinner(table)
  <2> HIDE DEF spun
  <2>3. Fine(uptime(spun))
    BY <1>1, <2>1, <2>2 DEF uptime, spun
  <2> QED  BY <2>2, <2>3 DEF spun
<1>4. PICK b : Fine(b) /\ vga' = [vga EXCEPT !.buf = b]
  BY <1>2, <1>3 DEF timer_irq_handler, table
<1> QED  BY <1>4 DEF Screen, Keeps, On

LEMMA BootingInit == Init => Booting
BY DEF Init, Booting, Printers

LEMMA BootingStep == Booting /\ Typed /\ [Next]_vars => Booting'
<1> SUFFICES ASSUME Booting, Typed, [Next]_vars PROVE Booting'
  OBVIOUS
<1>1. CASE \E e \in Printers : user_test(e)
  <2>1. PICK e \in Printers : user_test(e)
    BY <1>1
  <2>2. pc[e] # "none" /\ booted' = booted /\ welcome' = welcome
    BY <2>1 DEF user_test, load_y, load_x, put, test, inc, inc_store, scroll_return,
         scroll_test, line, line_store, copy, copy_store, wipe, Stays, Goes, Ends
  <2> QED  BY <2>2 DEF Booting
<1>2. CASE \E e \in Printers : create(e) \/ destroy(e)
  BY <1>2 DEF create, destroy, Booting
<1>3. CASE welcome_puts
  BY <1>3 DEF welcome_puts, Booting
<1>4. CASE main
  BY <1>4 DEF main, Booting
<1>5. CASE (\E c \in Echoed : keyboard_irq_handler(c)) \/ timer_irq_handler
  BY <1>5 DEF keyboard_irq_handler, timer_irq_handler, Booting
<1>6. CASE UNCHANGED vars
  BY <1>6 DEF vars, Booting
<1> QED  BY <1>1, <1>2, <1>3, <1>4, <1>5, <1>6 DEF Next

\* A process is created: it begins with its registers clear.
LEMMA CreateStep ==
    ASSUME IInv, NEW e \in Printers, create(e)
    PROVE  IInv'
<1>1. e \in Entries /\ MESSAGE \in Seq(STRING)
  BY ConsoleAssumption DEF Printers
<1>2. /\ pc[e] = "none" /\ vga' = vga /\ reg' = reg /\ raced' = raced
      /\ pc' = [pc EXCEPT ![e] = IF MESSAGE = <<>> THEN "halt" ELSE "next"]
      /\ todo' = [todo EXCEPT ![e] = MESSAGE]
  BY DEF create
<1>3. Typed'
  <2>1. pc' \in [Entries -> Points] /\ todo' \in [Entries -> Seq(STRING)]
    BY <1>1, <1>2 DEF IInv, Typed, Points
  <2>2. ASSUME NEW f \in Entries
        PROVE  Loaded(pc'[f], reg'[f]) /\ (pc'[f] \in Printing <=> todo'[f] # <<>>)
    <3>1. CASE f = e
      <4>1. /\ pc'[f] = IF MESSAGE = <<>> THEN "halt" ELSE "next"
            /\ todo'[f] = MESSAGE /\ reg'[f] = reg[e] /\ Loaded("none", reg[e])
        BY <1>1, <1>2, <3>1 DEF IInv, Typed
      <4> QED  BY <4>1 DEF Loaded, Limit, Printing, Points
    <3>2. CASE f # e
      BY <1>1, <1>2, <3>2 DEF IInv, Typed
    <3> QED  BY <3>1, <3>2
  <2> QED  BY <1>2, <2>1, <2>2 DEF IInv, Typed
<1>4. ASSUME ~raced' PROVE Alone'
  <2>1. Alone
    BY <1>2, <1>4 DEF IInv
  <2>2. \A f \in Printers : Within(f)' => f # e /\ Within(f) /\ pc'[f] = pc[f]
    BY <1>1, <1>2 DEF IInv, Typed, Within, Printers
  <2>3. \A f \in Printers : Between(f)'
    BY <1>2, <2>1, <2>2 DEF Alone, Between, Within
  <2> QED  BY <1>2, <2>1, <2>2, <2>3 DEF Alone
<1> QED  BY <1>3, <1>4 DEF IInv

\* A process is destroyed, perhaps within a character: what it had not yet
\* stored is lost, and the cursor is where it has left it.
LEMMA DestroyStep ==
    ASSUME IInv, NEW e \in Printers, destroy(e)
    PROVE  IInv'
<1>1. e \in Entries
  BY DEF Printers
<1>2. /\ pc' = [pc EXCEPT ![e] = "none"] /\ todo' = [todo EXCEPT ![e] = <<>>]
      /\ reg' = [reg EXCEPT ![e] = NoReg] /\ vga' = vga
      /\ raced' = raced
  BY DEF destroy
<1>3. raced' \in BOOLEAN /\ (~raced' => ~raced)
  BY <1>2 DEF IInv, Typed
<1>4. Typed'
  <2>1. pc' \in [Entries -> Points]
    BY <1>1, <1>2 DEF IInv, Typed, Points
  <2>2. todo' \in [Entries -> Seq(STRING)] /\ DOMAIN reg' = Entries
    BY <1>1, <1>2, EmptySeq DEF IInv, Typed
  <2>3. ASSUME NEW f \in Entries
        PROVE  Loaded(pc'[f], reg'[f]) /\ (pc'[f] \in Printing <=> todo'[f] # <<>>)
    <3>1. CASE f = e
      <4>1. pc'[f] = "none" /\ reg'[f] = NoReg /\ todo'[f] = <<>>
        BY <1>1, <1>2, <3>1 DEF IInv, Typed
      <4> QED  BY <4>1, NoRegLoaded DEF Printing
    <3>2. CASE f # e
      BY <1>1, <1>2, <3>2 DEF IInv, Typed
    <3> QED  BY <3>1, <3>2
  <2> QED  BY <1>2, <1>3, <2>1, <2>2, <2>3 DEF IInv, Typed
<1>5. ASSUME ~raced' PROVE Alone'
  <2>1. Alone
    BY <1>3, <1>5 DEF IInv
  <2>2. \A f \in Printers : Within(f)' => f # e /\ Within(f) /\ pc'[f] = pc[f]
    BY <1>1, <1>2 DEF IInv, Typed, Within, Printers
  <2>3. \A f \in Printers : f # e => reg'[f] = reg[f]
    BY <1>1, <1>2 DEF IInv, Typed, Printers
  <2>4. \A f \in Printers : Between(f)'
    BY <1>2, <2>1, <2>2, <2>3 DEF Alone, Between, Within
  <2> QED  BY <1>2, <2>1, <2>2, <2>4 DEF Alone
<1> QED  BY <1>4, <1>5 DEF IInv

LEMMA StepInv == IInv /\ Booting /\ [Next]_vars => IInv'
<1> SUFFICES ASSUME IInv, Booting, [Next]_vars PROVE IInv'
  OBVIOUS
<1>1. Typed /\ Screen(vga) /\ raced \in BOOLEAN
  BY DEF IInv, Typed
<1>2. /\ Disturbed \in BOOLEAN
      /\ ~Disturbed => ~raced /\ ~\E e \in Printers : Within(e)
  BY Zenon DEF Disturbed
<1>3. CASE welcome_puts
  <2>1. Keeps(vga, vga') /\ UNCHANGED <<pc, todo, reg, raced>>
    BY <1>1, <1>3, PutcKeeps DEF welcome_puts
  <2>2. \A e \in Printers : ~Within(e)
    BY <1>3 DEF welcome_puts, Booting, Within
  <2> QED  BY <1>1, <2>1, <2>2, OthersStep
<1>4. CASE main
  <2>1. USER_ROW \in Int
    BY ConsoleAssumption DEF USER_ROW, LINES
  <2>2. vga' = [[vga EXCEPT !.pos_x = Clamp(0, VGA_WIDTH)]
                    EXCEPT !.pos_y = Clamp(USER_ROW, VGA_HEIGHT)]
    BY <1>1, <1>4 DEF main, vga_set_xy, Screen
  <2>3. Clamp(0, VGA_WIDTH) \in 0 .. VGA_WIDTH - 1
        /\ Clamp(USER_ROW, VGA_HEIGHT) \in 0 .. VGA_HEIGHT - 1
    BY <2>1, VgaAssumption DEF Clamp
  <2> DEFINE x == Clamp(0, VGA_WIDTH)
             y == Clamp(USER_ROW, VGA_HEIGHT)
  <2>4. x \in 0 .. VGA_WIDTH - 1 /\ y \in 0 .. VGA_HEIGHT - 1
        /\ vga' = [[vga EXCEPT !.pos_x = x] EXCEPT !.pos_y = y]
    BY <2>2, <2>3
  <2> HIDE DEF x, y
  <2>5. Keeps(vga, vga')
    BY <1>1, <2>4, VgaAssumption DEF Keeps, Screen, On
  <2>6. Keeps(vga, vga') /\ UNCHANGED <<pc, todo, reg, raced>>
    BY <1>4, <2>5 DEF main
  <2>7. \A e \in Printers : ~Within(e)
    BY <1>4 DEF main, Booting, Within
  <2> QED  BY <1>1, <2>6, <2>7, OthersStep
<1>5. ASSUME NEW e \in Printers, user_test(e) PROVE IInv'
  BY <1>5, ProcessStep
<1>6. ASSUME NEW e \in Printers, create(e) PROVE IInv'
  BY <1>6, CreateStep
<1>7. ASSUME NEW e \in Printers, destroy(e) PROVE IInv'
  BY <1>7, DestroyStep
<1>8. ASSUME NEW c \in Echoed, keyboard_irq_handler(c) PROVE IInv'
  <2>1. Keeps(vga, vga') /\ UNCHANGED <<pc, todo, reg>> /\ raced' = Disturbed
    BY <1>1, <1>8, PutcKeeps DEF keyboard_irq_handler
  <2> QED  BY <1>2, <2>1, OthersStep
<1>9. CASE timer_irq_handler
  <2>1. UNCHANGED <<pc, todo, reg, raced>>
    BY <1>9 DEF timer_irq_handler
  <2> QED  BY <1>1, <1>9, <2>1, DrawKeeps, OthersStep
<1>10. CASE UNCHANGED vars
  BY <1>10 DEF vars, IInv, Typed, Alone, Between, Within
<1> QED
  BY <1>3, <1>4, <1>5, <1>6, <1>7, <1>8, <1>9, <1>10 DEF Next

-----------------------------------------------------------------------------
\* The screen as rows of text

\* Two cells of different rows or columns are different cells of the buffer.
LEMMA CellsDiffer ==
    ASSUME NEW x \in 0 .. VGA_WIDTH - 1, NEW u \in 0 .. VGA_WIDTH - 1,
           NEW y \in Nat, NEW v \in Nat,
           y * VGA_WIDTH + x = v * VGA_WIDTH + u
    PROVE  y = v /\ x = u
<1>1. ASSUME NEW a \in 0 .. VGA_WIDTH - 1, NEW b \in 0 .. VGA_WIDTH - 1,
             NEW m \in Nat, NEW d \in Nat \ {0}
      PROVE  m * VGA_WIDTH + a # (m + d) * VGA_WIDTH + b
  <2>1. PICK k \in Nat : d = k + 1
    <3>1. d - 1 \in Nat /\ d = (d - 1) + 1
      OBVIOUS
    <3> QED  BY <3>1
  <2>2. (m + d) * VGA_WIDTH = m * VGA_WIDTH + (k * VGA_WIDTH + VGA_WIDTH)
    BY <2>1, VgaAssumption
  <2>3. k * VGA_WIDTH \in Nat /\ m * VGA_WIDTH \in Nat
    BY VgaAssumption
  <2> QED  BY <2>2, <2>3, VgaAssumption
<1>2. ~(y < v)
  <2> SUFFICES ASSUME y < v PROVE FALSE
    OBVIOUS
  <2>1. v - y \in Nat \ {0} /\ v = y + (v - y)
    OBVIOUS
  <2> QED  BY <1>1, <2>1
<1>3. ~(v < y)
  <2> SUFFICES ASSUME v < y PROVE FALSE
    OBVIOUS
  <2>1. y - v \in Nat \ {0} /\ y = v + (y - v)
    OBVIOUS
  <2> QED  BY <1>1, <2>1
<1>4. y = v
  BY <1>2, <1>3
<1>5. y * VGA_WIDTH \in Nat
  BY VgaAssumption
<1> QED  BY <1>4, <1>5, VgaAssumption

\* A position on the screen is a cell of its own.
LEMMA CellOf ==
    ASSUME NEW x \in 0 .. VGA_WIDTH - 1, NEW y \in 0 .. VGA_HEIGHT - 1
    PROVE  /\ Offset(x, y) = y * VGA_WIDTH + x
           /\ Offset(x, y) \in Cells
           /\ Offset(x, y) < LastRow + VGA_WIDTH
           /\ y < VGA_HEIGHT - 1 => Offset(x, y) < LastRow
                                    /\ Offset(x, y + 1) = VGA_WIDTH + Offset(x, y)
           /\ y = VGA_HEIGHT - 1 => Offset(x, y) = LastRow + x
<1>1. \A n \in 0 .. VGA_HEIGHT - 1 : Clamp(n, VGA_HEIGHT) = n
  BY VgaAssumption DEF Clamp
<1>2. Clamp(x, VGA_WIDTH) = x
  BY VgaAssumption DEF Clamp
<1>3. \A n \in 0 .. VGA_HEIGHT - 1 : Offset(x, n) = n * VGA_WIDTH + x
  BY <1>1, <1>2 DEF Offset
<1>4. Offset(x, y) \in 0 .. VGA_WIDTH * VGA_HEIGHT - 1
  BY OffsetOnScreen
<1>5. Offset(x, y) \in Cells /\ Offset(x, y) < LastRow + VGA_WIDTH
  BY <1>4, Sizes DEF Cells
<1>6. y = VGA_HEIGHT - 1 => Offset(x, y) = LastRow + x
  <2>1. VGA_WIDTH * (VGA_HEIGHT - 1) = (VGA_HEIGHT - 1) * VGA_WIDTH
    BY VgaAssumption
  <2> QED  BY <1>3, <2>1 DEF LastRow
<1>7. ASSUME y < VGA_HEIGHT - 1
      PROVE  Offset(x, y + 1) = VGA_WIDTH + Offset(x, y) /\ Offset(x, y) < LastRow
  <2>1. y + 1 \in 0 .. VGA_HEIGHT - 1
    BY <1>7, VgaAssumption
  <2>2. (y + 1) * VGA_WIDTH = y * VGA_WIDTH + VGA_WIDTH /\ y * VGA_WIDTH \in Nat
    BY VgaAssumption
  <2>3. Offset(x, y + 1) \in 0 .. VGA_WIDTH * VGA_HEIGHT - 1
    BY <2>1, OffsetOnScreen
  <2>4. Offset(x, y + 1) = (y + 1) * VGA_WIDTH + x /\ Offset(x, y) = y * VGA_WIDTH + x
    BY <1>3, <2>1
  <2>5. Offset(x, y + 1) = VGA_WIDTH + Offset(x, y)
    BY <2>2, <2>4, VgaAssumption
  <2> QED  BY <2>3, <2>5, <1>4, Sizes, VgaAssumption
<1> QED  BY <1>3, <1>5, <1>6, <1>7

\* Different positions on the screen are different cells.
LEMMA OffsetsDiffer ==
    ASSUME NEW x \in 0 .. VGA_WIDTH - 1, NEW u \in 0 .. VGA_WIDTH - 1,
           NEW y \in 0 .. VGA_HEIGHT - 1, NEW v \in 0 .. VGA_HEIGHT - 1,
           Offset(x, y) = Offset(u, v)
    PROVE  x = u /\ y = v
<1>1. y * VGA_WIDTH + x = v * VGA_WIDTH + u /\ y \in Nat /\ v \in Nat
  BY CellOf, VgaAssumption
<1> QED  BY <1>1, CellsDiffer

\* What is in a cell of the text.
LEMMA RowsAt ==
    ASSUME NEW b
    PROVE  /\ Rows(b) = [y \in 1 .. VGA_HEIGHT |-> [x \in 1 .. VGA_WIDTH |->
                           b[Offset(x - 1, y - 1)]]]
           /\ \A y \in 0 .. VGA_HEIGHT - 1, x \in 0 .. VGA_WIDTH - 1 :
                 Rows(b)[y + 1][x + 1] = b[Offset(x, y)]
<1>1. ASSUME NEW y \in 1 .. VGA_HEIGHT, NEW x \in 1 .. VGA_WIDTH
      PROVE  (y - 1) * VGA_WIDTH + x - 1 = Offset(x - 1, y - 1)
  <2>1. y - 1 \in 0 .. VGA_HEIGHT - 1 /\ x - 1 \in 0 .. VGA_WIDTH - 1
    BY VgaAssumption
  <2>2. Offset(x - 1, y - 1) = (y - 1) * VGA_WIDTH + (x - 1)
    BY <2>1, CellOf
  <2>3. (y - 1) * VGA_WIDTH \in Nat
    BY <2>1, VgaAssumption
  <2> QED  BY <2>2, <2>3
<1>2. Rows(b) = [y \in 1 .. VGA_HEIGHT |-> [x \in 1 .. VGA_WIDTH |->
                   b[Offset(x - 1, y - 1)]]]
  BY <1>1, Zenon DEF Rows
<1>3. ASSUME NEW y \in 0 .. VGA_HEIGHT - 1, NEW x \in 0 .. VGA_WIDTH - 1
      PROVE  Rows(b)[y + 1][x + 1] = b[Offset(x, y)]
  <2>1. y + 1 \in 1 .. VGA_HEIGHT /\ x + 1 \in 1 .. VGA_WIDTH
        /\ (y + 1) - 1 = y /\ (x + 1) - 1 = x
    BY VgaAssumption
  <2> QED  BY <1>2, <2>1
<1> QED  BY <1>2, <1>3

\* A cell of a buffer written, and one of the rows.
Put(b, o, c) == [b EXCEPT ![o] = c]
Placed(rows, y, x, c) == [rows EXCEPT ![y][x] = c]

\* Writing a cell of the buffer writes it in its row.
LEMMA RowsPut ==
    ASSUME NEW b, DOMAIN b = Cells, NEW c,
           NEW x \in 0 .. VGA_WIDTH - 1, NEW y \in 0 .. VGA_HEIGHT - 1
    PROVE  Rows(Put(b, Offset(x, y), c)) = Placed(Rows(b), y + 1, x + 1, c)
<1> DEFINE o == Offset(x, y)
           d == [b EXCEPT ![o] = c]
<1>1. o \in Cells
  BY CellOf
<1>2. \A i \in Cells : d[i] = IF i = o THEN c ELSE b[i]
  BY <1>1
<1>3. ASSUME NEW v \in 1 .. VGA_HEIGHT, NEW u \in 1 .. VGA_WIDTH
      PROVE  d[Offset(u - 1, v - 1)] =
                IF v = y + 1 /\ u = x + 1 THEN c ELSE b[Offset(u - 1, v - 1)]
  <2>1. u - 1 \in 0 .. VGA_WIDTH - 1 /\ v - 1 \in 0 .. VGA_HEIGHT - 1
    BY VgaAssumption
  <2>2. Offset(u - 1, v - 1) \in Cells
    BY <2>1, CellOf
  <2>3. Offset(u - 1, v - 1) = o <=> v = y + 1 /\ u = x + 1
    <3>1. Offset(u - 1, v - 1) = o => v - 1 = y /\ u - 1 = x
      BY <2>1, OffsetsDiffer
    <3>2. v - 1 = y <=> v = y + 1
      BY VgaAssumption
    <3>3. u - 1 = x <=> u = x + 1
      BY VgaAssumption
    <3> QED  BY <3>1, <3>2, <3>3
  <2> QED  BY <1>2, <2>2, <2>3
<1> HIDE DEF d, o
<1>4. Rows(d) = [v \in 1 .. VGA_HEIGHT |-> [u \in 1 .. VGA_WIDTH |->
                   d[Offset(u - 1, v - 1)]]]
  BY RowsAt
<1>5. Rows(b) = [v \in 1 .. VGA_HEIGHT |-> [u \in 1 .. VGA_WIDTH |->
                   b[Offset(u - 1, v - 1)]]]
  BY RowsAt
<1>6. y + 1 \in 1 .. VGA_HEIGHT /\ x + 1 \in 1 .. VGA_WIDTH
  BY VgaAssumption
<1> DEFINE L == [Rows(b)[y + 1] EXCEPT ![x + 1] = c]
<1>7. Rows(d)[y + 1] = L
  <2>1. Rows(d)[y + 1] = [u \in 1 .. VGA_WIDTH |-> d[Offset(u - 1, (y + 1) - 1)]]
    BY <1>4, <1>6
  <2>2. Rows(b)[y + 1] = [u \in 1 .. VGA_WIDTH |-> b[Offset(u - 1, (y + 1) - 1)]]
    BY <1>5, <1>6
  <2> QED  BY <1>3, <1>6, <2>1, <2>2
<1>8. ASSUME NEW v \in 1 .. VGA_HEIGHT, v # y + 1 PROVE Rows(d)[v] = Rows(b)[v]
  <2>1. Rows(d)[v] = [u \in 1 .. VGA_WIDTH |-> d[Offset(u - 1, v - 1)]]
    BY <1>4
  <2>2. Rows(b)[v] = [u \in 1 .. VGA_WIDTH |-> b[Offset(u - 1, v - 1)]]
    BY <1>5
  <2> QED  BY <1>3, <1>8, <2>1, <2>2
<1>9. DOMAIN Rows(d) = 1 .. VGA_HEIGHT /\ DOMAIN Rows(b) = 1 .. VGA_HEIGHT
      /\ Rows(d) = [v \in 1 .. VGA_HEIGHT |-> Rows(d)[v]]
  BY DEF Rows
<1>10. [Rows(b) EXCEPT ![y + 1][x + 1] = c] = [Rows(b) EXCEPT ![y + 1] = L]
  OBVIOUS
<1> HIDE DEF L
<1>11. Rows(d) = [Rows(b) EXCEPT ![y + 1] = L]
  BY <1>6, <1>7, <1>8, <1>9
<1> QED  BY <1>10, <1>11 DEF d, o, Put, Placed

\* Moving the buffer up deletes the first row and appends an empty one.
LEMMA RowsShifted ==
    ASSUME NEW b, DOMAIN b = Cells
    PROVE  Rows(Shifted(b)) = Append(Tail(Rows(b)), T!EmptyRow)
<1> DEFINE R == [u \in 1 .. VGA_WIDTH |-> Blank]
           d == Shifted(b)
<1>1. T!EmptyRow = R
  BY DEF T!EmptyRow
<1>2. \A i \in Cells : d[i] = IF i < LastRow THEN b[VGA_WIDTH + i]
                     ELSE IF i < LastRow + VGA_WIDTH THEN Blank ELSE b[i]
  BY DEF Shifted
<1> HIDE DEF d
<1>3. ASSUME NEW v \in 1 .. VGA_HEIGHT, NEW u \in 1 .. VGA_WIDTH
      PROVE  d[Offset(u - 1, v - 1)] =
                IF v = VGA_HEIGHT THEN Blank ELSE b[Offset(u - 1, v)]
  <2>1. /\ u - 1 \in 0 .. VGA_WIDTH - 1 /\ v - 1 \in 0 .. VGA_HEIGHT - 1
        /\ (v - 1) + 1 = v
    BY VgaAssumption
  <2>2. Offset(u - 1, v - 1) \in Cells /\ Offset(u - 1, v - 1) < LastRow + VGA_WIDTH
    BY <2>1, CellOf
  <2>3. CASE v = VGA_HEIGHT
    <3>1. Offset(u - 1, v - 1) = LastRow + (u - 1)
      BY <2>1, <2>3, CellOf
    <3>2. ~(Offset(u - 1, v - 1) < LastRow)
      BY <2>1, <3>1, Sizes
    <3> QED  BY <1>2, <2>2, <2>3, <3>2
  <2>4. CASE v # VGA_HEIGHT
    <3>1. v - 1 < VGA_HEIGHT - 1
      BY <2>4, VgaAssumption
    <3>2. Offset(u - 1, v - 1) < LastRow
          /\ Offset(u - 1, v) = VGA_WIDTH + Offset(u - 1, v - 1)
      BY <2>1, <3>1, CellOf
    <3> QED  BY <1>2, <2>2, <2>4, <3>2
  <2> QED  BY <2>3, <2>4
<1> DEFINE S == Rows(b)
           Q == Append(Tail(S), R)
<1>4. S = [v \in 1 .. VGA_HEIGHT |-> [u \in 1 .. VGA_WIDTH |-> b[Offset(u - 1, v - 1)]]]
  BY RowsAt
<1>5. Rows(d) = [v \in 1 .. VGA_HEIGHT |-> [u \in 1 .. VGA_WIDTH |->
                   d[Offset(u - 1, v - 1)]]]
  BY RowsAt
<1>6. VGA_HEIGHT \in Nat \ {0}
  BY VgaAssumption
<1> HIDE DEF R, S
<1>7. /\ DOMAIN Q = 1 .. VGA_HEIGHT /\ Q = [v \in 1 .. VGA_HEIGHT |-> Q[v]]
      /\ \A v \in 1 .. VGA_HEIGHT : Q[v] = IF v = VGA_HEIGHT THEN R ELSE S[v + 1]
  <2> DEFINE RowSet == {S[v] : v \in 1 .. VGA_HEIGHT} \cup {R}
  <2>1. S \in Seq(RowSet) /\ Len(S) = VGA_HEIGHT /\ R \in RowSet
    <3>1. S \in [1 .. VGA_HEIGHT -> RowSet]
      BY <1>4
    <3>2. R \in RowSet
      OBVIOUS
    <3> HIDE DEF RowSet
    <3>3. S \in Seq(RowSet)
      <4>1. Seq(RowSet) = UNION {[1 .. n -> RowSet] : n \in Nat}
        BY SeqDef
      <4> QED  BY <1>6, <3>1, <4>1, Zenon
    <3>4. Len(S) \in Nat /\ 1 .. Len(S) = 1 .. VGA_HEIGHT
      BY <3>1, <3>3, LenProperties
    <3> QED  BY <1>6, <3>2, <3>3, <3>4
  <2> HIDE DEF RowSet
  <2>2. S # <<>>
    BY <1>6, <2>1
  <2>3. /\ Tail(S) \in Seq(RowSet) /\ Len(Tail(S)) = VGA_HEIGHT - 1
        /\ \A v \in 1 .. VGA_HEIGHT - 1 : Tail(S)[v] = S[v + 1]
    BY <2>1, <2>2, HeadTailProperties
  <2> DEFINE U == Tail(S)
  <2> HIDE DEF U
  <2>4. /\ Append(U, R) \in Seq(RowSet) /\ Len(Append(U, R)) = VGA_HEIGHT
        /\ \A v \in 1 .. VGA_HEIGHT - 1 : Append(U, R)[v] = U[v]
        /\ Append(U, R)[VGA_HEIGHT] = R
    BY <1>6, <2>1, <2>3, AppendProperties DEF U
  <2>5. Append(U, R) \in [1 .. VGA_HEIGHT -> RowSet]
    BY <2>4, LenProperties
  <2>6. ASSUME NEW v \in 1 .. VGA_HEIGHT
        PROVE  Append(U, R)[v] = IF v = VGA_HEIGHT THEN R ELSE S[v + 1]
    BY <1>6, <2>3, <2>4 DEF U
  <2> QED  BY <2>5, <2>6 DEF U
<1>8. ASSUME NEW v \in 1 .. VGA_HEIGHT
      PROVE  Rows(d)[v] = Q[v]
  <2>1. Rows(d)[v] = [u \in 1 .. VGA_WIDTH |-> d[Offset(u - 1, v - 1)]]
    BY <1>5
  <2>2. CASE v = VGA_HEIGHT
    BY <1>3, <1>7, <2>1, <2>2 DEF R
  <2>3. CASE v # VGA_HEIGHT
    <3>1. v + 1 \in 1 .. VGA_HEIGHT /\ (v + 1) - 1 = v
      BY <1>6, <2>3
    <3>2. S[v + 1] = [u \in 1 .. VGA_WIDTH |-> b[Offset(u - 1, v)]]
      BY <1>4, <3>1
    <3> QED  BY <1>3, <1>7, <2>1, <2>3, <3>2
  <2> QED  BY <2>2, <2>3
<1> HIDE DEF Q
<1>9. Rows(d) = Q
  BY <1>5, <1>7, <1>8
<1> QED  BY <1>1, <1>9 DEF d, Q, S

-----------------------------------------------------------------------------
\* The operations of the screen are a terminal's

\* A character placed on the terminal.
PlacedOn(t, y, x, c) == [t EXCEPT !.rows = Placed(@, y, x, c)]

\* vga_put places a character where it writes it.
LEMMA SeenPut ==
    ASSUME NEW s, Screen(s), NEW c,
           NEW x \in 0 .. VGA_WIDTH - 1, NEW y \in 0 .. VGA_HEIGHT - 1
    PROVE  Seen(vga_put(s, x, y, c)) = PlacedOn(Seen(s), y + 1, x + 1, c)
<1> DEFINE z == vga_put(s, x, y, c)
           d == Put(s.buf, Offset(x, y), c)
<1>1. Rows(d) = Placed(Rows(s.buf), y + 1, x + 1, c)
  BY RowsPut DEF Screen
<1>2. z.buf = d /\ z.pos_x = s.pos_x /\ z.pos_y = s.pos_y
  BY DEF vga_put, Put, Screen
<1> HIDE DEF z, d
<1>3. Seen(z) = [rows |-> Placed(Rows(s.buf), y + 1, x + 1, c),
                 row |-> s.pos_y + 1, col |-> s.pos_x + 1]
  BY <1>1, <1>2 DEF Seen
<1>4. PlacedOn(Seen(s), y + 1, x + 1, c)
        = [rows |-> Placed(Rows(s.buf), y + 1, x + 1, c),
           row |-> s.pos_y + 1, col |-> s.pos_x + 1]
  BY DEF Seen, PlacedOn
<1> QED  BY <1>3, <1>4 DEF z

\* scroll moves the cursor, or the text, to the next line.
LEMMA SeenScroll ==
    ASSUME NEW s, Screen(s), On(s)
    PROVE  Seen(scroll(s)) = T!NextLine(Seen(s))
<1> DEFINE d == Shifted(s.buf)
           Q == Append(Tail(Rows(s.buf)), T!EmptyRow)
<1>1. Rows(d) = Q
  BY RowsShifted DEF Screen
<1>2. T!NextLine(Seen(s)) =
        IF Seen(s).row < VGA_HEIGHT THEN [Seen(s) EXCEPT !.row = @ + 1, !.col = 1]
        ELSE [Seen(s) EXCEPT !.rows = Append(Tail(@), T!EmptyRow), !.col = 1]
  BY DEF T!NextLine
<1>3. Seen(s).row < VGA_HEIGHT <=> ~AtLastRow(s.pos_y)
  BY VgaAssumption DEF Seen, On, AtLastRow
<1>4. CASE AtLastRow(s.pos_y)
  <2>1. scroll(s) = [s EXCEPT !.pos_x = 0, !.buf = d]
    BY <1>4 DEF scroll, Screen
  <2>2. T!NextLine(Seen(s)) = [Seen(s) EXCEPT !.rows = Q, !.col = 1]
    BY <1>2, <1>3, <1>4 DEF Seen
  <2> HIDE DEF d, Q
  <2> DEFINE z == scroll(s)
  <2>3. z.buf = d /\ z.pos_x = 0 /\ z.pos_y = s.pos_y
    BY <2>1 DEF Screen
  <2> HIDE DEF z
  <2>4. Seen(z) = [rows |-> Q, row |-> s.pos_y + 1, col |-> 1]
    BY <1>1, <2>3 DEF Seen
  <2>5. T!NextLine(Seen(s)) = [rows |-> Q, row |-> s.pos_y + 1, col |-> 1]
    BY <2>2 DEF Seen
  <2> QED  BY <2>4, <2>5 DEF z
<1>5. CASE ~AtLastRow(s.pos_y)
  <2>1. scroll(s) = [s EXCEPT !.pos_x = 0, !.pos_y = s.pos_y + 1]
    BY <1>5 DEF scroll, Screen
  <2>2. T!NextLine(Seen(s)) = [Seen(s) EXCEPT !.row = s.pos_y + 1 + 1, !.col = 1]
    BY <1>2, <1>3, <1>5 DEF Seen
  <2> DEFINE z == scroll(s)
  <2>3. z.buf = s.buf /\ z.pos_x = 0 /\ z.pos_y = s.pos_y + 1
    BY <2>1 DEF Screen
  <2> HIDE DEF z
  <2>4. Seen(z) = [rows |-> Rows(s.buf), row |-> s.pos_y + 1 + 1, col |-> 1]
    BY <2>3 DEF Seen
  <2>5. T!NextLine(Seen(s)) = [rows |-> Rows(s.buf), row |-> s.pos_y + 1 + 1, col |-> 1]
    BY <2>2 DEF Seen
  <2> QED  BY <2>4, <2>5 DEF z
<1> QED  BY <1>4, <1>5

\* A character is placed at the cursor, which moves on.
LEMMA SeenPrinted ==
    ASSUME NEW s, Screen(s), On(s), NEW c
    PROVE  Seen(Printed(s, c)) = T!Typed(Seen(s), c)
<1> DEFINE t == vga_put(s, s.pos_x, s.pos_y, c)
           placed == PlacedOn(Seen(s), s.pos_y + 1, s.pos_x + 1, c)
<1>1. Seen(t) = placed
  BY SeenPut DEF On
<1>2. Screen(t) /\ On(t) /\ t.pos_x = s.pos_x /\ t.pos_y = s.pos_y
  BY PutKeeps DEF Keeps, Screen
<1>3. Seen(s).row = s.pos_y + 1 /\ Seen(s).col = s.pos_x + 1
  BY DEF Seen
<1>4. T!Typed(Seen(s), c) =
        IF Seen(s).col < VGA_WIDTH THEN [placed EXCEPT !.col = @ + 1]
        ELSE T!NextLine(placed)
  BY <1>3 DEF T!Typed, PlacedOn, Placed
<1>5. Printed(s, c) = Advanced(t)
  BY DEF Printed
<1> HIDE DEF t, placed
<1>6. Seen(s).col < VGA_WIDTH <=> ~AtLastColumn(t.pos_x)
  BY <1>2, <1>3, VgaAssumption DEF On, AtLastColumn
<1>7. CASE AtLastColumn(t.pos_x)
  BY <1>1, <1>2, <1>4, <1>5, <1>6, <1>7, SeenScroll DEF Advanced
<1>8. CASE ~AtLastColumn(t.pos_x)
  <2>1. Advanced(t) = [t EXCEPT !.pos_x = t.pos_x + 1]
    BY <1>8 DEF Advanced
  <2>2. Seen(Advanced(t)) = [Seen(t) EXCEPT !.col = t.pos_x + 1 + 1]
    BY <1>2, <2>1 DEF Seen, Screen
  <2>3. Seen(t).col = t.pos_x + 1
    BY DEF Seen
  <2> QED  BY <1>1, <1>4, <1>5, <1>6, <1>8, <2>2, <2>3
<1> QED  BY <1>7, <1>8

\* A call of vga_putc that nobody disturbs is a step of the terminal.
Acts(t, u, c) ==
    \/ u = T!Typed(t, c)
    \/ u = T!NextLine(t)
    \/ u = T!Typed(T!Typed(T!Typed(T!Typed(t, Blank), Blank), Blank), Blank)
    \/ u = [t EXCEPT !.col = 1]
    \/ t.col > 1
       /\ u = [t EXCEPT !.col = @ - 1, !.rows = Placed(@, t.row, t.col - 1, Blank)]
    \/ t.col = 1 /\ t.row > 1
       /\ u = [t EXCEPT !.col = VGA_WIDTH, !.row = @ - 1,
                        !.rows = Placed(@, t.row - 1, VGA_WIDTH, Blank)]
    \/ t.col = 1 /\ t.row = 1
       /\ u = [t EXCEPT !.col = VGA_WIDTH, !.rows = Placed(@, 1, VGA_WIDTH, Blank)]

\* Each character that vga_putc tells apart is a step of the terminal.
LEMMA SeenPutc ==
    ASSUME NEW s, Screen(s), On(s), NEW c
    PROVE  Acts(Seen(s), Seen(vga_putc(s, c)), c)
<1>1. CASE c = "backspace"
  <2> DEFINE t == Back(s)
             p == Seen(s)
  <2>1. vga_putc(s, c) = vga_put(t, t.pos_x, t.pos_y, Blank)
    BY <1>1 DEF vga_putc, Erased
  <2>2. /\ Screen(t) /\ On(t) /\ t.buf = s.buf
        /\ t.pos_x = IF s.pos_x # 0 THEN s.pos_x - 1 ELSE VGA_WIDTH - 1
        /\ t.pos_y = IF s.pos_x = 0 /\ s.pos_y # 0 THEN s.pos_y - 1 ELSE s.pos_y
    <3>1. CASE s.pos_x # 0
      BY <3>1, VgaAssumption DEF Back, Screen, On
    <3>2. CASE s.pos_x = 0
      <4>1. t = [s EXCEPT !.pos_x = VGA_WIDTH - 1,
                          !.pos_y = IF s.pos_y # 0 THEN s.pos_y - 1 ELSE 0]
        BY <3>2 DEF Back, Screen
      <4> HIDE DEF t
      <4> QED  BY <3>2, <4>1, VgaAssumption DEF Screen, On
    <3> QED  BY <3>1, <3>2
  <2> HIDE DEF t
  <2>3. Seen(vga_putc(s, c)) = PlacedOn(Seen(t), t.pos_y + 1, t.pos_x + 1, Blank)
    BY <2>1, <2>2, SeenPut DEF On
  <2>4. p = [rows |-> Rows(s.buf), row |-> s.pos_y + 1, col |-> s.pos_x + 1]
    BY DEF Seen
  <2>5. Seen(t) = [rows |-> Rows(s.buf), row |-> t.pos_y + 1, col |-> t.pos_x + 1]
    BY <2>2 DEF Seen
  <2> DEFINE u == Seen(vga_putc(s, c))
             a == t.pos_y + 1
             b == t.pos_x + 1
  <2>6. u = [rows |-> Placed(Rows(s.buf), a, b, Blank), row |-> a, col |-> b]
    BY <2>3, <2>5 DEF PlacedOn
  <2> HIDE DEF u, p
  <2>7. CASE s.pos_x # 0
    <3>1. p.col > 1 /\ a = p.row /\ b = p.col - 1
      BY <2>2, <2>4, <2>7 DEF Screen
    <3>2. u = [p EXCEPT !.col = @ - 1, !.rows = Placed(@, p.row, p.col - 1, Blank)]
      <4> SUFFICES ASSUME NEW v,
                          v = [p EXCEPT !.col = @ - 1,
                                        !.rows = Placed(@, p.row, p.col - 1, Blank)]
                   PROVE  u = v
        OBVIOUS
      <4> HIDE DEF a, b
      <4> QED  BY <2>4, <2>6, <3>1
    <3> QED  BY <3>1, <3>2 DEF Acts, p, u
  <2>8. CASE s.pos_x = 0 /\ s.pos_y # 0
    <3>1. p.col = 1 /\ p.row > 1 /\ a = p.row - 1 /\ b = VGA_WIDTH
      BY <2>2, <2>4, <2>8, VgaAssumption DEF Screen
    <3>2. u = [p EXCEPT !.col = VGA_WIDTH, !.row = @ - 1,
                        !.rows = Placed(@, p.row - 1, VGA_WIDTH, Blank)]
      <4> SUFFICES ASSUME NEW v, v = [p EXCEPT !.col = VGA_WIDTH, !.row = @ - 1,
                          !.rows = Placed(@, p.row - 1, VGA_WIDTH, Blank)]
                   PROVE  u = v
        OBVIOUS
      <4> HIDE DEF a, b
      <4> QED  BY <2>4, <2>6, <3>1
    <3> QED  BY <3>1, <3>2 DEF Acts, p, u
  <2>9. CASE s.pos_x = 0 /\ s.pos_y = 0
    <3>1. p.col = 1 /\ p.row = 1 /\ a = 1 /\ b = VGA_WIDTH
      BY <2>2, <2>4, <2>9, VgaAssumption DEF Screen
    <3>2. u = [p EXCEPT !.col = VGA_WIDTH, !.rows = Placed(@, 1, VGA_WIDTH, Blank)]
      <4> SUFFICES ASSUME NEW v,
                          v = [p EXCEPT !.col = VGA_WIDTH,
                                        !.rows = Placed(@, 1, VGA_WIDTH, Blank)]
                   PROVE  u = v
        OBVIOUS
      <4> HIDE DEF a, b
      <4> QED  BY <2>4, <2>6, <3>1
    <3> QED  BY <3>1, <3>2 DEF Acts, p, u
  <2> QED  BY <2>7, <2>8, <2>9
<1>2. CASE c = "newline"
  BY <1>2, SeenScroll DEF vga_putc, Acts
<1>3. CASE c = "tab"
  <2>1. \A r : Screen(r) /\ On(r) =>
              /\ Screen(Spaced(r)) /\ On(Spaced(r))
              /\ Seen(Spaced(r)) = T!Typed(Seen(r), Blank)
    BY PrintedKeeps, SeenPrinted DEF Spaced, Keeps
  <2> DEFINE t == Spaced(s)
             u == Spaced(t)
             v == Spaced(u)
  <2>2. Seen(t) = T!Typed(Seen(s), Blank) /\ Screen(t) /\ On(t)
    BY <2>1
  <2> HIDE DEF t
  <2>3. Seen(u) = T!Typed(Seen(t), Blank) /\ Screen(u) /\ On(u)
    BY <2>1, <2>2
  <2> HIDE DEF u
  <2>4. Seen(v) = T!Typed(Seen(u), Blank) /\ Screen(v) /\ On(v)
    BY <2>1, <2>3
  <2> HIDE DEF v
  <2>5. Seen(Spaced(v)) = T!Typed(Seen(v), Blank)
    BY <2>1, <2>4
  <2>6. vga_putc(s, c) = Spaced(v)
    BY <1>3 DEF vga_putc, v, u, t
  <2> QED  BY <2>2, <2>3, <2>4, <2>5, <2>6 DEF Acts
<1>4. CASE c = "return"
  <2>1. vga_putc(s, c) = [s EXCEPT !.pos_x = 0]
    BY <1>4 DEF vga_putc
  <2>2. Seen(vga_putc(s, c)) = [Seen(s) EXCEPT !.col = 1]
    BY <2>1 DEF Seen, Screen
  <2> QED  BY <2>2 DEF Acts
<1>5. CASE c \notin {"backspace", "newline", "tab", "return"}
  BY <1>5, SeenPrinted DEF vga_putc, Acts
<1> QED  BY <1>1, <1>2, <1>3, <1>4, <1>5

-----------------------------------------------------------------------------
\* The character a process is in

\* Two screens that look the same.
Same(s, t) == s.buf = t.buf /\ s.pos_x = t.pos_x /\ s.pos_y = t.pos_y

\* What looks the same is seen the same.
LEMMA SameSeen ==
    ASSUME NEW s, NEW t, Same(s, t)
    PROVE  Seen(s) = Seen(t)
BY DEF Same, Seen

\* The screen that a process makes of each point it may be at.
LEMMA FinishedCases ==
    ASSUME NEW s, NEW r, NEW c
    PROVE  /\ Finished(s, "load_x", r, c) = Printed(s, c)
           /\ Finished(s, "put", r, c) = Printed(s, c)
           /\ Finished(s, "test", r, c) = Advanced(s)
           /\ Finished(s, "inc", r, c) = [s EXCEPT !.pos_x = @ + 1]
           /\ Finished(s, "inc_store", r, c) = [s EXCEPT !.pos_x = r.x]
           /\ Finished(s, "scroll", r, c) = scroll(s)
           /\ Finished(s, "scroll_test", r, c) = scroll(s)
           /\ Finished(s, "line", r, c) = [s EXCEPT !.pos_y = @ + 1]
           /\ Finished(s, "line_store", r, c) = [s EXCEPT !.pos_y = r.y]
           /\ Finished(s, "copy", r, c) = [s EXCEPT !.buf = Cut(@, r.i, Shifted(@)[r.i])]
           /\ Finished(s, "copy_store", r, c) = [s EXCEPT !.buf = Cut(@, r.i, r.c)]
           /\ Finished(s, "wipe", r, c) = [s EXCEPT !.buf = Cut(@, LastRow + r.i, Blank)]
BY DEF Finished

Inside == {"load_x", "put", "test", "inc", "inc_store", "scroll", "scroll_test", "line",
           "line_store", "copy", "copy_store", "wipe"}

\* The points within a character, and what else a process may be at.
LEMMA InsideIs ==
    /\ Inside \subseteq Printing /\ Inside \subseteq Points /\ "next" \notin Inside
    /\ Printing = Inside \cup {"next"}
    /\ Typed => \A e \in Printers : Within(e) <=> pc[e] \in Inside
BY DEF Inside, Printing, Points, Typed, Within, Printers

\* The screen once the character being printed is complete.
LEMMA SettledIs ==
    ASSUME Alone, NEW e \in Printers, Within(e)
    PROVE  Settled = Finished(vga, pc[e], reg[e], Head(todo[e]))
<1> DEFINE f == CHOOSE f \in Printers : Within(f)
<1>1. f \in Printers /\ Within(f)
  OBVIOUS
<1>2. f = e
  BY <1>1 DEF Alone
<1>3. Settled = Finished(vga, pc[f], reg[f], Head(todo[f]))
  BY DEF Settled
<1> QED  BY <1>2, <1>3

LEMMA SettledFree ==
    ASSUME ~\E e \in Printers : Within(e)
    PROVE  Settled = vga
BY DEF Settled

\* Both cases, before a step.
LEMMA SettledNow ==
    /\ \A e \in Printers : Alone /\ Within(e) =>
          Settled = Finished(vga, pc[e], reg[e], Head(todo[e]))
    /\ (~\E e \in Printers : Within(e)) => Settled = vga
BY SettledIs, SettledFree

\* And after it.
LEMMA SettledThen ==
    /\ \A e \in Printers : Alone' /\ Within(e)' =>
          Settled' = Finished(vga', pc'[e], reg'[e], Head(todo'[e]))
    /\ (~\E e \in Printers : Within(e)') => Settled' = vga'
<1>1. ( /\ \A e \in Printers : Alone /\ Within(e) =>
              Settled = Finished(vga, pc[e], reg[e], Head(todo[e]))
        /\ (~\E e \in Printers : Within(e)) => Settled = vga)'
  BY SettledNow, PTL
<1> QED  BY <1>1

\* The screen to be, before and after a step that stays within the character.
LEMMA GoesSettled ==
    ASSUME Typed, Alone, Alone', NEW e \in Printers, NEW from \in Inside, NEW to \in Inside,
           NEW r, Goes(e, from, to, r)
    PROVE  /\ Settled = Finished(vga, from, reg[e], Head(todo[e]))
           /\ Settled' = Finished(vga', to, r, Head(todo[e]))
<1>1. /\ pc[e] = from /\ pc'[e] = to /\ reg'[e] = r /\ todo' = todo
  BY DEF Goes, Typed, Printers
<1>2. Within(e) /\ Within(e)'
  BY <1>1 DEF Within, Inside
<1> QED  BY <1>1, <1>2, SettledNow, SettledThen

\* Before and after the step that ends it.
LEMMA EndsSettled ==
    ASSUME Typed, Alone, NEW e \in Printers, NEW from \in Inside, Ends(e, from)
    PROVE  /\ Settled = Finished(vga, from, reg[e], Head(todo[e]))
           /\ Settled' = vga'
<1>1. pc[e] = from /\ pc'[e] \in {"halt", "next"} /\ \A f \in Printers \ {e} : pc'[f] = pc[f]
  BY DEF Ends, Typed, Printers
<1>2. Within(e)
  BY <1>1 DEF Within, Inside
<1>3. \A f \in Printers : ~Within(f)'
  <2>1. \A f \in Printers \ {e} : ~Within(f)
    BY <1>2 DEF Alone
  <2> QED  BY <1>1, <2>1 DEF Within
<1> QED  BY <1>1, <1>2, <1>3, SettledNow, SettledThen

\* Before and after the step that begins it, when nobody else is within one.
LEMMA BeginsSettled ==
    ASSUME Typed, Alone', NEW e \in Printers, NEW to \in Inside, NEW r,
           ~Disturbed, Goes(e, "next", to, r)
    PROVE  /\ Settled = vga
           /\ Settled' = Finished(vga', to, r, Head(todo[e]))
<1>1. pc'[e] = to /\ reg'[e] = r /\ todo' = todo
  BY DEF Goes, Typed, Printers
<1>2. Within(e)'
  BY <1>1 DEF Within, Inside
<1>3. ~\E f \in Printers : Within(f)
  BY DEF Disturbed
<1> QED  BY <1>1, <1>2, <1>3, SettledNow, SettledThen

-----------------------------------------------------------------------------
\* The loops of scroll leave what the buffer will be.

Writable(b) == DOMAIN b = Cells /\ b[VGA_WIDTH * VGA_HEIGHT] = Blank

\* What a cell is after the text has moved up.
LEMMA ShiftedAt ==
    ASSUME NEW b, NEW j \in Cells
    PROVE  /\ j < LastRow => Shifted(b)[j] = b[VGA_WIDTH + j]
           /\ LastRow <= j /\ j < LastRow + VGA_WIDTH => Shifted(b)[j] = Blank
           /\ LastRow + VGA_WIDTH <= j => Shifted(b)[j] = b[j]
BY Sizes, VgaAssumption DEF Shifted, Cells

\* Nothing is written before the first step of the loops.
LEMMA CutFirst ==
    ASSUME NEW b
    PROVE  /\ LastRow = 0 => Cut(b, 0, Blank) = Shifted(b)
           /\ LastRow > 0 => Cut(b, 0, Shifted(b)[0]) = Shifted(b)
<1>1. \A j \in Cells : j \in Nat
  BY DEF Cells
<1>2. 0 \in Cells
  BY Sizes DEF Cells
<1>3. Shifted(b) = [j \in Cells |-> Shifted(b)[j]]
  BY DEF Shifted
<1>4. LastRow = 0 => Shifted(b)[0] = Blank
  BY <1>2, ShiftedAt, VgaAssumption
<1>5. Cut(b, 0, Shifted(b)[0]) = [j \in Cells |-> Shifted(b)[j]]
  BY <1>1 DEF Cut
<1> QED  BY <1>3, <1>4, <1>5

\* A step of the loop that moves the text leaves what the buffer will be.
LEMMA CutCopied ==
    ASSUME NEW b, DOMAIN b = Cells, NEW i \in Nat, i < LastRow, NEW c
    PROVE  LET d == [b EXCEPT ![i] = c]
           IN  /\ i + 1 < LastRow => Cut(d, i + 1, Shifted(d)[i + 1]) = Cut(b, i, c)
               /\ i + 1 = LastRow => Cut(d, LastRow, Blank) = Cut(b, i, c)
<1> DEFINE d == [b EXCEPT ![i] = c]
<1>1. i \in Cells /\ i + 1 \in Cells /\ \A j \in Cells : j \in Nat
  BY Sizes, VgaAssumption DEF Cells
<1>2. \A j \in Cells : d[j] = IF j = i THEN c ELSE b[j]
  BY <1>1
<1> HIDE DEF d
<1>3. ASSUME NEW j \in Cells, j > i PROVE Shifted(d)[j] = Shifted(b)[j]
  <2>1. CASE j < LastRow
    <3>1. VGA_WIDTH + j \in Cells /\ VGA_WIDTH + j # i
      BY <1>1, <1>3, <2>1, Sizes, VgaAssumption DEF Cells
    <3> QED  BY <1>2, <2>1, <3>1, ShiftedAt
  <2>2. CASE LastRow <= j /\ j < LastRow + VGA_WIDTH
    BY <2>2, ShiftedAt
  <2>3. CASE LastRow + VGA_WIDTH <= j
    BY <1>1, <1>2, <1>3, <2>3, ShiftedAt
  <2> QED  BY <1>1, <2>1, <2>2, <2>3, Sizes, VgaAssumption
<1>4. Cut(d, i + 1, Shifted(d)[i + 1]) = Cut(b, i, c)
  BY <1>1, <1>2, <1>3 DEF Cut
<1>5. i + 1 = LastRow => Shifted(d)[i + 1] = Blank
  BY <1>1, ShiftedAt, Sizes, VgaAssumption
<1> QED  BY <1>4, <1>5 DEF d

\* And a step of the loop that deletes the last row.
LEMMA CutWiped ==
    ASSUME NEW b, DOMAIN b = Cells, NEW i \in Nat, i < VGA_WIDTH
    PROVE  LET d == [b EXCEPT ![LastRow + i] = Blank]
           IN  /\ i + 1 < VGA_WIDTH =>
                    Cut(d, LastRow + (i + 1), Blank) = Cut(b, LastRow + i, Blank)
               /\ i + 1 = VGA_WIDTH => Cut(b, LastRow + i, Blank) = d
<1> DEFINE k == LastRow + i
           d == [b EXCEPT ![k] = Blank]
<1>1. /\ k \in Cells /\ k + 1 \in Cells /\ k \in Nat /\ k + 1 = LastRow + (i + 1)
      /\ \A j \in Cells : j \in Nat
  BY Sizes, VgaAssumption DEF Cells
<1>2. \A j \in Cells : d[j] = IF j = k THEN Blank ELSE b[j]
  BY <1>1
<1>3. d = [j \in Cells |-> d[j]]
  OBVIOUS
<1>4. LastRow <= k /\ LastRow \in Nat
  BY Sizes
<1>5. i + 1 = VGA_WIDTH => k + 1 = LastRow + VGA_WIDTH
  BY Sizes, VgaAssumption
<1>6. i + 1 < VGA_WIDTH => k + 1 < LastRow + VGA_WIDTH
  BY Sizes, VgaAssumption
<1> HIDE DEF d, k
<1>7. ASSUME NEW j \in Cells, j > k PROVE Shifted(d)[j] = Shifted(b)[j]
  <2>1. CASE j < LastRow + VGA_WIDTH
    BY <1>1, <1>4, <1>7, <2>1, ShiftedAt
  <2>2. CASE LastRow + VGA_WIDTH <= j
    BY <1>1, <1>2, <1>7, <2>2, ShiftedAt
  <2> QED  BY <1>1, <1>4, <2>1, <2>2, VgaAssumption
<1>8. ASSUME i + 1 < VGA_WIDTH PROVE Cut(d, k + 1, Blank) = Cut(b, k, Blank)
  <2>1. Shifted(b)[k + 1] = Blank
    BY <1>1, <1>4, <1>6, <1>8, ShiftedAt
  <2> QED  BY <1>1, <1>2, <1>7, <2>1 DEF Cut
<1>9. ASSUME i + 1 = VGA_WIDTH PROVE Cut(b, k, Blank) = d
  <2>1. \A j \in Cells : j > k => Shifted(b)[j] = b[j]
    BY <1>1, <1>5, <1>9, ShiftedAt
  <2>2. \A j \in Cells : d[j] = IF j < k THEN b[j] ELSE IF j = k THEN Blank ELSE Shifted(b)[j]
    BY <1>1, <1>2, <2>1
  <2> QED  BY <1>3, <2>2 DEF Cut
<1> QED  BY <1>1, <1>8, <1>9 DEF d, k

\* Clearing the column first changes nothing for scroll.
LEMMA ScrollAgain ==
    ASSUME NEW s, Screen(s), NEW t, t = [s EXCEPT !.pos_x = 0]
    PROVE  Same(scroll(t), scroll(s))
<1>1. t.pos_y = s.pos_y /\ t.buf = s.buf /\ Screen(t)
  BY DEF Screen
<1>2. CASE AtLastRow(s.pos_y)
  <2> DEFINE b == Shifted(s.buf)
  <2>1. /\ scroll(s) = [s EXCEPT !.pos_x = 0, !.buf = b]
        /\ scroll(t) = [t EXCEPT !.pos_x = 0, !.buf = b]
    BY <1>1, <1>2 DEF scroll, Screen
  <2> HIDE DEF b
  <2> QED  BY <1>1, <2>1 DEF Screen, Same
<1>3. CASE ~AtLastRow(s.pos_y)
  <2>1. /\ scroll(s) = [s EXCEPT !.pos_x = 0, !.pos_y = s.pos_y + 1]
        /\ scroll(t) = [t EXCEPT !.pos_x = 0, !.pos_y = s.pos_y + 1]
    BY <1>1, <1>3 DEF scroll, Screen
  <2> QED  BY <1>1, <2>1 DEF Screen, Same
<1> QED  BY <1>2, <1>3

\* A step of a process within a character, which it goes on with.
LEMMA StepInside ==
    ASSUME Typed, Alone, Alone', NEW e \in Printers, user_test(e), pc[e] \in Inside
    PROVE  Seen(Settled)' = Seen(Settled)
<1> DEFINE s == reg[e]
           c == Head(todo[e])
<1>1. e \in Entries /\ Screen(vga) /\ Loaded(pc[e], s)
  BY DEF Typed, Printers
<1>2. Between(e) /\ Within(e) /\ On(vga)
  BY InsideIs DEF Alone
<1>3. pc[e] # "next"
  BY DEF Inside
\* What is left to show of a step that goes on, and of one that ends the character.
<1>4. ASSUME NEW from \in Inside, NEW to \in Inside, NEW r, Goes(e, from, to, r),
             Same(Finished(vga', to, r, c), Finished(vga, from, s, c))
      PROVE  Seen(Settled)' = Seen(Settled)
  <2>1. /\ Settled = Finished(vga, from, s, c)
        /\ Settled' = Finished(vga', to, r, c)
    BY <1>4, GoesSettled
  <2>2. Same(Settled', Settled)
    BY <1>4, <2>1
  <2>3. Seen(Settled') = Seen(Settled)
    BY <2>2, SameSeen
  <2> QED  BY <2>3
<1>5. ASSUME NEW from \in Inside, Ends(e, from), Same(vga', Finished(vga, from, s, c))
      PROVE  Seen(Settled)' = Seen(Settled)
  <2>1. /\ Settled = Finished(vga, from, s, c)
        /\ Settled' = vga'
    BY <1>5, EndsSettled
  <2>2. Same(Settled', Settled)
    BY <1>5, <2>1
  <2>3. Seen(Settled') = Seen(Settled)
    BY <2>2, SameSeen
  <2> QED  BY <2>3
<1>6. {"load_x", "put", "test", "inc", "inc_store", "scroll", "scroll_test", "line",
           "line_store", "copy", "copy_store", "wipe"} \subseteq Inside
  BY DEF Inside
<1>7. CASE load_y(e)
  BY <1>3, <1>7 DEF load_y
<1>8. CASE load_x(e)
  <2> DEFINE r == [s EXCEPT !.x = vga.pos_x]
  <2>1. Goes(e, "load_x", "put", r) /\ vga' = vga
    BY <1>8 DEF load_x, Stays
  <2> HIDE DEF r
  <2>2. Same(Finished(vga', "put", r, c), Finished(vga, "load_x", s, c))
    BY <2>1, FinishedCases DEF Same
  <2> QED  BY <1>4, <1>6, <2>1, <2>2
<1>9. CASE put(e)
  <2>1. /\ Goes(e, "put", "test", NoReg) /\ pc[e] = "put"
        /\ vga' = vga_put(vga, s.x, s.y, c)
    BY <1>9 DEF put, Goes
  <2>2. vga' = vga_put(vga, vga.pos_x, vga.pos_y, c)
    BY <1>2, <2>1 DEF Between
  <2>3. Advanced(vga') = Printed(vga, c)
    BY <2>2 DEF Printed
  <2>4. Same(Finished(vga', "test", NoReg, c), Finished(vga, "put", s, c))
    BY <2>3, FinishedCases DEF Same
  <2> QED  BY <1>4, <1>6, <2>1, <2>4
<1>10. CASE test(e)
  <2> DEFINE to == IF AtLastColumn(vga.pos_x) THEN "scroll" ELSE "inc"
  <2>1. Goes(e, "test", to, s) /\ vga' = vga /\ to \in {"scroll", "inc"}
    BY <1>10 DEF test, Stays
  <2>2. Finished(vga, to, s, c) = Advanced(vga)
    BY FinishedCases DEF Advanced
  <2> HIDE DEF to
  <2>3. Same(Finished(vga', to, s, c), Finished(vga, "test", s, c))
    BY <2>1, <2>2, FinishedCases DEF Same
  <2> QED  BY <1>4, <1>6, <2>1, <2>3
<1>11. CASE inc(e)
  <2> DEFINE r == [s EXCEPT !.x = vga.pos_x + 1]
  <2>1. Goes(e, "inc", "inc_store", r) /\ vga' = vga
    BY <1>11 DEF inc, Stays
  <2>2. r.x = vga.pos_x + 1
    BY <1>1 DEF Loaded
  <2> HIDE DEF r
  <2>3. /\ Finished(vga', "inc_store", r, c) = [vga EXCEPT !.pos_x = vga.pos_x + 1]
        /\ Finished(vga, "inc", s, c) = [vga EXCEPT !.pos_x = vga.pos_x + 1]
    BY <2>1, <2>2, FinishedCases
  <2>4. Same(Finished(vga', "inc_store", r, c), Finished(vga, "inc", s, c))
    BY <2>3 DEF Same
  <2> QED  BY <1>4, <1>6, <2>1, <2>4
<1>12. CASE inc_store(e)
  <2>1. Ends(e, "inc_store") /\ vga' = [vga EXCEPT !.pos_x = s.x]
    BY <1>12 DEF inc_store
  <2>2. Finished(vga, "inc_store", s, c) = [vga EXCEPT !.pos_x = s.x]
    BY FinishedCases
  <2>3. Same(vga', Finished(vga, "inc_store", s, c))
    BY <2>1, <2>2 DEF Same
  <2> QED  BY <1>5, <1>6, <2>1, <2>3
<1>13. CASE scroll_return(e)
  <2>1. Goes(e, "scroll", "scroll_test", s) /\ vga' = [vga EXCEPT !.pos_x = 0]
    BY <1>3, <1>13 DEF scroll_return
  <2>2. Same(scroll(vga'), scroll(vga))
    BY <1>1, <2>1, ScrollAgain
  <2>3. Same(Finished(vga', "scroll_test", s, c), Finished(vga, "scroll", s, c))
    BY <2>2, FinishedCases
  <2> QED  BY <1>4, <1>6, <2>1, <2>3
<1>14. CASE scroll_test(e)
  <2> DEFINE to == IF ~AtLastRow(vga.pos_y) THEN "line"
                   ELSE IF LastRow = 0 THEN "wipe" ELSE "copy"
             b == Shifted(vga.buf)
  <2>1. /\ Goes(e, "scroll_test", to, s) /\ vga' = vga /\ pc[e] = "scroll_test"
        /\ to \in {"line", "wipe", "copy"}
    BY <1>14 DEF scroll_test, Stays, Goes
  <2>2. vga.pos_x = 0 /\ s.i = 0
    BY <1>1, <1>2, <2>1 DEF Between, Loaded, Limit
  <2>3. CASE ~AtLastRow(vga.pos_y)
    <3>1. to = "line"
      BY <2>3
    <3>2. scroll(vga) = [vga EXCEPT !.pos_x = 0, !.pos_y = vga.pos_y + 1]
      BY <2>3 DEF scroll
    <3>3. Finished(vga, "line", s, c) = [vga EXCEPT !.pos_y = vga.pos_y + 1]
      BY FinishedCases
    <3>4. Same(Finished(vga, "line", s, c), scroll(vga))
      BY <1>1, <2>2, <3>2, <3>3 DEF Same, Screen
    <3> HIDE DEF to
    <3> QED  BY <1>4, <1>6, <2>1, <3>1, <3>4, FinishedCases
  <2>4. CASE AtLastRow(vga.pos_y)
    <3>1. scroll(vga) = [vga EXCEPT !.pos_x = 0, !.buf = b]
      BY <2>4 DEF scroll
    <3>2. LastRow \in Nat /\ LastRow + 0 = LastRow
      BY Sizes
    <3>3. Finished(vga, to, s, c) = [vga EXCEPT !.buf = b]
      <4>1. CASE LastRow = 0
        <5>1. to = "wipe"
          BY <2>4, <4>1
        <5>2. Finished(vga, "wipe", s, c) = [vga EXCEPT !.buf = Cut(vga.buf, 0, Blank)]
          BY <2>2, <4>1, FinishedCases
        <5> QED  BY <4>1, <5>1, <5>2, CutFirst
      <4>2. CASE LastRow > 0
        <5>1. to = "copy"
          BY <2>4, <4>2
        <5>2. Finished(vga, "copy", s, c)
                 = [vga EXCEPT !.buf = Cut(vga.buf, 0, Shifted(vga.buf)[0])]
          BY <2>2, FinishedCases
        <5> QED  BY <4>2, <5>1, <5>2, CutFirst
      <4> QED  BY <3>2, <4>1, <4>2
    <3> HIDE DEF b, to
    <3>4. Same(Finished(vga, to, s, c), scroll(vga))
      BY <1>1, <2>2, <3>1, <3>3 DEF Same, Screen
    <3> QED  BY <1>4, <1>6, <2>1, <3>4, FinishedCases
  <2> QED  BY <2>3, <2>4
<1>15. CASE line(e)
  <2> DEFINE r == [s EXCEPT !.y = vga.pos_y + 1]
  <2>1. Goes(e, "line", "line_store", r) /\ vga' = vga
    BY <1>15 DEF line, Stays
  <2>2. r.y = vga.pos_y + 1
    BY <1>1 DEF Loaded
  <2> HIDE DEF r
  <2>3. /\ Finished(vga', "line_store", r, c) = [vga EXCEPT !.pos_y = vga.pos_y + 1]
        /\ Finished(vga, "line", s, c) = [vga EXCEPT !.pos_y = vga.pos_y + 1]
    BY <2>1, <2>2, FinishedCases
  <2>4. Same(Finished(vga', "line_store", r, c), Finished(vga, "line", s, c))
    BY <2>3 DEF Same
  <2> QED  BY <1>4, <1>6, <2>1, <2>4
<1>16. CASE line_store(e)
  <2>1. Ends(e, "line_store") /\ vga' = [vga EXCEPT !.pos_y = s.y]
    BY <1>16 DEF line_store
  <2>2. Finished(vga, "line_store", s, c) = [vga EXCEPT !.pos_y = s.y]
    BY FinishedCases
  <2>3. Same(vga', Finished(vga, "line_store", s, c))
    BY <2>1, <2>2 DEF Same
  <2> QED  BY <1>5, <1>6, <2>1, <2>3
<1>17. CASE copy(e)
  <2> DEFINE r == [s EXCEPT !.c = vga.buf[VGA_WIDTH + s.i]]
  <2>1. Goes(e, "copy", "copy_store", r) /\ vga' = vga /\ pc[e] = "copy"
    BY <1>17 DEF copy, Stays, Goes
  <2>2. r.i = s.i /\ r.c = vga.buf[VGA_WIDTH + s.i]
    BY <1>1 DEF Loaded
  <2> HIDE DEF r
  <2>3. s.i \in Nat /\ s.i < LastRow /\ s.i \in Cells
    BY <1>1, <2>1, Sizes, VgaAssumption DEF Loaded, Limit, Cells
  <2>4. r.c = Shifted(vga.buf)[s.i]
    BY <2>2, <2>3, ShiftedAt
  <2>5. Finished(vga', "copy_store", r, c) = Finished(vga, "copy", s, c)
    BY <2>1, <2>2, <2>4, FinishedCases
  <2> QED  BY <1>4, <1>6, <2>1, <2>5 DEF Same
<1>18. CASE copy_store(e)
  <2> DEFINE i == s.i
             b == vga.buf
             d == [b EXCEPT ![i] = s.c]
             to == IF i + 1 < LastRow THEN "copy" ELSE "wipe"
             r == [NoReg EXCEPT !.i = IF i + 1 < LastRow THEN i + 1 ELSE 0]
             k == Cut(b, i, s.c)
  <2>1. /\ Goes(e, "copy_store", to, r) /\ pc[e] = "copy_store"
        /\ vga' = [vga EXCEPT !.buf[i] = s.c]
    BY <1>18 DEF copy_store, Goes
  <2>2. i \in Nat /\ i < LastRow /\ LastRow \in Nat /\ LastRow + 0 = LastRow
        /\ DOMAIN b = Cells
    BY <1>1, <2>1, Sizes DEF Loaded, Limit, Screen
  <2>3. vga'.buf = d /\ vga'.pos_x = vga.pos_x /\ vga'.pos_y = vga.pos_y
        /\ DOMAIN vga' = DOMAIN vga
    BY <1>1, <2>1 DEF Screen
  <2>4. Finished(vga, "copy_store", s, c) = [vga EXCEPT !.buf = k]
    BY FinishedCases
  <2>5. Finished(vga', to, r, c) = [vga' EXCEPT !.buf = k] /\ to \in Inside
    <3>1. CASE i + 1 < LastRow
      <4>1. to = "copy" /\ r.i = i + 1
        BY <3>1 DEF NoReg
      <4>2. Cut(d, i + 1, Shifted(d)[i + 1]) = k
        BY <2>2, <3>1, CutCopied
      <4> HIDE DEF d, r, to, k
      <4> QED  BY <1>6, <2>3, <4>1, <4>2, FinishedCases
    <3>2. CASE ~(i + 1 < LastRow)
      <4>1. to = "wipe" /\ r.i = 0
        BY <3>2 DEF NoReg
      <4>2. i + 1 = LastRow
        BY <2>2, <3>2
      <4>3. Cut(d, LastRow, Blank) = k
        BY <2>2, <4>2, CutCopied
      <4> HIDE DEF d, r, to, k
      <4>4. Finished(vga', "wipe", r, c) = [vga' EXCEPT !.buf = Cut(d, LastRow + 0, Blank)]
        BY <2>3, <4>1, FinishedCases
      <4> QED  BY <1>6, <2>2, <4>1, <4>3, <4>4
    <3> QED  BY <3>1, <3>2
  <2> HIDE DEF d, r, to, k
  <2>6. Same(Finished(vga', to, r, c), Finished(vga, "copy_store", s, c))
    BY <1>1, <2>3, <2>4, <2>5 DEF Same, Screen
  <2> QED  BY <1>4, <1>6, <2>1, <2>5, <2>6
<1>19. CASE wipe(e)
  <2> DEFINE i == s.i
             b == vga.buf
             d == [b EXCEPT ![LastRow + i] = Blank]
             r == [NoReg EXCEPT !.i = i + 1]
             k == Cut(b, LastRow + i, Blank)
  <2>1. vga' = [vga EXCEPT !.buf[LastRow + i] = Blank] /\ pc[e] = "wipe"
    BY <1>19 DEF wipe, Goes, Ends
  <2>2. i \in Nat /\ i < VGA_WIDTH /\ DOMAIN b = Cells
    BY <1>1, <2>1 DEF Loaded, Limit, Screen
  <2>3. vga'.buf = d /\ vga'.pos_x = vga.pos_x /\ vga'.pos_y = vga.pos_y
        /\ DOMAIN vga' = DOMAIN vga
    BY <1>1, <2>1 DEF Screen
  <2>4. Finished(vga, "wipe", s, c) = [vga EXCEPT !.buf = k]
    BY FinishedCases
  <2>5. CASE Goes(e, "wipe", "wipe", r) /\ ~LastOfRow(i)
    <3>1. i + 1 < VGA_WIDTH /\ r.i = i + 1
      BY <2>2, <2>5, VgaAssumption DEF LastOfRow, NoReg
    <3>2. Cut(d, LastRow + (i + 1), Blank) = k
      BY <2>2, <3>1, CutWiped
    <3> HIDE DEF d, r, k
    <3>3. Finished(vga', "wipe", r, c) = [vga' EXCEPT !.buf = k]
      BY <2>3, <3>1, <3>2, FinishedCases
    <3>4. Same(Finished(vga', "wipe", r, c), Finished(vga, "wipe", s, c))
      BY <1>1, <2>3, <2>4, <3>3 DEF Same, Screen
    <3> QED  BY <1>4, <1>6, <2>5, <3>4
  <2>6. CASE Ends(e, "wipe") /\ LastOfRow(i)
    <3>1. k = d
      BY <2>2, <2>6, CutWiped DEF LastOfRow
    <3> HIDE DEF d, k
    <3>2. Same(vga', Finished(vga, "wipe", s, c))
      BY <1>1, <2>3, <2>4, <3>1 DEF Same, Screen
    <3> QED  BY <1>5, <1>6, <2>6, <3>2
  <2> QED  BY <1>19, <2>5, <2>6 DEF wipe
<1> QED
  BY <1>7, <1>8, <1>9, <1>10, <1>11, <1>12, <1>13, <1>14, <1>15, <1>16, <1>17, <1>18,
     <1>19 DEF user_test

-----------------------------------------------------------------------------
\* The drawings of the timer's callbacks

\* Where the drawings are in the buffer, and two buffers that differ only there.
Drawings == (0 .. VGA_WIDTH - 1) \cup ClearedCells

Agree(b, d) ==
    /\ DOMAIN b = Cells /\ DOMAIN d = Cells
    /\ \A j \in Cells \ Drawings : b[j] = d[j]

AgreeOn(s, t) == Agree(s.buf, t.buf) /\ s.pos_x = t.pos_x /\ s.pos_y = t.pos_y

LEMMA LinesIs ==
    /\ LINES \in Nat /\ LINES < VGA_HEIGHT - 1
    /\ VGA_WIDTH > 3 /\ TABLE_WIDTH \in Nat /\ TABLE_WIDTH < VGA_WIDTH
BY ConsoleAssumption, VgaAssumption DEF LINES

\* Scrolling moves the drawings only to where there are drawings, or away.
LEMMA AgreeShifted ==
    ASSUME NEW b, NEW d, Agree(b, d)
    PROVE  Agree(Shifted(b), Shifted(d))
<1>1. DOMAIN Shifted(b) = Cells /\ DOMAIN Shifted(d) = Cells
  BY DEF Shifted
<1>2. ASSUME NEW j \in Cells, j \notin Drawings PROVE Shifted(b)[j] = Shifted(d)[j]
  <2>1. j \in Nat /\ VGA_WIDTH \in Nat
    BY VgaAssumption DEF Cells
  <2>2. CASE j < LastRow
    <3>1. VGA_WIDTH + j \in Cells
      BY <2>1, <2>2, Sizes, VgaAssumption DEF Cells
    <3>2. ASSUME NEW x \in 0 .. TABLE_WIDTH - 1, NEW y \in 1 .. LINES,
                 VGA_WIDTH + j = Offset(x, y)
          PROVE  FALSE
      <4> DEFINE z == y - 1
      <4>1. z \in 0 .. VGA_HEIGHT - 1 /\ z < VGA_HEIGHT - 1 /\ y = z + 1
            /\ x \in 0 .. VGA_WIDTH - 1
        BY LinesIs, VgaAssumption
      <4> HIDE DEF z
      <4>2. Offset(x, z + 1) = VGA_WIDTH + Offset(x, z) /\ Offset(x, z) \in Cells
            /\ Offset(x, z) = z * VGA_WIDTH + x
        BY <4>1, CellOf
      <4>3. j = Offset(x, z)
        BY <2>1, <3>2, <4>1, <4>2, VgaAssumption DEF Cells
      <4>4. CASE z = 0
        BY <1>2, <4>1, <4>2, <4>3, <4>4, VgaAssumption DEF Drawings
      <4>5. CASE z # 0
        <5>1. z \in 1 .. LINES
          BY <4>1, <4>5, LinesIs
        <5> QED  BY <1>2, <4>3, <5>1 DEF Drawings, ClearedCells
      <4> QED  BY <4>4, <4>5
    <3>3. VGA_WIDTH + j \notin 0 .. VGA_WIDTH - 1
      BY <2>1
    <3>4. VGA_WIDTH + j \notin Drawings
      BY <3>2, <3>3 DEF Drawings, ClearedCells
    <3> QED  BY <2>2, <3>1, <3>4, ShiftedAt DEF Agree
  <2>3. CASE LastRow <= j /\ j < LastRow + VGA_WIDTH
    BY <2>3, ShiftedAt
  <2>4. CASE LastRow + VGA_WIDTH <= j
    BY <1>2, <2>4, ShiftedAt DEF Agree
  <2> QED  BY <2>1, <2>2, <2>3, <2>4, Sizes
<1> QED  BY <1>1, <1>2 DEF Agree

\* Nor does it matter how far the loops of scroll have got.
LEMMA AgreeCut ==
    ASSUME NEW b, NEW d, Agree(b, d), NEW i, NEW c
    PROVE  /\ Agree(Cut(b, i, c), Cut(d, i, c))
           /\ i \in Cells => Agree(Cut(b, i, Shifted(b)[i]), Cut(d, i, Shifted(d)[i]))
<1>1. \A j \in Cells \ Drawings : b[j] = d[j] /\ Shifted(b)[j] = Shifted(d)[j]
  BY AgreeShifted DEF Agree
<1>2. ASSUME NEW u, NEW v, u = v \/ i \in Drawings
      PROVE  Agree(Cut(b, i, u), Cut(d, i, v))
  BY <1>1, <1>2 DEF Agree, Cut
<1>3. i \in Cells => Shifted(b)[i] = Shifted(d)[i] \/ i \in Drawings
  BY <1>1
<1> QED  BY <1>2, <1>3

\* The operations keep buffers in agreement that differ in the drawings only.
LEMMA AgreePut ==
    ASSUME NEW s, NEW t, Screen(s), Screen(t), AgreeOn(s, t),
           NEW x \in Int, NEW y \in Int, NEW c
    PROVE  AgreeOn(vga_put(s, x, y, c), vga_put(t, x, y, c))
<1> DEFINE o == Offset(x, y)
           b == [s.buf EXCEPT ![o] = c]
           d == [t.buf EXCEPT ![o] = c]
<1>1. Agree(b, d)
  BY DEF Agree, AgreeOn
<1>2. /\ vga_put(s, x, y, c) = [s EXCEPT !.buf = b]
      /\ vga_put(t, x, y, c) = [t EXCEPT !.buf = d]
  BY DEF vga_put
<1> HIDE DEF o, b, d
<1> QED  BY <1>1, <1>2 DEF AgreeOn, Screen

LEMMA AgreeScroll ==
    ASSUME NEW s, NEW t, Screen(s), Screen(t), AgreeOn(s, t)
    PROVE  AgreeOn(scroll(s), scroll(t))
<1> DEFINE b == Shifted(s.buf)
           d == Shifted(t.buf)
<1>1. Agree(b, d)
  BY AgreeShifted DEF AgreeOn
<1>2. s.pos_y = t.pos_y
  BY DEF AgreeOn
<1>3. CASE AtLastRow(s.pos_y)
  <2>1. /\ scroll(s) = [s EXCEPT !.pos_x = 0, !.buf = b]
        /\ scroll(t) = [t EXCEPT !.pos_x = 0, !.buf = d]
    BY <1>2, <1>3 DEF scroll, Screen
  <2> HIDE DEF b, d
  <2> QED  BY <1>1, <1>2, <2>1 DEF AgreeOn, Screen
<1>4. CASE ~AtLastRow(s.pos_y)
  <2>1. /\ scroll(s) = [s EXCEPT !.pos_x = 0, !.pos_y = s.pos_y + 1]
        /\ scroll(t) = [t EXCEPT !.pos_x = 0, !.pos_y = s.pos_y + 1]
    BY <1>2, <1>4 DEF scroll, Screen
  <2> QED  BY <2>1 DEF AgreeOn, Screen
<1> QED  BY <1>3, <1>4

LEMMA AgreeAdvanced ==
    ASSUME NEW s, NEW t, Screen(s), Screen(t), AgreeOn(s, t)
    PROVE  AgreeOn(Advanced(s), Advanced(t))
<1>1. s.pos_x = t.pos_x
  BY DEF AgreeOn
<1>2. CASE AtLastColumn(s.pos_x)
  BY <1>1, <1>2, AgreeScroll DEF Advanced
<1>3. CASE ~AtLastColumn(s.pos_x)
  <2>1. /\ Advanced(s) = [s EXCEPT !.pos_x = s.pos_x + 1]
        /\ Advanced(t) = [t EXCEPT !.pos_x = s.pos_x + 1]
    BY <1>1, <1>3 DEF Advanced
  <2> QED  BY <2>1 DEF AgreeOn, Screen
<1> QED  BY <1>2, <1>3

LEMMA AgreePrinted ==
    ASSUME NEW s, NEW t, Screen(s), Screen(t), AgreeOn(s, t), NEW c
    PROVE  AgreeOn(Printed(s, c), Printed(t, c))
<1> DEFINE u == vga_put(s, s.pos_x, s.pos_y, c)
           v == vga_put(t, t.pos_x, t.pos_y, c)
<1>1. s.pos_x \in Int /\ s.pos_y \in Int /\ t.pos_x = s.pos_x /\ t.pos_y = s.pos_y
  BY DEF Screen, AgreeOn
<1>2. AgreeOn(u, v)
  BY <1>1, AgreePut
<1>3. Screen(u) /\ Screen(v)
  BY <1>1, PutKeeps DEF Keeps
<1>4. Printed(s, c) = Advanced(u) /\ Printed(t, c) = Advanced(v)
  BY DEF Printed
<1> HIDE DEF u, v
<1> QED  BY <1>2, <1>3, <1>4, AgreeAdvanced

\* The drawings stay apart from the text however a character is finished.
LEMMA AgreeFinished ==
    ASSUME NEW s, NEW t, Screen(s), Screen(t), AgreeOn(s, t), NEW p \in Inside, NEW r, NEW c,
           p = "copy" => r.i \in Cells
    PROVE  AgreeOn(Finished(s, p, r, c), Finished(t, p, r, c))
<1>1. Agree(s.buf, t.buf) /\ s.pos_x = t.pos_x /\ s.pos_y = t.pos_y
  BY DEF AgreeOn
\* What is left when only the buffer is changed.
<1>2. ASSUME NEW b, NEW d, Agree(b, d)
      PROVE  AgreeOn([s EXCEPT !.buf = b], [t EXCEPT !.buf = d])
  BY <1>1, <1>2 DEF AgreeOn, Screen
<1>3. CASE p \in {"load_x", "put"}
  BY <1>3, FinishedCases, AgreePrinted
<1>4. CASE p = "test"
  BY <1>4, FinishedCases, AgreeAdvanced
<1>5. CASE p \in {"scroll", "scroll_test"}
  BY <1>5, FinishedCases, AgreeScroll
<1>6. CASE p = "inc"
  <2>1. /\ Finished(s, p, r, c) = [s EXCEPT !.pos_x = s.pos_x + 1]
        /\ Finished(t, p, r, c) = [t EXCEPT !.pos_x = s.pos_x + 1]
    BY <1>1, <1>6, FinishedCases
  <2> QED  BY <1>1, <2>1 DEF AgreeOn, Screen
<1>7. CASE p = "inc_store"
  <2>1. /\ Finished(s, p, r, c) = [s EXCEPT !.pos_x = r.x]
        /\ Finished(t, p, r, c) = [t EXCEPT !.pos_x = r.x]
    BY <1>7, FinishedCases
  <2> QED  BY <1>1, <2>1 DEF AgreeOn, Screen
<1>8. CASE p = "line"
  <2>1. /\ Finished(s, p, r, c) = [s EXCEPT !.pos_y = s.pos_y + 1]
        /\ Finished(t, p, r, c) = [t EXCEPT !.pos_y = s.pos_y + 1]
    BY <1>1, <1>8, FinishedCases
  <2> QED  BY <1>1, <2>1 DEF AgreeOn, Screen
<1>9. CASE p = "line_store"
  <2>1. /\ Finished(s, p, r, c) = [s EXCEPT !.pos_y = r.y]
        /\ Finished(t, p, r, c) = [t EXCEPT !.pos_y = r.y]
    BY <1>9, FinishedCases
  <2> QED  BY <1>1, <2>1 DEF AgreeOn, Screen
<1>10. CASE p = "copy"
  <2> DEFINE b == Cut(s.buf, r.i, Shifted(s.buf)[r.i])
             d == Cut(t.buf, r.i, Shifted(t.buf)[r.i])
  <2>1. Finished(s, p, r, c) = [s EXCEPT !.buf = b]
        /\ Finished(t, p, r, c) = [t EXCEPT !.buf = d]
    BY <1>10, FinishedCases
  <2>2. Agree(b, d)
    BY <1>1, <1>10, AgreeCut
  <2> HIDE DEF b, d
  <2> QED  BY <1>2, <2>1, <2>2
<1>11. CASE p = "copy_store"
  <2> DEFINE b == Cut(s.buf, r.i, r.c)
             d == Cut(t.buf, r.i, r.c)
  <2>1. Finished(s, p, r, c) = [s EXCEPT !.buf = b]
        /\ Finished(t, p, r, c) = [t EXCEPT !.buf = d]
    BY <1>11, FinishedCases
  <2>2. Agree(b, d)
    BY <1>1, AgreeCut
  <2> HIDE DEF b, d
  <2> QED  BY <1>2, <2>1, <2>2
<1>12. CASE p = "wipe"
  <2> DEFINE b == Cut(s.buf, LastRow + r.i, Blank)
             d == Cut(t.buf, LastRow + r.i, Blank)
  <2>1. Finished(s, p, r, c) = [s EXCEPT !.buf = b]
        /\ Finished(t, p, r, c) = [t EXCEPT !.buf = d]
    BY <1>12, FinishedCases
  <2>2. Agree(b, d)
    BY <1>1, AgreeCut
  <2> HIDE DEF b, d
  <2> QED  BY <1>2, <2>1, <2>2
<1> QED
  BY <1>3, <1>4, <1>5, <1>6, <1>7, <1>8, <1>9, <1>10, <1>11, <1>12 DEF Inside

\* Nobody sees text change when only drawings do.
LEMMA AgreeText ==
    ASSUME NEW s, NEW t, AgreeOn(s, t)
    PROVE  T!SameText(Seen(s), Seen(t))
<1>1. /\ Seen(s).rows = Rows(s.buf) /\ Seen(s).row = s.pos_y + 1 /\ Seen(s).col = s.pos_x + 1
      /\ Seen(t).rows = Rows(t.buf) /\ Seen(t).row = t.pos_y + 1 /\ Seen(t).col = t.pos_x + 1
  BY DEF Seen
<1>2. ASSUME NEW y \in 1 .. VGA_HEIGHT, NEW x \in 1 .. VGA_WIDTH,
             <<y, x>> \notin ({1} \X (1 .. VGA_WIDTH))
                                 \cup ((2 .. LINES + 1) \X (1 .. TABLE_WIDTH))
      PROVE  Rows(s.buf)[y][x] = Rows(t.buf)[y][x]
  <2> DEFINE v == y - 1
             u == x - 1
             o == Offset(u, v)
  <2>1. v \in 0 .. VGA_HEIGHT - 1 /\ u \in 0 .. VGA_WIDTH - 1 /\ y = v + 1 /\ x = u + 1
    BY VgaAssumption
  <2> HIDE DEF u, v
  <2>2. o \in Cells /\ o = v * VGA_WIDTH + u /\ v \in Nat
    BY <2>1, CellOf, VgaAssumption
  <2>3. ASSUME NEW w \in 0 .. TABLE_WIDTH - 1, NEW z \in 1 .. LINES, o = Offset(w, z)
        PROVE  FALSE
    <3>1. z \in 0 .. VGA_HEIGHT - 1 /\ z \in Nat /\ w \in 0 .. VGA_WIDTH - 1
      BY LinesIs, VgaAssumption
    <3>2. v * VGA_WIDTH + u = z * VGA_WIDTH + w
      BY <2>2, <2>3, <3>1, CellOf
    <3>3. v = z /\ u = w
      BY <2>1, <2>2, <3>1, <3>2, CellsDiffer
    <3>4. y \in 2 .. LINES + 1 /\ x \in 1 .. TABLE_WIDTH
      BY <2>1, <3>3, LinesIs
    <3> QED  BY <1>2, <3>4
  <2>4. ASSUME o \in 0 .. VGA_WIDTH - 1 PROVE FALSE
    <3>1. v * VGA_WIDTH + u = 0 * VGA_WIDTH + o /\ 0 \in Nat
      BY <2>2, <2>4, VgaAssumption
    <3>2. v = 0
      BY <2>1, <2>2, <2>4, <3>1, CellsDiffer
    <3>3. y = 1
      BY <2>1, <3>2
    <3> QED  BY <1>2, <3>3
  <2>5. o \notin Drawings
    BY <2>3, <2>4 DEF Drawings, ClearedCells
  <2>6. s.buf[o] = t.buf[o]
    BY <2>2, <2>5 DEF AgreeOn, Agree
  <2> HIDE DEF o
  <2>7. Rows(s.buf)[v + 1][u + 1] = s.buf[o] /\ Rows(t.buf)[v + 1][u + 1] = t.buf[o]
    BY <2>1, RowsAt DEF o
  <2> QED  BY <2>1, <2>6, <2>7
<1> QED  BY <1>1, <1>2 DEF T!SameText, AgreeOn

\* A tick writes cells of the status area alone.
LEMMA DrawAgrees ==
    ASSUME Screen(vga), timer_irq_handler
    PROVE  AgreeOn(vga, vga')
<1> DEFINE b == vga.buf
           table == displayProcs(b)
<1>1. DOMAIN b = Cells
  BY DEF Screen
<1>2. 0 \in 0 .. VGA_HEIGHT - 1 /\ 0 \in 0 .. VGA_WIDTH - 1
      /\ VGA_WIDTH - 3 \in 0 .. VGA_WIDTH - 1 /\ VGA_WIDTH - 1 \in 0 .. VGA_WIDTH - 1
  BY LinesIs, VgaAssumption
<1>3. Offset(VGA_WIDTH - 3, 0) \in Drawings /\ Offset(VGA_WIDTH - 1, 0) \in Drawings
  <2>1. 0 * VGA_WIDTH = 0 /\ VGA_WIDTH \in Nat
    BY VgaAssumption
  <2>2. Offset(VGA_WIDTH - 3, 0) = VGA_WIDTH - 3 /\ Offset(VGA_WIDTH - 1, 0) = VGA_WIDTH - 1
    <3>1. /\ Offset(VGA_WIDTH - 3, 0) = 0 * VGA_WIDTH + (VGA_WIDTH - 3)
          /\ Offset(VGA_WIDTH - 1, 0) = 0 * VGA_WIDTH + (VGA_WIDTH - 1)
      BY <1>2, CellOf
    <3> QED  BY <2>1, <3>1
  <2> QED  BY <1>2, <2>2 DEF Drawings
<1>4. ASSUME NEW d, Agree(b, d), NEW o \in Drawings, NEW c
      PROVE  Agree(b, [d EXCEPT ![o] = c])
  BY <1>4 DEF Agree
<1>5. Agree(b, table)
  <2>2. DOMAIN table = Cells
    BY DEF displayProcs
  <2>3. ASSUME NEW j \in Cells \ Drawings PROVE table[j] = b[j]
    <3>1. j \in Int /\ ~(j < TABLE_WIDTH) /\ ~(j < VGA_WIDTH - 1) /\ j # VGA_WIDTH - 1
          /\ j \notin ClearedCells
      BY <2>3, LinesIs, VgaAssumption DEF Drawings, Cells
    <3> QED  BY <3>1 DEF displayProcs
  <2> QED  BY <1>1, <2>2, <2>3 DEF Agree
<1> HIDE DEF table, b
<1>6. Agree(b, spinner(table))
  BY <1>3, <1>4, <1>5 DEF spinner
<1> DEFINE spun == spinner(table)
<1> HIDE DEF spun
<1>7. Agree(b, uptime(spun))
  BY <1>3, <1>4, <1>6 DEF uptime, spun
<1>8. PICK d : Agree(b, d) /\ vga' = [vga EXCEPT !.buf = d]
  BY <1>5, <1>6, <1>7 DEF timer_irq_handler, table, spun, b
<1> QED  BY <1>8 DEF AgreeOn, Screen, b

\* A tick draws, and disturbs neither the text nor the cursor, complete or not.
LEMMA StepDraw ==
    ASSUME Typed, Alone, Typed', Alone', timer_irq_handler
    PROVE  T!SameText(Seen(Settled), Seen(Settled)')
<1>1. /\ Screen(vga) /\ Screen(vga') /\ UNCHANGED <<pc, todo, reg>> /\ AgreeOn(vga, vga')
  BY DrawAgrees DEF Typed, timer_irq_handler
<1>2. CASE \E e \in Printers : Within(e)
  <2>1. PICK e \in Printers : Within(e)
    BY <1>2
  <2> DEFINE p == pc[e]
             r == reg[e]
             c == Head(todo[e])
  <2>2. Within(e)' /\ p \in Inside
    BY <1>1, <2>1, InsideIs DEF Within
  <2>3. p = "copy" => r.i \in Cells
    BY Sizes, VgaAssumption DEF Typed, Loaded, Limit, Cells, Printers
  <2>4. Settled = Finished(vga, p, r, c) /\ Settled' = Finished(vga', p, r, c)
    BY <1>1, <2>1, <2>2, SettledNow, SettledThen
  <2> HIDE DEF p, r, c
  <2>5. AgreeOn(Settled, Settled')
    BY <1>1, <2>2, <2>3, <2>4, AgreeFinished
  <2>6. T!SameText(Seen(Settled), Seen(Settled'))
    BY <2>5, AgreeText
  <2> QED  BY <2>6
<1>3. CASE ~\E e \in Printers : Within(e)
  <2>1. \A e \in Printers : Within(e)' <=> Within(e)
    BY <1>1 DEF Within
  <2>2. Settled = vga /\ Settled' = vga'
    BY <1>3, <2>1, SettledNow, SettledThen
  <2>3. T!SameText(Seen(vga), Seen(vga'))
    BY <1>1, AgreeText
  <2> QED  BY <2>2, <2>3
<1> QED  BY <1>2, <1>3

-----------------------------------------------------------------------------
\* What is printed

Char == Echoed \cup Range(WELCOME) \cup Range(MESSAGE)

\* What is still to be printed is of the texts.
Texts ==
    /\ welcome \in Seq(Range(WELCOME))
    /\ \A e \in Entries : todo[e] \in Seq(Range(MESSAGE))

\* A text consists of its characters.
LEMMA SeqRange ==
    ASSUME NEW s \in Seq(STRING)
    PROVE  s \in Seq(Range(s))
<1>1. s \in [1 .. Len(s) -> Range(s)] /\ Len(s) \in Nat
  <2>1. Len(s) \in Nat /\ s \in [1 .. Len(s) -> STRING] /\ DOMAIN s = 1 .. Len(s)
    BY LenProperties
  <2> QED  BY <2>1 DEF Range
<1> DEFINE n == Len(s)
           R == Range(s)
<1>2. s \in [1 .. n -> R] /\ n \in Nat
  BY <1>1
<1> HIDE DEF n, R
<1>3. Seq(R) = UNION {[1 .. k -> R] : k \in Nat}
  BY SeqDef
<1> QED  BY <1>2, <1>3, Zenon DEF R

LEMMA TextsInit == Init => Texts
<1>1. WELCOME \in Seq(Range(WELCOME)) /\ <<>> \in Seq(Range(MESSAGE))
  BY ConsoleAssumption, SeqRange, EmptySeq
<1> QED  BY <1>1 DEF Init, Texts

\* A step of a process leaves what it has to print, or prints the first of it.
LEMMA ProcessTodo ==
    ASSUME NEW e \in Printers, user_test(e)
    PROVE  /\ welcome' = welcome
           /\ \/ todo' = todo
              \/ todo' = [todo EXCEPT ![e] = Tail(@)] /\ pc[e] \notin {"none", "next", "halt"}
BY DEF user_test, load_y, load_x, put, test, inc, inc_store, scroll_return,
       scroll_test, line, line_store, copy, copy_store, wipe, Stays, Goes, Ends

\* Printing takes the texts from the front, and puts nothing into them.
LEMMA TextsStep == Texts /\ Typed /\ [Next]_vars => Texts'
<1> SUFFICES ASSUME Texts, Typed, [Next]_vars PROVE Texts'
  OBVIOUS
<1> DEFINE R == Range(MESSAGE)
           W == Range(WELCOME)
<1>1. MESSAGE \in Seq(R) /\ <<>> \in Seq(R)
  BY ConsoleAssumption, SeqRange, EmptySeq
<1>2. /\ welcome \in Seq(W) /\ \A e \in Entries : todo[e] \in Seq(R)
      /\ DOMAIN todo = Entries /\ Printers \subseteq Entries
  BY DEF Texts, Typed, Printers
<1> HIDE DEF R, W
<1>3. ASSUME NEW e \in Printers, user_test(e)
      PROVE  welcome' \in Seq(W) /\ \A f \in Entries : todo'[f] \in Seq(R)
  <2>1. CASE todo' = todo
    BY <1>2, <1>3, <2>1, ProcessTodo
  <2>2. CASE todo' = [todo EXCEPT ![e] = Tail(@)] /\ pc[e] \notin {"none", "next", "halt"}
    <3>1. e \in Entries /\ todo[e] # <<>>
      BY <1>2, <2>2, InsideIs DEF Typed, Printing, Points
    <3> DEFINE s == todo[e]
    <3>2. s \in Seq(R) /\ s # <<>>
      BY <1>2, <3>1
    <3> HIDE DEF s
    <3>3. Tail(s) \in Seq(R)
      BY <3>2, HeadTailProperties
    <3>4. \A f \in Entries : todo'[f] = IF f = e THEN Tail(s) ELSE todo[f]
      BY <1>2, <2>2, <3>1 DEF s
    <3>5. welcome' = welcome
      BY <1>3, ProcessTodo
    <3> QED  BY <1>2, <3>3, <3>4, <3>5
  <2> QED  BY <1>3, <2>1, <2>2, ProcessTodo
<1>4. ASSUME NEW e \in Printers, create(e) \/ destroy(e)
      PROVE  welcome' \in Seq(W) /\ \A f \in Entries : todo'[f] \in Seq(R)
  <2>1. PICK s \in Seq(R) : todo' = [todo EXCEPT ![e] = s] /\ welcome' = welcome
    BY <1>1, <1>4 DEF create, destroy
  <2> QED  BY <1>2, <2>1
<1>5. CASE welcome_puts
  <2>1. welcome # <<>> /\ welcome' = Tail(welcome) /\ todo' = todo
    BY <1>5 DEF welcome_puts
  <2>2. Tail(welcome) \in Seq(W)
    BY <1>2, <2>1, HeadTailProperties
  <2> QED  BY <1>2, <2>1, <2>2 DEF Texts, R, W
<1>6. CASE main \/ (\E c \in Echoed : keyboard_irq_handler(c)) \/ timer_irq_handler
           \/ UNCHANGED vars
  <2>1. welcome' = welcome /\ todo' = todo
    BY <1>6 DEF main, keyboard_irq_handler, timer_irq_handler, vars
  <2> QED  BY <2>1 DEF Texts
<1> QED
  BY <1>3, <1>4, <1>5, <1>6 DEF Next, Texts, R, W

-----------------------------------------------------------------------------
\* The steps of the terminal

\* A whole call of vga_putc, the cursor's setting, and a process's first step.
LEMMA ActsNext ==
    ASSUME NEW c \in Char, Acts(Seen(Settled), Seen(Settled)', c)
    PROVE  T!Next
<1> DEFINE t == Seen(Settled)
           u == Seen(Settled)'
<1>1. CASE u = T!Typed(t, c)
  BY <1>1 DEF T!Next, T!Type, Char
<1>2. CASE u = T!NextLine(t)
  BY <1>2 DEF T!Next, T!Newline
<1>3. CASE u = T!Typed(T!Typed(T!Typed(T!Typed(t, Blank), Blank), Blank), Blank)
  BY <1>3 DEF T!Next, T!Tab
<1>4. CASE u = [t EXCEPT !.col = 1]
  BY <1>4 DEF T!Next, T!Return
<1>5. CASE t.col > 1
           /\ u = [t EXCEPT !.col = @ - 1, !.rows = Placed(@, t.row, t.col - 1, Blank)]
  BY <1>5 DEF T!Next, T!Backspace, Placed
<1>6. CASE t.col = 1 /\ t.row > 1
           /\ u = [t EXCEPT !.col = VGA_WIDTH, !.row = @ - 1,
                            !.rows = Placed(@, t.row - 1, VGA_WIDTH, Blank)]
  BY <1>6 DEF T!Next, T!Backspace, Placed
<1>7. CASE t.col = 1 /\ t.row = 1
           /\ u = [t EXCEPT !.col = VGA_WIDTH, !.rows = Placed(@, 1, VGA_WIDTH, Blank)]
  BY <1>7 DEF T!Next, T!Backspace, Placed
<1> QED  BY <1>1, <1>2, <1>3, <1>4, <1>5, <1>6, <1>7 DEF Acts

\* A call that nobody disturbs.
LEMMA PutcNext ==
    ASSUME Typed, Alone, NEW c \in Char, vga' = vga_putc(vga, c), UNCHANGED pc,
           ~\E e \in Printers : Within(e)
    PROVE  T!Next
<1>1. Settled = vga
  BY SettledNow
<1>2. Settled' = vga'
  BY SettledThen DEF Within
<1>3. Screen(vga) /\ On(vga)
  BY DEF Typed, Alone
<1>4. Acts(Seen(vga), Seen(vga_putc(vga, c)), c)
  BY <1>3, SeenPutc
<1>5. Acts(Seen(Settled), Seen(Settled'), c)
  BY <1>1, <1>2, <1>4
<1>6. Acts(Seen(Settled), Seen(Settled)', c)
  BY <1>5
<1> QED  BY <1>6, ActsNext

\* A process begins with a character: it is settled where it will be.
LEMMA StepBegins ==
    ASSUME Typed, Texts, Alone, Alone', NEW e \in Printers, user_test(e),
           pc[e] \notin Inside, ~raced'
    PROVE  T!Next
<1> DEFINE c == Head(todo[e])
<1>1. Screen(vga) /\ On(vga) /\ e \in Entries
  BY DEF Typed, Alone, Printers
<1>2. load_y(e) \/ scroll_return(e)
  BY DEF user_test, load_x, put, test, inc, inc_store, scroll_return, scroll_test, line,
     line_store, copy, copy_store, wipe, Stays, Goes, Ends, Inside
<1>3. CASE load_y(e)
  <2> DEFINE r == [reg[e] EXCEPT !.y = vga.pos_y]
  <2>1. Goes(e, "next", "load_x", r) /\ raced' = Disturbed /\ vga' = vga /\ pc[e] = "next"
    BY <1>3 DEF load_y
  <2> HIDE DEF r
  <2>2. Settled = vga /\ Settled' = Finished(vga', "load_x", r, c)
    BY <2>1, BeginsSettled DEF Inside
  <2>3. Seen(Printed(vga, c)) = T!Typed(Seen(vga), c)
    BY <1>1, SeenPrinted
  <2>4. Seen(Settled') = T!Typed(Seen(Settled), c)
    BY <2>1, <2>2, <2>3, FinishedCases
  <2>5. c \in Char
    <3>1. todo[e] \in Seq(Range(MESSAGE)) /\ todo[e] # <<>>
      BY <1>1, <2>1 DEF Texts, Typed, Printing, Points
    <3> DEFINE s == todo[e]
    <3>2. s \in Seq(Range(MESSAGE)) /\ s # <<>>
      BY <3>1
    <3> HIDE DEF s
    <3>3. Head(s) \in Range(MESSAGE)
      BY <3>2, HeadTailProperties
    <3> QED  BY <3>3 DEF s, Char
  <2>6. Acts(Seen(Settled), Seen(Settled)', c)
    BY <2>4 DEF Acts
  <2> QED  BY <2>5, <2>6, ActsNext
<1>4. CASE scroll_return(e)
  <2>1. /\ Goes(e, "next", "scroll_test", reg[e]) /\ raced' = Disturbed
        /\ vga' = [vga EXCEPT !.pos_x = 0]
    BY <1>4 DEF scroll_return, Goes, Inside
  <2>2. Settled = vga /\ Settled' = Finished(vga', "scroll_test", reg[e], c)
    BY <2>1, BeginsSettled DEF Inside
  <2>3. Same(scroll(vga'), scroll(vga))
    BY <1>1, <2>1, ScrollAgain
  <2>4. Seen(scroll(vga)) = T!NextLine(Seen(vga))
    BY <1>1, SeenScroll
  <2>5. Finished(vga', "scroll_test", reg[e], c) = scroll(vga')
    BY FinishedCases
  <2>6. Seen(scroll(vga')) = Seen(scroll(vga))
    BY <2>3, SameSeen
  <2>7. Seen(Settled') = T!NextLine(Seen(Settled))
    BY <2>2, <2>4, <2>5, <2>6
  <2> QED  BY <2>7 DEF T!Next, T!Newline
<1> QED  BY <1>2, <1>3, <1>4

\* Nothing is printed, and nobody is stopped within a character.
LEMMA StepOther ==
    ASSUME Typed, Alone, Alone', vga' = vga,
           \A e \in Printers : Within(e)' <=> Within(e),
           \A e \in Printers : Within(e) => /\ pc'[e] = pc[e] /\ reg'[e] = reg[e]
                                            /\ todo'[e] = todo[e]
    PROVE  Seen(Settled)' = Seen(Settled)
<1>1. CASE \E e \in Printers : Within(e)
  <2>1. PICK e \in Printers : Within(e)
    BY <1>1
  <2>2. Settled' = Settled
    BY <2>1, SettledNow, SettledThen
  <2> QED  BY <2>2
<1>2. CASE ~\E e \in Printers : Within(e)
  BY <1>2, SettledNow, SettledThen
<1> QED  BY <1>1, <1>2

\* A race is not forgotten.
LEMMA RacedStays ==
    ASSUME Typed, [Next]_vars, ~raced'
    PROVE  ~raced
<1>1. raced \in BOOLEAN /\ (~Disturbed => ~raced)
  BY Zenon DEF Typed, Disturbed
<1>2. ASSUME NEW e \in Printers, user_test(e) PROVE raced' = raced \/ raced' = Disturbed
  BY <1>2 DEF user_test, load_y, load_x, put, test, inc, inc_store, scroll_return,
       scroll_test, line, line_store, copy, copy_store, wipe, Stays, Goes, Ends
<1>3. ASSUME NEW e \in Printers, destroy(e) PROVE raced' = raced
  BY <1>3 DEF destroy
<1>4. ASSUME NEW e \in Printers, create(e) PROVE raced' = raced
  BY <1>4 DEF create
<1>5. ASSUME NEW c \in Echoed, keyboard_irq_handler(c) PROVE raced' = Disturbed
  BY <1>5 DEF keyboard_irq_handler
<1>6. CASE welcome_puts \/ main \/ timer_irq_handler \/ UNCHANGED vars
  BY <1>6 DEF welcome_puts, main, timer_irq_handler, vars
<1> QED  BY <1>1, <1>2, <1>3, <1>4, <1>5, <1>6 DEF Next

\* Each step of the console is one of the terminal, or changes nothing there.
LEMMA TerminalStep ==
    ASSUME IInv, IInv', Booting, Texts, [Next]_vars, ~raced', ~CutShort
    PROVE  Seen(Settled)' = Seen(Settled) \/ T!Next
<1>1. Typed /\ Typed' /\ Alone' /\ Screen(vga) /\ Printers \subseteq Entries
  BY DEF IInv, Typed, Printers
<1>2. ~Disturbed => ~\E e \in Printers : Within(e)
  BY DEF Disturbed
<1>3. Alone
  <2>1. ~raced
    BY <1>1, RacedStays
  <2> QED  BY <2>1 DEF IInv
<1>4. CASE welcome_puts
  <2>1. Head(welcome) \in Char
    BY <1>4, HeadTailProperties DEF welcome_puts, Texts, Char
  <2>2. \A e \in Printers : ~Within(e)
    BY <1>4 DEF welcome_puts, Booting, Within
  <2> QED  BY <1>1, <1>3, <1>4, <2>1, <2>2, PutcNext DEF welcome_puts
<1>5. CASE main
  <2>1. \A e \in Printers : ~Within(e) /\ ~Within(e)'
    BY <1>5 DEF main, Booting, Within
  <2>2. Settled = vga /\ Settled' = vga'
    BY <2>1, SettledNow, SettledThen
  <2>3. Clamp(0, VGA_WIDTH) = 0 /\ Clamp(USER_ROW, VGA_HEIGHT) = USER_ROW
    BY ConsoleAssumption, VgaAssumption DEF Clamp, USER_ROW, LINES
  <2>4. vga' = [vga EXCEPT !.pos_x = 0, !.pos_y = USER_ROW]
    BY <1>5, <2>3 DEF main, vga_set_xy
  <2>5. vga'.buf = vga.buf /\ vga'.pos_x = 0 /\ vga'.pos_y = USER_ROW
    BY <1>1, <2>4 DEF Screen
  <2> DEFINE v == vga'
  <2> HIDE DEF v
  <2>6. Seen(v) = [rows |-> Rows(vga.buf), row |-> USER_ROW + 1, col |-> 1]
    BY <2>5 DEF Seen, v
  <2>7. Seen(v) = [Seen(vga) EXCEPT !.row = USER_ROW + 1, !.col = 1]
    <3> SUFFICES ASSUME NEW t, t = [Seen(vga) EXCEPT !.row = USER_ROW + 1, !.col = 1]
                 PROVE  Seen(v) = t
      OBVIOUS
    <3> QED  BY <2>6 DEF Seen
  <2> QED  BY <2>2, <2>7 DEF T!Next, T!Home, v
<1>6. ASSUME NEW e \in Printers, user_test(e)
      PROVE  Seen(Settled)' = Seen(Settled) \/ T!Next
  BY <1>1, <1>3, <1>6, StepInside, StepBegins
<1>7. ASSUME NEW e \in Printers, create(e)
      PROVE  Seen(Settled)' = Seen(Settled)
  <2>1. /\ vga' = vga /\ pc[e] = "none" /\ pc'[e] \in {"halt", "next"} /\ reg' = reg
        /\ \A f \in Printers \ {e} : pc'[f] = pc[f] /\ todo'[f] = todo[f]
    BY <1>1, <1>7 DEF create, Typed
  <2>2. \A f \in Printers : Within(f)' <=> Within(f)
    BY <2>1 DEF Within
  <2>3. \A f \in Printers : Within(f) => f # e
    BY <2>1 DEF Within
  <2> QED  BY <1>1, <1>3, <2>1, <2>2, <2>3, StepOther
<1>8. ASSUME NEW e \in Printers, destroy(e)
      PROVE  Seen(Settled)' = Seen(Settled)
  <2>1. /\ vga' = vga /\ ~Within(e) /\ pc'[e] = "none"
        /\ \A f \in Printers \ {e} : pc'[f] = pc[f] /\ todo'[f] = todo[f] /\ reg'[f] = reg[f]
    BY <1>1, <1>8 DEF destroy, Typed, CutShort
  <2>2. \A f \in Printers : Within(f)' <=> Within(f)
    BY <2>1 DEF Within
  <2> QED  BY <1>1, <1>3, <2>1, <2>2, StepOther
<1>9. ASSUME NEW c \in Echoed, keyboard_irq_handler(c) PROVE T!Next
  <2>1. c \in Char /\ vga' = vga_putc(vga, c) /\ UNCHANGED pc /\ raced' = Disturbed
    BY <1>9 DEF keyboard_irq_handler, Char
  <2> QED  BY <1>1, <1>2, <1>3, <2>1, PutcNext
<1>10. CASE timer_irq_handler
  BY <1>1, <1>3, <1>10, StepDraw DEF T!Next, T!Draw
<1>11. CASE UNCHANGED vars
  BY <1>1, <1>3, <1>11, StepOther DEF vars, Within
<1> QED
  BY <1>4, <1>5, <1>6, <1>7, <1>8, <1>9, <1>10, <1>11 DEF Next

\* The cleared screen is the empty terminal.
LEMMA TerminalInit == Init => T!Init
<1> SUFFICES ASSUME Init PROVE T!Init
  OBVIOUS
<1>1. Settled = Cleared
  BY SettledFree DEF Init, Within, Printers
<1>2. /\ Cleared.buf = [i \in Cells |-> Blank] /\ Cleared.pos_x = 0 /\ Cleared.pos_y = 0
  BY DEF Cleared
<1> DEFINE b == Cleared.buf
<1>3. ASSUME NEW y \in 1 .. VGA_HEIGHT, NEW x \in 1 .. VGA_WIDTH
      PROVE  b[Offset(x - 1, y - 1)] = Blank
  <2>1. x - 1 \in 0 .. VGA_WIDTH - 1 /\ y - 1 \in 0 .. VGA_HEIGHT - 1
    BY VgaAssumption
  <2> QED  BY <1>2, <2>1, CellOf
<1> HIDE DEF b
<1>4. Rows(b) = [y \in 1 .. VGA_HEIGHT |-> T!EmptyRow]
  BY <1>3, RowsAt DEF T!EmptyRow
<1>5. Seen(Cleared) = [rows |-> Rows(b), row |-> 1, col |-> 1]
  BY <1>2 DEF Seen, b
<1> QED  BY <1>1, <1>4, <1>5 DEF T!Init

-----------------------------------------------------------------------------
\* The theorems

THEOREM Invariance == Spec => [](IInv /\ Booting)
<1>1. Init => IInv /\ Booting
  BY InitInv, BootingInit
<1>2. IInv /\ Booting /\ [Next]_vars => (IInv /\ Booting)'
  BY StepInv, BootingStep DEF IInv
<1> QED  BY <1>1, <1>2, PTL DEF Spec

\* No step of the console, of a race neither, writes outside the screen: the
\* clamps of vga_put and the bounds of scroll's loops suffice.  The exception
\* is the loop of vga_clear, which writes the one cell behind it, before the
\* first process runs.
THEOREM TypeCorrect == Spec => []TypeOK
BY Invariance, InvImplies, PTL

\* Until two calls of vga_putc overlap, the cursor stays on the screen at each
\* step of each call, scrolling, backspaces at its corners and the destruction
\* of the process within a call included.
THEOREM CursorStays == Spec => []OnScreenUntilRaced
BY Invariance, InvImplies, PTL

\* As long as no two calls of vga_putc overlap, the console is a terminal, for
\* every size of screen: each character is where the text has come to, though
\* its printing be interrupted at any step, drawn upon and preempted, and though
\* the screen scroll beneath the drawings.  A character that its process is
\* destroyed in may be left unfinished, and the terminal goes on from there.
THEOREM TerminalCorrect == Spec => TerminalUntilRaced
<1>1. Init => IInv /\ Booting /\ Texts
  BY InitInv, BootingInit, TextsInit
<1>2. IInv /\ Booting /\ Texts /\ [Next]_vars => (IInv /\ Booting /\ Texts)'
  BY StepInv, BootingStep, TextsStep DEF IInv
<1>3. (IInv /\ Booting /\ Texts) /\ (IInv /\ Booting /\ Texts)' /\ [Next]_vars
        => [~raced' /\ ~CutShort => UNCHANGED T!vars \/ T!Next]_vars
  BY TerminalStep DEF T!vars
<1> QED  BY <1>1, <1>2, <1>3, TerminalInit, PTL DEF Spec, TerminalUntilRaced

=============================================================================
