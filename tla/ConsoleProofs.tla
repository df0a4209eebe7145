--------------------------- MODULE ConsoleProofs ----------------------------
(***************************************************************************)
(* For every screen size, text and number of interrupts: the console's     *)
(* types; as long as no handler printed inside a putchar of the boot       *)
(* thread, the cursor and the stores of putchar, and that it implements    *)
(* the teletype of Terminal; and, when one did, that still nothing is       *)
(* stored before the screen.                                               *)
(***************************************************************************)
EXTENDS Console, TLAPS

(* Offsets of cells are laid out line after line: a column of a line below *)
(* Rows is a cell of the screen.                                           *)
LEMMA OffsetBound ==
    ASSUME NEW x \in 0 .. Cols - 1, NEW y \in 0 .. Rows - 1
    PROVE  y * Cols + x \in Offsets
<1>1. Cols \in Nat /\ Cols > 0
  BY ScreenAssumption DEF Cols
<1>2. Rows \in Nat
  BY ScreenAssumption
<1>3. y * Cols \in Nat
  BY <1>1
<1>4. y * Cols + Cols <= Rows * Cols
  <2>1. (Rows - 1 - y) * Cols >= 0
    BY <1>1, <1>2
  <2> QED BY <2>1, <1>1, <1>2
<1> QED BY <1>1, <1>2, <1>3, <1>4 DEF Offsets

(* A tab from a column of the line stops at a column, or exactly behind    *)
(* the last one.                                                           *)
LEMMA TabBound ==
    ASSUME NEW x \in 0 .. Cols - 1
    PROVE  (Quotient(x, Tab) + 1) * Tab \in 0 .. Cols
<1> DEFINE q == x \div Tab
<1>1. Tab \in Nat /\ Tab > 0 /\ TabStops \in Nat /\ Cols \in Nat
  BY ScreenAssumption DEF Cols
<1>2. Quotient(x, Tab) = q
  BY <1>1 DEF Quotient
<1>3. q \in Nat /\ q * Tab <= x
  BY <1>1
<1>4. q < TabStops
  <2>1. SUFFICES ASSUME q >= TabStops PROVE FALSE
    BY <1>1, <1>3
  <2>2. (q - TabStops) * Tab >= 0
    BY <2>1, <1>1, <1>3
  <2>3. q * Tab >= TabStops * Tab
    BY <2>2, <1>1, <1>3
  <2> QED BY <2>3, <1>1, <1>3 DEF Cols
<1>5. (TabStops - 1 - q) * Tab >= 0
  BY <1>4, <1>1, <1>3
<1>6. (q + 1) * Tab <= TabStops * Tab
  BY <1>5, <1>1, <1>3
<1>7. (q + 1) * Tab \in Nat
  BY <1>1, <1>3
<1> QED BY <1>2, <1>6, <1>7, <1>1 DEF Cols

(* The line below the one being scrolled away is on the screen. *)
LEMMA NextLineBound ==
    ASSUME NEW o \in Offsets, NEW i \in Int, o \div Cols = i, i < Rows - 1
    PROVE  o + Cols \in Offsets
<1>1. Cols \in Nat /\ Cols > 0 /\ Rows \in Nat
  BY ScreenAssumption DEF Cols
<1>2. o \in Nat
  BY <1>1 DEF Offsets
<1>3. o < i * Cols + Cols
  BY <1>1, <1>2
<1>4. (Rows - 2 - i) * Cols >= 0
  BY <1>1
<1>5. i * Cols + Cols + Cols <= Rows * Cols
  BY <1>4, <1>1
<1> QED BY <1>1, <1>2, <1>3, <1>5 DEF Offsets

-----------------------------------------------------------------------------

(* A line has at least one column. *)
LEMMA ColsType == Cols \in Nat \ {0}
  BY ScreenAssumption DEF Cols

(* The division of C yields an integer. *)
LEMMA QuotientType ==
    ASSUME NEW a \in Int PROVE Quotient(a, Tab) \in Int
  BY ScreenAssumption DEF Quotient

(* What the steps of putchar(p) and the other steps leave of TypeOK. *)
LEMMA TypePutchar ==
    ASSUME TypeOK, NEW p \in Contexts, putchar(p)
    PROVE  TypeOK'
<1> USE DEF TypeOK, Cpu, Goto, MoveX, MoveY, SeenX, SeenY, Return
<1>0. \A c \in Chars : /\ Dispatch(c) \in Labels
                       /\ Dispatch(c) = "glyph" => c \in Glyphs
  BY DEF Dispatch, Labels, Chars
<1>1. CASE Enter(p)
  BY <1>0, <1>1, ScreenAssumption DEF Enter, Labels
<1>2. CASE CopyRow(p)
  BY <1>0, <1>2, NextLineBound DEF CopyRow, Labels
<1>3. CASE ScrollDec(p)
  BY <1>0, <1>3 DEF ScrollDec
<1>4. CASE NlClear(p)
  <2>1. CASE idx[p] < Cols
    <3>1. PICK y \in SeenY(p) : Poke(y * Cols + idx[p], "blank")
      BY <1>4, <2>1 DEF NlClear
    <3>2. vram' \in [Offsets -> Cells] /\ stray' \in BOOLEAN
      BY <3>1 DEF Poke, Cells
    <3> QED BY <1>4, <2>1, <3>2, ColsType DEF NlClear
  <2>2. CASE ~(idx[p] < Cols)
    BY <1>4, <2>2 DEF NlClear, Labels
  <2> QED BY <2>1, <2>2
<1>5. CASE NlRow(p)
  BY <1>0, <1>5 DEF NlRow, Labels
<1>6. CASE NlCol(p)
  BY <1>0, <1>6 DEF NlCol, Labels, Chars
<1>7. CASE TabCol(p)
  BY <1>0, <1>7, ScreenAssumption, QuotientType DEF TabCol, Labels
<1>8. CASE PutGlyph(p)
  <2>1. PICK x \in SeenX(p), y \in SeenY(p) : Poke(y * Cols + x, ch[p])
    BY <1>8 DEF PutGlyph
  <2>2. vram' \in [Offsets -> Cells] /\ stray' \in BOOLEAN
    BY <1>8, <2>1 DEF Poke, Cells, PutGlyph
  <2> QED BY <1>8, <2>2 DEF PutGlyph, Labels
<1>9. CASE Advance(p)
  BY <1>0, <1>9 DEF Advance, Labels
<1>10. CASE WrapTest(p)
  BY <1>0, <1>10 DEF WrapTest, Labels, Chars
<1>11. CASE WrapX(p)
  BY <1>0, <1>11, ColsType DEF WrapX, Labels
<1>12. CASE WrapY(p)
  BY <1>0, <1>12 DEF WrapY, Labels, Chars
<1> QED BY <1>1, <1>2, <1>3, <1>4, <1>5, <1>6, <1>7, <1>8, <1>9, <1>10, <1>11, <1>12 DEF putchar

(* The types hold initially. *)
LEMMA TypeInit == Init => TypeOK
<1> SUFFICES ASSUME Init PROVE TypeOK
  OBVIOUS
<1>1. vram \in [Offsets -> Cells] /\ before.screen = vram
  BY DEF Init, Cells
<1>2. left \in [Contexts -> Nat]
  BY BoundAssumption DEF Init, Contexts
<1>3. before \in [screen : [Offsets -> Cells], x : Int, y : Int]
  BY <1>1 DEF Init
<1> QED BY <1>1, <1>2, <1>3 DEF Init, TypeOK, Chars, Labels, Contexts

(* Every step keeps the types. *)
LEMMA TypeNext == TypeOK /\ [Next]_vars => TypeOK'
<1> SUFFICES ASSUME TypeOK, [Next]_vars PROVE TypeOK'
  OBVIOUS
<1>1. CASE \E p \in Contexts : putchar(p)
  BY <1>1, TypePutchar
<1>2. CASE Sti
  BY <1>2, BoundAssumption DEF Sti, Screen, TypeOK
<1>3. CASE Halt
  BY <1>3 DEF Halt, Screen, TypeOK, Goto, Labels
<1>4. CASE Interrupt
  BY <1>4, BoundAssumption DEF Interrupt, Screen, TypeOK, Contexts
<1>5. CASE Iret
  BY <1>5 DEF Iret, Screen, TypeOK, Contexts
<1>6. CASE UNCHANGED vars
  BY <1>6 DEF vars, TypeOK
<1> QED BY <1>1, <1>2, <1>3, <1>4, <1>5, <1>6 DEF Next

(* Every variable keeps its type. *)
THEOREM TypeCorrect == Spec => []TypeOK
<1>1. Init => TypeOK
  BY TypeInit
<1>2. TypeOK /\ [Next]_vars => TypeOK'
  BY TypeNext
<1> QED BY <1>1, <1>2, PTL DEF Spec

-----------------------------------------------------------------------------

(* While no handler tears a putchar, the contexts other than the one inside *)
(* putchar do not matter: this is what one step of putchar(p) must show.    *)
Steady(p) ==
    /\ ~torn
    /\ Inside(p)
    /\ regX[p] = m_CursorX
    /\ regY[p] = m_CursorY
    /\ pc[p] = "clear" => idx[p] >= 0
    /\ CursorAt(pc[p], m_CursorX, m_CursorY)
    /\ ~stray

(* A step from inside an untorn putchar leaves it steady, or leaves putchar *)
(* with the cursor on the screen.                                           *)
LEMMA SteadyStep ==
    ASSUME TypeOK, NEW p \in Contexts, Steady(p), putchar(p), ~Enter(p)
    PROVE  /\ ~torn'
           /\ ~stray'
           /\ Inside(p)' => Steady(p)'
           /\ ~Inside(p)' => pc'[p] = "next" /\ CursorAt("next", m_CursorX', m_CursorY')
<1> USE DEF TypeOK, Steady, Cpu, Goto, MoveX, MoveY, SeenX, SeenY, Return, Inside, CursorAt
<1>0. /\ \A c \in Chars : Dispatch(c) \in {"clear", "tab", "glyph"}
      /\ Cols \in Nat \ {0}
      /\ Rows \in Nat \ {0}
  BY ColsType, ScreenAssumption DEF Dispatch
<1>1. CASE CopyRow(p)
  BY <1>0, <1>1 DEF CopyRow
<1>2. CASE ScrollDec(p)
  BY <1>0, <1>2 DEF ScrollDec
<1>3. CASE NlClear(p)
  <2>1. CASE idx[p] < Cols
    <3>1. Poke(m_CursorY * Cols + idx[p], "blank")
      BY <1>3, <2>1 DEF NlClear
    <3>2. idx[p] \in 0 .. Cols - 1 /\ m_CursorY \in 0 .. Rows - 1
      BY <1>0, <1>3, <2>1 DEF NlClear
    <3>3. m_CursorY * Cols + idx[p] \in Offsets
      BY <3>2, OffsetBound
    <3>4. ~stray'
      BY <3>1, <3>3 DEF Poke
    <3> QED BY <1>0, <1>3, <2>1, <3>4 DEF NlClear
  <2>2. CASE ~(idx[p] < Cols)
    BY <1>0, <1>3, <2>2 DEF NlClear
  <2> QED BY <2>1, <2>2
<1>4. CASE NlRow(p)
  BY <1>0, <1>4 DEF NlRow
<1>5. CASE NlCol(p)
  BY <1>0, <1>5 DEF NlCol
<1>6. CASE TabCol(p)
  BY <1>0, <1>6, TabBound DEF TabCol
<1>7. CASE PutGlyph(p)
  <2>1. Poke(m_CursorY * Cols + m_CursorX, ch[p])
    BY <1>7 DEF PutGlyph
  <2>2. m_CursorY * Cols + m_CursorX \in Offsets
    BY <1>0, <1>7, OffsetBound DEF PutGlyph
  <2>3. ~stray'
    BY <2>1, <2>2 DEF Poke
  <2> QED BY <1>0, <1>7, <2>3 DEF PutGlyph
<1>8. CASE Advance(p)
  BY <1>0, <1>8 DEF Advance
<1>9. CASE WrapTest(p)
  BY <1>0, <1>9 DEF WrapTest
<1>10. CASE WrapX(p)
  BY <1>0, <1>10 DEF WrapX
<1>11. CASE WrapY(p)
  BY <1>0, <1>11 DEF WrapY
<1> QED BY <1>1, <1>2, <1>3, <1>4, <1>5, <1>6, <1>7, <1>8, <1>9, <1>10, <1>11 DEF putchar

(* Entering putchar between two characters of an untorn console. *)
LEMMA EnterStep ==
    ASSUME IInv, NEW p \in Contexts, Enter(p), ~torn'
    PROVE  Steady(p)' /\ \A q \in Contexts : ~Inside(q)
<1> USE DEF IInv, TypeOK
<1>1. ~torn /\ \A q \in Contexts : ~Inside(q)
  BY DEF Enter
<1>2. CursorAt("next", m_CursorX, m_CursorY) /\ ~stray
  BY <1>1 DEF CursorOnScreen, WritesOnScreen
<1>3. PICK c \in Chars : Goto(p, IF m_CursorY = Rows THEN "copy" ELSE Dispatch(c))
  BY DEF Enter
<1>4. pc'[p] \in {"copy", "clear", "tab", "glyph"} /\ (pc'[p] = "copy" <=> m_CursorY = Rows)
  BY <1>3 DEF Goto, Dispatch
<1>5. /\ regX'[p] = m_CursorX /\ regY'[p] = m_CursorY
      /\ m_CursorX' = m_CursorX /\ m_CursorY' = m_CursorY /\ stray' = stray
      /\ idx'[p] \in {0, m_CursorX}
  BY DEF Enter
<1>6. Rows \in Nat \ {0} /\ Cols \in Nat \ {0}
  BY ScreenAssumption, ColsType
<1>7. CursorAt(pc'[p], m_CursorX, m_CursorY)
  BY <1>2, <1>4, <1>6 DEF CursorAt
<1>8. Inside(p)' /\ idx'[p] >= 0
  BY <1>2, <1>4, <1>5, <1>6 DEF Inside, CursorAt
<1> QED BY <1>1, <1>2, <1>5, <1>7, <1>8 DEF Steady

(* A step of putchar moves no other context. *)
LEMMA OthersStay ==
    ASSUME TypeOK, NEW p \in Contexts, putchar(p), NEW q \in Contexts, q # p
    PROVE  pc'[q] = pc[q]
  BY DEF putchar, TypeOK, Goto, Return, Enter, CopyRow, ScrollDec, NlClear, NlRow, NlCol,
         TabCol, PutGlyph, Advance, WrapTest, WrapX, WrapY

(* Every step of putchar keeps the invariant. *)
LEMMA PutcharKeepsInv ==
    ASSUME IInv, NEW p \in Contexts, putchar(p)
    PROVE  IInv'
<1>1. TypeOK'
  BY TypePutchar DEF IInv
<1>2. running = p /\ running' = running
  BY DEF putchar, Cpu, Enter, CopyRow, ScrollDec, NlClear, NlRow, NlCol,
         TabCol, PutGlyph, Advance, WrapTest, WrapX, WrapY
<1>3. pc'[p] # "hlt"
  BY DEF IInv, putchar, TypeOK, Goto, Return, Enter, CopyRow, ScrollDec, NlClear, NlRow, NlCol,
         TabCol, PutGlyph, Advance, WrapTest, WrapX, WrapY, Dispatch
<1>4. HandlersFinish'
  BY <1>2, <1>3, OthersStay DEF IInv, HandlersFinish, Inside, Contexts
<1>5. CASE torn'
  BY <1>1, <1>4, <1>5 DEF IInv, OneInside, CopiesFresh, CursorOnScreen, WritesOnScreen
<1>6. CASE ~torn'
  <2>1. (\A q \in Contexts : q # p => ~Inside(q)') /\ ~stray'
        /\ (Inside(p)' => Steady(p)')
        /\ (~Inside(p)' => CursorAt("next", m_CursorX', m_CursorY'))
    <3>1. CASE Enter(p)
      <4>1. Steady(p)' /\ \A q \in Contexts : ~Inside(q)
        BY <1>6, <3>1, EnterStep
      <4>2. ~stray' /\ Inside(p)'
        BY <4>1 DEF Steady
      <4>3. \A q \in Contexts : q # p => ~Inside(q)'
        BY <4>1, OthersStay DEF Inside, IInv
      <4> QED BY <4>1, <4>2, <4>3
    <3>2. CASE ~Enter(p)
      <4>1. Inside(p) /\ ~torn
        BY <1>6, <3>2 DEF Inside, putchar, CopyRow, ScrollDec, NlClear, NlRow, NlCol,
           TabCol, PutGlyph, Advance, WrapTest, WrapX, WrapY
      <4>2. Steady(p)
        BY <4>1 DEF IInv, Steady, CopiesFresh, CursorOnScreen, WritesOnScreen
      <4>3. ~stray' /\ (Inside(p)' => Steady(p)')
            /\ (~Inside(p)' => CursorAt("next", m_CursorX', m_CursorY'))
        BY <3>2, <4>2, SteadyStep DEF IInv
      <4>4. \A q \in Contexts : q # p => ~Inside(q)'
        BY <4>1, OthersStay DEF Inside, IInv, OneInside
      <4> QED BY <4>3, <4>4
    <3> QED BY <3>1, <3>2
  <2>2. OneInside' /\ WritesOnScreen'
    BY <2>1 DEF OneInside, WritesOnScreen
  <2>3. CopiesFresh' /\ CursorOnScreen'
    BY <2>1 DEF CopiesFresh, CursorOnScreen, Steady
  <2> QED BY <1>1, <1>4, <2>2, <2>3 DEF IInv
<1> QED BY <1>5, <1>6

(* The other steps leave the console itself alone. *)
LEMMA OtherStepsKeepInv ==
    ASSUME IInv, Sti \/ Halt \/ Interrupt \/ Iret \/ UNCHANGED vars
    PROVE  IInv'
<1>1. TypeOK'
  BY TypeNext DEF IInv, Next
<1>2. UNCHANGED Screen
  BY DEF Sti, Halt, Interrupt, Iret, vars, Screen
<1>3. \A p \in Contexts : /\ Inside(p)' = Inside(p)
                          /\ Inside(p) => pc'[p] = pc[p]
  BY DEF IInv, TypeOK, Sti, Halt, Interrupt, Iret, vars, Goto, Inside
<1>4. HandlersFinish'
  <2>1. CASE Iret
    BY <2>1 DEF Iret, IInv, HandlersFinish, Inside
  <2>2. CASE ~Iret
    BY <1>3, <2>2 DEF IInv, TypeOK, HandlersFinish, Sti, Halt, Interrupt, vars, Goto, Contexts, Inside
  <2> QED BY <2>1, <2>2
<1>5. OneInside' /\ WritesOnScreen'
  BY <1>2, <1>3 DEF IInv, OneInside, WritesOnScreen, Screen
<1>6. CopiesFresh'
  BY <1>2, <1>3 DEF IInv, CopiesFresh, Screen
<1>7. CursorOnScreen'
  BY <1>2, <1>3 DEF IInv, CursorOnScreen, Screen
<1> QED BY <1>1, <1>4, <1>5, <1>6, <1>7 DEF IInv

(* The invariant holds initially. *)
LEMMA InvInit == Init => IInv
<1> SUFFICES ASSUME Init PROVE IInv
  OBVIOUS
<1>1. TypeOK
  BY TypeInit
<1>2. \A p \in Contexts : ~Inside(p)
  BY DEF Init, Inside
<1>3. CursorAt("next", m_CursorX, m_CursorY)
  BY ColsType, ScreenAssumption DEF Init, CursorAt
<1> QED BY <1>1, <1>2, <1>3 DEF Init, IInv, HandlersFinish, OneInside, CopiesFresh,
                               CursorOnScreen, WritesOnScreen, Contexts

(* The inductive invariant. *)
THEOREM ConsoleInvariant == Spec => []IInv
<1>1. IInv /\ [Next]_vars => IInv'
  BY PutcharKeepsInv, OtherStepsKeepInv DEF Next
<1> QED BY InvInit, <1>1, PTL DEF Spec

(* For every screen size, text and interrupt load: as long as no handler    *)
(* prints inside a putchar of the boot thread, the cursor of printk.c stays *)
(* where its code expects it.                                               *)
THEOREM CursorCorrect == Spec => []CursorOnScreen
<1>1. IInv => CursorOnScreen
  BY DEF IInv
<1> QED BY ConsoleInvariant, <1>1, PTL

(* ... and putchar stores only into cells of the screen. *)
THEOREM WritesCorrect == Spec => []WritesOnScreen
<1>1. IInv => WritesOnScreen
  BY DEF IInv
<1> QED BY ConsoleInvariant, <1>1, PTL

-----------------------------------------------------------------------------
(* Torn or not, nothing is stored before the screen.                       *)

(* A column below zero comes with a row to take it back from. *)
MemoryBelow ==
    /\ m_CursorX >= -Cols
    /\ m_CursorY >= 0
    /\ m_CursorX < 0 => m_CursorY >= 1

(* A handler is not interrupted: its copies are what memory holds. *)
HandlerBelow ==
    Inside("irq") =>
        /\ regX["irq"] = m_CursorX
        /\ regY["irq"] = m_CursorY
        /\ pc["irq"] \in {"copy", "dec"} => m_CursorY = Rows
        /\ pc["irq"] = "clear" => /\ idx["irq"] >= -Cols
                                  /\ idx["irq"] < 0 => m_CursorY >= 1
        /\ pc["irq"] = "nlcol" => m_CursorY >= 1
        /\ pc["irq"] = "wrapx" => m_CursorX >= Cols

(* The boot thread is about to wrap a column it saw at the line's end: if a *)
(* handler ended that line first, it has taken, or is to take, a new row.   *)
Overtaken ==
    /\ m_CursorX >= 0
    /\ m_CursorX < Cols => m_CursorY >= 1 \/ pc["irq"] = "wrapy"

(* It saw a column of the line: handlers do not leave it beyond the end. *)
NotReached == m_CursorX < Cols \/ (m_CursorX = Cols /\ pc["irq"] \in {"wrap", "wrapx"})

(* The boot thread's copies may be stale, but where they tell it a column   *)
(* below zero, both its copy of the row and the row in memory are positive. *)
MainBelow ==
    Inside("main") =>
        /\ regX["main"] >= -Cols
        /\ regY["main"] >= 0
        /\ pc["main"] # "wrapy" =>
              /\ m_CursorX < 0 => regX["main"] < 0
              /\ regX["main"] < 0 => regY["main"] >= 1 /\ m_CursorY >= 1
        /\ pc["main"] \in {"copy", "dec"} => regY["main"] = Rows /\ m_CursorY >= Rows - 1
        /\ pc["main"] = "clear" => /\ idx["main"] >= -Cols
                                   /\ idx["main"] < 0 => regX["main"] < 0
        /\ pc["main"] = "wrap" => IF regX["main"] < Cols THEN NotReached ELSE Overtaken
        /\ pc["main"] = "wrapx" => regX["main"] >= Cols /\ Overtaken

BelowInv == TypeOK /\ HandlersFinish /\ MemoryBelow /\ HandlerBelow /\ MainBelow

(* A tab stop behind a column, of the line or below zero. *)
LEMMA TabBelow ==
    ASSUME NEW x \in Int
    PROVE  /\ (Quotient(x, Tab) + 1) * Tab \in Int
           /\ x >= -Cols => (Quotient(x, Tab) + 1) * Tab >= -Cols
           /\ x >= 0 => (Quotient(x, Tab) + 1) * Tab > x
           /\ x < Cols => (Quotient(x, Tab) + 1) * Tab <= Cols
<1> DEFINE q == Quotient(x, Tab)
<1>1. Tab \in Nat /\ Tab > 0 /\ TabStops \in Nat /\ TabStops > 0 /\ Cols \in Nat
  BY ScreenAssumption DEF Cols
<1>2. CASE x >= 0
  <2>1. q = x \div Tab /\ q \in Nat
    BY <1>1, <1>2 DEF Quotient
  <2>2. (q + 1) * Tab > x /\ (q + 1) * Tab \in Nat
    BY <2>1, <1>1, <1>2
  <2>3. x < Cols => (q + 1) * Tab <= Cols
    BY <1>2, <1>1, TabBound
  <2> QED BY <2>2, <2>3, <1>1, <1>2
<1>3. CASE x < 0
  <2> DEFINE n == (-x) \div Tab
  <2>1. q = -n /\ n \in Nat /\ n * Tab <= -x
    BY <1>1, <1>3 DEF Quotient
  <2>2. (q + 1) * Tab = Tab - n * Tab /\ n * Tab \in Nat
    BY <2>1, <1>1
  <2>3. Tab <= Cols
    <3>1. (TabStops - 1) * Tab >= 0
      BY <1>1
    <3> QED BY <3>1, <1>1 DEF Cols
  <2> QED BY <2>1, <2>2, <2>3, <1>1, <1>3
<1> QED BY <1>2, <1>3

(* A column that is not below the line above is not before the screen. *)
LEMMA CellBelow ==
    ASSUME NEW x \in Int, NEW y \in Int, x >= -Cols, y >= 0, x < 0 => y >= 1
    PROVE  y * Cols + x >= 0
<1>1. Cols \in Nat \ {0}
  BY ColsType
<1>2. CASE x >= 0
  BY <1>1, <1>2
<1>3. CASE x < 0
  <2>1. (y - 1) * Cols >= 0
    BY <1>1, <1>3
  <2>2. y * Cols >= Cols
    BY <2>1, <1>1
  <2> QED BY <2>2, <1>1
<1> QED BY <1>2, <1>3

(* A handler's step of putchar. *)
LEMMA HandlerKeepsBelow ==
    ASSUME Rows >= 3, BelowInv, putchar("irq")
    PROVE  MemoryBelow' /\ HandlerBelow' /\ MainBelow'
<1> USE DEF BelowInv, MemoryBelow, HandlerBelow, MainBelow, Overtaken, NotReached, TypeOK,
            Cpu, Goto, MoveX, MoveY, SeenX, SeenY, Return, Inside
<1>0. /\ \A c \in Chars : Dispatch(c) \in {"clear", "tab", "glyph"}
      /\ Cols \in Nat \ {0}
      /\ Rows \in Nat \ {0}
      /\ "irq" \in Contexts /\ "main" \in Contexts
  BY ColsType, ScreenAssumption DEF Dispatch, Contexts
<1>1. CASE Enter("irq")
  BY <1>0, <1>1 DEF Enter
<1>2. CASE CopyRow("irq")
  BY <1>0, <1>2 DEF CopyRow
<1>3. CASE ScrollDec("irq")
  BY <1>0, <1>3 DEF ScrollDec
<1>4. CASE NlClear("irq")
  BY <1>0, <1>4 DEF NlClear
<1>5. CASE NlRow("irq")
  BY <1>0, <1>5 DEF NlRow
<1>6. CASE NlCol("irq")
  BY <1>0, <1>6 DEF NlCol
<1>7. CASE TabCol("irq")
  BY <1>0, <1>7, TabBelow DEF TabCol
<1>8. CASE PutGlyph("irq")
  BY <1>0, <1>8 DEF PutGlyph
<1>9. CASE Advance("irq")
  BY <1>0, <1>9 DEF Advance
<1>10. CASE WrapTest("irq")
  BY <1>0, <1>10 DEF WrapTest
<1>11. CASE WrapX("irq")
  BY <1>0, <1>11 DEF WrapX
<1>12. CASE WrapY("irq")
  BY <1>0, <1>12 DEF WrapY
<1> QED BY <1>1, <1>2, <1>3, <1>4, <1>5, <1>6, <1>7, <1>8, <1>9, <1>10, <1>11, <1>12 DEF putchar

(* A step of the boot thread's putchar, with stale copies or fresh ones. *)
LEMMA MainKeepsBelow ==
    ASSUME Rows >= 3, BelowInv, putchar("main")
    PROVE  MemoryBelow' /\ HandlerBelow' /\ MainBelow'
<1> USE DEF BelowInv, MemoryBelow, HandlerBelow, MainBelow, Overtaken, NotReached, TypeOK,
            Cpu, Goto, MoveX, MoveY, SeenX, SeenY, Return, Inside, HandlersFinish
<1>0. /\ \A c \in Chars : Dispatch(c) \in {"clear", "tab", "glyph"}
      /\ Cols \in Nat \ {0}
      /\ Rows \in Nat \ {0}
      /\ "irq" \in Contexts /\ "main" \in Contexts
  BY ColsType, ScreenAssumption DEF Dispatch, Contexts
<1>1. CASE Enter("main")
  BY <1>0, <1>1 DEF Enter
<1>2. CASE CopyRow("main")
  BY <1>0, <1>2 DEF CopyRow
<1>3. CASE ScrollDec("main")
  BY <1>0, <1>3 DEF ScrollDec
<1>4. CASE NlClear("main")
  BY <1>0, <1>4 DEF NlClear
<1>5. CASE NlRow("main")
  BY <1>0, <1>5 DEF NlRow
<1>6. CASE NlCol("main")
  BY <1>0, <1>6 DEF NlCol
<1>7. CASE TabCol("main")
  BY <1>0, <1>7, TabBelow DEF TabCol
<1>8. CASE PutGlyph("main")
  BY <1>0, <1>8 DEF PutGlyph
<1>9. CASE Advance("main")
  BY <1>0, <1>9 DEF Advance
<1>10. CASE WrapTest("main")
  BY <1>0, <1>10 DEF WrapTest
<1>11. CASE WrapX("main")
  BY <1>0, <1>11 DEF WrapX
<1>12. CASE WrapY("main")
  BY <1>0, <1>12 DEF WrapY
<1> QED BY <1>1, <1>2, <1>3, <1>4, <1>5, <1>6, <1>7, <1>8, <1>9, <1>10, <1>11, <1>12 DEF putchar

(* The other steps leave the cursor and its copies alone. *)
LEMMA OthersKeepBelow ==
    ASSUME BelowInv, Sti \/ Halt \/ Interrupt \/ Iret \/ UNCHANGED vars
    PROVE  MemoryBelow' /\ HandlerBelow' /\ MainBelow'
<1>1. UNCHANGED <<m_CursorX, m_CursorY, regX, regY, idx>> /\ pc'["irq"] = pc["irq"]
  BY DEF Sti, Halt, Interrupt, Iret, vars, Screen, Goto, BelowInv, TypeOK, Contexts
<1>2. pc'["main"] = pc["main"] \/ ~Inside("main")'
  BY DEF Sti, Halt, Interrupt, Iret, vars, Screen, Goto, BelowInv, TypeOK, Contexts, Inside
<1> QED BY <1>1, <1>2 DEF BelowInv, MemoryBelow, HandlerBelow, MainBelow, Overtaken, NotReached, Inside

(* The inductive invariant of a console that may be torn. *)
LEMMA BelowNext ==
    ASSUME Rows >= 3, IInv, BelowInv, [Next]_vars
    PROVE  BelowInv'
<1>1. TypeOK' /\ HandlersFinish'
  BY PutcharKeepsInv, OtherStepsKeepInv DEF Next, IInv
<1>2. MemoryBelow' /\ HandlerBelow' /\ MainBelow'
  BY HandlerKeepsBelow, MainKeepsBelow, OthersKeepBelow DEF Next, Contexts
<1> QED BY <1>1, <1>2 DEF BelowInv

(* What the invariant says of the stores. *)
LEMMA BelowSuffices == BelowInv => NeverBeforeScreen
<1> SUFFICES ASSUME BelowInv, NEW p \in Contexts
             PROVE  /\ pc[p] = "glyph" => \A x \in SeenX(p), y \in SeenY(p) : y * Cols + x >= 0
                    /\ pc[p] = "clear" /\ idx[p] < Cols => \A y \in SeenY(p) : y * Cols + idx[p] >= 0
  BY DEF NeverBeforeScreen
<1>1. Cols \in Nat \ {0}
  BY ColsType
<1>2. ASSUME pc[p] \in {"glyph", "clear"}, NEW y \in SeenY(p)
      PROVE  /\ \A x \in SeenX(p) : x \in Int /\ x >= -Cols /\ (x < 0 => y >= 1)
             /\ pc[p] = "clear" => idx[p] >= -Cols /\ (idx[p] < 0 => y >= 1)
             /\ y \in Int /\ y >= 0 /\ idx[p] \in Int
  BY <1>1, <1>2 DEF BelowInv, MemoryBelow, HandlerBelow, MainBelow, TypeOK, SeenX, SeenY, Inside, Contexts
<1> QED BY <1>2, CellBelow

(* On a screen of three lines or more, whatever handlers print inside a     *)
(* putchar of the boot thread, no store falls before VGABASE.               *)
THEOREM NothingBeforeScreen ==
    ASSUME Rows >= 3
    PROVE  Spec => []NeverBeforeScreen
<1>1. Init => BelowInv
  <2>1. Init => TypeOK /\ HandlersFinish
    BY InvInit DEF IInv
  <2> QED BY <2>1, ColsType DEF Init, BelowInv, MemoryBelow, HandlerBelow, MainBelow, Inside, Contexts
<1>2. IInv /\ BelowInv /\ [Next]_vars => BelowInv'
  BY BelowNext
<1> QED BY <1>1, <1>2, BelowSuffices, ConsoleInvariant, PTL DEF Spec

-----------------------------------------------------------------------------
(* Console implements Terminal: whatever the order of its reads and writes, *)
(* an untorn putchar takes effect as one character of the teletype, at the  *)
(* step that leaves putchar.                                               *)


(* What the console may be between two characters of an untorn print. *)
Consoles == [screen : [Offsets -> Cells], x : 0 .. Cols - 1, y : 0 .. Rows]

(* The line a character printed on console b lands on. *)
Target(b) == IF b.y = Rows THEN Rows - 1 ELSE b.y

(* A screen whose first n lines were overwritten by the lines below them. *)
Scrolled(scr, n) ==
    [o \in Offsets |-> IF o \div Cols < n THEN scr[o + Cols] ELSE scr[o]]

(* The screen with room made for the character. *)
Made(b) == IF b.y = Rows THEN Scrolled(b.screen, Rows - 1) ELSE b.screen

(* ... with the target line blank from the cursor to before column n, and  *)
(* with a glyph at the cursor.                                             *)
Blanked(b, n) ==
    [o \in Offsets |-> IF o \in Target(b) * Cols + b.x .. Target(b) * Cols + n - 1
                       THEN "blank" ELSE Made(b)[o]]
Written(b, c) == [Made(b) EXCEPT ![Target(b) * Cols + b.x] = c]

(* What a tab or a glyph leaves on the screen, and the column behind it. *)
Result(b, c) == IF c = "tab" THEN Made(b) ELSE Written(b, c)
Behind(b, c) == IF c = "tab" THEN (b.x \div Tab + 1) * Tab ELSE b.x + 1

Holds(scr, x, y) == vram = scr /\ m_CursorX = x /\ m_CursorY = y

(* How far putchar has got at each of its labels, told from the console    *)
(* before it and the character.                                            *)
ScrollProgress(p) ==
    /\ pc[p] \in {"copy", "dec"} => before.y = Rows
    /\ pc[p] = "copy" => /\ idx[p] \in 0 .. Rows - 1
                         /\ Holds(Scrolled(before.screen, idx[p]), before.x, Rows)
    /\ pc[p] = "dec"  => Holds(Made(before), before.x, Rows)

NewlineProgress(p) ==
    /\ pc[p] \in {"clear", "nlrow", "nlcol"} => ch[p] = "nl"
    /\ pc[p] = "clear" => /\ idx[p] \in before.x .. Cols
                          /\ Holds(Blanked(before, idx[p]), before.x, Target(before))
    /\ pc[p] = "nlrow" => Holds(Blanked(before, Cols), before.x, Target(before))
    /\ pc[p] = "nlcol" => Holds(Blanked(before, Cols), before.x, Target(before) + 1)

CellProgress(p) ==
    /\ pc[p] = "tab"     => ch[p] = "tab" /\ Holds(Made(before), before.x, Target(before))
    /\ pc[p] = "glyph"   => ch[p] \in Glyphs /\ Holds(Made(before), before.x, Target(before))
    /\ pc[p] = "advance" => ch[p] \in Glyphs /\ Holds(Written(before, ch[p]), before.x, Target(before))

WrapProgress(p) ==
    /\ pc[p] \in {"wrap", "wrapx", "wrapy"} => ch[p] \in Glyphs \cup {"tab"}
    /\ pc[p] = "wrap" => Holds(Result(before, ch[p]), Behind(before, ch[p]), Target(before))
    /\ pc[p] \in {"wrapx", "wrapy"} => Behind(before, ch[p]) = Cols
    /\ pc[p] = "wrapx" => Holds(Result(before, ch[p]), Cols, Target(before))
    /\ pc[p] = "wrapy" => Holds(Result(before, ch[p]), 0, Target(before))

Progress(p) ==
    /\ before \in Consoles
    /\ ScrollProgress(p)
    /\ NewlineProgress(p)
    /\ CellProgress(p)
    /\ WrapProgress(p)

InProgress == ~torn => \A p \in Contexts : Inside(p) => Progress(p)

-----------------------------------------------------------------------------
(* Where cells lie. *)

(* A cell has one line and one column. *)
LEMMA CellPlace ==
    ASSUME NEW l \in Nat, NEW m \in Nat, NEW j \in 0 .. Cols - 1, NEW k \in 0 .. Cols - 1,
           l * Cols + j = m * Cols + k
    PROVE  l = m /\ j = k
<1> DEFINE N == Cols
<1>0. N \in Nat \ {0}
  BY ColsType
<1> HIDE DEF N
<1>1. ASSUME NEW a \in Nat, NEW b \in Nat, NEW u \in 0 .. N - 1, NEW v \in 0 .. N - 1,
             a * N + u = b * N + v, a < b
      PROVE  FALSE
  <2>1. (b - 1 - a) * N >= 0
    BY <1>0, <1>1
  <2>2. b * N >= a * N + N
    BY <2>1, <1>0, <1>1
  <2>3. a * N \in Int /\ b * N \in Int
    BY <1>0, <1>1
  <2> QED BY <2>2, <2>3, <1>0, <1>1
<1>2. l * N + j = m * N + k /\ j \in 0 .. N - 1 /\ k \in 0 .. N - 1
  BY DEF N
<1>3. ~(l < m) /\ ~(m < l)
  BY <1>1, <1>2
<1>4. l = m
  BY <1>3
<1>5. l * N \in Int
  BY <1>0
<1> QED BY <1>2, <1>4, <1>5, <1>0

(* The line of a cell is the quotient of its offset. *)
LEMMA LineOf ==
    ASSUME NEW l \in Nat, NEW k \in 0 .. Cols - 1
    PROVE  (l * Cols + k) \div Cols = l
<1> DEFINE o == l * Cols + k
           q == o \div Cols
<1>0. Cols \in Nat \ {0}
  BY ColsType
<1>1. o \in Nat
  BY <1>0
<1>2. q \in Nat /\ o = q * Cols + (o % Cols) /\ o % Cols \in 0 .. Cols - 1
  <2> HIDE DEF o
  <2>1. q \in Nat /\ o = Cols * q + (o % Cols) /\ o % Cols \in 0 .. Cols - 1
    BY <1>0, <1>1
  <2>2. Cols * q = q * Cols
    BY <2>1, <1>0
  <2> QED BY <2>1, <2>2
<1>3. l * Cols + k = q * Cols + (o % Cols)
  BY <1>2
<1>4. l = q
  <2> HIDE DEF q, o
  <2> QED BY <1>2, <1>3, CellPlace
<1> QED BY <1>4

(* A cell of the screen, by line and column. *)
LEMMA CellOf ==
    ASSUME NEW o \in Offsets
    PROVE  \E l \in 0 .. Rows - 1, k \in 0 .. Cols - 1 : o = l * Cols + k /\ o \div Cols = l
<1> DEFINE q == o \div Cols
<1>0. Cols \in Nat \ {0} /\ Rows \in Nat \ {0}
  BY ColsType, ScreenAssumption
<1>1. o \in Nat /\ o < Rows * Cols /\ Rows * Cols \in Nat
  BY <1>0 DEF Offsets
<1>2. q \in Nat /\ o = Cols * q + (o % Cols) /\ o % Cols \in 0 .. Cols - 1
  BY <1>0, <1>1
<1>3. Cols * q = q * Cols /\ q * Cols \in Nat
  BY <1>2, <1>0
<1>4. ~(Rows <= q)
  <2>1. SUFFICES ASSUME Rows <= q PROVE FALSE
    OBVIOUS
  <2>2. (q - Rows) * Cols >= 0
    BY <2>1, <1>0, <1>2
  <2>3. q * Cols >= Rows * Cols
    BY <2>2, <1>0, <1>2
  <2> QED BY <2>3, <1>1, <1>2, <1>3
<1>5. q \in 0 .. Rows - 1
  BY <1>0, <1>2, <1>4
<1> QED BY <1>2, <1>3, <1>5

(* Moving one more line up. *)
LEMMA ScrollOne ==
    ASSUME NEW scr \in [Offsets -> Cells], NEW n \in 0 .. Rows - 2
    PROVE  Scrolled(scr, n + 1) =
             [o \in Offsets |-> IF o \div Cols = n THEN Scrolled(scr, n)[o + Cols]
                                                   ELSE Scrolled(scr, n)[o]]
<1>0. Cols \in Nat \ {0} /\ Rows \in Nat \ {0}
  BY ColsType, ScreenAssumption
<1>1. ASSUME NEW o \in Offsets
      PROVE  Scrolled(scr, n + 1)[o] =
               IF o \div Cols = n THEN Scrolled(scr, n)[o + Cols] ELSE Scrolled(scr, n)[o]
  <2>1. PICK l \in 0 .. Rows - 1, k \in 0 .. Cols - 1 : o = l * Cols + k /\ o \div Cols = l
    BY CellOf
  <2>2. CASE l = n
    <3>1. o + Cols \in Offsets
      BY <1>0, <2>1, <2>2, NextLineBound
    <3>2. o + Cols = (l + 1) * Cols + k
      BY <1>0, <2>1
    <3>3. (o + Cols) \div Cols = l + 1
      BY <3>2, <1>0, LineOf
    <3> QED BY <2>1, <2>2, <3>1, <3>3 DEF Scrolled
  <2>3. CASE l # n
    <3>1. l < n + 1 <=> l < n
      BY <2>3
    <3> QED BY <2>1, <2>3, <3>1 DEF Scrolled
  <2> QED BY <2>2, <2>3
<1> QED BY <1>1 DEF Scrolled

(* No line moved yet. *)
LEMMA ScrollNone ==
    ASSUME NEW scr \in [Offsets -> Cells] PROVE Scrolled(scr, 0) = scr
<1>1. ASSUME NEW o \in Offsets PROVE ~(o \div Cols < 0)
  BY CellOf, ScreenAssumption
<1> QED BY <1>1 DEF Scrolled

(* The fields of such a console. *)
LEMMA ConsoleFields ==
    ASSUME NEW b \in Consoles
    PROVE  /\ b.screen \in [Offsets -> Cells]
           /\ b.x \in 0 .. Cols - 1 /\ b.x \in Nat
           /\ b.y \in 0 .. Rows
  BY ColsType DEF Consoles

(* What the progress of putchar is told from has the right types. *)
LEMMA MadeType ==
    ASSUME NEW b \in Consoles
    PROVE  /\ Target(b) \in 0 .. Rows - 1
           /\ Made(b) \in [Offsets -> Cells]
           /\ Target(b) * Cols + b.x \in Offsets
<1>0. Cols \in Nat \ {0} /\ Rows \in Nat \ {0}
  BY ColsType, ScreenAssumption
<1>1. Target(b) \in 0 .. Rows - 1
  BY <1>0, ConsoleFields DEF Target
<1>2. b.screen \in [Offsets -> Cells]
  BY DEF Consoles
<1>3. ASSUME NEW o \in Offsets PROVE o \div Cols < Rows - 1 => o + Cols \in Offsets
  BY CellOf, NextLineBound, ScreenAssumption
<1>4. Made(b) \in [Offsets -> Cells]
  BY <1>2, <1>3 DEF Made, Scrolled
<1> QED BY <1>1, <1>4, OffsetBound, ConsoleFields

(* Blanking one more cell of the line. *)
LEMMA BlankOne ==
    ASSUME NEW b \in Consoles,
           NEW n \in b.x .. Cols - 1
    PROVE  [Blanked(b, n) EXCEPT ![Target(b) * Cols + n] = "blank"] = Blanked(b, n + 1)
<1> DEFINE base == Target(b) * Cols
<1>0. Cols \in Nat \ {0} /\ Rows \in Nat \ {0}
  BY ColsType, ScreenAssumption
<1>1. base \in Int
  BY <1>0, MadeType
<1>2. base + n \in Offsets
  <2>1. n \in 0 .. Cols - 1 /\ Target(b) \in 0 .. Rows - 1
    BY <1>0, MadeType, ConsoleFields
  <2> QED BY <2>1, OffsetBound
<1>3. Blanked(b, n) = [o \in Offsets |-> IF o \in base + b.x .. base + n - 1
                                      THEN "blank" ELSE Made(b)[o]]
      /\ Blanked(b, n + 1) = [o \in Offsets |-> IF o \in base + b.x .. base + (n + 1) - 1
                                      THEN "blank" ELSE Made(b)[o]]
  BY DEF Blanked
<1>4. b.x \in Int /\ n \in Int /\ b.x <= n /\ Offsets \subseteq Int
  BY <1>0, ConsoleFields DEF Offsets
<1> HIDE DEF base
<1>5. ASSUME NEW o \in Offsets
      PROVE  o \in base + b.x .. base + (n + 1) - 1
               <=> o \in base + b.x .. base + n - 1 \/ o = base + n
  BY <1>1, <1>4
<1>6. [Blanked(b, n) EXCEPT ![base + n] = "blank"] = Blanked(b, n + 1)
  BY <1>2, <1>3, <1>5
<1> QED BY <1>6 DEF base

(* No cell blanked yet. *)
LEMMA BlankNone ==
    ASSUME NEW b \in Consoles
    PROVE  Blanked(b, b.x) = Made(b)
<1>1. Target(b) * Cols \in Int /\ b.x \in Int
  BY MadeType, ConsoleFields, ColsType, ScreenAssumption
<1> DEFINE base == Target(b) * Cols
<1>2. ASSUME NEW o \in Offsets PROVE o \notin base + b.x .. base + b.x - 1
  <2> HIDE DEF base
  <2> QED BY <1>1 DEF base
<1> QED BY <1>2, MadeType DEF Blanked


-----------------------------------------------------------------------------
(* The steps inside putchar. *)

(* Entering putchar between two characters. *)
LEMMA ProgressEnter ==
    ASSUME IInv, NEW p \in Contexts, Enter(p), ~torn'
    PROVE  Progress(p)'
<1>0. Cols \in Nat \ {0} /\ Rows \in Nat \ {0}
  BY ColsType, ScreenAssumption
<1>1. ~torn /\ \A q \in Contexts : ~Inside(q)
  BY DEF Enter
<1>2. m_CursorX \in 0 .. Cols - 1 /\ m_CursorY \in 0 .. Rows /\ TypeOK
  BY <1>1 DEF IInv, CursorOnScreen, CursorAt
<1>3. /\ before' = [screen |-> vram, x |-> m_CursorX, y |-> m_CursorY]
      /\ vram' = vram /\ m_CursorX' = m_CursorX /\ m_CursorY' = m_CursorY
      /\ idx'[p] = IF m_CursorY = Rows THEN 0 ELSE m_CursorX
  BY <1>2 DEF Enter, TypeOK
<1>4. PICK c \in Chars : /\ ch'[p] = c
                         /\ pc'[p] = IF m_CursorY = Rows THEN "copy" ELSE Dispatch(c)
  BY <1>2 DEF Enter, Goto, TypeOK
<1>5. before'.screen = vram /\ before'.x = m_CursorX /\ before'.y = m_CursorY
      /\ before' \in Consoles
  BY <1>2, <1>3 DEF Consoles, TypeOK
<1>6. CASE m_CursorY = Rows
  <2>1. pc'[p] = "copy" /\ idx'[p] = 0
    BY <1>3, <1>4, <1>6
  <2>2. Scrolled(vram, 0) = vram
    BY <1>2, ScrollNone DEF TypeOK
  <2> QED BY <2>1, <2>2, <1>0, <1>2, <1>3, <1>5, <1>6
       DEF Progress, ScrollProgress, NewlineProgress, CellProgress, WrapProgress, Holds
<1>7. CASE m_CursorY # Rows
  <2>1. pc'[p] = Dispatch(ch'[p]) /\ idx'[p] = m_CursorX /\ ch'[p] \in Chars
    BY <1>3, <1>4, <1>7
  <2>2. Made(before') = vram /\ Target(before') = m_CursorY
    BY <1>5, <1>7 DEF Made, Target
  <2>3. Blanked(before', m_CursorX) = vram
    BY <1>5, <2>2, BlankNone
  <2> QED BY <2>1, <2>2, <2>3, <1>0, <1>2, <1>3, <1>5
       DEF Progress, ScrollProgress, NewlineProgress, CellProgress, WrapProgress, Holds,
           Dispatch, Chars
<1> QED BY <1>6, <1>7

(* A step that stays inside an untorn putchar. *)
LEMMA ProgressStep ==
    ASSUME TypeOK, NEW p \in Contexts, Steady(p), Progress(p), putchar(p), ~Enter(p), Inside(p)'
    PROVE  Progress(p)'
<1> DEFINE b == before
<1> USE DEF Goto, MoveX, MoveY, SeenX, SeenY, Steady
<1>0. /\ Cols \in Nat \ {0} /\ Rows \in Nat \ {0}
      /\ b \in Consoles /\ b' = b
  BY ColsType, ScreenAssumption
     DEF Progress, putchar, CopyRow, ScrollDec, NlClear, NlRow, NlCol,
         TabCol, PutGlyph, Advance, WrapTest, WrapX, WrapY
<1>a. /\ b.screen \in [Offsets -> Cells] /\ b.x \in 0 .. Cols - 1 /\ b.x \in Nat /\ b.y \in 0 .. Rows
      /\ Target(b) \in 0 .. Rows - 1 /\ Made(b) \in [Offsets -> Cells]
  BY <1>0, ConsoleFields, MadeType
<1>b. /\ pc \in [Contexts -> Labels] /\ ch \in [Contexts -> Chars] /\ idx \in [Contexts -> Int]
      /\ regX \in [Contexts -> Int] /\ regY \in [Contexts -> Int]
      /\ m_CursorX \in Int /\ m_CursorY \in Int /\ vram \in [Offsets -> Cells]
  BY DEF TypeOK
<1> HIDE DEF b
<1>c. /\ ScrollProgress(p) /\ NewlineProgress(p) /\ CellProgress(p) /\ WrapProgress(p)
      /\ before = b /\ before' = b
  BY <1>0 DEF Progress, b
<1>1. CASE CopyRow(p)
  <2>1. pc[p] = "copy" /\ b.y = Rows /\ idx[p] \in 0 .. Rows - 1
        /\ Holds(Scrolled(b.screen, idx[p]), b.x, Rows)
    BY <1>1, <1>c DEF CopyRow, ScrollProgress
  <2>2. CASE idx[p] < Rows - 1
    <3>1. /\ vram' = [o \in Offsets |-> IF o \div Cols = idx[p] THEN vram[o + Cols] ELSE vram[o]]
          /\ idx'[p] = idx[p] + 1 /\ pc'[p] = "copy"
          /\ m_CursorX' = b.x /\ m_CursorY' = Rows
      BY <1>1, <2>1, <2>2, <1>b DEF CopyRow, Holds
    <3>2. idx[p] \in 0 .. Rows - 2 /\ idx[p] + 1 \in 0 .. Rows - 1
      BY <2>1, <2>2, <1>0
    <3>3. vram' = Scrolled(b.screen, idx[p] + 1)
      BY <3>1, <3>2, <2>1, <1>a, ScrollOne DEF Holds
    <3> QED BY <3>1, <3>2, <3>3, <2>1, <1>0, <1>c
         DEF Progress, ScrollProgress, NewlineProgress, CellProgress, WrapProgress, Holds
  <2>3. CASE ~(idx[p] < Rows - 1)
    <3>1. idx[p] = Rows - 1 /\ pc'[p] = "dec" /\ vram' = vram
          /\ m_CursorX' = b.x /\ m_CursorY' = Rows
      BY <1>0, <1>1, <2>1, <2>3, <1>b DEF CopyRow, Holds
    <3>2. vram = Made(b)
      BY <2>1, <3>1 DEF Holds, Made
    <3> QED BY <3>1, <3>2, <2>1, <1>0, <1>c
         DEF Progress, ScrollProgress, NewlineProgress, CellProgress, WrapProgress, Holds
  <2> QED BY <2>2, <2>3
<1>2. CASE ScrollDec(p)
  <2>1. pc[p] = "dec" /\ b.y = Rows /\ Holds(Made(b), b.x, Rows)
    BY <1>2, <1>c DEF ScrollDec, ScrollProgress
  <2>2. /\ m_CursorX' = b.x /\ m_CursorY' = Rows - 1 /\ vram' = Made(b)
        /\ idx'[p] = b.x /\ pc'[p] = Dispatch(ch[p]) /\ ch' = ch
    BY <1>2, <2>1, <1>b DEF ScrollDec, Holds
  <2>3. Target(b) = Rows - 1 /\ Blanked(b, b.x) = Made(b)
    BY <2>1, <1>0, BlankNone DEF Target
  <2> QED BY <2>2, <2>3, <1>0, <1>a, <1>b, <1>c
       DEF Progress, ScrollProgress, NewlineProgress, CellProgress, WrapProgress, Holds,
           Dispatch, Chars
<1>3. CASE NlClear(p)
  <2>1. pc[p] = "clear" /\ ch[p] = "nl" /\ idx[p] \in b.x .. Cols
        /\ Holds(Blanked(b, idx[p]), b.x, Target(b))
    BY <1>3, <1>c DEF NlClear, NewlineProgress
  <2>2. CASE idx[p] < Cols
    <3>1. Poke(m_CursorY * Cols + idx[p], "blank")
      BY <1>3, <2>2 DEF NlClear
    <3>2. idx[p] \in b.x .. Cols - 1 /\ idx[p] \in 0 .. Cols - 1 /\ idx[p] + 1 \in b.x .. Cols
      BY <2>1, <2>2, <1>0, <1>a
    <3>3. Target(b) * Cols + idx[p] \in Offsets
      BY <3>2, <1>a, OffsetBound
    <3>4. vram' = Blanked(b, idx[p] + 1)
      BY <3>1, <3>2, <3>3, <2>1, <1>0, BlankOne DEF Poke, Holds
    <3>5. idx'[p] = idx[p] + 1 /\ pc'[p] = "clear" /\ ch' = ch
          /\ m_CursorX' = b.x /\ m_CursorY' = Target(b)
      BY <1>3, <2>1, <2>2, <1>b DEF NlClear, Holds
    <3> QED BY <3>2, <3>4, <3>5, <2>1, <1>0, <1>c
         DEF Progress, ScrollProgress, NewlineProgress, CellProgress, WrapProgress, Holds
  <2>3. CASE ~(idx[p] < Cols)
    <3>1. idx[p] = Cols
      BY <2>1, <2>3, <1>0, <1>a
    <3>2. pc'[p] = "nlrow" /\ ch' = ch /\ vram' = vram
          /\ m_CursorX' = b.x /\ m_CursorY' = Target(b)
      BY <1>3, <2>1, <2>3, <1>b DEF NlClear, Holds
    <3> QED BY <3>1, <3>2, <2>1, <1>0, <1>c
         DEF Progress, ScrollProgress, NewlineProgress, CellProgress, WrapProgress, Holds
  <2> QED BY <2>2, <2>3
<1>4. CASE NlRow(p)
  <2>1. pc[p] = "nlrow" /\ ch[p] = "nl" /\ Holds(Blanked(b, Cols), b.x, Target(b))
    BY <1>4, <1>c DEF NlRow, NewlineProgress
  <2>2. pc'[p] = "nlcol" /\ ch' = ch /\ vram' = vram
        /\ m_CursorX' = b.x /\ m_CursorY' = Target(b) + 1
    BY <1>4, <2>1, <1>b DEF NlRow, Holds
  <2> QED BY <2>1, <2>2, <1>0, <1>c
       DEF Progress, ScrollProgress, NewlineProgress, CellProgress, WrapProgress, Holds
<1>5. CASE NlCol(p) \/ WrapY(p)
  BY <1>5, <1>b DEF NlCol, WrapY, Return, Inside
<1>6. CASE TabCol(p)
  <2>1. pc[p] = "tab" /\ ch[p] = "tab" /\ Holds(Made(b), b.x, Target(b))
    BY <1>6, <1>c DEF TabCol, CellProgress
  <2>2. Quotient(b.x, Tab) = b.x \div Tab
    BY <1>a DEF Quotient
  <2>3. pc'[p] = "wrap" /\ ch' = ch /\ vram' = Made(b)
        /\ m_CursorX' = Behind(b, "tab") /\ m_CursorY' = Target(b)
    BY <1>6, <2>1, <2>2, <1>b DEF TabCol, Holds, Behind
  <2> QED BY <2>1, <2>3, <1>0, <1>c
       DEF Progress, ScrollProgress, NewlineProgress, CellProgress, WrapProgress, Holds, Result
<1>7. CASE PutGlyph(p)
  <2>1. pc[p] = "glyph" /\ ch[p] \in Glyphs /\ Holds(Made(b), b.x, Target(b))
    BY <1>7, <1>c DEF PutGlyph, CellProgress
  <2>2. Poke(Target(b) * Cols + b.x, ch[p])
    BY <1>7, <2>1, <1>b DEF PutGlyph, Holds
  <2>3. vram' = Written(b, ch[p])
    BY <2>1, <2>2, <1>0, MadeType DEF Poke, Holds, Written
  <2>4. pc'[p] = "advance" /\ ch' = ch /\ m_CursorX' = b.x /\ m_CursorY' = Target(b)
    BY <1>7, <2>1, <1>b DEF PutGlyph, Holds
  <2> QED BY <2>1, <2>3, <2>4, <1>0, <1>c
       DEF Progress, ScrollProgress, NewlineProgress, CellProgress, WrapProgress, Holds
<1>8. CASE Advance(p)
  <2>1. pc[p] = "advance" /\ ch[p] \in Glyphs /\ Holds(Written(b, ch[p]), b.x, Target(b))
    BY <1>8, <1>c DEF Advance, CellProgress
  <2>2. pc'[p] = "wrap" /\ ch' = ch /\ vram' = vram /\ m_CursorX' = b.x + 1 /\ m_CursorY' = Target(b)
    BY <1>8, <2>1, <1>b DEF Advance, Holds
  <2>3. ch[p] # "tab"
    BY <2>1, GlyphAssumption
  <2> QED BY <2>1, <2>2, <2>3, <1>0, <1>c
       DEF Progress, ScrollProgress, NewlineProgress, CellProgress, WrapProgress, Holds, Result, Behind
<1>9. CASE WrapTest(p)
  <2>1. pc[p] = "wrap" /\ ch[p] \in Glyphs \cup {"tab"}
        /\ Holds(Result(b, ch[p]), Behind(b, ch[p]), Target(b))
    BY <1>9, <1>c DEF WrapTest, WrapProgress
  <2>2. pc'[p] = "wrapx" /\ ch' = ch /\ vram' = vram /\ m_CursorX >= Cols
        /\ m_CursorX' = m_CursorX /\ m_CursorY' = m_CursorY
    BY <1>9, <2>1, <1>b DEF WrapTest, Return, Inside
  <2>3. m_CursorX = Cols
    BY <2>1, <2>2, <1>0, <1>b DEF CursorAt
  <2> QED BY <2>1, <2>2, <2>3, <1>0, <1>c
       DEF Progress, ScrollProgress, NewlineProgress, CellProgress, WrapProgress, Holds
<1>10. CASE WrapX(p)
  <2>1. pc[p] = "wrapx" /\ ch[p] \in Glyphs \cup {"tab"} /\ Behind(b, ch[p]) = Cols
        /\ Holds(Result(b, ch[p]), Cols, Target(b))
    BY <1>10, <1>c DEF WrapX, WrapProgress
  <2>2. pc'[p] = "wrapy" /\ ch' = ch /\ vram' = vram /\ m_CursorX' = 0 /\ m_CursorY' = Target(b)
    BY <1>10, <2>1, <1>0, <1>b DEF WrapX, Holds
  <2> QED BY <2>1, <2>2, <1>0, <1>c
       DEF Progress, ScrollProgress, NewlineProgress, CellProgress, WrapProgress, Holds
<1> QED BY <1>1, <1>2, <1>3, <1>4, <1>5, <1>6, <1>7, <1>8, <1>9, <1>10 DEF putchar
(* The console a whole putchar(c) makes of console b. *)
Printed(b, c, after) ==
    IF c = "nl"
    THEN after = [screen |-> Blanked(b, Cols), x |-> 0, y |-> Target(b) + 1]
    ELSE after = IF Behind(b, c) < Cols
                 THEN [screen |-> Result(b, c), x |-> Behind(b, c), y |-> Target(b)]
                 ELSE [screen |-> Result(b, c), x |-> 0, y |-> Target(b) + 1]

(* The step that leaves an untorn putchar: the console is what printing the *)
(* character on the console before it yields.                               *)
LEMMA ProgressReturn ==
    ASSUME TypeOK, NEW p \in Contexts, Steady(p), Progress(p), putchar(p), ~Inside(p)'
    PROVE  /\ before' = before
           /\ ch[p] \in Chars
           /\ Printed(before, ch[p], [screen |-> vram', x |-> m_CursorX', y |-> m_CursorY'])
<1> DEFINE b == before
<1> USE DEF Goto, MoveX, MoveY, SeenX, SeenY, Steady
<1>0. /\ pc \in [Contexts -> Labels] /\ ch \in [Contexts -> Chars]
      /\ m_CursorX \in Int /\ m_CursorY \in Int
      /\ Cols \in Nat \ {0} /\ b \in Consoles
  BY ColsType DEF TypeOK, Progress
<1>1. CASE NlCol(p)
  <2>1. ch[p] = "nl" /\ Holds(Blanked(b, Cols), b.x, Target(b) + 1)
    BY <1>1 DEF NlCol, Progress, NewlineProgress
  <2> QED BY <2>1, <1>0, <1>1 DEF NlCol, Printed, Holds
<1>2. CASE WrapTest(p)
  <2>1. ch[p] \in Glyphs \cup {"tab"} /\ Holds(Result(b, ch[p]), Behind(b, ch[p]), Target(b))
    BY <1>2 DEF WrapTest, Progress, WrapProgress
  <2>2. m_CursorX < Cols /\ vram' = vram /\ m_CursorX' = m_CursorX /\ m_CursorY' = m_CursorY
        /\ before' = before
    BY <1>2, <1>0 DEF WrapTest, Inside
  <2>3. ch[p] # "nl"
    BY <2>1, GlyphAssumption
  <2> QED BY <2>1, <2>2, <2>3, <1>0 DEF Printed, Holds
<1>3. CASE WrapY(p)
  <2>1. ch[p] \in Glyphs \cup {"tab"} /\ Holds(Result(b, ch[p]), 0, Target(b)) /\ Behind(b, ch[p]) = Cols
    BY <1>3 DEF WrapY, Progress, WrapProgress
  <2>2. vram' = vram /\ m_CursorX' = m_CursorX /\ m_CursorY' = m_CursorY + 1 /\ before' = before
    BY <1>3, <1>0 DEF WrapY
  <2>3. ch[p] # "nl" /\ ~(Behind(b, ch[p]) < Cols)
    BY <2>1, <1>0, GlyphAssumption
  <2> QED BY <2>1, <2>2, <2>3, <1>0 DEF Printed, Holds
<1>4. CASE ~(NlCol(p) \/ WrapTest(p) \/ WrapY(p))
  <2>1. pc'[p] # "next" /\ pc'[p] # "hlt"
    <3>1. \A c \in Chars : Dispatch(c) \in {"clear", "tab", "glyph"}
      BY DEF Dispatch
    <3> QED BY <3>1, <1>0, <1>4 DEF putchar, Enter, CopyRow, ScrollDec, NlClear, NlRow, TabCol,
              PutGlyph, Advance, WrapX
  <2> QED BY <2>1 DEF Inside
<1> QED BY <1>1, <1>2, <1>3, <1>4

-----------------------------------------------------------------------------
(* The invariant. *)

(* What every step of the refinement rests on. *)
RefinementInv == IInv /\ InProgress

(* Every step of putchar keeps the progress of the context inside. *)
LEMMA ProgressPutchar ==
    ASSUME RefinementInv, NEW p \in Contexts, putchar(p)
    PROVE  InProgress'
<1> SUFFICES ASSUME ~torn', NEW q \in Contexts, Inside(q)'
             PROVE  Progress(q)'
  BY DEF InProgress
<1>1. IInv /\ TypeOK
  BY DEF RefinementInv, IInv
<1>2. CASE Enter(p)
  <2>1. \A r \in Contexts : ~Inside(r)
    BY <1>1, <1>2, EnterStep
  <2>2. q = p
    BY <1>1, <2>1, OthersStay DEF Inside
  <2> QED BY <1>1, <1>2, <2>2, ProgressEnter
<1>3. CASE ~Enter(p)
  <2>1. Inside(p) /\ ~torn
    BY <1>3 DEF Inside, putchar, CopyRow, ScrollDec, NlClear, NlRow, NlCol,
           TabCol, PutGlyph, Advance, WrapTest, WrapX, WrapY
  <2>2. Steady(p) /\ Progress(p)
    BY <1>1, <2>1 DEF RefinementInv, IInv, Steady, CopiesFresh, CursorOnScreen, WritesOnScreen, InProgress
  <2>3. q = p
    BY <1>1, <2>1, OthersStay DEF Inside, IInv, OneInside
  <2> QED BY <1>1, <1>3, <2>2, <2>3, ProgressStep
<1> QED BY <1>2, <1>3

(* The two parts of the invariant together are inductive. *)
LEMMA RefinementNext == RefinementInv /\ [Next]_vars => RefinementInv'
<1> SUFFICES ASSUME RefinementInv, [Next]_vars PROVE RefinementInv'
  OBVIOUS
<1>1. IInv'
  BY PutcharKeepsInv, OtherStepsKeepInv DEF RefinementInv, Next
<1>2. CASE \E p \in Contexts : putchar(p)
  BY <1>1, <1>2, ProgressPutchar DEF RefinementInv
<1>3. CASE Sti \/ Halt \/ Interrupt \/ Iret \/ UNCHANGED vars
  <2>1. UNCHANGED Screen
    BY <1>3 DEF Sti, Halt, Interrupt, Iret, vars, Screen
  <2>2. \A p \in Contexts : Inside(p)' = Inside(p) /\ (Inside(p) => pc'[p] = pc[p])
    BY <1>3 DEF RefinementInv, IInv, TypeOK, Sti, Halt, Interrupt, Iret, vars, Goto, Inside
  <2>3. InProgress'
    BY <2>1, <2>2 DEF RefinementInv, InProgress, Screen, Progress, ScrollProgress, NewlineProgress,
                      CellProgress, WrapProgress, Holds
  <2> QED BY <1>1, <2>3 DEF RefinementInv
<1> QED BY <1>2, <1>3 DEF Next

(* While a putchar is not torn, the screen and the cursor are what its     *)
(* program position makes of the console before it.                        *)
THEOREM ProgressInvariant == Spec => []RefinementInv
<1>1. Init => InProgress
  BY DEF Init, InProgress, Inside
<1>2. Init => RefinementInv
  BY <1>1, InvInit DEF RefinementInv
<1> QED BY <1>2, RefinementNext, PTL DEF Spec
-----------------------------------------------------------------------------
(* The teletype's page. *)

(* The cells of a screen, line by line. *)
Page(scr) == [l \in 0 .. Rows - 1 |-> [k \in 0 .. Cols - 1 |-> scr[l * Cols + k]]]

(* Lines and columns of the page are cells of the screen. *)
LEMMA PageCell ==
    ASSUME NEW scr, NEW l \in 0 .. Rows - 1, NEW k \in 0 .. Cols - 1
    PROVE  Page(scr)[l][k] = scr[l * Cols + k] /\ l * Cols + k \in Offsets
  BY OffsetBound DEF Page

(* Scrolling moves every line but the last. *)
LEMMA PageRoom ==
    ASSUME NEW b \in Consoles
    PROVE  Page(Made(b)) =
             IF b.y = Rows
             THEN [l \in 0 .. Rows - 1 |-> IF l + 1 \in 0 .. Rows - 1 THEN Page(b.screen)[l + 1]
                                                                    ELSE Page(b.screen)[l]]
             ELSE Page(b.screen)
<1>0. Cols \in Nat \ {0} /\ Rows \in Nat \ {0}
  BY ColsType, ScreenAssumption
<1>1. CASE b.y = Rows
  <2>1. ASSUME NEW l \in 0 .. Rows - 1, NEW k \in 0 .. Cols - 1
        PROVE  Made(b)[l * Cols + k] = IF l + 1 \in 0 .. Rows - 1 THEN b.screen[(l + 1) * Cols + k]
                                                                ELSE b.screen[l * Cols + k]
    <3>1. l * Cols + k \in Offsets /\ (l * Cols + k) \div Cols = l
      <4>1. l \in Nat
        BY <1>0
      <4> QED BY <4>1, OffsetBound, LineOf
    <3>2. l * Cols + k + Cols = (l + 1) * Cols + k
      BY <1>0
    <3>3. l < Rows - 1 <=> l + 1 \in 0 .. Rows - 1
      BY <1>0
    <3> QED BY <1>1, <3>1, <3>2, <3>3 DEF Made, Scrolled
  <2>2. ASSUME NEW l \in 0 .. Rows - 1
        PROVE  Page(Made(b))[l] = IF l + 1 \in 0 .. Rows - 1 THEN Page(b.screen)[l + 1]
                                                           ELSE Page(b.screen)[l]
    BY <2>1 DEF Page
  <2> QED BY <1>1, <2>2 DEF Page
<1>2. CASE b.y # Rows
  BY <1>2 DEF Made
<1> QED BY <1>1, <1>2

(* Blanking to the end of the line is a matter of one line. *)
LEMMA PageBlanked ==
    ASSUME NEW b \in Consoles
    PROVE  Page(Blanked(b, Cols)) =
             [Page(Made(b)) EXCEPT ![Target(b)] =
                 [k \in 0 .. Cols - 1 |-> IF k < b.x THEN @[k] ELSE "blank"]]
<1> DEFINE N == Cols
           r == Target(b)
<1>0. N \in Nat \ {0} /\ Rows \in Nat \ {0} /\ r \in 0 .. Rows - 1 /\ b.x \in 0 .. N - 1
  BY ColsType, ScreenAssumption, MadeType, ConsoleFields
<1>1. ASSUME NEW l \in 0 .. Rows - 1, NEW k \in 0 .. N - 1
      PROVE  l * N + k \in r * N + b.x .. r * N + N - 1 <=> l = r /\ ~(k < b.x)
  <2>1. l * N \in Nat /\ r * N \in Nat
    BY <1>0
  <2>2. CASE l = r
    <3> HIDE DEF N, r
    <3> QED BY <2>1, <2>2, <1>0, <1>1
  <2>3. CASE l # r
    <3>1. SUFFICES ASSUME l * N + k \in r * N + b.x .. r * N + N - 1 PROVE FALSE
      BY <2>3
    <3>2. l * N + k - r * N \in 0 .. N - 1
      <4> HIDE DEF N, r
      <4> QED BY <3>1, <2>1, <1>0, <1>1
    <3>3. l * N + k = r * N + (l * N + k - r * N)
      <4> HIDE DEF N, r
      <4> QED BY <2>1, <1>0, <1>1
    <3>4. l = r
      BY <3>2, <3>3, <1>0, CellPlace
    <3> QED BY <2>3, <3>4
  <2> QED BY <2>2, <2>3
<1>2. ASSUME NEW l \in 0 .. Rows - 1, NEW k \in 0 .. N - 1
      PROVE  Blanked(b, N)[l * N + k] = IF l = r /\ ~(k < b.x) THEN "blank" ELSE Made(b)[l * N + k]
  BY <1>1, <1>2, OffsetBound DEF Blanked
<1>3. ASSUME NEW l \in 0 .. Rows - 1
      PROVE  Page(Blanked(b, N))[l] =
               IF l = r THEN [k \in 0 .. N - 1 |-> IF k < b.x THEN Page(Made(b))[l][k] ELSE "blank"]
               ELSE Page(Made(b))[l]
  <2> HIDE DEF r
  <2> QED BY <1>2 DEF Page
<1> QED BY <1>0, <1>3 DEF Page

(* A glyph is stored in one cell of one line. *)
LEMMA PageWritten ==
    ASSUME NEW b \in Consoles, NEW c
    PROVE  Page(Written(b, c)) = [Page(Made(b)) EXCEPT ![Target(b)][b.x] = c]
<1> DEFINE N == Cols
           r == Target(b)
<1>0. N \in Nat \ {0} /\ Rows \in Nat \ {0} /\ r \in 0 .. Rows - 1 /\ b.x \in 0 .. N - 1
      /\ Made(b) \in [Offsets -> Cells]
  BY ColsType, ScreenAssumption, MadeType, ConsoleFields
<1>1. ASSUME NEW l \in 0 .. Rows - 1, NEW k \in 0 .. N - 1
      PROVE  Written(b, c)[l * N + k] = IF l = r /\ k = b.x THEN c ELSE Made(b)[l * N + k]
  <2>1. l * N + k \in Offsets
    BY OffsetBound
  <2>2. l * N + k = r * N + b.x <=> l = r /\ k = b.x
    <3>1. l \in Nat /\ r \in Nat
      BY <1>0
    <3> HIDE DEF r
    <3> QED BY <3>1, <1>0, CellPlace
  <2> QED BY <1>0, <2>1, <2>2 DEF Written
<1>2. ASSUME NEW l \in 0 .. Rows - 1
      PROVE  Page(Written(b, c))[l] = IF l = r THEN [Page(Made(b))[l] EXCEPT ![b.x] = c]
                                      ELSE Page(Made(b))[l]
  <2> HIDE DEF r
  <2> QED BY <1>0, <1>1 DEF Page
<1> QED BY <1>0, <1>2 DEF Page

(* Printing a character on console b is the teletype's step. *)
LEMMA PrintedIsPut ==
    ASSUME ~torn, ~torn', Shown \in Consoles, NEW c \in Chars, Printed(Shown, c, Shown')
    PROVE  T!Put(c)
<1> DEFINE b == Shown
<1>0. Cols \in Nat \ {0} /\ Rows \in Nat \ {0} /\ Tab \in Nat \ {0}
      /\ Target(b) \in 0 .. Rows - 1 /\ b.x \in 0 .. Cols - 1 /\ b.y \in 0 .. Rows
  BY ColsType, ScreenAssumption, MadeType, ConsoleFields
<1>1. Page(Made(b)) = T!Room
  BY PageRoom DEF T!Room, T!Lines, Page
<1>2. T!EndLine <=> /\ Target(b') = IF Target(b) = Rows - 1 THEN Target(b) ELSE Target(b) + 1
                    /\ (b'.y = Rows) = (Target(b) = Rows - 1)
  BY DEF T!EndLine, Target
<1>3. CASE c = "nl"
  <2>1. b' = [screen |-> Blanked(b, Cols), x |-> 0, y |-> Target(b) + 1]
    BY <1>3 DEF Printed
  <2>2. b'.screen = Blanked(b, Cols) /\ b'.x = 0 /\ b'.y = Target(b) + 1
    BY <2>1
  <2>3. T!EndLine
    BY <1>0, <1>2, <2>2 DEF Target
  <2>4. Page(b'.screen) = [T!Room EXCEPT ![Target(b)] =
             [k \in 0 .. Cols - 1 |-> IF k < b.x THEN @[k] ELSE "blank"]]
    BY <2>2, <1>1, PageBlanked
  <2>5. T!PutNewline
    BY <2>2, <2>3, <2>4 DEF T!PutNewline, T!Columns, Page, Target
  <2> QED BY <1>3, <2>5 DEF T!Put
<1>4. CASE c # "nl"
  <2>1. /\ b'.screen = Result(b, c)
        /\ Behind(b, c) < Cols => b'.x = Behind(b, c) /\ b'.y = Target(b)
        /\ ~(Behind(b, c) < Cols) => b'.x = 0 /\ b'.y = Target(b) + 1
    BY <1>4 DEF Printed
  <2>2. Behind(b, c) < Cols => Target(b') = Target(b) /\ b'.y # Rows
    BY <2>1, <1>0 DEF Target
  <2>3. ~(Behind(b, c) < Cols) => T!EndLine
    BY <2>1, <1>0, <1>2 DEF Target
  <2>4. CASE c = "tab"
    <3>1. Page(b'.screen) = T!Room
      BY <1>1, <2>1, <2>4 DEF Result
    <3>2. Behind(b, c) = Tab * (b.x \div Tab + 1)
      BY <1>0, <2>4 DEF Behind
    <3>3. T!PutTab
      BY <3>1, <3>2, <2>1, <2>2, <2>3 DEF T!PutTab, Page, Target
    <3> QED BY <2>4, <3>3 DEF T!Put
  <2>5. CASE c # "tab"
    <3>1. c \in Glyphs /\ Behind(b, c) = b.x + 1
      BY <1>4, <2>5 DEF Chars, Behind
    <3>2. Page(b'.screen) = [T!Room EXCEPT ![Target(b)][b.x] = c]
      BY <1>1, <2>1, <2>5, PageWritten DEF Result
    <3>3. T!PutGlyph(c)
      BY <3>1, <3>2, <2>1, <2>2, <2>3 DEF T!PutGlyph, Page, Target
    <3> QED BY <3>1, <3>3 DEF T!Put
  <2> QED BY <2>4, <2>5
<1> QED BY <1>3, <1>4
-----------------------------------------------------------------------------
(* The refinement. *)

(* What is shown is always a console between two characters. *)
LEMMA ShownType ==
    ASSUME RefinementInv, ~torn PROVE Shown \in Consoles
<1>1. CASE \A p \in Contexts : ~Inside(p)
  BY <1>1 DEF Shown, Settled, RefinementInv, IInv, TypeOK, CursorOnScreen, CursorAt, Consoles
<1>2. CASE \E p \in Contexts : Inside(p)
  BY <1>2 DEF Shown, Settled, RefinementInv, InProgress, Progress
<1> QED BY <1>1, <1>2

(* The console at boot is a teletype with the BIOS's cells on its page. *)
LEMMA InitImplements == Init => T!Init
<1> SUFFICES ASSUME Init PROVE T!Init
  OBVIOUS
<1>1. Shown.screen = [o \in Offsets |-> "bios"] /\ Shown.x = 0 /\ Shown.y = 0
  BY DEF Init, Shown, Settled
<1>2. [l \in 0 .. Rows - 1 |-> [k \in 0 .. Cols - 1 |-> Shown.screen[l * Cols + k]]]
        = [l \in 0 .. Rows - 1 |-> [k \in 0 .. Cols - 1 |-> "bios"]]
  BY <1>1, OffsetBound
<1>3. Rows # 0
  BY ScreenAssumption
<1> QED BY <1>1, <1>2, <1>3 DEF T!Init, T!Lines, T!Columns, Init

(* The teletype does not notice a step that leaves what is shown. *)
LEMMA SameShown ==
    ASSUME Shown' = Shown, torn' = torn PROVE UNCHANGED T!vars
  BY DEF T!vars

(* Every step of putchar is a stutter, a whole character or the tear. *)
LEMMA PutcharImplements ==
    ASSUME RefinementInv, NEW p \in Contexts, putchar(p)
    PROVE  [T!Next]_(T!vars)
<1>1. IInv /\ TypeOK
  BY DEF RefinementInv, IInv
<1>2. ~Enter(p) => /\ Inside(p)
                   /\ torn' = torn
                   /\ before' = before
  BY DEF Inside, putchar, CopyRow, ScrollDec, NlClear, NlRow, NlCol,
         TabCol, PutGlyph, Advance, WrapTest, WrapX, WrapY
<1>3. CASE torn
  BY <1>2, <1>3, SameShown DEF Enter, Shown, Settled
<1>4. CASE ~torn /\ Enter(p) /\ torn'
  <2>1. ~Settled /\ ~Settled' /\ before' = before
    BY <1>4 DEF Enter, Settled
  <2>2. Shown' = Shown
    BY <2>1 DEF Shown
  <2>3. T!Tear
    BY <1>4, <2>2 DEF T!Tear
  <2> QED BY <2>3 DEF T!Next
<1>5. CASE ~torn /\ Enter(p) /\ ~torn'
  <2>1. \A q \in Contexts : ~Inside(q)
    BY <1>1, <1>5, EnterStep
  <2>2. Inside(p)'
    BY <1>1, <1>5, EnterStep DEF Steady
  <2>3. Settled /\ ~Settled'
    BY <1>5, <2>1, <2>2 DEF Settled
  <2>4. before' = [screen |-> vram, x |-> m_CursorX, y |-> m_CursorY]
    BY <1>5 DEF Enter
  <2>5. Shown' = Shown
    BY <2>3, <2>4 DEF Shown
  <2>6. torn' = torn
    BY <1>1, <1>5, TypePutchar DEF TypeOK
  <2> QED BY <2>5, <2>6, SameShown
<1>6. CASE ~torn /\ ~Enter(p) /\ Inside(p)'
  BY <1>2, <1>6, SameShown DEF Shown, Settled
<1>7. CASE ~torn /\ ~Enter(p) /\ ~Inside(p)'
  <2>1. Steady(p) /\ Progress(p)
    BY <1>2, <1>7 DEF RefinementInv, IInv, Steady, CopiesFresh, CursorOnScreen, WritesOnScreen, InProgress
  <2>2. PICK c \in Chars :
          Printed(before, c, [screen |-> vram', x |-> m_CursorX', y |-> m_CursorY'])
    BY <1>1, <1>7, <2>1, ProgressReturn
  <2>3. \A q \in Contexts : ~Inside(q)'
    BY <1>1, <1>2, <1>7, OthersStay DEF Inside, IInv, OneInside
  <2>4. Shown = before /\ Shown' = [screen |-> vram', x |-> m_CursorX', y |-> m_CursorY']
    BY <1>2, <1>7, <2>3 DEF Shown, Settled
  <2>5. ~torn /\ ~torn' /\ Shown \in Consoles
    BY <1>2, <1>7, ShownType
  <2>6. Printed(Shown, c, Shown')
    BY <2>2, <2>4
  <2>7. T!Put(c) /\ c \in T!Chars
    BY <2>5, <2>6, PrintedIsPut DEF T!Chars, Chars
  <2> QED BY <2>7 DEF T!Next
<1> QED BY <1>3, <1>4, <1>5, <1>6, <1>7

(* The other steps are stutters. *)
LEMMA OtherStepsImplement ==
    ASSUME TypeOK, Sti \/ Halt \/ Interrupt \/ Iret \/ UNCHANGED vars
    PROVE  UNCHANGED T!vars
<1>1. UNCHANGED Screen
  BY DEF Sti, Halt, Interrupt, Iret, vars, Screen
<1>2. \A p \in Contexts : Inside(p)' = Inside(p)
  BY DEF TypeOK, Sti, Halt, Interrupt, Iret, vars, Goto, Inside
<1> QED BY <1>1, <1>2, SameShown DEF Screen, Shown, Settled

(* For every screen size, every text and every interrupt load, printf's     *)
(* console (scroll_up and putchar of printk.c, step by step and with stale  *)
(* register copies) implements the teletype, up to the step at which a      *)
(* handler prints inside a putchar of the boot thread.                      *)
THEOREM ConsoleImplementsTerminal == Spec => ImplementsTerminal
<1>1. RefinementInv /\ [Next]_vars => [T!Next]_(T!vars)
  BY PutcharImplements, OtherStepsImplement DEF Next, RefinementInv, IInv
<1> QED BY InitImplements, <1>1, ProgressInvariant, PTL DEF Spec, ImplementsTerminal, T!Spec
=============================================================================
