------------------------------ MODULE Console -------------------------------
(***************************************************************************)
(* The VGA text console of common/printk.c (scroll_up and putchar), shared *)
(* without any lock by the boot thread, which prints with interrupts off   *)
(* and, from setup_idt's sti on, with interrupts on, and by the interrupt  *)
(* handlers of X86/idt.c, which print too.  Every read or write of the two *)
(* cursor variables and of a run of cells is a step of its own; an         *)
(* interrupt arrives between any two steps of the boot thread.             *)
(*                                                                         *)
(* m_CursorX and m_CursorY are plain statics: the compiler may keep a copy *)
(* in a register during one putchar, so each use of a cursor variable      *)
(* takes the register copy or the memory, whichever the build chose.       *)
(***************************************************************************)
EXTENDS Integers

CONSTANTS
    Glyphs,     \* characters that occupy a cell
    Rows,       \* lines of the screen (25 in the code)
    Tab,        \* distance between tab stops (8)
    TabStops,   \* tab stops of a line (10)
    BootLen,    \* bound: characters printed before sti
    LateLen,    \* bound: characters printed after sti ("VGA test\n")
    IrqLen,     \* bound: characters one interrupt handler prints
    MaxIrqs     \* bound: interrupts delivered

Cols == Tab * TabStops

ASSUME ScreenAssumption ==
    /\ Rows \in Nat \ {0}
    /\ Tab \in Nat \ {0}
    /\ TabStops \in Nat \ {0}

ASSUME GlyphAssumption == {"nl", "tab", "bios", "blank"} \cap Glyphs = {}

ASSUME BoundAssumption ==
    /\ BootLen \in Nat
    /\ LateLen \in Nat
    /\ IrqLen \in Nat
    /\ MaxIrqs \in Nat

Contexts == {"main", "irq"}
Cells    == Glyphs \cup {"bios", "blank"}
Chars    == Glyphs \cup {"nl", "tab"}
Offsets  == 0 .. Rows * Cols - 1

Labels == {"next", "copy", "dec", "clear", "nlrow", "nlcol", "tab", "glyph",
           "advance", "wrap", "wrapx", "wrapy", "hlt"}

VARIABLES
    vram,       \* the cells of the screen, by offset from VGABASE
    m_CursorX, m_CursorY,
    pc,         \* where each context is inside putchar; "next" is between
    ch,         \* the character each context is printing
    regX, regY, \* each context's register copies of the cursor
    idx,        \* each context's loop index
    left,       \* characters each context may still print
    running,    \* the context the CPU executes
    IFlag,      \* EFLAGS.IF of the boot thread
    irqs,       \* interrupts delivered so far
    stray,      \* history: some write fell outside the screen
    torn,       \* history: a handler printed inside main's putchar
    before      \* history: the console as it was between two characters

vars == <<vram, m_CursorX, m_CursorY, pc, ch, regX, regY, idx, left, running, IFlag,
          irqs, stray, torn, before>>

-----------------------------------------------------------------------------

Init ==
    /\ vram = [o \in Offsets |-> "bios"]
    /\ m_CursorX = 0
    /\ m_CursorY = 0
    /\ pc = [p \in Contexts |-> "next"]
    /\ ch = [p \in Contexts |-> "nl"]
    /\ regX = [p \in Contexts |-> 0]
    /\ regY = [p \in Contexts |-> 0]
    /\ idx = [p \in Contexts |-> 0]
    /\ left = [p \in Contexts |-> IF p = "main" THEN BootLen ELSE 0]
    /\ running = "main"
    /\ IFlag = FALSE
    /\ irqs = 0
    /\ stray = FALSE
    /\ torn = FALSE
    /\ before = [screen |-> vram, x |-> 0, y |-> 0]

Inside(p) == pc[p] \notin {"next", "hlt"}

(* What an expression that reads a cursor variable may yield. *)
SeenX(p) == {regX[p], m_CursorX}
SeenY(p) == {regY[p], m_CursorY}

Goto(p, l) == pc' = [pc EXCEPT ![p] = l]

MoveX(p, x) ==
    /\ m_CursorX' = x
    /\ regX' = [regX EXCEPT ![p] = x]

MoveY(p, y) ==
    /\ m_CursorY' = y
    /\ regY' = [regY EXCEPT ![p] = y]

(* A store to VGABASE[o]: the screen is only the first Rows * Cols cells. *)
Poke(o, c) ==
    /\ vram' = IF o \in Offsets THEN [vram EXCEPT ![o] = c] ELSE vram
    /\ stray' = (stray \/ o \notin Offsets)

(* The division of C, which rounds towards zero. *)
Quotient(a, b) == IF a < 0 THEN -((-a) \div b) ELSE a \div b

(* putchar returns: its locals are gone. *)
Return(p) ==
    /\ Goto(p, "next")
    /\ ch' = [ch EXCEPT ![p] = "nl"]
    /\ regX' = [regX EXCEPT ![p] = 0]
    /\ regY' = [regY EXCEPT ![p] = 0]
    /\ idx' = [idx EXCEPT ![p] = 0]

(* Variant: no case for the tab. *)
DispatchNoTab(c) == IF c = "nl" THEN "clear" ELSE "glyph"

Dispatch(c) ==
    IF c = "nl" THEN "clear" ELSE IF c = "tab" THEN "tab" ELSE "glyph"

Cpu(p) == running = p /\ UNCHANGED <<running, IFlag, irqs>>

(* putchar is called for the next character of some text, and scroll_up    *)
(* makes its test.                                                         *)
Enter(p) ==
    /\ Cpu(p)
    /\ pc[p] = "next"
    /\ left[p] > 0
    /\ left' = [left EXCEPT ![p] = @ - 1]
    /\ \E c \in Chars :
          /\ ch' = [ch EXCEPT ![p] = c]
          /\ Goto(p, IF m_CursorY = Rows THEN "copy" ELSE Dispatch(c))
    /\ regX' = [regX EXCEPT ![p] = m_CursorX]
    /\ regY' = [regY EXCEPT ![p] = m_CursorY]
    /\ idx' = [idx EXCEPT ![p] = IF m_CursorY = Rows THEN 0 ELSE m_CursorX]
    /\ torn' = (torn \/ \E q \in Contexts : Inside(q))
    /\ before' = IF torn' THEN before
                 ELSE [screen |-> vram, x |-> m_CursorX, y |-> m_CursorY]
    /\ UNCHANGED <<vram, m_CursorX, m_CursorY, stray>>

(* scroll_up: line idx + 1 is copied over line idx. *)
CopyRow(p) ==
    /\ Cpu(p)
    /\ pc[p] = "copy"
    /\ IF idx[p] < Rows - 1
       THEN /\ vram' = [o \in Offsets |->
                           IF o \div Cols = idx[p] THEN vram[o + Cols] ELSE vram[o]]
            /\ idx' = [idx EXCEPT ![p] = @ + 1]
            /\ UNCHANGED pc
       ELSE Goto(p, "dec") /\ UNCHANGED <<vram, idx>>
    /\ UNCHANGED <<m_CursorX, m_CursorY, ch, regX, regY, left, stray, torn, before>>

(* Variant: the lines are moved, the cursor is not. *)
ScrollKeepsRow(p) ==
    /\ Cpu(p)
    /\ pc[p] = "dec"
    /\ \E x \in SeenX(p) : idx' = [idx EXCEPT ![p] = x]
    /\ Goto(p, Dispatch(ch[p]))
    /\ UNCHANGED <<vram, m_CursorX, m_CursorY, ch, regX, regY, left, stray, torn, before>>

(* scroll_up: m_CursorY--, and the switch of putchar. *)
ScrollDec(p) ==
    /\ Cpu(p)
    /\ pc[p] = "dec"
    /\ \E y \in SeenY(p) : MoveY(p, y - 1)
    /\ \E x \in SeenX(p) : idx' = [idx EXCEPT ![p] = x]
    /\ Goto(p, Dispatch(ch[p]))
    /\ UNCHANGED <<vram, m_CursorX, ch, regX, left, stray, torn, before>>

(* '\n' or '\r': one cell of the rest of the line is blanked. *)
NlClear(p) ==
    /\ Cpu(p)
    /\ pc[p] = "clear"
    /\ IF idx[p] < Cols
       THEN /\ \E y \in SeenY(p) : Poke(y * Cols + idx[p], "blank")
            /\ idx' = [idx EXCEPT ![p] = @ + 1]
            /\ UNCHANGED pc
       ELSE Goto(p, "nlrow") /\ UNCHANGED <<vram, idx, stray>>
    /\ UNCHANGED <<m_CursorX, m_CursorY, ch, regX, regY, left, torn, before>>

NlRow(p) ==
    /\ Cpu(p)
    /\ pc[p] = "nlrow"
    /\ \E y \in SeenY(p) : MoveY(p, y + 1)
    /\ Goto(p, "nlcol")
    /\ UNCHANGED <<vram, m_CursorX, ch, regX, idx, left, stray, torn, before>>

(* Variant: a new line keeps the column. *)
NlKeepsCol(p) ==
    /\ Cpu(p)
    /\ pc[p] = "nlcol"
    /\ Return(p)
    /\ UNCHANGED <<vram, m_CursorX, m_CursorY, left, stray, torn, before>>

NlCol(p) ==
    /\ Cpu(p)
    /\ pc[p] = "nlcol"
    /\ m_CursorX' = 0
    /\ Return(p)
    /\ UNCHANGED <<vram, m_CursorY, left, stray, torn, before>>

TabCol(p) ==
    /\ Cpu(p)
    /\ pc[p] = "tab"
    /\ \E x \in SeenX(p) : MoveX(p, (Quotient(x, Tab) + 1) * Tab)
    /\ Goto(p, "wrap")
    /\ UNCHANGED <<vram, m_CursorY, ch, regY, idx, left, stray, torn, before>>

PutGlyph(p) ==
    /\ Cpu(p)
    /\ pc[p] = "glyph"
    /\ \E x \in SeenX(p), y \in SeenY(p) : Poke(y * Cols + x, ch[p])
    /\ Goto(p, "advance")
    /\ UNCHANGED <<m_CursorX, m_CursorY, ch, regX, regY, idx, left, torn, before>>

Advance(p) ==
    /\ Cpu(p)
    /\ pc[p] = "advance"
    /\ \E x \in SeenX(p) : MoveX(p, x + 1)
    /\ Goto(p, "wrap")
    /\ UNCHANGED <<vram, m_CursorY, ch, regY, idx, left, stray, torn, before>>

(* Variant: one column too late. *)
WrapTestLate(p) ==
    /\ Cpu(p)
    /\ pc[p] = "wrap"
    /\ \/ /\ \E x \in SeenX(p) : x > Cols
          /\ Goto(p, "wrapx")
          /\ UNCHANGED <<ch, regX, regY, idx>>
       \/ /\ \E x \in SeenX(p) : x <= Cols
          /\ Return(p)
    /\ UNCHANGED <<vram, m_CursorX, m_CursorY, left, stray, torn, before>>

WrapTest(p) ==
    /\ Cpu(p)
    /\ pc[p] = "wrap"
    /\ \/ /\ \E x \in SeenX(p) : x >= Cols
          /\ Goto(p, "wrapx")
          /\ UNCHANGED <<ch, regX, regY, idx>>
       \/ /\ \E x \in SeenX(p) : x < Cols
          /\ Return(p)
    /\ UNCHANGED <<vram, m_CursorX, m_CursorY, left, stray, torn, before>>

WrapX(p) ==
    /\ Cpu(p)
    /\ pc[p] = "wrapx"
    /\ \E x \in SeenX(p) : MoveX(p, x - Cols)
    /\ Goto(p, "wrapy")
    /\ UNCHANGED <<vram, m_CursorY, ch, regY, idx, left, stray, torn, before>>

(* Variant: the column wraps, the row stays. *)
WrapKeepsRow(p) ==
    /\ Cpu(p)
    /\ pc[p] = "wrapy"
    /\ Return(p)
    /\ UNCHANGED <<vram, m_CursorX, m_CursorY, left, stray, torn, before>>

WrapY(p) ==
    /\ Cpu(p)
    /\ pc[p] = "wrapy"
    /\ \E y \in SeenY(p) : m_CursorY' = y + 1
    /\ Return(p)
    /\ UNCHANGED <<vram, m_CursorX, left, stray, torn, before>>

putchar(p) ==
    \/ Enter(p) \/ CopyRow(p) \/ ScrollDec(p)
    \/ NlClear(p) \/ NlRow(p) \/ NlCol(p)
    \/ TabCol(p) \/ PutGlyph(p) \/ Advance(p)
    \/ WrapTest(p) \/ WrapX(p) \/ WrapY(p)

-----------------------------------------------------------------------------

Screen == <<vram, m_CursorX, m_CursorY, ch, regX, regY, idx, stray, torn, before>>

(* The last statement of setup_idt; loader_main prints one more line. *)
Sti ==
    /\ running = "main"
    /\ pc["main"] = "next"
    /\ ~IFlag
    /\ IFlag' = TRUE
    /\ left' = [left EXCEPT !["main"] = LateLen]
    /\ UNCHANGED <<Screen, pc, running, irqs>>

(* loader_main ends in a loop around hlt. *)
Halt ==
    /\ running = "main"
    /\ pc["main"] = "next"
    /\ IFlag
    /\ Goto("main", "hlt")
    /\ UNCHANGED <<Screen, left, running, IFlag, irqs>>

(* An interrupt gate entered: IF is off in the handler, so it is not itself *)
(* interrupted.  clockirq prints nothing, kbdirq and common_irq a line.     *)
Interrupt ==
    /\ running = "main"
    /\ IFlag
    /\ irqs < MaxIrqs
    /\ irqs' = irqs + 1
    /\ running' = "irq"
    /\ \E n \in 0 .. IrqLen : left' = [left EXCEPT !["irq"] = n]
    /\ UNCHANGED <<Screen, pc, IFlag>>

(* sti; iretd: no interrupt is taken between the two. *)
Iret ==
    /\ running = "irq"
    /\ pc["irq"] = "next"
    /\ left["irq"] = 0
    /\ running' = "main"
    /\ UNCHANGED <<Screen, pc, left, IFlag, irqs>>

Next ==
    \/ \E p \in Contexts : putchar(p)
    \/ Sti \/ Halt \/ Interrupt \/ Iret

Spec == Init /\ [][Next]_vars

-----------------------------------------------------------------------------

TypeOK ==
    /\ vram \in [Offsets -> Cells]
    /\ m_CursorX \in Int
    /\ m_CursorY \in Int
    /\ pc \in [Contexts -> Labels]
    /\ ch \in [Contexts -> Chars]
    /\ \A p \in Contexts : pc[p] = "glyph" => ch[p] \in Glyphs
    /\ regX \in [Contexts -> Int]
    /\ regY \in [Contexts -> Int]
    /\ idx \in [Contexts -> Int]
    /\ left \in [Contexts -> Nat]
    /\ running \in Contexts
    /\ IFlag \in BOOLEAN
    /\ irqs \in Nat
    /\ stray \in BOOLEAN
    /\ torn \in BOOLEAN
    /\ before \in [screen : [Offsets -> Cells], x : Int, y : Int]

(* Where the cursor may be while context p is at label l of putchar. *)
CursorAt(l, x, y) ==
    /\ l \in {"next", "hlt"} => x \in 0 .. Cols - 1 /\ y \in 0 .. Rows
    /\ l \in {"copy", "dec"} => x \in 0 .. Cols - 1 /\ y = Rows
    /\ l \in {"clear", "nlrow", "tab", "glyph", "advance"}
                              => x \in 0 .. Cols - 1 /\ y \in 0 .. Rows - 1
    /\ l = "nlcol"            => x \in 0 .. Cols - 1 /\ y \in 1 .. Rows
    /\ l = "wrap"             => x \in 0 .. Cols /\ y \in 0 .. Rows - 1
    /\ l = "wrapx"            => x = Cols /\ y \in 0 .. Rows - 1
    /\ l = "wrapy"            => x = 0 /\ y \in 0 .. Rows - 1

(* As long as no handler printed inside a putchar of the boot thread, the   *)
(* cursor follows the code: in particular scroll_up's test for exactly Rows *)
(* never misses, and the wrap after a tab or a glyph lands on column 0.     *)
CursorOnScreen ==
    ~torn =>
        IF \E p \in Contexts : Inside(p)
        THEN \A p \in Contexts : Inside(p) => CursorAt(pc[p], m_CursorX, m_CursorY)
        ELSE CursorAt("next", m_CursorX, m_CursorY)

(* ... and every store of putchar falls on one of the Rows * Cols cells. *)
WritesOnScreen == ~torn => ~stray

(* Nothing more is promised once a handler has printed inside a putchar of  *)
(* the boot thread, but one thing: with stale copies and two wraps of one   *)
(* line end the column goes below zero and the row beyond Rows, yet what    *)
(* putchar is about to store never lies before VGABASE.                     *)
NeverBeforeScreen ==
    \A p \in Contexts :
        /\ pc[p] = "glyph" =>
              \A x \in SeenX(p), y \in SeenY(p) : y * Cols + x >= 0
        /\ pc[p] = "clear" /\ idx[p] < Cols =>
              \A y \in SeenY(p) : y * Cols + idx[p] >= 0

(* Why: the boot thread runs only when no handler is inside putchar, only   *)
(* one context is inside an untorn putchar, and its register copies are     *)
(* what memory holds.                                                       *)
HandlersFinish ==
    /\ pc["irq"] # "hlt"
    /\ running = "main" => ~Inside("irq")

OneInside == ~torn => \A p, q \in Contexts : Inside(p) /\ Inside(q) => p = q

CopiesFresh ==
    ~torn => \A p \in Contexts : Inside(p) =>
                /\ regX[p] = m_CursorX
                /\ regY[p] = m_CursorY
                /\ pc[p] = "clear" => idx[p] >= 0

IInv ==
    /\ TypeOK
    /\ HandlersFinish
    /\ OneInside
    /\ CopiesFresh
    /\ CursorOnScreen
    /\ WritesOnScreen

(* The console implements Terminal: between two characters its cells and   *)
(* cursor are the terminal's; inside a putchar the terminal still shows    *)
(* what was there before.                                                  *)
Settled == ~torn /\ \A p \in Contexts : ~Inside(p)
Shown   == IF Settled THEN [screen |-> vram, x |-> m_CursorX, y |-> m_CursorY]
                      ELSE before

T == INSTANCE Terminal WITH
        page   <- [l \in 0 .. Rows - 1 |-> [k \in 0 .. Cols - 1 |->
                      Shown.screen[l * Cols + k]]],
        line   <- IF Shown.y = Rows THEN Rows - 1 ELSE Shown.y,
        column <- Shown.x,
        ended  <- (Shown.y = Rows)

ImplementsTerminal == T!Spec

=============================================================================
