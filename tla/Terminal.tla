------------------------------ MODULE Terminal ------------------------------
(***************************************************************************)
(* What printf promises to its callers: a teletype of Rows lines of Cols   *)
(* cells.  Each character takes effect at once; lines move up by one when  *)
(* a character arrives after the bottom line was ended.  Nothing here      *)
(* knows of cell addresses, of the two cursor variables or of interrupts,  *)
(* except that a print nested inside a print voids the promise ("torn").   *)
(***************************************************************************)
EXTENDS Integers

CONSTANTS
    Glyphs,     \* characters that occupy a cell
    Rows, Cols, \* the screen
    Tab         \* distance between tab stops

Lines   == 0 .. Rows - 1
Columns == 0 .. Cols - 1
Cells   == Glyphs \cup {"bios", "blank"}
Chars   == Glyphs \cup {"nl", "tab"}

VARIABLES
    page,   \* the cells, line by line
    line,   \* the line the next glyph lands on
    column, \* and its column
    ended,  \* the bottom line was ended: make room before the next character
    torn    \* a print was nested inside the print of one character

vars == <<page, line, column, ended, torn>>

-----------------------------------------------------------------------------

Init ==
    /\ page = [l \in Lines |-> [k \in Columns |-> "bios"]]
    /\ line = 0
    /\ column = 0
    /\ ended = FALSE
    /\ torn = FALSE

(* The page with room made on its bottom line: all lines one up, the bottom *)
(* line still showing the text it held.                                     *)
Room ==
    IF ended
    THEN [l \in Lines |-> IF l + 1 \in Lines THEN page[l + 1] ELSE page[l]]
    ELSE page

EndLine ==
    /\ line' = IF line = Rows - 1 THEN line ELSE line + 1
    /\ ended' = (line = Rows - 1)

(* An ended line loses what it showed from the cursor on. *)
PutNewline ==
    /\ page' = [Room EXCEPT ![line] =
                    [k \in Columns |-> IF k < column THEN @[k] ELSE "blank"]]
    /\ column' = 0
    /\ EndLine

(* A tab skips cells without writing them. *)
PutTab ==
    /\ page' = Room
    /\ LET stop == Tab * (column \div Tab + 1)
       IN  IF stop < Cols
           THEN column' = stop /\ ended' = FALSE /\ line' = line
           ELSE column' = 0 /\ EndLine

PutGlyph(c) ==
    /\ page' = [Room EXCEPT ![line][column] = c]
    /\ IF column + 1 < Cols
       THEN column' = column + 1 /\ ended' = FALSE /\ line' = line
       ELSE column' = 0 /\ EndLine

Put(c) ==
    /\ ~torn
    /\ torn' = FALSE
    /\ \/ c = "nl" /\ PutNewline
       \/ c = "tab" /\ PutTab
       \/ c \in Glyphs /\ PutGlyph(c)

Tear ==
    /\ ~torn
    /\ torn' = TRUE
    /\ UNCHANGED <<page, line, column, ended>>

Next == Tear \/ \E c \in Chars : Put(c)

Spec == Init /\ [][Next]_vars

=============================================================================
