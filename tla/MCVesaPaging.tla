---------------------------- MODULE MCVesaPaging ----------------------------
(***************************************************************************)
(* VesaPaging with tables of 16 entries and pages of 64 bytes: frame       *)
(* buffers in the first table's pages, on and off a table's boundary, in   *)
(* the pages the head uses a second table for, in the last ones of the     *)
(* head's data segment and behind its limit; pictures that fill a table's   *)
(* pages exactly, are too large, or empty, and one whose second row is at   *)
(* the second table's entry 9.  Memory holds the same entry everywhere, or  *)
(* the identity, as after a warm start.                                    *)
(***************************************************************************)
EXTENDS VesaPaging

Block(fb, pitch, width, height) ==
    [framebuffer |-> fb, pitch |-> pitch, width |-> width, height |-> height, bpp |-> 24]

MCBioses ==
    {[ctrl |-> Block(fb, 128, size[1], size[2]), mode |-> Block(192, 128, 84, 8)] :
        fb \in {0, 3, 64, 69, 192, 197, 208, 240},
        size \in {<<84, 8>>, <<86, 8>>, <<40, 9>>, <<40, 2>>, <<40, 0>>, <<0, 3>>}}
    \cup {[ctrl |-> Block(184, 17 * 64, 8, 3), mode |-> Block(192, 128, 84, 8)]}

MCGarbage ==
    {[k \in Low |-> e] : e \in [pfn : {0, 8, 200}, P : BOOLEAN]}
        \cup {[k \in Low |-> Entry(k, TRUE)]}

(* vesa.c calls the field framebuffer it takes the "physical address of the *)
(* linear frame buffer; write here to draw to the screen": what it draws   *)
(* with is the block the BIOS gave for the mode.                           *)
ModeBlockRead == Switched => vmis = bios.mode

=============================================================================
