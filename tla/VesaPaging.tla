----------------------------- MODULE VesaPaging -----------------------------
(***************************************************************************)
(* The 32-bit head's page tables and the frame buffer: the head            *)
(* (X86/mini-head-x86.asm) asks the VESA BIOS about its mode, builds a page *)
(* directory and two page tables at 0x5000, turns paging on and enters the *)
(* loader, whose first act is vesa_information (X86/vesa.c): it puts a     *)
(* third table in use and then fills it, with paging on and no flush, and  *)
(* draws.  Addresses are counted in pages of PageBytes bytes; a table has  *)
(* N entries, and page p is entry p % N of the table that entry p \div N   *)
(* of the page directory names.                                            *)
(***************************************************************************)
EXTENDS Integers

CONSTANTS
    N, PageBytes,   \* 1024 and 4096
    HighPde,        \* the second entry the head uses: 0x3c0
    CodeLimit, DataLimit,
                    \* last pages of the head's code and flat data segments, which
                    \* cs, ds and ss name until setup_gdt: 0x7ff and 0xf07ff
    Loader, Stack, Dest, Source, Blocks,
                    \* pages of the loader's code and stack, of 0x300000, of the
                    \* BIOS's table and of 0x90000
    Bioses,         \* records [ctrl, mode]: the two blocks, read as vbe_mode_info
    Garbage         \* what memory may hold where a table will be

PD   == 5           \* 0x5000
T1   == 6
T2   == 7
T3   == 8
Head == 9           \* 0x9000, the head; its first bytes become a struct pm_meta

Low   == 0 .. N - 1
Pages == 0 .. N * N - 1

(* A table entry is a frame and the bit Present. *)
Entry(f, p) == [pfn |-> f, P |-> p]

ASSUME LayoutAssumption ==
    /\ N \in Nat /\ N > Head
    /\ PageBytes \in Nat \ {0}
    /\ HighPde \in 1 .. N - 1
    /\ CodeLimit \in Pages /\ DataLimit \in Pages
    /\ CodeLimit >= N - 1 /\ DataLimit >= N - 1
    /\ {Loader, Stack, Dest, Source, Blocks} \subseteq Low \ {PD, T1, T2, T3}
    /\ \A g \in Garbage : g \in [Low -> [pfn : Pages, P : BOOLEAN]]
    /\ \A b \in Bioses : \A v \in {b.ctrl, b.mode} :
          /\ v.framebuffer \in Pages
          /\ v.pitch \in Nat /\ v.width \in Nat /\ v.height \in Nat /\ v.bpp \in Nat

VARIABLES
    pc, bios,
    mem,        \* the frames of the tables
    blocks,     \* what is at 0x90000 and 0x90200, by offset
    paging,     \* CR0.PG
    i, pfn,     \* the loop that fills the table
    vmis,       \* framebuffer, pitch, width, height, bpp of vesa.c
    y,          \* the row drawn next
    drawn       \* history: pages drawn to, with the frames they mapped to

vars == <<pc, bios, mem, blocks, paging, i, pfn, vmis, y, drawn>>

None == [framebuffer |-> 0, pitch |-> 0, width |-> 0, height |-> 0, bpp |-> 0]

Init ==
    /\ pc = "set_vesa_model"
    /\ bios \in Bioses
    /\ \E g \in Garbage : mem = [f \in {PD, T1, T2, T3} |-> g]
    /\ blocks = [o \in {0, 512} |-> None]
    /\ paging = FALSE
    /\ i = 0 /\ pfn = 0 /\ y = 0
    /\ vmis = None
    /\ drawn = {}

-----------------------------------------------------------------------------
(* The frame a page maps to, in a set, or the empty set. *)
Walk(p) ==
    LET pde == mem[PD][p \div N]
        pte == mem[pde.pfn][p % N]
    IN  IF pde.P /\ pte.P THEN {pte.pfn} ELSE {}

(* A step of the loader needs its code, its stack and the data it accesses *)
(* where they are, and within its segments.  Otherwise it faults, without  *)
(* a handler, or goes on with something else.                              *)
InPlace(data) ==
    /\ Loader <= CodeLimit
    /\ \A p \in {Stack} \cup data : p <= DataLimit
    /\ \A p \in {Loader, Stack} \cup data : Walk(p) = {p}

Step(at, data, effect) ==
    /\ pc = at
    /\ IF InPlace(data) THEN effect
       ELSE pc' = "lost" /\ UNCHANGED <<mem, i, pfn, vmis, y, drawn>>
    /\ UNCHANGED <<bios, blocks, paging>>

-----------------------------------------------------------------------------
(* The head: functions 4f00 and 4f01 store the controller's block at        *)
(* 0x9000:0 and the mode's at 0x9000:0200.  What 4f0a answers goes over the *)
(* head's first jump.                                                      *)
set_vesa_model ==
    /\ pc = "set_vesa_model"
    /\ blocks' = [o \in {0, 512} |-> IF o = 0 THEN bios.ctrl ELSE bios.mode]
    /\ pc' = "paging"
    /\ UNCHANGED <<bios, mem, paging, i, pfn, vmis, y, drawn>>

(* Two entries of the directory; the pages of the first table are present, *)
(* those of the second are not.                                            *)
HeadTables(present) ==
    [mem EXCEPT
        ![PD] = [k \in Low |-> IF k = 0 THEN Entry(T1, TRUE)
                               ELSE IF k = HighPde THEN Entry(T2, TRUE) ELSE Entry(0, FALSE)],
        ![T1] = [k \in Low |-> Entry(k, TRUE)],
        ![T2] = [k \in Low |-> Entry(k, present)]]

(* Variant: both tables filled with the same entries. *)
AllPresent ==
    /\ pc = "paging"
    /\ mem' = HeadTables(TRUE)
    /\ paging' = TRUE
    /\ pc' = "present"
    /\ UNCHANGED <<bios, blocks, i, pfn, vmis, y, drawn>>

Paging ==
    /\ pc = "paging"
    /\ mem' = HeadTables(FALSE)
    /\ paging' = TRUE
    /\ pc' = "present"
    /\ UNCHANGED <<bios, blocks, i, pfn, vmis, y, drawn>>

(* Entry 9 of the second table; then the loader is placed and entered.     *)
SetPresent ==
    /\ pc = "present"
    /\ mem' = [mem EXCEPT ![T2][9] = Entry(9, TRUE)]
    /\ pc' = "copy"
    /\ UNCHANGED <<bios, blocks, paging, i, pfn, vmis, y, drawn>>

-----------------------------------------------------------------------------
(* vesa_information. *)

CopyTable ==
    Step("copy", {Head, Source, Dest},
         pc' = "info" /\ UNCHANGED <<mem, i, pfn, vmis, y, drawn>>)

(* The block at 0x90000. *)
ReadInfo ==
    Step("info", {Blocks},
         /\ vmis' = blocks[0]
         /\ pfn' = vmis'.framebuffer
         /\ pc' = "pde"
         /\ UNCHANGED <<mem, i, y, drawn>>)

pde_idx == vmis.framebuffer \div N
pte_idx == vmis.framebuffer % N         \* computed, and not used

(* The table is in use from here on, filled or not. *)
SetPde ==
    Step("pde", {PD},
         /\ mem' = [mem EXCEPT ![PD][pde_idx] = Entry(T3, TRUE)]
         /\ pc' = "fill"
         /\ UNCHANGED <<i, pfn, vmis, y, drawn>>)

(* e[i] = pfn++ << 12 | 0x3, for i below a bound; 20 bits of pfn remain.    *)
Fill(bound) ==
    Step("fill", {T3},
         /\ mem' = [mem EXCEPT ![T3][i] = Entry(pfn % (N * N), TRUE)]
         /\ pfn' = pfn + 1
         /\ i' = i + 1
         /\ pc' = IF i' < bound THEN "fill" ELSE "draw"
         /\ UNCHANGED <<vmis, y, drawn>>)

(* Variant: the last entry forgotten. *)
FillLess == Fill(N - 1)

FillTable == Fill(N)

(* The pages of the four bytes stored for each pixel of the left half of a *)
(* row.                                                                    *)
RowPages(r) ==
    {vmis.framebuffer + (r * vmis.pitch + x * (vmis.bpp \div 8) + b) \div PageBytes :
        x \in 0 .. vmis.width \div 2 - 1, b \in {0, 3}}

DrawRow ==
    /\ y < vmis.height
    /\ Step("draw", {},
            IF \A p \in RowPages(y) : p <= DataLimit /\ Walk(p) # {}
            THEN /\ drawn' = drawn \cup UNION {{p} \X Walk(p) : p \in RowPages(y)}
                 /\ y' = y + 1
                 /\ UNCHANGED <<pc, mem, i, pfn, vmis>>
            ELSE pc' = "lost" /\ UNCHANGED <<mem, i, pfn, vmis, y, drawn>>)

Return ==
    /\ y >= vmis.height
    /\ Step("draw", {}, pc' = "loader_main" /\ UNCHANGED <<mem, i, pfn, vmis, y, drawn>>)

Next ==
    \/ set_vesa_model \/ Paging \/ SetPresent
    \/ CopyTable \/ ReadInfo \/ SetPde \/ FillTable \/ DrawRow \/ Return

Spec == Init /\ [][Next]_vars

-----------------------------------------------------------------------------

Switched == pc \in {"fill", "draw", "loader_main", "lost"}

(* The frame buffer's table, although it is put in use before it is filled, *)
(* disturbs no other mapping: the first 4 MB, where code, stack and the     *)
(* tables are, stay in place, and of the pages at 0xf0000000 only           *)
(* 0xf0009000 is there, so that the test store to 0xf000A000 faults.        *)
(* Either holds unless the frame buffer's own 4 MB are the ones.            *)
MappingsKept ==
    paging =>
        /\ (Switched => pde_idx # 0) => \A p \in Low : Walk(p) = {p}
        /\ (Switched => pde_idx # HighPde) =>
              \A k \in Low : Walk(HighPde * N + k) =
                                 IF k = 9 /\ pc # "present" THEN {9} ELSE {}

(* The last page the picture needs. *)
LastPage ==
    vmis.framebuffer + ((vmis.height - 1) * vmis.pitch
                           + (vmis.width \div 2 - 1) * (vmis.bpp \div 8) + 3) \div PageBytes

(* vesa_information comes to its end except for a frame buffer in the first *)
(* 4 MB -- the code loses its own pages when the table is put in use -- or  *)
(* a picture that reaches past the 4 MB that one table maps, or past the    *)
(* limit of the head's data segment; and no picture that reaches past that  *)
(* limit lets it come to its end.                                          *)
LostOnlyWhere ==
    /\ pc = "lost" => \/ pde_idx = 0
                      \/ LastPage \div N > pde_idx
                      \/ LastPage > DataLimit
    /\ pc = "loader_main" /\ vmis.height > 0 /\ vmis.width \div 2 > 0
          => LastPage <= DataLimit

(* What is drawn lands where it is meant, that is at the address's own      *)
(* frame, for a frame buffer on a 4 MB boundary; for any other one it is    *)
(* displaced by as much as the frame buffer is off the boundary, because    *)
(* entry 0 of the table and not entry pte_idx gets the first frame.         *)
(* Nothing is drawn outside the frame buffer's 4 MB, but for a picture that *)
(* reaches from there to 0xf0009000: its rows overwrite the head.           *)
PixelsLand ==
    \A d \in drawn :
        \/ d[1] \div N = pde_idx /\ d[2] = (d[1] + pte_idx) % (N * N)
        \/ pde_idx < HighPde /\ d = <<HighPde * N + 9, 9>>

=============================================================================
