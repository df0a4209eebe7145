--------------------------- MODULE LongModePaging ---------------------------
(***************************************************************************)
(* The page tables of the 64-bit boot: built with paging off by            *)
(* AMD64/mini-head-x64.asm in the frames 2 .. 8 of uncleared memory, then  *)
(* extended by mm_setup of AMD64/mm.c through the very translation they    *)
(* define, by way of a slot of the top-level table that points to itself.  *)
(*                                                                         *)
(* An address is a 5-tuple: the four table indices and the entry within    *)
(* the page.  A table entry is the frame it points to, or Absent; the      *)
(* other bits written (0x23: present, writable, accessed) never vary.      *)
(***************************************************************************)
EXTENDS Integers

CONSTANTS
    N,          \* entries of a table (512 in the code)
    SelfSlot,   \* slot of the self-map (0x1ED)
    DevSlot,    \* top-level slot of the address mm_setup maps (0x1E0)
    Spare,      \* first of the three frames mm_setup makes tables of (0x400)
    ApicFrame,  \* the frame mm_setup maps (0xfee00)
    Copies,     \* numbers of 64 bits per address of 48 (2^16)
    Frames,     \* all page frames
    Absent,     \* the entry that is not present
    Memories    \* what memory may hold when the boot code starts

Index   == 0 .. N - 1
Entries == Frames \cup {Absent}

ASSUME SizeAssumption ==
    /\ N \in Nat
    /\ N >= 8
    /\ SelfSlot \in 1 .. N - 1
    /\ DevSlot \in 1 .. N - 1
    /\ SelfSlot # DevSlot
    /\ Copies \in Nat \ {0}

ASSUME FrameAssumption ==
    /\ 0 .. 4 * N - 1 \subseteq Frames
    /\ Spare \in Nat
    /\ Spare > 9
    /\ {Spare, Spare + 1, Spare + 2} \subseteq Frames
    /\ ApicFrame \in Frames
    /\ Absent \notin Frames

ASSUME MemoryAssumption ==
    Memories \subseteq [Frames -> [Index -> Entries]]

(* Where the head puts its tables. *)
PML4 == 2
PDPT == 3
PD   == 4
PT   == 5

BootTables == 2 .. 8
NewTables  == {Spare, Spare + 1, Spare + 2}

VARIABLES
    mem,        \* the entries every frame holds
    mem0,       \* history: the same when the boot code started
    pc,         \* the next piece of code
    esi,        \* the entry the loops write next: frame and index
    ebx,        \* the frame number lp_map_2M writes next
    paging,     \* CR0.PG
    used        \* history: addresses translated since paging is on

vars == <<mem, mem0, pc, esi, ebx, paging, used>>

-----------------------------------------------------------------------------

(* One level of the table walk, and the walk of the processor. *)
Entry(f, i) == IF f = Absent THEN Absent ELSE mem[f][i]

Walk(a) == Entry(Entry(Entry(Entry(PML4, a[1]), a[2]), a[3]), a[4])

Addresses == Index \X Index \X Index \X Index \X Index

(* Variant: without the shift. *)
PteUnshifted(a) == <<SelfSlot, a[2], a[3], a[4], a[5]>>

(* The address of the entry that maps an address: the top index becomes the *)
(* self-map slot and all others move down by one.                           *)
get_pte_of_va(a) == <<SelfSlot, a[1], a[2], a[3], a[4]>>

Device == <<DevSlot, 0, 0, 0, 0>>
Pte == get_pte_of_va(Device)
Pde == get_pte_of_va(Pte)
Ppe == get_pte_of_va(Pde)
Pxe == get_pte_of_va(Ppe)

(* Entry i of the frame f below 2 * N, addressed by its number. *)
Linear(f, i) == <<0, 0, f \div N, f % N, i>>

Identity == {<<0, 0, t, i, 0>> : t \in {0, 1}, i \in Index}

-----------------------------------------------------------------------------

Init ==
    /\ mem \in Memories
    /\ mem0 = mem
    /\ pc = "clearPML4Es"
    /\ esi = [f |-> PML4, i |-> 0]
    /\ ebx = 0
    /\ paging = FALSE
    /\ used = {}

(* add esi, 8 *)
NextEntry(p) ==
    IF p.i + 1 < N THEN [f |-> p.f, i |-> p.i + 1] ELSE [f |-> p.f + 1, i |-> 0]

clearPML4Es ==
    /\ pc = "clearPML4Es"
    /\ mem' = [mem EXCEPT ![esi.f][esi.i] = Absent]
    /\ esi' = NextEntry(esi)
    /\ pc' = IF esi.i + 1 < N THEN pc ELSE "link"
    /\ UNCHANGED <<mem0, ebx, paging, used>>

(* Variants: the second page table forgotten, a third one linked. *)
LinkOneTable ==
    /\ pc = "link"
    /\ mem' = [mem EXCEPT ![PML4][0] = PDPT, ![PDPT][0] = PD, ![PD][0] = PT]
    /\ esi' = [f |-> PT, i |-> 0]
    /\ ebx' = 0
    /\ pc' = "lp_map_2M"
    /\ UNCHANGED <<mem0, paging, used>>

LinkThreeTables ==
    /\ pc = "link"
    /\ mem' = [mem EXCEPT ![PML4][0] = PDPT, ![PDPT][0] = PD,
                          ![PD][0] = PT, ![PD][1] = PT + 1, ![PD][2] = PT + 2]
    /\ esi' = [f |-> PT, i |-> 0]
    /\ ebx' = 0
    /\ pc' = "lp_map_2M"
    /\ UNCHANGED <<mem0, paging, used>>

(* The first entries of the upper tables; what else the tables at 0x3000    *)
(* and 0x4000 hold stays.                                                   *)
LinkTables ==
    /\ pc = "link"
    /\ mem' = [mem EXCEPT ![PML4][0] = PDPT,
                          ![PDPT][0] = PD,
                          ![PD][0] = PT,
                          ![PD][1] = PT + 1]
    /\ esi' = [f |-> PT, i |-> 0]
    /\ ebx' = 0
    /\ pc' = "lp_map_2M"
    /\ UNCHANGED <<mem0, paging, used>>

(* Variant: one entry too many. *)
MapOneMore ==
    /\ pc = "lp_map_2M"
    /\ mem' = [mem EXCEPT ![esi.f][esi.i] = ebx]
    /\ esi' = NextEntry(esi)
    /\ ebx' = ebx + 1
    /\ pc' = IF ebx < 4 * N THEN pc ELSE "enable"
    /\ UNCHANGED <<mem0, paging, used>>

lp_map_2M ==
    /\ pc = "lp_map_2M"
    /\ mem' = [mem EXCEPT ![esi.f][esi.i] = ebx]
    /\ esi' = NextEntry(esi)
    /\ ebx' = ebx + 1
    /\ pc' = IF ebx + 1 < 4 * N THEN pc ELSE "enable"
    /\ UNCHANGED <<mem0, paging, used>>

(* CR3, PAE, LME, PG; from here on all code, data and the stack are reached *)
(* through the identity map.                                                *)
EnablePaging ==
    /\ pc = "enable"
    /\ paging' = TRUE
    /\ used' = Identity
    /\ pc' = "self"
    /\ UNCHANGED <<mem, mem0, esi, ebx>>

(* A store of entry e at address a, or a page fault. *)
Store(a, e, next) ==
    IF Walk(a) = Absent
    THEN pc' = "fault" /\ UNCHANGED <<mem, used>>
    ELSE /\ mem' = [mem EXCEPT ![Walk(a)][a[5]] = e]
         /\ used' = used \cup {a}
         /\ pc' = next

Registers == <<mem0, esi, ebx, paging>>

(* Variants: the self-map in the slot in use, the last store to the table's *)
(* own entry.                                                               *)
MapSelfFirst == pc = "self" /\ Store(Linear(PML4, 0), PML4, "pxe") /\ UNCHANGED Registers
SetPteInPde  == pc = "pte"  /\ Store(Pde, ApicFrame, "apic") /\ UNCHANGED Registers

MapSelf == pc = "self" /\ Store(Linear(PML4, SelfSlot), PML4, "pxe") /\ UNCHANGED Registers
SetPxe  == pc = "pxe"  /\ Store(Pxe, Spare, "ppe")     /\ UNCHANGED Registers
SetPpe  == pc = "ppe"  /\ Store(Ppe, Spare + 1, "pde") /\ UNCHANGED Registers
SetPde  == pc = "pde"  /\ Store(Pde, Spare + 2, "pte") /\ UNCHANGED Registers
SetPte  == pc = "pte"  /\ Store(Pte, ApicFrame, "apic") /\ UNCHANGED Registers

(* APIC_test reads and writes registers of the mapped page, then loader_main *)
(* halts for good.                                                           *)
AccessApic ==
    /\ pc = "apic"
    /\ IF Walk(Device) = Absent
       THEN pc' = "fault" /\ UNCHANGED used
       ELSE pc' = "halt" /\ used' = used \cup {Device}
    /\ UNCHANGED <<mem, Registers>>

Next ==
    \/ clearPML4Es \/ LinkTables \/ lp_map_2M \/ EnablePaging
    \/ MapSelf \/ SetPxe \/ SetPpe \/ SetPde \/ SetPte \/ AccessApic

Spec == Init /\ [][Next]_vars

-----------------------------------------------------------------------------

PCs == {"clearPML4Es", "link", "lp_map_2M", "enable", "self",
        "pxe", "ppe", "pde", "pte", "apic", "halt", "fault"}

TypeOK ==
    /\ mem \in [Frames -> [Index -> Entries]]
    /\ mem0 \in [Frames -> [Index -> Entries]]
    /\ pc \in PCs
    /\ esi \in [f : 2 .. 9, i : Index]
    /\ ebx \in 0 .. 4 * N
    /\ paging \in BOOLEAN
    /\ used \subseteq Addresses

(* From the moment paging is on, the code that runs, its stack and the VGA  *)
(* memory are where they were: every page below 2 * N maps to its own frame *)
(* -- also after mm_setup has rewritten tables through the tables.          *)
IdentityMapped ==
    paging => \A a \in Identity : Walk(a) = a[3] * N + a[4]

(* No store of mm_setup and no APIC access faults: each of the four stores  *)
(* goes through the entry the one before it wrote.                          *)
NoFault == pc # "fault"

(* APIC_test reaches the local APIC and nothing else. *)
ApicMapped == pc \in {"apic", "halt"} => Walk(Device) = ApicFrame

(* Tables are written only in the frames meant for them: not over the head  *)
(* itself, which starts where the last table ends.                          *)
OnlyTablesWritten ==
    \A f \in Frames : mem[f] # mem0[f] => f \in BootTables \cup NewTables

(* Why: what the tables hold, stage by stage. *)
Cleared ==
    /\ pc = "clearPML4Es" =>
          esi.f = PML4 /\ \A i \in Index : i < esi.i => mem[PML4][i] = Absent
    /\ pc = "link" => \A i \in Index : mem[PML4][i] = Absent

Linked ==
    pc \notin {"clearPML4Es", "link"} =>
        mem[PML4][0] = PDPT /\ mem[PDPT][0] = PD /\ mem[PD][0] = PT /\ mem[PD][1] = PT + 1

Filled ==
    /\ pc = "lp_map_2M" =>
          /\ esi.f \in PT .. PT + 3
          /\ ebx = (esi.f - PT) * N + esi.i
          /\ \A f \in {PT, PT + 1}, i \in Index :
                (f < esi.f \/ (f = esi.f /\ i < esi.i)) => mem[f][i] = (f - PT) * N + i
    /\ pc \notin {"clearPML4Es", "link", "lp_map_2M"} =>
          \A f \in {PT, PT + 1}, i \in Index : mem[f][i] = (f - PT) * N + i

Extended ==
    /\ pc \in {"pxe", "ppe", "pde", "pte", "apic", "halt"} => mem[PML4][SelfSlot] = PML4
    /\ pc \in {"ppe", "pde", "pte", "apic", "halt"} => mem[PML4][DevSlot] = Spare
    /\ pc \in {"pde", "pte", "apic", "halt"} => mem[Spare][0] = Spare + 1
    /\ pc \in {"pte", "apic", "halt"} => mem[Spare + 1][0] = Spare + 2
    /\ pc \in {"apic", "halt"} => mem[Spare + 2][0] = ApicFrame

UsedSoFar ==
    used \subseteq
        (IF paging THEN Identity ELSE {})
        \cup (IF pc \in {"pxe", "ppe", "pde", "pte", "apic", "halt"}
              THEN {Linear(PML4, SelfSlot)} ELSE {})
        \cup (IF pc \in {"ppe", "pde", "pte", "apic", "halt"} THEN {Pxe} ELSE {})
        \cup (IF pc \in {"pde", "pte", "apic", "halt"} THEN {Ppe} ELSE {})
        \cup (IF pc \in {"pte", "apic", "halt"} THEN {Pde} ELSE {})
        \cup (IF pc \in {"apic", "halt"} THEN {Pte} ELSE {})
        \cup (IF pc = "halt" THEN {Device} ELSE {})

PagingOn == paging <=> pc \in {"self", "pxe", "ppe", "pde", "pte", "apic", "halt"}

IInv ==
    /\ TypeOK
    /\ NoFault
    /\ PagingOn
    /\ Cleared
    /\ Linked
    /\ Filled
    /\ Extended
    /\ UsedSoFar
    /\ OnlyTablesWritten

(* mm_setup needs no TLB flush (the code has none): no step changes how an  *)
(* address translates that was translated before.                          *)
NoStaleTranslation ==
    [][\A a \in used : Walk(a)' = Walk(a)]_vars

(* In memory that was all zero, the boot's tables map the identity pages,   *)
(* the APIC page and -- through the self-map -- tables, and nothing else.   *)
ZeroedFirst == \A f \in Frames, i \in Index : mem0[f][i] = Absent

NothingElseMapped ==
    (paging /\ ZeroedFirst) =>
        \A a \in Index \X Index \X Index \X Index :
            (a[1] # SelfSlot /\ Walk(a) # Absent) =>
                \/ a[1] = 0 /\ a[2] = 0 /\ a[3] \in {0, 1}
                \/ a = <<DevSlot, 0, 0, 0>>

-----------------------------------------------------------------------------
(* The arithmetic of get_pte_of_va and of map-pte.lua, for entries of 8     *)
(* bytes: an address is a number below N^4 pages of N entries.              *)

Page == 8 * N

Lower48 == N * N * N * N * Page

Width64 == Copies * Lower48

(* A canonical address: the bits above the top index repeat its sign. *)
Canonical(x) == IF x < Lower48 \div 2 THEN x ELSE x + (Width64 - Lower48)

Flat(a) ==
    Canonical(((((a[1] * N + a[2]) * N + a[3]) * N + a[4]) * N + a[5]) * 8)

PteBase == Canonical(SelfSlot * (N * N * N * Page))

(* Variant: the sign bits not masked. *)
get_pte_unmasked(x) == ((x \div Page) * 8 + PteBase) % Width64

get_pte(x) == (((x % Lower48) \div Page) * 8 + PteBase) % Width64

(* What the processor makes of a number: the bits above are not looked at. *)
Indices(x) ==
    LET entry == (x % Lower48) \div 8
    IN  << entry \div (N * N * N * N), (entry \div (N * N * N)) % N,
           (entry \div (N * N)) % N, (entry \div N) % N, entry % N >>

(* Once the self-map is in place, the number the formula of mm.c (and of    *)
(* map-pte.lua) computes is, by the tables themselves, the address of the   *)
(* entry that maps a page: for any page, sign-extended addresses and the    *)
(* tables' own included, to which mm_setup applies it three times.          *)
PteFormula ==
    (paging /\ pc # "self") =>
        \A a \in Index \X Index \X Index \X Index \X {0} :
            LET p == Indices(get_pte(Flat(a)))
            IN  Walk(a) = Entry(Walk(p), p[5])

=============================================================================
