----------------------------- MODULE BootChain ------------------------------
(***************************************************************************)
(* From the image to the loader: mkimg builds it, the BIOS of a machine    *)
(* that has it on its floppy or hard disk reads the first sector, which    *)
(* (common/mini-mbr.asm) reads the next two, which (X86 and AMD64          *)
(* mini-head) read seventeen more and place the sections of the PE file    *)
(* they hold.  Every read may fail.                                        *)
(***************************************************************************)
EXTENDS MkImg

CONSTANTS
    Machines,   \* records [arch, drives, boot, longMode]
    Sections    \* section table of a loader.exe of a size: [va, vs, ptr, raw]

Drives == {0, 128}

ASSUME MachineAssumption ==
    Machines \subseteq [arch : {"x86", "x64"}, longMode : BOOLEAN, boot : Drives,
                       drives : [Drives -> {"image", "other", "none"}]]

(* The boot sector and the head are assembled to one and two full sectors. *)
(* The PE file's headers are in its first half sector, and its sections    *)
(* are apart in memory; all of this is in half sectors.                    *)
ASSUME FileAssumption ==
    \A fs \in FileSystems :
        /\ "mbr.bin" \in DOMAIN fs => fs["mbr.bin"] = 2
        /\ "head.bin" \in DOMAIN fs => fs["head.bin"] = 4
        /\ "loader.exe" \in DOMAIN fs =>
               LET table == Sections[fs["loader.exe"]]
               IN  /\ fs["loader.exe"] > 0
                   /\ table \in Seq([va : Nat, vs : Nat, ptr : Nat, raw : Nat])
                   /\ table # <<>>
                   /\ \A s, t \in DOMAIN table :
                         /\ table[s].ptr + table[s].raw <= fs["loader.exe"]
                         /\ s < t => table[s].va + table[s].vs <= table[t].va

VARIABLES
    machine,
    stage,      \* what the processor runs
    headMem,    \* memory at 0x9000, in half sectors
    peMem,      \* memory at 0xA000
    dest,       \* memory at 0x100000
    ecx,        \* sections LocateSections has still to place
    failed      \* history: a read failed

boot == <<machine, stage, headMem, peMem, dest, ecx, failed>>
vars == <<tool, boot>>

(* Variant: the loader's place as if the head had one sector. *)
EarlyStart     == 3

HEAD_SECTORS   == 2
LOADER_START   == 4
LOADER_SECTORS == 17

Table == Sections[disk["loader.exe"]]

Unread(sectors) == [k \in 1 .. 2 * sectors |-> Junk]

Init ==
    /\ MkImgInit
    /\ machine \in Machines
    /\ stage = "bios"
    /\ headMem = Unread(HEAD_SECTORS)
    /\ peMem = Unread(LOADER_SECTORS)
    /\ dest = <<>>
    /\ ecx = 0
    /\ failed = FALSE

-----------------------------------------------------------------------------
(* The BIOS (external).  What is in a drive: our image, no disk, or a disk *)
(* with something else.                                                    *)

Medium(d) ==
    CASE machine.drives[d] = "image" -> img
      [] machine.drives[d] = "other" -> [k \in 1 .. 64 |-> <<"other", k>>]
      [] machine.drives[d] = "none"  -> <<>>

Sector(d, first, n) == SubSeq(Medium(d), 2 * first - 1, 2 * (first + n - 1))

(* int 13h with ah = 2: n sectors from sector first on, counted from 1.    *)
(* Either all of them arrive in mem, or there is a carry or a smaller al   *)
(* and, unless the disk is shorter, all but the last did; behind a carry   *)
(* with a full al it may be either.                                        *)
BiosRead(d, first, n, mem) ==
    LET There(m) == 2 * (first + m - 1) <= Len(Medium(d))
        all  == IF There(n) THEN {Sector(d, first, n)} ELSE {}
        some == IF There(n - 1)
                THEN Sector(d, first, n - 1) \o SubSeq(mem, 2 * n - 1, 2 * n) ELSE mem
    IN  [carry : {FALSE}, al : {n}, mem : all]
            \cup [carry : BOOLEAN, al : {n - 1}, mem : {some}]
            \cup [carry : {TRUE}, al : {n}, mem : all \cup {some}]

BootSector ==
    /\ stage = "bios"
    /\ at = "return"
    /\ stage' = IF /\ Len(Medium(machine.boot)) >= 2
                   /\ Sector(machine.boot, 1, 1) = <<Half("mbr.bin", 1), Half("mbr.bin", 2)>>
                THEN "mbr" ELSE "no boot"
    /\ UNCHANGED <<tool, machine, headMem, peMem, dest, ecx, failed>>

-----------------------------------------------------------------------------
(* mini-mbr.asm: dl is still the drive the BIOS booted from; disk_error    *)
(* jumps to itself.                                                        *)

(* Variant: only the carry flag tested. *)
NoCarry(r, n) == ~r.carry

Good(r, n) == ~r.carry /\ r.al = n

MbrDiskLoad ==
    /\ stage = "mbr"
    /\ \E r \in BiosRead(machine.boot, 2, HEAD_SECTORS, headMem) :
          /\ headMem' = r.mem
          /\ stage' = IF Good(r, HEAD_SECTORS) THEN "head" ELSE "stopped"
          /\ failed' = ~Good(r, HEAD_SECTORS)
    /\ UNCHANGED <<tool, machine, peMem, dest, ecx>>

(* mini-head: disk_load_PE always reads drive 0; its disk_error halts with *)
(* interrupts enabled.                                                     *)
disk_load_PE ==
    /\ stage = "head"
    /\ \E r \in BiosRead(0, LOADER_START, LOADER_SECTORS, peMem) :
          /\ peMem' = r.mem
          /\ stage' = IF Good(r, LOADER_SECTORS) THEN "main" ELSE "hlt"
          /\ failed' = ~Good(r, LOADER_SECTORS)
    /\ UNCHANGED <<tool, machine, headMem, dest, ecx>>

(* The next timer tick ends the hlt, and the processor goes on into what   *)
(* the head stores behind it.                                              *)
TimerTick ==
    /\ stage = "hlt"
    /\ stage' = "lost"
    /\ UNCHANGED <<tool, machine, headMem, peMem, dest, ecx, failed>>

(* Variant: the comparison of cpuid's answer the other way round. *)
StopIfCapable ==
    /\ stage = "main"
    /\ stage' = IF machine.arch = "x64" /\ machine.longMode THEN "stopped" ELSE "pe"
    /\ UNCHANGED <<tool, machine, headMem, peMem, dest, ecx, failed>>

(* To protected and, in the 64-bit head, long mode, which the processor    *)
(* may lack; from here on interrupts are disabled.                         *)
EnterProtectedMode ==
    /\ stage = "main"
    /\ stage' = IF machine.arch = "x64" /\ ~machine.longMode THEN "stopped" ELSE "pe"
    /\ UNCHANGED <<tool, machine, headMem, peMem, dest, ecx, failed>>

(* The two signatures; load_pe_error is a hlt in one head, and in the      *)
(* other falls into memcpy and its ret.                                    *)
CheckPE ==
    /\ stage = "pe"
    /\ IF peMem[1] = Half("loader.exe", 1)
       THEN /\ stage' = "LocateSections"
            /\ ecx' = Len(Table)
       ELSE /\ stage' = IF machine.arch = "x64" THEN "stopped" ELSE "lost"
            /\ UNCHANGED ecx
    /\ UNCHANGED <<tool, machine, headMem, peMem, dest, failed>>

(* memcpy of the section's Misc.VirtualSize, whatever its SizeOfRawData;   *)
(* behind the sectors read lies whatever was there.                        *)
memcpy(to, from, count) ==
    [a \in DOMAIN dest \cup to .. to + count - 1 |->
        IF a \in to .. to + count - 1
        THEN IF from + (a - to) < Len(peMem) THEN peMem[from + (a - to) + 1] ELSE Junk
        ELSE dest[a]]

LocateSections ==
    /\ stage = "LocateSections"
    /\ LET s == Table[Len(Table) - ecx + 1]
       IN  dest' = memcpy(s.va, s.ptr, s.vs)
    /\ ecx' = ecx - 1
    /\ stage' = IF ecx' = 0 THEN "loader_main" ELSE "LocateSections"
    /\ UNCHANGED <<tool, machine, headMem, peMem, failed>>

Machine ==
    \/ BootSector \/ MbrDiskLoad \/ disk_load_PE \/ TimerTick
    \/ EnterProtectedMode \/ CheckPE \/ LocateSections

Next == (MkImgNext /\ UNCHANGED boot) \/ Machine

Spec == Init /\ [][Next]_vars /\ WF_vars(Next)

-----------------------------------------------------------------------------

(* The command lines of the makefiles, as far as the boot code relies on   *)
(* them: the inputs are mbr.bin, head.bin and loader.exe, in this order,   *)
(* and the first two are whole.                                            *)
ChainLine(args) ==
    \E p, q, r \in DOMAIN args :
        /\ p < q /\ q < r
        /\ \A k \in DOMAIN args : args[k].kind = "file" <=> k \in {p, q, r}
        /\ args[p].fname = "mbr.bin" /\ args[p].nsec \in {0, 1}
        /\ args[q].fname = "head.bin" /\ args[q].nsec \in {0, HEAD_SECTORS}
        /\ args[r].fname = "loader.exe"

ChainLines == \A args \in ArgLists : args = <<>> \/ ChainLine(args)

(* Nor do they cut a loader short, and it has no more than the head reads. *)
LoaderFits ==
    \A fs \in FileSystems :
        "loader.exe" \in DOMAIN fs =>
            /\ fs["loader.exe"] <= 2 * LOADER_SECTORS
            /\ \A args \in ArgLists : \A k \in DOMAIN args :
                  args[k].kind = "file" /\ args[k].fname = "loader.exe" =>
                      args[k].nsec = 0 \/ fs["loader.exe"] <= 2 * args[k].nsec

(* The head runs only when both its sectors arrived, and, on an image of    *)
(* the makefiles, they are head.bin.                                       *)
HeadRunsWhole ==
    stage \in {"head", "main", "pe", "LocateSections", "loader_main", "hlt", "lost"} =>
        headMem = [k \in 1 .. 4 |-> Half("head.bin", k)]

(* loader_main runs only with every initialised byte of every section of   *)
(* loader.exe at its address: no failed or short read, no other disk in    *)
(* drive 0, and nothing mkimg left out ends in a loader that is not the    *)
(* one that was linked.                                                    *)
LoaderRunsWhole ==
    stage = "loader_main" =>
        \A s \in DOMAIN Table :
            \A k \in 0 .. Table[s].vs - 1 :
                k < Table[s].raw =>
                    dest[Table[s].va + k] = Half("loader.exe", Table[s].ptr + k + 1)

(* The processor runs into data only after a failed read in the head, or   *)
(* in the 32-bit head when the disk in drive 0 is not ours.                *)
LostOnlyInHead ==
    stage = "lost" => failed \/ (machine.arch = "x86" /\ machine.drives[0] # "image")

(* A complete image in the floppy drive, booted from there by a processor  *)
(* that can run it, reaches loader_main unless a read fails.               *)
Capable ==
    /\ Built
    /\ machine.drives[0] = "image" /\ machine.drives[machine.boot] = "image"
    /\ machine.arch = "x64" => machine.longMode

Boots == <>(stage = "loader_main" \/ failed \/ (at = "return" /\ ~Capable))

=============================================================================
