# sbboot in TLA+

sbboot is a boot chain for PCs: a tool that builds a disk image, a boot sector,
a second stage ("head") for 32-bit and one for 64-bit processors, and a small
freestanding C "loader" with a text console, `printf`, interrupt handling and
page tables. Everything runs on one processor; what makes it hard is that each
part relies on machine state another part left (descriptor tables, page tables,
memory that is never cleared, disks, masks of the interrupt controllers), that
interrupt handlers share the console with the boot thread, and that there is no
debugger to tell what went wrong.

This directory holds TLA+ models of that code, the TLC runs that check them, and
proofs of their most important properties. Paths are relative to the repository;
`PROJECT.json` maps each definition to the lines it models.

## 1. Inventory

| Component | Source | State | Operations | Works with |
|---|---|---|---|---|
| image builder | `BUILD/mkimg.c`, makefiles | arguments, output file, a buffer | `parse_args`, copy each input, fill up | writes what the boot sector reads |
| boot sector | `common/mini-mbr.asm` | sectors at 0x9000 | `disk_load`, `disk_error` | BIOS; jumps to the head |
| heads | `X86/mini-head-x86.asm`, `AMD64/mini-head-x64.asm` | PE file at 0xA000, GDT, page tables (64-bit), memory map and VESA blocks at 0x8000, 0x90000 | memory probe, VESA query, `disk_load_PE`, mode switch, `IA_32e_paging`, `LocateSections` | BIOS; jumps to `loader_main` |
| text console | `common/printk.c` 393-455 | `m_CursorX`, `m_CursorY`, VGA memory | `putchar`, `scroll_up` | called by the boot thread and by handlers, no lock |
| formatted output | `common/printk.c` 1-391 | none between calls | `_doprnt`, `printf`, `sprintf` | every component prints |
| interrupt descriptors and handlers | `X86/idt.c` | `g_idt_table`, `__IDT_CS__` | `setup_idt_and_test`, `setup_idt`, the handlers | selectors from the GDT in force |
| interrupt controllers | `X86/idt.c` 312-331 | two 8259s | `init_8259_pic` | devices, BIOS masks |
| segment descriptors | `X86/gdt.c` | GDT, TSS | `setup_gdt` | replaces the head's GDT |
| long mode paging | `AMD64/mini-head-x64.asm` 288-437, `AMD64/mm.c` | tables in frames 2..8 and three more | build, self-map, `set_pte` | `AMD64/apic.c` uses the mapped page |
| local APIC test | `AMD64/apic.c` | the APIC's registers | `APIC_test` | needs `mm_setup` |
| memory probe | both heads (the 64-bit one does not call it) | `MemAbove1K` .. `MemOverview`, 12 ranges | `probe_memory` | BIOS; `loader_main` gets the address |
| 32-bit paging and VESA | `X86/mini-head-x86.asm` 215-387, `X86/vesa.c` | directory and tables at 0x5000 .. 0x8000, VESA blocks at 0x90000 | `set_vesa_model`, `paging`, `vesa_information` | BIOS; the first act of `loader_main` |
| VGA graphics demo | `X86/vga.c` | the card's registers | `write_regs`, `read_regs`, drawing | `demo_graphics` is behind the final loop of `loader_main` |
| hard disk reader | `X86/ReadHD.c` | the drive's task file | `ReadDisk` | no caller |

What can go wrong, per component, and what makes it correct:

* **image builder.** `fread` may return less than a sector and its result is
  ignored; the last sector may be incomplete; inputs may exceed `-n`; a missing
  input leaves part of an image. *Correct*: what the image holds, sector by
  sector, is what the command line asks for.
* **boot sector and heads.** Every read may fail or be short, with or without a
  carry; the head always reads drive 0; an error ends in a `hlt` with interrupts
  enabled. *Correct*: no code runs that is not complete, and a good machine boots.
* **console.** A handler may print between any two steps of `putchar`; the
  compiler may keep the cursor in registers; scrolling is deferred, and its test
  is for row 25 exactly. *Correct*: it behaves like a teletype, and all stores
  hit the screen.
* **formatted output.** What a directive sets must not reach the next one; `*`
  takes arguments; the most negative number; a format that ends early. *Correct*:
  the arguments stay in step, numbers read back, fields are as wide as asked.
* **interrupts.** Selector 0x10 is code before `setup_gdt` and data afterwards;
  the initialisation words clear the masks; nobody sends an end of interrupt;
  handlers execute `sti` before `iretd`. *Correct*: no interrupt at any time is
  fatal, none disturbs what it interrupts, none is lost.
* **paging.** Tables are built in memory that is not cleared, then rewritten
  through themselves with paging on and no flush. *Correct*: the running code
  stays mapped, no store faults, no translation in use changes.
* **memory probe.** The loop ends with the carry flag alone and counts no entries;
  code follows the room for them. *Correct*: `loader_main` finds each range once.
* **32-bit paging and VESA.** A third table is put in use before it is filled, in
  memory that is not cleared, and replaces the mapping of whatever 4 MB the BIOS
  names. *Correct*: code, stack and tables stay where they are, pixels land in
  the frame buffer.
* **VGA.** Index and data share ports, one port takes both in turn, registers lock
  one another, ports move with the mode. *Correct*: the card holds the dump, whatever
  state it was found in.
* **hard disk reader.** *Correct*: it asks for the sector it was called for.

`PROJECT.json` lists these hazards one by one with their lines.

## 2. The modules

| Module | Models | Extends or refines |
|---|---|---|
| `Terminal` | what `printf`'s callers may expect of the screen (abstract) | |
| `Console` | `scroll_up`, `putchar`, two contexts | implements `Terminal` |
| `ConsoleProofs` | theorems about `Console`, and that it implements `Terminal` | extends `Console` |
| `LongModePaging` | the head's tables, `mm_setup`, `APIC_test`'s access | |
| `LongModePagingProofs` | theorems about it | extends `LongModePaging` |
| `Pic8259` | the two interrupt controllers (external) | |
| `Interrupts` | `idt.c`, `gdt.c`, `loader_main` as programs on a small processor | extends `Pic8259` |
| `InterruptsProofs` | theorems about it | extends `Interrupts` |
| `MkImg` | `mkimg.c` | |
| `BootChain` | BIOS, boot sector, heads up to `loader_main` | extends `MkImg` |
| `BootChainProofs` | theorems about both | extends `BootChain` |
| `Format` | `_doprnt` and `printnum` | |
| `FormatProofs` | theorems about it | extends `Format` |
| `MemProbe` | `probe_memory`, and `MEM_INFO` as `loader_main` reads it | |
| `MemProbeProofs` | theorems about it | extends `MemProbe` |
| `VesaPaging` | the 32-bit head's VESA calls and page tables, `vesa_information` | |
| `VesaPagingProofs` | theorems about it | extends `VesaPaging` |
| `VgaDumps` | the twelve register dumps of `vga.c`, byte for byte | |
| `VgaRegs` | `write_regs`, `read_regs` | extends `VgaDumps` |
| `VgaRegsProofs` | theorems about it | extends `VgaRegs` |
| `ReadDisk` | `ReadHD.c` | |
| `MC...` | the constants of the runs | |

Operators and actions preceded by a comment "Variant" are not part of any
specification. Each is a plausible mistake in the definition that follows it, and
each makes a property of the runs fail; they document what that property depends on.

### Terminal and Console

Every read or write of a cursor variable, every line `scroll_up` copies and
every cell `putchar` stores is a step. `pc[p]` says where context `p` is (`"main"`
is the boot thread, `"irq"` the handler); the labels follow the statements of
`putchar` in their order. The two cursor variables are plain statics, so an
expression may use memory or the copy the compiler kept: `SeenX` and `SeenY`
are the values it may yield, `MoveX` and `MoveY` store both. `Sti` is the last
statement of `setup_idt`; after it `Interrupt` may happen between any two steps of
the boot thread. Handlers run with interrupts off and do not nest (that they do not
is `NoNesting` of `Interrupts`). Characters are a glyph, a newline (`\r` is
the same case) and a tab.

`Terminal` has no addresses and no scrolling state but "the bottom line was
ended". `Console` implements it under the mapping at the end of the module:
between two characters the terminal shows the screen; inside a `putchar` it
still shows `before`, the console when the character began; a cursor on row
`Rows` is `Rows - 1` with `ended`.

**The limit of the promise.** `printf` in `kbdirq` and `common_irq` can
interrupt the `printf("VGA test\n")` of the boot thread. From then on (`torn`)
little holds: the row can be incremented twice and pass 25, `m_CursorY == 25` never
matches again, and stores go beyond the screen. The repository promises
nothing else, so this is stated, not a violation: `CursorOnScreen`, `WritesOnScreen` and the
refinement speak of the time before -- all that is printed before `sti`, and by handlers between
two characters or after the boot thread halted. For the time after, `NeverBeforeScreen` says
what is left: two wraps of one line end take the column to -80 and stale copies the row
beyond 25, but no cell that `putchar` is about to store lies before `VGABASE`, where the
BIOS's and the head's memory is.

### LongModePaging

`mem` holds the entries of every page frame. The head's loops are steps per
entry (`clearPML4Es`, `lp_map_2M`), the four fixed links one step (`LinkTables`;
paging is off and nothing runs beside it). Memory starts with any contents out of
`Memories`: only the top-level table is cleared. With paging on, each
store of `mm_setup` is `Store(a, e, next)` at an *address* that the processor
translates by `Walk`, or faults. An address is its four indices and the entry
in the page, `get_pte_of_va` the shift of them. `get_pte` is the same function as `mm.c`
computes it, with a mask, a shift and an addition on numbers of 64 bits (`Copies` of the
addresses of 48); `PteFormula` says that its result is, by the tables in memory,
the address of the entry that maps a page. `used` collects
the addresses translated so far, whose translations the TLB may hold. A frame
number stands for an entry; the attribute bits never vary.

### Pic8259 and Interrupts

`loader_main` with what it calls, and each handler, are sequences of the instructions
that matter; `Execute` runs one. `gdt`, `idt`, `idtr` are what the processor looks up;
`Deliver` pushes the frame (with an error code for vectors 13 and 14) or shuts
down if the gate is missing or its selector names no code segment. `sti` has
its one-instruction shadow. `Request(d)` may happen at any time, also between the
initialisation words of the controllers. The page of the store
that provokes the test page fault may or may not be mapped (a frame buffer). A load of a
segment register, in `loader_main`, at a handler's entry and in its `RESTORE_ALL`, faults
unless its selector is null or described by the GDT in force (`Loadable`); nothing ever loads `fs`, so it
holds what the BIOS left (`BiosFs`), and the handlers push and pop it. The faults' handlers overwrite
`eax` before they save it, as the code does. `Pic8259`
says what the bytes written to the ports do; the controllers are hardware,
modelled only as far as `idt.c` uses them. `debug`, `divide_error` and
`nmi` end in the `ret` or wrong return they have, but nothing in the model raises them.

### MkImg and BootChain

Files are in half sectors, so that a last sector can be incomplete; the value of
a half is its file and number. `MkImg` has one action per turn of each of the
tool's loops; `Read` keeps what `fread` leaves of the buffer. `BootChain` puts the
image into the drives of a machine, and `BiosRead` is the set of
outcomes of `int 13h`: everything, or a carry or a smaller count and only part of the
data, or a carry with the full count. Options `parse_args` does not know are skipped. `TimerTick` ends the `hlt` of the head's `disk_error`, which
then runs into data (`"lost"`). `LocateSections` copies `VirtualSize` of each
section, as the code does. The two heads differ in `EnterProtectedMode` and `CheckPE`.
The image properties count with the command line, not with the tool's variables:
`Files` are the arguments that name an input, `Width` the sectors each should get,
`Taken[k]` those of the inputs among the first `k` arguments.

### Format

One step per character of the format, or per conversion. A call is a sequence of
directives (flags, width, precision, conversion and arguments); `Spelling` makes
the format of it, which the interpreter then reads character by
character: the properties compare what it put with the directives it has never seen.
An argument is one of the `2 * Half` patterns of a word. `WellFormed` is what
a call must be: widths and precisions in the format have at most two digits, those passed
for a `*` are any number of the word (but for the width `-Half`, whose negation the
machine does not have), each conversion has its arguments, and only the last directive may
end before its conversion.

### MemProbe

One step per BIOS call. `overview` is what was stored behind `MemOverview`, by the
byte it begins at; `di` counts from there. A BIOS announces its last range in either of
the two ways there are: with the carry of one more call, which the loop expects, or
with a continuation of 0, which it does not look at and hands back: the BIOS
then begins again. `Enter` stands for the rest of the head, whose code begins
`Room + MsgLen` bytes further on. `m_info` and `ranges` read the memory as
`loader.c`'s structure does, whose array `ranges` has eight elements although the head has
room for twelve: `Stored(i)` is what an index beyond the array reads.

### VesaPaging

Addresses are counted in pages, so that a page is a table and an entry; `mem` holds
the four frames of the directory and the tables, the last of which, at 0x8000, starts
with `Garbage`. The head's loop over the tables is one step (paging is off, nothing
runs beside it). From there on the code runs translated: `Step` lets a statement
happen only if the pages of the code, the stack and the data it touches are `InPlace`
and within the segments, and is `"lost"` otherwise, for no handler exists yet. Until `setup_gdt`
the segments are the head's, code up to 8 MB (`CodeLimit`) and flat data up to 0xF07FFFFF
(`DataLimit`). `FillTable` is one turn of the loop
that fills the table in use, `DrawRow` one row of pixels. `blocks` are the two VESA
blocks at their offsets, both already read as a `struct vbe_mode_info`. The model has
no TLB: a processor that still holds an old translation may get further than
`"lost"`, so `LostOnlyWhere` is about more behaviours than the hardware has.

`Interrupts` leaves open whether the page at 0xf000A000, to which the test of the IDT
stores, is mapped. `MappingsKept` is the reason: it is not, unless the frame buffer
lies in the same 4 MB.

### VgaRegs

The two functions are sequences of port accesses, each a step; the loops of the
code become the sequence `Each`. The card decides what an access does: the index
registers, the turn of the attribute controller's port (`latch`), the palette that is
writable only while the display is blanked, the lock of CRTC registers 0 to 7, the
light pen that hides 0x10 and 0x11, and CRTC and status ports elsewhere in a
monochrome mode. All of it is hardware, modelled as far as `vga.c` uses it. `read_regs` is
given an array nothing has been stored in (`Unread`), so that `ReadBack` is about bytes it fetched.

### ReadDisk

`Command` is the task file and the command, `Poll` one turn of the loop, `StoreWord`
one of the other. `Addressed` is what the drive makes of the registers: `0x1f6` has
its bit 6 clear, so it takes them as cylinder, head and sector; `RegistersHoldLba` asks only
whether the bits of the number are in the registers the comments name. The drive may be absent, stay busy, fail, or have the data.

## 3. The runs

| Run | Instance | Question |
|---|---|---|
| `console` | 3 lines of 4 cells, tab stop every 2; 4 characters before `sti`, 2 after, 2 interrupts of at most 1 character | Is the console a teletype, on the screen, and when torn never before it? |
| `long_mode_paging` | tables of 8 entries, 36 frames; 8 memories | Do the tables map what the code uses, whatever memory held, with no fault and no flush? |
| `interrupts` | clock, keyboard and one slave device, 2 requests each; 6 BIOS masks | Is any interrupt, at any time, survived, harmless and served? |
| `general_protection` | one fault in the boot thread | Does its handler return? (no) |
| `boot_chain` | 24 sectors; 5 command lines, one with an option that is ignored; loaders of 13, 16 and 17 sectors, two of them also with an incomplete last sector; 32 machines | Does what was linked run, or nothing? |
| `x86_makefile` | the same with the 32-bit makefile's arguments | Do 17 sectors of the loader arrive? (no) |
| `mem_probe` | maps of 0 to 15 ranges, both ways to end, with and without E801; 30 calls | What does `loader_main` find, within its array and behind it, and when is the head lost? |
| `vesa_paging` | tables of 16 entries, pages of 64 bytes, data up to page 223; 8 frame buffers, 6 pictures, one more of each, 7 contents of memory | What stays mapped, when is the code lost, where do pixels land? |
| `mode_block` | the same | Are the values in use the mode's? (no) |
| `vga_regs` | 12 dumps, 32 cards, 2 calls | Does the card hold the dump, and does it read back? |
| `read_disk` | sectors with one bit set; a drive that answers, fails or is absent | Do the registers hold the sector asked for? (no) |
| `format` | 8-bit numbers; all flags, widths and number conversions; strings and precisions; pairs of conversions | Does `printf` print what its format says? |

No run has a state constraint: `console` goes on after the console is torn.

**Why the bounds are enough.** `console`: three lines are the least with a top, a
middle and a bottom one; with four characters before `sti` and two late ones all lines end, wrap,
and scroll twice; the late ones are interruptible at every step, and the second
interrupt can hit a console the first has torn. The proofs cover all sizes.
`long_mode_paging`: eight entries is the least size the assumptions admit (the four
page tables then still identity-map the frames 2..8 that hold the tables, as in the
code); stale entries that point to a table, to a device's frame, to a free frame and to
nothing occur. The proofs cover all sizes. `interrupts`: two requests of each device
cover a request while its handler runs, at the same time as another's, and
before, during and after the initialisation; the proofs cover any devices, masks
and number of requests. `boot_chain`: 17 sectors are the most
the head loads, 13 is shorter; every read fails in each way. Its fill of 24 instead of
2880 sectors changes only the length. `format`: eight-bit words (`Half` is 128) have the
same extreme values as those of 32 bits; the precisions -1 and -2 passed for a `*` are the
absent one and one below it; three, six and twelve columns are less than, about and more
than any number needs; pairs of conversions show what one leaves behind
for the next. `mem_probe`: 12 ranges fit, the 13th damages the text, the 14th the code;
30 calls are twice the longest map. `vesa_paging`: sixteen entries are enough for the ten
frames the code uses at fixed numbers; the frame buffers are in the first table, on and off
a table's boundary, in the pages of the head's second table (a picture from page 208 goes
just beyond the data segment or stays below its limit, 223) and in the last table, beyond it; the
pictures fill the 4 MB exactly, exceed them by one row or one column, reach the head's page, or are empty. `vga_regs`:
the registers and the dumps have their real size; two calls read back, or write twice.

**Stopping.** No run checks for deadlock: the boot thread halts, `mkimg` returns,
the console's texts are bounded and requests are too, and so are the calls of
`MemProbe` and `VgaRegs`; `vesa_information` returns or is lost.

### What each property says

* `ImplementsTerminal`, `CursorOnScreen`, `WritesOnScreen`, `NeverBeforeScreen`: see
  `Console` above. `CursorOnScreen` gives the range of the cursor at each
  statement: the row is 25 only where `scroll_up` will see it, and the column is exactly
  80 where 80 is subtracted.
* `IdentityMapped`: from paging on, all pages under the code, stack and VGA
  memory map to themselves. `NoFault`, `ApicMapped`: the four stores reach their
  tables and the APIC test the APIC. `OnlyTablesWritten`: the page-table loop
  stops just below the head at 0x9000. `NothingElseMapped`: only in zeroed
  memory, for stale entries do map things. `NoStaleTranslation`: no step changes a
  translation in use; this is why the missing `invlpg` does no harm.
* `NoShutdown`: no interrupt or provoked exception, at any instruction, is fatal.
  `ReadyWhenEnabled`: what `sti` relies on. `MainUndisturbed`: registers, stack
  and flag are the boot thread's own whenever it runs. `NoNesting`: the shadow of
  `sti` suffices. `RequestsServed`: without end of interrupts no request is held back.
* `ImageHoldsInputs`, `ImageSize`: the image against the command line.
  `PaddingInitialised`: what pads an incomplete sector was read from some input, or is zero,
  never the stack the buffer was laid on -- for the first input fills the buffer.
  `HeadRunsWhole`, `LoaderRunsWhole`: an incomplete or foreign head or loader never
  runs. `LostOnlyInHead`: the only ways into data. `Boots`: nothing else stops it.
* `ArgumentsInStep`, `NumbersReadBack`, `NumberFields`, `StringFields`, `Returns`:
  the output against the directives.
* `MapDelivered`: `loader_main` finds the number of ranges, the first eight of them in
  `MEM_INFO`'s array, in order, and any more behind the end of the array. `RoomKept`: exactly what
  the missing checks cost: the room is overwritten if there are 13 ranges or more, the head
  lost with 14, and a probe that leaves the loop had a BIOS that sets the carry. `ProbeEnds`:
  with such a BIOS the loop ends, with any other the ranges go on over the code behind the room.
* `MappingsKept`: what the code runs in, and the page the IDT test faults on, keep their
  translations while a table in use is being filled. `LostOnlyWhere`: the three cases in
  which the code is lost (a frame buffer in the first 4 MB, a picture beyond its 4 MB, a
  picture beyond the data segment), and that in the last one it always is. `PixelsLand`: where each page drawn to lands, by how much it
  misses off a 4 MB boundary, and that nothing else is drawn over but the head, by a picture
  that reaches 0xf0009000 from the 4 MB before.
* `CardHoldsDump`, `ReadBack`: the card against the dump, and the array read against the card.

### Liveness

`Interrupts`: weak fairness of `Execute` (the processor runs) and of `Interrupt` (it
takes a request that stays pending, between instructions). The latter is stated
separately because after `hlt` nothing else would oblige it. `BootChain`: weak
fairness of `Next`, the tool and then the machine go on while they can; reads
may fail for ever, which `Boots` excepts. `Format`: weak fairness of `Next`: a function runs.
`MemProbe`: weak fairness of `Next`: the head runs and the BIOS answers.
Nothing is assumed of devices, disks or users.

### Findings

* `general_protection`: `_test_general_protection` and `general_protection`
  (`X86/idt.c` 142-155, 238-251) execute `iretd` with the error code still on the
  stack; `_test_page_fault` next to them skips it ("skip error_code"). The run
  raises the fault that the commented-out test in `setup_idt_and_test` provokes.
* `x86_makefile`: `X86/makefile:23` passes `loader.exe=16`; `mkimg.c`'s opening comment,
  its usage text and the head's load of 17 sectors say 17. A loader with a 17th
  sector is cut with no word from anyone.
* `mode_block`: `vesa_information` (`X86/vesa.c:103`) reads the mode's block at 0x90000;
  the head (`X86/mini-head-x86.asm` 223-233) has the BIOS store the controller's there, and the
  mode's at 0x90200. The frame buffer address is taken from reserved bytes, usually 0, and
  then the table at 0x8000 replaces the mapping of the running code (`LostOnlyWhere`).
* `read_disk`: `X86/ReadHD.c:20` shifts by 6 where its comment says bits 16 to 23. Any of the
  bits 6 to 13, already that of sector 64, reaches register `0x1f5`: from the registers the
  number reads 65600.

Noted while modelling, without a promise in the repository that they would break:
`%-N.Ms` with a cut string is one column short (`StringFields` states it); zero
padding applies to left-adjusted numbers, too; uninitialised data is filled from the file
instead of with zeros (so `LoaderRunsWhole` speaks of initialised bytes);
a failed read in the head runs into data after the next timer tick; a BIOS that ends
its memory map with a continuation of 0 is asked for ever, until the ranges have
overwritten the loop itself (`MaxCalls` ends the model's probe before); `MEM_INFO` has 8 ranges
where the head has room for 12, and nothing compares `nRange` with either; function E801
is believed without its carry; a frame buffer beyond 0xF07FFFFF
is a general protection fault without a handler at the first pixel; the entry of the
fault handlers clobbers `eax`; `mkimg` accepts a negative number behind `=`, which then
lengthens the image; a frame buffer that is not on a 4 MB boundary is
drawn to the wrong place, and one whose picture needs more than 4 MB is not mapped to its
end; `ReadDisk` polls for ever for an absent or failed drive, and fills the
buffer with the first word; `send_eoi` and `init_clock` (`X86/idt.c` 290-308, no callers)
pass `outb` port and value in the other order.

## 4. The proofs

TLAPS checks these for all values of the constants that satisfy the named assumptions.

**Console** (`ConsoleProofs`). From `ScreenAssumption` (positive sizes, the width
a multiple of the tab distance -- 80 is of 8), `GlyphAssumption` and
`BoundAssumption`. Neither `CursorOnScreen` nor `WritesOnScreen` is inductive: they say
nothing of the register copies a step may use, or of a second context inside
`putchar`. `IInv` adds that handlers run to their end before the boot thread
goes on (`HandlersFinish`), that at most one context is inside an untorn
`putchar` (`OneInside`) and that its copies equal memory (`CopiesFresh`). The step
proofs have a lemma for `putchar`'s actions (`SteadyStep`: the context inside keeps
its invariant), one for a new character (`EnterStep`) and one for the others; the
arithmetic of cells and tab stops is in `OffsetBound`, `TabBound`, `NextLineBound`.
`NeverBeforeScreen` is about the time that `IInv` says nothing of. `BelowInv` follows the column,
which may be negative, and the row, which may be beyond the screen, through a boot
thread with stale copies and handlers that overtake it: a column goes below zero only by
the second of two wraps of one line end, and then the row has grown by two. It needs
a screen of at least three lines (`Rows >= 3`, the hypothesis of the theorem).
Proved: `TypeCorrect`, `ConsoleInvariant`, `CursorCorrect`, `WritesCorrect`,
`NothingBeforeScreen`.

**Console implements Terminal** (`ConsoleProofs`, second half). `ConsoleImplementsTerminal` is the
refinement step by step. While a context is inside `putchar` the terminal still shows
`before`, so nothing in `IInv` says what the last step of the character will reveal.
`ProgressInvariant` adds it: `InProgress` gives, for each label of `putchar`, the
screen, the cursor and what remains to be done in terms of `before` -- how many
lines `scroll_up` has copied, how far the blanks have come. With it every
step inside a character leaves the terminal as it was, and the last one is the
terminal's own step for a glyph, a newline or a tab. A step that tears the console
is a stutter of the mapping. No assumption beyond the three named ones.

**Long mode paging** (`LongModePagingProofs`). From `SizeAssumption`,
`FrameAssumption` and `MemoryAssumption` (memory holds *anything*). The properties
speak of walks; what is inductive is what the tables hold, stage by stage: `Cleared`,
`Linked`, `Filled`, `Extended`, with `UsedSoFar` and `PagingOn`. `SelfMapTheorem`
is the heart of it: through the self-map slot, the address `get_pte_of_va` gives
is that of the entry that maps the address. `Landing` derives from
the invariant where each of the stores lands; one lemma per action preserves it.
`NothingElseMapped` speaks of memory that was zero; `ZeroedInvariant` carries through the
loops that then every entry present is one the code means (`OnlyIntended`).
`PteNumber` is the arithmetic of `get_pte_of_va`: the number is taken apart into five digits
to the base `N` by one lemma on division (`DivMod`), which needs no bound on the
table size or on the width of a number; `PteFormulaHolds` walks it through the tables.
Proved: `SelfMapTheorem`, `Invariant`, `TypeCorrect`, `IdentityStays`, `NeverFaults`,
`ApicReached`, `TablesContained`, `NoFlushNeeded`, `ZeroedInvariant`, `OnlyIntendedMapped`,
`PteNumber`, `PteFormulaHolds`.

**Interrupts** (`InterruptsProofs`). From `InputAssumption`: any devices, any masks the BIOS may
leave, any number of requests, any selector in `fs` that the GDT describes. None of the properties is inductive: whether an `iretd` finds its
frame depends on all the handler did before, and whether an interrupt is fatal on
all `loader_main` did. `IInv` therefore says what the machine looks like as a
function of the next instruction of the boot thread, `k`: `TablesAt(k)` for both
descriptor tables, `PicAt(k)` for both controllers between their initialisation words, and
`MainCs`, `MainFlag`, `MainRegs` for the processor. In a handler `HandlerAt(k, w)`
says the same of the boot thread's instruction it left, and what the stack holds before
each of the handler's operations: `Saved(k)` over `Frame(k)`, with or without an error code.
`Leaves` names the pairs of handler and instruction that occur; that no others do is `NoNesting`,
and that the gate is there when they do is `NoShutdown`. The programs are sequences, so the
first lemmas compute them instruction by instruction; then there is one lemma per
instruction, one per operation of a handler, and one for the delivery at each place.
Proved: `InterruptsInvariant`, `ProcessorRuns`, `EnabledWhenReady`, `MainAsLeft`,
`OneHandler`, `InterruptsTypeOK`.

**mkimg and the boot chain** (`BootChainProofs`). From `ArgumentAssumption`
(*any* command lines over well-formed arguments, any file sizes), `MachineAssumption` (any
disks in the drives) and `FileAssumption` (boot sector and head full, headers in the first half
sector, sections apart). `ToolInv` says at each place of `main` what the list of inputs, the sectors
asked for and the image are, in terms of the command line: `Listed` and `Counted` while
arguments are parsed, `EndsBefore` and `Subtracted` between two inputs, `Copied` within
one, `Filled` behind the last. What it counts with (`Taken`, `Count`) is recursive over the
arguments. The library's induction theorem is out of reach, but the same induction for a *set*
of numbers is provable from a least element (`SetInduction`), and with it that such
functions exist (`RecursiveSum`) and what they add up to (`LastFile`, `CountInjective`).
`ImageCorrect` and `SizeCorrect` hold for every command line. `PaddingCorrect` and the three
properties of the boot need a line like those of the makefiles, `ChainLines`: mbr.bin, head.bin and loader.exe are the
inputs, in this order, the first two uncut. `PadInv` is what `PaddingCorrect` adds to `ToolInv`: until the
first sector is read the buffer may be junk, and that sector is all of mbr.bin
(`FirstInput`); from then on it is not, for a short read keeps what is clean. `ChainImage` derives from `ToolInv`, for every image
the tool leaves, also one cut short by a missing file, that the head is in half sectors
3 to 6 if it is that long, and the loader from 7. `BootInv` is then what each stage has in
memory, for every outcome of every read (`GoodRead`) and every disk (`OtherDisk`).
`LoaderWhole` has the further hypothesis `LoaderFits`: no loader is longer than the 17
sectors the head reads and no line gives it fewer sectors than it has. The 32-bit makefile's does
when the loader has a 17th sector, which is the finding `x86_makefile`; without the
hypothesis the theorem is false. `MCBootChain` evaluates both hypotheses on the runs' constants
(`ChainAssumption`).
Proved: `ToolStep`, `ToolInvariant`, `ImageCorrect`, `SizeCorrect`, `PaddingCorrect`, `BootInvariant`,
`HeadWhole`, `LostOnly`, `LoaderWhole`.

**Memory probe** (`MemProbeProofs`). From `BiosAssumption`. `MapDelivered` speaks of the
end only; `IInv` says of every turn of the loop that the continuation counts the ranges
stored (`InStep`), that they are at their places and nothing else is (`InPlace`), and that
a BIOS whose end the loop does not see never lets it out (`Progress`). Both directions
of `RoomKept` follow. Proved: `Invariant`, `MapReaches`,
`RoomSuffices`.

**32-bit paging** (`VesaPagingProofs`). From `LayoutAssumption`: any table size above 9,
any frame buffer and picture, any contents of memory, any segment limits beyond the first table. `Tables` is what the directory
and the head's two tables hold before and after the switch, `Filled` how far the third
is. `LowInPlace`, `HighPages` and `BufferPages` derive from them what a walk yields, and
`RowInPicture` bounds the addresses of a row; the lemmas before them are the arithmetic
of pages and tables. `RowsInLimit` says of the rows drawn so far that no page of theirs is
beyond the data segment; with the last page of the picture among those of its last row
(`LastPageDrawn`), a picture that goes beyond it never ends. That a statement finds its own pages in place is part of each step
(`Undisturbed`), so the induction is over what the code does to the memory it runs in.
Proved: `Invariant`, `MappingsStay`, `SeldomLost`, `PixelsPlaced`.

**VGA registers** (`VgaRegsProofs`). From `CardAssumption` (any contents of the card, any turn of
the attribute controller's port, any index registers, any light pen) and `DumpAssumption` (61 bytes
of a color mode, which TLC evaluates on the twelve dumps). Both properties speak of the end of a
call. `IInv` says how far the card, or the array, has come *before every port access*: `Put(b, r)`
and `Get(b, r)` are the places in the two programs at which register `r` of bank `b` is stored or
fetched, and `Writing` and `Reading` say that before that place the index is selected and the port
has its turn, and that behind it the register, or the array, holds its byte; and in between, when
the CRTC has become accessible and unlocked. The programs are concatenations: `WriteProgram` and `ReadProgram`
compute them access by access, `PutApart`, `PutFixed` and `PutPlaces` (`Get...`) say that these
places are all there are and do not overlap, and `Places` that no byte of a dump is two registers'.
`IndexStep` and `DataStep` are the conditions under which the card takes an index and
its data; each lemma of a step shows them. Proved: `Invariant`, `CardCorrect`, `ReadCorrect`.

**Formatted output** (`FormatProofs`). From `WordAssumption` (any word size, any default radix
from 2 to 16) and `CallAssumption` (any sequences of well-formed directives). All four
properties speak of a call that has returned; `IInv` says where the interpreter is before every
character. With `Behind(k)` the spelling of the directives after `k` and `Unread(k)` their
arguments -- both recursive from the end of the call, and their existence is proved as in
`BootChainProofs` -- the format and the arguments always `Stand` before some remainder:
`AtFlags` .. `AtConv` of directive `k` while it is parsed (`Parsing`), `Behind(k)` between two. That
keeps the arguments in step. The parsed variables hold what was read (`FlagsRead`, `WidthRead`,
...), part by part, so that nothing of the directive before is left; in the midst of a number,
its first digits. And the pieces put so far are `Proper`: what each directive asked for,
which is what the other three properties say of it. There is a lemma for each
action at each part of a directive. That the pieces of `print_num` and
`PutString` are proper is two arguments of their own. `Digits` is recursive; for every
number and base it yields digits below the base, the first of which is not 0 unless
the number is, and which read back as the number (induction over the numbers, by `SetInduction`),
and the reading function of the property passes over blanks, signs, prefixes and padding zeros
without a change, position by position. The layout of a piece is a concatenation of up to six parts;
lemmas say what stands at each position, and the cases of padding are taken one by one.
Proved: `FormatInvariant`, `ArgumentsAlwaysInStep`, `NumbersAlwaysReadBack`,
`NumberFieldsAlways`, `StringFieldsAlways`.

**Only model-checked**: liveness (`RequestsServed`, `Boots`, `Returns`, `ProbeEnds`), which is out
of the prover's reach. Of what `%b` puts no property says anything but that it takes its two
arguments. `IInv` of `FormatProofs` is not evaluated by TLC (it speaks of all sequences over a
set); its consequences are what the run checks.
The four findings are counterexamples and nothing to prove.

## 5. Assumptions and what is left out

* The BIOS starts the boot sector at 0000:7C00 with the boot drive in `dl`, leaves
  both controllers initialised with vectors at 8 and 0x70, and never reports success
  for data it did not read. A floppy read across a track is one read that may fail.
* The PE headers fit in the first half sector and sections do not overlap
  (`FileAssumption`).
* No NMI, no machine check, no spurious interrupt.
* The BIOS keeps `edi` and `ecx` through E820 and stores ranges of 20 bytes; the VESA
  BIOS stores both blocks. Frame buffers begin on a page.
* The BIOS leaves in `fs` a selector that both GDTs describe, or null: the handlers pop what they
  pushed, and any other value would fault there (`BiosFs`; the runs take 24 and 0).
* `di` has 16 bits and `detect_iter` may be repeated for ever; the model stops after `MaxCalls`,
  at most 3000 calls, before `di` wraps.
* The number behind `=` is not negative (`Arguments`); `-n` may be any number.
* Not modelled: `sprintf` (no caller), `send_eoi`, `init_clock`, `set_call_gate`,
  `set_plane` (no callers), the TSS (never loaded), `%b` beyond 8-bit values, int arguments
  that are narrower than `natlong_t` in the 64-bit build (no caller passes a negative
  one), writes of `mkimg` that fail, more than 16 inputs (no makefile passes more than
  three); the TLB in `VesaPaging`; fonts and drawing of `vga.c`, which are data or
  unreachable; the emulator's configuration.

## 6. Plan

Done, in this order: `Terminal`, `Console`, its proofs; `LongModePaging` and its
proofs; `Pic8259`, `Interrupts`; `MkImg`, `BootChain`; `Format`; `MemProbe`; `VesaPaging`;
`VgaDumps`, `VgaRegs`; `ReadDisk`; the proofs about `MemProbe` and `VesaPaging`; that
`Console` implements `Terminal`; the proofs about `Interrupts`; the rest of those about
`LongModePaging`; those about `MkImg` and `BootChain`; those about `VgaRegs`; those about `Format`. All that runs and
changes state is modelled, and all that the runs check but liveness is proved.
