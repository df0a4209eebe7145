---------------------------- MODULE Interrupts ------------------------------
(***************************************************************************)
(* The interrupt machinery of the 32-bit loader (X86/idt.c, X86/gdt.c,     *)
(* X86/loader.c): the boot thread and the handlers are programs, given as  *)
(* sequences of the instructions that matter here, and the processor       *)
(* executes one of them per step.  The boot thread installs test gates     *)
(* with the head's code selector, provokes two exceptions, replaces the    *)
(* GDT (which turns that selector into a data segment), installs the final *)
(* gates, reprograms the 8259s and enables interrupts.  A device may       *)
(* request an interrupt at any time.                                       *)
(***************************************************************************)
EXTENDS Pic8259, Sequences, SequencesExt

CONSTANTS
    BiosMasks,  \* masks the BIOS may have left in the two controllers
    BiosFs,     \* what the BIOS left in fs: nothing here ever loads it
    Devices,    \* the device lines, as <<controller, line>>
    MaxRaised   \* bound: requests of one device

ASSUME InputAssumption ==
    /\ BiosMasks \subseteq [master : 0 .. 255, slave : 0 .. 255]
    /\ BiosFs \in {0, 8, 16, 24, 32}
    /\ Devices \subseteq ({"master", "slave"} \X Lines) \ {<<"master", 2>>}
    /\ MaxRaised \in Nat

(* The vectors anything in the code or the hardware names. *)
Vectors == {0, 1, 2, 3, 8, 13, 14} \cup 32 .. 47 \cup {8 + l : l \in Lines}
               \cup {112 + l : l \in Lines}

NoGate == [type |-> "none", cs |-> 0, handler |-> "none"]

(* What a selector names in the GDT of mini-head-x86.asm and in that of     *)
(* setup_gdt.                                                               *)
HeadGdt   == [s \in {8, 16, 24, 32} |-> IF s = 16 THEN "code" ELSE "data"]
KernelGdt == [s \in {8, 16, 24, 32} |-> IF s \in {8, 24} THEN "code" ELSE "data"]

(* Variants: the other table's selector, and that of the second code segment. *)
TestWithKernelCS == 8
UserCS           == 24

OLD_KERNEL_CS == 16
KERNEL_CS     == 8
KERNEL_DS     == 16

-----------------------------------------------------------------------------
(* Programs. *)

Op(name)         == [op |-> name]
Arg(name, v)     == [op |-> name, v |-> v]
Out(chip, p, v)  == [op |-> "outb", chip |-> chip, port |-> p, v |-> v]
Gate(vs, t, h)   == [op |-> "gate", vs |-> vs, type |-> t, handler |-> h]

set_intr_gate(v, h)   == Gate({v}, "intr", h)
set_trap_gate(v, h)   == Gate({v}, "trap", h)
set_system_gate(v, h) == Gate({v}, "trap", h)

setup_idt_and_test == <<
    Arg("idt_cs", OLD_KERNEL_CS),
    set_system_gate(3, "_test_int3"),
    set_trap_gate(13, "_test_general_protection"),
    set_trap_gate(14, "_test_page_fault"),
    Op("lidt"),
    Op("int_3"),
    Op("store") >>      \* *pagefault = 0x233

setup_gdt == <<
    Op("lgdt"),
    Arg("mov_ds", KERNEL_DS),
    Arg("retf", KERNEL_CS) >>

(* The last initialisation word: 8086 mode, automatic end of interrupt. *)
ICW4Normal == 1     \* variant: an end of interrupt is expected
ICW4       == 3

init_8259_pic == <<
    Arg("inb", "master"),
    Arg("inb", "slave"),
    Out("master", "command", 17),
    Out("slave", "command", 17),
    Out("master", "data", 32),
    Out("slave", "data", 40),
    Out("master", "data", 4),
    Out("slave", "data", 2),
    Out("master", "data", ICW4),
    Out("slave", "data", ICW4),
    Arg("restore", "master"),
    Arg("restore", "slave") >>

setup_idt == <<
    Arg("idt_cs", KERNEL_CS),
    set_trap_gate(0, "divide_error"),
    set_trap_gate(1, "debug"),
    set_intr_gate(2, "nmi"),
    set_system_gate(3, "int3"),
    set_trap_gate(8, "double_fault"),
    set_trap_gate(13, "general_protection"),
    set_trap_gate(14, "page_fault"),
    set_intr_gate(32, "clockirq"),
    set_intr_gate(33, "kbdirq"),
    Gate(34 .. 254, "intr", "common_irq"),
    Op("lidt") >>
    \o init_8259_pic \o << Op("sti") >>

loader_main ==
    setup_idt_and_test \o << Op("printf") >>
    \o setup_gdt \o << Op("printf") >>
    \o setup_idt \o << Op("printf"), Op("hlt") >>

(* Variant: two registers exchanged. *)
RestoreExchanged == <<"es", "ds", "fs", "eax", "ecx", "edx", "edi", "esi", "ebx", "ebp">>

SAVE_ALL    == <<"ebp", "ebx", "esi", "edi", "ecx", "edx", "eax", "fs", "ds", "es">>
RESTORE_ALL == <<"es", "ds", "fs", "eax", "edx", "ecx", "edi", "esi", "ebx", "ebp">>

Registers == ToSet(SAVE_ALL)

Printing == << Op("SAVE_ALL"), Op("printf"), Op("RESTORE_ALL") >>

(* Variant: interrupts on as soon as possible. *)
StiFirst == << Op("sti") >> \o Printing \o << Op("iretd") >>

page_fault         == Printing \o << Op("add_esp_4"), Op("add_at_esp_0xA"), Op("iretd") >>
int3               == Printing \o << Op("iretd") >>
double_fault       == Printing \o << Op("add_esp_4"), Op("iretd") >>
general_protection == << Arg("mov_ds", 24) >> \o Printing \o << Op("iretd") >>
clockirq           == << Op("SAVE_ALL"), Op("RESTORE_ALL"), Op("sti"), Op("iretd") >>
kbdirq             == Printing \o << Op("sti"), Op("iretd") >>
common_irq         == Printing \o << Op("sti"), Op("iretd") >>

Program ==
    [ main |-> loader_main,
      _test_int3 |-> int3, _test_page_fault |-> page_fault,
      _test_general_protection |-> general_protection,
      divide_error |-> << Op("ret") >>, debug |-> << Op("ret") >>, nmi |-> << Op("ret") >>,
      int3 |-> int3, page_fault |-> page_fault, double_fault |-> double_fault,
      general_protection |-> general_protection,
      clockirq |-> clockirq, kbdirq |-> kbdirq, common_irq |-> common_irq,
      shutdown |-> << Op("none") >> ]

-----------------------------------------------------------------------------

VARIABLES
    eip,        \* routine and position of the next instruction
    cs,         \* the code selector
    IFlag,      \* EFLAGS.IF
    shadow,     \* the instruction after sti has not yet been executed
    stack,      \* what the stack holds above the boot thread's own, top first
    regs,       \* the registers the handlers save
    gdt,        \* the descriptors of the loaded GDT
    idt, idtr,  \* the gates, and whether lidt was executed
    idt_cs,     \* __IDT_CS__
    pic,        \* the two controllers
    masks,      \* a1 and a2 of init_8259_pic
    mapped,     \* 0xf000A000 is mapped: a frame buffer lies there
    raised,     \* requests of each device so far
    bios        \* history: the masks the BIOS left

cpu  == <<eip, cs, IFlag, shadow, stack, regs>>
tables == <<gdt, idt, idtr, idt_cs>>
vars == <<cpu, tables, pic, masks, mapped, raised, bios>>

-----------------------------------------------------------------------------

Init ==
    /\ eip = [r |-> "main", k |-> 1]
    /\ cs = 16
    /\ IFlag = FALSE
    /\ shadow = FALSE
    /\ stack = <<>>
    /\ regs = [r \in Registers |-> IF r \in {"ds", "es"} THEN 24
                                  ELSE IF r = "fs" THEN BiosFs ELSE r]
    /\ gdt = HeadGdt
    /\ idt = [v \in Vectors |-> NoGate]
    /\ idtr = FALSE
    /\ idt_cs = 0
    /\ bios \in BiosMasks
    /\ pic = [master |-> BiosPic(8, 4, bios.master), slave |-> BiosPic(112, 2, bios.slave)]
    /\ masks = [master |-> 0, slave |-> 0]
    /\ mapped \in BOOLEAN
    /\ raised = [d \in Devices |-> 0]

Instruction == Program[eip.r][eip.k]
At(name)    == Instruction.op = name
NextIp      == [eip EXCEPT !.k = @ + 1]

(* The limit of idt_desc is 255 * 8 - 1: the last vector has no gate. *)
HasGate(v) ==
    /\ idtr
    /\ v * 8 + 7 <= 255 * 8 - 1
    /\ idt[v].type # "none"
    /\ gdt[idt[v].cs] = "code"

(* The processor enters the handler of vector v and will return to ip.     *)
(* Without a proper gate, or without one for the fault that causes, it     *)
(* shuts down.                                                             *)
Deliver(v, ip, errorCode) ==
    IF HasGate(v)
    THEN /\ stack' = errorCode \o << <<"eip", ip>>, <<"cs", cs>>, <<"flags", IFlag>> >> \o stack
         /\ eip' = [r |-> idt[v].handler, k |-> 1]
         /\ cs' = idt[v].cs
         /\ IFlag' = IF idt[v].type = "intr" THEN FALSE ELSE IFlag
         /\ shadow' = FALSE
         /\ UNCHANGED regs
    ELSE /\ eip' = [r |-> "shutdown", k |-> 1]
         /\ shadow' = FALSE
         /\ UNCHANGED <<cs, IFlag, stack, regs>>

ErrorCode == << <<"error", 0>> >>

(* A data segment register takes the null selector and any other one the   *)
(* loaded GDT describes: its code segments are readable.                    *)
Loadable(selector) == selector = 0 \/ selector \in DOMAIN gdt

Outside   == <<pic, masks, mapped, raised, bios>>

(* A step to the next instruction that changes neither flags nor stack. *)
Proceed == eip' = NextIp /\ shadow' = FALSE /\ UNCHANGED <<IFlag, stack>>

-----------------------------------------------------------------------------
(* Instructions of the boot thread. *)

SetIdtCs ==
    /\ At("idt_cs")
    /\ idt_cs' = Instruction.v
    /\ Proceed
    /\ UNCHANGED <<cs, regs, gdt, idt, idtr, Outside>>

(* _set_gate for one vector or, in setup_idt's loop, for a range of them. *)
SetGate ==
    /\ At("gate")
    /\ idt' = [v \in Vectors |->
                 IF v \in Instruction.vs
                 THEN [type |-> Instruction.type, cs |-> idt_cs, handler |-> Instruction.handler]
                 ELSE idt[v]]
    /\ Proceed
    /\ UNCHANGED <<cs, regs, gdt, idtr, idt_cs, Outside>>

Lidt ==
    /\ At("lidt")
    /\ idtr' = TRUE
    /\ Proceed
    /\ UNCHANGED <<cs, regs, gdt, idt, idt_cs, Outside>>

Int3 ==
    /\ At("int_3")
    /\ Deliver(3, NextIp, <<>>)
    /\ UNCHANGED <<tables, Outside>>

(* The store through pagefault faults unless its page is mapped. *)
TestStore ==
    /\ At("store")
    /\ IF mapped
       THEN Proceed /\ UNCHANGED <<cs, regs>>
       ELSE Deliver(14, eip, ErrorCode)
    /\ UNCHANGED <<tables, Outside>>

(* setup_gdt: from here on the old selectors mean something else; what the *)
(* segment registers cached stays.                                         *)
Lgdt ==
    /\ At("lgdt")
    /\ gdt' = KernelGdt
    /\ Proceed
    /\ UNCHANGED <<cs, regs, idt, idtr, idt_cs, Outside>>

(* ds and, in setup_gdt, es and ss, which takes only a data segment; in a   *)
(* handler the selector goes through ax, which nobody has saved yet.        *)
MovDs ==
    /\ At("mov_ds")
    /\ IF Loadable(Instruction.v) /\ (eip.r = "main" => gdt[Instruction.v] = "data")
       THEN /\ Proceed
            /\ regs' = IF eip.r = "main"
                       THEN [regs EXCEPT !["ds"] = Instruction.v, !["es"] = Instruction.v]
                       ELSE [regs EXCEPT !["ds"] = Instruction.v, !["eax"] = "junk"]
            /\ UNCHANGED cs
       ELSE Deliver(13, eip, ErrorCode)
    /\ UNCHANGED <<tables, Outside>>

Retf ==
    /\ At("retf")
    /\ cs' = Instruction.v
    /\ eip' = IF gdt[Instruction.v] = "code" THEN NextIp ELSE [r |-> "shutdown", k |-> 1]
    /\ shadow' = FALSE
    /\ UNCHANGED <<IFlag, stack, regs, tables, Outside>>

(* printf stores to its own variables through ds; in a handler it leaves   *)
(* nothing in the registers a function may use.                            *)
Printf ==
    /\ At("printf")
    /\ IF gdt[regs["ds"]] = "data"
       THEN /\ Proceed
            /\ regs' = IF eip.r = "main" THEN regs
                       ELSE [regs EXCEPT !["eax"] = "junk", !["ecx"] = "junk", !["edx"] = "junk"]
            /\ UNCHANGED cs
       ELSE Deliver(13, eip, ErrorCode)
    /\ UNCHANGED <<tables, Outside>>

-----------------------------------------------------------------------------
(* init_8259_pic. *)

ReadMask ==
    /\ At("inb")
    /\ masks' = [masks EXCEPT ![Instruction.v] = ReadData(pic[Instruction.v])]
    /\ Proceed
    /\ UNCHANGED <<cs, regs, tables, pic, mapped, raised, bios>>

Outb ==
    /\ At("outb")
    /\ pic' = [pic EXCEPT ![Instruction.chip] =
                 IF Instruction.port = "command" THEN WriteCommand(@, Instruction.v)
                                                 ELSE WriteData(@, Instruction.v)]
    /\ Proceed
    /\ UNCHANGED <<cs, regs, tables, masks, mapped, raised, bios>>

(* Variant: everything unmasked. *)
UnmaskAll ==
    /\ At("restore")
    /\ pic' = [pic EXCEPT ![Instruction.v] = WriteData(@, 0)]
    /\ Proceed
    /\ UNCHANGED <<cs, regs, tables, masks, mapped, raised, bios>>

RestoreMask ==
    /\ At("restore")
    /\ pic' = [pic EXCEPT ![Instruction.v] = WriteData(@, masks[Instruction.v])]
    /\ Proceed
    /\ UNCHANGED <<cs, regs, tables, masks, mapped, raised, bios>>

-----------------------------------------------------------------------------
(* Instructions of the handlers; sti is also the last one of setup_idt. *)

Sti ==
    /\ At("sti")
    /\ IFlag' = TRUE
    /\ shadow' = ~IFlag
    /\ eip' = NextIp
    /\ UNCHANGED <<cs, stack, regs, tables, Outside>>

Save ==
    /\ At("SAVE_ALL")
    /\ stack' = [i \in DOMAIN SAVE_ALL |-> <<"reg", regs[Reverse(SAVE_ALL)[i]]>>] \o stack
    /\ eip' = NextIp
    /\ shadow' = FALSE
    /\ UNCHANGED <<cs, IFlag, regs, tables, Outside>>

(* What RESTORE_ALL pops into a register. *)
Popped(r) ==
    LET i == CHOOSE i \in DOMAIN RESTORE_ALL : RESTORE_ALL[i] = r
    IN  stack[i][2]

(* A pop of es, ds or fs that names no segment faults; the pops before it   *)
(* are not kept apart, for nothing comes back from that fault.              *)
Restore ==
    /\ At("RESTORE_ALL")
    /\ IF \A r \in {"es", "ds", "fs"} : Loadable(Popped(r))
       THEN /\ regs' = [r \in Registers |-> Popped(r)]
            /\ stack' = SubSeq(stack, Len(RESTORE_ALL) + 1, Len(stack))
            /\ eip' = NextIp
            /\ shadow' = FALSE
            /\ UNCHANGED <<cs, IFlag>>
       ELSE Deliver(13, eip, ErrorCode)
    /\ UNCHANGED <<tables, Outside>>

(* add esp, 4 *)
SkipErrorCode ==
    /\ At("add_esp_4")
    /\ stack' = Tail(stack)
    /\ eip' = NextIp
    /\ shadow' = FALSE
    /\ UNCHANGED <<cs, IFlag, regs, tables, Outside>>

(* add [esp], 0xA: the length of the instruction the test stores with. *)
SkipInstruction ==
    /\ At("add_at_esp_0xA")
    /\ stack' = << <<stack[1][1], [stack[1][2] EXCEPT !.k = @ + 1]>> >> \o Tail(stack)
    /\ eip' = NextIp
    /\ shadow' = FALSE
    /\ UNCHANGED <<cs, IFlag, regs, tables, Outside>>

FrameOnTop ==
    /\ Len(stack) >= 3
    /\ stack[1][1] = "eip"
    /\ stack[2][1] = "cs"
    /\ stack[3][1] = "flags"

(* iretd takes what is on top of the stack for the frame. *)
Iretd ==
    /\ At("iretd")
    /\ IF FrameOnTop /\ gdt[stack[2][2]] = "code"
       THEN /\ eip' = stack[1][2]
            /\ cs' = stack[2][2]
            /\ IFlag' = stack[3][2]
            /\ stack' = SubSeq(stack, 4, Len(stack))
       ELSE /\ eip' = [r |-> "shutdown", k |-> 1]
            /\ UNCHANGED <<cs, IFlag, stack>>
    /\ shadow' = FALSE
    /\ UNCHANGED <<regs, tables, Outside>>

-----------------------------------------------------------------------------
(* Devices and the interrupt line. *)

Request(d) ==
    /\ raised[d] < MaxRaised
    /\ raised' = [raised EXCEPT ![d] = @ + 1]
    /\ pic' = [pic EXCEPT ![d[1]].irr = @ \cup {d[2]}]
    /\ UNCHANGED <<cpu, tables, masks, mapped, bios>>

(* Between two instructions; after hlt the processor goes back to it, as   *)
(* the loop around it does.                                                *)
Interrupt ==
    LET m == Cascaded(pic.master, pic.slave)
    IN  /\ IFlag
        /\ ~shadow
        /\ Requests(m) # {}
        /\ eip.r # "shutdown"
        /\ LET a == Answer(m, pic.slave)
           IN  /\ pic' = [master |-> a.master, slave |-> a.slave]
               /\ Deliver(a.vector, eip, <<>>)
        /\ UNCHANGED <<tables, masks, mapped, raised, bios>>

Execute ==
    \/ SetIdtCs \/ SetGate \/ Lidt \/ Int3 \/ TestStore
    \/ Lgdt \/ MovDs \/ Retf \/ Printf
    \/ ReadMask \/ Outb \/ RestoreMask
    \/ Sti \/ Save \/ Restore \/ SkipErrorCode \/ SkipInstruction \/ Iretd

Next == Execute \/ Interrupt \/ \E d \in Devices : Request(d)

(* The processor executes as long as there is an instruction, and takes a  *)
(* request that stays.                                                     *)
Fairness == WF_vars(Execute) /\ WF_vars(Interrupt)

Spec == Init /\ [][Next]_vars /\ Fairness

-----------------------------------------------------------------------------

Chips == {"master", "slave"}

TypeOK ==
    /\ eip.r \in DOMAIN Program
    /\ eip.k \in DOMAIN Program[eip.r]
    /\ cs \in {8, 16}
    /\ IFlag \in BOOLEAN
    /\ shadow \in BOOLEAN
    /\ DOMAIN regs = Registers
    /\ \A i \in DOMAIN stack : stack[i][1] \in {"eip", "cs", "flags", "error", "reg"}
    /\ gdt \in {HeadGdt, KernelGdt}
    /\ \A v \in Vectors : idt[v].handler \in DOMAIN Program \cup {"none"}
    /\ idtr \in BOOLEAN
    /\ idt_cs \in {0, 8, 16}
    /\ \A c \in Chips : /\ pic[c].expect \in {0, 2, 3, 4}
                         /\ pic[c].imr \in 0 .. 255
                         /\ pic[c].irr \subseteq Lines
                         /\ pic[c].isr \subseteq Lines
    /\ raised \in [Devices -> 0 .. MaxRaised]

(* Neither the two exceptions the boot thread provokes while the head's GDT *)
(* is loaded nor any interrupt, at any time, finds a gate missing or its    *)
(* selector naming a data segment, and every iretd finds a frame.           *)
NoShutdown == eip.r # "shutdown"

(* After sti anything a device may request is handled: the controllers are  *)
(* initialised, their vectors clear of the processor's, end interrupts by   *)
(* themselves, know each other and mask what the BIOS masked; and each of   *)
(* their 16 vectors has an interrupt gate into the loaded code segment.     *)
ReadyWhenEnabled ==
    IFlag =>
        /\ \A c \in Chips : pic[c].expect = 0 /\ pic[c].aeoi /\ pic[c].imr = bios[c]
        /\ pic.master.base = 32 /\ pic.slave.base = 40
        /\ Bit(pic.master.icw3, pic.slave.icw3)
        /\ \A v \in 32 .. 47 : HasGate(v) /\ idt[v].type = "intr" /\ idt[v].cs = cs

(* A handler returns the boot thread exactly as it found it: nothing left  *)
(* on the stack, all registers restored, interrupts on again after sti and *)
(* off before.                                                             *)
MainUndisturbed ==
    eip.r = "main" =>
        /\ stack = <<>>
        /\ \A r \in Registers \ {"ds", "es", "fs"} : regs[r] = r
        /\ regs["fs"] = BiosFs
        /\ \A r \in {"ds", "es"} :
              regs[r] = IF \E k \in 1 .. eip.k - 1 : loader_main[k].op = "mov_ds" THEN 16 ELSE 24
        /\ IFlag <=> \E k \in 1 .. eip.k - 1 : loader_main[k].op = "sti"

(* Handlers do not nest, although they execute sti before iretd: the stack *)
(* never holds more than one frame and one set of saved registers.         *)
NoNesting == Cardinality({i \in DOMAIN stack : stack[i][1] = "flags"}) <= 1

(* Every request of an unmasked device made after sti reaches its handler: *)
(* no end-of-interrupt is owed to a controller.                            *)
Waiting(d) == IFlag /\ d[2] \in pic[d[1]].irr /\ ~Bit(pic[d[1]].imr, d[2])
                   /\ (d[1] = "slave" => ~Bit(pic.master.imr, 2))

RequestsServed ==
    \A d \in Devices : Waiting(d) ~> (d[2] \notin pic[d[1]].irr)

=============================================================================
