-------------------------- MODULE InterruptsProofs --------------------------
(***************************************************************************)
(* For every set of devices, of masks and of requests, and every loadable  *)
(* selector the BIOS may leave in fs: the interrupt machinery of Interrupts *)
(* never shuts the processor down, returns the boot thread as it found it, *)
(* nests no handlers, and has its controllers and gates ready whenever     *)
(* interrupts are enabled.                                                 *)
(***************************************************************************)
EXTENDS Interrupts, FiniteSetTheorems, SequenceTheorems, TLAPS

-----------------------------------------------------------------------------
(* The inductive invariant: what the machine looks like is a function of   *)
(* the boot thread's next instruction and, in a handler, of the operation  *)
(* the handler is about to execute.                                        *)

(* The routines an interrupt or a provoked exception really enters. *)
IrqHandlers  == {"clockirq", "kbdirq", "common_irq"}
LiveHandlers == IrqHandlers \cup {"_test_int3", "_test_page_fault"}

(* The boot thread's own processor state before its instruction k. *)
MainCs(k)    == IF k <= 11 THEN 16 ELSE 8
MainFlag(k)  == IF k <= 37 THEN FALSE ELSE TRUE
MainRegs(k)  ==
    [r \in Registers |-> IF r \in {"ds", "es"} THEN IF k <= 10 THEN 24 ELSE 16
                         ELSE IF r = "fs" THEN BiosFs ELSE r]

IntrGate(h) == [type |-> "intr", cs |-> KERNEL_CS, handler |-> h]
TestGate(h) == [type |-> "trap", cs |-> OLD_KERNEL_CS, handler |-> h]

(* The descriptor tables before the boot thread's instruction k. *)
TablesAt(k) ==
    /\ gdt = IF k <= 9 THEN HeadGdt ELSE KernelGdt
    /\ k > 5 => idtr
    /\ idt_cs = IF k = 1 THEN 0 ELSE IF k <= 13 THEN OLD_KERNEL_CS ELSE KERNEL_CS
    /\ k \in 3 .. 7 => idt[3] = TestGate("_test_int3")
    /\ k \in 5 .. 7 => idt[14] = TestGate("_test_page_fault")
    /\ k > 21 => idt[32] = IntrGate("clockirq")
    /\ k > 22 => idt[33] = IntrGate("kbdirq")
    /\ k > 23 => \A v \in 34 .. 47 : idt[v] = IntrGate("common_irq")

(* A controller, j instructions into the boot thread's text for the master, *)
(* one later for the slave: its four words are written at 27, 29, 31 and    *)
(* 33, its mask at 35.                                                      *)
ChipAt(p, mask, j, base, icw3) ==
    /\ j <= 27       => p.expect = 0 /\ p.imr = mask
    /\ j \in 28 .. 29 => p.expect = 2
    /\ j \in 30 .. 31 => p.expect = 3
    /\ j \in 32 .. 33 => p.expect = 4
    /\ j > 29 => p.base = base
    /\ j > 31 => p.icw3 = icw3
    /\ j > 33 => p.expect = 0 /\ p.aeoi
    /\ j > 35 => p.imr = mask

PicAt(k) ==
    /\ ChipAt(pic["master"], bios["master"], k, 32, 4)
    /\ ChipAt(pic["slave"], bios["slave"], k - 1, 40, 2)
    /\ k > 25 => masks["master"] = bios["master"]
    /\ k > 26 => masks["slave"] = bios["slave"]

BootAt(k) == TablesAt(k) /\ PicAt(k)

(* What the processor pushed when it left the boot thread before k, with w *)
(* words of error code, and what SAVE_ALL puts on top of it.                *)
Frame(k) == << <<"eip", [r |-> "main", k |-> k]>>, <<"cs", MainCs(k)>>,
               <<"flags", MainFlag(k)>> >>
Pushed(k, w) == IF w = 1 THEN ErrorCode \o Frame(k) ELSE Frame(k)
Saved(k)     == [i \in DOMAIN SAVE_ALL |-> <<"reg", MainRegs(k)[Reverse(SAVE_ALL)[i]]>>]

InMain ==
    eip.r = "main" =>
        /\ eip.k \in 1 .. 39
        /\ BootAt(eip.k)
        /\ cs = MainCs(eip.k)
        /\ IFlag = MainFlag(eip.k)
        /\ regs = MainRegs(eip.k)
        /\ stack = <<>>

(* The routines that leave the boot thread before its instruction k, with   *)
(* w words of error code.                                                   *)
Leaves(r, k, w) ==
    \/ r = "_test_int3" /\ k = 7 /\ w = 0
    \/ r = "_test_page_fault" /\ k = 7 /\ w = 1
    \/ r \in IrqHandlers /\ k \in {38, 39} /\ w = 0

HandlerAt(k, w) ==
    /\ BootAt(k)
    /\ cs = MainCs(k)
    /\ At("SAVE_ALL") => stack = Pushed(k, w) /\ regs = MainRegs(k)
    /\ At("printf") => stack = Saved(k) \o Pushed(k, w) /\ regs = MainRegs(k)
    /\ At("RESTORE_ALL") => stack = Saved(k) \o Pushed(k, w)
    /\ At("add_esp_4") => stack = Pushed(k, w) /\ regs = MainRegs(k)
    /\ At("add_at_esp_0xA") => stack = Frame(k) /\ regs = MainRegs(k)
    /\ At("sti") => stack = Frame(k) /\ regs = MainRegs(k)
    /\ At("iretd") => stack = Frame(k + w) /\ regs = MainRegs(k)
    /\ IF At("iretd") /\ eip.r \in IrqHandlers THEN IFlag /\ shadow ELSE ~IFlag

InHandler ==
    eip.r \in LiveHandlers =>
        \E k \in {7, 38, 39}, w \in {0, 1} : Leaves(eip.r, k, w) /\ HandlerAt(k, w)

ChipState == [expect : {0, 2, 3, 4}, base : Int, icw3 : Int, aeoi : BOOLEAN,
              imr : 0 .. 255, irr : SUBSET Lines, isr : SUBSET Lines]
GateState == [type : {"none", "intr", "trap"}, cs : {0, 8, 16},
              handler : DOMAIN Program \cup {"none"}]

(* The types that TypeOK leaves to the operators. *)
CpuType ==
    /\ eip \in [r : {"main"} \cup LiveHandlers, k : Nat]
    /\ eip.k \in DOMAIN Program[eip.r]
    /\ DOMAIN regs = Registers
    /\ IFlag \in BOOLEAN
    /\ shadow \in BOOLEAN

MemoryType ==
    /\ idt \in [Vectors -> GateState]
    /\ pic \in [Chips -> ChipState]
    /\ idtr \in BOOLEAN
    /\ masks \in [Chips -> 0 .. 255]
    /\ bios \in [Chips -> 0 .. 255]
    /\ mapped \in BOOLEAN
    /\ raised \in [Devices -> 0 .. MaxRaised]

IInv == CpuType /\ MemoryType /\ InMain /\ InHandler

-----------------------------------------------------------------------------
(* The programs, instruction by instruction. *)

Tuple(s, n) == s = [i \in 1 .. n |-> s[i]]
Join(r, s, t) == r = s \o t
Joins(r, s, t, m, n) ==
    /\ Tuple(r, m + n)
    /\ \A i \in 1 .. m : r[i] = s[i]
    /\ \A i \in 1 .. n : r[i + m] = t[i]

(* A tuple is a sequence of its elements. *)
LEMMA TupleSeq ==
    ASSUME NEW S, NEW s, NEW m \in Nat, Tuple(s, m), \A i \in 1 .. m : s[i] \in S
    PROVE  s \in Seq(S) /\ Len(s) <= m /\ Len(s) >= m
<1>1. [i \in 1 .. m |-> s[i]] \in Seq(S)
  OBVIOUS
<1>2. s \in Seq(S)
  BY <1>1 DEF Tuple
<1>3. DOMAIN s = 1 .. m
  BY DEF Tuple
<1>4. Len(s) = m
  BY <1>2, <1>3, LenProperties
<1>5. m <= m /\ m >= m
  OBVIOUS
<1> QED BY <1>2, <1>4, <1>5, Zenon

(* The elements of two tuples put together. *)
LEMMA Joined ==
    ASSUME NEW s, NEW t, NEW r, NEW m \in Nat, NEW n \in Nat,
           Tuple(s, m), Tuple(t, n), Join(r, s, t)
    PROVE  Joins(r, s, t, m, n)
<1> DEFINE S == {s[i] : i \in 1 .. m} \cup {t[i] : i \in 1 .. n}
<1>0. (\A i \in 1 .. m : s[i] \in S) /\ (\A i \in 1 .. n : t[i] \in S)
  OBVIOUS
<1> HIDE DEF S
<1>1. s \in Seq(S) /\ Len(s) <= m /\ Len(s) >= m
  BY <1>0, TupleSeq
<1>2. t \in Seq(S) /\ Len(t) <= n /\ Len(t) >= n
  BY <1>0, TupleSeq
<1>3. /\ DOMAIN r = 1 .. m + n
      /\ \A i \in 1 .. m + n : r[i] = IF i <= m THEN s[i] ELSE t[i - m]
  BY <1>1, <1>2 DEF Join
<1>4. r = [i \in 1 .. m + n |-> r[i]]
  <2>1. s \o t \in Seq(S)
    BY <1>1, <1>2
  <2>2. r \in Seq(S)
    BY <2>1, Zenon DEF Join
  <2>3. r = [i \in DOMAIN r |-> r[i]]
    BY <2>2, LenProperties
  <2> QED BY <2>3, <1>3
<1>5. \A i \in 1 .. m : r[i] = s[i]
  BY <1>3
<1>6. \A i \in 1 .. n : r[i + m] = t[i]
  <2> TAKE i \in 1 .. n
  <2>1. i + m \in 1 .. m + n /\ ~(i + m <= m) /\ (i + m) - m = i
    OBVIOUS
  <2> QED BY <2>1, <1>3
<1> QED BY <1>4, <1>5, <1>6 DEF Tuple, Joins

(* The parts of the boot thread's text. *)
LEMMA BootTuples ==
    /\ Tuple(setup_idt_and_test, 7) /\ Tuple(setup_gdt, 3) /\ Tuple(init_8259_pic, 12)
  BY DEF Tuple, setup_idt_and_test, setup_gdt, init_8259_pic

(* setup_idt: 12 instructions, init_8259_pic and sti. *)
LEMMA SetupIdtCode ==
    /\ Tuple(setup_idt, 25)
    /\ setup_idt[1] = Arg("idt_cs", KERNEL_CS)
    /\ setup_idt[2] = set_trap_gate(0, "divide_error")
    /\ setup_idt[3] = set_trap_gate(1, "debug")
    /\ setup_idt[4] = set_intr_gate(2, "nmi")
    /\ setup_idt[5] = set_system_gate(3, "int3")
    /\ setup_idt[6] = set_trap_gate(8, "double_fault")
    /\ setup_idt[7] = set_trap_gate(13, "general_protection")
    /\ setup_idt[8] = set_trap_gate(14, "page_fault")
    /\ setup_idt[9] = set_intr_gate(32, "clockirq")
    /\ setup_idt[10] = set_intr_gate(33, "kbdirq")
    /\ setup_idt[11] = Gate(34 .. 254, "intr", "common_irq")
    /\ setup_idt[12] = Op("lidt")
    /\ \A i \in 1 .. 12 : setup_idt[i + 12] = init_8259_pic[i]
    /\ setup_idt[25] = Op("sti")
<1> DEFINE gates == << Arg("idt_cs", KERNEL_CS), set_trap_gate(0, "divide_error"),
                       set_trap_gate(1, "debug"), set_intr_gate(2, "nmi"),
                       set_system_gate(3, "int3"), set_trap_gate(8, "double_fault"),
                       set_trap_gate(13, "general_protection"),
                       set_trap_gate(14, "page_fault"), set_intr_gate(32, "clockirq"),
                       set_intr_gate(33, "kbdirq"), Gate(34 .. 254, "intr", "common_irq"),
                       Op("lidt") >>
           last  == << Op("sti") >>
           most  == gates \o init_8259_pic
           all   == setup_idt
<1>1. Tuple(gates, 12) /\ Tuple(last, 1) /\ last[1] = Op("sti")
  BY DEF Tuple
<1>2. /\ gates[1] = Arg("idt_cs", KERNEL_CS) /\ gates[2] = set_trap_gate(0, "divide_error")
      /\ gates[3] = set_trap_gate(1, "debug") /\ gates[4] = set_intr_gate(2, "nmi")
      /\ gates[5] = set_system_gate(3, "int3") /\ gates[6] = set_trap_gate(8, "double_fault")
      /\ gates[7] = set_trap_gate(13, "general_protection")
      /\ gates[8] = set_trap_gate(14, "page_fault") /\ gates[9] = set_intr_gate(32, "clockirq")
      /\ gates[10] = set_intr_gate(33, "kbdirq")
      /\ gates[11] = Gate(34 .. 254, "intr", "common_irq")
      /\ gates[12] = Op("lidt")
  OBVIOUS
<1>3. Join(most, gates, init_8259_pic) /\ Join(all, most, last)
  BY DEF Join, setup_idt
<1> HIDE DEF gates, last, most, all
<1>4. Joins(most, gates, init_8259_pic, 12, 12)
  <2>1. 12 \in Nat
    OBVIOUS
  <2> QED BY <2>1, <1>1, <1>3, BootTuples, Joined
<1>5. Tuple(most, 24)
  BY <1>4 DEF Joins
<1>6. Joins(all, most, last, 24, 1)
  <2>1. 24 \in Nat /\ 1 \in Nat
    OBVIOUS
  <2> QED BY <2>1, <1>1, <1>3, <1>5, Joined
<1>7. \A i \in 1 .. 12 : all[i] = gates[i] /\ all[i + 12] = init_8259_pic[i]
  BY <1>4, <1>6 DEF Joins
<1>8. Tuple(all, 25) /\ all[25] = last[1]
  BY <1>6 DEF Joins
<1>9. /\ all[1] = gates[1] /\ all[2] = gates[2] /\ all[3] = gates[3] /\ all[4] = gates[4]
      /\ all[5] = gates[5] /\ all[6] = gates[6] /\ all[7] = gates[7] /\ all[8] = gates[8]
      /\ all[9] = gates[9] /\ all[10] = gates[10] /\ all[11] = gates[11] /\ all[12] = gates[12]
  BY <1>7
<1> QED BY <1>1, <1>2, <1>7, <1>8, <1>9 DEF all

(* loader_main: its parts one after the other. *)
LEMMA MainParts ==
    /\ Tuple(loader_main, 39)
    /\ \A i \in 1 .. 7 : loader_main[i] = setup_idt_and_test[i]
    /\ \A i \in 1 .. 3 : loader_main[i + 8] = setup_gdt[i]
    /\ \A i \in 1 .. 25 : loader_main[i + 12] = setup_idt[i]
    /\ loader_main[8] = Op("printf") /\ loader_main[12] = Op("printf")
    /\ loader_main[38] = Op("printf") /\ loader_main[39] = Op("hlt")
<1> DEFINE print == << Op("printf") >>
           end   == << Op("printf"), Op("hlt") >>
           s8    == setup_idt_and_test \o print
           s11   == s8 \o setup_gdt
           s12   == s11 \o print
           s37   == s12 \o setup_idt
           all   == loader_main
<1>0. 7 \in Nat /\ 8 \in Nat /\ 11 \in Nat /\ 12 \in Nat /\ 37 \in Nat
      /\ 1 \in Nat /\ 2 \in Nat /\ 3 \in Nat /\ 25 \in Nat
  OBVIOUS
<1>1. /\ Tuple(print, 1) /\ print[1] = Op("printf")
      /\ Tuple(end, 2) /\ end[1] = Op("printf") /\ end[2] = Op("hlt")
  BY DEF Tuple
<1>2. /\ Join(s8, setup_idt_and_test, print)
      /\ Join(s11, s8, setup_gdt)
      /\ Join(s12, s11, print)
      /\ Join(s37, s12, setup_idt)
      /\ Join(all, s37, end)
  BY DEF Join, loader_main
<1> HIDE DEF print, end, s8, s11, s12, s37, all
<1>3. Joins(s8, setup_idt_and_test, print, 7, 1)
  BY <1>0, <1>1, <1>2, BootTuples, Joined
<1>4. Tuple(s8, 8)
  BY <1>3 DEF Joins
<1>5. Joins(s11, s8, setup_gdt, 8, 3)
  BY <1>0, <1>2, <1>4, BootTuples, Joined
<1>6. Tuple(s11, 11)
  BY <1>5 DEF Joins
<1>7. Joins(s12, s11, print, 11, 1)
  BY <1>0, <1>1, <1>2, <1>6, Joined
<1>8. Tuple(s12, 12)
  BY <1>7 DEF Joins
<1>9. Joins(s37, s12, setup_idt, 12, 25)
  BY <1>0, <1>2, <1>8, SetupIdtCode, Joined
<1>10. Tuple(s37, 37)
  BY <1>9 DEF Joins
<1>11. Joins(all, s37, end, 37, 2)
  BY <1>0, <1>1, <1>2, <1>10, Joined
<1>12. /\ \A i \in 1 .. 37 : all[i] = s37[i]
       /\ \A i \in 1 .. 12 : s37[i] = s12[i]
       /\ \A i \in 1 .. 11 : s12[i] = s11[i]
       /\ \A i \in 1 .. 8 : s11[i] = s8[i]
       /\ \A i \in 1 .. 7 : s8[i] = setup_idt_and_test[i]
       /\ \A i \in 1 .. 3 : s11[i + 8] = setup_gdt[i]
       /\ \A i \in 1 .. 25 : s37[i + 12] = setup_idt[i]
  BY <1>3, <1>5, <1>7, <1>9, <1>11 DEF Joins
<1>13. s8[8] = Op("printf") /\ s12[12] = Op("printf") /\ all[38] = Op("printf") /\ all[39] = Op("hlt")
  BY <1>1, <1>3, <1>7, <1>11 DEF Joins
<1>14. Tuple(all, 39)
  BY <1>11 DEF Joins
<1>15. \A i \in 1 .. 7 : all[i] = setup_idt_and_test[i]
  BY <1>12
<1>16. \A i \in 1 .. 3 : all[i + 8] = setup_gdt[i]
  <2> TAKE i \in 1 .. 3
  <2>1. i + 8 \in 1 .. 11 /\ i + 8 \in 1 .. 12 /\ i + 8 \in 1 .. 37
    OBVIOUS
  <2> QED BY <2>1, <1>12
<1>17. \A i \in 1 .. 25 : all[i + 12] = setup_idt[i]
  <2> TAKE i \in 1 .. 25
  <2>1. i + 12 \in 1 .. 37
    OBVIOUS
  <2> QED BY <2>1, <1>12
<1>18. all[8] = s8[8] /\ all[12] = s12[12]
  BY <1>12
<1> QED BY <1>13, <1>14, <1>15, <1>16, <1>17, <1>18 DEF all

(* loader_main, instruction by instruction. *)
LEMMA MainCode ==
    /\ loader_main[1] = Arg("idt_cs", OLD_KERNEL_CS)
    /\ loader_main[2] = set_system_gate(3, "_test_int3")
    /\ loader_main[3] = set_trap_gate(13, "_test_general_protection")
    /\ loader_main[4] = set_trap_gate(14, "_test_page_fault")
    /\ loader_main[5] = Op("lidt")
    /\ loader_main[6] = Op("int_3")
    /\ loader_main[7] = Op("store")
    /\ loader_main[8] = Op("printf")
    /\ loader_main[9] = Op("lgdt")
    /\ loader_main[10] = Arg("mov_ds", KERNEL_DS)
    /\ loader_main[11] = Arg("retf", KERNEL_CS)
    /\ loader_main[12] = Op("printf")
    /\ loader_main[13] = Arg("idt_cs", KERNEL_CS)
    /\ loader_main[14] = set_trap_gate(0, "divide_error")
    /\ loader_main[15] = set_trap_gate(1, "debug")
    /\ loader_main[16] = set_intr_gate(2, "nmi")
    /\ loader_main[17] = set_system_gate(3, "int3")
    /\ loader_main[18] = set_trap_gate(8, "double_fault")
    /\ loader_main[19] = set_trap_gate(13, "general_protection")
    /\ loader_main[20] = set_trap_gate(14, "page_fault")
    /\ loader_main[21] = set_intr_gate(32, "clockirq")
    /\ loader_main[22] = set_intr_gate(33, "kbdirq")
    /\ loader_main[23] = Gate(34 .. 254, "intr", "common_irq")
    /\ loader_main[24] = Op("lidt")
    /\ loader_main[25] = Arg("inb", "master")
    /\ loader_main[26] = Arg("inb", "slave")
    /\ loader_main[27] = Out("master", "command", 17)
    /\ loader_main[28] = Out("slave", "command", 17)
    /\ loader_main[29] = Out("master", "data", 32)
    /\ loader_main[30] = Out("slave", "data", 40)
    /\ loader_main[31] = Out("master", "data", 4)
    /\ loader_main[32] = Out("slave", "data", 2)
    /\ loader_main[33] = Out("master", "data", ICW4)
    /\ loader_main[34] = Out("slave", "data", ICW4)
    /\ loader_main[35] = Arg("restore", "master")
    /\ loader_main[36] = Arg("restore", "slave")
    /\ loader_main[37] = Op("sti")
    /\ loader_main[38] = Op("printf")
    /\ loader_main[39] = Op("hlt")
<1>1. /\ loader_main[1] = setup_idt_and_test[1] /\ loader_main[2] = setup_idt_and_test[2]
      /\ loader_main[3] = setup_idt_and_test[3] /\ loader_main[4] = setup_idt_and_test[4]
      /\ loader_main[5] = setup_idt_and_test[5] /\ loader_main[6] = setup_idt_and_test[6]
      /\ loader_main[7] = setup_idt_and_test[7]
  BY MainParts
<1>2. /\ loader_main[1 + 8] = setup_gdt[1] /\ loader_main[2 + 8] = setup_gdt[2]
      /\ loader_main[3 + 8] = setup_gdt[3]
  BY MainParts
<1>3. /\ loader_main[1 + 12] = setup_idt[1] /\ loader_main[2 + 12] = setup_idt[2]
      /\ loader_main[3 + 12] = setup_idt[3] /\ loader_main[4 + 12] = setup_idt[4]
      /\ loader_main[5 + 12] = setup_idt[5] /\ loader_main[6 + 12] = setup_idt[6]
      /\ loader_main[7 + 12] = setup_idt[7] /\ loader_main[8 + 12] = setup_idt[8]
      /\ loader_main[9 + 12] = setup_idt[9] /\ loader_main[10 + 12] = setup_idt[10]
      /\ loader_main[11 + 12] = setup_idt[11] /\ loader_main[12 + 12] = setup_idt[12]
      /\ loader_main[25 + 12] = setup_idt[25]
  BY MainParts
<1>4. \A i \in 1 .. 12 : loader_main[i + 24] = init_8259_pic[i]
  <2> TAKE i \in 1 .. 12
  <2>1. i + 12 \in 1 .. 25 /\ (i + 12) + 12 = i + 24
    OBVIOUS
  <2>2. loader_main[(i + 12) + 12] = setup_idt[i + 12]
    BY <2>1, MainParts
  <2> QED BY <2>1, <2>2, SetupIdtCode
<1>5. /\ loader_main[1 + 24] = init_8259_pic[1] /\ loader_main[2 + 24] = init_8259_pic[2]
      /\ loader_main[3 + 24] = init_8259_pic[3] /\ loader_main[4 + 24] = init_8259_pic[4]
      /\ loader_main[5 + 24] = init_8259_pic[5] /\ loader_main[6 + 24] = init_8259_pic[6]
      /\ loader_main[7 + 24] = init_8259_pic[7] /\ loader_main[8 + 24] = init_8259_pic[8]
      /\ loader_main[9 + 24] = init_8259_pic[9] /\ loader_main[10 + 24] = init_8259_pic[10]
      /\ loader_main[11 + 24] = init_8259_pic[11] /\ loader_main[12 + 24] = init_8259_pic[12]
  BY <1>4
<1>6. /\ setup_idt_and_test[1] = Arg("idt_cs", OLD_KERNEL_CS)
      /\ setup_idt_and_test[2] = set_system_gate(3, "_test_int3")
      /\ setup_idt_and_test[3] = set_trap_gate(13, "_test_general_protection")
      /\ setup_idt_and_test[4] = set_trap_gate(14, "_test_page_fault")
      /\ setup_idt_and_test[5] = Op("lidt")
      /\ setup_idt_and_test[6] = Op("int_3")
      /\ setup_idt_and_test[7] = Op("store")
      /\ setup_gdt[1] = Op("lgdt") /\ setup_gdt[2] = Arg("mov_ds", KERNEL_DS)
      /\ setup_gdt[3] = Arg("retf", KERNEL_CS)
  BY DEF setup_idt_and_test, setup_gdt
<1>7. /\ init_8259_pic[1] = Arg("inb", "master") /\ init_8259_pic[2] = Arg("inb", "slave")
      /\ init_8259_pic[3] = Out("master", "command", 17)
      /\ init_8259_pic[4] = Out("slave", "command", 17)
      /\ init_8259_pic[5] = Out("master", "data", 32)
      /\ init_8259_pic[6] = Out("slave", "data", 40)
      /\ init_8259_pic[7] = Out("master", "data", 4)
      /\ init_8259_pic[8] = Out("slave", "data", 2)
      /\ init_8259_pic[9] = Out("master", "data", ICW4)
      /\ init_8259_pic[10] = Out("slave", "data", ICW4)
      /\ init_8259_pic[11] = Arg("restore", "master") /\ init_8259_pic[12] = Arg("restore", "slave")
  BY DEF init_8259_pic
<1>8. /\ loader_main[1] = Arg("idt_cs", OLD_KERNEL_CS)
      /\ loader_main[2] = set_system_gate(3, "_test_int3")
      /\ loader_main[3] = set_trap_gate(13, "_test_general_protection")
      /\ loader_main[4] = set_trap_gate(14, "_test_page_fault")
      /\ loader_main[5] = Op("lidt") /\ loader_main[6] = Op("int_3") /\ loader_main[7] = Op("store")
      /\ loader_main[9] = Op("lgdt") /\ loader_main[10] = Arg("mov_ds", KERNEL_DS)
      /\ loader_main[11] = Arg("retf", KERNEL_CS)
  <2>1. /\ loader_main[9] = setup_gdt[1] /\ loader_main[10] = setup_gdt[2]
        /\ loader_main[11] = setup_gdt[3]
    BY <1>2
  <2>2. /\ loader_main[9] = Op("lgdt") /\ loader_main[10] = Arg("mov_ds", KERNEL_DS)
        /\ loader_main[11] = Arg("retf", KERNEL_CS)
    BY <2>1, <1>6
  <2> QED BY <1>1, <1>6, <2>2
<1>9. /\ loader_main[25] = Arg("inb", "master") /\ loader_main[26] = Arg("inb", "slave")
      /\ loader_main[27] = Out("master", "command", 17)
      /\ loader_main[28] = Out("slave", "command", 17)
      /\ loader_main[29] = Out("master", "data", 32)
      /\ loader_main[30] = Out("slave", "data", 40)
      /\ loader_main[31] = Out("master", "data", 4)
      /\ loader_main[32] = Out("slave", "data", 2)
      /\ loader_main[33] = Out("master", "data", ICW4)
      /\ loader_main[34] = Out("slave", "data", ICW4)
      /\ loader_main[35] = Arg("restore", "master") /\ loader_main[36] = Arg("restore", "slave")
  BY <1>5, <1>7
<1>10. /\ loader_main[13] = setup_idt[1] /\ loader_main[14] = setup_idt[2]
       /\ loader_main[15] = setup_idt[3] /\ loader_main[16] = setup_idt[4]
       /\ loader_main[17] = setup_idt[5] /\ loader_main[18] = setup_idt[6]
       /\ loader_main[19] = setup_idt[7] /\ loader_main[20] = setup_idt[8]
       /\ loader_main[21] = setup_idt[9] /\ loader_main[22] = setup_idt[10]
       /\ loader_main[23] = setup_idt[11] /\ loader_main[24] = setup_idt[12]
       /\ loader_main[37] = setup_idt[25]
  BY <1>3
<1> QED BY <1>8, <1>9, <1>10, SetupIdtCode, MainParts

(* The name in each kind of instruction. *)
LEMMA OpNames ==
    /\ \A n : Op(n).op = n
    /\ \A n, v : Arg(n, v).op = n /\ Arg(n, v).v = v
    /\ \A v, h : /\ set_intr_gate(v, h).op = "gate"
                 /\ set_trap_gate(v, h).op = "gate"
                 /\ set_system_gate(v, h).op = "gate"
  BY DEF Op, Arg, Gate, set_intr_gate, set_trap_gate, set_system_gate

(* The boot thread's operations, part by part. *)
LEMMA TestOps ==
    /\ setup_idt_and_test[1].op = "idt_cs" /\ setup_idt_and_test[2].op = "gate"
    /\ setup_idt_and_test[3].op = "gate" /\ setup_idt_and_test[4].op = "gate"
    /\ setup_idt_and_test[5].op = "lidt" /\ setup_idt_and_test[6].op = "int_3"
    /\ setup_idt_and_test[7].op = "store"
  BY DEF setup_idt_and_test, Op, Arg, Gate, set_trap_gate, set_system_gate

(* The operations of setup_gdt. *)
LEMMA GdtOps ==
    /\ setup_gdt[1].op = "lgdt" /\ setup_gdt[2].op = "mov_ds" /\ setup_gdt[3].op = "retf"
  BY DEF setup_gdt, Op, Arg

(* The operations of init_8259_pic. *)
LEMMA PicOps ==
    /\ init_8259_pic[1].op = "inb" /\ init_8259_pic[2].op = "inb"
    /\ init_8259_pic[3].op = "outb" /\ init_8259_pic[4].op = "outb"
    /\ init_8259_pic[5].op = "outb" /\ init_8259_pic[6].op = "outb"
    /\ init_8259_pic[7].op = "outb" /\ init_8259_pic[8].op = "outb"
    /\ init_8259_pic[9].op = "outb" /\ init_8259_pic[10].op = "outb"
    /\ init_8259_pic[11].op = "restore" /\ init_8259_pic[12].op = "restore"
  BY DEF init_8259_pic, Arg, Out

(* The operations of setup_idt before and after those of init_8259_pic. *)
LEMMA IdtOps ==
    /\ setup_idt[1].op = "idt_cs"
    /\ setup_idt[2].op = "gate" /\ setup_idt[3].op = "gate" /\ setup_idt[4].op = "gate"
    /\ setup_idt[5].op = "gate" /\ setup_idt[6].op = "gate" /\ setup_idt[7].op = "gate"
    /\ setup_idt[8].op = "gate" /\ setup_idt[9].op = "gate" /\ setup_idt[10].op = "gate"
    /\ setup_idt[11].op = "gate" /\ setup_idt[12].op = "lidt" /\ setup_idt[25].op = "sti"
<1>1. /\ setup_idt[2].op = "gate" /\ setup_idt[3].op = "gate" /\ setup_idt[4].op = "gate"
      /\ setup_idt[5].op = "gate" /\ setup_idt[6].op = "gate" /\ setup_idt[7].op = "gate"
      /\ setup_idt[8].op = "gate" /\ setup_idt[9].op = "gate" /\ setup_idt[10].op = "gate"
  BY SetupIdtCode, OpNames
<1>2. setup_idt[11].op = "gate"
  BY SetupIdtCode DEF Gate
<1>3. setup_idt[1].op = "idt_cs"
  BY SetupIdtCode DEF Arg
<1>4. setup_idt[12].op = "lidt" /\ setup_idt[25].op = "sti"
  BY SetupIdtCode DEF Op
<1> QED BY <1>1, <1>2, <1>3, <1>4

(* The boot thread's operation o at its place k. *)
Place(o, k) ==
    /\ o \in {"idt_cs", "gate", "lidt", "int_3", "store", "printf", "lgdt", "mov_ds", "retf",
              "inb", "outb", "restore", "sti", "hlt"}
    /\ o = "idt_cs" => k \in {1, 13}
    /\ o = "gate" => k \in 2 .. 4 \/ k \in 14 .. 23
    /\ o = "lidt" => k \in {5, 24}
    /\ o = "int_3" => k = 6
    /\ o = "store" => k = 7
    /\ o = "printf" => k \in {8, 12, 38}
    /\ o = "lgdt" => k = 9
    /\ o = "mov_ds" => k = 10
    /\ o = "retf" => k = 11
    /\ o = "inb" => k \in {25, 26}
    /\ o = "outb" => k \in 27 .. 34
    /\ o = "restore" => k \in {35, 36}
    /\ o = "sti" => k = 37

(* The places of the boot thread's operations. *)
LEMMA MainOps ==
    ASSUME NEW k \in 1 .. 39
    PROVE  Place(loader_main[k].op, k)
<1>1. CASE k \in 1 .. 7
  <2>1. loader_main[k].op = setup_idt_and_test[k].op
    BY <1>1, MainParts
  <2>2. CASE k = 1
    BY <2>1, <2>2, TestOps DEF Place
  <2>3. CASE k \in 2 .. 4
    <3>1. k = 2 \/ k = 3 \/ k = 4
      BY <2>3
    <3>2. loader_main[k].op = "gate"
      BY <2>1, <3>1, TestOps
    <3> QED BY <2>3, <3>2 DEF Place
  <2>4. CASE k = 5
    BY <2>1, <2>4, TestOps DEF Place
  <2>5. CASE k = 6
    BY <2>1, <2>5, TestOps DEF Place
  <2>6. CASE k = 7
    BY <2>1, <2>6, TestOps DEF Place
  <2> QED BY <1>1, <2>2, <2>3, <2>4, <2>5, <2>6
<1>2. CASE k \in {8, 12, 38}
  <2>1. loader_main[k].op = "printf"
    BY <1>2, MainParts, OpNames
  <2> QED BY <2>1, <1>2 DEF Place
<1>3. CASE k \in 9 .. 11
  <2>1. /\ loader_main[1 + 8] = setup_gdt[1] /\ loader_main[2 + 8] = setup_gdt[2]
        /\ loader_main[3 + 8] = setup_gdt[3]
    BY MainParts
  <2>2. /\ loader_main[9] = setup_gdt[1] /\ loader_main[10] = setup_gdt[2]
        /\ loader_main[11] = setup_gdt[3]
    BY <2>1
  <2>3. CASE k = 9
    BY <2>2, <2>3, GdtOps DEF Place
  <2>4. CASE k = 10
    BY <2>2, <2>4, GdtOps DEF Place
  <2>5. CASE k = 11
    BY <2>2, <2>5, GdtOps DEF Place
  <2> QED BY <1>3, <2>3, <2>4, <2>5
<1>4. CASE k \in 13 .. 37
  <2>1. PICK i \in 1 .. 25 : k = i + 12
    <3>1. k - 12 \in 1 .. 25 /\ k = (k - 12) + 12
      BY <1>4
    <3> QED BY <3>1
  <2>2. loader_main[k].op = setup_idt[i].op
    BY <2>1, MainParts
  <2>3. CASE i = 1
    BY <2>1, <2>2, <2>3, IdtOps DEF Place
  <2>4. CASE i \in 2 .. 11
    <3>1. \/ i = 2 \/ i = 3 \/ i = 4 \/ i = 5 \/ i = 6
          \/ i = 7 \/ i = 8 \/ i = 9 \/ i = 10 \/ i = 11
      BY <2>4
    <3>2. loader_main[k].op = "gate"
      BY <2>2, <3>1, IdtOps
    <3> QED BY <2>1, <2>4, <3>2 DEF Place
  <2>5. CASE i = 12
    BY <2>1, <2>2, <2>5, IdtOps DEF Place
  <2>6. CASE i = 25
    BY <2>1, <2>2, <2>6, IdtOps DEF Place
  <2>7. CASE i \in 13 .. 24
    <3>1. PICK j \in 1 .. 12 : i = j + 12
      <4>1. i - 12 \in 1 .. 12 /\ i = (i - 12) + 12
        BY <2>7
      <4> QED BY <4>1
    <3>2. loader_main[k].op = init_8259_pic[j].op
      BY <2>2, <3>1, SetupIdtCode
    <3>3. CASE j \in {1, 2}
      <4>1. loader_main[k].op = "inb"
        BY <3>2, <3>3, PicOps
      <4>2. k \in {25, 26}
        BY <2>1, <3>1, <3>3
      <4> QED BY <4>1, <4>2 DEF Place
    <3>4. CASE j \in 3 .. 10
      <4>1. j = 3 \/ j = 4 \/ j = 5 \/ j = 6 \/ j = 7 \/ j = 8 \/ j = 9 \/ j = 10
        BY <3>4
      <4>2. loader_main[k].op = "outb"
        BY <3>2, <4>1, PicOps
      <4>3. k \in 27 .. 34
        BY <2>1, <3>1, <3>4
      <4> QED BY <4>2, <4>3 DEF Place
    <3>5. CASE j \in {11, 12}
      <4>1. loader_main[k].op = "restore"
        BY <3>2, <3>5, PicOps
      <4>2. k \in {35, 36}
        BY <2>1, <3>1, <3>5
      <4> QED BY <4>1, <4>2 DEF Place
    <3> QED BY <3>3, <3>4, <3>5
  <2> QED BY <2>3, <2>4, <2>5, <2>6, <2>7
<1>5. CASE k = 39
  <2>1. loader_main[k].op = "hlt"
    BY <1>5, MainParts, OpNames
  <2> QED BY <2>1, <1>5 DEF Place
<1> QED BY <1>1, <1>2, <1>3, <1>4, <1>5

(* Where the parts of a handler's text are. *)
LEMMA PrintingTuple ==
    /\ Tuple(Printing, 3) /\ Printing[1] = Op("SAVE_ALL")
    /\ Printing[2] = Op("printf") /\ Printing[3] = Op("RESTORE_ALL")
  BY DEF Tuple, Printing

(* The handler of the provoked breakpoint. *)
LEMMA Int3Code ==
    /\ DOMAIN int3 = 1 .. 4
    /\ int3[1] = Op("SAVE_ALL") /\ int3[2] = Op("printf") /\ int3[3] = Op("RESTORE_ALL")
    /\ int3[4] = Op("iretd")
<1> DEFINE rest == << Op("iretd") >>
           all  == int3
<1>1. Join(all, Printing, rest)
  BY DEF Join, int3
<1>2. Tuple(rest, 1) /\ rest[1] = Op("iretd") /\ 3 \in Nat /\ 1 \in Nat
  BY DEF Tuple
<1> HIDE DEF rest, all
<1>3. Joins(all, Printing, rest, 3, 1)
  BY <1>1, <1>2, PrintingTuple, Joined
<1>4. DOMAIN all = 1 .. 4 /\ all[4] = rest[1]
  BY <1>3 DEF Joins, Tuple
<1>5. all[1] = Printing[1] /\ all[2] = Printing[2] /\ all[3] = Printing[3]
  BY <1>3 DEF Joins
<1> QED BY <1>2, <1>4, <1>5, PrintingTuple DEF all

(* The handler of the provoked page fault. *)
LEMMA PageFaultCode ==
    /\ DOMAIN page_fault = 1 .. 6
    /\ page_fault[1] = Op("SAVE_ALL") /\ page_fault[2] = Op("printf")
    /\ page_fault[3] = Op("RESTORE_ALL") /\ page_fault[4] = Op("add_esp_4")
    /\ page_fault[5] = Op("add_at_esp_0xA") /\ page_fault[6] = Op("iretd")
<1> DEFINE rest == << Op("add_esp_4"), Op("add_at_esp_0xA"), Op("iretd") >>
           all  == page_fault
<1>1. Join(all, Printing, rest)
  BY DEF Join, page_fault
<1>2. /\ Tuple(rest, 3) /\ 3 \in Nat
      /\ rest[1] = Op("add_esp_4") /\ rest[2] = Op("add_at_esp_0xA") /\ rest[3] = Op("iretd")
  BY DEF Tuple
<1> HIDE DEF rest, all
<1>3. Joins(all, Printing, rest, 3, 3)
  BY <1>1, <1>2, PrintingTuple, Joined
<1>4. DOMAIN all = 1 .. 6 /\ all[4] = rest[1] /\ all[5] = rest[2] /\ all[6] = rest[3]
  BY <1>3 DEF Joins, Tuple
<1>5. all[1] = Printing[1] /\ all[2] = Printing[2] /\ all[3] = Printing[3]
  BY <1>3 DEF Joins
<1> QED BY <1>2, <1>4, <1>5, PrintingTuple DEF all

(* The handlers that print of an interrupt. *)
LEMMA KbdirqCode ==
    /\ DOMAIN kbdirq = 1 .. 5
    /\ kbdirq[1] = Op("SAVE_ALL") /\ kbdirq[2] = Op("printf") /\ kbdirq[3] = Op("RESTORE_ALL")
    /\ kbdirq[4] = Op("sti") /\ kbdirq[5] = Op("iretd")
<1> DEFINE rest == << Op("sti"), Op("iretd") >>
           all  == kbdirq
<1>1. Join(all, Printing, rest)
  BY DEF Join, kbdirq
<1>2. Tuple(rest, 2) /\ rest[1] = Op("sti") /\ rest[2] = Op("iretd") /\ 3 \in Nat /\ 2 \in Nat
  BY DEF Tuple
<1> HIDE DEF rest, all
<1>3. Joins(all, Printing, rest, 3, 2)
  BY <1>1, <1>2, PrintingTuple, Joined
<1>4. DOMAIN all = 1 .. 5 /\ all[4] = rest[1] /\ all[5] = rest[2]
  BY <1>3 DEF Joins, Tuple
<1>5. all[1] = Printing[1] /\ all[2] = Printing[2] /\ all[3] = Printing[3]
  BY <1>3 DEF Joins
<1> QED BY <1>2, <1>4, <1>5, PrintingTuple DEF all

(* The operation at place j of a handler, and the one after it. *)
FlowAt(p, j, then) ==
    /\ j \in Nat
    /\ p[j].op \in {"SAVE_ALL", "printf", "RESTORE_ALL", "add_esp_4", "add_at_esp_0xA",
                    "sti", "iretd"}
    /\ p[j].op # "iretd" => j + 1 \in DOMAIN p
    /\ p[j].op = "SAVE_ALL" => p[j + 1].op \in {"printf", "RESTORE_ALL"}
    /\ p[j].op = "printf" => p[j + 1].op = "RESTORE_ALL"
    /\ p[j].op = "RESTORE_ALL" => p[j + 1].op = then
    /\ p[j].op = "add_esp_4" => then = "add_esp_4" /\ p[j + 1].op = "add_at_esp_0xA"
    /\ p[j].op = "add_at_esp_0xA" => then = "add_esp_4" /\ p[j + 1].op = "iretd"
    /\ p[j].op = "sti" => then = "sti" /\ p[j + 1].op = "iretd"

Flow(p, then) ==
    /\ 1 \in DOMAIN p /\ p[1].op = "SAVE_ALL"
    /\ \A j \in DOMAIN p : FlowAt(p, j, then)

(* The handler of the clock. *)
LEMMA ClockirqCode ==
    /\ DOMAIN clockirq = 1 .. 4 /\ clockirq[1] = Op("SAVE_ALL")
    /\ clockirq[2] = Op("RESTORE_ALL") /\ clockirq[3] = Op("sti") /\ clockirq[4] = Op("iretd")
  BY DEF clockirq

(* What follows RESTORE_ALL. *)
After(r) ==
    IF r \in IrqHandlers THEN "sti" ELSE IF r = "_test_page_fault" THEN "add_esp_4" ELSE "iretd"

(* The order of the operations of the handlers that are entered. *)
LEMMA HandlerFlow ==
    ASSUME NEW r \in LiveHandlers
    PROVE  Flow(Program[r], After(r))
<1>1. Flow(int3, "iretd")
  <2>1. /\ int3[1].op = "SAVE_ALL"
        /\ int3[2].op = "printf"
        /\ int3[3].op = "RESTORE_ALL"
        /\ int3[4].op = "iretd"
    BY Int3Code, OpNames
  <2>2. DOMAIN int3 = 1 .. 4
    BY Int3Code
  <2>3. ASSUME NEW j \in DOMAIN int3
        PROVE  FlowAt(int3, j, "iretd")
    <3>1. j = 1 \/ j = 2 \/ j = 3 \/ j = 4
      BY <2>2, <2>3
    <3>2. CASE j = 1
      BY <3>2, <2>1, <2>2 DEF FlowAt
    <3>3. CASE j = 2
      BY <3>3, <2>1, <2>2 DEF FlowAt
    <3>4. CASE j = 3
      BY <3>4, <2>1, <2>2 DEF FlowAt
    <3>5. CASE j = 4
      BY <3>5, <2>1, <2>2 DEF FlowAt
    <3> QED BY <3>1, <3>2, <3>3, <3>4, <3>5
  <2> QED BY <2>1, <2>2, <2>3 DEF Flow
<1>2. Flow(page_fault, "add_esp_4")
  <2>1. /\ page_fault[1].op = "SAVE_ALL"
        /\ page_fault[2].op = "printf"
        /\ page_fault[3].op = "RESTORE_ALL"
        /\ page_fault[4].op = "add_esp_4"
        /\ page_fault[5].op = "add_at_esp_0xA"
        /\ page_fault[6].op = "iretd"
    BY PageFaultCode, OpNames
  <2>2. DOMAIN page_fault = 1 .. 6
    BY PageFaultCode
  <2>3. ASSUME NEW j \in DOMAIN page_fault
        PROVE  FlowAt(page_fault, j, "add_esp_4")
    <3>1. j = 1 \/ j = 2 \/ j = 3 \/ j = 4 \/ j = 5 \/ j = 6
      BY <2>2, <2>3
    <3>2. CASE j = 1
      <4>1. page_fault[j].op = "SAVE_ALL" /\ page_fault[j + 1].op = "printf"
        BY <3>2, <2>1
      <4>2. j \in Nat /\ j + 1 \in DOMAIN page_fault
        BY <3>2, <2>2
      <4> QED BY <4>1, <4>2 DEF FlowAt
    <3>3. CASE j = 2
      <4>1. page_fault[j].op = "printf" /\ page_fault[j + 1].op = "RESTORE_ALL"
        BY <3>3, <2>1
      <4>2. j \in Nat /\ j + 1 \in DOMAIN page_fault
        BY <3>3, <2>2
      <4> QED BY <4>1, <4>2 DEF FlowAt
    <3>4. CASE j = 3
      <4>1. page_fault[j].op = "RESTORE_ALL" /\ page_fault[j + 1].op = "add_esp_4"
        BY <3>4, <2>1
      <4>2. j \in Nat /\ j + 1 \in DOMAIN page_fault
        BY <3>4, <2>2
      <4> QED BY <4>1, <4>2 DEF FlowAt
    <3>5. CASE j = 4
      <4>1. page_fault[j].op = "add_esp_4" /\ page_fault[j + 1].op = "add_at_esp_0xA"
        BY <3>5, <2>1
      <4>2. j \in Nat /\ j + 1 \in DOMAIN page_fault
        BY <3>5, <2>2
      <4> QED BY <4>1, <4>2 DEF FlowAt
    <3>6. CASE j = 5
      <4>1. page_fault[j].op = "add_at_esp_0xA" /\ page_fault[j + 1].op = "iretd"
        BY <3>6, <2>1
      <4>2. j \in Nat /\ j + 1 \in DOMAIN page_fault
        BY <3>6, <2>2
      <4> QED BY <4>1, <4>2 DEF FlowAt
    <3>7. CASE j = 6
      <4>1. page_fault[j].op = "iretd"
        BY <3>7, <2>1
      <4>2. j \in Nat
        BY <3>7, <2>2
      <4> QED BY <4>1, <4>2 DEF FlowAt
    <3> QED BY <3>1, <3>2, <3>3, <3>4, <3>5, <3>6, <3>7
  <2> QED BY <2>1, <2>2, <2>3 DEF Flow
<1>3. Flow(kbdirq, "sti")
  <2>1. /\ kbdirq[1].op = "SAVE_ALL"
        /\ kbdirq[2].op = "printf"
        /\ kbdirq[3].op = "RESTORE_ALL"
        /\ kbdirq[4].op = "sti"
        /\ kbdirq[5].op = "iretd"
    BY KbdirqCode, OpNames
  <2>2. DOMAIN kbdirq = 1 .. 5
    BY KbdirqCode
  <2>3. ASSUME NEW j \in DOMAIN kbdirq
        PROVE  FlowAt(kbdirq, j, "sti")
    <3>1. j = 1 \/ j = 2 \/ j = 3 \/ j = 4 \/ j = 5
      BY <2>2, <2>3
    <3>2. CASE j = 1
      BY <3>2, <2>1, <2>2 DEF FlowAt
    <3>3. CASE j = 2
      BY <3>3, <2>1, <2>2 DEF FlowAt
    <3>4. CASE j = 3
      BY <3>4, <2>1, <2>2 DEF FlowAt
    <3>5. CASE j = 4
      BY <3>5, <2>1, <2>2 DEF FlowAt
    <3>6. CASE j = 5
      BY <3>6, <2>1, <2>2 DEF FlowAt
    <3> QED BY <3>1, <3>2, <3>3, <3>4, <3>5, <3>6
  <2> QED BY <2>1, <2>2, <2>3 DEF Flow
<1>4. Flow(clockirq, "sti")
  <2>1. /\ clockirq[1].op = "SAVE_ALL"
        /\ clockirq[2].op = "RESTORE_ALL"
        /\ clockirq[3].op = "sti"
        /\ clockirq[4].op = "iretd"
    BY ClockirqCode, OpNames
  <2>2. DOMAIN clockirq = 1 .. 4
    BY ClockirqCode
  <2>3. ASSUME NEW j \in DOMAIN clockirq
        PROVE  FlowAt(clockirq, j, "sti")
    <3>1. j = 1 \/ j = 2 \/ j = 3 \/ j = 4
      BY <2>2, <2>3
    <3>2. CASE j = 1
      BY <3>2, <2>1, <2>2 DEF FlowAt
    <3>3. CASE j = 2
      BY <3>3, <2>1, <2>2 DEF FlowAt
    <3>4. CASE j = 3
      BY <3>4, <2>1, <2>2 DEF FlowAt
    <3>5. CASE j = 4
      BY <3>5, <2>1, <2>2 DEF FlowAt
    <3> QED BY <3>1, <3>2, <3>3, <3>4, <3>5
  <2> QED BY <2>1, <2>2, <2>3 DEF Flow
<1>5. common_irq = kbdirq
  BY DEF common_irq, kbdirq
<1>6. /\ Program["_test_int3"] = int3 /\ Program["_test_page_fault"] = page_fault
      /\ Program["clockirq"] = clockirq /\ Program["kbdirq"] = kbdirq
      /\ Program["common_irq"] = common_irq
  BY DEF Program
<1>7. r \in {"_test_int3", "_test_page_fault", "clockirq", "kbdirq", "common_irq"}
  BY DEF LiveHandlers, IrqHandlers
<1>8. CASE r = "_test_int3"
  BY <1>8, <1>1, <1>6 DEF IrqHandlers, After
<1>9. CASE r = "_test_page_fault"
  BY <1>9, <1>2, <1>6 DEF IrqHandlers, After
<1>10. CASE r = "clockirq"
  BY <1>10, <1>4, <1>6 DEF IrqHandlers, After
<1>11. CASE r \in {"kbdirq", "common_irq"}
  BY <1>11, <1>3, <1>5, <1>6 DEF IrqHandlers, After
<1> QED BY <1>7, <1>8, <1>9, <1>10, <1>11

(* Every routine named has a text. *)
LEMMA Routines ==
    /\ DOMAIN Program = {"main", "_test_int3", "_test_page_fault", "_test_general_protection",
                         "divide_error", "debug", "nmi", "int3", "page_fault", "double_fault",
                         "general_protection", "clockirq", "kbdirq", "common_irq", "shutdown"}
    /\ Program["main"] = loader_main
  BY DEF Program

-----------------------------------------------------------------------------
(* The stack. *)

(* A sequence put before or after nothing. *)
LEMMA Alone ==
    ASSUME NEW s, NEW n \in Nat, Tuple(s, n)
    PROVE  <<>> \o s = s /\ s \o <<>> = s
<1> DEFINE S == {s[i] : i \in 1 .. n}
<1>1. \A i \in 1 .. n : s[i] \in S
  OBVIOUS
<1> HIDE DEF S
<1>2. s \in Seq(S)
  BY <1>1, TupleSeq
<1> QED BY <1>2, ConcatEmptySeq

(* The pieces of a joined sequence, cut out again. *)
LEMMA Cut ==
    ASSUME NEW s, NEW t, NEW r, NEW m \in Nat, NEW n \in Nat,
           Tuple(s, m), Tuple(t, n), Join(r, s, t)
    PROVE  Len(r) = m + n /\ \A a \in Nat : a = m + 1 => SubSeq(r, a, Len(r)) = t
<1> DEFINE S == {s[i] : i \in 1 .. m} \cup {t[i] : i \in 1 .. n}
<1>1. (\A i \in 1 .. m : s[i] \in S) /\ (\A i \in 1 .. n : t[i] \in S)
  OBVIOUS
<1> HIDE DEF S
<1>2. Joins(r, s, t, m, n)
  BY Joined
<1>3. t \in Seq(S) /\ Len(t) = n
  <2>1. t \in Seq(S) /\ Len(t) <= n /\ Len(t) >= n
    BY <1>1, TupleSeq
  <2>2. Len(t) \in Nat
    BY <2>1, LenProperties
  <2> QED BY <2>1, <2>2
<1>4. /\ Tuple(r, m + n)
      /\ \A i \in 1 .. n : r[i + m] = t[i]
      /\ \A i \in 1 .. m : r[i] = s[i]
  BY <1>2 DEF Joins
<1>5. \A i \in 1 .. m + n : r[i] \in S
  <2> TAKE i \in 1 .. m + n
  <2>1. CASE i <= m
    <3>1. i \in 1 .. m
      BY <2>1
    <3> QED BY <3>1, <1>1, <1>4
  <2>2. CASE ~(i <= m)
    <3>1. i - m \in 1 .. n /\ (i - m) + m = i
      BY <2>2
    <3>2. r[(i - m) + m] = t[i - m]
      BY <3>1, <1>4
    <3> QED BY <3>1, <3>2, <1>1
  <2> QED BY <2>1, <2>2
<1>6. Len(r) = m + n
  <2>1. m + n \in Nat
    OBVIOUS
  <2>2. r \in Seq(S) /\ Len(r) <= m + n /\ Len(r) >= m + n
    BY <2>1, <1>4, <1>5, TupleSeq
  <2>3. Len(r) \in Nat
    BY <2>2, LenProperties
  <2> QED BY <2>1, <2>2, <2>3
<1> DEFINE u == SubSeq(r, m + 1, m + n)
<1>7. u \in Seq(S) /\ Len(u) = n /\ \A i \in 1 .. n : u[i] = r[i + m]
  <2>1. m + 1 \in Int /\ m + n \in Int /\ \A i \in (m + 1) .. (m + n) : r[i] \in S
    BY <1>5
  <2>2. /\ u \in Seq(S)
        /\ Len(u) = IF m + 1 <= m + n THEN (m + n) - (m + 1) + 1 ELSE 0
        /\ \A i \in 1 .. ((m + n) - (m + 1) + 1) : u[i] = r[(m + 1) + i - 1]
    BY <2>1, SubSeqProperties
  <2>3. \A i \in 1 .. n : i \in 1 .. ((m + n) - (m + 1) + 1) /\ (m + 1) + i - 1 = i + m
    OBVIOUS
  <2> QED BY <2>2, <2>3
<1> HIDE DEF u
<1>8. u = t
  BY <1>3, <1>4, <1>7, SeqEqual
<1>9. \A a \in Nat : a = m + 1 => SubSeq(r, a, Len(r)) = t
  BY <1>6, <1>8, Zenon DEF u
<1> QED BY <1>6, <1>9

(* What the processor pushes, element by element. *)
LEMMA FrameParts ==
    ASSUME NEW k \in Nat
    PROVE  /\ Tuple(Frame(k), 3)
           /\ Frame(k)[1] = <<"eip", [r |-> "main", k |-> k]>>
           /\ Frame(k)[2] = <<"cs", MainCs(k)>>
           /\ Frame(k)[3] = <<"flags", MainFlag(k)>>
  BY DEF Tuple, Frame

(* The error code is one word. *)
LEMMA ErrorParts == Tuple(ErrorCode, 1) /\ ErrorCode[1] = <<"error", 0>>
  BY DEF Tuple, ErrorCode

(* What the processor pushed, with and without an error code. *)
LEMMA PushedParts ==
    ASSUME NEW k \in Nat
    PROVE  /\ Tuple(Pushed(k, 0), 3) /\ Pushed(k, 0) = Frame(k)
           /\ Tuple(Pushed(k, 1), 4) /\ Pushed(k, 1)[1] = <<"error", 0>>
           /\ \A i \in 1 .. 3 : Pushed(k, 1)[i + 1] = Frame(k)[i]
           /\ Tail(Pushed(k, 1)) = Frame(k)
<1>1. Pushed(k, 0) = Frame(k)
  BY DEF Pushed
<1> DEFINE p == Pushed(k, 1)
<1>2. Join(p, ErrorCode, Frame(k))
  BY DEF Pushed, Join
<1> HIDE DEF p
<1>3. 1 \in Nat /\ 3 \in Nat
  OBVIOUS
<1>4. Joins(p, ErrorCode, Frame(k), 1, 3)
  BY <1>2, <1>3, FrameParts, ErrorParts, Joined
<1>5. Tuple(p, 4) /\ p[1] = <<"error", 0>> /\ \A i \in 1 .. 3 : p[i + 1] = Frame(k)[i]
  BY <1>4, ErrorParts DEF Joins
<1>6. SubSeq(p, 2, Len(p)) = Frame(k)
  <2>1. Tuple(ErrorCode, 1) /\ Tuple(Frame(k), 3)
    BY FrameParts, ErrorParts
  <2>2. \A a \in Nat : a = 1 + 1 => SubSeq(p, a, Len(p)) = Frame(k)
    BY <1>2, <1>3, <2>1, Cut
  <2>3. 2 \in Nat /\ 2 = 1 + 1
    OBVIOUS
  <2> QED BY <2>2, <2>3, Zenon
<1>7. Tail(p) = SubSeq(p, 2, Len(p))
  <2> DEFINE S == {p[i] : i \in 1 .. 4}
  <2>1. \A i \in 1 .. 4 : p[i] \in S
    OBVIOUS
  <2> HIDE DEF S
  <2>2. p \in Seq(S)
    BY <2>1, <1>5, TupleSeq
  <2>3. p # << >>
    <3>1. 1 \in DOMAIN p /\ DOMAIN << >> = {}
      BY <1>5 DEF Tuple
    <3> QED BY <3>1
  <2> QED BY <2>2, <2>3, TailIsSubSeq
<1> QED BY <1>1, <1>5, <1>6, <1>7, FrameParts DEF p

(* What SAVE_ALL pushed, as RESTORE_ALL will find it. *)
LEMMA RestoreOrder ==
    /\ Reverse(SAVE_ALL) = RESTORE_ALL /\ DOMAIN SAVE_ALL = 1 .. 10
    /\ DOMAIN RESTORE_ALL = 1 .. 10 /\ Len(RESTORE_ALL) = 10
    /\ Registers = {"ebp", "ebx", "esi", "edi", "ecx", "edx", "eax", "fs", "ds", "es"}
<1>1. Reverse(SAVE_ALL) = RESTORE_ALL
  BY DEF Reverse, SAVE_ALL, RESTORE_ALL
<1>2. DOMAIN SAVE_ALL = 1 .. 10 /\ DOMAIN RESTORE_ALL = 1 .. 10 /\ Len(RESTORE_ALL) = 10
  BY DEF SAVE_ALL, RESTORE_ALL
<1>3. Registers = {"ebp", "ebx", "esi", "edi", "ecx", "edx", "eax", "fs", "ds", "es"}
  BY DEF Registers, ToSet, SAVE_ALL
<1> QED BY <1>1, <1>2, <1>3

(* Every register has one place in RESTORE_ALL. *)
LEMMA RestorePlaces ==
    \A r \in Registers : \E i \in 1 .. 10 : RESTORE_ALL[i] = r
<1>1. /\ RESTORE_ALL[1] = "es" /\ RESTORE_ALL[2] = "ds" /\ RESTORE_ALL[3] = "fs"
      /\ RESTORE_ALL[4] = "eax" /\ RESTORE_ALL[5] = "edx" /\ RESTORE_ALL[6] = "ecx"
      /\ RESTORE_ALL[7] = "edi" /\ RESTORE_ALL[8] = "esi" /\ RESTORE_ALL[9] = "ebx"
      /\ RESTORE_ALL[10] = "ebp"
  BY DEF RESTORE_ALL
<1> QED BY <1>1, RestoreOrder

(* What SAVE_ALL pushed: the ten registers, the last one saved on top. *)
LEMMA SavedParts ==
    ASSUME NEW k \in Nat
    PROVE  /\ Tuple(Saved(k), 10)
           /\ \A i \in 1 .. 10 : Saved(k)[i] = <<"reg", MainRegs(k)[RESTORE_ALL[i]]>>
  BY RestoreOrder DEF Tuple, Saved

(* RESTORE_ALL takes from the stack what SAVE_ALL put there, and no more. *)
LEMMA Restored ==
    ASSUME NEW k \in Nat, NEW t, NEW n \in Nat, Tuple(t, n)
    PROVE  /\ [r \in Registers |->
                 LET i == CHOOSE i \in DOMAIN RESTORE_ALL : RESTORE_ALL[i] = r
                 IN  (Saved(k) \o t)[i][2]] = MainRegs(k)
           /\ SubSeq(Saved(k) \o t, Len(RESTORE_ALL) + 1, Len(Saved(k) \o t)) = t
<1> DEFINE s == Saved(k) \o t
<1>1. Join(s, Saved(k), t)
  BY DEF Join
<1> HIDE DEF s
<1>2. 10 \in Nat
  OBVIOUS
<1>3. Joins(s, Saved(k), t, 10, n)
  BY <1>1, <1>2, SavedParts, Joined
<1>4. SubSeq(s, 10 + 1, Len(s)) = t
  <2>1. Tuple(Saved(k), 10)
    BY SavedParts
  <2>2. \A a \in Nat : a = 10 + 1 => SubSeq(s, a, Len(s)) = t
    BY <1>1, <1>2, <2>1, Cut
  <2>3. 10 + 1 \in Nat
    OBVIOUS
  <2> QED BY <2>2, <2>3, Zenon
<1>5. \A i \in 1 .. 10 : s[i] = <<"reg", MainRegs(k)[RESTORE_ALL[i]]>>
  BY <1>3, SavedParts DEF Joins
<1>6. \A i \in 1 .. 10 : s[i][2] = MainRegs(k)[RESTORE_ALL[i]]
  BY <1>5
<1> DEFINE place(r) == CHOOSE i \in DOMAIN RESTORE_ALL : RESTORE_ALL[i] = r
<1>7. \A r \in Registers : place(r) \in 1 .. 10 /\ RESTORE_ALL[place(r)] = r
  <2> TAKE r \in Registers
  <2>1. \E i \in DOMAIN RESTORE_ALL : RESTORE_ALL[i] = r
    BY RestorePlaces, RestoreOrder
  <2>2. place(r) \in DOMAIN RESTORE_ALL /\ RESTORE_ALL[place(r)] = r
    BY <2>1
  <2> QED BY <2>2, RestoreOrder
<1> HIDE DEF place
<1>8. [r \in Registers |-> s[place(r)][2]] = [r \in Registers |-> MainRegs(k)[r]]
  BY <1>6, <1>7
<1>9. [r \in Registers |-> MainRegs(k)[r]] = MainRegs(k)
  BY DEF MainRegs
<1> QED BY <1>4, <1>8, <1>9, RestoreOrder DEF s, place

(* The names on the stack, and the flags only at the bottom. *)
Names == {"eip", "cs", "flags", "error", "reg"}
Shaped(s) ==
    /\ \A i \in DOMAIN s : s[i][1] \in Names
    /\ \A i, j \in DOMAIN s : s[i][1] = "flags" /\ s[j][1] = "flags" => i = j

(* No shape of what the processor pushes holds two frames. *)
LEMMA FrameShape ==
    ASSUME NEW k \in Nat
    PROVE  Shaped(<<>>) /\ Shaped(Frame(k)) /\ Shaped(Pushed(k, 0)) /\ Shaped(Pushed(k, 1))
<1>1. Shaped(<<>>)
  BY DEF Shaped
<1>2. Shaped(Frame(k))
  <2>1. DOMAIN Frame(k) = 1 .. 3
    BY FrameParts DEF Tuple
  <2>2. Frame(k)[1][1] = "eip" /\ Frame(k)[2][1] = "cs" /\ Frame(k)[3][1] = "flags"
    BY DEF Frame
  <2>3. \A i \in DOMAIN Frame(k) : i = 1 \/ i = 2 \/ i = 3
    BY <2>1
  <2> QED BY <2>2, <2>3 DEF Shaped, Names
<1>3. Shaped(Pushed(k, 1))
  <2> DEFINE p == Pushed(k, 1)
  <2>1. /\ DOMAIN p = 1 .. 4 /\ p[1] = <<"error", 0>>
        /\ \A i \in 1 .. 3 : p[i + 1] = Frame(k)[i]
    BY PushedParts DEF Tuple
  <2> HIDE DEF p
  <2>2. p[1 + 1] = Frame(k)[1] /\ p[2 + 1] = Frame(k)[2] /\ p[3 + 1] = Frame(k)[3]
    BY <2>1
  <2>3. p[2] = Frame(k)[1] /\ p[3] = Frame(k)[2] /\ p[4] = Frame(k)[3]
    BY <2>2
  <2>4. p[1][1] = "error" /\ p[2][1] = "eip" /\ p[3][1] = "cs" /\ p[4][1] = "flags"
    <3>1. Frame(k)[1][1] = "eip" /\ Frame(k)[2][1] = "cs" /\ Frame(k)[3][1] = "flags"
      BY DEF Frame
    <3> QED BY <2>1, <2>3, <3>1
  <2>5. \A i \in DOMAIN p : i = 1 \/ i = 2 \/ i = 3 \/ i = 4
    BY <2>1
  <2>6. Shaped(p)
    BY <2>4, <2>5 DEF Shaped, Names
  <2> QED BY <2>6 DEF p
<1> QED BY <1>1, <1>2, <1>3, PushedParts

(* SAVE_ALL adds no frame to what it lies on. *)
LEMMA SavedShape ==
    ASSUME NEW k \in Nat, NEW t, NEW n \in Nat, Tuple(t, n), Shaped(t)
    PROVE  Shaped(Saved(k) \o t)
<1> DEFINE s == Saved(k) \o t
<1>1. Join(s, Saved(k), t)
  BY DEF Join
<1> HIDE DEF s
<1>2. 10 \in Nat
  OBVIOUS
<1>3. Joins(s, Saved(k), t, 10, n)
  BY <1>1, <1>2, SavedParts, Joined
<1>4. DOMAIN s = 1 .. 10 + n /\ DOMAIN t = 1 .. n
  BY <1>3 DEF Joins, Tuple
<1>5. \A i \in 1 .. 10 : s[i][1] = "reg"
  BY <1>3, SavedParts DEF Joins
<1>6. \A i \in DOMAIN s : i \in 1 .. 10 \/ i - 10 \in 1 .. n
  BY <1>4
<1>7. \A i \in DOMAIN s : i \notin 1 .. 10 => i - 10 \in DOMAIN t /\ s[i] = t[i - 10]
  <2> TAKE i \in DOMAIN s
  <2> HAVE i \notin 1 .. 10
  <2>1. i - 10 \in 1 .. n /\ (i - 10) + 10 = i
    BY <1>4, <1>6
  <2>2. s[(i - 10) + 10] = t[i - 10]
    BY <2>1, <1>3 DEF Joins
  <2> QED BY <2>1, <2>2, <1>4
<1>8. \A i \in DOMAIN s : s[i][1] \in Names
  BY <1>5, <1>7 DEF Shaped, Names
<1>9. ASSUME NEW i \in DOMAIN s, NEW j \in DOMAIN s, s[i][1] = "flags", s[j][1] = "flags"
      PROVE  i = j
  <2>1. i \notin 1 .. 10 /\ j \notin 1 .. 10
    BY <1>5, <1>9
  <2>2. i - 10 \in DOMAIN t /\ j - 10 \in DOMAIN t /\ t[i - 10][1] = "flags" /\ t[j - 10][1] = "flags"
    BY <2>1, <1>7, <1>9
  <2>3. i - 10 = j - 10
    BY <2>2 DEF Shaped
  <2> QED BY <2>3, <1>4
<1> QED BY <1>8, <1>9 DEF Shaped, s

(* One thing at most is called flags in a stack of that shape. *)
LEMMA OneFrame ==
    ASSUME NEW s, Shaped(s)
    PROVE  Cardinality({i \in DOMAIN s : s[i][1] = "flags"}) <= 1
<1> DEFINE F == {i \in DOMAIN s : s[i][1] = "flags"}
<1>1. CASE F = {}
  BY <1>1, FS_EmptySet
<1>2. CASE F # {}
  <2>1. PICK i \in F : TRUE
    BY <1>2
  <2>2. F = {i}
    BY <2>1 DEF Shaped
  <2>3. Cardinality({i}) = 1
    BY FS_Singleton
  <2>4. Cardinality(F) = 1
    BY <2>2, <2>3, Zenon
  <2> QED BY <2>4
<1> QED BY <1>1, <1>2

-----------------------------------------------------------------------------
(* The interrupt controllers. *)

(* The parts of a controller that a request or an acknowledge leaves alone. *)
SameSetting(p, q) ==
    /\ p.expect = q.expect /\ p.base = q.base /\ p.icw3 = q.icw3
    /\ p.aeoi = q.aeoi /\ p.imr = q.imr

(* Two controllers of the same setting are in the same state of their *)
(* initialisation.                                                    *)
LEMMA ChipSame ==
    ASSUME NEW p, NEW q, SameSetting(p, q), NEW mask, NEW j \in Int, NEW base, NEW icw3,
           ChipAt(p, mask, j, base, icw3)
    PROVE  ChipAt(q, mask, j, base, icw3)
  BY DEF ChipAt, SameSetting

(* Between two writes to a controller what is known of it stays true. *)
LEMMA ChipStays ==
    ASSUME NEW p, NEW mask, NEW j \in Int, NEW base, NEW icw3,
           ChipAt(p, mask, j, base, icw3), j \notin {27, 29, 31, 33, 35}
    PROVE  ChipAt(p, mask, j + 1, base, icw3)
<1>1. /\ j + 1 <= 27 => j <= 27
      /\ j + 1 \in 28 .. 29 => j \in 28 .. 29
      /\ j + 1 \in 30 .. 31 => j \in 30 .. 31
      /\ j + 1 \in 32 .. 33 => j \in 32 .. 33
      /\ j + 1 > 29 => j > 29
      /\ j + 1 > 31 => j > 31
      /\ j + 1 > 33 => j > 33
      /\ j + 1 > 35 => j > 35
  OBVIOUS
<1> QED BY <1>1 DEF ChipAt

(* A write to the data port. *)
LEMMA DataWritten ==
    ASSUME NEW p \in ChipState, NEW v \in 0 .. 255
    PROVE  /\ WriteData(p, v) \in ChipState
           /\ p.expect = 2 => /\ WriteData(p, v).expect = 3
                              /\ WriteData(p, v).base = 8 * (v \div 8)
           /\ p.expect = 3 => /\ WriteData(p, v).expect = 4 /\ WriteData(p, v).base = p.base
                              /\ WriteData(p, v).icw3 = v
           /\ p.expect = 4 => /\ WriteData(p, v).expect = 0 /\ WriteData(p, v).base = p.base
                              /\ WriteData(p, v).icw3 = p.icw3
                              /\ WriteData(p, v).aeoi = Bit(v, 1)
           /\ p.expect = 0 => /\ WriteData(p, v).expect = 0 /\ WriteData(p, v).base = p.base
                              /\ WriteData(p, v).icw3 = p.icw3
                              /\ WriteData(p, v).aeoi = p.aeoi /\ WriteData(p, v).imr = v
<1>1. p.expect \in {0, 2, 3, 4}
  BY DEF ChipState
<1>2. CASE p.expect = 2
  <2>1. WriteData(p, v) = [p EXCEPT !.expect = 3, !.base = 8 * (v \div 8)]
    BY <1>2 DEF WriteData
  <2>2. 8 * (v \div 8) \in Int
    OBVIOUS
  <2>3. WriteData(p, v) =
          [expect |-> 3, base |-> 8 * (v \div 8), icw3 |-> p.icw3, aeoi |-> p.aeoi,
           imr |-> p.imr, irr |-> p.irr, isr |-> p.isr]
    BY <2>1 DEF ChipState
  <2> QED BY <1>2, <2>2, <2>3 DEF ChipState
<1>3. CASE p.expect = 3
  <2>1. WriteData(p, v) = [p EXCEPT !.expect = 4, !.icw3 = v]
    BY <1>3 DEF WriteData
  <2>2. WriteData(p, v) =
          [expect |-> 4, base |-> p.base, icw3 |-> v, aeoi |-> p.aeoi,
           imr |-> p.imr, irr |-> p.irr, isr |-> p.isr]
    BY <2>1 DEF ChipState
  <2>3. v \in Int
    OBVIOUS
  <2> QED BY <1>3, <2>2, <2>3 DEF ChipState
<1>4. CASE p.expect = 4
  <2>1. WriteData(p, v) = [p EXCEPT !.expect = 0, !.aeoi = Bit(v, 1)]
    BY <1>4 DEF WriteData
  <2>2. Bit(v, 1) \in BOOLEAN
    BY DEF Bit
  <2>3. WriteData(p, v) =
          [expect |-> 0, base |-> p.base, icw3 |-> p.icw3, aeoi |-> Bit(v, 1),
           imr |-> p.imr, irr |-> p.irr, isr |-> p.isr]
    BY <2>1 DEF ChipState
  <2> QED BY <1>4, <2>2, <2>3 DEF ChipState
<1>5. CASE p.expect = 0
  <2>1. WriteData(p, v) = [p EXCEPT !.imr = v]
    BY <1>5 DEF WriteData
  <2> QED BY <1>5, <2>1 DEF ChipState
<1> QED BY <1>1, <1>2, <1>3, <1>4, <1>5

(* The command that starts the initialisation. *)
LEMMA CommandWritten ==
    ASSUME NEW p \in ChipState
    PROVE  WriteCommand(p, 17) \in ChipState /\ WriteCommand(p, 17).expect = 2
<1>1. WriteCommand(p, 17) =
        [expect |-> 2, base |-> p.base, icw3 |-> p.icw3, aeoi |-> p.aeoi,
         imr |-> 0, irr |-> {}, isr |-> {}]
  BY DEF WriteCommand, ChipState
<1> QED BY <1>1 DEF ChipState

(* The four words and the mask, at their places, put a controller in order. *)
LEMMA ChipWrites ==
    ASSUME NEW p \in ChipState, NEW mask \in 0 .. 255, NEW base \in {32, 40}, NEW icw3 \in {2, 4}
    PROVE  /\ ChipAt(WriteCommand(p, 17), mask, 28, base, icw3)
           /\ ChipAt(p, mask, 29, base, icw3) => ChipAt(WriteData(p, base), mask, 30, base, icw3)
           /\ ChipAt(p, mask, 31, base, icw3) => ChipAt(WriteData(p, icw3), mask, 32, base, icw3)
           /\ ChipAt(p, mask, 33, base, icw3) => ChipAt(WriteData(p, ICW4), mask, 34, base, icw3)
           /\ ChipAt(p, mask, 35, base, icw3) => ChipAt(WriteData(p, mask), mask, 36, base, icw3)
<1>1. base \in 0 .. 255 /\ icw3 \in 0 .. 255 /\ ICW4 \in 0 .. 255
  BY DEF ICW4
<1>2. ChipAt(WriteCommand(p, 17), mask, 28, base, icw3)
  BY CommandWritten DEF ChipAt
<1>3. ASSUME ChipAt(p, mask, 29, base, icw3)
      PROVE  ChipAt(WriteData(p, base), mask, 30, base, icw3)
  <2>1. p.expect = 2
    BY <1>3 DEF ChipAt
  <2>2. 8 * (base \div 8) = base
    OBVIOUS
  <2>3. WriteData(p, base).expect = 3 /\ WriteData(p, base).base = base
    BY <1>1, <2>1, <2>2, DataWritten
  <2> QED BY <2>3 DEF ChipAt
<1>4. ASSUME ChipAt(p, mask, 31, base, icw3)
      PROVE  ChipAt(WriteData(p, icw3), mask, 32, base, icw3)
  <2>1. p.expect = 3 /\ p.base = base
    BY <1>4 DEF ChipAt
  <2>2. /\ WriteData(p, icw3).expect = 4 /\ WriteData(p, icw3).base = base
        /\ WriteData(p, icw3).icw3 = icw3
    BY <1>1, <2>1, DataWritten
  <2> QED BY <2>2 DEF ChipAt
<1>5. ASSUME ChipAt(p, mask, 33, base, icw3)
      PROVE  ChipAt(WriteData(p, ICW4), mask, 34, base, icw3)
  <2>1. p.expect = 4 /\ p.base = base /\ p.icw3 = icw3
    BY <1>5 DEF ChipAt
  <2>2. Bit(ICW4, 1)
    BY DEF Bit, ICW4
  <2>3. /\ WriteData(p, ICW4).expect = 0 /\ WriteData(p, ICW4).base = base
        /\ WriteData(p, ICW4).icw3 = icw3 /\ WriteData(p, ICW4).aeoi = Bit(ICW4, 1)
    BY <1>1, <2>1, DataWritten, ZenonT(40)
  <2> QED BY <2>2, <2>3 DEF ChipAt
<1>6. ASSUME ChipAt(p, mask, 35, base, icw3)
      PROVE  ChipAt(WriteData(p, mask), mask, 36, base, icw3)
  <2>1. p.expect = 0 /\ p.base = base /\ p.icw3 = icw3 /\ p.aeoi
    BY <1>6 DEF ChipAt
  <2>2. /\ WriteData(p, mask).expect = 0 /\ WriteData(p, mask).base = base
        /\ WriteData(p, mask).icw3 = icw3 /\ WriteData(p, mask).aeoi = p.aeoi
        /\ WriteData(p, mask).imr = mask
    <3> DEFINE w == WriteData(p, mask)
    <3>1. p.expect = 0 =>
            w.expect = 0 /\ w.base = p.base /\ w.icw3 = p.icw3 /\ w.aeoi = p.aeoi /\ w.imr = mask
      BY DataWritten
    <3> HIDE DEF w
    <3>2. p.expect = 0 /\ p.base = base /\ p.icw3 = icw3
      BY <2>1
    <3>3. w.expect = 0 /\ w.base = base /\ w.icw3 = icw3 /\ w.aeoi = p.aeoi /\ w.imr = mask
      BY <3>1, <3>2, Zenon
    <3> QED BY <3>3 DEF w
  <2> QED BY <2>1, <2>2 DEF ChipAt
<1> QED BY <1>2, <1>3, <1>4, <1>5, <1>6

(* The first of some lines is one of them. *)
LEMMA FirstOfLines ==
    ASSUME NEW S, S \subseteq Lines, S # {}
    PROVE  First(S) \in S
<1>1. \E l \in S : \A k \in S : l <= k
  <2>1. S \subseteq 0 .. 7
    BY DEF Lines
  <2>2. CASE 0 \in S
    BY <2>1, <2>2
  <2>3. CASE 0 \notin S /\ 1 \in S
    BY <2>1, <2>3
  <2>4. CASE 0 \notin S /\ 1 \notin S /\ 2 \in S
    BY <2>1, <2>4
  <2>5. CASE 0 \notin S /\ 1 \notin S /\ 2 \notin S /\ 3 \in S
    BY <2>1, <2>5
  <2>6. CASE S \subseteq 4 .. 7 /\ 4 \in S
    BY <2>6
  <2>7. CASE S \subseteq 5 .. 7 /\ 5 \in S
    BY <2>7
  <2>8. CASE S \subseteq 6 .. 7 /\ 6 \in S
    BY <2>8
  <2>9. CASE S \subseteq {7}
    <3>1. S = {7}
      BY <2>9
    <3> QED BY <3>1
  <2>10. 0 \notin S /\ 1 \notin S /\ 2 \notin S /\ 3 \notin S => S \subseteq 4 .. 7
    BY <2>1
  <2>11. S \subseteq 4 .. 7 /\ 4 \notin S => S \subseteq 5 .. 7
    OBVIOUS
  <2>12. S \subseteq 5 .. 7 /\ 5 \notin S => S \subseteq 6 .. 7
    OBVIOUS
  <2>13. S \subseteq 6 .. 7 /\ 6 \notin S => S \subseteq {7}
    OBVIOUS
  <2> QED BY <2>2, <2>3, <2>4, <2>5, <2>6, <2>7, <2>8, <2>9, <2>10, <2>11, <2>12, <2>13
<1> QED BY <1>1 DEF First

(* Requests are lines, and acknowledging one leaves the setting alone. *)
LEMMA RequestLines ==
    ASSUME NEW p \in ChipState
    PROVE  Requests(p) \subseteq Lines
  BY DEF Requests, ChipState

(* The processor's acknowledge changes no setting of a controller. *)
LEMMA AcknowledgedState ==
    ASSUME NEW p \in ChipState, NEW l \in Lines
    PROVE  Acknowledged(p, l) \in ChipState /\ SameSetting(p, Acknowledged(p, l))
<1>1. CASE p.aeoi
  <2>1. Acknowledged(p, l) = [p EXCEPT !.irr = @ \ {l}, !.isr = p.isr]
    BY <1>1 DEF Acknowledged
  <2> QED BY <2>1 DEF ChipState, SameSetting
<1>2. CASE ~p.aeoi
  <2>1. PICK i, t : i = p.irr \ {l} /\ t = p.isr \cup {l}
    OBVIOUS
  <2>2. Acknowledged(p, l) = [p EXCEPT !.irr = i, !.isr = t]
    BY <1>2, <2>1 DEF Acknowledged
  <2>3. Acknowledged(p, l) =
          [expect |-> p.expect, base |-> p.base, icw3 |-> p.icw3, aeoi |-> p.aeoi,
           imr |-> p.imr, irr |-> i, isr |-> t]
    BY <2>2 DEF ChipState
  <2>4. i \subseteq Lines /\ t \subseteq Lines
    BY <2>1 DEF ChipState
  <2> QED BY <2>3, <2>4 DEF ChipState, SameSetting
<1> QED BY <1>1, <1>2

(* The slave's request changes no setting of the master. *)
LEMMA CascadedState ==
    ASSUME NEW m \in ChipState, NEW s \in ChipState
    PROVE  Cascaded(m, s) \in ChipState /\ SameSetting(m, Cascaded(m, s))
<1>1. 2 \in Lines
  BY DEF Lines
<1>2. CASE Requests(s) = {}
  BY <1>2 DEF Cascaded, SameSetting
<1>3. CASE Requests(s) # {}
  <2>1. Cascaded(m, s) = [m EXCEPT !.irr = @ \cup {2}]
    BY <1>3 DEF Cascaded
  <2> QED BY <1>1, <2>1 DEF ChipState, SameSetting
<1> QED BY <1>2, <1>3

(* The pair of controllers answers with a vector of its own range. *)
LEMMA AnswerState ==
    ASSUME NEW m \in ChipState, NEW s \in ChipState, Requests(m) # {}
    PROVE  /\ Answer(m, s).master \in ChipState /\ SameSetting(m, Answer(m, s).master)
           /\ Answer(m, s).slave \in ChipState /\ SameSetting(s, Answer(m, s).slave)
           /\ m.base = 32 /\ s.base = 40 => Answer(m, s).vector \in 32 .. 47
<1> DEFINE l == First(Requests(m))
           k == First(Requests(s))
<1>1. l \in Lines
  BY RequestLines, FirstOfLines
<1>2. SameSetting(s, s)
  BY DEF SameSetting
<1>3. /\ Acknowledged(m, l) \in ChipState /\ SameSetting(m, Acknowledged(m, l))
  BY <1>1, AcknowledgedState
<1>4. CASE l = 2 /\ Bit(m.icw3, 2) /\ s.icw3 = 2 /\ Requests(s) # {}
  <2>1. k \in Lines
    BY <1>4, RequestLines, FirstOfLines
  <2>2. Acknowledged(s, k) \in ChipState /\ SameSetting(s, Acknowledged(s, k))
    BY <2>1, AcknowledgedState
  <2> HIDE DEF l, k
  <2>3. Answer(m, s) = [vector |-> s.base + k, master |-> Acknowledged(m, l),
                        slave |-> Acknowledged(s, k)]
    BY <1>4 DEF Answer, l, k
  <2>4. s.base = 40 => s.base + k \in 32 .. 47
    BY <2>1 DEF Lines
  <2> QED BY <1>3, <2>2, <2>3, <2>4
<1>5. CASE ~(l = 2 /\ Bit(m.icw3, 2) /\ s.icw3 = 2 /\ Requests(s) # {})
  <2> HIDE DEF l, k
  <2>1. Answer(m, s) = [vector |-> m.base + l, master |-> Acknowledged(m, l), slave |-> s]
    BY <1>5 DEF Answer, l, k
  <2>2. m.base = 32 => m.base + l \in 32 .. 47
    BY <1>1 DEF Lines
  <2> QED BY <1>2, <1>3, <2>1, <2>2
<1> QED BY <1>4, <1>5

-----------------------------------------------------------------------------
(* Steps of the boot thread, and into, within and out of a handler. *)

(* From one instruction of the boot thread to the next. *)
LEMMA MainNext ==
    ASSUME NEW k \in 1 .. 38, CpuType, eip.r = "main", eip.k = k, eip' = NextIp,
           MemoryType', BootAt(k + 1)', cs' = MainCs(k + 1), IFlag' = MainFlag(k + 1),
           regs' = MainRegs(k + 1), stack' = <<>>, shadow' \in BOOLEAN
    PROVE  IInv'
<1>1. eip' = [r |-> "main", k |-> k + 1]
  BY DEF NextIp, CpuType
<1>2. k + 1 \in 1 .. 39 /\ k + 1 \in Nat
  OBVIOUS
<1>3. DOMAIN Program["main"] = 1 .. 39
  BY Routines, MainParts DEF Tuple
<1>4. IFlag' \in BOOLEAN
  BY DEF MainFlag
<1>5. DOMAIN regs' = Registers
  BY DEF MainRegs
<1>6. CpuType'
  <2>1. eip' \in [r : {"main"} \cup LiveHandlers, k : Nat]
    BY <1>1, <1>2
  <2>2. eip'.k \in DOMAIN Program[eip'.r]
    <3>1. eip'.r = "main" /\ eip'.k = k + 1
      BY <1>1
    <3> QED BY <3>1, <1>2, <1>3
  <2> QED BY <2>1, <2>2, <1>4, <1>5 DEF CpuType
<1>7. InMain'
  BY <1>1, <1>2 DEF InMain
<1>8. InHandler'
  BY <1>1 DEF InHandler, LiveHandlers, IrqHandlers
<1> QED BY <1>6, <1>7, <1>8 DEF IInv

(* Into a handler. *)
LEMMA HandlerEntered ==
    ASSUME NEW k \in {7, 38, 39}, NEW w \in {0, 1}, NEW h, Leaves(h, k, w),
           eip' = [r |-> h, k |-> 1], MemoryType', BootAt(k)', cs' = MainCs(k), IFlag' = FALSE,
           regs' = MainRegs(k), stack' = Pushed(k, w), shadow' \in BOOLEAN
    PROVE  IInv'
<1>1. h \in LiveHandlers /\ h # "main"
  BY DEF Leaves, LiveHandlers, IrqHandlers
<1>2. 1 \in DOMAIN Program[h] /\ Program[h][1].op = "SAVE_ALL"
  BY <1>1, HandlerFlow DEF Flow
<1>3. Instruction'.op = "SAVE_ALL"
  BY <1>2 DEF Instruction
<1>4. CpuType'
  <2>1. DOMAIN regs' = Registers
    BY DEF MainRegs
  <2> QED BY <1>1, <1>2, <2>1 DEF CpuType
<1>5. InMain'
  BY <1>1 DEF InMain
<1>6. HandlerAt(k, w)'
  BY <1>3 DEF HandlerAt, At
<1>7. Leaves(eip'.r, k, w)
  OBVIOUS
<1>8. InHandler'
  BY <1>6, <1>7 DEF InHandler
<1> QED BY <1>4, <1>5, <1>8 DEF IInv

(* From one operation of a handler to the next. *)
LEMMA HandlerNext ==
    ASSUME NEW k \in {7, 38, 39}, NEW w \in {0, 1}, CpuType, eip.r \in LiveHandlers,
           Leaves(eip.r, k, w), ~At("iretd"), eip' = NextIp, MemoryType', HandlerAt(k, w)',
           DOMAIN regs' = Registers, IFlag' \in BOOLEAN, shadow' \in BOOLEAN
    PROVE  IInv'
<1>1. eip' = [r |-> eip.r, k |-> eip.k + 1] /\ eip.k \in Nat /\ eip.k \in DOMAIN Program[eip.r]
  BY DEF NextIp, CpuType
<1>2. FlowAt(Program[eip.r], eip.k, After(eip.r))
  BY <1>1, HandlerFlow DEF Flow
<1>3. eip.k + 1 \in DOMAIN Program[eip.r]
  BY <1>2 DEF FlowAt, At, Instruction
<1>4. eip.r # "main"
  BY DEF LiveHandlers, IrqHandlers
<1>5. CpuType'
  BY <1>1, <1>3 DEF CpuType
<1>6. InMain'
  BY <1>1, <1>4 DEF InMain
<1>7. Leaves(eip'.r, k, w)
  BY <1>1
<1>8. InHandler'
  BY <1>7 DEF InHandler
<1> QED BY <1>5, <1>6, <1>8 DEF IInv

(* What a handler does next. *)
LEMMA NextOp ==
    ASSUME CpuType, eip.r \in LiveHandlers, eip' = NextIp
    PROVE  /\ Instruction.op \in {"SAVE_ALL", "printf", "RESTORE_ALL", "add_esp_4",
                                  "add_at_esp_0xA", "sti", "iretd"}
           /\ At("SAVE_ALL") => Instruction'.op \in {"printf", "RESTORE_ALL"}
           /\ At("printf") => Instruction'.op = "RESTORE_ALL"
           /\ At("RESTORE_ALL") => Instruction'.op = After(eip.r)
           /\ At("add_esp_4") => /\ eip.r = "_test_page_fault"
                                 /\ Instruction'.op = "add_at_esp_0xA"
           /\ At("add_at_esp_0xA") => eip.r = "_test_page_fault" /\ Instruction'.op = "iretd"
           /\ At("sti") => eip.r \in IrqHandlers /\ Instruction'.op = "iretd"
<1>1. eip' = [r |-> eip.r, k |-> eip.k + 1] /\ eip.k \in Nat /\ eip.k \in DOMAIN Program[eip.r]
  BY DEF NextIp, CpuType
<1>2. FlowAt(Program[eip.r], eip.k, After(eip.r))
  BY <1>1, HandlerFlow DEF Flow
<1>3. Instruction' = Program[eip.r][eip.k + 1]
  BY <1>1 DEF Instruction
<1>4. After(eip.r) = "add_esp_4" => eip.r = "_test_page_fault"
  BY DEF After
<1>5. After(eip.r) = "sti" => eip.r \in IrqHandlers
  BY DEF After
<1> QED BY <1>2, <1>3, <1>4, <1>5 DEF FlowAt, At, Instruction

(* What the boot thread can be executing. *)
LEMMA MainAt ==
    ASSUME IInv, eip.r = "main", NEW k, k = eip.k
    PROVE  /\ k \in 1 .. 39 /\ Instruction = loader_main[k] /\ Place(Instruction.op, k)
           /\ CpuType /\ MemoryType /\ BootAt(k)
           /\ cs = MainCs(k) /\ IFlag = MainFlag(k) /\ regs = MainRegs(k) /\ stack = <<>>
<1>1. k \in 1 .. 39
  BY DEF IInv, InMain
<1>2. Instruction = loader_main[k]
  BY Routines DEF Instruction
<1> QED BY <1>1, <1>2, MainOps DEF IInv, InMain

(* Operations of the boot thread alone, of the handlers alone, and of both. *)
LEMMA WhoExecutes ==
    ASSUME IInv
    PROVE  /\ eip.r = "main" \/ eip.r \in LiveHandlers
           /\ Instruction.op \in {"idt_cs", "gate", "lidt", "int_3", "store", "lgdt", "mov_ds",
                                  "retf", "inb", "outb", "restore"} => eip.r = "main"
           /\ Instruction.op \in {"SAVE_ALL", "RESTORE_ALL", "add_esp_4", "add_at_esp_0xA",
                                  "iretd"} => eip.r \in LiveHandlers
<1>1. eip.r = "main" \/ eip.r \in LiveHandlers
  BY DEF IInv, CpuType
<1>2. CASE eip.r = "main"
  <2>1. PICK k : k = eip.k
    OBVIOUS
  <2>2. Place(Instruction.op, k)
    BY <1>2, <2>1, MainAt
  <2> QED BY <1>2, <2>2 DEF Place
<1>3. CASE eip.r \in LiveHandlers
  <2>1. Instruction.op \in {"SAVE_ALL", "printf", "RESTORE_ALL", "add_esp_4",
                            "add_at_esp_0xA", "sti", "iretd"}
    <3>1. eip.k \in DOMAIN Program[eip.r]
      BY DEF IInv, CpuType
    <3>2. FlowAt(Program[eip.r], eip.k, After(eip.r))
      BY <1>3, <3>1, HandlerFlow DEF Flow
    <3> QED BY <3>2 DEF FlowAt, Instruction
  <2> QED BY <1>3, <2>1
<1> QED BY <1>1, <1>2, <1>3

(* What stays while nothing writes the tables, or the controllers. *)
LEMMA TablesStay ==
    ASSUME NEW k \in 1 .. 38, TablesAt(k), UNCHANGED tables, k \notin {1, 2, 4, 5, 9, 13, 21, 22, 23}
    PROVE  TablesAt(k + 1)'
<1>1. /\ k + 1 <= 9 <=> k <= 9
      /\ k + 1 > 5 => k > 5
      /\ k + 1 # 1 /\ k # 1 /\ (k + 1 <= 13 <=> k <= 13)
      /\ k + 1 \in 3 .. 7 => k \in 3 .. 7
      /\ k + 1 \in 5 .. 7 => k \in 5 .. 7
      /\ k + 1 > 21 => k > 21
      /\ k + 1 > 22 => k > 22
      /\ k + 1 > 23 => k > 23
  OBVIOUS
<1> QED BY <1>1 DEF TablesAt, tables

(* The controllers are not touched outside init_8259_pic. *)
LEMMA PicStays ==
    ASSUME NEW k \in 1 .. 38, PicAt(k), UNCHANGED <<pic, masks, bios>>, k \notin 25 .. 36
    PROVE  PicAt(k + 1)'
<1>1. ChipAt(pic["master"], bios["master"], k + 1, 32, 4)
  BY ChipStays DEF PicAt
<1>2. ChipAt(pic["slave"], bios["slave"], (k - 1) + 1, 40, 2)
  <2>1. k - 1 \in Int /\ k - 1 \notin {27, 29, 31, 33, 35}
    OBVIOUS
  <2> QED BY <2>1, ChipStays DEF PicAt
<1>3. (k - 1) + 1 = (k + 1) - 1
  OBVIOUS
<1>4. (k + 1 > 25 => k > 25) /\ (k + 1 > 26 => k > 26)
  OBVIOUS
<1> QED BY <1>1, <1>2, <1>3, <1>4 DEF PicAt

(* A handler touches neither tables nor controllers. *)
LEMMA BootKept ==
    ASSUME NEW k, BootAt(k), UNCHANGED <<tables, pic, masks, bios>>
    PROVE  BootAt(k)'
  BY DEF BootAt, TablesAt, PicAt, tables

-----------------------------------------------------------------------------
(* The steps, one by one. *)

(* A gate needs an entry of the loaded table and a code segment. *)
LEMMA Delivered ==
    ASSUME NEW v, NEW ip, NEW error, HasGate(v), Deliver(v, ip, error)
    PROVE  /\ stack' = error \o << <<"eip", ip>>, <<"cs", cs>>, <<"flags", IFlag>> >> \o stack
           /\ eip' = [r |-> idt[v].handler, k |-> 1]
           /\ cs' = idt[v].cs
           /\ IFlag' = IF idt[v].type = "intr" THEN FALSE ELSE IFlag
           /\ shadow' = FALSE
           /\ regs' = regs
  BY DEF Deliver

(* What is on the stack after the boot thread was left. *)
LEMMA Left ==
    ASSUME NEW k \in Nat
    PROVE  /\ <<>> \o Frame(k) \o <<>> = Pushed(k, 0)
           /\ ErrorCode \o Frame(k) \o <<>> = Pushed(k, 1)
<1>1. 3 \in Nat /\ 4 \in Nat
  OBVIOUS
<1>2. <<>> \o Frame(k) = Frame(k) /\ Frame(k) \o <<>> = Frame(k)
  BY <1>1, FrameParts, Alone
<1>3. Pushed(k, 1) \o <<>> = Pushed(k, 1)
  BY <1>1, PushedParts, Alone
<1>4. Pushed(k, 1) = ErrorCode \o Frame(k)
  BY DEF Pushed
<1> QED BY <1>2, <1>3, <1>4, PushedParts

(* The boot thread's processor state between the instructions that change it. *)
LEMMA CpuStays ==
    ASSUME NEW k \in 1 .. 38, k \notin {10, 11, 37}
    PROVE  MainCs(k + 1) = MainCs(k) /\ MainRegs(k + 1) = MainRegs(k) /\ MainFlag(k + 1) = MainFlag(k)
<1>1. (k + 1 <= 11 <=> k <= 11) /\ (k + 1 <= 10 <=> k <= 10) /\ (k + 1 <= 37 <=> k <= 37)
  OBVIOUS
<1>2. MainCs(k + 1) = MainCs(k) /\ MainRegs(k + 1) = MainRegs(k)
  BY <1>1 DEF MainCs, MainRegs
<1>3. MainFlag(k + 1) = MainFlag(k)
  BY <1>1 DEF MainFlag
<1> QED BY <1>2, <1>3

(* A step of the boot thread that changes nothing of the processor but eip. *)
LEMMA MainProceeds ==
    ASSUME IInv, eip.r = "main", NEW k \in 1 .. 38, k = eip.k, k \notin {10, 11, 37},
           Proceed, UNCHANGED <<cs, regs>>, MemoryType', BootAt(k + 1)'
    PROVE  IInv'
<1>1. /\ CpuType /\ cs = MainCs(k) /\ IFlag = MainFlag(k) /\ regs = MainRegs(k)
      /\ stack = <<>>
  BY MainAt
<1>2. MainCs(k + 1) = MainCs(k) /\ MainRegs(k + 1) = MainRegs(k) /\ MainFlag(k + 1) = MainFlag(k)
  BY CpuStays
<1>3. eip' = NextIp /\ shadow' = FALSE /\ IFlag' = IFlag /\ stack' = stack
  BY DEF Proceed
<1>4. cs' = MainCs(k + 1) /\ regs' = MainRegs(k + 1) /\ stack' = <<>> /\ shadow' \in BOOLEAN
  BY <1>1, <1>2, <1>3
<1>5. IFlag' = MainFlag(k + 1)
  BY <1>1, <1>2, <1>3
<1> QED BY <1>1, <1>3, <1>4, <1>5, MainNext

(* __IDT_CS__ = ... *)
LEMMA SetIdtCsStep == IInv /\ SetIdtCs => IInv'
<1> SUFFICES ASSUME IInv, SetIdtCs PROVE IInv'
  OBVIOUS
<1>1. eip.r = "main"
  BY WhoExecutes DEF SetIdtCs, At
<1>2. PICK k : k = eip.k
  OBVIOUS
<1>3. k \in {1, 13} /\ MemoryType /\ BootAt(k) /\ Instruction = loader_main[k]
  BY <1>1, <1>2, MainAt DEF Place, SetIdtCs, At
<1>4. TablesAt(k) /\ PicAt(k)
  BY <1>3 DEF BootAt
<1>5. UNCHANGED <<gdt, idt, idtr>> /\ idt_cs' = Instruction.v
  BY DEF SetIdtCs
<1>6. ASSUME k = 1
      PROVE  TablesAt(k + 1)'
  <2>1. Instruction = Arg("idt_cs", OLD_KERNEL_CS)
    BY <1>3, <1>6, MainCode
  <2>2. idt_cs' = OLD_KERNEL_CS
    BY <1>5, <2>1, OpNames
  <2>3. TablesAt(1 + 1)'
    BY <1>4, <1>5, <1>6, <2>2 DEF TablesAt
  <2> QED BY <2>3, <1>6
<1>7. ASSUME k = 13
      PROVE  TablesAt(k + 1)'
  <2>1. Instruction = Arg("idt_cs", KERNEL_CS)
    BY <1>3, <1>7, MainCode
  <2>2. idt_cs' = KERNEL_CS
    BY <1>5, <2>1, OpNames
  <2>3. TablesAt(13 + 1)'
    BY <1>4, <1>5, <1>7, <2>2 DEF TablesAt
  <2> QED BY <2>3, <1>7
<1>8. PicAt(k + 1)'
  BY <1>3, <1>4, PicStays DEF SetIdtCs, Outside
<1>9. MemoryType'
  BY <1>3 DEF SetIdtCs, Outside, MemoryType
<1>10. BootAt(k + 1)'
  <2>1. TablesAt(k + 1)'
    BY <1>3, <1>6, <1>7
  <2> QED BY <2>1, <1>8 DEF BootAt
<1>11. Proceed /\ UNCHANGED <<cs, regs>>
  BY DEF SetIdtCs
<1> QED BY <1>1, <1>2, <1>3, <1>9, <1>10, <1>11, MainProceeds

(* lidt *)
LEMMA LidtStep == IInv /\ Lidt => IInv'
<1> SUFFICES ASSUME IInv, Lidt PROVE IInv'
  OBVIOUS
<1>1. eip.r = "main"
  BY WhoExecutes DEF Lidt, At
<1>2. PICK k : k = eip.k
  OBVIOUS
<1>3. k \in {5, 24} /\ MemoryType /\ BootAt(k)
  BY <1>1, <1>2, MainAt DEF Place, Lidt, At
<1>4. TablesAt(k) /\ PicAt(k)
  BY <1>3 DEF BootAt
<1>5. UNCHANGED <<gdt, idt, idt_cs>> /\ idtr' = TRUE
  BY DEF Lidt
<1>6. ASSUME k = 5
      PROVE  TablesAt(k + 1)'
  <2>1. TablesAt(5 + 1)'
    BY <1>4, <1>5, <1>6 DEF TablesAt
  <2> QED BY <2>1, <1>6
<1>7. ASSUME k = 24
      PROVE  TablesAt(k + 1)'
  <2>1. TablesAt(24 + 1)'
    BY <1>4, <1>5, <1>7 DEF TablesAt
  <2> QED BY <2>1, <1>7
<1>8. PicAt(k + 1)'
  BY <1>3, <1>4, PicStays DEF Lidt, Outside
<1>9. MemoryType'
  BY <1>3 DEF Lidt, Outside, MemoryType
<1>10. BootAt(k + 1)'
  <2>1. TablesAt(k + 1)'
    BY <1>3, <1>6, <1>7
  <2> QED BY <2>1, <1>8 DEF BootAt
<1>11. Proceed /\ UNCHANGED <<cs, regs>>
  BY DEF Lidt
<1> QED BY <1>1, <1>2, <1>3, <1>9, <1>10, <1>11, MainProceeds

(* The breakpoint finds its test gate, into the head's code segment. *)
LEMMA Int3Step == IInv /\ Int3 => IInv'
<1> SUFFICES ASSUME IInv, Int3 PROVE IInv'
  OBVIOUS
<1>1. eip.r = "main"
  BY WhoExecutes DEF Int3, At
<1>2. PICK k : k = eip.k
  OBVIOUS
<1>3. /\ k = 6 /\ CpuType /\ MemoryType /\ BootAt(k)
      /\ cs = MainCs(k) /\ IFlag = MainFlag(k) /\ regs = MainRegs(k) /\ stack = <<>>
  BY <1>1, <1>2, MainAt DEF Place, Int3, At
<1>4. idt[3] = TestGate("_test_int3") /\ idtr /\ gdt = HeadGdt
  <2>1. TablesAt(6)
    BY <1>3 DEF BootAt
  <2> QED BY <2>1 DEF TablesAt
<1>5. HasGate(3)
  BY <1>4 DEF HasGate, TestGate, HeadGdt, OLD_KERNEL_CS
<1>6. Deliver(3, NextIp, <<>>) /\ UNCHANGED <<tables, Outside>>
  BY DEF Int3
<1>7. NextIp = [r |-> "main", k |-> 7]
  BY <1>1, <1>2, <1>3 DEF NextIp, CpuType
<1>8. /\ stack' = <<>> \o Frame(7) \o <<>>
      /\ eip' = [r |-> "_test_int3", k |-> 1] /\ cs' = MainCs(7) /\ IFlag' = FALSE
      /\ shadow' = FALSE /\ regs' = MainRegs(7)
  <2>1. MainCs(6) = 16 /\ MainCs(7) = 16 /\ MainFlag(6) = FALSE /\ MainFlag(7) = FALSE
    BY DEF MainCs, MainFlag
  <2>2. MainRegs(6) = MainRegs(7)
    BY DEF MainRegs
  <2>3. idt[3].handler = "_test_int3" /\ idt[3].cs = 16 /\ idt[3].type = "trap"
    BY <1>4 DEF TestGate, OLD_KERNEL_CS
  <2>4. stack' = <<>> \o << <<"eip", NextIp>>, <<"cs", cs>>, <<"flags", IFlag>> >> \o stack
    BY <1>5, <1>6, Delivered
  <2>5. Frame(7) = << <<"eip", NextIp>>, <<"cs", cs>>, <<"flags", IFlag>> >>
    BY <1>3, <1>7, <2>1 DEF Frame
  <2>6. stack' = <<>> \o Frame(7) \o <<>>
    BY <1>3, <2>4, <2>5
  <2>7. /\ eip' = [r |-> idt[3].handler, k |-> 1] /\ cs' = idt[3].cs
        /\ IFlag' = IF idt[3].type = "intr" THEN FALSE ELSE IFlag
        /\ shadow' = FALSE /\ regs' = regs
    BY <1>5, <1>6, Delivered
  <2> QED BY <1>3, <2>1, <2>2, <2>3, <2>6, <2>7
<1>9. stack' = Pushed(7, 0)
  BY <1>8, Left
<1>10. MemoryType'
  BY <1>3, <1>6 DEF Outside, tables, MemoryType
<1>11. BootAt(7)'
  <2>1. TablesAt(6 + 1)'
    BY <1>3, <1>6, TablesStay DEF BootAt
  <2>2. PicAt(6 + 1)'
    BY <1>3, <1>6, PicStays DEF BootAt, Outside
  <2>3. 6 + 1 = 7
    OBVIOUS
  <2> QED BY <2>1, <2>2, <2>3 DEF BootAt
<1>12. Leaves("_test_int3", 7, 0)
  BY DEF Leaves
<1> QED BY <1>8, <1>9, <1>10, <1>11, <1>12, HandlerEntered

(* The gates the boot thread installs: vectors, type, handler. *)
Sets(i, vs, t, h) == i.vs = vs /\ i.type = t /\ i.handler = h

(* The fields of an operation that sets a gate. *)
LEMMA GateFields ==
    /\ \A vs, t, h : Sets(Gate(vs, t, h), vs, t, h)
    /\ \A v, h : /\ Sets(set_intr_gate(v, h), {v}, "intr", h)
                 /\ Sets(set_trap_gate(v, h), {v}, "trap", h)
                 /\ Sets(set_system_gate(v, h), {v}, "trap", h)
  BY DEF Sets, Gate, set_intr_gate, set_trap_gate, set_system_gate

(* The gates the boot thread sets, in its order. *)
LEMMA GateTexts ==
    /\ Sets(loader_main[2], {3}, "trap", "_test_int3")
    /\ Sets(loader_main[3], {13}, "trap", "_test_general_protection")
    /\ Sets(loader_main[4], {14}, "trap", "_test_page_fault")
    /\ Sets(loader_main[14], {0}, "trap", "divide_error")
    /\ Sets(loader_main[15], {1}, "trap", "debug")
    /\ Sets(loader_main[16], {2}, "intr", "nmi")
    /\ Sets(loader_main[17], {3}, "trap", "int3")
    /\ Sets(loader_main[18], {8}, "trap", "double_fault")
    /\ Sets(loader_main[19], {13}, "trap", "general_protection")
    /\ Sets(loader_main[20], {14}, "trap", "page_fault")
    /\ Sets(loader_main[21], {32}, "intr", "clockirq")
    /\ Sets(loader_main[22], {33}, "intr", "kbdirq")
    /\ Sets(loader_main[23], 34 .. 254, "intr", "common_irq")
<1>1. /\ loader_main[2] = set_system_gate(3, "_test_int3")
      /\ loader_main[3] = set_trap_gate(13, "_test_general_protection")
      /\ loader_main[4] = set_trap_gate(14, "_test_page_fault")
      /\ loader_main[14] = set_trap_gate(0, "divide_error")
      /\ loader_main[15] = set_trap_gate(1, "debug")
      /\ loader_main[16] = set_intr_gate(2, "nmi")
  BY MainCode
<1>2. /\ loader_main[17] = set_system_gate(3, "int3")
      /\ loader_main[18] = set_trap_gate(8, "double_fault")
      /\ loader_main[19] = set_trap_gate(13, "general_protection")
      /\ loader_main[20] = set_trap_gate(14, "page_fault")
      /\ loader_main[21] = set_intr_gate(32, "clockirq")
      /\ loader_main[22] = set_intr_gate(33, "kbdirq")
      /\ loader_main[23] = Gate(34 .. 254, "intr", "common_irq")
  BY MainCode
<1> QED BY <1>1, <1>2, GateFields

(* Each gate has a type, and a handler that exists. *)
LEMMA GateTypes ==
    ASSUME NEW k, k \in 2 .. 4 \/ k \in 14 .. 23
    PROVE  /\ loader_main[k].type \in {"intr", "trap"}
           /\ loader_main[k].handler \in DOMAIN Program
<1>1. CASE k \in 2 .. 4
  <2>1. k = 2 \/ k = 3 \/ k = 4
    BY <1>1
  <2> QED BY <2>1, GateTexts, Routines DEF Sets
<1>2. CASE k \in 14 .. 23
  <2>1. \/ k = 14 \/ k = 15 \/ k = 16 \/ k = 17 \/ k = 18
        \/ k = 19 \/ k = 20 \/ k = 21 \/ k = 22 \/ k = 23
    BY <1>2
  <2> QED BY <2>1, GateTexts, Routines DEF Sets
<1> QED BY <1>1, <1>2

(* _set_gate *)
LEMMA SetGateStep == IInv /\ SetGate => IInv'
<1> SUFFICES ASSUME IInv, SetGate PROVE IInv'
  OBVIOUS
<1>1. eip.r = "main"
  BY WhoExecutes DEF SetGate, At
<1>2. PICK k : k = eip.k
  OBVIOUS
<1>3. /\ k \in 2 .. 4 \/ k \in 14 .. 23
      /\ MemoryType /\ BootAt(k) /\ Instruction = loader_main[k]
  BY <1>1, <1>2, MainAt DEF Place, SetGate, At
<1>4. TablesAt(k) /\ PicAt(k)
  BY <1>3 DEF BootAt
<1>5. /\ UNCHANGED <<gdt, idtr, idt_cs>>
      /\ idt' = [v \in Vectors |->
                   IF v \in Instruction.vs
                   THEN [type |-> Instruction.type, cs |-> idt_cs, handler |-> Instruction.handler]
                   ELSE idt[v]]
  BY DEF SetGate
<1>6. ASSUME NEW vs, NEW t, NEW h, Sets(loader_main[k], vs, t, h)
      PROVE  \A v \in Vectors :
                idt'[v] = IF v \in vs THEN [type |-> t, cs |-> idt_cs, handler |-> h] ELSE idt[v]
  BY <1>3, <1>5, <1>6 DEF Sets
<1>7. 3 \in Vectors /\ 14 \in Vectors /\ \A v \in 32 .. 47 : v \in Vectors
  BY DEF Vectors
<1>8. ASSUME k = 2
      PROVE  TablesAt(k + 1)'
  <2>1. idt'[3] = [type |-> "trap", cs |-> idt_cs, handler |-> "_test_int3"]
    BY <1>6, <1>7, <1>8, GateTexts
  <2>2. idt_cs = OLD_KERNEL_CS /\ idt'[3] = TestGate("_test_int3")
    BY <1>4, <1>8, <2>1 DEF TablesAt, TestGate
  <2>3. TablesAt(2 + 1)'
    BY <1>4, <1>5, <1>8, <2>2 DEF TablesAt
  <2> QED BY <2>3, <1>8
<1>9. ASSUME k = 3
      PROVE  TablesAt(k + 1)'
  <2>1. \A v \in Vectors :
           idt'[v] = IF v \in {13}
                     THEN [type |-> "trap", cs |-> idt_cs, handler |-> "_test_general_protection"]
                     ELSE idt[v]
    BY <1>6, <1>9, GateTexts
  <2>2. idt'[3] = idt[3]
    BY <1>7, <2>1
  <2>3. TablesAt(3 + 1)'
    BY <1>4, <1>5, <1>9, <2>2 DEF TablesAt
  <2> QED BY <2>3, <1>9
<1>10. ASSUME k = 4
       PROVE  TablesAt(k + 1)'
  <2>1. \A v \in Vectors :
           idt'[v] = IF v \in {14}
                     THEN [type |-> "trap", cs |-> idt_cs, handler |-> "_test_page_fault"]
                     ELSE idt[v]
    BY <1>6, <1>10, GateTexts
  <2>2. idt'[3] = idt[3]
    BY <1>7, <2>1
  <2>3. idt'[14] = [type |-> "trap", cs |-> idt_cs, handler |-> "_test_page_fault"]
    BY <1>7, <2>1
  <2>4. idt'[14] = TestGate("_test_page_fault")
    BY <1>4, <1>10, <2>3 DEF TablesAt, TestGate
  <2>5. TablesAt(4 + 1)'
    BY <1>4, <1>5, <1>10, <2>2, <2>4 DEF TablesAt
  <2> QED BY <2>5, <1>10
<1>11. ASSUME k \in 14 .. 20
       PROVE  TablesAt(k + 1)'
  <2>1. /\ ~(k + 1 <= 9) /\ ~(k <= 9) /\ k > 5 /\ k # 1 /\ k + 1 # 1 /\ ~(k + 1 <= 13) /\ ~(k <= 13)
        /\ k + 1 \notin 3 .. 7 /\ k + 1 \notin 5 .. 7
        /\ ~(k + 1 > 21) /\ ~(k + 1 > 22) /\ ~(k + 1 > 23)
    BY <1>11
  <2> QED BY <1>4, <1>5, <2>1 DEF TablesAt
<1>12. k \in 21 .. 23 => idt_cs = KERNEL_CS
  BY <1>4 DEF TablesAt
<1>13. ASSUME k = 21
       PROVE  TablesAt(k + 1)'
  <2>1. \A v \in Vectors :
           v \in {32} => idt'[v] = [type |-> "intr", cs |-> idt_cs, handler |-> "clockirq"]
    BY <1>6, <1>13, GateTexts
  <2>2. idt'[32] = IntrGate("clockirq")
    BY <1>7, <1>12, <1>13, <2>1 DEF IntrGate
  <2>3. TablesAt(21 + 1)'
    BY <1>4, <1>5, <1>13, <2>2 DEF TablesAt
  <2> QED BY <2>3, <1>13
<1>14. ASSUME k = 22
       PROVE  TablesAt(k + 1)'
  <2>1. \A v \in Vectors :
           idt'[v] = IF v \in {33}
                     THEN [type |-> "intr", cs |-> idt_cs, handler |-> "kbdirq"] ELSE idt[v]
    BY <1>6, <1>14, GateTexts
  <2>2. idt'[33] = IntrGate("kbdirq") /\ idt'[32] = idt[32]
    BY <1>7, <1>12, <1>14, <2>1 DEF IntrGate
  <2>3. TablesAt(22 + 1)'
    BY <1>4, <1>5, <1>14, <2>2 DEF TablesAt
  <2> QED BY <2>3, <1>14
<1>15. ASSUME k = 23
       PROVE  TablesAt(k + 1)'
  <2>1. \A v \in Vectors :
           idt'[v] = IF v \in 34 .. 254
                     THEN [type |-> "intr", cs |-> idt_cs, handler |-> "common_irq"] ELSE idt[v]
    BY <1>6, <1>15, GateTexts
  <2>2. idt'[32] = idt[32] /\ idt'[33] = idt[33]
    BY <1>7, <2>1
  <2>3. \A v \in 34 .. 47 : idt'[v] = IntrGate("common_irq")
    BY <1>7, <1>12, <1>15, <2>1 DEF IntrGate
  <2>4. TablesAt(23 + 1)'
    BY <1>4, <1>5, <1>15, <2>2, <2>3 DEF TablesAt
  <2> QED BY <2>4, <1>15
<1>16. TablesAt(k + 1)'
  <2>1. k = 2 \/ k = 3 \/ k = 4 \/ k \in 14 .. 20 \/ k = 21 \/ k = 22 \/ k = 23
    BY <1>3
  <2> QED BY <2>1, <1>8, <1>9, <1>10, <1>11, <1>13, <1>14, <1>15
<1>17. PicAt(k + 1)'
  BY <1>3, <1>4, PicStays DEF SetGate, Outside
<1>18. BootAt(k + 1)'
  BY <1>16, <1>17 DEF BootAt
<1>19. MemoryType'
  <2>1. idt_cs \in {0, 8, 16}
    BY <1>4 DEF TablesAt, OLD_KERNEL_CS, KERNEL_CS
  <2>2. [type |-> Instruction.type, cs |-> idt_cs, handler |-> Instruction.handler] \in GateState
    BY <1>3, <2>1, GateTypes DEF GateState
  <2>3. idt' \in [Vectors -> GateState]
    BY <1>3, <1>5, <2>2 DEF MemoryType
  <2> QED BY <1>3, <1>5, <2>3 DEF SetGate, Outside, MemoryType
<1>20. Proceed /\ UNCHANGED <<cs, regs>>
  BY DEF SetGate
<1> QED BY <1>1, <1>2, <1>3, <1>18, <1>19, <1>20, MainProceeds

(* The store to an unmapped page finds its test gate. *)
LEMMA TestStoreStep == IInv /\ TestStore => IInv'
<1> SUFFICES ASSUME IInv, TestStore PROVE IInv'
  OBVIOUS
<1>1. eip.r = "main"
  BY WhoExecutes DEF TestStore, At
<1>2. PICK k : k = eip.k
  OBVIOUS
<1>3. /\ k = 7 /\ CpuType /\ MemoryType /\ BootAt(k)
      /\ cs = MainCs(k) /\ IFlag = MainFlag(k) /\ regs = MainRegs(k) /\ stack = <<>>
  BY <1>1, <1>2, MainAt DEF Place, TestStore, At
<1>4. UNCHANGED <<tables, Outside>>
  BY DEF TestStore
<1>5. MemoryType'
  BY <1>3, <1>4 DEF Outside, tables, MemoryType
<1>6. CASE mapped
  <2>1. Proceed /\ UNCHANGED <<cs, regs>>
    BY <1>6 DEF TestStore
  <2>2. BootAt(7 + 1)'
    BY <1>3, <1>4, TablesStay, PicStays DEF BootAt, Outside
  <2>3. 7 \in 1 .. 38 /\ 7 \notin {10, 11, 37}
    OBVIOUS
  <2> QED BY <1>1, <1>2, <1>3, <1>5, <2>1, <2>2, <2>3, MainProceeds
<1>7. CASE ~mapped
  <2>1. Deliver(14, eip, ErrorCode)
    BY <1>7 DEF TestStore
  <2>2. idt[14] = TestGate("_test_page_fault") /\ idtr /\ gdt = HeadGdt
    <3>1. TablesAt(7)
      BY <1>3 DEF BootAt
    <3> QED BY <3>1 DEF TablesAt
  <2>3. HasGate(14)
    BY <2>2 DEF HasGate, TestGate, HeadGdt, OLD_KERNEL_CS
  <2>4. eip = [r |-> "main", k |-> 7]
    BY <1>1, <1>2, <1>3 DEF CpuType
  <2>5. MainCs(7) = 16 /\ MainFlag(7) = FALSE
    BY DEF MainCs, MainFlag
  <2>6. stack' = ErrorCode \o << <<"eip", eip>>, <<"cs", cs>>, <<"flags", IFlag>> >> \o stack
    BY <2>1, <2>3, Delivered
  <2>7. Frame(7) = << <<"eip", eip>>, <<"cs", cs>>, <<"flags", IFlag>> >>
    BY <1>3, <2>4, <2>5 DEF Frame
  <2>8. stack' = ErrorCode \o Frame(7) \o <<>>
    BY <1>3, <2>6, <2>7
  <2>9. stack' = Pushed(7, 1)
    BY <2>8, Left
  <2>10. /\ eip' = [r |-> idt[14].handler, k |-> 1] /\ cs' = idt[14].cs
         /\ IFlag' = IF idt[14].type = "intr" THEN FALSE ELSE IFlag
         /\ shadow' = FALSE /\ regs' = regs
    BY <2>1, <2>3, Delivered
  <2>11. idt[14].handler = "_test_page_fault" /\ idt[14].cs = 16 /\ idt[14].type = "trap"
    BY <2>2 DEF TestGate, OLD_KERNEL_CS
  <2>12. /\ eip' = [r |-> "_test_page_fault", k |-> 1] /\ cs' = MainCs(7) /\ IFlag' = FALSE
         /\ shadow' \in BOOLEAN /\ regs' = MainRegs(7)
    BY <1>3, <2>5, <2>10, <2>11
  <2>13. BootAt(7)'
    BY <1>3, <1>4, BootKept DEF Outside
  <2>14. Leaves("_test_page_fault", 7, 1)
    BY DEF Leaves
  <2> QED BY <1>5, <2>9, <2>12, <2>13, <2>14, HandlerEntered
<1> QED BY <1>6, <1>7

(* lgdt: the selector that the code segment was loaded with now names data, but *)
(* nothing is delivered before the jump to the new one.                         *)
LEMMA LgdtStep == IInv /\ Lgdt => IInv'
<1> SUFFICES ASSUME IInv, Lgdt PROVE IInv'
  OBVIOUS
<1>1. eip.r = "main"
  BY WhoExecutes DEF Lgdt, At
<1>2. PICK k : k = eip.k
  OBVIOUS
<1>3. k = 9 /\ MemoryType /\ BootAt(k)
  BY <1>1, <1>2, MainAt DEF Place, Lgdt, At
<1>4. TablesAt(9) /\ PicAt(9)
  BY <1>3 DEF BootAt
<1>5. TablesAt(9 + 1)'
  BY <1>4 DEF TablesAt, Lgdt
<1>6. PicAt(9 + 1)'
  BY <1>4, PicStays DEF Lgdt, Outside
<1>7. MemoryType'
  BY <1>3 DEF Lgdt, Outside, MemoryType
<1>8. Proceed /\ UNCHANGED <<cs, regs>> /\ 9 \in 1 .. 38 /\ 9 \notin {10, 11, 37}
  BY DEF Lgdt
<1>9. BootAt(9 + 1)'
  BY <1>5, <1>6 DEF BootAt
<1> QED BY <1>1, <1>2, <1>3, <1>7, <1>8, <1>9, MainProceeds

(* mov ds, KERNEL_DS *)
LEMMA MovDsStep == IInv /\ MovDs => IInv'
<1> SUFFICES ASSUME IInv, MovDs PROVE IInv'
  OBVIOUS
<1>1. eip.r = "main"
  BY WhoExecutes DEF MovDs, At
<1>2. PICK k : k = eip.k
  OBVIOUS
<1>3. /\ k = 10 /\ CpuType /\ MemoryType /\ BootAt(k) /\ Instruction = loader_main[k]
      /\ cs = MainCs(k) /\ IFlag = MainFlag(k) /\ regs = MainRegs(k) /\ stack = <<>>
  BY <1>1, <1>2, MainAt DEF Place, MovDs, At
<1>4. Instruction.v = 16
  <2>1. Instruction = Arg("mov_ds", KERNEL_DS)
    BY <1>3, MainCode
  <2> QED BY <2>1, OpNames DEF KERNEL_DS
<1>14. gdt[16] = "data" /\ 16 \in DOMAIN gdt
  <2>1. gdt = KernelGdt
    BY <1>3 DEF BootAt, TablesAt
  <2> QED BY <2>1 DEF KernelGdt
<1>15. /\ Proceed /\ cs' = cs /\ UNCHANGED <<tables, Outside>>
       /\ regs' = [regs EXCEPT !["ds"] = 16, !["es"] = 16]
  BY <1>1, <1>4, <1>14 DEF MovDs, Loadable
<1>5. BootAt(10 + 1)'
  BY <1>3, <1>15, TablesStay, PicStays DEF BootAt, Outside
<1>6. MemoryType'
  BY <1>3, <1>15 DEF Outside, tables, MemoryType
<1>7. regs' = MainRegs(10 + 1)
  BY <1>3, <1>15 DEF MainRegs
<1>8. MainCs(10 + 1) = MainCs(10) /\ MainFlag(10 + 1) = FALSE /\ MainFlag(10) = FALSE
  BY DEF MainCs, MainFlag
<1>9. cs' = cs /\ IFlag' = IFlag /\ stack' = stack /\ eip' = NextIp /\ shadow' = FALSE
  BY <1>15 DEF Proceed
<1>10. cs' = MainCs(10 + 1) /\ stack' = <<>>
  BY <1>3, <1>8, <1>9
<1>12. shadow' \in BOOLEAN
  BY <1>9
<1>13. 10 \in 1 .. 38
  OBVIOUS
<1>11. IFlag' = MainFlag(10 + 1)
  BY <1>3, <1>8, <1>9
<1> QED BY <1>1, <1>2, <1>3, <1>5, <1>6, <1>7, <1>9, <1>10, <1>11, <1>12, <1>13, MainNext

(* setup_gdt's far return loads the new code selector. *)
LEMMA RetfStep == IInv /\ Retf => IInv'
<1> SUFFICES ASSUME IInv, Retf PROVE IInv'
  OBVIOUS
<1>1. eip.r = "main"
  BY WhoExecutes DEF Retf, At
<1>2. PICK k : k = eip.k
  OBVIOUS
<1>3. /\ k = 11 /\ CpuType /\ MemoryType /\ BootAt(k) /\ Instruction = loader_main[k]
      /\ cs = MainCs(k) /\ IFlag = MainFlag(k) /\ regs = MainRegs(k) /\ stack = <<>>
  BY <1>1, <1>2, MainAt DEF Place, Retf, At
<1>4. Instruction.v = 8
  <2>1. Instruction = Arg("retf", KERNEL_CS)
    BY <1>3, MainCode
  <2> QED BY <2>1, OpNames DEF KERNEL_CS
<1>5. gdt = KernelGdt
  <2>1. TablesAt(11)
    BY <1>3 DEF BootAt
  <2> QED BY <2>1 DEF TablesAt
<1>6. gdt[Instruction.v] = "code"
  BY <1>4, <1>5 DEF KernelGdt
<1>7. BootAt(11 + 1)'
  BY <1>3, TablesStay, PicStays DEF BootAt, Retf, Outside
<1>8. MemoryType'
  BY <1>3 DEF Retf, Outside, tables, MemoryType
<1>9. MainCs(11 + 1) = 8 /\ MainRegs(11 + 1) = MainRegs(11)
      /\ MainFlag(11 + 1) = FALSE /\ MainFlag(11) = FALSE
  BY DEF MainCs, MainRegs, MainFlag
<1>10. /\ cs' = 8 /\ IFlag' = IFlag /\ stack' = stack /\ eip' = NextIp /\ regs' = regs
       /\ shadow' = FALSE
  BY <1>4, <1>6 DEF Retf
<1>11. cs' = MainCs(11 + 1) /\ stack' = <<>> /\ regs' = MainRegs(11 + 1)
  BY <1>3, <1>9, <1>10
<1>13. shadow' \in BOOLEAN
  BY DEF Retf
<1>14. 11 \in 1 .. 38
  OBVIOUS
<1>12. IFlag' = MainFlag(11 + 1)
  BY <1>3, <1>9, <1>10
<1> QED BY <1>1, <1>2, <1>3, <1>7, <1>8, <1>10, <1>11, <1>12, <1>13, <1>14, MainNext

(* printf finds its data segment, in the boot thread and in every handler. *)
LEMMA DataSegment ==
    ASSUME NEW k \in {7, 8, 12, 38, 39}, BootAt(k)
    PROVE  gdt[MainRegs(k)["ds"]] = "data"
<1>1. MainRegs(k)["ds"] = IF k <= 10 THEN 24 ELSE 16
  BY RestoreOrder DEF MainRegs
<1>2. gdt = IF k <= 9 THEN HeadGdt ELSE KernelGdt
  BY DEF BootAt, TablesAt
<1> QED BY <1>1, <1>2 DEF HeadGdt, KernelGdt

(* printf finds a data segment, in the boot thread and in the handlers. *)
LEMMA PrintfStep == IInv /\ Printf => IInv'
<1> SUFFICES ASSUME IInv, Printf PROVE IInv'
  OBVIOUS
<1>1. MemoryType' /\ UNCHANGED <<tables, pic, masks, bios>>
  BY DEF Printf, Outside, tables, IInv, MemoryType
<1>2. CASE eip.r = "main"
  <2>1. PICK k : k = eip.k
    OBVIOUS
  <2>2. k \in {8, 12, 38} /\ BootAt(k) /\ regs = MainRegs(k)
    BY <1>2, <2>1, MainAt DEF Place, Printf, At
  <2>3. Proceed /\ UNCHANGED <<cs, regs>>
    BY <1>2, <2>2, DataSegment DEF Printf
  <2>4. TablesAt(k + 1)' /\ PicAt(k + 1)'
    BY <1>1, <2>2, TablesStay, PicStays DEF BootAt
  <2>5. BootAt(k + 1)'
    BY <2>4 DEF BootAt
  <2>6. k \in 1 .. 38 /\ k \notin {10, 11, 37}
    BY <2>2
  <2> QED BY <1>1, <1>2, <2>1, <2>3, <2>5, <2>6, MainProceeds
<1>3. CASE eip.r \in LiveHandlers
  <2>1. PICK k \in {7, 38, 39}, w \in {0, 1} : Leaves(eip.r, k, w) /\ HandlerAt(k, w)
    BY <1>3 DEF IInv, InHandler
  <2>2. /\ BootAt(k) /\ cs = MainCs(k) /\ At("printf") /\ ~IFlag
        /\ stack = Saved(k) \o Pushed(k, w) /\ regs = MainRegs(k)
    BY <2>1 DEF HandlerAt, Printf, At
  <2>3. eip.r # "main"
    BY <1>3 DEF LiveHandlers, IrqHandlers
  <2>4. Proceed /\ UNCHANGED cs
        /\ regs' = [regs EXCEPT !["eax"] = "junk", !["ecx"] = "junk", !["edx"] = "junk"]
    BY <2>2, <2>3, DataSegment DEF Printf
  <2>5. CpuType
    BY DEF IInv
  <2>6. eip' = NextIp /\ shadow' = FALSE /\ IFlag' = IFlag /\ stack' = stack
    BY <2>4 DEF Proceed
  <2>7. Instruction'.op = "RESTORE_ALL"
    BY <1>3, <2>2, <2>5, <2>6, NextOp
  <2>8. DOMAIN regs' = Registers
    BY <2>4, <2>5 DEF CpuType
  <2>9. BootAt(k)'
    BY <1>1, <2>2, BootKept
  <2>10. HandlerAt(k, w)'
    BY <2>2, <2>4, <2>6, <2>7, <2>9 DEF HandlerAt, At
  <2>11. IFlag' \in BOOLEAN /\ shadow' \in BOOLEAN
    BY <2>5, <2>6 DEF CpuType
  <2>12. ~At("iretd")
    BY <2>2 DEF At
  <2> QED BY <1>1, <1>3, <2>1, <2>5, <2>6, <2>8, <2>10, <2>11, <2>12, HandlerNext
<1> QED BY <1>2, <1>3, WhoExecutes

(* The masks read are those of the BIOS. *)
LEMMA ReadMaskStep == IInv /\ ReadMask => IInv'
<1> SUFFICES ASSUME IInv, ReadMask PROVE IInv'
  OBVIOUS
<1>1. eip.r = "main"
  BY WhoExecutes DEF ReadMask, At
<1>2. PICK k : k = eip.k
  OBVIOUS
<1>3. k \in {25, 26} /\ MemoryType /\ BootAt(k) /\ Instruction = loader_main[k]
  BY <1>1, <1>2, MainAt DEF Place, ReadMask, At
<1>4. /\ TablesAt(k) /\ PicAt(k) /\ UNCHANGED <<tables, pic, bios, mapped, raised>>
      /\ masks' = [masks EXCEPT ![Instruction.v] = pic[Instruction.v].imr]
  BY <1>3 DEF BootAt, ReadMask, ReadData
<1>5. masks \in [Chips -> 0 .. 255] /\ "master" \in Chips /\ "slave" \in Chips
      /\ pic \in [Chips -> ChipState]
  BY <1>3 DEF MemoryType, Chips
<1>6. \A c \in Chips : pic[c].imr \in 0 .. 255
  BY <1>5 DEF ChipState
<1>7. ASSUME k = 25
      PROVE  PicAt(k + 1)' /\ masks' \in [Chips -> 0 .. 255]
  <2>1. Instruction.v = "master"
    <3>1. Instruction = Arg("inb", "master")
      BY <1>3, <1>7, MainCode
    <3> QED BY <3>1, OpNames
  <2>2. masks' = [masks EXCEPT !["master"] = pic["master"].imr]
    BY <1>4, <2>1
  <2>3. pic["master"].imr = bios["master"]
    BY <1>4, <1>7 DEF PicAt, ChipAt
  <2>4. masks'["master"] = bios["master"] /\ masks' \in [Chips -> 0 .. 255]
    BY <1>5, <1>6, <2>2, <2>3
  <2>5. /\ ChipAt(pic["master"], bios["master"], 25 + 1, 32, 4)
        /\ ChipAt(pic["slave"], bios["slave"], 24 + 1, 40, 2)
    BY <1>4, <1>7, ChipStays DEF PicAt
  <2>6. 24 + 1 = (25 + 1) - 1
    OBVIOUS
  <2>7. PicAt(25 + 1)'
    BY <1>4, <2>4, <2>5, <2>6 DEF PicAt
  <2> QED BY <2>4, <2>7, <1>7
<1>8. ASSUME k = 26
      PROVE  PicAt(k + 1)' /\ masks' \in [Chips -> 0 .. 255]
  <2>1. Instruction.v = "slave"
    <3>1. Instruction = Arg("inb", "slave")
      BY <1>3, <1>8, MainCode
    <3> QED BY <3>1, OpNames
  <2>2. masks' = [masks EXCEPT !["slave"] = pic["slave"].imr]
    BY <1>4, <2>1
  <2>3. pic["slave"].imr = bios["slave"] /\ masks["master"] = bios["master"]
    BY <1>4, <1>8 DEF PicAt, ChipAt
  <2>4. /\ masks'["master"] = bios["master"] /\ masks'["slave"] = bios["slave"]
        /\ masks' \in [Chips -> 0 .. 255]
    BY <1>5, <1>6, <2>2, <2>3
  <2>5. /\ ChipAt(pic["master"], bios["master"], 26 + 1, 32, 4)
        /\ ChipAt(pic["slave"], bios["slave"], 25 + 1, 40, 2)
    BY <1>4, <1>8, ChipStays DEF PicAt
  <2>6. 25 + 1 = (26 + 1) - 1
    OBVIOUS
  <2>7. PicAt(26 + 1)'
    BY <1>4, <2>4, <2>5, <2>6 DEF PicAt
  <2> QED BY <2>4, <2>7, <1>8
<1>9. PicAt(k + 1)' /\ masks' \in [Chips -> 0 .. 255]
  BY <1>3, <1>7, <1>8
<1>10. TablesAt(k + 1)'
  BY <1>3, <1>4, TablesStay
<1>11. BootAt(k + 1)'
  BY <1>9, <1>10 DEF BootAt
<1>12. MemoryType'
  BY <1>3, <1>4, <1>9 DEF MemoryType, tables
<1>13. Proceed /\ UNCHANGED <<cs, regs>>
  BY DEF ReadMask
<1>14. k \in 1 .. 38 /\ k \notin {10, 11, 37}
  BY <1>3
<1> QED BY <1>1, <1>2, <1>11, <1>12, <1>13, <1>14, MainProceeds

(* The command and the words written to the controllers, place by place: *)
(* at an odd place to the master, at an even one to the slave.            *)
Writes(i, chip, port, v) == i.chip = chip /\ i.port = port /\ i.v = v

(* The bytes init_8259_pic writes, in its order. *)
LEMMA OutTexts ==
    /\ Writes(loader_main[27], "master", "command", 17)
    /\ Writes(loader_main[28], "slave", "command", 17)
    /\ Writes(loader_main[29], "master", "data", 32)
    /\ Writes(loader_main[30], "slave", "data", 40)
    /\ Writes(loader_main[31], "master", "data", 4)
    /\ Writes(loader_main[32], "slave", "data", 2)
    /\ Writes(loader_main[33], "master", "data", ICW4)
    /\ Writes(loader_main[34], "slave", "data", ICW4)
<1>1. \A c, p, v : Writes(Out(c, p, v), c, p, v)
  BY DEF Writes, Out
<1>2. /\ loader_main[27] = Out("master", "command", 17)
      /\ loader_main[28] = Out("slave", "command", 17)
      /\ loader_main[29] = Out("master", "data", 32)
      /\ loader_main[30] = Out("slave", "data", 40)
      /\ loader_main[31] = Out("master", "data", 4)
      /\ loader_main[32] = Out("slave", "data", 2)
      /\ loader_main[33] = Out("master", "data", ICW4)
      /\ loader_main[34] = Out("slave", "data", ICW4)
  BY MainCode
<1> QED BY <1>1, <1>2

(* A write to one controller, at its place, and the other at its own. *)
LEMMA MasterWritten ==
    ASSUME NEW k \in {27, 29, 31, 33, 35}, PicAt(k), UNCHANGED <<masks, bios>>,
           pic'["slave"] = pic["slave"],
           ChipAt(pic["master"], bios["master"], k + 1, 32, 4)'
    PROVE  PicAt(k + 1)'
<1>1. ChipAt(pic["slave"], bios["slave"], k - 1, 40, 2)
  BY DEF PicAt
<1>2. k - 1 \in Int /\ k - 1 \notin {27, 29, 31, 33, 35} /\ (k - 1) + 1 = (k + 1) - 1
  OBVIOUS
<1>3. ChipAt(pic["slave"], bios["slave"], (k - 1) + 1, 40, 2)
  BY <1>1, <1>2, ChipStays
<1>4. k > 25 /\ k > 26
  OBVIOUS
<1> QED BY <1>2, <1>3, <1>4 DEF PicAt

(* The slave is one write further, the master where it was. *)
LEMMA SlaveWritten ==
    ASSUME NEW k \in {28, 30, 32, 34, 36}, PicAt(k), UNCHANGED <<masks, bios>>,
           pic'["master"] = pic["master"],
           ChipAt(pic["slave"], bios["slave"], k, 40, 2)'
    PROVE  PicAt(k + 1)'
<1>1. ChipAt(pic["master"], bios["master"], k, 32, 4)
  BY DEF PicAt
<1>2. k \in Int /\ k \notin {27, 29, 31, 33, 35} /\ k = (k + 1) - 1
  OBVIOUS
<1>3. ChipAt(pic["master"], bios["master"], k + 1, 32, 4)
  BY <1>1, <1>2, ChipStays
<1>4. k > 25 /\ k > 26
  OBVIOUS
<1> QED BY <1>2, <1>3, <1>4 DEF PicAt

(* The initialisation words, written to the two controllers in turn. *)
LEMMA OutbStep == IInv /\ Outb => IInv'
<1> SUFFICES ASSUME IInv, Outb PROVE IInv'
  OBVIOUS
<1>1. eip.r = "main"
  BY WhoExecutes DEF Outb, At
<1>2. PICK k : k = eip.k
  OBVIOUS
<1>3. k \in 27 .. 34 /\ MemoryType /\ BootAt(k) /\ Instruction = loader_main[k]
  BY <1>1, <1>2, MainAt DEF Place, Outb, At
<1>4. TablesAt(k) /\ PicAt(k) /\ UNCHANGED <<tables, masks, mapped, raised, bios>>
  BY <1>3 DEF BootAt, Outb
<1>5. /\ pic \in [Chips -> ChipState] /\ "master" \in Chips /\ "slave" \in Chips
      /\ pic["master"] \in ChipState /\ pic["slave"] \in ChipState
      /\ bios["master"] \in 0 .. 255 /\ bios["slave"] \in 0 .. 255
  BY <1>3 DEF MemoryType, Chips
<1>6. ASSUME NEW c, NEW v, Writes(loader_main[k], c, "command", v)
      PROVE  pic' = [pic EXCEPT ![c] = WriteCommand(pic[c], v)]
  BY <1>3, <1>6 DEF Writes, Outb
<1>7. ASSUME NEW c, NEW v, Writes(loader_main[k], c, "data", v)
      PROVE  pic' = [pic EXCEPT ![c] = WriteData(pic[c], v)]
  <2>1. loader_main[k].port # "command"
    BY <1>7 DEF Writes
  <2> QED BY <1>3, <1>7, <2>1 DEF Writes, Outb
<1> DEFINE m == pic["master"]
           s == pic["slave"]
           bm == bios["master"]
           bs == bios["slave"]
           Done == PicAt(k + 1)' /\ pic' \in [Chips -> ChipState]
<1>8. /\ WriteCommand(m, 17) \in ChipState /\ WriteCommand(s, 17) \in ChipState
      /\ \A v \in 0 .. 255 : WriteData(m, v) \in ChipState /\ WriteData(s, v) \in ChipState
  BY <1>5, CommandWritten, DataWritten
<1>9. ICW4 \in 0 .. 255
  BY DEF ICW4
<1>10. ASSUME k = 27
       PROVE  Done
  <2>1. pic' = [pic EXCEPT !["master"] = WriteCommand(m, 17)]
    BY <1>6, <1>10, OutTexts
  <2>2. ChipAt(WriteCommand(m, 17), bm, 28, 32, 4)
    BY <1>5, ChipWrites
  <2>3. pic' \in [Chips -> ChipState] /\ pic'["master"] = WriteCommand(m, 17) /\ pic'["slave"] = s
    BY <1>5, <1>8, <2>1
  <2> QED BY <1>4, <1>10, <2>2, <2>3, MasterWritten
<1>11. ASSUME k = 28
       PROVE  Done
  <2>1. pic' = [pic EXCEPT !["slave"] = WriteCommand(s, 17)]
    BY <1>6, <1>11, OutTexts
  <2>2. ChipAt(WriteCommand(s, 17), bs, 28, 40, 2)
    BY <1>5, ChipWrites
  <2>3. pic' \in [Chips -> ChipState] /\ pic'["slave"] = WriteCommand(s, 17) /\ pic'["master"] = m
    BY <1>5, <1>8, <2>1
  <2> QED BY <1>4, <1>11, <2>2, <2>3, SlaveWritten
<1>12. ASSUME k \in {29, 31, 33}
       PROVE  Done
  <2>1. PICK v \in 0 .. 255 : Writes(loader_main[k], "master", "data", v)
                              /\ ChipAt(WriteData(m, v), bm, k + 1, 32, 4)
    <3>1. ChipAt(m, bm, k, 32, 4)
      BY <1>4 DEF PicAt
    <3>2. CASE k = 29
      <4>1. ChipAt(WriteData(m, 32), bm, 30, 32, 4)
        BY <1>5, <3>1, <3>2, ChipWrites
      <4>2. 32 \in 0 .. 255 /\ 29 + 1 = 30
        OBVIOUS
      <4> QED BY <3>2, <4>1, <4>2, OutTexts
    <3>3. CASE k = 31
      <4>1. ChipAt(WriteData(m, 4), bm, 32, 32, 4)
        BY <1>5, <3>1, <3>3, ChipWrites
      <4>2. 4 \in 0 .. 255 /\ 31 + 1 = 32
        OBVIOUS
      <4> QED BY <3>3, <4>1, <4>2, OutTexts
    <3>4. CASE k = 33
      <4>1. ChipAt(WriteData(m, ICW4), bm, 34, 32, 4)
        BY <1>5, <3>1, <3>4, ChipWrites
      <4>2. 33 + 1 = 34
        OBVIOUS
      <4> QED BY <1>9, <3>4, <4>1, <4>2, OutTexts
    <3> QED BY <1>12, <3>2, <3>3, <3>4
  <2>2. pic' = [pic EXCEPT !["master"] = WriteData(m, v)]
    BY <1>7, <2>1
  <2>3. pic' \in [Chips -> ChipState] /\ pic'["master"] = WriteData(m, v) /\ pic'["slave"] = s
    BY <1>5, <1>8, <2>2
  <2> QED BY <1>4, <1>12, <2>1, <2>3, MasterWritten
<1>13. ASSUME k \in {30, 32, 34}
       PROVE  Done
  <2>1. PICK v \in 0 .. 255 : Writes(loader_main[k], "slave", "data", v)
                              /\ ChipAt(WriteData(s, v), bs, k, 40, 2)
    <3>1. ChipAt(s, bs, k - 1, 40, 2)
      BY <1>4 DEF PicAt
    <3>2. CASE k = 30
      <4>1. ChipAt(s, bs, 29, 40, 2)
        BY <3>1, <3>2
      <4>2. ChipAt(WriteData(s, 40), bs, 30, 40, 2)
        BY <1>5, <4>1, ChipWrites
      <4>3. 40 \in 0 .. 255
        OBVIOUS
      <4> QED BY <3>2, <4>2, <4>3, OutTexts
    <3>3. CASE k = 32
      <4>1. ChipAt(s, bs, 31, 40, 2)
        BY <3>1, <3>3
      <4>2. ChipAt(WriteData(s, 2), bs, 32, 40, 2)
        BY <1>5, <4>1, ChipWrites
      <4>3. 2 \in 0 .. 255
        OBVIOUS
      <4> QED BY <3>3, <4>2, <4>3, OutTexts
    <3>4. CASE k = 34
      <4>1. ChipAt(s, bs, 33, 40, 2)
        BY <3>1, <3>4
      <4>2. ChipAt(WriteData(s, ICW4), bs, 34, 40, 2)
        BY <1>5, <4>1, ChipWrites
      <4> QED BY <1>9, <3>4, <4>2, OutTexts
    <3> QED BY <1>13, <3>2, <3>3, <3>4
  <2>2. pic' = [pic EXCEPT !["slave"] = WriteData(s, v)]
    BY <1>7, <2>1
  <2>3. pic' \in [Chips -> ChipState] /\ pic'["slave"] = WriteData(s, v) /\ pic'["master"] = m
    BY <1>5, <1>8, <2>2
  <2> QED BY <1>4, <1>13, <2>1, <2>3, SlaveWritten
<1>14. Done
  <2>1. k = 27 \/ k = 28 \/ k \in {29, 31, 33} \/ k \in {30, 32, 34}
    BY <1>3
  <2> QED BY <2>1, <1>10, <1>11, <1>12, <1>13
<1>15. TablesAt(k + 1)'
  BY <1>3, <1>4, TablesStay
<1>16. BootAt(k + 1)'
  BY <1>14, <1>15 DEF BootAt
<1>17. MemoryType'
  BY <1>3, <1>4, <1>14 DEF MemoryType, tables
<1>18. Proceed /\ UNCHANGED <<cs, regs>>
  BY DEF Outb
<1>19. k \in 1 .. 38 /\ k \notin {10, 11, 37}
  BY <1>3
<1> QED BY <1>1, <1>2, <1>16, <1>17, <1>18, <1>19, MainProceeds

(* The masks read at the beginning are written back. *)
LEMMA RestoreMaskStep == IInv /\ RestoreMask => IInv'
<1> SUFFICES ASSUME IInv, RestoreMask PROVE IInv'
  OBVIOUS
<1>1. eip.r = "main"
  BY WhoExecutes DEF RestoreMask, At
<1>2. PICK k : k = eip.k
  OBVIOUS
<1>3. k \in {35, 36} /\ MemoryType /\ BootAt(k) /\ Instruction = loader_main[k]
  BY <1>1, <1>2, MainAt DEF Place, RestoreMask, At
<1>4. /\ TablesAt(k) /\ PicAt(k) /\ UNCHANGED <<tables, masks, mapped, raised, bios>>
      /\ pic' = [pic EXCEPT ![Instruction.v] = WriteData(pic[Instruction.v], masks[Instruction.v])]
  BY <1>3 DEF BootAt, RestoreMask
<1>5. /\ pic \in [Chips -> ChipState] /\ "master" \in Chips /\ "slave" \in Chips
      /\ pic["master"] \in ChipState /\ pic["slave"] \in ChipState
      /\ bios["master"] \in 0 .. 255 /\ bios["slave"] \in 0 .. 255
  BY <1>3 DEF MemoryType, Chips
<1>6. masks["master"] = bios["master"] /\ masks["slave"] = bios["slave"]
  BY <1>3, <1>4 DEF PicAt
<1> DEFINE m == pic["master"]
           s == pic["slave"]
           bm == bios["master"]
           bs == bios["slave"]
           Done == PicAt(k + 1)' /\ pic' \in [Chips -> ChipState]
<1>7. WriteData(m, bm) \in ChipState /\ WriteData(s, bs) \in ChipState
  BY <1>5, DataWritten
<1>8. ASSUME k = 35
      PROVE  Done
  <2>1. Instruction.v = "master"
    <3>1. Instruction = Arg("restore", "master")
      BY <1>3, <1>8, MainCode
    <3> QED BY <3>1, OpNames
  <2>2. pic' = [pic EXCEPT !["master"] = WriteData(m, bm)]
    BY <1>4, <1>6, <2>1
  <2>3. ChipAt(m, bm, 35, 32, 4)
    BY <1>4, <1>8 DEF PicAt
  <2>4. ChipAt(WriteData(m, bm), bm, 36, 32, 4)
    BY <1>5, <2>3, ChipWrites
  <2>5. pic' \in [Chips -> ChipState] /\ pic'["master"] = WriteData(m, bm) /\ pic'["slave"] = s
    BY <1>5, <1>7, <2>2
  <2> QED BY <1>4, <1>8, <2>4, <2>5, MasterWritten
<1>9. ASSUME k = 36
      PROVE  Done
  <2>1. Instruction.v = "slave"
    <3>1. Instruction = Arg("restore", "slave")
      BY <1>3, <1>9, MainCode
    <3> QED BY <3>1, OpNames
  <2>2. pic' = [pic EXCEPT !["slave"] = WriteData(s, bs)]
    BY <1>4, <1>6, <2>1
  <2>3. ChipAt(s, bs, 36 - 1, 40, 2)
    BY <1>4, <1>9 DEF PicAt
  <2>4. ChipAt(s, bs, 35, 40, 2)
    BY <2>3
  <2>5. ChipAt(WriteData(s, bs), bs, 36, 40, 2)
    BY <1>5, <2>4, ChipWrites
  <2>6. pic' \in [Chips -> ChipState] /\ pic'["slave"] = WriteData(s, bs) /\ pic'["master"] = m
    BY <1>5, <1>7, <2>2
  <2> QED BY <1>4, <1>9, <2>5, <2>6, SlaveWritten
<1>10. Done
  BY <1>3, <1>8, <1>9
<1>11. TablesAt(k + 1)'
  BY <1>3, <1>4, TablesStay
<1>12. BootAt(k + 1)'
  BY <1>10, <1>11 DEF BootAt
<1>13. MemoryType'
  BY <1>3, <1>4, <1>10 DEF MemoryType, tables
<1>14. Proceed /\ UNCHANGED <<cs, regs>>
  BY DEF RestoreMask
<1>15. k \in 1 .. 38 /\ k \notin {10, 11, 37}
  BY <1>3
<1> QED BY <1>1, <1>2, <1>12, <1>13, <1>14, <1>15, MainProceeds

(* The state of a handler. *)
LEMMA InTheHandler ==
    ASSUME IInv, eip.r \in LiveHandlers
    PROVE  /\ \E k \in {7, 38, 39}, w \in {0, 1} : Leaves(eip.r, k, w) /\ HandlerAt(k, w)
           /\ CpuType /\ MemoryType
  BY DEF IInv, InHandler

(* What is true of a handler after a step that touches its processor alone. *)
LEMMA HandlerKeeps ==
    ASSUME IInv, NEW k, BootAt(k), UNCHANGED <<tables, Outside>>
    PROVE  BootAt(k)' /\ MemoryType'
<1>1. BootAt(k)'
  BY BootKept DEF Outside
<1>2. MemoryType'
  BY DEF IInv, MemoryType, Outside, tables
<1> QED BY <1>1, <1>2

(* SAVE_ALL. *)
LEMMA SaveStep == IInv /\ Save => IInv'
<1> SUFFICES ASSUME IInv, Save PROVE IInv'
  OBVIOUS
<1>1. eip.r \in LiveHandlers /\ At("SAVE_ALL") /\ ~At("iretd")
  BY WhoExecutes DEF Save, At
<1>2. PICK k \in {7, 38, 39}, w \in {0, 1} : Leaves(eip.r, k, w) /\ HandlerAt(k, w)
  BY <1>1, InTheHandler
<1>3. CpuType /\ BootAt(k) /\ cs = MainCs(k) /\ stack = Pushed(k, w) /\ regs = MainRegs(k)
  BY <1>1, <1>2, InTheHandler DEF HandlerAt
<1>4. ~IFlag
  BY <1>1, <1>2 DEF HandlerAt
<1>5. /\ stack' = [i \in DOMAIN SAVE_ALL |-> <<"reg", regs[Reverse(SAVE_ALL)[i]]>>] \o stack
      /\ eip' = NextIp /\ cs' = cs /\ regs' = regs /\ UNCHANGED <<tables, Outside>>
  BY DEF Save
<1>6. IFlag' = IFlag /\ shadow' = FALSE
  BY DEF Save
<1>7. BootAt(k)' /\ MemoryType'
  BY <1>3, <1>5, HandlerKeeps
<1>8. Instruction'.op \in {"printf", "RESTORE_ALL"}
  BY <1>1, <1>3, <1>5, NextOp
<1>9. stack' = Saved(k) \o Pushed(k, w)
  BY <1>3, <1>5 DEF Saved
<1>10. HandlerAt(k, w)'
  BY <1>3, <1>4, <1>5, <1>6, <1>7, <1>8, <1>9 DEF HandlerAt, At
<1>11. DOMAIN regs' = Registers
  BY <1>3, <1>5 DEF CpuType
<1>12. IFlag' \in BOOLEAN /\ shadow' \in BOOLEAN
  BY <1>3, <1>6 DEF CpuType
<1> QED BY <1>1, <1>2, <1>3, <1>5, <1>7, <1>10, <1>11, <1>12, HandlerNext

(* RESTORE_ALL gives the boot thread's registers back. *)
LEMMA RestoreStep == IInv /\ Restore => IInv'
<1> SUFFICES ASSUME IInv, Restore PROVE IInv'
  OBVIOUS
<1>1. eip.r \in LiveHandlers /\ At("RESTORE_ALL") /\ ~At("iretd")
  BY WhoExecutes DEF Restore, At
<1>2. PICK k \in {7, 38, 39}, w \in {0, 1} : Leaves(eip.r, k, w) /\ HandlerAt(k, w)
  BY <1>1, InTheHandler
<1>3. CpuType /\ BootAt(k) /\ cs = MainCs(k) /\ stack = Saved(k) \o Pushed(k, w)
  BY <1>1, <1>2, InTheHandler DEF HandlerAt
<1>4. ~IFlag
  BY <1>1, <1>2 DEF HandlerAt
<1>9. \E n \in Nat : Tuple(Pushed(k, w), n)
  <2>1. k \in Nat /\ 3 \in Nat /\ 4 \in Nat
    OBVIOUS
  <2>2. Tuple(Pushed(k, 0), 3) /\ Tuple(Pushed(k, 1), 4)
    BY <2>1, PushedParts
  <2> QED BY <2>1, <2>2
<1>17. [r \in Registers |-> Popped(r)] = MainRegs(k)
       /\ SubSeq(stack, Len(RESTORE_ALL) + 1, Len(stack)) = Pushed(k, w)
  <2>1. k \in Nat
    OBVIOUS
  <2>2. PICK n \in Nat : Tuple(Pushed(k, w), n)
    BY <1>9
  <2>3. /\ [r \in Registers |->
              LET i == CHOOSE i \in DOMAIN RESTORE_ALL : RESTORE_ALL[i] = r
              IN  (Saved(k) \o Pushed(k, w))[i][2]] = MainRegs(k)
        /\ SubSeq(Saved(k) \o Pushed(k, w), Len(RESTORE_ALL) + 1, Len(Saved(k) \o Pushed(k, w)))
             = Pushed(k, w)
    BY <2>1, <2>2, Restored
  <2> QED BY <1>3, <2>3 DEF Popped
<1>18. \A r \in {"es", "ds", "fs"} : Loadable(Popped(r))
  <2>1. \A r \in {"es", "ds", "fs"} : Popped(r) = MainRegs(k)[r]
    <3>1. {"es", "ds", "fs"} \subseteq Registers
      BY RestoreOrder
    <3>2. \A r \in Registers : [q \in Registers |-> Popped(q)][r] = Popped(r)
      OBVIOUS
    <3> QED BY <1>17, <3>1, <3>2
  <2>2. \A r \in {"es", "ds", "fs"} : MainRegs(k)[r] \in {0, 8, 16, 24, 32}
    BY RestoreOrder, InputAssumption DEF MainRegs
  <2>3. DOMAIN gdt = {8, 16, 24, 32}
    BY <1>3 DEF BootAt, TablesAt, HeadGdt, KernelGdt
  <2> QED BY <2>1, <2>2, <2>3 DEF Loadable
<1>5. /\ regs' = [r \in Registers |-> Popped(r)]
      /\ stack' = SubSeq(stack, Len(RESTORE_ALL) + 1, Len(stack))
      /\ eip' = NextIp /\ cs' = cs /\ UNCHANGED <<tables, Outside>>
      /\ IFlag' = IFlag /\ shadow' = FALSE
  BY <1>18 DEF Restore
<1>6. IFlag' = IFlag /\ shadow' = FALSE
  BY <1>5
<1>7. BootAt(k)' /\ MemoryType'
  BY <1>3, <1>5, HandlerKeeps
<1>8. Instruction'.op = After(eip.r)
  BY <1>1, <1>3, <1>5, NextOp
<1>10. regs' = MainRegs(k) /\ stack' = Pushed(k, w)
  BY <1>5, <1>17
<1>11. w = 0 => Pushed(k, w) = Frame(k) /\ Frame(k + w) = Frame(k)
  <2>1. Pushed(k, 0) = Frame(k)
    BY DEF Pushed
  <2>2. k + 0 = k
    OBVIOUS
  <2> QED BY <2>1, <2>2
<1>12. /\ After(eip.r) = "sti" => w = 0
       /\ After(eip.r) = "iretd" => w = 0 /\ eip.r \notin IrqHandlers
       /\ After(eip.r) \in {"sti", "iretd", "add_esp_4"}
  BY <1>2 DEF After, Leaves, IrqHandlers
<1>13. eip'.r = eip.r
  BY <1>3, <1>5 DEF NextIp, CpuType
<1>14. HandlerAt(k, w)'
  <2>1. CASE After(eip.r) = "sti"
    BY <1>3, <1>4, <1>5, <1>6, <1>7, <1>8, <1>10, <1>11, <1>12, <2>1 DEF HandlerAt, At
  <2>2. CASE After(eip.r) = "iretd"
    BY <1>3, <1>4, <1>5, <1>6, <1>7, <1>8, <1>10, <1>11, <1>12, <1>13, <2>2 DEF HandlerAt, At
  <2>3. CASE After(eip.r) = "add_esp_4"
    BY <1>3, <1>4, <1>5, <1>6, <1>7, <1>8, <1>10, <2>3 DEF HandlerAt, At
  <2> QED BY <1>12, <2>1, <2>2, <2>3
<1>15. DOMAIN regs' = Registers
  BY <1>10 DEF MainRegs
<1>16. IFlag' \in BOOLEAN /\ shadow' \in BOOLEAN
  BY <1>3, <1>6 DEF CpuType
<1> QED BY <1>1, <1>2, <1>3, <1>5, <1>7, <1>14, <1>15, <1>16, HandlerNext

(* add esp, 4 *)
LEMMA SkipErrorCodeStep == IInv /\ SkipErrorCode => IInv'
<1> SUFFICES ASSUME IInv, SkipErrorCode PROVE IInv'
  OBVIOUS
<1>1. eip.r \in LiveHandlers /\ At("add_esp_4") /\ ~At("iretd")
  BY WhoExecutes DEF SkipErrorCode, At
<1>2. PICK k \in {7, 38, 39}, w \in {0, 1} : Leaves(eip.r, k, w) /\ HandlerAt(k, w)
  BY <1>1, InTheHandler
<1>3. CpuType /\ BootAt(k) /\ cs = MainCs(k) /\ stack = Pushed(k, w) /\ regs = MainRegs(k)
  BY <1>1, <1>2, InTheHandler DEF HandlerAt
<1>4. ~IFlag
  BY <1>1, <1>2 DEF HandlerAt
<1>5. /\ stack' = Tail(stack) /\ eip' = NextIp /\ cs' = cs /\ regs' = regs
      /\ UNCHANGED <<tables, Outside>>
  BY DEF SkipErrorCode
<1>6. IFlag' = IFlag /\ shadow' = FALSE
  BY DEF SkipErrorCode
<1>7. BootAt(k)' /\ MemoryType'
  BY <1>3, <1>5, HandlerKeeps
<1>8. eip.r = "_test_page_fault" /\ Instruction'.op = "add_at_esp_0xA"
  BY <1>1, <1>3, <1>5, NextOp
<1>9. w = 1 /\ k \in Nat
  BY <1>2, <1>8 DEF Leaves, IrqHandlers
<1>10. stack' = Frame(k)
  BY <1>3, <1>5, <1>9, PushedParts
<1>11. HandlerAt(k, w)'
  BY <1>3, <1>4, <1>5, <1>6, <1>7, <1>8, <1>10 DEF HandlerAt, At
<1>12. DOMAIN regs' = Registers
  BY <1>3, <1>5 DEF CpuType
<1>13. IFlag' \in BOOLEAN /\ shadow' \in BOOLEAN
  BY <1>3, <1>6 DEF CpuType
<1> QED BY <1>1, <1>2, <1>3, <1>5, <1>7, <1>11, <1>12, <1>13, HandlerNext

(* A triple, taken apart and put together. *)
LEMMA TailOfTriple ==
    ASSUME NEW a, NEW b, NEW c
    PROVE  Tail(<<a, b, c>>) = <<b, c>>
  OBVIOUS

(* A tuple of one and a tuple of two, joined. *)
LEMMA ThreeJoined ==
    ASSUME NEW a, NEW b, NEW c
    PROVE  <<a>> \o <<b, c>> = <<a, b, c>>
<1>1. PICK r : Join(r, <<a>>, <<b, c>>)
  BY DEF Join
<1>2. Tuple(<<a>>, 1) /\ Tuple(<<b, c>>, 2) /\ 1 \in Nat /\ 2 \in Nat
  BY DEF Tuple
<1>3. Joins(r, <<a>>, <<b, c>>, 1, 2)
  BY <1>1, <1>2, Joined
<1>4. r = [i \in 1 .. 3 |-> r[i]]
  BY <1>3 DEF Joins, Tuple
<1>5. r[1] = a /\ r[2] = b /\ r[3] = c
  <2>1. r[1] = <<a>>[1] /\ r[1 + 1] = <<b, c>>[1] /\ r[2 + 1] = <<b, c>>[2]
    BY <1>3 DEF Joins
  <2>2. 1 + 1 = 2 /\ 2 + 1 = 3
    OBVIOUS
  <2> QED BY <2>1, <2>2
<1>6. <<a, b, c>> = [i \in 1 .. 3 |-> <<a, b, c>>[i]]
  OBVIOUS
<1>7. \A i \in 1 .. 3 : r[i] = <<a, b, c>>[i]
  BY <1>5
<1>8. r = <<a, b, c>>
  BY <1>4, <1>6, <1>7
<1> QED BY <1>1, <1>8 DEF Join

(* add [esp], 0xA: the frame of the boot thread's next instruction. *)
LEMMA NextFrame ==
    << <<Frame(7)[1][1], [Frame(7)[1][2] EXCEPT !.k = @ + 1]>> >> \o Tail(Frame(7)) = Frame(8)
<1>1. /\ Frame(7) = << <<"eip", [r |-> "main", k |-> 7]>>, <<"cs", 16>>, <<"flags", FALSE>> >>
      /\ Frame(8) = << <<"eip", [r |-> "main", k |-> 8]>>, <<"cs", 16>>, <<"flags", FALSE>> >>
  BY DEF Frame, MainCs, MainFlag
<1>2. Tail(Frame(7)) = << <<"cs", 16>>, <<"flags", FALSE>> >>
  <2>1. PICK a, b, c : Frame(7) = <<a, b, c>> /\ b = <<"cs", 16>> /\ c = <<"flags", FALSE>>
    BY <1>1
  <2>2. Tail(<<a, b, c>>) = <<b, c>>
    BY TailOfTriple
  <2> QED BY <2>1, <2>2
<1>3. Frame(7)[1][1] = "eip" /\ [Frame(7)[1][2] EXCEPT !.k = @ + 1] = [r |-> "main", k |-> 8]
  BY <1>1
<1>4. <<Frame(7)[1][1], [Frame(7)[1][2] EXCEPT !.k = @ + 1]>>
        = <<"eip", [r |-> "main", k |-> 8]>>
  BY <1>3
<1>5. << <<"eip", [r |-> "main", k |-> 8]>> >> \o << <<"cs", 16>>, <<"flags", FALSE>> >>
        = << <<"eip", [r |-> "main", k |-> 8]>>, <<"cs", 16>>, <<"flags", FALSE>> >>
  BY ThreeJoined
<1> QED BY <1>1, <1>2, <1>4, <1>5

(* add [esp], 0xA: the handler will return behind the store that faulted. *)
LEMMA SkipInstructionStep == IInv /\ SkipInstruction => IInv'
<1> SUFFICES ASSUME IInv, SkipInstruction PROVE IInv'
  OBVIOUS
<1>1. eip.r \in LiveHandlers /\ At("add_at_esp_0xA") /\ ~At("iretd")
  BY WhoExecutes DEF SkipInstruction, At
<1>2. PICK k \in {7, 38, 39}, w \in {0, 1} : Leaves(eip.r, k, w) /\ HandlerAt(k, w)
  BY <1>1, InTheHandler
<1>3. CpuType /\ BootAt(k) /\ cs = MainCs(k) /\ stack = Frame(k) /\ regs = MainRegs(k)
  BY <1>1, <1>2, InTheHandler DEF HandlerAt
<1>4. ~IFlag
  BY <1>1, <1>2 DEF HandlerAt
<1>5. /\ stack' = << <<stack[1][1], [stack[1][2] EXCEPT !.k = @ + 1]>> >> \o Tail(stack)
      /\ eip' = NextIp /\ cs' = cs /\ regs' = regs
      /\ UNCHANGED <<tables, Outside>>
  BY DEF SkipInstruction
<1>6. IFlag' = IFlag /\ shadow' = FALSE
  BY DEF SkipInstruction
<1>7. BootAt(k)' /\ MemoryType'
  BY <1>3, <1>5, HandlerKeeps
<1>8. eip.r = "_test_page_fault" /\ Instruction'.op = "iretd"
  BY <1>1, <1>3, <1>5, NextOp
<1>9. w = 1 /\ k = 7 /\ eip.r \notin IrqHandlers
  BY <1>2, <1>8 DEF Leaves, IrqHandlers
<1>10. stack' = Frame(k + w)
  <2>1. stack' = Frame(8)
    BY <1>3, <1>5, <1>9, NextFrame
  <2>2. 7 + 1 = 8
    OBVIOUS
  <2> QED BY <1>9, <2>1, <2>2
<1>11. eip'.r = eip.r
  BY <1>3, <1>5 DEF NextIp, CpuType
<1>12. HandlerAt(k, w)'
  BY <1>3, <1>4, <1>5, <1>6, <1>7, <1>8, <1>9, <1>10, <1>11 DEF HandlerAt, At
<1>13. DOMAIN regs' = Registers
  BY <1>3, <1>5 DEF CpuType
<1>14. IFlag' \in BOOLEAN /\ shadow' \in BOOLEAN
  BY <1>3, <1>6 DEF CpuType
<1> QED BY <1>1, <1>2, <1>3, <1>5, <1>7, <1>12, <1>13, <1>14, HandlerNext

(* sti, of the boot thread or of a handler. *)
LEMMA StiStep == IInv /\ Sti => IInv'
<1> SUFFICES ASSUME IInv, Sti PROVE IInv'
  OBVIOUS
<1>1. /\ eip' = NextIp /\ cs' = cs /\ stack' = stack /\ regs' = regs
      /\ UNCHANGED <<tables, Outside>>
  BY DEF Sti
<1>2. IFlag' = TRUE /\ shadow' = ~IFlag
  BY DEF Sti
<1>3. IFlag' \in BOOLEAN /\ shadow' \in BOOLEAN
  BY <1>2
<1>4. CASE eip.r = "main"
  <2>1. PICK k : k = eip.k
    OBVIOUS
  <2>2. /\ k = 37 /\ CpuType /\ BootAt(k)
        /\ cs = MainCs(k) /\ regs = MainRegs(k) /\ stack = <<>>
    BY <1>4, <2>1, MainAt DEF Place, Sti, At
  <2>3. 37 \in 1 .. 38
    OBVIOUS
  <2>4. MainCs(37 + 1) = MainCs(37) /\ MainRegs(37 + 1) = MainRegs(37)
    BY DEF MainCs, MainRegs
  <2>5. MainFlag(37 + 1) = TRUE
    BY DEF MainFlag
  <2>6. MemoryType'
    BY <1>1, <2>2, HandlerKeeps
  <2>7. TablesAt(37 + 1)' /\ PicAt(37 + 1)'
    BY <1>1, <2>2, TablesStay, PicStays DEF BootAt, Outside
  <2>8. BootAt(37 + 1)'
    BY <2>7 DEF BootAt
  <2>9. cs' = MainCs(37 + 1) /\ regs' = MainRegs(37 + 1) /\ stack' = <<>>
    BY <1>1, <2>2, <2>4
  <2>10. IFlag' = MainFlag(37 + 1)
    BY <1>2, <2>5
  <2>11. eip.k = 37 /\ eip' = NextIp /\ CpuType
    BY <1>1, <2>1, <2>2
  <2> QED BY <1>3, <1>4, <2>3, <2>6, <2>8, <2>9, <2>10, <2>11, MainNext
<1>5. CASE eip.r \in LiveHandlers
  <2>1. At("sti") /\ ~At("iretd")
    BY DEF Sti, At
  <2>2. PICK k \in {7, 38, 39}, w \in {0, 1} : Leaves(eip.r, k, w) /\ HandlerAt(k, w)
    BY <1>5, InTheHandler
  <2>3. CpuType /\ BootAt(k) /\ cs = MainCs(k) /\ stack = Frame(k) /\ regs = MainRegs(k)
    BY <1>5, <2>1, <2>2, InTheHandler DEF HandlerAt
  <2>4. ~IFlag
    BY <2>1, <2>2 DEF HandlerAt
  <2>5. IFlag' /\ shadow'
    BY <1>2, <2>4
  <2>6. BootAt(k)' /\ MemoryType'
    BY <1>1, <2>3, HandlerKeeps
  <2>7. eip.r \in IrqHandlers /\ Instruction'.op = "iretd"
    BY <1>1, <1>5, <2>1, <2>3, NextOp
  <2>8. k + w = k
    BY <2>2, <2>7 DEF Leaves, IrqHandlers
  <2>9. eip'.r = eip.r
    BY <1>1, <2>3 DEF NextIp, CpuType
  <2>10. HandlerAt(k, w)'
    BY <1>1, <2>3, <2>5, <2>6, <2>7, <2>8, <2>9 DEF HandlerAt, At
  <2>11. DOMAIN regs' = Registers
    BY <1>1, <2>3 DEF CpuType
  <2> QED BY <1>1, <1>3, <1>5, <2>1, <2>2, <2>3, <2>6, <2>10, <2>11, HandlerNext
<1> QED BY <1>4, <1>5, WhoExecutes

(* The fourth word of a frame. *)
LEMMA NothingBelow ==
    ASSUME NEW k \in Nat
    PROVE  Len(Frame(k)) = 3 /\ SubSeq(Frame(k), 4, Len(Frame(k))) = <<>>
<1>1. PICK a, b, c : Frame(k) = <<a, b, c>>
  BY DEF Frame
<1>2. <<a, b, c>> \in Seq({a, b, c}) /\ Len(<<a, b, c>>) = 3
  OBVIOUS
<1>3. SubSeq(<<a, b, c>>, 4, 3) = <<>>
  BY <1>2, SubSeqEmpty
<1> QED BY <1>1, <1>2, <1>3

(* A code selector of the boot thread names a code segment. *)
LEMMA CodeSegment ==
    ASSUME NEW k \in {7, 8, 38, 39}, NEW j \in {7, 38, 39}, BootAt(j), MainCs(j) = MainCs(k)
    PROVE  gdt[MainCs(k)] = "code"
<1>1. gdt = IF j <= 9 THEN HeadGdt ELSE KernelGdt
  BY DEF BootAt, TablesAt
<1>2. MainCs(7) = 16 /\ MainCs(38) = 8 /\ MainCs(39) = 8
  BY DEF MainCs
<1>3. HeadGdt[16] = "code" /\ KernelGdt[8] = "code"
  BY DEF HeadGdt, KernelGdt
<1>4. CASE j = 7
  BY <1>1, <1>2, <1>3, <1>4
<1>5. CASE j = 38
  BY <1>1, <1>2, <1>3, <1>5
<1>6. CASE j = 39
  BY <1>1, <1>2, <1>3, <1>6
<1> QED BY <1>4, <1>5, <1>6

(* Where a handler returns to, the boot thread's state is as it was left. *)
LEMMA ReturnPlace ==
    ASSUME NEW r, NEW k \in {7, 38, 39}, NEW w \in {0, 1}, Leaves(r, k, w), BootAt(k),
           UNCHANGED <<tables, Outside>>
    PROVE  /\ k + w \in {7, 8, 38, 39}
           /\ MainCs(k + w) = MainCs(k) /\ MainRegs(k + w) = MainRegs(k)
           /\ BootAt(k + w)'
<1>1. CASE w = 0
  <2>1. k + w = k
    BY <1>1
  <2>2. BootAt(k)'
    BY BootKept DEF Outside
  <2> QED BY <2>1, <2>2
<1>2. CASE w = 1
  <2>1. k = 7
    BY <1>2 DEF Leaves
  <2>2. TablesAt(7 + 1)' /\ PicAt(7 + 1)'
    BY <2>1, TablesStay, PicStays DEF BootAt, Outside
  <2>3. MainCs(7 + 1) = MainCs(7) /\ MainRegs(7 + 1) = MainRegs(7)
    BY DEF MainCs, MainRegs
  <2>4. 7 + 1 = 8
    OBVIOUS
  <2>5. BootAt(7 + 1)'
    BY <2>2 DEF BootAt
  <2> QED BY <1>2, <2>1, <2>3, <2>4, <2>5
<1> QED BY <1>1, <1>2

(* iretd leaves the handler for the boot thread. *)
LEMMA IretdStep == IInv /\ Iretd => IInv'
<1> SUFFICES ASSUME IInv, Iretd PROVE IInv'
  OBVIOUS
<1>1. eip.r \in LiveHandlers /\ At("iretd")
  BY WhoExecutes DEF Iretd, At
<1>2. PICK k \in {7, 38, 39}, w \in {0, 1} : Leaves(eip.r, k, w) /\ HandlerAt(k, w)
  BY <1>1, InTheHandler
<1>3. CpuType /\ MemoryType /\ BootAt(k) /\ cs = MainCs(k) /\ stack = Frame(k + w)
      /\ regs = MainRegs(k)
  BY <1>1, <1>2, InTheHandler DEF HandlerAt
<1>4. UNCHANGED <<regs, tables, Outside>>
  BY DEF Iretd
<1>5. PICK n : n = k + w
  OBVIOUS
<1>6. /\ n \in {7, 8, 38, 39} /\ MainCs(n) = MainCs(k) /\ MainRegs(n) = MainRegs(k)
      /\ BootAt(n)'
  BY <1>2, <1>3, <1>4, <1>5, ReturnPlace
<1>7. n \in Nat /\ n \in 1 .. 39 /\ stack = Frame(n)
  BY <1>3, <1>5, <1>6
<1>8. /\ stack[1] = <<"eip", [r |-> "main", k |-> n]>>
      /\ stack[2] = <<"cs", MainCs(n)>> /\ stack[3] = <<"flags", MainFlag(n)>>
      /\ Len(stack) = 3 /\ SubSeq(stack, 4, Len(stack)) = <<>>
  BY <1>7, FrameParts, NothingBelow
<1>9. FrameOnTop /\ gdt[stack[2][2]] = "code"
  <2>1. gdt[MainCs(n)] = "code"
    BY <1>3, <1>6, CodeSegment
  <2> QED BY <1>8, <2>1 DEF FrameOnTop
<1>10. /\ eip' = [r |-> "main", k |-> n] /\ cs' = MainCs(n) /\ stack' = <<>>
  BY <1>8, <1>9 DEF Iretd
<1>11. IFlag' = MainFlag(n)
  <2>1. IFlag' = stack[3][2]
    BY <1>9 DEF Iretd
  <2>2. stack[3][2] = MainFlag(n)
    BY <1>8
  <2> QED BY <2>1, <2>2
<1>12. shadow' \in BOOLEAN
  BY DEF Iretd
<1>13. MemoryType'
  BY <1>3, <1>4 DEF MemoryType, Outside, tables
<1>14. regs' = MainRegs(n)
  BY <1>3, <1>4, <1>6
<1>15. CpuType'
  <2>1. DOMAIN Program["main"] = 1 .. 39
    BY Routines, MainParts DEF Tuple
  <2>2. IFlag' \in BOOLEAN
    BY <1>11 DEF MainFlag
  <2>3. DOMAIN regs' = Registers
    BY <1>14 DEF MainRegs
  <2> QED BY <1>7, <1>10, <1>12, <2>1, <2>2, <2>3 DEF CpuType
<1>16. InMain'
  <2>1. eip'.r = "main" /\ eip'.k = n
    BY <1>10
  <2> QED BY <1>6, <1>7, <1>10, <1>11, <1>14, <2>1 DEF InMain
<1>17. InHandler'
  BY <1>10 DEF InHandler, LiveHandlers, IrqHandlers
<1> QED BY <1>13, <1>15, <1>16, <1>17 DEF IInv

-----------------------------------------------------------------------------
(* Devices and interrupts. *)

(* The controllers' settings matter, not what is requested or in service. *)
LEMMA PicSame ==
    ASSUME NEW k \in Int, PicAt(k), UNCHANGED <<masks, bios>>,
           SameSetting(pic["master"], pic'["master"]), SameSetting(pic["slave"], pic'["slave"])
    PROVE  PicAt(k)'
<1>1. ChipAt(pic["master"], bios["master"], k, 32, 4) /\ ChipAt(pic["slave"], bios["slave"], k - 1, 40, 2)
  BY DEF PicAt
<1>2. ChipAt(pic'["master"], bios["master"], k, 32, 4)
  BY <1>1, ChipSame
<1>3. ChipAt(pic'["slave"], bios["slave"], k - 1, 40, 2)
  <2>1. k - 1 \in Int
    OBVIOUS
  <2> QED BY <1>1, <2>1, ChipSame
<1> QED BY <1>2, <1>3 DEF PicAt

(* A step that leaves the processor alone. *)
LEMMA CpuKept ==
    ASSUME IInv, UNCHANGED cpu, MemoryType', \A k \in 1 .. 39 : BootAt(k) => BootAt(k)'
    PROVE  IInv'
<1>1. CpuType /\ InMain /\ InHandler
  BY DEF IInv
<1>2. eip' = eip /\ cs' = cs /\ regs' = regs /\ stack' = stack
  BY DEF cpu
<1>3. IFlag' = IFlag /\ shadow' = shadow
  BY DEF cpu
<1>4. CpuType'
  <2>1. IFlag' \in BOOLEAN /\ shadow' \in BOOLEAN
    BY <1>1, <1>3 DEF CpuType
  <2> QED BY <1>1, <1>2, <2>1 DEF CpuType
<1>5. InMain'
  BY <1>1, <1>2, <1>3 DEF InMain
<1>6. InHandler'
  <2> SUFFICES ASSUME eip'.r \in LiveHandlers
               PROVE  \E k \in {7, 38, 39}, w \in {0, 1} :
                        Leaves(eip'.r, k, w) /\ HandlerAt(k, w)'
    BY DEF InHandler
  <2>1. PICK k \in {7, 38, 39}, w \in {0, 1} : Leaves(eip.r, k, w) /\ HandlerAt(k, w)
    BY <1>1, <1>2 DEF InHandler
  <2>2. BootAt(k)'
    BY <2>1 DEF HandlerAt
  <2>3. \A o : At(o)' <=> At(o)
    BY <1>2 DEF At, Instruction
  <2>4. HandlerAt(k, w)'
    BY <1>2, <1>3, <2>1, <2>2, <2>3 DEF HandlerAt
  <2> QED BY <1>2, <2>1, <2>4
<1> QED BY <1>4, <1>5, <1>6 DEF IInv

(* A device requests an interrupt. *)
LEMMA RequestStep ==
    ASSUME IInv, NEW d \in Devices, Request(d)
    PROVE  IInv'
<1>1. /\ raised[d] < MaxRaised /\ raised' = [raised EXCEPT ![d] = @ + 1]
      /\ pic' = [pic EXCEPT ![d[1]].irr = @ \cup {d[2]}]
      /\ UNCHANGED <<cpu, tables, masks, mapped, bios>>
  BY DEF Request
<1>2. MemoryType
  BY DEF IInv
<1>3. d[1] \in Chips /\ d[2] \in Lines
  BY InputAssumption DEF Chips
<1>4. pic \in [Chips -> ChipState]
  BY <1>2 DEF MemoryType
<1>5. PICK p : p = pic[d[1]]
  OBVIOUS
<1>6. p \in ChipState
  BY <1>3, <1>4, <1>5
<1>7. PICK q : q = [p EXCEPT !.irr = @ \cup {d[2]}]
  OBVIOUS
<1>8. q \in ChipState /\ SameSetting(p, q)
  BY <1>3, <1>6, <1>7 DEF ChipState, SameSetting
<1>9. pic' = [pic EXCEPT ![d[1]] = q]
  BY <1>1, <1>3, <1>4, <1>5, <1>7
<1>10. pic' \in [Chips -> ChipState]
  BY <1>3, <1>4, <1>8, <1>9
<1>11. \A c \in Chips : SameSetting(pic[c], pic'[c])
  <2>1. TAKE c \in Chips
  <2>2. pic'[c] = IF c = d[1] THEN q ELSE pic[c]
    BY <1>3, <1>4, <1>9
  <2>3. SameSetting(pic[c], pic[c])
    BY DEF SameSetting
  <2> QED BY <1>5, <1>8, <2>2, <2>3
<1>12. raised' \in [Devices -> 0 .. MaxRaised]
  BY <1>1, <1>2, InputAssumption DEF MemoryType
<1>13. MemoryType'
  BY <1>1, <1>2, <1>10, <1>12 DEF MemoryType, tables
<1>14. ASSUME NEW k \in 1 .. 39, BootAt(k) PROVE BootAt(k)'
  <2>1. TablesAt(k)'
    BY <1>1, <1>14 DEF BootAt, TablesAt, tables
  <2>2. PicAt(k)'
    <3>1. SameSetting(pic["master"], pic'["master"]) /\ SameSetting(pic["slave"], pic'["slave"])
      BY <1>11 DEF Chips
    <3>2. PicAt(k) /\ k \in Int
      BY <1>14 DEF BootAt
    <3> QED BY <1>1, <3>1, <3>2, PicSame
  <2> QED BY <2>1, <2>2 DEF BootAt
<1> QED BY <1>1, <1>13, <1>14, CpuKept

(* Once interrupts are enabled, each vector of the controllers has its gate. *)
LEMMA IrqGate ==
    ASSUME NEW k \in {38, 39}, BootAt(k), NEW v \in 32 .. 47
    PROVE  /\ HasGate(v) /\ idt[v].type = "intr" /\ idt[v].cs = 8
           /\ idt[v].handler \in IrqHandlers
<1>1. TablesAt(k) /\ k > 23 /\ k > 22 /\ k > 21 /\ k > 9 /\ k > 5
  BY DEF BootAt
<1>2. /\ gdt = KernelGdt /\ idtr
      /\ idt[32] = IntrGate("clockirq") /\ idt[33] = IntrGate("kbdirq")
      /\ \A u \in 34 .. 47 : idt[u] = IntrGate("common_irq")
  BY <1>1 DEF TablesAt
<1>3. PICK h \in IrqHandlers : idt[v] = IntrGate(h)
  <2>1. v = 32 \/ v = 33 \/ v \in 34 .. 47
    OBVIOUS
  <2>2. CASE v = 32
    BY <1>2, <2>2 DEF IrqHandlers
  <2>3. CASE v = 33
    BY <1>2, <2>3 DEF IrqHandlers
  <2>4. CASE v \in 34 .. 47
    BY <1>2, <2>4 DEF IrqHandlers
  <2> QED BY <2>1, <2>2, <2>3, <2>4
<1>4. idt[v].type = "intr" /\ idt[v].cs = 8 /\ idt[v].handler = h
  BY <1>3 DEF IntrGate, KERNEL_CS
<1>5. gdt[8] = "code"
  BY <1>2 DEF KernelGdt
<1>6. v * 8 + 7 <= 255 * 8 - 1
  OBVIOUS
<1>7. HasGate(v)
  BY <1>2, <1>4, <1>5, <1>6 DEF HasGate
<1> QED BY <1>4, <1>7

(* The controllers once interrupts are enabled. *)
LEMMA PicReady ==
    ASSUME NEW k \in {38, 39}, PicAt(k)
    PROVE  /\ \A c \in Chips : pic[c].expect = 0 /\ pic[c].aeoi /\ pic[c].imr = bios[c]
           /\ pic["master"].base = 32 /\ pic["slave"].base = 40
           /\ pic["master"].icw3 = 4 /\ pic["slave"].icw3 = 2
<1>1. ChipAt(pic["master"], bios["master"], k, 32, 4) /\ ChipAt(pic["slave"], bios["slave"], k - 1, 40, 2)
  BY DEF PicAt
<1>2. /\ pic["master"].expect = 0 /\ pic["master"].aeoi /\ pic["master"].imr = bios["master"]
      /\ pic["master"].base = 32 /\ pic["master"].icw3 = 4
  BY <1>1 DEF ChipAt
<1>3. /\ pic["slave"].expect = 0 /\ pic["slave"].aeoi /\ pic["slave"].imr = bios["slave"]
      /\ pic["slave"].base = 40 /\ pic["slave"].icw3 = 2
  BY <1>1 DEF ChipAt
<1> QED BY <1>2, <1>3 DEF Chips

(* Interrupts are taken from the boot thread only, and only in its loop's   *)
(* last two instructions: a handler that enabled them leaves at once.       *)
LEMMA InterruptedPlace ==
    ASSUME IInv, IFlag, ~shadow
    PROVE  eip.r = "main" /\ eip.k \in {38, 39}
<1>1. ~(eip.r \in LiveHandlers)
  <2> SUFFICES ASSUME eip.r \in LiveHandlers PROVE FALSE
    OBVIOUS
  <2>1. PICK k \in {7, 38, 39}, w \in {0, 1} : HandlerAt(k, w)
    BY InTheHandler
  <2> QED BY <2>1 DEF HandlerAt
<1>2. eip.r = "main"
  BY <1>1, WhoExecutes
<1>3. PICK k : k = eip.k
  OBVIOUS
<1>4. k \in 1 .. 39 /\ IFlag = MainFlag(k)
  BY <1>2, <1>3, MainAt
<1>5. MainFlag(k)
  BY <1>4
<1>6. k > 37
  BY <1>4, <1>5 DEF MainFlag
<1>7. k \in {38, 39}
  BY <1>4, <1>6
<1> QED BY <1>2, <1>3, <1>7

(* The processor takes an interrupt. *)
LEMMA InterruptStep == IInv /\ Interrupt => IInv'
<1> SUFFICES ASSUME IInv, Interrupt PROVE IInv'
  OBVIOUS
<1>1. IFlag /\ ~shadow
  BY DEF Interrupt
<1>2. PICK m : m = Cascaded(pic["master"], pic["slave"])
  OBVIOUS
<1>3. PICK a : a = Answer(m, pic["slave"])
  OBVIOUS
<1>4. /\ Requests(m) # {} /\ pic' = [master |-> a.master, slave |-> a.slave]
      /\ Deliver(a.vector, eip, <<>>) /\ UNCHANGED <<tables, masks, mapped, raised, bios>>
  BY <1>2, <1>3 DEF Interrupt
<1>5. PICK k : k = eip.k
  OBVIOUS
<1>6. eip.r = "main" /\ k \in {38, 39}
  BY <1>1, <1>5, InterruptedPlace
<1>7. /\ CpuType /\ MemoryType /\ BootAt(k)
      /\ cs = MainCs(k) /\ IFlag = MainFlag(k) /\ regs = MainRegs(k) /\ stack = <<>>
  BY <1>5, <1>6, MainAt
<1>8. pic["master"] \in ChipState /\ pic["slave"] \in ChipState
  BY <1>7 DEF MemoryType, Chips
<1>9. m \in ChipState /\ SameSetting(pic["master"], m)
  BY <1>2, <1>8, CascadedState
<1>10. m.base = 32 /\ pic["slave"].base = 40
  <2>1. pic["master"].base = 32 /\ pic["slave"].base = 40
    BY <1>6, <1>7, PicReady DEF BootAt
  <2> QED BY <1>9, <2>1 DEF SameSetting
<1>11. /\ a.master \in ChipState /\ SameSetting(m, a.master)
       /\ a.slave \in ChipState /\ SameSetting(pic["slave"], a.slave)
       /\ a.vector \in 32 .. 47
  BY <1>3, <1>4, <1>8, <1>9, <1>10, AnswerState
<1>12. PICK v \in 32 .. 47 : v = a.vector
  BY <1>11
<1>13. /\ HasGate(v) /\ idt[v].type = "intr" /\ idt[v].cs = 8
       /\ idt[v].handler \in IrqHandlers
  BY <1>6, <1>7, IrqGate
<1>14. Deliver(v, eip, <<>>)
  BY <1>4, <1>12
<1>15. /\ stack' = <<>> \o << <<"eip", eip>>, <<"cs", cs>>, <<"flags", IFlag>> >> \o stack
       /\ eip' = [r |-> idt[v].handler, k |-> 1]
       /\ cs' = idt[v].cs
       /\ IFlag' = (IF idt[v].type = "intr" THEN FALSE ELSE IFlag)
       /\ shadow' = FALSE
       /\ regs' = regs
  BY <1>13, <1>14, Delivered
<1>16. eip = [r |-> "main", k |-> k]
  BY <1>5, <1>6, <1>7 DEF CpuType
<1>17. stack' = Pushed(k, 0)
  <2>1. Frame(k) = << <<"eip", eip>>, <<"cs", cs>>, <<"flags", IFlag>> >>
    BY <1>7, <1>16 DEF Frame
  <2>2. stack' = <<>> \o Frame(k) \o <<>>
    BY <1>7, <1>15, <2>1
  <2>3. k \in Nat
    BY <1>6
  <2> QED BY <2>2, <2>3, Left
<1>18. cs' = MainCs(k) /\ regs' = MainRegs(k)
  BY <1>6, <1>7, <1>13, <1>15 DEF MainCs
<1>19. IFlag' = FALSE
  BY <1>13, <1>15
<1>20. shadow' \in BOOLEAN
  BY <1>15
<1>21. pic'["master"] = a.master /\ pic'["slave"] = a.slave /\ pic' \in [Chips -> ChipState]
  BY <1>4, <1>11 DEF Chips
<1>22. MemoryType'
  BY <1>4, <1>7, <1>21 DEF MemoryType, tables
<1>23. BootAt(k)'
  <2>1. TablesAt(k)'
    BY <1>4, <1>7 DEF BootAt, TablesAt, tables
  <2>2. SameSetting(pic["master"], pic'["master"]) /\ SameSetting(pic["slave"], pic'["slave"])
    BY <1>9, <1>11, <1>21 DEF SameSetting
  <2>3. k \in Int
    BY <1>6
  <2>4. PicAt(k)'
    BY <1>4, <1>7, <2>2, <2>3, PicSame DEF BootAt
  <2> QED BY <2>1, <2>4 DEF BootAt
<1>24. PICK h : h = idt[v].handler
  OBVIOUS
<1>25. Leaves(h, k, 0) /\ eip' = [r |-> h, k |-> 1]
  BY <1>6, <1>13, <1>15, <1>24 DEF Leaves
<1>26. k \in {7, 38, 39} /\ 0 \in {0, 1}
  BY <1>6
<1> QED BY <1>17, <1>18, <1>19, <1>20, <1>22, <1>23, <1>25, <1>26, HandlerEntered

-----------------------------------------------------------------------------
(* The theorems. *)

(* At the start the boot thread is before its first instruction, and the    *)
(* controllers are as the BIOS left them.                                   *)
LEMMA InitIInv == Init => IInv
<1> SUFFICES ASSUME Init PROVE IInv
  OBVIOUS
<1>1. /\ eip = [r |-> "main", k |-> 1] /\ cs = 16 /\ stack = <<>>
      /\ regs = [r \in Registers |-> IF r \in {"ds", "es"} THEN 24
                                     ELSE IF r = "fs" THEN BiosFs ELSE r]
      /\ gdt = HeadGdt /\ idt = [v \in Vectors |-> NoGate] /\ idt_cs = 0
      /\ pic = [master |-> BiosPic(8, 4, bios.master), slave |-> BiosPic(112, 2, bios.slave)]
      /\ masks = [master |-> 0, slave |-> 0]
      /\ raised = [d \in Devices |-> 0]
  BY DEF Init
<1>2. IFlag = FALSE /\ shadow = FALSE
  BY DEF Init
<1>3. idtr \in BOOLEAN /\ mapped \in BOOLEAN
  BY DEF Init
<1>4. bios \in [Chips -> 0 .. 255]
  <2>1. bios \in [master : 0 .. 255, slave : 0 .. 255]
    BY InputAssumption DEF Init
  <2> QED BY <2>1 DEF Chips
<1>5. BiosPic(8, 4, bios.master) \in ChipState /\ BiosPic(112, 2, bios.slave) \in ChipState
  BY <1>4 DEF BiosPic, ChipState, Chips, Lines
<1>6. pic \in [Chips -> ChipState]
  BY <1>1, <1>5 DEF Chips
<1>7. idt \in [Vectors -> GateState]
  BY <1>1 DEF NoGate, GateState
<1>8. masks \in [Chips -> 0 .. 255]
  BY <1>1 DEF Chips
<1>9. raised \in [Devices -> 0 .. MaxRaised]
  BY <1>1, InputAssumption
<1>10. MemoryType
  BY <1>3, <1>4, <1>6, <1>7, <1>8, <1>9 DEF MemoryType
<1>11. CpuType
  <2>1. 1 \in DOMAIN Program["main"]
    BY Routines, MainParts DEF Tuple
  <2>2. IFlag \in BOOLEAN /\ shadow \in BOOLEAN
    BY <1>2
  <2> QED BY <1>1, <2>1, <2>2 DEF CpuType
<1>12. TablesAt(1)
  BY <1>1 DEF TablesAt
<1>13. PicAt(1)
  <2>1. ChipAt(pic["master"], bios["master"], 1, 32, 4)
    BY <1>1 DEF ChipAt, BiosPic
  <2>2. ChipAt(pic["slave"], bios["slave"], 1 - 1, 40, 2)
    BY <1>1 DEF ChipAt, BiosPic
  <2> QED BY <2>1, <2>2 DEF PicAt
<1>14. InMain
  <2>1. /\ MainCs(1) = 16
        /\ MainRegs(1) = [r \in Registers |-> IF r \in {"ds", "es"} THEN 24
                                              ELSE IF r = "fs" THEN BiosFs ELSE r]
    BY DEF MainCs, MainRegs
  <2>2. IFlag = MainFlag(1)
    <3>1. MainFlag(1) = FALSE
      BY DEF MainFlag
    <3> QED BY <1>2, <3>1
  <2>3. eip.k = 1 /\ 1 \in 1 .. 39
    BY <1>1
  <2> QED BY <1>1, <1>12, <1>13, <2>1, <2>2, <2>3 DEF InMain, BootAt
<1>15. InHandler
  BY <1>1 DEF InHandler, LiveHandlers, IrqHandlers
<1> QED BY <1>10, <1>11, <1>14, <1>15 DEF IInv

(* A step that changes nothing. *)
LEMMA StutterStep == IInv /\ UNCHANGED vars => IInv'
<1> SUFFICES ASSUME IInv, UNCHANGED vars PROVE IInv'
  OBVIOUS
<1>1. UNCHANGED <<cpu, tables, Outside>>
  BY DEF vars, Outside
<1>2. MemoryType'
  BY <1>1 DEF IInv, MemoryType, tables, Outside
<1>3. \A k \in 1 .. 39 : BootAt(k) => BootAt(k)'
  BY <1>1, BootKept DEF Outside
<1> QED BY <1>1, <1>2, <1>3, CpuKept

(* Every step keeps the inductive invariant. *)
LEMMA NextIInv == IInv /\ [Next]_vars => IInv'
<1> SUFFICES ASSUME IInv, [Next]_vars PROVE IInv'
  OBVIOUS
<1>1. CASE SetIdtCs
  BY <1>1, SetIdtCsStep
<1>2. CASE SetGate
  BY <1>2, SetGateStep
<1>3. CASE Lidt
  BY <1>3, LidtStep
<1>4. CASE Int3
  BY <1>4, Int3Step
<1>5. CASE TestStore
  BY <1>5, TestStoreStep
<1>6. CASE Lgdt
  BY <1>6, LgdtStep
<1>7. CASE MovDs
  BY <1>7, MovDsStep
<1>8. CASE Retf
  BY <1>8, RetfStep
<1>9. CASE Printf
  BY <1>9, PrintfStep
<1>10. CASE ReadMask
  BY <1>10, ReadMaskStep
<1>11. CASE Outb
  BY <1>11, OutbStep
<1>12. CASE RestoreMask
  BY <1>12, RestoreMaskStep
<1>13. CASE Sti
  BY <1>13, StiStep
<1>14. CASE Save
  BY <1>14, SaveStep
<1>15. CASE Restore
  BY <1>15, RestoreStep
<1>16. CASE SkipErrorCode
  BY <1>16, SkipErrorCodeStep
<1>17. CASE SkipInstruction
  BY <1>17, SkipInstructionStep
<1>18. CASE Iretd
  BY <1>18, IretdStep
<1>19. CASE Interrupt
  BY <1>19, InterruptStep
<1>20. ASSUME NEW d \in Devices, Request(d) PROVE IInv'
  BY <1>20, RequestStep
<1>21. CASE UNCHANGED vars
  BY <1>21, StutterStep
<1> QED
  BY <1>1, <1>2, <1>3, <1>4, <1>5, <1>6, <1>7, <1>8, <1>9, <1>10, <1>11, <1>12, <1>13, <1>14,
     <1>15, <1>16, <1>17, <1>18, <1>19, <1>20, <1>21 DEF Next, Execute

(* The machine's state is at all times what the boot thread's next          *)
(* instruction and, in a handler, the operation to come say it is: tables,  *)
(* controllers, selectors, flags, registers and stack.                      *)
THEOREM InterruptsInvariant == Spec => []IInv
<1>1. Init => IInv
  BY InitIInv
<1>2. IInv /\ [Next]_vars => IInv'
  BY NextIInv
<1> QED BY <1>1, <1>2, PTL DEF Spec

-----------------------------------------------------------------------------
(* What follows from it. *)

(* Neither the provoked exceptions nor any interrupt, at any time, finds a  *)
(* gate missing or one whose selector names a data segment, and every iretd *)
(* finds a frame: the processor never shuts down.                           *)
THEOREM ProcessorRuns == Spec => []NoShutdown
<1>1. IInv => NoShutdown
  BY DEF IInv, CpuType, LiveHandlers, IrqHandlers, NoShutdown
<1> QED BY <1>1, InterruptsInvariant, PTL

(* Where the processor is while interrupts are enabled. *)
LEMMA EnabledPlace ==
    ASSUME IInv, IFlag
    PROVE  \E k \in {38, 39} : BootAt(k) /\ cs = MainCs(k)
<1>1. CASE eip.r = "main"
  <2>1. PICK k : k = eip.k
    OBVIOUS
  <2>2. k \in 1 .. 39 /\ IFlag = MainFlag(k) /\ BootAt(k) /\ cs = MainCs(k)
    BY <1>1, <2>1, MainAt
  <2>3. MainFlag(k)
    BY <2>2
  <2>4. k > 37
    BY <2>2, <2>3 DEF MainFlag
  <2>5. k \in {38, 39}
    BY <2>2, <2>4
  <2> QED BY <2>2, <2>5
<1>2. CASE eip.r \in LiveHandlers
  <2>1. PICK k \in {7, 38, 39}, w \in {0, 1} : Leaves(eip.r, k, w) /\ HandlerAt(k, w)
    BY <1>2, InTheHandler
  <2>2. eip.r \in IrqHandlers
    BY <2>1 DEF HandlerAt
  <2>3. k \in {38, 39}
    BY <2>1, <2>2 DEF Leaves, IrqHandlers
  <2> QED BY <2>1, <2>3 DEF HandlerAt
<1> QED BY <1>1, <1>2, WhoExecutes

(* Once sti has been executed, each of the controllers' 16 vectors has an   *)
(* interrupt gate into the loaded code segment, and the controllers are     *)
(* initialised, know each other, end interrupts by themselves and mask what *)
(* the BIOS masked.                                                         *)
THEOREM EnabledWhenReady == Spec => []ReadyWhenEnabled
<1>1. ASSUME IInv, IFlag PROVE ReadyWhenEnabled
  <2>1. PICK k \in {38, 39} : BootAt(k) /\ cs = MainCs(k)
    BY <1>1, EnabledPlace
  <2>2. /\ \A c \in Chips : pic[c].expect = 0 /\ pic[c].aeoi /\ pic[c].imr = bios[c]
        /\ pic["master"].base = 32 /\ pic["slave"].base = 40
        /\ pic["master"].icw3 = 4 /\ pic["slave"].icw3 = 2
    BY <2>1, PicReady DEF BootAt
  <2>3. Bit(4, 2)
    BY DEF Bit
  <2>4. cs = 8
    BY <2>1 DEF MainCs
  <2>5. \A v \in 32 .. 47 : HasGate(v) /\ idt[v].type = "intr" /\ idt[v].cs = cs
    BY <2>1, <2>4, IrqGate
  <2> QED BY <2>2, <2>3, <2>5 DEF ReadyWhenEnabled
<1>2. IInv => ReadyWhenEnabled
  BY <1>1 DEF ReadyWhenEnabled
<1> QED BY <1>2, InterruptsInvariant, PTL

(* A handler returns the boot thread exactly as it found it: an empty       *)
(* stack, its registers, and interrupts as sti left them.                   *)
THEOREM MainAsLeft == Spec => []MainUndisturbed
<1>1. ASSUME IInv, eip.r = "main" PROVE MainUndisturbed
  <2>1. PICK k : k = eip.k
    OBVIOUS
  <2>2. k \in 1 .. 39 /\ IFlag = MainFlag(k) /\ regs = MainRegs(k) /\ stack = <<>>
    BY <1>1, <2>1, MainAt
  <2>8. {"ds", "es", "fs"} \subseteq Registers
    BY RestoreOrder
  <2>3. (\A r \in Registers \ {"ds", "es", "fs"} : regs[r] = r) /\ regs["fs"] = BiosFs
    BY <2>2, <2>8 DEF MainRegs
  <2>4. loader_main[10].op = "mov_ds" /\ loader_main[37].op = "sti"
    <3>1. loader_main[10] = Arg("mov_ds", KERNEL_DS) /\ loader_main[37] = Op("sti")
      BY MainCode
    <3> QED BY <3>1, OpNames
  <2>5. ASSUME NEW j \in 1 .. k - 1
        PROVE  (loader_main[j].op = "mov_ds" => j = 10) /\ (loader_main[j].op = "sti" => j = 37)
    <3>1. j \in 1 .. 39
      BY <2>2, <2>5
    <3> QED BY <3>1, MainOps DEF Place
  <2>6. (\E j \in 1 .. k - 1 : loader_main[j].op = "mov_ds") <=> ~(k <= 10)
    BY <2>2, <2>4, <2>5
  <2>7. (\E j \in 1 .. k - 1 : loader_main[j].op = "sti") <=> ~(k <= 37)
    BY <2>2, <2>4, <2>5
  <2>9. \A r \in {"ds", "es"} :
           regs[r] = IF \E j \in 1 .. k - 1 : loader_main[j].op = "mov_ds" THEN 16 ELSE 24
    BY <2>2, <2>6, <2>8 DEF MainRegs
  <2>10. IFlag <=> \E j \in 1 .. k - 1 : loader_main[j].op = "sti"
    BY <2>2, <2>7 DEF MainFlag
  <2> QED BY <2>1, <2>2, <2>3, <2>9, <2>10 DEF MainUndisturbed
<1>2. IInv => MainUndisturbed
  BY <1>1 DEF MainUndisturbed
<1> QED BY <1>2, InterruptsInvariant, PTL

(* What lies on the stack at any time: nothing, a frame, or a frame under an *)
(* error code and saved registers.                                           *)
LEMMA StackShape ==
    ASSUME IInv
    PROVE  Shaped(stack)
<1>1. CASE eip.r = "main"
  <2>1. stack = <<>>
    BY <1>1 DEF IInv, InMain
  <2>2. Shaped(<<>>)
    BY DEF Shaped
  <2> QED BY <2>1, <2>2
<1>2. CASE eip.r \in LiveHandlers
  <2>1. PICK k \in {7, 38, 39}, w \in {0, 1} : Leaves(eip.r, k, w) /\ HandlerAt(k, w)
    BY <1>2, InTheHandler
  <2>2. k \in Nat /\ k + w \in Nat
    OBVIOUS
  <2>3. Shaped(Frame(k)) /\ Shaped(Frame(k + w)) /\ Shaped(Pushed(k, 0)) /\ Shaped(Pushed(k, 1))
    BY <2>2, FrameShape
  <2>4. Shaped(Saved(k) \o Pushed(k, 0)) /\ Shaped(Saved(k) \o Pushed(k, 1))
    <3>1. Tuple(Pushed(k, 0), 3) /\ Tuple(Pushed(k, 1), 4) /\ 3 \in Nat /\ 4 \in Nat
      BY <2>2, PushedParts
    <3> QED BY <2>2, <2>3, <3>1, SavedShape
  <2>5. Instruction.op \in {"SAVE_ALL", "printf", "RESTORE_ALL", "add_esp_4",
                            "add_at_esp_0xA", "sti", "iretd"}
    <3>1. CpuType
      BY DEF IInv
    <3>2. eip.k \in DOMAIN Program[eip.r]
      BY <3>1 DEF CpuType
    <3>3. FlowAt(Program[eip.r], eip.k, After(eip.r))
      BY <1>2, <3>2, HandlerFlow DEF Flow
    <3> QED BY <3>3 DEF FlowAt, Instruction
  <2>6. w = 0 \/ w = 1
    OBVIOUS
  <2>7. \/ stack = Pushed(k, w) \/ stack = Saved(k) \o Pushed(k, w)
        \/ stack = Frame(k) \/ stack = Frame(k + w)
    BY <2>1, <2>5 DEF HandlerAt, At
  <2> QED BY <2>3, <2>4, <2>6, <2>7
<1> QED BY <1>1, <1>2, WhoExecutes

(* Handlers do not nest, although those of interrupts execute sti before    *)
(* iretd: the stack never holds more than one frame.                        *)
THEOREM OneHandler == Spec => []NoNesting
<1>1. ASSUME IInv PROVE NoNesting
  BY <1>1, StackShape, OneFrame DEF NoNesting
<1> QED BY <1>1, InterruptsInvariant, PTL

(* Every variable has its type: among others, the stack holds nothing but   *)
(* what a delivery and SAVE_ALL push.                                       *)
THEOREM InterruptsTypeOK == Spec => []TypeOK
<1>1. ASSUME IInv PROVE TypeOK
  <2>1. CpuType /\ MemoryType
    BY <1>1 DEF IInv
  <2>2. eip.r \in DOMAIN Program /\ eip.k \in DOMAIN Program[eip.r] /\ DOMAIN regs = Registers
    BY <2>1, Routines DEF CpuType, LiveHandlers, IrqHandlers
  <2>3. IFlag \in BOOLEAN /\ shadow \in BOOLEAN
    BY <2>1 DEF CpuType
  <2>4. \E k \in 1 .. 39 : BootAt(k) /\ cs = MainCs(k)
    <3>1. CASE eip.r = "main"
      BY <1>1, <3>1 DEF IInv, InMain
    <3>2. CASE eip.r \in LiveHandlers
      <4>1. PICK k \in {7, 38, 39}, w \in {0, 1} : HandlerAt(k, w)
        BY <1>1, <3>2, InTheHandler
      <4> QED BY <4>1 DEF HandlerAt
    <3> QED BY <1>1, <3>1, <3>2, WhoExecutes
  <2>5. cs \in {8, 16} /\ gdt \in {HeadGdt, KernelGdt} /\ idt_cs \in {0, 8, 16}
    BY <2>4 DEF MainCs, BootAt, TablesAt, OLD_KERNEL_CS, KERNEL_CS
  <2>6. \A i \in DOMAIN stack : stack[i][1] \in {"eip", "cs", "flags", "error", "reg"}
    BY <1>1, StackShape DEF Shaped, Names
  <2>7. \A v \in Vectors : idt[v].handler \in DOMAIN Program \cup {"none"}
    BY <2>1 DEF MemoryType, GateState
  <2>8. \A c \in Chips : /\ pic[c].expect \in {0, 2, 3, 4}
                          /\ pic[c].imr \in 0 .. 255
                          /\ pic[c].irr \subseteq Lines
                          /\ pic[c].isr \subseteq Lines
    BY <2>1 DEF MemoryType, ChipState
  <2>9. raised \in [Devices -> 0 .. MaxRaised] /\ idtr \in BOOLEAN
    BY <2>1 DEF MemoryType
  <2> QED BY <2>2, <2>3, <2>5, <2>6, <2>7, <2>8, <2>9 DEF TypeOK
<1> QED BY <1>1, InterruptsInvariant, PTL

=============================================================================
