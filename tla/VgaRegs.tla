------------------------------- MODULE VgaRegs -------------------------------
(***************************************************************************)
(* X86/vga.c: setting a video mode and reading it back.  write_regs and    *)
(* read_regs are sequences of port accesses, one executed per step; the    *)
(* card, hardware outside the repository, is what an access does to it:    *)
(* index registers, the one port of the attribute controller that takes    *)
(* index and data in turn, the lock of the first CRTC registers, and the   *)
(* ports that move in a monochrome mode.                                   *)
(***************************************************************************)
EXTENDS VgaDumps, Integers, Sequences

CONSTANTS
    Cards,      \* records [misc, latch, index, reg] the card may be found as
    LightPen,   \* bytes its light pen registers may give
    MaxCalls    \* bound: calls of the functions

Num == [SEQ |-> 5, CRTC |-> 25, GC |-> 9, AC |-> 21]

(* Where register r of a bank is in an array of 61 bytes. *)
At(b, r) == r + [SEQ |-> 2, CRTC |-> 7, GC |-> 32, AC |-> 41][b]

Byte == 0 .. 255

(* Dumps are of color modes. *)
ASSUME DumpAssumption ==
    \A d \in Dumps : d \in Seq(Byte) /\ Len(d) = 61 /\ d[1] % 2 = 1

ASSUME CardAssumption ==
    /\ Cards \subseteq [misc : Byte, latch : {"index", "data"}, index : [DOMAIN Num -> Byte],
                        reg : [DOMAIN Num -> [0 .. 31 -> Byte]]]
    /\ LightPen \subseteq Byte

VARIABLES
    card,
    regs,       \* the array of the call
    f, k,       \* the function that runs and its next access
    calls,
    mode        \* history: the dump last written, or <<>>

vars == <<card, regs, f, k, calls, mode>>

(* A caller's array nothing has been stored in. *)
Unread == [n \in 1 .. 61 |-> -1]

Init ==
    /\ card \in Cards
    /\ regs = Unread
    /\ f = "none" /\ k = 1
    /\ calls = 0
    /\ mode = <<>>

Bit7(v)  == v >= 128
Set7(v)  == IF Bit7(v) THEN v ELSE v + 128
Clear7(v) == v % 128

-----------------------------------------------------------------------------
(* The card. *)

Color == card.misc % 2 = 1

(* The selected register of a bank. *)
Selected(b) == card.index[b] % 32

SetReg(b, v) == [card EXCEPT !.reg[b][Selected(b)] = v]

(* One port for index and data; the palette is writable while the index    *)
(* has bit 5 clear, which blanks the display.                              *)
ToAC(v) ==
    IF card.latch = "index" THEN [card EXCEPT !.index.AC = v, !.latch = "data"]
    ELSE [IF Selected("AC") < 16 /\ card.index.AC >= 32 THEN card ELSE SetReg("AC", v)
             EXCEPT !.latch = "index"]

(* Locked by bit 7 of register 0x11, registers 0 to 7 keep their values,   *)
(* except bit 4 of the last.                                               *)
ToCRTC(v) ==
    LET r   == Selected("CRTC")
        Bit4(x) == (x \div 16) % 2
    IN  IF ~Color \/ (Bit7(card.reg.CRTC[17]) /\ r < 7) THEN card
        ELSE IF Bit7(card.reg.CRTC[17]) /\ r = 7
        THEN SetReg("CRTC", card.reg.CRTC[7] + 16 * (Bit4(v) - Bit4(card.reg.CRTC[7])))
        ELSE SetReg("CRTC", v)

ToIndex(b, v) ==
    CASE b = "AC"              -> ToAC(v)
      [] b = "CRTC" /\ ~Color  -> card
      [] OTHER                 -> [card EXCEPT !.index[b] = v]

ToData(b, v) ==
    CASE b = "AC"   -> ToAC(v)
      [] b = "CRTC" -> ToCRTC(v)
      [] OTHER      -> SetReg(b, v)

(* What a data port may give: light pen registers hide 0x10 and 0x11 while *)
(* bit 7 of register 3 is clear.                                           *)
FromData(b) ==
    CASE b = "CRTC" /\ ~Color -> {255}
      [] b = "CRTC" /\ Color /\ Selected(b) \in {16, 17} /\ ~Bit7(card.reg.CRTC[3]) -> LightPen
      [] OTHER -> {card.reg[b][Selected(b)]}

-----------------------------------------------------------------------------
(* Programs: accesses to register r of bank b. *)

A(do, b, r) == [do |-> do, b |-> b, r |-> r]

(* For each register of the bank, the accesses of the turn. *)
Each(b, turn) ==
    LET m == Len(turn)
    IN  [n \in 1 .. m * Num[b] |-> A(turn[((n - 1) % m) + 1], b, (n - 1) \div m)]

(* The display unblanked and the palette locked: index 0x20. *)
Unblank == <<A("InStatus", "AC", 0), A("OutIndex", "AC", 32)>>

Rewrite(do, r) == <<A("OutIndex", "CRTC", r), A(do, "CRTC", r)>>

Writes == <<"OutIndex", "OutData">>
Reads  == <<"OutIndex", "InData">>

(* Variants: the CRTC not unlocked, the status register not read before     *)
(* each index.                                                             *)
WriteLocked ==
    <<A("OutMisc", "MISC", 0)>> \o Each("SEQ", Writes)
        \o <<A("Unlock", "CRTC", 0)>>
        \o Each("CRTC", Writes) \o Each("GC", Writes)
        \o Each("AC", <<"InStatus">> \o Writes) \o Unblank

ReadWithoutStatus ==
    <<A("InMisc", "MISC", 0)>> \o Each("SEQ", Reads)
        \o Each("CRTC", Reads) \o Each("GC", Reads)
        \o Each("AC", Reads) \o Unblank

write_regs ==
    <<A("OutMisc", "MISC", 0)>> \o Each("SEQ", Writes)
        \o Rewrite("SetBit7", 3) \o Rewrite("ClearBit7", 17) \o <<A("Unlock", "CRTC", 0)>>
        \o Each("CRTC", Writes) \o Each("GC", Writes)
        \o Each("AC", <<"InStatus">> \o Writes) \o Unblank

read_regs ==
    <<A("InMisc", "MISC", 0)>> \o Each("SEQ", Reads)
        \o Each("CRTC", Reads) \o Each("GC", Reads)
        \o Each("AC", <<"InStatus">> \o Reads) \o Unblank

Program == [write_regs |-> write_regs, read_regs |-> read_regs]

-----------------------------------------------------------------------------

(* demo_graphics calls write_regs with one of the dumps; read_regs has no  *)
(* caller, which would pass an array of its own.                           *)
WriteRegs(dump) ==
    /\ f = "none" /\ calls < MaxCalls
    /\ calls' = calls + 1
    /\ f' = "write_regs"
    /\ regs' = dump
    /\ mode' = dump
    /\ UNCHANGED <<card, k>>

ReadRegs ==
    /\ f = "none" /\ calls < MaxCalls
    /\ calls' = calls + 1
    /\ f' = "read_regs"
    /\ regs' = Unread
    /\ UNCHANGED <<card, k, mode>>

Access == Program[f][k]

Doing(do) == f # "none" /\ Access.do = do

Proceed ==
    /\ IF k < Len(Program[f]) THEN k' = k + 1 /\ UNCHANGED f ELSE k' = 1 /\ f' = "none"
    /\ UNCHANGED <<calls, mode>>

OutMisc   == Doing("OutMisc")   /\ card' = [card EXCEPT !.misc = regs[1]] /\ UNCHANGED regs /\ Proceed
InMisc    == Doing("InMisc")    /\ regs' = [regs EXCEPT ![1] = card.misc] /\ UNCHANGED card /\ Proceed
OutIndex  == Doing("OutIndex")  /\ card' = ToIndex(Access.b, Access.r)    /\ UNCHANGED regs /\ Proceed

OutData ==
    /\ Doing("OutData")
    /\ card' = ToData(Access.b, regs[At(Access.b, Access.r)])
    /\ UNCHANGED regs
    /\ Proceed

InData ==
    /\ Doing("InData")
    /\ \E v \in FromData(Access.b) : regs' = [regs EXCEPT ![At(Access.b, Access.r)] = v]
    /\ UNCHANGED card
    /\ Proceed

(* Reading the status register makes the next byte an index. *)
InputStatus ==
    /\ Doing("InStatus")
    /\ card' = IF Color THEN [card EXCEPT !.latch = "index"] ELSE card
    /\ UNCHANGED regs
    /\ Proceed

SetBit7 ==
    /\ Doing("SetBit7")
    /\ \E v \in FromData("CRTC") : card' = ToData("CRTC", Set7(v))
    /\ UNCHANGED regs
    /\ Proceed

ClearBit7 ==
    /\ Doing("ClearBit7")
    /\ \E v \in FromData("CRTC") : card' = ToData("CRTC", Clear7(v))
    /\ UNCHANGED regs
    /\ Proceed

(* The caller's array is changed so that the CRTC remains unlocked. *)
Forced(dump) == [dump EXCEPT ![At("CRTC", 3)] = Set7(@), ![At("CRTC", 17)] = Clear7(@)]

Unlock == Doing("Unlock") /\ regs' = Forced(regs) /\ UNCHANGED card /\ Proceed

Next ==
    \/ \E dump \in Dumps : WriteRegs(dump)
    \/ ReadRegs
    \/ OutMisc \/ InMisc \/ OutIndex \/ OutData \/ InData
    \/ InputStatus \/ SetBit7 \/ ClearBit7 \/ Unlock

Spec == Init /\ [][Next]_vars

-----------------------------------------------------------------------------

Holds(dump) ==
    /\ card.misc = dump[1]
    /\ \A b \in DOMAIN Num : \A r \in 0 .. Num[b] - 1 : card.reg[b][r] = dump[At(b, r)]

(* Whatever state the card was found in -- locked, in a monochrome mode, in *)
(* the middle of an index and its data -- after write_regs every register  *)
(* holds the dump's byte, but for the two bits that keep the CRTC unlocked, *)
(* and the display is on; read_regs leaves it so.                          *)
CardHoldsDump ==
    (f = "none" /\ mode # <<>>) =>
        /\ Holds(Forced(mode))
        /\ card.index.AC = 32

(* read_regs after write_regs returns what was written, the bytes of the   *)
(* attribute controller's shared port included.                            *)
ReadBack ==
    (f = "none" /\ mode # <<>>) => regs = Forced(mode)

=============================================================================
