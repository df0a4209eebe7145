------------------------------ MODULE MemProbe ------------------------------
(***************************************************************************)
(* probe_memory of the 32-bit head (X86/mini-head-x86.asm; the 64-bit head *)
(* has the same routine and never calls it): it asks the BIOS for the      *)
(* memory map, range by range, and stores the answers where loader_main    *)
(* finds them as a MEM_INFO.  The loop ends with the carry flag alone, and *)
(* the room for the ranges is followed by the head's 32-bit part.          *)
(***************************************************************************)
EXTENDS Integers, Sequences

CONSTANTS
    Bioses,     \* records [above1M, e801, map, end]: see below
    MaxCalls    \* bound: calls of function E820 of a probe that does not end

(* A BIOS knows functions 88h and E801 or not, and has a map of ranges.    *)
(* Its end is announced by a continuation of 0 with the last range, or by  *)
(* the carry flag of the call after it.  3000 ranges do not fill the 64 KB *)
(* that di, of 16 bits, counts through: within the bound it does not wrap. *)
ASSUME BiosAssumption ==
    /\ MaxCalls \in 0 .. 3000
    /\ \A b \in Bioses : /\ b.e801 # <<>> => b.e801 = <<b.e801[1], b.e801[2], b.e801[3], b.e801[4]>>
                         /\ Len(b.map) \in 0 .. MaxCalls
                         /\ b.end \in {"zero", "carry"}

VARIABLES
    pc, bios,
    ebx,        \* the continuation: ranges already given
    di,         \* where the next range goes, in bytes from MemOverview
    nRanges,
    words,      \* MemAbove1K and the four MemLargeConfigurations
    overview    \* what was stored from MemOverview on, by its byte

vars == <<pc, bios, ebx, di, nRanges, words, overview>>

(* Variant: the size of a range in later versions of the function. *)
ExtendedSize == 24

ADDR_RANGE_DESC_size == 20
Room == 256         \* MemOverview times 256 db 0
MsgLen == 11        \* the text behind it; then comes code_32

Init ==
    /\ pc = "88h"
    /\ bios \in Bioses
    /\ ebx = 0
    /\ di = 0
    /\ nRanges = 0
    /\ words = <<>>
    /\ overview = <<>>

(* Function 88h. *)
AboveOneMeg ==
    /\ pc = "88h"
    /\ words' = <<bios.above1M>>
    /\ pc' = "e801"
    /\ UNCHANGED <<bios, ebx, di, nRanges, overview>>

(* Function E801; the carry is not tested: without the function the        *)
(* registers still hold what they held before.                             *)
LargeConfigurations ==
    /\ pc = "e801"
    /\ words' = words \o (IF bios.e801 = <<>> THEN <<"E801h", "bx", "cx", "dx">> ELSE bios.e801)
    /\ pc' = "detect_iter"
    /\ UNCHANGED <<bios, ebx, di, nRanges, overview>>

(* The continuation the BIOS returns with a range (external). *)
Continued(k) == IF k = Len(bios.map) /\ bios.end = "zero" THEN 0 ELSE k

Known(k) == k < Len(bios.map)

(* Variants: the call that ends the loop counted, too; ebx cleared anew. *)
CountFirst ==
    /\ pc = "detect_iter"
    /\ nRanges < MaxCalls
    /\ nRanges' = nRanges + 1
    /\ IF Known(ebx)
       THEN /\ overview' = [b \in DOMAIN overview \cup {di} |->
                               IF b = di THEN bios.map[ebx + 1] ELSE overview[b]]
            /\ ebx' = Continued(ebx + 1)
            /\ di' = di + ADDR_RANGE_DESC_size
            /\ UNCHANGED pc
       ELSE /\ pc' = "detect_ok"
            /\ UNCHANGED <<ebx, di, overview>>
    /\ UNCHANGED <<bios, words>>

StartOver ==
    /\ pc = "detect_iter"
    /\ nRanges < MaxCalls
    /\ IF Known(0)
       THEN /\ di' = di + ADDR_RANGE_DESC_size
            /\ nRanges' = nRanges + 1
            /\ UNCHANGED <<pc, overview>>
       ELSE /\ pc' = "detect_ok"
            /\ UNCHANGED <<di, nRanges, overview>>
    /\ UNCHANGED <<bios, ebx, words>>

(* Function E820: a range at es:di and the next continuation, or a carry.  *)
detect_iter ==
    /\ pc = "detect_iter"
    /\ nRanges < MaxCalls
    /\ IF Known(ebx)
       THEN /\ overview' = [b \in DOMAIN overview \cup {di} |->
                               IF b = di THEN bios.map[ebx + 1] ELSE overview[b]]
            /\ ebx' = Continued(ebx + 1)
            /\ di' = di + ADDR_RANGE_DESC_size
            /\ nRanges' = nRanges + 1
            /\ UNCHANGED pc
       ELSE /\ pc' = "detect_ok"
            /\ UNCHANGED <<ebx, di, nRanges, overview>>
    /\ UNCHANGED <<bios, words>>

(* The rest of the head, from code_32 on, passes the address of MemAbove1K *)
(* to loader_main -- if no range was stored over it.                       *)
Enter ==
    /\ pc = "detect_ok"
    /\ pc' = IF di > Room + MsgLen THEN "lost" ELSE "loader_main"
    /\ UNCHANGED <<bios, ebx, di, nRanges, words, overview>>

Next == AboveOneMeg \/ LargeConfigurations \/ detect_iter \/ Enter

Spec == Init /\ [][Next]_vars /\ WF_vars(Next)

-----------------------------------------------------------------------------

(* The MEM_INFO of loader.c at the address of MemAbove1K: its array has    *)
(* eight elements, fewer than the head has room for.                       *)
MEM_INFO_ranges == 8
m_info == [ma0 |-> words[1], large |-> SubSeq(words, 2, 5), nRange |-> nRanges]
Stored(i) == IF 20 * i \in DOMAIN overview THEN overview[20 * i] ELSE "0"
ranges == [i \in 0 .. MEM_INFO_ranges - 1 |-> Stored(i)]

(* loader_main finds the words the BIOS gave -- if it knows E801 -- and the *)
(* number of ranges.  The first eight ranges are in MEM_INFO's array, in    *)
(* order, the rest of which is zero; nRange may exceed the array, and then  *)
(* the ranges from the ninth on are behind it, element after element: a     *)
(* loop over nRange finds them only by reading past the array's end.        *)
MapDelivered ==
    pc = "loader_main" =>
        /\ m_info.ma0 = bios.above1M
        /\ bios.e801 # <<>> => m_info.large = bios.e801
        /\ m_info.nRange = Len(bios.map)
        /\ ranges = [i \in 0 .. 7 |-> IF i < Len(bios.map) THEN bios.map[i + 1] ELSE "0"]
        /\ \A i \in 8 .. m_info.nRange - 1 : i \notin DOMAIN ranges /\ Stored(i) = bios.map[i + 1]
        /\ di <= 20 * MEM_INFO_ranges <=> Len(bios.map) <= 8

(* A BIOS whose end the loop sees; any other is asked for its first range   *)
(* again, and never done.                                                   *)
Ends == bios.map = <<>> \/ bios.end = "carry"

(* What the missing checks cost: a probe that ends has written behind its   *)
(* room exactly if the BIOS has more than twelve ranges; a thirteenth       *)
(* damages the text only, and the code of the head is lost exactly if there *)
(* are fourteen.  Before, and with a BIOS that ends with a continuation of  *)
(* 0, it writes behind its room in no other case, and with such a BIOS it   *)
(* never leaves the loop.                                                   *)
RoomKept ==
    /\ di > Room => Len(bios.map) > 12 \/ ~Ends
    /\ pc \in {"detect_ok", "loader_main", "lost"} => Ends /\ (di > Room <=> Len(bios.map) > 12)
    /\ pc \in {"loader_main", "lost"} => (pc = "lost" <=> Len(bios.map) > 13)

(* With a BIOS that ends with the carry flag the probe ends; any other one  *)
(* has its ranges stored over the code behind the room, however few it has. *)
ProbeEnds == <>(IF Ends THEN pc \in {"loader_main", "lost"} ELSE di > Room + MsgLen)

=============================================================================
