--------------------------- MODULE MemProbeProofs ---------------------------
(***************************************************************************)
(* MapDelivered and RoomKept of MemProbe for every BIOS.                   *)
(***************************************************************************)
EXTENDS MemProbe, SequenceTheorems, TLAPS

Size == bios \in Bioses /\ ebx \in 0 .. Len(bios.map) /\ nRanges \in Nat /\ di = 20 * nRanges

(* With a BIOS that ends, the continuation counts the ranges stored; with  *)
(* any other one there is always another range.                            *)
InStep ==
    /\ Ends => ebx = nRanges
    /\ ~Ends => ebx < Len(bios.map)

InPlace ==
    /\ DOMAIN overview = {20 * i : i \in 0 .. nRanges - 1}
    /\ Ends => \A i \in 0 .. nRanges - 1 : overview[20 * i] = bios.map[i + 1]

AllWords == <<bios.above1M>> \o (IF bios.e801 = <<>> THEN <<"E801h", "bx", "cx", "dx">> ELSE bios.e801)

Progress ==
    /\ pc \in {"88h", "e801", "detect_iter", "detect_ok", "loader_main", "lost"}
    /\ pc = "e801" => words = <<bios.above1M>>
    /\ pc \notin {"88h", "e801"} => words = AllWords
    /\ pc \notin {"88h", "e801", "detect_iter"} => ebx = Len(bios.map) /\ Ends
    /\ pc = "lost" => di > Room + MsgLen
    /\ pc = "loader_main" => di <= Room + MsgLen

IInv == Size /\ InStep /\ InPlace /\ Progress

LEMMA EmptyMap == ASSUME NEW b \in Bioses, b.map = <<>> PROVE Len(b.map) = 0
OBVIOUS

LEMMA InitInv == Init => IInv
BY BiosAssumption, EmptyMap DEF Init, IInv, Size, InStep, InPlace, Progress, Ends

(* A range stored at di is range nRanges. *)
LEMMA StoreRange ==
    ASSUME IInv, pc = "detect_iter", Known(ebx), detect_iter
    PROVE  IInv'
<1> USE BiosAssumption DEF IInv, Size, ADDR_RANGE_DESC_size
<1>1. /\ bios' = bios /\ words' = words /\ pc' = pc
      /\ ebx' = Continued(ebx + 1) /\ nRanges' = nRanges + 1 /\ di' = di + 20
      /\ overview' = [b \in DOMAIN overview \cup {di} |->
                        IF b = di THEN bios.map[ebx + 1] ELSE overview[b]]
  BY DEF detect_iter
<1>2. ebx < Len(bios.map) /\ Len(bios.map) \in Nat /\ Ends' = Ends
  BY <1>1 DEF Known, Ends
<1>3. Size'
  BY <1>1, <1>2 DEF Continued
<1>4. InStep'
  <2>1. CASE Ends
    <3>1. bios.end = "carry"
      BY <1>2, <2>1, EmptyMap DEF Ends
    <3> QED  BY <1>1, <1>2, <2>1, <3>1 DEF InStep, Continued
  <2>2. CASE ~Ends
    BY <1>1, <1>2, <2>2 DEF InStep, Continued, Ends
  <2> QED  BY <2>1, <2>2
<1>5. InPlace'
  <2>1. DOMAIN overview' = {20 * i : i \in 0 .. nRanges - 1} \cup {20 * nRanges}
    BY <1>1 DEF InPlace
  <2>2. DOMAIN overview' = {20 * i : i \in 0 .. nRanges' - 1}
    BY <1>1, <2>1
  <2>3. ASSUME Ends, NEW i \in 0 .. nRanges' - 1
        PROVE  overview'[20 * i] = bios'.map[i + 1]
    <3>1. CASE i = nRanges
      BY <1>1, <2>3, <3>1 DEF InStep
    <3>2. CASE i # nRanges
      <4>1. i \in 0 .. nRanges - 1 /\ 20 * i # di /\ 20 * i \in DOMAIN overview
        BY <1>1, <3>2 DEF InPlace
      <4> QED  BY <1>1, <2>3, <4>1, SMTT(30) DEF InPlace
    <3> QED  BY <3>1, <3>2
  <2> QED  BY <1>2, <2>2, <2>3 DEF InPlace
<1>6. Progress'
  BY <1>1 DEF Progress, AllWords
<1> QED  BY <1>3, <1>4, <1>5, <1>6

(* Where the ranges are does not depend on the step of the head.           *)
LEMMA SameRanges ==
    ASSUME Size, InStep, InPlace, UNCHANGED <<bios, ebx, di, nRanges, overview>>
    PROVE  Size' /\ InStep' /\ InPlace'
<1>1. Ends' <=> Ends
  BY DEF Ends
<1>2. Size'
  BY DEF Size
<1>3. InStep'
  BY <1>1 DEF InStep
<1>4. InPlace'
  BY <1>1 DEF InPlace
<1> QED  BY <1>2, <1>3, <1>4

LEMMA StepInv == IInv /\ [Next]_vars => IInv'
<1> SUFFICES ASSUME IInv, [Next]_vars PROVE IInv'
  OBVIOUS
<1> USE BiosAssumption DEF IInv
<1>1. CASE AboveOneMeg
  <2>1. UNCHANGED <<bios, ebx, di, nRanges, overview>> /\ pc' = "e801" /\ words' = <<bios.above1M>>
    BY <1>1 DEF AboveOneMeg
  <2>2. Progress'
    BY <2>1 DEF Progress, AllWords
  <2> QED  BY <2>1, <2>2, SameRanges
<1>2. CASE LargeConfigurations
  <2>1. /\ UNCHANGED <<bios, ebx, di, nRanges, overview>>
        /\ pc' = "detect_iter" /\ words' = AllWords
    <3> DEFINE more == IF bios.e801 = <<>> THEN <<"E801h", "bx", "cx", "dx">> ELSE bios.e801
    <3>1. words = <<bios.above1M>>
      BY <1>2 DEF LargeConfigurations, Progress
    <3>2. words' = words \o more
      BY <1>2 DEF LargeConfigurations
    <3>3. AllWords = <<bios.above1M>> \o more
      BY DEF AllWords
    <3>4. words' = AllWords
      <4> HIDE DEF more
      <4> QED  BY <3>1, <3>2, <3>3
    <3>5. UNCHANGED <<bios, ebx, di, nRanges, overview>> /\ pc' = "detect_iter"
      BY <1>2 DEF LargeConfigurations
    <3> QED  BY <3>4, <3>5
  <2>2. Size' /\ InStep' /\ InPlace'
    BY <2>1, SameRanges
  <2>3. Progress'
    BY <2>1 DEF Progress, AllWords
  <2> QED  BY <2>2, <2>3
<1>3. CASE detect_iter
  <2>1. CASE Known(ebx)
    BY <1>3, <2>1, StoreRange DEF detect_iter
  <2>2. CASE ~Known(ebx)
    <3>1. ebx = Len(bios.map) /\ Ends
      BY <2>2 DEF Known, Size, InStep
    <3>2. /\ UNCHANGED <<bios, ebx, di, nRanges, words, overview>>
          /\ pc = "detect_iter" /\ pc' = "detect_ok"
      BY <1>3, <2>2 DEF detect_iter
    <3>3. Size' /\ InStep' /\ InPlace'
      BY <3>2, SameRanges
    <3>4. Progress'
      BY <3>1, <3>2 DEF Progress, AllWords, Ends
    <3> QED  BY <3>3, <3>4
  <2> QED  BY <2>1, <2>2
<1>4. CASE Enter
  <2>1. /\ UNCHANGED <<bios, ebx, di, nRanges, words, overview>> /\ pc = "detect_ok"
        /\ pc' = IF di > Room + MsgLen THEN "lost" ELSE "loader_main"
    BY <1>4 DEF Enter
  <2>2. Size' /\ InStep' /\ InPlace'
    BY <2>1, SameRanges
  <2>3. di \in Int /\ Room + MsgLen \in Int
    BY DEF Size, Room, MsgLen
  <2>4. Progress'
    BY <2>1, <2>3 DEF Progress, AllWords, Ends, Room, MsgLen
  <2> QED  BY <2>2, <2>4
<1>5. CASE UNCHANGED vars
  <2>1. UNCHANGED <<pc, bios, ebx, di, nRanges, words, overview>>
    BY <1>5 DEF vars
  <2>2. Progress'
    BY <2>1 DEF Progress, AllWords, Ends
  <2> QED  BY <2>1, <2>2, SameRanges
<1> QED  BY <1>1, <1>2, <1>3, <1>4, <1>5 DEF Next

(* The inductive invariant of the probe, for every BIOS and bound.         *)
THEOREM Invariant == Spec => []IInv
BY InitInv, StepInv, PTL DEF Spec

(* The words of MEM_INFO are those the BIOS gave. *)
LEMMA WordsRead ==
    ASSUME NEW a, NEW e1, NEW e2, NEW e3, NEW e4
    PROVE  SubSeq(<<a>> \o <<e1, e2, e3, e4>>, 2, 5) = <<e1, e2, e3, e4>>
<1> DEFINE S == {a, e1, e2, e3, e4}
           x == <<a>>
           e == <<e1, e2, e3, e4>>
           w == x \o e
           u == SubSeq(w, 2, 5)
<1>1. x \in Seq(S) /\ e \in Seq(S) /\ Len(x) = 1 /\ Len(e) = 4
  OBVIOUS
<1>2. w \in Seq(S) /\ Len(w) = 5 /\ \A i \in 2 .. 5 : w[i] = e[i - 1]
  <2> HIDE DEF x, e, S
  <2>1. /\ w \in Seq(S) /\ Len(w) = Len(x) + Len(e)
        /\ \A i \in 1 .. Len(x) + Len(e) : w[i] = IF i <= Len(x) THEN x[i] ELSE e[i - Len(x)]
    BY <1>1, ConcatProperties, Zenon
  <2> QED  BY <1>1, <2>1
<1>3. u \in Seq(S) /\ Len(u) = 4 /\ \A i \in 1 .. 4 : u[i] = w[i + 1]
  <2> HIDE DEF w
  <2>1. \A i \in 2 .. 5 : w[i] \in S
    BY <1>2, ElementOfSeq
  <2>2. /\ u \in Seq(S) /\ Len(u) = 4
        /\ \A i \in 1 .. 5 - 2 + 1 : u[i] = w[2 + i - 1]
    BY <2>1, SubSeqProperties
  <2> QED  BY <2>2
<1>4. \A i \in 1 .. 4 : u[i] = e[i]
  <2> HIDE DEF u, w, e
  <2> QED  BY <1>2, <1>3
<1>5. u = e
  <2> HIDE DEF u, w, e, S
  <2> QED  BY <1>1, <1>3, <1>4, SeqEqual
<1> QED  BY <1>5

(* What loader_main finds of a memory map of any length: the first eight    *)
(* ranges in MEM_INFO's array, the others, up to the thirteen that leave    *)
(* the head its code, behind it.                                           *)
THEOREM MapReaches == Spec => []MapDelivered
<1>1. IInv => MapDelivered
  <2> SUFFICES ASSUME IInv, pc = "loader_main" PROVE MapDelivered
    BY DEF MapDelivered
  <2>1. /\ bios \in Bioses /\ Ends /\ nRanges = Len(bios.map) /\ nRanges \in Nat
        /\ words = AllWords
        /\ DOMAIN overview = {20 * i : i \in 0 .. nRanges - 1}
        /\ \A i \in 0 .. nRanges - 1 : overview[20 * i] = bios.map[i + 1]
    BY DEF IInv, Size, InStep, InPlace, Progress
  <2>2. m_info.nRange = nRanges
    BY DEF m_info
  <2>3. m_info.ma0 = bios.above1M
    BY <2>1 DEF m_info, AllWords
  <2>4. bios.e801 # <<>> => m_info.large = bios.e801
    <3> SUFFICES ASSUME bios.e801 # <<>> PROVE m_info.large = bios.e801
      OBVIOUS
    <3>1. bios.e801 = <<bios.e801[1], bios.e801[2], bios.e801[3], bios.e801[4]>>
      BY <2>1, BiosAssumption
    <3>2. m_info.large = SubSeq(<<bios.above1M>> \o bios.e801, 2, 5)
      BY <2>1 DEF m_info, AllWords
    <3> QED  BY <3>1, <3>2, WordsRead
  <2>5. ASSUME NEW i \in Nat
        PROVE  Stored(i) = IF i < Len(bios.map) THEN bios.map[i + 1] ELSE "0"
    <3>1. 20 * i \in DOMAIN overview <=> i < nRanges
      BY <2>1
    <3>2. CASE i < nRanges
      <4>1. overview[20 * i] = bios.map[i + 1]
        BY <2>1, <3>2
      <4> QED  BY <2>1, <3>1, <3>2, <4>1 DEF Stored
    <3>3. CASE ~(i < nRanges)
      BY <2>1, <3>1, <3>3 DEF Stored
    <3> QED  BY <3>2, <3>3
  <2>6. ranges = [i \in 0 .. 7 |-> IF i < Len(bios.map) THEN bios.map[i + 1] ELSE "0"]
    <3>1. \A i \in 0 .. 7 : Stored(i) = IF i < Len(bios.map) THEN bios.map[i + 1] ELSE "0"
      BY <2>5
    <3>2. MEM_INFO_ranges - 1 = 7
      BY DEF MEM_INFO_ranges
    <3>3. ranges = [i \in 0 .. 7 |-> Stored(i)]
      BY <3>2 DEF ranges
    <3> QED  BY <3>1, <3>3, Zenon
  <2>7. \A i \in 8 .. m_info.nRange - 1 : i \notin DOMAIN ranges /\ Stored(i) = bios.map[i + 1]
    BY <2>1, <2>2, <2>5 DEF ranges, MEM_INFO_ranges
  <2>8. di <= 20 * MEM_INFO_ranges <=> Len(bios.map) <= 8
    BY <2>1 DEF IInv, Size, MEM_INFO_ranges
  <2> QED  BY <2>1, <2>2, <2>3, <2>4, <2>6, <2>7, <2>8 DEF MapDelivered
<1> QED  BY <1>1, Invariant, PTL

(* For every BIOS that ends, what is written over follows from the number   *)
(* of its ranges, both ways; any other one keeps the probe in its loop.     *)
THEOREM RoomSuffices == Spec => []RoomKept
<1>1. IInv => RoomKept
  BY BiosAssumption, EmptyMap DEF IInv, Size, InStep, Progress, RoomKept, Ends, Room, MsgLen
<1> QED  BY <1>1, Invariant, PTL

=============================================================================
