--------------------------- MODULE VgaRegsProofs ----------------------------
(***************************************************************************)
(* Whatever card they find and whichever dump they are given, write_regs   *)
(* and read_regs do what they are for.                                     *)
(***************************************************************************)
EXTENDS VgaRegs, SequenceTheorems, TLAPS

-----------------------------------------------------------------------------
(* The inductive invariant: how far each bank has come, by the next access. *)

Given == Forced(mode)

AnyCard == [misc : Byte, latch : {"index", "data"}, index : [DOMAIN Num -> Byte],
            reg : [DOMAIN Num -> [0 .. 31 -> Byte]]]

CardType == card \in AnyCard

Registers(b) == 0 .. Num[b] - 1

(* The access of write_regs that stores register r of bank b, and the one   *)
(* of read_regs that fetches it.                                           *)
Put(b, r) ==
    CASE b = "SEQ" -> 3 + 2 * r [] b = "CRTC" -> 18 + 2 * r [] b = "GC" -> 68 + 2 * r
      [] b = "AC" -> 87 + 3 * r

Get(b, r) ==
    CASE b = "SEQ" -> 3 + 2 * r [] b = "CRTC" -> 13 + 2 * r [] b = "GC" -> 63 + 2 * r
      [] b = "AC" -> 82 + 3 * r

Writing ==
    /\ mode \in Dumps
    /\ k \in 1 .. 149
    /\ regs = IF k <= 16 THEN mode ELSE Given
    /\ k > 1 => card.misc = mode[1]
    /\ k = 13 => card.index["CRTC"] = 3
    /\ k = 15 => card.index["CRTC"] = 17
    /\ k > 15 => ~Bit7(card.reg["CRTC"][17])
    /\ \A b \in DOMAIN Num : \A r \in Registers(b) :
          /\ k = Put(b, r) => card.index[b] = r
          /\ k > Put(b, r) => card.reg[b][r] = Given[At(b, r)]
    /\ \A r \in Registers("AC") :
          /\ k = Put("AC", r) - 1 => card.latch = "index"
          /\ k = Put("AC", r) => card.latch = "data"
    /\ k = 149 => card.latch = "index"

Array(a) == DOMAIN a = 1 .. 61 /\ a = [n \in 1 .. 61 |-> a[n]]

Reading ==
    /\ k \in 1 .. 144
    /\ Array(regs)
    /\ mode # <<>> =>
          /\ Holds(Given)
          /\ k > 1 => regs[1] = Given[1]
          /\ \A b \in DOMAIN Num : \A r \in Registers(b) :
                /\ k = Get(b, r) => card.index[b] = r
                /\ k > Get(b, r) => regs[At(b, r)] = Given[At(b, r)]
          /\ \A r \in Registers("AC") : k = Get("AC", r) - 1 => card.latch = "index"
          /\ k = 144 => card.latch = "index"

ModeType == mode = <<>> \/ mode \in Dumps

IInv ==
    /\ CardType
    /\ ModeType
    /\ f \in {"none", "write_regs", "read_regs"}
    /\ f = "write_regs" => Writing
    /\ f = "read_regs" => Reading
    /\ f = "none" => k = 1
    /\ CardHoldsDump
    /\ ReadBack

-----------------------------------------------------------------------------
(* The banks, the arrays and the places in them. *)

(* The banks and how many registers each has. *)
LEMMA Banks ==
    /\ DOMAIN Num = {"SEQ", "CRTC", "GC", "AC"}
    /\ Num["SEQ"] = 5 /\ Num["CRTC"] = 25 /\ Num["GC"] = 9 /\ Num["AC"] = 21
BY DEF Num

(* The registers of each bank. *)
LEMMA Registered ==
    /\ Registers("SEQ") = 0 .. 4 /\ Registers("CRTC") = 0 .. 24
    /\ Registers("GC") = 0 .. 8 /\ Registers("AC") = 0 .. 20
    /\ \A b \in DOMAIN Num : \A r \in Registers(b) : r \in 0 .. 31 /\ r \in 0 .. 24 /\ r \in Byte
<1>1. /\ Registers("SEQ") = 0 .. 4 /\ Registers("CRTC") = 0 .. 24
      /\ Registers("GC") = 0 .. 8 /\ Registers("AC") = 0 .. 20
  BY Banks DEF Registers
<1>2. \A b \in DOMAIN Num : Registers(b) \subseteq 0 .. 24
  BY <1>1, Banks
<1> QED BY <1>1, <1>2 DEF Byte

(* Where a register is in an array. *)
LEMMA AtIs ==
    \A r \in Nat : /\ At("SEQ", r) = r + 2 /\ At("CRTC", r) = r + 7
                   /\ At("GC", r) = r + 32 /\ At("AC", r) = r + 41
BY DEF At

(* Each byte but the first is one register's, and no other's. *)
LEMMA Places ==
    /\ \A b \in DOMAIN Num : \A r \in Registers(b) : At(b, r) \in 2 .. 61
    /\ \A n \in 2 .. 61 : \E b \in DOMAIN Num : \E r \in Registers(b) : n = At(b, r)
    /\ \A b, c \in DOMAIN Num : \A r \in Registers(b) : \A s \in Registers(c) :
          At(b, r) = At(c, s) => b = c /\ r = s
<1>1. /\ \A r \in 0 .. 4 : At("SEQ", r) = r + 2
      /\ \A r \in 0 .. 24 : At("CRTC", r) = r + 7
      /\ \A r \in 0 .. 8 : At("GC", r) = r + 32
      /\ \A r \in 0 .. 20 : At("AC", r) = r + 41
  BY AtIs
<1>2. \A b \in DOMAIN Num : \A r \in Registers(b) : At(b, r) \in 2 .. 61
  BY <1>1, Banks, Registered
<1>3. ASSUME NEW n \in 2 .. 61
      PROVE  \E b \in DOMAIN Num : \E r \in Registers(b) : n = At(b, r)
  <2>1. CASE n <= 6
    <3>1. n - 2 \in Registers("SEQ") /\ At("SEQ", n - 2) = n
      BY <1>1, <2>1, Registered
    <3> QED BY <3>1, Banks
  <2>2. CASE n > 6 /\ n <= 31
    <3>1. n - 7 \in Registers("CRTC") /\ At("CRTC", n - 7) = n
      BY <1>1, <2>2, Registered
    <3> QED BY <3>1, Banks
  <2>3. CASE n > 31 /\ n <= 40
    <3>1. n - 32 \in Registers("GC") /\ At("GC", n - 32) = n
      BY <1>1, <2>3, Registered
    <3> QED BY <3>1, Banks
  <2>4. CASE n > 40
    <3>1. n - 41 \in Registers("AC") /\ At("AC", n - 41) = n
      BY <1>1, <2>4, Registered
    <3> QED BY <3>1, Banks
  <2> QED BY <2>1, <2>2, <2>3, <2>4
<1>4. ASSUME NEW b \in DOMAIN Num, NEW c \in DOMAIN Num,
             NEW r \in Registers(b), NEW s \in Registers(c), At(b, r) = At(c, s)
      PROVE  b = c /\ r = s
  BY <1>1, <1>4, Banks, Registered
<1> QED BY <1>2, <1>3, <1>4

(* What Unlock makes of a dump. *)
LEMMA DumpFacts ==
    ASSUME NEW d \in Dumps
    PROVE  /\ d # <<>> /\ DOMAIN d = 1 .. 61 /\ d = [n \in 1 .. 61 |-> d[n]]
           /\ DOMAIN Forced(d) = 1 .. 61 /\ Forced(d) = [n \in 1 .. 61 |-> Forced(d)[n]]
           /\ \A n \in 1 .. 61 : d[n] \in Byte /\ Forced(d)[n] \in Byte
           /\ \A n \in 1 .. 61 : n # 10 /\ n # 24 => Forced(d)[n] = d[n]
           /\ d[1] % 2 = 1 /\ Bit7(Forced(d)[10]) /\ ~Bit7(Forced(d)[24])
<1>1. d \in Seq(Byte) /\ Len(d) = 61 /\ d[1] % 2 = 1
  BY DumpAssumption
<1>2. d \in [1 .. 61 -> Byte]
  BY <1>1, LenProperties
<1>8. /\ DOMAIN d = 1 .. 61 /\ d = [n \in 1 .. 61 |-> d[n]]
      /\ \A n \in 1 .. 61 : d[n] \in Byte
  BY <1>2
<1>3. d # <<>>
  <2>1. DOMAIN <<>> = {}
    OBVIOUS
  <2>2. 1 \in DOMAIN d
    BY <1>8
  <2> QED BY <2>1, <2>2
<1>4. At("CRTC", 3) = 10 /\ At("CRTC", 17) = 24
  BY AtIs
<1>5. /\ DOMAIN Forced(d) = 1 .. 61 /\ Forced(d) = [n \in 1 .. 61 |-> Forced(d)[n]]
      /\ \A n \in 1 .. 61 : n # 10 /\ n # 24 => Forced(d)[n] = d[n]
      /\ Forced(d)[10] = Set7(d[10]) /\ Forced(d)[24] = Clear7(d[24])
  <2>1. Forced(d) = [d EXCEPT ![10] = Set7(@), ![24] = Clear7(@)]
    BY <1>4 DEF Forced
  <2> DEFINE a == Set7(d[10])
             b == Clear7(d[24])
  <2> HIDE DEF a, b
  <2>2. Forced(d) = [d EXCEPT ![10] = a, ![24] = b]
    BY <2>1 DEF a, b
  <2>3. PICK e : e = [n \in 1 .. 61 |-> IF n = 24 THEN b ELSE IF n = 10 THEN a ELSE d[n]]
    OBVIOUS
  <2>4. Forced(d) = e
    BY <1>8, <2>2, <2>3
  <2>5. /\ DOMAIN e = 1 .. 61 /\ e = [n \in 1 .. 61 |-> e[n]]
        /\ \A n \in 1 .. 61 : n # 10 /\ n # 24 => e[n] = d[n]
        /\ e[10] = a /\ e[24] = b
    BY <2>3
  <2> QED BY <2>4, <2>5 DEF a, b
<1>6. Set7(d[10]) \in Byte /\ Bit7(Set7(d[10])) /\ Clear7(d[24]) \in Byte /\ ~Bit7(Clear7(d[24]))
  <2>1. ASSUME NEW v \in Byte PROVE Set7(v) \in Byte /\ Bit7(Set7(v))
    BY DEF Byte, Set7, Bit7
  <2>2. ASSUME NEW v \in Byte PROVE Clear7(v) \in Byte /\ ~Bit7(Clear7(v))
    <3>1. v % 128 \in 0 .. 127
      BY DEF Byte
    <3>2. v % 128 \in Byte /\ ~(v % 128 >= 128)
      BY <3>1 DEF Byte
    <3> QED BY <3>2 DEF Clear7, Bit7
  <2>3. d[10] \in Byte /\ d[24] \in Byte
    BY <1>8
  <2> QED BY <2>1, <2>2, <2>3
<1>7. \A n \in 1 .. 61 : Forced(d)[n] \in Byte
  BY <1>8, <1>5, <1>6
<1> QED BY <1>1, <1>8, <1>3, <1>5, <1>6, <1>7

-----------------------------------------------------------------------------
(* The programs. *)

Doings == {"OutMisc", "InMisc", "OutIndex", "OutData", "InData", "InStatus", "SetBit7",
           "ClearBit7", "Unlock"}

Accesses == [do : Doings, b : {"MISC", "SEQ", "CRTC", "GC", "AC"}, r : Int]

(* A sequence of two parts. *)
Joined(u, s, t) ==
    /\ u \in Seq(Accesses) /\ Len(u) = Len(s) + Len(t)
    /\ \A i \in 1 .. Len(s) : u[i] = s[i]
    /\ \A i \in 1 .. Len(t) : u[Len(s) + i] = t[i]

(* Programs are concatenated. *)
LEMMA Seam ==
    ASSUME NEW s \in Seq(Accesses), NEW t \in Seq(Accesses)
    PROVE  Joined(s \o t, s, t)
<1>1. /\ s \o t \in Seq(Accesses) /\ Len(s \o t) = Len(s) + Len(t)
      /\ \A i \in 1 .. Len(s) + Len(t) :
            (s \o t)[i] = IF i <= Len(s) THEN s[i] ELSE t[i - Len(s)]
  BY ConcatProperties
<1>2. Len(s) \in Nat /\ Len(t) \in Nat
  BY LenProperties
<1>3. ASSUME NEW i \in 1 .. Len(s) PROVE (s \o t)[i] = s[i]
  <2>1. i \in 1 .. Len(s) + Len(t) /\ i <= Len(s)
    BY <1>2
  <2> QED BY <1>1, <2>1
<1>4. ASSUME NEW i \in 1 .. Len(t) PROVE (s \o t)[Len(s) + i] = t[i]
  <2>1. /\ Len(s) + i \in 1 .. Len(s) + Len(t) /\ ~(Len(s) + i <= Len(s))
        /\ (Len(s) + i) - Len(s) = i
    BY <1>2
  <2> QED BY <1>1, <2>1
<1> QED BY <1>1, <1>3, <1>4 DEF Joined

(* Two, or three, accesses to each register of a bank. *)
Twice(s, b, x, y) ==
    /\ s \in Seq(Accesses) /\ Len(s) = 2 * Num[b]
    /\ \A r \in Registers(b) : s[2 * r + 1] = A(x, b, r) /\ s[2 * r + 2] = A(y, b, r)

Thrice(s, b, x, y, z) ==
    /\ s \in Seq(Accesses) /\ Len(s) = 3 * Num[b]
    /\ \A r \in Registers(b) :
          s[3 * r + 1] = A(x, b, r) /\ s[3 * r + 2] = A(y, b, r) /\ s[3 * r + 3] = A(z, b, r)

(* A bank whose registers take two accesses each. *)
LEMMA EachTwo ==
    ASSUME NEW b \in DOMAIN Num, NEW x \in Doings, NEW y \in Doings
    PROVE  Twice(Each(b, <<x, y>>), b, x, y)
<1> DEFINE s == Each(b, <<x, y>>)
           w == <<x, y>>
           e(n) == A(w[((n - 1) % 2) + 1], b, (n - 1) \div 2)
<1>1. Len(w) = 2 /\ w[1] = x /\ w[2] = y
  OBVIOUS
<1>2. s = [n \in 1 .. 2 * Num[b] |-> e(n)]
  BY <1>1 DEF Each
<1>3. 2 * Num[b] \in Nat /\ b \in {"MISC", "SEQ", "CRTC", "GC", "AC"}
  <2>1. b = "SEQ" \/ b = "CRTC" \/ b = "GC" \/ b = "AC"
    BY Banks
  <2> QED BY <2>1, Banks
<1>4. \A n \in 1 .. 2 * Num[b] : e(n) \in Accesses
  <2> TAKE n \in 1 .. 2 * Num[b]
  <2>1. (n - 1) \div 2 \in Int /\ ((n - 1) % 2 = 0 \/ (n - 1) % 2 = 1)
    BY <1>3
  <2>2. w[((n - 1) % 2) + 1] \in Doings
    <3> DEFINE t == ((n - 1) % 2) + 1
    <3>1. t = 1 \/ t = 2
      BY <2>1
    <3> HIDE DEF t, w
    <3>2. w[t] \in Doings
      BY <1>1, <3>1
    <3> QED BY <3>2 DEF t
  <2> QED BY <1>3, <2>1, <2>2 DEF A, Accesses
<1>5. s \in Seq(Accesses) /\ Len(s) = 2 * Num[b]
  <2> HIDE DEF e, s
  <2>1. \A n \in 1 .. 2 * Num[b] : s[n] \in Accesses
    BY <1>2, <1>4
  <2>2. s \in [1 .. 2 * Num[b] -> Accesses]
    BY <1>2, <1>4
  <2> QED BY <1>3, <2>2
<1>6. ASSUME NEW r \in Registers(b)
      PROVE  s[2 * r + 1] = A(x, b, r) /\ s[2 * r + 2] = A(y, b, r)
  <2>1. /\ r \in Nat /\ 2 * r + 1 \in 1 .. 2 * Num[b] /\ 2 * r + 2 \in 1 .. 2 * Num[b]
    BY Banks DEF Registers
  <2>2. /\ ((2 * r + 1) - 1) % 2 = 0 /\ ((2 * r + 1) - 1) \div 2 = r
        /\ ((2 * r + 2) - 1) % 2 = 1 /\ ((2 * r + 2) - 1) \div 2 = r
    BY <2>1
  <2>3. e(2 * r + 1) = A(x, b, r) /\ e(2 * r + 2) = A(y, b, r)
    <3>1. 0 + 1 = 1 /\ 1 + 1 = 2
      OBVIOUS
    <3> HIDE DEF w
    <3> QED BY <1>1, <2>2, <3>1
  <2> HIDE DEF e, s
  <2> QED BY <1>2, <2>1, <2>3
<1> QED BY <1>5, <1>6 DEF Twice

(* The attribute controller's, which take three. *)
LEMMA EachThree ==
    ASSUME NEW b \in DOMAIN Num, NEW x \in Doings, NEW y \in Doings, NEW z \in Doings
    PROVE  Thrice(Each(b, <<x>> \o <<y, z>>), b, x, y, z)
<1> DEFINE w == <<x>> \o <<y, z>>
           s == Each(b, w)
           e(n) == A(w[((n - 1) % 3) + 1], b, (n - 1) \div 3)
<1>1. Len(w) = 3 /\ w[1] = x /\ w[2] = y /\ w[3] = z
  <2>1. <<x>> \in Seq(Doings) /\ Len(<<x>>) = 1 /\ <<x>>[1] = x
    OBVIOUS
  <2>2. <<y, z>> \in Seq(Doings) /\ Len(<<y, z>>) = 2 /\ <<y, z>>[1] = y /\ <<y, z>>[2] = z
    OBVIOUS
  <2>3. /\ Len(w) = 1 + 2
        /\ \A i \in 1 .. 1 + 2 : w[i] = IF i <= 1 THEN <<x>>[i] ELSE <<y, z>>[i - 1]
    BY <2>1, <2>2, ConcatProperties
  <2>4. 1 <= 1 /\ ~(2 <= 1) /\ ~(3 <= 1) /\ 2 - 1 = 1 /\ 3 - 1 = 2 /\ 1 + 2 = 3
        /\ 1 \in 1 .. 3 /\ 2 \in 1 .. 3 /\ 3 \in 1 .. 3
    OBVIOUS
  <2> HIDE DEF w
  <2> QED BY <2>1, <2>2, <2>3, <2>4
<1> HIDE DEF w
<1>2. s = [n \in 1 .. 3 * Num[b] |-> e(n)]
  BY <1>1 DEF Each
<1>3. 3 * Num[b] \in Nat /\ b \in {"MISC", "SEQ", "CRTC", "GC", "AC"}
  <2>1. b = "SEQ" \/ b = "CRTC" \/ b = "GC" \/ b = "AC"
    BY Banks
  <2> QED BY <2>1, Banks
<1>4. \A n \in 1 .. 3 * Num[b] : e(n) \in Accesses
  <2> TAKE n \in 1 .. 3 * Num[b]
  <2>1. (n - 1) \div 3 \in Int /\ ((n - 1) % 3 = 0 \/ (n - 1) % 3 = 1 \/ (n - 1) % 3 = 2)
    BY <1>3
  <2>2. w[((n - 1) % 3) + 1] \in Doings
    <3> DEFINE t == ((n - 1) % 3) + 1
    <3>1. t = 1 \/ t = 2 \/ t = 3
      BY <2>1
    <3> HIDE DEF t, w
    <3>2. w[t] \in Doings
      BY <1>1, <3>1
    <3> QED BY <3>2 DEF t
  <2> QED BY <1>3, <2>1, <2>2 DEF A, Accesses
<1>5. s \in Seq(Accesses) /\ Len(s) = 3 * Num[b]
  <2> HIDE DEF e, s
  <2>1. \A n \in 1 .. 3 * Num[b] : s[n] \in Accesses
    BY <1>2, <1>4
  <2>2. s \in [1 .. 3 * Num[b] -> Accesses]
    BY <1>2, <1>4
  <2> QED BY <1>3, <2>2
<1>6. ASSUME NEW r \in Registers(b)
      PROVE  /\ s[3 * r + 1] = A(x, b, r) /\ s[3 * r + 2] = A(y, b, r)
             /\ s[3 * r + 3] = A(z, b, r)
  <2>1. /\ r \in Nat /\ 3 * r + 1 \in 1 .. 3 * Num[b] /\ 3 * r + 2 \in 1 .. 3 * Num[b]
        /\ 3 * r + 3 \in 1 .. 3 * Num[b]
    BY Banks DEF Registers
  <2>2. /\ ((3 * r + 1) - 1) % 3 = 0 /\ ((3 * r + 1) - 1) \div 3 = r
        /\ ((3 * r + 2) - 1) % 3 = 1 /\ ((3 * r + 2) - 1) \div 3 = r
        /\ ((3 * r + 3) - 1) % 3 = 2 /\ ((3 * r + 3) - 1) \div 3 = r
    BY <2>1
  <2>3. /\ e(3 * r + 1) = A(x, b, r) /\ e(3 * r + 2) = A(y, b, r)
        /\ e(3 * r + 3) = A(z, b, r)
    <3>1. 0 + 1 = 1 /\ 1 + 1 = 2 /\ 2 + 1 = 3
      OBVIOUS
    <3> QED BY <1>1, <2>2, <3>1
  <2> HIDE DEF e, s
  <2> QED BY <1>2, <2>1, <2>3
<1> QED BY <1>5, <1>6 DEF Thrice, w

(* The turns of the two functions. *)
LEMMA Turns ==
    /\ \A b \in DOMAIN Num : /\ Twice(Each(b, Writes), b, "OutIndex", "OutData")
                              /\ Twice(Each(b, Reads), b, "OutIndex", "InData")
    /\ Thrice(Each("AC", <<"InStatus">> \o Writes), "AC", "InStatus", "OutIndex", "OutData")
    /\ Thrice(Each("AC", <<"InStatus">> \o Reads), "AC", "InStatus", "OutIndex", "InData")
<1>1. /\ "OutIndex" \in Doings /\ "OutData" \in Doings /\ "InData" \in Doings
      /\ "InStatus" \in Doings /\ "AC" \in DOMAIN Num
  BY Banks DEF Doings
<1>2. \A b \in DOMAIN Num : Twice(Each(b, <<"OutIndex", "OutData">>), b, "OutIndex", "OutData")
  BY <1>1, EachTwo
<1>3. \A b \in DOMAIN Num : Twice(Each(b, <<"OutIndex", "InData">>), b, "OutIndex", "InData")
  BY <1>1, EachTwo
<1>4. Thrice(Each("AC", <<"InStatus">> \o <<"OutIndex", "OutData">>), "AC", "InStatus", "OutIndex", "OutData")
  BY <1>1, EachThree
<1>5. Thrice(Each("AC", <<"InStatus">> \o <<"OutIndex", "InData">>), "AC", "InStatus", "OutIndex", "InData")
  BY <1>1, EachThree
<1> QED BY <1>2, <1>3, <1>4, <1>5 DEF Writes, Reads

(* The accesses of write_regs, by place. *)
LEMMA WriteProgram ==
    /\ Len(write_regs) = 149
    /\ write_regs[1] = A("OutMisc", "MISC", 0)
    /\ write_regs[12] = A("OutIndex", "CRTC", 3)
    /\ write_regs[13] = A("SetBit7", "CRTC", 3)
    /\ write_regs[14] = A("OutIndex", "CRTC", 17)
    /\ write_regs[15] = A("ClearBit7", "CRTC", 17)
    /\ write_regs[16] = A("Unlock", "CRTC", 0)
    /\ write_regs[148] = A("InStatus", "AC", 0)
    /\ write_regs[149] = A("OutIndex", "AC", 32)
    /\ \A b \in DOMAIN Num : \A r \in Registers(b) :
          /\ write_regs[Put(b, r) - 1] = A("OutIndex", b, r)
          /\ write_regs[Put(b, r)] = A("OutData", b, r)
    /\ \A r \in Registers("AC") : write_regs[Put("AC", r) - 2] = A("InStatus", "AC", r)
<1> DEFINE s1 == <<A("OutMisc", "MISC", 0)>>
           s2 == Each("SEQ", Writes)
           s3 == Rewrite("SetBit7", 3)
           s4 == Rewrite("ClearBit7", 17)
           s5 == <<A("Unlock", "CRTC", 0)>>
           s6 == Each("CRTC", Writes)
           s7 == Each("GC", Writes)
           s8 == Each("AC", <<"InStatus">> \o Writes)
           s9 == Unblank
           p2 == s1 \o s2
           p3 == p2 \o s3
           p4 == p3 \o s4
           p5 == p4 \o s5
           p6 == p5 \o s6
           p7 == p6 \o s7
           p8 == p7 \o s8
           p9 == p8 \o s9
<1>1. write_regs = p9
  BY DEF write_regs
<1>2. s1 \in Seq(Accesses) /\ Len(s1) = 1
  BY DEF A, Accesses, Doings
<1>3. s2 \in Seq(Accesses) /\ Len(s2) = 10
  <2>1. Twice(s2, "SEQ", "OutIndex", "OutData")
    BY Turns, Banks
  <2> HIDE DEF s2
  <2> QED BY <2>1, Banks DEF Twice
<1>4. s3 \in Seq(Accesses) /\ Len(s3) = 2
  BY DEF Rewrite, A, Accesses, Doings
<1>5. s4 \in Seq(Accesses) /\ Len(s4) = 2
  BY DEF Rewrite, A, Accesses, Doings
<1>6. s5 \in Seq(Accesses) /\ Len(s5) = 1
  BY DEF A, Accesses, Doings
<1>7. s6 \in Seq(Accesses) /\ Len(s6) = 50
  <2>1. Twice(s6, "CRTC", "OutIndex", "OutData")
    BY Turns, Banks
  <2> HIDE DEF s6
  <2> QED BY <2>1, Banks DEF Twice
<1>8. s7 \in Seq(Accesses) /\ Len(s7) = 18
  <2>1. Twice(s7, "GC", "OutIndex", "OutData")
    BY Turns, Banks
  <2> HIDE DEF s7
  <2> QED BY <2>1, Banks DEF Twice
<1>9. s8 \in Seq(Accesses) /\ Len(s8) = 63
  BY Turns, Banks DEF Thrice
<1>10. s9 \in Seq(Accesses) /\ Len(s9) = 2
  BY DEF Unblank, A, Accesses, Doings
<1> HIDE DEF s1, s2, s3, s4, s5, s6, s7, s8, s9
<1>11. Joined(p2, s1, s2)
  BY <1>2, <1>3, Seam
<1> HIDE DEF p2
<1>12. p2 \in Seq(Accesses) /\ Len(p2) = 11
  BY <1>2, <1>3, <1>11 DEF Joined
<1>13. /\ \A i \in 1 .. 1 : p2[i] = s1[i]
       /\ \A i \in 1 .. 10 : p2[1 + i] = s2[i]
  BY <1>2, <1>3, <1>11 DEF Joined
<1>14. Joined(p3, p2, s3)
  <2> HIDE DEF p2
  <2> QED BY <1>12, <1>4, Seam
<1> HIDE DEF p3
<1>15. p3 \in Seq(Accesses) /\ Len(p3) = 13
  BY <1>12, <1>4, <1>14 DEF Joined
<1>16. /\ \A i \in 1 .. 11 : p3[i] = p2[i]
       /\ \A i \in 1 .. 2 : p3[11 + i] = s3[i]
  BY <1>12, <1>4, <1>14 DEF Joined
<1>17. Joined(p4, p3, s4)
  <2> HIDE DEF p3
  <2> QED BY <1>15, <1>5, Seam
<1> HIDE DEF p4
<1>18. p4 \in Seq(Accesses) /\ Len(p4) = 15
  BY <1>15, <1>5, <1>17 DEF Joined
<1>19. /\ \A i \in 1 .. 13 : p4[i] = p3[i]
       /\ \A i \in 1 .. 2 : p4[13 + i] = s4[i]
  BY <1>15, <1>5, <1>17 DEF Joined
<1>20. Joined(p5, p4, s5)
  <2> HIDE DEF p4
  <2> QED BY <1>18, <1>6, Seam
<1> HIDE DEF p5
<1>21. p5 \in Seq(Accesses) /\ Len(p5) = 16
  BY <1>18, <1>6, <1>20 DEF Joined
<1>22. /\ \A i \in 1 .. 15 : p5[i] = p4[i]
       /\ \A i \in 1 .. 1 : p5[15 + i] = s5[i]
  BY <1>18, <1>6, <1>20 DEF Joined
<1>23. Joined(p6, p5, s6)
  <2> HIDE DEF p5
  <2> QED BY <1>21, <1>7, Seam
<1> HIDE DEF p6
<1>24. p6 \in Seq(Accesses) /\ Len(p6) = 66
  BY <1>21, <1>7, <1>23 DEF Joined
<1>25. /\ \A i \in 1 .. 16 : p6[i] = p5[i]
       /\ \A i \in 1 .. 50 : p6[16 + i] = s6[i]
  BY <1>21, <1>7, <1>23 DEF Joined
<1>26. Joined(p7, p6, s7)
  <2> HIDE DEF p6
  <2> QED BY <1>24, <1>8, Seam
<1> HIDE DEF p7
<1>27. p7 \in Seq(Accesses) /\ Len(p7) = 84
  BY <1>24, <1>8, <1>26 DEF Joined
<1>28. /\ \A i \in 1 .. 66 : p7[i] = p6[i]
       /\ \A i \in 1 .. 18 : p7[66 + i] = s7[i]
  BY <1>24, <1>8, <1>26 DEF Joined
<1>29. Joined(p8, p7, s8)
  <2> HIDE DEF p7
  <2> QED BY <1>27, <1>9, Seam
<1> HIDE DEF p8
<1>30. p8 \in Seq(Accesses) /\ Len(p8) = 147
  BY <1>27, <1>9, <1>29 DEF Joined
<1>31. /\ \A i \in 1 .. 84 : p8[i] = p7[i]
       /\ \A i \in 1 .. 63 : p8[84 + i] = s8[i]
  BY <1>27, <1>9, <1>29 DEF Joined
<1>32. Joined(p9, p8, s9)
  <2> HIDE DEF p8
  <2> QED BY <1>30, <1>10, Seam
<1> HIDE DEF p9
<1>33. p9 \in Seq(Accesses) /\ Len(p9) = 149
  BY <1>30, <1>10, <1>32 DEF Joined
<1>34. /\ \A i \in 1 .. 147 : p9[i] = p8[i]
       /\ \A i \in 1 .. 2 : p9[147 + i] = s9[i]
  BY <1>30, <1>10, <1>32 DEF Joined
<1>35. \A i \in 1 .. 149 : write_regs[i] = p9[i]
  BY <1>1
<1>36. \A i \in 1 .. 147 : write_regs[i] = p8[i]
  <2> TAKE i \in 1 .. 147
  <2>1. i \in 1 .. 149
    OBVIOUS
  <2> QED BY <1>35, <1>34, <2>1
<1>37. \A i \in 1 .. 84 : write_regs[i] = p7[i]
  <2> TAKE i \in 1 .. 84
  <2>1. i \in 1 .. 147
    OBVIOUS
  <2> QED BY <1>36, <1>31, <2>1
<1>38. \A i \in 1 .. 66 : write_regs[i] = p6[i]
  <2> TAKE i \in 1 .. 66
  <2>1. i \in 1 .. 84
    OBVIOUS
  <2> QED BY <1>37, <1>28, <2>1
<1>39. \A i \in 1 .. 16 : write_regs[i] = p5[i]
  <2> TAKE i \in 1 .. 16
  <2>1. i \in 1 .. 66
    OBVIOUS
  <2> QED BY <1>38, <1>25, <2>1
<1>40. \A i \in 1 .. 15 : write_regs[i] = p4[i]
  <2> TAKE i \in 1 .. 15
  <2>1. i \in 1 .. 16
    OBVIOUS
  <2> QED BY <1>39, <1>22, <2>1
<1>41. \A i \in 1 .. 13 : write_regs[i] = p3[i]
  <2> TAKE i \in 1 .. 13
  <2>1. i \in 1 .. 15
    OBVIOUS
  <2> QED BY <1>40, <1>19, <2>1
<1>42. \A i \in 1 .. 11 : write_regs[i] = p2[i]
  <2> TAKE i \in 1 .. 11
  <2>1. i \in 1 .. 13
    OBVIOUS
  <2> QED BY <1>41, <1>16, <2>1
<1>43. \A i \in 1 .. 1 : write_regs[i] = s1[i]
  <2> TAKE i \in 1 .. 1
  <2>1. i \in 1 .. 11
    OBVIOUS
  <2> QED BY <1>42, <1>13, <2>1
<1>44. \A i \in 1 .. 10 : write_regs[1 + i] = s2[i]
  <2> TAKE i \in 1 .. 10
  <2>1. 1 + i \in 1 .. 11
    OBVIOUS
  <2> QED BY <1>42, <1>13, <2>1
<1>45. \A i \in 1 .. 2 : write_regs[11 + i] = s3[i]
  <2> TAKE i \in 1 .. 2
  <2>1. 11 + i \in 1 .. 13
    OBVIOUS
  <2> QED BY <1>41, <1>16, <2>1
<1>46. \A i \in 1 .. 2 : write_regs[13 + i] = s4[i]
  <2> TAKE i \in 1 .. 2
  <2>1. 13 + i \in 1 .. 15
    OBVIOUS
  <2> QED BY <1>40, <1>19, <2>1
<1>47. \A i \in 1 .. 1 : write_regs[15 + i] = s5[i]
  <2> TAKE i \in 1 .. 1
  <2>1. 15 + i \in 1 .. 16
    OBVIOUS
  <2> QED BY <1>39, <1>22, <2>1
<1>48. \A i \in 1 .. 50 : write_regs[16 + i] = s6[i]
  <2> TAKE i \in 1 .. 50
  <2>1. 16 + i \in 1 .. 66
    OBVIOUS
  <2> QED BY <1>38, <1>25, <2>1
<1>49. \A i \in 1 .. 18 : write_regs[66 + i] = s7[i]
  <2> TAKE i \in 1 .. 18
  <2>1. 66 + i \in 1 .. 84
    OBVIOUS
  <2> QED BY <1>37, <1>28, <2>1
<1>50. \A i \in 1 .. 63 : write_regs[84 + i] = s8[i]
  <2> TAKE i \in 1 .. 63
  <2>1. 84 + i \in 1 .. 147
    OBVIOUS
  <2> QED BY <1>36, <1>31, <2>1
<1>51. \A i \in 1 .. 2 : write_regs[147 + i] = s9[i]
  <2> TAKE i \in 1 .. 2
  <2>1. 147 + i \in 1 .. 149
    OBVIOUS
  <2> QED BY <1>35, <1>34, <2>1
<1>52. write_regs[1] = A("OutMisc", "MISC", 0)
  <2>1. s1[1] = A("OutMisc", "MISC", 0)
    BY DEF s1
  <2>2. 1 \in 1 .. 1 /\ 0 + 1 = 1
    OBVIOUS
  <2> QED BY <1>43, <2>1, <2>2
<1>53. write_regs[12] = A("OutIndex", "CRTC", 3)
  <2>1. s3[1] = A("OutIndex", "CRTC", 3)
    BY DEF s3, Rewrite
  <2>2. 1 \in 1 .. 2 /\ 11 + 1 = 12
    OBVIOUS
  <2> QED BY <1>45, <2>1, <2>2
<1>54. write_regs[13] = A("SetBit7", "CRTC", 3)
  <2>1. s3[2] = A("SetBit7", "CRTC", 3)
    BY DEF s3, Rewrite
  <2>2. 2 \in 1 .. 2 /\ 11 + 2 = 13
    OBVIOUS
  <2> QED BY <1>45, <2>1, <2>2
<1>55. write_regs[14] = A("OutIndex", "CRTC", 17)
  <2>1. s4[1] = A("OutIndex", "CRTC", 17)
    BY DEF s4, Rewrite
  <2>2. 1 \in 1 .. 2 /\ 13 + 1 = 14
    OBVIOUS
  <2> QED BY <1>46, <2>1, <2>2
<1>56. write_regs[15] = A("ClearBit7", "CRTC", 17)
  <2>1. s4[2] = A("ClearBit7", "CRTC", 17)
    BY DEF s4, Rewrite
  <2>2. 2 \in 1 .. 2 /\ 13 + 2 = 15
    OBVIOUS
  <2> QED BY <1>46, <2>1, <2>2
<1>57. write_regs[16] = A("Unlock", "CRTC", 0)
  <2>1. s5[1] = A("Unlock", "CRTC", 0)
    BY DEF s5
  <2>2. 1 \in 1 .. 1 /\ 15 + 1 = 16
    OBVIOUS
  <2> QED BY <1>47, <2>1, <2>2
<1>58. write_regs[148] = A("InStatus", "AC", 0)
  <2>1. s9[1] = A("InStatus", "AC", 0)
    BY DEF s9, Unblank
  <2>2. 1 \in 1 .. 2 /\ 147 + 1 = 148
    OBVIOUS
  <2> QED BY <1>51, <2>1, <2>2
<1>59. write_regs[149] = A("OutIndex", "AC", 32)
  <2>1. s9[2] = A("OutIndex", "AC", 32)
    BY DEF s9, Unblank
  <2>2. 2 \in 1 .. 2 /\ 147 + 2 = 149
    OBVIOUS
  <2> QED BY <1>51, <2>1, <2>2
<1>60. ASSUME NEW r \in Registers("SEQ")
       PROVE  /\ write_regs[Put("SEQ", r) - 1] = A("OutIndex", "SEQ", r)
              /\ write_regs[Put("SEQ", r)] = A("OutData", "SEQ", r)
  <2>1. r \in 0 .. 4
    BY Registered
  <2>2. Put("SEQ", r) = 3 + 2 * r
    BY DEF Put
  <2>3. /\ s2[2 * r + 1] = A("OutIndex", "SEQ", r)
        /\ s2[2 * r + 2] = A("OutData", "SEQ", r)
    BY Turns, Banks DEF s2, Twice
  <2>4. /\ 2 * r + 1 \in 1 .. 10 /\ 1 + (2 * r + 1) = (3 + 2 * r) - 1
        /\ 2 * r + 2 \in 1 .. 10 /\ 1 + (2 * r + 2) = 3 + 2 * r
    BY <2>1
  <2> QED BY <1>44, <2>2, <2>3, <2>4
<1>61. ASSUME NEW r \in Registers("CRTC")
       PROVE  /\ write_regs[Put("CRTC", r) - 1] = A("OutIndex", "CRTC", r)
              /\ write_regs[Put("CRTC", r)] = A("OutData", "CRTC", r)
  <2>1. r \in 0 .. 24
    BY Registered
  <2>2. Put("CRTC", r) = 18 + 2 * r
    BY DEF Put
  <2>3. /\ s6[2 * r + 1] = A("OutIndex", "CRTC", r)
        /\ s6[2 * r + 2] = A("OutData", "CRTC", r)
    BY Turns, Banks DEF s6, Twice
  <2>4. /\ 2 * r + 1 \in 1 .. 50 /\ 16 + (2 * r + 1) = (18 + 2 * r) - 1
        /\ 2 * r + 2 \in 1 .. 50 /\ 16 + (2 * r + 2) = 18 + 2 * r
    BY <2>1
  <2> QED BY <1>48, <2>2, <2>3, <2>4
<1>62. ASSUME NEW r \in Registers("GC")
       PROVE  /\ write_regs[Put("GC", r) - 1] = A("OutIndex", "GC", r)
              /\ write_regs[Put("GC", r)] = A("OutData", "GC", r)
  <2>1. r \in 0 .. 8
    BY Registered
  <2>2. Put("GC", r) = 68 + 2 * r
    BY DEF Put
  <2>3. /\ s7[2 * r + 1] = A("OutIndex", "GC", r)
        /\ s7[2 * r + 2] = A("OutData", "GC", r)
    BY Turns, Banks DEF s7, Twice
  <2>4. /\ 2 * r + 1 \in 1 .. 18 /\ 66 + (2 * r + 1) = (68 + 2 * r) - 1
        /\ 2 * r + 2 \in 1 .. 18 /\ 66 + (2 * r + 2) = 68 + 2 * r
    BY <2>1
  <2> QED BY <1>49, <2>2, <2>3, <2>4
<1>63. ASSUME NEW r \in Registers("AC")
       PROVE  /\ write_regs[Put("AC", r) - 1] = A("OutIndex", "AC", r)
              /\ write_regs[Put("AC", r)] = A("OutData", "AC", r)
              /\ write_regs[Put("AC", r) - 2] = A("InStatus", "AC", r)
  <2>1. r \in 0 .. 20
    BY Registered
  <2>2. Put("AC", r) = 87 + 3 * r
    BY DEF Put
  <2>3. /\ s8[3 * r + 1] = A("InStatus", "AC", r) /\ s8[3 * r + 2] = A("OutIndex", "AC", r)
        /\ s8[3 * r + 3] = A("OutData", "AC", r)
    BY Turns DEF s8, Thrice
  <2>4. /\ 3 * r + 1 \in 1 .. 63 /\ 84 + (3 * r + 1) = (87 + 3 * r) - 2
        /\ 3 * r + 2 \in 1 .. 63 /\ 84 + (3 * r + 2) = (87 + 3 * r) - 1
        /\ 3 * r + 3 \in 1 .. 63 /\ 84 + (3 * r + 3) = 87 + 3 * r
    BY <2>1
  <2> QED BY <1>50, <2>2, <2>3, <2>4
<1>64. Len(write_regs) = 149
  BY <1>1, <1>33
<1> QED BY <1>64, <1>52, <1>53, <1>54, <1>55, <1>56, <1>57, <1>58, <1>59, <1>60, <1>61, <1>62, <1>63, Banks

(* The accesses of read_regs, by place. *)
LEMMA ReadProgram ==
    /\ Len(read_regs) = 144
    /\ read_regs[1] = A("InMisc", "MISC", 0)
    /\ read_regs[143] = A("InStatus", "AC", 0)
    /\ read_regs[144] = A("OutIndex", "AC", 32)
    /\ \A b \in DOMAIN Num : \A r \in Registers(b) :
          /\ read_regs[Get(b, r) - 1] = A("OutIndex", b, r)
          /\ read_regs[Get(b, r)] = A("InData", b, r)
    /\ \A r \in Registers("AC") : read_regs[Get("AC", r) - 2] = A("InStatus", "AC", r)
<1> DEFINE s1 == <<A("InMisc", "MISC", 0)>>
           s2 == Each("SEQ", Reads)
           s3 == Each("CRTC", Reads)
           s4 == Each("GC", Reads)
           s5 == Each("AC", <<"InStatus">> \o Reads)
           s6 == Unblank
           p2 == s1 \o s2
           p3 == p2 \o s3
           p4 == p3 \o s4
           p5 == p4 \o s5
           p6 == p5 \o s6
<1>1. read_regs = p6
  BY DEF read_regs
<1>2. s1 \in Seq(Accesses) /\ Len(s1) = 1
  BY DEF A, Accesses, Doings
<1>3. s2 \in Seq(Accesses) /\ Len(s2) = 10
  <2>1. Twice(s2, "SEQ", "OutIndex", "InData")
    BY Turns, Banks
  <2> HIDE DEF s2
  <2> QED BY <2>1, Banks DEF Twice
<1>4. s3 \in Seq(Accesses) /\ Len(s3) = 50
  <2>1. Twice(s3, "CRTC", "OutIndex", "InData")
    BY Turns, Banks
  <2> HIDE DEF s3
  <2> QED BY <2>1, Banks DEF Twice
<1>5. s4 \in Seq(Accesses) /\ Len(s4) = 18
  <2>1. Twice(s4, "GC", "OutIndex", "InData")
    BY Turns, Banks
  <2> HIDE DEF s4
  <2> QED BY <2>1, Banks DEF Twice
<1>6. s5 \in Seq(Accesses) /\ Len(s5) = 63
  BY Turns, Banks DEF Thrice
<1>7. s6 \in Seq(Accesses) /\ Len(s6) = 2
  BY DEF Unblank, A, Accesses, Doings
<1> HIDE DEF s1, s2, s3, s4, s5, s6
<1>8. Joined(p2, s1, s2)
  BY <1>2, <1>3, Seam
<1> HIDE DEF p2
<1>9. p2 \in Seq(Accesses) /\ Len(p2) = 11
  BY <1>2, <1>3, <1>8 DEF Joined
<1>10. /\ \A i \in 1 .. 1 : p2[i] = s1[i]
       /\ \A i \in 1 .. 10 : p2[1 + i] = s2[i]
  BY <1>2, <1>3, <1>8 DEF Joined
<1>11. Joined(p3, p2, s3)
  <2> HIDE DEF p2
  <2> QED BY <1>9, <1>4, Seam
<1> HIDE DEF p3
<1>12. p3 \in Seq(Accesses) /\ Len(p3) = 61
  BY <1>9, <1>4, <1>11 DEF Joined
<1>13. /\ \A i \in 1 .. 11 : p3[i] = p2[i]
       /\ \A i \in 1 .. 50 : p3[11 + i] = s3[i]
  BY <1>9, <1>4, <1>11 DEF Joined
<1>14. Joined(p4, p3, s4)
  <2> HIDE DEF p3
  <2> QED BY <1>12, <1>5, Seam
<1> HIDE DEF p4
<1>15. p4 \in Seq(Accesses) /\ Len(p4) = 79
  BY <1>12, <1>5, <1>14 DEF Joined
<1>16. /\ \A i \in 1 .. 61 : p4[i] = p3[i]
       /\ \A i \in 1 .. 18 : p4[61 + i] = s4[i]
  BY <1>12, <1>5, <1>14 DEF Joined
<1>17. Joined(p5, p4, s5)
  <2> HIDE DEF p4
  <2> QED BY <1>15, <1>6, Seam
<1> HIDE DEF p5
<1>18. p5 \in Seq(Accesses) /\ Len(p5) = 142
  BY <1>15, <1>6, <1>17 DEF Joined
<1>19. /\ \A i \in 1 .. 79 : p5[i] = p4[i]
       /\ \A i \in 1 .. 63 : p5[79 + i] = s5[i]
  BY <1>15, <1>6, <1>17 DEF Joined
<1>20. Joined(p6, p5, s6)
  <2> HIDE DEF p5
  <2> QED BY <1>18, <1>7, Seam
<1> HIDE DEF p6
<1>21. p6 \in Seq(Accesses) /\ Len(p6) = 144
  BY <1>18, <1>7, <1>20 DEF Joined
<1>22. /\ \A i \in 1 .. 142 : p6[i] = p5[i]
       /\ \A i \in 1 .. 2 : p6[142 + i] = s6[i]
  BY <1>18, <1>7, <1>20 DEF Joined
<1>23. \A i \in 1 .. 144 : read_regs[i] = p6[i]
  BY <1>1
<1>24. \A i \in 1 .. 142 : read_regs[i] = p5[i]
  <2> TAKE i \in 1 .. 142
  <2>1. i \in 1 .. 144
    OBVIOUS
  <2> QED BY <1>23, <1>22, <2>1
<1>25. \A i \in 1 .. 79 : read_regs[i] = p4[i]
  <2> TAKE i \in 1 .. 79
  <2>1. i \in 1 .. 142
    OBVIOUS
  <2> QED BY <1>24, <1>19, <2>1
<1>26. \A i \in 1 .. 61 : read_regs[i] = p3[i]
  <2> TAKE i \in 1 .. 61
  <2>1. i \in 1 .. 79
    OBVIOUS
  <2> QED BY <1>25, <1>16, <2>1
<1>27. \A i \in 1 .. 11 : read_regs[i] = p2[i]
  <2> TAKE i \in 1 .. 11
  <2>1. i \in 1 .. 61
    OBVIOUS
  <2> QED BY <1>26, <1>13, <2>1
<1>28. \A i \in 1 .. 1 : read_regs[i] = s1[i]
  <2> TAKE i \in 1 .. 1
  <2>1. i \in 1 .. 11
    OBVIOUS
  <2> QED BY <1>27, <1>10, <2>1
<1>29. \A i \in 1 .. 10 : read_regs[1 + i] = s2[i]
  <2> TAKE i \in 1 .. 10
  <2>1. 1 + i \in 1 .. 11
    OBVIOUS
  <2> QED BY <1>27, <1>10, <2>1
<1>30. \A i \in 1 .. 50 : read_regs[11 + i] = s3[i]
  <2> TAKE i \in 1 .. 50
  <2>1. 11 + i \in 1 .. 61
    OBVIOUS
  <2> QED BY <1>26, <1>13, <2>1
<1>31. \A i \in 1 .. 18 : read_regs[61 + i] = s4[i]
  <2> TAKE i \in 1 .. 18
  <2>1. 61 + i \in 1 .. 79
    OBVIOUS
  <2> QED BY <1>25, <1>16, <2>1
<1>32. \A i \in 1 .. 63 : read_regs[79 + i] = s5[i]
  <2> TAKE i \in 1 .. 63
  <2>1. 79 + i \in 1 .. 142
    OBVIOUS
  <2> QED BY <1>24, <1>19, <2>1
<1>33. \A i \in 1 .. 2 : read_regs[142 + i] = s6[i]
  <2> TAKE i \in 1 .. 2
  <2>1. 142 + i \in 1 .. 144
    OBVIOUS
  <2> QED BY <1>23, <1>22, <2>1
<1>34. read_regs[1] = A("InMisc", "MISC", 0)
  <2>1. s1[1] = A("InMisc", "MISC", 0)
    BY DEF s1
  <2>2. 1 \in 1 .. 1 /\ 0 + 1 = 1
    OBVIOUS
  <2> QED BY <1>28, <2>1, <2>2
<1>35. read_regs[143] = A("InStatus", "AC", 0)
  <2>1. s6[1] = A("InStatus", "AC", 0)
    BY DEF s6, Unblank
  <2>2. 1 \in 1 .. 2 /\ 142 + 1 = 143
    OBVIOUS
  <2> QED BY <1>33, <2>1, <2>2
<1>36. read_regs[144] = A("OutIndex", "AC", 32)
  <2>1. s6[2] = A("OutIndex", "AC", 32)
    BY DEF s6, Unblank
  <2>2. 2 \in 1 .. 2 /\ 142 + 2 = 144
    OBVIOUS
  <2> QED BY <1>33, <2>1, <2>2
<1>37. ASSUME NEW r \in Registers("SEQ")
       PROVE  /\ read_regs[Get("SEQ", r) - 1] = A("OutIndex", "SEQ", r)
              /\ read_regs[Get("SEQ", r)] = A("InData", "SEQ", r)
  <2>1. r \in 0 .. 4
    BY Registered
  <2>2. Get("SEQ", r) = 3 + 2 * r
    BY DEF Get
  <2>3. /\ s2[2 * r + 1] = A("OutIndex", "SEQ", r)
        /\ s2[2 * r + 2] = A("InData", "SEQ", r)
    BY Turns, Banks DEF s2, Twice
  <2>4. /\ 2 * r + 1 \in 1 .. 10 /\ 1 + (2 * r + 1) = (3 + 2 * r) - 1
        /\ 2 * r + 2 \in 1 .. 10 /\ 1 + (2 * r + 2) = 3 + 2 * r
    BY <2>1
  <2> QED BY <1>29, <2>2, <2>3, <2>4
<1>38. ASSUME NEW r \in Registers("CRTC")
       PROVE  /\ read_regs[Get("CRTC", r) - 1] = A("OutIndex", "CRTC", r)
              /\ read_regs[Get("CRTC", r)] = A("InData", "CRTC", r)
  <2>1. r \in 0 .. 24
    BY Registered
  <2>2. Get("CRTC", r) = 13 + 2 * r
    BY DEF Get
  <2>3. /\ s3[2 * r + 1] = A("OutIndex", "CRTC", r)
        /\ s3[2 * r + 2] = A("InData", "CRTC", r)
    BY Turns, Banks DEF s3, Twice
  <2>4. /\ 2 * r + 1 \in 1 .. 50 /\ 11 + (2 * r + 1) = (13 + 2 * r) - 1
        /\ 2 * r + 2 \in 1 .. 50 /\ 11 + (2 * r + 2) = 13 + 2 * r
    BY <2>1
  <2> QED BY <1>30, <2>2, <2>3, <2>4
<1>39. ASSUME NEW r \in Registers("GC")
       PROVE  /\ read_regs[Get("GC", r) - 1] = A("OutIndex", "GC", r)
              /\ read_regs[Get("GC", r)] = A("InData", "GC", r)
  <2>1. r \in 0 .. 8
    BY Registered
  <2>2. Get("GC", r) = 63 + 2 * r
    BY DEF Get
  <2>3. /\ s4[2 * r + 1] = A("OutIndex", "GC", r)
        /\ s4[2 * r + 2] = A("InData", "GC", r)
    BY Turns, Banks DEF s4, Twice
  <2>4. /\ 2 * r + 1 \in 1 .. 18 /\ 61 + (2 * r + 1) = (63 + 2 * r) - 1
        /\ 2 * r + 2 \in 1 .. 18 /\ 61 + (2 * r + 2) = 63 + 2 * r
    BY <2>1
  <2> QED BY <1>31, <2>2, <2>3, <2>4
<1>40. ASSUME NEW r \in Registers("AC")
       PROVE  /\ read_regs[Get("AC", r) - 1] = A("OutIndex", "AC", r)
              /\ read_regs[Get("AC", r)] = A("InData", "AC", r)
              /\ read_regs[Get("AC", r) - 2] = A("InStatus", "AC", r)
  <2>1. r \in 0 .. 20
    BY Registered
  <2>2. Get("AC", r) = 82 + 3 * r
    BY DEF Get
  <2>3. /\ s5[3 * r + 1] = A("InStatus", "AC", r) /\ s5[3 * r + 2] = A("OutIndex", "AC", r)
        /\ s5[3 * r + 3] = A("InData", "AC", r)
    BY Turns DEF s5, Thrice
  <2>4. /\ 3 * r + 1 \in 1 .. 63 /\ 79 + (3 * r + 1) = (82 + 3 * r) - 2
        /\ 3 * r + 2 \in 1 .. 63 /\ 79 + (3 * r + 2) = (82 + 3 * r) - 1
        /\ 3 * r + 3 \in 1 .. 63 /\ 79 + (3 * r + 3) = 82 + 3 * r
    BY <2>1
  <2> QED BY <1>32, <2>2, <2>3, <2>4
<1>41. Len(read_regs) = 144
  BY <1>1, <1>21
<1> QED BY <1>41, <1>34, <1>35, <1>36, <1>37, <1>38, <1>39, <1>40, Banks

-----------------------------------------------------------------------------
(* Where the two programs are at a given access. *)

(* Which accesses of write_regs concern which register. *)
LEMMA PutApart ==
    \A b, c \in DOMAIN Num : \A r \in Registers(b) : \A s \in Registers(c) :
        /\ Put(b, r) \in 3 .. 147
        /\ Put(b, r) = Put(c, s) => b = c /\ r = s
        /\ Put(b, r) + 1 # Put(c, s)
        /\ c = "AC" => Put(b, r) + 2 # Put(c, s)
<1>1. /\ \A r \in 0 .. 4 : Put("SEQ", r) = 3 + 2 * r
      /\ \A r \in 0 .. 24 : Put("CRTC", r) = 18 + 2 * r
      /\ \A r \in 0 .. 8 : Put("GC", r) = 68 + 2 * r
      /\ \A r \in 0 .. 20 : Put("AC", r) = 87 + 3 * r
  BY DEF Put
<1>2. SUFFICES ASSUME NEW b \in DOMAIN Num, NEW c \in DOMAIN Num,
                      NEW r \in Registers(b), NEW s \in Registers(c)
      PROVE  /\ Put(b, r) \in 3 .. 147
             /\ Put(b, r) = Put(c, s) => b = c /\ r = s
             /\ Put(b, r) + 1 # Put(c, s)
             /\ c = "AC" => Put(b, r) + 2 # Put(c, s)
  OBVIOUS
<1> QED BY <1>1, Banks, Registered

(* The other accesses are apart from these. *)
LEMMA PutFixed ==
    \A n \in {1, 12, 13, 14, 15, 16, 148, 149} : \A b \in DOMAIN Num : \A r \in Registers(b) :
        /\ n # Put(b, r) /\ n + 1 # Put(b, r)
        /\ b = "AC" => n + 2 # Put(b, r)
<1>1. /\ \A r \in 0 .. 4 : Put("SEQ", r) = 3 + 2 * r
      /\ \A r \in 0 .. 24 : Put("CRTC", r) = 18 + 2 * r
      /\ \A r \in 0 .. 8 : Put("GC", r) = 68 + 2 * r
      /\ \A r \in 0 .. 20 : Put("AC", r) = 87 + 3 * r
  BY DEF Put
<1> QED BY <1>1, Banks, Registered

(* There are no others. *)
LEMMA PutPlaces ==
    \A n \in 1 .. 149 :
        \/ n \in {1, 12, 13, 14, 15, 16, 148, 149}
        \/ \E b \in DOMAIN Num : \E r \in Registers(b) :
              \/ n = Put(b, r)
              \/ n = Put(b, r) - 1
              \/ b = "AC" /\ n = Put(b, r) - 2
<1> SUFFICES ASSUME NEW n \in 1 .. 149, n \notin {1, 12, 13, 14, 15, 16, 148, 149}
             PROVE  \E b \in DOMAIN Num : \E r \in Registers(b) :
                       \/ n = Put(b, r)
                       \/ n = Put(b, r) - 1
                       \/ b = "AC" /\ n = Put(b, r) - 2
  OBVIOUS
<1>1. ASSUME n \in 2 .. 11
      PROVE  \E r \in Registers("SEQ") :
                \/ n = Put("SEQ", r) \/ n = Put("SEQ", r) - 1
  <2> DEFINE r == (n - 2) \div 2
  <2>1. r \in 0 .. 4 /\ n - 2 >= 2 * r /\ n - 2 < 2 * r + 2
    BY <1>1
  <2> HIDE DEF r
  <2>2. r \in Registers("SEQ") /\ Put("SEQ", r) = 3 + 2 * r
    BY <2>1, Registered DEF Put
  <2>3. n = Put("SEQ", r) \/ n = Put("SEQ", r) - 1
    BY <1>1, <2>1, <2>2
  <2> QED BY <2>2, <2>3
<1>2. ASSUME n \in 17 .. 66
      PROVE  \E r \in Registers("CRTC") :
                \/ n = Put("CRTC", r) \/ n = Put("CRTC", r) - 1
  <2> DEFINE r == (n - 17) \div 2
  <2>1. r \in 0 .. 24 /\ n - 17 >= 2 * r /\ n - 17 < 2 * r + 2
    BY <1>2
  <2> HIDE DEF r
  <2>2. r \in Registers("CRTC") /\ Put("CRTC", r) = 18 + 2 * r
    BY <2>1, Registered DEF Put
  <2>3. n = Put("CRTC", r) \/ n = Put("CRTC", r) - 1
    BY <1>2, <2>1, <2>2
  <2> QED BY <2>2, <2>3
<1>3. ASSUME n \in 67 .. 84
      PROVE  \E r \in Registers("GC") :
                \/ n = Put("GC", r) \/ n = Put("GC", r) - 1
  <2> DEFINE r == (n - 67) \div 2
  <2>1. r \in 0 .. 8 /\ n - 67 >= 2 * r /\ n - 67 < 2 * r + 2
    BY <1>3
  <2> HIDE DEF r
  <2>2. r \in Registers("GC") /\ Put("GC", r) = 68 + 2 * r
    BY <2>1, Registered DEF Put
  <2>3. n = Put("GC", r) \/ n = Put("GC", r) - 1
    BY <1>3, <2>1, <2>2
  <2> QED BY <2>2, <2>3
<1>4. ASSUME n \in 85 .. 147
      PROVE  \E r \in Registers("AC") :
                \/ n = Put("AC", r) \/ n = Put("AC", r) - 1 \/ n = Put("AC", r) - 2
  <2> DEFINE r == (n - 85) \div 3
  <2>1. r \in 0 .. 20 /\ n - 85 >= 3 * r /\ n - 85 < 3 * r + 3
    BY <1>4
  <2> HIDE DEF r
  <2>2. r \in Registers("AC") /\ Put("AC", r) = 87 + 3 * r
    BY <2>1, Registered DEF Put
  <2>3. n = Put("AC", r) \/ n = Put("AC", r) - 1 \/ n = Put("AC", r) - 2
    BY <1>4, <2>1, <2>2
  <2> QED BY <2>2, <2>3
<1>5. n \in 2 .. 11 \/ n \in 17 .. 66 \/ n \in 67 .. 84 \/ n \in 85 .. 147
  OBVIOUS
<1> QED BY <1>1, <1>2, <1>3, <1>4, <1>5, Banks

(* Which accesses of read_regs concern which register. *)
LEMMA GetApart ==
    \A b, c \in DOMAIN Num : \A r \in Registers(b) : \A s \in Registers(c) :
        /\ Get(b, r) \in 3 .. 142
        /\ Get(b, r) = Get(c, s) => b = c /\ r = s
        /\ Get(b, r) + 1 # Get(c, s)
        /\ c = "AC" => Get(b, r) + 2 # Get(c, s)
<1>1. /\ \A r \in 0 .. 4 : Get("SEQ", r) = 3 + 2 * r
      /\ \A r \in 0 .. 24 : Get("CRTC", r) = 13 + 2 * r
      /\ \A r \in 0 .. 8 : Get("GC", r) = 63 + 2 * r
      /\ \A r \in 0 .. 20 : Get("AC", r) = 82 + 3 * r
  BY DEF Get
<1>2. SUFFICES ASSUME NEW b \in DOMAIN Num, NEW c \in DOMAIN Num,
                      NEW r \in Registers(b), NEW s \in Registers(c)
      PROVE  /\ Get(b, r) \in 3 .. 142
             /\ Get(b, r) = Get(c, s) => b = c /\ r = s
             /\ Get(b, r) + 1 # Get(c, s)
             /\ c = "AC" => Get(b, r) + 2 # Get(c, s)
  OBVIOUS
<1> QED BY <1>1, Banks, Registered

(* The other accesses are apart from these. *)
LEMMA GetFixed ==
    \A n \in {1, 143, 144} : \A b \in DOMAIN Num : \A r \in Registers(b) :
        /\ n # Get(b, r) /\ n + 1 # Get(b, r)
        /\ b = "AC" => n + 2 # Get(b, r)
<1>1. /\ \A r \in 0 .. 4 : Get("SEQ", r) = 3 + 2 * r
      /\ \A r \in 0 .. 24 : Get("CRTC", r) = 13 + 2 * r
      /\ \A r \in 0 .. 8 : Get("GC", r) = 63 + 2 * r
      /\ \A r \in 0 .. 20 : Get("AC", r) = 82 + 3 * r
  BY DEF Get
<1> QED BY <1>1, Banks, Registered

(* There are no others. *)
LEMMA GetPlaces ==
    \A n \in 1 .. 144 :
        \/ n \in {1, 143, 144}
        \/ \E b \in DOMAIN Num : \E r \in Registers(b) :
              \/ n = Get(b, r)
              \/ n = Get(b, r) - 1
              \/ b = "AC" /\ n = Get(b, r) - 2
<1> SUFFICES ASSUME NEW n \in 1 .. 144, n \notin {1, 143, 144}
             PROVE  \E b \in DOMAIN Num : \E r \in Registers(b) :
                       \/ n = Get(b, r)
                       \/ n = Get(b, r) - 1
                       \/ b = "AC" /\ n = Get(b, r) - 2
  OBVIOUS
<1>1. ASSUME n \in 2 .. 11
      PROVE  \E r \in Registers("SEQ") :
                \/ n = Get("SEQ", r) \/ n = Get("SEQ", r) - 1
  <2> DEFINE r == (n - 2) \div 2
  <2>1. r \in 0 .. 4 /\ n - 2 >= 2 * r /\ n - 2 < 2 * r + 2
    BY <1>1
  <2> HIDE DEF r
  <2>2. r \in Registers("SEQ") /\ Get("SEQ", r) = 3 + 2 * r
    BY <2>1, Registered DEF Get
  <2>3. n = Get("SEQ", r) \/ n = Get("SEQ", r) - 1
    BY <1>1, <2>1, <2>2
  <2> QED BY <2>2, <2>3
<1>2. ASSUME n \in 12 .. 61
      PROVE  \E r \in Registers("CRTC") :
                \/ n = Get("CRTC", r) \/ n = Get("CRTC", r) - 1
  <2> DEFINE r == (n - 12) \div 2
  <2>1. r \in 0 .. 24 /\ n - 12 >= 2 * r /\ n - 12 < 2 * r + 2
    BY <1>2
  <2> HIDE DEF r
  <2>2. r \in Registers("CRTC") /\ Get("CRTC", r) = 13 + 2 * r
    BY <2>1, Registered DEF Get
  <2>3. n = Get("CRTC", r) \/ n = Get("CRTC", r) - 1
    BY <1>2, <2>1, <2>2
  <2> QED BY <2>2, <2>3
<1>3. ASSUME n \in 62 .. 79
      PROVE  \E r \in Registers("GC") :
                \/ n = Get("GC", r) \/ n = Get("GC", r) - 1
  <2> DEFINE r == (n - 62) \div 2
  <2>1. r \in 0 .. 8 /\ n - 62 >= 2 * r /\ n - 62 < 2 * r + 2
    BY <1>3
  <2> HIDE DEF r
  <2>2. r \in Registers("GC") /\ Get("GC", r) = 63 + 2 * r
    BY <2>1, Registered DEF Get
  <2>3. n = Get("GC", r) \/ n = Get("GC", r) - 1
    BY <1>3, <2>1, <2>2
  <2> QED BY <2>2, <2>3
<1>4. ASSUME n \in 80 .. 142
      PROVE  \E r \in Registers("AC") :
                \/ n = Get("AC", r) \/ n = Get("AC", r) - 1 \/ n = Get("AC", r) - 2
  <2> DEFINE r == (n - 80) \div 3
  <2>1. r \in 0 .. 20 /\ n - 80 >= 3 * r /\ n - 80 < 3 * r + 3
    BY <1>4
  <2> HIDE DEF r
  <2>2. r \in Registers("AC") /\ Get("AC", r) = 82 + 3 * r
    BY <2>1, Registered DEF Get
  <2>3. n = Get("AC", r) \/ n = Get("AC", r) - 1 \/ n = Get("AC", r) - 2
    BY <1>4, <2>1, <2>2
  <2> QED BY <2>2, <2>3
<1>5. n \in 2 .. 11 \/ n \in 12 .. 61 \/ n \in 62 .. 79 \/ n \in 80 .. 142
  OBVIOUS
<1> QED BY <1>1, <1>2, <1>3, <1>4, <1>5, Banks

-----------------------------------------------------------------------------
(* What an access does to the card. *)

(* One of its fields changed. *)
Stored(c, d, b, r, v) ==
    /\ d \in AnyCard
    /\ d.misc = c.misc /\ d.latch = c.latch
    /\ \A p \in DOMAIN Num : d.index[p] = c.index[p]
    /\ \A p \in DOMAIN Num : \A q \in 0 .. 31 :
          d.reg[p][q] = IF p = b /\ q = r THEN v ELSE c.reg[p][q]

Chosen(c, d, b, r) ==
    /\ d \in AnyCard
    /\ d.misc = c.misc /\ d.latch = c.latch
    /\ \A p \in DOMAIN Num : d.index[p] = IF p = b THEN r ELSE c.index[p]
    /\ d.reg = c.reg

Flipped(c, d, l) ==
    /\ d \in AnyCard
    /\ d.misc = c.misc /\ d.latch = l /\ d.index = c.index /\ d.reg = c.reg

(* A register is given a byte. *)
LEMMA Store ==
    ASSUME NEW c \in AnyCard, NEW b \in DOMAIN Num, NEW r \in 0 .. 31, NEW v \in Byte
    PROVE  Stored(c, [c EXCEPT !.reg[b][r] = v], b, r, v)
<1> DEFINE g == [c.reg EXCEPT ![b] = [c.reg[b] EXCEPT ![r] = v]]
           d == [c EXCEPT !.reg = g]
<1>1. c.reg \in [DOMAIN Num -> [0 .. 31 -> Byte]]
  BY DEF AnyCard
<1>2. /\ g \in [DOMAIN Num -> [0 .. 31 -> Byte]]
      /\ \A p \in DOMAIN Num : \A q \in 0 .. 31 :
            g[p][q] = IF p = b /\ q = r THEN v ELSE c.reg[p][q]
  BY <1>1
<1> HIDE DEF g
<1>3. /\ d \in AnyCard /\ d.misc = c.misc /\ d.latch = c.latch /\ d.index = c.index
      /\ d.reg = g
  BY <1>2 DEF AnyCard
<1>4. Stored(c, d, b, r, v)
  <2> HIDE DEF d
  <2> QED BY <1>2, <1>3 DEF Stored
<1> QED BY <1>4 DEF g

(* An index register is given a byte. *)
LEMMA Choose ==
    ASSUME NEW c \in AnyCard, NEW b \in DOMAIN Num, NEW r \in Byte
    PROVE  Chosen(c, [c EXCEPT !.index[b] = r], b, r)
<1> DEFINE i == [c.index EXCEPT ![b] = r]
           d == [c EXCEPT !.index = i]
<1>1. c.index \in [DOMAIN Num -> Byte]
  BY DEF AnyCard
<1>2. /\ i \in [DOMAIN Num -> Byte]
      /\ \A p \in DOMAIN Num : i[p] = IF p = b THEN r ELSE c.index[p]
  BY <1>1
<1> HIDE DEF i
<1>3. /\ d \in AnyCard /\ d.misc = c.misc /\ d.latch = c.latch /\ d.reg = c.reg
      /\ d.index = i
  BY <1>2 DEF AnyCard
<1>4. Chosen(c, d, b, r)
  <2> HIDE DEF d
  <2> QED BY <1>2, <1>3 DEF Chosen
<1> QED BY <1>4 DEF i

(* The port of the attribute controller awaits an index, or data. *)
LEMMA Flip ==
    ASSUME NEW c \in AnyCard, NEW l \in {"index", "data"}
    PROVE  Flipped(c, [c EXCEPT !.latch = l], l)
<1> DEFINE d == [c EXCEPT !.latch = l]
<1>1. /\ d \in AnyCard /\ d.misc = c.misc /\ d.latch = l /\ d.reg = c.reg
      /\ d.index = c.index
  BY DEF AnyCard
<1> HIDE DEF d
<1>2. Flipped(c, d, l)
  BY <1>1 DEF Flipped
<1> QED BY <1>2 DEF d

(* An index and its data, the attribute controller's in turn. *)
Indexed(c, d, b, r) ==
    /\ d \in AnyCard
    /\ d.misc = c.misc /\ d.latch = (IF b = "AC" THEN "data" ELSE c.latch)
    /\ \A p \in DOMAIN Num : d.index[p] = IF p = b THEN r ELSE c.index[p]
    /\ d.reg = c.reg

Wrote(c, d, b, r, v) ==
    /\ d \in AnyCard
    /\ d.misc = c.misc /\ d.latch = (IF b = "AC" THEN "index" ELSE c.latch)
    /\ \A p \in DOMAIN Num : d.index[p] = c.index[p]
    /\ \A p \in DOMAIN Num : \A q \in 0 .. 31 :
          d.reg[p][q] = IF p = b /\ q = r THEN v ELSE c.reg[p][q]

(* An index register names one of 32 registers. *)
LEMMA Selects ==
    ASSUME CardType, NEW b \in DOMAIN Num
    PROVE  /\ Selected(b) \in 0 .. 31
           /\ card.index[b] \in 0 .. 31 => Selected(b) = card.index[b]
<1>1. card.index[b] \in 0 .. 255
  <2>1. card.index \in [DOMAIN Num -> Byte]
    BY DEF CardType, AnyCard
  <2> QED BY <2>1 DEF Byte
<1>2. \A n \in 0 .. 255 : n % 32 \in 0 .. 31 /\ (n \in 0 .. 31 => n % 32 = n)
  OBVIOUS
<1> QED BY <1>1, <1>2 DEF Selected

(* Writing an index when the card takes one. *)
LEMMA IndexStep ==
    ASSUME CardType, NEW b \in DOMAIN Num, NEW r \in Byte,
           b = "CRTC" => Color, b = "AC" => card.latch = "index"
    PROVE  Indexed(card, ToIndex(b, r), b, r)
<1>1. CASE b = "AC"
  <2>1. ToIndex(b, r) = [card EXCEPT !.index["AC"] = r, !.latch = "data"]
    BY <1>1 DEF ToIndex, ToAC
  <2>2. PICK c : c = [card EXCEPT !.index["AC"] = r]
    OBVIOUS
  <2>3. Chosen(card, c, "AC", r)
    BY <1>1, <2>2, Choose DEF CardType
  <2>4. ToIndex(b, r) = [c EXCEPT !.latch = "data"]
    BY <2>1, <2>2 DEF CardType, AnyCard
  <2>5. Flipped(c, ToIndex(b, r), "data")
    <3>1. c \in AnyCard
      BY <2>3 DEF Chosen
    <3>2. Flipped(c, [c EXCEPT !.latch = "data"], "data")
      BY <3>1, Flip
    <3> QED BY <2>4, <3>2
  <2> QED BY <1>1, <2>3, <2>5 DEF Chosen, Flipped, Indexed
<1>2. CASE b # "AC"
  <2>1. ToIndex(b, r) = [card EXCEPT !.index[b] = r]
    BY <1>2 DEF ToIndex
  <2>2. Chosen(card, ToIndex(b, r), b, r)
    BY <2>1, Choose DEF CardType
  <2> QED BY <1>2, <2>2 DEF Chosen, Indexed
<1> QED BY <1>1, <1>2

(* Writing data when the card takes them and lets the register be changed. *)
LEMMA DataStep ==
    ASSUME CardType, NEW b \in DOMAIN Num, NEW v \in Byte, NEW r \in 0 .. 31,
           card.index[b] = r,
           b = "CRTC" => Color /\ (~Bit7(card.reg["CRTC"][17]) \/ r > 7),
           b = "AC" => card.latch = "data"
    PROVE  Wrote(card, ToData(b, v), b, r, v)
<1>1. Selected(b) = r
  BY Selects
<1>2. Stored(card, SetReg(b, v), b, r, v)
  BY <1>1, Store DEF CardType, SetReg
<1>3. CASE b = "AC"
  <2>1. r < 32
    OBVIOUS
  <2>2. PICK c : c = SetReg("AC", v)
    OBVIOUS
  <2>3. ToData(b, v) = [c EXCEPT !.latch = "index"]
    <3>1. ~(card.index["AC"] >= 32) /\ card.latch # "index"
      BY <1>3, <2>1
    <3> QED BY <1>3, <2>2, <3>1 DEF ToData, ToAC
  <2>4. Stored(card, c, b, r, v)
    BY <1>2, <1>3, <2>2
  <2>5. Flipped(c, ToData(b, v), "index")
    <3>1. c \in AnyCard
      BY <2>4 DEF Stored
    <3>2. Flipped(c, [c EXCEPT !.latch = "index"], "index")
      BY <3>1, Flip
    <3> QED BY <2>3, <3>2
  <2> QED BY <1>3, <2>4, <2>5 DEF Stored, Flipped, Wrote
<1>4. CASE b = "CRTC"
  <2>1. Color /\ (~Bit7(card.reg["CRTC"][17]) \/ Selected("CRTC") > 7)
    BY <1>1, <1>4
  <2>2. ToData(b, v) = ToCRTC(v)
    BY <1>4 DEF ToData
  <2>3. Selected("CRTC") \in 0 .. 31
    BY <1>1, <1>4
  <2>4. ToCRTC(v) = SetReg("CRTC", v)
    BY <2>1, <2>3 DEF ToCRTC
  <2> QED BY <1>2, <1>4, <2>2, <2>4 DEF Stored, Wrote
<1>5. CASE b # "AC" /\ b # "CRTC"
  <2>1. ToData(b, v) = SetReg(b, v)
    BY <1>5 DEF ToData
  <2> QED BY <1>2, <1>5, <2>1 DEF Stored, Wrote
<1> QED BY <1>3, <1>4, <1>5

(* Whatever is written to it, the card stays one. *)
LEMMA AnyStep ==
    ASSUME CardType, NEW b \in DOMAIN Num, NEW v \in Byte
    PROVE  /\ ToIndex(b, v) \in AnyCard /\ ToData(b, v) \in AnyCard
           /\ FromData(b) \subseteq Byte
<1>1. Stored(card, SetReg(b, v), b, Selected(b), v)
  BY Selects, Store DEF CardType, SetReg
<1>2. ASSUME NEW c \in AnyCard
      PROVE  [c EXCEPT !.latch = "index"] \in AnyCard
  BY <1>2, Flip DEF Flipped
<1>3. b = "AC" => ToAC(v) \in AnyCard
  <2> HAVE b = "AC"
  <2>1. CASE card.latch = "index"
    <3>1. Indexed(card, ToIndex(b, v), b, v)
      BY <2>1, IndexStep
    <3>2. ToIndex(b, v) = ToAC(v)
      BY DEF ToIndex
    <3> QED BY <3>1, <3>2 DEF Indexed
  <2>2. CASE card.latch # "index"
    <3>1. PICK c \in AnyCard : ToAC(v) = [c EXCEPT !.latch = "index"]
      <4>1. SetReg("AC", v) \in AnyCard /\ card \in AnyCard
        BY <1>1 DEF Stored, CardType
      <4> QED BY <2>2, <4>1 DEF ToAC
    <3> QED BY <1>2, <3>1
  <2> QED BY <2>1, <2>2
<1>4. ToIndex(b, v) \in AnyCard
  <2>1. CASE b = "AC"
    BY <1>3, <2>1 DEF ToIndex
  <2>2. CASE b = "CRTC" /\ ~Color
    BY <2>2 DEF ToIndex, CardType
  <2>3. CASE b # "AC" /\ ~(b = "CRTC" /\ ~Color)
    <3>1. Chosen(card, [card EXCEPT !.index[b] = v], b, v)
      BY Choose DEF CardType
    <3> QED BY <2>3, <3>1 DEF ToIndex, Chosen
  <2> QED BY <2>1, <2>2, <2>3
<1>5. b = "CRTC" => ToCRTC(v) \in AnyCard
  <2> HAVE b = "CRTC"
  <2> DEFINE w == card.reg["CRTC"][7]
             u == w + 16 * (((v \div 16) % 2) - ((w \div 16) % 2))
  <2>1. w \in Byte
    BY DEF CardType, AnyCard
  <2>2. u \in Byte
    <3> HIDE DEF w
    <3> DEFINE y == (v \div 16) % 2
               z == w \div 16
    <3>1. y = 0 \/ y = 1
      BY DEF Byte
    <3>2. z \in 0 .. 15 /\ w >= 16 * z /\ w < 16 * z + 16
      BY <2>1 DEF Byte
    <3>3. /\ z % 2 = 0 \/ z % 2 = 1
          /\ z % 2 = 1 => z >= 1
          /\ z % 2 = 0 => z <= 14
      BY <3>2
    <3>4. u = w + 16 * (y - (z % 2))
      OBVIOUS
    <3> HIDE DEF y, z, u
    <3>5. u >= 0 /\ u <= 255 /\ u \in Int
      BY <2>1, <3>1, <3>2, <3>3, <3>4 DEF Byte
    <3> QED BY <3>5 DEF Byte
  <2> HIDE DEF u
  <2>3. Stored(card, SetReg("CRTC", u), "CRTC", Selected("CRTC"), u)
    BY <2>2, Selects, Store DEF CardType, SetReg
  <2>4. \/ ToCRTC(v) = card \/ ToCRTC(v) = SetReg("CRTC", u) \/ ToCRTC(v) = SetReg("CRTC", v)
    BY DEF ToCRTC, u
  <2> QED BY <1>1, <2>3, <2>4 DEF Stored, CardType
<1>6. ToData(b, v) \in AnyCard
  BY <1>1, <1>3, <1>5 DEF ToData, Stored
<1>7. FromData(b) \subseteq Byte
  <2>1. card.reg[b][Selected(b)] \in Byte
    BY Selects DEF CardType, AnyCard
  <2>2. 255 \in Byte /\ LightPen \subseteq Byte
    <3>1. 255 \in Byte
      BY DEF Byte
    <3>2. LightPen \subseteq Byte
      BY CardAssumption, Zenon
    <3> QED BY <3>1, <3>2
  <2>3. FromData(b) = {255} \/ FromData(b) = LightPen \/ FromData(b) = {card.reg[b][Selected(b)]}
    BY Zenon DEF FromData
  <2> QED BY <2>1, <2>2, <2>3
<1> QED BY <1>4, <1>6, <1>7

(* A byte for the CRTC changes its registers only. *)
LEMMA CrtcStep ==
    ASSUME CardType, NEW v \in Byte
    PROVE  LET d == ToData("CRTC", v)
           IN  /\ d \in AnyCard /\ d.misc = card.misc /\ d.latch = card.latch
               /\ d.index = card.index
               /\ \A p \in DOMAIN Num : p # "CRTC" => d.reg[p] = card.reg[p]
<1> DEFINE d == ToData("CRTC", v)
<1>1. PICK w : d = card \/ d = SetReg("CRTC", w)
  BY DEF ToData, ToCRTC
<1>2. d \in AnyCard
  BY AnyStep, Banks
<1>3. ASSUME NEW w1
      PROVE  LET e == SetReg("CRTC", w1)
             IN  /\ e.misc = card.misc /\ e.latch = card.latch /\ e.index = card.index
                 /\ \A p \in DOMAIN Num : p # "CRTC" => e.reg[p] = card.reg[p]
  <2>1. PICK t : t = [card.reg["CRTC"] EXCEPT ![Selected("CRTC")] = w1]
    OBVIOUS
  <2>2. SetReg("CRTC", w1) = [card EXCEPT !.reg["CRTC"] = t]
    BY <2>1 DEF SetReg
  <2> QED BY <2>2 DEF CardType, AnyCard
<1> QED BY <1>1, <1>2, <1>3

-----------------------------------------------------------------------------
(* A step of a function that runs is its next access. *)
LEMMA StepIs ==
    ASSUME Next, f # "none", NEW do, NEW b, NEW r, Access = A(do, b, r)
    PROVE  /\ Proceed
           /\ do = "OutMisc"  => card' = [card EXCEPT !.misc = regs[1]] /\ regs' = regs
           /\ do = "InMisc"   => card' = card /\ regs' = [regs EXCEPT ![1] = card.misc]
           /\ do = "OutIndex" => card' = ToIndex(b, r) /\ regs' = regs
           /\ do = "OutData"  => card' = ToData(b, regs[At(b, r)]) /\ regs' = regs
           /\ do = "InData"   =>
                 card' = card /\ \E v \in FromData(b) : regs' = [regs EXCEPT ![At(b, r)] = v]
           /\ do = "InStatus" =>
                 /\ card' = (IF Color THEN [card EXCEPT !.latch = "index"] ELSE card)
                 /\ regs' = regs
           /\ do = "SetBit7"  =>
                 /\ \E v \in FromData("CRTC") : card' = ToData("CRTC", Set7(v))
                 /\ regs' = regs
           /\ do = "ClearBit7" =>
                 /\ \E v \in FromData("CRTC") : card' = ToData("CRTC", Clear7(v))
                 /\ regs' = regs
           /\ do = "Unlock"   => card' = card /\ regs' = Forced(regs)
<1>1. Access.do = do /\ Access.b = b /\ Access.r = r
  BY DEF A
<1>2. \/ OutMisc \/ InMisc \/ OutIndex \/ OutData \/ InData
      \/ InputStatus \/ SetBit7 \/ ClearBit7 \/ Unlock
  BY DEF Next, WriteRegs, ReadRegs
<1>3. CASE OutMisc
  BY <1>1, <1>3 DEF OutMisc, Doing
<1>4. CASE InMisc
  BY <1>1, <1>4 DEF InMisc, Doing
<1>5. CASE OutIndex
  BY <1>1, <1>5 DEF OutIndex, Doing
<1>6. CASE OutData
  BY <1>1, <1>6 DEF OutData, Doing
<1>7. CASE InData
  BY <1>1, <1>7 DEF InData, Doing
<1>8. CASE InputStatus
  BY <1>1, <1>8 DEF InputStatus, Doing
<1>9. CASE SetBit7
  BY <1>1, <1>9 DEF SetBit7, Doing
<1>10. CASE ClearBit7
  BY <1>1, <1>10 DEF ClearBit7, Doing
<1>11. CASE Unlock
  BY <1>1, <1>11 DEF Unlock, Doing
<1> QED BY <1>2, <1>3, <1>4, <1>5, <1>6, <1>7, <1>8, <1>9, <1>10, <1>11

(* Each access is followed by the next. *)
LEMMA Proceeds ==
    ASSUME Next, f # "none"
    PROVE  Proceed
<1>1. \/ OutMisc \/ InMisc \/ OutIndex \/ OutData \/ InData
      \/ InputStatus \/ SetBit7 \/ ClearBit7 \/ Unlock
  BY DEF Next, WriteRegs, ReadRegs
<1> QED BY <1>1 DEF OutMisc, InMisc, OutIndex, OutData, InData, InputStatus, SetBit7,
                    ClearBit7, Unlock

(* write_regs goes on to its next access, and read_regs to its. *)
LEMMA Onward ==
    ASSUME Proceed
    PROVE  /\ calls' = calls /\ mode' = mode
           /\ f = "write_regs" /\ k \in 1 .. 148 => k' = k + 1 /\ f' = f
           /\ f = "write_regs" /\ k = 149 => k' = 1 /\ f' = "none"
           /\ f = "read_regs" /\ k \in 1 .. 143 => k' = k + 1 /\ f' = f
           /\ f = "read_regs" /\ k = 144 => k' = 1 /\ f' = "none"
<1> DEFINE l == Len(Program[f])
<1>1. (f = "write_regs" => l = 149) /\ (f = "read_regs" => l = 144)
  BY WriteProgram, ReadProgram DEF Program
<1>2. /\ calls' = calls /\ mode' = mode
      /\ k < l => k' = k + 1 /\ f' = f
      /\ ~(k < l) => k' = 1 /\ f' = "none"
  BY DEF Proceed
<1> HIDE DEF l
<1>3. ASSUME f = "write_regs", k \in 1 .. 148 PROVE k' = k + 1 /\ f' = f
  BY <1>1, <1>2, <1>3
<1>4. ASSUME f = "write_regs", k = 149 PROVE k' = 1 /\ f' = "none"
  BY <1>1, <1>2, <1>4
<1>5. ASSUME f = "read_regs", k \in 1 .. 143 PROVE k' = k + 1 /\ f' = f
  BY <1>1, <1>2, <1>5
<1>6. ASSUME f = "read_regs", k = 144 PROVE k' = 1 /\ f' = "none"
  BY <1>1, <1>2, <1>6
<1> QED BY <1>2, <1>3, <1>4, <1>5, <1>6

(* What write_regs finds when it stores a register: the byte in the array,  *)
(* and a card that takes it.                                               *)
LEMMA Storing ==
    ASSUME Writing, NEW b \in DOMAIN Num, NEW r \in Registers(b)
    PROVE  /\ k > 1 => Color
           /\ k > 1 => card.misc = Given[1]
           /\ Given[At(b, r)] \in Byte
           /\ k = Put(b, r) => regs[At(b, r)] = Given[At(b, r)]
<1>1. PICK d \in Dumps : mode = d
  BY DEF Writing
<1>2. At(b, r) \in 1 .. 61
  BY Places
<1>3. Given[1] = mode[1] /\ mode[1] % 2 = 1 /\ Given[At(b, r)] \in Byte
  <2>1. Given = Forced(d)
    BY <1>1 DEF Given
  <2>2. /\ d[1] % 2 = 1
        /\ \A n \in 1 .. 61 : Forced(d)[n] \in Byte
        /\ \A n \in 1 .. 61 : n # 10 /\ n # 24 => Forced(d)[n] = d[n]
    BY DumpFacts
  <2>3. 1 \in 1 .. 61 /\ 1 # 10 /\ 1 # 24
    OBVIOUS
  <2> QED BY <1>1, <1>2, <2>1, <2>2, <2>3
<1>4. k = Put(b, r) => regs[At(b, r)] = Given[At(b, r)]
  <2> HAVE k = Put(b, r)
  <2>1. CASE b = "SEQ"
    <3>1. r \in 0 .. 4
      BY <2>1, Registered
    <3>2. At(b, r) = r + 2
      BY <2>1, <3>1, AtIs
    <3>3. At(b, r) # 10 /\ At(b, r) # 24
      BY <3>1, <3>2
    <3>4. Given[At(b, r)] = mode[At(b, r)]
      BY <1>1, <1>2, <3>3, DumpFacts DEF Given
    <3> QED BY <3>4 DEF Writing
  <2>2. CASE b # "SEQ"
    <3>1. k > 16
      BY <2>2, Banks, Registered DEF Put
    <3> QED BY <3>1 DEF Writing
  <2> QED BY <2>1, <2>2
<1>5. k > 1 => Color
  BY <1>3 DEF Writing, Color
<1> QED BY <1>3, <1>4, <1>5 DEF Writing

-----------------------------------------------------------------------------
(* The steps of write_regs. *)

(* Storing a register. *)
LEMMA WriteData ==
    ASSUME CardType, Writing, NEW b \in DOMAIN Num, NEW r \in Registers(b), k = Put(b, r),
           card' = ToData(b, regs[At(b, r)]), regs' = regs, k' = k + 1, mode' = mode
    PROVE  CardType' /\ Writing'
<1> DEFINE v == Given[At(b, r)]
<1>1. v \in Byte /\ card' = ToData(b, v) /\ Color
  BY Storing, PutApart
<1>2. r \in 0 .. 31 /\ card.index[b] = r /\ k \in 3 .. 147
  BY Registered, PutApart DEF Writing
<1>3. Wrote(card, card', b, r, v)
  <2>1. b = "CRTC" => ~Bit7(card.reg["CRTC"][17])
    <3> HAVE b = "CRTC"
    <3>1. k > 15
      BY Registered DEF Put
    <3> QED BY <3>1 DEF Writing
  <2>2. b = "AC" => card.latch = "data"
    BY DEF Writing
  <2> HIDE DEF v
  <2> QED BY <1>1, <1>2, <2>1, <2>2, DataStep
<1>4. \A n \in {1, 12, 13, 14, 15, 16, 148, 149} : k # n
  BY PutFixed
<1>5. Given' = Given
  BY DEF Given
<1>6. \A c \in DOMAIN Num : \A s \in Registers(c) :
         /\ k + 1 # Put(c, s)
         /\ k + 1 > Put(c, s) => card'.reg[c][s] = Given[At(c, s)]
  <2> TAKE c \in DOMAIN Num
  <2> TAKE s \in Registers(c)
  <2>1. k + 1 # Put(c, s) /\ Put(c, s) \in 3 .. 147
    BY PutApart
  <2>2. ASSUME k + 1 > Put(c, s)
        PROVE  card'.reg[c][s] = Given[At(c, s)]
    <3>1. CASE c = b /\ s = r
      BY <1>2, <1>3, <3>1 DEF Wrote
    <3>2. CASE ~(c = b /\ s = r)
      <4>1. k > Put(c, s)
        <5>1. Put(b, r) # Put(c, s)
          BY <3>2, PutApart
        <5> QED BY <1>2, <2>1, <2>2, <5>1
      <4>2. card.reg[c][s] = Given[At(c, s)] /\ s \in 0 .. 31
        BY <4>1, Registered DEF Writing
      <4> QED BY <1>3, <3>2, <4>2 DEF Wrote
    <3> QED BY <3>1, <3>2
  <2> QED BY <2>1, <2>2
<1>7. \A s \in Registers("AC") : k + 1 # Put("AC", s) - 1 /\ k + 1 # Put("AC", s)
  <2> TAKE s \in Registers("AC")
  <2>1. k + 1 # Put("AC", s) /\ k + 2 # Put("AC", s) /\ Put("AC", s) \in 3 .. 147
    BY PutApart, Banks
  <2> QED BY <1>2, <2>1
<1>8. k + 1 > 15 => ~Bit7(card'.reg["CRTC"][17])
  <2> HAVE k + 1 > 15
  <2>1. k > 15
    BY <1>2, <1>4
  <2>2. CASE b = "CRTC" /\ r = 17
    <3>1. card'.reg["CRTC"][17] = v
      BY <1>2, <1>3, <2>2 DEF Wrote
    <3>2. v = Given[24]
      BY <2>2, AtIs
    <3>3. PICK d \in Dumps : mode = d
      BY DEF Writing
    <3>4. ~Bit7(Given[24])
      BY <3>3, DumpFacts DEF Given
    <3> QED BY <3>1, <3>2, <3>4
  <2>3. CASE ~(b = "CRTC" /\ r = 17)
    <3>1. card'.reg["CRTC"][17] = card.reg["CRTC"][17]
      <4>1. "CRTC" \in DOMAIN Num /\ 17 \in 0 .. 31
        BY Banks
      <4>2. \A p \in DOMAIN Num : \A q \in 0 .. 31 :
              card'.reg[p][q] = IF p = b /\ q = r THEN v ELSE card.reg[p][q]
        BY <1>3, Zenon DEF Wrote
      <4> HIDE DEF v
      <4> QED BY <2>3, <4>1, <4>2
    <3> QED BY <2>1, <3>1 DEF Writing
  <2> QED BY <2>2, <2>3
<1>9. card' \in AnyCard /\ card'.misc = mode[1]
  <2>1. card' \in AnyCard /\ card'.misc = card.misc
    BY <1>3, Zenon DEF Wrote
  <2>2. k > 1
    BY <1>2
  <2>3. card.misc = mode[1]
    BY <2>2, Zenon DEF Writing
  <2> QED BY <2>1, <2>3
<1>10. k + 1 \in 1 .. 149 /\ regs = IF k + 1 <= 16 THEN mode ELSE Given
  BY <1>2, <1>4 DEF Writing
<1>11. k + 1 # 13 /\ k + 1 # 15 /\ k + 1 # 149
  BY <1>2, <1>4
<1>12. mode' \in Dumps
  BY DEF Writing
<1> QED BY <1>5, <1>6, <1>7, <1>8, <1>9, <1>10, <1>11, <1>12 DEF Writing, CardType

(* Selecting a register. *)
LEMMA WriteIndex ==
    ASSUME CardType, Writing, NEW b \in DOMAIN Num, NEW r \in Registers(b), k = Put(b, r) - 1,
           card' = ToIndex(b, r), regs' = regs, k' = k + 1, mode' = mode
    PROVE  CardType' /\ Writing'
<1>1. Put(b, r) \in 3 .. 147 /\ r \in Byte
  BY PutApart, Registered
<1>2. k \in 2 .. 146 /\ k + 1 = Put(b, r)
  BY <1>1
<1>3. Indexed(card, card', b, r)
  <2>1. Color
    BY <1>2, Storing
  <2>2. b = "AC" => card.latch = "index"
    BY DEF Writing
  <2> QED BY <1>1, <2>1, <2>2, IndexStep
<1>4. \A n \in {1, 12, 13, 14, 15, 16, 148, 149} : k + 1 # n /\ k # n
  BY <1>2, PutFixed
<1>5. Given' = Given
  BY DEF Given
<1>6. \A c \in DOMAIN Num : \A s \in Registers(c) :
         /\ k + 1 = Put(c, s) => card'.index[c] = s
         /\ k + 1 > Put(c, s) => card'.reg[c][s] = Given[At(c, s)]
  <2> TAKE c \in DOMAIN Num
  <2> TAKE s \in Registers(c)
  <2>1. k + 1 = Put(c, s) => card'.index[c] = s
    BY <1>2, <1>3, PutApart DEF Indexed
  <2>2. ASSUME k + 1 > Put(c, s)
        PROVE  card'.reg[c][s] = Given[At(c, s)]
    <3>1. Put(c, s) \in 3 .. 147 /\ Put(c, s) + 1 # k + 1
      BY <1>2, PutApart
    <3>2. k > Put(c, s)
      BY <1>2, <2>2, <3>1
    <3>3. card.reg[c][s] = Given[At(c, s)]
      BY <3>2 DEF Writing
    <3> QED BY <1>3, <3>3 DEF Indexed
  <2> QED BY <2>1, <2>2
<1>7. \A s \in Registers("AC") :
         k + 1 # Put("AC", s) - 1 /\ (k + 1 = Put("AC", s) => card'.latch = "data")
  <2> TAKE s \in Registers("AC")
  <2>1. Put("AC", s) \in 3 .. 147 /\ Put(b, r) + 1 # Put("AC", s)
    BY PutApart, Banks
  <2>2. Put(b, r) = Put("AC", s) => b = "AC"
    BY PutApart, Banks
  <2> QED BY <1>2, <1>3, <2>1, <2>2 DEF Indexed
<1>8. k + 1 > 15 => ~Bit7(card'.reg["CRTC"][17])
  <2> HAVE k + 1 > 15
  <2>1. k > 15
    BY <1>2, <1>4
  <2> QED BY <1>3, <2>1 DEF Indexed, Writing
<1>9. card' \in AnyCard /\ card'.misc = mode[1]
  BY <1>2, <1>3 DEF Indexed, Writing
<1>10. k + 1 \in 1 .. 149 /\ regs = IF k + 1 <= 16 THEN mode ELSE Given
  BY <1>2, <1>4 DEF Writing
<1>11. k + 1 # 13 /\ k + 1 # 15 /\ k + 1 # 149
  BY <1>2, <1>4
<1>12. mode' \in Dumps
  BY DEF Writing
<1> QED BY <1>5, <1>6, <1>7, <1>8, <1>9, <1>10, <1>11, <1>12 DEF Writing, CardType

(* Readying the port of the attribute controller for an index. *)
LEMMA WriteStatus ==
    ASSUME CardType, Writing, NEW r \in Registers("AC"), k = Put("AC", r) - 2,
           card' = (IF Color THEN [card EXCEPT !.latch = "index"] ELSE card),
           regs' = regs, k' = k + 1, mode' = mode
    PROVE  CardType' /\ Writing'
<1>1. Put("AC", r) \in 87 .. 147
  BY Registered DEF Put
<1>2. k \in 85 .. 145 /\ k + 2 = Put("AC", r)
  BY <1>1
<1>3. Flipped(card, card', "index")
  <2>1. Color
    BY <1>2, Storing, Banks
  <2> QED BY <2>1, Flip DEF CardType
<1>4. Given' = Given
  BY DEF Given
<1>5. \A c \in DOMAIN Num : \A s \in Registers(c) :
         /\ k + 1 # Put(c, s)
         /\ k + 1 > Put(c, s) => card'.reg[c][s] = Given[At(c, s)]
  <2> TAKE c \in DOMAIN Num
  <2> TAKE s \in Registers(c)
  <2>1. /\ Put(c, s) \in 3 .. 147 /\ Put(c, s) + 1 # Put("AC", r)
        /\ Put(c, s) + 2 # Put("AC", r)
    BY PutApart, Banks
  <2>2. ASSUME k + 1 > Put(c, s)
        PROVE  card'.reg[c][s] = Given[At(c, s)]
    <3>1. k > Put(c, s)
      BY <1>2, <2>1, <2>2
    <3>2. card.reg[c][s] = Given[At(c, s)]
      BY <3>1 DEF Writing
    <3> QED BY <1>3, <3>2 DEF Flipped
  <2> QED BY <1>2, <2>1, <2>2
<1>6. \A s \in Registers("AC") : k + 1 # Put("AC", s) /\ card'.latch = "index"
  BY <1>3, <1>5, Banks DEF Flipped
<1>7. ~Bit7(card'.reg["CRTC"][17])
  BY <1>2, <1>3 DEF Flipped, Writing
<1>8. card' \in AnyCard /\ card'.misc = mode[1]
  BY <1>2, <1>3 DEF Flipped, Writing
<1>9. /\ k + 1 \in 1 .. 149 /\ ~(k + 1 <= 16) /\ k + 1 # 13 /\ k + 1 # 15 /\ k + 1 # 149
      /\ regs = Given
  BY <1>2 DEF Writing
<1>10. mode' \in Dumps
  BY DEF Writing
<1> QED BY <1>4, <1>5, <1>6, <1>7, <1>8, <1>9, <1>10 DEF Writing, CardType

(* The other accesses keep what has been stored. *)
LEMMA WriteOther ==
    ASSUME Writing, k \in {1, 12, 13, 14, 15, 16, 148}, k' = k + 1, mode' = mode,
           card' \in AnyCard, card'.misc = mode[1],
           regs' = IF k < 16 THEN mode ELSE Given,
           k = 12 => card'.index["CRTC"] = 3,
           k = 14 => card'.index["CRTC"] = 17,
           k \in {15, 16, 148} => ~Bit7(card'.reg["CRTC"][17]),
           k \in {12, 13, 14, 15, 16} => card'.reg["SEQ"] = card.reg["SEQ"],
           k = 148 => card'.reg = card.reg /\ card'.latch = "index"
    PROVE  CardType' /\ Writing'
<1>1. \A c \in DOMAIN Num : \A s \in Registers(c) :
         /\ k + 1 # Put(c, s) /\ k # Put(c, s) /\ Put(c, s) \in 3 .. 147
         /\ c = "AC" => k + 1 # Put(c, s) - 1
  <2> TAKE c \in DOMAIN Num
  <2> TAKE s \in Registers(c)
  <2>1. k + 1 # Put(c, s) /\ k # Put(c, s) /\ (c = "AC" => k + 2 # Put(c, s))
    BY PutFixed
  <2>2. Put(c, s) \in 3 .. 147
    BY PutApart
  <2> QED BY <2>1, <2>2
<1>2. \A c \in DOMAIN Num : \A s \in Registers(c) :
         k + 1 > Put(c, s) => card'.reg[c][s] = Given[At(c, s)]
  <2> TAKE c \in DOMAIN Num
  <2> TAKE s \in Registers(c)
  <2> HAVE k + 1 > Put(c, s)
  <2>1. k > Put(c, s)
    BY <1>1
  <2>2. card.reg[c][s] = Given[At(c, s)]
    BY <2>1 DEF Writing
  <2>3. CASE k = 148
    BY <2>2, <2>3
  <2>4. CASE k # 148
    <3>1. k \in {12, 13, 14, 15, 16}
      BY <1>1, <2>1, <2>4
    <3>2. c = "SEQ"
      BY <2>1, <3>1, Banks, Registered DEF Put
    <3> QED BY <2>2, <3>1, <3>2
  <2> QED BY <2>3, <2>4
<1>3. Given' = Given
  BY DEF Given
<1>4. \A s \in Registers("AC") : k + 1 # Put("AC", s) /\ k + 1 # Put("AC", s) - 1
  BY <1>1, Banks
<1>5. /\ k + 1 \in 1 .. 149 /\ (k + 1 <= 16 <=> k < 16)
      /\ (k + 1 = 13 => k = 12) /\ (k + 1 = 15 => k = 14) /\ (k + 1 = 149 => k = 148)
      /\ (k + 1 > 15 => k \in {15, 16, 148})
  OBVIOUS
<1>6. mode' \in Dumps
  BY DEF Writing
<1> QED BY <1>1, <1>2, <1>3, <1>4, <1>5, <1>6 DEF Writing, CardType

(* The last access unblanks the display, and every register holds its byte. *)
LEMMA WriteLast ==
    ASSUME CardType, Writing, k = 149, card' = ToIndex("AC", 32), regs' = regs, f' = "none",
           mode' = mode
    PROVE  CardType' /\ CardHoldsDump' /\ ReadBack'
<1>1. Indexed(card, card', "AC", 32)
  <2>1. 32 \in Byte /\ "AC" \in DOMAIN Num /\ "AC" # "CRTC"
    BY Banks DEF Byte
  <2>2. card.latch = "index"
    BY DEF Writing
  <2> QED BY <2>1, <2>2, IndexStep
<1>2. Given' = Given
  BY DEF Given
<1>3. \A b \in DOMAIN Num : \A r \in Registers(b) : card'.reg[b][r] = Given[At(b, r)]
  <2> TAKE b \in DOMAIN Num
  <2> TAKE r \in Registers(b)
  <2>1. k > Put(b, r)
    BY PutApart
  <2> QED BY <1>1, <2>1 DEF Indexed, Writing
<1>4. card'.misc = Given[1]
  <2>1. card.misc = Given[1]
    <3>1. "AC" \in DOMAIN Num /\ 0 \in Registers("AC")
      BY Banks, Registered
    <3>2. k > 1
      OBVIOUS
    <3> QED BY <3>1, <3>2, Storing
  <2> QED BY <1>1, <2>1 DEF Indexed
<1>5. card'.index["AC"] = 32
  BY <1>1, Banks DEF Indexed
<1>6. regs' = Given
  BY DEF Writing
<1>7. card' \in AnyCard
  BY <1>1 DEF Indexed
<1>8. CardHoldsDump'
  BY <1>2, <1>3, <1>4, <1>5 DEF CardHoldsDump, Holds, Registers, Given
<1>9. ReadBack'
  BY <1>2, <1>6 DEF ReadBack, Given
<1> QED BY <1>7, <1>8, <1>9 DEF CardType

(* Every access of write_regs keeps the invariant. *)
LEMMA WritingStep ==
    ASSUME IInv, f = "write_regs", Next
    PROVE  IInv'
<1>1. CardType /\ Writing /\ mode \in Dumps /\ k \in 1 .. 149
  BY DEF IInv, Writing
<1>2. Access = write_regs[k]
  BY DEF Access, Program
<1>3. /\ k \in 1 .. 148 => k' = k + 1 /\ f' = "write_regs"
      /\ k = 149 => k' = 1 /\ f' = "none"
      /\ mode' = mode
  <2>1. Proceed
    BY Proceeds
  <2> QED BY <2>1, Onward
<1>4. ASSUME k \in 1 .. 148, CardType', Writing'
      PROVE  IInv'
  BY <1>1, <1>3, <1>4 DEF IInv, ModeType, CardHoldsDump, ReadBack
<1>5. PICK d \in Dumps : mode = d
  BY <1>1
<1>6. ASSUME NEW b \in DOMAIN Num, NEW r \in Registers(b),
             k = Put(b, r) \/ k = Put(b, r) - 1 \/ (b = "AC" /\ k = Put(b, r) - 2)
      PROVE  IInv'
  <2>1. Put(b, r) \in 3 .. 147
    BY PutApart
  <2>2. k \in 1 .. 148
    BY <1>1, <1>6, <2>1
  <2>3. CASE k = Put(b, r)
    <3>1. Access = A("OutData", b, r)
      BY <1>2, <2>3, WriteProgram
    <3>2. card' = ToData(b, regs[At(b, r)]) /\ regs' = regs
      BY <3>1, StepIs
    <3>3. CardType' /\ Writing'
      BY <1>1, <1>3, <2>2, <2>3, <3>2, WriteData
    <3> QED BY <1>4, <2>2, <3>3
  <2>4. CASE k = Put(b, r) - 1
    <3>1. Access = A("OutIndex", b, r)
      BY <1>2, <2>4, WriteProgram
    <3>2. card' = ToIndex(b, r) /\ regs' = regs
      BY <3>1, StepIs
    <3>3. CardType' /\ Writing'
      BY <1>1, <1>3, <2>2, <2>4, <3>2, WriteIndex
    <3> QED BY <1>4, <2>2, <3>3
  <2>5. CASE b = "AC" /\ k = Put(b, r) - 2
    <3>1. Access = A("InStatus", "AC", r) /\ r \in Registers("AC") /\ k = Put("AC", r) - 2
      BY <1>2, <2>5, WriteProgram
    <3>2. card' = (IF Color THEN [card EXCEPT !.latch = "index"] ELSE card) /\ regs' = regs
      BY <3>1, StepIs
    <3>3. CardType' /\ Writing'
      BY <1>1, <1>3, <2>2, <3>1, <3>2, WriteStatus
    <3> QED BY <1>4, <2>2, <3>3
  <2> QED BY <1>6, <2>3, <2>4, <2>5
<1>7. /\ k > 1 => Color
      /\ "AC" \in DOMAIN Num /\ "CRTC" \in DOMAIN Num /\ "SEQ" \in DOMAIN Num
  <2>1. "AC" \in DOMAIN Num /\ 0 \in Registers("AC")
    BY Banks, Registered
  <2> QED BY <1>1, <2>1, Storing, Banks
<1>8. k > 1 => card.misc = mode[1]
  BY <1>1 DEF Writing
<1>9. k <= 16 => regs = mode
  BY <1>1 DEF Writing
<1>10. CASE k = 1
  <2>1. Access = A("OutMisc", "MISC", 0)
    BY <1>2, <1>10, WriteProgram
  <2>2. card' = [card EXCEPT !.misc = mode[1]] /\ regs' = regs
    BY <1>9, <1>10, <2>1, StepIs
  <2>3. mode[1] \in Byte
    BY <1>5, DumpFacts
  <2>4. card' \in AnyCard /\ card'.misc = mode[1]
    BY <1>1, <2>2, <2>3 DEF CardType, AnyCard
  <2>5. CardType' /\ Writing'
    BY <1>1, <1>3, <1>9, <1>10, <2>2, <2>4, WriteOther
  <2> QED BY <1>4, <1>10, <2>5
<1>11. CASE k = 12 \/ k = 14
  <2> DEFINE r == IF k = 12 THEN 3 ELSE 17
  <2>1. Access = A("OutIndex", "CRTC", r)
    BY <1>2, <1>11, WriteProgram
  <2>2. card' = ToIndex("CRTC", r) /\ regs' = regs
    BY <2>1, StepIs
  <2>3. Indexed(card, card', "CRTC", r)
    <3>1. r \in Byte
      BY DEF Byte
    <3> HIDE DEF r
    <3> QED BY <1>1, <1>7, <1>11, <2>2, <3>1, IndexStep
  <2>4. /\ card' \in AnyCard /\ card'.misc = mode[1] /\ card'.reg = card.reg
        /\ card'.index["CRTC"] = r
    BY <1>7, <1>8, <1>11, <2>3 DEF Indexed
  <2>5. CardType' /\ Writing'
    BY <1>1, <1>3, <1>9, <1>11, <2>2, <2>4, WriteOther
  <2> QED BY <1>4, <1>11, <2>5
<1>12. CASE k = 13
  <2>1. Access = A("SetBit7", "CRTC", 3)
    BY <1>2, <1>12, WriteProgram
  <2>2. PICK x \in FromData("CRTC") : card' = ToData("CRTC", Set7(x))
    BY <2>1, StepIs
  <2>3. regs' = regs
    BY <2>1, StepIs
  <2>4. Set7(x) \in Byte
    <3>1. x \in Byte
      <4>1. 0 \in Byte
        BY DEF Byte
      <4> QED BY <1>1, <1>7, <4>1, AnyStep
    <3> QED BY <3>1 DEF Byte, Set7, Bit7
  <2>5. card' \in AnyCard /\ card'.misc = card.misc /\ card'.reg["SEQ"] = card.reg["SEQ"]
    BY <1>1, <1>7, <2>2, <2>4, CrtcStep
  <2>6. CardType' /\ Writing'
    BY <1>1, <1>3, <1>8, <1>9, <1>12, <2>3, <2>5, WriteOther
  <2> QED BY <1>4, <1>12, <2>6
<1>13. CASE k = 15
  <2>1. Access = A("ClearBit7", "CRTC", 17)
    BY <1>2, <1>13, WriteProgram
  <2>2. PICK x \in FromData("CRTC") : card' = ToData("CRTC", Clear7(x))
    BY <2>1, StepIs
  <2>3. regs' = regs
    BY <2>1, StepIs
  <2>4. Clear7(x) \in Byte /\ ~Bit7(Clear7(x))
    <3>1. x \in Byte
      <4>1. 0 \in Byte
        BY DEF Byte
      <4> QED BY <1>1, <1>7, <4>1, AnyStep
    <3> QED BY <3>1 DEF Byte, Clear7, Bit7
  <2>5. Wrote(card, card', "CRTC", 17, Clear7(x))
    <3>1. card.index["CRTC"] = 17 /\ 17 \in 0 .. 31 /\ 17 > 7 /\ "CRTC" # "AC"
      BY <1>1, <1>13 DEF Writing
    <3> QED BY <1>1, <1>7, <1>13, <2>2, <2>4, <3>1, DataStep
  <2>6. card' \in AnyCard /\ card'.misc = card.misc /\ ~Bit7(card'.reg["CRTC"][17])
    BY <1>7, <2>4, <2>5 DEF Wrote
  <2>7. card'.reg["SEQ"] = card.reg["SEQ"]
    BY <1>1, <1>7, <2>2, <2>4, CrtcStep
  <2>8. CardType' /\ Writing'
    BY <1>1, <1>3, <1>8, <1>9, <1>13, <2>3, <2>6, <2>7, WriteOther
  <2> QED BY <1>4, <1>13, <2>8
<1>14. CASE k = 16
  <2>1. Access = A("Unlock", "CRTC", 0)
    BY <1>2, <1>14, WriteProgram
  <2>2. card' = card /\ regs' = Given
    BY <1>9, <1>14, <2>1, StepIs DEF Given
  <2>3. /\ card' \in AnyCard /\ card'.misc = mode[1] /\ ~Bit7(card'.reg["CRTC"][17])
        /\ card'.reg["SEQ"] = card.reg["SEQ"]
    BY <1>1, <1>14, <2>2 DEF Writing, CardType
  <2>4. CardType' /\ Writing'
    BY <1>1, <1>3, <1>14, <2>2, <2>3, WriteOther
  <2> QED BY <1>4, <1>14, <2>4
<1>15. CASE k = 148
  <2>1. Access = A("InStatus", "AC", 0)
    BY <1>2, <1>15, WriteProgram
  <2>2. card' = [card EXCEPT !.latch = "index"] /\ regs' = regs
    BY <1>7, <1>15, <2>1, StepIs
  <2>3. Flipped(card, card', "index")
    BY <1>1, <2>2, Flip DEF CardType
  <2>4. /\ card' \in AnyCard /\ card'.misc = mode[1] /\ ~Bit7(card'.reg["CRTC"][17])
        /\ card'.reg = card.reg /\ card'.latch = "index"
    BY <1>1, <1>8, <1>15, <2>3 DEF Flipped, Writing
  <2>5. regs' = Given
    BY <1>1, <1>15, <2>2 DEF Writing
  <2>6. CardType' /\ Writing'
    BY <1>1, <1>3, <1>15, <2>4, <2>5, WriteOther
  <2> QED BY <1>4, <1>15, <2>6
<1>16. CASE k = 149
  <2>1. Access = A("OutIndex", "AC", 32)
    BY <1>2, <1>16, WriteProgram
  <2>2. card' = ToIndex("AC", 32) /\ regs' = regs
    BY <2>1, StepIs
  <2>3. CardType' /\ CardHoldsDump' /\ ReadBack'
    BY <1>1, <1>3, <1>16, <2>2, WriteLast
  <2> QED BY <1>1, <1>3, <1>16, <2>3 DEF IInv, ModeType
<1> QED BY <1>1, <1>6, <1>10, <1>11, <1>12, <1>13, <1>14, <1>15, <1>16, PutPlaces

-----------------------------------------------------------------------------
(* The steps of read_regs. *)

(* A byte stored in an array, which stays one. *)
Replaced(a, e, n, v) ==
    Array(e) /\ \A i \in 1 .. 61 : e[i] = IF i = n THEN v ELSE a[i]

(* Storing a byte. *)
LEMMA StoreByte ==
    ASSUME NEW a, Array(a), NEW n \in 1 .. 61, NEW v
    PROVE  Replaced(a, [a EXCEPT ![n] = v], n, v)
BY DEF Array, Replaced

(* What read_regs finds when a dump has been written. *)
LEMMA Fetching ==
    ASSUME CardType, Reading, mode \in Dumps
    PROVE  /\ mode # <<>> /\ Color
           /\ \A b \in DOMAIN Num : \A r \in Registers(b) :
                 card.index[b] = r => FromData(b) = {Given[At(b, r)]}
<1>1. PICK d \in Dumps : mode = d
  OBVIOUS
<1>2. mode # <<>> /\ Holds(Given)
  <2>1. mode # <<>>
    BY <1>1, DumpFacts
  <2> QED BY <2>1 DEF Reading
<1>3. Given[1] = mode[1] /\ mode[1] % 2 = 1 /\ Bit7(Given[10])
  <2>1. Given = Forced(d)
    BY <1>1 DEF Given
  <2>2. /\ d[1] % 2 = 1 /\ Bit7(Forced(d)[10])
        /\ \A n \in 1 .. 61 : n # 10 /\ n # 24 => Forced(d)[n] = d[n]
    BY DumpFacts
  <2>3. 1 \in 1 .. 61 /\ 1 # 10 /\ 1 # 24
    OBVIOUS
  <2> QED BY <1>1, <2>1, <2>2, <2>3
<1>4. Color
  BY <1>2, <1>3 DEF Color, Holds
<1>5. \A b \in DOMAIN Num : \A r \in Registers(b) : card.reg[b][r] = Given[At(b, r)]
  BY <1>2 DEF Holds, Registers
<1>6. Bit7(card.reg["CRTC"][3])
  <2>1. "CRTC" \in DOMAIN Num /\ 3 \in Registers("CRTC") /\ At("CRTC", 3) = 10
    BY Banks, Registered, AtIs
  <2> QED BY <1>3, <1>5, <2>1
<1>7. ASSUME NEW b \in DOMAIN Num, NEW r \in Registers(b), card.index[b] = r
      PROVE  FromData(b) = {Given[At(b, r)]}
  <2>1. Selected(b) = r
    BY <1>7, Selects, Registered
  <2>2. FromData(b) = {card.reg[b][Selected(b)]}
    BY <1>4, <1>6 DEF FromData
  <2> QED BY <1>5, <2>1, <2>2
<1> QED BY <1>2, <1>4, <1>7

(* Fetching a register. *)
LEMMA ReadData ==
    ASSUME CardType, Reading, ModeType,
           NEW b \in DOMAIN Num, NEW r \in Registers(b), k = Get(b, r),
           NEW v \in FromData(b), regs' = [regs EXCEPT ![At(b, r)] = v],
           card' = card, k' = k + 1, mode' = mode
    PROVE  CardType' /\ Reading'
<1>1. At(b, r) \in 2 .. 61 /\ Get(b, r) \in 3 .. 142
  BY Places, GetApart
<1>2. /\ Array(regs')
      /\ \A n \in 1 .. 61 : regs'[n] = IF n = At(b, r) THEN v ELSE regs[n]
  <2> DEFINE n == At(b, r)
  <2>1. n \in 1 .. 61 /\ Array(regs) /\ regs' = [regs EXCEPT ![n] = v]
    BY <1>1 DEF Reading
  <2> HIDE DEF n
  <2>2. Replaced(regs, [regs EXCEPT ![n] = v], n, v)
    BY <2>1, StoreByte
  <2> QED BY <2>1, <2>2 DEF n, Replaced
<1>3. k + 1 \in 1 .. 144 /\ k > 1 /\ k + 1 # 144
  <2>1. \A n \in {1, 143, 144} : k # n
    BY GetFixed
  <2> QED BY <1>1, <2>1
<1>4. Given' = Given
  BY DEF Given
<1>5. ASSUME mode \in Dumps
      PROVE  /\ Holds(Given)'
             /\ regs'[1] = Given[1]
             /\ \A c \in DOMAIN Num : \A s \in Registers(c) :
                   /\ k + 1 # Get(c, s)
                   /\ k + 1 > Get(c, s) => regs'[At(c, s)] = Given[At(c, s)]
             /\ \A s \in Registers("AC") : k + 1 # Get("AC", s) - 1
  <2>1. mode # <<>>
    BY <1>5, Fetching
  <2>2. v = Given[At(b, r)]
    <3>1. card.index[b] = r
      BY <2>1 DEF Reading
    <3>2. FromData(b) = {Given[At(b, r)]}
      BY <1>5, <3>1, Fetching
    <3> QED BY <3>2
  <2>3. Holds(Given)'
    BY <1>4, <2>1 DEF Reading, Holds
  <2>4. regs'[1] = Given[1]
    <3>1. 1 \in 1 .. 61 /\ 1 # At(b, r)
      BY <1>1
    <3> QED BY <1>2, <1>3, <2>1, <3>1 DEF Reading
  <2>5. ASSUME NEW c \in DOMAIN Num, NEW s \in Registers(c)
        PROVE  /\ k + 1 # Get(c, s)
               /\ k + 1 > Get(c, s) => regs'[At(c, s)] = Given[At(c, s)]
    <3>1. k + 1 # Get(c, s) /\ Get(c, s) \in 3 .. 142
      BY GetApart
    <3>2. At(c, s) \in 1 .. 61
      BY Places
    <3>3. CASE c = b /\ s = r
      BY <1>2, <2>2, <3>1, <3>2, <3>3
    <3>4. CASE ~(c = b /\ s = r)
      <4>1. Get(b, r) # Get(c, s)
        BY <3>4, GetApart
      <4>2. At(b, r) # At(c, s)
        BY <3>4, Places
      <4>3. k + 1 > Get(c, s) => k > Get(c, s)
        BY <1>1, <3>1, <4>1
      <4>4. k > Get(c, s) => regs[At(c, s)] = Given[At(c, s)]
        BY <2>1 DEF Reading
      <4> QED BY <1>2, <3>1, <3>2, <4>2, <4>3, <4>4
    <3> QED BY <3>3, <3>4
  <2>6. ASSUME NEW s \in Registers("AC")
        PROVE  k + 1 # Get("AC", s) - 1
    <3>1. k + 2 # Get("AC", s) /\ Get("AC", s) \in 3 .. 142
      BY GetApart, Banks
    <3> QED BY <1>1, <3>1
  <2> QED BY <2>3, <2>4, <2>5, <2>6
<1>6. CardType'
  BY DEF CardType
<1>7. CASE mode = <<>>
  BY <1>2, <1>3, <1>7 DEF Reading, CardType
<1>8. CASE mode \in Dumps
  <2>1. Array(regs')
    BY <1>2
  <2>2. /\ Holds(Given)' /\ regs'[1] = Given'[1]
        /\ \A c \in DOMAIN Num : \A s \in Registers(c) :
              /\ k' = Get(c, s) => card'.index[c] = s
              /\ k' > Get(c, s) => regs'[At(c, s)] = Given'[At(c, s)]
        /\ \A s \in Registers("AC") : k' = Get("AC", s) - 1 => card'.latch = "index"
    BY <1>4, <1>5, <1>8
  <2>3. k' \in 1 .. 144 /\ k' # 144
    BY <1>3
  <2> QED BY <1>6, <2>1, <2>2, <2>3 DEF Reading
<1> QED BY <1>7, <1>8 DEF ModeType

(* Selecting a register. *)
LEMMA ReadIndex ==
    ASSUME CardType, Reading, ModeType,
           NEW b \in DOMAIN Num, NEW r \in Registers(b), k = Get(b, r) - 1,
           card' = ToIndex(b, r), regs' = regs, k' = k + 1, mode' = mode
    PROVE  CardType' /\ Reading'
<1>1. Get(b, r) \in 3 .. 142 /\ r \in Byte
  BY GetApart, Registered
<1>2. k \in 2 .. 141 /\ k + 1 = Get(b, r)
  BY <1>1
<1>3. k + 1 \in 1 .. 144 /\ k > 1 /\ k + 1 # 144
  BY <1>2
<1>4. Given' = Given
  BY DEF Given
<1>5. ASSUME mode \in Dumps
      PROVE  /\ Holds(Given)'
             /\ \A c \in DOMAIN Num : \A s \in Registers(c) :
                   /\ k + 1 = Get(c, s) => card'.index[c] = s
                   /\ k + 1 > Get(c, s) => regs[At(c, s)] = Given[At(c, s)]
             /\ \A s \in Registers("AC") : k + 1 # Get("AC", s) - 1
  <2>1. mode # <<>> /\ Color
    BY <1>5, Fetching
  <2>2. Indexed(card, card', b, r)
    <3>1. b = "AC" => card.latch = "index"
      BY <2>1 DEF Reading
    <3> QED BY <1>1, <2>1, <3>1, IndexStep
  <2>3. Holds(Given)'
    <3>1. card'.misc = card.misc /\ card'.reg = card.reg
      BY <2>2 DEF Indexed
    <3>2. Holds(Given)
      BY <2>1 DEF Reading
    <3> QED BY <1>4, <3>1, <3>2 DEF Holds
  <2>4. ASSUME NEW c \in DOMAIN Num, NEW s \in Registers(c)
        PROVE  /\ k + 1 = Get(c, s) => card'.index[c] = s
               /\ k + 1 > Get(c, s) => regs[At(c, s)] = Given[At(c, s)]
    <3>1. k + 1 = Get(c, s) => c = b /\ s = r
      BY <1>2, GetApart
    <3>2. Get(c, s) + 1 # Get(b, r) /\ Get(c, s) \in 3 .. 142
      BY GetApart
    <3>3. k + 1 > Get(c, s) => k > Get(c, s)
      BY <1>2, <3>2
    <3> QED BY <2>1, <2>2, <3>1, <3>3 DEF Reading, Indexed
  <2>5. ASSUME NEW s \in Registers("AC")
        PROVE  k + 1 # Get("AC", s) - 1
    <3>1. Get(b, r) + 1 # Get("AC", s) /\ Get("AC", s) \in 3 .. 142
      BY GetApart, Banks
    <3> QED BY <1>2, <3>1
  <2> QED BY <2>3, <2>4, <2>5
<1>6. CardType'
  BY <1>1, AnyStep DEF CardType
<1>7. Array(regs')
  BY DEF Reading
<1>8. CASE mode = <<>>
  BY <1>3, <1>6, <1>7, <1>8 DEF Reading
<1>9. CASE mode \in Dumps
  <2>1. mode # <<>> => (k > 1 => regs[1] = Given[1])
    BY DEF Reading
  <2> QED BY <1>3, <1>4, <1>5, <1>6, <1>7, <1>9, <2>1 DEF Reading
<1> QED BY <1>8, <1>9 DEF ModeType

(* The other accesses keep what has been fetched. *)
LEMMA ReadOther ==
    ASSUME CardType, Reading, ModeType,
           k + 1 \in 1 .. 144, k' = k + 1, mode' = mode,
           \A b \in DOMAIN Num : \A r \in Registers(b) : k # Get(b, r) /\ k + 1 # Get(b, r),
           card' \in AnyCard, card'.misc = card.misc, card'.reg = card.reg,
           Array(regs'),
           \A n \in 2 .. 61 : regs'[n] = regs[n],
           mode \in Dumps => (IF k = 1 THEN regs'[1] = card.misc ELSE regs' = regs),
           \A r \in Registers("AC") :
              k + 1 = Get("AC", r) - 1 => (mode \in Dumps => card'.latch = "index"),
           k = 143 => (mode \in Dumps => card'.latch = "index")
    PROVE  CardType' /\ Reading'
<1>1. Given' = Given
  BY DEF Given
<1>2. CardType'
  BY DEF CardType
<1>3. ASSUME mode \in Dumps
      PROVE  /\ Holds(Given)'
             /\ regs'[1] = Given[1]
             /\ \A c \in DOMAIN Num : \A s \in Registers(c) :
                   /\ k + 1 # Get(c, s)
                   /\ k + 1 > Get(c, s) => regs'[At(c, s)] = Given[At(c, s)]
             /\ \A s \in Registers("AC") : k + 1 = Get("AC", s) - 1 => card'.latch = "index"
             /\ k + 1 = 144 => card'.latch = "index"
  <2>1. mode # <<>>
    BY <1>3, Fetching
  <2>2. Holds(Given)
    BY <2>1 DEF Reading
  <2>3. Holds(Given)'
    BY <1>1, <2>2 DEF Holds
  <2>4. k \in 1 .. 143
    BY DEF Reading
  <2>5. regs'[1] = Given[1]
    <3>1. CASE k = 1
      BY <1>3, <2>2, <3>1 DEF Holds
    <3>2. CASE k # 1
      BY <1>3, <2>1, <2>4, <3>2 DEF Reading
    <3> QED BY <3>1, <3>2
  <2>6. ASSUME NEW c \in DOMAIN Num, NEW s \in Registers(c)
        PROVE  k + 1 # Get(c, s) /\ (k + 1 > Get(c, s) => regs'[At(c, s)] = Given[At(c, s)])
    <3>1. Get(c, s) \in 3 .. 142 /\ At(c, s) \in 2 .. 61
      BY GetApart, Places
    <3>2. k + 1 > Get(c, s) => k > Get(c, s)
      BY <2>4, <3>1
    <3>3. k > Get(c, s) => regs[At(c, s)] = Given[At(c, s)]
      BY <2>1 DEF Reading
    <3> QED BY <3>1, <3>2, <3>3
  <2>7. k + 1 = 144 => k = 143
    BY <2>4
  <2> QED BY <1>3, <2>3, <2>5, <2>6, <2>7
<1>4. CASE mode = <<>>
  BY <1>2, <1>4 DEF Reading
<1>5. CASE mode \in Dumps
  BY <1>1, <1>2, <1>3, <1>5 DEF Reading
<1> QED BY <1>4, <1>5 DEF ModeType

(* The last access unblanks the display, and every byte has been fetched. *)
LEMMA ReadLast ==
    ASSUME CardType, Reading, ModeType, k = 144,
           card' = ToIndex("AC", 32), regs' = regs, f' = "none", mode' = mode
    PROVE  CardType' /\ CardHoldsDump' /\ ReadBack'
<1>1. 32 \in Byte /\ "AC" \in DOMAIN Num
  BY Banks DEF Byte
<1>2. CardType'
  BY <1>1, AnyStep DEF CardType
<1>3. Given' = Given
  BY DEF Given
<1>4. CASE mode = <<>>
  BY <1>2, <1>4 DEF CardHoldsDump, ReadBack
<1>5. CASE mode \in Dumps
  <2>1. mode # <<>> /\ Color
    BY <1>5, Fetching
  <2>2. Indexed(card, card', "AC", 32)
    <3>1. card.latch = "index" /\ "AC" # "CRTC"
      BY <2>1 DEF Reading
    <3> QED BY <1>1, <3>1, IndexStep
  <2>3. CardHoldsDump'
    <3>1. card'.misc = card.misc /\ card'.reg = card.reg /\ card'.index["AC"] = 32
      BY <1>1, <2>2 DEF Indexed
    <3>2. Holds(Given)
      BY <2>1 DEF Reading
    <3>3. Holds(Given)'
      BY <1>3, <3>1, <3>2 DEF Holds
    <3> QED BY <3>1, <3>3 DEF CardHoldsDump, Given
  <2>4. \A n \in 1 .. 61 : regs[n] = Given[n]
    <3> TAKE n \in 1 .. 61
    <3>1. CASE n = 1
      BY <2>1, <3>1 DEF Reading
    <3>2. CASE n # 1
      <4>1. n \in 2 .. 61
        BY <3>2
      <4>2. PICK b \in DOMAIN Num : \E r \in Registers(b) : n = At(b, r)
        BY <4>1, Places
      <4>3. PICK r \in Registers(b) : n = At(b, r)
        BY <4>2
      <4>4. k > Get(b, r)
        BY GetApart
      <4> QED BY <2>1, <4>3, <4>4 DEF Reading
    <3> QED BY <3>1, <3>2
  <2>5. regs = Given
    <3>1. PICK d \in Dumps : mode = d
      BY <1>5
    <3>2. DOMAIN Given = 1 .. 61 /\ Given = [n \in 1 .. 61 |-> Given[n]]
      BY <3>1, DumpFacts DEF Given
    <3>3. regs = [n \in 1 .. 61 |-> regs[n]]
      BY DEF Reading, Array
    <3>4. [n \in 1 .. 61 |-> regs[n]] = [n \in 1 .. 61 |-> Given[n]]
      BY <2>4
    <3> QED BY <3>2, <3>3, <3>4
  <2>6. ReadBack'
    BY <1>3, <2>5 DEF ReadBack, Given
  <2> QED BY <1>2, <2>3, <2>6
<1> QED BY <1>4, <1>5 DEF ModeType

(* Every access of read_regs keeps the invariant. *)
LEMMA ReadingStep ==
    ASSUME IInv, f = "read_regs", Next
    PROVE  IInv'
<1>1. CardType /\ Reading /\ ModeType /\ k \in 1 .. 144 /\ Array(regs)
  BY DEF IInv, Reading
<1>2. Access = read_regs[k]
  BY DEF Access, Program
<1>3. /\ k \in 1 .. 143 => k' = k + 1 /\ f' = "read_regs"
      /\ k = 144 => k' = 1 /\ f' = "none"
      /\ mode' = mode
  <2>1. Proceed
    BY Proceeds
  <2> QED BY <2>1, Onward
<1>4. ModeType'
  BY <1>1, <1>3 DEF ModeType
<1>5. ASSUME k \in 1 .. 143, CardType', Reading'
      PROVE  IInv'
  BY <1>3, <1>4, <1>5 DEF IInv, CardHoldsDump, ReadBack
<1>6. mode \in Dumps => Color
  BY <1>1, Fetching
<1>7. ASSUME NEW b \in DOMAIN Num, NEW r \in Registers(b), k = Get(b, r) \/ k = Get(b, r) - 1
      PROVE  IInv'
  <2>1. Get(b, r) \in 3 .. 142
    BY GetApart
  <2>2. k \in 1 .. 143
    BY <1>1, <1>7, <2>1
  <2>3. CASE k = Get(b, r)
    <3>1. Access = A("InData", b, r)
      BY <1>2, <2>3, ReadProgram
    <3>2. PICK v \in FromData(b) : regs' = [regs EXCEPT ![At(b, r)] = v]
      BY <3>1, StepIs
    <3>3. card' = card
      BY <3>1, StepIs
    <3>4. CardType' /\ Reading'
      BY <1>1, <1>3, <2>2, <2>3, <3>2, <3>3, ReadData
    <3> QED BY <1>5, <2>2, <3>4
  <2>4. CASE k = Get(b, r) - 1
    <3>1. Access = A("OutIndex", b, r)
      BY <1>2, <2>4, ReadProgram
    <3>2. card' = ToIndex(b, r) /\ regs' = regs
      BY <3>1, StepIs
    <3>3. CardType' /\ Reading'
      BY <1>1, <1>3, <2>2, <2>4, <3>2, ReadIndex
    <3> QED BY <1>5, <2>2, <3>3
  <2> QED BY <1>7, <2>3, <2>4
<1>8. ASSUME NEW s \in Registers("AC"), k = Get("AC", s) - 2 \/ k = 143
      PROVE  IInv'
  <2>1. /\ \A b \in DOMAIN Num : \A r \in Registers(b) : k # Get(b, r) /\ k + 1 # Get(b, r)
        /\ k \in 2 .. 143
    <3>1. CASE k = 143
      BY <3>1, GetFixed
    <3>2. CASE k = Get("AC", s) - 2
      <4>1. Get("AC", s) \in 82 .. 142
        BY Registered DEF Get
      <4>2. ASSUME NEW b \in DOMAIN Num, NEW r \in Registers(b)
            PROVE  k # Get(b, r) /\ k + 1 # Get(b, r)
        <5>1. /\ Get(b, r) \in 3 .. 142 /\ Get(b, r) + 1 # Get("AC", s)
              /\ Get(b, r) + 2 # Get("AC", s)
          BY GetApart, Banks
        <5> QED BY <3>2, <4>1, <5>1
      <4> QED BY <3>2, <4>1, <4>2
    <3> QED BY <1>8, <3>1, <3>2
  <2>2. \E r : Access = A("InStatus", "AC", r)
    <3>1. CASE k = 143
      <4>1. Access = A("InStatus", "AC", 0)
        BY <1>2, <3>1, ReadProgram
      <4> QED BY <4>1
    <3>2. CASE k = Get("AC", s) - 2
      <4>1. Access = A("InStatus", "AC", s)
        BY <1>2, <3>2, ReadProgram
      <4> QED BY <4>1
    <3> QED BY <1>8, <3>1, <3>2
  <2>3. /\ card' = (IF Color THEN [card EXCEPT !.latch = "index"] ELSE card)
        /\ regs' = regs
    BY <2>2, StepIs
  <2>4. /\ card' \in AnyCard /\ card'.misc = card.misc /\ card'.reg = card.reg
        /\ mode \in Dumps => card'.latch = "index"
    <3>1. Flipped(card, [card EXCEPT !.latch = "index"], "index")
      BY <1>1, Flip DEF CardType
    <3> QED BY <1>1, <1>6, <2>3, <3>1 DEF Flipped, CardType
  <2>5. k \in 1 .. 143 /\ k + 1 \in 1 .. 144 /\ k # 1
    BY <2>1
  <2>6. CardType' /\ Reading'
    BY <1>1, <1>3, <2>1, <2>3, <2>4, <2>5, ReadOther
  <2> QED BY <1>5, <2>5, <2>6
<1>9. CASE k = 1
  <2>1. Access = A("InMisc", "MISC", 0)
    BY <1>2, <1>9, ReadProgram
  <2>2. card' = card /\ regs' = [regs EXCEPT ![1] = card.misc]
    BY <2>1, StepIs
  <2>3. Replaced(regs, regs', 1, card.misc)
    <3>1. 1 \in 1 .. 61
      OBVIOUS
    <3>2. Replaced(regs, [regs EXCEPT ![1] = card.misc], 1, card.misc)
      BY <1>1, <3>1, StoreByte
    <3> QED BY <2>2, <3>2
  <2>4. Array(regs') /\ regs'[1] = card.misc /\ \A n \in 2 .. 61 : regs'[n] = regs[n]
    <3>1. 1 \in 1 .. 61 /\ \A n \in 2 .. 61 : n \in 1 .. 61 /\ n # 1
      OBVIOUS
    <3> QED BY <2>3, <3>1 DEF Replaced
  <2>5. /\ \A b \in DOMAIN Num : \A r \in Registers(b) : k # Get(b, r) /\ k + 1 # Get(b, r)
        /\ \A r \in Registers("AC") : k + 1 # Get("AC", r) - 1
    <3>1. \A b \in DOMAIN Num : \A r \in Registers(b) : k # Get(b, r) /\ k + 1 # Get(b, r)
      BY <1>9, GetFixed
    <3>2. \A r \in Registers("AC") : 1 + 2 # Get("AC", r) /\ Get("AC", r) \in 3 .. 142
      BY GetFixed, GetApart, Banks
    <3> QED BY <1>9, <3>1, <3>2
  <2>6. card' \in AnyCard
    BY <1>1, <2>2 DEF CardType
  <2>7. CardType' /\ Reading'
    BY <1>1, <1>3, <1>9, <2>2, <2>4, <2>5, <2>6, ReadOther
  <2> QED BY <1>5, <1>9, <2>7
<1>10. CASE k = 144
  <2>1. Access = A("OutIndex", "AC", 32)
    BY <1>2, <1>10, ReadProgram
  <2>2. card' = ToIndex("AC", 32) /\ regs' = regs
    BY <2>1, StepIs
  <2>3. CardType' /\ CardHoldsDump' /\ ReadBack'
    BY <1>1, <1>3, <1>10, <2>2, ReadLast
  <2> QED BY <1>3, <1>4, <1>10, <2>3 DEF IInv
<1>11. 0 \in Registers("AC")
  BY Registered
<1> QED BY <1>1, <1>7, <1>8, <1>9, <1>10, <1>11, GetPlaces

-----------------------------------------------------------------------------
(* The invariant. *)

(* It holds of the card found. *)
LEMMA Initially ==
    ASSUME Init
    PROVE  IInv
BY CardAssumption DEF Init, IInv, CardType, AnyCard, ModeType, CardHoldsDump, ReadBack

(* A call begins with the card as the last one left it. *)
LEMMA Called ==
    ASSUME IInv, f = "none", Next
    PROVE  IInv'
<1>1. CASE \E dump \in Dumps : WriteRegs(dump)
  <2>1. PICK dump \in Dumps : WriteRegs(dump)
    BY <1>1
  <2>2. /\ k' = 1 /\ f' = "write_regs" /\ regs' = dump /\ mode' = dump /\ card' = card
    BY <2>1 DEF WriteRegs, IInv
  <2>3. Writing'
    <3>1. /\ \A b \in DOMAIN Num : \A r \in Registers(b) : 1 # Put(b, r) /\ ~(1 > Put(b, r))
          /\ \A r \in Registers("AC") : 1 # Put("AC", r) - 1 /\ 1 # Put("AC", r)
      <4>1. \A b \in DOMAIN Num : \A r \in Registers(b) : Put(b, r) \in 3 .. 147
        BY PutApart
      <4> QED BY <4>1, Banks
    <3> QED BY <2>2, <3>1 DEF Writing
  <2>4. CardType' /\ ModeType'
    BY <2>2 DEF IInv, CardType, ModeType
  <2> QED BY <2>2, <2>3, <2>4 DEF IInv, CardHoldsDump, ReadBack
<1>2. CASE ReadRegs
  <2>1. k' = 1 /\ f' = "read_regs" /\ regs' = Unread /\ mode' = mode /\ card' = card
    BY <1>2 DEF ReadRegs, IInv
  <2>2. Array(regs')
    BY <2>1 DEF Unread, Array
  <2>3. Given' = Given
    BY <2>1 DEF Given
  <2>4. mode # <<>> => Holds(Given)'
    <3>1. mode # <<>> => Holds(Given)
      BY DEF IInv, CardHoldsDump, Given
    <3> QED BY <2>1, <2>3, <3>1 DEF Holds
  <2>5. /\ \A b \in DOMAIN Num : \A r \in Registers(b) : 1 # Get(b, r) /\ ~(1 > Get(b, r))
        /\ \A r \in Registers("AC") : 1 # Get("AC", r) - 1
    <3>1. \A b \in DOMAIN Num : \A r \in Registers(b) : Get(b, r) \in 3 .. 142
      BY GetApart
    <3> QED BY <3>1, Banks
  <2>6. Reading'
    BY <2>1, <2>2, <2>4, <2>5 DEF Reading
  <2>7. CardType' /\ ModeType'
    BY <2>1 DEF IInv, CardType, ModeType
  <2> QED BY <2>1, <2>6, <2>7 DEF IInv, CardHoldsDump, ReadBack
<1>3. CASE ~(\E dump \in Dumps : WriteRegs(dump)) /\ ~ReadRegs
  BY <1>3 DEF Next, OutMisc, InMisc, OutIndex, OutData, InData, InputStatus, SetBit7,
              ClearBit7, Unlock, Doing
<1> QED BY <1>1, <1>2, <1>3

(* Whatever the card and the dumps, IInv always holds: every access finds   *)
(* the card as the ones before it left it.                                 *)
THEOREM Invariant == Spec => []IInv
<1>1. Init => IInv
  BY Initially
<1>2. IInv /\ [Next]_vars => IInv'
  <2> SUFFICES ASSUME IInv, [Next]_vars PROVE IInv'
    OBVIOUS
  <2>1. CASE Next
    <3>1. f = "none" \/ f = "write_regs" \/ f = "read_regs"
      BY DEF IInv
    <3> QED BY <2>1, <3>1, Called, WritingStep, ReadingStep
  <2>2. CASE UNCHANGED vars
    <3>1. /\ card' = card /\ regs' = regs /\ f' = f /\ k' = k /\ mode' = mode
      BY <2>2 DEF vars
    <3>2. Given' = Given
      BY <3>1 DEF Given
    <3>3. Writing => Writing'
      BY <3>1, <3>2 DEF Writing
    <3>4. Holds(Given) => Holds(Given)'
      BY <3>1, <3>2 DEF Holds
    <3>5. Reading => Reading'
      BY <3>1, <3>2, <3>4 DEF Reading
    <3>6. (CardHoldsDump => CardHoldsDump') /\ (ReadBack => ReadBack')
      BY <3>1, <3>2, <3>4 DEF CardHoldsDump, ReadBack, Given
    <3>7. (CardType => CardType') /\ (ModeType => ModeType')
      BY <3>1 DEF CardType, ModeType
    <3> QED BY <3>1, <3>3, <3>5, <3>6, <3>7 DEF IInv
  <2> QED BY <2>1, <2>2
<1> QED BY <1>1, <1>2, PTL DEF Spec

(* Whatever card write_regs finds -- locked, in a monochrome mode, between  *)
(* an index and its data -- every register then holds the dump's byte but   *)
(* for the two bits of Unlock, and the display is on.                      *)
THEOREM CardCorrect == Spec => []CardHoldsDump
<1>1. IInv => CardHoldsDump
  BY DEF IInv
<1> QED BY <1>1, Invariant, PTL

(* read_regs into any array gives back the dump write_regs has changed.     *)
THEOREM ReadCorrect == Spec => []ReadBack
<1>1. IInv => ReadBack
  BY DEF IInv
<1> QED BY <1>1, Invariant, PTL

=============================================================================
