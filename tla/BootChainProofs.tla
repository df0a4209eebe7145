--------------------------- MODULE BootChainProofs --------------------------
(***************************************************************************)
(* What mkimg builds and what then boots: for every command line, every    *)
(* set of files and every machine, the image is what was asked for; and on *)
(* an image of the makefiles, whatever reads fail, no head and no loader   *)
(* runs that is not whole.                                                 *)
(***************************************************************************)
EXTENDS BootChain, SequenceTheorems, WellFoundedInduction, TLAPS

-----------------------------------------------------------------------------
(* The tool.  MkImg has no specification of its own: BootChain's contains   *)
(* its steps.  The first part is the invariant of the tool, and that each   *)
(* of its steps preserves it.                                              *)

-----------------------------------------------------------------------------
(* The invariant of the tool: after the arguments, ifs and total_sec are    *)
(* what the command line asks for; before each input, the image holds      *)
(* those before it and nothing else; within one, as much as was copied.    *)

Cell == (STRING \cup {"junk", "zero"}) \X Int

(* How many inputs there are among the first k arguments. *)
Count[k \in Nat] ==
    IF k = 0 THEN 0 ELSE IF k \in Files THEN Count[k - 1] + 1 ELSE Count[k - 1]

ToolType ==
    /\ argv \in ArgLists
    /\ disk \in FileSystems
    /\ at \in {"args", "open", "copy", "fill", "return"}
    /\ i \in Nat /\ j \in Nat /\ nSec \in Nat /\ fp \in Nat
    /\ total_sec \in Int
    /\ status \in Int
    /\ outf \in BOOLEAN
    /\ ifs \in Seq([fname : STRING, nsec : Nat])
    /\ buf \in Seq(Cell) /\ Len(buf) = 2
    /\ img \in Seq(Cell)

(* The first m arguments are in ifs and total_sec. *)
Listed(m) ==
    /\ Len(ifs) = Count[m]
    /\ \A n \in Files : n <= m => ifs[Count[n]] = [fname |-> argv[n].fname, nsec |-> argv[n].nsec]

Counted(m) ==
    /\ (\A n \in Numbers : n > m) => total_sec = DefaultSectors
    /\ \A n \in Numbers :
          n <= m /\ (\A q \in Numbers : q <= m => q <= n) => total_sec = argv[n].n

(* The image has input n at its place. *)
Held(n) ==
    /\ argv[n].fname \in DOMAIN disk
    /\ Taken[n - 1] \in Nat
    /\ \A k \in 1 .. disk[argv[n].fname] :
          k <= 2 * Width(n) =>
              /\ 2 * Taken[n - 1] + k <= Len(img)
              /\ img[2 * Taken[n - 1] + k] = Half(argv[n].fname, k)

HeldUpTo(m) == Taken[m] \in Nat /\ \A n \in Files : n <= m => Held(n)

(* The image ends where the input with number n begins. *)
EndsBefore(n) ==
    \A m \in 0 .. Len(argv) :
        Count[m] = n - 1 => HeldUpTo(m) /\ Len(img) = 2 * Taken[m]

(* The sectors of the inputs before it are subtracted. *)
Subtracted(n) ==
    \A m \in 0 .. Len(argv) : Count[m] = n - 1 => total_sec = Asked - Taken[m]

InArgs ==
    at = "args" =>
        /\ i \in 1 .. Len(argv) + 1
        /\ Listed(i - 1) /\ Counted(i - 1)
        /\ img = <<>>
        /\ status = 0

InOpen ==
    at = "open" =>
        /\ Listed(Len(argv))
        /\ i \in 1 .. Len(ifs) + 1
        /\ EndsBefore(i) /\ Subtracted(i)
        /\ status = 0

(* j sectors of input n are copied. *)
Copied(n) ==
    /\ argv[n].fname = ifs[i].fname
    /\ nSec = Width(n)
    /\ HeldUpTo(n - 1)
    /\ Len(img) = 2 * Taken[n - 1] + 2 * j
    /\ \A k \in 1 .. disk[argv[n].fname] :
          k <= 2 * j => img[2 * Taken[n - 1] + k] = Half(argv[n].fname, k)

InCopy ==
    at = "copy" =>
        /\ Listed(Len(argv))
        /\ i \in 1 .. Len(ifs)
        /\ ifs[i].fname \in DOMAIN disk
        /\ j <= nSec
        /\ fp = IF 2 * j <= disk[ifs[i].fname] THEN 2 * j ELSE disk[ifs[i].fname]
        /\ \A n \in Files : Count[n] = i => Copied(n)
        /\ Subtracted(i)
        /\ status = 0

(* i sectors of zeros follow the inputs. *)
Filled ==
    /\ HeldUpTo(Len(argv))
    /\ Len(img) = 2 * Taken[Len(argv)] + 2 * i
    /\ \A k \in 2 * Taken[Len(argv)] + 1 .. Len(img) : img[k] = Zero
    /\ total_sec = Asked - Taken[Len(argv)]
    /\ i = 0 \/ i <= total_sec

InFill ==
    at = "fill" => Filled /\ buf = <<Zero, Zero>> /\ status = 0

(* What is left when main returns: nothing, the inputs before the one that *)
(* is missing, or all of the image.                                         *)
Returned ==
    at = "return" =>
        \/ status \in {-3, -1} /\ img = <<>>
        \/ /\ status = -2
           /\ Listed(Len(argv))
           /\ i \in 1 .. Len(ifs)
           /\ ifs[i].fname \notin DOMAIN disk
           /\ EndsBefore(i)
        \/ status = 0 /\ Filled /\ i >= total_sec

ToolInv == ToolType /\ InArgs /\ InOpen /\ InCopy /\ InFill /\ Returned

-----------------------------------------------------------------------------
(* Induction, and functions defined by recursion. *)

(* Induction over the natural numbers, for a set of them. *)
LEMMA SetInduction ==
    ASSUME NEW S, 0 \in S, \A n \in Nat : n \in S => n + 1 \in S
    PROVE  Nat \subseteq S
<1> DEFINE T == Nat \ S
           R == {ss \in Nat \X Nat : ss[1] < ss[2]}
<1>1. IsWellFoundedOn(R, Nat)
  BY NatLessThanWellFounded, Zenon DEF OpToRel
<1> HIDE DEF R
<1> SUFFICES ASSUME T # {} PROVE FALSE
  OBVIOUS
<1>2. \E x \in T : \A y \in T : ~ (<<y, x>> \in R)
  BY <1>1, WFMin, T \subseteq Nat, Zenon
<1>3. PICK x \in T : \A y \in T : ~ (<<y, x>> \in R)
  BY <1>2, Zenon
<1>4. \A y \in T : ~ (y < x)
  BY <1>3 DEF R
<1>5. x - 1 \in Nat
  BY x # 0
<1>6. x - 1 \notin T
  BY <1>4, <1>5
<1> QED BY <1>5, <1>6

(* The sums of the w[m] of the first k numbers m, as far as they are in F. *)
Added(F, w, g, k) == IF k \in F THEN g[k - 1] + w[k] ELSE g[k - 1]
Sums(F, w, n, g) ==
    /\ g[0] = 0
    /\ \A k \in 1 .. n : g[k] = Added(F, w, g, k)

(* Two tables of the same sums agree as far as both go.                    *)
LEMMA SumsUnique ==
    ASSUME NEW F, NEW w, NEW n \in Nat, NEW m \in Nat, NEW g, NEW h,
           Sums(F, w, n, g), Sums(F, w, m, h)
    PROVE  \A k \in Nat : k <= n /\ k <= m => g[k] = h[k]
<1> DEFINE S == {k \in Nat : k <= n /\ k <= m => g[k] = h[k]}
<1>1. 0 \in S
  BY DEF Sums
<1>2. ASSUME NEW k \in Nat, k \in S PROVE k + 1 \in S
  <2>1. SUFFICES ASSUME k + 1 <= n, k + 1 <= m PROVE g[k + 1] = h[k + 1]
    OBVIOUS
  <2>2. k + 1 \in 1 .. n /\ k + 1 \in 1 .. m /\ (k + 1) - 1 = k
    BY <2>1
  <2>3. /\ g[k + 1] = IF k + 1 \in F THEN g[k] + w[k + 1] ELSE g[k]
        /\ h[k + 1] = IF k + 1 \in F THEN h[k] + w[k + 1] ELSE h[k]
    BY <2>2 DEF Sums, Added
  <2>4. g[k] = h[k]
    BY <1>2, <2>1
  <2> QED BY <2>3, <2>4
<1> HIDE DEF S
<1>3. Nat \subseteq S
  BY <1>1, <1>2, SetInduction
<1> QED BY <1>3 DEF S

(* There is a table of the sums up to every n.                             *)
LEMMA SumsExist ==
    ASSUME NEW F, NEW w
    PROVE  \A n \in Nat : \E g : Sums(F, w, n, g)
<1> DEFINE S == {n \in Nat : \E g : Sums(F, w, n, g)}
<1>1. 0 \in S
  <2>1. Sums(F, w, 0, [k \in Nat |-> 0])
    BY DEF Sums
  <2> QED BY <2>1
<1>2. ASSUME NEW n \in Nat, n \in S PROVE n + 1 \in S
  <2>1. PICK g : Sums(F, w, n, g)
    BY <1>2
  <2> DEFINE h == [k \in Nat |-> IF k # n + 1 THEN g[k] ELSE
                                IF n + 1 \in F THEN g[n] + w[n + 1] ELSE g[n]]
  <2>2. h[0] = 0
    BY <2>1 DEF Sums
  <2>3. ASSUME NEW k \in 1 .. n + 1 PROVE h[k] = Added(F, w, h, k)
    <3>1. k - 1 \in Nat /\ k - 1 # n + 1
      OBVIOUS
    <3>2. h[k - 1] = g[k - 1]
      BY <3>1
    <3>3. CASE k = n + 1
      BY <3>2, <3>3 DEF Added
    <3>4. CASE k # n + 1
      BY <3>2, <3>4, <2>1 DEF Sums, Added
    <3> QED BY <3>3, <3>4
  <2> HIDE DEF h
  <2>4. Sums(F, w, n + 1, h)
    BY <2>2, <2>3 DEF Sums
  <2> QED BY <2>4
<1> HIDE DEF S
<1>3. Nat \subseteq S
  BY <1>1, <1>2, SetInduction
<1> QED BY <1>3 DEF S

(* A recursive definition of such sums defines them. *)
LEMMA RecursiveSum ==
    ASSUME NEW F, NEW w
    PROVE  \E g : g = [k \in Nat |-> IF k = 0 THEN 0 ELSE Added(F, w, g, k)]
<1> DEFINE first(n) == CHOOSE g : Sums(F, w, n, g)
           G == [n \in Nat |-> first(n)[n]]
<1>1. \A n \in Nat : Sums(F, w, n, first(n))
  BY SumsExist, Zenon
<1> HIDE DEF first
<1>2. G[0] = 0
  BY <1>1 DEF Sums
<1>3. ASSUME NEW k \in Nat, k # 0 PROVE G[k] = Added(F, w, G, k)
  <2>1. k - 1 \in Nat /\ k \in 1 .. k
    BY <1>3
  <2>2. Sums(F, w, k, first(k)) /\ Sums(F, w, k - 1, first(k - 1))
    BY <1>1, <2>1
  <2>3. first(k)[k - 1] = first(k - 1)[k - 1]
    BY <2>1, <2>2, SumsUnique
  <2>4. first(k)[k] = Added(F, w, first(k), k)
    BY <2>1, <2>2 DEF Sums
  <2> QED BY <2>1, <2>3, <2>4 DEF Added
<1>4. G = [k \in Nat |-> IF k = 0 THEN 0 ELSE Added(F, w, G, k)]
  BY <1>2, <1>3
<1> QED BY <1>4

(* Taken is the sum of the widths of the inputs up to an argument.         *)
LEMMA TakenDef ==
    /\ Taken[0] = 0
    /\ \A k \in Nat : Taken[k + 1] = IF k + 1 \in Files THEN Taken[k] + Width(k + 1) ELSE Taken[k]
<1> DEFINE w == [k \in Nat |-> Width(k)]
<1>1. \E g : g = [k \in Nat |-> IF k = 0 THEN 0 ELSE Added(Files, w, g, k)]
  BY RecursiveSum
<1>2. \E g : g = [k \in Nat |-> IF k = 0 THEN 0 ELSE
                       IF k \in Files THEN g[k - 1] + Width(k) ELSE g[k - 1]]
  <2>1. PICK g : g = [k \in Nat |-> IF k = 0 THEN 0 ELSE Added(Files, w, g, k)]
    BY <1>1
  <2>2. g = [k \in Nat |-> IF k = 0 THEN 0 ELSE
                IF k \in Files THEN g[k - 1] + Width(k) ELSE g[k - 1]]
    BY <2>1 DEF Added
  <2> QED BY <2>2
<1>3. Taken = [k \in Nat |-> IF k = 0 THEN 0 ELSE
                  IF k \in Files THEN Taken[k - 1] + Width(k) ELSE Taken[k - 1]]
  BY <1>2, Zenon DEF Taken
<1> DEFINE T == Taken
<1>4. T = [k \in Nat |-> IF k = 0 THEN 0 ELSE
              IF k \in Files THEN T[k - 1] + Width(k) ELSE T[k - 1]]
  BY <1>3
<1> HIDE DEF T
<1>5. /\ T[0] = 0
      /\ \A k \in Nat : T[k + 1] = IF k + 1 \in Files THEN T[k] + Width(k + 1) ELSE T[k]
  <2>1. T[0] = 0
    BY <1>4
  <2>2. ASSUME NEW k \in Nat
        PROVE  T[k + 1] = IF k + 1 \in Files THEN T[k] + Width(k + 1) ELSE T[k]
    <3>1. k + 1 \in Nat /\ k + 1 # 0 /\ (k + 1) - 1 = k
      OBVIOUS
    <3> QED BY <3>1, <1>4
  <2> QED BY <2>1, <2>2
<1> QED BY <1>5 DEF T

(* Count is the number of the inputs up to an argument.                    *)
LEMMA CountDef ==
    /\ Count[0] = 0
    /\ \A k \in Nat : Count[k + 1] = IF k + 1 \in Files THEN Count[k] + 1 ELSE Count[k]
<1> DEFINE w == [k \in Nat |-> 1]
<1>1. \E g : g = [k \in Nat |-> IF k = 0 THEN 0 ELSE Added(Files, w, g, k)]
  BY RecursiveSum
<1>2. \E g : g = [k \in Nat |-> IF k = 0 THEN 0 ELSE
                       IF k \in Files THEN g[k - 1] + 1 ELSE g[k - 1]]
  <2>1. PICK g : g = [k \in Nat |-> IF k = 0 THEN 0 ELSE Added(Files, w, g, k)]
    BY <1>1
  <2>2. g = [k \in Nat |-> IF k = 0 THEN 0 ELSE
                IF k \in Files THEN g[k - 1] + 1 ELSE g[k - 1]]
    BY <2>1 DEF Added
  <2> QED BY <2>2
<1>3. Count = [k \in Nat |-> IF k = 0 THEN 0 ELSE
                  IF k \in Files THEN Count[k - 1] + 1 ELSE Count[k - 1]]
  BY <1>2, Zenon DEF Count
<1> DEFINE T == Count
<1>4. T = [k \in Nat |-> IF k = 0 THEN 0 ELSE
              IF k \in Files THEN T[k - 1] + 1 ELSE T[k - 1]]
  BY <1>3
<1> HIDE DEF T
<1>5. /\ T[0] = 0
      /\ \A k \in Nat : T[k + 1] = IF k + 1 \in Files THEN T[k] + 1 ELSE T[k]
  <2>1. T[0] = 0
    BY <1>4
  <2>2. ASSUME NEW k \in Nat
        PROVE  T[k + 1] = IF k + 1 \in Files THEN T[k] + 1 ELSE T[k]
    <3>1. k + 1 \in Nat /\ k + 1 # 0 /\ (k + 1) - 1 = k
      OBVIOUS
    <3> QED BY <3>1, <1>4
  <2> QED BY <2>1, <2>2
<1> QED BY <1>5 DEF T

-----------------------------------------------------------------------------
(* The inputs among the arguments. *)

(* What a command line is made of.                                         *)
LEMMA ArgumentTypes ==
    ASSUME argv \in ArgLists
    PROVE  /\ argv \in Seq(Arguments)
           /\ Len(argv) \in Nat
           /\ DOMAIN argv = 1 .. Len(argv)
           /\ Files \subseteq 1 .. Len(argv)
           /\ Numbers \subseteq 1 .. Len(argv)
           /\ \A n \in Files : argv[n].fname \in STRING /\ argv[n].nsec \in Nat
           /\ \A n \in Numbers : argv[n].n \in Int
<1>1. argv \in Seq(Arguments)
  BY ArgumentAssumption
<1>2. /\ Len(argv) \in Nat /\ DOMAIN argv = 1 .. Len(argv)
      /\ \A n \in 1 .. Len(argv) : argv[n] \in Arguments
  BY <1>1
<1>3. Files \subseteq 1 .. Len(argv) /\ Numbers \subseteq 1 .. Len(argv)
  BY <1>2 DEF Files, Numbers
<1>4. ASSUME NEW n \in Files PROVE argv[n].fname \in STRING /\ argv[n].nsec \in Nat
  <2>1. argv[n] \in Arguments /\ argv[n].kind = "file"
    BY <1>2, <1>3 DEF Files
  <2>2. PICK a \in Arguments : a = argv[n]
    BY <2>1
  <2>3. a.kind = "file"
    BY <2>1, <2>2
  <2>4. a \in [kind : {"file"}, fname : STRING, nsec : Nat]
    BY <2>3 DEF Arguments, Output, Ignored
  <2> QED BY <2>2, <2>4
<1>5. ASSUME NEW n \in Numbers PROVE argv[n].n \in Int
  <2>1. argv[n] \in Arguments /\ argv[n].kind = "-n"
    BY <1>2, <1>3 DEF Numbers
  <2>2. PICK a \in Arguments : a = argv[n]
    BY <2>1
  <2>3. a.kind = "-n"
    BY <2>1, <2>2
  <2>4. a \in [kind : {"-n"}, n : Int]
    BY <2>3 DEF Arguments, Output, Ignored
  <2> QED BY <2>2, <2>4
<1> QED BY <1>1, <1>2, <1>3, <1>4, <1>5

(* What does not change with argv and disk. *)
LEMMA Rigid ==
    ASSUME argv' = argv, disk' = disk
    PROVE  /\ Files' = Files /\ Numbers' = Numbers
           /\ Taken' = Taken /\ Count' = Count /\ Asked' = Asked
           /\ \A n : Width(n)' = Width(n)
<1>1. Files' = Files /\ Numbers' = Numbers
  BY DEF Files, Numbers
<1>2. \A n : Width(n)' = Width(n)
  BY DEF Width, Needed
<1>3. Taken' = Taken
  BY DEF Taken, Files, Width, Needed
<1>4. Count' = Count
  BY DEF Count, Files
<1>5. Asked' = Asked
  BY DEF Asked, Numbers, Max
<1> QED BY <1>1, <1>2, <1>3, <1>4, <1>5

(* Counts are numbers.                                                     *)
LEMMA CountType ==
    \A k \in Nat : Count[k] \in Nat
<1> DEFINE S == {k \in Nat : Count[k] \in Nat}
<1>1. 0 \in S
  BY CountDef
<1>2. ASSUME NEW k \in Nat, k \in S PROVE k + 1 \in S
  BY <1>2, CountDef
<1> HIDE DEF S
<1>3. Nat \subseteq S
  BY <1>1, <1>2, SetInduction
<1> QED BY <1>3 DEF S

(* There are no fewer inputs up to a later argument.                       *)
LEMMA CountMonotone ==
    ASSUME NEW m \in Nat
    PROVE  \A k \in Nat : m <= k => Count[m] <= Count[k]
<1> DEFINE S == {k \in Nat : m <= k => Count[m] <= Count[k]}
<1>1. 0 \in S
  BY CountType
<1>2. ASSUME NEW k \in Nat, k \in S PROVE k + 1 \in S
  <2>1. Count[k] \in Nat /\ Count[k + 1] \in Nat /\ Count[k] <= Count[k + 1]
    BY CountDef, CountType
  <2>2. Count[m] \in Nat
    BY CountType
  <2>3. ASSUME m <= k + 1 PROVE Count[m] <= Count[k + 1]
    <3>1. CASE m = k + 1
      BY <3>1, <2>2
    <3>2. CASE m # k + 1
      BY <3>2, <2>1, <2>2, <2>3, <1>2
    <3> QED BY <3>1, <3>2
  <2> QED BY <2>3
<1> HIDE DEF S
<1>3. Nat \subseteq S
  BY <1>1, <1>2, SetInduction
<1> QED BY <1>3 DEF S

(* An input is one more than there are before it. *)
LEMMA CountFile ==
    ASSUME argv \in ArgLists, NEW n \in Files
    PROVE  /\ n \in Nat /\ n - 1 \in Nat /\ n <= Len(argv)
           /\ Count[n] \in Nat /\ Count[n - 1] \in Nat
           /\ Count[n] = Count[n - 1] + 1
           /\ Taken[n] = Taken[n - 1] + Width(n)
<1>1. n \in 1 .. Len(argv) /\ Len(argv) \in Nat
  BY ArgumentTypes
<1>2. n \in Nat /\ n - 1 \in Nat /\ (n - 1) + 1 = n
  BY <1>1
<1> DEFINE m == n - 1
<1>3. m \in Nat /\ m + 1 = n
  BY <1>2
<1> HIDE DEF m
<1>4. Count[m + 1] = IF m + 1 \in Files THEN Count[m] + 1 ELSE Count[m]
  BY <1>3, CountDef
<1>5. Taken[m + 1] = IF m + 1 \in Files THEN Taken[m] + Width(m + 1) ELSE Taken[m]
  BY <1>3, TakenDef
<1>6. Count[n] = Count[m] + 1 /\ Taken[n] = Taken[m] + Width(n)
  BY <1>3, <1>4, <1>5
<1> QED BY <1>1, <1>2, <1>6, CountType DEF m

(* No two inputs have the same number.                                     *)
LEMMA CountInjective ==
    ASSUME argv \in ArgLists, NEW n \in Files, NEW m \in Files, Count[n] = Count[m]
    PROVE  n = m
<1>1. ASSUME NEW p \in Files, NEW q \in Files, p < q PROVE Count[p] < Count[q]
  <2>1. p \in Nat /\ q \in Nat /\ q - 1 \in Nat /\ p <= q - 1
    BY CountFile, <1>1
  <2>2. Count[p] <= Count[q - 1]
    BY <2>1, CountMonotone
  <2> QED BY <2>2, CountFile, SMTT(30)
<1>2. n \in Nat /\ m \in Nat /\ Count[n] \in Nat /\ Count[m] \in Nat
  BY CountFile
<1> QED BY <1>1, <1>2

(* Among the first m arguments there is no input, or there is a last one.  *)
LEMMA LastFile ==
    ASSUME argv \in ArgLists
    PROVE  \A m \in Nat :
              \/ Count[m] = 0 /\ Taken[m] = 0 /\ \A n \in Files : n > m
              \/ \E n \in Files : /\ n <= m /\ Count[m] = Count[n] /\ Taken[m] = Taken[n]
                                  /\ \A q \in Files : q <= m => q <= n
<1> DEFINE Free(m) == Count[m] = 0 /\ Taken[m] = 0 /\ \A n \in Files : n > m
           Ends(m) == \E n \in Files : /\ n <= m /\ Count[m] = Count[n] /\ Taken[m] = Taken[n]
                                       /\ \A q \in Files : q <= m => q <= n
           S == {m \in Nat : Free(m) \/ Ends(m)}
<1>0. \A n \in Files : n \in Nat /\ n > 0
  BY CountFile
<1>1. 0 \in S
  BY <1>0, CountDef, TakenDef
<1>2. ASSUME NEW m \in Nat, m \in S PROVE m + 1 \in S
  <2>1. CASE m + 1 \in Files
    <3>1. m + 1 <= m + 1
      OBVIOUS
    <3>2. Ends(m + 1)
      BY <2>1, <3>1
    <3> QED BY <3>2
  <2>2. CASE m + 1 \notin Files
    <3>2. Count[m + 1] = Count[m] /\ Taken[m + 1] = Taken[m]
      BY <2>2, CountDef, TakenDef
    <3>3. \A q \in Files : q <= m + 1 => q <= m
      BY <2>2, <1>0
    <3>4. CASE Free(m)
      <4>1. Taken[m + 1] = 0
        BY <3>2, <3>4
      <4>2. \A n \in Files : n > m + 1
        BY <3>3, <3>4, <1>0
      <4>3. Free(m + 1)
        BY <3>2, <3>4, <4>1, <4>2
      <4> QED BY <4>3
    <3>5. CASE Ends(m)
      <4>1. PICK n \in Files : /\ n <= m /\ Count[m] = Count[n] /\ Taken[m] = Taken[n]
                               /\ \A q \in Files : q <= m => q <= n
        BY <3>5
      <4>2. Taken[m + 1] = Taken[n]
        BY <3>2, <4>1
      <4> QED BY <3>2, <3>3, <4>1, <4>2, <1>0
    <3> QED BY <1>2, <3>4, <3>5
  <2> QED BY <2>1, <2>2
<1>3. Nat \subseteq S
  <2> HIDE DEF S
  <2> QED BY <1>1, <1>2, SetInduction
<1> QED BY <1>3

(* The tool's rounding up is what an input needs. *)
LEMMA NeededSectors ==
    ASSUME NEW f \in DOMAIN disk, disk[f] \in Nat
    PROVE  Needed(f) = Sectors(disk[f]) /\ Needed(f) \in Nat /\ disk[f] <= 2 * Needed(f)
<1> DEFINE s == disk[f]
<1> DEFINE ok(n) == 2 * n - 1 <= s /\ s <= 2 * n
<1>1. s \in Nat
  OBVIOUS
<1> HIDE DEF s
<1>2. (s + 1) \div 2 \in 0 .. s /\ ok((s + 1) \div 2)
  BY <1>1
<1>3. \A m, n \in 0 .. s : ok(m) /\ ok(n) => m = n
  BY <1>1
<1>4. \E n \in 0 .. s : ok(n)
  BY <1>2
<1>5. Needed(f) = CHOOSE n \in 0 .. s : ok(n)
  BY DEF Needed, s
<1>6. Needed(f) \in 0 .. s /\ ok(Needed(f))
  BY <1>4, <1>5, Zenon
<1>7. Needed(f) = (s + 1) \div 2
  BY <1>2, <1>3, <1>6
<1> QED BY <1>1, <1>6, <1>7 DEF Sectors, s

(* A set of arguments has, among the first m, none or a last one. *)
LEMMA LastOf ==
    ASSUME NEW S \in SUBSET Nat
    PROVE  \A m \in Nat : \/ \A n \in S : n > m
                          \/ \E n \in S : n <= m /\ \A q \in S : q <= m => q <= n
<1> DEFINE T == {m \in Nat : \/ \A n \in S : n > m
                             \/ \E n \in S : n <= m /\ \A q \in S : q <= m => q <= n}
<1>1. 0 \in T
  <2>1. CASE 0 \in S
    BY <2>1
  <2>2. CASE 0 \notin S
    BY <2>2
  <2> QED BY <2>1, <2>2
<1>2. ASSUME NEW m \in Nat, m \in T PROVE m + 1 \in T
  <2>1. CASE m + 1 \in S
    <3>1. m + 1 <= m + 1 /\ \A q \in S : q <= m + 1 => q <= m + 1
      OBVIOUS
    <3> QED BY <2>1, <3>1
  <2>2. CASE m + 1 \notin S
    <3>1. \A q \in S : q <= m + 1 <=> q <= m
      BY <2>2
    <3> QED BY <1>2, <3>1
  <2> QED BY <2>1, <2>2
<1>3. Nat \subseteq T
  <2> HIDE DEF T
  <2> QED BY <1>1, <1>2, SetInduction
<1> QED BY <1>3

(* What parse_args leaves in total_sec is what the last -n asks for. *)
LEMMA AskedIs ==
    ASSUME argv \in ArgLists, Counted(Len(argv))
    PROVE  total_sec = Asked
<1>1. Numbers \in SUBSET Nat /\ \A n \in Numbers : n <= Len(argv)
  BY ArgumentTypes
<1>2. Len(argv) \in Nat
  BY ArgumentTypes
<1>3. CASE Numbers = {}
  BY <1>3 DEF Counted, Asked
<1>4. CASE Numbers # {}
  <2>1. ~ \A n \in Numbers : n > Len(argv)
    <3>1. PICK n \in Numbers : TRUE
      BY <1>4
    <3>2. n <= Len(argv) /\ n \in Nat
      BY <1>1
    <3> QED BY <1>2, <3>2
  <2>2. \E n \in Numbers : \A q \in Numbers : n >= q
    BY <1>1, <1>2, <2>1, LastOf
  <2>3. Max(Numbers) \in Numbers /\ \A q \in Numbers : Max(Numbers) >= q
    BY <2>2, Zenon DEF Max
  <2> DEFINE n == Max(Numbers)
  <2>4. n \in Numbers /\ \A q \in Numbers : n >= q
    BY <2>3
  <2> HIDE DEF n
  <2>5. total_sec = argv[n].n
    BY <2>4, <1>1 DEF Counted
  <2> QED BY <2>5, <1>4 DEF Asked, n
<1> QED BY <1>3, <1>4

-----------------------------------------------------------------------------
(* The steps of the tool. *)

Same == argv' = argv /\ disk' = disk

(* Files have sizes.                                                       *)
LEMMA FileTypes ==
    ASSUME disk \in FileSystems
    PROVE  \A f \in DOMAIN disk : disk[f] \in Nat
BY ArgumentAssumption

(* What the image holds stays when it grows. *)
LEMMA HeldGrows ==
    ASSUME ToolType, Same, NEW t \in Seq(Cell), img' = img \o t, NEW m, HeldUpTo(m)
    PROVE  HeldUpTo(m)'
<1>1. Files' = Files /\ Taken' = Taken /\ \A n : Width(n)' = Width(n)
  BY Rigid DEF Same
<1>2. img \in Seq(Cell)
  BY DEF ToolType
<1>3. /\ Len(img) \in Nat /\ Len(img') \in Nat /\ Len(img') >= Len(img)
      /\ \A k \in 1 .. Len(img) : img'[k] = img[k]
  <2>1. Len(img) \in Nat /\ Len(t) \in Nat
    BY <1>2
  <2>2. Len(img') = Len(img) + Len(t)
    BY <1>2, ConcatProperties
  <2>3. \A k \in 1 .. Len(img) + Len(t) :
           img'[k] = IF k <= Len(img) THEN img[k] ELSE t[k - Len(img)]
    BY <1>2, ConcatProperties
  <2> QED BY <2>1, <2>2, <2>3
<1>4. ASSUME NEW n \in Files, Held(n) PROVE Held(n)'
  <2>1. argv[n].fname \in DOMAIN disk /\ Taken[n - 1] \in Nat
    BY <1>4 DEF Held
  <2>2. argv'[n].fname = argv[n].fname /\ disk' = disk
    BY DEF Same
  <2>3. ASSUME NEW k \in 1 .. disk[argv[n].fname], k <= 2 * Width(n)
        PROVE  /\ 2 * Taken[n - 1] + k <= Len(img')
               /\ img'[2 * Taken[n - 1] + k] = Half(argv[n].fname, k)
    <3>1. /\ 2 * Taken[n - 1] + k <= Len(img)
          /\ img[2 * Taken[n - 1] + k] = Half(argv[n].fname, k)
      BY <1>4, <2>3 DEF Held
    <3>2. 2 * Taken[n - 1] + k \in 1 .. Len(img)
      BY <3>1, <2>1, <1>3
    <3> QED BY <3>1, <3>2, <1>3
  <2> QED BY <1>1, <2>1, <2>2, <2>3 DEF Held, Half
<1> QED BY <1>1, <1>4 DEF HeldUpTo

(* An image that stays as it is holds what it held.                        *)
LEMMA HeldStays ==
    ASSUME Same, img' = img, NEW m, HeldUpTo(m)
    PROVE  HeldUpTo(m)'
<1>1. Files' = Files /\ Taken' = Taken /\ \A n : Width(n)' = Width(n)
  BY Rigid DEF Same
<1>2. ASSUME NEW n \in Files, Held(n) PROVE Held(n)'
  BY <1>1, <1>2 DEF Held, Same, Half
<1> QED BY <1>1, <1>2 DEF HeldUpTo

(* Inputs listed stay listed while the list stays as it is.                *)
LEMMA ListedStays ==
    ASSUME Same, ifs' = ifs, Listed(Len(argv))
    PROVE  Listed(Len(argv))'
<1>1. Files' = Files /\ Count' = Count
  BY Rigid DEF Same
<1> QED BY <1>1 DEF Listed, Same

(* The inputs in ifs are those of the command line, in their order. *)
LEMMA ListedFiles ==
    ASSUME ToolType, Listed(Len(argv)), NEW n \in Files
    PROVE  /\ Count[n] \in 1 .. Len(ifs)
           /\ ifs[Count[n]].fname = argv[n].fname
           /\ ifs[Count[n]].nsec = argv[n].nsec
           /\ Count[Len(argv)] = Len(ifs)
<1>1. argv \in ArgLists /\ Len(ifs) \in Nat
  BY DEF ToolType
<1>2. /\ n \in Nat /\ n <= Len(argv) /\ Count[n] = Count[n - 1] + 1
      /\ Count[n - 1] \in Nat /\ Count[n] \in Nat
  BY <1>1, CountFile
<1>3. Len(argv) \in Nat
  BY <1>1, ArgumentTypes
<1>4. Count[n] <= Count[Len(argv)]
  BY <1>2, <1>3, CountMonotone
<1>5. Count[Len(argv)] = Len(ifs)
  BY DEF Listed
<1>6. ifs[Count[n]] = [fname |-> argv[n].fname, nsec |-> argv[n].nsec]
  BY <1>2 DEF Listed
<1> QED BY <1>1, <1>2, <1>4, <1>5, <1>6

(* The tool starts with the invariant. *)
LEMMA ToolStart ==
    ASSUME MkImgInit
    PROVE  ToolInv
<1>1. argv \in ArgLists
  BY DEF MkImgInit
<1>2. /\ Len(argv) \in Nat /\ \A n \in Files \cup Numbers : n \in 1 .. Len(argv)
  BY <1>1, ArgumentTypes
<1>3. <<Junk, Junk>> \in Seq(Cell) /\ Len(<<Junk, Junk>>) = 2
  <2>1. Junk \in Cell
    BY DEF Cell, Junk
  <2> QED BY <2>1
<1>4. ToolType
  <2>1. disk \in FileSystems /\ at \in {"args", "return"} /\ status \in {-3, 0}
    BY DEF MkImgInit
  <2>2. /\ i = 1 /\ j = 0 /\ nSec = 0 /\ fp = 0 /\ outf = FALSE /\ ifs = <<>> /\ img = <<>>
        /\ buf = <<Junk, Junk>> /\ total_sec \in Int
    BY ArgumentAssumption DEF MkImgInit
  <2>3. ifs \in Seq([fname : STRING, nsec : Nat]) /\ img \in Seq(Cell)
    BY <2>2
  <2>4. i \in Nat /\ j \in Nat /\ nSec \in Nat /\ fp \in Nat /\ outf \in BOOLEAN
    BY <2>2
  <2>5. at \in {"args", "open", "copy", "fill", "return"} /\ status \in Int
    BY <2>1
  <2>6. buf \in Seq(Cell) /\ Len(buf) = 2
    BY <1>3, <2>2, Zenon
  <2> QED BY <1>1, <2>1, <2>2, <2>3, <2>4, <2>5, <2>6 DEF ToolType
<1>5. Listed(0) /\ Counted(0)
  BY <1>2, CountDef, SMTT(30) DEF Listed, Counted, MkImgInit
<1>6. InArgs
  <2>1. i = 1 /\ i - 1 = 0 /\ img = <<>>
    BY DEF MkImgInit
  <2> QED BY <1>2, <1>5, <2>1 DEF InArgs, MkImgInit
<1>7. InOpen /\ InCopy /\ InFill
  BY DEF InOpen, InCopy, InFill, MkImgInit
<1>8. Returned
  BY DEF Returned, MkImgInit
<1> QED BY <1>4, <1>6, <1>7, <1>8 DEF ToolInv

(* parse_args: the list and the size asked for, one argument on.           *)
LEMMA ParseStep ==
    ASSUME ToolInv, parse_args
    PROVE  ToolInv'
<1>1. /\ ToolType /\ InArgs /\ at = "args" /\ at' = "args" /\ i <= Len(argv) /\ i' = i + 1
      /\ UNCHANGED <<argv, disk, j, nSec, buf, fp, img, status>>
  BY DEF ToolInv, parse_args
<1>2. /\ argv \in ArgLists /\ i \in Nat /\ total_sec \in Int /\ ifs \in Seq([fname : STRING, nsec : Nat])
      /\ Len(ifs) \in Nat /\ outf \in BOOLEAN
  BY <1>1 DEF ToolType
<1>3. i \in 1 .. Len(argv) /\ Len(argv) \in Nat /\ i - 1 \in Nat /\ (i - 1) + 1 = i /\ i' - 1 = i
  BY <1>1, <1>2, ArgumentTypes DEF InArgs
<1>4. Files' = Files /\ Numbers' = Numbers /\ Count' = Count
  BY <1>1, Rigid
<1>5. Listed(i - 1) /\ Counted(i - 1)
  BY <1>1 DEF InArgs
<1>6. \A n \in Files \cup Numbers : n \in 1 .. Len(argv)
  BY <1>2, ArgumentTypes
<1>7. CASE argv[i].kind = "file"
  <2>1. /\ ifs' = Append(ifs, [fname |-> argv[i].fname, nsec |-> argv[i].nsec])
        /\ total_sec' = total_sec /\ outf' = outf
    BY <1>7 DEF parse_args
  <2>2. i \in Files /\ i \notin Numbers
    BY <1>3, <1>2, <1>7, ArgumentTypes DEF Files, Numbers
  <2>3. argv[i].fname \in STRING /\ argv[i].nsec \in Nat
    BY <1>2, <2>2, ArgumentTypes
  <2>4. [fname |-> argv[i].fname, nsec |-> argv[i].nsec] \in [fname : STRING, nsec : Nat]
    BY <2>3
  <2>5. /\ ifs' \in Seq([fname : STRING, nsec : Nat]) /\ Len(ifs') = Len(ifs) + 1
        /\ ifs'[Len(ifs) + 1] = [fname |-> argv[i].fname, nsec |-> argv[i].nsec]
        /\ \A k \in 1 .. Len(ifs) : ifs'[k] = ifs[k]
    BY <1>2, <2>1, <2>4
  <2>6. Count[i] = Count[i - 1] + 1 /\ Count[i - 1] = Len(ifs)
    BY <1>2, <1>5, <2>2, CountFile DEF Listed
  <2>7. ASSUME NEW n \in Files, n <= i
        PROVE  ifs'[Count[n]] = [fname |-> argv[n].fname, nsec |-> argv[n].nsec]
    <3>1. CASE n = i
      BY <3>1, <2>5, <2>6
    <3>2. CASE n # i
      <4>1. n \in Nat /\ n <= i - 1
        BY <1>3, <1>6, <2>7, <3>2
      <4>2. Count[n] \in 1 .. Len(ifs)
        <5>1. Count[n] <= Count[i - 1]
          BY <1>3, <4>1, CountMonotone
        <5> QED BY <1>2, <5>1, <2>6, CountFile
      <4> QED BY <4>1, <4>2, <2>5, <1>5 DEF Listed
    <3> QED BY <3>1, <3>2
  <2>8. Listed(i - 1)'
    BY <1>1, <1>3, <1>4, <2>5, <2>6, <2>7 DEF Listed
  <2>9. Counted(i - 1)'
    <3>0. i \in Nat /\ \A n \in Numbers : n \in Nat /\ n # i
      <4>1. \A n \in Numbers : n \in Nat
        BY <1>6, <1>3
      <4>2. \A n \in Numbers : n # i
        BY <2>2
      <4> QED BY <1>2, <4>1, <4>2
    <3>1. \A n \in Numbers : n > i - 1 <=> n > i
      BY <3>0
    <3>2. \A n \in Numbers : n <= i - 1 <=> n <= i
      BY <3>0
    <3> QED BY <1>1, <1>3, <1>4, <1>5, <2>1, <3>1, <3>2 DEF Counted
  <2>10. ToolType'
    BY <1>1, <1>2, <2>1, <2>5 DEF ToolType
  <2> QED BY <1>1, <1>3, <2>8, <2>9, <2>10
          DEF ToolInv, InArgs, InOpen, InCopy, InFill, Returned
<1>8. CASE argv[i].kind = "-n"
  <2>1. /\ ifs' = ifs /\ total_sec' = argv[i].n /\ outf' = outf
    BY <1>8 DEF parse_args
  <2>2. i \in Numbers /\ i \notin Files
    BY <1>3, <1>2, <1>8, ArgumentTypes DEF Files, Numbers
  <2>3. argv[i].n \in Int
    BY <1>2, <2>2, ArgumentTypes
  <2>4. Listed(i - 1)'
    <3>1. Count[i] = Count[i - 1]
      <4> DEFINE m == i - 1
      <4>1. m \in Nat /\ m + 1 = i
        BY <1>3
      <4> HIDE DEF m
      <4>2. Count[m + 1] = Count[m]
        BY <4>1, <2>2, CountDef
      <4> QED BY <4>1, <4>2 DEF m
    <3>2. \A n \in Files : n <= i => n <= i - 1
      BY <2>2, <1>3, <1>6
    <3> QED BY <1>1, <1>3, <1>4, <1>5, <2>1, <3>1, <3>2 DEF Listed
  <2>5. Counted(i - 1)'
    <3>1. \A n \in Numbers : n <= i /\ (\A q \in Numbers : q <= i => q <= n) => n = i
      BY <2>2, <1>3, <1>6
    <3>2. ~ \A n \in Numbers : n > i
      BY <2>2, <1>3
    <3> QED BY <1>1, <1>3, <1>4, <2>1, <3>1, <3>2 DEF Counted
  <2>6. ToolType'
    BY <1>1, <1>2, <2>1, <2>3 DEF ToolType
  <2> QED BY <1>1, <1>3, <2>4, <2>5, <2>6
          DEF ToolInv, InArgs, InOpen, InCopy, InFill, Returned
<1>9. CASE argv[i].kind \in {"-o", "-"}
  <2>1. ifs' = ifs /\ total_sec' = total_sec /\ outf' \in BOOLEAN
    BY <1>2, <1>9 DEF parse_args
  <2>2. i \notin Numbers /\ i \notin Files
    BY <1>9 DEF Files, Numbers
  <2>3. Listed(i - 1)'
    <3>1. Count[i] = Count[i - 1]
      <4> DEFINE m == i - 1
      <4>1. m \in Nat /\ m + 1 = i
        BY <1>3
      <4> HIDE DEF m
      <4>2. Count[m + 1] = Count[m]
        BY <4>1, <2>2, CountDef
      <4> QED BY <4>1, <4>2 DEF m
    <3>2. \A n \in Files : n <= i => n <= i - 1
      BY <2>2, <1>3, <1>6
    <3> QED BY <1>1, <1>3, <1>4, <1>5, <2>1, <3>1, <3>2 DEF Listed
  <2>4. Counted(i - 1)'
    <3>0. i \in Nat /\ \A n \in Numbers : n \in Nat /\ n # i
      <4>1. \A n \in Numbers : n \in Nat
        BY <1>6, <1>3
      <4>2. \A n \in Numbers : n # i
        BY <2>2
      <4> QED BY <1>2, <4>1, <4>2
    <3>1. \A n \in Numbers : n > i - 1 <=> n > i
      BY <3>0
    <3>2. \A n \in Numbers : n <= i - 1 <=> n <= i
      BY <3>0
    <3> QED BY <1>1, <1>3, <1>4, <1>5, <2>1, <3>1, <3>2 DEF Counted
  <2>5. ToolType'
    BY <1>1, <1>2, <2>1 DEF ToolType
  <2> QED BY <1>1, <1>3, <2>3, <2>4, <2>5
          DEF ToolInv, InArgs, InOpen, InCopy, InFill, Returned
<1> QED BY <1>7, <1>8, <1>9 DEF parse_args

(* The size asked for is a number.                                         *)
LEMMA AskedType ==
    ASSUME argv \in ArgLists
    PROVE  Asked \in Int
<1>1. /\ Numbers \in SUBSET Nat /\ Len(argv) \in Nat
      /\ \A n \in Numbers : n <= Len(argv) /\ argv[n].n \in Int
  BY ArgumentTypes
<1>2. CASE Numbers = {}
  BY <1>2, ArgumentAssumption DEF Asked
<1>3. CASE Numbers # {}
  <2>1. ~ \A n \in Numbers : n > Len(argv)
    <3>1. PICK n \in Numbers : TRUE
      BY <1>3
    <3>2. n <= Len(argv) /\ n \in Nat
      BY <1>1
    <3> QED BY <1>1, <3>2
  <2>2. \E n \in Numbers : \A q \in Numbers : n >= q
    BY <1>1, <2>1, LastOf
  <2>3. Max(Numbers) \in Numbers
    BY <2>2, Zenon DEF Max
  <2> QED BY <1>1, <1>3, <2>3 DEF Asked
<1> QED BY <1>2, <1>3

(* What the list of inputs holds.                                          *)
LEMMA InputTypes ==
    ASSUME ToolType, NEW k \in 1 .. Len(ifs)
    PROVE  ifs[k].fname \in STRING /\ ifs[k].nsec \in Nat
<1>1. ifs \in Seq([fname : STRING, nsec : Nat])
  BY DEF ToolType
<1>2. ifs[k] \in [fname : STRING, nsec : Nat]
  BY <1>1, ElementOfSeq
<1> QED BY <1>2

(* A pair given by a function is a sequence. *)
LEMMA PairSeq ==
    ASSUME NEW S, NEW b, b = [h \in 1 .. 2 |-> b[h]], b[1] \in S, b[2] \in S
    PROVE  b \in Seq(S) /\ Len(b) = 2
<1>1. \A h \in 1 .. 2 : b[h] \in S
  BY 1 .. 2 = {1, 2}
<1>2. [h \in 1 .. 2 |-> b[h]] \in Seq(S)
  BY <1>1
<1>3. b \in Seq(S)
  BY <1>2
<1>4. DOMAIN b = 1 .. 2
  BY Zenon
<1> QED BY <1>3, <1>4

(* OpenOutput: nothing is written yet, nothing subtracted.                 *)
LEMMA OutputStep ==
    ASSUME ToolInv, OpenOutput
    PROVE  ToolInv'
<1>1. /\ ToolType /\ InArgs /\ at = "args" /\ i > Len(argv) /\ i' = 1
      /\ UNCHANGED <<argv, disk, j, total_sec, outf, ifs, nSec, buf, fp, img>>
  BY DEF ToolInv, OpenOutput
<1>2. /\ argv \in ArgLists /\ i \in Nat /\ total_sec \in Int /\ Len(ifs) \in Nat
  BY <1>1 DEF ToolType
<1>3. Len(argv) \in Nat
  BY <1>2, ArgumentTypes
<1>4. /\ i - 1 = Len(argv) /\ Listed(i - 1) /\ Counted(i - 1) /\ img = <<>> /\ status = 0
  BY <1>1, <1>2, <1>3 DEF InArgs
<1>5. Listed(Len(argv)) /\ total_sec = Asked
  BY <1>2, <1>4, AskedIs
<1>6. Same
  BY <1>1 DEF Same
<1>7. Listed(Len(argv))'
  BY <1>1, <1>5, <1>6, ListedStays
<1>8. Files' = Files /\ Taken' = Taken /\ Count' = Count /\ Asked' = Asked
  BY <1>1, Rigid
<1>9. CASE outf
  <2>1. at' = "open" /\ status' = 0
    BY <1>4, <1>9 DEF OpenOutput
  <2>2. ToolType'
    BY <1>1, <2>1 DEF ToolType
  <2>3. ASSUME NEW m \in 0 .. Len(argv), Count[m] = 0
        PROVE  HeldUpTo(m)' /\ Len(img) = 2 * Taken[m] /\ total_sec = Asked - Taken[m]
    <3>1. m \in Nat /\ \A n \in Files : Count[n] # 0 /\ n \in Nat
      BY <1>2, <1>3, CountFile
    <3>2. Taken[m] = 0 /\ \A n \in Files : n > m
      <4>1. ~ \E n \in Files : Count[m] = Count[n]
        BY <2>3, <3>1
      <4> QED BY <1>2, <3>1, <4>1, LastFile
    <3>3. HeldUpTo(m)
      BY <3>1, <3>2 DEF HeldUpTo
    <3> QED BY <1>1, <1>2, <1>4, <1>5, <1>6, <3>2, <3>3, HeldStays
  <2>4. EndsBefore(1)'
    BY <1>1, <1>8, <2>3 DEF EndsBefore
  <2>5. Subtracted(1)'
    BY <1>1, <1>8, <2>3 DEF Subtracted
  <2>6. (i \in 1 .. Len(ifs) + 1)'
    BY <1>1, <1>2
  <2>7. InOpen'
    BY <1>1, <1>7, <2>1, <2>4, <2>5, <2>6 DEF InOpen
  <2> QED BY <2>1, <2>2, <2>7 DEF ToolInv, InArgs, InCopy, InFill, Returned
<1>10. CASE ~outf
  <2>1. at' = "return" /\ status' = -1
    BY <1>10 DEF OpenOutput
  <2>2. ToolType'
    BY <1>1, <2>1 DEF ToolType
  <2> QED BY <1>1, <1>4, <2>1, <2>2 DEF ToolInv, InArgs, InOpen, InCopy, InFill, Returned
<1> QED BY <1>1, <1>9, <1>10 DEF ToolType

(* OpenInput: either the tool stops, or the next input is to be copied.    *)
LEMMA InputStep ==
    ASSUME ToolInv, OpenInput
    PROVE  ToolInv'
<1>1. /\ ToolType /\ InOpen /\ at = "open" /\ i <= Len(ifs) /\ fp' = 0 /\ j' = 0
      /\ UNCHANGED <<argv, disk, i, total_sec, outf, ifs, buf, img>>
  BY DEF ToolInv, OpenInput
<1>2. /\ argv \in ArgLists /\ disk \in FileSystems /\ i \in Nat /\ total_sec \in Int
      /\ ifs \in Seq([fname : STRING, nsec : Nat]) /\ Len(ifs) \in Nat
  BY <1>1 DEF ToolType
<1>3. /\ i \in 1 .. Len(ifs) /\ EndsBefore(i) /\ Subtracted(i) /\ Listed(Len(argv)) /\ status = 0
  BY <1>1, <1>2 DEF InOpen
<1>4. Same /\ Files' = Files /\ Taken' = Taken /\ Count' = Count /\ Asked' = Asked
      /\ (\A n : Width(n)' = Width(n)) /\ Len(argv) \in Nat
  BY <1>1, <1>2, Rigid, ArgumentTypes DEF Same
<1>5. Listed(Len(argv))'
  BY <1>1, <1>3, <1>4, ListedStays
<1>6. EndsBefore(i)' /\ Subtracted(i)'
  <2>1. ASSUME NEW m \in 0 .. Len(argv), Count[m] = i - 1
        PROVE  HeldUpTo(m)' /\ Len(img) = 2 * Taken[m]
    <3>1. HeldUpTo(m) /\ Len(img) = 2 * Taken[m]
      BY <1>3, <2>1 DEF EndsBefore
    <3> QED BY <1>1, <1>4, <3>1, HeldStays
  <2> QED BY <1>1, <1>3, <1>4, <2>1 DEF EndsBefore, Subtracted
<1>7. CASE ifs[i].fname \in DOMAIN disk
  <2>1. /\ at' = "copy" /\ status' = 0
        /\ nSec' = IF ifs[i].nsec = 0 THEN Sectors(disk[ifs[i].fname]) ELSE ifs[i].nsec
    BY <1>3, <1>7 DEF OpenInput
  <2>2. disk[ifs[i].fname] \in Nat
    BY <1>2, <1>7, FileTypes
  <2>3. ifs[i].nsec \in Nat
    BY <1>1, <1>3, InputTypes
  <2>4. nSec' \in Nat
    BY <2>1, <2>2, <2>3, <1>7, NeededSectors
  <2>5. ASSUME NEW n \in Files, Count[n] = i
        PROVE  Copied(n)'
    <3>1. ifs[i].fname = argv[n].fname /\ ifs[i].nsec = argv[n].nsec
      BY <1>1, <1>3, <2>5, ListedFiles
    <3>2. nSec' = Width(n)
      BY <2>1, <2>2, <3>1, <1>7, NeededSectors DEF Width
    <3>3. n - 1 \in 0 .. Len(argv) /\ Count[n - 1] = i - 1
      BY <1>2, <1>4, <2>5, CountFile
    <3>4. HeldUpTo(n - 1) /\ Len(img) = 2 * Taken[n - 1] /\ Taken[n - 1] \in Nat
      BY <1>3, <3>3 DEF EndsBefore, HeldUpTo
    <3>5. HeldUpTo(n - 1)'
      BY <1>1, <1>4, <3>4, HeldStays
    <3>6. Len(img) = 2 * Taken[n - 1] + 2 * 0
      BY <3>4
    <3>7. \A k \in 1 .. disk[argv[n].fname] : ~(k <= 2 * 0)
      BY <2>2, <3>1
    <3> QED BY <1>1, <1>4, <3>1, <3>2, <3>5, <3>6, <3>7 DEF Copied
  <2>6. InCopy'
    <3>1. j' <= nSec' /\ fp' = IF 2 * j' <= disk[ifs[i].fname] THEN 2 * j' ELSE disk[ifs[i].fname]
      BY <1>1, <2>2, <2>4
    <3> QED BY <1>1, <1>3, <1>4, <1>5, <1>6, <1>7, <2>1, <2>5, <3>1 DEF InCopy
  <2>7. ToolType'
    BY <1>1, <2>1, <2>4 DEF ToolType
  <2> QED BY <2>1, <2>6, <2>7 DEF ToolInv, InArgs, InOpen, InFill, Returned
<1>8. CASE ifs[i].fname \notin DOMAIN disk
  <2>1. at' = "return" /\ status' = -2 /\ nSec' = nSec
    BY <1>8 DEF OpenInput
  <2>2. ToolType'
    BY <1>1, <2>1 DEF ToolType
  <2>3. Returned'
    BY <1>1, <1>3, <1>5, <1>6, <1>8, <2>1 DEF Returned
  <2> QED BY <2>1, <2>2, <2>3 DEF ToolInv, InArgs, InOpen, InCopy, InFill
<1> QED BY <1>7, <1>8

(* CopySector: two more half sectors of the input, or padding.             *)
LEMMA CopyStep ==
    ASSUME ToolInv, CopySector
    PROVE  ToolInv'
<1>1. /\ ToolType /\ InCopy /\ at = "copy" /\ at' = "copy" /\ j < nSec /\ j' = j + 1
      /\ buf' = Read(ifs[i].fname) /\ img' = img \o buf'
      /\ fp' = IF fp + 2 <= disk[ifs[i].fname] THEN fp + 2 ELSE disk[ifs[i].fname]
      /\ UNCHANGED <<argv, disk, i, total_sec, outf, ifs, nSec, status>>
  BY DEF ToolInv, CopySector
<1> DEFINE f == ifs[i].fname
           size == disk[f]
<1>2. /\ argv \in ArgLists /\ disk \in FileSystems /\ i \in Nat /\ j \in Nat /\ nSec \in Nat
      /\ fp \in Nat /\ ifs \in Seq([fname : STRING, nsec : Nat]) /\ img \in Seq(Cell)
      /\ buf \in Seq(Cell) /\ Len(buf) = 2
  BY <1>1 DEF ToolType
<1>3. /\ i \in 1 .. Len(ifs) /\ f \in DOMAIN disk /\ Listed(Len(argv)) /\ Subtracted(i) /\ status = 0
      /\ fp = IF 2 * j <= size THEN 2 * j ELSE size
      /\ \A n \in Files : Count[n] = i => Copied(n)
  BY <1>1 DEF InCopy
<1>4. Same /\ Files' = Files /\ Taken' = Taken /\ Count' = Count /\ Asked' = Asked
      /\ \A n : Width(n)' = Width(n)
  BY <1>1, Rigid DEF Same
<1>5. size \in Nat /\ f \in STRING
  BY <1>1, <1>2, <1>3, FileTypes, InputTypes
<1>6. buf' = [h \in 1 .. 2 |-> IF fp + h <= size THEN Half(f, fp + h) ELSE buf[h]]
  BY <1>1 DEF Read
<1> HIDE DEF f, size
<1>7. buf' \in Seq(Cell) /\ Len(buf') = 2
  <2>1. ASSUME NEW k \in Int PROVE Half(f, k) \in Cell
    BY <1>5 DEF Half, Cell
  <2>2. buf[1] \in Cell /\ buf[2] \in Cell
    BY <1>2, 1 \in 1 .. Len(buf), 2 \in 1 .. Len(buf), ElementOfSeq
  <2>3. /\ buf'[1] = IF fp + 1 <= size THEN Half(f, fp + 1) ELSE buf[1]
        /\ buf'[2] = IF fp + 2 <= size THEN Half(f, fp + 2) ELSE buf[2]
    BY <1>6
  <2>4. buf'[1] \in Cell /\ buf'[2] \in Cell
    BY <1>2, <2>1, <2>2, <2>3
  <2>5. buf' = [h \in 1 .. 2 |-> buf'[h]]
    BY <1>6
  <2> QED BY <2>4, <2>5, PairSeq
<1>8. /\ Len(img) \in Nat /\ Len(img') = Len(img) + 2 /\ img' \in Seq(Cell)
      /\ \A k \in 1 .. Len(img) : img'[k] = img[k]
      /\ img'[Len(img) + 1] = buf'[1] /\ img'[Len(img) + 2] = buf'[2]
  <2>1. Len(img) \in Nat
    BY <1>2
  <2>2. img' \in Seq(Cell) /\ Len(img') = Len(img) + Len(buf')
    BY <1>1, <1>2, <1>7, ConcatProperties
  <2>3. \A k \in 1 .. Len(img) + Len(buf') :
           img'[k] = IF k <= Len(img) THEN img[k] ELSE buf'[k - Len(img)]
    BY <1>1, <1>2, <1>7, ConcatProperties
  <2>4. img'[Len(img) + 1] = buf'[1] /\ img'[Len(img) + 2] = buf'[2]
    <3>1. /\ Len(img) + 1 \in 1 .. Len(img) + Len(buf') /\ (Len(img) + 1) - Len(img) = 1
          /\ Len(img) + 2 \in 1 .. Len(img) + Len(buf') /\ (Len(img) + 2) - Len(img) = 2
          /\ ~(Len(img) + 1 <= Len(img)) /\ ~(Len(img) + 2 <= Len(img))
      BY <2>1, <1>7
    <3> QED BY <2>3, <3>1
  <2> QED BY <2>1, <2>2, <2>3, <2>4, <1>7
<1>9. fp' = IF 2 * (j + 1) <= size THEN 2 * (j + 1) ELSE size
  <2>1. fp' = IF fp + 2 <= size THEN fp + 2 ELSE size
    BY <1>1 DEF f, size
  <2> QED BY <2>1, <1>2, <1>3, <1>5
<1>10. ASSUME NEW n \in Files, Count[n] = i
       PROVE  Copied(n)'
  <2>1. /\ argv[n].fname = f /\ nSec = Width(n) /\ HeldUpTo(n - 1)
        /\ Len(img) = 2 * Taken[n - 1] + 2 * j
        /\ \A k \in 1 .. size : k <= 2 * j => img[2 * Taken[n - 1] + k] = Half(f, k)
    BY <1>3, <1>10 DEF Copied, f, size
  <2>2. HeldUpTo(n - 1)'
    BY <1>1, <1>4, <1>7, <2>1, HeldGrows
  <2> DEFINE t == Taken[n - 1]
  <2>3. t \in Nat
    BY <2>1 DEF HeldUpTo
  <2> HIDE DEF t
  <2>4. Len(img) = 2 * t + 2 * j
    BY <2>1 DEF t
  <2>5. Len(img') = 2 * t + 2 * (j + 1)
    BY <1>2, <1>8, <2>3, <2>4
  <2>6. ASSUME NEW k \in 1 .. size, k <= 2 * (j + 1)
        PROVE  img'[2 * t + k] = Half(f, k)
    <3>1. CASE k <= 2 * j
      <4>1. 2 * t + k \in 1 .. Len(img)
        BY <1>2, <1>5, <2>3, <2>4, <3>1
      <4>2. img[2 * t + k] = Half(f, k)
        BY <2>1, <2>6, <3>1 DEF t
      <4> QED BY <4>1, <4>2, <1>8
    <3>2. CASE k = 2 * j + 1
      <4>1. fp = 2 * j /\ fp + 1 = k /\ 2 * t + k = Len(img) + 1 /\ fp + 1 <= size
        BY <1>2, <1>3, <1>5, <2>3, <2>4, <2>6, <3>2
      <4>2. buf'[1] = Half(f, k)
        BY <1>6, <4>1
      <4> QED BY <4>1, <4>2, <1>8
    <3>3. CASE k = 2 * j + 2
      <4>1. fp = 2 * j /\ fp + 2 = k /\ 2 * t + k = Len(img) + 2 /\ fp + 2 <= size
        BY <1>2, <1>3, <1>5, <2>3, <2>4, <2>6, <3>3
      <4>2. buf'[2] = Half(f, k)
        BY <1>6, <4>1
      <4> QED BY <4>1, <4>2, <1>8
    <3> QED BY <1>2, <1>5, <2>6, <3>1, <3>2, <3>3
  <2> QED BY <1>1, <1>4, <2>1, <2>2, <2>5, <2>6 DEF Copied, Half, f, size, t
<1>11. Listed(Len(argv))'
  BY <1>1, <1>3, <1>4, ListedStays
<1>12. Subtracted(i)'
  BY <1>1, <1>3, <1>4 DEF Subtracted
<1>13. j' <= nSec' /\ j' \in Nat /\ fp' \in Nat
  BY <1>1, <1>2, <1>5, <1>9, SMTT(30)
<1>14. InCopy'
  <2>1. fp' = IF 2 * j' <= disk'[ifs'[i'].fname] THEN 2 * j' ELSE disk'[ifs'[i'].fname]
    BY <1>1, <1>9 DEF f, size
  <2>2. (ifs[i].fname \in DOMAIN disk)' /\ (i \in 1 .. Len(ifs))' /\ status' = 0
    BY <1>1, <1>3 DEF f
  <2> QED BY <1>1, <1>4, <1>10, <1>11, <1>12, <1>13, <2>1, <2>2 DEF InCopy
<1>15. ToolType'
  BY <1>1, <1>2, <1>7, <1>8, <1>13 DEF ToolType
<1> QED BY <1>1, <1>14, <1>15 DEF ToolInv, InArgs, InOpen, InFill, Returned

(* CloseInput: the input is held, and its width subtracted.                *)
LEMMA CloseStep ==
    ASSUME ToolInv, CloseInput
    PROVE  ToolInv'
<1>1. /\ ToolType /\ InCopy /\ at = "copy" /\ at' = "open" /\ j >= nSec /\ i' = i + 1
      /\ total_sec' = total_sec - nSec
      /\ UNCHANGED <<argv, disk, j, outf, ifs, nSec, buf, fp, img, status>>
  BY DEF ToolInv, CloseInput
<1>2. /\ argv \in ArgLists /\ i \in Nat /\ j \in Nat /\ nSec \in Nat /\ total_sec \in Int
      /\ Len(ifs) \in Nat
  BY <1>1 DEF ToolType
<1>3. /\ i \in 1 .. Len(ifs) /\ ifs[i].fname \in DOMAIN disk
      /\ Listed(Len(argv)) /\ Subtracted(i) /\ status = 0 /\ j = nSec
      /\ \A n \in Files : Count[n] = i => Copied(n)
  BY <1>1, <1>2 DEF InCopy
<1>4. Same /\ Files' = Files /\ Taken' = Taken /\ Count' = Count /\ Asked' = Asked
      /\ (\A n : Width(n)' = Width(n)) /\ Len(argv) \in Nat /\ Asked \in Int
  BY <1>1, <1>2, Rigid, ArgumentTypes, AskedType DEF Same
<1>5. ASSUME NEW m \in 0 .. Len(argv), Count[m] = i
      PROVE  HeldUpTo(m)' /\ Len(img) = 2 * Taken[m] /\ total_sec' = Asked - Taken[m]
  <2>1. PICK n \in Files : /\ n <= m /\ Count[m] = Count[n] /\ Taken[m] = Taken[n]
                           /\ \A q \in Files : q <= m => q <= n
    <3>1. m \in Nat /\ Count[m] # 0
      BY <1>3, <1>4, <1>5
    <3> QED BY <1>2, <3>1, LastFile
  <2>2. /\ n \in Nat /\ n <= Len(argv) /\ n - 1 \in 0 .. Len(argv) /\ Count[n - 1] = i - 1
        /\ Taken[n] = Taken[n - 1] + Width(n)
    BY <1>2, <1>4, <1>5, <2>1, CountFile
  <2>3. Copied(n)
    BY <1>3, <1>5, <2>1
  <2>4. /\ Taken[n - 1] \in Nat /\ nSec = Width(n) /\ Len(img) = 2 * Taken[n - 1] + 2 * j
        /\ argv[n].fname = ifs[i].fname
    BY <2>3 DEF Copied, HeldUpTo
  <2>5. Taken[m] = Taken[n - 1] + j /\ Taken[m] \in Nat
    <3>1. Taken[m] = Taken[n - 1] + Width(n) /\ Width(n) = j
      BY <1>3, <2>1, <2>2, <2>4, Zenon
    <3>2. Taken[n - 1] \in Nat
      BY <2>4
    <3> QED BY <1>2, <3>1, <3>2
  <2>6. Len(img) = 2 * Taken[m]
    BY <1>2, <2>4, <2>5
  <2>7. total_sec' = Asked - Taken[m]
    <3>1. total_sec = Asked - Taken[n - 1]
      BY <1>3, <2>2 DEF Subtracted
    <3> DEFINE t == Taken[n - 1]
    <3>2. t \in Nat /\ total_sec = Asked - t /\ Taken[m] = t + j
      BY <2>4, <2>5, <3>1
    <3>3. total_sec' = total_sec - j /\ Asked \in Int
      BY <1>1, <1>3, <1>4
    <3> HIDE DEF t
    <3> QED BY <1>2, <3>2, <3>3
  <2>8. Held(n)
    <3>1. argv[n].fname \in DOMAIN disk
      BY <1>3, <2>4
    <3>2. disk[argv[n].fname] \in Nat
      BY <1>1, <3>1, FileTypes DEF ToolType
    <3> DEFINE t == Taken[n - 1]
               w == Width(n)
    <3>3. t \in Nat /\ w = j /\ Len(img) = 2 * t + 2 * j
      BY <1>3, <2>4
    <3>4. \A k \in 1 .. disk[argv[n].fname] : k <= 2 * j => img[2 * t + k] = Half(argv[n].fname, k)
      BY <2>3 DEF Copied
    <3> HIDE DEF t, w
    <3>5. \A k \in 1 .. disk[argv[n].fname] :
             k <= 2 * w => 2 * t + k <= Len(img) /\ img[2 * t + k] = Half(argv[n].fname, k)
      BY <1>2, <3>2, <3>3, <3>4
    <3> QED BY <2>4, <3>1, <3>5 DEF Held, t, w
  <2>9. HeldUpTo(m)
    <3>1. ASSUME NEW q \in Files, q <= m PROVE Held(q)
      <4>1. q \in Nat /\ q <= n
        BY <1>2, <2>1, <3>1, CountFile
      <4>2. CASE q = n
        BY <4>2, <2>8
      <4>3. CASE q # n
        BY <4>1, <4>3, <2>2, <2>3 DEF Copied, HeldUpTo
      <4> QED BY <4>2, <4>3
    <3> QED BY <2>5, <3>1 DEF HeldUpTo
  <2>10. HeldUpTo(m)'
    BY <1>1, <1>4, <2>9, HeldStays
  <2> QED BY <2>6, <2>7, <2>10
<1>6. (i + 1) - 1 = i
  BY <1>2
<1>7. EndsBefore(i)'
  BY <1>1, <1>4, <1>5, <1>6 DEF EndsBefore
<1>8. Subtracted(i)'
  BY <1>1, <1>4, <1>5, <1>6 DEF Subtracted
<1>9. Listed(Len(argv))'
  BY <1>1, <1>3, <1>4, ListedStays
<1>10. i' \in 1 .. Len(ifs) + 1
  BY <1>1, <1>2, <1>3
<1>11. InOpen'
  BY <1>1, <1>3, <1>7, <1>8, <1>9, <1>10 DEF InOpen
<1>12. ToolType'
  <2>1. total_sec' \in Int /\ i' \in Nat
    BY <1>1, <1>2
  <2> QED BY <1>1, <2>1 DEF ToolType
<1> QED BY <1>1, <1>11, <1>12 DEF ToolInv, InArgs, InCopy, InFill, Returned

(* BeginFill: all inputs are held.                                         *)
LEMMA BeginFillStep ==
    ASSUME ToolInv, BeginFill
    PROVE  ToolInv'
<1>1. /\ ToolType /\ InOpen /\ at = "open" /\ at' = "fill" /\ i > Len(ifs) /\ i' = 0
      /\ buf' = <<Zero, Zero>>
      /\ UNCHANGED <<argv, disk, j, total_sec, outf, ifs, nSec, fp, img, status>>
  BY DEF ToolInv, BeginFill
<1>2. argv \in ArgLists /\ i \in Nat /\ Len(ifs) \in Nat /\ img \in Seq(Cell)
  BY <1>1 DEF ToolType
<1>3. /\ i - 1 = Len(ifs) /\ Listed(Len(argv)) /\ EndsBefore(i) /\ Subtracted(i) /\ status = 0
  BY <1>1, <1>2 DEF InOpen
<1>4. Same /\ Taken' = Taken /\ Asked' = Asked /\ Len(argv) \in Nat
  BY <1>1, <1>2, Rigid, ArgumentTypes DEF Same
<1>5. Len(argv) \in 0 .. Len(argv) /\ Count[Len(argv)] = i - 1
  BY <1>3, <1>4 DEF Listed
<1> DEFINE t == Taken[Len(argv)]
<1>6. HeldUpTo(Len(argv)) /\ Len(img) = 2 * t /\ total_sec = Asked - t /\ t \in Nat
  BY <1>3, <1>5 DEF EndsBefore, Subtracted, HeldUpTo
<1>7. HeldUpTo(Len(argv))'
  BY <1>1, <1>4, <1>6, HeldStays DEF Same
<1> HIDE DEF t
<1>8. Len(img) = 2 * t + 2 * 0 /\ ~ \E k \in 2 * t + 1 .. Len(img) : TRUE
  BY <1>6
<1>9. Filled'
  BY <1>1, <1>4, <1>6, <1>7, <1>8 DEF Filled, t
<1>10. ToolType'
  <2>1. Zero \in Cell
    BY DEF Zero, Cell
  <2>2. buf' \in Seq(Cell) /\ Len(buf') = 2
    BY <1>1, <2>1
  <2> QED BY <1>1, <2>2 DEF ToolType
<1> QED BY <1>1, <1>3, <1>9, <1>10 DEF ToolInv, InArgs, InOpen, InCopy, InFill, Returned, Zero

(* FillSector: one more zero sector behind them.                           *)
LEMMA FillStep ==
    ASSUME ToolInv, FillSector
    PROVE  ToolInv'
<1>1. /\ ToolType /\ InFill /\ at = "fill" /\ at' = "fill" /\ i < total_sec /\ i' = i + 1
      /\ img' = img \o buf
      /\ UNCHANGED <<argv, disk, j, total_sec, outf, ifs, nSec, buf, fp, status>>
  BY DEF ToolInv, FillSector
<1>2. /\ argv \in ArgLists /\ i \in Nat /\ total_sec \in Int /\ img \in Seq(Cell) /\ buf \in Seq(Cell)
  BY <1>1 DEF ToolType
<1>3. Filled /\ buf = <<Zero, Zero>> /\ status = 0
  BY <1>1 DEF InFill
<1>4. Same /\ Taken' = Taken /\ Asked' = Asked /\ Len(argv) \in Nat
  BY <1>1, <1>2, Rigid, ArgumentTypes DEF Same
<1>5. /\ Len(buf) = 2 /\ buf[1] = Zero /\ buf[2] = Zero
  BY <1>3
<1>6. /\ img' \in Seq(Cell) /\ Len(img) \in Nat /\ Len(img') = Len(img) + 2
      /\ \A k \in 1 .. Len(img) + 2 : img'[k] = IF k <= Len(img) THEN img[k] ELSE Zero
  <2>1. /\ img \o buf \in Seq(Cell) /\ Len(img \o buf) = Len(img) + Len(buf)
        /\ \A k \in 1 .. Len(img) + Len(buf) :
              (img \o buf)[k] = IF k <= Len(img) THEN img[k] ELSE buf[k - Len(img)]
    BY <1>2, ConcatProperties
  <2>2. Len(img) \in Nat
    BY <1>2
  <2>3. ASSUME NEW k \in 1 .. Len(img) + 2, ~(k <= Len(img)) PROVE buf[k - Len(img)] = Zero
    <3>1. k - Len(img) \in {1, 2}
      BY <2>2, <2>3
    <3> QED BY <3>1, <1>5
  <2> QED BY <1>1, <1>5, <2>1, <2>2, <2>3
<1> DEFINE t == Taken[Len(argv)]
<1>7. /\ HeldUpTo(Len(argv)) /\ Len(img) = 2 * t + 2 * i /\ total_sec = Asked - t /\ t \in Nat
      /\ \A k \in 2 * t + 1 .. Len(img) : img[k] = Zero
  BY <1>3 DEF Filled, HeldUpTo
<1>8. HeldUpTo(Len(argv))'
  BY <1>1, <1>2, <1>4, <1>7, HeldGrows DEF Same
<1> HIDE DEF t
<1>9. Len(img') = 2 * t + 2 * (i + 1)
  BY <1>2, <1>6, <1>7
<1>10. \A k \in 2 * t + 1 .. Len(img') : img'[k] = Zero
  BY <1>2, <1>6, <1>7
<1>11. i + 1 <= total_sec
  BY <1>1, <1>2
<1>12. Filled'
  BY <1>1, <1>4, <1>7, <1>8, <1>9, <1>10, <1>11 DEF Filled, t, Zero
<1>13. ToolType'
  BY <1>1, <1>2, <1>6 DEF ToolType
<1> QED BY <1>1, <1>3, <1>12, <1>13 DEF ToolInv, InArgs, InOpen, InCopy, InFill, Returned, Zero

(* Finish: the image is as long as was asked for.                          *)
LEMMA FinishStep ==
    ASSUME ToolInv, Finish
    PROVE  ToolInv'
<1>1. /\ ToolType /\ InFill /\ at = "fill" /\ at' = "return" /\ i >= total_sec
      /\ UNCHANGED <<argv, disk, i, j, total_sec, outf, ifs, nSec, buf, fp, img, status>>
  BY DEF ToolInv, Finish
<1>2. Filled /\ status = 0
  BY <1>1 DEF InFill
<1>3. Same /\ Taken' = Taken /\ Asked' = Asked
  BY <1>1, Rigid DEF Same
<1>4. HeldUpTo(Len(argv))'
  BY <1>1, <1>2, <1>3, HeldStays DEF Filled, Same
<1>5. Filled'
  BY <1>1, <1>2, <1>3, <1>4 DEF Filled, Zero
<1>6. ToolType'
  BY <1>1 DEF ToolType
<1> QED BY <1>1, <1>2, <1>5, <1>6 DEF ToolInv, InArgs, InOpen, InCopy, InFill, Returned

(* Every step of the tool keeps the invariant.                             *)
LEMMA ToolStep ==
    ASSUME ToolInv, MkImgNext
    PROVE  ToolInv'
BY ParseStep, OutputStep, InputStep, CopyStep, CloseStep, BeginFillStep, FillStep, FinishStep
   DEF MkImgNext

(* While the tool does nothing. *)
LEMMA ToolRests ==
    ASSUME ToolInv, UNCHANGED tool
    PROVE  ToolInv'
<1>1. UNCHANGED <<argv, disk, at, i, j, total_sec, outf, ifs, nSec, buf, fp, img, status>>
  BY DEF tool
<1>2. Same
  BY <1>1 DEF Same
<1>3. /\ Files' = Files /\ Numbers' = Numbers /\ Taken' = Taken /\ Count' = Count
      /\ Asked' = Asked /\ \A n : Width(n)' = Width(n)
  BY <1>2, Rigid DEF Same
<1>4. \A m : HeldUpTo(m) => HeldUpTo(m)'
  BY <1>1, <1>2, HeldStays
<1>5. \A m : Listed(m) => Listed(m)'
  BY <1>1, <1>3 DEF Listed
<1>6. \A m : Counted(m) => Counted(m)'
  BY <1>1, <1>3 DEF Counted
<1>7. \A n : EndsBefore(n) => EndsBefore(n)'
  BY <1>1, <1>3, <1>4 DEF EndsBefore
<1>8. \A n : Subtracted(n) => Subtracted(n)'
  BY <1>1, <1>3 DEF Subtracted
<1>9. \A n : Copied(n) => Copied(n)'
  BY <1>1, <1>3, <1>4 DEF Copied, Half
<1>10. Filled => Filled'
  BY <1>1, <1>3, <1>4 DEF Filled, Zero
<1>11. InArgs'
  BY <1>1, <1>5, <1>6 DEF ToolInv, InArgs
<1>12. InOpen'
  BY <1>1, <1>5, <1>7, <1>8 DEF ToolInv, InOpen
<1>13. InCopy'
  BY <1>1, <1>3, <1>5, <1>8, <1>9 DEF ToolInv, InCopy
<1>14. InFill'
  BY <1>1, <1>10 DEF ToolInv, InFill, Zero
<1>15. Returned'
  BY <1>1, <1>5, <1>7, <1>10 DEF ToolInv, Returned
<1>16. ToolType'
  BY <1>1 DEF ToolInv, ToolType
<1> QED BY <1>11, <1>12, <1>13, <1>14, <1>15, <1>16 DEF ToolInv

-----------------------------------------------------------------------------
(* What the invariant says of a finished image. *)

(* A finished image holds every input at its place.                        *)
LEMMA InputsHeld ==
    ASSUME ToolInv
    PROVE  ImageHoldsInputs
<1>1. SUFFICES ASSUME Built PROVE \A n \in Files : Held(n)
  BY DEF ImageHoldsInputs, Held
<1>2. HeldUpTo(Len(argv))
  BY <1>1 DEF ToolInv, Returned, Built, Filled
<1>3. \A n \in Files : n <= Len(argv)
  BY CountFile DEF ToolInv, ToolType
<1> QED BY <1>2, <1>3 DEF HeldUpTo

(* A finished image has the sectors asked for or needed.                   *)
LEMMA SizeRight ==
    ASSUME ToolInv
    PROVE  ImageSize
<1> SUFFICES ASSUME Built PROVE ImageSize
  BY DEF ImageSize
<1> DEFINE t == Taken[Len(argv)]
<1>1. /\ Len(img) = 2 * t + 2 * i /\ total_sec = Asked - t /\ (i = 0 \/ i <= total_sec)
      /\ i >= total_sec /\ t \in Nat /\ \A k \in 2 * t + 1 .. Len(img) : img[k] = Zero
  BY DEF ToolInv, Returned, Built, Filled, HeldUpTo
<1>2. i \in Nat /\ total_sec \in Int /\ Asked \in Int
  BY AskedType DEF ToolInv, ToolType
<1>3. ImageSize <=> /\ Len(img) = 2 * (IF t > Asked THEN t ELSE Asked)
                    /\ \A k \in 2 * t + 1 .. Len(img) : img[k] = Zero
  BY DEF ImageSize
<1> HIDE DEF t
<1>4. Len(img) = 2 * (IF t > Asked THEN t ELSE Asked)
  <2>1. CASE t > Asked
    <3>1. i = 0
      BY <1>1, <1>2, <2>1
    <3> QED BY <1>1, <2>1, <3>1
  <2>2. CASE ~(t > Asked)
    <3>1. i = Asked - t
      BY <1>1, <1>2, <2>2
    <3> QED BY <1>1, <1>2, <2>2, <3>1
  <2> QED BY <2>1, <2>2
<1> QED BY <1>1, <1>3, <1>4

-----------------------------------------------------------------------------
(* The boot chain.  The inductive invariant: that of the tool, and of the   *)
(* boot code what is in memory at each stage.                              *)

(* All that disk_load_PE was to read has arrived. *)
Loaded ==
    /\ 2 * LOADER_START + 32 <= Len(Medium(0))
    /\ Len(peMem) = 34
    /\ \A k \in 1 .. 34 : peMem[k] = Medium(0)[6 + k]

(* The first m sections are where they belong. *)
SectionsPlaced(m) ==
    \A s \in 1 .. m : \A k \in 0 .. Table[s].vs - 1 :
        /\ Table[s].va + k \in DOMAIN dest
        /\ k < Table[s].raw => dest[Table[s].va + k] = Half("loader.exe", Table[s].ptr + k + 1)

Ours == machine.drives[0] = "image" /\ "loader.exe" \in DOMAIN disk

BootInv ==
    /\ machine \in Machines
    /\ argv = <<>> => at = "return" /\ img = <<>>
    /\ stage # "bios" => at = "return"
    /\ stage \in {"mbr", "head", "main", "pe", "LocateSections", "loader_main"}
          => machine.drives[machine.boot] = "image" /\ argv # <<>>
    /\ HeadRunsWhole
    /\ stage = "hlt" => failed
    /\ LostOnlyInHead
    /\ stage \in {"main", "pe", "LocateSections"} => Loaded
    /\ stage = "LocateSections" =>
          /\ Ours
          /\ ecx \in 1 .. Len(Table)
          /\ LoaderFits => SectionsPlaced(Len(Table) - ecx)
    /\ stage = "loader_main" =>
          /\ Ours
          /\ LoaderFits => SectionsPlaced(Len(Table))

IInv == ToolInv /\ BootInv

-----------------------------------------------------------------------------
(* The image of a makefile's command line. *)

(* What a machine is.                                                      *)
LEMMA MachineTypes ==
    ASSUME machine \in Machines
    PROVE  /\ machine.arch \in {"x86", "x64"}
           /\ machine.longMode \in BOOLEAN
           /\ machine.boot \in Drives
           /\ \A d \in Drives : machine.drives[d] \in {"image", "other", "none"}
BY MachineAssumption

(* What the files of the makefiles are.                                    *)
LEMMA FileSizes ==
    ASSUME disk \in FileSystems
    PROVE  /\ "mbr.bin" \in DOMAIN disk => disk["mbr.bin"] = 2
           /\ "head.bin" \in DOMAIN disk => disk["head.bin"] = 4
           /\ "loader.exe" \in DOMAIN disk =>
                 /\ disk["loader.exe"] \in Nat /\ disk["loader.exe"] > 0
                 /\ Table \in Seq([va : Nat, vs : Nat, ptr : Nat, raw : Nat])
                 /\ Table # <<>>
                 /\ \A s, t \in DOMAIN Table :
                       /\ Table[s].ptr + Table[s].raw <= disk["loader.exe"]
                       /\ s < t => Table[s].va + Table[s].vs <= Table[t].va
BY FileAssumption, FileTypes DEF Table

(* The sectors of the three inputs. *)
LEMMA ChainPlaces ==
    ASSUME ToolType, ChainLine(argv)
    PROVE  \E p, q, r \in Files :
              /\ Files = {p, q, r}
              /\ argv[p].fname = "mbr.bin" /\ argv[p].nsec \in {0, 1}
              /\ argv[q].fname = "head.bin" /\ argv[q].nsec \in {0, 2}
              /\ argv[r].fname = "loader.exe"
              /\ Count[p - 1] = 0 /\ Count[p] = 1 /\ Count[q] = 2 /\ Count[Len(argv)] = 3
              /\ Taken[p - 1] = 0 /\ Taken[p] = Taken[p - 1] + Width(p)
              /\ Taken[q - 1] = Taken[p] /\ Taken[q] = Taken[q - 1] + Width(q)
              /\ Taken[r - 1] = Taken[q]
<1>1. argv \in ArgLists
  BY DEF ToolType
<1>2. PICK p, q, r \in DOMAIN argv :
        /\ p < q /\ q < r
        /\ \A k \in DOMAIN argv : argv[k].kind = "file" <=> k \in {p, q, r}
        /\ argv[p].fname = "mbr.bin" /\ argv[p].nsec \in {0, 1}
        /\ argv[q].fname = "head.bin" /\ argv[q].nsec \in {0, 2}
        /\ argv[r].fname = "loader.exe"
  BY DEF ChainLine, HEAD_SECTORS
<1>3. Files = {p, q, r}
  BY <1>2 DEF Files
<1>4. /\ p \in Nat /\ q \in Nat /\ r \in Nat /\ Len(argv) \in Nat
      /\ p > 0 /\ r <= Len(argv) /\ p < q /\ q < r
  BY <1>1, <1>2, ArgumentTypes
<1>5. /\ Count[p] = Count[p - 1] + 1 /\ Taken[p] = Taken[p - 1] + Width(p)
      /\ Count[q] = Count[q - 1] + 1 /\ Taken[q] = Taken[q - 1] + Width(q)
      /\ Count[r] = Count[r - 1] + 1
  BY <1>1, <1>3, CountFile
<1>6. Count[p - 1] = 0 /\ Taken[p - 1] = 0
  <2>1. p - 1 \in Nat /\ ~ \E n \in Files : n <= p - 1
    BY <1>3, <1>4
  <2> QED BY <1>1, <2>1, LastFile
<1>7. Count[q - 1] = Count[p] /\ Taken[q - 1] = Taken[p]
  <2>1. q - 1 \in Nat /\ p <= q - 1 /\ ~(q <= q - 1) /\ ~(r <= q - 1)
    BY <1>4
  <2>2. \A n \in Files : n <= q - 1 => n = p
    BY <1>3, <2>1
  <2>3. ~ \A n \in Files : n > q - 1
    BY <1>3, <1>4
  <2>4. \E n \in Files : n <= q - 1 /\ Count[q - 1] = Count[n] /\ Taken[q - 1] = Taken[n]
    BY <1>1, <2>1, <2>3, LastFile
  <2> QED BY <2>2, <2>4
<1>8. Count[r - 1] = Count[q] /\ Taken[r - 1] = Taken[q]
  <2>1. r - 1 \in Nat /\ p <= r - 1 /\ q <= r - 1 /\ ~(r <= r - 1) /\ ~(q <= p)
    BY <1>4
  <2>2. ~ \A n \in Files : n > r - 1
    BY <1>3, <1>4
  <2>3. PICK n \in Files : /\ n <= r - 1 /\ Count[r - 1] = Count[n] /\ Taken[r - 1] = Taken[n]
                           /\ \A m \in Files : m <= r - 1 => m <= n
    BY <1>1, <2>1, <2>2, LastFile
  <2>4. q <= n
    BY <1>3, <2>1, <2>3
  <2>5. n = q
    BY <1>3, <2>1, <2>3, <2>4
  <2> QED BY <2>3, <2>5
<1>9. Count[Len(argv)] = Count[r]
  <2>1. ~ \A n \in Files : n > Len(argv)
    BY <1>3, <1>4
  <2>2. PICK n \in Files : /\ n <= Len(argv) /\ Count[Len(argv)] = Count[n]
                           /\ \A m \in Files : m <= Len(argv) => m <= n
    BY <1>1, <1>4, <2>1, LastFile
  <2>3. r <= n
    BY <1>3, <1>4, <2>2
  <2>4. n = r
    BY <1>3, <1>4, <2>2, <2>3
  <2> QED BY <2>2, <2>4
<1>10. Count[p] = 1 /\ Count[q] = 2 /\ Count[Len(argv)] = 3
  BY <1>5, <1>6, <1>7, <1>8, <1>9
<1> QED BY <1>2, <1>3, <1>5, <1>6, <1>7, <1>8, <1>10

(* The two full inputs have their sectors, the loader at least one. *)
LEMMA ChainWidths ==
    ASSUME ToolType, NEW n \in Files, argv[n].fname \in DOMAIN disk
    PROVE  /\ argv[n].fname = "mbr.bin" /\ argv[n].nsec \in {0, 1} => Width(n) = 1
           /\ argv[n].fname = "head.bin" /\ argv[n].nsec \in {0, 2} => Width(n) = 2
           /\ argv[n].fname = "loader.exe" => Width(n) \in Nat /\ Width(n) >= 1
           /\ argv[n].fname = "loader.exe" /\ LoaderFits => disk["loader.exe"] <= 2 * Width(n)
<1> DEFINE f == argv[n].fname
           size == disk[f]
<1>1. /\ disk \in FileSystems /\ argv \in ArgLists
  BY DEF ToolType
<1>2. size \in Nat /\ argv[n].nsec \in Nat /\ n \in DOMAIN argv /\ argv[n].kind = "file"
  BY <1>1, FileTypes, ArgumentTypes DEF Files
<1>3. Width(n) = IF argv[n].nsec = 0 THEN Sectors(size) ELSE argv[n].nsec
  BY <1>2, NeededSectors DEF Width
<1>4. Sectors(size) \in Nat /\ size <= 2 * Sectors(size)
  BY <1>2, NeededSectors
<1>5. ASSUME f = "mbr.bin", argv[n].nsec \in {0, 1} PROVE Width(n) = 1
  <2>1. size = 2
    BY <1>1, <1>5, FileSizes
  <2>2. Sectors(size) = 1
    BY <2>1 DEF Sectors
  <2> QED BY <1>3, <1>5, <2>2
<1>6. ASSUME f = "head.bin", argv[n].nsec \in {0, 2} PROVE Width(n) = 2
  <2>1. size = 4
    BY <1>1, <1>6, FileSizes
  <2>2. Sectors(size) = 2
    BY <2>1 DEF Sectors
  <2> QED BY <1>3, <1>6, <2>2
<1>7. ASSUME f = "loader.exe" PROVE Width(n) \in Nat /\ Width(n) >= 1
  <2>1. size > 0
    BY <1>1, <1>7, FileSizes
  <2> HIDE DEF size
  <2> QED BY <1>2, <1>3, <1>4, <2>1
<1>8. ASSUME f = "loader.exe", LoaderFits PROVE disk["loader.exe"] <= 2 * Width(n)
  <2>1. argv[n].nsec = 0 \/ disk["loader.exe"] <= 2 * argv[n].nsec
    BY <1>1, <1>2, <1>8 DEF LoaderFits
  <2>2. size = disk["loader.exe"]
    BY <1>8
  <2> HIDE DEF size
  <2> QED BY <1>2, <1>3, <1>4, <2>1, <2>2
<1> QED BY <1>5, <1>6, <1>7, <1>8

-----------------------------------------------------------------------------
(* What pads incomplete sectors.  The buffer is uninitialised until the    *)
(* first sector is read, and mbr.bin fills it.                             *)

Clean == buf[1] # Junk /\ buf[2] # Junk

PadInv ==
    /\ \A k \in DOMAIN img : img[k] # Junk
    /\ at = "open" => i = 1 \/ Clean
    /\ at = "copy" => (i = 1 /\ j = 0) \/ Clean

(* The first input is mbr.bin, which is one whole sector.                  *)
LEMMA FirstInput ==
    ASSUME ToolInv, ChainLines, at = "copy", i = 1
    PROVE  ifs[i].fname = "mbr.bin" /\ nSec = 1 /\ disk[ifs[i].fname] = 2
<1>1. /\ ToolType /\ argv \in ArgLists /\ disk \in FileSystems
      /\ Listed(Len(argv)) /\ i \in 1 .. Len(ifs) /\ ifs[i].fname \in DOMAIN disk
      /\ \A n \in Files : Count[n] = i => Copied(n)
  BY DEF ToolInv, ToolType, InCopy
<1>2. argv # <<>>
  <2> SUFFICES ASSUME argv = <<>> PROVE FALSE
    OBVIOUS
  <2>1. Len(argv) = 0
    OBVIOUS
  <2>2. Len(ifs) = 0
    BY <1>1, <2>1, CountDef DEF Listed
  <2> QED BY <1>1, <2>2
<1>3. ChainLine(argv)
  BY <1>1, <1>2 DEF ChainLines
<1>4. PICK p \in Files : argv[p].fname = "mbr.bin" /\ argv[p].nsec \in {0, 1} /\ Count[p] = 1
  BY <1>1, <1>3, ChainPlaces
<1>5. Copied(p)
  BY <1>1, <1>4
<1>6. argv[p].fname = ifs[i].fname /\ nSec = Width(p)
  BY <1>5 DEF Copied
<1>7. Width(p) = 1
  BY <1>1, <1>4, <1>6, ChainWidths
<1> QED BY <1>1, <1>4, <1>6, <1>7, FileSizes

(* A half of a file's sector is not what the stack held.                   *)
LEMMA HalfClean ==
    ASSUME NEW f, NEW k \in Nat, k >= 1
    PROVE  Half(f, k) # Junk
BY DEF Half, Junk

(* What a sector appends is clean if the sector is.                        *)
LEMMA AppendClean ==
    ASSUME ToolType, NEW b \in Seq(Cell), Len(b) = 2, b[1] # Junk, b[2] # Junk,
           \A k \in DOMAIN img : img[k] # Junk
    PROVE  \A k \in DOMAIN (img \o b) : (img \o b)[k] # Junk
<1>1. img \in Seq(Cell)
  BY DEF ToolType
<1> HIDE DEF Cell
<1>2. /\ Len(img) \in Nat /\ DOMAIN img = 1 .. Len(img)
      /\ DOMAIN (img \o b) = 1 .. Len(img) + 2
      /\ \A k \in 1 .. Len(img) : (img \o b)[k] = img[k]
      /\ (img \o b)[Len(img) + 1] = b[1]
      /\ (img \o b)[Len(img) + 2] = b[2]
  <2>1. img \o b \in Seq(Cell) /\ Len(img \o b) = Len(img) + 2 /\ Len(img) \in Nat
    <3>1. Len(img \o b) = Len(img) + Len(b) /\ img \o b \in Seq(Cell)
      BY <1>1, ConcatProperties, Zenon
    <3> QED BY <1>1, <3>1
  <2>2. DOMAIN img = 1 .. Len(img) /\ DOMAIN (img \o b) = 1 .. Len(img) + 2
    BY <1>1, <2>1
  <2>3. \A k \in 1 .. Len(img \o b) :
           (img \o b)[k] = IF k <= Len(img) THEN img[k] ELSE b[k - Len(img)]
    BY <1>1, <2>1
  <2> QED BY <2>1, <2>2, <2>3
<1> SUFFICES ASSUME NEW k \in 1 .. Len(img) + 2 PROVE (img \o b)[k] # Junk
  BY <1>2
<1>3. k \in 1 .. Len(img) \/ k = Len(img) + 1 \/ k = Len(img) + 2
  BY <1>2
<1> QED BY <1>2, <1>3

(* No step leaves junk in the image, nor in the buffer once it was read.   *)
LEMMA PadStep ==
    ASSUME ToolInv, ToolInv', PadInv, ChainLines, MkImgNext
    PROVE  PadInv'
<1>1. ToolType /\ ToolType'
  BY DEF ToolInv
<1>2. CASE parse_args
  BY <1>2 DEF parse_args, PadInv
<1>3. CASE OpenOutput
  BY <1>3 DEF OpenOutput, PadInv
<1>4. CASE OpenInput
  BY <1>4 DEF OpenInput, PadInv, Clean
<1>5. CASE CopySector
  <2> DEFINE f == ifs[i].fname
  <2>1. /\ at = "copy" /\ at' = "copy" /\ i' = i /\ j' = j + 1 /\ buf' = Read(f) /\ img' = img \o buf'
    BY <1>5 DEF CopySector
  <2>2. /\ buf'[1] = (IF fp + 1 <= disk[f] THEN Half(f, fp + 1) ELSE buf[1])
        /\ buf'[2] = (IF fp + 2 <= disk[f] THEN Half(f, fp + 2) ELSE buf[2])
    BY <2>1, 1 .. 2 = {1, 2} DEF Read
  <2>3. fp \in Nat
    BY <1>1 DEF ToolType
  <2>4. Half(f, fp + 1) # Junk /\ Half(f, fp + 2) # Junk
    <3>1. fp + 1 \in Nat /\ fp + 1 >= 1 /\ fp + 2 \in Nat /\ fp + 2 >= 1
      BY <2>3
    <3> QED BY <3>1, HalfClean
  <2>5. Clean'
    <3>1. CASE Clean
      BY <2>2, <2>4, <3>1 DEF Clean
    <3>2. CASE i = 1 /\ j = 0
      <4>1. disk[f] = 2
        BY <2>1, <3>2, FirstInput
      <4>2. fp = 0
        BY <2>1, <3>2, <4>1 DEF ToolInv, InCopy
      <4> QED BY <2>2, <2>4, <4>1, <4>2 DEF Clean
    <3> QED BY <2>1, <3>1, <3>2 DEF PadInv
  <2>6. buf' \in Seq(Cell) /\ Len(buf') = 2
    BY <1>1 DEF ToolType
  <2>7. \A k \in DOMAIN img' : img'[k] # Junk
    BY <1>1, <2>1, <2>5, <2>6, AppendClean DEF Clean, PadInv
  <2> QED BY <2>1, <2>5, <2>7 DEF PadInv
<1>6. CASE CloseInput
  <2>1. at = "copy" /\ j >= nSec /\ at' = "open" /\ UNCHANGED <<buf, img>>
    BY <1>6 DEF CloseInput
  <2>2. ~ (i = 1 /\ j = 0)
    BY <2>1, FirstInput
  <2> QED BY <2>1, <2>2 DEF PadInv, Clean
<1>7. CASE BeginFill
  BY <1>7 DEF BeginFill, PadInv
<1>8. CASE FillSector
  <2>1. at = "fill" /\ at' = "fill" /\ buf' = buf /\ img' = img \o buf
    BY <1>8 DEF FillSector
  <2>2. buf = <<Zero, Zero>> /\ Zero # Junk
    BY <2>1 DEF ToolInv, InFill, Zero, Junk
  <2>3. buf \in Seq(Cell) /\ Len(buf) = 2
    BY <1>1 DEF ToolType
  <2>4. \A k \in DOMAIN img' : img'[k] # Junk
    <3>1. buf[1] # Junk /\ buf[2] # Junk
      BY <2>2
    <3> QED BY <1>1, <2>1, <2>3, <3>1, AppendClean DEF PadInv
  <2> QED BY <2>1, <2>4 DEF PadInv
<1>9. CASE Finish
  BY <1>9 DEF Finish, PadInv
<1> QED BY <1>2, <1>3, <1>4, <1>5, <1>6, <1>7, <1>8, <1>9 DEF MkImgNext

-----------------------------------------------------------------------------
(* An image that is long enough has the head behind the boot sector, and   *)
(* the loader behind the head.                                             *)
LEMMA ChainImage ==
    ASSUME ToolInv, ChainLine(argv), at = "return"
    PROVE  /\ Len(img) >= 6 => \A k \in 1 .. 4 : img[2 + k] = Half("head.bin", k)
           /\ Len(img) >= 7 =>
                 /\ "loader.exe" \in DOMAIN disk
                 /\ img[7] = Half("loader.exe", 1)
                 /\ LoaderFits =>
                       \A k \in 1 .. disk["loader.exe"] : img[6 + k] = Half("loader.exe", k)
<1>1. ToolType /\ Returned
  BY DEF ToolInv
<1>2. PICK p, q, r \in Files :
        /\ Files = {p, q, r}
        /\ argv[p].fname = "mbr.bin" /\ argv[p].nsec \in {0, 1}
        /\ argv[q].fname = "head.bin" /\ argv[q].nsec \in {0, 2}
        /\ argv[r].fname = "loader.exe"
        /\ Count[p - 1] = 0 /\ Count[p] = 1 /\ Count[q] = 2 /\ Count[Len(argv)] = 3
        /\ Taken[p - 1] = 0 /\ Taken[p] = Taken[p - 1] + Width(p)
        /\ Taken[q - 1] = Taken[p] /\ Taken[q] = Taken[q - 1] + Width(q)
        /\ Taken[r - 1] = Taken[q]
  BY <1>1, ChainPlaces
<1>3. /\ argv \in ArgLists /\ disk \in FileSystems /\ Len(argv) \in Nat /\ i \in Nat
      /\ p \in 1 .. Len(argv) /\ q \in 1 .. Len(argv) /\ r \in 1 .. Len(argv)
  BY <1>1, ArgumentTypes DEF ToolType
<1>4. ASSUME Held(p) PROVE Taken[p] = 1
  <2>1. Width(p) = 1
    BY <1>1, <1>2, <1>4, ChainWidths DEF Held
  <2> QED BY <1>2, <2>1
<1>5. ASSUME Held(p), Held(q)
      PROVE  Taken[q] = 3 /\ \A k \in 1 .. 4 : img[2 + k] = Half("head.bin", k)
  <2>1. Width(q) = 2 /\ "head.bin" \in DOMAIN disk
    BY <1>1, <1>2, <1>5, ChainWidths DEF Held
  <2>2. disk["head.bin"] = 4
    BY <1>3, <2>1, FileSizes
  <2>3. Taken[q - 1] = 1 /\ Taken[q] = 3
    BY <1>2, <1>4, <1>5, <2>1
  <2>4. \A k \in 1 .. 4 : k <= 2 * 2 => img[2 * 1 + k] = Half("head.bin", k)
    BY <1>2, <1>5, <2>1, <2>2, <2>3 DEF Held
  <2> QED BY <2>3, <2>4
<1>6. ASSUME Held(p), Held(q), Held(r)
      PROVE  /\ "loader.exe" \in DOMAIN disk
             /\ img[7] = Half("loader.exe", 1)
             /\ LoaderFits =>
                   \A k \in 1 .. disk["loader.exe"] : img[6 + k] = Half("loader.exe", k)
  <2>1. /\ "loader.exe" \in DOMAIN disk /\ Width(r) \in Nat /\ Width(r) >= 1
        /\ LoaderFits => disk["loader.exe"] <= 2 * Width(r)
    BY <1>1, <1>2, <1>6, ChainWidths DEF Held
  <2>2. disk["loader.exe"] \in Nat /\ disk["loader.exe"] > 0
    BY <1>3, <2>1, FileSizes
  <2>3. Taken[r - 1] = 3
    BY <1>2, <1>5, <1>6
  <2>4. \A k \in 1 .. disk["loader.exe"] :
           k <= 2 * Width(r) => img[2 * 3 + k] = Half("loader.exe", k)
    BY <1>2, <1>6, <2>3 DEF Held
  <2>5. img[6 + 1] = Half("loader.exe", 1)
    BY <2>1, <2>2, <2>4
  <2>6. ASSUME LoaderFits, NEW k \in 1 .. disk["loader.exe"]
        PROVE  img[6 + k] = Half("loader.exe", k)
    <3>1. k <= 2 * Width(r)
      BY <2>1, <2>2, <2>6
    <3> QED BY <2>4, <3>1
  <2> QED BY <2>1, <2>5, <2>6
<1>7. CASE img = <<>>
  <2>1. Len(img) = 0
    BY <1>7
  <2> QED BY <2>1
<1>8. CASE /\ status = -2 /\ Listed(Len(argv)) /\ i \in 1 .. Len(ifs) /\ EndsBefore(i)
  <2>1. i \in 1 .. 3
    BY <1>2, <1>8 DEF Listed
  <2>2. CASE i = 1
    <3>1. p - 1 \in 0 .. Len(argv) /\ Count[p - 1] = i - 1
      BY <1>2, <1>3, <2>2
    <3>2. Len(img) = 0
      BY <1>2, <1>8, <3>1 DEF EndsBefore
    <3> QED BY <3>2
  <2>3. CASE i = 2
    <3>1. p \in 0 .. Len(argv) /\ Count[p] = i - 1
      BY <1>2, <1>3, <2>3
    <3>2. Held(p) /\ Len(img) = 2 * Taken[p]
      BY <1>3, <1>8, <3>1 DEF EndsBefore, HeldUpTo
    <3>3. Len(img) = 2
      BY <1>4, <3>2
    <3> QED BY <3>3
  <2>4. CASE i = 3
    <3>1. q \in 0 .. Len(argv) /\ Count[q] = i - 1
      BY <1>2, <1>3, <2>4
    <3>2. HeldUpTo(q) /\ Len(img) = 2 * Taken[q]
      BY <1>8, <3>1 DEF EndsBefore
    <3>3. p <= q
      BY <1>2, <1>3, CountMonotone
    <3>4. Held(p) /\ Held(q)
      BY <1>3, <3>2, <3>3 DEF HeldUpTo
    <3>5. Len(img) = 6
      BY <1>5, <3>2, <3>4
    <3> QED BY <1>5, <3>4, <3>5
  <2> QED BY <2>1, <2>2, <2>3, <2>4
<1>9. CASE status = 0 /\ Filled
  <2>1. Held(p) /\ Held(q) /\ Held(r)
    BY <1>3, <1>9 DEF Filled, HeldUpTo
  <2> QED BY <1>5, <1>6, <2>1
<1> QED BY <1>1, <1>7, <1>8, <1>9 DEF Returned

-----------------------------------------------------------------------------
(* The BIOS. *)

(* What is in a drive.                                                     *)
LEMMA MediumIs ==
    ASSUME machine \in Machines, NEW d \in Drives
    PROVE  /\ machine.drives[d] = "image" => Medium(d) = img
           /\ machine.drives[d] = "other" => Medium(d) = [k \in 1 .. 64 |-> <<"other", k>>]
           /\ machine.drives[d] = "none" => Medium(d) = <<>>
           /\ machine.drives[d] \in {"image", "other", "none"}
BY MachineTypes DEF Medium

(* Only our image is taken for a boot sector of ours, or for its loader.   *)
LEMMA OtherDisk ==
    ASSUME machine \in Machines, NEW d \in Drives, machine.drives[d] # "image",
           NEW k \in 1 .. Len(Medium(d)), NEW f, f # "other"
    PROVE  \A h : Medium(d)[k] # Half(f, h)
<1>1. machine.drives[d] = "other" \/ machine.drives[d] = "none"
  BY MediumIs
<1>2. CASE machine.drives[d] = "none"
  <2>1. Medium(d) = <<>>
    BY <1>2, MediumIs
  <2> QED BY <2>1
<1>3. CASE machine.drives[d] = "other"
  <2>1. Medium(d) = [m \in 1 .. 64 |-> <<"other", m>>]
    BY <1>3, MediumIs
  <2>2. DOMAIN Medium(d) = 1 .. 64
    BY <2>1
  <2>3. Len(Medium(d)) = 64
    BY <2>1
  <2>4. Medium(d)[k] = <<"other", k>>
    <3>1. k \in 1 .. 64
      BY <2>3
    <3> QED BY <2>1, <3>1
  <2> QED BY <2>4 DEF Half
<1> QED BY <1>1, <1>2, <1>3

Arrived(mem, d, first, n) ==
    /\ 2 * (first + n - 1) <= Len(Medium(d))
    /\ Len(mem) = 2 * n
    /\ DOMAIN mem = 1 .. 2 * n /\ mem = [k \in DOMAIN mem |-> mem[k]]
    /\ \A k \in 1 .. 2 * n : mem[k] = Medium(d)[2 * first - 2 + k]

(* A read without an error has put all of the sectors into memory.         *)
LEMMA GoodRead ==
    ASSUME NEW d, NEW first \in Nat, first > 0, NEW n \in Nat, n > 0, NEW mem,
           NEW r \in BiosRead(d, first, n, mem), Good(r, n)
    PROVE  Arrived(r.mem, d, first, n)
<1> DEFINE there == 2 * (first + n - 1) <= Len(Medium(d))
           all == IF there THEN {Sector(d, first, n)} ELSE {}
           some == IF 2 * (first + (n - 1) - 1) <= Len(Medium(d))
                   THEN Sector(d, first, n - 1) \o SubSeq(mem, 2 * n - 1, 2 * n) ELSE mem
<1>1. r \in [carry : {FALSE}, al : {n}, mem : all]
                \cup [carry : BOOLEAN, al : {n - 1}, mem : {some}]
                \cup [carry : {TRUE}, al : {n}, mem : all \cup {some}]
  BY DEF BiosRead
<1> HIDE DEF all, some
<1>2. r.al = n /\ r.carry = FALSE
  <2>1. r.carry \in BOOLEAN
    BY <1>1
  <2> QED BY <2>1 DEF Good
<1>3. n # n - 1
  OBVIOUS
<1>4. /\ r \notin [carry : BOOLEAN, al : {n - 1}, mem : {some}]
      /\ r \notin [carry : {TRUE}, al : {n}, mem : all \cup {some}]
  BY <1>2, <1>3
<1>5. r.mem \in all
  BY <1>1, <1>4
<1>6. there /\ r.mem = Sector(d, first, n)
  BY <1>5 DEF all
<1>7. r.mem = SubSeq(Medium(d), 2 * first - 1, 2 * (first + n - 1))
  BY <1>6 DEF Sector
<1> DEFINE a == 2 * first - 1
           b == 2 * (first + n - 1)
           S == {Medium(d)[k] : k \in a .. b}
<1>8. /\ a \in Int /\ b \in Int /\ b - a + 1 = 2 * n /\ a <= b
      /\ \A k \in Int : a + k - 1 = 2 * first - 2 + k
  OBVIOUS
<1>9. \A k \in a .. b : Medium(d)[k] \in S
  OBVIOUS
<1>10. there /\ r.mem = SubSeq(Medium(d), a, b)
  BY <1>6, <1>7
<1> HIDE DEF a, b
<1>11. /\ SubSeq(Medium(d), a, b) \in Seq(S)
       /\ Len(SubSeq(Medium(d), a, b)) = b - a + 1
       /\ \A k \in 1 .. b - a + 1 : SubSeq(Medium(d), a, b)[k] = Medium(d)[a + k - 1]
  BY <1>8, <1>9, SubSeqProperties
<1>12. \A k \in 1 .. 2 * n : r.mem[k] = Medium(d)[2 * first - 2 + k]
  BY <1>8, <1>10, <1>11
<1>13. Len(r.mem) = 2 * n /\ r.mem \in Seq(S)
  BY <1>8, <1>10, <1>11
<1> HIDE DEF S
<1>14. DOMAIN r.mem = 1 .. 2 * n /\ r.mem = [k \in DOMAIN r.mem |-> r.mem[k]]
  BY <1>13
<1> QED BY <1>6, <1>12, <1>13, <1>14 DEF Arrived

-----------------------------------------------------------------------------
(* The steps. *)

(* The invariant holds at the start.                                       *)
LEMMA Start ==
    ASSUME Init
    PROVE  IInv
<1>1. ToolInv
  BY ToolStart DEF Init
<1>2. argv = <<>> => at = "return" /\ img = <<>>
  BY DEF Init, MkImgInit
<1>3. BootInv
  BY <1>2 DEF BootInv, Init, HeadRunsWhole, LostOnlyInHead
<1> QED BY <1>1, <1>3 DEF IInv

(* The tool runs before any machine boots.                                 *)
LEMMA ToolSteps ==
    ASSUME IInv, MkImgNext, UNCHANGED boot
    PROVE  IInv'
<1>1. ToolInv'
  BY ToolStep DEF IInv
<1>2. at \in {"args", "open", "copy", "fill"} /\ argv' = argv
  BY DEF MkImgNext, parse_args, OpenOutput, OpenInput, CopySector, CloseInput, BeginFill,
         FillSector, Finish
<1>3. stage = "bios" /\ argv # <<>> /\ machine \in Machines
  BY <1>2 DEF IInv, BootInv
<1>4. stage' = "bios" /\ machine' = machine
  BY <1>3 DEF boot
<1>5. BootInv'
  BY <1>2, <1>3, <1>4 DEF BootInv, HeadRunsWhole, LostOnlyInHead
<1> QED BY <1>1, <1>5 DEF IInv

(* The BIOS starts a first sector only if it is that of our image.         *)
LEMMA BootSectorStep ==
    ASSUME IInv, BootSector
    PROVE  IInv'
<1>1. /\ stage = "bios" /\ at = "return" /\ UNCHANGED <<tool, machine, headMem, peMem, dest, ecx, failed>>
      /\ machine \in Machines
  BY DEF BootSector, IInv, BootInv
<1>2. UNCHANGED <<argv, at, img>>
  BY <1>1 DEF tool
<1>3. ToolInv'
  BY <1>1, ToolRests DEF IInv
<1>4. argv' = <<>> => at' = "return" /\ img' = <<>>
  BY <1>2 DEF IInv, BootInv
<1>5. CASE stage' = "no boot"
  <2>1. BootInv'
    BY <1>1, <1>2, <1>4, <1>5 DEF BootInv, HeadRunsWhole, LostOnlyInHead
  <2> QED BY <1>3, <2>1 DEF IInv
<1>6. CASE stage' = "mbr"
  <2> DEFINE m == Medium(machine.boot)
  <2>1. /\ Len(m) >= 2 /\ Sector(machine.boot, 1, 1) = <<Half("mbr.bin", 1), Half("mbr.bin", 2)>>
    BY <1>6 DEF BootSector
  <2>2. Sector(machine.boot, 1, 1) = SubSeq(m, 1, 2)
    BY DEF Sector
  <2>3. SubSeq(m, 1, 2)[1] = m[1]
    <3> HIDE DEF m
    <3>1. \A k \in 1 .. 2 : m[k] \in {m[1], m[2]}
      BY 1 .. 2 = {1, 2}
    <3>2. \A k \in 1 .. 2 - 1 + 1 : SubSeq(m, 1, 2)[k] = m[1 + k - 1]
      BY <3>1, SubSeqProperties
    <3> QED BY <3>2
  <2>4. m[1] = Half("mbr.bin", 1)
    BY <2>1, <2>2, <2>3
  <2>5. machine.boot \in Drives
    BY <1>1, MachineTypes
  <2>6. Len(m) \in Nat /\ 1 \in 1 .. Len(m)
    <3>1. CASE machine.drives[machine.boot] = "image"
      BY <1>1, <2>1, <2>5, <3>1, MediumIs DEF IInv, ToolInv, ToolType
    <3>2. CASE machine.drives[machine.boot] = "other"
      <4>1. m = [k \in 1 .. 64 |-> <<"other", k>>]
        BY <1>1, <2>5, <3>2, MediumIs
      <4> HIDE DEF m
      <4>2. Len(m) = 64
        BY <4>1
      <4> QED BY <4>2
    <3>3. CASE machine.drives[machine.boot] = "none"
      BY <1>1, <2>1, <2>5, <3>3, MediumIs
    <3> QED BY <1>1, <2>5, <3>1, <3>2, <3>3, MediumIs
  <2>7. machine.drives[machine.boot] = "image"
    <3>1. "mbr.bin" # "other"
      OBVIOUS
    <3> QED BY <1>1, <2>4, <2>5, <2>6, <3>1, OtherDisk
  <2>8. argv # <<>>
    <3>1. img # <<>>
      BY <1>1, <2>1, <2>5, <2>7, MediumIs
    <3> QED BY <3>1 DEF IInv, BootInv
  <2>9. BootInv'
    BY <1>1, <1>2, <1>6, <2>7, <2>8 DEF BootInv, HeadRunsWhole, LostOnlyInHead
  <2> QED BY <1>3, <2>9 DEF IInv
<1> QED BY <1>5, <1>6 DEF BootSector

(* The command line of an image that booted. *)
LEMMA BootedLine ==
    ASSUME IInv, ChainLines, argv # <<>>
    PROVE  ChainLine(argv)
BY DEF IInv, ToolInv, ToolType, ChainLines

(* The boot sector goes on only with the whole head in memory.             *)
LEMMA MbrStep ==
    ASSUME IInv, ChainLines, MbrDiskLoad
    PROVE  IInv'
<1>1. /\ stage = "mbr" /\ at = "return" /\ UNCHANGED <<tool, machine, peMem, dest, ecx>>
      /\ machine \in Machines /\ machine.drives[machine.boot] = "image" /\ argv # <<>>
  BY DEF MbrDiskLoad, IInv, BootInv
<1>2. UNCHANGED <<argv, at, img>>
  BY <1>1 DEF tool
<1>3. ToolInv'
  BY <1>1, ToolRests DEF IInv
<1>4. PICK r \in BiosRead(machine.boot, 2, HEAD_SECTORS, headMem) :
         /\ headMem' = r.mem
         /\ stage' = IF Good(r, HEAD_SECTORS) THEN "head" ELSE "stopped"
  BY DEF MbrDiskLoad
<1>5. CASE Good(r, HEAD_SECTORS)
  <2>1. stage' = "head"
    BY <1>4, <1>5
  <2>2. Medium(machine.boot) = img
    BY <1>1, MachineTypes, MediumIs
  <2> DEFINE first == 2
             n == HEAD_SECTORS
  <2>3. first \in Nat /\ first > 0 /\ n \in Nat /\ n > 0
    BY DEF HEAD_SECTORS
  <2>11. first = 2 /\ n = 2
    BY DEF HEAD_SECTORS
  <2> HIDE DEF first, n
  <2>4. Arrived(r.mem, machine.boot, first, n)
    <3>1. r \in BiosRead(machine.boot, first, n, headMem) /\ Good(r, n)
      BY <1>4, <1>5 DEF first, n
    <3>2. PICK d, mem : d = machine.boot /\ mem = headMem
      OBVIOUS
    <3>3. r \in BiosRead(d, first, n, mem) /\ Good(r, n)
      BY <3>1, <3>2
    <3>4. Arrived(r.mem, d, first, n)
      BY <2>3, <3>3, GoodRead
    <3> QED BY <3>2, <3>4
  <2>5. Len(img) >= 6 /\ Len(r.mem) = 4 /\ \A k \in 1 .. 4 : r.mem[k] = img[2 + k]
    <3>1. 2 * (first + n - 1) = 6 /\ 2 * n = 4 /\ 2 * first - 2 = 2
      BY <2>11
    <3> QED BY <2>2, <2>4, <3>1 DEF Arrived
  <2>6. \A k \in 1 .. 4 : img[2 + k] = Half("head.bin", k)
    BY <1>1, <2>5, BootedLine, ChainImage DEF IInv
  <2>7. DOMAIN r.mem = 1 .. 4 /\ r.mem = [k \in DOMAIN r.mem |-> r.mem[k]]
    BY <2>4, <2>11 DEF Arrived
  <2>8. r.mem = [k \in 1 .. 4 |-> Half("head.bin", k)]
    BY <2>5, <2>6, <2>7
  <2>9. HeadRunsWhole'
    BY <1>4, <2>8 DEF HeadRunsWhole, Half
  <2>10. BootInv'
    BY <1>1, <1>2, <2>1, <2>9 DEF BootInv, LostOnlyInHead
  <2> QED BY <1>3, <2>10 DEF IInv
<1>6. CASE ~Good(r, HEAD_SECTORS)
  <2>1. stage' = "stopped"
    BY <1>4, <1>6
  <2>2. BootInv'
    BY <1>1, <1>2, <2>1 DEF BootInv, HeadRunsWhole, LostOnlyInHead
  <2> QED BY <1>3, <2>2 DEF IInv
<1> QED BY <1>5, <1>6

(* The head's memory and the command line go on as they are. *)
LEMMA HeadStays ==
    ASSUME IInv, UNCHANGED <<tool, machine, headMem>>,
           stage \in {"head", "main", "pe", "LocateSections", "loader_main", "hlt", "lost"}
    PROVE  /\ ToolInv' /\ HeadRunsWhole'
           /\ at = "return" /\ UNCHANGED <<argv, disk, at, img>>
           /\ machine \in Machines /\ 0 \in Drives
           /\ (argv = <<>> => at = "return" /\ img = <<>>)'
           /\ \A d : Medium(d)' = Medium(d)
<1>1. UNCHANGED <<argv, disk, at, img>>
  BY DEF tool
<1>2. ToolInv'
  BY ToolRests DEF IInv
<1>3. HeadRunsWhole'
  BY DEF IInv, BootInv, HeadRunsWhole, Half
<1>4. \A d : Medium(d)' = Medium(d)
  BY <1>1 DEF Medium
<1> QED BY <1>1, <1>2, <1>3, <1>4 DEF IInv, BootInv, Drives

(* The head goes on only with all of the sectors behind it in memory.      *)
LEMMA DiskLoadStep ==
    ASSUME IInv, disk_load_PE
    PROVE  IInv'
<1>1. stage = "head" /\ UNCHANGED <<tool, machine, headMem, dest, ecx>>
  BY DEF disk_load_PE
<1>2. /\ ToolInv' /\ HeadRunsWhole'
      /\ at = "return" /\ UNCHANGED <<argv, disk, at, img>>
      /\ machine \in Machines /\ 0 \in Drives
      /\ (argv = <<>> => at = "return" /\ img = <<>>)'
      /\ \A d : Medium(d)' = Medium(d)
  BY <1>1, HeadStays
<1>3. machine.drives[machine.boot] = "image" /\ argv # <<>>
  BY <1>1 DEF IInv, BootInv
<1>4. PICK r \in BiosRead(0, LOADER_START, LOADER_SECTORS, peMem) :
         /\ peMem' = r.mem
         /\ stage' = IF Good(r, LOADER_SECTORS) THEN "main" ELSE "hlt"
         /\ failed' = ~Good(r, LOADER_SECTORS)
  BY DEF disk_load_PE
<1>5. CASE Good(r, LOADER_SECTORS)
  <2> DEFINE first == LOADER_START
             n == LOADER_SECTORS
             d == 0
  <2>1. first \in Nat /\ first > 0 /\ n \in Nat /\ n > 0
    BY DEF LOADER_START, LOADER_SECTORS
  <2>2. first = 4 /\ n = 17 /\ d = 0
    BY DEF LOADER_START, LOADER_SECTORS
  <2>3. r \in BiosRead(d, first, n, peMem) /\ Good(r, n)
    BY <1>4, <1>5
  <2> HIDE DEF first, n, d
  <2>4. PICK mem : mem = peMem
    OBVIOUS
  <2>5. r \in BiosRead(d, first, n, mem) /\ Good(r, n)
    BY <2>3, <2>4
  <2>6. Arrived(r.mem, d, first, n)
    BY <2>1, <2>5, GoodRead
  <2>7. Loaded'
    <3>1. /\ 2 * (first + n - 1) = 40 /\ 2 * n = 34 /\ 2 * first - 2 = 6
          /\ 2 * LOADER_START + 32 = 40
      BY <2>2 DEF LOADER_START
    <3>2. /\ 40 <= Len(Medium(0)) /\ Len(r.mem) = 34
          /\ \A k \in 1 .. 34 : r.mem[k] = Medium(0)[6 + k]
      BY <2>2, <2>6, <3>1 DEF Arrived
    <3>3. Medium(0)' = Medium(0)
      BY <1>2
    <3> QED BY <1>4, <3>1, <3>2, <3>3 DEF Loaded
  <2>8. stage' = "main"
    BY <1>4, <1>5
  <2>9. BootInv'
    BY <1>1, <1>2, <1>3, <2>7, <2>8 DEF BootInv, LostOnlyInHead
  <2> QED BY <1>2, <2>9 DEF IInv
<1>6. CASE ~Good(r, LOADER_SECTORS)
  <2>1. stage' = "hlt" /\ failed'
    BY <1>4, <1>6
  <2>2. BootInv'
    BY <1>1, <1>2, <2>1 DEF BootInv, LostOnlyInHead
  <2> QED BY <1>2, <2>2 DEF IInv
<1> QED BY <1>5, <1>6

(* A timer tick ends the hlt only after a failed read.                     *)
LEMMA TickStep ==
    ASSUME IInv, TimerTick
    PROVE  IInv'
<1>1. stage = "hlt" /\ stage' = "lost" /\ UNCHANGED <<tool, machine, headMem, peMem, dest, ecx, failed>>
  BY DEF TimerTick
<1>2. /\ ToolInv' /\ HeadRunsWhole'
      /\ at = "return" /\ UNCHANGED <<argv, disk, at, img>>
      /\ machine \in Machines /\ (argv = <<>> => at = "return" /\ img = <<>>)'
  BY <1>1, HeadStays
<1>3. failed'
  BY <1>1 DEF IInv, BootInv
<1>4. BootInv'
  BY <1>1, <1>2, <1>3 DEF BootInv, LostOnlyInHead
<1> QED BY <1>2, <1>4 DEF IInv

(* Switching modes changes nothing in memory.                              *)
LEMMA EnterStep ==
    ASSUME IInv, EnterProtectedMode
    PROVE  IInv'
<1>1. /\ stage = "main" /\ stage' \in {"stopped", "pe"}
      /\ UNCHANGED <<tool, machine, headMem, peMem, dest, ecx, failed>>
  BY DEF EnterProtectedMode
<1>2. /\ ToolInv' /\ HeadRunsWhole'
      /\ at = "return" /\ UNCHANGED <<argv, disk, at, img>>
      /\ machine \in Machines /\ (argv = <<>> => at = "return" /\ img = <<>>)'
      /\ \A d : Medium(d)' = Medium(d)
  BY <1>1, HeadStays
<1>3. machine.drives[machine.boot] = "image" /\ argv # <<>> /\ Loaded
  BY <1>1 DEF IInv, BootInv
<1>4. Loaded'
  <2>1. Medium(0)' = Medium(0)
    BY <1>2
  <2> QED BY <1>1, <1>3, <2>1 DEF Loaded
<1>5. BootInv'
  BY <1>1, <1>2, <1>3, <1>4 DEF BootInv, LostOnlyInHead
<1> QED BY <1>2, <1>5 DEF IInv

(* What disk_load_PE read begins like loader.exe exactly if drive 0 has    *)
(* our image.                                                              *)
LEMMA Signature ==
    ASSUME IInv, ChainLines, stage = "pe"
    PROVE  /\ peMem[1] = Half("loader.exe", 1) <=> machine.drives[0] = "image"
           /\ machine.drives[0] = "image" => "loader.exe" \in DOMAIN disk
<1>1. /\ ToolInv /\ at = "return" /\ argv # <<>> /\ Loaded
      /\ machine \in Machines /\ 0 \in Drives
  BY DEF IInv, BootInv, Drives
<1>2. peMem[1] = Medium(0)[7] /\ 40 <= Len(Medium(0))
  BY <1>1 DEF Loaded, LOADER_START
<1>3. ASSUME machine.drives[0] = "image"
      PROVE  peMem[1] = Half("loader.exe", 1) /\ "loader.exe" \in DOMAIN disk
  <2>1. Medium(0) = img
    BY <1>1, <1>3, MediumIs
  <2>2. ChainLine(argv)
    BY <1>1, BootedLine
  <2>3. Len(img) \in Nat /\ Len(img) >= 7
    BY <1>1, <1>2, <2>1 DEF ToolInv, ToolType
  <2>4. img[7] = Half("loader.exe", 1) /\ "loader.exe" \in DOMAIN disk
    BY <1>1, <2>2, <2>3, ChainImage
  <2> QED BY <1>2, <2>1, <2>4
<1>4. ASSUME machine.drives[0] # "image"
      PROVE  peMem[1] # Half("loader.exe", 1)
  <2> DEFINE f == "loader.exe"
  <2>1. 7 \in 1 .. Len(Medium(0))
    <3>1. machine.drives[0] = "other" \/ machine.drives[0] = "none"
      BY <1>1, <1>4, MediumIs
    <3>2. CASE machine.drives[0] = "none"
      BY <1>1, <1>2, <3>2, MediumIs
    <3>3. CASE machine.drives[0] = "other"
      <4>1. Medium(0) = [m \in 1 .. 64 |-> <<"other", m>>]
        BY <1>1, <3>3, MediumIs
      <4>2. Len(Medium(0)) = 64
        BY <4>1
      <4>3. 7 \in 1 .. 64
        OBVIOUS
      <4> QED BY <4>2, <4>3, Zenon
    <3> QED BY <3>1, <3>2, <3>3
  <2>2. f # "other"
    OBVIOUS
  <2>3. \A h : Medium(0)[7] # Half(f, h)
    <3> HIDE DEF f
    <3> QED BY <1>1, <1>4, <2>1, <2>2, OtherDisk
  <2> QED BY <1>2, <2>3
<1> QED BY <1>3, <1>4

(* LocateSections is reached only with our image in drive 0.               *)
LEMMA CheckStep ==
    ASSUME IInv, ChainLines, CheckPE
    PROVE  IInv'
<1>1. stage = "pe" /\ UNCHANGED <<tool, machine, headMem, peMem, dest, failed>>
  BY DEF CheckPE
<1>2. /\ ToolInv' /\ HeadRunsWhole'
      /\ at = "return" /\ UNCHANGED <<argv, disk, at, img>>
      /\ machine \in Machines /\ (argv = <<>> => at = "return" /\ img = <<>>)'
      /\ \A d : Medium(d)' = Medium(d)
  BY <1>1, HeadStays
<1>3. machine.drives[machine.boot] = "image" /\ argv # <<>> /\ Loaded
  BY <1>1 DEF IInv, BootInv
<1>4. Loaded'
  <2>1. Medium(0)' = Medium(0)
    BY <1>2
  <2> QED BY <1>1, <1>3, <2>1 DEF Loaded
<1>5. Table' = Table
  BY <1>2 DEF Table
<1>6. CASE peMem[1] = Half("loader.exe", 1)
  <2>1. Ours
    BY <1>1, <1>6, Signature DEF Ours
  <2>2. stage' = "LocateSections" /\ ecx' = Len(Table)
    BY <1>6 DEF CheckPE
  <2>3. Table \in Seq([va : Nat, vs : Nat, ptr : Nat, raw : Nat]) /\ Table # <<>>
    BY <2>1, FileSizes DEF IInv, ToolInv, ToolType, Ours
  <2>4. Len(Table) \in Nat /\ Len(Table) > 0
    <3> DEFINE R == [va : Nat, vs : Nat, ptr : Nat, raw : Nat]
    <3> HIDE DEF R
    <3>1. Table \in Seq(R) /\ Table # <<>>
      BY <2>3 DEF R
    <3> QED BY <3>1, EmptySeq
  <2>5. ecx' \in 1 .. Len(Table') /\ SectionsPlaced(Len(Table) - ecx)'
    <3>1. Len(Table)' - ecx' = 0 /\ ecx' \in 1 .. Len(Table')
      BY <1>5, <2>2, <2>4
    <3> QED BY <3>1 DEF SectionsPlaced
  <2>6. Ours'
    BY <1>1, <1>2, <2>1 DEF Ours
  <2>7. BootInv'
    BY <1>1, <1>2, <1>3, <1>4, <2>2, <2>5, <2>6 DEF BootInv, LostOnlyInHead
  <2> QED BY <1>2, <2>7 DEF IInv
<1>7. CASE peMem[1] # Half("loader.exe", 1)
  <2>1. machine.drives[0] # "image"
    BY <1>1, <1>7, Signature
  <2>2. \/ stage' = "stopped"
        \/ stage' = "lost" /\ machine.arch # "x64"
    BY <1>7 DEF CheckPE
  <2>3. machine.arch \in {"x86", "x64"}
    BY <1>2, MachineTypes
  <2>4. BootInv'
    BY <1>1, <1>2, <1>3, <2>1, <2>2, <2>3 DEF BootInv, LostOnlyInHead
  <2> QED BY <1>2, <2>4 DEF IInv
<1> QED BY <1>6, <1>7

(* The section that LocateSections copies is placed, and the ones before   *)
(* it, which are below it, stay.                                           *)
LEMMA PlaceSection ==
    ASSUME IInv, ChainLines, LocateSections, LoaderFits
    PROVE  SectionsPlaced(Len(Table) - ecx)'
<1> DEFINE R == [va : Nat, vs : Nat, ptr : Nat, raw : Nat]
           n == Len(Table) - ecx + 1
           s == Table[n]
<1>1. /\ stage = "LocateSections" /\ UNCHANGED <<tool, machine, headMem, peMem, failed>>
      /\ dest' = memcpy(s.va, s.ptr, s.vs)
  BY DEF LocateSections
<1>2. Ours /\ ecx \in 1 .. Len(Table) /\ SectionsPlaced(Len(Table) - ecx) /\ Loaded
  BY <1>1 DEF IInv, BootInv
<1>3. UNCHANGED <<disk>>
  BY <1>1 DEF tool
<1>4. Table' = Table
  BY <1>3 DEF Table
<1>5. disk \in FileSystems /\ "loader.exe" \in DOMAIN disk
  BY <1>2 DEF IInv, ToolInv, ToolType, Ours
<1>6. /\ Table \in Seq(R) /\ disk["loader.exe"] \in Nat
      /\ \A k, l \in DOMAIN Table :
            /\ Table[k].ptr + Table[k].raw <= disk["loader.exe"]
            /\ k < l => Table[k].va + Table[k].vs <= Table[l].va
  BY <1>5, FileSizes
<1>7. disk["loader.exe"] <= 34
  BY <1>5 DEF LoaderFits, LOADER_SECTORS
<1> HIDE DEF R
<1>8. DOMAIN Table = 1 .. Len(Table) /\ Len(Table) \in Nat /\ \A k \in 1 .. Len(Table) : Table[k] \in R
  BY <1>6
<1>9. /\ n \in 1 .. Len(Table) /\ Len(Table) - ecx = n - 1
      /\ \A k \in 1 .. n : k = n \/ (k \in 1 .. n - 1 /\ k < n)
      /\ \A k \in 1 .. n : k \in 1 .. Len(Table)
  BY <1>2, <1>8
<1> HIDE DEF n
<1>10. \A k \in 1 .. Len(Table) :
          /\ Table[k].va \in Nat /\ Table[k].vs \in Nat /\ Table[k].ptr \in Nat /\ Table[k].raw \in Nat
  BY <1>8 DEF R
<1>11. /\ s.va \in Nat /\ s.vs \in Nat /\ s.ptr \in Nat /\ s.raw \in Nat
       /\ s.ptr + s.raw <= disk["loader.exe"] /\ disk["loader.exe"] \in Nat
  BY <1>6, <1>8, <1>9, <1>10
<1>12. \A k \in 1 .. 34 : k <= disk["loader.exe"] => peMem[k] = Half("loader.exe", k)
  <2>1. machine.drives[0] = "image" /\ machine \in Machines /\ 0 \in Drives /\ argv # <<>>
        /\ at = "return"
    BY <1>1, <1>2 DEF Ours, IInv, BootInv, Drives
  <2>2. Medium(0) = img /\ ChainLine(argv)
    BY <2>1, BootedLine, MediumIs
  <2>3. Len(img) \in Nat /\ Len(img) >= 7
    <3>1. 40 <= Len(img)
      BY <1>2, <2>2 DEF Loaded, LOADER_START
    <3>2. Len(img) \in Nat
      BY DEF IInv, ToolInv, ToolType
    <3> QED BY <3>1, <3>2
  <2>4. \A k \in 1 .. disk["loader.exe"] : img[6 + k] = Half("loader.exe", k)
    BY <2>1, <2>2, <2>3, ChainImage DEF IInv
  <2>5. \A k \in 1 .. 34 : peMem[k] = img[6 + k]
    BY <1>2, <2>2 DEF Loaded
  <2> SUFFICES ASSUME NEW k \in 1 .. 34, k <= disk["loader.exe"]
               PROVE  peMem[k] = Half("loader.exe", k)
    OBVIOUS
  <2>6. k \in 1 .. disk["loader.exe"]
    BY <1>6
  <2> QED BY <2>4, <2>5, <2>6
<1>13. Len(peMem) = 34
  BY <1>2 DEF Loaded
<1> DEFINE lo == s.va
           hi == s.va + s.vs - 1
<1>14. /\ DOMAIN dest' = DOMAIN dest \cup lo .. hi
       /\ \A a \in lo .. hi :
             dest'[a] = IF s.ptr + (a - lo) < 34 THEN peMem[s.ptr + (a - lo) + 1] ELSE Junk
       /\ \A a \in DOMAIN dest : a \notin lo .. hi => dest'[a] = dest[a]
  BY <1>1, <1>13 DEF memcpy
<1>15. ASSUME NEW k \in 0 .. s.vs - 1
       PROVE  /\ s.va + k \in DOMAIN dest'
              /\ k < s.raw => dest'[s.va + k] = Half("loader.exe", s.ptr + k + 1)
  <2>1. s.va + k \in lo .. hi /\ (s.va + k) - lo = k
    BY <1>11
  <2>2. dest'[s.va + k] = IF s.ptr + k < 34 THEN peMem[s.ptr + k + 1] ELSE Junk
    BY <1>14, <2>1
  <2>3. ASSUME k < s.raw
        PROVE  s.ptr + k < 34 /\ s.ptr + k + 1 \in 1 .. 34 /\ s.ptr + k + 1 <= disk["loader.exe"]
    <3>1. k \in Nat /\ k < s.raw
      BY <1>11, <2>3
    <3> QED BY <1>7, <1>11, <3>1
  <2>4. s.va + k \in DOMAIN dest'
    BY <1>14, <2>1
  <2> QED BY <1>12, <2>2, <2>3, <2>4
<1>16. ASSUME NEW t \in 1 .. n - 1, t < n, t \in 1 .. Len(Table), NEW k \in 0 .. Table[t].vs - 1
       PROVE  /\ Table[t].va + k \in DOMAIN dest'
              /\ k < Table[t].raw =>
                    dest'[Table[t].va + k] = Half("loader.exe", Table[t].ptr + k + 1)
  <2>1. Table[t].va + Table[t].vs <= s.va
    BY <1>6, <1>8, <1>9, <1>16
  <2>2. Table[t].va + k \notin lo .. hi
    <3>1. /\ Table[t].va \in Nat /\ Table[t].vs \in Nat
          /\ k \in Nat /\ k < Table[t].vs
      BY <1>10, <1>16
    <3>2. Table[t].va + k < lo
      BY <1>11, <2>1, <3>1
    <3> QED BY <1>11, <3>1, <3>2
  <2>3. /\ Table[t].va + k \in DOMAIN dest
        /\ k < Table[t].raw =>
              dest[Table[t].va + k] = Half("loader.exe", Table[t].ptr + k + 1)
    BY <1>2, <1>9 DEF SectionsPlaced
  <2> QED BY <1>14, <2>2, <2>3
<1>17. \A t \in 1 .. n : \A k \in 0 .. Table[t].vs - 1 :
          /\ Table[t].va + k \in DOMAIN dest'
          /\ k < Table[t].raw =>
                dest'[Table[t].va + k] = Half("loader.exe", Table[t].ptr + k + 1)
  BY <1>9, <1>15, <1>16
<1>18. Len(Table)' - ecx' = n
  <2>1. ecx' = ecx - 1
    BY DEF LocateSections
  <2> QED BY <1>2, <1>4, <1>8, <2>1 DEF n
<1> QED BY <1>4, <1>17, <1>18 DEF SectionsPlaced, Half

(* LocateSections ends with all sections placed.                           *)
LEMMA LocateStep ==
    ASSUME IInv, ChainLines, LocateSections
    PROVE  IInv'
<1>1. /\ stage = "LocateSections" /\ UNCHANGED <<tool, machine, headMem, peMem, failed>>
      /\ ecx' = ecx - 1 /\ stage' = IF ecx' = 0 THEN "loader_main" ELSE "LocateSections"
  BY DEF LocateSections
<1>2. /\ ToolInv' /\ HeadRunsWhole'
      /\ at = "return" /\ UNCHANGED <<argv, disk, at, img>>
      /\ machine \in Machines /\ (argv = <<>> => at = "return" /\ img = <<>>)'
      /\ \A d : Medium(d)' = Medium(d)
  BY <1>1, HeadStays
<1>3. /\ machine.drives[machine.boot] = "image" /\ argv # <<>> /\ Loaded
      /\ Ours /\ ecx \in 1 .. Len(Table)
  BY <1>1 DEF IInv, BootInv
<1>4. Loaded' /\ Ours' /\ Len(Table)' = Len(Table)
  <2>1. Medium(0)' = Medium(0)
    BY <1>2
  <2> QED BY <1>1, <1>2, <1>3, <2>1 DEF Loaded, Ours, Table
<1>5. LoaderFits => SectionsPlaced(Len(Table) - ecx)'
  BY PlaceSection
<1>6. Len(Table) \in Nat
  BY <1>3, FileSizes DEF IInv, ToolInv, ToolType, Ours
<1>7. CASE ecx' = 0
  <2>1. stage' = "loader_main" /\ (Len(Table) - ecx)' = Len(Table)'
    <3>1. (Len(Table) - ecx)' = Len(Table)' - ecx' /\ Len(Table)' \in Nat
      BY <1>4, <1>6
    <3>2. Len(Table)' - 0 = Len(Table)'
      BY <3>1
    <3> QED BY <1>1, <1>7, <3>1, <3>2
  <2>2. LoaderFits => SectionsPlaced(Len(Table))'
    BY <1>5, <2>1 DEF SectionsPlaced
  <2>3. BootInv'
    BY <1>1, <1>2, <1>3, <1>4, <2>1, <2>2 DEF BootInv, LostOnlyInHead
  <2> QED BY <1>2, <2>3 DEF IInv
<1>8. CASE ecx' # 0
  <2>1. stage' = "LocateSections" /\ ecx' \in 1 .. Len(Table)'
    BY <1>1, <1>3, <1>4, <1>6, <1>8
  <2>2. BootInv'
    BY <1>1, <1>2, <1>3, <1>4, <1>5, <2>1 DEF BootInv, LostOnlyInHead
  <2> QED BY <1>2, <2>2 DEF IInv
<1> QED BY <1>7, <1>8

(* A step that changes nothing. *)
LEMMA StutterStep ==
    ASSUME IInv, UNCHANGED vars
    PROVE  IInv'
<1>1. UNCHANGED <<tool, boot>> /\ UNCHANGED <<argv, disk, at, img>>
      /\ UNCHANGED <<machine, stage, headMem, peMem, dest, ecx, failed>>
  BY DEF vars, tool, boot
<1>2. ToolInv'
  BY <1>1, ToolRests DEF IInv
<1>3. Medium(0)' = Medium(0) /\ Table' = Table
  BY <1>1 DEF Medium, Table
<1>4. Loaded' <=> Loaded
  BY <1>1, <1>3 DEF Loaded
<1>5. Ours' <=> Ours
  BY <1>1 DEF Ours
<1>6. /\ LostOnlyInHead' <=> LostOnlyInHead
      /\ HeadRunsWhole' <=> HeadRunsWhole
  BY <1>1 DEF LostOnlyInHead, HeadRunsWhole, Half
<1>7. /\ SectionsPlaced(Len(Table) - ecx)' <=> SectionsPlaced(Len(Table) - ecx)
      /\ SectionsPlaced(Len(Table))' <=> SectionsPlaced(Len(Table))
  BY <1>1, <1>3 DEF SectionsPlaced, Half
<1>8. BootInv'
  BY <1>1, <1>3, <1>4, <1>5, <1>6, <1>7 DEF IInv, BootInv
<1> QED BY <1>2, <1>8 DEF IInv

-----------------------------------------------------------------------------
(* mkimg, for every command line.  Whatever the machine does afterwards,   *)
(* the tool's invariant holds.                                             *)
THEOREM ToolInvariant == Spec => []ToolInv
<1>1. Init => ToolInv
  BY ToolStart DEF Init
<1>2. ToolInv /\ [Next]_vars => ToolInv'
  <2> SUFFICES ASSUME ToolInv, [Next]_vars PROVE ToolInv'
    OBVIOUS
  <2>1. CASE MkImgNext
    BY <2>1, ToolStep
  <2>2. CASE Machine
    <3>1. UNCHANGED tool
      BY <2>2 DEF Machine, BootSector, MbrDiskLoad, disk_load_PE, TimerTick,
                  EnterProtectedMode, CheckPE, LocateSections
    <3> QED BY <3>1, ToolRests
  <2>3. CASE UNCHANGED vars
    BY <2>3, ToolRests DEF vars
  <2> QED BY <2>1, <2>2, <2>3 DEF Next
<1> QED BY <1>1, <1>2, PTL DEF Spec

(* When the tool ends without an error, every input is in the image, in    *)
(* the order of the command line, each from the sector where the ones      *)
(* before it end, as far as its own sectors go.                            *)
THEOREM ImageCorrect == Spec => []ImageHoldsInputs
BY ToolInvariant, InputsHeld, PTL

(* And the image has as many sectors as were asked for, or as the inputs   *)
(* need if they need more.                                                 *)
THEOREM SizeCorrect == Spec => []ImageSize
BY ToolInvariant, SizeRight, PTL

(* With a line of the makefiles nothing in the image is what the stack     *)
(* held before the buffer was laid on it: what pads an incomplete sector    *)
(* was read, or is zero.                                                   *)
THEOREM PaddingCorrect ==
    ASSUME ChainLines
    PROVE  Spec => []PaddingInitialised
<1>1. Init => PadInv
  BY DEF Init, MkImgInit, PadInv
<1>2. ToolInv /\ ToolInv' /\ PadInv /\ [Next]_vars => PadInv'
  <2> SUFFICES ASSUME ToolInv, ToolInv', PadInv, [Next]_vars PROVE PadInv'
    OBVIOUS
  <2>1. CASE MkImgNext
    BY <2>1, PadStep
  <2>2. CASE UNCHANGED tool
    BY <2>2 DEF tool, PadInv, Clean
  <2>3. Machine => UNCHANGED tool
    BY DEF Machine, BootSector, MbrDiskLoad, disk_load_PE, TimerTick,
           EnterProtectedMode, CheckPE, LocateSections
  <2> QED BY <2>1, <2>2, <2>3 DEF Next, vars
<1>3. PadInv => PaddingInitialised
  BY DEF PadInv, PaddingInitialised
<1> QED BY <1>1, <1>2, <1>3, ToolInvariant, PTL DEF Spec

(* What is in memory at each stage, on an image of the makefiles.          *)
THEOREM BootInvariant ==
    ASSUME ChainLines
    PROVE  Spec => []IInv
<1>1. Init => IInv
  BY Start
<1>2. IInv /\ [Next]_vars => IInv'
  <2> SUFFICES ASSUME IInv, [Next]_vars PROVE IInv'
    OBVIOUS
  <2>1. CASE MkImgNext /\ UNCHANGED boot
    BY <2>1, ToolSteps
  <2>2. CASE Machine
    BY <2>2, BootSectorStep, MbrStep, DiskLoadStep, TickStep, EnterStep, CheckStep, LocateStep
       DEF Machine
  <2>3. CASE UNCHANGED vars
    BY <2>3, StutterStep
  <2> QED BY <2>1, <2>2, <2>3 DEF Next
<1> QED BY <1>1, <1>2, PTL DEF Spec

(* The head runs only when both its sectors arrived, from a boot sector    *)
(* of ours.                                                                *)
THEOREM HeadWhole ==
    ASSUME ChainLines
    PROVE  Spec => []HeadRunsWhole
<1>1. IInv => HeadRunsWhole
  BY DEF IInv, BootInv
<1> QED BY <1>1, BootInvariant, PTL

(* The processor runs into data only after a failed read in the head, or   *)
(* in the 32-bit head when the disk in drive 0 is not ours.                *)
THEOREM LostOnly ==
    ASSUME ChainLines
    PROVE  Spec => []LostOnlyInHead
<1>1. IInv => LostOnlyInHead
  BY DEF IInv, BootInv
<1> QED BY <1>1, BootInvariant, PTL

(* loader_main runs only with every initialised byte of every section at   *)
(* its address, if no loader is longer than what the head reads of it and  *)
(* no command line cuts one short.  The 32-bit makefile's does (16 sectors *)
(* instead of 17): MCX86Makefile shows what comes of it.                   *)
THEOREM LoaderWhole ==
    ASSUME ChainLines, LoaderFits
    PROVE  Spec => []LoaderRunsWhole
<1>1. IInv => LoaderRunsWhole
  <2> SUFFICES ASSUME IInv, stage = "loader_main", NEW s \in DOMAIN Table,
                      NEW k \in 0 .. Table[s].vs - 1, k < Table[s].raw
               PROVE  dest[Table[s].va + k] = Half("loader.exe", Table[s].ptr + k + 1)
    BY DEF LoaderRunsWhole
  <2>1. SectionsPlaced(Len(Table)) /\ "loader.exe" \in DOMAIN disk /\ disk \in FileSystems
    BY DEF IInv, BootInv, Ours, ToolInv, ToolType
  <2>2. s \in 1 .. Len(Table)
    BY <2>1, FileSizes
  <2> QED BY <2>1, <2>2 DEF SectionsPlaced
<1> QED BY <1>1, BootInvariant, PTL

=============================================================================
