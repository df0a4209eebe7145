---------------------------- MODULE FormatProofs ----------------------------
(***************************************************************************)
(* What _doprnt puts, for every call: theorems about Format.               *)
(***************************************************************************)
EXTENDS Format, SequenceTheorems, WellFoundedInduction, TLAPS

-----------------------------------------------------------------------------
(* Induction, and what is ahead in a sequence.                             *)

(* Induction over the natural numbers, for a set of them. *)
LEMMA SetInduction ==
    ASSUME NEW S, 0 \in S, \A n \in Nat : n \in S => n + 1 \in S
    PROVE  Nat \subseteq S
<1> DEFINE T == Nat \ S
           R == {ss \in Nat \X Nat : ss[1] < ss[2]}
<1>1. IsWellFoundedOn(R, Nat)
  BY NatLessThanWellFounded, Zenon DEF OpToRel
<1> HIDE DEF R
<1> SUFFICES ASSUME T # {} PROVE FALSE
  OBVIOUS
<1>2. \E x \in T : \A y \in T : ~ (<<y, x>> \in R)
  BY <1>1, WFMin, T \subseteq Nat, Zenon
<1>3. PICK x \in T : \A y \in T : ~ (<<y, x>> \in R)
  BY <1>2, Zenon
<1>4. \A y \in T : ~ (y < x)
  BY <1>3 DEF R
<1>5. x - 1 \in Nat
  BY x # 0
<1>6. x - 1 \notin T
  BY <1>4, <1>5
<1> QED BY <1>5, <1>6

(* What is ahead of position at in s is rest. *)
Ahead(s, at, rest) ==
    /\ at \in Nat \ {0}
    /\ Len(rest) \in Nat
    /\ at + Len(rest) = Len(s) + 1
    /\ \A i \in 1 .. Len(rest) : rest[i] = s[at - 1 + i]

(* At the beginning, all of it is ahead. *)
LEMMA AheadAll ==
    ASSUME NEW T, NEW s \in Seq(T)
    PROVE  Ahead(s, 1, s)
<1>1. Len(s) \in Nat
  BY LenProperties
<1> QED BY <1>1 DEF Ahead

(* A position further, the first element is not ahead any more. *)
LEMMA AheadStep ==
    ASSUME NEW T, NEW s \in Seq(T), NEW x \in T, NEW r \in Seq(T), NEW at,
           Ahead(s, at, <<x>> \o r)
    PROVE  /\ at \in Nat /\ at <= Len(s) /\ s[at] = x
           /\ Ahead(s, at + 1, r)
<1> DEFINE q == <<x>> \o r
<1>1. <<x>> \in Seq(T) /\ Len(<<x>>) = 1 /\ <<x>>[1] = x
  OBVIOUS
<1>2. Len(r) \in Nat /\ Len(s) \in Nat
  BY LenProperties
<1>3. Len(q) = 1 + Len(r) /\ \A i \in 1 .. 1 + Len(r) : q[i] = IF i <= 1 THEN <<x>>[i] ELSE r[i - 1]
  BY <1>1, ConcatProperties, Zenon
<1>4. /\ at \in Nat \ {0} /\ at + Len(q) = Len(s) + 1
      /\ \A i \in 1 .. Len(q) : q[i] = s[at - 1 + i]
  BY DEF Ahead
<1> HIDE DEF q
<1>5. at \in Nat /\ at <= Len(s)
  BY <1>2, <1>3, <1>4
<1>6. q[1] = x
  <2>1. 1 \in 1 .. 1 + Len(r) /\ 1 <= 1
    BY <1>2
  <2>2. q[1] = <<x>>[1]
    BY <2>1, <1>3
  <2> QED BY <2>2
<1>7. s[at] = x
  <2>1. q[1] = s[at - 1 + 1]
    BY <1>2, <1>3, <1>4
  <2>2. at - 1 + 1 = at
    BY <1>4
  <2> QED BY <2>1, <2>2, <1>6
<1>8. \A i \in 1 .. Len(r) : r[i] = s[at + 1 - 1 + i]
  <2> SUFFICES ASSUME NEW i \in 1 .. Len(r) PROVE r[i] = s[at + 1 - 1 + i]
    OBVIOUS
  <2>1. i + 1 \in 1 .. Len(q) /\ ~ (i + 1 <= 1) /\ i + 1 - 1 = i /\ at - 1 + (i + 1) = at + 1 - 1 + i
    BY <1>2, <1>3, <1>4
  <2>2. q[i + 1] = r[i + 1 - 1]
    BY <1>3, <2>1
  <2> QED BY <1>4, <2>1, <2>2
<1> QED BY <1>2, <1>3, <1>4, <1>5, <1>7, <1>8 DEF Ahead

(* With nothing ahead the position is behind the end. *)
LEMMA AheadEnd ==
    ASSUME NEW s, NEW at, Len(s) \in Nat, Ahead(s, at, <<>>)
    PROVE  at \in Nat /\ at = Len(s) + 1
BY EmptySeq DEF Ahead

(* The parts of a sequence of sequences that follow the first ones. *)
RestOf(seqs, T) ==
    CHOOSE R \in [0 .. Len(seqs) -> Seq(T)] :
        /\ R[Len(seqs)] = <<>>
        /\ \A m \in 1 .. Len(seqs) : R[m - 1] = seqs[m] \o R[m]

(* A table of the first parts put together. *)
Joins(seqs, n, f) == \A i \in 1 .. n : f[i] = IF i = 1 THEN seqs[i] ELSE f[i - 1] \o seqs[i]

(* FlattenSeq is the last entry of such a table. *)
LEMMA Flattened ==
    ASSUME NEW T, NEW seqs \in Seq(Seq(T)), Len(seqs) # 0
    PROVE  \E f \in [1 .. Len(seqs) -> Seq(T)] :
               Joins(seqs, Len(seqs), f) /\ FlattenSeq(seqs) = f[Len(seqs)]
<1> DEFINE N == Len(seqs)
           S == {n \in Nat : n <= N => \E g \in [1 .. n -> Seq(T)] : Joins(seqs, n, g)}
<1>0. N \in Nat \ {0} /\ \A i \in 1 .. N : seqs[i] \in Seq(T)
  BY LenProperties, ElementOfSeq
<1> HIDE DEF N
<1>1. 0 \in S
  <2>1. [i \in 1 .. 0 |-> <<>>] \in [1 .. 0 -> Seq(T)]
    OBVIOUS
  <2>2. Joins(seqs, 0, [i \in 1 .. 0 |-> <<>>])
    BY DEF Joins
  <2> QED BY <2>1, <2>2
<1>2. ASSUME NEW n \in Nat, n \in S PROVE n + 1 \in S
  <2> SUFFICES ASSUME n + 1 <= N PROVE \E g \in [1 .. n + 1 -> Seq(T)] : Joins(seqs, n + 1, g)
    OBVIOUS
  <2>1. PICK g \in [1 .. n -> Seq(T)] : Joins(seqs, n, g)
    BY <1>0, <1>2
  <2> DEFINE last == IF n = 0 THEN seqs[1] ELSE g[n] \o seqs[n + 1]
             h == [i \in 1 .. n + 1 |-> IF i = n + 1 THEN last ELSE g[i]]
  <2>2. last \in Seq(T)
    <3>1. CASE n = 0
      BY <3>1, <1>0
    <3>2. CASE n # 0
      <4>1. g[n] \in Seq(T) /\ seqs[n + 1] \in Seq(T)
        BY <3>2, <1>0
      <4>2. g[n] \o seqs[n + 1] \in Seq(T)
        BY <4>1, ConcatProperties, Zenon
      <4> QED BY <4>2, <3>2
    <3> QED BY <3>1, <3>2
  <2> HIDE DEF last
  <2>3. h \in [1 .. n + 1 -> Seq(T)]
    BY <2>2
  <2>4. \A i \in 1 .. n : h[i] = g[i]
    OBVIOUS
  <2>5. h[n + 1] = last
    OBVIOUS
  <2> HIDE DEF h
  <2>6. ASSUME NEW i \in 1 .. n + 1 PROVE h[i] = IF i = 1 THEN seqs[i] ELSE h[i - 1] \o seqs[i]
    <3>1. CASE i = n + 1 /\ n = 0
      BY <3>1, <2>5 DEF last
    <3>2. CASE i = n + 1 /\ n # 0
      <4>1. h[n] = g[n]
        BY <3>2, <2>4
      <4>2. h[n + 1] = g[n] \o seqs[n + 1]
        BY <3>2, <2>5 DEF last
      <4>3. i - 1 = n /\ i # 1
        BY <3>2
      <4> QED BY <4>1, <4>2, <4>3, <3>2
    <3>3. CASE i # n + 1
      <4>1. i \in 1 .. n
        BY <3>3
      <4>2. h[i] = g[i] /\ (i # 1 => h[i - 1] = g[i - 1])
        BY <4>1, <2>4
      <4>3. g[i] = IF i = 1 THEN seqs[i] ELSE g[i - 1] \o seqs[i]
        BY <4>1, <2>1 DEF Joins
      <4> QED BY <4>2, <4>3
    <3> QED BY <3>1, <3>2, <3>3
  <2>7. Joins(seqs, n + 1, h)
    BY <2>6 DEF Joins
  <2> QED BY <2>3, <2>7
<1>3. N \in S
  <2> HIDE DEF S
  <2>1. Nat \subseteq S
    BY <1>1, <1>2, SetInduction
  <2> QED BY <2>1, <1>0
<1>4. PICK g \in [1 .. N -> Seq(T)] : Joins(seqs, N, g)
  BY <1>3, <1>0
<1>5. g = [i \in 1 .. N |-> IF i = 1 THEN seqs[i] ELSE g[i - 1] \o seqs[i]]
  BY <1>4 DEF Joins
<1> DEFINE flatten == CHOOSE f : f = [i \in 1 .. N |-> IF i = 1 THEN seqs[i] ELSE f[i - 1] \o seqs[i]]
<1>6. flatten = [i \in 1 .. N |-> IF i = 1 THEN seqs[i] ELSE flatten[i - 1] \o seqs[i]]
  BY <1>5, Zenon
<1>7. FlattenSeq(seqs) = flatten[N]
  BY <1>0 DEF FlattenSeq, N
<1> HIDE DEF flatten
<1>8. Joins(seqs, N, flatten)
  BY <1>6 DEF Joins
<1> DEFINE U == {n \in Nat : n + 1 <= N => flatten[n + 1] \in Seq(T)}
<1>9. 0 \in U
  <2>1. flatten[1] = seqs[1]
    BY <1>0, <1>8 DEF Joins
  <2> QED BY <2>1, <1>0
<1>10. ASSUME NEW n \in Nat, n \in U PROVE n + 1 \in U
  <2> DEFINE m == n + 1 + 1
  <2> SUFFICES ASSUME m <= N PROVE flatten[m] \in Seq(T)
    OBVIOUS
  <2>1. m \in 1 .. N /\ m # 1 /\ m - 1 = n + 1
    BY <1>0
  <2>2. flatten[n + 1] \in Seq(T)
    BY <1>0, <1>10
  <2> HIDE DEF m
  <2>3. flatten[m] = flatten[m - 1] \o seqs[m]
    BY <2>1, <1>8 DEF Joins
  <2>4. flatten[m - 1] \in Seq(T) /\ seqs[m] \in Seq(T)
    BY <2>1, <2>2, <1>0
  <2> QED BY <2>3, <2>4, ConcatProperties, ZenonT(40)
<1>11. Nat \subseteq U
  <2> HIDE DEF U
  <2> QED BY <1>9, <1>10, SetInduction
<1>12. \A i \in 1 .. N : flatten[i] \in Seq(T)
  <2> SUFFICES ASSUME NEW i \in 1 .. N PROVE flatten[i] \in Seq(T)
    OBVIOUS
  <2>1. i - 1 \in Nat /\ i - 1 + 1 = i /\ i <= N
    BY <1>0
  <2>2. i - 1 \in U
    BY <2>1, <1>11
  <2>3. flatten[i - 1 + 1] \in Seq(T)
    BY <2>1, <2>2
  <2> QED BY <2>1, <2>3
<1>13. flatten \in [1 .. N -> Seq(T)]
  BY <1>6, <1>12
<1> QED BY <1>7, <1>8, <1>13 DEF N

(* A table of what follows the first parts, from the m-th on. *)
Rests(seqs, T, m, R) ==
    /\ R \in [m .. Len(seqs) -> Seq(T)]
    /\ R[Len(seqs)] = <<>>
    /\ \A i \in m + 1 .. Len(seqs) : R[i - 1] = seqs[i] \o R[i]

(* One entry more in front of such a table. *)
LEMMA RestsMore ==
    ASSUME NEW T, NEW seqs \in Seq(Seq(T)), NEW m \in 1 .. Len(seqs), NEW g, Rests(seqs, T, m, g)
    PROVE  \E h : Rests(seqs, T, m - 1, h)
<1> DEFINE N == Len(seqs)
           new == seqs[m] \o g[m]
           h == [i \in m - 1 .. N |-> IF i = m - 1 THEN new ELSE g[i]]
<1>0. N \in Nat /\ seqs[m] \in Seq(T)
  BY LenProperties, ElementOfSeq
<1>1. g \in [m .. N -> Seq(T)]
  BY DEF Rests
<1>2. \A i \in m + 1 .. N : g[i - 1] = seqs[i] \o g[i]
  BY DEF Rests
<1>3. g[N] = <<>>
  BY DEF Rests
<1>4. m \in 1 .. N
  OBVIOUS
<1> HIDE DEF N
<1>5. g[m] \in Seq(T)
  BY <1>0, <1>1, <1>4
<1>6. new \in Seq(T)
  BY <1>0, <1>5, ConcatProperties, Zenon
<1> HIDE DEF new
<1>7. h \in [m - 1 .. N -> Seq(T)]
  BY <1>0, <1>1, <1>4, <1>6
<1>8. h[m - 1] = new
  BY <1>0, <1>4
<1>9. \A i \in m .. N : h[i] = g[i]
  BY <1>0, <1>4
<1> HIDE DEF h
<1>10. h[N] = <<>>
  <2>1. N \in m .. N
    BY <1>0, <1>4
  <2> QED BY <1>3, <1>9, <2>1, Zenon
<1>11. ASSUME NEW i \in m - 1 + 1 .. N PROVE h[i - 1] = seqs[i] \o h[i]
  <2>0. i \in m .. N
    BY <1>0, <1>4
  <2>1. h[i] = g[i]
    BY <2>0, <1>9
  <2>2. CASE i = m
    <3>1. h[i - 1] = seqs[m] \o g[m]
      BY <2>2, <1>8 DEF new
    <3> QED BY <3>1, <2>1, <2>2
  <2>3. CASE i # m
    <3>1. i \in m + 1 .. N /\ i - 1 \in m .. N
      BY <2>0, <2>3, <1>0, <1>4
    <3>2. h[i - 1] = g[i - 1]
      BY <3>1, <1>9
    <3>3. g[i - 1] = seqs[i] \o g[i]
      BY <3>1, <1>2
    <3> QED BY <2>1, <3>2, <3>3
  <2> QED BY <2>2, <2>3
<1>12. Rests(seqs, T, m - 1, h)
  BY <1>7, <1>10, <1>11 DEF Rests, N
<1> QED BY <1>12

(* What follows the first m parts, and one part more or less.              *)
LEMMA RestFacts ==
    ASSUME NEW T, NEW seqs \in Seq(Seq(T))
    PROVE  /\ RestOf(seqs, T) \in [0 .. Len(seqs) -> Seq(T)]
           /\ RestOf(seqs, T)[Len(seqs)] = <<>>
           /\ \A m \in 1 .. Len(seqs) : RestOf(seqs, T)[m - 1] = seqs[m] \o RestOf(seqs, T)[m]
<1> DEFINE N == Len(seqs)
           S == {n \in Nat : \A m \in Nat : m + n = N => \E g : Rests(seqs, T, m, g)}
<1>0. N \in Nat
  BY LenProperties
<1>1. 0 \in S
  <2> SUFFICES ASSUME NEW m \in Nat, m + 0 = N PROVE \E g : Rests(seqs, T, m, g)
    OBVIOUS
  <2> DEFINE g == [i \in m .. N |-> <<>>]
  <2>1. <<>> \in Seq(T)
    BY EmptySeq
  <2>2. m = N /\ N \in m .. N
    BY <1>0
  <2>3. g \in [m .. N -> Seq(T)] /\ g[N] = <<>>
    BY <2>1, <2>2
  <2>4. \A i \in m + 1 .. N : FALSE
    BY <1>0, <2>2
  <2>5. Rests(seqs, T, m, g)
    BY <2>3, <2>4, Zenon DEF Rests
  <2> QED BY <2>5
<1>2. ASSUME NEW n \in Nat, n \in S PROVE n + 1 \in S
  <2> HIDE DEF N
  <2> SUFFICES ASSUME NEW m \in Nat, m + (n + 1) = N PROVE \E g : Rests(seqs, T, m, g)
    BY DEF S
  <2>1. (m + 1) + n = N /\ m + 1 \in Nat /\ m + 1 \in 1 .. N /\ m + 1 - 1 = m
    BY <1>0
  <2>2. PICK g : Rests(seqs, T, m + 1, g)
    BY <2>1, <1>2
  <2>3. \E h : Rests(seqs, T, m + 1 - 1, h)
    BY <2>1, <2>2, RestsMore DEF N
  <2> QED BY <2>1, <2>3
<1>3. N \in S
  <2> HIDE DEF S
  <2>1. Nat \subseteq S
    BY <1>1, <1>2, SetInduction
  <2> QED BY <2>1, <1>0
<1>4. PICK g : Rests(seqs, T, 0, g)
  <2> HIDE DEF N
  <2>1. 0 + N = N /\ 0 \in Nat
    BY <1>0
  <2> QED BY <2>1, <1>3
<1>5. g \in [0 .. N -> Seq(T)] /\ g[N] = <<>> /\ \A m \in 0 + 1 .. N : g[m - 1] = seqs[m] \o g[m]
  BY <1>4, Zenon DEF Rests
<1>6. 0 + 1 = 1
  OBVIOUS
<1>7. \A m \in 1 .. N : g[m - 1] = seqs[m] \o g[m]
  BY <1>5, <1>6, Zenon
<1>8. \E R \in [0 .. N -> Seq(T)] : R[N] = <<>> /\ \A m \in 1 .. N : R[m - 1] = seqs[m] \o R[m]
  BY <1>5, <1>7, Zenon
<1> QED BY <1>8, Zenon DEF RestOf

(* All the parts put together are what follows none of them. *)
LEMMA RestIsAll ==
    ASSUME NEW T, NEW seqs \in Seq(Seq(T))
    PROVE  FlattenSeq(seqs) = RestOf(seqs, T)[0]
<1> DEFINE N == Len(seqs)
           R == RestOf(seqs, T)
<1>0. N \in Nat /\ \A i \in 1 .. N : seqs[i] \in Seq(T)
  BY LenProperties, ElementOfSeq
<1>1. R \in [0 .. N -> Seq(T)] /\ R[N] = <<>> /\ \A m \in 1 .. N : R[m - 1] = seqs[m] \o R[m]
  BY RestFacts
<1>2. CASE N = 0
  <2>1. FlattenSeq(seqs) = seqs
    BY <1>2 DEF FlattenSeq
  <2>2. seqs = <<>>
    BY <1>2, EmptySeq
  <2>3. R[0] = <<>>
    BY <1>1, <1>2
  <2> QED BY <2>1, <2>2, <2>3
<1>3. CASE N # 0
  <2>1. PICK f \in [1 .. N -> Seq(T)] : Joins(seqs, N, f) /\ FlattenSeq(seqs) = f[N]
    BY <1>3, Flattened
  <2> HIDE DEF N, R
  <2> DEFINE S == {n \in Nat : \A m \in 1 .. N : m = n + 1 => f[m] \o R[m] = R[0]}
  <2>2. 0 \in S
    <3> SUFFICES ASSUME NEW m \in 1 .. N, m = 1 PROVE f[m] \o R[m] = R[0]
      OBVIOUS
    <3>1. f[m] = seqs[m]
      BY <2>1 DEF Joins
    <3>2. R[m - 1] = seqs[m] \o R[m]
      BY <1>1
    <3>3. m - 1 = 0
      OBVIOUS
    <3> QED BY <3>1, <3>2, <3>3
  <2>3. ASSUME NEW n \in Nat, n \in S PROVE n + 1 \in S
    <3> SUFFICES ASSUME NEW m \in 1 .. N, m = n + 1 + 1 PROVE f[m] \o R[m] = R[0]
      BY DEF S
    <3>1. m # 1 /\ m - 1 = n + 1 /\ m - 1 \in 1 .. N /\ m \in 0 .. N
      BY <1>0
    <3>2. f[m - 1] \o R[m - 1] = R[0]
      BY <2>3, <3>1
    <3>3. f[m] = f[m - 1] \o seqs[m]
      BY <2>1, <3>1 DEF Joins
    <3>4. R[m - 1] = seqs[m] \o R[m]
      BY <1>1
    <3>5. f[m - 1] \in Seq(T)
      BY <2>1, <3>1
    <3>6. seqs[m] \in Seq(T)
      BY <1>0
    <3>7. R[m] \in Seq(T)
      BY <1>1, <3>1
    <3>8. (f[m - 1] \o seqs[m]) \o R[m] = f[m - 1] \o (seqs[m] \o R[m])
      <4> DEFINE a == f[m - 1]
                 b == seqs[m]
                 d == R[m]
      <4>1. a \in Seq(T) /\ b \in Seq(T) /\ d \in Seq(T)
        BY <3>5, <3>6, <3>7
      <4> HIDE DEF a, b, d
      <4>2. (a \o b) \o d = a \o (b \o d)
        BY <4>1, ConcatAssociative, SMTT(30)
      <4> QED BY <4>2 DEF a, b, d
    <3> QED BY <3>2, <3>3, <3>4, <3>8, Zenon
  <2>4. N - 1 \in S
    <3> HIDE DEF S
    <3>1. Nat \subseteq S
      BY <2>2, <2>3, SetInduction
    <3> QED BY <3>1, <1>0, <1>3
  <2>5. f[N] \o R[N] = R[0]
    <3>1. N \in 1 .. N /\ N = N - 1 + 1
      BY <1>0, <1>3
    <3> QED BY <2>4, <3>1
  <2>6. f[N] \in Seq(T)
    BY <2>1, <1>0, <1>3
  <2>7. f[N] \o <<>> = f[N]
    BY <2>6, ConcatEmptySeq, Zenon
  <2> QED BY <1>1, <2>1, <2>5, <2>7 DEF R
<1> QED BY <1>2, <1>3

-----------------------------------------------------------------------------
(* The inductive invariant.  Between two conversions, the spellings of the  *)
(* directives not yet read are ahead in the format, and what they take     *)
(* among the arguments; inside of one, what is left of its spelling is     *)
(* ahead before those, and the parsed variables hold what was read of it.  *)

Figures == {"0", "1", "2", "3", "4", "5", "6", "7", "8", "9"}
Letters == NumberConvs \cup FlagChars \cup Figures
               \cup {"s", "c", "b", "B", "%", ".", "*", "l", ":"}

(* What follows the first k directives, and their arguments. *)
Spelled   == [k \in DOMAIN call |-> Spelling(call[k])]
Handed    == [k \in DOMAIN call |-> Passed(call[k])]
Behind(k) == RestOf(Spelled, Letters)[k]
Unread(k) == RestOf(Handed, Arguments)[k]

(* What is left of a directive's spelling at each of its parts, r behind it. *)
AtConv(d, r)     == (IF d.conv = "missing" THEN <<>> ELSE <<d.conv, ":">>) \o r
AtSize(d, r)     == d.size \o AtConv(d, r)
AtDot(d, r)      == Field(<<".">>, d.prec) \o AtSize(d, r)
AtWidth(d, r)    == Field(<<>>, d.width) \o AtDot(d, r)
AtZero(d, r)     == (IF d.zero THEN <<"0">> ELSE <<>>) \o AtWidth(d, r)
AtFlags(d, r, n) == SubSeq(d.flags, n + 1, Len(d.flags)) \o AtZero(d, r)

(* What is left of its arguments, u behind them. *)
StarArg(f)    == IF f.by = "star" THEN <<Num(Pattern(f.n))>> ELSE <<>>
OwnArgs(d, u)   == d.arg \o u
PrecArgs(d, u)  == StarArg(d.prec) \o OwnArgs(d, u)
WidthArgs(d, u) == StarArg(d.width) \o PrecArgs(d, u)

(* What the first n flags say. *)
Seen(d, n, x) == \E i \in 1 .. n : d.flags[i] = x
SignBy(d, n)  == IF Seen(d, n, "+") THEN <<"+">> ELSE IF Seen(d, n, " ") THEN <<" ">> ELSE <<>>

(* The parts of a directive that were read. *)
FlagsRead(d, n) ==
    /\ altfmt = Seen(d, n, "#")
    /\ plus_sign = SignBy(d, n)
LeftRead(d, n)  == ladjust = Seen(d, n, "-")
ZeroRead(d)     == padc = IF d.zero THEN "0" ELSE " "
WidthRead(d)    == length = Wide(d) /\ ladjust = Left(d)
Precision(d)    == IF d.prec.by = "none" THEN -1 ELSE d.prec.n

(* What is ahead in the format is s, and a among the arguments.            *)
Stands(s, a) == Ahead(fmt, pos, s) /\ Ahead(args, ap, a)

FlagsAt(d, r, u) ==
    /\ phase = "flags"
    /\ \E n \in 0 .. Len(d.flags) :
          /\ Stands(AtFlags(d, r, n), WidthArgs(d, u))
          /\ FlagsRead(d, n) /\ LeftRead(d, n)
    /\ length = 0 /\ prec = -1 /\ padc = " "

AllFlagsRead(d) == FlagsRead(d, Len(d.flags)) /\ ZeroRead(d)

WidthAt(d, r, u) ==
    /\ phase = "width"
    /\ Stands(AtWidth(d, r), WidthArgs(d, u))
    /\ AllFlagsRead(d) /\ LeftRead(d, Len(d.flags))
    /\ length = 0 /\ prec = -1

(* Of a field n with one or two digits, s follows: v is the value so far.  *)
Partly(n, v, s, a) ==
    \/ v = n /\ Stands(s, a)
    \/ n >= 10 /\ v = n \div 10 /\ Stands(<<lower[(n % 10) + 1]>> \o s, a)

WidthDigitsAt(d, r, u) ==
    /\ phase = "width digits"
    /\ d.width.by = "digits"
    /\ Partly(d.width.n, length, AtDot(d, r), PrecArgs(d, u))
    /\ AllFlagsRead(d) /\ ladjust = Left(d)
    /\ prec = -1

DotAt(d, r, u) ==
    /\ phase = "dot"
    /\ Stands(AtDot(d, r), PrecArgs(d, u))
    /\ AllFlagsRead(d) /\ WidthRead(d)
    /\ prec = -1

PrecAt(d, r, u) ==
    /\ phase = "prec"
    /\ d.prec.by # "none"
    /\ Stands(Field(<<>>, d.prec) \o AtSize(d, r), PrecArgs(d, u))
    /\ AllFlagsRead(d) /\ WidthRead(d)
    /\ prec = -1

PrecDigitsAt(d, r, u) ==
    /\ phase = "prec digits"
    /\ d.prec.by = "digits"
    /\ Partly(d.prec.n, prec, AtSize(d, r), OwnArgs(d, u))
    /\ AllFlagsRead(d) /\ WidthRead(d)

AllRead(d) == AllFlagsRead(d) /\ WidthRead(d) /\ prec = Precision(d)

SizeAt(d, r, u) ==
    /\ phase = "size"
    /\ Stands(AtSize(d, r), OwnArgs(d, u))
    /\ AllRead(d)

ConvAt(d, r, u) ==
    /\ phase = "conv"
    /\ Stands(AtConv(d, r), OwnArgs(d, u))
    /\ AllRead(d)

(* Somewhere in the spelling of d, with r behind it and u behind its arguments. *)
Parsing(d, r, u) ==
    \/ FlagsAt(d, r, u) \/ WidthAt(d, r, u) \/ WidthDigitsAt(d, r, u) \/ DotAt(d, r, u)
    \/ PrecAt(d, r, u) \/ PrecDigitsAt(d, r, u) \/ SizeAt(d, r, u) \/ ConvAt(d, r, u)

Missing(k) == k \in 1 .. Len(call) /\ call[k].conv = "missing"

(* In directive k. *)
Within(k) ==
    /\ k \in 1 .. Len(call)
    /\ Len(out) = 2 * (k - 1)
    /\ Parsing(call[k], Behind(k), Unread(k))

(* In the text: before directive k or at the end, at the colon behind it,  *)
(* or at the end that came inside of it.                                   *)
Between(k) ==
    /\ phase = "text"
    /\ k \in 1 .. Len(call) + 1
    /\ Len(out) = 2 * (k - 1)
    /\ Stands(Behind(k - 1), Unread(k - 1))
    /\ ~Missing(k - 1)

AtColon(k) ==
    /\ phase = "text"
    /\ k \in 1 .. Len(call)
    /\ Len(out) = 2 * k - 1
    /\ Stands(<<":">> \o Behind(k), Unread(k))
    /\ ~Missing(k)

Ended(k) ==
    /\ phase = "text"
    /\ Missing(k)
    /\ Len(out) = 2 * (k - 1)
    /\ Stands(<<>>, <<>>)

Finished(k) ==
    /\ phase = "done"
    /\ k \in 1 .. Len(call) + 1
    /\ Len(out) = 2 * (k - 1)
    /\ Stands(<<>>, <<>>)
    /\ IF k = Len(call) + 1 THEN ~Missing(k - 1) ELSE Missing(k)

At(k) == Between(k) \/ Within(k) \/ AtColon(k) \/ Ended(k) \/ Finished(k)

(* The pieces put so far. *)
Proper(d, f) ==
    /\ d.conv \in NumberConvs => ReadsBack(d, f) /\ (~Has(d, " ") => NumberField(d, f))
    /\ d.conv = "s" => StringField(d, f)

Written ==
    /\ \E S : out \in Seq(S)
    /\ \A j \in 1 .. Len(call) :
          /\ 2 * j - 1 <= Len(out) => Proper(call[j], out[2 * j - 1])
          /\ 2 * j <= Len(out) => out[2 * j] = <<":">>

Inputs ==
    /\ call \in Calls
    /\ fmt = FlattenSeq(Spelled)
    /\ args = FlattenSeq(Handed)

IInv ==
    /\ Inputs
    /\ Written
    /\ \E k \in 1 .. Len(call) + 1 : At(k)

-----------------------------------------------------------------------------
(* Characters and numbers. *)

(* A number written with a quotient and a remainder has no others. *)
LEMMA DivMod ==
    ASSUME NEW n \in Nat, n > 0, NEW q \in Int, NEW r \in Nat, r < n,
           NEW x, x = q * n + r
    PROVE  x \div n = q /\ x % n = r
<1>1. q * n \in Int /\ x \in Int
  OBVIOUS
<1>2. x \div n \in Int /\ x % n \in 0 .. n - 1
  BY <1>1
<1>3. x = n * (x \div n) + (x % n)
  BY <1>1
<1> QED BY <1>1, <1>2, <1>3

(* Every number is made of its quotient and its remainder. *)
LEMMA Divided ==
    ASSUME NEW n \in Nat, n > 0, NEW x \in Int
    PROVE  /\ x \div n \in Int /\ x % n \in Nat /\ x % n < n
           /\ x = n * (x \div n) + (x % n)
OBVIOUS

(* A bit pattern read as a signed number is the number it was made of.     *)
LEMMA PatternSigned ==
    ASSUME NEW n \in -Half .. Half - 1
    PROVE  Pattern(n) \in 0 .. 2 * Half - 1 /\ Signed(Pattern(n)) = n
<1>0. Half \in Nat /\ Half > 0 /\ 2 * Half \in Nat /\ 2 * Half > 0
  BY WordAssumption
<1>1. CASE n >= 0
  <2>1. n = 0 * (2 * Half) + n /\ n \in Nat /\ n < 2 * Half
    BY <1>0, <1>1
  <2>2. n % (2 * Half) = n
    BY <1>0, <2>1, DivMod
  <2> QED BY <1>0, <1>1, <2>2 DEF Pattern, Signed
<1>2. CASE n < 0
  <2> DEFINE r == n + 2 * Half
  <2>1. n = (-1) * (2 * Half) + r /\ r \in Nat /\ r < 2 * Half /\ r >= Half
    BY <1>0, <1>2
  <2>2. n % (2 * Half) = r
    <3> HIDE DEF r
    <3> QED BY <1>0, <2>1, DivMod
  <2> QED BY <1>0, <1>2, <2>1, <2>2 DEF Pattern, Signed
<1> QED BY <1>1, <1>2, <1>0

(* The figures. *)
LEMMA LowerIs ==
    /\ lower[1] = "0" /\ lower[2] = "1" /\ lower[3] = "2" /\ lower[4] = "3"
    /\ lower[5] = "4" /\ lower[6] = "5" /\ lower[7] = "6" /\ lower[8] = "7"
    /\ lower[9] = "8" /\ lower[10] = "9" /\ lower[11] = "a" /\ lower[12] = "b"
    /\ lower[13] = "c" /\ lower[14] = "d" /\ lower[15] = "e" /\ lower[16] = "f"
BY DEF lower

(* What isdigit takes for one, and what Ctod makes of it.                  *)
LEMMA Figure ==
    ASSUME NEW n \in 0 .. 9
    PROVE  /\ lower[n + 1] \in Figures
           /\ isdigit(lower[n + 1])
           /\ Ctod(lower[n + 1]) = n
           /\ n > 0 => lower[n + 1] # "0"
<1>0. n + 1 \in 1 .. 10 /\ n + 1 - 1 = n
  OBVIOUS
<1>1. \A i \in 1 .. 10 : lower[i] \in Figures
  BY LowerIs DEF Figures
<1>2. \A i, j \in 1 .. 10 : lower[i] = lower[j] => i = j
  <2> SUFFICES ASSUME NEW i \in 1 .. 10, NEW j \in 1 .. 10, lower[i] = lower[j] PROVE i = j
    OBVIOUS
  <2> QED BY LowerIs
<1>3. (CHOOSE k \in 1 .. 10 : lower[k] = lower[n + 1]) = n + 1
  <2> DEFINE x == CHOOSE k \in 1 .. 10 : lower[k] = lower[n + 1]
  <2>1. x \in 1 .. 10 /\ lower[x] = lower[n + 1]
    BY <1>0, Zenon
  <2> HIDE DEF x
  <2>2. x = n + 1
    BY <2>1, <1>0, <1>2
  <2> QED BY <2>2 DEF x
<1>4. Ctod(lower[n + 1]) = n
  <2>1. Ctod(lower[n + 1]) = (CHOOSE k \in 1 .. 10 : lower[k] = lower[n + 1]) - 1
    BY Zenon DEF Ctod
  <2>2. Ctod(lower[n + 1]) = (n + 1) - 1
    BY <1>3, <2>1, Zenon
  <2>3. (n + 1) - 1 = n
    OBVIOUS
  <2> QED BY <2>2, <2>3
<1>5. isdigit(lower[n + 1])
  BY <1>0 DEF isdigit
<1>6. n > 0 => lower[n + 1] # "0"
  <2>1. lower[1] = "0" /\ 1 \in 1 .. 10
    BY LowerIs
  <2> SUFFICES ASSUME n > 0, lower[n + 1] = "0" PROVE FALSE
    OBVIOUS
  <2>2. n + 1 = 1
    BY <1>0, <1>2, <2>1
  <2> QED BY <2>2
<1> QED BY <1>0, <1>1, <1>4, <1>5, <1>6

(* Nothing else is a digit. *)
LEMMA DigitsOnly ==
    ASSUME NEW x, isdigit(x)
    PROVE  x \in Figures
<1>1. \A i \in 1 .. 10 : lower[i] \in Figures
  BY LowerIs DEF Figures
<1> QED BY <1>1 DEF isdigit

-----------------------------------------------------------------------------
(* The parts of a directive's spelling.                                    *)

(* What FirstOf a sequence is: its first element, or NUL behind its end.   *)
FirstOf(s) == IF Len(s) = 0 THEN "NUL" ELSE s[1]

(* The first of a sequence with one element in front. *)
LEMMA FirstCons ==
    ASSUME NEW T, NEW x \in T, NEW r \in Seq(T)
    PROVE  /\ <<x>> \o r \in Seq(T)
           /\ Len(<<x>> \o r) = Len(r) + 1
           /\ FirstOf(<<x>> \o r) = x
<1> DEFINE q == <<x>> \o r
<1>1. <<x>> \in Seq(T) /\ Len(<<x>>) = 1 /\ <<x>>[1] = x
  OBVIOUS
<1>2. Len(r) \in Nat
  BY LenProperties
<1>3. q \in Seq(T) /\ Len(q) = 1 + Len(r) /\ \A i \in 1 .. 1 + Len(r) : q[i] = IF i <= 1 THEN <<x>>[i] ELSE r[i - 1]
  BY <1>1, ConcatProperties, Zenon
<1> HIDE DEF q
<1>4. 1 \in 1 .. 1 + Len(r) /\ 1 <= 1
  BY <1>2
<1>5. q[1] = <<x>>[1]
  BY <1>3, <1>4
<1>6. Len(q) # 0
  BY <1>2, <1>3
<1>7. FirstOf(q) = x
  BY <1>1, <1>5, <1>6 DEF FirstOf
<1>8. Len(q) = Len(r) + 1
  BY <1>2, <1>3
<1> QED BY <1>3, <1>7, <1>8 DEF q

(* Two elements. *)
LEMMA Pair ==
    ASSUME NEW T, NEW x \in T, NEW y \in T
    PROVE  <<x, y>> = <<x>> \o <<y>>
<1> DEFINE q == <<x>> \o <<y>>
<1>1. <<y>> \in Seq(T) /\ <<x>> \in Seq(T) /\ Len(<<x>>) = 1 /\ Len(<<y>>) = 1 /\ <<x>>[1] = x /\ <<y>>[1] = y
  OBVIOUS
<1>2. q \in Seq(T) /\ Len(q) = 1 + 1 /\ \A i \in 1 .. 1 + 1 : q[i] = IF i <= 1 THEN <<x>>[i] ELSE <<y>>[i - 1]
  BY <1>1, ConcatProperties, ZenonT(40)
<1> HIDE DEF q
<1>3. q[1] = x /\ q[2] = y /\ Len(q) = 2
  BY <1>1, <1>2
<1>4. <<x, y>> \in Seq(T) /\ Len(<<x, y>>) = 2 /\ <<x, y>>[1] = x /\ <<x, y>>[2] = y
  OBVIOUS
<1> DEFINE p == <<x, y>>
<1>5. p \in Seq(T) /\ Len(p) = 2 /\ p[1] = x /\ p[2] = y
  BY <1>4
<1> HIDE DEF p
<1>6. \A i \in 1 .. 2 : p[i] = q[i]
  BY <1>3, <1>5
<1>7. p = q
  BY <1>2, <1>3, <1>5, <1>6, SeqEqual
<1> QED BY <1>7 DEF p, q

(* A number of two digits at most. *)
LEMMA NumberIs ==
    ASSUME NEW n \in 0 .. 99
    PROVE  /\ n < 10 => Number(n) = <<lower[n + 1]>> /\ n \in 0 .. 9
           /\ n >= 10 => /\ Number(n) = <<lower[(n \div 10) + 1], lower[(n % 10) + 1]>>
                         /\ n \div 10 \in 1 .. 9 /\ n % 10 \in 0 .. 9
                         /\ n = 10 * (n \div 10) + (n % 10)
BY DEF Number

(* The spelling of a width, or of a precision without its point, in front   *)
(* of s: none, a *, one digit or two.                                      *)
FieldIs(f, s) ==
    /\ f.by = "none" => Field(<<>>, f) \o s = s
    /\ f.by = "star" => Field(<<>>, f) \o s = <<"*">> \o s
    /\ f.by = "digits" /\ f.n < 10 => Field(<<>>, f) \o s = <<lower[f.n + 1]>> \o s
    /\ f.by = "digits" /\ f.n >= 10 =>
          Field(<<>>, f) \o s = <<lower[(f.n \div 10) + 1]>> \o (<<lower[(f.n % 10) + 1]>> \o s)

(* Literals and figures are letters. *)
LEMMA LettersAre ==
    /\ Figures \subseteq Letters /\ NumberConvs \subseteq Letters /\ FlagChars \subseteq Letters
    /\ {"%", ".", "*", "l", ":", "0", "s", "c", "b", "B"} \subseteq Letters
BY DEF Letters, Figures

(* A number in front of s is a digit in front of it, or two. *)
LEMMA NumberParts ==
    ASSUME NEW n \in 0 .. 99, NEW s \in Seq(Letters)
    PROVE  /\ Number(n) \in Seq(Letters)
           /\ n < 10 => Number(n) \o s = <<lower[n + 1]>> \o s
           /\ n >= 10 => Number(n) \o s = <<lower[(n \div 10) + 1]>> \o (<<lower[(n % 10) + 1]>> \o s)
<1>1. CASE n < 10
  <2>1. Number(n) = <<lower[n + 1]>> /\ n \in 0 .. 9
    BY <1>1, NumberIs
  <2>2. lower[n + 1] \in Letters
    BY <2>1, Figure, LettersAre
  <2>3. Number(n) \in Seq(Letters)
    BY <2>1, <2>2
  <2>4. ~ (n >= 10)
    BY <1>1
  <2> QED BY <2>1, <2>3, <2>4, Zenon
<1>2. CASE n >= 10
  <2>1. /\ Number(n) = <<lower[(n \div 10) + 1], lower[(n % 10) + 1]>>
        /\ n \div 10 \in 1 .. 9 /\ n % 10 \in 0 .. 9
    BY <1>2, NumberIs
  <2>2. n \div 10 \in 0 .. 9
    BY <2>1
  <2> DEFINE x == lower[(n \div 10) + 1]
             y == lower[(n % 10) + 1]
  <2>3. x \in Letters /\ y \in Letters
    BY <2>1, <2>2, Figure, LettersAre
  <2>4. Number(n) = <<x, y>>
    BY <2>1
  <2> HIDE DEF x, y
  <2>5. <<x, y>> \in Seq(Letters) /\ <<x>> \in Seq(Letters) /\ <<y>> \in Seq(Letters)
    BY <2>3
  <2>6. <<x, y>> = <<x>> \o <<y>>
    BY <2>3, Pair
  <2> DEFINE xs == <<x>>
             ys == <<y>>
  <2>7. (xs \o ys) \o s = xs \o (ys \o s)
    <3>1. xs \in Seq(Letters) /\ ys \in Seq(Letters)
      BY <2>5
    <3> HIDE DEF xs, ys
    <3> QED BY <3>1, ConcatAssociative
  <2>8. ~ (n < 10)
    BY <1>2
  <2>9. Number(n) \o s = <<x>> \o (<<y>> \o s)
    BY <2>4, <2>6, <2>7, Zenon
  <2>10. Number(n) \in Seq(Letters)
    BY <2>4, <2>5
  <2> QED BY <2>8, <2>9, <2>10, Zenon DEF x, y
<1>3. n < 10 \/ n >= 10
  OBVIOUS
<1> QED BY <1>1, <1>2, <1>3, Zenon

(* A field is spelled so. *)
LEMMA FieldParts ==
    ASSUME NEW f \in Fields, f.by = "digits" => f.n \in 0 .. 99, NEW s \in Seq(Letters)
    PROVE  /\ Field(<<>>, f) \in Seq(Letters)
           /\ FieldIs(f, s)
<1>0. <<>> \in Seq(Letters)
  BY EmptySeq
<1>1. CASE f.by = "none"
  <2>1. Field(<<>>, f) = <<>>
    BY <1>1 DEF Field
  <2>2. <<>> \o s = s
    BY ConcatEmptySeq, Zenon
  <2>3. Field(<<>>, f) \o s = s
    BY <2>1, <2>2, Zenon
  <2>4. f.by # "star" /\ f.by # "digits"
    BY <1>1
  <2> QED BY <1>0, <1>1, <2>1, <2>3, <2>4, Zenon DEF FieldIs
<1>2. CASE f.by = "star"
  <2>1. Field(<<>>, f) = <<>> \o <<"*">>
    BY <1>2 DEF Field
  <2>2. <<"*">> \in Seq(Letters)
    BY LettersAre
  <2>3. <<>> \o <<"*">> = <<"*">>
    BY <2>2, ConcatEmptySeq, Zenon
  <2>4. f.by # "none" /\ f.by # "digits"
    BY <1>2
  <2> QED BY <1>2, <2>1, <2>2, <2>3, <2>4, Zenon DEF FieldIs
<1>3. CASE f.by = "digits"
  <2>1. Field(<<>>, f) = <<>> \o Number(f.n)
    BY <1>3 DEF Field
  <2>2. f.by # "none" /\ f.by # "star"
    BY <1>3
  <2>3. f.n \in 0 .. 99
    BY <1>3
  <2>4. PICK n \in 0 .. 99 : n = f.n
    BY <2>3
  <2>5. /\ Number(n) \in Seq(Letters)
        /\ n < 10 => Number(n) \o s = <<lower[n + 1]>> \o s
        /\ n >= 10 => Number(n) \o s = <<lower[(n \div 10) + 1]>> \o (<<lower[(n % 10) + 1]>> \o s)
    BY NumberParts
  <2>6. <<>> \o Number(n) = Number(n)
    BY <2>5, ConcatEmptySeq, Zenon
  <2>7. Field(<<>>, f) = Number(n)
    BY <2>1, <2>4, <2>6, Zenon
  <2>8. Field(<<>>, f) \in Seq(Letters)
    BY <2>5, <2>7, Zenon
  <2>9. FieldIs(f, s)
    BY <2>2, <2>4, <2>5, <2>7, Zenon DEF FieldIs
  <2> QED BY <2>8, <2>9
<1> QED BY <1>1, <1>2, <1>3 DEF Fields

(* The types of a directive's parts. *)
LEMMA DirectiveTypes ==
    ASSUME NEW d, WellFormed(d)
    PROVE  /\ d.flags \in Seq(FlagChars) /\ d.zero \in BOOLEAN
           /\ d.width \in Fields /\ (d.width.by = "digits" => d.width.n \in 1 .. 99)
           /\ d.width.by = "none" => d.width.n = 0
           /\ d.width.by = "star" => d.width.n \in 1 - Half .. Half - 1
           /\ d.prec \in Fields /\ (d.prec.by = "digits" => d.prec.n \in 0 .. 99)
           /\ d.prec.by = "star" => d.prec.n \in -Half .. Half - 1
           /\ d.size \in {<<>>, <<"l">>}
           /\ d.conv \in NumberConvs \cup {"s", "c", "b", "B", "%", "missing"}
           /\ d.arg \in Seq(Arguments) /\ Len(d.arg) = Taken(d.conv)
BY DEF WellFormed, Directives

(* The types of what is left of its spelling. *)
LEMMA PartTypes ==
    ASSUME NEW d, WellFormed(d), NEW r \in Seq(Letters)
    PROVE  /\ AtConv(d, r) \in Seq(Letters) /\ AtSize(d, r) \in Seq(Letters)
           /\ AtDot(d, r) \in Seq(Letters) /\ AtWidth(d, r) \in Seq(Letters)
           /\ AtZero(d, r) \in Seq(Letters) /\ d.flags \in Seq(Letters)
           /\ Field(<<>>, d.width) \in Seq(Letters) /\ Field(<<".">>, d.prec) \in Seq(Letters)
           /\ Field(<<>>, d.prec) \in Seq(Letters) /\ d.size \in Seq(Letters)
           /\ (IF d.conv = "missing" THEN <<>> ELSE <<d.conv, ":">>) \in Seq(Letters)
           /\ (IF d.zero THEN <<"0">> ELSE <<>>) \in Seq(Letters)
<1>0. <<>> \in Seq(Letters)
  BY EmptySeq
<1>1. (IF d.conv = "missing" THEN <<>> ELSE <<d.conv, ":">>) \in Seq(Letters)
  <2>1. CASE d.conv = "missing"
    BY <1>0, <2>1
  <2>2. CASE d.conv # "missing"
    <3>1. d.conv \in Letters /\ ":" \in Letters
      BY <2>2, DirectiveTypes, LettersAre
    <3>2. <<d.conv, ":">> \in Seq(Letters)
      BY <3>1
    <3> QED BY <3>2, <2>2
  <2> QED BY <2>1, <2>2
<1>2. AtConv(d, r) \in Seq(Letters)
  BY <1>1, ConcatProperties, Zenon DEF AtConv
<1>3. d.size \in Seq(Letters)
  <2>1. <<"l">> \in Seq(Letters)
    BY LettersAre
  <2>2. d.size = <<>> \/ d.size = <<"l">>
    BY DirectiveTypes
  <2> QED BY <2>1, <2>2, <1>0, Zenon
<1>4. AtSize(d, r) \in Seq(Letters)
  BY <1>2, <1>3, ConcatProperties, Zenon DEF AtSize
<1>5. Field(<<>>, d.prec) \in Seq(Letters) /\ Field(<<>>, d.width) \in Seq(Letters)
  <2>1. d.prec \in Fields /\ (d.prec.by = "digits" => d.prec.n \in 0 .. 99)
    BY DirectiveTypes
  <2>2. d.width \in Fields /\ (d.width.by = "digits" => d.width.n \in 0 .. 99)
    BY DirectiveTypes
  <2>3. Field(<<>>, d.prec) \in Seq(Letters)
    BY <2>1, <1>0, FieldParts
  <2> QED BY <2>2, <2>3, <1>0, FieldParts
<1>6. Field(<<".">>, d.prec) \in Seq(Letters)
  <2>0. <<".">> \in Seq(Letters) /\ <<"*">> \in Seq(Letters)
    BY LettersAre
  <2>1. CASE d.prec.by = "none"
    BY <2>1, <1>0 DEF Field
  <2>2. CASE d.prec.by = "star"
    <3>1. Field(<<".">>, d.prec) = <<".">> \o <<"*">>
      BY <2>2 DEF Field
    <3> QED BY <3>1, <2>0, ConcatProperties, Zenon
  <2>3. CASE d.prec.by = "digits"
    <3>1. Field(<<".">>, d.prec) = <<".">> \o Number(d.prec.n)
      BY <2>3 DEF Field
    <3>2. d.prec.n \in 0 .. 99
      BY <2>3, DirectiveTypes
    <3>3. Number(d.prec.n) \in Seq(Letters)
      BY <3>2, <1>0, NumberParts
    <3> QED BY <3>1, <3>3, <2>0, ConcatProperties, Zenon
  <2> QED BY <2>1, <2>2, <2>3, DirectiveTypes DEF Fields
<1>7. AtDot(d, r) \in Seq(Letters)
  BY <1>4, <1>6, ConcatProperties, Zenon DEF AtDot
<1>8. AtWidth(d, r) \in Seq(Letters)
  BY <1>5, <1>7, ConcatProperties, Zenon DEF AtWidth
<1>9. (IF d.zero THEN <<"0">> ELSE <<>>) \in Seq(Letters)
  <2>1. <<"0">> \in Seq(Letters)
    BY LettersAre
  <2> QED BY <2>1, <1>0
<1>10. AtZero(d, r) \in Seq(Letters)
  BY <1>8, <1>9, ConcatProperties, Zenon DEF AtZero
<1>11. d.flags \in Seq(Letters)
  BY DirectiveTypes, LettersAre, SeqMonotonic
<1> QED BY <1>1, <1>2, <1>3, <1>4, <1>5, <1>6, <1>7, <1>8, <1>9, <1>10, <1>11, Zenon

(* Concatenations, regrouped. *)
Assoc(s, t, u) == (s \o t) \o u = s \o (t \o u)

(* They may be regrouped, two and two. *)
LEMMA Associates ==
    ASSUME NEW T, NEW s \in Seq(T), NEW t \in Seq(T), NEW u \in Seq(T)
    PROVE  Assoc(s, t, u)
BY ConcatAssociative DEF Assoc

Regrouped(T, s1, s2, s3, s4, s5, s6, s7, r) ==
    /\ s1 \o s2 \o s3 \o s4 \o s5 \o s6 \o s7 \in Seq(T)
    /\ (s1 \o s2 \o s3 \o s4 \o s5 \o s6 \o s7) \o r
           = s1 \o (s2 \o (s3 \o (s4 \o (s5 \o (s6 \o (s7 \o r))))))

(* Seven of them in front of another. *)
LEMMA Regroup ==
    ASSUME NEW T, NEW s1 \in Seq(T), NEW s2 \in Seq(T), NEW s3 \in Seq(T), NEW s4 \in Seq(T),
           NEW s5 \in Seq(T), NEW s6 \in Seq(T), NEW s7 \in Seq(T), NEW r \in Seq(T)
    PROVE  Regrouped(T, s1, s2, s3, s4, s5, s6, s7, r)
<1> DEFINE a2 == s1 \o s2
           a3 == a2 \o s3
           a4 == a3 \o s4
           a5 == a4 \o s5
           a6 == a5 \o s6
           b7 == s7 \o r
           b6 == s6 \o b7
           b5 == s5 \o b6
           b4 == s4 \o b5
           b3 == s3 \o b4
<1>1. a2 \in Seq(T)
  BY ConcatProperties, Zenon
<1> HIDE DEF a2
<1>2. a3 \in Seq(T)
  BY <1>1, ConcatProperties, Zenon
<1> HIDE DEF a3
<1>3. a4 \in Seq(T)
  BY <1>2, ConcatProperties, Zenon
<1> HIDE DEF a4
<1>4. a5 \in Seq(T)
  BY <1>3, ConcatProperties, Zenon
<1> HIDE DEF a5
<1>5. a6 \in Seq(T)
  BY <1>4, ConcatProperties, Zenon
<1> HIDE DEF a6
<1>6. b7 \in Seq(T) /\ (a6 \o s7) \o r = a6 \o b7 /\ a6 \o s7 \in Seq(T)
  <2>1. Assoc(a6, s7, r)
    BY <1>5, Associates
  <2>2. b7 \in Seq(T)
    BY ConcatProperties, Zenon
  <2>3. a6 \o s7 \in Seq(T)
    BY <1>5, ConcatProperties, Zenon
  <2> QED BY <2>1, <2>2, <2>3, Zenon DEF Assoc, b7
<1> HIDE DEF b7
<1>7. b6 \in Seq(T) /\ (a5 \o s6) \o b7 = a5 \o b6
  <2>1. Assoc(a5, s6, b7)
    BY <1>4, <1>6, Associates
  <2>2. b6 \in Seq(T)
    BY <1>6, ConcatProperties, Zenon
  <2> QED BY <2>1, <2>2, Zenon DEF Assoc, b6
<1> HIDE DEF b6
<1>8. b5 \in Seq(T) /\ (a4 \o s5) \o b6 = a4 \o b5
  <2>1. Assoc(a4, s5, b6)
    BY <1>3, <1>7, Associates
  <2>2. b5 \in Seq(T)
    BY <1>7, ConcatProperties, Zenon
  <2> QED BY <2>1, <2>2, Zenon DEF Assoc, b5
<1> HIDE DEF b5
<1>9. b4 \in Seq(T) /\ (a3 \o s4) \o b5 = a3 \o b4
  <2>1. Assoc(a3, s4, b5)
    BY <1>2, <1>8, Associates
  <2>2. b4 \in Seq(T)
    BY <1>8, ConcatProperties, Zenon
  <2> QED BY <2>1, <2>2, Zenon DEF Assoc, b4
<1> HIDE DEF b4
<1>10. b3 \in Seq(T) /\ (a2 \o s3) \o b4 = a2 \o b3
  <2>1. Assoc(a2, s3, b4)
    BY <1>1, <1>9, Associates
  <2>2. b3 \in Seq(T)
    BY <1>9, ConcatProperties, Zenon
  <2> QED BY <2>1, <2>2, Zenon DEF Assoc, b3
<1> HIDE DEF b3
<1>11. Assoc(s1, s2, b3)
  BY <1>10, Associates
<1>12. (a6 \o s7) \o r = s1 \o (s2 \o b3)
  BY <1>6, <1>7, <1>8, <1>9, <1>10, <1>11, Zenon DEF a2, a3, a4, a5, a6, Assoc
<1>13. a6 = s1 \o s2 \o s3 \o s4 \o s5 \o s6
  BY Zenon DEF a2, a3, a4, a5, a6
<1>14. b3 = s3 \o (s4 \o (s5 \o (s6 \o (s7 \o r))))
  BY Zenon DEF b3, b4, b5, b6, b7
<1> QED BY <1>6, <1>12, <1>13, <1>14, Zenon DEF Regrouped

(* A directive is spelled so that its flags follow a %. *)
LEMMA SpellingIs ==
    ASSUME NEW d, WellFormed(d), NEW r \in Seq(Letters)
    PROVE  /\ Spelling(d) \in Seq(Letters)
           /\ Spelling(d) \o r = <<"%">> \o AtFlags(d, r, 0)
           /\ AtFlags(d, r, 0) \in Seq(Letters)
<1> DEFINE z == IF d.zero THEN <<"0">> ELSE <<>>
           w == Field(<<>>, d.width)
           p == Field(<<".">>, d.prec)
           l == d.size
           e == IF d.conv = "missing" THEN <<>> ELSE <<d.conv, ":">>
           f == d.flags
<1>1. /\ f \in Seq(Letters) /\ z \in Seq(Letters) /\ w \in Seq(Letters) /\ p \in Seq(Letters)
      /\ l \in Seq(Letters) /\ e \in Seq(Letters)
  BY PartTypes, Zenon
<1>2. <<"%">> \in Seq(Letters)
  BY LettersAre
<1>3. Spelling(d) = <<"%">> \o f \o z \o w \o p \o l \o e
  BY Zenon DEF Spelling
<1>4. AtZero(d, r) = z \o (w \o (p \o (l \o (e \o r))))
  BY Zenon DEF AtZero, AtWidth, AtDot, AtSize, AtConv
<1>5. SubSeq(d.flags, 0 + 1, Len(d.flags)) = f
  BY <1>1, SubSeqFull
<1>6. AtFlags(d, r, 0) = f \o (z \o (w \o (p \o (l \o (e \o r)))))
  BY <1>4, <1>5, Zenon DEF AtFlags
<1>7. AtZero(d, r) \in Seq(Letters)
  BY PartTypes, Zenon
<1>8. f \o AtZero(d, r) \in Seq(Letters)
  BY <1>1, <1>7, ConcatProperties, Zenon
<1>9. AtFlags(d, r, 0) \in Seq(Letters)
  BY <1>4, <1>6, <1>8, Zenon
<1> HIDE DEF f, z, w, p, l, e
<1> DEFINE q == <<"%">>
<1>10. q \in Seq(Letters)
  BY <1>2
<1> HIDE DEF q
<1>11. Regrouped(Letters, q, f, z, w, p, l, e, r)
  BY <1>1, <1>10, Regroup
<1> QED BY <1>3, <1>6, <1>9, <1>11, Zenon DEF q, Regrouped

(* s begins with x, and r follows. *)
Begins(s, x, r) == x \in Letters /\ r \in Seq(Letters) /\ s = <<x>> \o r

(* The first is the first. *)
LEMMA FrontFirst ==
    ASSUME NEW s, NEW x, NEW r, Begins(s, x, r)
    PROVE  FirstOf(s) = x
<1>1. x \in Letters /\ r \in Seq(Letters) /\ s = <<x>> \o r
  BY DEF Begins
<1>2. FirstOf(<<x>> \o r) = x
  BY <1>1, FirstCons
<1> QED BY <1>1, <1>2, Zenon

(* Where a directive may end: at its conversion, or at the end.            *)
Ends == NumberConvs \cup {"s", "c", "b", "B", "%", "NUL"}

(* The conversion, if there is one, and the colon behind it.               *)
LEMMA ConvPart ==
    ASSUME NEW d, WellFormed(d), NEW r \in Seq(Letters), d.conv = "missing" => r = <<>>
    PROVE  /\ d.conv = "missing" => AtConv(d, r) = <<>>
           /\ d.conv # "missing" => Begins(AtConv(d, r), d.conv, <<":">> \o r)
           /\ d.conv # "missing" => Begins(<<":">> \o r, ":", r)
           /\ FirstOf(AtConv(d, r)) = IF d.conv = "missing" THEN "NUL" ELSE d.conv
           /\ FirstOf(AtConv(d, r)) \in Ends
<1>0. d.conv \in NumberConvs \cup {"s", "c", "b", "B", "%", "missing"}
  BY DirectiveTypes
<1>1. CASE d.conv = "missing"
  <2>1. AtConv(d, r) = <<>> \o <<>>
    BY <1>1 DEF AtConv
  <2>2. <<>> \in Seq(Letters)
    BY EmptySeq
  <2>3. <<>> \o <<>> = <<>>
    BY <2>2, ConcatEmptySeq
  <2>4. AtConv(d, r) = <<>>
    BY <2>1, <2>3, Zenon
  <2>5. FirstOf(<<>>) = "NUL"
    BY DEF FirstOf
  <2> QED BY <1>1, <2>4, <2>5 DEF Ends
<1>2. CASE d.conv # "missing"
  <2>1. d.conv \in Letters /\ ":" \in Letters
    BY <1>0, <1>2, LettersAre
  <2> DEFINE a == <<d.conv>>
             b == <<":">>
  <2>2. a \in Seq(Letters) /\ b \in Seq(Letters)
    BY <2>1
  <2>3. <<d.conv, ":">> = a \o b
    BY <2>1, Pair
  <2> HIDE DEF a, b
  <2>4. Assoc(a, b, r)
    BY <2>2, Associates
  <2>5. AtConv(d, r) = <<d.conv, ":">> \o r
    BY <1>2 DEF AtConv
  <2>6. AtConv(d, r) = a \o (b \o r)
    BY <2>3, <2>4, <2>5, Zenon DEF Assoc
  <2>7. b \o r \in Seq(Letters)
    BY <2>2, ConcatProperties, Zenon
  <2>8. Begins(AtConv(d, r), d.conv, b \o r) /\ Begins(b \o r, ":", r)
    BY <2>1, <2>6, <2>7 DEF Begins, a, b
  <2>9. FirstOf(AtConv(d, r)) = d.conv
    BY <2>8, FrontFirst
  <2> QED BY <1>0, <1>2, <2>8, <2>9 DEF b, Ends
<1> QED BY <1>1, <1>2

(* The size, if there is one. *)
LEMMA SizePart ==
    ASSUME NEW d, WellFormed(d), NEW r \in Seq(Letters), d.conv = "missing" => r = <<>>
    PROVE  /\ \/ Begins(AtSize(d, r), "l", AtConv(d, r))
              \/ AtSize(d, r) = AtConv(d, r)
           /\ FirstOf(AtSize(d, r)) \in Ends \cup {"l"}
<1>1. AtConv(d, r) \in Seq(Letters) /\ FirstOf(AtConv(d, r)) \in Ends
  BY PartTypes, ConvPart
<1>2. CASE d.size = <<>>
  <2>1. <<>> \o AtConv(d, r) = AtConv(d, r)
    BY <1>1, ConcatEmptySeq, Zenon
  <2>2. AtSize(d, r) = AtConv(d, r)
    BY <1>2, <2>1, Zenon DEF AtSize
  <2>3. FirstOf(AtSize(d, r)) \in Ends
    BY <1>1, <2>2, Zenon
  <2> QED BY <2>2, <2>3, Zenon
<1>3. CASE d.size = <<"l">>
  <2>1. AtSize(d, r) = <<"l">> \o AtConv(d, r)
    BY <1>3, Zenon DEF AtSize
  <2>2. Begins(AtSize(d, r), "l", AtConv(d, r))
    BY <1>1, <2>1, LettersAre DEF Begins
  <2>3. FirstOf(AtSize(d, r)) = "l"
    BY <2>2, FrontFirst
  <2> QED BY <2>2, <2>3
<1>4. d.size = <<>> \/ d.size = <<"l">>
  BY DirectiveTypes, Zenon
<1> QED BY <1>2, <1>3, <1>4, Zenon

(* What begins a field. *)
FieldFronts(f, s) ==
    /\ f.by = "none" => Field(<<>>, f) \o s = s
    /\ f.by = "star" => Begins(Field(<<>>, f) \o s, "*", s)
    /\ f.by = "digits" /\ f.n < 10 => Begins(Field(<<>>, f) \o s, lower[f.n + 1], s)
    /\ f.by = "digits" /\ f.n >= 10 =>
          /\ Begins(Field(<<>>, f) \o s, lower[(f.n \div 10) + 1], <<lower[(f.n % 10) + 1]>> \o s)
          /\ Begins(<<lower[(f.n % 10) + 1]>> \o s, lower[(f.n % 10) + 1], s)

(* The first character of a field is a digit or a *. *)
LEMMA FieldFront ==
    ASSUME NEW f \in Fields, f.by = "digits" => f.n \in 0 .. 99, NEW s \in Seq(Letters)
    PROVE  FieldFronts(f, s)
<1>1. FieldIs(f, s)
  BY FieldParts
<1>2. f.by = "none" => Field(<<>>, f) \o s = s
  BY <1>1, Zenon DEF FieldIs
<1>3. f.by = "star" => Begins(Field(<<>>, f) \o s, "*", s)
  BY <1>1, LettersAre DEF FieldIs, Begins
<1>4. ASSUME f.by = "digits", f.n < 10 PROVE Begins(Field(<<>>, f) \o s, lower[f.n + 1], s)
  <2>0. f.n \in 0 .. 99
    BY <1>4, Zenon
  <2>1. PICK m \in 0 .. 99 : m = f.n
    BY <2>0, Zenon
  <2>2. PICK n \in 0 .. 9 : n = f.n
    <3>1. m < 10
      BY <1>4, <2>1, Zenon
    <3>2. m \in 0 .. 9
      BY <3>1
    <3> QED BY <2>1, <3>2, Zenon
  <2>3. lower[n + 1] \in Letters
    BY Figure, LettersAre
  <2> QED BY <1>1, <1>4, <2>2, <2>3 DEF FieldIs, Begins
<1>5. ASSUME f.by = "digits", f.n >= 10
      PROVE  /\ Begins(Field(<<>>, f) \o s, lower[(f.n \div 10) + 1], <<lower[(f.n % 10) + 1]>> \o s)
             /\ Begins(<<lower[(f.n % 10) + 1]>> \o s, lower[(f.n % 10) + 1], s)
  <2>1. f.n \in 0 .. 99
    BY <1>5
  <2>2. PICK n \in 0 .. 99 : n = f.n
    BY <2>1
  <2>3. n \div 10 \in 0 .. 9 /\ n % 10 \in 0 .. 9
    <3>1. n >= 10
      BY <1>5, <2>2, Zenon
    <3>2. n \div 10 \in 1 .. 9 /\ n % 10 \in 0 .. 9
      BY <3>1, NumberIs
    <3> QED BY <3>2
  <2> DEFINE x == lower[(n \div 10) + 1]
             y == lower[(n % 10) + 1]
  <2>4. x \in Letters /\ y \in Letters
    BY <2>3, Figure, LettersAre
  <2>5. Field(<<>>, f) \o s = <<x>> \o (<<y>> \o s)
    BY <1>1, <1>5, <2>2 DEF FieldIs
  <2> HIDE DEF x, y
  <2>6. <<y>> \o s \in Seq(Letters)
    BY <2>4, FirstCons
  <2>7. Begins(Field(<<>>, f) \o s, x, <<y>> \o s) /\ Begins(<<y>> \o s, y, s)
    BY <2>4, <2>5, <2>6 DEF Begins
  <2> QED BY <2>2, <2>7 DEF x, y
<1> QED BY <1>2, <1>3, <1>4, <1>5, Zenon DEF FieldFronts

(* The precision and the point before it, if there is one.                 *)
LEMMA DotPart ==
    ASSUME NEW d, WellFormed(d), NEW r \in Seq(Letters), d.conv = "missing" => r = <<>>
    PROVE  /\ d.prec.by = "none" => AtDot(d, r) = AtSize(d, r)
           /\ d.prec.by # "none" => Begins(AtDot(d, r), ".", Field(<<>>, d.prec) \o AtSize(d, r))
           /\ FieldFronts(d.prec, AtSize(d, r))
           /\ FirstOf(AtDot(d, r)) \in Ends \cup {"l"} \cup {"."}
           /\ d.prec.by = "none" => FirstOf(AtDot(d, r)) # "."
<1>1. /\ AtSize(d, r) \in Seq(Letters) /\ FirstOf(AtSize(d, r)) \in Ends \cup {"l"}
      /\ Field(<<>>, d.prec) \in Seq(Letters)
  BY PartTypes, SizePart
<1>2. d.prec \in Fields /\ (d.prec.by = "digits" => d.prec.n \in 0 .. 99)
  BY DirectiveTypes
<1>3. FieldFronts(d.prec, AtSize(d, r))
  BY <1>1, <1>2, FieldFront
<1>4. CASE d.prec.by = "none"
  <2>1. Field(<<".">>, d.prec) = <<>>
    BY <1>4 DEF Field
  <2>2. <<>> \o AtSize(d, r) = AtSize(d, r)
    BY <1>1, ConcatEmptySeq, Zenon
  <2>3. AtDot(d, r) = AtSize(d, r)
    BY <2>1, <2>2, Zenon DEF AtDot
  <2>4. FirstOf(AtDot(d, r)) # "."
    BY <1>1, <2>3 DEF Ends, NumberConvs, SignedConvs
  <2> QED BY <1>1, <1>3, <1>4, <2>3, <2>4
<1>5. CASE d.prec.by # "none"
  <2> DEFINE m == <<".">>
             q == Field(<<>>, d.prec)
             s == AtSize(d, r)
  <2>1. m \in Seq(Letters)
    BY LettersAre
  <2>2. Field(<<".">>, d.prec) = m \o q
    <3>1. CASE d.prec.by = "star"
      <4>1. Field(<<".">>, d.prec) = m \o <<"*">> /\ q = <<>> \o <<"*">>
        BY <3>1 DEF Field
      <4>2. <<"*">> \in Seq(Letters)
        BY LettersAre
      <4>3. <<>> \o <<"*">> = <<"*">>
        BY <4>2, ConcatEmptySeq, Zenon
      <4> QED BY <4>1, <4>3, Zenon
    <3>2. CASE d.prec.by = "digits"
      <4>1. Field(<<".">>, d.prec) = m \o Number(d.prec.n) /\ q = <<>> \o Number(d.prec.n)
        BY <3>2 DEF Field
      <4>2. d.prec.n \in 0 .. 99
        BY <1>2, <3>2
      <4>3. Number(d.prec.n) \in Seq(Letters)
        BY <4>2, <1>1, NumberParts
      <4>4. <<>> \o Number(d.prec.n) = Number(d.prec.n)
        BY <4>3, ConcatEmptySeq, Zenon
      <4> QED BY <4>1, <4>4, Zenon
    <3> QED BY <1>2, <1>5, <3>1, <3>2 DEF Fields
  <2>3. q \in Seq(Letters) /\ s \in Seq(Letters)
    BY <1>1
  <2>4. AtDot(d, r) = (m \o q) \o s
    BY <2>2, Zenon DEF AtDot
  <2> HIDE DEF m, q, s
  <2>5. Assoc(m, q, s)
    BY <2>1, <2>3, Associates
  <2>6. AtDot(d, r) = m \o (q \o s)
    BY <2>4, <2>5, Zenon DEF Assoc
  <2>7. q \o s \in Seq(Letters)
    BY <2>3, ConcatProperties, Zenon
  <2>8. Begins(AtDot(d, r), ".", q \o s)
    BY <2>6, <2>7, LettersAre DEF Begins, m
  <2>9. FirstOf(AtDot(d, r)) = "."
    BY <2>8, FrontFirst
  <2> QED BY <1>3, <1>5, <2>8, <2>9 DEF q, s
<1> QED BY <1>4, <1>5

(* The width, if there is one. *)
LEMMA WidthPart ==
    ASSUME NEW d, WellFormed(d), NEW r \in Seq(Letters), d.conv = "missing" => r = <<>>
    PROVE  /\ FieldFronts(d.width, AtDot(d, r))
           /\ AtWidth(d, r) = Field(<<>>, d.width) \o AtDot(d, r)
           /\ FirstOf(AtWidth(d, r)) \in Ends \cup {"l", ".", "*"} \cup (Figures \ {"0"})
           /\ d.width.by = "none" => FirstOf(AtWidth(d, r)) \in Ends \cup {"l", "."}
<1>1. AtDot(d, r) \in Seq(Letters) /\ FirstOf(AtDot(d, r)) \in Ends \cup {"l"} \cup {"."}
  BY PartTypes, DotPart
<1>2. d.width \in Fields /\ (d.width.by = "digits" => d.width.n \in 1 .. 99)
  BY DirectiveTypes
<1>3. FieldFronts(d.width, AtDot(d, r))
  <2>1. d.width.by = "digits" => d.width.n \in 0 .. 99
    BY <1>2
  <2> QED BY <1>1, <1>2, <2>1, FieldFront
<1>4. AtWidth(d, r) = Field(<<>>, d.width) \o AtDot(d, r)
  BY Zenon DEF AtWidth
<1> DEFINE s == AtWidth(d, r)
<1>5. CASE d.width.by = "none"
  <2>1. s = AtDot(d, r)
    BY <1>3, <1>4, <1>5, Zenon DEF FieldFronts
  <2>2. FirstOf(s) \in Ends \cup {"l"} \cup {"."}
    BY <1>1, <2>1, Zenon
  <2> QED BY <1>3, <1>4, <2>2
<1>6. CASE d.width.by = "star"
  <2>1. Begins(s, "*", AtDot(d, r))
    BY <1>3, <1>4, <1>6, Zenon DEF FieldFronts
  <2>2. FirstOf(s) = "*"
    BY <2>1, FrontFirst
  <2> QED BY <1>3, <1>4, <1>6, <2>2
<1>7. CASE d.width.by = "digits"
  <2>1. PICK n \in 1 .. 99 : n = d.width.n
    BY <1>2, <1>7
  <2>2. CASE n < 10
    <3>1. Begins(s, lower[n + 1], AtDot(d, r))
      BY <1>3, <1>4, <1>7, <2>1, <2>2 DEF FieldFronts
    <3>2. FirstOf(s) = lower[n + 1]
      BY <3>1, FrontFirst
    <3>3. n \in 0 .. 9 /\ n > 0
      BY <2>2
    <3>4. lower[n + 1] \in Figures /\ lower[n + 1] # "0"
      BY <3>3, Figure
    <3> QED BY <1>3, <1>4, <1>7, <3>2, <3>4
  <2>3. CASE n >= 10
    <3>0. n \div 10 \in 0 .. 9 /\ n \div 10 > 0
      BY <2>3
    <3> DEFINE m == n \div 10
    <3>1. Begins(s, lower[m + 1], <<lower[(n % 10) + 1]>> \o AtDot(d, r))
      BY <1>3, <1>4, <1>7, <2>1, <2>3 DEF FieldFronts
    <3> HIDE DEF m
    <3>2. FirstOf(s) = lower[m + 1]
      BY <3>1, FrontFirst
    <3>3. m \in 0 .. 9 /\ m > 0
      BY <3>0 DEF m
    <3>4. lower[m + 1] \in Figures /\ lower[m + 1] # "0"
      BY <3>3, Figure
    <3> QED BY <1>3, <1>4, <1>7, <3>2, <3>4
  <2> QED BY <2>2, <2>3
<1> QED BY <1>2, <1>5, <1>6, <1>7 DEF Fields

(* The zero, if there is one. *)
LEMMA ZeroPart ==
    ASSUME NEW d, WellFormed(d), NEW r \in Seq(Letters), d.conv = "missing" => r = <<>>
    PROVE  /\ d.zero => Begins(AtZero(d, r), "0", AtWidth(d, r))
           /\ ~d.zero => AtZero(d, r) = AtWidth(d, r) /\ FirstOf(AtZero(d, r)) # "0"
           /\ FirstOf(AtZero(d, r)) \notin FlagChars
<1>1. /\ AtWidth(d, r) \in Seq(Letters)
      /\ FirstOf(AtWidth(d, r)) \in Ends \cup {"l", ".", "*"} \cup (Figures \ {"0"})
  BY PartTypes, WidthPart
<1>2. CASE d.zero
  <2>1. AtZero(d, r) = <<"0">> \o AtWidth(d, r)
    BY <1>2, Zenon DEF AtZero
  <2>2. Begins(AtZero(d, r), "0", AtWidth(d, r))
    BY <1>1, <2>1, LettersAre DEF Begins
  <2>3. FirstOf(AtZero(d, r)) = "0"
    BY <2>2, FrontFirst
  <2> QED BY <1>2, <2>2, <2>3 DEF FlagChars
<1>3. CASE ~d.zero
  <2>1. <<>> \o AtWidth(d, r) = AtWidth(d, r)
    BY <1>1, ConcatEmptySeq, Zenon
  <2>2. AtZero(d, r) = AtWidth(d, r)
    BY <1>3, <2>1, Zenon DEF AtZero
  <2> DEFINE x == FirstOf(AtWidth(d, r))
  <2>3. x \notin FlagChars /\ x # "0"
    <3> HIDE DEF x
    <3>1. x \in Ends \cup {"l", ".", "*"} \cup (Figures \ {"0"})
      BY <1>1 DEF x
    <3> QED BY <3>1 DEF FlagChars, Ends, Figures, NumberConvs, SignedConvs
  <2> QED BY <1>3, <2>2, <2>3, Zenon
<1> QED BY <1>2, <1>3

(* The flags, one by one. *)
LEMMA FlagPart ==
    ASSUME NEW d, WellFormed(d), NEW r \in Seq(Letters), NEW n \in 0 .. Len(d.flags)
    PROVE  /\ n < Len(d.flags) =>
                 /\ Begins(AtFlags(d, r, n), d.flags[n + 1], AtFlags(d, r, n + 1))
                 /\ d.flags[n + 1] \in FlagChars
           /\ n = Len(d.flags) => AtFlags(d, r, n) = AtZero(d, r)
<1>1. /\ d.flags \in Seq(Letters) /\ AtZero(d, r) \in Seq(Letters) /\ d.flags \in Seq(FlagChars)
      /\ Len(d.flags) \in Nat
  BY PartTypes, DirectiveTypes, LenProperties
<1>2. ASSUME n < Len(d.flags)
      PROVE  /\ Begins(AtFlags(d, r, n), d.flags[n + 1], AtFlags(d, r, n + 1))
             /\ d.flags[n + 1] \in FlagChars
  <2> DEFINE f == d.flags
             L == Len(f)
             x == f[n + 1]
             rest == SubSeq(f, (n + 1) + 1, L)
             z == AtZero(d, r)
             a == <<x>>
  <2>1. n + 1 \in 1 .. L /\ L \in n + 1 .. L
    BY <1>1, <1>2
  <2>2. x \in FlagChars /\ x \in Letters
    BY <1>1, <2>1, ElementOfSeq
  <2>3. SubSeq(f, n + 1, L) = <<x>> \o rest
    BY <1>1, <2>1, SubSeqRecursiveFirst, Zenon
  <2>4. rest \in Seq(Letters)
    <3>1. \A i \in (n + 1) + 1 .. L : f[i] \in Letters
      BY <1>1, <2>1, ElementOfSeq
    <3> HIDE DEF f
    <3>2. (n + 1) + 1 \in Int /\ L \in Int
      BY <1>1 DEF f
    <3> QED BY <3>1, <3>2, SubSeqProperties
  <2>5. a \in Seq(Letters)
    BY <2>2
  <2>6. AtFlags(d, r, n) = (a \o rest) \o z
    BY <2>3, Zenon DEF AtFlags
  <2>7. AtFlags(d, r, n + 1) = rest \o z
    BY Zenon DEF AtFlags
  <2> HIDE DEF a, rest, z, x
  <2>8. Assoc(a, rest, z)
    BY <1>1, <2>4, <2>5, Associates DEF z
  <2>9. AtFlags(d, r, n) = a \o AtFlags(d, r, n + 1)
    BY <2>6, <2>7, <2>8, Zenon DEF Assoc
  <2>10. z \in Seq(Letters)
    BY <1>1 DEF z
  <2>11. AtFlags(d, r, n + 1) \in Seq(Letters)
    BY <2>4, <2>7, <2>10, ConcatProperties, Zenon
  <2>12. Begins(AtFlags(d, r, n), x, AtFlags(d, r, n + 1))
    BY <2>2, <2>9, <2>11, Zenon DEF Begins, a
  <2> QED BY <2>2, <2>12 DEF x
<1>3. ASSUME n = Len(d.flags) PROVE AtFlags(d, r, n) = AtZero(d, r)
  <2>1. SubSeq(d.flags, n + 1, Len(d.flags)) = <<>>
    <3>1. n + 1 \in Int /\ Len(d.flags) \in Int /\ Len(d.flags) < n + 1
      BY <1>1, <1>3
    <3> QED BY <3>1, SubSeqEmpty
  <2>2. <<>> \o AtZero(d, r) = AtZero(d, r)
    BY <1>1, ConcatEmptySeq, Zenon
  <2> QED BY <2>1, <2>2, Zenon DEF AtFlags
<1> QED BY <1>2, <1>3

-----------------------------------------------------------------------------
(* The arguments of a directive. *)

(* The argument of a *, if there is one, in front of others. *)
LEMMA StarPart ==
    ASSUME NEW f \in Fields, f.by = "star" => f.n \in -Half .. Half - 1, NEW a \in Seq(Arguments)
    PROVE  /\ StarArg(f) \in Seq(Arguments)
           /\ StarArg(f) \o a \in Seq(Arguments)
           /\ f.by = "star" => /\ Num(Pattern(f.n)) \in Arguments
                               /\ StarArg(f) \o a = <<Num(Pattern(f.n))>> \o a
                               /\ Signed(Num(Pattern(f.n)).v) = f.n
           /\ f.by # "star" => StarArg(f) \o a = a
<1>1. CASE f.by = "star"
  <2>1. f.n \in -Half .. Half - 1
    BY <1>1
  <2>2. PICK n \in -Half .. Half - 1 : n = f.n
    BY <2>1, Zenon
  <2>3. Pattern(n) \in 0 .. 2 * Half - 1 /\ Signed(Pattern(n)) = n
    BY PatternSigned
  <2> DEFINE p == Pattern(n)
  <2>4. Num(p) \in Arguments /\ Num(p).v = p
    <3> HIDE DEF p
    <3>1. p \in 0 .. 2 * Half - 1
      BY <2>3 DEF p
    <3>2. <<>> \in Seq(STRING) /\ <<>> \in Seq([i : 1 .. 32, j : 0 .. 32, name : Seq(STRING)])
      BY EmptySeq
    <3> DEFINE s == <<>>
    <3>3. s \in Seq(STRING) /\ s \in Seq([i : 1 .. 32, j : 0 .. 32, name : Seq(STRING)])
      BY <3>2
    <3>4. Num(p) = [v |-> p, str |-> s, items |-> s]
      BY DEF Num
    <3> HIDE DEF s
    <3> QED BY <3>1, <3>3, <3>4 DEF Arguments
  <2>5. StarArg(f) = <<Num(p)>>
    BY <1>1, <2>2 DEF StarArg
  <2> HIDE DEF p
  <2>6. StarArg(f) \in Seq(Arguments)
    BY <2>4, <2>5
  <2>7. StarArg(f) \o a \in Seq(Arguments)
    BY <2>6, ConcatProperties, Zenon
  <2>8. StarArg(f) \o a = <<Num(p)>> \o a
    BY <2>5, Zenon
  <2>9. Signed(Num(p).v) = n
    BY <2>3, <2>4 DEF p
  <2> QED BY <1>1, <2>2, <2>4, <2>6, <2>7, <2>8, <2>9 DEF p
<1>2. CASE f.by # "star"
  <2>1. StarArg(f) = <<>>
    BY <1>2 DEF StarArg
  <2>2. <<>> \in Seq(Arguments)
    BY EmptySeq
  <2>3. <<>> \o a = a
    BY ConcatEmptySeq, Zenon
  <2> QED BY <1>2, <2>1, <2>2, <2>3, Zenon
<1> QED BY <1>1, <1>2

(* What is left of the arguments at each part. *)
LEMMA ArgParts ==
    ASSUME NEW d, WellFormed(d), NEW u \in Seq(Arguments)
    PROVE  /\ OwnArgs(d, u) \in Seq(Arguments) /\ PrecArgs(d, u) \in Seq(Arguments)
           /\ WidthArgs(d, u) \in Seq(Arguments)
           /\ d.width.by = "star" => /\ Num(Pattern(d.width.n)) \in Arguments
                                     /\ WidthArgs(d, u) = <<Num(Pattern(d.width.n))>> \o PrecArgs(d, u)
                                     /\ Signed(Num(Pattern(d.width.n)).v) = d.width.n
           /\ d.width.by # "star" => WidthArgs(d, u) = PrecArgs(d, u)
           /\ d.prec.by = "star" => /\ Num(Pattern(d.prec.n)) \in Arguments
                                    /\ PrecArgs(d, u) = <<Num(Pattern(d.prec.n))>> \o OwnArgs(d, u)
                                    /\ Signed(Num(Pattern(d.prec.n)).v) = d.prec.n
           /\ d.prec.by # "star" => PrecArgs(d, u) = OwnArgs(d, u)
<1>1. d.arg \in Seq(Arguments)
  BY DirectiveTypes
<1>2. OwnArgs(d, u) \in Seq(Arguments)
  BY <1>1, ConcatProperties, Zenon DEF OwnArgs
<1>3. d.prec \in Fields /\ (d.prec.by = "star" => d.prec.n \in -Half .. Half - 1)
  BY DirectiveTypes
<1>4. /\ PrecArgs(d, u) \in Seq(Arguments)
      /\ d.prec.by = "star" => /\ Num(Pattern(d.prec.n)) \in Arguments
                               /\ PrecArgs(d, u) = <<Num(Pattern(d.prec.n))>> \o OwnArgs(d, u)
                               /\ Signed(Num(Pattern(d.prec.n)).v) = d.prec.n
      /\ d.prec.by # "star" => PrecArgs(d, u) = OwnArgs(d, u)
  BY <1>2, <1>3, StarPart DEF PrecArgs
<1>5. d.width \in Fields /\ (d.width.by = "star" => d.width.n \in -Half .. Half - 1)
  <2>1. d.width \in Fields /\ (d.width.by = "star" => d.width.n \in 1 - Half .. Half - 1)
    BY DirectiveTypes
  <2>2. \A n \in 1 - Half .. Half - 1 : n \in -Half .. Half - 1
    BY WordAssumption
  <2> QED BY <2>1, <2>2, Zenon
<1>6. /\ WidthArgs(d, u) \in Seq(Arguments)
      /\ d.width.by = "star" => /\ Num(Pattern(d.width.n)) \in Arguments
                                /\ WidthArgs(d, u) = <<Num(Pattern(d.width.n))>> \o PrecArgs(d, u)
                                /\ Signed(Num(Pattern(d.width.n)).v) = d.width.n
      /\ d.width.by # "star" => WidthArgs(d, u) = PrecArgs(d, u)
  BY <1>4, <1>5, StarPart DEF WidthArgs
<1> QED BY <1>2, <1>4, <1>6

(* The arguments passed for a directive. *)
LEMMA PassedIs ==
    ASSUME NEW d, WellFormed(d), NEW u \in Seq(Arguments)
    PROVE  Passed(d) \in Seq(Arguments) /\ Passed(d) \o u = WidthArgs(d, u)
<1> DEFINE w == StarArg(d.width)
           p == StarArg(d.prec)
           a == d.arg
<1>0. <<>> \in Seq(Arguments)
  BY EmptySeq
<1>1. a \in Seq(Arguments)
  BY DirectiveTypes
<1>2. p \in Seq(Arguments)
  BY <1>0, DirectiveTypes, StarPart
<1>3. w \in Seq(Arguments)
  <2>1. d.width \in Fields /\ (d.width.by = "star" => d.width.n \in 1 - Half .. Half - 1)
    BY DirectiveTypes
  <2>2. \A n \in 1 - Half .. Half - 1 : n \in -Half .. Half - 1
    BY WordAssumption
  <2>3. d.width.by = "star" => d.width.n \in -Half .. Half - 1
    BY <2>1, <2>2, Zenon
  <2> QED BY <1>0, <2>1, <2>3, StarPart
<1>4. Passed(d) = (w \o p) \o a
  BY Zenon DEF Passed, StarArg
<1>5. WidthArgs(d, u) = w \o (p \o (a \o u))
  BY Zenon DEF WidthArgs, PrecArgs, OwnArgs
<1> HIDE DEF w, p, a
<1> DEFINE wp == w \o p
           au == a \o u
<1>6. wp \in Seq(Arguments) /\ au \in Seq(Arguments)
  BY <1>1, <1>2, <1>3, ConcatProperties, Zenon
<1>7. Assoc(w, p, au)
  <2> HIDE DEF au
  <2> QED BY <1>2, <1>3, <1>6, Associates
<1>8. Assoc(wp, a, u)
  <2> HIDE DEF wp
  <2> QED BY <1>1, <1>6, Associates
<1>9. wp \o a \in Seq(Arguments)
  <2> HIDE DEF wp
  <2> QED BY <1>1, <1>6, ConcatProperties, Zenon
<1> QED BY <1>4, <1>5, <1>7, <1>8, <1>9, Zenon DEF Assoc

-----------------------------------------------------------------------------
(* Steps within a directive. *)

(* A directive, with r behind its spelling and u behind its arguments.     *)
Scope(d, r, u) ==
    /\ WellFormed(d)
    /\ r \in Seq(Letters) /\ u \in Seq(Arguments)
    /\ d.conv = "missing" => r = <<>>
    /\ fmt \in Seq(Letters) /\ args \in Seq(Arguments)

(* The character at the position is the first of what is ahead. *)
LEMMA Look ==
    ASSUME NEW s \in Seq(Letters), NEW a, Stands(s, a), fmt \in Seq(Letters)
    PROVE  c = FirstOf(s) /\ pos \in Nat \ {0}
<1>1. /\ pos \in Nat \ {0} /\ pos + Len(s) = Len(fmt) + 1
      /\ \A i \in 1 .. Len(s) : s[i] = fmt[pos - 1 + i]
  BY DEF Stands, Ahead
<1>2. Len(s) \in Nat /\ Len(fmt) \in Nat
  BY LenProperties
<1>3. CASE Len(s) = 0
  BY <1>1, <1>2, <1>3 DEF c, FirstOf
<1>4. CASE Len(s) # 0
  <2>1. 1 \in 1 .. Len(s) /\ pos - 1 + 1 = pos /\ pos <= Len(fmt)
    BY <1>1, <1>2, <1>4
  <2>2. s[1] = fmt[pos]
    BY <1>1, <2>1
  <2>3. c = fmt[pos]
    BY <2>1, Zenon DEF c
  <2>4. FirstOf(s) = s[1]
    BY <1>4, Zenon DEF FirstOf
  <2> QED BY <1>1, <2>2, <2>3, <2>4, Zenon
<1> QED BY <1>1, <1>3, <1>4

(* Past the first character of what is ahead. *)
LEMMA Forth ==
    ASSUME NEW s, NEW x, NEW r, Begins(s, x, r), NEW a, Stands(s, a), fmt \in Seq(Letters)
    PROVE  c = x /\ pos \in Nat /\ Ahead(fmt, pos + 1, r)
<1>1. x \in Letters /\ r \in Seq(Letters) /\ s = <<x>> \o r
  BY DEF Begins
<1>2. Ahead(fmt, pos, <<x>> \o r)
  BY <1>1 DEF Stands
<1>3. pos \in Nat /\ pos <= Len(fmt) /\ fmt[pos] = x /\ Ahead(fmt, pos + 1, r)
  BY <1>1, <1>2, AheadStep
<1> QED BY <1>3 DEF c

(* The next argument. *)
LEMMA NextArg ==
    ASSUME NEW x \in Arguments, NEW b \in Seq(Arguments), NEW s, Stands(s, <<x>> \o b),
           args \in Seq(Arguments)
    PROVE  args[ap] = x /\ ap \in Nat /\ Ahead(args, ap + 1, b)
<1>1. Ahead(args, ap, <<x>> \o b)
  BY DEF Stands
<1> QED BY <1>1, AheadStep

(* One flag more. *)
LEMMA SeenNext ==
    ASSUME NEW d, NEW n \in Nat, NEW x
    PROVE  Seen(d, n + 1, x) = (Seen(d, n, x) \/ d.flags[n + 1] = x)
<1>1. \A i \in 1 .. n + 1 : i \in 1 .. n \/ i = n + 1
  OBVIOUS
<1>2. \A i \in 1 .. n : i \in 1 .. n + 1
  OBVIOUS
<1>3. n + 1 \in 1 .. n + 1
  OBVIOUS
<1> QED BY <1>1, <1>2, <1>3 DEF Seen

(* The sign, with one flag more. *)
LEMMA SignNext ==
    ASSUME NEW d, NEW n \in Nat, NEW x, x = d.flags[n + 1], NEW s, s = SignBy(d, n)
    PROVE  (IF x = "+" \/ (x = " " /\ s = <<>>) THEN <<x>> ELSE s) = SignBy(d, n + 1)
<1>1. /\ Seen(d, n + 1, "+") = (Seen(d, n, "+") \/ x = "+")
      /\ Seen(d, n + 1, " ") = (Seen(d, n, " ") \/ x = " ")
  <2>1. \A y : Seen(d, n + 1, y) = (Seen(d, n, y) \/ d.flags[n + 1] = y)
    BY SeenNext
  <2> QED BY <2>1, Zenon
<1>2. <<"+">> # <<>> /\ <<" ">> # <<>>
  OBVIOUS
<1>3. CASE x = "+"
  BY <1>1, <1>3, Zenon DEF SignBy
<1>4. CASE x = " "
  <2>1. x # "+"
    BY <1>4
  <2>2. CASE Seen(d, n, "+")
    BY <1>1, <1>2, <1>4, <2>1, <2>2, Zenon DEF SignBy
  <2>3. CASE ~Seen(d, n, "+") /\ Seen(d, n, " ")
    BY <1>1, <1>2, <1>4, <2>1, <2>3, Zenon DEF SignBy
  <2>4. CASE ~Seen(d, n, "+") /\ ~Seen(d, n, " ")
    BY <1>1, <1>2, <1>4, <2>1, <2>4, Zenon DEF SignBy
  <2> QED BY <2>2, <2>3, <2>4
<1>5. CASE x # "+" /\ x # " "
  BY <1>1, <1>5, Zenon DEF SignBy
<1> QED BY <1>3, <1>4, <1>5

(* Percent: nothing of the directive before is left. *)
LEMMA PercentStep ==
    ASSUME NEW d, NEW r, NEW u, Scope(d, r, u), Percent,
           Stands(<<"%">> \o AtFlags(d, r, 0), WidthArgs(d, u))
    PROVE  FlagsAt(d, r, u)'
<1> DEFINE s == AtFlags(d, r, 0)
           a == WidthArgs(d, u)
<1>1. /\ phase' = "flags" /\ length' = 0 /\ prec' = -1 /\ padc' = " "
      /\ plus_sign' = <<>> /\ altfmt' = FALSE /\ ladjust' = FALSE
      /\ pos' = pos + 1 /\ ap' = ap /\ fmt' = fmt /\ args' = args
  BY DEF Percent, Input
<1>2. s \in Seq(Letters) /\ fmt \in Seq(Letters)
  BY SpellingIs DEF Scope
<1> HIDE DEF s, a
<1>3. Begins(<<"%">> \o s, "%", s)
  BY <1>2, LettersAre DEF Begins
<1>4. Ahead(fmt, pos + 1, s)
  BY <1>2, <1>3, Forth DEF s, a
<1>5. Ahead(args, ap, a)
  BY DEF Stands, a
<1>6. Stands(s, a)'
  BY <1>1, <1>4, <1>5, Zenon DEF Stands
<1>7. \A x : Seen(d, 0, x) = FALSE
  <2>1. \A i \in 1 .. 0 : FALSE
    OBVIOUS
  <2> QED BY <2>1, Zenon DEF Seen
<1>8. FlagsRead(d, 0)' /\ LeftRead(d, 0)'
  <2>1. SignBy(d, 0) = <<>>
    BY <1>7, Zenon DEF SignBy
  <2> QED BY <1>1, <1>7, <2>1, Zenon DEF FlagsRead, LeftRead
<1>9. 0 \in 0 .. Len(d.flags)
  <2>1. Len(d.flags) \in Nat
    BY DirectiveTypes, LenProperties DEF Scope
  <2> QED BY <2>1
<1> QED BY <1>1, <1>6, <1>8, <1>9, Zenon DEF FlagsAt, s, a

(* Flag: the next one. *)
LEMMA FlagStep ==
    ASSUME NEW d, NEW r, NEW u, Scope(d, r, u), FlagsAt(d, r, u), Flag
    PROVE  FlagsAt(d, r, u)'
<1>1. PICK n \in 0 .. Len(d.flags) :
          /\ Stands(AtFlags(d, r, n), WidthArgs(d, u))
          /\ FlagsRead(d, n) /\ LeftRead(d, n)
  BY Zenon DEF FlagsAt
<1>2. length = 0 /\ prec = -1 /\ padc = " "
  BY DEF FlagsAt
<1>3. /\ phase' = phase /\ length' = length /\ prec' = prec /\ padc' = padc
      /\ pos' = pos + 1 /\ ap' = ap /\ fmt' = fmt /\ args' = args
      /\ altfmt' = (altfmt \/ c = "#")
      /\ ladjust' = (ladjust \/ c = "-")
      /\ plus_sign' = IF c = "+" \/ (c = " " /\ plus_sign = <<>>) THEN <<c>> ELSE plus_sign
      /\ c \in FlagChars /\ phase = "flags"
  BY Zenon DEF Flag, Input
<1>4. WellFormed(d) /\ r \in Seq(Letters) /\ (d.conv = "missing" => r = <<>>) /\ fmt \in Seq(Letters)
  BY DEF Scope
<1>5. Len(d.flags) \in Nat
  BY <1>4, DirectiveTypes, LenProperties
<1>6. n < Len(d.flags)
  <2> SUFFICES ASSUME n = Len(d.flags) PROVE FALSE
    BY <1>5
  <2>1. AtFlags(d, r, n) = AtZero(d, r)
    BY <1>4, FlagPart
  <2>2. AtZero(d, r) \in Seq(Letters) /\ FirstOf(AtZero(d, r)) \notin FlagChars
    BY <1>4, PartTypes, ZeroPart
  <2>3. Stands(AtZero(d, r), WidthArgs(d, u))
    BY <1>1, <2>1, Zenon
  <2>4. c = FirstOf(AtZero(d, r))
    BY <1>4, <2>2, <2>3, Look
  <2> QED BY <1>3, <2>2, <2>4
<1>7. Begins(AtFlags(d, r, n), d.flags[n + 1], AtFlags(d, r, n + 1))
  BY <1>4, <1>6, FlagPart
<1>8. c = d.flags[n + 1] /\ Ahead(fmt, pos + 1, AtFlags(d, r, n + 1))
  BY <1>1, <1>4, <1>7, Forth
<1>9. Stands(AtFlags(d, r, n + 1), WidthArgs(d, u))'
  BY <1>1, <1>3, <1>8, Zenon DEF Stands
<1>10. n \in Nat /\ n + 1 \in 0 .. Len(d.flags)
  BY <1>5, <1>6
<1>11. LeftRead(d, n + 1)'
  <2>1. Seen(d, n + 1, "-") = (Seen(d, n, "-") \/ d.flags[n + 1] = "-")
    BY <1>10, SeenNext
  <2> QED BY <1>1, <1>3, <1>8, <2>1, Zenon DEF LeftRead
<1>12. FlagsRead(d, n + 1)'
  <2>1. Seen(d, n + 1, "#") = (Seen(d, n, "#") \/ d.flags[n + 1] = "#")
    BY <1>10, SeenNext
  <2>2. altfmt' = Seen(d, n + 1, "#")
    BY <1>1, <1>3, <1>8, <2>1, Zenon DEF FlagsRead
  <2>3. plus_sign = SignBy(d, n)
    BY <1>1 DEF FlagsRead
  <2>4. plus_sign' = SignBy(d, n + 1)
    BY <1>3, <1>8, <1>10, <2>3, SignNext, Zenon
  <2> QED BY <2>2, <2>4, Zenon DEF FlagsRead
<1> QED BY <1>2, <1>3, <1>9, <1>10, <1>11, <1>12, Zenon DEF FlagsAt

(* ZeroFlag: the flags are all read. *)
LEMMA ZeroFlagStep ==
    ASSUME NEW d, NEW r, NEW u, Scope(d, r, u), FlagsAt(d, r, u), ZeroFlag
    PROVE  WidthAt(d, r, u)'
<1>1. PICK n \in 0 .. Len(d.flags) :
          /\ Stands(AtFlags(d, r, n), WidthArgs(d, u))
          /\ FlagsRead(d, n) /\ LeftRead(d, n)
  BY Zenon DEF FlagsAt
<1>2. length = 0 /\ prec = -1 /\ padc = " "
  BY DEF FlagsAt
<1>3. /\ phase' = "width" /\ length' = length /\ prec' = prec
      /\ ap' = ap /\ fmt' = fmt /\ args' = args
      /\ altfmt' = altfmt /\ ladjust' = ladjust /\ plus_sign' = plus_sign
      /\ c \notin FlagChars
      /\ c = "0" => padc' = "0" /\ pos' = pos + 1
      /\ c # "0" => padc' = padc /\ pos' = pos
  BY Zenon DEF ZeroFlag, Input
<1>4. WellFormed(d) /\ r \in Seq(Letters) /\ (d.conv = "missing" => r = <<>>) /\ fmt \in Seq(Letters)
  BY DEF Scope
<1>5. Len(d.flags) \in Nat
  BY <1>4, DirectiveTypes, LenProperties
<1>6. n = Len(d.flags)
  <2> SUFFICES ASSUME n < Len(d.flags) PROVE FALSE
    BY <1>5
  <2>1. Begins(AtFlags(d, r, n), d.flags[n + 1], AtFlags(d, r, n + 1)) /\ d.flags[n + 1] \in FlagChars
    BY <1>4, FlagPart
  <2>2. c = d.flags[n + 1]
    BY <1>1, <1>4, <2>1, Forth
  <2> QED BY <1>3, <2>1, <2>2
<1>7. AtFlags(d, r, n) = AtZero(d, r)
  BY <1>4, <1>6, FlagPart
<1>8. Stands(AtZero(d, r), WidthArgs(d, u))
  BY <1>1, <1>7, Zenon
<1>9. AtZero(d, r) \in Seq(Letters)
  BY <1>4, PartTypes
<1>10. c = FirstOf(AtZero(d, r))
  BY <1>4, <1>8, <1>9, Look
<1>11. Stands(AtWidth(d, r), WidthArgs(d, u))' /\ ZeroRead(d)'
  <2>1. CASE d.zero
    <3>1. Begins(AtZero(d, r), "0", AtWidth(d, r))
      BY <1>4, <2>1, ZeroPart
    <3>2. c = "0" /\ Ahead(fmt, pos + 1, AtWidth(d, r))
      BY <1>4, <1>8, <3>1, Forth
    <3> QED BY <1>3, <1>8, <2>1, <3>2, Zenon DEF Stands, ZeroRead
  <2>2. CASE ~d.zero
    <3>1. AtZero(d, r) = AtWidth(d, r) /\ FirstOf(AtZero(d, r)) # "0"
      BY <1>4, <2>2, ZeroPart
    <3>2. padc' = " " /\ pos' = pos
      BY <1>2, <1>3, <1>10, <3>1, Zenon
    <3> QED BY <1>3, <1>8, <2>2, <3>1, <3>2, Zenon DEF Stands, ZeroRead
  <2> QED BY <2>1, <2>2
<1>12. FlagsRead(d, Len(d.flags))' /\ LeftRead(d, Len(d.flags))'
  BY <1>1, <1>3, <1>6, Zenon DEF FlagsRead, LeftRead
<1> QED BY <1>2, <1>3, <1>11, <1>12, Zenon DEF WidthAt, AllFlagsRead

(* Flags read to the last. *)
LEMMA SeenAll ==
    ASSUME NEW d, WellFormed(d), NEW x
    PROVE  Seen(d, Len(d.flags), x) = Has(d, x)
<1>1. DOMAIN d.flags = 1 .. Len(d.flags)
  BY DirectiveTypes, LenProperties
<1>2. Has(d, x) = (\E i \in 1 .. Len(d.flags) : x = d.flags[i])
  <2> DEFINE g == d.flags
  <2>1. Has(d, x) = (x \in {g[i] : i \in DOMAIN g})
    BY Zenon DEF Has, ToSet
  <2>2. DOMAIN g = 1 .. Len(g)
    BY <1>1
  <2> HIDE DEF g
  <2>3. Has(d, x) <=> \E i \in 1 .. Len(g) : x = g[i]
    BY <2>1, <2>2, Zenon
  <2>4. Has(d, x) \in BOOLEAN
    BY DEF Has
  <2> QED BY <2>3, <2>4 DEF g
<1>3. Seen(d, Len(d.flags), x) = (\E i \in 1 .. Len(d.flags) : d.flags[i] = x)
  BY DEF Seen
<1> QED BY <1>2, <1>3

(* The side of the padding: a negative width turns it round. *)
LEMMA LeftIs ==
    ASSUME NEW d, WellFormed(d)
    PROVE  /\ ~ (d.width.n < 0) => Left(d) = Seen(d, Len(d.flags), "-")
           /\ d.width.n < 0 => Left(d) = ~Seen(d, Len(d.flags), "-")
<1>1. Seen(d, Len(d.flags), "-") = Has(d, "-")
  BY SeenAll
<1>2. Has(d, "-") \in BOOLEAN
  BY DEF Has
<1>3. Left(d) = (Has(d, "-") # (d.width.n < 0))
  BY DEF Left
<1> HIDE DEF Left, Has, Seen
<1>4. CASE d.width.n < 0
  BY <1>1, <1>2, <1>3, <1>4
<1>5. CASE ~ (d.width.n < 0)
  BY <1>1, <1>2, <1>3, <1>5
<1> QED BY <1>4, <1>5

(* The first digit of a number: the only one, or another one follows.      *)
LEMMA DigitFirst ==
    ASSUME NEW f, f.by = "digits", NEW s, FieldFronts(f, s), NEW a,
           Stands(Field(<<>>, f) \o s, a), NEW n \in 0 .. 99, f.n = n, fmt \in Seq(Letters)
    PROVE  /\ isdigit(c) /\ pos \in Nat
           /\ \/ Ctod(c) = n /\ Ahead(fmt, pos + 1, s)
              \/ /\ n >= 10 /\ Ctod(c) = n \div 10
                 /\ Ahead(fmt, pos + 1, <<lower[(n % 10) + 1]>> \o s)
<1>1. CASE n < 10
  <2>1. Begins(Field(<<>>, f) \o s, lower[n + 1], s)
    BY <1>1, Zenon DEF FieldFronts
  <2>2. c = lower[n + 1] /\ pos \in Nat /\ Ahead(fmt, pos + 1, s)
    BY <2>1, Forth
  <2>3. n \in 0 .. 9
    BY <1>1
  <2>4. isdigit(lower[n + 1]) /\ Ctod(lower[n + 1]) = n
    BY <2>3, Figure
  <2> QED BY <2>2, <2>4, Zenon
<1>2. CASE n >= 10
  <2> DEFINE m == n \div 10
             t == <<lower[(n % 10) + 1]>> \o s
  <2>1. m \in 0 .. 9
    <3>1. n \div 10 \in 1 .. 9
      BY <1>2, NumberIs
    <3> QED BY <3>1
  <2>2. Begins(Field(<<>>, f) \o s, lower[m + 1], t)
    BY <1>2, Zenon DEF FieldFronts
  <2> HIDE DEF m, t
  <2>3. c = lower[m + 1] /\ pos \in Nat /\ Ahead(fmt, pos + 1, t)
    BY <2>2, Forth
  <2>4. isdigit(lower[m + 1]) /\ Ctod(lower[m + 1]) = m
    BY <2>1, Figure
  <2> QED BY <1>2, <2>3, <2>4, Zenon DEF m, t
<1> QED BY <1>1, <1>2

(* The second one. *)
LEMMA DigitNext ==
    ASSUME NEW n \in 0 .. 99, NEW v, NEW s \in Seq(Letters), NEW a, Partly(n, v, s, a),
           FirstOf(s) \notin Figures, fmt \in Seq(Letters)
    PROVE  /\ isdigit(c) => /\ v \in Nat /\ 10 * v + Ctod(c) = n
                            /\ pos \in Nat /\ Ahead(fmt, pos + 1, s) /\ Ahead(args, ap, a)
           /\ ~isdigit(c) => v = n /\ Stands(s, a)
<1>1. CASE v = n /\ Stands(s, a)
  <2>1. c = FirstOf(s)
    BY <1>1, Look
  <2>2. ~isdigit(c)
    BY <2>1, DigitsOnly
  <2> QED BY <1>1, <2>2, Zenon
<1>2. CASE n >= 10 /\ v = n \div 10 /\ Stands(<<lower[(n % 10) + 1]>> \o s, a)
  <2> DEFINE m == n % 10
  <2>1. m \in 0 .. 9 /\ n \div 10 \in 1 .. 9 /\ n = 10 * (n \div 10) + m
    BY <1>2, NumberIs
  <2>2. Stands(<<lower[m + 1]>> \o s, a)
    BY <1>2
  <2> HIDE DEF m
  <2>3. lower[m + 1] \in Letters
    BY <2>1, Figure, LettersAre
  <2>4. Begins(<<lower[m + 1]>> \o s, lower[m + 1], s)
    BY <2>3 DEF Begins
  <2>5. c = lower[m + 1] /\ pos \in Nat /\ Ahead(fmt, pos + 1, s)
    BY <2>2, <2>4, Forth
  <2>6. isdigit(lower[m + 1]) /\ Ctod(lower[m + 1]) = m
    BY <2>1, Figure
  <2>7. isdigit(c) /\ Ctod(c) = m
    BY <2>5, <2>6, Zenon
  <2>8. 10 * v + Ctod(c) = n
    BY <1>2, <2>1, <2>7
  <2>9. Ahead(args, ap, a)
    BY <2>2, Zenon DEF Stands
  <2>10. v \in Nat
    BY <1>2, <2>1
  <2> QED BY <2>5, <2>7, <2>8, <2>9, <2>10, Zenon
<1> QED BY <1>1, <1>2, Zenon DEF Partly

(* What begins with a letter that is no digit. *)
LEMMA NoFigures ==
    ASSUME NEW x \in Ends \cup {"l"} \cup {"."}
    PROVE  x \notin Figures /\ x # "*" /\ ~isdigit(x)
<1>1. x \notin Figures /\ x # "*"
  BY DEF Ends, Figures, NumberConvs, SignedConvs
<1> QED BY <1>1, DigitsOnly

(* At the width: what the character says of its kind. *)
LEMMA AtWidthIs ==
    ASSUME NEW d, NEW r, NEW u, Scope(d, r, u), NEW a, Stands(AtWidth(d, r), a)
    PROVE  /\ isdigit(c) => d.width.by = "digits"
           /\ c = "*" => d.width.by = "star"
           /\ ~isdigit(c) /\ c # "*" => d.width.by = "none"
           /\ pos \in Nat
<1>1. WellFormed(d) /\ r \in Seq(Letters) /\ (d.conv = "missing" => r = <<>>) /\ fmt \in Seq(Letters)
  BY DEF Scope
<1>2. /\ FieldFronts(d.width, AtDot(d, r))
      /\ AtWidth(d, r) = Field(<<>>, d.width) \o AtDot(d, r)
      /\ d.width.by = "none" => FirstOf(AtWidth(d, r)) \in Ends \cup {"l", "."}
  BY <1>1, WidthPart
<1>3. AtWidth(d, r) \in Seq(Letters)
  BY <1>1, PartTypes
<1>4. c = FirstOf(AtWidth(d, r)) /\ pos \in Nat
  BY <1>1, <1>3, Look
<1>5. d.width \in Fields /\ (d.width.by = "digits" => d.width.n \in 1 .. 99)
  BY <1>1, DirectiveTypes
<1>6. CASE d.width.by = "none"
  <2>1. c \in Ends \cup {"l"} \cup {"."}
    BY <1>2, <1>4, <1>6
  <2>2. c # "*" /\ ~isdigit(c)
    BY <2>1, NoFigures
  <2> QED BY <1>4, <1>6, <2>2, Zenon
<1>7. CASE d.width.by = "star"
  <2>1. Begins(AtWidth(d, r), "*", AtDot(d, r))
    BY <1>2, <1>7, Zenon DEF FieldFronts
  <2>2. c = "*"
    BY <1>1, <2>1, Forth
  <2>3. ~isdigit("*")
    <3>1. "*" \notin Figures
      BY DEF Figures
    <3> QED BY <3>1, DigitsOnly
  <2> QED BY <1>4, <1>7, <2>2, <2>3, Zenon
<1>8. CASE d.width.by = "digits"
  <2>1. PICK n \in 0 .. 99 : d.width.n = n
    BY <1>5, <1>8
  <2>2. Stands(Field(<<>>, d.width) \o AtDot(d, r), a)
    BY <1>2, Zenon
  <2>3. isdigit(c)
    BY <1>1, <1>2, <1>8, <2>1, <2>2, DigitFirst
  <2>4. c # "*"
    <3>1. "*" \notin Figures
      BY DEF Figures
    <3> QED BY <2>3, <3>1, DigitsOnly
  <2> QED BY <1>4, <1>8, <2>3, <2>4, Zenon
<1> QED BY <1>5, <1>6, <1>7, <1>8 DEF Fields

(* WidthDigit: the first digit of the width. *)
LEMMA WidthDigitStep ==
    ASSUME NEW d, NEW r, NEW u, Scope(d, r, u), WidthAt(d, r, u), WidthDigit
    PROVE  WidthDigitsAt(d, r, u)'
<1>1. /\ Stands(AtWidth(d, r), WidthArgs(d, u))
      /\ AllFlagsRead(d) /\ LeftRead(d, Len(d.flags))
      /\ length = 0 /\ prec = -1
  BY DEF WidthAt
<1>2. /\ isdigit(c) /\ length' = 10 * length + Ctod(c)
      /\ pos' = pos + 1 /\ phase' = "width digits"
      /\ ap' = ap /\ fmt' = fmt /\ args' = args
      /\ prec' = prec /\ ladjust' = ladjust /\ padc' = padc
      /\ plus_sign' = plus_sign /\ altfmt' = altfmt
  BY DEF WidthDigit, Input
<1>3. WellFormed(d) /\ r \in Seq(Letters) /\ (d.conv = "missing" => r = <<>>) /\ fmt \in Seq(Letters)
      /\ u \in Seq(Arguments)
  BY DEF Scope
<1>4. d.width.by = "digits"
  BY <1>1, <1>2, AtWidthIs
<1>5. PICK n \in 0 .. 99 : d.width.n = n
  <2>1. d.width.n \in 1 .. 99
    BY <1>3, <1>4, DirectiveTypes
  <2> QED BY <2>1
<1>6. FieldFronts(d.width, AtDot(d, r)) /\ AtWidth(d, r) = Field(<<>>, d.width) \o AtDot(d, r)
  BY <1>3, WidthPart
<1>7. Stands(Field(<<>>, d.width) \o AtDot(d, r), WidthArgs(d, u))
  BY <1>1, <1>6, Zenon
<1>8. \/ Ctod(c) = n /\ Ahead(fmt, pos + 1, AtDot(d, r))
      \/ n >= 10 /\ Ctod(c) = n \div 10 /\ Ahead(fmt, pos + 1, <<lower[(n % 10) + 1]>> \o AtDot(d, r))
  BY <1>3, <1>4, <1>5, <1>6, <1>7, DigitFirst
<1>9. Ctod(c) \in Int
  <2>1. n \div 10 \in Int
    OBVIOUS
  <2> QED BY <1>8, <2>1
<1>10. length' = Ctod(c)
  <2>1. 10 * 0 + Ctod(c) = Ctod(c)
    BY <1>9
  <2> QED BY <1>1, <1>2, <2>1, Zenon
<1>11. WidthArgs(d, u) = PrecArgs(d, u)
  <2>1. d.width.by # "star"
    BY <1>4
  <2> QED BY <1>3, <2>1, ArgParts
<1>12. Ahead(args, ap, PrecArgs(d, u))
  BY <1>1, <1>11, Zenon DEF Stands
<1>13. Partly(d.width.n, length, AtDot(d, r), PrecArgs(d, u))'
  BY <1>2, <1>5, <1>8, <1>10, <1>12, Zenon DEF Partly, Stands
<1>14. AllFlagsRead(d)'
  BY <1>1, <1>2, Zenon DEF AllFlagsRead, FlagsRead, ZeroRead
<1>15. ladjust' = Left(d)
  <2>1. ~ (d.width.n < 0)
    BY <1>5
  <2>2. Left(d) = Seen(d, Len(d.flags), "-")
    BY <1>3, <2>1, LeftIs
  <2> QED BY <1>1, <1>2, <2>2, Zenon DEF LeftRead
<1> QED BY <1>1, <1>2, <1>4, <1>13, <1>14, <1>15, Zenon DEF WidthDigitsAt

(* WidthDigit: the second one. *)
LEMMA WidthDigitNext ==
    ASSUME NEW d, NEW r, NEW u, Scope(d, r, u), WidthDigitsAt(d, r, u), WidthDigit
    PROVE  WidthDigitsAt(d, r, u)'
<1>1. /\ d.width.by = "digits"
      /\ Partly(d.width.n, length, AtDot(d, r), PrecArgs(d, u))
      /\ AllFlagsRead(d) /\ ladjust = Left(d) /\ prec = -1
  BY DEF WidthDigitsAt
<1>2. /\ isdigit(c) /\ length' = 10 * length + Ctod(c)
      /\ pos' = pos + 1 /\ phase' = "width digits"
      /\ ap' = ap /\ fmt' = fmt /\ args' = args
      /\ prec' = prec /\ ladjust' = ladjust /\ padc' = padc
      /\ plus_sign' = plus_sign /\ altfmt' = altfmt
  BY DEF WidthDigit, Input
<1>3. WellFormed(d) /\ r \in Seq(Letters) /\ (d.conv = "missing" => r = <<>>) /\ fmt \in Seq(Letters)
  BY DEF Scope
<1>4. PICK n \in 0 .. 99 : d.width.n = n
  <2>1. d.width.n \in 1 .. 99
    BY <1>1, <1>3, DirectiveTypes
  <2> QED BY <2>1
<1>5. AtDot(d, r) \in Seq(Letters) /\ FirstOf(AtDot(d, r)) \notin Figures
  BY <1>3, PartTypes, DotPart, NoFigures
<1>6. Partly(n, length, AtDot(d, r), PrecArgs(d, u))
  BY <1>1, <1>4
<1>7. /\ 10 * length + Ctod(c) = n /\ Ahead(fmt, pos + 1, AtDot(d, r))
      /\ Ahead(args, ap, PrecArgs(d, u))
  BY <1>2, <1>3, <1>5, <1>6, DigitNext
<1>8. Partly(d.width.n, length, AtDot(d, r), PrecArgs(d, u))'
  BY <1>2, <1>4, <1>7, Zenon DEF Partly, Stands
<1>9. AllFlagsRead(d)'
  BY <1>1, <1>2, Zenon DEF AllFlagsRead, FlagsRead, ZeroRead
<1> QED BY <1>1, <1>2, <1>8, <1>9, Zenon DEF WidthDigitsAt

(* WidthStar: the argument is the width, and a negative one the other side. *)
LEMMA WidthStarStep ==
    ASSUME NEW d, NEW r, NEW u, Scope(d, r, u), WidthAt(d, r, u), WidthStar
    PROVE  DotAt(d, r, u)'
<1>1. /\ Stands(AtWidth(d, r), WidthArgs(d, u))
      /\ AllFlagsRead(d) /\ LeftRead(d, Len(d.flags))
      /\ length = 0 /\ prec = -1
  BY DEF WidthAt
<1> DEFINE n == Signed(args[ap].v)
<1>2. /\ c = "*" /\ length' = (IF n < 0 THEN -n ELSE n)
      /\ ladjust' = (IF n < 0 THEN ~ladjust ELSE ladjust)
      /\ pos' = pos + 1 /\ ap' = ap + 1 /\ phase' = "dot"
      /\ fmt' = fmt /\ args' = args
      /\ prec' = prec /\ padc' = padc
      /\ plus_sign' = plus_sign /\ altfmt' = altfmt
  BY DEF WidthStar, Input
<1>3. WellFormed(d) /\ r \in Seq(Letters) /\ (d.conv = "missing" => r = <<>>) /\ fmt \in Seq(Letters)
      /\ u \in Seq(Arguments) /\ args \in Seq(Arguments)
  BY DEF Scope
<1>4. d.width.by = "star"
  BY <1>1, <1>2, AtWidthIs
<1>5. FieldFronts(d.width, AtDot(d, r)) /\ AtWidth(d, r) = Field(<<>>, d.width) \o AtDot(d, r)
  BY <1>3, WidthPart
<1>6. Begins(AtWidth(d, r), "*", AtDot(d, r))
  BY <1>4, <1>5, Zenon DEF FieldFronts
<1>7. Ahead(fmt, pos + 1, AtDot(d, r))
  BY <1>1, <1>3, <1>6, Forth
<1> DEFINE x == Num(Pattern(d.width.n))
<1>8. /\ x \in Arguments /\ WidthArgs(d, u) = <<x>> \o PrecArgs(d, u)
      /\ Signed(x.v) = d.width.n /\ PrecArgs(d, u) \in Seq(Arguments)
  BY <1>3, <1>4, ArgParts
<1> HIDE DEF x
<1>9. args[ap] = x /\ Ahead(args, ap + 1, PrecArgs(d, u))
  <2>1. Stands(AtWidth(d, r), <<x>> \o PrecArgs(d, u))
    BY <1>1, <1>8, Zenon
  <2> QED BY <1>3, <1>8, <2>1, NextArg
<1>10. n = d.width.n
  BY <1>8, <1>9, Zenon
<1> HIDE DEF n
<1>11. Stands(AtDot(d, r), PrecArgs(d, u))'
  BY <1>2, <1>7, <1>9, Zenon DEF Stands
<1>12. length' = Wide(d)
  BY <1>2, <1>10, Zenon DEF Wide
<1>13. ladjust' = Left(d)
  <2>1. ladjust = Seen(d, Len(d.flags), "-")
    BY <1>1 DEF LeftRead
  <2>2. CASE n < 0
    <3>1. Left(d) = ~Seen(d, Len(d.flags), "-")
      BY <1>3, <1>10, <2>2, LeftIs
    <3> QED BY <1>2, <2>1, <2>2, <3>1, Zenon
  <2>3. CASE ~ (n < 0)
    <3>1. Left(d) = Seen(d, Len(d.flags), "-")
      BY <1>3, <1>10, <2>3, LeftIs
    <3> QED BY <1>2, <2>1, <2>3, <3>1, Zenon
  <2> QED BY <2>2, <2>3
<1>14. AllFlagsRead(d)'
  BY <1>1, <1>2, Zenon DEF AllFlagsRead, FlagsRead, ZeroRead
<1> QED BY <1>1, <1>2, <1>11, <1>12, <1>13, <1>14, Zenon DEF DotAt, WidthRead

(* Behind the width, however it was given. *)
WidthDone(d, r, u) ==
    /\ Stands(AtDot(d, r), PrecArgs(d, u))
    /\ AllFlagsRead(d) /\ WidthRead(d)
    /\ prec = -1

(* Dot comes when the width is read. *)
LEMMA WidthIsDone ==
    ASSUME NEW d, NEW r, NEW u, Scope(d, r, u), Dot,
           WidthAt(d, r, u) \/ WidthDigitsAt(d, r, u) \/ DotAt(d, r, u)
    PROVE  WidthDone(d, r, u)
<1>1. WellFormed(d) /\ r \in Seq(Letters) /\ (d.conv = "missing" => r = <<>>) /\ fmt \in Seq(Letters)
      /\ u \in Seq(Arguments) /\ args \in Seq(Arguments)
  BY DEF Scope
<1>2. CASE WidthAt(d, r, u)
  <2>1. /\ Stands(AtWidth(d, r), WidthArgs(d, u))
        /\ AllFlagsRead(d) /\ LeftRead(d, Len(d.flags))
        /\ length = 0 /\ prec = -1 /\ phase = "width"
    BY <1>2 DEF WidthAt
  <2>2. ~isdigit(c) /\ c # "*"
    BY <2>1 DEF Dot
  <2>3. d.width.by = "none"
    BY <2>1, <2>2, AtWidthIs
  <2>4. FieldFronts(d.width, AtDot(d, r)) /\ AtWidth(d, r) = Field(<<>>, d.width) \o AtDot(d, r)
    BY <1>1, WidthPart
  <2>5. AtWidth(d, r) = AtDot(d, r)
    BY <2>3, <2>4, Zenon DEF FieldFronts
  <2>6. WidthArgs(d, u) = PrecArgs(d, u)
    <3>1. d.width.by # "star"
      BY <2>3
    <3> QED BY <1>1, <3>1, ArgParts
  <2>7. d.width.n = 0
    BY <1>1, <2>3, DirectiveTypes
  <2>8. Left(d) = Seen(d, Len(d.flags), "-")
    <3>1. ~ (d.width.n < 0)
      BY <2>7
    <3> QED BY <1>1, <3>1, LeftIs
  <2>9. Wide(d) = 0
    BY <2>7 DEF Wide
  <2>10. WidthRead(d)
    BY <2>1, <2>8, <2>9, Zenon DEF WidthRead, LeftRead
  <2> QED BY <2>1, <2>5, <2>6, <2>10, Zenon DEF WidthDone
<1>3. CASE WidthDigitsAt(d, r, u)
  <2>1. /\ d.width.by = "digits" /\ phase = "width digits"
        /\ Partly(d.width.n, length, AtDot(d, r), PrecArgs(d, u))
        /\ AllFlagsRead(d) /\ ladjust = Left(d) /\ prec = -1
    BY <1>3 DEF WidthDigitsAt
  <2>2. ~isdigit(c)
    BY <2>1 DEF Dot
  <2>3. PICK n \in 0 .. 99 : d.width.n = n
    <3>1. d.width.n \in 1 .. 99
      BY <1>1, <2>1, DirectiveTypes
    <3> QED BY <3>1
  <2>4. AtDot(d, r) \in Seq(Letters) /\ FirstOf(AtDot(d, r)) \notin Figures
    BY <1>1, PartTypes, DotPart, NoFigures
  <2>5. Partly(n, length, AtDot(d, r), PrecArgs(d, u))
    BY <2>1, <2>3
  <2>6. length = n /\ Stands(AtDot(d, r), PrecArgs(d, u))
    BY <1>1, <2>2, <2>4, <2>5, DigitNext
  <2>7. Wide(d) = n
    BY <2>3 DEF Wide
  <2> QED BY <2>1, <2>6, <2>7, Zenon DEF WidthDone, WidthRead
<1>4. CASE DotAt(d, r, u)
  BY <1>4, Zenon DEF DotAt, WidthDone
<1> QED BY <1>2, <1>3, <1>4

(* Dot: to the precision, or past it. *)
LEMMA DotStep ==
    ASSUME NEW d, NEW r, NEW u, Scope(d, r, u), Dot,
           WidthAt(d, r, u) \/ WidthDigitsAt(d, r, u) \/ DotAt(d, r, u)
    PROVE  PrecAt(d, r, u)' \/ SizeAt(d, r, u)'
<1>1. WellFormed(d) /\ r \in Seq(Letters) /\ (d.conv = "missing" => r = <<>>) /\ fmt \in Seq(Letters)
      /\ u \in Seq(Arguments) /\ args \in Seq(Arguments)
  BY DEF Scope
<1>2. WidthDone(d, r, u)
  BY WidthIsDone, Zenon
<1>3. Stands(AtDot(d, r), PrecArgs(d, u)) /\ AllFlagsRead(d) /\ WidthRead(d) /\ prec = -1
  BY <1>2, Zenon DEF WidthDone
<1>4. /\ ap' = ap /\ fmt' = fmt /\ args' = args /\ length' = length /\ prec' = prec
      /\ ladjust' = ladjust /\ padc' = padc /\ plus_sign' = plus_sign /\ altfmt' = altfmt
      /\ c = "." => phase' = "prec" /\ pos' = pos + 1
      /\ c # "." => phase' = "size" /\ pos' = pos
  BY Zenon DEF Dot, Input, spec
<1>5. AllFlagsRead(d)' /\ WidthRead(d)' /\ prec' = -1
  BY <1>3, <1>4, Zenon DEF AllFlagsRead, FlagsRead, ZeroRead, WidthRead
<1>6. AtDot(d, r) \in Seq(Letters)
  BY <1>1, PartTypes
<1>7. c = FirstOf(AtDot(d, r))
  BY <1>1, <1>3, <1>6, Look
<1>8. CASE d.prec.by = "none"
  <2>1. AtDot(d, r) = AtSize(d, r) /\ FirstOf(AtDot(d, r)) # "."
    BY <1>1, <1>8, DotPart
  <2>2. PrecArgs(d, u) = OwnArgs(d, u)
    <3>1. d.prec.by # "star"
      BY <1>8
    <3> QED BY <1>1, <3>1, ArgParts
  <2>3. phase' = "size" /\ pos' = pos
    BY <1>4, <1>7, <2>1, Zenon
  <2>4. Stands(AtSize(d, r), OwnArgs(d, u))'
    BY <1>3, <1>4, <2>1, <2>2, <2>3, Zenon DEF Stands
  <2>5. prec' = Precision(d)
    BY <1>5, <1>8, Zenon DEF Precision
  <2> QED BY <1>5, <2>3, <2>4, <2>5, Zenon DEF SizeAt, AllRead
<1>9. CASE d.prec.by # "none"
  <2>1. Begins(AtDot(d, r), ".", Field(<<>>, d.prec) \o AtSize(d, r))
    BY <1>1, <1>9, DotPart
  <2>2. c = "." /\ Ahead(fmt, pos + 1, Field(<<>>, d.prec) \o AtSize(d, r))
    BY <1>1, <1>3, <2>1, Forth
  <2>3. Stands(Field(<<>>, d.prec) \o AtSize(d, r), PrecArgs(d, u))'
    BY <1>3, <1>4, <2>2, Zenon DEF Stands
  <2> QED BY <1>4, <1>5, <1>9, <2>2, <2>3, Zenon DEF PrecAt
<1> QED BY <1>8, <1>9

-----------------------------------------------------------------------------
(* From the precision to the conversion. *)

(* At the precision: what the character says of its kind. *)
LEMMA AtPrecIs ==
    ASSUME NEW d, NEW r, NEW u, Scope(d, r, u), NEW a, d.prec.by # "none",
           Stands(Field(<<>>, d.prec) \o AtSize(d, r), a)
    PROVE  /\ isdigit(c) => d.prec.by = "digits"
           /\ c = "*" => d.prec.by = "star"
           /\ isdigit(c) \/ c = "*"
<1>1. WellFormed(d) /\ r \in Seq(Letters) /\ (d.conv = "missing" => r = <<>>) /\ fmt \in Seq(Letters)
  BY DEF Scope
<1>2. FieldFronts(d.prec, AtSize(d, r))
  BY <1>1, DotPart
<1>3. d.prec \in Fields /\ (d.prec.by = "digits" => d.prec.n \in 0 .. 99)
  BY <1>1, DirectiveTypes
<1>4. CASE d.prec.by = "star"
  <2>1. Begins(Field(<<>>, d.prec) \o AtSize(d, r), "*", AtSize(d, r))
    BY <1>2, <1>4, Zenon DEF FieldFronts
  <2>2. c = "*"
    BY <1>1, <2>1, Forth
  <2>3. ~isdigit("*")
    <3>1. "*" \notin Figures
      BY DEF Figures
    <3> QED BY <3>1, DigitsOnly
  <2> QED BY <1>4, <2>2, <2>3, Zenon
<1>5. CASE d.prec.by = "digits"
  <2>1. PICK n \in 0 .. 99 : d.prec.n = n
    BY <1>3, <1>5
  <2>2. isdigit(c)
    BY <1>1, <1>2, <1>5, <2>1, DigitFirst
  <2>3. c # "*"
    <3>1. "*" \notin Figures
      BY DEF Figures
    <3> QED BY <2>2, <3>1, DigitsOnly
  <2> QED BY <1>5, <2>2, <2>3, Zenon
<1> QED BY <1>3, <1>4, <1>5 DEF Fields

(* PrecDigit: the first digit of the precision. *)
LEMMA PrecDigitStep ==
    ASSUME NEW d, NEW r, NEW u, Scope(d, r, u), PrecAt(d, r, u), PrecDigit
    PROVE  PrecDigitsAt(d, r, u)'
<1>1. /\ Stands(Field(<<>>, d.prec) \o AtSize(d, r), PrecArgs(d, u))
      /\ AllFlagsRead(d) /\ WidthRead(d) /\ phase = "prec" /\ d.prec.by # "none"
  BY DEF PrecAt
<1>2. /\ isdigit(c) /\ prec' = (IF phase = "prec" THEN 0 ELSE 10 * prec) + Ctod(c)
      /\ pos' = pos + 1 /\ phase' = "prec digits"
      /\ ap' = ap /\ fmt' = fmt /\ args' = args
      /\ length' = length /\ ladjust' = ladjust /\ padc' = padc
      /\ plus_sign' = plus_sign /\ altfmt' = altfmt
  BY DEF PrecDigit, Input
<1>3. WellFormed(d) /\ r \in Seq(Letters) /\ (d.conv = "missing" => r = <<>>) /\ fmt \in Seq(Letters)
      /\ u \in Seq(Arguments)
  BY DEF Scope
<1>4. d.prec.by = "digits"
  BY <1>1, <1>2, AtPrecIs
<1>5. PICK n \in 0 .. 99 : d.prec.n = n
  <2>1. d.prec.n \in 0 .. 99
    BY <1>3, <1>4, DirectiveTypes
  <2> QED BY <2>1
<1>6. FieldFronts(d.prec, AtSize(d, r))
  BY <1>3, DotPart
<1>7. \/ Ctod(c) = n /\ Ahead(fmt, pos + 1, AtSize(d, r))
      \/ n >= 10 /\ Ctod(c) = n \div 10 /\ Ahead(fmt, pos + 1, <<lower[(n % 10) + 1]>> \o AtSize(d, r))
  BY <1>1, <1>3, <1>4, <1>5, <1>6, DigitFirst
<1>8. Ctod(c) \in Int
  <2>1. n \div 10 \in Int
    OBVIOUS
  <2> QED BY <1>7, <2>1
<1>9. prec' = Ctod(c)
  <2>1. 0 + Ctod(c) = Ctod(c)
    BY <1>8
  <2> QED BY <1>1, <1>2, <2>1, Zenon
<1>10. PrecArgs(d, u) = OwnArgs(d, u)
  <2>1. d.prec.by # "star"
    BY <1>4
  <2> QED BY <1>3, <2>1, ArgParts
<1>11. Ahead(args, ap, OwnArgs(d, u))
  BY <1>1, <1>10, Zenon DEF Stands
<1>12. Partly(d.prec.n, prec, AtSize(d, r), OwnArgs(d, u))'
  BY <1>2, <1>5, <1>7, <1>9, <1>11, Zenon DEF Partly, Stands
<1>13. AllFlagsRead(d)' /\ WidthRead(d)'
  BY <1>1, <1>2, Zenon DEF AllFlagsRead, FlagsRead, ZeroRead, WidthRead
<1> QED BY <1>2, <1>4, <1>12, <1>13, Zenon DEF PrecDigitsAt

(* PrecDigit: the second one. *)
LEMMA PrecDigitNext ==
    ASSUME NEW d, NEW r, NEW u, Scope(d, r, u), PrecDigitsAt(d, r, u), PrecDigit
    PROVE  PrecDigitsAt(d, r, u)'
<1>1. /\ d.prec.by = "digits" /\ phase = "prec digits"
      /\ Partly(d.prec.n, prec, AtSize(d, r), OwnArgs(d, u))
      /\ AllFlagsRead(d) /\ WidthRead(d)
  BY DEF PrecDigitsAt
<1>2. /\ isdigit(c) /\ prec' = (IF phase = "prec" THEN 0 ELSE 10 * prec) + Ctod(c)
      /\ pos' = pos + 1 /\ phase' = "prec digits"
      /\ ap' = ap /\ fmt' = fmt /\ args' = args
      /\ length' = length /\ ladjust' = ladjust /\ padc' = padc
      /\ plus_sign' = plus_sign /\ altfmt' = altfmt
  BY DEF PrecDigit, Input
<1>3. WellFormed(d) /\ r \in Seq(Letters) /\ (d.conv = "missing" => r = <<>>) /\ fmt \in Seq(Letters)
  BY DEF Scope
<1>4. PICK n \in 0 .. 99 : d.prec.n = n
  <2>1. d.prec.n \in 0 .. 99
    BY <1>1, <1>3, DirectiveTypes
  <2> QED BY <2>1
<1>5. AtSize(d, r) \in Seq(Letters) /\ FirstOf(AtSize(d, r)) \notin Figures
  BY <1>3, PartTypes, SizePart, NoFigures
<1>6. Partly(n, prec, AtSize(d, r), OwnArgs(d, u))
  BY <1>1, <1>4
<1>7. /\ 10 * prec + Ctod(c) = n /\ Ahead(fmt, pos + 1, AtSize(d, r))
      /\ Ahead(args, ap, OwnArgs(d, u))
  BY <1>2, <1>3, <1>5, <1>6, DigitNext
<1>8. prec' = n
  <2>1. phase # "prec"
    BY <1>1
  <2> QED BY <1>2, <1>7, <2>1, Zenon
<1>9. Partly(d.prec.n, prec, AtSize(d, r), OwnArgs(d, u))'
  BY <1>2, <1>4, <1>7, <1>8, Zenon DEF Partly, Stands
<1>10. AllFlagsRead(d)' /\ WidthRead(d)'
  BY <1>1, <1>2, Zenon DEF AllFlagsRead, FlagsRead, ZeroRead, WidthRead
<1> QED BY <1>1, <1>2, <1>9, <1>10, Zenon DEF PrecDigitsAt

(* PrecStar: the argument is the precision. *)
LEMMA PrecStarStep ==
    ASSUME NEW d, NEW r, NEW u, Scope(d, r, u), PrecAt(d, r, u), PrecStar
    PROVE  SizeAt(d, r, u)'
<1>1. /\ Stands(Field(<<>>, d.prec) \o AtSize(d, r), PrecArgs(d, u))
      /\ AllFlagsRead(d) /\ WidthRead(d) /\ d.prec.by # "none"
  BY DEF PrecAt
<1>2. /\ c = "*" /\ prec' = Signed(args[ap].v)
      /\ pos' = pos + 1 /\ ap' = ap + 1 /\ phase' = "size"
      /\ fmt' = fmt /\ args' = args
      /\ length' = length /\ ladjust' = ladjust /\ padc' = padc
      /\ plus_sign' = plus_sign /\ altfmt' = altfmt
  BY DEF PrecStar, Input
<1>3. WellFormed(d) /\ r \in Seq(Letters) /\ (d.conv = "missing" => r = <<>>) /\ fmt \in Seq(Letters)
      /\ u \in Seq(Arguments) /\ args \in Seq(Arguments)
  BY DEF Scope
<1>4. d.prec.by = "star"
  BY <1>1, <1>2, AtPrecIs
<1>5. FieldFronts(d.prec, AtSize(d, r))
  BY <1>3, DotPart
<1>6. Begins(Field(<<>>, d.prec) \o AtSize(d, r), "*", AtSize(d, r))
  BY <1>4, <1>5, Zenon DEF FieldFronts
<1>7. Ahead(fmt, pos + 1, AtSize(d, r))
  BY <1>1, <1>3, <1>6, Forth
<1> DEFINE x == Num(Pattern(d.prec.n))
<1>8. /\ x \in Arguments /\ PrecArgs(d, u) = <<x>> \o OwnArgs(d, u)
      /\ Signed(x.v) = d.prec.n /\ OwnArgs(d, u) \in Seq(Arguments)
  BY <1>3, <1>4, ArgParts
<1> HIDE DEF x
<1>9. args[ap] = x /\ Ahead(args, ap + 1, OwnArgs(d, u))
  <2>1. Stands(Field(<<>>, d.prec) \o AtSize(d, r), <<x>> \o OwnArgs(d, u))
    BY <1>1, <1>8, Zenon
  <2> QED BY <1>3, <1>8, <2>1, NextArg
<1>10. prec' = d.prec.n
  BY <1>2, <1>8, <1>9, Zenon
<1>11. Precision(d) = d.prec.n
  BY <1>1, Zenon DEF Precision
<1>12. Stands(AtSize(d, r), OwnArgs(d, u))'
  BY <1>2, <1>7, <1>9, Zenon DEF Stands
<1>13. AllFlagsRead(d)' /\ WidthRead(d)'
  BY <1>1, <1>2, Zenon DEF AllFlagsRead, FlagsRead, ZeroRead, WidthRead
<1> QED BY <1>2, <1>10, <1>11, <1>12, <1>13, Zenon DEF SizeAt, AllRead

(* PrecEnd: behind the last digit.  A point is followed by a precision.    *)
LEMMA PrecEndStep ==
    ASSUME NEW d, NEW r, NEW u, Scope(d, r, u), PrecAt(d, r, u) \/ PrecDigitsAt(d, r, u), PrecEnd
    PROVE  SizeAt(d, r, u)'
<1>1. WellFormed(d) /\ r \in Seq(Letters) /\ (d.conv = "missing" => r = <<>>) /\ fmt \in Seq(Letters)
      /\ u \in Seq(Arguments) /\ args \in Seq(Arguments)
  BY DEF Scope
<1>2. /\ phase' = "size" /\ pos' = pos /\ ap' = ap /\ fmt' = fmt /\ args' = args
      /\ length' = length /\ prec' = prec /\ ladjust' = ladjust /\ padc' = padc
      /\ plus_sign' = plus_sign /\ altfmt' = altfmt
  BY DEF PrecEnd, Input, spec
<1>3. CASE PrecAt(d, r, u)
  <2>1. /\ Stands(Field(<<>>, d.prec) \o AtSize(d, r), PrecArgs(d, u))
        /\ phase = "prec" /\ d.prec.by # "none"
    BY <1>3 DEF PrecAt
  <2>2. ~isdigit(c) /\ c # "*"
    BY <2>1 DEF PrecEnd
  <2>3. isdigit(c) \/ c = "*"
    BY <2>1, AtPrecIs
  <2> QED BY <2>2, <2>3
<1>4. CASE PrecDigitsAt(d, r, u)
  <2>1. /\ d.prec.by = "digits" /\ phase = "prec digits"
        /\ Partly(d.prec.n, prec, AtSize(d, r), OwnArgs(d, u))
        /\ AllFlagsRead(d) /\ WidthRead(d)
    BY <1>4 DEF PrecDigitsAt
  <2>2. ~isdigit(c)
    BY <2>1 DEF PrecEnd
  <2>3. PICK n \in 0 .. 99 : d.prec.n = n
    <3>1. d.prec.n \in 0 .. 99
      BY <1>1, <2>1, DirectiveTypes
    <3> QED BY <3>1
  <2>4. AtSize(d, r) \in Seq(Letters) /\ FirstOf(AtSize(d, r)) \notin Figures
    BY <1>1, PartTypes, SizePart, NoFigures
  <2>5. Partly(n, prec, AtSize(d, r), OwnArgs(d, u))
    BY <2>1, <2>3
  <2>6. prec = n /\ Stands(AtSize(d, r), OwnArgs(d, u))
    BY <1>1, <2>2, <2>4, <2>5, DigitNext
  <2>7. prec = Precision(d)
    <3>1. d.prec.by # "none"
      BY <2>1
    <3> QED BY <2>3, <2>6, <3>1, Zenon DEF Precision
  <2>8. Stands(AtSize(d, r), OwnArgs(d, u))' /\ prec' = Precision(d)
    BY <1>2, <2>6, <2>7, Zenon DEF Stands
  <2>9. AllFlagsRead(d)' /\ WidthRead(d)'
    BY <1>2, <2>1, Zenon DEF AllFlagsRead, FlagsRead, ZeroRead, WidthRead
  <2> QED BY <1>2, <2>8, <2>9, Zenon DEF SizeAt, AllRead
<1> QED BY <1>3, <1>4

(* Size: the l, if there is one, is passed over. *)
LEMMA SizeStep ==
    ASSUME NEW d, NEW r, NEW u, Scope(d, r, u), SizeAt(d, r, u), Size
    PROVE  ConvAt(d, r, u)'
<1>1. WellFormed(d) /\ r \in Seq(Letters) /\ (d.conv = "missing" => r = <<>>) /\ fmt \in Seq(Letters)
  BY DEF Scope
<1>2. Stands(AtSize(d, r), OwnArgs(d, u)) /\ AllRead(d)
  BY DEF SizeAt
<1>3. /\ phase' = "conv" /\ ap' = ap /\ fmt' = fmt /\ args' = args
      /\ length' = length /\ prec' = prec /\ ladjust' = ladjust /\ padc' = padc
      /\ plus_sign' = plus_sign /\ altfmt' = altfmt
      /\ c = "l" => pos' = pos + 1
      /\ c # "l" => pos' = pos
  BY Zenon DEF Size, Input, spec
<1>4. AllRead(d)'
  BY <1>2, <1>3, Zenon DEF AllRead, AllFlagsRead, FlagsRead, ZeroRead, WidthRead
<1>5. CASE Begins(AtSize(d, r), "l", AtConv(d, r))
  <2>1. c = "l" /\ Ahead(fmt, pos + 1, AtConv(d, r))
    BY <1>1, <1>2, <1>5, Forth
  <2>2. Stands(AtConv(d, r), OwnArgs(d, u))'
    BY <1>2, <1>3, <2>1, Zenon DEF Stands
  <2> QED BY <1>3, <1>4, <2>2, Zenon DEF ConvAt
<1>6. CASE AtSize(d, r) = AtConv(d, r)
  <2>1. Stands(AtConv(d, r), OwnArgs(d, u))
    BY <1>2, <1>6, Zenon
  <2>2. AtConv(d, r) \in Seq(Letters) /\ FirstOf(AtConv(d, r)) \in Ends
    BY <1>1, PartTypes, ConvPart
  <2>3. c \in Ends
    BY <1>1, <2>1, <2>2, Look
  <2>4. c # "l"
    BY <2>3 DEF Ends, NumberConvs, SignedConvs
  <2>5. Stands(AtConv(d, r), OwnArgs(d, u))'
    BY <1>3, <2>1, <2>4, Zenon DEF Stands
  <2> QED BY <1>3, <1>4, <2>5, Zenon DEF ConvAt
<1>7. Begins(AtSize(d, r), "l", AtConv(d, r)) \/ AtSize(d, r) = AtConv(d, r)
  BY <1>1, SizePart
<1> QED BY <1>5, <1>6, <1>7

-----------------------------------------------------------------------------
(* Within a directive. *)

(* Parsing, by the part of _doprnt. *)
LEMMA ByPhase ==
    ASSUME NEW d, NEW r, NEW u, Parsing(d, r, u)
    PROVE  /\ phase \in {"flags", "width", "width digits", "dot", "prec", "prec digits", "size", "conv"}
           /\ phase = "flags" => FlagsAt(d, r, u)
           /\ phase = "width" => WidthAt(d, r, u)
           /\ phase = "width digits" => WidthDigitsAt(d, r, u)
           /\ phase = "dot" => DotAt(d, r, u)
           /\ phase = "prec" => PrecAt(d, r, u)
           /\ phase = "prec digits" => PrecDigitsAt(d, r, u)
           /\ phase = "size" => SizeAt(d, r, u)
           /\ phase = "conv" => ConvAt(d, r, u)
<1>1. /\ FlagsAt(d, r, u) => phase = "flags"
      /\ WidthAt(d, r, u) => phase = "width"
      /\ WidthDigitsAt(d, r, u) => phase = "width digits"
      /\ DotAt(d, r, u) => phase = "dot"
      /\ PrecAt(d, r, u) => phase = "prec"
      /\ PrecDigitsAt(d, r, u) => phase = "prec digits"
      /\ SizeAt(d, r, u) => phase = "size"
      /\ ConvAt(d, r, u) => phase = "conv"
  BY Zenon DEF FlagsAt, WidthAt, WidthDigitsAt, DotAt, PrecAt, PrecDigitsAt, SizeAt, ConvAt
<1>2. \/ FlagsAt(d, r, u) \/ WidthAt(d, r, u) \/ WidthDigitsAt(d, r, u) \/ DotAt(d, r, u)
      \/ PrecAt(d, r, u) \/ PrecDigitsAt(d, r, u) \/ SizeAt(d, r, u) \/ ConvAt(d, r, u)
  BY Zenon DEF Parsing
<1> HIDE DEF FlagsAt, WidthAt, WidthDigitsAt, DotAt, PrecAt, PrecDigitsAt, SizeAt, ConvAt
<1> QED BY <1>1, <1>2

(* The steps that read a directive up to its conversion. *)
Reading ==
    \/ Flag \/ ZeroFlag \/ WidthDigit \/ WidthStar
    \/ Dot \/ PrecDigit \/ PrecStar \/ PrecEnd \/ Size

(* They lead from one part of it to another, *)
LEMMA ReadingStep ==
    ASSUME NEW d, NEW r, NEW u, Scope(d, r, u), Parsing(d, r, u), Reading
    PROVE  Parsing(d, r, u)'
<1>1. CASE Flag
  <2>1. phase = "flags"
    BY <1>1 DEF Flag
  <2>2. FlagsAt(d, r, u)
    BY <2>1, ByPhase
  <2>3. FlagsAt(d, r, u)'
    BY <1>1, <2>2, FlagStep
  <2> QED BY <2>3, Zenon DEF Parsing
<1>2. CASE ZeroFlag
  <2>1. phase = "flags"
    BY <1>2 DEF ZeroFlag
  <2>2. FlagsAt(d, r, u)
    BY <2>1, ByPhase
  <2>3. WidthAt(d, r, u)'
    BY <1>2, <2>2, ZeroFlagStep
  <2> QED BY <2>3, Zenon DEF Parsing
<1>3. CASE WidthDigit
  <2>1. phase = "width" \/ phase = "width digits"
    BY <1>3 DEF WidthDigit
  <2>2. CASE phase = "width"
    <3>1. WidthAt(d, r, u)
      BY <2>2, ByPhase
    <3>2. WidthDigitsAt(d, r, u)'
      BY <1>3, <3>1, WidthDigitStep
    <3> QED BY <3>2, Zenon DEF Parsing
  <2>3. CASE phase = "width digits"
    <3>1. WidthDigitsAt(d, r, u)
      BY <2>3, ByPhase
    <3>2. WidthDigitsAt(d, r, u)'
      BY <1>3, <3>1, WidthDigitNext
    <3> QED BY <3>2, Zenon DEF Parsing
  <2> QED BY <2>1, <2>2, <2>3
<1>4. CASE WidthStar
  <2>1. phase = "width"
    BY <1>4 DEF WidthStar
  <2>2. WidthAt(d, r, u)
    BY <2>1, ByPhase
  <2>3. DotAt(d, r, u)'
    BY <1>4, <2>2, WidthStarStep
  <2> QED BY <2>3, Zenon DEF Parsing
<1>5. CASE Dot
  <2>1. phase = "width" \/ phase = "width digits" \/ phase = "dot"
    BY <1>5 DEF Dot
  <2>2. WidthAt(d, r, u) \/ WidthDigitsAt(d, r, u) \/ DotAt(d, r, u)
    BY <2>1, ByPhase
  <2>3. PrecAt(d, r, u)' \/ SizeAt(d, r, u)'
    BY <1>5, <2>2, DotStep
  <2> QED BY <2>3, Zenon DEF Parsing
<1>6. CASE PrecDigit
  <2>1. phase = "prec" \/ phase = "prec digits"
    BY <1>6 DEF PrecDigit
  <2>2. CASE phase = "prec"
    <3>1. PrecAt(d, r, u)
      BY <2>2, ByPhase
    <3>2. PrecDigitsAt(d, r, u)'
      BY <1>6, <3>1, PrecDigitStep
    <3> QED BY <3>2, Zenon DEF Parsing
  <2>3. CASE phase = "prec digits"
    <3>1. PrecDigitsAt(d, r, u)
      BY <2>3, ByPhase
    <3>2. PrecDigitsAt(d, r, u)'
      BY <1>6, <3>1, PrecDigitNext
    <3> QED BY <3>2, Zenon DEF Parsing
  <2> QED BY <2>1, <2>2, <2>3
<1>7. CASE PrecStar
  <2>1. phase = "prec"
    BY <1>7 DEF PrecStar
  <2>2. PrecAt(d, r, u)
    BY <2>1, ByPhase
  <2>3. SizeAt(d, r, u)'
    BY <1>7, <2>2, PrecStarStep
  <2> QED BY <2>3, Zenon DEF Parsing
<1>8. CASE PrecEnd
  <2>1. phase = "prec" \/ phase = "prec digits"
    BY <1>8 DEF PrecEnd
  <2>2. PrecAt(d, r, u) \/ PrecDigitsAt(d, r, u)
    BY <2>1, ByPhase
  <2>3. SizeAt(d, r, u)'
    BY <1>8, <2>2, PrecEndStep
  <2> QED BY <2>3, Zenon DEF Parsing
<1>9. CASE Size
  <2>1. phase = "size"
    BY <1>9 DEF Size
  <2>2. SizeAt(d, r, u)
    BY <2>1, ByPhase
  <2>3. ConvAt(d, r, u)'
    BY <1>9, <2>2, SizeStep
  <2> QED BY <2>3, Zenon DEF Parsing
<1> QED BY <1>1, <1>2, <1>3, <1>4, <1>5, <1>6, <1>7, <1>8, <1>9, Zenon DEF Reading

(* and nothing is put. *)
LEMMA ReadingPutsNothing ==
    ASSUME Reading
    PROVE  UNCHANGED <<Input, out>> /\ phase \notin {"text", "done"}
<1>1. ASSUME Flag PROVE UNCHANGED <<Input, out>> /\ phase \notin {"text", "done"}
  BY <1>1 DEF Flag, Input
<1>2. ASSUME ZeroFlag PROVE UNCHANGED <<Input, out>> /\ phase \notin {"text", "done"}
  BY <1>2 DEF ZeroFlag, Input
<1>3. ASSUME WidthDigit PROVE UNCHANGED <<Input, out>> /\ phase \notin {"text", "done"}
  BY <1>3 DEF WidthDigit, Input
<1>4. ASSUME WidthStar PROVE UNCHANGED <<Input, out>> /\ phase \notin {"text", "done"}
  BY <1>4 DEF WidthStar, Input
<1>5. ASSUME Dot PROVE UNCHANGED <<Input, out>> /\ phase \notin {"text", "done"}
  BY <1>5 DEF Dot, Input
<1>6. ASSUME PrecDigit PROVE UNCHANGED <<Input, out>> /\ phase \notin {"text", "done"}
  BY <1>6 DEF PrecDigit, Input
<1>7. ASSUME PrecStar PROVE UNCHANGED <<Input, out>> /\ phase \notin {"text", "done"}
  BY <1>7 DEF PrecStar, Input
<1>8. ASSUME PrecEnd PROVE UNCHANGED <<Input, out>> /\ phase \notin {"text", "done"}
  BY <1>8 DEF PrecEnd, Input
<1>9. ASSUME Size PROVE UNCHANGED <<Input, out>> /\ phase \notin {"text", "done"}
  BY <1>9 DEF Size, Input
<1> QED BY <1>1, <1>2, <1>3, <1>4, <1>5, <1>6, <1>7, <1>8, <1>9, Zenon DEF Reading

-----------------------------------------------------------------------------
(* Pieces, position by position. *)

(* A sequence made of two: what is where. *)
Halves(f, s, t) ==
    /\ Len(s) \in Nat /\ Len(t) \in Nat
    /\ Len(f) = Len(s) + Len(t)
    /\ \A i \in 1 .. Len(s) : f[i] = s[i]
    /\ \A i \in 1 .. Len(t) : f[Len(s) + i] = t[i]

(* A concatenation is made of its two. *)
LEMMA Concatenated ==
    ASSUME NEW T, NEW s \in Seq(T), NEW t \in Seq(T)
    PROVE  s \o t \in Seq(T) /\ Halves(s \o t, s, t)
<1> DEFINE q == s \o t
<1>1. Len(s) \in Nat /\ Len(t) \in Nat
  BY LenProperties
<1>2. /\ q \in Seq(T) /\ Len(q) = Len(s) + Len(t)
      /\ \A i \in 1 .. Len(s) + Len(t) : q[i] = IF i <= Len(s) THEN s[i] ELSE t[i - Len(s)]
  BY ConcatProperties, Zenon
<1> HIDE DEF q
<1>3. \A i \in 1 .. Len(s) : q[i] = s[i]
  BY <1>1, <1>2
<1>4. ASSUME NEW i \in 1 .. Len(t) PROVE q[Len(s) + i] = t[i]
  <2>1. Len(s) + i \in 1 .. Len(s) + Len(t) /\ ~ (Len(s) + i <= Len(s)) /\ (Len(s) + i) - Len(s) = i
    BY <1>1
  <2> QED BY <1>2, <2>1
<1>5. Halves(q, s, t)
  BY <1>1, <1>2, <1>3, <1>4 DEF Halves
<1> QED BY <1>2, <1>5 DEF q

(* Past the first of two sequences ahead. *)
LEMMA AheadMore ==
    ASSUME NEW T, NEW s \in Seq(T), NEW p \in Seq(T), NEW r \in Seq(T), NEW at,
           Ahead(s, at, p \o r)
    PROVE  /\ at \in Nat /\ Len(p) \in Nat
           /\ Ahead(s, at + Len(p), r)
           /\ Len(p) > 0 => s[at] = p[1]
           /\ Len(p) > 1 => s[at + 1] = p[2]
<1> DEFINE q == p \o r
<1>1. Halves(q, p, r)
  BY Concatenated
<1>2. Ahead(s, at, q)
  OBVIOUS
<1> HIDE DEF q
<1>3. /\ Len(p) \in Nat /\ Len(r) \in Nat /\ Len(q) = Len(p) + Len(r)
      /\ \A i \in 1 .. Len(p) : q[i] = p[i]
      /\ \A i \in 1 .. Len(r) : q[Len(p) + i] = r[i]
  BY <1>1 DEF Halves
<1>4. /\ at \in Nat \ {0} /\ at + Len(q) = Len(s) + 1
      /\ \A i \in 1 .. Len(q) : q[i] = s[at - 1 + i]
  BY <1>2 DEF Ahead
<1>5. Len(s) \in Nat
  BY LenProperties
<1>6. ASSUME NEW i \in 1 .. Len(r) PROVE r[i] = s[at + Len(p) - 1 + i]
  <2>1. Len(p) + i \in 1 .. Len(q) /\ at - 1 + (Len(p) + i) = at + Len(p) - 1 + i
    BY <1>3, <1>4
  <2>2. q[Len(p) + i] = s[at - 1 + (Len(p) + i)]
    BY <1>4, <2>1
  <2> QED BY <1>3, <2>1, <2>2
<1>7. at + Len(p) \in Nat \ {0} /\ (at + Len(p)) + Len(r) = Len(s) + 1
  BY <1>3, <1>4, <1>5
<1>8. Ahead(s, at + Len(p), r)
  BY <1>3, <1>6, <1>7 DEF Ahead
<1>9. ASSUME Len(p) > 0 PROVE s[at] = p[1]
  <2>1. 1 \in 1 .. Len(q) /\ 1 \in 1 .. Len(p) /\ at - 1 + 1 = at
    BY <1>3, <1>4, <1>9
  <2>2. q[1] = p[1] /\ q[1] = s[at - 1 + 1]
    BY <1>3, <1>4, <2>1
  <2> QED BY <2>1, <2>2
<1>10. ASSUME Len(p) > 1 PROVE s[at + 1] = p[2]
  <2>1. 2 \in 1 .. Len(q) /\ 2 \in 1 .. Len(p) /\ at - 1 + 2 = at + 1
    BY <1>3, <1>4, <1>10
  <2>2. q[2] = p[2] /\ q[2] = s[at - 1 + 2]
    BY <1>3, <1>4, <2>1
  <2> QED BY <2>1, <2>2
<1> QED BY <1>3, <1>4, <1>8, <1>9, <1>10

(* One character as often as said. *)
LEMMA Padded ==
    ASSUME NEW T, NEW x \in T, NEW n \in Int
    PROVE  /\ Pad(x, n) \in Seq(T)
           /\ Len(Pad(x, n)) = IF n < 0 THEN 0 ELSE n
           /\ \A i \in 1 .. Len(Pad(x, n)) : Pad(x, n)[i] = x
<1> DEFINE m == IF n < 0 THEN 0 ELSE n
           f == [i \in 1 .. m |-> x]
<1>1. m \in Nat /\ 1 .. n = 1 .. m
  OBVIOUS
<1> HIDE DEF m
<1>2. Pad(x, n) = f
  BY <1>1, Zenon DEF Pad
<1>3. f \in Seq(T) /\ Len(f) = m /\ \A i \in 1 .. m : f[i] = x
  BY <1>1
<1> HIDE DEF f
<1> QED BY <1>2, <1>3 DEF m

(* A sequence made of six: blanks, a sign, a prefix, zeros, digits, blanks. *)
Laid(f, s1, s2, s3, s4, s5, s6) ==
    /\ Len(s1) \in Nat /\ Len(s2) \in Nat /\ Len(s3) \in Nat
    /\ Len(s4) \in Nat /\ Len(s5) \in Nat /\ Len(s6) \in Nat
    /\ Len(f) = Len(s1) + Len(s2) + Len(s3) + Len(s4) + Len(s5) + Len(s6)
    /\ \A i \in 1 .. Len(s1) : f[i] = s1[i]
    /\ \A i \in 1 .. Len(s2) : f[Len(s1) + i] = s2[i]
    /\ \A i \in 1 .. Len(s3) : f[Len(s1) + Len(s2) + i] = s3[i]
    /\ \A i \in 1 .. Len(s4) : f[Len(s1) + Len(s2) + Len(s3) + i] = s4[i]
    /\ \A i \in 1 .. Len(s5) : f[Len(s1) + Len(s2) + Len(s3) + Len(s4) + i] = s5[i]
    /\ \A i \in 1 .. Len(s6) : f[Len(s1) + Len(s2) + Len(s3) + Len(s4) + Len(s5) + i] = s6[i]

(* A concatenation of six is made of them. *)
LEMMA SixParts ==
    ASSUME NEW T, NEW s1 \in Seq(T), NEW s2 \in Seq(T), NEW s3 \in Seq(T), NEW s4 \in Seq(T),
           NEW s5 \in Seq(T), NEW s6 \in Seq(T)
    PROVE  /\ s1 \o s2 \o s3 \o s4 \o s5 \o s6 \in Seq(T)
           /\ Laid(s1 \o s2 \o s3 \o s4 \o s5 \o s6, s1, s2, s3, s4, s5, s6)
<1> DEFINE q2 == s1 \o s2
           q3 == q2 \o s3
           q4 == q3 \o s4
           q5 == q4 \o s5
           q6 == q5 \o s6
<1>1. q2 \in Seq(T) /\ Halves(q2, s1, s2)
  BY Concatenated
<1> HIDE DEF q2
<1>2. q3 \in Seq(T) /\ Halves(q3, q2, s3)
  BY <1>1, Concatenated
<1> HIDE DEF q3
<1>3. q4 \in Seq(T) /\ Halves(q4, q3, s4)
  BY <1>2, Concatenated
<1> HIDE DEF q4
<1>4. q5 \in Seq(T) /\ Halves(q5, q4, s5)
  BY <1>3, Concatenated
<1> HIDE DEF q5
<1>5. q6 \in Seq(T) /\ Halves(q6, q5, s6)
  BY <1>4, Concatenated
<1> HIDE DEF q6
<1>6. /\ Len(s1) \in Nat /\ Len(s2) \in Nat /\ Len(s3) \in Nat
      /\ Len(s4) \in Nat /\ Len(s5) \in Nat /\ Len(s6) \in Nat
      /\ Len(q2) = Len(s1) + Len(s2) /\ Len(q3) = Len(q2) + Len(s3) /\ Len(q4) = Len(q3) + Len(s4)
      /\ Len(q5) = Len(q4) + Len(s5) /\ Len(q6) = Len(q5) + Len(s6)
  BY <1>1, <1>2, <1>3, <1>4, <1>5 DEF Halves
<1>7. /\ \A i \in 1 .. Len(q5) : q6[i] = q5[i]
      /\ \A i \in 1 .. Len(q4) : q5[i] = q4[i]
      /\ \A i \in 1 .. Len(q3) : q4[i] = q3[i]
      /\ \A i \in 1 .. Len(q2) : q3[i] = q2[i]
      /\ \A i \in 1 .. Len(s1) : q2[i] = s1[i]
  BY <1>1, <1>2, <1>3, <1>4, <1>5 DEF Halves
<1>8. /\ \A i \in 1 .. Len(s6) : q6[Len(q5) + i] = s6[i]
      /\ \A i \in 1 .. Len(s5) : q5[Len(q4) + i] = s5[i]
      /\ \A i \in 1 .. Len(s4) : q4[Len(q3) + i] = s4[i]
      /\ \A i \in 1 .. Len(s3) : q3[Len(q2) + i] = s3[i]
      /\ \A i \in 1 .. Len(s2) : q2[Len(s1) + i] = s2[i]
  BY <1>1, <1>2, <1>3, <1>4, <1>5 DEF Halves
<1>9. \A i \in 1 .. Len(q4) : q6[i] = q4[i]
  BY <1>6, <1>7
<1>10. \A i \in 1 .. Len(q3) : q6[i] = q3[i]
  BY <1>6, <1>7, <1>9
<1>11. \A i \in 1 .. Len(q2) : q6[i] = q2[i]
  BY <1>6, <1>7, <1>10
<1>12. /\ Len(q2) = Len(s1) + Len(s2)
       /\ Len(q3) = Len(s1) + Len(s2) + Len(s3)
       /\ Len(q4) = Len(s1) + Len(s2) + Len(s3) + Len(s4)
       /\ Len(q5) = Len(s1) + Len(s2) + Len(s3) + Len(s4) + Len(s5)
       /\ Len(q6) = Len(s1) + Len(s2) + Len(s3) + Len(s4) + Len(s5) + Len(s6)
  BY <1>6
<1>13. \A i \in 1 .. Len(s1) : q6[i] = s1[i]
  BY <1>6, <1>7, <1>11
<1>14. \A i \in 1 .. Len(s2) : q6[Len(s1) + i] = s2[i]
  BY <1>6, <1>8, <1>11
<1>15. \A i \in 1 .. Len(s3) : q6[Len(q2) + i] = s3[i]
  BY <1>6, <1>8, <1>10
<1>16. \A i \in 1 .. Len(s4) : q6[Len(q3) + i] = s4[i]
  BY <1>6, <1>8, <1>9
<1>17. \A i \in 1 .. Len(s5) : q6[Len(q4) + i] = s5[i]
  BY <1>6, <1>7, <1>8
<1>18. \A i \in 1 .. Len(s6) : q6[Len(q5) + i] = s6[i]
  BY <1>8
<1>19. Laid(q6, s1, s2, s3, s4, s5, s6)
  BY <1>6, <1>12, <1>13, <1>14, <1>15, <1>16, <1>17, <1>18, Zenon DEF Laid
<1> QED BY <1>5, <1>19 DEF q6, q5, q4, q3, q2

-----------------------------------------------------------------------------
(* The digits of a number. *)

(* A quotient by 2 or more is smaller than what was divided. *)
LEMMA Quotient ==
    ASSUME NEW base \in Nat, base >= 2, NEW v \in Nat, v >= base
    PROVE  /\ v \div base \in Nat /\ v \div base >= 1 /\ v \div base < v
           /\ v % base \in 0 .. base - 1
           /\ v = base * (v \div base) + (v % base)
<1> DEFINE q == v \div base
           r == v % base
<1>1. q \in Int /\ r \in Nat /\ r < base /\ v = base * q + r
  BY Divided
<1> HIDE DEF q, r
<1>2. q >= 1
  <2> SUFFICES ASSUME ~ (q >= 1) PROVE FALSE
    OBVIOUS
  <2> DEFINE m == -q
  <2>1. m \in Nat /\ q = -m
    BY <1>1
  <2>2. base * m \in Nat /\ base * q = -(base * m)
    BY <2>1
  <2> QED BY <1>1, <2>2
<1>3. base * q >= 2 * q
  <2> DEFINE b == base - 2
  <2>1. b \in Nat /\ base = b + 2
    OBVIOUS
  <2> HIDE DEF b
  <2>2. b * q \in Nat /\ base * q = b * q + 2 * q
    BY <1>1, <1>2, <2>1
  <2>3. base * q \in Nat
    BY <1>1, <1>2
  <2> QED BY <1>1, <1>2, <2>2, <2>3
<1>4. q < v
  BY <1>1, <1>2, <1>3
<1> QED BY <1>1, <1>2, <1>4 DEF q, r

(* One turn of the recursion in Digits, and a table of it. *)
DigitsBy(f, base, v) == IF v < base THEN <<v>> ELSE Append(f[v \div base], (v % base))
IsTable(f, base, n)  == f = [v \in 0 .. n |-> DigitsBy(f, base, v)]

(* There is a table of what the divisions give. *)
LEMMA TableExists ==
    ASSUME NEW base \in Nat, base >= 2, NEW u \in Nat
    PROVE  \E f : IsTable(f, base, u)
<1> DEFINE S == {n \in Nat : \E f : IsTable(f, base, n)}
<1>1. 0 \in S
  <2> DEFINE g == [v \in 0 .. 0 |-> <<v>>]
  <2>1. \A v \in 0 .. 0 : \A f : DigitsBy(f, base, v) = <<v>>
    BY DEF DigitsBy
  <2>2. g = [v \in 0 .. 0 |-> DigitsBy(g, base, v)]
    BY <2>1, Zenon
  <2> QED BY <2>2, Zenon DEF IsTable
<1>2. ASSUME NEW n \in Nat, n \in S PROVE n + 1 \in S
  <2>1. PICK g : IsTable(g, base, n)
    BY <1>2, Zenon
  <2> DEFINE m == n + 1
             last == DigitsBy(g, base, m)
             h == [v \in 0 .. m |-> IF v = m THEN last ELSE g[v]]
  <2>2. m \in Nat /\ m = n + 1
    OBVIOUS
  <2>3. \A v \in 0 .. n : g[v] = DigitsBy(g, base, v)
    <3>1. g = [v \in 0 .. n |-> DigitsBy(g, base, v)]
      BY <2>1, Zenon DEF IsTable
    <3> QED BY <3>1, Zenon
  <2> HIDE DEF last, m
  <2>4. /\ \A v \in 0 .. n : h[v] = g[v]
        /\ h[m] = last
    BY <2>2
  <2>5. h = [v \in 0 .. m |-> h[v]]
    OBVIOUS
  <2> HIDE DEF h
  <2>6. ASSUME NEW v \in 0 .. m PROVE DigitsBy(h, base, v) = DigitsBy(g, base, v)
    <3>1. CASE v < base
      BY <3>1, Zenon DEF DigitsBy
    <3>2. CASE ~ (v < base)
      <4>1. v \div base \in Nat /\ v \div base < v
        BY <2>2, <3>2, Quotient
      <4>2. v \div base \in 0 .. n
        BY <2>2, <4>1
      <4>3. h[v \div base] = g[v \div base]
        BY <2>4, <4>2, Zenon
      <4> QED BY <3>2, <4>3, Zenon DEF DigitsBy
    <3> QED BY <3>1, <3>2
  <2>7. ASSUME NEW v \in 0 .. m PROVE h[v] = DigitsBy(h, base, v)
    <3>1. CASE v = m
      BY <2>4, <2>6, <3>1, Zenon DEF last
    <3>2. CASE v # m
      <4>1. v \in 0 .. n
        BY <2>2, <3>2
      <4> QED BY <2>3, <2>4, <2>6, <4>1, Zenon
    <3> QED BY <3>1, <3>2
  <2>8. h = [v \in 0 .. m |-> DigitsBy(h, base, v)]
    BY <2>5, <2>7, Zenon
  <2>9. IsTable(h, base, m)
    BY <2>8, Zenon DEF IsTable
  <2> QED BY <2>2, <2>9
<1>3. Nat \subseteq S
  <2> HIDE DEF S
  <2> QED BY <1>1, <1>2, SetInduction
<1> QED BY <1>3

(* The digits ds, read in the base, are v; the first is not 0 if v is not. *)
Adds(g, ds, base) ==
    /\ g \in [0 .. Len(ds) -> Nat]
    /\ g[0] = 0
    /\ \A j \in 1 .. Len(ds) : g[j] = base * g[j - 1] + ds[j]
Spells(ds, base, v) ==
    /\ ds \in Seq(0 .. base - 1)
    /\ Len(ds) \in Nat \ {0}
    /\ v > 0 => ds[1] > 0
    /\ \E g : Adds(g, ds, base) /\ g[Len(ds)] = v

(* Below the base there is one digit. *)
LEMMA OneDigit ==
    ASSUME NEW base \in Nat, NEW v \in 0 .. base - 1
    PROVE  Spells(<<v>>, base, v)
<1> DEFINE ds == <<v>>
           g == [j \in 0 .. 1 |-> IF j = 0 THEN 0 ELSE v]
<1>1. ds \in Seq(0 .. base - 1) /\ Len(ds) = 1 /\ ds[1] = v
  OBVIOUS
<1>2. g \in [0 .. 1 -> Nat] /\ g[0] = 0 /\ g[1] = v
  OBVIOUS
<1> HIDE DEF ds, g
<1>3. \A j \in 1 .. 1 : g[j] = base * g[j - 1] + ds[j]
  <2> SUFFICES g[1] = base * g[1 - 1] + ds[1]
    <3>1. \A j \in 1 .. 1 : j = 1
      OBVIOUS
    <3> QED BY <3>1, Zenon
  <2>1. base * 0 + v = v
    OBVIOUS
  <2>2. 1 - 1 = 0
    OBVIOUS
  <2> QED BY <1>1, <1>2, <2>1, <2>2, Zenon
<1>4. Adds(g, ds, base)
  BY <1>1, <1>2, <1>3 DEF Adds
<1>5. g[Len(ds)] = v
  BY <1>1, <1>2, Zenon
<1>6. Spells(ds, base, v)
  BY <1>1, <1>4, <1>5 DEF Spells
<1> QED BY <1>6 DEF ds

(* Above it, one more than the quotient has. *)
LEMMA OneMore ==
    ASSUME NEW base \in Nat, NEW ds, NEW q \in Nat, q >= 1, Spells(ds, base, q),
           NEW r \in 0 .. base - 1, NEW v, v = base * q + r
    PROVE  Spells(Append(ds, r), base, v)
<1>1. /\ ds \in Seq(0 .. base - 1) /\ Len(ds) \in Nat \ {0} /\ ds[1] > 0
      /\ \E g : Adds(g, ds, base) /\ g[Len(ds)] = q
  BY DEF Spells
<1>2. PICK g : Adds(g, ds, base) /\ g[Len(ds)] = q
  BY <1>1
<1> DEFINE es == Append(ds, r)
           n == Len(ds)
           m == n + 1
           h == [j \in 0 .. m |-> IF j = m THEN v ELSE g[j]]
<1>3. es \in Seq(0 .. base - 1) /\ Len(es) = n + 1 /\ es[n + 1] = r /\ \A j \in 1 .. n : es[j] = ds[j]
  BY <1>1
<1> HIDE DEF es
<1>4. n \in Nat \ {0} /\ m \in Nat /\ m = n + 1 /\ g[n] = q
  BY <1>1, <1>2
<1>5. g \in [0 .. n -> Nat] /\ g[0] = 0 /\ \A j \in 1 .. n : g[j] = base * g[j - 1] + ds[j]
  BY <1>2 DEF Adds
<1> HIDE DEF n, m
<1>6. v \in Nat
  OBVIOUS
<1>7. h \in [0 .. m -> Nat] /\ h[m] = v /\ \A j \in 0 .. n : h[j] = g[j]
  BY <1>4, <1>5, <1>6
<1> HIDE DEF h
<1>8. h[0] = 0
  BY <1>4, <1>5, <1>7
<1>9. ASSUME NEW j \in 1 .. m PROVE h[j] = base * h[j - 1] + es[j]
  <2>1. CASE j = m
    <3>1. j - 1 = n /\ n \in 0 .. n
      BY <1>4, <2>1
    <3>2. h[j - 1] = q /\ es[j] = r /\ h[j] = v
      BY <1>3, <1>4, <1>7, <2>1, <3>1
    <3> QED BY <3>2, Zenon
  <2>2. CASE j # m
    <3>1. j \in 1 .. n /\ j \in 0 .. n /\ j - 1 \in 0 .. n
      BY <1>4, <2>2
    <3>2. h[j] = g[j] /\ h[j - 1] = g[j - 1] /\ es[j] = ds[j]
      BY <1>3, <1>7, <3>1, Zenon
    <3>3. g[j] = base * g[j - 1] + ds[j]
      BY <1>5, <3>1, Zenon
    <3> QED BY <3>2, <3>3, Zenon
  <2> QED BY <2>1, <2>2
<1>10. Adds(h, es, base)
  <2>1. Len(es) = m
    BY <1>3, <1>4
  <2> QED BY <1>7, <1>8, <1>9, <2>1 DEF Adds
<1>11. h[Len(es)] = v
  <2>1. Len(es) = m
    BY <1>3, <1>4
  <2> QED BY <1>7, <2>1, Zenon
<1>12. es[1] > 0
  <2>1. 1 \in 1 .. n
    BY <1>4
  <2>2. es[1] = ds[1]
    BY <1>3, <2>1
  <2> QED BY <1>1, <2>2
<1>13. Len(es) \in Nat \ {0}
  BY <1>3, <1>4
<1>14. Spells(es, base, v)
  BY <1>3, <1>10, <1>11, <1>12, <1>13, Zenon DEF Spells
<1> QED BY <1>14 DEF es

(* Digits: the divisions leave the digits of the number. *)
LEMMA DigitsSpell ==
    ASSUME NEW base \in Nat, base >= 2, NEW u \in Nat
    PROVE  Spells(Digits(u, base), base, u)
<1> DEFINE F == CHOOSE f : f = [v \in 0 .. u |-> IF v < base THEN <<v>> ELSE Append(f[v \div base], (v % base))]
<1>1. Digits(u, base) = F[u]
  BY Zenon DEF Digits
<1>2. F = [v \in 0 .. u |-> IF v < base THEN <<v>> ELSE Append(F[v \div base], (v % base))]
  <2>1. \E f : IsTable(f, base, u)
    BY TableExists
  <2>2. \E f : f = [v \in 0 .. u |-> IF v < base THEN <<v>> ELSE Append(f[v \div base], (v % base))]
    BY <2>1, Zenon DEF IsTable, DigitsBy
  <2> QED BY <2>2, Zenon
<1>3. \A v \in 0 .. u : F[v] = IF v < base THEN <<v>> ELSE Append(F[v \div base], (v % base))
  BY <1>2, Zenon
<1> HIDE DEF F
<1> DEFINE S == {n \in Nat : \A v \in 0 .. n : v <= u => Spells(F[v], base, v)}
<1>4. ASSUME NEW v \in 0 .. u, \A q \in 0 .. v - 1 : Spells(F[q], base, q)
      PROVE  Spells(F[v], base, v)
  <2>1. CASE v < base
    <3>1. v \in 0 .. base - 1
      BY <2>1
    <3>2. F[v] = <<v>>
      BY <1>3, <2>1, Zenon
    <3>3. Spells(<<v>>, base, v)
      BY <3>1, OneDigit
    <3> QED BY <3>2, <3>3, Zenon
  <2>2. CASE ~ (v < base)
    <3> DEFINE q == v \div base
               r == v % base
    <3>1. /\ q \in Nat /\ q >= 1 /\ q < v /\ r \in 0 .. base - 1 /\ v = base * q + r
      <4>1. v \in Nat /\ v >= base
        BY <2>2
      <4>2. /\ v \div base \in Nat /\ v \div base >= 1 /\ v \div base < v
            /\ v % base \in 0 .. base - 1
            /\ v = base * (v \div base) + (v % base)
        BY <4>1, Quotient
      <4> QED BY <4>2, Zenon
    <3>2. F[v] = Append(F[q], r)
      BY <1>3, <2>2, Zenon
    <3> HIDE DEF q, r
    <3>3. q \in 0 .. v - 1
      BY <3>1
    <3>4. Spells(F[q], base, q)
      BY <1>4, <3>3, Zenon
    <3>5. Spells(Append(F[q], r), base, v)
      <4>1. PICK ds : ds = F[q]
        OBVIOUS
      <4>2. Spells(ds, base, q)
        BY <3>4, <4>1, Zenon
      <4>3. Spells(Append(ds, r), base, v)
        BY <3>1, <4>2, OneMore
      <4> QED BY <4>1, <4>3, Zenon
    <3> QED BY <3>2, <3>5, Zenon
  <2> QED BY <2>1, <2>2
<1>5. 0 \in S
  <2>1. 0 \in 0 .. u /\ \A q \in 0 .. 0 - 1 : FALSE
    OBVIOUS
  <2>2. Spells(F[0], base, 0)
    BY <1>4, <2>1
  <2>3. \A v \in 0 .. 0 : v = 0
    OBVIOUS
  <2>4. \A v \in 0 .. 0 : v <= u => Spells(F[v], base, v)
    BY <2>2, <2>3, Zenon
  <2> QED BY <2>4
<1>6. ASSUME NEW n \in Nat, n \in S PROVE n + 1 \in S
  <2>1. \A v \in 0 .. n : v <= u => Spells(F[v], base, v)
    BY <1>6
  <2>2. ASSUME NEW v \in 0 .. n + 1, v <= u PROVE Spells(F[v], base, v)
    <3>1. v \in 0 .. u
      BY <2>2
    <3>2. \A q \in 0 .. v - 1 : q \in 0 .. n /\ q <= u
      BY <2>2
    <3>3. \A q \in 0 .. v - 1 : Spells(F[q], base, q)
      BY <2>1, <3>2, Zenon
    <3> QED BY <1>4, <3>1, <3>3, Zenon
  <2> QED BY <2>2
<1>7. Nat \subseteq S
  <2> HIDE DEF S
  <2> QED BY <1>5, <1>6, SetInduction
<1>8. u \in 0 .. u /\ u <= u
  OBVIOUS
<1>9. Spells(F[u], base, u)
  BY <1>7, <1>8
<1> QED BY <1>1, <1>9, Zenon

-----------------------------------------------------------------------------
(* What a reader of a piece makes of it. *)

(* The figures as they are written in capitals. *)
LEMMA UpperIs ==
    /\ \A i \in 1 .. 10 : upper[i] = lower[i]
    /\ upper[11] = "A" /\ upper[12] = "B" /\ upper[13] = "C"
    /\ upper[14] = "D" /\ upper[15] = "E" /\ upper[16] = "F"
<1> DEFINE T == {"0", "1", "2", "3", "4", "5", "6", "7", "8", "9", "A", "B", "C", "D", "E", "F"}
           s == SubSeq(lower, 1, 10)
           t == <<"A", "B", "C", "D", "E", "F">>
<1>1. \A i \in 1 .. 10 : lower[i] \in T
  BY LowerIs
<1>2. s \in Seq(T) /\ Len(s) = 10 /\ \A i \in 1 .. 10 : s[i] = lower[i]
  <2> HIDE DEF T
  <2>1. /\ s \in Seq(T) /\ Len(s) = IF 1 <= 10 THEN 10 - 1 + 1 ELSE 0
        /\ \A i \in 1 .. 10 - 1 + 1 : s[i] = lower[1 + i - 1]
    BY <1>1, SubSeqProperties
  <2> QED BY <2>1
<1>3. /\ t \in Seq(T) /\ t[1] = "A" /\ t[2] = "B" /\ t[3] = "C" /\ t[4] = "D" /\ t[5] = "E"
      /\ t[6] = "F" /\ Len(t) = 6
  OBVIOUS
<1>4. upper = s \o t
  BY Zenon DEF upper
<1> HIDE DEF s, t, T
<1>5. Halves(upper, s, t)
  BY <1>2, <1>3, <1>4, Concatenated
<1>6. (\A i \in 1 .. 10 : upper[i] = s[i]) /\ (\A i \in 1 .. 6 : upper[10 + i] = t[i])
  BY <1>2, <1>3, <1>5, Zenon DEF Halves
<1>7. \A i \in 1 .. 10 : upper[i] = lower[i]
  BY <1>2, <1>6
<1>8. /\ 10 + 1 = 11 /\ 10 + 2 = 12 /\ 10 + 3 = 13 /\ 10 + 4 = 14 /\ 10 + 5 = 15 /\ 10 + 6 = 16
      /\ 1 \in 1 .. 6 /\ 2 \in 1 .. 6 /\ 3 \in 1 .. 6 /\ 4 \in 1 .. 6 /\ 5 \in 1 .. 6 /\ 6 \in 1 .. 6
  OBVIOUS
<1>9. /\ upper[11] = t[1] /\ upper[12] = t[2] /\ upper[13] = t[3]
      /\ upper[14] = t[4] /\ upper[15] = t[5] /\ upper[16] = t[6]
  BY <1>6, <1>8, ZenonT(40)
<1> QED BY <1>3, <1>7, <1>9, Zenon

(* No two figures look alike. *)
LEMMA Unlike ==
    /\ \A i, j \in 1 .. 16 : lower[i] = lower[j] => i = j
    /\ \A i, j \in 1 .. 16 : upper[i] = upper[j] => i = j
    /\ \A i, j \in 1 .. 16 : lower[i] = upper[j] => i = j
    /\ \A i \in 1 .. 16 : lower[i] \notin {" ", "+", "-", "x"} /\ upper[i] \notin {" ", "+", "-", "x"}
<1>1. /\ upper[1] = "0" /\ upper[2] = "1" /\ upper[3] = "2" /\ upper[4] = "3"
      /\ upper[5] = "4" /\ upper[6] = "5" /\ upper[7] = "6" /\ upper[8] = "7"
      /\ upper[9] = "8" /\ upper[10] = "9" /\ upper[11] = "A" /\ upper[12] = "B"
      /\ upper[13] = "C" /\ upper[14] = "D" /\ upper[15] = "E" /\ upper[16] = "F"
  BY UpperIs, LowerIs
<1>2. ASSUME NEW i \in 1 .. 16
      PROVE  \/ i = 1 \/ i = 2 \/ i = 3 \/ i = 4 \/ i = 5 \/ i = 6 \/ i = 7 \/ i = 8
             \/ i = 9 \/ i = 10 \/ i = 11 \/ i = 12 \/ i = 13 \/ i = 14 \/ i = 15 \/ i = 16
  OBVIOUS
<1>3. \A i, j \in 1 .. 16 : lower[i] = lower[j] => i = j
  <2> SUFFICES ASSUME NEW i \in 1 .. 16, NEW j \in 1 .. 16, lower[i] = lower[j] PROVE i = j
    OBVIOUS
  <2> QED BY <1>2, LowerIs
<1>4. \A i, j \in 1 .. 16 : upper[i] = upper[j] => i = j
  <2> SUFFICES ASSUME NEW i \in 1 .. 16, NEW j \in 1 .. 16, upper[i] = upper[j] PROVE i = j
    OBVIOUS
  <2> QED BY <1>1, <1>2
<1>5. \A i, j \in 1 .. 16 : lower[i] = upper[j] => i = j
  <2> SUFFICES ASSUME NEW i \in 1 .. 16, NEW j \in 1 .. 16, lower[i] = upper[j] PROVE i = j
    OBVIOUS
  <2> QED BY <1>1, <1>2, LowerIs
<1>6. ASSUME NEW i \in 1 .. 16 PROVE lower[i] \notin {" ", "+", "-", "x"} /\ upper[i] \notin {" ", "+", "-", "x"}
  BY <1>1, <1>2, LowerIs
<1> QED BY <1>3, <1>4, <1>5, <1>6

(* A figure is read as what it was written for, and nothing else is one.   *)
LEMMA FigureRead ==
    ASSUME NEW n \in 0 .. 15, NEW x \in {lower[n + 1], upper[n + 1]}
    PROVE  IsFigure(x) /\ FigureOf(x) = n /\ x \notin {" ", "+", "-", "x"} /\ (n > 0 => x # "0")
<1>1. n + 1 \in 1 .. 16 /\ (n + 1) - 1 = n
  OBVIOUS
<1>2. IsFigure(x)
  BY <1>1, Zenon DEF IsFigure
<1> DEFINE k == CHOOSE i \in 1 .. 16 : x \in {lower[i], upper[i]}
<1>3. k \in 1 .. 16 /\ x \in {lower[k], upper[k]}
  BY <1>1, Zenon
<1>4. FigureOf(x) = k - 1
  BY Zenon DEF FigureOf
<1> HIDE DEF k
<1>5. k = n + 1
  <2>1. x = lower[k] \/ x = upper[k]
    BY <1>3
  <2>2. x = lower[n + 1] \/ x = upper[n + 1]
    OBVIOUS
  <2>3. \/ lower[k] = lower[n + 1] \/ upper[k] = upper[n + 1]
        \/ lower[k] = upper[n + 1] \/ lower[n + 1] = upper[k]
    BY <2>1, <2>2, Zenon
  <2> QED BY <1>1, <1>3, <2>3, Unlike
<1>6. x \notin {" ", "+", "-", "x"}
  BY <1>1, Unlike
<1>7. ASSUME n > 0, x = "0" PROVE FALSE
  <2>1. lower[1] = "0" /\ 1 \in 1 .. 16
    BY LowerIs
  <2>2. \/ lower[1] = lower[n + 1] \/ lower[1] = upper[n + 1]
    BY <1>7, <2>1
  <2>3. 1 = n + 1
    BY <1>1, <2>1, <2>2, Unlike
  <2> QED BY <1>7, <2>3
<1> QED BY <1>1, <1>2, <1>4, <1>5, <1>6, <1>7

(* Blanks, signs and the x are no figures, and 0 is the figure 0. *)
LEMMA MarksRead ==
    /\ \A x \in {" ", "+", "-", "x"} : ~IsFigure(x)
    /\ IsFigure("0") /\ FigureOf("0") = 0
<1>1. ASSUME NEW x \in {" ", "+", "-", "x"}, IsFigure(x) PROVE FALSE
  <2>1. PICK k \in 1 .. 16 : x \in {lower[k], upper[k]}
    BY <1>1 DEF IsFigure
  <2> QED BY <1>1, <2>1, Unlike
<1>2. IsFigure("0") /\ FigureOf("0") = 0
  <2>1. "0" \in {lower[0 + 1], upper[0 + 1]} /\ 0 \in 0 .. 15
    BY LowerIs
  <2>2. \A x \in {lower[0 + 1], upper[0 + 1]} : IsFigure(x) /\ FigureOf(x) = 0
    BY <2>1, FigureRead
  <2> QED BY <2>1, <2>2, Zenon
<1> QED BY <1>1, <1>2

(* What is read of the first characters of f. *)
Reads(f, base, h) ==
    /\ h \in [0 .. Len(f) -> Nat]
    /\ h[0] = 0
    /\ \A i \in 1 .. Len(f) :
          h[i] = IF IsFigure(f[i]) THEN base * h[i - 1] + FigureOf(f[i]) ELSE h[i - 1]

(* One turn of the recursion in Shown. *)
ReadBy(f, base, h, i) ==
    IF i = 0 THEN 0 ELSE IF IsFigure(f[i]) THEN base * h[i - 1] + FigureOf(f[i]) ELSE h[i - 1]

(* There is a table of what is read up to each position. *)
LEMMA ReadExists ==
    ASSUME NEW f, NEW base, NEW u \in Nat
    PROVE  \E h : h = [i \in 0 .. u |-> ReadBy(f, base, h, i)]
<1> DEFINE S == {n \in Nat : \E h : h = [i \in 0 .. n |-> ReadBy(f, base, h, i)]}
<1>1. 0 \in S
  <2> DEFINE g == [i \in 0 .. 0 |-> 0]
  <2>1. \A i \in 0 .. 0 : i = 0
    OBVIOUS
  <2>2. \A i \in 0 .. 0 : ReadBy(f, base, g, i) = 0
    BY <2>1, Zenon DEF ReadBy
  <2>3. g = [i \in 0 .. 0 |-> ReadBy(f, base, g, i)]
    BY <2>2, Zenon
  <2> QED BY <2>3, Zenon
<1>2. ASSUME NEW n \in Nat, n \in S PROVE n + 1 \in S
  <2>1. PICK g : g = [i \in 0 .. n |-> ReadBy(f, base, g, i)]
    BY <1>2, Zenon
  <2> DEFINE m == n + 1
             last == ReadBy(f, base, g, m)
             h == [i \in 0 .. m |-> IF i = m THEN last ELSE g[i]]
  <2>2. m \in Nat /\ m = n + 1
    OBVIOUS
  <2>3. \A i \in 0 .. n : g[i] = ReadBy(f, base, g, i)
    BY <2>1, Zenon
  <2> HIDE DEF last, m
  <2>4. /\ \A i \in 0 .. n : h[i] = g[i]
        /\ h[m] = last
    <3> HIDE <2>1
    <3> QED BY <2>2
  <2>5. h = [i \in 0 .. m |-> h[i]]
    BY Zenon
  <2> HIDE DEF h
  <2>6. ASSUME NEW i \in 0 .. m PROVE ReadBy(f, base, h, i) = ReadBy(f, base, g, i)
    <3>1. CASE i = 0
      BY <3>1, Zenon DEF ReadBy
    <3>2. CASE i # 0
      <4>1. i - 1 \in 0 .. n
        BY <2>2, <3>2
      <4>2. h[i - 1] = g[i - 1]
        BY <2>4, <4>1, Zenon
      <4> QED BY <3>2, <4>2, Zenon DEF ReadBy
    <3> QED BY <3>1, <3>2
  <2>7. ASSUME NEW i \in 0 .. m PROVE h[i] = ReadBy(f, base, h, i)
    <3>1. CASE i = m
      BY <2>4, <2>6, <3>1, Zenon DEF last
    <3>2. CASE i # m
      <4>1. i \in 0 .. n
        BY <2>2, <3>2
      <4> QED BY <2>3, <2>4, <2>6, <4>1, Zenon
    <3> QED BY <3>1, <3>2
  <2>8. h = [i \in 0 .. m |-> ReadBy(f, base, h, i)]
    BY <2>5, <2>7, Zenon
  <2> QED BY <2>2, <2>8
<1>3. Nat \subseteq S
  <2> HIDE DEF S
  <2> QED BY <1>1, <1>2, SetInduction
<1> QED BY <1>3

(* Shown: the number read to the end, with the sign that is anywhere. *)
LEMMA ShownIs ==
    ASSUME NEW f, Len(f) \in Nat, NEW base \in Nat
    PROVE  \E h : /\ Reads(f, base, h)
                  /\ Shown(f, base) = IF \E i \in DOMAIN f : f[i] = "-" THEN -h[Len(f)] ELSE h[Len(f)]
<1> DEFINE H == CHOOSE h : h = [i \in 0 .. Len(f) |->
                    IF i = 0 THEN 0
                    ELSE IF IsFigure(f[i]) THEN base * h[i - 1] + FigureOf(f[i])
                    ELSE h[i - 1]]
<1>1. Shown(f, base) = IF \E i \in DOMAIN f : f[i] = "-" THEN -H[Len(f)] ELSE H[Len(f)]
  BY Zenon DEF Shown
<1>2. H = [i \in 0 .. Len(f) |-> ReadBy(f, base, H, i)]
  <2>1. \E h : h = [i \in 0 .. Len(f) |-> ReadBy(f, base, h, i)]
    BY ReadExists
  <2> QED BY <2>1, Zenon DEF ReadBy
<1>3. \A i \in 0 .. Len(f) : H[i] = ReadBy(f, base, H, i)
  BY <1>2, Zenon
<1>4. H = [i \in 0 .. Len(f) |-> H[i]]
  BY <1>2, <1>3, Zenon
<1> HIDE DEF H
<1>5. H[0] = 0
  <2>1. 0 \in 0 .. Len(f)
    OBVIOUS
  <2> QED BY <1>3, <2>1, Zenon DEF ReadBy
<1>6. ASSUME NEW i \in 1 .. Len(f)
      PROVE  H[i] = IF IsFigure(f[i]) THEN base * H[i - 1] + FigureOf(f[i]) ELSE H[i - 1]
  <2>1. i \in 0 .. Len(f) /\ i # 0
    OBVIOUS
  <2> QED BY <1>3, <2>1, Zenon DEF ReadBy
<1> DEFINE S == {n \in Nat : n <= Len(f) => H[n] \in Nat}
<1>7. 0 \in S
  BY <1>5
<1>8. ASSUME NEW n \in Nat, n \in S PROVE n + 1 \in S
  <2> DEFINE m == n + 1
  <2> SUFFICES ASSUME m <= Len(f) PROVE H[m] \in Nat
    OBVIOUS
  <2>1. m \in 1 .. Len(f) /\ m - 1 = n /\ H[n] \in Nat
    BY <1>8
  <2> HIDE DEF m
  <2>2. H[m] = IF IsFigure(f[m]) THEN base * H[n] + FigureOf(f[m]) ELSE H[n]
    BY <1>6, <2>1
  <2>3. IsFigure(f[m]) => FigureOf(f[m]) \in Nat
    <3> DEFINE k == CHOOSE i \in 1 .. 16 : f[m] \in {lower[i], upper[i]}
    <3>1. IsFigure(f[m]) => k \in 1 .. 16
      BY Zenon DEF IsFigure
    <3>2. FigureOf(f[m]) = k - 1
      BY Zenon DEF FigureOf
    <3> HIDE DEF k
    <3> QED BY <3>1, <3>2
  <2>4. base * H[n] \in Nat
    BY <2>1
  <2> QED BY <2>1, <2>2, <2>3, <2>4
<1>9. Nat \subseteq S
  <2> HIDE DEF S
  <2> QED BY <1>7, <1>8, SetInduction
<1>10. \A i \in 0 .. Len(f) : H[i] \in Nat
  BY <1>9
<1>11. H \in [0 .. Len(f) -> Nat]
  BY <1>4, <1>10
<1>12. Reads(f, base, H)
  BY <1>5, <1>6, <1>11 DEF Reads
<1> QED BY <1>1, <1>12, Zenon

(* A piece around its digits: m characters before them, and blanks behind. *)
Quiet(f, m)        == \A i \in 1 .. m : f[i] \in {" ", "+", "-", "x", "0"}
Blank(f, m)        == \A i \in m + 1 .. Len(f) : f[i] = " "
Figured(f, m, ds)  == \A j \in 1 .. Len(ds) : IsFigure(f[m + j]) /\ FigureOf(f[m + j]) = ds[j]

(* Before the digits nothing is read but zeros, *)
LEMMA ReadBefore ==
    ASSUME NEW f, Len(f) \in Nat, NEW base \in Nat, NEW h, Reads(f, base, h),
           NEW m \in 0 .. Len(f), Quiet(f, m)
    PROVE  h[m] = 0
<1>1. /\ h[0] = 0
      /\ \A i \in 1 .. Len(f) :
             h[i] = IF IsFigure(f[i]) THEN base * h[i - 1] + FigureOf(f[i]) ELSE h[i - 1]
  BY DEF Reads
<1> DEFINE S == {n \in Nat : n <= m => h[n] = 0}
<1>2. 0 \in S
  BY <1>1
<1>3. ASSUME NEW n \in Nat, n \in S PROVE n + 1 \in S
  <2> DEFINE k == n + 1
  <2> SUFFICES ASSUME k <= m PROVE h[k] = 0
    OBVIOUS
  <2>1. k \in 1 .. Len(f) /\ k \in 1 .. m /\ k - 1 = n /\ h[n] = 0
    BY <1>3
  <2> HIDE DEF k
  <2>2. h[k] = IF IsFigure(f[k]) THEN base * h[n] + FigureOf(f[k]) ELSE h[n]
    BY <1>1, <2>1
  <2>3. f[k] \in {" ", "+", "-", "x"} \/ f[k] = "0"
    <3>1. f[k] \in {" ", "+", "-", "x", "0"}
      BY <2>1, Zenon DEF Quiet
    <3> QED BY <3>1, Zenon
  <2>4. CASE f[k] = "0"
    <3>1. IsFigure(f[k]) /\ FigureOf(f[k]) = 0
      BY <2>4, MarksRead
    <3>2. base * 0 + 0 = 0
      OBVIOUS
    <3> QED BY <2>1, <2>2, <3>1, <3>2, Zenon
  <2>5. CASE f[k] \in {" ", "+", "-", "x"}
    <3>1. ~IsFigure(f[k])
      BY <2>5, MarksRead
    <3> QED BY <2>1, <2>2, <3>1, Zenon
  <2> QED BY <2>3, <2>4, <2>5
<1>4. Nat \subseteq S
  <2> HIDE DEF S
  <2> QED BY <1>2, <1>3, SetInduction
<1>5. m \in Nat /\ m <= m
  OBVIOUS
<1> QED BY <1>4, <1>5

(* of the digits what they spell, *)
LEMMA ReadDigits ==
    ASSUME NEW f, Len(f) \in Nat, NEW base \in Nat, NEW h, Reads(f, base, h),
           NEW ds, NEW g, Adds(g, ds, base), Len(ds) \in Nat,
           NEW m \in Nat, m + Len(ds) <= Len(f), h[m] = 0,
           Figured(f, m, ds)
    PROVE  h[m + Len(ds)] = g[Len(ds)]
<1>1. \A i \in 1 .. Len(f) :
          h[i] = IF IsFigure(f[i]) THEN base * h[i - 1] + FigureOf(f[i]) ELSE h[i - 1]
  BY DEF Reads
<1>2. g[0] = 0 /\ \A j \in 1 .. Len(ds) : g[j] = base * g[j - 1] + ds[j]
  BY DEF Adds
<1> DEFINE S == {n \in Nat : n <= Len(ds) => h[m + n] = g[n]}
<1>3. 0 \in S
  <2>1. m + 0 = m
    OBVIOUS
  <2> QED BY <1>2, <2>1
<1>4. ASSUME NEW n \in Nat, n \in S PROVE n + 1 \in S
  <2> DEFINE k == n + 1
             i == m + k
  <2> SUFFICES ASSUME k <= Len(ds) PROVE h[m + k] = g[k]
    OBVIOUS
  <2>1. k \in 1 .. Len(ds) /\ k - 1 = n /\ i \in 1 .. Len(f) /\ i - 1 = m + n /\ h[m + n] = g[n]
    BY <1>4
  <2>2. IsFigure(f[i]) /\ FigureOf(f[i]) = ds[k]
    BY <2>1, Zenon DEF Figured
  <2> HIDE DEF k, i
  <2>3. h[i] = base * h[i - 1] + FigureOf(f[i])
    BY <1>1, <2>1, <2>2, Zenon
  <2>4. g[k] = base * g[k - 1] + ds[k]
    BY <1>2, <2>1, Zenon
  <2>5. h[i] = g[k]
    BY <2>1, <2>2, <2>3, <2>4, Zenon
  <2> QED BY <2>5 DEF i
<1>5. Nat \subseteq S
  <2> HIDE DEF S
  <2> QED BY <1>3, <1>4, SetInduction
<1> QED BY <1>5

(* and behind them nothing. *)
LEMMA ReadBehind ==
    ASSUME NEW f, Len(f) \in Nat, NEW base \in Nat, NEW h, Reads(f, base, h),
           NEW m \in 0 .. Len(f), Blank(f, m)
    PROVE  h[Len(f)] = h[m]
<1>1. \A i \in 1 .. Len(f) :
          h[i] = IF IsFigure(f[i]) THEN base * h[i - 1] + FigureOf(f[i]) ELSE h[i - 1]
  BY DEF Reads
<1> DEFINE S == {n \in Nat : m + n <= Len(f) => h[m + n] = h[m]}
<1>2. 0 \in S
  <2>1. m + 0 = m
    OBVIOUS
  <2> QED BY <2>1
<1>3. ASSUME NEW n \in Nat, n \in S PROVE n + 1 \in S
  <2> DEFINE i == m + (n + 1)
  <2> SUFFICES ASSUME i <= Len(f) PROVE h[i] = h[m]
    OBVIOUS
  <2>1. i \in 1 .. Len(f) /\ i \in m + 1 .. Len(f) /\ i - 1 = m + n /\ h[m + n] = h[m]
    BY <1>3
  <2> HIDE DEF i
  <2>2. ~IsFigure(f[i])
    <3>1. f[i] = " "
      BY <2>1, Zenon DEF Blank
    <3> QED BY <3>1, MarksRead
  <2> QED BY <1>1, <2>1, <2>2, Zenon
<1>4. Nat \subseteq S
  <2> HIDE DEF S
  <2> QED BY <1>2, <1>3, SetInduction
<1>5. Len(f) - m \in Nat /\ m + (Len(f) - m) = Len(f)
  OBVIOUS
<1>6. Len(f) - m \in S
  BY <1>4, <1>5
<1> HIDE DEF S
<1>7. m + (Len(f) - m) <= Len(f) => h[m + (Len(f) - m)] = h[m]
  BY <1>6, Zenon DEF S
<1> QED BY <1>5, <1>7

(* A piece with the digits of v from position m on shows v. *)
LEMMA ReadsNumber ==
    ASSUME NEW f, Len(f) \in Nat, NEW base \in Nat, NEW ds, NEW v \in Nat, Spells(ds, base, v),
           NEW m \in Nat, m + Len(ds) <= Len(f),
           Quiet(f, m), Figured(f, m, ds), Blank(f, m + Len(ds))
    PROVE  Shown(f, base) = IF \E i \in DOMAIN f : f[i] = "-" THEN -v ELSE v
<1>1. PICK h : /\ Reads(f, base, h)
               /\ Shown(f, base) = IF \E i \in DOMAIN f : f[i] = "-" THEN -h[Len(f)] ELSE h[Len(f)]
  BY ShownIs
<1>2. Len(ds) \in Nat /\ \E g : Adds(g, ds, base) /\ g[Len(ds)] = v
  BY DEF Spells
<1>3. PICK g : Adds(g, ds, base) /\ g[Len(ds)] = v
  BY <1>2
<1>4. m \in 0 .. Len(f)
  BY <1>2
<1>5. h[m] = 0
  BY <1>1, <1>4, ReadBefore
<1>6. h[m + Len(ds)] = g[Len(ds)]
  BY <1>1, <1>2, <1>3, <1>5, ReadDigits
<1>7. h[Len(f)] = h[m + Len(ds)]
  <2> DEFINE k == m + Len(ds)
  <2>1. k \in 0 .. Len(f) /\ Blank(f, k)
    BY <1>2
  <2> HIDE DEF k
  <2>2. h[Len(f)] = h[k]
    BY <1>1, <2>1, ReadBehind
  <2> QED BY <2>2 DEF k
<1>8. h[Len(f)] = v
  BY <1>3, <1>6, <1>7, Zenon
<1> QED BY <1>1, <1>8, Zenon

-----------------------------------------------------------------------------
(* The parts of a number's piece. *)

Chars == {lower[i] : i \in 1 .. 16} \cup {upper[i] : i \in 1 .. 16} \cup {" ", "+", "-", "x"}

(* print_num puts a sign, a prefix and digits, and padding around them. *)
Negative(conv, v)     == conv \in SignedConvs /\ Signed(v) < 0
Magnitude(conv, v)    == IF Negative(conv, v) THEN Pattern(-Signed(v)) ELSE v
SignOf(conv, v, plus) ==
    IF Negative(conv, v) THEN <<"-">> ELSE IF conv \in SignedConvs THEN plus ELSE <<>>
PrefixOf(conv, u, alt) ==
    IF u = 0 \/ ~(alt \/ conv = "p") THEN <<>>
    ELSE IF Base(conv) = 8 THEN <<"0">>
    ELSE IF Base(conv) = 16 THEN <<"0", "x">> ELSE <<>>
DigitsOf(conv, u) == Rendered(u, Base(conv), IF conv \in {"X", "Z"} THEN upper ELSE lower)
Around(sg, px, dg, room, left, pad) ==
    (IF pad = " " /\ ~left THEN Pad(" ", room) ELSE <<>>)
        \o sg \o px
        \o (IF pad = "0" THEN Pad("0", room) ELSE <<>>)
        \o dg
        \o (IF pad = " " /\ left THEN Pad(" ", room) ELSE <<>>)
NumberPiece(conv, v, plus, alt, len, left, pad) ==
    LET sg == SignOf(conv, v, plus)
        px == PrefixOf(conv, Magnitude(conv, v), alt)
        dg == DigitsOf(conv, Magnitude(conv, v))
    IN  Around(sg, px, dg, len - Len(dg) - Len(sg) - Len(px), left, pad)

(* The characters are among those of a piece. *)
LEMMA CharsAre ==
    /\ \A i \in 1 .. 16 : lower[i] \in Chars /\ upper[i] \in Chars
    /\ {" ", "+", "-", "x", "0"} \subseteq Chars
<1>1. \A i \in 1 .. 16 : lower[i] \in Chars /\ upper[i] \in Chars
  BY DEF Chars
<1>2. "0" \in Chars
  <2>1. lower[1] = "0" /\ 1 \in 1 .. 16
    BY LowerIs
  <2> QED BY <1>1, <2>1
<1>3. " " \in Chars /\ "+" \in Chars /\ "-" \in Chars /\ "x" \in Chars
  BY DEF Chars
<1> QED BY <1>1, <1>2, <1>3

(* The bases. *)
LEMMA BaseIs ==
    ASSUME NEW conv \in NumberConvs
    PROVE  Base(conv) \in 2 .. 16
<1>1. CASE conv \in {"o", "O"}
  BY <1>1 DEF Base
<1>2. CASE conv \in {"d", "D", "u", "U"}
  BY <1>2 DEF Base
<1>3. CASE conv \in {"p", "x", "X", "z", "Z"}
  BY <1>3 DEF Base
<1>4. CASE conv \in {"r", "R", "n", "N"}
  BY <1>4, WordAssumption DEF Base
<1> QED BY <1>1, <1>2, <1>3, <1>4 DEF NumberConvs, SignedConvs

(* The number without its sign: none is so negative that it has no pattern. *)
LEMMA MagnitudeIs ==
    ASSUME NEW conv, NEW v \in 0 .. 2 * Half - 1
    PROVE  /\ Magnitude(conv, v) \in Nat
           /\ Negative(conv, v) \in BOOLEAN
           /\ Negative(conv, v) => conv \in SignedConvs /\ -Magnitude(conv, v) = Signed(v)
           /\ ~Negative(conv, v) /\ conv \in SignedConvs => Magnitude(conv, v) = Signed(v)
           /\ ~Negative(conv, v) => Magnitude(conv, v) = v
           /\ v > 0 => Magnitude(conv, v) > 0
<1>0. Half \in Nat /\ Half > 0 /\ 2 * Half \in Nat /\ 2 * Half > 0 /\ v \in Nat
  BY WordAssumption
<1>1. Negative(conv, v) \in BOOLEAN /\ (Negative(conv, v) = (conv \in SignedConvs /\ Signed(v) < 0))
  BY DEF Negative
<1>2. CASE Negative(conv, v)
  <2>1. Signed(v) < 0
    BY <1>2 DEF Negative
  <2>2. v >= Half /\ Signed(v) = v - 2 * Half
    BY <1>0, <2>1 DEF Signed
  <2> DEFINE x == -Signed(v)
  <2>3. x = 2 * Half - v
    BY <1>0, <2>2
  <2> HIDE DEF x
  <2>4. x \in Nat /\ x > 0 /\ x < 2 * Half /\ x = 0 * (2 * Half) + x
    BY <1>0, <2>2, <2>3
  <2>5. x % (2 * Half) = x
    BY <1>0, <2>4, DivMod
  <2>6. Magnitude(conv, v) = x
    BY <1>2, <2>5, Zenon DEF Magnitude, Pattern, x
  <2>7. conv \in SignedConvs
    BY <1>2 DEF Negative
  <2>8. -x = Signed(v)
    BY <1>0, <2>2, <2>3
  <2> QED BY <1>1, <1>2, <2>4, <2>6, <2>7, <2>8
<1>3. CASE ~Negative(conv, v)
  <2>1. Magnitude(conv, v) = v
    BY <1>3, Zenon DEF Magnitude
  <2>2. conv \in SignedConvs => v = Signed(v)
    BY <1>0, <1>3 DEF Negative, Signed
  <2> QED BY <1>0, <1>1, <1>3, <2>1, <2>2
<1> QED BY <1>1, <1>2, <1>3

(* What may be a sign, and what a prefix. *)
SignLike(sg, neg, spaced) ==
    /\ sg \in Seq(Chars) /\ Len(sg) \in {0, 1}
    /\ Len(sg) = 1 => sg[1] \in {"+", "-", " "} /\ (sg[1] = "-" => neg) /\ (sg[1] = " " => spaced)
    /\ neg => Len(sg) = 1 /\ sg[1] = "-"
PrefixLike(px) ==
    /\ px \in Seq(Chars) /\ Len(px) \in {0, 1, 2}
    /\ \A i \in 1 .. Len(px) : px[i] \in {"0", "x"}

(* A sequence of one, and characters that are not the same. *)
LEMMA Single ==
    ASSUME NEW T, NEW x \in T
    PROVE  <<x>> \in Seq(T) /\ Len(<<x>>) = 1 /\ <<x>>[1] = x
OBVIOUS

(* Signs and the blank differ, and so do 0 and 1. *)
LEMMA MarksDiffer == "+" # "-" /\ "+" # " " /\ " " # "-" /\ 0 # 1
OBVIOUS

(* The sign is at most one character, and a minus just for negative ones. *)
LEMMA SignIs ==
    ASSUME NEW conv, NEW v, NEW plus \in {<<>>, <<"+">>, <<" ">>}, Negative(conv, v) \in BOOLEAN
    PROVE  SignLike(SignOf(conv, v, plus), Negative(conv, v), plus = <<" ">>)
<1>0. <<>> \in Seq(Chars) /\ Len(<<>>) = 0
  BY EmptySeq
<1>1. \A x \in Chars : <<x>> \in Seq(Chars) /\ Len(<<x>>) = 1 /\ <<x>>[1] = x
  BY Single, Zenon
<1>2. " " \in Chars /\ "+" \in Chars /\ "-" \in Chars
  BY CharsAre
<1> DEFINE s0 == <<>>
           s1 == <<"+">>
           s2 == <<" ">>
           s3 == <<"-">>
<1>3. /\ s0 \in Seq(Chars) /\ Len(s0) = 0
      /\ s1 \in Seq(Chars) /\ Len(s1) = 1 /\ s1[1] = "+"
      /\ s2 \in Seq(Chars) /\ Len(s2) = 1 /\ s2[1] = " "
      /\ s3 \in Seq(Chars) /\ Len(s3) = 1 /\ s3[1] = "-"
  BY <1>0, <1>1, <1>2, Zenon
<1>4. plus = s0 \/ plus = s1 \/ plus = s2
  BY Zenon
<1>5. SignOf(conv, v, plus) = IF Negative(conv, v) THEN s3 ELSE IF conv \in SignedConvs THEN plus ELSE s0
  BY Zenon DEF SignOf
<1>6. plus = <<" ">> <=> plus = s2
  BY Zenon
<1> DEFINE n == Negative(conv, v)
           sp == plus = <<" ">>
<1>7. n \in BOOLEAN /\ sp \in BOOLEAN /\ (plus = s2 => sp)
  OBVIOUS
<1> HIDE DEF s0, s1, s2, s3, n, sp
<1>8. "+" # "-" /\ "+" # " " /\ " " # "-" /\ 0 # 1
  BY MarksDiffer, Zenon
<1>9. SignLike(s0, FALSE, sp) /\ SignLike(s1, FALSE, sp) /\ SignLike(s3, TRUE, sp) /\ SignLike(s2, FALSE, TRUE)
  BY <1>3, <1>8 DEF SignLike
<1>10. CASE n
  <2>1. SignOf(conv, v, plus) = s3
    BY <1>5, <1>10, Zenon DEF n
  <2>2. n = TRUE
    BY <1>7, <1>10
  <2> QED BY <1>9, <2>1, <2>2, Zenon DEF n, sp
<1>11. CASE ~n
  <2>1. n = FALSE
    BY <1>7, <1>11
  <2>2. SignOf(conv, v, plus) = s0 \/ SignOf(conv, v, plus) = plus
    BY <1>5, <1>11, Zenon DEF n
  <2>3. SignLike(plus, FALSE, sp)
    <3>1. CASE plus = s2
      <4>1. sp = TRUE
        BY <1>7, <3>1
      <4> QED BY <1>9, <3>1, <4>1, Zenon
    <3>2. CASE plus # s2
      BY <1>4, <1>9, <3>2, Zenon
    <3> QED BY <3>1, <3>2
  <2> QED BY <1>9, <2>1, <2>2, <2>3, Zenon DEF n, sp
<1> QED BY <1>10, <1>11

(* The prefix is at most two characters, and none without # or p. *)
LEMMA PrefixIs ==
    ASSUME NEW conv, NEW u, NEW alt
    PROVE  /\ PrefixLike(PrefixOf(conv, u, alt))
           /\ ~alt /\ conv # "p" => Len(PrefixOf(conv, u, alt)) = 0
<1> DEFINE s0 == <<>>
           s1 == <<"0">>
           s2 == <<"0", "x">>
<1>1. s0 \in Seq(Chars) /\ Len(s0) = 0
  BY EmptySeq
<1>2. "0" \in Chars /\ "x" \in Chars
  BY CharsAre
<1>3. s1 \in Seq(Chars) /\ Len(s1) = 1 /\ s1[1] = "0"
  BY <1>2
<1>4. s2 \in Seq(Chars) /\ Len(s2) = 2 /\ s2[1] = "0" /\ s2[2] = "x"
  BY <1>2
<1>5. PrefixOf(conv, u, alt) = s0 \/ PrefixOf(conv, u, alt) = s1 \/ PrefixOf(conv, u, alt) = s2
  BY Zenon DEF PrefixOf
<1>6. ~alt /\ conv # "p" => PrefixOf(conv, u, alt) = s0
  BY Zenon DEF PrefixOf
<1> HIDE DEF s0, s1, s2
<1>7. PrefixLike(s0)
  BY <1>1 DEF PrefixLike
<1>8. PrefixLike(s1)
  BY <1>3 DEF PrefixLike
<1>9. PrefixLike(s2)
  BY <1>4 DEF PrefixLike
<1> QED BY <1>1, <1>5, <1>6, <1>7, <1>8, <1>9, Zenon

(* Rendered: the figures of the digits. *)
FigureLike(dg, ds, u) ==
    /\ dg \in Seq(Chars)
    /\ Len(dg) = Len(ds)
    /\ \A j \in 1 .. Len(ds) : /\ IsFigure(dg[j]) /\ FigureOf(dg[j]) = ds[j]
                               /\ dg[j] \notin {" ", "+", "-", "x"}
    /\ u > 0 => dg[1] # "0"

(* The digits spell the number, in the letters of the table. *)
LEMMA RenderedIs ==
    ASSUME NEW base \in 2 .. 16, NEW u \in Nat, NEW table \in {lower, upper}
    PROVE  /\ Spells(Digits(u, base), base, u)
           /\ FigureLike(Rendered(u, base, table), Digits(u, base), u)
<1> DEFINE ds == Digits(u, base)
           dg == [k \in DOMAIN ds |-> table[ds[k] + 1]]
<1>1. Spells(ds, base, u)
  BY DigitsSpell
<1>2. Rendered(u, base, table) = dg
  BY Zenon DEF Rendered
<1> HIDE DEF ds
<1>3. ds \in Seq(0 .. base - 1) /\ Len(ds) \in Nat \ {0} /\ (u > 0 => ds[1] > 0)
  BY <1>1 DEF Spells
<1>4. DOMAIN ds = 1 .. Len(ds) /\ \A j \in 1 .. Len(ds) : ds[j] \in 0 .. base - 1
  BY <1>3, LenProperties, ElementOfSeq
<1>5. \A j \in 1 .. Len(ds) : ds[j] \in 0 .. 15 /\ ds[j] + 1 \in 1 .. 16
  <2>1. \A n \in 0 .. base - 1 : n \in 0 .. 15 /\ n + 1 \in 1 .. 16
    <3> SUFFICES ASSUME NEW n \in 0 .. base - 1 PROVE n \in 0 .. 15 /\ n + 1 \in 1 .. 16
      OBVIOUS
    <3>1. n \in Nat /\ n <= base - 1 /\ base <= 16
      OBVIOUS
    <3> QED BY <3>1
  <2> QED BY <1>4, <2>1, Zenon
<1>6. \A j \in 1 .. Len(ds) : dg[j] = table[ds[j] + 1]
  BY <1>4, Zenon
<1>7. dg = [k \in 1 .. Len(ds) |-> dg[k]]
  BY <1>4, Zenon
<1> HIDE DEF dg
<1>8. \A j \in 1 .. Len(ds) : dg[j] \in {lower[ds[j] + 1], upper[ds[j] + 1]}
  BY <1>6, Zenon
<1>9. ASSUME NEW j \in 1 .. Len(ds)
      PROVE  /\ IsFigure(dg[j]) /\ FigureOf(dg[j]) = ds[j]
             /\ dg[j] \notin {" ", "+", "-", "x"} /\ (ds[j] > 0 => dg[j] # "0")
             /\ dg[j] \in Chars
  <2> DEFINE n == ds[j]
             x == dg[j]
  <2>1. n \in 0 .. 15 /\ n + 1 \in 1 .. 16
    BY <1>5
  <2>2. x \in {lower[n + 1], upper[n + 1]}
    BY <1>8, Zenon
  <2> HIDE DEF n, x
  <2>3. IsFigure(x) /\ FigureOf(x) = n /\ x \notin {" ", "+", "-", "x"} /\ (n > 0 => x # "0")
    BY <2>1, <2>2, FigureRead
  <2>4. x \in Chars
    BY <2>1, <2>2, CharsAre
  <2> QED BY <2>3, <2>4, Zenon DEF n, x
<1>10. dg \in [1 .. Len(ds) -> Chars]
  BY <1>7, <1>9, Zenon
<1>11. dg \in Seq(Chars) /\ Len(dg) = Len(ds)
  BY <1>3, <1>10
<1>12. u > 0 => dg[1] # "0"
  <2>1. 1 \in 1 .. Len(ds)
    BY <1>3
  <2> QED BY <1>3, <1>9, <2>1, Zenon
<1>13. FigureLike(dg, ds, u)
  BY <1>9, <1>11, <1>12, Zenon DEF FigureLike
<1> QED BY <1>1, <1>2, <1>13, Zenon DEF ds

-----------------------------------------------------------------------------
(* The piece of a number. *)

(* All of s is x. *)
AllAre(s, x) == \A i \in 1 .. Len(s) : s[i] = x

(* Where in the piece the characters are, and what they may be. *)
Drawn(f, bl, sg, px, ze, dg, be, neg, spaced, ds, u) ==
    /\ Laid(f, bl, sg, px, ze, dg, be)
    /\ AllAre(bl, " ") /\ AllAre(ze, "0") /\ AllAre(be, " ")
    /\ SignLike(sg, neg, spaced) /\ PrefixLike(px) /\ FigureLike(dg, ds, u)
    /\ Len(dg) \in Nat \ {0}
    /\ DOMAIN f = 1 .. Len(f)

(* How many of them: all the room there is goes to one place. *)
Fills(b, z, e, room, left, zero) ==
    LET m == IF room < 0 THEN 0 ELSE room
    IN  /\ b = IF ~zero /\ ~left THEN m ELSE 0
        /\ z = IF zero THEN m ELSE 0
        /\ e = IF ~zero /\ left THEN m ELSE 0

(* Around puts the room where it belongs. *)
Parted(sg, px, dg, room, left, zero, neg, spaced, ds, u) ==
    \E bl, ze, be :
        /\ Drawn(Around(sg, px, dg, room, left, IF zero THEN "0" ELSE " "),
                 bl, sg, px, ze, dg, be, neg, spaced, ds, u)
        /\ Fills(Len(bl), Len(ze), Len(be), room, left, zero)

(* The padding is around the number, or between its prefix and its digits. *)
LEMMA AroundIs ==
    ASSUME NEW sg, NEW px, NEW dg, NEW neg, NEW spaced, NEW ds, NEW u,
           SignLike(sg, neg, spaced), PrefixLike(px), FigureLike(dg, ds, u), Len(dg) \in Nat \ {0},
           NEW room \in Int, NEW left \in BOOLEAN, NEW zero \in BOOLEAN
    PROVE  Parted(sg, px, dg, room, left, zero, neg, spaced, ds, u)
<1> DEFINE pad == IF zero THEN "0" ELSE " "
           s0 == <<>>
           bl == IF ~zero /\ ~left THEN Pad(" ", room) ELSE s0
           ze == IF zero THEN Pad("0", room) ELSE s0
           be == IF ~zero /\ left THEN Pad(" ", room) ELSE s0
           f  == bl \o sg \o px \o ze \o dg \o be
           m  == IF room < 0 THEN 0 ELSE room
<1>1. /\ " " \in Chars /\ "0" \in Chars
  BY CharsAre
<1>2. s0 \in Seq(Chars) /\ Len(s0) = 0
  BY EmptySeq
<1>3. (pad = "0") = zero /\ (pad = " ") = ~zero
  OBVIOUS
<1>4. Around(sg, px, dg, room, left, pad) = f
  <2> HIDE DEF pad
  <2> QED BY <1>3, Zenon DEF Around
<1> HIDE DEF s0, pad
<1>5. sg \in Seq(Chars) /\ px \in Seq(Chars) /\ dg \in Seq(Chars)
  BY DEF SignLike, PrefixLike, FigureLike
<1>6. /\ Pad(" ", room) \in Seq(Chars) /\ Len(Pad(" ", room)) = m /\ AllAre(Pad(" ", room), " ")
      /\ Pad("0", room) \in Seq(Chars) /\ Len(Pad("0", room)) = m /\ AllAre(Pad("0", room), "0")
  <2>1. \A x \in Chars : Pad(x, room) \in Seq(Chars) /\ Len(Pad(x, room)) = m /\ AllAre(Pad(x, room), x)
    BY Padded, Zenon DEF AllAre
  <2> QED BY <1>1, <2>1, Zenon
<1>7. AllAre(s0, " ") /\ AllAre(s0, "0")
  <2>1. \A i \in 1 .. Len(s0) : FALSE
    BY <1>2
  <2> QED BY <2>1, Zenon DEF AllAre
<1> HIDE DEF m
<1>8. bl \in Seq(Chars) /\ AllAre(bl, " ") /\ Len(bl) = IF ~zero /\ ~left THEN m ELSE 0
  BY <1>2, <1>6, <1>7, Zenon
<1>9. ze \in Seq(Chars) /\ AllAre(ze, "0") /\ Len(ze) = IF zero THEN m ELSE 0
  BY <1>2, <1>6, <1>7, Zenon
<1>10. be \in Seq(Chars) /\ AllAre(be, " ") /\ Len(be) = IF ~zero /\ left THEN m ELSE 0
  BY <1>2, <1>6, <1>7, Zenon
<1> HIDE DEF bl, ze, be
<1>11. f \in Seq(Chars) /\ Laid(f, bl, sg, px, ze, dg, be)
  BY <1>5, <1>8, <1>9, <1>10, SixParts
<1> HIDE DEF f
<1>12. DOMAIN f = 1 .. Len(f)
  BY <1>11, LenProperties
<1>13. Drawn(f, bl, sg, px, ze, dg, be, neg, spaced, ds, u)
  BY <1>8, <1>9, <1>10, <1>11, <1>12, Zenon DEF Drawn
<1>14. Fills(Len(bl), Len(ze), Len(be), room, left, zero)
  BY <1>8, <1>9, <1>10, Zenon DEF Fills, m
<1> QED BY <1>4, <1>13, <1>14, Zenon DEF pad, Parted

(* The lengths of the parts. *)
LEMMA DrawnLengths ==
    ASSUME NEW f, NEW bl, NEW sg, NEW px, NEW ze, NEW dg, NEW be, NEW neg, NEW spaced, NEW ds, NEW u,
           Drawn(f, bl, sg, px, ze, dg, be, neg, spaced, ds, u)
    PROVE  /\ Len(bl) \in Nat /\ Len(sg) \in 0 .. 1 /\ Len(px) \in 0 .. 2 /\ Len(ze) \in Nat
           /\ Len(dg) \in Nat \ {0} /\ Len(be) \in Nat /\ Len(ds) = Len(dg)
           /\ Len(f) = Len(bl) + Len(sg) + Len(px) + Len(ze) + Len(dg) + Len(be)
           /\ DOMAIN f = 1 .. Len(f)
           /\ neg => Len(sg) = 1
<1>1. /\ Laid(f, bl, sg, px, ze, dg, be) /\ SignLike(sg, neg, spaced) /\ PrefixLike(px)
      /\ FigureLike(dg, ds, u) /\ Len(dg) \in Nat \ {0} /\ DOMAIN f = 1 .. Len(f)
  BY Zenon DEF Drawn
<1>2. /\ Len(bl) \in Nat /\ Len(sg) \in Nat /\ Len(px) \in Nat /\ Len(ze) \in Nat /\ Len(be) \in Nat
      /\ Len(f) = Len(bl) + Len(sg) + Len(px) + Len(ze) + Len(dg) + Len(be)
  BY <1>1, Zenon DEF Laid
<1>3. Len(sg) \in {0, 1} /\ Len(px) \in {0, 1, 2} /\ Len(ds) = Len(dg) /\ (neg => Len(sg) = 1)
  BY <1>1, Zenon DEF SignLike, PrefixLike, FigureLike
<1> QED BY <1>1, <1>2, <1>3

(* The character at position i, part by part. *)
InBlanks(f, i, b)     == i <= b => f[i] = " "
InSign(f, i, b, s, sg) == b < i /\ i <= b + s => s = 1 /\ i = b + 1 /\ f[i] = sg[1]
InPrefix(f, i, b, e)  == b < i /\ i <= e => f[i] \in {"0", "x"}
InZeros(f, i, b, e)   == b < i /\ i <= e => f[i] = "0"
InDigits(f, i, b, e)  == b < i /\ i <= e => f[i] \notin {" ", "+", "-", "x"}
InBehind(f, i, b)     == b < i => f[i] = " "

(* Every character is in one of the parts. *)
LEMMA CharAt ==
    ASSUME NEW f, NEW bl, NEW sg, NEW px, NEW ze, NEW dg, NEW be, NEW neg, NEW spaced, NEW ds, NEW u,
           Drawn(f, bl, sg, px, ze, dg, be, neg, spaced, ds, u), NEW i \in 1 .. Len(f)
    PROVE  /\ InBlanks(f, i, Len(bl))
           /\ InSign(f, i, Len(bl), Len(sg), sg)
           /\ InPrefix(f, i, Len(bl) + Len(sg), Len(bl) + Len(sg) + Len(px))
           /\ InZeros(f, i, Len(bl) + Len(sg) + Len(px), Len(bl) + Len(sg) + Len(px) + Len(ze))
           /\ InDigits(f, i, Len(bl) + Len(sg) + Len(px) + Len(ze),
                       Len(bl) + Len(sg) + Len(px) + Len(ze) + Len(dg))
           /\ InBehind(f, i, Len(bl) + Len(sg) + Len(px) + Len(ze) + Len(dg))
<1>1. /\ Len(bl) \in Nat /\ Len(sg) \in 0 .. 1 /\ Len(px) \in 0 .. 2 /\ Len(ze) \in Nat
      /\ Len(dg) \in Nat \ {0} /\ Len(be) \in Nat /\ Len(ds) = Len(dg)
      /\ Len(f) = Len(bl) + Len(sg) + Len(px) + Len(ze) + Len(dg) + Len(be)
  BY DrawnLengths
<1> DEFINE b == Len(bl)
           s == Len(sg)
           p == Len(px)
           z == Len(ze)
           n == Len(dg)
           e == Len(be)
<1>2. /\ b \in Nat /\ s \in 0 .. 1 /\ p \in 0 .. 2 /\ z \in Nat /\ n \in Nat /\ e \in Nat
      /\ i \in 1 .. b + s + p + z + n + e
  BY <1>1
<1>3. /\ \A j \in 1 .. b : f[j] = bl[j]
      /\ \A j \in 1 .. s : f[b + j] = sg[j]
      /\ \A j \in 1 .. p : f[b + s + j] = px[j]
      /\ \A j \in 1 .. z : f[b + s + p + j] = ze[j]
      /\ \A j \in 1 .. n : f[b + s + p + z + j] = dg[j]
      /\ \A j \in 1 .. e : f[b + s + p + z + n + j] = be[j]
  BY Zenon DEF Drawn, Laid
<1>4. /\ \A j \in 1 .. b : bl[j] = " "
      /\ \A j \in 1 .. p : px[j] \in {"0", "x"}
      /\ \A j \in 1 .. z : ze[j] = "0"
      /\ \A j \in 1 .. n : dg[j] \notin {" ", "+", "-", "x"}
      /\ \A j \in 1 .. e : be[j] = " "
  BY <1>1, Zenon DEF Drawn, AllAre, PrefixLike, FigureLike
<1> HIDE DEF b, s, p, z, n, e
<1>5. ASSUME i <= b PROVE f[i] = " "
  <2>1. i \in 1 .. b
    BY <1>2, <1>5
  <2> QED BY <1>3, <1>4, <2>1, Zenon
<1>6. ASSUME b < i, i <= b + s PROVE s = 1 /\ i = b + 1 /\ f[i] = sg[1]
  <2>1. s = 1 /\ i = b + 1 /\ 1 \in 1 .. s
    <3> HIDE <1>3, <1>4
    <3> QED BY <1>2, <1>6
  <2> QED BY <1>3, <2>1, Zenon
<1>7. ASSUME b + s < i, i <= b + s + p PROVE f[i] \in {"0", "x"}
  <2> DEFINE j == i - (b + s)
  <2>1. j \in 1 .. p /\ b + s + j = i
    BY <1>2, <1>7
  <2> HIDE DEF j
  <2> QED BY <1>3, <1>4, <2>1, Zenon
<1>8. ASSUME b + s + p < i, i <= b + s + p + z PROVE f[i] = "0"
  <2> DEFINE j == i - (b + s + p)
  <2>1. j \in 1 .. z /\ b + s + p + j = i
    BY <1>2, <1>8
  <2> HIDE DEF j
  <2> QED BY <1>3, <1>4, <2>1, ZenonT(40)
<1>9. ASSUME b + s + p + z < i, i <= b + s + p + z + n PROVE f[i] \notin {" ", "+", "-", "x"}
  <2> DEFINE j == i - (b + s + p + z)
  <2>1. j \in 1 .. n /\ b + s + p + z + j = i
    BY <1>2, <1>9
  <2> HIDE DEF j
  <2>2. f[i] = dg[j]
    BY <1>3, <2>1, Zenon
  <2> QED BY <1>4, <2>1, <2>2, Zenon
<1>10. ASSUME b + s + p + z + n < i PROVE f[i] = " "
  <2> DEFINE j == i - (b + s + p + z + n)
  <2>1. j \in 1 .. e /\ b + s + p + z + n + j = i
    BY <1>2, <1>10
  <2> HIDE DEF j
  <2>2. f[i] = be[j]
    BY <1>3, <2>1, Zenon
  <2> QED BY <1>4, <2>1, <2>2, Zenon
<1>11. InBlanks(f, i, b)
  BY <1>5, Zenon DEF InBlanks
<1>12. InSign(f, i, b, s, sg)
  BY <1>6, Zenon DEF InSign
<1>13. InPrefix(f, i, b + s, b + s + p)
  BY <1>7, Zenon DEF InPrefix
<1>14. InZeros(f, i, b + s + p, b + s + p + z)
  BY <1>8, Zenon DEF InZeros
<1>15. InDigits(f, i, b + s + p + z, b + s + p + z + n)
  BY <1>9, Zenon DEF InDigits
<1>16. InBehind(f, i, b + s + p + z + n)
  BY <1>10, Zenon DEF InBehind
<1> QED BY <1>11, <1>12, <1>13, <1>14, <1>15, <1>16, Zenon DEF b, s, p, z, n

(* The part a position is in. *)
LEMMA PartOf ==
    ASSUME NEW b \in Nat, NEW s \in Nat, NEW p \in Nat, NEW z \in Nat, NEW n \in Nat, NEW i \in Nat
    PROVE  \/ i <= b
           \/ b < i /\ i <= b + s
           \/ b + s < i /\ i <= b + s + p
           \/ b + s + p < i /\ i <= b + s + p + z
           \/ b + s + p + z < i /\ i <= b + s + p + z + n
           \/ b + s + p + z + n < i
OBVIOUS

(* What a character of the piece may be. *)
Kinds(f, i, b, s, p, z, n, sg) ==
    \/ i <= b /\ f[i] = " "
    \/ s = 1 /\ i = b + 1 /\ f[i] = sg[1]
    \/ b + s < i /\ i <= b + s + p /\ f[i] \in {"0", "x"}
    \/ b + s + p < i /\ i <= b + s + p + z /\ f[i] = "0"
    \/ b + s + p + z < i /\ i <= b + s + p + z + n /\ f[i] \notin {" ", "+", "-", "x"}
    \/ b + s + p + z + n < i /\ f[i] = " "

(* Every character is of the kind of its part. *)
LEMMA KindAt ==
    ASSUME NEW f, NEW bl, NEW sg, NEW px, NEW ze, NEW dg, NEW be, NEW neg, NEW spaced, NEW ds, NEW u,
           Drawn(f, bl, sg, px, ze, dg, be, neg, spaced, ds, u), NEW i \in 1 .. Len(f)
    PROVE  Kinds(f, i, Len(bl), Len(sg), Len(px), Len(ze), Len(dg), sg)
<1>1. /\ Len(bl) \in Nat /\ Len(sg) \in Nat /\ Len(px) \in Nat /\ Len(ze) \in Nat /\ Len(dg) \in Nat
  BY DrawnLengths
<1> DEFINE b == Len(bl)
           s == Len(sg)
           p == Len(px)
           z == Len(ze)
           n == Len(dg)
<1>2. /\ InBlanks(f, i, b) /\ InSign(f, i, b, s, sg) /\ InPrefix(f, i, b + s, b + s + p)
      /\ InZeros(f, i, b + s + p, b + s + p + z)
      /\ InDigits(f, i, b + s + p + z, b + s + p + z + n)
      /\ InBehind(f, i, b + s + p + z + n)
  BY CharAt
<1>3. b \in Nat /\ s \in Nat /\ p \in Nat /\ z \in Nat /\ n \in Nat /\ i \in Nat
  BY <1>1
<1> HIDE DEF b, s, p, z, n
<1>4. \/ i <= b
      \/ b < i /\ i <= b + s
      \/ b + s < i /\ i <= b + s + p
      \/ b + s + p < i /\ i <= b + s + p + z
      \/ b + s + p + z < i /\ i <= b + s + p + z + n
      \/ b + s + p + z + n < i
  BY <1>3, PartOf
<1>5. Kinds(f, i, b, s, p, z, n, sg)
  BY <1>2, <1>4, Zenon DEF InBlanks, InSign, InPrefix, InZeros, InDigits, InBehind, Kinds
<1> QED BY <1>5, Zenon DEF b, s, p, z, n

(* The sign is at its place and nowhere else. *)
SignOnly(f, b, s, sg, neg, spaced) ==
    /\ s = 1 => f[b + 1] = sg[1] /\ b + 1 \in 1 .. Len(f)
    /\ s = 1 => sg[1] \in {"+", "-", " "} /\ (sg[1] = "-" => neg) /\ (sg[1] = " " => spaced)
    /\ neg => s = 1 /\ sg[1] = "-"
    /\ \A i \in 1 .. Len(f) : f[i] \in {"-", "+"} => s = 1 /\ i = b + 1

(* A sign is only where the sign is. *)
LEMMA SignAt ==
    ASSUME NEW f, NEW bl, NEW sg, NEW px, NEW ze, NEW dg, NEW be, NEW neg, NEW spaced, NEW ds, NEW u,
           Drawn(f, bl, sg, px, ze, dg, be, neg, spaced, ds, u)
    PROVE  SignOnly(f, Len(bl), Len(sg), sg, neg, spaced)
<1>1. /\ Len(bl) \in Nat /\ Len(sg) \in 0 .. 1 /\ Len(px) \in Nat /\ Len(ze) \in Nat /\ Len(dg) \in Nat
      /\ Len(be) \in Nat
      /\ Len(f) = Len(bl) + Len(sg) + Len(px) + Len(ze) + Len(dg) + Len(be)
  BY DrawnLengths
<1>2. SignLike(sg, neg, spaced) /\ Laid(f, bl, sg, px, ze, dg, be)
  BY Zenon DEF Drawn
<1>3. /\ Len(sg) = 1 => sg[1] \in {"+", "-", " "} /\ (sg[1] = "-" => neg) /\ (sg[1] = " " => spaced)
      /\ neg => Len(sg) = 1 /\ sg[1] = "-"
  BY <1>2, Zenon DEF SignLike
<1>4. ASSUME Len(sg) = 1 PROVE f[Len(bl) + 1] = sg[1] /\ Len(bl) + 1 \in 1 .. Len(f)
  <2>1. \A j \in 1 .. Len(sg) : f[Len(bl) + j] = sg[j]
    BY <1>2, Zenon DEF Laid
  <2>2. 1 \in 1 .. Len(sg)
    BY <1>4
  <2>3. f[Len(bl) + 1] = sg[1]
    BY <2>1, <2>2, Zenon
  <2> HIDE <2>1, <1>3
  <2>4. Len(bl) + 1 \in 1 .. Len(f)
    BY <1>1, <1>4
  <2> QED BY <2>3, <2>4
<1>5. ASSUME NEW i \in 1 .. Len(f), f[i] \in {"-", "+"} PROVE Len(sg) = 1 /\ i = Len(bl) + 1
  <2>1. Kinds(f, i, Len(bl), Len(sg), Len(px), Len(ze), Len(dg), sg)
    BY KindAt
  <2> HIDE <1>3
  <2>2. f[i] # " " /\ f[i] # "0" /\ f[i] \notin {"0", "x"} /\ f[i] \in {" ", "+", "-", "x"}
    BY <1>5
  <2> QED BY <2>1, <2>2, Zenon DEF Kinds
<1> QED BY <1>3, <1>4, <1>5, Zenon DEF SignOnly

(* A number's piece shows the number. *)
LEMMA DrawnShows ==
    ASSUME NEW f, NEW bl, NEW sg, NEW px, NEW ze, NEW dg, NEW be, NEW neg \in BOOLEAN, NEW spaced,
           NEW ds, NEW u \in Nat,
           Drawn(f, bl, sg, px, ze, dg, be, neg, spaced, ds, u),
           NEW base \in Nat, Spells(ds, base, u)
    PROVE  Shown(f, base) = IF neg THEN -u ELSE u
<1>1. /\ Len(bl) \in Nat /\ Len(sg) \in Nat /\ Len(px) \in Nat /\ Len(ze) \in Nat /\ Len(dg) \in Nat
      /\ Len(be) \in Nat /\ Len(ds) = Len(dg) /\ DOMAIN f = 1 .. Len(f)
      /\ Len(f) = Len(bl) + Len(sg) + Len(px) + Len(ze) + Len(dg) + Len(be)
      /\ Len(sg) \in 0 .. 1
  BY DrawnLengths
<1> DEFINE m == Len(bl) + Len(sg) + Len(px) + Len(ze)
<1> DEFINE b == Len(bl)
           s == Len(sg)
<1>0. SignOnly(f, b, s, sg, neg, spaced)
  BY SignAt
<1>2. m \in Nat /\ m + Len(ds) <= Len(f) /\ Len(f) \in Nat /\ Len(ds) \in Nat
  BY <1>1
<1>3. Quiet(f, m)
  <2> SUFFICES ASSUME NEW i \in 1 .. m PROVE f[i] \in {" ", "+", "-", "x", "0"}
    BY DEF Quiet
  <2>1. i \in 1 .. Len(f)
    BY <1>2
  <2>2. Kinds(f, i, Len(bl), Len(sg), Len(px), Len(ze), Len(dg), sg)
    BY <2>1, KindAt
  <2>3. ~ (Len(bl) + Len(sg) + Len(px) + Len(ze) < i)
    BY <1>1
  <2>4. ~ (Len(bl) + Len(sg) + Len(px) + Len(ze) + Len(dg) < i)
    BY <1>1
  <2>5. Len(sg) = 1 => sg[1] \in {"+", "-", " "}
    BY <1>0, Zenon DEF SignOnly
  <2>6. \/ f[i] = " " \/ f[i] \in {"+", "-", " "} \/ f[i] \in {"0", "x"} \/ f[i] = "0"
    BY <2>2, <2>3, <2>4, <2>5, Zenon DEF Kinds
  <2> QED BY <2>6, Zenon
<1>4. Figured(f, m, ds)
  <2>1. Laid(f, bl, sg, px, ze, dg, be) /\ FigureLike(dg, ds, u)
    BY Zenon DEF Drawn
  <2>2. \A j \in 1 .. Len(dg) : f[m + j] = dg[j]
    BY <2>1, Zenon DEF Laid
  <2>3. \A j \in 1 .. Len(ds) : IsFigure(dg[j]) /\ FigureOf(dg[j]) = ds[j]
    BY <2>1, Zenon DEF FigureLike
  <2> HIDE DEF m
  <2> QED BY <1>1, <2>2, <2>3, Zenon DEF Figured
<1>5. Blank(f, m + Len(ds))
  <2> SUFFICES ASSUME NEW i \in m + Len(ds) + 1 .. Len(f) PROVE f[i] = " "
    BY Zenon DEF Blank
  <2>1. i \in 1 .. Len(f)
    BY <1>2
  <2>2. InBehind(f, i, Len(bl) + Len(sg) + Len(px) + Len(ze) + Len(dg))
    BY <2>1, CharAt
  <2>3. Len(bl) + Len(sg) + Len(px) + Len(ze) + Len(dg) < i
    BY <1>1
  <2> QED BY <2>2, <2>3, Zenon DEF InBehind
<1> HIDE DEF m
<1>6. Shown(f, base) = IF \E i \in DOMAIN f : f[i] = "-" THEN -u ELSE u
  BY <1>2, <1>3, <1>4, <1>5, ReadsNumber
<1>7. ASSUME neg PROVE \E i \in DOMAIN f : f[i] = "-"
  <2>1. f[Len(bl) + 1] = "-" /\ Len(bl) + 1 \in 1 .. Len(f)
    BY <1>0, <1>7, Zenon DEF SignOnly
  <2> QED BY <1>1, <2>1, Zenon
<1>8. /\ Len(sg) = 1 => f[Len(bl) + 1] = sg[1] /\ (sg[1] = "-" => neg)
      /\ \A i \in 1 .. Len(f) : f[i] \in {"-", "+"} => Len(sg) = 1 /\ i = Len(bl) + 1
  BY <1>0, Zenon DEF SignOnly
<1>9. ASSUME NEW i \in DOMAIN f, f[i] = "-" PROVE neg
  <2>1. i \in 1 .. Len(f) /\ f[i] \in {"-", "+"}
    BY <1>1, <1>9, Zenon
  <2>2. Len(sg) = 1 /\ i = Len(bl) + 1
    BY <1>8, <2>1, Zenon
  <2> QED BY <1>8, <1>9, <2>2, Zenon
<1> QED BY <1>6, <1>7, <1>9, Zenon

(* The width of a number's field. *)
RoomUsed(b, z, e, t, len, left, zero) ==
    /\ b \in Nat /\ z \in Nat /\ e \in Nat
    /\ t >= len
    /\ b > 0 \/ e > 0 => t = len /\ ~zero
    /\ t > len \/ ~zero => z = 0
    /\ left \/ zero => b = 0
    /\ ~left \/ zero => e = 0

(* A field of t characters, where len were asked for. *)
Measured(b, s, p, z, n, e, room, t, len, left, zero) ==
    /\ room \in Int /\ left \in BOOLEAN /\ zero \in BOOLEAN
    /\ len \in Nat /\ s \in Nat /\ p \in Nat /\ n \in Nat
    /\ room = (len - n) - s - p
    /\ t = b + s + p + z + n + e
    /\ Fills(b, z, e, room, left, zero)

(* All the room there is goes to one place, and without room the field is wider. *)
LEMMA FieldLengths ==
    ASSUME NEW b, NEW s, NEW p, NEW z, NEW n, NEW e, NEW room, NEW t, NEW len, NEW left, NEW zero,
           Measured(b, s, p, z, n, e, room, t, len, left, zero)
    PROVE  RoomUsed(b, z, e, t, len, left, zero)
<1>0. /\ room \in Int /\ left \in BOOLEAN /\ zero \in BOOLEAN
      /\ len \in Nat /\ s \in Nat /\ p \in Nat /\ n \in Nat
      /\ room = (len - n) - s - p
      /\ t = b + s + p + z + n + e
      /\ Fills(b, z, e, room, left, zero)
  BY Zenon DEF Measured
<1> DEFINE m == IF room < 0 THEN 0 ELSE room
<1>1. /\ b = (IF ~zero /\ ~left THEN m ELSE 0)
      /\ z = (IF zero THEN m ELSE 0)
      /\ e = (IF ~zero /\ left THEN m ELSE 0)
  BY <1>0, Zenon DEF Fills
<1>2. m \in Nat /\ m >= room /\ (m > 0 => m = room)
  BY <1>0
<1> HIDE DEF m
<1>3. CASE zero
  BY <1>0, <1>1, <1>2, <1>3 DEF RoomUsed
<1>4. CASE ~zero /\ left
  BY <1>0, <1>1, <1>2, <1>4 DEF RoomUsed
<1>5. CASE ~zero /\ ~left
  BY <1>0, <1>1, <1>2, <1>5 DEF RoomUsed
<1> QED BY <1>0, <1>3, <1>4, <1>5

(* The field of a number: its width, where its blanks are, where its sign is *)
(* and what comes first.                                                   *)
LEMMA DrawnField ==
    ASSUME NEW d, d.zero \in BOOLEAN, Wide(d) \in Nat, Left(d) \in BOOLEAN,
           NEW f, NEW bl, NEW sg, NEW px, NEW ze, NEW dg, NEW be, NEW neg, NEW ds, NEW u,
           NEW spaced, ~spaced, Drawn(f, bl, sg, px, ze, dg, be, neg, spaced, ds, u),
           NEW room \in Int, room = (Wide(d) - Len(dg)) - Len(sg) - Len(px),
           Fills(Len(bl), Len(ze), Len(be), room, Left(d), d.zero),
           ~Has(d, "#") /\ d.conv # "p" => Len(px) = 0,
           d.arg[1].v # 0 => u > 0
    PROVE  NumberField(d, f)
<1> DEFINE b == Len(bl)
           s == Len(sg)
           p == Len(px)
           z == Len(ze)
           n == Len(dg)
           e == Len(be)
           len == Wide(d)
           left == Left(d)
           zero == d.zero
<1>1. /\ b \in Nat /\ s \in Nat /\ s \in 0 .. 1 /\ p \in Nat /\ z \in Nat /\ n \in Nat \ {0} /\ e \in Nat
      /\ Len(f) = b + s + p + z + n + e
      /\ DOMAIN f = 1 .. Len(f)
  <2>1. /\ b \in Nat /\ s \in 0 .. 1 /\ p \in 0 .. 2 /\ z \in Nat /\ n \in Nat \ {0} /\ e \in Nat
        /\ Len(f) = b + s + p + z + n + e
        /\ DOMAIN f = 1 .. Len(f)
    BY DrawnLengths
  <2> HIDE DEF b, s, p, z, n, e
  <2> QED BY <2>1
<1>2. len \in Nat /\ left \in BOOLEAN /\ zero \in BOOLEAN
  OBVIOUS
<1>3. room = (len - n) - s - p /\ Fills(b, z, e, room, left, zero)
  OBVIOUS
<1> HIDE DEF b, s, p, z, n, e, len, left, zero
<1>4. /\ Len(f) >= len
      /\ b > 0 \/ e > 0 => Len(f) = len /\ ~zero
      /\ Len(f) > len \/ ~zero => z = 0
      /\ left \/ zero => b = 0
      /\ ~left \/ zero => e = 0
  <2>1. n \in Nat
    BY <1>1
  <2> DEFINE t == Len(f)
  <2>2. t = b + s + p + z + n + e
    BY <1>1
  <2>3. s \in Nat /\ p \in Nat
    BY <1>1
  <2>4. room = (len - n) - s - p
    BY <1>3
  <2>5. Fills(b, z, e, room, left, zero)
    BY <1>3
  <2> HIDE DEF t
  <2>6. RoomUsed(b, z, e, t, len, left, zero)
    <3>1. room \in Int /\ len \in Nat /\ left \in BOOLEAN /\ zero \in BOOLEAN
      BY <1>2, Zenon
    <3>2. Measured(b, s, p, z, n, e, room, t, len, left, zero)
      BY <2>1, <2>2, <2>3, <2>4, <2>5, <3>1, Zenon DEF Measured
    <3> QED BY <3>2, FieldLengths, Zenon
  <2> QED BY <2>6, Zenon DEF RoomUsed, t
<1>5. \A i \in 1 .. Len(f) : Kinds(f, i, b, s, p, z, n, sg)
  BY KindAt, Zenon DEF b, s, p, z, n
<1>6. /\ s = 1 => sg[1] \in {"+", "-", " "} /\ sg[1] # " "
      /\ \A i \in 1 .. Len(f) : f[i] \in {"-", "+"} => s = 1 /\ i = b + 1
  <2>1. /\ Len(sg) = 1 => sg[1] \in {"+", "-", " "} /\ (sg[1] = "-" => neg) /\ (sg[1] = " " => spaced)
        /\ \A i \in 1 .. Len(f) : f[i] \in {"-", "+"} => Len(sg) = 1 /\ i = Len(bl) + 1
    <3>1. SignOnly(f, Len(bl), Len(sg), sg, neg, spaced)
      BY SignAt
    <3> QED BY <3>1, Zenon DEF SignOnly
  <2> QED BY <2>1, Zenon DEF s, b
<1> DEFINE Space == " "
<1>7. {"0", "x"} \subseteq {y \in {"0", "x"} : y # Space} /\ "0" # Space /\ Space \in {" ", "+", "-", "x"}
  OBVIOUS
<1>8. ASSUME NEW i \in 1 .. Len(f), f[i] = Space PROVE i <= b \/ b + s + p + z + n < i
  <2>1. Kinds(f, i, b, s, p, z, n, sg)
    BY <1>5
  <2>2. s = 1 => sg[1] # f[i]
    BY <1>6, <1>8, Zenon
  <2>3. f[i] \notin {"0", "x"} /\ f[i] # "0" /\ f[i] \in {" ", "+", "-", "x"}
    BY <1>7, <1>8, Zenon
  <2> QED BY <2>1, <2>2, <2>3, Zenon DEF Kinds
<1> HIDE <1>5, <1>6, <1>7
<1>9. ASSUME NEW i \in DOMAIN f, f[i] = Space PROVE Len(f) = len /\ ~zero
  <2>1. i \in 1 .. Len(f)
    BY <1>1, <1>9, Zenon
  <2>2. i <= b \/ b + s + p + z + n < i
    BY <1>8, <1>9, <2>1, Zenon
  <2>3. b > 0 \/ e > 0
    BY <1>1, <2>1, <2>2
  <2> QED BY <1>4, <2>3, Zenon
<1>10. ASSUME left PROVE f[1] # Space
  <2>1. 1 \in 1 .. Len(f) /\ ~ (1 <= b) /\ ~ (b + s + p + z + n < 1)
    BY <1>1, <1>4, <1>10
  <2> QED BY <1>8, <2>1, Zenon
<1>11. ASSUME ~left PROVE f[Len(f)] # Space
  <2>1. Len(f) \in 1 .. Len(f) /\ ~ (Len(f) <= b) /\ ~ (b + s + p + z + n < Len(f))
    BY <1>1, <1>4, <1>11
  <2> QED BY <1>8, <2>1, Zenon
<1>12. ASSUME zero, NEW i \in DOMAIN f, f[i] \in {"-", "+"} PROVE i = 1
  <2>1. i \in 1 .. Len(f)
    BY <1>1, <1>12, Zenon
  <2>2. i = b + 1
    BY <1>6, <1>12, <2>1, Zenon
  <2>3. b = 0
    BY <1>4, <1>12
  <2> QED BY <2>2, <2>3
<1>13. ASSUME ~zero \/ Len(f) > len, p = 0, u > 0
       PROVE  \E i \in DOMAIN f : /\ f[i] \notin {"+", "-", " ", "0"}
                                  /\ \A j \in 1 .. i - 1 : f[j] \in {"+", "-", " "}
  <2> DEFINE i == b + s + 1
  <2>1. z = 0
    BY <1>4, <1>13
  <2>2. i \in 1 .. Len(f) /\ b + s + p + z < i /\ i <= b + s + p + z + n /\ i = b + s + p + z + 1
        /\ 1 \in 1 .. n
    BY <1>1, <1>13, <2>1
  <2>3. Laid(f, bl, sg, px, ze, dg, be) /\ FigureLike(dg, ds, u)
    BY Zenon DEF Drawn
  <2>4. \A j \in 1 .. n : f[b + s + p + z + j] = dg[j]
    BY <2>3, Zenon DEF Laid, b, s, p, z, n
  <2>5. dg[1] # "0" /\ dg[1] \notin {" ", "+", "-", "x"}
    <3>1. 1 \in 1 .. Len(ds)
      BY <2>2, <2>3, Zenon DEF FigureLike, n
    <3> QED BY <1>13, <2>3, <3>1, Zenon DEF FigureLike
  <2> HIDE DEF i
  <2>6. f[i] = dg[1]
    BY <2>2, <2>4, Zenon
  <2>7. f[i] \notin {"+", "-", " ", "0"}
    BY <2>5, <2>6, Zenon
  <2>8. ASSUME NEW j \in 1 .. i - 1 PROVE f[j] \in {"+", "-", " "}
    <3>1. j \in 1 .. Len(f) /\ i \in Nat
      BY <1>1, <2>2
    <3>2. Kinds(f, j, b, s, p, z, n, sg)
      BY <1>5, <3>1, Zenon
    <3>3. /\ ~ (b + s < j /\ j <= b + s + p)
          /\ ~ (b + s + p < j /\ j <= b + s + p + z)
          /\ ~ (b + s + p + z < j)
          /\ ~ (b + s + p + z + n < j)
      BY <1>1, <1>13, <2>1, <2>2, <3>1
    <3> QED BY <1>6, <3>2, <3>3, Zenon DEF Kinds
  <2> QED BY <1>1, <2>2, <2>7, <2>8, Zenon
<1>14. ~Has(d, "#") /\ d.conv # "p" => p = 0
  BY Zenon DEF p
<1>15. /\ Len(f) >= Wide(d)
       /\ (\E i \in DOMAIN f : f[i] = " ") => Len(f) = Wide(d) /\ ~d.zero
       /\ IF Left(d) THEN f[1] # " " ELSE f[Len(f)] # " "
       /\ d.zero => \A i \in DOMAIN f : f[i] \in {"-", "+"} => i = 1
       /\ (~d.zero \/ Len(f) > Wide(d)) /\ ~Has(d, "#") /\ d.conv # "p" /\ d.arg[1].v # 0 =>
             \E i \in DOMAIN f : /\ f[i] \notin {"+", "-", " ", "0"}
                                 /\ \A j \in 1 .. i - 1 : f[j] \in {"+", "-", " "}
  BY <1>4, <1>9, <1>10, <1>11, <1>12, <1>13, <1>14, Zenon DEF len, left, zero
<1> QED BY <1>15, Zenon DEF NumberField

(* What a number's directive says, and its argument. *)
LEMMA NumberFacts ==
    ASSUME NEW d, WellFormed(d)
    PROVE  /\ d.width.n \in Int /\ Wide(d) \in Nat /\ Left(d) \in BOOLEAN /\ d.zero \in BOOLEAN
           /\ Seen(d, Len(d.flags), "#") = Has(d, "#")
           /\ SignBy(d, Len(d.flags)) \in {<<>>, <<"+">>, <<" ">>}
           /\ SignBy(d, Len(d.flags)) = <<" ">> => Has(d, " ")
           /\ Len(d.arg) > 0 => d.arg[1] \in Arguments /\ d.arg[1].v \in 0 .. 2 * Half - 1
<1>1. d.width \in Fields /\ d.zero \in BOOLEAN /\ d.arg \in Seq(Arguments)
  BY DirectiveTypes
<1>2. d.width.n \in Int
  BY <1>1 DEF Fields
<1>3. Wide(d) \in Nat
  <2>1. PICK n \in Int : n = d.width.n
    BY <1>2, Zenon
  <2>2. Wide(d) = IF n < 0 THEN -n ELSE n
    BY <2>1, Zenon DEF Wide
  <2> QED BY <2>2
<1>4. Left(d) \in BOOLEAN
  BY DEF Left
<1>5. Seen(d, Len(d.flags), "#") = Has(d, "#") /\ Seen(d, Len(d.flags), " ") = Has(d, " ")
  BY SeenAll
<1>6. SignBy(d, Len(d.flags)) \in {<<>>, <<"+">>, <<" ">>}
  BY Zenon DEF SignBy
<1>7. ASSUME SignBy(d, Len(d.flags)) = <<" ">> PROVE Has(d, " ")
  <2>1. <<"+">> # <<" ">> /\ <<>> # <<" ">>
    <3> HIDE <1>7
    <3> QED BY MarksDiffer
  <2>2. Seen(d, Len(d.flags), " ")
    BY <1>7, <2>1, Zenon DEF SignBy
  <2> QED BY <1>5, <2>2, Zenon
<1>8. ASSUME Len(d.arg) > 0 PROVE d.arg[1] \in Arguments /\ d.arg[1].v \in 0 .. 2 * Half - 1
  <2>1. Len(d.arg) \in Nat
    BY <1>1, LenProperties
  <2>2. 1 \in 1 .. Len(d.arg)
    BY <1>8, <2>1
  <2>3. d.arg[1] \in Arguments
    BY <1>1, <2>2, ElementOfSeq
  <2> QED BY <2>3 DEF Arguments
<1> QED BY <1>1, <1>2, <1>3, <1>4, <1>5, <1>6, <1>7, <1>8, Zenon

(* Seen with the flags and the width of its directive, a number's piece is *)
(* as it should be. *)
LEMMA NumberProper ==
    ASSUME NEW d, WellFormed(d), d.conv \in NumberConvs
    PROVE  Proper(d, NumberPiece(d.conv, d.arg[1].v, SignBy(d, Len(d.flags)), Seen(d, Len(d.flags), "#"),
                                 Wide(d), Left(d), IF d.zero THEN "0" ELSE " "))
<1> DEFINE conv == d.conv
           v    == d.arg[1].v
           plus == SignBy(d, Len(d.flags))
           alt  == Seen(d, Len(d.flags), "#")
           len  == Wide(d)
           left == Left(d)
           zero == d.zero
           u    == Magnitude(conv, v)
           neg  == Negative(conv, v)
           base == Base(conv)
           sg   == SignOf(conv, v, plus)
           px   == PrefixOf(conv, u, alt)
           dg   == DigitsOf(conv, u)
           ds   == Digits(u, base)
           spaced == plus = <<" ">>
           room == len - Len(dg) - Len(sg) - Len(px)
           f    == Around(sg, px, dg, room, left, IF zero THEN "0" ELSE " ")
<1>1. Len(d.arg) > 0
  <2>1. Len(d.arg) = Taken(d.conv)
    BY DirectiveTypes
  <2>2. Taken(d.conv) = 1
    BY Zenon DEF Taken
  <2> QED BY <2>1, <2>2
<1>2. /\ len \in Nat /\ left \in BOOLEAN /\ zero \in BOOLEAN
      /\ alt = Has(d, "#") /\ plus \in {<<>>, <<"+">>, <<" ">>}
      /\ (spaced => Has(d, " ")) /\ v \in 0 .. 2 * Half - 1
  BY <1>1, NumberFacts
<1>19. len \in Nat
  BY <1>2, Zenon
<1>20. left \in BOOLEAN /\ zero \in BOOLEAN
  BY <1>2, Zenon
<1>21. v \in 0 .. 2 * Half - 1
  BY <1>2, Zenon
<1>3. conv \in NumberConvs /\ base \in 2 .. 16
  BY BaseIs
<1>4. NumberPiece(conv, v, plus, alt, len, left, IF zero THEN "0" ELSE " ") = f
  BY Zenon DEF NumberPiece
<1>5. DigitsOf(conv, u) = Rendered(u, base, IF conv \in {"X", "Z"} THEN upper ELSE lower)
  BY Zenon DEF DigitsOf
<1>6. /\ u \in Nat /\ neg \in BOOLEAN
      /\ neg => conv \in SignedConvs /\ -u = Signed(v)
      /\ ~neg /\ conv \in SignedConvs => u = Signed(v)
      /\ ~neg => u = v
      /\ v > 0 => u > 0
  <2> HIDE DEF conv, v
  <2> QED BY <1>2, MagnitudeIs
<1>7. SignLike(sg, neg, spaced)
  <2> HIDE DEF conv, v, plus
  <2>1. neg \in BOOLEAN /\ plus \in {<<>>, <<"+">>, <<" ">>}
    BY <1>2, <1>6
  <2> QED BY <2>1, SignIs, Zenon
<1>8. PrefixLike(px) /\ (~alt /\ conv # "p" => Len(px) = 0)
  <2> HIDE DEF conv, u, alt
  <2> QED BY PrefixIs, Zenon
<1>9. Spells(ds, base, u) /\ FigureLike(dg, ds, u)
  <2> DEFINE table == IF conv \in {"X", "Z"} THEN upper ELSE lower
  <2>1. table \in {lower, upper}
    BY Zenon
  <2>2. dg = Rendered(u, base, table)
    BY <1>5, Zenon
  <2> HIDE DEF table, conv, u, base, dg
  <2>3. Spells(ds, base, u) /\ FigureLike(Rendered(u, base, table), ds, u)
    BY <1>3, <1>6, <2>1, RenderedIs
  <2> QED BY <2>2, <2>3, Zenon
<1>10. Len(dg) \in Nat \ {0} /\ Len(sg) \in Nat /\ Len(px) \in Nat
  <2> HIDE DEF sg, px, dg, ds
  <2>1. Len(dg) = Len(ds) /\ Len(ds) \in Nat \ {0}
    BY <1>9, Zenon DEF Spells, FigureLike
  <2>2. sg \in Seq(Chars) /\ px \in Seq(Chars)
    BY <1>7, <1>8, Zenon DEF SignLike, PrefixLike
  <2> QED BY <2>1, <2>2, LenProperties
<1>11. room \in Int
  <2> HIDE DEF sg, px, dg, len
  <2> QED BY <1>19, <1>10
<1>12. Parted(sg, px, dg, room, left, zero, neg, spaced, ds, u)
  <2> HIDE DEF sg, px, dg, room, left, zero, neg, spaced, ds, u
  <2>1. PrefixLike(px) /\ FigureLike(dg, ds, u) /\ Len(dg) \in Nat \ {0}
    BY <1>8, <1>9, <1>10, Zenon
  <2> QED BY <1>20, <1>7, <1>11, <2>1, AroundIs
<1>13. PICK bl, ze, be :
           /\ Drawn(f, bl, sg, px, ze, dg, be, neg, spaced, ds, u)
           /\ Fills(Len(bl), Len(ze), Len(be), room, left, zero)
  BY <1>12, Zenon DEF Parted
<1>14. Shown(f, base) = IF neg THEN -u ELSE u
  <2> HIDE DEF f, sg, px, dg, neg, spaced, ds, u, base
  <2>1. base \in Nat
    BY <1>3
  <2> QED BY <1>6, <1>9, <1>13, <2>1, DrawnShows
<1>15. ReadsBack(d, f)
  <2>1. Shown(f, base) = IF conv \in SignedConvs THEN Signed(v) ELSE v
    <3> HIDE DEF f, base, u, neg, conv, v
    <3> QED BY <1>6, <1>14, Zenon
  <2> QED BY <2>1, Zenon DEF ReadsBack
<1>16. ASSUME ~Has(d, " ") PROVE NumberField(d, f)
  <2>1. ~spaced
    BY <1>2, <1>16
  <2>2. ~Has(d, "#") /\ d.conv # "p" => Len(px) = 0
    BY <1>2, <1>8, Zenon
  <2>3. d.arg[1].v # 0 => u > 0
    <3>1. v # 0 => v > 0
      <4> HIDE DEF v
      <4> QED BY <1>21, WordAssumption
    <3> QED BY <1>6, <3>1, Zenon
  <2>4. room = (Wide(d) - Len(dg)) - Len(sg) - Len(px)
    OBVIOUS
  <2>5. d.zero \in BOOLEAN /\ Wide(d) \in Nat /\ Left(d) \in BOOLEAN
    BY <1>2
  <2>6. Fills(Len(bl), Len(ze), Len(be), room, Left(d), d.zero)
    BY <1>13, Zenon
  <2> HIDE DEF f, sg, px, dg, neg, spaced, ds, u, room
  <2> QED BY <1>11, <1>13, <2>1, <2>2, <2>3, <2>4, <2>5, <2>6, DrawnField
<1>17. d.conv # "s"
  BY DEF NumberConvs, SignedConvs
<1>18. Proper(d, f)
  BY <1>15, <1>16, <1>17, Zenon DEF Proper
<1> QED BY <1>4, <1>18, Zenon

-----------------------------------------------------------------------------
(* The piece of a string. *)

(* PutString puts part of the string, and blanks before it or behind it.   *)
StringPiece(p, most, len, left) ==
    LET limit  == IF most = -1 THEN Len(p) ELSE IF most < 0 THEN 0 ELSE most
        some   == IF Len(p) < limit THEN Len(p) ELSE limit
        cut    == IF len > 0 /\ len < limit THEN len ELSE limit
        shown  == IF Len(p) < cut THEN Len(p) ELSE cut
        n      == IF Len(p) > cut THEN cut + 1 ELSE Len(p)
        blanks == IF len > 0 /\ ~left THEN Pad(" ", len - some) ELSE <<>>
        behind == IF left THEN Pad(" ", len - n) ELSE <<>>
    IN  blanks \o SubSeq(p, 1, shown) \o behind

(* The lengths of the three: l of the string, w of the field.              *)
Fitted(l, limit, w, left, b, shown, e) ==
    LET part  == IF limit < l THEN limit ELSE l
        short == left /\ part < l /\ part < w
    IN  /\ b \in Nat /\ e \in Nat /\ shown \in 0 .. l
        /\ shown = (IF 0 < w /\ w < part THEN w ELSE part)
        /\ b = (IF left \/ w = 0 THEN 0 ELSE w - shown)
        /\ b + shown + e = (IF w = 0 THEN part ELSE IF short THEN w - 1 ELSE w)

(* That is what the parts of StringPiece come to. *)
LEMMA StringLengths ==
    ASSUME NEW l \in Nat, NEW limit \in Nat, NEW w \in Nat, NEW left \in BOOLEAN,
           NEW some, some = IF l < limit THEN l ELSE limit,
           NEW cut, cut = IF w > 0 /\ w < limit THEN w ELSE limit,
           NEW shown, shown = IF l < cut THEN l ELSE cut,
           NEW n, n = IF l > cut THEN cut + 1 ELSE l,
           NEW b, b = IF w > 0 /\ ~left THEN (IF w - some < 0 THEN 0 ELSE w - some) ELSE 0,
           NEW e, e = IF left THEN (IF w - n < 0 THEN 0 ELSE w - n) ELSE 0
    PROVE  Fitted(l, limit, w, left, b, shown, e)
<1>1. cut \in Nat /\ some \in Nat /\ (cut = limit \/ (cut = w /\ w > 0 /\ w < limit))
  OBVIOUS
<1>2. shown \in Nat /\ n \in Nat /\ shown <= l
  BY <1>1
<1>3. CASE left
  BY <1>1, <1>2, <1>3 DEF Fitted
<1>4. CASE ~left
  BY <1>1, <1>2, <1>4 DEF Fitted
<1> QED BY <1>3, <1>4

(* What is where in the three parts. *)
Shows(f, s, at, shown, x) ==
    /\ DOMAIN f = 1 .. Len(f)
    /\ \A i \in 1 .. Len(f) : f[i] = IF i > at /\ i <= at + shown THEN s[i - at] ELSE x

(* Of three parts, the one in the middle is the string's. *)
LEMMA ThreeParts ==
    ASSUME NEW T, NEW x \in T, NEW s \in Seq(T), NEW bl \in Seq(T), NEW be \in Seq(T),
           AllAre(bl, x), AllAre(be, x), NEW shown \in 0 .. Len(s)
    PROVE  /\ Len(bl \o SubSeq(s, 1, shown) \o be) = Len(bl) + shown + Len(be)
           /\ Shows(bl \o SubSeq(s, 1, shown) \o be, s, Len(bl), shown, x)
<1> DEFINE m == SubSeq(s, 1, shown)
           q == bl \o m
           f == q \o be
<1>1. Len(s) \in Nat /\ \A i \in 1 .. Len(s) : s[i] \in T
  BY LenProperties, ElementOfSeq
<1>2. m \in Seq(T) /\ Len(m) = shown /\ \A i \in 1 .. shown : m[i] = s[i]
  <2>1. 1 \in Int /\ shown \in Int /\ \A i \in 1 .. shown : s[i] \in T
    BY <1>1
  <2>2. /\ m \in Seq(T) /\ Len(m) = IF 1 <= shown THEN shown - 1 + 1 ELSE 0
        /\ \A i \in 1 .. shown - 1 + 1 : m[i] = s[1 + i - 1]
    BY <2>1, SubSeqProperties
  <2> HIDE DEF m
  <2>3. shown - 1 + 1 = shown /\ (~ (1 <= shown) => shown = 0)
    BY <1>1
  <2>4. \A i \in 1 .. shown : 1 + i - 1 = i
    OBVIOUS
  <2> QED BY <2>2, <2>3, <2>4
<1> HIDE DEF m
<1>3. bl \in Seq(T) /\ be \in Seq(T)
  OBVIOUS
<1>4. q \in Seq(T) /\ Halves(q, bl, m)
  BY <1>2, <1>3, Concatenated
<1> HIDE DEF q
<1>5. f \in Seq(T) /\ Halves(f, q, be)
  BY <1>3, <1>4, Concatenated
<1>6. DOMAIN f = 1 .. Len(f)
  BY <1>5, LenProperties
<1> HIDE DEF f
<1> DEFINE b == Len(bl)
           e == Len(be)
<1>7. /\ b \in Nat /\ e \in Nat /\ shown \in Nat
      /\ Len(q) = b + shown /\ Len(f) = b + shown + e
  BY <1>1, <1>2, <1>4, <1>5 DEF Halves
<1>8. /\ \A i \in 1 .. Len(q) : f[i] = q[i]
      /\ \A i \in 1 .. e : f[Len(q) + i] = be[i]
      /\ \A i \in 1 .. b : q[i] = bl[i]
      /\ \A i \in 1 .. shown : q[b + i] = m[i]
  BY <1>2, <1>4, <1>5, Zenon DEF Halves
<1>9. (\A i \in 1 .. b : bl[i] = x) /\ (\A i \in 1 .. e : be[i] = x)
  BY Zenon DEF AllAre
<1>10. ASSUME NEW i \in 1 .. Len(f)
       PROVE  f[i] = IF i > b /\ i <= b + shown THEN s[i - b] ELSE x
  <2> HIDE DEF b, e
  <2>1. CASE i <= b
    <3>1. i \in 1 .. b /\ i \in 1 .. Len(q) /\ ~ (i > b)
      BY <1>7, <2>1
    <3>2. f[i] = x
      BY <1>8, <1>9, <3>1, Zenon
    <3> QED BY <3>1, <3>2, Zenon
  <2>2. CASE i > b /\ i <= b + shown
    <3>1. i - b \in 1 .. shown /\ b + (i - b) = i /\ i \in 1 .. Len(q)
      BY <1>7, <2>2
    <3>2. f[i] = m[i - b]
      BY <1>8, <3>1, Zenon
    <3>3. f[i] = s[i - b]
      BY <1>2, <3>1, <3>2, Zenon
    <3> QED BY <2>2, <3>3, Zenon
  <2>3. CASE i > b + shown
    <3> DEFINE j == i - Len(q)
    <3>1. j \in 1 .. e /\ Len(q) + j = i /\ ~ (i <= b + shown)
      BY <1>7, <2>3
    <3> HIDE DEF j
    <3>2. f[i] = x
      BY <1>8, <1>9, <3>1, Zenon
    <3> QED BY <3>1, <3>2, Zenon
  <2>4. i <= b \/ (i > b /\ i <= b + shown) \/ i > b + shown
    BY <1>7
  <2> QED BY <2>1, <2>2, <2>3, <2>4
<1>11. Shows(f, s, b, shown, x)
  BY <1>6, <1>10, Zenon DEF Shows
<1> QED BY <1>7, <1>11, Zenon DEF f, q, m, b, e

(* The characters of strings, and the blank. *)
Texts == STRING \cup {" "}

(* Blanks, or nothing. *)
LEMMA BlanksOrNone ==
    ASSUME NEW n \in Int, NEW some \in BOOLEAN, NEW x \in Texts, NEW bl,
           bl = IF some THEN Pad(x, n) ELSE <<>>
    PROVE  /\ bl \in Seq(Texts) /\ AllAre(bl, x)
           /\ Len(bl) = IF some THEN (IF n < 0 THEN 0 ELSE n) ELSE 0
<1>1. CASE some
  <2>1. bl = Pad(x, n)
    BY <1>1, Zenon
  <2>2. /\ bl \in Seq(Texts) /\ Len(bl) = (IF n < 0 THEN 0 ELSE n)
        /\ \A i \in 1 .. Len(bl) : bl[i] = x
    BY <2>1, Padded
  <2> QED BY <1>1, <2>2, Zenon DEF AllAre
<1>2. CASE ~some
  <2>1. bl = <<>>
    BY <1>2, Zenon
  <2>2. bl \in Seq(Texts) /\ Len(bl) = 0
    BY <2>1, EmptySeq
  <2>3. AllAre(bl, x)
    <3>1. \A i \in 1 .. 0 : FALSE
      OBVIOUS
    <3> QED BY <2>2, <3>1, Zenon DEF AllAre
  <2> QED BY <1>2, <2>2, <2>3
<1> QED BY <1>1, <1>2

(* Shown as its directive says, a string's field is as it should be. *)
LEMMA StringProper ==
    ASSUME NEW d, WellFormed(d), d.conv = "s"
    PROVE  Proper(d, StringPiece(d.arg[1].str, Precision(d), Wide(d), Left(d)))
<1> DEFINE s      == d.arg[1].str
           l      == Len(s)
           most   == Precision(d)
           w      == Wide(d)
           left   == Left(d)
           limit  == IF most = -1 THEN l ELSE IF most < 0 THEN 0 ELSE most
           some   == IF l < limit THEN l ELSE limit
           cut    == IF w > 0 /\ w < limit THEN w ELSE limit
           shown  == IF l < cut THEN l ELSE cut
           n      == IF l > cut THEN cut + 1 ELSE l
           bl     == IF w > 0 /\ ~left THEN Pad(" ", w - some) ELSE <<>>
           be     == IF left THEN Pad(" ", w - n) ELSE <<>>
           f      == bl \o SubSeq(s, 1, shown) \o be
<1>1. Len(d.arg) > 0
  <2>1. Len(d.arg) = Taken(d.conv)
    BY DirectiveTypes
  <2>2. Taken(d.conv) = 1
    BY Zenon DEF Taken
  <2> QED BY <2>1, <2>2
<1>2. s \in Seq(Texts) /\ l \in Nat
  <2>1. d.arg[1] \in Arguments
    BY <1>1, NumberFacts
  <2>2. s \in Seq(STRING)
    BY <2>1 DEF Arguments
  <2>3. STRING \subseteq Texts
    BY DEF Texts
  <2>4. s \in Seq(Texts)
    <3> HIDE DEF s
    <3> QED BY <2>2, <2>3, SeqMonotonic
  <2> HIDE DEF s
  <2> QED BY <2>4, LenProperties
<1>3. w \in Nat /\ left \in BOOLEAN
  BY NumberFacts
<1>4. most \in Int
  <2>1. d.prec.n \in Int
    BY DirectiveTypes DEF Fields
  <2> QED BY <2>1 DEF Precision
<1>5. l \in Nat
  BY <1>2, Zenon
<1>6. " " \in Texts
  BY Zenon DEF Texts
<1>7. f = StringPiece(s, most, w, left)
  BY Zenon DEF StringPiece
<1>8. limit = IF d.prec.by = "none" \/ d.prec.n = -1 THEN Len(s) ELSE IF d.prec.n < 0 THEN 0 ELSE d.prec.n
  <2> HIDE DEF s
  <2>1. CASE d.prec.by = "none"
    BY <2>1, Zenon DEF Precision
  <2>2. CASE d.prec.by # "none"
    BY <2>2, Zenon DEF Precision
  <2> QED BY <2>1, <2>2, Zenon
<1> HIDE DEF l, most, w, left
<1>9. limit \in Nat
  BY <1>4, <1>5
<1>10. limit = IF most = -1 THEN l ELSE IF most < 0 THEN 0 ELSE most
  OBVIOUS
<1> HIDE DEF limit
<1>11. some \in Nat /\ cut \in Nat /\ shown \in 0 .. l /\ n \in Nat
  BY <1>3, <1>5, <1>9
<1>12. w - some \in Int /\ w - n \in Int /\ (w > 0 /\ ~left) \in BOOLEAN
  <2> HIDE DEF some, n
  <2> QED BY <1>3, <1>11
<1>13. /\ bl \in Seq(Texts) /\ AllAre(bl, " ")
       /\ Len(bl) = IF w > 0 /\ ~left THEN (IF w - some < 0 THEN 0 ELSE w - some) ELSE 0
  <2> DEFINE m == w - some
             g == w > 0 /\ ~left
  <2>1. bl = IF g THEN Pad(" ", m) ELSE <<>>
    OBVIOUS
  <2>2. m \in Int /\ g \in BOOLEAN
    BY <1>12
  <2> HIDE DEF m, g, bl
  <2>3. /\ bl \in Seq(Texts) /\ AllAre(bl, " ")
        /\ Len(bl) = IF g THEN (IF m < 0 THEN 0 ELSE m) ELSE 0
    BY <1>6, <2>1, <2>2, BlanksOrNone, Zenon
  <2> QED BY <2>3, Zenon DEF m, g
<1>14. /\ be \in Seq(Texts) /\ AllAre(be, " ")
       /\ Len(be) = IF left THEN (IF w - n < 0 THEN 0 ELSE w - n) ELSE 0
  <2> DEFINE m == w - n
  <2>1. be = IF left THEN Pad(" ", m) ELSE <<>>
    OBVIOUS
  <2>2. m \in Int /\ left \in BOOLEAN
    BY <1>3, <1>12
  <2> HIDE DEF m, be
  <2>3. /\ be \in Seq(Texts) /\ AllAre(be, " ")
        /\ Len(be) = IF left THEN (IF m < 0 THEN 0 ELSE m) ELSE 0
    BY <1>6, <2>1, <2>2, BlanksOrNone, Zenon
  <2> QED BY <2>3, Zenon DEF m
<1>15. Fitted(l, limit, w, left, Len(bl), shown, Len(be))
  <2> DEFINE b == Len(bl)
             e == Len(be)
  <2>1. b = IF w > 0 /\ ~left THEN (IF w - some < 0 THEN 0 ELSE w - some) ELSE 0
    BY <1>13, Zenon
  <2>2. e = IF left THEN (IF w - n < 0 THEN 0 ELSE w - n) ELSE 0
    BY <1>14, Zenon
  <2>3. some = (IF l < limit THEN l ELSE limit) /\ cut = (IF w > 0 /\ w < limit THEN w ELSE limit)
    OBVIOUS
  <2>4. shown = (IF l < cut THEN l ELSE cut) /\ n = (IF l > cut THEN cut + 1 ELSE l)
    OBVIOUS
  <2>5. w \in Nat
    BY <1>3, Zenon
  <2>6. left \in BOOLEAN
    BY <1>3, Zenon
  <2> HIDE DEF b, e, some, cut, shown, n
  <2> QED BY <1>5, <1>9, <2>1, <2>2, <2>3, <2>4, <2>5, <2>6, StringLengths, ZenonT(40) DEF b, e
<1>16. Len(f) = Len(bl) + shown + Len(be) /\ Shows(f, s, Len(bl), shown, " ")
  <2>1. shown \in 0 .. Len(s)
    BY <1>11, Zenon DEF l
  <2> HIDE DEF bl, be, shown, s
  <2> QED BY <1>2, <1>6, <1>13, <1>14, <2>1, ThreeParts
<1> DEFINE part  == IF limit < l THEN limit ELSE l
           short == left /\ part < l /\ part < w
<1>17. /\ shown = (IF 0 < w /\ w < part THEN w ELSE part)
       /\ Len(bl) = (IF left \/ w = 0 THEN 0 ELSE w - shown)
       /\ Len(bl) + shown + Len(be) = (IF w = 0 THEN part ELSE IF short THEN w - 1 ELSE w)
  BY <1>15, Zenon DEF Fitted
<1>18. DOMAIN f = 1 .. Len(f) /\ \A i \in 1 .. Len(f) :
          f[i] = IF i > Len(bl) /\ i <= Len(bl) + shown THEN s[i - Len(bl)] ELSE " "
  BY <1>16, Zenon DEF Shows
<1>19. StringField(d, f)
  <2> DEFINE b == Len(bl)
             e == Len(be)
  <2>1. Len(f) = (IF w = 0 THEN part ELSE IF short THEN w - 1 ELSE w)
    BY <1>16, <1>17, Zenon
  <2>2. \A i \in DOMAIN f : f[i] = IF i > b /\ i <= b + shown THEN s[i - b] ELSE " "
    BY <1>18, Zenon
  <2>3. b = (IF left \/ w = 0 THEN 0 ELSE w - shown)
    BY <1>17, Zenon
  <2>4. shown = (IF 0 < w /\ w < part THEN w ELSE part)
    BY <1>17, Zenon
  <2> HIDE DEF f, b, e, shown
  <2> DEFINE shown2 == IF 0 < w /\ w < part THEN w ELSE part
             at2    == IF left \/ w = 0 THEN 0 ELSE w - shown2
  <2>5. shown = shown2 /\ b = at2
    BY <2>3, <2>4, Zenon
  <2>6. \A i \in DOMAIN f : f[i] = IF i > at2 /\ i <= at2 + shown2 THEN s[i - at2] ELSE " "
    BY <2>2, <2>5, Zenon
  <2>7. StringField(d, f) = (/\ Len(f) = (IF w = 0 THEN part ELSE IF short THEN w - 1 ELSE w)
                            /\ \A i \in DOMAIN f : f[i] = IF i > at2 /\ i <= at2 + shown2 THEN s[i - at2] ELSE " ")
    <3> HIDE DEF f
    <3>1. limit = IF d.prec.by = "none" \/ d.prec.n = -1 THEN Len(s) ELSE IF d.prec.n < 0 THEN 0 ELSE d.prec.n
      BY <1>8, <1>10, Zenon DEF l
    <3> QED BY <3>1, ZenonT(40) DEF StringField, w, l, left
  <2> QED BY <2>1, <2>6, <2>7, Zenon
<1>20. d.conv \notin NumberConvs
  BY DEF NumberConvs, SignedConvs
<1>21. Proper(d, f)
  BY <1>19, <1>20, Zenon DEF Proper
<1> QED BY <1>7, <1>21, Zenon DEF most, w, left
-----------------------------------------------------------------------------
(* The conversions. *)

(* A conversion puts the piece it should, and takes what is its own: the   *)
(* colon is next, and the arguments of what is behind.                     *)
Converted(d, r, u) ==
    /\ UNCHANGED Input
    /\ phase' = "text"
    /\ d.conv # "missing"
    /\ Stands(<<":">> \o r, u)'
    /\ \E piece : Proper(d, piece) /\ out' = Append(out, piece)

(* At the conversion, it is what the character says. *)
LEMMA AtConvIs ==
    ASSUME NEW d, NEW r, NEW u, Scope(d, r, u), ConvAt(d, r, u)
    PROVE  /\ c = IF d.conv = "missing" THEN "NUL" ELSE d.conv
           /\ d.conv \in NumberConvs \cup {"s", "c", "b", "B", "%", "missing"}
           /\ c # "NUL" => c = d.conv /\ d.conv # "missing"
           /\ c = "NUL" => d.conv = "missing"
<1>1. WellFormed(d) /\ r \in Seq(Letters) /\ (d.conv = "missing" => r = <<>>) /\ fmt \in Seq(Letters)
  BY DEF Scope
<1>2. Stands(AtConv(d, r), OwnArgs(d, u))
  BY DEF ConvAt
<1>3. AtConv(d, r) \in Seq(Letters)
  BY <1>1, PartTypes
<1>4. c = FirstOf(AtConv(d, r))
  BY <1>1, <1>2, <1>3, Look
<1>5. FirstOf(AtConv(d, r)) = IF d.conv = "missing" THEN "NUL" ELSE d.conv
  BY <1>1, ConvPart
<1>6. d.conv \in NumberConvs \cup {"s", "c", "b", "B", "%", "missing"}
  BY <1>1, DirectiveTypes
<1>7. "NUL" \notin NumberConvs \cup {"s", "c", "b", "B", "%"}
  BY DEF NumberConvs, SignedConvs
<1>8. d.conv # "missing" => d.conv # "NUL"
  <2> SUFFICES ASSUME d.conv # "missing" PROVE d.conv # "NUL"
    OBVIOUS
  <2>1. d.conv \in NumberConvs \cup {"s", "c", "b", "B", "%"}
    BY <1>6, Zenon
  <2> QED BY <1>7, <2>1, Zenon
<1>9. c = IF d.conv = "missing" THEN "NUL" ELSE d.conv
  BY <1>4, <1>5, Zenon
<1> QED BY <1>6, <1>8, <1>9, Zenon

(* Its arguments are next. *)
LEMMA AtArgs ==
    ASSUME NEW d, NEW r, NEW u, Scope(d, r, u), ConvAt(d, r, u)
    PROVE  /\ ap \in Nat /\ Len(d.arg) \in Nat
           /\ Ahead(args, ap + Len(d.arg), u)
           /\ Len(d.arg) > 0 => args[ap] = d.arg[1]
<1>1. WellFormed(d) /\ u \in Seq(Arguments) /\ args \in Seq(Arguments)
  BY DEF Scope
<1>2. Ahead(args, ap, d.arg \o u)
  BY Zenon DEF ConvAt, Stands, OwnArgs
<1>3. d.arg \in Seq(Arguments)
  BY <1>1, DirectiveTypes
<1>4. /\ ap \in Nat /\ Len(d.arg) \in Nat
      /\ Ahead(args, ap + Len(d.arg), u)
      /\ Len(d.arg) > 0 => args[ap] = d.arg[1]
  <2> DEFINE p == d.arg
             a == args
  <2>1. p \in Seq(Arguments) /\ a \in Seq(Arguments) /\ Ahead(a, ap, p \o u)
    BY <1>1, <1>2, <1>3
  <2> HIDE DEF p, a
  <2>2. /\ ap \in Nat /\ Len(p) \in Nat
        /\ Ahead(a, ap + Len(p), u)
        /\ Len(p) > 0 => a[ap] = p[1]
    BY <1>1, <2>1, AheadMore
  <2> QED BY <2>2, Zenon DEF p, a
<1> QED BY <1>4

(* Put, of the right piece and with the right number of arguments. *)
LEMMA PutStep ==
    ASSUME NEW d, NEW r, NEW u, Scope(d, r, u), ConvAt(d, r, u), d.conv # "missing",
           NEW piece, Proper(d, piece), NEW n, n = Taken(d.conv), Put(piece, n)
    PROVE  Converted(d, r, u)
<1>1. WellFormed(d) /\ r \in Seq(Letters) /\ (d.conv = "missing" => r = <<>>) /\ fmt \in Seq(Letters)
  BY DEF Scope
<1>2. Stands(AtConv(d, r), OwnArgs(d, u))
  BY DEF ConvAt
<1>3. Begins(AtConv(d, r), d.conv, <<":">> \o r)
  BY <1>1, ConvPart
<1>4. Ahead(fmt, pos + 1, <<":">> \o r)
  BY <1>1, <1>2, <1>3, Forth
<1>5. Len(d.arg) = n
  BY <1>1, DirectiveTypes
<1>6. Ahead(args, ap + Len(d.arg), u)
  BY AtArgs
<1>7. out' = Append(out, piece) /\ ap' = ap + n /\ pos' = pos + 1 /\ phase' = "text" /\ UNCHANGED Input
  BY Zenon DEF Put
<1>8. fmt' = fmt /\ args' = args
  BY <1>7 DEF Input
<1>9. Ahead(args, ap + n, u)
  BY <1>5, <1>6, Zenon
<1>10. Stands(<<":">> \o r, u)'
  BY <1>4, <1>7, <1>8, <1>9, Zenon DEF Stands
<1> QED BY <1>7, <1>10, Zenon DEF Converted

(* The argument, where one is taken. *)
LEMMA OneTaken ==
    ASSUME NEW d, NEW r, NEW u, Scope(d, r, u), ConvAt(d, r, u), Taken(d.conv) = 1
    PROVE  args[ap] = d.arg[1]
<1>1. WellFormed(d)
  BY DEF Scope
<1>2. Len(d.arg) = Taken(d.conv)
  BY <1>1, DirectiveTypes
<1>3. Len(d.arg) > 0
  BY <1>2
<1> QED BY <1>3, AtArgs

(* What was read of the directive. *)
LEMMA AllReadIs ==
    ASSUME NEW d, AllRead(d)
    PROVE  /\ plus_sign = SignBy(d, Len(d.flags)) /\ altfmt = Seen(d, Len(d.flags), "#")
           /\ length = Wide(d) /\ ladjust = Left(d) /\ prec = Precision(d)
           /\ padc = IF d.zero THEN "0" ELSE " "
BY Zenon DEF AllRead, AllFlagsRead, FlagsRead, ZeroRead, WidthRead

(* print_num: a number. *)
LEMMA NumberStep ==
    ASSUME NEW d, NEW r, NEW u, Scope(d, r, u), ConvAt(d, r, u), print_num
    PROVE  Converted(d, r, u)
<1>1. c \in NumberConvs
  BY DEF print_num
<1>2. c # "NUL"
  BY <1>1 DEF NumberConvs, SignedConvs
<1>3. c = d.conv /\ d.conv # "missing"
  BY <1>2, AtConvIs
<1>4. d.conv \in NumberConvs
  BY <1>1, <1>3
<1>5. Taken(d.conv) = 1
  BY <1>4, Zenon DEF Taken
<1>6. args[ap] = d.arg[1]
  BY <1>5, OneTaken
<1>7. WellFormed(d) /\ AllRead(d)
  BY DEF Scope, ConvAt
<1>8. /\ plus_sign = SignBy(d, Len(d.flags)) /\ altfmt = Seen(d, Len(d.flags), "#")
      /\ length = Wide(d) /\ ladjust = Left(d)
      /\ padc = IF d.zero THEN "0" ELSE " "
  BY <1>7, AllReadIs
<1> DEFINE piece == NumberPiece(c, args[ap].v, plus_sign, altfmt, length, ladjust, padc)
<1>9. Put(piece, 1)
  BY Zenon DEF print_num, NumberPiece, Around, SignOf, PrefixOf, DigitsOf, Magnitude, Negative
<1>10. piece = NumberPiece(d.conv, d.arg[1].v, SignBy(d, Len(d.flags)), Seen(d, Len(d.flags), "#"),
                           Wide(d), Left(d), IF d.zero THEN "0" ELSE " ")
  BY <1>3, <1>6, <1>8, Zenon
<1> HIDE DEF piece
<1>11. Proper(d, piece)
  <2>1. Proper(d, NumberPiece(d.conv, d.arg[1].v, SignBy(d, Len(d.flags)), Seen(d, Len(d.flags), "#"),
                              Wide(d), Left(d), IF d.zero THEN "0" ELSE " "))
    BY <1>4, <1>7, NumberProper, Zenon
  <2> QED BY <1>10, <2>1, Zenon
<1> QED BY <1>3, <1>5, <1>9, <1>11, PutStep, Zenon

(* PutString: a string. *)
LEMMA StringStep ==
    ASSUME NEW d, NEW r, NEW u, Scope(d, r, u), ConvAt(d, r, u), PutString
    PROVE  Converted(d, r, u)
<1>1. c = "s"
  BY DEF PutString
<1>2. c # "NUL"
  BY <1>1
<1>3. c = d.conv /\ d.conv # "missing"
  BY <1>2, AtConvIs
<1>4. d.conv = "s"
  BY <1>1, <1>3
<1>5. Taken(d.conv) = 1
  BY <1>4, Zenon DEF Taken
<1>6. args[ap] = d.arg[1]
  BY <1>5, OneTaken
<1>7. WellFormed(d) /\ AllRead(d)
  BY DEF Scope, ConvAt
<1>8. length = Wide(d) /\ ladjust = Left(d) /\ prec = Precision(d)
  BY <1>7, AllReadIs
<1> DEFINE p     == IF args[ap].v = 0 THEN <<>> ELSE args[ap].str
           piece == StringPiece(p, prec, length, ladjust)
<1>9. Put(piece, 1)
  BY Zenon DEF PutString, StringPiece
<1>10. p = d.arg[1].str
  <2>1. d.arg[1].v = 0 => d.arg[1].str = <<>>
    BY <1>4, <1>7, Zenon DEF WellFormed
  <2> QED BY <1>6, <2>1, Zenon
<1>11. piece = StringPiece(d.arg[1].str, Precision(d), Wide(d), Left(d))
  BY <1>8, <1>10, Zenon
<1> HIDE DEF piece
<1>12. Proper(d, piece)
  BY <1>4, <1>7, <1>11, StringProper, Zenon
<1> QED BY <1>3, <1>5, <1>9, <1>12, PutStep, Zenon

(* PutChar, PutBits and Unknown: nothing is asked of their pieces. *)
LEMMA OtherStep ==
    ASSUME NEW d, NEW r, NEW u, Scope(d, r, u), ConvAt(d, r, u), PutChar \/ PutBits \/ Unknown
    PROVE  Converted(d, r, u)
<1>1. /\ "c" \notin NumberConvs \cup {"s", "NUL"}
      /\ "b" \notin NumberConvs \cup {"s", "c", "NUL"}
      /\ "B" \notin NumberConvs \cup {"s", "c", "NUL"}
  BY DEF NumberConvs, SignedConvs
<1>2. \A piece : d.conv \notin NumberConvs /\ d.conv # "s" => Proper(d, piece)
  BY Zenon DEF Proper
<1>3. CASE PutChar
  <2>1. c = "c" /\ Put(<<args[ap].v>>, 1)
    BY <1>3, Zenon DEF PutChar
  <2>2. c = d.conv /\ d.conv # "missing"
    BY <1>1, <2>1, AtConvIs
  <2>3. Taken(d.conv) = 1
    BY <2>1, <2>2, Zenon DEF Taken
  <2>4. d.conv \notin NumberConvs /\ d.conv # "s"
    BY <1>1, <2>1, <2>2
  <2> QED BY <1>2, <2>1, <2>2, <2>3, <2>4, PutStep, Zenon
<1>4. CASE PutBits
  <2>1. c \in {"b", "B"} /\ \E piece : Put(piece, 2)
    BY <1>4, Zenon DEF PutBits
  <2>2. PICK piece : Put(piece, 2)
    BY <2>1
  <2>3. c # "NUL" /\ c \notin NumberConvs /\ c # "s" /\ c # "c"
    BY <1>1, <2>1
  <2>4. c = d.conv /\ d.conv # "missing"
    BY <2>3, AtConvIs
  <2>5. Taken(d.conv) = 2
    BY <2>1, <2>3, <2>4, Zenon DEF Taken
  <2>6. d.conv \notin NumberConvs /\ d.conv # "s"
    BY <2>3, <2>4, Zenon
  <2> QED BY <1>2, <2>2, <2>4, <2>5, <2>6, PutStep, Zenon
<1>5. CASE Unknown
  <2>1. c \notin NumberConvs \cup {"s", "c", "b", "B", "NUL"} /\ Put(<<c>>, 0)
    BY <1>5, Zenon DEF Unknown
  <2>2. c # "NUL"
    BY <2>1, Zenon
  <2>3. c = d.conv /\ d.conv # "missing"
    BY <2>2, AtConvIs
  <2>4. Taken(d.conv) = 0
    BY <2>1, <2>3, Zenon DEF Taken
  <2>5. d.conv \notin NumberConvs /\ d.conv # "s"
    BY <2>1, <2>3, Zenon
  <2> QED BY <1>2, <2>1, <2>3, <2>4, <2>5, PutStep, Zenon
<1> QED BY <1>3, <1>4, <1>5

(* EndInDirective: nothing is ahead in the format. *)
LEMMA EndStep ==
    ASSUME NEW d, NEW r, NEW u, Scope(d, r, u), ConvAt(d, r, u), EndInDirective
    PROVE  /\ UNCHANGED <<Input, out>> /\ phase' = "text" /\ d.conv = "missing"
           /\ Stands(<<>>, u)'
<1>1. /\ c = "NUL" /\ phase' = "text" /\ pos' = pos /\ ap' = ap /\ out' = out
      /\ call' = call /\ fmt' = fmt /\ args' = args
  BY DEF EndInDirective, Input
<1>2. d.conv = "missing"
  BY <1>1, AtConvIs
<1>3. AtConv(d, r) = <<>>
  <2>1. WellFormed(d) /\ r \in Seq(Letters) /\ r = <<>>
    BY <1>2 DEF Scope
  <2> QED BY <1>2, <2>1, ConvPart
<1>4. OwnArgs(d, u) = u
  <2>1. WellFormed(d) /\ u \in Seq(Arguments)
    BY DEF Scope
  <2>2. d.arg \in Seq(Arguments) /\ Len(d.arg) = Taken(d.conv)
    BY <2>1, DirectiveTypes
  <2>3. Taken(d.conv) = 0
    <3>1. "missing" \notin NumberConvs \cup {"s", "c", "b", "B"}
      BY DEF NumberConvs, SignedConvs
    <3> QED BY <1>2, <3>1, Zenon DEF Taken
  <2>4. d.arg = <<>>
    <3> DEFINE a == d.arg
    <3>1. a \in Seq(Arguments) /\ Len(a) = 0
      BY <2>2, <2>3, Zenon
    <3> HIDE DEF a
    <3>2. a = <<>>
      BY <3>1, EmptySeq
    <3> QED BY <3>2 DEF a
  <2>5. <<>> \o u = u
    BY <2>1, ConcatEmptySeq, Zenon
  <2> QED BY <2>4, <2>5, Zenon DEF OwnArgs
<1>5. Stands(<<>>, u)
  <2>1. Stands(AtConv(d, r), OwnArgs(d, u))
    BY DEF ConvAt
  <2> QED BY <1>3, <1>4, <2>1, Zenon
<1>6. Stands(<<>>, u)'
  BY <1>1, <1>5, Zenon DEF Stands
<1> QED BY <1>1, <1>2, <1>6 DEF Input

-----------------------------------------------------------------------------
(* The call, its format and its arguments. *)

(* A function on the first numbers is a sequence. *)
LEMMA TableSeq ==
    ASSUME NEW T, NEW n \in Nat, NEW g \in [1 .. n -> T]
    PROVE  g \in Seq(T) /\ Len(g) = n
OBVIOUS

(* The calls are as they may be. *)
LEMMA CallFacts ==
    ASSUME Inputs
    PROVE  /\ call \in Seq(Directives) /\ Len(call) \in Nat /\ DOMAIN call = 1 .. Len(call)
           /\ \A k \in 1 .. Len(call) :
                 WellFormed(call[k]) /\ (call[k].conv = "missing" => k = Len(call))
<1>1. call \in Calls
  BY DEF Inputs
<1>2. /\ call \in Seq(Directives)
      /\ \A k \in DOMAIN call : WellFormed(call[k]) /\ (call[k].conv = "missing" => k = Len(call))
  BY <1>1, CallAssumption, Zenon
<1>3. Len(call) \in Nat /\ DOMAIN call = 1 .. Len(call)
  BY <1>2, LenProperties
<1> QED BY <1>2, <1>3, Zenon

(* The spellings and what was passed, as sequences. *)
LEMMA TablesAre ==
    ASSUME Inputs
    PROVE  /\ Spelled \in Seq(Seq(Letters)) /\ Len(Spelled) = Len(call)
           /\ Handed \in Seq(Seq(Arguments)) /\ Len(Handed) = Len(call)
           /\ \A k \in 1 .. Len(call) : Spelled[k] = Spelling(call[k]) /\ Handed[k] = Passed(call[k])
<1> DEFINE n == Len(call)
<1>1. /\ n \in Nat /\ DOMAIN call = 1 .. n
      /\ \A k \in 1 .. n : WellFormed(call[k])
  BY CallFacts
<1>2. ASSUME NEW d, WellFormed(d)
      PROVE  Spelling(d) \in Seq(Letters) /\ Passed(d) \in Seq(Arguments)
  <2>1. <<>> \in Seq(Letters) /\ <<>> \in Seq(Arguments)
    BY EmptySeq
  <2>2. Spelling(d) \in Seq(Letters)
    BY <1>2, <2>1, SpellingIs
  <2>3. Passed(d) \in Seq(Arguments)
    BY <1>2, <2>1, PassedIs
  <2> QED BY <2>2, <2>3
<1>3. Spelled = [k \in 1 .. n |-> Spelling(call[k])] /\ Handed = [k \in 1 .. n |-> Passed(call[k])]
  BY <1>1, Zenon DEF Spelled, Handed
<1> HIDE DEF n
<1>4. \A k \in 1 .. n : Spelling(call[k]) \in Seq(Letters) /\ Passed(call[k]) \in Seq(Arguments)
  BY <1>1, <1>2, Zenon
<1>5. Spelled \in [1 .. n -> Seq(Letters)]
  BY <1>3, <1>4, Zenon
<1>6. Handed \in [1 .. n -> Seq(Arguments)]
  BY <1>3, <1>4, Zenon
<1>7. Spelled \in Seq(Seq(Letters)) /\ Len(Spelled) = n
  BY <1>1, <1>5, TableSeq
<1>8. Handed \in Seq(Seq(Arguments)) /\ Len(Handed) = n
  BY <1>1, <1>6, TableSeq
<1>9. \A k \in 1 .. n : Spelled[k] = Spelling(call[k]) /\ Handed[k] = Passed(call[k])
  BY <1>3, Zenon
<1> QED BY <1>7, <1>8, <1>9, Zenon DEF n

(* What is behind k directives, and the directive before it. *)
RestsAre(k) ==
    /\ Behind(k) \in Seq(Letters) /\ Unread(k) \in Seq(Arguments)
    /\ k = Len(call) => Behind(k) = <<>> /\ Unread(k) = <<>>
    /\ k > 0 => /\ Behind(k - 1) = <<"%">> \o AtFlags(call[k], Behind(k), 0)
                /\ Unread(k - 1) = WidthArgs(call[k], Unread(k))

(* That is what they are, for every k. *)
LEMMA RestsKnown ==
    ASSUME Inputs, NEW k \in 0 .. Len(call)
    PROVE  RestsAre(k)
<1> DEFINE n == Len(call)
           B == RestOf(Spelled, Letters)
           U == RestOf(Handed, Arguments)
<1>1. n \in Nat /\ \A i \in 1 .. n : WellFormed(call[i])
  BY CallFacts
<1>2. /\ Spelled \in Seq(Seq(Letters)) /\ Len(Spelled) = n
      /\ Handed \in Seq(Seq(Arguments)) /\ Len(Handed) = n
      /\ \A i \in 1 .. n : Spelled[i] = Spelling(call[i]) /\ Handed[i] = Passed(call[i])
  BY TablesAre
<1>3. /\ B \in [0 .. n -> Seq(Letters)] /\ B[n] = <<>>
      /\ \A i \in 1 .. n : B[i - 1] = Spelled[i] \o B[i]
  BY <1>2, RestFacts
<1>4. /\ U \in [0 .. n -> Seq(Arguments)] /\ U[n] = <<>>
      /\ \A i \in 1 .. n : U[i - 1] = Handed[i] \o U[i]
  BY <1>2, RestFacts
<1>5. Behind(k) = B[k] /\ Unread(k) = U[k] /\ Behind(k - 1) = B[k - 1] /\ Unread(k - 1) = U[k - 1]
  BY Zenon DEF Behind, Unread
<1>6. k \in 0 .. n
  OBVIOUS
<1> HIDE DEF n, B, U
<1>7. B[k] \in Seq(Letters) /\ U[k] \in Seq(Arguments)
  BY <1>3, <1>4, <1>6, Zenon
<1>8. k = n => B[k] = <<>> /\ U[k] = <<>>
  BY <1>3, <1>4, Zenon
<1>9. ASSUME k > 0
      PROVE  /\ B[k - 1] = <<"%">> \o AtFlags(call[k], B[k], 0)
             /\ U[k - 1] = WidthArgs(call[k], U[k])
  <2>1. k \in 1 .. n
    BY <1>1, <1>6, <1>9
  <2>2. WellFormed(call[k]) /\ Spelled[k] = Spelling(call[k]) /\ Handed[k] = Passed(call[k])
    BY <1>1, <1>2, <2>1, Zenon
  <2>3. B[k - 1] = Spelling(call[k]) \o B[k] /\ U[k - 1] = Passed(call[k]) \o U[k]
    BY <1>3, <1>4, <2>1, <2>2, Zenon
  <2>4. Spelling(call[k]) \o B[k] = <<"%">> \o AtFlags(call[k], B[k], 0)
    BY <1>7, <2>2, SpellingIs, Zenon
  <2>5. Passed(call[k]) \o U[k] = WidthArgs(call[k], U[k])
    BY <1>7, <2>2, PassedIs, Zenon
  <2> QED BY <2>3, <2>4, <2>5, Zenon
<1> QED BY <1>5, <1>7, <1>8, <1>9, Zenon DEF RestsAre, n

(* The format and the arguments are behind no directive. *)
LEMMA AllBehind ==
    ASSUME Inputs
    PROVE  /\ fmt = Behind(0) /\ args = Unread(0)
           /\ fmt \in Seq(Letters) /\ args \in Seq(Arguments)
<1>1. Spelled \in Seq(Seq(Letters)) /\ Handed \in Seq(Seq(Arguments))
  BY TablesAre
<1>2. FlattenSeq(Spelled) = RestOf(Spelled, Letters)[0] /\ FlattenSeq(Handed) = RestOf(Handed, Arguments)[0]
  BY <1>1, RestIsAll
<1>3. fmt = FlattenSeq(Spelled) /\ args = FlattenSeq(Handed)
  BY Zenon DEF Inputs
<1>4. fmt = Behind(0) /\ args = Unread(0)
  BY <1>2, <1>3, Zenon DEF Behind, Unread
<1>5. Len(call) \in Nat
  BY CallFacts
<1>6. 0 \in 0 .. Len(call)
  BY <1>5
<1>7. Behind(0) \in Seq(Letters) /\ Unread(0) \in Seq(Arguments)
  BY <1>6, RestsKnown, Zenon DEF RestsAre
<1> QED BY <1>4, <1>7, Zenon

(* Directive k, in the midst of the others. *)
LEMMA InScope ==
    ASSUME Inputs, NEW k \in 1 .. Len(call)
    PROVE  Scope(call[k], Behind(k), Unread(k))
<1>1. Len(call) \in Nat /\ WellFormed(call[k]) /\ (call[k].conv = "missing" => k = Len(call))
  BY CallFacts
<1>2. k \in 0 .. Len(call)
  BY <1>1
<1>3. /\ Behind(k) \in Seq(Letters) /\ Unread(k) \in Seq(Arguments)
      /\ k = Len(call) => Behind(k) = <<>>
  BY <1>2, RestsKnown, Zenon DEF RestsAre
<1>4. fmt \in Seq(Letters) /\ args \in Seq(Arguments)
  BY AllBehind
<1> QED BY <1>1, <1>3, <1>4, Zenon DEF Scope

(* They stay as long as the call does. *)
LEMMA InputsStay ==
    ASSUME Inputs, UNCHANGED Input
    PROVE  /\ Inputs'
           /\ \A k : Behind(k)' = Behind(k) /\ Unread(k)' = Unread(k) /\ Missing(k)' = Missing(k)
<1>1. call' = call /\ fmt' = fmt /\ args' = args
  BY DEF Input
<1>2. Spelled' = Spelled /\ Handed' = Handed
  BY <1>1, Zenon DEF Spelled, Handed
<1>3. Inputs'
  BY <1>1, <1>2, Zenon DEF Inputs
<1>4. ASSUME NEW k PROVE Behind(k)' = Behind(k) /\ Unread(k)' = Unread(k) /\ Missing(k)' = Missing(k)
  BY <1>1, <1>2, Zenon DEF Behind, Unread, Missing
<1> QED BY <1>3, <1>4

-----------------------------------------------------------------------------
(* What was put, and where the text goes on. *)

(* One piece more. *)
LEMMA OnePiece ==
    ASSUME NEW S, NEW o \in Seq(S), NEW x
    PROVE  /\ \E T : Append(o, x) \in Seq(T)
           /\ Len(o) \in Nat /\ Len(Append(o, x)) = Len(o) + 1
           /\ \A i \in 1 .. Len(o) : Append(o, x)[i] = o[i]
           /\ Append(o, x)[Len(o) + 1] = x
<1> DEFINE T == S \cup {x}
           q == Append(o, x)
<1>1. S \subseteq T /\ x \in T
  OBVIOUS
<1> HIDE DEF T
<1>2. o \in Seq(T)
  BY <1>1, SeqMonotonic
<1>3. q \in Seq(T) /\ Len(q) = Len(o) + 1 /\ Len(o) \in Nat
  BY <1>1, <1>2, AppendProperties, LenProperties
<1>4. \A i \in 1 .. Len(o) : q[i] = o[i]
  BY <1>1, <1>2, AppendProperties
<1>5. q[Len(o) + 1] = x
  BY <1>1, <1>2, AppendProperties
<1> QED BY <1>3, <1>4, <1>5, Zenon

(* The piece of directive k, put behind those of the others. *)
LEMMA WrittenPiece ==
    ASSUME Inputs, Written, NEW k \in 1 .. Len(call), Len(out) = 2 * (k - 1), call' = call,
           NEW piece, Proper(call[k], piece), out' = Append(out, piece)
    PROVE  Written' /\ Len(out') = 2 * k - 1
<1>1. PICK S : out \in Seq(S)
  BY Zenon DEF Written
<1>2. Len(call) \in Nat
  BY CallFacts
<1>3. /\ \E T : out' \in Seq(T)
      /\ Len(out) \in Nat /\ Len(out') = Len(out) + 1
      /\ \A i \in 1 .. Len(out) : out'[i] = out[i]
      /\ out'[Len(out) + 1] = piece
  BY <1>1, OnePiece
<1>4. \A j \in 1 .. Len(call) :
         /\ 2 * j - 1 <= Len(out) => Proper(call[j], out[2 * j - 1])
         /\ 2 * j <= Len(out) => out[2 * j] = <<":">>
  BY Zenon DEF Written
<1>5. Len(out') = 2 * k - 1
  BY <1>2, <1>3
<1>6. ASSUME NEW j \in 1 .. Len(call)
      PROVE  /\ 2 * j - 1 <= Len(out') => Proper(call[j], out'[2 * j - 1])
             /\ 2 * j <= Len(out') => out'[2 * j] = <<":">>
  <2>1. j \in Nat /\ j > 0 /\ k \in Nat /\ k > 0
    BY <1>2
  <2>2. ASSUME 2 * j - 1 <= Len(out') PROVE Proper(call[j], out'[2 * j - 1])
    <3>1. CASE j = k
      <4>1. 2 * j - 1 = Len(out) + 1
        BY <2>1, <3>1
      <4> QED BY <1>3, <3>1, <4>1, Zenon
    <3>2. CASE j # k
      <4>1. 2 * j - 1 <= Len(out) /\ 2 * j - 1 \in 1 .. Len(out)
        BY <1>5, <2>1, <2>2, <3>2
      <4>2. out'[2 * j - 1] = out[2 * j - 1]
        BY <1>3, <4>1, Zenon
      <4>3. Proper(call[j], out[2 * j - 1])
        BY <1>4, <4>1, Zenon
      <4> QED BY <4>2, <4>3, Zenon
    <3> QED BY <3>1, <3>2
  <2>3. ASSUME 2 * j <= Len(out') PROVE out'[2 * j] = <<":">>
    <3>1. 2 * j <= Len(out) /\ 2 * j \in 1 .. Len(out)
      BY <1>5, <2>1, <2>3
    <3> QED BY <1>3, <1>4, <3>1, Zenon
  <2> QED BY <2>2, <2>3
<1>7. Written'
  BY <1>3, <1>6, Zenon DEF Written
<1> QED BY <1>5, <1>7

(* The colon behind it. *)
LEMMA WrittenColon ==
    ASSUME Inputs, Written, NEW k \in 1 .. Len(call), Len(out) = 2 * k - 1, call' = call,
           out' = Append(out, <<":">>)
    PROVE  Written' /\ Len(out') = 2 * k
<1> DEFINE colon == <<":">>
<1>1. PICK S : out \in Seq(S)
  BY Zenon DEF Written
<1>2. Len(call) \in Nat
  BY CallFacts
<1>3. \A j \in 1 .. Len(call) :
         /\ 2 * j - 1 <= Len(out) => Proper(call[j], out[2 * j - 1])
         /\ 2 * j <= Len(out) => out[2 * j] = colon
  BY Zenon DEF Written
<1>4. out' = Append(out, colon)
  OBVIOUS
<1> HIDE DEF colon
<1>5. /\ \E T : out' \in Seq(T)
      /\ Len(out) \in Nat /\ Len(out') = Len(out) + 1
      /\ \A i \in 1 .. Len(out) : out'[i] = out[i]
      /\ out'[Len(out) + 1] = colon
  <2>1. /\ \E T : Append(out, colon) \in Seq(T)
        /\ Len(out) \in Nat /\ Len(Append(out, colon)) = Len(out) + 1
        /\ \A i \in 1 .. Len(out) : Append(out, colon)[i] = out[i]
        /\ Append(out, colon)[Len(out) + 1] = colon
    BY <1>1, OnePiece, Zenon
  <2> QED BY <1>4, <2>1, Zenon
<1>6. Len(out') = 2 * k
  BY <1>2, <1>5
<1>7. ASSUME NEW j \in 1 .. Len(call)
      PROVE  /\ 2 * j - 1 <= Len(out') => Proper(call[j], out'[2 * j - 1])
             /\ 2 * j <= Len(out') => out'[2 * j] = colon
  <2>1. j \in Nat /\ j > 0 /\ k \in Nat /\ k > 0
    BY <1>2
  <2>2. ASSUME 2 * j - 1 <= Len(out') PROVE Proper(call[j], out'[2 * j - 1])
    <3>1. 2 * j - 1 <= Len(out) /\ 2 * j - 1 \in 1 .. Len(out)
      BY <1>6, <2>1, <2>2
    <3>2. out'[2 * j - 1] = out[2 * j - 1]
      BY <1>5, <3>1, Zenon
    <3>3. Proper(call[j], out[2 * j - 1])
      BY <1>3, <3>1, Zenon
    <3> QED BY <3>2, <3>3, Zenon
  <2>3. ASSUME 2 * j <= Len(out') PROVE out'[2 * j] = colon
    <3>1. CASE j = k
      <4>1. 2 * j = Len(out) + 1
        BY <2>1, <3>1
      <4> QED BY <1>5, <4>1, Zenon
    <3>2. CASE j # k
      <4>1. 2 * j <= Len(out) /\ 2 * j \in 1 .. Len(out)
        BY <1>6, <2>1, <2>3, <3>2
      <4> QED BY <1>3, <1>5, <4>1, Zenon
    <3> QED BY <3>1, <3>2
  <2> QED BY <2>2, <2>3
<1>8. Written'
  BY <1>5, <1>7, Zenon DEF Written, colon
<1> QED BY <1>6, <1>8

(* As long as nothing is put it stays. *)
LEMMA WrittenStays ==
    ASSUME Written, call' = call, out' = out
    PROVE  Written' /\ Len(out') = Len(out)
BY Zenon DEF Written

(* What the character is in the text: a percent before a directive, a colon  *)
(* behind its conversion, and at the end none.                             *)
LEMMA BetweenIs ==
    ASSUME Inputs, NEW k, Between(k)
    PROVE  /\ k \in 1 .. Len(call) + 1
           /\ k \in 1 .. Len(call) =>
                 /\ c = "%"
                 /\ Stands(<<"%">> \o AtFlags(call[k], Behind(k), 0), WidthArgs(call[k], Unread(k)))
           /\ k = Len(call) + 1 => c = "NUL" /\ Stands(<<>>, <<>>) /\ ~Missing(Len(call))
<1>1. Len(call) \in Nat
  BY CallFacts
<1>2. /\ k \in 1 .. Len(call) + 1 /\ Stands(Behind(k - 1), Unread(k - 1)) /\ ~Missing(k - 1)
  BY Zenon DEF Between
<1>3. fmt \in Seq(Letters)
  BY AllBehind
<1>4. k - 1 \in 0 .. Len(call)
  BY <1>1, <1>2
<1>5. RestsAre(k - 1)
  BY <1>4, RestsKnown
<1>6. Behind(k - 1) \in Seq(Letters) /\ (k - 1 = Len(call) => Behind(k - 1) = <<>> /\ Unread(k - 1) = <<>>)
  BY <1>5, Zenon DEF RestsAre
<1>7. c = FirstOf(Behind(k - 1))
  <2> DEFINE s == Behind(k - 1)
             a == Unread(k - 1)
  <2>1. s \in Seq(Letters) /\ Stands(s, a)
    BY <1>2, <1>6
  <2> HIDE DEF s, a
  <2>2. c = FirstOf(s)
    BY <1>3, <2>1, Look
  <2> QED BY <2>2 DEF s
<1>8. ASSUME k \in 1 .. Len(call)
      PROVE  /\ c = "%"
             /\ Stands(<<"%">> \o AtFlags(call[k], Behind(k), 0), WidthArgs(call[k], Unread(k)))
  <2>1. k \in 0 .. Len(call) /\ k > 0
    BY <1>1, <1>8
  <2>2. RestsAre(k)
    BY <2>1, RestsKnown
  <2>3. /\ Behind(k - 1) = <<"%">> \o AtFlags(call[k], Behind(k), 0)
        /\ Unread(k - 1) = WidthArgs(call[k], Unread(k)) /\ Behind(k) \in Seq(Letters)
    BY <2>1, <2>2, Zenon DEF RestsAre
  <2>4. WellFormed(call[k])
    BY <1>8, CallFacts
  <2>5. AtFlags(call[k], Behind(k), 0) \in Seq(Letters)
    BY <2>3, <2>4, SpellingIs, Zenon
  <2>6. "%" \in Letters
    BY LettersAre
  <2>7. FirstOf(<<"%">> \o AtFlags(call[k], Behind(k), 0)) = "%"
    <3> DEFINE s == AtFlags(call[k], Behind(k), 0)
    <3>1. s \in Seq(Letters)
      BY <2>5
    <3> HIDE DEF s
    <3>2. FirstOf(<<"%">> \o s) = "%"
      BY <2>6, <3>1, FirstCons
    <3> QED BY <3>2, Zenon DEF s
  <2> QED BY <1>2, <1>7, <2>3, <2>7, Zenon
<1>9. ASSUME k = Len(call) + 1 PROVE c = "NUL" /\ Stands(<<>>, <<>>) /\ ~Missing(Len(call))
  <2>1. k - 1 = Len(call)
    BY <1>1, <1>9
  <2>2. Behind(k - 1) = <<>> /\ Unread(k - 1) = <<>>
    BY <1>6, <2>1, Zenon
  <2>3. FirstOf(<<>>) = "NUL"
    BY EmptySeq DEF FirstOf
  <2> QED BY <1>2, <1>7, <2>1, <2>2, <2>3, Zenon
<1> QED BY <1>2, <1>8, <1>9

(* At the colon: it is next, and behind it the next directive. *)
LEMMA ColonIs ==
    ASSUME Inputs, NEW k, AtColon(k)
    PROVE  /\ c = ":" /\ k \in 1 .. Len(call) /\ pos \in Nat
           /\ Ahead(fmt, pos + 1, Behind(k)) /\ Ahead(args, ap, Unread(k))
<1>1. k \in 1 .. Len(call) /\ Stands(<<":">> \o Behind(k), Unread(k))
  BY Zenon DEF AtColon
<1>2. Len(call) \in Nat /\ fmt \in Seq(Letters)
  BY CallFacts, AllBehind
<1>3. k \in 0 .. Len(call)
  BY <1>1, <1>2
<1>4. Behind(k) \in Seq(Letters)
  BY <1>3, RestsKnown, Zenon DEF RestsAre
<1> DEFINE r == Behind(k)
           s == <<":">> \o r
           u == Unread(k)
<1>5. Begins(s, ":", r)
  <2>1. ":" \in Letters
    BY LettersAre
  <2> QED BY <1>4, <2>1, Zenon DEF Begins
<1>6. Stands(s, u)
  BY <1>1
<1> HIDE DEF r, s, u
<1>7. c = ":" /\ pos \in Nat /\ Ahead(fmt, pos + 1, r)
  BY <1>2, <1>5, <1>6, Forth
<1> QED BY <1>1, <1>6, <1>7, Zenon DEF r, u, Stands

(* With nothing ahead, both positions are behind the ends. *)
LEMMA NothingAhead ==
    ASSUME Inputs, Stands(<<>>, <<>>)
    PROVE  /\ c = "NUL"
           /\ pos = Len(fmt) + 1 /\ ap = Len(args) + 1
<1>1. fmt \in Seq(Letters) /\ args \in Seq(Arguments)
  BY AllBehind
<1>2. Len(fmt) \in Nat /\ Len(args) \in Nat
  BY <1>1, LenProperties
<1> DEFINE s == <<>>
<1>3. Ahead(fmt, pos, <<>>) /\ Ahead(args, ap, <<>>)
  BY Zenon DEF Stands
<1>4. pos = Len(fmt) + 1
  BY <1>2, <1>3, AheadEnd
<1>5. ap = Len(args) + 1
  BY <1>2, <1>3, AheadEnd
<1>6. c = "NUL"
  <2>1. ~ (pos <= Len(fmt))
    BY <1>2, <1>4
  <2> QED BY <2>1, Zenon DEF c
<1> QED BY <1>4, <1>5, <1>6

-----------------------------------------------------------------------------
(* Every step keeps the invariant. *)

(* Where it is, by the phase. *)
LEMMA WhereAt ==
    ASSUME NEW k, At(k)
    PROVE  /\ phase = "text" => Between(k) \/ AtColon(k) \/ Ended(k)
           /\ phase \notin {"text", "done"} => Within(k)
<1>1. Within(k) => phase \notin {"text", "done"}
  <2> SUFFICES ASSUME Within(k) PROVE phase \notin {"text", "done"}
    OBVIOUS
  <2>1. Parsing(call[k], Behind(k), Unread(k))
    BY Zenon DEF Within
  <2>2. phase \in {"flags", "width", "width digits", "dot", "prec", "prec digits", "size", "conv"}
    BY <2>1, ByPhase, Zenon
  <2> QED BY <2>2
<1>2. Between(k) \/ AtColon(k) \/ Ended(k) => phase = "text"
  BY Zenon DEF Between, AtColon, Ended
<1>3. Finished(k) => phase = "done"
  BY Zenon DEF Finished
<1>4. Between(k) \/ Within(k) \/ AtColon(k) \/ Ended(k) \/ Finished(k)
  BY Zenon DEF At
<1> QED BY <1>1, <1>2, <1>3, <1>4

(* In the text, by the character. *)
LEMMA InText ==
    ASSUME Inputs, NEW k, At(k), phase = "text"
    PROVE  /\ c = "%" => k \in 1 .. Len(call) /\ Between(k)
           /\ c \notin {"%", "NUL"} => AtColon(k)
           /\ c = "NUL" => (Between(k) /\ k = Len(call) + 1) \/ Ended(k)
<1>0. Len(call) \in Nat
  BY CallFacts
<1>1. Between(k) => /\ k \in 1 .. Len(call) \/ k = Len(call) + 1
                    /\ k \in 1 .. Len(call) => c = "%"
                    /\ k = Len(call) + 1 => c = "NUL"
  <2> SUFFICES ASSUME Between(k)
               PROVE  /\ k \in 1 .. Len(call) \/ k = Len(call) + 1
                      /\ k \in 1 .. Len(call) => c = "%"
                      /\ k = Len(call) + 1 => c = "NUL"
    OBVIOUS
  <2>1. /\ k \in 1 .. Len(call) + 1
        /\ k \in 1 .. Len(call) => c = "%"
        /\ k = Len(call) + 1 => c = "NUL"
    BY BetweenIs
  <2>2. k \in 1 .. Len(call) \/ k = Len(call) + 1
    BY <1>0, <2>1
  <2> QED BY <2>1, <2>2
<1>2. AtColon(k) => c = ":"
  BY ColonIs
<1>3. Ended(k) => c = "NUL"
  <2> SUFFICES ASSUME Ended(k) PROVE c = "NUL"
    OBVIOUS
  <2>1. Stands(<<>>, <<>>)
    BY Zenon DEF Ended
  <2> QED BY <2>1, NothingAhead
<1>4. Between(k) \/ AtColon(k) \/ Ended(k)
  BY WhereAt
<1>5. "%" # "NUL" /\ ":" # "%" /\ ":" # "NUL"
  OBVIOUS
<1> QED BY <1>1, <1>2, <1>3, <1>4, <1>5, Zenon

(* Percent: into the next directive. *)
LEMMA PercentInv ==
    ASSUME IInv, Percent
    PROVE  IInv'
<1>1. Inputs /\ Written
  BY DEF IInv
<1>2. PICK k \in 1 .. Len(call) + 1 : At(k)
  BY Zenon DEF IInv
<1>3. phase = "text" /\ c = "%" /\ out' = out /\ call' = call /\ UNCHANGED Input
  BY DEF Percent, Input
<1>4. k \in 1 .. Len(call) /\ Between(k)
  BY <1>1, <1>2, <1>3, InText
<1>5. Inputs' /\ \A i : Behind(i)' = Behind(i) /\ Unread(i)' = Unread(i) /\ Missing(i)' = Missing(i)
  BY <1>1, <1>3, InputsStay
<1>6. PICK d, r, u : d = call[k] /\ r = Behind(k) /\ u = Unread(k)
  OBVIOUS
<1>7. Scope(d, r, u)
  BY <1>1, <1>4, <1>6, InScope
<1>8. Stands(<<"%">> \o AtFlags(d, r, 0), WidthArgs(d, u))
  <2>1. Stands(<<"%">> \o AtFlags(call[k], Behind(k), 0), WidthArgs(call[k], Unread(k)))
    BY <1>1, <1>4, BetweenIs, Zenon
  <2> QED BY <1>6, <2>1, Zenon
<1>9. FlagsAt(d, r, u)'
  BY <1>7, <1>8, PercentStep
<1>10. Parsing(d, r, u)'
  BY <1>9, Zenon DEF Parsing
<1>11. Len(out) = 2 * (k - 1)
  BY <1>4, Zenon DEF Between
<1>12. Within(k)'
  BY <1>3, <1>4, <1>5, <1>6, <1>10, <1>11, Zenon DEF Within
<1>13. At(k)'
  BY <1>12, Zenon DEF At
<1>14. Written'
  BY <1>1, <1>3, WrittenStays
<1> QED BY <1>2, <1>3, <1>5, <1>13, <1>14, Zenon DEF IInv

(* Text: the colon, and it is between two directives again. *)
LEMMA TextInv ==
    ASSUME IInv, Text
    PROVE  IInv'
<1>1. Inputs /\ Written
  BY DEF IInv
<1>2. PICK k \in 1 .. Len(call) + 1 : At(k)
  BY Zenon DEF IInv
<1>3. /\ phase = "text" /\ c \notin {"%", "NUL"} /\ out' = Append(out, <<c>>) /\ pos' = pos + 1
      /\ phase' = phase /\ ap' = ap /\ call' = call /\ fmt' = fmt /\ args' = args /\ UNCHANGED Input
  BY Zenon DEF Text, Input
<1>4. AtColon(k)
  BY <1>1, <1>2, <1>3, InText
<1>5. /\ c = ":" /\ k \in 1 .. Len(call)
      /\ Ahead(fmt, pos + 1, Behind(k)) /\ Ahead(args, ap, Unread(k))
  BY <1>1, <1>4, ColonIs
<1>6. Inputs' /\ \A i : Behind(i)' = Behind(i) /\ Unread(i)' = Unread(i) /\ Missing(i)' = Missing(i)
  BY <1>1, <1>3, InputsStay
<1>7. Len(call) \in Nat
  BY <1>1, CallFacts
<1>8. Len(out) = 2 * k - 1 /\ ~Missing(k)
  BY <1>4, Zenon DEF AtColon
<1>9. out' = Append(out, <<":">>)
  BY <1>3, <1>5, Zenon
<1>10. Written' /\ Len(out') = 2 * k
  BY <1>1, <1>3, <1>5, <1>8, <1>9, WrittenColon
<1>11. Stands(Behind(k), Unread(k))'
  BY <1>3, <1>5, <1>6, Zenon DEF Stands
<1> DEFINE m == k + 1
<1>12. m - 1 = k /\ m \in 1 .. Len(call) + 1 /\ 2 * (m - 1) = 2 * k
  BY <1>5, <1>7
<1> HIDE DEF m
<1>13. Between(m)'
  <2>1. phase' = "text" /\ m \in 1 .. Len(call') + 1 /\ Len(out') = 2 * (m - 1)
    BY <1>3, <1>10, <1>12, Zenon
  <2>2. Stands(Behind(m - 1), Unread(m - 1))' /\ ~Missing(m - 1)'
    BY <1>6, <1>8, <1>11, <1>12, Zenon
  <2> QED BY <2>1, <2>2, Zenon DEF Between
<1>14. At(m)'
  BY <1>13, Zenon DEF At
<1> QED BY <1>3, <1>6, <1>10, <1>12, <1>14, Zenon DEF IInv

(* Within a directive: the next part of it. *)
LEMMA ReadingInv ==
    ASSUME IInv, Reading
    PROVE  IInv'
<1>1. Inputs /\ Written
  BY DEF IInv
<1>2. PICK k \in 1 .. Len(call) + 1 : At(k)
  BY Zenon DEF IInv
<1>3. UNCHANGED <<Input, out>> /\ phase \notin {"text", "done"}
  BY ReadingPutsNothing
<1>4. UNCHANGED Input /\ out' = out /\ call' = call
  BY <1>3 DEF Input
<1>5. Within(k)
  BY <1>2, <1>3, WhereAt
<1>6. k \in 1 .. Len(call) /\ Len(out) = 2 * (k - 1) /\ Parsing(call[k], Behind(k), Unread(k))
  BY <1>5, Zenon DEF Within
<1>7. Inputs' /\ \A i : Behind(i)' = Behind(i) /\ Unread(i)' = Unread(i) /\ Missing(i)' = Missing(i)
  BY <1>1, <1>4, InputsStay
<1>8. PICK d, r, u : d = call[k] /\ r = Behind(k) /\ u = Unread(k)
  OBVIOUS
<1>9. Scope(d, r, u)
  BY <1>1, <1>6, <1>8, InScope
<1>10. Parsing(d, r, u)
  BY <1>6, <1>8, Zenon
<1>11. Parsing(d, r, u)'
  BY <1>9, <1>10, ReadingStep
<1>12. Within(k)'
  BY <1>4, <1>6, <1>7, <1>8, <1>11, Zenon DEF Within
<1>13. At(k)'
  BY <1>12, Zenon DEF At
<1>14. Written'
  BY <1>1, <1>4, WrittenStays
<1> QED BY <1>2, <1>4, <1>7, <1>13, <1>14, Zenon DEF IInv

(* The conversions. *)
Converting == print_num \/ PutString \/ PutChar \/ PutBits \/ Unknown

(* A conversion: its piece, and the colon is next. *)
LEMMA ConvertingInv ==
    ASSUME IInv, Converting
    PROVE  IInv'
<1>1. Inputs /\ Written
  BY DEF IInv
<1>2. PICK k \in 1 .. Len(call) + 1 : At(k)
  BY Zenon DEF IInv
<1>3. phase = "conv"
  BY Zenon DEF Converting, print_num, PutString, PutChar, PutBits, Unknown
<1>4. Within(k)
  BY <1>2, <1>3, WhereAt
<1>5. k \in 1 .. Len(call) /\ Len(out) = 2 * (k - 1) /\ Parsing(call[k], Behind(k), Unread(k))
  BY <1>4, Zenon DEF Within
<1>6. PICK d, r, u : d = call[k] /\ r = Behind(k) /\ u = Unread(k)
  OBVIOUS
<1>7. Scope(d, r, u)
  BY <1>1, <1>5, <1>6, InScope
<1>8. ConvAt(d, r, u)
  <2>1. Parsing(d, r, u)
    BY <1>5, <1>6, Zenon
  <2> QED BY <1>3, <2>1, ByPhase
<1>9. Converted(d, r, u)
  <2>1. CASE print_num
    BY <1>7, <1>8, <2>1, NumberStep
  <2>2. CASE PutString
    BY <1>7, <1>8, <2>2, StringStep
  <2>3. CASE PutChar \/ PutBits \/ Unknown
    BY <1>7, <1>8, <2>3, OtherStep
  <2> QED BY <2>1, <2>2, <2>3, Zenon DEF Converting
<1>10. UNCHANGED Input /\ phase' = "text" /\ d.conv # "missing" /\ Stands(<<":">> \o r, u)'
  BY <1>9, Zenon DEF Converted
<1>11. PICK piece : Proper(d, piece) /\ out' = Append(out, piece)
  BY <1>9, Zenon DEF Converted
<1>12. Inputs' /\ \A i : Behind(i)' = Behind(i) /\ Unread(i)' = Unread(i) /\ Missing(i)' = Missing(i)
  BY <1>1, <1>10, InputsStay
<1>13. call' = call
  BY <1>10 DEF Input
<1>14. Proper(call[k], piece)
  BY <1>6, <1>11, Zenon
<1>15. Written' /\ Len(out') = 2 * k - 1
  BY <1>1, <1>5, <1>11, <1>13, <1>14, WrittenPiece
<1>16. ~Missing(k)
  BY <1>6, <1>10, Zenon DEF Missing
<1>17. AtColon(k)'
  <2>1. Stands(<<":">> \o Behind(k), Unread(k))'
    BY <1>6, <1>10, <1>12, Zenon
  <2> QED BY <1>5, <1>10, <1>12, <1>13, <1>15, <1>16, <2>1, Zenon DEF AtColon
<1>18. At(k)'
  BY <1>17, Zenon DEF At
<1> QED BY <1>2, <1>12, <1>13, <1>15, <1>18, Zenon DEF IInv

(* EndInDirective: at the end, with the conversion missing. *)
LEMMA EndInv ==
    ASSUME IInv, EndInDirective
    PROVE  IInv'
<1>1. Inputs /\ Written
  BY DEF IInv
<1>2. PICK k \in 1 .. Len(call) + 1 : At(k)
  BY Zenon DEF IInv
<1>3. phase = "conv"
  BY DEF EndInDirective
<1>4. Within(k)
  BY <1>2, <1>3, WhereAt
<1>5. k \in 1 .. Len(call) /\ Len(out) = 2 * (k - 1) /\ Parsing(call[k], Behind(k), Unread(k))
  BY <1>4, Zenon DEF Within
<1>6. PICK d, r, u : d = call[k] /\ r = Behind(k) /\ u = Unread(k)
  OBVIOUS
<1>7. Scope(d, r, u)
  BY <1>1, <1>5, <1>6, InScope
<1>8. ConvAt(d, r, u)
  <2>1. Parsing(d, r, u)
    BY <1>5, <1>6, Zenon
  <2> QED BY <1>3, <2>1, ByPhase
<1>9. UNCHANGED <<Input, out>> /\ phase' = "text" /\ d.conv = "missing" /\ Stands(<<>>, u)'
  BY <1>7, <1>8, EndStep
<1>10. UNCHANGED Input /\ call' = call /\ out' = out
  BY <1>9 DEF Input
<1>11. Inputs' /\ \A i : Behind(i)' = Behind(i) /\ Unread(i)' = Unread(i) /\ Missing(i)' = Missing(i)
  BY <1>1, <1>10, InputsStay
<1>12. u = <<>>
  <2>1. Len(call) \in Nat /\ (call[k].conv = "missing" => k = Len(call))
    BY <1>1, <1>5, CallFacts
  <2>2. k = Len(call)
    BY <1>6, <1>9, <2>1, Zenon
  <2>3. k \in 0 .. Len(call)
    BY <1>5, <2>1
  <2>4. RestsAre(k)
    BY <1>1, <2>3, RestsKnown
  <2> QED BY <1>6, <2>2, <2>4, Zenon DEF RestsAre
<1>13. Missing(k)
  BY <1>5, <1>6, <1>9, Zenon DEF Missing
<1>14. Ended(k)'
  BY <1>5, <1>9, <1>10, <1>11, <1>12, <1>13, Zenon DEF Ended
<1>15. At(k)'
  BY <1>14, Zenon DEF At
<1>16. Written'
  BY <1>1, <1>10, WrittenStays
<1> QED BY <1>2, <1>10, <1>11, <1>15, <1>16, Zenon DEF IInv

(* Return, behind the last directive or inside of it. *)
LEMMA ReturnInv ==
    ASSUME IInv, Return
    PROVE  IInv'
<1>1. Inputs /\ Written
  BY DEF IInv
<1>2. PICK k \in 1 .. Len(call) + 1 : At(k)
  BY Zenon DEF IInv
<1>3. /\ phase = "text" /\ c = "NUL" /\ phase' = "done" /\ out' = out /\ pos' = pos /\ ap' = ap
      /\ call' = call /\ fmt' = fmt /\ args' = args /\ UNCHANGED Input
  BY DEF Return, Input
<1>4. (Between(k) /\ k = Len(call) + 1) \/ Ended(k)
  BY <1>1, <1>2, <1>3, InText
<1>5. Inputs' /\ \A i : Behind(i)' = Behind(i) /\ Unread(i)' = Unread(i) /\ Missing(i)' = Missing(i)
  BY <1>1, <1>3, InputsStay
<1>6. Len(call) \in Nat
  BY <1>1, CallFacts
<1>7. /\ Stands(<<>>, <<>>) /\ Len(out) = 2 * (k - 1)
      /\ IF k = Len(call) + 1 THEN ~Missing(k - 1) ELSE Missing(k)
  <2>1. CASE Between(k) /\ k = Len(call) + 1
    <3>1. Stands(<<>>, <<>>)
      BY <1>1, <2>1, BetweenIs
    <3> QED BY <2>1, <3>1, Zenon DEF Between
  <2>2. CASE Ended(k)
    <3>1. Missing(k) /\ Stands(<<>>, <<>>) /\ Len(out) = 2 * (k - 1)
      BY <2>2, Zenon DEF Ended
    <3>2. k \in 1 .. Len(call)
      BY <3>1, Zenon DEF Missing
    <3>3. k # Len(call) + 1
      BY <1>6, <3>2
    <3> QED BY <3>1, <3>3, Zenon
  <2> QED BY <1>4, <2>1, <2>2, Zenon
<1>8. Stands(<<>>, <<>>)'
  BY <1>3, <1>7, Zenon DEF Stands
<1>9. Finished(k)'
  BY <1>2, <1>3, <1>5, <1>7, <1>8, Zenon DEF Finished
<1>10. At(k)'
  BY <1>9, Zenon DEF At
<1>11. Written'
  BY <1>1, <1>3, WrittenStays
<1> QED BY <1>2, <1>3, <1>5, <1>10, <1>11, Zenon DEF IInv

(* A step that changes nothing. *)
LEMMA ParsingStays ==
    ASSUME NEW d, NEW r, NEW u, Parsing(d, r, u), UNCHANGED vars
    PROVE  Parsing(d, r, u)'
<1>1. /\ fmt' = fmt /\ pos' = pos /\ args' = args /\ ap' = ap /\ phase' = phase
      /\ length' = length /\ prec' = prec /\ ladjust' = ladjust /\ padc' = padc
      /\ plus_sign' = plus_sign /\ altfmt' = altfmt
  BY DEF vars, spec
<1>2. \A s, a : Stands(s, a) => Stands(s, a)'
  BY <1>1, Zenon DEF Stands
<1>3. /\ \A n : FlagsRead(d, n) /\ LeftRead(d, n) => FlagsRead(d, n)' /\ LeftRead(d, n)'
      /\ AllFlagsRead(d) => AllFlagsRead(d)'
      /\ WidthRead(d) => WidthRead(d)'
  BY <1>1, Zenon DEF FlagsRead, LeftRead, AllFlagsRead, ZeroRead, WidthRead
<1>4. ASSUME FlagsAt(d, r, u) PROVE FlagsAt(d, r, u)'
  BY <1>1, <1>2, <1>3, <1>4, Zenon DEF FlagsAt
<1>5. ASSUME WidthAt(d, r, u) PROVE WidthAt(d, r, u)'
  <2>1. LeftRead(d, Len(d.flags)) => LeftRead(d, Len(d.flags))'
    BY <1>1, Zenon DEF LeftRead
  <2> QED BY <1>1, <1>2, <1>3, <1>5, <2>1, Zenon DEF WidthAt
<1>6. ASSUME WidthDigitsAt(d, r, u) PROVE WidthDigitsAt(d, r, u)'
  BY <1>1, <1>2, <1>3, <1>6, Zenon DEF WidthDigitsAt, Partly
<1>7. ASSUME DotAt(d, r, u) PROVE DotAt(d, r, u)'
  BY <1>1, <1>2, <1>3, <1>7, Zenon DEF DotAt
<1>8. ASSUME PrecAt(d, r, u) PROVE PrecAt(d, r, u)'
  BY <1>1, <1>2, <1>3, <1>8, Zenon DEF PrecAt
<1>9. ASSUME PrecDigitsAt(d, r, u) PROVE PrecDigitsAt(d, r, u)'
  BY <1>1, <1>2, <1>3, <1>9, Zenon DEF PrecDigitsAt, Partly
<1>10. ASSUME SizeAt(d, r, u) PROVE SizeAt(d, r, u)'
  BY <1>1, <1>2, <1>3, <1>10, Zenon DEF SizeAt, AllRead
<1>11. ASSUME ConvAt(d, r, u) PROVE ConvAt(d, r, u)'
  BY <1>1, <1>2, <1>3, <1>11, Zenon DEF ConvAt, AllRead
<1> QED BY <1>4, <1>5, <1>6, <1>7, <1>8, <1>9, <1>10, <1>11, Zenon DEF Parsing

(* The same for the whole invariant. *)
LEMMA StutterInv ==
    ASSUME IInv, UNCHANGED vars
    PROVE  IInv'
<1>1. Inputs /\ Written
  BY DEF IInv
<1>2. PICK k \in 1 .. Len(call) + 1 : At(k)
  BY Zenon DEF IInv
<1>3. /\ call' = call /\ fmt' = fmt /\ args' = args /\ pos' = pos /\ ap' = ap
      /\ phase' = phase /\ out' = out /\ UNCHANGED Input
  BY DEF vars, Input
<1>4. Inputs' /\ \A i : Behind(i)' = Behind(i) /\ Unread(i)' = Unread(i) /\ Missing(i)' = Missing(i)
  BY <1>1, <1>3, InputsStay
<1>5. \A s, a : Stands(s, a) => Stands(s, a)'
  BY <1>3, Zenon DEF Stands
<1>6. PICK d, r, u : d = call[k] /\ r = Behind(k) /\ u = Unread(k)
  OBVIOUS
<1>7. ASSUME Within(k) PROVE Within(k)'
  <2>1. k \in 1 .. Len(call) /\ Len(out) = 2 * (k - 1) /\ Parsing(d, r, u)
    BY <1>6, <1>7, Zenon DEF Within
  <2>2. Parsing(d, r, u)'
    BY <2>1, ParsingStays
  <2> QED BY <1>3, <1>4, <1>6, <2>1, <2>2, Zenon DEF Within
<1>8. ASSUME Between(k) PROVE Between(k)'
  BY <1>3, <1>4, <1>8, Zenon DEF Between, Stands
<1>9. ASSUME AtColon(k) PROVE AtColon(k)'
  BY <1>3, <1>4, <1>9, Zenon DEF AtColon, Stands
<1>10. ASSUME Ended(k) PROVE Ended(k)'
  BY <1>3, <1>4, <1>10, Zenon DEF Ended, Stands
<1>11. ASSUME Finished(k) PROVE Finished(k)'
  BY <1>3, <1>4, <1>11, Zenon DEF Finished, Stands
<1>12. At(k)'
  BY <1>2, <1>7, <1>8, <1>9, <1>10, <1>11, Zenon DEF At
<1>13. Written'
  BY <1>1, <1>3, WrittenStays
<1> QED BY <1>2, <1>3, <1>4, <1>12, <1>13, Zenon DEF IInv

(* At the beginning all of the format and of the arguments are ahead. *)
LEMMA InitInv == Init => IInv
<1> SUFFICES ASSUME Init PROVE IInv
  OBVIOUS
<1>1. /\ call \in Calls
      /\ fmt = FlattenSeq([k \in DOMAIN call |-> Spelling(call[k])])
      /\ args = FlattenSeq([k \in DOMAIN call |-> Passed(call[k])])
      /\ pos = 1 /\ ap = 1 /\ phase = "text" /\ out = <<>>
  BY Zenon DEF Init
<1>2. Inputs
  BY <1>1, Zenon DEF Inputs, Spelled, Handed
<1>3. Len(call) \in Nat
  BY <1>2, CallFacts
<1>4. Written
  <2>1. out \in Seq(STRING) /\ Len(out) = 0
    BY <1>1, EmptySeq
  <2>2. \A j \in 1 .. Len(call) : ~ (2 * j - 1 <= 0) /\ ~ (2 * j <= 0)
    BY <1>3
  <2> QED BY <2>1, <2>2, Zenon DEF Written
<1>5. fmt = Behind(0) /\ args = Unread(0) /\ fmt \in Seq(Letters) /\ args \in Seq(Arguments)
  BY <1>2, AllBehind
<1>6. Ahead(fmt, 1, fmt) /\ Ahead(args, 1, args)
  BY <1>5, AheadAll
<1>7. Between(1)
  <2>1. 1 - 1 = 0 /\ 1 \in 1 .. Len(call) + 1 /\ 2 * (1 - 1) = 0 /\ 0 \notin 1 .. Len(call)
    BY <1>3
  <2>2. Stands(Behind(0), Unread(0))
    BY <1>1, <1>5, <1>6, Zenon DEF Stands
  <2>3. Len(out) = 0
    BY <1>1, EmptySeq
  <2>4. ~Missing(0)
    BY <2>1, Zenon DEF Missing
  <2> QED BY <1>1, <2>1, <2>2, <2>3, <2>4, Zenon DEF Between
<1>8. At(1) /\ 1 \in 1 .. Len(call) + 1
  BY <1>3, <1>7 DEF At
<1> QED BY <1>2, <1>4, <1>8, Zenon DEF IInv

(* Every step keeps it. *)
LEMMA NextInv == IInv /\ [Next]_vars => IInv'
<1> SUFFICES ASSUME IInv, [Next]_vars PROVE IInv'
  OBVIOUS
<1>1. CASE Text
  BY <1>1, TextInv
<1>2. CASE Percent
  BY <1>2, PercentInv
<1>3. CASE Reading
  BY <1>3, ReadingInv
<1>4. CASE Converting
  BY <1>4, ConvertingInv
<1>5. CASE EndInDirective
  BY <1>5, EndInv
<1>6. CASE Return
  BY <1>6, ReturnInv
<1>7. CASE UNCHANGED vars
  BY <1>7, StutterInv
<1> QED BY <1>1, <1>2, <1>3, <1>4, <1>5, <1>6, <1>7, Zenon DEF Next, Reading, Converting

(* FormatInvariant: wherever _doprnt is in the format, what is left of the  *)
(* directives and of their arguments is ahead, the parsed variables hold   *)
(* what was read of the current one, and each piece put is as its          *)
(* directive asked.                                                        *)
THEOREM FormatInvariant == Spec => []IInv
BY InitInv, NextInv, PTL DEF Spec

(* Done means that nothing is ahead. *)
LEMMA DoneIs ==
    ASSUME NEW k, At(k), phase = "done"
    PROVE  Finished(k)
<1>1. phase \notin {"flags", "width", "width digits", "dot", "prec", "prec digits", "size", "conv"}
  OBVIOUS
<1>2. ~Within(k)
  <2> SUFFICES ASSUME Within(k) PROVE FALSE
    OBVIOUS
  <2>1. Parsing(call[k], Behind(k), Unread(k))
    BY Zenon DEF Within
  <2> QED BY <1>1, <2>1, ByPhase, Zenon
<1>3. phase # "text"
  OBVIOUS
<1> QED BY <1>2, <1>3, Zenon DEF At, Between, AtColon, Ended

(* When it is done: each directive has its piece and its colon, but for one *)
(* without a conversion.                                                   *)
LEMMA Complete ==
    ASSUME IInv, phase = "done", NEW j \in DOMAIN call
    PROVE  /\ call[j].conv = "missing" => Len(out) = 2 * j - 2
           /\ call[j].conv # "missing" => /\ Len(out) >= 2 * j /\ out[2 * j] = <<":">>
                                          /\ Proper(call[j], Piece(j))
<1>1. Inputs /\ Written
  BY DEF IInv
<1>2. PICK k \in 1 .. Len(call) + 1 : At(k)
  BY Zenon DEF IInv
<1>3. Finished(k)
  BY <1>2, DoneIs
<1>4. /\ Len(out) = 2 * (k - 1) /\ Stands(<<>>, <<>>)
      /\ IF k = Len(call) + 1 THEN ~Missing(k - 1) ELSE Missing(k)
  BY <1>3, Zenon DEF Finished
<1>6. /\ Len(call) \in Nat /\ j \in 1 .. Len(call)
      /\ \A i \in 1 .. Len(call) : call[i].conv = "missing" => i = Len(call)
  BY <1>1, CallFacts
<1>7. \A i : Missing(i) => i \in 1 .. Len(call) /\ call[i].conv = "missing"
  BY Zenon DEF Missing
<1>8. ASSUME call[j].conv = "missing" PROVE Len(out) = 2 * j - 2
  <2>1. j = Len(call) /\ Missing(j)
    BY <1>6, <1>8, Zenon DEF Missing
  <2>2. k # Len(call) + 1
    <3> SUFFICES ASSUME k = Len(call) + 1 PROVE FALSE
      OBVIOUS
    <3>1. k - 1 = j
      BY <1>6, <2>1
    <3> QED BY <1>4, <2>1, <3>1, Zenon
  <2>3. k = Len(call)
    BY <1>4, <1>6, <1>7, <2>2, Zenon
  <2>4. k = j
    BY <2>1, <2>3, Zenon
  <2>5. 2 * (j - 1) = 2 * j - 2
    BY <1>6
  <2> QED BY <1>4, <2>4, <2>5, Zenon
<1>9. ASSUME call[j].conv # "missing"
      PROVE  /\ Len(out) >= 2 * j /\ out[2 * j] = <<":">>
             /\ Proper(call[j], Piece(j))
  <2>1. j <= k - 1 /\ k \in Nat /\ j \in Nat
    <3>1. CASE k = Len(call) + 1
      BY <1>6, <3>1
    <3>2. CASE k # Len(call) + 1
      <4>1. k \in 1 .. Len(call) /\ call[k].conv = "missing"
        BY <1>4, <1>7, <3>2, Zenon
      <4>2. k = Len(call)
        BY <1>6, <4>1, Zenon
      <4>3. j # k
        BY <1>9, <4>1, Zenon
      <4> QED BY <1>6, <4>2, <4>3
    <3> QED BY <3>1, <3>2
  <2>2. Len(out) = 2 * (k - 1)
    BY <1>4, Zenon
  <2>3. Len(out) >= 2 * j /\ 2 * j <= Len(out) /\ 2 * j - 1 <= Len(out)
    BY <2>1, <2>2
  <2>4. Proper(call[j], out[2 * j - 1]) /\ out[2 * j] = <<":">>
    BY <1>1, <1>6, <2>3, Zenon DEF Written
  <2> QED BY <2>3, <2>4, Zenon DEF Piece
<1> QED BY <1>8, <1>9

(* ArgumentsInStep: when _doprnt is done, the format was read to its end,   *)
(* and every conversion took its own arguments and no other.               *)
THEOREM ArgumentsAlwaysInStep == Spec => []ArgumentsInStep
<1>1. ASSUME IInv PROVE ArgumentsInStep
  <2> SUFFICES ASSUME phase = "done"
               PROVE  /\ ap = Len(args) + 1
                      /\ pos = Len(fmt) + 1
                      /\ \A k \in DOMAIN call :
                            IF call[k].conv = "missing" THEN Len(out) = 2 * k - 2
                            ELSE Len(out) >= 2 * k /\ out[2 * k] = <<":">>
    BY Zenon DEF ArgumentsInStep
  <2>1. Inputs /\ \E k : At(k)
    BY <1>1, Zenon DEF IInv
  <2>2. PICK k : At(k)
    BY <2>1
  <2>3. Finished(k)
    BY <2>2, DoneIs
  <2>4. Stands(<<>>, <<>>)
    BY <2>3, Zenon DEF Finished
  <2>5. pos = Len(fmt) + 1 /\ ap = Len(args) + 1
    BY <2>1, <2>4, NothingAhead
  <2>6. ASSUME NEW j \in DOMAIN call
        PROVE  IF call[j].conv = "missing" THEN Len(out) = 2 * j - 2
               ELSE Len(out) >= 2 * j /\ out[2 * j] = <<":">>
    <3>1. /\ call[j].conv = "missing" => Len(out) = 2 * j - 2
          /\ call[j].conv # "missing" => Len(out) >= 2 * j /\ out[2 * j] = <<":">>
      BY <1>1, Complete, Zenon
    <3> QED BY <3>1, Zenon
  <2> QED BY <2>5, <2>6, Zenon
<1> QED BY <1>1, FormatInvariant, PTL

(* The piece of a conversion that is not missing is as it should be. *)
LEMMA PieceProper ==
    ASSUME IInv, NEW k, Done(k), call[k].conv # "missing"
    PROVE  Proper(call[k], Piece(k))
<1>1. phase = "done" /\ k \in DOMAIN call
  BY Zenon DEF Done
<1> QED BY <1>1, Complete, Zenon

(* NumbersReadBack: every printed number reads back as its argument.       *)
THEOREM NumbersAlwaysReadBack == Spec => []NumbersReadBack
<1>1. ASSUME IInv PROVE NumbersReadBack
  <2> SUFFICES ASSUME NEW k \in DOMAIN call, Done(k), call[k].conv \in NumberConvs
               PROVE  ReadsBack(call[k], Piece(k))
    BY Zenon DEF NumbersReadBack
  <2>1. call[k].conv # "missing"
    BY DEF NumberConvs, SignedConvs
  <2>2. Proper(call[k], Piece(k))
    BY <1>1, <2>1, PieceProper, Zenon
  <2> QED BY <2>2, Zenon DEF Proper
<1> QED BY <1>1, FormatInvariant, PTL

(* NumberFields: every number's field has the width, the padding and the    *)
(* sign that were asked for.                                               *)
THEOREM NumberFieldsAlways == Spec => []NumberFields
<1>1. ASSUME IInv PROVE NumberFields
  <2> SUFFICES ASSUME NEW k \in DOMAIN call, Done(k), call[k].conv \in NumberConvs,
                      ~Has(call[k], " ")
               PROVE  NumberField(call[k], Piece(k))
    BY Zenon DEF NumberFields
  <2>1. call[k].conv # "missing"
    BY DEF NumberConvs, SignedConvs
  <2>2. Proper(call[k], Piece(k))
    BY <1>1, <2>1, PieceProper, Zenon
  <2> QED BY <2>2, Zenon DEF Proper
<1> QED BY <1>1, FormatInvariant, PTL

(* StringFields: every string's field shows what width and precision allow, *)
(* on the side that was asked for.                                         *)
THEOREM StringFieldsAlways == Spec => []StringFields
<1>1. ASSUME IInv PROVE StringFields
  <2> SUFFICES ASSUME NEW k \in DOMAIN call, Done(k), call[k].conv = "s"
               PROVE  StringField(call[k], Piece(k))
    BY Zenon DEF StringFields
  <2>1. call[k].conv # "missing"
    OBVIOUS
  <2>2. Proper(call[k], Piece(k))
    BY <1>1, <2>1, PieceProper, Zenon
  <2> QED BY <2>2, Zenon DEF Proper
<1> QED BY <1>1, FormatInvariant, PTL

=============================================================================
