-------------------------- MODULE VesaPagingProofs --------------------------
(***************************************************************************)
(* MappingsKept, LostOnlyWhere and PixelsLand of VesaPaging, for tables of *)
(* any size, any frame buffer and picture, and any contents of memory.     *)
(***************************************************************************)
EXTENDS VesaPaging, TLAPS

-----------------------------------------------------------------------------
(* Pages and tables. *)

LEMMA DivMod ==
    ASSUME NEW n \in Nat \ {0}, NEW x \in Nat
    PROVE  /\ x \div n \in Nat /\ x % n \in 0 .. n - 1
           /\ x = n * (x \div n) + (x % n)
<1>1. x = n * (x \div n) + (x % n)
  OBVIOUS
<1>2. x % n \in 0 .. n - 1
  OBVIOUS
<1>3. x \div n \in Int
  OBVIOUS
<1>4. x \div n >= 0
  <2> SUFFICES ASSUME x \div n <= -1 PROVE FALSE
    BY <1>3
  <2>1. n * (x \div n) <= -n
    BY <1>3
  <2> QED  BY <1>1, <1>2, <2>1
<1> QED  BY <1>1, <1>2, <1>3, <1>4

LEMMA Quotient ==
    ASSUME NEW n \in Nat \ {0}, NEW q \in Nat, NEW r \in 0 .. n - 1
    PROVE  (n * q + r) \div n = q /\ (n * q + r) % n = r
OBVIOUS

LEMMA Small ==
    ASSUME NEW n \in Nat \ {0}, NEW x \in 0 .. n - 1
    PROVE  x \div n = 0 /\ x % n = x
OBVIOUS

LEMMA QuotientMonotone ==
    ASSUME NEW n \in Nat \ {0}, NEW x \in Nat, NEW z \in Nat, x <= z
    PROVE  x \div n <= z \div n
BY DivMod

LEMMA TimesMonotone ==
    ASSUME NEW a \in Nat, NEW b \in Nat, NEW d \in Nat, a <= b
    PROVE  a * d <= b * d
OBVIOUS

LEMMA QuotientBelow ==
    ASSUME NEW n \in Nat \ {0}, NEW x \in 0 .. n * n - 1
    PROVE  x \div n \in 0 .. n - 1
<1> DEFINE q == x \div n
<1>1. n * n \in Nat /\ x \in Nat
  OBVIOUS
<1>2. q \in Nat /\ n * q <= x
  BY <1>1, DivMod
<1>3. SUFFICES ASSUME n <= q PROVE FALSE
  BY <1>2
<1>4. n * n <= q * n
  BY <1>2, <1>3, TimesMonotone
<1> HIDE DEF q
<1>5. q * n = n * q
  BY <1>2
<1> QED  BY <1>1, <1>2, <1>4, <1>5

LEMMA Sizes == N \in Nat \ {0} /\ N > 9 /\ N * N \in Nat \ {0} /\ Low \subseteq Pages
<1>1. N \in Nat \ {0} /\ N > 9
  BY LayoutAssumption DEF Head
<1>2. N * N \in Nat \ {0} /\ N <= N * N
  BY <1>1
<1> QED  BY <1>1, <1>2 DEF Low, Pages

LEMMA PageIndices ==
    ASSUME NEW p \in Pages
    PROVE  p \in Nat /\ p \div N \in Low /\ p % N \in Low /\ p = N * (p \div N) + (p % N)
<1>1. p \in 0 .. N * N - 1 /\ p \in Nat /\ N \in Nat \ {0}
  BY Sizes DEF Pages
<1>2. p \div N \in 0 .. N - 1
  BY <1>1, QuotientBelow
<1> QED  BY <1>1, <1>2, DivMod DEF Low

-----------------------------------------------------------------------------
(* The invariant.  Before the switch there are the head's tables; after it *)
(* entry pde_idx of the directory names the table being filled.            *)

Replaced(k) == Switched /\ k = pde_idx

Counters ==
    /\ bios \in Bioses
    /\ i \in 0 .. N
    /\ y \in Nat
    /\ vmis \in {None, bios.ctrl}
    /\ pc \in {"pde", "fill", "draw", "loader_main", "lost"} => vmis = bios.ctrl
    /\ pc \in {"paging", "present", "copy", "info"} => blocks[0] = bios.ctrl

Places ==
    /\ pc \in {"set_vesa_model", "paging", "present", "copy", "info", "pde", "fill",
               "draw", "loader_main", "lost"}
    /\ paging <=> pc \notin {"set_vesa_model", "paging"}

Tables ==
    /\ mem \in [{PD, T1, T2, T3} -> [Low -> [pfn : Pages, P : BOOLEAN]]]
    /\ paging =>
          /\ \A k \in Low : mem[T1][k] = Entry(k, TRUE)
          /\ \A k \in Low : mem[T2][k] = Entry(k, k = 9 /\ pc # "present")
          /\ \A k \in Low : mem[PD][k] = IF Replaced(k) THEN Entry(T3, TRUE)
                                         ELSE IF k = 0 THEN Entry(T1, TRUE)
                                         ELSE IF k = HighPde THEN Entry(T2, TRUE)
                                         ELSE Entry(0, FALSE)

Filled ==
    /\ pc \in {"pde", "fill"} => pfn = vmis.framebuffer + i
    /\ pc \in {"set_vesa_model", "paging", "present", "copy", "info", "pde"} => i = 0
    /\ pc = "fill" => i < N
    /\ pc \in {"draw", "loader_main"} => i = N
    /\ pc \in {"fill", "draw", "loader_main"} =>
          \A k \in 0 .. i - 1 : mem[T3][k] = Entry((vmis.framebuffer + k) % (N * N), TRUE)

NotDrawn == pc \in {"set_vesa_model", "paging", "present", "copy", "info", "pde", "fill"} => drawn = {}

(* The rows drawn are within the data segment. *)
RowsInLimit ==
    /\ pc \notin {"draw", "loader_main", "lost"} => y = 0
    /\ pc = "loader_main" => y >= vmis.height
    /\ \A r \in 0 .. y - 1 : \A p \in RowPages(r) : p <= DataLimit

LostWhere ==
    pc = "lost" => pde_idx = 0 \/ LastPage \div N > pde_idx \/ LastPage > DataLimit

IInv == /\ Counters /\ Places /\ Tables /\ Filled /\ NotDrawn
        /\ PixelsLand /\ RowsInLimit /\ LostWhere

-----------------------------------------------------------------------------
(* What the tables of the invariant map. *)

LEMMA Buffer ==
    ASSUME IInv
    PROVE  /\ vmis.framebuffer \in Pages /\ vmis.pitch \in Nat /\ vmis.width \in Nat
           /\ vmis.height \in Nat /\ vmis.bpp \in Nat
           /\ pde_idx \in Low /\ pte_idx \in Low
           /\ vmis.framebuffer = N * pde_idx + pte_idx
<1>1. 0 \in Pages
  BY Sizes DEF Low
<1>2. /\ vmis.framebuffer \in Pages /\ vmis.pitch \in Nat /\ vmis.width \in Nat
      /\ vmis.height \in Nat /\ vmis.bpp \in Nat
  BY <1>1, LayoutAssumption DEF IInv, Counters, None
<1> QED  BY <1>2, PageIndices DEF pde_idx, pte_idx

(* The first table stays in use unless it is the one replaced. *)
LEMMA LowInPlace ==
    ASSUME IInv, paging, Switched => pde_idx # 0, NEW p \in Low
    PROVE  Walk(p) = {p}
<1>1. p \div N = 0 /\ p % N = p /\ 0 \in Low
  BY Sizes, Small DEF Low
<1>2. mem[PD][0] = Entry(T1, TRUE)
  BY <1>1 DEF IInv, Tables, Replaced
<1>3. mem[T1][p] = Entry(p, TRUE)
  BY DEF IInv, Tables
<1> QED  BY <1>1, <1>2, <1>3 DEF Walk, Entry

LEMMA Undisturbed ==
    ASSUME IInv, paging, Switched => pde_idx # 0, NEW data, data \subseteq Low
    PROVE  InPlace(data)
<1>1. \A p \in {Loader, Stack} \cup data : p \in Low /\ Walk(p) = {p}
  BY LowInPlace, LayoutAssumption
<1>2. \A p \in Low : p <= CodeLimit /\ p <= DataLimit
  BY LayoutAssumption, Sizes DEF Low, Pages
<1> QED  BY <1>1, <1>2 DEF InPlace

(* Of the second table's pages there is the tenth. *)
LEMMA HighPages ==
    ASSUME IInv, paging, Switched => pde_idx # HighPde, NEW k \in Low
    PROVE  Walk(HighPde * N + k) = IF k = 9 /\ pc # "present" THEN {9} ELSE {}
<1>1. HighPde \in Low /\ HighPde \in Nat \ {0}
  BY LayoutAssumption, Sizes DEF Low
<1>2. (HighPde * N + k) \div N = HighPde /\ (HighPde * N + k) % N = k
  BY <1>1, Sizes, Quotient DEF Low
<1>3. mem[PD][HighPde] = Entry(T2, TRUE)
  BY <1>1 DEF IInv, Tables, Replaced
<1>4. mem[T2][k] = Entry(k, k = 9 /\ pc # "present")
  BY DEF IInv, Tables
<1> DEFINE p == HighPde * N + k
<1>5. Walk(p) = IF mem[PD][p \div N].P /\ mem[mem[PD][p \div N].pfn][p % N].P
                THEN {mem[mem[PD][p \div N].pfn][p % N].pfn} ELSE {}
  BY DEF Walk
<1>6. p \div N = HighPde /\ p % N = k
  BY <1>2
<1>7. mem[T2][k].pfn = k /\ (mem[T2][k].P <=> k = 9 /\ pc # "present")
  <2>1. CASE k = 9 /\ pc # "present"
    <3>1. mem[T2][k] = Entry(k, TRUE)
      BY <1>4, <2>1
    <3> QED  BY <2>1, <3>1 DEF Entry
  <2>2. CASE ~(k = 9 /\ pc # "present")
    <3>1. mem[T2][k] = Entry(k, FALSE)
      BY <1>4, <2>2
    <3> QED  BY <2>2, <3>1 DEF Entry
  <2> QED  BY <2>1, <2>2
<1>8. mem[PD][HighPde].pfn = T2 /\ mem[PD][HighPde].P
  BY <1>3 DEF Entry
<1>9. Walk(p) = IF mem[T2][k].P THEN {k} ELSE {}
  BY <1>5, <1>6, <1>7, <1>8
<1> QED  BY <1>7, <1>9

(* The pages of the table that was put in use, once it is filled. *)
LEMMA BufferPages ==
    ASSUME IInv, pc = "draw", NEW p \in Pages, p \div N = pde_idx
    PROVE  Walk(p) = {(p + pte_idx) % (N * N)}
<1>1. p = N * pde_idx + (p % N) /\ p % N \in Low /\ p \in Nat
  BY PageIndices
<1>2. mem[PD][pde_idx] = Entry(T3, TRUE)
  BY Buffer DEF IInv, Tables, Places, Replaced, Switched
<1>3. p % N \in 0 .. i - 1
  BY <1>1 DEF IInv, Filled, Low
<1>4. mem[T3][p % N] = Entry((vmis.framebuffer + (p % N)) % (N * N), TRUE)
  BY <1>3 DEF IInv, Filled
<1>5. vmis.framebuffer + (p % N) = p + pte_idx
  BY <1>1, Buffer, Sizes DEF Low
<1>6. mem[PD][p \div N] = Entry(T3, TRUE)
  BY <1>2
<1>7. mem[T3][p % N] = Entry((p + pte_idx) % (N * N), TRUE)
  BY <1>4, <1>5
<1>8. \A f : Entry(f, TRUE).pfn = f /\ Entry(f, TRUE).P = TRUE
  BY DEF Entry
<1> QED  BY <1>6, <1>7, <1>8, Zenon DEF Walk

(* Where any page behind the frame buffer's first one may map to. *)
LEMMA DrawnPages ==
    ASSUME IInv, pc = "draw", NEW p \in Pages, p >= vmis.framebuffer, NEW f \in Walk(p)
    PROVE  \/ p \div N = pde_idx /\ f = (p + pte_idx) % (N * N)
           \/ pde_idx < HighPde /\ p = HighPde * N + 9 /\ f = 9
<1>1. /\ p \div N \in Low /\ p % N \in Low
      /\ p = N * (p \div N) + (p % N) /\ pde_idx <= p \div N
  <2>1. p \in Nat /\ vmis.framebuffer \in Nat /\ N \in Nat \ {0}
    BY PageIndices, Buffer, Sizes
  <2>2. vmis.framebuffer \div N <= p \div N
    BY <2>1, QuotientMonotone
  <2> QED  BY <2>2, PageIndices DEF pde_idx
<1>2. CASE p \div N = pde_idx
  BY <1>2, BufferPages
<1>3. CASE p \div N # pde_idx
  <2>1. paging /\ Switched
    BY DEF IInv, Places, Switched
  <2>2. pde_idx < p \div N /\ p \div N # 0
    BY <1>1, <1>3, Buffer DEF Low
  <2>3. p \div N = HighPde
    <3> SUFFICES ASSUME p \div N # HighPde PROVE FALSE
      OBVIOUS
    <3>1. mem[PD][p \div N] = Entry(0, FALSE)
      BY <1>1, <1>3, <2>1, <2>2 DEF IInv, Tables, Replaced
    <3>2. Walk(p) = {}
      BY <3>1 DEF Walk, Entry
    <3> QED  BY <3>2
  <2>4. p = HighPde * N + (p % N)
    BY <1>1, <2>3, Sizes DEF Low
  <2>5. pde_idx # HighPde
    BY <1>3, <2>3
  <2>6. Walk(p) = IF p % N = 9 THEN {9} ELSE {}
    BY <1>1, <2>1, <2>4, <2>5, HighPages
  <2> QED  BY <2>2, <2>3, <2>4, <2>6
<1> QED  BY <1>2, <1>3

(* The bytes of a row are in or behind the frame buffer, and none of them  *)
(* is behind the last one of the picture.                                  *)
LEMMA RowInPicture ==
    ASSUME IInv, NEW r \in Nat, r < vmis.height, NEW p \in RowPages(r)
    PROVE  p \in Nat /\ vmis.framebuffer <= p /\ p <= LastPage
<1> DEFINE bytes == vmis.bpp \div 8
           last  == (vmis.height - 1) * vmis.pitch + (vmis.width \div 2 - 1) * bytes + 3
<1>1. PICK x \in 0 .. vmis.width \div 2 - 1, b \in {0, 3} :
         p = vmis.framebuffer + (r * vmis.pitch + x * bytes + b) \div PageBytes
  BY DEF RowPages
<1> DEFINE at == r * vmis.pitch + x * bytes + b
<1>2. bytes \in Nat /\ vmis.width \div 2 \in Int /\ vmis.framebuffer \in Nat /\ PageBytes \in Nat \ {0}
  <2>1. vmis.bpp \in Nat /\ vmis.width \in Nat /\ vmis.framebuffer \in Nat
    BY Buffer, PageIndices
  <2>2. 8 \in Nat \ {0} /\ 2 \in Nat \ {0}
    OBVIOUS
  <2>3. bytes \in Nat /\ vmis.width \div 2 \in Nat
    BY <2>1, <2>2, DivMod
  <2> QED  BY <2>1, <2>3, LayoutAssumption
<1>3. r * vmis.pitch \in Nat /\ (vmis.height - 1) * vmis.pitch \in Nat
      /\ r * vmis.pitch <= (vmis.height - 1) * vmis.pitch
  BY Buffer, TimesMonotone
<1>4. x * bytes \in Nat /\ (vmis.width \div 2 - 1) * bytes \in Nat
      /\ x * bytes <= (vmis.width \div 2 - 1) * bytes
  <2> HIDE DEF bytes
  <2>1. x \in Nat /\ vmis.width \div 2 - 1 \in Nat /\ x <= vmis.width \div 2 - 1
    BY <1>2
  <2> QED  BY <1>2, <2>1, TimesMonotone
<1>5. at \in Nat /\ last \in Nat /\ at <= last
  <2> HIDE DEF bytes
  <2> QED  BY <1>3, <1>4
<1>6. at \div PageBytes \in Nat /\ last \div PageBytes \in Nat /\ at \div PageBytes <= last \div PageBytes
  <2> HIDE DEF at, last
  <2> QED  BY <1>2, <1>5, DivMod, QuotientMonotone
<1>7. p = vmis.framebuffer + at \div PageBytes
  BY <1>1
<1>8. LastPage = vmis.framebuffer + last \div PageBytes
  BY DEF LastPage
<1> HIDE DEF at, last
<1> QED  BY <1>2, <1>6, <1>7, <1>8

(* A picture that ends within the 4 MB of the frame buffer is mapped. *)
LEMMA PictureMapped ==
    ASSUME IInv, pc = "draw", y < vmis.height, LastPage \div N <= pde_idx, LastPage <= DataLimit,
           NEW p \in RowPages(y)
    PROVE  p <= DataLimit /\ Walk(p) # {}
<1>1. p \in Nat /\ vmis.framebuffer <= p /\ p <= LastPage
  BY RowInPicture DEF IInv, Counters
<1>2. vmis.framebuffer \in Nat /\ N \in Nat \ {0} /\ pde_idx \in 0 .. N - 1
  BY Buffer, PageIndices, Sizes DEF Low
<1>3. LastPage \in Nat
  <2>1. LastPage \in Int
    BY Buffer, PageIndices, LayoutAssumption DEF LastPage
  <2> QED  BY <1>1, <2>1
<1>4. pde_idx <= p \div N /\ p \div N <= LastPage \div N
  BY <1>1, <1>2, <1>3, QuotientMonotone DEF pde_idx
<1>5. p \div N \in Nat /\ LastPage \div N \in Nat /\ p = N * (p \div N) + (p % N) /\ p % N \in 0 .. N - 1
  BY <1>1, <1>2, <1>3, DivMod
<1>6. p \div N = pde_idx
  <2>1. p \div N \in Nat /\ LastPage \div N \in Nat
    BY <1>5
  <2> QED  BY <1>2, <1>4, <2>1
<1>7. p \in Pages
  <2> DEFINE q == pde_idx
             m == N - 1
  <2>1. q \in Nat /\ m \in Nat /\ q <= m /\ p < N * q + N
    BY <1>2, <1>5, <1>6
  <2>2. q * N <= m * N
    BY <1>2, <2>1, TimesMonotone
  <2>3. m * N + N = N * N /\ q * N = N * q
    BY <1>2
  <2> QED  BY <1>1, <1>2, <2>1, <2>2, <2>3 DEF Pages
<1>8. p <= DataLimit
  <2>1. DataLimit \in Nat
    BY LayoutAssumption, Sizes DEF Pages
  <2> QED  BY <1>1, <1>3, <2>1
<1> QED  BY <1>6, <1>7, <1>8, BufferPages

-----------------------------------------------------------------------------
(* The invariant is kept. *)

LEMMA InitInv == Init => IInv
<1> SUFFICES ASSUME Init PROVE IInv
  OBVIOUS
<1>1. Counters /\ Places /\ Filled /\ NotDrawn
  BY Sizes DEF Init, Counters, Places, Filled, NotDrawn
<1>2. Tables
  BY LayoutAssumption DEF Init, Tables
<1>3. PixelsLand /\ RowsInLimit /\ LostWhere
  BY DEF Init, PixelsLand, RowsInLimit, LostWhere
<1> QED  BY <1>1, <1>2, <1>3 DEF IInv

(* A step that neither draws nor changes what is drawn with. *)
LEMMA Quiet ==
    ASSUME IInv, vmis' = vmis, drawn' = drawn, y' = y, pc' # "lost",
           pc' \in {"draw", "loader_main"} \/ pc \notin {"draw", "loader_main", "lost"},
           pc' = "loader_main" => y >= vmis.height
    PROVE  PixelsLand' /\ RowsInLimit' /\ LostWhere'
BY DEF IInv, PixelsLand, RowsInLimit, RowPages, LostWhere, pde_idx, pte_idx

LEMMA VesaStep == IInv /\ set_vesa_model => IInv'
<1> SUFFICES ASSUME IInv, set_vesa_model PROVE IInv'
  OBVIOUS
<1>1. PixelsLand' /\ RowsInLimit' /\ LostWhere'
  BY Quiet DEF set_vesa_model
<1>2. Counters' /\ Places' /\ Filled' /\ NotDrawn'
  BY DEF set_vesa_model, IInv, Counters, Places, Filled, NotDrawn
<1>3. Tables'
  BY DEF set_vesa_model, IInv, Places, Tables
<1> QED  BY <1>1, <1>2, <1>3 DEF IInv

LEMMA PagingStep == IInv /\ Paging => IInv'
<1> SUFFICES ASSUME IInv, Paging PROVE IInv'
  OBVIOUS
<1>1. PixelsLand' /\ RowsInLimit' /\ LostWhere'
  BY Quiet DEF Paging
<1>2. Counters' /\ Places' /\ Filled' /\ NotDrawn'
  BY DEF Paging, IInv, Counters, Places, Filled, NotDrawn
<1>3. Tables'
  <2>1. /\ mem' = HeadTables(FALSE) /\ pc' = "present" /\ ~Switched'
        /\ mem \in [{PD, T1, T2, T3} -> [Low -> [pfn : Pages, P : BOOLEAN]]]
    BY DEF Paging, IInv, Tables, Switched
  <2> DEFINE t1 == [k \in Low |-> Entry(k, TRUE)]
             t2 == [k \in Low |-> Entry(k, FALSE)]
             pd == [k \in Low |-> IF k = 0 THEN Entry(T1, TRUE)
                                 ELSE IF k = HighPde THEN Entry(T2, TRUE) ELSE Entry(0, FALSE)]
  <2>2. mem'[T1] = t1 /\ mem'[T2] = t2 /\ mem'[PD] = pd
    <3>1. mem' = [mem EXCEPT ![PD] = pd, ![T1] = t1, ![T2] = t2]
      BY <2>1 DEF HeadTables
    <3>2. mem = [f \in {PD, T1, T2, T3} |-> mem[f]]
      BY <2>1
    <3> HIDE DEF t1, t2, pd
    <3>3. mem' = [f \in {PD, T1, T2, T3} |-> IF f = T2 THEN t2 ELSE IF f = T1 THEN t1
                                           ELSE IF f = PD THEN pd ELSE mem[f]]
      BY <3>1, <3>2 DEF PD, T1, T2, T3
    <3> QED  BY <3>3 DEF PD, T1, T2, T3
  <2>3. /\ \A k \in Low : mem'[T1][k] = Entry(k, TRUE)
        /\ \A k \in Low : mem'[T2][k] = Entry(k, k = 9 /\ pc' # "present")
        /\ \A k \in Low : mem'[PD][k] = IF k = 0 THEN Entry(T1, TRUE)
                                        ELSE IF k = HighPde THEN Entry(T2, TRUE)
                                        ELSE Entry(0, FALSE)
    BY <2>1, <2>2
  <2>4. {0, T1, T2} \subseteq Pages
    BY Sizes DEF T1, T2, Low
  <2>5. mem' \in [{PD, T1, T2, T3} -> [Low -> [pfn : Pages, P : BOOLEAN]]]
    BY <2>1, <2>4, Sizes DEF HeadTables, Entry, PD, T1, T2, T3
  <2> QED  BY <2>1, <2>3, <2>5 DEF Tables, Replaced
<1> QED  BY <1>1, <1>2, <1>3 DEF IInv

LEMMA PresentStep == IInv /\ SetPresent => IInv'
<1> SUFFICES ASSUME IInv, SetPresent PROVE IInv'
  OBVIOUS
<1>1. PixelsLand' /\ RowsInLimit' /\ LostWhere'
  BY Quiet DEF SetPresent
<1>2. Counters' /\ Places' /\ Filled' /\ NotDrawn'
  BY DEF SetPresent, IInv, Counters, Places, Filled, NotDrawn
<1>3. Tables'
  <2>1. /\ mem' = [mem EXCEPT ![T2][9] = Entry(9, TRUE)]
        /\ mem \in [{PD, T1, T2, T3} -> [Low -> [pfn : Pages, P : BOOLEAN]]]
        /\ pc = "present" /\ pc' = "copy" /\ ~Switched /\ ~Switched' /\ paging
    BY DEF SetPresent, IInv, Tables, Switched, Places
  <2>2. 9 \in Low /\ 9 \in Pages
    BY Sizes DEF Low
  <2>3. mem' \in [{PD, T1, T2, T3} -> [Low -> [pfn : Pages, P : BOOLEAN]]]
    BY <2>1, <2>2 DEF Entry
  <2>4. mem'[T1] = mem[T1] /\ mem'[PD] = mem[PD]
    BY <2>1 DEF PD, T1, T2, T3
  <2>5. \A k \in Low : mem'[T2][k] = IF k = 9 THEN Entry(9, TRUE) ELSE mem[T2][k]
    BY <2>1, <2>2
  <2>6. \A k \in Low : mem[T2][k] = Entry(k, FALSE)
    <3>1. \A k \in Low : mem[T2][k] = Entry(k, k = 9 /\ pc # "present")
      BY <2>1 DEF IInv, Tables
    <3> QED  BY <2>1, <3>1
  <2>7. ASSUME NEW k \in Low PROVE mem'[T2][k] = Entry(k, k = 9 /\ pc' # "present")
    <3>1. CASE k = 9
      BY <2>1, <2>5, <3>1
    <3>2. CASE k # 9
      BY <2>5, <2>6, <3>2
    <3> QED  BY <3>1, <3>2
  <2>8. \A k \in Low : mem'[T1][k] = Entry(k, TRUE)
    BY <2>1, <2>4 DEF IInv, Tables
  <2>9. \A k \in Low : mem'[PD][k] = IF k = 0 THEN Entry(T1, TRUE)
                                     ELSE IF k = HighPde THEN Entry(T2, TRUE)
                                     ELSE Entry(0, FALSE)
    BY <2>1, <2>4 DEF IInv, Tables, Replaced
  <2>10. \A k \in Low : ~Replaced(k)'
    BY <2>1 DEF Replaced
  <2> QED  BY <2>3, <2>7, <2>8, <2>9, <2>10, Zenon DEF Tables
<1> QED  BY <1>1, <1>2, <1>3 DEF IInv

(* The three statements before the switch find everything in place. *)
LEMMA BeforeSwitch ==
    ASSUME IInv, pc \in {"copy", "info", "pde"}, NEW data, data \subseteq Low
    PROVE  InPlace(data)
BY Undisturbed DEF IInv, Places, Switched

LEMMA FixedPages == {Head, Source, Dest, Blocks, PD, T3} \subseteq Low
BY LayoutAssumption, Sizes DEF Low, PD, T3, Head

LEMMA CopyStep == IInv /\ CopyTable => IInv'
<1> SUFFICES ASSUME IInv, CopyTable PROVE IInv'
  OBVIOUS
<1>1. /\ pc = "copy" /\ pc' = "info" /\ paging
      /\ UNCHANGED <<bios, blocks, paging, mem, i, pfn, vmis, y, drawn>>
  BY BeforeSwitch, FixedPages DEF CopyTable, Step, IInv, Places
<1>2. PixelsLand' /\ RowsInLimit' /\ LostWhere'
  BY <1>1, Quiet
<1>3. Counters' /\ Places' /\ Filled' /\ NotDrawn'
  BY <1>1 DEF IInv, Counters, Places, Filled, NotDrawn
<1>4. Tables'
  BY <1>1 DEF IInv, Tables, Replaced, Switched
<1> QED  BY <1>2, <1>3, <1>4 DEF IInv

LEMMA InfoStep == IInv /\ ReadInfo => IInv'
<1> SUFFICES ASSUME IInv, ReadInfo PROVE IInv'
  OBVIOUS
<1>1. /\ pc = "info" /\ pc' = "pde" /\ paging /\ vmis' = blocks[0] /\ pfn' = vmis'.framebuffer
      /\ UNCHANGED <<bios, blocks, paging, mem, i, y, drawn>>
  BY BeforeSwitch, FixedPages DEF ReadInfo, Step, IInv, Places
<1>2. drawn = {} /\ i = 0 /\ blocks[0] = bios.ctrl
  BY <1>1 DEF IInv, NotDrawn, Filled, Counters
<1>3. PixelsLand' /\ RowsInLimit' /\ LostWhere'
  <2>1. y' = 0
    BY <1>1 DEF IInv, RowsInLimit
  <2>2. RowsInLimit'
    BY <1>1, <2>1 DEF RowsInLimit
  <2> QED  BY <1>1, <1>2, <2>2 DEF PixelsLand, LostWhere
<1>4. vmis'.framebuffer \in Nat
  BY <1>1, <1>2, PageIndices, LayoutAssumption DEF IInv, Counters
<1>5. Counters' /\ Places' /\ Filled' /\ NotDrawn'
  BY <1>1, <1>2, <1>4 DEF IInv, Counters, Places, Filled, NotDrawn
<1>6. Tables'
  BY <1>1 DEF IInv, Tables, Replaced, Switched
<1> QED  BY <1>3, <1>5, <1>6 DEF IInv

LEMMA PdeStep == IInv /\ SetPde => IInv'
<1> SUFFICES ASSUME IInv, SetPde PROVE IInv'
  OBVIOUS
<1>1. /\ pc = "pde" /\ pc' = "fill" /\ paging
      /\ mem' = [mem EXCEPT ![PD][pde_idx] = Entry(T3, TRUE)]
      /\ UNCHANGED <<bios, blocks, paging, i, pfn, vmis, y, drawn>>
  BY BeforeSwitch, FixedPages DEF SetPde, Step, IInv, Places
<1>2. PixelsLand' /\ RowsInLimit' /\ LostWhere'
  BY <1>1, Quiet
<1>3. Counters' /\ Places' /\ NotDrawn'
  BY <1>1 DEF IInv, Counters, Places, NotDrawn
<1>5. Filled'
  <2>1. i = 0 /\ pfn = vmis.framebuffer + i
    BY <1>1 DEF IInv, Filled
  <2>2. 0 < N /\ \A k \in 0 .. i' - 1 : FALSE
    BY <1>1, <2>1, Sizes
  <2> QED  BY <1>1, <2>1, <2>2 DEF Filled
<1>4. Tables'
  <2>1. /\ pde_idx \in Low /\ T3 \in Pages /\ pde_idx' = pde_idx /\ Switched' /\ ~Switched
        /\ mem \in [{PD, T1, T2, T3} -> [Low -> [pfn : Pages, P : BOOLEAN]]]
    BY <1>1, Buffer, FixedPages, Sizes DEF IInv, Tables, Switched, pde_idx
  <2>2. mem' \in [{PD, T1, T2, T3} -> [Low -> [pfn : Pages, P : BOOLEAN]]]
    BY <1>1, <2>1 DEF Entry
  <2>3. mem'[T1] = mem[T1] /\ mem'[T2] = mem[T2]
    BY <1>1, <2>1 DEF PD, T1, T2, T3
  <2>4. \A k \in Low : mem'[PD][k] = IF k = pde_idx THEN Entry(T3, TRUE) ELSE mem[PD][k]
    BY <1>1, <2>1
  <2>5. paging /\ pc # "present" /\ pc' # "present"
    BY <1>1
  <2>6. \A k \in Low : mem'[T1][k] = Entry(k, TRUE)
    BY <2>3, <2>5 DEF IInv, Tables
  <2>7. \A k \in Low : mem'[T2][k] = Entry(k, k = 9 /\ pc' # "present")
    <3> SUFFICES ASSUME NEW k \in Low
                 PROVE  mem'[T2][k] = Entry(k, k = 9 /\ pc' # "present")
      OBVIOUS
    <3>1. mem[T2][k] = Entry(k, k = 9 /\ pc # "present")
      BY <2>5 DEF IInv, Tables
    <3>2. (k = 9 /\ pc # "present") = (k = 9 /\ pc' # "present")
      BY <2>5
    <3> QED  BY <2>3, <3>1, <3>2
  <2>8. \A k \in Low : mem[PD][k] = IF k = 0 THEN Entry(T1, TRUE)
                                    ELSE IF k = HighPde THEN Entry(T2, TRUE)
                                    ELSE Entry(0, FALSE)
    BY <2>1, <2>5 DEF IInv, Tables, Replaced
  <2>9. \A k \in Low : Replaced(k)' <=> k = pde_idx
    BY <2>1 DEF Replaced
  <2>10. \A k \in Low : mem'[PD][k] = IF Replaced(k)' THEN Entry(T3, TRUE)
                                      ELSE IF k = 0 THEN Entry(T1, TRUE)
                                      ELSE IF k = HighPde THEN Entry(T2, TRUE)
                                      ELSE Entry(0, FALSE)
    BY <2>4, <2>8, <2>9
  <2> QED  BY <2>2, <2>6, <2>7, <2>10, Zenon DEF Tables
<1> QED  BY <1>2, <1>3, <1>4, <1>5 DEF IInv

(* A step of the loop fills an entry, or finds its code gone. *)
LEMMA FillStep == IInv /\ FillTable => IInv'
<1> SUFFICES ASSUME IInv, FillTable PROVE IInv'
  OBVIOUS
<1>1. pc = "fill" /\ paging /\ Switched /\ UNCHANGED <<bios, blocks, paging>>
  BY DEF FillTable, Fill, Step, IInv, Places, Switched
<1>2. CASE InPlace({T3})
  <2>1. /\ mem' = [mem EXCEPT ![T3][i] = Entry(pfn % (N * N), TRUE)]
        /\ pfn' = pfn + 1 /\ i' = i + 1
        /\ pc' = IF i' < N THEN "fill" ELSE "draw"
        /\ UNCHANGED <<vmis, y, drawn>>
    BY <1>2 DEF FillTable, Fill, Step
  <2>2. /\ i \in Low /\ i < N /\ pfn = vmis.framebuffer + i /\ vmis.framebuffer \in Nat
        /\ N \in Nat \ {0} /\ N * N \in Nat \ {0}
    <3>1. i < N /\ pfn = vmis.framebuffer + i /\ i \in 0 .. N
      BY <1>1 DEF IInv, Filled, Counters
    <3>2. vmis.framebuffer \in Nat
      BY Buffer, PageIndices
    <3> QED  BY <3>1, <3>2, Sizes DEF Low
  <2>3. PixelsLand' /\ RowsInLimit' /\ LostWhere'
    BY <1>1, <2>1, Quiet
  <2>4. pde_idx' = pde_idx /\ Switched'
    BY <2>1 DEF pde_idx, Switched
  <2>5. pfn % (N * N) \in Pages
    BY <2>2, DivMod, SMTT(30) DEF Pages
  <2>6. mem \in [{PD, T1, T2, T3} -> [Low -> [pfn : Pages, P : BOOLEAN]]]
    BY DEF IInv, Tables
  <2>7. Tables'
    <3>1. mem' \in [{PD, T1, T2, T3} -> [Low -> [pfn : Pages, P : BOOLEAN]]]
      BY <2>1, <2>2, <2>5, <2>6 DEF Entry
    <3>2. mem'[PD] = mem[PD] /\ mem'[T1] = mem[T1] /\ mem'[T2] = mem[T2]
      BY <2>1, <2>6 DEF PD, T1, T2, T3
    <3>3. pc' # "present" /\ pc # "present"
      BY <1>1, <2>1
    <3> QED  BY <1>1, <2>4, <3>1, <3>2, <3>3 DEF IInv, Tables, Replaced
  <2>8. Filled'
    <3>1. \A k \in Low : mem'[T3][k] = IF k = i THEN Entry(pfn % (N * N), TRUE) ELSE mem[T3][k]
      BY <2>1, <2>2, <2>6
    <3>2. \A k \in 0 .. i - 1 : mem[T3][k] = Entry((vmis.framebuffer + k) % (N * N), TRUE)
      BY <1>1 DEF IInv, Filled
    <3>3. ASSUME NEW k \in 0 .. i' - 1
          PROVE  mem'[T3][k] = Entry((vmis.framebuffer + k) % (N * N), TRUE)
      <4>1. k \in Low /\ (k = i \/ k \in 0 .. i - 1)
        BY <2>1, <2>2 DEF Low
      <4> QED  BY <2>2, <3>1, <3>2, <4>1
    <3>4. i \in Nat /\ N \in Nat /\ i < N /\ pfn = vmis.framebuffer + i /\ vmis.framebuffer \in Nat
      BY <2>2 DEF Low
    <3>5. CASE i' < N
      <4>1. pc' = "fill" /\ vmis' = vmis /\ pfn' = vmis.framebuffer + i'
        BY <2>1, <3>4, <3>5
      <4> QED  BY <3>3, <3>5, <4>1 DEF Filled
    <3>6. CASE ~(i' < N)
      <4>1. pc' = "draw" /\ vmis' = vmis /\ i' = N
        BY <2>1, <3>4, <3>6
      <4> QED  BY <3>3, <4>1 DEF Filled
    <3> QED  BY <3>5, <3>6
  <2>9. Counters' /\ Places' /\ NotDrawn'
    BY <1>1, <2>1, <2>2 DEF IInv, Counters, Places, NotDrawn
  <2> QED  BY <2>3, <2>7, <2>8, <2>9 DEF IInv
<1>3. CASE ~InPlace({T3})
  <2>1. pc' = "lost" /\ UNCHANGED <<mem, i, pfn, vmis, y, drawn>>
    BY <1>3 DEF FillTable, Fill, Step
  <2>2. pde_idx = 0
    BY <1>1, <1>3, Undisturbed, FixedPages
  <2>3. PixelsLand' /\ RowsInLimit' /\ LostWhere'
    BY <2>1, <2>2 DEF IInv, PixelsLand, RowsInLimit, RowPages, LostWhere, pde_idx, pte_idx
  <2>4. Counters' /\ Places' /\ Filled' /\ NotDrawn'
    BY <1>1, <2>1 DEF IInv, Counters, Places, Filled, NotDrawn
  <2>5. Tables'
    BY <1>1, <2>1 DEF IInv, Tables, Replaced, Switched, pde_idx
  <2> QED  BY <2>3, <2>4, <2>5 DEF IInv
<1> QED  BY <1>2, <1>3

(* Nothing but drawn, y and the place changes once the table is filled. *)
LEMMA TablesStay ==
    ASSUME IInv, pc = "draw", pc' \in {"draw", "loader_main", "lost"},
           UNCHANGED <<bios, blocks, paging, mem, i, pfn, vmis>>, y' \in Nat
    PROVE  Counters' /\ Places' /\ Tables' /\ Filled' /\ NotDrawn'
<1>1. Counters' /\ Places' /\ Filled' /\ NotDrawn'
  BY DEF IInv, Counters, Places, Filled, NotDrawn
<1>2. Tables'
  BY DEF IInv, Tables, Replaced, Switched, pde_idx
<1> QED  BY <1>1, <1>2

LEMMA DrawStep == IInv /\ DrawRow => IInv'
<1> SUFFICES ASSUME IInv, DrawRow PROVE IInv'
  OBVIOUS
<1>1. /\ pc = "draw" /\ paging /\ y < vmis.height /\ y \in Nat
      /\ UNCHANGED <<bios, blocks, paging>>
  BY DEF DrawRow, Step, IInv, Places, Counters
<1>2. CASE InPlace({}) /\ \A p \in RowPages(y) : p <= DataLimit /\ Walk(p) # {}
  <2>1. /\ drawn' = drawn \cup UNION {{p} \X Walk(p) : p \in RowPages(y)}
        /\ y' = y + 1 /\ UNCHANGED <<pc, mem, i, pfn, vmis>>
    BY <1>2 DEF DrawRow, Step
  <2>2. pde_idx' = pde_idx /\ pte_idx' = pte_idx
    BY <2>1 DEF pde_idx, pte_idx
  <2>3. ASSUME NEW d \in drawn'
        PROVE  \/ d[1] \div N = pde_idx /\ d[2] = (d[1] + pte_idx) % (N * N)
               \/ pde_idx < HighPde /\ d = <<HighPde * N + 9, 9>>
    <3>1. CASE d \in drawn
      BY <3>1 DEF IInv, PixelsLand
    <3>2. CASE d \notin drawn
      <4>1. PICK p \in RowPages(y) : d \in {p} \X Walk(p)
        BY <2>1, <3>2
      <4>2. PICK f \in Walk(p) : d = <<p, f>>
        BY <4>1
      <4>3. p \in Pages /\ vmis.framebuffer <= p
        <5>1. p \in Nat /\ vmis.framebuffer <= p /\ p <= DataLimit
          BY <1>1, <1>2, <4>1, RowInPicture
        <5> QED  BY <5>1, LayoutAssumption, Sizes DEF Pages
      <4>4. p >= vmis.framebuffer
        BY <4>3, Buffer, PageIndices
      <4> QED  BY <1>1, <4>2, <4>3, <4>4, DrawnPages
    <3> QED  BY <3>1, <3>2
  <2>4. PixelsLand'
    BY <2>2, <2>3 DEF PixelsLand
  <2>5. LostWhere'
    BY <1>1, <2>1 DEF LostWhere
  <2>6. RowsInLimit'
    <3>1. \A r \in 0 .. y' - 1 : r \in 0 .. y - 1 \/ r = y
      BY <1>1, <2>1
    <3>2. \A r \in 0 .. y' - 1 : \A p \in RowPages(r) : p <= DataLimit
      BY <1>2, <3>1 DEF IInv, RowsInLimit
    <3>3. \A r : RowPages(r)' = RowPages(r)
      BY <2>1 DEF RowPages
    <3> QED  BY <1>1, <2>1, <3>2, <3>3 DEF RowsInLimit
  <2> QED  BY <1>1, <2>1, <2>4, <2>5, <2>6, TablesStay DEF IInv
<1>3. CASE ~(InPlace({}) /\ \A p \in RowPages(y) : p <= DataLimit /\ Walk(p) # {})
  <2>1. pc' = "lost" /\ UNCHANGED <<mem, i, pfn, vmis, y, drawn>>
    BY <1>3 DEF DrawRow, Step
  <2>2. pde_idx' = pde_idx /\ pte_idx' = pte_idx /\ LastPage' = LastPage
    BY <2>1 DEF pde_idx, pte_idx, LastPage
  <2>3. CASE ~InPlace({})
    <3>1. pde_idx = 0
      BY <1>1, <2>3, Undisturbed DEF Switched
    <3> QED  BY <1>1, <2>1, <2>2, <3>1, TablesStay DEF IInv, PixelsLand, RowsInLimit, RowPages, LostWhere
  <2>4. CASE InPlace({})
    <3>1. ~(LastPage \div N <= pde_idx /\ LastPage <= DataLimit)
      BY <1>1, <1>3, <2>4, PictureMapped
    <3>2. LastPage \in Int /\ DataLimit \in Int /\ LastPage \div N \in Int /\ pde_idx \in Int
      <4>1. LastPage \in Int /\ N \in Nat \ {0}
        <5>1. /\ vmis.framebuffer \in Int /\ vmis.pitch \in Nat /\ vmis.width \in Nat
              /\ vmis.height \in Nat /\ vmis.bpp \in Nat /\ PageBytes \in Nat \ {0}
          BY Buffer, PageIndices, LayoutAssumption
        <5>2. (vmis.height - 1) * vmis.pitch \in Int
          BY <5>1
        <5>3. (vmis.width \div 2 - 1) * (vmis.bpp \div 8) \in Int
          <6>1. vmis.width \div 2 \in Int /\ vmis.bpp \div 8 \in Int
            BY <5>1
          <6> QED  BY <6>1
        <5>4. LastPage \in Int
          <6> DEFINE last == (vmis.height - 1) * vmis.pitch
                                + (vmis.width \div 2 - 1) * (vmis.bpp \div 8) + 3
          <6>1. last \in Int
            BY <5>2, <5>3
          <6> HIDE DEF last
          <6>2. vmis.framebuffer + last \div PageBytes \in Int
            BY <5>1, <6>1
          <6> QED  BY <6>2 DEF LastPage, last
        <5> QED  BY <5>4, Sizes
      <4>2. LastPage \div N \in Int
        BY <4>1
      <4> QED  BY <4>1, <4>2, Buffer, PageIndices, LayoutAssumption, Sizes DEF Low, Pages
    <3>3. LastPage \div N > pde_idx \/ LastPage > DataLimit
      BY <3>1, <3>2
    <3> QED  BY <1>1, <2>1, <2>2, <3>3, TablesStay DEF IInv, PixelsLand, RowsInLimit, RowPages, LostWhere
  <2> QED  BY <2>3, <2>4
<1> QED  BY <1>2, <1>3

LEMMA ReturnStep == IInv /\ Return => IInv'
<1> SUFFICES ASSUME IInv, Return PROVE IInv'
  OBVIOUS
<1>1. /\ pc = "draw" /\ paging /\ y \in Nat /\ y >= vmis.height /\ pc' \in {"loader_main", "lost"}
      /\ UNCHANGED <<bios, blocks, paging, mem, i, pfn, vmis, y, drawn>>
  BY DEF Return, Step, IInv, Places, Counters
<1>2. CASE InPlace({})
  <2>1. pc' = "loader_main"
    BY <1>2 DEF Return, Step
  <2>2. PixelsLand' /\ RowsInLimit' /\ LostWhere'
    BY <1>1, <2>1, Quiet
  <2> QED  BY <1>1, <2>2, TablesStay DEF IInv
<1>3. CASE ~InPlace({})
  <2>1. pde_idx = 0 /\ pde_idx' = pde_idx /\ pte_idx' = pte_idx
    BY <1>1, <1>3, Undisturbed DEF Switched, pde_idx, pte_idx
  <2>2. pc' = "lost"
    BY <1>3 DEF Return, Step
  <2>3. RowsInLimit'
    BY <1>1, <2>2 DEF IInv, RowsInLimit, RowPages
  <2>4. PixelsLand' /\ LostWhere'
    BY <1>1, <2>1 DEF IInv, PixelsLand, LostWhere
  <2> QED  BY <1>1, <2>3, <2>4, TablesStay DEF IInv
<1> QED  BY <1>2, <1>3

LEMMA StutterStep == IInv /\ UNCHANGED vars => IInv'
<1> SUFFICES ASSUME IInv, UNCHANGED vars PROVE IInv'
  OBVIOUS
<1>1. /\ UNCHANGED <<pc, bios, mem, blocks, paging, i, pfn, vmis, y, drawn>>
      /\ pde_idx' = pde_idx /\ pte_idx' = pte_idx /\ LastPage' = LastPage
  BY DEF vars, pde_idx, pte_idx, LastPage
<1>2. Counters' /\ Places' /\ Filled' /\ NotDrawn'
  BY <1>1 DEF IInv, Counters, Places, Filled, NotDrawn
<1>3. Tables'
  BY <1>1 DEF IInv, Tables, Replaced, Switched
<1>4. PixelsLand' /\ RowsInLimit' /\ LostWhere'
  BY <1>1 DEF IInv, PixelsLand, RowsInLimit, RowPages, LostWhere
<1> QED  BY <1>2, <1>3, <1>4 DEF IInv

(* The inductive invariant of the head's tables and of vesa_information.   *)
THEOREM Invariant == Spec => []IInv
<1>1. IInv /\ [Next]_vars => IInv'
  BY VesaStep, PagingStep, PresentStep, CopyStep, InfoStep, PdeStep, FillStep, DrawStep,
     ReturnStep, StutterStep DEF Next
<1> QED  BY <1>1, InitInv, PTL DEF Spec

(* Putting the table in use before it is filled disturbs nothing outside    *)
(* its own 4 MB: MappingsKept, for every table size and contents of memory. *)
THEOREM MappingsStay == Spec => []MappingsKept
<1>1. IInv => MappingsKept
  BY LowInPlace, HighPages DEF MappingsKept
<1> QED  BY <1>1, Invariant, PTL

(* A picture that is there in full ends within the last row's pages. *)
LEMMA LastPageDrawn ==
    ASSUME IInv, pc = "loader_main", vmis.height > 0, vmis.width \div 2 > 0
    PROVE  LastPage <= DataLimit
<1>1. vmis.height - 1 \in 0 .. y - 1
  BY Buffer DEF IInv, Counters, RowsInLimit
<1>2. vmis.width \div 2 - 1 \in 0 .. vmis.width \div 2 - 1
  BY Buffer
<1>3. LastPage \in RowPages(vmis.height - 1)
  BY <1>2 DEF LastPage, RowPages
<1> QED  BY <1>1, <1>3 DEF IInv, RowsInLimit

(* vesa_information is lost in the three cases named only, and with a       *)
(* picture past the segment's limit never returns: LostOnlyWhere, for every *)
(* frame buffer, picture and limit.                                        *)
THEOREM SeldomLost == Spec => []LostOnlyWhere
<1>1. IInv => LostOnlyWhere
  BY LastPageDrawn DEF IInv, LostWhere, LostOnlyWhere
<1> QED  BY <1>1, Invariant, PTL

(* Where pixels land: PixelsLand, for every frame buffer and picture. *)
THEOREM PixelsPlaced == Spec => []PixelsLand
<1>1. IInv => PixelsLand
  BY DEF IInv
<1> QED  BY <1>1, Invariant, PTL

=============================================================================
