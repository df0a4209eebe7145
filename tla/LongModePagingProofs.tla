------------------------ MODULE LongModePagingProofs ------------------------
(***************************************************************************)
(* For tables of any size N >= 8, any choice of the two slots and of the   *)
(* frames, and any contents of the memory the boot finds: the page tables  *)
(* of the 64-bit boot and of mm_setup do what the code relies on.          *)
(***************************************************************************)
EXTENDS LongModePaging, TLAPS

(* Through the self-map slot, the address get_pte_of_va computes is that of *)
(* the entry itself: one level of the walk is spent in the top-level table. *)
THEOREM SelfMapTheorem ==
    ASSUME mem[PML4][SelfSlot] = PML4, Absent # PML4, NEW a \in Addresses
    PROVE  /\ Walk(get_pte_of_va(a)) = Entry(Entry(Entry(PML4, a[1]), a[2]), a[3])
           /\ Walk(a) = Entry(Walk(get_pte_of_va(a)), get_pte_of_va(a)[5])
  BY DEF Walk, Entry, get_pte_of_va

(* What is known of the constants, as the steps below need it. *)
LEMMA Constants ==
    /\ N \in Nat /\ N >= 8
    /\ SelfSlot \in Index \ {0} /\ DevSlot \in Index \ {0} /\ SelfSlot # DevSlot
    /\ {2, 3, 4, 5, 6, 7, 8} \subseteq Frames
    /\ Spare \in Frames /\ Spare + 1 \in Frames /\ Spare + 2 \in Frames
    /\ Spare \in Nat /\ Spare > 9
    /\ ApicFrame \in Frames
    /\ Absent \notin Frames
    /\ {0, 1, 2} \subseteq Index
  BY SizeAssumption, FrameAssumption DEF Index

(* A store to entry i of frame f changes that entry only. *)
LEMMA Written ==
    ASSUME NEW m \in [Frames -> [Index -> Entries]],
           NEW f \in Frames, NEW i \in Index, NEW e \in Entries,
           NEW n, n = [m EXCEPT ![f][i] = e]
    PROVE  /\ n \in [Frames -> [Index -> Entries]]
           /\ n[f][i] = e
           /\ \A g \in Frames, j \in Index : (g # f \/ j # i) => n[g][j] = m[g][j]
           /\ \A g \in Frames : g # f => n[g] = m[g]
  OBVIOUS

(* The address of entry SelfSlot of the top-level table, through the        *)
(* identity map.                                                            *)
LEMMA LinearPML4 == Linear(PML4, SelfSlot) = <<0, 0, 0, PML4, SelfSlot>>
<1>1. 2 \div N = 0 /\ 2 % N = 2
  BY SizeAssumption
<1> QED BY <1>1 DEF Linear, PML4

(* The four addresses mm_setup stores to. *)
LEMMA EntryAddresses ==
    /\ Pxe = <<SelfSlot, SelfSlot, SelfSlot, SelfSlot, DevSlot>>
    /\ Ppe = <<SelfSlot, SelfSlot, SelfSlot, DevSlot, 0>>
    /\ Pde = <<SelfSlot, SelfSlot, DevSlot, 0, 0>>
    /\ Pte = <<SelfSlot, DevSlot, 0, 0, 0>>
  BY DEF Pxe, Ppe, Pde, Pte, Device, get_pte_of_va

(* Where each access of the C code lands, from the tables alone. *)
Lands ==
    pc \notin {"clearPML4Es", "link", "lp_map_2M"} =>
           /\ \A a \in Identity : Walk(a) = a[3] * N + a[4]
           /\ Walk(Linear(PML4, SelfSlot)) = PML4
           /\ pc \in {"pxe", "ppe", "pde", "pte", "apic", "halt"} => Walk(Pxe) = PML4
           /\ pc \in {"ppe", "pde", "pte", "apic", "halt"} => Walk(Ppe) = Spare
           /\ pc \in {"pde", "pte", "apic", "halt"} => Walk(Pde) = Spare + 1
           /\ pc \in {"pte", "apic", "halt"} => Walk(Pte) = Spare + 2
           /\ pc \in {"apic", "halt"} => Walk(Device) = ApicFrame

(* The address each store of mm_setup uses leads to the table it means. *)
LEMMA Landing == IInv => Lands
<1> SUFFICES ASSUME TypeOK, Linked, Filled, Extended,
                    pc \notin {"clearPML4Es", "link", "lp_map_2M"}
             PROVE  Lands
  BY DEF IInv, Lands
<1> USE Constants DEF PML4, PDPT, PD, PT
<1>1. mem[2][0] = 3 /\ mem[3][0] = 4 /\ mem[4][0] = 5 /\ mem[4][1] = 6
  BY DEF Linked
<1>2. \A f \in {5, 6}, i \in Index : mem[f][i] = (f - 5) * N + i
  BY DEF Filled
<1>3. \A a \in Identity : Walk(a) = a[3] * N + a[4]
  <2> SUFFICES ASSUME NEW t \in {0, 1}, NEW i \in Index
               PROVE  Walk(<<0, 0, t, i, 0>>) = t * N + i
    BY DEF Identity
  <2>1. i \in Nat /\ N \in Nat
    BY DEF Index
  <2>2. mem[5][i] = i /\ mem[6][i] = N + i
    BY <1>2, <2>1
  <2>3. CASE t = 0
    BY <1>1, <2>1, <2>2, <2>3 DEF Walk, Entry
  <2>4. CASE t = 1
    BY <1>1, <2>1, <2>2, <2>4 DEF Walk, Entry
  <2> QED BY <2>3, <2>4
<1>4. Walk(Linear(PML4, SelfSlot)) = PML4
  <2>1. mem[5][2] = 2
    BY <1>2
  <2>2. Walk(<<0, 0, 0, 2, SelfSlot>>) = 2
    BY <1>1, <2>1 DEF Walk, Entry
  <2> QED BY <2>2, LinearPML4
<1>5. pc \in {"pxe", "ppe", "pde", "pte", "apic", "halt"} => Walk(Pxe) = PML4
  BY EntryAddresses DEF Extended, Walk, Entry
<1>6. pc \in {"ppe", "pde", "pte", "apic", "halt"} => Walk(Ppe) = Spare
  BY EntryAddresses DEF Extended, Walk, Entry
<1>7. pc \in {"pde", "pte", "apic", "halt"} => Walk(Pde) = Spare + 1
  BY EntryAddresses DEF Extended, Walk, Entry
<1>8. pc \in {"pte", "apic", "halt"} => Walk(Pte) = Spare + 2
  BY EntryAddresses DEF Extended, Walk, Entry
<1>9. pc \in {"apic", "halt"} => Walk(Device) = ApicFrame
  BY DEF Extended, Walk, Entry, Device
<1> QED BY <1>3, <1>4, <1>5, <1>6, <1>7, <1>8, <1>9 DEF Lands

-----------------------------------------------------------------------------
(* The inductive invariant, step by step. *)

(* The invariant holds initially. *)
LEMMA InvInit == Init => IInv
<1> SUFFICES ASSUME Init PROVE IInv
  OBVIOUS
<1>1. TypeOK
  <2>1. mem \in [Frames -> [Index -> Entries]] /\ mem0 = mem
    BY MemoryAssumption DEF Init
  <2>2. esi \in [f : 2 .. 9, i : Index] /\ ebx \in 0 .. 4 * N
    BY Constants DEF Init, PML4
  <2> QED BY <2>1, <2>2 DEF Init, TypeOK, PCs
<1> QED BY <1>1, Constants DEF Init, IInv, NoFault, PagingOn, Cleared, Linked, Filled, Extended,
           UsedSoFar, OnlyTablesWritten, Index

(* Clearing the top-level table keeps the invariant. *)
LEMMA ClearStep ==
    ASSUME IInv, clearPML4Es PROVE IInv'
<1> USE Constants DEF IInv, TypeOK, PML4
<1>1. esi.f = 2 /\ esi.i \in Index /\ Absent \in Entries /\ 2 \in Frames
  BY DEF clearPML4Es, Cleared, Entries
<1>2. /\ mem' \in [Frames -> [Index -> Entries]]
      /\ mem'[2][esi.i] = Absent
      /\ \A g \in Frames, j \in Index : (g # 2 \/ j # esi.i) => mem'[g][j] = mem[g][j]
      /\ \A g \in Frames : g # 2 => mem'[g] = mem[g]
  BY <1>1, Written DEF clearPML4Es
<1>3. CASE esi.i + 1 < N
  <2>1. esi' = [f |-> 2, i |-> esi.i + 1] /\ esi.i + 1 \in Index
    BY <1>1, <1>3 DEF clearPML4Es, NextEntry, Index
  <2>2. pc' = "clearPML4Es"
    BY <1>3 DEF clearPML4Es
  <2>3. TypeOK'
    BY <1>2, <2>1, <2>2 DEF clearPML4Es
  <2>4. \A i \in Index : i < esi.i + 1 => mem'[2][i] = Absent
    BY <1>1, <1>2 DEF Cleared, clearPML4Es, Index
  <2>5. Cleared'
    BY <2>1, <2>2, <2>4 DEF Cleared
  <2>6. OnlyTablesWritten'
    BY <1>2 DEF clearPML4Es, OnlyTablesWritten, BootTables
  <2> QED BY <2>2, <2>3, <2>5, <2>6
          DEF clearPML4Es, NoFault, PagingOn, Linked, Filled, Extended, UsedSoFar
<1>4. CASE ~(esi.i + 1 < N)
  <2>1. esi' = [f |-> 3, i |-> 0] /\ esi.i = N - 1
    BY <1>1, <1>4 DEF clearPML4Es, NextEntry, Index
  <2>2. pc' = "link"
    BY <1>4 DEF clearPML4Es
  <2>3. TypeOK'
    BY <1>2, <2>1, <2>2 DEF clearPML4Es, PCs
  <2>4. \A i \in Index : mem'[2][i] = Absent
    BY <1>1, <1>2, <2>1 DEF Cleared, clearPML4Es, Index
  <2>5. OnlyTablesWritten'
    BY <1>2 DEF clearPML4Es, OnlyTablesWritten, BootTables
  <2> QED BY <2>2, <2>3, <2>4, <2>5
          DEF clearPML4Es, NoFault, PagingOn, Cleared, Linked, Filled, Extended, UsedSoFar
<1> QED BY <1>3, <1>4

(* So does linking the tables. *)
LEMMA LinkStep ==
    ASSUME IInv, LinkTables PROVE IInv'
<1> USE Constants DEF IInv, TypeOK, PML4, PDPT, PD, PT
<1>1. {2, 3, 4, 5, 6} \subseteq Frames /\ {2, 3, 4, 5, 6} \subseteq Entries
  BY DEF Entries
<1>2. mem' = [mem EXCEPT ![2][0] = 3, ![3][0] = 4, ![4][0] = 5, ![4][1] = 6]
  BY DEF LinkTables
<1> DEFINE m1 == [mem EXCEPT ![2][0] = 3]
           m2 == [m1 EXCEPT ![3][0] = 4]
           m3 == [m2 EXCEPT ![4][0] = 5]
           m4 == [m3 EXCEPT ![4][1] = 6]
<1>3. mem' = m4
  BY <1>2
<1>4. m1 \in [Frames -> [Index -> Entries]] /\ m1[2][0] = 3
      /\ \A g \in Frames : g # 2 => m1[g] = mem[g]
  BY <1>1, Written
<1>5. m2 \in [Frames -> [Index -> Entries]] /\ m2[3][0] = 4 /\ m2[2][0] = 3
      /\ \A g \in Frames : g \notin {2, 3} => m2[g] = mem[g]
  <2> HIDE DEF m1
  <2> QED BY <1>1, <1>4, Written
<1>6. m3 \in [Frames -> [Index -> Entries]] /\ m3[4][0] = 5 /\ m3[3][0] = 4 /\ m3[2][0] = 3
      /\ \A g \in Frames : g \notin {2, 3, 4} => m3[g] = mem[g]
  <2> HIDE DEF m2
  <2> QED BY <1>1, <1>5, Written
<1>7. m4 \in [Frames -> [Index -> Entries]]
      /\ m4[4][1] = 6 /\ m4[4][0] = 5 /\ m4[3][0] = 4 /\ m4[2][0] = 3
      /\ \A g \in Frames : g \notin {2, 3, 4} => m4[g] = mem[g]
  <2> HIDE DEF m3
  <2> QED BY <1>1, <1>6, Written
<1> HIDE DEF m4
<1>8. TypeOK'
  <2>1. esi' \in [f : 2 .. 9, i : Index] /\ ebx' \in 0 .. 4 * N
    BY DEF LinkTables
  <2> QED BY <1>3, <1>7, <2>1 DEF LinkTables, PCs
<1>9. Linked' /\ OnlyTablesWritten'
  BY <1>3, <1>7 DEF LinkTables, Linked, OnlyTablesWritten, BootTables
<1>10. Filled'
  BY DEF LinkTables, Filled, Index
<1> QED BY <1>8, <1>9, <1>10
        DEF LinkTables, NoFault, PagingOn, Cleared, Extended, UsedSoFar

(* The entry after an entry of the four page tables: its number among them  *)
(* is one higher, and the entries before it are those before the entry and *)
(* the entry itself.                                                       *)
LEMMA EntryAdvance ==
    ASSUME NEW p, p.f \in 5 .. 8, p.i \in Index, NEW q, q = NextEntry(p)
    PROVE  /\ q \in [f : 2 .. 9, i : Index]
           /\ q.f \in 5 .. 9
           /\ (q.f - 5) * N + q.i = (p.f - 5) * N + p.i + 1
           /\ q.f = 9 => (p.f - 5) * N + p.i + 1 = 4 * N
           /\ q.f # 9 => (p.f - 5) * N + p.i + 1 < 4 * N
           /\ \A g \in {5, 6}, j \in Index :
                 (g < q.f \/ (g = q.f /\ j < q.i)) =>
                    g < p.f \/ (g = p.f /\ j < p.i) \/ (g = p.f /\ j = p.i)
<1> DEFINE f == p.f
           i == p.i
<1>1. N \in Nat /\ N >= 8 /\ f \in Nat /\ f >= 5 /\ f <= 8 /\ i \in Nat /\ i < N
  BY SizeAssumption DEF Index
<1>2. CASE i + 1 < N
  <2>1. q = [f |-> f, i |-> i + 1]
    BY <1>2 DEF NextEntry
  <2>2. i + 1 \in Index
    BY <1>1, <1>2 DEF Index
  <2>3. q.f = f /\ q.i = i + 1 /\ f \in 2 .. 9 /\ q.f \in 5 .. 9 /\ q.f # 9
    BY <1>1, <2>1
  <2>4. q \in [f : 2 .. 9, i : Index]
    BY <2>1, <2>2, <2>3
  <2>5. (f - 5) * N + i + 1 < 4 * N
    <3> HIDE DEF f, i
    <3>1. f = 5 \/ f = 6 \/ f = 7 \/ f = 8
      BY <1>1
    <3> QED BY <3>1, <1>1, <1>2
  <2>6. (q.f - 5) * N + q.i = (f - 5) * N + i + 1
    <3> HIDE DEF f, i
    <3>1. (f - 5) * N \in Int
      BY <1>1
    <3>2. (q.f - 5) * N = (f - 5) * N
      BY <2>3
    <3> QED BY <3>1, <3>2, <2>3, <1>1
  <2>7. ASSUME NEW g \in {5, 6}, NEW j \in Index, g < q.f \/ (g = q.f /\ j < q.i)
        PROVE  g < f \/ (g = f /\ j < i) \/ (g = f /\ j = i)
    <3> HIDE DEF f, i
    <3>1. g < f \/ (g = f /\ j < i + 1)
      BY <2>7, <2>3
    <3>2. j \in Int
      BY DEF Index
    <3>3. j < i + 1 => j < i \/ j = i
      BY <3>2, <1>1
    <3> QED BY <3>1, <3>3
  <2> QED BY <2>3, <2>4, <2>5, <2>6, <2>7
<1>3. CASE ~(i + 1 < N)
  <2>1. q = [f |-> f + 1, i |-> 0] /\ i = N - 1
    BY <1>1, <1>3 DEF NextEntry
  <2>2. 0 \in Index
    BY <1>1 DEF Index
  <2>3. q.f = f + 1 /\ q.i = 0 /\ f + 1 \in 2 .. 9 /\ q.f \in 5 .. 9
    BY <1>1, <2>1
  <2>4. q \in [f : 2 .. 9, i : Index]
    BY <2>1, <2>2, <2>3
  <2>5. /\ (q.f - 5) * N + q.i = (f - 5) * N + i + 1
        /\ q.f = 9 => (f - 5) * N + i + 1 = 4 * N
        /\ q.f # 9 => (f - 5) * N + i + 1 < 4 * N
    <3> HIDE DEF f, i
    <3>1. f = 5 \/ f = 6 \/ f = 7 \/ f = 8
      BY <1>1
    <3>2. CASE f = 5
      BY <3>2, <1>1, <2>1, <2>3
    <3>3. CASE f = 6
      BY <3>3, <1>1, <2>1, <2>3
    <3>4. CASE f = 7
      BY <3>4, <1>1, <2>1, <2>3
    <3>5. CASE f = 8
      BY <3>5, <1>1, <2>1, <2>3
    <3> QED BY <3>1, <3>2, <3>3, <3>4, <3>5
  <2>6. ASSUME NEW g \in {5, 6}, NEW j \in Index, g < q.f \/ (g = q.f /\ j < q.i)
        PROVE  g < f \/ (g = f /\ j < i) \/ (g = f /\ j = i)
    <3> HIDE DEF f, i
    <3>1. j \in Nat /\ j <= i
      BY <1>1, <2>1 DEF Index
    <3>2. g < f + 1
      BY <2>6, <2>3, <3>1
    <3>3. g < f \/ g = f
      BY <3>2, <1>1
    <3>4. j < i \/ j = i
      BY <3>1, <1>1
    <3> QED BY <3>3, <3>4
  <2> QED BY <2>3, <2>4, <2>5, <2>6
<1> QED BY <1>2, <1>3

(* So does one turn of the loop that fills the page tables. *)
LEMMA FillStep ==
    ASSUME IInv, lp_map_2M PROVE IInv'
<1> USE Constants DEF IInv, TypeOK, PT
<1>1. /\ pc = "lp_map_2M"
      /\ esi.f \in 5 .. 8 /\ esi.i \in Nat /\ esi.i < N /\ esi.i \in Index
      /\ ebx = (esi.f - 5) * N + esi.i
      /\ \A f \in {5, 6}, i \in Index :
             (f < esi.f \/ (f = esi.f /\ i < esi.i)) => mem[f][i] = (f - 5) * N + i
  BY DEF lp_map_2M, Filled, Index
<1>2. ebx \in Nat /\ ebx < 4 * N
  BY <1>1
<1>3. ebx \in Entries /\ esi.f \in Frames
  BY <1>1, <1>2, FrameAssumption DEF Entries
<1>4. /\ mem' \in [Frames -> [Index -> Entries]]
      /\ mem'[esi.f][esi.i] = ebx
      /\ \A g \in Frames, j \in Index :
             (g # esi.f \/ j # esi.i) => mem'[g][j] = mem[g][j]
      /\ \A g \in Frames : g # esi.f => mem'[g] = mem[g]
  BY <1>1, <1>3, Written DEF lp_map_2M
<1>5. esi' = NextEntry(esi) /\ ebx' = ebx + 1 /\ ebx' \in 0 .. 4 * N
  BY <1>2 DEF lp_map_2M
<1>6. /\ esi' \in [f : 2 .. 9, i : Index]
      /\ esi'.f \in 5 .. 9
      /\ esi'.f = 9 => ebx + 1 = 4 * N
      /\ esi'.f # 9 => ebx + 1 < 4 * N
      /\ ebx + 1 = (esi'.f - 5) * N + esi'.i
      /\ \A f \in {5, 6}, i \in Index :
            (f < esi'.f \/ (f = esi'.f /\ i < esi'.i)) =>
               \/ f < esi.f
               \/ f = esi.f /\ i < esi.i
               \/ f = esi.f /\ i = esi.i
  <2>1. ebx + 1 = (esi.f - 5) * N + esi.i + 1
    BY <1>1
  <2> QED BY <1>1, <1>5, <2>1, EntryAdvance
<1>7. \A f \in {5, 6}, i \in Index :
          (f < esi'.f \/ (f = esi'.f /\ i < esi'.i)) => mem'[f][i] = (f - 5) * N + i
  <2> SUFFICES ASSUME NEW f \in {5, 6}, NEW i \in Index,
                      f < esi'.f \/ (f = esi'.f /\ i < esi'.i)
               PROVE  mem'[f][i] = (f - 5) * N + i
    OBVIOUS
  <2>1. CASE f = esi.f /\ i = esi.i
    BY <1>1, <1>4, <2>1
  <2>2. CASE ~(f = esi.f /\ i = esi.i)
    BY <1>1, <1>4, <1>6, <2>2
  <2> QED BY <2>1, <2>2
<1>8. TypeOK'
  BY <1>4, <1>5, <1>6 DEF lp_map_2M, PCs
<1>9. Linked' /\ OnlyTablesWritten'
  BY <1>1, <1>4 DEF lp_map_2M, Linked, OnlyTablesWritten, BootTables, PML4, PDPT, PD
<1>10. Filled'
  BY <1>5, <1>6, <1>7 DEF lp_map_2M, Filled
<1> QED BY <1>8, <1>9, <1>10
        DEF lp_map_2M, NoFault, PagingOn, Cleared, Extended, UsedSoFar

(* So does enabling paging. *)
LEMMA EnableStep ==
    ASSUME IInv, EnablePaging PROVE IInv'
<1>1. Identity \subseteq Addresses
  BY Constants DEF Identity, Addresses
<1> QED BY <1>1 DEF EnablePaging, IInv, TypeOK, PCs, NoFault, PagingOn, Cleared, Linked, Filled,
           Extended, UsedSoFar, OnlyTablesWritten

(* A store that does not fault, seen from the four places it can land. *)
LEMMA StoreEffect ==
    ASSUME TypeOK, NEW a \in Addresses, NEW e \in Entries, NEW l,
           NEW f \in Frames, Walk(a) = f, Store(a, e, l)
    PROVE  /\ mem' = [mem EXCEPT ![f][a[5]] = e]
           /\ mem' \in [Frames -> [Index -> Entries]]
           /\ mem'[f][a[5]] = e
           /\ \A g \in Frames, j \in Index : (g # f \/ j # a[5]) => mem'[g][j] = mem[g][j]
           /\ \A g \in Frames : g # f => mem'[g] = mem[g]
           /\ used' = used \cup {a}
           /\ pc' = l
<1>1. f # Absent
  BY Constants
<1>2. a[5] \in Index
  BY DEF Addresses
<1>3. mem' = [mem EXCEPT ![f][a[5]] = e] /\ used' = used \cup {a} /\ pc' = l
  BY <1>1 DEF Store
<1> QED BY <1>2, <1>3, Written DEF TypeOK

(* The accesses of mm_setup and APIC_test, all at once: each lands where    *)
(* Landing says and writes one entry the later ones build on.               *)
LEMMA SetupStep ==
    ASSUME IInv,
           NEW a \in Addresses, NEW e \in Entries, NEW l \in PCs, NEW f \in NewTables \cup {PML4},
           Walk(a) = f, Store(a, e, l), UNCHANGED Registers,
           \/ pc = "self" /\ l = "pxe" /\ f = PML4 /\ e = PML4 /\ a = Linear(PML4, SelfSlot)
           \/ pc = "pxe" /\ l = "ppe" /\ f = PML4 /\ e = Spare /\ a = Pxe
           \/ pc = "ppe" /\ l = "pde" /\ f = Spare /\ e = Spare + 1 /\ a = Ppe
           \/ pc = "pde" /\ l = "pte" /\ f = Spare + 1 /\ e = Spare + 2 /\ a = Pde
           \/ pc = "pte" /\ l = "apic" /\ f = Spare + 2 /\ e = ApicFrame /\ a = Pte
    PROVE  IInv'
<1> USE Constants DEF IInv, PML4, PDPT, PD, PT
<1>1. f \in Frames /\ f \notin {3, 4, 5, 6}
  BY DEF NewTables
<1>2. a[5] = IF pc = "self" THEN SelfSlot ELSE IF pc = "pxe" THEN DevSlot ELSE 0
  BY EntryAddresses, LinearPML4
<1>3. /\ mem' \in [Frames -> [Index -> Entries]]
      /\ mem'[f][a[5]] = e
      /\ \A g \in Frames, j \in Index : (g # f \/ j # a[5]) => mem'[g][j] = mem[g][j]
      /\ \A g \in Frames : g # f => mem'[g] = mem[g]
      /\ used' = used \cup {a}
      /\ pc' = l
  BY <1>1, StoreEffect
<1>4. UNCHANGED <<mem0, esi, ebx, paging>>
  BY DEF Registers
<1>5. TypeOK'
  BY <1>3, <1>4 DEF TypeOK
<1>6. Linked'
  BY <1>1, <1>2, <1>3 DEF Linked
<1>7. Filled'
  BY <1>1, <1>3 DEF Filled
<1>8. Extended'
  BY <1>1, <1>2, <1>3 DEF Extended
<1>9. UsedSoFar'
  BY <1>3, <1>4 DEF UsedSoFar
<1>10. OnlyTablesWritten'
  BY <1>3, <1>4 DEF OnlyTablesWritten, NewTables, BootTables
<1>11. NoFault' /\ PagingOn' /\ Cleared'
  BY <1>3, <1>4 DEF NoFault, PagingOn, Cleared
<1> QED BY <1>5, <1>6, <1>7, <1>8, <1>9, <1>10, <1>11

(* The addresses the code uses are addresses. *)
LEMMA AddressTypes ==
    /\ {Linear(PML4, SelfSlot), Pxe, Ppe, Pde, Pte, Device} \subseteq Addresses
    /\ {PML4, Spare, Spare + 1, Spare + 2, ApicFrame} \subseteq Entries
  BY Constants, EntryAddresses, LinearPML4 DEF Addresses, Device, Entries, PML4

(* All five stores keep it. *)
LEMMA RunningSteps ==
    ASSUME IInv, MapSelf \/ SetPxe \/ SetPpe \/ SetPde \/ SetPte
    PROVE  IInv'
<1> USE Landing, AddressTypes, SetupStep DEF Lands, NewTables, PCs
<1>1. CASE MapSelf
  BY <1>1 DEF MapSelf
<1>2. CASE SetPxe
  BY <1>2 DEF SetPxe
<1>3. CASE SetPpe
  BY <1>3 DEF SetPpe
<1>4. CASE SetPde
  BY <1>4 DEF SetPde
<1>5. CASE SetPte
  BY <1>5 DEF SetPte
<1> QED BY <1>1, <1>2, <1>3, <1>4, <1>5

(* The access to the APIC keeps it. *)
LEMMA ApicStep ==
    ASSUME IInv, AccessApic PROVE IInv'
<1>1. Walk(Device) = ApicFrame /\ ApicFrame # Absent
  BY Landing, Constants DEF AccessApic, Lands
<1>2. pc' = "halt" /\ used' = used \cup {Device} /\ UNCHANGED <<mem, mem0, esi, ebx, paging>>
  BY <1>1 DEF AccessApic, Registers
<1> QED BY <1>2, AddressTypes
        DEF AccessApic, IInv, TypeOK, PCs, NoFault, PagingOn, Cleared, Linked, Filled,
            Extended, UsedSoFar, OnlyTablesWritten

(* Every step keeps the invariant. *)
LEMMA InvNext == IInv /\ [Next]_vars => IInv'
<1> SUFFICES ASSUME IInv, [Next]_vars PROVE IInv'
  OBVIOUS
<1>1. CASE UNCHANGED vars
  BY <1>1 DEF vars, IInv, TypeOK, NoFault, PagingOn, Cleared, Linked, Filled,
              Extended, UsedSoFar, OnlyTablesWritten
<1>2. CASE Next
  BY <1>2, ClearStep, LinkStep, FillStep, EnableStep, RunningSteps, ApicStep DEF Next
<1> QED BY <1>1, <1>2

(* The inductive invariant of the 64-bit paging setup, for tables of any    *)
(* size and memory with any contents.                                       *)
THEOREM Invariant == Spec => []IInv
BY InvInit, InvNext, PTL DEF Spec

-----------------------------------------------------------------------------

(* Every variable keeps its type. *)
THEOREM TypeCorrect == Spec => []TypeOK
<1>1. IInv => TypeOK
  BY DEF IInv
<1> QED BY Invariant, <1>1, PTL

(* The code, its stack and the VGA memory stay where they are from the      *)
(* moment paging is on, through all that mm_setup writes.                   *)
THEOREM IdentityStays == Spec => []IdentityMapped
<1>1. IInv => IdentityMapped
  BY Landing DEF Lands, IInv, IdentityMapped, PagingOn
<1> QED BY Invariant, <1>1, PTL

(* mm_setup and APIC_test run without a page fault. *)
THEOREM NeverFaults == Spec => []NoFault
<1>1. IInv => NoFault
  BY DEF IInv
<1> QED BY Invariant, <1>1, PTL

(* APIC_test reads the local APIC's page. *)
THEOREM ApicReached == Spec => []ApicMapped
<1>1. IInv => ApicMapped
  BY Landing DEF Lands, ApicMapped
<1> QED BY Invariant, <1>1, PTL

(* Page tables are built in their own frames only. *)
THEOREM TablesContained == Spec => []OnlyTablesWritten
<1>1. IInv => OnlyTablesWritten
  BY DEF IInv
<1> QED BY Invariant, <1>1, PTL

(* The missing TLB flush is harmless: each step leaves the translation of   *)
(* every address used so far as it was.                                     *)
THEOREM NoFlushNeeded == Spec => NoStaleTranslation
<1>1. IInv /\ Lands /\ Lands' /\ [Next]_vars => [\A a \in used : Walk(a)' = Walk(a)]_vars
  <2> SUFFICES ASSUME IInv, Lands, Lands', Next, NEW a \in used
               PROVE  Walk(a)' = Walk(a)
    OBVIOUS
  <2>1. CASE ~paging
    BY <2>1 DEF IInv, UsedSoFar, PagingOn
  <2>2. CASE pc = "apic"
    <3>1. mem' = mem
      BY <2>2 DEF Next, AccessApic, clearPML4Es, LinkTables, lp_map_2M, EnablePaging,
         MapSelf, SetPxe, SetPpe, SetPde, SetPte
    <3> QED BY <3>1 DEF Walk, Entry
  <2>3. CASE paging /\ pc # "apic"
    <3>1. \/ pc = "self" /\ pc' \in {"pxe", "fault"}
          \/ pc = "pxe" /\ pc' \in {"ppe", "fault"}
          \/ pc = "ppe" /\ pc' \in {"pde", "fault"}
          \/ pc = "pde" /\ pc' \in {"pte", "fault"}
          \/ pc = "pte" /\ pc' \in {"apic", "fault"}
      BY <2>3 DEF IInv, PagingOn, Next, clearPML4Es, LinkTables, lp_map_2M, EnablePaging,
         MapSelf, SetPxe, SetPpe, SetPde, SetPte, AccessApic, Store
    <3>2. pc' # "fault"
      BY InvNext DEF IInv, NoFault
    <3>3. a \in Identity => Walk(a)' = a[3] * N + a[4]
      BY <3>1, <3>2 DEF Lands
    <3>4. CASE a \in Identity
      BY <3>1, <3>3, <3>4 DEF Lands
    <3>5. CASE a \notin Identity
      BY <3>1, <3>2, <3>5 DEF IInv, UsedSoFar, Lands
    <3> QED BY <3>4, <3>5
  <2> QED BY <2>1, <2>2, <2>3
<1> QED BY Invariant, Landing, <1>1, PTL DEF NoStaleTranslation, Spec

-----------------------------------------------------------------------------
(* What is mapped in memory that was all zero. *)

(* The entries the boot code and mm_setup write, outside the page tables    *)
(* that lp_map_2M fills.                                                    *)
Links ==
    { <<PML4, 0, PDPT>>, <<PDPT, 0, PD>>, <<PD, 0, PT>>, <<PD, 1, PT + 1>>,
      <<PML4, SelfSlot, PML4>>, <<PML4, DevSlot, Spare>>,
      <<Spare, 0, Spare + 1>>, <<Spare + 1, 0, Spare + 2>>, <<Spare + 2, 0, ApicFrame>> }

Intended(f, i, e) == e = Absent \/ f \in PT .. PT + 3 \/ <<f, i, e>> \in Links

OnlyIntended(m) == \A f \in Frames, i \in Index : Intended(f, i, m[f][i])

ZeroedInv == IInv /\ (ZeroedFirst => OnlyIntended(mem))

(* Writing an intended entry adds nothing else. *)
LEMMA IntendedWritten ==
    ASSUME NEW m \in [Frames -> [Index -> Entries]], OnlyIntended(m),
           NEW f \in Frames, NEW i \in Index, NEW e \in Entries, Intended(f, i, e),
           NEW n, n = [m EXCEPT ![f][i] = e]
    PROVE  n \in [Frames -> [Index -> Entries]] /\ OnlyIntended(n)
<1>1. /\ n \in [Frames -> [Index -> Entries]] /\ n[f][i] = e
      /\ \A g \in Frames, j \in Index : (g # f \/ j # i) => n[g][j] = m[g][j]
  BY Written
<1>2. ASSUME NEW g \in Frames, NEW j \in Index PROVE Intended(g, j, n[g][j])
  <2>1. CASE g = f /\ j = i
    BY <1>1, <2>1
  <2>2. CASE ~(g = f /\ j = i)
    BY <1>1, <2>2 DEF OnlyIntended
  <2> QED BY <2>1, <2>2
<1> QED BY <1>1, <1>2 DEF OnlyIntended

(* The head's writes are intended. *)
LEMMA HeadIntended ==
    ASSUME IInv, OnlyIntended(mem), clearPML4Es \/ LinkTables \/ lp_map_2M
    PROVE  OnlyIntended(mem')
<1>1. mem \in [Frames -> [Index -> Entries]]
  BY DEF IInv, TypeOK
<1>2. CASE clearPML4Es
  <2>1. esi.f \in Frames /\ esi.i \in Index /\ Absent \in Entries
    BY <1>2, Constants DEF clearPML4Es, IInv, TypeOK, Cleared, PML4, Entries
  <2>2. mem' = [mem EXCEPT ![esi.f][esi.i] = Absent] /\ Intended(esi.f, esi.i, Absent)
    BY <1>2 DEF clearPML4Es, Intended
  <2> QED BY <1>1, <2>1, <2>2, IntendedWritten
<1>3. CASE LinkTables
  <2>1. /\ {PML4, PDPT, PD} \subseteq Frames /\ {0, 1} \subseteq Index
        /\ {PDPT, PD, PT, PT + 1} \subseteq Entries
    BY Constants DEF PML4, PDPT, PD, PT, Entries
  <2>2. /\ Intended(PML4, 0, PDPT) /\ Intended(PDPT, 0, PD)
        /\ Intended(PD, 0, PT) /\ Intended(PD, 1, PT + 1)
    BY DEF Intended, Links
  <2>3. PICK m1 : m1 = [mem EXCEPT ![PML4][0] = PDPT]
    OBVIOUS
  <2>4. PICK m2 : m2 = [m1 EXCEPT ![PDPT][0] = PD]
    OBVIOUS
  <2>5. PICK m3 : m3 = [m2 EXCEPT ![PD][0] = PT]
    OBVIOUS
  <2>6. PICK m4 : m4 = [m3 EXCEPT ![PD][1] = PT + 1]
    OBVIOUS
  <2>7. m1 \in [Frames -> [Index -> Entries]] /\ OnlyIntended(m1)
    BY <1>1, <2>1, <2>2, <2>3, IntendedWritten
  <2>8. m2 \in [Frames -> [Index -> Entries]] /\ OnlyIntended(m2)
    BY <2>1, <2>2, <2>4, <2>7, IntendedWritten
  <2>9. m3 \in [Frames -> [Index -> Entries]] /\ OnlyIntended(m3)
    BY <2>1, <2>2, <2>5, <2>8, IntendedWritten
  <2>10. OnlyIntended(m4)
    BY <2>1, <2>2, <2>6, <2>9, IntendedWritten
  <2>11. mem' = m4
    BY <1>3, <2>3, <2>4, <2>5, <2>6 DEF LinkTables
  <2> QED BY <2>10, <2>11
<1>4. CASE lp_map_2M
  <2>1. /\ esi.f \in PT .. PT + 3 /\ esi.i \in Index /\ esi.i \in Nat /\ esi.i < N
        /\ ebx = (esi.f - PT) * N + esi.i
    <3>1. pc = "lp_map_2M" /\ Filled /\ esi \in [f : 2 .. 9, i : Index]
      BY <1>4 DEF lp_map_2M, IInv, TypeOK
    <3>2. esi.i \in Index /\ esi.i \in Nat /\ esi.i < N
      BY <3>1, Constants DEF Index
    <3> QED BY <3>1, <3>2 DEF Filled
  <2>2. ebx \in Nat /\ ebx < 4 * N
    BY <2>1, Constants DEF PT
  <2>3. ebx \in Entries /\ esi.f \in Frames
    BY <2>1, <2>2, Constants, FrameAssumption DEF Entries, PT
  <2>4. mem' = [mem EXCEPT ![esi.f][esi.i] = ebx] /\ Intended(esi.f, esi.i, ebx)
    BY <1>4, <2>1 DEF lp_map_2M, Intended
  <2> QED BY <1>1, <2>1, <2>3, <2>4, IntendedWritten
<1> QED BY <1>2, <1>3, <1>4

(* So are the stores of mm_setup, which reach the tables they mean. *)
LEMMA SetupIntended ==
    ASSUME IInv, OnlyIntended(mem), MapSelf \/ SetPxe \/ SetPpe \/ SetPde \/ SetPte
    PROVE  OnlyIntended(mem')
<1>1. mem \in [Frames -> [Index -> Entries]] /\ TypeOK
  BY DEF IInv, TypeOK
<1>2. ASSUME NEW a \in Addresses, NEW e \in Entries, NEW l, NEW f \in Frames,
             Walk(a) = f, Store(a, e, l), Intended(f, a[5], e)
      PROVE  OnlyIntended(mem')
  <2>1. mem' = [mem EXCEPT ![f][a[5]] = e]
    BY <1>1, <1>2, StoreEffect
  <2>2. a[5] \in Index
    BY DEF Addresses
  <2> QED BY <1>1, <1>2, <2>1, <2>2, IntendedWritten
<1>3. /\ PML4 \in Frames /\ Spare \in Frames /\ Spare + 1 \in Frames /\ Spare + 2 \in Frames
  BY Constants DEF PML4
<1>4. Linear(PML4, SelfSlot)[5] = SelfSlot /\ Pxe[5] = DevSlot
      /\ Ppe[5] = 0 /\ Pde[5] = 0 /\ Pte[5] = 0
  BY EntryAddresses, LinearPML4
<1>5. /\ Intended(PML4, SelfSlot, PML4) /\ Intended(PML4, DevSlot, Spare)
      /\ Intended(Spare, 0, Spare + 1) /\ Intended(Spare + 1, 0, Spare + 2)
      /\ Intended(Spare + 2, 0, ApicFrame)
  BY DEF Intended, Links
<1>6. CASE MapSelf
  <2>1. Walk(Linear(PML4, SelfSlot)) = PML4 /\ Store(Linear(PML4, SelfSlot), PML4, "pxe")
    BY <1>6, Landing DEF MapSelf, Lands
  <2> QED BY <1>2, <1>3, <1>4, <1>5, <2>1, AddressTypes
<1>7. CASE SetPxe
  <2>1. Walk(Pxe) = PML4 /\ Store(Pxe, Spare, "ppe")
    BY <1>7, Landing DEF SetPxe, Lands
  <2> QED BY <1>2, <1>3, <1>4, <1>5, <2>1, AddressTypes
<1>8. CASE SetPpe
  <2>1. Walk(Ppe) = Spare /\ Store(Ppe, Spare + 1, "pde")
    BY <1>8, Landing DEF SetPpe, Lands
  <2> QED BY <1>2, <1>3, <1>4, <1>5, <2>1, AddressTypes
<1>9. CASE SetPde
  <2>1. Walk(Pde) = Spare + 1 /\ Store(Pde, Spare + 2, "pte")
    BY <1>9, Landing DEF SetPde, Lands
  <2> QED BY <1>2, <1>3, <1>4, <1>5, <2>1, AddressTypes
<1>10. CASE SetPte
  <2>1. Walk(Pte) = Spare + 2 /\ Store(Pte, ApicFrame, "apic")
    BY <1>10, Landing DEF SetPte, Lands
  <2> QED BY <1>2, <1>3, <1>4, <1>5, <2>1, AddressTypes
<1> QED BY <1>6, <1>7, <1>8, <1>9, <1>10

(* In memory that was all zero the tables never hold an entry the code did  *)
(* not intend.                                                              *)
THEOREM ZeroedInvariant == Spec => []ZeroedInv
<1>1. Init => ZeroedInv
  <2> SUFFICES ASSUME Init, ZeroedFirst PROVE OnlyIntended(mem)
    BY InvInit DEF ZeroedInv
  <2> QED BY DEF Init, ZeroedFirst, OnlyIntended, Intended
<1>2. ZeroedInv /\ [Next]_vars => ZeroedInv'
  <2> SUFFICES ASSUME ZeroedInv, [Next]_vars PROVE ZeroedInv'
    OBVIOUS
  <2>1. IInv' /\ mem0' = mem0
    BY InvNext DEF ZeroedInv, vars, Next, clearPML4Es, LinkTables, lp_map_2M, EnablePaging,
                   MapSelf, SetPxe, SetPpe, SetPde, SetPte, AccessApic, Registers
  <2>2. ASSUME OnlyIntended(mem) PROVE OnlyIntended(mem')
    <3>1. CASE clearPML4Es \/ LinkTables \/ lp_map_2M
      BY <2>2, <3>1, HeadIntended DEF ZeroedInv
    <3>2. CASE MapSelf \/ SetPxe \/ SetPpe \/ SetPde \/ SetPte
      BY <2>2, <3>2, SetupIntended DEF ZeroedInv
    <3>3. CASE EnablePaging \/ AccessApic \/ UNCHANGED vars
      BY <2>2, <3>3 DEF EnablePaging, AccessApic, vars
    <3> QED BY <3>1, <3>2, <3>3 DEF Next
  <2>3. ZeroedFirst' <=> ZeroedFirst
    BY <2>1 DEF ZeroedFirst
  <2>4. OnlyIntended(mem)' <=> OnlyIntended(mem')
    BY DEF OnlyIntended
  <2> QED BY <2>1, <2>2, <2>3, <2>4 DEF ZeroedInv
<1> QED BY <1>1, <1>2, PTL DEF Spec

(* Outside the self-map, the tables map the identity pages and the APIC's   *)
(* page, and nothing else.                                                  *)
THEOREM OnlyIntendedMapped == Spec => []NothingElseMapped
<1>1. ASSUME ZeroedInv, ZeroedFirst,
             NEW a \in Index \X Index \X Index \X Index, a[1] # SelfSlot, Walk(a) # Absent
      PROVE  (a[1] = 0 /\ a[2] = 0 /\ a[3] \in {0, 1}) \/ a = <<DevSlot, 0, 0, 0>>
  <2>1. mem \in [Frames -> [Index -> Entries]] /\ OnlyIntended(mem)
    BY <1>1 DEF ZeroedInv, IInv, TypeOK
  <2>2. a[1] \in Index /\ a[2] \in Index /\ a[3] \in Index /\ a[4] \in Index
    OBVIOUS
  <2>3. ASSUME NEW f \in Frames \cup {Absent}, NEW i \in Index, Entry(f, i) # Absent
        PROVE  f \in Frames /\ Intended(f, i, Entry(f, i)) /\ Entry(f, i) \in Frames
    <3>1. f \in Frames /\ Entry(f, i) = mem[f][i]
      BY <2>3 DEF Entry
    <3> QED BY <2>1, <2>3, <3>1 DEF OnlyIntended, Entries
  <2>4. PICK b : b = Entry(PML4, a[1])
    OBVIOUS
  <2>5. PICK c : c = Entry(b, a[2])
    OBVIOUS
  <2>6. PICK d : d = Entry(c, a[3])
    OBVIOUS
  <2>7. Entry(d, a[4]) # Absent
    BY <1>1, <2>4, <2>5, <2>6 DEF Walk
  <2>8. d # Absent /\ c # Absent /\ b # Absent
    BY <2>5, <2>6, <2>7 DEF Entry
  <2>9. b \in Frames /\ Intended(PML4, a[1], b)
    BY <2>2, <2>3, <2>4, <2>8, Constants DEF PML4
  <2>10. c \in Frames /\ Intended(b, a[2], c)
    BY <2>2, <2>3, <2>5, <2>8, <2>9
  <2>11. d \in Frames /\ Intended(c, a[3], d)
    BY <2>2, <2>3, <2>6, <2>8, <2>10
  <2>12. Intended(d, a[4], Entry(d, a[4])) /\ Entry(d, a[4]) # Absent
    BY <2>2, <2>3, <2>7, <2>11
  <2>13. (a[1] = 0 /\ b = PDPT) \/ (a[1] = DevSlot /\ b = Spare)
    BY <1>1, <2>8, <2>9, Constants DEF Intended, Links, PML4, PDPT, PD, PT
  <2>14. CASE a[1] = 0 /\ b = PDPT
    <3>1. a[2] = 0 /\ c = PD
      BY <2>8, <2>10, <2>14, Constants DEF Intended, Links, PML4, PDPT, PD, PT
    <3>2. a[3] \in {0, 1}
      BY <2>8, <2>11, <3>1, Constants DEF Intended, Links, PML4, PDPT, PD, PT
    <3> QED BY <2>14, <3>1, <3>2
  <2>15. CASE a[1] = DevSlot /\ b = Spare
    <3>1. a[2] = 0 /\ c = Spare + 1
      BY <2>8, <2>10, <2>15, Constants DEF Intended, Links, PML4, PDPT, PD, PT
    <3>2. a[3] = 0 /\ d = Spare + 2
      BY <2>8, <2>11, <3>1, Constants DEF Intended, Links, PML4, PDPT, PD, PT
    <3>3. a[4] = 0
      BY <2>12, <3>2, Constants DEF Intended, Links, PML4, PDPT, PD, PT
    <3> QED BY <2>15, <3>1, <3>2, <3>3
  <2> QED BY <2>13, <2>14, <2>15
<1>2. ZeroedInv => NothingElseMapped
  BY <1>1 DEF NothingElseMapped
<1> QED BY <1>2, ZeroedInvariant, PTL

-----------------------------------------------------------------------------
(* The arithmetic of get_pte_of_va. *)

(* A number written with a quotient and a remainder has no others. *)
LEMMA DivMod ==
    ASSUME NEW n \in Nat, n > 0, NEW q \in Nat, NEW r \in Nat, r < n,
           NEW x, x = q * n + r
    PROVE  x \div n = q /\ x % n = r
<1>1. q * n \in Nat /\ x \in Nat
  OBVIOUS
<1>2. x \div n \in Int /\ x % n \in 0 .. n - 1
  BY <1>1
<1>3. x = n * (x \div n) + (x % n)
  BY <1>1
<1> QED BY <1>1, <1>2, <1>3

(* A digit in front of a number below m. *)
LEMMA Below ==
    ASSUME NEW m \in Nat, NEW x \in Nat, NEW n \in Nat, x < n, NEW r \in Nat, r < m
    PROVE  x * m + r \in Nat /\ x * m + r < n * m
<1>1. PICK y \in Nat : n = x + 1 + y
  <2>1. n - x - 1 \in Nat
    OBVIOUS
  <2> QED BY <2>1
<1>2. n * m = x * m + m + y * m
  BY <1>1
<1>3. x * m \in Nat /\ y * m \in Nat
  OBVIOUS
<1> QED BY <1>2, <1>3

(* The five digits of an entry's number, each found by dividing. *)
LEMMA FiveDigits ==
    ASSUME NEW s \in Index, NEW a \in Index, NEW b \in Index, NEW c \in Index, NEW d \in Index,
           NEW e, e = (((s * N + a) * N + b) * N + c) * N + d
    PROVE  /\ e \div (N * N * N * N) = s /\ (e \div (N * N * N)) % N = a
           /\ (e \div (N * N)) % N = b /\ (e \div N) % N = c /\ e % N = d
<1>1. /\ N \in Nat /\ N > 0
      /\ s \in Nat /\ s < N /\ a \in Nat /\ a < N /\ b \in Nat /\ b < N
      /\ c \in Nat /\ c < N /\ d \in Nat /\ d < N
  BY SizeAssumption DEF Index
<1>2. PICK n2 \in Nat : n2 = N * N
  BY <1>1
<1>3. PICK n3 \in Nat : n3 = N * n2
  BY <1>1
<1>4. PICK n4 \in Nat : n4 = N * n3
  BY <1>1
<1>5. n2 > 0 /\ n3 > 0 /\ n4 > 0
  <2>1. n2 > 0
    BY <1>1, <1>2
  <2>2. n3 > 0
    BY <1>1, <1>3, <2>1
  <2> QED BY <1>1, <1>4, <2>1, <2>2
<1>6. N * N = n2 /\ N * N * N = n3 /\ N * N * N * N = n4
  BY <1>1, <1>2, <1>3, <1>4
<1>7. PICK u1 \in Nat : u1 = s * N + a
  BY <1>1
<1>8. PICK u2 \in Nat : u2 = u1 * N + b
  BY <1>1
<1>9. PICK u3 \in Nat : u3 = u2 * N + c
  BY <1>1
<1>10. e = u3 * N + d
  BY <1>7, <1>8, <1>9
<1>11. PICK r2 \in Nat : r2 = c * N + d /\ r2 < n2
  BY <1>1, <1>2, Below
<1>12. PICK r3 \in Nat : r3 = b * n2 + r2 /\ r3 < n3
  BY <1>1, <1>3, <1>11, Below
<1>13. PICK r4 \in Nat : r4 = a * n3 + r3 /\ r4 < n4
  BY <1>1, <1>4, <1>12, Below
<1>14. e = u2 * n2 + r2
  BY <1>1, <1>2, <1>9, <1>10, <1>11
<1>15. e = u1 * n3 + r3
  BY <1>1, <1>3, <1>8, <1>12, <1>14
<1>16. e = s * n4 + r4
  BY <1>1, <1>4, <1>7, <1>13, <1>15
<1>17. e \div N = u3 /\ e % N = d
  BY <1>1, <1>10, DivMod
<1>18. u3 % N = c
  BY <1>1, <1>9, DivMod
<1>19. e \div n2 = u2
  BY <1>5, <1>11, <1>14, DivMod
<1>20. u2 % N = b
  BY <1>1, <1>8, DivMod
<1>21. e \div n3 = u1
  BY <1>5, <1>12, <1>15, DivMod
<1>22. u1 % N = a
  BY <1>1, <1>7, DivMod
<1>23. e \div n4 = s
  BY <1>1, <1>5, <1>13, <1>16, DivMod
<1> QED BY <1>6, <1>17, <1>18, <1>19, <1>20, <1>21, <1>22, <1>23

(* Of a canonical address, the lower 48 bits are the address it extends. *)
LEMMA CanonicalLow ==
    ASSUME NEW x \in Nat, x < Lower48
    PROVE  \E c \in 0 .. Copies - 1 : Canonical(x) = c * Lower48 + x
<1>1. Copies \in Nat /\ Copies > 0 /\ Lower48 \in Nat
  BY SizeAssumption DEF Lower48, Page
<1>2. CASE Canonical(x) = x
  BY <1>1, <1>2
<1>3. CASE Canonical(x) # x
  <2>1. Canonical(x) = x + (Copies * Lower48 - Lower48)
    BY <1>3 DEF Canonical, Width64
  <2>2. (Copies - 1) * Lower48 = Copies * Lower48 - Lower48
    BY <1>1
  <2>3. Canonical(x) = (Copies - 1) * Lower48 + x
    BY <1>1, <2>1, <2>2
  <2> QED BY <1>1, <2>3
<1> QED BY <1>2, <1>3

(* The number get_pte_of_va computes from the address of a page is the      *)
(* address that the self-map gives to the entry that maps the page.         *)
THEOREM PteNumber ==
    ASSUME NEW a \in Index, NEW b \in Index, NEW c \in Index, NEW d \in Index
    PROVE  Indices(get_pte(Flat(<<a, b, c, d, 0>>))) = <<SelfSlot, a, b, c, d>>
<1>1. /\ N \in Nat /\ N > 0 /\ SelfSlot \in Index /\ SelfSlot \in Nat /\ SelfSlot < N
      /\ a \in Nat /\ a < N /\ b \in Nat /\ b < N /\ c \in Nat /\ c < N /\ d \in Nat /\ d < N
      /\ Copies \in Nat /\ Copies > 0
  BY SizeAssumption DEF Index
<1>2. PICK n3 \in Nat : n3 = N * N * N /\ n3 > 0
  <2>1. N * N > 0 /\ N * N \in Nat
    BY <1>1
  <2>2. N * N * N > 0 /\ N * N * N \in Nat
    BY <1>1, <2>1
  <2> QED BY <2>2
<1>3. PICK n4 \in Nat : n4 = N * n3 /\ n4 > 0
  BY <1>1, <1>2
<1>4. PICK p \in Nat : p = Page /\ p = 8 * N /\ p > 0
  BY <1>1 DEF Page
<1>5. PICK l \in Nat : l = Lower48 /\ l = n4 * p /\ l = N * (8 * n4) /\ l > 0
  <2>1. Lower48 = n4 * p
    BY <1>1, <1>2, <1>3, <1>4 DEF Lower48
  <2>2. n4 * p = N * (8 * n4) /\ n4 * p > 0 /\ n4 * p \in Nat
    BY <1>1, <1>3, <1>4
  <2> QED BY <2>1, <2>2
<1>6. PICK e \in Nat : e = ((a * N + b) * N + c) * N + d /\ e < n4
  <2>1. PICK u2 \in Nat : u2 = a * N + b /\ u2 < N * N
    BY <1>1, Below
  <2>2. PICK u3 \in Nat : u3 = u2 * N + c /\ u3 < N * N * N
    BY <1>1, <2>1, Below
  <2>3. PICK u4 \in Nat : u4 = u3 * N + d /\ u4 < (N * N * N) * N
    BY <1>1, <1>2, <2>2, Below
  <2> QED BY <1>1, <1>2, <1>3, <2>1, <2>2, <2>3
<1>7. (((a * N + b) * N + c) * N + d) * N + 0 = e * N
  BY <1>1, <1>6
<1>8. Flat(<<a, b, c, d, 0>>) = Canonical(e * p)
  <2>1. Flat(<<a, b, c, d, 0>>) = Canonical(((((a * N + b) * N + c) * N + d) * N + 0) * 8)
    BY DEF Flat
  <2>2. (e * N) * 8 = e * p
    BY <1>1, <1>4
  <2> QED BY <1>7, <2>1, <2>2
<1>9. e * p \in Nat /\ e * p < l
  BY <1>4, <1>5, <1>6, Below
<1>10. PICK h \in 0 .. Copies - 1 : Flat(<<a, b, c, d, 0>>) = h * l + e * p
  BY <1>5, <1>8, <1>9, CanonicalLow
<1>11. (Flat(<<a, b, c, d, 0>>) % Lower48) \div Page = e
  <2>1. Flat(<<a, b, c, d, 0>>) % Lower48 = e * p
    <3>1. PICK x : x = Flat(<<a, b, c, d, 0>>)
      OBVIOUS
    <3>2. PICK r \in Nat : r = e * p /\ r < l
      BY <1>9
    <3>3. x = h * l + r /\ h \in Nat
      BY <1>1, <1>10, <3>1, <3>2
    <3>4. x % l = r
      <4>1. l \in Nat /\ l > 0
        BY <1>5
      <4> QED BY <4>1, <3>2, <3>3, DivMod
    <3> QED BY <1>5, <3>1, <3>2, <3>4
  <2>2. (e * p) \div p = e
    <3>1. e * p = e * p + 0 /\ 0 < p
      BY <1>4
    <3> QED BY <1>4, <3>1, DivMod
  <2> QED BY <1>4, <2>1, <2>2
<1>12. PICK g \in 0 .. Copies - 1 : PteBase = g * l + SelfSlot * (8 * n4)
  <2>1. N * N * N * Page = 8 * n4
    BY <1>1, <1>2, <1>3, <1>4
  <2>2. SelfSlot * (8 * n4) \in Nat /\ SelfSlot * (8 * n4) < l
    <3>1. 8 * n4 \in Nat /\ 0 < 8 * n4
      BY <1>3
    <3> QED BY <1>1, <1>5, <3>1, Below
  <2>3. PteBase = Canonical(SelfSlot * (8 * n4))
    BY <2>1 DEF PteBase
  <2> QED BY <1>5, <2>2, <2>3, CanonicalLow
<1>13. PICK y \in Nat : y = SelfSlot * (8 * n4) + e * 8 /\ y < l
  <2>1. 8 * n4 \in Nat /\ e * 8 \in Nat /\ e * 8 < 8 * n4
    BY <1>3, <1>6
  <2> QED BY <1>1, <1>5, <2>1, Below
<1>14. get_pte(Flat(<<a, b, c, d, 0>>)) = g * l + y
  <2>1. e * 8 + PteBase = g * l + y
    <3>1. g * l \in Int /\ SelfSlot * (8 * n4) \in Int
      BY <1>1, <1>3, <1>5
    <3> QED BY <1>12, <1>13, <3>1
  <2>2. g * l + y \in Nat /\ g * l + y < Copies * l
    BY <1>1, <1>5, <1>13, Below
  <2>3. (g * l + y) % (Copies * l) = g * l + y
    <3>1. Copies * l \in Nat /\ Copies * l > 0 /\ g * l + y = 0 * (Copies * l) + (g * l + y)
      BY <1>1, <1>5, <2>2
    <3> QED BY <2>2, <3>1, DivMod
  <2> QED BY <1>5, <1>11, <2>1, <2>3 DEF get_pte, Width64
<1>15. (g * l + y) % Lower48 = y
  <2>1. PICK x : x = g * l + y
    OBVIOUS
  <2>2. g \in Nat
    BY <1>1
  <2>3. x % l = y
    <3>1. l \in Nat /\ l > 0 /\ y \in Nat /\ y < l
      BY <1>5, <1>13
    <3> QED BY <2>1, <2>2, <3>1, DivMod
  <2> QED BY <1>5, <2>1, <2>3
<1>16. PICK z \in Nat : z = SelfSlot * n4 + e /\ y = 8 * z
  <2>1. SelfSlot * n4 \in Nat /\ SelfSlot * (8 * n4) = 8 * (SelfSlot * n4)
    BY <1>1, <1>3
  <2> QED BY <1>6, <1>13, <2>1
<1>17. y \div 8 = z
  <2>1. y = z * 8 + 0 /\ 8 \in Nat /\ 0 \in Nat
    BY <1>16
  <2> QED BY <2>1, DivMod
<1>18. z = (((SelfSlot * N + a) * N + b) * N + c) * N + d
  BY <1>1, <1>2, <1>3, <1>6, <1>16
<1>19. Indices(g * l + y) = << z \div (N * N * N * N), (z \div (N * N * N)) % N,
                               (z \div (N * N)) % N, (z \div N) % N, z % N >>
  BY <1>15, <1>17 DEF Indices
<1>20. << z \div (N * N * N * N), (z \div (N * N * N)) % N, (z \div (N * N)) % N,
         (z \div N) % N, z % N >> = <<SelfSlot, a, b, c, d>>
  <2>1. /\ z \div (N * N * N * N) = SelfSlot /\ (z \div (N * N * N)) % N = a
        /\ (z \div (N * N)) % N = b /\ (z \div N) % N = c /\ z % N = d
    <3>1. SelfSlot \in Index
      BY <1>1
    <3> QED BY <1>18, <3>1, FiveDigits
  <2> QED BY <2>1
<1> QED BY <1>14, <1>19, <1>20

(* For any size of the tables, once the self-map is in place, the number    *)
(* get_pte_of_va computes for a page is, by the tables themselves, the      *)
(* address of the entry that maps it.                                       *)
THEOREM PteFormulaHolds == Spec => []PteFormula
<1>1. ASSUME IInv, paging, pc # "self", NEW v \in Index \X Index \X Index \X Index \X {0}
      PROVE  LET p == Indices(get_pte(Flat(v))) IN Walk(v) = Entry(Walk(p), p[5])
  <2>1. mem[PML4][SelfSlot] = PML4
    BY <1>1 DEF IInv, PagingOn, Extended
  <2>2. PICK a \in Index, b \in Index, c \in Index, d \in Index : v = <<a, b, c, d, 0>>
    OBVIOUS
  <2>3. Indices(get_pte(Flat(v))) = get_pte_of_va(v)
    <3>1. get_pte_of_va(<<a, b, c, d, 0>>) = <<SelfSlot, a, b, c, d>>
      BY DEF get_pte_of_va
    <3> QED BY <2>2, <3>1, PteNumber
  <2>4. Absent # PML4 /\ v \in Addresses
    BY Constants DEF PML4, Addresses
  <2> QED BY <2>1, <2>3, <2>4, SelfMapTheorem
<1>2. IInv => PteFormula
  BY <1>1 DEF PteFormula
<1> QED BY <1>2, Invariant, PTL

=============================================================================
