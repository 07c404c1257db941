----------------------------- MODULE PmapProofs ------------------------------
(***************************************************************************)
(* Every operation of Pmap leaves a well-formed memory, whatever page it   *)
(* is given; and what it does to the pointers between pages: a memory      *)
(* whose directories, page tables and data pages are kept apart and whose  *)
(* counts are exact stays so.  For every number of pages, table size and   *)
(* width of pp_ref.                                                        *)
(***************************************************************************)
EXTENDS Pmap, TLAPS, FiniteSetTheorems

-----------------------------------------------------------------------------
(* Both indexes of a virtual address are indexes of a table page. *)
LEMMA VaIndex ==
  ASSUME NEW va \in VAs
  PROVE  PDX(va) \in Index /\ PTX(va) \in Index
  BY PmapAssumption DEF VAs, UserVAs, UTOP, PDX, PTX, Index, DX, KDX, TX

(* pp_ref is computed modulo its width. *)
LEMMA ModRange ==
  ASSUME NEW a \in Int
  PROVE  a % REFMAX \in 0 .. (REFMAX - 1)
  BY PmapAssumption

(* The empty entry and a zeroed page are well formed. *)
LEMMA EmptyType == NoEntry \in Entry /\ Zeroed \in [Index -> Entry]
  BY PmapAssumption DEF NoEntry, Entry, Zeroed, PermBits

(* mem_init leaves a well-formed memory. *)
LEMMA MemInitType == MemInit \in Memory
  <1>1. KernTable \in [Index -> Entry]
    BY EmptyType, PmapAssumption DEF KernTable, Index, Entry, PermBits
  <1>2. [p \in Pages |-> IF p \in KernelPages THEN 1 ELSE 0] \in [Pages -> 0 .. (REFMAX - 1)]
    BY PmapAssumption
  <1>3. UserPages \in SUBSET Pages
    BY DEF UserPages
  <1>4. [p \in Pages |-> IF p = KernPT THEN KernTable ELSE Zeroed] \in [Pages -> [Index -> Entry]]
    BY <1>1, EmptyType
  <1> QED
    BY <1>2, <1>3, <1>4 DEF MemInit, Memory

-----------------------------------------------------------------------------
(* page_alloc hands out a page of the list and a well-formed memory. *)
LEMMA PageAllocType ==
  ASSUME NEW m \in Memory, NEW a \in PageAlloc(m)
  PROVE  a.pp \in Pages /\ a.mem \in Memory
  <1>1. PICK p \in PickFree(m.page_free_list) :
          a = [pp |-> p,
               mem |-> [m EXCEPT !.page_free_list = @ \ {p}, !.word[p] = Zeroed]]
    BY DEF PageAlloc
  <1>2. p \in Pages
    BY PmapAssumption DEF Memory
  <1>3. [m EXCEPT !.page_free_list = @ \ {p}, !.word[p] = Zeroed] \in Memory
    BY <1>2, EmptyType DEF Memory
  <1> QED
    BY <1>1, <1>2, <1>3

LEMMA PageFreeType ==
  ASSUME NEW m \in Memory, NEW p \in Pages
  PROVE  PageFree(m, p) \in Memory
  BY DEF PageFree, Memory

LEMMA PageIncrefType ==
  ASSUME NEW m \in Memory, NEW p \in Pages
  PROVE  PageIncref(m, p) \in Memory
  <1>1. (m.pp_ref[p] + 1) % REFMAX \in 0 .. (REFMAX - 1)
    BY PmapAssumption, ModRange DEF Memory
  <1> QED
    BY <1>1 DEF PageIncref, Memory

LEMMA PageDecrefType ==
  ASSUME NEW m \in Memory, NEW p \in Pages
  PROVE  PageDecref(m, p) \in Memory
  <1>1. (m.pp_ref[p] - 1) % REFMAX \in 0 .. (REFMAX - 1)
    BY PmapAssumption, ModRange DEF Memory
  <1>2. [m EXCEPT !.pp_ref[p] = (@ - 1) % REFMAX] \in Memory
    BY <1>1 DEF Memory
  <1> QED
    BY <1>2, PageFreeType DEF PageDecref

(* An entry of a page table, and the page it names, are well formed. *)
LEMMA PteType ==
  ASSUME NEW m \in Memory, NEW pgdir \in Pages, NEW va \in VAs
  PROVE  /\ m.word[pgdir][PDX(va)] \in Entry
         /\ Pte(m, pgdir, va) \in Entry
         /\ PageLookup(m, pgdir, va) \in Pages
  <1>1. m.word[pgdir][PDX(va)] \in Entry
    BY VaIndex DEF Memory
  <1>2. Pte(m, pgdir, va) \in Entry
    BY <1>1, VaIndex, EmptyType DEF Pte, Memory, Entry
  <1> QED
    BY <1>1, <1>2, PmapAssumption DEF PageLookup, Entry

(* A store into a page used as a table. *)
LEMMA StoreType ==
  ASSUME NEW m \in Memory, NEW p \in Pages, NEW i \in Index, NEW e \in Entry
  PROVE  [m EXCEPT !.word[p][i] = e] \in Memory
  BY DEF Memory

LEMMA PgdirWalkType ==
  ASSUME NEW m \in Memory, NEW pgdir \in Pages, NEW va \in VAs,
         NEW w \in PgdirWalk(m, pgdir, va)
  PROVE  w \in Memory
  <1>1. CASE Present(m.word[pgdir][PDX(va)])
    BY <1>1 DEF PgdirWalk
  <1>2. CASE ~Present(m.word[pgdir][PDX(va)])
    <2>1. PICK a \in PageAlloc(m) :
            w = [PageIncref(a.mem, a.pp) EXCEPT
                   !.word[pgdir][PDX(va)] = [page |-> a.pp, perm |-> {"P", "W", "U"}]]
      BY <1>2 DEF PgdirWalk
    <2>2. PageIncref(a.mem, a.pp) \in Memory /\ a.pp \in Pages
      BY PageAllocType, PageIncrefType
    <2>3. [page |-> a.pp, perm |-> {"P", "W", "U"}] \in Entry
      BY <2>2 DEF Entry, PermBits
    <2> QED
      BY <2>1, <2>2, <2>3, StoreType, VaIndex
  <1> QED
    BY <1>1, <1>2

LEMMA SetPteType ==
  ASSUME NEW m \in Memory, NEW pgdir \in Pages, NEW va \in VAs, NEW e \in Entry
  PROVE  SetPte(m, pgdir, va, e) \in Memory
  <1>1. m.word[pgdir][PDX(va)].page \in Pages
    BY PteType DEF Entry
  <1> QED
    BY <1>1, VaIndex, StoreType DEF SetPte

LEMMA PageRemoveType ==
  ASSUME NEW m \in Memory, NEW pgdir \in Pages, NEW va \in VAs
  PROVE  PageRemove(m, pgdir, va) \in Memory
  BY PteType, PageDecrefType, SetPteType, EmptyType DEF PageRemove

LEMMA InsertType ==
  ASSUME NEW m \in Memory, NEW pgdir \in Pages, NEW pp \in Pages, NEW va \in VAs,
         NEW perm \in SUBSET PermBits
  PROVE  Insert(m, pgdir, pp, va, perm) \in Memory
  <1> DEFINE removed == PageRemove(PageIncref(m, pp), pgdir, va)
             entry == [page |-> pp, perm |-> perm \cup {"P"}]
             mapped == SetPte(removed, pgdir, va, entry)
             pde == mapped.word[pgdir][PDX(va)]
  <1>1. removed \in Memory
    BY PageIncrefType, PageRemoveType
  <1>2. entry \in Entry
    BY DEF Entry, PermBits
  <1>3. mapped \in Memory
    BY <1>1, <1>2, SetPteType
  <1> HIDE DEF mapped
  <1>4. pde \in Entry
    BY <1>3, PteType
  <1>5. [pde EXCEPT !.perm = @ \cup perm] \in Entry
    BY <1>4 DEF Entry
  <1>6. [mapped EXCEPT !.word[pgdir][PDX(va)].perm = @ \cup perm]
          = [mapped EXCEPT !.word[pgdir][PDX(va)] = [pde EXCEPT !.perm = @ \cup perm]]
    OBVIOUS
  <1>7. [mapped EXCEPT !.word[pgdir][PDX(va)] = [pde EXCEPT !.perm = @ \cup perm]] \in Memory
    BY <1>3, <1>5, VaIndex, StoreType
  <1> QED
    BY <1>6, <1>7 DEF Insert, mapped

LEMMA PageInsertType ==
  ASSUME NEW m \in Memory, NEW pgdir \in Pages, NEW pp \in Pages, NEW va \in VAs,
         NEW perm \in SUBSET PermBits, NEW r \in PageInsert(m, pgdir, pp, va, perm)
  PROVE  r.mem \in Memory
  BY PgdirWalkType, InsertType DEF PageInsert

-----------------------------------------------------------------------------
LEMMA EnvSetupVmType ==
  ASSUME NEW m \in Memory, NEW vm \in EnvSetupVm(m)
  PROVE  vm.pgdir \in Pages /\ vm.mem \in Memory
  <1>1. PICK a \in PageAlloc(m) :
          vm = [pgdir |-> a.pp,
                mem |-> [PageIncref(a.mem, a.pp) EXCEPT
                   !.word[a.pp][KDX] = [page |-> KernPT, perm |-> {"P", "W", "U"}]]]
    BY DEF EnvSetupVm
  <1>2. a.pp \in Pages /\ PageIncref(a.mem, a.pp) \in Memory
    BY PageAllocType, PageIncrefType
  <1>3. [page |-> KernPT, perm |-> {"P", "W", "U"}] \in Entry /\ KDX \in Index
    BY PmapAssumption DEF Entry, PermBits, Index
  <1> QED
    BY <1>1, <1>2, <1>3, StoreType

(* A page is dropped a natural number of times. *)
LEMMA DropsType ==
  ASSUME NEW m, NEW pgdir, NEW p
  PROVE  Drops(m, pgdir, p) \in Nat
  <1> DEFINE A == {va \in UserVAs : LET e == Pte(m, pgdir, va) IN Present(e) /\ e.page = p}
             B == {i \in Tables(m, pgdir) : m.word[pgdir][i].page = p}
  <1>1. IsFiniteSet(DX) /\ IsFiniteSet(TX)
    BY PmapAssumption, FS_Interval DEF DX, TX
  <1>2. IsFiniteSet(UserVAs)
    BY <1>1, FS_Product DEF UserVAs
  <1>3. IsFiniteSet(A) /\ IsFiniteSet(B)
    BY <1>1, <1>2, FS_Subset DEF Tables
  <1>4. Cardinality(A) \in Nat /\ Cardinality(B) \in Nat
    BY <1>3, FS_CardinalityType
  <1> QED
    BY <1>4 DEF Drops

LEMMA EnvFreeVmType ==
  ASSUME NEW m \in Memory, NEW pgdir \in Pages
  PROVE  EnvFreeVm(m, pgdir) \in Memory
  <1>1. ASSUME NEW p \in Pages
        PROVE  (m.pp_ref[p] - Drops(m, pgdir, p)) % REFMAX \in 0 .. (REFMAX - 1)
    BY DropsType, PmapAssumption, ModRange, SMTT(30) DEF Memory
  <1>2. ASSUME NEW p \in Pages
        PROVE  /\ [i \in Index |-> IF i \in DX THEN NoEntry ELSE m.word[p][i]] \in [Index -> Entry]
               /\ [i \in Index |-> IF i \in TX THEN NoEntry ELSE m.word[p][i]] \in [Index -> Entry]
               /\ m.word[p] \in [Index -> Entry]
    BY EmptyType DEF Memory
  <1> QED
    BY <1>1, <1>2 DEF EnvFreeVm, Memory

-----------------------------------------------------------------------------
(* The pointers between pages. *)

\* Entry i of page q points to page p; the entries that do.
Points(m, q, i, p) == Present(m.word[q][i]) /\ m.word[q][i].page = p
Refs(m, p) == {r \in Pages \X Index : Points(m, r[1], r[2], p)}

\* The page tables of the directories D.
Tabs(m, D) == {t \in Pages : \E d \in D, i \in DX : Points(m, d, i, t)}

(***************************************************************************)
(* The invariant of a memory m with directories D, in parts.  X holds the  *)
(* pages that were allocated and are not referred to yet.                  *)
(***************************************************************************)
\* A directory entry points to a page table, and no other entry does.
PdesOK(m, D) ==
  /\ D \subseteq UserPages
  /\ \A d \in D, i \in DX : Present(m.word[d][i]) => m.word[d][i].page \in UserPages \ D
  /\ \A d, f \in D, i, j \in DX :
       Present(m.word[d][i]) /\ Points(m, f, j, m.word[d][i].page) => d = f /\ i = j

\* A page table entry points to a data page.
PtesOK(m, D) ==
  \A t \in Tabs(m, D), x \in TX :
    Present(m.word[t][x]) => m.word[t][x].page \in UserPages \ (D \cup Tabs(m, D))

\* No other word points to a page of the allocator.
NoStrays(m, D) ==
  \A q \in Pages, i \in Index :
    Present(m.word[q][i]) /\ m.word[q][i].page \in UserPages =>
      (q \in D /\ i \in DX) \/ (q \in Tabs(m, D) /\ i \in TX)

KernOK(m, D) ==
  /\ m.word[KernPT] = KernTable
  /\ KernelPages \cap m.page_free_list = {}
  /\ \A d \in D : m.word[d][KDX].page = KernPT

RefCount(m, D, p) == Cardinality(Refs(m, p)) + (IF p \in D THEN 1 ELSE 0)

CountsOK(m, D, X) ==
  \A p \in UserPages :
    /\ m.pp_ref[p] = RefCount(m, D, p)
    /\ p \in m.page_free_list <=> (m.pp_ref[p] = 0 /\ p \notin X)
    /\ p \in X => m.pp_ref[p] = 0

Shape(m, D) == PdesOK(m, D) /\ PtesOK(m, D) /\ NoStrays(m, D)

MemOK(m, D, X) == m \in Memory /\ Shape(m, D) /\ KernOK(m, D) /\ CountsOK(m, D, X)

\* Some page table entry grants writing to p.
Grants(m, D, p) ==
  \E t \in Tabs(m, D), x \in TX : Points(m, t, x, p) /\ "W" \in m.word[t][x].perm

\* Nothing is writable in n that was not in m; E are the directories of n.
NoNewGrants(m, n, D, E) == \A p \in UserPages : Grants(n, E, p) => Grants(m, D, p)

-----------------------------------------------------------------------------
(* Counting. *)

LEMMA RefsFinite ==
  ASSUME NEW m, NEW p
  PROVE  IsFiniteSet(Refs(m, p)) /\ Cardinality(Refs(m, p)) \in Nat
  <1>1. IsFiniteSet(DX) /\ IsFiniteSet(TX)
    BY PmapAssumption, FS_Interval DEF DX, TX
  <1>2. IsFiniteSet(Index)
    BY <1>1, FS_Union, FS_Singleton DEF Index
  <1>3. IsFiniteSet(Pages \X Index)
    BY <1>2, PmapAssumption, FS_Product
  <1>4. Refs(m, p) \in SUBSET (Pages \X Index)
    BY DEF Refs
  <1>5. IsFiniteSet(Refs(m, p))
    BY <1>3, <1>4, FS_Subset
  <1> QED
    BY <1>5, FS_CardinalityType

LEMMA DisjointCount ==
  ASSUME NEW S, NEW T, IsFiniteSet(S), IsFiniteSet(T), S \cap T = {}
  PROVE  IsFiniteSet(S \cup T) /\ Cardinality(S \cup T) = Cardinality(S) + Cardinality(T)
  <1>1. /\ IsFiniteSet(S \cup T)
        /\ Cardinality(S \cup T) = Cardinality(S) + Cardinality(T) - Cardinality(S \cap T)
    BY FS_Union
  <1>2. Cardinality(S \cap T) = 0
    BY FS_EmptySet
  <1>3. Cardinality(S) \in Nat /\ Cardinality(T) \in Nat
    BY FS_CardinalityType
  <1> QED
    BY <1>1, <1>2, <1>3

LEMMA NoRefs ==
  ASSUME NEW m, NEW p
  PROVE  Cardinality(Refs(m, p)) = 0 <=> \A q \in Pages, i \in Index : ~Points(m, q, i, p)
  <1>1. Cardinality(Refs(m, p)) = 0 <=> Refs(m, p) = {}
    BY RefsFinite, FS_EmptySet
  <1>2. ASSUME NEW q \in Pages, NEW i \in Index, Points(m, q, i, p) PROVE <<q, i>> \in Refs(m, p)
    BY <1>2 DEF Refs
  <1>3. \A r \in Refs(m, p) : r[1] \in Pages /\ r[2] \in Index /\ Points(m, r[1], r[2], p)
    BY DEF Refs
  <1> QED
    BY <1>1, <1>2, <1>3

(* The same words point to p in both memories. *)
LEMMA SameRefs ==
  ASSUME NEW m, NEW n, NEW p,
         \A q \in Pages, i \in Index : Points(n, q, i, p) <=> Points(m, q, i, p)
  PROVE  Refs(n, p) = Refs(m, p)
  BY DEF Refs

(* One word changes. *)
LEMMA OneRef ==
  ASSUME NEW m, NEW n, NEW p, NEW t \in Pages, NEW x \in Index,
         \A q \in Pages, i \in Index :
           ~(q = t /\ i = x) => (Points(n, q, i, p) <=> Points(m, q, i, p))
  PROVE  Cardinality(Refs(n, p)) = Cardinality(Refs(m, p))
           - (IF Points(m, t, x, p) THEN 1 ELSE 0) + (IF Points(n, t, x, p) THEN 1 ELSE 0)
  <1> DEFINE r == <<t, x>>
             R == Refs(m, p) \ {r}
  <1>1. IsFiniteSet(R) /\ Cardinality(R) = Cardinality(Refs(m, p)) - (IF Points(m, t, x, p) THEN 1 ELSE 0)
    <2>1. r \in Refs(m, p) <=> Points(m, t, x, p)
      BY DEF Refs
    <2>2. Cardinality(Refs(m, p)) \in Nat
      BY RefsFinite
    <2> QED
      BY <2>1, <2>2, RefsFinite, FS_RemoveElement
  <1>2. Refs(n, p) = IF Points(n, t, x, p) THEN R \cup {r} ELSE R
    <2>1. ASSUME NEW s \in Pages \X Index
          PROVE  s \in Refs(n, p) <=> s \in IF Points(n, t, x, p) THEN R \cup {r} ELSE R
      <3>1. CASE s = r
        BY <3>1 DEF Refs
      <3>2. CASE s # r
        <4>1. ~(s[1] = t /\ s[2] = x) /\ s[1] \in Pages /\ s[2] \in Index
          BY <3>2
        <4> QED
          BY <3>2, <4>1 DEF Refs
      <3> QED
        BY <3>1, <3>2
    <2>2. Refs(n, p) \subseteq Pages \X Index /\ R \cup {r} \subseteq Pages \X Index
      BY DEF Refs
    <2> QED
      BY <2>1, <2>2
  <1>3. r \notin R
    OBVIOUS
  <1> HIDE DEF R, r
  <1>4. CASE Points(n, t, x, p)
    BY <1>1, <1>2, <1>3, <1>4, FS_AddElement, RefsFinite
  <1>5. CASE ~Points(n, t, x, p)
    BY <1>1, <1>2, <1>5, RefsFinite
  <1> QED
    BY <1>4, <1>5

-----------------------------------------------------------------------------
(* page_alloc and page_free. *)

\* A free or uncounted page is nobody's directory, and no word points to it.
LEMMA UnusedPage ==
  ASSUME NEW m, NEW D, NEW X, MemOK(m, D, X), NEW p \in UserPages, m.pp_ref[p] = 0
  PROVE  /\ p \notin D /\ p \notin Tabs(m, D)
         /\ \A q \in Pages, i \in Index : ~Points(m, q, i, p)
  <1>1. Cardinality(Refs(m, p)) = 0 /\ p \notin D
    BY RefsFinite DEF MemOK, CountsOK, RefCount
  <1>2. \A q \in Pages, i \in Index : ~Points(m, q, i, p)
    BY <1>1, NoRefs
  <1>3. \A d \in D : d \in Pages
    BY DEF MemOK, Shape, PdesOK, UserPages
  <1> QED
    BY <1>1, <1>2, <1>3 DEF Tabs, Index

\* What page_alloc leaves: page p, zeroed, taken from the list and used by nobody.
Allocated(m, D, X, p, n) ==
  /\ MemOK(n, D, X \cup {p})
  /\ p \in UserPages \ (X \cup D \cup Tabs(m, D)) /\ p \in m.page_free_list
  /\ n.pp_ref = m.pp_ref /\ n.page_free_list = m.page_free_list \ {p}
  /\ n.word[p] = Zeroed
  /\ \A q \in Pages \ {p} : n.word[q] = m.word[q]
  /\ Tabs(n, D) = Tabs(m, D)

LEMMA PageAllocOK ==
  ASSUME NEW m, NEW D, NEW X, MemOK(m, D, X), NEW a \in PageAlloc(m)
  PROVE  Allocated(m, D, X, a.pp, a.mem)
  <1> DEFINE p == a.pp  n == a.mem
  <1>1. /\ p \in PickFree(m.page_free_list)
        /\ n = [m EXCEPT !.page_free_list = @ \ {p}, !.word[p] = Zeroed]
    <2>1. PICK b \in PickFree(m.page_free_list) :
            a = [pp |-> b,
                 mem |-> [m EXCEPT !.page_free_list = @ \ {b}, !.word[b] = Zeroed]]
      BY DEF PageAlloc
    <2> QED
      BY <2>1
  <1>2. m \in Memory
    BY DEF MemOK
  <1>3. p \in m.page_free_list /\ p \in UserPages
    BY <1>1, <1>2, PmapAssumption DEF Memory, MemOK, KernOK, UserPages, KernelPages
  <1>4. m.pp_ref[p] = 0 /\ p \notin X
    BY <1>3 DEF MemOK, CountsOK
  <1>5. p \notin D /\ p \notin Tabs(m, D) /\ \A q \in Pages, i \in Index : ~Points(m, q, i, p)
    BY <1>3, <1>4, UnusedPage
  <1>6. /\ n.pp_ref = m.pp_ref /\ n.page_free_list = m.page_free_list \ {p}
        /\ n.word[p] = Zeroed /\ \A q \in Pages \ {p} : n.word[q] = m.word[q]
    BY <1>1, <1>2, <1>3 DEF Memory, UserPages
  <1>7. n \in Memory
    BY <1>2, PageAllocType
  <1> HIDE DEF p, n
  <1>8. \A i \in Index : ~Present(n.word[p][i])
    BY <1>6 DEF Zeroed, NoEntry, Present
  <1>9. \A i \in Index : Present(m.word[p][i]) => m.word[p][i].page \notin UserPages
    BY <1>3, <1>5 DEF MemOK, Shape, NoStrays, UserPages
  <1>10. \A d \in D : d \in Pages \ {p}
    BY <1>5 DEF MemOK, Shape, PdesOK, UserPages
  <1>11. Tabs(n, D) = Tabs(m, D)
    BY <1>6, <1>10 DEF Tabs, Points
  <1>12. PdesOK(n, D)
    BY <1>6, <1>10 DEF MemOK, Shape, PdesOK, Points
  <1>13. PtesOK(n, D)
    BY <1>5, <1>6, <1>11 DEF MemOK, Shape, PtesOK, Tabs
  <1>14. NoStrays(n, D)
    BY <1>6, <1>8, <1>11 DEF MemOK, Shape, NoStrays
  <1>15. KernOK(n, D)
    BY <1>3, <1>6, <1>10, PmapAssumption DEF MemOK, KernOK, UserPages, KernelPages
  <1>16. ASSUME NEW u \in UserPages PROVE Refs(n, u) = Refs(m, u)
    <2>1. \A q \in Pages, i \in Index : Points(n, q, i, u) <=> Points(m, q, i, u)
      BY <1>6, <1>8, <1>9 DEF Points
    <2> QED
      BY <2>1, SameRefs
  <1>17. CountsOK(n, D, X \cup {p})
    BY <1>4, <1>6, <1>16 DEF MemOK, CountsOK, RefCount
  <1> QED
    BY <1>3, <1>4, <1>5, <1>6, <1>7, <1>11, <1>12, <1>13, <1>14, <1>15, <1>17
       DEF MemOK, Shape, p, n, Allocated

LEMMA PageFreeOK ==
  ASSUME NEW m, NEW D, NEW X, MemOK(m, D, X), NEW p \in X, p \in UserPages
  PROVE  MemOK(PageFree(m, p), D, X \ {p})
  <1> DEFINE n == PageFree(m, p)
  <1>1. /\ n \in Memory /\ n.word = m.word /\ n.pp_ref = m.pp_ref
        /\ n.page_free_list = m.page_free_list \cup {p}
    BY PageFreeType DEF MemOK, PageFree, Memory, UserPages
  <1> HIDE DEF n
  <1>2. Shape(n, D)
    BY <1>1 DEF MemOK, Shape, PdesOK, PtesOK, NoStrays, Tabs, Points
  <1>3. KernOK(n, D)
    BY <1>1 DEF MemOK, KernOK, UserPages, KernelPages
  <1>4. \A u : Refs(n, u) = Refs(m, u)
    BY <1>1 DEF Refs, Points
  <1>5. CountsOK(n, D, X \ {p})
    BY <1>1, <1>4 DEF MemOK, CountsOK, RefCount
  <1> QED
    BY <1>1, <1>2, <1>3, <1>5 DEF MemOK, n

-----------------------------------------------------------------------------
(* pgdir_walk and env_setup_vm: a new page becomes a table or a directory. *)

LEMMA SmallMod ==
  ASSUME NEW k \in 0 .. (REFMAX - 1)
  PROVE  k % REFMAX = k
  BY PmapAssumption

\* The memory after pgdir_walk made page a.pp the table of entry i of pgdir.
WithTable(a, pgdir, i) ==
  [PageIncref(a.mem, a.pp) EXCEPT
     !.word[pgdir][i] = [page |-> a.pp, perm |-> {"P", "W", "U"}]]

Tabled(m, D, X, p, pgdir, i, n) ==
  /\ MemOK(n, D, X)
  /\ n.word[pgdir][i] = [page |-> p, perm |-> {"P", "W", "U"}]
  /\ n.word[p] = Zeroed
  /\ \A q \in Pages \ {p}, j \in Index :
       ~(q = pgdir /\ j = i) => n.word[q][j] = m.word[q][j]
  /\ Tabs(n, D) = Tabs(m, D) \cup {p}
  /\ n.page_free_list = m.page_free_list \ {p}

LEMMA NewTableOK ==
  ASSUME NEW m, NEW D, NEW X, MemOK(m, D, X), NEW a \in PageAlloc(m),
         NEW pgdir \in D, NEW i \in DX, ~Present(m.word[pgdir][i]),
         NEW n, n = WithTable(a, pgdir, i)
  PROVE  Tabled(m, D, X, a.pp, pgdir, i, n)
  <1> DEFINE p == a.pp  l == a.mem
  <1>1. /\ MemOK(l, D, X \cup {p})
        /\ p \in UserPages \ (X \cup D \cup Tabs(m, D)) /\ p \in m.page_free_list
        /\ l.pp_ref = m.pp_ref /\ l.page_free_list = m.page_free_list \ {p}
        /\ l.word[p] = Zeroed
        /\ \A q \in Pages \ {p} : l.word[q] = m.word[q]
        /\ Tabs(l, D) = Tabs(m, D)
    <2>1. Allocated(m, D, X, p, l)
      BY PageAllocOK
    <2> QED
      BY <2>1 DEF Allocated
  <1>2. p \in Pages /\ pgdir \in Pages \ {p} /\ i \in Index /\ l \in Memory /\ m \in Memory
    BY <1>1 DEF MemOK, Shape, PdesOK, UserPages, Index
  <1>3. [page |-> p, perm |-> {"P", "W", "U"}] \in Entry
    BY <1>2 DEF Entry, PermBits
  <1>4. n \in Memory
    <2>1. PageIncref(l, p) \in Memory
      BY <1>2, PageIncrefType
    <2> QED
      BY <1>2, <1>3, <2>1, StoreType DEF p, l, WithTable
  <1>5. /\ n.page_free_list = l.page_free_list
        /\ n.pp_ref = [l.pp_ref EXCEPT ![p] = (@ + 1) % REFMAX]
        /\ n.word[pgdir][i] = [page |-> p, perm |-> {"P", "W", "U"}]
        /\ \A q \in Pages, j \in Index : ~(q = pgdir /\ j = i) => n.word[q][j] = l.word[q][j]
        /\ \A q \in Pages \ {pgdir} : n.word[q] = l.word[q]
    BY <1>2, <1>3 DEF PageIncref, Memory, WithTable
  <1> HIDE DEF p, l
  <1>6. m.pp_ref[p] = 0 /\ l.pp_ref[p] = 0 /\ ~Present(l.word[pgdir][i])
    BY <1>1, <1>2 DEF MemOK, CountsOK, UserPages
  <1>7. \A d \in D : d \in Pages \ {p}
    BY <1>1 DEF MemOK, Shape, PdesOK, UserPages
  <1>8. \A q \in Pages, j \in Index : ~Points(l, q, j, p)
    BY <1>1, <1>6, UnusedPage
  <1>9. \A j \in DX : j \in Index
    BY DEF Index
  <1>10. \A u : \A q \in Pages, j \in Index : Points(n, q, j, u) <=>
           Points(l, q, j, u) \/ (q = pgdir /\ j = i /\ u = p)
    <2>1. Present(n.word[pgdir][i]) /\ n.word[pgdir][i].page = p
      BY <1>5 DEF Present
    <2> QED
      BY <1>5, <1>6, <2>1 DEF Points
  <1>11. Tabs(n, D) = Tabs(l, D) \cup {p}
    BY <1>2, <1>7, <1>9, <1>10 DEF Tabs
  <1>12. PdesOK(n, D)
    <2>1. \A d \in D, j \in DX : Present(n.word[d][j]) => n.word[d][j].page \in UserPages \ D
      BY <1>1, <1>5, <1>7, <1>9 DEF MemOK, Shape, PdesOK
    <2>2. ASSUME NEW d \in D, NEW f \in D, NEW j \in DX, NEW k \in DX,
                 Present(n.word[d][j]), Points(n, f, k, n.word[d][j].page)
          PROVE  d = f /\ j = k
      <3>1. CASE d = pgdir /\ j = i
        <4>1. Points(n, f, k, p)
          BY <1>5, <2>2, <3>1
        <4> QED
          BY <1>7, <1>8, <1>9, <1>10, <3>1, <4>1
      <3>2. CASE ~(d = pgdir /\ j = i)
        <4>1. Present(l.word[d][j]) /\ n.word[d][j] = l.word[d][j]
          BY <1>5, <1>7, <1>9, <2>2, <3>2
        <4>2. l.word[d][j].page # p
          BY <1>7, <1>8, <1>9, <4>1 DEF Points
        <4>3. Points(l, f, k, l.word[d][j].page)
          BY <1>7, <1>9, <1>10, <2>2, <4>1, <4>2
        <4> QED
          BY <1>1, <4>1, <4>3 DEF MemOK, Shape, PdesOK
      <3> QED
        BY <3>1, <3>2
    <2>3. D \subseteq UserPages
      BY DEF MemOK, Shape, PdesOK
    <2> QED
      BY <2>1, <2>2, <2>3 DEF PdesOK
  <1>13. PtesOK(n, D)
    <2> SUFFICES ASSUME NEW t \in Tabs(n, D), NEW x \in TX, Present(n.word[t][x])
                 PROVE  n.word[t][x].page \in UserPages \ (D \cup Tabs(n, D))
      BY DEF PtesOK
    <2>1. t \in Pages /\ x \in Index /\ t # pgdir
      <3>1. t \in Pages /\ x \in Index
        BY DEF Tabs, Index
      <3>2. PICK d \in D, j \in DX : Points(n, d, j, t)
        BY DEF Tabs
      <3> QED
        BY <1>12, <3>1, <3>2 DEF PdesOK, Points
    <2>2. n.word[t] = l.word[t]
      BY <1>5, <2>1
    <2>3. t # p
      BY <1>1, <2>1, <2>2 DEF Zeroed, NoEntry, Present
    <2>4. l.word[t][x].page \in UserPages \ (D \cup Tabs(l, D))
      BY <1>1, <1>11, <2>2, <2>3 DEF MemOK, Shape, PtesOK
    <2>5. l.word[t][x].page # p
      BY <1>8, <2>1, <2>2 DEF Points
    <2> QED
      BY <1>11, <2>2, <2>4, <2>5
  <1>14. NoStrays(n, D)
    <2> SUFFICES ASSUME NEW q \in Pages, NEW j \in Index,
                        Present(n.word[q][j]), n.word[q][j].page \in UserPages
                 PROVE  (q \in D /\ j \in DX) \/ (q \in Tabs(n, D) /\ j \in TX)
      BY DEF NoStrays
    <2>1. CASE q = pgdir /\ j = i
      BY <2>1
    <2>2. CASE ~(q = pgdir /\ j = i)
      <3>1. NoStrays(l, D) /\ n.word[q][j] = l.word[q][j]
        BY <1>1, <1>5, <2>2 DEF MemOK, Shape
      <3> QED
        BY <1>11, <3>1 DEF NoStrays
    <2> QED
      BY <2>1, <2>2
  <1>15. KernOK(n, D)
    <2>1. KDX \in Index /\ KDX # i /\ KernPT \in Pages /\ KernPT # pgdir
      BY PmapAssumption DEF Index, KDX, DX, MemOK, Shape, PdesOK, UserPages, KernelPages
    <2> QED
      BY <1>1, <1>5, <1>7, <2>1 DEF MemOK, KernOK
  <1>16. CountsOK(n, D, X)
    <2> SUFFICES ASSUME NEW u \in UserPages
                 PROVE  /\ n.pp_ref[u] = RefCount(n, D, u)
                        /\ u \in n.page_free_list <=> (n.pp_ref[u] = 0 /\ u \notin X)
                        /\ u \in X => n.pp_ref[u] = 0
      BY DEF CountsOK
    <2>1. /\ l.pp_ref[u] = RefCount(l, D, u)
          /\ u \in l.page_free_list <=> (l.pp_ref[u] = 0 /\ u \notin X \cup {p})
          /\ u \in X => l.pp_ref[u] = 0
      BY <1>1 DEF MemOK, CountsOK
    <2>2. CASE u # p
      <3>1. Refs(n, u) = Refs(l, u)
        BY <1>10, <2>2, SameRefs
      <3>2. n.pp_ref[u] = l.pp_ref[u]
        BY <1>2, <1>5, <2>2 DEF UserPages, Memory
      <3> QED
        BY <1>5, <2>1, <2>2, <3>1, <3>2 DEF RefCount
    <2>3. CASE u = p
      <3>1. Cardinality(Refs(n, p)) = Cardinality(Refs(l, p)) + 1
        <4>1. ~Points(l, pgdir, i, p) /\ Points(n, pgdir, i, p)
          BY <1>2, <1>8, <1>10
        <4>2. Cardinality(Refs(n, p)) = Cardinality(Refs(l, p))
                - (IF Points(l, pgdir, i, p) THEN 1 ELSE 0) + (IF Points(n, pgdir, i, p) THEN 1 ELSE 0)
          <5>1. \A q \in Pages, j \in Index :
                  ~(q = pgdir /\ j = i) => (Points(n, q, j, p) <=> Points(l, q, j, p))
            BY <1>10
          <5> QED
            BY <1>2, <5>1, OneRef
        <4> QED
          BY <4>1, <4>2, RefsFinite
      <3>2. Cardinality(Refs(l, p)) = 0 /\ p \notin D
        BY <1>1, <1>8, NoRefs
      <3>3. n.pp_ref[p] = 1
        <4>1. 1 % REFMAX = 1
          BY SmallMod, PmapAssumption
        <4> QED
          BY <1>2, <1>5, <1>6, <4>1 DEF Memory
      <3> QED
        BY <1>1, <1>5, <2>3, <3>1, <3>2, <3>3 DEF RefCount
    <2> QED
      BY <2>2, <2>3
  <1>17. MemOK(n, D, X)
    BY <1>4, <1>12, <1>13, <1>14, <1>15, <1>16 DEF MemOK, Shape
  <1>18. n.word[p] = Zeroed /\ \A q \in Pages \ {p}, j \in Index :
              ~(q = pgdir /\ j = i) => n.word[q][j] = m.word[q][j]
    BY <1>1, <1>2, <1>5
  <1> QED
    BY <1>1, <1>5, <1>11, <1>17, <1>18 DEF p, Tabled

\* What pgdir_walk with create leaves, besides a sound memory.
Walked(m, D, X, pgdir, i, w) ==
  /\ MemOK(w, D, X)
  /\ Present(w.word[pgdir][i])
  /\ Tabs(w, D) \subseteq Tabs(m, D) \cup m.page_free_list
  /\ w.page_free_list \subseteq m.page_free_list
  /\ NoNewGrants(m, w, D, D)

LEMMA PgdirWalkOK ==
  ASSUME NEW m, NEW D, NEW X, MemOK(m, D, X), NEW pgdir \in D, NEW va \in UserVAs,
         NEW w \in PgdirWalk(m, pgdir, va)
  PROVE  Walked(m, D, X, pgdir, PDX(va), w)
  <1> DEFINE i == PDX(va)
  <1>1. i \in DX
    BY DEF UserVAs, PDX
  <1>2. CASE Present(m.word[pgdir][i])
    <2>1. w = m
      BY <1>2 DEF PgdirWalk
    <2> QED
      BY <1>2, <2>1 DEF Walked, NoNewGrants
  <1>3. CASE ~Present(m.word[pgdir][i])
    <2>1. PICK a \in PageAlloc(m) : w = WithTable(a, pgdir, i)
      BY <1>3 DEF PgdirWalk, WithTable
    <2>2. Tabled(m, D, X, a.pp, pgdir, i, w)
      BY <1>1, <1>3, <2>1, NewTableOK
    <2>3. Allocated(m, D, X, a.pp, a.mem)
      BY PageAllocOK
    <2> DEFINE p == a.pp
    <2> HIDE DEF p, i
    <2>4. Present(w.word[pgdir][i])
      BY <2>2 DEF Tabled, Present
    <2>5. NoNewGrants(m, w, D, D)
      <3> SUFFICES ASSUME NEW u \in UserPages, NEW t \in Tabs(w, D), NEW x \in TX,
                          Points(w, t, x, u), "W" \in w.word[t][x].perm
                   PROVE  Grants(m, D, u)
        BY DEF NoNewGrants, Grants
      <3>1. t # p
        BY <2>2 DEF Tabled, p, Points, Zeroed, NoEntry, Present, Index
      <3>2. t \in Tabs(m, D) /\ t \in Pages \ {p} /\ x \in Index
        BY <2>2, <3>1 DEF Tabled, p, Tabs, Index
      <3>3. t # pgdir
        BY <3>2 DEF MemOK, Shape, PdesOK, Tabs, Points
      <3>4. w.word[t][x] = m.word[t][x]
        BY <2>2, <3>2, <3>3 DEF Tabled, p
      <3> QED
        BY <3>2, <3>4 DEF Grants, Points
    <2>6. Tabs(w, D) \subseteq Tabs(m, D) \cup m.page_free_list
      BY <2>2, <2>3 DEF Tabled, Allocated
    <2>7. w.page_free_list \subseteq m.page_free_list
      BY <2>2 DEF Tabled
    <2> QED
      BY <2>2, <2>4, <2>5, <2>6, <2>7 DEF Walked, Tabled, i
  <1> QED
    BY <1>2, <1>3

\* What env_setup_vm leaves: d is a new directory, with no mapping of a program.
NewDirectory(m, D, X, d, n) ==
  /\ MemOK(n, D \cup {d}, X)
  /\ d \in UserPages \ D /\ d \in m.page_free_list
  /\ n.page_free_list \subseteq m.page_free_list
  /\ NoNewGrants(m, n, D, D \cup {d})

LEMMA EnvSetupVmOK ==
  ASSUME NEW m, NEW D, NEW X, MemOK(m, D, X), NEW vm \in EnvSetupVm(m)
  PROVE  NewDirectory(m, D, X, vm.pgdir, vm.mem)
  <1>1. PICK a \in PageAlloc(m) :
          vm = [pgdir |-> a.pp,
                mem |-> [PageIncref(a.mem, a.pp) EXCEPT
                   !.word[a.pp][KDX] = [page |-> KernPT, perm |-> {"P", "W", "U"}]]]
    BY DEF EnvSetupVm
  <1> DEFINE p == a.pp  l == a.mem  n == vm.mem  E == D \cup {p}
  <1>2. Allocated(m, D, X, p, l)
    BY PageAllocOK
  <1>3. p \in Pages /\ p \in UserPages \ D /\ l \in Memory /\ m \in Memory /\ KDX \in Index
    BY <1>2 DEF Allocated, MemOK, UserPages, Index
  <1>4. n \in Memory /\ vm.pgdir = p
    BY <1>1, <1>3, EnvSetupVmType
  <1>5. /\ n.page_free_list = l.page_free_list
        /\ n.pp_ref = [l.pp_ref EXCEPT ![p] = (@ + 1) % REFMAX]
        /\ n.word[p][KDX] = [page |-> KernPT, perm |-> {"P", "W", "U"}]
        /\ \A j \in Index : j # KDX => n.word[p][j] = l.word[p][j]
        /\ \A q \in Pages \ {p} : n.word[q] = l.word[q]
    BY <1>1, <1>3 DEF PageIncref, Memory
  <1> HIDE DEF p, l, n
  <1>6. /\ MemOK(l, D, X \cup {p}) /\ l.word[p] = Zeroed /\ p \notin X
        /\ l.page_free_list = m.page_free_list \ {p} /\ l.pp_ref[p] = 0
        /\ p \in m.page_free_list /\ Tabs(l, D) = Tabs(m, D) /\ p \notin Tabs(m, D)
        /\ \A q \in Pages \ {p} : l.word[q] = m.word[q]
    BY <1>2, <1>3 DEF Allocated, MemOK, CountsOK
  <1>7. \A d \in D : d \in Pages \ {p}
    BY <1>3, <1>6 DEF MemOK, Shape, PdesOK, UserPages
  <1>8. \A q \in Pages, j \in Index : ~Points(l, q, j, p)
    BY <1>3, <1>6, UnusedPage
  <1>9. KernPT \notin UserPages /\ KernPT \in Pages \ {p} /\ KDX \notin DX /\ \A j \in DX : j \in Index
    BY <1>3, PmapAssumption DEF UserPages, KernelPages, KDX, DX, Index
  <1>10. \A j \in Index : ~Present(l.word[p][j])
    BY <1>6 DEF Zeroed, NoEntry, Present
  <1>11. \A q \in Pages, j \in Index, u \in UserPages : Points(n, q, j, u) <=> Points(l, q, j, u)
    <2> TAKE q \in Pages, j \in Index, u \in UserPages
    <2>1. CASE q = p
      BY <1>3, <1>5, <1>9, <1>10, <2>1 DEF Points
    <2>2. CASE q # p
      BY <1>5, <2>2 DEF Points
    <2> QED
      BY <2>1, <2>2
  <1>12. \A j \in DX : ~Present(n.word[p][j])
    BY <1>5, <1>9, <1>10
  <1>13. PdesOK(n, E)
    <2>1. E \subseteq UserPages
      BY <1>3, <1>6 DEF MemOK, Shape, PdesOK
    <2>2. ASSUME NEW d \in E, NEW j \in DX, Present(n.word[d][j])
          PROVE  d \in D /\ n.word[d][j] = l.word[d][j] /\ n.word[d][j].page \in UserPages \ E
      <3>1. d \in D /\ d \in Pages \ {p}
        BY <1>7, <1>12, <2>2
      <3>2. n.word[d][j] = l.word[d][j]
        BY <1>5, <3>1
      <3>3. l.word[d][j].page # p
        BY <1>8, <1>9, <2>2, <3>1, <3>2 DEF Points
      <3> QED
        BY <1>6, <2>2, <3>1, <3>2, <3>3 DEF MemOK, Shape, PdesOK
    <2>3. ASSUME NEW d \in E, NEW f \in E, NEW j \in DX, NEW k \in DX,
                 Present(n.word[d][j]), Points(n, f, k, n.word[d][j].page)
          PROVE  d = f /\ j = k
      BY <1>6, <2>2, <2>3 DEF MemOK, Shape, PdesOK, Points
    <2> QED
      BY <2>1, <2>2, <2>3 DEF PdesOK
  <1>14. Tabs(n, E) = Tabs(l, D)
    <2>1. \A t : \A d \in E, j \in DX : Points(n, d, j, t) => d \in D
      BY <1>12 DEF Points
    <2>2. \A t : \A d \in D, j \in DX : Points(n, d, j, t) <=> Points(l, d, j, t)
      BY <1>5, <1>7 DEF Points
    <2> QED
      BY <2>1, <2>2 DEF Tabs
  <1>15. \A t \in Tabs(n, E) : t \in Pages \ {p} /\ n.word[t] = l.word[t] /\ l.word[t] = m.word[t]
    BY <1>5, <1>6, <1>14 DEF Tabs
  <1>16. PtesOK(n, E)
    <2> SUFFICES ASSUME NEW t \in Tabs(n, E), NEW x \in TX, Present(n.word[t][x])
                 PROVE  n.word[t][x].page \in UserPages \ (E \cup Tabs(n, E))
      BY DEF PtesOK
    <2>1. l.word[t][x].page \in UserPages \ (D \cup Tabs(l, D))
      BY <1>6, <1>14, <1>15 DEF MemOK, Shape, PtesOK
    <2>2. l.word[t][x].page # p
      BY <1>8, <1>15 DEF Points, Index
    <2> QED
      BY <1>14, <1>15, <2>1, <2>2
  <1>17. NoStrays(n, E)
    <2> SUFFICES ASSUME NEW q \in Pages, NEW j \in Index,
                        Present(n.word[q][j]), n.word[q][j].page \in UserPages
                 PROVE  (q \in E /\ j \in DX) \/ (q \in Tabs(n, E) /\ j \in TX)
      BY DEF NoStrays
    <2>1. Points(l, q, j, n.word[q][j].page)
      BY <1>11 DEF Points
    <2> QED
      BY <1>6, <1>14, <2>1 DEF MemOK, Shape, NoStrays, Points
  <1>18. KernOK(n, E)
    BY <1>5, <1>6, <1>7, <1>9 DEF MemOK, KernOK
  <1>19. CountsOK(n, E, X)
    <2> SUFFICES ASSUME NEW u \in UserPages
                 PROVE  /\ n.pp_ref[u] = RefCount(n, E, u)
                        /\ u \in n.page_free_list <=> (n.pp_ref[u] = 0 /\ u \notin X)
                        /\ u \in X => n.pp_ref[u] = 0
      BY DEF CountsOK
    <2>1. /\ l.pp_ref[u] = RefCount(l, D, u)
          /\ u \in l.page_free_list <=> (l.pp_ref[u] = 0 /\ u \notin X \cup {p})
          /\ u \in X => l.pp_ref[u] = 0
      BY <1>6 DEF MemOK, CountsOK
    <2>2. Refs(n, u) = Refs(l, u)
      BY <1>11, SameRefs
    <2>3. CASE u # p
      <3>1. n.pp_ref[u] = l.pp_ref[u]
        BY <1>3, <1>5, <2>3 DEF UserPages, Memory
      <3> QED
        BY <1>5, <2>1, <2>2, <2>3, <3>1 DEF RefCount
    <2>4. CASE u = p
      <3>1. Cardinality(Refs(l, p)) = 0
        BY <1>8, NoRefs
      <3>2. n.pp_ref[p] = 1
        <4>1. 1 % REFMAX = 1
          BY SmallMod, PmapAssumption
        <4> QED
          BY <1>3, <1>5, <1>6, <4>1 DEF Memory
      <3>3. RefCount(n, E, p) = 1
        BY <2>2, <2>4, <3>1 DEF RefCount
      <3> QED
        BY <1>5, <1>6, <2>4, <3>2, <3>3
    <2> QED
      BY <2>3, <2>4
  <1>20. NoNewGrants(m, n, D, E)
    BY <1>6, <1>14, <1>15 DEF NoNewGrants, Grants, Points
  <1>21. MemOK(n, E, X)
    BY <1>4, <1>13, <1>16, <1>17, <1>18, <1>19 DEF MemOK, Shape
  <1> QED
    BY <1>3, <1>4, <1>5, <1>6, <1>20, <1>21 DEF NewDirectory, n

-----------------------------------------------------------------------------
(* page_remove and page_insert: one entry of a page table changes. *)

\* n differs from m in what entry x of page t points to, and in permissions.
OneEntry(m, n, t, x) ==
  \A q \in Pages, i \in Index :
    ~(q = t /\ i = x) =>
      /\ Present(n.word[q][i]) <=> Present(m.word[q][i])
      /\ n.word[q][i].page = m.word[q][i].page

LEMMA OneEntryShape ==
  ASSUME NEW m, NEW n, NEW D, Shape(m, D), NEW t \in Tabs(m, D), NEW x \in TX,
         OneEntry(m, n, t, x),
         Present(n.word[t][x]) => n.word[t][x].page \in UserPages \ (D \cup Tabs(m, D))
  PROVE  Shape(n, D) /\ Tabs(n, D) = Tabs(m, D)
  <1>1. t \in Pages /\ t \notin D /\ x \in Index
    BY DEF Tabs, Shape, PdesOK, Points, Index
  <1>2. ASSUME NEW d \in D, NEW i \in DX
        PROVE  /\ Present(n.word[d][i]) <=> Present(m.word[d][i])
               /\ n.word[d][i].page = m.word[d][i].page
    <2>1. d \in Pages /\ i \in Index /\ d # t
      BY <1>1 DEF Shape, PdesOK, UserPages, Index
    <2> QED
      BY <2>1 DEF OneEntry
  <1>3. Tabs(n, D) = Tabs(m, D)
    BY <1>2 DEF Tabs, Points
  <1>4. PdesOK(n, D)
    BY <1>2 DEF Shape, PdesOK, Points
  <1>5. PtesOK(n, D)
    <2> SUFFICES ASSUME NEW s \in Tabs(m, D), NEW y \in TX, Present(n.word[s][y])
                 PROVE  n.word[s][y].page \in UserPages \ (D \cup Tabs(m, D))
      BY <1>3 DEF PtesOK
    <2>1. CASE s = t /\ y = x
      BY <2>1
    <2>2. CASE ~(s = t /\ y = x)
      <3>1. s \in Pages /\ y \in Index
        BY DEF Tabs, Index
      <3>2. Present(m.word[s][y]) /\ n.word[s][y].page = m.word[s][y].page
        BY <2>2, <3>1 DEF OneEntry
      <3> QED
        BY <3>2 DEF Shape, PtesOK
    <2> QED
      BY <2>1, <2>2
  <1>6. NoStrays(n, D)
    <2> SUFFICES ASSUME NEW q \in Pages, NEW j \in Index,
                        Present(n.word[q][j]), n.word[q][j].page \in UserPages
                 PROVE  (q \in D /\ j \in DX) \/ (q \in Tabs(m, D) /\ j \in TX)
      BY <1>3 DEF NoStrays
    <2>1. CASE q = t /\ j = x
      BY <2>1
    <2>2. CASE ~(q = t /\ j = x)
      <3>1. Present(m.word[q][j]) /\ n.word[q][j].page = m.word[q][j].page
        BY <2>2 DEF OneEntry
      <3> QED
        BY <3>1 DEF Shape, NoStrays
    <2> QED
      BY <2>1, <2>2
  <1> QED
    BY <1>3, <1>4, <1>5, <1>6 DEF Shape

LEMMA OneEntryRefs ==
  ASSUME NEW m, NEW n, NEW t \in Pages, NEW x \in Index, OneEntry(m, n, t, x), NEW p
  PROVE  Cardinality(Refs(n, p)) = Cardinality(Refs(m, p))
           - (IF Points(m, t, x, p) THEN 1 ELSE 0) + (IF Points(n, t, x, p) THEN 1 ELSE 0)
  <1>1. \A q \in Pages, i \in Index :
          ~(q = t /\ i = x) => (Points(n, q, i, p) <=> Points(m, q, i, p))
    BY DEF OneEntry, Points
  <1> QED
    BY <1>1, OneRef

(* page_decref, field by field: the count of o is k. *)
Counted(m, o, k, d) ==
  /\ d \in Memory /\ d.word = m.word /\ d.pp_ref = [m.pp_ref EXCEPT ![o] = k]
  /\ d.page_free_list = IF k = 0 THEN m.page_free_list \cup {o} ELSE m.page_free_list

LEMMA DecrefFields ==
  ASSUME NEW m \in Memory, NEW o \in Pages, NEW k, k = (m.pp_ref[o] - 1) % REFMAX,
         NEW d, d = PageDecref(m, o)
  PROVE  Counted(m, o, k, d)
  <1> DEFINE e == [m EXCEPT !.pp_ref[o] = (@ - 1) % REFMAX]
  <1>1. /\ e.word = m.word /\ e.page_free_list = m.page_free_list
        /\ e.pp_ref = [m.pp_ref EXCEPT ![o] = k] /\ e.pp_ref[o] = k
    BY DEF Memory
  <1>2. d = IF e.pp_ref[o] = 0 THEN [e EXCEPT !.page_free_list = @ \cup {o}] ELSE e
    BY DEF PageDecref, PageFree
  <1>3. d \in Memory
    BY PageDecrefType
  <1>4. CASE k = 0
    <2>1. d = [e EXCEPT !.page_free_list = @ \cup {o}]
      BY <1>1, <1>2, <1>4
    <2>2. d.word = e.word /\ d.pp_ref = e.pp_ref /\ d.page_free_list = e.page_free_list \cup {o}
      BY <2>1 DEF Memory
    <2> QED
      BY <1>1, <1>3, <1>4, <2>2 DEF Counted
  <1>5. CASE k # 0
    BY <1>1, <1>2, <1>3, <1>5 DEF Counted
  <1> QED
    BY <1>4, <1>5

(* page_remove, field by field: entry x of table t is cleared and the page *)
(* it named loses a count.                                                 *)
RemovedAt(m, t, x, n) ==
  LET o == m.word[t][x].page
      k == (m.pp_ref[o] - 1) % REFMAX
  IN  IF Present(m.word[t][x]) /\ o # NullPage
      THEN /\ n.word = [m.word EXCEPT ![t][x] = NoEntry]
           /\ n.pp_ref = [m.pp_ref EXCEPT ![o] = k]
           /\ n.page_free_list = IF k = 0 THEN m.page_free_list \cup {o} ELSE m.page_free_list
      ELSE n = m

LEMMA RemoveFields ==
  ASSUME NEW m \in Memory, NEW pgdir \in Pages, NEW va \in UserVAs,
         Present(m.word[pgdir][PDX(va)]),
         NEW t, t = m.word[pgdir][PDX(va)].page, NEW x, x = PTX(va),
         NEW n, n = PageRemove(m, pgdir, va)
  PROVE  /\ t \in Pages /\ x \in TX /\ m.word[t][x] \in Entry
         /\ n \in Memory /\ RemovedAt(m, t, x, n)
  <1>1. va \in VAs /\ x \in TX /\ x \in Index
    BY DEF VAs, UserVAs, PTX, Index
  <1>2. t \in Pages
    BY <1>1, PteType DEF Entry
  <1>3. m.word[t][x] \in Entry
    BY <1>1, <1>2 DEF Memory
  <1>4. Pte(m, pgdir, va) = m.word[t][x]
    BY DEF Pte
  <1>7. n \in Memory
    BY <1>1, PageRemoveType
  <1>5. CASE Present(m.word[t][x]) /\ m.word[t][x].page # NullPage
    <2> DEFINE o == m.word[t][x].page
               k == (m.pp_ref[o] - 1) % REFMAX
               d == PageDecref(m, o)
    <2>1. PageLookup(m, pgdir, va) = o
      BY <1>4, <1>5 DEF PageLookup
    <2>2. o \in Pages
      BY <1>3 DEF Entry
    <2>3. /\ d \in Memory /\ d.word = m.word /\ d.pp_ref = [m.pp_ref EXCEPT ![o] = k]
          /\ d.page_free_list = IF k = 0 THEN m.page_free_list \cup {o} ELSE m.page_free_list
      <3>1. Counted(m, o, k, d)
        BY <2>2, DecrefFields
      <3> QED
        BY <3>1 DEF Counted
    <2> HIDE DEF o, d
    <2>4. n = SetPte(d, pgdir, va, NoEntry)
      BY <1>5, <2>1 DEF PageRemove, o, d
    <2>5. n = [d EXCEPT !.word[t][x] = NoEntry]
      BY <2>3, <2>4 DEF SetPte
    <2>6. /\ n.word = [m.word EXCEPT ![t][x] = NoEntry]
          /\ n.pp_ref = d.pp_ref /\ n.page_free_list = d.page_free_list
      BY <2>3, <2>5 DEF Memory
    <2> QED
      BY <1>1, <1>2, <1>3, <1>5, <1>7, <2>3, <2>6 DEF o, RemovedAt
  <1>6. CASE ~(Present(m.word[t][x]) /\ m.word[t][x].page # NullPage)
    <2>1. n = m
      BY <1>4, <1>6 DEF PageRemove, PageLookup
    <2> QED
      BY <1>1, <1>2, <1>3, <1>6, <1>7, <2>1 DEF RemovedAt
  <1> QED
    BY <1>5, <1>6

\* An index below UTOP leads to a page table of a sound memory.
LEMMA TableOf ==
  ASSUME NEW m, NEW D, NEW X, MemOK(m, D, X), NEW pgdir \in D, NEW va \in UserVAs,
         Present(m.word[pgdir][PDX(va)]), NEW t, t = m.word[pgdir][PDX(va)].page
  PROVE  /\ t \in Tabs(m, D) /\ t \in UserPages /\ t \in Pages /\ t \notin D
         /\ PDX(va) \in DX /\ PDX(va) \in Index /\ PTX(va) \in TX /\ PTX(va) \in Index
         /\ pgdir \in Pages /\ pgdir \in UserPages /\ m \in Memory
         /\ Present(m.word[t][PTX(va)]) =>
              m.word[t][PTX(va)].page \in UserPages \ (D \cup Tabs(m, D))
  <1>1. PDX(va) \in DX /\ PDX(va) \in Index /\ PTX(va) \in TX /\ PTX(va) \in Index
    BY DEF UserVAs, PDX, PTX, Index
  <1>2. t \in UserPages \ D /\ pgdir \in UserPages
    BY <1>1 DEF MemOK, Shape, PdesOK
  <1>3. t \in Tabs(m, D)
    BY <1>1, <1>2 DEF Tabs, Points, UserPages
  <1> QED
    BY <1>1, <1>2, <1>3 DEF UserPages, MemOK, Shape, PtesOK

\* What page_remove leaves.
Removed(m, D, X, n) ==
  MemOK(n, D, X) /\ m.page_free_list \subseteq n.page_free_list /\ NoNewGrants(m, n, D, D)

LEMMA PageRemoveOK ==
  ASSUME NEW m, NEW D, NEW X, MemOK(m, D, X), NEW pgdir \in D, NEW va \in UserVAs
  PROVE  Removed(m, D, X, PageRemove(m, pgdir, va))
  <1> DEFINE n == PageRemove(m, pgdir, va)
             t == m.word[pgdir][PDX(va)].page
             x == PTX(va)
             o == m.word[t][x].page
  <1>1. CASE n = m
    BY <1>1 DEF Removed, NoNewGrants
  <1>2. CASE ~Present(m.word[pgdir][PDX(va)])
    <2>1. n = m
      BY <1>2 DEF PageRemove, PageLookup, Pte, NoEntry, Present
    <2> QED
      BY <1>1, <2>1
  <1>3. CASE n # m /\ Present(m.word[pgdir][PDX(va)])
    <2>1. /\ t \in Tabs(m, D) /\ t \in UserPages /\ t \in Pages /\ t \notin D
          /\ x \in TX /\ x \in Index /\ pgdir \in Pages /\ m \in Memory
          /\ Present(m.word[t][x]) => o \in UserPages \ (D \cup Tabs(m, D))
      BY <1>3, TableOf, SMTT(30)
    <2>2. n \in Memory /\ RemovedAt(m, t, x, n)
      BY <1>3, <2>1, RemoveFields
    <2> HIDE DEF n, t, x
    <2> DEFINE k == (m.pp_ref[o] - 1) % REFMAX
    <2>3. /\ Present(m.word[t][x]) /\ o \in UserPages /\ o \in Pages /\ o \notin Tabs(m, D) /\ o \notin D
          /\ n.word = [m.word EXCEPT ![t][x] = NoEntry]
          /\ n.pp_ref = [m.pp_ref EXCEPT ![o] = k]
          /\ n.page_free_list = IF k = 0 THEN m.page_free_list \cup {o} ELSE m.page_free_list
      BY <1>3, <2>1, <2>2 DEF RemovedAt, UserPages
    <2> HIDE DEF o, k
    <2>4. /\ n.word[t][x] = NoEntry
          /\ \A q \in Pages, i \in Index : ~(q = t /\ i = x) => n.word[q][i] = m.word[q][i]
          /\ \A q \in Pages \ {t} : n.word[q] = m.word[q]
      BY <2>1, <2>3 DEF Memory
    <2>5. OneEntry(m, n, t, x) /\ ~Present(n.word[t][x])
      BY <2>4 DEF OneEntry, NoEntry, Present
    <2>6. Shape(n, D) /\ Tabs(n, D) = Tabs(m, D)
      BY <2>1, <2>5, OneEntryShape DEF MemOK
    <2>7. KernOK(n, D)
      <3>1. KernPT \in Pages \ {t} /\ KDX \in Index
        BY <2>1, PmapAssumption DEF UserPages, KernelPages, Index
      <3>2. \A d \in D : d \in Pages \ {t}
        BY <2>1 DEF MemOK, Shape, PdesOK, UserPages
      <3>3. KernelPages \cap n.page_free_list = {}
        BY <2>3 DEF MemOK, KernOK, UserPages
      <3> QED
        BY <2>4, <3>1, <3>2, <3>3 DEF MemOK, KernOK
    <2>8. CountsOK(n, D, X)
      <3> SUFFICES ASSUME NEW u \in UserPages
                   PROVE  /\ n.pp_ref[u] = RefCount(n, D, u)
                          /\ u \in n.page_free_list <=> (n.pp_ref[u] = 0 /\ u \notin X)
                          /\ u \in X => n.pp_ref[u] = 0
        BY DEF CountsOK
      <3>1. /\ m.pp_ref[u] = RefCount(m, D, u)
            /\ u \in m.page_free_list <=> (m.pp_ref[u] = 0 /\ u \notin X)
            /\ u \in X => m.pp_ref[u] = 0
        BY DEF MemOK, CountsOK
      <3>2. Cardinality(Refs(n, u)) = Cardinality(Refs(m, u)) - (IF Points(m, t, x, u) THEN 1 ELSE 0)
        <4>1. ~Points(n, t, x, u)
          BY <2>5 DEF Points
        <4>2. Cardinality(Refs(n, u)) = Cardinality(Refs(m, u))
                - (IF Points(m, t, x, u) THEN 1 ELSE 0) + (IF Points(n, t, x, u) THEN 1 ELSE 0)
          BY <2>1, <2>5, OneEntryRefs
        <4> QED
          BY <4>1, <4>2, RefsFinite
      <3>3. Points(m, t, x, u) <=> u = o
        BY <2>3 DEF Points, o
      <3>4. m.pp_ref \in [Pages -> 0 .. (REFMAX - 1)] /\ u \in Pages
        BY <2>1 DEF Memory, UserPages
      <3>5. CASE u # o
        <4>1. n.pp_ref[u] = m.pp_ref[u]
          BY <2>3, <3>4, <3>5
        <4> QED
          BY <2>3, <3>1, <3>2, <3>3, <3>5, <4>1, RefsFinite DEF RefCount
      <3>6. CASE u = o
        <4>1. Cardinality(Refs(n, u)) + 1 = Cardinality(Refs(m, u)) /\ u \notin D
          BY <2>3, <3>2, <3>3, <3>6, RefsFinite
        <4>2. m.pp_ref[o] = RefCount(n, D, u) + 1 /\ RefCount(n, D, u) \in Nat
          BY <3>1, <3>6, <4>1, RefsFinite DEF RefCount
        <4>3. k = RefCount(n, D, u)
          <5>1. m.pp_ref[o] \in 0 .. (REFMAX - 1) /\ m.pp_ref[o] - 1 \in 0 .. (REFMAX - 1)
            BY <3>4, <3>6, <4>2, PmapAssumption
          <5> QED
            BY <4>2, <5>1, SmallMod DEF k
        <4>4. n.pp_ref[u] = k
          BY <2>3, <3>4, <3>6
        <4>5. m.pp_ref[u] # 0 /\ u \notin X /\ u \notin m.page_free_list
          BY <3>1, <3>6, <4>2
        <4> QED
          BY <2>3, <3>6, <4>3, <4>4, <4>5
      <3> QED
        BY <3>5, <3>6
    <2>9. NoNewGrants(m, n, D, D)
      <3> SUFFICES ASSUME NEW u \in UserPages, NEW s \in Tabs(n, D), NEW y \in TX,
                          Points(n, s, y, u), "W" \in n.word[s][y].perm
                   PROVE  Grants(m, D, u)
        BY DEF NoNewGrants, Grants
      <3>1. s \in Tabs(m, D) /\ s \in Pages /\ y \in Index /\ ~(s = t /\ y = x)
        BY <2>5, <2>6 DEF Tabs, Index, Points
      <3>2. n.word[s][y] = m.word[s][y]
        BY <2>4, <3>1
      <3> QED
        BY <3>1, <3>2 DEF Grants, Points
    <2>10. m.page_free_list \subseteq n.page_free_list
      BY <2>3
    <2> QED
      BY <2>2, <2>6, <2>7, <2>8, <2>9, <2>10 DEF Removed, MemOK, n
  <1> QED
    BY <1>1, <1>2, <1>3

(* A store into entry i of page p, field by field. *)
Stored(m, p, i, e, n) ==
  /\ n \in Memory /\ n.word[p][i] = e
  /\ n.pp_ref = m.pp_ref /\ n.page_free_list = m.page_free_list
  /\ \A q \in Pages, j \in Index : ~(q = p /\ j = i) => n.word[q][j] = m.word[q][j]
  /\ \A q \in Pages \ {p} : n.word[q] = m.word[q]

LEMMA StoreFields ==
  ASSUME NEW m \in Memory, NEW p \in Pages, NEW i \in Index, NEW e \in Entry,
         NEW n, n = [m EXCEPT !.word[p][i] = e]
  PROVE  Stored(m, p, i, e, n)
  <1>1. n \in Memory
    BY StoreType
  <1>2. n.pp_ref = m.pp_ref /\ n.page_free_list = m.page_free_list
    BY DEF Memory
  <1>3. n.word[p][i] = e /\ \A q \in Pages \ {p} : n.word[q] = m.word[q]
    BY DEF Memory
  <1>4. \A j \in Index : j # i => n.word[p][j] = m.word[p][j]
    BY DEF Memory
  <1> QED
    BY <1>1, <1>2, <1>3, <1>4 DEF Stored

(* page_insert once the table is there, field by field. *)
InsertedAt(w, pgdir, i, t, x, pp, perm, n) ==
  /\ n.word[t][x] = [page |-> pp, perm |-> perm \cup {"P"}]
  /\ n.word[pgdir][i] = [w.word[pgdir][i] EXCEPT !.perm = @ \cup perm]
  /\ \A q \in Pages, j \in Index :
       ~(q = t /\ j = x) /\ ~(q = pgdir /\ j = i) => n.word[q][j] = w.word[q][j]
  /\ \A q \in Pages \ {t, pgdir} : n.word[q] = w.word[q]
  /\ LET l == PageIncref(w, pp)
     IN  \E r \in Memory : RemovedAt(l, t, x, r) /\ n.pp_ref = r.pp_ref
                           /\ n.page_free_list = r.page_free_list

LEMMA InsertFields ==
  ASSUME NEW w \in Memory, NEW pgdir \in Pages, NEW pp \in Pages, NEW va \in UserVAs,
         NEW perm \in SUBSET PermBits, Present(w.word[pgdir][PDX(va)]),
         NEW t, t = w.word[pgdir][PDX(va)].page, t # pgdir, NEW x, x = PTX(va),
         NEW n, n = Insert(w, pgdir, pp, va, perm)
  PROVE  n \in Memory /\ InsertedAt(w, pgdir, PDX(va), t, x, pp, perm, n)
  <1> DEFINE i == PDX(va)
             l == PageIncref(w, pp)
             r == PageRemove(l, pgdir, va)
             e == [page |-> pp, perm |-> perm \cup {"P"}]
             s == SetPte(r, pgdir, va, e)
  <1>1. va \in VAs /\ i \in Index /\ x \in Index
    BY DEF VAs, UserVAs, PDX, PTX, Index
  <1>2. n \in Memory
    BY <1>1, InsertType
  <1>3. l \in Memory /\ l.word = w.word
    BY PageIncrefType DEF PageIncref, Memory
  <1>4. n = [s EXCEPT !.word[pgdir][i].perm = @ \cup perm]
    BY DEF Insert
  <1> HIDE DEF l
  <1>5. t \in Pages /\ r \in Memory /\ RemovedAt(l, t, x, r)
    BY <1>3, RemoveFields
  <1> HIDE DEF r, i
  <1>6. /\ r.word[pgdir] = w.word[pgdir]
        /\ \A q \in Pages, j \in Index : ~(q = t /\ j = x) => r.word[q][j] = w.word[q][j]
        /\ \A q \in Pages \ {t} : r.word[q] = w.word[q]
    <2>1. CASE r = l
      BY <1>3, <2>1
    <2>2. CASE r.word = [l.word EXCEPT ![t][x] = NoEntry]
      <3>1. \A q \in Pages \ {t} : r.word[q] = w.word[q]
        BY <1>3, <2>2 DEF Memory
      <3>2. \A j \in Index : j # x => r.word[t][j] = w.word[t][j]
        BY <1>3, <1>5, <2>2 DEF Memory
      <3> QED
        BY <3>1, <3>2
    <2> QED
      BY <1>5, <2>1, <2>2 DEF RemovedAt
  <1>7. s = [r EXCEPT !.word[t][x] = e]
    BY <1>6 DEF SetPte, i
  <1>8. e \in Entry
    BY DEF Entry, PermBits
  <1> HIDE DEF e, s
  <1>9. /\ s \in Memory /\ s.word[t][x] = e /\ s.pp_ref = r.pp_ref
        /\ s.page_free_list = r.page_free_list
        /\ \A q \in Pages, j \in Index : ~(q = t /\ j = x) => s.word[q][j] = r.word[q][j]
        /\ \A q \in Pages \ {t} : s.word[q] = r.word[q]
    <2>1. Stored(r, t, x, e, s)
      BY <1>1, <1>5, <1>7, <1>8, StoreFields
    <2> QED
      BY <2>1 DEF Stored
  <1>10. s.word[pgdir][i] = w.word[pgdir][i]
    BY <1>1, <1>6, <1>9
  <1>11. n = [s EXCEPT !.word[pgdir][i] = [w.word[pgdir][i] EXCEPT !.perm = @ \cup perm]]
    BY <1>4, <1>10
  <1>12. /\ n.word[pgdir][i] = [w.word[pgdir][i] EXCEPT !.perm = @ \cup perm]
         /\ n.pp_ref = s.pp_ref /\ n.page_free_list = s.page_free_list
         /\ \A q \in Pages, j \in Index : ~(q = pgdir /\ j = i) => n.word[q][j] = s.word[q][j]
         /\ \A q \in Pages \ {pgdir} : n.word[q] = s.word[q]
    BY <1>1, <1>9, <1>11 DEF Memory
  <1>13. n.word[t][x] = e
    BY <1>1, <1>5, <1>9, <1>12
  <1>14. \A q \in Pages, j \in Index :
           ~(q = t /\ j = x) /\ ~(q = pgdir /\ j = i) => n.word[q][j] = w.word[q][j]
    BY <1>6, <1>9, <1>12
  <1>15. \A q \in Pages \ {t, pgdir} : n.word[q] = w.word[q]
    BY <1>6, <1>9, <1>12
  <1> QED
    BY <1>2, <1>5, <1>9, <1>12, <1>13, <1>14, <1>15 DEF InsertedAt, i, e, l

(* The counts after page_insert: pp gains one, the page mapped before      *)
(* loses one, and nothing changes when they are the same, even if the      *)
(* increment wrapped around.                                               *)
InsertedCounts(w, t, x, pp, n) ==
  LET o == w.word[t][x].page
      up == (w.pp_ref[pp] + 1) % REFMAX
      down == (w.pp_ref[o] - 1) % REFMAX
  IN  IF Present(w.word[t][x])
      THEN IF o = pp
           THEN n.pp_ref = w.pp_ref /\ n.page_free_list = w.page_free_list
           ELSE /\ n.pp_ref = [w.pp_ref EXCEPT ![pp] = up, ![o] = down]
                /\ n.page_free_list = IF down = 0 THEN w.page_free_list \cup {o}
                                                  ELSE w.page_free_list
      ELSE n.pp_ref = [w.pp_ref EXCEPT ![pp] = up] /\ n.page_free_list = w.page_free_list

LEMMA ReincrementMod ==
  ASSUME NEW k \in 1 .. (REFMAX - 1)
  PROVE  (((k + 1) % REFMAX) - 1) % REFMAX = k
  <1>1. CASE k + 1 < REFMAX
    <2>1. (k + 1) % REFMAX = k + 1
      BY <1>1, SmallMod, PmapAssumption
    <2> QED
      BY <2>1, SmallMod, PmapAssumption
  <1>2. CASE k + 1 = REFMAX
    <2>1. (k + 1) % REFMAX = 0
      BY <1>2, PmapAssumption
    <2>2. (0 - 1) % REFMAX = REFMAX - 1
      BY PmapAssumption
    <2> QED
      BY <1>2, <2>1, <2>2, PmapAssumption
  <1> QED
    BY <1>1, <1>2, PmapAssumption

LEMMA InsertCounts ==
  ASSUME NEW w \in Memory, NEW pgdir, NEW i, NEW t \in Pages, NEW x \in Index, NEW pp \in Pages,
         NEW perm, NEW n, InsertedAt(w, pgdir, i, t, x, pp, perm, n),
         Present(w.word[t][x]) =>
           w.word[t][x].page # NullPage /\ w.pp_ref[w.word[t][x].page] # 0
  PROVE  InsertedCounts(w, t, x, pp, n)
  <1> DEFINE l == PageIncref(w, pp)
             o == w.word[t][x].page
             up == (w.pp_ref[pp] + 1) % REFMAX
             down == (w.pp_ref[o] - 1) % REFMAX
  <1>1. l.word = w.word /\ l.page_free_list = w.page_free_list /\ l.pp_ref = [w.pp_ref EXCEPT ![pp] = up]
    BY DEF PageIncref, Memory
  <1> HIDE DEF l
  <1>2. PICK r \in Memory : RemovedAt(l, t, x, r) /\ n.pp_ref = r.pp_ref
                            /\ n.page_free_list = r.page_free_list
    BY DEF InsertedAt, l
  <1>3. w.pp_ref \in [Pages -> 0 .. (REFMAX - 1)] /\ o \in Pages
    BY SMTT(30) DEF Memory, Entry
  <1>4. CASE ~Present(w.word[t][x])
    <2>1. r = l
      BY <1>1, <1>2, <1>4 DEF RemovedAt
    <2> QED
      BY <1>1, <1>2, <1>4, <2>1 DEF InsertedCounts
  <1>5. CASE Present(w.word[t][x])
    <2> DEFINE k == (l.pp_ref[o] - 1) % REFMAX
    <2>1. /\ r.pp_ref = [l.pp_ref EXCEPT ![o] = k]
          /\ r.page_free_list = IF k = 0 THEN l.page_free_list \cup {o} ELSE l.page_free_list
      BY <1>1, <1>2, <1>5 DEF RemovedAt
    <2>2. CASE o = pp
      <3>1. k = w.pp_ref[o]
        <4>1. w.pp_ref[o] \in 1 .. (REFMAX - 1)
          BY <1>3, <1>5, PmapAssumption
        <4>2. l.pp_ref[o] = (w.pp_ref[o] + 1) % REFMAX
          BY <1>1, <1>3, <2>2
        <4> QED
          BY <4>1, <4>2, ReincrementMod
      <3>2. k # 0
        BY <1>5, <3>1
      <3> HIDE DEF k
      <3>3. r.pp_ref = w.pp_ref
        BY <1>1, <1>3, <2>1, <2>2, <3>1
      <3> QED
        BY <1>1, <1>2, <1>5, <2>1, <2>2, <3>2, <3>3 DEF InsertedCounts
    <2>3. CASE o # pp
      <3>1. k = down
        BY <1>1, <1>3, <2>3
      <3> HIDE DEF k, down, up
      <3>2. r.pp_ref = [w.pp_ref EXCEPT ![pp] = up, ![o] = down]
        BY <1>1, <1>3, <2>1, <2>3, <3>1
      <3> QED
        BY <1>1, <1>2, <1>5, <2>1, <2>3, <3>1, <3>2 DEF InsertedCounts, up, down
    <2> QED
      BY <2>2, <2>3
  <1> QED
    BY <1>4, <1>5

\* What page_insert of pp leaves when it succeeds.
Inserted(w, D, X, pp, perm, n) ==
  /\ MemOK(n, D, X \ {pp})
  /\ w.page_free_list \subseteq n.page_free_list
  /\ \A u \in UserPages : Grants(n, D, u) => Grants(w, D, u) \/ (u = pp /\ "W" \in perm)

LEMMA InsertOK ==
  ASSUME NEW w, NEW D, NEW X, MemOK(w, D, X), NEW pgdir \in D, NEW va \in UserVAs,
         Present(w.word[pgdir][PDX(va)]),
         NEW pp \in UserPages \ (D \cup Tabs(w, D)), pp \notin w.page_free_list,
         NEW perm \in SUBSET PermBits, NEW n, n = Insert(w, pgdir, pp, va, perm),
         Cardinality(Refs(n, pp)) < REFMAX
  PROVE  Inserted(w, D, X, pp, perm, n)
  <1> DEFINE i == PDX(va)
             t == w.word[pgdir][i].page
             x == PTX(va)
             o == w.word[t][x].page
  <1>1. /\ t \in Tabs(w, D) /\ t \in UserPages /\ t \in Pages /\ t \notin D
        /\ i \in DX /\ i \in Index /\ x \in TX /\ x \in Index
        /\ pgdir \in Pages /\ pgdir \in UserPages /\ w \in Memory
        /\ Present(w.word[t][x]) => o \in UserPages \ (D \cup Tabs(w, D))
    BY TableOf
  <1>2. pp \in Pages /\ t # pgdir
    BY <1>1 DEF UserPages
  <1>3. n \in Memory /\ InsertedAt(w, pgdir, i, t, x, pp, perm, n)
    BY <1>1, <1>2, InsertFields
  <1> HIDE DEF i, t, x
  <1>4. \A u \in UserPages :
          /\ w.pp_ref[u] = RefCount(w, D, u)
          /\ u \in w.page_free_list <=> (w.pp_ref[u] = 0 /\ u \notin X)
          /\ u \in X => w.pp_ref[u] = 0
    BY DEF MemOK, CountsOK
  <1>5. Present(w.word[t][x]) => o # NullPage /\ w.pp_ref[o] # 0
    <2> HAVE Present(w.word[t][x])
    <2>1. Points(w, t, x, o) /\ o \in UserPages
      BY <1>1 DEF Points
    <2>2. Cardinality(Refs(w, o)) # 0
      BY <1>1, <2>1, NoRefs
    <2>3. w.pp_ref[o] # 0
      BY <1>4, <2>1, <2>2, RefsFinite DEF RefCount
    <2> QED
      BY <2>1, <2>3 DEF UserPages, KernelPages
  <1>6. InsertedCounts(w, t, x, pp, n)
    BY <1>1, <1>2, <1>3, <1>5, InsertCounts
  <1>7. /\ n.word[t][x] = [page |-> pp, perm |-> perm \cup {"P"}]
        /\ n.word[pgdir][i] = [w.word[pgdir][i] EXCEPT !.perm = @ \cup perm]
        /\ \A q \in Pages, j \in Index :
             ~(q = t /\ j = x) /\ ~(q = pgdir /\ j = i) => n.word[q][j] = w.word[q][j]
        /\ \A q \in Pages \ {t, pgdir} : n.word[q] = w.word[q]
    BY <1>3 DEF InsertedAt
  <1>8. n.word[pgdir][i].page = w.word[pgdir][i].page /\ Present(n.word[pgdir][i])
    <2>1. w.word[pgdir][i] \in Entry
      BY <1>1 DEF Memory
    <2> QED
      BY <1>7, <2>1 DEF Entry, Present, i
  <1>9. OneEntry(w, n, t, x)
    <2> SUFFICES ASSUME NEW q \in Pages, NEW j \in Index, ~(q = t /\ j = x)
                 PROVE  /\ Present(n.word[q][j]) <=> Present(w.word[q][j])
                        /\ n.word[q][j].page = w.word[q][j].page
      BY DEF OneEntry
    <2>1. CASE q = pgdir /\ j = i
      BY <1>8, <2>1 DEF i
    <2>2. CASE ~(q = pgdir /\ j = i)
      BY <1>7, <2>2
    <2> QED
      BY <2>1, <2>2
  <1>10. Present(n.word[t][x]) /\ n.word[t][x].page = pp
    BY <1>7 DEF Present
  <1>11. Shape(n, D) /\ Tabs(n, D) = Tabs(w, D)
    BY <1>1, <1>9, <1>10, OneEntryShape DEF MemOK
  <1>12. o \in UserPages \/ ~Present(w.word[t][x])
    BY <1>1
  <1>13. /\ w.page_free_list \subseteq n.page_free_list
         /\ n.page_free_list \subseteq w.page_free_list \cup UserPages
    BY <1>6, <1>12 DEF InsertedCounts
  <1>14. KernOK(n, D)
    <2>1. KernPT \in Pages \ {t, pgdir} /\ KDX \in Index /\ KDX # i
      BY <1>1, PmapAssumption DEF UserPages, KernelPages, Index, KDX, DX
    <2>2. \A d \in D : d \in Pages \ {t}
      BY <1>1 DEF MemOK, Shape, PdesOK, UserPages
    <2>3. KernelPages \cap n.page_free_list = {}
      BY <1>13 DEF MemOK, KernOK, UserPages
    <2>4. \A d \in D : n.word[d][KDX] = w.word[d][KDX]
      BY <1>7, <2>1, <2>2
    <2> QED
      BY <1>7, <2>1, <2>3, <2>4 DEF MemOK, KernOK
  <1>15. CountsOK(n, D, X \ {pp})
    <2> SUFFICES ASSUME NEW u \in UserPages
                 PROVE  /\ n.pp_ref[u] = RefCount(n, D, u)
                        /\ u \in n.page_free_list <=> (n.pp_ref[u] = 0 /\ u \notin X \ {pp})
                        /\ u \in X \ {pp} => n.pp_ref[u] = 0
      BY DEF CountsOK
    <2> DEFINE up == (w.pp_ref[pp] + 1) % REFMAX
               down == (w.pp_ref[o] - 1) % REFMAX
               was == IF Points(w, t, x, u) THEN 1 ELSE 0
               is == IF u = pp THEN 1 ELSE 0
    <2>1. w.pp_ref[u] = RefCount(w, D, u) /\ (u \in w.page_free_list <=> (w.pp_ref[u] = 0 /\ u \notin X))
          /\ (u \in X => w.pp_ref[u] = 0)
      BY <1>4
    <2>2. Cardinality(Refs(n, u)) = Cardinality(Refs(w, u)) - was + is
      <3>1. Points(n, t, x, u) <=> u = pp
        BY <1>10 DEF Points
      <3>2. Cardinality(Refs(n, u)) = Cardinality(Refs(w, u))
              - (IF Points(w, t, x, u) THEN 1 ELSE 0) + (IF Points(n, t, x, u) THEN 1 ELSE 0)
        BY <1>1, <1>9, OneEntryRefs
      <3> QED
        BY <3>1, <3>2
    <2>3. RefCount(n, D, u) = w.pp_ref[u] - was + is
      BY <2>1, <2>2, RefsFinite DEF RefCount
    <2>4. w.pp_ref \in [Pages -> 0 .. (REFMAX - 1)] /\ u \in Pages
      BY <1>1 DEF Memory, UserPages
    <2>5. RefCount(n, D, pp) < REFMAX /\ RefCount(n, D, u) \in Nat
      BY RefsFinite DEF RefCount
    <2>6. Points(w, t, x, u) <=> Present(w.word[t][x]) /\ o = u
      BY DEF Points
    <2>7. u = pp => n.pp_ref[u] = RefCount(n, D, u) /\ n.pp_ref[u] # 0
                    /\ u \notin n.page_free_list
      <3> HAVE u = pp
      <3>1. CASE Present(w.word[t][x]) /\ o = pp
        <4>1. RefCount(n, D, u) = w.pp_ref[u]
          BY <2>3, <2>4, <2>6, <3>1
        <4>2. n.pp_ref = w.pp_ref /\ n.page_free_list = w.page_free_list
          BY <1>6, <3>1 DEF InsertedCounts
        <4> QED
          BY <1>5, <3>1, <4>1, <4>2
      <3>2. CASE ~(Present(w.word[t][x]) /\ o = pp)
        <4>1. RefCount(n, D, u) = w.pp_ref[u] + 1
          BY <2>3, <2>4, <2>6, <3>2
        <4>2. up = w.pp_ref[u] + 1
          BY <2>4, <2>5, <4>1, SmallMod, PmapAssumption
        <4> HIDE DEF up, down
        <4>3. n.pp_ref[pp] = up /\ pp \notin n.page_free_list
          BY <1>2, <1>6, <2>4, <3>2, ZenonT(30) DEF InsertedCounts, up, down
        <4> QED
          BY <2>4, <4>1, <4>2, <4>3
      <3> QED
        BY <3>1, <3>2
    <2>8. u # pp /\ Points(w, t, x, u) =>
            /\ n.pp_ref[u] = RefCount(n, D, u) /\ u \notin X
            /\ u \in n.page_free_list <=> n.pp_ref[u] = 0
      <3> HAVE u # pp /\ Points(w, t, x, u)
      <3>1. RefCount(n, D, u) = w.pp_ref[u] - 1 /\ Present(w.word[t][x]) /\ o = u
        BY <2>3, <2>4, <2>6
      <3>2. w.pp_ref[u] # 0
        BY <1>5, <3>1
      <3>3. down = w.pp_ref[u] - 1
        <4>1. w.pp_ref[u] - 1 \in 0 .. (REFMAX - 1)
          BY <2>4, <3>2, PmapAssumption
        <4> QED
          BY <3>1, <4>1, SmallMod
      <3> HIDE DEF up, down
      <3>4. n.pp_ref[u] = down /\ (u \in n.page_free_list <=> down = 0)
        BY <1>2, <1>6, <2>1, <2>4, <3>1, <3>2 DEF InsertedCounts, up, down
      <3> QED
        BY <2>1, <3>1, <3>2, <3>3, <3>4
    <2>9. u # pp /\ ~Points(w, t, x, u) =>
            /\ n.pp_ref[u] = RefCount(n, D, u) /\ n.pp_ref[u] = w.pp_ref[u]
            /\ u \in n.page_free_list <=> u \in w.page_free_list
      <3> HAVE u # pp /\ ~Points(w, t, x, u)
      <3>1. RefCount(n, D, u) = w.pp_ref[u]
        BY <2>3, <2>4
      <3>2. o # u \/ ~Present(w.word[t][x])
        BY <2>6
      <3> HIDE DEF up, down
      <3>3. n.pp_ref[u] = w.pp_ref[u] /\ (u \in n.page_free_list <=> u \in w.page_free_list)
        BY <1>2, <1>6, <2>4, <3>2, ZenonT(30) DEF InsertedCounts, up, down
      <3> QED
        BY <3>1, <3>3
    <2> QED
      BY <2>1, <2>7, <2>8, <2>9
  <1>16. ASSUME NEW u \in UserPages, Grants(n, D, u)
         PROVE  Grants(w, D, u) \/ (u = pp /\ "W" \in perm)
    <2>1. PICK s \in Tabs(n, D), y \in TX : Points(n, s, y, u) /\ "W" \in n.word[s][y].perm
      BY <1>16 DEF Grants
    <2>2. s \in Tabs(w, D) /\ s \in Pages /\ y \in Index /\ s # pgdir
      BY <1>11 DEF Tabs, Index, MemOK, Shape, PdesOK, Points
    <2>3. CASE s = t /\ y = x
      BY <1>7, <2>1, <2>3 DEF Points
    <2>4. CASE ~(s = t /\ y = x)
      <3>1. n.word[s][y] = w.word[s][y]
        BY <1>7, <2>2, <2>4
      <3> QED
        BY <2>1, <2>2, <3>1 DEF Grants, Points
    <2> QED
      BY <2>3, <2>4
  <1> QED
    BY <1>3, <1>11, <1>13, <1>14, <1>15, <1>16 DEF Inserted, MemOK

\* What page_insert leaves, whether or not there was a page for the table.
InsertResult(m, D, X, pp, perm, r) ==
  \/ r.ret = "E_NO_MEM" /\ r.mem = m
  \/ /\ r.ret = "OK" /\ MemOK(r.mem, D, X \ {pp})
     /\ \A u \in UserPages : Grants(r.mem, D, u) => Grants(m, D, u) \/ (u = pp /\ "W" \in perm)

LEMMA PageInsertOK ==
  ASSUME NEW m, NEW D, NEW X, MemOK(m, D, X), NEW pgdir \in D, NEW va \in UserVAs,
         NEW pp \in UserPages \ (D \cup Tabs(m, D)), pp \notin m.page_free_list,
         NEW perm \in SUBSET PermBits, NEW r \in PageInsert(m, pgdir, pp, va, perm),
         r.ret = "OK" => Cardinality(Refs(r.mem, pp)) < REFMAX
  PROVE  InsertResult(m, D, X, pp, perm, r)
  <1>1. CASE PgdirWalk(m, pgdir, va) = {}
    BY <1>1 DEF PageInsert, InsertResult
  <1>2. CASE PgdirWalk(m, pgdir, va) # {}
    <2>1. PICK w \in PgdirWalk(m, pgdir, va) :
            r = [ret |-> "OK", mem |-> Insert(w, pgdir, pp, va, perm)]
      BY <1>2 DEF PageInsert
    <2>2. Walked(m, D, X, pgdir, PDX(va), w)
      BY PgdirWalkOK
    <2>3. /\ MemOK(w, D, X) /\ Present(w.word[pgdir][PDX(va)])
          /\ Tabs(w, D) \subseteq Tabs(m, D) \cup m.page_free_list
          /\ w.page_free_list \subseteq m.page_free_list
          /\ NoNewGrants(m, w, D, D)
      BY <2>2 DEF Walked
    <2>4. pp \in UserPages \ (D \cup Tabs(w, D)) /\ pp \notin w.page_free_list
      BY <2>3
    <2>5. r.ret = "OK" /\ r.mem = Insert(w, pgdir, pp, va, perm)
      BY <2>1
    <2>6. Inserted(w, D, X, pp, perm, r.mem)
      BY <2>3, <2>4, <2>5, InsertOK
    <2>7. ASSUME NEW u \in UserPages, Grants(r.mem, D, u)
          PROVE  Grants(m, D, u) \/ (u = pp /\ "W" \in perm)
      BY <2>3, <2>6, <2>7 DEF Inserted, NoNewGrants
    <2> QED
      BY <2>5, <2>6, <2>7 DEF InsertResult, Inserted
  <1> QED
    BY <1>1, <1>2

-----------------------------------------------------------------------------
(* env_free: the references that the loops drop are the ones that vanish. *)

\* The page table entries and directory entries of d that point to p.
TableRefs(m, d, p) ==
  {r \in Pages \X TX : (\E i \in DX : Points(m, d, i, r[1])) /\ Points(m, r[1], r[2], p)}
DirRefs(m, d, p) == {r \in {d} \X DX : Points(m, d, r[2], p)}

LEMMA DropsCount ==
  ASSUME NEW m, NEW D, m \in Memory, Shape(m, D), NEW d \in D, NEW p
  PROVE  Drops(m, d, p) = Cardinality(TableRefs(m, d, p)) + Cardinality(DirRefs(m, d, p))
                            + (IF p = d THEN 1 ELSE 0)
  <1> DEFINE A == {va \in UserVAs : LET e == Pte(m, d, va) IN Present(e) /\ e.page = p}
             B == {i \in Tables(m, d) : m.word[d][i].page = p}
             tab(i) == m.word[d][i].page
  <1>1. IsFiniteSet(DX) /\ IsFiniteSet(TX)
    BY PmapAssumption, FS_Interval DEF DX, TX
  <1>2. IsFiniteSet(A) /\ IsFiniteSet(B)
    <2>1. IsFiniteSet(UserVAs)
      BY <1>1, FS_Product DEF UserVAs
    <2>2. A \in SUBSET UserVAs /\ B \in SUBSET DX
      BY DEF Tables
    <2> HIDE DEF A, B
    <2> QED
      BY <1>1, <2>1, <2>2, FS_Subset
  <1>3. d \in Pages /\ \A i \in DX : i \in Index /\ tab(i) \in Pages
    BY DEF Shape, PdesOK, UserPages, Index, Memory, Entry
  <1>4. \A i, j \in DX : Present(m.word[d][i]) /\ Present(m.word[d][j]) /\ tab(i) = tab(j) => i = j
    BY DEF Shape, PdesOK, Points
  <1>5. \A va : va \in A <=> /\ va \in DX \X TX /\ Present(m.word[d][va[1]])
                             /\ Points(m, tab(va[1]), va[2], p)
    <2>1. \A va \in UserVAs : (Present(Pte(m, d, va)) /\ Pte(m, d, va).page = p) <=>
            Present(m.word[d][va[1]]) /\ Points(m, tab(va[1]), va[2], p)
      BY DEF Pte, PDX, PTX, NoEntry, Present, Points
    <2> QED
      BY <2>1 DEF UserVAs
  <1>6. Cardinality(A) = Cardinality(TableRefs(m, d, p))
    <2> DEFINE T == TableRefs(m, d, p)
               f == [va \in A |-> <<tab(va[1]), va[2]>>]
    <2> HIDE DEF A
    <2>1. ASSUME NEW va \in A PROVE f[va] \in T
      <3>1. va \in DX \X TX /\ Present(m.word[d][va[1]]) /\ Points(m, tab(va[1]), va[2], p)
        BY <1>5
      <3>2. va[1] \in DX /\ va[2] \in TX /\ Points(m, d, va[1], tab(va[1]))
        BY <3>1 DEF Points
      <3> QED
        BY <1>3, <3>1, <3>2 DEF TableRefs
    <2>2. ASSUME NEW va \in A, NEW vb \in A, f[va] = f[vb] PROVE va = vb
      <3>1. /\ va \in DX \X TX /\ Present(m.word[d][va[1]])
            /\ vb \in DX \X TX /\ Present(m.word[d][vb[1]])
        BY <1>5
      <3>2. tab(va[1]) = tab(vb[1]) /\ va[2] = vb[2]
        BY <2>2
      <3>3. va[1] = vb[1]
        BY <1>4, <3>1, <3>2
      <3> QED
        BY <3>1, <3>2, <3>3
    <2>3. ASSUME NEW r \in T PROVE \E va \in A : f[va] = r
      <3>1. /\ r \in Pages \X TX /\ Points(m, r[1], r[2], p)
            /\ \E i \in DX : Points(m, d, i, r[1])
        BY DEF TableRefs
      <3>2. PICK i \in DX : Points(m, d, i, r[1])
        BY <3>1
      <3>3. <<i, r[2]>> \in A
        BY <1>5, <3>1, <3>2 DEF Points
      <3>4. f[<<i, r[2]>>] = r
        BY <3>1, <3>2, <3>3 DEF Points
      <3> QED
        BY <3>3, <3>4
    <2>4. f \in Bijection(A, T)
      BY <2>1, <2>2, <2>3 DEF Bijection, Injection, Surjection, IsInjective
    <2>5. ExistsBijection(A, T)
      BY <2>4 DEF ExistsBijection
    <2> QED
      BY <1>2, <2>5, FS_Bijection
  <1>7. Cardinality(B) = Cardinality(DirRefs(m, d, p))
    <2> DEFINE T == DirRefs(m, d, p)
               f == [i \in B |-> <<d, i>>]
    <2>1. \A i : i \in B <=> i \in DX /\ Points(m, d, i, p)
      BY DEF Tables, Points
    <2> HIDE DEF B
    <2>2. \A i \in B : f[i] \in T
      BY <2>1 DEF DirRefs
    <2>3. \A i, j \in B : f[i] = f[j] => i = j
      OBVIOUS
    <2>4. ASSUME NEW r \in T PROVE \E i \in B : f[i] = r
      <3>1. r \in {d} \X DX /\ Points(m, d, r[2], p)
        BY DEF DirRefs
      <3> QED
        BY <2>1, <3>1
    <2>5. f \in Bijection(B, T)
      BY <2>2, <2>3, <2>4 DEF Bijection, Injection, Surjection, IsInjective
    <2>6. ExistsBijection(B, T)
      BY <2>5 DEF ExistsBijection
    <2> QED
      BY <1>2, <2>6, FS_Bijection
  <1> QED
    BY <1>6, <1>7 DEF Drops

\* Entry i of page q is one that env_free of d clears.
Cleared(m, d, q, i) ==
  (q = d /\ i \in DX) \/ ((\E j \in DX : Points(m, d, j, q)) /\ i \in TX)

LEMMA EnvFreeFields ==
  ASSUME NEW m \in Memory, NEW d \in Pages, NEW n, n = EnvFreeVm(m, d),
         ~\E j \in DX : Points(m, d, j, d)
  PROVE  /\ n.pp_ref = [p \in Pages |-> (m.pp_ref[p] - Drops(m, d, p)) % REFMAX]
         /\ n.page_free_list = m.page_free_list \cup
              {p \in Pages : \E k \in 1 .. Drops(m, d, p) : (m.pp_ref[p] - k) % REFMAX = 0}
         /\ \A q \in Pages, i \in Index :
              n.word[q][i] = IF Cleared(m, d, q, i) THEN NoEntry ELSE m.word[q][i]
         /\ \A q \in Pages : q # d /\ (~\E j \in DX : Points(m, d, j, q)) => n.word[q] = m.word[q]
  <1>1. \A q \in Pages : (\E j \in Tables(m, d) : m.word[d][j].page = q) <=>
                           \E j \in DX : Points(m, d, j, q)
    BY DEF Tables, Points
  <1>2. \A q \in Pages : n.word[q] =
          IF q = d THEN [i \in Index |-> IF i \in DX THEN NoEntry ELSE m.word[q][i]]
          ELSE IF \E j \in DX : Points(m, d, j, q)
          THEN [i \in Index |-> IF i \in TX THEN NoEntry ELSE m.word[q][i]]
          ELSE m.word[q]
    BY <1>1 DEF EnvFreeVm
  <1>3. ASSUME NEW q \in Pages, NEW i \in Index
        PROVE  n.word[q][i] = IF Cleared(m, d, q, i) THEN NoEntry ELSE m.word[q][i]
    <2>1. CASE q = d
      BY <1>2, <2>1 DEF Cleared
    <2>2. CASE q # d
      BY <1>2, <2>2 DEF Cleared
    <2> QED
      BY <2>1, <2>2
  <1> QED
    BY <1>2, <1>3 DEF EnvFreeVm

\* What env_free of directory d leaves.
Freed(m, D, X, d, n) == MemOK(n, D \ {d}, X) /\ NoNewGrants(m, n, D, D \ {d})

LEMMA EnvFreeVmOK ==
  ASSUME NEW m, NEW D, NEW X, MemOK(m, D, X), NEW d \in D
  PROVE  Freed(m, D, X, d, EnvFreeVm(m, d))
  <1> DEFINE n == EnvFreeVm(m, d)
             E == D \ {d}
  <1>1. m \in Memory /\ Shape(m, D) /\ d \in Pages /\ d \in UserPages
    BY DEF MemOK, Shape, PdesOK, UserPages
  <1>2. \A f \in D, j \in DX : ~Points(m, d, j, f)
    BY DEF MemOK, Shape, PdesOK, Points
  <1>3. /\ n.pp_ref = [p \in Pages |-> (m.pp_ref[p] - Drops(m, d, p)) % REFMAX]
        /\ n.page_free_list = m.page_free_list \cup
             {p \in Pages : \E k \in 1 .. Drops(m, d, p) : (m.pp_ref[p] - k) % REFMAX = 0}
        /\ \A q \in Pages, i \in Index :
             n.word[q][i] = IF Cleared(m, d, q, i) THEN NoEntry ELSE m.word[q][i]
        /\ \A q \in Pages : q # d /\ (~\E j \in DX : Points(m, d, j, q)) => n.word[q] = m.word[q]
    BY <1>1, <1>2, EnvFreeFields
  <1>4. n \in Memory
    BY <1>1, EnvFreeVmType
  <1> HIDE DEF n
  <1>5. \A u : \A q \in Pages, i \in Index :
          Points(n, q, i, u) <=> Points(m, q, i, u) /\ ~Cleared(m, d, q, i)
    BY <1>3 DEF Points, NoEntry, Present
  <1>6. \A f \in E : f \in D /\ f \in Pages /\ n.word[f] = m.word[f]
    BY <1>1, <1>2, <1>3 DEF Shape, PdesOK, UserPages
  <1>7. Tabs(n, E) = {t \in Tabs(m, D) : ~\E j \in DX : Points(m, d, j, t)}
    <2>1. ASSUME NEW t \in Tabs(n, E) PROVE t \in Tabs(m, D) /\ ~\E j \in DX : Points(m, d, j, t)
      <3>1. PICK f \in E, i \in DX : Points(n, f, i, t)
        BY DEF Tabs
      <3>2. Points(m, f, i, t) /\ f \in D /\ t \in Pages
        BY <1>6, <3>1 DEF Points, Tabs
      <3> QED
        BY <1>1, <3>1, <3>2 DEF Shape, PdesOK, Points, Tabs
    <2>2. ASSUME NEW t \in Tabs(m, D), ~\E j \in DX : Points(m, d, j, t) PROVE t \in Tabs(n, E)
      <3>1. PICK f \in D, i \in DX : Points(m, f, i, t)
        BY DEF Tabs
      <3>2. f \in E
        BY <2>2, <3>1
      <3> QED
        BY <1>6, <3>1, <3>2 DEF Points, Tabs
    <2> QED
      BY <2>1, <2>2
  <1>8. \A t \in Tabs(n, E) : t \in Tabs(m, D) /\ t \in Pages /\ n.word[t] = m.word[t]
    <2>1. \A t \in Tabs(m, D) : t \in Pages /\ t # d
      BY <1>1 DEF Tabs, Shape, PdesOK, Points
    <2> QED
      BY <1>3, <1>7, <2>1
  <1>9. PdesOK(n, E)
    BY <1>1, <1>6 DEF Shape, PdesOK, Points
  <1>10. PtesOK(n, E)
    BY <1>1, <1>7, <1>8 DEF Shape, PtesOK
  <1>11. NoStrays(n, E)
    <2> SUFFICES ASSUME NEW q \in Pages, NEW j \in Index,
                        Present(n.word[q][j]), n.word[q][j].page \in UserPages
                 PROVE  (q \in E /\ j \in DX) \/ (q \in Tabs(n, E) /\ j \in TX)
      BY DEF NoStrays
    <2>1. ~Cleared(m, d, q, j) /\ n.word[q][j] = m.word[q][j]
      BY <1>3 DEF NoEntry, Present
    <2>2. (q \in D /\ j \in DX) \/ (q \in Tabs(m, D) /\ j \in TX)
      BY <1>1, <2>1 DEF Shape, NoStrays
    <2> QED
      BY <1>7, <2>1, <2>2 DEF Cleared
  <1>12. ASSUME NEW p \in UserPages
         PROVE  m.pp_ref[p] = RefCount(n, E, p) + Drops(m, d, p)
    <2> DEFINE T == TableRefs(m, d, p)
               B == DirRefs(m, d, p)
               N == Refs(n, p)
    <2>1. T \subseteq Refs(m, p) /\ B \subseteq Refs(m, p)
      BY <1>1 DEF TableRefs, DirRefs, Refs, Index
    <2>2. N = Refs(m, p) \ (T \cup B)
      <3>1. ASSUME NEW r \in Pages \X Index
            PROVE  r \in N <=> r \in Refs(m, p) /\ r \notin T /\ r \notin B
        <4>1. r[1] \in Pages /\ r[2] \in Index /\ r = <<r[1], r[2]>>
          OBVIOUS
        <4>2. r \in N <=> Points(m, r[1], r[2], p) /\ ~Cleared(m, d, r[1], r[2])
          BY <1>5, <4>1 DEF Refs
        <4>3. r \in Refs(m, p) <=> Points(m, r[1], r[2], p)
          BY <4>1 DEF Refs
        <4>4. r \in T <=> (\E i \in DX : Points(m, d, i, r[1])) /\ Points(m, r[1], r[2], p)
                          /\ r[2] \in TX
          BY <4>1 DEF TableRefs
        <4>5. r \in B <=> r[1] = d /\ r[2] \in DX /\ Points(m, d, r[2], p)
          BY <4>1 DEF DirRefs
        <4> QED
          BY <4>2, <4>3, <4>4, <4>5 DEF Cleared
      <3>2. N \subseteq Pages \X Index /\ Refs(m, p) \subseteq Pages \X Index
        BY DEF Refs
      <3> QED
        BY <3>1, <3>2
    <2>3. T \cap B = {}
      BY <1>2 DEF TableRefs, DirRefs
    <2>4. IsFiniteSet(Refs(m, p)) /\ IsFiniteSet(N) /\ Cardinality(N) \in Nat
      BY RefsFinite
    <2> HIDE DEF T, B, N
    <2>5. IsFiniteSet(T) /\ IsFiniteSet(B)
      BY <2>1, <2>4, FS_Subset
    <2>6. Cardinality(T \cup B) = Cardinality(T) + Cardinality(B) /\ IsFiniteSet(T \cup B)
      BY <2>3, <2>5, DisjointCount
    <2>7. Cardinality(Refs(m, p)) = Cardinality(N) + Cardinality(T \cup B)
      <3>1. N \cup (T \cup B) = Refs(m, p) /\ N \cap (T \cup B) = {}
        BY <2>1, <2>2
      <3> QED
        BY <2>4, <2>6, <3>1, DisjointCount
    <2>8. Cardinality(T) \in Nat /\ Cardinality(B) \in Nat
      BY <2>5, FS_CardinalityType
    <2>9. Drops(m, d, p) = Cardinality(T) + Cardinality(B) + (IF p = d THEN 1 ELSE 0)
      BY <1>1, DropsCount DEF T, B
    <2>10. m.pp_ref[p] = Cardinality(Refs(m, p)) + (IF p \in D THEN 1 ELSE 0)
      BY DEF MemOK, CountsOK, RefCount
    <2>11. RefCount(n, E, p) = Cardinality(N) + (IF p \in D /\ p # d THEN 1 ELSE 0)
      BY DEF RefCount, N
    <2> QED
      BY <2>4, <2>6, <2>7, <2>8, <2>9, <2>10, <2>11
  <1>13. CountsOK(n, E, X)
    <2> SUFFICES ASSUME NEW p \in UserPages
                 PROVE  /\ n.pp_ref[p] = RefCount(n, E, p)
                        /\ p \in n.page_free_list <=> (n.pp_ref[p] = 0 /\ p \notin X)
                        /\ p \in X => n.pp_ref[p] = 0
      BY DEF CountsOK
    <2> DEFINE c == m.pp_ref[p]
               k == Drops(m, d, p)
               r == RefCount(n, E, p)
    <2>1. c = r + k /\ k \in Nat /\ r \in Nat /\ c \in 0 .. (REFMAX - 1) /\ p \in Pages
      BY <1>1, <1>12, DropsType, RefsFinite DEF RefCount, Memory, UserPages
    <2>2. /\ p \in m.page_free_list <=> (c = 0 /\ p \notin X)
          /\ p \in X => c = 0
      BY DEF MemOK, CountsOK
    <2>3. n.pp_ref[p] = (c - k) % REFMAX
      BY <1>3, <2>1
    <2>4. p \in n.page_free_list <=> p \in m.page_free_list \/ (\E j \in 1 .. k : (c - j) % REFMAX = 0)
      BY <1>3, <2>1
    <2> HIDE DEF c, k, r
    <2>5. \A j \in 0 .. k : (c - j) % REFMAX = c - j
      <3> TAKE j \in 0 .. k
      <3>1. c - j \in 0 .. (REFMAX - 1)
        BY <2>1, PmapAssumption
      <3> QED
        BY <3>1, SmallMod
    <2>6. n.pp_ref[p] = r
      BY <2>1, <2>3, <2>5
    <2>7. (\E j \in 1 .. k : (c - j) % REFMAX = 0) <=> r = 0 /\ c # 0
      BY <2>1, <2>5
    <2>8. p \in n.page_free_list <=> (r = 0 /\ p \notin X)
      BY <2>1, <2>2, <2>4, <2>7
    <2>9. p \in X => r = 0
      BY <2>1, <2>2
    <2>10. r = RefCount(n, E, p)
      BY DEF r
    <2> QED
      BY <2>6, <2>8, <2>9, <2>10
  <1>14. KernOK(n, E)
    <2>1. \A j \in DX : j \in Index
      BY DEF Index
    <2>2. \A u \in KernelPages : u \in Pages /\ u # d /\ ~\E j \in DX : Points(m, d, j, u)
      BY <1>1, PmapAssumption DEF Shape, PdesOK, Points, UserPages, KernelPages
    <2>3. ASSUME NEW u \in KernelPages PROVE Drops(m, d, u) = 0
      <3>1. DirRefs(m, d, u) = {}
        BY <2>2 DEF DirRefs
      <3>2. TableRefs(m, d, u) = {}
        <4> SUFFICES ASSUME NEW r \in TableRefs(m, d, u) PROVE FALSE
          OBVIOUS
        <4>1. /\ r[1] \in Pages /\ r[2] \in TX /\ Points(m, r[1], r[2], u)
              /\ \E i \in DX : Points(m, d, i, r[1])
          BY DEF TableRefs
        <4>2. r[1] \in Tabs(m, D)
          BY <4>1 DEF Tabs
        <4>3. u \in UserPages
          BY <1>1, <4>1, <4>2 DEF Shape, PtesOK, Points
        <4> QED
          BY <4>3 DEF UserPages
      <3>3. u # d
        BY <2>2
      <3>4. Cardinality(DirRefs(m, d, u)) = 0 /\ Cardinality(TableRefs(m, d, u)) = 0
        BY <3>1, <3>2, FS_EmptySet
      <3>5. Drops(m, d, u) = Cardinality(TableRefs(m, d, u)) + Cardinality(DirRefs(m, d, u))
                            + (IF u = d THEN 1 ELSE 0)
        BY <1>1, DropsCount
      <3> QED
        BY <3>3, <3>4, <3>5
    <2>4. KernelPages \cap n.page_free_list = {}
      <3>1. \A u \in KernelPages : u \notin m.page_free_list
        BY DEF MemOK, KernOK
      <3>2. \A u \in KernelPages : ~\E k \in 1 .. Drops(m, d, u) : (m.pp_ref[u] - k) % REFMAX = 0
        BY <2>3
      <3> QED
        BY <1>3, <3>1, <3>2
    <2>5. n.word[KernPT] = KernTable
      BY <1>3, <2>2 DEF KernelPages, MemOK, KernOK
    <2> QED
      BY <1>6, <2>4, <2>5 DEF MemOK, KernOK
  <1>15. NoNewGrants(m, n, D, E)
    BY <1>8 DEF NoNewGrants, Grants, Points
  <1>16. MemOK(n, E, X)
    BY <1>4, <1>9, <1>10, <1>11, <1>13, <1>14 DEF MemOK, Shape
  <1> QED
    BY <1>15, <1>16 DEF Freed, n

-----------------------------------------------------------------------------
LEMMA MemInitOK == MemOK(MemInit, {}, {})
  <1>1. MemInit \in Memory
    BY MemInitType
  <1>2. \A q \in Pages, i \in Index : Present(MemInit.word[q][i]) => MemInit.word[q][i].page = KernEnvs
    BY PmapAssumption DEF MemInit, KernTable, Zeroed, NoEntry, Present, Index
  <1>3. KernEnvs \notin UserPages
    BY DEF UserPages, KernelPages
  <1>4. Tabs(MemInit, {}) = {}
    BY DEF Tabs
  <1>5. Shape(MemInit, {})
    BY <1>2, <1>3, <1>4 DEF Shape, PdesOK, PtesOK, NoStrays
  <1>6. KernOK(MemInit, {})
    BY PmapAssumption DEF KernOK, MemInit, UserPages
  <1>7. CountsOK(MemInit, {}, {})
    <2> SUFFICES ASSUME NEW p \in UserPages
                 PROVE  MemInit.pp_ref[p] = 0 /\ RefCount(MemInit, {}, p) = 0
                        /\ p \in MemInit.page_free_list
      BY DEF CountsOK
    <2>1. MemInit.pp_ref[p] = 0 /\ p \in MemInit.page_free_list
      BY DEF MemInit, UserPages
    <2>2. \A q \in Pages, i \in Index : ~Points(MemInit, q, i, p)
      BY <1>2, <1>3 DEF Points
    <2>3. Cardinality(Refs(MemInit, p)) = 0
      BY <2>2, NoRefs
    <2> QED
      BY <2>1, <2>3 DEF RefCount
  <1> QED
    BY <1>1, <1>5, <1>6, <1>7 DEF MemOK

=============================================================================
