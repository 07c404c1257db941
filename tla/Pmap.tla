-------------------------------- MODULE Pmap --------------------------------
(***************************************************************************)
(* Physical pages and two-level page tables: kern/pmap.c, with the parts   *)
(* of kern/env.c that build and tear down an address space.                *)
(*                                                                         *)
(* The memory is one record m:                                             *)
(*   pp_ref          pages[].pp_ref, a counter of REFMAX values (uint16_t) *)
(*   page_free_list  the set of pages on the list                          *)
(*   word            the entries of a page that is used as a page          *)
(*                   directory or page table; user data is not represented *)
(* Every operator takes the memory it works on and yields the one it       *)
(* leaves; an operation that takes a page from the free list yields the    *)
(* SET of its outcomes. Callers never depend on the order of the list, so  *)
(* it is a set, and the page at its head is any of PickFree of it.         *)
(***************************************************************************)
EXTENDS Integers, FiniteSets

CONSTANTS
  Pages,      \* physical pages
  KernPT,     \* the kernel's page table for the region that starts at UTOP
  KernEnvs,   \* the first page of the envs array, which the kernel maps at UTOP
  NullPage,   \* physical page 0, never allocated; also the null page pointer
  NPD,        \* PDX(UTOP): page directory entries below UTOP
  NPT,        \* entries of a page table
  REFMAX,     \* values of pp_ref: 2^16 in the code
  PickFree(_) \* the free pages of which one is at the head of the list

ASSUME PmapAssumption ==
  /\ IsFiniteSet(Pages)
  /\ {KernPT, KernEnvs, NullPage} \subseteq Pages
  /\ KernPT # KernEnvs /\ NullPage \notin {KernPT, KernEnvs}
  /\ NPD \in Nat \ {0} /\ NPT \in Nat \ {0} /\ REFMAX \in Nat \ {0, 1}
  /\ \A S \in SUBSET Pages : PickFree(S) \subseteq S /\ (PickFree(S) = {} => S = {})

-----------------------------------------------------------------------------
(* Virtual addresses are page aligned pairs <<directory index, table index>>. *)

PDX(va) == va[1]
PTX(va) == va[2]

DX  == 0 .. (NPD - 1)          \* directory indexes below UTOP
KDX == NPD                     \* PDX(UTOP)
TX  == 0 .. (NPT - 1)
Index == DX \cup {KDX} \cup TX

UserVAs == DX \X TX
UTOP == <<KDX, 0>>
VAs == UserVAs \cup {UTOP}

\* An address from ULIM on, and one so near 2^32 that va + len wraps to 0.
ULIM == <<KDX + 1, 0>>
WrapVA == <<KDX + 1, 1>>
KernelVAs == {ULIM, WrapVA}

BelowUTOP(va) == PDX(va) < PDX(UTOP)

\* Permission bits of an entry, and the ones sys_page_alloc documents.
PermBits == {"P", "U", "W"}

NoEntry == [page |-> NullPage, perm |-> {}]
Entry == [page : Pages, perm : SUBSET PermBits]
Present(e) == "P" \in e.perm

Zeroed == [i \in Index |-> NoEntry]

Memory == [pp_ref : [Pages -> 0 .. (REFMAX - 1)],
           page_free_list : SUBSET Pages,
           word : [Pages -> [Index -> Entry]]]

(***************************************************************************)
(* mem_init and page_init: pages in use at boot have pp_ref 1, the others  *)
(* are free; the kernel's table maps the envs array at UTOP, read-only for *)
(* users, and boot_map_region does not count that mapping.                 *)
(***************************************************************************)
KernelPages == {KernPT, KernEnvs, NullPage}
UserPages == Pages \ KernelPages

KernTable == [Zeroed EXCEPT ![0] = [page |-> KernEnvs, perm |-> {"P", "U"}]]

MemInit ==
  [pp_ref |-> [p \in Pages |-> IF p \in KernelPages THEN 1 ELSE 0],
   page_free_list |-> UserPages,
   word |-> [p \in Pages |-> IF p = KernPT THEN KernTable ELSE Zeroed]]

-----------------------------------------------------------------------------
(* page_alloc(ALLOC_ZERO): the outcomes; none when the list is empty. *)

\* Faulty: the page stays on the list.
PageAllocKeepsPage(m) ==
  {[pp |-> p, mem |-> [m EXCEPT !.word[p] = Zeroed]] : p \in PickFree(m.page_free_list)}

PageAlloc(m) ==
  {[pp |-> p,
    mem |-> [m EXCEPT !.page_free_list = @ \ {p}, !.word[p] = Zeroed]] :
     p \in PickFree(m.page_free_list)}

PageFree(m, pp) == [m EXCEPT !.page_free_list = @ \cup {pp}]

PageIncref(m, pp) == [m EXCEPT !.pp_ref[pp] = (@ + 1) % REFMAX]

PageDecref(m, pp) ==
  LET d == [m EXCEPT !.pp_ref[pp] = (@ - 1) % REFMAX]
  IN  IF d.pp_ref[pp] = 0 THEN PageFree(d, pp) ELSE d

(* pgdir_walk: the entry of va (NoEntry when its table is missing), and,   *)
(* with create, the memories in which the table exists.                    *)
Pte(m, pgdir, va) ==
  IF Present(m.word[pgdir][PDX(va)])
  THEN m.word[m.word[pgdir][PDX(va)].page][PTX(va)]
  ELSE NoEntry

PgdirWalk(m, pgdir, va) ==
  IF Present(m.word[pgdir][PDX(va)])
  THEN {m}
  ELSE {[PageIncref(a.mem, a.pp) EXCEPT
           !.word[pgdir][PDX(va)] = [page |-> a.pp, perm |-> {"P", "W", "U"}]] :
          a \in PageAlloc(m)}

SetPte(m, pgdir, va, entry) ==
  [m EXCEPT !.word[m.word[pgdir][PDX(va)].page][PTX(va)] = entry]

(* page_lookup yields the mapped page or NullPage. *)
PageLookup(m, pgdir, va) ==
  IF Present(Pte(m, pgdir, va)) THEN Pte(m, pgdir, va).page ELSE NullPage

PageRemove(m, pgdir, va) ==
  IF PageLookup(m, pgdir, va) = NullPage
  THEN m
  ELSE SetPte(PageDecref(m, PageLookup(m, pgdir, va)), pgdir, va, NoEntry)

(* page_insert: the outcomes. The count of pp goes up before the old page  *)
(* is removed, so that re-inserting a page never frees it.                 *)

\* Faulty: the old page is removed first.
InsertRemovesFirst(m, pgdir, pp, va, perm) ==
  SetPte(PageIncref(PageRemove(m, pgdir, va), pp), pgdir, va,
         [page |-> pp, perm |-> perm \cup {"P"}])

\* Faulty: pp_ref is not incremented.
InsertUncounted(m, pgdir, pp, va, perm) ==
  SetPte(PageRemove(m, pgdir, va), pgdir, va, [page |-> pp, perm |-> perm \cup {"P"}])

Insert(m, pgdir, pp, va, perm) ==
  LET removed == PageRemove(PageIncref(m, pp), pgdir, va)
      mapped  == SetPte(removed, pgdir, va, [page |-> pp, perm |-> perm \cup {"P"}])
  IN  [mapped EXCEPT !.word[pgdir][PDX(va)].perm = @ \cup perm]

PageInsert(m, pgdir, pp, va, perm) ==
  IF PgdirWalk(m, pgdir, va) = {}
  THEN {[ret |-> "E_NO_MEM", mem |-> m]}
  ELSE {[ret |-> "OK", mem |-> Insert(w, pgdir, pp, va, perm)] :
          w \in PgdirWalk(m, pgdir, va)}

-----------------------------------------------------------------------------
(* env_setup_vm: the outcomes, each with the new page directory. Entries   *)
(* from PDX(UTOP) on are copied from kern_pgdir; the entry at UVPT, a      *)
(* read-only window onto the directory itself, is not represented.         *)

\* Faulty: the kernel's entries are not copied.
EnvSetupVmNoKernel(m) ==
  {[pgdir |-> a.pp, mem |-> PageIncref(a.mem, a.pp)] : a \in PageAlloc(m)}

EnvSetupVm(m) ==
  {[pgdir |-> a.pp,
    mem |-> [PageIncref(a.mem, a.pp) EXCEPT
               !.word[a.pp][KDX] = [page |-> KernPT, perm |-> {"P", "W", "U"}]]] :
     a \in PageAlloc(m)}

(***************************************************************************)
(* The address space half of env_free: page_remove of every mapping below  *)
(* UTOP, then page_decref of every page table, then of the directory. The  *)
(* two loops amount to lowering the count of p by Drops(m, pgdir, p), and  *)
(* a page is freed when a single decrement on the way reaches 0.           *)
(***************************************************************************)
Tables(m, pgdir) == {i \in DX : Present(m.word[pgdir][i])}

Drops(m, pgdir, p) ==
  Cardinality({va \in UserVAs : LET e == Pte(m, pgdir, va) IN Present(e) /\ e.page = p})
    + Cardinality({i \in Tables(m, pgdir) : m.word[pgdir][i].page = p})
    + (IF p = pgdir THEN 1 ELSE 0)

EnvFreeVm(m, pgdir) ==
  [pp_ref |-> [p \in Pages |-> (m.pp_ref[p] - Drops(m, pgdir, p)) % REFMAX],
   page_free_list |-> m.page_free_list \cup
     {p \in Pages : \E k \in 1 .. Drops(m, pgdir, p) : (m.pp_ref[p] - k) % REFMAX = 0},
   word |-> [p \in Pages |->
     IF p = pgdir
     THEN [i \in Index |-> IF i \in DX THEN NoEntry ELSE m.word[p][i]]
     ELSE IF \E i \in Tables(m, pgdir) : m.word[pgdir][i].page = p
     THEN [i \in Index |-> IF i \in TX THEN NoEntry ELSE m.word[p][i]]
     ELSE m.word[p]]]

-----------------------------------------------------------------------------
(* user_mem_check of one page: the entry must be present and have ANY of   *)
(* the bits asked for (PTE_U and PTE_P are always among them). When        *)
(* va + len wraps, the loop tests no page.                                 *)
UserMemCheck(m, pgdir, va, perm) ==
  /\ va # ULIM
  /\ va # WrapVA =>
       /\ PageLookup(m, pgdir, va) # NullPage
       /\ Pte(m, pgdir, va).perm \cap (perm \cup {"U", "P"}) # {}

(* A store by the kernel through the current page directory: CR0_WP is on, *)
(* so that the page must be mapped with PTE_W, as the kernel's memory is.  *)
KernelCanWrite(m, pgdir, va) ==
  va \notin KernelVAs =>
    /\ PageLookup(m, pgdir, va) # NullPage
    /\ "W" \in Pte(m, pgdir, va).perm

(* The memories that a store through va can leave. In the kernel's part it *)
(* can hit an entry of a table, a count or other data: of the last, which  *)
(* is envs, cpus and the lock too, nothing is represented.                 *)
KernelStored(m, va) ==
  IF va \in KernelVAs
  THEN {m} \cup {[m EXCEPT !.word[p][i] = entry] : p \in Pages, i \in Index, entry \in Entry}
           \cup {[m EXCEPT !.pp_ref[p] = n] : p \in Pages, n \in 0 .. (REFMAX - 1)}
  ELSE {m}

=============================================================================
