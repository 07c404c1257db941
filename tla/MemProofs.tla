------------------------------ MODULE MemProofs ------------------------------
(***************************************************************************)
(* Proofs that the memory of the kernel stays sound: counts are exact, the *)
(* kernel's mappings and the page tables are out of the programs' reach,   *)
(* no CPU runs on a freed page directory, and a read-only page stays so;   *)
(* for every number of CPUs, environments and pages, provided that         *)
(* programs keep the conventions of lib/ and that no page has so many      *)
(* mappings that its count wraps around.                                   *)
(***************************************************************************)
EXTENDS KernelProofs

ByTheBook == Disciplined /\ "page_if_asked" \in Discipline

\* pp_ref has room for the entries that point to each page.
NoWrap == \A p \in UserPages : Cardinality(EntriesTo(p)) < REFMAX

-----------------------------------------------------------------------------
(* The environments es and the memory m fit together. *)

DirsOf(es) == {es[s].env_pgdir : s \in {e \in Slots : es[e].env_status # "FREE"}}

FreeNoPgdir(es) == \A s \in Slots : es[s].env_status = "FREE" <=> es[s].env_pgdir = NullPage

OwnPgdir(es) ==
  \A s, e \in Slots :
    es[s].env_status # "FREE" /\ es[s].env_pgdir = es[e].env_pgdir => s = e

MemFits(es, m) == MemOK(m, DirsOf(es), {}) /\ FreeNoPgdir(es) /\ OwnPgdir(es)

\* cr3 is the kernel's or the directory of curenv.
Cr3Own ==
  \A c \in CPUs :
    cpus[c].cr3 = KernPgdir \/ (Cur(c) \in Slots /\ cpus[c].cr3 = envs[Cur(c)].env_pgdir)

MemInv == MemFits(envs, mem) /\ Cr3Own

\* What was writable to nobody and in use in mem is so in the memory m of es.
NoGains(es, m) ==
  \A p \in UserPages :
    p \notin mem.page_free_list /\ Grants(m, DirsOf(es), p) => Grants(mem, DirsOf(envs), p)

\* Two versions of the environments with the same directories.
Alike(es, new) ==
  \A s \in Slots : /\ new[s].env_pgdir = es[s].env_pgdir
                   /\ new[s].env_status = "FREE" <=> es[s].env_status = "FREE"

LEMMA AlikeFits ==
  ASSUME NEW es, NEW new, Alike(es, new)
  PROVE  DirsOf(new) = DirsOf(es) /\ \A m : MemFits(es, m) => MemFits(new, m)
  <1>1. DirsOf(new) = DirsOf(es)
    BY DEF DirsOf, Alike
  <1>2. FreeNoPgdir(es) => FreeNoPgdir(new)
    BY DEF FreeNoPgdir, Alike
  <1>3. OwnPgdir(es) => OwnPgdir(new)
    BY DEF OwnPgdir, Alike
  <1> QED
    BY <1>1, <1>2, <1>3 DEF MemFits

-----------------------------------------------------------------------------
(* Every way out of the kernel, as far as the memory is concerned. *)

\* What leaving with environments es and curenv cur does.
LeftBy(c, es, cur) ==
  /\ Alike(es, envs')
  /\ \A d \in CPUs \ {c} : cpus'[d] = cpus[d]
  /\ \/ cpus'[c].cr3 = KernPgdir
     \/ cpus'[c].cpu_env \in Slots /\ cpus'[c].cr3 = es[cpus'[c].cpu_env].env_pgdir
     \/ cpus'[c].cpu_env = cur /\ cur # NoEnv /\ cpus'[c].cr3 = cpus[c].cr3

LEMMA EnvRunLeft ==
  ASSUME BaseInv, NEW c \in CPUs, NEW es \in [Slots -> Envs], NEW cur, NEW e \in Slots,
         es[e].env_status # "FREE", EnvRun(c, es, cur, e)
  PROVE  LeftBy(c, es, cur)
  <1>1. Alike(es, envs')
    BY DEF EnvRun, SwitchTo, Alike, Envs
  <1>2. /\ \A d \in CPUs \ {c} : cpus'[d] = cpus[d]
        /\ cpus'[c].cpu_env = e /\ cpus'[c].cr3 = es[e].env_pgdir
    BY DEF EnvRun, BaseInv, TypeOK, Cpus
  <1> QED
    BY <1>1, <1>2 DEF LeftBy

LEMMA SchedHaltLeft ==
  ASSUME BaseInv, NEW c \in CPUs, NEW es, NEW cur, SchedHalt(c, es, cur)
  PROVE  LeftBy(c, es, cur)
  <1>1. Alike(es, envs')
    BY DEF SchedHalt, Alike
  <1>2. \A d \in CPUs \ {c} : cpus'[d] = cpus[d]
    BY DEF SchedHalt, BaseInv, TypeOK, Cpus
  <1>3. \/ cpus'[c].cr3 = KernPgdir
        \/ cpus'[c].cpu_env = cur /\ cur # NoEnv /\ cpus'[c].cr3 = cpus[c].cr3
    BY DEF SchedHalt, BaseInv, TypeOK, Cpus
  <1> QED
    BY <1>1, <1>2, <1>3 DEF LeftBy

LEMMA SchedYieldLeft ==
  ASSUME BaseInv, NEW c \in CPUs, NEW es \in [Slots -> Envs], NEW cur \in Slots \cup {NoEnv},
         SchedYield(c, es, cur)
  PROVE  LeftBy(c, es, cur)
  <1>1. CASE \E e \in FirstRunnable(es, cur) : EnvRun(c, es, cur, e)
    BY <1>1, EnvRunLeft DEF FirstRunnable, Runnable
  <1>2. CASE StillRuns(es, cur) /\ EnvRun(c, es, cur, cur)
    BY <1>2, EnvRunLeft DEF StillRuns
  <1>3. CASE SchedHalt(c, es, cur)
    BY <1>3, SchedHaltLeft
  <1> QED
    BY <1>1, <1>2, <1>3 DEF SchedYield

LEMMA ReturnLeft ==
  ASSUME BaseInv, NEW c \in CPUs, NEW es \in [Slots -> Envs], NEW cur \in Slots \cup {NoEnv},
         Return(c, es, cur)
  PROVE  LeftBy(c, es, cur)
  <1>1. CASE StillRuns(es, cur) /\ EnvRun(c, es, cur, cur)
    BY <1>1, EnvRunLeft DEF StillRuns
  <1>2. CASE SchedYield(c, es, cur)
    BY <1>2, SchedYieldLeft
  <1> QED
    BY <1>1, <1>2 DEF Return

LEMMA PanicLeft ==
  ASSUME BaseInv, NEW c \in CPUs, NEW es, Cur(c) \in Slots, Panic(c, es)
  PROVE  LeftBy(c, es, Cur(c))
  <1>1. Alike(es, envs')
    BY DEF Panic, Alike
  <1>2. /\ \A d \in CPUs \ {c} : cpus'[d] = cpus[d]
        /\ cpus'[c].cpu_env = Cur(c) /\ cpus'[c].cr3 = cpus[c].cr3
    BY DEF Panic, BaseInv, TypeOK, Cpus, Cur
  <1> QED
    BY <1>1, <1>2, EnvAssumption DEF LeftBy, Slots

(***************************************************************************)
(* A handler that left es fitting mem', with the directories of all that   *)
(* is still alive, keeps the invariant; the CPUs it does not know of are   *)
(* where SchedInv' puts them.                                              *)
(***************************************************************************)
Kept(es) ==
  \A s \in Slots : envs[s].env_status # "FREE" /\ es[s].env_status # "FREE" =>
    es[s].env_pgdir = envs[s].env_pgdir

Handled(es) == MemFits(es, mem') /\ NoGains(es, mem') /\ Kept(es)

MemStep == MemInv' /\ NoGains(envs', mem')

LEMMA LeaveMem ==
  ASSUME BaseInv, SchedInv, SchedInv', MemInv, NEW c \in CPUs,
         cpus[c].at \in {"init", "sched", "kernel"},
         NEW es, Handled(es), NEW cur \in {Cur(c), NoEnv},
         cur = NoEnv \/ es[cur].env_status # "FREE",
         LeftBy(c, es, cur)
  PROVE  MemStep
  <1>1. /\ MemFits(envs', mem') /\ DirsOf(envs') = DirsOf(es)
    BY AlikeFits DEF LeftBy, Handled
  <1>2. NoGains(envs', mem')
    BY <1>1 DEF Handled, NoGains
  <1>3. ASSUME NEW d \in CPUs \ {c}, cpus'[d].cr3 # KernPgdir
        PROVE  Cur(d)' \in Slots /\ cpus'[d].cr3 = envs'[Cur(d)'].env_pgdir
    <2>1. cpus'[d] = cpus[d] /\ Cur(d)' = Cur(d) /\ (Runs(d)' <=> Runs(d))
      BY DEF LeftBy, Cur, Runs
    <2>2. Cur(d) \in Slots /\ cpus[d].cr3 = envs[Cur(d)].env_pgdir
      BY <1>3, <2>1 DEF MemInv, Cr3Own
    <2>3. Runs(d)
      <3>1. cpus[d].at # "monitor"
        BY DEF BaseInv, KernelMutex, InKernel
      <3>2. cpus[d].at \notin {"off", "init", "wait", "sched", "halt"} /\ Cur(d) # NoEnv
        BY <2>2, EnvAssumption DEF SchedInv, IdleNoEnv, Slots
      <3> QED
        BY <3>1, <3>2 DEF Runs, BaseInv, TypeOK, Cpus, Places
    <2>4. envs[Cur(d)].env_status # "FREE"
      BY <2>3 DEF SchedInv, StatusMatchesCpus
    <2>5. envs'[Cur(d)].env_status # "FREE"
      BY <2>1, <2>3 DEF SchedInv, StatusMatchesCpus
    <2>6. es[Cur(d)].env_status # "FREE" /\ envs'[Cur(d)].env_pgdir = es[Cur(d)].env_pgdir
      BY <2>2, <2>5 DEF LeftBy, Alike
    <2> QED
      BY <2>1, <2>2, <2>4, <2>6 DEF Handled, Kept
  <1>4. ASSUME cpus'[c].cr3 # KernPgdir
        PROVE  Cur(c)' \in Slots /\ cpus'[c].cr3 = envs'[Cur(c)'].env_pgdir
    <2>1. CASE cpus'[c].cpu_env \in Slots /\ cpus'[c].cr3 = es[cpus'[c].cpu_env].env_pgdir
      BY <2>1 DEF LeftBy, Alike, Cur
    <2>2. CASE cpus'[c].cpu_env = cur /\ cur # NoEnv /\ cpus'[c].cr3 = cpus[c].cr3
      <3>1. cur = Cur(c) /\ Cur(c)' = cur /\ es[cur].env_status # "FREE"
        BY <2>2 DEF Cur
      <3>2. Cur(c) \in Slots /\ cpus[c].cr3 = envs[Cur(c)].env_pgdir
        BY <1>4, <2>2 DEF MemInv, Cr3Own
      <3>3. envs[Cur(c)].env_status # "FREE"
        <4>1. cpus[c].at = "kernel"
          BY <3>2, EnvAssumption DEF SchedInv, IdleNoEnv, Slots
        <4> QED
          BY <2>2, <3>1, <4>1 DEF SchedInv, StatusMatchesCpus, Runs
      <3>4. es[cur].env_pgdir = envs[cur].env_pgdir /\ envs'[cur].env_pgdir = es[cur].env_pgdir
        BY <3>1, <3>2, <3>3 DEF Handled, Kept, LeftBy, Alike
      <3> QED
        BY <2>2, <3>1, <3>2, <3>4
    <2> QED
      BY <1>4, <2>1, <2>2 DEF LeftBy
  <1>5. Cr3Own'
    BY <1>3, <1>4 DEF Cr3Own
  <1> QED
    BY <1>1, <1>2, <1>5 DEF MemStep, MemInv

-----------------------------------------------------------------------------
(* What the handlers do before they leave. *)

(* The memory is as it was, and so are the directories. *)
LEMMA QuietHandled ==
  ASSUME MemInv, NEW es, Alike(envs, es), mem' = mem
  PROVE  Handled(es)
  <1>1. DirsOf(es) = DirsOf(envs) /\ MemFits(es, mem)
    BY AlikeFits DEF MemInv
  <1> QED
    BY <1>1 DEF Handled, NoGains, Kept, Alike

(* The memory changed and the directories did not. *)
LEMMA MappedHandled ==
  ASSUME MemInv, NEW es, Alike(envs, es), MemOK(mem', DirsOf(envs), {}),
         \A p \in UserPages : p \notin mem.page_free_list /\ Grants(mem', DirsOf(envs), p)
                                => Grants(mem, DirsOf(envs), p)
  PROVE  Handled(es)
  <1>1. DirsOf(es) = DirsOf(envs) /\ MemFits(es, mem)
    BY AlikeFits DEF MemInv
  <1> QED
    BY <1>1 DEF Handled, NoGains, Kept, Alike, MemFits

(* env_free. *)
LEMMA FreeHandled ==
  ASSUME MemInv, NEW old \in [Slots -> Envs], Alike(envs, old), NEW e \in Slots,
         old[e].env_status # "FREE",
         NEW es, es = EnvFree(old, e), mem' = EnvFreeVm(mem, old[e].env_pgdir)
  PROVE  Handled(es)
  <1> DEFINE d == old[e].env_pgdir
  <1>1. DirsOf(old) = DirsOf(envs) /\ MemFits(old, mem)
    BY AlikeFits DEF MemInv
  <1>2. /\ es[e].env_status = "FREE" /\ es[e].env_pgdir = NullPage
        /\ \A s \in Slots \ {e} : es[s] = old[s]
    BY DEF EnvFree, Envs
  <1>3. d \in DirsOf(old)
    BY DEF DirsOf
  <1>4. DirsOf(es) = DirsOf(old) \ {d}
    <2>1. \A s \in Slots \ {e} : old[s].env_status # "FREE" => old[s].env_pgdir # d
      BY <1>1 DEF MemFits, OwnPgdir
    <2> QED
      BY <1>2, <2>1 DEF DirsOf
  <1>5. Freed(mem, DirsOf(old), {}, d, mem')
    BY <1>1, <1>3, EnvFreeVmOK DEF MemFits
  <1>6. FreeNoPgdir(es) /\ OwnPgdir(es)
    BY <1>1, <1>2 DEF MemFits, FreeNoPgdir, OwnPgdir
  <1>7. Kept(es)
    BY <1>2 DEF Kept, Alike
  <1> HIDE DEF d
  <1>8. MemFits(es, mem')
    BY <1>4, <1>5, <1>6 DEF MemFits, Freed
  <1>9. NoGains(es, mem')
    BY <1>1, <1>4, <1>5 DEF Freed, NoNewGrants, NoGains
  <1> QED
    BY <1>7, <1>8, <1>9 DEF Handled

(* env_alloc into a free slot e. *)
LEMMA AllocHandled ==
  ASSUME MemInv, NEW old \in [Slots -> Envs], Alike(envs, old), NEW e \in Slots,
         old[e].env_status = "FREE", NEW vm \in EnvSetupVm(mem), mem' = vm.mem,
         NEW es, es[e].env_status # "FREE", es[e].env_pgdir = vm.pgdir,
         \A s \in Slots \ {e} : es[s].env_pgdir = old[s].env_pgdir
                                /\ es[s].env_status = old[s].env_status
  PROVE  Handled(es)
  <1> DEFINE d == vm.pgdir
  <1>1. DirsOf(old) = DirsOf(envs) /\ MemFits(old, mem)
    BY AlikeFits DEF MemInv
  <1>2. NewDirectory(mem, DirsOf(old), {}, d, mem')
    BY <1>1, EnvSetupVmOK DEF MemFits
  <1>3. DirsOf(es) = DirsOf(old) \cup {d}
    BY DEF DirsOf
  <1>4. d # NullPage /\ d \notin DirsOf(old)
    BY <1>2 DEF NewDirectory, UserPages, KernelPages
  <1>5. \A s \in Slots \ {e} : es[s].env_pgdir # d
    BY <1>1, <1>4 DEF DirsOf, MemFits, FreeNoPgdir
  <1>6. FreeNoPgdir(es)
    BY <1>1, <1>4 DEF MemFits, FreeNoPgdir
  <1>7. OwnPgdir(es)
    BY <1>1, <1>5 DEF MemFits, OwnPgdir
  <1>8. Kept(es)
    BY DEF Kept, Alike
  <1> HIDE DEF d
  <1>9. MemFits(es, mem')
    BY <1>2, <1>3, <1>6, <1>7 DEF MemFits, NewDirectory
  <1>10. NoGains(es, mem')
    BY <1>1, <1>2, <1>3 DEF NewDirectory, NoNewGrants, NoGains
  <1> QED
    BY <1>8, <1>9, <1>10 DEF Handled

(* env_destroy. *)
LEMMA DestroyHandled ==
  ASSUME MemInv, NEW old \in [Slots -> Envs], Alike(envs, old), NEW e \in Slots,
         old[e].env_status # "FREE", NEW cur, DestroyRest(old, cur, e)
  PROVE  Handled(Destroyed(old, cur, e))
  <1>1. CASE Deferred(old, cur, e)
    <2> DEFINE es == [old EXCEPT ![e].env_status = "DYING"]
    <2>1. Destroyed(old, cur, e) = es /\ mem' = mem
      BY <1>1 DEF Destroyed, DestroyRest
    <2>2. Alike(envs, es)
      BY DEF Alike, Envs
    <2> HIDE DEF es
    <2> QED
      BY <2>1, <2>2, QuietHandled
  <1>2. CASE ~Deferred(old, cur, e)
    BY <1>2, FreeHandled DEF Destroyed, DestroyRest, EnvFreeRest
  <1> QED
    BY <1>1, <1>2

-----------------------------------------------------------------------------
(* The pages a program can name are data pages in use. *)

\* t is a page table and what entry x of it maps is a data page.
TableAt(m, D, t, x) ==
  /\ t \in Tabs(m, D) /\ t \in Pages /\ x \in TX /\ x \in Index
  /\ Present(m.word[t][x]) => m.word[t][x].page \in UserPages \ (D \cup Tabs(m, D))

LEMMA LookupOK ==
  ASSUME NEW m, NEW D, NEW X, MemOK(m, D, X), NEW d \in D, NEW va \in UserVAs,
         NEW p, p = PageLookup(m, d, va), p # NullPage
  PROVE  /\ p \in UserPages \ (D \cup Tabs(m, D)) /\ p \notin m.page_free_list
         /\ "W" \in Pte(m, d, va).perm => Grants(m, D, p)
  <1> DEFINE i == PDX(va)
             t == m.word[d][i].page
             x == PTX(va)
  <1>1. Present(m.word[d][i]) /\ Present(m.word[t][x]) /\ p = m.word[t][x].page
        /\ Pte(m, d, va) = m.word[t][x]
    BY DEF PageLookup, Pte, NoEntry, Present
  <1>2. TableAt(m, D, t, x)
    <2>1. Present(m.word[d][PDX(va)]) /\ t = m.word[d][PDX(va)].page /\ x = PTX(va)
      BY <1>1
    <2> HIDE DEF i, t, x
    <2>2. /\ t \in Tabs(m, D) /\ t \in Pages /\ PTX(va) \in TX /\ PTX(va) \in Index
          /\ Present(m.word[t][PTX(va)]) =>
               m.word[t][PTX(va)].page \in UserPages \ (D \cup Tabs(m, D))
      BY <2>1, TableOf, SMTT(30)
    <2> QED
      BY <2>1, <2>2 DEF TableAt
  <1> HIDE DEF i, t, x
  <1>6. /\ t \in Tabs(m, D) /\ t \in Pages /\ x \in TX /\ x \in Index
        /\ p \in UserPages \ (D \cup Tabs(m, D))
    BY <1>1, <1>2 DEF TableAt
  <1>3. Points(m, t, x, p)
    BY <1>1 DEF Points
  <1>4. m.pp_ref[p] # 0
    BY <1>6, <1>3, UnusedPage
  <1>5. p \notin m.page_free_list
    BY <1>6, <1>4 DEF MemOK, CountsOK
  <1> QED
    BY <1>6, <1>1, <1>3, <1>5 DEF Grants

LEMMA AllocGrants ==
  ASSUME NEW m, NEW D, NEW X, NEW p, NEW n, MemOK(m, D, X), Allocated(m, D, X, p, n)
  PROVE  NoNewGrants(m, n, D, D)
  <1>1. \A t \in Tabs(m, D) : t \in Pages \ {p}
    BY DEF Allocated, Tabs
  <1> QED
    BY <1>1 DEF Allocated, NoNewGrants, Grants, Points

LEMMA BelowUser ==
  ASSUME NEW va \in VAs, BelowUTOP(va)
  PROVE  va \in UserVAs
  BY PmapAssumption DEF VAs, UserVAs, UTOP, BelowUTOP, PDX, KDX


-----------------------------------------------------------------------------
(* Every handler keeps MemInv and makes no page writable.                  *)

\* A handler of CPU c starts with the directories of envs.
Entered(c) ==
  /\ cpus[c].at = "kernel" /\ Cur(c) \in Slots /\ Saved(c) \in [Slots -> Envs]
  /\ Alike(envs, Saved(c)) /\ Saved(c)[Cur(c)].env_status = "RUNNING"
  /\ PgdirOf(envs, Cur(c)) \in DirsOf(envs)

LEMMA ServingMem ==
  ASSUME BaseInv, SchedInv, NEW c \in CPUs, Serving(c)
  PROVE  /\ Entered(c)
         /\ \A checkperm, e : e \in Named(c, checkperm) =>
              /\ e \in Slots /\ envs[e].env_status # "FREE"
              /\ PgdirOf(envs, e) \in DirsOf(envs)
  <1>1. /\ Cur(c) \in Slots /\ Saved(c) \in [Slots -> Envs]
        /\ Saved(c)[Cur(c)].env_status = "RUNNING"
        /\ \A e \in Slots : Saved(c)[e].env_status = envs[e].env_status
        /\ \A checkperm, e : e \in Named(c, checkperm) =>
             e \in Slots /\ envs[e].env_status # "FREE"
    BY ServingSched
  <1>2. \A e \in Slots : Saved(c)[e].env_pgdir = envs[e].env_pgdir
    BY <1>1 DEF Saved, BaseInv, TypeOK, Envs
  <1>3. \A e \in Slots : envs[e].env_status # "FREE" => PgdirOf(envs, e) \in DirsOf(envs)
    BY DEF DirsOf, PgdirOf
  <1>4. Alike(envs, Saved(c))
    BY <1>1, <1>2 DEF Alike
  <1>5. PgdirOf(envs, Cur(c)) \in DirsOf(envs)
    BY <1>1, <1>3
  <1> QED
    BY <1>1, <1>3, <1>4, <1>5 DEF Entered, Serving

(* A handler that returns to, or switches from, its environment. *)
LEMMA LeaveCur ==
  ASSUME BaseInv, SchedInv, SchedInv', MemInv, NEW c \in CPUs, Entered(c),
         NEW es \in [Slots -> Envs], Handled(es), es[Cur(c)].env_status # "FREE",
         Return(c, es, Cur(c)) \/ SchedYield(c, es, Cur(c)) \/ EnvRun(c, es, Cur(c), Cur(c))
           \/ Panic(c, es)
  PROVE  MemStep
  <1>1. Cur(c) \in Slots /\ cpus[c].at = "kernel"
    BY DEF Entered
  <1>2. LeftBy(c, es, Cur(c))
    <2>1. CASE Return(c, es, Cur(c))
      BY <1>1, <2>1, ReturnLeft
    <2>2. CASE SchedYield(c, es, Cur(c))
      BY <1>1, <2>2, SchedYieldLeft
    <2>3. CASE EnvRun(c, es, Cur(c), Cur(c))
      BY <1>1, <2>3, EnvRunLeft
    <2>4. CASE Panic(c, es)
      BY <1>1, <2>4, PanicLeft
    <2> QED
      BY <2>1, <2>2, <2>3, <2>4
  <1> QED
    BY <1>1, <1>2, LeaveMem

(* A handler that has no environment left. *)
LEMMA LeaveIdle ==
  ASSUME BaseInv, SchedInv, SchedInv', MemInv, NEW c \in CPUs,
         cpus[c].at \in {"init", "sched", "kernel"},
         NEW es \in [Slots -> Envs], Handled(es), SchedYield(c, es, NoEnv)
  PROVE  MemStep
  BY SchedYieldLeft, LeaveMem

(* A call that leaves memory and directories alone. *)
LEMMA QuietMem ==
  ASSUME BaseInv, SchedInv, SchedInv', MemInv, NEW c \in CPUs, Entered(c),
         NEW es \in [Slots -> Envs], Alike(Saved(c), es), mem' = mem,
         Return(c, es, Cur(c)) \/ SchedYield(c, es, Cur(c)) \/ EnvRun(c, es, Cur(c), Cur(c))
           \/ Panic(c, es)
  PROVE  MemStep
  <1>1. Alike(envs, es) /\ es[Cur(c)].env_status # "FREE"
    BY DEF Entered, Alike
  <1>2. Handled(es)
    BY <1>1, QuietHandled
  <1> QED
    BY <1>1, <1>2, LeaveCur

(* env_destroy of an environment that is not free. *)
LEMMA EnvDestroyMem ==
  ASSUME BaseInv, SchedInv, SchedInv', MemInv, NEW c \in CPUs, Entered(c), NEW e \in Slots,
         envs[e].env_status # "FREE", EnvDestroy(c, Saved(c), Cur(c), e)
  PROVE  MemStep
  <1> DEFINE es == Saved(c)  cur == Cur(c)  gone == Destroyed(es, cur, e)
  <1>1. /\ cur \in Slots /\ es \in [Slots -> Envs] /\ es[cur].env_status = "RUNNING"
        /\ Alike(envs, es) /\ cpus[c].at = "kernel" /\ es[e].env_status # "FREE"
    BY DEF Entered, Alike
  <1>2. DestroyRest(es, cur, e) /\ gone \in [Slots -> Envs]
    BY <1>1, DestroyedType DEF EnvDestroy
  <1>3. \A s \in Slots \ {e} : gone[s] = es[s]
    BY <1>1 DEF Destroyed, EnvFree
  <1>4. Handled(gone)
    BY <1>1, <1>2, DestroyHandled
  <1>5. \/ e = cur /\ SchedYield(c, gone, NoEnv)
        \/ e # cur /\ Return(c, gone, cur)
    BY DEF EnvDestroy
  <1> HIDE DEF es, gone
  <1>6. CASE e = cur /\ SchedYield(c, gone, NoEnv)
    BY <1>1, <1>2, <1>4, <1>6, LeaveIdle
  <1>7. CASE e # cur /\ Return(c, gone, cur)
    <2>1. gone[Cur(c)].env_status # "FREE"
      BY <1>1, <1>3, <1>7
    <2> QED
      BY <1>2, <1>4, <1>7, <2>1, LeaveCur
  <1> QED
    BY <1>5, <1>6, <1>7

LEMMA ExoforkMem ==
  ASSUME BaseInv, SchedInv, SchedInv', MemInv, NEW c \in CPUs, Entered(c), SysExofork(c)
  PROVE  MemStep
  <1>1. PICK vm \in EnvSetupVm(mem) :
          LET e == Head(env_free_list)
              new == EnvAlloc(Saved(c), e, envs[Cur(c)].env_id, vm)
          IN  /\ Return(c, [new EXCEPT ![e].env_status = "NOT_RUNNABLE",
                                       ![e].env_tf = "fork"], Cur(c))
              /\ mem' = vm.mem
    BY DEF SysExofork
  <1> DEFINE e == Head(env_free_list)
             new == EnvAlloc(Saved(c), e, envs[Cur(c)].env_id, vm)
             es == [new EXCEPT ![e].env_status = "NOT_RUNNABLE", ![e].env_tf = "fork"]
  <1>2. Serving(c) /\ env_free_list # <<>> /\ env_free_list \in Seq(Slots)
    BY DEF SysExofork, Calling, BaseInv, TypeOK
  <1>3. /\ Cur(c) \in Slots /\ Saved(c) \in [Slots -> Envs]
        /\ Saved(c)[Cur(c)].env_status = "RUNNING" /\ Alike(envs, Saved(c))
    BY DEF Entered
  <1>4. e \in Slots /\ Saved(c)[e].env_status = "FREE"
    <2>1. e \in Slots /\ 1 \in DOMAIN env_free_list /\ env_free_list[1] = e
      BY <1>2
    <2>2. envs[e].env_status = "FREE"
      BY <2>1 DEF SchedInv, FreeListExact
    <2> QED
      BY <1>3, <2>1, <2>2 DEF Alike
  <1>5. new \in [Slots -> Envs] /\ vm.pgdir \in Pages
    <2>1. vm.pgdir \in Pages /\ envs[Cur(c)].env_id \in EnvId
      BY <1>3, EnvSetupVmType DEF BaseInv, TypeOK, Envs
    <2> QED
      BY <1>3, <1>4, <2>1, EnvAllocType
  <1>6. /\ \A s \in Slots \ {e} : new[s] = Saved(c)[s]
        /\ new[e].env_pgdir = vm.pgdir
    <2>1. vm.pgdir \in Pages /\ envs[Cur(c)].env_id \in EnvId
      BY <1>3, EnvSetupVmType DEF BaseInv, TypeOK, Envs
    <2> QED
      BY <1>3, <1>4, <2>1, EnvAllocType
  <1>7. Return(c, es, Cur(c)) /\ mem' = vm.mem
    BY <1>1
  <1> HIDE DEF new, e
  <1>8. /\ \A s \in Slots \ {e} : es[s] = new[s]
        /\ es[e].env_status = "NOT_RUNNABLE" /\ es[e].env_pgdir = new[e].env_pgdir
    BY <1>4, <1>5 DEF Envs
  <1>9. es \in [Slots -> Envs]
    <2> DEFINE n == [new EXCEPT ![e].env_status = "NOT_RUNNABLE"]
    <2>1. n \in [Slots -> Envs]
      BY <1>4, <1>5, StatusType DEF EnvStatus
    <2>2. es = [n EXCEPT ![e].env_tf = "fork"]
      OBVIOUS
    <2> HIDE DEF n, es
    <2> QED
      BY <1>4, <2>1, <2>2, TfType DEF Trapframes
  <1> HIDE DEF es
  <1>10. \A s \in Slots \ {e} : es[s].env_pgdir = Saved(c)[s].env_pgdir
                                /\ es[s].env_status = Saved(c)[s].env_status
    BY <1>6, <1>8
  <1>11. Handled(es)
    <2>1. es[e].env_status # "FREE" /\ es[e].env_pgdir = vm.pgdir
      BY <1>6, <1>8
    <2> QED
      BY <1>3, <1>4, <1>7, <1>10, <2>1, AllocHandled
  <1>12. es[Cur(c)].env_status # "FREE"
    BY <1>3, <1>4, <1>10
  <1> QED
    BY <1>7, <1>9, <1>11, <1>12, LeaveCur

LEMMA SetTrapframeMem ==
  ASSUME UserTf, BaseInv, SchedInv, SchedInv', MemInv, NEW c \in CPUs, Entered(c),
         SysEnvSetTrapframe(c)
  PROVE  MemStep
  <1>1. PICK e \in Named(c, TRUE), tf \in VAs :
     LET good == UserMemCheck(mem, PgdirOf(envs, e), tf, {"U", "P"})
         checked == IF good THEN Saved(c) ELSE Destroyed(Saved(c), Cur(c), e)
         goesOn == good \/ e # Cur(c)
     IN  /\ IF good THEN UNCHANGED <<env_free_list, mem>>
                    ELSE DestroyRest(Saved(c), Cur(c), e)
         /\ \/ ~goesOn /\ SchedYield(c, checked, NoEnv)
            \/ goesOn /\ Return(c, [checked EXCEPT ![e].env_tf = "given"], Cur(c))
            \/ goesOn /\ Panic(c, checked)
    BY SetTrapframeSteps
  <1> DEFINE good == UserMemCheck(mem, PgdirOf(envs, e), tf, {"U", "P"})
             cur == Cur(c)
             old == Saved(c)
             gone == Destroyed(old, cur, e)
  <1>2. Serving(c)
    BY DEF SysEnvSetTrapframe, Calling
  <1>3. e \in Slots /\ envs[e].env_status # "FREE"
    BY <1>2, ServingMem
  <1>4. /\ cur \in Slots /\ old \in [Slots -> Envs] /\ cpus[c].at = "kernel"
        /\ old[cur].env_status = "RUNNING" /\ Alike(envs, old) /\ old[e].env_status # "FREE"
    BY <1>3 DEF Entered, Alike
  <1>5. ASSUME NEW es \in [Slots -> Envs], NEW new, new = [es EXCEPT ![e].env_tf = "given"]
        PROVE  new \in [Slots -> Envs] /\ Alike(es, new)
    <2>1. new \in [Slots -> Envs] /\ \A s \in Slots : new[s].env_status = es[s].env_status
      BY <1>3, <1>5, TfFields DEF Trapframes
    <2>2. \A s \in Slots : new[s].env_pgdir = es[s].env_pgdir
      BY <1>3, <1>5 DEF Envs
    <2> QED
      BY <2>1, <2>2 DEF Alike
  <1>6. CASE good
    <2> DEFINE es == [old EXCEPT ![e].env_tf = "given"]
    <2>1. mem' = mem /\ (Return(c, es, Cur(c)) \/ Panic(c, old))
      BY <1>1, <1>6
    <2>2. es \in [Slots -> Envs] /\ Alike(old, es)
      BY <1>4, <1>5
    <2> HIDE DEF es
    <2>3. CASE Return(c, es, Cur(c))
      BY <2>1, <2>2, <2>3, QuietMem
    <2>4. CASE Panic(c, old)
      BY <1>4, <2>1, <2>4, QuietMem DEF Alike
    <2> QED
      BY <2>1, <2>3, <2>4
  <1>7. CASE ~good
    <2> DEFINE es == [gone EXCEPT ![e].env_tf = "given"]
    <2>1. /\ DestroyRest(old, cur, e)
          /\ \/ e = cur /\ SchedYield(c, gone, NoEnv)
             \/ e # cur /\ Return(c, es, cur)
             \/ e # cur /\ Panic(c, gone)
      BY <1>1, <1>7
    <2>2. gone \in [Slots -> Envs] /\ Handled(gone)
      BY <1>3, <1>4, <2>1, DestroyedType, DestroyHandled
    <2>3. \A s \in Slots \ {e} : gone[s] = old[s]
      BY <1>3, <1>4 DEF Destroyed, EnvFree
    <2>4. es \in [Slots -> Envs] /\ Alike(gone, es)
      BY <1>5, <2>2
    <2> HIDE DEF es, gone, old
    <2>5. CASE e = cur /\ SchedYield(c, gone, NoEnv)
      BY <1>4, <2>2, <2>5, LeaveIdle
    <2>6. CASE e # cur /\ Return(c, es, cur)
      <3>1. Handled(es)
        <4>1. DirsOf(es) = DirsOf(gone) /\ MemFits(es, mem')
          BY <2>2, <2>4, AlikeFits DEF Handled
        <4> QED
          BY <2>2, <2>4, <4>1 DEF Handled, NoGains, Kept, Alike
      <3>2. es[Cur(c)].env_status # "FREE"
        BY <1>4, <2>3, <2>4, <2>6 DEF Alike
      <3> QED
        BY <2>4, <2>6, <3>1, <3>2, LeaveCur
    <2>7. CASE e # cur /\ Panic(c, gone)
      <3>1. gone[Cur(c)].env_status # "FREE"
        BY <1>4, <2>3, <2>7
      <3> QED
        BY <2>2, <2>7, <3>1, LeaveCur
    <2> QED
      BY <2>1, <2>5, <2>6, <2>7
  <1> QED
    BY <1>6, <1>7


-----------------------------------------------------------------------------
(* The calls that change mappings. *)

\* In m every count has room, too.
Roomy(m) == \A p \in UserPages : Cardinality(Refs(m, p)) < REFMAX

LEMMA RoomyMem ==
  NoWrap' <=> Roomy(mem')
  BY DEF NoWrap, Roomy, EntriesTo, Refs, Points

LEMMA ReturnWithMem ==
  ASSUME BaseInv, SchedInv, SchedInv', MemInv, NEW c \in CPUs, Entered(c),
         NEW m, ReturnWith(c, m), MemOK(m, DirsOf(envs), {}),
         \A p \in UserPages : p \notin mem.page_free_list /\ Grants(m, DirsOf(envs), p)
                                => Grants(mem, DirsOf(envs), p)
  PROVE  MemStep
  <1>1. /\ mem' = m /\ Return(c, Saved(c), Cur(c)) /\ Saved(c) \in [Slots -> Envs]
        /\ Alike(envs, Saved(c)) /\ Saved(c)[Cur(c)].env_status # "FREE"
    BY DEF ReturnWith, Entered
  <1>2. Handled(Saved(c))
    BY <1>1, MappedHandled
  <1> QED
    BY <1>1, <1>2, LeaveCur

LEMMA PageAllocMem ==
  ASSUME BaseInv, SchedInv, SchedInv', MemInv, NoWrap', NEW c \in CPUs, Entered(c),
         SysPageAlloc(c)
  PROVE  MemStep
  <1> DEFINE D == DirsOf(envs)
  <1>0. PICK e \in Named(c, TRUE), va \in UserVAs, perm \in Perms, a \in PageAlloc(mem) :
          \E r \in PageInsert(a.mem, PgdirOf(envs, e), a.pp, va, perm) :
            ReturnWith(c, IF r.ret = "OK" THEN r.mem ELSE PageFree(r.mem, a.pp))
    BY DEF SysPageAlloc
  <1>1. PICK r \in PageInsert(a.mem, PgdirOf(envs, e), a.pp, va, perm) :
          ReturnWith(c, IF r.ret = "OK" THEN r.mem ELSE PageFree(r.mem, a.pp))
    BY <1>0
  <1>2. PgdirOf(envs, e) \in D /\ perm \in SUBSET PermBits /\ MemOK(mem, D, {})
    <2>1. Serving(c)
      BY DEF SysPageAlloc, Calling
    <2> QED
      BY <2>1, ServingMem, SyscallAssumption DEF MemInv, MemFits
  <1> HIDE DEF D
  <1>3. Allocated(mem, D, {}, a.pp, a.mem)
    BY <1>2, PageAllocOK
  <1>4. /\ MemOK(a.mem, D, {a.pp}) /\ a.pp \in UserPages \ (D \cup Tabs(a.mem, D))
        /\ a.pp \notin a.mem.page_free_list /\ a.pp \in mem.page_free_list
        /\ NoNewGrants(mem, a.mem, D, D)
    <2>1. NoNewGrants(mem, a.mem, D, D)
      BY <1>2, <1>3, AllocGrants
    <2> QED
      BY <1>3, <2>1 DEF Allocated
  <1>5. r.ret = "OK" => Cardinality(Refs(r.mem, a.pp)) < REFMAX
    BY <1>1, <1>4, RoomyMem DEF ReturnWith, Roomy
  <1>6. InsertResult(a.mem, D, {a.pp}, a.pp, perm, r)
    BY <1>2, <1>4, <1>5, PageInsertOK
  <1>7. CASE r.ret = "OK"
    <2>1. /\ MemOK(r.mem, D, {})
          /\ \A u \in UserPages : Grants(r.mem, D, u) => Grants(a.mem, D, u) \/ u = a.pp
      BY <1>6, <1>7 DEF InsertResult
    <2>2. \A p \in UserPages : p \notin mem.page_free_list /\ Grants(r.mem, D, p)
                                 => Grants(mem, D, p)
      BY <1>4, <2>1 DEF NoNewGrants
    <2> QED
      BY <1>1, <1>7, <2>1, <2>2, ReturnWithMem DEF D
  <1>8. CASE r.ret # "OK"
    <2> DEFINE m == PageFree(r.mem, a.pp)
    <2>1. r.mem = a.mem
      BY <1>6, <1>8 DEF InsertResult
    <2>2. MemOK(m, D, {})
      <3>1. MemOK(PageFree(a.mem, a.pp), D, {a.pp} \ {a.pp})
        BY <1>4, PageFreeOK
      <3> QED
        BY <2>1, <3>1
    <2>3. m.word = a.mem.word
      BY <1>4, <2>1 DEF PageFree, MemOK, Memory
    <2> HIDE DEF m
    <2>4. \A p \in UserPages : Grants(m, D, p) <=> Grants(a.mem, D, p)
      BY <2>3 DEF Grants, Tabs, Points
    <2>5. \A p \in UserPages : p \notin mem.page_free_list /\ Grants(m, D, p)
                                 => Grants(mem, D, p)
      BY <1>4, <2>4 DEF NoNewGrants
    <2>6. ReturnWith(c, m)
      BY <1>1, <1>8 DEF m
    <2> QED
      BY <2>2, <2>5, <2>6, ReturnWithMem DEF D
  <1> QED
    BY <1>7, <1>8

\* A page that MayShare allows to be mapped into a directory of D.
Shareable(m, D, p, perm) ==
  /\ p \in UserPages \ (D \cup Tabs(m, D)) /\ p \notin m.page_free_list
  /\ "W" \in perm => Grants(m, D, p)

LEMMA ShareOK ==
  ASSUME NEW m, NEW D, MemOK(m, D, {}), NEW d \in D, NEW va \in UserVAs, NEW perm,
         MayShare(m, d, va, perm)
  PROVE  Shareable(m, D, PageLookup(m, d, va), perm)
  <1>1. PageLookup(m, d, va) # NullPage /\ ("W" \in perm => "W" \in Pte(m, d, va).perm)
    BY DEF MayShare
  <1> QED
    BY <1>1, LookupOK DEF Shareable

(* Mapping a shared page once more. *)
LEMMA SharedMapping ==
  ASSUME NEW m, NEW D, MemOK(m, D, {}), NEW pgdir \in D, NEW va \in UserVAs,
         NEW perm \in SUBSET PermBits, NEW p, Shareable(m, D, p, perm),
         NEW r \in PageInsert(m, pgdir, p, va, perm), Roomy(r.mem)
  PROVE  MemOK(r.mem, D, {}) /\ NoNewGrants(m, r.mem, D, D)
  <1>1. /\ p \in UserPages \ (D \cup Tabs(m, D)) /\ p \notin m.page_free_list
        /\ r.ret = "OK" => Cardinality(Refs(r.mem, p)) < REFMAX
    BY DEF Shareable, Roomy
  <1>2. InsertResult(m, D, {}, p, perm, r)
    BY <1>1, PageInsertOK
  <1>3. CASE r.ret = "E_NO_MEM" /\ r.mem = m
    BY <1>3 DEF NoNewGrants
  <1>4. CASE /\ MemOK(r.mem, D, {} \ {p})
             /\ \A u \in UserPages :
                  Grants(r.mem, D, u) => Grants(m, D, u) \/ (u = p /\ "W" \in perm)
    <2>1. {} \ {p} = {}
      OBVIOUS
    <2>2. MemOK(r.mem, D, {})
      BY <1>4, <2>1
    <2> QED
      BY <1>4, <2>2 DEF NoNewGrants, Shareable
  <1> QED
    BY <1>2, <1>3, <1>4 DEF InsertResult

LEMMA PageMapMem ==
  ASSUME BaseInv, SchedInv, SchedInv', MemInv, NoWrap', NEW c \in CPUs, Entered(c),
         SysPageMap(c)
  PROVE  MemStep
  <1> DEFINE D == DirsOf(envs)
  <1>1. PICK srce \in Named(c, TRUE), dste \in Named(c, TRUE), srcva \in UserVAs,
             perm \in Perms, dstva \in UserVAs :
          /\ MayShare(mem, PgdirOf(envs, srce), srcva, perm)
          /\ \E r \in PageInsert(mem, PgdirOf(envs, dste),
                                 PageLookup(mem, PgdirOf(envs, srce), srcva), dstva, perm) :
               ReturnWith(c, r.mem)
    BY DEF SysPageMap
  <1> DEFINE p == PageLookup(mem, PgdirOf(envs, srce), srcva)
  <1>2. PICK r \in PageInsert(mem, PgdirOf(envs, dste), p, dstva, perm) : ReturnWith(c, r.mem)
    BY <1>1
  <1>3. /\ PgdirOf(envs, srce) \in D /\ PgdirOf(envs, dste) \in D
        /\ perm \in SUBSET PermBits /\ MemOK(mem, D, {})
    <2>1. Serving(c)
      BY DEF SysPageMap, Calling
    <2> QED
      BY <2>1, ServingMem, SyscallAssumption DEF MemInv, MemFits
  <1> HIDE DEF D
  <1>4. Shareable(mem, D, p, perm)
    BY <1>1, <1>3, ShareOK
  <1>5. Roomy(r.mem)
    BY <1>2, RoomyMem DEF ReturnWith
  <1> HIDE DEF p
  <1>6. MemOK(r.mem, D, {}) /\ NoNewGrants(mem, r.mem, D, D)
    BY <1>3, <1>4, <1>5, SharedMapping
  <1> QED
    BY <1>2, <1>6, ReturnWithMem DEF D, NoNewGrants

LEMMA PageUnmapMem ==
  ASSUME BaseInv, SchedInv, SchedInv', MemInv, NEW c \in CPUs, Entered(c), SysPageUnmap(c)
  PROVE  MemStep
  <1> DEFINE D == DirsOf(envs)
  <1>1. PICK e \in Named(c, TRUE), va \in UserVAs :
          ReturnWith(c, PageRemove(mem, PgdirOf(envs, e), va))
    BY DEF SysPageUnmap
  <1>2. PgdirOf(envs, e) \in D /\ MemOK(mem, D, {})
    <2>1. Serving(c)
      BY DEF SysPageUnmap, Calling
    <2> QED
      BY <2>1, ServingMem DEF MemInv, MemFits
  <1> HIDE DEF D
  <1>3. Removed(mem, D, {}, PageRemove(mem, PgdirOf(envs, e), va))
    BY <1>2, PageRemoveOK
  <1> QED
    BY <1>1, <1>3, ReturnWithMem DEF D, Removed, NoNewGrants

(* A send only wakes its receiver. *)
LEMMA DeliveredAlike ==
  ASSUME NEW es \in [Slots -> Envs], NEW cur \in Slots, NEW dst \in Slots,
         es[dst].env_status # "FREE", NEW value \in IpcValues, NEW perm
  PROVE  Alike(es, Delivered(es, cur, dst, value))
         /\ Alike(es, DeliveredPage(es, cur, dst, value, perm))
  <1> DEFINE d == Delivered(es, cur, dst, value)
  <1>1. d \in [Slots -> Envs]
    BY DeliveredType
  <1>2. Alike(es, d)
    BY DEF Delivered, Alike, Envs
  <1>3. DeliveredPage(es, cur, dst, value, perm) = [d EXCEPT ![dst].env_ipc_perm = perm]
    BY DEF DeliveredPage
  <1> HIDE DEF d
  <1>4. Alike(es, [d EXCEPT ![dst].env_ipc_perm = perm])
    BY <1>1, <1>2 DEF Alike, Envs
  <1> QED
    BY <1>2, <1>3, <1>4 DEF d


LEMMA IpcTrySendMem ==
  ASSUME ByTheBook, BaseInv, SchedInv, SchedInv', MemInv, NoWrap', NEW c \in CPUs, Entered(c),
         SysIpcTrySend(c)
  PROVE  MemStep
  <1> DEFINE D == DirsOf(envs)
             cur == Cur(c)
  <1>1. PICK dst \in Named(c, FALSE), value \in IpcValues, srcva \in VAs :
     \/ /\ Return(c, Delivered(Saved(c), cur, dst, value), cur)
        /\ mem' = mem
     \/ /\ BelowUTOP(srcva)
        /\ KeepsPageIfAsked(envs, dst)
        /\ \E perm \in Perms :
             /\ MayShare(mem, PgdirOf(envs, cur), srcva, perm)
             /\ \E r \in PageInsert(mem, PgdirOf(envs, dst),
                                    PageLookup(mem, PgdirOf(envs, cur), srcva),
                                    envs[dst].env_ipc_dstva, perm) :
                  /\ Return(c, IF r.ret = "OK"
                               THEN DeliveredPage(Saved(c), cur, dst, value, perm)
                               ELSE Saved(c), cur)
                  /\ mem' = r.mem
    BY DEF SysIpcTrySend
  <1>2. /\ dst \in Slots /\ envs[dst].env_status # "FREE"
        /\ PgdirOf(envs, dst) \in D /\ PgdirOf(envs, cur) \in D
        /\ MemOK(mem, D, {}) /\ envs[dst].env_ipc_dstva \in VAs
    <2>1. Serving(c)
      BY DEF SysIpcTrySend, Calling
    <2>2. dst \in Slots /\ envs[dst].env_status # "FREE" /\ PgdirOf(envs, dst) \in D
      BY <2>1, ServingMem
    <2> QED
      BY <2>2 DEF Entered, MemInv, MemFits, BaseInv, TypeOK, Envs
  <1>3. /\ cur \in Slots /\ Saved(c) \in [Slots -> Envs] /\ Alike(envs, Saved(c))
        /\ Saved(c)[cur].env_status # "FREE" /\ Saved(c)[dst].env_status # "FREE"
    BY <1>2 DEF Entered, Alike
  <1> HIDE DEF D
  <1>4. CASE Return(c, Delivered(Saved(c), cur, dst, value), cur) /\ mem' = mem
    <2>1. Delivered(Saved(c), cur, dst, value) \in [Slots -> Envs]
          /\ Alike(Saved(c), Delivered(Saved(c), cur, dst, value))
      BY <1>2, <1>3, DeliveredType, DeliveredAlike
    <2> QED
      BY <1>4, <2>1, QuietMem
  <1>5. CASE /\ BelowUTOP(srcva)
             /\ KeepsPageIfAsked(envs, dst)
             /\ \E perm \in Perms :
                  /\ MayShare(mem, PgdirOf(envs, cur), srcva, perm)
                  /\ \E r \in PageInsert(mem, PgdirOf(envs, dst),
                                         PageLookup(mem, PgdirOf(envs, cur), srcva),
                                         envs[dst].env_ipc_dstva, perm) :
                       /\ Return(c, IF r.ret = "OK"
                                    THEN DeliveredPage(Saved(c), cur, dst, value, perm)
                                    ELSE Saved(c), cur)
                       /\ mem' = r.mem
    <2>1. PICK perm \in Perms :
            /\ MayShare(mem, PgdirOf(envs, cur), srcva, perm)
            /\ \E r \in PageInsert(mem, PgdirOf(envs, dst),
                                   PageLookup(mem, PgdirOf(envs, cur), srcva),
                                   envs[dst].env_ipc_dstva, perm) :
                 /\ Return(c, IF r.ret = "OK"
                              THEN DeliveredPage(Saved(c), cur, dst, value, perm)
                              ELSE Saved(c), cur)
                 /\ mem' = r.mem
      BY <1>5
    <2> DEFINE p == PageLookup(mem, PgdirOf(envs, cur), srcva)
               dstva == envs[dst].env_ipc_dstva
               sent == DeliveredPage(Saved(c), cur, dst, value, perm)
    <2>2. PICK r \in PageInsert(mem, PgdirOf(envs, dst), p, dstva, perm) :
            Return(c, IF r.ret = "OK" THEN sent ELSE Saved(c), cur) /\ mem' = r.mem
      BY <2>1
    <2>3. srcva \in UserVAs
      BY <1>5, BelowUser
    <2>4. dstva \in UserVAs
      BY <1>2, <1>5, BelowUser DEF ByTheBook, KeepsPageIfAsked
    <2>5. perm \in SUBSET PermBits
      BY SyscallAssumption
    <2>6. Shareable(mem, D, p, perm)
      BY <1>2, <2>1, <2>3, ShareOK
    <2>7. Roomy(r.mem)
      BY <2>2, RoomyMem
    <2>8. sent \in [Slots -> Envs] /\ Alike(Saved(c), sent)
      BY <1>2, <1>3, <2>5, DeliveredPageType, DeliveredAlike
    <2> HIDE DEF p, dstva, sent
    <2>9. MemOK(mem', D, {}) /\ NoNewGrants(mem, mem', D, D)
      BY <1>2, <2>2, <2>4, <2>5, <2>6, <2>7, SharedMapping
    <2>10. ASSUME NEW es \in [Slots -> Envs], Alike(Saved(c), es), Return(c, es, cur)
           PROVE  MemStep
      <3>1. Alike(envs, es) /\ es[cur].env_status # "FREE"
        BY <1>3, <2>10 DEF Alike
      <3>2. Handled(es)
        BY <2>9, <3>1, MappedHandled DEF D, NoNewGrants
      <3> QED
        BY <2>10, <3>1, <3>2, LeaveCur
    <2>11. Alike(Saved(c), Saved(c))
      BY DEF Alike
    <2>12. CASE r.ret = "OK"
      BY <2>2, <2>8, <2>10, <2>12
    <2>13. CASE r.ret # "OK"
      BY <1>3, <2>2, <2>10, <2>11, <2>13
    <2> QED
      BY <2>12, <2>13
  <1> QED
    BY <1>1, <1>4, <1>5

LEMMA SyscallMem ==
  ASSUME ByTheBook, BaseInv, SchedInv, SchedInv', MemInv, NoWrap', NEW c \in CPUs, Syscall(c)
  PROVE  MemStep
  <1>1. Serving(c)
    BY DEF Syscall, SysNoEffect, SysYield, SysEnvDestroy, SysExofork, SysEnvSetStatus,
           SysEnvSetTrapframe, SysEnvSetPgfaultUpcall, SysPageAlloc, SysPageMap,
           SysPageUnmap, SysIpcTrySend, SysIpcRecv, Calling
  <1>2. /\ Entered(c) /\ Cur(c) \in Slots /\ Saved(c) \in [Slots -> Envs]
        /\ \A checkperm, e : e \in Named(c, checkperm) =>
             e \in Slots /\ envs[e].env_status # "FREE"
    BY <1>1, ServingMem DEF Entered
  <1>3. Alike(Saved(c), Saved(c))
    BY DEF Alike
  <1>4. CASE SysNoEffect(c)
    BY <1>2, <1>3, <1>4, QuietMem DEF SysNoEffect
  <1>5. CASE SysYield(c)
    BY <1>2, <1>3, <1>5, QuietMem DEF SysYield
  <1>6. CASE SysEnvDestroy(c)
    BY <1>2, <1>6, EnvDestroyMem DEF SysEnvDestroy
  <1>7. CASE SysExofork(c)
    BY <1>2, <1>7, ExoforkMem
  <1>8. CASE SysEnvSetStatus(c)
    <2>1. PICK e \in Named(c, TRUE), status \in {"RUNNABLE", "NOT_RUNNABLE"} :
            Return(c, [Saved(c) EXCEPT ![e].env_status = status], Cur(c))
      BY <1>8 DEF SysEnvSetStatus
    <2> DEFINE es == [Saved(c) EXCEPT ![e].env_status = status]
    <2>2. e \in Slots /\ Saved(c)[e].env_status # "FREE"
      BY <1>2 DEF Entered, Alike
    <2>3. es \in [Slots -> Envs]
      BY <1>2, <2>2, StatusType DEF EnvStatus
    <2>4. Alike(Saved(c), es)
      BY <1>2, <2>2 DEF Alike, Envs
    <2>5. Return(c, es, Cur(c)) /\ mem' = mem
      BY <1>8, <2>1 DEF SysEnvSetStatus
    <2> HIDE DEF es
    <2> QED
      BY <1>2, <2>3, <2>4, <2>5, QuietMem
  <1>9. CASE SysEnvSetTrapframe(c)
    BY <1>2, <1>9, SetTrapframeMem, DisciplinedUserTf DEF ByTheBook
  <1>10. CASE SysEnvSetPgfaultUpcall(c)
    <2>1. PICK e \in Named(c, TRUE), func \in BOOLEAN :
            Return(c, [Saved(c) EXCEPT ![e].env_pgfault_upcall = func], Cur(c))
      BY <1>10 DEF SysEnvSetPgfaultUpcall
    <2> DEFINE es == [Saved(c) EXCEPT ![e].env_pgfault_upcall = func]
    <2>2. es \in [Slots -> Envs]
      BY <1>2, FieldTypes
    <2>3. Alike(Saved(c), es)
      BY <1>2 DEF Alike, Envs
    <2>4. Return(c, es, Cur(c)) /\ mem' = mem
      BY <1>10, <2>1 DEF SysEnvSetPgfaultUpcall
    <2> HIDE DEF es
    <2> QED
      BY <1>2, <2>2, <2>3, <2>4, QuietMem
  <1>11. CASE SysPageAlloc(c) \/ SysPageMap(c) \/ SysPageUnmap(c)
    BY <1>2, <1>11, PageAllocMem, PageMapMem, PageUnmapMem
  <1>12. CASE SysIpcTrySend(c)
    BY <1>2, <1>12, IpcTrySendMem
  <1>13. CASE SysIpcRecv(c)
    <2>1. PICK dstva \in VAs :
            SchedYield(c, [Saved(c) EXCEPT ![Cur(c)].env_ipc_recving = TRUE,
                                           ![Cur(c)].env_ipc_dstva = dstva,
                                           ![Cur(c)].env_status = "NOT_RUNNABLE"], Cur(c))
      BY <1>13 DEF SysIpcRecv
    <2> DEFINE r == [Saved(c)[Cur(c)] EXCEPT !.env_ipc_recving = TRUE,
                                             !.env_ipc_dstva = dstva,
                                             !.env_status = "NOT_RUNNABLE"]
               es == [Saved(c) EXCEPT ![Cur(c)] = r]
    <2>2. SchedYield(c, es, Cur(c)) /\ mem' = mem
      BY <1>2, <1>13, <2>1 DEF SysIpcRecv
    <2>3. r \in Envs
      BY <1>2, ZenonT(30) DEF Envs, EnvStatus
    <2>4. r.env_pgdir = Saved(c)[Cur(c)].env_pgdir /\ r.env_status = "NOT_RUNNABLE"
      BY <1>2 DEF Envs
    <2> HIDE DEF r
    <2>5. es \in [Slots -> Envs] /\ Alike(Saved(c), es)
      BY <1>2, <2>3, <2>4 DEF Alike, Entered
    <2> HIDE DEF es
    <2> QED
      BY <1>2, <2>2, <2>5, QuietMem
  <1> QED
    BY <1>4, <1>5, <1>6, <1>7, <1>8, <1>9, <1>10, <1>11, <1>12, <1>13 DEF Syscall


LEMMA HandlerMem ==
  ASSUME ByTheBook, BaseInv, SchedInv, SchedInv', MemInv, NoWrap', NEW c \in CPUs, Handler(c)
  PROVE  MemStep
  <1>1. CASE SchedIdle(c)
    <2>1. /\ Cur(c) = NoEnv /\ cpus[c].at = "sched" /\ envs \in [Slots -> Envs]
          /\ mem' = mem /\ SchedYield(c, envs, NoEnv)
      BY <1>1 DEF SchedIdle, SchedInv, IdleNoEnv, BaseInv, TypeOK
    <2>2. Handled(envs)
      BY <2>1, QuietHandled DEF Alike
    <2> QED
      BY <2>1, <2>2, LeaveIdle
  <1>2. CASE Reap(c)
    <2> DEFINE e == Cur(c)  es == EnvFree(envs, e)
    <2>1. /\ cpus[c].at = "kernel" /\ envs[e].env_status # "FREE"
          /\ mem' = EnvFreeVm(mem, envs[e].env_pgdir) /\ SchedYield(c, es, NoEnv)
      BY <1>2 DEF Reap, EnvFreeRest
    <2>2. e \in Slots /\ envs \in [Slots -> Envs]
      BY <2>1, ServingType DEF BaseInv, TypeOK
    <2>3. es \in [Slots -> Envs]
      BY <2>2, EnvFreeType
    <2>4. Handled(es)
      BY <2>1, <2>2, FreeHandled DEF Alike
    <2> HIDE DEF es
    <2> QED
      BY <2>1, <2>3, <2>4, LeaveIdle
  <1>3. ASSUME Serving(c)
        PROVE  Entered(c) /\ Saved(c) \in [Slots -> Envs] /\ Alike(Saved(c), Saved(c))
               /\ Cur(c) \in Slots /\ envs[Cur(c)].env_status # "FREE"
    BY <1>3, ServingMem DEF Entered, Alike
  <1>4. CASE Timer(c)
    BY <1>3, <1>4, QuietMem DEF Timer
  <1>5. CASE UnexpectedTrap(c)
    BY <1>3, <1>5, EnvDestroyMem DEF UnexpectedTrap
  <1>6. CASE PageFaultHandler(c)
    <2>1. Serving(c)
      BY <1>6 DEF PageFaultHandler
    <2> DEFINE es == [Saved(c) EXCEPT ![Cur(c)].env_tf = "upcall"]
    <2>2. CASE EnvDestroy(c, Saved(c), Cur(c), Cur(c))
      BY <1>3, <2>1, <2>2, EnvDestroyMem
    <2>3. CASE EnvRun(c, es, Cur(c), Cur(c)) /\ mem' = mem
      <3>1. es \in [Slots -> Envs]
        BY <1>3, <2>1, TfType DEF Trapframes
      <3>2. Alike(Saved(c), es)
        BY <1>3, <2>1 DEF Alike, Envs
      <3> HIDE DEF es
      <3> QED
        BY <1>3, <2>1, <2>3, <3>1, <3>2, QuietMem
    <2>4. CASE Panic(c, Saved(c)) /\ mem' = mem
      BY <1>3, <2>1, <2>4, QuietMem
    <2> QED
      BY <1>6, <2>2, <2>3, <2>4 DEF PageFaultHandler
  <1>7. CASE Syscall(c)
    BY <1>7, SyscallMem
  <1> QED
    BY <1>1, <1>2, <1>4, <1>5, <1>6, <1>7 DEF Handler

LEMMA BootMem ==
  ASSUME BaseInv, SchedInv, SchedInv', MemInv, NoWrap', Boot
  PROVE  MemStep
  <1>1. CASE EnvCreate
    <2>1. PICK vm \in EnvSetupVm(mem) :
            LET e == Head(env_free_list)
            IN  /\ envs' = [EnvAlloc(envs, e, ZeroId, vm) EXCEPT ![e].env_tf = "entry"]
                /\ mem' = vm.mem
      BY <1>1 DEF EnvCreate
    <2> DEFINE e == Head(env_free_list)
               new == EnvAlloc(envs, e, ZeroId, vm)
    <2>2. /\ env_free_list \in Seq(Slots) /\ env_free_list # <<>>
          /\ envs \in [Slots -> Envs] /\ cpus' = cpus
      BY <1>1 DEF EnvCreate, BaseInv, TypeOK
    <2>3. e \in Slots /\ envs[e].env_status = "FREE"
      <3>1. e \in Slots /\ 1 \in DOMAIN env_free_list /\ env_free_list[1] = e
        BY <2>2
      <3> QED
        BY <3>1 DEF SchedInv, FreeListExact
    <2>4. /\ new \in [Slots -> Envs]
          /\ envs' = [new EXCEPT ![e].env_tf = "entry"] /\ mem' = vm.mem
      <3>1. vm.pgdir \in Pages
        BY EnvSetupVmType DEF BaseInv, TypeOK
      <3> QED
        BY <2>1, <2>2, <2>3, <3>1, ConstTypes, EnvAllocType
    <2>5. /\ \A s \in Slots \ {e} : new[s] = envs[s]
          /\ new[e].env_pgdir = vm.pgdir /\ new[e].env_status = "RUNNABLE"
      <3>1. vm.pgdir \in Pages
        BY EnvSetupVmType DEF BaseInv, TypeOK
      <3> QED
        BY <2>2, <2>3, <3>1, ConstTypes, EnvAllocType
    <2> HIDE DEF new, e
    <2>6. \A s \in Slots : /\ envs'[s].env_pgdir = new[s].env_pgdir
                           /\ envs'[s].env_status = new[s].env_status
      BY <2>3, <2>4 DEF Envs
    <2>7. Handled(envs')
      <3>1. /\ envs'[e].env_status # "FREE" /\ envs'[e].env_pgdir = vm.pgdir
            /\ \A s \in Slots \ {e} : envs'[s].env_pgdir = envs[s].env_pgdir
                                      /\ envs'[s].env_status = envs[s].env_status
        BY <2>3, <2>5, <2>6
      <3>2. Alike(envs, envs)
        BY DEF Alike
      <3> DEFINE es == envs'
      <3>3. /\ es[e].env_status # "FREE" /\ es[e].env_pgdir = vm.pgdir
            /\ \A s \in Slots \ {e} : es[s].env_pgdir = envs[s].env_pgdir
                                      /\ es[s].env_status = envs[s].env_status
        BY <3>1
      <3> HIDE DEF es
      <3>4. Handled(es)
        BY <2>2, <2>3, <2>4, <3>2, <3>3, AllocHandled
      <3> QED
        BY <3>4 DEF es
    <2>8. Cr3Own'
      <3>1. \A c \in CPUs : Cur(c) \in Slots => Cur(c) # e \/ cpus[c].cr3 = KernPgdir
        <4>1. ASSUME NEW c \in CPUs, Cur(c) = e, cpus[c].cr3 # KernPgdir
              PROVE  FALSE
          <5>1. cpus[c].cr3 = envs[e].env_pgdir
            BY <4>1 DEF MemInv, Cr3Own
          <5> QED
            BY <2>3, <4>1, <5>1 DEF MemInv, MemFits, FreeNoPgdir, KernPgdir
        <4> QED
          BY <4>1
      <3> QED
        BY <2>2, <2>5, <2>6, <3>1 DEF MemInv, Cr3Own, Cur
    <2> QED
      BY <2>7, <2>8 DEF MemStep, MemInv, Handled
  <1>2. CASE RegionAlloc
    <2> DEFINE D == DirsOf(envs)
    <2>1. PICK e \in Created : \E va \in Missing(e), a \in PageAlloc(mem) :
            \E r \in PageInsert(a.mem, envs[e].env_pgdir, a.pp, va, {"P", "W", "U"}) :
              r.ret = "OK" /\ mem' = r.mem
      BY <1>2 DEF RegionAlloc
    <2>2. PICK va \in Missing(e), a \in PageAlloc(mem) :
            \E r \in PageInsert(a.mem, envs[e].env_pgdir, a.pp, va, {"P", "W", "U"}) :
              r.ret = "OK" /\ mem' = r.mem
      BY <2>1
    <2>3. PICK r \in PageInsert(a.mem, envs[e].env_pgdir, a.pp, va, {"P", "W", "U"}) :
            r.ret = "OK" /\ mem' = r.mem
      BY <2>2
    <2>4. /\ envs[e].env_pgdir \in D /\ va \in UserVAs /\ MemOK(mem, D, {})
          /\ {"P", "W", "U"} \in SUBSET PermBits
      BY KernelAssumption DEF Created, Missing, DirsOf, PermBits, MemInv, MemFits
    <2> HIDE DEF D
    <2>5. Allocated(mem, D, {}, a.pp, a.mem)
      BY <2>4, PageAllocOK
    <2>6. /\ MemOK(a.mem, D, {a.pp}) /\ a.pp \in UserPages \ (D \cup Tabs(a.mem, D))
          /\ a.pp \notin a.mem.page_free_list /\ a.pp \in mem.page_free_list
          /\ NoNewGrants(mem, a.mem, D, D)
      <3>1. NoNewGrants(mem, a.mem, D, D)
        BY <2>4, <2>5, AllocGrants
      <3> QED
        BY <2>5, <3>1 DEF Allocated
    <2>7. Cardinality(Refs(r.mem, a.pp)) < REFMAX
      BY <2>3, <2>6, RoomyMem DEF Roomy
    <2>8. InsertResult(a.mem, D, {a.pp}, a.pp, {"P", "W", "U"}, r)
      BY <2>4, <2>6, <2>7, PageInsertOK
    <2>9. /\ MemOK(mem', D, {})
          /\ \A u \in UserPages : Grants(mem', D, u) => Grants(a.mem, D, u) \/ u = a.pp
      BY <2>3, <2>8 DEF InsertResult
    <2>10. \A p \in UserPages : p \notin mem.page_free_list /\ Grants(mem', D, p)
                                  => Grants(mem, D, p)
      BY <2>6, <2>9 DEF NoNewGrants
    <2>11. Handled(envs)
      BY <2>9, <2>10, MappedHandled DEF Alike, D
    <2>12. envs' = envs /\ cpus' = cpus
      BY <1>2 DEF RegionAlloc
    <2> QED
      BY <2>11, <2>12 DEF MemStep, MemInv, Handled, Cr3Own, Cur
  <1>3. CASE FirstSched
    <2>1. /\ BSP \in CPUs /\ cpus[BSP].at = "init" /\ Cur(BSP) = NoEnv
          /\ envs \in [Slots -> Envs] /\ mem' = mem /\ SchedYield(BSP, envs, NoEnv)
      BY <1>3, EnvAssumption
         DEF FirstSched, ApsBooted, SchedInv, IdleNoEnv, BaseInv, TypeOK
    <2>2. Handled(envs)
      BY <2>1, QuietHandled DEF Alike
    <2> QED
      BY <2>1, <2>2, LeaveIdle
  <1> QED
    BY <1>1, <1>2, <1>3 DEF Boot

(* A step that moves a CPU and touches neither environments nor memory. *)
LEMMA MoveMem ==
  ASSUME MemInv, UNCHANGED <<envs, mem>>,
         \A d \in CPUs : cpus'[d].cpu_env = cpus[d].cpu_env /\ cpus'[d].cr3 = cpus[d].cr3
  PROVE  MemStep
  <1>1. MemInv'
    BY DEF MemInv, Cr3Own, Cur
  <1>2. NoGains(envs', mem')
    BY DEF NoGains
  <1> QED
    BY <1>1, <1>2 DEF MemStep

LEMMA CpuStepMem ==
  ASSUME ByTheBook, BaseInv, SchedInv, SchedInv', MemInv, NoWrap', NEW c \in CPUs, CpuStep(c)
  PROVE  MemStep
  <1>1. cpus \in [CPUs -> Cpus]
    BY DEF BaseInv, TypeOK
  <1>2. ASSUME NEW at, cpus' = [cpus EXCEPT ![c].at = at]
        PROVE  \A d \in CPUs : cpus'[d].cpu_env = cpus[d].cpu_env /\ cpus'[d].cr3 = cpus[d].cr3
    BY <1>1, <1>2 DEF Cpus
  <1>3. ASSUME NEW at, NEW st, cpus' = [cpus EXCEPT ![c].cpu_status = st, ![c].at = at]
        PROVE  \A d \in CPUs : cpus'[d].cpu_env = cpus[d].cpu_env /\ cpus'[d].cr3 = cpus[d].cr3
    BY <1>1, <1>3 DEF Cpus
  <1>4. CASE MpMain(c)
    BY <1>3, <1>4, MoveMem DEF MpMain
  <1>5. CASE TrapFromUser(c)
    BY <1>2, <1>5, MoveMem DEF TrapFromUser
  <1>6. CASE TrapFromHalt(c)
    BY <1>2, <1>3, <1>6, MoveMem DEF TrapFromHalt
  <1>7. CASE LockKernel(c)
    BY <1>2, <1>7, MoveMem DEF LockKernel
  <1>8. CASE Handler(c)
    BY <1>8, HandlerMem
  <1>9. CASE EnvPopTf(c)
    BY <1>2, <1>9, MoveMem DEF EnvPopTf
  <1>10. CASE Monitor(c)
    BY <1>10, MoveMem DEF Monitor, vars
  <1> QED
    BY <1>4, <1>5, <1>6, <1>7, <1>8, <1>9, <1>10 DEF CpuStep

LEMMA InitMem ==
  ASSUME Init
  PROVE  MemInv
  <1>1. \A s \in Slots : envs[s].env_status = "FREE" /\ envs[s].env_pgdir = NullPage
    BY DEF Init, EnvInit
  <1>2. DirsOf(envs) = {}
    BY <1>1 DEF DirsOf
  <1>3. MemFits(envs, mem)
    BY <1>1, <1>2, MemInitOK DEF Init, MemFits, FreeNoPgdir, OwnPgdir
  <1>4. Cr3Own
    BY DEF Init, Cr3Own
  <1> QED
    BY <1>3, <1>4 DEF MemInv

LEMMA NextMem ==
  ASSUME ByTheBook, BaseInv, SchedInv, SchedInv', MemInv, NoWrap', [Next]_vars
  PROVE  MemStep
  <1>1. CASE Boot
    BY <1>1, BootMem
  <1>2. ASSUME NEW c \in CPUs, CpuStep(c) PROVE MemStep
    BY <1>2, CpuStepMem
  <1>3. CASE UNCHANGED vars
    BY <1>3, MoveMem DEF vars
  <1> QED
    BY <1>1, <1>2, <1>3 DEF Next

-----------------------------------------------------------------------------
(* The memory of the kernel is sound, for programs that keep the           *)
(* conventions, as long as no count of mappings wraps around.              *)
THEOREM MemInvariant ==
  ASSUME ByTheBook
  PROVE  Spec /\ []NoWrap => []MemInv
  <1>1. Init => MemInv
    BY InitMem
  <1>2. BaseInv /\ SchedInv /\ SchedInv' /\ MemInv /\ NoWrap' /\ [Next]_vars => MemInv'
    BY NextMem, ByTheBook DEF MemStep
  <1>3. Disciplined
    BY ByTheBook DEF ByTheBook
  <1>4. Spec => []SchedInv
    BY <1>3, SchedInvariant
  <1> QED
    BY <1>1, <1>2, <1>3, <1>4, BaseInvariant, DisciplinedUserTf, PTL DEF Spec


\* The same when no page can have that many mappings.
LEMMA RoomForAll ==
  ASSUME Cardinality(Pages \X Index) < REFMAX
  PROVE  NoWrap
  <1>1. IsFiniteSet(Pages \X Index)
    <2>1. IsFiniteSet(DX) /\ IsFiniteSet(TX)
      BY PmapAssumption, FS_Interval DEF DX, TX
    <2>2. IsFiniteSet(Index)
      BY <2>1, FS_Union, FS_Singleton DEF Index
    <2> QED
      BY <2>2, PmapAssumption, FS_Product
  <1>2. ASSUME NEW p \in UserPages
        PROVE  Cardinality(EntriesTo(p)) <= Cardinality(Pages \X Index)
    <2>1. EntriesTo(p) \subseteq Pages \X Index
      BY DEF EntriesTo
    <2> QED
      BY <1>1, <2>1, FS_Subset
  <1>3. /\ Cardinality(Pages \X Index) \in Nat
        /\ \A p \in UserPages : Cardinality(EntriesTo(p)) \in Nat
    <2>1. ASSUME NEW p \in UserPages PROVE Cardinality(EntriesTo(p)) \in Nat
      BY RefsFinite, ZenonT(30) DEF EntriesTo, Refs, Points
    <2> QED
      BY <1>1, <2>1, FS_CardinalityType
  <1> QED
    BY <1>2, <1>3, PmapAssumption DEF NoWrap

LEMMA OwnerDirs ==
  ASSUME MemInv
  PROVE  \A e \in Owners : envs[e].env_status # "FREE" /\ envs[e].env_pgdir \in DirsOf(envs)
  BY DEF Owners, MemInv, MemFits, FreeNoPgdir, DirsOf

LEMMA RefsExactInv ==
  ASSUME MemInv
  PROVE  RefsExact
  <1> SUFFICES ASSUME NEW p \in UserPages
               PROVE  /\ mem.pp_ref[p] = Cardinality(EntriesTo(p)) + Cardinality(DirectoriesAt(p))
                      /\ p \in mem.page_free_list <=> mem.pp_ref[p] = 0
    BY DEF RefsExact
  <1>1. EntriesTo(p) = Refs(mem, p)
    BY DEF EntriesTo, Refs, Points
  <1>2. Cardinality(DirectoriesAt(p)) = IF p \in DirsOf(envs) THEN 1 ELSE 0
    <2>1. p # NullPage
      BY DEF UserPages, KernelPages
    <2>2. CASE p \in DirsOf(envs)
      <3>1. PICK s \in Slots : envs[s].env_status # "FREE" /\ envs[s].env_pgdir = p
        BY <2>2 DEF DirsOf
      <3>2. DirectoriesAt(p) = {s}
        BY <3>1 DEF DirectoriesAt, MemInv, MemFits, OwnPgdir
      <3> QED
        BY <2>2, <3>2, FS_Singleton
    <2>3. CASE p \notin DirsOf(envs)
      <3>1. DirectoriesAt(p) = {}
        BY <2>1, <2>3 DEF DirectoriesAt, DirsOf, MemInv, MemFits, FreeNoPgdir
      <3> QED
        BY <2>3, <3>1, FS_EmptySet
    <2> QED
      BY <2>2, <2>3
  <1>3. /\ mem.pp_ref[p] = RefCount(mem, DirsOf(envs), p)
        /\ p \in mem.page_free_list <=> mem.pp_ref[p] = 0
    BY DEF MemInv, MemFits, MemOK, CountsOK
  <1> QED
    BY <1>1, <1>2, <1>3 DEF RefCount

LEMMA KernelMappedInv ==
  ASSUME MemInv
  PROVE  KernelMapped
  BY OwnerDirs DEF KernelMapped, MemInv, MemFits, MemOK, KernOK

LEMMA TablesPrivateInv ==
  ASSUME MemInv
  PROVE  TablesPrivate
  <1> DEFINE D == DirsOf(envs)
  <1>1. /\ MemOK(mem, D, {}) /\ PdesOK(mem, D) /\ OwnPgdir(envs)
        /\ \A e \in Owners : envs[e].env_status # "FREE" /\ envs[e].env_pgdir \in D
    BY OwnerDirs DEF MemInv, MemFits, MemOK, Shape
  <1> HIDE DEF D
  <1>2. \A e \in Owners : \A p \in DataPages(e) : p \in UserPages \ (D \cup Tabs(mem, D))
    BY <1>1, LookupOK DEF DataPages
  <1>3. \A e \in Owners : \A t \in TablePages(e) :
          /\ t \in Tabs(mem, D) /\ t \in UserPages \ D
          /\ \E i \in DX : Points(mem, envs[e].env_pgdir, i, t)
                           /\ Present(mem.word[envs[e].env_pgdir][i])
    <2>1. SUFFICES ASSUME NEW e \in Owners, NEW i \in DX,
                          Present(mem.word[envs[e].env_pgdir][i]),
                          NEW t, t = mem.word[envs[e].env_pgdir][i].page
                   PROVE  /\ t \in Tabs(mem, D) /\ t \in UserPages \ D
                          /\ Points(mem, envs[e].env_pgdir, i, t)
      BY DEF TablePages, Tables
    <2>2. t \in UserPages \ D /\ Points(mem, envs[e].env_pgdir, i, t)
      BY <1>1, <2>1 DEF PdesOK, Points
    <2> QED
      BY <1>1, <2>2 DEF Tabs, UserPages
  <1>4. ASSUME NEW e \in Owners, NEW f \in Owners
        PROVE  DataPages(e) \cap (TablePages(f) \cup {envs[f].env_pgdir} \cup KernelPages) = {}
    BY <1>1, <1>2, <1>3 DEF UserPages
  <1>5. ASSUME NEW e \in Owners, NEW f \in Owners
        PROVE  TablePages(e) \cap ({envs[f].env_pgdir} \cup KernelPages) = {}
    BY <1>1, <1>3 DEF UserPages
  <1>6. ASSUME NEW e \in Owners, NEW f \in Owners, e # f
        PROVE  envs[e].env_pgdir # envs[f].env_pgdir /\ TablePages(e) \cap TablePages(f) = {}
    <2>1. e \in Slots /\ f \in Slots
      BY DEF Owners
    <2>2. envs[e].env_pgdir # envs[f].env_pgdir
      BY <1>1, <1>6, <2>1 DEF OwnPgdir
    <2>3. ASSUME NEW t \in TablePages(e), t \in TablePages(f) PROVE FALSE
      BY <1>1, <1>3, <2>2, <2>3, SMTT(30) DEF PdesOK, Points
    <2> QED
      BY <2>2, <2>3
  <1> QED
    BY <1>4, <1>5, <1>6 DEF TablesPrivate

LEMMA Cr3LiveInv ==
  ASSUME MemInv
  PROVE  Cr3Live
  <1> SUFFICES ASSUME NEW c \in CPUs, cpus[c].cr3 # KernPgdir
               PROVE  /\ Cur(c) \in Slots /\ cpus[c].cr3 = envs[Cur(c)].env_pgdir
                      /\ cpus[c].cr3 \notin mem.page_free_list
    BY DEF Cr3Live
  <1>1. Cur(c) \in Slots /\ cpus[c].cr3 = envs[Cur(c)].env_pgdir
    BY DEF MemInv, Cr3Own
  <1> DEFINE D == DirsOf(envs)  d == cpus[c].cr3
  <1>2. d \in D /\ MemOK(mem, D, {})
    BY <1>1 DEF MemInv, MemFits, FreeNoPgdir, DirsOf, KernPgdir
  <1> HIDE DEF D, d
  <1>3. d \in UserPages
    BY <1>2 DEF MemOK, Shape, PdesOK
  <1>4. mem.pp_ref[d] # 0
    BY <1>2, <1>3, UnusedPage
  <1>5. d \notin mem.page_free_list
    BY <1>2, <1>3, <1>4 DEF MemOK, CountsOK
  <1> QED
    BY <1>1, <1>5 DEF d

\* Writable is what the page tables grant.
GrantedOnly == \A p \in UserPages : Writable(p) <=> Grants(mem, DirsOf(envs), p)

LEMMA WritableInv ==
  ASSUME MemInv
  PROVE  GrantedOnly
  <1> SUFFICES ASSUME NEW p \in UserPages
               PROVE  Writable(p) <=> Grants(mem, DirsOf(envs), p)
    BY DEF GrantedOnly
  <1> DEFINE D == DirsOf(envs)
  <1>1. MemOK(mem, D, {}) /\ \A e \in Owners : envs[e].env_pgdir \in D
    BY OwnerDirs DEF MemInv, MemFits
  <1>2. p # NullPage
    BY DEF UserPages, KernelPages
  <1>3. ASSUME Writable(p) PROVE Grants(mem, D, p)
    <2>1. PICK e \in Owners, va \in UserVAs :
            /\ PageLookup(mem, envs[e].env_pgdir, va) = p
            /\ "W" \in Pte(mem, envs[e].env_pgdir, va).perm
      BY <1>3 DEF Writable
    <2> HIDE DEF D
    <2> QED
      BY <1>1, <1>2, <2>1, LookupOK
  <1>4. ASSUME Grants(mem, D, p) PROVE Writable(p)
    <2>1. PICK t \in Tabs(mem, D), x \in TX :
            Points(mem, t, x, p) /\ "W" \in mem.word[t][x].perm
      BY <1>4 DEF Grants
    <2>2. PICK d \in D, i \in DX : Points(mem, d, i, t)
      BY DEF Tabs
    <2>3. PICK e \in Slots : envs[e].env_status # "FREE" /\ envs[e].env_pgdir = d
      BY DEF DirsOf
    <2>4. e \in Owners
      BY <2>3 DEF Owners, MemInv, MemFits, FreeNoPgdir
    <2> DEFINE va == <<i, x>>
    <2>5. va \in UserVAs /\ PDX(va) = i /\ PTX(va) = x
      BY DEF UserVAs, PDX, PTX
    <2> HIDE DEF va, D
    <2>6. Pte(mem, d, va) = mem.word[t][x] /\ PageLookup(mem, d, va) = p
      BY <2>1, <2>2, <2>5 DEF Pte, PageLookup, Points
    <2> QED
      BY <2>1, <2>3, <2>4, <2>5, <2>6 DEF Writable
  <1> QED
    BY <1>3, <1>4

(* pp_ref always is the number of pointers to a page, and a page is on the *)
(* free list exactly when there is none: no path through a system call, a  *)
(* trap or an exit leaks a page or frees one that is still mapped.         *)
THEOREM RefsExactHolds ==
  ASSUME ByTheBook
  PROVE  Spec /\ []NoWrap => []RefsExact
  <1>1. MemInv => RefsExact
    BY RefsExactInv
  <1> QED
    BY <1>1, MemInvariant, PTL

(* The same without the proviso, when the entries of all pages together    *)
(* are fewer than the values of pp_ref.                                    *)
THEOREM RefsExactIfRoom ==
  ASSUME ByTheBook, Cardinality(Pages \X Index) < REFMAX
  PROVE  Spec => []RefsExact
  <1>1. NoWrap
    BY RoomForAll
  <1>2. Spec /\ []NoWrap => []RefsExact
    BY RefsExactHolds
  <1> QED
    BY <1>1, <1>2, PTL

(* The kernel's own mappings never change and its pages are never handed   *)
(* out: every address space keeps the kernel's table at UTOP.              *)
THEOREM KernelMappedHolds ==
  ASSUME ByTheBook
  PROVE  Spec /\ []NoWrap => []KernelMapped
  <1>1. MemInv => KernelMapped
    BY KernelMappedInv
  <1> QED
    BY <1>1, MemInvariant, PTL

(* No program can map a page directory, a page table or a page of the      *)
(* kernel, and no two environments share a page table.                     *)
THEOREM TablesPrivateHolds ==
  ASSUME ByTheBook
  PROVE  Spec /\ []NoWrap => []TablesPrivate
  <1>1. MemInv => TablesPrivate
    BY TablesPrivateInv
  <1> QED
    BY <1>1, MemInvariant, PTL

(* No CPU, running, trapping or halted, has a freed page directory loaded. *)
THEOREM Cr3LiveHolds ==
  ASSUME ByTheBook
  PROVE  Spec /\ []NoWrap => []Cr3Live
  <1>1. MemInv => Cr3Live
    BY Cr3LiveInv
  <1> QED
    BY <1>1, MemInvariant, PTL

(* A page in use that no program can write stays so until it is freed: no  *)
(* sequence of page_map and ipc_try_send calls adds a permission.          *)
THEOREM ReadOnlyStaysHolds ==
  ASSUME ByTheBook
  PROVE  Spec /\ []NoWrap => ReadOnlyStays
  <1>1. MemInv => GrantedOnly
    BY WritableInv
  <1>2. /\ BaseInv /\ SchedInv /\ SchedInv' /\ MemInv /\ NoWrap' /\ [Next]_vars
        /\ GrantedOnly /\ GrantedOnly'
        => [\A p \in UserPages :
              p \notin mem.page_free_list /\ ~Writable(p) => ~Writable(p)']_vars
    <2> SUFFICES ASSUME BaseInv, SchedInv, SchedInv', MemInv, NoWrap', [Next]_vars,
                        GrantedOnly, GrantedOnly', NEW p \in UserPages,
                        p \notin mem.page_free_list, ~Writable(p)
                 PROVE  ~Writable(p)'
      OBVIOUS
    <2>1. NoGains(envs', mem')
      BY NextMem, ByTheBook DEF MemStep
    <2>2. ~Grants(mem, DirsOf(envs), p)
      BY DEF GrantedOnly
    <2>3. ~Grants(mem', DirsOf(envs'), p)
      BY <2>1, <2>2 DEF NoGains
    <2>4. Writable(p)' <=> Grants(mem', DirsOf(envs'), p)
      BY DEF GrantedOnly
    <2> QED
      BY <2>3, <2>4
  <1>3. Disciplined
    BY ByTheBook DEF ByTheBook
  <1>4. Spec => []SchedInv
    BY <1>3, SchedInvariant
  <1> QED
    BY <1>1, <1>2, <1>3, <1>4, BaseInvariant, DisciplinedUserTf, MemInvariant, PTL DEF Spec, ReadOnlyStays

=============================================================================
