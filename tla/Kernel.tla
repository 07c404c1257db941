------------------------------- MODULE Kernel --------------------------------
(***************************************************************************)
(* The kernel as a whole: booting (kern/init.c), the big kernel lock       *)
(* (kern/spinlock.c) and traps (kern/trap.c), over the system calls of     *)
(* Syscall. What user programs do between two traps is not represented:    *)
(* any CPU in user mode may trap at any time, for any of the reasons in    *)
(* Traps or with any of the calls in Syscalls.                             *)
(***************************************************************************)
EXTENDS Syscall

CONSTANTS
  NBOOT,    \* environments created by i386_init
  Image,    \* the pages load_icode maps into each of them
  XStack,   \* the page of the user exception stack
  Traps     \* the exceptions of user programs: a subset of TrapCauses

TrapCauses == {"pgflt", "unexpected"}

ASSUME KernelAssumption ==
  /\ NBOOT \in 1 .. NENV
  /\ Image \subseteq UserVAs
  /\ XStack \in UserVAs
  /\ Traps \subseteq TrapCauses

-----------------------------------------------------------------------------
(* Booting. The BSP takes the lock before it wakes the other CPUs, and     *)
(* keeps it until its first environment runs.                              *)

Init ==
  /\ EnvInit
  /\ mem = MemInit
  /\ kernel_lock = BSP
  /\ panicstr = FALSE
  /\ cpus = [c \in CPUs |->
       [cpu_status |-> IF c = BSP THEN "STARTED" ELSE "UNUSED",
        cpu_env |-> NoEnv, cr3 |-> KernPgdir,
        at |-> IF c = BSP THEN "init" ELSE "off"]]

\* mp_main, up to lock_kernel().
MpMain(c) ==
  /\ cpus[c].at = "off"
  /\ cpus' = [cpus EXCEPT ![c].cpu_status = "STARTED", ![c].at = "wait"]
  /\ UNCHANGED <<envs, env_free_list, kernel_lock, mem, panicstr>>

\* boot_aps has returned: every CPU has reported CPU_STARTED.
ApsBooted == cpus[BSP].at = "init" /\ \A c \in CPUs : cpus[c].cpu_status = "STARTED"

Created == {e \in Slots : envs[e].env_status # "FREE"}
Missing(e) == {va \in Image : PageLookup(mem, envs[e].env_pgdir, va) = NullPage}
AllLoaded == \A e \in Created : Missing(e) = {}

\* env_create: env_alloc with parent 0; load_icode sets the entry point.
EnvCreate ==
  /\ ApsBooted /\ AllLoaded
  /\ Cardinality(Created) < NBOOT
  /\ env_free_list # <<>>
  /\ \E vm \in EnvSetupVm(mem) :
       LET e == Head(env_free_list)
       IN  /\ envs' = [EnvAlloc(envs, e, ZeroId, vm) EXCEPT ![e].env_tf = "entry"]
           /\ env_free_list' = Tail(env_free_list)
           /\ mem' = vm.mem
  /\ UNCHANGED <<cpus, kernel_lock, panicstr>>

\* One page of load_icode's region_alloc calls.
RegionAlloc ==
  /\ ApsBooted
  /\ \E e \in Created :
       \E va \in Missing(e), a \in PageAlloc(mem) :
         \E r \in PageInsert(a.mem, envs[e].env_pgdir, a.pp, va, {"P", "W", "U"}) :
           r.ret = "OK" /\ mem' = r.mem
  /\ UNCHANGED <<envs, env_free_list, cpus, kernel_lock, panicstr>>

\* The end of i386_init.
FirstSched ==
  /\ ApsBooted /\ AllLoaded
  /\ Cardinality(Created) = NBOOT
  /\ SchedYield(BSP, envs, Cur(BSP))
  /\ UNCHANGED <<env_free_list, mem>>

Boot == EnvCreate \/ RegionAlloc \/ FirstSched

-----------------------------------------------------------------------------
(* Traps, up to the kernel lock. *)

\* A CPU that traps after a panic halts, with interrupts off.  In user mode its
\* cpu_status is STARTED, so trap() does not take the lock twice.
TrapFromUser(c) ==
  /\ cpus[c].at = "user"
  /\ cpus' = [cpus EXCEPT ![c].at = IF panicstr THEN "dead" ELSE "trap"]
  /\ UNCHANGED <<envs, env_free_list, kernel_lock, mem, panicstr>>

\* Faulty: a woken CPU does not take the lock again.
TrapFromHaltUnlocked(c) ==
  /\ cpus[c].at = "halt"
  /\ cpus' = [cpus EXCEPT ![c].cpu_status = "STARTED", ![c].at = "sched"]
  /\ UNCHANGED <<envs, env_free_list, kernel_lock, mem, panicstr>>

\* An interrupt wakes a halted CPU: cpu_status tells trap() to take the lock.
TrapFromHalt(c) ==
  /\ cpus[c].at = "halt"
  /\ \/ /\ panicstr
        /\ cpus' = [cpus EXCEPT ![c].at = "dead"]
     \/ /\ ~panicstr
        /\ cpus' = [cpus EXCEPT
             ![c].cpu_status = "STARTED",
             ![c].at = IF cpus[c].cpu_status = "HALTED" THEN "wait" ELSE "sched"]
  /\ UNCHANGED <<envs, env_free_list, kernel_lock, mem, panicstr>>

\* lock_kernel: the exchange that finds the lock free.
LockKernel(c) ==
  /\ cpus[c].at \in {"trap", "wait"}
  /\ kernel_lock = NoCpu
  /\ kernel_lock' = c
  /\ cpus' = [cpus EXCEPT ![c].at = IF @ = "trap" THEN "kernel" ELSE "sched"]
  /\ UNCHANGED <<envs, env_free_list, mem, panicstr>>

-----------------------------------------------------------------------------
(* Traps, from the kernel lock on. *)

\* mp_main, or the interrupt of a halted CPU: nothing to return to.
SchedIdle(c) ==
  /\ cpus[c].at = "sched"
  /\ SchedYield(c, envs, Cur(c))
  /\ UNCHANGED <<env_free_list, mem>>

\* Faulty: a zombie is descheduled but not freed.
ReapForgets(c) ==
  /\ cpus[c].at = "kernel"
  /\ envs[Cur(c)].env_status = "DYING"
  /\ SchedYield(c, envs, NoEnv)
  /\ UNCHANGED <<env_free_list, mem>>

\* The current environment was destroyed by another CPU while it ran.
Reap(c) ==
  /\ cpus[c].at = "kernel"
  /\ envs[Cur(c)].env_status = "DYING"
  /\ EnvFreeRest(envs, Cur(c))
  /\ SchedYield(c, EnvFree(envs, Cur(c)), NoEnv)

\* Keyboard, serial and spurious interrupts, and breakpoints once the operator
\* has left the monitor, return to the environment as SysNoEffect does.
Timer(c) ==
  /\ Serving(c)
  /\ SchedYield(c, Saved(c), Cur(c))
  /\ UNCHANGED <<env_free_list, mem>>

\* Any other exception of a user program.
UnexpectedTrap(c) ==
  /\ Serving(c) /\ "unexpected" \in Traps
  /\ EnvDestroy(c, Saved(c), Cur(c), Cur(c))

\* page_fault_handler; overflow: the frame would cross into the page below
\* the exception stack, which no program maps.
PageFaultHandler(c) ==
  /\ Serving(c) /\ "pgflt" \in Traps
  /\ \E overflow \in BOOLEAN :
       LET pgdir == PgdirOf(envs, Cur(c))
           passes == /\ envs[Cur(c)].env_pgfault_upcall
                     /\ ~overflow
                     /\ UserMemCheck(mem, pgdir, XStack, {"P", "W", "U"})
       IN  \/ ~passes /\ EnvDestroy(c, Saved(c), Cur(c), Cur(c))
           \/ /\ passes /\ KernelCanWrite(mem, pgdir, XStack)
              /\ EnvRun(c, [Saved(c) EXCEPT ![Cur(c)].env_tf = "upcall"], Cur(c), Cur(c))
              /\ UNCHANGED <<env_free_list, mem>>
           \/ /\ passes /\ ~KernelCanWrite(mem, pgdir, XStack)
              /\ Panic(c, Saved(c))
              /\ UNCHANGED <<env_free_list, mem>>

\* sched_halt and _panic end in a loop around monitor().
Monitor(c) == cpus[c].at \in {"monitor", "panic"} /\ UNCHANGED vars

-----------------------------------------------------------------------------
Handler(c) ==
  \/ SchedIdle(c) \/ Reap(c) \/ Timer(c) \/ UnexpectedTrap(c)
  \/ PageFaultHandler(c) \/ Syscall(c)

CpuStep(c) ==
  \/ MpMain(c) \/ TrapFromUser(c) \/ TrapFromHalt(c) \/ LockKernel(c)
  \/ Handler(c) \/ EnvPopTf(c) \/ Monitor(c)

Next == Boot \/ \E c \in CPUs : CpuStep(c)

Spec == Init /\ [][Next]_vars

(***************************************************************************)
(* Fairness: CPUs do not stop by themselves (weak fairness of every step), *)
(* the LAPIC timer keeps interrupting every CPU (so a halted CPU wakes, a  *)
(* CPU in user mode traps, and one that keeps entering the kernel does so  *)
(* again and again because of the timer), and a spinning CPU is not        *)
(* overtaken at the lock for ever (spin_lock itself has no queue).         *)
(***************************************************************************)
Fairness ==
  /\ WF_vars(Boot)
  /\ \A c \in CPUs :
       /\ WF_vars(MpMain(c)) /\ WF_vars(EnvPopTf(c))
       /\ WF_vars(TrapFromUser(c)) /\ WF_vars(TrapFromHalt(c))
       /\ WF_vars(Handler(c))
       /\ SF_vars(LockKernel(c))
       /\ SF_vars(Timer(c))

FairSpec == Spec /\ Fairness

-----------------------------------------------------------------------------
(* Properties. *)

TypeOK ==
  /\ envs \in [Slots -> Envs]
  /\ env_free_list \in Seq(Slots)
  /\ cpus \in [CPUs -> Cpus]
  /\ kernel_lock \in CPUs \cup {NoCpu}
  /\ mem \in Memory
  /\ panicstr \in BOOLEAN

InKernel == {"init", "sched", "kernel", "monitor", "panic"}

\* The CPU has an environment, or had one when it stopped.
Runs(c) ==
  /\ cpus[c].at \in {"user", "trap", "kernel", "pop", "panic", "dead"}
  /\ Cur(c) # NoEnv

(* A CPU is between lock_kernel() and unlock_kernel() exactly while it     *)
(* holds the lock, through halting, waking and dying environments. Leaving *)
(* the kernel by sched_halt must set cpu_status for the next trap to take  *)
(* the lock again, and no other path may.                                  *)
KernelMutex == \A c \in CPUs : cpus[c].at \in InKernel <=> kernel_lock = c

(* No environment runs on two CPUs at once (sched.c: "Never choose an      *)
(* environment that's currently running on another CPU").                  *)
OneCpuPerEnv ==
  \A c, d \in CPUs : Runs(c) /\ Runs(d) /\ c # d => Cur(c) # Cur(d)

(* env_status and the CPUs' curenv agree: what a CPU runs is RUNNING or    *)
(* DYING, never freed or queued again under its feet; and whatever has one *)
(* of those states is on a CPU, so that it can still be descheduled or     *)
(* reaped.                                                                 *)
StatusMatchesCpus ==
  /\ \A c \in CPUs : Runs(c) => envs[Cur(c)].env_status \in {"RUNNING", "DYING"}
  /\ \A e \in Slots : envs[e].env_status \in {"RUNNING", "DYING"} =>
       \E c \in CPUs : Runs(c) /\ Cur(c) = e

(* env_free_list holds every free slot exactly once and no other, whatever *)
(* the order of exits, deferred destroys and forks.                        *)
FreeListExact ==
  /\ \A i, j \in DOMAIN env_free_list : env_free_list[i] = env_free_list[j] => i = j
  /\ \A e \in Slots :
       envs[e].env_status = "FREE" <=> \E i \in DOMAIN env_free_list : env_free_list[i] = e

(* A CPU never runs on a page directory that was freed: cr3 is kern_pgdir  *)
(* or the directory of the CPU's own live environment. env_free of an      *)
(* environment on another CPU, or a sched_halt that keeps the old cr3,     *)
(* would break it.                                                         *)
Cr3Live ==
  \A c \in CPUs :
    \/ cpus[c].cr3 = KernPgdir
    \/ /\ Cur(c) \in Slots
       /\ cpus[c].cr3 = envs[Cur(c)].env_pgdir
       /\ cpus[c].cr3 \notin mem.page_free_list

(* A CPU enters the monitor for good, and with the lock, only when nothing *)
(* is left that could run: no environment is runnable, and no other CPU    *)
(* has one that it would never bring back into the kernel.                 *)
MonitorIsFinal ==
  \A c \in CPUs : cpus[c].at = "monitor" =>
    Runnable(envs) = {} /\ \A d \in CPUs : ~Runs(d)

(* An environment that is blocked in sys_ipc_recv is not runnable until a  *)
(* message arrives, so no send can wake one that already runs.             *)
RecvBlocked ==
  \A e \in Slots :
    envs[e].env_ipc_recving /\ envs[e].env_status # "FREE" =>
      envs[e].env_status = "NOT_RUNNABLE"

(* env_run releases the lock before env_pop_tf reads the trap frame; no    *)
(* other CPU writes that frame in between.                                 *)
PopStable ==
  [][\A c \in CPUs : cpus[c].at = "pop" =>
       envs'[Cur(c)].env_tf = envs[Cur(c)].env_tf]_vars

-----------------------------------------------------------------------------
(* Memory. *)

Owners == {e \in Slots : envs[e].env_pgdir # NullPage}

\* The pointers to a page that pp_ref counts: entries of page directories and
\* page tables, and env_pgdir fields.
EntriesTo(p) ==
  {r \in Pages \X Index :
     Present(mem.word[r[1]][r[2]]) /\ mem.word[r[1]][r[2]].page = p}
DirectoriesAt(p) == {e \in Slots : envs[e].env_pgdir = p}

(* pp_ref is the number of pointers to a page (memlayout.h: "the count of  *)
(* pointers (usually in page table entries) to this page"), and a page is  *)
(* on the free list exactly when there is none: no leak, no early free, no *)
(* double free in page_free, on every path that ends in -E_NO_MEM too.     *)
RefsExact ==
  \A p \in UserPages :
    /\ mem.pp_ref[p] = Cardinality(EntriesTo(p)) + Cardinality(DirectoriesAt(p))
    /\ p \in mem.page_free_list <=> mem.pp_ref[p] = 0

TablePages(e) ==
  {mem.word[envs[e].env_pgdir][i].page : i \in Tables(mem, envs[e].env_pgdir)}
DataPages(e) ==
  {PageLookup(mem, envs[e].env_pgdir, va) : va \in UserVAs} \ {NullPage}

(* What a program can map is data: never a page directory, a page table or *)
(* a page of the kernel, and no two environments share a page table.       *)
TablesPrivate ==
  \A e, f \in Owners :
    /\ DataPages(e) \cap (TablePages(f) \cup {envs[f].env_pgdir} \cup KernelPages) = {}
    /\ TablePages(e) \cap ({envs[f].env_pgdir} \cup KernelPages) = {}
    /\ e # f => envs[e].env_pgdir # envs[f].env_pgdir /\ TablePages(e) \cap TablePages(f) = {}

(* The kernel's own mappings above UTOP never change, and the page that    *)
(* holds envs is never handed out by the allocator.                        *)
KernelMapped ==
  /\ mem.word[KernPT] = KernTable
  /\ KernelPages \cap mem.page_free_list = {}
  /\ \A e \in Owners : mem.word[envs[e].env_pgdir][KDX].page = KernPT

Writable(p) ==
  \E e \in Owners, va \in UserVAs :
    /\ PageLookup(mem, envs[e].env_pgdir, va) = p
    /\ "W" \in Pte(mem, envs[e].env_pgdir, va).perm

(* A page in use that nobody can write stays read-only until it is freed:  *)
(* neither sys_page_map nor sys_ipc_try_send grants more than the mapping  *)
(* it starts from.                                                         *)
ReadOnlyStays ==
  [][\A p \in UserPages :
       p \notin mem.page_free_list /\ ~Writable(p) => ~Writable(p)']_vars

-----------------------------------------------------------------------------
(* Liveness. *)

(* A destroyed environment is freed, wherever it was running (env.c: "A    *)
(* zombie environment will be freed the next time it traps").              *)
ZombieReaped ==
  \A e \in Slots : envs[e].env_status = "DYING" ~> envs[e].env_status = "FREE"

\* Some environment is freed; its CPU is left without a curenv.
Exit == \E e \in Slots : envs[e].env_status # "FREE" /\ envs'[e].env_status = "FREE"

(* Unless environments keep exiting, a runnable environment does not wait  *)
(* for a CPU for ever: the round robin of each CPU reaches it.             *)
ScheduledUnlessExits ==
  \/ []<><<Exit>>_vars
  \/ \A e \in Slots : envs[e].env_status = "RUNNABLE" ~> envs[e].env_status # "RUNNABLE"

=============================================================================
