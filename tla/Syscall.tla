------------------------------- MODULE Syscall -------------------------------
(***************************************************************************)
(* The system calls: kern/syscall.c. Each action is one whole call made by *)
(* the environment that CPU c runs, from the point where trap() has the    *)
(* kernel lock to the point where the CPU leaves the kernel.               *)
(***************************************************************************)
EXTENDS Sched

CONSTANTS
  Syscalls,    \* the calls the programs of this instance make
  Perms,       \* the permission arguments they pass
  Discipline   \* the conventions of lib/ they keep, see below

(***************************************************************************)
(* Conventions that lib/ and user/ follow when they make a call and that   *)
(* the kernel does not enforce:                                            *)
(*   idle_child     sys_env_set_status and sys_env_set_trapframe are made  *)
(*                  on oneself or on a child that is neither on a CPU nor  *)
(*                  blocked in sys_ipc_recv (lib/fork.c, lib/spawn.c call  *)
(*                  them between sys_exofork and the child's first run)    *)
(*   destroy_once   a child is destroyed at most once                      *)
(*   page_if_asked  a page is sent only to a receiver that gave an address *)
(*                  for it (fs/serv.c and lib/file.c agree on which        *)
(*                  messages carry pages)                                  *)
(*   user_tf        the Trapframe given to sys_env_set_trapframe lies below *)
(*                  ULIM (lib/spawn.c passes a local variable)             *)
(***************************************************************************)
ASSUME SyscallAssumption ==
  /\ Perms \subseteq SUBSET PermBits
  /\ Discipline \subseteq {"idle_child", "destroy_once", "page_if_asked", "user_tf"}

KeepsIdleChild(es, cur, e) ==
  "idle_child" \in Discipline =>
    \/ e = cur
    \/ es[e].env_status \in {"RUNNABLE", "NOT_RUNNABLE"} /\ ~es[e].env_ipc_recving

KeepsDestroyOnce(es, cur, e) ==
  "destroy_once" \in Discipline => e = cur \/ es[e].env_status # "DYING"

KeepsPageIfAsked(es, dst) ==
  "page_if_asked" \in Discipline => BelowUTOP(es[dst].env_ipc_dstva)

KeepsUserTf(tf) == "user_tf" \in Discipline => tf \notin KernelVAs

-----------------------------------------------------------------------------
(* trap() has found the current environment alive and saved its registers. *)
Cur(c) == cpus[c].cpu_env
Saved(c) == [envs EXCEPT ![Cur(c)].env_tf = "trap"]

Serving(c) ==
  /\ cpus[c].at = "kernel"
  /\ envs[Cur(c)].env_status # "DYING"

Calling(c, call) == Serving(c) /\ call \in Syscalls

\* The environments that some envid argument names for the caller.
Named(c, checkperm) ==
  {Envid2Env(envs, Cur(c), envid, checkperm) : envid \in EnvId} \ {NoEnv}

(***************************************************************************)
(* A call that returns without having changed anything but the caller's    *)
(* registers: sys_cputs, sys_cgetc, sys_getenvid, an unknown call, and     *)
(* every error return but one (sys_page_alloc's, below). A program can     *)
(* always make such a call, by passing an envid that names nothing. (A     *)
(* sys_cputs of memory the caller cannot read ends as sys_env_destroy of   *)
(* itself does.) The actions below are the calls that pass their checks.   *)
(***************************************************************************)
SysNoEffect(c) ==
  /\ Serving(c)
  /\ Return(c, Saved(c), Cur(c))
  /\ UNCHANGED <<env_free_list, mem>>

PgdirOf(es, e) == es[e].env_pgdir

(* The checks on perm that sys_page_alloc, sys_page_map and                *)
(* sys_ipc_try_send share: one of PTE_U and PTE_P is enough.               *)
PermOk(perm) == perm \cap {"U", "P"} # {}

-----------------------------------------------------------------------------
SysYield(c) ==
  /\ Calling(c, "yield")
  /\ SchedYield(c, Saved(c), Cur(c))
  /\ UNCHANGED <<env_free_list, mem>>

SysEnvDestroy(c) ==
  /\ Calling(c, "env_destroy")
  /\ \E e \in Named(c, TRUE) :
       /\ KeepsDestroyOnce(envs, Cur(c), e)
       /\ EnvDestroy(c, Saved(c), Cur(c), e)

SysExofork(c) ==
  /\ Calling(c, "exofork")
  /\ env_free_list # <<>>
  /\ \E vm \in EnvSetupVm(mem) :
       LET e == Head(env_free_list)
           new == EnvAlloc(Saved(c), e, envs[Cur(c)].env_id, vm)
       IN  /\ Return(c, [new EXCEPT ![e].env_status = "NOT_RUNNABLE",
                                    ![e].env_tf = "fork"], Cur(c))
           /\ env_free_list' = Tail(env_free_list)
           /\ mem' = vm.mem

SysEnvSetStatus(c) ==
  /\ Calling(c, "env_set_status")
  /\ \E e \in Named(c, TRUE), status \in {"RUNNABLE", "NOT_RUNNABLE"} :
       /\ KeepsIdleChild(envs, Cur(c), e)
       /\ Return(c, [Saved(c) EXCEPT ![e].env_status = status], Cur(c))
  /\ UNCHANGED <<env_free_list, mem>>

(* The address of the new registers is checked in the address space of e   *)
(* but read and written in the caller's; a failed check destroys e, and    *)
(* unless e is the caller the call goes on, and stores tf_eflags and tf_cs *)
(* at tf, wherever that is.                                                *)
SysEnvSetTrapframe(c) ==
  /\ Calling(c, "env_set_trapframe")
  /\ \E e \in Named(c, TRUE), tf \in VAs \cup KernelVAs :
       LET good == UserMemCheck(mem, PgdirOf(envs, e), tf, {"U", "P"})
           checked == IF good THEN Saved(c) ELSE Destroyed(Saved(c), Cur(c), e)
           frees == ~good /\ ~Deferred(Saved(c), Cur(c), e)
           left == IF frees THEN EnvFreeVm(mem, Saved(c)[e].env_pgdir) ELSE mem
           goesOn == good \/ e # Cur(c)
           writes == KernelCanWrite(mem, PgdirOf(envs, Cur(c)), tf)
       IN  /\ KeepsIdleChild(envs, Cur(c), e) /\ KeepsUserTf(tf)
           /\ env_free_list' = (IF frees THEN <<e>> ELSE <<>>) \o env_free_list
           /\ mem' \in IF goesOn THEN KernelStored(left, tf) ELSE {left}
           /\ \/ ~goesOn /\ SchedYield(c, checked, NoEnv)
              \/ /\ goesOn /\ writes
                 /\ Return(c, [checked EXCEPT ![e].env_tf = "given"], Cur(c))
              \/ goesOn /\ ~writes /\ Panic(c, checked)

SysEnvSetPgfaultUpcall(c) ==
  /\ Calling(c, "env_set_pgfault_upcall")
  /\ \E e \in Named(c, TRUE), func \in BOOLEAN :
       Return(c, [Saved(c) EXCEPT ![e].env_pgfault_upcall = func], Cur(c))
  /\ UNCHANGED <<env_free_list, mem>>

-----------------------------------------------------------------------------
(* A call that changed the memory to m and nothing else. *)
ReturnWith(c, m) ==
  /\ Return(c, Saved(c), Cur(c))
  /\ mem' = m
  /\ UNCHANGED env_free_list

\* When there is no page for the page table, the new page is freed again.
SysPageAlloc(c) ==
  /\ Calling(c, "page_alloc")
  /\ \E e \in Named(c, TRUE), va \in UserVAs, perm \in Perms :
       /\ PermOk(perm)
       /\ \E a \in PageAlloc(mem) :
            \E r \in PageInsert(a.mem, PgdirOf(envs, e), a.pp, va, perm) :
              ReturnWith(c, IF r.ret = "OK" THEN r.mem ELSE PageFree(r.mem, a.pp))

\* Faulty: a read-only mapping can be shared for writing.
MayShareAny(m, pgdir, va, perm) == PageLookup(m, pgdir, va) # NullPage

(* May a page be mapped with perm from the entry that maps it now? *)
MayShare(m, pgdir, va, perm) ==
  /\ PageLookup(m, pgdir, va) # NullPage
  /\ "W" \in perm => "W" \in Pte(m, pgdir, va).perm

SysPageMap(c) ==
  /\ Calling(c, "page_map")
  /\ \E srce, dste \in Named(c, TRUE), srcva \in UserVAs, perm \in Perms :
       /\ PermOk(perm) /\ MayShare(mem, PgdirOf(envs, srce), srcva, perm)
       /\ \E dstva \in UserVAs :
            \E r \in PageInsert(mem, PgdirOf(envs, dste),
                                PageLookup(mem, PgdirOf(envs, srce), srcva), dstva, perm) :
              ReturnWith(c, r.mem)

SysPageUnmap(c) ==
  /\ Calling(c, "page_unmap")
  /\ \E e \in Named(c, TRUE), va \in UserVAs :
       ReturnWith(c, PageRemove(mem, PgdirOf(envs, e), va))

-----------------------------------------------------------------------------
\* Faulty: the receiver stays open for the next sender.
DeliveredStillRecving(es, cur, dst, value) ==
  [es EXCEPT ![dst].env_ipc_from = es[cur].env_id,
             ![dst].env_ipc_value = value,
             ![dst].env_status = "RUNNABLE",
             ![dst].env_tf = "recvd"]

(* The receiver's fields when a send succeeds, its saved registers (the    *)
(* result of its sys_ipc_recv) among them; a send without a page leaves    *)
(* env_ipc_perm alone.                                                     *)
Delivered(es, cur, dst, value) ==
  [es EXCEPT ![dst].env_ipc_from = es[cur].env_id,
             ![dst].env_ipc_value = value,
             ![dst].env_ipc_recving = FALSE,
             ![dst].env_status = "RUNNABLE",
             ![dst].env_tf = "recvd"]

DeliveredPage(es, cur, dst, value, perm) ==
  [Delivered(es, cur, dst, value) EXCEPT ![dst].env_ipc_perm = perm]

\* The page goes to the receiver's env_ipc_dstva, whatever that is.
SysIpcTrySend(c) ==
  /\ Calling(c, "ipc_try_send")
  /\ \E dst \in Named(c, FALSE), value \in IpcValues, srcva \in VAs :
       /\ envs[dst].env_ipc_recving
       /\ \/ /\ ~BelowUTOP(srcva)
             /\ Return(c, Delivered(Saved(c), Cur(c), dst, value), Cur(c))
             /\ UNCHANGED <<env_free_list, mem>>
          \/ /\ BelowUTOP(srcva)
             /\ KeepsPageIfAsked(envs, dst)
             /\ \E perm \in Perms :
                  /\ PermOk(perm) /\ MayShare(mem, PgdirOf(envs, Cur(c)), srcva, perm)
                  /\ \E r \in PageInsert(mem, PgdirOf(envs, dst),
                                         PageLookup(mem, PgdirOf(envs, Cur(c)), srcva),
                                         envs[dst].env_ipc_dstva, perm) :
                       /\ Return(c, IF r.ret = "OK"
                                    THEN DeliveredPage(Saved(c), Cur(c), dst, value, perm)
                                    ELSE Saved(c), Cur(c))
                       /\ mem' = r.mem
                       /\ UNCHANGED env_free_list

SysIpcRecv(c) ==
  /\ Calling(c, "ipc_recv")
  /\ \E dstva \in VAs :
       SchedYield(c, [Saved(c) EXCEPT ![Cur(c)].env_ipc_recving = TRUE,
                                      ![Cur(c)].env_ipc_dstva = dstva,
                                      ![Cur(c)].env_status = "NOT_RUNNABLE"], Cur(c))
  /\ UNCHANGED <<env_free_list, mem>>

Syscall(c) ==
  \/ SysNoEffect(c) \/ SysYield(c) \/ SysEnvDestroy(c) \/ SysExofork(c)
  \/ SysEnvSetStatus(c) \/ SysEnvSetTrapframe(c) \/ SysEnvSetPgfaultUpcall(c)
  \/ SysPageAlloc(c) \/ SysPageMap(c) \/ SysPageUnmap(c)
  \/ SysIpcTrySend(c) \/ SysIpcRecv(c)

=============================================================================
