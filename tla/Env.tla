--------------------------------- MODULE Env ---------------------------------
(***************************************************************************)
(* Environments and the CPUs that run them: the state of the kernel and    *)
(* the operations of kern/env.c.                                           *)
(*                                                                         *)
(* A kernel entry runs from lock_kernel() to unlock_kernel() under the big *)
(* kernel lock, so one entry is one action. Inside it, the operators below *)
(* work on es, the environments as the entry has left them so far, and on  *)
(* cur, the curenv of the CPU c at that point; the operator that leaves    *)
(* the kernel (EnvRun here, SchedHalt in Sched) assigns envs', cpus' and   *)
(* kernel_lock'.                                                           *)
(***************************************************************************)
EXTENDS Pmap, Sequences

CONSTANTS
  CPUs,       \* the processors
  BSP,        \* the one that boots the others
  NENV,       \* slots of the envs array
  NoEnv,      \* the null environment pointer
  NoCpu,      \* the holder of a free lock
  GENMAX,     \* generations of an env_id before it wraps (2^19 - 1 in the code)
  IpcValues   \* the values programs send

ASSUME EnvAssumption ==
  /\ NENV \in Nat \ {0} /\ GENMAX \in Nat \ {0}
  /\ NoEnv \notin 0 .. (NENV - 1)
  /\ BSP \in CPUs /\ NoCpu \notin CPUs
  /\ 0 \in IpcValues

VARIABLES
  envs,            \* slot -> struct Env
  env_free_list,   \* the slots on the list, first one first
  cpus,            \* CPU -> struct CpuInfo, with cr3 and where the CPU is
  kernel_lock,     \* the CPU that holds the big kernel lock, or NoCpu
  mem,             \* physical memory and page tables, see Pmap
  panicstr         \* some CPU has called panic()

vars == <<envs, env_free_list, cpus, kernel_lock, mem, panicstr>>

-----------------------------------------------------------------------------
Slots == 0 .. (NENV - 1)

\* An env_id is a generation and the slot it belongs to; 0 is "myself".
EnvId == [gen : 0 .. GENMAX, envx : Slots]
ZeroId == [gen |-> 0, envx |-> 0]
ENVX(id) == id.envx

EnvStatus == {"FREE", "DYING", "RUNNABLE", "RUNNING", "NOT_RUNNABLE"}

\* What the saved registers of an environment make it do when it resumes.
Trapframes == {"zero", "entry", "fork", "trap", "recvd", "upcall", "given"}

Envs == [env_tf : Trapframes,
         env_id : EnvId,
         env_parent_id : EnvId,
         env_status : EnvStatus,
         env_pgdir : Pages,
         env_pgfault_upcall : BOOLEAN,
         env_ipc_recving : BOOLEAN,
         env_ipc_dstva : VAs,
         env_ipc_value : IpcValues,
         env_ipc_from : EnvId,
         env_ipc_perm : SUBSET PermBits]

(***************************************************************************)
(* Where a CPU is:                                                         *)
(*   off      not started yet            init     the BSP, in i386_init    *)
(*   wait     spinning in lock_kernel with no environment to return to     *)
(*   sched    holds the lock, no environment: about to call sched_yield    *)
(*   user     runs cpu_env in user mode                                    *)
(*   trap     trapped from user mode, spinning in lock_kernel              *)
(*   kernel   trapped from user mode, holds the lock                       *)
(*   pop      has released the lock, is loading cpu_env's trap frame       *)
(*   halt     halted in sched_halt       monitor  in the monitor for good  *)
(*   panic    called panic()             dead     halted by panicstr       *)
(***************************************************************************)
Places == {"off", "init", "wait", "sched", "user", "trap", "kernel", "pop",
           "halt", "monitor", "panic", "dead"}

KernPgdir == NullPage   \* stands for kern_pgdir, which no environment owns

Cpus == [cpu_status : {"UNUSED", "STARTED", "HALTED"},
         cpu_env : Slots \cup {NoEnv},
         cr3 : Pages,
         at : Places]

-----------------------------------------------------------------------------
(* env_init: every slot free, the list in slot order. *)
EnvInit ==
  /\ envs = [s \in Slots |->
       [env_tf |-> "zero", env_id |-> ZeroId, env_parent_id |-> ZeroId,
        env_status |-> "FREE", env_pgdir |-> NullPage, env_pgfault_upcall |-> FALSE,
        env_ipc_recving |-> FALSE, env_ipc_dstva |-> <<0, 0>>, env_ipc_value |-> 0,
        env_ipc_from |-> ZeroId, env_ipc_perm |-> {}]]
  /\ env_free_list = [i \in 1 .. NENV |-> i - 1]

(* envid2env: the slot, or NoEnv for -E_BAD_ENV. *)
Envid2Env(es, cur, envid, checkperm) ==
  LET e == ENVX(envid)
  IN  IF envid = ZeroId THEN cur
      ELSE IF \/ es[e].env_status = "FREE"
              \/ es[e].env_id # envid
              \/ checkperm /\ e # cur /\ es[e].env_parent_id # es[cur].env_id
      THEN NoEnv
      ELSE e

(* The env_id env_alloc gives to slot e: the next generation, which starts *)
(* again at 1 when the 32-bit sum overflows.                               *)

\* Faulty: the sum is not checked.
NextEnvIdOverflows(es, e) == [gen |-> es[e].env_id.gen + 1, envx |-> e]

NextEnvId(es, e) ==
  [gen |-> IF es[e].env_id.gen + 1 > GENMAX THEN 1 ELSE es[e].env_id.gen + 1,
   envx |-> e]

(* env_alloc, when the free list and the free pages allow it: the new      *)
(* environment is the head of the list; vm is an outcome of env_setup_vm.  *)
(* The env_ipc fields other than env_ipc_recving keep their old values.    *)
EnvAlloc(es, e, parent_id, vm) ==
  [es EXCEPT ![e].env_pgdir = vm.pgdir,
             ![e].env_id = NextEnvId(es, e),
             ![e].env_parent_id = parent_id,
             ![e].env_status = "RUNNABLE",
             ![e].env_tf = "zero",
             ![e].env_pgfault_upcall = FALSE,
             ![e].env_ipc_recving = FALSE]

(* env_free: the environment, the free list and the memory it leaves. *)

\* Faulty: the status is left as it was.
EnvFreeKeepsStatus(es, e) == [es EXCEPT ![e].env_pgdir = NullPage]

EnvFree(es, e) ==
  [es EXCEPT ![e].env_status = "FREE", ![e].env_pgdir = NullPage]

EnvFreeRest(es, e) ==
  /\ env_free_list' = <<e>> \o env_free_list
  /\ mem' = EnvFreeVm(mem, es[e].env_pgdir)

(* env_destroy of an environment that another CPU runs only marks it; any  *)
(* other is freed at once.                                                 *)

\* Faulty: never wait for the other CPU.
DeferredNever(es, cur, e) == FALSE

Deferred(es, cur, e) == es[e].env_status = "RUNNING" /\ e # cur

\* Faulty: the registers are cleared when the environment is marked.
DestroyedClearsTf(es, cur, e) ==
  IF Deferred(es, cur, e)
  THEN [es EXCEPT ![e].env_status = "DYING", ![e].env_tf = "zero"]
  ELSE EnvFree(es, e)

Destroyed(es, cur, e) ==
  IF Deferred(es, cur, e) THEN [es EXCEPT ![e].env_status = "DYING"] ELSE EnvFree(es, e)

DestroyRest(es, cur, e) ==
  IF Deferred(es, cur, e) THEN UNCHANGED <<env_free_list, mem>> ELSE EnvFreeRest(es, e)

-----------------------------------------------------------------------------
(* env_run(e): what becomes of the previous and the new environment, and   *)
(* the step of CPU c out of the kernel, up to unlock_kernel().             *)

\* Faulty: the previous environment stays RUNNING.
SwitchToForgets(es, cur, e) == [es EXCEPT ![e].env_status = "RUNNING"]

SwitchTo(es, cur, e) ==
  [s \in Slots |->
     IF s = e THEN [es[s] EXCEPT !.env_status = "RUNNING"]
     ELSE IF s = cur /\ es[s].env_status = "RUNNING"
     THEN [es[s] EXCEPT !.env_status = "RUNNABLE"]
     ELSE es[s]]

EnvRun(c, es, cur, e) ==
  /\ envs' = SwitchTo(es, cur, e)
  /\ cpus' = [cpus EXCEPT ![c].cpu_env = e, ![c].cr3 = es[e].env_pgdir, ![c].at = "pop"]
  /\ kernel_lock' = NoCpu
  /\ UNCHANGED panicstr

(* env_pop_tf, after the lock was released: iret to user mode. *)
EnvPopTf(c) ==
  /\ cpus[c].at = "pop"
  /\ cpus' = [cpus EXCEPT ![c].at = "user"]
  /\ UNCHANGED <<envs, env_free_list, kernel_lock, mem, panicstr>>

=============================================================================
