---------------------------- MODULE KernelProofs -----------------------------
(***************************************************************************)
(* Proofs about Kernel, for every number of CPUs, environments and pages.  *)
(***************************************************************************)
EXTENDS Kernel, PmapProofs

-----------------------------------------------------------------------------
(* The part of the inductive invariant that holds whatever programs do,    *)
(* except that they give sys_env_set_trapframe no address of the kernel.   *)

UserTf == "user_tf" \in Discipline

\* A CPU that runs has an environment.
CurExists ==
  \A c \in CPUs : cpus[c].at \in {"user", "trap", "kernel", "pop"} => Cur(c) \in Slots

\* sched_halt has set cpu_status before it released the lock.
HaltedMarked == \A c \in CPUs : cpus[c].at = "halt" => cpus[c].cpu_status = "HALTED"

BaseInv == TypeOK /\ KernelMutex /\ CurExists /\ HaltedMarked

-----------------------------------------------------------------------------
(* Environments stay well formed under the operators the handlers use.     *)

LEMMA ConstTypes ==
  /\ KernPgdir \in Pages /\ NullPage \in Pages
  /\ ZeroId \in EnvId
  /\ UserVAs \subseteq VAs
  BY PmapAssumption, EnvAssumption DEF KernPgdir, ZeroId, EnvId, Slots, VAs

(* One field of an environment changes. *)
LEMMA FieldTypes ==
  ASSUME NEW r \in Envs
  PROVE  /\ \A x \in Trapframes : [r EXCEPT !.env_tf = x] \in Envs
         /\ \A x \in EnvId : [r EXCEPT !.env_id = x] \in Envs
         /\ \A x \in EnvId : [r EXCEPT !.env_parent_id = x] \in Envs
         /\ \A x \in EnvStatus : [r EXCEPT !.env_status = x] \in Envs
         /\ \A x \in Pages : [r EXCEPT !.env_pgdir = x] \in Envs
         /\ \A x \in BOOLEAN : [r EXCEPT !.env_pgfault_upcall = x] \in Envs
         /\ \A x \in BOOLEAN : [r EXCEPT !.env_ipc_recving = x] \in Envs
         /\ \A x \in VAs : [r EXCEPT !.env_ipc_dstva = x] \in Envs
         /\ \A x \in IpcValues : [r EXCEPT !.env_ipc_value = x] \in Envs
         /\ \A x \in EnvId : [r EXCEPT !.env_ipc_from = x] \in Envs
         /\ \A x \in SUBSET PermBits : [r EXCEPT !.env_ipc_perm = x] \in Envs
  BY DEF Envs

LEMMA StatusType ==
  ASSUME NEW es \in [Slots -> Envs], NEW e \in Slots, NEW st \in EnvStatus
  PROVE  [es EXCEPT ![e].env_status = st] \in [Slots -> Envs]
  BY DEF Envs

LEMMA TfType ==
  ASSUME NEW es \in [Slots -> Envs], NEW e \in Slots, NEW tf \in Trapframes
  PROVE  [es EXCEPT ![e].env_tf = tf] \in [Slots -> Envs]
  BY DEF Envs

LEMMA EnvFreeType ==
  ASSUME NEW es \in [Slots -> Envs], NEW e \in Slots
  PROVE  EnvFree(es, e) \in [Slots -> Envs]
  <1> DEFINE r == [es[e] EXCEPT !.env_status = "FREE", !.env_pgdir = NullPage]
  <1>1. r \in Envs
    BY ConstTypes, FieldTypes DEF EnvStatus
  <1>2. EnvFree(es, e) = [es EXCEPT ![e] = r]
    BY DEF EnvFree
  <1> QED
    BY <1>1, <1>2

LEMMA DestroyedType ==
  ASSUME NEW es \in [Slots -> Envs], NEW e \in Slots, NEW cur
  PROVE  Destroyed(es, cur, e) \in [Slots -> Envs]
  BY EnvFreeType, StatusType DEF Destroyed, EnvStatus

LEMMA NextEnvIdType ==
  ASSUME NEW es \in [Slots -> Envs], NEW e \in Slots
  PROVE  NextEnvId(es, e) \in EnvId
  <1>1. es[e].env_id.gen \in 0 .. GENMAX
    BY DEF Envs, EnvId
  <1> QED
    BY <1>1, EnvAssumption DEF NextEnvId, EnvId

LEMMA EnvAllocType ==
  ASSUME NEW es \in [Slots -> Envs], NEW e \in Slots, NEW parent_id \in EnvId,
         NEW vm, vm.pgdir \in Pages
  PROVE  /\ EnvAlloc(es, e, parent_id, vm) \in [Slots -> Envs]
         /\ \A s \in Slots \ {e} : EnvAlloc(es, e, parent_id, vm)[s] = es[s]
         /\ EnvAlloc(es, e, parent_id, vm)[e].env_pgdir = vm.pgdir
         /\ EnvAlloc(es, e, parent_id, vm)[e].env_status = "RUNNABLE"
  <1> DEFINE r == [es[e] EXCEPT !.env_pgdir = vm.pgdir, !.env_id = NextEnvId(es, e)]
             s == [r EXCEPT !.env_parent_id = parent_id, !.env_status = "RUNNABLE"]
             t == [s EXCEPT !.env_tf = "zero", !.env_pgfault_upcall = FALSE,
                            !.env_ipc_recving = FALSE]
  <1>1. r \in Envs /\ r.env_pgdir = vm.pgdir
    <2>1. r \in Envs
      BY NextEnvIdType, FieldTypes
    <2> QED
      BY <2>1 DEF Envs
  <1>2. s \in Envs /\ s.env_pgdir = vm.pgdir /\ s.env_status = "RUNNABLE"
    <2> HIDE DEF r
    <2>1. s \in Envs
      BY <1>1, FieldTypes DEF EnvStatus
    <2> QED
      BY <1>1, <2>1 DEF Envs
  <1>3. t \in Envs /\ t.env_pgdir = vm.pgdir /\ t.env_status = "RUNNABLE"
    <2> HIDE DEF s
    <2>1. t \in Envs
      BY <1>2, FieldTypes DEF Trapframes
    <2> QED
      BY <1>2, <2>1 DEF Envs
  <1>4. EnvAlloc(es, e, parent_id, vm) = [es EXCEPT ![e] = t]
    BY DEF EnvAlloc
  <1> HIDE DEF t
  <1> QED
    BY <1>3, <1>4

LEMMA SwitchToType ==
  ASSUME NEW es \in [Slots -> Envs], NEW e \in Slots, NEW cur
  PROVE  SwitchTo(es, cur, e) \in [Slots -> Envs]
  BY DEF SwitchTo, Envs, EnvStatus

LEMMA DeliveredType ==
  ASSUME NEW es \in [Slots -> Envs], NEW cur \in Slots, NEW dst \in Slots,
         NEW value \in IpcValues
  PROVE  Delivered(es, cur, dst, value) \in [Slots -> Envs]
  <1> DEFINE r == [es[dst] EXCEPT !.env_ipc_from = es[cur].env_id,
                                  !.env_ipc_value = value]
             q == [r EXCEPT !.env_ipc_recving = FALSE, !.env_status = "RUNNABLE"]
             s == [q EXCEPT !.env_tf = "recvd"]
  <1>1. es[cur].env_id \in EnvId
    BY DEF Envs
  <1>2. r \in Envs
    BY <1>1, FieldTypes
  <1>3. q \in Envs
    <2> HIDE DEF r
    <2> QED
      BY <1>2, FieldTypes DEF EnvStatus
  <1>4. s \in Envs
    <2> HIDE DEF q
    <2> QED
      BY <1>3, FieldTypes DEF Trapframes
  <1>5. Delivered(es, cur, dst, value) = [es EXCEPT ![dst] = s]
    BY DEF Delivered
  <1> QED
    BY <1>4, <1>5

LEMMA DeliveredPageType ==
  ASSUME NEW es \in [Slots -> Envs], NEW cur \in Slots, NEW dst \in Slots,
         NEW value \in IpcValues, NEW perm \in SUBSET PermBits
  PROVE  DeliveredPage(es, cur, dst, value, perm) \in [Slots -> Envs]
  <1> DEFINE d == Delivered(es, cur, dst, value)
  <1>1. d \in [Slots -> Envs]
    BY DeliveredType
  <1> HIDE DEF d
  <1>2. [d EXCEPT ![dst].env_ipc_perm = perm] \in [Slots -> Envs]
    BY <1>1, FieldTypes
  <1> QED
    BY <1>2 DEF DeliveredPage, d

(* The environment of a CPU that holds the lock after a trap. *)
LEMMA ServingType ==
  ASSUME BaseInv, NEW c \in CPUs, cpus[c].at = "kernel"
  PROVE  /\ kernel_lock = c
         /\ Cur(c) \in Slots
         /\ Saved(c) \in [Slots -> Envs]
         /\ \A checkperm : Named(c, checkperm) \subseteq Slots
         /\ \A e \in Slots : PgdirOf(envs, e) \in Pages
  <1>1. kernel_lock = c
    BY DEF BaseInv, KernelMutex, InKernel
  <1>2. Cur(c) \in Slots
    BY DEF BaseInv, CurExists
  <1>3. Saved(c) \in [Slots -> Envs]
    BY <1>2, TfType DEF Saved, BaseInv, TypeOK, Trapframes
  <1>4. \A checkperm : Named(c, checkperm) \subseteq Slots
    BY <1>2 DEF Named, Envid2Env, ENVX, EnvId
  <1>5. \A e \in Slots : PgdirOf(envs, e) \in Pages
    BY DEF PgdirOf, BaseInv, TypeOK, Envs
  <1> QED
    BY <1>1, <1>2, <1>3, <1>4, <1>5

-----------------------------------------------------------------------------
(* Every way out of the kernel keeps BaseInv.                              *)

\* What an action has done besides leaving the kernel.
RestTyped == mem' \in Memory /\ env_free_list' \in Seq(Slots)

LEMMA EnvRunBase ==
  ASSUME BaseInv, NEW c \in CPUs, kernel_lock = c,
         NEW es \in [Slots -> Envs], NEW cur, NEW e \in Slots,
         EnvRun(c, es, cur, e), RestTyped
  PROVE  BaseInv'
  <1>1. es[e].env_pgdir \in Pages
    BY DEF Envs
  <1>2. envs' \in [Slots -> Envs]
    BY SwitchToType DEF EnvRun
  <1>3. cpus' \in [CPUs -> Cpus]
    <2> DEFINE r == [cpus[c] EXCEPT !.cpu_env = e, !.cr3 = es[e].env_pgdir, !.at = "pop"]
    <2>1. r \in Cpus
      BY <1>1 DEF BaseInv, TypeOK, Cpus, Places
    <2>2. cpus' = [cpus EXCEPT ![c] = r]
      BY DEF EnvRun, BaseInv, TypeOK
    <2> QED
      BY <2>1, <2>2 DEF BaseInv, TypeOK
  <1>4. TypeOK'
    BY <1>2, <1>3 DEF EnvRun, BaseInv, TypeOK, RestTyped
  <1>5. \A d \in CPUs : d # c => cpus'[d] = cpus[d]
    BY DEF EnvRun, BaseInv, TypeOK
  <1>6. cpus'[c].at = "pop" /\ cpus'[c].cpu_env = e
    BY DEF EnvRun, BaseInv, TypeOK, Cpus
  <1>7. KernelMutex'
    BY <1>5, <1>6, EnvAssumption DEF EnvRun, BaseInv, KernelMutex, InKernel
  <1>8. CurExists'
    BY <1>5, <1>6 DEF BaseInv, CurExists, Cur
  <1>9. HaltedMarked'
    BY <1>5, <1>6 DEF BaseInv, HaltedMarked
  <1> QED
    BY <1>4, <1>7, <1>8, <1>9 DEF BaseInv

LEMMA SchedHaltBase ==
  ASSUME BaseInv, NEW c \in CPUs, kernel_lock = c,
         NEW es \in [Slots -> Envs], NEW cur \in Slots \cup {NoEnv},
         SchedHalt(c, es, cur), RestTyped
  PROVE  BaseInv'
  <1>1. \A d \in CPUs : d # c => cpus'[d] = cpus[d]
    BY DEF SchedHalt, BaseInv, TypeOK
  <1>2. /\ cpus' \in [CPUs -> Cpus]
        /\ \/ cpus'[c].at = "monitor" /\ kernel_lock' = c
           \/ cpus'[c].at = "halt" /\ cpus'[c].cpu_status = "HALTED" /\ kernel_lock' = NoCpu
    <2>1. CASE Live(es) = {}
      BY <2>1, ConstTypes DEF SchedHalt, BaseInv, TypeOK, Cpus, Places
    <2>2. CASE Live(es) # {}
      BY <2>2, ConstTypes DEF SchedHalt, BaseInv, TypeOK, Cpus, Places
    <2> QED
      BY <2>1, <2>2
  <1>3. TypeOK'
    BY <1>2 DEF SchedHalt, BaseInv, TypeOK, RestTyped
  <1>4. KernelMutex'
    BY <1>1, <1>2, EnvAssumption DEF BaseInv, KernelMutex, InKernel
  <1>5. CurExists'
    BY <1>1, <1>2 DEF BaseInv, CurExists, Cur
  <1>6. HaltedMarked'
    BY <1>1, <1>2 DEF BaseInv, HaltedMarked
  <1> QED
    BY <1>3, <1>4, <1>5, <1>6 DEF BaseInv

LEMMA SchedYieldBase ==
  ASSUME BaseInv, NEW c \in CPUs, kernel_lock = c,
         NEW es \in [Slots -> Envs], NEW cur \in Slots \cup {NoEnv},
         SchedYield(c, es, cur), RestTyped
  PROVE  BaseInv'
  <1>1. CASE \E e \in FirstRunnable(es, cur) : EnvRun(c, es, cur, e)
    BY <1>1, EnvRunBase DEF FirstRunnable, Runnable
  <1>2. CASE StillRuns(es, cur) /\ EnvRun(c, es, cur, cur)
    BY <1>2, EnvRunBase DEF StillRuns
  <1>3. CASE SchedHalt(c, es, cur)
    BY <1>3, SchedHaltBase
  <1> QED
    BY <1>1, <1>2, <1>3 DEF SchedYield

LEMMA ReturnBase ==
  ASSUME BaseInv, NEW c \in CPUs, kernel_lock = c,
         NEW es \in [Slots -> Envs], NEW cur \in Slots \cup {NoEnv},
         Return(c, es, cur), RestTyped
  PROVE  BaseInv'
  <1>1. CASE StillRuns(es, cur) /\ EnvRun(c, es, cur, cur)
    BY <1>1, EnvRunBase DEF StillRuns
  <1>2. CASE SchedYield(c, es, cur)
    BY <1>2, SchedYieldBase
  <1> QED
    BY <1>1, <1>2 DEF Return

LEMMA PanicBase ==
  ASSUME BaseInv, NEW c \in CPUs, kernel_lock = c,
         NEW es \in [Slots -> Envs], Panic(c, es), RestTyped
  PROVE  BaseInv'
  <1>1. \A d \in CPUs : d # c => cpus'[d] = cpus[d]
    BY DEF Panic, BaseInv, TypeOK
  <1>2. cpus' \in [CPUs -> Cpus] /\ cpus'[c].at = "panic"
    BY SMTT(30) DEF Panic, BaseInv, TypeOK, Cpus, Places
  <1>3. TypeOK'
    BY <1>2 DEF Panic, BaseInv, TypeOK, RestTyped
  <1>4. KernelMutex'
    BY <1>1, <1>2 DEF Panic, BaseInv, KernelMutex, InKernel
  <1>5. CurExists' /\ HaltedMarked'
    BY <1>1, <1>2 DEF BaseInv, CurExists, HaltedMarked, Cur
  <1> QED
    BY <1>3, <1>4, <1>5 DEF BaseInv

(* env_destroy leaves a typed memory and free list. *)
LEMMA DestroyRestTyped ==
  ASSUME BaseInv, NEW es \in [Slots -> Envs], NEW cur, NEW e \in Slots,
         DestroyRest(es, cur, e)
  PROVE  RestTyped
  <1>1. es[e].env_pgdir \in Pages
    BY DEF Envs
  <1>2. EnvFreeVm(mem, es[e].env_pgdir) \in Memory
    BY <1>1, EnvFreeVmType DEF BaseInv, TypeOK
  <1>3. <<e>> \o env_free_list \in Seq(Slots)
    BY DEF BaseInv, TypeOK
  <1> QED
    BY <1>2, <1>3 DEF DestroyRest, EnvFreeRest, RestTyped, BaseInv, TypeOK

LEMMA EnvDestroyBase ==
  ASSUME BaseInv, NEW c \in CPUs, kernel_lock = c,
         NEW es \in [Slots -> Envs], NEW cur \in Slots, NEW e \in Slots,
         EnvDestroy(c, es, cur, e)
  PROVE  BaseInv'
  <1>1. RestTyped
    BY DestroyRestTyped DEF EnvDestroy
  <1>2. Destroyed(es, cur, e) \in [Slots -> Envs]
    BY DestroyedType
  <1> QED
    BY <1>1, <1>2, SchedYieldBase, ReturnBase DEF EnvDestroy

-----------------------------------------------------------------------------
(* Every handler keeps BaseInv: the environments it has built are well     *)
(* formed, and so are the memory and the free list.                        *)

LEMMA SameRestTyped ==
  ASSUME BaseInv, UNCHANGED <<env_free_list, mem>>
  PROVE  RestTyped
  BY DEF BaseInv, TypeOK, RestTyped

LEMMA ReturnWithBase ==
  ASSUME BaseInv, NEW c \in CPUs, Serving(c), NEW m \in Memory, ReturnWith(c, m)
  PROVE  BaseInv'
  <1>1. RestTyped
    BY DEF ReturnWith, RestTyped, BaseInv, TypeOK
  <1> QED
    BY <1>1, ServingType, ReturnBase DEF ReturnWith, Serving

\* The steps of SysEnvSetTrapframe when its argument is not the kernel's.
LEMMA SetTrapframeSteps ==
  ASSUME UserTf, BaseInv, NEW c \in CPUs, SysEnvSetTrapframe(c)
  PROVE  \E e \in Named(c, TRUE), tf \in VAs :
     LET good == UserMemCheck(mem, PgdirOf(envs, e), tf, {"U", "P"})
         checked == IF good THEN Saved(c) ELSE Destroyed(Saved(c), Cur(c), e)
         goesOn == good \/ e # Cur(c)
     IN  /\ KeepsIdleChild(envs, Cur(c), e)
         /\ IF good THEN UNCHANGED <<env_free_list, mem>>
                    ELSE DestroyRest(Saved(c), Cur(c), e)
         /\ \/ ~goesOn /\ SchedYield(c, checked, NoEnv)
            \/ goesOn /\ Return(c, [checked EXCEPT ![e].env_tf = "given"], Cur(c))
            \/ goesOn /\ Panic(c, checked)
  <1>1. PICK e \in Named(c, TRUE), tf \in VAs \cup KernelVAs :
     LET good == UserMemCheck(mem, PgdirOf(envs, e), tf, {"U", "P"})
         checked == IF good THEN Saved(c) ELSE Destroyed(Saved(c), Cur(c), e)
         frees == ~good /\ ~Deferred(Saved(c), Cur(c), e)
         left == IF frees THEN EnvFreeVm(mem, Saved(c)[e].env_pgdir) ELSE mem
         goesOn == good \/ e # Cur(c)
     IN  /\ KeepsIdleChild(envs, Cur(c), e) /\ KeepsUserTf(tf)
         /\ env_free_list' = (IF frees THEN <<e>> ELSE <<>>) \o env_free_list
         /\ mem' \in IF goesOn THEN KernelStored(left, tf) ELSE {left}
         /\ \/ ~goesOn /\ SchedYield(c, checked, NoEnv)
            \/ goesOn /\ Return(c, [checked EXCEPT ![e].env_tf = "given"], Cur(c))
            \/ goesOn /\ Panic(c, checked)
    BY DEF SysEnvSetTrapframe
  <1> DEFINE good == UserMemCheck(mem, PgdirOf(envs, e), tf, {"U", "P"})
             deferred == Deferred(Saved(c), Cur(c), e)
             left == IF ~good /\ ~deferred THEN EnvFreeVm(mem, Saved(c)[e].env_pgdir) ELSE mem
  <1>2. tf \in VAs /\ tf \notin KernelVAs
    BY <1>1 DEF KeepsUserTf, UserTf
  <1>3. KernelStored(left, tf) = {left}
    BY <1>2 DEF KernelStored
  <1> HIDE DEF good, deferred
  <1>4. /\ env_free_list' = (IF ~good /\ ~deferred THEN <<e>> ELSE <<>>) \o env_free_list
        /\ mem' = left
    BY <1>1, <1>3 DEF good, deferred
  <1>5. CASE good \/ deferred
    <2>1. env_free_list \in Seq(Slots)
      BY DEF BaseInv, TypeOK
    <2>2. UNCHANGED <<env_free_list, mem>>
      BY <1>4, <1>5, <2>1
    <2>3. IF good THEN UNCHANGED <<env_free_list, mem>> ELSE DestroyRest(Saved(c), Cur(c), e)
      BY <1>5, <2>2 DEF DestroyRest, deferred
    <2> QED
      BY <1>1, <1>2, <2>3 DEF good
  <1>6. CASE ~good /\ ~deferred
    <2>1. EnvFreeRest(Saved(c), e)
      BY <1>4, <1>6 DEF EnvFreeRest
    <2>2. IF good THEN UNCHANGED <<env_free_list, mem>> ELSE DestroyRest(Saved(c), Cur(c), e)
      BY <1>6, <2>1 DEF DestroyRest, deferred
    <2> QED
      BY <1>1, <1>2, <2>2 DEF good
  <1> QED
    BY <1>5, <1>6

LEMMA SyscallBase ==
  ASSUME UserTf, BaseInv, NEW c \in CPUs, Syscall(c)
  PROVE  BaseInv'
  <1>1. Serving(c)
    BY DEF Syscall, SysNoEffect, SysYield, SysEnvDestroy, SysExofork, SysEnvSetStatus,
           SysEnvSetTrapframe, SysEnvSetPgfaultUpcall, SysPageAlloc, SysPageMap,
           SysPageUnmap, SysIpcTrySend, SysIpcRecv, Calling
  <1>2. /\ kernel_lock = c
        /\ Cur(c) \in Slots
        /\ Saved(c) \in [Slots -> Envs]
        /\ \A checkperm : Named(c, checkperm) \subseteq Slots
        /\ \A e \in Slots : PgdirOf(envs, e) \in Pages
        /\ mem \in Memory /\ envs \in [Slots -> Envs] /\ env_free_list \in Seq(Slots)
    BY <1>1, ServingType DEF Serving, BaseInv, TypeOK
  <1>3. ASSUME NEW perm \in Perms PROVE perm \in SUBSET PermBits
    BY SyscallAssumption
  <1>4. CASE SysNoEffect(c)
    BY <1>2, <1>4, SameRestTyped, ReturnBase DEF SysNoEffect
  <1>5. CASE SysYield(c)
    BY <1>2, <1>5, SameRestTyped, SchedYieldBase DEF SysYield
  <1>6. CASE SysEnvDestroy(c)
    BY <1>2, <1>6, EnvDestroyBase DEF SysEnvDestroy
  <1>7. CASE SysExofork(c)
    <2>1. PICK vm \in EnvSetupVm(mem) :
            LET e == Head(env_free_list)
                new == EnvAlloc(Saved(c), e, envs[Cur(c)].env_id, vm)
            IN  /\ Return(c, [new EXCEPT ![e].env_status = "NOT_RUNNABLE",
                                         ![e].env_tf = "fork"], Cur(c))
                /\ env_free_list' = Tail(env_free_list)
                /\ mem' = vm.mem
      BY <1>7 DEF SysExofork
    <2> DEFINE e == Head(env_free_list)
               new == EnvAlloc(Saved(c), e, envs[Cur(c)].env_id, vm)
    <2>2. e \in Slots /\ Tail(env_free_list) \in Seq(Slots)
      BY <1>2, <1>7 DEF SysExofork
    <2>3. vm.pgdir \in Pages /\ vm.mem \in Memory
      BY <1>2, EnvSetupVmType
    <2>4. envs[Cur(c)].env_id \in EnvId
      BY <1>2 DEF Envs
    <2>5. new \in [Slots -> Envs]
      BY <1>2, <2>2, <2>3, <2>4, EnvAllocType
    <2>6. [new EXCEPT ![e].env_status = "NOT_RUNNABLE", ![e].env_tf = "fork"] \in [Slots -> Envs]
      <3> HIDE DEF new, e
      <3> DEFINE n == [new EXCEPT ![e].env_status = "NOT_RUNNABLE"]
      <3>1. n \in [Slots -> Envs]
        BY <2>2, <2>5, StatusType DEF EnvStatus
      <3>2. [n EXCEPT ![e].env_tf = "fork"] \in [Slots -> Envs]
        <4> HIDE DEF n
        <4> QED
          BY <2>2, <3>1, TfType DEF Trapframes
      <3> QED
        BY <3>2
    <2>7. RestTyped
      BY <2>1, <2>2, <2>3 DEF RestTyped
    <2> QED
      BY <1>2, <2>1, <2>6, <2>7, ReturnBase
  <1>8. CASE SysEnvSetStatus(c)
    <2>1. PICK e \in Named(c, TRUE), status \in {"RUNNABLE", "NOT_RUNNABLE"} :
            Return(c, [Saved(c) EXCEPT ![e].env_status = status], Cur(c))
      BY <1>8 DEF SysEnvSetStatus
    <2>2. [Saved(c) EXCEPT ![e].env_status = status] \in [Slots -> Envs]
      BY <1>2, StatusType DEF EnvStatus
    <2> QED
      BY <1>2, <1>8, <2>1, <2>2, SameRestTyped, ReturnBase DEF SysEnvSetStatus
  <1>9. CASE SysEnvSetTrapframe(c)
    <2>1. PICK e \in Named(c, TRUE), tf \in VAs :
       LET good == UserMemCheck(mem, PgdirOf(envs, e), tf, {"U", "P"})
           checked == IF good THEN Saved(c) ELSE Destroyed(Saved(c), Cur(c), e)
       IN  /\ IF good THEN UNCHANGED <<env_free_list, mem>>
                      ELSE DestroyRest(Saved(c), Cur(c), e)
           /\ \/ SchedYield(c, checked, NoEnv)
              \/ Return(c, [checked EXCEPT ![e].env_tf = "given"], Cur(c))
              \/ Panic(c, checked)
      BY <1>9, SetTrapframeSteps
    <2> DEFINE good == UserMemCheck(mem, PgdirOf(envs, e), tf, {"U", "P"})
               checked == IF good THEN Saved(c) ELSE Destroyed(Saved(c), Cur(c), e)
    <2>2. e \in Slots
      BY <1>2
    <2>3. checked \in [Slots -> Envs]
      BY <1>2, <2>2, DestroyedType
    <2>4. RestTyped
      BY <1>2, <2>1, <2>2, SameRestTyped, DestroyRestTyped
    <2> HIDE DEF good, checked
    <2>5. [checked EXCEPT ![e].env_tf = "given"] \in [Slots -> Envs]
      BY <2>2, <2>3, TfType DEF Trapframes
    <2>6. \/ SchedYield(c, checked, NoEnv)
          \/ Return(c, [checked EXCEPT ![e].env_tf = "given"], Cur(c))
          \/ Panic(c, checked)
      BY <2>1 DEF good, checked
    <2> QED
      BY <1>2, <2>3, <2>4, <2>5, <2>6, SchedYieldBase, ReturnBase, PanicBase
  <1>10. CASE SysEnvSetPgfaultUpcall(c)
    <2>1. PICK e \in Named(c, TRUE), func \in BOOLEAN :
            Return(c, [Saved(c) EXCEPT ![e].env_pgfault_upcall = func], Cur(c))
      BY <1>10 DEF SysEnvSetPgfaultUpcall
    <2>2. [Saved(c) EXCEPT ![e].env_pgfault_upcall = func] \in [Slots -> Envs]
      BY <1>2, FieldTypes
    <2> QED
      BY <1>2, <1>10, <2>1, <2>2, SameRestTyped, ReturnBase DEF SysEnvSetPgfaultUpcall
  <1>11. CASE SysPageAlloc(c)
    <2>1. PICK e \in Named(c, TRUE), va \in UserVAs, perm \in Perms :
            \E a \in PageAlloc(mem) :
              \E r \in PageInsert(a.mem, PgdirOf(envs, e), a.pp, va, perm) :
                ReturnWith(c, IF r.ret = "OK" THEN r.mem ELSE PageFree(r.mem, a.pp))
      BY <1>11 DEF SysPageAlloc
    <2>2. PICK a \in PageAlloc(mem) :
            \E r \in PageInsert(a.mem, PgdirOf(envs, e), a.pp, va, perm) :
              ReturnWith(c, IF r.ret = "OK" THEN r.mem ELSE PageFree(r.mem, a.pp))
      BY <2>1
    <2>3. PICK r \in PageInsert(a.mem, PgdirOf(envs, e), a.pp, va, perm) :
            ReturnWith(c, IF r.ret = "OK" THEN r.mem ELSE PageFree(r.mem, a.pp))
      BY <2>2
    <2>4. a.pp \in Pages /\ a.mem \in Memory
      BY <1>2, PageAllocType
    <2>5. r.mem \in Memory
      BY <1>2, <1>3, <2>4, ConstTypes, PageInsertType
    <2>6. PageFree(r.mem, a.pp) \in Memory
      BY <2>4, <2>5, PageFreeType
    <2> QED
      BY <1>1, <2>3, <2>5, <2>6, ReturnWithBase
  <1>12. CASE SysPageMap(c)
    <2>1. PICK srce \in Named(c, TRUE), dste \in Named(c, TRUE), srcva \in UserVAs,
               perm \in Perms, dstva \in UserVAs :
            \E r \in PageInsert(mem, PgdirOf(envs, dste),
                                PageLookup(mem, PgdirOf(envs, srce), srcva), dstva, perm) :
              ReturnWith(c, r.mem)
      BY <1>12 DEF SysPageMap
    <2>2. PageLookup(mem, PgdirOf(envs, srce), srcva) \in Pages
      BY <1>2, ConstTypes, PteType
    <2> QED
      BY <1>1, <1>2, <1>3, <2>1, <2>2, ConstTypes, PageInsertType, ReturnWithBase
  <1>13. CASE SysPageUnmap(c)
    BY <1>1, <1>2, <1>13, ConstTypes, PageRemoveType, ReturnWithBase DEF SysPageUnmap
  <1>14. CASE SysIpcTrySend(c)
    <2>1. PICK dst \in Named(c, FALSE), value \in IpcValues, srcva \in VAs :
       \/ /\ Return(c, Delivered(Saved(c), Cur(c), dst, value), Cur(c))
          /\ UNCHANGED <<env_free_list, mem>>
       \/ \E perm \in Perms :
            \E r \in PageInsert(mem, PgdirOf(envs, dst),
                                PageLookup(mem, PgdirOf(envs, Cur(c)), srcva),
                                envs[dst].env_ipc_dstva, perm) :
                 /\ Return(c, IF r.ret = "OK"
                              THEN DeliveredPage(Saved(c), Cur(c), dst, value, perm)
                              ELSE Saved(c), Cur(c))
                 /\ mem' = r.mem
                 /\ UNCHANGED env_free_list
      BY <1>14 DEF SysIpcTrySend
    <2>2. dst \in Slots
      BY <1>2
    <2>3. CASE /\ Return(c, Delivered(Saved(c), Cur(c), dst, value), Cur(c))
               /\ UNCHANGED <<env_free_list, mem>>
      <3>1. Delivered(Saved(c), Cur(c), dst, value) \in [Slots -> Envs]
        BY <1>2, <2>2, DeliveredType
      <3> QED
        BY <1>2, <2>3, <3>1, SameRestTyped, ReturnBase
    <2>4. ASSUME NEW perm \in Perms,
                 NEW r \in PageInsert(mem, PgdirOf(envs, dst),
                                PageLookup(mem, PgdirOf(envs, Cur(c)), srcva),
                                envs[dst].env_ipc_dstva, perm),
                 Return(c, IF r.ret = "OK"
                              THEN DeliveredPage(Saved(c), Cur(c), dst, value, perm)
                              ELSE Saved(c), Cur(c)),
                 mem' = r.mem, UNCHANGED env_free_list
          PROVE  BaseInv'
      <3>1. DeliveredPage(Saved(c), Cur(c), dst, value, perm) \in [Slots -> Envs]
        BY <1>2, <1>3, <2>2, DeliveredPageType
      <3>2. /\ PageLookup(mem, PgdirOf(envs, Cur(c)), srcva) \in Pages
            /\ envs[dst].env_ipc_dstva \in VAs
        BY <1>2, <2>2, PteType DEF Envs
      <3>3. RestTyped
        BY <1>2, <1>3, <2>2, <2>4, <3>2, PageInsertType DEF RestTyped
      <3> QED
        BY <1>2, <2>4, <3>1, <3>3, ReturnBase
    <2> QED
      BY <2>1, <2>3, <2>4
  <1>15. CASE SysIpcRecv(c)
    <2>1. PICK dstva \in VAs :
            SchedYield(c, [Saved(c) EXCEPT ![Cur(c)].env_ipc_recving = TRUE,
                                           ![Cur(c)].env_ipc_dstva = dstva,
                                           ![Cur(c)].env_status = "NOT_RUNNABLE"], Cur(c))
      BY <1>15 DEF SysIpcRecv
    <2> DEFINE r == [Saved(c)[Cur(c)] EXCEPT !.env_ipc_recving = TRUE,
                       !.env_ipc_dstva = dstva, !.env_status = "NOT_RUNNABLE"]
    <2>2. r \in Envs
      BY <1>2, FieldTypes DEF EnvStatus
    <2>3. [Saved(c) EXCEPT ![Cur(c)].env_ipc_recving = TRUE,
                           ![Cur(c)].env_ipc_dstva = dstva,
                           ![Cur(c)].env_status = "NOT_RUNNABLE"]
            = [Saved(c) EXCEPT ![Cur(c)] = r]
      BY <1>2
    <2>4. [Saved(c) EXCEPT ![Cur(c)] = r] \in [Slots -> Envs]
      BY <1>2, <2>2
    <2> QED
      BY <1>2, <1>15, <2>1, <2>3, <2>4, SameRestTyped, SchedYieldBase DEF SysIpcRecv
  <1> QED
    BY <1>4, <1>5, <1>6, <1>7, <1>8, <1>9, <1>10, <1>11, <1>12, <1>13, <1>14, <1>15
       DEF Syscall

LEMMA HandlerBase ==
  ASSUME UserTf, BaseInv, NEW c \in CPUs, Handler(c)
  PROVE  BaseInv'
  <1>1. CASE SchedIdle(c)
    <2>1. kernel_lock = c
      BY <1>1 DEF SchedIdle, BaseInv, KernelMutex, InKernel
    <2>2. Cur(c) \in Slots \cup {NoEnv} /\ envs \in [Slots -> Envs]
      BY DEF BaseInv, TypeOK, Cur, Cpus
    <2> QED
      BY <1>1, <2>1, <2>2, SameRestTyped, SchedYieldBase DEF SchedIdle
  <1>2. CASE Reap(c)
    <2>1. kernel_lock = c /\ Cur(c) \in Slots /\ envs \in [Slots -> Envs]
      BY <1>2, ServingType DEF Reap, BaseInv, TypeOK
    <2>2. EnvFree(envs, Cur(c)) \in [Slots -> Envs]
      BY <2>1, EnvFreeType
    <2>3. RestTyped
      <3>1. DestroyRest(envs, Cur(c), Cur(c))
        BY <1>2 DEF Reap, DestroyRest, Deferred
      <3> QED
        BY <2>1, <3>1, DestroyRestTyped
    <2> QED
      BY <1>2, <2>1, <2>2, <2>3, SchedYieldBase DEF Reap
  <1>3. CASE Timer(c)
    BY <1>3, ServingType, SameRestTyped, SchedYieldBase DEF Timer, Serving
  <1>4. CASE UnexpectedTrap(c)
    BY <1>4, ServingType, EnvDestroyBase DEF UnexpectedTrap, Serving
  <1>5. CASE PageFaultHandler(c)
    <2>1. /\ kernel_lock = c /\ Cur(c) \in Slots
          /\ Saved(c) \in [Slots -> Envs]
      BY <1>5, ServingType DEF PageFaultHandler, Serving
    <2> DEFINE es == [Saved(c) EXCEPT ![Cur(c)].env_tf = "upcall"]
    <2>2. es \in [Slots -> Envs]
      BY <2>1, TfType DEF Trapframes
    <2>3. CASE EnvDestroy(c, Saved(c), Cur(c), Cur(c))
      BY <2>1, <2>3, EnvDestroyBase
    <2>4. CASE EnvRun(c, es, Cur(c), Cur(c)) /\ UNCHANGED <<env_free_list, mem>>
      BY <2>1, <2>2, <2>4, SameRestTyped, EnvRunBase
    <2>5. CASE Panic(c, Saved(c)) /\ UNCHANGED <<env_free_list, mem>>
      BY <2>1, <2>5, SameRestTyped, PanicBase
    <2> QED
      BY <1>5, <2>3, <2>4, <2>5 DEF PageFaultHandler
  <1>6. CASE Syscall(c)
    BY <1>6, SyscallBase
  <1> QED
    BY <1>1, <1>2, <1>3, <1>4, <1>5, <1>6 DEF Handler

(* The steps outside the handlers, each of which moves one CPU. *)
LEMMA MoveBase ==
  ASSUME BaseInv, NEW c \in CPUs,
         UNCHANGED <<envs, env_free_list, mem, panicstr>>,
         NEW at \in Places, NEW st \in {"UNUSED", "STARTED", "HALTED"},
         cpus' = [cpus EXCEPT ![c].cpu_status = st, ![c].at = at],
         kernel_lock' \in CPUs \cup {NoCpu},
         at \in InKernel <=> kernel_lock' = c,
         \A d \in CPUs \ {c} : kernel_lock' = d <=> kernel_lock = d,
         at \in {"user", "trap", "kernel", "pop"} => Cur(c) \in Slots,
         at = "halt" => st = "HALTED"
  PROVE  BaseInv'
  <1>1. \A d \in CPUs : d # c => cpus'[d] = cpus[d]
    BY DEF BaseInv, TypeOK
  <1>2. /\ cpus' \in [CPUs -> Cpus]
        /\ cpus'[c].at = at /\ cpus'[c].cpu_status = st /\ cpus'[c].cpu_env = Cur(c)
    BY DEF BaseInv, TypeOK, Cpus, Cur
  <1>3. TypeOK'
    BY <1>2 DEF BaseInv, TypeOK
  <1>4. KernelMutex'
    BY <1>1, <1>2 DEF BaseInv, KernelMutex
  <1>5. CurExists' /\ HaltedMarked'
    BY <1>1, <1>2 DEF BaseInv, CurExists, HaltedMarked, Cur
  <1> QED
    BY <1>3, <1>4, <1>5 DEF BaseInv

LEMMA BootBase ==
  ASSUME BaseInv, Boot
  PROVE  BaseInv'
  <1>1. mem \in Memory /\ envs \in [Slots -> Envs] /\ env_free_list \in Seq(Slots)
    BY DEF BaseInv, TypeOK
  <1>2. CASE EnvCreate
    <2>1. PICK vm \in EnvSetupVm(mem) :
            LET e == Head(env_free_list)
            IN  /\ envs' = [EnvAlloc(envs, e, ZeroId, vm) EXCEPT ![e].env_tf = "entry"]
                /\ env_free_list' = Tail(env_free_list)
                /\ mem' = vm.mem
      BY <1>2 DEF EnvCreate
    <2> DEFINE e == Head(env_free_list)
               new == EnvAlloc(envs, e, ZeroId, vm)
    <2>2. e \in Slots /\ Tail(env_free_list) \in Seq(Slots)
      BY <1>1, <1>2 DEF EnvCreate
    <2>3. vm.pgdir \in Pages /\ vm.mem \in Memory
      BY <1>1, EnvSetupVmType
    <2>4. new \in [Slots -> Envs]
      BY <1>1, <2>2, <2>3, ConstTypes, EnvAllocType
    <2>5. [new EXCEPT ![e].env_tf = "entry"] \in [Slots -> Envs]
      <3> HIDE DEF new, e
      <3> QED
        BY <2>2, <2>4, TfType DEF Trapframes
    <2> QED
      BY <1>2, <2>1, <2>2, <2>3, <2>5
         DEF EnvCreate, BaseInv, TypeOK, KernelMutex, CurExists, HaltedMarked, Cur
  <1>3. CASE RegionAlloc
    <2>1. PICK e \in Created, va \in Image, a \in PageAlloc(mem) :
            \E r \in PageInsert(a.mem, envs[e].env_pgdir, a.pp, va, {"P", "W", "U"}) :
              mem' = r.mem
      BY <1>3 DEF RegionAlloc, Missing
    <2>2. e \in Slots /\ va \in VAs /\ {"P", "W", "U"} \in SUBSET PermBits
      BY KernelAssumption, ConstTypes DEF Created, PermBits
    <2>3. envs[e].env_pgdir \in Pages /\ a.mem \in Memory /\ a.pp \in Pages
      BY <1>1, <2>2, PageAllocType DEF Envs
    <2>4. mem' \in Memory
      BY <2>1, <2>2, <2>3, PageInsertType
    <2> QED
      BY <1>3, <2>4
         DEF RegionAlloc, BaseInv, TypeOK, KernelMutex, CurExists, HaltedMarked, Cur
  <1>4. CASE FirstSched
    <2>1. kernel_lock = BSP /\ BSP \in CPUs
      BY <1>4, EnvAssumption DEF FirstSched, ApsBooted, BaseInv, KernelMutex, InKernel
    <2>2. Cur(BSP) \in Slots \cup {NoEnv}
      BY <2>1 DEF BaseInv, TypeOK, Cur, Cpus
    <2> QED
      BY <1>1, <1>4, <2>1, <2>2, SameRestTyped, SchedYieldBase DEF FirstSched
  <1> QED
    BY <1>2, <1>3, <1>4 DEF Boot

(* The same, for a step that leaves cpu_status alone. *)
LEMMA MoveAtBase ==
  ASSUME BaseInv, NEW c \in CPUs,
         UNCHANGED <<envs, env_free_list, mem, panicstr>>,
         NEW at \in Places \ {"halt"},
         cpus' = [cpus EXCEPT ![c].at = at],
         kernel_lock' \in CPUs \cup {NoCpu},
         at \in InKernel <=> kernel_lock' = c,
         \A d \in CPUs \ {c} : kernel_lock' = d <=> kernel_lock = d,
         at \in {"user", "trap", "kernel", "pop"} => Cur(c) \in Slots
  PROVE  BaseInv'
  <1>1. cpus[c].cpu_status \in {"UNUSED", "STARTED", "HALTED"}
    BY DEF BaseInv, TypeOK, Cpus
  <1>2. cpus' = [cpus EXCEPT ![c].cpu_status = cpus[c].cpu_status, ![c].at = at]
    BY DEF BaseInv, TypeOK, Cpus
  <1> QED
    BY <1>1, <1>2, MoveBase

LEMMA CpuStepBase ==
  ASSUME UserTf, BaseInv, NEW c \in CPUs, CpuStep(c)
  PROVE  BaseInv'
  <1> USE EnvAssumption DEF InKernel, Places
  <1>1. /\ kernel_lock \in CPUs \cup {NoCpu}
        /\ cpus[c].at \in InKernel <=> kernel_lock = c
        /\ cpus[c].at \in {"user", "trap", "kernel", "pop"} => Cur(c) \in Slots
    BY DEF BaseInv, TypeOK, KernelMutex, CurExists
  <1>2. CASE MpMain(c)
    BY <1>1, <1>2, MoveBase DEF MpMain
  <1>3. CASE TrapFromUser(c)
    BY <1>1, <1>3, MoveAtBase DEF TrapFromUser
  <1>4. CASE TrapFromHalt(c)
    <2>1. cpus[c].cpu_status = "HALTED"
      BY <1>4 DEF TrapFromHalt, BaseInv, HaltedMarked
    <2>2. CASE panicstr
      BY <1>1, <1>4, <2>2, MoveAtBase DEF TrapFromHalt
    <2>3. CASE ~panicstr
      BY <1>1, <1>4, <2>1, <2>3, MoveBase DEF TrapFromHalt
    <2> QED
      BY <2>2, <2>3
  <1>5. CASE LockKernel(c)
    <2>1. cpus' = [cpus EXCEPT ![c].at = IF cpus[c].at = "trap" THEN "kernel" ELSE "sched"]
      BY <1>5 DEF LockKernel
    <2> QED
      BY <1>1, <1>5, <2>1, MoveAtBase DEF LockKernel
  <1>6. CASE Handler(c)
    BY <1>6, HandlerBase
  <1>7. CASE EnvPopTf(c)
    BY <1>1, <1>7, MoveAtBase DEF EnvPopTf
  <1>8. CASE Monitor(c)
    BY <1>8 DEF Monitor, vars, BaseInv, TypeOK, KernelMutex, CurExists, HaltedMarked, Cur
  <1> QED
    BY <1>2, <1>3, <1>4, <1>5, <1>6, <1>7, <1>8 DEF CpuStep

LEMMA InitBase ==
  ASSUME Init
  PROVE  BaseInv
  <1>1. envs \in [Slots -> Envs]
    <2>1. FALSE \in BOOLEAN /\ <<0, 0>> \in VAs /\ 0 \in IpcValues /\ {} \in SUBSET PermBits
      BY PmapAssumption, EnvAssumption DEF VAs, UserVAs, DX, TX
    <2> QED
      BY <2>1, ConstTypes DEF Init, EnvInit, Envs, Trapframes, EnvStatus
  <1>2. env_free_list \in Seq(Slots)
    BY EnvAssumption DEF Init, EnvInit, Slots
  <1>3. /\ cpus \in [CPUs -> Cpus]
        /\ \A c \in CPUs : cpus[c].at = IF c = BSP THEN "init" ELSE "off"
    BY ConstTypes DEF Init, Cpus, Places
  <1>4. TypeOK
    BY <1>1, <1>2, <1>3, MemInitType, EnvAssumption DEF Init, TypeOK
  <1>5. KernelMutex /\ CurExists /\ HaltedMarked
    BY <1>3 DEF Init, KernelMutex, InKernel, CurExists, HaltedMarked
  <1> QED
    BY <1>4, <1>5 DEF BaseInv

(* BaseInv is an invariant of the kernel, whatever else programs do. *)
THEOREM BaseInvariant ==
  ASSUME UserTf
  PROVE  Spec => []BaseInv
  <1>1. Init => BaseInv
    BY InitBase
  <1>2. BaseInv /\ [Next]_vars => BaseInv'
    <2> SUFFICES ASSUME BaseInv, [Next]_vars PROVE BaseInv'
      OBVIOUS
    <2>1. CASE Boot
      BY <2>1, BootBase
    <2>2. ASSUME NEW c \in CPUs, CpuStep(c) PROVE BaseInv'
      BY <2>2, CpuStepBase, UserTf
    <2>3. CASE UNCHANGED vars
      BY <2>3 DEF vars, BaseInv, TypeOK, KernelMutex, CurExists, HaltedMarked, Cur
    <2> QED
      BY <2>1, <2>2, <2>3 DEF Next
  <1> QED
    BY <1>1, <1>2, PTL DEF Spec

(* Every state of the kernel is well formed. *)
THEOREM TypeCorrect ==
  ASSUME UserTf
  PROVE  Spec => []TypeOK
  <1>1. BaseInv => TypeOK
    BY DEF BaseInv
  <1> QED
    BY <1>1, BaseInvariant, PTL

(* The big kernel lock: a CPU is between lock_kernel() and unlock_kernel() *)
(* exactly while it holds the lock, so that no two CPUs are, for any       *)
(* number of CPUs and any behaviour of the programs but one: a Trapframe   *)
(* argument in the kernel's memory, where the store could hit the lock.    *)
THEOREM KernelMutexHolds ==
  ASSUME UserTf
  PROVE  Spec => []KernelMutex
  <1>1. BaseInv => KernelMutex
    BY DEF BaseInv
  <1> QED
    BY <1>1, BaseInvariant, PTL

-----------------------------------------------------------------------------
(***************************************************************************)
(* Proofs that environments and CPUs stay consistent: an environment is on *)
(* one CPU at most, its status says so, the free list is exact, and a      *)
(* blocked receiver is not runnable; for every number of CPUs and slots,   *)
(* provided that programs keep the two conventions that concern env_status *)
(* and give the kernel no Trapframe of its own to write.                   *)
(***************************************************************************)

Disciplined == {"idle_child", "destroy_once", "user_tf"} \subseteq Discipline

LEMMA DisciplinedUserTf == Disciplined => UserTf
  BY DEF Disciplined, UserTf

\* A CPU without an environment has no curenv left over.
IdleNoEnv ==
  \A c \in CPUs : cpus[c].at \in {"off", "init", "wait", "sched", "halt"} => Cur(c) = NoEnv

SchedInv == OneCpuPerEnv /\ StatusMatchesCpus /\ FreeListExact /\ RecvBlocked /\ IdleNoEnv

-----------------------------------------------------------------------------
(* Inside a handler of CPU c the environments es and the curenv cur are    *)
(* ahead of the variables: SchedInv as it concerns the other CPUs.         *)

OnCpu == {"RUNNING", "DYING"}
Others(c) == {d \in CPUs \ {c} : Runs(d)}

Blocked(r) == r.env_ipc_recving /\ r.env_status # "FREE" => r.env_status = "NOT_RUNNABLE"

Consistent(c, es, cur) ==
  /\ \A d \in Others(c) : Cur(d) # cur /\ es[Cur(d)].env_status \in OnCpu
  /\ \A e \in Slots : es[e].env_status \in OnCpu => e = cur \/ \E d \in Others(c) : Cur(d) = e
  /\ \A e \in Slots : Blocked(es[e])

\* The free list the handler leaves is the one of es.
ListOf(es, list) ==
  /\ \A i, j \in DOMAIN list : list[i] = list[j] => i = j
  /\ \A e \in Slots : es[e].env_status = "FREE" <=> \E i \in DOMAIN list : list[i] = e

-----------------------------------------------------------------------------
(* Every way out of the kernel turns a consistent handler into SchedInv.   *)

LEMMA EnvRunSched ==
  ASSUME BaseInv, SchedInv, NEW c \in CPUs,
         NEW es \in [Slots -> Envs], NEW cur \in Slots \cup {NoEnv}, NEW e \in Slots,
         Consistent(c, es, cur), ListOf(es, env_free_list'),
         cur = NoEnv \/ es[cur].env_status # "DYING",
         \/ es[e].env_status = "RUNNABLE"
         \/ e = cur /\ es[e].env_status = "RUNNING",
         EnvRun(c, es, cur, e)
  PROVE  SchedInv'
  <1>1. \A d \in CPUs : d # c => cpus'[d] = cpus[d]
    BY DEF EnvRun, BaseInv, TypeOK
  <1>2. cpus'[c].at = "pop" /\ cpus'[c].cpu_env = e
    BY DEF EnvRun, BaseInv, TypeOK, Cpus
  <1>3. \A d \in CPUs : Runs(d)' <=> d = c \/ d \in Others(c)
    BY <1>1, <1>2, EnvAssumption DEF Runs, Cur, Others, Slots
  <1>4. Cur(c)' = e /\ \A d \in Others(c) : Cur(d)' = Cur(d)
    BY <1>1, <1>2 DEF Cur, Others
  <1>5. \A d \in Others(c) : Cur(d) \in Slots /\ Cur(d) # e
    BY DEF Consistent, OnCpu, Others, Runs, BaseInv, TypeOK, Cpus, Cur
  <1>6. \A s \in Slots : /\ s = e => envs'[s].env_status = "RUNNING"
                         /\ s # e /\ s = cur => envs'[s].env_status \notin OnCpu
                         /\ s # e /\ s # cur => envs'[s].env_status = es[s].env_status
                         /\ envs'[s].env_status = "FREE" <=> es[s].env_status = "FREE"
                         /\ Blocked(es[s]) => Blocked(envs'[s])
    BY EnvAssumption DEF EnvRun, SwitchTo, OnCpu, Envs, EnvStatus, Blocked, Slots
  <1>7. OneCpuPerEnv'
    BY <1>3, <1>4, <1>5, EnvAssumption DEF OneCpuPerEnv, Others, SchedInv
  <1>8. StatusMatchesCpus'
    BY <1>3, <1>4, <1>5, <1>6 DEF StatusMatchesCpus, Consistent, OnCpu, Others
  <1>9. FreeListExact'
    BY <1>6 DEF FreeListExact, ListOf
  <1>10. RecvBlocked'
    BY <1>6 DEF RecvBlocked, Consistent, Blocked
  <1>11. IdleNoEnv'
    BY <1>1, <1>2 DEF SchedInv, IdleNoEnv, Cur
  <1> QED
    BY <1>7, <1>8, <1>9, <1>10, <1>11 DEF SchedInv

LEMMA SchedHaltSched ==
  ASSUME BaseInv, SchedInv, NEW c \in CPUs,
         NEW es \in [Slots -> Envs], NEW cur \in Slots \cup {NoEnv},
         Consistent(c, es, cur), ListOf(es, env_free_list'),
         cur = NoEnv \/ es[cur].env_status \notin OnCpu,
         SchedHalt(c, es, cur)
  PROVE  SchedInv'
  <1>1. \A d \in CPUs : d # c => cpus'[d] = cpus[d]
    BY DEF SchedHalt, BaseInv, TypeOK
  <1>2. \/ cpus'[c].at = "monitor"
        \/ cpus'[c].at = "halt" /\ cpus'[c].cpu_env = NoEnv
    BY DEF SchedHalt, BaseInv, TypeOK, Cpus
  <1>3. \A d \in CPUs : Runs(d)' <=> d \in Others(c)
    BY <1>1, <1>2 DEF Runs, Cur, Others
  <1>4. \A d \in Others(c) : Cur(d)' = Cur(d)
    BY <1>1 DEF Cur, Others
  <1>5. \A d \in Others(c) : Cur(d) \in Slots
    BY DEF Others, Runs, BaseInv, TypeOK, Cpus, Cur
  <1>6. envs' = es
    BY DEF SchedHalt
  <1>7. OneCpuPerEnv'
    BY <1>3, <1>4 DEF OneCpuPerEnv, Others, SchedInv
  <1>8. StatusMatchesCpus'
    BY <1>3, <1>4, <1>5, <1>6, EnvAssumption
       DEF StatusMatchesCpus, Consistent, OnCpu, Others, Slots
  <1>9. FreeListExact'
    BY <1>6 DEF FreeListExact, ListOf
  <1>10. RecvBlocked'
    BY <1>6 DEF RecvBlocked, Consistent, Blocked
  <1>11. IdleNoEnv'
    BY <1>1, <1>2 DEF SchedInv, IdleNoEnv, Cur
  <1> QED
    BY <1>7, <1>8, <1>9, <1>10, <1>11 DEF SchedInv

LEMMA SchedYieldSched ==
  ASSUME BaseInv, SchedInv, NEW c \in CPUs,
         NEW es \in [Slots -> Envs], NEW cur \in Slots \cup {NoEnv},
         Consistent(c, es, cur), ListOf(es, env_free_list'),
         cur = NoEnv \/ es[cur].env_status # "DYING",
         SchedYield(c, es, cur)
  PROVE  SchedInv'
  <1>1. CASE \E e \in FirstRunnable(es, cur) : EnvRun(c, es, cur, e)
    BY <1>1, EnvRunSched DEF FirstRunnable, Runnable
  <1>2. CASE StillRuns(es, cur) /\ EnvRun(c, es, cur, cur)
    BY <1>2, EnvRunSched DEF StillRuns
  <1>3. CASE ~StillRuns(es, cur) /\ SchedHalt(c, es, cur)
    BY <1>3, SchedHaltSched DEF StillRuns, OnCpu
  <1> QED
    BY <1>1, <1>2, <1>3 DEF SchedYield

LEMMA ReturnSched ==
  ASSUME BaseInv, SchedInv, NEW c \in CPUs,
         NEW es \in [Slots -> Envs], NEW cur \in Slots \cup {NoEnv},
         Consistent(c, es, cur), ListOf(es, env_free_list'),
         cur = NoEnv \/ es[cur].env_status # "DYING",
         Return(c, es, cur)
  PROVE  SchedInv'
  <1>1. CASE StillRuns(es, cur) /\ EnvRun(c, es, cur, cur)
    BY <1>1, EnvRunSched DEF StillRuns
  <1>2. CASE SchedYield(c, es, cur)
    BY <1>2, SchedYieldSched
  <1> QED
    BY <1>1, <1>2 DEF Return

(* panic() leaves the current environment on its CPU. *)
LEMMA PanicSched ==
  ASSUME BaseInv, SchedInv, NEW c \in CPUs,
         NEW es \in [Slots -> Envs], Cur(c) \in Slots,
         Consistent(c, es, Cur(c)), ListOf(es, env_free_list'),
         es[Cur(c)].env_status \in OnCpu,
         Panic(c, es)
  PROVE  SchedInv'
  <1>1. \A d \in CPUs : d # c => cpus'[d] = cpus[d]
    BY DEF Panic, BaseInv, TypeOK
  <1>2. cpus'[c].at = "panic" /\ cpus'[c].cpu_env = Cur(c)
    BY DEF Panic, BaseInv, TypeOK, Cpus, Cur
  <1>3. \A d \in CPUs : Runs(d)' <=> d = c \/ d \in Others(c)
    BY <1>1, <1>2, EnvAssumption DEF Runs, Cur, Others, Slots
  <1>4. \A d \in CPUs : Cur(d)' = Cur(d)
    BY <1>1, <1>2 DEF Cur
  <1>5. \A d \in Others(c) : Cur(d) \in Slots
    BY DEF Others, Runs, BaseInv, TypeOK, Cpus, Cur
  <1>6. envs' = es
    BY DEF Panic
  <1>7. OneCpuPerEnv'
    BY <1>3, <1>4 DEF OneCpuPerEnv, Others, SchedInv, Consistent
  <1>8. StatusMatchesCpus'
    BY <1>3, <1>4, <1>5, <1>6 DEF StatusMatchesCpus, Consistent, OnCpu, Others
  <1>9. FreeListExact'
    BY <1>6 DEF FreeListExact, ListOf
  <1>10. RecvBlocked'
    BY <1>6 DEF RecvBlocked, Consistent, Blocked
  <1>11. IdleNoEnv'
    BY <1>1, <1>2 DEF SchedInv, IdleNoEnv, Cur
  <1> QED
    BY <1>7, <1>8, <1>9, <1>10, <1>11 DEF SchedInv

-----------------------------------------------------------------------------
(* A handler starts consistent, and stays so when it changes an            *)
(* environment that no other CPU runs.                                     *)

LEMMA ServingSched ==
  ASSUME BaseInv, SchedInv, NEW c \in CPUs, Serving(c)
  PROVE  /\ Cur(c) \in Slots /\ Saved(c) \in [Slots -> Envs]
         /\ Saved(c)[Cur(c)].env_status = "RUNNING"
         /\ ~Saved(c)[Cur(c)].env_ipc_recving
         /\ Consistent(c, Saved(c), Cur(c))
         /\ ListOf(Saved(c), env_free_list)
         /\ \A e \in Slots : /\ Saved(c)[e].env_status = envs[e].env_status
                             /\ Saved(c)[e].env_ipc_recving = envs[e].env_ipc_recving
         /\ \A checkperm, e : e \in Named(c, checkperm) =>
              e \in Slots /\ envs[e].env_status # "FREE"
  <1>1. Cur(c) \in Slots /\ Saved(c) \in [Slots -> Envs]
    BY ServingType DEF Serving
  <1>2. \A e \in Slots : /\ Saved(c)[e].env_status = envs[e].env_status
                         /\ Saved(c)[e].env_ipc_recving = envs[e].env_ipc_recving
    BY <1>1 DEF Saved, BaseInv, TypeOK, Envs
  <1>3. envs[Cur(c)].env_status = "RUNNING"
    BY <1>1, EnvAssumption DEF Serving, SchedInv, StatusMatchesCpus, Runs, Slots
  <1>4. ~envs[Cur(c)].env_ipc_recving
    BY <1>1, <1>3 DEF SchedInv, RecvBlocked
  <1>5. Runs(c)
    BY <1>1, EnvAssumption DEF Serving, Runs, Slots
  <1>6. \A d \in Others(c) : Cur(d) \in Slots
    BY DEF Others, Runs, BaseInv, TypeOK, Cpus, Cur
  <1>7. Consistent(c, Saved(c), Cur(c))
    BY <1>2, <1>5, <1>6
       DEF Consistent, Others, OnCpu, Blocked, SchedInv, StatusMatchesCpus, OneCpuPerEnv, RecvBlocked
  <1>8. ListOf(Saved(c), env_free_list)
    BY <1>2 DEF ListOf, SchedInv, FreeListExact
  <1>9. \A checkperm, e : e \in Named(c, checkperm) => e \in Slots /\ envs[e].env_status # "FREE"
    BY <1>1, <1>3 DEF Named, Envid2Env, ENVX, EnvId
  <1> QED
    BY <1>1, <1>2, <1>3, <1>4, <1>7, <1>8, <1>9

LEMMA UpdateConsistent ==
  ASSUME BaseInv, NEW c \in CPUs, NEW es, NEW new, NEW cur, NEW e \in Slots,
         Consistent(c, es, cur),
         e = cur \/ es[e].env_status \notin OnCpu,
         \A s \in Slots \ {e} : /\ new[s].env_status = es[s].env_status
                                /\ new[s].env_ipc_recving = es[s].env_ipc_recving,
         Blocked(new[e]),
         e = cur \/ new[e].env_status \notin OnCpu
  PROVE  Consistent(c, new, cur)
  <1>1. \A d \in Others(c) : Cur(d) \in Slots /\ Cur(d) # e
    BY DEF Consistent, OnCpu, Others, Runs, BaseInv, TypeOK, Cpus, Cur
  <1> QED
    BY <1>1 DEF Consistent, OnCpu, Blocked

(* The current environment leaves its CPU. *)
LEMMA LeaveConsistent ==
  ASSUME BaseInv, NEW c \in CPUs, NEW es, NEW cur,
         Consistent(c, es, cur),
         cur = NoEnv \/ es[cur].env_status \notin OnCpu
  PROVE  Consistent(c, es, NoEnv)
  <1>1. \A d \in Others(c) : Cur(d) \in Slots /\ Cur(d) # NoEnv
    BY EnvAssumption DEF Others, Runs, BaseInv, TypeOK, Cpus, Cur, Slots
  <1> QED
    BY <1>1 DEF Consistent

(* A destroy of an environment that another CPU runs. *)
LEMMA DeferConsistent ==
  ASSUME NEW c \in CPUs, NEW es \in [Slots -> Envs], NEW cur, NEW e \in Slots,
         Consistent(c, es, cur), e # cur, es[e].env_status = "RUNNING", BaseInv
  PROVE  Consistent(c, [es EXCEPT ![e].env_status = "DYING"], cur)
  <1> DEFINE new == [es EXCEPT ![e].env_status = "DYING"]
  <1>1. \A s \in Slots : /\ s # e => new[s] = es[s]
                         /\ new[s].env_ipc_recving = es[s].env_ipc_recving
    BY DEF Envs
  <1>2. new[e].env_status = "DYING"
    BY DEF Envs
  <1>3. \A d \in Others(c) : Cur(d) \in Slots
    BY DEF Others, Runs, BaseInv, TypeOK, Cpus, Cur
  <1>4. ~es[e].env_ipc_recving
    BY DEF Consistent, Blocked
  <1> HIDE DEF new
  <1> QED
    BY <1>1, <1>2, <1>3, <1>4 DEF Consistent, OnCpu, Blocked

LEMMA SameFree ==
  ASSUME NEW es, NEW new, NEW list, ListOf(es, list),
         \A s \in Slots : new[s].env_status = "FREE" <=> es[s].env_status = "FREE"
  PROVE  ListOf(new, list)
  BY DEF ListOf

(* env_free puts the slot on the list. *)
LEMMA PushFree ==
  ASSUME NEW es, NEW new, NEW list \in Seq(Slots), NEW e \in Slots,
         ListOf(es, list), es[e].env_status # "FREE",
         \A s \in Slots : new[s].env_status = "FREE" <=> s = e \/ es[s].env_status = "FREE"
  PROVE  ListOf(new, <<e>> \o list)
  <1> DEFINE l == <<e>> \o list
  <1>1. /\ DOMAIN l = 1 .. (Len(list) + 1) /\ DOMAIN list = 1 .. Len(list)
        /\ Len(list) \in Nat
        /\ l[1] = e /\ \A i \in 2 .. (Len(list) + 1) : l[i] = list[i - 1]
    OBVIOUS
  <1>2. \A i \in DOMAIN list : list[i] # e
    BY DEF ListOf
  <1> HIDE DEF l
  <1>3. ASSUME NEW i \in DOMAIN l, NEW j \in DOMAIN l, l[i] = l[j] PROVE i = j
    BY <1>1, <1>2, <1>3, SMTT(30) DEF ListOf
  <1>4. ASSUME NEW s \in Slots
        PROVE  (\E i \in DOMAIN l : l[i] = s) <=> s = e \/ \E i \in DOMAIN list : list[i] = s
    <2>1. ASSUME NEW i \in DOMAIN list PROVE i + 1 \in DOMAIN l /\ l[i + 1] = list[i]
      BY <1>1
    <2> QED
      BY <1>1, <2>1
  <1>5. ListOf(new, l)
    BY <1>3, <1>4 DEF ListOf
  <1> QED
    BY <1>5 DEF l

(* env_alloc takes the first slot of the list. *)
LEMMA PopFree ==
  ASSUME NEW es, NEW new, NEW list \in Seq(Slots), list # <<>>, ListOf(es, list),
         \A s \in Slots : new[s].env_status = "FREE" <=>
                            s # Head(list) /\ es[s].env_status = "FREE"
  PROVE  ListOf(new, Tail(list)) /\ Head(list) \in Slots /\ es[Head(list)].env_status = "FREE"
  <1> DEFINE l == Tail(list)
  <1>1. /\ DOMAIN l = 1 .. (Len(list) - 1) /\ DOMAIN list = 1 .. Len(list)
        /\ Len(list) \in Nat \ {0}
        /\ Head(list) = list[1] /\ \A i \in 1 .. (Len(list) - 1) : l[i] = list[i + 1]
    OBVIOUS
  <1>2. Head(list) \in Slots /\ es[Head(list)].env_status = "FREE"
    BY <1>1 DEF ListOf
  <1> HIDE DEF l
  <1>3. ASSUME NEW i \in DOMAIN l, NEW j \in DOMAIN l, l[i] = l[j] PROVE i = j
    <2>1. /\ i \in Int /\ j \in Int
          /\ i + 1 \in DOMAIN list /\ j + 1 \in DOMAIN list
          /\ list[i + 1] = list[j + 1]
      BY <1>1, <1>3
    <2>2. i + 1 = j + 1
      BY <2>1 DEF ListOf
    <2> QED
      BY <2>1, <2>2
  <1>4. ASSUME NEW s \in Slots
        PROVE  (\E i \in DOMAIN l : l[i] = s) <=>
                 s # Head(list) /\ \E i \in DOMAIN list : list[i] = s
    <2>1. ASSUME NEW i \in DOMAIN list, i # 1 PROVE i - 1 \in DOMAIN l /\ l[i - 1] = list[i]
      BY <1>1, <2>1
    <2>2. ASSUME NEW i \in DOMAIN l
          PROVE  i + 1 \in DOMAIN list /\ l[i] = list[i + 1] /\ list[i + 1] # list[1]
      BY <1>1 DEF ListOf
    <2> QED
      BY <1>1, <2>1, <2>2
  <1>5. ListOf(new, l)
    BY <1>3, <1>4 DEF ListOf
  <1> QED
    BY <1>2, <1>5 DEF l

(* What env_destroy leaves, when the environment is not already dying on   *)
(* another CPU.                                                            *)
LEMMA DestroyedSched ==
  ASSUME BaseInv, NEW c \in CPUs, NEW es \in [Slots -> Envs], NEW cur \in Slots,
         NEW e \in Slots, Consistent(c, es, cur), ListOf(es, env_free_list),
         e = cur \/ es[e].env_status \in {"RUNNING", "RUNNABLE", "NOT_RUNNABLE"},
         es[cur].env_status = "RUNNING",
         DestroyRest(es, cur, e)
  PROVE  /\ ListOf(Destroyed(es, cur, e), env_free_list')
         /\ e = cur => Consistent(c, Destroyed(es, cur, e), NoEnv)
         /\ e # cur => /\ Consistent(c, Destroyed(es, cur, e), cur)
                       /\ Destroyed(es, cur, e)[cur].env_status = "RUNNING"
  <1>1. CASE Deferred(es, cur, e)
    <2> DEFINE new == [es EXCEPT ![e].env_status = "DYING"]
    <2>1. Destroyed(es, cur, e) = new /\ env_free_list' = env_free_list
      BY <1>1 DEF Destroyed, DestroyRest
    <2>2. Consistent(c, new, cur)
      BY <1>1, DeferConsistent DEF Deferred
    <2>3. \A s \in Slots : /\ new[s].env_status = "FREE" <=> es[s].env_status = "FREE"
                           /\ s # e => new[s] = es[s]
      BY <1>1 DEF Deferred, Envs
    <2> HIDE DEF new
    <2> QED
      BY <1>1, <2>1, <2>2, <2>3, SameFree DEF Deferred
  <1>2. CASE ~Deferred(es, cur, e)
    <2> DEFINE new == EnvFree(es, e)
    <2>1. Destroyed(es, cur, e) = new /\ env_free_list' = <<e>> \o env_free_list
      BY <1>2 DEF Destroyed, DestroyRest, EnvFreeRest
    <2>2. new[e].env_status = "FREE" /\ \A s \in Slots \ {e} : new[s] = es[s]
      BY DEF EnvFree, Envs
    <2>3. e = cur \/ es[e].env_status \notin OnCpu
      BY <1>2 DEF Deferred, OnCpu
    <2>4. es[e].env_status # "FREE" /\ env_free_list \in Seq(Slots)
      BY DEF BaseInv, TypeOK
    <2> HIDE DEF new
    <2>5. ListOf(new, <<e>> \o env_free_list)
      BY <2>2, <2>4, PushFree
    <2>6. Blocked(new[e]) /\ new[e].env_status \notin OnCpu
      BY <2>2 DEF Blocked, OnCpu
    <2>7. Consistent(c, new, cur)
      BY <2>2, <2>3, <2>6, UpdateConsistent
    <2>8. e = cur => Consistent(c, new, NoEnv)
      BY <2>6, <2>7, LeaveConsistent
    <2> QED
      BY <2>1, <2>2, <2>5, <2>7, <2>8
  <1> QED
    BY <1>1, <1>2

LEMMA EnvDestroySched ==
  ASSUME BaseInv, SchedInv, NEW c \in CPUs, Serving(c), NEW e \in Slots,
         e = Cur(c) \/ envs[e].env_status \in {"RUNNING", "RUNNABLE", "NOT_RUNNABLE"},
         EnvDestroy(c, Saved(c), Cur(c), e)
  PROVE  SchedInv'
  <1> DEFINE es == Saved(c)  cur == Cur(c)
  <1>1. /\ cur \in Slots /\ es \in [Slots -> Envs] /\ es[cur].env_status = "RUNNING"
        /\ Consistent(c, es, cur) /\ ListOf(es, env_free_list)
        /\ es[e].env_status = envs[e].env_status
    BY ServingSched
  <1> HIDE DEF es, cur
  <1>2. EnvDestroy(c, es, cur, e)
        /\ (e = cur \/ es[e].env_status \in {"RUNNING", "RUNNABLE", "NOT_RUNNABLE"})
    BY <1>1 DEF es, cur
  <1>3. DestroyRest(es, cur, e) /\ Destroyed(es, cur, e) \in [Slots -> Envs]
    BY <1>1, <1>2, DestroyedType DEF EnvDestroy
  <1>4. /\ ListOf(Destroyed(es, cur, e), env_free_list')
        /\ e = cur => Consistent(c, Destroyed(es, cur, e), NoEnv)
        /\ e # cur => /\ Consistent(c, Destroyed(es, cur, e), cur)
                      /\ Destroyed(es, cur, e)[cur].env_status = "RUNNING"
    BY <1>1, <1>2, <1>3, DestroyedSched
  <1>5. CASE e = cur
    BY <1>2, <1>3, <1>4, <1>5, SchedYieldSched DEF EnvDestroy
  <1>6. CASE e # cur
    BY <1>1, <1>2, <1>3, <1>4, <1>6, ReturnSched DEF EnvDestroy
  <1> QED
    BY <1>5, <1>6

-----------------------------------------------------------------------------
(* Every handler keeps SchedInv.                                           *)

(* A call that changes no status. *)
LEMMA QuietSched ==
  ASSUME BaseInv, SchedInv, NEW c \in CPUs, Serving(c), NEW es \in [Slots -> Envs],
         \A s \in Slots : /\ es[s].env_status = envs[s].env_status
                          /\ es[s].env_ipc_recving = envs[s].env_ipc_recving,
         UNCHANGED env_free_list,
         Return(c, es, Cur(c)) \/ SchedYield(c, es, Cur(c)) \/ EnvRun(c, es, Cur(c), Cur(c))
           \/ Panic(c, es)
  PROVE  SchedInv'
  <1>1. /\ Cur(c) \in Slots /\ Consistent(c, Saved(c), Cur(c))
        /\ ListOf(Saved(c), env_free_list) /\ Saved(c)[Cur(c)].env_status = "RUNNING"
        /\ \A s \in Slots : /\ es[s].env_status = Saved(c)[s].env_status
                            /\ es[s].env_ipc_recving = Saved(c)[s].env_ipc_recving
    BY ServingSched
  <1>2. ListOf(es, env_free_list')
    BY <1>1, SameFree
  <1>3. Consistent(c, es, Cur(c))
    <2>1. \A d \in Others(c) : Cur(d) \in Slots
      BY DEF Others, Runs, BaseInv, TypeOK, Cpus, Cur
    <2> QED
      BY <1>1, <2>1 DEF Consistent, Blocked
  <1>4. es[Cur(c)].env_status = "RUNNING"
    BY <1>1
  <1>5. CASE Return(c, es, Cur(c))
    BY <1>1, <1>2, <1>3, <1>4, <1>5, ReturnSched
  <1>6. CASE SchedYield(c, es, Cur(c))
    BY <1>1, <1>2, <1>3, <1>4, <1>6, SchedYieldSched
  <1>7. CASE EnvRun(c, es, Cur(c), Cur(c))
    BY <1>1, <1>2, <1>3, <1>4, <1>7, EnvRunSched
  <1>8. CASE Panic(c, es)
    BY <1>1, <1>2, <1>3, <1>4, <1>8, PanicSched DEF OnCpu
  <1> QED
    BY <1>5, <1>6, <1>7, <1>8

(* A call that changes the status of one environment no other CPU runs. *)
LEMMA OneStatusSched ==
  ASSUME BaseInv, SchedInv, NEW c \in CPUs, Serving(c), NEW es \in [Slots -> Envs],
         NEW e \in Slots, envs[e].env_status # "FREE",
         e = Cur(c) \/ envs[e].env_status \notin OnCpu,
         \A s \in Slots \ {e} : /\ es[s].env_status = envs[s].env_status
                                /\ es[s].env_ipc_recving = envs[s].env_ipc_recving,
         Blocked(es[e]), es[e].env_status \in {"RUNNABLE", "NOT_RUNNABLE"},
         UNCHANGED env_free_list,
         Return(c, es, Cur(c)) \/ SchedYield(c, es, Cur(c))
  PROVE  SchedInv'
  <1>1. /\ Cur(c) \in Slots /\ Consistent(c, Saved(c), Cur(c))
        /\ ListOf(Saved(c), env_free_list) /\ Saved(c)[Cur(c)].env_status = "RUNNING"
        /\ \A s \in Slots : /\ envs[s].env_status = Saved(c)[s].env_status
                            /\ envs[s].env_ipc_recving = Saved(c)[s].env_ipc_recving
    BY ServingSched
  <1>2. ListOf(es, env_free_list')
    <2>1. \A s \in Slots : es[s].env_status = "FREE" <=> Saved(c)[s].env_status = "FREE"
      BY <1>1
    <2> QED
      BY <1>1, <2>1, SameFree
  <1>3. Consistent(c, es, Cur(c))
    <2>1. /\ e = Cur(c) \/ Saved(c)[e].env_status \notin OnCpu
          /\ \A s \in Slots \ {e} : /\ es[s].env_status = Saved(c)[s].env_status
                                    /\ es[s].env_ipc_recving = Saved(c)[s].env_ipc_recving
          /\ es[e].env_status \notin OnCpu
      BY <1>1 DEF OnCpu
    <2> QED
      BY <1>1, <2>1, UpdateConsistent
  <1>4. es[Cur(c)].env_status # "DYING"
    BY <1>1
  <1> QED
    BY <1>1, <1>2, <1>3, <1>4, ReturnSched, SchedYieldSched

(* What the assignments of the handlers do to the two fields that matter. *)
LEMMA EnvAllocFields ==
  ASSUME NEW es \in [Slots -> Envs], NEW e \in Slots, NEW parent_id, NEW vm, NEW new,
         new = EnvAlloc(es, e, parent_id, vm)
  PROVE  /\ \A s \in Slots \ {e} : new[s] = es[s]
         /\ new[e].env_status = "RUNNABLE" /\ ~new[e].env_ipc_recving
  BY DEF EnvAlloc, Envs

LEMMA StatusFields ==
  ASSUME NEW es \in [Slots -> Envs], NEW e \in Slots, NEW st \in EnvStatus, NEW new,
         new = [es EXCEPT ![e].env_status = st]
  PROVE  /\ new \in [Slots -> Envs]
         /\ \A s \in Slots \ {e} : new[s] = es[s]
         /\ new[e].env_status = st
         /\ new[e].env_ipc_recving = es[e].env_ipc_recving
  <1>1. new \in [Slots -> Envs]
    BY StatusType
  <1> QED
    BY <1>1 DEF Envs

LEMMA TfFields ==
  ASSUME NEW es \in [Slots -> Envs], NEW e \in Slots, NEW tf \in Trapframes, NEW new,
         new = [es EXCEPT ![e].env_tf = tf]
  PROVE  /\ new \in [Slots -> Envs]
         /\ \A s \in Slots : /\ new[s].env_status = es[s].env_status
                             /\ new[s].env_ipc_recving = es[s].env_ipc_recving
  <1>1. new \in [Slots -> Envs]
    BY TfType
  <1> QED
    BY <1>1 DEF Envs

LEMMA ExoforkSched ==
  ASSUME BaseInv, SchedInv, NEW c \in CPUs, SysExofork(c)
  PROVE  SchedInv'
  <1>1. PICK vm \in EnvSetupVm(mem) :
          LET e == Head(env_free_list)
              new == EnvAlloc(Saved(c), e, envs[Cur(c)].env_id, vm)
          IN  /\ Return(c, [new EXCEPT ![e].env_status = "NOT_RUNNABLE",
                                       ![e].env_tf = "fork"], Cur(c))
              /\ env_free_list' = Tail(env_free_list)
    BY DEF SysExofork
  <1> DEFINE e == Head(env_free_list)
             new == EnvAlloc(Saved(c), e, envs[Cur(c)].env_id, vm)
             es == [new EXCEPT ![e].env_status = "NOT_RUNNABLE", ![e].env_tf = "fork"]
  <1>2. Serving(c) /\ env_free_list # <<>>
    BY DEF SysExofork, Calling
  <1>3. /\ Cur(c) \in Slots /\ Saved(c) \in [Slots -> Envs]
        /\ Consistent(c, Saved(c), Cur(c)) /\ ListOf(Saved(c), env_free_list)
        /\ Saved(c)[Cur(c)].env_status = "RUNNING"
        /\ mem \in Memory /\ envs \in [Slots -> Envs] /\ env_free_list \in Seq(Slots)
    BY <1>2, ServingSched DEF BaseInv, TypeOK
  <1>4. e \in Slots
    BY <1>2, <1>3
  <1>5. new \in [Slots -> Envs]
    <2>1. vm.pgdir \in Pages /\ envs[Cur(c)].env_id \in EnvId
      BY <1>3, EnvSetupVmType DEF Envs
    <2> QED
      BY <1>3, <1>4, <2>1, EnvAllocType
  <1>6. /\ \A s \in Slots \ {e} : new[s] = Saved(c)[s]
        /\ new[e].env_status = "RUNNABLE" /\ ~new[e].env_ipc_recving
    <2>1. new = EnvAlloc(Saved(c), e, envs[Cur(c)].env_id, vm)
      OBVIOUS
    <2> HIDE DEF new, e
    <2> QED
      BY <1>3, <1>4, <2>1, EnvAllocFields
  <1> HIDE DEF new, e
  <1>7. /\ es \in [Slots -> Envs]
        /\ \A s \in Slots \ {e} : es[s] = Saved(c)[s]
        /\ es[e].env_status = "NOT_RUNNABLE" /\ ~es[e].env_ipc_recving
    <2> DEFINE n == [new EXCEPT ![e].env_status = "NOT_RUNNABLE"]
    <2>1. n \in [Slots -> Envs]
      BY <1>4, <1>5, StatusType DEF EnvStatus
    <2>2. /\ \A s \in Slots \ {e} : n[s] = new[s]
          /\ n[e].env_status = "NOT_RUNNABLE" /\ ~n[e].env_ipc_recving
      BY <1>4, <1>5, <1>6 DEF Envs
    <2>3. es = [n EXCEPT ![e].env_tf = "fork"]
      OBVIOUS
    <2> HIDE DEF n, es
    <2>4. es \in [Slots -> Envs]
      BY <1>4, <2>1, <2>3, TfType DEF Trapframes
    <2>5. /\ \A s \in Slots \ {e} : es[s] = n[s]
          /\ es[e].env_status = n[e].env_status
          /\ es[e].env_ipc_recving = n[e].env_ipc_recving
      BY <1>4, <2>1, <2>3 DEF Envs
    <2> QED
      BY <1>6, <2>2, <2>4, <2>5
  <1> HIDE DEF es
  <1>8. ListOf(es, Tail(env_free_list)) /\ Saved(c)[e].env_status = "FREE"
    <2>1. \A s \in Slots : es[s].env_status = "FREE" <=>
                             s # Head(env_free_list) /\ Saved(c)[s].env_status = "FREE"
      BY <1>4, <1>7 DEF e
    <2> QED
      BY <1>2, <1>3, <2>1, PopFree DEF e
  <1>9. Consistent(c, es, Cur(c))
    BY <1>3, <1>4, <1>7, <1>8, UpdateConsistent DEF OnCpu, Blocked
  <1>10. es[Cur(c)].env_status # "DYING"
    BY <1>3, <1>7, <1>8
  <1>11. Return(c, es, Cur(c)) /\ env_free_list' = Tail(env_free_list)
    BY <1>1 DEF es, new, e
  <1> QED
    BY <1>3, <1>7, <1>8, <1>9, <1>10, <1>11, ReturnSched

LEMMA SetStatusSched ==
  ASSUME Disciplined, BaseInv, SchedInv, NEW c \in CPUs, SysEnvSetStatus(c)
  PROVE  SchedInv'
  <1>1. PICK e \in Named(c, TRUE), status \in {"RUNNABLE", "NOT_RUNNABLE"} :
          /\ KeepsIdleChild(envs, Cur(c), e)
          /\ Return(c, [Saved(c) EXCEPT ![e].env_status = status], Cur(c))
    BY DEF SysEnvSetStatus
  <1> DEFINE es == [Saved(c) EXCEPT ![e].env_status = status]
  <1>2. Serving(c) /\ UNCHANGED env_free_list
    BY DEF SysEnvSetStatus, Calling
  <1>3. /\ e \in Slots /\ envs[e].env_status # "FREE" /\ Saved(c) \in [Slots -> Envs]
        /\ ~Saved(c)[Cur(c)].env_ipc_recving
        /\ \A s \in Slots : /\ Saved(c)[s].env_status = envs[s].env_status
                            /\ Saved(c)[s].env_ipc_recving = envs[s].env_ipc_recving
    BY <1>2, ServingSched
  <1>4. e = Cur(c) \/ envs[e].env_status \notin OnCpu
    BY <1>1 DEF Disciplined, KeepsIdleChild, OnCpu
  <1>5. ~Saved(c)[e].env_ipc_recving
    BY <1>1, <1>3 DEF Disciplined, KeepsIdleChild
  <1>6. /\ es \in [Slots -> Envs]
        /\ \A s \in Slots \ {e} : es[s] = Saved(c)[s]
        /\ es[e].env_status = status
        /\ es[e].env_ipc_recving = Saved(c)[e].env_ipc_recving
    <2>1. es = [Saved(c) EXCEPT ![e].env_status = status] /\ status \in EnvStatus
      BY DEF EnvStatus
    <2> HIDE DEF es
    <2> QED
      BY <1>3, <2>1, StatusFields
  <1> HIDE DEF es
  <1>7. Return(c, es, Cur(c))
    BY <1>1 DEF es
  <1>8. Blocked(es[e])
    BY <1>5, <1>6 DEF Blocked
  <1> QED
    BY <1>2, <1>3, <1>4, <1>6, <1>7, <1>8, OneStatusSched

LEMMA SetTrapframeSched ==
  ASSUME Disciplined, BaseInv, SchedInv, NEW c \in CPUs, SysEnvSetTrapframe(c)
  PROVE  SchedInv'
  <1>1. PICK e \in Named(c, TRUE), tf \in VAs :
     LET good == UserMemCheck(mem, PgdirOf(envs, e), tf, {"U", "P"})
         checked == IF good THEN Saved(c) ELSE Destroyed(Saved(c), Cur(c), e)
         goesOn == good \/ e # Cur(c)
     IN  /\ KeepsIdleChild(envs, Cur(c), e)
         /\ IF good THEN UNCHANGED <<env_free_list, mem>>
                    ELSE DestroyRest(Saved(c), Cur(c), e)
         /\ \/ ~goesOn /\ SchedYield(c, checked, NoEnv)
            \/ goesOn /\ Return(c, [checked EXCEPT ![e].env_tf = "given"], Cur(c))
            \/ goesOn /\ Panic(c, checked)
    BY SetTrapframeSteps, DisciplinedUserTf
  <1> DEFINE good == UserMemCheck(mem, PgdirOf(envs, e), tf, {"U", "P"})
             cur == Cur(c)
             gone == Destroyed(Saved(c), cur, e)
  <1>2. Serving(c)
    BY DEF SysEnvSetTrapframe, Calling
  <1>3. /\ e \in Slots /\ envs[e].env_status # "FREE"
        /\ cur \in Slots /\ Saved(c) \in [Slots -> Envs]
        /\ Saved(c)[cur].env_status = "RUNNING"
        /\ Consistent(c, Saved(c), cur) /\ ListOf(Saved(c), env_free_list)
        /\ \A s \in Slots : /\ Saved(c)[s].env_status = envs[s].env_status
                            /\ Saved(c)[s].env_ipc_recving = envs[s].env_ipc_recving
    BY <1>2, ServingSched
  <1> HIDE DEF good, cur, gone
  <1>4. CASE good
    <2> DEFINE es == [Saved(c) EXCEPT ![e].env_tf = "given"]
    <2>1. /\ UNCHANGED env_free_list
          /\ Return(c, es, Cur(c)) \/ Panic(c, Saved(c))
      BY <1>1, <1>4 DEF good
    <2>2. /\ es \in [Slots -> Envs]
          /\ \A s \in Slots : /\ es[s].env_status = Saved(c)[s].env_status
                              /\ es[s].env_ipc_recving = Saved(c)[s].env_ipc_recving
      <3>1. es = [Saved(c) EXCEPT ![e].env_tf = "given"] /\ "given" \in Trapframes
        BY DEF Trapframes
      <3> HIDE DEF es
      <3> QED
        BY <1>3, <3>1, TfFields
    <2> HIDE DEF es
    <2>3. CASE Return(c, es, Cur(c))
      BY <1>2, <1>3, <2>1, <2>2, <2>3, QuietSched
    <2>4. CASE Panic(c, Saved(c))
      BY <1>2, <1>3, <2>1, <2>4, QuietSched
    <2> QED
      BY <2>1, <2>3, <2>4
  <1>5. CASE ~good
    <2> DEFINE es == [gone EXCEPT ![e].env_tf = "given"]
    <2>1. /\ DestroyRest(Saved(c), cur, e)
          /\ \/ e = cur /\ SchedYield(c, gone, NoEnv)
             \/ e # cur /\ Return(c, es, cur)
             \/ e # cur /\ Panic(c, gone)
      BY <1>1, <1>5 DEF good, cur, gone
    <2>2. e = cur \/ Saved(c)[e].env_status \in {"RUNNABLE", "NOT_RUNNABLE"}
      BY <1>1, <1>3 DEF Disciplined, KeepsIdleChild, cur
    <2>3. /\ ListOf(gone, env_free_list')
          /\ e = cur => Consistent(c, gone, NoEnv)
          /\ e # cur => Consistent(c, gone, cur) /\ gone[cur].env_status = "RUNNING"
      BY <1>3, <2>1, <2>2, DestroyedSched DEF gone
    <2>4. gone \in [Slots -> Envs]
      BY <1>3, DestroyedType DEF gone
    <2>5. CASE e = cur /\ SchedYield(c, gone, NoEnv)
      BY <2>3, <2>4, <2>5, SchedYieldSched
    <2>6. CASE e # cur /\ Return(c, es, cur)
      <3>1. /\ es \in [Slots -> Envs]
            /\ \A s \in Slots : /\ es[s].env_status = gone[s].env_status
                                /\ es[s].env_ipc_recving = gone[s].env_ipc_recving
        <4>1. es = [gone EXCEPT ![e].env_tf = "given"] /\ "given" \in Trapframes
          BY DEF Trapframes
        <4> HIDE DEF es
        <4> QED
          BY <1>3, <2>4, <4>1, TfFields
      <3> HIDE DEF es
      <3>2. ListOf(es, env_free_list')
        BY <2>3, <3>1, SameFree
      <3>3. Consistent(c, es, cur)
        <4>1. \A d \in Others(c) : Cur(d) \in Slots
          BY DEF Others, Runs, BaseInv, TypeOK, Cpus, Cur
        <4> QED
          BY <2>3, <2>6, <3>1, <4>1 DEF Consistent, Blocked
      <3>4. es[cur].env_status # "DYING"
        BY <1>3, <2>3, <2>6, <3>1
      <3> QED
        BY <1>3, <2>6, <3>1, <3>2, <3>3, <3>4, ReturnSched
    <2>7. CASE e # cur /\ Panic(c, gone)
      BY <1>3, <2>3, <2>4, <2>7, PanicSched DEF cur, OnCpu
    <2> QED
      BY <2>1, <2>5, <2>6, <2>7
  <1> QED
    BY <1>4, <1>5

LEMMA DeliveredFields ==
  ASSUME NEW es \in [Slots -> Envs], NEW cur, NEW dst \in Slots, NEW value, NEW new,
         new = Delivered(es, cur, dst, value)
  PROVE  /\ \A s \in Slots \ {dst} : new[s] = es[s]
         /\ new[dst].env_status = "RUNNABLE" /\ ~new[dst].env_ipc_recving
  BY DEF Delivered, Envs

LEMMA DeliveredPageFields ==
  ASSUME NEW es \in [Slots -> Envs], NEW cur \in Slots, NEW dst \in Slots,
         NEW value \in IpcValues, NEW perm, NEW new,
         new = DeliveredPage(es, cur, dst, value, perm)
  PROVE  /\ \A s \in Slots \ {dst} : new[s] = es[s]
         /\ new[dst].env_status = "RUNNABLE" /\ ~new[dst].env_ipc_recving
  <1> DEFINE d == Delivered(es, cur, dst, value)
  <1>1. d \in [Slots -> Envs]
    BY DeliveredType
  <1>2. d = Delivered(es, cur, dst, value) /\ new = [d EXCEPT ![dst].env_ipc_perm = perm]
    BY DEF DeliveredPage
  <1> HIDE DEF d
  <1>3. /\ \A s \in Slots \ {dst} : d[s] = es[s]
        /\ d[dst].env_status = "RUNNABLE" /\ ~d[dst].env_ipc_recving
    BY <1>2, DeliveredFields
  <1> QED
    BY <1>1, <1>2, <1>3 DEF Envs

(* A send wakes a receiver that is blocked, hence on no CPU. *)
LEMMA IpcTrySendSched ==
  ASSUME BaseInv, SchedInv, NEW c \in CPUs, SysIpcTrySend(c)
  PROVE  SchedInv'
  <1>1. PICK dst \in Named(c, FALSE), value \in IpcValues, srcva \in VAs :
     /\ envs[dst].env_ipc_recving
     /\ UNCHANGED env_free_list
     /\ \/ Return(c, Delivered(Saved(c), Cur(c), dst, value), Cur(c))
        \/ \E perm \in Perms :
             \/ Return(c, DeliveredPage(Saved(c), Cur(c), dst, value, perm), Cur(c))
             \/ Return(c, Saved(c), Cur(c))
    BY DEF SysIpcTrySend
  <1>2. Serving(c)
    BY DEF SysIpcTrySend, Calling
  <1>3. /\ dst \in Slots /\ envs[dst].env_status # "FREE"
        /\ Cur(c) \in Slots /\ Saved(c) \in [Slots -> Envs]
        /\ \A s \in Slots : /\ Saved(c)[s].env_status = envs[s].env_status
                            /\ Saved(c)[s].env_ipc_recving = envs[s].env_ipc_recving
    BY <1>2, ServingSched
  <1>4. envs[dst].env_status = "NOT_RUNNABLE"
    BY <1>1, <1>3 DEF SchedInv, RecvBlocked
  <1>5. ASSUME NEW es \in [Slots -> Envs], Return(c, es, Cur(c)),
               \A s \in Slots \ {dst} : es[s] = Saved(c)[s],
               es[dst].env_status = "RUNNABLE", ~es[dst].env_ipc_recving
        PROVE  SchedInv'
    <2>1. Blocked(es[dst]) /\ envs[dst].env_status \notin OnCpu
      BY <1>4, <1>5 DEF Blocked, OnCpu
    <2> QED
      BY <1>1, <1>2, <1>3, <1>5, <2>1, OneStatusSched
  <1>6. CASE Return(c, Delivered(Saved(c), Cur(c), dst, value), Cur(c))
    <2> DEFINE es == Delivered(Saved(c), Cur(c), dst, value)
    <2>1. es = Delivered(Saved(c), Cur(c), dst, value) /\ es \in [Slots -> Envs]
      BY <1>3, DeliveredType
    <2>2. Return(c, es, Cur(c))
      BY <1>6
    <2> HIDE DEF es
    <2>3. /\ \A s \in Slots \ {dst} : es[s] = Saved(c)[s]
          /\ es[dst].env_status = "RUNNABLE" /\ ~es[dst].env_ipc_recving
      BY <1>3, <2>1, DeliveredFields
    <2> QED
      BY <1>5, <2>1, <2>2, <2>3
  <1>7. ASSUME NEW perm \in Perms,
               Return(c, DeliveredPage(Saved(c), Cur(c), dst, value, perm), Cur(c))
        PROVE  SchedInv'
    <2> DEFINE es == DeliveredPage(Saved(c), Cur(c), dst, value, perm)
    <2>1. es = DeliveredPage(Saved(c), Cur(c), dst, value, perm) /\ es \in [Slots -> Envs]
      BY <1>3, SyscallAssumption, DeliveredPageType
    <2>2. Return(c, es, Cur(c))
      BY <1>7
    <2> HIDE DEF es
    <2>3. /\ \A s \in Slots \ {dst} : es[s] = Saved(c)[s]
          /\ es[dst].env_status = "RUNNABLE" /\ ~es[dst].env_ipc_recving
      BY <1>3, <2>1, DeliveredPageFields
    <2> QED
      BY <1>5, <2>1, <2>2, <2>3
  <1>8. CASE Return(c, Saved(c), Cur(c))
    BY <1>1, <1>2, <1>3, <1>8, QuietSched
  <1> QED
    BY <1>1, <1>6, <1>7, <1>8

LEMMA IpcRecvSched ==
  ASSUME BaseInv, SchedInv, NEW c \in CPUs, SysIpcRecv(c)
  PROVE  SchedInv'
  <1>1. PICK dstva \in VAs :
          SchedYield(c, [Saved(c) EXCEPT ![Cur(c)].env_ipc_recving = TRUE,
                                         ![Cur(c)].env_ipc_dstva = dstva,
                                         ![Cur(c)].env_status = "NOT_RUNNABLE"], Cur(c))
    BY DEF SysIpcRecv
  <1>2. Serving(c) /\ UNCHANGED env_free_list
    BY DEF SysIpcRecv, Calling
  <1>3. /\ Cur(c) \in Slots /\ Saved(c) \in [Slots -> Envs]
        /\ Saved(c)[Cur(c)].env_status = "RUNNING"
        /\ \A s \in Slots : /\ Saved(c)[s].env_status = envs[s].env_status
                            /\ Saved(c)[s].env_ipc_recving = envs[s].env_ipc_recving
    BY <1>2, ServingSched
  <1> DEFINE r == [Saved(c)[Cur(c)] EXCEPT !.env_ipc_recving = TRUE,
                     !.env_ipc_dstva = dstva, !.env_status = "NOT_RUNNABLE"]
             es == [Saved(c) EXCEPT ![Cur(c)] = r]
  <1>4. r \in Envs /\ r.env_status = "NOT_RUNNABLE"
    <2>1. r \in Envs
      BY <1>3, FieldTypes DEF EnvStatus
    <2>2. r.env_status = "NOT_RUNNABLE"
      BY <1>3 DEF Envs
    <2> QED
      BY <2>1, <2>2
  <1>5. SchedYield(c, es, Cur(c))
    <2>1. es = [Saved(c) EXCEPT ![Cur(c)].env_ipc_recving = TRUE,
                                ![Cur(c)].env_ipc_dstva = dstva,
                                ![Cur(c)].env_status = "NOT_RUNNABLE"]
      BY <1>3
    <2> QED
      BY <1>1, <2>1
  <1> HIDE DEF r
  <1>6. /\ es \in [Slots -> Envs]
        /\ \A s \in Slots \ {Cur(c)} : es[s] = Saved(c)[s]
        /\ es[Cur(c)] = r
    BY <1>3, <1>4
  <1> HIDE DEF es
  <1>7. Blocked(es[Cur(c)])
    BY <1>4, <1>6 DEF Blocked
  <1> QED
    BY <1>2, <1>3, <1>4, <1>5, <1>6, <1>7, OneStatusSched

LEMMA SyscallSched ==
  ASSUME Disciplined, BaseInv, SchedInv, NEW c \in CPUs, Syscall(c)
  PROVE  SchedInv'
  <1>1. Serving(c)
    BY DEF Syscall, SysNoEffect, SysYield, SysEnvDestroy, SysExofork, SysEnvSetStatus,
           SysEnvSetTrapframe, SysEnvSetPgfaultUpcall, SysPageAlloc, SysPageMap,
           SysPageUnmap, SysIpcTrySend, SysIpcRecv, Calling
  <1>2. /\ Cur(c) \in Slots /\ Saved(c) \in [Slots -> Envs]
        /\ \A s \in Slots : /\ Saved(c)[s].env_status = envs[s].env_status
                            /\ Saved(c)[s].env_ipc_recving = envs[s].env_ipc_recving
        /\ \A checkperm, e : e \in Named(c, checkperm) =>
             e \in Slots /\ envs[e].env_status # "FREE"
    BY <1>1, ServingSched
  <1>3. CASE SysNoEffect(c)
    BY <1>1, <1>2, <1>3, QuietSched DEF SysNoEffect
  <1>4. CASE SysYield(c)
    BY <1>1, <1>2, <1>4, QuietSched DEF SysYield
  <1>5. CASE SysEnvDestroy(c)
    <2>1. PICK e \in Named(c, TRUE) :
            KeepsDestroyOnce(envs, Cur(c), e) /\ EnvDestroy(c, Saved(c), Cur(c), e)
      BY <1>5 DEF SysEnvDestroy
    <2>2. e = Cur(c) \/ envs[e].env_status # "DYING"
      BY <2>1 DEF Disciplined, KeepsDestroyOnce
    <2>3. e \in Slots /\ envs[e].env_status \in EnvStatus \ {"FREE"}
      BY <1>2 DEF BaseInv, TypeOK, Envs
    <2>4. e = Cur(c) \/ envs[e].env_status \in {"RUNNING", "RUNNABLE", "NOT_RUNNABLE"}
      BY <2>2, <2>3 DEF EnvStatus
    <2> QED
      BY <1>1, <2>1, <2>3, <2>4, EnvDestroySched
  <1>6. CASE SysExofork(c)
    BY <1>6, ExoforkSched
  <1>7. CASE SysEnvSetStatus(c)
    BY <1>7, SetStatusSched
  <1>8. CASE SysEnvSetTrapframe(c)
    BY <1>8, SetTrapframeSched
  <1>9. CASE SysEnvSetPgfaultUpcall(c)
    <2>1. PICK e \in Named(c, TRUE), func \in BOOLEAN :
            Return(c, [Saved(c) EXCEPT ![e].env_pgfault_upcall = func], Cur(c))
      BY <1>9 DEF SysEnvSetPgfaultUpcall
    <2> DEFINE es == [Saved(c) EXCEPT ![e].env_pgfault_upcall = func]
    <2>2. es \in [Slots -> Envs]
      BY <1>2, FieldTypes
    <2>3. \A s \in Slots : /\ es[s].env_status = Saved(c)[s].env_status
                           /\ es[s].env_ipc_recving = Saved(c)[s].env_ipc_recving
      BY <1>2 DEF Envs
    <2>4. Return(c, es, Cur(c)) /\ UNCHANGED env_free_list
      BY <1>9, <2>1 DEF SysEnvSetPgfaultUpcall
    <2> HIDE DEF es
    <2> QED
      BY <1>1, <1>2, <2>2, <2>3, <2>4, QuietSched
  <1>10. ASSUME NEW m, ReturnWith(c, m) PROVE SchedInv'
    BY <1>1, <1>2, <1>10, QuietSched DEF ReturnWith
  <1>11. CASE SysPageAlloc(c) \/ SysPageMap(c) \/ SysPageUnmap(c)
    BY <1>10, <1>11 DEF SysPageAlloc, SysPageMap, SysPageUnmap
  <1>12. CASE SysIpcTrySend(c)
    BY <1>12, IpcTrySendSched
  <1>13. CASE SysIpcRecv(c)
    BY <1>13, IpcRecvSched
  <1> QED
    BY <1>3, <1>4, <1>5, <1>6, <1>7, <1>8, <1>9, <1>11, <1>12, <1>13 DEF Syscall

LEMMA HandlerSched ==
  ASSUME Disciplined, BaseInv, SchedInv, NEW c \in CPUs, Handler(c)
  PROVE  SchedInv'
  <1>1. CASE SchedIdle(c)
    <2>1. /\ Cur(c) = NoEnv /\ ~Runs(c)
          /\ envs \in [Slots -> Envs] /\ UNCHANGED env_free_list
      BY <1>1 DEF SchedIdle, SchedInv, IdleNoEnv, Runs, BaseInv, TypeOK
    <2>2. \A d \in Others(c) : Cur(d) # NoEnv
      BY DEF Others, Runs
    <2>3. Consistent(c, envs, Cur(c))
      BY <2>1, <2>2 DEF Consistent, Others, OnCpu, Blocked, SchedInv, StatusMatchesCpus, RecvBlocked
    <2>4. ListOf(envs, env_free_list')
      BY <2>1 DEF ListOf, SchedInv, FreeListExact
    <2> QED
      BY <1>1, <2>1, <2>3, <2>4, SchedYieldSched DEF SchedIdle
  <1>2. CASE Reap(c)
    <2> DEFINE cur == Cur(c)  new == EnvFree(envs, cur)
    <2>1. cur \in Slots /\ envs \in [Slots -> Envs] /\ env_free_list \in Seq(Slots)
      BY <1>2, ServingType DEF Reap, BaseInv, TypeOK
    <2>2. Runs(c)
      BY <1>2, <2>1, EnvAssumption DEF Reap, Runs, Slots
    <2>3. \A d \in Others(c) : Cur(d) \in Slots
      BY DEF Others, Runs, BaseInv, TypeOK, Cpus, Cur
    <2>4. Consistent(c, envs, cur)
      BY <2>2, <2>3 DEF Consistent, Others, OnCpu, Blocked,
                        SchedInv, StatusMatchesCpus, OneCpuPerEnv, RecvBlocked
    <2>5. new \in [Slots -> Envs]
      BY <2>1, EnvFreeType
    <2>6. new[cur].env_status = "FREE" /\ \A s \in Slots \ {cur} : new[s] = envs[s]
      BY <2>1 DEF EnvFree, Envs
    <2>7. /\ SchedYield(c, new, NoEnv)
          /\ env_free_list' = <<cur>> \o env_free_list
          /\ envs[cur].env_status = "DYING"
      BY <1>2 DEF Reap, EnvFreeRest
    <2> HIDE DEF new, cur
    <2>8. ListOf(new, env_free_list')
      <3>1. ListOf(envs, env_free_list)
        BY DEF ListOf, SchedInv, FreeListExact
      <3>2. \A s \in Slots : new[s].env_status = "FREE" <=> s = cur \/ envs[s].env_status = "FREE"
        BY <2>1, <2>6
      <3> QED
        BY <2>1, <2>7, <3>1, <3>2, PushFree
    <2>9. Consistent(c, new, cur)
      <3>1. Blocked(new[cur])
        BY <2>6 DEF Blocked
      <3> QED
        BY <2>1, <2>4, <2>6, <3>1, UpdateConsistent
    <2>10. Consistent(c, new, NoEnv)
      BY <2>6, <2>9, LeaveConsistent DEF OnCpu
    <2> QED
      BY <2>5, <2>7, <2>8, <2>10, SchedYieldSched
  <1>3. CASE Timer(c)
    BY <1>3, ServingSched, QuietSched DEF Timer
  <1>4. CASE UnexpectedTrap(c)
    BY <1>4, ServingSched, EnvDestroySched DEF UnexpectedTrap
  <1>5. CASE PageFaultHandler(c)
    <2>1. /\ Cur(c) \in Slots /\ Saved(c) \in [Slots -> Envs]
          /\ \A s \in Slots : /\ Saved(c)[s].env_status = envs[s].env_status
                              /\ Saved(c)[s].env_ipc_recving = envs[s].env_ipc_recving
          /\ Serving(c)
      BY <1>5, ServingSched DEF PageFaultHandler
    <2> DEFINE es == [Saved(c) EXCEPT ![Cur(c)].env_tf = "upcall"]
    <2>2. CASE EnvDestroy(c, Saved(c), Cur(c), Cur(c))
      BY <2>1, <2>2, EnvDestroySched
    <2>3. CASE EnvRun(c, es, Cur(c), Cur(c)) /\ UNCHANGED env_free_list
      <3>1. es = [Saved(c) EXCEPT ![Cur(c)].env_tf = "upcall"] /\ "upcall" \in Trapframes
        BY DEF Trapframes
      <3> HIDE DEF es
      <3>2. /\ es \in [Slots -> Envs]
            /\ \A s \in Slots : /\ es[s].env_status = Saved(c)[s].env_status
                                /\ es[s].env_ipc_recving = Saved(c)[s].env_ipc_recving
        BY <2>1, <3>1, TfFields
      <3> QED
        BY <2>1, <2>3, <3>2, QuietSched
    <2>4. CASE Panic(c, Saved(c)) /\ UNCHANGED env_free_list
      BY <2>1, <2>4, QuietSched
    <2> QED
      BY <1>5, <2>2, <2>3, <2>4 DEF PageFaultHandler
  <1>6. CASE Syscall(c)
    BY <1>6, SyscallSched
  <1> QED
    BY <1>1, <1>2, <1>3, <1>4, <1>5, <1>6 DEF Handler

(* A step that moves one CPU, keeps its environment and is no way in or    *)
(* out of an idle place.                                                   *)
LEMMA MoveSched ==
  ASSUME BaseInv, SchedInv, NEW c \in CPUs, UNCHANGED <<envs, env_free_list>>,
         \A d \in CPUs \ {c} : cpus'[d] = cpus[d],
         cpus'[c].cpu_env = cpus[c].cpu_env,
         Runs(c)' <=> Runs(c),
         cpus'[c].at \in {"off", "init", "wait", "sched", "halt"} => Cur(c) = NoEnv
  PROVE  SchedInv'
  <1>1. \A d \in CPUs : (Runs(d)' <=> Runs(d)) /\ Cur(d)' = Cur(d)
    BY DEF Runs, Cur
  <1>2. OneCpuPerEnv' /\ StatusMatchesCpus'
    BY <1>1 DEF SchedInv, OneCpuPerEnv, StatusMatchesCpus
  <1>3. FreeListExact' /\ RecvBlocked'
    BY DEF SchedInv, FreeListExact, RecvBlocked
  <1>4. IdleNoEnv'
    BY <1>1 DEF SchedInv, IdleNoEnv
  <1> QED
    BY <1>2, <1>3, <1>4 DEF SchedInv

LEMMA CpuStepSched ==
  ASSUME Disciplined, BaseInv, SchedInv, NEW c \in CPUs, CpuStep(c)
  PROVE  SchedInv'
  <1>1. cpus \in [CPUs -> Cpus] /\ (cpus[c].at \in {"off", "init", "wait", "sched", "halt"} => Cur(c) = NoEnv)
    BY DEF BaseInv, TypeOK, SchedInv, IdleNoEnv
  <1>2. ASSUME NEW at, cpus' = [cpus EXCEPT ![c].at = at]
        PROVE  /\ \A d \in CPUs \ {c} : cpus'[d] = cpus[d]
               /\ cpus'[c].cpu_env = cpus[c].cpu_env /\ cpus'[c].at = at
    BY <1>1, <1>2 DEF Cpus
  <1>3. ASSUME NEW at, NEW st, cpus' = [cpus EXCEPT ![c].cpu_status = st, ![c].at = at]
        PROVE  /\ \A d \in CPUs \ {c} : cpus'[d] = cpus[d]
               /\ cpus'[c].cpu_env = cpus[c].cpu_env /\ cpus'[c].at = at
    BY <1>1, <1>3 DEF Cpus
  <1>4. CASE MpMain(c)
    BY <1>1, <1>3, <1>4, MoveSched DEF MpMain, Runs, Cur
  <1>5. CASE TrapFromUser(c)
    BY <1>1, <1>2, <1>5, MoveSched DEF TrapFromUser, Runs, Cur
  <1>6. CASE TrapFromHalt(c)
    BY <1>1, <1>2, <1>3, <1>6, MoveSched DEF TrapFromHalt, Runs, Cur
  <1>7. CASE LockKernel(c)
    BY <1>1, <1>2, <1>7, MoveSched DEF LockKernel, Runs, Cur
  <1>8. CASE Handler(c)
    BY <1>8, HandlerSched
  <1>9. CASE EnvPopTf(c)
    BY <1>1, <1>2, <1>9, MoveSched DEF EnvPopTf, Runs, Cur
  <1>10. CASE Monitor(c)
    BY <1>1, <1>10, MoveSched DEF Monitor, vars, Runs, Cur
  <1> QED
    BY <1>4, <1>5, <1>6, <1>7, <1>8, <1>9, <1>10 DEF CpuStep

LEMMA BootSched ==
  ASSUME BaseInv, SchedInv, Boot
  PROVE  SchedInv'
  <1>1. CASE EnvCreate
    <2>1. PICK vm \in EnvSetupVm(mem) :
            LET e == Head(env_free_list)
            IN  /\ envs' = [EnvAlloc(envs, e, ZeroId, vm) EXCEPT ![e].env_tf = "entry"]
                /\ env_free_list' = Tail(env_free_list)
      BY <1>1 DEF EnvCreate
    <2> DEFINE e == Head(env_free_list)
               new == EnvAlloc(envs, e, ZeroId, vm)
    <2>2. /\ env_free_list \in Seq(Slots) /\ env_free_list # <<>> /\ e \in Slots
          /\ envs \in [Slots -> Envs] /\ UNCHANGED cpus
      BY <1>1 DEF EnvCreate, BaseInv, TypeOK
    <2>3. new \in [Slots -> Envs]
      <3>1. vm.pgdir \in Pages
        BY EnvSetupVmType DEF BaseInv, TypeOK
      <3> QED
        BY <2>2, <3>1, ConstTypes, EnvAllocType
    <2>4. new = EnvAlloc(envs, e, ZeroId, vm) /\ envs' = [new EXCEPT ![e].env_tf = "entry"]
      BY <2>1
    <2> HIDE DEF new, e
    <2>5. /\ \A s \in Slots \ {e} : new[s] = envs[s]
          /\ new[e].env_status = "RUNNABLE" /\ ~new[e].env_ipc_recving
      BY <2>2, <2>4, EnvAllocFields
    <2>6. \A s \in Slots : /\ envs'[s].env_status = new[s].env_status
                           /\ envs'[s].env_ipc_recving = new[s].env_ipc_recving
      BY <2>2, <2>3, <2>4, TfFields DEF Trapframes
    <2>7. ListOf(envs', Tail(env_free_list)) /\ envs[e].env_status = "FREE"
      <3>1. ListOf(envs, env_free_list)
        BY DEF SchedInv, FreeListExact, ListOf
      <3>2. \A s \in Slots : envs'[s].env_status = "FREE" <=>
                               s # Head(env_free_list) /\ envs[s].env_status = "FREE"
        BY <2>2, <2>5, <2>6 DEF e
      <3> QED
        BY <2>2, <3>1, <3>2, PopFree DEF e
    <2>8. FreeListExact'
      BY <2>1, <2>7 DEF FreeListExact, ListOf
    <2>9. \A s \in Slots : /\ envs'[s].env_status \in OnCpu <=> envs[s].env_status \in OnCpu
                           /\ envs[s].env_status \in OnCpu =>
                                envs'[s].env_status = envs[s].env_status
      BY <2>5, <2>6, <2>7 DEF OnCpu
    <2>10. \A c \in CPUs : Runs(c) => Cur(c) \in Slots
      BY DEF Runs, BaseInv, TypeOK, Cpus, Cur
    <2>11. StatusMatchesCpus'
      BY <2>2, <2>9, <2>10 DEF SchedInv, StatusMatchesCpus, OnCpu, Runs, Cur
    <2>12. RecvBlocked'
      BY <2>5, <2>6 DEF SchedInv, RecvBlocked
    <2>13. OneCpuPerEnv' /\ IdleNoEnv'
      BY <2>2 DEF SchedInv, OneCpuPerEnv, IdleNoEnv, Runs, Cur
    <2> QED
      BY <2>8, <2>11, <2>12, <2>13 DEF SchedInv
  <1>2. CASE RegionAlloc
    BY <1>2 DEF RegionAlloc, SchedInv, OneCpuPerEnv, StatusMatchesCpus, FreeListExact,
                RecvBlocked, IdleNoEnv, Runs, Cur
  <1>3. CASE FirstSched
    <2>1. /\ BSP \in CPUs /\ Cur(BSP) = NoEnv /\ ~Runs(BSP)
          /\ envs \in [Slots -> Envs] /\ UNCHANGED env_free_list
      BY <1>3, EnvAssumption
         DEF FirstSched, ApsBooted, SchedInv, IdleNoEnv, Runs, BaseInv, TypeOK
    <2>2. \A d \in Others(BSP) : Cur(d) # NoEnv
      BY DEF Others, Runs
    <2>3. Consistent(BSP, envs, Cur(BSP))
      BY <2>1, <2>2 DEF Consistent, Others, OnCpu, Blocked, SchedInv, StatusMatchesCpus, RecvBlocked
    <2>4. ListOf(envs, env_free_list')
      BY <2>1 DEF ListOf, SchedInv, FreeListExact
    <2> QED
      BY <1>3, <2>1, <2>3, <2>4, SchedYieldSched DEF FirstSched
  <1> QED
    BY <1>1, <1>2, <1>3 DEF Boot

LEMMA InitSched ==
  ASSUME Init
  PROVE  SchedInv
  <1>1. \A c \in CPUs : cpus[c].at \in {"init", "off"} /\ Cur(c) = NoEnv
    BY DEF Init, Cur
  <1>2. \A e \in Slots : envs[e].env_status = "FREE" /\ ~envs[e].env_ipc_recving
    BY DEF Init, EnvInit
  <1>3. FreeListExact
    <2>1. /\ DOMAIN env_free_list = 1 .. NENV
          /\ \A i \in 1 .. NENV : env_free_list[i] = i - 1
      BY DEF Init, EnvInit
    <2>2. ASSUME NEW e \in Slots PROVE \E i \in 1 .. NENV : env_free_list[i] = e
      <3>1. e + 1 \in 1 .. NENV /\ env_free_list[e + 1] = e
        BY <2>1, EnvAssumption DEF Slots
      <3> QED
        BY <3>1
    <2>3. ASSUME NEW i \in 1 .. NENV, NEW j \in 1 .. NENV,
                 env_free_list[i] = env_free_list[j]
          PROVE  i = j
      BY <2>1, <2>3, EnvAssumption
    <2> QED
      BY <1>2, <2>1, <2>2, <2>3 DEF FreeListExact
  <1>4. OneCpuPerEnv /\ StatusMatchesCpus /\ RecvBlocked /\ IdleNoEnv
    BY <1>1, <1>2 DEF OneCpuPerEnv, StatusMatchesCpus, RecvBlocked, IdleNoEnv, Runs
  <1> QED
    BY <1>3, <1>4 DEF SchedInv

-----------------------------------------------------------------------------
(* Environments and CPUs stay consistent, for programs that set the status *)
(* only of children that do not run and destroy a child only once, and     *)
(* that give the kernel no Trapframe of its own to write.                  *)
THEOREM SchedInvariant ==
  ASSUME Disciplined
  PROVE  Spec => []SchedInv
  <1>1. Init => SchedInv
    BY InitSched
  <1>2. BaseInv /\ SchedInv /\ [Next]_vars => SchedInv'
    <2> SUFFICES ASSUME BaseInv, SchedInv, [Next]_vars PROVE SchedInv'
      OBVIOUS
    <2>1. CASE Boot
      BY <2>1, BootSched
    <2>2. ASSUME NEW c \in CPUs, CpuStep(c) PROVE SchedInv'
      BY <2>2, CpuStepSched, Disciplined
    <2>3. CASE UNCHANGED vars
      BY <2>3 DEF vars, SchedInv, OneCpuPerEnv, StatusMatchesCpus, FreeListExact,
                  RecvBlocked, IdleNoEnv, Runs, Cur
    <2> QED
      BY <2>1, <2>2, <2>3 DEF Next
  <1> QED
    BY <1>1, <1>2, BaseInvariant, DisciplinedUserTf, PTL DEF Spec

(* No environment runs on two CPUs at once, for any number of both. *)
THEOREM OneCpuPerEnvHolds ==
  ASSUME Disciplined
  PROVE  Spec => []OneCpuPerEnv
  <1>1. SchedInv => OneCpuPerEnv
    BY DEF SchedInv
  <1> QED
    BY <1>1, SchedInvariant, PTL

(* env_status and the CPUs' curenv always agree: nothing is freed or       *)
(* queued while a CPU runs it, and nothing is RUNNING or DYING without a   *)
(* CPU that will deschedule or reap it.                                    *)
THEOREM StatusMatchesCpusHolds ==
  ASSUME Disciplined
  PROVE  Spec => []StatusMatchesCpus
  <1>1. SchedInv => StatusMatchesCpus
    BY DEF SchedInv
  <1> QED
    BY <1>1, SchedInvariant, PTL

(* env_free_list always holds each free slot once and no other slot. *)
THEOREM FreeListExactHolds ==
  ASSUME Disciplined
  PROVE  Spec => []FreeListExact
  <1>1. SchedInv => FreeListExact
    BY DEF SchedInv
  <1> QED
    BY <1>1, SchedInvariant, PTL

(* An environment blocked in sys_ipc_recv is never runnable before a send  *)
(* has reached it.                                                         *)
THEOREM RecvBlockedHolds ==
  ASSUME Disciplined
  PROVE  Spec => []RecvBlocked
  <1>1. SchedInv => RecvBlocked
    BY DEF SchedInv
  <1> QED
    BY <1>1, SchedInvariant, PTL

-----------------------------------------------------------------------------
(* The trap frame that env_pop_tf reads without the lock.                  *)

PopSafe == \A c \in CPUs : cpus[c].at = "pop" => envs'[Cur(c)].env_tf = envs[Cur(c)].env_tf

\* A handler of CPU c wrote no trap frame of what runs on another CPU.
TfSafe(c, es) ==
  \A s \in Slots : s # Cur(c) /\ envs[s].env_status \in OnCpu => es[s].env_tf = envs[s].env_tf

\* The environments are left with the trap frames of es.
TfLeft(es) == \A s \in Slots : envs'[s].env_tf = es[s].env_tf

LEMMA LeaveTf ==
  ASSUME NEW c \in CPUs, NEW es \in [Slots -> Envs], NEW cur,
         Return(c, es, cur) \/ SchedYield(c, es, cur) \/ EnvRun(c, es, cur, cur) \/ Panic(c, es)
  PROVE  TfLeft(es)
  <1>1. ASSUME NEW e, EnvRun(c, es, cur, e) PROVE TfLeft(es)
    BY <1>1 DEF EnvRun, SwitchTo, TfLeft, Envs
  <1>2. ASSUME SchedHalt(c, es, cur) PROVE TfLeft(es)
    BY <1>2 DEF SchedHalt, TfLeft
  <1>3. ASSUME SchedYield(c, es, cur) PROVE TfLeft(es)
    BY <1>1, <1>2, <1>3 DEF SchedYield
  <1>4. ASSUME Return(c, es, cur) PROVE TfLeft(es)
    BY <1>1, <1>3, <1>4 DEF Return
  <1>5. ASSUME Panic(c, es) PROVE TfLeft(es)
    BY <1>5 DEF Panic, TfLeft
  <1> QED
    BY <1>1, <1>3, <1>4, <1>5

LEMMA SafeTf ==
  ASSUME BaseInv, SchedInv, NEW c \in CPUs, cpus[c].at \in {"init", "sched", "kernel"},
         NEW es, TfSafe(c, es), TfLeft(es)
  PROVE  PopSafe
  <1> SUFFICES ASSUME NEW d \in CPUs, cpus[d].at = "pop"
               PROVE  envs'[Cur(d)].env_tf = envs[Cur(d)].env_tf
    BY DEF PopSafe
  <1>1. Cur(d) \in Slots
    BY DEF BaseInv, CurExists
  <1>2. Runs(d) /\ d # c
    BY <1>1, EnvAssumption DEF Runs, Slots
  <1>3. envs[Cur(d)].env_status \in OnCpu
    BY <1>2 DEF SchedInv, StatusMatchesCpus, OnCpu
  <1>4. Cur(d) # Cur(c)
    <2>1. CASE Cur(c) = NoEnv
      BY <1>1, <2>1, EnvAssumption DEF Slots
    <2>2. CASE Cur(c) # NoEnv
      <3>1. Runs(c)
        BY <2>2 DEF Runs, SchedInv, IdleNoEnv
      <3> QED
        BY <1>2, <3>1 DEF SchedInv, OneCpuPerEnv
    <2> QED
      BY <2>1, <2>2
  <1> QED
    BY <1>1, <1>3, <1>4 DEF TfSafe, TfLeft

(* A handler that keeps every other trap frame, or writes those of free    *)
(* slots, idle children and blocked receivers.                             *)
LEMMA TfStep ==
  ASSUME BaseInv, SchedInv, NEW c \in CPUs, Serving(c), NEW es \in [Slots -> Envs],
         NEW e, e \in Slots => envs[e].env_status \notin OnCpu \/ e = Cur(c),
         \A s \in Slots \ {e} : es[s].env_tf = Saved(c)[s].env_tf,
         NEW cur,
         Return(c, es, cur) \/ SchedYield(c, es, cur) \/ EnvRun(c, es, cur, cur) \/ Panic(c, es)
  PROVE  PopSafe
  <1>1. \A s \in Slots : s # Cur(c) => Saved(c)[s] = envs[s]
    BY DEF Saved, BaseInv, TypeOK
  <1>2. TfSafe(c, es)
    BY <1>1 DEF TfSafe
  <1>3. TfLeft(es)
    BY LeaveTf
  <1> QED
    BY <1>2, <1>3, SafeTf DEF Serving

LEMMA DestroyedTf ==
  ASSUME NEW es \in [Slots -> Envs], NEW cur, NEW e \in Slots
  PROVE  \A s \in Slots : Destroyed(es, cur, e)[s].env_tf = es[s].env_tf
  BY DEF Destroyed, EnvFree, Envs

LEMMA EnvDestroyTf ==
  ASSUME BaseInv, SchedInv, NEW c \in CPUs, Serving(c), NEW e \in Slots,
         EnvDestroy(c, Saved(c), Cur(c), e)
  PROVE  PopSafe
  <1> DEFINE es == Destroyed(Saved(c), Cur(c), e)
  <1>1. Cur(c) \in Slots /\ Saved(c) \in [Slots -> Envs]
    BY ServingSched
  <1>2. es \in [Slots -> Envs] /\ \A s \in Slots : es[s].env_tf = Saved(c)[s].env_tf
    BY <1>1, DestroyedType, DestroyedTf
  <1>3. SchedYield(c, es, NoEnv) \/ Return(c, es, Cur(c))
    BY DEF EnvDestroy
  <1> HIDE DEF es
  <1> QED
    BY <1>1, <1>2, <1>3, TfStep

LEMMA ExoforkTf ==
  ASSUME BaseInv, SchedInv, NEW c \in CPUs, SysExofork(c)
  PROVE  PopSafe
  <1>1. PICK vm \in EnvSetupVm(mem) :
          LET e == Head(env_free_list)
              new == EnvAlloc(Saved(c), e, envs[Cur(c)].env_id, vm)
          IN  Return(c, [new EXCEPT ![e].env_status = "NOT_RUNNABLE", ![e].env_tf = "fork"], Cur(c))
    BY DEF SysExofork
  <1> DEFINE e == Head(env_free_list)
             new == EnvAlloc(Saved(c), e, envs[Cur(c)].env_id, vm)
             n == [new EXCEPT ![e].env_status = "NOT_RUNNABLE"]
             es == [n EXCEPT ![e].env_tf = "fork"]
  <1>2. Serving(c) /\ env_free_list # <<>> /\ env_free_list \in Seq(Slots)
    BY DEF SysExofork, Calling, BaseInv, TypeOK
  <1>3. Cur(c) \in Slots /\ Saved(c) \in [Slots -> Envs]
    BY <1>2, ServingSched
  <1>4. e \in Slots /\ envs[e].env_status = "FREE"
    <2>1. e \in Slots /\ 1 \in DOMAIN env_free_list /\ env_free_list[1] = e
      BY <1>2
    <2> QED
      BY <2>1 DEF SchedInv, FreeListExact
  <1>5. new \in [Slots -> Envs]
    <2>1. vm.pgdir \in Pages /\ envs[Cur(c)].env_id \in EnvId
      BY <1>3, EnvSetupVmType DEF BaseInv, TypeOK, Envs
    <2> QED
      BY <1>3, <1>4, <2>1, EnvAllocType
  <1>6. \A s \in Slots \ {e} : new[s] = Saved(c)[s]
    BY <1>3, <1>4 DEF EnvAlloc
  <1>7. Return(c, es, Cur(c))
    BY <1>1
  <1> HIDE DEF new, e
  <1>8. n \in [Slots -> Envs] /\ \A s \in Slots \ {e} : n[s] = new[s]
    BY <1>4, <1>5, StatusType DEF EnvStatus
  <1> HIDE DEF n
  <1>9. es \in [Slots -> Envs] /\ \A s \in Slots \ {e} : es[s] = n[s]
    BY <1>4, <1>8, TfType DEF Trapframes
  <1> HIDE DEF es
  <1>10. \A s \in Slots \ {e} : es[s].env_tf = Saved(c)[s].env_tf
    BY <1>6, <1>8, <1>9
  <1> QED
    BY <1>2, <1>4, <1>7, <1>9, <1>10, TfStep DEF OnCpu

LEMMA SetTrapframeTf ==
  ASSUME Disciplined, BaseInv, SchedInv, NEW c \in CPUs, SysEnvSetTrapframe(c)
  PROVE  PopSafe
  <1>1. PICK e \in Named(c, TRUE), tf \in VAs :
     LET good == UserMemCheck(mem, PgdirOf(envs, e), tf, {"U", "P"})
         checked == IF good THEN Saved(c) ELSE Destroyed(Saved(c), Cur(c), e)
     IN  /\ KeepsIdleChild(envs, Cur(c), e)
         /\ \/ SchedYield(c, checked, NoEnv)
            \/ Return(c, [checked EXCEPT ![e].env_tf = "given"], Cur(c))
            \/ Panic(c, checked)
    BY SetTrapframeSteps, DisciplinedUserTf
  <1> DEFINE good == UserMemCheck(mem, PgdirOf(envs, e), tf, {"U", "P"})
             checked == IF good THEN Saved(c) ELSE Destroyed(Saved(c), Cur(c), e)
             es == [checked EXCEPT ![e].env_tf = "given"]
  <1>2. Serving(c)
    BY DEF SysEnvSetTrapframe, Calling
  <1>3. e \in Slots /\ Cur(c) \in Slots /\ Saved(c) \in [Slots -> Envs]
    BY <1>2, ServingSched
  <1>4. checked \in [Slots -> Envs] /\ \A s \in Slots : checked[s].env_tf = Saved(c)[s].env_tf
    BY <1>3, DestroyedType, DestroyedTf
  <1>5. e = Cur(c) \/ envs[e].env_status \notin OnCpu
    BY <1>1 DEF Disciplined, KeepsIdleChild, OnCpu
  <1>6. SchedYield(c, checked, NoEnv) \/ Return(c, es, Cur(c)) \/ Panic(c, checked)
    BY <1>1
  <1> HIDE DEF checked
  <1>7. es \in [Slots -> Envs] /\ \A s \in Slots \ {e} : es[s] = checked[s]
    BY <1>3, <1>4, TfType DEF Trapframes
  <1> HIDE DEF es
  <1>8. CASE Return(c, es, Cur(c))
    BY <1>2, <1>4, <1>5, <1>7, <1>8, TfStep
  <1>9. CASE SchedYield(c, checked, NoEnv) \/ Panic(c, checked)
    BY <1>2, <1>4, <1>5, <1>9, TfStep
  <1> QED
    BY <1>6, <1>8, <1>9

LEMMA IpcTrySendTf ==
  ASSUME BaseInv, SchedInv, NEW c \in CPUs, SysIpcTrySend(c)
  PROVE  PopSafe
  <1>1. PICK dst \in Named(c, FALSE), value \in IpcValues, srcva \in VAs :
     /\ envs[dst].env_ipc_recving
     /\ \/ Return(c, Delivered(Saved(c), Cur(c), dst, value), Cur(c))
        \/ \E perm \in Perms :
             \/ Return(c, DeliveredPage(Saved(c), Cur(c), dst, value, perm), Cur(c))
             \/ Return(c, Saved(c), Cur(c))
    BY DEF SysIpcTrySend
  <1>2. Serving(c)
    BY DEF SysIpcTrySend, Calling
  <1>3. /\ dst \in Slots /\ envs[dst].env_status # "FREE"
        /\ Cur(c) \in Slots /\ Saved(c) \in [Slots -> Envs]
    BY <1>2, ServingSched
  <1>4. envs[dst].env_status \notin OnCpu
    BY <1>1, <1>3 DEF SchedInv, RecvBlocked, OnCpu
  <1>5. CASE Return(c, Delivered(Saved(c), Cur(c), dst, value), Cur(c))
    <2> DEFINE es == Delivered(Saved(c), Cur(c), dst, value)
    <2>1. es \in [Slots -> Envs]
      BY <1>3, DeliveredType
    <2>2. \A s \in Slots \ {dst} : es[s] = Saved(c)[s]
      BY <1>3, DeliveredFields
    <2> HIDE DEF es
    <2>3. Return(c, es, Cur(c))
      BY <1>5 DEF es
    <2> QED
      BY <1>2, <1>3, <1>4, <2>1, <2>2, <2>3, TfStep
  <1>6. ASSUME NEW perm \in Perms,
               Return(c, DeliveredPage(Saved(c), Cur(c), dst, value, perm), Cur(c))
        PROVE  PopSafe
    <2> DEFINE es == DeliveredPage(Saved(c), Cur(c), dst, value, perm)
    <2>1. es \in [Slots -> Envs]
      BY <1>3, DeliveredPageType, SyscallAssumption
    <2>2. \A s \in Slots \ {dst} : es[s] = Saved(c)[s]
      BY <1>3, DeliveredPageFields
    <2> HIDE DEF es
    <2>3. Return(c, es, Cur(c))
      BY <1>6 DEF es
    <2> QED
      BY <1>2, <1>3, <1>4, <2>1, <2>2, <2>3, TfStep
  <1>7. CASE Return(c, Saved(c), Cur(c))
    BY <1>2, <1>3, <1>7, TfStep
  <1> QED
    BY <1>1, <1>5, <1>6, <1>7

LEMMA SyscallTf ==
  ASSUME Disciplined, BaseInv, SchedInv, NEW c \in CPUs, Syscall(c)
  PROVE  PopSafe
  <1>1. Serving(c)
    BY DEF Syscall, SysNoEffect, SysYield, SysEnvDestroy, SysExofork, SysEnvSetStatus,
           SysEnvSetTrapframe, SysEnvSetPgfaultUpcall, SysPageAlloc, SysPageMap,
           SysPageUnmap, SysIpcTrySend, SysIpcRecv, Calling
  <1>2. /\ Cur(c) \in Slots /\ Saved(c) \in [Slots -> Envs]
        /\ \A checkperm, e : e \in Named(c, checkperm) => e \in Slots
    BY <1>1, ServingSched
  <1>3. ASSUME Return(c, Saved(c), Cur(c)) \/ SchedYield(c, Saved(c), Cur(c)) PROVE PopSafe
    BY <1>1, <1>2, <1>3, TfStep
  <1>4. CASE \/ SysNoEffect(c) \/ SysYield(c)
             \/ SysPageAlloc(c) \/ SysPageMap(c) \/ SysPageUnmap(c)
    BY <1>3, <1>4 DEF SysNoEffect, SysYield, SysPageAlloc, SysPageMap, SysPageUnmap, ReturnWith
  <1>5. CASE SysEnvDestroy(c)
    BY <1>1, <1>2, <1>5, EnvDestroyTf DEF SysEnvDestroy
  <1>6. CASE SysExofork(c)
    BY <1>6, ExoforkTf
  <1>7. CASE SysEnvSetStatus(c)
    <2>1. PICK e \in Named(c, TRUE), status \in {"RUNNABLE", "NOT_RUNNABLE"} :
            Return(c, [Saved(c) EXCEPT ![e].env_status = status], Cur(c))
      BY <1>7 DEF SysEnvSetStatus
    <2> DEFINE es == [Saved(c) EXCEPT ![e].env_status = status]
    <2>2. es \in [Slots -> Envs]
      BY <1>2, StatusType DEF EnvStatus
    <2>3. \A s \in Slots : es[s].env_tf = Saved(c)[s].env_tf
      BY <1>2 DEF Envs
    <2>4. Return(c, es, Cur(c))
      BY <2>1
    <2> HIDE DEF es
    <2> QED
      BY <1>1, <1>2, <2>2, <2>3, <2>4, TfStep
  <1>8. CASE SysEnvSetTrapframe(c)
    BY <1>8, SetTrapframeTf
  <1>9. CASE SysEnvSetPgfaultUpcall(c)
    <2>1. PICK e \in Named(c, TRUE), func \in BOOLEAN :
            Return(c, [Saved(c) EXCEPT ![e].env_pgfault_upcall = func], Cur(c))
      BY <1>9 DEF SysEnvSetPgfaultUpcall
    <2> DEFINE es == [Saved(c) EXCEPT ![e].env_pgfault_upcall = func]
    <2>2. es \in [Slots -> Envs]
      BY <1>2, FieldTypes
    <2>3. \A s \in Slots : es[s].env_tf = Saved(c)[s].env_tf
      BY <1>2 DEF Envs
    <2>4. Return(c, es, Cur(c))
      BY <2>1
    <2> HIDE DEF es
    <2> QED
      BY <1>1, <1>2, <2>2, <2>3, <2>4, TfStep
  <1>10. CASE SysIpcTrySend(c)
    BY <1>10, IpcTrySendTf
  <1>11. CASE SysIpcRecv(c)
    <2>1. PICK dstva \in VAs :
            SchedYield(c, [Saved(c) EXCEPT ![Cur(c)].env_ipc_recving = TRUE,
                                           ![Cur(c)].env_ipc_dstva = dstva,
                                           ![Cur(c)].env_status = "NOT_RUNNABLE"], Cur(c))
      BY <1>11 DEF SysIpcRecv
    <2> DEFINE r == [Saved(c)[Cur(c)] EXCEPT !.env_ipc_recving = TRUE,
                                             !.env_ipc_dstva = dstva,
                                             !.env_status = "NOT_RUNNABLE"]
               es == [Saved(c) EXCEPT ![Cur(c)] = r]
    <2>2. SchedYield(c, es, Cur(c))
      BY <1>2, <2>1
    <2>3. r \in Envs
      BY <1>2, ZenonT(30) DEF Envs, EnvStatus
    <2> HIDE DEF r
    <2>4. es \in [Slots -> Envs] /\ \A s \in Slots \ {Cur(c)} : es[s] = Saved(c)[s]
      BY <1>2, <2>3
    <2> HIDE DEF es
    <2> QED
      BY <1>1, <1>2, <2>2, <2>4, TfStep
  <1> QED
    BY <1>4, <1>5, <1>6, <1>7, <1>8, <1>9, <1>10, <1>11 DEF Syscall

LEMMA NextTf ==
  ASSUME Disciplined, BaseInv, SchedInv, [Next]_vars
  PROVE  PopSafe
  <1>1. ASSUME envs' = envs PROVE PopSafe
    BY <1>1 DEF PopSafe
  <1>2. CASE EnvCreate
    <2>1. PICK vm \in EnvSetupVm(mem) :
            envs' = [EnvAlloc(envs, Head(env_free_list), ZeroId, vm)
                       EXCEPT ![Head(env_free_list)].env_tf = "entry"]
      BY <1>2 DEF EnvCreate
    <2> DEFINE e == Head(env_free_list)
    <2>2. e \in Slots /\ envs[e].env_status = "FREE" /\ envs \in [Slots -> Envs]
      <3>1. env_free_list # <<>> /\ env_free_list \in Seq(Slots) /\ envs \in [Slots -> Envs]
        BY <1>2 DEF EnvCreate, BaseInv, TypeOK
      <3>2. e \in Slots /\ 1 \in DOMAIN env_free_list /\ env_free_list[1] = e
        BY <3>1
      <3> QED
        BY <3>1, <3>2 DEF SchedInv, FreeListExact
    <2> HIDE DEF e
    <2>3. \A s \in Slots \ {e} : envs'[s] = envs[s]
      BY <2>1, <2>2 DEF EnvAlloc, e
    <2>4. ASSUME NEW c \in CPUs, cpus[c].at = "pop" PROVE Cur(c) \in Slots \ {e}
      <3>1. Cur(c) \in Slots
        BY <2>4 DEF BaseInv, CurExists
      <3>2. Runs(c)
        BY <2>4, <3>1, EnvAssumption DEF Runs, Slots
      <3> QED
        BY <2>2, <3>1, <3>2 DEF SchedInv, StatusMatchesCpus
    <2> QED
      BY <2>3, <2>4 DEF PopSafe
  <1>3. CASE FirstSched
    <2>1. /\ BSP \in CPUs /\ cpus[BSP].at = "init" /\ envs \in [Slots -> Envs]
          /\ SchedYield(BSP, envs, Cur(BSP))
      BY <1>3, EnvAssumption DEF FirstSched, ApsBooted, BaseInv, TypeOK
    <2> QED
      BY <2>1, LeaveTf, SafeTf DEF TfSafe
  <1>4. CASE RegionAlloc \/ UNCHANGED vars
    BY <1>1, <1>4 DEF RegionAlloc, vars
  <1>5. ASSUME NEW c \in CPUs,
               \/ MpMain(c) \/ TrapFromUser(c) \/ TrapFromHalt(c) \/ LockKernel(c)
               \/ EnvPopTf(c) \/ Monitor(c)
        PROVE  PopSafe
    BY <1>1, <1>5 DEF MpMain, TrapFromUser, TrapFromHalt, LockKernel, EnvPopTf, Monitor, vars
  <1>6. ASSUME NEW c \in CPUs, Handler(c) PROVE PopSafe
    <2>1. envs \in [Slots -> Envs]
      BY DEF BaseInv, TypeOK
    <2>2. CASE SchedIdle(c)
      BY <2>1, <2>2, LeaveTf, SafeTf DEF SchedIdle, TfSafe
    <2>3. CASE Reap(c)
      <3> DEFINE es == EnvFree(envs, Cur(c))
      <3>1. cpus[c].at = "kernel" /\ Cur(c) \in Slots /\ SchedYield(c, es, NoEnv)
        BY <2>3, ServingType DEF Reap
      <3>2. es \in [Slots -> Envs]
        BY <2>1, <3>1, EnvFreeType
      <3>3. \A s \in Slots : es[s].env_tf = envs[s].env_tf
        BY <2>1, <3>1 DEF EnvFree, Envs
      <3> HIDE DEF es
      <3> QED
        BY <3>1, <3>2, <3>3, LeaveTf, SafeTf DEF TfSafe
    <2>4. ASSUME Serving(c) PROVE Cur(c) \in Slots /\ Saved(c) \in [Slots -> Envs]
      BY <2>4, ServingSched
    <2>5. CASE Timer(c)
      BY <2>4, <2>5, TfStep DEF Timer
    <2>6. CASE UnexpectedTrap(c)
      BY <2>4, <2>6, EnvDestroyTf DEF UnexpectedTrap
    <2>7. CASE PageFaultHandler(c)
      <3> DEFINE es == [Saved(c) EXCEPT ![Cur(c)].env_tf = "upcall"]
      <3>1. Serving(c)
        BY <2>7 DEF PageFaultHandler
      <3>2. CASE EnvDestroy(c, Saved(c), Cur(c), Cur(c))
        BY <2>4, <3>1, <3>2, EnvDestroyTf
      <3>3. CASE EnvRun(c, es, Cur(c), Cur(c))
        <4>1. es \in [Slots -> Envs] /\ \A s \in Slots \ {Cur(c)} : es[s] = Saved(c)[s]
          BY <2>4, <3>1, TfType DEF Trapframes
        <4> HIDE DEF es
        <4> QED
          BY <3>1, <3>3, <4>1, TfStep
      <3>4. CASE Panic(c, Saved(c))
        BY <2>4, <3>1, <3>4, TfStep
      <3> QED
        BY <2>7, <3>2, <3>3, <3>4 DEF PageFaultHandler
    <2>8. CASE Syscall(c)
      BY <2>8, SyscallTf
    <2> QED
      BY <1>6, <2>2, <2>3, <2>5, <2>6, <2>7, <2>8 DEF Handler
  <1> QED
    BY <1>2, <1>3, <1>4, <1>5, <1>6 DEF Next, Boot, CpuStep

(* Between unlock_kernel() in env_run and the iret of env_pop_tf no other  *)
(* CPU writes the trap frame that is being loaded: whatever writes one     *)
(* writes its own environment's, or that of one no CPU runs.               *)
THEOREM PopStableHolds ==
  ASSUME Disciplined
  PROVE  Spec => PopStable
  <1>1. BaseInv /\ SchedInv /\ [Next]_vars =>
          [\A c \in CPUs : cpus[c].at = "pop" => envs'[Cur(c)].env_tf = envs[Cur(c)].env_tf]_vars
    BY NextTf, Disciplined DEF PopSafe
  <1> QED
    BY <1>1, BaseInvariant, DisciplinedUserTf, SchedInvariant, PTL DEF Spec, PopStable

=============================================================================
