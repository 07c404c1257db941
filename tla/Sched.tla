-------------------------------- MODULE Sched --------------------------------
(***************************************************************************)
(* The round-robin scheduler: kern/sched.c.                                *)
(***************************************************************************)
EXTENDS Env

\* Faulty: takes an environment that runs for one that could.
RunnableOrRunning(es) ==
  {e \in Slots : es[e].env_status \in {"RUNNABLE", "RUNNING"}}

Runnable(es) == {e \in Slots : es[e].env_status = "RUNNABLE"}

\* Faulty: every search starts at slot 0.
SearchStartAtZero(es, cur) == 0

\* The slot where the search starts, and how far behind it slot e is.
SearchStart(es, cur) == IF cur = NoEnv THEN 0 ELSE ENVX(es[cur].env_id)
Distance(begin, e) == (e - begin) % NENV

(* The environments sched_yield may switch to: the first runnable one in   *)
(* circular order (at most one).                                           *)
FirstRunnable(es, cur) ==
  {e \in Runnable(es) : \A f \in Runnable(es) :
     Distance(SearchStart(es, cur), e) <= Distance(SearchStart(es, cur), f)}

\* Faulty: an environment that was destroyed while it runs is overlooked.
LiveNotDying(es) == {e \in Slots : es[e].env_status \in {"RUNNABLE", "RUNNING"}}

(* sched_halt: the monitor, still holding the lock, when no environment    *)
(* could ever run again; otherwise halt with interrupts on.                *)
Live(es) == {e \in Slots : es[e].env_status \in {"RUNNABLE", "RUNNING", "DYING"}}

SchedHalt(c, es, cur) ==
  /\ envs' = es
  /\ UNCHANGED panicstr
  /\ \/ /\ Live(es) = {}
        /\ cpus' = [cpus EXCEPT
             ![c].cpu_env = cur,
             ![c].cr3 = IF cur = NoEnv THEN KernPgdir ELSE @,
             ![c].at = "monitor"]
        /\ UNCHANGED kernel_lock
     \/ /\ Live(es) # {}
        /\ cpus' = [cpus EXCEPT
             ![c].cpu_env = NoEnv,
             ![c].cr3 = KernPgdir,
             ![c].cpu_status = "HALTED",
             ![c].at = "halt"]
        /\ kernel_lock' = NoCpu

(* sched_yield: the next runnable environment, else the current one if it  *)
(* still runs, else sched_halt.                                            *)
StillRuns(es, cur) == IF cur = NoEnv THEN FALSE ELSE es[cur].env_status = "RUNNING"

SchedYield(c, es, cur) ==
  \/ \E e \in FirstRunnable(es, cur) : EnvRun(c, es, cur, e)
  \/ /\ Runnable(es) = {} /\ StillRuns(es, cur)
     /\ EnvRun(c, es, cur, cur)
  \/ /\ Runnable(es) = {} /\ ~StillRuns(es, cur)
     /\ SchedHalt(c, es, cur)

(* The end of trap(): back to the current environment if it still runs.    *)
Return(c, es, cur) ==
  \/ /\ StillRuns(es, cur)
     /\ EnvRun(c, es, cur, cur)
  \/ /\ ~StillRuns(es, cur)
     /\ SchedYield(c, es, cur)

(* env_destroy, followed by the rest of the kernel entry.                   *)
EnvDestroy(c, es, cur, e) ==
  /\ DestroyRest(es, cur, e)
  /\ \/ /\ e = cur
        /\ SchedYield(c, Destroyed(es, cur, e), NoEnv)
     \/ /\ e # cur
        /\ Return(c, Destroyed(es, cur, e), cur)

(* panic(): the CPU ends in the monitor, with the lock if it held it.       *)
Panic(c, es) ==
  /\ envs' = es
  /\ cpus' = [cpus EXCEPT ![c].at = "panic"]
  /\ panicstr' = TRUE
  /\ UNCHANGED kernel_lock

=============================================================================
