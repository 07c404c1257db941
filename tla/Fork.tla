-------------------------------- MODULE Fork ---------------------------------
(***************************************************************************)
(* How environments get their memory: copy-on-write fork (lib/fork.c, with *)
(* lib/pgfault.c and lib/pfentry.S) and spawn (lib/spawn.c).               *)
(*                                                                         *)
(* A page table entry is a frame and the permissions that matter here: "W",*)
(* and the two bits that the library keeps for itself, "COW" and "SHARE".  *)
(* A frame is free when nothing maps it, and is cleared when it is         *)
(* allocated; Pmap shows that the kernel's counts say the same.  A step is *)
(* a system call or a store; environments interleave, and an environment   *)
(* that forks or spawns goes on writing its own stack meanwhile, which may *)
(* fault.  Memory may run out in any call.                                 *)
(***************************************************************************)
EXTENDS Integers, Sequences

CONSTANTS
  Envs,
  First,       \* the environment that runs at the start
  NoOne,
  Frames,      \* physical pages, numbers
  Values,      \* what a page may hold
  StoredTo,    \* the pages that programs store to: a subset of VPages
  EVENTMAX     \* bound on stores, faults, calls that fail and environments destroyed

\* The pages of a program below USTACKTOP, in the order of their addresses: a
\* read-only segment, one that starts as zeroes, a page with PTE_SHARE (the
\* descriptors and pipes of lib/fd.c are such pages), the stack.
Text == "text"
Bss == "bss"
Shared == "shared"
Stack == "stack"
Order == <<Text, Bss, Shared, Stack>>
VPages == {Order[i] : i \in DOMAIN Order}

\* UXSTACKTOP - PGSIZE, PFTEMP and UTEMP.
Special == {"uxstack", "pftemp", "utemp"}

ASSUME ForkAssumption ==
  /\ First \in Envs
  /\ NoOne \notin Envs /\ NoOne \notin Frames /\ NoOne \notin Values /\ NoOne \notin VPages
  /\ Frames \subseteq Nat \ {0} /\ 1 .. 4 \subseteq Frames
  /\ 0 \in Values /\ 1 \in Values
  /\ StoredTo \subseteq VPages

VARIABLES
  pc,      \* where each environment is
  child,   \* the child it is making
  page,    \* the index in Order of the page fork or spawn has come to
  flt,     \* the page fault it is handling: [va, step, outer]
  upcall,  \* env_pgfault_upcall is set
  pt,      \* pt[e][va]: [fr, perm]
  mem,     \* mem[f]: what frame f holds
  stores,  \* the stores so far
  events   \* the failures, faults and ends so far

vars == <<pc, child, page, flt, upcall, pt, mem, stores, events>>

NoPte == [fr |-> NoOne, perm |-> {}]
NoPt == [va \in VPages \cup Special |-> NoPte]
NoFault == [va |-> NoOne, step |-> "none", outer |-> NoOne]

\* The first environment's memory, as the kernel's load_icode left it and the
\* library's first calls.
FirstPt ==
  [NoPt EXCEPT ![Text] = [fr |-> 1, perm |-> {}], ![Bss] = [fr |-> 2, perm |-> {"W"}],
               ![Shared] = [fr |-> 3, perm |-> {"W", "SHARE"}], ![Stack] = [fr |-> 4, perm |-> {"W"}]]

Init ==
  /\ pc = [e \in Envs |-> IF e = First THEN "run" ELSE "unborn"]
  /\ child = [e \in Envs |-> NoOne]
  /\ page = [e \in Envs |-> 0]
  /\ flt = [e \in Envs |-> NoFault]
  /\ upcall = [e \in Envs |-> FALSE]
  /\ pt = [e \in Envs |-> IF e = First THEN FirstPt ELSE NoPt]
  /\ mem = [f \in Frames |-> IF f = 1 THEN 1 ELSE 0]
  /\ stores = 0 /\ events = 0

-----------------------------------------------------------------------------
(* The kernel's page calls, on a page table of all environments. *)

FreeFrames == Frames \ {pt[e][va].fr : e \in Envs, va \in VPages \cup Special}

Pte(f, perm) == [fr |-> f, perm |-> perm]

\* sys_page_alloc: a cleared frame at va of e; the caller then fills it with x.
PageAllocFill(e, va, perm, x) ==
  \E f \in FreeFrames :
    /\ \A g \in FreeFrames : f <= g
    /\ pt' = [pt EXCEPT ![e][va] = Pte(f, perm)]
    /\ mem' = [mem EXCEPT ![f] = x]

PageAlloc(e, va, perm) == PageAllocFill(e, va, perm, 0)

\* sys_page_map of the page that e has at va.
PageMap(e, va, to, tova, perm) ==
  /\ pt[e][va] # NoPte
  /\ "W" \in perm => "W" \in pt[e][va].perm
  /\ pt' = [pt EXCEPT ![to][tova] = Pte(pt[e][va].fr, perm)]
  /\ UNCHANGED mem

PageUnmap(e, va) == pt' = [pt EXCEPT ![e][va] = NoPte] /\ UNCHANGED mem

Goto(e, l) == pc' = [pc EXCEPT ![e] = l]

\* fork or spawn is left, with its child or with an error.
Return(e) ==
  /\ child' = [child EXCEPT ![e] = NoOne]
  /\ page' = [page EXCEPT ![e] = 0]

\* e is in its own code, not in the fault handler.
At(e, l) == pc[e] = l /\ flt[e] = NoFault

Quiet == UNCHANGED <<stores, events>>
MayHappen == stores + events < EVENTMAX
Event == MayHappen /\ events' = events + 1 /\ UNCHANGED stores

-----------------------------------------------------------------------------
(* Stores and page faults. *)

Forking == {"exofork", "ux", "dup", "remap", "start"}
Spawning == {"sp_exofork", "sp_stack", "sp_stackmap", "sp_stackunmap", "sp_seg", "sp_read",
             "sp_segmap", "sp_segunmap", "sp_error", "sp_share", "sp_start"}

\* fork and spawn themselves store to the stack only.
MayStore(e, va) ==
  /\ flt[e] = NoFault
  /\ \/ pc[e] = "run" /\ va \in StoredTo
     \/ pc[e] \in Forking \cup Spawning /\ va = Stack

Store(e, va, x) ==
  /\ MayStore(e, va) /\ "W" \in pt[e][va].perm /\ mem[pt[e][va].fr] # x
  /\ MayHappen /\ stores' = stores + 1 /\ UNCHANGED events
  /\ mem' = [mem EXCEPT ![pt[e][va].fr] = x]
  /\ UNCHANGED <<pc, child, page, flt, upcall, pt>>

\* The store faults; the kernel calls the handler, on the exception stack.
Fault(e, va) ==
  /\ MayStore(e, va) /\ pt[e][va] # NoPte /\ "W" \notin pt[e][va].perm
  /\ Event
  /\ upcall[e] /\ pt[e]["uxstack"] # NoPte
  /\ flt' = [flt EXCEPT ![e] = [va |-> va, step |-> "check", outer |-> NoOne]]
  /\ UNCHANGED <<pc, child, page, upcall, pt, mem>>

Gone(e) ==
  /\ pc' = [pc EXCEPT ![e] = "dead"]
  /\ child' = [child EXCEPT ![e] = NoOne]
  /\ page' = [page EXCEPT ![e] = 0]
  /\ flt' = [flt EXCEPT ![e] = NoFault]
  /\ upcall' = [upcall EXCEPT ![e] = FALSE]
  /\ pt' = [pt EXCEPT ![e] = NoPt]
  /\ UNCHANGED mem

\* Without a handler, or a stack for it, page_fault_handler destroys e.
FaultKills(e, va) ==
  /\ MayStore(e, va) /\ pt[e][va] # NoPte /\ "W" \notin pt[e][va].perm
  /\ ~(upcall[e] /\ pt[e]["uxstack"] # NoPte)
  /\ Gone(e) /\ Quiet

\* panic stops in the kernel's monitor; e does not go on.
Panic(e) ==
  /\ Goto(e, "panic")
  /\ Return(e)
  /\ flt' = [flt EXCEPT ![e] = NoFault]
  /\ UNCHANGED <<upcall, pt, mem>> /\ Event

InFault(e, s) == pc[e] \notin {"dead", "panic"} /\ flt[e].step = s
FaultStep(e, s) == flt' = [flt EXCEPT ![e].step = s]

\* pgfault: the page must be copy-on-write ...
PgfaultAlloc(e) ==
  /\ InFault(e, "check")
  /\ pt[e][flt[e].va].perm \cap {"COW", "W"} # {}
  /\ PageAlloc(e, "pftemp", {"W"})
  /\ FaultStep(e, "copy")
  /\ UNCHANGED <<pc, child, page, upcall>> /\ Quiet

\* ... or the handler panics, as it does when memory has run out.
PgfaultPanics(e) == InFault(e, "check") /\ Panic(e)

\* Mutant: the new page is not filled.
PgfaultCopyForgotten(e) ==
  /\ InFault(e, "copy")
  /\ FaultStep(e, "map")
  /\ UNCHANGED <<pc, child, page, upcall, pt, mem>> /\ Quiet

PgfaultCopy(e) ==
  /\ InFault(e, "copy")
  /\ mem' = [mem EXCEPT ![pt[e]["pftemp"].fr] = mem[pt[e][flt[e].va].fr]]
  /\ FaultStep(e, "map")
  /\ UNCHANGED <<pc, child, page, upcall, pt>> /\ Quiet

PgfaultMap(e) ==
  /\ InFault(e, "map")
  /\ PageMap(e, "pftemp", e, flt[e].va, {"W"})
  /\ FaultStep(e, "unmap")
  /\ UNCHANGED <<pc, child, page, upcall>> /\ Quiet

PgfaultUnmap(e) ==
  /\ InFault(e, "unmap")
  /\ PageUnmap(e, "pftemp")
  /\ FaultStep(e, "return")
  /\ UNCHANGED <<pc, child, page, upcall>> /\ Quiet

\* _pgfault_upcall pushes the old eip on the stack that faulted.  If that
\* stack is copy-on-write itself, this faults again, on the exception stack,
\* whose own return pushes there.
PgfaultReturn(e) ==
  /\ InFault(e, "return")
  /\ flt' = [flt EXCEPT ![e] =
       CASE @.outer # NoOne -> [va |-> @.outer, step |-> "return", outer |-> NoOne]
         [] @.outer = NoOne /\ "W" \in pt[e][Stack].perm -> NoFault
         [] OTHER -> [va |-> Stack, step |-> "check", outer |-> @.va]]
  /\ UNCHANGED <<pc, child, page, upcall, pt, mem>> /\ Quiet

-----------------------------------------------------------------------------
(* fork. *)

\* set_pgfault_handler; the first time it allocates the exception stack.
SetPgfaultHandler(e) ==
  /\ At(e, "run") /\ \E c \in Envs : pc[c] = "unborn"
  /\ IF upcall[e] THEN UNCHANGED <<pt, mem, upcall>>
     ELSE PageAlloc(e, "uxstack", {"W"}) /\ upcall' = [upcall EXCEPT ![e] = TRUE]
  /\ Goto(e, "exofork")
  /\ UNCHANGED <<child, page, flt>> /\ Quiet

SetPgfaultHandlerPanics(e) == At(e, "run") /\ ~upcall[e] /\ Panic(e)

\* sys_exofork, for fork and for spawn; without a free slot they return.
Exofork(e, from, to) ==
  /\ At(e, from)
  /\ \/ \E c \in Envs :
          /\ pc[c] = "unborn"
          /\ pc' = [pc EXCEPT ![e] = to, ![c] = "built"]
          /\ child' = [child EXCEPT ![e] = c]
          /\ page' = [page EXCEPT ![e] = 1]
          /\ Quiet
     \/ Goto(e, "run") /\ UNCHANGED <<child, page>> /\ Event
  /\ UNCHANGED <<flt, upcall, pt, mem>>

ForkExofork(e) == Exofork(e, "exofork", "ux")

\* An error of fork leaves the child as it is.
ForkFails(e) ==
  /\ pc[e] \in {"ux", "dup", "remap"} /\ flt[e] = NoFault
  /\ Goto(e, "run") /\ Return(e)
  /\ UNCHANGED <<flt, upcall, pt, mem>> /\ Event

\* Mutant: the child has no handler.
ForkExceptionStackOnly(e) ==
  /\ At(e, "ux")
  /\ PageAlloc(child[e], "uxstack", {"W"})
  /\ Goto(e, "dup")
  /\ UNCHANGED <<child, page, flt, upcall>> /\ Quiet

ForkExceptionStack(e) ==
  /\ At(e, "ux")
  /\ PageAlloc(child[e], "uxstack", {"W"})
  /\ upcall' = [upcall EXCEPT ![child[e]] = TRUE]
  /\ Goto(e, "dup")
  /\ UNCHANGED <<child, page, flt>> /\ Quiet

Va(e) == Order[page[e]]

\* The loop of fork skips a page that is not there, and ends. (A page that a
\* spawn which failed in its read left at UTEMP is duplicated as well; nothing
\* reads it before the next spawn replaces it, and it is left out here.)
ForkLoop(e) ==
  /\ At(e, "dup")
  /\ \/ page[e] > Len(Order) /\ Goto(e, "start") /\ UNCHANGED page
     \/ /\ page[e] <= Len(Order) /\ pt[e][Va(e)] = NoPte
        /\ page' = [page EXCEPT ![e] = @ + 1]
        /\ UNCHANGED pc
  /\ UNCHANGED <<child, flt, upcall, pt, mem>> /\ Quiet

\* duppage looks at the permissions, and maps the page in the child.
Writable(e) == pt[e][Va(e)].perm \cap {"W", "COW"} # {}

DuppageChild(e) ==
  /\ At(e, "dup") /\ page[e] <= Len(Order)
  /\ \/ /\ Writable(e)
        /\ PageMap(e, Va(e), child[e], Va(e), {"COW"})
        /\ Goto(e, "remap")
        /\ UNCHANGED page
     \/ /\ ~Writable(e)
        /\ PageMap(e, Va(e), child[e], Va(e), pt[e][Va(e)].perm \cap {"SHARE"})
        /\ page' = [page EXCEPT ![e] = @ + 1]
        /\ UNCHANGED pc
  /\ UNCHANGED <<child, flt, upcall>> /\ Quiet

\* Mutant: the parent's own mapping stays as it was.
DuppageParentKept(e) ==
  /\ At(e, "remap")
  /\ Goto(e, "dup")
  /\ page' = [page EXCEPT ![e] = @ + 1]
  /\ UNCHANGED <<child, flt, upcall, pt, mem>> /\ Quiet

\* The parent's own mapping is made copy-on-write, again if it was before.
DuppageParent(e) ==
  /\ At(e, "remap")
  /\ PageMap(e, Va(e), e, Va(e), {"COW"})
  /\ Goto(e, "dup")
  /\ page' = [page EXCEPT ![e] = @ + 1]
  /\ UNCHANGED <<child, flt, upcall>> /\ Quiet

\* sys_env_set_status, for fork and for spawn.
SetRunnable(e, l) ==
  /\ At(e, l)
  /\ pc' = [pc EXCEPT ![e] = "run", ![child[e]] = "run"]
  /\ Return(e)
  /\ UNCHANGED <<flt, upcall, pt, mem>> /\ Quiet

ForkDone(e) == SetRunnable(e, "start")

-----------------------------------------------------------------------------
(* spawn. *)

\* What the program's file and the arguments make of each page.
Image == [v \in VPages |-> IF v \in {Text, Stack} THEN 1 ELSE 0]

\* The file is there and is an executable; otherwise nothing happens.
Spawn(e) ==
  /\ At(e, "run") /\ \E c \in Envs : pc[c] = "unborn"
  /\ Goto(e, "sp_exofork")
  /\ UNCHANGED <<child, page, flt, upcall, pt, mem>> /\ Quiet

SpawnExofork(e) == Exofork(e, "sp_exofork", "sp_stack")

\* init_stack: the arguments are laid out at UTEMP, and the page handed over.
InitStackAlloc(e) ==
  /\ At(e, "sp_stack")
  /\ PageAllocFill(e, "utemp", {"W"}, Image[Stack])
  /\ Goto(e, "sp_stackmap")
  /\ UNCHANGED <<child, page, flt, upcall>> /\ Quiet

InitStackMap(e) ==
  /\ At(e, "sp_stackmap")
  /\ PageMap(e, "utemp", child[e], Stack, {"W"})
  /\ Goto(e, "sp_stackunmap")
  /\ UNCHANGED <<child, page, flt, upcall>> /\ Quiet

InitStackUnmap(e) ==
  /\ At(e, "sp_stackunmap")
  /\ PageUnmap(e, "utemp")
  /\ Goto(e, "sp_seg")
  /\ UNCHANGED <<child, page, flt, upcall>> /\ Quiet

\* init_stack fails; spawn returns and leaves the child as it is.
InitStackFails(e) ==
  /\ pc[e] \in {"sp_stack", "sp_stackmap"} /\ flt[e] = NoFault
  /\ IF pc[e] = "sp_stackmap" THEN PageUnmap(e, "utemp") ELSE UNCHANGED <<pt, mem>>
  /\ Goto(e, "run") /\ Return(e)
  /\ UNCHANGED <<flt, upcall>> /\ Event

\* map_segment: a page of the file goes through UTEMP ...
MapSegmentAlloc(e) ==
  /\ At(e, "sp_seg") /\ Va(e) = Text
  /\ PageAlloc(e, "utemp", {"W"})
  /\ Goto(e, "sp_read")
  /\ UNCHANGED <<child, page, flt, upcall>> /\ Quiet

MapSegmentRead(e) ==
  /\ At(e, "sp_read")
  /\ mem' = [mem EXCEPT ![pt[e]["utemp"].fr] = Image[Va(e)]]
  /\ Goto(e, "sp_segmap")
  /\ UNCHANGED <<child, page, flt, upcall, pt>> /\ Quiet

MapSegmentMap(e) ==
  /\ At(e, "sp_segmap")
  /\ PageMap(e, "utemp", child[e], Va(e), {})
  /\ Goto(e, "sp_segunmap")
  /\ UNCHANGED <<child, page, flt, upcall>> /\ Quiet

MapSegmentUnmap(e) ==
  /\ At(e, "sp_segunmap")
  /\ PageUnmap(e, "utemp")
  /\ page' = [page EXCEPT ![e] = @ + 1]
  /\ Goto(e, "sp_seg")
  /\ UNCHANGED <<child, flt, upcall>> /\ Quiet

\* ... and a page past the end of the file is allocated in the child.
MapSegmentBlank(e) ==
  /\ At(e, "sp_seg") /\ Va(e) = Bss
  /\ PageAlloc(child[e], Bss, {"W"})
  /\ page' = [page EXCEPT ![e] = @ + 1]
  /\ Goto(e, "sp_share")
  /\ UNCHANGED <<child, flt, upcall>> /\ Quiet

\* map_segment fails, in the read with UTEMP mapped; spawn destroys the child.
SpawnFails(e) ==
  /\ pc[e] \in {"sp_seg", "sp_read"} /\ flt[e] = NoFault
  /\ pc' = [pc EXCEPT ![e] = "run", ![child[e]] = "dead"]
  /\ pt' = [pt EXCEPT ![child[e]] = NoPt]
  /\ Return(e)
  /\ UNCHANGED <<flt, upcall, mem>> /\ Event

\* copy_shared_pages.
CopySharedPages(e) ==
  /\ At(e, "sp_share")
  /\ IF "SHARE" \in pt[e][Shared].perm
     THEN PageMap(e, Shared, child[e], Shared, pt[e][Shared].perm)
     ELSE UNCHANGED <<pt, mem>>
  /\ Goto(e, "sp_start")
  /\ UNCHANGED <<child, page, flt, upcall>> /\ Quiet

SpawnPanics(e) == pc[e] \in {"sp_segmap", "sp_share"} /\ flt[e] = NoFault /\ Panic(e)

SpawnDone(e) == SetRunnable(e, "sp_start")

-----------------------------------------------------------------------------
\* e exits or is destroyed.
Destroyed(e) ==
  /\ pc[e] \notin {"unborn", "built", "dead"}
  /\ Event
  /\ Gone(e)

Program(e) ==
  \/ \E va \in VPages : Fault(e, va) \/ FaultKills(e, va) \/ \E x \in Values : Store(e, va, x)
  \/ SetPgfaultHandler(e) \/ SetPgfaultHandlerPanics(e) \/ Spawn(e)

Handler(e) ==
  \/ PgfaultAlloc(e) \/ PgfaultPanics(e) \/ PgfaultCopy(e) \/ PgfaultMap(e) \/ PgfaultUnmap(e)
  \/ PgfaultReturn(e)

ForkStep(e) ==
  \/ ForkExofork(e) \/ ForkExceptionStack(e) \/ ForkLoop(e) \/ DuppageChild(e)
  \/ DuppageParent(e) \/ ForkFails(e) \/ ForkDone(e)

SpawnStep(e) ==
  \/ SpawnExofork(e) \/ InitStackAlloc(e) \/ InitStackMap(e) \/ InitStackUnmap(e)
  \/ InitStackFails(e) \/ MapSegmentAlloc(e) \/ MapSegmentRead(e) \/ MapSegmentMap(e)
  \/ MapSegmentUnmap(e) \/ MapSegmentBlank(e) \/ SpawnFails(e) \/ CopySharedPages(e)
  \/ SpawnPanics(e) \/ SpawnDone(e)

Next == \E e \in Envs : Program(e) \/ Handler(e) \/ ForkStep(e) \/ SpawnStep(e) \/ Destroyed(e)

Spec == Init /\ [][Next]_vars

-----------------------------------------------------------------------------
(* Properties. *)

Running(e) == pc[e] \notin {"unborn", "built", "dead", "panic"}

(* A frame that a running environment may write is mapped by no other      *)
(* running one, unless the writer has it as a shared page, and then only   *)
(* as the shared page of the other, which shares it or took it by fork:    *)
(* copy-on-write is never left with one side still writable, whatever      *)
(* faults interrupt duppage, but for a page that others share.             *)
WritableMeansSole ==
  \A e, f \in Envs : \A v, w \in VPages :
     /\ Running(e) /\ Running(f) /\ e # f
     /\ "W" \in pt[e][v].perm /\ pt[f][w].fr = pt[e][v].fr
     => /\ v = Shared /\ w = Shared
        /\ "SHARE" \in pt[e][v].perm /\ pt[f][w].perm \cap {"SHARE", "COW"} # {}

(* An environment that runs with a copy-on-write page has a handler and an *)
(* exception stack of its own, so that a store never destroys it: the      *)
(* parent had them before it made the first such page, the child before it *)
(* first ran.                                                              *)
HandlerReady ==
  \A e \in Envs : Running(e) /\ (\E v \in VPages : "COW" \in pt[e][v].perm) =>
     /\ upcall[e] /\ "W" \in pt[e]["uxstack"].perm
     /\ \A f \in Envs \ {e} : \A va \in DOMAIN NoPt : pt[f][va].fr # pt[e]["uxstack"].fr

(* What one environment stores in the page that was made with PTE_SHARE,   *)
(* every running environment that has it reads: user/testpteshare.c says so*)
(* of fork. duppage tests for a writable page first, and makes it          *)
(* copy-on-write.                                                          *)
SharedByAll ==
  \A e, f \in Envs :
     /\ Running(e) /\ Running(f)
     /\ pt[e][Shared] # NoPte /\ pt[f][Shared] # NoPte
     => mem[pt[e][Shared].fr] = mem[pt[f][Shared].fr]

-----------------------------------------------------------------------------
(* fork and spawn implement AddressSpaces. *)

\* The child has the page, but its parent may still write it.
Pending(c, v) ==
  \E e \in Envs : /\ child[e] = c /\ pc[e] = "remap" /\ Va(e) = v
                  /\ pt[e][v].fr = pt[c][v].fr /\ "W" \in pt[e][v].perm

\* The child was given up; what it maps is never read.
Orphan(c) == pc[c] = "built" /\ \A e \in Envs : child[e] # c

Maker(c) ==
  IF \E e \in Envs : child[e] = c
  THEN LET e == CHOOSE f \in Envs : child[f] = c
       IN  [env |-> e, how |-> IF pc[e] \in Forking THEN "fork" ELSE "spawn"]
  ELSE [env |-> NoOne, how |-> "none"]

Status(e) ==
  CASE pc[e] = "unborn" -> "free" [] pc[e] = "built" -> "new" [] pc[e] = "dead" -> "dead"
    [] OTHER -> "run"

Reads(e, v) == IF pt[e][v] = NoPte \/ Pending(e, v) \/ Orphan(e) THEN NoOne ELSE mem[pt[e][v].fr]

statuses == [e \in Envs |-> Status(e)]
contents == [e \in Envs |-> [v \in VPages |-> Reads(e, v)]]
makers == [e \in Envs |-> Maker(e)]
sharers == {e \in Envs : "SHARE" \in pt[e][Shared].perm /\ ~Orphan(e)}

\* Those that have the sharers' frame by fork, without PTE_SHARE.
Follows(e) ==
  /\ "SHARE" \notin pt[e][Shared].perm /\ ~Orphan(e) /\ ~Pending(e, Shared)
  /\ \E s \in sharers : pt[s][Shared].fr = pt[e][Shared].fr
followers == {e \in Envs : Follows(e)}

\* What e has copied of the shared page, until it maps the copy.
Held(e) == IF flt[e].step = "map" /\ flt[e].va = Shared THEN mem[pt[e]["pftemp"].fr] ELSE NoOne
copies == [e \in Envs |-> Held(e)]

Spaces == INSTANCE AddressSpaces WITH
  Start <- [v \in VPages |-> IF v = Text THEN 1 ELSE 0],
  st <- statuses, val <- contents, by <- makers, group <- sharers, follow <- followers,
  hold <- copies

(* A forked child has the memory its parent had, page by page, while it    *)
(* forked, a spawned one that of the program, and no store of another      *)
(* environment shows in it later, although frames are shared copy-on-write,*)
(* faults copy them at any time, parents write their stack while they      *)
(* fork, and frames of the dead are used again. The exception is a shared  *)
(* page: parent and child of a fork see what its other users store until   *)
(* their own first store to it.                                            *)
ImplementsAddressSpaces == Spaces!Spec

=============================================================================
