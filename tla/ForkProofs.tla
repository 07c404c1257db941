----------------------------- MODULE ForkProofs ------------------------------
(***************************************************************************)
(* Proofs about Fork, for any number of environments, frames and values:   *)
(* copy-on-write is never left with one side still writable but for a page *)
(* that others share, and whoever runs with a copy-on-write page has its   *)
(* own handler's stack.                                                    *)
(***************************************************************************)
EXTENDS Fork, TLAPS

-----------------------------------------------------------------------------
(* The inductive invariant, in parts. *)

Vas == VPages \cup Special
Making == (Forking \cup Spawning) \ {"exofork", "sp_exofork"}
Labels == {"unborn", "built", "dead", "panic", "run"} \cup Forking \cup Spawning
Steps == {"none", "check", "copy", "map", "unmap", "return"}
Perms == {{}, {"W"}, {"COW"}, {"W", "SHARE"}}

Ptes == [fr : Frames \cup {NoOne}, perm : Perms]
Faults == [va : VPages \cup {NoOne}, step : Steps, outer : VPages \cup {NoOne}]

CtlTypes ==
  /\ pc \in [Envs -> Labels]
  /\ child \in [Envs -> Envs \cup {NoOne}]
  /\ page \in [Envs -> 0 .. 5]
FltTypes ==
  /\ flt \in [Envs -> Faults]
  /\ upcall \in [Envs -> BOOLEAN]
MemTypes ==
  /\ pt \in [Envs -> [Vas -> Ptes]]
  /\ mem \in [Frames -> Values]
TypeInv == CtlTypes /\ FltTypes /\ MemTypes

\* Nothing is mapped without a frame, and only Shared has PTE_SHARE.
PteInv ==
  \A e \in Envs : \A v \in Vas :
     /\ pt[e][v].fr = NoOne => pt[e][v].perm = {}
     /\ "SHARE" \in pt[e][v].perm => v = Shared

\* Who makes whom: a child has one maker, and is not yet running.
ChildInv ==
  \A e \in Envs :
     /\ child[e] # NoOne <=> pc[e] \in Making
     /\ child[e] # NoOne => pc[child[e]] = "built"
     /\ \A f \in Envs : (child[e] # NoOne /\ child[f] = child[e]) => f = e

\* What is not there has no memory, and what does not run handles no fault.
IdleInv ==
  \A e \in Envs :
     /\ pc[e] = "unborn" => pt[e] = NoPt
     /\ pc[e] \in {"unborn", "built", "dead", "panic"} => flt[e] = NoFault
     /\ flt[e] # NoFault => flt[e].step # "none" /\ flt[e].va # NoOne

LifeInv == ChildInv /\ IdleInv

\* How far fork and spawn have come.
PageInv ==
  \A e \in Envs :
     /\ pc[e] \in Making => page[e] >= 1
     /\ pc[e] \notin Making => page[e] = 0
     /\ pc[e] = "ux" => page[e] = 1
     /\ pc[e] = "remap" => page[e] <= 4
     /\ pc[e] \in {"sp_stack", "sp_stackmap", "sp_stackunmap"} => page[e] = 1
     /\ pc[e] \in {"sp_read", "sp_segmap", "sp_segunmap"} => page[e] = 1
     /\ pc[e] = "sp_seg" => page[e] <= 2
     /\ pc[e] \in {"sp_share", "sp_start"} => page[e] = 3

\* The handler copies a copy-on-write page to a page at PFTEMP.
FaultInv ==
  \A e \in Envs :
     /\ flt[e].step \in {"check", "copy", "map"} => "W" \notin pt[e][flt[e].va].perm
     /\ flt[e].step \in {"copy", "map"} => "COW" \in pt[e][flt[e].va].perm
     /\ flt[e].step \in {"copy", "map", "unmap"} => pt[e]["pftemp"].fr # NoOne

\* The copy is that of the page, but for a page that others may still share.
CopiedInv ==
  \A e \in Envs :
     flt[e].step = "map" /\ flt[e].va # Shared =>
       mem[pt[e]["pftemp"].fr] = mem[pt[e][flt[e].va].fr]

\* No one's child, and never to be.
Lost(c) == pc[c] = "built" /\ \A g \in Envs : child[g] # c

\* The two mappings of a page on its way: pgfault's new page, before PFTEMP is
\* unmapped; spawn's page, before UTEMP is.
Passing(e, s, f, w) ==
  /\ w \in VPages
  /\ \/ s = "pftemp" /\ f = e /\ flt[e].step = "unmap" /\ w = flt[e].va
     \/ s = "utemp" /\ f = child[e] /\ pc[e] \in {"sp_stackunmap", "sp_segunmap"}
     \/ s = "utemp" /\ pc[e] = "panic" /\ Lost(f)

\* A frame of the three special places is mapped nowhere else.
OwnInv ==
  \A e, f \in Envs : \A s \in Special, w \in Vas :
     pt[e][s].fr # NoOne /\ pt[f][w].fr = pt[e][s].fr =>
        \/ f = e /\ w = s
        \/ Passing(e, s, f, w)

\* A frame is at one address only, whoever maps it.
PlaceInv ==
  \A e, f \in Envs : \A v, w \in VPages :
     pt[e][v].fr # NoOne /\ pt[f][w].fr = pt[e][v].fr => v = w

\* f has e's page, and e may still write it: f is a child that does not run.
Hidden(e, f, v) ==
  /\ pc[f] = "built"
  /\ \A g \in Envs : child[g] = f => g = e /\ pc[e] = "remap" /\ Va(e) = v

\* A page that e shares, and f's mapping of the frame: shared, or taken by fork.
Lends(p, q) == "SHARE" \in p.perm /\ q.perm \cap {"SHARE", "COW"} # {}

\* WritableMeansSole, of the environments that do not run too.
WriteInv ==
  \A e, f \in Envs : \A v \in VPages :
     e # f /\ "W" \in pt[e][v].perm /\ pt[f][v].fr = pt[e][v].fr =>
        \/ Lends(pt[e][v], pt[f][v])
        \/ Hidden(e, f, v)

\* What fork knows of its child.
ForkInv ==
  \A e \in Envs : pc[e] \in Forking =>
     \A v \in VPages : child[e] # NoOne => "W" \notin pt[child[e]][v].perm

\* Who forks has a handler, and gives its child one first; spawn's child has none.
ReadyInv ==
  \A e \in Envs :
     /\ pc[e] \in Forking => upcall[e]
     /\ pc[e] \in {"dup", "remap", "start"} => upcall[child[e]]
     /\ pc[e] \in Spawning \ {"sp_exofork"} => ~upcall[child[e]]
     /\ pc[e] = "unborn" => ~upcall[e]

\* Who has a handler has its stack, who has a copy-on-write page has a handler.
HandInv ==
  \A e \in Envs :
     /\ upcall[e] => "W" \in pt[e]["uxstack"].perm
     /\ \A v \in VPages : "COW" \in pt[e][v].perm => upcall[e]

CowInv ==
  /\ TypeInv /\ PteInv /\ LifeInv /\ PageInv /\ FaultInv /\ CopiedInv
  /\ OwnInv /\ PlaceInv /\ WriteInv /\ ForkInv /\ ReadyInv /\ HandInv

-----------------------------------------------------------------------------
(* The pages of a program. *)

LEMMA PagesAre ==
  /\ VPages = {"text", "bss", "shared", "stack"} /\ Special = {"uxstack", "pftemp", "utemp"}
  /\ Order \in Seq(VPages) /\ Len(Order) = 4
  /\ Order[1] = "text" /\ Order[2] = "bss" /\ Order[3] = "shared" /\ Order[4] = "stack"
<1>1. DOMAIN Order = 1 .. 4 /\ Len(Order) = 4
  BY DEF Order
<1>2. Order[1] = "text" /\ Order[2] = "bss" /\ Order[3] = "shared" /\ Order[4] = "stack"
  BY DEF Order, Text, Bss, Shared, Stack
<1>3. VPages = {"text", "bss", "shared", "stack"}
  <2>1. ASSUME NEW v \in VPages PROVE v \in {"text", "bss", "shared", "stack"}
    BY <1>1, <1>2 DEF VPages
  <2>2. ASSUME NEW v \in {"text", "bss", "shared", "stack"} PROVE v \in VPages
    <3>1. Order[1] \in VPages /\ Order[2] \in VPages /\ Order[3] \in VPages /\ Order[4] \in VPages
      BY <1>1 DEF VPages
    <3>2. QED BY <3>1, <1>2
  <2>3. QED BY <2>1, <2>2
<1>4. Order \in Seq(VPages)
  BY <1>3 DEF Order, Text, Bss, Shared, Stack
<1>5. QED BY <1>1, <1>2, <1>3, <1>4 DEF Special

LEMMA VaIn ==
  ASSUME NEW e \in Envs, page[e] \in 1 .. 4
  PROVE  /\ Va(e) \in VPages
         /\ page[e] = 1 => Va(e) = "text"
         /\ page[e] = 2 => Va(e) = "bss"
         /\ page[e] = 3 => Va(e) = "shared"
         /\ page[e] = 4 => Va(e) = "stack"
BY PagesAre DEF Va

LEMMA NothingIs ==
  /\ NoOne \notin Envs /\ NoOne \notin Frames /\ NoOne \notin VPages
  /\ NoPte = [fr |-> NoOne, perm |-> {}] /\ NoPte \in Ptes
  /\ NoPt \in [Vas -> Ptes] /\ \A v \in Vas : NoPt[v] = NoPte
  /\ NoFault \in Faults /\ NoFault.step = "none" /\ NoFault.va = NoOne
BY ForkAssumption DEF NoPte, NoPt, NoFault, Ptes, Perms, Faults, Steps, Vas

-----------------------------------------------------------------------------
(* Types. *)

LEMMA InitTypes == Init => TypeInv
<1> SUFFICES ASSUME Init PROVE TypeInv
  OBVIOUS
<1> USE ForkAssumption, PagesAre, NothingIs
<1>1. CtlTypes
  BY DEF Init, CtlTypes, Labels
<1>2. FltTypes
  BY DEF Init, FltTypes
<1>3. FirstPt \in [Vas -> Ptes]
  <2>1. /\ [fr |-> 1, perm |-> {}] \in Ptes /\ [fr |-> 2, perm |-> {"W"}] \in Ptes
        /\ [fr |-> 3, perm |-> {"W", "SHARE"}] \in Ptes /\ [fr |-> 4, perm |-> {"W"}] \in Ptes
    BY DEF Ptes, Perms
  <2>2. QED BY <2>1 DEF FirstPt, Text, Bss, Shared, Stack, Vas
<1>4. MemTypes
  BY <1>3 DEF Init, MemTypes
<1>5. QED BY <1>1, <1>2, <1>4 DEF TypeInv

-----------------------------------------------------------------------------
(* The types are kept. *)

StepOf(e) == Program(e) \/ Handler(e) \/ ForkStep(e) \/ SpawnStep(e) \/ Destroyed(e)

\* What is known of the environment that makes a step.
LEMMA Mine ==
  ASSUME CtlTypes, FltTypes, LifeInv, PageInv, NEW e \in Envs
  PROVE  /\ pc[e] \in Labels /\ child[e] \in Envs \cup {NoOne} /\ page[e] \in 0 .. 5
         /\ pc[e] \in Making => child[e] \in Envs /\ pc[child[e]] = "built" /\ page[e] \in 1 .. 5
         /\ pc[e] = "remap" => page[e] \in 1 .. 4
         /\ pc[e] \in {"ux", "sp_read", "sp_segmap", "sp_segunmap"} => page[e] = 1
         /\ pc[e] = "sp_seg" => page[e] \in 1 .. 2
         /\ flt[e] \in Faults
         /\ flt[e] # NoFault => pc[e] \in Labels \ {"unborn", "built", "dead", "panic"} /\ flt[e].va \in VPages
BY NothingIs DEF CtlTypes, FltTypes, LifeInv, ChildInv, IdleInv, PageInv, Making, Forking,
    Spawning, Faults

\* The handler goes from step to step.
LEMMA FaultGoes ==
  ASSUME FltTypes, NEW e \in Envs, NEW s \in Steps, FaultStep(e, s)
  PROVE  /\ flt' \in [Envs -> Faults]
         /\ \A f \in Envs : flt'[f] = IF f = e THEN [va |-> flt[e].va, step |-> s, outer |-> flt[e].outer]
                                              ELSE flt[f]
<1>1. flt \in [Envs -> Faults] /\ flt[e] \in Faults
  BY DEF FltTypes
<1>2. [flt[e] EXCEPT !.step = s] = [va |-> flt[e].va, step |-> s, outer |-> flt[e].outer]
  BY <1>1 DEF Faults
<1>3. [va |-> flt[e].va, step |-> s, outer |-> flt[e].outer] \in Faults
  BY <1>1 DEF Faults
<1>4. flt' = [flt EXCEPT ![e] = [va |-> flt[e].va, step |-> s, outer |-> flt[e].outer]]
  BY <1>1, <1>2 DEF FaultStep
<1>5. QED BY <1>1, <1>3, <1>4

LEMMA CtlStep ==
  ASSUME CowInv, NEW e \in Envs, StepOf(e)
  PROVE  CtlTypes'
<1>1. CtlTypes /\ FltTypes /\ LifeInv /\ PageInv
  BY DEF CowInv, TypeInv
<1>2. /\ CtlTypes /\ child[e] \in Envs \cup {NoOne} /\ page[e] \in 0 .. 5
      /\ pc[e] \in Making => child[e] \in Envs
      /\ pc[e] = "sp_segunmap" => page[e] = 1
      /\ pc[e] = "sp_seg" => page[e] \in 1 .. 2
      /\ pc[e] = "remap" => page[e] \in 1 .. 4
  BY <1>1, Mine
<1>3. ASSUME NEW va \in VPages, Fault(e, va) PROVE CtlTypes'
  BY <1>2, <1>3 DEF Fault, Event, MayStore, CtlTypes, Labels, Making, Forking,
     Spawning
<1>4. ASSUME NEW va \in VPages, FaultKills(e, va) PROVE CtlTypes'
  BY <1>2, <1>4 DEF FaultKills, MayStore, Gone, CtlTypes, Labels, Making,
     Forking, Spawning
<1>5. ASSUME NEW va \in VPages, NEW x \in Values, Store(e, va, x) PROVE CtlTypes'
  BY <1>2, <1>5 DEF Store, MayStore, CtlTypes, Labels, Making, Forking,
     Spawning
<1>6. CASE SetPgfaultHandler(e)
  BY <1>2, <1>6 DEF SetPgfaultHandler, Goto, At, CtlTypes, Labels, Making,
     Forking, Spawning
<1>7. CASE SetPgfaultHandlerPanics(e)
  BY <1>2, <1>7 DEF SetPgfaultHandlerPanics, At, Panic, Goto, Return, Event,
     CtlTypes, Labels, Making, Forking, Spawning
<1>8. CASE Spawn(e)
  BY <1>2, <1>8 DEF Spawn, Goto, At, CtlTypes, Labels, Making, Forking,
     Spawning
<1>9. CASE PgfaultAlloc(e)
  BY <1>2, <1>9 DEF PgfaultAlloc, InFault, FaultStep, CtlTypes, Labels,
     Making, Forking, Spawning
<1>10. CASE PgfaultPanics(e)
  BY <1>2, <1>10 DEF PgfaultPanics, Panic, InFault, Goto, Return, Event,
     CtlTypes, Labels, Making, Forking, Spawning
<1>11. CASE PgfaultCopy(e)
  BY <1>2, <1>11 DEF PgfaultCopy, InFault, FaultStep, CtlTypes, Labels, Making,
     Forking, Spawning
<1>12. CASE PgfaultMap(e)
  BY <1>2, <1>12 DEF PgfaultMap, InFault, FaultStep, CtlTypes, Labels, Making,
     Forking, Spawning
<1>13. CASE PgfaultUnmap(e)
  BY <1>2, <1>13 DEF PgfaultUnmap, InFault, FaultStep, CtlTypes, Labels,
     Making, Forking, Spawning
<1>14. CASE PgfaultReturn(e)
  BY <1>2, <1>14 DEF PgfaultReturn, InFault, CtlTypes, Labels, Making,
     Forking, Spawning
<1>15. CASE ForkExofork(e)
  <2>1. CASE \E c \in Envs : child' = [child EXCEPT ![e] = c] /\ page' = [page EXCEPT ![e] = 1]
                             /\ pc' = [pc EXCEPT ![e] = "ux", ![c] = "built"]
    BY <1>2, <2>1 DEF CtlTypes, Labels, Forking, Spawning
  <2>2. CASE pc' = [pc EXCEPT ![e] = "run"] /\ UNCHANGED <<child, page>>
    BY <1>2, <2>2 DEF CtlTypes, Labels
  <2>3. QED BY <1>15, <2>1, <2>2 DEF ForkExofork, Exofork, Goto
<1>16. CASE ForkExceptionStack(e)
  BY <1>2, <1>16 DEF ForkExceptionStack, Goto, At, CtlTypes, Labels, Making,
     Forking, Spawning
<1>17. CASE ForkLoop(e)
  BY <1>2, <1>17, PagesAre DEF ForkLoop, Goto, At, CtlTypes, Labels, Making,
     Forking, Spawning
<1>18. CASE DuppageChild(e)
  BY <1>2, <1>18, PagesAre DEF DuppageChild, Goto, At, CtlTypes, Labels,
     Making, Forking, Spawning
<1>19. CASE DuppageParent(e)
  BY <1>2, <1>19 DEF DuppageParent, Goto, At, CtlTypes, Labels, Making,
     Forking, Spawning
<1>20. CASE ForkFails(e)
  BY <1>2, <1>20 DEF ForkFails, Goto, Return, Event, CtlTypes, Labels, Making,
     Forking, Spawning
<1>21. CASE ForkDone(e)
  BY <1>2, <1>21 DEF ForkDone, SetRunnable, Return, At, CtlTypes, Labels,
     Making, Forking, Spawning
<1>22. CASE SpawnExofork(e)
  <2>1. CASE \E c \in Envs : child' = [child EXCEPT ![e] = c] /\ page' = [page EXCEPT ![e] = 1]
                             /\ pc' = [pc EXCEPT ![e] = "sp_stack", ![c] = "built"]
    BY <1>2, <2>1 DEF CtlTypes, Labels, Forking, Spawning
  <2>2. CASE pc' = [pc EXCEPT ![e] = "run"] /\ UNCHANGED <<child, page>>
    BY <1>2, <2>2 DEF CtlTypes, Labels
  <2>3. QED BY <1>22, <2>1, <2>2 DEF SpawnExofork, Exofork, Goto
<1>23. CASE InitStackAlloc(e)
  BY <1>2, <1>23 DEF InitStackAlloc, Goto, At, CtlTypes, Labels, Making,
     Forking, Spawning
<1>24. CASE InitStackMap(e)
  BY <1>2, <1>24 DEF InitStackMap, Goto, At, CtlTypes, Labels, Making,
     Forking, Spawning
<1>25. CASE InitStackUnmap(e)
  BY <1>2, <1>25 DEF InitStackUnmap, Goto, At, CtlTypes, Labels, Making,
     Forking, Spawning
<1>26. CASE InitStackFails(e)
  BY <1>2, <1>26 DEF InitStackFails, Goto, Return, Event, CtlTypes, Labels,
     Making, Forking, Spawning
<1>27. CASE MapSegmentAlloc(e)
  BY <1>2, <1>27 DEF MapSegmentAlloc, Goto, At, CtlTypes, Labels, Making,
     Forking, Spawning
<1>28. CASE MapSegmentRead(e)
  BY <1>2, <1>28 DEF MapSegmentRead, Goto, At, CtlTypes, Labels, Making,
     Forking, Spawning
<1>29. CASE MapSegmentMap(e)
  BY <1>2, <1>29 DEF MapSegmentMap, Goto, At, CtlTypes, Labels, Making,
     Forking, Spawning
<1>30. CASE MapSegmentUnmap(e)
  BY <1>2, <1>30 DEF MapSegmentUnmap, Goto, At, CtlTypes, Labels, Making,
     Forking, Spawning
<1>31. CASE MapSegmentBlank(e)
  BY <1>2, <1>31 DEF MapSegmentBlank, Goto, At, CtlTypes, Labels, Making,
     Forking, Spawning
<1>32. CASE SpawnFails(e)
  BY <1>2, <1>32 DEF SpawnFails, Return, Event, CtlTypes, Labels, Making,
     Forking, Spawning
<1>33. CASE CopySharedPages(e)
  BY <1>2, <1>33 DEF CopySharedPages, Goto, At, CtlTypes, Labels, Making,
     Forking, Spawning
<1>34. CASE SpawnPanics(e)
  BY <1>2, <1>34 DEF SpawnPanics, Panic, Goto, Return, Event, CtlTypes,
     Labels, Making, Forking, Spawning
<1>35. CASE SpawnDone(e)
  BY <1>2, <1>35 DEF SpawnDone, SetRunnable, Return, At, CtlTypes, Labels,
     Making, Forking, Spawning
<1>36. CASE Destroyed(e)
  BY <1>2, <1>36 DEF Destroyed, Event, Gone, CtlTypes, Labels, Making,
     Forking, Spawning
<1>37. QED
  BY <1>3, <1>4, <1>5, <1>6, <1>7, <1>8, <1>9, <1>10, <1>11, <1>12, <1>13,
     <1>14, <1>15, <1>16, <1>17, <1>18, <1>19, <1>20, <1>21, <1>22, <1>23,
     <1>24, <1>25, <1>26, <1>27, <1>28, <1>29, <1>30, <1>31, <1>32, <1>33,
     <1>34, <1>35, <1>36 DEF StepOf, Program, Handler, ForkStep, SpawnStep

LEMMA FltStep ==
  ASSUME CowInv, NEW e \in Envs, StepOf(e)
  PROVE  FltTypes'
<1>1. FltTypes /\ NoFault \in Faults /\ (pc[e] \in Making => child[e] \in Envs)
  BY Mine, NothingIs DEF CowInv, TypeInv
<1>2. ASSUME NEW va \in VPages, Fault(e, va) PROVE FltTypes'
  <2>1. [va |-> va, step |-> "check", outer |-> NoOne] \in Faults
    BY DEF Faults, Steps
  <2>2. QED BY <1>1, <1>2, <2>1 DEF Fault, FltTypes
<1>3. ASSUME NEW va \in VPages, FaultKills(e, va) PROVE FltTypes'
  BY <1>1, <1>3 DEF FaultKills, MayStore, Gone, FltTypes
<1>4. ASSUME NEW va \in VPages, NEW x \in Values, Store(e, va, x) PROVE FltTypes'
  BY <1>1, <1>4 DEF Store, MayStore, FltTypes
<1>5. CASE SetPgfaultHandler(e)
  BY <1>1, <1>5 DEF SetPgfaultHandler, Goto, At, FltTypes
<1>6. CASE SetPgfaultHandlerPanics(e)
  BY <1>1, <1>6 DEF SetPgfaultHandlerPanics, At, Panic, Goto, Return, Event,
     FltTypes
<1>7. CASE Spawn(e)
  BY <1>1, <1>7 DEF Spawn, Goto, At, FltTypes
<1>8. CASE PgfaultAlloc(e)
  <2>1. FaultStep(e, "copy") /\ UNCHANGED upcall
    BY <1>8 DEF PgfaultAlloc
  <2>2. QED BY <1>1, <2>1, FaultGoes DEF FltTypes, Steps
<1>9. CASE PgfaultPanics(e)
  BY <1>1, <1>9 DEF PgfaultPanics, Panic, InFault, Goto, Return, Event,
     FltTypes
<1>10. CASE PgfaultCopy(e)
  <2>1. FaultStep(e, "map") /\ UNCHANGED upcall
    BY <1>10 DEF PgfaultCopy
  <2>2. QED BY <1>1, <2>1, FaultGoes DEF FltTypes, Steps
<1>11. CASE PgfaultMap(e)
  <2>1. FaultStep(e, "unmap") /\ UNCHANGED upcall
    BY <1>11 DEF PgfaultMap
  <2>2. QED BY <1>1, <2>1, FaultGoes DEF FltTypes, Steps
<1>12. CASE PgfaultUnmap(e)
  <2>1. FaultStep(e, "return") /\ UNCHANGED upcall
    BY <1>12 DEF PgfaultUnmap
  <2>2. QED BY <1>1, <2>1, FaultGoes DEF FltTypes, Steps
<1>13. CASE PgfaultReturn(e)
  <2>1. /\ flt[e].outer # NoOne => [va |-> flt[e].outer, step |-> "return", outer |-> NoOne] \in Faults
        /\ NoFault \in Faults /\ [va |-> Stack, step |-> "check", outer |-> flt[e].va] \in Faults
    BY <1>1, PagesAre, NothingIs DEF FltTypes, Faults, Steps, Stack
  <2>2. QED BY <1>1, <1>13, <2>1 DEF PgfaultReturn, FltTypes
<1>14. CASE ForkExofork(e)
  BY <1>1, <1>14 DEF ForkExofork, Exofork, Goto, At, Event, FltTypes
<1>15. CASE ForkExceptionStack(e)
  BY <1>1, <1>15 DEF ForkExceptionStack, Goto, At, FltTypes
<1>16. CASE ForkLoop(e)
  BY <1>1, <1>16 DEF ForkLoop, Goto, At, FltTypes
<1>17. CASE DuppageChild(e)
  BY <1>1, <1>17 DEF DuppageChild, Goto, At, FltTypes
<1>18. CASE DuppageParent(e)
  BY <1>1, <1>18 DEF DuppageParent, Goto, At, FltTypes
<1>19. CASE ForkFails(e)
  BY <1>1, <1>19 DEF ForkFails, Goto, Return, Event, FltTypes
<1>20. CASE ForkDone(e)
  BY <1>1, <1>20 DEF ForkDone, SetRunnable, Return, At, FltTypes
<1>21. CASE SpawnExofork(e)
  BY <1>1, <1>21 DEF SpawnExofork, Exofork, Goto, At, Event, FltTypes
<1>22. CASE InitStackAlloc(e)
  BY <1>1, <1>22 DEF InitStackAlloc, Goto, At, FltTypes
<1>23. CASE InitStackMap(e)
  BY <1>1, <1>23 DEF InitStackMap, Goto, At, FltTypes
<1>24. CASE InitStackUnmap(e)
  BY <1>1, <1>24 DEF InitStackUnmap, Goto, At, FltTypes
<1>25. CASE InitStackFails(e)
  BY <1>1, <1>25 DEF InitStackFails, Goto, Return, Event, FltTypes
<1>26. CASE MapSegmentAlloc(e)
  BY <1>1, <1>26 DEF MapSegmentAlloc, Goto, At, FltTypes
<1>27. CASE MapSegmentRead(e)
  BY <1>1, <1>27 DEF MapSegmentRead, Goto, At, FltTypes
<1>28. CASE MapSegmentMap(e)
  BY <1>1, <1>28 DEF MapSegmentMap, Goto, At, FltTypes
<1>29. CASE MapSegmentUnmap(e)
  BY <1>1, <1>29 DEF MapSegmentUnmap, Goto, At, FltTypes
<1>30. CASE MapSegmentBlank(e)
  BY <1>1, <1>30 DEF MapSegmentBlank, Goto, At, FltTypes
<1>31. CASE SpawnFails(e)
  BY <1>1, <1>31 DEF SpawnFails, Return, Event, FltTypes
<1>32. CASE CopySharedPages(e)
  BY <1>1, <1>32 DEF CopySharedPages, Goto, At, FltTypes
<1>33. CASE SpawnPanics(e)
  BY <1>1, <1>33 DEF SpawnPanics, Panic, Goto, Return, Event, FltTypes
<1>34. CASE SpawnDone(e)
  BY <1>1, <1>34 DEF SpawnDone, SetRunnable, Return, At, FltTypes
<1>35. CASE Destroyed(e)
  BY <1>1, <1>35 DEF Destroyed, Event, Gone, FltTypes
<1>36. QED
  BY <1>2, <1>3, <1>4, <1>5, <1>6, <1>7, <1>8, <1>9, <1>10, <1>11, <1>12,
     <1>13, <1>14, <1>15, <1>16, <1>17, <1>18, <1>19, <1>20, <1>21, <1>22,
     <1>23, <1>24, <1>25, <1>26, <1>27, <1>28, <1>29, <1>30, <1>31, <1>32,
     <1>33, <1>34, <1>35 DEF StepOf, Program, Handler, ForkStep, SpawnStep

-----------------------------------------------------------------------------
(* The kernel's page calls change one entry. *)

LEMMA OneEntry ==
  ASSUME MemTypes, NEW e \in Envs, NEW va \in Vas, NEW p \in Ptes, pt' = [pt EXCEPT ![e][va] = p]
  PROVE  /\ pt' \in [Envs -> [Vas -> Ptes]]
         /\ \A g \in Envs, w \in Vas : pt'[g][w] = IF g = e /\ w = va THEN p ELSE pt[g][w]
<1>1. pt \in [Envs -> [Vas -> Ptes]]
  BY DEF MemTypes
<1>2. [pt[e] EXCEPT ![va] = p] \in [Vas -> Ptes]
  BY <1>1
<1>3. pt' = [pt EXCEPT ![e] = [pt[e] EXCEPT ![va] = p]]
  BY <1>1
<1>4. QED BY <1>1, <1>2, <1>3

LEMMA AllocIs ==
  ASSUME MemTypes, NEW e \in Envs, NEW va \in Vas, NEW perm \in Perms, NEW x \in Values,
         PageAllocFill(e, va, perm, x)
  PROVE  /\ MemTypes'
         /\ \E n \in FreeFrames :
              /\ \A g \in Envs, w \in Vas : pt'[g][w] = IF g = e /\ w = va THEN Pte(n, perm) ELSE pt[g][w]
              /\ mem' = [mem EXCEPT ![n] = x]
<1>1. PICK n \in FreeFrames : pt' = [pt EXCEPT ![e][va] = Pte(n, perm)] /\ mem' = [mem EXCEPT ![n] = x]
  BY DEF PageAllocFill
<1>2. n \in Frames /\ Pte(n, perm) \in Ptes
  BY <1>1 DEF FreeFrames, Ptes, Pte
<1>3. /\ pt' \in [Envs -> [Vas -> Ptes]]
      /\ \A g \in Envs, w \in Vas : pt'[g][w] = IF g = e /\ w = va THEN Pte(n, perm) ELSE pt[g][w]
  <2>1. pt' = [pt EXCEPT ![e][va] = Pte(n, perm)]
    BY <1>1
  <2>2. QED BY <1>2, <2>1, OneEntry, ZenonT(30)
<1>4. mem' \in [Frames -> Values]
  <2>1. mem \in [Frames -> Values] /\ mem' = [mem EXCEPT ![n] = x]
    BY <1>1 DEF MemTypes
  <2>2. QED BY <2>1
<1>5. MemTypes'
  BY <1>3, <1>4 DEF MemTypes
<1>6. QED BY <1>1, <1>3, <1>5

LEMMA MapIs ==
  ASSUME MemTypes, NEW e \in Envs, NEW va \in Vas, NEW to \in Envs, NEW tova \in Vas,
         NEW perm \in Perms, PageMap(e, va, to, tova, perm)
  PROVE  /\ MemTypes'
         /\ \A g \in Envs, w \in Vas : pt'[g][w] = IF g = to /\ w = tova THEN Pte(pt[e][va].fr, perm) ELSE pt[g][w]
<1>1. Pte(pt[e][va].fr, perm) \in Ptes
  BY DEF MemTypes, Ptes, Pte
<1>2. QED BY <1>1, OneEntry DEF PageMap, MemTypes

LEMMA UnmapIs ==
  ASSUME MemTypes, NEW e \in Envs, NEW va \in Vas, PageUnmap(e, va)
  PROVE  /\ MemTypes'
         /\ \A g \in Envs, w \in Vas : pt'[g][w] = IF g = e /\ w = va THEN NoPte ELSE pt[g][w]
<1>1. QED BY NothingIs, OneEntry DEF PageUnmap, MemTypes

\* A page table is freed.
LEMMA ClearIs ==
  ASSUME MemTypes, NEW e \in Envs, pt' = [pt EXCEPT ![e] = NoPt], UNCHANGED mem
  PROVE  /\ MemTypes'
         /\ \A g \in Envs, w \in Vas : pt'[g][w] = IF g = e THEN NoPte ELSE pt[g][w]
BY NothingIs DEF MemTypes

\* A frame that is free is mapped by no one.
LEMMA FreeIs ==
  ASSUME NEW n \in FreeFrames
  PROVE  n \in Frames /\ \A g \in Envs, w \in Vas : pt[g][w].fr # n
BY DEF FreeFrames, Vas

-----------------------------------------------------------------------------
(* Page tables stay well formed. *)

LEMMA NoPteIs ==
  ASSUME MemTypes, PteInv, NEW e \in Envs, NEW v \in Vas
  PROVE  pt[e][v] = NoPte <=> pt[e][v].fr = NoOne
<1>1. pt[e][v] = [fr |-> pt[e][v].fr, perm |-> pt[e][v].perm]
  BY DEF MemTypes, Ptes
<1>2. ASSUME pt[e][v].fr = NoOne PROVE pt[e][v] = NoPte
  <2>1. pt[e][v].perm = {}
    BY <1>2 DEF PteInv
  <2>2. QED BY <1>1, <1>2, <2>1 DEF NoPte
<1>3. QED BY <1>2, NothingIs

LEMMA StillKeeps ==
  ASSUME MemTypes, PteInv, UNCHANGED <<pt, mem>>
  PROVE  MemTypes' /\ PteInv'
BY DEF MemTypes, PteInv

LEMMA AllocKeeps ==
  ASSUME MemTypes, PteInv, NEW e \in Envs, NEW va \in Vas, NEW perm \in Perms, "SHARE" \notin perm,
         NEW x \in Values, PageAllocFill(e, va, perm, x)
  PROVE  MemTypes' /\ PteInv'
<1>1. MemTypes'
  BY AllocIs
<1>2. PICK n \in FreeFrames :
        \A g \in Envs, w \in Vas : pt'[g][w] = IF g = e /\ w = va THEN Pte(n, perm) ELSE pt[g][w]
  BY AllocIs
<1>3. n # NoOne
  BY FreeIs, NothingIs
<1>4. QED BY <1>1, <1>2, <1>3 DEF PteInv, Pte

LEMMA MapKeeps ==
  ASSUME MemTypes, PteInv, NEW e \in Envs, NEW va \in Vas, NEW to \in Envs, NEW tova \in Vas,
         NEW perm \in Perms, "SHARE" \in perm => tova = Shared, PageMap(e, va, to, tova, perm)
  PROVE  MemTypes' /\ PteInv'
<1>1. pt[e][va].fr # NoOne
  BY NoPteIs DEF PageMap
<1>2. /\ MemTypes'
      /\ \A g \in Envs, w \in Vas : pt'[g][w] = IF g = to /\ w = tova THEN Pte(pt[e][va].fr, perm) ELSE pt[g][w]
  BY MapIs
<1>3. QED BY <1>1, <1>2 DEF PteInv, Pte

LEMMA UnmapKeeps ==
  ASSUME MemTypes, PteInv, NEW e \in Envs, NEW va \in Vas, PageUnmap(e, va)
  PROVE  MemTypes' /\ PteInv'
BY UnmapIs, NothingIs DEF PteInv

LEMMA ClearKeeps ==
  ASSUME MemTypes, PteInv, NEW e \in Envs, pt' = [pt EXCEPT ![e] = NoPt], UNCHANGED mem
  PROVE  MemTypes' /\ PteInv'
<1>1. /\ MemTypes'
      /\ \A g \in Envs, w \in Vas : pt'[g][w] = IF g = e THEN NoPte ELSE pt[g][w]
  BY ClearIs
<1>2. QED BY <1>1, NothingIs DEF PteInv

LEMMA PermsAre == {} \in Perms /\ {"W"} \in Perms /\ {"COW"} \in Perms
BY DEF Perms

LEMMA SpotsAre ==
  /\ Vas = VPages \cup Special /\ VPages \cap Special = {} /\ {Text, Bss, Shared, Stack} \subseteq VPages
  /\ "uxstack" \in Special /\ "pftemp" \in Special /\ "utemp" \in Special
  /\ 0 \in Values /\ \A v \in VPages : Image[v] \in Values
BY PagesAre, ForkAssumption DEF Vas, Image, Text, Bss, Shared, Stack

LEMMA MemStep ==
  ASSUME CowInv, NEW e \in Envs, StepOf(e)
  PROVE  MemTypes' /\ PteInv'
<1>1. CtlTypes /\ FltTypes /\ MemTypes /\ LifeInv /\ PageInv /\ PteInv /\ FaultInv
  BY DEF CowInv, TypeInv
<1>2. /\ MemTypes /\ PteInv
      /\ pc[e] \in Making => child[e] \in Envs /\ page[e] \in 1 .. 5
      /\ pc[e] = "remap" => page[e] \in 1 .. 4
      /\ pc[e] \in {"sp_read", "sp_segmap"} => page[e] = 1
      /\ flt[e] # NoFault => flt[e].va \in VPages
      /\ flt[e].step = "copy" => "COW" \in pt[e][flt[e].va].perm
  BY <1>1, Mine DEF FaultInv
<1>3. ASSUME NEW va \in VPages, Fault(e, va) PROVE MemTypes' /\ PteInv'
  BY <1>2, <1>3 DEF Fault, Event, MayStore, MemTypes, PteInv
<1>4. ASSUME NEW va \in VPages, FaultKills(e, va) PROVE MemTypes' /\ PteInv'
  BY <1>2, <1>4, ClearKeeps DEF FaultKills, Gone
<1>5. ASSUME NEW va \in VPages, NEW x \in Values, Store(e, va, x) PROVE MemTypes' /\ PteInv'
  <2>1. mem' \in [Frames -> Values] /\ UNCHANGED pt
    BY <1>2, <1>5 DEF Store, MemTypes
  <2>2. QED BY <2>1, <1>2 DEF MemTypes, PteInv
<1>6. CASE SetPgfaultHandler(e)
  <2>1. UNCHANGED <<pt, mem>> \/ PageAllocFill(e, "uxstack", {"W"}, 0)
    BY <1>6 DEF SetPgfaultHandler, PageAlloc
  <2>2. QED BY <2>1, <1>2, PermsAre, SpotsAre, AllocKeeps, StillKeeps
<1>7. CASE SetPgfaultHandlerPanics(e)
  BY <1>2, <1>7 DEF SetPgfaultHandlerPanics, At, Panic, Goto, Return, Event,
     MemTypes, PteInv
<1>8. CASE Spawn(e)
  BY <1>2, <1>8 DEF Spawn, Goto, At, MemTypes, PteInv
<1>9. CASE PgfaultAlloc(e)
  <2>1. PageAllocFill(e, "pftemp", {"W"}, 0)
    BY <1>2, <1>9, PagesAre, VaIn DEF PgfaultAlloc, PageAlloc, InFault
  <2>2. QED BY <2>1, <1>2, PermsAre, SpotsAre, AllocKeeps
<1>10. CASE PgfaultPanics(e)
  BY <1>2, <1>10 DEF PgfaultPanics, Panic, InFault, Goto, Return, Event,
     MemTypes, PteInv
<1>11. CASE PgfaultCopy(e)
  <2>1. flt[e].va \in VPages /\ pt[e][flt[e].va].fr \in Frames
    BY <1>2, <1>11, SpotsAre, NothingIs DEF PgfaultCopy, InFault, MemTypes, Ptes, PteInv
  <2>2. QED BY <2>1, <1>2, <1>11 DEF PgfaultCopy, MemTypes, PteInv
<1>12. CASE PgfaultMap(e)
  <2>1. flt[e].va \in VPages /\ PageMap(e, "pftemp", e, flt[e].va, {"W"})
    BY <1>2, <1>12, NothingIs DEF PgfaultMap, InFault, FltTypes, Faults
  <2>2. QED BY <2>1, <1>2, PermsAre, SpotsAre, MapKeeps
<1>13. CASE PgfaultUnmap(e)
  BY <1>2, <1>13, SpotsAre, UnmapKeeps DEF PgfaultUnmap
<1>14. CASE PgfaultReturn(e)
  BY <1>2, <1>14 DEF PgfaultReturn, InFault, MemTypes, PteInv
<1>15. CASE ForkExofork(e)
  BY <1>2, <1>15 DEF ForkExofork, Exofork, Goto, At, Event, MemTypes, PteInv
<1>16. CASE ForkExceptionStack(e)
  <2>1. child[e] \in Envs /\ PageAllocFill(child[e], "uxstack", {"W"}, 0)
    BY <1>2, <1>16, PagesAre, VaIn DEF ForkExceptionStack, Goto, At, PageAlloc, Making, Forking
  <2>2. QED BY <2>1, <1>2, PermsAre, SpotsAre, AllocKeeps
<1>17. CASE ForkLoop(e)
  BY <1>2, <1>17 DEF ForkLoop, Goto, At, MemTypes, PteInv
<1>18. CASE DuppageChild(e)
  <2>1. child[e] \in Envs /\ Va(e) \in VPages
    BY <1>2, <1>18, PagesAre, VaIn DEF DuppageChild, At, Making, Forking
  <2>2. PICK perm \in Perms : PageMap(e, Va(e), child[e], Va(e), perm) /\ ("SHARE" \in perm => Va(e) = Shared)
    <3>1. CASE PageMap(e, Va(e), child[e], Va(e), {"COW"})
      BY <3>1, PermsAre
    <3>2. CASE ~Writable(e) /\ PageMap(e, Va(e), child[e], Va(e), pt[e][Va(e)].perm \cap {"SHARE"})
      <4>1. pt[e][Va(e)].perm \in Perms /\ pt[e][Va(e)].perm \cap {"W", "COW"} = {}
        BY <1>2, <2>1, <3>2, SpotsAre DEF MemTypes, Ptes, Writable
      <4>2. pt[e][Va(e)].perm \cap {"SHARE"} = {}
        BY <4>1 DEF Perms
      <4>3. QED BY <3>2, <4>2, PermsAre
    <3>3. QED BY <1>18, <3>1, <3>2 DEF DuppageChild
  <2>3. QED BY <2>1, <2>2, <1>2, SpotsAre, MapKeeps
<1>19. CASE DuppageParent(e)
  <2>1. Va(e) \in VPages /\ PageMap(e, Va(e), e, Va(e), {"COW"})
    BY <1>2, <1>19, PagesAre, VaIn DEF DuppageParent, Goto, At
  <2>2. QED BY <2>1, <1>2, PermsAre, SpotsAre, MapKeeps
<1>20. CASE ForkFails(e)
  BY <1>2, <1>20 DEF ForkFails, Goto, Return, Event, MemTypes, PteInv
<1>21. CASE ForkDone(e)
  BY <1>2, <1>21 DEF ForkDone, SetRunnable, Return, At, MemTypes, PteInv
<1>22. CASE SpawnExofork(e)
  BY <1>2, <1>22 DEF SpawnExofork, Exofork, Goto, At, Event, MemTypes, PteInv
<1>23. CASE InitStackAlloc(e)
  <2>1. PageAllocFill(e, "utemp", {"W"}, Image[Stack])
    BY <1>2, <1>23, PagesAre, VaIn DEF InitStackAlloc, Goto, At
  <2>2. QED BY <2>1, <1>2, PermsAre, SpotsAre, AllocKeeps
<1>24. CASE InitStackMap(e)
  <2>1. child[e] \in Envs /\ PageMap(e, "utemp", child[e], Stack, {"W"})
    BY <1>2, <1>24, PagesAre, VaIn DEF InitStackMap, Goto, At, Making, Spawning
  <2>2. QED BY <2>1, <1>2, PermsAre, SpotsAre, MapKeeps
<1>25. CASE InitStackUnmap(e)
  BY <1>2, <1>25, SpotsAre, UnmapKeeps DEF InitStackUnmap
<1>26. CASE InitStackFails(e)
  BY <1>2, <1>26, SpotsAre, UnmapKeeps, StillKeeps DEF InitStackFails
<1>27. CASE MapSegmentAlloc(e)
  <2>1. PageAllocFill(e, "utemp", {"W"}, 0)
    BY <1>2, <1>27, PagesAre, VaIn DEF MapSegmentAlloc, Goto, At, PageAlloc
  <2>2. QED BY <2>1, <1>2, PermsAre, SpotsAre, AllocKeeps
<1>28. CASE MapSegmentRead(e)
  <2>1. Image[Va(e)] \in Values
    BY <1>2, <1>28, VaIn, PagesAre, ForkAssumption DEF MapSegmentRead, At, Image
  <2>2. QED BY <2>1, <1>2, <1>28 DEF MapSegmentRead, MemTypes, PteInv
<1>29. CASE MapSegmentMap(e)
  <2>1. child[e] \in Envs /\ Va(e) \in VPages /\ PageMap(e, "utemp", child[e], Va(e), {})
    BY <1>2, <1>29, PagesAre, VaIn DEF MapSegmentMap, Goto, At, Making, Spawning
  <2>2. QED BY <2>1, <1>2, PermsAre, SpotsAre, MapKeeps
<1>30. CASE MapSegmentUnmap(e)
  BY <1>2, <1>30, SpotsAre, UnmapKeeps DEF MapSegmentUnmap
<1>31. CASE MapSegmentBlank(e)
  <2>1. child[e] \in Envs /\ PageAllocFill(child[e], Bss, {"W"}, 0)
    BY <1>2, <1>31, PagesAre, VaIn DEF MapSegmentBlank, Goto, At, PageAlloc, Making, Spawning
  <2>2. QED BY <2>1, <1>2, PermsAre, SpotsAre, AllocKeeps
<1>32. CASE SpawnFails(e)
  BY <1>2, <1>32, ClearKeeps DEF SpawnFails, Making, Spawning
<1>33. CASE CopySharedPages(e)
  <2>1. child[e] \in Envs /\ pt[e][Shared].perm \in Perms
    BY <1>2, <1>33, SpotsAre DEF CopySharedPages, At, Making, Spawning, MemTypes, Ptes
  <2>2. UNCHANGED <<pt, mem>> \/ PageMap(e, Shared, child[e], Shared, pt[e][Shared].perm)
    BY <1>33 DEF CopySharedPages
  <2>3. QED BY <2>1, <2>2, <1>2, SpotsAre, MapKeeps, StillKeeps
<1>34. CASE SpawnPanics(e)
  BY <1>2, <1>34 DEF SpawnPanics, Panic, Goto, Return, Event, MemTypes, PteInv
<1>35. CASE SpawnDone(e)
  BY <1>2, <1>35 DEF SpawnDone, SetRunnable, Return, At, MemTypes, PteInv
<1>36. CASE Destroyed(e)
  BY <1>2, <1>36, ClearKeeps DEF Destroyed, Gone
<1>37. QED
  BY <1>3, <1>4, <1>5, <1>6, <1>7, <1>8, <1>9, <1>10, <1>11, <1>12, <1>13,
     <1>14, <1>15, <1>16, <1>17, <1>18, <1>19, <1>20, <1>21, <1>22, <1>23,
     <1>24, <1>25, <1>26, <1>27, <1>28, <1>29, <1>30, <1>31, <1>32, <1>33,
     <1>34, <1>35, <1>36 DEF StepOf, Program, Handler, ForkStep, SpawnStep

-----------------------------------------------------------------------------
(* Parents and children. *)

LEMMA ChildStep ==
  ASSUME CowInv, NEW e \in Envs, StepOf(e)
  PROVE  ChildInv'
<1> USE NothingIs
<1>1. CtlTypes /\ ChildInv /\ (flt[e] # NoFault => pc[e] \notin {"unborn", "built", "dead", "panic"})
  BY DEF CowInv, TypeInv, LifeInv, IdleInv
<1>2. ASSUME NEW va \in VPages, Fault(e, va) PROVE ChildInv'
  BY <1>1, <1>2 DEF Fault, Event, MayStore, ChildInv, CtlTypes, Making,
     Forking, Spawning
<1>3. ASSUME NEW va \in VPages, FaultKills(e, va) PROVE ChildInv'
  BY <1>1, <1>3 DEF FaultKills, MayStore, Gone, ChildInv, CtlTypes, Making,
     Forking, Spawning
<1>4. ASSUME NEW va \in VPages, NEW x \in Values, Store(e, va, x) PROVE ChildInv'
  BY <1>1, <1>4 DEF Store, MayStore, ChildInv, CtlTypes, Making, Forking,
     Spawning
<1>5. CASE SetPgfaultHandler(e)
  BY <1>1, <1>5 DEF SetPgfaultHandler, Goto, At, ChildInv, CtlTypes, Making,
     Forking, Spawning
<1>6. CASE SetPgfaultHandlerPanics(e)
  BY <1>1, <1>6 DEF SetPgfaultHandlerPanics, At, Panic, Goto, Return, Event,
     ChildInv, CtlTypes, Making, Forking, Spawning
<1>7. CASE Spawn(e)
  BY <1>1, <1>7 DEF Spawn, Goto, At, ChildInv, CtlTypes, Making, Forking,
     Spawning
<1>8. CASE PgfaultAlloc(e)
  BY <1>1, <1>8 DEF PgfaultAlloc, InFault, FaultStep, ChildInv, CtlTypes,
     Making, Forking, Spawning
<1>9. CASE PgfaultPanics(e)
  BY <1>1, <1>9 DEF PgfaultPanics, Panic, InFault, Goto, Return, Event,
     ChildInv, CtlTypes, Making, Forking, Spawning
<1>10. CASE PgfaultCopy(e)
  BY <1>1, <1>10 DEF PgfaultCopy, InFault, FaultStep, ChildInv, CtlTypes,
     Making, Forking, Spawning
<1>11. CASE PgfaultMap(e)
  BY <1>1, <1>11 DEF PgfaultMap, InFault, FaultStep, ChildInv, CtlTypes,
     Making, Forking, Spawning
<1>12. CASE PgfaultUnmap(e)
  BY <1>1, <1>12 DEF PgfaultUnmap, InFault, FaultStep, ChildInv, CtlTypes,
     Making, Forking, Spawning
<1>13. CASE PgfaultReturn(e)
  BY <1>1, <1>13 DEF PgfaultReturn, InFault, ChildInv, CtlTypes, Making,
     Forking, Spawning
<1>14. CASE ForkExofork(e)
  <2>1. CASE \E c \in Envs : /\ pc[c] = "unborn" /\ child' = [child EXCEPT ![e] = c]
                             /\ pc' = [pc EXCEPT ![e] = "ux", ![c] = "built"]
    BY <1>1, <1>14, <2>1 DEF ForkExofork, Exofork, At, ChildInv, CtlTypes, Making, Forking,
        Spawning
  <2>2. CASE pc' = [pc EXCEPT ![e] = "run"] /\ UNCHANGED <<child, page>>
    BY <1>1, <1>14, <2>2 DEF ForkExofork, Exofork, At, ChildInv, CtlTypes, Making, Forking,
        Spawning
  <2>3. QED BY <1>14, <2>1, <2>2 DEF ForkExofork, Exofork, Goto
<1>15. CASE ForkExceptionStack(e)
  BY <1>1, <1>15 DEF ForkExceptionStack, Goto, At, ChildInv, CtlTypes, Making,
     Forking, Spawning
<1>16. CASE ForkLoop(e)
  BY <1>1, <1>16 DEF ForkLoop, Goto, At, ChildInv, CtlTypes, Making, Forking,
     Spawning
<1>17. CASE DuppageChild(e)
  BY <1>1, <1>17 DEF DuppageChild, Goto, At, ChildInv, CtlTypes, Making,
     Forking, Spawning
<1>18. CASE DuppageParent(e)
  BY <1>1, <1>18 DEF DuppageParent, Goto, At, ChildInv, CtlTypes, Making,
     Forking, Spawning
<1>19. CASE ForkFails(e)
  BY <1>1, <1>19 DEF ForkFails, Goto, Return, Event, ChildInv, CtlTypes,
     Making, Forking, Spawning
<1>20. CASE ForkDone(e)
  BY <1>1, <1>20 DEF ForkDone, SetRunnable, Return, At, ChildInv, CtlTypes,
     Making, Forking, Spawning
<1>21. CASE SpawnExofork(e)
  <2>1. CASE \E c \in Envs : /\ pc[c] = "unborn" /\ child' = [child EXCEPT ![e] = c]
                             /\ pc' = [pc EXCEPT ![e] = "sp_stack", ![c] = "built"]
    BY <1>1, <1>21, <2>1 DEF SpawnExofork, Exofork, At, ChildInv, CtlTypes, Making, Forking,
        Spawning
  <2>2. CASE pc' = [pc EXCEPT ![e] = "run"] /\ UNCHANGED <<child, page>>
    BY <1>1, <1>21, <2>2 DEF SpawnExofork, Exofork, At, ChildInv, CtlTypes, Making, Forking,
        Spawning
  <2>3. QED BY <1>21, <2>1, <2>2 DEF SpawnExofork, Exofork, Goto
<1>22. CASE InitStackAlloc(e)
  BY <1>1, <1>22 DEF InitStackAlloc, Goto, At, ChildInv, CtlTypes, Making,
     Forking, Spawning
<1>23. CASE InitStackMap(e)
  BY <1>1, <1>23 DEF InitStackMap, Goto, At, ChildInv, CtlTypes, Making,
     Forking, Spawning
<1>24. CASE InitStackUnmap(e)
  BY <1>1, <1>24 DEF InitStackUnmap, Goto, At, ChildInv, CtlTypes, Making,
     Forking, Spawning
<1>25. CASE InitStackFails(e)
  BY <1>1, <1>25 DEF InitStackFails, Goto, Return, Event, ChildInv, CtlTypes,
     Making, Forking, Spawning
<1>26. CASE MapSegmentAlloc(e)
  BY <1>1, <1>26 DEF MapSegmentAlloc, Goto, At, ChildInv, CtlTypes, Making,
     Forking, Spawning
<1>27. CASE MapSegmentRead(e)
  BY <1>1, <1>27 DEF MapSegmentRead, Goto, At, ChildInv, CtlTypes, Making,
     Forking, Spawning
<1>28. CASE MapSegmentMap(e)
  BY <1>1, <1>28 DEF MapSegmentMap, Goto, At, ChildInv, CtlTypes, Making,
     Forking, Spawning
<1>29. CASE MapSegmentUnmap(e)
  BY <1>1, <1>29 DEF MapSegmentUnmap, Goto, At, ChildInv, CtlTypes, Making,
     Forking, Spawning
<1>30. CASE MapSegmentBlank(e)
  BY <1>1, <1>30 DEF MapSegmentBlank, Goto, At, ChildInv, CtlTypes, Making,
     Forking, Spawning
<1>31. CASE SpawnFails(e)
  BY <1>1, <1>31 DEF SpawnFails, Return, Event, ChildInv, CtlTypes, Making,
     Forking, Spawning
<1>32. CASE CopySharedPages(e)
  BY <1>1, <1>32 DEF CopySharedPages, Goto, At, ChildInv, CtlTypes, Making,
     Forking, Spawning
<1>33. CASE SpawnPanics(e)
  BY <1>1, <1>33 DEF SpawnPanics, Panic, Goto, Return, Event, ChildInv,
     CtlTypes, Making, Forking, Spawning
<1>34. CASE SpawnDone(e)
  BY <1>1, <1>34 DEF SpawnDone, SetRunnable, Return, At, ChildInv, CtlTypes,
     Making, Forking, Spawning
<1>35. CASE Destroyed(e)
  BY <1>1, <1>35 DEF Destroyed, Event, Gone, ChildInv, CtlTypes, Making,
     Forking, Spawning
<1>36. QED
  BY <1>2, <1>3, <1>4, <1>5, <1>6, <1>7, <1>8, <1>9, <1>10, <1>11, <1>12,
     <1>13, <1>14, <1>15, <1>16, <1>17, <1>18, <1>19, <1>20, <1>21, <1>22,
     <1>23, <1>24, <1>25, <1>26, <1>27, <1>28, <1>29, <1>30, <1>31, <1>32,
     <1>33, <1>34, <1>35 DEF StepOf, Program, Handler, ForkStep, SpawnStep

LEMMA PageStep ==
  ASSUME CowInv, NEW e \in Envs, StepOf(e)
  PROVE  PageInv'
<1> USE NothingIs
<1>1. CtlTypes /\ PageInv /\ ChildInv
  BY DEF CowInv, TypeInv, LifeInv
<1>2. ASSUME NEW va \in VPages, Fault(e, va) PROVE PageInv'
  BY <1>1, <1>2 DEF Fault, Event, MayStore, PageInv, ChildInv, CtlTypes,
     Making, Forking, Spawning
<1>3. ASSUME NEW va \in VPages, FaultKills(e, va) PROVE PageInv'
  BY <1>1, <1>3 DEF FaultKills, MayStore, Gone, PageInv, ChildInv, CtlTypes,
     Making, Forking, Spawning
<1>4. ASSUME NEW va \in VPages, NEW x \in Values, Store(e, va, x) PROVE PageInv'
  BY <1>1, <1>4 DEF Store, MayStore, PageInv, ChildInv, CtlTypes, Making,
     Forking, Spawning
<1>5. CASE SetPgfaultHandler(e)
  BY <1>1, <1>5 DEF SetPgfaultHandler, Goto, At, PageInv, ChildInv, CtlTypes,
     Making, Forking, Spawning
<1>6. CASE SetPgfaultHandlerPanics(e)
  BY <1>1, <1>6 DEF SetPgfaultHandlerPanics, At, Panic, Goto, Return, Event,
     PageInv, ChildInv, CtlTypes, Making, Forking, Spawning
<1>7. CASE Spawn(e)
  BY <1>1, <1>7 DEF Spawn, Goto, At, PageInv, ChildInv, CtlTypes, Making,
     Forking, Spawning
<1>8. CASE PgfaultAlloc(e)
  BY <1>1, <1>8 DEF PgfaultAlloc, InFault, FaultStep, PageInv, ChildInv,
     CtlTypes, Making, Forking, Spawning
<1>9. CASE PgfaultPanics(e)
  BY <1>1, <1>9 DEF PgfaultPanics, Panic, InFault, Goto, Return, Event,
     PageInv, ChildInv, CtlTypes, Making, Forking, Spawning
<1>10. CASE PgfaultCopy(e)
  BY <1>1, <1>10 DEF PgfaultCopy, InFault, FaultStep, PageInv, ChildInv,
     CtlTypes, Making, Forking, Spawning
<1>11. CASE PgfaultMap(e)
  BY <1>1, <1>11 DEF PgfaultMap, InFault, FaultStep, PageInv, ChildInv,
     CtlTypes, Making, Forking, Spawning
<1>12. CASE PgfaultUnmap(e)
  BY <1>1, <1>12 DEF PgfaultUnmap, InFault, FaultStep, PageInv, ChildInv,
     CtlTypes, Making, Forking, Spawning
<1>13. CASE PgfaultReturn(e)
  BY <1>1, <1>13 DEF PgfaultReturn, InFault, PageInv, ChildInv, CtlTypes,
     Making, Forking, Spawning
<1>14. CASE ForkExofork(e)
  BY <1>1, <1>14 DEF ForkExofork, Exofork, Goto, At, Event, PageInv, ChildInv,
     CtlTypes, Making, Forking, Spawning
<1>15. CASE ForkExceptionStack(e)
  BY <1>1, <1>15 DEF ForkExceptionStack, Goto, At, PageInv, ChildInv,
     CtlTypes, Making, Forking, Spawning
<1>16. CASE ForkLoop(e)
  BY <1>1, <1>16, PagesAre DEF ForkLoop, Goto, At, PageInv, ChildInv,
     CtlTypes, Making, Forking, Spawning
<1>17. CASE DuppageChild(e)
  BY <1>1, <1>17, PagesAre DEF DuppageChild, Goto, At, PageInv, ChildInv,
     CtlTypes, Making, Forking, Spawning
<1>18. CASE DuppageParent(e)
  BY <1>1, <1>18 DEF DuppageParent, Goto, At, PageInv, ChildInv, CtlTypes,
     Making, Forking, Spawning
<1>19. CASE ForkFails(e)
  BY <1>1, <1>19 DEF ForkFails, Goto, Return, Event, PageInv, ChildInv,
     CtlTypes, Making, Forking, Spawning
<1>20. CASE ForkDone(e)
  BY <1>1, <1>20 DEF ForkDone, SetRunnable, Return, At, PageInv, ChildInv,
     CtlTypes, Making, Forking, Spawning
<1>21. CASE SpawnExofork(e)
  BY <1>1, <1>21 DEF SpawnExofork, Exofork, Goto, At, Event, PageInv,
     ChildInv, CtlTypes, Making, Forking, Spawning
<1>22. CASE InitStackAlloc(e)
  BY <1>1, <1>22 DEF InitStackAlloc, Goto, At, PageInv, ChildInv, CtlTypes,
     Making, Forking, Spawning
<1>23. CASE InitStackMap(e)
  BY <1>1, <1>23 DEF InitStackMap, Goto, At, PageInv, ChildInv, CtlTypes,
     Making, Forking, Spawning
<1>24. CASE InitStackUnmap(e)
  BY <1>1, <1>24 DEF InitStackUnmap, Goto, At, PageInv, ChildInv, CtlTypes,
     Making, Forking, Spawning
<1>25. CASE InitStackFails(e)
  BY <1>1, <1>25 DEF InitStackFails, Goto, Return, Event, PageInv, ChildInv,
     CtlTypes, Making, Forking, Spawning
<1>26. CASE MapSegmentAlloc(e)
  BY <1>1, <1>26, PagesAre DEF MapSegmentAlloc, Goto, At, Va, Text, Bss,
     PageInv, ChildInv, CtlTypes, Making, Forking, Spawning
<1>27. CASE MapSegmentRead(e)
  BY <1>1, <1>27 DEF MapSegmentRead, Goto, At, PageInv, ChildInv, CtlTypes,
     Making, Forking, Spawning
<1>28. CASE MapSegmentMap(e)
  BY <1>1, <1>28 DEF MapSegmentMap, Goto, At, PageInv, ChildInv, CtlTypes,
     Making, Forking, Spawning
<1>29. CASE MapSegmentUnmap(e)
  BY <1>1, <1>29 DEF MapSegmentUnmap, Goto, At, PageInv, ChildInv, CtlTypes,
     Making, Forking, Spawning
<1>30. CASE MapSegmentBlank(e)
  BY <1>1, <1>30, PagesAre DEF MapSegmentBlank, Goto, At, Va, Text, Bss,
     PageInv, ChildInv, CtlTypes, Making, Forking, Spawning
<1>31. CASE SpawnFails(e)
  BY <1>1, <1>31 DEF SpawnFails, Return, Event, PageInv, ChildInv, CtlTypes,
     Making, Forking, Spawning
<1>32. CASE CopySharedPages(e)
  BY <1>1, <1>32 DEF CopySharedPages, Goto, At, PageInv, ChildInv, CtlTypes,
     Making, Forking, Spawning
<1>33. CASE SpawnPanics(e)
  BY <1>1, <1>33 DEF SpawnPanics, Panic, Goto, Return, Event, PageInv,
     ChildInv, CtlTypes, Making, Forking, Spawning
<1>34. CASE SpawnDone(e)
  BY <1>1, <1>34 DEF SpawnDone, SetRunnable, Return, At, PageInv, ChildInv,
     CtlTypes, Making, Forking, Spawning
<1>35. CASE Destroyed(e)
  BY <1>1, <1>35 DEF Destroyed, Event, Gone, PageInv, ChildInv, CtlTypes,
     Making, Forking, Spawning
<1>36. QED
  BY <1>2, <1>3, <1>4, <1>5, <1>6, <1>7, <1>8, <1>9, <1>10, <1>11, <1>12,
     <1>13, <1>14, <1>15, <1>16, <1>17, <1>18, <1>19, <1>20, <1>21, <1>22,
     <1>23, <1>24, <1>25, <1>26, <1>27, <1>28, <1>29, <1>30, <1>31, <1>32,
     <1>33, <1>34, <1>35 DEF StepOf, Program, Handler, ForkStep, SpawnStep

LEMMA IdleStep ==
  ASSUME CowInv, NEW e \in Envs, StepOf(e)
  PROVE  IdleInv'
<1> USE NothingIs
<1>1. /\ CtlTypes /\ FltTypes /\ MemTypes /\ IdleInv
      /\ pc[e] \in Making => child[e] \in Envs /\ pc[child[e]] = "built"
  BY Mine DEF CowInv, TypeInv, LifeInv
<1>2. ASSUME NEW va \in VPages, Fault(e, va) PROVE IdleInv'
  BY <1>1, <1>2 DEF Fault, Event, MayStore, IdleInv, CtlTypes, FltTypes,
     MemTypes, Making, Forking, Spawning
<1>3. ASSUME NEW va \in VPages, FaultKills(e, va) PROVE IdleInv'
  BY <1>1, <1>3 DEF FaultKills, MayStore, Gone, IdleInv, CtlTypes, FltTypes,
     MemTypes, Making, Forking, Spawning
<1>4. ASSUME NEW va \in VPages, NEW x \in Values, Store(e, va, x) PROVE IdleInv'
  BY <1>1, <1>4 DEF Store, MayStore, IdleInv, CtlTypes, FltTypes, MemTypes,
     Making, Forking, Spawning
<1>5. CASE SetPgfaultHandler(e)
  BY <1>1, <1>5 DEF SetPgfaultHandler, Goto, At, PageAlloc, PageAllocFill,
     Pte, IdleInv, CtlTypes, FltTypes, MemTypes, Making, Forking, Spawning
<1>6. CASE SetPgfaultHandlerPanics(e)
  BY <1>1, <1>6 DEF SetPgfaultHandlerPanics, At, Panic, Goto, Return, Event,
     IdleInv, CtlTypes, FltTypes, MemTypes, Making, Forking, Spawning
<1>7. CASE Spawn(e)
  BY <1>1, <1>7 DEF Spawn, Goto, At, IdleInv, CtlTypes, FltTypes, MemTypes,
     Making, Forking, Spawning
<1>8. CASE PgfaultAlloc(e)
  <2>1. FaultStep(e, "copy") /\ pc[e] \notin {"dead", "panic"} /\ flt[e].step # "none" /\ UNCHANGED pc
    BY <1>8 DEF PgfaultAlloc, InFault
  <2>2. \A g \in Envs : flt'[g] = IF g = e THEN [va |-> flt[e].va, step |-> "copy", outer |-> flt[e].outer]
                                           ELSE flt[g]
    BY <1>1, <2>1, FaultGoes DEF Steps
  <2>3. pc[e] \notin {"unborn", "built"} /\ flt[e] # NoFault
    BY <1>1, <2>1 DEF IdleInv
  <2>4. \A g \in Envs \ {e} : pt'[g] = pt[g]
    BY <1>1, <1>8 DEF PgfaultAlloc, PageAlloc, InFault, FaultStep, PageAllocFill, Pte, MemTypes
  <2>5. QED BY <1>1, <2>1, <2>2, <2>3, <2>4 DEF IdleInv
<1>9. CASE PgfaultPanics(e)
  BY <1>1, <1>9 DEF PgfaultPanics, Panic, InFault, Goto, Return, Event,
     IdleInv, CtlTypes, FltTypes, MemTypes, Making, Forking, Spawning
<1>10. CASE PgfaultCopy(e)
  <2>1. FaultStep(e, "map") /\ pc[e] \notin {"dead", "panic"} /\ flt[e].step # "none" /\ UNCHANGED pc
    BY <1>10 DEF PgfaultCopy, InFault
  <2>2. \A g \in Envs : flt'[g] = IF g = e THEN [va |-> flt[e].va, step |-> "map", outer |-> flt[e].outer]
                                           ELSE flt[g]
    BY <1>1, <2>1, FaultGoes DEF Steps
  <2>3. pc[e] \notin {"unborn", "built"} /\ flt[e] # NoFault
    BY <1>1, <2>1 DEF IdleInv
  <2>4. \A g \in Envs \ {e} : pt'[g] = pt[g]
    BY <1>1, <1>10 DEF PgfaultCopy, InFault, FaultStep, MemTypes
  <2>5. QED BY <1>1, <2>1, <2>2, <2>3, <2>4 DEF IdleInv
<1>11. CASE PgfaultMap(e)
  <2>1. FaultStep(e, "unmap") /\ pc[e] \notin {"dead", "panic"} /\ flt[e].step # "none" /\ UNCHANGED pc
    BY <1>11 DEF PgfaultMap, InFault
  <2>2. \A g \in Envs : flt'[g] = IF g = e THEN [va |-> flt[e].va, step |-> "unmap", outer |-> flt[e].outer]
                                           ELSE flt[g]
    BY <1>1, <2>1, FaultGoes DEF Steps
  <2>3. pc[e] \notin {"unborn", "built"} /\ flt[e] # NoFault
    BY <1>1, <2>1 DEF IdleInv
  <2>4. \A g \in Envs \ {e} : pt'[g] = pt[g]
    BY <1>1, <1>11 DEF PgfaultMap, PageMap, InFault, FaultStep, Pte, MemTypes
  <2>5. QED BY <1>1, <2>1, <2>2, <2>3, <2>4 DEF IdleInv
<1>12. CASE PgfaultUnmap(e)
  <2>1. FaultStep(e, "return") /\ pc[e] \notin {"dead", "panic"} /\ flt[e].step # "none" /\ UNCHANGED pc
    BY <1>12 DEF PgfaultUnmap, InFault
  <2>2. \A g \in Envs : flt'[g] = IF g = e THEN [va |-> flt[e].va, step |-> "return", outer |-> flt[e].outer]
                                           ELSE flt[g]
    BY <1>1, <2>1, FaultGoes DEF Steps
  <2>3. pc[e] \notin {"unborn", "built"} /\ flt[e] # NoFault
    BY <1>1, <2>1 DEF IdleInv
  <2>4. \A g \in Envs \ {e} : pt'[g] = pt[g]
    BY <1>1, <1>12 DEF PgfaultUnmap, PageUnmap, InFault, FaultStep, MemTypes
  <2>5. QED BY <1>1, <2>1, <2>2, <2>3, <2>4 DEF IdleInv
<1>13. CASE PgfaultReturn(e)
  <2>1. flt[e] # NoFault /\ pc[e] \notin {"unborn", "built", "dead", "panic"}
    BY <1>1, <1>13 DEF PgfaultReturn, InFault, IdleInv
  <2>2. \/ flt' = [flt EXCEPT ![e] = NoFault]
        \/ flt[e].outer # NoOne /\ flt' = [flt EXCEPT ![e] = [va |-> flt[e].outer, step |-> "return", outer |-> NoOne]]
        \/ flt' = [flt EXCEPT ![e] = [va |-> Stack, step |-> "check", outer |-> flt[e].va]]
    BY <1>1, <1>13 DEF PgfaultReturn, FltTypes
  <2>3. QED BY <1>1, <1>13, <2>1, <2>2, SpotsAre DEF PgfaultReturn, IdleInv, FltTypes
<1>14. CASE ForkExofork(e)
  <2>1. /\ UNCHANGED <<pt, flt>>
        /\ \A g \in Envs : \/ pc'[g] = pc[g] \/ pc[g] = "unborn"
                           \/ g = e /\ pc'[g] \notin {"unborn", "built", "dead", "panic"}
    BY <1>1, <1>14 DEF ForkExofork, Exofork, At, Goto, CtlTypes
  <2>2. \A g \in Envs : pc'[g] = "unborn" => pc[g] = "unborn"
    BY <1>1, <1>14 DEF ForkExofork, Exofork, At, Goto, CtlTypes
  <2>3. QED BY <1>1, <2>1, <2>2 DEF IdleInv
<1>15. CASE ForkExceptionStack(e)
  BY <1>1, <1>15 DEF ForkExceptionStack, Goto, At, PageAlloc, PageAllocFill,
     Pte, IdleInv, CtlTypes, FltTypes, MemTypes, Making, Forking, Spawning
<1>16. CASE ForkLoop(e)
  BY <1>1, <1>16 DEF ForkLoop, Goto, At, IdleInv, CtlTypes, FltTypes,
     MemTypes, Making, Forking, Spawning
<1>17. CASE DuppageChild(e)
  BY <1>1, <1>17 DEF DuppageChild, Goto, At, PageMap, Writable, Pte, IdleInv,
     CtlTypes, FltTypes, MemTypes, Making, Forking, Spawning
<1>18. CASE DuppageParent(e)
  BY <1>1, <1>18 DEF DuppageParent, Goto, At, PageMap, Pte, IdleInv, CtlTypes,
     FltTypes, MemTypes, Making, Forking, Spawning
<1>19. CASE ForkFails(e)
  BY <1>1, <1>19 DEF ForkFails, Goto, Return, Event, IdleInv, CtlTypes,
     FltTypes, MemTypes, Making, Forking, Spawning
<1>20. CASE ForkDone(e)
  BY <1>1, <1>20 DEF ForkDone, SetRunnable, Return, At, IdleInv, CtlTypes,
     FltTypes, MemTypes, Making, Forking, Spawning
<1>21. CASE SpawnExofork(e)
  <2>1. /\ UNCHANGED <<pt, flt>>
        /\ \A g \in Envs : \/ pc'[g] = pc[g] \/ pc[g] = "unborn"
                           \/ g = e /\ pc'[g] \notin {"unborn", "built", "dead", "panic"}
    BY <1>1, <1>21 DEF SpawnExofork, Exofork, At, Goto, CtlTypes
  <2>2. \A g \in Envs : pc'[g] = "unborn" => pc[g] = "unborn"
    BY <1>1, <1>21 DEF SpawnExofork, Exofork, At, Goto, CtlTypes
  <2>3. QED BY <1>1, <2>1, <2>2 DEF IdleInv
<1>22. CASE InitStackAlloc(e)
  BY <1>1, <1>22 DEF InitStackAlloc, Goto, At, PageAllocFill, Pte, IdleInv,
     CtlTypes, FltTypes, MemTypes, Making, Forking, Spawning
<1>23. CASE InitStackMap(e)
  BY <1>1, <1>23 DEF InitStackMap, Goto, At, PageMap, Pte, IdleInv, CtlTypes,
     FltTypes, MemTypes, Making, Forking, Spawning
<1>24. CASE InitStackUnmap(e)
  BY <1>1, <1>24 DEF InitStackUnmap, Goto, At, PageUnmap, IdleInv, CtlTypes,
     FltTypes, MemTypes, Making, Forking, Spawning
<1>25. CASE InitStackFails(e)
  BY <1>1, <1>25 DEF InitStackFails, Goto, Return, Event, PageUnmap, IdleInv,
     CtlTypes, FltTypes, MemTypes, Making, Forking, Spawning
<1>26. CASE MapSegmentAlloc(e)
  BY <1>1, <1>26 DEF MapSegmentAlloc, Goto, At, PageAlloc, PageAllocFill, Pte,
     IdleInv, CtlTypes, FltTypes, MemTypes, Making, Forking, Spawning
<1>27. CASE MapSegmentRead(e)
  BY <1>1, <1>27 DEF MapSegmentRead, Goto, At, IdleInv, CtlTypes, FltTypes,
     MemTypes, Making, Forking, Spawning
<1>28. CASE MapSegmentMap(e)
  BY <1>1, <1>28 DEF MapSegmentMap, Goto, At, PageMap, Pte, IdleInv, CtlTypes,
     FltTypes, MemTypes, Making, Forking, Spawning
<1>29. CASE MapSegmentUnmap(e)
  BY <1>1, <1>29 DEF MapSegmentUnmap, Goto, At, PageUnmap, IdleInv, CtlTypes,
     FltTypes, MemTypes, Making, Forking, Spawning
<1>30. CASE MapSegmentBlank(e)
  BY <1>1, <1>30 DEF MapSegmentBlank, Goto, At, PageAlloc, PageAllocFill, Pte,
     IdleInv, CtlTypes, FltTypes, MemTypes, Making, Forking, Spawning
<1>31. CASE SpawnFails(e)
  BY <1>1, <1>31 DEF SpawnFails, Return, Event, IdleInv, CtlTypes, FltTypes,
     MemTypes, Making, Forking, Spawning
<1>32. CASE CopySharedPages(e)
  BY <1>1, <1>32 DEF CopySharedPages, Goto, At, PageMap, Pte, IdleInv,
     CtlTypes, FltTypes, MemTypes, Making, Forking, Spawning
<1>33. CASE SpawnPanics(e)
  BY <1>1, <1>33 DEF SpawnPanics, Panic, Goto, Return, Event, IdleInv,
     CtlTypes, FltTypes, MemTypes, Making, Forking, Spawning
<1>34. CASE SpawnDone(e)
  BY <1>1, <1>34 DEF SpawnDone, SetRunnable, Return, At, IdleInv, CtlTypes,
     FltTypes, MemTypes, Making, Forking, Spawning
<1>35. CASE Destroyed(e)
  BY <1>1, <1>35 DEF Destroyed, Event, Gone, IdleInv, CtlTypes, FltTypes,
     MemTypes, Making, Forking, Spawning
<1>36. QED
  BY <1>2, <1>3, <1>4, <1>5, <1>6, <1>7, <1>8, <1>9, <1>10, <1>11, <1>12,
     <1>13, <1>14, <1>15, <1>16, <1>17, <1>18, <1>19, <1>20, <1>21, <1>22,
     <1>23, <1>24, <1>25, <1>26, <1>27, <1>28, <1>29, <1>30, <1>31, <1>32,
     <1>33, <1>34, <1>35 DEF StepOf, Program, Handler, ForkStep, SpawnStep

-----------------------------------------------------------------------------
(* What each step does to the page tables. *)

Entry(c, va, p) == \A g \in Envs, w \in Vas : pt'[g][w] = IF g = c /\ w = va THEN p ELSE pt[g][w]

\* A page is new at va of c.
NewEntry(c, va, perm) == \E n \in FreeFrames : Entry(c, va, Pte(n, perm))

\* The page that e has at va is at tova of c too.
MapEntry(e, va, c, tova, perm) == pt[e][va].fr # NoOne /\ Entry(c, tova, Pte(pt[e][va].fr, perm))

LEMMA MapEntryIs ==
  ASSUME MemTypes, PteInv, NEW e \in Envs, NEW va \in Vas, NEW to \in Envs, NEW tova \in Vas,
         NEW perm \in Perms, PageMap(e, va, to, tova, perm)
  PROVE  /\ MapEntry(e, va, to, tova, perm)
         /\ "W" \in perm => "W" \in pt[e][va].perm
<1>1. Entry(to, tova, Pte(pt[e][va].fr, perm))
  BY MapIs DEF Entry
<1>2. pt[e][va].fr # NoOne /\ ("W" \in perm => "W" \in pt[e][va].perm)
  BY NoPteIs DEF PageMap
<1>3. QED BY <1>1, <1>2 DEF MapEntry

LEMMA NewEntryIs ==
  ASSUME MemTypes, NEW e \in Envs, NEW va \in Vas, NEW perm \in Perms, NEW x \in Values,
         PageAllocFill(e, va, perm, x)
  PROVE  NewEntry(e, va, perm)
BY AllocIs DEF NewEntry, Entry

LEMMA UnmapEntryIs ==
  ASSUME MemTypes, NEW e \in Envs, NEW va \in Vas, PageUnmap(e, va)
  PROVE  Entry(e, va, NoPte)
BY UnmapIs DEF Entry

\* What holds of e, and of the page it has come to.
LEMMA Here ==
  ASSUME CowInv, NEW e \in Envs
  PROVE  /\ pc[e] \in Forking \ {"exofork"} => child[e] \in Envs /\ child[e] # e /\ pc[child[e]] = "built"
         /\ pc[e] \in Spawning \ {"sp_exofork"} => child[e] \in Envs /\ child[e] # e /\ pc[child[e]] = "built"
         /\ (pc[e] \in Making /\ page[e] <= 4) => Va(e) \in VPages
         /\ pc[e] \in {"sp_read", "sp_segmap", "sp_segunmap"} => page[e] = 1 /\ Va(e) \in VPages
         /\ pc[e] = "remap" => page[e] \in 1 .. 4 /\ Va(e) \in VPages
         /\ flt[e] # NoFault => flt[e].va \in VPages
         /\ flt[e].step # "none" => /\ flt[e] # NoFault
                                   /\ pc[e] \in Labels \ {"unborn", "built", "dead", "panic"}
<1>1. CtlTypes /\ FltTypes /\ LifeInv /\ PageInv
  BY DEF CowInv, TypeInv
<1>2. /\ pc[e] \in Making => child[e] \in Envs /\ pc[child[e]] = "built" /\ page[e] \in 1 .. 5
      /\ pc[e] = "remap" => page[e] \in 1 .. 4
      /\ pc[e] \in {"sp_read", "sp_segmap", "sp_segunmap"} => page[e] = 1
      /\ flt[e] # NoFault => pc[e] \in Labels \ {"unborn", "built", "dead", "panic"} /\ flt[e].va \in VPages
  BY <1>1, Mine
<1>3. page[e] \in 1 .. 4 => Va(e) \in VPages
  BY VaIn
<1>4. QED BY <1>2, <1>3, NothingIs DEF Making, Forking, Spawning

LEMMA Entries ==
  ASSUME CowInv, NEW e \in Envs
  PROVE  /\ SetPgfaultHandler(e) => IF upcall[e] THEN UNCHANGED <<pt, upcall>> ELSE NewEntry(e, "uxstack", {"W"})
         /\ PgfaultAlloc(e) => NewEntry(e, "pftemp", {"W"})
         /\ PgfaultMap(e) => MapEntry(e, "pftemp", e, flt[e].va, {"W"})
         /\ PgfaultUnmap(e) => Entry(e, "pftemp", NoPte)
         /\ ForkExceptionStack(e) => NewEntry(child[e], "uxstack", {"W"})
         /\ DuppageParent(e) => MapEntry(e, Va(e), e, Va(e), {"COW"})
         /\ InitStackAlloc(e) => NewEntry(e, "utemp", {"W"})
         /\ InitStackMap(e) => MapEntry(e, "utemp", child[e], Stack, {"W"})
         /\ InitStackUnmap(e) => Entry(e, "utemp", NoPte)
         /\ InitStackFails(e) => UNCHANGED pt \/ Entry(e, "utemp", NoPte)
         /\ MapSegmentAlloc(e) => NewEntry(e, "utemp", {"W"})
         /\ MapSegmentMap(e) => MapEntry(e, "utemp", child[e], Va(e), {})
         /\ MapSegmentUnmap(e) => Entry(e, "utemp", NoPte)
         /\ MapSegmentBlank(e) => NewEntry(child[e], Bss, {"W"})
         /\ DuppageChild(e) =>
              /\ page[e] <= 4
              /\ \/ Writable(e) /\ MapEntry(e, Va(e), child[e], Va(e), {"COW"})
                 \/ ~Writable(e) /\ pt[e][Va(e)].perm = {} /\ MapEntry(e, Va(e), child[e], Va(e), {})
         /\ CopySharedPages(e) =>
              IF "SHARE" \in pt[e][Shared].perm
              THEN MapEntry(e, Shared, child[e], Shared, {"W", "SHARE"}) /\ pt[e][Shared].perm = {"W", "SHARE"}
              ELSE UNCHANGED pt
<1> USE SpotsAre, PermsAre
<1>1. MemTypes /\ PteInv
  BY DEF CowInv, TypeInv
<1>2. ASSUME SetPgfaultHandler(e) PROVE IF upcall[e] THEN UNCHANGED <<pt, upcall>> ELSE NewEntry(e, "uxstack", {"W"})
  BY <1>1, <1>2, Here, NothingIs, NewEntryIs DEF SetPgfaultHandler, Goto, At,
     PageAlloc
<1>3. ASSUME PgfaultAlloc(e) PROVE NewEntry(e, "pftemp", {"W"})
  BY <1>1, <1>3, Here, NothingIs, NewEntryIs DEF PgfaultAlloc, PageAlloc,
     InFault
<1>4. ASSUME PgfaultMap(e) PROVE MapEntry(e, "pftemp", e, flt[e].va, {"W"})
  BY <1>1, <1>4, Here, NothingIs, MapEntryIs DEF PgfaultMap, InFault, CowInv,
     TypeInv
<1>5. ASSUME PgfaultUnmap(e) PROVE Entry(e, "pftemp", NoPte)
  BY <1>1, <1>5, Here, NothingIs, UnmapEntryIs DEF PgfaultUnmap, InFault
<1>6. ASSUME ForkExceptionStack(e) PROVE NewEntry(child[e], "uxstack", {"W"})
  BY <1>1, <1>6, Here, NothingIs, NewEntryIs DEF ForkExceptionStack, Goto, At,
     PageAlloc, Making, Forking, Spawning
<1>7. ASSUME DuppageParent(e) PROVE MapEntry(e, Va(e), e, Va(e), {"COW"})
  BY <1>1, <1>7, Here, NothingIs, MapEntryIs DEF DuppageParent, Goto, At,
     Making, Forking, Spawning
<1>8. ASSUME InitStackAlloc(e) PROVE NewEntry(e, "utemp", {"W"})
  BY <1>1, <1>8, Here, NothingIs, NewEntryIs DEF InitStackAlloc, Goto, At
<1>9. ASSUME InitStackMap(e) PROVE MapEntry(e, "utemp", child[e], Stack, {"W"})
  BY <1>1, <1>9, Here, NothingIs, MapEntryIs DEF InitStackMap, Goto, At,
     Making, Forking, Spawning
<1>10. ASSUME InitStackUnmap(e) PROVE Entry(e, "utemp", NoPte)
  BY <1>1, <1>10, Here, NothingIs, UnmapEntryIs DEF InitStackUnmap, Goto, At
<1>11. ASSUME InitStackFails(e) PROVE UNCHANGED pt \/ Entry(e, "utemp", NoPte)
  BY <1>1, <1>11, Here, NothingIs, UnmapEntryIs DEF InitStackFails, Goto
<1>12. ASSUME MapSegmentAlloc(e) PROVE NewEntry(e, "utemp", {"W"})
  BY <1>1, <1>12, Here, NothingIs, NewEntryIs DEF MapSegmentAlloc, Goto, At,
     PageAlloc
<1>13. ASSUME MapSegmentMap(e) PROVE MapEntry(e, "utemp", child[e], Va(e), {})
  BY <1>1, <1>13, Here, NothingIs, MapEntryIs DEF MapSegmentMap, Goto, At,
     Making, Forking, Spawning
<1>14. ASSUME MapSegmentUnmap(e) PROVE Entry(e, "utemp", NoPte)
  BY <1>1, <1>14, Here, NothingIs, UnmapEntryIs DEF MapSegmentUnmap, Goto, At
<1>15. ASSUME MapSegmentBlank(e) PROVE NewEntry(child[e], Bss, {"W"})
  BY <1>1, <1>15, Here, NothingIs, NewEntryIs DEF MapSegmentBlank, Goto, At,
     PageAlloc, Making, Forking, Spawning
<1>16. ASSUME DuppageChild(e)
      PROVE  /\ page[e] <= 4
             /\ \/ Writable(e) /\ MapEntry(e, Va(e), child[e], Va(e), {"COW"})
                \/ ~Writable(e) /\ pt[e][Va(e)].perm = {} /\ MapEntry(e, Va(e), child[e], Va(e), {})
  <2>1. pc[e] = "dup" /\ page[e] <= 4
    BY <1>16, PagesAre DEF DuppageChild, At
  <2>2. child[e] \in Envs /\ Va(e) \in VPages
    BY <2>1, Here DEF Making, Forking
  <2>3. CASE Writable(e) /\ PageMap(e, Va(e), child[e], Va(e), {"COW"})
    BY <1>1, <2>1, <2>2, <2>3, MapEntryIs
  <2>4. CASE ~Writable(e) /\ PageMap(e, Va(e), child[e], Va(e), pt[e][Va(e)].perm \cap {"SHARE"})
    <3>1. pt[e][Va(e)].perm \in Perms /\ pt[e][Va(e)].perm \cap {"W", "COW"} = {}
      BY <1>1, <2>2, <2>4 DEF MemTypes, Ptes, Writable
    <3>2. pt[e][Va(e)].perm = {} /\ pt[e][Va(e)].perm \cap {"SHARE"} = {}
      BY <3>1 DEF Perms
    <3>3. QED BY <1>1, <2>1, <2>2, <2>4, <3>2, MapEntryIs
  <2>5. QED BY <1>16, <2>3, <2>4 DEF DuppageChild
<1>17. ASSUME CopySharedPages(e)
      PROVE  IF "SHARE" \in pt[e][Shared].perm
             THEN MapEntry(e, Shared, child[e], Shared, {"W", "SHARE"}) /\ pt[e][Shared].perm = {"W", "SHARE"}
             ELSE UNCHANGED pt
  <2>1. child[e] \in Envs
    BY <1>17, Here DEF CopySharedPages, At, Spawning
  <2>2. "SHARE" \in pt[e][Shared].perm => pt[e][Shared].perm = {"W", "SHARE"}
    BY <1>1 DEF MemTypes, Ptes, Perms
  <2>3. {"W", "SHARE"} \in Perms
    BY DEF Perms
  <2>4. QED BY <1>1, <1>17, <2>1, <2>2, <2>3, MapEntryIs DEF CopySharedPages
<1>18. QED
  BY <1>2, <1>3, <1>4, <1>5, <1>6, <1>7, <1>8, <1>9, <1>10, <1>11, <1>12,
     <1>13, <1>14, <1>15, <1>16, <1>17

-----------------------------------------------------------------------------
(* Handlers. *)

LEMMA ReadyStep ==
  ASSUME CowInv, NEW e \in Envs, StepOf(e)
  PROVE  ReadyInv'
<1> USE NothingIs
<1>1. /\ CtlTypes /\ FltTypes /\ ReadyInv /\ ChildInv
      /\ pc[e] \in Making => child[e] \in Envs /\ pc[child[e]] = "built"
      /\ flt[e] # NoFault => pc[e] \notin {"unborn", "built", "dead", "panic"}
  BY Mine DEF CowInv, TypeInv, LifeInv
<1>2. ASSUME NEW va \in VPages, Fault(e, va) PROVE ReadyInv'
  BY <1>1, <1>2 DEF Fault, Event, MayStore, Forking, Spawning, ReadyInv,
     CtlTypes, FltTypes, ChildInv, Making
<1>3. ASSUME NEW va \in VPages, FaultKills(e, va) PROVE ReadyInv'
  BY <1>1, <1>3 DEF FaultKills, MayStore, Gone, Forking, Spawning, ReadyInv,
     CtlTypes, FltTypes, ChildInv, Making
<1>4. ASSUME NEW va \in VPages, NEW x \in Values, Store(e, va, x) PROVE ReadyInv'
  BY <1>1, <1>4 DEF Store, MayStore, Forking, Spawning, ReadyInv, CtlTypes,
     FltTypes, ChildInv, Making
<1>5. CASE SetPgfaultHandler(e)
  BY <1>1, <1>5 DEF SetPgfaultHandler, Goto, At, ReadyInv, CtlTypes, FltTypes,
     ChildInv, Making, Forking, Spawning
<1>6. CASE SetPgfaultHandlerPanics(e)
  BY <1>1, <1>6 DEF SetPgfaultHandlerPanics, At, Panic, Goto, Return, Event,
     ReadyInv, CtlTypes, FltTypes, ChildInv, Making, Forking, Spawning
<1>7. CASE Spawn(e)
  BY <1>1, <1>7 DEF Spawn, Goto, At, ReadyInv, CtlTypes, FltTypes, ChildInv,
     Making, Forking, Spawning
<1>8. CASE PgfaultAlloc(e)
  BY <1>1, <1>8 DEF PgfaultAlloc, InFault, FaultStep, ReadyInv, CtlTypes,
     FltTypes, ChildInv, Making, Forking, Spawning
<1>9. CASE PgfaultPanics(e)
  BY <1>1, <1>9 DEF PgfaultPanics, Panic, InFault, Goto, Return, Event,
     ReadyInv, CtlTypes, FltTypes, ChildInv, Making, Forking, Spawning
<1>10. CASE PgfaultCopy(e)
  BY <1>1, <1>10 DEF PgfaultCopy, InFault, FaultStep, ReadyInv, CtlTypes,
     FltTypes, ChildInv, Making, Forking, Spawning
<1>11. CASE PgfaultMap(e)
  BY <1>1, <1>11 DEF PgfaultMap, InFault, FaultStep, ReadyInv, CtlTypes,
     FltTypes, ChildInv, Making, Forking, Spawning
<1>12. CASE PgfaultUnmap(e)
  BY <1>1, <1>12 DEF PgfaultUnmap, InFault, FaultStep, ReadyInv, CtlTypes,
     FltTypes, ChildInv, Making, Forking, Spawning
<1>13. CASE PgfaultReturn(e)
  BY <1>1, <1>13 DEF PgfaultReturn, InFault, ReadyInv, CtlTypes, FltTypes,
     ChildInv, Making, Forking, Spawning
<1>14. CASE ForkExofork(e)
  <2>1. \A g \in Envs : pc'[g] \in Forking => pc[g] \in Forking
    BY <1>1, <1>14 DEF ForkExofork, Exofork, Goto, At, CtlTypes, Forking, Spawning
  <2>2. \A g \in Envs : pc'[g] \in {"dup", "remap", "start"} => pc'[g] = pc[g] /\ child'[g] = child[g]
    BY <1>1, <1>14 DEF ForkExofork, Exofork, Goto, At, CtlTypes, Forking, Spawning
  <2>3. UNCHANGED upcall /\ \A g \in Envs : pc'[g] = "unborn" => pc[g] = "unborn"
    BY <1>1, <1>14 DEF ForkExofork, Exofork, Goto, At, CtlTypes
  <2>4. \A g \in Envs : pc'[g] \in Spawning \ {"sp_exofork"} =>
          \/ pc'[g] = pc[g] /\ child'[g] = child[g]
          \/ child'[g] \in Envs /\ pc[child'[g]] = "unborn"
    BY <1>1, <1>14 DEF ForkExofork, Exofork, Goto, At, CtlTypes, Forking, Spawning
  <2>5. QED BY <1>1, <2>1, <2>2, <2>3, <2>4 DEF ReadyInv
<1>15. CASE ForkExceptionStack(e)
  BY <1>1, <1>15 DEF ForkExceptionStack, Goto, At, ReadyInv, CtlTypes,
     FltTypes, ChildInv, Making, Forking, Spawning
<1>16. CASE ForkLoop(e)
  BY <1>1, <1>16 DEF ForkLoop, Goto, At, ReadyInv, CtlTypes, FltTypes,
     ChildInv, Making, Forking, Spawning
<1>17. CASE DuppageChild(e)
  BY <1>1, <1>17 DEF DuppageChild, Goto, At, ReadyInv, CtlTypes, FltTypes,
     ChildInv, Making, Forking, Spawning
<1>18. CASE DuppageParent(e)
  BY <1>1, <1>18 DEF DuppageParent, Goto, At, ReadyInv, CtlTypes, FltTypes,
     ChildInv, Making, Forking, Spawning
<1>19. CASE ForkFails(e)
  BY <1>1, <1>19 DEF ForkFails, Goto, Return, Event, ReadyInv, CtlTypes,
     FltTypes, ChildInv, Making, Forking, Spawning
<1>20. CASE ForkDone(e)
  BY <1>1, <1>20 DEF ForkDone, SetRunnable, Return, At, ReadyInv, CtlTypes,
     FltTypes, ChildInv, Making, Forking, Spawning
<1>21. CASE SpawnExofork(e)
  <2>1. \A g \in Envs : pc'[g] \in Forking => pc[g] \in Forking
    BY <1>1, <1>21 DEF SpawnExofork, Exofork, Goto, At, CtlTypes, Forking, Spawning
  <2>2. \A g \in Envs : pc'[g] \in {"dup", "remap", "start"} => pc'[g] = pc[g] /\ child'[g] = child[g]
    BY <1>1, <1>21 DEF SpawnExofork, Exofork, Goto, At, CtlTypes, Forking, Spawning
  <2>3. UNCHANGED upcall /\ \A g \in Envs : pc'[g] = "unborn" => pc[g] = "unborn"
    BY <1>1, <1>21 DEF SpawnExofork, Exofork, Goto, At, CtlTypes
  <2>4. \A g \in Envs : pc'[g] \in Spawning \ {"sp_exofork"} =>
          \/ pc'[g] = pc[g] /\ child'[g] = child[g]
          \/ child'[g] \in Envs /\ pc[child'[g]] = "unborn"
    BY <1>1, <1>21 DEF SpawnExofork, Exofork, Goto, At, CtlTypes, Forking, Spawning
  <2>5. QED BY <1>1, <2>1, <2>2, <2>3, <2>4 DEF ReadyInv
<1>22. CASE InitStackAlloc(e)
  BY <1>1, <1>22 DEF InitStackAlloc, Goto, At, ReadyInv, CtlTypes, FltTypes,
     ChildInv, Making, Forking, Spawning
<1>23. CASE InitStackMap(e)
  BY <1>1, <1>23 DEF InitStackMap, Goto, At, ReadyInv, CtlTypes, FltTypes,
     ChildInv, Making, Forking, Spawning
<1>24. CASE InitStackUnmap(e)
  BY <1>1, <1>24 DEF InitStackUnmap, Goto, At, ReadyInv, CtlTypes, FltTypes,
     ChildInv, Making, Forking, Spawning
<1>25. CASE InitStackFails(e)
  BY <1>1, <1>25 DEF InitStackFails, Goto, Return, Event, ReadyInv, CtlTypes,
     FltTypes, ChildInv, Making, Forking, Spawning
<1>26. CASE MapSegmentAlloc(e)
  BY <1>1, <1>26 DEF MapSegmentAlloc, Goto, At, ReadyInv, CtlTypes, FltTypes,
     ChildInv, Making, Forking, Spawning
<1>27. CASE MapSegmentRead(e)
  BY <1>1, <1>27 DEF MapSegmentRead, Goto, At, ReadyInv, CtlTypes, FltTypes,
     ChildInv, Making, Forking, Spawning
<1>28. CASE MapSegmentMap(e)
  BY <1>1, <1>28 DEF MapSegmentMap, Goto, At, ReadyInv, CtlTypes, FltTypes,
     ChildInv, Making, Forking, Spawning
<1>29. CASE MapSegmentUnmap(e)
  BY <1>1, <1>29 DEF MapSegmentUnmap, Goto, At, ReadyInv, CtlTypes, FltTypes,
     ChildInv, Making, Forking, Spawning
<1>30. CASE MapSegmentBlank(e)
  BY <1>1, <1>30 DEF MapSegmentBlank, Goto, At, ReadyInv, CtlTypes, FltTypes,
     ChildInv, Making, Forking, Spawning
<1>31. CASE SpawnFails(e)
  BY <1>1, <1>31 DEF SpawnFails, Return, Event, ReadyInv, CtlTypes, FltTypes,
     ChildInv, Making, Forking, Spawning
<1>32. CASE CopySharedPages(e)
  BY <1>1, <1>32 DEF CopySharedPages, Goto, At, ReadyInv, CtlTypes, FltTypes,
     ChildInv, Making, Forking, Spawning
<1>33. CASE SpawnPanics(e)
  BY <1>1, <1>33 DEF SpawnPanics, Panic, Goto, Return, Event, ReadyInv,
     CtlTypes, FltTypes, ChildInv, Making, Forking, Spawning
<1>34. CASE SpawnDone(e)
  BY <1>1, <1>34 DEF SpawnDone, SetRunnable, Return, At, ReadyInv, CtlTypes,
     FltTypes, ChildInv, Making, Forking, Spawning
<1>35. CASE Destroyed(e)
  BY <1>1, <1>35 DEF Destroyed, Event, Gone, ReadyInv, CtlTypes, FltTypes,
     ChildInv, Making, Forking, Spawning
<1>36. QED
  BY <1>2, <1>3, <1>4, <1>5, <1>6, <1>7, <1>8, <1>9, <1>10, <1>11, <1>12,
     <1>13, <1>14, <1>15, <1>16, <1>17, <1>18, <1>19, <1>20, <1>21, <1>22,
     <1>23, <1>24, <1>25, <1>26, <1>27, <1>28, <1>29, <1>30, <1>31, <1>32,
     <1>33, <1>34, <1>35 DEF StepOf, Program, Handler, ForkStep, SpawnStep

LEMMA HandKept ==
  ASSUME HandInv, NEW c \in Envs, NEW va \in Vas, NEW p, Entry(c, va, p), upcall' = upcall,
         va = "uxstack" => "W" \in p.perm,
         (va \in VPages /\ "COW" \in p.perm) => upcall[c]
  PROVE  HandInv'
BY SpotsAre DEF HandInv, Entry

LEMMA HandStep ==
  ASSUME CowInv, NEW e \in Envs, StepOf(e)
  PROVE  HandInv'
<1>1. MemTypes /\ FltTypes /\ ReadyInv /\ HandInv
  BY DEF CowInv, TypeInv
<1>2. ASSUME NEW va \in VPages, Fault(e, va) PROVE HandInv'
  <2>1. UNCHANGED <<pt, upcall>>
    BY <1>2 DEF Fault
  <2>2. QED BY <1>1, <2>1 DEF HandInv
<1>3. ASSUME NEW va \in VPages, FaultKills(e, va) PROVE HandInv'
  <2>1. /\ upcall' = [upcall EXCEPT ![e] = FALSE]
        /\ \A g \in Envs, w \in Vas : pt'[g][w] = IF g = e THEN NoPte ELSE pt[g][w]
    BY <1>1, <1>3, ClearIs DEF FaultKills, Gone
  <2>2. QED BY <1>1, <2>1, SpotsAre, NothingIs DEF HandInv, FltTypes
<1>4. ASSUME NEW va \in VPages, NEW x \in Values, Store(e, va, x) PROVE HandInv'
  <2>1. UNCHANGED <<pt, upcall>>
    BY <1>4 DEF Store
  <2>2. QED BY <1>1, <2>1 DEF HandInv
<1>5. CASE SetPgfaultHandler(e)
  <2>1. CASE UNCHANGED <<pt, upcall>>
    BY <1>1, <2>1 DEF HandInv
  <2>2. CASE upcall' = [upcall EXCEPT ![e] = TRUE] /\ NewEntry(e, "uxstack", {"W"})
    BY <1>1, <2>2, SpotsAre DEF HandInv, NewEntry, Entry, Pte, FltTypes
  <2>3. QED BY <1>5, <2>1, <2>2, Entries DEF SetPgfaultHandler
<1>6. CASE SetPgfaultHandlerPanics(e)
  <2>1. UNCHANGED <<pt, upcall>>
    BY <1>6 DEF SetPgfaultHandlerPanics, Panic
  <2>2. QED BY <1>1, <2>1 DEF HandInv
<1>7. CASE Spawn(e)
  <2>1. UNCHANGED <<pt, upcall>>
    BY <1>7 DEF Spawn
  <2>2. QED BY <1>1, <2>1 DEF HandInv
<1>8. CASE PgfaultAlloc(e)
  <2>1. UNCHANGED upcall /\ NewEntry(e, "pftemp", {"W"})
    BY <1>8, Entries DEF PgfaultAlloc
  <2>2. QED BY <1>1, <1>8, <2>1, HandKept, Here, SpotsAre, NothingIs DEF PgfaultAlloc,
      InFault, NewEntry, MapEntry, Pte
<1>9. CASE PgfaultPanics(e)
  <2>1. UNCHANGED <<pt, upcall>>
    BY <1>9 DEF PgfaultPanics, Panic
  <2>2. QED BY <1>1, <2>1 DEF HandInv
<1>10. CASE PgfaultCopy(e)
  <2>1. UNCHANGED <<pt, upcall>>
    BY <1>10 DEF PgfaultCopy
  <2>2. QED BY <1>1, <2>1 DEF HandInv
<1>11. CASE PgfaultMap(e)
  <2>1. UNCHANGED upcall /\ MapEntry(e, "pftemp", e, flt[e].va, {"W"})
    BY <1>11, Entries DEF PgfaultMap
  <2>2. QED BY <1>1, <1>11, <2>1, HandKept, Here, SpotsAre, NothingIs DEF PgfaultMap,
      InFault, NewEntry, MapEntry, Pte
<1>12. CASE PgfaultUnmap(e)
  <2>1. UNCHANGED upcall /\ Entry(e, "pftemp", NoPte)
    BY <1>12, Entries DEF PgfaultUnmap
  <2>2. QED BY <1>1, <1>12, <2>1, HandKept, Here, SpotsAre, NothingIs DEF PgfaultUnmap,
      InFault, NewEntry, MapEntry, Pte
<1>13. CASE PgfaultReturn(e)
  <2>1. UNCHANGED <<pt, upcall>>
    BY <1>13 DEF PgfaultReturn
  <2>2. QED BY <1>1, <2>1 DEF HandInv
<1>14. CASE ForkExofork(e)
  <2>1. UNCHANGED <<pt, upcall>>
    BY <1>14 DEF ForkExofork, Exofork
  <2>2. QED BY <1>1, <2>1 DEF HandInv
<1>15. CASE ForkExceptionStack(e)
  <2>1. child[e] \in Envs /\ NewEntry(child[e], "uxstack", {"W"}) /\ upcall' = [upcall EXCEPT ![child[e]] = TRUE]
    BY <1>15, Entries, Here DEF ForkExceptionStack, At, Forking
  <2>2. QED BY <1>1, <2>1, SpotsAre DEF HandInv, NewEntry, Entry, Pte, FltTypes
<1>16. CASE ForkLoop(e)
  <2>1. UNCHANGED <<pt, upcall>>
    BY <1>16 DEF ForkLoop
  <2>2. QED BY <1>1, <2>1 DEF HandInv
<1>17. CASE DuppageChild(e)
  <2>1. /\ child[e] \in Envs /\ Va(e) \in VPages /\ upcall[child[e]] /\ UNCHANGED upcall
        /\ \/ MapEntry(e, Va(e), child[e], Va(e), {"COW"})
           \/ MapEntry(e, Va(e), child[e], Va(e), {})
    BY <1>1, <1>17, Entries, Here DEF DuppageChild, At, ReadyInv, Making, Forking
  <2>2. QED BY <1>1, <2>1, HandKept, SpotsAre DEF MapEntry, Pte
<1>18. CASE DuppageParent(e)
  <2>1. UNCHANGED upcall /\ MapEntry(e, Va(e), e, Va(e), {"COW"}) /\ Va(e) \in VPages /\ upcall[e]
    BY <1>1, <1>18, Entries, Here DEF DuppageParent, At, ReadyInv, Forking
  <2>2. QED BY <1>1, <2>1, HandKept, SpotsAre DEF MapEntry, Pte
<1>19. CASE ForkFails(e)
  <2>1. UNCHANGED <<pt, upcall>>
    BY <1>19 DEF ForkFails
  <2>2. QED BY <1>1, <2>1 DEF HandInv
<1>20. CASE ForkDone(e)
  <2>1. UNCHANGED <<pt, upcall>>
    BY <1>20 DEF ForkDone, SetRunnable
  <2>2. QED BY <1>1, <2>1 DEF HandInv
<1>21. CASE SpawnExofork(e)
  <2>1. UNCHANGED <<pt, upcall>>
    BY <1>21 DEF SpawnExofork, Exofork
  <2>2. QED BY <1>1, <2>1 DEF HandInv
<1>22. CASE InitStackAlloc(e)
  <2>1. UNCHANGED upcall /\ NewEntry(e, "utemp", {"W"})
    BY <1>22, Entries DEF InitStackAlloc
  <2>2. QED BY <1>1, <1>22, <2>1, HandKept, Here, SpotsAre, NothingIs DEF InitStackAlloc, At,
      NewEntry, MapEntry, Pte
<1>23. CASE InitStackMap(e)
  <2>1. UNCHANGED upcall /\ MapEntry(e, "utemp", child[e], Stack, {"W"})
    BY <1>23, Entries DEF InitStackMap
  <2>2. QED BY <1>1, <1>23, <2>1, HandKept, Here, SpotsAre, NothingIs DEF InitStackMap, At,
      NewEntry, MapEntry, Pte, Spawning
<1>24. CASE InitStackUnmap(e)
  <2>1. UNCHANGED upcall /\ Entry(e, "utemp", NoPte)
    BY <1>24, Entries DEF InitStackUnmap
  <2>2. QED BY <1>1, <1>24, <2>1, HandKept, Here, SpotsAre, NothingIs DEF InitStackUnmap, At,
      NewEntry, MapEntry, Pte
<1>25. CASE InitStackFails(e)
  <2>1. UNCHANGED upcall /\ (UNCHANGED pt \/ Entry(e, "utemp", NoPte))
    BY <1>25, Entries DEF InitStackFails
  <2>2. QED BY <1>1, <2>1, HandKept, SpotsAre DEF HandInv
<1>26. CASE MapSegmentAlloc(e)
  <2>1. UNCHANGED upcall /\ NewEntry(e, "utemp", {"W"})
    BY <1>26, Entries DEF MapSegmentAlloc
  <2>2. QED BY <1>1, <1>26, <2>1, HandKept, Here, SpotsAre, NothingIs DEF MapSegmentAlloc,
      At, NewEntry, MapEntry, Pte
<1>27. CASE MapSegmentRead(e)
  <2>1. UNCHANGED <<pt, upcall>>
    BY <1>27 DEF MapSegmentRead
  <2>2. QED BY <1>1, <2>1 DEF HandInv
<1>28. CASE MapSegmentMap(e)
  <2>1. UNCHANGED upcall /\ MapEntry(e, "utemp", child[e], Va(e), {})
    BY <1>28, Entries DEF MapSegmentMap
  <2>2. QED BY <1>1, <1>28, <2>1, HandKept, Here, SpotsAre, NothingIs DEF MapSegmentMap, At,
      NewEntry, MapEntry, Pte, Spawning
<1>29. CASE MapSegmentUnmap(e)
  <2>1. UNCHANGED upcall /\ Entry(e, "utemp", NoPte)
    BY <1>29, Entries DEF MapSegmentUnmap
  <2>2. QED BY <1>1, <1>29, <2>1, HandKept, Here, SpotsAre, NothingIs DEF MapSegmentUnmap,
      At, NewEntry, MapEntry, Pte
<1>30. CASE MapSegmentBlank(e)
  <2>1. UNCHANGED upcall /\ NewEntry(child[e], Bss, {"W"})
    BY <1>30, Entries DEF MapSegmentBlank
  <2>2. QED BY <1>1, <1>30, <2>1, HandKept, Here, SpotsAre, NothingIs DEF MapSegmentBlank,
      At, NewEntry, MapEntry, Pte, Spawning
<1>31. CASE SpawnFails(e)
  <2>1. child[e] \in Envs /\ ~upcall[child[e]]
    BY <1>1, <1>31, Here DEF SpawnFails, ReadyInv, Spawning
  <2>2. UNCHANGED upcall /\ \A g \in Envs, w \in Vas : pt'[g][w] = IF g = child[e] THEN NoPte ELSE pt[g][w]
    BY <1>1, <1>31, <2>1, ClearIs DEF SpawnFails
  <2>3. QED BY <1>1, <2>1, <2>2, SpotsAre, NothingIs DEF HandInv
<1>32. CASE CopySharedPages(e)
  <2>1. /\ child[e] \in Envs /\ UNCHANGED upcall
        /\ UNCHANGED pt \/ MapEntry(e, Shared, child[e], Shared, {"W", "SHARE"})
    BY <1>32, Entries, Here DEF CopySharedPages, At, Spawning
  <2>2. QED BY <1>1, <2>1, HandKept, SpotsAre DEF HandInv, MapEntry, Pte
<1>33. CASE SpawnPanics(e)
  <2>1. UNCHANGED <<pt, upcall>>
    BY <1>33 DEF SpawnPanics, Panic
  <2>2. QED BY <1>1, <2>1 DEF HandInv
<1>34. CASE SpawnDone(e)
  <2>1. UNCHANGED <<pt, upcall>>
    BY <1>34 DEF SpawnDone, SetRunnable
  <2>2. QED BY <1>1, <2>1 DEF HandInv
<1>35. CASE Destroyed(e)
  <2>1. /\ upcall' = [upcall EXCEPT ![e] = FALSE]
        /\ \A g \in Envs, w \in Vas : pt'[g][w] = IF g = e THEN NoPte ELSE pt[g][w]
    BY <1>1, <1>35, ClearIs DEF Destroyed, Gone
  <2>2. QED BY <1>1, <2>1, SpotsAre, NothingIs DEF HandInv, FltTypes
<1>36. QED
  BY <1>2, <1>3, <1>4, <1>5, <1>6, <1>7, <1>8, <1>9, <1>10, <1>11, <1>12,
     <1>13, <1>14, <1>15, <1>16, <1>17, <1>18, <1>19, <1>20, <1>21, <1>22,
     <1>23, <1>24, <1>25, <1>26, <1>27, <1>28, <1>29, <1>30, <1>31, <1>32,
     <1>33, <1>34, <1>35 DEF StepOf, Program, Handler, ForkStep, SpawnStep

-----------------------------------------------------------------------------
(* Faults. *)

\* No one's page tables change while it handles a fault, but by its handler.
LEMMA FaultKept ==
  ASSUME FltTypes, FaultInv, IdleInv,
         \A g \in Envs : flt'[g] = NoFault \/ (flt'[g] = flt[g] /\ \A w \in Vas : pt'[g][w] = pt[g][w])
  PROVE  FaultInv'
<1> SUFFICES ASSUME NEW g \in Envs
             PROVE  /\ flt'[g].step \in {"check", "copy", "map"} => "W" \notin pt'[g][flt'[g].va].perm
                    /\ flt'[g].step \in {"copy", "map"} => "COW" \in pt'[g][flt'[g].va].perm
                    /\ flt'[g].step \in {"copy", "map", "unmap"} => pt'[g]["pftemp"].fr # NoOne
  BY DEF FaultInv
<1>1. CASE flt'[g] = NoFault
  BY <1>1, NothingIs
<1>2. CASE flt'[g] = flt[g] /\ flt[g] # NoFault /\ \A w \in Vas : pt'[g][w] = pt[g][w]
  <2>1. flt[g].va \in VPages \cup {NoOne}
    BY DEF FltTypes, Faults
  <2>2. flt[g].va \in VPages \/ flt[g].step = "none"
    BY <1>2, <2>1 DEF IdleInv
  <2>3. QED BY <1>2, <2>2, SpotsAre DEF FaultInv
<1>3. QED BY <1>1, <1>2

LEMMA FltVas ==
  ASSUME FltTypes, IdleInv, NEW g \in Envs
  PROVE  flt[g].step # "none" => flt[g].va \in VPages
BY NothingIs DEF FltTypes, IdleInv, Faults

LEMMA FaultInvStep ==
  ASSUME CowInv, NEW e \in Envs, StepOf(e)
  PROVE  FaultInv'
<1>1. /\ MemTypes /\ FltTypes /\ IdleInv /\ FaultInv
      /\ pc[e] \in Making => flt[child[e]] = NoFault
  BY Mine DEF CowInv, TypeInv, LifeInv, IdleInv
<1>2. ASSUME NEW va \in VPages, Fault(e, va) PROVE FaultInv'
  <2>1. /\ flt' = [flt EXCEPT ![e] = [va |-> va, step |-> "check", outer |-> NoOne]] /\ UNCHANGED pt
        /\ "W" \notin pt[e][va].perm
    BY <1>2 DEF Fault
  <2>2. QED BY <1>1, <2>1, SpotsAre, NothingIs DEF FaultInv, FltTypes
<1>3. ASSUME NEW va \in VPages, FaultKills(e, va) PROVE FaultInv'
  <2>1. flt' = [flt EXCEPT ![e] = NoFault] /\ pt' = [pt EXCEPT ![e] = NoPt]
    BY <1>3 DEF FaultKills, Gone
  <2>2. QED BY <1>1, <2>1, FaultKept DEF FltTypes, MemTypes
<1>4. ASSUME NEW va \in VPages, NEW x \in Values, Store(e, va, x) PROVE FaultInv'
  <2>1. UNCHANGED pt /\ (UNCHANGED flt \/ flt' = [flt EXCEPT ![e] = NoFault])
    BY <1>4 DEF Store
  <2>2. QED BY <1>1, <2>1, FaultKept DEF FltTypes
<1>5. CASE SetPgfaultHandler(e)
  <2>1. UNCHANGED flt /\ flt[e] = NoFault
    BY <1>5 DEF SetPgfaultHandler, At
  <2>2. IF upcall[e] THEN UNCHANGED <<pt, upcall>> ELSE NewEntry(e, "uxstack", {"W"})
    BY <1>5, Entries
  <2>3. \A g \in Envs \ {e}, w \in Vas : pt'[g][w] = pt[g][w]
    BY <2>2 DEF Entry, NewEntry, MapEntry
  <2>4. QED BY <1>1, <2>1, <2>3, FaultKept
<1>6. CASE SetPgfaultHandlerPanics(e)
  <2>1. UNCHANGED pt /\ (UNCHANGED flt \/ flt' = [flt EXCEPT ![e] = NoFault])
    BY <1>6 DEF SetPgfaultHandlerPanics, At, Panic
  <2>2. QED BY <1>1, <2>1, FaultKept DEF FltTypes
<1>7. CASE Spawn(e)
  <2>1. UNCHANGED pt /\ (UNCHANGED flt \/ flt' = [flt EXCEPT ![e] = NoFault])
    BY <1>7 DEF Spawn, At
  <2>2. QED BY <1>1, <2>1, FaultKept DEF FltTypes
<1>8. CASE PgfaultAlloc(e)
  <2>1. /\ FaultStep(e, "copy") /\ flt[e].step = "check" /\ pt[e][flt[e].va].perm \cap {"COW", "W"} # {}
        /\ NewEntry(e, "pftemp", {"W"})
    BY <1>8, Entries DEF PgfaultAlloc, InFault
  <2>2. flt[e] # NoFault /\ flt[e].va \in VPages
    BY <2>1, Here
  <2>3. \A g \in Envs : flt'[g] = IF g = e THEN [va |-> flt[e].va, step |-> "copy", outer |-> flt[e].outer]
                                           ELSE flt[g]
    BY <1>1, <2>1, FaultGoes DEF Steps
  <2>4. QED BY <1>1, <2>1, <2>2, <2>3, SpotsAre, NothingIs, FreeIs, FltVas DEF FaultInv,
      Entry, NewEntry, MapEntry, Pte
<1>9. CASE PgfaultPanics(e)
  <2>1. UNCHANGED pt /\ (UNCHANGED flt \/ flt' = [flt EXCEPT ![e] = NoFault])
    BY <1>9 DEF PgfaultPanics, Panic
  <2>2. QED BY <1>1, <2>1, FaultKept DEF FltTypes
<1>10. CASE PgfaultCopy(e)
  <2>1. /\ FaultStep(e, "map") /\ flt[e].step = "copy"
        /\ UNCHANGED pt
    BY <1>10, Entries DEF PgfaultCopy, InFault
  <2>2. flt[e] # NoFault /\ flt[e].va \in VPages
    BY <2>1, Here
  <2>3. \A g \in Envs : flt'[g] = IF g = e THEN [va |-> flt[e].va, step |-> "map", outer |-> flt[e].outer]
                                           ELSE flt[g]
    BY <1>1, <2>1, FaultGoes DEF Steps
  <2>4. QED BY <1>1, <2>1, <2>2, <2>3, SpotsAre, NothingIs, FreeIs, FltVas DEF FaultInv,
      Entry, NewEntry, MapEntry, Pte
<1>11. CASE PgfaultMap(e)
  <2>1. /\ FaultStep(e, "unmap") /\ flt[e].step = "map"
        /\ MapEntry(e, "pftemp", e, flt[e].va, {"W"})
    BY <1>11, Entries DEF PgfaultMap, InFault
  <2>2. flt[e] # NoFault /\ flt[e].va \in VPages
    BY <2>1, Here
  <2>3. \A g \in Envs : flt'[g] = IF g = e THEN [va |-> flt[e].va, step |-> "unmap", outer |-> flt[e].outer]
                                           ELSE flt[g]
    BY <1>1, <2>1, FaultGoes DEF Steps
  <2>4. QED BY <1>1, <2>1, <2>2, <2>3, SpotsAre, NothingIs, FreeIs, FltVas DEF FaultInv,
      Entry, NewEntry, MapEntry, Pte
<1>12. CASE PgfaultUnmap(e)
  <2>1. /\ FaultStep(e, "return") /\ flt[e].step = "unmap"
        /\ Entry(e, "pftemp", NoPte)
    BY <1>12, Entries DEF PgfaultUnmap, InFault
  <2>2. flt[e] # NoFault /\ flt[e].va \in VPages
    BY <2>1, Here
  <2>3. \A g \in Envs : flt'[g] = IF g = e THEN [va |-> flt[e].va, step |-> "return", outer |-> flt[e].outer]
                                           ELSE flt[g]
    BY <1>1, <2>1, FaultGoes DEF Steps
  <2>4. QED BY <1>1, <2>1, <2>2, <2>3, SpotsAre, NothingIs, FreeIs, FltVas DEF FaultInv,
      Entry, NewEntry, MapEntry, Pte
<1>13. CASE PgfaultReturn(e)
  <2>1. flt[e] # NoFault /\ UNCHANGED pt
    BY <1>13, NothingIs DEF PgfaultReturn, InFault
  <2>2. \/ flt' = [flt EXCEPT ![e] = NoFault]
        \/ flt' = [flt EXCEPT ![e] = [va |-> flt[e].outer, step |-> "return", outer |-> NoOne]]
        \/ /\ flt' = [flt EXCEPT ![e] = [va |-> Stack, step |-> "check", outer |-> flt[e].va]]
           /\ "W" \notin pt[e][Stack].perm
    BY <1>1, <1>13 DEF PgfaultReturn, FltTypes
  <2>3. QED BY <1>1, <2>1, <2>2, SpotsAre, NothingIs DEF FaultInv, FltTypes
<1>14. CASE ForkExofork(e)
  <2>1. UNCHANGED pt /\ (UNCHANGED flt \/ flt' = [flt EXCEPT ![e] = NoFault])
    BY <1>14 DEF ForkExofork, Exofork, At
  <2>2. QED BY <1>1, <2>1, FaultKept DEF FltTypes
<1>15. CASE ForkExceptionStack(e)
  <2>1. UNCHANGED flt /\ pc[e] \in Making
    BY <1>15 DEF ForkExceptionStack, At, Making, Forking
  <2>2. NewEntry(child[e], "uxstack", {"W"})
    BY <1>15, Entries
  <2>3. \A g \in Envs \ {child[e]}, w \in Vas : pt'[g][w] = pt[g][w]
    BY <2>2 DEF Entry, NewEntry, MapEntry
  <2>4. QED BY <1>1, <2>1, <2>3, FaultKept
<1>16. CASE ForkLoop(e)
  <2>1. UNCHANGED pt /\ (UNCHANGED flt \/ flt' = [flt EXCEPT ![e] = NoFault])
    BY <1>16 DEF ForkLoop, At
  <2>2. QED BY <1>1, <2>1, FaultKept DEF FltTypes
<1>17. CASE DuppageChild(e)
  <2>1. UNCHANGED flt /\ pc[e] \in Making
    BY <1>17 DEF DuppageChild, At, Making, Forking
  <2>2. \/ Writable(e) /\ MapEntry(e, Va(e), child[e], Va(e), {"COW"})
        \/ MapEntry(e, Va(e), child[e], Va(e), {})
    BY <1>17, Entries
  <2>3. \A g \in Envs \ {child[e]}, w \in Vas : pt'[g][w] = pt[g][w]
    BY <2>2 DEF Entry, NewEntry, MapEntry
  <2>4. QED BY <1>1, <2>1, <2>3, FaultKept
<1>18. CASE DuppageParent(e)
  <2>1. UNCHANGED flt /\ flt[e] = NoFault
    BY <1>18 DEF DuppageParent, At
  <2>2. MapEntry(e, Va(e), e, Va(e), {"COW"})
    BY <1>18, Entries
  <2>3. \A g \in Envs \ {e}, w \in Vas : pt'[g][w] = pt[g][w]
    BY <2>2 DEF Entry, NewEntry, MapEntry
  <2>4. QED BY <1>1, <2>1, <2>3, FaultKept
<1>19. CASE ForkFails(e)
  <2>1. UNCHANGED pt /\ (UNCHANGED flt \/ flt' = [flt EXCEPT ![e] = NoFault])
    BY <1>19 DEF ForkFails
  <2>2. QED BY <1>1, <2>1, FaultKept DEF FltTypes
<1>20. CASE ForkDone(e)
  <2>1. UNCHANGED pt /\ (UNCHANGED flt \/ flt' = [flt EXCEPT ![e] = NoFault])
    BY <1>20 DEF ForkDone, SetRunnable, At
  <2>2. QED BY <1>1, <2>1, FaultKept DEF FltTypes
<1>21. CASE SpawnExofork(e)
  <2>1. UNCHANGED pt /\ (UNCHANGED flt \/ flt' = [flt EXCEPT ![e] = NoFault])
    BY <1>21 DEF SpawnExofork, Exofork, At
  <2>2. QED BY <1>1, <2>1, FaultKept DEF FltTypes
<1>22. CASE InitStackAlloc(e)
  <2>1. UNCHANGED flt /\ flt[e] = NoFault
    BY <1>22 DEF InitStackAlloc, At
  <2>2. NewEntry(e, "utemp", {"W"})
    BY <1>22, Entries
  <2>3. \A g \in Envs \ {e}, w \in Vas : pt'[g][w] = pt[g][w]
    BY <2>2 DEF Entry, NewEntry, MapEntry
  <2>4. QED BY <1>1, <2>1, <2>3, FaultKept
<1>23. CASE InitStackMap(e)
  <2>1. UNCHANGED flt /\ pc[e] \in Making
    BY <1>23 DEF InitStackMap, At, Making, Spawning
  <2>2. MapEntry(e, "utemp", child[e], Stack, {"W"})
    BY <1>23, Entries
  <2>3. \A g \in Envs \ {child[e]}, w \in Vas : pt'[g][w] = pt[g][w]
    BY <2>2 DEF Entry, NewEntry, MapEntry
  <2>4. QED BY <1>1, <2>1, <2>3, FaultKept
<1>24. CASE InitStackUnmap(e)
  <2>1. UNCHANGED flt /\ flt[e] = NoFault
    BY <1>24 DEF InitStackUnmap, At
  <2>2. Entry(e, "utemp", NoPte)
    BY <1>24, Entries
  <2>3. \A g \in Envs \ {e}, w \in Vas : pt'[g][w] = pt[g][w]
    BY <2>2 DEF Entry, NewEntry, MapEntry
  <2>4. QED BY <1>1, <2>1, <2>3, FaultKept
<1>25. CASE InitStackFails(e)
  <2>1. UNCHANGED flt /\ flt[e] = NoFault
    BY <1>25 DEF InitStackFails
  <2>2. UNCHANGED pt \/ Entry(e, "utemp", NoPte)
    BY <1>25, Entries
  <2>3. \A g \in Envs \ {e}, w \in Vas : pt'[g][w] = pt[g][w]
    BY <2>2 DEF Entry, NewEntry, MapEntry
  <2>4. QED BY <1>1, <2>1, <2>3, FaultKept
<1>26. CASE MapSegmentAlloc(e)
  <2>1. UNCHANGED flt /\ flt[e] = NoFault
    BY <1>26 DEF MapSegmentAlloc, At
  <2>2. NewEntry(e, "utemp", {"W"})
    BY <1>26, Entries
  <2>3. \A g \in Envs \ {e}, w \in Vas : pt'[g][w] = pt[g][w]
    BY <2>2 DEF Entry, NewEntry, MapEntry
  <2>4. QED BY <1>1, <2>1, <2>3, FaultKept
<1>27. CASE MapSegmentRead(e)
  <2>1. UNCHANGED pt /\ (UNCHANGED flt \/ flt' = [flt EXCEPT ![e] = NoFault])
    BY <1>27 DEF MapSegmentRead, At
  <2>2. QED BY <1>1, <2>1, FaultKept DEF FltTypes
<1>28. CASE MapSegmentMap(e)
  <2>1. UNCHANGED flt /\ pc[e] \in Making
    BY <1>28 DEF MapSegmentMap, At, Making, Spawning
  <2>2. MapEntry(e, "utemp", child[e], Va(e), {})
    BY <1>28, Entries
  <2>3. \A g \in Envs \ {child[e]}, w \in Vas : pt'[g][w] = pt[g][w]
    BY <2>2 DEF Entry, NewEntry, MapEntry
  <2>4. QED BY <1>1, <2>1, <2>3, FaultKept
<1>29. CASE MapSegmentUnmap(e)
  <2>1. UNCHANGED flt /\ flt[e] = NoFault
    BY <1>29 DEF MapSegmentUnmap, At
  <2>2. Entry(e, "utemp", NoPte)
    BY <1>29, Entries
  <2>3. \A g \in Envs \ {e}, w \in Vas : pt'[g][w] = pt[g][w]
    BY <2>2 DEF Entry, NewEntry, MapEntry
  <2>4. QED BY <1>1, <2>1, <2>3, FaultKept
<1>30. CASE MapSegmentBlank(e)
  <2>1. UNCHANGED flt /\ pc[e] \in Making
    BY <1>30 DEF MapSegmentBlank, At, Making, Spawning
  <2>2. NewEntry(child[e], Bss, {"W"})
    BY <1>30, Entries
  <2>3. \A g \in Envs \ {child[e]}, w \in Vas : pt'[g][w] = pt[g][w]
    BY <2>2 DEF Entry, NewEntry, MapEntry
  <2>4. QED BY <1>1, <2>1, <2>3, FaultKept
<1>31. CASE SpawnFails(e)
  <2>1. UNCHANGED flt /\ pt' = [pt EXCEPT ![child[e]] = NoPt]
    BY <1>31 DEF SpawnFails
  <2>2. pc[e] \in Making
    BY <1>31 DEF SpawnFails, Making, Spawning
  <2>3. QED BY <1>1, <2>1, <2>2, FaultKept DEF MemTypes
<1>32. CASE CopySharedPages(e)
  <2>1. UNCHANGED flt /\ pc[e] \in Making
    BY <1>32 DEF CopySharedPages, At, Making, Spawning
  <2>2. IF "SHARE" \in pt[e][Shared].perm
        THEN MapEntry(e, Shared, child[e], Shared, {"W", "SHARE"})
        ELSE UNCHANGED pt
    BY <1>32, Entries
  <2>3. \A g \in Envs \ {child[e]}, w \in Vas : pt'[g][w] = pt[g][w]
    BY <2>2 DEF Entry, NewEntry, MapEntry
  <2>4. QED BY <1>1, <2>1, <2>3, FaultKept
<1>33. CASE SpawnPanics(e)
  <2>1. UNCHANGED pt /\ (UNCHANGED flt \/ flt' = [flt EXCEPT ![e] = NoFault])
    BY <1>33 DEF SpawnPanics, Panic
  <2>2. QED BY <1>1, <2>1, FaultKept DEF FltTypes
<1>34. CASE SpawnDone(e)
  <2>1. UNCHANGED pt /\ (UNCHANGED flt \/ flt' = [flt EXCEPT ![e] = NoFault])
    BY <1>34 DEF SpawnDone, SetRunnable, At
  <2>2. QED BY <1>1, <2>1, FaultKept DEF FltTypes
<1>35. CASE Destroyed(e)
  <2>1. flt' = [flt EXCEPT ![e] = NoFault] /\ pt' = [pt EXCEPT ![e] = NoPt]
    BY <1>35 DEF Destroyed, Gone
  <2>2. QED BY <1>1, <2>1, FaultKept DEF FltTypes, MemTypes
<1>36. QED
  BY <1>2, <1>3, <1>4, <1>5, <1>6, <1>7, <1>8, <1>9, <1>10, <1>11, <1>12,
     <1>13, <1>14, <1>15, <1>16, <1>17, <1>18, <1>19, <1>20, <1>21, <1>22,
     <1>23, <1>24, <1>25, <1>26, <1>27, <1>28, <1>29, <1>30, <1>31, <1>32,
     <1>33, <1>34, <1>35 DEF StepOf, Program, Handler, ForkStep, SpawnStep

-----------------------------------------------------------------------------
(* What a step of a changes in the control of others, and in its own. *)

OnlyBy(a) ==
  /\ \A g \in Envs \ {a} :
       /\ flt'[g] = flt[g] /\ child'[g] = child[g] /\ page'[g] = page[g]
       /\ \/ pc'[g] = pc[g]
          \/ pc[g] = "unborn" /\ pc'[g] = "built"
          \/ /\ g = child[a] /\ pc[a] \in {"start", "sp_start", "sp_seg", "sp_read"}
             /\ pc'[g] \in {"run", "dead"}
  /\ child'[a] = child[a] \/ child'[a] = NoOne \/ (child'[a] \in Envs /\ pc[child'[a]] = "unborn")

LEMMA OnlyActor ==
  ASSUME CowInv, NEW e \in Envs, StepOf(e)
  PROVE  OnlyBy(e)
<1>1. CtlTypes /\ FltTypes
  BY DEF CowInv, TypeInv
<1>2. ASSUME NEW va \in VPages, Fault(e, va) PROVE OnlyBy(e)
  BY <1>1, <1>2 DEF Fault, Event, MayStore, OnlyBy, CtlTypes, FltTypes
<1>3. ASSUME NEW va \in VPages, FaultKills(e, va) PROVE OnlyBy(e)
  BY <1>1, <1>3 DEF FaultKills, MayStore, Gone, OnlyBy, CtlTypes, FltTypes
<1>4. ASSUME NEW va \in VPages, NEW x \in Values, Store(e, va, x) PROVE OnlyBy(e)
  BY <1>1, <1>4 DEF Store, MayStore, OnlyBy, CtlTypes, FltTypes
<1>5. CASE SetPgfaultHandler(e)
  BY <1>1, <1>5 DEF SetPgfaultHandler, Goto, At, OnlyBy, CtlTypes, FltTypes
<1>6. CASE SetPgfaultHandlerPanics(e)
  BY <1>1, <1>6 DEF SetPgfaultHandlerPanics, At, Panic, Goto, Return, Event,
     OnlyBy, CtlTypes, FltTypes
<1>7. CASE Spawn(e)
  BY <1>1, <1>7 DEF Spawn, Goto, At, OnlyBy, CtlTypes, FltTypes
<1>8. CASE PgfaultAlloc(e)
  <2>1. FaultStep(e, "copy") /\ UNCHANGED <<pc, child, page>>
    BY <1>8 DEF PgfaultAlloc
  <2>2. \A g \in Envs \ {e} : flt'[g] = flt[g]
    BY <1>1, <2>1 DEF FaultStep, FltTypes
  <2>3. QED BY <2>1, <2>2 DEF OnlyBy
<1>9. CASE PgfaultPanics(e)
  BY <1>1, <1>9 DEF PgfaultPanics, Panic, InFault, Goto, Return, Event,
     OnlyBy, CtlTypes, FltTypes
<1>10. CASE PgfaultCopy(e)
  <2>1. FaultStep(e, "map") /\ UNCHANGED <<pc, child, page>>
    BY <1>10 DEF PgfaultCopy
  <2>2. \A g \in Envs \ {e} : flt'[g] = flt[g]
    BY <1>1, <2>1 DEF FaultStep, FltTypes
  <2>3. QED BY <2>1, <2>2 DEF OnlyBy
<1>11. CASE PgfaultMap(e)
  <2>1. FaultStep(e, "unmap") /\ UNCHANGED <<pc, child, page>>
    BY <1>11 DEF PgfaultMap
  <2>2. \A g \in Envs \ {e} : flt'[g] = flt[g]
    BY <1>1, <2>1 DEF FaultStep, FltTypes
  <2>3. QED BY <2>1, <2>2 DEF OnlyBy
<1>12. CASE PgfaultUnmap(e)
  <2>1. FaultStep(e, "return") /\ UNCHANGED <<pc, child, page>>
    BY <1>12 DEF PgfaultUnmap
  <2>2. \A g \in Envs \ {e} : flt'[g] = flt[g]
    BY <1>1, <2>1 DEF FaultStep, FltTypes
  <2>3. QED BY <2>1, <2>2 DEF OnlyBy
<1>13. CASE PgfaultReturn(e)
  <2>1. \/ flt' = [flt EXCEPT ![e] = NoFault]
        \/ flt' = [flt EXCEPT ![e] = [va |-> flt[e].outer, step |-> "return", outer |-> NoOne]]
        \/ flt' = [flt EXCEPT ![e] = [va |-> Stack, step |-> "check", outer |-> flt[e].va]]
    BY <1>1, <1>13 DEF PgfaultReturn, FltTypes
  <2>2. UNCHANGED <<pc, child, page>>
    BY <1>13 DEF PgfaultReturn
  <2>3. QED BY <1>1, <2>1, <2>2 DEF OnlyBy, FltTypes
<1>14. CASE ForkExofork(e)
  <2>1. \/ \E c \in Envs : /\ pc[c] = "unborn" /\ pc' = [pc EXCEPT ![e] = "ux", ![c] = "built"]
                           /\ child' = [child EXCEPT ![e] = c] /\ page' = [page EXCEPT ![e] = 1]
        \/ pc' = [pc EXCEPT ![e] = "run"] /\ UNCHANGED <<child, page>>
    BY <1>14 DEF ForkExofork, Exofork, Goto
  <2>2. UNCHANGED flt
    BY <1>14 DEF ForkExofork, Exofork
  <2>3. QED BY <1>1, <2>1, <2>2 DEF OnlyBy, CtlTypes
<1>15. CASE ForkExceptionStack(e)
  BY <1>1, <1>15 DEF ForkExceptionStack, Goto, At, OnlyBy, CtlTypes, FltTypes
<1>16. CASE ForkLoop(e)
  BY <1>1, <1>16 DEF ForkLoop, Goto, At, OnlyBy, CtlTypes, FltTypes
<1>17. CASE DuppageChild(e)
  BY <1>1, <1>17 DEF DuppageChild, Goto, At, OnlyBy, CtlTypes, FltTypes
<1>18. CASE DuppageParent(e)
  BY <1>1, <1>18 DEF DuppageParent, Goto, At, OnlyBy, CtlTypes, FltTypes
<1>19. CASE ForkFails(e)
  BY <1>1, <1>19 DEF ForkFails, Goto, Return, Event, OnlyBy, CtlTypes,
     FltTypes
<1>20. CASE ForkDone(e)
  BY <1>1, <1>20 DEF ForkDone, SetRunnable, Return, At, OnlyBy, CtlTypes,
     FltTypes
<1>21. CASE SpawnExofork(e)
  <2>1. \/ \E c \in Envs : /\ pc[c] = "unborn" /\ pc' = [pc EXCEPT ![e] = "sp_stack", ![c] = "built"]
                           /\ child' = [child EXCEPT ![e] = c] /\ page' = [page EXCEPT ![e] = 1]
        \/ pc' = [pc EXCEPT ![e] = "run"] /\ UNCHANGED <<child, page>>
    BY <1>21 DEF SpawnExofork, Exofork, Goto
  <2>2. UNCHANGED flt
    BY <1>21 DEF SpawnExofork, Exofork
  <2>3. QED BY <1>1, <2>1, <2>2 DEF OnlyBy, CtlTypes
<1>22. CASE InitStackAlloc(e)
  BY <1>1, <1>22 DEF InitStackAlloc, Goto, At, OnlyBy, CtlTypes, FltTypes
<1>23. CASE InitStackMap(e)
  BY <1>1, <1>23 DEF InitStackMap, Goto, At, OnlyBy, CtlTypes, FltTypes
<1>24. CASE InitStackUnmap(e)
  BY <1>1, <1>24 DEF InitStackUnmap, Goto, At, OnlyBy, CtlTypes, FltTypes
<1>25. CASE InitStackFails(e)
  BY <1>1, <1>25 DEF InitStackFails, Goto, Return, Event, OnlyBy, CtlTypes,
     FltTypes
<1>26. CASE MapSegmentAlloc(e)
  BY <1>1, <1>26 DEF MapSegmentAlloc, Goto, At, OnlyBy, CtlTypes, FltTypes
<1>27. CASE MapSegmentRead(e)
  BY <1>1, <1>27 DEF MapSegmentRead, Goto, At, OnlyBy, CtlTypes, FltTypes
<1>28. CASE MapSegmentMap(e)
  BY <1>1, <1>28 DEF MapSegmentMap, Goto, At, OnlyBy, CtlTypes, FltTypes
<1>29. CASE MapSegmentUnmap(e)
  BY <1>1, <1>29 DEF MapSegmentUnmap, Goto, At, OnlyBy, CtlTypes, FltTypes
<1>30. CASE MapSegmentBlank(e)
  BY <1>1, <1>30 DEF MapSegmentBlank, Goto, At, OnlyBy, CtlTypes, FltTypes
<1>31. CASE SpawnFails(e)
  BY <1>1, <1>31 DEF SpawnFails, Return, Event, OnlyBy, CtlTypes, FltTypes
<1>32. CASE CopySharedPages(e)
  BY <1>1, <1>32 DEF CopySharedPages, Goto, At, OnlyBy, CtlTypes, FltTypes
<1>33. CASE SpawnPanics(e)
  BY <1>1, <1>33 DEF SpawnPanics, Panic, Goto, Return, Event, OnlyBy,
     CtlTypes, FltTypes
<1>34. CASE SpawnDone(e)
  BY <1>1, <1>34 DEF SpawnDone, SetRunnable, Return, At, OnlyBy, CtlTypes,
     FltTypes
<1>35. CASE Destroyed(e)
  BY <1>1, <1>35 DEF Destroyed, Event, Gone, OnlyBy, CtlTypes, FltTypes
<1>36. QED
  BY <1>2, <1>3, <1>4, <1>5, <1>6, <1>7, <1>8, <1>9, <1>10, <1>11, <1>12,
     <1>13, <1>14, <1>15, <1>16, <1>17, <1>18, <1>19, <1>20, <1>21, <1>22,
     <1>23, <1>24, <1>25, <1>26, <1>27, <1>28, <1>29, <1>30, <1>31, <1>32,
     <1>33, <1>34, <1>35 DEF StepOf, Program, Handler, ForkStep, SpawnStep

Onward(a) ==
  /\ flt[a].step = "unmap" => flt'[a] = flt[a] \/ pt'[a]["pftemp"].fr = NoOne
  /\ pc[a] \in {"sp_stackunmap", "sp_segunmap"} =>
       \/ pc'[a] = pc[a] /\ child'[a] = child[a]
       \/ pt'[a]["utemp"].fr = NoOne
       \/ pc'[a] = "panic" /\ child'[a] = NoOne
  /\ pc[a] = "panic" => pc'[a] = "panic" \/ pt'[a]["utemp"].fr = NoOne
  /\ pc[a] = "remap" => \/ pc'[a] = "remap" /\ child'[a] = child[a] /\ page'[a] = page[a]
                        \/ child'[a] = NoOne
                        \/ DuppageParent(a)

LEMMA OnwardActor ==
  ASSUME CowInv, NEW e \in Envs, StepOf(e)
  PROVE  Onward(e)
<1>1. CtlTypes /\ MemTypes
  BY DEF CowInv, TypeInv
<1>2. ASSUME NEW va \in VPages, Fault(e, va) PROVE Onward(e)
  <2>1. flt[e] = NoFault /\ UNCHANGED <<pc, child, page>>
    BY <1>2 DEF Fault, MayStore
  <2>2. QED BY <2>1, NothingIs DEF Onward
<1>3. ASSUME NEW va \in VPages, FaultKills(e, va) PROVE Onward(e)
  <2>1. pt' = [pt EXCEPT ![e] = NoPt] /\ child' = [child EXCEPT ![e] = NoOne]
    BY <1>3 DEF FaultKills, Gone
  <2>2. QED BY <1>1, <2>1, SpotsAre, NothingIs DEF Onward, CtlTypes, MemTypes
<1>4. ASSUME NEW va \in VPages, NEW x \in Values, Store(e, va, x) PROVE Onward(e)
  <2>1. flt[e] = NoFault /\ UNCHANGED <<pc, child, page>>
    BY <1>4 DEF Store, MayStore
  <2>2. QED BY <2>1, NothingIs DEF Onward
<1>5. CASE SetPgfaultHandler(e)
  <2>1. flt[e] = NoFault /\ pc[e] = "run"
    BY <1>5 DEF SetPgfaultHandler, At
  <2>2. QED BY <2>1, NothingIs DEF Onward
<1>6. CASE SetPgfaultHandlerPanics(e)
  <2>1. flt[e] = NoFault /\ pc[e] = "run"
    BY <1>6 DEF SetPgfaultHandlerPanics, At
  <2>2. QED BY <2>1, NothingIs DEF Onward
<1>7. CASE Spawn(e)
  <2>1. flt[e] = NoFault /\ pc[e] = "run"
    BY <1>7 DEF Spawn, At
  <2>2. QED BY <2>1, NothingIs DEF Onward
<1>8. CASE PgfaultAlloc(e)
  <2>1. flt[e].step = "check" /\ UNCHANGED <<pc, child, page>>
    BY <1>8 DEF PgfaultAlloc, InFault
  <2>2. QED BY <2>1 DEF Onward
<1>9. CASE PgfaultPanics(e)
  <2>1. flt[e].step = "check" /\ pc' = [pc EXCEPT ![e] = "panic"] /\ child' = [child EXCEPT ![e] = NoOne]
    BY <1>9 DEF PgfaultPanics, InFault, Panic, Goto, Return
  <2>2. QED BY <1>1, <2>1 DEF Onward, CtlTypes
<1>10. CASE PgfaultCopy(e)
  <2>1. flt[e].step = "copy" /\ UNCHANGED <<pc, child, page>>
    BY <1>10 DEF PgfaultCopy, InFault
  <2>2. QED BY <2>1 DEF Onward
<1>11. CASE PgfaultMap(e)
  <2>1. flt[e].step = "map" /\ UNCHANGED <<pc, child, page>>
    BY <1>11 DEF PgfaultMap, InFault
  <2>2. QED BY <2>1 DEF Onward
<1>12. CASE PgfaultUnmap(e)
  <2>1. Entry(e, "pftemp", NoPte) /\ UNCHANGED <<pc, child, page>> /\ pc[e] # "panic"
    BY <1>12, Entries DEF PgfaultUnmap, InFault
  <2>2. pt'[e]["pftemp"].fr = NoOne
    BY <2>1, SpotsAre, NothingIs DEF Entry
  <2>3. QED BY <2>1, <2>2, NothingIs DEF Onward
<1>13. CASE PgfaultReturn(e)
  <2>1. flt[e].step = "return" /\ UNCHANGED <<pc, child, page>>
    BY <1>13 DEF PgfaultReturn, InFault
  <2>2. QED BY <2>1 DEF Onward
<1>14. CASE ForkExofork(e)
  <2>1. flt[e] = NoFault /\ pc[e] = "exofork"
    BY <1>14 DEF ForkExofork, Exofork, At
  <2>2. QED BY <2>1, NothingIs DEF Onward
<1>15. CASE ForkExceptionStack(e)
  <2>1. flt[e] = NoFault /\ pc[e] = "ux"
    BY <1>15 DEF ForkExceptionStack, At
  <2>2. QED BY <2>1, NothingIs DEF Onward
<1>16. CASE ForkLoop(e)
  <2>1. flt[e] = NoFault /\ pc[e] = "dup"
    BY <1>16 DEF ForkLoop, At
  <2>2. QED BY <2>1, NothingIs DEF Onward
<1>17. CASE DuppageChild(e)
  <2>1. flt[e] = NoFault /\ pc[e] = "dup"
    BY <1>17 DEF DuppageChild, At
  <2>2. QED BY <2>1, NothingIs DEF Onward
<1>18. CASE DuppageParent(e)
  <2>1. pc[e] = "remap" /\ flt[e].step # "unmap"
    BY <1>18, NothingIs DEF DuppageParent, At
  <2>2. QED BY <1>18, <2>1 DEF Onward
<1>19. CASE ForkFails(e)
  BY <1>1, <1>19, NothingIs DEF ForkFails, Goto, Return, Onward, CtlTypes
<1>20. CASE ForkDone(e)
  <2>1. flt[e] = NoFault /\ pc[e] = "start"
    BY <1>20 DEF ForkDone, SetRunnable, At
  <2>2. QED BY <2>1, NothingIs DEF Onward
<1>21. CASE SpawnExofork(e)
  <2>1. flt[e] = NoFault /\ pc[e] = "sp_exofork"
    BY <1>21 DEF SpawnExofork, Exofork, At
  <2>2. QED BY <2>1, NothingIs DEF Onward
<1>22. CASE InitStackAlloc(e)
  <2>1. flt[e] = NoFault /\ pc[e] = "sp_stack"
    BY <1>22 DEF InitStackAlloc, At
  <2>2. QED BY <2>1, NothingIs DEF Onward
<1>23. CASE InitStackMap(e)
  <2>1. flt[e] = NoFault /\ pc[e] = "sp_stackmap"
    BY <1>23 DEF InitStackMap, At
  <2>2. QED BY <2>1, NothingIs DEF Onward
<1>24. CASE InitStackUnmap(e)
  <2>1. Entry(e, "utemp", NoPte) /\ flt[e] = NoFault /\ pc[e] \in {"sp_stackunmap", "sp_segunmap"}
    BY <1>24, Entries DEF InitStackUnmap, At
  <2>2. pt'[e]["utemp"].fr = NoOne
    BY <2>1, SpotsAre, NothingIs DEF Entry
  <2>3. QED BY <2>1, <2>2, NothingIs DEF Onward
<1>25. CASE InitStackFails(e)
  <2>1. flt[e] = NoFault /\ pc[e] \in {"sp_stack", "sp_stackmap"}
    BY <1>25 DEF InitStackFails
  <2>2. QED BY <2>1, NothingIs DEF Onward
<1>26. CASE MapSegmentAlloc(e)
  <2>1. flt[e] = NoFault /\ pc[e] = "sp_seg"
    BY <1>26 DEF MapSegmentAlloc, At
  <2>2. QED BY <2>1, NothingIs DEF Onward
<1>27. CASE MapSegmentRead(e)
  <2>1. flt[e] = NoFault /\ pc[e] = "sp_read"
    BY <1>27 DEF MapSegmentRead, At
  <2>2. QED BY <2>1, NothingIs DEF Onward
<1>28. CASE MapSegmentMap(e)
  <2>1. flt[e] = NoFault /\ pc[e] = "sp_segmap"
    BY <1>28 DEF MapSegmentMap, At
  <2>2. QED BY <2>1, NothingIs DEF Onward
<1>29. CASE MapSegmentUnmap(e)
  <2>1. Entry(e, "utemp", NoPte) /\ flt[e] = NoFault /\ pc[e] \in {"sp_stackunmap", "sp_segunmap"}
    BY <1>29, Entries DEF MapSegmentUnmap, At
  <2>2. pt'[e]["utemp"].fr = NoOne
    BY <2>1, SpotsAre, NothingIs DEF Entry
  <2>3. QED BY <2>1, <2>2, NothingIs DEF Onward
<1>30. CASE MapSegmentBlank(e)
  <2>1. flt[e] = NoFault /\ pc[e] = "sp_seg"
    BY <1>30 DEF MapSegmentBlank, At
  <2>2. QED BY <2>1, NothingIs DEF Onward
<1>31. CASE SpawnFails(e)
  <2>1. flt[e] = NoFault /\ pc[e] \in {"sp_seg", "sp_read"}
    BY <1>31 DEF SpawnFails
  <2>2. QED BY <2>1, NothingIs DEF Onward
<1>32. CASE CopySharedPages(e)
  <2>1. flt[e] = NoFault /\ pc[e] = "sp_share"
    BY <1>32 DEF CopySharedPages, At
  <2>2. QED BY <2>1, NothingIs DEF Onward
<1>33. CASE SpawnPanics(e)
  <2>1. flt[e] = NoFault /\ pc[e] \in {"sp_segmap", "sp_share"}
    BY <1>33 DEF SpawnPanics
  <2>2. QED BY <2>1, NothingIs DEF Onward
<1>34. CASE SpawnDone(e)
  <2>1. flt[e] = NoFault /\ pc[e] = "sp_start"
    BY <1>34 DEF SpawnDone, SetRunnable, At
  <2>2. QED BY <2>1, NothingIs DEF Onward
<1>35. CASE Destroyed(e)
  <2>1. pt' = [pt EXCEPT ![e] = NoPt] /\ child' = [child EXCEPT ![e] = NoOne]
    BY <1>35 DEF Destroyed, Gone
  <2>2. QED BY <1>1, <2>1, SpotsAre, NothingIs DEF Onward, CtlTypes, MemTypes
<1>36. QED
  BY <1>2, <1>3, <1>4, <1>5, <1>6, <1>7, <1>8, <1>9, <1>10, <1>11, <1>12,
     <1>13, <1>14, <1>15, <1>16, <1>17, <1>18, <1>19, <1>20, <1>21, <1>22,
     <1>23, <1>24, <1>25, <1>26, <1>27, <1>28, <1>29, <1>30, <1>31, <1>32,
     <1>33, <1>34, <1>35 DEF StepOf, Program, Handler, ForkStep, SpawnStep

-----------------------------------------------------------------------------
(* Control that lasts: who is lost stays lost, a page on its way stays so     *)
(* while it has two mappings, a child that does not run hides its pages.      *)

LEMMA LostStays ==
  ASSUME CowInv, NEW a \in Envs, OnlyBy(a), NEW f \in Envs, Lost(f), pc[a] # "built"
  PROVE  Lost(f)'
<1>1. pc[f] = "built" /\ f # a /\ \A g \in Envs : child[g] # f
  BY DEF Lost
<1>2. pc'[f] = "built"
  BY <1>1 DEF OnlyBy
<1>3. \A g \in Envs : child'[g] # f
  BY <1>1, NothingIs DEF OnlyBy
<1>4. QED BY <1>2, <1>3 DEF Lost

\* A child left by its maker is lost.
LEMMA LeftIsLost ==
  ASSUME CowInv, NEW a \in Envs, OnlyBy(a), NEW f \in Envs, child[a] = f, child'[a] = NoOne, pc'[f] = "built"
  PROVE  Lost(f)'
<1>1. \A g \in Envs \ {a} : child[g] # f
  BY NothingIs DEF CowInv, LifeInv, ChildInv
<1>2. \A g \in Envs : child'[g] # f
  BY <1>1, NothingIs DEF OnlyBy
<1>3. QED BY <1>2 DEF Lost

LEMMA PassingStays ==
  ASSUME CowInv, NEW a \in Envs, OnlyBy(a), Onward(a), pc[a] # "built",
         NEW e \in Envs, NEW f \in Envs, NEW s \in Special, NEW w \in Vas,
         Passing(e, s, f, w), pt'[e][s].fr # NoOne
  PROVE  Passing(e, s, f, w)'
<1>1. LifeInv /\ w \in VPages
  BY DEF CowInv, Passing
<1>2. CASE s = "pftemp" /\ f = e /\ flt[e].step = "unmap" /\ w = flt[e].va
  <2>1. flt'[e] = flt[e]
    BY <1>2 DEF OnlyBy, Onward
  <2>2. QED BY <1>1, <1>2, <2>1 DEF Passing
<1>3. CASE s = "utemp" /\ f = child[e] /\ pc[e] \in {"sp_stackunmap", "sp_segunmap"}
  <2>1. pc[f] = "built"
    BY <1>1, <1>3, NothingIs DEF LifeInv, ChildInv
  <2>2. CASE e # a
    <3>1. pc'[e] = pc[e] /\ child'[e] = child[e]
      BY <1>1, <1>3, <2>2, NothingIs, Here DEF OnlyBy, Forking, Spawning
    <3>2. QED BY <1>1, <1>3, <3>1 DEF Passing
  <2>3. CASE e = a
    <3>1. CASE pc'[e] = pc[e] /\ child'[e] = child[e]
      BY <1>1, <1>3, <3>1 DEF Passing
    <3>2. CASE pc'[e] = "panic" /\ child'[e] = NoOne
      <4>1. pc'[f] = "built"
        BY <1>3, <2>1, <2>3 DEF OnlyBy
      <4>2. Lost(f)'
        BY <1>3, <2>3, <3>2, <4>1, LeftIsLost
      <4>3. QED BY <1>1, <1>3, <3>2, <4>2 DEF Passing
    <3>3. QED BY <1>3, <2>3, <3>1, <3>2 DEF Onward
  <2>4. QED BY <2>2, <2>3
<1>4. CASE s = "utemp" /\ pc[e] = "panic" /\ Lost(f)
  <2>1. pc'[e] = "panic"
    <3>1. CASE e # a
      <4>1. ~(e = child[a] /\ pc[a] \in {"start", "sp_start", "sp_seg", "sp_read"})
        BY <1>4, Here DEF Forking, Spawning
      <4>2. QED BY <1>4, <3>1, <4>1 DEF OnlyBy
    <3>2. CASE e = a
      BY <1>4, <3>2 DEF Onward
    <3>3. QED BY <3>1, <3>2
  <2>2. Lost(f)'
    BY <1>4, LostStays
  <2>3. QED BY <1>1, <1>4, <2>1, <2>2 DEF Passing
<1>5. QED BY <1>2, <1>3, <1>4 DEF Passing

LEMMA HiddenStays ==
  ASSUME CowInv, NEW a \in Envs, OnlyBy(a), Onward(a), pc[a] # "built",
         NEW e \in Envs, NEW f \in Envs, NEW v \in VPages, Hidden(e, f, v),
         DuppageParent(a) => ~(e = a /\ v = Va(a))
  PROVE  Hidden(e, f, v)'
<1>1. pc[f] = "built" /\ f # a
  BY DEF Hidden
<1>2. CASE Lost(f)
  BY <1>2, LostStays DEF Lost, Hidden
<1>3. CASE child[e] = f /\ pc[e] = "remap" /\ Va(e) = v
  <2>1. \A g \in Envs \ {e} : child[g] # f
    BY <1>3, <1>1 DEF Hidden, CowInv, LifeInv, ChildInv
  <2>2. pc'[f] = "built"
    <3>1. ~(f = child[a] /\ pc[a] \in {"start", "sp_start", "sp_seg", "sp_read"})
      BY <1>3, <2>1
    <3>2. QED BY <1>1, <3>1 DEF OnlyBy
  <2>3. \A g \in Envs : child'[g] = f => g = e
    BY <1>1, <2>1, NothingIs DEF OnlyBy
  <2>4. child'[e] = f => pc'[e] = "remap" /\ page'[e] = page[e]
    <3>1. CASE e # a
      BY <1>3, <3>1, Here DEF OnlyBy, Forking, Spawning
    <3>2. CASE e = a
      BY <1>3, <3>2, NothingIs DEF Onward
    <3>3. QED BY <3>1, <3>2
  <2>5. QED BY <1>3, <2>2, <2>3, <2>4 DEF Hidden, Va
<1>4. QED BY <1>1, <1>2, <1>3 DEF Hidden, Lost

-----------------------------------------------------------------------------
(* Frames: a step that maps a new page, or none. *)

Less(c, va) ==
  \A g \in Envs, w \in Vas :
     \/ pt'[g][w] = pt[g][w] \/ pt'[g][w] = NoPte
     \/ g = c /\ w = va /\ pt'[g][w].fr \in FreeFrames

\* Two that have a frame in common had it before.
LEMMA LessCommon ==
  ASSUME NEW c, NEW va, Less(c, va),
         NEW e \in Envs, NEW f \in Envs, NEW v \in Vas, NEW w \in Vas,
         pt'[e][v].fr # NoOne, pt'[f][w].fr = pt'[e][v].fr, ~(e = f /\ v = w)
  PROVE  pt'[e][v] = pt[e][v] /\ pt'[f][w] = pt[f][w]
<1>1. pt'[e][v] # NoPte /\ pt'[f][w] # NoPte
  BY NothingIs
<1>2. \A n \in FreeFrames : pt[e][v].fr # n /\ pt[f][w].fr # n
  BY FreeIs
<1>3. QED BY <1>1, <1>2 DEF Less

LEMMA LessKeeps ==
  ASSUME CowInv, NEW a \in Envs, OnlyBy(a), Onward(a), pc[a] # "built", ~DuppageParent(a),
         PteInv', NEW c, NEW va, Less(c, va)
  PROVE  OwnInv' /\ PlaceInv' /\ WriteInv'
<1>1. OwnInv /\ PlaceInv /\ WriteInv
  BY DEF CowInv
<1>2. OwnInv'
  <2> SUFFICES ASSUME NEW e \in Envs, NEW f \in Envs, NEW s \in Special, NEW w \in Vas,
                      pt'[e][s].fr # NoOne, pt'[f][w].fr = pt'[e][s].fr, ~(f = e /\ w = s)
               PROVE  Passing(e, s, f, w)'
    BY DEF OwnInv, Passing, Lost
  <2>1. s \in Vas
    BY SpotsAre
  <2>2. pt'[e][s] = pt[e][s] /\ pt'[f][w] = pt[f][w]
    BY <2>1, LessCommon
  <2>3. Passing(e, s, f, w)
    BY <1>1, <2>2 DEF OwnInv
  <2>4. QED BY <2>3, PassingStays
<1>3. PlaceInv'
  <2> SUFFICES ASSUME NEW e \in Envs, NEW f \in Envs, NEW v \in VPages, NEW w \in VPages,
                      pt'[e][v].fr # NoOne, pt'[f][w].fr = pt'[e][v].fr, ~(e = f /\ v = w)
               PROVE  v = w
    BY DEF PlaceInv
  <2>1. pt'[e][v] = pt[e][v] /\ pt'[f][w] = pt[f][w]
    BY LessCommon, SpotsAre
  <2>2. QED BY <1>1, <2>1 DEF PlaceInv
<1>4. WriteInv'
  <2> SUFFICES ASSUME NEW e \in Envs, NEW f \in Envs, NEW v \in VPages,
                      e # f, "W" \in pt'[e][v].perm, pt'[f][v].fr = pt'[e][v].fr
               PROVE  \/ Lends(pt'[e][v], pt'[f][v])
                      \/ Hidden(e, f, v)'
    BY DEF WriteInv, Hidden, Va
  <2>1. pt'[e][v].fr # NoOne
    BY SpotsAre DEF PteInv
  <2>2. pt'[e][v] = pt[e][v] /\ pt'[f][v] = pt[f][v]
    BY <2>1, LessCommon, SpotsAre
  <2>3. CASE Hidden(e, f, v)
    BY <2>3, HiddenStays
  <2>4. QED BY <1>1, <2>2, <2>3 DEF WriteInv
<1>5. QED BY <1>2, <1>3, <1>4

-----------------------------------------------------------------------------
(* A page that only e has, at PFTEMP or UTEMP, goes to its place.          *)

Sole(e, s) == \A f \in Envs, w \in Vas : pt[f][w].fr = pt[e][s].fr => f = e /\ w = s

LEMMA SoleMapKeeps ==
  ASSUME CowInv, NEW a \in Envs, OnlyBy(a), Onward(a), pc[a] # "built", ~DuppageParent(a), PteInv',
         NEW t \in Special, NEW c \in Envs, NEW u \in VPages, NEW perm,
         MapEntry(a, t, c, u, perm), Sole(a, t), Passing(a, t, c, u)'
  PROVE  OwnInv' /\ PlaceInv' /\ WriteInv'
<1>1. OwnInv /\ PlaceInv /\ WriteInv
  BY DEF CowInv
<1>2. /\ \A g \in Envs, w \in Vas : ~(g = c /\ w = u) => pt'[g][w] = pt[g][w]
      /\ pt'[c][u].fr = pt[a][t].fr
  BY SpotsAre DEF MapEntry, Entry, Pte
<1>3. \A g \in Envs, w \in Vas : pt'[g][w].fr = pt'[c][u].fr => (g = c /\ w = u) \/ (g = a /\ w = t)
  BY <1>2 DEF Sole
<1>4. OwnInv'
  <2> SUFFICES ASSUME NEW e \in Envs, NEW f \in Envs, NEW s \in Special, NEW w \in Vas,
                      pt'[e][s].fr # NoOne, pt'[f][w].fr = pt'[e][s].fr, ~(f = e /\ w = s)
               PROVE  Passing(e, s, f, w)'
    BY DEF OwnInv, Passing, Lost
  <2>1. s # u /\ s \in Vas
    BY SpotsAre
  <2>2. CASE f = c /\ w = u
    BY <1>3, <2>1, <2>2
  <2>3. CASE ~(f = c /\ w = u)
    <3>1. pt'[e][s] = pt[e][s] /\ pt'[f][w] = pt[f][w]
      BY <1>2, <2>1, <2>3
    <3>2. Passing(e, s, f, w)
      BY <1>1, <3>1 DEF OwnInv
    <3>3. QED BY <3>2, PassingStays
  <2>4. QED BY <2>2, <2>3
<1>5. PlaceInv'
  <2> SUFFICES ASSUME NEW e \in Envs, NEW f \in Envs, NEW v \in VPages, NEW w \in VPages,
                      pt'[e][v].fr # NoOne, pt'[f][w].fr = pt'[e][v].fr
               PROVE  v = w
    BY DEF PlaceInv
  <2>1. v # t /\ w # t /\ v \in Vas /\ w \in Vas
    BY SpotsAre
  <2>2. CASE pt'[e][v].fr = pt'[c][u].fr
    BY <1>3, <2>1, <2>2
  <2>3. CASE pt'[e][v].fr # pt'[c][u].fr
    <3>1. pt'[e][v] = pt[e][v] /\ pt'[f][w] = pt[f][w]
      BY <1>2, <2>1, <2>3
    <3>2. QED BY <1>1, <3>1 DEF PlaceInv
  <2>4. QED BY <2>2, <2>3
<1>6. WriteInv'
  <2> SUFFICES ASSUME NEW e \in Envs, NEW f \in Envs, NEW v \in VPages,
                      e # f, "W" \in pt'[e][v].perm, pt'[f][v].fr = pt'[e][v].fr
               PROVE  \/ Lends(pt'[e][v], pt'[f][v])
                      \/ Hidden(e, f, v)'
    BY DEF WriteInv, Hidden, Va
  <2>1. v # t /\ v \in Vas
    BY SpotsAre
  <2>2. pt'[e][v].fr # pt'[c][u].fr
    BY <1>3, <2>1
  <2>3. pt'[e][v] = pt[e][v] /\ pt'[f][v] = pt[f][v]
    BY <1>2, <2>1, <2>2
  <2>4. CASE Hidden(e, f, v)
    BY <2>4, HiddenStays
  <2>5. QED BY <1>1, <2>3, <2>4 DEF WriteInv
<1>7. QED BY <1>4, <1>5, <1>6

-----------------------------------------------------------------------------
(* A page that a has goes to the same place of another, or again to its own. *)

\* No one's special page is a page of one that runs and handles no fault.
LEMMA NotSpecial ==
  ASSUME CowInv, NEW a \in Envs, flt[a] = NoFault, pc[a] # "built", NEW v \in VPages,
         NEW e \in Envs, NEW s \in Special, pt[e][s].fr # NoOne
  PROVE  pt[a][v].fr # pt[e][s].fr
<1> SUFFICES ASSUME pt[a][v].fr = pt[e][s].fr PROVE FALSE
  OBVIOUS
<1>1. v \in Vas /\ v # s
  BY SpotsAre
<1>2. Passing(e, s, a, v)
  BY <1>1 DEF CowInv, OwnInv
<1>3. child[e] # NoOne => pc[child[e]] = "built"
  BY DEF CowInv, LifeInv, ChildInv
<1>4. QED BY <1>2, <1>3, NothingIs DEF Passing, Lost

LEMMA PageMapKeeps ==
  ASSUME CowInv, NEW a \in Envs, OnlyBy(a), Onward(a), pc[a] # "built", flt[a] = NoFault,
         NEW c \in Envs, NEW u \in VPages, NEW perm, MapEntry(a, u, c, u, perm)
  PROVE  OwnInv' /\ PlaceInv'
<1>1. OwnInv /\ PlaceInv
  BY DEF CowInv
<1>2. /\ \A g \in Envs, w \in Vas : ~(g = c /\ w = u) => pt'[g][w] = pt[g][w]
      /\ pt'[c][u].fr = pt[a][u].fr /\ pt[a][u].fr # NoOne
  BY SpotsAre DEF MapEntry, Entry, Pte
<1>3. OwnInv'
  <2> SUFFICES ASSUME NEW e \in Envs, NEW f \in Envs, NEW s \in Special, NEW w \in Vas,
                      pt'[e][s].fr # NoOne, pt'[f][w].fr = pt'[e][s].fr, ~(f = e /\ w = s)
               PROVE  Passing(e, s, f, w)'
    BY DEF OwnInv, Passing, Lost
  <2>1. s # u /\ s \in Vas
    BY SpotsAre
  <2>2. pt'[e][s] = pt[e][s]
    BY <1>2, <2>1
  <2>3. ~(f = c /\ w = u)
    BY <1>2, <2>2, NotSpecial
  <2>4. Passing(e, s, f, w)
    BY <1>1, <1>2, <2>2, <2>3 DEF OwnInv
  <2>5. QED BY <2>4, PassingStays
<1>4. PlaceInv'
  <2> SUFFICES ASSUME NEW e \in Envs, NEW f \in Envs, NEW v \in VPages, NEW w \in VPages,
                      pt'[e][v].fr # NoOne, pt'[f][w].fr = pt'[e][v].fr
               PROVE  v = w
    BY DEF PlaceInv
  <2>1. \A g \in Envs, x \in VPages : pt'[g][x].fr = pt[g][x].fr \/ (x = u /\ pt'[g][x].fr = pt[a][x].fr)
    BY <1>2, SpotsAre
  <2>2. PICK g \in Envs : pt[g][v].fr = pt'[e][v].fr
    BY <2>1
  <2>3. PICK h \in Envs : pt[h][w].fr = pt'[f][w].fr
    BY <2>1
  <2>4. QED BY <1>1, <2>2, <2>3 DEF PlaceInv
<1>5. QED BY <1>3, <1>4

-----------------------------------------------------------------------------
(* Which entries a step of a changes, and what SetPgfaultHandler asks.     *)

Touch(a) ==
  \A g \in Envs, w \in Vas :
     \/ pt'[g][w] = pt[g][w]
     \/ /\ g = a \/ (g = child[a] /\ pc[a] \in Making)
        /\ w = Shared => \/ pt'[g][w] = NoPte
                         \/ pt'[g][w].fr \in FreeFrames
                         \/ pt'[g][w].fr = pt[a][Shared].fr
                         \/ pt'[g][w].fr = pt[a]["pftemp"].fr

LEMMA TouchActor ==
  ASSUME CowInv, NEW e \in Envs, StepOf(e)
  PROVE  Touch(e)
<1>1. MemTypes
  BY DEF CowInv, TypeInv
<1>2. ASSUME NEW va \in VPages, Fault(e, va) PROVE Touch(e)
  <2>1. UNCHANGED pt
    BY <1>2 DEF Fault
  <2>2. QED BY <2>1 DEF Touch
<1>3. ASSUME NEW va \in VPages, FaultKills(e, va) PROVE Touch(e)
  <2>1. pt' = [pt EXCEPT ![e] = NoPt]
    BY <1>3 DEF FaultKills, Gone
  <2>2. QED BY <1>1, <2>1, ClearIs, NothingIs DEF Touch, MemTypes
<1>4. ASSUME NEW va \in VPages, NEW x \in Values, Store(e, va, x) PROVE Touch(e)
  <2>1. UNCHANGED pt
    BY <1>4 DEF Store
  <2>2. QED BY <2>1 DEF Touch
<1>5. CASE SetPgfaultHandler(e)
  <2>1. IF upcall[e] THEN UNCHANGED <<pt, upcall>> ELSE NewEntry(e, "uxstack", {"W"})
    BY <1>5, Entries
  <2>2. QED BY <2>1, SpotsAre DEF Touch, Entry, NewEntry, MapEntry, Pte, Shared
<1>6. CASE SetPgfaultHandlerPanics(e)
  <2>1. UNCHANGED pt
    BY <1>6 DEF SetPgfaultHandlerPanics, Panic
  <2>2. QED BY <2>1 DEF Touch
<1>7. CASE Spawn(e)
  <2>1. UNCHANGED pt
    BY <1>7 DEF Spawn
  <2>2. QED BY <2>1 DEF Touch
<1>8. CASE PgfaultAlloc(e)
  <2>1. NewEntry(e, "pftemp", {"W"})
    BY <1>8, Entries
  <2>2. QED BY <2>1, SpotsAre DEF Touch, Entry, NewEntry, MapEntry, Pte, Shared
<1>9. CASE PgfaultPanics(e)
  <2>1. UNCHANGED pt
    BY <1>9 DEF PgfaultPanics, Panic
  <2>2. QED BY <2>1 DEF Touch
<1>10. CASE PgfaultCopy(e)
  <2>1. UNCHANGED pt
    BY <1>10 DEF PgfaultCopy
  <2>2. QED BY <2>1 DEF Touch
<1>11. CASE PgfaultMap(e)
  <2>1. MapEntry(e, "pftemp", e, flt[e].va, {"W"})
    BY <1>11, Entries
  <2>2. QED BY <2>1, SpotsAre DEF Touch, Entry, NewEntry, MapEntry, Pte, Shared
<1>12. CASE PgfaultUnmap(e)
  <2>1. Entry(e, "pftemp", NoPte)
    BY <1>12, Entries
  <2>2. QED BY <2>1, SpotsAre DEF Touch, Entry, NewEntry, MapEntry, Pte, Shared
<1>13. CASE PgfaultReturn(e)
  <2>1. UNCHANGED pt
    BY <1>13 DEF PgfaultReturn
  <2>2. QED BY <2>1 DEF Touch
<1>14. CASE ForkExofork(e)
  <2>1. UNCHANGED pt
    BY <1>14 DEF ForkExofork, Exofork
  <2>2. QED BY <2>1 DEF Touch
<1>15. CASE ForkExceptionStack(e)
  <2>1. pc[e] \in Making
    BY <1>1, <1>15 DEF ForkExceptionStack, At, Making, Forking, Spawning
  <2>2. NewEntry(child[e], "uxstack", {"W"})
    BY <1>15, Entries
  <2>3. QED BY <2>1, <2>2, SpotsAre DEF Touch, Entry, NewEntry, MapEntry, Pte, Shared, Stack,
      Bss
<1>16. CASE ForkLoop(e)
  <2>1. UNCHANGED pt
    BY <1>16 DEF ForkLoop
  <2>2. QED BY <2>1 DEF Touch
<1>17. CASE DuppageChild(e)
  <2>1. pc[e] \in Making
    BY <1>1, <1>17 DEF DuppageChild, At, Making, Forking, Spawning
  <2>2. \/ Writable(e) /\ MapEntry(e, Va(e), child[e], Va(e), {"COW"})
        \/ MapEntry(e, Va(e), child[e], Va(e), {})
    BY <1>17, Entries
  <2>3. QED BY <2>1, <2>2, SpotsAre DEF Touch, Entry, NewEntry, MapEntry, Pte, Shared, Stack,
      Bss
<1>18. CASE DuppageParent(e)
  <2>1. pc[e] \in Making
    BY <1>1, <1>18 DEF DuppageParent, At, Making, Forking, Spawning
  <2>2. MapEntry(e, Va(e), e, Va(e), {"COW"})
    BY <1>18, Entries
  <2>3. QED BY <2>1, <2>2, SpotsAre DEF Touch, Entry, NewEntry, MapEntry, Pte, Shared, Stack,
      Bss
<1>19. CASE ForkFails(e)
  <2>1. UNCHANGED pt
    BY <1>19 DEF ForkFails
  <2>2. QED BY <2>1 DEF Touch
<1>20. CASE ForkDone(e)
  <2>1. UNCHANGED pt
    BY <1>20 DEF ForkDone, SetRunnable
  <2>2. QED BY <2>1 DEF Touch
<1>21. CASE SpawnExofork(e)
  <2>1. UNCHANGED pt
    BY <1>21 DEF SpawnExofork, Exofork
  <2>2. QED BY <2>1 DEF Touch
<1>22. CASE InitStackAlloc(e)
  <2>1. NewEntry(e, "utemp", {"W"})
    BY <1>22, Entries
  <2>2. QED BY <2>1, SpotsAre DEF Touch, Entry, NewEntry, MapEntry, Pte, Shared
<1>23. CASE InitStackMap(e)
  <2>1. pc[e] \in Making
    BY <1>1, <1>23 DEF InitStackMap, At, Making, Forking, Spawning
  <2>2. MapEntry(e, "utemp", child[e], Stack, {"W"})
    BY <1>23, Entries
  <2>3. QED BY <2>1, <2>2, SpotsAre DEF Touch, Entry, NewEntry, MapEntry, Pte, Shared, Stack,
      Bss
<1>24. CASE InitStackUnmap(e)
  <2>1. Entry(e, "utemp", NoPte)
    BY <1>24, Entries
  <2>2. QED BY <2>1, SpotsAre DEF Touch, Entry, NewEntry, MapEntry, Pte, Shared
<1>25. CASE InitStackFails(e)
  <2>1. UNCHANGED pt \/ Entry(e, "utemp", NoPte)
    BY <1>25, Entries
  <2>2. QED BY <2>1, SpotsAre DEF Touch, Entry, NewEntry, MapEntry, Pte, Shared
<1>26. CASE MapSegmentAlloc(e)
  <2>1. NewEntry(e, "utemp", {"W"})
    BY <1>26, Entries
  <2>2. QED BY <2>1, SpotsAre DEF Touch, Entry, NewEntry, MapEntry, Pte, Shared
<1>27. CASE MapSegmentRead(e)
  <2>1. UNCHANGED pt
    BY <1>27 DEF MapSegmentRead
  <2>2. QED BY <2>1 DEF Touch
<1>28. CASE MapSegmentMap(e)
  <2>1. pc[e] \in Making /\ Va(e) = "text"
    BY <1>1, <1>28, Here, VaIn DEF MapSegmentMap, At, Making, Forking, Spawning
  <2>2. MapEntry(e, "utemp", child[e], Va(e), {})
    BY <1>28, Entries
  <2>3. QED BY <2>1, <2>2, SpotsAre DEF Touch, Entry, NewEntry, MapEntry, Pte, Shared, Stack,
      Bss
<1>29. CASE MapSegmentUnmap(e)
  <2>1. Entry(e, "utemp", NoPte)
    BY <1>29, Entries
  <2>2. QED BY <2>1, SpotsAre DEF Touch, Entry, NewEntry, MapEntry, Pte, Shared
<1>30. CASE MapSegmentBlank(e)
  <2>1. pc[e] \in Making
    BY <1>1, <1>30 DEF MapSegmentBlank, At, Making, Forking, Spawning
  <2>2. NewEntry(child[e], Bss, {"W"})
    BY <1>30, Entries
  <2>3. QED BY <2>1, <2>2, SpotsAre DEF Touch, Entry, NewEntry, MapEntry, Pte, Shared, Stack,
      Bss
<1>31. CASE SpawnFails(e)
  <2>1. pt' = [pt EXCEPT ![child[e]] = NoPt] /\ pc[e] \in Making
    BY <1>31 DEF SpawnFails, Making, Spawning
  <2>2. QED BY <1>1, <2>1, NothingIs DEF Touch, MemTypes
<1>32. CASE CopySharedPages(e)
  <2>1. pc[e] \in Making
    BY <1>1, <1>32 DEF CopySharedPages, At, Making, Forking, Spawning
  <2>2. IF "SHARE" \in pt[e][Shared].perm
        THEN MapEntry(e, Shared, child[e], Shared, {"W", "SHARE"})
        ELSE UNCHANGED pt
    BY <1>32, Entries
  <2>3. QED BY <2>1, <2>2, SpotsAre DEF Touch, Entry, NewEntry, MapEntry, Pte, Shared, Stack,
      Bss
<1>33. CASE SpawnPanics(e)
  <2>1. UNCHANGED pt
    BY <1>33 DEF SpawnPanics, Panic
  <2>2. QED BY <2>1 DEF Touch
<1>34. CASE SpawnDone(e)
  <2>1. UNCHANGED pt
    BY <1>34 DEF SpawnDone, SetRunnable
  <2>2. QED BY <2>1 DEF Touch
<1>35. CASE Destroyed(e)
  <2>1. pt' = [pt EXCEPT ![e] = NoPt]
    BY <1>35 DEF Destroyed, Gone
  <2>2. QED BY <1>1, <2>1, ClearIs, NothingIs DEF Touch, MemTypes
<1>36. QED
  BY <1>2, <1>3, <1>4, <1>5, <1>6, <1>7, <1>8, <1>9, <1>10, <1>11, <1>12,
     <1>13, <1>14, <1>15, <1>16, <1>17, <1>18, <1>19, <1>20, <1>21, <1>22,
     <1>23, <1>24, <1>25, <1>26, <1>27, <1>28, <1>29, <1>30, <1>31, <1>32,
     <1>33, <1>34, <1>35 DEF StepOf, Program, Handler, ForkStep, SpawnStep

-----------------------------------------------------------------------------
(* Frames: every step. *)

LEMMA LessIs ==
  ASSUME NEW c, NEW va, UNCHANGED pt \/ NewEntry(c, va, {"W"}) \/ Entry(c, va, NoPte)
                        \/ \A g \in Envs, w \in Vas : pt'[g][w] = IF g = c THEN NoPte ELSE pt[g][w]
  PROVE  Less(c, va)
<1>1. CASE UNCHANGED pt
  BY <1>1 DEF Less
<1>2. CASE NewEntry(c, va, {"W"})
  BY <1>2 DEF Less, NewEntry, Entry, Pte
<1>3. CASE Entry(c, va, NoPte)
  BY <1>3 DEF Less, Entry
<1>4. CASE \A g \in Envs, w \in Vas : pt'[g][w] = IF g = c THEN NoPte ELSE pt[g][w]
  BY <1>4 DEF Less
<1>5. QED BY <1>1, <1>2, <1>3, <1>4

\* A page at PFTEMP or UTEMP that is not on its way is mapped once.
LEMMA SoleIs ==
  ASSUME CowInv, NEW a \in Envs, NEW t \in Special, pt[a][t].fr # NoOne,
         t = "pftemp" => flt[a].step # "unmap",
         t = "utemp" => pc[a] \notin {"sp_stackunmap", "sp_segunmap", "panic"}
  PROVE  Sole(a, t)
BY SpotsAre DEF CowInv, OwnInv, Sole, Passing

\* What two who share a page may do with it, when one of them runs.
LEMMA SharedWith ==
  ASSUME CowInv, NEW a \in Envs, pc[a] # "built", NEW e \in Envs \ {a}, NEW v \in VPages,
         "W" \in pt[e][v].perm, pt[a][v].fr = pt[e][v].fr
  PROVE  "SHARE" \in pt[e][v].perm /\ pt[a][v].perm \cap {"SHARE", "COW"} # {}
<1>1. ~Hidden(e, a, v)
  BY DEF Hidden
<1>2. Lends(pt[e][v], pt[a][v])
  BY <1>1 DEF CowInv, WriteInv
<1>3. QED BY <1>2 DEF Lends

LEMMA DuppageChildWrites ==
  ASSUME CowInv, NEW a \in Envs, OnlyBy(a), Onward(a), DuppageChild(a)
  PROVE  WriteInv'
<1>1. WriteInv /\ CtlTypes /\ LifeInv
  BY DEF CowInv, TypeInv
<1>2. /\ pc[a] = "dup" /\ ~DuppageParent(a)
      /\ child[a] \in Envs /\ child[a] # a /\ pc[child[a]] = "built" /\ page[a] \in 1 .. 4
  <2>1. pc[a] = "dup" /\ page[a] <= 4
    BY Entries DEF DuppageChild, At
  <2>2. page[a] >= 1 /\ page[a] \in 0 .. 5
    BY <2>1 DEF CowInv, TypeInv, CtlTypes, PageInv, Making, Forking
  <2>3. QED BY <2>1, <2>2, Here DEF DuppageParent, At, Forking
<1>3. PICK c \in Envs : c = child[a]
  BY <1>2
<1>4. PICK u \in VPages : u = Va(a)
  BY <1>2, VaIn
<1>5. /\ \A g \in Envs, w \in Vas : ~(g = c /\ w = u) => pt'[g][w] = pt[g][w]
      /\ pt'[c][u].fr = pt[a][u].fr /\ "W" \notin pt'[c][u].perm
      /\ pt[a][u].perm = {} \/ pt'[c][u].perm = {"COW"}
  <2>1. \/ MapEntry(a, u, c, u, {"COW"})
        \/ MapEntry(a, u, c, u, {}) /\ pt[a][u].perm = {}
    BY <1>3, <1>4, Entries
  <2>2. QED BY <2>1, SpotsAre DEF MapEntry, Entry, Pte
<1>6. "W" \in pt[a][u].perm => Hidden(a, c, u)'
  <2>1. ASSUME "W" \in pt[a][u].perm PROVE pc' = [pc EXCEPT ![a] = "remap"] /\ UNCHANGED <<child, page>>
    BY <2>1, <1>4 DEF DuppageChild, Writable, Goto
  <2>2. \A g \in Envs : child[g] = c => g = a
    BY <1>1, <1>2, <1>3, NothingIs DEF LifeInv, ChildInv
  <2>3. QED BY <1>1, <1>2, <1>3, <1>4, <2>1, <2>2 DEF Hidden, Va, CtlTypes
<1> SUFFICES ASSUME NEW e \in Envs, NEW f \in Envs, NEW v \in VPages,
                    e # f, "W" \in pt'[e][v].perm, pt'[f][v].fr = pt'[e][v].fr
             PROVE  \/ Lends(pt'[e][v], pt'[f][v])
                    \/ Hidden(e, f, v)'
  BY DEF WriteInv, Hidden, Va
<1>7. v \in Vas /\ pt'[e][v] = pt[e][v]
  BY <1>5, SpotsAre
<1>8. CASE f = c /\ v = u
  <2>1. CASE e = a
    BY <1>6, <1>7, <1>8, <2>1
  <2>2. CASE e # a
    <3>1. "SHARE" \in pt[e][v].perm /\ pt[a][v].perm # {}
      BY <1>2, <1>5, <1>7, <1>8, <2>2, SharedWith
    <3>2. QED BY <1>5, <1>7, <1>8, <3>1 DEF Lends
  <2>3. QED BY <2>1, <2>2
<1>9. CASE ~(f = c /\ v = u)
  <2>1. pt'[f][v] = pt[f][v]
    BY <1>5, <1>7, <1>9
  <2>2. CASE Hidden(e, f, v)
    BY <1>2, <2>2, HiddenStays
  <2>3. QED BY <1>1, <1>7, <2>1, <2>2 DEF WriteInv
<1>10. QED BY <1>8, <1>9

LEMMA DuppageParentWrites ==
  ASSUME CowInv, NEW a \in Envs, OnlyBy(a), Onward(a), DuppageParent(a)
  PROVE  WriteInv'
<1>1. WriteInv
  BY DEF CowInv
<1>2. pc[a] = "remap" /\ child[a] \in Envs /\ page[a] \in 1 .. 4
  BY Here DEF DuppageParent, At, Forking
<1>3. PICK u \in VPages : u = Va(a)
  BY <1>2, VaIn
<1>4. /\ \A g \in Envs, w \in Vas : ~(g = a /\ w = u) => pt'[g][w] = pt[g][w]
      /\ pt'[a][u].fr = pt[a][u].fr /\ pt'[a][u].perm = {"COW"}
  <2>1. MapEntry(a, u, a, u, {"COW"})
    BY <1>3, Entries
  <2>2. QED BY <2>1, SpotsAre DEF MapEntry, Entry, Pte
<1> SUFFICES ASSUME NEW e \in Envs, NEW f \in Envs, NEW v \in VPages,
                    e # f, "W" \in pt'[e][v].perm, pt'[f][v].fr = pt'[e][v].fr
             PROVE  \/ Lends(pt'[e][v], pt'[f][v])
                    \/ Hidden(e, f, v)'
  BY DEF WriteInv, Hidden, Va
<1>5. v \in Vas /\ pt'[e][v] = pt[e][v] /\ ~(e = a /\ v = u)
  BY <1>4, SpotsAre
<1>6. CASE f = a /\ v = u
  <2>1. e # a /\ pt[a][v].fr = pt[e][v].fr
    BY <1>4, <1>5, <1>6
  <2>2. "SHARE" \in pt[e][v].perm
    BY <1>2, <1>5, <2>1, SharedWith
  <2>3. QED BY <1>4, <1>5, <1>6, <2>2 DEF Lends
<1>7. CASE ~(f = a /\ v = u)
  <2>1. pt'[f][v] = pt[f][v]
    BY <1>4, <1>5, <1>7
  <2>2. CASE Hidden(e, f, v)
    BY <1>2, <1>3, <1>5, <2>2, HiddenStays
  <2>3. QED BY <1>1, <1>5, <2>1, <2>2 DEF WriteInv
<1>8. QED BY <1>6, <1>7

LEMMA CopySharedWrites ==
  ASSUME CowInv, NEW a \in Envs, OnlyBy(a), Onward(a), CopySharedPages(a),
         "SHARE" \in pt[a][Shared].perm
  PROVE  WriteInv'
<1>1. WriteInv /\ LifeInv
  BY DEF CowInv
<1>2. pc[a] = "sp_share" /\ ~DuppageParent(a) /\ child[a] \in Envs /\ child[a] # a
  BY Here DEF CopySharedPages, DuppageParent, At, Spawning
<1>3. PICK c \in Envs : c = child[a]
  BY <1>2
<1>4. /\ \A g \in Envs, w \in Vas : ~(g = c /\ w = Shared) => pt'[g][w] = pt[g][w]
      /\ pt'[c][Shared].fr = pt[a][Shared].fr /\ pt'[c][Shared].perm = {"W", "SHARE"}
      /\ pt[a][Shared].perm = {"W", "SHARE"}
  <2>1. MapEntry(a, Shared, c, Shared, {"W", "SHARE"}) /\ pt[a][Shared].perm = {"W", "SHARE"}
    BY <1>3, Entries
  <2>2. QED BY <2>1, SpotsAre DEF MapEntry, Entry, Pte
<1>5. Shared \in VPages /\ Shared \in Vas
  BY SpotsAre
<1> SUFFICES ASSUME NEW e \in Envs, NEW f \in Envs, NEW v \in VPages,
                    e # f, "W" \in pt'[e][v].perm, pt'[f][v].fr = pt'[e][v].fr
             PROVE  \/ Lends(pt'[e][v], pt'[f][v])
                    \/ Hidden(e, f, v)'
  BY DEF WriteInv, Hidden, Va
<1>6. v \in Vas
  BY SpotsAre
<1>7. CASE f = c /\ v = Shared
  <2>1. pt'[e][v] = pt[e][v]
    BY <1>4, <1>6, <1>7
  <2>2. CASE e = a
    BY <1>4, <1>7, <2>1, <2>2 DEF Lends
  <2>3. CASE e # a
    <3>1. "SHARE" \in pt[e][v].perm
      BY <1>2, <1>4, <1>7, <2>1, <2>3, SharedWith
    <3>2. QED BY <1>4, <1>7, <2>1, <3>1 DEF Lends
  <2>4. QED BY <2>2, <2>3
<1>8. CASE e = c /\ v = Shared
  <2>1. pt'[f][v] = pt[f][v]
    BY <1>4, <1>6, <1>8
  <2>2. CASE f = a
    BY <1>4, <1>8, <2>1, <2>2 DEF Lends
  <2>3. CASE f # a
    <3>1. CASE Hidden(a, f, Shared)
      <4>1. Lost(f)
        BY <1>2, <3>1 DEF Hidden, Lost
      <4>2. Lost(f)'
        BY <1>2, <4>1, LostStays
      <4>3. QED BY <4>2 DEF Lost, Hidden
    <3>2. CASE Lends(pt[a][Shared], pt[f][Shared])
      BY <1>4, <1>8, <2>1, <3>2 DEF Lends
    <3>3. QED BY <1>1, <1>4, <1>5, <1>8, <2>1, <2>3, <3>1, <3>2 DEF WriteInv
  <2>4. QED BY <2>2, <2>3
<1>9. CASE v # Shared \/ (e # c /\ f # c)
  <2>1. pt'[e][v] = pt[e][v] /\ pt'[f][v] = pt[f][v]
    BY <1>4, <1>6, <1>9
  <2>2. CASE Hidden(e, f, v)
    BY <1>2, <2>2, HiddenStays
  <2>3. QED BY <1>1, <2>1, <2>2 DEF WriteInv
<1>10. QED BY <1>7, <1>8, <1>9

LEMMA NotBuilt ==
  ASSUME CowInv, NEW e \in Envs, StepOf(e)
  PROVE  pc[e] # "built"
<1>1. flt[e] # NoFault => pc[e] # "built"
  BY DEF CowInv, LifeInv, IdleInv
<1>2. ASSUME NEW va \in VPages, Fault(e, va) PROVE pc[e] # "built"
  BY <1>1, <1>2, NothingIs DEF Fault, MayStore, Forking, Spawning
<1>3. ASSUME NEW va \in VPages, FaultKills(e, va) PROVE pc[e] # "built"
  BY <1>1, <1>3, NothingIs DEF FaultKills, MayStore, Forking, Spawning
<1>4. ASSUME NEW va \in VPages, NEW x \in Values, Store(e, va, x) PROVE pc[e] # "built"
  BY <1>1, <1>4, NothingIs DEF Store, MayStore, Forking, Spawning
<1>5. CASE SetPgfaultHandler(e)
  BY <1>1, <1>5, NothingIs DEF SetPgfaultHandler, At
<1>6. CASE SetPgfaultHandlerPanics(e)
  BY <1>1, <1>6, NothingIs DEF SetPgfaultHandlerPanics, At
<1>7. CASE Spawn(e)
  BY <1>1, <1>7, NothingIs DEF Spawn, At
<1>8. CASE PgfaultAlloc(e)
  BY <1>1, <1>8, NothingIs DEF PgfaultAlloc, InFault
<1>9. CASE PgfaultPanics(e)
  BY <1>1, <1>9, NothingIs DEF PgfaultPanics, InFault
<1>10. CASE PgfaultCopy(e)
  BY <1>1, <1>10, NothingIs DEF PgfaultCopy, InFault
<1>11. CASE PgfaultMap(e)
  BY <1>1, <1>11, NothingIs DEF PgfaultMap, InFault
<1>12. CASE PgfaultUnmap(e)
  BY <1>1, <1>12, NothingIs DEF PgfaultUnmap, InFault
<1>13. CASE PgfaultReturn(e)
  BY <1>1, <1>13, NothingIs DEF PgfaultReturn, InFault
<1>14. CASE ForkExofork(e)
  BY <1>1, <1>14, NothingIs DEF ForkExofork, Exofork, At
<1>15. CASE ForkExceptionStack(e)
  BY <1>1, <1>15, NothingIs DEF ForkExceptionStack, At
<1>16. CASE ForkLoop(e)
  BY <1>1, <1>16, NothingIs DEF ForkLoop, At
<1>17. CASE DuppageChild(e)
  BY <1>1, <1>17, NothingIs DEF DuppageChild, At
<1>18. CASE DuppageParent(e)
  BY <1>1, <1>18, NothingIs DEF DuppageParent, At
<1>19. CASE ForkFails(e)
  BY <1>1, <1>19, NothingIs DEF ForkFails
<1>20. CASE ForkDone(e)
  BY <1>1, <1>20, NothingIs DEF ForkDone, SetRunnable, At
<1>21. CASE SpawnExofork(e)
  BY <1>1, <1>21, NothingIs DEF SpawnExofork, Exofork, At
<1>22. CASE InitStackAlloc(e)
  BY <1>1, <1>22, NothingIs DEF InitStackAlloc, At
<1>23. CASE InitStackMap(e)
  BY <1>1, <1>23, NothingIs DEF InitStackMap, At
<1>24. CASE InitStackUnmap(e)
  BY <1>1, <1>24, NothingIs DEF InitStackUnmap, At
<1>25. CASE InitStackFails(e)
  BY <1>1, <1>25, NothingIs DEF InitStackFails
<1>26. CASE MapSegmentAlloc(e)
  BY <1>1, <1>26, NothingIs DEF MapSegmentAlloc, At
<1>27. CASE MapSegmentRead(e)
  BY <1>1, <1>27, NothingIs DEF MapSegmentRead, At
<1>28. CASE MapSegmentMap(e)
  BY <1>1, <1>28, NothingIs DEF MapSegmentMap, At
<1>29. CASE MapSegmentUnmap(e)
  BY <1>1, <1>29, NothingIs DEF MapSegmentUnmap, At
<1>30. CASE MapSegmentBlank(e)
  BY <1>1, <1>30, NothingIs DEF MapSegmentBlank, At
<1>31. CASE SpawnFails(e)
  BY <1>1, <1>31, NothingIs DEF SpawnFails
<1>32. CASE CopySharedPages(e)
  BY <1>1, <1>32, NothingIs DEF CopySharedPages, At
<1>33. CASE SpawnPanics(e)
  BY <1>1, <1>33, NothingIs DEF SpawnPanics
<1>34. CASE SpawnDone(e)
  BY <1>1, <1>34, NothingIs DEF SpawnDone, SetRunnable, At
<1>35. CASE Destroyed(e)
  BY <1>1, <1>35, NothingIs DEF Destroyed
<1>36. QED
  BY <1>2, <1>3, <1>4, <1>5, <1>6, <1>7, <1>8, <1>9, <1>10, <1>11, <1>12,
     <1>13, <1>14, <1>15, <1>16, <1>17, <1>18, <1>19, <1>20, <1>21, <1>22,
     <1>23, <1>24, <1>25, <1>26, <1>27, <1>28, <1>29, <1>30, <1>31, <1>32,
     <1>33, <1>34, <1>35 DEF StepOf, Program, Handler, ForkStep, SpawnStep

LEMMA FrameMost ==
  ASSUME CowInv, NEW e \in Envs, StepOf(e), ~DuppageParent(e)
  PROVE  OwnInv' /\ PlaceInv' /\ WriteInv'
<1>1. /\ OnlyBy(e) /\ Onward(e) /\ pc[e] # "built" /\ PteInv'
      /\ CtlTypes /\ FltTypes /\ MemTypes
  BY OnlyActor, OnwardActor, MemStep, NotBuilt DEF CowInv, TypeInv
<1>2. OnlyBy(e) /\ Onward(e) /\ CtlTypes /\ FltTypes /\ MemTypes
  BY <1>1
<1>3. ASSUME NEW va \in VPages, Fault(e, va) PROVE OwnInv' /\ PlaceInv' /\ WriteInv'
  <2>1. Less(e, Text)
    BY <1>3, LessIs DEF Fault
  <2>2. QED BY <1>1, <2>1, LessKeeps
<1>4. ASSUME NEW va \in VPages, FaultKills(e, va) PROVE OwnInv' /\ PlaceInv' /\ WriteInv'
  <2>1. pt' = [pt EXCEPT ![e] = NoPt] /\ UNCHANGED mem
    BY <1>4 DEF FaultKills, Gone
  <2>2. \A g \in Envs, w \in Vas : pt'[g][w] = IF g = e THEN NoPte ELSE pt[g][w]
    BY <1>2, <2>1, ClearIs
  <2>3. Less(e, Text)
    BY <2>2 DEF Less
  <2>4. QED BY <1>1, <2>3, LessKeeps
<1>5. ASSUME NEW va \in VPages, NEW x \in Values, Store(e, va, x) PROVE OwnInv' /\ PlaceInv' /\ WriteInv'
  <2>1. Less(e, Text)
    BY <1>5, LessIs DEF Store
  <2>2. QED BY <1>1, <2>1, LessKeeps
<1>6. CASE SetPgfaultHandler(e)
  <2>1. Less(e, "uxstack")
    BY <1>6, Entries, LessIs
  <2>2. QED BY <1>1, <2>1, LessKeeps
<1>7. CASE SetPgfaultHandlerPanics(e)
  <2>1. Less(e, Text)
    BY <1>7, LessIs DEF SetPgfaultHandlerPanics, Panic
  <2>2. QED BY <1>1, <2>1, LessKeeps
<1>8. CASE Spawn(e)
  <2>1. Less(e, Text)
    BY <1>8, LessIs DEF Spawn
  <2>2. QED BY <1>1, <2>1, LessKeeps
<1>9. CASE PgfaultAlloc(e)
  <2>1. Less(e, "pftemp")
    BY <1>9, Entries, LessIs
  <2>2. QED BY <1>1, <2>1, LessKeeps
<1>10. CASE PgfaultPanics(e)
  <2>1. Less(e, Text)
    BY <1>10, LessIs DEF PgfaultPanics, Panic
  <2>2. QED BY <1>1, <2>1, LessKeeps
<1>11. CASE PgfaultCopy(e)
  <2>1. Less(e, Text)
    BY <1>11, LessIs DEF PgfaultCopy
  <2>2. QED BY <1>1, <2>1, LessKeeps
<1>12. CASE PgfaultMap(e)
  <2>1. flt[e].step = "map" /\ flt[e] # NoFault /\ flt[e].va \in VPages
    BY <1>12, Here, NothingIs DEF PgfaultMap, InFault
  <2>2. MapEntry(e, "pftemp", e, flt[e].va, {"W"})
    BY <1>12, Entries
  <2>3. Sole(e, "pftemp")
    BY <2>1, <2>2, SoleIs, SpotsAre DEF MapEntry
  <2>4. FaultStep(e, "unmap")
    BY <1>12 DEF PgfaultMap
  <2>5. flt'[e].step = "unmap" /\ flt'[e].va = flt[e].va
    <3>1. flt'[e] = [va |-> flt[e].va, step |-> "unmap", outer |-> flt[e].outer]
      BY <1>2, <2>4, FaultGoes DEF Steps
    <3>2. QED BY <3>1
  <2>6. PICK c \in Envs, u \in VPages : c = e /\ u = flt[e].va
    BY <2>1
  <2>7. Passing(e, "pftemp", c, u)'
    BY <2>1, <2>5, <2>6 DEF Passing
  <2>8. QED BY <1>1, <2>2, <2>3, <2>6, <2>7, SoleMapKeeps, SpotsAre
<1>13. CASE PgfaultUnmap(e)
  <2>1. Less(e, "pftemp")
    BY <1>13, Entries, LessIs
  <2>2. QED BY <1>1, <2>1, LessKeeps
<1>14. CASE PgfaultReturn(e)
  <2>1. Less(e, Text)
    BY <1>14, LessIs DEF PgfaultReturn
  <2>2. QED BY <1>1, <2>1, LessKeeps
<1>15. CASE ForkExofork(e)
  <2>1. Less(e, Text)
    BY <1>15, LessIs DEF ForkExofork, Exofork
  <2>2. QED BY <1>1, <2>1, LessKeeps
<1>16. CASE ForkExceptionStack(e)
  <2>1. Less(child[e], "uxstack")
    BY <1>16, Entries, LessIs
  <2>2. QED BY <1>1, <2>1, LessKeeps
<1>17. CASE ForkLoop(e)
  <2>1. Less(e, Text)
    BY <1>17, LessIs DEF ForkLoop
  <2>2. QED BY <1>1, <2>1, LessKeeps
<1>18. CASE DuppageChild(e)
  <2>1. flt[e] = NoFault /\ child[e] \in Envs /\ Va(e) \in VPages
    BY <1>18, Here, Entries DEF DuppageChild, At, Making, Forking
  <2>2. MapEntry(e, Va(e), child[e], Va(e), {"COW"}) \/ MapEntry(e, Va(e), child[e], Va(e), {})
    BY <1>18, Entries
  <2>3. OwnInv' /\ PlaceInv'
    <3>1. PICK c \in Envs, u \in VPages : c = child[e] /\ u = Va(e)
      BY <2>1
    <3>2. MapEntry(e, u, c, u, {"COW"}) \/ MapEntry(e, u, c, u, {})
      BY <2>2, <3>1
    <3>3. QED BY <1>1, <2>1, <3>2, PageMapKeeps
  <2>4. QED BY <1>1, <1>18, <2>3, DuppageChildWrites
<1>19. CASE DuppageParent(e)
  BY <1>19
<1>20. CASE ForkFails(e)
  <2>1. Less(e, Text)
    BY <1>20, LessIs DEF ForkFails
  <2>2. QED BY <1>1, <2>1, LessKeeps
<1>21. CASE ForkDone(e)
  <2>1. Less(e, Text)
    BY <1>21, LessIs DEF ForkDone, SetRunnable
  <2>2. QED BY <1>1, <2>1, LessKeeps
<1>22. CASE SpawnExofork(e)
  <2>1. Less(e, Text)
    BY <1>22, LessIs DEF SpawnExofork, Exofork
  <2>2. QED BY <1>1, <2>1, LessKeeps
<1>23. CASE InitStackAlloc(e)
  <2>1. Less(e, "utemp")
    BY <1>23, Entries, LessIs
  <2>2. QED BY <1>1, <2>1, LessKeeps
<1>24. CASE InitStackMap(e)
  <2>1. pc[e] = "sp_stackmap" /\ child[e] \in Envs /\ Stack \in VPages
    BY <1>24, Here, SpotsAre DEF InitStackMap, At, Spawning
  <2>2. MapEntry(e, "utemp", child[e], Stack, {"W"})
    BY <1>24, Entries
  <2>3. Sole(e, "utemp")
    BY <2>1, <2>2, SoleIs, SpotsAre DEF MapEntry
  <2>4. pc' = [pc EXCEPT ![e] = "sp_stackunmap"] /\ UNCHANGED child
    BY <1>24 DEF InitStackMap, Goto
  <2>5. pc'[e] = "sp_stackunmap" /\ child'[e] = child[e]
    BY <1>2, <2>4 DEF CtlTypes
  <2>6. PICK c \in Envs, u \in VPages : c = child[e] /\ u = Stack
    BY <2>1
  <2>7. Passing(e, "utemp", c, u)'
    BY <2>1, <2>5, <2>6 DEF Passing
  <2>8. QED BY <1>1, <2>2, <2>3, <2>6, <2>7, SoleMapKeeps, SpotsAre
<1>25. CASE InitStackUnmap(e)
  <2>1. Less(e, "utemp")
    BY <1>25, Entries, LessIs
  <2>2. QED BY <1>1, <2>1, LessKeeps
<1>26. CASE InitStackFails(e)
  <2>1. Less(e, "utemp")
    BY <1>26, Entries, LessIs
  <2>2. QED BY <1>1, <2>1, LessKeeps
<1>27. CASE MapSegmentAlloc(e)
  <2>1. Less(e, "utemp")
    BY <1>27, Entries, LessIs
  <2>2. QED BY <1>1, <2>1, LessKeeps
<1>28. CASE MapSegmentRead(e)
  <2>1. Less(e, Text)
    BY <1>28, LessIs DEF MapSegmentRead
  <2>2. QED BY <1>1, <2>1, LessKeeps
<1>29. CASE MapSegmentMap(e)
  <2>1. pc[e] = "sp_segmap" /\ child[e] \in Envs /\ Va(e) \in VPages
    BY <1>29, Here, SpotsAre DEF MapSegmentMap, At, Spawning
  <2>2. MapEntry(e, "utemp", child[e], Va(e), {})
    BY <1>29, Entries
  <2>3. Sole(e, "utemp")
    BY <2>1, <2>2, SoleIs, SpotsAre DEF MapEntry
  <2>4. pc' = [pc EXCEPT ![e] = "sp_segunmap"] /\ UNCHANGED child
    BY <1>29 DEF MapSegmentMap, Goto
  <2>5. pc'[e] = "sp_segunmap" /\ child'[e] = child[e]
    BY <1>2, <2>4 DEF CtlTypes
  <2>6. PICK c \in Envs, u \in VPages : c = child[e] /\ u = Va(e)
    BY <2>1
  <2>7. Passing(e, "utemp", c, u)'
    BY <2>1, <2>5, <2>6 DEF Passing
  <2>8. QED BY <1>1, <2>2, <2>3, <2>6, <2>7, SoleMapKeeps, SpotsAre
<1>30. CASE MapSegmentUnmap(e)
  <2>1. Less(e, "utemp")
    BY <1>30, Entries, LessIs
  <2>2. QED BY <1>1, <2>1, LessKeeps
<1>31. CASE MapSegmentBlank(e)
  <2>1. Less(child[e], Bss)
    BY <1>31, Entries, LessIs
  <2>2. QED BY <1>1, <2>1, LessKeeps
<1>32. CASE SpawnFails(e)
  <2>1. child[e] \in Envs /\ pt' = [pt EXCEPT ![child[e]] = NoPt] /\ UNCHANGED mem
    BY <1>32, Here DEF SpawnFails, Spawning
  <2>2. \A g \in Envs, w \in Vas : pt'[g][w] = IF g = child[e] THEN NoPte ELSE pt[g][w]
    BY <1>2, <2>1, ClearIs
  <2>3. Less(child[e], Text)
    BY <2>2 DEF Less
  <2>4. QED BY <1>1, <2>3, LessKeeps
<1>33. CASE CopySharedPages(e)
  <2>1. flt[e] = NoFault /\ child[e] \in Envs
    BY <1>33, Here DEF CopySharedPages, At, Spawning
  <2>2. CASE "SHARE" \in pt[e][Shared].perm
    <3>1. MapEntry(e, Shared, child[e], Shared, {"W", "SHARE"})
      BY <1>33, <2>2, Entries
    <3>2. OwnInv' /\ PlaceInv'
      BY <1>1, <2>1, <3>1, PageMapKeeps, SpotsAre
    <3>3. QED BY <1>2, <1>33, <2>2, <3>2, CopySharedWrites
  <2>3. CASE "SHARE" \notin pt[e][Shared].perm
    <3>1. Less(e, Text)
      BY <1>33, <2>3, Entries, LessIs
    <3>2. QED BY <1>1, <3>1, LessKeeps
  <2>4. QED BY <2>2, <2>3
<1>34. CASE SpawnPanics(e)
  <2>1. Less(e, Text)
    BY <1>34, LessIs DEF SpawnPanics, Panic
  <2>2. QED BY <1>1, <2>1, LessKeeps
<1>35. CASE SpawnDone(e)
  <2>1. Less(e, Text)
    BY <1>35, LessIs DEF SpawnDone, SetRunnable
  <2>2. QED BY <1>1, <2>1, LessKeeps
<1>36. CASE Destroyed(e)
  <2>1. pt' = [pt EXCEPT ![e] = NoPt] /\ UNCHANGED mem
    BY <1>36 DEF Destroyed, Gone
  <2>2. \A g \in Envs, w \in Vas : pt'[g][w] = IF g = e THEN NoPte ELSE pt[g][w]
    BY <1>2, <2>1, ClearIs
  <2>3. Less(e, Text)
    BY <2>2 DEF Less
  <2>4. QED BY <1>1, <2>3, LessKeeps
<1>37. QED
  BY <1>3, <1>4, <1>5, <1>6, <1>7, <1>8, <1>9, <1>10, <1>11, <1>12, <1>13,
     <1>14, <1>15, <1>16, <1>17, <1>18, <1>19, <1>20, <1>21, <1>22, <1>23,
     <1>24, <1>25, <1>26, <1>27, <1>28, <1>29, <1>30, <1>31, <1>32, <1>33,
     <1>34, <1>35, <1>36 DEF StepOf, Program, Handler, ForkStep, SpawnStep

LEMMA FrameStep ==
  ASSUME CowInv, NEW e \in Envs, StepOf(e)
  PROVE  OwnInv' /\ PlaceInv' /\ WriteInv'
<1>1. CASE DuppageParent(e)
  <2>1. /\ OnlyBy(e) /\ Onward(e) /\ pc[e] # "built"
    BY OnlyActor, OnwardActor, NotBuilt
  <2>2. flt[e] = NoFault /\ Va(e) \in VPages
    BY <1>1, Here DEF DuppageParent, At
  <2>3. MapEntry(e, Va(e), e, Va(e), {"COW"})
    BY <1>1, Entries
  <2>4. OwnInv' /\ PlaceInv'
    BY <2>1, <2>2, <2>3, PageMapKeeps
  <2>5. QED BY <1>1, <2>1, <2>4, DuppageParentWrites
<1>2. CASE ~DuppageParent(e)
  BY <1>2, FrameMost
<1>3. QED BY <1>1, <1>2

-----------------------------------------------------------------------------
(* Who forks: what others do does not matter to it.                        *)

ForkFact(e) ==
  pc[e] \in Forking =>
     \A v \in VPages : child[e] # NoOne => "W" \notin pt[child[e]][v].perm

LEMMA ForkOthers ==
  ASSUME CowInv, NEW a \in Envs, OnlyBy(a), Touch(a), pc[a] # "built", NEW e \in Envs \ {a}
  PROVE  ForkFact(e)'
<1>1. ForkInv /\ LifeInv /\ CtlTypes
  BY DEF CowInv, TypeInv
<1> SUFFICES ASSUME pc'[e] \in Forking PROVE ForkFact(e)'
  BY DEF ForkFact
<1>2. pc[e] = pc'[e] /\ child'[e] = child[e] /\ page'[e] = page[e]
  BY DEF OnlyBy, Forking
<1>3. pc[a] \in Making => child[a] # NoOne /\ pc[child[a]] = "built"
  BY <1>1 DEF LifeInv, ChildInv
<1>4. child[e] # NoOne => \A w \in Vas : pt'[child[e]][w] = pt[child[e]][w]
  <2>1. SUFFICES ASSUME child[e] # NoOne PROVE \A w \in Vas : pt'[child[e]][w] = pt[child[e]][w]
    OBVIOUS
  <2>2. PICK c \in Envs : c = child[e]
    BY <1>1, <2>1 DEF CtlTypes
  <2>3. c # a /\ (pc[a] \in Making => c # child[a])
    BY <1>1, <1>3, <2>1, <2>2 DEF LifeInv, ChildInv
  <2>4. QED BY <2>2, <2>3 DEF Touch
<1>5. \A v \in VPages : child'[e] # NoOne => "W" \notin pt'[child'[e]][v].perm
  BY <1>1, <1>2, <1>4, SpotsAre DEF ForkInv
<1>6. QED BY <1>5 DEF ForkFact

\* Whose step leaves its fork and its child as they are.
LEMMA ForkSame ==
  ASSUME CowInv, NEW e \in Envs, Touch(e),
         pc'[e] \in Forking => /\ pc'[e] = pc[e] /\ child'[e] = child[e]
                               /\ child[e] # NoOne => \A w \in VPages : pt'[child[e]][w] = pt[child[e]][w]
  PROVE  ForkFact(e)'
BY DEF CowInv, ForkInv, ForkFact

LEMMA ForkMine ==
  ASSUME CowInv, NEW e \in Envs, StepOf(e)
  PROVE  ForkFact(e)'
<1>1. /\ CowInv /\ Touch(e) /\ ForkInv /\ CtlTypes /\ PageInv /\ ChildInv /\ IdleInv
  BY TouchActor DEF CowInv, TypeInv, LifeInv
<1>2. ASSUME NEW va \in VPages, Fault(e, va) PROVE ForkFact(e)'
  <2>1. UNCHANGED <<pc, child, page, pt>>
    BY <1>2 DEF Fault
  <2>2. QED BY <1>1, <2>1, ForkSame
<1>3. ASSUME NEW va \in VPages, FaultKills(e, va) PROVE ForkFact(e)'
  <2>1. pc' = [pc EXCEPT ![e] = "dead"]
    BY <1>3 DEF FaultKills, Gone
  <2>2. pc'[e] \notin Forking
    BY <1>1, <2>1 DEF CtlTypes, Forking
  <2>3. QED BY <1>1, <2>2, ForkSame
<1>4. ASSUME NEW va \in VPages, NEW x \in Values, Store(e, va, x) PROVE ForkFact(e)'
  <2>1. UNCHANGED <<pc, child, page, pt>>
    BY <1>4 DEF Store
  <2>2. QED BY <1>1, <2>1, ForkSame
<1>5. CASE SetPgfaultHandler(e)
  <2>1. pc[e] = "run" /\ UNCHANGED child
    BY <1>5 DEF SetPgfaultHandler, At
  <2>2. child'[e] = NoOne
    BY <1>1, <2>1 DEF ChildInv, Making, Forking, Spawning
  <2>3. QED BY <2>2 DEF ForkFact
<1>6. CASE SetPgfaultHandlerPanics(e)
  <2>1. pc' = [pc EXCEPT ![e] = "panic"]
    BY <1>6 DEF SetPgfaultHandlerPanics, Panic, Goto
  <2>2. pc'[e] \notin Forking
    BY <1>1, <2>1 DEF CtlTypes, Forking
  <2>3. QED BY <1>1, <2>2, ForkSame
<1>7. CASE Spawn(e)
  <2>1. pc'[e] \notin Forking
    BY <1>1, <1>7 DEF Spawn, Goto, At, CtlTypes, Forking
  <2>2. QED BY <1>1, <2>1, ForkSame
<1>8. CASE PgfaultAlloc(e)
  <2>1. UNCHANGED <<pc, child, page>> /\ NewEntry(e, "pftemp", {"W"})
    BY <1>8, Entries DEF PgfaultAlloc
  <2>2. \A g \in Envs, w \in VPages : pt'[g][w] = pt[g][w]
    BY <2>1, SpotsAre DEF Entry, NewEntry
  <2>3. QED BY <1>1, <2>1, <2>2, ForkSame, SpotsAre DEF CtlTypes
<1>9. CASE PgfaultPanics(e)
  <2>1. pc' = [pc EXCEPT ![e] = "panic"]
    BY <1>9 DEF PgfaultPanics, Panic, Goto
  <2>2. pc'[e] \notin Forking
    BY <1>1, <2>1 DEF CtlTypes, Forking
  <2>3. QED BY <1>1, <2>2, ForkSame
<1>10. CASE PgfaultCopy(e)
  <2>1. UNCHANGED <<pc, child, page, pt>>
    BY <1>10 DEF PgfaultCopy
  <2>2. QED BY <1>1, <2>1, ForkSame
<1>11. CASE PgfaultMap(e)
  <2>1. UNCHANGED <<pc, child, page>> /\ MapEntry(e, "pftemp", e, flt[e].va, {"W"})
    BY <1>11, Entries DEF PgfaultMap
  <2>2. /\ \A g \in Envs \ {e}, w \in Vas : pt'[g][w] = pt[g][w]
        /\ \A w \in Vas : pt'[e][w] = pt[e][w] \/ pt'[e][w].perm = {"W"}
    BY <2>1 DEF MapEntry, Entry, Pte
  <2>3. child[e] # NoOne => child[e] \in Envs \ {e}
    BY <1>1 DEF CtlTypes, ChildInv, Making, Forking, Spawning
  <2>4. QED BY <1>1, <2>1, <2>2, <2>3, ForkSame, SpotsAre
<1>12. CASE PgfaultUnmap(e)
  <2>1. UNCHANGED <<pc, child, page>> /\ Entry(e, "pftemp", NoPte)
    BY <1>12, Entries DEF PgfaultUnmap
  <2>2. \A g \in Envs, w \in VPages : pt'[g][w] = pt[g][w]
    BY <2>1, SpotsAre DEF Entry, NewEntry
  <2>3. QED BY <1>1, <2>1, <2>2, ForkSame, SpotsAre DEF CtlTypes
<1>13. CASE PgfaultReturn(e)
  <2>1. UNCHANGED <<pc, child, page, pt>>
    BY <1>13 DEF PgfaultReturn
  <2>2. QED BY <1>1, <2>1, ForkSame
<1>14. CASE ForkExofork(e)
  <2>1. pc[e] = "exofork" /\ UNCHANGED pt
    BY <1>1, <1>14 DEF ForkExofork, Exofork, At, CtlTypes
  <2>2. CASE pc'[e] = "run"
    BY <1>1, <2>2, ForkSame DEF Forking
  <2>3. CASE \E c \in Envs : /\ pc[c] = "unborn" /\ pc' = [pc EXCEPT ![e] = "ux", ![c] = "built"]
                            /\ child' = [child EXCEPT ![e] = c] /\ page' = [page EXCEPT ![e] = 1]
    <3>1. PICK c \in Envs : pc[c] = "unborn" /\ child'[e] = c
      BY <1>1, <2>3 DEF CtlTypes
    <3>2. pt[c] = NoPt
      BY <1>1, <3>1 DEF IdleInv
    <3>3. \A w \in VPages : pt'[c][w].perm = {}
      BY <2>1, <3>2, SpotsAre, NothingIs
    <3>4. \A v \in VPages : child'[e] # NoOne => "W" \notin pt'[child'[e]][v].perm
      BY <3>1, <3>3
    <3>5. QED BY <3>4 DEF ForkFact
  <2>4. QED BY <1>1, <1>14, <2>2, <2>3 DEF ForkExofork, Exofork, Goto, CtlTypes
<1>15. CASE ForkExceptionStack(e)
  <2>1. /\ pc[e] = "ux" /\ pc' = [pc EXCEPT ![e] = "dup"] /\ UNCHANGED <<child, page>>
        /\ NewEntry(child[e], "uxstack", {"W"})
    BY <1>15, Entries DEF ForkExceptionStack, At, Goto
  <2>2. \A g \in Envs, w \in VPages : pt'[g][w] = pt[g][w]
    BY <2>1, SpotsAre DEF Entry, NewEntry
  <2>3. pc'[e] = "dup" /\ (child[e] # NoOne => child[e] \in Envs)
    BY <1>1, <2>1 DEF CtlTypes
  <2>4. QED BY <1>1, <2>1, <2>2, <2>3, SpotsAre DEF ForkInv, ForkFact, Forking
<1>16. CASE ForkLoop(e)
  <2>1. pc[e] = "dup" /\ UNCHANGED <<pt, child>>
    BY <1>16 DEF ForkLoop, At
  <2>2. QED BY <1>1, <2>1 DEF ForkInv, ForkFact, Forking
<1>17. CASE DuppageChild(e)
  <2>1. pc[e] = "dup" /\ page[e] \in 1 .. 4 /\ child[e] \in Envs /\ child[e] # e
    <3>1. pc[e] = "dup" /\ page[e] <= 4
      BY <1>17, Entries DEF DuppageChild, At
    <3>2. page[e] >= 1 /\ page[e] \in 0 .. 5
      BY <1>1, <3>1 DEF CtlTypes, PageInv, Making, Forking
    <3>3. QED BY <3>1, <3>2, Here DEF Forking
  <2>2. PICK c \in Envs : c = child[e]
    BY <2>1
  <2>3. PICK u \in VPages : u = Va(e)
    BY <2>1, VaIn
  <2>4. \/ Writable(e) /\ MapEntry(e, u, c, u, {"COW"})
        \/ ~Writable(e) /\ pt[e][u].perm = {} /\ MapEntry(e, u, c, u, {})
    BY <1>17, <2>2, <2>3, Entries
  <2>5. /\ \A g \in Envs, w \in Vas : ~(g = c /\ w = u) => pt'[g][w] = pt[g][w]
        /\ "W" \notin pt'[c][u].perm
    BY <2>4, SpotsAre DEF MapEntry, Entry, Pte
  <2>6. child' = child
    BY <1>17 DEF DuppageChild
  <2>7. \A v \in VPages : "W" \notin pt'[c][v].perm
    BY <1>1, <2>1, <2>2, <2>5, SpotsAre, NothingIs DEF ForkInv, Forking
  <2>8. QED BY <2>2, <2>6, <2>7 DEF ForkFact
<1>18. CASE DuppageParent(e)
  <2>1. /\ pc[e] = "remap" /\ page[e] \in 1 .. 4 /\ child[e] \in Envs /\ child[e] # e
        /\ child' = child /\ pc'[e] = "dup" /\ page'[e] = page[e] + 1
    BY <1>1, <1>18, Here DEF DuppageParent, At, Goto, CtlTypes, Forking
  <2>2. PICK u \in VPages : u = Va(e)
    BY <2>1, VaIn
  <2>3. MapEntry(e, u, e, u, {"COW"})
    BY <1>18, <2>2, Entries
  <2>4. \A g \in Envs, w \in Vas : ~(g = e /\ w = u) => pt'[g][w] = pt[g][w]
    BY <2>3 DEF MapEntry, Entry
  <2>5. \A v \in VPages : "W" \notin pt'[child'[e]][v].perm
    BY <1>1, <2>1, <2>4, SpotsAre, NothingIs DEF ForkInv, Forking
  <2>6. QED BY <2>5 DEF ForkFact
<1>19. CASE ForkFails(e)
  <2>1. pc'[e] \notin Forking
    BY <1>1, <1>19 DEF ForkFails, Goto, CtlTypes, Forking
  <2>2. QED BY <1>1, <2>1, ForkSame
<1>20. CASE ForkDone(e)
  <2>1. pc'[e] \notin Forking
    BY <1>1, <1>20, Here DEF ForkDone, SetRunnable, At, CtlTypes, Forking
  <2>2. QED BY <1>1, <2>1, ForkSame
<1>21. CASE SpawnExofork(e)
  <2>1. /\ pc[e] = "sp_exofork"
        /\ \/ \E c \in Envs : pc[c] = "unborn" /\ pc' = [pc EXCEPT ![e] = "sp_stack", ![c] = "built"]
           \/ pc' = [pc EXCEPT ![e] = "run"]
    BY <1>21 DEF SpawnExofork, Exofork, At, Goto
  <2>2. pc'[e] \notin Forking
    BY <1>1, <2>1 DEF CtlTypes, Forking
  <2>3. QED BY <1>1, <2>2, ForkSame
<1>22. CASE InitStackAlloc(e)
  <2>1. pc'[e] \notin Forking
    BY <1>1, <1>22 DEF InitStackAlloc, Goto, At, CtlTypes, Forking
  <2>2. QED BY <1>1, <2>1, ForkSame
<1>23. CASE InitStackMap(e)
  <2>1. pc'[e] \notin Forking
    BY <1>1, <1>23 DEF InitStackMap, Goto, At, CtlTypes, Forking
  <2>2. QED BY <1>1, <2>1, ForkSame
<1>24. CASE InitStackUnmap(e)
  <2>1. pc'[e] \notin Forking
    BY <1>1, <1>24 DEF InitStackUnmap, Goto, At, CtlTypes, Forking
  <2>2. QED BY <1>1, <2>1, ForkSame
<1>25. CASE InitStackFails(e)
  <2>1. pc'[e] \notin Forking
    BY <1>1, <1>25 DEF InitStackFails, Goto, CtlTypes, Forking
  <2>2. QED BY <1>1, <2>1, ForkSame
<1>26. CASE MapSegmentAlloc(e)
  <2>1. pc'[e] \notin Forking
    BY <1>1, <1>26 DEF MapSegmentAlloc, Goto, At, CtlTypes, Forking
  <2>2. QED BY <1>1, <2>1, ForkSame
<1>27. CASE MapSegmentRead(e)
  <2>1. pc'[e] \notin Forking
    BY <1>1, <1>27 DEF MapSegmentRead, Goto, At, CtlTypes, Forking
  <2>2. QED BY <1>1, <2>1, ForkSame
<1>28. CASE MapSegmentMap(e)
  <2>1. pc'[e] \notin Forking
    BY <1>1, <1>28 DEF MapSegmentMap, Goto, At, CtlTypes, Forking
  <2>2. QED BY <1>1, <2>1, ForkSame
<1>29. CASE MapSegmentUnmap(e)
  <2>1. pc'[e] \notin Forking
    BY <1>1, <1>29 DEF MapSegmentUnmap, Goto, At, CtlTypes, Forking
  <2>2. QED BY <1>1, <2>1, ForkSame
<1>30. CASE MapSegmentBlank(e)
  <2>1. pc'[e] \notin Forking
    BY <1>1, <1>30 DEF MapSegmentBlank, Goto, At, CtlTypes, Forking
  <2>2. QED BY <1>1, <2>1, ForkSame
<1>31. CASE SpawnFails(e)
  <2>1. pc'[e] \notin Forking
    BY <1>1, <1>31, Here DEF SpawnFails, CtlTypes, Forking, Spawning
  <2>2. QED BY <1>1, <2>1, ForkSame
<1>32. CASE CopySharedPages(e)
  <2>1. pc'[e] \notin Forking
    BY <1>1, <1>32 DEF CopySharedPages, Goto, At, CtlTypes, Forking
  <2>2. QED BY <1>1, <2>1, ForkSame
<1>33. CASE SpawnPanics(e)
  <2>1. pc' = [pc EXCEPT ![e] = "panic"]
    BY <1>33 DEF SpawnPanics, Panic, Goto
  <2>2. pc'[e] \notin Forking
    BY <1>1, <2>1 DEF CtlTypes, Forking
  <2>3. QED BY <1>1, <2>2, ForkSame
<1>34. CASE SpawnDone(e)
  <2>1. pc'[e] \notin Forking
    BY <1>1, <1>34, Here DEF SpawnDone, SetRunnable, At, CtlTypes, Forking, Spawning
  <2>2. QED BY <1>1, <2>1, ForkSame
<1>35. CASE Destroyed(e)
  <2>1. pc' = [pc EXCEPT ![e] = "dead"]
    BY <1>35 DEF Destroyed, Gone
  <2>2. pc'[e] \notin Forking
    BY <1>1, <2>1 DEF CtlTypes, Forking
  <2>3. QED BY <1>1, <2>2, ForkSame
<1>36. QED
  BY <1>2, <1>3, <1>4, <1>5, <1>6, <1>7, <1>8, <1>9, <1>10, <1>11, <1>12,
     <1>13, <1>14, <1>15, <1>16, <1>17, <1>18, <1>19, <1>20, <1>21, <1>22,
     <1>23, <1>24, <1>25, <1>26, <1>27, <1>28, <1>29, <1>30, <1>31, <1>32,
     <1>33, <1>34, <1>35 DEF StepOf, Program, Handler, ForkStep, SpawnStep

LEMMA ForkInvStep ==
  ASSUME CowInv, NEW e \in Envs, StepOf(e)
  PROVE  ForkInv'
<1>1. ForkFact(e)'
  BY ForkMine
<1>2. \A g \in Envs \ {e} : ForkFact(g)'
  BY OnlyActor, TouchActor, NotBuilt, ForkOthers
<1>3. QED BY <1>1, <1>2 DEF ForkInv, ForkFact

-----------------------------------------------------------------------------
(* Which frames a step of a may write, and what the handler has copied.    *)

Alters(a, n) ==
  \/ n \in FreeFrames
  \/ n = pt[a]["pftemp"].fr /\ flt[a].step = "copy"
  \/ n = pt[a]["utemp"].fr /\ pc[a] = "sp_read"
  \/ /\ flt[a] = NoFault /\ pc[a] # "built"
     /\ \E v \in VPages : n = pt[a][v].fr /\ "W" \in pt[a][v].perm

LEMMA FillAlters ==
  ASSUME MemTypes, NEW a \in Envs, NEW c \in Envs, NEW va \in Vas, NEW perm \in Perms, NEW x \in Values,
         PageAllocFill(c, va, perm, x)
  PROVE  \A n \in Frames : mem'[n] = mem[n] \/ n \in FreeFrames
BY AllocIs DEF MemTypes

LEMMA MemActor ==
  ASSUME CowInv, NEW e \in Envs, StepOf(e)
  PROVE  \A n \in Frames : mem'[n] = mem[n] \/ Alters(e, n)
<1>1. MemTypes
  BY DEF CowInv, TypeInv
<1>2. ASSUME NEW va \in VPages, Fault(e, va) PROVE \A n \in Frames : mem'[n] = mem[n] \/ Alters(e, n)
  <2>1. UNCHANGED mem
    BY <1>2 DEF Fault
  <2>2. QED BY <2>1
<1>3. ASSUME NEW va \in VPages, FaultKills(e, va) PROVE \A n \in Frames : mem'[n] = mem[n] \/ Alters(e, n)
  <2>1. UNCHANGED mem
    BY <1>3 DEF FaultKills, Gone
  <2>2. QED BY <2>1
<1>4. ASSUME NEW va \in VPages, NEW x \in Values, Store(e, va, x) PROVE \A n \in Frames : mem'[n] = mem[n] \/ Alters(e, n)
  <2>1. /\ flt[e] = NoFault /\ pc[e] # "built" /\ "W" \in pt[e][va].perm
        /\ mem' = [mem EXCEPT ![pt[e][va].fr] = x]
    BY <1>4 DEF Store, MayStore, Forking, Spawning
  <2>2. QED BY <1>1, <2>1 DEF Alters, MemTypes
<1>5. CASE SetPgfaultHandler(e)
  <2>1. UNCHANGED mem \/ PageAllocFill(e, "uxstack", {"W"}, 0)
    BY <1>5 DEF SetPgfaultHandler, PageAlloc
  <2>2. QED BY <1>1, <2>1, FillAlters, SpotsAre, PermsAre DEF Alters
<1>6. CASE SetPgfaultHandlerPanics(e)
  <2>1. UNCHANGED mem
    BY <1>6 DEF SetPgfaultHandlerPanics, Panic
  <2>2. QED BY <2>1
<1>7. CASE Spawn(e)
  <2>1. UNCHANGED mem
    BY <1>7 DEF Spawn
  <2>2. QED BY <2>1
<1>8. CASE PgfaultAlloc(e)
  <2>1. PageAllocFill(e, "pftemp", {"W"}, 0)
    BY <1>8 DEF PgfaultAlloc, PageAlloc
  <2>2. QED BY <1>1, <2>1, FillAlters, SpotsAre, PermsAre DEF Alters
<1>9. CASE PgfaultPanics(e)
  <2>1. UNCHANGED mem
    BY <1>9 DEF PgfaultPanics, Panic
  <2>2. QED BY <2>1
<1>10. CASE PgfaultCopy(e)
  <2>1. flt[e].step = "copy" /\ mem' = [mem EXCEPT ![pt[e]["pftemp"].fr] = mem[pt[e][flt[e].va].fr]]
    BY <1>10 DEF PgfaultCopy, InFault
  <2>2. QED BY <1>1, <2>1 DEF Alters, MemTypes
<1>11. CASE PgfaultMap(e)
  <2>1. UNCHANGED mem
    BY <1>11 DEF PgfaultMap, PageMap
  <2>2. QED BY <2>1
<1>12. CASE PgfaultUnmap(e)
  <2>1. UNCHANGED mem
    BY <1>12 DEF PgfaultUnmap, PageUnmap
  <2>2. QED BY <2>1
<1>13. CASE PgfaultReturn(e)
  <2>1. UNCHANGED mem
    BY <1>13 DEF PgfaultReturn
  <2>2. QED BY <2>1
<1>14. CASE ForkExofork(e)
  <2>1. UNCHANGED mem
    BY <1>14 DEF ForkExofork, Exofork
  <2>2. QED BY <2>1
<1>15. CASE ForkExceptionStack(e)
  <2>1. child[e] \in Envs /\ PageAllocFill(child[e], "uxstack", {"W"}, 0)
    BY <1>15, Here DEF ForkExceptionStack, PageAlloc, At, Forking, Spawning
  <2>2. QED BY <1>1, <2>1, FillAlters, SpotsAre, PermsAre DEF Alters
<1>16. CASE ForkLoop(e)
  <2>1. UNCHANGED mem
    BY <1>16 DEF ForkLoop
  <2>2. QED BY <2>1
<1>17. CASE DuppageChild(e)
  <2>1. UNCHANGED mem
    BY <1>17 DEF DuppageChild, PageMap
  <2>2. QED BY <2>1
<1>18. CASE DuppageParent(e)
  <2>1. UNCHANGED mem
    BY <1>18 DEF DuppageParent, PageMap
  <2>2. QED BY <2>1
<1>19. CASE ForkFails(e)
  <2>1. UNCHANGED mem
    BY <1>19 DEF ForkFails
  <2>2. QED BY <2>1
<1>20. CASE ForkDone(e)
  <2>1. UNCHANGED mem
    BY <1>20 DEF ForkDone, SetRunnable
  <2>2. QED BY <2>1
<1>21. CASE SpawnExofork(e)
  <2>1. UNCHANGED mem
    BY <1>21 DEF SpawnExofork, Exofork
  <2>2. QED BY <2>1
<1>22. CASE InitStackAlloc(e)
  <2>1. PageAllocFill(e, "utemp", {"W"}, Image[Stack])
    BY <1>22 DEF InitStackAlloc
  <2>2. QED BY <1>1, <2>1, FillAlters, SpotsAre, PermsAre DEF Alters
<1>23. CASE InitStackMap(e)
  <2>1. UNCHANGED mem
    BY <1>23 DEF InitStackMap, PageMap
  <2>2. QED BY <2>1
<1>24. CASE InitStackUnmap(e)
  <2>1. UNCHANGED mem
    BY <1>24 DEF InitStackUnmap, PageUnmap
  <2>2. QED BY <2>1
<1>25. CASE InitStackFails(e)
  <2>1. UNCHANGED mem
    BY <1>25 DEF InitStackFails, PageUnmap
  <2>2. QED BY <2>1
<1>26. CASE MapSegmentAlloc(e)
  <2>1. PageAllocFill(e, "utemp", {"W"}, 0)
    BY <1>26 DEF MapSegmentAlloc, PageAlloc
  <2>2. QED BY <1>1, <2>1, FillAlters, SpotsAre, PermsAre DEF Alters
<1>27. CASE MapSegmentRead(e)
  <2>1. pc[e] = "sp_read" /\ mem' = [mem EXCEPT ![pt[e]["utemp"].fr] = Image[Va(e)]]
    BY <1>27 DEF MapSegmentRead, At
  <2>2. QED BY <1>1, <2>1 DEF Alters, MemTypes
<1>28. CASE MapSegmentMap(e)
  <2>1. UNCHANGED mem
    BY <1>28 DEF MapSegmentMap, PageMap
  <2>2. QED BY <2>1
<1>29. CASE MapSegmentUnmap(e)
  <2>1. UNCHANGED mem
    BY <1>29 DEF MapSegmentUnmap, PageUnmap
  <2>2. QED BY <2>1
<1>30. CASE MapSegmentBlank(e)
  <2>1. child[e] \in Envs /\ PageAllocFill(child[e], Bss, {"W"}, 0)
    BY <1>30, Here DEF MapSegmentBlank, PageAlloc, At, Forking, Spawning
  <2>2. QED BY <1>1, <2>1, FillAlters, SpotsAre, PermsAre DEF Alters
<1>31. CASE SpawnFails(e)
  <2>1. UNCHANGED mem
    BY <1>31 DEF SpawnFails
  <2>2. QED BY <2>1
<1>32. CASE CopySharedPages(e)
  <2>1. UNCHANGED mem
    BY <1>32 DEF CopySharedPages, PageMap
  <2>2. QED BY <2>1
<1>33. CASE SpawnPanics(e)
  <2>1. UNCHANGED mem
    BY <1>33 DEF SpawnPanics, Panic
  <2>2. QED BY <2>1
<1>34. CASE SpawnDone(e)
  <2>1. UNCHANGED mem
    BY <1>34 DEF SpawnDone, SetRunnable
  <2>2. QED BY <2>1
<1>35. CASE Destroyed(e)
  <2>1. UNCHANGED mem
    BY <1>35 DEF Destroyed, Gone
  <2>2. QED BY <2>1
<1>36. QED
  BY <1>2, <1>3, <1>4, <1>5, <1>6, <1>7, <1>8, <1>9, <1>10, <1>11, <1>12,
     <1>13, <1>14, <1>15, <1>16, <1>17, <1>18, <1>19, <1>20, <1>21, <1>22,
     <1>23, <1>24, <1>25, <1>26, <1>27, <1>28, <1>29, <1>30, <1>31, <1>32,
     <1>33, <1>34, <1>35 DEF StepOf, Program, Handler, ForkStep, SpawnStep

\* The two pages of a handler that has copied are written by no one else,
\* unless the page is one that others may share.
LEMMA CopiedSafe ==
  ASSUME CowInv, NEW a \in Envs, NEW g \in Envs \ {a}, flt[g].step = "map", NEW n, Alters(a, n)
  PROVE  n # pt[g]["pftemp"].fr /\ (flt[g].va # Shared => n # pt[g][flt[g].va].fr)
<1>1. OwnInv /\ PlaceInv /\ WriteInv /\ FaultInv /\ PteInv /\ LifeInv /\ MemTypes
  BY DEF CowInv, TypeInv
<1>2. /\ flt[g] # NoFault /\ flt[g].va \in VPages /\ pc[g] # "built"
      /\ "COW" \in pt[g][flt[g].va].perm /\ pt[g]["pftemp"].fr # NoOne
  BY <1>1, Here DEF FaultInv
<1>3. PICK u \in VPages : u = flt[g].va
  BY <1>2
<1>4. u \in Vas /\ "pftemp" \in Special /\ "pftemp" \in Vas /\ "utemp" \in Special /\ "utemp" \in Vas /\ u \notin Special
      /\ VPages \subseteq Vas
  BY SpotsAre
<1>5. pt[g][u].fr # NoOne
  BY <1>1, <1>2, <1>3, <1>4 DEF PteInv
<1>6. CASE n \in FreeFrames
  BY <1>3, <1>4, <1>6, FreeIs
<1>7. ASSUME NEW s \in {"pftemp", "utemp"}, n = pt[a][s].fr,
             s = "utemp" => pc[a] = "sp_read"
      PROVE  n # pt[g]["pftemp"].fr /\ n # pt[g][u].fr
  <2>1. s \in Special /\ s \in Vas /\ child[a] # g
    <3>1. child[a] # NoOne => pc[child[a]] = "built"
      BY <1>1 DEF LifeInv, ChildInv
    <3>2. QED BY <1>2, <1>4, <3>1, NothingIs
  <2>2. ~Passing(a, s, g, "pftemp") /\ ~Passing(a, s, g, u)
    BY <1>2, <1>4, <1>7, <2>1 DEF Passing, Lost
  <2>3. QED BY <1>1, <1>2, <1>4, <1>5, <1>7, <2>1, <2>2 DEF OwnInv
<1>8. ASSUME flt[a] = NoFault, pc[a] # "built", NEW v \in VPages, n = pt[a][v].fr, "W" \in pt[a][v].perm
      PROVE  n # pt[g]["pftemp"].fr /\ (u # Shared => n # pt[g][u].fr)
  <2>1. n # pt[g]["pftemp"].fr
    BY <1>2, <1>4, <1>8, NotSpecial
  <2>2. ASSUME n = pt[g][u].fr PROVE u = Shared
    <3>1. v = u
      BY <1>1, <1>5, <1>8, <2>2 DEF PlaceInv
    <3>2. "SHARE" \in pt[a][u].perm
      <4>1. "W" \in pt[a][u].perm /\ pt[g][u].fr = pt[a][u].fr /\ ~Hidden(a, g, u)
        BY <1>2, <1>8, <2>2, <3>1 DEF Hidden
      <4>2. QED BY <1>1, <4>1 DEF WriteInv, Lends
    <3>3. QED BY <1>1, <1>4, <3>2 DEF PteInv
  <2>3. QED BY <2>1, <2>2
<1>9. QED BY <1>3, <1>6, <1>7, <1>8 DEF Alters

LEMMA MapByCopy ==
  ASSUME CowInv, NEW e \in Envs, StepOf(e), ~PgfaultCopy(e)
  PROVE  flt'[e].step # "map"
<1>1. FltTypes
  BY DEF CowInv, TypeInv
<1>2. ASSUME NEW va \in VPages, Fault(e, va) PROVE flt'[e].step # "map"
  <2>1. flt' = [flt EXCEPT ![e] = [va |-> va, step |-> "check", outer |-> NoOne]]
    BY <1>2 DEF Fault
  <2>2. QED BY <1>1, <2>1 DEF FltTypes
<1>3. ASSUME NEW va \in VPages, FaultKills(e, va) PROVE flt'[e].step # "map"
  <2>1. flt' = [flt EXCEPT ![e] = NoFault]
    BY <1>3 DEF FaultKills, Gone
  <2>2. QED BY <1>1, <2>1, NothingIs DEF FltTypes
<1>4. ASSUME NEW va \in VPages, NEW x \in Values, Store(e, va, x) PROVE flt'[e].step # "map"
  <2>1. flt'[e] = NoFault
    BY <1>4 DEF Store, MayStore
  <2>2. QED BY <2>1, NothingIs
<1>5. CASE SetPgfaultHandler(e)
  <2>1. flt'[e] = NoFault
    BY <1>5 DEF SetPgfaultHandler, At
  <2>2. QED BY <2>1, NothingIs
<1>6. CASE SetPgfaultHandlerPanics(e)
  <2>1. flt' = [flt EXCEPT ![e] = NoFault]
    BY <1>6 DEF SetPgfaultHandlerPanics, Panic
  <2>2. QED BY <1>1, <2>1, NothingIs DEF FltTypes
<1>7. CASE Spawn(e)
  <2>1. flt'[e] = NoFault
    BY <1>7 DEF Spawn, At
  <2>2. QED BY <2>1, NothingIs
<1>8. CASE PgfaultAlloc(e)
  <2>1. FaultStep(e, "copy")
    BY <1>8 DEF PgfaultAlloc
  <2>2. flt'[e] = [va |-> flt[e].va, step |-> "copy", outer |-> flt[e].outer]
    BY <1>1, <2>1, FaultGoes DEF Steps
  <2>3. QED BY <2>2
<1>9. CASE PgfaultPanics(e)
  <2>1. flt' = [flt EXCEPT ![e] = NoFault]
    BY <1>9 DEF PgfaultPanics, Panic
  <2>2. QED BY <1>1, <2>1, NothingIs DEF FltTypes
<1>10. CASE PgfaultCopy(e)
  BY <1>10
<1>11. CASE PgfaultMap(e)
  <2>1. FaultStep(e, "unmap")
    BY <1>11 DEF PgfaultMap
  <2>2. flt'[e] = [va |-> flt[e].va, step |-> "unmap", outer |-> flt[e].outer]
    BY <1>1, <2>1, FaultGoes DEF Steps
  <2>3. QED BY <2>2
<1>12. CASE PgfaultUnmap(e)
  <2>1. FaultStep(e, "return")
    BY <1>12 DEF PgfaultUnmap
  <2>2. flt'[e] = [va |-> flt[e].va, step |-> "return", outer |-> flt[e].outer]
    BY <1>1, <2>1, FaultGoes DEF Steps
  <2>3. QED BY <2>2
<1>13. CASE PgfaultReturn(e)
  <2>1. \/ flt' = [flt EXCEPT ![e] = NoFault]
        \/ flt' = [flt EXCEPT ![e] = [va |-> flt[e].outer, step |-> "return", outer |-> NoOne]]
        \/ flt' = [flt EXCEPT ![e] = [va |-> Stack, step |-> "check", outer |-> flt[e].va]]
    BY <1>1, <1>13 DEF PgfaultReturn, FltTypes
  <2>2. QED BY <1>1, <2>1, NothingIs DEF FltTypes
<1>14. CASE ForkExofork(e)
  <2>1. flt'[e] = NoFault
    BY <1>14 DEF ForkExofork, Exofork, At
  <2>2. QED BY <2>1, NothingIs
<1>15. CASE ForkExceptionStack(e)
  <2>1. flt'[e] = NoFault
    BY <1>15 DEF ForkExceptionStack, At
  <2>2. QED BY <2>1, NothingIs
<1>16. CASE ForkLoop(e)
  <2>1. flt'[e] = NoFault
    BY <1>16 DEF ForkLoop, At
  <2>2. QED BY <2>1, NothingIs
<1>17. CASE DuppageChild(e)
  <2>1. flt'[e] = NoFault
    BY <1>17 DEF DuppageChild, At
  <2>2. QED BY <2>1, NothingIs
<1>18. CASE DuppageParent(e)
  <2>1. flt'[e] = NoFault
    BY <1>18 DEF DuppageParent, At
  <2>2. QED BY <2>1, NothingIs
<1>19. CASE ForkFails(e)
  <2>1. flt'[e] = NoFault
    BY <1>19 DEF ForkFails
  <2>2. QED BY <2>1, NothingIs
<1>20. CASE ForkDone(e)
  <2>1. flt'[e] = NoFault
    BY <1>20 DEF ForkDone, SetRunnable, At
  <2>2. QED BY <2>1, NothingIs
<1>21. CASE SpawnExofork(e)
  <2>1. flt'[e] = NoFault
    BY <1>21 DEF SpawnExofork, Exofork, At
  <2>2. QED BY <2>1, NothingIs
<1>22. CASE InitStackAlloc(e)
  <2>1. flt'[e] = NoFault
    BY <1>22 DEF InitStackAlloc, At
  <2>2. QED BY <2>1, NothingIs
<1>23. CASE InitStackMap(e)
  <2>1. flt'[e] = NoFault
    BY <1>23 DEF InitStackMap, At
  <2>2. QED BY <2>1, NothingIs
<1>24. CASE InitStackUnmap(e)
  <2>1. flt'[e] = NoFault
    BY <1>24 DEF InitStackUnmap, At
  <2>2. QED BY <2>1, NothingIs
<1>25. CASE InitStackFails(e)
  <2>1. flt'[e] = NoFault
    BY <1>25 DEF InitStackFails
  <2>2. QED BY <2>1, NothingIs
<1>26. CASE MapSegmentAlloc(e)
  <2>1. flt'[e] = NoFault
    BY <1>26 DEF MapSegmentAlloc, At
  <2>2. QED BY <2>1, NothingIs
<1>27. CASE MapSegmentRead(e)
  <2>1. flt'[e] = NoFault
    BY <1>27 DEF MapSegmentRead, At
  <2>2. QED BY <2>1, NothingIs
<1>28. CASE MapSegmentMap(e)
  <2>1. flt'[e] = NoFault
    BY <1>28 DEF MapSegmentMap, At
  <2>2. QED BY <2>1, NothingIs
<1>29. CASE MapSegmentUnmap(e)
  <2>1. flt'[e] = NoFault
    BY <1>29 DEF MapSegmentUnmap, At
  <2>2. QED BY <2>1, NothingIs
<1>30. CASE MapSegmentBlank(e)
  <2>1. flt'[e] = NoFault
    BY <1>30 DEF MapSegmentBlank, At
  <2>2. QED BY <2>1, NothingIs
<1>31. CASE SpawnFails(e)
  <2>1. flt'[e] = NoFault
    BY <1>31 DEF SpawnFails
  <2>2. QED BY <2>1, NothingIs
<1>32. CASE CopySharedPages(e)
  <2>1. flt'[e] = NoFault
    BY <1>32 DEF CopySharedPages, At
  <2>2. QED BY <2>1, NothingIs
<1>33. CASE SpawnPanics(e)
  <2>1. flt' = [flt EXCEPT ![e] = NoFault]
    BY <1>33 DEF SpawnPanics, Panic
  <2>2. QED BY <1>1, <2>1, NothingIs DEF FltTypes
<1>34. CASE SpawnDone(e)
  <2>1. flt'[e] = NoFault
    BY <1>34 DEF SpawnDone, SetRunnable, At
  <2>2. QED BY <2>1, NothingIs
<1>35. CASE Destroyed(e)
  <2>1. flt' = [flt EXCEPT ![e] = NoFault]
    BY <1>35 DEF Destroyed, Gone
  <2>2. QED BY <1>1, <2>1, NothingIs DEF FltTypes
<1>36. QED
  BY <1>2, <1>3, <1>4, <1>5, <1>6, <1>7, <1>8, <1>9, <1>10, <1>11, <1>12,
     <1>13, <1>14, <1>15, <1>16, <1>17, <1>18, <1>19, <1>20, <1>21, <1>22,
     <1>23, <1>24, <1>25, <1>26, <1>27, <1>28, <1>29, <1>30, <1>31, <1>32,
     <1>33, <1>34, <1>35 DEF StepOf, Program, Handler, ForkStep, SpawnStep

LEMMA CopiedStep ==
  ASSUME CowInv, NEW e \in Envs, StepOf(e)
  PROVE  CopiedInv'
<1>1. CopiedInv /\ FaultInv /\ LifeInv /\ CtlTypes /\ FltTypes /\ MemTypes /\ PteInv
  BY DEF CowInv, TypeInv
<1> SUFFICES ASSUME NEW g \in Envs, flt'[g].step = "map", flt'[g].va # Shared
             PROVE  mem'[pt'[g]["pftemp"].fr] = mem'[pt'[g][flt'[g].va].fr]
  BY DEF CopiedInv
<1>2. OnlyBy(e) /\ Touch(e) /\ \A n \in Frames : mem'[n] = mem[n] \/ Alters(e, n)
  BY OnlyActor, TouchActor, MemActor
<1>3. CASE g # e
  <2>1. flt'[g] = flt[g]
    BY <1>2, <1>3 DEF OnlyBy
  <2>2. /\ flt[g].va \in VPages /\ pc[g] # "built"
        /\ "COW" \in pt[g][flt[g].va].perm /\ pt[g]["pftemp"].fr # NoOne
    BY <1>1, <2>1, Here DEF FaultInv
  <2>3. g # child[e] \/ pc[e] \notin Making
    BY <1>1, <2>2 DEF LifeInv, ChildInv
  <2>4. PICK u \in VPages : u = flt[g].va
    BY <2>2
  <2>5. pt'[g]["pftemp"] = pt[g]["pftemp"] /\ pt'[g][u] = pt[g][u]
    BY <1>2, <1>3, <2>3, SpotsAre DEF Touch
  <2>6. pt[g]["pftemp"].fr \in Frames /\ pt[g][u].fr \in Frames
    BY <1>1, <2>2, <2>4, SpotsAre DEF MemTypes, Ptes, PteInv
  <2>7. mem'[pt[g]["pftemp"].fr] = mem[pt[g]["pftemp"].fr] /\ mem'[pt[g][u].fr] = mem[pt[g][u].fr]
    BY <1>2, <1>3, <2>1, <2>4, <2>6, CopiedSafe
  <2>8. QED BY <1>1, <2>1, <2>4, <2>5, <2>7 DEF CopiedInv
<1>4. CASE g = e
  <2>1. CASE PgfaultCopy(e)
    <3>1. FaultStep(e, "map") /\ flt[e].step = "copy" /\ UNCHANGED pt
          /\ mem' = [mem EXCEPT ![pt[e]["pftemp"].fr] = mem[pt[e][flt[e].va].fr]]
      BY <2>1 DEF PgfaultCopy, InFault
    <3>2. flt'[e].va = flt[e].va
      <4>1. flt'[e] = [va |-> flt[e].va, step |-> "map", outer |-> flt[e].outer]
        BY <1>1, <3>1, FaultGoes DEF Steps
      <4>2. QED BY <4>1
    <3>3. /\ flt[e].va \in VPages /\ "COW" \in pt[e][flt[e].va].perm /\ pt[e]["pftemp"].fr # NoOne
      BY <1>1, <3>1, Here DEF FaultInv
    <3>4. pt[e]["pftemp"].fr \in Frames /\ pt[e][flt[e].va].fr \in Frames
      BY <1>1, <3>3, SpotsAre DEF MemTypes, Ptes, PteInv
    <3>5. QED BY <1>1, <1>4, <3>1, <3>2, <3>4 DEF MemTypes
  <2>2. CASE ~PgfaultCopy(e)
    BY <1>1, <1>4, <2>2, MapByCopy
  <2>3. QED BY <2>1, <2>2
<1>5. QED BY <1>3, <1>4

-----------------------------------------------------------------------------
(* The invariant, and what follows from it. *)

LEMMA InitCow == Init => CowInv
<1> SUFFICES ASSUME Init PROVE CowInv
  OBVIOUS
<1>1. TypeInv
  BY InitTypes
<1>2. /\ \A e \in Envs : pc[e] = IF e = First THEN "run" ELSE "unborn"
      /\ \A e \in Envs : child[e] = NoOne /\ page[e] = 0 /\ flt[e] = NoFault /\ ~upcall[e]
      /\ \A e \in Envs : pt[e] = IF e = First THEN FirstPt ELSE NoPt
  BY DEF Init
<1>3. /\ FirstPt["text"] = [fr |-> 1, perm |-> {}] /\ FirstPt["bss"] = [fr |-> 2, perm |-> {"W"}]
      /\ FirstPt["shared"] = [fr |-> 3, perm |-> {"W", "SHARE"}]
      /\ FirstPt["stack"] = [fr |-> 4, perm |-> {"W"}]
      /\ \A s \in Special : FirstPt[s] = NoPte
  <2>1. NoPt \in [Vas -> Ptes] /\ \A v \in Vas : NoPt[v] = NoPte
    BY NothingIs
  <2>2. QED BY <2>1, PagesAre DEF FirstPt, Text, Bss, Shared, Stack, Vas
<1>4. {1, 2, 3, 4} \subseteq Frames /\ NoOne \notin Frames
  BY ForkAssumption
<1>5. PteInv
  <2>1. \A e \in Envs : \A v \in Vas : pt[e][v] = NoPte \/ pt[e][v] = FirstPt[v]
    BY <1>2, NothingIs
  <2>2. \A v \in VPages : FirstPt[v].fr # NoOne /\ ("SHARE" \in FirstPt[v].perm => v = Shared)
    BY <1>3, <1>4, PagesAre DEF Shared
  <2>3. QED BY <1>3, <2>1, <2>2, SpotsAre, NothingIs DEF PteInv
<1>6. \A e \in Envs : pc[e] \notin Making /\ pc[e] \notin Forking /\ pc[e] \notin Spawning
  BY <1>2 DEF Making, Forking, Spawning
<1>7. LifeInv /\ PageInv /\ FaultInv /\ CopiedInv
  BY <1>2, <1>6, NothingIs DEF LifeInv, ChildInv, IdleInv, PageInv, FaultInv, CopiedInv
<1>8. ReadyInv /\ ForkInv
  BY <1>2, <1>6 DEF ReadyInv, ForkInv, Forking, Spawning
<1>9. HandInv
  <2>1. \A v \in VPages : "COW" \notin FirstPt[v].perm
    BY <1>3, PagesAre
  <2>2. \A v \in VPages : "COW" \notin NoPt[v].perm
    BY SpotsAre, NothingIs
  <2>3. QED BY <1>2, <2>1, <2>2 DEF HandInv
<1>10. \A e \in Envs, s \in Special : pt[e][s].fr = NoOne
  BY <1>2, <1>3, SpotsAre, NothingIs
<1>11. OwnInv
  BY <1>10 DEF OwnInv
<1>12. \A e \in Envs, v \in Vas : pt[e][v].fr # NoOne => e = First /\ v \in VPages
  BY <1>2, <1>10, SpotsAre, NothingIs
<1>13. PlaceInv
  <2>1. \A v, w \in VPages : FirstPt[v].fr = FirstPt[w].fr => v = w
    BY <1>3, PagesAre
  <2>2. QED BY <1>2, <1>12, <2>1, SpotsAre DEF PlaceInv
<1>14. WriteInv
  BY <1>5, <1>12, SpotsAre DEF WriteInv, PteInv
<1>15. QED BY <1>1, <1>5, <1>7, <1>8, <1>9, <1>11, <1>13, <1>14 DEF CowInv

LEMMA CowStep == CowInv /\ [Next]_vars => CowInv'
<1> SUFFICES ASSUME CowInv, [Next]_vars PROVE CowInv'
  OBVIOUS
<1>1. CASE UNCHANGED vars
  <2>1. UNCHANGED <<pc, child, page, flt, upcall, pt, mem>>
    BY <1>1 DEF vars
  <2>2. TypeInv' /\ PteInv'
    BY <2>1 DEF CowInv, TypeInv, CtlTypes, FltTypes, MemTypes, PteInv
  <2>3. LifeInv' /\ PageInv'
    BY <2>1 DEF CowInv, LifeInv, ChildInv, IdleInv, PageInv
  <2>4. FaultInv' /\ CopiedInv' /\ PlaceInv' /\ ReadyInv' /\ HandInv'
    BY <2>1 DEF CowInv, FaultInv, CopiedInv, PlaceInv, ReadyInv, HandInv
  <2>5. OwnInv'
    BY <2>1 DEF CowInv, OwnInv, Passing, Lost
  <2>6. WriteInv'
    <3>1. \A e, f \in Envs, v \in VPages : Hidden(e, f, v)' <=> Hidden(e, f, v)
      BY <2>1 DEF Hidden, Va
    <3>2. WriteInv
      BY DEF CowInv
    <3>3. QED BY <2>1, <3>1, <3>2 DEF WriteInv
  <2>7. ForkInv'
    BY <2>1 DEF CowInv, ForkInv
  <2>8. QED BY <2>2, <2>3, <2>4, <2>5, <2>6, <2>7 DEF CowInv
<1>2. CASE Next
  <2>1. PICK e \in Envs : StepOf(e)
    BY <1>2 DEF Next, StepOf
  <2>2. TypeInv' /\ PteInv'
    BY <2>1, CtlStep, FltStep, MemStep DEF TypeInv
  <2>3. LifeInv' /\ PageInv' /\ FaultInv' /\ CopiedInv'
    BY <2>1, ChildStep, IdleStep, PageStep, FaultInvStep, CopiedStep DEF LifeInv
  <2>4. OwnInv' /\ PlaceInv' /\ WriteInv' /\ ForkInv'
    BY <2>1, FrameStep, ForkInvStep
  <2>5. ReadyInv' /\ HandInv'
    BY <2>1, ReadyStep, HandStep
  <2>6. QED BY <2>2, <2>3, <2>4, <2>5 DEF CowInv
<1>3. QED BY <1>1, <1>2

(* The inductive invariant: the special pages are mapped once, a frame is  *)
(* at one address, and who may write a frame that another maps too has it  *)
(* as a shared page or forks at this moment, and the other is the child.   *)
THEOREM CowInvariant == Spec => []CowInv
<1>1. QED BY InitCow, CowStep, PTL DEF Spec

LEMMA CowWritable == CowInv => WritableMeansSole
<1> SUFFICES ASSUME CowInv, NEW e \in Envs, NEW f \in Envs, NEW v \in VPages, NEW w \in VPages,
                    Running(e), Running(f), e # f, "W" \in pt[e][v].perm, pt[f][w].fr = pt[e][v].fr
             PROVE  /\ v = Shared /\ w = Shared
                    /\ "SHARE" \in pt[e][v].perm /\ pt[f][w].perm \cap {"SHARE", "COW"} # {}
  BY DEF WritableMeansSole
<1>1. PteInv /\ PlaceInv /\ WriteInv
  BY DEF CowInv
<1>2. v \in Vas /\ w \in Vas
  BY SpotsAre
<1>3. pt[e][v].fr # NoOne
  BY <1>1, <1>2 DEF PteInv
<1>4. v = w
  BY <1>1, <1>3 DEF PlaceInv
<1>5. ~Hidden(e, f, v)
  BY DEF Hidden, Running
<1>6. Lends(pt[e][v], pt[f][v])
  BY <1>1, <1>4, <1>5 DEF WriteInv
<1>7. QED BY <1>1, <1>2, <1>4, <1>6 DEF Lends, PteInv

(* A frame that one running environment may write is mapped by another     *)
(* only if it is the shared page of both, by spawn or by fork: the order   *)
(* of duppage, the parent's fault between its two calls, and whatever      *)
(* other environments do meanwhile leave no other page copy-on-write for   *)
(* one and still writable for the other.                                   *)
THEOREM WritableMeansSoleHolds == Spec => []WritableMeansSole
<1>1. QED BY CowInvariant, CowWritable, PTL

LEMMA CowReady == CowInv => HandlerReady
<1> SUFFICES ASSUME CowInv, NEW e \in Envs, NEW v \in VPages, "COW" \in pt[e][v].perm
             PROVE  /\ upcall[e] /\ "W" \in pt[e]["uxstack"].perm
                    /\ \A f \in Envs \ {e} : \A va \in DOMAIN NoPt : pt[f][va].fr # pt[e]["uxstack"].fr
  BY DEF HandlerReady
<1>1. PteInv /\ OwnInv /\ HandInv
  BY DEF CowInv
<1>2. upcall[e] /\ "W" \in pt[e]["uxstack"].perm
  BY <1>1 DEF HandInv
<1>3. "uxstack" \in Special /\ "uxstack" \in Vas
  BY SpotsAre
<1>4. pt[e]["uxstack"].fr # NoOne
  BY <1>1, <1>2, <1>3 DEF PteInv
<1>5. \A f \in Envs \ {e} : \A va \in Vas : pt[f][va].fr # pt[e]["uxstack"].fr
  BY <1>1, <1>3, <1>4 DEF OwnInv, Passing
<1>6. DOMAIN NoPt = Vas
  BY DEF NoPt, Vas
<1>7. QED BY <1>2, <1>5, <1>6

(* Whoever runs with a copy-on-write page has a handler and an exception   *)
(* stack that no one else maps, so that its first store to the page, in    *)
(* the parent while it forks or in the child as it starts, is handled.     *)
THEOREM HandlerReadyHolds == Spec => []HandlerReady
<1>1. QED BY CowInvariant, CowReady, PTL

=============================================================================
