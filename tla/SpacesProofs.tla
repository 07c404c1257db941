---------------------------- MODULE SpacesProofs -----------------------------
(***************************************************************************)
(* Fork implements AddressSpaces, for any number of environments, frames   *)
(* and values: every step of fork, spawn and the fault handler is a step of*)
(* private memories, or none.                                              *)
(***************************************************************************)
EXTENDS ForkProofs

-----------------------------------------------------------------------------
(* What the mapping needs beside CowInv. *)

\* Whatever runs has all its pages; the shared one may be missing.
WholeInv ==
  \A e \in Envs : pc[e] \notin {"unborn", "built", "dead"} =>
     \A v \in VPages \ {Shared} : pt[e][v].fr # NoOne

\* All who share a page share the same one.
GroupInv ==
  \A e, f \in Envs :
     "SHARE" \in pt[e][Shared].perm /\ "SHARE" \in pt[f][Shared].perm =>
        pt[e][Shared].fr = pt[f][Shared].fr

\* fork has given its child the pages up to the one it has come to.
Given(e, j) == j < page[e] \/ (j = page[e] /\ pc[e] = "remap")

ForkGives(e) ==
  pc[e] \in Forking \ {"exofork"} =>
     /\ \A j \in 1 .. 4 :
          IF Given(e, j) THEN pt[child[e]][Order[j]].fr = NoOne <=> pt[e][Order[j]].fr = NoOne
                         ELSE pt[child[e]][Order[j]].fr = NoOne
     /\ pc[e] = "start" => page[e] = 5
     /\ pc[e] = "remap" /\ "SHARE" \in pt[e][Va(e)].perm => pt[child[e]][Va(e)].fr = pt[e][Va(e)].fr

\* spawn has given its child the stack, the segments and the shared page.
SpawnGives(e) ==
  pc[e] \in Spawning \ {"sp_exofork"} =>
     /\ pt[child[e]][Stack].fr = NoOne <=> pc[e] \in {"sp_stack", "sp_stackmap"}
     /\ pt[child[e]][Text].fr = NoOne <=>
          page[e] = 1 /\ pc[e] # "sp_segunmap"
     /\ pt[child[e]][Bss].fr = NoOne <=> page[e] < 3
     /\ pc[e] # "sp_start" => pt[child[e]][Shared].fr = NoOne
     /\ pc[e] = "sp_start" =>
          ("SHARE" \in pt[child[e]][Shared].perm <=> "SHARE" \in pt[e][Shared].perm)

\* What spawn has at UTEMP is there, and is what the child is to have.
Filled(e) ==
  /\ pc[e] \in {"sp_stackmap", "sp_read", "sp_segmap"} => pt[e]["utemp"].fr # NoOne
  /\ pc[e] = "sp_stackmap" => mem[pt[e]["utemp"].fr] = Image[Stack]
  /\ pc[e] = "sp_segmap" => mem[pt[e]["utemp"].fr] = Image[Text]

GiveInv == \A e \in Envs : ForkGives(e) /\ SpawnGives(e) /\ Filled(e)

SpaceInv == WholeInv /\ GroupInv /\ GiveInv

-----------------------------------------------------------------------------
(* A shared page comes only from one who has it. *)

SharesOnly(a) ==
  \A g \in Envs :
     \/ pt'[g][Shared] = pt[g][Shared]
     \/ "SHARE" \notin pt'[g][Shared].perm
     \/ "SHARE" \in pt[a][Shared].perm /\ pt'[g][Shared].fr = pt[a][Shared].fr

\* No step gives a shared page that the actor does not have.
LEMMA SharesActor ==
  ASSUME CowInv, NEW e \in Envs, StepOf(e)
  PROVE  SharesOnly(e)
<1>1. MemTypes
  BY DEF CowInv, TypeInv
<1>2. ASSUME NEW va \in VPages, Fault(e, va) PROVE SharesOnly(e)
  <2>1. UNCHANGED pt
    BY <1>2 DEF Fault
  <2>2. QED BY <2>1 DEF SharesOnly
<1>3. ASSUME NEW va \in VPages, FaultKills(e, va) PROVE SharesOnly(e)
  <2>1. \A g \in Envs, w \in Vas : pt'[g][w] = IF g = e THEN NoPte ELSE pt[g][w]
    BY <1>1, <1>3, ClearIs DEF FaultKills, Gone
  <2>2. QED BY <2>1, SpotsAre, NothingIs DEF SharesOnly
<1>4. ASSUME NEW va \in VPages, NEW x \in Values, Store(e, va, x) PROVE SharesOnly(e)
  <2>1. UNCHANGED pt
    BY <1>4 DEF Store
  <2>2. QED BY <2>1 DEF SharesOnly
<1>5. CASE SetPgfaultHandler(e)
  <2>1. UNCHANGED pt \/ NewEntry(e, "uxstack", {"W"})
    BY <1>5, Entries
  <2>2. QED BY <2>1, SpotsAre DEF SharesOnly, Entry, NewEntry, Pte
<1>6. CASE SetPgfaultHandlerPanics(e)
  <2>1. UNCHANGED pt
    BY <1>6 DEF SetPgfaultHandlerPanics, Panic
  <2>2. QED BY <2>1 DEF SharesOnly
<1>7. CASE Spawn(e)
  <2>1. UNCHANGED pt
    BY <1>7 DEF Spawn
  <2>2. QED BY <2>1 DEF SharesOnly
<1>8. CASE PgfaultAlloc(e)
  <2>1. NewEntry(e, "pftemp", {"W"})
    BY <1>8, Entries
  <2>2. QED BY <2>1, SpotsAre, NothingIs DEF SharesOnly, Entry, NewEntry, MapEntry, Pte
<1>9. CASE PgfaultPanics(e)
  <2>1. UNCHANGED pt
    BY <1>9 DEF PgfaultPanics, Panic
  <2>2. QED BY <2>1 DEF SharesOnly
<1>10. CASE PgfaultCopy(e)
  <2>1. UNCHANGED pt
    BY <1>10 DEF PgfaultCopy
  <2>2. QED BY <2>1 DEF SharesOnly
<1>11. CASE PgfaultMap(e)
  <2>1. MapEntry(e, "pftemp", e, flt[e].va, {"W"})
    BY <1>11, Entries
  <2>2. QED BY <2>1, SpotsAre, NothingIs DEF SharesOnly, Entry, NewEntry, MapEntry, Pte
<1>12. CASE PgfaultUnmap(e)
  <2>1. Entry(e, "pftemp", NoPte)
    BY <1>12, Entries
  <2>2. QED BY <2>1, SpotsAre, NothingIs DEF SharesOnly, Entry, NewEntry, MapEntry, Pte
<1>13. CASE PgfaultReturn(e)
  <2>1. UNCHANGED pt
    BY <1>13 DEF PgfaultReturn
  <2>2. QED BY <2>1 DEF SharesOnly
<1>14. CASE ForkExofork(e)
  <2>1. UNCHANGED pt
    BY <1>14 DEF ForkExofork, Exofork
  <2>2. QED BY <2>1 DEF SharesOnly
<1>15. CASE ForkExceptionStack(e)
  <2>1. NewEntry(child[e], "uxstack", {"W"})
    BY <1>15, Entries
  <2>2. QED BY <2>1, SpotsAre, NothingIs DEF SharesOnly, Entry, NewEntry, MapEntry, Pte
<1>16. CASE ForkLoop(e)
  <2>1. UNCHANGED pt
    BY <1>16 DEF ForkLoop
  <2>2. QED BY <2>1 DEF SharesOnly
<1>17. CASE DuppageChild(e)
  <2>1. \/ MapEntry(e, Va(e), child[e], Va(e), {"COW"})
        \/ MapEntry(e, Va(e), child[e], Va(e), {})
    BY <1>17, Entries
  <2>2. QED BY <2>1, SpotsAre DEF SharesOnly, Entry, MapEntry, Pte
<1>18. CASE DuppageParent(e)
  <2>1. MapEntry(e, Va(e), e, Va(e), {"COW"})
    BY <1>18, Entries
  <2>2. QED BY <2>1, SpotsAre, NothingIs DEF SharesOnly, Entry, NewEntry, MapEntry, Pte
<1>19. CASE ForkFails(e)
  <2>1. UNCHANGED pt
    BY <1>19 DEF ForkFails
  <2>2. QED BY <2>1 DEF SharesOnly
<1>20. CASE ForkDone(e)
  <2>1. UNCHANGED pt
    BY <1>20 DEF ForkDone, SetRunnable
  <2>2. QED BY <2>1 DEF SharesOnly
<1>21. CASE SpawnExofork(e)
  <2>1. UNCHANGED pt
    BY <1>21 DEF SpawnExofork, Exofork
  <2>2. QED BY <2>1 DEF SharesOnly
<1>22. CASE InitStackAlloc(e)
  <2>1. NewEntry(e, "utemp", {"W"})
    BY <1>22, Entries
  <2>2. QED BY <2>1, SpotsAre, NothingIs DEF SharesOnly, Entry, NewEntry, MapEntry, Pte
<1>23. CASE InitStackMap(e)
  <2>1. MapEntry(e, "utemp", child[e], Stack, {"W"})
    BY <1>23, Entries
  <2>2. QED BY <2>1, SpotsAre, NothingIs DEF SharesOnly, Entry, NewEntry, MapEntry, Pte
<1>24. CASE InitStackUnmap(e)
  <2>1. Entry(e, "utemp", NoPte)
    BY <1>24, Entries
  <2>2. QED BY <2>1, SpotsAre, NothingIs DEF SharesOnly, Entry, NewEntry, MapEntry, Pte
<1>25. CASE InitStackFails(e)
  <2>1. UNCHANGED pt \/ Entry(e, "utemp", NoPte)
    BY <1>25, Entries
  <2>2. QED BY <2>1, SpotsAre, NothingIs DEF SharesOnly, Entry
<1>26. CASE MapSegmentAlloc(e)
  <2>1. NewEntry(e, "utemp", {"W"})
    BY <1>26, Entries
  <2>2. QED BY <2>1, SpotsAre, NothingIs DEF SharesOnly, Entry, NewEntry, MapEntry, Pte
<1>27. CASE MapSegmentRead(e)
  <2>1. UNCHANGED pt
    BY <1>27 DEF MapSegmentRead
  <2>2. QED BY <2>1 DEF SharesOnly
<1>28. CASE MapSegmentMap(e)
  <2>1. MapEntry(e, "utemp", child[e], Va(e), {})
    BY <1>28, Entries
  <2>2. QED BY <2>1, SpotsAre, NothingIs DEF SharesOnly, Entry, NewEntry, MapEntry, Pte
<1>29. CASE MapSegmentUnmap(e)
  <2>1. Entry(e, "utemp", NoPte)
    BY <1>29, Entries
  <2>2. QED BY <2>1, SpotsAre, NothingIs DEF SharesOnly, Entry, NewEntry, MapEntry, Pte
<1>30. CASE MapSegmentBlank(e)
  <2>1. NewEntry(child[e], Bss, {"W"})
    BY <1>30, Entries
  <2>2. QED BY <2>1, SpotsAre, NothingIs DEF SharesOnly, Entry, NewEntry, MapEntry, Pte
<1>31. CASE SpawnFails(e)
  <2>1. \A g \in Envs, w \in Vas : pt'[g][w] = IF g = child[e] THEN NoPte ELSE pt[g][w]
    BY <1>1, <1>31, Here, ClearIs DEF SpawnFails, Spawning
  <2>2. QED BY <2>1, SpotsAre, NothingIs DEF SharesOnly
<1>32. CASE CopySharedPages(e)
  <2>1. IF "SHARE" \in pt[e][Shared].perm
        THEN MapEntry(e, Shared, child[e], Shared, {"W", "SHARE"})
        ELSE UNCHANGED pt
    BY <1>32, Entries
  <2>2. QED BY <2>1, SpotsAre DEF SharesOnly, Entry, MapEntry, Pte
<1>33. CASE SpawnPanics(e)
  <2>1. UNCHANGED pt
    BY <1>33 DEF SpawnPanics, Panic
  <2>2. QED BY <2>1 DEF SharesOnly
<1>34. CASE SpawnDone(e)
  <2>1. UNCHANGED pt
    BY <1>34 DEF SpawnDone, SetRunnable
  <2>2. QED BY <2>1 DEF SharesOnly
<1>35. CASE Destroyed(e)
  <2>1. \A g \in Envs, w \in Vas : pt'[g][w] = IF g = e THEN NoPte ELSE pt[g][w]
    BY <1>1, <1>35, ClearIs DEF Destroyed, Gone
  <2>2. QED BY <2>1, SpotsAre, NothingIs DEF SharesOnly
<1>36. QED
   BY <1>2, <1>3, <1>4, <1>5, <1>6, <1>7, <1>8, <1>9, <1>10, <1>11, <1>12,
     <1>13, <1>14, <1>15, <1>16, <1>17, <1>18, <1>19, <1>20, <1>21, <1>22,
     <1>23, <1>24, <1>25, <1>26, <1>27, <1>28, <1>29, <1>30, <1>31, <1>32,
     <1>33, <1>34, <1>35 DEF StepOf, Program, Handler, ForkStep, SpawnStep

\* So those who share go on sharing one page.
LEMMA GroupStep ==
  ASSUME GroupInv, NEW e \in Envs, SharesOnly(e)
  PROVE  GroupInv'
BY DEF GroupInv, SharesOnly

-----------------------------------------------------------------------------
(* What fork and spawn have given: what others do does not matter to it.   *)

Gives(e) == ForkGives(e) /\ SpawnGives(e) /\ Filled(e)

\* The order in which fork visits the pages names each of them once.
LEMMA OrderIs ==
  /\ \A j \in 1 .. 4 : Order[j] \in VPages /\ Order[j] \in Vas
  /\ \A i, j \in 1 .. 4 : Order[i] = Order[j] => i = j
  /\ \A v \in VPages : \E j \in 1 .. 4 : Order[j] = v
  /\ Order[1] = Text /\ Order[2] = Bss /\ Order[3] = Shared /\ Order[4] = Stack
BY PagesAre DEF Vas, Text, Bss, Shared, Stack

\* The page at UTEMP that spawn has filled is written by no one.
LEMMA FilledSafe ==
  ASSUME CowInv, NEW a \in Envs, pc[a] # "built", NEW g \in Envs, pc[g] \in {"sp_stackmap", "sp_segmap"},
         pt[g]["utemp"].fr # NoOne, NEW n, Alters(a, n)
  PROVE  n # pt[g]["utemp"].fr
<1> SUFFICES ASSUME n = pt[g]["utemp"].fr PROVE FALSE
  OBVIOUS
<1>1. "pftemp" \in Special /\ "utemp" \in Special /\ "pftemp" \in Vas /\ "utemp" \in Vas
      /\ "pftemp" \notin VPages /\ "utemp" \notin VPages
  BY SpotsAre
<1>2. OwnInv
  BY DEF CowInv
<1>3. CASE n \in FreeFrames
  BY <1>1, <1>3, FreeIs
<1>4. ASSUME NEW w \in Special \cap Vas, n = pt[a][w].fr PROVE a = g /\ w = "utemp"
  <2>1. ~Passing(g, "utemp", a, w)
    BY <1>4, SpotsAre DEF Passing
  <2>2. QED BY <1>1, <1>2, <1>4, <2>1 DEF OwnInv
<1>5. ~(n = pt[a]["pftemp"].fr)
  BY <1>1, <1>4
<1>6. ~(n = pt[a]["utemp"].fr /\ pc[a] = "sp_read")
  <2>1. pc[g] # "sp_read"
    OBVIOUS
  <2>2. QED BY <1>1, <1>4, <2>1
<1>7. ASSUME flt[a] = NoFault, NEW v \in VPages, n = pt[a][v].fr PROVE FALSE
  <2>1. \A s \in Special : pt[g][s].fr # NoOne => pt[a][v].fr # pt[g][s].fr
    BY <1>7, NotSpecial
  <2>2. QED BY <1>1, <1>7, <2>1
<1>8. QED BY <1>3, <1>5, <1>6, <1>7 DEF Alters

\* Whoever has the same control, and pages of the same kind, has given the same.
LEMMA GivesSame ==
  ASSUME CowInv, NEW a \in Envs, pc[a] # "built", \A n \in Frames : mem'[n] = mem[n] \/ Alters(a, n),
         NEW e \in Envs, Gives(e), pc'[e] = pc[e], child'[e] = child[e], page'[e] = page[e],
         child[e] \in Envs => \A v \in VPages : pt'[child[e]][v] = pt[child[e]][v],
         \A v \in VPages : /\ pt'[e][v].fr = NoOne <=> pt[e][v].fr = NoOne
                           /\ "SHARE" \in pt'[e][v].perm => pt'[e][v] = pt[e][v]
                           /\ "SHARE" \in pt[e][v].perm => pt'[e][v] = pt[e][v],
         pt'[e]["utemp"] = pt[e]["utemp"]
  PROVE  Gives(e)'
<1>1. Shared \in VPages /\ Text \in VPages /\ Bss \in VPages /\ Stack \in VPages /\ "utemp" \in Vas
  BY SpotsAre
<1>2. ForkGives(e)'
  <2> SUFFICES ASSUME pc[e] \in Forking \ {"exofork"} PROVE ForkGives(e)'
    BY DEF ForkGives
  <2>1. child[e] \in Envs /\ (pc[e] = "remap" => Va(e) \in VPages) /\ Va(e)' = Va(e)
    BY Here DEF Va
  <2>2. \A j \in 1 .. 4 : Given(e, j)' <=> Given(e, j)
    BY DEF Given
  <2>3. QED BY <2>1, <2>2, OrderIs DEF Gives, ForkGives
<1>3. SpawnGives(e)'
  <2> SUFFICES ASSUME pc[e] \in Spawning \ {"sp_exofork"} PROVE SpawnGives(e)'
    BY DEF SpawnGives
  <2>1. child[e] \in Envs
    BY Here
  <2>2. QED BY <1>1, <2>1 DEF Gives, SpawnGives
<1>4. Filled(e)'
  <2>1. pt[e]["utemp"].fr \in Frames \cup {NoOne}
    BY <1>1 DEF CowInv, TypeInv, MemTypes, Ptes
  <2>2. pc[e] \in {"sp_stackmap", "sp_segmap"} => mem'[pt[e]["utemp"].fr] = mem[pt[e]["utemp"].fr]
    BY <2>1, FilledSafe DEF Gives, Filled
  <2>3. QED BY <2>2 DEF Gives, Filled
<1>5. QED BY <1>2, <1>3, <1>4 DEF Gives

\* What fork or spawn has given is not disturbed by another environment's step.
LEMMA GivesOthers ==
  ASSUME CowInv, NEW a \in Envs, OnlyBy(a), Touch(a), pc[a] # "built",
         \A n \in Frames : mem'[n] = mem[n] \/ Alters(a, n),
         NEW e \in Envs \ {a}, Gives(e)
  PROVE  Gives(e)'
<1>1. LifeInv /\ CtlTypes
  BY DEF CowInv, TypeInv
<1> SUFFICES ASSUME pc'[e] \in Forking \cup Spawning PROVE Gives(e)'
  BY DEF Gives, ForkGives, SpawnGives, Filled, Spawning
<1>2. pc[e] = pc'[e] /\ child'[e] = child[e] /\ page'[e] = page[e]
  BY DEF OnlyBy, Forking, Spawning
<1>3. pc[a] \in Making => child[a] # NoOne /\ pc[child[a]] = "built"
  BY <1>1 DEF LifeInv, ChildInv
<1>4. \A w \in Vas : pt'[e][w] = pt[e][w]
  BY <1>2, <1>3 DEF Touch, Forking, Spawning
<1>5. child[e] \in Envs => \A w \in Vas : pt'[child[e]][w] = pt[child[e]][w]
  <2>1. SUFFICES ASSUME NEW c \in Envs, c = child[e] PROVE \A w \in Vas : pt'[c][w] = pt[c][w]
    OBVIOUS
  <2>2. c # a /\ (pc[a] \in Making => c # child[a])
    BY <1>1, <1>3, <2>1, NothingIs DEF LifeInv, ChildInv
  <2>3. QED BY <2>2 DEF Touch
<1>6. QED BY <1>2, <1>4, <1>5, GivesSame, SpotsAre

\* Who has no child has given nothing.
LEMMA GivesNothing ==
  ASSUME NEW e \in Envs, pc'[e] \notin Making
  PROVE  Gives(e)'
BY DEF Gives, ForkGives, SpawnGives, Filled, Making, Forking, Spawning

-----------------------------------------------------------------------------
(* What fork and spawn have given: their own steps.                        *)

\* A page just allocated is there and holds what it was filled with.
LEMMA AllocThere ==
  ASSUME MemTypes, NEW e \in Envs, NEW va \in Vas, NEW perm \in Perms, NEW x \in Values,
         PageAllocFill(e, va, perm, x)
  PROVE  pt'[e][va].fr # NoOne /\ mem'[pt'[e][va].fr] = x
<1>1. PICK n \in FreeFrames :
        /\ pt'[e][va] = Pte(n, perm)
        /\ mem' = [mem EXCEPT ![n] = x]
  BY AllocIs
<1>2. n \in Frames /\ n # NoOne
  BY FreeIs, NothingIs
<1>3. QED BY <1>1, <1>2 DEF MemTypes, Pte

\* Each step of fork and spawn gives what the step it comes to expects.
LEMMA GivesMine ==
  ASSUME CowInv, NEW e \in Envs, StepOf(e), Gives(e)
  PROVE  Gives(e)'
<1>1. /\ Gives(e) /\ CtlTypes /\ MemTypes /\ PageInv /\ ChildInv /\ IdleInv /\ pc[e] # "built"
      /\ \A n \in Frames : mem'[n] = mem[n] \/ Alters(e, n)
  BY NotBuilt, MemActor DEF CowInv, TypeInv, LifeInv
<1>2. /\ page[e] = 1 => Va(e) = Text
      /\ page[e] = 2 => Va(e) = Bss
      /\ Text # Bss
  BY OrderIs, PagesAre DEF Va, Text, Bss
<1>3. ASSUME NEW va \in VPages, Fault(e, va) PROVE Gives(e)'
  <2>1. UNCHANGED <<pc, child, page, pt>>
    BY <1>3 DEF Fault
  <2>2. QED BY <1>1, <2>1, GivesSame
<1>4. ASSUME NEW va \in VPages, FaultKills(e, va) PROVE Gives(e)'
  <2>1. pc'[e] \notin Making
    BY <1>1, <1>4 DEF FaultKills, Gone, CtlTypes, Making, Forking, Spawning
  <2>2. QED BY <2>1, GivesNothing
<1>5. ASSUME NEW va \in VPages, NEW x \in Values, Store(e, va, x) PROVE Gives(e)'
  <2>1. UNCHANGED <<pc, child, page, pt>>
    BY <1>5 DEF Store
  <2>2. QED BY <1>1, <2>1, GivesSame
<1>6. CASE SetPgfaultHandler(e)
  <2>1. pc'[e] \notin Making
    BY <1>1, <1>6 DEF SetPgfaultHandler, Goto, CtlTypes, Making, Forking, Spawning
  <2>2. QED BY <2>1, GivesNothing
<1>7. CASE SetPgfaultHandlerPanics(e)
  <2>1. pc'[e] \notin Making
    BY <1>1, <1>7 DEF SetPgfaultHandlerPanics, Panic, Goto, CtlTypes, Making, Forking, Spawning
  <2>2. QED BY <2>1, GivesNothing
<1>8. CASE Spawn(e)
  <2>1. pc'[e] \notin Making
    BY <1>1, <1>8 DEF Spawn, Goto, CtlTypes, Making, Forking, Spawning
  <2>2. QED BY <2>1, GivesNothing
<1>9. CASE PgfaultAlloc(e)
  <2>1. UNCHANGED <<pc, child, page>> /\ NewEntry(e, "pftemp", {"W"})
    BY <1>9, Entries DEF PgfaultAlloc
  <2>2. /\ \A g \in Envs, v \in VPages : pt'[g][v] = pt[g][v]
        /\ pt'[e]["utemp"] = pt[e]["utemp"]
    BY <2>1, SpotsAre DEF Entry, NewEntry
  <2>3. QED BY <1>1, <2>1, <2>2, GivesSame
<1>10. CASE PgfaultPanics(e)
  <2>1. pc'[e] \notin Making
    BY <1>1, <1>10 DEF PgfaultPanics, Panic, Goto, CtlTypes, Making, Forking, Spawning
  <2>2. QED BY <2>1, GivesNothing
<1>11. CASE PgfaultCopy(e)
  <2>1. UNCHANGED <<pc, child, page, pt>>
    BY <1>11 DEF PgfaultCopy
  <2>2. QED BY <1>1, <2>1, GivesSame
<1>12. CASE PgfaultMap(e)
  <2>1. /\ UNCHANGED <<pc, child, page>> /\ MapEntry(e, "pftemp", e, flt[e].va, {"W"})
        /\ flt[e].step = "map" /\ pt[e]["pftemp"].fr # NoOne
    BY <1>12, Entries DEF PgfaultMap, InFault, MapEntry
  <2>2. /\ flt[e].va \in VPages /\ "SHARE" \notin pt[e][flt[e].va].perm
        /\ pt[e][flt[e].va].fr # NoOne
    <3>1. flt[e].va \in VPages /\ flt[e].va \in Vas
      BY <2>1, Here, SpotsAre
    <3>2. "COW" \in pt[e][flt[e].va].perm
      BY <2>1 DEF CowInv, FaultInv
    <3>3. pt[e][flt[e].va].perm \in Perms
      BY <1>1, <3>1 DEF MemTypes, Ptes
    <3>4. "SHARE" \notin pt[e][flt[e].va].perm
      BY <3>2, <3>3 DEF Perms
    <3>5. QED BY <3>1, <3>2, <3>4 DEF CowInv, PteInv
  <2>3. /\ \A g \in Envs \ {e}, v \in VPages : pt'[g][v] = pt[g][v]
        /\ \A v \in VPages : IF v = flt[e].va THEN pt'[e][v] = Pte(pt[e]["pftemp"].fr, {"W"})
                                              ELSE pt'[e][v] = pt[e][v]
        /\ pt'[e]["utemp"] = pt[e]["utemp"]
    BY <2>1, <2>2, SpotsAre DEF Entry, MapEntry
  <2>4. child[e] # e
    BY <1>1, NothingIs DEF ChildInv
  <2>5. QED BY <1>1, <2>1, <2>2, <2>3, <2>4, GivesSame DEF Pte
<1>13. CASE PgfaultUnmap(e)
  <2>1. UNCHANGED <<pc, child, page>> /\ Entry(e, "pftemp", NoPte)
    BY <1>13, Entries DEF PgfaultUnmap
  <2>2. /\ \A g \in Envs, v \in VPages : pt'[g][v] = pt[g][v]
        /\ pt'[e]["utemp"] = pt[e]["utemp"]
    BY <2>1, SpotsAre DEF Entry, NewEntry
  <2>3. QED BY <1>1, <2>1, <2>2, GivesSame
<1>14. CASE PgfaultReturn(e)
  <2>1. UNCHANGED <<pc, child, page, pt>>
    BY <1>14 DEF PgfaultReturn
  <2>2. QED BY <1>1, <2>1, GivesSame
<1>15. CASE ForkExofork(e)
  <2>1. CASE pc' = [pc EXCEPT ![e] = "run"]
    <3>1. pc'[e] \notin Making
      BY <1>1, <2>1 DEF CtlTypes, Making, Forking, Spawning
    <3>2. QED BY <3>1, GivesNothing
  <2>2. ASSUME NEW c \in Envs, pc[c] = "unborn", pc[e] # "unborn",
               pc' = [pc EXCEPT ![e] = "ux", ![c] = "built"],
               child' = [child EXCEPT ![e] = c], page' = [page EXCEPT ![e] = 1], UNCHANGED pt
        PROVE  Gives(e)'
    <3>1. pc'[e] = "ux" /\ child'[e] = c /\ page'[e] = 1 /\ pt' = pt
      BY <1>1, <2>2 DEF CtlTypes
    <3>2. \A v \in Vas : pt[c][v].fr = NoOne
      BY <1>1, <2>2, NothingIs DEF IdleInv
    <3>3. ForkGives(e)'
      BY <3>1, <3>2, OrderIs DEF ForkGives, Given, Forking
    <3>4. SpawnGives(e)'
      BY <3>1, <3>2, SpotsAre DEF SpawnGives, Spawning
    <3>5. QED BY <3>1, <3>3, <3>4 DEF Gives, Filled
  <2>3. QED BY <1>15, <2>1, <2>2 DEF ForkExofork, Exofork, At, Goto
<1>16. CASE ForkExceptionStack(e)
  <2>1. /\ pc[e] = "ux" /\ child[e] \in Envs /\ page[e] = 1
        /\ NewEntry(child[e], "uxstack", {"W"}) /\ UNCHANGED <<child, page>> /\ pc'[e] = "dup"
    BY <1>1, <1>16, Here, Entries DEF ForkExceptionStack, At, Goto, CtlTypes, PageInv, Forking
  <2>2. \A g \in Envs, v \in VPages : pt'[g][v] = pt[g][v]
    BY <2>1, SpotsAre DEF NewEntry, Entry
  <2>3. ForkGives(e)'
    BY <1>1, <2>1, <2>2, OrderIs DEF ForkGives, Given, Forking, Gives
  <2>4. QED BY <2>1, <2>3 DEF Gives, SpawnGives, Filled, Spawning
<1>17. CASE ForkLoop(e)
  <2>1. /\ pc[e] = "dup" /\ child[e] \in Envs /\ page[e] \in 1 .. 5 /\ UNCHANGED <<child, pt>>
        /\ \/ page[e] = 5 /\ pc'[e] = "start" /\ page'[e] = 5
           \/ page[e] <= 4 /\ pt[e][Va(e)] = NoPte /\ page'[e] = page[e] + 1 /\ pc'[e] = "dup"
    BY <1>1, <1>17, Here, PagesAre DEF ForkLoop, At, Goto, CtlTypes, PageInv, Making, Forking
  <2>2. ForkGives(e)'
    BY <1>1, <2>1, OrderIs, NothingIs DEF ForkGives, Given, Forking, Gives, Va
  <2>3. QED BY <2>1, <2>2 DEF Gives, SpawnGives, Filled, Spawning
<1>18. CASE DuppageChild(e)
  <2>1. /\ pc[e] = "dup" /\ child[e] \in Envs /\ child[e] # e /\ page[e] \in 1 .. 4 /\ UNCHANGED child
        /\ Va(e) \in VPages
    BY <1>1, <1>18, Here, PagesAre DEF DuppageChild, At, CtlTypes, PageInv, Making, Forking
  <2>2. PICK p : /\ Entry(child[e], Va(e), Pte(pt[e][Va(e)].fr, p)) /\ pt[e][Va(e)].fr # NoOne
    BY <1>18, Entries DEF MapEntry
  <2>3. \/ pc'[e] = "remap" /\ page'[e] = page[e]
        \/ pc'[e] = "dup" /\ page'[e] = page[e] + 1
    BY <1>1, <1>18 DEF DuppageChild, At, Goto, CtlTypes
  <2>4. /\ \A v \in Vas : pt'[e][v] = pt[e][v]
        /\ pt'[child[e]][Va(e)].fr = pt[e][Va(e)].fr
        /\ \A v \in Vas \ {Va(e)} : pt'[child[e]][v] = pt[child[e]][v]
    BY <2>1, <2>2, SpotsAre DEF Entry, Pte
  <2>5. /\ \A j \in 1 .. 4 : Given(e, j) <=> j < page[e]
        /\ \A j \in 1 .. 4 : Given(e, j)' <=> j < page[e] \/ j = page[e]
    BY <2>1, <2>3 DEF Given
  <2>6. \A j \in 1 .. 4 : Order[j] = Va(e) <=> j = page[e]
    BY <2>1, OrderIs DEF Va
  <2>7. \A j \in 1 .. 4 :
          IF Given(e, j)' THEN pt'[child[e]][Order[j]].fr = NoOne <=> pt'[e][Order[j]].fr = NoOne
                          ELSE pt'[child[e]][Order[j]].fr = NoOne
    <3>1. TAKE j \in 1 .. 4
    <3>2. CASE j = page[e]
      BY <2>1, <2>4, <2>5, <2>6, <3>2, OrderIs
    <3>3. CASE j # page[e]
      <4>1. Order[j] \in Vas \ {Va(e)}
        BY <2>6, <3>3, OrderIs
      <4>2. IF Given(e, j) THEN pt[child[e]][Order[j]].fr = NoOne <=> pt[e][Order[j]].fr = NoOne
                           ELSE pt[child[e]][Order[j]].fr = NoOne
        BY <1>1, <2>1 DEF Gives, ForkGives, Forking
      <4>3. QED BY <2>4, <2>5, <3>3, <4>1, <4>2
    <3>4. QED BY <3>2, <3>3
  <2>8. pc'[e] = "remap" => Va(e)' = Va(e)
    BY <2>3 DEF Va
  <2>9. ForkGives(e)'
    BY <2>1, <2>3, <2>4, <2>7, <2>8, SpotsAre DEF ForkGives
  <2>10. QED BY <2>3, <2>9 DEF Gives, SpawnGives, Filled, Spawning
<1>19. CASE DuppageParent(e)
  <2>1. /\ pc[e] = "remap" /\ child[e] \in Envs /\ child[e] # e /\ page[e] \in 1 .. 4 /\ UNCHANGED child
        /\ Va(e) \in VPages /\ MapEntry(e, Va(e), e, Va(e), {"COW"})
    BY <1>1, <1>19, Here, Entries DEF DuppageParent, At, Forking
  <2>2. pc'[e] = "dup" /\ page'[e] = page[e] + 1
    BY <1>1, <1>19 DEF DuppageParent, At, Goto, CtlTypes
  <2>3. /\ \A v \in VPages : pt'[e][v].fr = pt[e][v].fr
        /\ \A v \in VPages : pt'[child[e]][v] = pt[child[e]][v]
    BY <2>1, SpotsAre DEF Entry, MapEntry, Pte
  <2>4. \A j \in 1 .. 4 : Given(e, j)' <=> Given(e, j)
    BY <2>1, <2>2 DEF Given
  <2>5. ForkGives(e)'
    BY <1>1, <2>1, <2>2, <2>3, <2>4, OrderIs DEF ForkGives, Gives, Forking
  <2>6. QED BY <2>2, <2>5 DEF Gives, SpawnGives, Filled, Spawning
<1>20. CASE ForkFails(e)
  <2>1. pc'[e] \notin Making
    BY <1>1, <1>20 DEF ForkFails, Goto, CtlTypes, Making, Forking, Spawning
  <2>2. QED BY <2>1, GivesNothing
<1>21. CASE ForkDone(e)
  <2>1. pc' = [pc EXCEPT ![e] = "run", ![child[e]] = "run"]
    BY <1>21 DEF ForkDone, SetRunnable
  <2>2. pc'[e] \notin Making
    BY <1>1, <2>1 DEF CtlTypes, Making, Forking, Spawning
  <2>3. QED BY <2>2, GivesNothing
<1>22. CASE SpawnExofork(e)
  <2>1. CASE pc' = [pc EXCEPT ![e] = "run"]
    <3>1. pc'[e] \notin Making
      BY <1>1, <2>1 DEF CtlTypes, Making, Forking, Spawning
    <3>2. QED BY <3>1, GivesNothing
  <2>2. ASSUME NEW c \in Envs, pc[c] = "unborn", pc[e] # "unborn",
               pc' = [pc EXCEPT ![e] = "sp_stack", ![c] = "built"],
               child' = [child EXCEPT ![e] = c], page' = [page EXCEPT ![e] = 1], UNCHANGED pt
        PROVE  Gives(e)'
    <3>1. pc'[e] = "sp_stack" /\ child'[e] = c /\ page'[e] = 1 /\ pt' = pt
      BY <1>1, <2>2 DEF CtlTypes
    <3>2. \A v \in Vas : pt[c][v].fr = NoOne
      BY <1>1, <2>2, NothingIs DEF IdleInv
    <3>3. ForkGives(e)'
      BY <3>1, <3>2, OrderIs DEF ForkGives, Given, Forking
    <3>4. SpawnGives(e)'
      BY <3>1, <3>2, SpotsAre DEF SpawnGives, Spawning
    <3>5. QED BY <3>1, <3>3, <3>4 DEF Gives, Filled
  <2>3. QED BY <1>22, <2>1, <2>2 DEF SpawnExofork, Exofork, At, Goto
<1>23. CASE InitStackAlloc(e)
  <2>1. /\ pc[e] = "sp_stack" /\ pc'[e] = "sp_stackmap" /\ UNCHANGED child /\ child[e] \in Envs /\ child[e] # e
        /\ page[e] = 1 /\ page'[e] = 1 /\ NewEntry(e, "utemp", {"W"})
    <3>1. pc[e] = "sp_stack" /\ UNCHANGED child
      BY <1>23 DEF InitStackAlloc, At
    <3>2. pc'[e] = "sp_stackmap" /\ page[e] = 1 /\ page'[e] = 1
      <4>1. page[e] \in Nat /\ page[e] = 1
        BY <1>1, <3>1 DEF CtlTypes, PageInv, Making, Forking, Spawning
      <4>2. QED BY <1>1, <1>23, <1>2, <4>1 DEF InitStackAlloc, At, Goto, CtlTypes
    <3>3. child[e] \in Envs /\ child[e] # e
      BY <3>1, Here DEF Spawning
    <3>4. NewEntry(e, "utemp", {"W"})
      BY <1>23, <1>2, <3>2, Entries DEF InitStackAlloc
    <3>5. QED BY <3>1, <3>2, <3>3, <3>4
  <2>2. \A g \in Envs, v \in VPages : pt'[g][v] = pt[g][v]
    BY <2>1, SpotsAre DEF NewEntry, Entry
  <2>3. SpawnGives(e)'
    BY <1>1, <2>1, <2>2, SpotsAre DEF SpawnGives, Gives, Spawning
  <2>4. pt'[e]["utemp"].fr # NoOne /\ mem'[pt'[e]["utemp"].fr] = Image[Stack]
    <3>1. PageAllocFill(e, "utemp", {"W"}, Image[Stack])
      BY <1>23 DEF InitStackAlloc
    <3>2. QED BY <1>1, <3>1, AllocThere, SpotsAre, PermsAre
  <2>5. QED BY <2>1, <2>3, <2>4 DEF Gives, ForkGives, Filled, Forking
<1>24. CASE InitStackMap(e)
  <2>1. /\ pc[e] = "sp_stackmap" /\ pc'[e] = "sp_stackunmap" /\ UNCHANGED child /\ child[e] \in Envs /\ child[e] # e
        /\ page[e] = 1 /\ page'[e] = 1 /\ MapEntry(e, "utemp", child[e], Stack, {"W"})
    <3>1. pc[e] = "sp_stackmap" /\ UNCHANGED child
      BY <1>24 DEF InitStackMap, At
    <3>2. pc'[e] = "sp_stackunmap" /\ page[e] = 1 /\ page'[e] = 1
      <4>1. page[e] \in Nat /\ page[e] = 1
        BY <1>1, <3>1 DEF CtlTypes, PageInv, Making, Forking, Spawning
      <4>2. QED BY <1>1, <1>24, <1>2, <4>1 DEF InitStackMap, At, Goto, CtlTypes
    <3>3. child[e] \in Envs /\ child[e] # e
      BY <3>1, Here DEF Spawning
    <3>4. MapEntry(e, "utemp", child[e], Stack, {"W"})
      BY <1>24, <1>2, <3>2, Entries DEF InitStackMap
    <3>5. QED BY <3>1, <3>2, <3>3, <3>4
  <2>2. /\ \A v \in VPages : pt'[e][v] = pt[e][v]
        /\ \A v \in VPages \ {Stack} : pt'[child[e]][v] = pt[child[e]][v]
        /\ pt'[child[e]][Stack].fr # NoOne
    BY <2>1, SpotsAre DEF MapEntry, Entry, Pte
  <2>3. SpawnGives(e)'
    BY <1>1, <2>1, <2>2, SpotsAre, PagesAre DEF SpawnGives, Gives, Spawning, Text, Bss,
        Shared, Stack
  <2>4. QED BY <2>1, <2>3 DEF Gives, ForkGives, Filled, Forking
<1>25. CASE InitStackUnmap(e)
  <2>1. /\ pc[e] = "sp_stackunmap" /\ pc'[e] = "sp_seg" /\ UNCHANGED child /\ child[e] \in Envs /\ child[e] # e
        /\ page[e] = 1 /\ page'[e] = 1 /\ Entry(e, "utemp", NoPte)
    <3>1. pc[e] = "sp_stackunmap" /\ UNCHANGED child
      BY <1>25 DEF InitStackUnmap, At
    <3>2. pc'[e] = "sp_seg" /\ page[e] = 1 /\ page'[e] = 1
      <4>1. page[e] \in Nat /\ page[e] = 1
        BY <1>1, <3>1 DEF CtlTypes, PageInv, Making, Forking, Spawning
      <4>2. QED BY <1>1, <1>25, <1>2, <4>1 DEF InitStackUnmap, At, Goto, CtlTypes
    <3>3. child[e] \in Envs /\ child[e] # e
      BY <3>1, Here DEF Spawning
    <3>4. Entry(e, "utemp", NoPte)
      BY <1>25, <1>2, <3>2, Entries DEF InitStackUnmap
    <3>5. QED BY <3>1, <3>2, <3>3, <3>4
  <2>2. \A g \in Envs, v \in VPages : pt'[g][v] = pt[g][v]
    BY <2>1, SpotsAre DEF Entry
  <2>3. SpawnGives(e)'
    BY <1>1, <2>1, <2>2, SpotsAre DEF SpawnGives, Gives, Spawning
  <2>4. QED BY <2>1, <2>3 DEF Gives, ForkGives, Filled, Forking
<1>26. CASE InitStackFails(e)
  <2>1. pc'[e] \notin Making
    BY <1>1, <1>26 DEF InitStackFails, Goto, CtlTypes, Making, Forking, Spawning
  <2>2. QED BY <2>1, GivesNothing
<1>27. CASE MapSegmentAlloc(e)
  <2>1. /\ pc[e] = "sp_seg" /\ pc'[e] = "sp_read" /\ UNCHANGED child /\ child[e] \in Envs /\ child[e] # e
        /\ page[e] = 1 /\ page'[e] = 1 /\ NewEntry(e, "utemp", {"W"})
    <3>1. pc[e] = "sp_seg" /\ UNCHANGED child
      BY <1>27 DEF MapSegmentAlloc, At
    <3>2. pc'[e] = "sp_read" /\ page[e] = 1 /\ page'[e] = 1
      <4>1. page[e] \in Nat /\ page[e] \in 1 .. 2
        BY <1>1, <3>1 DEF CtlTypes, PageInv, Making, Forking, Spawning
      <4>2. QED BY <1>1, <1>27, <1>2, <4>1 DEF MapSegmentAlloc, At, Goto, CtlTypes
    <3>3. child[e] \in Envs /\ child[e] # e
      BY <3>1, Here DEF Spawning
    <3>4. NewEntry(e, "utemp", {"W"})
      BY <1>27, <1>2, <3>2, Entries DEF MapSegmentAlloc
    <3>5. QED BY <3>1, <3>2, <3>3, <3>4
  <2>2. \A g \in Envs, v \in VPages : pt'[g][v] = pt[g][v]
    BY <2>1, SpotsAre DEF NewEntry, Entry
  <2>3. SpawnGives(e)'
    BY <1>1, <2>1, <2>2, SpotsAre DEF SpawnGives, Gives, Spawning
  <2>4. pt'[e]["utemp"].fr # NoOne
    <3>1. PageAllocFill(e, "utemp", {"W"}, 0)
      BY <1>27 DEF MapSegmentAlloc, PageAlloc
    <3>2. QED BY <1>1, <3>1, AllocThere, SpotsAre, PermsAre
  <2>5. QED BY <2>1, <2>3, <2>4 DEF Gives, ForkGives, Filled, Forking
<1>28. CASE MapSegmentRead(e)
  <2>1. /\ pc[e] = "sp_read" /\ pc'[e] = "sp_segmap" /\ UNCHANGED child /\ child[e] \in Envs /\ child[e] # e
        /\ page[e] = 1 /\ page'[e] = 1 /\ UNCHANGED pt
    <3>1. pc[e] = "sp_read" /\ UNCHANGED child
      BY <1>28 DEF MapSegmentRead, At
    <3>2. pc'[e] = "sp_segmap" /\ page[e] = 1 /\ page'[e] = 1
      <4>1. page[e] \in Nat /\ page[e] = 1
        BY <1>1, <3>1 DEF CtlTypes, PageInv, Making, Forking, Spawning
      <4>2. QED BY <1>1, <1>28, <1>2, <4>1 DEF MapSegmentRead, At, Goto, CtlTypes
    <3>3. child[e] \in Envs /\ child[e] # e
      BY <3>1, Here DEF Spawning
    <3>4. UNCHANGED pt
      BY <1>28, <1>2, <3>2 DEF MapSegmentRead
    <3>5. QED BY <3>1, <3>2, <3>3, <3>4
  <2>2. \A g \in Envs, v \in VPages : pt'[g][v] = pt[g][v]
    BY <2>1
  <2>3. SpawnGives(e)'
    BY <1>1, <2>1, <2>2, SpotsAre DEF SpawnGives, Gives, Spawning
  <2>4. pt[e]["utemp"].fr # NoOne /\ pt[e]["utemp"].fr \in Frames
    BY <1>1, <2>1, SpotsAre DEF Gives, Filled, MemTypes, Ptes
  <2>5. Va(e) = Text /\ mem' = [mem EXCEPT ![pt[e]["utemp"].fr] = Image[Va(e)]]
    BY <1>28, <2>1, OrderIs DEF MapSegmentRead, Va
  <2>6. mem'[pt[e]["utemp"].fr] = Image[Text]
    BY <1>1, <2>4, <2>5 DEF MemTypes
  <2>7. QED BY <2>1, <2>3, <2>4, <2>6 DEF Gives, ForkGives, Filled, Forking
<1>29. CASE MapSegmentMap(e)
  <2>1. /\ pc[e] = "sp_segmap" /\ pc'[e] = "sp_segunmap" /\ UNCHANGED child /\ child[e] \in Envs /\ child[e] # e
        /\ page[e] = 1 /\ page'[e] = 1 /\ MapEntry(e, "utemp", child[e], Text, {})
    <3>1. pc[e] = "sp_segmap" /\ UNCHANGED child
      BY <1>29 DEF MapSegmentMap, At
    <3>2. pc'[e] = "sp_segunmap" /\ page[e] = 1 /\ page'[e] = 1
      <4>1. page[e] \in Nat /\ page[e] = 1
        BY <1>1, <3>1 DEF CtlTypes, PageInv, Making, Forking, Spawning
      <4>2. QED BY <1>1, <1>29, <1>2, <4>1 DEF MapSegmentMap, At, Goto, CtlTypes
    <3>3. child[e] \in Envs /\ child[e] # e
      BY <3>1, Here DEF Spawning
    <3>4. MapEntry(e, "utemp", child[e], Text, {})
      BY <1>29, <1>2, <3>2, Entries DEF MapSegmentMap
    <3>5. QED BY <3>1, <3>2, <3>3, <3>4
  <2>2. /\ \A v \in VPages : pt'[e][v] = pt[e][v]
        /\ \A v \in VPages \ {Text} : pt'[child[e]][v] = pt[child[e]][v]
        /\ pt'[child[e]][Text].fr # NoOne
    BY <2>1, SpotsAre DEF MapEntry, Entry, Pte
  <2>3. SpawnGives(e)'
    BY <1>1, <2>1, <2>2, SpotsAre, PagesAre DEF SpawnGives, Gives, Spawning, Text, Bss,
        Shared, Stack
  <2>4. QED BY <2>1, <2>3 DEF Gives, ForkGives, Filled, Forking
<1>30. CASE MapSegmentUnmap(e)
  <2>1. /\ pc[e] = "sp_segunmap" /\ pc'[e] = "sp_seg" /\ UNCHANGED child /\ child[e] \in Envs /\ child[e] # e
        /\ page[e] = 1 /\ page'[e] = 2 /\ Entry(e, "utemp", NoPte)
    <3>1. pc[e] = "sp_segunmap" /\ UNCHANGED child
      BY <1>30 DEF MapSegmentUnmap, At
    <3>2. pc'[e] = "sp_seg" /\ page[e] = 1 /\ page'[e] = 2
      <4>1. page[e] \in Nat /\ page[e] = 1
        BY <1>1, <3>1 DEF CtlTypes, PageInv, Making, Forking, Spawning
      <4>2. QED BY <1>1, <1>30, <1>2, <4>1 DEF MapSegmentUnmap, At, Goto, CtlTypes
    <3>3. child[e] \in Envs /\ child[e] # e
      BY <3>1, Here DEF Spawning
    <3>4. Entry(e, "utemp", NoPte)
      BY <1>30, <1>2, <3>2, Entries DEF MapSegmentUnmap
    <3>5. QED BY <3>1, <3>2, <3>3, <3>4
  <2>2. \A g \in Envs, v \in VPages : pt'[g][v] = pt[g][v]
    BY <2>1, SpotsAre DEF Entry
  <2>3. SpawnGives(e)'
    BY <1>1, <2>1, <2>2, SpotsAre DEF SpawnGives, Gives, Spawning
  <2>4. QED BY <2>1, <2>3 DEF Gives, ForkGives, Filled, Forking
<1>31. CASE MapSegmentBlank(e)
  <2>1. /\ pc[e] = "sp_seg" /\ pc'[e] = "sp_share" /\ UNCHANGED child /\ child[e] \in Envs /\ child[e] # e
        /\ page[e] = 2 /\ page'[e] = 3 /\ NewEntry(child[e], Bss, {"W"})
    <3>1. pc[e] = "sp_seg" /\ UNCHANGED child
      BY <1>31 DEF MapSegmentBlank, At
    <3>2. pc'[e] = "sp_share" /\ page[e] = 2 /\ page'[e] = 3
      <4>1. page[e] \in Nat /\ page[e] \in 1 .. 2
        BY <1>1, <3>1 DEF CtlTypes, PageInv, Making, Forking, Spawning
      <4>2. QED BY <1>1, <1>31, <1>2, <4>1 DEF MapSegmentBlank, At, Goto, CtlTypes
    <3>3. child[e] \in Envs /\ child[e] # e
      BY <3>1, Here DEF Spawning
    <3>4. NewEntry(child[e], Bss, {"W"})
      BY <1>31, <1>2, <3>2, Entries DEF MapSegmentBlank
    <3>5. QED BY <3>1, <3>2, <3>3, <3>4
  <2>2. /\ \A v \in VPages : pt'[e][v] = pt[e][v]
        /\ \A v \in VPages \ {Bss} : pt'[child[e]][v] = pt[child[e]][v]
        /\ pt'[child[e]][Bss].fr # NoOne
    BY <2>1, SpotsAre, FreeIs, NothingIs DEF NewEntry, Entry, Pte
  <2>3. SpawnGives(e)'
    BY <1>1, <2>1, <2>2, SpotsAre, PagesAre DEF SpawnGives, Gives, Spawning, Text, Bss,
        Shared, Stack
  <2>4. QED BY <2>1, <2>3 DEF Gives, ForkGives, Filled, Forking
<1>32. CASE SpawnFails(e)
  <2>1. pc'[e] \notin Making
    BY <1>1, <1>32 DEF SpawnFails, CtlTypes, Making, Forking, Spawning
  <2>2. QED BY <2>1, GivesNothing
<1>33. CASE CopySharedPages(e)
  <2>1. /\ pc[e] = "sp_share" /\ pc'[e] = "sp_start" /\ UNCHANGED <<child, page>> /\ child[e] \in Envs
        /\ child[e] # e /\ page[e] = 3
        /\ IF "SHARE" \in pt[e][Shared].perm
           THEN MapEntry(e, Shared, child[e], Shared, {"W", "SHARE"})
           ELSE UNCHANGED pt
    BY <1>1, <1>33, Here, Entries DEF CopySharedPages, At, Goto, CtlTypes, PageInv, Spawning
  <2>2. /\ \A v \in VPages \ {Shared} : pt'[child[e]][v] = pt[child[e]][v]
        /\ "SHARE" \in pt'[child[e]][Shared].perm <=> "SHARE" \in pt'[e][Shared].perm
    <3>1. pt[child[e]][Shared].fr = NoOne
      BY <1>1, <2>1 DEF Gives, SpawnGives, Spawning
    <3>2. "SHARE" \notin pt[child[e]][Shared].perm
      BY <2>1, <3>1, SpotsAre DEF CowInv, PteInv
    <3>3. QED BY <2>1, <3>2, SpotsAre DEF MapEntry, Entry, Pte
  <2>3. SpawnGives(e)'
    BY <1>1, <2>1, <2>2, SpotsAre, PagesAre DEF SpawnGives, Gives, Spawning, Text, Bss,
        Shared, Stack
  <2>4. QED BY <2>1, <2>3 DEF Gives, ForkGives, Filled, Forking
<1>34. CASE SpawnPanics(e)
  <2>1. pc'[e] \notin Making
    BY <1>1, <1>34 DEF SpawnPanics, Panic, Goto, CtlTypes, Making, Forking, Spawning
  <2>2. QED BY <2>1, GivesNothing
<1>35. CASE SpawnDone(e)
  <2>1. pc' = [pc EXCEPT ![e] = "run", ![child[e]] = "run"]
    BY <1>35 DEF SpawnDone, SetRunnable
  <2>2. pc'[e] \notin Making
    BY <1>1, <2>1 DEF CtlTypes, Making, Forking, Spawning
  <2>3. QED BY <2>2, GivesNothing
<1>36. CASE Destroyed(e)
  <2>1. pc'[e] \notin Making
    BY <1>1, <1>36 DEF Destroyed, Gone, CtlTypes, Making, Forking, Spawning
  <2>2. QED BY <2>1, GivesNothing
<1>37. QED
   BY <1>3, <1>4, <1>5, <1>6, <1>7, <1>8, <1>9, <1>10, <1>11, <1>12, <1>13,
     <1>14, <1>15, <1>16, <1>17, <1>18, <1>19, <1>20, <1>21, <1>22, <1>23,
     <1>24, <1>25, <1>26, <1>27, <1>28, <1>29, <1>30, <1>31, <1>32, <1>33,
     <1>34, <1>35, <1>36 DEF StepOf, Program, Handler, ForkStep, SpawnStep

-----------------------------------------------------------------------------
(* Whatever runs stays whole, and a child is whole when it starts.         *)

\* Whoever makes a step runs.
LEMMA Alive ==
  ASSUME CowInv, NEW e \in Envs, StepOf(e)
  PROVE  pc[e] \notin {"unborn", "built", "dead"}
<1>1. flt[e].step # "none" => pc[e] \in Labels \ {"unborn", "built", "dead", "panic"}
  BY Here
<1>2. ASSUME NEW va \in VPages, Fault(e, va) PROVE pc[e] \notin {"unborn", "built", "dead"}
   BY <1>1, <1>2, NothingIs DEF Fault, MayStore, Forking, Spawning
<1>3. ASSUME NEW va \in VPages, FaultKills(e, va) PROVE pc[e] \notin {"unborn", "built", "dead"}
   BY <1>1, <1>3, NothingIs DEF FaultKills, MayStore, Forking, Spawning
<1>4. ASSUME NEW va \in VPages, NEW x \in Values, Store(e, va, x) PROVE pc[e] \notin {"unborn", "built", "dead"}
   BY <1>1, <1>4, NothingIs DEF Store, MayStore, Forking, Spawning
<1>5. CASE SetPgfaultHandler(e)
   BY <1>1, <1>5, NothingIs DEF SetPgfaultHandler, At
<1>6. CASE SetPgfaultHandlerPanics(e)
   BY <1>1, <1>6, NothingIs DEF SetPgfaultHandlerPanics, At
<1>7. CASE Spawn(e)
   BY <1>1, <1>7, NothingIs DEF Spawn, At
<1>8. CASE PgfaultAlloc(e)
   BY <1>1, <1>8, NothingIs DEF PgfaultAlloc, InFault
<1>9. CASE PgfaultPanics(e)
   BY <1>1, <1>9, NothingIs DEF PgfaultPanics, InFault
<1>10. CASE PgfaultCopy(e)
   BY <1>1, <1>10, NothingIs DEF PgfaultCopy, InFault
<1>11. CASE PgfaultMap(e)
   BY <1>1, <1>11, NothingIs DEF PgfaultMap, InFault
<1>12. CASE PgfaultUnmap(e)
   BY <1>1, <1>12, NothingIs DEF PgfaultUnmap, InFault
<1>13. CASE PgfaultReturn(e)
   BY <1>1, <1>13, NothingIs DEF PgfaultReturn, InFault
<1>14. CASE ForkExofork(e)
   BY <1>1, <1>14, NothingIs DEF ForkExofork, Exofork, At
<1>15. CASE ForkExceptionStack(e)
   BY <1>1, <1>15, NothingIs DEF ForkExceptionStack, At
<1>16. CASE ForkLoop(e)
   BY <1>1, <1>16, NothingIs DEF ForkLoop, At
<1>17. CASE DuppageChild(e)
   BY <1>1, <1>17, NothingIs DEF DuppageChild, At
<1>18. CASE DuppageParent(e)
   BY <1>1, <1>18, NothingIs DEF DuppageParent, At
<1>19. CASE ForkFails(e)
   BY <1>1, <1>19, NothingIs DEF ForkFails
<1>20. CASE ForkDone(e)
   BY <1>1, <1>20, NothingIs DEF ForkDone, SetRunnable, At
<1>21. CASE SpawnExofork(e)
   BY <1>1, <1>21, NothingIs DEF SpawnExofork, Exofork, At
<1>22. CASE InitStackAlloc(e)
   BY <1>1, <1>22, NothingIs DEF InitStackAlloc, At
<1>23. CASE InitStackMap(e)
   BY <1>1, <1>23, NothingIs DEF InitStackMap, At
<1>24. CASE InitStackUnmap(e)
   BY <1>1, <1>24, NothingIs DEF InitStackUnmap, At
<1>25. CASE InitStackFails(e)
   BY <1>1, <1>25, NothingIs DEF InitStackFails
<1>26. CASE MapSegmentAlloc(e)
   BY <1>1, <1>26, NothingIs DEF MapSegmentAlloc, At
<1>27. CASE MapSegmentRead(e)
   BY <1>1, <1>27, NothingIs DEF MapSegmentRead, At
<1>28. CASE MapSegmentMap(e)
   BY <1>1, <1>28, NothingIs DEF MapSegmentMap, At
<1>29. CASE MapSegmentUnmap(e)
   BY <1>1, <1>29, NothingIs DEF MapSegmentUnmap, At
<1>30. CASE MapSegmentBlank(e)
   BY <1>1, <1>30, NothingIs DEF MapSegmentBlank, At
<1>31. CASE SpawnFails(e)
   BY <1>1, <1>31, NothingIs DEF SpawnFails
<1>32. CASE CopySharedPages(e)
   BY <1>1, <1>32, NothingIs DEF CopySharedPages, At
<1>33. CASE SpawnPanics(e)
   BY <1>1, <1>33, NothingIs DEF SpawnPanics
<1>34. CASE SpawnDone(e)
   BY <1>1, <1>34, NothingIs DEF SpawnDone, SetRunnable, At
<1>35. CASE Destroyed(e)
   BY <1>1, <1>35, NothingIs DEF Destroyed
<1>36. QED
   BY <1>2, <1>3, <1>4, <1>5, <1>6, <1>7, <1>8, <1>9, <1>10, <1>11, <1>12,
     <1>13, <1>14, <1>15, <1>16, <1>17, <1>18, <1>19, <1>20, <1>21, <1>22,
     <1>23, <1>24, <1>25, <1>26, <1>27, <1>28, <1>29, <1>30, <1>31, <1>32,
     <1>33, <1>34, <1>35 DEF StepOf, Program, Handler, ForkStep, SpawnStep

Keeps(e) == \A v \in VPages : pt[e][v].fr # NoOne => pt'[e][v].fr # NoOne

\* The actor loses no page unless it dies.
LEMMA KeepsActor ==
  ASSUME CowInv, NEW e \in Envs, StepOf(e)
  PROVE  pc'[e] = "dead" \/ Keeps(e)
<1>1. CtlTypes /\ MemTypes
  BY DEF CowInv, TypeInv
<1>2. ASSUME NEW va \in VPages, Fault(e, va) PROVE pc'[e] = "dead" \/ Keeps(e)
  <2>1. UNCHANGED pt
    BY <1>2 DEF Fault
  <2>2. QED BY <2>1 DEF Keeps
<1>3. ASSUME NEW va \in VPages, FaultKills(e, va) PROVE pc'[e] = "dead" \/ Keeps(e)
  BY <1>1, <1>3 DEF FaultKills, Gone, CtlTypes
<1>4. ASSUME NEW va \in VPages, NEW x \in Values, Store(e, va, x) PROVE pc'[e] = "dead" \/ Keeps(e)
  <2>1. UNCHANGED pt
    BY <1>4 DEF Store
  <2>2. QED BY <2>1 DEF Keeps
<1>5. CASE SetPgfaultHandler(e)
  <2>1. UNCHANGED pt \/ NewEntry(e, "uxstack", {"W"})
    BY <1>5, Entries
  <2>2. QED BY <2>1, SpotsAre, FreeIs, NothingIs DEF Keeps, Entry, NewEntry, Pte
<1>6. CASE SetPgfaultHandlerPanics(e)
  <2>1. UNCHANGED pt
    BY <1>6 DEF SetPgfaultHandlerPanics, Panic
  <2>2. QED BY <2>1 DEF Keeps
<1>7. CASE Spawn(e)
  <2>1. UNCHANGED pt
    BY <1>7 DEF Spawn
  <2>2. QED BY <2>1 DEF Keeps
<1>8. CASE PgfaultAlloc(e)
  <2>1. NewEntry(e, "pftemp", {"W"})
    BY <1>8, Entries
  <2>2. QED BY <2>1, SpotsAre, FreeIs, NothingIs DEF Keeps, Entry, NewEntry, MapEntry, Pte
<1>9. CASE PgfaultPanics(e)
  <2>1. UNCHANGED pt
    BY <1>9 DEF PgfaultPanics, Panic
  <2>2. QED BY <2>1 DEF Keeps
<1>10. CASE PgfaultCopy(e)
  <2>1. UNCHANGED pt
    BY <1>10 DEF PgfaultCopy
  <2>2. QED BY <2>1 DEF Keeps
<1>11. CASE PgfaultMap(e)
  <2>1. MapEntry(e, "pftemp", e, flt[e].va, {"W"})
    BY <1>11, Entries
  <2>2. QED BY <2>1, SpotsAre, FreeIs, NothingIs DEF Keeps, Entry, NewEntry, MapEntry, Pte
<1>12. CASE PgfaultUnmap(e)
  <2>1. Entry(e, "pftemp", NoPte)
    BY <1>12, Entries
  <2>2. QED BY <2>1, SpotsAre, FreeIs, NothingIs DEF Keeps, Entry, NewEntry, MapEntry, Pte
<1>13. CASE PgfaultReturn(e)
  <2>1. UNCHANGED pt
    BY <1>13 DEF PgfaultReturn
  <2>2. QED BY <2>1 DEF Keeps
<1>14. CASE ForkExofork(e)
  <2>1. UNCHANGED pt
    BY <1>14 DEF ForkExofork, Exofork
  <2>2. QED BY <2>1 DEF Keeps
<1>15. CASE ForkExceptionStack(e)
  <2>1. NewEntry(child[e], "uxstack", {"W"})
    BY <1>15, Entries
  <2>2. QED BY <2>1, SpotsAre, FreeIs, NothingIs DEF Keeps, Entry, NewEntry, MapEntry, Pte
<1>16. CASE ForkLoop(e)
  <2>1. UNCHANGED pt
    BY <1>16 DEF ForkLoop
  <2>2. QED BY <2>1 DEF Keeps
<1>17. CASE DuppageChild(e)
  <2>1. \/ Writable(e) /\ MapEntry(e, Va(e), child[e], Va(e), {"COW"})
        \/ MapEntry(e, Va(e), child[e], Va(e), {})
    BY <1>17, Entries
  <2>2. QED BY <2>1, SpotsAre, FreeIs, NothingIs DEF Keeps, Entry, NewEntry, MapEntry, Pte
<1>18. CASE DuppageParent(e)
  <2>1. MapEntry(e, Va(e), e, Va(e), {"COW"})
    BY <1>18, Entries
  <2>2. QED BY <2>1, SpotsAre, FreeIs, NothingIs DEF Keeps, Entry, NewEntry, MapEntry, Pte
<1>19. CASE ForkFails(e)
  <2>1. UNCHANGED pt
    BY <1>19 DEF ForkFails
  <2>2. QED BY <2>1 DEF Keeps
<1>20. CASE ForkDone(e)
  <2>1. UNCHANGED pt
    BY <1>20 DEF ForkDone, SetRunnable
  <2>2. QED BY <2>1 DEF Keeps
<1>21. CASE SpawnExofork(e)
  <2>1. UNCHANGED pt
    BY <1>21 DEF SpawnExofork, Exofork
  <2>2. QED BY <2>1 DEF Keeps
<1>22. CASE InitStackAlloc(e)
  <2>1. NewEntry(e, "utemp", {"W"})
    BY <1>22, Entries
  <2>2. QED BY <2>1, SpotsAre, FreeIs, NothingIs DEF Keeps, Entry, NewEntry, MapEntry, Pte
<1>23. CASE InitStackMap(e)
  <2>1. MapEntry(e, "utemp", child[e], Stack, {"W"})
    BY <1>23, Entries
  <2>2. QED BY <2>1, SpotsAre, FreeIs, NothingIs DEF Keeps, Entry, NewEntry, MapEntry, Pte
<1>24. CASE InitStackUnmap(e)
  <2>1. Entry(e, "utemp", NoPte)
    BY <1>24, Entries
  <2>2. QED BY <2>1, SpotsAre, FreeIs, NothingIs DEF Keeps, Entry, NewEntry, MapEntry, Pte
<1>25. CASE InitStackFails(e)
  <2>1. UNCHANGED pt \/ Entry(e, "utemp", NoPte)
    BY <1>25, Entries
  <2>2. QED BY <2>1, SpotsAre, FreeIs, NothingIs DEF Keeps, Entry, NewEntry, MapEntry, Pte
<1>26. CASE MapSegmentAlloc(e)
  <2>1. NewEntry(e, "utemp", {"W"})
    BY <1>26, Entries
  <2>2. QED BY <2>1, SpotsAre, FreeIs, NothingIs DEF Keeps, Entry, NewEntry, MapEntry, Pte
<1>27. CASE MapSegmentRead(e)
  <2>1. UNCHANGED pt
    BY <1>27 DEF MapSegmentRead
  <2>2. QED BY <2>1 DEF Keeps
<1>28. CASE MapSegmentMap(e)
  <2>1. MapEntry(e, "utemp", child[e], Va(e), {})
    BY <1>28, Entries
  <2>2. QED BY <2>1, SpotsAre, FreeIs, NothingIs DEF Keeps, Entry, NewEntry, MapEntry, Pte
<1>29. CASE MapSegmentUnmap(e)
  <2>1. Entry(e, "utemp", NoPte)
    BY <1>29, Entries
  <2>2. QED BY <2>1, SpotsAre, FreeIs, NothingIs DEF Keeps, Entry, NewEntry, MapEntry, Pte
<1>30. CASE MapSegmentBlank(e)
  <2>1. NewEntry(child[e], Bss, {"W"})
    BY <1>30, Entries
  <2>2. QED BY <2>1, SpotsAre, FreeIs, NothingIs DEF Keeps, Entry, NewEntry, MapEntry, Pte
<1>31. CASE SpawnFails(e)
  <2>1. child[e] \in Envs /\ child[e] # e
    BY <1>31, Here DEF SpawnFails, Spawning
  <2>2. pt'[e] = pt[e]
    BY <1>1, <1>31, <2>1 DEF SpawnFails, MemTypes
  <2>3. QED BY <2>2 DEF Keeps
<1>32. CASE CopySharedPages(e)
  <2>1. IF "SHARE" \in pt[e][Shared].perm
        THEN MapEntry(e, Shared, child[e], Shared, {"W", "SHARE"})
        ELSE UNCHANGED pt
    BY <1>32, Entries
  <2>2. QED BY <2>1, SpotsAre, FreeIs, NothingIs DEF Keeps, Entry, NewEntry, MapEntry, Pte
<1>33. CASE SpawnPanics(e)
  <2>1. UNCHANGED pt
    BY <1>33 DEF SpawnPanics, Panic
  <2>2. QED BY <2>1 DEF Keeps
<1>34. CASE SpawnDone(e)
  <2>1. UNCHANGED pt
    BY <1>34 DEF SpawnDone, SetRunnable
  <2>2. QED BY <2>1 DEF Keeps
<1>35. CASE Destroyed(e)
  BY <1>1, <1>35 DEF Destroyed, Gone, CtlTypes
<1>36. QED
   BY <1>2, <1>3, <1>4, <1>5, <1>6, <1>7, <1>8, <1>9, <1>10, <1>11, <1>12,
     <1>13, <1>14, <1>15, <1>16, <1>17, <1>18, <1>19, <1>20, <1>21, <1>22,
     <1>23, <1>24, <1>25, <1>26, <1>27, <1>28, <1>29, <1>30, <1>31, <1>32,
     <1>33, <1>34, <1>35 DEF StepOf, Program, Handler, ForkStep, SpawnStep

\* What another starts is its child, at the end of fork or spawn.
Starts(a) ==
  \A g \in Envs \ {a} :
     \/ pc'[g] \in {"unborn", "built", "dead"} \/ pc'[g] = pc[g]
     \/ g = child[a] /\ pc[a] \in {"start", "sp_start"} /\ UNCHANGED pt

\* Only the actor's own child starts to run, and its page table is not touched then.
LEMMA StartsActor ==
  ASSUME CowInv, NEW e \in Envs, StepOf(e)
  PROVE  Starts(e)
<1>1. CtlTypes
  BY DEF CowInv, TypeInv
<1>2. ASSUME NEW va \in VPages, Fault(e, va) PROVE Starts(e)
  <2>1. \A g \in Envs \ {e} : pc'[g] = pc[g]
    BY <1>1, <1>2 DEF Fault, CtlTypes
  <2>2. QED BY <2>1 DEF Starts
<1>3. ASSUME NEW va \in VPages, FaultKills(e, va) PROVE Starts(e)
  <2>1. \A g \in Envs \ {e} : pc'[g] = pc[g]
    BY <1>1, <1>3 DEF FaultKills, Gone, CtlTypes
  <2>2. QED BY <2>1 DEF Starts
<1>4. ASSUME NEW va \in VPages, NEW x \in Values, Store(e, va, x) PROVE Starts(e)
  <2>1. \A g \in Envs \ {e} : pc'[g] = pc[g]
    BY <1>1, <1>4 DEF Store, CtlTypes
  <2>2. QED BY <2>1 DEF Starts
<1>5. CASE SetPgfaultHandler(e)
  <2>1. \A g \in Envs \ {e} : pc'[g] = pc[g]
    BY <1>1, <1>5 DEF SetPgfaultHandler, Goto, CtlTypes
  <2>2. QED BY <2>1 DEF Starts
<1>6. CASE SetPgfaultHandlerPanics(e)
  <2>1. \A g \in Envs \ {e} : pc'[g] = pc[g]
    BY <1>1, <1>6 DEF SetPgfaultHandlerPanics, Panic, Goto, CtlTypes
  <2>2. QED BY <2>1 DEF Starts
<1>7. CASE Spawn(e)
  <2>1. \A g \in Envs \ {e} : pc'[g] = pc[g]
    BY <1>1, <1>7 DEF Spawn, Goto, CtlTypes
  <2>2. QED BY <2>1 DEF Starts
<1>8. CASE PgfaultAlloc(e)
  <2>1. \A g \in Envs \ {e} : pc'[g] = pc[g]
    BY <1>1, <1>8 DEF PgfaultAlloc, CtlTypes
  <2>2. QED BY <2>1 DEF Starts
<1>9. CASE PgfaultPanics(e)
  <2>1. \A g \in Envs \ {e} : pc'[g] = pc[g]
    BY <1>1, <1>9 DEF PgfaultPanics, Panic, Goto, CtlTypes
  <2>2. QED BY <2>1 DEF Starts
<1>10. CASE PgfaultCopy(e)
  <2>1. \A g \in Envs \ {e} : pc'[g] = pc[g]
    BY <1>1, <1>10 DEF PgfaultCopy, CtlTypes
  <2>2. QED BY <2>1 DEF Starts
<1>11. CASE PgfaultMap(e)
  <2>1. \A g \in Envs \ {e} : pc'[g] = pc[g]
    BY <1>1, <1>11 DEF PgfaultMap, CtlTypes
  <2>2. QED BY <2>1 DEF Starts
<1>12. CASE PgfaultUnmap(e)
  <2>1. \A g \in Envs \ {e} : pc'[g] = pc[g]
    BY <1>1, <1>12 DEF PgfaultUnmap, CtlTypes
  <2>2. QED BY <2>1 DEF Starts
<1>13. CASE PgfaultReturn(e)
  <2>1. \A g \in Envs \ {e} : pc'[g] = pc[g]
    BY <1>1, <1>13 DEF PgfaultReturn, CtlTypes
  <2>2. QED BY <2>1 DEF Starts
<1>14. CASE ForkExofork(e)
  BY <1>1, <1>14 DEF ForkExofork, Exofork, Goto, At, Starts, CtlTypes
<1>15. CASE ForkExceptionStack(e)
  <2>1. \A g \in Envs \ {e} : pc'[g] = pc[g]
    BY <1>1, <1>15 DEF ForkExceptionStack, Goto, CtlTypes
  <2>2. QED BY <2>1 DEF Starts
<1>16. CASE ForkLoop(e)
  <2>1. \A g \in Envs \ {e} : pc'[g] = pc[g]
    BY <1>1, <1>16 DEF ForkLoop, Goto, CtlTypes
  <2>2. QED BY <2>1 DEF Starts
<1>17. CASE DuppageChild(e)
  <2>1. \A g \in Envs \ {e} : pc'[g] = pc[g]
    BY <1>1, <1>17 DEF DuppageChild, Goto, CtlTypes
  <2>2. QED BY <2>1 DEF Starts
<1>18. CASE DuppageParent(e)
  <2>1. \A g \in Envs \ {e} : pc'[g] = pc[g]
    BY <1>1, <1>18 DEF DuppageParent, Goto, CtlTypes
  <2>2. QED BY <2>1 DEF Starts
<1>19. CASE ForkFails(e)
  <2>1. \A g \in Envs \ {e} : pc'[g] = pc[g]
    BY <1>1, <1>19 DEF ForkFails, Goto, CtlTypes
  <2>2. QED BY <2>1 DEF Starts
<1>20. CASE ForkDone(e)
  BY <1>1, <1>20 DEF ForkDone, SetRunnable, At, Starts, CtlTypes
<1>21. CASE SpawnExofork(e)
  BY <1>1, <1>21 DEF SpawnExofork, Exofork, Goto, At, Starts, CtlTypes
<1>22. CASE InitStackAlloc(e)
  <2>1. \A g \in Envs \ {e} : pc'[g] = pc[g]
    BY <1>1, <1>22 DEF InitStackAlloc, Goto, CtlTypes
  <2>2. QED BY <2>1 DEF Starts
<1>23. CASE InitStackMap(e)
  <2>1. \A g \in Envs \ {e} : pc'[g] = pc[g]
    BY <1>1, <1>23 DEF InitStackMap, Goto, CtlTypes
  <2>2. QED BY <2>1 DEF Starts
<1>24. CASE InitStackUnmap(e)
  <2>1. \A g \in Envs \ {e} : pc'[g] = pc[g]
    BY <1>1, <1>24 DEF InitStackUnmap, Goto, CtlTypes
  <2>2. QED BY <2>1 DEF Starts
<1>25. CASE InitStackFails(e)
  <2>1. \A g \in Envs \ {e} : pc'[g] = pc[g]
    BY <1>1, <1>25 DEF InitStackFails, Goto, CtlTypes
  <2>2. QED BY <2>1 DEF Starts
<1>26. CASE MapSegmentAlloc(e)
  <2>1. \A g \in Envs \ {e} : pc'[g] = pc[g]
    BY <1>1, <1>26 DEF MapSegmentAlloc, Goto, CtlTypes
  <2>2. QED BY <2>1 DEF Starts
<1>27. CASE MapSegmentRead(e)
  <2>1. \A g \in Envs \ {e} : pc'[g] = pc[g]
    BY <1>1, <1>27 DEF MapSegmentRead, Goto, CtlTypes
  <2>2. QED BY <2>1 DEF Starts
<1>28. CASE MapSegmentMap(e)
  <2>1. \A g \in Envs \ {e} : pc'[g] = pc[g]
    BY <1>1, <1>28 DEF MapSegmentMap, Goto, CtlTypes
  <2>2. QED BY <2>1 DEF Starts
<1>29. CASE MapSegmentUnmap(e)
  <2>1. \A g \in Envs \ {e} : pc'[g] = pc[g]
    BY <1>1, <1>29 DEF MapSegmentUnmap, Goto, CtlTypes
  <2>2. QED BY <2>1 DEF Starts
<1>30. CASE MapSegmentBlank(e)
  <2>1. \A g \in Envs \ {e} : pc'[g] = pc[g]
    BY <1>1, <1>30 DEF MapSegmentBlank, Goto, CtlTypes
  <2>2. QED BY <2>1 DEF Starts
<1>31. CASE SpawnFails(e)
  BY <1>1, <1>31 DEF SpawnFails, Starts, CtlTypes
<1>32. CASE CopySharedPages(e)
  <2>1. \A g \in Envs \ {e} : pc'[g] = pc[g]
    BY <1>1, <1>32 DEF CopySharedPages, Goto, CtlTypes
  <2>2. QED BY <2>1 DEF Starts
<1>33. CASE SpawnPanics(e)
  <2>1. \A g \in Envs \ {e} : pc'[g] = pc[g]
    BY <1>1, <1>33 DEF SpawnPanics, Panic, Goto, CtlTypes
  <2>2. QED BY <2>1 DEF Starts
<1>34. CASE SpawnDone(e)
  BY <1>1, <1>34 DEF SpawnDone, SetRunnable, At, Starts, CtlTypes
<1>35. CASE Destroyed(e)
  <2>1. \A g \in Envs \ {e} : pc'[g] = pc[g]
    BY <1>1, <1>35 DEF Destroyed, Gone, CtlTypes
  <2>2. QED BY <2>1 DEF Starts
<1>36. QED
   BY <1>2, <1>3, <1>4, <1>5, <1>6, <1>7, <1>8, <1>9, <1>10, <1>11, <1>12,
     <1>13, <1>14, <1>15, <1>16, <1>17, <1>18, <1>19, <1>20, <1>21, <1>22,
     <1>23, <1>24, <1>25, <1>26, <1>27, <1>28, <1>29, <1>30, <1>31, <1>32,
     <1>33, <1>34, <1>35 DEF StepOf, Program, Handler, ForkStep, SpawnStep

\* Whatever runs has all its pages after the step.
LEMMA WholeStep ==
  ASSUME CowInv, WholeInv, GiveInv, NEW e \in Envs, StepOf(e)
  PROVE  WholeInv'
<1>1. /\ pc[e] \notin {"unborn", "built", "dead"} /\ (pc'[e] = "dead" \/ Keeps(e))
      /\ Starts(e) /\ Touch(e) /\ OnlyBy(e)
  BY Alive, KeepsActor, StartsActor, TouchActor, OnlyActor
<1> SUFFICES ASSUME NEW g \in Envs, pc'[g] \notin {"unborn", "built", "dead"}, NEW v \in VPages \ {Shared}
             PROVE  pt'[g][v].fr # NoOne
  BY DEF WholeInv
<1>2. v \in Vas
  BY SpotsAre
<1>3. CASE g = e
  BY <1>1, <1>3 DEF WholeInv, Keeps
<1>4. CASE g # e /\ pc'[g] = pc[g]
  <2>1. pc[e] \in Making => child[e] # g
    BY <1>4, NothingIs DEF CowInv, LifeInv, ChildInv
  <2>2. pt'[g][v] = pt[g][v]
    BY <1>1, <1>2, <1>4, <2>1 DEF Touch
  <2>3. QED BY <1>4, <2>2 DEF WholeInv
<1>5. CASE g # e /\ g = child[e] /\ pc[e] \in {"start", "sp_start"} /\ UNCHANGED pt
  <2>1. PICK j \in 1 .. 4 : v = Order[j] /\ j # 3
    BY OrderIs
  <2>2. ForkGives(e) /\ SpawnGives(e)
    BY DEF GiveInv
  <2>3. CASE pc[e] = "start"
    <3>1. pt[g][v].fr = NoOne <=> pt[e][v].fr = NoOne
      BY <1>5, <2>1, <2>2, <2>3 DEF ForkGives, Given, Forking
    <3>2. pt[e][v].fr # NoOne
      BY <2>3 DEF WholeInv
    <3>3. QED BY <1>5, <3>1, <3>2
  <2>4. CASE pc[e] = "sp_start"
    <3>1. page[e] = 3
      BY <2>4 DEF CowInv, PageInv
    <3>2. /\ pt[g][Stack].fr # NoOne /\ pt[g][Text].fr # NoOne /\ pt[g][Bss].fr # NoOne
      BY <1>5, <2>2, <2>4, <3>1 DEF SpawnGives, Spawning
    <3>3. v \in {Text, Bss, Stack}
      BY <2>1, OrderIs
    <3>4. QED BY <1>5, <3>2, <3>3
  <2>5. QED BY <1>5, <2>3, <2>4
<1>6. QED BY <1>1, <1>3, <1>4, <1>5 DEF Starts

\* At the start only the first environment has pages, and all of them.
LEMMA InitSpace == Init => SpaceInv
<1> SUFFICES ASSUME Init PROVE SpaceInv
  OBVIOUS
<1>1. /\ \A e \in Envs : pc[e] = (IF e = First THEN "run" ELSE "unborn")
      /\ pt = [e \in Envs |-> IF e = First THEN FirstPt ELSE NoPt]
  BY DEF Init
<1>2. /\ FirstPt[Text] = [fr |-> 1, perm |-> {}] /\ FirstPt[Bss] = [fr |-> 2, perm |-> {"W"}]
      /\ FirstPt[Stack] = [fr |-> 4, perm |-> {"W"}]
  BY NothingIs, PagesAre, SpotsAre DEF FirstPt, Text, Bss, Shared, Stack
<1>3. WholeInv
  <2>1. NoOne \notin {1, 2, 4}
    BY ForkAssumption
  <2>2. VPages \ {Shared} = {Text, Bss, Stack}
    BY PagesAre DEF Text, Bss, Shared, Stack
  <2>3. QED BY <1>1, <1>2, <2>1, <2>2 DEF WholeInv
<1>4. GroupInv
  <2>1. \A e \in Envs \ {First} : pt[e][Shared] = NoPte
    BY <1>1, NothingIs, SpotsAre
  <2>2. NoPte.perm = {}
    BY DEF NoPte
  <2>3. \A e \in Envs \ {First} : pt[e][Shared].perm = {}
    BY <2>1, <2>2
  <2>4. QED BY <2>3 DEF GroupInv
<1>5. GiveInv
  BY <1>1 DEF GiveInv, ForkGives, SpawnGives, Filled, Forking, Spawning
<1>6. QED BY <1>3, <1>4, <1>5 DEF SpaceInv

\* Every step preserves what the mapping needs.
LEMMA SpaceStep == CowInv /\ SpaceInv /\ [Next]_vars => SpaceInv'
<1> SUFFICES ASSUME CowInv, SpaceInv, [Next]_vars PROVE SpaceInv'
  OBVIOUS
<1>1. CASE UNCHANGED vars
  <2>1. UNCHANGED <<pc, child, page, pt, mem>>
    BY <1>1 DEF vars
  <2>2. WholeInv' /\ GroupInv'
    BY <2>1 DEF SpaceInv, WholeInv, GroupInv
  <2>3. \A e \in Envs : ForkGives(e)' /\ SpawnGives(e)' /\ Filled(e)'
    <3>1. TAKE e \in Envs
    <3>2. ForkGives(e) /\ SpawnGives(e) /\ Filled(e)
      BY DEF SpaceInv, GiveInv
    <3>3. ForkGives(e)'
      BY <2>1, <3>2 DEF ForkGives, Given, Va
    <3>4. SpawnGives(e)' /\ Filled(e)'
      BY <2>1, <3>2 DEF SpawnGives, Filled
    <3>5. QED BY <3>3, <3>4
  <2>4. QED BY <2>2, <2>3 DEF SpaceInv, GiveInv
<1>2. CASE Next
  <2>1. PICK a \in Envs : StepOf(a)
    BY <1>2 DEF Next, StepOf
  <2>2. WholeInv /\ GroupInv /\ GiveInv
    BY DEF SpaceInv
  <2>3. WholeInv' /\ GroupInv'
    BY <2>1, <2>2, WholeStep, SharesActor, GroupStep
  <2>4. ASSUME NEW e \in Envs PROVE Gives(e)'
    <3>1. Gives(e)
      BY <2>2 DEF GiveInv, Gives
    <3>2. CASE e = a
      BY <2>1, <3>1, <3>2, GivesMine
    <3>3. CASE e # a
      <4>1. OnlyBy(a) /\ Touch(a) /\ pc[a] # "built" /\ \A n \in Frames : mem'[n] = mem[n] \/ Alters(a, n)
        BY <2>1, OnlyActor, TouchActor, NotBuilt, MemActor
      <4>2. QED BY <3>1, <3>3, <4>1, GivesOthers
    <3>4. QED BY <3>2, <3>3
  <2>5. QED BY <2>3, <2>4 DEF SpaceInv, GiveInv, Gives
<1>3. QED BY <1>1, <1>2

(* What fork and spawn have given their children so far: fork's has the    *)
(* pages of its parent up to the one that the loop has come to, spawn's    *)
(* those that its steps have loaded; whoever runs has all its pages, and   *)
(* all who share the shared page share the same one.                       *)
THEOREM SpaceInvariant == Spec => [](CowInv /\ SpaceInv)
<1>1. Init => CowInv /\ SpaceInv
  BY InitCow, InitSpace
<1>2. (CowInv /\ SpaceInv) /\ [Next]_vars => (CowInv /\ SpaceInv)'
  BY CowStep, SpaceStep
<1>3. QED BY <1>1, <1>2, PTL DEF Spec

-----------------------------------------------------------------------------
(* What the mapping reads. *)

Made(e) == [env |-> e, how |-> IF pc[e] \in Forking THEN "fork" ELSE "spawn"]
Nobody == [env |-> NoOne, how |-> "none"]

\* The maker of a child is the environment whose child it is.
LEMMA MakerIs ==
  ASSUME ChildInv, NEW c \in Envs
  PROVE  /\ \A e \in Envs : child[e] = c => Maker(c) = Made(e)
         /\ (\A e \in Envs : child[e] # c) => Maker(c) = Nobody
<1>1. ASSUME NEW e \in Envs, child[e] = c PROVE Maker(c) = Made(e)
  <2>1. \A f \in Envs : child[f] = c <=> f = e
    BY <1>1, NothingIs DEF ChildInv
  <2>2. (CHOOSE f \in Envs : child[f] = c) = e
    BY <2>1
  <2>3. QED BY <1>1, <2>2 DEF Maker, Made
<1>2. QED BY <1>1 DEF Maker, Nobody

\* The same, of the next state.
LEMMA MakerNext ==
  ASSUME ChildInv', NEW c \in Envs
  PROVE  /\ \A e \in Envs : child'[e] = c => Maker(c)' = Made(e)'
         /\ (\A e \in Envs : child'[e] # c) => Maker(c)' = Nobody
<1>1. ASSUME NEW e \in Envs, child'[e] = c PROVE Maker(c)' = Made(e)'
  <2>1. \A f \in Envs : child'[f] = c <=> f = e
    BY <1>1, NothingIs DEF ChildInv
  <2>2. (CHOOSE f \in Envs : child'[f] = c) = e
    BY <2>1
  <2>3. QED BY <1>1, <2>2 DEF Maker, Made
<1>2. QED BY <1>1 DEF Maker, Nobody

\* One who is no child being made, or runs, hides nothing.
LEMMA SeenIs ==
  ASSUME MemTypes, PteInv, NEW c \in Envs, NEW v \in VPages
  PROVE  /\ pt[c][v].fr = NoOne => Reads(c, v) = NoOne
         /\ (pt[c][v].fr # NoOne /\ ~Pending(c, v) /\ ~Orphan(c)) =>
              Reads(c, v) = mem[pt[c][v].fr] /\ Reads(c, v) \in Values /\ Reads(c, v) # NoOne
         /\ (Pending(c, v) \/ Orphan(c)) => Reads(c, v) = NoOne
<1>1. v \in Vas
  BY SpotsAre
<1>2. pt[c][v] = NoPte <=> pt[c][v].fr = NoOne
  BY <1>1, NoPteIs
<1>3. pt[c][v].fr # NoOne => mem[pt[c][v].fr] \in Values
  BY <1>1 DEF MemTypes, Ptes
<1>4. QED BY <1>2, <1>3, ForkAssumption DEF Reads

\* What runs hides nothing.
LEMMA RunnerSees ==
  ASSUME LifeInv, NEW c \in Envs, pc[c] # "built", NEW v \in VPages
  PROVE  ~Pending(c, v) /\ ~Orphan(c)
BY NothingIs DEF LifeInv, ChildInv, Pending, Orphan

\* What a child with a maker hides is its maker's doing.
LEMMA ChildSees ==
  ASSUME LifeInv, NEW e \in Envs, NEW c \in Envs, child[e] = c, NEW v \in VPages
  PROVE  /\ ~Orphan(c)
         /\ Pending(c, v) <=> /\ pc[e] = "remap" /\ Va(e) = v
                              /\ pt[e][v].fr = pt[c][v].fr /\ "W" \in pt[e][v].perm
<1>1. \A f \in Envs : child[f] = c <=> f = e
  BY NothingIs DEF LifeInv, ChildInv
<1>2. QED BY <1>1 DEF Pending, Orphan

\* The same, of the next state.
LEMMA SeenNext ==
  ASSUME MemTypes', PteInv', NEW c \in Envs, NEW v \in VPages
  PROVE  /\ pt'[c][v].fr = NoOne => Reads(c, v)' = NoOne
         /\ (pt'[c][v].fr # NoOne /\ ~Pending(c, v)' /\ ~Orphan(c)') => Reads(c, v)' = mem'[pt'[c][v].fr]
         /\ (Pending(c, v)' \/ Orphan(c)') => Reads(c, v)' = NoOne
<1>1. v \in Vas
  BY SpotsAre
<1>2. pt'[c][v] = [fr |-> pt'[c][v].fr, perm |-> pt'[c][v].perm]
  BY <1>1 DEF MemTypes, Ptes
<1>3. pt'[c][v] = NoPte <=> pt'[c][v].fr = NoOne
  <2>1. ASSUME pt'[c][v].fr = NoOne PROVE pt'[c][v] = NoPte
    <3>1. pt'[c][v].perm = {}
      BY <1>1, <2>1 DEF PteInv
    <3>2. QED BY <1>2, <2>1, <3>1 DEF NoPte
  <2>2. QED BY <2>1, NothingIs
<1>4. QED BY <1>3 DEF Reads

\* The same, of the next state.
LEMMA RunnerNext ==
  ASSUME LifeInv', NEW c \in Envs, pc'[c] # "built", NEW v \in VPages
  PROVE  ~Pending(c, v)' /\ ~Orphan(c)'
BY NothingIs DEF LifeInv, ChildInv, Pending, Orphan

\* What a child with a maker hides in the next state is its maker's doing.
LEMMA ChildNext ==
  ASSUME LifeInv', NEW e \in Envs, NEW c \in Envs, child'[e] = c, NEW v \in VPages
  PROVE  /\ ~Orphan(c)'
         /\ Pending(c, v)' <=> /\ pc'[e] = "remap" /\ Va(e)' = v
                               /\ pt'[e][v].fr = pt'[c][v].fr /\ "W" \in pt'[e][v].perm
<1>1. \A f \in Envs : child'[f] = c <=> f = e
  BY NothingIs DEF LifeInv, ChildInv
<1>2. QED BY <1>1 DEF Pending, Orphan

-----------------------------------------------------------------------------
(* The abstract variables, entry by entry. *)

Mapped == <<statuses, contents, makers, sharers, followers, copies, stores>>
Steady == <<statuses, contents, makers, sharers, followers, stores>>

\* If every page reads as before, the memories are the same.
LEMMA ReadsSame ==
  ASSUME \A g \in Envs, w \in VPages : Reads(g, w)' = Reads(g, w)
  PROVE  contents' = contents
BY DEF contents

\* If one page reads otherwise, one page of one memory has changed.
LEMMA ReadsOne ==
  ASSUME NEW c \in Envs, NEW v \in VPages, NEW x,
         \A g \in Envs, w \in VPages : Reads(g, w)' = IF g = c /\ w = v THEN x ELSE Reads(g, w)
  PROVE  contents' = [contents EXCEPT ![c][v] = x]
<1>1. \A g \in Envs : [w \in VPages |-> Reads(g, w)'] =
                        IF g = c THEN [[w \in VPages |-> Reads(g, w)] EXCEPT ![v] = x]
                                 ELSE [w \in VPages |-> Reads(g, w)]
  OBVIOUS
<1>2. QED BY <1>1 DEF contents

\* The makers, entry by entry.
LEMMA MakersSame ==
  ASSUME \A g \in Envs : Maker(g)' = Maker(g)
  PROVE  makers' = makers
BY DEF makers

\* The statuses, entry by entry.
LEMMA StatusSame ==
  ASSUME \A g \in Envs : Status(g)' = Status(g)
  PROVE  statuses' = statuses
BY DEF statuses

\* Those who share, entry by entry.
LEMMA ShareSame ==
  ASSUME \A g \in Envs : ("SHARE" \in pt'[g][Shared].perm /\ ~Orphan(g)') <=>
                         ("SHARE" \in pt[g][Shared].perm /\ ~Orphan(g))
  PROVE  sharers' = sharers
BY DEF sharers

\* What the abstract variables are at an environment.
LEMMA ValuesAre ==
  ASSUME NEW c \in Envs
  PROVE  /\ statuses[c] = Status(c) /\ makers[c] = Maker(c) /\ copies[c] = Held(c)
         /\ \A v \in VPages : contents[c][v] = Reads(c, v)
BY DEF statuses, makers, contents, copies

\* The abstract status in terms of the program counter.
LEMMA StatusIs ==
  ASSUME CtlTypes, NEW c \in Envs
  PROVE  /\ pc[c] = "built" <=> Status(c) = "new"
         /\ pc[c] \notin {"unborn", "built", "dead"} <=> Status(c) = "run"
         /\ pc[c] = "unborn" <=> Status(c) = "free"
         /\ pc[c] = "dead" <=> Status(c) = "dead"
BY DEF CtlTypes, Status, Labels, Forking, Spawning

\* The copies not yet in place, entry by entry.
LEMMA HeldSame ==
  ASSUME \A g \in Envs : Held(g)' = Held(g)
  PROVE  copies' = copies
BY DEF copies

-----------------------------------------------------------------------------
(* Those who follow the group that shares a page.                          *)

\* g reads frame n at the shared page.
Lies(g, n) == pt[g][Shared].fr = n /\ ~Orphan(g) /\ ~Pending(g, Shared)

\* One who shares is not a child of fork, and reads the page it shares.
LEMMA SharerLies ==
  ASSUME CowInv, NEW s \in sharers
  PROVE  pt[s][Shared].fr \in Frames /\ Lies(s, pt[s][Shared].fr)
<1>1. s \in Envs /\ "SHARE" \in pt[s][Shared].perm /\ ~Orphan(s)
  BY DEF sharers
<1>2. pt[s][Shared].perm \in Perms /\ pt[s][Shared].fr \in Frames \cup {NoOne}
  BY <1>1, SpotsAre DEF CowInv, TypeInv, MemTypes, Ptes
<1>3. "W" \in pt[s][Shared].perm /\ pt[s][Shared].fr # NoOne
  BY <1>1, <1>2, SpotsAre DEF Perms, CowInv, PteInv
<1>4. ~Pending(s, Shared)
  <2>1. ASSUME NEW e \in Envs, child[e] = s, pc[e] = "remap" PROVE FALSE
    BY <1>1, <1>3, <2>1, NothingIs, SpotsAre DEF CowInv, ForkInv, Forking
  <2>2. QED BY <2>1 DEF Pending
<1>5. QED BY <1>1, <1>2, <1>3, <1>4 DEF Lies

\* The same, of the next state.
LEMMA SharerLiesNext ==
  ASSUME CowInv', NEW s \in sharers'
  PROVE  pt'[s][Shared].fr \in Frames /\ \A n : n = pt'[s][Shared].fr => Lies(s, n)'
<1>1. s \in Envs /\ "SHARE" \in pt'[s][Shared].perm /\ ~Orphan(s)'
  BY DEF sharers
<1>2. pt'[s][Shared].perm \in Perms /\ pt'[s][Shared].fr \in Frames \cup {NoOne}
  BY <1>1, SpotsAre DEF CowInv, TypeInv, MemTypes, Ptes
<1>3. "W" \in pt'[s][Shared].perm /\ pt'[s][Shared].fr # NoOne
  BY <1>1, <1>2, SpotsAre DEF Perms, CowInv, PteInv
<1>4. ~Pending(s, Shared)'
  <2>1. ASSUME NEW e \in Envs, child'[e] = s, pc'[e] = "remap" PROVE FALSE
    BY <1>1, <1>3, <2>1, NothingIs, SpotsAre DEF CowInv, ForkInv, Forking
  <2>2. QED BY <2>1 DEF Pending
<1>5. QED BY <1>1, <1>2, <1>3, <1>4 DEF Lies

\* The followers are those who read the group's frame and are not of the group.
LEMMA FollowAt ==
  ASSUME GroupInv, NEW s \in sharers, NEW n, n = pt[s][Shared].fr, NEW g \in Envs
  PROVE  g \in followers <=> g \notin sharers /\ Lies(g, n)
<1>1. \A t \in sharers : pt[t][Shared].fr = n
  BY DEF GroupInv, sharers
<1>2. QED BY <1>1 DEF followers, Follows, sharers, Lies

\* The same, of the next state.
LEMMA FollowNext ==
  ASSUME GroupInv', NEW s \in sharers', NEW n, n = pt'[s][Shared].fr, NEW g \in Envs
  PROVE  g \in followers' <=> g \notin sharers' /\ Lies(g, n)'
<1>1. \A t \in sharers' : pt'[t][Shared].fr = n
  BY DEF GroupInv, sharers
<1>2. QED BY <1>1 DEF followers, Follows, sharers, Lies

\* Without a group nobody follows.
LEMMA FollowNone ==
  /\ followers \subseteq Envs /\ (sharers = {} => followers = {})
  /\ followers' \subseteq Envs /\ (sharers' = {} => followers' = {})
BY DEF followers, Follows

\* The group loses some, and so do its followers.
LEMMA FollowDrops ==
  ASSUME CowInv, GroupInv, GroupInv', NEW lost, sharers' = sharers \ lost,
         \A n \in Frames, g \in Envs :
            (\E s \in sharers : pt[s][Shared].fr = n) => (Lies(g, n)' <=> Lies(g, n) /\ g \notin lost)
  PROVE  followers' = Spaces!Following(sharers', followers \ lost)
<1>1. CASE sharers' = {}
  BY <1>1, FollowNone DEF Spaces!Following
<1>2. CASE sharers' # {}
  <2>1. PICK s \in sharers' : s \in sharers /\ s \notin lost
    BY <1>2
  <2>2. PICK n \in Frames : n = pt[s][Shared].fr /\ Lies(s, n)
    BY <2>1, SharerLies
  <2>3. s \in Envs
    BY <2>1 DEF sharers
  <2>4. Lies(s, n)'
    BY <2>1, <2>2, <2>3
  <2>5. n = pt'[s][Shared].fr
    BY <2>4 DEF Lies
  <2>6. \A g \in Envs : g \in followers <=> g \notin sharers /\ Lies(g, n)
    BY <2>1, <2>2, FollowAt
  <2>7. \A g \in Envs : g \in followers' <=> g \notin sharers' /\ Lies(g, n)'
    BY <2>1, <2>5, FollowNext
  <2>8. \A g \in Envs : g \in followers' <=> g \in followers \ lost
    BY <2>1, <2>2, <2>6, <2>7
  <2>9. QED BY <1>2, <2>8, FollowNone DEF Spaces!Following
<1>3. QED BY <1>1, <1>2

\* The same group with the same frame has the same followers.
LEMMA FollowSame ==
  ASSUME CowInv, GroupInv, GroupInv', sharers' = sharers,
         \A n \in Frames, g \in Envs : Lies(g, n)' <=> Lies(g, n)
  PROVE  followers' = followers
<1>1. followers' = Spaces!Following(sharers', followers \ {})
  BY FollowDrops
<1>2. QED BY <1>1, FollowNone DEF Spaces!Following

\* a leaves the group by fork, and follows it with its child.
LEMMA FollowCopies ==
  ASSUME CowInv, GroupInv, GroupInv', NEW a \in Envs, NEW c \in Envs, c # a,
         sharers' = sharers \ {a}, c \notin sharers,
         \A n \in Frames, g \in Envs \ {c} : Lies(g, n)' <=> Lies(g, n),
         \A n \in Frames : ~Lies(c, n) /\ (Lies(c, n)' <=> Lies(a, n))
  PROVE  followers' = IF a \in sharers \cup followers
                      THEN Spaces!Following(sharers', followers \cup {a, c})
                      ELSE followers
<1>1. CASE sharers' = {}
  BY <1>1, FollowNone DEF Spaces!Following
<1>2. CASE sharers' # {}
  <2>1. PICK s \in sharers' : s \in sharers /\ s # a
    BY <1>2
  <2>2. PICK n \in Frames : n = pt[s][Shared].fr /\ Lies(s, n)
    BY <2>1, SharerLies
  <2>3. s \in Envs \ {c}
    BY <2>1 DEF sharers
  <2>4. Lies(s, n)'
    BY <2>2, <2>3
  <2>5. n = pt'[s][Shared].fr
    BY <2>4 DEF Lies
  <2>6. \A g \in Envs : g \in followers <=> g \notin sharers /\ Lies(g, n)
    BY <2>1, <2>2, FollowAt
  <2>7. \A g \in Envs : g \in followers' <=> g \notin sharers' /\ Lies(g, n)'
    BY <2>1, <2>5, FollowNext
  <2>8. a \in sharers => Lies(a, n)
    <3>1. SUFFICES ASSUME a \in sharers PROVE Lies(a, n)
      OBVIOUS
    <3>2. pt[a][Shared].fr = n
      BY <2>1, <2>2, <3>1 DEF GroupInv, sharers
    <3>3. QED BY <3>1, <3>2, SharerLies
  <2>9. CASE a \in sharers \cup followers
    <3>1. Lies(a, n)
      BY <2>6, <2>8, <2>9
    <3>2. \A g \in Envs : g \in followers' <=> g \in followers \cup {a, c}
      BY <2>6, <2>7, <3>1
    <3>3. QED BY <1>2, <2>9, <3>2, FollowNone DEF Spaces!Following
  <2>10. CASE a \notin sharers \cup followers
    <3>1. ~Lies(a, n)
      BY <2>6, <2>10
    <3>2. \A g \in Envs : g \in followers' <=> g \in followers
      BY <2>6, <2>7, <2>10, <3>1
    <3>3. QED BY <2>10, <3>2, FollowNone
  <2>11. QED BY <2>9, <2>10
<1>3. QED BY <1>1, <1>2

\* What runs reads the frame that it maps.
LEMMA LiesRunner ==
  ASSUME LifeInv, LifeInv', NEW a \in Envs, pc[a] # "built", pc'[a] # "built"
  PROVE  \A n : (Lies(a, n) <=> pt[a][Shared].fr = n) /\ (Lies(a, n)' <=> pt'[a][Shared].fr = n)
BY SpotsAre, RunnerSees, RunnerNext DEF Lies

-----------------------------------------------------------------------------
(* The copy that the handler holds.                                        *)

\* Who handles no fault, or has not come so far, holds no copy.
LEMMA HeldNone ==
  ASSUME NEW g \in Envs
  PROVE  /\ flt[g].step # "map" \/ flt[g].va # Shared => Held(g) = NoOne
         /\ flt'[g].step # "map" \/ flt'[g].va # Shared => Held(g)' = NoOne
BY DEF Held

\* Nobody else touches it.
LEMMA HeldOthers ==
  ASSUME CowInv, NEW a \in Envs, StepOf(a), NEW g \in Envs \ {a}
  PROVE  Held(g)' = Held(g)
<1>1. flt'[g] = flt[g]
  BY OnlyActor DEF OnlyBy
<1>2. CASE flt[g].step = "map"
  <2>1. pc[g] # "built" /\ pt[g]["pftemp"].fr # NoOne
    BY <1>2, Here DEF CowInv, FaultInv
  <2>2. pt'[g]["pftemp"] = pt[g]["pftemp"]
    <3>1. ~(g = child[a] /\ pc[a] \in Making)
      BY <2>1, NothingIs DEF CowInv, LifeInv, ChildInv
    <3>2. QED BY <3>1, TouchActor, SpotsAre DEF Touch
  <2>3. pt[g]["pftemp"].fr \in Frames
    BY <2>1, SpotsAre DEF CowInv, TypeInv, MemTypes, Ptes
  <2>4. mem'[pt[g]["pftemp"].fr] = mem[pt[g]["pftemp"].fr]
    BY <1>2, <2>3, MemActor, CopiedSafe
  <2>5. QED BY <1>1, <2>2, <2>4 DEF Held
<1>3. CASE flt[g].step # "map"
  BY <1>1, <1>3 DEF Held
<1>4. QED BY <1>2, <1>3

\* A handler that holds a copy maps it next, or is destroyed.
LEMMA MapOnly ==
  ASSUME CowInv, NEW e \in Envs, StepOf(e), ~PgfaultMap(e), ~Destroyed(e)
  PROVE  flt[e].step # "map"
<1>1. NoFault.step = "none"
  BY NothingIs
<1>2. ASSUME NEW va \in VPages, Fault(e, va) PROVE flt[e].step # "map"
   BY <1>1, <1>2 DEF Fault, MayStore
<1>3. ASSUME NEW va \in VPages, FaultKills(e, va) PROVE flt[e].step # "map"
   BY <1>1, <1>3 DEF FaultKills, MayStore
<1>4. ASSUME NEW va \in VPages, NEW x \in Values, Store(e, va, x) PROVE flt[e].step # "map"
   BY <1>1, <1>4 DEF Store, MayStore
<1>5. CASE SetPgfaultHandler(e)
   BY <1>1, <1>5 DEF SetPgfaultHandler, At
<1>6. CASE SetPgfaultHandlerPanics(e)
   BY <1>1, <1>6 DEF SetPgfaultHandlerPanics, At
<1>7. CASE Spawn(e)
   BY <1>1, <1>7 DEF Spawn, At
<1>8. CASE PgfaultAlloc(e)
   BY <1>1, <1>8 DEF PgfaultAlloc, InFault
<1>9. CASE PgfaultPanics(e)
   BY <1>1, <1>9 DEF PgfaultPanics, InFault
<1>10. CASE PgfaultCopy(e)
   BY <1>1, <1>10 DEF PgfaultCopy, InFault
<1>12. CASE PgfaultUnmap(e)
   BY <1>1, <1>12 DEF PgfaultUnmap, InFault
<1>13. CASE PgfaultReturn(e)
   BY <1>1, <1>13 DEF PgfaultReturn, InFault
<1>14. CASE ForkExofork(e)
   BY <1>1, <1>14 DEF ForkExofork, Exofork, At
<1>15. CASE ForkExceptionStack(e)
   BY <1>1, <1>15 DEF ForkExceptionStack, At
<1>16. CASE ForkLoop(e)
   BY <1>1, <1>16 DEF ForkLoop, At
<1>17. CASE DuppageChild(e)
   BY <1>1, <1>17 DEF DuppageChild, At
<1>18. CASE DuppageParent(e)
   BY <1>1, <1>18 DEF DuppageParent, At
<1>19. CASE ForkFails(e)
   BY <1>1, <1>19 DEF ForkFails
<1>20. CASE ForkDone(e)
   BY <1>1, <1>20 DEF ForkDone, SetRunnable, At
<1>21. CASE SpawnExofork(e)
   BY <1>1, <1>21 DEF SpawnExofork, Exofork, At
<1>22. CASE InitStackAlloc(e)
   BY <1>1, <1>22 DEF InitStackAlloc, At
<1>23. CASE InitStackMap(e)
   BY <1>1, <1>23 DEF InitStackMap, At
<1>24. CASE InitStackUnmap(e)
   BY <1>1, <1>24 DEF InitStackUnmap, At
<1>25. CASE InitStackFails(e)
   BY <1>1, <1>25 DEF InitStackFails
<1>26. CASE MapSegmentAlloc(e)
   BY <1>1, <1>26 DEF MapSegmentAlloc, At
<1>27. CASE MapSegmentRead(e)
   BY <1>1, <1>27 DEF MapSegmentRead, At
<1>28. CASE MapSegmentMap(e)
   BY <1>1, <1>28 DEF MapSegmentMap, At
<1>29. CASE MapSegmentUnmap(e)
   BY <1>1, <1>29 DEF MapSegmentUnmap, At
<1>30. CASE MapSegmentBlank(e)
   BY <1>1, <1>30 DEF MapSegmentBlank, At
<1>31. CASE SpawnFails(e)
   BY <1>1, <1>31 DEF SpawnFails
<1>32. CASE CopySharedPages(e)
   BY <1>1, <1>32 DEF CopySharedPages, At
<1>33. CASE SpawnPanics(e)
   BY <1>1, <1>33 DEF SpawnPanics
<1>34. CASE SpawnDone(e)
   BY <1>1, <1>34 DEF SpawnDone, SetRunnable, At
<1>36. QED
   BY <1>2, <1>3, <1>4, <1>5, <1>6, <1>7, <1>8, <1>9, <1>10, <1>12,
     <1>13, <1>14, <1>15, <1>16, <1>17, <1>18, <1>19, <1>20, <1>21, <1>22,
     <1>23, <1>24, <1>25, <1>26, <1>27, <1>28, <1>29, <1>30, <1>31, <1>32,
     <1>33, <1>34 DEF StepOf, Program, Handler, ForkStep, SpawnStep

\* So only the handler's own steps matter.
LEMMA HoldStill ==
  ASSUME CowInv, NEW e \in Envs, StepOf(e), flt[e].step # "map", flt'[e].step # "map"
  PROVE  copies' = copies
BY HeldOthers, HeldNone, HeldSame

-----------------------------------------------------------------------------
(* Only a store is seen: what else is written is mapped at no page of a    *)
(* program.                                                                *)

Hush == \A g \in Envs, v \in VPages : pt[g][v].fr # NoOne => mem'[pt[g][v].fr] = mem[pt[g][v].fr]

Stores(e) == \E va \in VPages, x \in Values : Store(e, va, x)

\* A page that is allocated was free: no memory is seen to change.
LEMMA HushAlloc ==
  ASSUME MemTypes, NEW e \in Envs, NEW va \in Vas, NEW perm \in Perms, NEW x \in Values,
         PageAllocFill(e, va, perm, x)
  PROVE  Hush
<1>1. PICK n \in FreeFrames : mem' = [mem EXCEPT ![n] = x]
  BY AllocIs
<1>2. \A g \in Envs, v \in VPages : pt[g][v].fr # n /\ pt[g][v].fr \in Frames \cup {NoOne}
  BY <1>1, FreeIs, SpotsAre DEF MemTypes, Ptes
<1>3. QED BY <1>1, <1>2 DEF Hush, MemTypes

\* Nor when a page that only the handler or spawn maps is written.
LEMMA HushSole ==
  ASSUME MemTypes, NEW e \in Envs, NEW s \in Special, Sole(e, s), NEW x, mem' = [mem EXCEPT ![pt[e][s].fr] = x]
  PROVE  Hush
<1>1. \A g \in Envs, v \in VPages : pt[g][v].fr # pt[e][s].fr /\ pt[g][v].fr \in Frames \cup {NoOne}
  BY SpotsAre DEF Sole, MemTypes, Ptes
<1>2. QED BY <1>1 DEF Hush, MemTypes

\* Only a store changes the contents of a page that is in someone's memory.
LEMMA HushActor ==
  ASSUME CowInv, SpaceInv, NEW e \in Envs, StepOf(e)
  PROVE  Hush \/ Stores(e)
<1>1. MemTypes
  BY DEF CowInv, TypeInv
<1>2. ASSUME NEW va \in VPages, Fault(e, va) PROVE Hush \/ Stores(e)
  <2>1. UNCHANGED mem
    BY <1>2 DEF Fault
  <2>2. QED BY <2>1 DEF Hush
<1>3. ASSUME NEW va \in VPages, FaultKills(e, va) PROVE Hush \/ Stores(e)
  <2>1. UNCHANGED mem
    BY <1>3 DEF FaultKills, Gone
  <2>2. QED BY <2>1 DEF Hush
<1>4. ASSUME NEW va \in VPages, NEW x \in Values, Store(e, va, x) PROVE Hush \/ Stores(e)
  BY <1>4 DEF Stores
<1>5. CASE SetPgfaultHandler(e)
  <2>1. UNCHANGED mem \/ PageAllocFill(e, "uxstack", {"W"}, 0)
    BY <1>5 DEF SetPgfaultHandler, PageAlloc
  <2>2. QED BY <1>1, <2>1, HushAlloc, SpotsAre, PermsAre DEF Hush
<1>6. CASE SetPgfaultHandlerPanics(e)
  <2>1. UNCHANGED mem
    BY <1>6 DEF SetPgfaultHandlerPanics, Panic
  <2>2. QED BY <2>1 DEF Hush
<1>7. CASE Spawn(e)
  <2>1. UNCHANGED mem
    BY <1>7 DEF Spawn
  <2>2. QED BY <2>1 DEF Hush
<1>8. CASE PgfaultAlloc(e)
  <2>1. PageAllocFill(e, "pftemp", {"W"}, 0)
    BY <1>8 DEF PgfaultAlloc, PageAlloc
  <2>2. QED BY <1>1, <2>1, HushAlloc, SpotsAre, PermsAre
<1>9. CASE PgfaultPanics(e)
  <2>1. UNCHANGED mem
    BY <1>9 DEF PgfaultPanics, Panic
  <2>2. QED BY <2>1 DEF Hush
<1>10. CASE PgfaultCopy(e)
  <2>1. flt[e].step = "copy" /\ pt[e]["pftemp"].fr # NoOne
    BY <1>10 DEF PgfaultCopy, InFault, CowInv, FaultInv
  <2>2. Sole(e, "pftemp")
    BY <2>1, SoleIs, SpotsAre
  <2>3. QED BY <1>1, <1>10, <2>2, HushSole, SpotsAre DEF PgfaultCopy
<1>11. CASE PgfaultMap(e)
  <2>1. UNCHANGED mem
    BY <1>11 DEF PgfaultMap, PageMap
  <2>2. QED BY <2>1 DEF Hush
<1>12. CASE PgfaultUnmap(e)
  <2>1. UNCHANGED mem
    BY <1>12 DEF PgfaultUnmap, PageUnmap
  <2>2. QED BY <2>1 DEF Hush
<1>13. CASE PgfaultReturn(e)
  <2>1. UNCHANGED mem
    BY <1>13 DEF PgfaultReturn
  <2>2. QED BY <2>1 DEF Hush
<1>14. CASE ForkExofork(e)
  <2>1. UNCHANGED mem
    BY <1>14 DEF ForkExofork, Exofork
  <2>2. QED BY <2>1 DEF Hush
<1>15. CASE ForkExceptionStack(e)
  <2>1. child[e] \in Envs
    BY <1>15, Here DEF ForkExceptionStack, At, Forking, Spawning
  <2>2. PageAllocFill(child[e], "uxstack", {"W"}, 0)
    BY <1>15 DEF ForkExceptionStack, PageAlloc
  <2>3. QED BY <1>1, <2>1, <2>2, HushAlloc, SpotsAre, PermsAre
<1>16. CASE ForkLoop(e)
  <2>1. UNCHANGED mem
    BY <1>16 DEF ForkLoop
  <2>2. QED BY <2>1 DEF Hush
<1>17. CASE DuppageChild(e)
  <2>1. UNCHANGED mem
    BY <1>17 DEF DuppageChild, PageMap
  <2>2. QED BY <2>1 DEF Hush
<1>18. CASE DuppageParent(e)
  <2>1. UNCHANGED mem
    BY <1>18 DEF DuppageParent, PageMap
  <2>2. QED BY <2>1 DEF Hush
<1>19. CASE ForkFails(e)
  <2>1. UNCHANGED mem
    BY <1>19 DEF ForkFails
  <2>2. QED BY <2>1 DEF Hush
<1>20. CASE ForkDone(e)
  <2>1. UNCHANGED mem
    BY <1>20 DEF ForkDone, SetRunnable
  <2>2. QED BY <2>1 DEF Hush
<1>21. CASE SpawnExofork(e)
  <2>1. UNCHANGED mem
    BY <1>21 DEF SpawnExofork, Exofork
  <2>2. QED BY <2>1 DEF Hush
<1>22. CASE InitStackAlloc(e)
  <2>1. PageAllocFill(e, "utemp", {"W"}, Image[Stack])
    BY <1>22 DEF InitStackAlloc
  <2>2. QED BY <1>1, <2>1, HushAlloc, SpotsAre, PermsAre
<1>23. CASE InitStackMap(e)
  <2>1. UNCHANGED mem
    BY <1>23 DEF InitStackMap, PageMap
  <2>2. QED BY <2>1 DEF Hush
<1>24. CASE InitStackUnmap(e)
  <2>1. UNCHANGED mem
    BY <1>24 DEF InitStackUnmap, PageUnmap
  <2>2. QED BY <2>1 DEF Hush
<1>25. CASE InitStackFails(e)
  <2>1. UNCHANGED mem
    BY <1>25 DEF InitStackFails, PageUnmap
  <2>2. QED BY <2>1 DEF Hush
<1>26. CASE MapSegmentAlloc(e)
  <2>1. PageAllocFill(e, "utemp", {"W"}, 0)
    BY <1>26 DEF MapSegmentAlloc, PageAlloc
  <2>2. QED BY <1>1, <2>1, HushAlloc, SpotsAre, PermsAre
<1>27. CASE MapSegmentRead(e)
  <2>1. pc[e] = "sp_read" /\ pt[e]["utemp"].fr # NoOne
    BY <1>27 DEF MapSegmentRead, At, SpaceInv, GiveInv, Filled
  <2>2. Sole(e, "utemp")
    BY <2>1, SoleIs, SpotsAre
  <2>3. QED BY <1>1, <1>27, <2>2, HushSole, SpotsAre DEF MapSegmentRead
<1>28. CASE MapSegmentMap(e)
  <2>1. UNCHANGED mem
    BY <1>28 DEF MapSegmentMap, PageMap
  <2>2. QED BY <2>1 DEF Hush
<1>29. CASE MapSegmentUnmap(e)
  <2>1. UNCHANGED mem
    BY <1>29 DEF MapSegmentUnmap, PageUnmap
  <2>2. QED BY <2>1 DEF Hush
<1>30. CASE MapSegmentBlank(e)
  <2>1. child[e] \in Envs
    BY <1>30, Here DEF MapSegmentBlank, At, Forking, Spawning
  <2>2. PageAllocFill(child[e], Bss, {"W"}, 0)
    BY <1>30 DEF MapSegmentBlank, PageAlloc
  <2>3. QED BY <1>1, <2>1, <2>2, HushAlloc, SpotsAre, PermsAre
<1>31. CASE SpawnFails(e)
  <2>1. UNCHANGED mem
    BY <1>31 DEF SpawnFails
  <2>2. QED BY <2>1 DEF Hush
<1>32. CASE CopySharedPages(e)
  <2>1. UNCHANGED mem
    BY <1>32 DEF CopySharedPages, PageMap
  <2>2. QED BY <2>1 DEF Hush
<1>33. CASE SpawnPanics(e)
  <2>1. UNCHANGED mem
    BY <1>33 DEF SpawnPanics, Panic
  <2>2. QED BY <2>1 DEF Hush
<1>34. CASE SpawnDone(e)
  <2>1. UNCHANGED mem
    BY <1>34 DEF SpawnDone, SetRunnable
  <2>2. QED BY <2>1 DEF Hush
<1>35. CASE Destroyed(e)
  <2>1. UNCHANGED mem
    BY <1>35 DEF Destroyed, Gone
  <2>2. QED BY <2>1 DEF Hush
<1>36. QED
   BY <1>2, <1>3, <1>4, <1>5, <1>6, <1>7, <1>8, <1>9, <1>10, <1>11, <1>12,
     <1>13, <1>14, <1>15, <1>16, <1>17, <1>18, <1>19, <1>20, <1>21, <1>22,
     <1>23, <1>24, <1>25, <1>26, <1>27, <1>28, <1>29, <1>30, <1>31, <1>32,
     <1>33, <1>34, <1>35 DEF StepOf, Program, Handler, ForkStep, SpawnStep

-----------------------------------------------------------------------------
(* Those who have no part in a step are seen as before.                    *)

Seen(a) ==
  /\ OnlyBy(a) /\ Touch(a) /\ pc[a] \notin {"unborn", "built", "dead"}
  /\ GroupInv /\ GroupInv'

\* An environment other than the actor and its child keeps maker, status and pages.
LEMMA OthersAre ==
  ASSUME CowInv, CowInv', NEW a \in Envs, Seen(a),
         NEW g \in Envs, g # a, pc'[g] = pc[g], child[a] # g, child'[a] # g
  PROVE  /\ Maker(g)' = Maker(g) /\ Status(g)' = Status(g)
         /\ Orphan(g)' <=> Orphan(g)
         /\ \A v \in VPages : pt'[g][v] = pt[g][v] /\ (Pending(g, v)' <=> Pending(g, v))
<1>1. LifeInv /\ LifeInv' /\ CtlTypes /\ ChildInv /\ ChildInv'
  BY DEF CowInv, TypeInv, LifeInv
<1>2. \A f \in Envs \ {a} : child'[f] = child[f] /\ page'[f] = page[f]
  BY DEF Seen, OnlyBy
<1>3. \A v \in VPages : pt'[g][v] = pt[g][v]
  BY SpotsAre DEF Seen, Touch
<1>4. Orphan(g)' <=> Orphan(g)
  BY <1>2 DEF Orphan
<1>5. ASSUME NEW f \in Envs \ {a}, child[f] = g
      PROVE  pc'[f] = pc[f] /\ \A v \in VPages : pt'[f][v] = pt[f][v]
  <2>1. pc[f] \in Making
    BY <1>1, <1>5, NothingIs DEF ChildInv
  <2>2. pc[f] \notin {"unborn", "built"}
    BY <2>1 DEF Making, Forking, Spawning
  <2>3. pc[a] \in Making => pc[child[a]] = "built"
    BY <1>1 DEF ChildInv
  <2>4. ~(f = child[a] /\ pc[a] \in Making)
    BY <2>2, <2>3
  <2>5. pc'[f] = pc[f]
    BY <2>2, <2>4 DEF Seen, OnlyBy, Making, Forking, Spawning
  <2>6. QED BY <2>4, <2>5, SpotsAre DEF Seen, Touch
<1>6. \A v \in VPages : Pending(g, v)' <=> Pending(g, v)
  BY <1>2, <1>3, <1>5 DEF Pending, Va
<1>7. Maker(g)' = Maker(g)
  <2>1. ASSUME NEW f \in Envs, child[f] = g PROVE Maker(g)' = Maker(g)
    <3>1. f # a /\ child'[f] = g /\ pc'[f] = pc[f]
      BY <1>2, <1>5, <2>1
    <3>2. QED BY <1>1, <2>1, <3>1, MakerIs, MakerNext DEF Made
  <2>2. ASSUME \A f \in Envs : child[f] # g PROVE Maker(g)' = Maker(g)
    <3>1. \A f \in Envs : child'[f] # g
      BY <1>2, <2>2
    <3>2. QED BY <1>1, <2>2, <3>1, MakerIs, MakerNext
  <2>3. QED BY <2>1, <2>2
<1>8. Status(g)' = Status(g)
  BY DEF Status
<1>9. QED BY <1>3, <1>4, <1>6, <1>7, <1>8

\* And follow whom they followed.
LEMMA OthersLie ==
  ASSUME CowInv, CowInv', NEW a \in Envs, Seen(a),
         NEW g \in Envs, g # a, pc'[g] = pc[g], child[a] # g, child'[a] # g
  PROVE  \A n : Lies(g, n)' <=> Lies(g, n)
<1>1. /\ Orphan(g)' <=> Orphan(g)
      /\ pt'[g][Shared] = pt[g][Shared] /\ (Pending(g, Shared)' <=> Pending(g, Shared))
  BY OthersAre, SpotsAre
<1>2. QED BY <1>1 DEF Lies

\* And read as before, unless a stores.
LEMMA OthersRead ==
  ASSUME CowInv, CowInv', NEW a \in Envs, Seen(a), Hush,
         NEW g \in Envs, g # a, pc'[g] = pc[g], child[a] # g, child'[a] # g
  PROVE  \A v \in VPages : Reads(g, v)' = Reads(g, v)
<1>1. TAKE v \in VPages
<1>2. /\ Orphan(g)' <=> Orphan(g)
      /\ pt'[g][v] = pt[g][v] /\ (Pending(g, v)' <=> Pending(g, v))
  BY OthersAre
<1>3. /\ MemTypes /\ PteInv /\ MemTypes' /\ PteInv'
  BY DEF CowInv, TypeInv
<1>4. pt[g][v].fr # NoOne => mem'[pt[g][v].fr] = mem[pt[g][v].fr]
  BY DEF Hush
<1>5. QED BY <1>2, <1>3, <1>4, SeenIs, SeenNext

\* Who runs on reads what its pages hold.
LEMMA RunnerReads ==
  ASSUME CowInv, CowInv', NEW a \in Envs, pc[a] # "built", pc'[a] # "built", NEW v \in VPages,
         pt'[a][v].fr = NoOne <=> pt[a][v].fr = NoOne,
         pt[a][v].fr # NoOne => mem'[pt'[a][v].fr] = mem[pt[a][v].fr]
  PROVE  Reads(a, v)' = Reads(a, v)
<1>1. /\ MemTypes /\ PteInv /\ MemTypes' /\ PteInv' /\ LifeInv /\ LifeInv'
  BY DEF CowInv, TypeInv
<1>2. QED BY <1>1, SeenIs, SeenNext, RunnerSees, RunnerNext

-----------------------------------------------------------------------------
(* Steps that leave statuses and makers as they are.                       *)

\* a goes on, with the child it had, if any, made in the same way.
GoesOn(a) ==
  /\ pc'[a] \notin {"unborn", "built", "dead"}
  /\ \A g \in Envs \ {a} : pc'[g] = pc[g]
  /\ child'[a] = child[a]
  /\ child[a] \in Envs => (pc'[a] \in Forking <=> pc[a] \in Forking)

\* While the actor only goes on, statuses, makers and orphans stay.
LEMMA Still ==
  ASSUME CowInv, CowInv', NEW a \in Envs, Seen(a), GoesOn(a)
  PROVE  /\ statuses' = statuses /\ makers' = makers
         /\ \A g \in Envs : Orphan(g)' <=> Orphan(g)
<1>1. ChildInv /\ ChildInv' /\ pc[a] \notin {"unborn", "built", "dead"}
  BY DEF CowInv, LifeInv, Seen
<1> SUFFICES ASSUME NEW g \in Envs
             PROVE  Status(g)' = Status(g) /\ Maker(g)' = Maker(g) /\ (Orphan(g)' <=> Orphan(g))
  BY StatusSame, MakersSame
<1>2. CASE g = a
  <2>1. \A f \in Envs : child[f] # a /\ child'[f] # a
    BY <1>1, NothingIs DEF ChildInv, GoesOn
  <2>2. Maker(a)' = Maker(a)
    BY <1>1, <2>1, MakerIs, MakerNext
  <2>3. Status(a)' = Status(a)
    BY <1>1 DEF Status, GoesOn
  <2>4. QED BY <1>1, <1>2, <2>2, <2>3 DEF Orphan, GoesOn
<1>3. CASE g # a /\ child[a] = g
  <2>1. Maker(g)' = Maker(g)
    BY <1>1, <1>3, MakerIs, MakerNext DEF Made, GoesOn
  <2>2. Status(g)' = Status(g)
    BY <1>3 DEF Status, GoesOn
  <2>3. QED BY <1>3, <2>1, <2>2 DEF Orphan, GoesOn
<1>4. CASE g # a /\ child[a] # g
  BY <1>4, OthersAre DEF GoesOn
<1>5. QED BY <1>2, <1>3, <1>4

\* All but its child go on following, if the frame stays.
LEMMA LiesGoOn ==
  ASSUME CowInv, CowInv', NEW a \in Envs, Seen(a), GoesOn(a), pt'[a][Shared].fr = pt[a][Shared].fr
  PROVE  \A g \in Envs : child[a] # g => \A n : Lies(g, n)' <=> Lies(g, n)
<1>1. LifeInv /\ LifeInv' /\ pc[a] # "built" /\ pc'[a] # "built"
  BY DEF CowInv, Seen, GoesOn
<1>2. \A n : Lies(a, n)' <=> Lies(a, n)
  BY <1>1, LiesRunner
<1>3. \A g \in Envs : g # a /\ child[a] # g => \A n : Lies(g, n)' <=> Lies(g, n)
  BY OthersLie DEF GoesOn
<1>4. QED BY <1>2, <1>3

\* Nothing is seen to change.
LEMMA Unread ==
  ASSUME CowInv, CowInv', NEW a \in Envs, Seen(a), GoesOn(a), Hush, stores' = stores,
         "SHARE" \in pt'[a][Shared].perm <=> "SHARE" \in pt[a][Shared].perm,
         pt'[a][Shared].fr = pt[a][Shared].fr,
         \A v \in VPages : Reads(a, v)' = Reads(a, v),
         \A c \in Envs : c = child[a] =>
            /\ "SHARE" \in pt'[c][Shared].perm <=> "SHARE" \in pt[c][Shared].perm
            /\ \A v \in VPages : Reads(c, v)' = Reads(c, v)
            /\ \A n \in Frames : Lies(c, n)' <=> Lies(c, n)
  PROVE  UNCHANGED Steady /\ (copies' = copies => UNCHANGED Mapped)
<1>1. /\ statuses' = statuses /\ makers' = makers
      /\ \A g \in Envs : Orphan(g)' <=> Orphan(g)
  BY Still
<1>2. \A g \in Envs : g # a /\ child[a] # g => pt'[g][Shared] = pt[g][Shared] /\ \A v \in VPages : Reads(g, v)' = Reads(g, v)
  BY OthersAre, OthersRead, SpotsAre DEF GoesOn
<1>3. contents' = contents
  BY <1>2, ReadsSame
<1>4. sharers' = sharers
  BY <1>1, <1>2, ShareSame
<1>5. followers' = followers
  <2>1. \A n \in Frames, g \in Envs : Lies(g, n)' <=> Lies(g, n)
    BY LiesGoOn
  <2>2. GroupInv /\ GroupInv'
    BY DEF Seen
  <2>3. QED BY <1>4, <2>1, <2>2, FollowSame
<1>6. QED BY <1>1, <1>3, <1>4, <1>5 DEF Steady, Mapped

\* A page of the child that is not touched.
LEMMA ChildReads ==
  ASSUME CowInv, CowInv', Hush, NEW a \in Envs, NEW c \in Envs, child[a] = c, child'[a] = c, NEW v \in VPages,
         pt'[c][v] = pt[c][v], Pending(c, v)' <=> Pending(c, v)
  PROVE  Reads(c, v)' = Reads(c, v)
<1>1. /\ MemTypes /\ PteInv /\ MemTypes' /\ PteInv' /\ LifeInv /\ LifeInv'
  BY DEF CowInv, TypeInv
<1>2. ~Orphan(c) /\ ~Orphan(c)'
  BY <1>1, ChildSees, ChildNext
<1>3. pt[c][v].fr # NoOne => mem'[pt[c][v].fr] = mem[pt[c][v].fr]
  BY DEF Hush
<1>4. QED BY <1>1, <1>2, <1>3, SeenIs, SeenNext

\* a's step is at a page of the handler or of spawn, or at no page at all.
LEMMA Unseen ==
  ASSUME CowInv, CowInv', NEW a \in Envs, Seen(a), GoesOn(a), Hush, stores' = stores,
         \A g \in Envs, v \in VPages : pt'[g][v] = pt[g][v],
         child[a] \in Envs => \/ pc'[a] = pc[a] /\ page'[a] = page[a]
                              \/ pc[a] # "remap" /\ pc'[a] # "remap"
  PROVE  UNCHANGED Steady /\ (copies' = copies => UNCHANGED Mapped)
<1>1. /\ LifeInv /\ LifeInv' /\ CtlTypes
      /\ pc[a] # "built" /\ pc'[a] # "built"
  BY DEF CowInv, TypeInv, Seen, GoesOn
<1>2. \A v \in VPages : Reads(a, v)' = Reads(a, v)
  BY <1>1, RunnerReads DEF Hush
<1>3. ASSUME NEW c \in Envs, c = child[a], NEW v \in VPages
      PROVE  Reads(c, v)' = Reads(c, v) /\ (Pending(c, v)' <=> Pending(c, v)) /\ (Orphan(c)' <=> Orphan(c))
  <2>1. Pending(c, v)' <=> Pending(c, v)
    BY <1>1, <1>3, ChildSees, ChildNext DEF Va, GoesOn
  <2>2. Orphan(c)' <=> Orphan(c)
    BY <1>3, Still
  <2>3. QED BY <1>3, <2>1, <2>2, ChildReads DEF GoesOn
<1>4. ASSUME NEW c \in Envs, c = child[a] PROVE \A n : Lies(c, n)' <=> Lies(c, n)
  BY <1>3, <1>4, SpotsAre DEF Lies
<1>5. QED BY <1>2, <1>3, <1>4, Unread, SpotsAre

\* A page of the child is seen to change, and no other.
LEMMA OneSeen ==
  ASSUME CowInv, CowInv', NEW a \in Envs, Seen(a), GoesOn(a), Hush,
         NEW c \in Envs, child[a] = c, NEW v \in VPages, NEW x,
         \A w \in VPages : Reads(a, w)' = Reads(a, w),
         \A w \in VPages : Reads(c, w)' = IF w = v THEN x ELSE Reads(c, w)
  PROVE  contents' = [contents EXCEPT ![c][v] = x]
<1>1. c # a
  BY NothingIs DEF CowInv, LifeInv, ChildInv, Seen
<1>2. \A g \in Envs \ {a, c}, w \in VPages : Reads(g, w)' = Reads(g, w)
  BY OthersRead DEF GoesOn
<1>3. \A g \in Envs, w \in VPages : Reads(g, w)' = IF g = c /\ w = v THEN x ELSE Reads(g, w)
  BY <1>1, <1>2
<1>4. QED BY <1>3, ReadsOne

-----------------------------------------------------------------------------
(* Steps after which a, or the child it was making, has no memory.         *)

\* The actor gives up its child, or dies: the abstract step Leave.
LEMMA Leaves ==
  ASSUME CowInv, CowInv', NEW a \in Envs, Seen(a), Hush, stores' = stores,
         child'[a] = NoOne, \A g \in Envs \ {a} : pc'[g] = pc[g], NEW out \in SUBSET {a},
         pc'[a] \notin {"unborn", "built"},
         out = {} => \A v \in VPages : pt'[a][v] = pt[a][v],
         out = {a} => \A v \in VPages : pt'[a][v] = NoPte,
         \A g \in Envs : Held(g)' = IF g \in out THEN NoOne ELSE Held(g)
  PROVE  Spaces!Leave(a, out)
<1>1. /\ LifeInv /\ LifeInv' /\ ChildInv /\ ChildInv' /\ CtlTypes /\ CtlTypes' /\ PteInv' /\ MemTypes'
      /\ pc[a] # "built" /\ pc'[a] # "built"
  BY DEF CowInv, TypeInv, LifeInv, Seen
<1>2. \A g \in Envs : makers[g].env = a <=> child[a] = g
  <2> SUFFICES ASSUME NEW g \in Envs PROVE Maker(g).env = a <=> child[a] = g
    BY ValuesAre
  <2>1. CASE \E f \in Envs : child[f] = g
    <3>1. PICK f \in Envs : child[f] = g
      BY <2>1
    <3>2. Maker(g).env = f
      BY <1>1, <3>1, MakerIs DEF Made
    <3>3. child[a] = g => f = a
      BY <1>1, <3>1, NothingIs DEF ChildInv
    <3>4. QED BY <3>1, <3>2, <3>3
  <2>2. CASE ~ \E f \in Envs : child[f] = g
    BY <1>1, <2>2, MakerIs, NothingIs DEF Nobody
  <2>3. QED BY <2>1, <2>2
<1>3. \A g \in Envs : /\ child'[g] = (IF g = a THEN NoOne ELSE child[g])
                      /\ child[a] = g => g # a /\ \A f \in Envs : child'[f] # g
  BY <1>1, NothingIs DEF Seen, OnlyBy, ChildInv
\* the child it was making
<1>4. ASSUME NEW g \in Envs, child[a] = g
      PROVE  Maker(g)' = Nobody /\ Orphan(g)' /\ \A v \in VPages : Reads(g, v)' = NoOne
  <2>1. Orphan(g)'
    BY <1>1, <1>3, <1>4, NothingIs DEF Orphan, ChildInv
  <2>2. Maker(g)' = Nobody
    BY <1>1, <1>3, <1>4, MakerNext
  <2>3. QED BY <1>1, <2>1, <2>2, SeenNext
\* a itself
<1>5. Maker(a)' = Nobody /\ Maker(a) = Nobody /\ ~Orphan(a) /\ ~Orphan(a)'
  <2>1. \A f \in Envs : child[f] # a /\ child'[f] # a
    BY <1>1, NothingIs DEF ChildInv
  <2>2. QED BY <1>1, <2>1, MakerIs, MakerNext DEF Orphan
<1>6. ASSUME out = {} PROVE \A v \in VPages : Reads(a, v)' = Reads(a, v)
  BY <1>1, <1>6, RunnerReads DEF Hush
<1>7. ASSUME out = {a} PROVE \A v \in VPages : Reads(a, v)' = NoOne /\ pt'[a][v].perm = {}
  <2>1. \A v \in VPages : pt'[a][v].fr = NoOne /\ pt'[a][v].perm = {}
    BY <1>7 DEF NoPte
  <2>2. QED BY <1>1, <2>1, SeenNext
\* the others
<1>8. ASSUME NEW g \in Envs, g # a, child[a] # g
      PROVE  /\ Maker(g)' = Maker(g)
             /\ Orphan(g)' <=> Orphan(g)
             /\ \A v \in VPages : Reads(g, v)' = Reads(g, v) /\ pt'[g][v] = pt[g][v]
  BY <1>8, NothingIs, OthersAre, OthersRead
<1> DEFINE lost == {c \in Envs : makers[c].env = a} \cup out
<1>9. \A g \in Envs : g \in lost <=> child[a] = g \/ (g = a /\ out = {a})
  BY <1>2
<1>10. makers' = [g \in Envs |-> IF g \in lost THEN Nobody ELSE makers[g]]
  <2>1. \A g \in Envs : Maker(g)' = IF g \in lost THEN Nobody ELSE Maker(g)
    BY <1>4, <1>5, <1>8, <1>9
  <2>2. QED BY <2>1, ValuesAre DEF makers
<1>11. contents' = [g \in Envs |-> IF g \in lost THEN [v \in VPages |-> NoOne] ELSE contents[g]]
  <2>1. out = {} \/ out = {a}
    OBVIOUS
  <2>2. \A g \in Envs, v \in VPages : Reads(g, v)' = IF g \in lost THEN NoOne ELSE Reads(g, v)
    BY <1>3, <1>4, <1>6, <1>7, <1>8, <1>9, <2>1
  <2>3. \A g \in Envs : [v \in VPages |-> Reads(g, v)'] =
           IF g \in lost THEN [v \in VPages |-> NoOne] ELSE [v \in VPages |-> Reads(g, v)]
    BY <2>2
  <2>4. QED BY <2>3 DEF contents
<1>12. sharers' = sharers \ lost
  <2>1. out = {} \/ out = {a}
    OBVIOUS
  <2>2. Shared \in VPages
    BY SpotsAre
  <2>3. \A g \in Envs : ("SHARE" \in pt'[g][Shared].perm /\ ~Orphan(g)') <=>
           ("SHARE" \in pt[g][Shared].perm /\ ~Orphan(g) /\ g \notin lost)
    BY <1>3, <1>4, <1>5, <1>7, <1>8, <1>9, <2>1, <2>2
  <2>4. QED BY <2>3 DEF sharers
<1>13. followers' = Spaces!Following(sharers', followers \ lost)
  <2>1. out = {} \/ out = {a}
    OBVIOUS
  <2>2. \A n : (Lies(a, n) <=> pt[a][Shared].fr = n) /\ (Lies(a, n)' <=> pt'[a][Shared].fr = n)
    BY <1>1, LiesRunner
  <2>3. \A n \in Frames : Lies(a, n)' <=> Lies(a, n) /\ a \notin lost
    <3>1. CASE out = {}
      BY <1>3, <1>9, <2>2, <3>1, SpotsAre
    <3>2. CASE out = {a}
      <4>1. pt'[a][Shared].fr \notin Frames
        BY <3>2, SpotsAre, NothingIs
      <4>2. QED BY <1>9, <2>2, <3>2, <4>1
    <3>3. QED BY <2>1, <3>1, <3>2
  <2>4. ASSUME NEW g \in Envs, g # a PROVE \A n \in Frames : Lies(g, n)' <=> Lies(g, n) /\ g \notin lost
    <3>1. CASE child[a] = g
      <4>1. g \in lost /\ Orphan(g)'
        BY <1>4, <1>9, <3>1
      <4>2. QED BY <4>1 DEF Lies
    <3>2. CASE child[a] # g
      <4>1. g \notin lost
        BY <1>9, <2>4, <3>2
      <4>2. \A n : Lies(g, n)' <=> Lies(g, n)
        BY <2>4, <3>2, NothingIs, OthersLie
      <4>3. QED BY <4>1, <4>2
    <3>3. QED BY <3>1, <3>2
  <2>5. \A n \in Frames, g \in Envs : Lies(g, n)' <=> Lies(g, n) /\ g \notin lost
    BY <2>3, <2>4
  <2>6. GroupInv /\ GroupInv'
    BY DEF Seen
  <2>7. QED BY <1>12, <2>5, <2>6, FollowDrops
<1>14. copies' = [g \in Envs |-> IF g \in lost THEN NoOne ELSE copies[g]]
  <2>1. ASSUME NEW g \in Envs, child[a] = g PROVE Held(g) = NoOne
    <3>1. pc[g] = "built"
      BY <1>1, <2>1, NothingIs DEF ChildInv
    <3>2. flt[g].step # "map"
      BY <1>1, <3>1, NothingIs DEF LifeInv, IdleInv
    <3>3. QED BY <3>2, HeldNone
  <2>2. \A g \in Envs : Held(g)' = IF g \in lost THEN NoOne ELSE Held(g)
    BY <1>9, <2>1
  <2>3. QED BY <2>2, ValuesAre DEF copies
<1>15. QED BY <1>10, <1>11, <1>12, <1>13, <1>14 DEF Spaces!Leave, Spaces!NoParent, Spaces!NoPages, Nobody

\* fork or spawn fails and leaves an unfinished child behind, if it had one.
LEMMA GivesUp ==
  ASSUME CowInv, CowInv', NEW a \in Envs, Seen(a), Hush, stores' = stores, copies' = copies,
         child'[a] = NoOne, \A g \in Envs \ {a} : pc'[g] = pc[g],
         pc'[a] \notin {"unborn", "built", "dead"},
         \A g \in Envs, v \in VPages : pt'[g][v] = pt[g][v]
  PROVE  UNCHANGED Mapped \/ Spaces!GiveUp(a)
<1>1. ChildInv /\ CtlTypes /\ pc[a] \notin {"unborn", "built", "dead"}
  BY DEF CowInv, LifeInv, TypeInv, Seen
<1>2. CASE child[a] = NoOne
  BY <1>2, Unseen, NothingIs DEF GoesOn
<1>3. CASE child[a] # NoOne
  <2>1. Spaces!Leave(a, {})
    <3>1. \A g \in Envs : Held(g)' = Held(g)
      BY ValuesAre DEF copies
    <3>2. QED BY <3>1, Leaves
  <2>2. statuses' = statuses
    <3>1. Status(a)' = Status(a)
      BY <1>1 DEF Status
    <3>2. \A g \in Envs \ {a} : Status(g)' = Status(g)
      BY DEF Status
    <3>3. QED BY <3>1, <3>2, StatusSame
  <2>3. \E c \in Envs : makers[c].env = a
    <3>1. child[a] \in Envs
      BY <1>1, <1>3 DEF CtlTypes
    <3>2. QED BY <1>1, <3>1, MakerIs, ValuesAre DEF Made
  <2>4. QED BY <2>1, <2>2, <2>3 DEF Spaces!GiveUp
<1>4. QED BY <1>2, <1>3

\* The actor is destroyed, with all its memory.
LEMMA Dies ==
  ASSUME CowInv, CowInv', NEW a \in Envs, Seen(a), Hush, stores' = stores,
         child'[a] = NoOne, \A g \in Envs \ {a} : pc'[g] = pc[g], pc'[a] = "dead",
         \A v \in VPages : pt'[a][v] = NoPte,
         \A g \in Envs : Held(g)' = IF g = a THEN NoOne ELSE Held(g)
  PROVE  Spaces!Die(a)
<1>1. Spaces!Leave(a, {a})
  <2>1. \A g \in Envs : Held(g)' = IF g \in {a} THEN NoOne ELSE Held(g)
    OBVIOUS
  <2>2. QED BY <2>1, Leaves
<1>2. \A g \in Envs : Status(g)' = IF g = a THEN "dead" ELSE Status(g)
  BY DEF Status
<1>3. statuses' = [statuses EXCEPT ![a] = "dead"]
  BY <1>2 DEF statuses
<1>4. QED BY <1>1, <1>3 DEF Spaces!Die

\* spawn destroys its child.
LEMMA ChildDies ==
  ASSUME CowInv, CowInv', NEW a \in Envs, Seen(a), Hush, stores' = stores, copies' = copies,
         NEW c \in Envs, child[a] = c, child'[a] = NoOne, pc'[a] \notin {"unborn", "built", "dead"}, pc'[c] = "dead",
         \A g \in Envs \ {a, c} : pc'[g] = pc[g],
         \A g \in Envs, v \in VPages : pt'[g][v] = IF g = c THEN NoPte ELSE pt[g][v]
  PROVE  Spaces!Die(c)
<1>1. /\ LifeInv /\ LifeInv' /\ ChildInv /\ ChildInv' /\ PteInv' /\ MemTypes'
      /\ pc[a] \notin {"unborn", "built", "dead"} /\ c # a /\ pc[c] = "built" /\ child[c] = NoOne
  BY NothingIs DEF CowInv, TypeInv, LifeInv, ChildInv, Seen, Making, Forking, Spawning
<1>2. \A g \in Envs : makers[g].env # c
  <2> SUFFICES ASSUME NEW g \in Envs PROVE Maker(g).env # c
    BY ValuesAre
  <2>1. ASSUME NEW f \in Envs, child[f] = g PROVE Maker(g).env # c
    BY <1>1, <2>1, MakerIs, NothingIs DEF Made
  <2>2. ASSUME \A f \in Envs : child[f] # g PROVE Maker(g).env # c
    BY <1>1, <2>2, MakerIs, NothingIs DEF Nobody
  <2>3. QED BY <2>1, <2>2
<1>3. /\ Maker(c)' = Nobody
      /\ \A v \in VPages : Reads(c, v)' = NoOne /\ pt'[c][v].perm = {}
  <2>1. \A f \in Envs : child'[f] # c
    BY <1>1, NothingIs DEF ChildInv
  <2>2. \A v \in VPages : pt'[c][v].fr = NoOne /\ pt'[c][v].perm = {}
    BY DEF NoPte
  <2>3. QED BY <1>1, <2>1, <2>2, MakerNext, SeenNext
<1>4. /\ Maker(a)' = Maker(a) /\ Status(a)' = Status(a) /\ ~Orphan(a) /\ ~Orphan(a)'
      /\ \A v \in VPages : Reads(a, v)' = Reads(a, v)
  <2>1. \A f \in Envs : child[f] # a /\ child'[f] # a
    BY <1>1, NothingIs DEF ChildInv
  <2>2. Maker(a)' = Maker(a)
    BY <1>1, <2>1, MakerIs, MakerNext
  <2>3. \A v \in VPages : Reads(a, v)' = Reads(a, v)
    BY <1>1, RunnerReads DEF Hush
  <2>4. Status(a)' = Status(a)
    BY <1>1 DEF Status
  <2>5. QED BY <1>1, <2>2, <2>3, <2>4 DEF Orphan
<1>5. ASSUME NEW g \in Envs \ {a, c}
      PROVE  /\ Maker(g)' = Maker(g) /\ Status(g)' = Status(g)
             /\ Orphan(g)' <=> Orphan(g)
             /\ \A v \in VPages : Reads(g, v)' = Reads(g, v)
  BY NothingIs, OthersAre, OthersRead
<1>6. statuses' = [statuses EXCEPT ![c] = "dead"]
  <2>1. \A g \in Envs : Status(g)' = IF g = c THEN "dead" ELSE Status(g)
    <3>1. Status(c)' = "dead"
      BY DEF Status
    <3>2. QED BY <1>4, <1>5, <3>1
  <2>2. QED BY <2>1 DEF statuses
<1>7. makers' = [g \in Envs |-> IF g = c THEN Nobody ELSE makers[g]]
  <2>1. \A g \in Envs : Maker(g)' = IF g = c THEN Nobody ELSE Maker(g)
    BY <1>3, <1>4, <1>5
  <2>2. QED BY <2>1, ValuesAre DEF makers
<1>8. contents' = [g \in Envs |-> IF g = c THEN [v \in VPages |-> NoOne] ELSE contents[g]]
  <2>1. \A g \in Envs, v \in VPages : Reads(g, v)' = IF g = c THEN NoOne ELSE Reads(g, v)
    BY <1>3, <1>4, <1>5
  <2>2. \A g \in Envs : [v \in VPages |-> Reads(g, v)'] =
           IF g = c THEN [v \in VPages |-> NoOne] ELSE [v \in VPages |-> Reads(g, v)]
    BY <2>1
  <2>3. QED BY <2>2 DEF contents
<1>9. sharers' = sharers \ {c}
  <2>1. \A g \in Envs : ("SHARE" \in pt'[g][Shared].perm /\ ~Orphan(g)') <=>
           ("SHARE" \in pt[g][Shared].perm /\ ~Orphan(g) /\ g # c)
    BY <1>3, <1>4, <1>5, SpotsAre
  <2>2. QED BY <2>1 DEF sharers
<1>10. Spaces!Leave(c, {c})
  <2>1. {g \in Envs : makers[g].env = c} \cup {c} = {c}
    BY <1>2
  <2>2. copies' = [g \in Envs |-> IF g = c THEN NoOne ELSE copies[g]]
    <3>1. flt[c].step # "map"
      BY <1>1, NothingIs DEF LifeInv, IdleInv
    <3>2. copies[c] = NoOne
      BY <3>1, HeldNone, ValuesAre
    <3>3. QED BY <3>2 DEF copies
  <2>3. followers' = Spaces!Following(sharers', followers \ {c})
    <3>1. \A n \in Frames : ~Lies(c, n)'
      BY SpotsAre, NothingIs DEF Lies
    <3>2. \A n : Lies(a, n)' <=> Lies(a, n)
      BY <1>1, LiesRunner, SpotsAre
    <3>3. \A g \in Envs \ {a, c} : \A n : Lies(g, n)' <=> Lies(g, n)
      BY NothingIs, OthersLie
    <3>4. \A n \in Frames, g \in Envs : Lies(g, n)' <=> Lies(g, n) /\ g \notin {c}
      BY <1>1, <3>1, <3>2, <3>3
    <3>5. GroupInv /\ GroupInv'
      BY DEF Seen
    <3>6. QED BY <1>9, <3>4, <3>5, FollowDrops
  <2>4. QED BY <1>7, <1>8, <1>9, <2>1, <2>2, <2>3 DEF Spaces!Leave, Spaces!NoParent, Spaces!NoPages, Nobody
<1>11. QED BY <1>6, <1>10 DEF Spaces!Die

-----------------------------------------------------------------------------
(* The child is made, and runs.                                            *)

\* sys_exofork: a child without memory.
LEMMA Creates ==
  ASSUME CowInv, CowInv', NEW a \in Envs, Seen(a), Hush, stores' = stores, copies' = copies,
         NEW c \in Envs, pc[c] = "unborn", child[a] = NoOne, child'[a] = c, c # a,
         pc'[a] \notin {"unborn", "built", "dead", "remap"}, pc'[c] = "built",
         \A g \in Envs \ {a, c} : pc'[g] = pc[g],
         \A g \in Envs, v \in VPages : pt'[g][v] = pt[g][v]
  PROVE  Spaces!Create(a, c, IF pc'[a] \in Forking THEN "fork" ELSE "spawn")
<1>1. /\ LifeInv /\ LifeInv' /\ ChildInv /\ ChildInv' /\ PteInv /\ MemTypes /\ PteInv' /\ MemTypes'
      /\ pc[a] \notin {"unborn", "built", "dead"}
  BY DEF CowInv, TypeInv, LifeInv, Seen
<1>2. \A v \in VPages : pt[c][v].fr = NoOne /\ pt[c][v].perm = {}
  <2>1. pt[c] = NoPt
    BY <1>1 DEF LifeInv, IdleInv
  <2>2. QED BY <2>1, NothingIs, SpotsAre
<1>3. Maker(c)' = Made(a)'
  BY <1>1, MakerNext
<1>4. \A v \in VPages : Reads(c, v) = NoOne /\ Reads(c, v)' = NoOne
  BY <1>1, <1>2, SeenIs, SeenNext
<1>5. /\ Maker(a)' = Maker(a) /\ Status(a)' = Status(a) /\ ~Orphan(a) /\ ~Orphan(a)'
      /\ \A v \in VPages : Reads(a, v)' = Reads(a, v)
  <2>1. \A f \in Envs : child[f] # a /\ child'[f] # a
    BY <1>1, NothingIs DEF ChildInv
  <2>2. Maker(a)' = Maker(a)
    BY <1>1, <2>1, MakerIs, MakerNext
  <2>3. \A v \in VPages : Reads(a, v)' = Reads(a, v)
    BY <1>1, RunnerReads DEF Hush
  <2>4. Status(a)' = Status(a)
    BY <1>1 DEF Status
  <2>5. QED BY <1>1, <2>2, <2>3, <2>4 DEF Orphan
<1>6. ASSUME NEW g \in Envs \ {a, c}
      PROVE  /\ Maker(g)' = Maker(g) /\ Status(g)' = Status(g)
             /\ Orphan(g)' <=> Orphan(g)
             /\ \A v \in VPages : Reads(g, v)' = Reads(g, v)
  BY NothingIs, OthersAre, OthersRead
<1>7. statuses' = [statuses EXCEPT ![c] = "new"]
  <2>1. Status(c)' = "new"
    BY DEF Status
  <2>2. \A g \in Envs : Status(g)' = IF g = c THEN "new" ELSE Status(g)
    BY <1>5, <1>6, <2>1
  <2>3. QED BY <2>2 DEF statuses
<1>8. makers' = [makers EXCEPT ![c] = Made(a)']
  <2>1. \A g \in Envs : Maker(g)' = IF g = c THEN Made(a)' ELSE Maker(g)
    BY <1>3, <1>5, <1>6
  <2>2. QED BY <2>1 DEF makers
<1>9. contents' = contents
  BY <1>4, <1>5, <1>6, ReadsSame
<1>10. sharers' = sharers
  <2>1. \A g \in Envs : ("SHARE" \in pt'[g][Shared].perm /\ ~Orphan(g)') <=>
                        ("SHARE" \in pt[g][Shared].perm /\ ~Orphan(g))
    BY <1>2, <1>5, <1>6, SpotsAre
  <2>2. QED BY <2>1, ShareSame
<1>11. statuses[a] = "run" /\ statuses[c] = "free"
  <2>1. Status(a) = "run" /\ Status(c) = "free"
    BY <1>1 DEF Status
  <2>2. QED BY <2>1, ValuesAre
<1>12. followers' = followers
  <2>1. \A n \in Frames : ~Lies(c, n) /\ ~Lies(c, n)'
    BY <1>2, SpotsAre, NothingIs DEF Lies
  <2>2. \A n : Lies(a, n)' <=> Lies(a, n)
    BY <1>1, LiesRunner, SpotsAre
  <2>3. \A g \in Envs \ {a, c} : \A n : Lies(g, n)' <=> Lies(g, n)
    BY NothingIs, OthersLie
  <2>4. GroupInv /\ GroupInv'
    BY DEF Seen
  <2>5. QED BY <1>10, <2>1, <2>2, <2>3, <2>4, FollowSame
<1>13. QED BY <1>7, <1>8, <1>9, <1>10, <1>11, <1>12 DEF Spaces!Create, Made

\* The child is made runnable: its memory is all there, fork's is shared where its parent's is not.
LEMMA Runs ==
  ASSUME CowInv, CowInv', SpaceInv, NEW a \in Envs, Seen(a), Hush, stores' = stores, copies' = copies,
         NEW c \in Envs, child[a] = c, child'[a] = NoOne, pc[a] \in {"start", "sp_start"},
         pc'[a] = "run", pc'[c] = "run", \A g \in Envs \ {a, c} : pc'[g] = pc[g], pt' = pt
  PROVE  Spaces!Run(a, c)
<1>1. /\ LifeInv /\ LifeInv' /\ ChildInv /\ ChildInv' /\ PteInv /\ MemTypes /\ PteInv' /\ MemTypes'
      /\ pc[a] \notin {"unborn", "built", "dead"} /\ c # a /\ pc[c] = "built"
  BY NothingIs DEF CowInv, TypeInv, LifeInv, ChildInv, Seen
<1>2. ForkGives(a) /\ SpawnGives(a) /\ \A v \in VPages \ {Shared} : pt[a][v].fr # NoOne
  BY <1>1 DEF SpaceInv, GiveInv, WholeInv
<1>3. \A v \in VPages : ~Pending(c, v) /\ ~Orphan(c) /\ ~Pending(a, v) /\ ~Orphan(a)
  BY <1>1, ChildSees, RunnerSees
<1>4. \A v \in VPages : /\ Reads(c, v) = NoOne <=> pt[c][v].fr = NoOne
                        /\ Reads(a, v) = NoOne <=> pt[a][v].fr = NoOne
  BY <1>1, <1>3, SeenIs
<1>5. statuses[c] = "new" /\ makers[c] = Made(a)
  <2>1. Status(c) = "new" /\ Maker(c) = Made(a)
    BY <1>1, MakerIs DEF Status
  <2>2. QED BY <2>1, ValuesAre
<1>6. /\ \A v \in VPages \ {Shared} : contents[c][v] # NoOne
      /\ Made(a).how = "fork" => (contents[a][Shared] = NoOne <=> contents[c][Shared] = NoOne)
      /\ Made(a).how = "spawn" => (a \in sharers <=> c \in sharers)
  <2>1. Shared \in VPages
    BY SpotsAre
  <2>2. CASE pc[a] = "start"
    <3>1. \A v \in VPages : pt[c][v].fr = NoOne <=> pt[a][v].fr = NoOne
      BY <1>2, <2>2, OrderIs DEF ForkGives, Given, Forking
    <3>2. Made(a).how = "fork"
      BY <2>2 DEF Made, Forking
    <3>3. QED BY <1>2, <1>4, <2>1, <3>1, <3>2, ValuesAre
  <2>3. CASE pc[a] = "sp_start"
    <3>1. page[a] = 3
      BY <2>3 DEF CowInv, PageInv
    <3>2. /\ pt[c][Stack].fr # NoOne /\ pt[c][Text].fr # NoOne /\ pt[c][Bss].fr # NoOne
          /\ "SHARE" \in pt[c][Shared].perm <=> "SHARE" \in pt[a][Shared].perm
      BY <1>2, <2>3, <3>1 DEF SpawnGives, Spawning
    <3>3. Made(a).how = "spawn"
      BY <2>3 DEF Made, Forking
    <3>4. \A v \in VPages \ {Shared} : v \in {Text, Bss, Stack}
      BY PagesAre DEF Text, Bss, Shared, Stack
    <3>5. a \in sharers <=> c \in sharers
      BY <1>3, <2>1, <3>2 DEF sharers
    <3>6. QED BY <1>4, <3>2, <3>3, <3>4, <3>5, ValuesAre
  <2>4. QED BY <2>2, <2>3
\* afterwards
<1>7. /\ Maker(c)' = Nobody /\ Status(c)' = "run" /\ ~Orphan(c)'
      /\ \A v \in VPages : Reads(c, v)' = Reads(c, v)
  <2>1. \A f \in Envs : child'[f] # c
    BY <1>1, NothingIs DEF ChildInv
  <2>2. Status(c)' = "run"
    BY DEF Status
  <2>3. \A v \in VPages : ~Pending(c, v)' /\ ~Orphan(c)'
    BY <1>1, RunnerNext
  <2>4. \A v \in VPages : Reads(c, v)' = Reads(c, v)
    BY <1>1, <1>3, <2>3, SeenIs, SeenNext DEF Hush
  <2>5. QED BY <1>1, <2>1, <2>2, <2>4, MakerNext DEF Orphan
<1>8. /\ Maker(a)' = Maker(a) /\ Status(a)' = Status(a) /\ ~Orphan(a) /\ ~Orphan(a)'
      /\ \A v \in VPages : Reads(a, v)' = Reads(a, v)
  <2>1. \A f \in Envs : child[f] # a /\ child'[f] # a
    BY <1>1, NothingIs DEF ChildInv
  <2>2. Maker(a)' = Maker(a)
    BY <1>1, <2>1, MakerIs, MakerNext
  <2>3. \A v \in VPages : Reads(a, v)' = Reads(a, v)
    BY <1>1, RunnerReads DEF Hush
  <2>4. Status(a)' = Status(a)
    BY <1>1 DEF Status
  <2>5. QED BY <1>1, <2>2, <2>3, <2>4 DEF Orphan
<1>9. ASSUME NEW g \in Envs \ {a, c}
      PROVE  /\ Maker(g)' = Maker(g) /\ Status(g)' = Status(g)
             /\ Orphan(g)' <=> Orphan(g)
             /\ \A v \in VPages : Reads(g, v)' = Reads(g, v)
  BY NothingIs, OthersAre, OthersRead
<1>10. statuses' = [statuses EXCEPT ![c] = "run"]
  <2>1. \A g \in Envs : Status(g)' = IF g = c THEN "run" ELSE Status(g)
    BY <1>7, <1>8, <1>9
  <2>2. QED BY <2>1 DEF statuses
<1>11. makers' = [makers EXCEPT ![c] = Nobody]
  <2>1. \A g \in Envs : Maker(g)' = IF g = c THEN Nobody ELSE Maker(g)
    BY <1>7, <1>8, <1>9
  <2>2. QED BY <2>1 DEF makers
<1>12. contents' = contents
  BY <1>7, <1>8, <1>9, ReadsSame
<1>13. sharers' = sharers
  <2>1. \A g \in Envs : ("SHARE" \in pt'[g][Shared].perm /\ ~Orphan(g)') <=>
                        ("SHARE" \in pt[g][Shared].perm /\ ~Orphan(g))
    BY <1>3, <1>7, <1>8, <1>9, SpotsAre
  <2>2. QED BY <2>1, ShareSame
<1>14. followers' = followers
  <2>1. \A n : Lies(c, n)' <=> Lies(c, n)
    <3>1. ~Pending(c, Shared)' /\ ~Orphan(c)' /\ ~Pending(c, Shared) /\ ~Orphan(c)
      BY <1>1, <1>3, RunnerNext, SpotsAre
    <3>2. QED BY <3>1 DEF Lies
  <2>2. \A n : Lies(a, n)' <=> Lies(a, n)
    BY <1>1, LiesRunner, SpotsAre
  <2>3. \A g \in Envs \ {a, c} : \A n : Lies(g, n)' <=> Lies(g, n)
    BY NothingIs, OthersLie
  <2>4. GroupInv /\ GroupInv'
    BY DEF Seen
  <2>5. QED BY <1>13, <2>1, <2>2, <2>3, <2>4, FollowSame
<1>15. QED BY <1>5, <1>6, <1>10, <1>11, <1>12, <1>13, <1>14 DEF Spaces!Run, Spaces!NoParent, Nobody,
    Made

-----------------------------------------------------------------------------
(* The child gets its pages.                                               *)

\* spawn gives its child a page of the program.
LEMMA Loads ==
  ASSUME CowInv, CowInv', NEW a \in Envs, Seen(a), GoesOn(a), Hush, stores' = stores, copies' = copies,
         NEW c \in Envs, child[a] = c, pc[a] \notin Forking, pc'[a] \notin Forking, NEW v \in VPages \ {Shared},
         pt[c][v].fr = NoOne, pt'[c][v].fr # NoOne, "SHARE" \notin pt'[c][v].perm, mem'[pt'[c][v].fr] = Image[v],
         \A g \in Envs, w \in VPages : ~(g = c /\ w = v) => pt'[g][w] = pt[g][w]
  PROVE  Spaces!Load(c, v)
<1>1. /\ LifeInv /\ LifeInv' /\ ChildInv /\ PteInv /\ MemTypes /\ PteInv' /\ MemTypes'
      /\ pc[a] \notin {"unborn", "built", "dead"} /\ c # a /\ pc[c] = "built" /\ child'[a] = c
      /\ pc[a] # "remap" /\ pc'[a] # "remap" /\ pc'[a] # "built"
  BY NothingIs DEF CowInv, TypeInv, LifeInv, ChildInv, Seen, GoesOn, Forking
<1>2. \A w \in VPages : ~Pending(c, w) /\ ~Pending(c, w)' /\ ~Orphan(c) /\ ~Orphan(c)'
  BY <1>1, ChildSees, ChildNext
<1>3. \A w \in VPages : Reads(c, w)' = IF w = v THEN Image[v] ELSE Reads(c, w)
  <2>1. \A w \in VPages \ {v} : Reads(c, w)' = Reads(c, w)
    BY <1>1, <1>2, ChildReads
  <2>2. Reads(c, v)' = Image[v]
    BY <1>1, <1>2, SeenNext
  <2>3. QED BY <2>1, <2>2
<1>4. \A w \in VPages : Reads(a, w)' = Reads(a, w)
  BY <1>1, RunnerReads DEF Hush
<1>5. contents' = [contents EXCEPT ![c][v] = Image[v]]
  BY <1>3, <1>4, OneSeen
<1>6. /\ statuses' = statuses /\ makers' = makers
      /\ \A g \in Envs : Orphan(g)' <=> Orphan(g)
  BY Still
<1>7. sharers' = sharers
  <2>1. "SHARE" \notin pt[c][v].perm
    BY <1>1, SpotsAre DEF PteInv
  <2>2. \A g \in Envs : "SHARE" \in pt'[g][Shared].perm <=> "SHARE" \in pt[g][Shared].perm
    BY <2>1, SpotsAre
  <2>3. QED BY <1>6, <2>2, ShareSame
<1>8. statuses[c] = "new" /\ makers[c].how = "spawn" /\ contents[c][v] = NoOne
  <2>1. Status(c) = "new" /\ Maker(c) = Made(a) /\ Reads(c, v) = NoOne
    BY <1>1, MakerIs, SeenIs DEF Status
  <2>2. QED BY <2>1, ValuesAre DEF Made
<1>9. followers' = followers
  <2>1. \A n : Lies(c, n)' <=> Lies(c, n)
    BY <1>2, SpotsAre DEF Lies
  <2>2. \A g \in Envs : child[a] # g => \A n : Lies(g, n)' <=> Lies(g, n)
    BY <1>1, LiesGoOn, SpotsAre
  <2>3. GroupInv /\ GroupInv'
    BY DEF Seen
  <2>4. QED BY <1>7, <2>1, <2>2, <2>3, FollowSame
<1>10. QED BY <1>5, <1>6, <1>7, <1>8, <1>9 DEF Spaces!Load

\* A page of the parent is seen in the child for the first time: the copy.
LEMMA Copies ==
  ASSUME CowInv, CowInv', NEW a \in Envs, Seen(a), GoesOn(a), Hush, stores' = stores, copies' = copies,
         NEW c \in Envs, child[a] = c, pc[a] \in Forking, NEW v \in VPages,
         Reads(c, v) = NoOne, \A w \in VPages : Reads(a, w)' = Reads(a, w),
         \A w \in VPages : Reads(c, w)' = IF w = v THEN Reads(a, v) ELSE Reads(c, w),
         "SHARE" \notin pt'[a][v].perm, v # Shared => pt'[a][Shared] = pt[a][Shared],
         pt'[a][Shared].fr = pt[a][Shared].fr,
         \A n \in Frames : v = Shared => ~Lies(c, n) /\ (Lies(c, n)' <=> pt[a][Shared].fr = n),
         \A n \in Frames : v # Shared => (Lies(c, n)' <=> Lies(c, n))
  PROVE  Spaces!Copy(a, c, v)
<1>1. /\ ChildInv /\ ForkInv /\ ForkInv' /\ MemTypes /\ MemTypes'
      /\ pc[a] \notin {"unborn", "built", "dead"} /\ c # a /\ pc[c] = "built" /\ child'[a] = c
      /\ pc'[a] \in Forking /\ pc[a] # "built" /\ pc'[a] # "built"
  BY NothingIs DEF CowInv, TypeInv, LifeInv, ChildInv, Seen, GoesOn
<1>2. contents' = [contents EXCEPT ![c][v] = contents[a][v]]
  <2>1. contents' = [contents EXCEPT ![c][v] = Reads(a, v)]
    BY OneSeen
  <2>2. contents[a][v] = Reads(a, v)
    BY ValuesAre
  <2>3. QED BY <2>1, <2>2
<1>3. /\ statuses' = statuses /\ makers' = makers
      /\ \A g \in Envs : Orphan(g)' <=> Orphan(g)
  BY Still
<1>4. "SHARE" \notin pt[c][Shared].perm /\ "SHARE" \notin pt'[c][Shared].perm
  <2>1. pt[c][Shared].perm \in Perms /\ pt'[c][Shared].perm \in Perms
    BY <1>1, SpotsAre DEF MemTypes, Ptes
  <2>2. "W" \notin pt[c][Shared].perm /\ "W" \notin pt'[c][Shared].perm
    BY <1>1, SpotsAre, NothingIs DEF ForkInv
  <2>3. QED BY <2>1, <2>2 DEF Perms
<1>5. sharers' = IF v = Shared THEN sharers \ {a} ELSE sharers
  <2>1. \A g \in Envs \ {a, c} : pt'[g][Shared] = pt[g][Shared]
    BY <1>1, OthersAre, SpotsAre DEF GoesOn
  <2>2. CASE v = Shared
    <3>1. \A g \in Envs : ("SHARE" \in pt'[g][Shared].perm /\ ~Orphan(g)') <=>
                          ("SHARE" \in pt[g][Shared].perm /\ ~Orphan(g) /\ g # a)
      BY <1>3, <1>4, <2>1, <2>2
    <3>2. QED BY <2>2, <3>1 DEF sharers
  <2>3. CASE v # Shared
    <3>1. \A g \in Envs : ("SHARE" \in pt'[g][Shared].perm /\ ~Orphan(g)') <=>
                          ("SHARE" \in pt[g][Shared].perm /\ ~Orphan(g))
      BY <1>3, <1>4, <2>1, <2>3
    <3>2. QED BY <2>3, <3>1, ShareSame
  <2>4. QED BY <2>2, <2>3
<1>6. statuses[c] = "new" /\ makers[c] = [env |-> a, how |-> "fork"] /\ contents[c][v] = NoOne
  <2>1. Status(c) = "new" /\ Maker(c) = Made(a)
    BY <1>1, MakerIs DEF Status
  <2>2. QED BY <2>1, ValuesAre DEF Made
<1>7. followers' = IF v = Shared /\ a \in sharers \cup followers
                   THEN Spaces!Following(sharers', followers \cup {a, c})
                   ELSE followers
  <2>1. \A g \in Envs : child[a] # g => \A n : Lies(g, n)' <=> Lies(g, n)
    BY LiesGoOn
  <2>2. GroupInv /\ GroupInv' /\ CowInv
    BY DEF Seen
  <2>3. CASE v = Shared
    <3>1. \A n : Lies(a, n) <=> pt[a][Shared].fr = n
      BY <1>1, LiesRunner DEF CowInv
    <3>2. c \notin sharers
      BY <1>4 DEF sharers
    <3>3. sharers' = sharers \ {a}
      BY <1>5, <2>3
    <3>4. /\ \A n \in Frames, g \in Envs \ {c} : Lies(g, n)' <=> Lies(g, n)
          /\ \A n \in Frames : ~Lies(c, n) /\ (Lies(c, n)' <=> Lies(a, n))
      BY <2>1, <2>3, <3>1
    <3>5. QED BY <1>1, <2>2, <2>3, <3>2, <3>3, <3>4, FollowCopies
  <2>4. CASE v # Shared
    BY <1>5, <2>1, <2>2, <2>4, FollowSame
  <2>5. QED BY <2>3, <2>4
<1>8. QED BY <1>2, <1>3, <1>5, <1>6, <1>7 DEF Spaces!Copy

\* The first of duppage's calls.
LEMMA ChildCopied ==
  ASSUME CowInv, CowInv', SpaceInv, NEW a \in Envs, Seen(a), GoesOn(a), Hush, stores' = stores, copies' = copies,
         NEW c \in Envs, child[a] = c, pc[a] = "dup", NEW v \in VPages, v = Va(a), page[a] <= 4,
         NEW perm, perm \in {{}, {"COW"}}, MapEntry(a, v, c, v, perm),
         pc'[a] = "remap" => page'[a] = page[a], "W" \in pt[a][v].perm => pc'[a] = "remap",
         "SHARE" \in pt[a][v].perm => "W" \in pt[a][v].perm
  PROVE  UNCHANGED Mapped \/ Spaces!Copy(a, c, v)
<1>1. /\ LifeInv /\ LifeInv' /\ ChildInv /\ PageInv /\ PteInv /\ MemTypes /\ PteInv' /\ MemTypes'
      /\ pc[a] \notin {"unborn", "built", "dead"} /\ c # a /\ pc[c] = "built" /\ child'[a] = c
      /\ pc'[a] # "built" /\ pc[a] \in Forking
  BY NothingIs DEF CowInv, TypeInv, LifeInv, ChildInv, Seen, GoesOn, Forking
<1>2. /\ \A g \in Envs, w \in VPages : ~(g = c /\ w = v) => pt'[g][w] = pt[g][w]
      /\ pt'[c][v].fr = pt[a][v].fr /\ pt[a][v].fr # NoOne /\ pt'[c][v].perm = perm
  BY SpotsAre DEF MapEntry, Entry, Pte
<1>3. pt[c][v].fr = NoOne
  <2>1. page[a] \in 1 .. 4
    BY <1>1 DEF CowInv, TypeInv, CtlTypes, PageInv, Making, Forking
  <2>2. QED BY <2>1 DEF SpaceInv, GiveInv, ForkGives, Given, Forking, Va
<1>4. \A w \in VPages : Reads(a, w)' = Reads(a, w)
  BY <1>1, <1>2, RunnerReads DEF Hush
<1>5. /\ \A w \in VPages : ~Orphan(c) /\ ~Orphan(c)' /\ ~Pending(c, w)
      /\ \A w \in VPages : Pending(c, w)' => w = v
      /\ Pending(c, v)' <=> "W" \in pt[a][v].perm
  <2>1. pc'[a] = "remap" => Va(a)' = v
    BY DEF Va
  <2>2. pt'[a][v] = pt[a][v]
    BY <1>1, <1>2
  <2>3. QED BY <1>1, <1>2, <2>1, <2>2, ChildSees, ChildNext
<1>6. Reads(c, v) = NoOne
  BY <1>1, <1>3, SeenIs
<1>7. \A w \in VPages \ {v} : Reads(c, w)' = Reads(c, w)
  BY <1>1, <1>2, <1>5, ChildReads
<1>8. CASE "W" \in pt[a][v].perm
  <2>1. Reads(c, v)' = NoOne
    BY <1>1, <1>5, <1>8, SeenNext
  <2>2. \A w \in VPages : Reads(c, w)' = Reads(c, w)
    BY <1>6, <1>7, <2>1
  <2>3. "SHARE" \in pt'[c][Shared].perm <=> "SHARE" \in pt[c][Shared].perm
    <3>1. pt[c][v].perm = {}
      BY <1>1, <1>3, SpotsAre DEF PteInv
    <3>2. "SHARE" \notin perm
      OBVIOUS
    <3>3. QED BY <1>2, <3>1, <3>2, SpotsAre
  <2>4. pt'[a][Shared] = pt[a][Shared]
    BY <1>1, <1>2, SpotsAre
  <2>5. \A n \in Frames : Lies(c, n)' <=> Lies(c, n)
    <3>1. CASE v = Shared
      BY <1>3, <1>5, <1>8, <3>1, NothingIs DEF Lies
    <3>2. CASE v # Shared
      BY <1>1, <1>2, <1>5, <3>2, SpotsAre DEF Lies
    <3>3. QED BY <3>1, <3>2
  <2>6. QED BY <1>4, <2>2, <2>3, <2>4, <2>5, Unread
<1>9. CASE "W" \notin pt[a][v].perm
  <2>1. Reads(c, v)' = Reads(a, v)
    <3>1. Reads(a, v) = mem[pt[a][v].fr]
      BY <1>1, <1>2, SeenIs, RunnerSees
    <3>2. Reads(c, v)' = mem'[pt[a][v].fr]
      BY <1>1, <1>2, <1>5, <1>9, SeenNext
    <3>3. QED BY <1>2, <3>1, <3>2 DEF Hush
  <2>2. "SHARE" \notin pt'[a][v].perm /\ pt'[a][Shared] = pt[a][Shared]
    BY <1>1, <1>2, <1>9, SpotsAre
  <2>3. \A n \in Frames : v = Shared => ~Lies(c, n) /\ (Lies(c, n)' <=> pt[a][Shared].fr = n)
    BY <1>2, <1>3, <1>5, <1>9, NothingIs DEF Lies
  <2>4. \A n \in Frames : v # Shared => (Lies(c, n)' <=> Lies(c, n))
    BY <1>1, <1>2, <1>5, SpotsAre DEF Lies
  <2>5. QED BY <1>1, <1>4, <1>6, <1>7, <2>1, <2>2, <2>3, <2>4, Copies
<1>10. QED BY <1>8, <1>9

\* The second one.
LEMMA ParentRemapped ==
  ASSUME CowInv, CowInv', SpaceInv, NEW a \in Envs, Seen(a), GoesOn(a), Hush, stores' = stores, copies' = copies,
         NEW c \in Envs, child[a] = c, pc[a] = "remap", pc'[a] = "dup", NEW v \in VPages, v = Va(a),
         MapEntry(a, v, a, v, {"COW"})
  PROVE  UNCHANGED Mapped \/ Spaces!Copy(a, c, v)
<1>1. /\ LifeInv /\ LifeInv' /\ ChildInv /\ PteInv /\ MemTypes /\ PteInv' /\ MemTypes'
      /\ pc[a] \notin {"unborn", "built", "dead"} /\ c # a /\ pc[c] = "built" /\ child'[a] = c
      /\ pc'[a] # "built" /\ pc[a] \in Forking
  BY NothingIs DEF CowInv, TypeInv, LifeInv, ChildInv, Seen, GoesOn, Forking
<1>2. /\ \A g \in Envs, w \in VPages : ~(g = a /\ w = v) => pt'[g][w] = pt[g][w]
      /\ pt'[a][v].fr = pt[a][v].fr /\ pt[a][v].fr # NoOne /\ pt'[a][v].perm = {"COW"}
  BY SpotsAre DEF MapEntry, Entry, Pte
<1>3. \A w \in VPages : pt'[a][w].fr = pt[a][w].fr
  BY <1>2
<1>4. \A w \in VPages : Reads(a, w)' = Reads(a, w)
  BY <1>1, <1>3, RunnerReads DEF Hush
<1>5. /\ \A w \in VPages : ~Orphan(c) /\ ~Orphan(c)' /\ ~Pending(c, w)'
      /\ \A w \in VPages : Pending(c, w) <=> w = v /\ pt[a][v].fr = pt[c][v].fr /\ "W" \in pt[a][v].perm
  BY <1>1, ChildSees, ChildNext
<1>6. \A w \in VPages \ {v} : Reads(c, w)' = Reads(c, w)
  BY <1>1, <1>2, <1>5, ChildReads
<1>7. pt'[c][v] = pt[c][v]
  BY <1>1, <1>2
<1>8. CASE Pending(c, v)
  <2>1. Reads(c, v) = NoOne
    BY <1>1, <1>8, SeenIs
  <2>2. Reads(c, v)' = Reads(a, v)
    <3>1. Reads(a, v) = mem[pt[a][v].fr]
      BY <1>1, <1>2, SeenIs, RunnerSees
    <3>2. pt'[c][v].fr = pt[a][v].fr
      BY <1>5, <1>7, <1>8
    <3>3. Reads(c, v)' = mem'[pt[a][v].fr]
      BY <1>1, <1>2, <1>5, <3>2, SeenNext
    <3>4. QED BY <1>2, <3>1, <3>3 DEF Hush
  <2>3. "SHARE" \notin pt'[a][v].perm /\ (v # Shared => pt'[a][Shared] = pt[a][Shared])
    BY <1>2, SpotsAre
  <2>4. \A n \in Frames : v = Shared => ~Lies(c, n) /\ (Lies(c, n)' <=> pt[a][Shared].fr = n)
    BY <1>5, <1>7, <1>8 DEF Lies
  <2>5. \A n \in Frames : v # Shared => (Lies(c, n)' <=> Lies(c, n))
    BY <1>1, <1>2, <1>5, SpotsAre DEF Lies
  <2>6. QED BY <1>1, <1>3, <1>4, <1>6, <2>1, <2>2, <2>3, <2>4, <2>5, Copies, SpotsAre
<1>9. CASE ~Pending(c, v)
  <2>1. \A w \in VPages : Reads(c, w)' = Reads(c, w)
    <3>1. Reads(c, v)' = Reads(c, v)
      BY <1>1, <1>5, <1>7, <1>9, ChildReads
    <3>2. QED BY <1>6, <3>1
  <2>2. "SHARE" \notin pt[a][v].perm
    <3>1. SUFFICES ASSUME "SHARE" \in pt[a][v].perm PROVE FALSE
      OBVIOUS
    <3>2. pt[a][v].perm \in Perms
      BY <1>1, SpotsAre DEF MemTypes, Ptes
    <3>3. "W" \in pt[a][v].perm
      BY <3>1, <3>2 DEF Perms
    <3>4. pt[c][v].fr = pt[a][v].fr
      BY <3>1 DEF SpaceInv, GiveInv, ForkGives, Forking
    <3>5. QED BY <1>5, <1>9, <3>3, <3>4
  <2>3. "SHARE" \in pt'[a][Shared].perm <=> "SHARE" \in pt[a][Shared].perm
    BY <1>2, <2>2, SpotsAre
  <2>4. pt'[c][Shared] = pt[c][Shared]
    BY <1>1, <1>2, SpotsAre
  <2>5. \A n \in Frames : Lies(c, n)' <=> Lies(c, n)
    BY <1>5, <1>9, <2>4, SpotsAre DEF Lies
  <2>6. QED BY <1>3, <1>4, <2>1, <2>3, <2>4, <2>5, Unread, SpotsAre
<1>10. QED BY <1>8, <1>9

\* copy_shared_pages.
LEMMA Shares ==
  ASSUME CowInv, CowInv', SpaceInv, NEW a \in Envs, Seen(a), GoesOn(a), Hush, stores' = stores, copies' = copies,
         NEW c \in Envs, child[a] = c, pc[a] = "sp_share", pc'[a] = "sp_start", "SHARE" \in pt[a][Shared].perm,
         MapEntry(a, Shared, c, Shared, {"W", "SHARE"})
  PROVE  Spaces!Share(a, c)
<1>1. /\ LifeInv /\ LifeInv' /\ ChildInv /\ PteInv /\ MemTypes /\ PteInv' /\ MemTypes'
      /\ pc[a] \notin {"unborn", "built", "dead"} /\ c # a /\ pc[c] = "built" /\ child'[a] = c
      /\ pc'[a] # "built" /\ pc[a] \notin Forking /\ Shared \in VPages
  BY NothingIs, SpotsAre DEF CowInv, TypeInv, LifeInv, ChildInv, Seen, GoesOn, Forking
<1>2. /\ \A g \in Envs, w \in VPages : ~(g = c /\ w = Shared) => pt'[g][w] = pt[g][w]
      /\ pt'[c][Shared].fr = pt[a][Shared].fr /\ pt[a][Shared].fr # NoOne /\ pt'[c][Shared].perm = {"W", "SHARE"}
  BY SpotsAre DEF MapEntry, Entry, Pte
<1>3. \A w \in VPages : ~Orphan(c) /\ ~Orphan(c)' /\ ~Pending(c, w) /\ ~Pending(c, w)' /\ ~Orphan(a) /\ ~Orphan(a)'
  BY <1>1, ChildSees, ChildNext, RunnerSees, RunnerNext
<1>4. \A w \in VPages : Reads(a, w)' = Reads(a, w)
  BY <1>1, <1>2, RunnerReads DEF Hush
<1>5. \A w \in VPages : Reads(c, w)' = IF w = Shared THEN Reads(a, Shared) ELSE Reads(c, w)
  <2>1. \A w \in VPages \ {Shared} : Reads(c, w)' = Reads(c, w)
    BY <1>1, <1>2, <1>3, ChildReads
  <2>2. Reads(a, Shared) = mem[pt[a][Shared].fr]
    BY <1>1, <1>2, SeenIs, RunnerSees
  <2>3. Reads(c, Shared)' = mem'[pt[a][Shared].fr]
    BY <1>1, <1>2, <1>3, SeenNext
  <2>4. mem'[pt[a][Shared].fr] = mem[pt[a][Shared].fr]
    BY <1>1, <1>2 DEF Hush
  <2>5. Reads(c, Shared)' = Reads(a, Shared)
    BY <2>2, <2>3, <2>4
  <2>6. ASSUME NEW w \in VPages PROVE Reads(c, w)' = IF w = Shared THEN Reads(a, Shared) ELSE Reads(c, w)
    <3>1. CASE w = Shared
      BY <2>5, <3>1
    <3>2. CASE w # Shared
      BY <2>1, <3>2
    <3>3. QED BY <3>1, <3>2
  <2>7. QED BY <2>6
<1>6. contents' = [contents EXCEPT ![c][Shared] = contents[a][Shared]]
  <2>1. contents' = [contents EXCEPT ![c][Shared] = Reads(a, Shared)]
    BY <1>1, <1>4, <1>5, OneSeen
  <2>2. contents[a][Shared] = Reads(a, Shared)
    BY <1>1, ValuesAre
  <2>3. QED BY <2>1, <2>2
<1>7. /\ statuses' = statuses /\ makers' = makers
      /\ \A g \in Envs : Orphan(g)' <=> Orphan(g)
  BY Still
<1>8. sharers' = sharers \cup {c} /\ a \in sharers
  <2>1. \A g \in Envs : ("SHARE" \in pt'[g][Shared].perm /\ ~Orphan(g)') <=>
                        ("SHARE" \in pt[g][Shared].perm /\ ~Orphan(g)) \/ g = c
    BY <1>1, <1>2, <1>3, <1>7
  <2>2. QED BY <1>1, <1>3, <2>1 DEF sharers
<1>9. statuses[c] = "new" /\ makers[c] = [env |-> a, how |-> "spawn"]
  <2>1. Status(c) = "new" /\ Maker(c) = Made(a)
    BY <1>1, MakerIs DEF Status
  <2>2. QED BY <1>1, <2>1, ValuesAre DEF Made
<1>10. followers' = followers
  <2>1. pt[c][Shared].fr = NoOne
    BY <1>1 DEF SpaceInv, GiveInv, SpawnGives, Spawning
  <2>2. \A n \in Frames : ~Lies(c, n)
    BY <2>1, NothingIs DEF Lies
  <2>3. \A g \in Envs : child[a] # g => \A n : Lies(g, n)' <=> Lies(g, n)
    BY <1>1, <1>2, LiesGoOn
  <2>4. GroupInv /\ GroupInv' /\ a \in sharers' /\ c \in sharers'
    BY <1>8 DEF Seen
  <2>5. PICK n \in Frames : n = pt[a][Shared].fr
    BY <1>8, SharerLies
  <2>6. n = pt'[a][Shared].fr
    BY <1>1, <1>2, <2>5
  <2>7. \A g \in Envs : g \in followers <=> g \notin sharers /\ Lies(g, n)
    BY <1>8, <2>4, <2>5, FollowAt
  <2>8. \A g \in Envs : g \in followers' <=> g \notin sharers' /\ Lies(g, n)'
    BY <2>4, <2>6, FollowNext
  <2>9. \A g \in Envs : g \in followers' <=> g \in followers
    BY <1>8, <2>2, <2>3, <2>4, <2>7, <2>8
  <2>10. QED BY <2>9, FollowNone
<1>11. QED BY <1>6, <1>7, <1>8, <1>9, <1>10 DEF Spaces!Share

-----------------------------------------------------------------------------
(* Stores, and the handler's new page.                                     *)

\* A store changes the page of the writer, of those who share it and of those
\* who follow them, and no other.
LEMMA Writes ==
  ASSUME CowInv, SpaceInv, NEW a \in Envs, NEW va \in VPages, NEW x \in Values, Store(a, va, x)
  PROVE  Spaces!Write(a, va, x)
<1>1. /\ CtlTypes /\ MemTypes /\ PteInv /\ LifeInv /\ PlaceInv /\ WriteInv /\ ForkInv /\ GroupInv
      /\ Shared \in VPages /\ VPages \subseteq Vas
  BY SpotsAre DEF CowInv, TypeInv, SpaceInv
<1>2. /\ UNCHANGED <<pc, child, page, pt>> /\ stores' = stores + 1 /\ "W" \in pt[a][va].perm
      /\ mem[pt[a][va].fr] # x /\ mem' = [mem EXCEPT ![pt[a][va].fr] = x]
  BY DEF Store
<1>3. pc[a] \notin {"unborn", "built", "dead"}
  BY Alive DEF StepOf, Program
<1>4. pt[a][va].fr # NoOne /\ pt[a][va].fr \in Frames
  BY <1>1, <1>2 DEF PteInv, MemTypes, Ptes
<1>5. /\ statuses' = statuses /\ makers' = makers /\ sharers' = sharers
      /\ \A f \in Envs, w \in VPages : Pending(f, w)' <=> Pending(f, w)
      /\ \A f \in Envs : Orphan(f)' <=> Orphan(f)
  <2>1. \A f \in Envs, w \in VPages : Pending(f, w)' <=> Pending(f, w)
    BY <1>2 DEF Pending, Va
  <2>2. \A f \in Envs : Orphan(f)' <=> Orphan(f)
    BY <1>2 DEF Orphan
  <2>3. \A f \in Envs : Maker(f)' = Maker(f) /\ Status(f)' = Status(f)
    BY <1>2 DEF Maker, Status
  <2>4. QED BY <1>2, <2>1, <2>2, <2>3, MakersSame, StatusSame, ShareSame
<1>6. followers' = followers
  BY <1>1, <1>2, <1>5 DEF followers, Follows
<1>7. copies' = copies /\ copies[a] = NoOne
  <2>1. flt[a].step # "map" /\ flt' = flt /\ StepOf(a)
    BY NothingIs DEF Store, MayStore, StepOf, Program
  <2>2. Held(a) = NoOne
    BY <2>1, HeldNone
  <2>3. QED BY <2>1, <2>2, HoldStill, ValuesAre
<1> DEFINE Hit(f, w) == pt[f][w].fr = pt[a][va].fr /\ ~Pending(f, w) /\ ~Orphan(f)
<1> DEFINE Group == IF va = Shared /\ a \in sharers THEN sharers \cup followers ELSE {a}
<1>8. ASSUME NEW f \in Envs, NEW w \in VPages, Hit(f, w) PROVE w = va /\ f \in Group
  <2>1. w = va
    BY <1>1, <1>4, <1>8 DEF PlaceInv
  <2>2. CASE f # a /\ Lends(pt[a][va], pt[f][va])
    <3>1. va = Shared /\ "SHARE" \in pt[a][Shared].perm
      BY <1>1, <2>2 DEF PteInv, Lends
    <3>2. a \in sharers
      BY <1>3, <3>1 DEF sharers, Orphan
    <3>3. f \in sharers \cup followers
      BY <1>8, <2>1, <3>1, <3>2 DEF sharers, followers, Follows
    <3>4. QED BY <2>1, <3>1, <3>2, <3>3
  <2>3. CASE f # a /\ Hidden(a, f, va)
    <3>1. PICK g \in Envs : child[g] = f
      BY <1>8, <2>3 DEF Hidden, Orphan
    <3>2. g = a /\ pc[a] = "remap" /\ Va(a) = va
      BY <2>3, <3>1 DEF Hidden
    <3>3. Pending(f, va)
      BY <1>2, <1>8, <2>1, <3>1, <3>2 DEF Pending
    <3>4. QED BY <1>8, <2>1, <3>3
  <2>4. CASE f = a
    <3>1. a \in Group
      OBVIOUS
    <3>2. QED BY <2>1, <2>4, <3>1
  <2>5. QED BY <1>1, <1>2, <1>8, <2>1, <2>2, <2>3, <2>4 DEF WriteInv
<1>9. ASSUME NEW f \in Envs, f \in Group PROVE Hit(f, va)
  <2>1. CASE f = a
    BY <1>1, <1>3, <2>1, RunnerSees
  <2>2. CASE f # a
    <3>1. va = Shared /\ a \in sharers /\ f \in sharers \cup followers
      BY <1>9, <2>2
    <3>2. PICK n : n = pt[a][Shared].fr
      OBVIOUS
    <3>3. Lies(f, n)
      <4>1. CASE f \in sharers
        <5>1. pt[f][Shared].fr = n
          BY <1>1, <3>1, <3>2, <4>1 DEF GroupInv, sharers
        <5>2. QED BY <4>1, <5>1, SharerLies
      <4>2. CASE f \in followers
        BY <1>1, <3>1, <3>2, <4>2, FollowAt
      <4>3. QED BY <3>1, <4>1, <4>2
    <3>4. QED BY <3>1, <3>2, <3>3 DEF Lies
  <2>3. QED BY <2>1, <2>2
<1>10. \A f \in Envs, w \in VPages : Reads(f, w)' = IF f \in Group /\ w = va THEN x ELSE Reads(f, w)
  <2>1. TAKE f \in Envs, w \in VPages
  <2>2. pt'[f][w] = pt[f][w] /\ (pt[f][w] = NoPte <=> pt[f][w].fr = NoOne) /\ pt[f][w].fr \in Frames \cup {NoOne}
    BY <1>1, <1>2, NoPteIs DEF MemTypes, Ptes
  <2>3. CASE Hit(f, w)
    <3>1. w = va /\ f \in Group
      BY <1>8, <2>3
    <3>2. mem'[pt[f][w].fr] = x
      BY <1>1, <1>2, <1>4, <2>3 DEF MemTypes
    <3>3. QED BY <1>4, <1>5, <2>2, <2>3, <3>1, <3>2 DEF Reads
  <2>4. CASE ~Hit(f, w)
    <3>1. ~(f \in Group /\ w = va)
      BY <1>9, <2>4
    <3>2. pt[f][w].fr # NoOne /\ ~Pending(f, w) /\ ~Orphan(f) => mem'[pt[f][w].fr] = mem[pt[f][w].fr]
      BY <1>1, <1>2, <2>2, <2>4 DEF MemTypes
    <3>3. QED BY <1>5, <2>2, <3>1, <3>2 DEF Reads
  <2>5. QED BY <2>3, <2>4
<1>11. contents' = [f \in Envs |-> IF f \in Group THEN [contents[f] EXCEPT ![va] = x] ELSE contents[f]]
  <2>1. \A f \in Envs : [w \in VPages |-> Reads(f, w)'] =
          IF f \in Group THEN [[w \in VPages |-> Reads(f, w)] EXCEPT ![va] = x] ELSE [w \in VPages |-> Reads(f, w)]
    BY <1>10
  <2>2. QED BY <2>1 DEF contents
<1>12. statuses[a] = "run" /\ contents[a][va] \notin {x, NoOne}
  <2>1. Status(a) = "run"
    BY <1>3 DEF Status
  <2>2. Reads(a, va) = mem[pt[a][va].fr] /\ Reads(a, va) # NoOne
    BY <1>1, <1>3, <1>4, SeenIs, RunnerSees
  <2>3. QED BY <1>2, <2>1, <2>2, ValuesAre
<1>13. Spaces!Readers(a, va) = Group
  BY DEF Spaces!Readers
<1>14. va = Shared => a \notin followers
  <2>1. SUFFICES ASSUME va = Shared, a \in followers PROVE FALSE
    OBVIOUS
  <2>2. PICK s \in sharers : pt[s][Shared].fr = pt[a][Shared].fr /\ "SHARE" \notin pt[a][Shared].perm
    BY <2>1 DEF followers, Follows
  <2>3. s \in Envs /\ s # a /\ "SHARE" \in pt[s][Shared].perm /\ ~Orphan(s)
    BY <2>2 DEF sharers
  <2>4. Hidden(a, s, Shared)
    BY <1>1, <1>2, <2>1, <2>2, <2>3 DEF WriteInv, Lends
  <2>5. child[a] = s /\ pc[a] = "remap"
    BY <2>3, <2>4 DEF Hidden, Orphan
  <2>6. "W" \notin pt[s][Shared].perm
    BY <1>1, <2>3, <2>5, NothingIs DEF ForkInv, Forking
  <2>7. pt[s][Shared].perm \in Perms
    BY <1>1, <2>3 DEF MemTypes, Ptes
  <2>8. QED BY <2>3, <2>6, <2>7 DEF Perms
<1>15. QED BY <1>2, <1>5, <1>11, <1>12, <1>13, <1>6, <1>7, <1>14 DEF Spaces!Write

\* pgfault maps its copy of page v in place of the page, and nothing else.
Swaps(a, v) ==
  /\ \A g \in Envs, w \in VPages : ~(g = a /\ w = v) => pt'[g][w] = pt[g][w]
  /\ pt'[a][v].fr = pt[a]["pftemp"].fr
  /\ pt[a]["pftemp"].fr \in Frames /\ pt[a][v].fr # NoOne
  /\ "SHARE" \notin pt[a][v].perm /\ "SHARE" \notin pt'[a][v].perm /\ "W" \notin pt[a][v].perm
  /\ \A g \in Envs, w \in VPages : pt[g][w].fr # pt[a]["pftemp"].fr

LEMMA MapSwaps ==
  ASSUME CowInv, NEW a \in Envs, PgfaultMap(a)
  PROVE  /\ UNCHANGED <<pc, child, page, mem, stores>> /\ flt[a].step = "map" /\ flt'[a].step = "unmap"
         /\ flt[a].va \in VPages /\ Swaps(a, flt[a].va)
<1>1. MemTypes /\ FltTypes /\ PteInv /\ FaultInv
  BY DEF CowInv, TypeInv
<1>2. /\ UNCHANGED <<pc, child, page, mem, stores>> /\ flt[a].step = "map"
      /\ MapEntry(a, "pftemp", a, flt[a].va, {"W"})
  BY Entries DEF PgfaultMap, InFault, PageMap, Quiet
<1>3. PICK v \in VPages : v = flt[a].va
  BY <1>2, Here
<1>4. flt'[a].step = "unmap"
  BY <1>1 DEF PgfaultMap, FaultStep, FltTypes, Faults
<1>5. /\ "COW" \in pt[a][v].perm /\ pt[a][v].fr # NoOne
      /\ "W" \notin pt[a][v].perm /\ "SHARE" \notin pt[a][v].perm
  <2>1. pt[a][v].perm \in Perms
    BY <1>1, SpotsAre DEF MemTypes, Ptes
  <2>2. "COW" \in pt[a][v].perm
    BY <1>1, <1>2, <1>3 DEF FaultInv
  <2>3. QED BY <1>1, <2>1, <2>2, SpotsAre DEF Perms, PteInv
<1>6. /\ \A g \in Envs, w \in VPages : ~(g = a /\ w = v) => pt'[g][w] = pt[g][w]
      /\ pt'[a][v].fr = pt[a]["pftemp"].fr /\ pt[a]["pftemp"].fr # NoOne /\ pt'[a][v].perm = {"W"}
  BY <1>2, <1>3, SpotsAre DEF MapEntry, Entry, Pte
<1>7. pt[a]["pftemp"].fr \in Frames
  BY <1>1, <1>6, SpotsAre DEF MemTypes, Ptes
<1>8. \A g \in Envs, w \in VPages : pt[g][w].fr # pt[a]["pftemp"].fr
  <2>1. Sole(a, "pftemp")
    BY <1>2, <1>6, SoleIs, SpotsAre
  <2>2. QED BY <2>1, SpotsAre DEF Sole
<1>9. QED BY <1>2, <1>3, <1>4, <1>5, <1>6, <1>7, <1>8 DEF Swaps

\* The page reads as the copy does, and every other page as before.
LEMMA SwapReads ==
  ASSUME CowInv, CowInv', NEW a \in Envs, Seen(a), UNCHANGED <<pc, child, page, mem>>,
         NEW v \in VPages, Swaps(a, v)
  PROVE  /\ GoesOn(a) /\ Hush
         /\ Reads(a, v) = mem[pt[a][v].fr] /\ Reads(a, v)' = mem[pt[a]["pftemp"].fr]
         /\ \A g \in Envs, w \in VPages : ~(g = a /\ w = v) => Reads(g, w)' = Reads(g, w)
         /\ \A g \in Envs \ {a}, n \in Frames : Lies(g, n)' <=> Lies(g, n)
<1>1. /\ MemTypes /\ PteInv /\ LifeInv /\ LifeInv' /\ MemTypes' /\ PteInv'
      /\ pc[a] \notin {"unborn", "built", "dead"}
  BY DEF CowInv, TypeInv, Seen
<1>2. GoesOn(a) /\ Hush
  BY <1>1 DEF GoesOn, Hush
<1>3. /\ Reads(a, v) = mem[pt[a][v].fr] /\ Reads(a, v)' = mem[pt[a]["pftemp"].fr]
  <2>1. ~Pending(a, v) /\ ~Orphan(a) /\ ~Pending(a, v)' /\ ~Orphan(a)'
    BY <1>1, RunnerSees, RunnerNext
  <2>2. pt'[a][v].fr # NoOne
    BY NothingIs DEF Swaps
  <2>3. QED BY <1>1, <2>1, <2>2, SeenIs, SeenNext DEF Swaps
<1>4. ASSUME NEW w \in VPages \ {v} PROVE Reads(a, w)' = Reads(a, w)
  BY <1>1, RunnerReads DEF Swaps
<1>5. ASSUME NEW c \in Envs, c = child[a], NEW w \in VPages
      PROVE  c # a /\ pt'[c][w] = pt[c][w] /\ (Pending(c, w)' <=> Pending(c, w)) /\ (Orphan(c)' <=> Orphan(c))
  <2>1. c # a
    BY <1>1, <1>5, NothingIs DEF LifeInv, ChildInv
  <2>2. pt'[c][w] = pt[c][w]
    BY <2>1 DEF Swaps
  <2>3. /\ Pending(c, w)' <=> /\ pc'[a] = "remap" /\ Va(a)' = w
                              /\ pt'[a][w].fr = pt'[c][w].fr /\ "W" \in pt'[a][w].perm
        /\ Pending(c, w) <=> /\ pc[a] = "remap" /\ Va(a) = w
                             /\ pt[a][w].fr = pt[c][w].fr /\ "W" \in pt[a][w].perm
        /\ ~Orphan(c) /\ ~Orphan(c)'
    BY <1>1, <1>5, ChildSees, ChildNext
  <2>4. Pending(c, w)' <=> Pending(c, w)
    <3>1. CASE w = v
      BY <2>2, <2>3, <3>1 DEF Swaps
    <3>2. CASE w # v
      BY <2>2, <2>3, <3>2 DEF Va, Swaps
    <3>3. QED BY <3>1, <3>2
  <2>5. QED BY <2>1, <2>2, <2>3, <2>4
<1>6. ASSUME NEW c \in Envs, c = child[a]
      PROVE  (\A w \in VPages : Reads(c, w)' = Reads(c, w)) /\ \A n : Lies(c, n)' <=> Lies(c, n)
  <2>1. \A w \in VPages : Reads(c, w)' = Reads(c, w)
    BY <1>2, <1>5, <1>6, ChildReads
  <2>2. \A n : Lies(c, n)' <=> Lies(c, n)
    BY <1>5, <1>6, SpotsAre DEF Lies
  <2>3. QED BY <2>1, <2>2
<1>7. ASSUME NEW g \in Envs, g # a, child[a] # g
      PROVE  (\A w \in VPages : Reads(g, w)' = Reads(g, w)) /\ \A n : Lies(g, n)' <=> Lies(g, n)
  BY <1>2, <1>7, OthersRead, OthersLie DEF GoesOn
<1>8. QED BY <1>2, <1>3, <1>4, <1>6, <1>7

\* Of a page that is the environment's own: both hold the same.
LEMMA FaultMapped ==
  ASSUME CowInv, CowInv', NEW a \in Envs, Seen(a), StepOf(a), PgfaultMap(a), flt[a].va # Shared
  PROVE  UNCHANGED Mapped
<1>1. /\ UNCHANGED <<pc, child, page, mem, stores>> /\ flt[a].step = "map" /\ flt'[a].step = "unmap"
  BY MapSwaps
<1>2. PICK v \in VPages \ {Shared} : v = flt[a].va /\ Swaps(a, v)
  BY MapSwaps
<1>3. /\ GoesOn(a) /\ Hush
      /\ Reads(a, v) = mem[pt[a][v].fr] /\ Reads(a, v)' = mem[pt[a]["pftemp"].fr]
      /\ \A g \in Envs, w \in VPages : ~(g = a /\ w = v) => Reads(g, w)' = Reads(g, w)
      /\ \A g \in Envs \ {a}, n \in Frames : Lies(g, n)' <=> Lies(g, n)
  BY <1>1, <1>2, SwapReads
<1>4. mem[pt[a]["pftemp"].fr] = mem[pt[a][v].fr]
  BY <1>1, <1>2 DEF CowInv, CopiedInv
<1>5. \A w \in VPages : Reads(a, w)' = Reads(a, w)
  BY <1>3, <1>4
<1>6. \A g \in Envs : pt'[g][Shared] = pt[g][Shared]
  BY <1>2, SpotsAre DEF Swaps
<1>7. ASSUME NEW c \in Envs, c = child[a]
      PROVE  (\A w \in VPages : Reads(c, w)' = Reads(c, w)) /\ \A n \in Frames : Lies(c, n)' <=> Lies(c, n)
  <2>1. c # a
    BY <1>7, NothingIs DEF CowInv, LifeInv, ChildInv, Seen
  <2>2. QED BY <1>3, <2>1
<1>8. copies' = copies
  <2>1. Held(a) = NoOne /\ Held(a)' = NoOne
    BY <1>1, <1>2, HeldNone
  <2>2. QED BY <2>1, HeldOthers, HeldSame
<1>9. QED BY <1>1, <1>3, <1>5, <1>6, <1>7, <1>8, Unread

\* Of the shared page: the copy may be older than what the group has stored.
LEMMA FaultDetached ==
  ASSUME CowInv, CowInv', NEW a \in Envs, Seen(a), StepOf(a), PgfaultMap(a), flt[a].va = Shared
  PROVE  Spaces!Detach(a)
<1>1. /\ UNCHANGED <<pc, child, page, mem, stores>> /\ flt[a].step = "map" /\ flt'[a].step = "unmap"
      /\ Shared \in VPages /\ Swaps(a, Shared) /\ GroupInv /\ GroupInv'
  BY MapSwaps DEF Seen
<1>2. /\ GoesOn(a) /\ Hush
      /\ Reads(a, Shared)' = mem[pt[a]["pftemp"].fr]
      /\ \A g \in Envs, w \in VPages : ~(g = a /\ w = Shared) => Reads(g, w)' = Reads(g, w)
      /\ \A g \in Envs \ {a}, n \in Frames : Lies(g, n)' <=> Lies(g, n)
  BY <1>1, SwapReads
<1>3. /\ Held(a) = mem[pt[a]["pftemp"].fr] /\ Held(a) \in Values /\ Held(a) # NoOne
      /\ Held(a)' = NoOne
  <2>1. Held(a) = mem[pt[a]["pftemp"].fr] /\ Held(a)' = NoOne
    BY <1>1 DEF Held
  <2>2. mem[pt[a]["pftemp"].fr] \in Values
    BY <1>1 DEF Swaps, CowInv, TypeInv, MemTypes
  <2>3. QED BY <2>1, <2>2, ForkAssumption
<1>4. copies[a] = Held(a) /\ copies' = [copies EXCEPT ![a] = NoOne]
  <2>1. \A g \in Envs : Held(g)' = IF g = a THEN NoOne ELSE Held(g)
    BY <1>3, HeldOthers
  <2>2. QED BY <2>1 DEF copies
<1>5. contents' = [contents EXCEPT ![a][Shared] = Held(a)]
  <2>1. \A g \in Envs, w \in VPages : Reads(g, w)' = IF g = a /\ w = Shared THEN Held(a) ELSE Reads(g, w)
    BY <1>2, <1>3
  <2>2. QED BY <1>1, <2>1, ReadsOne
<1>6. /\ statuses' = statuses /\ makers' = makers
      /\ \A g \in Envs : Orphan(g)' <=> Orphan(g)
  BY <1>2, Still
<1>7. sharers' = sharers /\ a \notin sharers
  <2>1. \A g \in Envs : "SHARE" \in pt'[g][Shared].perm <=> "SHARE" \in pt[g][Shared].perm
    BY <1>1 DEF Swaps
  <2>2. QED BY <1>1, <1>6, <2>1, ShareSame DEF Swaps, sharers
<1>8. followers' = followers \ {a}
  <2>1. sharers' = sharers \ {a}
    BY <1>7
  <2>2. ASSUME NEW n \in Frames, NEW s \in sharers, pt[s][Shared].fr = n PROVE ~Lies(a, n)'
    <3>1. s \in Envs /\ n # pt[a]["pftemp"].fr
      BY <1>1, <2>2 DEF Swaps, sharers
    <3>2. QED BY <1>1, <3>1 DEF Lies, Swaps
  <2>3. \A n \in Frames, g \in Envs :
           (\E s \in sharers : pt[s][Shared].fr = n) => (Lies(g, n)' <=> Lies(g, n) /\ g \notin {a})
    BY <1>2, <2>2
  <2>4. followers' = Spaces!Following(sharers', followers \ {a})
    BY <1>1, <2>1, <2>3, FollowDrops
  <2>5. QED BY <1>7, <2>4, FollowNone DEF Spaces!Following
<1>9. QED BY <1>1, <1>3, <1>4, <1>5, <1>6, <1>7, <1>8 DEF Spaces!Detach

\* pgfault copies the page: of the shared one, this is what the copy will be.
LEMMA FaultCopied ==
  ASSUME CowInv, CowInv', NEW a \in Envs, Seen(a), StepOf(a), Hush, PgfaultCopy(a)
  PROVE  UNCHANGED Mapped \/ Spaces!Take(a)
<1>1. /\ CtlTypes /\ MemTypes /\ FltTypes /\ PteInv /\ FaultInv /\ LifeInv
      /\ pc[a] \notin {"unborn", "built", "dead"}
  BY DEF CowInv, TypeInv, Seen
<1>2. /\ UNCHANGED <<pc, child, page, pt, stores>> /\ flt[a].step = "copy"
      /\ mem' = [mem EXCEPT ![pt[a]["pftemp"].fr] = mem[pt[a][flt[a].va].fr]]
  BY DEF PgfaultCopy, InFault, Quiet
<1>3. flt'[a].step = "map" /\ flt'[a].va = flt[a].va
  BY <1>1 DEF PgfaultCopy, FaultStep, FltTypes, Faults
<1>4. UNCHANGED Steady /\ (copies' = copies => UNCHANGED Mapped)
  <2>1. GoesOn(a)
    BY <1>1, <1>2 DEF GoesOn
  <2>2. QED BY <1>2, <2>1, Unseen
<1>5. CASE flt[a].va # Shared
  <2>1. Held(a) = NoOne /\ Held(a)' = NoOne
    BY <1>3, <1>5, HeldNone
  <2>2. copies' = copies
    BY <2>1, HeldOthers, HeldSame
  <2>3. QED BY <1>4, <2>2
<1>6. CASE flt[a].va = Shared
  <2>1. pt[a]["pftemp"].fr \in Frames /\ "COW" \in pt[a][Shared].perm /\ Shared \in VPages
    BY <1>1, <1>2, <1>6, SpotsAre DEF FaultInv, MemTypes, Ptes
  <2>2. pt[a][Shared].perm \in Perms /\ pt[a][Shared].fr # NoOne
    BY <1>1, <2>1, SpotsAre DEF MemTypes, Ptes, PteInv
  <2>3. a \notin sharers
    BY <2>1, <2>2 DEF sharers, Perms
  <2>4. Reads(a, Shared) = mem[pt[a][Shared].fr] /\ Reads(a, Shared) # NoOne
    BY <1>1, <2>1, <2>2, RunnerSees, SeenIs
  <2>5. Held(a)' = Reads(a, Shared)
    <3>1. Held(a)' = mem'[pt'[a]["pftemp"].fr]
      BY <1>3, <1>6 DEF Held
    <3>2. QED BY <1>1, <1>2, <1>6, <2>1, <2>4, <3>1 DEF MemTypes
  <2>6. copies' = [copies EXCEPT ![a] = Reads(a, Shared)]
    <3>1. \A g \in Envs : Held(g)' = IF g = a THEN Reads(a, Shared) ELSE Held(g)
      BY <2>5, HeldOthers
    <3>2. QED BY <3>1 DEF copies
  <2>7. statuses[a] = "run" /\ contents[a][Shared] = Reads(a, Shared)
    BY <1>1, <2>1, StatusIs, ValuesAre
  <2>8. QED BY <1>4, <2>3, <2>4, <2>6, <2>7 DEF Spaces!Take, Steady
<1>7. QED BY <1>5, <1>6

\* Whoever is destroyed holds no copy any more.
LEMMA Destroys ==
  ASSUME CowInv, CowInv', NEW e \in Envs, Seen(e), StepOf(e), Hush, Destroyed(e)
  PROVE  Spaces!Die(e)
<1>1. CtlTypes /\ FltTypes /\ MemTypes
  BY DEF CowInv, TypeInv
<1>2. /\ pc'[e] = "dead" /\ \A g \in Envs \ {e} : pc'[g] = pc[g]
      /\ child'[e] = NoOne /\ stores' = stores
  BY <1>1 DEF Destroyed, Gone, Event, CtlTypes
<1>3. \A v \in VPages : pt'[e][v] = NoPte
  <2>1. \A g \in Envs, w \in Vas : pt'[g][w] = IF g = e THEN NoPte ELSE pt[g][w]
    BY <1>1, ClearIs DEF Destroyed, Gone
  <2>2. QED BY <2>1, SpotsAre
<1>4. \A g \in Envs : Held(g)' = IF g = e THEN NoOne ELSE Held(g)
  <2>1. flt'[e] = NoFault
    BY <1>1 DEF Destroyed, Gone, FltTypes
  <2>2. Held(e)' = NoOne
    BY <2>1, NothingIs, HeldNone
  <2>3. QED BY <2>2, HeldOthers
<1>5. QED BY <1>2, <1>3, <1>4, Dies

-----------------------------------------------------------------------------
(* Every step is a step of AddressSpaces, or none.                         *)

\* A step of the abstract specification, whoever makes it.
LEMMA NextIs ==
  ASSUME NEW a \in Envs
  PROVE  /\ Spaces!GiveUp(a) => Spaces!Next
         /\ Spaces!Die(a) => Spaces!Next
         /\ Spaces!Take(a) => Spaces!Next
         /\ Spaces!Detach(a) => Spaces!Next
         /\ \A v \in VPages : Spaces!Load(a, v) => Spaces!Next
         /\ \A v \in VPages, x \in Values : Spaces!Write(a, v, x) => Spaces!Next
         /\ \A c \in Envs, how \in {"fork", "spawn"} : Spaces!Create(a, c, how) => Spaces!Next
         /\ \A c \in Envs, v \in VPages : Spaces!Copy(a, c, v) => Spaces!Next
         /\ \A c \in Envs : Spaces!Share(a, c) => Spaces!Next
         /\ \A c \in Envs : Spaces!Run(a, c) => Spaces!Next
BY DEF Spaces!Next

\* Every step that puts nothing in place of a page is an abstract step or a stutter.
LEMMA Maps ==
  ASSUME CowInv, CowInv', SpaceInv, SpaceInv', NEW e \in Envs, StepOf(e), Hush,
         ~PgfaultCopy(e), ~PgfaultMap(e), ~Destroyed(e)
  PROVE  UNCHANGED Mapped \/ Spaces!Next
<1>1. /\ CowInv /\ CowInv' /\ SpaceInv /\ Hush /\ Seen(e) /\ CtlTypes /\ MemTypes /\ ChildInv
      /\ copies' = copies
  <2>1. OnlyBy(e) /\ Touch(e) /\ pc[e] \notin {"unborn", "built", "dead"}
    BY OnlyActor, TouchActor, Alive
  <2>2. flt[e].step # "map" /\ flt'[e].step # "map"
    BY MapOnly, MapByCopy
  <2>3. copies' = copies
    BY <2>2, HoldStill
  <2>4. QED BY <2>1, <2>3 DEF CowInv, TypeInv, LifeInv, SpaceInv, Seen
<1>37. Text # Shared /\ Bss # Shared /\ Stack # Shared
  BY DEF Text, Bss, Shared, Stack
<1>2. ASSUME NEW va \in VPages, Fault(e, va) PROVE UNCHANGED Mapped \/ Spaces!Next
  <2>1. UNCHANGED <<pc, child, page, stores>>
    BY <1>2 DEF Fault, MayStore, Quiet, Event
  <2>2. UNCHANGED pt
    BY <1>2 DEF Fault
  <2>3. \A g \in Envs, v \in VPages : pt'[g][v] = pt[g][v]
    BY <2>2
  <2>4. GoesOn(e)
    BY <1>1, <2>1 DEF GoesOn, Seen
  <2>5. QED BY <1>1, <2>1, <2>3, <2>4, Unseen
<1>3. ASSUME NEW va \in VPages, FaultKills(e, va) PROVE UNCHANGED Mapped \/ Spaces!Next
  <2>1. /\ pc'[e] = "dead" /\ \A g \in Envs \ {e} : pc'[g] = pc[g]
        /\ child'[e] = NoOne /\ stores' = stores
    BY <1>1, <1>3 DEF FaultKills, MayStore, Gone, Quiet, Event, CtlTypes
  <2>2. \A g \in Envs, w \in Vas : pt'[g][w] = IF g = e THEN NoPte ELSE pt[g][w]
    BY <1>1, <1>3, ClearIs DEF FaultKills, Gone
  <2>3. \A v \in VPages : pt'[e][v] = NoPte
    BY <2>2, SpotsAre
  <2>4. \A g \in Envs : Held(g)' = IF g = e THEN NoOne ELSE Held(g)
    <3>1. Held(e) = NoOne
      BY <1>3, NothingIs, HeldNone DEF FaultKills, MayStore
    <3>2. \A g \in Envs : Held(g)' = Held(g)
      BY <1>1, ValuesAre DEF copies
    <3>3. QED BY <3>1, <3>2
  <2>5. QED BY <1>1, <2>1, <2>3, <2>4, Dies, NextIs
<1>4. ASSUME NEW va \in VPages, NEW x \in Values, Store(e, va, x) PROVE UNCHANGED Mapped \/ Spaces!Next
  BY <1>1, <1>4, Writes, NextIs
<1>5. CASE SetPgfaultHandler(e)
  <2>1. /\ pc[e] = "run" /\ pc' = [pc EXCEPT ![e] = "exofork"]
        /\ UNCHANGED <<child, stores>>
    BY <1>5 DEF SetPgfaultHandler, Goto, At, Quiet, Event
  <2>2. UNCHANGED pt \/ NewEntry(e, "uxstack", {"W"})
    BY <1>5, Entries
  <2>3. \A g \in Envs, v \in VPages : pt'[g][v] = pt[g][v]
    BY <2>2, SpotsAre DEF Entry, NewEntry
  <2>4. GoesOn(e)
    BY <1>1, <2>1, NothingIs DEF GoesOn, CtlTypes, ChildInv, Making, Forking, Spawning
  <2>5. pc[e] # "remap" /\ pc'[e] # "remap"
    BY <1>1, <2>1 DEF CtlTypes
  <2>6. QED BY <1>1, <2>1, <2>3, <2>4, <2>5, Unseen
<1>6. CASE SetPgfaultHandlerPanics(e)
  <2>1. /\ pc'[e] \in {"run", "panic"} /\ \A g \in Envs \ {e} : pc'[g] = pc[g]
        /\ child'[e] = NoOne /\ stores' = stores
    BY <1>1, <1>6 DEF SetPgfaultHandlerPanics, At, Panic, Goto, Quiet, Event, Return, CtlTypes
  <2>2. UNCHANGED pt
    BY <1>6 DEF SetPgfaultHandlerPanics, Panic
  <2>3. \A g \in Envs, v \in VPages : pt'[g][v] = pt[g][v]
    BY <2>2
  <2>4. QED BY <1>1, <2>1, <2>3, GivesUp, NextIs
<1>7. CASE Spawn(e)
  <2>1. /\ pc[e] = "run" /\ pc' = [pc EXCEPT ![e] = "sp_exofork"]
        /\ UNCHANGED <<child, stores>>
    BY <1>7 DEF Spawn, Goto, At, Quiet, Event
  <2>2. UNCHANGED pt
    BY <1>7 DEF Spawn
  <2>3. \A g \in Envs, v \in VPages : pt'[g][v] = pt[g][v]
    BY <2>2
  <2>4. GoesOn(e)
    BY <1>1, <2>1, NothingIs DEF GoesOn, CtlTypes, ChildInv, Making, Forking, Spawning
  <2>5. pc[e] # "remap" /\ pc'[e] # "remap"
    BY <1>1, <2>1 DEF CtlTypes
  <2>6. QED BY <1>1, <2>1, <2>3, <2>4, <2>5, Unseen
<1>8. CASE PgfaultAlloc(e)
  <2>1. UNCHANGED <<pc, child, page, stores>>
    BY <1>8 DEF PgfaultAlloc, InFault, Quiet, Event
  <2>2. NewEntry(e, "pftemp", {"W"})
    BY <1>8, Entries
  <2>3. \A g \in Envs, v \in VPages : pt'[g][v] = pt[g][v]
    BY <2>2, SpotsAre DEF Entry, NewEntry
  <2>4. GoesOn(e)
    BY <1>1, <2>1 DEF GoesOn, Seen
  <2>5. QED BY <1>1, <2>1, <2>3, <2>4, Unseen
<1>9. CASE PgfaultPanics(e)
  <2>1. /\ pc'[e] \in {"run", "panic"} /\ \A g \in Envs \ {e} : pc'[g] = pc[g]
        /\ child'[e] = NoOne /\ stores' = stores
    BY <1>1, <1>9 DEF PgfaultPanics, Panic, InFault, Goto, Quiet, Event, Return, CtlTypes
  <2>2. UNCHANGED pt
    BY <1>9 DEF PgfaultPanics, Panic
  <2>3. \A g \in Envs, v \in VPages : pt'[g][v] = pt[g][v]
    BY <2>2
  <2>4. QED BY <1>1, <2>1, <2>3, GivesUp, NextIs
<1>12. CASE PgfaultUnmap(e)
  <2>1. UNCHANGED <<pc, child, page, stores>>
    BY <1>12 DEF PgfaultUnmap, InFault, Quiet, Event
  <2>2. Entry(e, "pftemp", NoPte)
    BY <1>12, Entries
  <2>3. \A g \in Envs, v \in VPages : pt'[g][v] = pt[g][v]
    BY <2>2, SpotsAre DEF Entry, NewEntry
  <2>4. GoesOn(e)
    BY <1>1, <2>1 DEF GoesOn, Seen
  <2>5. QED BY <1>1, <2>1, <2>3, <2>4, Unseen
<1>13. CASE PgfaultReturn(e)
  <2>1. UNCHANGED <<pc, child, page, stores>>
    BY <1>13 DEF PgfaultReturn, InFault, Quiet, Event
  <2>2. UNCHANGED pt
    BY <1>13 DEF PgfaultReturn
  <2>3. \A g \in Envs, v \in VPages : pt'[g][v] = pt[g][v]
    BY <2>2
  <2>4. GoesOn(e)
    BY <1>1, <2>1 DEF GoesOn, Seen
  <2>5. QED BY <1>1, <2>1, <2>3, <2>4, Unseen
<1>14. CASE ForkExofork(e)
  <2>1. pc[e] = "exofork" /\ child[e] = NoOne /\ UNCHANGED <<pt, stores>>
    BY <1>1, <1>14 DEF ForkExofork, Exofork, At, Quiet, Event, ChildInv, Making
  <2>2. CASE pc' = [pc EXCEPT ![e] = "run"] /\ UNCHANGED child
    <3>1. GoesOn(e)
      BY <1>1, <2>1, <2>2, NothingIs DEF GoesOn, CtlTypes
    <3>2. QED BY <1>1, <2>1, <3>1, NothingIs, Unseen
  <2>3. ASSUME NEW c \in Envs, pc[c] = "unborn", pc' = [pc EXCEPT ![e] = "ux", ![c] = "built"],
               child' = [child EXCEPT ![e] = c]
        PROVE  Spaces!Next
    <3>1. /\ c # e /\ pc'[e] = "ux" /\ pc'[c] = "built" /\ child'[e] = c
          /\ \A g \in Envs \ {e, c} : pc'[g] = pc[g]
      BY <1>1, <2>1, <2>3 DEF CtlTypes
    <3>2. Spaces!Create(e, c, IF pc'[e] \in Forking THEN "fork" ELSE "spawn")
      BY <1>1, <2>1, <2>3, <3>1, Creates
    <3>3. QED BY <3>2, NextIs
  <2>4. QED BY <1>14, <2>2, <2>3 DEF ForkExofork, Exofork, Goto
<1>15. CASE ForkExceptionStack(e)
  <2>1. /\ pc[e] = "ux" /\ pc' = [pc EXCEPT ![e] = "dup"]
        /\ UNCHANGED <<child, stores>>
    BY <1>15 DEF ForkExceptionStack, Goto, At, Quiet, Event
  <2>2. NewEntry(child[e], "uxstack", {"W"})
    BY <1>15, Entries
  <2>3. \A g \in Envs, v \in VPages : pt'[g][v] = pt[g][v]
    BY <2>2, SpotsAre DEF Entry, NewEntry
  <2>4. GoesOn(e)
    BY <1>1, <2>1, NothingIs DEF GoesOn, CtlTypes, ChildInv, Making, Forking, Spawning
  <2>5. pc[e] # "remap" /\ pc'[e] # "remap"
    BY <1>1, <2>1 DEF CtlTypes
  <2>6. QED BY <1>1, <2>1, <2>3, <2>4, <2>5, Unseen
<1>16. CASE ForkLoop(e)
  <2>1. /\ pc[e] = "dup" /\ pc'[e] \in {"dup", "start"} /\ \A g \in Envs \ {e} : pc'[g] = pc[g]
        /\ UNCHANGED <<child, stores, pt>>
    BY <1>1, <1>16 DEF ForkLoop, Goto, At, Quiet, Event, CtlTypes
  <2>2. GoesOn(e)
    BY <1>1, <2>1 DEF GoesOn, Forking
  <2>3. QED BY <1>1, <2>1, <2>2, Unseen
<1>17. CASE DuppageChild(e)
  <2>1. pc[e] = "dup" /\ page[e] <= 4 /\ UNCHANGED <<child, stores>>
    BY <1>17, PagesAre DEF DuppageChild, At, Quiet
  <2>2. PICK c \in Envs : c = child[e] /\ c # e
    BY <2>1, Here DEF Forking
  <2>3. PICK v \in VPages : v = Va(e)
    BY <2>1, Here DEF Making, Forking
  <2>4. \/ /\ Writable(e) /\ MapEntry(e, v, c, v, {"COW"})
           /\ pc' = [pc EXCEPT ![e] = "remap"] /\ page' = page
        \/ /\ ~Writable(e) /\ pt[e][v].perm = {} /\ MapEntry(e, v, c, v, {}) /\ pc' = pc
    BY <1>17, <2>2, <2>3, Entries DEF DuppageChild, Goto
  <2>5. GoesOn(e) /\ (pc'[e] = "remap" => page'[e] = page[e])
    BY <1>1, <2>1, <2>4 DEF GoesOn, CtlTypes, Forking
  <2>6. "W" \in pt[e][v].perm => pc'[e] = "remap"
    BY <1>1, <2>3, <2>4 DEF Writable, CtlTypes
  <2>7. "SHARE" \in pt[e][v].perm => "W" \in pt[e][v].perm
    <3>1. pt[e][v].perm \in Perms
      BY <1>1, SpotsAre DEF MemTypes, Ptes
    <3>2. QED BY <3>1 DEF Perms
  <2>8. PICK perm \in {{}, {"COW"}} : MapEntry(e, v, c, v, perm)
    BY <2>4
  <2>9. UNCHANGED Mapped \/ Spaces!Copy(e, c, v)
    BY <1>1, <2>1, <2>2, <2>3, <2>5, <2>6, <2>7, <2>8, ChildCopied
  <2>10. QED BY <2>9, NextIs, ForkAssumption
<1>18. CASE DuppageParent(e)
  <2>1. /\ pc[e] = "remap" /\ pc' = [pc EXCEPT ![e] = "dup"] /\ UNCHANGED <<child, stores>>
    BY <1>18 DEF DuppageParent, At, Goto, Quiet
  <2>2. PICK c \in Envs : c = child[e] /\ c # e
    BY <2>1, Here DEF Forking
  <2>3. PICK v \in VPages : v = Va(e)
    BY <2>1, Here
  <2>4. MapEntry(e, v, e, v, {"COW"})
    BY <1>18, <2>3, Entries
  <2>5. GoesOn(e) /\ pc'[e] = "dup"
    BY <1>1, <2>1 DEF GoesOn, CtlTypes, Forking
  <2>6. UNCHANGED Mapped \/ Spaces!Copy(e, c, v)
    BY <1>1, <2>1, <2>2, <2>3, <2>4, <2>5, ParentRemapped
  <2>7. QED BY <2>6, NextIs, ForkAssumption
<1>19. CASE ForkFails(e)
  <2>1. /\ pc'[e] \in {"run", "panic"} /\ \A g \in Envs \ {e} : pc'[g] = pc[g]
        /\ child'[e] = NoOne /\ stores' = stores
    BY <1>1, <1>19 DEF ForkFails, Goto, Quiet, Event, Return, CtlTypes
  <2>2. UNCHANGED pt
    BY <1>19 DEF ForkFails
  <2>3. \A g \in Envs, v \in VPages : pt'[g][v] = pt[g][v]
    BY <2>2
  <2>4. QED BY <1>1, <2>1, <2>3, GivesUp, NextIs
<1>20. CASE ForkDone(e)
  <2>1. pc[e] = "start"
    BY <1>20 DEF ForkDone, SetRunnable, At
  <2>2. PICK c \in Envs : c = child[e] /\ c # e
    BY <2>1, Here DEF Forking, Spawning
  <2>3. /\ pc'[e] = "run" /\ pc'[c] = "run" /\ \A g \in Envs \ {e, c} : pc'[g] = pc[g]
        /\ child'[e] = NoOne /\ UNCHANGED <<pt, stores>>
    BY <1>1, <1>20, <2>2 DEF ForkDone, SetRunnable, Return, Quiet, CtlTypes
  <2>4. Spaces!Run(e, c)
    BY <1>1, <2>1, <2>2, <2>3, Runs
  <2>5. QED BY <2>4, NextIs
<1>21. CASE SpawnExofork(e)
  <2>1. pc[e] = "sp_exofork" /\ child[e] = NoOne /\ UNCHANGED <<pt, stores>>
    BY <1>1, <1>21 DEF SpawnExofork, Exofork, At, Quiet, Event, ChildInv, Making
  <2>2. CASE pc' = [pc EXCEPT ![e] = "run"] /\ UNCHANGED child
    <3>1. GoesOn(e)
      BY <1>1, <2>1, <2>2, NothingIs DEF GoesOn, CtlTypes
    <3>2. QED BY <1>1, <2>1, <3>1, NothingIs, Unseen
  <2>3. ASSUME NEW c \in Envs, pc[c] = "unborn", pc' = [pc EXCEPT ![e] = "sp_stack", ![c] = "built"],
               child' = [child EXCEPT ![e] = c]
        PROVE  Spaces!Next
    <3>1. /\ c # e /\ pc'[e] = "sp_stack" /\ pc'[c] = "built" /\ child'[e] = c
          /\ \A g \in Envs \ {e, c} : pc'[g] = pc[g]
      BY <1>1, <2>1, <2>3 DEF CtlTypes
    <3>2. Spaces!Create(e, c, IF pc'[e] \in Forking THEN "fork" ELSE "spawn")
      BY <1>1, <2>1, <2>3, <3>1, Creates
    <3>3. QED BY <3>2, NextIs
  <2>4. QED BY <1>21, <2>2, <2>3 DEF SpawnExofork, Exofork, Goto
<1>22. CASE InitStackAlloc(e)
  <2>1. /\ pc[e] = "sp_stack" /\ pc' = [pc EXCEPT ![e] = "sp_stackmap"]
        /\ UNCHANGED <<child, stores>>
    BY <1>22 DEF InitStackAlloc, Goto, At, Quiet, Event
  <2>2. NewEntry(e, "utemp", {"W"})
    BY <1>22, Entries
  <2>3. \A g \in Envs, v \in VPages : pt'[g][v] = pt[g][v]
    BY <2>2, SpotsAre DEF Entry, NewEntry
  <2>4. GoesOn(e)
    BY <1>1, <2>1, NothingIs DEF GoesOn, CtlTypes, ChildInv, Making, Forking, Spawning
  <2>5. pc[e] # "remap" /\ pc'[e] # "remap"
    BY <1>1, <2>1 DEF CtlTypes
  <2>6. QED BY <1>1, <2>1, <2>3, <2>4, <2>5, Unseen
<1>23. CASE InitStackMap(e)
  <2>1. pc[e] = "sp_stackmap"
    BY <1>23 DEF InitStackMap, At
  <2>2. PICK c \in Envs : c = child[e] /\ c # e
    BY <2>1, Here DEF Spawning
  <2>3. pc' = [pc EXCEPT ![e] = "sp_stackunmap"] /\ UNCHANGED <<child, stores>>
    BY <1>23 DEF InitStackMap, Goto, Quiet
  <2>4. GoesOn(e) /\ pc[e] \notin Forking /\ pc'[e] \notin Forking
    BY <1>1, <2>1, <2>3 DEF GoesOn, CtlTypes, Forking
  <2>5. pt[c][Stack].fr = NoOne
    BY <1>1, <2>1, <2>2 DEF SpaceInv, GiveInv, SpawnGives, Spawning
  <2>6. MapEntry(e, "utemp", c, Stack, {"W"})
    BY <1>23, <2>1, <2>2, Entries, Here, OrderIs DEF Va
  <2>7. /\ pt'[c][Stack].fr # NoOne /\ "SHARE" \notin pt'[c][Stack].perm /\ mem'[pt'[c][Stack].fr] = Image[Stack]
    <3>1. pt'[c][Stack] = Pte(pt[e]["utemp"].fr, {"W"}) /\ pt[e]["utemp"].fr # NoOne
      BY <2>6, SpotsAre DEF MapEntry, Entry
    <3>2. mem[pt[e]["utemp"].fr] = Image[Stack] /\ UNCHANGED mem
      BY <1>1, <1>23, <2>1 DEF InitStackMap, PageMap, SpaceInv, GiveInv, Filled
    <3>3. QED BY <3>1, <3>2 DEF Pte
  <2>8. \A g \in Envs, w \in VPages : ~(g = c /\ w = Stack) => pt'[g][w] = pt[g][w]
    BY <2>6, SpotsAre DEF MapEntry, Entry
  <2>9. Spaces!Load(c, Stack)
    BY <1>1, <1>37, <2>2, <2>3, <2>4, <2>5, <2>6, <2>7, <2>8, Loads, SpotsAre
  <2>10. QED BY <2>2, <2>9, NextIs, SpotsAre, ForkAssumption
<1>24. CASE InitStackUnmap(e)
  <2>1. /\ pc[e] = "sp_stackunmap" /\ pc' = [pc EXCEPT ![e] = "sp_seg"]
        /\ UNCHANGED <<child, stores>>
    BY <1>24 DEF InitStackUnmap, Goto, At, Quiet, Event
  <2>2. Entry(e, "utemp", NoPte)
    BY <1>24, Entries
  <2>3. \A g \in Envs, v \in VPages : pt'[g][v] = pt[g][v]
    BY <2>2, SpotsAre DEF Entry, NewEntry
  <2>4. GoesOn(e)
    BY <1>1, <2>1, NothingIs DEF GoesOn, CtlTypes, ChildInv, Making, Forking, Spawning
  <2>5. pc[e] # "remap" /\ pc'[e] # "remap"
    BY <1>1, <2>1 DEF CtlTypes
  <2>6. QED BY <1>1, <2>1, <2>3, <2>4, <2>5, Unseen
<1>25. CASE InitStackFails(e)
  <2>1. /\ pc'[e] \in {"run", "panic"} /\ \A g \in Envs \ {e} : pc'[g] = pc[g]
        /\ child'[e] = NoOne /\ stores' = stores
    BY <1>1, <1>25 DEF InitStackFails, Goto, Quiet, Event, Return, CtlTypes
  <2>2. UNCHANGED pt \/ Entry(e, "utemp", NoPte)
    BY <1>25, Entries
  <2>3. \A g \in Envs, v \in VPages : pt'[g][v] = pt[g][v]
    BY <2>2, SpotsAre DEF Entry, NewEntry
  <2>4. QED BY <1>1, <2>1, <2>3, GivesUp, NextIs
<1>26. CASE MapSegmentAlloc(e)
  <2>1. /\ pc[e] = "sp_seg" /\ pc' = [pc EXCEPT ![e] = "sp_read"]
        /\ UNCHANGED <<child, stores>>
    BY <1>26 DEF MapSegmentAlloc, Goto, At, Quiet, Event
  <2>2. NewEntry(e, "utemp", {"W"})
    BY <1>26, Entries
  <2>3. \A g \in Envs, v \in VPages : pt'[g][v] = pt[g][v]
    BY <2>2, SpotsAre DEF Entry, NewEntry
  <2>4. GoesOn(e)
    BY <1>1, <2>1, NothingIs DEF GoesOn, CtlTypes, ChildInv, Making, Forking, Spawning
  <2>5. pc[e] # "remap" /\ pc'[e] # "remap"
    BY <1>1, <2>1 DEF CtlTypes
  <2>6. QED BY <1>1, <2>1, <2>3, <2>4, <2>5, Unseen
<1>27. CASE MapSegmentRead(e)
  <2>1. /\ pc[e] = "sp_read" /\ pc' = [pc EXCEPT ![e] = "sp_segmap"]
        /\ UNCHANGED <<child, stores>>
    BY <1>27 DEF MapSegmentRead, Goto, At, Quiet, Event
  <2>2. UNCHANGED pt
    BY <1>27 DEF MapSegmentRead
  <2>3. \A g \in Envs, v \in VPages : pt'[g][v] = pt[g][v]
    BY <2>2
  <2>4. GoesOn(e)
    BY <1>1, <2>1, NothingIs DEF GoesOn, CtlTypes, ChildInv, Making, Forking, Spawning
  <2>5. pc[e] # "remap" /\ pc'[e] # "remap"
    BY <1>1, <2>1 DEF CtlTypes
  <2>6. QED BY <1>1, <2>1, <2>3, <2>4, <2>5, Unseen
<1>28. CASE MapSegmentMap(e)
  <2>1. pc[e] = "sp_segmap"
    BY <1>28 DEF MapSegmentMap, At
  <2>2. PICK c \in Envs : c = child[e] /\ c # e
    BY <2>1, Here DEF Spawning
  <2>3. pc' = [pc EXCEPT ![e] = "sp_segunmap"] /\ UNCHANGED <<child, stores>>
    BY <1>28 DEF MapSegmentMap, Goto, Quiet
  <2>4. GoesOn(e) /\ pc[e] \notin Forking /\ pc'[e] \notin Forking
    BY <1>1, <2>1, <2>3 DEF GoesOn, CtlTypes, Forking
  <2>5. pt[c][Text].fr = NoOne
    BY <1>1, <2>1, <2>2, Here DEF SpaceInv, GiveInv, SpawnGives, Spawning
  <2>6. MapEntry(e, "utemp", c, Text, {})
    BY <1>28, <2>1, <2>2, Entries, Here, OrderIs DEF Va
  <2>7. /\ pt'[c][Text].fr # NoOne /\ "SHARE" \notin pt'[c][Text].perm /\ mem'[pt'[c][Text].fr] = Image[Text]
    <3>1. pt'[c][Text] = Pte(pt[e]["utemp"].fr, {}) /\ pt[e]["utemp"].fr # NoOne
      BY <2>6, SpotsAre DEF MapEntry, Entry
    <3>2. mem[pt[e]["utemp"].fr] = Image[Text] /\ UNCHANGED mem
      BY <1>1, <1>28, <2>1 DEF MapSegmentMap, PageMap, SpaceInv, GiveInv, Filled
    <3>3. QED BY <3>1, <3>2 DEF Pte
  <2>8. \A g \in Envs, w \in VPages : ~(g = c /\ w = Text) => pt'[g][w] = pt[g][w]
    BY <2>6, SpotsAre DEF MapEntry, Entry
  <2>9. Spaces!Load(c, Text)
    BY <1>1, <1>37, <2>2, <2>3, <2>4, <2>5, <2>6, <2>7, <2>8, Loads, SpotsAre
  <2>10. QED BY <2>2, <2>9, NextIs, SpotsAre, ForkAssumption
<1>29. CASE MapSegmentUnmap(e)
  <2>1. /\ pc[e] = "sp_segunmap" /\ pc' = [pc EXCEPT ![e] = "sp_seg"]
        /\ UNCHANGED <<child, stores>>
    BY <1>29 DEF MapSegmentUnmap, Goto, At, Quiet, Event
  <2>2. Entry(e, "utemp", NoPte)
    BY <1>29, Entries
  <2>3. \A g \in Envs, v \in VPages : pt'[g][v] = pt[g][v]
    BY <2>2, SpotsAre DEF Entry, NewEntry
  <2>4. GoesOn(e)
    BY <1>1, <2>1, NothingIs DEF GoesOn, CtlTypes, ChildInv, Making, Forking, Spawning
  <2>5. pc[e] # "remap" /\ pc'[e] # "remap"
    BY <1>1, <2>1 DEF CtlTypes
  <2>6. QED BY <1>1, <2>1, <2>3, <2>4, <2>5, Unseen
<1>30. CASE MapSegmentBlank(e)
  <2>1. pc[e] = "sp_seg"
    BY <1>30 DEF MapSegmentBlank, At
  <2>2. PICK c \in Envs : c = child[e] /\ c # e
    BY <2>1, Here DEF Spawning
  <2>3. pc' = [pc EXCEPT ![e] = "sp_share"] /\ UNCHANGED <<child, stores>>
    BY <1>30 DEF MapSegmentBlank, Goto, Quiet
  <2>4. GoesOn(e) /\ pc[e] \notin Forking /\ pc'[e] \notin Forking
    BY <1>1, <2>1, <2>3 DEF GoesOn, CtlTypes, Forking
  <2>5. pt[c][Bss].fr = NoOne
    <3>1. page[e] \in 1 .. 2
      BY <1>1, <2>1 DEF CtlTypes, CowInv, PageInv, Making, Spawning
    <3>2. QED BY <1>1, <2>1, <2>2, <3>1 DEF SpaceInv, GiveInv, SpawnGives, Spawning
  <2>6. PageAllocFill(c, Bss, {"W"}, 0) /\ NewEntry(c, Bss, {"W"})
    BY <1>30, <2>2, Entries DEF MapSegmentBlank, PageAlloc
  <2>7. /\ pt'[c][Bss].fr # NoOne /\ "SHARE" \notin pt'[c][Bss].perm /\ mem'[pt'[c][Bss].fr] = Image[Bss]
    <3>1. pt'[c][Bss].fr # NoOne /\ mem'[pt'[c][Bss].fr] = 0
      BY <1>1, <2>6, AllocThere, SpotsAre, PermsAre
    <3>2. Image[Bss] = 0
      BY SpotsAre DEF Image, Text, Bss, Stack
    <3>3. pt'[c][Bss].perm = {"W"}
      BY <2>6, SpotsAre DEF NewEntry, Entry, Pte
    <3>4. QED BY <3>1, <3>2, <3>3
  <2>8. \A g \in Envs, w \in VPages : ~(g = c /\ w = Bss) => pt'[g][w] = pt[g][w]
    BY <2>6, SpotsAre DEF NewEntry, Entry
  <2>9. Spaces!Load(c, Bss)
    BY <1>1, <1>37, <2>2, <2>3, <2>4, <2>5, <2>6, <2>7, <2>8, Loads, SpotsAre
  <2>10. QED BY <2>2, <2>9, NextIs, SpotsAre, ForkAssumption
<1>31. CASE SpawnFails(e)
  <2>1. PICK c \in Envs : c = child[e] /\ c # e
    BY <1>31, Here DEF SpawnFails, Spawning
  <2>2. /\ pc'[e] = "run" /\ pc'[c] = "dead" /\ \A g \in Envs \ {e, c} : pc'[g] = pc[g]
        /\ child'[e] = NoOne /\ stores' = stores
    BY <1>1, <1>31, <2>1 DEF SpawnFails, Return, Event, CtlTypes
  <2>3. \A g \in Envs, v \in VPages : pt'[g][v] = IF g = c THEN NoPte ELSE pt[g][v]
    <3>1. \A g \in Envs, w \in Vas : pt'[g][w] = IF g = c THEN NoPte ELSE pt[g][w]
      BY <1>1, <1>31, <2>1, ClearIs DEF SpawnFails
    <3>2. QED BY <3>1, SpotsAre
  <2>4. Spaces!Die(c)
    BY <1>1, <2>1, <2>2, <2>3, ChildDies
  <2>5. QED BY <2>4, NextIs
<1>32. CASE CopySharedPages(e)
  <2>1. /\ pc[e] = "sp_share" /\ pc' = [pc EXCEPT ![e] = "sp_start"] /\ UNCHANGED <<child, page, stores>>
    BY <1>32 DEF CopySharedPages, At, Goto, Quiet
  <2>2. PICK c \in Envs : c = child[e] /\ c # e
    BY <2>1, Here DEF Spawning
  <2>3. GoesOn(e) /\ pc'[e] = "sp_start"
    BY <1>1, <2>1 DEF GoesOn, CtlTypes, Forking
  <2>4. IF "SHARE" \in pt[e][Shared].perm
        THEN MapEntry(e, Shared, c, Shared, {"W", "SHARE"})
        ELSE UNCHANGED pt
    BY <1>32, <2>2, Entries
  <2>5. CASE "SHARE" \in pt[e][Shared].perm
    <3>1. Spaces!Share(e, c)
      BY <1>1, <2>1, <2>2, <2>3, <2>4, <2>5, Shares
    <3>2. QED BY <3>1, NextIs, SpotsAre, ForkAssumption
  <2>6. CASE "SHARE" \notin pt[e][Shared].perm
    BY <1>1, <2>1, <2>3, <2>4, <2>6, Unseen
  <2>7. QED BY <2>5, <2>6
<1>33. CASE SpawnPanics(e)
  <2>1. /\ pc'[e] \in {"run", "panic"} /\ \A g \in Envs \ {e} : pc'[g] = pc[g]
        /\ child'[e] = NoOne /\ stores' = stores
    BY <1>1, <1>33 DEF SpawnPanics, Panic, Goto, Quiet, Event, Return, CtlTypes
  <2>2. UNCHANGED pt
    BY <1>33 DEF SpawnPanics, Panic
  <2>3. \A g \in Envs, v \in VPages : pt'[g][v] = pt[g][v]
    BY <2>2
  <2>4. QED BY <1>1, <2>1, <2>3, GivesUp, NextIs
<1>34. CASE SpawnDone(e)
  <2>1. pc[e] = "sp_start"
    BY <1>34 DEF SpawnDone, SetRunnable, At
  <2>2. PICK c \in Envs : c = child[e] /\ c # e
    BY <2>1, Here DEF Forking, Spawning
  <2>3. /\ pc'[e] = "run" /\ pc'[c] = "run" /\ \A g \in Envs \ {e, c} : pc'[g] = pc[g]
        /\ child'[e] = NoOne /\ UNCHANGED <<pt, stores>>
    BY <1>1, <1>34, <2>2 DEF SpawnDone, SetRunnable, Return, Quiet, CtlTypes
  <2>4. Spaces!Run(e, c)
    BY <1>1, <2>1, <2>2, <2>3, Runs
  <2>5. QED BY <2>4, NextIs
<1>36. QED
   BY <1>2, <1>3, <1>4, <1>5, <1>6, <1>7, <1>8, <1>9, <1>12,
     <1>13, <1>14, <1>15, <1>16, <1>17, <1>18, <1>19, <1>20, <1>21, <1>22,
     <1>23, <1>24, <1>25, <1>26, <1>27, <1>28, <1>29, <1>30, <1>31, <1>32,
     <1>33, <1>34 DEF StepOf, Program, Handler, ForkStep, SpawnStep

\* The first environment alone has memory, the program's.
LEMMA MapInit == Init => Spaces!Init
<1> SUFFICES ASSUME Init PROVE Spaces!Init
  OBVIOUS
<1>1. CowInv /\ SpaceInv
  BY InitCow, InitSpace
<1>2. /\ MemTypes /\ PteInv /\ LifeInv /\ ChildInv
  BY <1>1 DEF CowInv, TypeInv, LifeInv
<1>3. /\ \A e \in Envs : pc[e] = (IF e = First THEN "run" ELSE "unborn") /\ child[e] = NoOne
      /\ pt = [e \in Envs |-> IF e = First THEN FirstPt ELSE NoPt]
      /\ \A f \in Frames : mem[f] = IF f = 1 THEN 1 ELSE 0
      /\ stores = 0 /\ \A e \in Envs : flt[e] = NoFault
  BY DEF Init
<1>4. statuses = [e \in Envs |-> IF e = First THEN "run" ELSE "free"]
  BY <1>3 DEF statuses, Status
<1>5. makers = [e \in Envs |-> Nobody]
  <2>1. \A e \in Envs : Maker(e) = Nobody
    BY <1>2, <1>3, MakerIs, NothingIs
  <2>2. QED BY <2>1 DEF makers
<1>6. \A e \in Envs \ {First}, v \in VPages : pt[e][v].fr = NoOne /\ pt[e][v].perm = {}
  <2>1. NoPte.fr = NoOne /\ NoPte.perm = {}
    BY DEF NoPte
  <2>2. QED BY <1>3, <2>1, NothingIs, SpotsAre
<1>7. /\ pt[First][Text].fr = 1 /\ pt[First][Bss].fr = 2 /\ pt[First][Shared].fr = 3 /\ pt[First][Stack].fr = 4
      /\ "SHARE" \in pt[First][Shared].perm
  <2>1. /\ FirstPt[Text] = [fr |-> 1, perm |-> {}] /\ FirstPt[Bss] = [fr |-> 2, perm |-> {"W"}]
        /\ FirstPt[Shared] = [fr |-> 3, perm |-> {"W", "SHARE"}] /\ FirstPt[Stack] = [fr |-> 4, perm |-> {"W"}]
    BY NothingIs, PagesAre, SpotsAre DEF FirstPt, Text, Bss, Shared, Stack
  <2>2. QED BY <1>3, <2>1, ForkAssumption
<1>8. contents = [e \in Envs |-> IF e = First THEN [v \in VPages |-> IF v = Text THEN 1 ELSE 0]
                                             ELSE [v \in VPages |-> NoOne]]
  <2>1. \A e \in Envs \ {First}, v \in VPages : Reads(e, v) = NoOne
    BY <1>2, <1>6, SeenIs
  <2>2. \A v \in VPages : Reads(First, v) = IF v = Text THEN 1 ELSE 0
    <3>1. TAKE v \in VPages
    <3>2. First \in Envs /\ NoOne \notin Frames /\ {1, 2, 3, 4} \subseteq Frames
      BY ForkAssumption
    <3>3. ~Pending(First, v) /\ ~Orphan(First)
      BY <1>2, <1>3, <3>2, RunnerSees
    <3>4. v \in {Text, Bss, Shared, Stack} /\ Text \notin {Bss, Shared, Stack}
      BY PagesAre DEF Text, Bss, Shared, Stack
    <3>5. pt[First][v].fr \in Frames /\ (pt[First][v].fr = 1 <=> v = Text)
      BY <1>7, <3>2, <3>4
    <3>6. Reads(First, v) = mem[pt[First][v].fr]
      BY <1>2, <3>2, <3>3, <3>5, SeenIs
    <3>7. QED BY <1>3, <3>5, <3>6
  <2>3. \A e \in Envs : [v \in VPages |-> Reads(e, v)] = IF e = First THEN [v \in VPages |-> IF v = Text THEN 1 ELSE 0]
                                                                    ELSE [v \in VPages |-> NoOne]
    BY <2>1, <2>2
  <2>4. QED BY <2>3 DEF contents
<1>9. sharers = {First}
  <2>1. ~Orphan(First) /\ First \in Envs
    BY <1>3, ForkAssumption DEF Orphan
  <2>2. \A e \in Envs \ {First} : "SHARE" \notin pt[e][Shared].perm
    BY <1>6, SpotsAre
  <2>3. QED BY <1>7, <2>1, <2>2 DEF sharers
<1>10. followers = {}
  <2>1. pt[First][Shared].fr # NoOne
    BY <1>7, ForkAssumption
  <2>2. \A e \in Envs \ {First} : pt[e][Shared].fr # pt[First][Shared].fr
    BY <1>6, <2>1, SpotsAre
  <2>3. QED BY <1>7, <1>9, <2>2 DEF followers, Follows
<1>11. copies = [e \in Envs |-> NoOne]
  <2>1. \A e \in Envs : Held(e) = NoOne
    BY <1>3, NothingIs, HeldNone
  <2>2. QED BY <2>1 DEF copies
<1>12. QED BY <1>3, <1>4, <1>5, <1>8, <1>9, <1>10, <1>11 DEF Spaces!Init, Spaces!NoParent, Spaces!NoPages,
    Nobody

\* Every step of Fork is a step of AddressSpaces, or a stutter.
LEMMA MapStep == CowInv /\ CowInv' /\ SpaceInv /\ [Next]_vars => [Spaces!Next]_Mapped
<1> SUFFICES ASSUME CowInv, CowInv', SpaceInv, [Next]_vars PROVE UNCHANGED Mapped \/ Spaces!Next
  OBVIOUS
<1>1. CASE UNCHANGED vars
  <2>1. UNCHANGED <<pc, child, page, flt, pt, mem, stores>>
    BY <1>1 DEF vars
  <2>2. \A f \in Envs, w \in VPages : Pending(f, w)' <=> Pending(f, w)
    BY <2>1 DEF Pending, Va
  <2>3. \A f \in Envs : Orphan(f)' <=> Orphan(f)
    BY <2>1 DEF Orphan
  <2>4. \A f \in Envs : Maker(f)' = Maker(f) /\ Status(f)' = Status(f)
    BY <2>1 DEF Maker, Status
  <2>5. \A f \in Envs, w \in VPages : Reads(f, w)' = Reads(f, w)
    BY <2>1, <2>2, <2>3 DEF Reads
  <2>6. sharers' = sharers
    BY <2>1, <2>3, ShareSame
  <2>7. followers' = followers
    BY <2>1, <2>2, <2>3, <2>6, SpotsAre DEF followers, Follows
  <2>8. copies' = copies
    BY <2>1 DEF copies, Held
  <2>9. QED BY <2>1, <2>4, <2>5, <2>6, <2>7, <2>8, MakersSame, StatusSame, ReadsSame DEF Mapped
<1>2. CASE Next
  <2>1. PICK e \in Envs : StepOf(e)
    BY <1>2 DEF Next, StepOf
  <2>2. CASE Hush
    <3>1. SpaceInv'
      BY SpaceStep
    <3>2. Seen(e)
      BY <2>1, <3>1, OnlyActor, TouchActor, Alive DEF SpaceInv, Seen
    <3>3. CASE PgfaultCopy(e)
      BY <2>1, <2>2, <3>2, <3>3, FaultCopied, NextIs
    <3>4. CASE PgfaultMap(e)
      BY <2>1, <3>2, <3>4, FaultMapped, FaultDetached, NextIs
    <3>5. CASE Destroyed(e)
      BY <2>1, <2>2, <3>2, <3>5, Destroys, NextIs
    <3>6. QED BY <2>1, <2>2, <3>1, <3>3, <3>4, <3>5, Maps
  <2>3. CASE Stores(e)
    <3>1. PICK va \in VPages, x \in Values : Store(e, va, x)
      BY <2>3 DEF Stores
    <3>2. QED BY <2>1, <3>1, Writes, NextIs
  <2>4. QED BY <2>1, <2>2, <2>3, HushActor
<1>3. QED BY <1>1, <1>2

(* Every environment has a memory of its own: with frames shared           *)
(* copy-on-write, faults in the middle of fork, children that are given up *)
(* and frames used again, fork.c, pgfault.c and spawn.c show each program  *)
(* what AddressSpaces promises, whatever the number of environments.       *)
THEOREM AddressSpacesImplemented == Spec => ImplementsAddressSpaces
<1>1. Init => Spaces!Init
  BY MapInit
<1>2. CowInv /\ CowInv' /\ SpaceInv /\ [Next]_vars => [Spaces!Next]_Mapped
  BY MapStep
<1>3. [Spaces!Next]_Mapped => [Spaces!Next]_(Spaces!vars)
  BY DEF Mapped, Spaces!vars
<1>4. Spec => []CowInv
  BY CowInvariant
<1>5. Spec => []SpaceInv
  BY SpaceInvariant, PTL
<1>6. QED BY <1>1, <1>2, <1>3, <1>4, <1>5, PTL DEF Spec, ImplementsAddressSpaces, Spaces!Spec

=============================================================================
