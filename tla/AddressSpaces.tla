---------------------------- MODULE AddressSpaces ----------------------------
(***************************************************************************)
(* What fork and spawn promise: every environment has a memory of its own. *)
(* A forked child starts with the pages its parent had while it forked, a  *)
(* spawned one with the program's, and from then on a store by one         *)
(* environment is seen by no other, save through the shared page that      *)
(* spawn hands on. fork does not hand it on: parent and child leave the    *)
(* group that shares it, and follow what the group stores there until they *)
(* have taken a copy of their own.                                         *)
(***************************************************************************)
EXTENDS Naturals

CONSTANTS Envs, First, NoOne, VPages, Shared, Values, Image, Start

VARIABLES
  st,     \* "free", "new", "run" or "dead"
  val,    \* val[e][v]: what e reads at page v, NoOne if it has no such page
  by,     \* by[c]: who makes c and how: [env, how], how "fork" or "spawn"
  group,  \* the environments that share the page Shared
  follow, \* those that left the group by fork and have no copy of their own yet
  hold,   \* hold[e]: the copy of Shared that e has taken but not yet put in place
  stores  \* how many stores there were

vars == <<st, val, by, group, follow, hold, stores>>

NoPages == [v \in VPages |-> NoOne]
NoParent == [env |-> NoOne, how |-> "none"]

Init ==
  /\ st = [e \in Envs |-> IF e = First THEN "run" ELSE "free"]
  /\ val = [e \in Envs |-> IF e = First THEN Start ELSE NoPages]
  /\ by = [e \in Envs |-> NoParent]
  /\ group = {First}
  /\ follow = {}
  /\ hold = [e \in Envs |-> NoOne]
  /\ stores = 0

\* Who reads what e stores.
Readers(e, v) == IF v = Shared /\ e \in group THEN group \cup follow ELSE {e}

\* An environment that follows stores to Shared only after it has its copy.
Write(e, v, x) ==
  /\ st[e] = "run" /\ val[e][v] \notin {x, NoOne}
  /\ v = Shared => e \notin follow /\ hold[e] = NoOne
  /\ stores' = stores + 1
  /\ val' = [f \in Envs |-> IF f \in Readers(e, v) THEN [val[f] EXCEPT ![v] = x] ELSE val[f]]
  /\ UNCHANGED <<st, by, group, follow, hold>>

\* The first store of one that follows: it copies the page, and later puts the
\* copy in place, whatever the group has stored meanwhile.
Take(e) ==
  /\ st[e] = "run" /\ e \notin group /\ val[e][Shared] # NoOne
  /\ hold' = [hold EXCEPT ![e] = val[e][Shared]]
  /\ UNCHANGED <<st, val, by, group, follow, stores>>

Detach(e) ==
  /\ hold[e] # NoOne
  /\ val' = [val EXCEPT ![e][Shared] = hold[e]]
  /\ hold' = [hold EXCEPT ![e] = NoOne]
  /\ follow' = follow \ {e}
  /\ UNCHANGED <<st, by, group, stores>>

Create(e, c, how) ==
  /\ st[e] = "run" /\ st[c] = "free"
  /\ st' = [st EXCEPT ![c] = "new"]
  /\ by' = [by EXCEPT ![c] = [env |-> e, how |-> how]]
  /\ UNCHANGED <<val, group, follow, hold, stores>>

\* Nobody follows an empty group.
Following(g, f) == IF g = {} THEN {} ELSE f

\* fork copies a page of the parent. Of a shared page neither keeps a share.
Copy(e, c, v) ==
  /\ st[c] = "new" /\ by[c] = [env |-> e, how |-> "fork"] /\ val[c][v] = NoOne
  /\ val' = [val EXCEPT ![c][v] = val[e][v]]
  /\ group' = IF v = Shared THEN group \ {e} ELSE group
  /\ follow' = IF v = Shared /\ e \in group \cup follow
               THEN Following(group', follow \cup {e, c})
               ELSE follow
  /\ UNCHANGED <<st, by, hold, stores>>

\* spawn loads a page of the program, and hands the shared page on.
Load(c, v) ==
  /\ st[c] = "new" /\ by[c].how = "spawn" /\ val[c][v] = NoOne
  /\ val' = [val EXCEPT ![c][v] = Image[v]]
  /\ UNCHANGED <<st, by, group, follow, hold, stores>>

Share(e, c) ==
  /\ st[c] = "new" /\ by[c] = [env |-> e, how |-> "spawn"] /\ e \in group
  /\ val' = [val EXCEPT ![c][Shared] = val[e][Shared]]
  /\ group' = group \cup {c}
  /\ UNCHANGED <<st, by, follow, hold, stores>>

\* A child runs when it has every page it is to have.
Run(e, c) ==
  /\ st[c] = "new" /\ by[c].env = e
  /\ \A v \in VPages \ {Shared} : val[c][v] # NoOne
  /\ by[c].how = "fork" => (val[e][Shared] = NoOne <=> val[c][Shared] = NoOne)
  /\ by[c].how = "spawn" => (e \in group <=> c \in group)
  /\ st' = [st EXCEPT ![c] = "run"]
  /\ by' = [by EXCEPT ![c] = NoParent]
  /\ UNCHANGED <<val, group, follow, hold, stores>>

\* e is gone (out = {e}) or gives up (out = {}); the child it was making is
\* left without a memory, and never runs.
Leave(e, out) ==
  LET lost == {c \in Envs : by[c].env = e} \cup out
  IN  /\ by' = [c \in Envs |-> IF c \in lost THEN NoParent ELSE by[c]]
      /\ val' = [c \in Envs |-> IF c \in lost THEN NoPages ELSE val[c]]
      /\ group' = group \ lost
      /\ follow' = Following(group', follow \ lost)
      /\ hold' = [c \in Envs |-> IF c \in lost THEN NoOne ELSE hold[c]]
      /\ UNCHANGED stores

GiveUp(e) == (\E c \in Envs : by[c].env = e) /\ Leave(e, {}) /\ UNCHANGED st

Die(e) == st' = [st EXCEPT ![e] = "dead"] /\ Leave(e, {e})

Next ==
  \E e \in Envs :
    \/ \E v \in VPages, x \in Values : Write(e, v, x)
    \/ Take(e) \/ Detach(e)
    \/ \E c \in Envs :
         \/ \E how \in {"fork", "spawn"} : Create(e, c, how)
         \/ \E v \in VPages : Copy(e, c, v)
         \/ Share(e, c)
         \/ Run(e, c)
    \/ \E v \in VPages : Load(e, v)
    \/ GiveUp(e)
    \/ Die(e)

Spec == Init /\ [][Next]_vars

=============================================================================
