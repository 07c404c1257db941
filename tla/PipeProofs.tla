----------------------------- MODULE PipeProofs ------------------------------
(***************************************************************************)
(* Proofs about Pipe, for any number of environments, descriptors and      *)
(* bytes: the ring buffer keeps the stream, the descriptors keep their     *)
(* pairs of pages, and the end that is told that the other is gone is told *)
(* the truth.                                                              *)
(***************************************************************************)
EXTENDS Pipe, FiniteSetTheorems, TLAPS

USE PipeAssumption

Made == {"pipe1", "pipe2", "pipe3"}
Labels ==
  {"idle", "unborn", "built", "dead", "spawn", "close", "dup", "dupfd", "eof", "gone"}
    \cup Made \cup Reading \cup Writing \cup Polling

Places == Fds \cup Envs \cup {NoOne}
Args == [fd : Places, to : Places, then : {"idle", "dup"}]

PcTypes ==
  /\ pc \in [Envs -> Labels]
  /\ calm \in Envs \cup {NoOne}

CallTypes ==
  /\ arg \in [Envs -> Args]
  /\ left \in [Envs -> Int]
  /\ ref \in [Envs -> Nat]

PageTypes ==
  /\ fdm \in [Envs -> [Fds -> Ends \cup {NoOne}]]
  /\ dm \in [Envs -> [Fds -> BOOLEAN]]

BufTypes ==
  /\ byte \in [Envs -> Nat]
  /\ p \in [p_rpos : Nat, p_wpos : Nat, p_buf : [0 .. PIPEBUFSIZ - 1 -> Nat]]
  /\ got \in Seq(Nat)

TypeInv == PcTypes /\ CallTypes /\ PageTypes /\ BufTypes

-----------------------------------------------------------------------------
(* The stream. *)

Alone(labels) == \A e, f \in Envs : pc[e] \in labels /\ pc[f] \in labels => e = f

\* What the one reader and the one writer know between two of their steps.
Hands(e) ==
  /\ pc[e] \in {"take", "taken"} => p.p_rpos < p.p_wpos
  /\ pc[e] = "taken" => byte[e] = p.p_rpos + 1
  /\ pc[e] \in {"store", "stored"} => p.p_wpos < p.p_rpos + PIPEBUFSIZ
  /\ pc[e] = "stored" => p.p_buf[p.p_wpos % PIPEBUFSIZ] = p.p_wpos + 1

StreamInv ==
  /\ Alone(Reading) /\ Alone(Writing)
  /\ p.p_rpos <= p.p_wpos /\ p.p_wpos <= p.p_rpos + PIPEBUFSIZ
  /\ \A e \in Envs : Hands(e)
  /\ StreamIntact

-----------------------------------------------------------------------------
(* The pages. *)

PairedBut(e, ks) == \A k \in Fds \ ks : fdm[e][k] # NoOne <=> dm[e][k]
Once(e, end) == \E k \in Fds : \A j \in Fds : fdm[e][j] = end <=> j = k
Nothing(e) == fdm[e] = NoFd /\ dm[e] = NoData

\* What an environment's pages look like between two of its steps.
Forms(e) ==
  /\ pc[e] \notin Rearranging => PairedBut(e, {})
  /\ pc[e] \in {"unborn", "dead"} => Nothing(e)
  /\ pc[e] = "close" => /\ arg[e].fd \in Fds /\ fdm[e][arg[e].fd] = NoOne
                        /\ PairedBut(e, {arg[e].fd})
                        /\ arg[e].then = "dup" => arg[e].to \in Fds
  /\ pc[e] = "dup" => /\ arg[e].fd \in Fds /\ arg[e].to \in Fds /\ fdm[e][arg[e].to] = NoOne
                      /\ PairedBut(e, {})
  /\ pc[e] = "dupfd" => /\ arg[e].fd \in Fds /\ arg[e].to \in Fds /\ fdm[e][arg[e].to] = NoOne
                        /\ fdm[e][arg[e].fd] # NoOne /\ dm[e][arg[e].to]
                        /\ PairedBut(e, {arg[e].to})
  /\ pc[e] \in Made => Once(e, "rfd")
  /\ pc[e] = "pipe1" => \A k \in Fds : fdm[e][k] # "wfd"
  /\ pc[e] \in {"pipe2", "pipe3"} => Once(e, "wfd")
  /\ pc[e] \in Made => \A k \in Fds : dm[e][k] <=> pc[e] = "pipe3" /\ fdm[e][k] = "rfd"
  /\ pc[e] \in Reading \cup Writing \cup Polling \cup {"eof", "gone"} => 
       arg[e].fd \in Fds /\ fdm[e][arg[e].fd] \in Ends
  /\ pc[e] \in Reading \cup {"eof"} => fdm[e][arg[e].fd] = "rfd"
  /\ pc[e] \in Writing => fdm[e][arg[e].fd] = "wfd"

Builds(e, c) == pc[e] = "spawn" /\ arg[e].to = c

\* A child that is being built has one parent at most, and a pipe that is
\* being made has no other pages.
Makers ==
  /\ \A e \in Envs : pc[e] = "spawn" => arg[e].to \in Envs /\ pc[arg[e].to] = "built"
  /\ \A e, f, c \in Envs : Builds(e, c) /\ Builds(f, c) => e = f
  /\ \A e, f \in Envs : pc[e] \in Made /\ f # e => Nothing(f)

PairInv == (\A e \in Envs : Forms(e)) /\ Makers

-----------------------------------------------------------------------------
(* The counts. *)

Apart(e, f) == \A end \in Ends : ~(Maps(e, end) /\ Maps(f, end))

\* A child that is being built shares ends with its parent alone, and the
\* parent with it alone.
SpawnApart ==
  \A e, f \in Envs : e # f =>
    /\ pc[e] = "built" => Apart(e, f) \/ Builds(f, e)
    /\ pc[e] = "spawn" => Apart(e, f) \/ Builds(e, f)

CalmExact ==
  \A e \in Envs : calm = e =>
    pc[e] \in {"rdata", "wdata", "pdata"} /\ ref[e] = FdRef(fdm[e][arg[e].fd])

CountInv == SpawnApart /\ CalmExact /\ ClosedIsTrue

-----------------------------------------------------------------------------
(* Types. *)

LEMMA NoArgType == NoArg \in Args
  BY DEF NoArg, Args, Places

LEMMA InitTypes == Init => TypeInv
  <1> SUFFICES ASSUME Init
               PROVE  TypeInv
    OBVIOUS
  <1>1. PcTypes
    BY DEF Init, PcTypes, Labels
  <1>2. CallTypes
    BY NoArgType DEF Init, CallTypes
  <1>3. PageTypes
    BY DEF Init, PageTypes, NoFd, NoData
  <1>4. BufTypes
    BY DEF Init, BufTypes
  <1> QED
    BY <1>1, <1>2, <1>3, <1>4 DEF TypeInv

LEMMA CountsNat == DataRef \in Nat /\ \A end : FdRef(end) \in Nat
  <1>1. IsFiniteSet(Fds)
    BY FS_Interval DEF Fds
  <1>2. IsFiniteSet(Envs \X Fds)
    BY <1>1, FS_Product
  <1>3. \A S : S \subseteq Envs \X Fds => Cardinality(S) \in Nat
    BY <1>2, FS_Subset, FS_CardinalityType
  <1> QED
    BY <1>3 DEF DataRef, FdRef

LEMMA AllLabels ==
  /\ {"idle", "unborn", "built", "dead", "spawn", "close", "dup", "dupfd", "eof", "gone"} \subseteq Labels
  /\ {"pipe1", "pipe2", "pipe3"} \subseteq Labels
  /\ {"read", "take", "taken", "rfd", "rdata"} \subseteq Labels
  /\ {"write", "store", "stored", "wfd", "wdata"} \subseteq Labels
  /\ {"pfd", "pdata"} \subseteq Labels
  BY DEF Labels, Made, Reading, Writing, Polling

LEMMA GotoTypes ==
  ASSUME PcTypes, NEW e \in Envs, NEW l \in Labels, Goto(e, l)
  PROVE  PcTypes'
  BY DEF Goto, PcTypes

LEMMA ReturnTypes ==
  ASSUME PcTypes, CallTypes, NEW e \in Envs, Return(e)
  PROVE  PcTypes' /\ CallTypes'
  <1>1. PcTypes'
    BY AllLabels, GotoTypes DEF Return
  <1>2. CallTypes'
    BY NoArgType DEF Return, CallTypes
  <1> QED
    BY <1>1, <1>2

LEMMA PipeTypes ==
  ASSUME TypeInv, NEW e \in Envs,
         PipeFd0(e) \/ PipeFd1(e) \/ PipeData(e) \/ PipeFails(e)
  PROVE  TypeInv'
  <1>1. CASE PipeFd0(e)
    <2>1. PcTypes'
      BY <1>1, AllLabels, GotoTypes DEF TypeInv, PipeFd0
    <2>2. CallTypes'
      BY <1>1 DEF TypeInv, PipeFd0, Stay, CallTypes
    <2>3. PageTypes'
      BY <1>1 DEF TypeInv, PipeFd0, Stay, PageTypes, FdAlloc, Lowest, Ends
    <2>4. BufTypes'
      BY <1>1 DEF TypeInv, PipeFd0, Stay, BufTypes
    <2> QED
      BY <2>1, <2>2, <2>3, <2>4 DEF TypeInv
  <1>2. CASE PipeFd1(e)
    <2>1. PcTypes'
      BY <1>2, AllLabels, GotoTypes DEF TypeInv, PipeFd1
    <2>2. CallTypes'
      BY <1>2 DEF TypeInv, PipeFd1, Stay, CallTypes
    <2>3. PageTypes'
      BY <1>2 DEF TypeInv, PipeFd1, Stay, PageTypes, FdAlloc, Lowest, Ends
    <2>4. BufTypes'
      BY <1>2 DEF TypeInv, PipeFd1, Stay, BufTypes
    <2> QED
      BY <2>1, <2>2, <2>3, <2>4 DEF TypeInv
  <1>3. CASE PipeData(e)
    <2>1. PcTypes'
      BY <1>3, AllLabels, GotoTypes DEF TypeInv, PipeData
    <2>2. CallTypes'
      BY <1>3 DEF TypeInv, PipeData, Stay, CallTypes
    <2>3. PageTypes'
      BY <1>3 DEF TypeInv, PipeData, Stay, PageTypes
    <2>4. BufTypes'
      BY <1>3 DEF TypeInv, PipeData, Stay, BufTypes
    <2> QED
      BY <2>1, <2>2, <2>3, <2>4 DEF TypeInv
  <1>4. CASE PipeFails(e)
    <2>1. PcTypes'
      BY <1>4, AllLabels, GotoTypes DEF TypeInv, PipeFails
    <2>2. CallTypes'
      BY <1>4 DEF TypeInv, PipeFails, Stay, CallTypes
    <2>3. PageTypes'
      BY <1>4 DEF TypeInv, PipeFails, Stay, PageTypes
    <2>4. BufTypes'
      BY <1>4 DEF TypeInv, PipeFails, Stay, BufTypes
    <2> QED
      BY <2>1, <2>2, <2>3, <2>4 DEF TypeInv
  <1> QED
    BY <1>1, <1>2, <1>3, <1>4

LEMMA CloseTypes ==
  ASSUME TypeInv, NEW e \in Envs,
         Close(e) \/ CloseData(e) \/ Killed(e)
  PROVE  TypeInv'
  <1>1. CASE Close(e)
    <2>1. PcTypes'
      BY <1>1, AllLabels, GotoTypes DEF TypeInv, Close
    <2>2. CallTypes'
      BY <1>1 DEF TypeInv, Close, Stay, CallTypes, Open, NoArg, Args, Places
    <2>3. PageTypes'
      BY <1>1 DEF TypeInv, Close, Stay, PageTypes, Open
    <2>4. BufTypes'
      BY <1>1 DEF TypeInv, Close, Stay, BufTypes
    <2> QED
      BY <2>1, <2>2, <2>3, <2>4 DEF TypeInv
  <1>2. CASE CloseData(e)
    <2>1. PcTypes'
      BY <1>2, AllLabels, GotoTypes DEF TypeInv, CloseData, CallTypes, Args
    <2>2. CallTypes'
      BY <1>2, NoArgType DEF TypeInv, CloseData, Stay, CallTypes, AfterClose, Args
    <2>3. PageTypes'
      BY <1>2 DEF TypeInv, CloseData, Stay, PageTypes
    <2>4. BufTypes'
      BY <1>2 DEF TypeInv, CloseData, Stay, BufTypes
    <2> QED
      BY <2>1, <2>2, <2>3, <2>4 DEF TypeInv
  <1>3. CASE Killed(e)
    <2>1. PcTypes'
      BY <1>3, AllLabels DEF TypeInv, Killed, Gone, PcTypes
    <2>2. CallTypes'
      BY <1>3, NoArgType DEF TypeInv, Killed, Gone, CallTypes
    <2>3. PageTypes'
      BY <1>3 DEF TypeInv, Killed, Gone, PageTypes, NoFd, NoData
    <2>4. BufTypes'
      BY <1>3 DEF TypeInv, Killed, Gone, BufTypes
    <2> QED
      BY <2>1, <2>2, <2>3, <2>4 DEF TypeInv
  <1> QED
    BY <1>1, <1>2, <1>3

LEMMA DupTypes ==
  ASSUME TypeInv, NEW e \in Envs, Forms(e),
         Dup(e) \/ DupData(e) \/ DupFd(e) \/ DupFails(e)
  PROVE  TypeInv'
  <1>1. CASE Dup(e)
    <2>1. PcTypes'
      BY <1>1, AllLabels, GotoTypes DEF TypeInv, Dup
    <2>2. CallTypes'
      BY <1>1 DEF TypeInv, Dup, CallTypes, Open, Args, Places
    <2>3. PageTypes'
      BY <1>1, SMTT(30) DEF TypeInv, Dup, PageTypes, Open
    <2>4. BufTypes'
      BY <1>1 DEF TypeInv, Dup, BufTypes
    <2> QED
      BY <2>1, <2>2, <2>3, <2>4 DEF TypeInv
  <1>2. CASE DupData(e)
    <2>1. PcTypes'
      BY <1>2, AllLabels, GotoTypes DEF TypeInv, DupData
    <2>2. CallTypes'
      BY <1>2 DEF TypeInv, DupData, Stay, CallTypes
    <2>3. PageTypes'
      BY <1>2 DEF TypeInv, DupData, Stay, PageTypes
    <2>4. BufTypes'
      BY <1>2 DEF TypeInv, DupData, Stay, BufTypes
    <2> QED
      BY <2>1, <2>2, <2>3, <2>4 DEF TypeInv
  <1>3. CASE DupFd(e)
    <2>1. PcTypes'
      BY <1>3, AllLabels, GotoTypes DEF TypeInv, DupFd
    <2>2. CallTypes'
      BY <1>3, NoArgType DEF TypeInv, DupFd, Stay, CallTypes
    <2>3. PageTypes'
      BY <1>3 DEF TypeInv, DupFd, Stay, PageTypes, Forms
    <2>4. BufTypes'
      BY <1>3 DEF TypeInv, DupFd, Stay, BufTypes
    <2> QED
      BY <2>1, <2>2, <2>3, <2>4 DEF TypeInv
  <1>4. CASE DupFails(e)
    <2>1. PcTypes'
      BY <1>4, AllLabels, GotoTypes DEF TypeInv, DupFails
    <2>2. CallTypes'
      BY <1>4, NoArgType DEF TypeInv, DupFails, Stay, CallTypes
    <2>3. PageTypes'
      BY <1>4 DEF TypeInv, DupFails, Stay, PageTypes
    <2>4. BufTypes'
      BY <1>4 DEF TypeInv, DupFails, Stay, BufTypes
    <2> QED
      BY <2>1, <2>2, <2>3, <2>4 DEF TypeInv
  <1> QED
    BY <1>1, <1>2, <1>3, <1>4

LEMMA SpawnTypes ==
  ASSUME TypeInv, NEW e \in Envs, Makers,
         CopySharedPages(e) \/ Spawned(e) \/ \E c \in Envs : Spawn(e, c)
  PROVE  TypeInv'
  <1>1. CASE CopySharedPages(e)
    <2>1. PcTypes'
      BY <1>1 DEF TypeInv, CopySharedPages, Stay, PcTypes
    <2>2. CallTypes'
      BY <1>1 DEF TypeInv, CopySharedPages, Stay, CallTypes
    <2>3. PageTypes'
      <3> DEFINE c == arg[e].to
      <3>1. PageTypes /\ c \in Envs
        BY <1>1 DEF TypeInv, Makers, CopySharedPages
      <3> HIDE DEF c
      <3>2. CASE \E k \in Open(e) : fdm' = [fdm EXCEPT ![c][k] = fdm[e][k]] /\ dm' = dm
        BY <3>1, <3>2 DEF PageTypes, Open
      <3>3. CASE \E k \in Fds : dm' = [dm EXCEPT ![c][k] = TRUE] /\ fdm' = fdm
        BY <3>1, <3>3 DEF PageTypes
      <3> QED
        BY <1>1, <3>2, <3>3 DEF CopySharedPages, Lowest, c
    <2>4. BufTypes'
      BY <1>1 DEF TypeInv, CopySharedPages, Stay, BufTypes
    <2> QED
      BY <2>1, <2>2, <2>3, <2>4 DEF TypeInv
  <1>2. CASE Spawned(e)
    <2>1. PcTypes'
      BY <1>2, AllLabels DEF TypeInv, Spawned, Stay, PcTypes
    <2>2. CallTypes'
      BY <1>2, NoArgType DEF TypeInv, Spawned, Stay, CallTypes
    <2>3. PageTypes'
      BY <1>2 DEF TypeInv, Spawned, Stay, PageTypes
    <2>4. BufTypes'
      BY <1>2 DEF TypeInv, Spawned, Stay, BufTypes
    <2> QED
      BY <2>1, <2>2, <2>3, <2>4 DEF TypeInv
  <1>3. CASE \E c \in Envs : Spawn(e, c)
    <2>1. PcTypes'
      BY <1>3, AllLabels DEF TypeInv, Spawn, Spawn, PcTypes
    <2>2. CallTypes'
      BY <1>3 DEF TypeInv, Spawn, Stay, CallTypes, Args, Places
    <2>3. PageTypes'
      BY <1>3 DEF TypeInv, Spawn, Stay, PageTypes
    <2>4. BufTypes'
      BY <1>3 DEF TypeInv, Spawn, Stay, BufTypes
    <2> QED
      BY <2>1, <2>2, <2>3, <2>4 DEF TypeInv
  <1> QED
    BY <1>1, <1>2, <1>3

LEMMA CallStartTypes ==
  ASSUME TypeInv, NEW e \in Envs, Read(e) \/ Write(e) \/ Pipeisclosed(e)
  PROVE  TypeInv'
  <1>1. \A k \in Fds : [NoArg EXCEPT !.fd = k] \in Args
    BY DEF NoArg, Args, Places
  <1>2. ASSUME NEW k \in Fds, NEW n \in Nat, NEW l \in Labels, Call(e, k, n, l)
        PROVE  TypeInv'
    <2>1. PcTypes'
      BY <1>2, GotoTypes DEF Call, TypeInv
    <2>2. CallTypes'
      BY <1>1, <1>2 DEF Call, TypeInv, CallTypes
    <2> QED
      BY <1>2, <2>1, <2>2 DEF Call, TypeInv, PageTypes, BufTypes
  <1>3. \A n \in Counts : n \in Nat
    OBVIOUS
  <1> QED
    BY <1>2, <1>3, AllLabels DEF Read, Write, Pipeisclosed, Open

LEMMA Slot == \A i \in Nat : i % PIPEBUFSIZ \in 0 .. PIPEBUFSIZ - 1
  OBVIOUS

LEMMA MoveTypes ==
  ASSUME TypeInv, NEW e \in Envs,
         ReadTest(e) \/ TakeByte(e) \/ IncRpos(e) \/ WriteTest(e) \/ StoreByte(e) \/ IncWpos(e)
  PROVE  TypeInv'
  <1>1. CASE ReadTest(e)
    <2>1. PcTypes'
      BY <1>1, AllLabels, GotoTypes, ReturnTypes DEF TypeInv, ReadTest
    <2>2. CallTypes'
      BY <1>1, ReturnTypes DEF TypeInv, ReadTest, CallTypes
    <2>3. PageTypes'
      BY <1>1 DEF TypeInv, ReadTest, PageTypes
    <2>4. BufTypes'
      BY <1>1 DEF TypeInv, ReadTest, BufTypes
    <2> QED
      BY <2>1, <2>2, <2>3, <2>4 DEF TypeInv
  <1>2. CASE TakeByte(e)
    <2>1. PcTypes'
      BY <1>2, AllLabels, GotoTypes DEF TypeInv, TakeByte
    <2>2. CallTypes'
      BY <1>2 DEF TypeInv, TakeByte, CallTypes
    <2>3. PageTypes'
      BY <1>2 DEF TypeInv, TakeByte, PageTypes
    <2>4. BufTypes'
      BY <1>2, Slot DEF TypeInv, TakeByte, BufTypes
    <2> QED
      BY <2>1, <2>2, <2>3, <2>4 DEF TypeInv
  <1>3. CASE IncRpos(e)
    <2>1. PcTypes'
      BY <1>3, AllLabels, GotoTypes DEF TypeInv, IncRpos
    <2>2. CallTypes'
      BY <1>3 DEF TypeInv, IncRpos, CallTypes
    <2>3. PageTypes'
      BY <1>3 DEF TypeInv, IncRpos, PageTypes
    <2>4. BufTypes'
      <3>1. p' = [p_rpos |-> p.p_rpos + 1, p_wpos |-> p.p_wpos, p_buf |-> p.p_buf]
        BY <1>3 DEF TypeInv, IncRpos, BufTypes
      <3>2. byte' \in [Envs -> Nat] /\ got' \in Seq(Nat)
        BY <1>3 DEF TypeInv, IncRpos, BufTypes
      <3> QED
        BY <3>1, <3>2 DEF TypeInv, BufTypes
    <2> QED
      BY <2>1, <2>2, <2>3, <2>4 DEF TypeInv
  <1>4. CASE WriteTest(e)
    <2>1. PcTypes'
      BY <1>4, AllLabels, GotoTypes, ReturnTypes DEF TypeInv, WriteTest
    <2>2. CallTypes'
      BY <1>4, ReturnTypes DEF TypeInv, WriteTest, CallTypes
    <2>3. PageTypes'
      BY <1>4 DEF TypeInv, WriteTest, PageTypes
    <2>4. BufTypes'
      BY <1>4 DEF TypeInv, WriteTest, BufTypes
    <2> QED
      BY <2>1, <2>2, <2>3, <2>4 DEF TypeInv
  <1>5. CASE StoreByte(e)
    <2>1. PcTypes'
      BY <1>5, AllLabels, GotoTypes DEF TypeInv, StoreByte
    <2>2. CallTypes'
      BY <1>5 DEF TypeInv, StoreByte, CallTypes
    <2>3. PageTypes'
      BY <1>5 DEF TypeInv, StoreByte, PageTypes
    <2>4. BufTypes'
      <3>1. p.p_wpos % PIPEBUFSIZ \in 0 .. PIPEBUFSIZ - 1
        BY Slot DEF TypeInv, BufTypes
      <3>2. p' = [p_rpos |-> p.p_rpos, p_wpos |-> p.p_wpos,
                  p_buf |-> [p.p_buf EXCEPT ![p.p_wpos % PIPEBUFSIZ] = p.p_wpos + 1]]
        BY <1>5 DEF TypeInv, StoreByte, BufTypes
      <3>3. [p.p_buf EXCEPT ![p.p_wpos % PIPEBUFSIZ] = p.p_wpos + 1]
              \in [0 .. PIPEBUFSIZ - 1 -> Nat]
        BY <3>1 DEF TypeInv, BufTypes
      <3>4. byte' \in [Envs -> Nat] /\ got' \in Seq(Nat)
        BY <1>5 DEF TypeInv, BufTypes, StoreByte
      <3> QED
        BY <3>2, <3>3, <3>4 DEF TypeInv, BufTypes
    <2> QED
      BY <2>1, <2>2, <2>3, <2>4 DEF TypeInv
  <1>6. CASE IncWpos(e)
    <2>1. PcTypes'
      BY <1>6, AllLabels, GotoTypes DEF TypeInv, IncWpos
    <2>2. CallTypes'
      BY <1>6 DEF TypeInv, IncWpos, CallTypes
    <2>3. PageTypes'
      BY <1>6 DEF TypeInv, IncWpos, PageTypes
    <2>4. BufTypes'
      <3>1. p' = [p_rpos |-> p.p_rpos, p_wpos |-> p.p_wpos + 1, p_buf |-> p.p_buf]
        BY <1>6 DEF TypeInv, IncWpos, BufTypes
      <3>2. byte' \in [Envs -> Nat] /\ got' \in Seq(Nat)
        BY <1>6 DEF TypeInv, IncWpos, BufTypes
      <3> QED
        BY <3>1, <3>2 DEF TypeInv, BufTypes
    <2> QED
      BY <2>1, <2>2, <2>3, <2>4 DEF TypeInv
  <1> QED
    BY <1>1, <1>2, <1>3, <1>4, <1>5, <1>6

LEMMA CountTypes ==
  ASSUME TypeInv, NEW e \in Envs,
         CountFd(e) \/ CountData(e) \/ RaceAvoided(e) \/ Told(e)
  PROVE  TypeInv'
  <1>1. CASE CountFd(e)
    <2>1. PcTypes'
      BY <1>1, AllLabels, GotoTypes DEF TypeInv, CountFd, DataLabel
    <2>2. CallTypes'
      BY <1>1, CountsNat DEF TypeInv, CountFd, CallTypes
    <2>3. PageTypes'
      BY <1>1 DEF TypeInv, CountFd, PageTypes
    <2>4. BufTypes'
      BY <1>1 DEF TypeInv, CountFd, BufTypes
    <2> QED
      BY <2>1, <2>2, <2>3, <2>4 DEF TypeInv
  <1>2. CASE CountData(e)
    <2>1. PcTypes'
      BY <1>2, AllLabels, GotoTypes, ReturnTypes DEF TypeInv, CountData, LoopLabel
    <2>2. CallTypes'
      BY <1>2, ReturnTypes DEF TypeInv, CountData, CallTypes
    <2>3. PageTypes'
      BY <1>2 DEF TypeInv, CountData, PageTypes
    <2>4. BufTypes'
      BY <1>2 DEF TypeInv, CountData, BufTypes
    <2> QED
      BY <2>1, <2>2, <2>3, <2>4 DEF TypeInv
  <1>3. CASE RaceAvoided(e)
    <2>1. PcTypes'
      BY <1>3, AllLabels, GotoTypes DEF TypeInv, RaceAvoided, FdLabel
    <2>2. CallTypes'
      BY <1>3 DEF TypeInv, RaceAvoided, CallTypes
    <2>3. PageTypes'
      BY <1>3 DEF TypeInv, RaceAvoided, PageTypes
    <2>4. BufTypes'
      BY <1>3 DEF TypeInv, RaceAvoided, BufTypes
    <2> QED
      BY <2>1, <2>2, <2>3, <2>4 DEF TypeInv
  <1>4. CASE Told(e)
    <2>1. PcTypes'
      BY <1>4, AllLabels, GotoTypes, ReturnTypes DEF TypeInv, Told
    <2>2. CallTypes'
      BY <1>4, ReturnTypes DEF TypeInv, Told, CallTypes
    <2>3. PageTypes'
      BY <1>4 DEF TypeInv, Told, PageTypes
    <2>4. BufTypes'
      BY <1>4 DEF TypeInv, Told, BufTypes
    <2> QED
      BY <2>1, <2>2, <2>3, <2>4 DEF TypeInv
  <1> QED
    BY <1>1, <1>2, <1>3, <1>4

LEMMA NextTypes ==
  ASSUME TypeInv, PairInv, Next
  PROVE  TypeInv'
  <1>1. PICK e \in Envs : Step(e) \/ Start(e) \/ Killed(e)
    BY DEF Next
  <1> QED
    BY <1>1, PipeTypes, CloseTypes, DupTypes, SpawnTypes, CallStartTypes, MoveTypes, CountTypes
       DEF Step, Start, PairInv

-----------------------------------------------------------------------------
(* Steps of one environment. *)

\* e moves, and the pages and the places of the others stay as they are;
\* e gets no end that it did not have, or has the pipe for itself.
Local(e) ==
  /\ \A f \in Envs \ {e} :
       pc'[f] = pc[f] /\ arg'[f] = arg[f] /\ fdm'[f] = fdm[f] /\ dm'[f] = dm[f]
  /\ pc[e] # "built" /\ pc'[e] \notin {"built", "spawn"}
  /\ pc[e] = "spawn" => Nothing(e)'
  /\ \/ /\ \A end \in Ends : Maps(e, end)' => Maps(e, end)
        /\ Nothing(e) => Nothing(e)'
        /\ pc'[e] \in Made => pc[e] \in Made
     \/ \A f \in Envs \ {e} : Nothing(f)

LEMMA MadeSomething ==
  ASSUME NEW e \in Envs, Forms(e), pc[e] \in Made
  PROVE  ~Nothing(e)
  BY DEF Forms, Made, Once, Nothing, NoFd

LEMMA LocalPairs ==
  ASSUME PairInv, NEW e \in Envs, Local(e), Forms(e)'
  PROVE  PairInv'
  <1>1. ASSUME NEW f \in Envs \ {e}
        PROVE  Forms(f)'
    <2>1. Forms(f)
      BY DEF PairInv
    <2>2. pc'[f] = pc[f] /\ arg'[f] = arg[f] /\ fdm'[f] = fdm[f] /\ dm'[f] = dm[f]
      BY DEF Local
    <2> QED
      BY <2>1, <2>2 DEF Forms, PairedBut, Nothing, Once
  <1>2. \A f \in Envs : pc'[f] = "spawn" => f # e /\ pc[f] = "spawn" /\ arg'[f] = arg[f]
    BY DEF Local
  <1>3. \A f \in Envs : pc'[f] = "spawn" => arg'[f].to \in Envs /\ pc'[arg'[f].to] = "built"
    BY <1>2 DEF Local, PairInv, Makers
  <1>4. \A f, g, c \in Envs : (Builds(f, c) /\ Builds(g, c))' => f = g
    BY <1>2 DEF Builds, PairInv, Makers
  <1>5. ASSUME NEW f \in Envs, NEW g \in Envs, pc'[f] \in Made, g # f
        PROVE  Nothing(g)'
    <2>1. CASE f = e
      <3>1. Nothing(g)
        BY <1>5, <2>1 DEF Local, PairInv, Makers
      <3> QED
        BY <1>5, <2>1, <3>1 DEF Local, Nothing
    <2>2. CASE f # e
      <3>1. pc[f] \in Made /\ Nothing(g) /\ ~Nothing(f)
        BY <1>5, <2>2, MadeSomething DEF Local, PairInv, Makers
      <3>2. CASE g = e
        BY <2>2, <3>1, <3>2 DEF Local
      <3>3. CASE g # e
        BY <3>1, <3>3 DEF Local, Nothing
      <3> QED
        BY <3>2, <3>3
    <2> QED
      BY <2>1, <2>2
  <1>6. Makers'
    BY <1>3, <1>4, <1>5 DEF Makers
  <1> QED
    BY <1>1, <1>6 DEF PairInv

LEMMA GotoPlaces ==
  ASSUME TypeInv, NEW e \in Envs, NEW l, Goto(e, l)
  PROVE  pc'[e] = l /\ \A f \in Envs \ {e} : pc'[f] = pc[f]
  BY DEF Goto, TypeInv, PcTypes

LEMMA ReturnPlaces ==
  ASSUME TypeInv, NEW e \in Envs, Return(e)
  PROVE  /\ pc'[e] = "idle" /\ \A f \in Envs \ {e} : pc'[f] = pc[f]
         /\ arg'[e] = NoArg /\ \A f \in Envs \ {e} : arg'[f] = arg[f]
         /\ calm' = NoOne
  BY GotoPlaces DEF Return, TypeInv, CallTypes, Goto

\* A step that leaves the pages alone.
LEMMA SamePagesLocal ==
  ASSUME NEW e \in Envs, fdm' = fdm, dm' = dm,
         \A f \in Envs \ {e} : pc'[f] = pc[f] /\ arg'[f] = arg[f],
         pc[e] \notin {"built", "spawn"}, pc'[e] \notin Made \cup {"built", "spawn"}
  PROVE  Local(e)
  BY DEF Local, Maps, Nothing

LEMMA PipeFd0Local ==
  ASSUME TypeInv, PairInv, NEW e \in Envs, PipeFd0(e)
  PROVE  Local(e) /\ Forms(e)'
  <1>1. PICK k \in Fds : fdm' = [fdm EXCEPT ![e][k] = "rfd"]
    BY DEF PipeFd0, FdAlloc, Lowest
  <1>2. dm' = dm /\ arg' = arg /\ \A f \in Envs : Nothing(f)
    BY DEF PipeFd0, Fresh, Stay, Nothing
  <1>3. pc'[e] = "pipe1" /\ \A f \in Envs \ {e} : pc'[f] = pc[f]
    BY GotoPlaces DEF PipeFd0
  <1>4. Local(e)
    BY <1>1, <1>2, <1>3 DEF Local, PipeFd0, TypeInv, PageTypes
  <1>5. fdm'[e] = [NoFd EXCEPT ![k] = "rfd"] /\ dm'[e] = NoData
    BY <1>1, <1>2 DEF Nothing, TypeInv, PageTypes
  <1>6. Once(e, "rfd")'
    BY <1>5 DEF Once, NoFd
  <1>7. Forms(e)'
    BY <1>3, <1>5, <1>6 DEF Forms, Made, Rearranging, NoFd, NoData, Reading, Writing, Polling
  <1> QED
    BY <1>4, <1>7

LEMMA PipeFd1Local ==
  ASSUME TypeInv, PairInv, NEW e \in Envs, PipeFd1(e)
  PROVE  Local(e) /\ Forms(e)'
  <1>1. PICK k \in Fds : fdm[e][k] = NoOne /\ fdm' = [fdm EXCEPT ![e][k] = "wfd"]
    BY DEF PipeFd1, FdAlloc, Lowest
  <1>2. dm' = dm /\ arg' = arg /\ pc[e] = "pipe1" /\ Forms(e)
    BY DEF PipeFd1, Stay, PairInv
  <1>3. pc'[e] = "pipe2" /\ \A f \in Envs \ {e} : pc'[f] = pc[f]
    BY GotoPlaces DEF PipeFd1
  <1>4. \A f \in Envs \ {e} : Nothing(f)
    BY <1>2 DEF PairInv, Makers, Made
  <1>5. Local(e)
    BY <1>1, <1>2, <1>3, <1>4 DEF Local, TypeInv, PageTypes
  <1>6. fdm'[e] = [fdm[e] EXCEPT ![k] = "wfd"] /\ fdm[e] \in [Fds -> Ends \cup {NoOne}]
    BY <1>1 DEF TypeInv, PageTypes
  <1>7. Once(e, "rfd")
    BY <1>2 DEF Forms, Made
  <1>8. Once(e, "rfd")'
    BY <1>1, <1>6, <1>7 DEF Once
  <1>9. Once(e, "wfd")'
    BY <1>2, <1>6 DEF Once, Forms
  <1>10. \A j \in Fds : ~dm[e][j]
    BY <1>2 DEF Forms, Made
  <1>11. Forms(e)'
    BY <1>2, <1>3, <1>8, <1>9, <1>10 DEF Forms, Made, Rearranging, Reading, Writing, Polling
  <1> QED
    BY <1>5, <1>11

LEMMA PipeDataLocal ==
  ASSUME TypeInv, PairInv, NEW e \in Envs, PipeData(e)
  PROVE  Local(e) /\ Forms(e)'
  <1>1. fdm' = fdm /\ arg' = arg /\ pc[e] \in {"pipe2", "pipe3"} /\ Forms(e)
    BY DEF PipeData, Stay, PairInv
  <1>2. PICK k \in Fds : /\ fdm[e][k] = IF pc[e] = "pipe2" THEN "rfd" ELSE "wfd"
                         /\ dm' = [dm EXCEPT ![e][k] = TRUE]
    BY DEF PipeData
  <1>3. /\ pc'[e] = IF pc[e] = "pipe2" THEN "pipe3" ELSE "idle"
        /\ \A f \in Envs \ {e} : pc'[f] = pc[f]
    BY GotoPlaces DEF PipeData
  <1>4. \A f \in Envs \ {e} : Nothing(f)
    BY <1>1 DEF PairInv, Makers, Made
  <1>5. Local(e)
    BY <1>1, <1>2, <1>3, <1>4 DEF Local, TypeInv, PageTypes
  <1>6. dm'[e] = [dm[e] EXCEPT ![k] = TRUE] /\ dm[e] \in [Fds -> BOOLEAN]
    BY <1>2 DEF TypeInv, PageTypes
  <1>7. Once(e, "rfd") /\ Once(e, "wfd")
    BY <1>1 DEF Forms, Made
  <1>8. Once(e, "rfd")' /\ Once(e, "wfd")'
    BY <1>1, <1>7 DEF Once
  <1>9. \A j \in Fds : dm[e][j] <=> pc[e] = "pipe3" /\ fdm[e][j] = "rfd"
    BY <1>1 DEF Forms, Made
  <1>10. CASE pc[e] = "pipe2"
    <2>1. \A j \in Fds : dm'[e][j] <=> fdm[e][j] = "rfd"
      BY <1>2, <1>6, <1>7, <1>9, <1>10 DEF Once
    <2>2. Forms(e)'
      BY <1>1, <1>3, <1>8, <1>10, <2>1 DEF Forms, Made, Rearranging, Reading, Writing, Polling
    <2> QED
      BY <1>5, <2>2
  <1>11. CASE pc[e] = "pipe3"
    <2>1. \A j \in Fds : dm'[e][j] <=> fdm[e][j] = "rfd" \/ fdm[e][j] = "wfd"
      BY <1>2, <1>6, <1>7, <1>9, <1>11 DEF Once
    <2>2. PairedBut(e, {})'
      BY <1>1, <2>1 DEF PairedBut, TypeInv, PageTypes, Ends
    <2>3. Forms(e)'
      BY <1>1, <1>3, <1>11, <2>2 DEF Forms, Made, Rearranging, Reading, Writing, Polling
    <2> QED
      BY <1>5, <2>3
  <1> QED
    BY <1>1, <1>10, <1>11

LEMMA PipeFailsLocal ==
  ASSUME TypeInv, PairInv, NEW e \in Envs, PipeFails(e)
  PROVE  Local(e) /\ Forms(e)'
  <1>1. pc[e] \in Made /\ arg' = arg /\ Forms(e)
    BY DEF PipeFails, PairInv, Made
  <1>2. pc'[e] = "idle" /\ \A f \in Envs \ {e} : pc'[f] = pc[f]
    BY GotoPlaces DEF PipeFails
  <1>3. /\ fdm'[e] = [k \in Fds |-> IF fdm[e][k] = "rfd" \/ (pc[e] # "pipe1" /\ fdm[e][k] = "wfd")
                                    THEN NoOne ELSE fdm[e][k]]
        /\ dm'[e] = [k \in Fds |-> dm[e][k] /\ ~(pc[e] = "pipe3" /\ fdm[e][k] = "rfd")]
        /\ \A f \in Envs \ {e} : fdm'[f] = fdm[f] /\ dm'[f] = dm[f]
    BY DEF PipeFails, TypeInv, PageTypes
  <1>4. \A f \in Envs \ {e} : Nothing(f)
    BY <1>1 DEF PairInv, Makers
  <1>5. Local(e)
    BY <1>1, <1>2, <1>3, <1>4 DEF Local, Made
  <1>6. \A k \in Fds : fdm'[e][k] = NoOne /\ ~dm'[e][k]
    <2>1. pc[e] = "pipe1" => \A k \in Fds : fdm[e][k] # "wfd"
      BY <1>1 DEF Forms
    <2>2. \A k \in Fds : dm[e][k] <=> pc[e] = "pipe3" /\ fdm[e][k] = "rfd"
      BY <1>1 DEF Forms
    <2>3. \A k \in Fds : fdm[e][k] \in {"rfd", "wfd", NoOne}
      BY DEF TypeInv, PageTypes, Ends
    <2>4. \A k \in Fds : fdm'[e][k] = NoOne
      BY <1>3, <2>1, <2>3
    <2>5. \A k \in Fds : ~dm'[e][k]
      BY <1>3, <2>2
    <2> QED
      BY <2>4, <2>5
  <1>7. Forms(e)'
    BY <1>2, <1>6 DEF Forms, PairedBut, Made, Rearranging, Reading, Writing, Polling
  <1> QED
    BY <1>5, <1>7

LEMMA CloseLocal ==
  ASSUME TypeInv, PairInv, NEW e \in Envs, Close(e)
  PROVE  Local(e) /\ Forms(e)'
  <1>1. PICK k \in Fds : /\ fdm' = [fdm EXCEPT ![e][k] = NoOne]
                         /\ arg' = [arg EXCEPT ![e] = [NoArg EXCEPT !.fd = k]]
    BY DEF Close, Open
  <1>2. dm' = dm /\ pc[e] = "idle" /\ Forms(e)
    BY DEF Close, Stay, PairInv
  <1>3. pc'[e] = "close" /\ \A f \in Envs \ {e} : pc'[f] = pc[f]
    BY GotoPlaces DEF Close
  <1>4. /\ fdm'[e] = [fdm[e] EXCEPT ![k] = NoOne] /\ fdm[e] \in [Fds -> Ends \cup {NoOne}]
        /\ arg'[e] = [fd |-> k, to |-> NoOne, then |-> "idle"]
        /\ \A f \in Envs \ {e} : fdm'[f] = fdm[f] /\ arg'[f] = arg[f]
    BY <1>1 DEF TypeInv, PageTypes, CallTypes, NoArg
  <1>5. fdm'[e][k] = NoOne /\ \A j \in Fds \ {k} : fdm'[e][j] = fdm[e][j]
    BY <1>4
  <1>6. Nothing(e) => Nothing(e)'
    BY <1>2, <1>4 DEF Nothing, NoFd
  <1>7. Local(e)
    BY <1>2, <1>3, <1>4, <1>5, <1>6 DEF Local, Maps, Ends, Made
  <1>8. PairedBut(e, {arg[e].fd})'
    BY <1>2, <1>4, <1>5 DEF Forms, PairedBut, Rearranging
  <1>9. Forms(e)'
    BY <1>3, <1>4, <1>5, <1>8 DEF Forms, Rearranging, Made, Reading, Writing, Polling
  <1> QED
    BY <1>7, <1>9

LEMMA CloseDataLocal ==
  ASSUME TypeInv, PairInv, NEW e \in Envs, CloseData(e)
  PROVE  Local(e) /\ Forms(e)'
  <1>1. fdm' = fdm /\ pc[e] = "close" /\ Forms(e)
    BY DEF CloseData, Stay, PairInv
  <1>2. /\ arg[e].fd \in Fds /\ fdm[e][arg[e].fd] = NoOne /\ PairedBut(e, {arg[e].fd})
        /\ arg[e].then = "dup" => arg[e].to \in Fds
    BY <1>1 DEF Forms
  <1>3. pc'[e] = arg[e].then /\ \A f \in Envs \ {e} : pc'[f] = pc[f]
    BY GotoPlaces DEF CloseData
  <1>4. arg[e].then \in {"idle", "dup"}
    BY DEF TypeInv, CallTypes, Args
  <1>5. /\ dm'[e] = [dm[e] EXCEPT ![arg[e].fd] = FALSE] /\ dm[e] \in [Fds -> BOOLEAN]
        /\ arg'[e] = AfterClose(arg[e])
        /\ \A f \in Envs \ {e} : dm'[f] = dm[f] /\ arg'[f] = arg[f]
    BY DEF CloseData, TypeInv, PageTypes, CallTypes
  <1>6. Nothing(e) => Nothing(e)'
    BY <1>1, <1>5 DEF Nothing, NoData
  <1>7. Local(e)
    BY <1>1, <1>3, <1>4, <1>5, <1>6 DEF Local, Maps, Made
  <1>8. PairedBut(e, {})'
    BY <1>1, <1>2, <1>5 DEF PairedBut
  <1>9. CASE arg[e].then = "idle"
    BY <1>3, <1>7, <1>8, <1>9 DEF Forms, Rearranging, Made, Reading, Writing, Polling
  <1>10. CASE arg[e].then = "dup"
    <2>1. arg'[e] = [fd |-> arg[e].to, to |-> arg[e].fd, then |-> "idle"]
      BY <1>5, <1>10 DEF AfterClose
    <2> QED
      BY <1>1, <1>2, <1>3, <1>7, <1>8, <1>10, <2>1
         DEF Forms, Rearranging, Made, Reading, Writing, Polling
  <1> QED
    BY <1>4, <1>9, <1>10

LEMMA KilledLocal ==
  ASSUME TypeInv, PairInv, NEW e \in Envs, Killed(e)
  PROVE  Local(e) /\ Forms(e)'
  <1>1. /\ pc'[e] = "dead" /\ fdm'[e] = NoFd /\ dm'[e] = NoData /\ pc[e] # "built"
        /\ \A f \in Envs \ {e} :
             pc'[f] = pc[f] /\ arg'[f] = arg[f] /\ fdm'[f] = fdm[f] /\ dm'[f] = dm[f]
    BY DEF Killed, Gone, TypeInv, PcTypes, CallTypes, PageTypes
  <1>2. Local(e)
    BY <1>1 DEF Local, Maps, NoFd, Ends, Nothing, Made
  <1>3. Nothing(e)' /\ PairedBut(e, {})'
    BY <1>1 DEF Nothing, PairedBut, NoFd, NoData
  <1>4. Forms(e)'
    BY <1>1, <1>3 DEF Forms, Rearranging, Made, Reading, Writing, Polling
  <1> QED
    BY <1>2, <1>4

LEMMA DupLocal ==
  ASSUME TypeInv, PairInv, NEW e \in Envs, Dup(e)
  PROVE  Local(e) /\ Forms(e)'
  <1>1. dm' = dm /\ pc[e] = "idle" /\ Forms(e) /\ PairedBut(e, {})
    BY DEF Dup, PairInv, Forms, Rearranging
  <1>2. PICK old \in Fds, new \in Fds :
          IF new \in Open(e)
          THEN /\ fdm' = [fdm EXCEPT ![e][new] = NoOne]
               /\ arg' = [arg EXCEPT ![e] = [fd |-> new, to |-> old, then |-> "dup"]]
               /\ Goto(e, "close")
          ELSE /\ arg' = [arg EXCEPT ![e] = [fd |-> old, to |-> new, then |-> "idle"]]
               /\ Goto(e, "dup")
               /\ UNCHANGED fdm
    BY DEF Dup, Open
  <1>3. CASE new \in Open(e)
    <2>1. pc'[e] = "close" /\ \A f \in Envs \ {e} : pc'[f] = pc[f]
      BY <1>2, <1>3, GotoPlaces
    <2>2. /\ fdm'[e] = [fdm[e] EXCEPT ![new] = NoOne] /\ fdm[e] \in [Fds -> Ends \cup {NoOne}]
          /\ arg'[e] = [fd |-> new, to |-> old, then |-> "dup"]
          /\ \A f \in Envs \ {e} : fdm'[f] = fdm[f] /\ arg'[f] = arg[f]
      BY <1>2, <1>3 DEF TypeInv, PageTypes, CallTypes
    <2>3. fdm'[e][new] = NoOne /\ \A j \in Fds \ {new} : fdm'[e][j] = fdm[e][j]
      BY <2>2
    <2>4. Nothing(e) => Nothing(e)'
      BY <1>1, <2>2 DEF Nothing, NoFd
    <2>5. Local(e)
      BY <1>1, <2>1, <2>2, <2>3, <2>4 DEF Local, Maps, Ends, Made
    <2>6. PairedBut(e, {arg[e].fd})'
      BY <1>1, <2>2, <2>3 DEF PairedBut
    <2>7. Forms(e)'
      BY <2>1, <2>2, <2>3, <2>6 DEF Forms, Rearranging, Made, Reading, Writing, Polling
    <2> QED
      BY <2>5, <2>7
  <1>4. CASE new \notin Open(e)
    <2>1. pc'[e] = "dup" /\ fdm' = fdm /\ \A f \in Envs \ {e} : pc'[f] = pc[f]
      BY <1>2, <1>4, GotoPlaces
    <2>2. /\ arg'[e] = [fd |-> old, to |-> new, then |-> "idle"]
          /\ \A f \in Envs \ {e} : arg'[f] = arg[f]
      BY <1>2, <1>4 DEF TypeInv, CallTypes
    <2>3. Local(e)
      BY <1>1, <2>1, <2>2, SamePagesLocal DEF Made
    <2>4. PairedBut(e, {})'
      BY <1>1, <2>1 DEF PairedBut
    <2>5. fdm[e][new] = NoOne
      BY <1>4 DEF Open
    <2>6. Forms(e)'
      BY <2>1, <2>2, <2>4, <2>5 DEF Forms, Rearranging, Made, Reading, Writing, Polling
    <2> QED
      BY <2>3, <2>6
  <1> QED
    BY <1>3, <1>4

LEMMA DupDataLocal ==
  ASSUME TypeInv, PairInv, NEW e \in Envs, DupData(e)
  PROVE  Local(e) /\ Forms(e)'
  <1>1. fdm' = fdm /\ arg' = arg /\ pc[e] = "dup" /\ dm[e][arg[e].fd]
    BY DEF DupData, Stay
  <1>2. /\ arg[e].fd \in Fds /\ arg[e].to \in Fds /\ fdm[e][arg[e].to] = NoOne
        /\ PairedBut(e, {})
    BY <1>1 DEF PairInv, Forms
  <1>3. pc'[e] = "dupfd" /\ \A f \in Envs \ {e} : pc'[f] = pc[f]
    BY GotoPlaces DEF DupData
  <1>4. /\ dm'[e] = [dm[e] EXCEPT ![arg[e].to] = TRUE] /\ dm[e] \in [Fds -> BOOLEAN]
        /\ \A f \in Envs \ {e} : dm'[f] = dm[f]
    BY DEF DupData, TypeInv, PageTypes
  <1>5. fdm[e][arg[e].fd] # NoOne
    BY <1>1, <1>2 DEF PairedBut
  <1>6. Local(e)
    BY <1>1, <1>2, <1>3, <1>4, <1>5 DEF Local, Maps, Nothing, NoFd, Made
  <1>7. PairedBut(e, {arg[e].to})' /\ dm'[e][arg[e].to]
    BY <1>1, <1>2, <1>4 DEF PairedBut
  <1>8. Forms(e)'
    BY <1>1, <1>2, <1>3, <1>5, <1>7 DEF Forms, Rearranging, Made, Reading, Writing, Polling
  <1> QED
    BY <1>6, <1>8

LEMMA DupFdLocal ==
  ASSUME TypeInv, PairInv, NEW e \in Envs, DupFd(e)
  PROVE  Local(e) /\ Forms(e)'
  <1>1. dm' = dm /\ pc[e] = "dupfd"
    BY DEF DupFd, Stay
  <1>2. /\ arg[e].fd \in Fds /\ arg[e].to \in Fds /\ fdm[e][arg[e].fd] # NoOne
        /\ dm[e][arg[e].to] /\ PairedBut(e, {arg[e].to})
    BY <1>1 DEF PairInv, Forms
  <1>3. pc'[e] = "idle" /\ \A f \in Envs \ {e} : pc'[f] = pc[f]
    BY GotoPlaces DEF DupFd
  <1>4. /\ fdm'[e] = [fdm[e] EXCEPT ![arg[e].to] = fdm[e][arg[e].fd]]
        /\ fdm[e] \in [Fds -> Ends \cup {NoOne}]
        /\ \A f \in Envs \ {e} : fdm'[f] = fdm[f] /\ arg'[f] = arg[f]
    BY DEF DupFd, TypeInv, PageTypes, CallTypes
  <1>5. /\ fdm'[e][arg[e].to] = fdm[e][arg[e].fd]
        /\ \A j \in Fds \ {arg[e].to} : fdm'[e][j] = fdm[e][j]
    BY <1>2, <1>4
  <1>6. Local(e)
    BY <1>1, <1>2, <1>3, <1>4, <1>5 DEF Local, Maps, Nothing, NoFd, Made
  <1>7. PairedBut(e, {})'
    BY <1>1, <1>2, <1>5 DEF PairedBut
  <1>8. Forms(e)'
    BY <1>3, <1>7 DEF Forms, Rearranging, Made, Reading, Writing, Polling
  <1> QED
    BY <1>6, <1>8

LEMMA DupFailsLocal ==
  ASSUME TypeInv, PairInv, NEW e \in Envs, DupFails(e)
  PROVE  Local(e) /\ Forms(e)'
  <1>1. pc[e] \in {"dup", "dupfd"} /\ Forms(e)
    BY DEF DupFails, PairInv
  <1>2. arg[e].to \in Fds /\ PairedBut(e, {arg[e].to})
    BY <1>1 DEF Forms, PairedBut
  <1>3. pc'[e] = "idle" /\ \A f \in Envs \ {e} : pc'[f] = pc[f]
    BY GotoPlaces DEF DupFails
  <1>4. /\ fdm'[e] = [fdm[e] EXCEPT ![arg[e].to] = NoOne]
        /\ dm'[e] = [dm[e] EXCEPT ![arg[e].to] = FALSE]
        /\ \A f \in Envs \ {e} : fdm'[f] = fdm[f] /\ arg'[f] = arg[f] /\ dm'[f] = dm[f]
    BY DEF DupFails, TypeInv, PageTypes, CallTypes
  <1>5. fdm[e] \in [Fds -> Ends \cup {NoOne}] /\ dm[e] \in [Fds -> BOOLEAN]
    BY DEF TypeInv, PageTypes
  <1>6. /\ fdm'[e][arg[e].to] = NoOne /\ ~dm'[e][arg[e].to]
        /\ \A j \in Fds \ {arg[e].to} : fdm'[e][j] = fdm[e][j] /\ dm'[e][j] = dm[e][j]
    BY <1>2, <1>4, <1>5
  <1>7. Nothing(e) => Nothing(e)'
    BY <1>4 DEF Nothing, NoFd, NoData
  <1>8. Local(e)
    BY <1>1, <1>3, <1>4, <1>6, <1>7 DEF Local, Maps, Ends, Made
  <1>9. PairedBut(e, {})'
    BY <1>2, <1>6 DEF PairedBut
  <1>10. Forms(e)'
    BY <1>3, <1>9 DEF Forms, Rearranging, Made, Reading, Writing, Polling
  <1> QED
    BY <1>8, <1>10

-----------------------------------------------------------------------------
(* read, write and pipeisclosed. *)

Using == Reading \cup Writing \cup Polling \cup {"eof", "gone"}

\* A call goes on with the descriptor it has.
GoesOn(e, l) ==
  /\ Goto(e, l) /\ arg' = arg
  /\ \/ pc[e] \in Reading /\ l \in Reading \cup {"eof"}
     \/ pc[e] \in Writing /\ l \in Writing \cup {"gone"}
     \/ pc[e] \in Polling /\ l \in Polling \cup {"gone"}

LEMMA UsingIs ==
  /\ Using \cap (Rearranging \cup Made \cup {"idle", "unborn", "built", "dead", "spawn"}) = {}
  /\ Reading \cap (Writing \cup Polling \cup {"eof", "gone"}) = {}
  /\ Writing \cap (Polling \cup {"eof", "gone"}) = {} /\ Polling \cap {"eof", "gone"} = {}
  BY DEF Using, Reading, Writing, Polling, Rearranging, Made

LEMMA UsingForms ==
  ASSUME NEW e \in Envs, PairedBut(e, {}), fdm' = fdm, dm' = dm, pc'[e] \in Using,
         arg'[e].fd \in Fds, fdm[e][arg'[e].fd] \in Ends,
         pc'[e] \in Reading \cup {"eof"} => fdm[e][arg'[e].fd] = "rfd",
         pc'[e] \in Writing => fdm[e][arg'[e].fd] = "wfd"
  PROVE  Forms(e)'
  <1>1. PairedBut(e, {})'
    BY DEF PairedBut
  <1>2. pc'[e] \notin Rearranging \cup Made \cup {"unborn", "dead"}
    BY UsingIs
  <1> QED
    BY <1>1, <1>2 DEF Forms, Rearranging, Made

LEMMA IdleForms ==
  ASSUME NEW e \in Envs, PairedBut(e, {}), fdm' = fdm, dm' = dm, pc'[e] = "idle"
  PROVE  Forms(e)'
  <1>1. PairedBut(e, {})'
    BY DEF PairedBut
  <1> QED
    BY <1>1 DEF Forms, Rearranging, Made, Reading, Writing, Polling

LEMMA CallLocal ==
  ASSUME TypeInv, PairInv, NEW e \in Envs, Read(e) \/ Write(e) \/ Pipeisclosed(e)
  PROVE  Local(e) /\ Forms(e)'
  <1>1. PICK k \in Fds, n \in Counts \cup {0}, l \in {"read", "write", "pfd"} :
          /\ Call(e, k, n, l) /\ fdm[e][k] # NoOne
          /\ l = "read" => fdm[e][k] = "rfd"
          /\ l = "write" => fdm[e][k] = "wfd"
    BY DEF Read, Write, Pipeisclosed, Open
  <1>2. fdm' = fdm /\ dm' = dm /\ pc[e] = "idle"
    BY <1>1 DEF Call
  <1>3. pc'[e] = l /\ \A f \in Envs \ {e} : pc'[f] = pc[f]
    BY <1>1, GotoPlaces DEF Call
  <1>4. arg'[e].fd = k /\ \A f \in Envs \ {e} : arg'[f] = arg[f]
    BY <1>1 DEF Call, TypeInv, CallTypes, NoArg
  <1>5. PairedBut(e, {})
    BY <1>2 DEF PairInv, Forms, Rearranging
  <1>6. fdm[e][k] \in Ends
    BY <1>1 DEF TypeInv, PageTypes
  <1>7. /\ l \in Using /\ l \notin Made \cup {"built", "spawn"}
        /\ l \in Reading \cup {"eof"} => l = "read"
        /\ l \in Writing => l = "write"
    BY <1>1 DEF Using, Reading, Writing, Polling, Made
  <1>8. Forms(e)'
    BY <1>1, <1>2, <1>3, <1>4, <1>5, <1>6, <1>7, UsingForms
  <1>9. Local(e)
    BY <1>2, <1>3, <1>4, <1>7, SamePagesLocal
  <1> QED
    BY <1>8, <1>9

Moves(e) ==
  \/ ReadTest(e) \/ TakeByte(e) \/ IncRpos(e) \/ WriteTest(e) \/ StoreByte(e) \/ IncWpos(e)
  \/ CountFd(e) \/ CountData(e) \/ RaceAvoided(e) \/ Told(e)

LEMMA MovesGoOn ==
  ASSUME NEW e \in Envs, Moves(e)
  PROVE  /\ fdm' = fdm /\ dm' = dm /\ pc[e] \in Using
         /\ Return(e) \/ \E l : GoesOn(e, l)
  <1>1. CASE ReadTest(e)
    BY <1>1 DEF ReadTest, GoesOn, Using, Reading
  <1>2. CASE TakeByte(e)
    BY <1>2 DEF TakeByte, GoesOn, Using, Reading
  <1>3. CASE IncRpos(e)
    BY <1>3 DEF IncRpos, GoesOn, Using, Reading
  <1>4. CASE WriteTest(e)
    BY <1>4 DEF WriteTest, GoesOn, Using, Writing
  <1>5. CASE StoreByte(e)
    BY <1>5 DEF StoreByte, GoesOn, Using, Writing
  <1>6. CASE IncWpos(e)
    BY <1>6 DEF IncWpos, GoesOn, Using, Writing
  <1>7. CASE CountFd(e)
    BY <1>7 DEF CountFd, GoesOn, Using, Reading, Writing, Polling, DataLabel
  <1>8. CASE CountData(e)
    BY <1>8 DEF CountData, GoesOn, Using, Reading, Writing, Polling, LoopLabel
  <1>9. CASE RaceAvoided(e)
    BY <1>9 DEF RaceAvoided, GoesOn, Using, Reading, Writing, Polling, FdLabel
  <1>10. CASE Told(e)
    BY <1>10 DEF Told, Using
  <1> QED
    BY <1>1, <1>2, <1>3, <1>4, <1>5, <1>6, <1>7, <1>8, <1>9, <1>10 DEF Moves

LEMMA MovesLocal ==
  ASSUME TypeInv, PairInv, NEW e \in Envs, Moves(e)
  PROVE  Local(e) /\ Forms(e)'
  <1>1. fdm' = fdm /\ dm' = dm /\ pc[e] \in Using /\ Forms(e)
    BY MovesGoOn DEF PairInv
  <1>2. PairedBut(e, {}) /\ pc[e] \notin {"built", "spawn"}
    BY <1>1, UsingIs DEF Forms
  <1>3. CASE Return(e)
    <2>1. Forms(e)'
      BY <1>1, <1>2, <1>3, ReturnPlaces, IdleForms
    <2>2. Local(e)
      BY <1>1, <1>2, <1>3, ReturnPlaces, SamePagesLocal DEF Made
    <2> QED
      BY <2>1, <2>2
  <1>4. CASE \E l : GoesOn(e, l)
    <2>1. PICK l : GoesOn(e, l)
      BY <1>4
    <2>2. pc'[e] = l /\ (\A f \in Envs \ {e} : pc'[f] = pc[f]) /\ arg' = arg
      BY <2>1, GotoPlaces DEF GoesOn
    <2>3. /\ l \in Using /\ l \notin Made \cup {"built", "spawn"}
          /\ l \in Reading \cup {"eof"} => pc[e] \in Reading
          /\ l \in Writing => pc[e] \in Writing
      BY <2>1, UsingIs DEF GoesOn, Using
    <2>4. Forms(e)'
      BY <1>1, <1>2, <2>2, <2>3, UsingForms DEF Forms, Using
    <2>5. Local(e)
      BY <1>1, <1>2, <2>2, <2>3, SamePagesLocal
    <2> QED
      BY <2>4, <2>5
  <1> QED
    BY <1>3, <1>4, MovesGoOn

LocalSteps(e) ==
  \/ PipeFd0(e) \/ PipeFd1(e) \/ PipeData(e) \/ PipeFails(e) \/ Close(e) \/ CloseData(e)
  \/ Dup(e) \/ DupData(e) \/ DupFd(e) \/ DupFails(e)
  \/ Read(e) \/ Write(e) \/ Pipeisclosed(e) \/ Moves(e) \/ Killed(e)

LEMMA StepsLocal ==
  ASSUME TypeInv, PairInv, NEW e \in Envs, LocalSteps(e)
  PROVE  Local(e) /\ Forms(e)'
  BY PipeFd0Local, PipeFd1Local, PipeDataLocal, PipeFailsLocal, CloseLocal, CloseDataLocal,
     DupLocal, DupDataLocal, DupFdLocal, DupFailsLocal, CallLocal, MovesLocal, KilledLocal
     DEF LocalSteps

\* What is left are the steps of spawn.
SpawnSteps(e) == CopySharedPages(e) \/ Spawned(e) \/ \E c \in Envs : Spawn(e, c)

LEMMA NextIs ==
  ASSUME Next
  PROVE  \E e \in Envs : LocalSteps(e) \/ SpawnSteps(e)
  BY DEF Next, Step, Start, LocalSteps, SpawnSteps, Moves

-----------------------------------------------------------------------------
(* spawn. *)

\* e and the child c move, whose pages alone change; c gets what e has.
ParentOf(e, c) ==
  /\ e # c /\ c \in Envs /\ arg[e].to = c /\ pc[e] = "spawn" /\ pc[c] = "built"
  /\ \A f \in Envs \ {e} : ~Builds(f, c)

LEMMA SpawnParent ==
  ASSUME PairInv, NEW e \in Envs, pc[e] = "spawn"
  PROVE  ParentOf(e, arg[e].to) /\ PairedBut(e, {})
  <1>1. arg[e].to \in Envs /\ pc[arg[e].to] = "built"
    BY DEF PairInv, Makers
  <1>2. \A f \in Envs \ {e} : ~Builds(f, arg[e].to)
    BY <1>1 DEF PairInv, Makers, Builds
  <1>3. PairedBut(e, {})
    BY DEF PairInv, Forms, Rearranging
  <1> QED
    BY <1>1, <1>2, <1>3 DEF ParentOf

\* What copy_shared_pages does to the child's page table.
Copies(e, c) ==
  /\ pc' = pc /\ arg' = arg /\ calm' = NoOne
  /\ \A f \in Envs \ {c} : fdm'[f] = fdm[f] /\ dm'[f] = dm[f]
  /\ \A k \in Fds : fdm'[c][k] \in {fdm[c][k], fdm[e][k]}
  /\ ~Nothing(e)

LEMMA CopyCopies ==
  ASSUME TypeInv, PairInv, NEW e \in Envs, CopySharedPages(e)
  PROVE  ParentOf(e, arg[e].to) /\ Copies(e, arg[e].to)
  <1> DEFINE c == arg[e].to
  <1>1. ParentOf(e, c)
    BY SpawnParent DEF CopySharedPages
  <1>2. c \in Envs /\ PageTypes
    BY <1>1 DEF ParentOf, TypeInv
  <1>3. pc' = pc /\ arg' = arg /\ calm' = NoOne
    BY DEF CopySharedPages, Stay
  <1>4. \/ \E k \in Open(e) : fdm' = [fdm EXCEPT ![c][k] = fdm[e][k]] /\ dm' = dm
        \/ \E k \in Fds : dm[e][k] /\ dm' = [dm EXCEPT ![c][k] = TRUE] /\ fdm' = fdm
    BY DEF CopySharedPages, Lowest
  <1> HIDE DEF c
  <1>5. CASE \E k \in Open(e) : fdm' = [fdm EXCEPT ![c][k] = fdm[e][k]] /\ dm' = dm
    <2>1. PICK k \in Open(e) : fdm' = [fdm EXCEPT ![c][k] = fdm[e][k]] /\ dm' = dm
      BY <1>5
    <2>2. k \in Fds /\ fdm[e][k] # NoOne
      BY DEF Open
    <2>3. ~Nothing(e)
      BY <2>2 DEF Nothing, NoFd
    <2>4. \A f \in Envs \ {c} : fdm'[f] = fdm[f] /\ dm'[f] = dm[f]
      BY <1>2, <2>1 DEF PageTypes
    <2>5. \A j \in Fds : fdm'[c][j] \in {fdm[c][j], fdm[e][j]}
      BY <1>2, <2>1 DEF PageTypes
    <2> QED
      BY <1>1, <1>3, <2>3, <2>4, <2>5 DEF Copies, c
  <1>6. CASE \E k \in Fds : dm[e][k] /\ dm' = [dm EXCEPT ![c][k] = TRUE] /\ fdm' = fdm
    <2>1. PICK k \in Fds : dm[e][k] /\ dm' = [dm EXCEPT ![c][k] = TRUE] /\ fdm' = fdm
      BY <1>6
    <2>2. ~Nothing(e)
      BY <2>1 DEF Nothing, NoData
    <2>3. \A f \in Envs \ {c} : fdm'[f] = fdm[f] /\ dm'[f] = dm[f]
      BY <1>2, <2>1 DEF PageTypes
    <2> QED
      BY <1>1, <1>3, <2>1, <2>2, <2>3 DEF Copies, c
  <1> QED
    BY <1>4, <1>5, <1>6

LEMMA BuiltForms ==
  ASSUME NEW c \in Envs, pc[c] = "built"
  PROVE  Forms(c)
  BY DEF Forms, Rearranging, Made, Reading, Writing, Polling

LEMMA SameForms ==
  ASSUME NEW f \in Envs, Forms(f), pc'[f] = pc[f], arg'[f] = arg[f],
         fdm'[f] = fdm[f], dm'[f] = dm[f]
  PROVE  Forms(f)'
  BY DEF Forms, PairedBut, Nothing, Once

LEMMA CopyPairs ==
  ASSUME TypeInv, PairInv, NEW e \in Envs, CopySharedPages(e)
  PROVE  PairInv'
  <1> DEFINE c == arg[e].to
  <1>1. ParentOf(e, c) /\ Copies(e, c)
    BY CopyCopies
  <1> HIDE DEF c
  <1>2. c \in Envs /\ pc' = pc /\ arg' = arg
    BY <1>1 DEF ParentOf, Copies
  <1>3. ASSUME NEW f \in Envs
        PROVE  Forms(f)'
    <2>1. CASE f = c
      <3>1. pc'[c] = "built"
        BY <1>1 DEF ParentOf, Copies
      <3> QED
        BY <1>2, <2>1, <3>1 DEF Forms, Rearranging, Made, Reading, Writing, Polling
    <2>2. CASE f # c
      BY <1>1, <1>2, <2>2, SameForms DEF Copies, PairInv
    <2> QED
      BY <2>1, <2>2
  <1>4. \A f, g \in Envs : pc[f] \in Made /\ g # f => Nothing(g)'
    <2>1. ASSUME NEW f \in Envs, pc[f] \in Made
          PROVE  FALSE
      <3>1. f # e /\ ~Nothing(e)
        BY <1>1, <2>1 DEF ParentOf, Made, Copies
      <3> QED
        BY <2>1, <3>1 DEF PairInv, Makers
    <2> QED
      BY <2>1
  <1>5. Makers'
    BY <1>2, <1>4 DEF PairInv, Makers, Builds
  <1> QED
    BY <1>3, <1>5 DEF PairInv

LEMMA SpawnedPairs ==
  ASSUME TypeInv, PairInv, NEW e \in Envs, Spawned(e)
  PROVE  PairInv'
  <1>0. PICK c \in Envs : c = arg[e].to
    BY DEF Spawned, PairInv, Makers
  <1>1. ParentOf(e, c) /\ PairedBut(e, {})
    BY <1>0, SpawnParent DEF Spawned
  <1>2. fdm[c] = fdm[e] /\ dm[c] = dm[e] /\ fdm' = fdm /\ dm' = dm
    BY <1>0 DEF Spawned
  <1>3. /\ pc' = [pc EXCEPT ![e] = "idle", ![c] = "idle"]
        /\ arg' = [arg EXCEPT ![e] = NoArg]
    BY <1>0 DEF Spawned
  <1>4. e # c /\ c \in Envs /\ pc[e] = "spawn" /\ pc[c] = "built"
    BY <1>1 DEF ParentOf
  <1>5. /\ pc'[e] = "idle" /\ pc'[c] = "idle"
        /\ \A f \in Envs \ {e, c} : pc'[f] = pc[f]
        /\ \A f \in Envs \ {e} : arg'[f] = arg[f]
    BY <1>3, <1>4 DEF TypeInv, PcTypes, CallTypes
  <1>6. PairedBut(c, {})
    BY <1>1, <1>2 DEF PairedBut
  <1>7. \A f \in Envs : Forms(f)'
    <2>1. Forms(e)' /\ Forms(c)'
      BY <1>1, <1>2, <1>4, <1>5, <1>6, IdleForms
    <2>2. \A f \in Envs \ {e, c} : Forms(f)'
      BY <1>2, <1>5, SameForms DEF PairInv
    <2> QED
      BY <2>1, <2>2
  <1>8. \A f \in Envs : pc'[f] = "spawn" => f \notin {e, c} /\ pc[f] = "spawn"
    BY <1>5
  <1>9. ASSUME NEW f \in Envs, pc'[f] = "spawn"
        PROVE  arg'[f].to \in Envs /\ pc'[arg'[f].to] = "built"
    <2>1. arg'[f] = arg[f] /\ arg[f].to \in Envs /\ pc[arg[f].to] = "built" /\ f # e
          /\ pc[f] = "spawn"
      BY <1>5, <1>8, <1>9 DEF PairInv, Makers
    <2>2. arg[f].to # c /\ arg[f].to # e
      BY <1>1, <1>4, <2>1 DEF ParentOf, Builds
    <2> QED
      BY <1>5, <2>1, <2>2
  <1>10. \A f, g, d \in Envs : (Builds(f, d) /\ Builds(g, d))' => f = g
    BY <1>5, <1>8 DEF PairInv, Makers, Builds
  <1>11. \A f, g \in Envs : pc'[f] \in Made /\ g # f => Nothing(g)'
    BY <1>2, <1>5 DEF PairInv, Makers, Nothing, Made
  <1>12. Makers'
    BY <1>9, <1>10, <1>11 DEF Makers
  <1> QED
    BY <1>7, <1>12 DEF PairInv

LEMMA SpawnPairs ==
  ASSUME TypeInv, PairInv, NEW e \in Envs, NEW c \in Envs, Spawn(e, c)
  PROVE  PairInv'
  <1>1. e # c /\ pc[e] = "idle" /\ pc[c] = "unborn" /\ fdm' = fdm /\ dm' = dm
    BY DEF Spawn
  <1>2. /\ pc'[e] = "spawn" /\ pc'[c] = "built" /\ \A f \in Envs \ {e, c} : pc'[f] = pc[f]
        /\ arg'[e].to = c /\ \A f \in Envs \ {e} : arg'[f] = arg[f]
    BY <1>1 DEF Spawn, TypeInv, PcTypes, CallTypes
  <1>3. \A f \in Envs : Forms(f)'
    <2>1. PairedBut(e, {})'
      BY <1>1 DEF PairInv, Forms, PairedBut, Rearranging
    <2>2. Forms(e)'
      BY <1>2, <2>1 DEF Forms, Rearranging, Made, Reading, Writing, Polling
    <2>3. Forms(c)'
      BY <1>2 DEF Forms, Rearranging, Made, Reading, Writing, Polling
    <2>4. \A f \in Envs \ {e, c} : Forms(f)'
      BY <1>1, <1>2, SameForms DEF PairInv
    <2> QED
      BY <2>2, <2>3, <2>4
  <1>4. \A f \in Envs : pc'[f] = "spawn" => f = e \/ (f # c /\ pc[f] = "spawn" /\ arg'[f] = arg[f])
    BY <1>2
  <1>5. ASSUME NEW f \in Envs, pc[f] = "spawn"
        PROVE  arg[f].to \in Envs /\ pc[arg[f].to] = "built" /\ arg[f].to \notin {c, e}
    BY <1>1, <1>5 DEF PairInv, Makers
  <1>6. \A f \in Envs : pc'[f] = "spawn" => arg'[f].to \in Envs /\ pc'[arg'[f].to] = "built"
    BY <1>2, <1>4, <1>5
  <1>7. \A f, g, d \in Envs : (Builds(f, d) /\ Builds(g, d))' => f = g
    BY <1>2, <1>4, <1>5 DEF PairInv, Makers, Builds
  <1>8. \A f, g \in Envs : pc'[f] \in Made /\ g # f => Nothing(g)'
    BY <1>1, <1>2 DEF PairInv, Makers, Nothing, Made
  <1>9. Makers'
    BY <1>6, <1>7, <1>8 DEF Makers
  <1> QED
    BY <1>3, <1>9 DEF PairInv

LEMMA InitPairs == Init => PairInv
  <1> SUFFICES ASSUME Init
               PROVE  PairInv
    OBVIOUS
  <1>1. \A e \in Envs : Nothing(e) /\ pc[e] \in {"idle", "unborn"}
    BY DEF Init, Nothing
  <1>2. \A e \in Envs : PairedBut(e, {})
    BY <1>1 DEF Nothing, PairedBut, NoFd, NoData
  <1>3. \A e \in Envs : Forms(e)
    BY <1>1, <1>2 DEF Forms, Rearranging, Made, Reading, Writing, Polling
  <1>4. Makers
    BY <1>1 DEF Makers, Builds, Made
  <1> QED
    BY <1>3, <1>4 DEF PairInv

LEMMA NextPairs ==
  ASSUME TypeInv, PairInv, Next
  PROVE  PairInv'
  <1>1. PICK e \in Envs : LocalSteps(e) \/ SpawnSteps(e)
    BY NextIs
  <1>2. CASE LocalSteps(e)
    BY <1>2, StepsLocal, LocalPairs
  <1>3. CASE SpawnSteps(e)
    BY <1>3, CopyPairs, SpawnedPairs, SpawnPairs DEF SpawnSteps
  <1> QED
    BY <1>1, <1>2, <1>3

LEMMA SameAll == vars' = vars => (TypeInv /\ PairInv => TypeInv' /\ PairInv')
  <1> SUFFICES ASSUME vars' = vars, TypeInv, PairInv
               PROVE  TypeInv' /\ PairInv'
    OBVIOUS
  <1>0. /\ pc' = pc /\ arg' = arg /\ left' = left /\ ref' = ref /\ byte' = byte /\ fdm' = fdm
        /\ dm' = dm /\ p' = p /\ got' = got /\ calm' = calm
    BY DEF vars
  <1>1. TypeInv'
    BY <1>0 DEF TypeInv, PcTypes, CallTypes, PageTypes, BufTypes
  <1>2. \A e \in Envs : Forms(e)'
    BY <1>0, SameForms DEF PairInv
  <1>3. Makers'
    BY <1>0 DEF PairInv, Makers, Builds, Nothing
  <1> QED
    BY <1>1, <1>2, <1>3 DEF PairInv

(* The descriptors of every environment, through pipe, close, dup and      *)
(* spawn and their failures, for any number of environments.               *)
THEOREM PairInvariant == Spec => [](TypeInv /\ PairInv)
  <1>1. Init => TypeInv /\ PairInv
    BY InitTypes, InitPairs
  <1>2. (TypeInv /\ PairInv) /\ [Next]_vars => (TypeInv /\ PairInv)'
    BY NextTypes, NextPairs, SameAll
  <1> QED
    BY <1>1, <1>2, PTL DEF Spec

(* Outside pipe, close and dup a descriptor and its data page are there    *)
(* together or not at all, for any number of environments and descriptors. *)
THEOREM EndsPairedHolds == Spec => []EndsPaired
  <1>1. PairInv => EndsPaired
    BY DEF PairInv, Forms, PairedBut, EndsPaired
  <1> QED
    BY <1>1, PairInvariant, PTL

-----------------------------------------------------------------------------
(* Who is told that the other end is gone. *)

LEMMA LocalApart ==
  ASSUME PairInv, SpawnApart, NEW e \in Envs, Local(e)
  PROVE  SpawnApart'
  <1>1. ASSUME NEW f \in Envs, NEW g \in Envs, f # g, Apart(f, g)
        PROVE  Apart(f, g)'
    <2>1. CASE \A end \in Ends : Maps(e, end)' => Maps(e, end)
      BY <1>1, <2>1 DEF Local, Apart, Maps
    <2>2. CASE \A h \in Envs \ {e} : Nothing(h)
      <3>1. (f # e /\ Nothing(f)') \/ (g # e /\ Nothing(g)')
        BY <1>1, <2>2 DEF Local, Nothing
      <3> QED
        BY <3>1 DEF Apart, Maps, Nothing, NoFd, Ends
    <2> QED
      BY <2>1, <2>2 DEF Local
  <1>2. ASSUME NEW f \in Envs, NEW g \in Envs, f # g, Builds(f, g)
        PROVE  Builds(f, g)' \/ Apart(f, g)'
    <2>1. CASE f = e
      <3>1. Nothing(f)'
        BY <1>2, <2>1 DEF Local, Builds
      <3> QED
        BY <3>1 DEF Apart, Maps, Nothing, NoFd, Ends
    <2>2. CASE f # e
      BY <1>2, <2>2 DEF Local, Builds
    <2> QED
      BY <2>1, <2>2
  <1>3. \A f \in Envs : /\ pc'[f] = "built" => pc[f] = "built"
                        /\ pc'[f] = "spawn" => pc[f] = "spawn"
    BY DEF Local
  <1>4. \A f, g : Apart(f, g)' <=> Apart(g, f)'
    BY DEF Apart
  <1> QED
    BY <1>1, <1>2, <1>3, <1>4 DEF SpawnApart

LEMMA CopyApart ==
  ASSUME TypeInv, PairInv, SpawnApart, NEW e \in Envs, CopySharedPages(e)
  PROVE  SpawnApart'
  <1>1. PICK c \in Envs : c = arg[e].to
    BY DEF CopySharedPages, PairInv, Makers
  <1>2. ParentOf(e, c) /\ Copies(e, c)
    BY <1>1, CopyCopies
  <1>3. e # c /\ pc[e] = "spawn" /\ pc[c] = "built" /\ pc' = pc /\ arg' = arg /\ Builds(e, c)'
    BY <1>1, <1>2 DEF ParentOf, Copies, Builds
  <1>4. \A f, g : Builds(f, g)' <=> Builds(f, g)
    BY <1>3 DEF Builds
  <1>5. \A f, g \in Envs \ {c} : Apart(f, g) => Apart(f, g)'
    BY <1>2 DEF Copies, Apart, Maps
  <1>6. ASSUME NEW f \in Envs \ {c, e}
        PROVE  Apart(c, f)' /\ Apart(f, c)'
    <2>1. Apart(c, f) /\ Apart(e, f)
      BY <1>1, <1>2, <1>3 DEF SpawnApart, ParentOf, Builds
    <2> QED
      BY <1>2, <2>1 DEF Copies, Apart, Maps
  <1> QED
    BY <1>3, <1>4, <1>5, <1>6 DEF SpawnApart

LEMMA SpawnedApart ==
  ASSUME TypeInv, PairInv, SpawnApart, NEW e \in Envs, Spawned(e)
  PROVE  SpawnApart'
  <1>1. PICK c \in Envs : c = arg[e].to
    BY DEF Spawned, PairInv, Makers
  <1>2. ParentOf(e, c)
    BY <1>1, SpawnParent DEF Spawned
  <1>3. /\ fdm' = fdm /\ pc'[e] = "idle" /\ pc'[c] = "idle"
        /\ \A f \in Envs \ {e, c} : pc'[f] = pc[f] /\ arg'[f] = arg[f]
    BY <1>1, <1>2 DEF Spawned, ParentOf, TypeInv, PcTypes, CallTypes
  <1>4. \A f, g : Apart(f, g)' <=> Apart(f, g)
    BY <1>3 DEF Apart, Maps
  <1>5. \A f \in Envs : /\ pc'[f] = "built" => f \notin {e, c} /\ pc[f] = "built"
                        /\ pc'[f] = "spawn" => f \notin {e, c} /\ pc[f] = "spawn"
    BY <1>3
  <1>6. \A f, g \in Envs : Builds(f, g) /\ f # e /\ g # c => Builds(f, g)'
    BY <1>2, <1>3 DEF Builds, ParentOf
  <1>7. \A f \in Envs : Builds(e, f) => f = c
    BY <1>1 DEF Builds
  <1>8. \A f \in Envs : Builds(f, c) => f = e
    BY <1>2 DEF ParentOf
  <1>9. SUFFICES ASSUME NEW f \in Envs, NEW g \in Envs, f # g
                 PROVE  /\ pc'[f] = "built" => Apart(f, g)' \/ Builds(g, f)'
                        /\ pc'[f] = "spawn" => Apart(f, g)' \/ Builds(f, g)'
    BY DEF SpawnApart
  <1>10. ASSUME pc'[f] = "built"
         PROVE  Apart(f, g)' \/ Builds(g, f)'
    <2>1. f \notin {e, c} /\ (Apart(f, g) \/ Builds(g, f))
      BY <1>5, <1>9, <1>10 DEF SpawnApart
    <2> QED
      BY <1>4, <1>6, <1>7, <2>1
  <1>11. ASSUME pc'[f] = "spawn"
         PROVE  Apart(f, g)' \/ Builds(f, g)'
    <2>1. f \notin {e, c} /\ (Apart(f, g) \/ Builds(f, g))
      BY <1>5, <1>9, <1>11 DEF SpawnApart
    <2> QED
      BY <1>4, <1>6, <1>8, <2>1
  <1> QED
    BY <1>10, <1>11

LEMMA StartApart ==
  ASSUME TypeInv, PairInv, SpawnApart, "spawnSole" \in Conventions,
         NEW e \in Envs, NEW c \in Envs, Spawn(e, c)
  PROVE  SpawnApart'
  <1>1. e # c /\ pc[e] = "idle" /\ pc[c] = "unborn" /\ fdm' = fdm
    BY DEF Spawn
  <1>2. /\ pc'[e] = "spawn" /\ pc'[c] = "built" /\ \A f \in Envs \ {e, c} : pc'[f] = pc[f]
        /\ \A f \in Envs \ {e} : arg'[f] = arg[f]
    BY <1>1 DEF Spawn, TypeInv, PcTypes, CallTypes
  <1>3. \A f, g : Apart(f, g)' <=> Apart(f, g)
    BY <1>1 DEF Apart, Maps
  <1>4. \A f \in Envs \ {e} : Apart(e, f)
    BY DEF Spawn, MaySpawn, Apart
  <1>5. Nothing(c)
    BY <1>1 DEF PairInv, Forms
  <1>6. \A f : Apart(c, f)
    BY <1>5 DEF Nothing, NoFd, Apart, Maps, Ends
  <1>7. \A f, g \in Envs : Builds(f, g) => Builds(f, g)'
    BY <1>1, <1>2 DEF Builds
  <1> QED
    BY <1>2, <1>3, <1>4, <1>6, <1>7 DEF SpawnApart

-----------------------------------------------------------------------------

\* Only a look at the first count makes an environment calm.
LEMMA CalmStep ==
  ASSUME TypeInv, NEW e \in Envs, LocalSteps(e) \/ SpawnSteps(e), ~CountFd(e)
  PROVE  calm' = NoOne
  <1>1. \A l : Goto(e, l) /\ l \notin {"rdata", "wdata", "pdata"} => calm' = NoOne
    BY DEF Goto
  <1>2. CASE PipeFd0(e) \/ PipeFd1(e) \/ PipeData(e) \/ PipeFails(e) \/ Close(e)
    BY <1>1, <1>2 DEF PipeFd0, PipeFd1, PipeData, PipeFails, Close
  <1>3. CASE CloseData(e)
    <2>1. arg[e].then \in {"idle", "dup"}
      BY DEF TypeInv, CallTypes, Args
    <2> QED
      BY <1>1, <1>3, <2>1 DEF CloseData
  <1>4. CASE Dup(e) \/ DupData(e) \/ DupFd(e) \/ DupFails(e)
    BY <1>1, <1>4 DEF Dup, DupData, DupFd, DupFails
  <1>5. CASE Read(e) \/ Write(e) \/ Pipeisclosed(e)
    BY <1>1, <1>5 DEF Read, Write, Pipeisclosed, Call
  <1>6. CASE Killed(e)
    BY <1>6 DEF Killed, Gone
  <1>7. CASE ReadTest(e) \/ TakeByte(e) \/ IncRpos(e) \/ WriteTest(e) \/ StoreByte(e) \/ IncWpos(e)
    BY <1>1, <1>7 DEF ReadTest, TakeByte, IncRpos, WriteTest, StoreByte, IncWpos, Return
  <1>8. CASE CountData(e) \/ RaceAvoided(e) \/ Told(e)
    BY <1>1, <1>8 DEF CountData, RaceAvoided, Told, Return, LoopLabel, FdLabel
  <1>9. CASE SpawnSteps(e)
    BY <1>9 DEF SpawnSteps, CopySharedPages, Spawned, Spawn
  <1> QED
    BY <1>2, <1>3, <1>4, <1>5, <1>6, <1>7, <1>8, <1>9 DEF LocalSteps, Moves

LEMMA NextCalm ==
  ASSUME TypeInv, PairInv, NEW e \in Envs, LocalSteps(e) \/ SpawnSteps(e)
  PROVE  CalmExact'
  <1>1. CASE CountFd(e)
    <2>1. /\ ref'[e] = FdRef(fdm[e][arg[e].fd]) /\ fdm' = fdm /\ arg' = arg /\ calm' \in {e, NoOne}
          /\ pc'[e] = DataLabel(pc[e])
      BY <1>1, GotoPlaces DEF CountFd, TypeInv, CallTypes, Goto
    <2>2. DataLabel(pc[e]) \in {"rdata", "wdata", "pdata"}
      BY <1>1 DEF CountFd, DataLabel
    <2>3. FdRef(fdm[e][arg[e].fd])' = FdRef(fdm[e][arg[e].fd])
      BY <2>1 DEF FdRef
    <2>4. \A f \in Envs : calm' = f => f = e
      BY <2>1
    <2> QED
      BY <2>1, <2>2, <2>3, <2>4 DEF CalmExact
  <1>2. CASE ~CountFd(e)
    BY <1>2, CalmStep DEF CalmExact
  <1> QED
    BY <1>1, <1>2

\* Whoever has an end mapped has the data page beside it, unless it makes
\* the pipe or is being built.
LEMMA Beside ==
  ASSUME TypeInv, PairInv, NEW g \in Envs, pc[g] \notin Made \cup {"built"},
         NEW k \in Fds, fdm[g][k] # NoOne
  PROVE  dm[g][k]
  <1>1. Forms(g)
    BY DEF PairInv
  <1>2. CASE pc[g] \notin Rearranging
    BY <1>1, <1>2 DEF Forms, PairedBut
  <1>3. CASE pc[g] \in {"close", "dup", "dupfd"}
    BY <1>1, <1>3 DEF Forms, PairedBut
  <1> QED
    BY <1>2, <1>3 DEF Rearranging, Made

\* When no environment has run since, equal counts mean that the other end is
\* nowhere.
LEMMA EqualCounts ==
  ASSUME TypeInv, PairInv, SpawnApart, CalmExact,
         NEW e \in Envs, calm = e, ref[e] = DataRef
  PROVE  ~Alive(Other(fdm[e][arg[e].fd]))
  <1> DEFINE end == fdm[e][arg[e].fd]
             A == {m \in Envs \X Fds : fdm[m[1]][m[2]] = end}
             D == {m \in Envs \X Fds : dm[m[1]][m[2]]}
  <1>1. pc[e] \in {"rdata", "wdata", "pdata"} /\ ref[e] = FdRef(end)
    BY DEF CalmExact
  <1>2. pc[e] \in Using /\ pc[e] \in Reading \cup Writing \cup Polling
    BY <1>1 DEF Using, Reading, Writing, Polling
  <1>3. arg[e].fd \in Fds /\ end \in Ends /\ Maps(e, end) /\ ~Nothing(e)
    <2>1. arg[e].fd \in Fds /\ end \in Ends
      BY <1>2 DEF PairInv, Forms
    <2> QED
      BY <2>1 DEF Maps, Nothing, NoFd, Ends
  <1>4. \A h \in Envs \ {e} : pc[h] \notin Made
    BY <1>3 DEF PairInv, Makers
  <1>5. pc[e] \notin Made \cup {"built", "spawn"}
    BY <1>2, UsingIs
  <1>6. \A h \in Envs : pc[h] = "built" => ~Maps(h, end)
    <2>1. \A h \in Envs : pc[h] = "built" => Apart(h, e)
      BY <1>5 DEF SpawnApart, Builds
    <2> QED
      BY <1>3, <2>1 DEF Apart
  <1>7. Cardinality(A) = Cardinality(D)
    BY <1>1 DEF FdRef, DataRef
  <1>8. IsFiniteSet(D)
    <2>1. IsFiniteSet(Fds)
      BY FS_Interval DEF Fds
    <2>2. IsFiniteSet(Envs \X Fds)
      BY <2>1, FS_Product
    <2> QED
      BY <2>2, FS_Subset
  <1> HIDE DEF end
  <1>9. \A h \in Envs, j \in Fds : fdm[h][j] = end => dm[h][j]
    <2>1. SUFFICES ASSUME NEW h \in Envs, NEW j \in Fds, fdm[h][j] = end
                   PROVE  dm[h][j]
      OBVIOUS
    <2>2. pc[h] \notin Made \cup {"built"} /\ fdm[h][j] # NoOne
      BY <1>3, <1>4, <1>5, <1>6, <2>1 DEF Maps, Ends
    <2> QED
      BY <2>2, Beside
  <1>10. SUFFICES ASSUME NEW g \in Envs, pc[g] # "built", NEW k \in Fds, fdm[g][k] = Other(end)
                  PROVE  FALSE
    BY DEF Alive, Maps, end
  <1>11. Other(end) # end /\ Other(end) \in Ends
    BY <1>3 DEF Other, Ends
  <1>12. dm[g][k]
    BY <1>4, <1>5, <1>10, <1>11, Beside DEF Ends
  <1>13. A \subseteq D /\ <<g, k>> \in D /\ <<g, k>> \notin A
    BY <1>9, <1>10, <1>11, <1>12
  <1> HIDE DEF A, D
  <1>14. IsFiniteSet(A) /\ A \cup {<<g, k>>} \subseteq D
    BY <1>8, <1>13, FS_Subset
  <1>15. Cardinality(A \cup {<<g, k>>}) = Cardinality(A) + 1
    BY <1>13, <1>14, FS_AddElement
  <1>16. Cardinality(A \cup {<<g, k>>}) <= Cardinality(D)
    BY <1>8, <1>14, FS_Subset
  <1>17. Cardinality(A) \in Nat
    BY <1>14, FS_CardinalityType
  <1> QED
    BY <1>7, <1>15, <1>16, <1>17

TellsNow(e) == CountData(e) /\ ref[e] = DataRef

LEMMA ToldBy ==
  ASSUME TypeInv, NEW e \in Envs, LocalSteps(e), pc'[e] \in {"eof", "gone"}
  PROVE  TellsNow(e)
  <1>1. \A l : Goto(e, l) => l \in {"eof", "gone"}
    BY GotoPlaces
  <1>2. ~Return(e)
    BY ReturnPlaces
  <1>3. ~(PipeFd0(e) \/ PipeFd1(e) \/ PipeData(e) \/ PipeFails(e) \/ Close(e))
    BY <1>1 DEF PipeFd0, PipeFd1, PipeData, PipeFails, Close
  <1>4. ~CloseData(e)
    <2>1. arg[e].then \in {"idle", "dup"}
      BY DEF TypeInv, CallTypes, Args
    <2> QED
      BY <1>1, <2>1 DEF CloseData
  <1>5. ~(Dup(e) \/ DupData(e) \/ DupFd(e) \/ DupFails(e))
    BY <1>1 DEF Dup, DupData, DupFd, DupFails
  <1>6. ~(Read(e) \/ Write(e) \/ Pipeisclosed(e))
    BY <1>1 DEF Read, Write, Pipeisclosed, Call
  <1>7. ~Killed(e)
    BY DEF Killed, Gone, TypeInv, PcTypes
  <1>8. ~(ReadTest(e) \/ TakeByte(e) \/ IncRpos(e) \/ WriteTest(e) \/ StoreByte(e) \/ IncWpos(e))
    BY <1>1, <1>2 DEF ReadTest, TakeByte, IncRpos, WriteTest, StoreByte, IncWpos
  <1>9. ~(CountFd(e) \/ RaceAvoided(e) \/ Told(e))
    BY <1>1, <1>2 DEF CountFd, RaceAvoided, Told, DataLabel, FdLabel
  <1>10. CountData(e)
    BY <1>3, <1>4, <1>5, <1>6, <1>7, <1>8, <1>9 DEF LocalSteps, Moves
  <1>11. ref[e] # DataRef => FALSE
    BY <1>1, <1>2, <1>10 DEF CountData, LoopLabel
  <1> QED
    BY <1>10, <1>11 DEF TellsNow

\* What was nowhere stays nowhere.
LEMMA LocalTruth ==
  ASSUME TypeInv, PairInv, ClosedIsTrue, NEW e \in Envs, Local(e),
         NEW f \in Envs \ {e}, pc'[f] \in {"eof", "gone"}
  PROVE  ~Alive(Other(fdm[f][arg[f].fd]))'
  <1>1. pc'[f] = pc[f] /\ arg'[f] = arg[f] /\ fdm'[f] = fdm[f]
    BY DEF Local
  <1>2. PICK end : end = Other(fdm[f][arg[f].fd])
    OBVIOUS
  <1>3. ~Alive(end) /\ Other(fdm[f][arg[f].fd])' = end
    BY <1>1, <1>2 DEF ClosedIsTrue, Other
  <1>4. arg[f].fd \in Fds /\ fdm[f][arg[f].fd] \in Ends
    BY <1>1 DEF PairInv, Forms
  <1>5. ~Nothing(f) /\ end \in Ends
    BY <1>2, <1>4 DEF Nothing, NoFd, Ends, Other
  <1>6. \A x \in Ends : Maps(e, x)' => Maps(e, x)
    BY <1>5 DEF Local
  <1>7. \A g \in Envs : pc'[g] # "built" /\ Maps(g, end)' => pc[g] # "built" /\ Maps(g, end)
    BY <1>5, <1>6 DEF Local, Maps
  <1>8. ~Alive(end)'
    BY <1>3, <1>7 DEF Alive
  <1> QED
    BY <1>3, <1>8

LEMMA SpawnTruth ==
  ASSUME TypeInv, PairInv, ClosedIsTrue, NEW e \in Envs, SpawnSteps(e)
  PROVE  ClosedIsTrue'
  <1>1. SUFFICES ASSUME NEW f \in Envs, pc'[f] \in {"eof", "gone"}
                 PROVE  ~Alive(Other(fdm[f][arg[f].fd]))'
    BY DEF ClosedIsTrue
  <1>2. PICK c \in Envs : (c = arg[e].to /\ (CopySharedPages(e) \/ Spawned(e))) \/ Spawn(e, c)
    BY DEF SpawnSteps, CopySharedPages, Spawned, PairInv, Makers
  <1>3. /\ e # c /\ pc[e] \in {"spawn", "idle"} /\ pc[c] \in {"built", "unborn"}
        /\ pc'[e] \in {"spawn", "idle"}
        /\ \A g \in Envs \ {e, c} : pc'[g] = pc[g] /\ arg'[g] = arg[g] /\ fdm'[g] = fdm[g]
        /\ fdm'[e] = fdm[e]
        /\ pc'[c] = "built" \/ (pc'[c] = "idle" /\ fdm'[c] = fdm[e])
    <2>1. CASE CopySharedPages(e) /\ c = arg[e].to
      BY <2>1, CopyCopies DEF Copies, ParentOf
    <2>2. CASE Spawned(e) /\ c = arg[e].to
      <3>1. ParentOf(e, c)
        BY <2>2, SpawnParent DEF Spawned
      <3> QED
        BY <2>2, <3>1 DEF Spawned, ParentOf, TypeInv, PcTypes, CallTypes
    <2>3. CASE Spawn(e, c)
      BY <2>3 DEF Spawn, TypeInv, PcTypes, CallTypes
    <2> QED
      BY <1>2, <2>1, <2>2, <2>3
  <1>4. f \notin {e, c} /\ pc'[f] = pc[f] /\ arg'[f] = arg[f] /\ fdm'[f] = fdm[f]
    BY <1>1, <1>3
  <1>5. PICK end : end = Other(fdm[f][arg[f].fd])
    OBVIOUS
  <1>6. ~Alive(end) /\ Other(fdm[f][arg[f].fd])' = end
    BY <1>1, <1>4, <1>5 DEF ClosedIsTrue, Other
  <1>7. ~Maps(e, end)
    BY <1>3, <1>6 DEF Alive
  <1>8. \A g \in Envs : pc'[g] # "built" => ~Maps(g, end)'
    BY <1>3, <1>6, <1>7 DEF Alive, Maps
  <1> QED
    BY <1>6, <1>8 DEF Alive

LEMMA NextTruth ==
  ASSUME CPUS = 1, TypeInv, PairInv, CountInv, NEW e \in Envs, LocalSteps(e) \/ SpawnSteps(e)
  PROVE  ClosedIsTrue'
  <1>1. CASE SpawnSteps(e)
    BY <1>1, SpawnTruth DEF CountInv
  <1>2. CASE LocalSteps(e)
    <2>1. Local(e)
      BY <1>2, StepsLocal
    <2>2. \A f \in Envs \ {e} : pc'[f] \in {"eof", "gone"} => ~Alive(Other(fdm[f][arg[f].fd]))'
      BY <2>1, LocalTruth DEF CountInv
    <2>3. ASSUME pc'[e] \in {"eof", "gone"}
          PROVE  ~Alive(Other(fdm[e][arg[e].fd]))'
      <3>1. CountData(e) /\ ref[e] = DataRef
        BY <1>2, <2>3, ToldBy DEF TellsNow
      <3>2. calm = e
        BY <3>1 DEF CountData, NotPreempted
      <3>3. PICK end : end = Other(fdm[e][arg[e].fd])
        OBVIOUS
      <3>4. ~Alive(end)
        BY <3>1, <3>2, <3>3, EqualCounts DEF CountInv
      <3>5. fdm' = fdm /\ arg' = arg
        BY <3>1 DEF CountData
      <3>6. Other(fdm[e][arg[e].fd])' = end
        BY <3>3, <3>5 DEF Other
      <3>7. \A g \in Envs : pc'[g] # "built" => pc[g] # "built"
        BY <2>1 DEF Local
      <3> QED
        BY <3>4, <3>5, <3>6, <3>7 DEF Alive, Maps
    <2> QED
      BY <2>2, <2>3 DEF ClosedIsTrue
  <1> QED
    BY <1>1, <1>2

LEMMA InitCounts == Init => CountInv
  <1> SUFFICES ASSUME Init
               PROVE  CountInv
    OBVIOUS
  <1>1. \A e \in Envs : pc[e] \in {"idle", "unborn"} /\ calm # e
    BY DEF Init
  <1> QED
    BY <1>1 DEF CountInv, SpawnApart, CalmExact, ClosedIsTrue

LEMMA NextCounts ==
  ASSUME CPUS = 1, "spawnSole" \in Conventions, TypeInv, PairInv, CountInv, Next
  PROVE  CountInv'
  <1>1. PICK e \in Envs : LocalSteps(e) \/ SpawnSteps(e)
    BY NextIs
  <1>2. SpawnApart'
    BY <1>1, StepsLocal, LocalApart, CopyApart, SpawnedApart, StartApart DEF SpawnSteps, CountInv
  <1>3. CalmExact'
    BY <1>1, NextCalm
  <1>4. ClosedIsTrue'
    BY <1>1, NextTruth
  <1> QED
    BY <1>2, <1>3, <1>4 DEF CountInv

LEMMA SameCounts == vars' = vars /\ CountInv => CountInv'
  <1> SUFFICES ASSUME vars' = vars, CountInv
               PROVE  CountInv'
    OBVIOUS
  <1>1. pc' = pc /\ arg' = arg /\ ref' = ref /\ fdm' = fdm /\ dm' = dm /\ calm' = calm
    BY DEF vars
  <1>2. SpawnApart'
    BY <1>1 DEF CountInv, SpawnApart, Apart, Builds, Maps
  <1>3. CalmExact'
    BY <1>1 DEF CountInv, CalmExact, FdRef
  <1>4. ClosedIsTrue'
    BY <1>1 DEF CountInv, ClosedIsTrue, Alive, Maps, Other
  <1> QED
    BY <1>2, <1>3, <1>4 DEF CountInv

(* An environment that finds the other end of the pipe gone is right, on   *)
(* one CPU, for users that spawn only while their ends are theirs alone:   *)
(* two counts read one after the other are as good as one look.            *)
THEOREM ClosedIsTrueHolds ==
  ASSUME CPUS = 1, "spawnSole" \in Conventions
  PROVE  Spec => []ClosedIsTrue
  <1>1. Init => CountInv
    BY InitCounts
  <1>2. (TypeInv /\ PairInv) /\ CountInv /\ [Next]_vars => CountInv'
    BY NextCounts, SameCounts
  <1>3. CountInv => ClosedIsTrue
    BY DEF CountInv
  <1> QED
    BY <1>1, <1>2, <1>3, PairInvariant, PTL DEF Spec

-----------------------------------------------------------------------------
(* The stream. *)

Carries(e) ==
  ReadTest(e) \/ TakeByte(e) \/ IncRpos(e) \/ WriteTest(e) \/ StoreByte(e) \/ IncWpos(e)

Carrying == {"take", "taken", "store", "stored"}

\* e enters none of the two loops, save at their heads.
Aside(e) ==
  /\ p' = p /\ got' = got
  /\ \A f \in Envs \ {e} : byte'[f] = byte[f]
  /\ pc'[e] \notin Carrying
  /\ pc'[e] \in Reading => pc[e] \in Reading \/ Read(e)
  /\ pc'[e] \in Writing => pc[e] \in Writing \/ Write(e)

LEMMA LocalAside ==
  ASSUME TypeInv, NEW e \in Envs, LocalSteps(e), ~Carries(e)
  PROVE  Aside(e)
  <1>1. \A l : Goto(e, l) => pc'[e] = l
    BY GotoPlaces
  <1> DEFINE Out == (Reading \cup Writing \cup Carrying)
  <1>2. Out \cap {"pipe1", "pipe2", "pipe3", "idle", "close", "dup", "dupfd", "dead", "pfd",
                  "pdata", "eof", "gone"} = {}
    BY DEF Reading, Writing, Carrying
  <1>3. ASSUME p' = p, got' = got, byte' = byte, pc'[e] \notin Out
        PROVE  Aside(e)
    BY <1>3 DEF Aside
  <1> HIDE DEF Out
  <1>4. CASE PipeFd0(e) \/ PipeFd1(e) \/ PipeData(e) \/ PipeFails(e) \/ Close(e)
    BY <1>1, <1>2, <1>3, <1>4 DEF PipeFd0, PipeFd1, PipeData, PipeFails, Close, Stay
  <1>5. CASE CloseData(e)
    <2>1. arg[e].then \in {"idle", "dup"}
      BY DEF TypeInv, CallTypes, Args
    <2> QED
      BY <1>1, <1>2, <1>3, <1>5, <2>1 DEF CloseData, Stay
  <1>6. CASE Dup(e) \/ DupData(e) \/ DupFd(e) \/ DupFails(e)
    BY <1>1, <1>2, <1>3, <1>6 DEF Dup, DupData, DupFd, DupFails, Stay
  <1>7. CASE Read(e)
    <2>1. p' = p /\ got' = got /\ byte' = byte /\ pc'[e] = "read"
      BY <1>1, <1>7 DEF Read, Call
    <2> QED
      BY <1>7, <2>1 DEF Aside, Carrying, Writing
  <1>8. CASE Write(e)
    <2>1. p' = p /\ got' = got /\ byte' = byte /\ pc'[e] = "write"
      BY <1>1, <1>8 DEF Write, Call
    <2> QED
      BY <1>8, <2>1 DEF Aside, Carrying, Reading
  <1>9. CASE Pipeisclosed(e)
    BY <1>1, <1>2, <1>3, <1>9 DEF Pipeisclosed, Call
  <1>10. CASE Killed(e)
    <2>1. /\ p' = p /\ got' = got /\ pc'[e] = "dead"
          /\ \A f \in Envs \ {e} : byte'[f] = byte[f]
      BY <1>10 DEF Killed, Gone, TypeInv, PcTypes, BufTypes
    <2> QED
      BY <2>1 DEF Aside, Carrying, Reading, Writing
  <1>11. CASE Told(e)
    BY <1>2, <1>3, <1>11, ReturnPlaces DEF Told
  <1>12. CASE CountFd(e) \/ CountData(e) \/ RaceAvoided(e)
    <2>1. p' = p /\ got' = got /\ byte' = byte
      BY <1>12 DEF CountFd, CountData, RaceAvoided
    <2>2. CASE Return(e)
      BY <1>2, <1>3, <2>1, <2>2, ReturnPlaces
    <2>3. CASE ~Return(e)
      <3>1. PICK l \in {"rdata", "wdata", "pdata", "rfd", "wfd", "pfd", "read", "write", "idle",
                        "eof", "gone"} : Goto(e, l)
        BY <1>12, <2>3 DEF CountFd, CountData, RaceAvoided, DataLabel, FdLabel, LoopLabel
      <3>2. Moves(e)
        BY <1>12 DEF Moves
      <3>3. PICK m : GoesOn(e, m)
        BY <2>3, <3>2, MovesGoOn
      <3>4. pc'[e] = l /\ m = l
        BY <1>1, <3>1, <3>3 DEF GoesOn
      <3>5. l \in Reading => pc[e] \in Reading
        BY <3>3, <3>4, UsingIs DEF GoesOn
      <3>6. l \in Writing => pc[e] \in Writing
        BY <3>3, <3>4, UsingIs DEF GoesOn
      <3> QED
        BY <2>1, <3>1, <3>4, <3>5, <3>6 DEF Aside, Carrying
    <2> QED
      BY <2>2, <2>3
  <1> QED
    BY <1>4, <1>5, <1>6, <1>7, <1>8, <1>9, <1>10, <1>11, <1>12 DEF LocalSteps, Moves, Carries

LEMMA SpawnAside ==
  ASSUME TypeInv, NEW e \in Envs, SpawnSteps(e)
  PROVE  /\ p' = p /\ got' = got /\ byte' = byte
         /\ \A f \in Envs : pc'[f] = pc[f] \/ pc'[f] \in {"idle", "built", "spawn"}
  BY DEF SpawnSteps, CopySharedPages, Spawned, Spawn, Stay, TypeInv, PcTypes

LEMMA AsideStream ==
  ASSUME TypeInv, PairInv, StreamInv, {"oneReader", "oneWriter"} \subseteq Conventions,
         NEW e \in Envs, Local(e), Aside(e)
  PROVE  StreamInv'
  <1>1. p' = p /\ got' = got
    BY DEF Aside
  <1>2. \A f \in Envs \ {e} : pc'[f] = pc[f]
    BY DEF Local
  <1>3. Read(e) => \A f \in Envs : pc[f] \notin Reading
    BY DEF Read
  <1>4. Write(e) => \A f \in Envs : pc[f] \notin Writing
    BY DEF Write
  <1>5. Alone(Reading)'
    BY <1>2, <1>3 DEF Aside, StreamInv, Alone
  <1>6. Alone(Writing)'
    BY <1>2, <1>4 DEF Aside, StreamInv, Alone
  <1>7. ASSUME NEW f \in Envs
        PROVE  Hands(f)'
    <2>1. CASE f = e
      BY <2>1 DEF Aside, Carrying, Hands
    <2>2. CASE f # e
      BY <1>1, <1>2, <2>2 DEF Aside, StreamInv, Hands
    <2> QED
      BY <2>1, <2>2
  <1>8. StreamIntact' /\ (p.p_rpos <= p.p_wpos /\ p.p_wpos <= p.p_rpos + PIPEBUFSIZ)'
    BY <1>1 DEF StreamInv, StreamIntact
  <1> QED
    BY <1>5, <1>6, <1>7, <1>8 DEF StreamInv

LEMMA SpawnStream ==
  ASSUME TypeInv, StreamInv, NEW e \in Envs, SpawnSteps(e)
  PROVE  StreamInv'
  <1>1. /\ p' = p /\ got' = got /\ byte' = byte
        /\ \A f \in Envs : pc'[f] = pc[f] \/ pc'[f] \in {"idle", "built", "spawn"}
    BY SpawnAside
  <1>2. \A f \in Envs : pc'[f] \in Reading \cup Writing => pc'[f] = pc[f]
    BY <1>1 DEF Reading, Writing
  <1>3. Alone(Reading)' /\ Alone(Writing)'
    BY <1>2 DEF StreamInv, Alone
  <1>4. \A f \in Envs : Hands(f)'
    BY <1>1 DEF StreamInv, Hands
  <1>5. StreamIntact' /\ (p.p_rpos <= p.p_wpos /\ p.p_wpos <= p.p_rpos + PIPEBUFSIZ)'
    BY <1>1 DEF StreamInv, StreamIntact
  <1> QED
    BY <1>3, <1>4, <1>5 DEF StreamInv

\* Bytes less than a buffer apart lie in different slots.
LEMMA SlotsDiffer ==
  ASSUME NEW i \in Nat, NEW j \in Nat, i < j, j < i + PIPEBUFSIZ
  PROVE  i % PIPEBUFSIZ # j % PIPEBUFSIZ
  <1>1. PIPEBUFSIZ \in Nat \ {0}
    OBVIOUS
  <1>2. PICK N \in Nat \ {0} : N = PIPEBUFSIZ
    BY <1>1
  <1>3. /\ i = (N * (i \div N)) + (i % N) /\ j = (N * (j \div N)) + (j % N)
        /\ i \div N \in Nat /\ j \div N \in Nat
    BY <1>2
  <1>4. PICK a \in Nat, b \in Nat : a = i \div N /\ b = j \div N
    BY <1>3
  <1>5. ASSUME i % N = j % N
        PROVE  FALSE
    <2>1. i % N \in Nat
      BY <1>2
    <2>2. j - i = N * b - N * a
      BY <1>3, <1>4, <1>5, <2>1
    <2>3. N * b - N * a = N * (b - a)
      OBVIOUS
    <2>4. CASE b - a <= 0
      BY <2>2, <2>3, <2>4
    <2>5. CASE b - a >= 1
      <3>1. N * (b - a) >= N
        BY <2>5
      <3> QED
        BY <1>2, <2>2, <2>3, <3>1
    <2> QED
      BY <2>4, <2>5
  <1> QED
    BY <1>2, <1>5


\* One step of the reader or the writer on the pipe, whatever it does to p:
\* the other environments are not in the same loop.
LEMMA CarryPlaces ==
  ASSUME TypeInv, StreamInv, NEW e \in Envs, Carries(e)
  PROVE  /\ \A f \in Envs \ {e} : pc'[f] = pc[f]
         /\ Alone(Reading)' /\ Alone(Writing)'
         /\ pc[e] \in {"read", "take", "taken"} =>
              \A f \in Envs \ {e} : pc'[f] \notin {"take", "taken"}
         /\ pc[e] \in {"write", "store", "stored"} =>
              \A f \in Envs \ {e} : pc'[f] \notin {"store", "stored"}
  <1>1. /\ \A f \in Envs \ {e} : pc'[f] = pc[f]
        /\ \/ pc[e] \in Reading /\ pc'[e] \in Reading \cup {"idle"}
           \/ pc[e] \in Writing /\ pc'[e] \in Writing \cup {"idle"}
    <2>1. CASE Return(e)
      BY <2>1, ReturnPlaces DEF Carries, ReadTest, TakeByte, IncRpos, WriteTest, StoreByte, IncWpos,
         Reading, Writing
    <2>2. CASE ~Return(e)
      BY <2>2, GotoPlaces DEF Carries, ReadTest, TakeByte, IncRpos, WriteTest, StoreByte, IncWpos,
         Reading, Writing
    <2> QED
      BY <2>1, <2>2
  <1>2. Reading \cap Writing = {} /\ "idle" \notin Reading \cup Writing
    BY DEF Reading, Writing
  <1>3. Alone(Reading)' /\ Alone(Writing)'
    BY <1>1, <1>2 DEF StreamInv, Alone
  <1>4. {"read", "take", "taken"} \subseteq Reading /\ {"write", "store", "stored"} \subseteq Writing
    BY DEF Reading, Writing
  <1>5. pc[e] \in Reading => \A f \in Envs \ {e} : pc[f] \notin Reading
    BY DEF StreamInv, Alone
  <1>6. pc[e] \in Writing => \A f \in Envs \ {e} : pc[f] \notin Writing
    BY DEF StreamInv, Alone
  <1> QED
    BY <1>1, <1>3, <1>4, <1>5, <1>6

LEMMA TestStream ==
  ASSUME TypeInv, StreamInv, NEW e \in Envs, ReadTest(e) \/ WriteTest(e)
  PROVE  StreamInv'
  <1>1. p' = p /\ got' = got /\ byte' = byte
    BY DEF ReadTest, WriteTest
  <1>2. pc'[e] = "take" => p.p_rpos # p.p_wpos
    BY GotoPlaces, ReturnPlaces DEF ReadTest, WriteTest, Empty
  <1>3. pc'[e] = "store" => p.p_wpos < p.p_rpos + PIPEBUFSIZ
    BY GotoPlaces, ReturnPlaces DEF ReadTest, WriteTest, Full, TypeInv, BufTypes
  <1>4. pc'[e] \notin {"taken", "stored"}
    BY GotoPlaces, ReturnPlaces DEF ReadTest, WriteTest
  <1>5. p.p_rpos \in Nat /\ p.p_wpos \in Nat /\ p.p_rpos <= p.p_wpos
    BY DEF TypeInv, BufTypes, StreamInv
  <1>6. (\A f \in Envs \ {e} : pc'[f] = pc[f]) /\ Alone(Reading)' /\ Alone(Writing)'
    BY CarryPlaces DEF Carries
  <1>7. Hands(e)'
    BY <1>1, <1>2, <1>3, <1>4, <1>5 DEF Hands
  <1>8. \A f \in Envs \ {e} : Hands(f)'
    BY <1>1, <1>6 DEF StreamInv, Hands
  <1>9. StreamIntact' /\ (p.p_rpos <= p.p_wpos /\ p.p_wpos <= p.p_rpos + PIPEBUFSIZ)'
    BY <1>1 DEF StreamInv, StreamIntact
  <1> QED
    BY <1>6, <1>7, <1>8, <1>9 DEF StreamInv

LEMMA TakeStream ==
  ASSUME TypeInv, StreamInv, NEW e \in Envs, TakeByte(e)
  PROVE  StreamInv'
  <1>1. /\ p' = p /\ got' = got /\ pc[e] = "take" /\ pc'[e] = "taken"
        /\ byte' = [byte EXCEPT ![e] = p.p_buf[p.p_rpos % PIPEBUFSIZ]]
    BY GotoPlaces DEF TakeByte
  <1>2. p.p_rpos \in Nat /\ p.p_wpos \in Nat /\ p.p_rpos < p.p_wpos
    BY <1>1 DEF TypeInv, BufTypes, StreamInv, Hands
  <1>3. p.p_buf[p.p_rpos % PIPEBUFSIZ] = p.p_rpos + 1
    BY <1>2 DEF StreamInv, StreamIntact
  <1>4. byte'[e] = p.p_rpos + 1 /\ \A f \in Envs \ {e} : byte'[f] = byte[f]
    BY <1>1, <1>3 DEF TypeInv, BufTypes
  <1>5. (\A f \in Envs \ {e} : pc'[f] = pc[f]) /\ Alone(Reading)' /\ Alone(Writing)'
    BY CarryPlaces DEF Carries
  <1>6. Hands(e)'
    BY <1>1, <1>2, <1>4 DEF Hands
  <1>7. \A f \in Envs \ {e} : Hands(f)'
    BY <1>1, <1>4, <1>5 DEF StreamInv, Hands
  <1>8. StreamIntact' /\ (p.p_rpos <= p.p_wpos /\ p.p_wpos <= p.p_rpos + PIPEBUFSIZ)'
    BY <1>1 DEF StreamInv, StreamIntact
  <1> QED
    BY <1>5, <1>6, <1>7, <1>8 DEF StreamInv

LEMMA IncRposStream ==
  ASSUME TypeInv, StreamInv, NEW e \in Envs, IncRpos(e)
  PROVE  StreamInv'
  <1>1. pc[e] = "taken" /\ pc'[e] = "read" /\ got' = Append(got, byte[e])
    BY GotoPlaces DEF IncRpos
  <1>2. PICK r \in Nat, w \in Nat : r = p.p_rpos /\ w = p.p_wpos
    BY DEF TypeInv, BufTypes
  <1>3. p'.p_rpos = r + 1 /\ p'.p_wpos = w /\ p'.p_buf = p.p_buf
    BY <1>2 DEF IncRpos, TypeInv, BufTypes
  <1>4. r < w /\ byte[e] = r + 1 /\ w <= r + PIPEBUFSIZ
    BY <1>1, <1>2 DEF StreamInv, Hands
  <1>5. got' = [i \in 1 .. p'.p_rpos |-> i]
    <2>1. got = [i \in 1 .. r |-> i] /\ got \in Seq(Nat)
      BY <1>2 DEF StreamInv, StreamIntact, TypeInv, BufTypes
    <2>2. Len(got) = r
      BY <2>1
    <2>3. Append(got, r + 1) = [i \in 1 .. r + 1 |-> IF i = r + 1 THEN r + 1 ELSE got[i]]
      BY <2>1, <2>2
    <2>4. [i \in 1 .. r + 1 |-> IF i = r + 1 THEN r + 1 ELSE got[i]] = [i \in 1 .. r + 1 |-> i]
      BY <2>1
    <2> QED
      BY <1>1, <1>3, <1>4, <2>3, <2>4
  <1>6. \A i \in p'.p_rpos .. p'.p_wpos - 1 : p'.p_buf[i % PIPEBUFSIZ] = i + 1
    BY <1>2, <1>3 DEF StreamInv, StreamIntact
  <1>7. /\ \A f \in Envs \ {e} : pc'[f] = pc[f] /\ pc'[f] \notin {"take", "taken"}
        /\ Alone(Reading)' /\ Alone(Writing)'
    BY <1>1, CarryPlaces DEF Carries
  <1>8. Hands(e)'
    BY <1>1 DEF Hands
  <1>9. ASSUME NEW f \in Envs \ {e}
        PROVE  Hands(f)'
    <2>1. /\ pc[f] \in {"store", "stored"} => w < r + PIPEBUFSIZ
          /\ pc[f] = "stored" => p.p_buf[w % PIPEBUFSIZ] = w + 1
      BY <1>2 DEF StreamInv, Hands
    <2>2. PIPEBUFSIZ \in Nat
      OBVIOUS
    <2> QED
      BY <1>3, <1>7, <2>1, <2>2 DEF Hands
  <1>10. p'.p_rpos <= p'.p_wpos /\ p'.p_wpos <= p'.p_rpos + PIPEBUFSIZ
    BY <1>3, <1>4
  <1> QED
    BY <1>5, <1>6, <1>7, <1>8, <1>9, <1>10 DEF StreamInv, StreamIntact

LEMMA StoreStream ==
  ASSUME TypeInv, StreamInv, NEW e \in Envs, StoreByte(e)
  PROVE  StreamInv'
  <1>1. pc[e] = "store" /\ pc'[e] = "stored" /\ got' = got /\ byte' = byte
    BY GotoPlaces DEF StoreByte
  <1>2. PICK r \in Nat, w \in Nat : r = p.p_rpos /\ w = p.p_wpos
    BY DEF TypeInv, BufTypes
  <1>3. w % PIPEBUFSIZ \in 0 .. PIPEBUFSIZ - 1
    BY Slot
  <1>4. p'.p_rpos = r /\ p'.p_wpos = w /\ p'.p_buf = [p.p_buf EXCEPT ![w % PIPEBUFSIZ] = w + 1]
    BY <1>2 DEF StoreByte, TypeInv, BufTypes
  <1>5. r <= w /\ w < r + PIPEBUFSIZ
    BY <1>1, <1>2 DEF StreamInv, Hands
  <1>6. /\ p'.p_buf[w % PIPEBUFSIZ] = w + 1
        /\ \A x \in 0 .. PIPEBUFSIZ - 1 : x # w % PIPEBUFSIZ => p'.p_buf[x] = p.p_buf[x]
    BY <1>3, <1>4 DEF TypeInv, BufTypes
  <1>7. ASSUME NEW i \in r .. w - 1
        PROVE  p'.p_buf[i % PIPEBUFSIZ] = i + 1
    <2>1. i \in Nat /\ i < w /\ w < i + PIPEBUFSIZ
      BY <1>5
    <2>2. i % PIPEBUFSIZ # w % PIPEBUFSIZ /\ i % PIPEBUFSIZ \in 0 .. PIPEBUFSIZ - 1
      BY <2>1, Slot, SlotsDiffer
    <2>3. p.p_buf[i % PIPEBUFSIZ] = i + 1
      BY <1>2 DEF StreamInv, StreamIntact
    <2> QED
      BY <1>6, <2>2, <2>3
  <1>8. StreamIntact'
    BY <1>1, <1>2, <1>4, <1>7 DEF StreamInv, StreamIntact
  <1>9. /\ \A f \in Envs \ {e} : pc'[f] = pc[f] /\ pc'[f] \notin {"store", "stored"}
        /\ Alone(Reading)' /\ Alone(Writing)'
    BY <1>1, CarryPlaces DEF Carries
  <1>10. Hands(e)'
    BY <1>1, <1>4, <1>5, <1>6 DEF Hands
  <1>11. \A f \in Envs \ {e} : Hands(f)'
    BY <1>1, <1>2, <1>4, <1>9 DEF StreamInv, Hands
  <1>12. (p.p_rpos <= p.p_wpos /\ p.p_wpos <= p.p_rpos + PIPEBUFSIZ)'
    BY <1>2, <1>4 DEF StreamInv
  <1> QED
    BY <1>8, <1>9, <1>10, <1>11, <1>12 DEF StreamInv

LEMMA IncWposStream ==
  ASSUME TypeInv, StreamInv, NEW e \in Envs, IncWpos(e)
  PROVE  StreamInv'
  <1>1. pc[e] = "stored" /\ pc'[e] = "write" /\ got' = got /\ byte' = byte
    BY GotoPlaces DEF IncWpos
  <1>2. PICK r \in Nat, w \in Nat : r = p.p_rpos /\ w = p.p_wpos
    BY DEF TypeInv, BufTypes
  <1>3. p'.p_rpos = r /\ p'.p_wpos = w + 1 /\ p'.p_buf = p.p_buf
    BY <1>2 DEF IncWpos, TypeInv, BufTypes
  <1>4. r <= w /\ w < r + PIPEBUFSIZ /\ p.p_buf[w % PIPEBUFSIZ] = w + 1
    BY <1>1, <1>2 DEF StreamInv, Hands
  <1>5. ASSUME NEW i \in r .. w
        PROVE  p.p_buf[i % PIPEBUFSIZ] = i + 1
    <2>1. CASE i = w
      BY <1>4, <2>1
    <2>2. CASE i # w
      <3>1. i \in r .. w - 1
        BY <2>2
      <3> QED
        BY <1>2, <3>1 DEF StreamInv, StreamIntact
    <2> QED
      BY <2>1, <2>2
  <1>6. StreamIntact'
    <2>1. p'.p_rpos .. p'.p_wpos - 1 = r .. w
      BY <1>3
    <2> QED
      BY <1>1, <1>2, <1>3, <1>5, <2>1 DEF StreamInv, StreamIntact
  <1>7. /\ \A f \in Envs \ {e} : pc'[f] = pc[f] /\ pc'[f] \notin {"store", "stored"}
        /\ Alone(Reading)' /\ Alone(Writing)'
    BY <1>1, CarryPlaces DEF Carries
  <1>8. Hands(e)'
    BY <1>1 DEF Hands
  <1>9. ASSUME NEW f \in Envs \ {e}
        PROVE  Hands(f)'
    <2>1. (pc[f] \in {"take", "taken"} => r < w) /\ (pc[f] = "taken" => byte[f] = r + 1)
      BY <1>2 DEF StreamInv, Hands
    <2> QED
      BY <1>1, <1>3, <1>7, <2>1 DEF Hands
  <1>10. p'.p_rpos <= p'.p_wpos /\ p'.p_wpos <= p'.p_rpos + PIPEBUFSIZ
    BY <1>3, <1>4
  <1> QED
    BY <1>6, <1>7, <1>8, <1>9, <1>10 DEF StreamInv

LEMMA InitStream == Init => StreamInv
  <1> SUFFICES ASSUME Init
               PROVE  StreamInv
    OBVIOUS
  <1>1. \A e \in Envs : pc[e] \in {"idle", "unborn"}
    BY DEF Init
  <1>2. Alone(Reading) /\ Alone(Writing) /\ \A e \in Envs : Hands(e)
    BY <1>1 DEF Alone, Hands, Reading, Writing
  <1>3. p.p_rpos = 0 /\ p.p_wpos = 0 /\ got = <<>>
    BY DEF Init
  <1>4. StreamIntact
    BY <1>3 DEF StreamIntact
  <1> QED
    BY <1>2, <1>3, <1>4 DEF StreamInv

LEMMA NextStream ==
  ASSUME {"oneReader", "oneWriter"} \subseteq Conventions, TypeInv, PairInv, StreamInv, Next
  PROVE  StreamInv'
  <1>1. PICK e \in Envs : LocalSteps(e) \/ SpawnSteps(e)
    BY NextIs
  <1>2. CASE Carries(e)
    BY <1>2, TestStream, TakeStream, IncRposStream, StoreStream, IncWposStream DEF Carries
  <1>3. CASE LocalSteps(e) /\ ~Carries(e)
    BY <1>3, StepsLocal, LocalAside, AsideStream
  <1>4. CASE SpawnSteps(e)
    BY <1>4, SpawnStream
  <1> QED
    BY <1>1, <1>2, <1>3, <1>4

LEMMA SameStream == vars' = vars /\ StreamInv => StreamInv'
  <1> SUFFICES ASSUME vars' = vars, StreamInv
               PROVE  StreamInv'
    OBVIOUS
  <1>1. pc' = pc /\ p' = p /\ got' = got /\ byte' = byte
    BY DEF vars
  <1> QED
    BY <1>1 DEF StreamInv, Alone, Hands, StreamIntact

(* The bytes come out of a pipe in the order they went in, for pipes of    *)
(* any size, with one reader and one writer at a time, wherever the two    *)
(* are interrupted, destroyed or replaced by another environment.          *)
THEOREM StreamIntactHolds ==
  ASSUME {"oneReader", "oneWriter"} \subseteq Conventions
  PROVE  Spec => []StreamIntact
  <1>1. Init => StreamInv
    BY InitStream
  <1>2. (TypeInv /\ PairInv) /\ StreamInv /\ [Next]_vars => StreamInv'
    BY NextStream, SameStream
  <1>3. StreamInv => StreamIntact
    BY DEF StreamInv
  <1> QED
    BY <1>1, <1>2, <1>3, PairInvariant, PTL DEF Spec

=============================================================================
