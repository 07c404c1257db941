-------------------------------- MODULE Pipe ---------------------------------
(***************************************************************************)
(* Pipes between environments (lib/pipe.c) and the descriptor calls that   *)
(* move their ends about: close and dup of lib/fd.c, and the copy of shared*)
(* pages that gives the ends to a spawned child.  exit and close_all are a *)
(* close of every descriptor; an environment without one does nothing here.*)
(*                                                                         *)
(* One pipe is three pages: the Fd page of its read end, that of its write *)
(* end, and the data page.  An environment maps an Fd page at a descriptor *)
(* and the data page beside it.  Nobody counts the ends: an end decides    *)
(* that the other one is gone when its Fd page has as many mappings as the *)
(* data page.  A step is a system call or an access to the shared page, and*)
(* environments may be preempted between any two steps.                    *)
(***************************************************************************)
EXTENDS Integers, FiniteSets, Sequences

CONSTANTS
  Envs,
  First,        \* the environment that makes the pipe
  NoOne,
  MAXFD,        \* descriptors of an environment
  PIPEBUFSIZ,
  CPUS,         \* CPUs the environments run on
  Counts,       \* lengths of reads and writes
  BYTEMAX,      \* bound on the bytes written to the pipe
  EXTRAMAX,     \* bound on the calls of dup and pipeisclosed and the environments destroyed
  Conventions   \* what the users of the pipe keep to: a subset of AllConventions

\* oneReader, oneWriter: no two environments are in devpipe_read, or in
\* devpipe_write, at once.  spawnSole: an environment spawns only while no
\* other one maps an end of the pipe that it maps itself.
AllConventions == {"oneReader", "oneWriter", "spawnSole"}

ASSUME PipeAssumption ==
  /\ IsFiniteSet(Envs) /\ First \in Envs
  /\ NoOne \notin Envs \cup {"rfd", "wfd"}
  /\ {MAXFD, PIPEBUFSIZ, CPUS} \subseteq Nat \ {0}
  /\ Counts \subseteq Nat \ {0}
  /\ Conventions \subseteq AllConventions

VARIABLES
  pc,     \* where each environment is
  arg,    \* the descriptor, and for dup and spawn the target, of its call
  left,   \* bytes its read or write has still to move
  moved,  \* whether it has moved any (i > 0)
  ref,    \* pageref(fd), read by _pipeisclosed
  byte,   \* the byte its read has copied, until p_rpos is incremented
  fdm,    \* fdm[e][k]: the Fd page at descriptor k: "rfd", "wfd" or NoOne
  dm,     \* dm[e][k]: whether the data page is mapped beside it
  p,      \* struct Pipe: [p_rpos, p_wpos, p_buf]
  got,    \* the bytes that were taken out, in order
  calm,   \* the environment in _pipeisclosed since whose look at env_runs no other ran, or NoOne
  extras  \* calls of dup and pipeisclosed, and environments destroyed, so far

vars == <<pc, arg, left, moved, ref, byte, fdm, dm, p, got, calm, extras>>

Fds == 0 .. MAXFD - 1
NoFd == [k \in Fds |-> NoOne]
NoData == [k \in Fds |-> FALSE]
NoArg == [fd |-> NoOne, to |-> NoOne, then |-> "idle"]

Init ==
  /\ pc = [e \in Envs |-> IF e = First THEN "idle" ELSE "unborn"]
  /\ arg = [e \in Envs |-> NoArg]
  /\ left = [e \in Envs |-> 0]
  /\ moved = [e \in Envs |-> FALSE]
  /\ ref = [e \in Envs |-> 0]
  /\ byte = [e \in Envs |-> 0]
  /\ fdm = [e \in Envs |-> NoFd]
  /\ dm = [e \in Envs |-> NoData]
  /\ p = [p_rpos |-> 0, p_wpos |-> 0, p_buf |-> [j \in 0 .. PIPEBUFSIZ - 1 |-> 0]]
  /\ got = <<>>
  /\ calm = NoOne
  /\ extras = 0

-----------------------------------------------------------------------------
(* Pages and their counts. *)

Ends == {"rfd", "wfd"}
Other(end) == IF end = "rfd" THEN "wfd" ELSE "rfd"
Maps(e, end) == \E k \in Fds : fdm[e][k] = end
Open(e) == {k \in Fds : fdm[e][k] # NoOne}

\* pageref of an Fd page, and of the data page.
FdRef(end) == Cardinality({m \in Envs \X Fds : fdm[m[1]][m[2]] = end})
DataRef == Cardinality({m \in Envs \X Fds : dm[m[1]][m[2]]})

Lowest(ks) == {k \in ks : \A j \in ks : k <= j}

\* fd_alloc: the first descriptor without a page.
FdAlloc(e) == Lowest({k \in Fds : fdm[e][k] = NoOne})

\* The environment e runs, and goes on at l.
Goto(e, l) ==
  /\ pc' = [pc EXCEPT ![e] = l]
  /\ calm' = IF l \in {"rdata", "wdata", "pdata"} THEN e ELSE NoOne

\* A call of e ends.
Return(e) ==
  /\ Goto(e, "idle")
  /\ arg' = [arg EXCEPT ![e] = NoArg]
  /\ left' = [left EXCEPT ![e] = 0]
  /\ moved' = [moved EXCEPT ![e] = FALSE]
  /\ ref' = [ref EXCEPT ![e] = 0]

Extra == extras < EXTRAMAX /\ extras' = extras + 1

Stay == UNCHANGED <<left, moved, ref, byte, got, p, extras>>

-----------------------------------------------------------------------------
(* pipe. *)

\* Every page of the pipe is free, and it was not used before.
Fresh == got = <<>> /\ p.p_wpos = 0 /\ \A e \in Envs : fdm[e] = NoFd /\ dm[e] = NoData

PipeFd0(e) ==
  /\ pc[e] = "idle" /\ Fresh
  /\ \E k \in FdAlloc(e) : fdm' = [fdm EXCEPT ![e][k] = "rfd"]
  /\ Goto(e, "pipe1")
  /\ Stay /\ UNCHANGED <<arg, dm>>

PipeFd1(e) ==
  /\ pc[e] = "pipe1"
  /\ \E k \in FdAlloc(e) : fdm' = [fdm EXCEPT ![e][k] = "wfd"]
  /\ Goto(e, "pipe2")
  /\ Stay /\ UNCHANGED <<arg, dm>>

\* The data page is allocated beside fd0, and then mapped beside fd1.
PipeData(e) ==
  /\ pc[e] \in {"pipe2", "pipe3"}
  /\ \E k \in Fds :
       /\ fdm[e][k] = IF pc[e] = "pipe2" THEN "rfd" ELSE "wfd"
       /\ dm' = [dm EXCEPT ![e][k] = TRUE]
  /\ Goto(e, IF pc[e] = "pipe2" THEN "pipe3" ELSE "idle")
  /\ Stay /\ UNCHANGED <<arg, fdm>>

\* A call of pipe fails: err3, err2 and err1 undo, last first, what was done.
PipeFails(e) ==
  /\ pc[e] \in {"pipe1", "pipe2", "pipe3"}
  /\ fdm' = [fdm EXCEPT ![e] = [k \in Fds |->
               IF @[k] = "rfd" \/ (pc[e] # "pipe1" /\ @[k] = "wfd") THEN NoOne ELSE @[k]]]
  /\ dm' = [dm EXCEPT ![e] = [k \in Fds |-> @[k] /\ ~(pc[e] = "pipe3" /\ fdm[e][k] = "rfd")]]
  /\ Goto(e, "idle")
  /\ Stay /\ UNCHANGED arg

-----------------------------------------------------------------------------
(* close, close_all and dup. *)

\* close, fd_close: devpipe_close unmaps the Fd page, and in a second call
\* the data page.
Close(e) ==
  /\ pc[e] = "idle"
  /\ \E k \in Open(e) :
       /\ fdm' = [fdm EXCEPT ![e][k] = NoOne]
       /\ arg' = [arg EXCEPT ![e] = [NoArg EXCEPT !.fd = k]]
  /\ Goto(e, "close")
  /\ Stay /\ UNCHANGED dm

\* The call goes on; dup turns from the new descriptor to the old one.
AfterClose(a) == IF a.then = "dup" THEN [fd |-> a.to, to |-> a.fd, then |-> "idle"] ELSE NoArg

\* Mutant: the data page stays mapped.
CloseDataForgotten(e) ==
  /\ pc[e] = "close"
  /\ arg' = [arg EXCEPT ![e] = AfterClose(@)]
  /\ Goto(e, arg[e].then)
  /\ Stay /\ UNCHANGED <<fdm, dm>>

CloseData(e) ==
  /\ pc[e] = "close"
  /\ dm' = [dm EXCEPT ![e][arg[e].fd] = FALSE]
  /\ arg' = [arg EXCEPT ![e] = AfterClose(@)]
  /\ Goto(e, arg[e].then)
  /\ Stay /\ UNCHANGED fdm

Gone(e) ==
  /\ pc' = [pc EXCEPT ![e] = "dead"]
  /\ fdm' = [fdm EXCEPT ![e] = NoFd]
  /\ dm' = [dm EXCEPT ![e] = NoData]
  /\ arg' = [arg EXCEPT ![e] = NoArg]
  /\ left' = [left EXCEPT ![e] = 0]
  /\ moved' = [moved EXCEPT ![e] = FALSE]
  /\ ref' = [ref EXCEPT ![e] = 0]
  /\ byte' = [byte EXCEPT ![e] = 0]
  /\ calm' = NoOne
  /\ UNCHANGED <<p, got>>

\* e is destroyed, whatever it is doing; env_free drops all its pages in one
\* system call.
Killed(e) ==
  /\ pc[e] \notin {"unborn", "built", "dead"}
  /\ Extra
  /\ Gone(e)

\* dup(old, new): the old new is closed, then the data page mapped, then the
\* Fd page.
Dup(e) ==
  /\ pc[e] = "idle" /\ Extra
  /\ \E old \in Open(e), new \in Fds :
       IF new \in Open(e)
       THEN /\ fdm' = [fdm EXCEPT ![e][new] = NoOne]
            /\ arg' = [arg EXCEPT ![e] = [fd |-> new, to |-> old, then |-> "dup"]]
            /\ Goto(e, "close")
       ELSE /\ arg' = [arg EXCEPT ![e] = [fd |-> old, to |-> new, then |-> "idle"]]
            /\ Goto(e, "dup")
            /\ UNCHANGED fdm
  /\ UNCHANGED <<left, moved, ref, byte, got, p, dm>>

DupData(e) ==
  /\ pc[e] = "dup" /\ dm[e][arg[e].fd]
  /\ dm' = [dm EXCEPT ![e][arg[e].to] = TRUE]
  /\ Goto(e, "dupfd")
  /\ Stay /\ UNCHANGED <<arg, fdm>>

DupFd(e) ==
  /\ pc[e] = "dupfd"
  /\ fdm' = [fdm EXCEPT ![e][arg[e].to] = fdm[e][arg[e].fd]]
  /\ arg' = [arg EXCEPT ![e] = NoArg]
  /\ Goto(e, "idle")
  /\ Stay /\ UNCHANGED dm

\* Mutant: only the Fd page is unmapped.
DupFailsKeepsData(e) ==
  /\ pc[e] \in {"dup", "dupfd"}
  /\ fdm' = [fdm EXCEPT ![e][arg[e].to] = NoOne]
  /\ arg' = [arg EXCEPT ![e] = NoArg]
  /\ Goto(e, "idle")
  /\ Stay /\ UNCHANGED dm

\* A sys_page_map of dup fails (also because old was new): both pages are
\* unmapped.
DupFails(e) ==
  /\ pc[e] \in {"dup", "dupfd"}
  /\ fdm' = [fdm EXCEPT ![e][arg[e].to] = NoOne]
  /\ dm' = [dm EXCEPT ![e][arg[e].to] = FALSE]
  /\ arg' = [arg EXCEPT ![e] = NoArg]
  /\ Goto(e, "idle")
  /\ Stay

-----------------------------------------------------------------------------
(* spawn: copy_shared_pages. *)

MaySpawn(e) ==
  "spawnSole" \in Conventions =>
     \A f \in Envs \ {e} : \A end \in Ends : ~(Maps(e, end) /\ Maps(f, end))

Spawn(e, c) ==
  /\ pc[e] = "idle" /\ pc[c] = "unborn"
  /\ Open(e) # {} /\ MaySpawn(e)
  /\ arg' = [arg EXCEPT ![e] = [fd |-> NoOne, to |-> c, then |-> "idle"]]
  /\ pc' = [pc EXCEPT ![e] = "spawn", ![c] = "built"]
  /\ calm' = NoOne
  /\ Stay /\ UNCHANGED <<fdm, dm>>

\* The shared pages are mapped in the order of their addresses: the Fd pages,
\* and then the data pages.
CopySharedPages(e) ==
  /\ pc[e] = "spawn"
  /\ LET c == arg[e].to
         todo == {k \in Open(e) : fdm[c][k] = NoOne}
         more == {k \in Fds : dm[e][k] /\ ~dm[c][k]}
     IN  \/ /\ \E k \in Lowest(todo) : fdm' = [fdm EXCEPT ![c][k] = fdm[e][k]]
            /\ UNCHANGED dm
         \/ /\ todo = {}
            /\ \E k \in Lowest(more) : dm' = [dm EXCEPT ![c][k] = TRUE]
            /\ UNCHANGED fdm
  /\ calm' = NoOne
  /\ Stay /\ UNCHANGED <<pc, arg>>

\* sys_env_set_status makes the child runnable.
Spawned(e) ==
  /\ pc[e] = "spawn"
  /\ fdm[arg[e].to] = fdm[e] /\ dm[arg[e].to] = dm[e]
  /\ pc' = [pc EXCEPT ![e] = "idle", ![arg[e].to] = "idle"]
  /\ calm' = NoOne
  /\ arg' = [arg EXCEPT ![e] = NoArg]
  /\ Stay /\ UNCHANGED <<fdm, dm>>

-----------------------------------------------------------------------------
(* devpipe_read, devpipe_write and pipeisclosed. *)

Reading == {"read", "take", "taken", "rfd", "rdata"}
Writing == {"write", "store", "stored", "wfd", "wdata"}
Polling == {"pfd", "pdata"}

\* A call of e on descriptor k starts at l.
Call(e, k, n, l) ==
  /\ pc[e] = "idle"
  /\ arg' = [arg EXCEPT ![e] = [NoArg EXCEPT !.fd = k]]
  /\ left' = [left EXCEPT ![e] = n]
  /\ Goto(e, l)
  /\ UNCHANGED <<moved, ref, byte, fdm, dm, p, got>>

Read(e) ==
  /\ "oneReader" \in Conventions => \A f \in Envs : pc[f] \notin Reading
  /\ \E k \in Fds, n \in Counts : fdm[e][k] = "rfd" /\ Call(e, k, n, "read")
  /\ UNCHANGED extras

Write(e) ==
  /\ "oneWriter" \in Conventions => \A f \in Envs : pc[f] \notin Writing
  /\ \E k \in Fds, n \in Counts :
       fdm[e][k] = "wfd" /\ p.p_wpos + n <= BYTEMAX /\ Call(e, k, n, "write")
  /\ UNCHANGED extras

Pipeisclosed(e) == Extra /\ \E k \in Open(e) : Call(e, k, 0, "pfd")

Empty == p.p_rpos = p.p_wpos

\* Mutant: the test for a full buffer is off by one.
FullLate == p.p_wpos > p.p_rpos + PIPEBUFSIZ

Full == p.p_wpos >= p.p_rpos + PIPEBUFSIZ

\* The head of either loop: done, a byte to move, or nothing to do.
ReadTest(e) ==
  /\ pc[e] = "read"
  /\ \/ /\ left[e] = 0 \/ (Empty /\ moved[e])
        /\ Return(e)
     \/ /\ left[e] > 0 /\ ~(Empty /\ moved[e])
        /\ Goto(e, IF Empty THEN "rfd" ELSE "take")
        /\ UNCHANGED <<arg, left, moved, ref>>
  /\ UNCHANGED <<byte, fdm, dm, p, got, extras>>

\* The byte is copied, and only then is p_rpos incremented.
TakeByte(e) ==
  /\ pc[e] = "take"
  /\ byte' = [byte EXCEPT ![e] = p.p_buf[p.p_rpos % PIPEBUFSIZ]]
  /\ Goto(e, "taken")
  /\ UNCHANGED <<arg, left, moved, ref, fdm, dm, p, got, extras>>

IncRpos(e) ==
  /\ pc[e] = "taken"
  /\ got' = Append(got, byte[e])
  /\ byte' = [byte EXCEPT ![e] = 0]
  /\ p' = [p EXCEPT !.p_rpos = @ + 1]
  /\ left' = [left EXCEPT ![e] = @ - 1]
  /\ moved' = [moved EXCEPT ![e] = TRUE]
  /\ Goto(e, "read")
  /\ UNCHANGED <<arg, ref, fdm, dm, extras>>

WriteTest(e) ==
  /\ pc[e] = "write"
  /\ \/ /\ left[e] = 0
        /\ Return(e)
     \/ /\ left[e] > 0
        /\ Goto(e, IF Full THEN "wfd" ELSE "store")
        /\ UNCHANGED <<arg, left, moved, ref>>
  /\ UNCHANGED <<byte, fdm, dm, p, got, extras>>

\* The bytes written are numbered: the next one is p_wpos + 1.
StoreByte(e) ==
  /\ pc[e] = "store"
  /\ p' = [p EXCEPT !.p_buf[p.p_wpos % PIPEBUFSIZ] = p.p_wpos + 1]
  /\ Goto(e, "stored")
  /\ UNCHANGED <<arg, left, moved, ref, byte, fdm, dm, got, extras>>

IncWpos(e) ==
  /\ pc[e] = "stored"
  /\ p' = [p EXCEPT !.p_wpos = @ + 1]
  /\ left' = [left EXCEPT ![e] = @ - 1]
  /\ Goto(e, "write")
  /\ UNCHANGED <<arg, moved, ref, byte, fdm, dm, got, extras>>

\* _pipeisclosed reads env_runs and the count of the Fd page ...
DataLabel(l) == CASE l = "rfd" -> "rdata" [] l = "wfd" -> "wdata" [] l = "pfd" -> "pdata"
FdLabel(l) == CASE l = "rdata" -> "rfd" [] l = "wdata" -> "wfd" [] l = "pdata" -> "pfd"
LoopLabel(l) == CASE l = "rdata" -> "read" [] l = "wdata" -> "write" [] l = "pdata" -> "idle"

CountFd(e) ==
  /\ pc[e] \in {"rfd", "wfd", "pfd"}
  /\ ref' = [ref EXCEPT ![e] = FdRef(fdm[e][arg[e].fd])]
  /\ Goto(e, DataLabel(pc[e]))
  /\ UNCHANGED <<arg, left, moved, byte, fdm, dm, p, got, extras>>

\* Mutant: no second look at env_runs.
NotPreemptedSurely(e) == TRUE

\* ... then the count of the data page, and env_runs again.  It has changed
\* if e was preempted; on one CPU no other environment runs unless e was.
NotPreempted(e) == calm = e \/ CPUS > 1

CountData(e) ==
  /\ pc[e] \in {"rdata", "wdata", "pdata"}
  /\ NotPreempted(e)
  /\ \/ /\ ref[e] = DataRef
        /\ Goto(e, IF pc[e] = "rdata" THEN "eof" ELSE "gone")
        /\ ref' = [ref EXCEPT ![e] = 0]
        /\ UNCHANGED <<arg, left, moved>>
     \/ /\ ref[e] # DataRef
        /\ IF pc[e] = "pdata" THEN Return(e)
           ELSE /\ Goto(e, LoopLabel(pc[e]))
                /\ ref' = [ref EXCEPT ![e] = 0]
                /\ UNCHANGED <<arg, left, moved>>
  /\ UNCHANGED <<byte, fdm, dm, p, got, extras>>

\* The call returns: 0 from a read or a write, 1 from pipeisclosed.
Told(e) == pc[e] \in {"eof", "gone"} /\ Return(e) /\ UNCHANGED <<byte, fdm, dm, p, got, extras>>

RaceAvoided(e) ==
  /\ pc[e] \in {"rdata", "wdata", "pdata"} /\ calm # e
  /\ Goto(e, FdLabel(pc[e]))
  /\ ref' = [ref EXCEPT ![e] = 0]
  /\ UNCHANGED <<arg, left, moved, byte, fdm, dm, p, got, extras>>

-----------------------------------------------------------------------------
\* A call goes on.
Step(e) ==
  \/ PipeFd1(e) \/ PipeData(e) \/ PipeFails(e) \/ CloseData(e)
  \/ DupData(e) \/ DupFd(e) \/ DupFails(e) \/ CopySharedPages(e) \/ Spawned(e)
  \/ ReadTest(e) \/ TakeByte(e) \/ IncRpos(e) \/ WriteTest(e) \/ StoreByte(e) \/ IncWpos(e)
  \/ CountFd(e) \/ CountData(e) \/ RaceAvoided(e) \/ Told(e)

\* A call starts.
Start(e) ==
  \/ PipeFd0(e) \/ Close(e) \/ Dup(e) \/ Read(e) \/ Write(e) \/ Pipeisclosed(e)
  \/ \E c \in Envs : Spawn(e, c)

Next == \E e \in Envs : Step(e) \/ Start(e) \/ Killed(e)

\* The round robin runs every environment, and its time slice is long enough
\* for _pipeisclosed not to be interrupted every time.
Fairness ==
  \A e \in Envs : WF_vars(Step(e)) /\ SF_vars(CountData(e) /\ calm = e)

Spec == Init /\ [][Next]_vars /\ Fairness

-----------------------------------------------------------------------------
(* Properties. *)

Alive(end) == \E e \in Envs : pc[e] # "built" /\ Maps(e, end)

(* An environment that finds the other end gone is right: no environment  *)
(* has that end open, although _pipeisclosed reads the two counts one      *)
(* after the other while closes, dups and spawns change them one after the *)
(* other.                                                                  *)
ClosedIsTrue ==
  \A e \in Envs : pc[e] \in {"eof", "gone"} => ~Alive(Other(fdm[e][arg[e].fd]))

(* The bytes come out in the order they went in, none lost, repeated or    *)
(* overwritten before it was read, whichever environments read and write   *)
(* and wherever they are interrupted or destroyed.                         *)
StreamIntact ==
  /\ got = [i \in 1 .. p.p_rpos |-> i]
  /\ \A i \in p.p_rpos .. p.p_wpos - 1 : p.p_buf[i % PIPEBUFSIZ] = i + 1

Rearranging == {"pipe1", "pipe2", "pipe3", "close", "dup", "dupfd", "built"}

(* Outside pipe, close and dup a descriptor and its data page are there    *)
(* together or not at all, also when those calls failed half way: the      *)
(* counts that _pipeisclosed compares rest on it.                          *)
EndsPaired ==
  \A e \in Envs : pc[e] \notin Rearranging => \A k \in Fds : fdm[e][k] # NoOne <=> dm[e][k]

\* A child whose parent was destroyed while it built it.
Abandoned ==
  \E c \in Envs : /\ pc[c] = "built"
                  /\ \A e \in Envs : ~(pc[e] = "spawn" /\ arg[e].to = c)

Nobody(end) == \A e \in Envs : ~Maps(e, end)

(* Reads that wait for bytes end when the last write end is closed, and    *)
(* writes that wait for room when the last read end is; only a half-built  *)
(* child that was abandoned can keep them waiting.                         *)
WaitEnds ==
  /\ Nobody("wfd") ~> Abandoned \/ \A e \in Envs : pc[e] \notin Reading
  /\ Nobody("rfd") ~> Abandoned \/ \A e \in Envs : pc[e] \notin Writing

(* What devpipe_read says of itself: it notes the end of the file when the *)
(* pipe is empty and all the writers are gone.                             *)
EofMeansDrained == \A e \in Envs : pc[e] = "eof" => p.p_rpos = p.p_wpos

=============================================================================
