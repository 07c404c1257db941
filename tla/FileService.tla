----------------------------- MODULE FileService -----------------------------
(***************************************************************************)
(* What a client of the file server sees: files, open file descriptions    *)
(* that descriptors refer to, and calls that take effect at one moment     *)
(* between their start and their return.                                   *)
(*                                                                         *)
(* A descriptor that has been through a fork ("cow") keeps its description *)
(* until the client seeks.  From then on ("own") a seek moves nothing, and *)
(* its calls act on the description for as long as somebody else has it    *)
(* open, and fail after that.                                              *)
(***************************************************************************)
EXTENDS Integers, Sequences, FiniteSets

CONSTANTS Clients, Fds, Names, Initial, NoOne, NoReq, Sizes, MAXOPEN, FILEMAX

VARIABLES
  files,  \* files[n]: <<>> if there is none, <<s>> if its content is s
  desc,   \* the open file descriptions: [file, offset]
  fds,    \* fds[c][k]: [desc, omode, how] of descriptor k of c, or NoOne
  st,     \* "unborn", "idle", "called", "done", "stopped" or "dead"
  arg,    \* the call in progress
  res     \* its result once it is done

vars == <<files, desc, fds, st, arg, res>>

Init ==
  /\ files \in [Names -> Initial]
  /\ desc = [d \in {} |-> NoOne]
  /\ fds = [c \in Clients |-> [k \in Fds |-> NoOne]]
  /\ \A c \in Clients : st[c] \in {"unborn", "idle"} /\ arg[c] = NoReq /\ res[c] = <<>>

Fill(s, n) == [k \in 1 .. n |-> IF k <= Len(s) THEN s[k] ELSE 0]
Longer(a, b) == IF a < b THEN b ELSE a
Shorter(a, b) == IF a < b THEN a ELSE b

\* A description lives for as long as a descriptor refers to it.
Refers(fd) == fd # NoOne /\ fd.how # "own"
Referred(f) == {f[p[1]][p[2]].desc : p \in {q \in Clients \X Fds : Refers(f[q[1]][q[2]])}}
Kept == desc' = [d \in Referred(fds') |-> desc[d]]
Others(c, v, w) == \A b \in Clients \ {c} : w[b] = v[b]

Call(c) ==
  /\ st[c] = "idle"
  /\ st' = [st EXCEPT ![c] = "called"]
  /\ Others(c, arg, arg')
  /\ arg'[c].type \notin {"OPEN", "SYNC"} =>
       fds[c][arg'[c].fd] # NoOne /\ arg'[c].req_fileid = fds[c][arg'[c].fd].desc
  /\ UNCHANGED <<files, desc, fds, res>>

\* An open that succeeds makes or truncates the file.
Opened(a) ==
  /\ files[a.path] # <<>> => ~({"O_CREAT", "O_EXCL"} \subseteq a.flags)
  /\ files[a.path] = <<>> => "O_CREAT" \in a.flags
  /\ files' = IF files[a.path] = <<>> \/ "O_TRUNC" \in a.flags
              THEN [files EXCEPT ![a.path] = <<(<<>>)>>] ELSE files

OpenErrors(a) ==
  {-4} \cup (IF Cardinality(DOMAIN desc) >= MAXOPEN THEN {-10} ELSE {})
       \cup (IF files[a.path] # <<>> THEN {-13} ELSE IF "O_CREAT" \in a.flags THEN {-9} ELSE {-11})

\* What a call does to the file and the position of description d.
OnDesc(d, a, r) ==
  LET s == files[desc[d].file][1]
      at == desc[d].offset
      Set(t) == files' = [files EXCEPT ![desc[d].file] = <<t>>]
      Move(n) == desc' = [desc EXCEPT ![d].offset = at + n]
      end == Shorter(Len(s), at + a.req_n)
      data == [k \in 1 .. Longer(0, end - at) |-> s[at + k]]
      longer == Fill(s, Longer(Len(s), at + 1))
  IN  \/ /\ a.type = "READ" /\ (end <= at \/ end <= FILEMAX)
         /\ Move(Len(data)) /\ UNCHANGED files /\ r = <<Len(data), data>>
      \/ /\ a.type = "READ" /\ UNCHANGED <<files, desc>>
         /\ \/ end > at /\ end > FILEMAX /\ r = <<-3>>
            \/ (\E k \in at + 1 .. Shorter(end, FILEMAX) : s[k] = 0) /\ r = <<-9>>
      \/ /\ a.type = "WRITE" /\ at < FILEMAX
         /\ Move(1) /\ Set([longer EXCEPT ![at + 1] = a.req_buf]) /\ r = <<1>>
      \/ /\ a.type = "WRITE" /\ UNCHANGED desc /\ Set(longer)
         /\ \/ at >= FILEMAX /\ r = <<-3>>
            \/ at < FILEMAX /\ longer[at + 1] = 0 /\ r = <<-9>>
      \/ a.type = "SET_SIZE" /\ Set(Fill(s, a.req_size)) /\ UNCHANGED desc /\ r = <<0>>
      \/ a.type = "STAT" /\ UNCHANGED <<files, desc>> /\ r = <<0, <<desc[d].file, Len(s)>>>>
      \/ a.type = "FLUSH" /\ UNCHANGED <<files, desc>> /\ r = <<0>>

\* Every call but an open that succeeds.
Effect(a, r) ==
  \/ /\ a.type \notin {"OPEN", "SYNC"}
     /\ IF a.req_fileid \in DOMAIN desc THEN OnDesc(a.req_fileid, a, r)
        ELSE r = <<-3>> /\ UNCHANGED <<files, desc>>
  \/ a.type = "SYNC" /\ r = <<0>> /\ UNCHANGED <<files, desc>>
  \/ a.type = "OPEN" /\ (\E e \in OpenErrors(a) : r = <<e>>) /\ UNCHANGED <<files, desc>>

\* A new description, unknown to every descriptor, at the beginning of the file.
NewDesc(c, a, d) ==
  /\ \A b \in Clients, k \in Fds : fds[b][k] # NoOne => fds[b][k].desc # d
  /\ fds' = [fds EXCEPT ![c][a.fd] = [desc |-> d, omode |-> a.omode, how |-> "share"]]
  /\ desc' = [e \in Referred(fds') |-> IF e = d THEN [file |-> a.path, offset |-> 0] ELSE desc[e]]

Serve(c) ==
  /\ st[c] = "called"
  /\ st' = [st EXCEPT ![c] = "done"]
  /\ Others(c, res, res')
  /\ \/ Effect(arg[c], res'[c]) /\ UNCHANGED fds
     \/ /\ arg[c].type = "OPEN" /\ Opened(arg[c]) /\ res'[c] = <<0>>
        /\ NewDesc(c, arg[c], fds'[c][arg[c].fd].desc)
  /\ UNCHANGED arg

\* A call of a client that died may still be served.
ServeDead(c) ==
  /\ st[c] = "dead" /\ arg[c] # NoReq
  /\ arg' = [arg EXCEPT ![c] = NoReq]
  /\ Others(c, res, res')
  /\ \/ Effect(arg[c], res'[c])
     \/ arg[c].type = "OPEN" /\ Opened(arg[c]) /\ UNCHANGED desc
  /\ UNCHANGED <<fds, st>>

\* A close ends by giving its descriptor up.
Return(c) ==
  /\ st[c] = "done"
  /\ st' = [st EXCEPT ![c] = "idle"]
  /\ fds' = IF arg[c].type = "FLUSH" THEN [fds EXCEPT ![c][arg[c].fd] = NoOne] ELSE fds
  /\ arg' = [arg EXCEPT ![c] = NoReq]
  /\ res' = [res EXCEPT ![c] = <<>>]
  /\ Kept
  /\ UNCHANGED files

Seek(c) ==
  /\ st[c] = "idle"
  /\ \E k \in Fds, n \in Sizes :
       /\ fds[c][k] # NoOne
       /\ IF fds[c][k].how = "share"
          THEN desc' = [desc EXCEPT ![fds[c][k].desc].offset = n] /\ UNCHANGED fds
          ELSE fds' = [fds EXCEPT ![c][k].how = "own"] /\ Kept
  /\ UNCHANGED <<files, st, arg, res>>

\* c creates d by fork, or by spawn, which gives it the descriptors that have
\* not been through a fork; or it fails to, after the first n descriptors.
AfterFork(f) == [f EXCEPT !.how = IF @ = "own" THEN @ ELSE "cow"]

Fork(c, d, n) ==
  fds' = [fds EXCEPT
    ![c] = [k \in Fds |-> IF k < n /\ @[k] # NoOne THEN AfterFork(@[k]) ELSE @[k]],
    ![d] = [k \in Fds |-> IF k < n /\ fds[c][k] # NoOne THEN AfterFork(fds[c][k]) ELSE NoOne]]

Spawn(c, d, n) ==
  fds' = [fds EXCEPT
    ![d] = [k \in Fds |-> IF k < n /\ fds[c][k] # NoOne /\ fds[c][k].how = "share" THEN fds[c][k] ELSE NoOne]]

Create(c, d) ==
  /\ st[c] = "idle" /\ st[d] = "unborn"
  /\ \/ st' = [st EXCEPT ![d] = "idle"] /\ \E n \in {Cardinality(Fds)} : Fork(c, d, n) \/ Spawn(c, d, n)
     \/ \E n \in 0 .. Cardinality(Fds) :
          \/ st' = [st EXCEPT ![d] = "stopped"] /\ Fork(c, d, n)
          \/ st' = [st EXCEPT ![c] = "stopped", ![d] = "stopped"] /\ Spawn(c, d, n)
  /\ UNCHANGED <<files, desc, arg, res>>

\* A client that stops keeps its descriptors.
Stop(c) ==
  /\ st[c] \in {"idle", "called"}
  /\ st' = [st EXCEPT ![c] = "stopped"]
  /\ arg' = [arg EXCEPT ![c] = NoReq]
  /\ UNCHANGED <<files, desc, fds, res>>

Die(c) ==
  /\ st[c] \notin {"unborn", "dead"}
  /\ st' = [st EXCEPT ![c] = "dead"]
  /\ fds' = [fds EXCEPT ![c] = [k \in Fds |-> NoOne]]
  /\ Kept
  /\ Others(c, arg, arg') /\ arg'[c] \in {arg[c], NoReq} /\ (st[c] = "done" => arg'[c] = NoReq)
  /\ Others(c, res, res')
  /\ UNCHANGED files

Next ==
  \/ \E c \in Clients :
       Call(c) \/ Serve(c) \/ ServeDead(c) \/ Return(c) \/ Seek(c) \/ Stop(c) \/ Die(c)
  \/ \E c, d \in Clients : Create(c, d)

Spec == Init /\ [][Next]_vars

=============================================================================
