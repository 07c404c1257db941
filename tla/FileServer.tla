----------------------------- MODULE FileServer ------------------------------
(***************************************************************************)
(* The file server's loop (fs/serv.c) and its clients (lib/file.c and the  *)
(* file calls of lib/fd.c), which talk by the IPC library (lib/ipc.c).     *)
(*                                                                         *)
(* The kernel's part in an IPC is what Syscall says of sys_ipc_try_send    *)
(* and sys_ipc_recv; an attempt that finds the receiver not receiving      *)
(* changes nothing and is not a step, and memory may be exhausted whenever *)
(* a page or a page table is needed.  A file is a sequence of cells, each  *)
(* of them a block or a hole; the disk may be full at any time.  The       *)
(* request page is the client's fsipcbuf, mapped at fsreq while the server *)
(* serves it.  The Fd page of an open file is one page per slot of         *)
(* opentab: the server maps it from its first use on, the clients while    *)
(* they have it open.                                                      *)
(*                                                                         *)
(* lib/fork.c makes an inherited Fd page copy-on-write in parent and child *)
(* alike, PTE_SHARE or not: both go on reading what the server writes in   *)
(* it, until a seek of theirs gives them a page of their own.              *)
(***************************************************************************)
EXTENDS Integers, FiniteSetsExt, SequencesExt

CONSTANTS
  Clients,
  First,      \* the clients that exist at the start
  FS,         \* the file server
  NoOne,
  MAXOPEN,    \* slots of opentab
  MAXFD,      \* file descriptors of an environment
  FILEMAX,    \* blocks of the largest file (NDIRECT + NINDIRECT)
  Names,      \* file names
  Values,     \* what a file is made of
  Hole,       \* a cell of a file that has no block
  OpenModes,  \* modes given to open: [omode, flags]
  Initial,    \* what a file may be at the start: <<>> or <<content>>
  Counts,     \* lengths of reads
  Sizes,      \* sizes given to ftruncate and offsets given to seek
  Counted,    \* the kinds of calls that are bounded
  CALLMAX,    \* bound on those calls of all clients
  KILLMAX     \* bound on the clients destroyed, or panicking outside of a call

ASSUME ServerAssumption ==
  /\ FS \notin Clients /\ NoOne \notin Clients \cup {FS}
  /\ First \subseteq Clients /\ IsFiniteSet(Clients)
  /\ {MAXOPEN, MAXFD} \subseteq Nat \ {0} /\ FILEMAX \in Nat /\ Counts \cup Sizes \subseteq Nat
  /\ NoOne \notin Nat  \* not a slot of opentab
  /\ Hole \notin Values \cup {0}
  /\ \A f \in Initial : f # <<>> => f = <<f[1]>> /\ f[1] \in Seq(Values \cup {0})

VARIABLES
  pc,       \* where each client and the server is
  ipc,      \* env_ipc_* of each environment
  buf,      \* fsipcbuf of each client: the request
  bufcow,   \* the clients whose fsipcbuf is copy-on-write
  tables,   \* who has a page table where an IPC brings a page: fsreq, the Fd pages
  fdmap,    \* fdmap[c][k]: the Fd page that c maps at file descriptor k
  fsreq,    \* the client whose page the server maps at fsreq, or NoOne
  reply,    \* the server's answer: [r, pg]
  opentab,  \* [o_fileid, o_file, alloc] of each slot; alloc: its Fd page exists
  fdpage,   \* the Fd pages of the slots: [id, offset, omode]
  files,    \* files[n]: <<>> if there is none, <<s>> if its content is s
  calls     \* the counted calls so far

vars == <<pc, ipc, buf, bufcow, tables, fdmap, fsreq, reply, opentab, fdpage, files, calls>>
server == <<fsreq, reply, opentab, fdpage, files>>

Slots == 0 .. MAXOPEN - 1
Fds == 0 .. MAXFD - 1
Envs == Clients \cup {FS}

E_INVAL == -3
E_NO_MEM == -4
E_NO_DISK == -9
E_MAX_OPEN == -10
E_NOT_FOUND == -11
E_FILE_EXISTS == -13

NoMsg == [recving |-> FALSE, dstva |-> NoOne, from |-> NoOne, value |-> <<>>]
NoReq == [type |-> "none"]
NoFd == [id |-> 0, offset |-> 0, omode |-> NoOne]

\* What is mapped at a file descriptor: the Fd page of a slot, writable and
\* PTE_SHARE or copy-on-write, or a page of the client's own.
NotOpen == [slot |-> NoOne, perm |-> "none", own |-> NoFd]
Shared(i) == [slot |-> i, perm |-> "share", own |-> NoFd]
Own(fd) == [slot |-> NoOne, perm |-> "own", own |-> fd]

Init ==
  /\ pc = [e \in Envs |-> IF e \in Clients \ First THEN "unborn" ELSE IF e = FS THEN "recv" ELSE "idle"]
  /\ ipc = [e \in Envs |-> NoMsg]
  /\ buf = [c \in Clients |-> NoReq]
  /\ bufcow = {} /\ tables = {}
  /\ fdmap = [c \in Clients |-> [k \in Fds |-> NotOpen]]
  /\ fsreq = NoOne
  /\ reply = [r |-> <<>>, pg |-> NoOne]
  /\ opentab = [i \in Slots |-> [o_fileid |-> i, o_file |-> NoOne, alloc |-> FALSE]]
  /\ fdpage = [i \in Slots |-> NoFd]
  /\ files \in [Names -> Initial]
  /\ calls = 0

-----------------------------------------------------------------------------
(* Clients: lib/file.c and lib/fd.c. *)

\* fd_lookup, and the check of the mode in read, write and ftruncate.
FdOpen(c) == {k \in Fds : fdmap[c][k].perm # "none"}
Fd(c, k) == IF fdmap[c][k].slot = NoOne THEN fdmap[c][k].own ELSE fdpage[fdmap[c][k].slot]
Readable(c) == {k \in FdOpen(c) : Fd(c, k).omode # "O_WRONLY"}
Writable(c) == {k \in FdOpen(c) : Fd(c, k).omode # "O_RDONLY"}

\* fd_alloc: the first file descriptor without a page.
FdAlloc(c) == {k \in Fds \ FdOpen(c) : \A j \in Fds : j < k => j \in FdOpen(c)}

\* fsipc: the client turns to ipc_send.
Fsipc(c, req) ==
  /\ pc[c] = "idle"
  /\ pc' = [pc EXCEPT ![c] = "send"]
  /\ buf' = [buf EXCEPT ![c] = req]
  /\ IF req.type \in Counted THEN calls < CALLMAX /\ calls' = calls + 1 ELSE UNCHANGED calls
  /\ UNCHANGED <<ipc, tables, fdmap, server>>

\* The request is filled in: a copy-on-write fsipcbuf becomes the client's own.
Call(c, req) == Fsipc(c, req) /\ bufcow' = bufcow \ {c}

Open(c) ==
  \E n \in Names, m \in OpenModes, k \in FdAlloc(c) :
    Call(c, [type |-> "OPEN", path |-> n, omode |-> m.omode, flags |-> m.flags, fd |-> k])

Read(c) ==
  \E k \in Readable(c), n \in Counts :
    Call(c, [type |-> "READ", req_fileid |-> Fd(c, k).id, req_n |-> n, fd |-> k])

Write(c) ==
  \E k \in Writable(c), v \in Values :
    Call(c, [type |-> "WRITE", req_fileid |-> Fd(c, k).id, req_buf |-> v, fd |-> k])

Ftruncate(c) ==
  \E k \in Writable(c), s \in Sizes :
    Call(c, [type |-> "SET_SIZE", req_fileid |-> Fd(c, k).id, req_size |-> s, fd |-> k])

Fstat(c) ==
  \E k \in FdOpen(c) : Call(c, [type |-> "STAT", req_fileid |-> Fd(c, k).id, fd |-> k])

\* close: fd_close calls devfile_flush, and unmaps the Fd page when it has
\* returned.
Close(c) ==
  \E k \in FdOpen(c) : Call(c, [type |-> "FLUSH", req_fileid |-> Fd(c, k).id, fd |-> k])

\* sync stores nothing in fsipcbuf.
Sync(c) == Fsipc(c, [type |-> "SYNC", fd |-> NoOne]) /\ UNCHANGED bufcow

\* seek writes the offset in the Fd page, without a call.  The write to a
\* copy-on-write page gives the client a page of its own; what it copies of
\* a slot's page does not change while the slot is open, but for the offset.
Seek(c) ==
  /\ pc[c] = "idle"
  /\ \E k \in FdOpen(c), s \in Sizes :
       \/ /\ fdmap[c][k].perm = "share"
          /\ fdpage' = [fdpage EXCEPT ![fdmap[c][k].slot].offset = s]
          /\ UNCHANGED fdmap
       \/ /\ fdmap[c][k].perm # "share"
          /\ fdmap' = [fdmap EXCEPT ![c][k] = Own([Fd(c, k) EXCEPT !.offset = s])]
          /\ UNCHANGED fdpage
  /\ UNCHANGED <<pc, ipc, buf, bufcow, tables, fsreq, reply, opentab, files, calls>>

\* How many clients have panicked or been destroyed.
Fallen == Cardinality({d \in Clients : pc[d] \in {"dead", "panic"}})

\* The program panics, or pgfault does if there is no memory for the copy of a
\* copy-on-write page: the environment stops and keeps what it maps
\* (lib/panic.c).
Panics(c) ==
  /\ pc[c] = "idle" /\ Fallen < KILLMAX
  /\ pc' = [pc EXCEPT ![c] = "panic"]
  /\ UNCHANGED <<ipc, buf, bufcow, tables, fdmap, server, calls>>

\* c creates d, which is given the Fd pages that Given says.
Creates(c, d, Given) ==
  /\ pc[c] = "idle" /\ pc[d] = "unborn"
  /\ tables' = IF \E k \in Fds : Given[k].perm # "none" THEN tables \cup {d} ELSE tables
  /\ UNCHANGED <<ipc, buf, server, calls>>

\* duppage, as the pages of c below n are duplicated; fsipcbuf is below all
\* Fd pages, and n < 0 if fork has not come to it.
Duplicated(c, n) ==
  [k \in Fds |-> IF k < n /\ k \in FdOpen(c) THEN [fdmap[c][k] EXCEPT !.perm = "cow"] ELSE NotOpen]

Forks(c, d, n) ==
  LET dup == Duplicated(c, n)
  IN  /\ Creates(c, d, dup)
      /\ fdmap' = [fdmap EXCEPT ![d] = dup,
                                ![c] = [k \in Fds |-> IF dup[k] = NotOpen THEN @[k] ELSE dup[k]]]
      /\ bufcow' = IF n < 0 THEN bufcow ELSE bufcow \cup {c, d}

Fork(c, d) == Forks(c, d, MAXFD) /\ pc' = [pc EXCEPT ![d] = "idle"]

\* fork runs out of memory, or c is destroyed in it: d never runs, and keeps
\* what it has.
ForkFails(c, d) ==
  \E n \in -1 .. MAXFD : Forks(c, d, n) /\ pc' = [pc EXCEPT ![d] = "lost"]

\* copy_shared_pages.
Spawns(c, d, n) ==
  LET given == [k \in Fds |-> IF k < n /\ fdmap[c][k].perm = "share" THEN fdmap[c][k] ELSE NotOpen]
  IN  Creates(c, d, given) /\ fdmap' = [fdmap EXCEPT ![d] = given] /\ UNCHANGED bufcow

Spawn(c, d) == Spawns(c, d, MAXFD) /\ pc' = [pc EXCEPT ![d] = "idle"]

SpawnPanics(c, d) ==
  \E n \in 0 .. MAXFD : Spawns(c, d, n) /\ pc' = [pc EXCEPT ![c] = "panic", ![d] = "lost"]

\* c is destroyed, whatever it is doing: its mappings are gone, but the server
\* keeps the request page until it has unmapped it.
Killed(c) ==
  /\ pc[c] \notin {"unborn", "dead"}
  /\ Fallen < KILLMAX
  /\ pc' = [pc EXCEPT ![c] = "dead"]
  /\ fdmap' = [fdmap EXCEPT ![c] = [k \in Fds |-> NotOpen]]
  /\ ipc' = [ipc EXCEPT ![c] = NoMsg]
  /\ bufcow' = bufcow \ {c} /\ tables' = tables \ {c}
  /\ buf' = IF fsreq = c THEN buf ELSE [buf EXCEPT ![c] = NoReq]
  /\ UNCHANGED <<server, calls>>

\* An attempt of ipc_send that delivers: sys_ipc_try_send wakes the receiver.
Deliver(to, from, value) ==
  ipc' = [ipc EXCEPT ![to] = [recving |-> FALSE, dstva |-> NoOne, from |-> from,
                              value |-> value]]

ServerReceives == pc[FS] = "wait" /\ ipc[FS].recving

ClientSend(c) ==
  /\ pc[c] = "send" /\ ServerReceives /\ c \notin bufcow
  /\ Deliver(FS, c, <<buf[c].type>>)
  /\ fsreq' = c /\ tables' = tables \cup {FS}
  /\ pc' = [pc EXCEPT ![c] = "recv"]
  /\ UNCHANGED <<buf, bufcow, fdmap, reply, opentab, fdpage, files, calls>>

\* ipc_send panics on any other error: -E_INVAL for a page that may not be
\* written, -E_NO_MEM if there is none for the page table of fsreq.
ClientPanics(c) ==
  /\ pc[c] = "send" /\ ServerReceives /\ (c \in bufcow \/ FS \notin tables)
  /\ pc' = [pc EXCEPT ![c] = "panic"]
  /\ UNCHANGED <<ipc, buf, bufcow, tables, fdmap, server, calls>>

ClientRecv(c) ==
  /\ pc[c] = "recv"
  /\ pc' = [pc EXCEPT ![c] = "wait"]
  /\ ipc' = [ipc EXCEPT ![c].recving = TRUE,
                        ![c].dstva = IF buf[c].type = "OPEN" THEN buf[c].fd ELSE NoOne]
  /\ UNCHANGED <<buf, bufcow, tables, fdmap, server, calls>>

\* The answer is there: fsipc returns, and the call that made it.
ClientReturn(c) ==
  /\ pc[c] = "wait" /\ ~ipc[c].recving
  /\ pc' = [pc EXCEPT ![c] = "idle"]
  /\ fdmap' = IF buf[c].type = "FLUSH" THEN [fdmap EXCEPT ![c][buf[c].fd] = NotOpen] ELSE fdmap
  /\ buf' = [buf EXCEPT ![c] = NoReq]
  /\ ipc' = [ipc EXCEPT ![c] = NoMsg]
  /\ UNCHANGED <<bufcow, tables, server, calls>>

-----------------------------------------------------------------------------
(* The server: serv.c. *)

Req == buf[fsreq]
HasRequest == pc[FS] = "wait" /\ ~ipc[FS].recving

ServerRecv ==
  /\ pc[FS] = "recv"
  /\ pc' = [pc EXCEPT ![FS] = "wait"]
  /\ ipc' = [ipc EXCEPT ![FS].recving = TRUE]
  /\ UNCHANGED <<buf, bufcow, tables, fdmap, server, calls>>

\* pageref: the mappings of the Fd page of slot i, the server's own included.
Mappings(i) == {p \in Clients \X Fds : fdmap[p[1]][p[2]].slot = i}
Pageref(i) == IF opentab[i].alloc THEN 1 + Cardinality(Mappings(i)) ELSE 0

OpenfileAlloc == {i \in Slots : Pageref(i) <= 1 /\ \A j \in Slots : j < i => Pageref(j) > 1}

\* Mutant: the slot may be open under another file id by now.
OpenfileLookupAny(id) == {i \in {id % MAXOPEN} : Pageref(i) > 1}

OpenfileLookup(id) == {i \in {id % MAXOPEN} : Pageref(i) > 1 /\ opentab[i].o_fileid = id}

Padded(s, n) == [k \in 1 .. Max({n, Len(s)}) |-> IF k <= Len(s) THEN s[k] ELSE Hole]
Resize(s, n) == [k \in 1 .. n |-> IF k <= Len(s) THEN s[k] ELSE Hole]

Handled(r, pg) ==
  /\ HasRequest
  /\ pc' = [pc EXCEPT ![FS] = "reply"]
  /\ reply' = [r |-> r, pg |-> pg]
  /\ UNCHANGED <<ipc, buf, bufcow, tables, fdmap, fsreq, calls>>

\* The results of serve_open once it has a slot, by the flags: the error, or <<>>.
OpenErrors(n, fl) ==
  IF files[n] = <<>>
  THEN IF "O_CREAT" \in fl THEN {<<>>, <<E_NO_DISK>>} ELSE {<<E_NOT_FOUND>>}
  ELSE IF {"O_CREAT", "O_EXCL"} \subseteq fl THEN {<<E_FILE_EXISTS>>} ELSE {<<>>}

ServeOpen ==
  /\ HasRequest /\ Req.type = "OPEN"
  /\ \/ /\ OpenfileAlloc = {}
        /\ Handled(<<E_MAX_OPEN>>, NoOne)
        /\ UNCHANGED <<opentab, fdpage, files>>
     \/ /\ \E i \in OpenfileAlloc : Pageref(i) = 0
        /\ Handled(<<E_NO_MEM>>, NoOne)
        /\ UNCHANGED <<opentab, fdpage, files>>
     \/ \E i \in OpenfileAlloc, err \in OpenErrors(Req.path, Req.flags) :
          LET o == [opentab[i] EXCEPT !.o_fileid = @ + MAXOPEN, !.alloc = TRUE]
          IN  IF err # <<>>
              THEN /\ Handled(err, NoOne)
                   /\ opentab' = [opentab EXCEPT ![i] = o]
                   /\ fdpage' = [fdpage EXCEPT ![i] = NoFd]
                   /\ UNCHANGED files
              ELSE /\ Handled(<<0>>, i)
                   /\ opentab' = [opentab EXCEPT ![i] = [o EXCEPT !.o_file = Req.path]]
                   /\ fdpage' = [fdpage EXCEPT ![i] =
                                   [id |-> o.o_fileid, offset |-> 0, omode |-> Req.omode]]
                   /\ files' = IF files[Req.path] = <<>> \/ "O_TRUNC" \in Req.flags
                               THEN [files EXCEPT ![Req.path] = <<(<<>>)>>] ELSE files

\* The other handlers look the open file up first.
Serve(type, handler(_)) ==
  /\ HasRequest /\ Req.type = type
  /\ \/ /\ OpenfileLookup(Req.req_fileid) = {}
        /\ Handled(<<E_INVAL>>, NoOne)
        /\ UNCHANGED <<opentab, fdpage, files>>
     \/ \E i \in OpenfileLookup(Req.req_fileid) : handler(i) /\ UNCHANGED opentab

ContentOf(i) == files[opentab[i].o_file][1]

Content(i, s) == files' = [files EXCEPT ![opentab[i].o_file] = <<s>>]

SetSize(i) ==
  Handled(<<0>>, NoOne) /\ Content(i, Resize(ContentOf(i), Req.req_size)) /\ UNCHANGED fdpage

ServeSetSize == Serve("SET_SIZE", SetSize)

\* file_get_block gives the holes of s at P blocks.
Filled(s, P) == [k \in 1 .. Len(s) |-> IF k \in P /\ s[k] = Hole THEN 0 ELSE s[k]]

\* file_read gets block after block: it stops at a hole when the disk is full,
\* and beyond the largest file.
ReadFile(i) ==
  LET s == ContentOf(i)
      offset == fdpage[i].offset
      end == Min({offset + Req.req_n, Len(s)})
      filled == Filled(s, offset + 1 .. Min({end, FILEMAX}))
      data == SubSeq(filled, offset + 1, end)
  IN  \/ /\ offset >= end \/ end <= FILEMAX
         /\ Handled(<<Len(data), data>>, NoOne)
         /\ Content(i, filled)
         /\ fdpage' = [fdpage EXCEPT ![i].offset = @ + Len(data)]
      \/ /\ end > offset /\ end > FILEMAX
         /\ Handled(<<E_INVAL>>, NoOne)
         /\ Content(i, filled)
         /\ UNCHANGED fdpage
      \/ \E k \in offset + 1 .. Min({end, FILEMAX}) :
           /\ s[k] = Hole
           /\ Handled(<<E_NO_DISK>>, NoOne)
           /\ Content(i, Filled(s, offset + 1 .. k - 1))
           /\ UNCHANGED fdpage

ServeRead == Serve("READ", ReadFile)

\* file_write first extends the file.
WriteFile(i) ==
  LET k == fdpage[i].offset + 1
      s == Padded(ContentOf(i), k)
  IN  \/ /\ k <= FILEMAX
         /\ Handled(<<1>>, NoOne)
         /\ Content(i, [s EXCEPT ![k] = Req.req_buf])
         /\ fdpage' = [fdpage EXCEPT ![i].offset = k]
      \/ /\ k > FILEMAX
         /\ Handled(<<E_INVAL>>, NoOne)
         /\ Content(i, s)
         /\ UNCHANGED fdpage
      \/ /\ k <= FILEMAX /\ s[k] = Hole
         /\ Handled(<<E_NO_DISK>>, NoOne)
         /\ Content(i, s)
         /\ UNCHANGED fdpage

ServeWrite == Serve("WRITE", WriteFile)

StatFile(i) == Handled(<<0, <<opentab[i].o_file, Len(ContentOf(i))>>>>, NoOne) /\ UNCHANGED <<fdpage, files>>

ServeStat == Serve("STAT", StatFile)

FlushFile(i) == Handled(<<0>>, NoOne) /\ UNCHANGED <<fdpage, files>>

ServeFlush == Serve("FLUSH", FlushFile)

ServeSync ==
  /\ HasRequest /\ Req.type = "SYNC"
  /\ Handled(<<0>>, NoOne)
  /\ UNCHANGED <<opentab, fdpage, files>>


\* ipc_send of the answer; an open brings the Fd page with it.
ServerReply ==
  /\ pc[FS] = "reply" /\ ipc[fsreq].recving
  /\ Deliver(fsreq, FS, reply.r)
  /\ IF reply.pg = NoOne THEN UNCHANGED <<fdmap, tables>>
     ELSE /\ fdmap' = [fdmap EXCEPT ![fsreq][ipc[fsreq].dstva] = Shared(reply.pg)]
          /\ tables' = tables \cup {fsreq}
  /\ pc' = [pc EXCEPT ![FS] = "unmap"]
  /\ UNCHANGED <<buf, bufcow, server, calls>>

\* ipc_send panics on any other error: -E_BAD_ENV if the client is gone,
\* -E_NO_MEM if there is none for its page table.  So does bc_pgfault if there
\* is no memory for a block; what the server had done of the request by then
\* nobody sees any more.
ServerPanics ==
  /\ \/ pc[FS] = "reply" /\ pc[fsreq] = "dead"
     \/ pc[FS] = "reply" /\ ipc[fsreq].recving /\ reply.pg # NoOne /\ fsreq \notin tables
     \/ HasRequest /\ Req.type \in {"OPEN", "READ", "WRITE", "SET_SIZE", "FLUSH"}
  /\ pc' = [pc EXCEPT ![FS] = "panic"]
  /\ UNCHANGED <<ipc, buf, bufcow, tables, fdmap, server, calls>>

ServerUnmap ==
  /\ pc[FS] = "unmap"
  /\ pc' = [pc EXCEPT ![FS] = "recv"]
  /\ fsreq' = NoOne
  /\ reply' = [r |-> <<>>, pg |-> NoOne]
  /\ buf' = IF pc[fsreq] = "dead" THEN [buf EXCEPT ![fsreq] = NoReq] ELSE buf
  /\ UNCHANGED <<ipc, bufcow, tables, fdmap, opentab, fdpage, files, calls>>

-----------------------------------------------------------------------------
ServerStep ==
  \/ ServerRecv \/ ServeOpen \/ ServeSetSize \/ ServeRead \/ ServeWrite \/ ServeStat
  \/ ServeFlush \/ ServeSync \/ ServerReply \/ ServerPanics \/ ServerUnmap

\* What a client in a call does to end it.
ClientStep(c) == ClientSend(c) \/ ClientPanics(c) \/ ClientRecv(c) \/ ClientReturn(c)

ClientCalls(c) ==
  \/ Open(c) \/ Read(c) \/ Write(c) \/ Ftruncate(c) \/ Fstat(c) \/ Close(c) \/ Sync(c) \/ Seek(c)

Creation(c, d) == Fork(c, d) \/ ForkFails(c, d) \/ Spawn(c, d) \/ SpawnPanics(c, d)

Next ==
  \/ ServerStep
  \/ \E c \in Clients : ClientStep(c) \/ ClientCalls(c) \/ Panics(c) \/ Killed(c)
  \/ \E c, d \in Clients : Creation(c, d)

\* The kernel's round robin runs every runnable environment.
Spec == Init /\ [][Next]_vars /\ WF_vars(ServerStep) /\ \A c \in Clients : WF_vars(ClientStep(c))

-----------------------------------------------------------------------------
(* Properties. *)


-----------------------------------------------------------------------------
(* The server and its clients implement FileService. *)

\* The answer to c is ready, and has not been sent.
Answering(c) == fsreq = c /\ reply.r # <<>> /\ pc[FS] # "unmap"

\* The server has done the request of c.
Served(c) ==
  \/ pc[c] \in {"recv", "wait"} /\ Answering(c)
  \/ pc[c] = "wait" /\ ~ipc[c].recving

\* The Fd page that c has, or gets with the answer.
FdAt(c, k) ==
  IF pc[c] \in {"recv", "wait"} /\ Answering(c) /\ reply.pg # NoOne /\ buf[c].fd = k
  THEN Shared(reply.pg) ELSE fdmap[c][k]

OpenFds ==
  [c \in Clients |-> [k \in Fds |->
     LET m == FdAt(c, k)
         fd == IF m.slot = NoOne THEN m.own ELSE fdpage[m.slot]
     IN  IF m.perm = "none" THEN NoOne
         ELSE [desc |-> fd.id, omode |-> fd.omode, how |-> IF m.slot = NoOne THEN "own" ELSE m.perm]]]

\* A description is known by its file id.
InUse == {FdAt(p[1], p[2]).slot : p \in Clients \X Fds} \ {NoOne}

DescOf ==
  LET slot(id) == CHOOSE i \in InUse : opentab[i].o_fileid = id
  IN  [id \in {opentab[i].o_fileid : i \in InUse} |->
         [file |-> opentab[slot(id)].o_file, offset |-> fdpage[slot(id)].offset]]

FilesOf ==
  [n \in Names |->
     IF files[n] = <<>> THEN <<>>
     ELSE <<[k \in 1 .. Len(files[n][1]) |-> IF files[n][1][k] = Hole THEN 0 ELSE files[n][1][k]]>>]

StOf ==
  [c \in Clients |->
     CASE pc[c] \in {"idle", "unborn", "dead"} -> pc[c]
       [] pc[c] \in {"panic", "lost"} -> "stopped"
       [] Served(c) -> "done"
       [] OTHER -> "called"]

\* The call of c that is, or may still be, served.
ArgOf ==
  [c \in Clients |->
     IF pc[c] \in {"send", "recv", "wait"} \/ (pc[c] = "dead" /\ fsreq = c /\ reply.r = <<>>)
     THEN buf[c] ELSE NoReq]

ResOf ==
  [c \in Clients |->
     CASE pc[c] = "wait" /\ ~ipc[c].recving -> ipc[c].value
       [] pc[c] \in {"recv", "wait", "dead"} /\ Answering(c) -> reply.r
       [] OTHER -> <<>>]

Service == INSTANCE FileService WITH
  files <- FilesOf, desc <- DescOf, fds <- OpenFds, st <- StOf, arg <- ArgOf, res <- ResOf

(* Every call is served once, between its start and its return, on the     *)
(* file and the position that its descriptor was opened with, and its own  *)
(* answer comes back, although slots of opentab and file ids are reused,   *)
(* requests queue up, the disk and the memory run out, and clients share   *)
(* descriptors, fork, or die.                                              *)
ImplementsFileService == Service!Spec

=============================================================================
