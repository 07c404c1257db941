--------------------------------- MODULE Fs ----------------------------------
(***************************************************************************)
(* The file system of fs/fs.c on the block cache of fs/bc.c and the disk   *)
(* of fs/ide.c, from the image fs/fsformat.c builds, with crashes.         *)
(*                                                                         *)
(* The file server has one thread, so an operation is interrupted by       *)
(* nothing but a crash of the machine.  An operation therefore updates the *)
(* cache in one step and queues, in order and with their contents at that  *)
(* moment, the blocks it flushes; the queue reaches the disk one block at  *)
(* a time, the next operation starts when it is empty, and a crash loses   *)
(* what is left of it.                                                     *)
(*                                                                         *)
(* A data block is seen as bytes, as block pointers or as File structures; *)
(* the three views are kept side by side, and zeroing a block zeroes all.  *)
(* A block read in by bc_pgfault equals the one on disk until it is        *)
(* written, so a block that is not cached and a clean one are the same     *)
(* here; reading a free block, where bc_pgfault panics, is excluded by     *)
(* Owned.                                                                  *)
(***************************************************************************)
EXTENDS Integers, FiniteSetsExt, SequencesExt

CONSTANTS
  NBLOCKS,    \* super->s_nblocks
  BLKSIZE,    \* bytes in a block
  BLKFILES,   \* File structures in a block
  NDIRECT,
  NINDIRECT,
  Names,      \* file names, the empty name not among them
  LongNames,  \* names of MAXNAMELEN characters or more
  Paths,      \* paths given to open: sequences of names, split at the slashes
  Bytes,      \* values of bytes, 0 among them
  ImageFiles, \* the files of the image: a sequence of [name, size]
  Spans,      \* [offset, count] of reads and writes
  Sizes,      \* sizes given to set_size
  OPMAX,      \* bound on the operations
  CRASHMAX    \* bound on the crashes

ASSUME FsAssumption ==
  /\ NBLOCKS \in Nat /\ NBLOCKS > 3
  /\ {BLKSIZE, BLKFILES, NDIRECT, NINDIRECT} \subseteq Nat \ {0}
  /\ 0 \in Bytes /\ "" \notin Names

VARIABLES
  disk,     \* the blocks on the disk
  fs,       \* the server's memory: [cache, dirty, wq]; wq holds the writes to come
  call,     \* the operation in progress or the last one, with its arguments
  kept,     \* the files flushed and not changed since
  ops,      \* operations so far
  crashes,  \* crashes so far
  stale     \* some crash left a stale indirect block on the disk: see Crash

vars == <<disk, fs, call, kept, ops, crashes, stale>>

SUPER == 1
BITMAP == 2
Blocks == 1 .. NBLOCKS - 1
DataBlocks == 3 .. NBLOCKS - 1

E_NOT_FOUND == -11
E_BAD_PATH == -12
E_NO_DISK == -9
E_INVAL == -3
E_FILE_EXISTS == -13

NBlocksOf(size) == (size + BLKSIZE - 1) \div BLKSIZE

\* The numbers a, a + 1, ..., b - 1 in order: the rounds of a for loop.
Rounds(a, b) == [i \in 1 .. (IF b > a THEN b - a ELSE 0) |-> a + i - 1]

NoFile ==
  [f_name |-> "", f_size |-> 0, f_type |-> "REG",
   f_direct |-> [i \in 0 .. NDIRECT - 1 |-> 0], f_indirect |-> 0]

Zero ==
  [bytes |-> [i \in 0 .. BLKSIZE - 1 |-> 0],
   ptrs  |-> [i \in 0 .. NINDIRECT - 1 |-> 0],
   files |-> [i \in 0 .. BLKFILES - 1 |-> NoFile]]

-----------------------------------------------------------------------------
(* bc.c. *)

Store(m, b, c) ==
  [m EXCEPT !.cache[b] = c, !.dirty = @ \cup {b}]

FlushBlock(m, b) ==
  IF b \in m.dirty
  THEN [m EXCEPT !.dirty = @ \ {b},
                 !.wq = Append(@, [blockno |-> b, data |-> m.cache[b]])]
  ELSE m

FlushAll(m, bs) == FoldLeft(FlushBlock, m, bs)

\* check_bc smashes the super block and restores it, twice.
CheckBc(m) ==
  LET smashed == [blockno |-> SUPER, data |-> [m.cache[SUPER] EXCEPT !.magic = FALSE]]
      restored == [blockno |-> SUPER, data |-> m.cache[SUPER]]
  IN  [m EXCEPT !.wq = <<smashed, restored, smashed, restored>>]

\* bc_pgfault: the cache is filled from the disk.
Load(d) == [cache |-> d, dirty |-> {}, wq |-> <<>>]

-----------------------------------------------------------------------------
(* The bitmap. *)

BlockIsFree(m, b) == b \in m.cache[BITMAP].free

FreeBlock(m, b) == Store(m, BITMAP, [free |-> m.cache[BITMAP].free \cup {b}])

\* Mutant: the bitmap is not flushed.
AllocBlockUnflushed(m) ==
  LET free == {b \in 2 .. NBLOCKS - 1 : BlockIsFree(m, b)}
      b == Min(free)
  IN  IF free = {} THEN [m |-> m, r |-> E_NO_DISK]
      ELSE [m |-> Store(m, BITMAP, [free |-> m.cache[BITMAP].free \ {b}]), r |-> b]

AllocBlock(m) ==
  LET free == {b \in 2 .. NBLOCKS - 1 : BlockIsFree(m, b)}
      b == Min(free)
  IN  IF free = {} THEN [m |-> m, r |-> E_NO_DISK]
      ELSE [m |-> FlushBlock(Store(m, BITMAP, [free |-> m.cache[BITMAP].free \ {b}]), BITMAP),
            r |-> b]

-----------------------------------------------------------------------------
(* Files.  A File is named by its place: <<block, index>> in a directory   *)
(* block, or Root in the super block.                                      *)

Root == <<SUPER, 0>>

FileOf(c, f) == IF f = Root THEN c[SUPER].root ELSE c[f[1]].files[f[2]]

PutFile(m, f, file) ==
  Store(m, f[1], IF f = Root THEN [m.cache[SUPER] EXCEPT !.root = file]
                             ELSE [m.cache[f[1]] EXCEPT !.files[f[2]] = file])

\* The block pointer file_block_walk finds for the i-th block of a file, 0 where
\* it finds no place for one.
Slot(c, file, i) ==
  CASE i < NDIRECT -> file.f_direct[i]
    [] i >= NDIRECT /\ i < NDIRECT + NINDIRECT /\ file.f_indirect # 0 ->
         c[file.f_indirect].ptrs[i - NDIRECT]
    [] OTHER -> 0

SetSlot(m, f, i, b) ==
  LET file == FileOf(m.cache, f)
      ind == file.f_indirect
  IN  IF i < NDIRECT THEN PutFile(m, f, [file EXCEPT !.f_direct[i] = b])
      ELSE Store(m, ind, [m.cache[ind] EXCEPT !.ptrs[i - NDIRECT] = b])

\* Mutant: the new block keeps what it held.
AllocUnzeroed(m) ==
  LET a == AllocBlock(m)
  IN  IF a.r < 0 THEN a ELSE [a EXCEPT !.m = FlushBlock(@, a.r)]

\* A new block is zeroed and flushed.
Zeroed(a) == IF a.r < 0 THEN a ELSE [a EXCEPT !.m = FlushBlock(Store(@, a.r, Zero), a.r)]
AllocZeroed(m) == Zeroed(AllocBlock(m))

\* A new block becomes the indirect block of f.
Linked(a, f) ==
  IF a.r < 0 THEN a
  ELSE [m |-> PutFile(a.m, f, [FileOf(a.m.cache, f) EXCEPT !.f_indirect = a.r]), r |-> 0]

FileBlockWalk(m, f, i, alloc) ==
  CASE i >= NDIRECT + NINDIRECT -> [m |-> m, r |-> E_INVAL]
    [] i < NDIRECT \/ (i < NDIRECT + NINDIRECT /\ FileOf(m.cache, f).f_indirect # 0) ->
         [m |-> m, r |-> 0]
    [] OTHER -> IF alloc THEN Linked(AllocZeroed(m), f) ELSE [m |-> m, r |-> E_NOT_FOUND]

\* A new block becomes the i-th block of f.
Placed(a, f, i) == IF a.r < 0 THEN a ELSE [a EXCEPT !.m = SetSlot(@, f, i, a.r)]

\* The rest of file_get_block, after file_block_walk with outcome w.
Filled(w, f, i) ==
  LET b == Slot(w.m.cache, FileOf(w.m.cache, f), i)
  IN  CASE w.r < 0 -> w
        [] w.r >= 0 /\ b # 0 -> [m |-> w.m, r |-> b]
        [] OTHER -> Placed(AllocZeroed(w.m), f, i)

\* The number of the i-th block of f, allocated if it is a hole, or an error.
FileGetBlock(m, f, i) == Filled(FileBlockWalk(m, f, i, TRUE), f, i)

\* Mutant: the pointer to the freed block stays.
FileFreeBlockKeepsSlot(m, f, i) ==
  LET b == Slot(m.cache, FileOf(m.cache, f), i)
  IN  IF b = 0 THEN m ELSE FreeBlock(m, b)

FileFreeBlock(m, f, i) ==
  LET b == Slot(m.cache, FileOf(m.cache, f), i)
  IN  IF b = 0 THEN m ELSE SetSlot(FreeBlock(m, b), f, i, 0)

\* Mutant: the indirect block is dropped, not freed.
FileTruncateBlocksLeaks(m, f, newsize) ==
  LET freed == FoldLeft(LAMBDA a, i : FileFreeBlock(a, f, i), m,
                        Rounds(NBlocksOf(newsize), NBlocksOf(FileOf(m.cache, f).f_size)))
      rest == FileOf(freed.cache, f)
  IN  IF NBlocksOf(newsize) <= NDIRECT THEN PutFile(freed, f, [rest EXCEPT !.f_indirect = 0])
      ELSE freed

FileTruncateBlocks(m, f, newsize) ==
  LET file == FileOf(m.cache, f)
      freed == FoldLeft(LAMBDA a, i : FileFreeBlock(a, f, i), m,
                        Rounds(NBlocksOf(newsize), NBlocksOf(file.f_size)))
      rest == FileOf(freed.cache, f)
  IN  IF NBlocksOf(newsize) <= NDIRECT /\ rest.f_indirect # 0
      THEN PutFile(FreeBlock(freed, rest.f_indirect), f, [rest EXCEPT !.f_indirect = 0])
      ELSE freed

FileSetSize(m, f, newsize) ==
  LET shrunk == IF FileOf(m.cache, f).f_size > newsize
                THEN FileTruncateBlocks(m, f, newsize) ELSE m
  IN  FlushBlock(PutFile(shrunk, f, [FileOf(shrunk.cache, f) EXCEPT !.f_size = newsize]), f[1])

\* Mutant: the indirect block is not flushed.
FileFlushNoIndirect(m, f) ==
  LET file == FileOf(m.cache, f)
      slots == [i \in 1 .. NBlocksOf(file.f_size) |-> Slot(m.cache, file, i - 1)]
  IN  FlushBlock(FlushAll(m, SelectSeq(slots, LAMBDA b : b # 0)), f[1])

FileFlush(m, f) ==
  LET file == FileOf(m.cache, f)
      slots == [i \in 1 .. NBlocksOf(file.f_size) |-> Slot(m.cache, file, i - 1)]
      data == FlushAll(m, SelectSeq(slots, LAMBDA b : b # 0))
      meta == FlushBlock(data, f[1])
  IN  IF file.f_indirect # 0 THEN FlushBlock(meta, file.f_indirect) ELSE meta

FsSync(m) == FlushAll(m, Rounds(1, NBLOCKS))

SpanRounds(offset, count) ==
  IF count = 0 THEN <<>> ELSE Rounds(offset \div BLKSIZE, NBlocksOf(offset + count))

\* What file_read and file_write return after their loop.
Counted(end, n) == IF end.r < 0 THEN end ELSE [end EXCEPT !.r = n]

\* A round of file_read's loop: g is the outcome of file_get_block.
ReadFrom(g) == IF g.r < 0 THEN g ELSE [g EXCEPT !.r = 0]

FileRead(m, f, offset, count) ==
  LET size == FileOf(m.cache, f).f_size
      n == IF offset >= size THEN 0 ELSE Min({count, size - offset})
  IN  Counted(FoldLeft(LAMBDA a, i : IF a.r < 0 THEN a ELSE ReadFrom(FileGetBlock(a.m, f, i)),
                       [m |-> m, r |-> 0], SpanRounds(offset, n)), n)

\* A round of file_write's loop, for the i-th block.
WriteTo(g, i, span, v) ==
  IF g.r < 0 THEN g
  ELSE [m |-> Store(g.m, g.r, [g.m.cache[g.r] EXCEPT !.bytes = [k \in DOMAIN @ |->
                 IF i * BLKSIZE + k \in span THEN v ELSE @[k]]]),
        r |-> 0]

FileWrite(m, f, offset, count, v) ==
  LET span == offset .. offset + count - 1
  IN  Counted(FoldLeft(LAMBDA a, i :
                         IF a.r < 0 THEN a ELSE WriteTo(FileGetBlock(a.m, f, i), i, span, v),
                       [m |-> IF offset + count > FileOf(m.cache, f).f_size
                              THEN FileSetSize(m, f, offset + count) ELSE m, r |-> 0],
                       SpanRounds(offset, count)), count)

-----------------------------------------------------------------------------
(* Directories. *)

None == <<>>

\* The loop of dir_lookup and dir_alloc_file: the first File named n (a free one
\* is named ""); every block of the directory up to it is brought in.
SearchBlock(g, n) ==
  LET here == {j \in 0 .. BLKFILES - 1 : g.m.cache[g.r].files[j].f_name = n}
  IN  IF g.r < 0 THEN [m |-> g.m, r |-> g.r, f |-> None]
      ELSE [m |-> g.m, r |-> 0, f |-> IF here = {} THEN None ELSE <<g.r, Min(here)>>]

DirFind(m, dir, n) ==
  FoldLeft(LAMBDA a, i : IF a.r < 0 \/ a.f # None THEN a
                         ELSE SearchBlock(FileGetBlock(a.m, dir, i), n),
           [m |-> m, r |-> 0, f |-> None],
           Rounds(0, FileOf(m.cache, dir).f_size \div BLKSIZE))

FoundOrNot(d) == IF d.r = 0 /\ d.f = None THEN [d EXCEPT !.r = E_NOT_FOUND] ELSE d

DirLookup(m, dir, n) == FoundOrNot(DirFind(m, dir, n))

\* The first File of the block that a directory was extended by.
FirstOf(g) == [m |-> g.m, r |-> Min({g.r, 0}), f |-> IF g.r < 0 THEN None ELSE <<g.r, 0>>]

\* The rest of dir_alloc_file: without a free File the directory grows.
FreeFile(d, dir) ==
  LET file == FileOf(d.m.cache, dir)
  IN  IF d.r < 0 \/ d.f # None THEN d
      ELSE FirstOf(FileGetBlock(PutFile(d.m, dir, [file EXCEPT !.f_size = @ + BLKSIZE]), dir,
                                file.f_size \div BLKSIZE))

DirAllocFile(m, dir) == FreeFile(DirFind(m, dir, ""), dir)

\* A step of walk_path from directory a.f, where dir_lookup found d.
Descend(a, d, last) ==
  [m |-> d.m, r |-> d.r, f |-> d.f,
   dir |-> IF d.r = 0 \/ (d.r = E_NOT_FOUND /\ last) THEN a.f ELSE None]

\* walk_path: r = 0 and the file f, or an error; dir is set when all but the last
\* name of the path was found.
WalkPath(m, path) ==
  FoldLeft(LAMBDA a, i :
             CASE a.r < 0 -> a
               [] a.r = 0 /\ path[i] \in LongNames -> [a EXCEPT !.r = E_BAD_PATH, !.dir = None]
               [] a.r = 0 /\ path[i] \notin LongNames /\ FileOf(a.m.cache, a.f).f_type # "DIR" ->
                    [a EXCEPT !.r = E_NOT_FOUND, !.dir = None]
               [] OTHER -> Descend(a, DirLookup(a.m, a.f, path[i]), i = Len(path)),
           [m |-> m, r |-> 0, f |-> Root, dir |-> None], [i \in DOMAIN path |-> i])

\* The new File d of directory dir gets its name, and the directory is flushed.
NameFile(d, dir, n) ==
  IF d.r < 0 THEN [m |-> d.m, r |-> d.r]
  ELSE [m |-> FileFlush(PutFile(d.m, d.f, [FileOf(d.m.cache, d.f) EXCEPT !.f_name = n]), dir),
        r |-> 0]

\* The rest of file_create, after walk_path with outcome w.
CreateAt(w, n) ==
  CASE w.r = 0 -> [m |-> w.m, r |-> E_FILE_EXISTS]
    [] w.r # 0 /\ (w.r # E_NOT_FOUND \/ w.dir = None) -> [m |-> w.m, r |-> w.r]
    [] OTHER -> NameFile(DirAllocFile(w.m, w.dir), w.dir, n)

FileCreate(m, path) == CreateAt(WalkPath(m, path), path[Len(path)])

FileOpen(m, path) == WalkPath(m, path)

-----------------------------------------------------------------------------
(* fsformat.c: the image.  a.pos is the next block of the image.           *)

FinishFile(a, file, start, len) ==
  LET n == NBlocksOf(len)
      f == [file EXCEPT !.f_size = len,
                        !.f_direct = [i \in DOMAIN @ |-> IF i < n THEN start + i ELSE 0]]
  IN  IF n < NDIRECT THEN [a EXCEPT !.file = f]
      ELSE [a EXCEPT
              !.pos = @ + 1,
              !.file = [f EXCEPT !.f_indirect = a.pos],
              !.blk[a.pos].ptrs = [k \in DOMAIN @ |->
                 IF NDIRECT + k < n THEN start + NDIRECT + k ELSE 0]]

WriteFile(a, k) ==
  LET len == ImageFiles[k].size
      done == FinishFile([a EXCEPT !.pos = @ + NBlocksOf(len)],
                         [NoFile EXCEPT !.f_name = ImageFiles[k].name], a.pos, len)
  IN  [done EXCEPT !.ents = Append(@, done.file)]

FinishDir(a) ==
  LET n == (Len(a.ents) + BLKFILES - 1) \div BLKFILES
      blk == [b \in DOMAIN a.blk |-> [a.blk[b] EXCEPT !.files = [j \in DOMAIN @ |->
                LET k == (b - a.pos) * BLKFILES + j + 1
                IN  IF b >= a.pos /\ k \in DOMAIN a.ents THEN a.ents[k] ELSE @[j]]]]
  IN  FinishFile([a EXCEPT !.pos = @ + n, !.blk = blk],
                 [NoFile EXCEPT !.f_name = "/", !.f_type = "DIR"], a.pos, n * BLKSIZE)

\* Blocks 0 and 1 and, for a small disk, one bitmap block come first.
OpenDisk ==
  [pos |-> 3, file |-> NoFile, ents |-> <<>>, blk |-> [b \in DataBlocks |-> Zero]]

\* The blocks before the next one are marked in use.
FinishDisk(a) ==
  [b \in Blocks |->
     CASE b = SUPER -> [magic |-> TRUE, root |-> a.file]
       [] b = BITMAP -> [free |-> a.pos .. NBLOCKS - 1]
       [] OTHER -> a.blk[b]]

Format ==
  FinishDisk(FinishDir(FoldLeft(WriteFile, OpenDisk, [k \in DOMAIN ImageFiles |-> k])))

-----------------------------------------------------------------------------
(* What an image says, the disk's or the cache's. *)

\* The places of the Files in the root directory.
Places(c) ==
  LET root == c[SUPER].root
      dirblocks == {Slot(c, root, i) : i \in 0 .. NBlocksOf(root.f_size) - 1} \ {0}
  IN  {p \in dirblocks \X (0 .. BLKFILES - 1) : c[p[1]].files[p[2]].f_name # ""}

\* The block pointers of the Files, as <<file, index, block>>; index -1 is
\* f_indirect.
DirectRefs(c) ==
  LET At(f, i) == IF i = -1 THEN FileOf(c, f).f_indirect ELSE FileOf(c, f).f_direct[i]
  IN  {<<p[1], p[2], At(p[1], p[2])>> : p \in (Places(c) \cup {Root}) \X (-1 .. NDIRECT - 1)}

\* The pointers in the indirect blocks.
IndirectRefs(c) ==
  {<<p[1], p[2], Slot(c, FileOf(c, p[1]), p[2])>> :
     p \in (Places(c) \cup {Root}) \X (NDIRECT .. NDIRECT + NINDIRECT - 1)}

\* Pointers of refs point to blocks in use, no two to the same.
Sound(c, refs) ==
  /\ \A r \in refs : r[3] # 0 => r[3] \in DataBlocks \ c[BITMAP].free
  /\ \A r, s \in refs : r[3] # 0 /\ r[3] = s[3] => r = s

\* The content of the file named n; a hole reads as zeros, because reading
\* allocates a zeroed block for it.
Content(c, n) ==
  LET p == {f \in Places(c) : FileOf(c, f).f_name = n}
      file == FileOf(c, CHOOSE f \in p : TRUE)
      ByteAt(k) == LET b == Slot(c, file, k \div BLKSIZE)
                   IN  IF b = 0 THEN 0 ELSE c[b].bytes[k % BLKSIZE]
  IN  IF p = {} THEN <<>> ELSE <<[k \in 1 .. file.f_size |-> ByteAt(k - 1)]>>

-----------------------------------------------------------------------------
(* The server. *)

\* fs_init: after check_bc, check_super and check_bitmap.
Init ==
  /\ disk = Format
  /\ fs = CheckBc(Load(Format))
  /\ call = <<"boot">>
  /\ kept = Names
  /\ ops = 0
  /\ crashes = 0
  /\ stale = FALSE

CheckSuper(m) == m.cache[SUPER].magic

CheckBitmap(m) == {SUPER, BITMAP} \cap m.cache[BITMAP].free = {}

\* fs_init has succeeded and the operation before has returned.
Serving ==
  /\ fs.wq = <<>>
  /\ CheckSuper(fs) /\ CheckBitmap(fs)
  /\ ~stale

\* The files a call promises to have written when it returns, and those it may
\* change.
Promised(c) == CASE c[1] = "flush" -> {c[2]} [] c[1] = "sync" -> Names [] OTHER -> {}
Changed(c) == IF c[1] \in {"create", "write", "set_size"} THEN {c[2]} ELSE {}

Run(c, m) ==
  /\ Serving /\ ops < OPMAX
  /\ call' = c
  /\ fs' = m
  /\ kept' = (kept \ Changed(c)) \cup (IF m.wq = <<>> THEN Promised(c) ELSE {})
  /\ ops' = ops + 1
  /\ UNCHANGED <<disk, crashes, stale>>

NameOf(f) == FileOf(fs.cache, f).f_name

Open(path) == Run(<<"look">>, FileOpen(fs, path).m)

Create(path) ==
  Run(IF Len(path) = 1 /\ path[1] \notin LongNames THEN <<"create", path[1]>> ELSE <<"look">>,
      FileCreate(fs, path).m)

Read(f, s) == Run(<<"look">>, FileRead(fs, f, s.offset, s.count).m)

Write(f, s, v) ==
  Run(<<"write", NameOf(f), s, v>>, FileWrite(fs, f, s.offset, s.count, v).m)

SetSize(f, size) == Run(<<"set_size", NameOf(f), size>>, FileSetSize(fs, f, size))

Flush(f) == Run(<<"flush", NameOf(f)>>, FileFlush(fs, f))

Sync == Run(<<"sync">>, FsSync(fs))

\* ide_write of the block at the head of the queue, its eight sectors at once: a
\* crash in the middle of a block is not followed.
IdeWrite ==
  /\ fs.wq # <<>>
  /\ disk' = [disk EXCEPT ![Head(fs.wq).blockno] = Head(fs.wq).data]
  /\ fs' = [fs EXCEPT !.wq = Tail(@)]
  /\ kept' = kept \cup (IF Tail(fs.wq) = <<>> THEN Promised(call) ELSE {})
  /\ UNCHANGED <<call, ops, crashes, stale>>

\* The machine stops and boots again.  If an indirect block on the disk is older
\* than its file (truncated since), its pointers may name blocks of other files;
\* what the server does on such a disk is not followed.
Crash ==
  /\ crashes < CRASHMAX /\ ~stale
  /\ crashes' = crashes + 1
  /\ fs' = CheckBc(Load(disk))
  /\ call' = <<"boot">>
  /\ kept' = Names
  /\ stale' = ~Sound(disk, DirectRefs(disk) \cup IndirectRefs(disk))
  /\ UNCHANGED <<disk, ops>>

\* serve_open would open "/" as well, and a client could write or truncate the
\* root directory as a file; no program of the tree does, and Next does not.
Next ==
  \/ \E p \in Paths : Open(p) \/ Create(p)
  \/ \E f \in Places(fs.cache) :
       \/ \E s \in Spans : Read(f, s) \/ \E v \in Bytes \ {0} : Write(f, s, v)
       \/ \E size \in Sizes : SetSize(f, size)
       \/ Flush(f)
  \/ Sync
  \/ IdeWrite
  \/ Crash

Spec == Init /\ [][Next]_vars

-----------------------------------------------------------------------------
(* Properties. *)

(* In the cache every block pointer of a file points to a block in use,    *)
(* and no two to the same; bc_pgfault's panic "reading free block" is not  *)
(* reached.                                                                *)
Owned == ~stale => Sound(fs.cache, DirectRefs(fs.cache) \cup IndirectRefs(fs.cache))

(* Until a crash no block is lost, whatever operations failed half-way: a  *)
(* block in use belongs to a file, below its size.                         *)
NothingLost ==
  crashes = 0 =>
    LET c == fs.cache
        refs == DirectRefs(c) \cup IndirectRefs(c)
    IN  /\ DataBlocks \ c[BITMAP].free \subseteq {r[3] : r \in refs}
        /\ \A r \in refs : r[3] # 0 => r[2] < NBlocksOf(FileOf(c, r[1]).f_size)

(* At every moment the disk, where a crash would leave it, is consistent:  *)
(* the Files' own block pointers, and those of every indirect block that   *)
(* is not older on the disk than in the cache, point to distinct blocks    *)
(* that the bitmap on the disk says are in use; and the magic number is    *)
(* missing at most while fs_init tests the cache on the super block.       *)
DiskConsistent ==
  LET pending == fs.dirty \cup {fs.wq[k].blockno : k \in DOMAIN fs.wq}
      fresh == {r \in IndirectRefs(disk) : FileOf(disk, r[1]).f_indirect \notin pending}
  IN  /\ ~stale => Sound(disk, DirectRefs(disk) \cup fresh)
      /\ disk[SUPER].magic \/ call = <<"boot">>

(* A file that file_flush or fs_sync wrote reads the same on the disk as   *)
(* in the cache until it is changed, whatever is done to other files, so   *)
(* that a crash at any moment spares it.                                   *)
Durable == \A n \in kept : Content(disk, n) = Content(fs.cache, n)

-----------------------------------------------------------------------------
(* The file system implements FileStore. *)

FileStoreI == INSTANCE FileStore WITH
  MAXFILESIZE <- (NDIRECT + NINDIRECT) * BLKSIZE,
  files <- [n \in Names |-> Content(fs.cache, n)],
  durable <- kept,
  full <- fs.cache[BITMAP].free = {}

(* Every operation does to the named file, and to it alone, what it        *)
(* promises, although files share directory and bitmap blocks and reuse    *)
(* each other's data blocks, and a crash spares the files flushed before.  *)
ImplementsFileStore == FileStoreI!Spec

=============================================================================
