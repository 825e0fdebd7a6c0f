------------------------------- MODULE FsDisk -------------------------------
(***************************************************************************)
(* The block file system of fs/fs.c over its cache fs/bc.c and the disk    *)
(* fs/ide.c, from an image of fs/fsformat.c.                               *)
(*                                                                         *)
(* The server is one environment, so an operation runs to its end alone.   *)
(* What can come in between is a crash: the disk then has the blocks that  *)
(* were written so far, and the cache is gone.  An operation is therefore  *)
(* one action that leaves the new cache and the queue of its disk writes   *)
(* in their order; IdeWrite carries out one of them.                       *)
(*                                                                         *)
(* A block pointer or the result of an operation lives in a machine s, a   *)
(* record; the operators named after functions of the code take a machine  *)
(* and return the one the function leaves.  Sizes and offsets count        *)
(* blocks, the writing of one block is atomic, and the root is the only    *)
(* directory: no code makes another.                                       *)
(***************************************************************************)
EXTENDS Naturals, Sequences, FiniteSets, SequencesExt

CONSTANTS
  NBLOCKS,    \* s_nblocks
  NDIRECT, NINDIRECT, \* block pointers in a File and in an indirect block
  BLKFILES,   \* Files in a block
  Name,       \* names of files that clients use
  Paths,      \* what clients ask for: sequences of names
  newmotd,    \* the file fs_test needs, at the head of every image
  Text,       \* what a client's data reads like where a file name is expected
  Images,     \* what the image is made of: sequences of <<name, size>>
  MaxBoots,   \* a bound on the starts of the server
  NULL        \* nothing

\* Numbers that are no block of the disk, such as -E_NO_DISK, are all alike.
Bad == NBLOCKS
Block == 0..(NBLOCKS-1)
MaxSize == NDIRECT + NINDIRECT

ASSUME FsDiskAssumption ==
  /\ {NDIRECT, NINDIRECT, BLKFILES, MaxBoots} \subseteq Nat \ {0}
  /\ NBLOCKS \in Nat /\ NBLOCKS > 3
  /\ NULL \notin Name /\ Text \notin Name /\ Text # NULL

VARIABLES
  disk,    \* block -> what is on the disk
  cache,   \* block -> what is mapped at diskaddr(block), or NULL
  dirty,   \* the blocks whose PTE_D is set
  queue,   \* the disk writes of the operation in progress
  server,  \* "down", "testing", "up", or what it panicked about
  boots    \* how often the server started

vars == <<disk, cache, dirty, queue, server, boots>>

-----------------------------------------------------------------------------
(* What is in a block: Files, block numbers, the bitmap, or data.  A block *)
(* keeps what it had when it is freed, and is then read as something else. *)

EmptyFile == [name |-> NULL, size |-> 0, direct |-> [i \in 1..NDIRECT |-> 0],
              indirect |-> 0]

Zero == [data |-> "zero"]
Written == [data |-> "written"]
Message == [data |-> "motd"]
FilesBlock(f) == [files |-> f]
PtrBlock(p) == [ptrs |-> p]
Bits(free) == [bits |-> free]
\* The super block holds the File of the root behind the magic number.
SuperBlock(root, magic) == [files |-> <<root>>, magic |-> magic]

FilesIn(c) ==
  IF "files" \in DOMAIN c THEN c.files
  ELSE [i \in 1..BLKFILES |-> [EmptyFile EXCEPT !.name = IF c = Zero THEN NULL ELSE Text]]

PtrsIn(c) ==
  IF "ptrs" \in DOMAIN c THEN c.ptrs
  ELSE [i \in 1..NINDIRECT |-> IF c = Zero THEN 0 ELSE Bad]

\* A File is where it is: a block and an index.
Root == <<1, 1>>

\* F of a result.
With(s, F(_)) == F(s)

-----------------------------------------------------------------------------
(* fs/fsformat.c.  An image under construction is a disk and diskpos.      *)

\* finishfile(): a file of len blocks from block start on.  One of NDIRECT blocks
\* gets an indirect block as well.
FinishFile(img, name, start, len) ==
  LET f == [EmptyFile EXCEPT !.name = name, !.size = len,
              !.direct = [i \in 1..NDIRECT |-> IF i <= len THEN start + i - 1 ELSE 0]]
      ptrs == [i \in 1..NINDIRECT |->
                 IF NDIRECT + i <= len THEN start + NDIRECT + i - 1 ELSE 0]
  IN  IF len < NDIRECT THEN [img EXCEPT !.f = f]
      ELSE [img EXCEPT !.f = [f EXCEPT !.indirect = img.pos],
                       !.disk[img.pos] = PtrBlock(ptrs), !.pos = @ + 1]

\* readn() into the blocks from start on.
Fill(img, start, blocks) ==
  [img EXCEPT !.pos = @ + Len(blocks),
              !.disk = [b \in Block |-> IF b \in start..(start + Len(blocks) - 1)
                                        THEN blocks[b - start + 1] ELSE @[b]]]

DirAdd(img) == [img EXCEPT !.ents = Append(@, img.f)]

WriteFile(img, namesize) ==
  With(FinishFile(Fill(img, img.pos, [i \in 1..namesize[2] |-> Message]),
                  namesize[1], img.pos, namesize[2]),
       DirAdd)

\* finishdir() of at least one entry: it gives an empty directory the size of a
\* block and no block.
FinishDir(img) ==
  LET len == (Len(img.ents) + BLKFILES - 1) \div BLKFILES
      Ent(i) == IF i <= Len(img.ents) THEN img.ents[i] ELSE EmptyFile
      Dir(k) == FilesBlock([j \in 1..BLKFILES |-> Ent((k - 1) * BLKFILES + j)])
  IN  FinishFile(Fill(img, img.pos, [k \in 1..len |-> Dir(k)]), "/", img.pos, len)

OpenDisk == [disk |-> [b \in Block |-> Zero], pos |-> 3, ents |-> <<>>, f |-> EmptyFile]

FinishDisk(img) ==
  [img.disk EXCEPT ![1] = SuperBlock(img.f, TRUE), ![2] = Bits(img.pos..(NBLOCKS-1))]

Format(files) == FinishDisk(FinishDir(FoldLeft(WriteFile, OpenDisk, files)))

-----------------------------------------------------------------------------
(* fs/bc.c.  The machine: cache and dirty, out the writes so far, why what *)
(* it panicked about, err and num the result of the last call.             *)

Machine == [cache |-> cache, dirty |-> dirty, out |-> <<>>, why |-> "up",
            err |-> "ok", num |-> 0, at |-> NULL]

Running(s) == s.why = "up"
Fine(s) == Running(s) /\ s.err = "ok"
Fail(s, e) == [s EXCEPT !.err = e]
Panic(s, what) == IF Running(s) THEN [s EXCEPT !.why = what] ELSE s
Return(s, n) == [s EXCEPT !.num = n]

\* Going on, unless with an error or after a panic.
Then(s, F(_)) == IF Fine(s) THEN F(s) ELSE s

\* A loop over the blocks first..last of a file that ends at the first error.
ForBlocks(Body(_, _), s, first, last) ==
  FoldLeft(LAMBDA t, i: IF Fine(t) THEN Body(t, i) ELSE t, s,
           [i \in 1..(last + 1 - first) |-> first + i - 1])

Free(s) == s.cache[2].bits

\* The program writes into block b.
Store(s, b, c) ==
  IF Running(s) THEN [s EXCEPT !.cache[b] = c, !.dirty = @ \cup {b}] ELSE s

IdeRead(b) == disk[b]

\* diskaddr(), and bc_pgfault() at the first access.
Touch(s, b) ==
  IF b \notin 1..(NBLOCKS-1) THEN Panic(s, "bad block number")
  ELSE IF s.cache[b] # NULL THEN s
  ELSE IF b \in Free(s) THEN Panic(s, "reading free block")
  ELSE [s EXCEPT !.cache[b] = IdeRead(b)]

FlushBlock_Unmapped(s, b) ==
  IF Running(s) THEN [s EXCEPT !.dirty = @ \ {b}, !.out = Append(@, <<b, s.cache[b]>>)]
  ELSE s

FlushBlock(s, b) ==
  IF Running(s) /\ b \in s.dirty
  THEN [s EXCEPT !.dirty = @ \ {b}, !.out = Append(@, <<b, s.cache[b]>>)]
  ELSE s

-----------------------------------------------------------------------------
(* The bitmap.                                                             *)

FreeBlock(s, b) ==
  IF b = 0 THEN Panic(s, "free zero block") ELSE Store(s, 2, Bits(Free(s) \cup {b}))

Lowest(S) == CHOOSE b \in S : \A c \in S : b <= c

TakeBlock_Lazy(s, b) == Return(Store(s, 2, Bits(Free(s) \ {b})), b)

TakeBlock(s, b) == Return(FlushBlock(Store(s, 2, Bits(Free(s) \ {b})), 2), b)
AllocBlock(s) == IF Free(s) = {} THEN Return(s, Bad) ELSE TakeBlock(s, Lowest(Free(s)))

-----------------------------------------------------------------------------
(* A File and its blocks; they are counted from 0.                         *)

File(s, fp) == FilesIn(s.cache[fp[1]])[fp[2]]
PutFile(s, fp, f) ==
  Store(s, fp[1],
        IF fp = Root THEN SuperBlock(f, s.cache[1].magic)
        ELSE FilesBlock([FilesIn(s.cache[fp[1]]) EXCEPT ![fp[2]] = f]))

NewIndirect_Uncleared(s, fp) ==
  Touch(PutFile(s, fp, [File(s, fp) EXCEPT !.indirect = s.num]), s.num)

\* s has just allocated a block for the pointers; it gets a new page, of zeros.
NewIndirect(s, fp) ==
  With(PutFile(s, fp, [File(s, fp) EXCEPT !.indirect = s.num]), LAMBDA t:
    FlushBlock(Store(t, s.num, PtrBlock([i \in 1..NINDIRECT |-> 0])), s.num))

FileBlockWalk(s, fp, bn, alloc) ==
  IF bn >= MaxSize THEN Fail(s, "E_INVAL")
  ELSE IF bn < NDIRECT THEN s
  ELSE IF File(s, fp).indirect # 0 THEN Touch(s, File(s, fp).indirect)
  ELSE IF ~alloc THEN Fail(s, "E_NOT_FOUND")
  ELSE IF Free(s) = {} THEN Fail(s, "E_NO_DISK")
  ELSE NewIndirect(AllocBlock(s), fp)

\* *ppdiskbno, read and assigned.
Slot(s, fp, bn) ==
  IF bn < NDIRECT THEN File(s, fp).direct[bn + 1]
  ELSE PtrsIn(s.cache[File(s, fp).indirect])[bn - NDIRECT + 1]

PutSlot(s, fp, bn, b) ==
  IF bn < NDIRECT THEN PutFile(s, fp, [File(s, fp) EXCEPT !.direct[bn + 1] = b])
  ELSE Store(s, File(s, fp).indirect,
             PtrBlock([PtrsIn(s.cache[File(s, fp).indirect])
                         EXCEPT ![bn - NDIRECT + 1] = b]))

\* The number alloc_block returns goes into the slot before anybody looks whether
\* it is an error, and diskaddr panics.
DiskAddr(s, b) ==
  IF b \in 1..(NBLOCKS-1) THEN Return(s, b) ELSE Panic(s, "bad block number")

FileGetBlock(s, fp, bn) ==
  Then(FileBlockWalk(s, fp, bn, TRUE), LAMBDA w:
    With(IF Slot(w, fp, bn) # 0 THEN w
         ELSE With(AllocBlock(w), LAMBDA t: PutSlot(t, fp, bn, t.num)), LAMBDA t:
      DiskAddr(t, Slot(t, fp, bn))))

\* ... and the block it returns, read.
Fetch(s, fp, bn) == Then(FileGetBlock(s, fp, bn), LAMBDA t: Touch(t, t.num))

-----------------------------------------------------------------------------
(* Directories.                                                            *)

\* The loop of dir_lookup and dir_alloc_file: at is the first File with this name.
Pick(s, name) ==
  LET hits == {j \in 1..BLKFILES : FilesIn(s.cache[s.num])[j].name = name}
  IN  IF hits = {} THEN s ELSE [s EXCEPT !.at = <<s.num, Lowest(hits)>>]

DirFind(s, name) ==
  ForBlocks(LAMBDA t, i: IF t.at # NULL THEN t
                         ELSE Then(Fetch(t, Root, i), LAMBDA u: Pick(u, name)),
            s, 0, File(s, Root).size - 1)

DirLookup(s, name) ==
  Then(DirFind(s, name), LAMBDA t: IF t.at = NULL THEN Fail(t, "E_NOT_FOUND") ELSE t)

Grow(s) == PutFile(s, Root, [File(s, Root) EXCEPT !.size = @ + 1])

\* The new block is whatever was last in it.
DirAllocFile(s) ==
  Then(DirFind(s, NULL), LAMBDA t:
    IF t.at # NULL THEN t
    ELSE Then(Fetch(Grow(t), Root, File(t, Root).size), LAMBDA u:
           [u EXCEPT !.at = <<u.num, 1>>]))

\* file_flush skips the blocks that are not there.
FlushSlot(s, b) ==
  IF b = 0 THEN s ELSE With(DiskAddr(s, b), LAMBDA t: FlushBlock(t, b))

FlushNth(s, fp, bn) ==
  With(FileBlockWalk(s, fp, bn, FALSE), LAMBDA w:
    IF Fine(w) THEN FlushSlot(w, Slot(w, fp, bn)) ELSE [w EXCEPT !.err = "ok"])

FileFlush_NoIndirect(s, fp) ==
  With(ForBlocks(LAMBDA t, i: FlushNth(t, fp, i), s, 0, File(s, fp).size - 1), LAMBDA t:
    FlushBlock(t, fp[1]))

FileFlush(s, fp) ==
  With(ForBlocks(LAMBDA t, i: FlushNth(t, fp, i), s, 0, File(s, fp).size - 1), LAMBDA t:
    With(FlushBlock(t, fp[1]), LAMBDA u:
      IF File(u, fp).indirect = 0 THEN u ELSE FlushBlock(u, File(u, fp).indirect)))

\* A path is a sequence of names.  No file is a directory, so only a path of at
\* most one name can be found, and only the last name of one can be made.
WalkPath(s, path) ==
  IF path = <<>> THEN [s EXCEPT !.at = Root]
  ELSE Then(DirLookup(s, path[1]), LAMBDA t:
         IF Len(path) = 1 THEN t ELSE Fail(t, "E_NOT_FOUND"))

FileOpen(s, path) == WalkPath(s, path)

\* file_create() fills in the name and nothing else.
NameFile(s, name) ==
  FileFlush(PutFile(s, s.at, [File(s, s.at) EXCEPT !.name = name]), Root)

FileCreate(s, path) ==
  With(WalkPath(s, path), LAMBDA t:
    IF Fine(t) THEN Fail(t, "E_FILE_EXISTS")
    ELSE IF t.err # "E_NOT_FOUND" \/ ~Running(t) \/ Len(path) # 1 THEN t
    ELSE Then(DirAllocFile([t EXCEPT !.err = "ok"]), LAMBDA u: NameFile(u, path[1])))

-----------------------------------------------------------------------------
(* Sizes, reading and writing.                                             *)

FreeSlot(s, fp, bn) ==
  IF Slot(s, fp, bn) = 0 THEN s ELSE PutSlot(FreeBlock(s, Slot(s, fp, bn)), fp, bn, 0)
FileFreeBlock(s, fp, bn) ==
  Then(FileBlockWalk(s, fp, bn, FALSE), LAMBDA w: FreeSlot(w, fp, bn))

FreeIndirect_Never(s, fp, size) == s

FreeIndirect(s, fp, size) ==
  IF size <= NDIRECT /\ File(s, fp).indirect # 0
  THEN PutFile(FreeBlock(s, File(s, fp).indirect), fp, [File(s, fp) EXCEPT !.indirect = 0])
  ELSE s

\* A block that cannot be freed is only worth a warning.
FileTruncateBlocks(s, fp, size) ==
  FreeIndirect(
    ForBlocks(LAMBDA t, i: [FileFreeBlock(t, fp, i) EXCEPT !.err = "ok"],
              s, size, File(s, fp).size - 1), fp, size)

\* Of a file that shrinks, the File is written, and nothing else.
FileSetSize(s, fp, size) ==
  With(IF File(s, fp).size > size THEN FileTruncateBlocks(s, fp, size) ELSE s, LAMBDA t:
    FlushBlock(PutFile(t, fp, [File(t, fp) EXCEPT !.size = size]), fp[1]))

FileRead(s, fp, bn) == IF bn >= File(s, fp).size THEN s ELSE Fetch(s, fp, bn)

FileWrite(s, fp, bn, n) ==
  With(IF bn + n > File(s, fp).size THEN FileSetSize(s, fp, bn + n) ELSE s, LAMBDA t:
    ForBlocks(LAMBDA u, i: Then(Fetch(u, fp, i), LAMBDA v: Store(v, v.num, Written)),
              t, bn, bn + n - 1))

FsSync(s) == ForBlocks(LAMBDA t, b: FlushBlock(t, b), s, 1, NBLOCKS - 1)

-----------------------------------------------------------------------------
(* Who points at which block.  A view is a disk or the cache over it.      *)

InCache == [b \in Block |-> IF cache[b] = NULL THEN disk[b] ELSE cache[b]]

\* The Files of a view: the root and the entries of its blocks.
Pointers(v, f) ==
  {<<"direct", i, f.direct[i]>> : i \in 1..NDIRECT}
    \cup {<<"indirect", 0, f.indirect>>}
Entries(v, f) ==
  IF f.indirect \in 1..(NBLOCKS-1)
  THEN {<<"entry", i, PtrsIn(v[f.indirect])[i]>> : i \in 1..NINDIRECT} ELSE {}
RealBlocks(S) == {p \in S : p[3] # 0}
DirBlocks(v) ==
  LET root == v[1].files[1]
  IN  {p[3] : p \in {q \in RealBlocks(Pointers(v, root) \cup Entries(v, root)) :
                       q[1] # "indirect" /\ q[3] # Bad}}
FilesOf(v) ==
  {<<Root, v[1].files[1]>>}
    \cup {<< <<b, j>>, FilesIn(v[b])[j]>> : b \in DirBlocks(v), j \in 1..BLKFILES}
\* Who points at what, with and without the numbers in indirect blocks.
Uses(v) ==
  UNION {{<<x[1], p>> : p \in RealBlocks(Pointers(v, x[2]) \cup Entries(v, x[2]))} :
           x \in FilesOf(v)}
Apart(U) == \A x, y \in U : x # y => x[2][3] # y[2][3]
Points(U) == {x[2][3] : x \in U}
Sound(v, U) ==
  Apart(U) /\ Points(U) \subseteq 3..(NBLOCKS-1) /\ Points(U) \cap v[2].bits = {}

-----------------------------------------------------------------------------
(* The server.                                                             *)

Idle == server = "up" /\ queue = <<>>

\* An operation is over when its last write is.
Leave(s) ==
  /\ cache' = s.cache /\ dirty' = s.dirty /\ queue' = s.out /\ server' = s.why
  /\ UNCHANGED <<disk, boots>>

Request(s) == Idle /\ Leave(s)

Open(path) == Request(FileOpen(Machine, path))
Create(path) == Request(FileCreate(Machine, path))
Read(fp, bn) == Request(FileRead(Machine, fp, bn))
Write(fp, bn, n) == Request(FileWrite(Machine, fp, bn, n))
SetSize(fp, size) == Request(FileSetSize(Machine, fp, size))
Flush(fp) == Request(FileFlush(Machine, fp))
Sync == Request(FsSync(Machine))

\* The Files that file_open has found, so that their blocks are mapped.
Known ==
  {Root} \cup {x[1] : x \in {y \in FilesOf(InCache) :
                             y[2].name \in Name /\ cache[y[1][1]] # NULL}}

IdeWrite ==
  /\ queue # <<>>
  /\ disk' = [disk EXCEPT ![Head(queue)[1]] = Head(queue)[2]]
  /\ queue' = Tail(queue)
  /\ UNCHANGED <<cache, dirty, server, boots>>

\* check_bc() smashes the super block and writes it back, twice.
CheckBc(block) ==
  LET oops == SuperBlock(block.files[1], FALSE)
  IN  << <<1, oops>>, <<1, block>>, <<1, oops>>, <<1, block>> >>

CheckSuper(block) == block.magic
CheckBitmap(block) == {0, 1, 2} \cap block.bits = {}

\* fs_init().
Boot ==
  /\ server = "down" /\ boots < MaxBoots
  /\ boots' = boots + 1
  /\ queue' = CheckBc(disk[1])
  /\ dirty' = {}
  /\ cache' = [b \in Block |-> IF b \in {1, 2} THEN disk[b] ELSE NULL]
  /\ server' = IF ~CheckSuper(disk[1]) THEN "bad magic number"
               ELSE IF CheckBitmap(disk[2]) THEN "testing" ELSE "bad bitmap"
  /\ UNCHANGED disk

\* fs_test(), before the first request: it takes a block and keeps it, and rewrites
\* newmotd, which must be as the image had it.
Rewrite(s, fp) ==
  With(FileSetSize(FileSetSize(FileFlush(Store(s, s.num, Message), fp), fp, 0), fp, 1),
       LAMBDA t: Then(Fetch(t, fp, 0), LAMBDA u: FileFlush(Store(u, u.num, Message), fp)))

TestFile(s) ==
  Then(Fetch(s, s.at, 0), LAMBDA t:
    IF t.cache[t.num] # Message THEN Panic(t, "wrong data") ELSE Rewrite(t, t.at))

FsTest ==
  /\ server = "testing" /\ queue = <<>>
  /\ Leave(IF Free(Machine) = {} THEN Panic(Machine, "alloc_block: no disk")
           ELSE With(FileOpen(AllocBlock(Machine), <<newmotd>>), LAMBDA t:
                  IF t.err = "ok" THEN TestFile(t) ELSE Panic(t, "no newmotd")))

\* The power fails, or the server has panicked and the machine is started again.
Crash ==
  /\ server # "down"
  /\ server' = "down" /\ queue' = <<>> /\ dirty' = {}
  /\ cache' = [b \in Block |-> NULL]
  /\ UNCHANGED <<disk, boots>>

Init ==
  /\ \E files \in Images : disk = Format(files)
  /\ cache = [b \in Block |-> NULL] /\ dirty = {} /\ queue = <<>>
  /\ server = "down" /\ boots = 0

Next ==
  \/ Idle /\ \E path \in Paths : Open(path) \/ Create(path)
  \/ Idle /\ \E fp \in Known :
       \/ Flush(fp)
       \/ \E bn \in 0..(MaxSize-1) : Read(fp, bn)
       \/ fp # Root /\ \E bn \in 0..MaxSize, n \in 1..2 : Write(fp, bn, n)
       \/ fp # Root /\ \E size \in 0..MaxSize : SetSize(fp, size)
  \/ Sync
  \/ IdeWrite \/ Boot \/ FsTest \/ Crash

Spec == Init /\ [][Next]_vars

-----------------------------------------------------------------------------
(* What the file system promises.                                          *)

TypeOK ==
  /\ dirty \subseteq Block /\ boots \in 0..MaxBoots
  /\ \A b \in dirty : cache[b] # NULL
  /\ DOMAIN disk = Block /\ DOMAIN cache = Block
  /\ \A i \in 1..Len(queue) : queue[i][1] \in Block /\ queue[i][2] # NULL

\* Until the first crash no block of the cache has two owners, none that is owned is
\* free, no file has one beyond its size, and all the others are free, but for the one
\* of fs_test: error paths and file_truncate_blocks give every one of them back.
Needed(f, p) ==
  CASE p[1] = "direct"   -> p[2] <= f.size
    [] p[1] = "entry"    -> NDIRECT + p[2] <= f.size
    [] p[1] = "indirect" -> NDIRECT <= f.size
OneOwner ==
  server = "up" /\ boots = 1 =>
    LET U == Uses(InCache)
        free == InCache[2].bits
    IN  /\ Sound(InCache, U)
        /\ \A u \in U : Needed(FilesIn(InCache[u[1][1]])[u[1][2]], u[2])
        /\ Cardinality((3..(NBLOCKS-1)) \ (Points(U) \cup free)) = 1

\* The above and the type invariant.
DiskIsSound == TypeOK /\ OneOwner

\* Wherever the first crash comes between two disk writes, the pointers in the Files
\* on the disk have no block twice and none that is free.
RestartSafe == boots <= 1 => Sound(disk, {x \in Uses(disk) : x[2][1] # "entry"})

\* Once a request to flush a file is over (or the creation of one, for the
\* directory), a crash takes nothing of it away.  A creation that fails promises
\* nothing: it may leave a longer directory in the cache alone.
Contents(v, fp) ==
  LET f == FilesIn(v[fp[1]])[fp[2]]
      U == {p \in RealBlocks(Pointers(v, f) \cup Entries(v, f)) :
              p[3] # Bad /\ (IF p[1] = "entry" THEN NDIRECT + p[2] ELSE p[2]) <= f.size}
  IN  <<f, {<<p, v[p[3]]>> : p \in {q \in U : q[1] # "indirect"}}>>
AfterQueue(v, q) == FoldLeft(LAMBDA d, w: [d EXCEPT ![w[1]] = w[2]], v, q)
Durable(fp) == Contents(AfterQueue(disk', queue'), fp) = Contents(InCache', fp)
Created(n) == FileCreate(Machine, <<n>>).err = "ok"
FlushedIsDurable ==
  [][server' = "up" => /\ \A fp \in Known : Flush(fp) => Durable(fp)
                       /\ \A n \in Name : Create(<<n>>) /\ Created(n) => Durable(Root)]_vars

\* Until the first crash the server panics only because the disk is full.
PanicsOnlyWhenFull ==
  boots <= 1 => /\ server \in {"down", "testing", "up", "bad block number"}
                /\ server = "bad block number" => cache[2].bits = {}

\* bc_pgfault's test that a block it reads is in use.
NeverReadsFree == server # "reading free block"
=============================================================================
