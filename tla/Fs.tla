---------------------------------- MODULE Fs ----------------------------------
(***************************************************************************)
(* The file system of the file server: fs/fs.c, the block cache of fs/bc.c *)
(* and the check fs/test.c makes whenever the server starts.               *)
(*                                                                         *)
(* The server handles one request at a time. A handler edits the blocks    *)
(* mapped in memory and writes some of them to the disk, one after the     *)
(* other, by flush_block: it is one step on the memory that leaves its     *)
(* writes in out, in their order and with what each block held at that     *)
(* moment; DiskWrite carries them out, and power may fail before any.      *)
(*                                                                         *)
(* There is one directory: no request of the server creates another.       *)
(***************************************************************************)
EXTENDS Integers, Sequences, FiniteSets

SX == INSTANCE SequencesExt

CONSTANTS
  NBlocks,    \* s_nblocks: the blocks are 0 .. NBlocks - 1
  NDirect,    \* NDIRECT
  NIndirect,  \* NINDIRECT
  BlkFiles,   \* BLKFILES, File structures in a block of a directory
  BlkSize,    \* BLKSIZE, in units of the sizes and offsets clients use
  MaxSize,    \* bounds these sizes and offsets
  Name,       \* the names clients give to files
  Motd,       \* "newmotd", which fs_test rewrites
  NotFound,   \* "not-found", which fs_test looks for; a client may create it
  NoName,     \* the empty name of a File that is not in use
  Spelled     \* the number in whatever clients write, read as a pointer or size

Super  == 1
Bitmap == 2
Block  == 0 .. NBlocks - 1
Data   == 3 .. NBlocks - 1

ASSUME FsAssumption ==
  /\ NBlocks \in Nat /\ NBlocks > 5
  /\ NDirect \in Nat \ {0} /\ NIndirect \in Nat /\ BlkFiles \in Nat \ {0}
  /\ BlkSize \in Nat \ {0} /\ MaxSize \in Nat
  /\ NotFound \in Name /\ Motd \notin Name /\ NoName \notin Name \cup {Motd}
  /\ Spelled \in Data

File == [name : Name \cup {Motd, NoName}, size : 0 .. MaxSize + NBlocks,
         direct : [0 .. NDirect - 1 -> Block], indirect : Block]

NoFile == [name |-> NoName, size |-> 0,
           direct |-> [n \in 0 .. NDirect - 1 |-> 0], indirect |-> 0]

\* What a block holds: zeros, bytes of clients, the message of the day, File
\* structures, block numbers, the super block, the bitmap.
Zeros == [kind |-> "zeros"]
Bytes == [kind |-> "bytes"]
Message == [kind |-> "message"]
DirBlock == [kind : {"dir"}, file : [1 .. BlkFiles -> File]]
PtrBlock == [kind : {"ptrs"}, block : [0 .. NIndirect - 1 -> Block]]
Content ==
  {Zeros, Bytes, Message} \cup DirBlock \cup PtrBlock
    \cup [kind : {"super"}, root : File, magic : BOOLEAN] \cup [kind : {"bits"}, free : SUBSET Data]

VARIABLES
  mem,    \* the blocks as the server sees them, through bc_pgfault
  dirty,  \* the blocks with PTE_D set
  out,    \* the writes a handler has still to make
  disk,   \* the blocks on the disk
  req,    \* the last request, until it is over
  up,     \* FALSE: the server panicked, or was never started
  sound   \* for properties only: no block was ever taken for pointers or Files
          \* without being clear, nor read back from a disk that was behind

vars == <<mem, dirty, out, disk, req, up, sound>>

-----------------------------------------------------------------------------
(* The block cache. A handler computes on a record s of the server's memory: *)
(* mem, dirty, out, sound, the last result r and the last File found, loc.   *)

NoDisk == -1
Nowhere == <<0, 0>>
Root == <<Super, 0>>

Memory == [mem |-> mem, dirty |-> dirty, out |-> out, sound |-> sound,
           r |-> 0, loc |-> Nowhere]

Store(s, b, c) == [s EXCEPT !.mem[b] = c, !.dirty = @ \cup {b}]

FlushBlock(s, b) ==
  IF b \in s.dirty
  THEN [s EXCEPT !.out = Append(@, [block |-> b, content |-> s.mem[b]]),
                 !.dirty = @ \ {b}]
  ELSE s

IsClear(c) ==
  \/ c = Zeros
  \/ c.kind = "ptrs" /\ \A i \in DOMAIN c.block : c.block[i] = 0
  \/ c.kind = "dir" /\ \A j \in DOMAIN c.file : c.file[j] = NoFile

\* Block b of s is about to be read as pointers or as Files: is it clear?
UseAsMetadata(s, b) == [s EXCEPT !.sound = @ /\ IsClear(s.mem[b])]

\* A block, whatever it holds, read as block numbers and as File structures.
Pointers(c) ==
  IF c.kind = "ptrs" THEN c.block
  ELSE [i \in 0 .. NIndirect - 1 |-> IF c = Zeros THEN 0 ELSE Spelled]

Files(c) ==
  IF c.kind = "dir" THEN c.file
  ELSE [j \in 1 .. BlkFiles |->
          IF IsClear(c) THEN NoFile
          ELSE [NoFile EXCEPT !.size = Spelled, !.indirect = Spelled,
                              !.direct = [n \in DOMAIN @ |-> Spelled]]]

FileIn(img, loc) ==
  IF loc = Root THEN img[Super].root ELSE Files(img[loc[1]])[loc[2]]

FileAt(s, loc) == FileIn(s.mem, loc)

PutFile(s, loc, f) ==
  Store(s, loc[1],
        IF loc = Root THEN [s.mem[Super] EXCEPT !.root = f]
        ELSE [kind |-> "dir",
              file |-> [j \in 1 .. BlkFiles |->
                          IF j = loc[2] THEN f ELSE Files(s.mem[loc[1]])[j]]])

-----------------------------------------------------------------------------
(* Blocks of the disk *)

Free(s) == s.mem[Bitmap].free

\* slip: the bitmap is left in memory
AllocBlockUnflushed(s) ==
  IF Free(s) = {} THEN [s EXCEPT !.r = NoDisk]
  ELSE LET b == CHOOSE b \in Free(s) : \A c \in Free(s) : b <= c
       IN  [Store(s, Bitmap, [kind |-> "bits", free |-> Free(s) \ {b}])
              EXCEPT !.r = b]

AllocBlock(s) ==
  IF Free(s) = {} THEN [s EXCEPT !.r = NoDisk]
  ELSE LET b == CHOOSE b \in Free(s) : \A c \in Free(s) : b <= c
       IN  [FlushBlock(Store(s, Bitmap, [kind |-> "bits", free |-> Free(s) \ {b}]), Bitmap)
              EXCEPT !.r = b]

FreeBlock(s, b) == Store(s, Bitmap, [kind |-> "bits", free |-> Free(s) \cup {b}])

\* file_block_walk: r is NoDisk when there is no slot for block n of the file.
FileBlockWalk(s, loc, n, alloc) ==
  LET f == FileAt(s, loc)
      a == AllocBlock(s)
  IN  IF n < NDirect \/ (n < NDirect + NIndirect /\ f.indirect # 0)
      THEN [s EXCEPT !.r = 0]
      ELSE IF n >= NDirect + NIndirect \/ ~ alloc \/ a.r = NoDisk
      THEN [(IF alloc /\ n < NDirect + NIndirect THEN a ELSE s) EXCEPT !.r = NoDisk]
      ELSE FlushBlock(UseAsMetadata(PutFile(a, loc, [f EXCEPT !.indirect = a.r]), a.r), a.r)

\* The slot the walk finds, read and written.
SlotIn(img, loc, n) ==
  IF n < NDirect THEN FileIn(img, loc).direct[n]
  ELSE Pointers(img[FileIn(img, loc).indirect])[n - NDirect]

Slot(s, loc, n) == SlotIn(s.mem, loc, n)

SetSlot(s, loc, n, b) ==
  LET f == FileAt(s, loc)
  IN  IF n < NDirect THEN PutFile(s, loc, [f EXCEPT !.direct[n] = b])
      ELSE Store(s, f.indirect,
                 [kind |-> "ptrs",
                  block |-> [i \in 0 .. NIndirect - 1 |->
                               IF i = n - NDirect THEN b
                               ELSE Pointers(s.mem[f.indirect])[i]]])

\* A block for a slot that has none; one of the directory is read as Files.
TakeBlock(a, loc, n) ==
  IF a.r = NoDisk THEN a
  ELSE IF loc = Root THEN UseAsMetadata(SetSlot(a, loc, n, a.r), a.r)
  ELSE SetSlot(a, loc, n, a.r)

\* The block of the slot that file_block_walk has found.
BlockOf(w, loc, n) ==
  IF w.r = NoDisk THEN w
  ELSE IF Slot(w, loc, n) # 0 THEN [w EXCEPT !.r = Slot(w, loc, n)]
  ELSE TakeBlock(AllocBlock(w), loc, n)

\* file_get_block: r is the block, or NoDisk.
FileGetBlock(s, loc, n) == BlockOf(FileBlockWalk(s, loc, n, TRUE), loc, n)

\* The numbers i .. j, in order, for a loop.
Range(i, j) == [k \in 1 .. (IF j < i THEN 0 ELSE j - i + 1) |-> i + k - 1]

Loop(s, step(_, _), i, j) == SX!FoldLeft(step, s, Range(i, j))

\* The number of blocks a file of some size needs.
Blocks(size) == (size + BlkSize - 1) \div BlkSize

-----------------------------------------------------------------------------
(* Operations on files *)

\* slip: *ptr is not cleared
FileFreeBlockKeepsSlot(s, loc, n) ==
  LET w == FileBlockWalk(s, loc, n, FALSE)
  IN  IF w.r = NoDisk THEN s ELSE IF Slot(w, loc, n) = 0 THEN w
      ELSE FreeBlock(w, Slot(w, loc, n))

FileFreeBlock(s, loc, n) ==
  LET w == FileBlockWalk(s, loc, n, FALSE)
  IN  IF w.r = NoDisk THEN s ELSE IF Slot(w, loc, n) = 0 THEN w
      ELSE SetSlot(FreeBlock(w, Slot(w, loc, n)), loc, n, 0)

FileTruncateBlocks(s, loc, size) ==
  LET t == Loop(s, LAMBDA a, n : FileFreeBlock(a, loc, n),
                Blocks(size), Blocks(FileAt(s, loc).size) - 1)
      f == FileAt(t, loc)
  IN  IF Blocks(size) <= NDirect /\ f.indirect # 0
      THEN PutFile(FreeBlock(t, f.indirect), loc, [f EXCEPT !.indirect = 0])
      ELSE t

FileSetSize(s, loc, size) ==
  LET t == IF FileAt(s, loc).size > size THEN FileTruncateBlocks(s, loc, size) ELSE s
  IN  FlushBlock(PutFile(t, loc, [FileAt(t, loc) EXCEPT !.size = size]), loc[1])

\* slip: the blocks only
FileFlushDataOnly(s, loc) ==
  Loop(s, LAMBDA a, n :
            IF FileBlockWalk(a, loc, n, FALSE).r = NoDisk \/ Slot(a, loc, n) = 0 THEN a
            ELSE FlushBlock(a, Slot(a, loc, n)),
       0, Blocks(FileAt(s, loc).size) - 1)

FileFlush(s, loc) ==
  LET f == FileAt(s, loc)
      t == Loop(s, LAMBDA a, n :
                     IF FileBlockWalk(a, loc, n, FALSE).r = NoDisk \/ Slot(a, loc, n) = 0
                     THEN a ELSE FlushBlock(a, Slot(a, loc, n)),
                0, Blocks(f.size) - 1)
      u == FlushBlock(t, loc[1])
  IN  IF f.indirect = 0 THEN u ELSE FlushBlock(u, f.indirect)

\* file_read of n > 0 at off: a hole gets a block.
FileRead(s, loc, n, off) ==
  LET size == FileAt(s, loc).size
      end == IF off + n < size THEN off + n ELSE size
  IN  IF off >= size THEN s
      ELSE Loop(s, LAMBDA a, i : IF a.r = NoDisk THEN a ELSE FileGetBlock(a, loc, i),
                off \div BlkSize, (end - 1) \div BlkSize)

\* file_write of n > 0 at off, and what serve_write does after it.
FileWrite(s, loc, n, off) ==
  LET t == IF off + n > FileAt(s, loc).size THEN FileSetSize(s, loc, off + n) ELSE s
      put(a, i) == LET g == FileGetBlock(a, loc, i)
                   IN  IF a.r = NoDisk THEN a ELSE IF g.r = NoDisk THEN g
                       ELSE Store(g, g.r, Bytes)
      u == Loop(t, put, off \div BlkSize, (off + n - 1) \div BlkSize)
  IN  IF u.r # NoDisk /\ FileAt(u, loc).size <= off + n
      THEN FileSetSize(u, loc, off + n) ELSE u

FsSync(s) == Loop(s, FlushBlock, 1, NBlocks - 1)

-----------------------------------------------------------------------------
(* The directory *)

\* The file of some name in block g.r of the directory.
FindIn(g, name) ==
  LET hits == {j \in 1 .. BlkFiles : Files(g.mem[g.r])[j].name = name}
  IN  IF g.r = NoDisk \/ hits = {} THEN g
      ELSE [g EXCEPT !.loc = <<g.r, CHOOSE j \in hits : \A k \in hits : j <= k>>]

\* dir_lookup, and with NoName the search of dir_alloc_file: loc is Nowhere if
\* there is none, r is NoDisk if a hole of the directory got no block.
DirLookup(s, name) ==
  LET look(a, i) == IF a.r = NoDisk \/ a.loc # Nowhere THEN a
                    ELSE FindIn(FileGetBlock(a, Root, i), name)
  IN  Loop([s EXCEPT !.r = 0, !.loc = Nowhere], look, 0,
           FileAt(s, Root).size \div BlkSize - 1)

FirstOf(g) == IF g.r = NoDisk THEN g ELSE [g EXCEPT !.loc = <<g.r, 1>>]

\* The directory grows by a block when d has found no File that is not in use.
Grown(d) ==
  LET f == FileAt(d, Root) IN
  IF d.r = NoDisk \/ d.loc # Nowhere THEN d
  ELSE FirstOf(FileGetBlock(PutFile(d, Root, [f EXCEPT !.size = @ + BlkSize]), Root,
                            f.size \div BlkSize))

DirAllocFile(s) == Grown(DirLookup(s, NoName))

WithName(d, name) ==
  IF d.loc = Nowhere THEN d
  ELSE FileFlush(PutFile(d, d.loc, [FileAt(d, d.loc) EXCEPT !.name = name]), Root)

\* file_create once the name was not found.
FileCreate(s, name) == WithName(DirAllocFile(s), name)

Created(l, name) == IF l.r = NoDisk \/ l.loc # Nowhere THEN l ELSE FileCreate(l, name)

\* Emptied with O_TRUNC, and looked up again.
Reopened(o, name, trunc) ==
  IF o.loc = Nowhere THEN o
  ELSE DirLookup(IF trunc THEN FileSetSize(o, o.loc, 0) ELSE o, name)

\* The files of serve_open: found, created with O_CREAT, emptied with O_TRUNC.
Open(s, name, creat, trunc) ==
  LET found == DirLookup(s, name)
  IN  Reopened(IF creat THEN Created(found, name) ELSE found, name, trunc)

-----------------------------------------------------------------------------
(* Starting: fs_init and fs_test on what the disk holds *)

Loaded == [mem |-> disk, dirty |-> {}, out |-> <<>>, sound |-> TRUE,
           r |-> 0, loc |-> Nowhere]

\* fs_test rewrites newmotd: block 0 after the file was emptied.
Rewritten(h) == IF h.r = NoDisk THEN h ELSE FileFlush(Store(h, h.r, Message), h.loc)

\* Block 0 of newmotd is g.r: it is checked and flushed, and the file emptied.
Tested(g) ==
  LET flushed == FileFlush(Store(g, g.r, Message), g.loc)
      emptied == FileSetSize(FileSetSize(flushed, g.loc, 0), g.loc, 1)
  IN  IF g.r = NoDisk \/ g.mem[g.r] # Message THEN [g EXCEPT !.r = NoDisk]
      ELSE Rewritten(FileGetBlock(emptied, g.loc, 0))

MotdOf(o) ==
  IF o.loc = Nowhere THEN [o EXCEPT !.r = NoDisk] ELSE Tested(FileGetBlock(o, o.loc, 0))

\* fs_test takes a block and keeps it; it does not find not-found; then it reads
\* newmotd, empties it and writes it again. r is NoDisk when it panics.
FsTest(s) ==
  LET l == DirLookup(AllocBlock(s), NotFound) IN
  IF Free(s) = {} \/ l.r = NoDisk \/ l.loc # Nowhere THEN [l EXCEPT !.r = NoDisk]
  ELSE MotdOf(DirLookup(l, Motd))

\* check_bc: "OOPS!\n" over s_magic and s_nblocks on the disk, and what was there
\* again, twice. Only s_magic of the two is told apart here: check_super looks
\* at it first.
Smashed(s) == FlushBlock(Store(s, Super, [s.mem[Super] EXCEPT !.magic = FALSE]), Super)

CheckBc(s) ==
  LET mended(a) == FlushBlock(Store(a, Super, s.mem[Super]), Super)
  IN  mended(Smashed(mended(Smashed(s))))

\* check_super panics unless the magic number is there.
Tests(s) == IF s.mem[Super].magic THEN FsTest(s) ELSE [s EXCEPT !.r = NoDisk]

\* What fsformat makes: a directory of one block, one file, newmotd.
Formatted ==
  [b \in Block |->
     IF b = Super
     THEN [kind |-> "super", magic |-> TRUE,
           root |-> [NoFile EXCEPT !.size = BlkSize, !.direct[0] = 3]]
     ELSE IF b = Bitmap THEN [kind |-> "bits", free |-> Data \ {3, 4}]
     ELSE IF b = 3
     THEN [kind |-> "dir",
           file |-> [j \in 1 .. BlkFiles |->
                       IF j = 1 THEN [NoFile EXCEPT !.name = Motd, !.size = 1,
                                                    !.direct[0] = 4]
                       ELSE NoFile]]
     ELSE IF b = 4 THEN Message ELSE Zeros]

Idle == [op |-> "none", loc |-> Nowhere]

Init ==
  /\ disk = Formatted
  /\ mem = disk /\ dirty = {} /\ out = <<>>
  /\ req = Idle /\ up = FALSE /\ sound = TRUE

-----------------------------------------------------------------------------
(* Steps *)

\* The server ends a handler with its memory as in s.
Handled(s, op, loc) ==
  /\ mem' = s.mem /\ dirty' = s.dirty /\ out' = s.out /\ sound' = s.sound
  /\ req' = [op |-> op, loc |-> loc]
  /\ UNCHANGED <<disk, up>>

Ready == up /\ out = <<>> /\ sound

\* The files clients have open: any that exists but newmotd.
Openable ==
  {loc \in (Data \X (1 .. BlkFiles)) :
     /\ loc[1] \in {SlotIn(mem, Root, n) : n \in 0 .. Blocks(mem[Super].root.size) - 1}
     /\ FileIn(mem, loc).name \in Name}

ServeOpen ==
  /\ Ready
  /\ \E name \in Name, creat, trunc \in BOOLEAN :
       Handled(Open(Memory, name, creat, trunc), "open", Nowhere)

ServeSetSize ==
  /\ Ready
  /\ \E loc \in Openable, size \in 0 .. MaxSize :
       Handled(FileSetSize(Memory, loc, size), "set_size", loc)

ServeRead ==
  /\ Ready
  /\ \E loc \in Openable, off \in 0 .. MaxSize - 1 :
       \E n \in 1 .. MaxSize - off : Handled(FileRead(Memory, loc, n, off), "read", loc)

ServeWrite ==
  /\ Ready
  /\ \E loc \in Openable, off \in 0 .. MaxSize - 1 :
       \E n \in 1 .. MaxSize - off : Handled(FileWrite(Memory, loc, n, off), "write", loc)

ServeFlush ==
  /\ Ready
  /\ \E loc \in Openable : Handled(FileFlush(Memory, loc), "flush", loc)

ServeSync == Ready /\ Handled(FsSync(Memory), "sync", Nowhere)

\* ide_write, for the first block a handler still has to write.
DiskWrite ==
  /\ out # <<>>
  /\ disk' = [disk EXCEPT ![out[1].block] = out[1].content]
  /\ out' = Tail(out)
  /\ UNCHANGED <<mem, dirty, req, up, sound>>

\* Every pointer an indirect block has on the disk, it has in memory.
IndirectsStored ==
  \A b \in Data :
    disk[b].kind = "ptrs" =>
      \A i \in DOMAIN disk[b].block :
        disk[b].block[i] \in {0, Pointers(mem[b])[i]}

\* The server starts with its memory as in s, unless check_super or fs_test
\* panics.
Starts(s) ==
  /\ mem' = s.mem /\ dirty' = s.dirty /\ out' = s.out
  /\ up' = (s.r # NoDisk)
  /\ sound' = (s.sound /\ IndirectsStored)
  /\ req' = Idle
  /\ UNCHANGED disk

\* Power comes, for the first time or after it failed: between two writes of a
\* handler, between two writes of a start, or after a panic.
Crash == sound /\ Starts(Tests(CheckBc(Loaded)))

Next ==
  \/ ServeOpen \/ ServeSetSize \/ ServeRead \/ ServeWrite \/ ServeFlush \/ ServeSync
  \/ DiskWrite \/ Crash

Spec == Init /\ [][Next]_vars

-----------------------------------------------------------------------------
(* Safety *)

TypeOK ==
  /\ mem \in [Block -> Content] /\ disk \in [Block -> Content]
  /\ dirty \subseteq Block
  /\ out \in Seq([block : Block, content : Content])
  /\ req \in [op : {"none", "open", "set_size", "read", "write", "flush", "sync"},
              loc : (Block \X (0 .. BlkFiles))]
  /\ up \in BOOLEAN /\ sound \in BOOLEAN

\* The files of an image, the directory included.
Named(img) ==
  {Root} \cup
  {loc \in (Data \X (1 .. BlkFiles)) :
     /\ \E n \in 0 .. Blocks(img[Super].root.size) - 1 :
          /\ n < NDirect \/ img[Super].root.indirect # 0
          /\ loc[1] = SlotIn(img, Root, n)
     /\ FileIn(img, loc).name # NoName}

\* Where an image points to a block: a slot of a file, or its f_indirect (-1).
Uses(img) ==
  {u \in (Named(img) \X (-1 .. NDirect + NIndirect - 1)) :
     u[2] >= NDirect => FileIn(img, u[1]).indirect # 0}

Used(img, u) == IF u[2] = -1 THEN FileIn(img, u[1]).indirect ELSE SlotIn(img, u[1], u[2])

\* No block is used twice, and a block in use is not free.
Consistent(img) ==
  \A u \in Uses(img) :
    Used(img, u) # 0 =>
      /\ Used(img, u) \in Data \ img[Bitmap].free
      /\ \A v \in Uses(img) : Used(img, v) = Used(img, u) => v = u

\* In memory each block belongs to one place of one file and is marked in the
\* bitmap, through every sequence of requests, failure for want of a block
\* and restart (fs/fs.c:61-86, 190-208, 428-467): as long as no block that
\* was not clear was taken for pointers (see BlocksExactAlways).
BlocksExact ==
  /\ TypeOK
  /\ sound => Consistent(mem)

\* "Don't forget to clear any block you allocate" (fs/fs.c:150): a block that
\* held the bytes of a file is never read as pointers or File structures.
BlocksExactAlways == Consistent(mem)

\* Is check_bc about to put the super block back?
Mending == out # <<>> /\ out[1].block = Super /\ out[1].content.magic

\* Whenever power fails, the disk is consistent: a pointer reaches it after
\* the bit of the block it points to (fs/fs.c:83), and before the block can
\* have another owner (fs/fs.c:476). Pointers inside indirect blocks are not
\* written with the truncation that clears them: where one is behind, nothing
\* is claimed. And the super block is one a server can start from, but for the
\* two moments of a start when check_bc has smashed it (fs/bc.c:116-129,
\* 141-157): power that fails then leaves a disk no server starts from, whose
\* bad super block the next server has in memory when it panics.
CrashSafe ==
  sound /\ IndirectsStored =>
    /\ Consistent(disk)
    /\ mem[Super].magic => disk[Super].magic \/ Mending

\* The part of an image a file consists of.
View(img, loc) ==
  LET f == FileIn(img, loc) IN
  [file |-> f,
   slots |-> [n \in 0 .. Blocks(f.size) - 1 |->
                IF n < NDirect \/ f.indirect # 0 THEN SlotIn(img, loc, n) ELSE 0],
   data |-> [n \in 0 .. Blocks(f.size) - 1 |->
               IF (n < NDirect \/ f.indirect # 0) /\ SlotIn(img, loc, n) # 0
               THEN img[SlotIn(img, loc, n)] ELSE Zeros]]

\* When the reply to FSREQ_FLUSH goes out the file is on the disk: its data,
\* its pointers, its size, and the directory that leads to it (lib/file.c:
\* 91-98, fs/fs.c:480-499).
FlushedIsStored ==
  sound /\ out = <<>> /\ req.op = "flush" =>
    req.loc \in Named(disk) /\ View(disk, req.loc) = View(mem, req.loc)

=============================================================================
