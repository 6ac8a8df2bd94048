----------------------------- MODULE InodeDecode -----------------------------
(***************************************************************************)
(* readInode and readBlockList (inode.go): an inode of any of the fourteen     *)
(* types is decoded from the metadata stream, the block list of a file in      *)
(* chunks of Chunk words as the stream delivers them.  What a basic inode       *)
(* looks like on disk is taken from the writer (emitFileInode,                 *)
(* emitSymlinkInode and emitDirInode of write.go).                             *)
(***************************************************************************)
EXTENDS InodeSizes, Sequences, FiniteSetsExt, Functions

CONSTANTS Disk,          \* inodes on disk: [type, field, cut, rest]
          NoXattr,       \* noXattr
          MetaBlockMax,  \* metaBlockMax
          MaxBlocks,     \* 2^24
          Chunk,         \* 1024
          WordSize       \* bytes of a size word (4)

ASSUME DecodeAssumption == /\ BlockSize \in Nat \ {0} /\ SizeLimit \in Nat \ {0}
                           /\ Chunk \in Nat \ {0} /\ WordSize \in Nat \ {0}
                           /\ MaxBlocks \in Nat /\ MetaBlockMax \in Nat

\* A disk inode has a type, field values, the part of it the stream ends in
\* ("header", "body" or "none") and the bytes that follow the body.
VARIABLES disk,
          in,   \* the inode being decoded
          n,    \* the block count readBlockList works to
          pc,
          err

vars == <<disk, in, n, pc, err>>

Init == /\ disk \in Disk
        /\ in = [type |-> "none", mode |-> "none", size |-> 0, start |-> 0, offset |-> 0,
                 fragIdx |-> 0, xattr |-> NoXattr, target |-> <<>>, blocks |-> <<>>]
        /\ n = 0
        /\ pc = "header"
        /\ err = "pending"

Dirs     == {"basicDir", "extDir"}
Files    == {"basicFile", "extFile"}
Symlinks == {"basicSymlink", "extSymlink"}
Special  == {"basicChrdev", "extChrdev", "basicBlkdev", "extBlkdev",
             "basicFifo", "extFifo", "basicSocket", "extSocket"}

\* typeBits.
typeBits(t) == CASE t \in Dirs -> "S_IFDIR"
                 [] t \in Files -> "S_IFREG"
                 [] t \in Symlinks -> "S_IFLNK"
                 [] t \in {"basicChrdev", "extChrdev"} -> "S_IFCHR"
                 [] t \in {"basicBlkdev", "extBlkdev"} -> "S_IFBLK"
                 [] t \in {"basicFifo", "extFifo"} -> "S_IFIFO"
                 [] t \in {"basicSocket", "extSocket"} -> "S_IFSOCK"
                 [] OTHER -> "0"

-----------------------------------------------------------------------------
(* The body of an inode: its fields in order, with their widths.             *)

basicFileBody == << <<"start", 4>>, <<"fragIdx", 4>>, <<"offset", 4>>, <<"size", 4>> >>

basicSymlinkBody == << <<"nlink", 4>>, <<"size", 4>> >>

basicDirBody == << <<"start", 4>>, <<"nlink", 4>>, <<"size", 2>>, <<"offset", 2>>,
                   <<"parent", 4>> >>

extFileBody == << <<"start", 8>>, <<"size", 8>>, <<"sparse", 8>>, <<"nlink", 4>>,
                  <<"fragIdx", 4>>, <<"offset", 4>>, <<"xattr", 4>> >>

extDirBody == << <<"nlink", 4>>, <<"size", 4>>, <<"start", 4>>, <<"parent", 4>>,
                 <<"count", 2>>, <<"offset", 2>>, <<"xattr", 4>> >>

Body(d) == CASE d.type = "basicFile" -> basicFileBody
             [] d.type = "extFile" -> extFileBody
             [] d.type = "basicDir" -> basicDirBody
             [] d.type = "extDir" -> extDirBody
             [] d.type \in Symlinks -> basicSymlinkBody

\* The byte of a body at which its i-th field begins.
Place(body, i) == SumFunctionOnSet([j \in DOMAIN body |-> body[j][2]], 1..(i - 1))

\* The value of the field of that width at byte o of d's body.
FieldAt(d, o, width) ==
  LET b == Body(d)
  IN  d.field[b[CHOOSE i \in DOMAIN b : Place(b, i) = o /\ b[i][2] = width][1]]

u16(o) == FieldAt(disk, o, 2)
u32(o) == FieldAt(disk, o, 4)
u64(o) == FieldAt(disk, o, 8)

\* The size a file inode claims.
fileSize(d) == IF d.type = "basicFile" THEN FieldAt(d, 12, 4) ELSE FieldAt(d, 8, 8)

ASSUME DiskAssumption == \A d \in Disk : /\ d.rest \in Seq(Nat)
                                         /\ d.type \notin Special => d.field.size \in Nat

-----------------------------------------------------------------------------
\* readInode returns an error, and no inode.
fail(e) == /\ pc' = "done"
           /\ err' = e
           /\ UNCHANGED <<disk, in, n>>

\* readInode returns in.
done(i) == /\ pc' = "done"
           /\ err' = "nil"
           /\ in' = i
           /\ UNCHANGED <<disk, n>>

\* The header: the type decides how the body is read.
ReadHeader ==
  /\ pc = "header"
  /\ IF disk.cut = "header" THEN fail("short")
     ELSE IF disk.type \in Special
     THEN done([in EXCEPT !.type = disk.type, !.mode = typeBits(disk.type)])
     ELSE IF disk.type \notin Dirs \cup Files \cup Symlinks THEN fail("corrupt")
     ELSE /\ pc' = "body"
          /\ in' = [in EXCEPT !.type = disk.type, !.mode = typeBits(disk.type)]
          /\ UNCHANGED <<disk, n, err>>

ReadingBody(types) == pc = "body" /\ in.type \in types

BodyEnds == pc = "body" /\ disk.cut = "body" /\ fail("short")

\* Mutant: the bias is kept.
dirDataSize_Biased(stored) == stored

\* dirDataSize.
dirDataSize(stored) == IF stored <= 3 THEN 0 ELSE stored - 3

ReadDirBody ==
  /\ ReadingBody(Dirs)
  /\ disk.cut # "body"
  /\ done(IF in.type = "basicDir"
          THEN [in EXCEPT !.start = u32(0), !.size = dirDataSize(u16(8)), !.offset = u16(10)]
          ELSE [in EXCEPT !.size = dirDataSize(u32(4)), !.start = u32(8), !.offset = u16(18),
                          !.xattr = u32(20)])

\* The target, and after it the xattr index of an extended symlink.
ReadSymlinkBody ==
  /\ ReadingBody(Symlinks)
  /\ disk.cut # "body"
  /\ LET len  == u32(4)
         link == [in EXCEPT !.size = len, !.target = SubSeq(disk.rest, 1, len)]
     IN  IF len > MetaBlockMax THEN fail("corrupt")
         ELSE IF len > Len(disk.rest) THEN fail("short")
         ELSE IF in.type = "basicSymlink" THEN done(link)
         ELSE IF len + WordSize > Len(disk.rest) THEN fail("short")
         ELSE done([link EXCEPT !.xattr = SubSeq(disk.rest, len + 1, len + WordSize)])

\* The fields of a file inode.
fileFields(i) ==
  IF i.type = "basicFile"
  THEN [i EXCEPT !.start = u32(0), !.fragIdx = u32(4), !.offset = u32(8), !.size = fileSize(disk)]
  ELSE [i EXCEPT !.start = u64(0), !.size = fileSize(disk), !.fragIdx = u32(28),
                 !.offset = u32(32), !.xattr = u32(36)]

\* Mutant: made with that length, not with that capacity.
emptyList_Made(count) == [j \in 1..count |-> <<>>]

\* The list readBlockList makes for that many words.
emptyList(count) == <<>>

\* The fields of a file, and the count readBlockList works to.  blockCount returns an
\* int, of 64 bits on every architecture the package is built for: a count of 2^63 or
\* more is negative there, and refused as it is here for being past MaxBlocks.
ReadFileBody ==
  /\ ReadingBody(Files)
  /\ disk.cut # "body"
  /\ LET f     == fileFields(in)
         count == blockCount(f.size, f.fragIdx # NoFrag)
     IN  IF count > MaxBlocks THEN fail("corrupt")
         ELSE /\ pc' = "list"
              /\ in' = [f EXCEPT !.blocks = emptyList(count)]
              /\ n' = count
              /\ UNCHANGED <<disk, err>>

-----------------------------------------------------------------------------
\* The j-th size word after the body.
Word(j) == SubSeq(disk.rest, (j - 1) * WordSize + 1, j * WordSize)

\* Mutant: every chunk is full.
k_Full == Chunk

\* The words the next chunk asks for.
k == IF n - Len(in.blocks) < Chunk THEN n - Len(in.blocks) ELSE Chunk

\* The cursor delivers the words up to m.
Delivered(m) == m * WordSize <= Len(disk.rest)

InList == pc = "list" /\ Len(in.blocks) < n

\* One iteration of readBlockList.
ReadChunk ==
  /\ InList
  /\ Delivered(Len(in.blocks) + k)
  /\ in' = [in EXCEPT !.blocks = @ \o [j \in 1..k |-> Word(Len(@) + j)]]
  /\ UNCHANGED <<disk, n, pc, err>>

ChunkEnds == InList /\ ~Delivered(Len(in.blocks) + k) /\ fail("short")

EndList == pc = "list" /\ Len(in.blocks) >= n /\ done(in)

\* A read of the image fails.
ReadFails == pc # "done" /\ fail("ioerr")

\* readInode has returned: nothing else may stop here.
Returned == pc = "done" /\ UNCHANGED vars

Next == \/ ReadHeader \/ BodyEnds \/ ReadDirBody \/ ReadSymlinkBody \/ ReadFileBody
        \/ ReadChunk \/ ChunkEnds \/ EndList \/ ReadFails \/ Returned

Spec == Init /\ [][Next]_vars

-----------------------------------------------------------------------------
HasXattr == {"extDir", "extFile"}

\* What readInode returns is the inode on disk: each field from its own place in
\* the layout the writer uses, the xattr index of an extended symlink from behind
\* its target, none for a basic inode.
DecodesInode ==
  err = "nil" =>
    /\ in.type = disk.type
    /\ disk.type \in Files =>
         /\ in.size = disk.field.size
         /\ in.start = disk.field.start
         /\ in.fragIdx = disk.field.fragIdx
         /\ in.offset = disk.field.offset
    /\ disk.type \in Dirs =>
         /\ in.size = Max({0, disk.field.size - 3})
         /\ in.start = disk.field.start
         /\ in.offset = disk.field.offset
    /\ disk.type \in Symlinks =>
         /\ Len(in.target) = disk.field.size
         /\ in.target = SubSeq(disk.rest, 1, Len(in.target))
    /\ in.xattr = CASE disk.type \in HasXattr -> disk.field.xattr
                    [] disk.type = "extSymlink" ->
                         SubSeq(disk.rest, disk.field.size + 1, disk.field.size + WordSize)
                    [] OTHER -> NoXattr

\* The block list of a decoded file is the words that follow its body, as many as
\* its size calls for, none lost, repeated or out of place at a chunk boundary of
\* readBlockList: the list whose length newFile and readFileLimit rely on.
ListExact ==
  (err = "nil" /\ in.type \in Files) =>
    in.blocks = [j \in 1..blockCount(in.size, in.fragIdx # NoFrag) |-> Word(j)]

\* The bytes that the inode on disk needs after its body.
Needs == CASE disk.type \in Files ->
                blockCount(disk.field.size, disk.field.fragIdx # NoFrag) * WordSize
           [] disk.type = "basicSymlink" -> disk.field.size
           [] disk.type = "extSymlink" -> disk.field.size + WordSize
           [] OTHER -> 0

\* A sound inode decodes: readInode refuses one, other than for a failed read of
\* the image, only if its type is unknown, the stream ends in it, its target is
\* longer than a metadata block or its list is longer than 2^24 words.
SoundInodeDecodes ==
  err \in {"short", "corrupt"} =>
    \/ disk.type \notin Dirs \cup Files \cup Symlinks \cup Special
    \/ disk.cut # "none"
    \/ Needs > Len(disk.rest)
    \/ disk.type \in Symlinks /\ disk.field.size > MetaBlockMax
    \/ disk.type \in Files /\ Needs > MaxBlocks * WordSize

\* "A lie costs what the metadata can back" (readBlockList): whatever size an
\* inode claims, its block list never holds more words than the stream delivered,
\* and each is in its place.
ListBacked ==
  /\ Len(in.blocks) * WordSize <= Len(disk.rest)
  /\ \A j \in DOMAIN in.blocks : in.blocks[j] = Word(j)
=============================================================================
