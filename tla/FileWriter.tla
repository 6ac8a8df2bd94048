----------------------------- MODULE FileWriter -----------------------------
(***************************************************************************)
(* The image writer's file data (write.go): emitFileInode cuts a file into    *)
(* blocks, packs its tail into a shared fragment block that is flushed when    *)
(* the next tail does not fit, and buildImage flushes the last fragment block  *)
(* and writes the fragment table.  Files come in the order emitNode walks the  *)
(* tree.  How far a block compresses is the compressor's business: any stored  *)
(* length below the block's is possible, and so is none (then it is stored     *)
(* raw).  What was written is read back through the format (FileFormat).       *)
(***************************************************************************)
EXTENDS Integers, Sequences, FiniteSetsExt, Functions

CONSTANTS Trees,        \* the files of a tree, each a sequence of bytes, in emission order
          Options,      \* BuildOptions: [NoFragments, Uncompressed]
          BlockSize,    \* defaultBlockSize
          RawBit,       \* dataUncompressedBit
          DataStart,    \* length of the superblock and the compressor options
          FragPerMetaBlock,
          Width,        \* 2^32: start_block and file_size of a basic file inode
          SizeLimit,    \* 2^64
          NoFrag        \* invalidFrag

\* No size of a data block reaches RawBit, and sizes of 32 bits leave room in 64.
ASSUME WriterAssumption ==
  /\ BlockSize \in Nat \ {0} /\ RawBit \in Nat /\ BlockSize < RawBit
  /\ DataStart \in Nat /\ FragPerMetaBlock \in Nat \ {0}
  /\ Width \in Nat \ {0} /\ SizeLimit \in Nat
  /\ Width + BlockSize <= SizeLimit /\ 2 * Width <= SizeLimit
  /\ NoFrag \notin Nat
  /\ Trees \subseteq Seq(Seq(Nat))
  /\ Options \subseteq [NoFragments : BOOLEAN, Uncompressed : BOOLEAN]

VARIABLES files,        \* the tree being written
          opts,
          disk,         \* data blocks written: [at, sizeWord, payload]
          len,          \* iw.data.Len()
          fragBuf,      \* pending fragment block payload
          fragEntries,  \* emitted fragment blocks: [start, sizeWord]
          inodes,       \* basic-file inodes written so far
          fragTable,    \* the fragment table, once buildImage has written it
          done          \* buildImage has returned

vars == <<files, opts, disk, len, fragBuf, fragEntries, inodes, fragTable, done>>

Init == /\ files \in Trees
        /\ opts \in Options
        /\ disk = <<>>
        /\ len = DataStart
        /\ fragBuf = <<>>
        /\ fragEntries = <<>>
        /\ inodes = <<>>
        /\ fragTable = <<>>
        /\ done = FALSE

-----------------------------------------------------------------------------
\* The stored lengths compress can come to for a payload of n bytes.
compress(n) == IF opts.Uncompressed THEN {n} ELSE 1..n

\* The size word writeDataBlock returns: raw when nothing was gained.
sizeWord(n, stored) == IF stored = n THEN n + RawBit ELSE stored

BlockAt(at, payload, stored) ==
  [at |-> at, sizeWord |-> sizeWord(Len(payload), stored), payload |-> payload]

\* The bytes of a file that go into data blocks of its own.
fullLen(d) == IF opts.NoFragments THEN Len(d) ELSE (Len(d) \div BlockSize) * BlockSize

blocksOf(d) ==
  [k \in 1..((fullLen(d) + BlockSize - 1) \div BlockSize) |->
     SubSeq(d, (k - 1) * BlockSize + 1, Min({k * BlockSize, fullLen(d)}))]

tailOf(d) == SubSeq(d, fullLen(d) + 1, Len(d))

\* Choices of a stored length for each block of d.
Stored(d) == {s \in [1..Len(blocksOf(d)) -> 1..BlockSize] :
                \A k \in 1..Len(blocksOf(d)) : s[k] \in compress(Len(blocksOf(d)[k]))}

BlocksWritten(d, s) ==
  [k \in 1..Len(blocksOf(d)) |->
     BlockAt(len + SumFunctionOnSet(s, 1..(k - 1)), blocksOf(d)[k], s[k])]

\* Mutant: the pending block may pass the block size by one.
Overflows_OffByOne(d) == Len(fragBuf) + Len(tailOf(d)) > BlockSize + 1

\* The tail of d does not fit into the pending fragment block.
Overflows(d) == Len(fragBuf) + Len(tailOf(d)) > BlockSize

\* Mutant: a width one too small.
fileInode_Narrow(d, words, fragIdx, fragOffset) ==
  [start |-> len % (Width - 1), size |-> Len(d) % (Width - 1), blocks |-> words,
   fragIdx |-> fragIdx, fragOffset |-> fragOffset]

\* The basic-file inode, with its 32-bit fields.
fileInode(d, words, fragIdx, fragOffset) ==
  [start |-> len % Width, size |-> Len(d) % Width, blocks |-> words,
   fragIdx |-> fragIdx, fragOffset |-> fragOffset]

current == files[Len(inodes) + 1]

Emitting == Len(inodes) < Len(files)

\* emitFileInode, when no fragment block has to be flushed: no tail, or one that
\* fits (addToFragment).
EmitFile ==
  /\ Emitting
  /\ tailOf(current) = <<>> \/ ~Overflows(current)
  /\ \E s \in Stored(current) :
       LET d == current
           new == BlocksWritten(d, s)
           words == [k \in 1..Len(new) |-> new[k].sizeWord]
           hasTail == tailOf(d) # <<>>
       IN  /\ disk' = disk \o new
           /\ len' = len + SumFunction(s)
           /\ inodes' = Append(inodes,
                          fileInode(d, words, IF hasTail THEN Len(fragEntries) ELSE NoFrag,
                                              IF hasTail THEN Len(fragBuf) ELSE 0))
  /\ fragBuf' = fragBuf \o tailOf(current)
  /\ UNCHANGED <<files, opts, fragEntries, fragTable, done>>

\* Mutant: the fragment index is taken before the flush.
flushedIdx_Stale == Len(fragEntries)

\* The fragment index of a tail that is packed after a flush.
flushedIdx == Len(fragEntries')

\* emitFileInode, when addToFragment first flushes the pending fragment block,
\* after the file's own blocks.
EmitFileAndFlush ==
  /\ Emitting
  /\ tailOf(current) # <<>> /\ Overflows(current)
  /\ \E s \in Stored(current), f \in compress(Len(fragBuf)) :
       LET d == current
           new == BlocksWritten(d, s)
           words == [k \in 1..Len(new) |-> new[k].sizeWord]
           frag == BlockAt(len + SumFunction(s), fragBuf, f)
       IN  /\ disk' = disk \o new \o <<frag>>
           /\ len' = len + SumFunction(s) + f
           /\ fragEntries' = Append(fragEntries, [start |-> frag.at, sizeWord |-> frag.sizeWord])
           /\ inodes' = Append(inodes, fileInode(d, words, flushedIdx, 0))
  /\ fragBuf' = tailOf(current)
  /\ UNCHANGED <<files, opts, fragTable, done>>

\* writeFragmentTable: metadata blocks of FragPerMetaBlock entries each.
tableOf(entries) ==
  [k \in 1..((Len(entries) + FragPerMetaBlock - 1) \div FragPerMetaBlock) |->
     SubSeq(entries, (k - 1) * FragPerMetaBlock + 1,
                     Min({k * FragPerMetaBlock, Len(entries)}))]

\* Mutant: the last fragment block is not flushed.
nothingPending_Ever == TRUE

\* flushFragment has nothing to write.
nothingPending == fragBuf = <<>>

\* The end of buildImage: the last fragment block, then the fragment table.
Finish ==
  /\ ~done
  /\ Len(inodes) = Len(files)
  /\ IF nothingPending
     THEN UNCHANGED <<disk, len, fragEntries>>
     ELSE \E f \in compress(Len(fragBuf)) :
            LET frag == BlockAt(len, fragBuf, f)
            IN  /\ disk' = Append(disk, frag)
                /\ len' = len + f
                /\ fragEntries' = Append(fragEntries,
                                    [start |-> frag.at, sizeWord |-> frag.sizeWord])
  /\ fragBuf' = <<>>
  /\ fragTable' = tableOf(fragEntries')
  /\ done' = TRUE
  /\ UNCHANGED <<files, opts, inodes>>

Next == EmitFile \/ EmitFileAndFlush \/ Finish

Spec == Init /\ [][Next]_vars

-----------------------------------------------------------------------------
\* Types.  What matters: the pending fragment block (fragBuf) and every block on
\* disk hold at most a block of bytes, and blocks lie in the data area.
TypeOK == /\ Len(fragBuf) <= BlockSize
          /\ len >= DataStart
          /\ done \in BOOLEAN
          /\ \A k \in 1..Len(disk) :
               /\ disk[k].at \in DataStart..(len - 1)
               /\ Len(disk[k].payload) \in 1..BlockSize
          /\ Len(inodes) <= Len(files)

\* The image as a reader sees it: the block written at an offset, if the size word
\* used to read it is the one it was written with.
DiskImage(o, sz) ==
  IF \E k \in 1..Len(disk) : disk[k].at = o /\ disk[k].sizeWord = sz
  THEN [err |-> "nil",
        data |-> disk[CHOOSE k \in 1..Len(disk) : disk[k].at = o].payload]
  ELSE [err |-> "corrupt", data |-> <<>>]

Format == INSTANCE FileFormat
            WITH ImageSize <- len, Image <- DiskImage, FragCount <- Len(fragEntries),
                 FragTable <- [k \in 1..Len(fragTable) |-> [err |-> "nil", data |-> fragTable[k]]]

\* The inode readInode decodes: as many size words as the stored size calls for.
Decoded(i) ==
  [i EXCEPT !.blocks = SubSeq(@, 1, Format!blockCount(i.size, i.fragIdx # NoFrag))]

\* The data area and its files are within what the 32-bit fields of a file inode can say.
Fits == len <= Width /\ \A f \in 1..Len(files) : Len(files[f]) < Width

\* BuildFromDir writes "a standard SquashFS 4.0 image that unsquashfs (and this
\* package) can read" (write.go:66): every file of the tree has its size and all
\* its bytes back, whatever was packed with it and however well it compressed, up to
\* the last size and the last byte of data that the 32-bit fields hold.  (Past them
\* emitFileInode stores the low 32 bits and reports no error.)
ReadsBack ==
  done /\ Fits =>
    \A f \in 1..Len(files) :
      LET i == Decoded(inodes[f])
      IN  /\ i.size = Len(files[f])
          /\ \A p \in 0..(Len(files[f]) - 1) :
               Format!Readable(i, p) /\ Format!Byte(i, p) = files[f][p + 1]

\* addToFragment hands out the index of a fragment block before that block is
\* written: at every moment the tail of each file written so far is, at the offset
\* in its inode, in the block its index names, or in the pending buffer when the
\* index is the next one to be used.
TailsPlaced ==
  \A f \in 1..Len(inodes) :
    LET i == inodes[f]
        tail == tailOf(files[f])
        block == IF i.fragIdx = Len(fragEntries) THEN fragBuf
                 ELSE DiskImage(fragEntries[i.fragIdx + 1].start,
                                fragEntries[i.fragIdx + 1].sizeWord).data
    IN  IF i.fragIdx = NoFrag THEN tail = <<>>
        ELSE /\ i.fragIdx <= Len(fragEntries)
             /\ SubSeq(block, i.fragOffset + 1, i.fragOffset + Len(tail)) = tail
=============================================================================
