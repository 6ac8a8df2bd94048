----------------------------- MODULE FileFormat -----------------------------
(***************************************************************************)
(* A regular file as the SquashFS format lays it out, and the block reads it  *)
(* takes (readBlock, readFragmentEntry and readFragment of data.go): a list   *)
(* of size words for contiguous data blocks, then a tail in a shared fragment *)
(* block.  The reader (FileRead) and the writer (FileWriter) meet here.  The  *)
(* block layer below is taken as BlockStore promises it: a read gives the     *)
(* decoded block of the image, or an error.                                   *)
(***************************************************************************)
EXTENDS InodeSizes, Sequences, FiniteSetsExt, Functions

CONSTANTS RawBit,      \* dataUncompressedBit, 2^24
          ImageSize,   \* fs.size, 0 when the image size is not known
          Image(_, _), \* Image(o, sz): what reading the bytes at o under size word sz and
                       \* decoding them gives, an I/O error where there are none
          FragCount,   \* sb.FragCount
          FragPerMetaBlock, \* fragment entries in one metadata block
          FragTable    \* FragTable[i]: the entries of the i-th block of the table

Ok(d) == [err |-> "nil", data |-> d]
Fail(e) == [err |-> e, data |-> <<>>]

Zeros(n) == [i \in 1..n |-> 0]

\* Go's s[from:from+n] and copy, for a 0-based from.
Slice(s, from, n) == SubSeq(s, from + 1, Min({from + n, Len(s)}))

\* blockOnDiskBytes: the size word with the uncompressed bit cleared, and no other.
blockOnDiskBytes(sz) == IF (sz \div RawBit) % 2 = 1 THEN sz - RawBit ELSE sz

\* The int64 of an unsigned 64-bit number: from 2^63 on it is negative.  (What is added
\* to it on the way to an offset may pass 2^63 and wrap; such an offset is outside the
\* image with and without the wrap.)
int64(u) == IF u < SizeLimit \div 2 THEN u ELSE u - SizeLimit

\* checkExtent fails.
OutsideImage(off, n) == ImageSize > 0 /\ (off < 0 \/ off > ImageSize - n)

\* What readBlock can return (the Answers of BlockStore).
readBlock(off, sz) ==
  LET n == blockOnDiskBytes(sz)
  IN  IF n = 0 THEN {Ok(<<>>)}
      ELSE IF n > BlockSize \/ OutsideImage(off, n) THEN {Fail("corrupt")}
      ELSE {Image(off, sz), Fail("ioerr")}

\* readFragmentEntry: the index check, then the two-level table.
readFragmentEntry(i) ==
  LET block == FragTable[(i \div FragPerMetaBlock) + 1]
      at    == i % FragPerMetaBlock
  IN  IF i >= FragCount THEN {Fail("corrupt")}
      ELSE {Fail("ioerr"), IF block.err # "nil" \/ at >= Len(block.data)
                           THEN Fail("corrupt")
                           ELSE Ok(block.data[at + 1])}

readFragment(i) ==
  UNION {IF e.err # "nil" THEN {e} ELSE readBlock(int64(e.data.start), e.data.sizeWord) :
           e \in readFragmentEntry(i)}

-----------------------------------------------------------------------------
\* The bytes an inode [size, start, blocks, fragIdx, fragOffset] declares: byte p
\* is in block p \div BlockSize of the contiguous block list, zero when that block
\* is sparse, and past the list in the fragment.

\* The size is within what the block list and one more block can supply.
Plausible(i) == i.size <= (Len(i.blocks) + 1) * BlockSize

Stored(i, k) == blockOnDiskBytes(i.blocks[k])

BlockStart(i, k) ==
  int64(i.start) + SumFunctionOnSet([j \in 1..Len(i.blocks) |-> Stored(i, j)], 1..(k - 1))

Holds(d, need) == d.err = "nil" /\ Len(d.data) >= need

\* Block k holds its share of the file: a whole block, or up to the file's end.
GoodBlock(i, k) ==
  Stored(i, k) = 0 \/ (/\ Stored(i, k) <= BlockSize
                       /\ ~OutsideImage(BlockStart(i, k), Stored(i, k))
                       /\ Holds(Image(BlockStart(i, k), i.blocks[k]),
                                Min({BlockSize, i.size - (k - 1) * BlockSize})))

\* The fragment holds everything past the block list.
GoodTail(i) ==
  /\ i.fragIdx # NoFrag
  /\ \A d \in readFragment(i.fragIdx) :
       d.err # "ioerr" => Holds(d, i.fragOffset + i.size - Len(i.blocks) * BlockSize)

\* Byte p of the file exists in the image.
Readable(i, p) == /\ Plausible(i)
                  /\ IF p \div BlockSize < Len(i.blocks)
                     THEN GoodBlock(i, (p \div BlockSize) + 1)
                     ELSE GoodTail(i)

\* Byte p of the file, given that it exists.
Byte(i, p) ==
  LET k == (p \div BlockSize) + 1
      d == CHOOSE d \in readFragment(i.fragIdx) : d.err = "nil"
  IN  IF k > Len(i.blocks) THEN d.data[i.fragOffset + p - Len(i.blocks) * BlockSize + 1]
      ELSE IF Stored(i, k) = 0 THEN 0
      ELSE Image(BlockStart(i, k), i.blocks[k]).data[(p % BlockSize) + 1]
=============================================================================
