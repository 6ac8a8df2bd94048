------------------------------ MODULE FileRead ------------------------------
(***************************************************************************)
(* Reading one regular file of a squashfs image, in one piece (readFile-     *)
(* Limit, data.go) and through a random-access handle (newFile, ReadAt and   *)
(* Close of squashfsFile, openfile.go).  Goroutines share the handle; one    *)
(* iteration of a read loop is one step, so a Close or another call can fall  *)
(* between any two.  Blocks come from the block layer as BlockStore promises  *)
(* them: the decoded block of the image, or an error.                        *)
(***************************************************************************)
EXTENDS FileFormat

CONSTANTS Readers,     \* goroutines
          Inodes,      \* the regular-file inodes of the image
          Offsets,     \* offsets ReadAt is called with
          Lengths,     \* buffer lengths ReadAt is called with
          Ceilings     \* the max of ReadFileLimit

ASSUME BlockSizeAssumption == BlockSize \in Nat \ {0} /\ SizeLimit \in Nat \ {0}

\* What readInode yields for a regular file: readBlockList reads as many size
\* words as blockCount says.
ASSUME InodesAssumption ==
  \A i \in Inodes :
    /\ i.size \in 0..(SizeLimit - 1) /\ i.start \in 0..(SizeLimit - 1)
    /\ i.fragIdx = NoFrag \/ i.fragIdx \in Nat
    /\ i.fragOffset \in Nat
    /\ i.blocks \in Seq(Nat)
    /\ Len(i.blocks) = blockCount(i.size, i.fragIdx # NoFrag)

ASSUME SizesAssumption ==
  /\ RawBit \in Nat \ {0} /\ ImageSize \in Nat
  /\ FragCount \in Nat /\ FragPerMetaBlock \in Nat \ {0}
  /\ Offsets \subseteq Int /\ Lengths \subseteq Nat /\ Ceilings \subseteq Int

\* What decoding a block can give: its bytes, or an error of the decoder.
Decoding(d) == d = Fail("corrupt") \/ (d.err = "nil" /\ d.data \in Seq(Nat))

\* The blocks that the inodes and the fragment table of the image name.
ASSUME DecodingAssumption ==
  /\ \A i \in Inodes : \A k \in 1..Len(i.blocks) :
       \A d \in readBlock(BlockStart(i, k), i.blocks[k]) : d = Fail("ioerr") \/ Decoding(d)
  /\ \A i \in 0..(FragCount - 1) : \A d \in readFragment(i) : d = Fail("ioerr") \/ Decoding(d)

VARIABLES in,      \* the inode of the file
          file,    \* the squashfsFile of the handle, or "unopened" or "refused"
          closed,  \* squashfsFile.closed
          call     \* call[r]: the call reader r is in, or has just returned from

vars == <<in, file, closed, call>>

-----------------------------------------------------------------------------
Idle == [at |-> "idle"]

Init == /\ in \in Inodes
        /\ file = "unopened"
        /\ closed = FALSE
        /\ call = [r \in Readers |-> Idle]

\* The bound both paths put on a declared size before anything is read.
maxBytes == (Len(in.blocks) + 1) * BlockSize

\* The prefix sum newFile computes over the block list.
blockOffsets ==
  LET off[k \in 1..Len(in.blocks)] ==
        IF k = 1 THEN int64(in.start) ELSE off[k - 1] + blockOnDiskBytes(in.blocks[k - 1])
  IN  off

\* Mutant: no room is left for the tail fragment.
OpenFile_NoSlack == /\ file = "unopened"
                    /\ file' = IF in.size > Len(in.blocks) * BlockSize
                               THEN "refused" ELSE "opened"
                    /\ UNCHANGED <<in, closed, call>>

\* OpenFile on a path that resolves to the file: newFile.
OpenFile == /\ file = "unopened"
            /\ file' = IF in.size > maxBytes THEN "refused" ELSE "opened"
            /\ UNCHANGED <<in, closed, call>>

\* squashfsFile.Close, which may be called again.
Close == /\ file = "opened"
         /\ closed' = TRUE
         /\ UNCHANGED <<in, file, call>>

become(r, c) == /\ call' = [call EXCEPT ![r] = c]
                /\ UNCHANGED <<in, file, closed>>

return(r, e) == become(r, [call[r] EXCEPT !.at = "returned", !.err = e])

\* The caller takes the result.
Take(r) == call[r].at = "returned" /\ become(r, Idle)

-----------------------------------------------------------------------------
\* ReadAt: the checks before the loop.
ReadAt(r, off, len) ==
  LET c == [at |-> "readAt", off |-> off, len |-> len, out |-> <<>>, err |-> "nil"]
      early == IF closed THEN "closed"
               ELSE IF off < 0 THEN "negative"
               ELSE IF off >= in.size THEN "EOF" ELSE "nil"
  IN  /\ call[r] = Idle
      /\ file = "opened"
      /\ become(r, IF early = "nil" THEN c ELSE [c EXCEPT !.at = "returned", !.err = early])

\* Where the next iteration of ReadAt's loop is.
cur(r) == call[r].off + Len(call[r].out)
idx(r) == cur(r) \div BlockSize
within(r) == cur(r) % BlockSize
unread(r) == Min({call[r].len - Len(call[r].out), in.size - cur(r)})

deliver(r, d) == become(r, [call[r] EXCEPT !.out = @ \o d])

\* The loop ends: the buffer is full, or the file is at its end.
ReadAtEnds(r) ==
  /\ call[r].at = "readAt"
  /\ \/ Len(call[r].out) >= call[r].len /\ return(r, "nil")
     \/ Len(call[r].out) < call[r].len /\ cur(r) >= in.size /\ return(r, "EOF")

InLoop(r) == /\ call[r].at = "readAt"
             /\ Len(call[r].out) < call[r].len
             /\ cur(r) < in.size

\* Mutant: the fragment is sliced without the bounds check.
pastFragment_Unchecked(d) == FALSE

\* The file's tail does not fit the fragment block d.
pastFragment(d) == in.fragOffset + (in.size - Len(in.blocks) * BlockSize) > Len(d)

\* An iteration past the full blocks: readFragmentInto.
AtFragment(r) == InLoop(r) /\ idx(r) >= Len(in.blocks)

FragmentInto(r, d) ==
  LET start == in.fragOffset + (cur(r) - Len(in.blocks) * BlockSize)
  IN  IF d.err # "nil" THEN return(r, d.err)
      ELSE IF pastFragment(d.data) THEN return(r, "corrupt")
      ELSE deliver(r, Slice(d.data, start, unread(r)))

ReadAtFragment(r) ==
  /\ AtFragment(r)
  /\ IF in.fragIdx = NoFrag
     THEN return(r, "corrupt")
     ELSE \E d \in readFragment(in.fragIdx) : FragmentInto(r, d)

\* An iteration inside the block list.
AtBlock(r) == InLoop(r) /\ idx(r) < Len(in.blocks)

\* Mutant: a short block is copied as far as it goes.
logical_Any(r) == 0

\* The length the block has in the file.
logical(r) == Min({BlockSize, in.size - idx(r) * BlockSize})

want(r) == Min({unread(r), BlockSize - within(r)})

BlockInto(r, d) ==
  IF d.err # "nil" THEN return(r, d.err)
  ELSE IF Len(d.data) < logical(r) THEN return(r, "corrupt")
  ELSE deliver(r, Slice(d.data, within(r), want(r)))

ReadAtBlock(r) ==
  /\ AtBlock(r)
  /\ LET sz == in.blocks[idx(r) + 1]
     IN  IF blockOnDiskBytes(sz) = 0
         THEN deliver(r, Zeros(want(r)))
         ELSE \E d \in readBlock(blockOffsets[idx(r) + 1], sz) : BlockInto(r, d)

-----------------------------------------------------------------------------
\* The loop of readFileLimit that checks every extent before any allocation.
ExtentsRefused ==
  \E k \in 1..Len(in.blocks) :
    LET n == blockOnDiskBytes(in.blocks[k])
    IN  n > 0 /\ (n > BlockSize \/ OutsideImage(blockOffsets[k], n))

\* ReadFileLimit: the checks before the assembly.
ReadFile(r, max) ==
  LET c == [at |-> "readFile", max |-> max, k |-> 1, off |-> int64(in.start),
            remaining |-> in.size, out |-> <<>>, err |-> "nil"]
      early == IF in.size > maxBytes THEN "corrupt"
               ELSE IF max >= 0 /\ in.size > max THEN "too large"
               ELSE IF ExtentsRefused THEN "corrupt" ELSE "nil"
  IN  /\ call[r] = Idle
      /\ become(r, IF early = "nil" THEN c ELSE [c EXCEPT !.at = "returned", !.err = early])

append(r, d, stored) ==
  become(r, [call[r] EXCEPT !.out = @ \o d, !.k = @ + 1, !.off = @ + stored,
                            !.remaining = @ - Len(d)])

\* An error of readFileLimit returns no bytes.
fail(r, e) == become(r, [call[r] EXCEPT !.at = "returned", !.out = <<>>, !.err = e])

\* Mutant: the last block is not clipped to the end of the file.
clip_Never(r) == BlockSize

\* The bytes of the next block that belong to the file.
clip(r) == Min({BlockSize, call[r].remaining})

\* One block of the assembly loop.
Assembling(r) == call[r].at = "readFile" /\ call[r].k <= Len(in.blocks)

AppendBlock(r, d) ==
  IF d.err # "nil" THEN fail(r, d.err)
  ELSE IF Len(d.data) < clip(r) THEN fail(r, "corrupt")
  ELSE append(r, Slice(d.data, 0, clip(r)), blockOnDiskBytes(in.blocks[call[r].k]))

ReadFileBlock(r) ==
  /\ Assembling(r)
  /\ LET sz == in.blocks[call[r].k]
     IN  IF blockOnDiskBytes(sz) = 0
         THEN append(r, Zeros(clip(r)), 0)
         ELSE \E d \in readBlock(call[r].off, sz) : AppendBlock(r, d)

\* After the loop: the tail fragment, then the check of the assembled length.
finish(r, out) ==
  become(r, [call[r] EXCEPT !.at = "returned",
               !.out = IF Len(out) = in.size THEN out ELSE <<>>,
               !.err = IF Len(out) = in.size THEN "nil" ELSE "corrupt"])

\* Mutant: the fragment offset is left out.
tailAt_Zero == 0

\* Where the tail is in its fragment block.
tailAt == in.fragOffset

Assembled(r) == call[r].at = "readFile" /\ call[r].k > Len(in.blocks)

NoTail(r) == in.fragIdx = NoFrag \/ call[r].remaining = 0

AppendTail(r, d) ==
  IF d.err # "nil" THEN fail(r, d.err)
  ELSE IF tailAt + call[r].remaining > Len(d.data) THEN fail(r, "corrupt")
  ELSE finish(r, call[r].out \o Slice(d.data, tailAt, call[r].remaining))

ReadFileTail(r) ==
  /\ Assembled(r)
  /\ IF NoTail(r) THEN finish(r, call[r].out)
     ELSE \E d \in readFragment(in.fragIdx) : AppendTail(r, d)

-----------------------------------------------------------------------------
Step(r) == \/ ReadAtEnds(r) \/ ReadAtFragment(r) \/ ReadAtBlock(r)
           \/ ReadFileBlock(r) \/ ReadFileTail(r)

Next == \/ OpenFile
        \/ Close
        \/ \E r \in Readers : \/ Step(r) \/ Take(r)
                              \/ \E off \in Offsets, len \in Lengths : ReadAt(r, off, len)
                              \/ \E max \in Ceilings : ReadFile(r, max)

\* A goroutine inside a read keeps running; nothing in these loops blocks.  No I/O
\* error is owed to it: a loop that makes no progress is not saved by one.
Spec == /\ Init /\ [][Next]_vars
        /\ \A r \in Readers : WF_vars(Step(r) /\ call'[r].err # "ioerr")

-----------------------------------------------------------------------------
\* The assembled and the remaining length of readFileLimit always add up to the
\* file size, so that the unsigned remaining never wraps.
TypeOK == /\ file \in {"unopened", "opened", "refused"}
          /\ closed \in BOOLEAN
          /\ closed => file = "opened"
          /\ \A r \in Readers :
               \/ call[r] = Idle
               \/ /\ call[r].at \in {"readAt", "readFile", "returned"}
                  /\ call[r].out \in Seq(Nat)
                  /\ call[r].err \in {"nil", "EOF", "closed", "negative", "corrupt",
                                      "ioerr", "too large"}
                  /\ call[r].at = "readFile" =>
                       /\ call[r].remaining \in Nat
                       /\ Len(call[r].out) + call[r].remaining = in.size

Returned(r, op) == call[r].at = "returned" /\ op \in DOMAIN call[r]

\* ReadAt implements io.ReaderAt (openfile.go:122): the bytes delivered are the
\* file's bytes at that offset, never more than asked for; fewer come only with
\* an error; EOF means the end of the file was reached; and ReadAt reports a
\* corrupt file only when the very next byte does not exist in the image.  All of
\* it holds for a call that a Close or other calls overtake.
ReadAtContract ==
  \A r \in Readers : Returned(r, "len") =>
    LET c == call[r]
        n == Len(c.out)
    IN  /\ n <= c.len
        /\ n < c.len => c.err # "nil"
        /\ \A j \in 1..n : Readable(in, c.off + j - 1) /\ c.out[j] = Byte(in, c.off + j - 1)
        /\ c.err = "EOF" => c.off + n >= in.size
        /\ c.err = "corrupt" => c.off + n < in.size /\ ~Readable(in, c.off + n)
        /\ c.err = "closed" => closed /\ n = 0

\* readFileLimit returns the whole file exactly, or no bytes at all; it reports a
\* corrupt file only when some byte of it does not exist, and never silently
\* truncates.
ReadFileExact ==
  \A r \in Readers : Returned(r, "max") =>
    LET c == call[r]
    IN  /\ c.err = "nil" => /\ Len(c.out) = in.size
                            /\ \A p \in 0..(in.size - 1) :
                                 Readable(in, p) /\ c.out[p + 1] = Byte(in, p)
        /\ c.err # "nil" => c.out = <<>>
        /\ c.err = "corrupt" => \E p \in 0..(in.size - 1) : ~Readable(in, p)
        /\ c.err = "too large" => c.max >= 0 /\ in.size > c.max

\* newFile keeps "OpenFile and ReadFile agreeing about which inodes are readable
\* at all" (openfile.go:82): an inode OpenFile refuses is one no ReadFile returns,
\* and one ReadFile returns can be opened.
OpenAgreesWithReadFile ==
  \A r \in Readers : Returned(r, "max") /\ call[r].err = "nil" => file # "refused"

\* Every read returns: each iteration of the ReadAt loop delivers a byte or ends,
\* also on short blocks and damaged fragments.
ReadsReturn == \A r \in Readers : call[r].at \in {"readAt", "readFile"} ~> call[r].at = "returned"
=============================================================================
