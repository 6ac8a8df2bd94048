----------------------------- MODULE CachedRead -----------------------------
(***************************************************************************)
(* File reading on top of the block cache.  FileRead takes every block        *)
(* straight from the image; here its loops call readBlock of BlockCache, so    *)
(* the position of a loop, the caches that all goroutines share, their         *)
(* evictions and the Close of the FS change between the call for a block and   *)
(* its arrival.                                                                *)
(***************************************************************************)
EXTENDS FileRead

CONSTANTS Blocks,       \* the data block references of the image
          CacheOffsets, \* where they are
          Payloads,     \* decoded contents
          Content,      \* Content[b]: what reading and decoding b's bytes yields
          Bytes,        \* Bytes[p]: the bytes of content p
          Cap,          \* metaCap and dataCap
          MetaBlockMax, \* metaBlockMax
          None

VARIABLES pc, req, buf, res, map, keys, open, \* the block layer, of BlockCache
          asked  \* asked[r]: the loop of r is inside readBlock

BC == INSTANCE BlockCache WITH Callers <- Readers, Offsets <- CacheOffsets

cacheVars == <<pc, req, buf, res, map, keys, open>>

allVars == <<vars, cacheVars, asked>>

\* The result of readBlock, as the loops see it.
result(x) == IF x = "sparse" THEN Ok(<<>>)
             ELSE IF x \in BC!Errors THEN Fail(x) ELSE Ok(Bytes[x])

\* Both layers read one image, in which no offset carries two size words.
ASSUME ImageAssumption ==
  /\ \A b \in Blocks :
       Image(b.off, IF b.compressed THEN b.n ELSE b.n + RawBit) = result(Content[b])
  /\ BC!OneWordPerOffset

blockOnDiskSize(off, sz) == [kind |-> "data", off |-> off, n |-> blockOnDiskBytes(sz),
                             compressed |-> (sz \div RawBit) % 2 = 0]

\* The loop of r is past the block list, at a fragment the inode names.
AtTail(r) == \/ AtFragment(r) /\ in.fragIdx # NoFrag
             \/ Assembled(r) /\ ~NoTail(r)

\* The block the loop of r reads next, if it reads one: none when it ends, when
\* its block is sparse or when the fragment entry cannot be read.
Wanted(r) ==
  LET stored(off, sz) == IF blockOnDiskBytes(sz) = 0 THEN {} ELSE {blockOnDiskSize(off, sz)}
  IN  IF AtBlock(r) THEN stored(blockOffsets[idx(r) + 1], in.blocks[idx(r) + 1])
      ELSE IF Assembling(r) THEN stored(call[r].off, in.blocks[call[r].k])
      ELSE IF ~AtTail(r) THEN {}
      ELSE {blockOnDiskSize(int64(e.data.start), e.data.sizeWord) :
              e \in {e \in readFragmentEntry(in.fragIdx) : e.err = "nil"}}

\* The loop calls readBlock.
Ask(r) == /\ ~asked[r]
          /\ \E b \in Wanted(r) : BC!Call(r, b)
          /\ asked' = [asked EXCEPT ![r] = TRUE]
          /\ UNCHANGED vars

\* What the iteration makes of the outcome d.
Got(r, d) == \/ AtBlock(r) /\ BlockInto(r, d)
             \/ AtFragment(r) /\ FragmentInto(r, d)
             \/ Assembling(r) /\ AppendBlock(r, d)
             \/ Assembled(r) /\ AppendTail(r, d)

\* readBlock returns to the loop.
Arrive(r) == /\ asked[r]
             /\ pc[r] = "idle"
             /\ Got(r, result(res[r]))
             /\ asked' = [asked EXCEPT ![r] = FALSE]
             /\ UNCHANGED cacheVars

\* An iteration that reads no block, or fails on the fragment entry.
Alone(r) == /\ ~asked[r]
            /\ \/ Wanted(r) = {} /\ Step(r)
               \/ /\ AtTail(r)
                  /\ \E e \in readFragmentEntry(in.fragIdx) : e.err # "nil" /\ Got(r, e)
            /\ UNCHANGED <<cacheVars, asked>>

\* A step inside readBlock.
Serve(r) == BC!Step(r) /\ UNCHANGED <<vars, asked>>

\* The callers: open, read, close the handle.
Use == /\ \/ OpenFile
          \/ Close
          \/ \E r \in Readers : \/ Take(r)
                                \/ \E off \in Offsets, len \in Lengths : ReadAt(r, off, len)
                                \/ \E max \in Ceilings : ReadFile(r, max)
       /\ UNCHANGED <<cacheVars, asked>>

\* FS.Close, under reads in flight.
CloseFS == BC!Close /\ UNCHANGED <<vars, asked>>

CachedInit == Init /\ BC!Init /\ asked = [r \in Readers |-> FALSE]

Run(r) == Ask(r) \/ Serve(r) \/ Arrive(r) \/ Alone(r)

CachedNext == Use \/ CloseFS \/ \E r \in Readers : Run(r)

\* A goroutine inside a read keeps running, as in FileRead and BlockCache.
CachedSpec == CachedInit /\ [][CachedNext]_allVars /\ \A r \in Readers : WF_allVars(Run(r))

-----------------------------------------------------------------------------
\* To the loops of ReadAt and readFileLimit the caches, the evictions, the other
\* goroutines and FS.Close are invisible: every step they take on a block that
\* came through the cache is one FileRead allows for a block read from the image,
\* so all that is shown of FileRead holds of them.
ReadsLikeUncached == Init /\ [][Next]_vars

\* Under those loops, too, the block layer is the cacheless BlockStore, and every
\* readBlock returns, whatever the other goroutine stores and evicts meanwhile.
BlocksArrive == BC!ImplementsStore
=============================================================================
