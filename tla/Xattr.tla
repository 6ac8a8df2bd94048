-------------------------------- MODULE Xattr --------------------------------
(***************************************************************************)
(* Extended attributes of one inode (xattr.go, and inodeXattrs of fs.go): the *)
(* id table is located and checked, the inode's id entry is found through its *)
(* two levels, and the loop of readXattrPairs reads key/value pairs from the   *)
(* key/value region, one pair per step, against a budget.  The region is the   *)
(* sequence of pairs it holds, so a reference into it is a position.  A value  *)
(* is [of, n]: the n bytes stored as the value of pair `of'.                   *)
(***************************************************************************)
EXTENDS Integers, Sequences, SequencesExt, FiniteSetsExt

CONSTANTS Images,        \* [start, len, idCount, blocks, pairs], see below
          Indexes,       \* xattr indexes of inodes
          NoXattr,       \* noXattr
          NoTable,       \* XattrTableStart of an image without attributes
          IndexHeader,   \* bytes of the id table's header (16)
          PtrSize,       \* bytes of a pointer of its index (8)
          PerBlock,      \* xattrIDPerMetaBlock
          PrefixLen,     \* PrefixLen[t]: length of xattrPrefixes[t]
          MetaBlockMax,  \* metaBlockMax
          RefSize,       \* bytes of an out-of-line reference (8)
          PairCost,      \* the fixed charge of a pair (8)
          MaxXattrBytes  \* maxXattrBytes

\* An image has an id table at offset start (or NoTable) that claims idCount
\* entries, a file length len, metadata blocks of entries [ref, count] (a block
\* that does not decode gives the same error as an empty one), and a region of pairs
\* [type, name, ool, vsize, at]: name a sequence of
\* characters, vsize the stored value's size, at the pair an out-of-line value is in.
ASSUME SizesAssumption == /\ IndexHeader \in Nat /\ PtrSize \in Nat \ {0}
                          /\ PerBlock \in Nat \ {0} /\ Indexes \subseteq Nat
                          /\ PairCost \in Nat /\ MaxXattrBytes \in Nat
                          /\ \A t \in DOMAIN PrefixLen : PrefixLen[t] \in Nat

\* Every pointer in the file leads to a block, if only to an empty one.
ASSUME ImagesAssumption ==
  \A g \in Images :
    /\ g.start \in Nat /\ g.len \in Nat /\ g.idCount \in Nat
    /\ g.blocks \in Seq(Seq([ref : Nat \ {0}, count : Nat]))
    /\ g.start + IndexHeader + (Len(g.blocks) + 1) * PtrSize > g.len
    /\ Len(g.pairs) \in Nat /\ DOMAIN g.pairs = 1..Len(g.pairs)
    /\ \A k \in DOMAIN g.pairs : g.pairs[k].vsize \in Nat /\ Len(g.pairs[k].name) \in Nat

VARIABLES img,
          size,    \* fs.size
          idx,     \* in.xattrIdx
          pc,
          entry,   \* the xattrIDEntry found
          pos,     \* the pair under the cursor
          i,       \* pairs read
          budget,
          out,     \* the map: qualified name to value
          err      \* what Xattrs returned

vars == <<img, size, idx, pc, entry, pos, i, budget, out, err>>

Init == /\ img \in Images
        /\ size \in {-1, img.len}
        /\ idx \in Indexes
        /\ pc = "start"
        /\ entry = [ref |-> 0, count |-> 0]
        /\ pos = 0
        /\ i = 0
        /\ budget = MaxXattrBytes
        /\ out = <<>>
        /\ err = "pending"

\* Xattrs returns; an error returns no map.
return(e) == /\ pc' = "done"
             /\ err' = e
             /\ out' = IF e = "nil" THEN out ELSE <<>>
             /\ UNCHANGED <<img, size, idx, entry, pos, i, budget>>

-----------------------------------------------------------------------------
\* inodeXattrs: nothing to look up.
NoAttributes == /\ pc = "start"
                /\ idx = NoXattr \/ img.start = NoTable
                /\ return("nil")

\* Mutant: a part of a block is not counted.
nBlocks_Floor == img.idCount \div PerBlock

nBlocks == (img.idCount + PerBlock - 1) \div PerBlock

\* readXattrTable: the index must lie in an image of known size.
ReadXattrTable ==
  /\ pc = "start"
  /\ idx # NoXattr /\ img.start # NoTable
  /\ IF img.start + IndexHeader > img.len THEN return("ioerr")
     ELSE IF size > 0 /\ img.start + IndexHeader + nBlocks * PtrSize > size
     THEN return("corrupt")
     ELSE /\ pc' = "table"
          /\ UNCHANGED <<img, size, idx, entry, pos, i, budget, out, err>>

\* Mutant: a table of one block.
blockIdx_First == 0

\* Where entry idx is: the block, and the position in it.
blockIdx == idx \div PerBlock

inBlock == idx % PerBlock

\* readXattrIDEntry.
ReadXattrIDEntry ==
  /\ pc = "table"
  /\ IF idx >= img.idCount \/ blockIdx >= nBlocks THEN return("corrupt")
     ELSE IF img.start + IndexHeader + (blockIdx + 1) * PtrSize > img.len THEN return("ioerr")
     ELSE LET block == img.blocks[blockIdx + 1]
          IN  IF inBlock >= Len(block) THEN return("corrupt")
              ELSE /\ pc' = "entry"
                   /\ entry' = block[inBlock + 1]
                   /\ UNCHANGED <<img, size, idx, pos, i, budget, out, err>>

\* The cursor readXattrPairs opens: at a pair, or at the end of the region.
NewMetaCursor ==
  /\ pc = "entry"
  /\ IF entry.ref > Len(img.pairs) + 1 THEN return("corrupt")
     ELSE /\ pc' = "pairs"
          /\ pos' = entry.ref
          /\ UNCHANGED <<img, size, idx, entry, i, budget, out, err>>

-----------------------------------------------------------------------------
qualified(p) == <<p.type, p.name>>

\* readXattrValueAt: the value stored with a pair.  That of an out-of-line pair is
\* its reference; it is not followed again.
ValueAt(k) == [of |-> k, n |-> img.pairs[k].vsize]

ReadableAt(k) == k \in DOMAIN img.pairs /\ img.pairs[k].vsize <= MetaBlockMax

\* The pair at position k can be read.  (int(vsize) keeps a 32-bit size, int being of 64
\* bits on every architecture the package is built for.)
WellFormed(k) ==
  LET p == img.pairs[k]
  IN  /\ Len(p.name) <= MetaBlockMax
      /\ p.type \in DOMAIN PrefixLen
      /\ IF p.ool THEN p.vsize = RefSize /\ ReadableAt(p.at) ELSE p.vsize <= MetaBlockMax

ValueOf(k) == IF img.pairs[k].ool THEN ValueAt(img.pairs[k].at) ELSE ValueAt(k)

\* Mutant: an out-of-line value is charged its size in the list.
charge_Stored(k) ==
  PrefixLen[img.pairs[k].type] + Len(img.pairs[k].name) + img.pairs[k].vsize

\* What a pair is charged on top of the fixed charge.
charge(k) == PrefixLen[img.pairs[k].type] + Len(img.pairs[k].name) + ValueOf(k).n

\* The loop's condition.
InLoop == pc = "pairs" /\ i < entry.count

\* An iteration of readXattrPairs that returns an error.
RefusePair ==
  /\ InLoop
  /\ \/ budget < PairCost /\ return("too large")
     \/ budget >= PairCost /\ pos > Len(img.pairs) /\ return("ioerr")
     \/ budget >= PairCost /\ pos <= Len(img.pairs) /\ ~WellFormed(pos) /\ return("corrupt")
     \/ /\ budget >= PairCost /\ pos <= Len(img.pairs)
        /\ WellFormed(pos) /\ budget < PairCost + charge(pos)
        /\ return("too large")

\* Mutant: a name that is there already keeps its value.
replaces_Never(k, q) == q \notin DOMAIN out

\* out[name] = val: a name that comes again takes the new value.
replaces(k, q) == q = qualified(img.pairs[k])

store(k) == [q \in DOMAIN out \cup {qualified(img.pairs[k])} |->
               IF replaces(k, q) THEN ValueOf(k) ELSE out[q]]

\* An iteration that adds a pair.
ReadPair ==
  /\ InLoop
  /\ pos <= Len(img.pairs)
  /\ WellFormed(pos)
  /\ budget >= PairCost + charge(pos)
  /\ budget' = budget - PairCost - charge(pos)
  /\ out' = store(pos)
  /\ pos' = pos + 1
  /\ i' = i + 1
  /\ UNCHANGED <<img, size, idx, pc, entry, err>>

\* All pairs were read.
EndPairs == pc = "pairs" /\ i >= entry.count /\ return("nil")

\* A read of the image fails.
ReadFails == pc # "done" /\ return("ioerr")

\* Xattrs has returned: nothing else may stop here.
Returned == pc = "done" /\ UNCHANGED vars

Next == \/ NoAttributes \/ ReadXattrTable \/ ReadXattrIDEntry \/ NewMetaCursor
        \/ RefusePair \/ ReadPair \/ EndPairs \/ ReadFails \/ Returned

Spec == Init /\ [][Next]_vars

-----------------------------------------------------------------------------
\* The positions of an entry's list, and what a pair costs.
List(e) == e.ref..(e.ref + e.count - 1)

Price(k) == PairCost + PrefixLen[img.pairs[k].type] + Len(img.pairs[k].name) + ValueOf(k).n

Cost(S) == SumFunctionOnSet([k \in S |-> Price(k)], S)

\* An id table that is what mksquashfs writes: in the file, full blocks and the rest.
HonestTable ==
  /\ img.start + IndexHeader + nBlocks * PtrSize <= img.len
  /\ img.idCount = Len(FlattenSeq(img.blocks))
  /\ \A b \in DOMAIN img.blocks :
       IF b = Len(img.blocks) THEN Len(img.blocks[b]) \in 1..PerBlock
                              ELSE Len(img.blocks[b]) = PerBlock

\* What readXattrPairs returns is the list and nothing else: the names of exactly
\* the pairs the entry counts, each with the value of its last pair, a shared
\* out-of-line value in full for every name that refers to it; and an error returns
\* no partial map.
AttributesExact ==
  /\ err \notin {"pending", "nil"} => out = <<>>
  /\ (err = "nil" /\ idx # NoXattr /\ img.start # NoTable) =>
       /\ \A k \in List(entry) : k \in DOMAIN img.pairs /\ WellFormed(k)
       /\ DOMAIN out = {qualified(img.pairs[k]) : k \in List(entry)}
       /\ \A k \in List(entry) :
            (\A l \in List(entry) : qualified(img.pairs[l]) = qualified(img.pairs[k]) => l <= k)
              => out[qualified(img.pairs[k])] = ValueOf(k)

\* The list is the inode's own: readXattrIDEntry finds the entry at the inode's
\* index of the flat table, across the blocks the table is cut into.
EntryAtIndex ==
  (err = "nil" /\ idx # NoXattr /\ img.start # NoTable /\ HonestTable) =>
    entry = FlattenSeq(img.blocks)[idx + 1]

\* What the names and values in a map weigh.
Weights(map) == [q \in DOMAIN map |-> PrefixLen[q[1]] + Len(q[2]) + map[q].n]

Held == SumFunctionOnSet(Weights(out), DOMAIN out)

\* The budget of readXattrPairs bounds what a list can cost whatever its entry
\* counts and wherever its values lie: at every step the map and the fixed charge
\* of the rounds made so far are within maxXattrBytes, and a list is only refused
\* as too large when its pairs up to the refused one really exceed it.
BoundedOutput ==
  /\ Held + PairCost * i <= MaxXattrBytes
  /\ (err = "too large" /\ pos <= Len(img.pairs)) =>
        ~WellFormed(pos) \/ Cost(entry.ref..pos) > MaxXattrBytes

\* Every attribute of a sound image can be read: an index of an honest id table,
\* up to the last entry of its last block, whose list is in the region and within
\* maxXattrBytes is returned, unless a read of the image fails.
SoundListReturned ==
  (/\ err \notin {"pending", "ioerr"}
   /\ idx # NoXattr /\ img.start # NoTable
   /\ HonestTable /\ idx < img.idCount) =>
     LET e == FlattenSeq(img.blocks)[idx + 1]
     IN  (/\ e.ref <= Len(img.pairs) + 1
          /\ \A k \in List(e) : k \in DOMAIN img.pairs /\ WellFormed(k)
          /\ Cost(List(e)) <= MaxXattrBytes)
         => err = "nil"
=============================================================================
