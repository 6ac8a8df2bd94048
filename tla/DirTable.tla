------------------------------ MODULE DirTable ------------------------------
(***************************************************************************)
(* Directories written and listed.  emitNode (write.go) walks a tree, children *)
(* before their directory, and appends inodes and listings to the two metadata *)
(* tables; a listing groups the children that share an inode-table block under *)
(* headers of at most MaxPerHeader entries.  readDir (dir.go) then lists any   *)
(* directory of the image, or one of an image of another tool.  A byte is      *)
(* <<kind, value, k>>: byte k of the structure of that kind with those fields. *)
(* A node stands for its own name.                                             *)
(***************************************************************************)
EXTENDS MetaTable, FiniteSets

CONSTANTS Trees,          \* trees: [node -> [kind, nameLen, size, children]]
          Root,
          DirHeader,      \* bytes of a directory header (12)
          EntryHeader,    \* bytes of an entry before its name (8)
          MaxPerHeader,   \* 256
          MaxName,        \* 256
          SizeBias,       \* the stored size of an empty directory (3)
          SizeWidth,      \* 2^16: file_size of a basic-directory inode
          DeltaWidth,     \* 2^16: the signed inode delta of an entry
          MaxDirEntries,  \* maxDirEntries
          ForeignDirs,    \* listings of other tools: [stored, bytes]
          TablesStart     \* iw.data.Len() when the tables are laid out

ASSUME LayoutAssumption == EntryHeader <= DirHeader

VARIABLES tree,
          raw,        \* BuildOptions.Uncompressed
          stack,      \* the calls of emitNode: [node, i], i the next child
          inodes,     \* iw.inodes
          dirs,       \* iw.dirs
          num,        \* iw.inodeNum
          node,       \* inodeRef and inodeNum of each node, zero until emitted
          area,       \* the metadata blocks of the finished image
          dirStart,   \* DirTableStart
          rd          \* the readDir in progress

vars == <<tree, raw, stack, inodes, dirs, num, node, area, dirStart, rd>>

\* readDir of the listing that starts with these bytes.
Listing(n, bytes, stored) ==
  [st |-> "reading", of |-> n, bytes |-> bytes,
   remaining |-> IF stored <= SizeBias THEN 0 ELSE stored - SizeBias,
   left |-> 0, block |-> 0, base |-> 0, out |-> <<>>]

NoList == [Listing(Root, <<>>, 0) EXCEPT !.st = "none"]

\* buildImage starts on a tree; or readDir starts on a listing of another tool,
\* whose tree plays no part.
Init ==
  /\ \/ /\ tree \in Trees
        /\ raw \in BOOLEAN
        /\ stack = <<[node |-> Root, i |-> 1]>>
        /\ rd = NoList
     \/ /\ tree = CHOOSE t \in Trees : TRUE
        /\ raw = FALSE
        /\ stack = <<>>
        /\ \E f \in ForeignDirs : rd = Listing(Root, f.bytes, f.stored)
  /\ inodes = EmptyTable
  /\ dirs = EmptyTable
  /\ num = 0
  /\ node = [n \in DOMAIN tree |-> [num |-> 0, ref |-> [block |-> 0, offset |-> 0]]]
  /\ area = <<>>
  /\ dirStart = TablesStart

-----------------------------------------------------------------------------
\* The bytes of one structure of n bytes.
Bytes(kind, value, n) == [k \in 1..n |-> <<kind, value, k>>]

top == stack[Len(stack)]

children(n) == tree[n].children

\* n.children after sort.Slice in emitDirInode.
byName(cs) == SortSeq(cs, LAMBDA a, b : a < b)

\* A number kept in a signed field of DeltaWidth values.
int16(d) == ((d + DeltaWidth \div 2) % DeltaWidth) - DeltaWidth \div 2

\* Mutant: children of different inode blocks share a header.
sameBlock_Any(a, b) == TRUE

\* The inodes of a and b start in one block of the inode table.
sameBlock(a, b) == node[a].ref.block = node[b].ref.block

\* The first child of the group that each child of cs shares a header with.
header(cs) ==
  LET h[i \in 1..Len(cs)] ==
        IF i = 1 THEN 1
        ELSE IF /\ i - h[i - 1] < MaxPerHeader
                /\ sameBlock(cs[i], cs[h[i - 1]])
             THEN h[i - 1] ELSE i
  IN  h

buildDirListing(cs) ==
  LET h == header(cs)
      hdr(i) == Bytes("header", [count |-> Cardinality({j \in DOMAIN cs : h[j] = i}) - 1,
                                 block |-> node[cs[i]].ref.block,
                                 base |-> node[cs[i]].num], DirHeader)
      entry(i) == Bytes("entry", [offset |-> node[cs[i]].ref.offset,
                                  delta |-> int16(node[cs[i]].num - node[cs[h[i]]].num),
                                  type |-> tree[cs[i]].kind,
                                  len |-> tree[cs[i]].nameLen - 1], EntryHeader)
  IN  FlattenSeq([i \in 1..Len(cs) |->
        (IF h[i] = i THEN hdr(i) ELSE <<>>) \o entry(i)
          \o Bytes("name", cs[i], tree[cs[i]].nameLen)])

\* nextInode, and the reference the inode of n gets.
Number(n) ==
  /\ num' = num + 1
  /\ node' = [node EXCEPT ![n] = [num |-> num + 1, ref |-> ref(inodes)]]

NextChild == [stack EXCEPT ![Len(stack)].i = @ + 1]

Walking == stack # <<>>

\* emitNode of a child that is a file or a symlink: its inode is written.
EmitLeaf ==
  /\ Walking
  /\ top.i <= Len(children(top.node))
  /\ LET n == children(top.node)[top.i]
     IN  /\ tree[n].kind # "dir"
         /\ Number(n)
         /\ inodes' \in write(inodes, Bytes(tree[n].kind, n, tree[n].size), raw)
  /\ stack' = NextChild
  /\ UNCHANGED <<tree, raw, dirs, area, dirStart, rd>>

\* emitNode of a child that is a directory: its children come first.
Descend ==
  /\ Walking
  /\ top.i <= Len(children(top.node))
  /\ LET n == children(top.node)[top.i]
     IN  /\ tree[n].kind = "dir"
         /\ stack' = Append(NextChild, [node |-> n, i |-> 1])
  /\ UNCHANGED <<tree, raw, inodes, dirs, num, node, area, dirStart, rd>>

\* emitDirInode: the listing goes into the directory table, then the inode, with
\* the listing's reference and its size, into the inode table.
EmitDirInode ==
  /\ Walking
  /\ top.i > Len(children(top.node))
  /\ LET n == top.node
         listing == buildDirListing(byName(children(n)))
         body == [block |-> ref(dirs).block, offset |-> ref(dirs).offset,
                  size |-> (Len(listing) + SizeBias) % SizeWidth]
     IN  /\ dirs' \in write(dirs, listing, raw)
         /\ Number(n)
         /\ inodes' \in write(inodes, Bytes("dir", body, tree[n].size), raw)
  /\ stack' = Front(stack)
  /\ UNCHANGED <<tree, raw, area, dirStart, rd>>

Built == area # <<>>

\* The end of buildImage: both tables are finished and follow one another.
Finish ==
  /\ ~Walking /\ ~Built /\ num > 0
  /\ inodes' \in finish(inodes, raw)
  /\ dirs' \in finish(dirs, raw)
  /\ dirStart' = TablesStart + inodes'.len
  /\ area' = Placed(inodes', TablesStart) \o Placed(dirs', dirStart')
  /\ UNCHANGED <<tree, raw, stack, num, node, rd>>

-----------------------------------------------------------------------------
InListing == rd.st = "reading"

\* The metadata stream at an offset in the block at `at'.
StreamAt(at, off) == LET s == StreamFrom(area, at) IN SubSeq(s, off + 1, Len(s))

\* newMetaCursor succeeds: a block is there, and it is no shorter than the offset.
Positions(at, off) == Starts(area, at) /\ off <= Len(BlockAt(area, at).payload)

\* readInode of a basic directory: the fields of the inode at a reference.
readInode(r) == StreamAt(TablesStart + r.block, r.offset)[1][2]

\* ListDir of a directory whose inode reference is known: readInode, then the
\* cursor readDir opens unless the listing is empty.
ListDir(n) ==
  /\ Built
  /\ ~InListing
  /\ tree[n].kind = "dir"
  /\ LET inode == readInode(node[n].ref)
         at == dirStart + inode.block
     IN  rd' = IF inode.size <= SizeBias THEN Listing(n, <<>>, inode.size)
               ELSE IF Positions(at, inode.offset)
               THEN Listing(n, StreamAt(at, inode.offset), inode.size)
               ELSE [NoList EXCEPT !.st = "corrupt", !.of = n]
  /\ UNCHANGED <<tree, raw, stack, inodes, dirs, num, node, area, dirStart>>

ends(err) == [rd EXCEPT !.st = err]

\* The rest of the listing after n bytes.
after(n) == SubSeq(rd.bytes, n + 1, Len(rd.bytes))

\* The outer loop of readDir: a header.
ReadHeader ==
  /\ InListing
  /\ rd.left = 0 /\ rd.remaining >= DirHeader
  /\ rd' = IF Len(rd.bytes) < DirHeader THEN ends("eof")
           ELSE LET hdr == rd.bytes[1][2]
                IN  IF hdr.count + 1 > MaxPerHeader THEN ends("corrupt")
                    ELSE [rd EXCEPT !.bytes = after(DirHeader), !.remaining = @ - DirHeader,
                            !.left = hdr.count + 1, !.block = hdr.block, !.base = hdr.base]
  /\ UNCHANGED <<tree, raw, stack, inodes, dirs, num, node, area, dirStart>>

\* The entry at the front of the listing, and the bytes it takes with its name.
entry == rd.bytes[1][2]

entryLen == EntryHeader + entry.len + 1

listed == [name |-> rd.bytes[EntryHeader + 1][2],
           ref |-> [block |-> rd.block, offset |-> entry.offset],
           number |-> rd.base + entry.delta, type |-> entry.type]

\* Mutant: the length of the name is not compared with what is left.
badLength_NotLeft == entry.len + 1 > MaxName

badLength == entryLen > rd.remaining \/ entry.len + 1 > MaxName

\* The inner loop: an entry and its name.
ReadEntry ==
  /\ InListing
  /\ rd.left > 0 /\ rd.remaining >= EntryHeader
  /\ rd' = IF Len(rd.bytes) < EntryHeader THEN ends("eof")
           ELSE IF badLength THEN ends("corrupt")
           ELSE IF Len(rd.bytes) < entryLen THEN ends("eof")
           ELSE IF Len(rd.out) >= MaxDirEntries THEN ends("toolarge")
           ELSE [rd EXCEPT !.bytes = after(entryLen), !.remaining = @ - entryLen,
                           !.left = @ - 1, !.out = Append(@, listed)]
  /\ UNCHANGED <<tree, raw, stack, inodes, dirs, num, node, area, dirStart>>

\* Mutant: the listing ends only after all entries of a header.
exhausted_WholeHeader == rd.left = 0 /\ rd.remaining < DirHeader

\* Too little is left for the next entry of the header, or for a header.
exhausted == rd.remaining < IF rd.left > 0 THEN EntryHeader ELSE DirHeader

EndOfList ==
  /\ InListing
  /\ exhausted
  /\ rd' = ends("nil")
  /\ UNCHANGED <<tree, raw, stack, inodes, dirs, num, node, area, dirStart>>

Next == \/ EmitLeaf
        \/ Descend
        \/ EmitDirInode
        \/ Finish
        \/ \E n \in DOMAIN tree : ListDir(n)
        \/ ReadHeader
        \/ ReadEntry
        \/ EndOfList

Spec == Init /\ [][Next]_vars /\ WF_vars(ReadHeader \/ ReadEntry \/ EndOfList)

-----------------------------------------------------------------------------
\* readDir never reads past the size in the directory's inode, a header never
\* leaves more entries to read than it may introduce, and a listing never holds
\* more entries than maxDirEntries.
TypeOK ==
  /\ rd.remaining \in Nat
  /\ rd.left \in 0..MaxPerHeader
  /\ Len(rd.out) <= MaxDirEntries
  /\ num \in 0..Cardinality(DOMAIN tree)

\* What ListDir should return for a directory of the tree.
Expected(n) ==
  LET cs == byName(children(n))
  IN  [i \in 1..Len(cs) |-> [name |-> cs[i], ref |-> node[cs[i]].ref,
                             number |-> node[cs[i]].num, type |-> tree[cs[i]].kind]]

\* Every directory that BuildFromDir writes lists, without error, exactly its
\* children in order of name, each with the reference and number of its inode,
\* however the listing is cut into headers and metadata blocks.
ListsChildren ==
  Built /\ rd.st \notin {"none", "reading"} => rd.st = "nil" /\ rd.out = Expected(rd.of)

\* readDir ends on every listing, also on one whose header promises more entries
\* than its size has room for.
ListReturns == InListing ~> ~InListing
=============================================================================
